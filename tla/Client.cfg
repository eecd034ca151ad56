SPECIFICATION FairSpec
CONSTANTS
  Clients = {"c1", "c2"}
  Tasks <- MCTasks
  Codes = {0, 2}
  Commands <- MCCommands
  Undistributable = {"a", "b"}
  Outputs = {"fits"}
INVARIANTS ConversationInv
PROPERTIES CommandSpec 
CHECK_DEADLOCK FALSE
