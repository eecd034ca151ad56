---------------------------- MODULE DetectedNodes ----------------------------
(***************************************************************************)
(* NodeManager with the two kinds of node lists (manager/__init__.py): a   *)
(* FixedNodeList, asked once, and a NodeDetector, which                    *)
(* update_node_info_coro (manager/node_manager.py) asks every second.      *)
(***************************************************************************)
EXTENDS NodeManager

CONSTANT DetectedTasks   \* bound on the tasks scheduled to detected nodes

ASSUME DetectedTasksAssumption == DetectedTasks \in Nat

VARIABLES
  list,         \* the kind of node list
  workingSet,   \* NodeDetector.current_working_set
  polling,      \* update_node_info_coro will run again
  known         \* ghost: node_info when the queue was empty last

INSTANCE NodeDetector

detectorVars == <<list, workingSet, polling>>

\* The node list is empty until the first round.
DetectedInit ==
  /\ Init
  /\ list \in {"fixed", "detected"}
  /\ workingSet = [n \in {} |-> 0]
  /\ polling = TRUE
  /\ known = {}

UpdateOnce ==
  /\ list = "fixed"
  /\ UpdateNodeInfo
  /\ UNCHANGED detectorVars

\* A round of update_node_info_coro.  NodeDetector does not return a list but
\* the view of the keys of its own dictionary.  From the second round on,
\* node_info is the very view new_node_info is compared with, so no node is found
\* to be gone or new: nothing is terminated and __find_work is not called.  If
\* the detector raises, the coroutine ends, and the view has changed all the same.
Poll ==
  /\ list = "detected"
  /\ polling
  /\ \E replies \in SUBSET Nodes :
       \/ Detect(replies) /\ UNCHANGED polling
       \/ DetectRaises(replies) /\ polling' = FALSE
  /\ polled' = TRUE
  /\ nodeInfo' = DOMAIN workingSet'
  /\ UNCHANGED <<list, queue, connecting, running, link, timed, taskVars>>

NewTask ==
  /\ list = "detected" => Cardinality({t \in Tasks : stage[t] # "new"}) < DetectedTasks
  /\ \E t \in Tasks : TaskPreprocessed(t)
  /\ UNCHANGED detectorVars

DetectedNext ==
  /\ UpdateOnce \/ Poll \/ NewTask \/ (NodeStep /\ UNCHANGED detectorVars)
  /\ known' = IF queue' = <<>> \/ queue = <<>> THEN nodeInfo' ELSE known

DetectedSpec == DetectedInit /\ [][DetectedNext]_<<vars, detectorVars, known>>

-----------------------------------------------------------------------------
(* Properties.                                                             *)

\* Type invariant.
DetectedTypeOK == TypeOK /\ WorkingSetTypeOK /\ known \subseteq Nodes

\* No task gets lost between the lists it can be in, whichever list of nodes is
\* used and however it changes.
PlacementInv == DetectedTypeOK /\ TasksPlaced

\* Tasks wait in the queue only while every node is filled that was in the list
\* when the first of them was queued: schedule_task does not pass over the queue
\* and __find_work takes as much as there is room for, whether or not the node
\* is still in the list.  As long as no connection has failed.  Nodes found
\* later are not told of the queue.
NoIdleNode ==
  dropped = {} /\ queue # <<>> =>
    \A n \in known : Len(running[n]) + Len(connecting[n]) > JobSlots

=============================================================================
