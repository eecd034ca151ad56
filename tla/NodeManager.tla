----------------------------- MODULE NodeManager -----------------------------
(***************************************************************************)
(* NodeManager (manager/node_manager.py): which node compiles which task.  *)
(* A task goes to a node with a free slot, or to the queue of unassigned   *)
(* tasks.  A node that ends a session takes tasks from the queue or,       *)
(* failing that, steals tasks that run on other nodes.  A session starts   *)
(* when a connection to its node is there; slots are counted by sessions,  *)
(* so a task whose connection is awaited does not occupy one.              *)
(*                                                                         *)
(* What one session exchanges with its server is SessionProtocol; here it  *)
(* runs, may become the owner of its task, and ends.  The session that     *)
(* owns a task delivers (Task shows what happens otherwise).               *)
(***************************************************************************)
EXTENDS Integers, SequencesExt

CONSTANTS
  Nodes,         \* the NodeInfo objects there can be
  Tasks,
  NoNode,        \* a task nobody has completed
  JobSlots,      \* job_slots of every node
  MaxRatio,      \* bound on the ratio of average task times
  MaxLoad,       \* bound on the sessions of a node, awaited ones included
  Faults         \* what may go wrong: a subset of {"connect", "lost"}

ASSUME NodesAssumption == IsFiniteSet(Nodes) /\ NoNode \notin Nodes
ASSUME SlotsAssumption == JobSlots \in Nat \ {0} /\ MaxRatio \in Nat /\ MaxLoad \in Nat
ASSUME FaultsAssumption == Faults \subseteq {"connect", "lost"}

VARIABLES
  nodeInfo,      \* node_info, the nodes that are used
  polled,        \* update_node_info_coro has run
  queue,         \* unassigned_tasks
  connecting,    \* for each node, the tasks whose __get_server_conn is not done
  running,       \* tasks_running
  link,          \* the connection all_sockets has for a node
  timed,         \* average_task_time of the node is not 0
  stage,         \* of a task: new, scheduled or answered
  owner,         \* the node of completed_by_session
  dropped        \* tasks whose connection failed

nodeVars == <<nodeInfo, polled>>
taskVars == <<stage, owner, dropped>>
vars == <<nodeVars, queue, connecting, running, link, timed, taskVars>>

TypeOK ==
  /\ nodeInfo \subseteq Nodes
  /\ polled \in BOOLEAN
  /\ queue \in Seq(Tasks)
  /\ connecting \in [Nodes -> Seq(Tasks)]
  /\ running \in [Nodes -> Seq(Tasks)]
  /\ link \in [Nodes -> {"none", "up", "lost"}]
  /\ timed \in [Nodes -> BOOLEAN]
  /\ stage \in [Tasks -> {"new", "scheduled", "answered"}]
  /\ owner \in [Tasks -> Nodes \cup {NoNode}]
  /\ dropped \subseteq Tasks

Init ==
  /\ nodeInfo = {}
  /\ polled = FALSE
  /\ queue = <<>>
  /\ connecting = [n \in Nodes |-> <<>>]
  /\ running = [n \in Nodes |-> <<>>]
  /\ link = [n \in Nodes |-> "none"]
  /\ timed = [n \in Nodes |-> FALSE]
  /\ stage = [t \in Tasks |-> "new"]
  /\ owner = [t \in Tasks |-> NoNode]
  /\ dropped = {}

-----------------------------------------------------------------------------
(* The nodes.                                                              *)

\* update_node_info_coro for a FixedNodeList, which is asked only once
\* (update_interval is 0).  There are no tasks yet for the new nodes to take: the
\* pipe for clients is opened later.  DetectedNodes has the other kind of list.
UpdateNodeInfo ==
  /\ ~polled
  /\ polled' = TRUE
  /\ nodeInfo' = Nodes
  /\ UNCHANGED <<queue, connecting, running, link, timed, taskVars>>

-----------------------------------------------------------------------------
(* Scheduling.                                                             *)

\* Mutant: a node gets no task more than it has slots.
FreeSlots_NoSpare(n) == JobSlots - Len(running'[n])

\* __free_slots: a node gets one task more than it has slots.
FreeSlots(n) == JobSlots + 1 - Len(running'[n])

\* What __best_node can return: average times are measured, so any node with a
\* free slot may have the least weight.
BestNodes == {n \in nodeInfo : FreeSlots(n) > 0}

\* __schedule_task_to_specific_node for some tasks.
ConnectFor(conn, n, tasks) == [conn EXCEPT ![n] = @ \o tasks]

\* schedule_task, when the queue is q and the awaited connections are conn.
ScheduleTask(t, q, conn, high) ==
  \/ /\ q # <<>> \/ BestNodes = {}
     /\ queue' = (IF high THEN <<t>> \o q ELSE Append(q, t))
     /\ connecting' = conn
  \/ /\ q = <<>>
     /\ \E n \in BestNodes : queue' = q /\ connecting' = ConnectFor(conn, n, <<t>>)

\* The preprocessed task comes from the source scanner.
TaskPreprocessed(t) ==
  /\ polled
  /\ stage[t] = "new"
  /\ stage' = [stage EXCEPT ![t] = "scheduled"]
  /\ UNCHANGED <<nodeVars, running, link, timed, owner, dropped>>
  /\ ScheduleTask(t, queue, connecting, FALSE)

\* create_session
CreateSession(n) ==
  \E i \in DOMAIN connecting[n] :
    /\ connecting' = [connecting EXCEPT ![n] = RemoveAt(@, i)]
    /\ running' = [running EXCEPT ![n] = Append(@, connecting[n][i])]
    /\ link' = [link EXCEPT ![n] = IF @ = "none" THEN "up" ELSE @]
    /\ UNCHANGED <<nodeVars, queue, timed, taskVars>>

\* create_connection fails, and future.result() raises in create_session.
ConnectFails(n) ==
  /\ "connect" \in Faults
  /\ link[n] = "none"
  /\ \E i \in DOMAIN connecting[n] :
       /\ connecting' = [connecting EXCEPT ![n] = RemoveAt(@, i)]
       /\ dropped' = dropped \cup {connecting[n][i]}
  /\ UNCHANGED <<nodeVars, queue, running, link, timed, stage, owner>>

\* The connection breaks; all_sockets keeps it.
ConnectionLost(n) ==
  /\ "lost" \in Faults
  /\ link[n] = "up"
  /\ link' = [link EXCEPT ![n] = "lost"]
  /\ UNCHANGED <<nodeVars, queue, connecting, running, timed, taskVars>>

-----------------------------------------------------------------------------
(* The end of a session.                                                   *)

\* __tasks_viable_for_stealing, and the tasks of it that are stolen.
Loot(from, n, ratio) ==
  LET viable == Reverse(SubSeq(running'[from], ratio * JobSlots + 1, Len(running'[from])))
      stolen(t) == IF owner[t] = NoNode /\ t \notin ToSet(running'[n]) THEN <<t>> ELSE <<>>
  IN  IF timed[from] /\ timed[n] THEN FlattenSeq([i \in DOMAIN viable |-> stolen(viable[i])])
                                 ELSE <<>>

\* The tasks a node can steal, for every order of the dictionary tasks_running.
LootOfAll(order, n, ratio) ==
  FlattenSeq([i \in DOMAIN order |-> Loot(order[i], n, ratio[order[i]])])
Loots(n) ==
  {LootOfAll(order, n, ratio) :
     order \in SetToSeqs(Nodes \ {n}), ratio \in [Nodes \ {n} -> 0..MaxRatio]}

FirstOf(s, k) == SubSeq(s, 1, IF k < Len(s) THEN k ELSE Len(s))
Without(s, k) == SubSeq(s, k + 1, Len(s))

\* The tasks __find_work takes from the queue.
Taken(n) == FirstOf(queue, FreeSlots(n))

\* Mutant: a node that can steal leaves the queue alone.
WorkFor_StealsFirst(n) == {FirstOf(stolen, FreeSlots(n)) : stolen \in Loots(n)}

\* What __find_work may find for a node: tasks of the queue, and if they do not
\* fill the node, tasks of other nodes.
WorkFor(n) ==
  LET left == FreeSlots(n) - Len(Taken(n))
  IN  IF left > 0 /\ Len(running'[n]) < JobSlots
        THEN {Taken(n) \o FirstOf(stolen, left) : stolen \in Loots(n)}
        ELSE {Taken(n)}

Elsewhere(t, n) == \/ t \in ToSet(RemoveFirst(running[n], t))
                   \/ \E m \in Nodes \ {n} : t \in ToSet(running[m])

\* session_completed of create_session, for a session of task t on node n.
SessionCompleted(t, n, reschedule) ==
  /\ running' = [running EXCEPT ![n] = RemoveFirst(@, t)]
  /\ \E work \in WorkFor(n) :
       LET q    == Without(queue, Len(Taken(n)))
           conn == ConnectFor(connecting, n, work)
       IN  IF reschedule THEN ScheduleTask(t, q, conn, TRUE)
                         ELSE queue' = q /\ connecting' = conn
  /\ \A m \in Nodes : Len(running'[m]) + Len(connecting'[m]) <= MaxLoad

\* The session is the first to have compiled its task.
RegisterCompletion(t, n) ==
  /\ t \in ToSet(running[n])
  /\ link[n] # "lost"
  /\ owner[t] = NoNode
  /\ owner' = [owner EXCEPT ![t] = n]
  /\ UNCHANGED <<nodeVars, queue, connecting, running, link, timed, stage, dropped>>

\* The owner has written its result.
Success(t, n) ==
  /\ t \in ToSet(running[n])
  /\ link[n] # "lost"
  /\ owner[t] = n
  /\ stage[t] = "scheduled"
  /\ SessionCompleted(t, n, FALSE)
  /\ stage' = [stage EXCEPT ![t] = "answered"]
  /\ timed' = [timed EXCEPT ![n] = TRUE]
  /\ UNCHANGED <<nodeVars, link, owner, dropped>>

\* Not the session that still has to deliver the result.
NotOwner(t, n) ==
  owner[t] = n /\ stage[t] = "scheduled" => t \in ToSet(RemoveFirst(running[n], t))

\* A session of a completed task is cancelled or too late.
NotNeeded(t, n) ==
  /\ t \in ToSet(running[n])
  /\ link[n] # "lost"
  /\ owner[t] # NoNode
  /\ NotOwner(t, n)
  /\ SessionCompleted(t, n, FALSE)
  /\ UNCHANGED <<nodeVars, link, timed, taskVars>>

\* A session fails or times out.
Failure(t, n) ==
  /\ t \in ToSet(running[n])
  /\ link[n] # "lost"
  /\ NotOwner(t, n)
  /\ SessionCompleted(t, n, owner[t] = NoNode /\ ~Elsewhere(t, n))
  /\ UNCHANGED <<nodeVars, link, timed, taskVars>>

-----------------------------------------------------------------------------
SessionEnds(t, n) == Success(t, n) \/ NotNeeded(t, n) \/ Failure(t, n)

\* What the nodes do once a task is there.
NodeStep ==
  \/ \E n \in Nodes : CreateSession(n) \/ ConnectFails(n) \/ ConnectionLost(n)
  \/ \E t \in Tasks, n \in Nodes : RegisterCompletion(t, n) \/ SessionEnds(t, n)

-----------------------------------------------------------------------------
(* Properties.                                                             *)

\* A task that is not answered is queued, waits for a connection or runs,
\* through stealing, failures and rescheduling; only a connection that cannot
\* be made drops it (node_manager.py:116-117).
TasksPlaced ==
  \A t \in Tasks : stage[t] = "scheduled" =>
    \/ t \in ToSet(queue) \cup dropped
    \/ \E n \in Nodes : t \in ToSet(connecting[n]) \cup ToSet(running[n])

=============================================================================
