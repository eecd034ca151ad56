-------------------------------- MODULE Task --------------------------------
(***************************************************************************)
(* The manager's Task (src/Python/buildpal/manager/task.py): one source    *)
(* file to be compiled by some node.  The task may have several server     *)
(* sessions at once (NodeManager lets an idle node steal it), the first    *)
(* session that reports a compilation owns the result, the others are      *)
(* cancelled, and a task whose sessions failed is scheduled again.         *)
(*                                                                         *)
(* The operators Do... are what the methods of Task change; the actions    *)
(* below them add what the task expects of its sessions, so TaskSpec is    *)
(* the abstract specification that SessionProtocol, where the sessions are *)
(* played out message by message, is checked against.                      *)
(***************************************************************************)
EXTENDS Naturals

CONSTANTS
  Sessions,      \* the ServerSession objects that can ever be created
  None,          \* completed_by_session is None
  OwnerMayFail,  \* may the session that owns the result still fail?
  MaxPending     \* bound: idle nodes do not steal beyond this many placements

ASSUME NoneAssumption == None \notin Sessions
ASSUME OwnerMayFailAssumption == OwnerMayFail \in BOOLEAN
ASSUME MaxPendingAssumption == MaxPending \in Nat

VARIABLES
  phase,         \* sessions_running and sessions_finished, per session
  cancelled,     \* ServerSession.cancelled
  result,        \* ServerSession.result
  completedBy,   \* Task.completed_by_session
  pending,       \* times the task is queued in NodeManager or its connection awaited
  answered,      \* calls of CommandProcessor.task_completed for this task
  sessionsDone   \* calls of CommandProcessor.all_sessions_done for this task

taskVars == <<phase, cancelled, result, completedBy, pending, answered, sessionsDone>>

Phases == {"new", "running", "finished"}

\* SessionResult, and the results that make Task.session_completed reschedule.
Failures == {"failure", "timed_out", "terminated"}
Results  == Failures \cup {"success", "cancelled", "too_late"}

\* Mutant: a task is completed when its client has the answer.
IsCompleted_Answered == answered > 0

\* Task.is_completed
IsCompleted == completedBy # None

Running == {s \in Sessions : phase[s] = "running"}

TaskTypeOK ==
  /\ phase \in [Sessions -> Phases]
  /\ cancelled \in [Sessions -> BOOLEAN]
  /\ result \in [Sessions -> Results \cup {None}]
  /\ completedBy \in Sessions \cup {None}
  /\ pending \in Nat
  /\ answered \in Nat
  /\ sessionsDone \in Nat

\* NodeManager.schedule_task has been called for the task.
TaskInit ==
  /\ phase = [s \in Sessions |-> "new"]
  /\ cancelled = [s \in Sessions |-> FALSE]
  /\ result = [s \in Sessions |-> None]
  /\ completedBy = None
  /\ pending = 1
  /\ answered = 0
  /\ sessionsDone = 0

-----------------------------------------------------------------------------
(* What the methods of Task change.                                        *)

DoRegisterSession(s) ==
  /\ phase' = [phase EXCEPT ![s] = "running"]
  /\ pending' = pending - 1
  /\ UNCHANGED <<cancelled, result, completedBy, answered, sessionsDone>>

CancelOthers(s) == [t \in Sessions |-> cancelled[t] \/ t \in Running \ {s}]

DoRegisterCompletion(s) ==
  /\ completedBy' = s
  /\ cancelled' = CancelOthers(s)
  /\ UNCHANGED <<phase, result, pending, answered, sessionsDone>>

\* Mutant: any completed session gives up the ownership of the result.
DoSessionCompleted_AlwaysDisowns(s, r, owner) ==
  LET last == Running \ {s} = {}
  IN  /\ phase' = [phase EXCEPT ![s] = "finished"]
      /\ result' = [result EXCEPT ![s] = r]
      /\ completedBy' = IF owner = s THEN None ELSE owner
      /\ pending' = pending + (IF r \in Failures /\ completedBy' = None /\ last THEN 1 ELSE 0)
      /\ sessionsDone' = sessionsDone + (IF r \notin Failures /\ last THEN 1 ELSE 0)
      /\ answered' = answered + (IF r = "success" THEN 1 ELSE 0)

\* Mutant: a failed session clears the owner, whoever it is.
DoSessionCompleted_ClearsOwner(s, r, owner) ==
  LET failed == r \in Failures
      last   == Running \ {s} = {}
  IN  /\ phase' = [phase EXCEPT ![s] = "finished"]
      /\ result' = [result EXCEPT ![s] = r]
      /\ completedBy' = IF failed THEN None ELSE owner
      /\ pending' = pending + (IF failed /\ last THEN 1 ELSE 0)
      /\ sessionsDone' = sessionsDone + (IF ~failed /\ owner # None /\ last THEN 1 ELSE 0)
      /\ answered' = answered + (IF r = "success" THEN 1 ELSE 0)

\* Mutant: a failed task is not scheduled again.
DoSessionCompleted_NoReschedule(s, r, owner) ==
  LET newOwner == IF r \in Failures /\ owner = s THEN None ELSE owner
  IN  /\ phase' = [phase EXCEPT ![s] = "finished"]
      /\ result' = [result EXCEPT ![s] = r]
      /\ completedBy' = newOwner
      /\ sessionsDone' = sessionsDone + (IF r \notin Failures /\ newOwner # None
                                            /\ Running \ {s} = {} THEN 1 ELSE 0)
      /\ answered' = answered + (IF r = "success" THEN 1 ELSE 0)
      /\ UNCHANGED pending

\* Mutant: the sessions still running are not looked at.
DoSessionCompleted_IgnoresRunning(s, r, owner) ==
  LET failed   == r \in Failures
      newOwner == IF failed /\ owner = s THEN None ELSE owner
  IN  /\ phase' = [phase EXCEPT ![s] = "finished"]
      /\ result' = [result EXCEPT ![s] = r]
      /\ completedBy' = newOwner
      /\ pending' = pending + (IF failed /\ newOwner = None THEN 1 ELSE 0)
      /\ sessionsDone' = sessionsDone + (IF ~failed /\ newOwner # None THEN 1 ELSE 0)
      /\ answered' = answered + (IF r = "success" THEN 1 ELSE 0)

\* session_completed, called when completed_by_session is owner, followed by
\* the schedule_task that NodeManager adds when it returns a false value.
DoSessionCompleted(s, r, owner) ==
  LET failed   == r \in Failures
      newOwner == IF failed /\ owner = s THEN None ELSE owner
      last     == Running \ {s} = {}
  IN  /\ phase' = [phase EXCEPT ![s] = "finished"]
      /\ result' = [result EXCEPT ![s] = r]
      /\ completedBy' = newOwner
      /\ pending' = pending + (IF failed /\ newOwner = None /\ last THEN 1 ELSE 0)
      /\ sessionsDone' = sessionsDone +
                         (IF ~failed /\ newOwner # None /\ last THEN 1 ELSE 0)
      /\ answered' = answered + (IF r = "success" THEN 1 ELSE 0)

-----------------------------------------------------------------------------
(* What the task expects of its sessions.                                  *)

\* A connection for the task is ready: NodeManager.create_session.
CreateSession(s) ==
  /\ phase[s] = "new"
  /\ pending > 0
  /\ DoRegisterSession(s)

\* An idle node takes a task that runs somewhere else and is not completed.
Steal ==
  /\ Running # {}
  /\ completedBy = None
  /\ pending < MaxPending
  /\ pending' = pending + 1
  /\ UNCHANGED <<phase, cancelled, result, completedBy, answered, sessionsDone>>

\* Mutant: register_completion does not look at completed_by_session.
\* A server reports an object file for a task nobody has completed.
RegisterCompletion(s) ==
  /\ phase[s] = "running"
  /\ completedBy = None
  /\ DoRegisterCompletion(s)

\* A server reports that the compiler found errors: there is no object file,
\* so the session registers and succeeds in one step.
CompleteWithErrors(s) ==
  /\ phase[s] = "running"
  /\ completedBy = None
  /\ ~cancelled[s]
  /\ DoSessionCompleted(s, "success", s)
  /\ cancelled' = CancelOthers(s)

SessionSucceeded(s) ==
  /\ phase[s] = "running"
  /\ completedBy = s
  /\ ~cancelled[s]
  /\ DoSessionCompleted(s, "success", completedBy)
  /\ UNCHANGED cancelled

\* A report for a task that another session has completed.  The second case
\* is a report delivered again after the assertion on line 137 of
\* compile_session.py stopped its first handling.
SessionTooLate(s) ==
  /\ phase[s] = "running"
  /\ completedBy # None
  /\ completedBy = s => cancelled[s]
  /\ DoSessionCompleted(s, "too_late", completedBy)
  /\ UNCHANGED cancelled

SessionCancelled(s) ==
  /\ phase[s] = "running"
  /\ cancelled[s]
  /\ DoSessionCompleted(s, "cancelled", completedBy)
  /\ UNCHANGED cancelled

SessionFailed(s, r) ==
  /\ phase[s] = "running"
  /\ completedBy = s => OwnerMayFail
  /\ DoSessionCompleted(s, r, completedBy)
  /\ UNCHANGED cancelled

TaskNext ==
  \/ Steal
  \/ \E s \in Sessions :
       \/ CreateSession(s)
       \/ RegisterCompletion(s)
       \/ CompleteWithErrors(s)
       \/ SessionSucceeded(s)
       \/ SessionTooLate(s)
       \/ SessionCancelled(s)
       \/ \E r \in Failures : SessionFailed(s, r)

TaskSpec == TaskInit /\ [][TaskNext]_taskVars

-----------------------------------------------------------------------------
(* Properties.                                                             *)

\* The client's command is told the outcome of a task at most once, however
\* many sessions report one: the assertion of CommandProcessor.task_completed
\* that a task is not completed twice (command_processor.py:202).
AnsweredAtMostOnce == answered <= 1

\* After the answer the owner never changes again, so no later session can be
\* asked for its object file and overwrite the one on disk.
OwnerIsFinal == [][answered > 0 => completedBy' = completedBy]_taskVars

\* A task that has not been answered is running somewhere or waits to be
\* scheduled: session_completed reschedules it whenever it must (task.py:77-85).
TaskNotLost == answered = 0 => Running # {} \/ pending > 0

\* all_sessions_done, which records the task in the database, is only reported
\* for a task whose client has its answer (task.py:87-101).
RecordedOnlyWhenAnswered == sessionsDone > 0 => answered > 0

=============================================================================
