----------------------- MODULE SessionProtocol_proofs -----------------------
(***************************************************************************)
(* Proofs about SessionProtocol, for any set of sessions, any resources    *)
(* and any faults: whatever the servers and the network do, the manager's  *)
(* sessions treat their task as Task specifies, so what is proved of Task  *)
(* holds of the protocol.                                                  *)
(*                                                                         *)
(* The second half is about the messages.  Each end of a session is at a   *)
(* position of the protocol, and the messages on their way lead one end to *)
(* the position of the other: a queue is a path that never goes back.      *)
(* ChannelInv says so of both directions, together with what the states of *)
(* the two ends say about each other.                                      *)
(***************************************************************************)
EXTENDS SessionProtocol, Task_proofs, Integers, SequenceTheorems

Busy == {"WAIT_FOR_MISSING_FILES", "WAIT_FOR_SERVER_RESPONSE", "RECEIVE_OBJECT_FILE"}

ManagerTypeOK ==
  /\ TaskTypeOK
  /\ state \in [Sessions -> ManagerStates]
  /\ future \in [Sessions -> BOOLEAN]

\* What a session's state says about its place in the task.
PhaseOfState(s) ==
  /\ phase[s] = "new" <=> state[s] = "START"
  /\ phase[s] = "running" <=> state[s] \in Busy

\* The owner has been asked for its object file, has finished, or is a
\* cancelled session stopped by the assertion of compile_session.py:137.
OwnerState(s) ==
  completedBy = s => \/ state[s] \in {"RECEIVE_OBJECT_FILE", "FINISH"}
                     \/ state[s] = "WAIT_FOR_SERVER_RESPONSE" /\ cancelled[s]

\* Only a session that received an object file writes it.
WriterState(s) == future[s] => state[s] \in {"RECEIVE_OBJECT_FILE", "FINISH"}

ReceiverState(s) == state[s] = "RECEIVE_OBJECT_FILE" => completedBy = s /\ ~cancelled[s]

SessionInv(s) == PhaseOfState(s) /\ OwnerState(s) /\ WriterState(s) /\ ReceiverState(s)

ManagerInv == ManagerTypeOK /\ \A s \in Sessions : SessionInv(s)

-----------------------------------------------------------------------------
(* Steps that do not touch the task.                                       *)

\* Nothing the server does changes the manager's side of a session.
LEMMA ServerLeavesManager ==
  ASSUME NEW s \in Sessions, ServerStep(s) \/ ResourceReady(s) \/ SelfDestruct(s)
  PROVE  UNCHANGED <<taskVars, state, future>>
BY DEF ServerStep, ResourceReady, SelfDestruct, NewSession, ServerDropsMessage, GotCancel,
   GotTaskFiles, GotFilePart, CompileCompleted, GotConfirmation, ResultCompressed, Received

\* Handlers of the manager that change at most the state of their session.
QuietStep(s) ==
  ManagerDropsMessage(s) \/ GotMissingFiles(s) \/ SendPCH(s) \/ GotObjectPart(s)

\* These handlers do not touch the task.
LEMMA QuietLeavesTask ==
  ASSUME NEW s \in Sessions, QuietStep(s) PROVE UNCHANGED taskVars
BY DEF QuietStep, ManagerDropsMessage, GotMissingFiles, SendPCH, GotObjectPart

\* They keep the invariant of the manager's sessions.
LEMMA QuietKeepsInv ==
  ASSUME ManagerInv, NEW s \in Sessions, QuietStep(s) PROVE ManagerInv'
<1> USE DEF ManagerInv, ManagerTypeOK
<1>1. TaskTypeOK' /\ phase' = phase /\ completedBy' = completedBy /\ cancelled' = cancelled
  BY QuietLeavesTask DEF taskVars, TaskTypeOK
<1>2. CASE ManagerDropsMessage(s) \/ SendPCH(s)
  BY <1>1, <1>2 DEF ManagerDropsMessage, SendPCH, SessionInv, PhaseOfState, OwnerState,
     WriterState, ReceiverState
<1>3. CASE GotMissingFiles(s)
  <2>1. state[s] = "WAIT_FOR_MISSING_FILES"
    BY <1>3 DEF GotMissingFiles, ManagerGets, Expected, ManagerStates
  <2>2. state' = [state EXCEPT ![s] = "WAIT_FOR_SERVER_RESPONSE"] /\ future' = future
    BY <1>3 DEF GotMissingFiles
  <2> QED
    BY <1>1, <2>1, <2>2 DEF SessionInv, PhaseOfState, OwnerState, WriterState, ReceiverState,
       ManagerStates, Busy
<1>4. CASE GotObjectPart(s)
  <2>1. state[s] = "RECEIVE_OBJECT_FILE"
    BY <1>4 DEF GotObjectPart, ManagerGets, Expected, ManagerStates
  <2>2. PICK b \in BOOLEAN : state' = state /\ future' = [future EXCEPT ![s] = b]
    BY <1>4 DEF GotObjectPart
  <2> QED
    BY <1>1, <2>1, <2>2 DEF SessionInv, PhaseOfState, OwnerState, WriterState, ReceiverState
<1> QED
  BY <1>2, <1>3, <1>4 DEF QuietStep

-----------------------------------------------------------------------------
(* A session completes.                                                    *)

\* Completing s, with completedBy what it was: only the owner succeeds.
LEMMA CompleteKeepsInv ==
  ASSUME ManagerInv, ManagerTypeOK',
         NEW s \in Sessions, NEW r \in Results,
         phase[s] = "running",
         Complete(s, r), \A t \in Sessions : future'[t] => future[t]
  PROVE  ManagerInv'
<1> USE NoneAssumption DEF ManagerInv
<1>1. \A t \in Sessions : /\ phase'[t] = IF t = s THEN "finished" ELSE phase[t]
                          /\ state'[t] = IF t = s THEN "FINISH" ELSE state[t]
  BY DEF Complete, DoSessionCompleted, ManagerTypeOK, TaskTypeOK
<1>2. /\ cancelled' = cancelled
      /\ completedBy' = completedBy \/ completedBy' = None
      /\ completedBy' # completedBy => completedBy = s
  BY DEF Complete, DoSessionCompleted
<1>3. ASSUME NEW t \in Sessions PROVE SessionInv(t)'
  <2>1. PhaseOfState(t)'
    BY <1>1 DEF SessionInv, PhaseOfState, Busy
  <2>2. OwnerState(t)' /\ WriterState(t)'
    BY <1>1, <1>2 DEF SessionInv, OwnerState, WriterState
  <2>3. ReceiverState(t)'
    BY <1>1, <1>2 DEF SessionInv, ReceiverState
  <2> QED
    BY <2>1, <2>2, <2>3 DEF SessionInv
<1> QED
  BY <1>3

\* The handlers that end in __complete with completed_by_session as it was.
CompletingStep(s) ==
  \/ Terminate(s) \/ GotSessionCancelled(s) \/ GotTimedOut(s) \/ GotServerFailed(s)
  \/ GotLateCompletion(s) \/ Decompressed(s)

\* Each of them completes its running session with a result that Task allows
\* then, or is a decompression that ends in a terminated session.
LEMMA CompletingCases ==
  ASSUME ManagerInv, NEW s \in Sessions, CompletingStep(s)
  PROVE  \/ UNCHANGED <<taskVars, state>>
         \/ \E r \in Results :
              /\ phase[s] = "running"
              /\ Complete(s, r)
              /\ r = "success" => completedBy = s /\ ~cancelled[s]
              /\ r = "cancelled" => cancelled[s]
              /\ r = "too_late" => completedBy # None /\ (completedBy = s => cancelled[s])
<1> USE DEF ManagerInv, ManagerTypeOK
<1>1. CASE Terminate(s)
  BY <1>1 DEF Terminate, Results, Failures
<1>2. CASE GotSessionCancelled(s)
  <2>1. cancelled[s]
    BY <1>2 DEF GotSessionCancelled, ManagerGets, Expected, ManagerStates
  <2> QED
    BY <1>2, <2>1 DEF GotSessionCancelled, ManagerGets, Results
<1>3. CASE GotTimedOut(s)
  BY <1>3 DEF GotTimedOut, ManagerGets, Results, Failures
<1>4. CASE GotServerFailed(s)
  BY <1>4 DEF GotServerFailed, ManagerGets, Results, Failures
<1>5. CASE GotLateCompletion(s)
  <2>1. state[s] = "WAIT_FOR_SERVER_RESPONSE"
    BY <1>5 DEF GotLateCompletion, ManagerGets, Expected, ManagerStates
  <2>2. completedBy = s => cancelled[s]
    BY <2>1 DEF SessionInv, OwnerState
  <2> QED
    BY <1>5, <2>2 DEF GotLateCompletion, IsCompleted, ManagerGets, Results
<1>6. CASE Decompressed(s)
  <2>1. CASE state[s] = "FINISH"
    BY <1>6, <2>1 DEF Decompressed
  <2>2. CASE state[s] # "FINISH"
    <3>1. state[s] = "RECEIVE_OBJECT_FILE"
      BY <1>6, <2>2 DEF Decompressed, SessionInv, WriterState
    <3>2. phase[s] = "running" /\ completedBy = s /\ ~cancelled[s]
      BY <3>1 DEF SessionInv, PhaseOfState, ReceiverState, Busy
    <3> QED
      BY <1>6, <2>2, <3>2 DEF Decompressed, Results, Failures
  <2> QED
    BY <2>1, <2>2
<1> QED
  BY <1>1, <1>2, <1>3, <1>4, <1>5, <1>6 DEF CompletingStep

\* Every handler that completes a session keeps the invariant.
LEMMA CompletingKeepsInv ==
  ASSUME ManagerInv, NEW s \in Sessions, CompletingStep(s) PROVE ManagerInv'
<1>1. /\ future' \in [Sessions -> BOOLEAN]
      /\ \A t \in Sessions : future'[t] => future[t]
  BY DEF CompletingStep, Terminate, GotSessionCancelled, GotTimedOut, GotServerFailed,
     GotLateCompletion, Decompressed, ManagerInv, ManagerTypeOK
<1>2. CASE UNCHANGED <<taskVars, state>>
  BY <1>1, <1>2 DEF ManagerInv, ManagerTypeOK, taskVars, TaskTypeOK, SessionInv,
     PhaseOfState, OwnerState, WriterState, ReceiverState
<1>3. ASSUME NEW r \in Results, phase[s] = "running", Complete(s, r) PROVE ManagerInv'
  <2>1. TaskTypeOK'
    BY <1>3, CompletedType DEF Complete, ManagerInv, ManagerTypeOK, TaskTypeOK
  <2>2. state' \in [Sessions -> ManagerStates]
    BY <1>3 DEF Complete, ManagerInv, ManagerTypeOK, ManagerStates
  <2> QED
    BY <1>1, <1>3, <2>1, <2>2, CompleteKeepsInv DEF ManagerTypeOK
<1> QED
  BY <1>2, <1>3, CompletingCases

-----------------------------------------------------------------------------
(* The other steps.                                                        *)

\* So does the start of a session.
LEMMA StartKeepsInv ==
  ASSUME ManagerInv, NEW s \in Sessions, StartSession(s) PROVE ManagerInv'
<1> USE NoneAssumption DEF ManagerInv, ManagerTypeOK
<1>1. TaskTypeOK' /\ completedBy' = completedBy /\ cancelled' = cancelled
  BY DEF StartSession, DoRegisterSession, TaskTypeOK, Phases
<1>2. /\ state' = [state EXCEPT ![s] = "WAIT_FOR_MISSING_FILES"]
      /\ phase' = [phase EXCEPT ![s] = "running"]
      /\ future' = future
      /\ state[s] = "START"
  BY DEF StartSession, DoRegisterSession, SessionInv, PhaseOfState
<1> QED
  BY <1>1, <1>2 DEF TaskTypeOK, SessionInv, PhaseOfState, OwnerState, WriterState,
     ReceiverState, ManagerStates, Busy

\* A session becomes the owner while the task has none.
LEMMA FirstCompletionKeepsInv ==
  ASSUME ManagerInv, NEW s \in Sessions, GotFirstCompletion(s) \/ CompletionAssertFails(s)
  PROVE  ManagerInv'
<1> USE NoneAssumption DEF ManagerInv, ManagerTypeOK
<1>1. /\ state[s] = "WAIT_FOR_SERVER_RESPONSE"
      /\ phase[s] = "running"
      /\ completedBy = None
  BY DEF IsCompleted, GotFirstCompletion, CompletionAssertFails, ManagerGets, Expected, ManagerStates
<1>2. \A t \in Sessions : state[t] # "RECEIVE_OBJECT_FILE"
  BY <1>1 DEF SessionInv, ReceiverState
<1>3. cancelled' = CancelOthers(s) /\ future' = future
  BY DEF GotFirstCompletion, CompletionAssertFails, DoRegisterCompletion
<1>4. cancelled' \in [Sessions -> BOOLEAN] /\ cancelled'[s] = cancelled[s]
  BY <1>3 DEF CancelOthers, TaskTypeOK
<1>5. CASE /\ DoRegisterCompletion(s)
           /\ \/ state' = state /\ cancelled[s]
              \/ state' = [state EXCEPT ![s] = "RECEIVE_OBJECT_FILE"] /\ ~cancelled[s]
  <2>1. TaskTypeOK' /\ phase' = phase /\ completedBy' = s
    BY <1>4, <1>5 DEF DoRegisterCompletion, TaskTypeOK
  <2>2. state' \in [Sessions -> ManagerStates]
    BY <1>5 DEF ManagerStates
  <2>3. ASSUME NEW t \in Sessions PROVE SessionInv(t)'
    <3>1. PhaseOfState(t)' /\ WriterState(t)'
      BY <1>1, <1>3, <1>5, <2>1 DEF SessionInv, PhaseOfState, WriterState, Busy
    <3>2. OwnerState(t)' /\ ReceiverState(t)'
      BY <1>1, <1>2, <1>4, <1>5, <2>1 DEF SessionInv, OwnerState, ReceiverState
    <3> QED
      BY <3>1, <3>2 DEF SessionInv
  <2> QED
    BY <1>3, <2>1, <2>2, <2>3
<1>6. CASE /\ DoSessionCompleted(s, "success", s)
           /\ state' = [state EXCEPT ![s] = "FINISH"]
  <2>1. TaskTypeOK'
    BY <1>4, <1>6, CompletedType DEF Results
  <2>2. completedBy' = s /\ phase' = [phase EXCEPT ![s] = "finished"]
    BY <1>6 DEF DoSessionCompleted, Failures
  <2>3. ASSUME NEW t \in Sessions PROVE SessionInv(t)'
    <3>1. PhaseOfState(t)' /\ WriterState(t)'
      BY <1>3, <1>6, <2>2 DEF SessionInv, PhaseOfState, WriterState, Busy, TaskTypeOK
    <3>2. OwnerState(t)' /\ ReceiverState(t)'
      BY <1>2, <1>6, <2>2 DEF SessionInv, OwnerState, ReceiverState
    <3> QED
      BY <3>1, <3>2 DEF SessionInv
  <2> QED
    BY <1>3, <1>6, <2>1, <2>3 DEF ManagerStates
<1> QED
  BY <1>5, <1>6 DEF IsCompleted, GotFirstCompletion, CompletionAssertFails

\* Next, sorted by what a step does to the task.
LEMMA NextCases ==
  ASSUME [Next]_vars
  PROVE  \/ UNCHANGED <<taskVars, state, future>>
         \/ StealTask
         \/ \E s \in Sessions :
              \/ QuietStep(s) \/ StartSession(s) \/ CompletingStep(s)
              \/ GotFirstCompletion(s) \/ CompletionAssertFails(s)
<1>1. CASE UNCHANGED vars
  BY <1>1 DEF vars, protocolVars
<1>2. ASSUME NEW s \in Sessions, ServerStep(s) \/ ResourceReady(s) \/ SelfDestruct(s)
      PROVE  UNCHANGED <<taskVars, state, future>>
  BY <1>2, ServerLeavesManager
<1>3. ASSUME NEW s \in Sessions, ManagerStep(s) \/ Terminate(s)
      PROVE  \/ QuietStep(s) \/ StartSession(s) \/ CompletingStep(s)
             \/ GotFirstCompletion(s) \/ CompletionAssertFails(s)
  BY <1>3 DEF ManagerStep, QuietStep, CompletingStep
<1> QED
  BY <1>1, <1>2, <1>3 DEF Next

\* Every step keeps the invariant of the manager's sessions.
LEMMA ManagerInvStep == ManagerInv /\ [Next]_vars => ManagerInv'
<1> SUFFICES ASSUME ManagerInv, [Next]_vars PROVE ManagerInv'
  OBVIOUS
<1>1. CASE UNCHANGED <<taskVars, state, future>>
  BY <1>1 DEF taskVars, ManagerInv, ManagerTypeOK, TaskTypeOK, SessionInv, PhaseOfState,
     OwnerState, WriterState, ReceiverState
<1>2. CASE StealTask
  BY <1>2 DEF StealTask, Steal, protocolVars, ManagerInv, ManagerTypeOK, TaskTypeOK,
     SessionInv, PhaseOfState, OwnerState, WriterState, ReceiverState
<1> QED
  BY <1>1, <1>2, NextCases, QuietKeepsInv, StartKeepsInv, CompletingKeepsInv,
     FirstCompletionKeepsInv

\* The invariant of the manager's sessions holds in every behaviour.
LEMMA ManagerInvariant == Spec => []ManagerInv
<1>1. Init => ManagerInv
  BY NoneAssumption, TaskTypeInit DEF Init, TaskInit, ManagerInv, ManagerTypeOK,
     ManagerStates, SessionInv, PhaseOfState, OwnerState, WriterState, ReceiverState, Busy
<1> QED
  BY <1>1, ManagerInvStep, PTL DEF Spec

\* Whatever the servers answer and whichever faults occur, the session that
\* receives an object file is the owner of its task and was not cancelled
\* (compile_session.py:154, task.py:92).
THEOREM ReceiverIsOwner == Spec => []ReceiverOwnsTask
<1>1. ManagerInv => ReceiverOwnsTask
  BY DEF ManagerInv, SessionInv, ReceiverState, ReceiverOwnsTask
<1> QED
  BY <1>1, ManagerInvariant, PTL

-----------------------------------------------------------------------------
(* The protocol implements Task.                                           *)

\* Every step of the protocol is a step of Task or leaves the task alone.
LEMMA StepRefinement ==
  ASSUME OwnerMayFail
  PROVE  ManagerInv /\ [Next]_vars => [TaskNext]_taskVars
<1> SUFFICES ASSUME ManagerInv, [Next]_vars PROVE [TaskNext]_taskVars
  OBVIOUS
<1>1. CASE StealTask
  BY <1>1 DEF StealTask, TaskNext
<1>2. ASSUME NEW s \in Sessions, StartSession(s) PROVE TaskNext
  BY <1>2 DEF StartSession, CreateSession, TaskNext
<1>3. ASSUME NEW s \in Sessions, GotFirstCompletion(s) \/ CompletionAssertFails(s)
      PROVE  TaskNext
  <2>1. RegisterCompletion(s) \/ CompleteWithErrors(s)
    BY <1>3 DEF IsCompleted, GotFirstCompletion, CompletionAssertFails, ManagerGets, RegisterCompletion,
       CompleteWithErrors
  <2> QED
    BY <2>1 DEF TaskNext
<1>4. ASSUME NEW s \in Sessions, CompletingStep(s) PROVE [TaskNext]_taskVars
  <2>1. CASE UNCHANGED <<taskVars, state>>
    BY <2>1
  <2>2. ASSUME NEW r \in Results, phase[s] = "running", Complete(s, r),
               r = "success" => completedBy = s /\ ~cancelled[s],
               r = "cancelled" => cancelled[s],
               r = "too_late" => completedBy # None /\ (completedBy = s => cancelled[s])
        PROVE  TaskNext
    <3>1. CASE r = "success"
      BY <2>2, <3>1 DEF Complete, SessionSucceeded, TaskNext
    <3>2. CASE r = "cancelled"
      BY <2>2, <3>2 DEF Complete, SessionCancelled, TaskNext
    <3>3. CASE r = "too_late"
      BY <2>2, <3>3 DEF Complete, SessionTooLate, TaskNext
    <3>4. CASE r \in Failures
      BY <2>2, <3>4 DEF Complete, SessionFailed, TaskNext
    <3> QED
      BY <3>1, <3>2, <3>3, <3>4 DEF Results
  <2> QED
    BY <1>4, <2>1, <2>2, CompletingCases
<1> QED
  BY <1>1, <1>2, <1>3, <1>4, NextCases, QuietLeavesTask

\* The sessions, played out message by message with every crossing of cancels,
\* time-outs, reports and confirmations, implement the task's specification.
THEOREM ProtocolImplementsTask == ASSUME OwnerMayFail PROVE Spec => TaskSpec
<1>1. Init => TaskInit
  BY DEF Init
<1> QED
  BY <1>1, StepRefinement, ManagerInvariant, PTL DEF Spec, TaskSpec

\* Hence the protocol, too, answers the client's command at most once per task
\* (command_processor.py:202).
THEOREM ProtocolAnswersOnce == ASSUME OwnerMayFail PROVE Spec => []AnsweredAtMostOnce
BY ProtocolImplementsTask, TaskAnsweredOnce, PTL

-----------------------------------------------------------------------------
(* The positions of the two ends of a session.                             *)

\* A queue leads from position a to position b along the edges E, triples of a
\* position, a message and the next position, and never goes back.
Path(E, q, a, b) ==
  \E r \in [0..Len(q) -> Nat] :
    /\ r[0] = a /\ r[Len(q)] = b
    /\ \A i \in 1..Len(q) : <<r[i - 1], q[i], r[i]>> \in E
    /\ \A i, j \in 0..Len(q) : i <= j => r[i] <= r[j]

\* What the server has received: 1 the session, 2 the task (the compiler is
\* due), 3 the compiler (the PCH is due), 4 everything, 5 the verdict.
AfterFiles(need) == IF "pch" \in need THEN 3 ELSE 4
AfterTask(need) == IF "compiler" \in need THEN 2 ELSE AfterFiles(need)

ServerEdge(need, a, type, b) ==
  \/ type = "CANCEL_SESSION" /\ a = b
  \/ type = "TASK_FILES" /\ a = 1 /\ b = AfterTask(need)
  \/ type = "MORE" /\ a \in {2, 3} /\ a = b
  \/ type = "LAST" /\ a = 2 /\ b = AfterFiles(need)
  \/ type = "LAST" /\ a = 3 /\ b = 4
  \/ type \in {"CONFIRM_SEND", "CONFIRM_DROP"} /\ a = 4 /\ b = 5

ServerEdges(need) ==
  {e \in Nat \X ToServerMsgs \X Nat : ServerEdge(need, e[1], e[2].type, e[3])}

ServerAt(v) ==
  CASE v.state = "DownloadMissingHeaders" -> 1
    [] v.state = "DownloadingCompiler" -> 2
    [] v.state = "DownloadingPCH" /\ v.work = "idle" -> 3
    [] v.state = "UploadingFile" -> 5
    [] OTHER -> 4

\* What the server has said: 0 nothing, 1 what it needs, 2 that it has a result,
\* 3 its last word, 4 that it timed out, after which anything may follow.
ManagerEdge(need, a, m, b) ==
  \/ m = MissingFiles(need) /\ a = 0 /\ b = 1
  \/ m = ServerDone(TRUE) /\ a = 1 /\ b = 2
  \/ m = Msg("MORE") /\ a = 2 /\ b = 2
  \/ m = Msg("LAST") /\ a = 2 /\ b = 3
  \/ m \in {ServerDone(FALSE), Msg("SERVER_FAILED")} /\ a = 1 /\ b = 3
  \/ m = Msg("SESSION_CANCELLED") /\ a \in {1, 2} /\ b = 3
  \/ m = Msg("TIMED_OUT") /\ a \in 0..2 /\ b = 4
  \/ a = 4 /\ b = 4

ManagerEdges(need) ==
  {e \in Nat \X ToManagerMsgs \X Nat : ManagerEdge(need, e[1], e[2], e[3])}

Said(v) ==
  CASE v.timer = "fired" -> 4
    [] v.timer # "fired" /\ ~v.live -> 3
    [] v.timer # "fired" /\ v.live /\ v.state \in {"WaitForConfirmation", "UploadingFile"} -> 2
    [] OTHER -> 1

ManagerAt(s) ==
  CASE state[s] = "WAIT_FOR_MISSING_FILES" -> 0
    [] state[s] = "WAIT_FOR_SERVER_RESPONSE" -> 1
    [] state[s] = "RECEIVE_OBJECT_FILE" /\ ~future[s] -> 2
    [] OTHER -> 3

Holds(q, type) == \E i \in 1..Len(q) : q[i].type = type

\* A session that has not reached its server.
FreshInv(s) ==
  srv[s].state = "GetTask" =>
    /\ ~srv[s].live /\ ~srv[s].cancelPending
    /\ srv[s].timer = "unset" /\ srv[s].work = "idle"
    /\ toManager[s] = <<>> /\ ~pchOwed[s]
    /\ state[s] \in {"START", "WAIT_FOR_MISSING_FILES", "FINISH"}
    /\ toServer[s] = IF state[s] = "START" THEN <<>> ELSE <<Msg("NEW_SESSION")>>

StartedInv(s) ==
  srv[s].state # "GetTask" =>
    state[s] # "START" /\ ~Holds(toServer[s], "NEW_SESSION")

\* The state, the timer and the callback a server session waits for agree.
ServerInv(v) ==
  /\ v.timer = "armed" => v.live
  /\ v.timer = "fired" => ~v.live
  /\ v.work = "compiling" => v.timer = "unset"
  /\ v.state = "Cancelled" => ~v.live /\ v.work \notin {"writing", "compressing"}
  /\ v.state = "Cancelled" /\ v.timer = "fired" => v.work = "idle"
  /\ v.state = "Failed" => ~v.live
  /\ v.live =>
       /\ v.state \in {"DownloadMissingHeaders", "DownloadingCompiler", "WaitForConfirmation"}
            => v.work = "idle"
       /\ v.state = "DownloadingPCH" => v.work \in {"idle", "writing"}
       /\ v.state = "RunningCompiler" => v.work \in {"waiting", "compiling"}
       /\ v.state = "UploadingFile" => v.work \in {"idle", "compressing"}
  /\ ~v.live /\ v.timer # "fired" /\ v.state # "Cancelled" => v.work = "idle"

\* Whatever shows a cancel was caused by one.
CancelInv(s) ==
  \/ srv[s].cancelPending
  \/ srv[s].state = "Cancelled"
  \/ Holds(toServer[s], "CANCEL_SESSION")
  \/ Holds(toManager[s], "SESSION_CANCELLED")
  => cancelled[s]

\* The answers on their way lead the manager to where the server is.
AnswersInv(s) ==
  state[s] \in Busy /\ srv[s].state # "GetTask" =>
    Path(ManagerEdges(srv[s].need), toManager[s], ManagerAt(s), Said(srv[s]))

\* The position the server will be in when it has received what was sent.
SentUpTo(s, p) ==
  /\ pchOwed[s] => p = 3
  /\ state[s] = "WAIT_FOR_MISSING_FILES" => p = 1
  /\ state[s] = "WAIT_FOR_SERVER_RESPONSE" /\ ~pchOwed[s] => p = 4
  /\ state[s] = "RECEIVE_OBJECT_FILE" => p = 5
  /\ p = 5 => srv[s].state \in {"WaitForConfirmation", "UploadingFile"}

RequestsInv(s) ==
  srv[s].live =>
    \E p \in 1..5 : /\ Path(ServerEdges(srv[s].need), toServer[s], ServerAt(srv[s]), p)
                    /\ SentUpTo(s, p)

LastWordInv(s) ==
  /\ state[s] \in Busy
  /\ srv[s].state # "GetTask"
  /\ ~srv[s].live
  => future[s] \/ \E i \in 1..Len(toManager[s]) : LastWord(toManager[s][i])

WriterInv(s) ==
  future[s] /\ state[s] = "FINISH" => result[s] = "terminated"

\* A verdict to drop the result ends the session of the manager.
DropInv(s) == Holds(toServer[s], "CONFIRM_DROP") => state[s] = "FINISH"

ChannelInv(s) ==
  /\ FreshInv(s) /\ StartedInv(s) /\ ServerInv(srv[s]) /\ CancelInv(s)
  /\ AnswersInv(s) /\ RequestsInv(s) /\ LastWordInv(s) /\ WriterInv(s) /\ DropInv(s)

ServerExpectsHead(s) ==
  srv[s].live /\ toServer[s] # <<>> => Head(toServer[s]).type \in ServerExpected(srv[s])

ManagerExpectsHead(s) ==
  phase[s] = "running" /\ toManager[s] # <<>> => Head(toManager[s]).type \in Expected(s)

\* An empty queue leads nowhere else.
LEMMA PathEmpty == ASSUME NEW E, NEW a \in Nat PROVE Path(E, <<>>, a, a)
<1> DEFINE r == [i \in 0..0 |-> a]
<1>1. Len(<<>>) = 0
  OBVIOUS
<1>2. r \in [0..Len(<<>>) -> Nat] /\ r[0] = a /\ r[Len(<<>>)] = a
  BY <1>1
<1>3. \A i \in 1..Len(<<>>) : <<r[i - 1], <<>>[i], r[i]>> \in E
  BY <1>1
<1>4. \A i, j \in 0..Len(<<>>) : i <= j => r[i] <= r[j]
  BY <1>1
<1> QED
  BY <1>2, <1>3, <1>4 DEF Path

\* A path never leads back, and an empty one ends where it starts.
LEMMA PathEnds ==
  ASSUME NEW E, NEW M, NEW q \in Seq(M), NEW a, NEW b, Path(E, q, a, b)
  PROVE  a \in Nat /\ b \in Nat /\ a <= b /\ (q = <<>> => a = b)
<1>1. PICK r \in [0..Len(q) -> Nat] :
        /\ r[0] = a /\ r[Len(q)] = b
        /\ \A i, j \in 0..Len(q) : i <= j => r[i] <= r[j]
  BY DEF Path
<1>2. Len(q) \in Nat /\ (q = <<>> => Len(q) = 0)
  OBVIOUS
<1> QED
  BY <1>1, <1>2

\* Sending a message extends the path at its end.
LEMMA PathAppend ==
  ASSUME NEW E, NEW M, NEW q \in Seq(M), NEW m \in M, NEW a, NEW b, NEW c \in Nat,
         Path(E, q, a, b), <<b, m, c>> \in E, b <= c
  PROVE  Path(E, Append(q, m), a, c)
<1> DEFINE n == Len(q)  p == Append(q, m)
<1>1. PICK r \in [0..n -> Nat] :
        /\ r[0] = a /\ r[n] = b
        /\ \A i \in 1..n : <<r[i - 1], q[i], r[i]>> \in E
        /\ \A i, j \in 0..n : i <= j => r[i] <= r[j]
  BY DEF Path
<1>2. n \in Nat /\ Len(p) = n + 1 /\ (\A i \in 1..n : p[i] = q[i]) /\ p[n + 1] = m
  OBVIOUS
<1> DEFINE f == [i \in 0..(n + 1) |-> IF i = n + 1 THEN c ELSE r[i]]
<1> HIDE DEF n, p
<1>3. f \in [0..Len(p) -> Nat] /\ f[0] = a /\ f[Len(p)] = c
  BY <1>1, <1>2
<1>4. \A i \in 1..Len(p) : <<f[i - 1], p[i], f[i]>> \in E
  <2> TAKE i \in 1..Len(p)
  <2>1. CASE i = n + 1
    <3>1. f[i - 1] = b /\ f[i] = c /\ p[i] = m
      BY <1>1, <1>2, <2>1
    <3> QED
      BY <3>1
  <2>2. CASE i # n + 1
    <3>1. i \in 1..n /\ f[i - 1] = r[i - 1] /\ f[i] = r[i] /\ p[i] = q[i]
      BY <1>1, <1>2, <2>2
    <3> QED
      BY <1>1, <3>1
  <2> QED
    BY <2>1, <2>2
<1>5. \A i, j \in 0..Len(p) : i <= j => f[i] <= f[j]
  <2> SUFFICES ASSUME NEW i \in 0..Len(p), NEW j \in 0..Len(p), i <= j PROVE f[i] <= f[j]
    OBVIOUS
  <2>1. CASE j # n + 1
    BY <1>1, <1>2, <2>1
  <2>2. CASE j = n + 1
    <3>1. \A k \in 0..n : r[k] <= b
      BY <1>1, <1>2
    <3> QED
      BY <1>1, <1>2, <2>2, <3>1
  <2> QED
    BY <2>1, <2>2
<1> QED
  BY <1>3, <1>4, <1>5 DEF Path, p

\* Receiving a message takes the first edge of the path.
LEMMA PathTail ==
  ASSUME NEW E, NEW M, NEW q \in Seq(M), q # <<>>, NEW a, NEW b, Path(E, q, a, b)
  PROVE  \E c \in Nat : a <= c /\ <<a, Head(q), c>> \in E /\ Path(E, Tail(q), c, b)
<1> DEFINE n == Len(q)  p == Tail(q)
<1>1. PICK r \in [0..n -> Nat] :
        /\ r[0] = a /\ r[n] = b
        /\ \A i \in 1..n : <<r[i - 1], q[i], r[i]>> \in E
        /\ \A i, j \in 0..n : i <= j => r[i] <= r[j]
  BY DEF Path
<1>2. /\ n \in Nat /\ n >= 1 /\ Len(p) = n - 1
      /\ \A i \in 1..(n - 1) : p[i] = q[i + 1]
      /\ Head(q) = q[1]
  OBVIOUS
<1> DEFINE f == [i \in 0..(n - 1) |-> r[i + 1]]
<1> HIDE DEF n, p
<1>3. f \in [0..Len(p) -> Nat] /\ f[0] = r[1] /\ f[Len(p)] = b
  BY <1>1, <1>2
<1>4. \A i \in 1..Len(p) : <<f[i - 1], p[i], f[i]>> \in E
  <2> TAKE i \in 1..Len(p)
  <2>1. i + 1 \in 1..n /\ f[i - 1] = r[(i + 1) - 1] /\ f[i] = r[i + 1] /\ p[i] = q[i + 1]
    BY <1>1, <1>2
  <2> QED
    BY <1>1, <2>1
<1>5. \A i, j \in 0..Len(p) : i <= j => f[i] <= f[j]
  BY <1>1, <1>2
<1>6. Path(E, p, r[1], b)
  BY <1>3, <1>4, <1>5 DEF Path
<1>7. a <= r[1] /\ <<a, Head(q), r[1]>> \in E /\ r[1] \in Nat
  <2>1. 1 \in 1..n /\ 0 \in 0..n /\ 1 \in 0..n
    BY <1>2
  <2>2. <<r[1 - 1], q[1], r[1]>> \in E /\ r[0] <= r[1]
    BY <1>1, <2>1
  <2> QED
    BY <1>1, <1>2, <2>1, <2>2
<1> QED
  BY <1>6, <1>7 DEF p

\* A queue of one message.
LEMMA PathOne ==
  ASSUME NEW E, NEW M, NEW m \in M, NEW a \in Nat, NEW c \in Nat, <<a, m, c>> \in E, a <= c
  PROVE  Path(E, <<m>>, a, c)
<1>0. <<>> \in Seq(M)
  OBVIOUS
<1>1. PICK e \in Seq(M) : e = <<>>
  BY <1>0, Zenon
<1>2. Path(E, e, a, a)
  BY <1>1, PathEmpty
<1>3. Path(E, Append(e, m), a, c)
  BY <1>2, PathAppend
<1>4. Append(e, m) = <<m>>
  BY <1>1
<1> QED
  BY <1>3, <1>4

-----------------------------------------------------------------------------
(* What one step of the server does to its session.                        *)

ServerSessions == [state : ServerStates, live : BOOLEAN, cancelPending : BOOLEAN,
                   timer : Timers, work : Work, need : Needs \cup {{}}]

\* What is said in a step leads from what was said before to what is said then.
SaysWell(v, out, w) ==
  \/ out = <<>> /\ Said(v) = Said(w)
  \/ \E m \in ToManagerMsgs :
       out = <<m>> /\ ManagerEdge(v.need, Said(v), m, Said(w)) /\ Said(v) <= Said(w)
  \/ out = FileParts /\ Said(v) = 2 /\ Said(w) = 3
  \/ out = FileParts /\ Said(v) = 4 /\ Said(w) = 4

\* A step of a server session from v to w that sends out; type is the message
\* it handles, "none" for a callback.
GoodStep(v, type, out, w) ==
  /\ w \in ServerSessions /\ w.need = v.need
  /\ v.state # "GetTask" /\ w.state # "GetTask"
  /\ ServerInv(w)
  /\ \/ /\ SaysWell(v, out, w)
        /\ v.live /\ ~w.live => \E i \in 1..Len(out) : LastWord(out[i])
     \/ type = "CONFIRM_DROP" /\ out = <<>>
  /\ w.live => /\ v.live
               /\ type = "none" => ServerAt(w) = ServerAt(v)
               /\ type # "none" => ServerEdge(v.need, ServerAt(v), type, ServerAt(w))
               /\ v.state \in {"WaitForConfirmation", "UploadingFile"}
                    => w.state \in {"WaitForConfirmation", "UploadingFile"}
  /\ w.cancelPending \/ w.state = "Cancelled" \/ out = <<Msg("SESSION_CANCELLED")>>
       => v.cancelPending \/ v.state = "Cancelled" \/ type = "CANCEL_SESSION"
  /\ v.state = "Cancelled" => out = <<>>

\* Messages of one part.
LEMMA MsgsAreSequences ==
  /\ <<>> \in Seq(ToManagerMsgs)
  /\ FileParts \in Seq(ToManagerMsgs) /\ FileParts \in Seq(ToServerMsgs)
  /\ \A m \in ToManagerMsgs : <<m>> \in Seq(ToManagerMsgs)
BY DEF FileParts, ToManagerMsgs, ToServerMsgs, Msg

\* The handler of the self-destruct event.
LEMMA SelfDestructGood ==
  ASSUME TypeOK, NEW s \in Sessions, SelfDestruct(s), ServerInv(srv[s]), FreshInv(s)
  PROVE  \E w, out : Reply(s, w, out) /\ GoodStep(srv[s], "none", out, w)
<1> DEFINE v == srv[s]  w == [v EXCEPT !.timer = "fired", !.live = FALSE]
           out == <<Msg("TIMED_OUT")>>
<1>1. v \in ServerSessions
  BY DEF TypeOK, ServerSessions
<1>2. v.timer = "armed" /\ Reply(s, w, out)
  BY DEF SelfDestruct
<1>3. v.live /\ v.state # "GetTask"
  BY <1>1, <1>2 DEF ServerInv, FreshInv
<1>4. /\ w \in ServerSessions /\ w.need = v.need /\ w.state = v.state /\ w.timer = "fired"
      /\ w.live = FALSE /\ w.work = v.work /\ w.cancelPending = v.cancelPending
  BY <1>1 DEF ServerSessions, Timers
<1>5. Msg("TIMED_OUT") \in ToManagerMsgs /\ Msg("TIMED_OUT") # Msg("SESSION_CANCELLED")
      /\ LastWord(Msg("TIMED_OUT"))
  BY DEF ToManagerMsgs, Msg, LastWord
<1> HIDE DEF v, w
<1>6. Said(w) = 4 /\ Said(v) \in 1..2
  BY <1>1, <1>2, <1>3, <1>4 DEF Said
<1>7. ServerInv(w) 
  BY <1>1, <1>2, <1>3, <1>4 DEF ServerInv, v
<1>8. SaysWell(v, out, w)
  BY <1>5, <1>6 DEF SaysWell, ManagerEdge
<1>9. GoodStep(v, "none", out, w)
  BY <1>3, <1>4, <1>5, <1>7, <1>8 DEF GoodStep, ServerInv, v
<1> QED
  BY <1>2, <1>9 DEF v

\* SESSION_CANCELLED is a last word.
LEMMA CancelledSaysWell ==
  ASSUME NEW v, NEW w, Said(v) \in {1, 2}, Said(w) = 3
  PROVE  SaysWell(v, <<Msg("SESSION_CANCELLED")>>, w)
<1> DEFINE m == Msg("SESSION_CANCELLED")
<1>1. m \in ToManagerMsgs
  BY DEF ToManagerMsgs
<1>2. ManagerEdge(v.need, Said(v), m, Said(w)) /\ Said(v) <= Said(w)
  BY DEF ManagerEdge, ServerDone, MissingFiles, Msg
<1> QED
  BY <1>1, <1>2 DEF SaysWell

\* A session u, updated from v by a handler, that goes on to __run_compiler.
CompileReady(v, type, u) ==
  /\ v \in ServerSessions /\ u \in ServerSessions
  /\ u.need = v.need /\ u.live = v.live /\ u.cancelPending = v.cancelPending
  /\ v.state # "GetTask"
  /\ v.live => /\ u.state = "RunningCompiler" /\ u.timer # "fired" /\ Said(v) = 1
               /\ v.state \notin {"WaitForConfirmation", "UploadingFile", "Cancelled"}
               /\ type = "none" => ServerAt(v) = 4
               /\ type # "none" => ServerEdge(v.need, ServerAt(v), type, 4)
  /\ ~v.live => /\ type = "none"
                /\ \/ /\ v.state # "Cancelled" /\ u.state \notin {"Cancelled", "GetTask"}
                      /\ v.timer = "fired" /\ u.timer = "fired"
                   \/ /\ v.state = "Cancelled" /\ u.state = "Cancelled"
                      /\ v.timer = "unset" /\ u.timer = "unset"

\* __run_compiler, for a session that lives, has timed out or was cancelled.
LEMMA RunCompilerGood ==
  ASSUME NEW s \in Sessions, NEW v, NEW type, NEW u, CompileReady(v, type, u), RunCompiler(s, u)
  PROVE  \E w, out : Reply(s, w, out) /\ GoodStep(v, type, out, w)
<1> USE DEF CompileReady
<1>0. /\ Msg("SESSION_CANCELLED") \in ToManagerMsgs
      /\ LastWord(Msg("SESSION_CANCELLED"))
  BY DEF ToManagerMsgs, Msg, LastWord
<1>1. CASE u.cancelPending /\ u.live
  <2> DEFINE w == Done([[u EXCEPT !.work = "idle"] EXCEPT !.state = "Cancelled"])
             out == <<Msg("SESSION_CANCELLED")>>
  <2>1. Reply(s, w, out)
    BY <1>1 DEF RunCompiler, CancelSession
  <2>2. /\ w \in ServerSessions /\ w.need = v.need /\ w.state = "Cancelled" /\ w.live = FALSE
        /\ w.timer = "unset" /\ w.work = "idle" /\ w.cancelPending = v.cancelPending
    BY DEF ServerSessions, Done, Timers, Work, ServerStates
  <2> HIDE DEF w
  <2>3. Said(w) = 3
    BY <2>2 DEF Said
  <2>4. ServerInv(w)
    BY <2>2 DEF ServerInv
  <2>5. SaysWell(v, out, w)
    <3>1. Said(v) = 1
      BY <1>1
    <3> QED
      BY <1>0, <2>3, <3>1, CancelledSaysWell
  <2>6. GoodStep(v, type, out, w)
    BY <1>0, <1>1, <2>2, <2>4, <2>5 DEF GoodStep
  <2> QED
    BY <2>1, <2>6
<1>2. CASE u.cancelPending /\ ~u.live /\ u.state # "Cancelled"
  <2> DEFINE w == [u EXCEPT !.work = "idle", !.state = "Cancelled"]
             out == <<Msg("SESSION_CANCELLED")>>
  <2>1. Reply(s, w, out)
    BY <1>2 DEF RunCompiler
  <2>2. /\ w \in ServerSessions /\ w.need = v.need /\ w.state = "Cancelled" /\ w.live = FALSE
        /\ w.timer = "fired" /\ w.work = "idle" /\ w.cancelPending = v.cancelPending
    BY <1>2 DEF ServerSessions, Work, ServerStates
  <2> HIDE DEF w
  <2>3. Said(w) = 4 /\ Said(v) = 4
    BY <1>2, <2>2 DEF Said
  <2>4. ServerInv(w)
    BY <2>2 DEF ServerInv
  <2>5. SaysWell(v, out, w)
    BY <1>0, <2>3 DEF SaysWell, ManagerEdge
  <2>6. GoodStep(v, type, out, w)
    BY <1>0, <1>2, <2>2, <2>4, <2>5 DEF GoodStep
  <2> QED
    BY <2>1, <2>6
<1>3. CASE ~u.live /\ (IF u.cancelPending THEN u.state = "Cancelled" ELSE u.timer = "fired")
  <2> DEFINE w == [u EXCEPT !.work = "idle"]
  <2>1. Reply(s, w, <<>>)
    BY <1>3 DEF RunCompiler
  <2>2. /\ w \in ServerSessions /\ w.need = v.need /\ w.state = u.state /\ w.live = FALSE
        /\ w.timer = u.timer /\ w.work = "idle" /\ w.cancelPending = v.cancelPending
    BY <1>3 DEF ServerSessions, Work, ServerStates
  <2> HIDE DEF w
  <2>3. Said(w) = Said(v)
    BY <1>3, <2>2 DEF Said
  <2>4. ServerInv(w)
    BY <1>3, <2>2 DEF ServerInv
  <2>5. GoodStep(v, type, <<>>, w)
    BY <1>3, <2>2, <2>3, <2>4 DEF GoodStep, SaysWell
  <2> QED
    BY <2>1, <2>5
<1>4. CASE ~u.cancelPending /\ u.timer # "fired"
  <2> DEFINE w == [u EXCEPT !.work = "compiling", !.timer = "unset"]
  <2>1. Reply(s, w, <<>>)
    BY <1>4 DEF RunCompiler
  <2>2. /\ w \in ServerSessions /\ w.need = v.need /\ w.state = u.state /\ w.live = v.live
        /\ w.timer = "unset" /\ w.work = "compiling" /\ w.cancelPending = v.cancelPending
    BY <1>4 DEF ServerSessions, Work, ServerStates, Timers
  <2> HIDE DEF w
  <2>3. Said(w) = Said(v)
    BY <1>4, <2>2 DEF Said, ServerSessions
  <2>4. ServerInv(w)
    BY <1>4, <2>2 DEF ServerInv
  <2>5. w.live => ServerAt(w) = 4
    BY <2>2 DEF ServerAt
  <2>6. GoodStep(v, type, <<>>, w)
    BY <1>4, <2>2, <2>3, <2>4, <2>5 DEF GoodStep, SaysWell
  <2> QED
    BY <2>1, <2>6
<1>5. u.live \in BOOLEAN /\ u.cancelPending \in BOOLEAN /\ (u.live => u.timer # "fired")
  BY DEF ServerSessions
<1> QED
  BY <1>1, <1>2, <1>3, <1>4, <1>5

\* compile, which may leave __run_compiler to a repository.
LEMMA CompileGood ==
  ASSUME NEW s \in Sessions, NEW v, NEW type, NEW u,
         CompileReady(v, type, [u EXCEPT !.state = "RunningCompiler"]),
         v.state # "Cancelled", Compile(s, u)
  PROVE  \E w, out : Reply(s, w, out) /\ GoodStep(v, type, out, w)
<1> DEFINE r == [u EXCEPT !.state = "RunningCompiler"]
<1>1. CASE RunCompiler(s, r)
  BY <1>1, RunCompilerGood
<1>2. CASE Reply(s, [r EXCEPT !.work = "waiting"], <<>>)
  <2> DEFINE w == [r EXCEPT !.work = "waiting"]
  <2>0. CompileReady(v, type, r)
    OBVIOUS
  <2> HIDE DEF r
  <2> USE DEF CompileReady
  <2>2. /\ w \in ServerSessions /\ w.need = v.need /\ w.state = r.state /\ w.live = v.live
        /\ w.timer = r.timer /\ w.work = "waiting" /\ w.cancelPending = v.cancelPending
    BY <2>0 DEF ServerSessions, Work
  <2>1. Reply(s, w, <<>>)
    BY <1>2
  <2> HIDE DEF w
  <2>3. Said(w) = Said(v)
    BY <2>0, <2>2 DEF Said, ServerSessions
  <2>4. ServerInv(w)
    BY <2>0, <2>2 DEF ServerInv, ServerSessions, Timers
  <2>5. w.live => ServerAt(w) = 4
    BY <2>0, <2>2 DEF ServerAt
  <2>6. GoodStep(v, type, <<>>, w)
    BY <2>0, <2>2, <2>3, <2>4, <2>5 DEF GoodStep, SaysWell
  <2> QED
    BY <2>1, <2>6
<1> QED
  BY <1>1, <1>2 DEF Compile

\* CANCEL_SESSION, in any state of the session.
LEMMA GotCancelGood ==
  ASSUME TypeOK, NEW s \in Sessions, GotCancel(s), ServerInv(srv[s]), FreshInv(s)
  PROVE  \E w, out : Reply(s, w, out) /\ GoodStep(srv[s], "CANCEL_SESSION", out, w)
<1> DEFINE v == srv[s]
<1>1. v \in ServerSessions /\ v.live /\ v.state # "GetTask" /\ v.timer # "fired"
  BY DEF TypeOK, ServerSessions, GotCancel, ServerGets, FreshInv, ServerInv
<1>2. ServerInv(v)
  OBVIOUS
<1>3. CASE v.state = "RunningCompiler"
  <2> DEFINE w == Done([v EXCEPT !.state = "Cancelled"])  out == <<Msg("SESSION_CANCELLED")>>
  <2>1. Reply(s, w, out)
    BY <1>3 DEF GotCancel, CancelSession
  <2> HIDE DEF v
  <2>2. /\ w \in ServerSessions /\ w.need = v.need /\ w.state = "Cancelled" /\ w.live = FALSE
        /\ w.timer = "unset" /\ w.work = v.work /\ w.cancelPending = v.cancelPending
    BY <1>1 DEF ServerSessions, Done, Timers, ServerStates
  <2>3. Msg("SESSION_CANCELLED") \in ToManagerMsgs /\ LastWord(Msg("SESSION_CANCELLED"))
    BY DEF ToManagerMsgs, Msg, LastWord
  <2> HIDE DEF w
  <2>4. Said(w) = 3 /\ Said(v) = 1
    BY <1>1, <1>3, <2>2 DEF Said
  <2>5. ServerInv(w)
    BY <1>1, <1>2, <1>3, <2>2 DEF ServerInv
  <2>6. SaysWell(v, out, w)
    BY <2>3, <2>4, CancelledSaysWell
  <2>7. GoodStep(v, "CANCEL_SESSION", out, w)
    BY <1>1, <1>3, <2>2, <2>3, <2>5, <2>6 DEF GoodStep
  <2> QED
    BY <2>1, <2>7 DEF v
<1>4. CASE v.state # "RunningCompiler"
  <2> DEFINE w == [v EXCEPT !.cancelPending = TRUE, !.timer = "armed"]
  <2>1. Reply(s, w, <<>>)
    BY <1>4 DEF GotCancel
  <2> HIDE DEF v
  <2>2. /\ w \in ServerSessions /\ w.need = v.need /\ w.state = v.state /\ w.live = v.live
        /\ w.timer = "armed" /\ w.work = v.work /\ w.cancelPending = TRUE
    BY <1>1 DEF ServerSessions, Timers
  <2> HIDE DEF w
  <2>3. Said(w) = Said(v) /\ ServerAt(w) = ServerAt(v)
    BY <1>1, <2>2 DEF Said, ServerAt
  <2>4. ServerInv(w)
    BY <1>1, <1>2, <1>4, <2>2 DEF ServerInv, ServerSessions, ServerStates
  <2>5. GoodStep(v, "CANCEL_SESSION", <<>>, w)
    BY <1>1, <1>2, <2>2, <2>3, <2>4 DEF GoodStep, SaysWell, ServerEdge, ServerInv
  <2> QED
    BY <2>1, <2>5 DEF v
<1> QED
  BY <1>3, <1>4

\* The steps that only change the state, the timer or the work of a session
\* which stays alive, and send nothing.
LEMMA SilentGood ==
  ASSUME NEW v \in ServerSessions, NEW type, NEW st \in ServerStates, NEW wk \in Work,
         v.live, v.state # "GetTask", v.timer # "fired", st # "GetTask",
         NEW w, w = [v EXCEPT !.state = st, !.timer = "armed", !.work = wk],
         ServerInv(w), Said(w) = Said(v),
         ServerEdge(v.need, ServerAt(v), type, ServerAt(w)), type # "none",
         st = "Cancelled" => v.state = "Cancelled",
         v.state \in {"WaitForConfirmation", "UploadingFile"}
           => st \in {"WaitForConfirmation", "UploadingFile"}
  PROVE  GoodStep(v, type, <<>>, w)
<1>1. /\ w \in ServerSessions /\ w.need = v.need /\ w.state = st /\ w.live = v.live
      /\ w.timer = "armed" /\ w.work = wk /\ w.cancelPending = v.cancelPending
  BY DEF ServerSessions, Timers
<1> QED
  BY <1>1 DEF GoodStep, SaysWell

\* TASK_FILES.
LEMMA GotTaskFilesGood ==
  ASSUME TypeOK, NEW s \in Sessions, GotTaskFiles(s), ServerInv(srv[s]), FreshInv(s)
  PROVE  \E w, out : Reply(s, w, out) /\ GoodStep(srv[s], "TASK_FILES", out, w)
<1> DEFINE v == srv[s]  u == [v EXCEPT !.timer = "armed"]
<1>1. /\ v \in ServerSessions /\ v.live /\ v.state = "DownloadMissingHeaders"
      /\ v.timer # "fired" /\ v.work = "idle"
  BY DEF TypeOK, ServerSessions, GotTaskFiles, ServerGets, ServerInv
<1>2. ServerAt(v) = 1 /\ Said(v) = 1
  BY <1>1 DEF ServerAt, Said
<1>3. CASE v.need = {}
  <2> DEFINE r == [u EXCEPT !.state = "RunningCompiler"]
  <2>1. Compile(s, u)
    BY <1>1, <1>3 DEF GotTaskFiles, ServerSessions
  <2> HIDE DEF v
  <2>2. /\ r \in ServerSessions /\ r.need = v.need /\ r.live = v.live
        /\ r.cancelPending = v.cancelPending /\ r.state = "RunningCompiler" /\ r.timer = "armed"
    BY <1>1 DEF ServerSessions, Timers, ServerStates
  <2> HIDE DEF r
  <2>3. CompileReady(v, "TASK_FILES", r)
    BY <1>1, <1>2, <1>3, <2>2 DEF CompileReady, ServerEdge, AfterTask, AfterFiles
  <2> QED
    BY <1>1, <2>1, <2>3, CompileGood DEF r, v
<1>4. CASE v.need # {}
  <2> DEFINE st == IF "compiler" \in v.need THEN "DownloadingCompiler" ELSE "DownloadingPCH"
             w == [v EXCEPT !.state = st, !.timer = "armed", !.work = "idle"]
  <2>1. "compiler" \in v.need \/ "pch" \in v.need
    <3>1. v.need \subseteq {"compiler", "pch"}
      BY <1>1, NeedsAssumption DEF ServerSessions
    <3> QED
      BY <1>4, <3>1
  <2>2. Reply(s, [u EXCEPT !.state = st], <<>>)
    BY <1>1, <1>4 DEF GotTaskFiles, ServerSessions
  <2> HIDE DEF v
  <2>3. [u EXCEPT !.state = st] = w
    BY <1>1 DEF ServerSessions
  <2>4. /\ w.state = st /\ w.live = v.live /\ w.timer = "armed" /\ w.work = "idle"
        /\ st \in ServerStates
    BY <1>1 DEF ServerSessions, Timers, ServerStates
  <2> HIDE DEF w
  <2>5. ServerInv(w) /\ Said(w) = 1
    BY <1>1, <2>4 DEF ServerInv, Said
  <2>6. ServerEdge(v.need, ServerAt(v), "TASK_FILES", ServerAt(w))
    BY <1>2, <2>1, <2>4 DEF ServerEdge, ServerAt, AfterTask, AfterFiles
  <2>7. GoodStep(v, "TASK_FILES", <<>>, w)
    BY <1>1, <1>2, <2>4, <2>5, <2>6, SilentGood DEF w, Work
  <2> QED
    BY <2>2, <2>3, <2>7 DEF v
<1> QED
  BY <1>3, <1>4

\* A part of the compiler or of the PCH.
LEMMA GotFilePartGood ==
  ASSUME TypeOK, NEW s \in Sessions, GotFilePart(s), ServerInv(srv[s]), FreshInv(s),
         ServerExpectsHead(s)
  PROVE  \E w, out : /\ Reply(s, w, out)
                     /\ GoodStep(srv[s], Head(toServer[s]).type, out, w)
<1> DEFINE v == srv[s]  u == [v EXCEPT !.timer = "armed"]
<1>1. /\ v \in ServerSessions /\ v.live /\ v.timer # "fired"
      /\ v.state \in {"DownloadingCompiler", "DownloadingPCH"}
  BY DEF TypeOK, ServerSessions, GotFilePart, ServerGets, ServerInv
<1>2. v.work = "idle"
  BY <1>1 DEF GotFilePart, ServerGets, ServerExpectsHead, ServerExpected, ServerInv
<1>3. Said(v) = 1 /\ ServerAt(v) = IF v.state = "DownloadingPCH" THEN 3 ELSE 2
  BY <1>1, <1>2 DEF ServerAt, Said
<1>4. CASE ServerGets(s, "MORE")
  <2> DEFINE w == [v EXCEPT !.state = v.state, !.timer = "armed", !.work = v.work]
  <2>1. Reply(s, u, <<>>) /\ Head(toServer[s]).type = "MORE"
    BY <1>4 DEF GotFilePart, ServerGets
  <2> HIDE DEF v
  <2>2. u = w
    BY <1>1 DEF ServerSessions
  <2>3. /\ w.state = v.state /\ w.live = v.live /\ w.timer = "armed" /\ w.work = "idle"
        /\ v.state \in ServerStates /\ v.work \in Work
    BY <1>1, <1>2 DEF ServerSessions, Timers, ServerStates
  <2> HIDE DEF w
  <2>4. ServerInv(w) /\ Said(w) = 1 /\ ServerAt(w) = ServerAt(v)
    BY <1>1, <1>2, <2>3 DEF ServerInv, Said, ServerAt
  <2>5. ServerEdge(v.need, ServerAt(v), "MORE", ServerAt(w))
    BY <1>3, <2>4 DEF ServerEdge
  <2>6. GoodStep(v, "MORE", <<>>, w)
    BY <1>1, <1>3, <2>3, <2>4, <2>5, SilentGood DEF w
  <2> QED
    BY <2>1, <2>2, <2>6 DEF v
<1>5. CASE ServerGets(s, "LAST")
  <2>0. Head(toServer[s]).type = "LAST"
    BY <1>5 DEF ServerGets
  <2>1. CASE v.state = "DownloadingPCH"
    <3> DEFINE w == [v EXCEPT !.state = "DownloadingPCH", !.timer = "armed", !.work = "writing"]
    <3>1. Reply(s, [u EXCEPT !.work = "writing"], <<>>)
      BY <1>1, <2>0, <2>1 DEF GotFilePart, ServerGets, ServerSessions
    <3> HIDE DEF v
    <3>2. [u EXCEPT !.work = "writing"] = w
      BY <1>1, <2>1 DEF ServerSessions
    <3>3. w.state = "DownloadingPCH" /\ w.live = v.live /\ w.timer = "armed" /\ w.work = "writing"
      BY <1>1 DEF ServerSessions, Timers, ServerStates
    <3> HIDE DEF w
    <3>4. ServerInv(w) /\ Said(w) = 1 /\ ServerAt(w) = 4
      BY <1>1, <3>3 DEF ServerInv, Said, ServerAt
    <3>5. ServerEdge(v.need, ServerAt(v), "LAST", ServerAt(w))
      BY <1>3, <2>1, <3>4 DEF ServerEdge
    <3>6. GoodStep(v, "LAST", <<>>, w)
      BY <1>1, <1>3, <2>1, <3>4, <3>5, SilentGood DEF w, Work, ServerStates
    <3> QED
      BY <2>0, <3>1, <3>2, <3>6 DEF v
  <2>2. CASE v.state = "DownloadingCompiler" /\ "pch" \in v.need
    <3> DEFINE w == [v EXCEPT !.state = "DownloadingPCH", !.timer = "armed", !.work = "idle"]
    <3>1. Reply(s, [u EXCEPT !.state = "DownloadingPCH"], <<>>)
      BY <1>1, <2>0, <2>2 DEF GotFilePart, ServerGets, ServerSessions
    <3> HIDE DEF v
    <3>2. [u EXCEPT !.state = "DownloadingPCH"] = w
      BY <1>1, <1>2 DEF ServerSessions
    <3>3. w.state = "DownloadingPCH" /\ w.live = v.live /\ w.timer = "armed" /\ w.work = "idle"
      BY <1>1 DEF ServerSessions, Timers, ServerStates
    <3> HIDE DEF w
    <3>4. ServerInv(w) /\ Said(w) = 1 /\ ServerAt(w) = 3
      BY <1>1, <3>3 DEF ServerInv, Said, ServerAt
    <3>5. ServerEdge(v.need, ServerAt(v), "LAST", ServerAt(w))
      BY <1>3, <2>2, <3>4 DEF ServerEdge, AfterFiles
    <3>6. GoodStep(v, "LAST", <<>>, w)
      BY <1>1, <1>3, <2>2, <3>4, <3>5, SilentGood DEF w, Work, ServerStates
    <3> QED
      BY <2>0, <3>1, <3>2, <3>6 DEF v
  <2>3. CASE v.state = "DownloadingCompiler" /\ "pch" \notin v.need
    <3> DEFINE r == [u EXCEPT !.state = "RunningCompiler"]
    <3>1. Compile(s, u)
      BY <1>1, <2>0, <2>3 DEF GotFilePart, ServerGets, ServerSessions
    <3> HIDE DEF v
    <3>2. /\ r \in ServerSessions /\ r.need = v.need /\ r.live = v.live
          /\ r.cancelPending = v.cancelPending /\ r.state = "RunningCompiler"
          /\ r.timer = "armed"
      BY <1>1 DEF ServerSessions, Timers, ServerStates
    <3> HIDE DEF r
    <3>3. CompileReady(v, "LAST", r)
      BY <1>1, <1>3, <2>3, <3>2 DEF CompileReady, ServerEdge, AfterFiles
    <3> QED
      BY <1>1, <2>0, <3>1, <3>3, CompileGood DEF r, v
  <2> QED
    BY <1>1, <2>1, <2>2, <2>3
<1> QED
  BY <1>4, <1>5 DEF GotFilePart

\* A resource is there: pch_completed, or the handler a repository kept.
LEMMA ResourceReadyGood ==
  ASSUME TypeOK, NEW s \in Sessions, ResourceReady(s), ServerInv(srv[s]), FreshInv(s)
  PROVE  \E w, out : Reply(s, w, out) /\ GoodStep(srv[s], "none", out, w)
<1> DEFINE v == srv[s]
<1>1. v \in ServerSessions
  BY DEF TypeOK, ServerSessions
<1>2. ServerInv(v)
  OBVIOUS
<1>3. v.work \in {"writing", "waiting"} /\ v.state # "GetTask"
  BY DEF ResourceReady, FreshInv
<1>4. CASE v.work = "writing"
  <2> DEFINE u == [v EXCEPT !.work = "idle"]  r == [u EXCEPT !.state = "RunningCompiler"]
  <2>1. Compile(s, u)
    BY <1>4 DEF ResourceReady
  <2> HIDE DEF v
  <2>2. /\ r \in ServerSessions /\ r.need = v.need /\ r.live = v.live
        /\ r.cancelPending = v.cancelPending /\ r.state = "RunningCompiler"
        /\ r.timer = v.timer
    BY <1>1 DEF ServerSessions, Work, ServerStates
  <2> HIDE DEF r
  <2>3. v.state # "Cancelled" /\ (v.live => v.state = "DownloadingPCH" /\ v.timer # "fired")
        /\ (~v.live => v.timer = "fired")
    BY <1>1, <1>2, <1>3, <1>4 DEF ServerInv, ServerSessions, ServerStates
  <2>4. v.live => ServerAt(v) = 4 /\ Said(v) = 1
    BY <1>4, <2>3 DEF ServerAt, Said
  <2>5. CompileReady(v, "none", r)
    BY <1>1, <1>3, <2>2, <2>3, <2>4 DEF CompileReady
  <2> QED
    BY <2>1, <2>3, <2>5, CompileGood DEF r, v
<1>5. CASE v.work = "waiting"
  <2>1. RunCompiler(s, v)
    BY <1>5 DEF ResourceReady
  <2> HIDE DEF v
  <2>2. /\ v.live => v.state = "RunningCompiler" /\ v.timer # "fired"
        /\ ~v.live => \/ v.timer = "fired" /\ v.state # "Cancelled"
                      \/ v.timer = "unset" /\ v.state = "Cancelled"
    BY <1>1, <1>2, <1>3, <1>5 DEF ServerInv, ServerSessions, ServerStates, Timers
  <2>3. v.live => ServerAt(v) = 4 /\ Said(v) = 1
    BY <2>2 DEF ServerAt, Said
  <2>4. CompileReady(v, "none", v)
    BY <1>1, <1>3, <2>2, <2>3 DEF CompileReady
  <2> QED
    BY <2>1, <2>4, RunCompilerGood DEF v
<1> QED
  BY <1>3, <1>4, <1>5

\* The compiler process has ended.
LEMMA CompileCompletedGood ==
  ASSUME TypeOK, NEW s \in Sessions, CompileCompleted(s), ServerInv(srv[s]), FreshInv(s)
  PROVE  \E w, out : Reply(s, w, out) /\ GoodStep(srv[s], "none", out, w)
<1> DEFINE v == srv[s]  u == [v EXCEPT !.work = "idle"]
<1>1. v \in ServerSessions /\ v.work = "compiling" /\ v.state # "GetTask"
  BY DEF TypeOK, ServerSessions, CompileCompleted, FreshInv
<1>2. ServerInv(v)
  OBVIOUS
<1>3. CASE v.state # "RunningCompiler"
  <2>1. Reply(s, u, <<>>)
    BY <1>1, <1>3 DEF CompileCompleted, ServerSessions
  <2> HIDE DEF v
  <2>2. /\ u \in ServerSessions /\ u.need = v.need /\ u.state = v.state /\ u.live = v.live
        /\ u.timer = v.timer /\ u.work = "idle" /\ u.cancelPending = v.cancelPending
    BY <1>1 DEF ServerSessions, Work
  <2> HIDE DEF u
  <2>3. ~v.live
    BY <1>1, <1>2, <1>3 DEF ServerInv, ServerSessions, ServerStates
  <2>4. ServerInv(u) /\ Said(u) = Said(v)
    BY <1>1, <1>2, <2>2, <2>3 DEF ServerInv, Said
  <2>5. GoodStep(v, "none", <<>>, u)
    BY <1>1, <2>2, <2>3, <2>4 DEF GoodStep, SaysWell
  <2> QED
    BY <2>1, <2>5 DEF u, v
<1>4. CASE v.state = "RunningCompiler"
  <2>1. v.live /\ v.timer = "unset" /\ Said(v) = 1 /\ ServerAt(v) = 4
    BY <1>1, <1>2, <1>4 DEF ServerInv, Said, ServerAt, ServerSessions
  <2>2. CASE Reply(s, [u EXCEPT !.state = "WaitForConfirmation", !.timer = "armed"],
                   <<ServerDone(TRUE)>>)
    <3> DEFINE w == [u EXCEPT !.state = "WaitForConfirmation", !.timer = "armed"]
               m == ServerDone(TRUE)
    <3>1. /\ w \in ServerSessions /\ w.need = v.need /\ w.state = "WaitForConfirmation"
          /\ w.live = v.live /\ w.timer = "armed" /\ w.work = "idle"
          /\ w.cancelPending = v.cancelPending
      BY <1>1 DEF ServerSessions, Work, ServerStates, Timers
    <3>2. m \in ToManagerMsgs /\ m # Msg("SESSION_CANCELLED")
      BY DEF ToManagerMsgs, ServerDone, Msg
    <3> HIDE DEF w
    <3>3. ServerInv(w) /\ Said(w) = 2 /\ ServerAt(w) = 4
      BY <2>1, <3>1 DEF ServerInv, Said, ServerAt
    <3>4. ManagerEdge(v.need, Said(v), m, Said(w)) /\ Said(v) <= Said(w)
      BY <2>1, <3>3 DEF ManagerEdge, ServerDone, MissingFiles, Msg
    <3> HIDE DEF v, u, m
    <3>5. SaysWell(v, <<m>>, w)
      BY <3>2, <3>4 DEF SaysWell
    <3>6. GoodStep(v, "none", <<m>>, w)
      BY <1>1, <1>4, <2>1, <3>1, <3>2, <3>3, <3>5 DEF GoodStep
    <3> QED
      BY <2>2, <3>6 DEF v, u, w, m
  <2>3. ASSUME NEW m \in ToManagerMsgs, NEW st \in {v.state, "Failed"},
               Reply(s, Done([u EXCEPT !.state = st]), <<m>>), LastWord(m),
               m # Msg("SESSION_CANCELLED"), ManagerEdge(v.need, 1, m, 3)
        PROVE  \E w, out : Reply(s, w, out) /\ GoodStep(v, "none", out, w)
    <3> DEFINE w == Done([u EXCEPT !.state = st])
    <3>1. /\ w \in ServerSessions /\ w.need = v.need /\ w.state = st
          /\ w.live = FALSE /\ w.timer = "unset" /\ w.work = "idle"
          /\ w.cancelPending = v.cancelPending
      BY <1>1 DEF ServerSessions, Work, ServerStates, Timers, Done
    <3> HIDE DEF w, v, u
    <3>2. ServerInv(w) /\ Said(w) = 3
      BY <1>4, <3>1 DEF ServerInv, Said
    <3>3. SaysWell(v, <<m>>, w)
      BY <2>1, <2>3, <3>2 DEF SaysWell
    <3>4. GoodStep(v, "none", <<m>>, w)
      BY <1>1, <1>4, <2>1, <2>3, <3>1, <3>2, <3>3 DEF GoodStep
    <3> QED
      BY <2>3, <3>4 DEF w, u, v
  <2>4. CASE Reply(s, Done(u), <<ServerDone(FALSE)>>)
    <3> DEFINE m == ServerDone(FALSE)
    <3>1. m \in ToManagerMsgs /\ LastWord(m) /\ m # Msg("SESSION_CANCELLED")
          /\ ManagerEdge(v.need, 1, m, 3)
      BY DEF ToManagerMsgs, ServerDone, Msg, LastWord, ManagerEdge, MissingFiles
    <3>2. u = [u EXCEPT !.state = v.state]
      BY <1>1 DEF ServerSessions
    <3> HIDE DEF m, u, v
    <3>3. Reply(s, Done([u EXCEPT !.state = v.state]), <<m>>)
      BY <2>4, <3>2 DEF m
    <3> QED
      BY <2>3, <3>1, <3>3 DEF v
  <2>5. CASE Reply(s, Done([u EXCEPT !.state = "Failed"]), <<Msg("SERVER_FAILED")>>)
    <3> DEFINE m == Msg("SERVER_FAILED")
    <3>1. m \in ToManagerMsgs /\ LastWord(m) /\ m # Msg("SESSION_CANCELLED")
          /\ ManagerEdge(v.need, 1, m, 3)
      BY DEF ToManagerMsgs, ServerDone, Msg, LastWord, ManagerEdge, MissingFiles
    <3> QED
      BY <2>3, <2>5, <3>1
  <2>6. u.state = "RunningCompiler"
    BY <1>1, <1>4 DEF ServerSessions
  <2> QED
    BY <1>1, <1>4, <2>2, <2>4, <2>5, <2>6 DEF CompileCompleted
<1> QED
  BY <1>3, <1>4

\* The verdict of the manager.
LEMMA GotConfirmationGood ==
  ASSUME TypeOK, NEW s \in Sessions, GotConfirmation(s), ServerInv(srv[s]), FreshInv(s)
  PROVE  \E w, out : /\ Reply(s, w, out)
                     /\ GoodStep(srv[s], Head(toServer[s]).type, out, w)
<1> DEFINE v == srv[s]  u == [v EXCEPT !.timer = "armed"]  type == Head(toServer[s]).type
<1>1. /\ v \in ServerSessions /\ v.live /\ v.timer # "fired" /\ v.work = "idle"
      /\ v.state = "WaitForConfirmation" /\ type \in {"CONFIRM_SEND", "CONFIRM_DROP"}
  BY DEF TypeOK, ServerSessions, GotConfirmation, ServerGets, ServerInv
<1>2. Said(v) = 2 /\ ServerAt(v) = 4
  BY <1>1 DEF Said, ServerAt
<1>3. u.cancelPending = v.cancelPending
  BY <1>1 DEF ServerSessions
<1>4. CASE v.cancelPending
  <2> DEFINE w == Done([u EXCEPT !.state = "Cancelled"])  out == <<Msg("SESSION_CANCELLED")>>
  <2>1. Reply(s, w, out)
    BY <1>1, <1>3, <1>4 DEF GotConfirmation, CancelSession
  <2>2. /\ w \in ServerSessions /\ w.need = v.need /\ w.state = "Cancelled" /\ w.live = FALSE
        /\ w.timer = "unset" /\ w.work = "idle" /\ w.cancelPending = v.cancelPending
    BY <1>1 DEF ServerSessions, Done, Timers, ServerStates
  <2>3. LastWord(Msg("SESSION_CANCELLED"))
    BY DEF Msg, LastWord
  <2> HIDE DEF w, u, v
  <2>4. ServerInv(w) /\ Said(w) = 3
    BY <2>2 DEF ServerInv, Said
  <2>5. SaysWell(v, out, w)
    BY <1>2, <2>4, CancelledSaysWell
  <2>6. GoodStep(v, type, out, w)
    BY <1>1, <1>4, <2>2, <2>3, <2>4, <2>5 DEF GoodStep
  <2> QED
    BY <2>1, <2>6 DEF w, u, v
<1>5. CASE ~v.cancelPending /\ type = "CONFIRM_SEND"
  <2> DEFINE w == [v EXCEPT !.state = "UploadingFile", !.timer = "armed", !.work = "compressing"]
  <2>1. Reply(s, [u EXCEPT !.state = "UploadingFile", !.work = "compressing"], <<>>)
    BY <1>1, <1>3, <1>5 DEF GotConfirmation, ServerGets
  <2>2. [u EXCEPT !.state = "UploadingFile", !.work = "compressing"] = w
    BY <1>1 DEF ServerSessions
  <2>3. /\ w.state = "UploadingFile" /\ w.live = v.live /\ w.timer = "armed"
        /\ w.work = "compressing"
    BY <1>1 DEF ServerSessions
  <2> HIDE DEF w, v
  <2>4. ServerInv(w) /\ Said(w) = 2 /\ ServerAt(w) = 5
    BY <1>1, <2>3 DEF ServerInv, Said, ServerAt
  <2>5. ServerEdge(v.need, ServerAt(v), type, ServerAt(w))
    BY <1>2, <1>5, <2>4 DEF ServerEdge
  <2>6. GoodStep(v, type, <<>>, w)
    BY <1>1, <1>2, <1>5, <2>4, <2>5, SilentGood DEF w, ServerStates, Work
  <2> QED
    BY <2>1, <2>2, <2>6 DEF v
<1>6. CASE ~v.cancelPending /\ type = "CONFIRM_DROP"
  <2> DEFINE w == Done(u)
  <2>1. Reply(s, w, <<>>)
    BY <1>1, <1>3, <1>6 DEF GotConfirmation, ServerGets
  <2>2. /\ w \in ServerSessions /\ w.need = v.need /\ w.state = v.state /\ w.live = FALSE
        /\ w.timer = "unset" /\ w.work = "idle" /\ w.cancelPending = v.cancelPending
    BY <1>1 DEF ServerSessions, Done, Timers
  <2> HIDE DEF w, u, v
  <2>3. ServerInv(w)
    BY <1>1, <2>2 DEF ServerInv
  <2>4. GoodStep(v, type, <<>>, w)
    BY <1>1, <1>6, <2>2, <2>3 DEF GoodStep
  <2> QED
    BY <2>1, <2>4 DEF w, u, v
<1> QED
  BY <1>1, <1>4, <1>5, <1>6

\* send_compressed.
LEMMA ResultCompressedGood ==
  ASSUME TypeOK, NEW s \in Sessions, ResultCompressed(s), ServerInv(srv[s]), FreshInv(s)
  PROVE  \E w, out : Reply(s, w, out) /\ GoodStep(srv[s], "none", out, w)
<1> DEFINE v == srv[s]  u == [v EXCEPT !.work = "idle"]
<1>1. v \in ServerSessions /\ v.work = "compressing" /\ v.state # "GetTask"
  BY DEF TypeOK, ServerSessions, ResultCompressed, FreshInv
<1>2. ServerInv(v)
  OBVIOUS
<1>3. v.state # "Cancelled" /\ (v.live => v.state = "UploadingFile" /\ v.timer # "fired")
      /\ (~v.live => v.timer = "fired")
  BY <1>1, <1>2 DEF ServerInv, ServerSessions, ServerStates
<1>4. /\ u \in ServerSessions /\ u.need = v.need /\ u.state = v.state /\ u.live = v.live
      /\ u.timer = v.timer /\ u.work = "idle" /\ u.cancelPending = v.cancelPending
  BY <1>1 DEF ServerSessions, Work
<1>5. CASE Reply(s, u, <<>>) \/ (~v.live /\ Reply(s, u, FileParts))
  <2> HIDE DEF u, v
  <2>1. ServerInv(u) /\ Said(u) = Said(v) /\ (~v.live => Said(v) = 4)
        /\ (v.live => ServerAt(u) = ServerAt(v))
    BY <1>1, <1>2, <1>3, <1>4 DEF ServerInv, Said, ServerAt
  <2>2. CASE Reply(s, u, <<>>)
    <3>1. GoodStep(v, "none", <<>>, u)
      BY <1>1, <1>3, <1>4, <2>1 DEF GoodStep, SaysWell
    <3> QED
      BY <2>2, <3>1 DEF u, v
  <2>3. CASE ~v.live /\ Reply(s, u, FileParts)
    <3>1. FileParts # <<Msg("SESSION_CANCELLED")>>
      BY DEF FileParts
    <3>2. GoodStep(v, "none", FileParts, u)
      BY <1>1, <1>3, <1>4, <2>1, <2>3, <3>1 DEF GoodStep, SaysWell
    <3> QED
      BY <2>3, <3>2 DEF u, v
  <2> QED
    BY <1>5, <2>2, <2>3
<1>6. CASE v.live /\ Reply(s, Done(u), FileParts)
  <2> DEFINE w == Done(u)
  <2>1. /\ w \in ServerSessions /\ w.need = v.need /\ w.state = v.state /\ w.live = FALSE
        /\ w.timer = "unset" /\ w.work = "idle" /\ w.cancelPending = v.cancelPending
    BY <1>1, <1>4 DEF ServerSessions, Done, Timers
  <2>2. FileParts # <<Msg("SESSION_CANCELLED")>> /\ Len(FileParts) = 2 /\ LastWord(FileParts[2])
    BY DEF FileParts, LastWord, Msg
  <2> HIDE DEF w, u, v
  <2>3. ServerInv(w) /\ Said(w) = 3 /\ Said(v) = 2
    BY <1>3, <1>6, <2>1 DEF ServerInv, Said
  <2>4. SaysWell(v, FileParts, w) /\ (\E i \in 1..Len(FileParts) : LastWord(FileParts[i]))
    BY <2>2, <2>3 DEF SaysWell
  <2>5. GoodStep(v, "none", FileParts, w)
    BY <1>1, <1>3, <2>1, <2>2, <2>3, <2>4 DEF GoodStep
  <2> QED
    BY <1>6, <2>5 DEF w, u, v
<1>7. v.live \in BOOLEAN /\ u.live = v.live
  BY <1>1, <1>4 DEF ServerSessions
<1> QED
  BY <1>5, <1>6, <1>7 DEF ResultCompressed

-----------------------------------------------------------------------------
(* Queues.                                                                 *)

\* Concatenation of short sequences, one message at a time.
LEMMA ConcatShort ==
  ASSUME NEW M, NEW q \in Seq(M), NEW m \in M, NEW n \in M
  PROVE  /\ q \o <<>> = q
         /\ q \o <<m>> = Append(q, m)
         /\ q \o <<m, n>> = Append(Append(q, m), n)
  OBVIOUS

\* A message in the tail of a queue is in the queue.
LEMMA HoldsTail ==
  ASSUME NEW M, NEW q \in Seq(M), q # <<>>, NEW type, Holds(Tail(q), type)
  PROVE  Holds(q, type)
<1>1. PICK i \in 1..Len(Tail(q)) : Tail(q)[i].type = type
  BY DEF Holds
<1>2. i + 1 \in 1..Len(q) /\ Tail(q)[i] = q[i + 1]
  OBVIOUS
<1> QED
  BY <1>1, <1>2 DEF Holds

\* So is the first one.
LEMMA HoldsHead ==
  ASSUME NEW M, NEW q \in Seq(M), q # <<>> PROVE Holds(q, Head(q).type)
<1>1. 1 \in 1..Len(q) /\ Head(q) = q[1]
  OBVIOUS
<1> QED
  BY <1>1 DEF Holds

\* A message in a concatenation is in one of the two.
LEMMA HoldsConcat ==
  ASSUME NEW M, NEW q \in Seq(M), NEW p \in Seq(M), NEW type, Holds(q \o p, type)
  PROVE  Holds(q, type) \/ Holds(p, type)
<1>1. PICK i \in 1..Len(q \o p) : (q \o p)[i].type = type
  BY DEF Holds
<1>2. CASE i <= Len(q)
  <2>1. i \in 1..Len(q) /\ (q \o p)[i] = q[i]
    BY <1>2
  <2> QED
    BY <1>1, <2>1 DEF Holds
<1>3. CASE i > Len(q)
  <2>1. i - Len(q) \in 1..Len(p) /\ (q \o p)[i] = p[i - Len(q)]
    BY <1>3
  <2> QED
    BY <1>1, <2>1 DEF Holds
<1> QED
  BY <1>2, <1>3

\* The last words of a queue.
HasLastWord(q) == \E i \in 1..Len(q) : LastWord(q[i])

\* They are not lost when more is sent.
LEMMA LastWordConcat ==
  ASSUME NEW M, NEW q \in Seq(M), NEW p \in Seq(M), HasLastWord(q) \/ HasLastWord(p)
  PROVE  HasLastWord(q \o p)
<1>1. ASSUME NEW i \in 1..Len(q), LastWord(q[i]) PROVE HasLastWord(q \o p)
  <2>1. i \in 1..Len(q \o p) /\ (q \o p)[i] = q[i]
    OBVIOUS
  <2> QED
    BY <1>1, <2>1 DEF HasLastWord
<1>2. ASSUME NEW i \in 1..Len(p), LastWord(p[i]) PROVE HasLastWord(q \o p)
  <2>1. i + Len(q) \in 1..Len(q \o p) /\ (q \o p)[i + Len(q)] = p[i]
    OBVIOUS
  <2> QED
    BY <1>2, <2>1 DEF HasLastWord
<1> QED
  BY <1>1, <1>2 DEF HasLastWord

\* Only handling a last word can remove it.
LEMMA LastWordTail ==
  ASSUME NEW M, NEW q \in Seq(M), q # <<>>, HasLastWord(q), ~LastWord(Head(q))
  PROVE  HasLastWord(Tail(q))
<1>1. PICK i \in 1..Len(q) : LastWord(q[i])
  BY DEF HasLastWord
<1>2. i # 1
  BY <1>1
<1>3. i - 1 \in 1..Len(Tail(q)) /\ Tail(q)[i - 1] = q[i]
  BY <1>2
<1> QED
  BY <1>1, <1>3 DEF HasLastWord

\* What a step of the server says extends the path of its answers.
LEMMA SaysWellPath ==
  ASSUME NEW v \in ServerSessions, NEW w \in ServerSessions, NEW out, SaysWell(v, out, w),
         NEW q \in Seq(ToManagerMsgs), NEW a, Path(ManagerEdges(v.need), q, a, Said(v))
  PROVE  Path(ManagerEdges(v.need), q \o out, a, Said(w)) /\ q \o out \in Seq(ToManagerMsgs)
<1> DEFINE E == ManagerEdges(v.need)
           Goal == Path(E, q \o out, a, Said(w)) /\ q \o out \in Seq(ToManagerMsgs)
<1> SUFFICES Goal
  OBVIOUS
<1> HIDE DEF Goal
<1>1. Said(v) \in Nat /\ Said(w) \in Nat
  BY DEF Said
<1>2. CASE out = <<>> /\ Said(v) = Said(w)
  BY <1>2 DEF Goal
<1>3. ASSUME NEW m \in ToManagerMsgs, out = <<m>>,
             ManagerEdge(v.need, Said(v), m, Said(w)), Said(v) <= Said(w)
      PROVE  Goal
  <2>1. <<Said(v), m, Said(w)>> \in E
    BY <1>1, <1>3 DEF ManagerEdges
  <2>2. Path(E, Append(q, m), a, Said(w))
    BY <1>1, <1>3, <2>1, PathAppend
  <2>3. q \o out = Append(q, m) /\ Append(q, m) \in Seq(ToManagerMsgs)
    BY <1>3
  <2> QED
    BY <2>2, <2>3 DEF Goal
<1>4. CASE out = FileParts /\ ((Said(v) = 2 /\ Said(w) = 3) \/ (Said(v) = 4 /\ Said(w) = 4))
  <2> DEFINE m == Msg("MORE")  n == Msg("LAST")
  <2>1. m \in ToManagerMsgs /\ n \in ToManagerMsgs /\ out = <<m, n>>
    BY <1>4 DEF ToManagerMsgs, FileParts
  <2>2. <<Said(v), m, Said(v)>> \in E /\ <<Said(v), n, Said(w)>> \in E
    BY <1>1, <1>4, <2>1 DEF ManagerEdges, ManagerEdge, ServerDone, MissingFiles, Msg
  <2>3. Said(v) <= Said(v) /\ Said(v) <= Said(w)
    BY <1>4
  <2> HIDE DEF m, n, E
  <2>4. Path(E, Append(q, m), a, Said(v)) /\ Append(q, m) \in Seq(ToManagerMsgs)
    BY <1>1, <2>1, <2>2, <2>3, PathAppend DEF E
  <2>5. Path(E, Append(Append(q, m), n), a, Said(w))
    BY <1>1, <2>1, <2>2, <2>3, <2>4, PathAppend
  <2>6. q \o out = Append(Append(q, m), n) /\ Append(Append(q, m), n) \in Seq(ToManagerMsgs)
    BY <2>1
  <2> QED
    BY <2>5, <2>6 DEF E, Goal
<1>5. PICK m : \/ out = <<>> /\ Said(v) = Said(w)
               \/ /\ m \in ToManagerMsgs /\ out = <<m>>
                  /\ ManagerEdge(v.need, Said(v), m, Said(w)) /\ Said(v) <= Said(w)
               \/ out = FileParts /\ Said(v) = 2 /\ Said(w) = 3
               \/ out = FileParts /\ Said(v) = 4 /\ Said(w) = 4
  BY Zenon DEF SaysWell
<1> QED
  BY <1>2, <1>3, <1>4, <1>5

\* A step of the server sends SESSION_CANCELLED alone.
LEMMA OutCancelled ==
  ASSUME NEW v, NEW w, NEW out, SaysWell(v, out, w) \/ out = <<>>,
         Holds(out, "SESSION_CANCELLED")
  PROVE  out = <<Msg("SESSION_CANCELLED")>>
<1>1. out # <<>> /\ out # FileParts
  BY DEF Holds, FileParts, Msg
<1>2. PICK m \in ToManagerMsgs : out = <<m>>
  BY <1>1 DEF SaysWell
<1>3. m.type = "SESSION_CANCELLED"
  BY <1>2 DEF Holds
<1>4. m = Msg("SESSION_CANCELLED")
  BY <1>3 DEF ToManagerMsgs, Msg, MissingFiles, ServerDone
<1> QED
  BY <1>2, <1>4

-----------------------------------------------------------------------------
(* A step of the server keeps the invariant of its session.                *)

\* A message leads from a position to one other.
LEMMA EdgeFunctional ==
  ASSUME NEW need, NEW a, NEW type, NEW b, NEW c,
         ServerEdge(need, a, type, b), ServerEdge(need, a, type, c)
  PROVE  b = c
BY DEF ServerEdge

\* The next message to a live session is one that its position allows.
LEMMA NextRequest ==
  ASSUME TypeOK, NEW s \in Sessions, srv[s].live, toServer[s] # <<>>, RequestsInv(s)
  PROVE  \E c \in Nat, p \in 1..5 :
           /\ ServerEdge(srv[s].need, ServerAt(srv[s]), Head(toServer[s]).type, c)
           /\ Path(ServerEdges(srv[s].need), Tail(toServer[s]), c, p)
           /\ c <= p
           /\ SentUpTo(s, p)
<1> DEFINE q == toServer[s]  E == ServerEdges(srv[s].need)
<1>1. q \in Seq(ToServerMsgs)
  BY DEF TypeOK
<1>2. PICK p \in 1..5 : Path(E, q, ServerAt(srv[s]), p) /\ SentUpTo(s, p)
  BY DEF RequestsInv
<1> HIDE DEF E
<1>3. PICK c \in Nat : <<ServerAt(srv[s]), Head(q), c>> \in E /\ Path(E, Tail(q), c, p)
  BY <1>1, <1>2, PathTail
<1>4. ServerEdge(srv[s].need, ServerAt(srv[s]), Head(q).type, c)
  BY <1>3 DEF E, ServerEdges
<1>5. Tail(q) \in Seq(ToServerMsgs)
  BY <1>1
<1>6. c <= p
  BY <1>3, <1>5, PathEnds
<1> QED
  BY <1>2, <1>3, <1>4, <1>6 DEF E

\* Hence the process_msg of its state handles it.
LEMMA RequestExpected ==
  ASSUME TypeOK, NEW s \in Sessions, ServerInv(srv[s]), FreshInv(s), RequestsInv(s)
  PROVE  ServerExpectsHead(s)
<1> SUFFICES ASSUME srv[s].live, toServer[s] # <<>>
             PROVE  Head(toServer[s]).type \in ServerExpected(srv[s])
  BY DEF ServerExpectsHead
<1> DEFINE v == srv[s]  t == Head(toServer[s]).type
<1>1. PICK c \in Nat, p \in 1..5 : ServerEdge(v.need, ServerAt(v), t, c) /\ c <= p /\ SentUpTo(s, p)
  BY NextRequest
<1>2. v \in ServerSessions /\ v.live /\ v.state # "GetTask" /\ ServerInv(v)
  BY DEF TypeOK, ServerSessions, FreshInv
<1>3. p = 5 => v.state \in {"WaitForConfirmation", "UploadingFile"}
  BY <1>1 DEF SentUpTo
<1> HIDE DEF v, t
<1>4. CASE t = "CANCEL_SESSION"
  BY <1>4 DEF ServerExpected, t, v
<1>5. CASE t = "TASK_FILES" /\ ServerAt(v) = 1
  <2>1. v.state = "DownloadMissingHeaders"
    BY <1>5 DEF ServerAt
  <2> QED
    BY <1>5, <2>1 DEF ServerExpected, t, v
<1>6. CASE t \in {"MORE", "LAST"} /\ ServerAt(v) \in {2, 3}
  <2>1. v.state \in {"DownloadingCompiler", "DownloadingPCH"} /\ v.work = "idle"
    BY <1>2, <1>6 DEF ServerAt, ServerInv
  <2>2. {"MORE", "LAST"} \subseteq ServerExpected(v)
    BY <2>1 DEF ServerExpected
  <2> QED
    BY <1>6, <2>2 DEF t, v
<1>7. CASE t \in {"CONFIRM_SEND", "CONFIRM_DROP"} /\ ServerAt(v) = 4 /\ c = 5
  <2>1. v.state = "WaitForConfirmation"
    BY <1>1, <1>3, <1>7 DEF ServerAt
  <2>2. {"CONFIRM_SEND", "CONFIRM_DROP"} \subseteq ServerExpected(v)
    BY <2>1 DEF ServerExpected
  <2> QED
    BY <1>7, <2>2 DEF t, v
<1> QED
  BY <1>1, <1>4, <1>5, <1>6, <1>7 DEF ServerEdge

\* A good step keeps everything that ChannelInv says of its session.
LEMMA GoodStepKeeps ==
  ASSUME TypeOK, NEW s \in Sessions, ChannelInv(s), NEW type, NEW out, NEW w,
         Reply(s, w, out), GoodStep(srv[s], type, out, w),
         UNCHANGED <<taskVars, state, pchOwed, future>>,
         \/ type = "none" /\ toServer' = toServer
         \/ /\ srv[s].live /\ toServer[s] # <<>> /\ type = Head(toServer[s]).type
            /\ type # "none" /\ toServer' = [toServer EXCEPT ![s] = Tail(@)]
  PROVE  ChannelInv(s)'
<1> DEFINE v == srv[s]  q == toManager[s]  p == toServer[s]
<1> USE DEF ChannelInv
<1>1. /\ v \in ServerSessions /\ q \in Seq(ToManagerMsgs) /\ p \in Seq(ToServerMsgs)
      /\ cancelled[s] \in BOOLEAN
  BY DEF TypeOK, ServerSessions, TaskTypeOK
<1>2. /\ srv'[s] = w /\ toManager'[s] = q \o out
      /\ state'[s] = state[s] /\ pchOwed'[s] = pchOwed[s] /\ future'[s] = future[s]
      /\ cancelled'[s] = cancelled[s] /\ result'[s] = result[s]
  BY DEF Reply, TypeOK, taskVars
<1>3. \/ type = "none" /\ toServer'[s] = p
      \/ v.live /\ p # <<>> /\ type = Head(p).type /\ type # "none" /\ toServer'[s] = Tail(p)
  BY DEF TypeOK
<1>4. out \in Seq(ToManagerMsgs)
  BY MsgsAreSequences DEF GoodStep, SaysWell
<1>5. w \in ServerSessions /\ w.state # "GetTask" /\ v.state # "GetTask" /\ w.need = v.need
  BY DEF GoodStep
<1>6. ASSUME NEW t, Holds(toServer'[s], t) PROVE Holds(p, t)
  BY <1>1, <1>3, <1>6, HoldsTail
<1> HIDE DEF v, q, p
<1>7. FreshInv(s)' /\ StartedInv(s)'
  <2>1. state[s] # "START" /\ ~Holds(p, "NEW_SESSION")
    BY <1>5 DEF StartedInv, v, p
  <2>2. ~Holds(toServer'[s], "NEW_SESSION")
    BY <1>6, <2>1
  <2>3. ~Holds(toServer[s], "NEW_SESSION")'
    BY <2>2 DEF Holds
  <2> QED
    BY <1>2, <1>5, <2>1, <2>3 DEF FreshInv, StartedInv
<1>8. ServerInv(srv[s])'
  BY <1>2 DEF GoodStep, ServerInv
<1>9. CancelInv(s)'
  <2>1. ASSUME Holds(toManager'[s], "SESSION_CANCELLED")
        PROVE  Holds(q, "SESSION_CANCELLED") \/ out = <<Msg("SESSION_CANCELLED")>>
    <3>1. Holds(q, "SESSION_CANCELLED") \/ Holds(out, "SESSION_CANCELLED")
      BY <1>1, <1>2, <1>4, <2>1, HoldsConcat
    <3>2. ASSUME Holds(out, "SESSION_CANCELLED") PROVE out = <<Msg("SESSION_CANCELLED")>>
      BY <3>2, OutCancelled DEF GoodStep
    <3> QED
      BY <3>1, <3>2
  <2>2. ASSUME type = "CANCEL_SESSION" PROVE Holds(p, "CANCEL_SESSION")
    BY <1>1, <1>3, <2>2, HoldsHead
  <2>3. \/ w.cancelPending \/ w.state = "Cancelled" \/ out = <<Msg("SESSION_CANCELLED")>>
        => v.cancelPending \/ v.state = "Cancelled" \/ type = "CANCEL_SESSION"
    BY DEF GoodStep, v
  <2>4. \/ v.cancelPending \/ v.state = "Cancelled"
        \/ Holds(p, "CANCEL_SESSION") \/ Holds(q, "SESSION_CANCELLED")
        => cancelled[s]
    BY DEF CancelInv, v, p, q
  <2>5. \/ w.cancelPending \/ w.state = "Cancelled" \/ Holds(toServer'[s], "CANCEL_SESSION")
        \/ Holds(toManager'[s], "SESSION_CANCELLED")
        => cancelled[s]
    BY <1>6, <2>1, <2>2, <2>3, <2>4
  <2> QED
    BY <1>2, <2>5 DEF CancelInv, Holds
<1>10. ASSUME type = "CONFIRM_DROP" PROVE state[s] = "FINISH"
  <2>1. Holds(p, "CONFIRM_DROP")
    BY <1>1, <1>3, <1>10, HoldsHead
  <2> QED
    BY <2>1 DEF DropInv, p
<1>11. AnswersInv(s)'
  <2> SUFFICES ASSUME state[s] \in Busy
               PROVE  Path(ManagerEdges(w.need), q \o out, ManagerAt(s), Said(w))
    BY <1>2 DEF AnswersInv, ManagerAt
  <2>1. Path(ManagerEdges(v.need), q, ManagerAt(s), Said(v))
    BY <1>5 DEF AnswersInv, v, q
  <2>2. SaysWell(v, out, w)
    BY <1>10 DEF GoodStep, Busy, v
  <2> QED
    BY <1>1, <1>5, <2>1, <2>2, SaysWellPath
<1>12. RequestsInv(s)'
  <2> SUFFICES ASSUME w.live
               PROVE  \E k \in 1..5 : /\ Path(ServerEdges(w.need), toServer'[s], ServerAt(w), k)
                                      /\ SentUpTo(s, k)'
    BY <1>2 DEF RequestsInv
  <2>1. v.live
    BY DEF GoodStep, v
  <2>2. ASSUME NEW k \in 1..5, SentUpTo(s, k) PROVE SentUpTo(s, k)'
    BY <1>2, <2>2 DEF SentUpTo, GoodStep, v
  <2>3. CASE type = "none"
    <3>1. PICK k \in 1..5 : Path(ServerEdges(v.need), p, ServerAt(v), k) /\ SentUpTo(s, k)
      BY <2>1 DEF RequestsInv, v, p
    <3>2. ServerAt(w) = ServerAt(v) /\ toServer'[s] = p
      BY <1>3, <2>3 DEF GoodStep, v
    <3> QED
      BY <1>5, <2>2, <3>1, <3>2
  <2>4. CASE type # "none"
    <3>1. p # <<>> /\ type = Head(p).type /\ toServer'[s] = Tail(p)
      BY <1>3, <2>4
    <3>2. PICK c \in Nat, k \in 1..5 : /\ ServerEdge(v.need, ServerAt(v), Head(p).type, c)
                                      /\ Path(ServerEdges(v.need), Tail(p), c, k)
                                      /\ SentUpTo(s, k)
      BY <2>1, <3>1, NextRequest DEF v, p
    <3>3. ServerEdge(v.need, ServerAt(v), type, ServerAt(w))
      BY <2>4 DEF GoodStep, v
    <3>4. c = ServerAt(w)
      BY <3>1, <3>2, <3>3, EdgeFunctional
    <3> QED
      BY <1>5, <2>2, <3>1, <3>2, <3>4
  <2> QED
    BY <2>3, <2>4
<1>13. LastWordInv(s)'
  <2> SUFFICES ASSUME state[s] \in Busy, ~w.live, ~future[s] PROVE HasLastWord(q \o out)
    BY <1>2 DEF LastWordInv, HasLastWord
  <2>1. CASE v.live
    <3>1. HasLastWord(out)
      BY <1>10, <2>1 DEF GoodStep, HasLastWord, Busy, v
    <3> QED
      BY <1>1, <1>4, <3>1, LastWordConcat
  <2>2. CASE ~v.live
    <3>1. HasLastWord(q)
      BY <1>5, <2>2 DEF LastWordInv, HasLastWord, v, q
    <3> QED
      BY <1>1, <1>4, <3>1, LastWordConcat
  <2> QED
    BY <2>1, <2>2
<1>14. WriterInv(s)' /\ DropInv(s)'
  <2>1. Holds(toServer[s], "CONFIRM_DROP")' => Holds(p, "CONFIRM_DROP")
    BY <1>6 DEF Holds
  <2> QED
    BY <1>2, <2>1 DEF WriterInv, DropInv, p
<1> QED
  BY <1>7, <1>8, <1>9, <1>11, <1>12, <1>13, <1>14

-----------------------------------------------------------------------------
(* The other sessions.                                                     *)

\* What a step leaves alone of a session, but for its messages from the manager.
SameSession(t) ==
  /\ srv'[t] = srv[t] /\ toManager'[t] = toManager[t]
  /\ state'[t] = state[t] /\ pchOwed'[t] = pchOwed[t] /\ future'[t] = future[t]
  /\ result'[t] = result[t] /\ (cancelled[t] => cancelled'[t])

\* A session that a step does not touch keeps its invariant.
LEMMA FrameKeeps ==
  ASSUME NEW t \in Sessions, ChannelInv(t), SameSession(t), toServer'[t] = toServer[t]
  PROVE  ChannelInv(t)'
<1> USE DEF ChannelInv, SameSession
<1>1. FreshInv(t)' /\ StartedInv(t)' /\ ServerInv(srv[t])' /\ CancelInv(t)'
  BY DEF FreshInv, StartedInv, ServerInv, CancelInv, Holds
<1>2. AnswersInv(t)'
  BY DEF AnswersInv, ManagerAt
<1>3. RequestsInv(t)'
  BY DEF RequestsInv, SentUpTo
<1>4. LastWordInv(t)' /\ WriterInv(t)' /\ DropInv(t)'
  BY DEF LastWordInv, WriterInv, DropInv, Holds
<1> QED
  BY <1>1, <1>2, <1>3, <1>4

\* Nor does a CANCEL_SESSION disturb a session that has a sender.
LEMMA CancelKeeps ==
  ASSUME TypeOK, NEW t \in Sessions, ChannelInv(t), SameSession(t), HasSender(t), cancelled'[t],
         toServer'[t] = Append(toServer[t], Msg("CANCEL_SESSION"))
  PROVE  ChannelInv(t)'
<1> DEFINE q == toServer[t]  m == Msg("CANCEL_SESSION")
<1> USE DEF ChannelInv, SameSession
<1>1. q \in Seq(ToServerMsgs) /\ m \in ToServerMsgs /\ m.type = "CANCEL_SESSION"
  BY DEF TypeOK, ToServerMsgs, Msg
<1> HIDE DEF m
<1>2. q \o <<m>> = Append(q, m) /\ <<m>> \in Seq(ToServerMsgs)
  BY <1>1
<1>3. ASSUME NEW type, type # "CANCEL_SESSION", Holds(Append(q, m), type) PROVE Holds(q, type)
  <2>1. Holds(q, type) \/ Holds(<<m>>, type)
    BY <1>1, <1>2, <1>3, HoldsConcat
  <2>2. ~Holds(<<m>>, type)
    BY <1>1, <1>3 DEF Holds
  <2> QED
    BY <2>1, <2>2
<1>4. ASSUME NEW type, type # "CANCEL_SESSION", Holds(toServer[t], type)' PROVE Holds(toServer[t], type)
  BY <1>3, <1>4 DEF Holds, m
<1>5. FreshInv(t)' /\ StartedInv(t)' /\ ServerInv(srv[t])' /\ CancelInv(t)'
  BY <1>4 DEF FreshInv, StartedInv, ServerInv, CancelInv, HasSender
<1>6. AnswersInv(t)'
  BY DEF AnswersInv, ManagerAt
<1>7. RequestsInv(t)'
  <2> SUFFICES ASSUME srv[t].live
               PROVE  \E p \in 1..5 :
                        /\ Path(ServerEdges(srv[t].need), toServer'[t], ServerAt(srv[t]), p)
                        /\ SentUpTo(t, p)
    BY DEF RequestsInv, SentUpTo
  <2>1. PICK p \in 1..5 : /\ Path(ServerEdges(srv[t].need), q, ServerAt(srv[t]), p)
                          /\ SentUpTo(t, p)
    BY DEF RequestsInv
  <2>2. <<p, m, p>> \in ServerEdges(srv[t].need)
    BY <1>1 DEF ServerEdges, ServerEdge
  <2>3. Path(ServerEdges(srv[t].need), Append(q, m), ServerAt(srv[t]), p)
    BY <1>1, <2>1, <2>2, PathAppend
  <2> QED
    BY <2>1, <2>3 DEF m
<1>8. LastWordInv(t)' /\ WriterInv(t)' /\ DropInv(t)'
  BY <1>4 DEF LastWordInv, WriterInv, DropInv
<1> QED
  BY <1>5, <1>6, <1>7, <1>8

\* A server session begins.
LEMMA NewSessionKeeps ==
  ASSUME TypeOK, NEW s \in Sessions, ChannelInv(s), NewSession(s)
  PROVE  ChannelInv(s)'
<1> USE DEF ChannelInv
<1>1. PICK need \in Needs :
        Reply(s, [srv[s] EXCEPT !.state = "DownloadMissingHeaders", !.live = TRUE,
                                !.timer = "armed", !.need = need], <<MissingFiles(need)>>)
  BY DEF NewSession
<1> DEFINE w == [srv[s] EXCEPT !.state = "DownloadMissingHeaders", !.live = TRUE,
                               !.timer = "armed", !.need = need]
           m == MissingFiles(need)
<1>2. srv[s] \in ServerSessions /\ toServer[s] \in Seq(ToServerMsgs) /\ toManager[s] \in Seq(ToManagerMsgs)
  BY DEF TypeOK, ServerSessions
<1>3. srv[s].state = "GetTask"
  <2>1. Holds(toServer[s], "NEW_SESSION")
    BY <1>2, HoldsHead DEF NewSession
  <2> QED
    BY <2>1 DEF StartedInv
<1>4. /\ ~srv[s].cancelPending /\ srv[s].work = "idle" /\ toManager[s] = <<>> /\ ~pchOwed[s]
      /\ state[s] \in {"WAIT_FOR_MISSING_FILES", "FINISH"} /\ toServer[s] = <<Msg("NEW_SESSION")>>
  BY <1>3 DEF FreshInv, NewSession
<1>5. /\ w.state = "DownloadMissingHeaders" /\ w.live /\ w.timer = "armed" /\ w.need = need
      /\ w.work = "idle" /\ ~w.cancelPending
  BY <1>2, <1>4 DEF ServerSessions
<1>6. /\ srv'[s] = w /\ toManager'[s] = <<m>> /\ toServer'[s] = <<>>
      /\ state'[s] = state[s] /\ pchOwed'[s] = pchOwed[s] /\ future'[s] = future[s]
      /\ cancelled'[s] = cancelled[s] /\ result'[s] = result[s]
  BY <1>1, <1>4 DEF NewSession, Reply, Received, TypeOK, taskVars
<1>7. m \in ToManagerMsgs /\ m.type = "MISSING_FILES"
  BY DEF ToManagerMsgs, MissingFiles
<1> HIDE DEF w, m
<1>8. FreshInv(s)' /\ StartedInv(s)' /\ ServerInv(srv[s])' /\ CancelInv(s)'
  BY <1>4, <1>5, <1>6, <1>7 DEF FreshInv, StartedInv, ServerInv, CancelInv, Holds
<1>9. AnswersInv(s)'
  <2> SUFFICES ASSUME state[s] \in Busy
               PROVE  Path(ManagerEdges(need), <<m>>, 0, 1)
    BY <1>4, <1>5, <1>6 DEF AnswersInv, ManagerAt, Said, Busy
  <2>1. <<0, m, 1>> \in ManagerEdges(need)
    BY <1>7 DEF ManagerEdges, ManagerEdge, m, MissingFiles, ServerDone, Msg
  <2> QED
    BY <1>7, <2>1, PathOne
<1>10. RequestsInv(s)'
  <2>1. Path(ServerEdges(need), <<>>, 1, 1)
    BY PathEmpty
  <2>2. SentUpTo(s, 1)'
    BY <1>4, <1>6 DEF SentUpTo
  <2>3. ServerAt(w) = 1
    BY <1>5 DEF ServerAt
  <2>4. /\ Path(ServerEdges(srv[s].need), toServer[s], ServerAt(srv[s]), 1)'
        /\ 1 \in 1..5
    BY <1>5, <1>6, <2>1, <2>3
  <2> QED
    BY <2>2, <2>4 DEF RequestsInv
<1>11. LastWordInv(s)' /\ WriterInv(s)' /\ DropInv(s)'
  BY <1>5, <1>6 DEF LastWordInv, WriterInv, DropInv, Holds
<1> QED
  BY <1>8, <1>9, <1>10, <1>11

\* A message for a session that is gone.
LEMMA ServerDropsKeeps ==
  ASSUME TypeOK, NEW s \in Sessions, ChannelInv(s), ServerDropsMessage(s)
  PROVE  ChannelInv(s)'
<1> USE DEF ChannelInv
<1>1. toServer[s] \in Seq(ToServerMsgs) /\ toServer[s] # <<>> /\ ~srv[s].live
  BY DEF TypeOK, ServerDropsMessage
<1>2. SameSession(s) /\ toServer'[s] = Tail(toServer[s])
  BY DEF ServerDropsMessage, Received, taskVars, SameSession, TypeOK
<1>3. srv[s].state # "GetTask"
  BY DEF FreshInv, ServerDropsMessage, Msg
<1>4. ASSUME NEW type, Holds(toServer[s], type)' PROVE Holds(toServer[s], type)
  <2>1. Holds(Tail(toServer[s]), type)
    BY <1>2, <1>4 DEF Holds
  <2> QED
    BY <1>1, <2>1, HoldsTail
<1> USE <1>2 DEF SameSession
<1>5. FreshInv(s)' /\ StartedInv(s)' /\ ServerInv(srv[s])' /\ CancelInv(s)'
  <2>1. CancelInv(s)'
    <3>1. Holds(toManager[s], "SESSION_CANCELLED")' => Holds(toManager[s], "SESSION_CANCELLED")
      BY DEF Holds
    <3> QED
      BY <1>4, <3>1 DEF CancelInv
  <2> QED
    BY <1>3, <1>4, <2>1 DEF FreshInv, StartedInv, ServerInv
<1>6. AnswersInv(s)' /\ RequestsInv(s)'
  BY <1>1 DEF AnswersInv, ManagerAt, RequestsInv
<1>7. LastWordInv(s)' /\ WriterInv(s)' /\ DropInv(s)'
  BY <1>4 DEF LastWordInv, WriterInv, DropInv
<1> QED
  BY <1>5, <1>6, <1>7

-----------------------------------------------------------------------------
(* The manager's steps keep the invariant of their session.                *)

\* The next answer of a server is one that the manager's position allows.
LEMMA NextAnswer ==
  ASSUME TypeOK, NEW s \in Sessions, state[s] \in Busy, toManager[s] # <<>>,
         FreshInv(s), AnswersInv(s)
  PROVE  /\ srv[s].state # "GetTask"
         /\ \E c \in Nat :
              /\ ManagerEdge(srv[s].need, ManagerAt(s), Head(toManager[s]), c)
              /\ Path(ManagerEdges(srv[s].need), Tail(toManager[s]), c, Said(srv[s]))
              /\ c <= Said(srv[s])
<1> DEFINE q == toManager[s]  E == ManagerEdges(srv[s].need)
<1>1. q \in Seq(ToManagerMsgs)
  BY DEF TypeOK
<1>2. srv[s].state # "GetTask"
  BY DEF FreshInv
<1>3. Path(E, q, ManagerAt(s), Said(srv[s]))
  BY <1>2 DEF AnswersInv
<1> HIDE DEF E
<1>4. PICK c \in Nat : <<ManagerAt(s), Head(q), c>> \in E /\ Path(E, Tail(q), c, Said(srv[s]))
  BY <1>1, <1>3, PathTail
<1>5. ManagerEdge(srv[s].need, ManagerAt(s), Head(q), c)
  BY <1>4 DEF E, ManagerEdges
<1>6. Tail(q) \in Seq(ToManagerMsgs)
  BY <1>1
<1>7. c <= Said(srv[s])
  BY <1>4, <1>6, PathEnds
<1> QED
  BY <1>2, <1>4, <1>5, <1>7 DEF E

\* What the manager's position is.
LEMMA ManagerPositions ==
  ASSUME ManagerInv, NEW s \in Sessions, state[s] \in Busy
  PROVE  /\ ManagerAt(s) \in 0..3
         /\ ManagerAt(s) = 0 <=> state[s] = "WAIT_FOR_MISSING_FILES"
         /\ ManagerAt(s) = 1 <=> state[s] = "WAIT_FOR_SERVER_RESPONSE"
         /\ ManagerAt(s) = 2 <=> state[s] = "RECEIVE_OBJECT_FILE" /\ ~future[s]
         /\ ManagerAt(s) = 3 <=> future[s]
<1>1. future[s] \in BOOLEAN /\ (future[s] => state[s] = "RECEIVE_OBJECT_FILE")
  BY DEF ManagerInv, ManagerTypeOK, SessionInv, WriterState, Busy
<1> QED
  BY <1>1 DEF ManagerAt, Busy

\* Hence got_data_from_server handles it.
LEMMA AnswerExpected ==
  ASSUME TypeOK, ManagerInv, NEW s \in Sessions, FreshInv(s), AnswersInv(s), CancelInv(s)
  PROVE  ManagerExpectsHead(s)
<1> SUFFICES ASSUME phase[s] = "running", toManager[s] # <<>>
             PROVE  Head(toManager[s]).type \in Expected(s)
  BY DEF ManagerExpectsHead
<1> DEFINE m == Head(toManager[s])
<1>1. state[s] \in Busy
  BY DEF ManagerInv, SessionInv, PhaseOfState
<1>2. PICK c \in Nat : ManagerEdge(srv[s].need, ManagerAt(s), m, c)
  BY <1>1, NextAnswer
<1>3. m.type = "SESSION_CANCELLED" => cancelled[s]
  <2>1. Holds(toManager[s], m.type)
    BY HoldsHead DEF TypeOK
  <2> QED
    BY <2>1 DEF CancelInv
<1> HIDE DEF m
<1>4. \/ m.type = "MISSING_FILES" /\ ManagerAt(s) = 0
      \/ m.type \in {"SERVER_DONE", "SERVER_FAILED"} /\ ManagerAt(s) = 1
      \/ m.type \in {"MORE", "LAST"} /\ ManagerAt(s) = 2
      \/ m.type \in {"SESSION_CANCELLED", "TIMED_OUT"}
      \/ ManagerAt(s) = 4
  BY <1>2 DEF ManagerEdge, MissingFiles, ServerDone, Msg
<1>5. CASE m.type = "MISSING_FILES" /\ ManagerAt(s) = 0
  BY <1>1, <1>5, ManagerPositions DEF Expected, m
<1>6. CASE m.type \in {"SERVER_DONE", "SERVER_FAILED"} /\ ManagerAt(s) = 1
  <2>1. {"SERVER_DONE", "SERVER_FAILED"} \subseteq Expected(s)
    BY <1>1, <1>6, ManagerPositions DEF Expected
  <2> QED
    BY <1>6, <2>1 DEF m
<1>7. CASE m.type \in {"MORE", "LAST"} /\ ManagerAt(s) = 2
  <2>1. {"MORE", "LAST"} \subseteq Expected(s)
    BY <1>1, <1>7, ManagerPositions DEF Expected
  <2> QED
    BY <1>7, <2>1 DEF m
<1>8. CASE m.type \in {"SESSION_CANCELLED", "TIMED_OUT"}
  BY <1>3, <1>8 DEF Expected, m
<1>9. ManagerAt(s) # 4
  BY <1>1, ManagerPositions
<1> QED
  BY <1>4, <1>5, <1>6, <1>7, <1>8, <1>9 DEF m

\* A session whose result is being written has no message on its way.
LEMMA NoAnswerWhileWriting ==
  ASSUME TypeOK, ManagerInv, NEW s \in Sessions, state[s] \in Busy, FreshInv(s), AnswersInv(s),
         toManager[s] # <<>>
  PROVE  ~future[s]
<1>1. PICK c \in Nat : ManagerEdge(srv[s].need, ManagerAt(s), Head(toManager[s]), c)
  BY NextAnswer
<1>2. ManagerAt(s) # 3
  BY <1>1 DEF ManagerEdge, ServerDone, MissingFiles, Msg
<1> QED
  BY <1>2, ManagerPositions

\* The session s of a handler of the manager: what stays as it is, and its queue
\* of answers shortened or not.
HandlerFrame(s) ==
  /\ srv'[s] = srv[s]
  /\ toManager'[s] = toManager[s] \/ (toManager[s] # <<>> /\ toManager'[s] = Tail(toManager[s]))

\* Shortening the queue of answers uncovers no message.
LEMMA HandlerHolds ==
  ASSUME TypeOK, NEW s \in Sessions, HandlerFrame(s), NEW type, Holds(toManager[s], type)'
  PROVE  Holds(toManager[s], type)
<1>1. Holds(toManager'[s], type)
  BY DEF Holds
<1> QED
  BY <1>1, HoldsTail DEF TypeOK, HandlerFrame

\* A running session completes and sends nothing.
LEMMA FinishKeeps ==
  ASSUME TypeOK, ManagerInv, NEW s \in Sessions, ChannelInv(s), state[s] \in Busy,
         HandlerFrame(s), state'[s] = "FINISH", pchOwed'[s] = pchOwed[s],
         cancelled[s] => cancelled'[s], toServer'[s] = toServer[s],
         future'[s] => result'[s] = "terminated"
  PROVE  ChannelInv(s)'
<1> USE DEF ChannelInv
<1>1. FreshInv(s)' /\ StartedInv(s)' /\ ServerInv(srv[s])'
  BY DEF FreshInv, StartedInv, ServerInv, HandlerFrame, Busy, Holds
<1>2. CancelInv(s)'
  <2>1. Holds(toServer[s], "CANCEL_SESSION")' => Holds(toServer[s], "CANCEL_SESSION")
    BY DEF Holds
  <2>2. Holds(toManager[s], "SESSION_CANCELLED")' => Holds(toManager[s], "SESSION_CANCELLED")
    BY HandlerHolds
  <2> QED
    BY <2>1, <2>2 DEF CancelInv, HandlerFrame
<1>3. AnswersInv(s)' /\ LastWordInv(s)' /\ WriterInv(s)' /\ DropInv(s)'
  BY DEF AnswersInv, LastWordInv, WriterInv, DropInv, Busy
<1>4. RequestsInv(s)'
  BY DEF RequestsInv, SentUpTo, HandlerFrame
<1> QED
  BY <1>1, <1>2, <1>3, <1>4

\* The session reports a result: the server waits for a verdict, or is gone.
LEMMA VerdictPath ==
  ASSUME TypeOK, ManagerInv, NEW s \in Sessions, ChannelInv(s), state[s] \in Busy,
         toManager[s] # <<>>, Head(toManager[s]).type = "SERVER_DONE",
         Head(toManager[s]).ok, srv[s].live,
         NEW m \in {Msg("CONFIRM_SEND"), Msg("CONFIRM_DROP")}
  PROVE  /\ Path(ServerEdges(srv[s].need), Append(toServer[s], m), ServerAt(srv[s]), 5)
         /\ srv[s].state \in {"WaitForConfirmation", "UploadingFile"}
         /\ ~pchOwed[s]
<1> USE DEF ChannelInv
<1> DEFINE v == srv[s]  d == Head(toManager[s])
<1>1. PICK c \in Nat : ManagerEdge(v.need, ManagerAt(s), d, c) /\ c <= Said(v)
  BY NextAnswer
<1>2. ManagerAt(s) = 1 /\ c = 2
  <2>1. ManagerAt(s) # 4
    BY ManagerPositions
  <2> QED
    BY <1>1, <2>1 DEF ManagerEdge, MissingFiles, ServerDone, Msg
<1>3. v \in ServerSessions /\ v.timer # "fired"
  BY DEF TypeOK, ServerSessions, ServerInv
<1>4. v.state \in {"WaitForConfirmation", "UploadingFile"}
  BY <1>1, <1>2, <1>3 DEF Said
<1>5. PICK p \in 1..5 : Path(ServerEdges(v.need), toServer[s], ServerAt(v), p) /\ SentUpTo(s, p)
  BY DEF RequestsInv
<1>6. toServer[s] \in Seq(ToServerMsgs) /\ m \in ToServerMsgs
  BY DEF TypeOK, ToServerMsgs
<1>7. p \in {4, 5}
  <2>1. ServerAt(v) \in {4, 5}
    BY <1>4 DEF ServerAt
  <2>2. ServerAt(v) <= p
    BY <1>5, <1>6, PathEnds
  <2> QED
    BY <2>1, <2>2
<1>8. pchOwed[s] \in BOOLEAN /\ state[s] = "WAIT_FOR_SERVER_RESPONSE"
  BY <1>2, ManagerPositions DEF TypeOK
<1>9. p = 4 /\ ~pchOwed[s]
  BY <1>5, <1>7, <1>8 DEF SentUpTo
<1>10. <<4, m, 5>> \in ServerEdges(v.need)
  BY <1>6 DEF ServerEdges, ServerEdge, Msg
<1>11. Path(ServerEdges(v.need), Append(toServer[s], m), ServerAt(v), 5)
  BY <1>5, <1>6, <1>9, <1>10, PathAppend
<1> QED
  BY <1>4, <1>9, <1>11

\* The handlers that complete their session, the late report aside.
LEMMA CompletingKeeps ==
  ASSUME TypeOK, ManagerInv, NEW s \in Sessions, ChannelInv(s),
         \/ Terminate(s) \/ GotSessionCancelled(s) \/ GotTimedOut(s) \/ GotServerFailed(s)
         \/ Decompressed(s)
  PROVE  ChannelInv(s)'
<1> USE DEF ChannelInv
<1>0. phase[s] = "running" => state[s] \in Busy
  BY DEF ManagerInv, SessionInv, PhaseOfState
<1>1. CASE Terminate(s)
  <2>1. /\ state[s] \in Busy /\ HandlerFrame(s) /\ state'[s] = "FINISH"
        /\ pchOwed'[s] = pchOwed[s] /\ cancelled' = cancelled /\ toServer' = toServer
        /\ result'[s] = "terminated"
    BY <1>0, <1>1 DEF Terminate, Complete, DoSessionCompleted, HandlerFrame, TypeOK, TaskTypeOK
  <2> QED
    BY <2>1, FinishKeeps
<1>2. CASE GotSessionCancelled(s) \/ GotTimedOut(s) \/ GotServerFailed(s)
  <2>1. /\ state[s] \in Busy /\ HandlerFrame(s) /\ state'[s] = "FINISH"
        /\ pchOwed'[s] = pchOwed[s] /\ cancelled' = cancelled /\ toServer' = toServer
        /\ future' = future /\ toManager[s] # <<>>
    BY <1>0, <1>2 DEF GotSessionCancelled, GotTimedOut, GotServerFailed, ManagerGets, Complete,
       DoSessionCompleted, HandlerFrame, Consumed, TypeOK, TaskTypeOK
  <2>2. ~future'[s]
    BY <2>1, NoAnswerWhileWriting
  <2> QED
    BY <2>1, <2>2, FinishKeeps
<1>3. CASE Decompressed(s) /\ state[s] # "FINISH"
  <2>0. state[s] \in Busy
    BY <1>3 DEF Decompressed, ManagerInv, SessionInv, WriterState, Busy
  <2>1. /\ HandlerFrame(s) /\ state'[s] = "FINISH"
        /\ pchOwed'[s] = pchOwed[s] /\ cancelled' = cancelled /\ toServer' = toServer
        /\ ~future'[s]
    BY <1>3 DEF Decompressed, Complete, DoSessionCompleted, HandlerFrame, TypeOK, TaskTypeOK
  <2> QED
    BY <2>0, <2>1, FinishKeeps
<1>4. CASE Decompressed(s) /\ state[s] = "FINISH"
  <2>1. /\ srv' = srv /\ toManager' = toManager /\ state' = state /\ pchOwed' = pchOwed
        /\ toServer' = toServer /\ cancelled' = cancelled /\ ~future'[s]
    BY <1>4 DEF Decompressed, taskVars, TypeOK
  <2>2. FreshInv(s)' /\ StartedInv(s)' /\ ServerInv(srv[s])' /\ CancelInv(s)'
    BY <2>1 DEF FreshInv, StartedInv, ServerInv, CancelInv, Holds
  <2>3. AnswersInv(s)' /\ LastWordInv(s)' /\ WriterInv(s)' /\ DropInv(s)'
    BY <1>4, <2>1 DEF AnswersInv, LastWordInv, WriterInv, DropInv, Busy
  <2>4. RequestsInv(s)'
    BY <2>1 DEF RequestsInv, SentUpTo
  <2> QED
    BY <2>2, <2>3, <2>4
<1> QED
  BY <1>1, <1>2, <1>3, <1>4

\* A verdict is sent: CONFIRM_SEND to the owner, CONFIRM_DROP to a late session.
LEMMA VerdictKeeps ==
  ASSUME TypeOK, ManagerInv, NEW s \in Sessions, ChannelInv(s), state[s] \in Busy,
         toManager[s] # <<>>, Head(toManager[s]).type = "SERVER_DONE", Head(toManager[s]).ok,
         NEW m, toServer'[s] = Append(toServer[s], m), toManager'[s] = Tail(toManager[s]),
         srv'[s] = srv[s], pchOwed'[s] = pchOwed[s], future'[s] = future[s],
         cancelled'[s] = cancelled[s],
         \/ m = Msg("CONFIRM_SEND") /\ state'[s] = "RECEIVE_OBJECT_FILE"
         \/ m = Msg("CONFIRM_DROP") /\ state'[s] = "FINISH"
  PROVE  ChannelInv(s)'
<1> USE DEF ChannelInv
<1> DEFINE q == toServer[s]  d == Head(toManager[s])
<1>1. /\ q \in Seq(ToServerMsgs) /\ m \in ToServerMsgs
      /\ m.type \in {"CONFIRM_SEND", "CONFIRM_DROP"}
      /\ m.type = "CONFIRM_DROP" => state'[s] = "FINISH"
  BY DEF TypeOK, ToServerMsgs, Msg
<1>2. q \o <<m>> = Append(q, m) /\ <<m>> \in Seq(ToServerMsgs)
  BY <1>1
<1>3. ASSUME NEW type, type # m.type, Holds(toServer[s], type)' PROVE Holds(toServer[s], type)
  <2>1. Holds(q \o <<m>>, type)
    BY <1>2, <1>3 DEF Holds
  <2>2. Holds(q, type) \/ Holds(<<m>>, type)
    BY <1>1, <1>2, <2>1, HoldsConcat
  <2>3. ~Holds(<<m>>, type)
    BY <1>3 DEF Holds
  <2> QED
    BY <2>2, <2>3
<1>4. HandlerFrame(s) /\ ~future[s]
  BY NoAnswerWhileWriting DEF HandlerFrame
<1>5. srv[s].state # "GetTask"
  BY NextAnswer
<1>6. FreshInv(s)' /\ StartedInv(s)' /\ ServerInv(srv[s])'
  BY <1>1, <1>3, <1>5 DEF FreshInv, StartedInv, ServerInv
<1>7. CancelInv(s)'
  <2>1. Holds(toServer[s], "CANCEL_SESSION")' => Holds(toServer[s], "CANCEL_SESSION")
    BY <1>1, <1>3
  <2>2. Holds(toManager[s], "SESSION_CANCELLED")' => Holds(toManager[s], "SESSION_CANCELLED")
    BY <1>4, HandlerHolds
  <2> QED
    BY <2>1, <2>2 DEF CancelInv
<1>9. AnswersInv(s)'
  <2>1. PICK c \in Nat : /\ ManagerEdge(srv[s].need, ManagerAt(s), d, c)
                         /\ Path(ManagerEdges(srv[s].need), Tail(toManager[s]), c, Said(srv[s]))
    BY NextAnswer
  <2>2. c = 2
    <3>1. ManagerAt(s) # 4
      BY ManagerPositions
    <3> QED
      BY <2>1, <3>1 DEF ManagerEdge, MissingFiles, ServerDone, Msg
  <2>3. state'[s] = "RECEIVE_OBJECT_FILE" => ManagerAt(s)' = 2
    BY <1>4 DEF ManagerAt
  <2> QED
    BY <2>1, <2>2, <2>3 DEF AnswersInv, Busy
<1>10. RequestsInv(s)'
  <2> SUFFICES ASSUME srv[s].live
               PROVE  /\ Path(ServerEdges(srv[s].need), Append(q, m), ServerAt(srv[s]), 5)
                      /\ SentUpTo(s, 5)'
    BY DEF RequestsInv
  <2> QED
    BY VerdictPath DEF SentUpTo
<1>11. LastWordInv(s)'
  <2>1. ~LastWord(d)
    BY DEF LastWord
  <2>2. HasLastWord(toManager[s]) => HasLastWord(Tail(toManager[s]))
    BY <2>1, LastWordTail DEF TypeOK
  <2> QED
    BY <1>4, <1>5, <2>2 DEF LastWordInv, HasLastWord
<1>12. WriterInv(s)' /\ DropInv(s)'
  <2>1. state[s] # "FINISH"
    BY DEF Busy
  <2> QED
    BY <1>1, <1>3, <1>4, <2>1 DEF WriterInv, DropInv
<1> QED
  BY <1>6, <1>7, <1>9, <1>10, <1>11, <1>12

\* The reports of a result.
LEMMA ReportKeeps ==
  ASSUME TypeOK, ManagerInv, NEW s \in Sessions, ChannelInv(s),
         GotFirstCompletion(s) \/ GotLateCompletion(s)
  PROVE  ChannelInv(s)'
<1> DEFINE d == Head(toManager[s])
<1>1. /\ state[s] \in Busy /\ toManager[s] # <<>> /\ d.type = "SERVER_DONE"
      /\ toManager'[s] = Tail(toManager[s]) /\ srv' = srv /\ pchOwed' = pchOwed
      /\ future' = future
  BY DEF GotFirstCompletion, GotLateCompletion, ManagerGets, Consumed, ManagerInv, SessionInv,
     PhaseOfState, TypeOK
<1>2. cancelled'[s] = cancelled[s]
  BY DEF GotFirstCompletion, GotLateCompletion, Complete, DoRegisterCompletion, CancelOthers,
     TypeOK, TaskTypeOK
<1>3. CASE d.ok
  <2>1. \/ /\ state'[s] = "RECEIVE_OBJECT_FILE"
           /\ toServer'[s] = toServer[s] \o <<Msg("CONFIRM_SEND")>>
        \/ /\ state'[s] = "FINISH"
           /\ toServer'[s] = toServer[s] \o <<Msg("CONFIRM_DROP")>>
    BY <1>3 DEF GotFirstCompletion, GotLateCompletion, Complete, SendCancels, SendToServer,
       TypeOK
  <2>2. \A m \in ToServerMsgs : toServer[s] \o <<m>> = Append(toServer[s], m)
    BY DEF TypeOK
  <2>3. Msg("CONFIRM_SEND") \in ToServerMsgs /\ Msg("CONFIRM_DROP") \in ToServerMsgs
    BY DEF ToServerMsgs
  <2> QED
    BY <1>1, <1>2, <1>3, <2>1, <2>2, <2>3, VerdictKeeps
<1>4. CASE ~d.ok
  <2>1. state'[s] = "FINISH" /\ toServer'[s] = toServer[s] \o <<>>
    BY <1>4 DEF GotFirstCompletion, GotLateCompletion, Complete, SendCancels, SendToServer,
       TypeOK
  <2>2. toServer'[s] = toServer[s]
    BY <2>1 DEF TypeOK
  <2>3. ~future'[s]
    BY <1>1, NoAnswerWhileWriting DEF ChannelInv
  <2> QED
    BY <1>1, <1>2, <2>1, <2>2, <2>3, FinishKeeps DEF HandlerFrame
<1> QED
  BY <1>3, <1>4

\* A session starts.
LEMMA StartKeeps ==
  ASSUME TypeOK, ManagerInv, NEW s \in Sessions, ChannelInv(s), StartSession(s)
  PROVE  ChannelInv(s)'
<1> USE DEF ChannelInv
<1>1. state[s] = "START"
  BY DEF StartSession, ManagerInv, SessionInv, PhaseOfState
<1>2. srv[s].state = "GetTask" /\ toServer[s] = <<>>
  BY <1>1 DEF StartedInv, FreshInv
<1>3. /\ srv' = srv /\ toManager' = toManager /\ pchOwed' = pchOwed /\ future' = future
      /\ cancelled' = cancelled /\ result' = result
      /\ state'[s] = "WAIT_FOR_MISSING_FILES" /\ toServer'[s] = <<Msg("NEW_SESSION")>>
  BY <1>2 DEF StartSession, DoRegisterSession, SendToServer, TypeOK
<1>4. FreshInv(s)' /\ StartedInv(s)' /\ ServerInv(srv[s])'
  BY <1>1, <1>2, <1>3 DEF FreshInv, StartedInv, ServerInv
<1>5. CancelInv(s)' /\ DropInv(s)'
  <2>1. ~Holds(toServer[s], "CANCEL_SESSION")' /\ ~Holds(toServer[s], "CONFIRM_DROP")'
    BY <1>3 DEF Holds, Msg
  <2>2. Holds(toManager[s], "SESSION_CANCELLED")' => Holds(toManager[s], "SESSION_CANCELLED")
    BY <1>3 DEF Holds
  <2> QED
    BY <1>3, <2>1, <2>2 DEF CancelInv, DropInv
<1>6. AnswersInv(s)' /\ RequestsInv(s)' /\ LastWordInv(s)' /\ WriterInv(s)'
  BY <1>2, <1>3 DEF AnswersInv, RequestsInv, LastWordInv, WriterInv, FreshInv
<1> QED
  BY <1>4, <1>5, <1>6

\* A message for a session that is not running.
LEMMA ManagerDropsKeeps ==
  ASSUME TypeOK, ManagerInv, NEW s \in Sessions, ChannelInv(s), ManagerDropsMessage(s)
  PROVE  ChannelInv(s)'
<1> USE DEF ChannelInv
<1>1. state[s] \notin Busy /\ toManager[s] # <<>>
  BY DEF ManagerDropsMessage, ManagerInv, SessionInv, PhaseOfState
<1>2. /\ srv' = srv /\ pchOwed' = pchOwed /\ future' = future /\ state' = state
      /\ cancelled' = cancelled /\ result' = result /\ toServer' = toServer /\ HandlerFrame(s)
  BY DEF ManagerDropsMessage, Consumed, HandlerFrame, taskVars, TypeOK
<1>3. FreshInv(s)' /\ StartedInv(s)' /\ ServerInv(srv[s])' /\ DropInv(s)'
  BY <1>1, <1>2 DEF FreshInv, StartedInv, ServerInv, DropInv, Holds
<1>4. CancelInv(s)'
  <2>1. Holds(toServer[s], "CANCEL_SESSION")' => Holds(toServer[s], "CANCEL_SESSION")
    BY <1>2 DEF Holds
  <2>2. Holds(toManager[s], "SESSION_CANCELLED")' => Holds(toManager[s], "SESSION_CANCELLED")
    BY <1>2, HandlerHolds
  <2> QED
    BY <1>2, <2>1, <2>2 DEF CancelInv
<1>5. AnswersInv(s)' /\ LastWordInv(s)' /\ WriterInv(s)'
  BY <1>1, <1>2 DEF AnswersInv, LastWordInv, WriterInv
<1>6. RequestsInv(s)'
  BY <1>2 DEF RequestsInv, SentUpTo
<1> QED
  BY <1>3, <1>4, <1>5, <1>6

\* A part of the object file.
LEMMA ObjectPartKeeps ==
  ASSUME TypeOK, ManagerInv, NEW s \in Sessions, ChannelInv(s), GotObjectPart(s)
  PROVE  ChannelInv(s)'
<1> USE DEF ChannelInv
<1> DEFINE d == Head(toManager[s])
<1>1. state[s] \in Busy /\ toManager[s] # <<>> /\ d.type \in {"MORE", "LAST"}
  BY DEF GotObjectPart, ManagerGets, ManagerInv, SessionInv, PhaseOfState
<1>2. /\ srv' = srv /\ pchOwed' = pchOwed /\ state' = state
      /\ future'[s] = (d.type = "LAST")
      /\ cancelled' = cancelled /\ result' = result /\ toServer' = toServer
      /\ toManager'[s] = Tail(toManager[s]) /\ HandlerFrame(s)
  BY <1>1 DEF GotObjectPart, Consumed, HandlerFrame, taskVars, TypeOK
<1>3. /\ srv[s].state # "GetTask"
      /\ \E c \in Nat :
           /\ ManagerEdge(srv[s].need, ManagerAt(s), d, c)
           /\ Path(ManagerEdges(srv[s].need), Tail(toManager[s]), c, Said(srv[s]))
  BY <1>1, NextAnswer
<1>4. PICK c \in Nat : /\ ManagerEdge(srv[s].need, ManagerAt(s), d, c)
                       /\ Path(ManagerEdges(srv[s].need), Tail(toManager[s]), c, Said(srv[s]))
  BY <1>3
<1>5. ManagerAt(s) \in 0..3
  BY <1>1, ManagerPositions
<1> HIDE DEF d
<1>6. /\ ManagerAt(s) = 2
      /\ d.type = "MORE" => c = 2
      /\ d.type = "LAST" => c = 3
  BY <1>1, <1>4, <1>5 DEF ManagerEdge, MissingFiles, ServerDone, Msg
<1>7. state[s] = "RECEIVE_OBJECT_FILE" /\ ~future[s]
  BY <1>1, <1>6, ManagerPositions
<1>8. FreshInv(s)' /\ StartedInv(s)' /\ ServerInv(srv[s])' /\ DropInv(s)' /\ WriterInv(s)'
  BY <1>2, <1>3, <1>7 DEF FreshInv, StartedInv, ServerInv, DropInv, WriterInv, Holds
<1>9. CancelInv(s)'
  <2>1. Holds(toServer[s], "CANCEL_SESSION")' => Holds(toServer[s], "CANCEL_SESSION")
    BY <1>2 DEF Holds
  <2>2. Holds(toManager[s], "SESSION_CANCELLED")' => Holds(toManager[s], "SESSION_CANCELLED")
    BY <1>2, HandlerHolds
  <2> QED
    BY <1>2, <2>1, <2>2 DEF CancelInv
<1>10. AnswersInv(s)'
  <2>1. ManagerAt(s)' = c
    BY <1>1, <1>2, <1>6, <1>7 DEF ManagerAt
  <2> QED
    BY <1>2, <1>4, <2>1 DEF AnswersInv
<1>11. RequestsInv(s)'
  BY <1>2 DEF RequestsInv, SentUpTo
<1>12. LastWordInv(s)'
  <2>1. CASE d.type = "LAST"
    BY <1>2, <2>1 DEF LastWordInv
  <2>2. CASE d.type = "MORE"
    <3>1. ~LastWord(d)
      BY <2>2 DEF LastWord
    <3>2. HasLastWord(toManager[s]) => HasLastWord(Tail(toManager[s]))
      BY <1>1, <3>1, LastWordTail DEF TypeOK, d
    <3> QED
      BY <1>2, <1>7, <3>2 DEF LastWordInv, HasLastWord
  <2> QED
    BY <1>1, <2>1, <2>2
<1> QED
  BY <1>8, <1>9, <1>10, <1>11, <1>12

\* The parts of a file move a server that expects it on.
LEMMA FilePath ==
  ASSUME NEW need, NEW q \in Seq(ToServerMsgs), NEW a, NEW p \in {2, 3}, NEW k \in Nat,
         Path(ServerEdges(need), q, a, p),
         p = 2 => k = AfterFiles(need), p = 3 => k = 4
  PROVE  Path(ServerEdges(need), q \o FileParts, a, k)
<1> DEFINE m == Msg("MORE")  n == Msg("LAST")  E == ServerEdges(need)
<1>1. m \in ToServerMsgs /\ n \in ToServerMsgs
  BY DEF ToServerMsgs
<1>2. <<p, m, p>> \in E /\ <<p, n, k>> \in E /\ p <= k
  BY <1>1 DEF ServerEdges, ServerEdge, Msg, AfterFiles
<1>3. q \o FileParts = Append(Append(q, m), n) /\ Append(q, m) \in Seq(ToServerMsgs)
  BY <1>1 DEF FileParts
<1> HIDE DEF m, n, E
<1>4. Path(E, Append(q, m), a, p)
  BY <1>1, <1>2, PathAppend DEF E
<1>5. Path(E, Append(Append(q, m), n), a, k)
  BY <1>1, <1>2, <1>3, <1>4, PathAppend
<1> QED
  BY <1>3, <1>5 DEF E

\* The Compressor sends the PCH.
LEMMA SendPCHKeeps ==
  ASSUME TypeOK, ManagerInv, NEW s \in Sessions, ChannelInv(s), SendPCH(s)
  PROVE  ChannelInv(s)'
<1> USE DEF ChannelInv
<1> DEFINE q == toServer[s]
<1>1. /\ srv' = srv /\ state' = state /\ future' = future /\ toManager' = toManager
      /\ cancelled' = cancelled /\ result' = result
      /\ toServer'[s] = q \o FileParts /\ pchOwed[s] /\ ~pchOwed'[s]
  BY DEF SendPCH, SendToServer, taskVars, TypeOK
<1>2. srv[s].state # "GetTask"
  BY <1>1 DEF FreshInv
<1>3. q \in Seq(ToServerMsgs) /\ FileParts \in Seq(ToServerMsgs)
  BY MsgsAreSequences DEF TypeOK
<1>4. ASSUME NEW type, type \notin {"MORE", "LAST"}, Holds(toServer[s], type)'
      PROVE  Holds(toServer[s], type)
  <2>1. Holds(q \o FileParts, type)
    BY <1>1, <1>4 DEF Holds
  <2>2. ~Holds(FileParts, type)
    BY <1>4 DEF Holds, FileParts, Msg
  <2> QED
    BY <1>3, <2>1, <2>2, HoldsConcat
<1>5. FreshInv(s)' /\ StartedInv(s)' /\ ServerInv(srv[s])' /\ DropInv(s)' /\ WriterInv(s)'
  BY <1>1, <1>2, <1>4 DEF FreshInv, StartedInv, ServerInv, DropInv, WriterInv
<1>6. CancelInv(s)'
  <2>1. Holds(toManager[s], "SESSION_CANCELLED")' => Holds(toManager[s], "SESSION_CANCELLED")
    BY <1>1 DEF Holds
  <2> QED
    BY <1>1, <1>4, <2>1 DEF CancelInv
<1>7. AnswersInv(s)' /\ LastWordInv(s)'
  BY <1>1 DEF AnswersInv, ManagerAt, LastWordInv
<1>8. RequestsInv(s)'
  <2> SUFFICES ASSUME srv[s].live
               PROVE  /\ Path(ServerEdges(srv[s].need), q \o FileParts, ServerAt(srv[s]), 4)
                      /\ SentUpTo(s, 4)'
    BY <1>1 DEF RequestsInv
  <2>1. PICK p \in 1..5 : Path(ServerEdges(srv[s].need), q, ServerAt(srv[s]), p) /\ SentUpTo(s, p)
    BY DEF RequestsInv
  <2>2. p = 3
    BY <1>1, <2>1 DEF SentUpTo
  <2>3. Path(ServerEdges(srv[s].need), q \o FileParts, ServerAt(srv[s]), 4)
    BY <1>3, <2>1, <2>2, FilePath
  <2>4. SentUpTo(s, 4)'
    BY <1>1, <2>1, <2>2 DEF SentUpTo
  <2> QED
    BY <2>3, <2>4
<1> QED
  BY <1>5, <1>6, <1>7, <1>8

\* Appending sequences in another order.
LEMMA ConcatAssoc ==
  \A M : \A x, y, z \in Seq(M) : x \o (y \o z) = (x \o y) \o z
BY ConcatAssociative, SMTT(30)

\* Appending three sequences at once or one after the other.
LEMMA ConcatThree ==
  ASSUME NEW M, NEW q \in Seq(M), NEW a \in Seq(M), NEW b \in Seq(M), NEW c \in Seq(M)
  PROVE  q \o ((a \o b) \o c) = ((q \o a) \o b) \o c
<1>1. \A x, y, z \in Seq(M) : x \o (y \o z) = (x \o y) \o z
  BY ConcatAssoc, SMTT(30)
<1>2. a \o b \in Seq(M)
  OBVIOUS
<1>3. q \o (a \o b) = (q \o a) \o b
  BY <1>1, Zenon
<1>4. \A d \in Seq(M) : q \o (d \o c) = (q \o d) \o c
  BY <1>1, Zenon
<1>5. q \o ((a \o b) \o c) = (q \o (a \o b)) \o c
  BY <1>2, <1>4, Zenon
<1> QED
  BY <1>3, <1>5, Zenon

\* MISSING_FILES is answered with the files, the compiler and, later, the PCH.
LEMMA MissingFilesKeeps ==
  ASSUME TypeOK, ManagerInv, NEW s \in Sessions, ChannelInv(s), GotMissingFiles(s)
  PROVE  ChannelInv(s)'
<1> USE DEF ChannelInv
<1> DEFINE v == srv[s]  q == toServer[s]  d == Head(toManager[s])
           msgs == (IF cancelled[s] THEN <<Msg("CANCEL_SESSION")>> ELSE <<>>)
                     \o <<Msg("TASK_FILES")>>
                     \o (IF "compiler" \in d.need THEN FileParts ELSE <<>>)
<1>1. state[s] \in Busy /\ toManager[s] # <<>> /\ d.type = "MISSING_FILES"
  BY DEF GotMissingFiles, ManagerGets, ManagerInv, SessionInv, PhaseOfState
<1>2. v.state # "GetTask" /\ ManagerAt(s) \in 0..3
  BY <1>1, NextAnswer, ManagerPositions
<1>3. PICK c \in Nat : /\ ManagerEdge(v.need, ManagerAt(s), d, c)
                       /\ Path(ManagerEdges(v.need), Tail(toManager[s]), c, Said(v))
  BY <1>1, NextAnswer
<1>4. d.need = v.need /\ ManagerAt(s) = 0 /\ c = 1
  BY <1>1, <1>2, <1>3 DEF ManagerEdge, MissingFiles, ServerDone, Msg
<1>5. state[s] = "WAIT_FOR_MISSING_FILES" /\ ~future[s]
  BY <1>1, <1>4, ManagerPositions
<1>6. /\ srv' = srv /\ future' = future /\ cancelled' = cancelled /\ result' = result
      /\ state'[s] = "WAIT_FOR_SERVER_RESPONSE" /\ pchOwed'[s] = ("pch" \in v.need)
      /\ toManager'[s] = Tail(toManager[s]) /\ HandlerFrame(s)
      /\ toServer'[s] = q \o msgs
  BY <1>1, <1>4 DEF GotMissingFiles, Consumed, SendToServer, HandlerFrame, taskVars, TypeOK
<1>7. /\ q \in Seq(ToServerMsgs) /\ cancelled[s] \in BOOLEAN
      /\ Msg("CANCEL_SESSION") \in ToServerMsgs /\ Msg("TASK_FILES") \in ToServerMsgs
  BY DEF TypeOK, TaskTypeOK, ToServerMsgs
<1> DEFINE q1 == IF cancelled[s] THEN Append(q, Msg("CANCEL_SESSION")) ELSE q
           q2 == Append(q1, Msg("TASK_FILES"))
           q3 == IF "compiler" \in v.need THEN q2 \o FileParts ELSE q2
<1>8. q1 \in Seq(ToServerMsgs) /\ q2 \in Seq(ToServerMsgs) /\ q3 \in Seq(ToServerMsgs)
  BY <1>7, MsgsAreSequences
<1>9. toServer'[s] = q3
  <2> DEFINE x == Msg("CANCEL_SESSION")  y == Msg("TASK_FILES")
             cc == IF cancelled[s] THEN <<x>> ELSE <<>>
             f == IF "compiler" \in v.need THEN FileParts ELSE <<>>
  <2>1. toServer'[s] = q \o ((cc \o <<y>>) \o f)
    BY <1>4, <1>6
  <2>2. x \in ToServerMsgs /\ y \in ToServerMsgs /\ FileParts \in Seq(ToServerMsgs)
    BY <1>7, MsgsAreSequences
  <2> HIDE DEF x, y
  <2>3. cc \in Seq(ToServerMsgs) /\ <<y>> \in Seq(ToServerMsgs) /\ f \in Seq(ToServerMsgs)
    BY <2>2
  <2>4. q1 = q \o cc
    BY <1>7, <2>2, ConcatShort DEF x
  <2>5. q2 = q1 \o <<y>>
    BY <1>8, <2>2, ConcatShort DEF y
  <2>6. q3 = q2 \o f
    BY <1>8, <2>2, ConcatEmptySeq
  <2> HIDE DEF cc, f, q, q1, q2, q3
  <2>7. q \o ((cc \o <<y>>) \o f) = ((q \o cc) \o <<y>>) \o f
    BY <1>7, <2>3, ConcatThree
  <2> QED
    BY <2>1, <2>4, <2>5, <2>6, <2>7
<1>10. msgs \in Seq(ToServerMsgs)
  BY <1>7, MsgsAreSequences
<1>11. ASSUME NEW type, Holds(msgs, type)
       PROVE  type \in {"TASK_FILES", "MORE", "LAST"} \/ (type = "CANCEL_SESSION" /\ cancelled[s])
  BY <1>7, <1>11 DEF Holds, FileParts, Msg
<1> HIDE DEF d, msgs, q
<1>12. ASSUME NEW type, Holds(toServer[s], type)' PROVE Holds(q, type) \/ Holds(msgs, type)
  <2>1. Holds(q \o msgs, type)
    BY <1>6, <1>12 DEF Holds, q
  <2> QED
    BY <1>7, <1>10, <2>1, HoldsConcat
<1>13. FreshInv(s)' /\ StartedInv(s)' /\ ServerInv(srv[s])' /\ WriterInv(s)'
  <2>1. ~Holds(toServer[s], "NEW_SESSION")'
    BY <1>2, <1>11, <1>12 DEF StartedInv, q
  <2> QED
    BY <1>2, <1>5, <1>6, <2>1 DEF FreshInv, StartedInv, ServerInv, WriterInv
<1>14. CancelInv(s)' /\ DropInv(s)'
  <2>1. Holds(toServer[s], "CANCEL_SESSION")' => Holds(toServer[s], "CANCEL_SESSION") \/ cancelled[s]
    BY <1>11, <1>12 DEF q
  <2>2. Holds(toManager[s], "SESSION_CANCELLED")' => Holds(toManager[s], "SESSION_CANCELLED")
    BY <1>6, HandlerHolds
  <2>3. ~Holds(toServer[s], "CONFIRM_DROP")'
    BY <1>5, <1>11, <1>12 DEF DropInv, q
  <2> QED
    BY <1>6, <2>1, <2>2, <2>3 DEF CancelInv, DropInv
<1>15. AnswersInv(s)'
  <2>1. ManagerAt(s)' = 1
    BY <1>6 DEF ManagerAt
  <2> QED
    BY <1>3, <1>4, <1>6, <2>1 DEF AnswersInv
<1>16. LastWordInv(s)'
  <2>1. ~LastWord(d)
    BY <1>1 DEF LastWord
  <2>2. HasLastWord(toManager[s]) => HasLastWord(Tail(toManager[s]))
    BY <1>1, <2>1, LastWordTail DEF TypeOK, d
  <2> QED
    BY <1>1, <1>2, <1>5, <1>6, <2>2 DEF LastWordInv, HasLastWord
<1>17. RequestsInv(s)'
  <2> DEFINE E == ServerEdges(v.need)  a == ServerAt(v)
  <2> SUFFICES ASSUME v.live
               PROVE  /\ Path(E, q3, a, AfterFiles(v.need))
                      /\ AfterFiles(v.need) \in 1..5
                      /\ SentUpTo(s, AfterFiles(v.need))'
    BY <1>6, <1>9 DEF RequestsInv
  <2>1. Path(E, q, a, 1)
    BY <1>5 DEF RequestsInv, SentUpTo, q
  <2>2. Path(E, q1, a, 1)
    <3>1. CASE ~cancelled[s]
      BY <2>1, <3>1
    <3>2. CASE cancelled[s]
      <4>1. <<1, Msg("CANCEL_SESSION"), 1>> \in E
        BY <1>7 DEF ServerEdges, ServerEdge, Msg
      <4>2. Path(E, Append(q, Msg("CANCEL_SESSION")), a, 1)
        BY <1>7, <2>1, <4>1, PathAppend
      <4> QED
        BY <3>2, <4>2
    <3> QED
      BY <3>1, <3>2
  <2> HIDE DEF q1
  <2>3. Path(E, q2, a, AfterTask(v.need))
    <3>1. /\ <<1, Msg("TASK_FILES"), AfterTask(v.need)>> \in E
          /\ AfterTask(v.need) \in Nat /\ 1 <= AfterTask(v.need)
      BY <1>7 DEF ServerEdges, ServerEdge, Msg, AfterTask, AfterFiles
    <3> QED
      BY <1>7, <1>8, <2>2, <3>1, PathAppend
  <2> HIDE DEF q2
  <2>4. Path(E, q3, a, AfterFiles(v.need))
    <3>1. CASE "compiler" \notin v.need
      BY <2>3, <3>1 DEF AfterTask
    <3>2. CASE "compiler" \in v.need
      <4>1. Path(E, q2, a, 2) /\ AfterFiles(v.need) \in Nat
        BY <2>3, <3>2 DEF AfterTask, AfterFiles
      <4>2. Path(E, q2 \o FileParts, a, AfterFiles(v.need))
        BY <1>8, <4>1, FilePath
      <4> QED
        BY <3>2, <4>2
    <3> QED
      BY <3>1, <3>2
  <2>5. SentUpTo(s, AfterFiles(v.need))'
    <3>1. CASE "pch" \in v.need
      <4>1. AfterFiles(v.need)' = 3
        BY <1>6, <3>1 DEF AfterFiles
      <4>2. pchOwed'[s]
        BY <1>6, <3>1
      <4> QED
        BY <1>6, <4>1, <4>2 DEF SentUpTo
    <3>2. CASE "pch" \notin v.need
      <4>1. AfterFiles(v.need)' = 4
        BY <1>6, <3>2 DEF AfterFiles
      <4>2. ~pchOwed'[s]
        BY <1>6, <3>2
      <4> QED
        BY <1>6, <4>1, <4>2 DEF SentUpTo
    <3> QED
      BY <3>1, <3>2
  <2> QED
    BY <2>4, <2>5 DEF AfterFiles
<1> QED
  BY <1>13, <1>14, <1>15, <1>16, <1>17

-----------------------------------------------------------------------------
(* Every step keeps the invariant.                                         *)

Inv == TypeOK /\ ManagerInv /\ \A s \in Sessions : ChannelInv(s)

\* The message of type is taken from the queue, if the step handles one.
Handles(s, type) ==
  \/ type = "none" /\ toServer' = toServer
  \/ /\ srv[s].live /\ toServer[s] # <<>> /\ type = Head(toServer[s]).type
     /\ type # "none" /\ toServer' = [toServer EXCEPT ![s] = Tail(@)]

\* A server session begins, is gone, or takes a good step.
LEMMA ServerCases ==
  ASSUME TypeOK, NEW s \in Sessions, ChannelInv(s),
         ServerStep(s) \/ ResourceReady(s) \/ SelfDestruct(s)
  PROVE  \/ NewSession(s) \/ ServerDropsMessage(s)
         \/ /\ \E type, out, w :
                 Reply(s, w, out) /\ GoodStep(srv[s], type, out, w) /\ Handles(s, type)
            /\ UNCHANGED <<taskVars, state, pchOwed, future>>
<1> USE DEF ChannelInv
<1>1. CASE GotCancel(s)
  <2>1. Handles(s, "CANCEL_SESSION") /\ UNCHANGED <<taskVars, state, pchOwed, future>>
    BY <1>1 DEF GotCancel, ServerGets, Received, Handles
  <2> QED
    BY <1>1, <2>1, GotCancelGood
<1>2. CASE GotTaskFiles(s)
  <2>1. Handles(s, "TASK_FILES") /\ UNCHANGED <<taskVars, state, pchOwed, future>>
    BY <1>2 DEF GotTaskFiles, ServerGets, Received, Handles
  <2> QED
    BY <1>2, <2>1, GotTaskFilesGood
<1>3. CASE GotFilePart(s)
  <2>1. Handles(s, Head(toServer[s]).type) /\ UNCHANGED <<taskVars, state, pchOwed, future>>
    BY <1>3 DEF GotFilePart, ServerGets, Received, Handles
  <2> QED
    BY <1>3, <2>1, GotFilePartGood, RequestExpected
<1>4. CASE GotConfirmation(s)
  <2>1. Handles(s, Head(toServer[s]).type) /\ UNCHANGED <<taskVars, state, pchOwed, future>>
    BY <1>4 DEF GotConfirmation, ServerGets, Received, Handles
  <2> QED
    BY <1>4, <2>1, GotConfirmationGood
<1>5. CASE CompileCompleted(s)
  <2>1. Handles(s, "none") /\ UNCHANGED <<taskVars, state, pchOwed, future>>
    BY <1>5 DEF CompileCompleted, Handles
  <2> QED
    BY <1>5, <2>1, CompileCompletedGood
<1>6. CASE ResultCompressed(s)
  <2>1. Handles(s, "none") /\ UNCHANGED <<taskVars, state, pchOwed, future>>
    BY <1>6 DEF ResultCompressed, Handles
  <2> QED
    BY <1>6, <2>1, ResultCompressedGood
<1>7. CASE ResourceReady(s)
  <2>1. Handles(s, "none") /\ UNCHANGED <<taskVars, state, pchOwed, future>>
    BY <1>7 DEF ResourceReady, Handles
  <2> QED
    BY <1>7, <2>1, ResourceReadyGood
<1>8. CASE SelfDestruct(s)
  <2>1. Handles(s, "none") /\ UNCHANGED <<taskVars, state, pchOwed, future>>
    BY <1>8 DEF SelfDestruct, Handles
  <2> QED
    BY <1>8, <2>1, SelfDestructGood
<1> QED
  BY <1>1, <1>2, <1>3, <1>4, <1>5, <1>6, <1>7, <1>8 DEF ServerStep

\* The server's steps keep the types of what they change.
LEMMA ServerTypes ==
  ASSUME TypeOK, NEW s \in Sessions, ChannelInv(s),
         ServerStep(s) \/ ResourceReady(s) \/ SelfDestruct(s)
  PROVE  TypeOK'
<1>1. ASSUME NEW w \in ServerSessions, NEW out \in Seq(ToManagerMsgs), Reply(s, w, out)
      PROVE  srv' \in [Sessions -> ServerSessions] /\ toManager' \in [Sessions -> Seq(ToManagerMsgs)]
  BY <1>1 DEF Reply, TypeOK, ServerSessions
<1>2. UNCHANGED <<taskVars, state, pchOwed, future>>
  BY ServerCases DEF NewSession, ServerDropsMessage, Received
<1>3. \/ toServer' = toServer
      \/ toServer[s] # <<>> /\ toServer' = [toServer EXCEPT ![s] = Tail(@)]
  BY ServerCases DEF NewSession, ServerDropsMessage, Received, Handles
<1>4. TaskTypeOK' /\ toServer' \in [Sessions -> Seq(ToServerMsgs)]
  <2>1. TaskTypeOK'
    BY <1>2 DEF TypeOK, TaskTypeOK, taskVars
  <2>2. toServer[s] # <<>> => Tail(toServer[s]) \in Seq(ToServerMsgs)
    BY DEF TypeOK
  <2> QED
    BY <1>3, <2>1, <2>2 DEF TypeOK
<1>5. CASE NewSession(s)
  <2>1. PICK need \in Needs :
          Reply(s, [srv[s] EXCEPT !.state = "DownloadMissingHeaders", !.live = TRUE,
                                  !.timer = "armed", !.need = need], <<MissingFiles(need)>>)
    BY <1>5 DEF NewSession
  <2>2. [srv[s] EXCEPT !.state = "DownloadMissingHeaders", !.live = TRUE,
                       !.timer = "armed", !.need = need] \in ServerSessions
    BY DEF TypeOK, ServerSessions, ServerStates, Timers
  <2>3. <<MissingFiles(need)>> \in Seq(ToManagerMsgs)
    BY MsgsAreSequences DEF ToManagerMsgs
  <2> QED
    BY <1>1, <1>2, <1>4, <2>1, <2>2, <2>3 DEF TypeOK, ServerSessions
<1>6. CASE ServerDropsMessage(s)
  BY <1>2, <1>4, <1>6 DEF ServerDropsMessage, TypeOK
<1>7. ASSUME NEW type, NEW out, NEW w, Reply(s, w, out), GoodStep(srv[s], type, out, w)
      PROVE  TypeOK'
  <2>1. w \in ServerSessions /\ out \in Seq(ToManagerMsgs)
    BY <1>7, MsgsAreSequences DEF GoodStep, SaysWell
  <2> QED
    BY <1>1, <1>2, <1>4, <1>7, <2>1 DEF TypeOK, ServerSessions
<1> QED
  BY <1>5, <1>6, <1>7, ServerCases

\* They keep the invariant of every session.
LEMMA ServerKeeps ==
  ASSUME Inv, NEW s \in Sessions, ServerStep(s) \/ ResourceReady(s) \/ SelfDestruct(s),
         NEW t \in Sessions
  PROVE  ChannelInv(t)'
<1> USE DEF Inv
<1>1. CASE t = s
  <2>1. ASSUME NEW type, NEW out, NEW w, Reply(s, w, out), GoodStep(srv[s], type, out, w),
               Handles(s, type), UNCHANGED <<taskVars, state, pchOwed, future>>
        PROVE  ChannelInv(s)'
    BY <2>1, GoodStepKeeps DEF Handles
  <2> QED
    BY <1>1, <2>1, ServerCases, NewSessionKeeps, ServerDropsKeeps
<1>2. CASE t # s
  <2>1. /\ srv'[t] = srv[t] /\ toManager'[t] = toManager[t] /\ toServer'[t] = toServer[t]
        /\ UNCHANGED <<taskVars, state, pchOwed, future>>
    <3>1. CASE NewSession(s)
      BY <1>2, <3>1 DEF NewSession, Received, Reply, TypeOK
    <3>2. CASE ServerDropsMessage(s)
      BY <1>2, <3>2 DEF ServerDropsMessage, Received, TypeOK
    <3>3. ASSUME NEW type, NEW out, NEW w, Reply(s, w, out), Handles(s, type),
                 UNCHANGED <<taskVars, state, pchOwed, future>>
          PROVE  srv'[t] = srv[t] /\ toManager'[t] = toManager[t] /\ toServer'[t] = toServer[t]
      BY <1>2, <3>3 DEF Reply, Handles, TypeOK
    <3> QED
      BY <3>1, <3>2, <3>3, ServerCases
  <2>2. SameSession(t)
    BY <2>1 DEF SameSession, taskVars
  <2> QED
    BY <2>1, <2>2, FrameKeeps
<1> QED
  BY <1>1, <1>2

\* A step of the manager leaves the other sessions alone, but for the cancels it
\* sends them.
LEMMA ManagerFrame ==
  ASSUME Inv, NEW s \in Sessions, ManagerStep(s) \/ Terminate(s), NEW t \in Sessions, t # s
  PROVE  /\ SameSession(t)
         /\ \/ toServer'[t] = toServer[t]
            \/ /\ HasSender(t) /\ cancelled'[t]
               /\ toServer'[t] = Append(toServer[t], Msg("CANCEL_SESSION"))
<1> USE DEF Inv, TypeOK, TaskTypeOK, SameSession
<1>1. CASE StartSession(s)
  BY <1>1 DEF StartSession, DoRegisterSession, SendToServer
<1>2. CASE ManagerDropsMessage(s) \/ SendPCH(s) \/ GotObjectPart(s) \/ GotMissingFiles(s)
  BY <1>2 DEF ManagerDropsMessage, SendPCH, GotObjectPart, GotMissingFiles, SendToServer,
     Consumed, taskVars
<1>3. ASSUME NEW r, Complete(s, r)
      PROVE  state'[t] = state[t] /\ result'[t] = result[t] /\ cancelled' = cancelled
  BY <1>3 DEF Complete, DoSessionCompleted
<1>4. CASE GotSessionCancelled(s) \/ GotTimedOut(s) \/ GotServerFailed(s) \/ Terminate(s)
  BY <1>3, <1>4 DEF GotSessionCancelled, GotTimedOut, GotServerFailed, Terminate, Consumed
<1>5. CASE GotLateCompletion(s)
  BY <1>3, <1>5 DEF GotLateCompletion, SendToServer, Consumed
<1>6. CASE Decompressed(s)
  <2>1. state'[t] = state[t] /\ result'[t] = result[t] /\ cancelled' = cancelled
    BY <1>3, <1>6 DEF Decompressed, taskVars
  <2> QED
    BY <1>6, <2>1 DEF Decompressed
<1>7. ASSUME NEW msgs, SendCancels(s, msgs), cancelled' = CancelOthers(s)
      PROVE  /\ cancelled[t] => cancelled'[t]
             /\ \/ toServer'[t] = toServer[t]
                \/ /\ HasSender(t) /\ cancelled'[t]
                   /\ toServer'[t] = Append(toServer[t], Msg("CANCEL_SESSION"))
  BY <1>7 DEF SendCancels, CancelOthers, Running
<1>8. CASE GotFirstCompletion(s)
  <2>1. /\ state'[t] = state[t] /\ result'[t] = result[t] /\ toManager'[t] = toManager[t]
        /\ pchOwed' = pchOwed /\ future' = future /\ srv' = srv
    BY <1>8 DEF GotFirstCompletion, DoRegisterCompletion, DoSessionCompleted, Consumed
  <2>2. cancelled' = CancelOthers(s) /\ \E msgs : SendCancels(s, msgs)
    BY <1>8 DEF GotFirstCompletion, DoRegisterCompletion
  <2> QED
    BY <1>7, <2>1, <2>2
<1>9. CASE CompletionAssertFails(s)
  <2>1. /\ state' = state /\ result' = result /\ toManager' = toManager
        /\ pchOwed' = pchOwed /\ future' = future /\ srv' = srv
    BY <1>9 DEF CompletionAssertFails, DoRegisterCompletion
  <2>2. cancelled' = CancelOthers(s) /\ SendCancels(s, <<>>)
    BY <1>9 DEF CompletionAssertFails, DoRegisterCompletion
  <2> QED
    BY <1>7, <2>1, <2>2
<1> QED
  BY <1>1, <1>2, <1>4, <1>5, <1>6, <1>8, <1>9 DEF ManagerStep

\* The assertion that stops a cancelled session leaves its channels alone.
LEMMA AssertFailsKeeps ==
  ASSUME Inv, NEW s \in Sessions, CompletionAssertFails(s)
  PROVE  ChannelInv(s)'
<1>1. toServer'[s] = toServer[s] \o <<>> /\ toServer[s] \in Seq(ToServerMsgs)
  BY DEF CompletionAssertFails, SendCancels, Inv, TypeOK
<1>2. toServer'[s] = toServer[s]
  BY <1>1, ConcatEmptySeq
<1>3. SameSession(s)
  BY DEF CompletionAssertFails, DoRegisterCompletion, SameSession, CancelOthers, Running, Inv, TypeOK,
     TaskTypeOK
<1> QED
  BY <1>2, <1>3, FrameKeeps DEF Inv

\* The manager's steps keep the invariant of every session.
LEMMA ManagerKeeps ==
  ASSUME Inv, NEW s \in Sessions, ManagerStep(s) \/ Terminate(s), NEW t \in Sessions
  PROVE  ChannelInv(t)'
<1>1. CASE t # s
  BY <1>1, ManagerFrame, FrameKeeps, CancelKeeps DEF Inv
<1>2. CASE t = s
  BY <1>2, StartKeeps, ManagerDropsKeeps, MissingFilesKeeps, SendPCHKeeps, CompletingKeeps,
     ReportKeeps, AssertFailsKeeps, ObjectPartKeeps DEF ManagerStep, Inv
<1> QED
  BY <1>1, <1>2

\* They keep the types of the channels.
LEMMA ManagerTypes ==
  ASSUME Inv, ManagerTypeOK', NEW s \in Sessions, ManagerStep(s) \/ Terminate(s)
  PROVE  TypeOK'
<1> USE DEF Inv
<1>1. /\ FileParts \in Seq(ToServerMsgs) /\ <<>> \in Seq(ToServerMsgs)
      /\ \A type \in {"NEW_SESSION", "CANCEL_SESSION", "TASK_FILES", "CONFIRM_SEND", "CONFIRM_DROP"} :
           Msg(type) \in ToServerMsgs /\ <<Msg(type)>> \in Seq(ToServerMsgs)
  BY MsgsAreSequences DEF ToServerMsgs
<1>2. srv' = srv
  BY DEF ManagerStep, Terminate, StartSession, ManagerDropsMessage, GotMissingFiles, SendPCH,
     GotSessionCancelled, GotTimedOut, GotServerFailed, GotFirstCompletion, CompletionAssertFails,
     GotLateCompletion, GotObjectPart, Decompressed
<1>3. \/ toManager' = toManager
      \/ toManager[s] # <<>> /\ Consumed(s)
  BY DEF ManagerStep, Terminate, StartSession, ManagerDropsMessage, GotMissingFiles, SendPCH,
     GotSessionCancelled, GotTimedOut, GotServerFailed, GotFirstCompletion, CompletionAssertFails,
     GotLateCompletion, GotObjectPart, Decompressed, ManagerGets
<1>4. toManager' \in [Sessions -> Seq(ToManagerMsgs)]
  <2>1. toManager[s] # <<>> => Tail(toManager[s]) \in Seq(ToManagerMsgs)
    BY DEF TypeOK
  <2> QED
    BY <1>3, <2>1 DEF TypeOK, Consumed
<1>5. pchOwed' = pchOwed \/ \E b \in BOOLEAN : pchOwed' = [pchOwed EXCEPT ![s] = b]
  <2>1. CASE GotMissingFiles(s)
    <3>1. ("pch" \in Head(toManager[s]).need) \in BOOLEAN
      OBVIOUS
    <3> QED
      BY <2>1, <3>1 DEF GotMissingFiles
  <2>2. CASE SendPCH(s)
    BY <2>2 DEF SendPCH
  <2> QED
    BY <2>1, <2>2 DEF ManagerStep, Terminate, StartSession, ManagerDropsMessage,
       GotSessionCancelled, GotTimedOut, GotServerFailed, GotFirstCompletion,
       CompletionAssertFails, GotLateCompletion, GotObjectPart, Decompressed
<1>6. ASSUME NEW msgs \in Seq(ToServerMsgs), SendToServer(s, msgs)
      PROVE  toServer' \in [Sessions -> Seq(ToServerMsgs)]
  BY <1>6 DEF SendToServer, TypeOK
<1>7. ASSUME NEW msgs \in Seq(ToServerMsgs), SendCancels(s, msgs)
      PROVE  toServer' \in [Sessions -> Seq(ToServerMsgs)]
  BY <1>1, <1>7 DEF SendCancels, TypeOK
<1>8. toServer' \in [Sessions -> Seq(ToServerMsgs)]
  <2>1. CASE toServer' = toServer
    BY <2>1 DEF TypeOK
  <2>2. CASE StartSession(s)
    BY <1>1, <1>6, <2>2 DEF StartSession
  <2>3. CASE GotMissingFiles(s)
    <3>1. PICK n :
            SendToServer(s, (IF cancelled[s] THEN <<Msg("CANCEL_SESSION")>> ELSE <<>>)
                              \o <<Msg("TASK_FILES")>>
                              \o (IF "compiler" \in n THEN FileParts ELSE <<>>))
      BY <2>3 DEF GotMissingFiles
    <3>2. (IF cancelled[s] THEN <<Msg("CANCEL_SESSION")>> ELSE <<>>)
             \o <<Msg("TASK_FILES")>>
             \o (IF "compiler" \in n THEN FileParts ELSE <<>>) \in Seq(ToServerMsgs)
      BY <1>1
    <3> QED
      BY <1>6, <3>1, <3>2
  <2>4. CASE SendPCH(s)
    BY <1>1, <1>6, <2>4 DEF SendPCH
  <2>5. CASE GotFirstCompletion(s) \/ CompletionAssertFails(s)
    BY <1>1, <1>7, <2>5 DEF GotFirstCompletion, CompletionAssertFails
  <2>6. CASE GotLateCompletion(s)
    BY <1>1, <1>6, <2>6 DEF GotLateCompletion
  <2> QED
    BY <2>1, <2>2, <2>3, <2>4, <2>5, <2>6 DEF ManagerStep, Terminate, ManagerDropsMessage,
       GotSessionCancelled, GotTimedOut, GotServerFailed, GotObjectPart, Decompressed
<1>9. pchOwed' \in [Sessions -> BOOLEAN]
  BY <1>5 DEF TypeOK
<1> QED
  BY <1>2, <1>4, <1>8, <1>9 DEF TypeOK, ManagerTypeOK

\* Every step keeps the invariant of the protocol.
LEMMA InvStep == Inv /\ [Next]_vars => Inv'
<1> SUFFICES ASSUME Inv, [Next]_vars PROVE Inv'
  OBVIOUS
<1>1. ManagerInv'
  BY ManagerInvStep DEF Inv
<1>2. CASE UNCHANGED vars \/ StealTask
  <2>1. UNCHANGED protocolVars /\ UNCHANGED <<cancelled, result>>
    BY <1>2 DEF vars, taskVars, StealTask, Steal
  <2>2. TypeOK'
    BY <1>1, <2>1 DEF Inv, TypeOK, ManagerInv, ManagerTypeOK, protocolVars
  <2>3. ASSUME NEW t \in Sessions PROVE ChannelInv(t)'
    BY <2>1, FrameKeeps DEF Inv, SameSession, protocolVars
  <2> QED
    BY <1>1, <2>2, <2>3 DEF Inv
<1>3. ASSUME NEW s \in Sessions, ManagerStep(s) \/ Terminate(s) PROVE Inv'
  BY <1>1, <1>3, ManagerTypes, ManagerKeeps DEF Inv, ManagerInv
<1>4. ASSUME NEW s \in Sessions, ServerStep(s) \/ ResourceReady(s) \/ SelfDestruct(s) PROVE Inv'
  <2>1. TypeOK'
    BY <1>4, ServerTypes DEF Inv
  <2> QED
    BY <1>1, <1>4, <2>1, ServerKeeps DEF Inv
<1> QED
  BY <1>2, <1>3, <1>4 DEF Next

\* The invariant of the protocol holds in every behaviour.
LEMMA ProtocolInvariant == Spec => []Inv
<1>1. ASSUME Init PROVE Inv
  <2>1. ManagerInv
    BY <1>1, NoneAssumption, TaskTypeInit DEF Init, TaskInit, ManagerInv, ManagerTypeOK,
       ManagerStates, SessionInv, PhaseOfState, OwnerState, WriterState, ReceiverState, Busy
  <2>2. TypeOK
    BY <1>1, <2>1, MsgsAreSequences DEF Init, TypeOK, ManagerInv, ManagerTypeOK, ServerStates,
       Timers, Work
  <2>3. ASSUME NEW s \in Sessions PROVE ChannelInv(s)
    <3>1. /\ state[s] = "START" /\ ~pchOwed[s] /\ ~future[s] /\ toServer[s] = <<>>
          /\ toManager[s] = <<>> /\ srv[s].state = "GetTask" /\ ~srv[s].live
          /\ ~srv[s].cancelPending /\ srv[s].timer = "unset" /\ srv[s].work = "idle"
      BY <1>1 DEF Init
    <3> QED
      BY <3>1 DEF ChannelInv, FreshInv, StartedInv, ServerInv, CancelInv, AnswersInv, RequestsInv,
         LastWordInv, WriterInv, DropInv, Holds
  <2> QED
    BY <2>1, <2>2, <2>3 DEF Inv
<1> QED
  BY <1>1, InvStep, PTL DEF Spec

-----------------------------------------------------------------------------
(* What the invariant says.                                                *)

\* However cancels, time-outs, reports and confirmations cross, neither
\* got_data_from_server nor the process_msg of a server state ever meets a
\* message that its assertions rule out.
THEOREM MessagesAreExpected == Spec => []NoUnexpectedMessage
<1>1. ASSUME Inv PROVE NoUnexpectedMessage
  <2>1. ASSUME NEW s \in Sessions PROVE ServerExpectsHead(s) /\ ManagerExpectsHead(s)
    BY <1>1, RequestExpected, AnswerExpected DEF Inv, ChannelInv
  <2> QED
    BY <2>1 DEF NoUnexpectedMessage, ServerExpectsHead, ManagerExpectsHead
<1> QED
  BY <1>1, ProtocolInvariant, PTL

\* The manager never waits for a server session that is gone without the last
\* word of that session being on the way, or the result being written.
THEOREM TheDeadHaveSpoken == Spec => []NobodyWaitsForTheDead
<1>1. ASSUME Inv PROVE NobodyWaitsForTheDead
  <2>1. ASSUME NEW s \in Sessions, phase[s] = "running", srv[s].state # "GetTask", ~srv[s].live
        PROVE  future[s] \/ \E i \in DOMAIN toManager[s] : LastWord(toManager[s][i])
    <3>1. state[s] \in Busy
      BY <1>1, <2>1 DEF Inv, ManagerInv, SessionInv, PhaseOfState
    <3>2. DOMAIN toManager[s] = 1..Len(toManager[s])
      BY <1>1 DEF Inv, TypeOK
    <3> QED
      BY <1>1, <2>1, <3>1, <3>2 DEF Inv, ChannelInv, LastWordInv
  <2> QED
    BY <2>1 DEF NobodyWaitsForTheDead
<1> QED
  BY <1>1, ProtocolInvariant, PTL

\* The result file of a task has one writer at a time, and complete_session
\* finds a finished session only when that session was terminated.
THEOREM OneWriterOfTheResult == Spec => []WritersInv
<1>1. ASSUME Inv PROVE WritersInv
  <2>1. FinishedWriterWasTerminated
    BY <1>1 DEF Inv, ChannelInv, WriterInv, FinishedWriterWasTerminated
  <2>2. OneWriter
    <3>1. ASSUME NEW s \in Sessions, future[s], result[s] # "terminated" PROVE completedBy = s
      BY <1>1, <2>1, <3>1 DEF FinishedWriterWasTerminated, Inv, ManagerInv, SessionInv, WriterState,
         ReceiverState
    <3> QED
      BY <3>1 DEF OneWriter
  <2> QED
    BY <1>1, <2>1, <2>2 DEF WritersInv, Inv
<1> QED
  BY <1>1, ProtocolInvariant, PTL

\* After SESSION_CANCELLED nothing more is said for a session, although its
\* process, its download or its timer may still call back.
THEOREM CancelledIsSilent == Spec => NothingAfterCancelled
<1> DEFINE Quiet == \A s \in Sessions : srv[s].state = "Cancelled" =>
                      Len(toManager'[s]) <= Len(toManager[s])
<1>1. ASSUME Inv, [Next]_vars PROVE [Quiet]_vars
  <2> USE <1>1 DEF Inv, TypeOK
  <2>0. \A t \in Sessions : Len(toManager[t]) \in Nat /\ Len(toManager[t]) <= Len(toManager[t])
    OBVIOUS
  <2>1. CASE UNCHANGED vars
    BY <2>1
  <2>2. CASE StealTask
    BY <2>0, <2>2 DEF StealTask, protocolVars
  <2>3. ASSUME NEW s \in Sessions, ManagerStep(s) \/ Terminate(s) PROVE Quiet
    <3>1. toManager' = toManager \/ (toManager[s] # <<>> /\ Consumed(s))
      BY <2>3 DEF ManagerStep, Terminate, StartSession, ManagerDropsMessage, GotMissingFiles,
         SendPCH, GotSessionCancelled, GotTimedOut, GotServerFailed, GotFirstCompletion,
         CompletionAssertFails, GotLateCompletion, GotObjectPart, Decompressed, ManagerGets
    <3>2. Len(Tail(toManager[s])) <= Len(toManager[s]) \/ toManager[s] = <<>>
      OBVIOUS
    <3> QED
      BY <3>1, <3>2 DEF Consumed
  <2>4. ASSUME NEW s \in Sessions, ServerStep(s) \/ ResourceReady(s) \/ SelfDestruct(s) PROVE Quiet
    <3>1. ASSUME NEW type, NEW out, NEW w, Reply(s, w, out), GoodStep(srv[s], type, out, w)
          PROVE  Quiet
      <4>1. srv[s].state = "Cancelled" => toManager'[s] = toManager[s] \o <<>>
        BY <3>1 DEF GoodStep, Reply
      <4>2. toManager[s] \o <<>> = toManager[s]
        BY ConcatEmptySeq
      <4>3. \A t \in Sessions : t # s => toManager'[t] = toManager[t]
        BY <3>1 DEF Reply
      <4> QED
        BY <2>0, <4>1, <4>2, <4>3
    <3>2. CASE ServerDropsMessage(s)
      BY <3>2 DEF ServerDropsMessage
    <3>3. CASE NewSession(s)
      <4>1. Holds(toServer[s], "NEW_SESSION")
        BY <3>3, HoldsHead DEF NewSession
      <4>2. srv[s].state = "GetTask"
        BY <4>1 DEF ChannelInv, StartedInv
      <4>3. \A t \in Sessions : t # s => toManager'[t] = toManager[t]
        BY <3>3 DEF NewSession, Reply
      <4> QED
        BY <2>0, <4>2, <4>3
    <3> QED
      BY <2>4, <3>1, <3>2, <3>3, ServerCases
  <2> QED
    BY <2>1, <2>2, <2>3, <2>4 DEF Next
<1> QED
  BY <1>1, ProtocolInvariant, PTL DEF Spec, NothingAfterCancelled
=============================================================================
