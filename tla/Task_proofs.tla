----------------------------- MODULE Task_proofs -----------------------------
(***************************************************************************)
(* Proofs about Task, for any set of sessions and any bound on stealing.   *)
(***************************************************************************)
EXTENDS Task, TLAPS

\* The owner of an answered task has finished: strengthens AnsweredAtMostOnce.
AnsweredOwner ==
  /\ answered \in {0, 1}
  /\ answered = 1 => completedBy # None /\ phase[completedBy] = "finished"

AnsweredInv == TaskTypeOK /\ AnsweredOwner

\* session_completed keeps the types, whatever the result and the owner.
LEMMA CompletedType ==
  ASSUME TaskTypeOK,
         NEW s \in Sessions, NEW r \in Results, NEW owner \in Sessions \cup {None},
         DoSessionCompleted(s, r, owner), cancelled' \in [Sessions -> BOOLEAN]
  PROVE  TaskTypeOK'
<1>1. phase' \in [Sessions -> Phases] /\ result' \in [Sessions -> Results \cup {None}]
  BY DEF TaskTypeOK, Phases, DoSessionCompleted
<1>2. completedBy' \in Sessions \cup {None}
  BY DEF DoSessionCompleted
<1>3. pending' \in Nat /\ answered' \in Nat /\ sessionsDone' \in Nat
  BY DEF TaskTypeOK, DoSessionCompleted
<1> QED
  BY <1>1, <1>2, <1>3 DEF TaskTypeOK

\* The type invariant of Task is preserved by every method: in particular the
\* number of placements never goes below zero.
LEMMA TaskTypeStep == TaskTypeOK /\ [TaskNext]_taskVars => TaskTypeOK'
<1> SUFFICES ASSUME TaskTypeOK, [TaskNext]_taskVars PROVE TaskTypeOK'
  OBVIOUS
<1> USE NoneAssumption DEF TaskTypeOK, Phases, Results, Failures
<1>1. CASE Steal
  BY <1>1 DEF Steal
<1>2. ASSUME NEW s \in Sessions, CreateSession(s) PROVE TaskTypeOK'
  BY <1>2 DEF CreateSession, DoRegisterSession
<1>3. ASSUME NEW s \in Sessions, RegisterCompletion(s) PROVE TaskTypeOK'
  BY <1>3 DEF RegisterCompletion, DoRegisterCompletion, CancelOthers
<1>4. ASSUME NEW s \in Sessions, CompleteWithErrors(s) PROVE TaskTypeOK'
  BY <1>4, CompletedType DEF CompleteWithErrors, CancelOthers
<1>5. ASSUME NEW s \in Sessions, SessionSucceeded(s) PROVE TaskTypeOK'
  BY <1>5, CompletedType DEF SessionSucceeded
<1>6. ASSUME NEW s \in Sessions, SessionTooLate(s) PROVE TaskTypeOK'
  BY <1>6, CompletedType DEF SessionTooLate
<1>7. ASSUME NEW s \in Sessions, SessionCancelled(s) PROVE TaskTypeOK'
  BY <1>7, CompletedType DEF SessionCancelled
<1>8. ASSUME NEW s \in Sessions, NEW r \in Failures, SessionFailed(s, r) PROVE TaskTypeOK'
  BY <1>8, CompletedType DEF SessionFailed
<1>9. CASE UNCHANGED taskVars
  BY <1>9 DEF taskVars
<1> QED
  BY <1>1, <1>2, <1>3, <1>4, <1>5, <1>6, <1>7, <1>8, <1>9 DEF TaskNext

\* The types hold at the start.
LEMMA TaskTypeInit == TaskInit => TaskTypeOK
BY DEF TaskInit, TaskTypeOK, Phases

\* The variables of a task always have their types.
THEOREM TaskTypeCorrect == TaskSpec => []TaskTypeOK
BY TaskTypeInit, TaskTypeStep, PTL DEF TaskSpec

-----------------------------------------------------------------------------

\* Completing a session leaves AnsweredOwner true when its result is success
\* only for the owner of a task without an answer.
LEMMA CompletedKeepsAnsweredOwner ==
  ASSUME TaskTypeOK, AnsweredOwner,
         NEW s \in Sessions, phase[s] = "running",
         NEW r \in Results, NEW owner \in Sessions \cup {None},
         answered = 1 => owner = completedBy,
         r = "success" => owner = s /\ answered = 0,
         DoSessionCompleted(s, r, owner)
  PROVE  AnsweredOwner'
<1> USE NoneAssumption DEF AnsweredOwner, TaskTypeOK, Phases, Results, Failures
<1>1. CASE r = "success"
  BY <1>1 DEF DoSessionCompleted
<1>2. CASE r # "success"
  BY <1>2 DEF DoSessionCompleted
<1> QED
  BY <1>1, <1>2

\* Every step keeps the invariant behind the single answer.
LEMMA AnsweredStep == AnsweredInv /\ [TaskNext]_taskVars => AnsweredInv'
<1> SUFFICES ASSUME AnsweredInv, [TaskNext]_taskVars PROVE AnsweredOwner'
  BY TaskTypeStep DEF AnsweredInv
<1> USE NoneAssumption DEF AnsweredInv
<1>1. CASE Steal
  BY <1>1 DEF Steal, AnsweredOwner
<1>2. ASSUME NEW s \in Sessions, CreateSession(s) PROVE AnsweredOwner'
  BY <1>2 DEF CreateSession, DoRegisterSession, AnsweredOwner, TaskTypeOK
<1>3. ASSUME NEW s \in Sessions, RegisterCompletion(s) PROVE AnsweredOwner'
  BY <1>3 DEF RegisterCompletion, DoRegisterCompletion, AnsweredOwner
<1>4. ASSUME NEW s \in Sessions, CompleteWithErrors(s) PROVE AnsweredOwner'
  <2>1. answered = 0
    BY <1>4 DEF CompleteWithErrors, AnsweredOwner
  <2> QED
    BY <1>4, <2>1, CompletedKeepsAnsweredOwner DEF CompleteWithErrors, Results
<1>5. ASSUME NEW s \in Sessions, SessionSucceeded(s) PROVE AnsweredOwner'
  <2>1. answered = 0
    BY <1>5 DEF SessionSucceeded, AnsweredOwner
  <2> QED
    BY <1>5, <2>1, CompletedKeepsAnsweredOwner DEF SessionSucceeded, Results
<1>6. ASSUME NEW s \in Sessions, SessionTooLate(s) PROVE AnsweredOwner'
  BY <1>6, CompletedKeepsAnsweredOwner DEF SessionTooLate, Results, TaskTypeOK
<1>7. ASSUME NEW s \in Sessions, SessionCancelled(s) PROVE AnsweredOwner'
  BY <1>7, CompletedKeepsAnsweredOwner DEF SessionCancelled, Results, TaskTypeOK
<1>8. ASSUME NEW s \in Sessions, NEW r \in Failures, SessionFailed(s, r) PROVE AnsweredOwner'
  BY <1>8, CompletedKeepsAnsweredOwner DEF SessionFailed, Results, Failures, TaskTypeOK
<1>9. CASE UNCHANGED taskVars
  BY <1>9 DEF taskVars, AnsweredOwner
<1> QED
  BY <1>1, <1>2, <1>3, <1>4, <1>5, <1>6, <1>7, <1>8, <1>9 DEF TaskNext

\* It holds in every behaviour.
LEMMA AnsweredInvariant == TaskSpec => []AnsweredInv
<1>1. TaskInit => AnsweredInv
  BY TaskTypeInit DEF TaskInit, AnsweredInv, AnsweredOwner
<1> QED
  BY <1>1, AnsweredStep, PTL DEF TaskSpec

\* However many sessions a task has, and whichever of them fail, are cancelled
\* or report late, its command is answered at most once
\* (the assertion of command_processor.py:202).
THEOREM TaskAnsweredOnce == TaskSpec => []AnsweredAtMostOnce
<1>1. AnsweredInv => AnsweredAtMostOnce
  BY DEF AnsweredInv, AnsweredOwner, AnsweredAtMostOnce
<1> QED
  BY <1>1, AnsweredInvariant, PTL

\* The owner of an answered task never changes (task.py:50-57 and 82-83).
THEOREM TaskOwnerIsFinal == TaskSpec => OwnerIsFinal
<1>1. AnsweredInv /\ [TaskNext]_taskVars =>
        [answered > 0 => completedBy' = completedBy]_taskVars
  <2> SUFFICES ASSUME AnsweredInv, TaskNext, answered > 0 PROVE completedBy' = completedBy
    OBVIOUS
  <2>1. completedBy # None /\ phase[completedBy] = "finished"
    BY DEF AnsweredInv, AnsweredOwner
  <2>2. CASE Steal
    BY <2>2 DEF Steal
  <2>3. ASSUME NEW s \in Sessions, NEW r, DoSessionCompleted(s, r, completedBy),
               phase[s] = "running"
        PROVE  completedBy' = completedBy
    BY <2>1, <2>3 DEF DoSessionCompleted
  <2>4. ASSUME NEW s \in Sessions,
               \/ CreateSession(s) \/ SessionSucceeded(s) \/ SessionTooLate(s)
               \/ SessionCancelled(s) \/ \E r \in Failures : SessionFailed(s, r)
        PROVE  completedBy' = completedBy
    BY <2>3, <2>4 DEF CreateSession, DoRegisterSession, SessionSucceeded, SessionTooLate,
                      SessionCancelled, SessionFailed
  <2>5. ASSUME NEW s \in Sessions PROVE ~RegisterCompletion(s) /\ ~CompleteWithErrors(s)
    BY <2>1 DEF RegisterCompletion, CompleteWithErrors
  <2> QED
    BY <2>2, <2>4, <2>5 DEF TaskNext
<1> QED
  BY <1>1, AnsweredInvariant, PTL DEF TaskSpec, OwnerIsFinal
-----------------------------------------------------------------------------
(* When the owner cannot fail.                                             *)

\* Nobody is cancelled before there is an owner, and the owner is not cancelled.
CancelledInv ==
  \A s \in Sessions :
    cancelled[s] => /\ phase[s] # "new"
                    /\ phase[s] = "running" => completedBy # None /\ completedBy # s

\* The owner is still at work, or the task has its answer.
OwnerAtWork == completedBy # None => phase[completedBy] = "running" \/ answered > 0

NotLostInv ==
  /\ TaskTypeOK
  /\ CancelledInv
  /\ OwnerAtWork
  /\ TaskNotLost
  /\ RecordedOnlyWhenAnswered

\* A session other than the owner completes, with any result but success.
LEMMA OtherCompletes ==
  ASSUME NotLostInv,
         NEW s \in Sessions, phase[s] = "running", completedBy # s,
         NEW r \in Results, r # "success", r \notin Failures => completedBy # None,
         DoSessionCompleted(s, r, completedBy), UNCHANGED cancelled
  PROVE  NotLostInv'
<1> USE NoneAssumption DEF NotLostInv
<1>1. completedBy' = completedBy /\ answered' = answered
  BY DEF DoSessionCompleted, TaskTypeOK
<1>2. \A t \in Sessions : phase'[t] = IF t = s THEN "finished" ELSE phase[t]
  BY DEF DoSessionCompleted, TaskTypeOK
<1>3. TaskTypeOK'
  BY DEF DoSessionCompleted, TaskTypeOK, Phases
<1>4. CancelledInv'
  BY <1>1, <1>2 DEF CancelledInv
<1>5. OwnerAtWork'
  BY <1>1, <1>2, <1>3 DEF OwnerAtWork, TaskTypeOK
<1>6. Running' = Running \ {s}
  BY <1>2 DEF Running
<1>7. Running \ {s} = {} /\ completedBy # None => answered > 0
  BY DEF OwnerAtWork, Running, TaskTypeOK
<1>8. TaskNotLost'
  <2>1. CASE Running \ {s} # {}
    BY <2>1, <1>6 DEF TaskNotLost
  <2>2. CASE Running \ {s} = {} /\ completedBy # None
    BY <2>2, <1>1, <1>7 DEF TaskNotLost, TaskTypeOK
  <2>3. CASE Running \ {s} = {} /\ completedBy = None
    <3>1. pending' = pending + 1
      BY <2>3 DEF DoSessionCompleted
    <3> QED
      BY <3>1 DEF TaskNotLost, TaskTypeOK
  <2> QED
    BY <2>1, <2>2, <2>3
<1>9. RecordedOnlyWhenAnswered'
  BY <1>1, <1>7 DEF DoSessionCompleted, RecordedOnlyWhenAnswered, TaskTypeOK
<1> QED
  BY <1>3, <1>4, <1>5, <1>8, <1>9

\* The owner succeeds: it was the owner (SessionSucceeded), or becomes the
\* owner in the same step and cancels the others (CompleteWithErrors).
LEMMA OwnerSucceeds ==
  ASSUME NotLostInv,
         NEW s \in Sessions, phase[s] = "running", ~cancelled[s],
         completedBy = s \/ completedBy = None,
         DoSessionCompleted(s, "success", s),
         \/ completedBy = s /\ UNCHANGED cancelled
         \/ cancelled' = CancelOthers(s)
  PROVE  NotLostInv'
<1> USE NoneAssumption DEF NotLostInv
<1>1. completedBy' = s /\ answered' = answered + 1
  BY DEF DoSessionCompleted, Failures, TaskTypeOK
<1>2. \A t \in Sessions : phase'[t] = IF t = s THEN "finished" ELSE phase[t]
  BY DEF DoSessionCompleted, TaskTypeOK
<1>3. TaskTypeOK'
  <2>1. cancelled' \in [Sessions -> BOOLEAN]
    BY DEF CancelOthers, TaskTypeOK
  <2>2. phase' \in [Sessions -> Phases] /\ result' \in [Sessions -> Results \cup {None}]
    BY DEF DoSessionCompleted, TaskTypeOK, Phases, Results
  <2>3. pending' \in Nat /\ sessionsDone' \in Nat
    BY DEF DoSessionCompleted, TaskTypeOK
  <2> QED
    BY <1>1, <2>1, <2>2, <2>3 DEF TaskTypeOK
<1>4. CancelledInv'
  BY <1>1, <1>2 DEF CancelledInv, CancelOthers, Running, TaskTypeOK
<1>5. answered' > 0
  BY <1>1 DEF TaskTypeOK
<1> QED
  BY <1>3, <1>4, <1>5 DEF OwnerAtWork, TaskNotLost, RecordedOnlyWhenAnswered

\* If the owner does not fail, every step keeps the invariant behind TaskNotLost.
LEMMA NotLostStep ==
  ASSUME ~OwnerMayFail
  PROVE  NotLostInv /\ [TaskNext]_taskVars => NotLostInv'
<1> SUFFICES ASSUME NotLostInv, [TaskNext]_taskVars PROVE NotLostInv'
  OBVIOUS
<1> USE NoneAssumption
<1>0. TaskTypeOK'
  BY TaskTypeStep DEF NotLostInv
<1>1. CASE Steal
  BY <1>0, <1>1 DEF Steal, NotLostInv, CancelledInv, OwnerAtWork, TaskNotLost,
     RecordedOnlyWhenAnswered, TaskTypeOK, Running
<1>2. ASSUME NEW s \in Sessions, CreateSession(s) PROVE NotLostInv'
  <2>1. \A t \in Sessions : phase'[t] = IF t = s THEN "running" ELSE phase[t]
    BY <1>2 DEF CreateSession, DoRegisterSession, NotLostInv, TaskTypeOK
  <2>2. CancelledInv' /\ OwnerAtWork'
    BY <1>2, <2>1 DEF CreateSession, DoRegisterSession, NotLostInv, CancelledInv,
       OwnerAtWork, TaskTypeOK
  <2>3. TaskNotLost'
    BY <2>1 DEF TaskNotLost, Running
  <2> QED
    BY <1>0, <1>2, <2>2, <2>3 DEF CreateSession, DoRegisterSession, NotLostInv,
       RecordedOnlyWhenAnswered
<1>3. ASSUME NEW s \in Sessions, RegisterCompletion(s) PROVE NotLostInv'
  <2>1. ~cancelled[s]
    BY <1>3 DEF RegisterCompletion, NotLostInv, CancelledInv
  <2>2. CancelledInv' /\ OwnerAtWork'
    BY <1>3, <2>1 DEF RegisterCompletion, DoRegisterCompletion, CancelOthers, Running,
       NotLostInv, CancelledInv, OwnerAtWork, TaskTypeOK
  <2> QED
    BY <1>0, <1>3, <2>2 DEF RegisterCompletion, DoRegisterCompletion, NotLostInv,
       TaskNotLost, Running, RecordedOnlyWhenAnswered
<1>4. ASSUME NEW s \in Sessions, CompleteWithErrors(s) PROVE NotLostInv'
  BY <1>4, OwnerSucceeds DEF CompleteWithErrors
<1>5. ASSUME NEW s \in Sessions, SessionSucceeded(s) PROVE NotLostInv'
  BY <1>5, OwnerSucceeds DEF SessionSucceeded
<1>6. ASSUME NEW s \in Sessions, SessionTooLate(s) PROVE NotLostInv'
  <2>1. completedBy # s
    BY <1>6 DEF SessionTooLate, NotLostInv, CancelledInv
  <2> QED
    BY <1>6, <2>1, OtherCompletes DEF SessionTooLate, Results
<1>7. ASSUME NEW s \in Sessions, SessionCancelled(s) PROVE NotLostInv'
  <2>1. completedBy # s /\ completedBy # None
    BY <1>7 DEF SessionCancelled, NotLostInv, CancelledInv
  <2> QED
    BY <1>7, <2>1, OtherCompletes DEF SessionCancelled, Results
<1>8. ASSUME NEW s \in Sessions, NEW r \in Failures, SessionFailed(s, r) PROVE NotLostInv'
  <2>1. completedBy # s /\ r \in Results /\ r # "success"
    BY <1>8 DEF SessionFailed, Results, Failures
  <2> QED
    BY <1>8, <2>1, OtherCompletes DEF SessionFailed
<1>9. CASE UNCHANGED taskVars
  BY <1>0, <1>9 DEF taskVars, NotLostInv, CancelledInv, OwnerAtWork, TaskNotLost,
     RecordedOnlyWhenAnswered, Running
<1> QED
  BY <1>1, <1>2, <1>3, <1>4, <1>5, <1>6, <1>7, <1>8, <1>9 DEF TaskNext

\* It holds in every behaviour in which the owner does not fail.
LEMMA NotLostInvariant == ASSUME ~OwnerMayFail PROVE TaskSpec => []NotLostInv
<1>1. TaskInit => NotLostInv
  BY TaskTypeInit DEF TaskInit, NotLostInv, CancelledInv, OwnerAtWork, TaskNotLost,
     RecordedOnlyWhenAnswered
<1> QED
  BY <1>1, NotLostStep, PTL DEF TaskSpec

\* As long as a session that was chosen to deliver the object file does deliver
\* it, a task without an answer always runs or waits to be scheduled
\* (task.py:77-85).
THEOREM TaskNeverLost == ASSUME ~OwnerMayFail PROVE TaskSpec => []TaskNotLost
<1>1. NotLostInv => TaskNotLost
  BY DEF NotLostInv
<1> QED
  BY <1>1, NotLostInvariant, PTL

\* Under the same condition a task is recorded as done only after its answer
\* (task.py:87-101).
THEOREM TaskRecordedAfterAnswer ==
  ASSUME ~OwnerMayFail PROVE TaskSpec => []RecordedOnlyWhenAnswered
<1>1. NotLostInv => RecordedOnlyWhenAnswered
  BY DEF NotLostInv
<1> QED
  BY <1>1, NotLostInvariant, PTL
=============================================================================
