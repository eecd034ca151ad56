---------------------------- MODULE ProcessRunner ----------------------------
(***************************************************************************)
(* The server's ProcessRunner (server/runner.py): the compilers of all     *)
(* sessions share Limit slots.  subprocess_exec is a coroutine; between    *)
(* two of its suspension points nothing else runs on the event loop, so    *)
(* every stretch from one yield to the next is one action.                 *)
(***************************************************************************)
EXTENDS Naturals, FiniteSets

CONSTANTS
  Jobs,    \* the calls of subprocess_exec
  Limit    \* compile slots

ASSUME JobsAssumption == IsFiniteSet(Jobs)
ASSUME LimitAssumption == Limit \in Nat \ {0}

VARIABLES
  pc,       \* where each call of subprocess_exec is suspended
  current,  \* ProcessRunner.current
  ready     \* the flag of the asyncio.Event

vars == <<pc, current, ready>>

\* "sleeping" is in the event's list of waiters; "woken" has had its future set
\* and is due to run again; "running" waits for the process.
Places == {"start", "sleeping", "woken", "running", "done"}

RunningJobs == {j \in Jobs : pc[j] = "running"}

TypeOK ==
  /\ pc \in [Jobs -> Places]
  /\ current \in Nat
  /\ ready \in BOOLEAN

Init ==
  /\ pc = [j \in Jobs |-> "start"]
  /\ current = 0
  /\ ready = FALSE

\* The loop at the top of subprocess_exec: wait() suspends unless the flag is
\* set.  With the flag set and no slot the loop would spin without ever
\* yielding, which NoBusyWait rules out.
Sleep(j) ==
  /\ pc[j] \in {"start", "woken"}
  /\ current = Limit
  /\ ~ready
  /\ pc' = [pc EXCEPT ![j] = "sleeping"]
  /\ UNCHANGED <<current, ready>>

\* Mutant: the event is not cleared.
Acquire_NoClear(j) ==
  /\ pc[j] \in {"start", "woken"}
  /\ current # Limit
  /\ current' = current + 1
  /\ pc' = [pc EXCEPT ![j] = "running"]
  /\ UNCHANGED ready

\* Mutant: the slot is not counted.
Acquire_NotCounted(j) ==
  /\ pc[j] \in {"start", "woken"}
  /\ current # Limit
  /\ ready' = FALSE
  /\ pc' = [pc EXCEPT ![j] = "running"]
  /\ UNCHANGED current

\* Past the loop: take a slot and create the process.
Acquire(j) ==
  /\ pc[j] \in {"start", "woken"}
  /\ current # Limit
  /\ ready' = FALSE
  /\ current' = current + 1
  /\ pc' = [pc EXCEPT ![j] = "running"]

\* Event.set resolves the futures of all waiters unless the flag is set already.
Wake(place) == IF place = "sleeping" /\ ~ready THEN "woken" ELSE place

\* Mutant: the slot is not given back.
Release_KeepsSlot(j) ==
  /\ pc[j] = "running"
  /\ ready' = TRUE
  /\ pc' = [i \in Jobs |-> IF i = j THEN "done" ELSE Wake(pc[i])]
  /\ UNCHANGED current

\* The finally clause: the process ended, was terminated, or was not created.
Release(j) ==
  /\ pc[j] = "running"
  /\ current' = current - 1
  /\ ready' = TRUE
  /\ pc' = [i \in Jobs |-> IF i = j THEN "done" ELSE Wake(pc[i])]

Next == \E j \in Jobs : Sleep(j) \/ Acquire(j) \/ Release(j)

Spec == Init /\ [][Next]_vars

-----------------------------------------------------------------------------
(* Properties.                                                             *)

\* No more compilers run than there are slots, and current counts them: the
\* assertion of runner.py:483.
SlotsRespected == current = Cardinality(RunningJobs) /\ current <= Limit

\* The event's flag is never set while all slots are taken; otherwise the loop
\* of runner.py:480 would spin and stop the whole server.
NoBusyWait == current = Limit => ~ready

\* A call sleeps only while all slots are taken: clearing the event before
\* taking the slot (runner.py:482) loses no wake-up.
NoLostWakeup == \A j \in Jobs : pc[j] = "sleeping" => current = Limit

\* The event neither keeps the loop spinning nor leaves a call asleep: flag and
\* sleepers tell whether there is a free slot.
EventInv == NoBusyWait /\ NoLostWakeup

=============================================================================
