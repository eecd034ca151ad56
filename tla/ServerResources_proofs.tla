----------------------- MODULE ServerResources_proofs -----------------------
(***************************************************************************)
(* Proofs about ServerResources, for any set of sessions and any faults: a *)
(* resource has one downloader until it is there, the sessions that wait   *)
(* for it are called when it is, and the compiler is started with          *)
(* everything its task uses in place.                                      *)
(***************************************************************************)
EXTENDS ServerResources, TLAPS

Early == {"headers", "downloadingCompiler", "downloadingPCH", "writing"}

\* Where the handler that runs the loop was.
LoopInv ==
  /\ caller = None => calls = <<>>
  /\ caller # None => /\ status[called] = "ready"
                      /\ called \notin required[caller]
                      /\ called = "compiler" => state[caller] = "downloadingCompiler" /\ live[caller]
                      /\ called = "pch" => state[caller] = "writing"

\* What has been downloaded, or is being downloaded, by whom.
OwnerInv ==
  \A r \in Resources : \A s \in Sessions : r \in required[s] =>
    /\ status[r] = "partial"
    /\ \A t \in Sessions : r \in required[t] => t = s

SessionInv(s) ==
  /\ state[s] = "new" => required[s] = {} /\ timer[s] = "unset" /\ uses[s] = {}
  /\ state[s] # "new" => "compiler" \in uses[s]
  /\ \A r \in uses[s] : status[r] # "absent"
  /\ timer[s] = "fired" => ~live[s]
  /\ state[s] \in Early => live[s] \/ timer[s] = "fired"
  /\ state[s] \in {"downloadingPCH", "writing"} => "compiler" \notin required[s]
  /\ state[s] = "compiling" => timer[s] = "unset" /\ \A r \in uses[s] : status[r] = "ready"

\* A queue of handlers holds no session twice.
Once(q) == \A i, j \in 1..Len(q) : q[i] = q[j] => i = j

QueuesInv ==
  /\ Once(calls)
  /\ \A r \in Resources : Once(waiters[r]) /\ Elements(calls) \cap Elements(waiters[r]) = {}
  /\ Elements(waiters["compiler"]) \cap Elements(waiters["pch"]) = {}

Queued(s) == s \in Elements(calls) \/ \E r \in Resources : s \in Elements(waiters[r])

\* A session in a queue brings nothing, and raises only if it has timed out or
\* was cancelled twice; one that waits for the compiler has its PCH.
QueuedInv(s) ==
  /\ Queued(s) =>
       /\ state[s] \in {"waiting", "cancelled"}
       /\ required[s] = {}
       /\ cancelPending[s] /\ ~live[s] => timer[s] = "fired" \/ s \in twice
  /\ s \in Elements(waiters["compiler"]) \/ (called = "compiler" /\ s \in Elements(calls))
       => ("pch" \in uses[s] => status["pch"] = "ready")

Inv ==
  /\ TypeOK /\ LoopInv /\ OwnerInv /\ QueuesInv
  /\ \A s \in Sessions : SessionInv(s) /\ QueuedInv(s)
  /\ PartialHasDownloader /\ NoWaiterLost

-----------------------------------------------------------------------------
(* Queues of handlers.                                                     *)

\* Who is in a queue after a handler was called or left.
LEMMA QueueElements ==
  ASSUME NEW q \in Seq(Sessions)
  PROVE  /\ Elements(<<>>) = {} /\ Elements(q) \subseteq Sessions
         /\ \A s \in Sessions : /\ Append(q, s) \in Seq(Sessions)
                                /\ Elements(Append(q, s)) = Elements(q) \cup {s}
         /\ q # <<>> => /\ Head(q) \in Sessions /\ Tail(q) \in Seq(Sessions)
                        /\ Elements(q) = {Head(q)} \cup Elements(Tail(q))
<1>1. Elements(<<>>) = {} /\ Elements(q) \subseteq Sessions
  BY DEF Elements
<1>2. ASSUME NEW s \in Sessions
      PROVE  Append(q, s) \in Seq(Sessions) /\ Elements(Append(q, s)) = Elements(q) \cup {s}
  <2> DEFINE p == Append(q, s)
  <2>1. /\ p \in Seq(Sessions) /\ DOMAIN p = 1..(Len(q) + 1) /\ DOMAIN q = 1..Len(q)
        /\ p[Len(q) + 1] = s /\ Len(q) \in Nat /\ \A i \in 1..Len(q) : p[i] = q[i]
    OBVIOUS
  <2> HIDE DEF p
  <2>2. Elements(p) \subseteq Elements(q) \cup {s}
    <3> SUFFICES ASSUME NEW i \in DOMAIN p PROVE p[i] \in Elements(q) \cup {s}
      BY DEF Elements
    <3>1. i = Len(q) + 1 \/ i \in 1..Len(q)
      BY <2>1
    <3> QED
      BY <2>1, <3>1 DEF Elements
  <2>3. Elements(q) \cup {s} \subseteq Elements(p)
    BY <2>1 DEF Elements
  <2> QED
    BY <2>1, <2>2, <2>3 DEF p
<1>3. ASSUME q # <<>>
      PROVE  /\ Head(q) \in Sessions /\ Tail(q) \in Seq(Sessions)
             /\ Elements(q) = {Head(q)} \cup Elements(Tail(q))
  <2>1. /\ Head(q) \in Sessions /\ Tail(q) \in Seq(Sessions) /\ Len(q) \in Nat /\ Len(q) > 0
        /\ Head(q) = q[1] /\ DOMAIN q = 1..Len(q) /\ DOMAIN Tail(q) = 1..(Len(q) - 1)
        /\ \A i \in 1..(Len(q) - 1) : Tail(q)[i] = q[i + 1]
    BY <1>3
  <2>2. ASSUME NEW i \in 1..Len(q), i # 1 PROVE q[i] \in Elements(Tail(q))
    <3>1. i - 1 \in DOMAIN Tail(q) /\ Tail(q)[i - 1] = q[i]
      BY <2>1, <2>2
    <3> QED
      BY <3>1 DEF Elements
  <2>3. ASSUME NEW i \in 1..(Len(q) - 1) PROVE Tail(q)[i] \in Elements(q)
    <3>1. i + 1 \in DOMAIN q /\ Tail(q)[i] = q[i + 1]
      BY <2>1, <2>3
    <3> QED
      BY <3>1 DEF Elements
  <2>4. Elements(q) \subseteq {Head(q)} \cup Elements(Tail(q))
    <3> SUFFICES ASSUME NEW i \in 1..Len(q) PROVE q[i] \in {Head(q)} \cup Elements(Tail(q))
      BY <2>1 DEF Elements
    <3> QED
      BY <2>1, <2>2
  <2>5. Elements(Tail(q)) \subseteq Elements(q)
    BY <2>1, <2>3 DEF Elements
  <2>6. Head(q) \in Elements(q)
    <3>1. 1 \in DOMAIN q
      BY <2>1
    <3> QED
      BY <2>1, <3>1 DEF Elements
  <2> QED
    BY <2>1, <2>4, <2>5, <2>6
<1> QED
  BY <1>1, <1>2, <1>3

\* A session that leaves or enters a queue is in it at most once.
LEMMA QueueOnce ==
  ASSUME NEW q \in Seq(Sessions), Once(q)
  PROVE  /\ Once(<<>>)
         /\ \A s \in Sessions : s \notin Elements(q) => Once(Append(q, s))
         /\ q # <<>> => Once(Tail(q)) /\ Head(q) \notin Elements(Tail(q))
<1>1. Once(<<>>)
  BY DEF Once
<1>2. ASSUME NEW s \in Sessions, s \notin Elements(q) PROVE Once(Append(q, s))
  <2>1. /\ Len(q) \in Nat /\ Len(Append(q, s)) = Len(q) + 1 /\ DOMAIN q = 1..Len(q)
        /\ Append(q, s)[Len(q) + 1] = s /\ \A i \in 1..Len(q) : Append(q, s)[i] = q[i]
    OBVIOUS
  <2>2. \A i \in 1..Len(q) : q[i] # s
    BY <1>2, <2>1 DEF Elements
  <2> QED
    BY <2>1, <2>2 DEF Once
<1>3. ASSUME q # <<>> PROVE Once(Tail(q)) /\ Head(q) \notin Elements(Tail(q))
  <2>1. /\ Len(q) \in Nat /\ Len(q) > 0 /\ Head(q) = q[1] /\ Len(Tail(q)) = Len(q) - 1
        /\ DOMAIN Tail(q) = 1..(Len(q) - 1) /\ \A i \in 1..(Len(q) - 1) : Tail(q)[i] = q[i + 1]
    BY <1>3
  <2> QED
    BY <2>1 DEF Once, Elements
<1> QED
  BY <1>1, <1>2, <1>3

-----------------------------------------------------------------------------
(* What becomes of a session that wants to compile.                        *)

\* It is left with a repository that will call it, raises, is cancelled, or
\* starts the compiler with everything in place.
Outcome(s) ==
  \/ \E r \in uses[s] : /\ status[r] = "partial" /\ WaitFor(s, r)
                        /\ r = "compiler" /\ "pch" \in uses[s] => status["pch"] = "ready"
  \/ Raises(s) /\ Goto(s, IF cancelPending[s] THEN "cancelled" ELSE "waiting")
       /\ UNCHANGED <<live, timer, waiters>>
  \/ ~Raises(s) /\ cancelPending[s] /\ Goto(s, "cancelled") /\ Finish(s) /\ UNCHANGED waiters
  \/ /\ ~Raises(s) /\ ~cancelPending[s] /\ Goto(s, "compiling")
     /\ timer' = [timer EXCEPT ![s] = "unset"] /\ UNCHANGED <<live, waiters>>
     /\ \A r \in uses[s] : status[r] = "ready"

\* A handler called for a resource that is there, or not used, ends like that.
LEMMA HandlerOutcome ==
  ASSUME Inv, NEW s \in Sessions, state[s] # "new", NEW r \in Resources, Handler(s, r),
         "pch" \in uses[s] => status["pch"] = "ready", r = "compiler" => status[r] = "ready"
  PROVE  Outcome(s)
<1> USE DEF Inv, TypeOK, Resources
<1>1. "compiler" \in uses[s] /\ status["compiler"] # "absent"
  BY DEF SessionInv
<1>2. CASE r = "pch" /\ status["compiler"] # "ready"
  BY <1>1, <1>2 DEF Handler, Outcome
<1>3. CASE ~(r = "pch" /\ status["compiler"] # "ready")
  <2>1. RunCompiler(s) /\ \A x \in uses[s] : status[x] = "ready"
    BY <1>3 DEF Handler
  <2> QED
    BY <2>1 DEF RunCompiler, Outcome
<1> QED
  BY <1>2, <1>3

\* So does CompileSession.compile.
LEMMA CompileOutcome ==
  ASSUME Inv, NEW s \in Sessions, state[s] # "new", Compile(s)
  PROVE  Outcome(s)
<1>1. CASE "pch" \in uses[s] /\ status["pch"] # "ready"
  <2>1. status["pch"] = "partial"
    BY <1>1 DEF Inv, TypeOK, SessionInv, Resources
  <2> QED
    BY <1>1, <2>1 DEF Compile, Outcome
<1>2. CASE ~("pch" \in uses[s] /\ status["pch"] # "ready")
  BY <1>2, HandlerOutcome DEF Compile, Resources
<1> QED
  BY <1>1, <1>2

\* The steps in which a session that is in no queue comes to such an end, or
\* the first of the sessions that are called.
OutcomeStep(s) ==
  /\ Outcome(s)
  /\ state[s] # "new" /\ state[s] # "compiling" /\ required[s] = {}
  /\ \A r \in Resources : s \notin Elements(waiters[r])
  /\ s \notin Elements(calls')
  /\ cancelPending[s] /\ ~live[s] => timer[s] = "fired" \/ s \in twice
  /\ calls' \in Seq(Sessions) /\ Once(calls') /\ Elements(calls') \subseteq Elements(calls)
  /\ \A t \in Elements(calls) \ Elements(calls') : t = s \/ Raises(s)
  /\ caller' \in {caller, None} /\ (caller' = None => calls' = <<>>)
  /\ caller' # None => s # caller
  /\ UNCHANGED <<status, cancelPending, uses, required, called, twice>>

\* What such a step does to its session and to the repositories.
LEMMA OutcomeEffect ==
  ASSUME TypeOK, NEW s \in Sessions, OutcomeStep(s)
  PROVE  /\ state' \in [Sessions -> States] /\ live' \in [Sessions -> BOOLEAN]
         /\ timer' \in [Sessions -> {"unset", "armed", "fired"}]
         /\ waiters' \in [Resources -> Seq(Sessions)]
         /\ state'[s] \in {"waiting", "cancelled", "compiling"}
         /\ \A t \in Sessions : t # s => /\ state'[t] = state[t] /\ live'[t] = live[t]
                                         /\ timer'[t] = timer[t]
         /\ live'[s] => live[s]
         /\ timer'[s] = timer[s] \/ timer'[s] = "unset"
         /\ timer[s] = "fired" => (timer'[s] = "fired" \/ live[s])
         /\ state'[s] = "compiling" => timer'[s] = "unset" /\ \A r \in uses[s] : status[r] = "ready"
         /\ \/ waiters' = waiters
            \/ \E r \in uses[s] : /\ waiters' = [waiters EXCEPT ![r] = Append(@, s)]
                                  /\ status[r] = "partial" /\ state'[s] = "waiting"
                                  /\ r = "compiler" /\ "pch" \in uses[s] => status["pch"] = "ready"
                                  /\ live'[s] = live[s] /\ timer'[s] = timer[s]
         /\ state'[s] = "waiting" /\ waiters' = waiters => timer'[s] = "fired"
<1> USE DEF TypeOK, OutcomeStep, Resources
<1>1. CASE \E r \in uses[s] : /\ status[r] = "partial" /\ WaitFor(s, r)
                              /\ r = "compiler" /\ "pch" \in uses[s] => status["pch"] = "ready"
  <2>1. PICK r \in uses[s] : /\ status[r] = "partial" /\ WaitFor(s, r)
                             /\ r = "compiler" /\ "pch" \in uses[s] => status["pch"] = "ready"
    BY <1>1
  <2>2. /\ waiters' = [waiters EXCEPT ![r] = Append(@, s)] /\ live' = live /\ timer' = timer
        /\ state' = [state EXCEPT ![s] = "waiting"] /\ r \in Resources
    BY <2>1 DEF WaitFor, Goto
  <2>3. Append(waiters[r], s) \in Seq(Sessions)
    BY <2>2
  <2>4. waiters' \in [Resources -> Seq(Sessions)]
    BY <2>2, <2>3
  <2>5. waiters' # waiters
    <3>1. waiters'[r] = Append(waiters[r], s) /\ waiters[r] \in Seq(Sessions)
      BY <2>2
    <3>2. Len(waiters'[r]) # Len(waiters[r])
      BY <3>1
    <3> QED
      BY <3>2
  <2>6. /\ state' \in [Sessions -> States] /\ state'[s] = "waiting"
        /\ \A t \in Sessions : t # s => state'[t] = state[t]
    BY <2>2 DEF States
  <2>7. live' \in [Sessions -> BOOLEAN] /\ timer' \in [Sessions -> {"unset", "armed", "fired"}]
    BY <2>2
  <2> QED
    BY <2>1, <2>2, <2>4, <2>5, <2>6, <2>7
<1>2. CASE Raises(s) /\ Goto(s, IF cancelPending[s] THEN "cancelled" ELSE "waiting")
             /\ UNCHANGED <<live, timer, waiters>>
  BY <1>2 DEF Raises, Goto, States
<1>3. CASE ~Raises(s) /\ cancelPending[s] /\ Goto(s, "cancelled") /\ Finish(s) /\ UNCHANGED waiters
  BY <1>3 DEF Raises, Goto, Finish, States
<1>4. CASE /\ ~Raises(s) /\ ~cancelPending[s] /\ Goto(s, "compiling")
           /\ timer' = [timer EXCEPT ![s] = "unset"] /\ UNCHANGED <<live, waiters>>
           /\ \A r \in uses[s] : status[r] = "ready"
  BY <1>4 DEF Raises, Goto, States
<1> QED
  BY <1>1, <1>2, <1>3, <1>4 DEF Outcome

\* Who is in the queues after such a step.
LEMMA OutcomeQueues ==
  ASSUME Inv, NEW s \in Sessions, OutcomeStep(s)
  PROVE  /\ QueuesInv'
         /\ \A t \in Sessions : t # s /\ Queued(t)' => Queued(t)
         /\ \A t \in Sessions : t # s => \A r \in Resources :
              t \in Elements(waiters'[r]) <=> t \in Elements(waiters[r])
         /\ Queued(s)' => state'[s] = "waiting" /\ live'[s] = live[s] /\ timer'[s] = timer[s]
         /\ s \in Elements(waiters'["compiler"]) /\ "pch" \in uses[s] => status["pch"] = "ready"
<1> USE DEF OutcomeStep, Inv, QueuesInv
<1>1. CASE waiters' = waiters
  BY <1>1 DEF Queued, Resources
<1>2. CASE waiters' # waiters
  <2>1. PICK r \in uses[s] : /\ waiters' = [waiters EXCEPT ![r] = Append(@, s)]
                             /\ status[r] = "partial" /\ state'[s] = "waiting"
                             /\ r = "compiler" /\ "pch" \in uses[s] => status["pch"] = "ready"
                             /\ live'[s] = live[s] /\ timer'[s] = timer[s]
    BY <1>2, OutcomeEffect
  <2>2. r \in Resources /\ waiters \in [Resources -> Seq(Sessions)]
    BY DEF TypeOK
  <2>3. /\ waiters'[r] = Append(waiters[r], s)
        /\ \A x \in Resources : x # r => waiters'[x] = waiters[x]
    BY <2>1, <2>2
  <2>4. Elements(waiters'[r]) = Elements(waiters[r]) \cup {s} /\ Once(waiters'[r])
    BY <2>2, <2>3, QueueElements, QueueOnce
  <2>5. QueuesInv'
    <3>1. Once(calls)' /\ \A x \in Resources : Once(waiters[x])'
      BY <2>3, <2>4 DEF Once
    <3>2. \A x \in Resources : Elements(calls') \cap Elements(waiters'[x]) = {}
      BY <2>3, <2>4
    <3>3. Elements(waiters'["compiler"]) \cap Elements(waiters'["pch"]) = {}
      <4>1. CASE r = "compiler"
        BY <2>3, <2>4, <4>1 DEF Resources
      <4>2. CASE r = "pch"
        BY <2>3, <2>4, <4>2 DEF Resources
      <4> QED
        BY <2>2, <4>1, <4>2 DEF Resources
    <3> QED
      BY <3>1, <3>2, <3>3
  <2>6. \A t \in Sessions : t # s => \A x \in Resources :
          t \in Elements(waiters'[x]) <=> t \in Elements(waiters[x])
    BY <2>3, <2>4
  <2>7. \A t \in Sessions : t # s /\ Queued(t)' => Queued(t)
    BY <2>6 DEF Queued
  <2>8. s \in Elements(waiters'["compiler"]) => r = "compiler"
    BY <2>2, <2>3 DEF Resources
  <2> QED
    BY <2>1, <2>5, <2>6, <2>7, <2>8
<1> QED
  BY <1>1, <1>2

\* Such a step keeps the invariant.
LEMMA OutcomeKeeps ==
  ASSUME Inv, NEW s \in Sessions, OutcomeStep(s)
  PROVE  Inv'
<1> USE DEF Inv
<1>0. TypeOK /\ s \in Sessions /\ UNCHANGED <<status, cancelPending, uses, required, called, twice>>
  BY DEF OutcomeStep
<1>1. TypeOK'
  <2>1. calls' \in Seq(Sessions) /\ caller' \in Sessions \cup {None}
    BY DEF OutcomeStep, TypeOK
  <2> QED
    BY <1>0, <2>1, OutcomeEffect DEF TypeOK
<1>2. LoopInv'
  <2>1. caller' = None => calls' = <<>>
    BY DEF OutcomeStep
  <2>2. ASSUME caller' # None
        PROVE  /\ caller' = caller
               /\ state'[caller] = state[caller] /\ live'[caller] = live[caller]
    <3>1. caller' = caller /\ caller \in Sessions /\ caller # s
      BY <2>2 DEF OutcomeStep, TypeOK
    <3> QED
      BY <3>1, OutcomeEffect
  <2> QED
    BY <1>0, <2>1, <2>2 DEF LoopInv
<1>3. OwnerInv'
  BY <1>0 DEF OwnerInv
<1>4. QueuesInv'
  BY OutcomeQueues
<1>5. ASSUME NEW t \in Sessions PROVE SessionInv(t)'
  <2>1. CASE t = s
    <3>1. /\ state'[s] \in {"waiting", "cancelled", "compiling"}
          /\ live'[s] => live[s]
          /\ timer'[s] = timer[s] \/ timer'[s] = "unset"
          /\ state'[s] = "compiling" => timer'[s] = "unset" /\ \A r \in uses[s] : status[r] = "ready"
      BY OutcomeEffect
    <3>2. SessionInv(s) /\ state[s] # "new"
      BY DEF OutcomeStep
    <3> QED
      BY <1>0, <2>1, <3>1, <3>2 DEF SessionInv, Early
  <2>2. CASE t # s
    <3>1. state'[t] = state[t] /\ live'[t] = live[t] /\ timer'[t] = timer[t]
      BY <2>2, OutcomeEffect
    <3> QED
      BY <1>0, <3>1 DEF SessionInv
  <2> QED
    BY <2>1, <2>2
<1>6. ASSUME NEW t \in Sessions PROVE QueuedInv(t)'
  <2>1. CASE t = s
    <3>1. Queued(s)' => state'[s] = "waiting" /\ live'[s] = live[s] /\ timer'[s] = timer[s]
      BY OutcomeQueues
    <3>2. s \in Elements(waiters'["compiler"]) /\ "pch" \in uses[s] => status["pch"] = "ready"
      BY OutcomeQueues
    <3> QED
      BY <1>0, <2>1, <3>1, <3>2 DEF OutcomeStep, QueuedInv
  <2>2. CASE t # s
    <3>1. state'[t] = state[t] /\ live'[t] = live[t] /\ timer'[t] = timer[t]
      BY <2>2, OutcomeEffect
    <3>2. Queued(t)' => Queued(t)
      BY <2>2, OutcomeQueues
    <3>3. t \in Elements(calls') => t \in Elements(calls)
      BY DEF OutcomeStep
    <3>4. t \in Elements(waiters'["compiler"]) => t \in Elements(waiters["compiler"])
      BY <2>2, OutcomeQueues DEF Resources
    <3> QED
      BY <1>0, <3>1, <3>2, <3>3, <3>4 DEF QueuedInv
  <2> QED
    BY <2>1, <2>2
<1>7. ASSUME NEW t \in Sessions, timer[t] = "fired" PROVE timer'[t] = "fired"
  BY <1>7, OutcomeEffect DEF SessionInv
<1>8. PartialHasDownloader'
  <2> SUFFICES ASSUME NEW r \in Resources, status[r] = "partial"
               PROVE  \E t \in Sessions : \/ Downloads(t, r)'
                                          \/ r \in required[t] /\ timer'[t] = "fired"
    BY <1>0 DEF PartialHasDownloader
  <2>1. PICK t \in Sessions : Downloads(t, r) \/ (r \in required[t] /\ timer[t] = "fired")
    BY DEF PartialHasDownloader
  <2>2. t # s
    BY <2>1 DEF OutcomeStep, Downloads
  <2>3. state'[t] = state[t] /\ live'[t] = live[t] /\ timer'[t] = timer[t]
    BY <2>2, OutcomeEffect
  <2> QED
    BY <1>0, <2>1, <2>3 DEF Downloads
<1>9. NoWaiterLost'
  <2> SUFFICES ASSUME NEW t \in Sessions, state'[t] = "waiting",
                      ~(\E x \in Sessions : timer'[x] = "fired" \/ x \in twice)
               PROVE  \/ t \in Elements(calls')
                      \/ \E r \in uses[t] : status[r] = "partial" /\ t \in Elements(waiters'[r])
    BY <1>0 DEF NoWaiterLost
  <2>1. \A x \in Sessions : timer[x] # "fired" /\ x \notin twice
    BY <1>7
  <2>2. ~Raises(s)
    BY <2>1 DEF OutcomeStep, Raises
  <2>3. CASE t = s
    <3>1. PICK r \in uses[s] : waiters' = [waiters EXCEPT ![r] = Append(@, s)] /\ status[r] = "partial"
      BY <2>3, OutcomeEffect
    <3>2. r \in Resources /\ waiters[r] \in Seq(Sessions) /\ waiters'[r] = Append(waiters[r], s)
      BY <3>1 DEF TypeOK
    <3> QED
      BY <2>3, <3>1, <3>2, QueueElements
  <2>4. CASE t # s
    <3>1. state[t] = "waiting"
      BY <2>4, OutcomeEffect
    <3>2. t \in Elements(calls) => t \in Elements(calls')
      BY <2>2, <2>4 DEF OutcomeStep
    <3>3. ASSUME NEW r \in uses[t], t \in Elements(waiters[r]) PROVE t \in Elements(waiters'[r])
      BY <2>4, <3>3, OutcomeQueues DEF TypeOK
    <3> QED
      BY <2>1, <3>1, <3>2, <3>3 DEF NoWaiterLost
  <2> QED
    BY <2>3, <2>4
<1> QED
  BY <1>1, <1>2, <1>3, <1>4, <1>5, <1>6, <1>8, <1>9

-----------------------------------------------------------------------------
(* The steps that end like that.                                           *)

\* CompileSession.compile, from a session that has everything it was to bring
\* and is in no queue.
LEMMA CompileKeeps ==
  ASSUME Inv, NEW s \in Sessions, Compile(s), state[s] \in Early, required[s] = {},
         calls = <<>>, calls' = <<>>, caller' = None,
         UNCHANGED <<status, cancelPending, uses, required, called, twice>>
  PROVE  Inv'
<1> USE DEF Inv
<1>1. ~Queued(s)
  BY DEF QueuedInv, Early
<1>2. Outcome(s)
  BY CompileOutcome DEF Early
<1>3. cancelPending[s] /\ ~live[s] => timer[s] = "fired"
  BY DEF SessionInv
<1>4. Elements(<<>>) = {} /\ Once(<<>>) /\ <<>> \in Seq(Sessions)
  BY DEF Elements, Once
<1>5. OutcomeStep(s)
  BY <1>1, <1>2, <1>3, <1>4 DEF OutcomeStep, Queued, Early
<1> QED
  BY <1>5, OutcomeKeeps

\* One round of the loop over the waiters.
LEMMA CallHandlerKeeps == ASSUME Inv, CallHandler, UNCHANGED twice PROVE Inv'
<1> USE DEF Inv
<1> DEFINE s == Head(calls)
<1>1. calls \in Seq(Sessions) /\ calls # <<>> /\ called \in Resources
  BY DEF CallHandler, TypeOK
<1>2. /\ s \in Sessions /\ Tail(calls) \in Seq(Sessions)
      /\ Elements(calls) = {s} \cup Elements(Tail(calls))
      /\ Once(Tail(calls)) /\ s \notin Elements(Tail(calls))
      /\ Elements(<<>>) = {} /\ Once(<<>>) /\ <<>> \in Seq(Sessions)
  BY <1>1, QueueElements, QueueOnce DEF QueuesInv
<1>3. /\ UNCHANGED <<status, cancelPending, uses, required, called>>
      /\ Handler(s, called)
      /\ \/ HandlerRaises(s, called) /\ calls' = <<>> /\ caller' = None
         \/ calls' = Tail(calls) /\ caller' = caller
  BY DEF CallHandler
<1> HIDE DEF s
<1>4. /\ Queued(s) /\ s \in Elements(calls)
      /\ \A r \in Resources : s \notin Elements(waiters[r])
  BY <1>2 DEF Queued, QueuesInv
<1>5. caller # None /\ caller \in Sessions /\ status[called] = "ready"
  BY <1>1 DEF LoopInv, TypeOK
<1>6. state[caller] \in Early
  BY <1>1, <1>5 DEF LoopInv, Early, Resources
<1>7. /\ state[s] \in {"waiting", "cancelled"} /\ required[s] = {}
      /\ cancelPending[s] /\ ~live[s] => timer[s] = "fired" \/ s \in twice
      /\ called = "compiler" /\ "pch" \in uses[s] => status["pch"] = "ready"
  BY <1>2, <1>4 DEF QueuedInv
<1>8. s # caller
  BY <1>6, <1>7 DEF Early
<1>9. Outcome(s)
  <2>1. "pch" \in uses[s] => status["pch"] = "ready"
    BY <1>1, <1>5, <1>7 DEF Resources
  <2> QED
    BY <1>1, <1>2, <1>3, <1>5, <1>7, <2>1, HandlerOutcome
<1>10. OutcomeStep(s)
  <2>1. CASE HandlerRaises(s, called) /\ calls' = <<>> /\ caller' = None
    BY <1>2, <1>3, <1>4, <1>7, <1>9, <2>1 DEF OutcomeStep, HandlerRaises
  <2>2. CASE calls' = Tail(calls) /\ caller' = caller
    BY <1>2, <1>3, <1>4, <1>5, <1>7, <1>8, <1>9, <2>2 DEF OutcomeStep
  <2> QED
    BY <1>3, <2>1, <2>2
<1> QED
  BY <1>2, <1>10, OutcomeKeeps

-----------------------------------------------------------------------------
(* The steps that leave the queues alone.                                  *)

\* A step of s that enters no queue, brings nothing to an end and keeps
\* everything a download depends on.
QuietStep(s) ==
  /\ UNCHANGED <<status, waiters, uses, required, called, calls>>
  /\ caller' \in {caller, None} /\ (caller' # caller => calls = <<>>)
  /\ \A t \in Sessions : t # s => /\ state'[t] = state[t] /\ live'[t] = live[t]
                                  /\ timer'[t] = timer[t] /\ cancelPending'[t] = cancelPending[t]
  /\ twice \subseteq twice'
  /\ caller' # None => s # caller
  /\ timer[s] = "fired" => timer'[s] = "fired"
  /\ state'[s] = "waiting" => state[s] = "waiting"
  /\ Queued(s) => /\ state'[s] \in {"waiting", "cancelled"}
                  /\ cancelPending'[s] /\ ~live'[s] => timer'[s] = "fired" \/ s \in twice'
  /\ \A r \in Resources :
       Downloads(s, r) => Downloads(s, r)' \/ timer'[s] = "fired"

\* Such a step keeps the invariant if it keeps the types and that of its session.
LEMMA QuietKeeps ==
  ASSUME Inv, NEW s \in Sessions, QuietStep(s), TypeOK', SessionInv(s)'
  PROVE  Inv'
<1> USE DEF Inv, QuietStep
<1>1. LoopInv'
  <2>1. caller' = None => calls' = <<>>
    BY DEF LoopInv
  <2>2. ASSUME caller' # None
        PROVE  /\ caller' = caller
               /\ state'[caller] = state[caller] /\ live'[caller] = live[caller]
    <3>1. caller' = caller /\ caller \in Sessions /\ caller # s
      BY <2>2 DEF TypeOK
    <3> QED
      BY <3>1
  <2> QED
    BY <2>1, <2>2 DEF LoopInv
<1>2. OwnerInv' /\ QueuesInv'
  <2>1. OwnerInv'
    BY DEF OwnerInv
  <2>2. Once(calls)' /\ \A r \in Resources : Once(waiters[r])'
    BY DEF QueuesInv, Once
  <2> QED
    BY <2>1, <2>2 DEF QueuesInv
<1>3. ASSUME NEW t \in Sessions PROVE SessionInv(t)'
  BY <1>3 DEF SessionInv
<1>4. ASSUME NEW t \in Sessions PROVE QueuedInv(t)'
  <2>1. Queued(t)' <=> Queued(t)
    BY DEF Queued
  <2>2. CASE t = s
    BY <2>1, <2>2 DEF QueuedInv
  <2>3. CASE t # s
    BY <2>1, <2>3 DEF QueuedInv
  <2> QED
    BY <2>2, <2>3
<1>5. ASSUME NEW t \in Sessions, timer[t] = "fired" PROVE timer'[t] = "fired"
  BY <1>5
<1>6. PartialHasDownloader'
  <2> SUFFICES ASSUME NEW r \in Resources, status[r] = "partial"
               PROVE  \E t \in Sessions : \/ Downloads(t, r)'
                                          \/ r \in required[t] /\ timer'[t] = "fired"
    BY DEF PartialHasDownloader
  <2>1. PICK t \in Sessions : Downloads(t, r) \/ (r \in required[t] /\ timer[t] = "fired")
    BY DEF PartialHasDownloader
  <2>2. r \in required[t]
    BY <2>1 DEF Downloads
  <2>3. CASE t = s
    BY <1>5, <2>1, <2>2, <2>3
  <2>4. CASE t # s
    <3>1. Downloads(t, r) => Downloads(t, r)'
      BY <2>4 DEF Downloads
    <3> QED
      BY <1>5, <2>1, <2>2, <3>1
  <2> QED
    BY <2>3, <2>4
<1>7. NoWaiterLost'
  <2> SUFFICES ASSUME NEW t \in Sessions, state'[t] = "waiting",
                      ~(\E x \in Sessions : timer'[x] = "fired" \/ x \in twice')
               PROVE  \/ t \in Elements(calls)
                      \/ \E r \in uses[t] : status[r] = "partial" /\ t \in Elements(waiters[r])
    BY DEF NoWaiterLost
  <2>1. \A x \in Sessions : timer[x] # "fired" /\ x \notin twice
    BY <1>5
  <2>2. state[t] = "waiting"
    OBVIOUS
  <2> QED
    BY <2>1, <2>2 DEF NoWaiterLost
<1> QED
  BY <1>1, <1>2, <1>3, <1>4, <1>6, <1>7

\* The steps of a session that downloads, is cancelled, compiles or times out.
LEMMA SessionStepKeeps ==
  ASSUME Inv, NEW s \in Sessions,
         \/ GotTaskFiles(s) /\ required[s] # {} /\ UNCHANGED twice
         \/ PCHReceived(s) /\ UNCHANGED twice
         \/ GotCancel(s)
         \/ CompileCompleted(s) /\ UNCHANGED twice
         \/ SelfDestruct(s) /\ UNCHANGED twice
  PROVE  Inv'
<1> USE DEF Inv
<1>0. /\ caller = None /\ s \in Sessions /\ TypeOK /\ SessionInv(s)
      /\ UNCHANGED <<status, waiters, uses, required, called, calls, caller>>
  BY DEF GotTaskFiles, PCHReceived, GotCancel, CompileCompleted, SelfDestruct, LoopFree, loopVars
<1> USE DEF TypeOK, Goto, Finish
<1>1. CASE GotTaskFiles(s) /\ required[s] # {} /\ UNCHANGED twice
  <2>1. PICK st \in {"downloadingCompiler", "downloadingPCH"} :
          /\ state' = [state EXCEPT ![s] = st] /\ live' = live /\ timer' = timer
          /\ cancelPending' = cancelPending /\ twice' = twice
          /\ state[s] = "headers" /\ live[s]
          /\ st = "downloadingPCH" => "compiler" \notin required[s]
    BY <1>1 DEF GotTaskFiles
  <2>2. TypeOK'
    BY <1>0, <2>1 DEF States
  <2>3. SessionInv(s)'
    BY <1>0, <2>1 DEF SessionInv, Early
  <2>4. QuietStep(s)
    BY <1>0, <2>1 DEF QuietStep, QueuedInv, Downloads, Resources
  <2> QED
    BY <2>2, <2>3, <2>4, QuietKeeps
<1>2. CASE PCHReceived(s) /\ UNCHANGED twice
  <2>1. /\ state' = [state EXCEPT ![s] = "writing"] /\ live' = live /\ timer' = timer
        /\ cancelPending' = cancelPending /\ twice' = twice
        /\ state[s] = "downloadingPCH" /\ live[s]
    BY <1>2 DEF PCHReceived
  <2>2. TypeOK'
    BY <1>0, <2>1 DEF States
  <2>3. SessionInv(s)'
    BY <1>0, <2>1 DEF SessionInv, Early
  <2>4. QuietStep(s)
    BY <1>0, <2>1 DEF QuietStep, QueuedInv, Downloads, Resources
  <2> QED
    BY <2>2, <2>3, <2>4, QuietKeeps
<1>3. CASE GotCancel(s)
  <2>1. CASE state[s] \in {"waiting", "compiling"}
    <3>1. /\ state' = [state EXCEPT ![s] = "cancelled"] /\ live' = [live EXCEPT ![s] = FALSE]
          /\ timer' = [timer EXCEPT ![s] = "unset"] /\ cancelPending' = cancelPending
          /\ twice' = IF cancelPending[s] THEN twice \cup {s} ELSE twice
          /\ live[s]
      BY <1>3, <2>1 DEF GotCancel
    <3>2. TypeOK'
      BY <1>0, <3>1 DEF States
    <3>3. SessionInv(s)'
      BY <1>0, <2>1, <3>1 DEF SessionInv, Early
    <3>4. QuietStep(s)
      BY <1>0, <2>1, <3>1 DEF QuietStep, SessionInv, Downloads
    <3> QED
      BY <3>2, <3>3, <3>4, QuietKeeps
  <2>2. CASE state[s] \notin {"waiting", "compiling"}
    <3>1. /\ state' = state /\ live' = live /\ timer' = timer
          /\ cancelPending' = [cancelPending EXCEPT ![s] = TRUE]
          /\ twice' = IF cancelPending[s] THEN twice \cup {s} ELSE twice
          /\ live[s]
      BY <1>3, <2>2 DEF GotCancel
    <3>2. TypeOK'
      BY <1>0, <3>1
    <3>3. SessionInv(s)'
      BY <1>0, <3>1 DEF SessionInv
    <3>4. QuietStep(s)
      BY <1>0, <3>1 DEF QuietStep, QueuedInv, Downloads
    <3> QED
      BY <3>2, <3>3, <3>4, QuietKeeps
  <2> QED
    BY <2>1, <2>2
<1>4. CASE CompileCompleted(s) /\ UNCHANGED twice
  <2>1. /\ state' = [state EXCEPT ![s] = "done"] /\ live' = [live EXCEPT ![s] = FALSE]
        /\ timer' = [timer EXCEPT ![s] = "unset"] /\ cancelPending' = cancelPending
        /\ twice' = twice /\ state[s] = "compiling"
    BY <1>4 DEF CompileCompleted
  <2>2. TypeOK'
    BY <1>0, <2>1 DEF States
  <2>3. SessionInv(s)'
    BY <1>0, <2>1 DEF SessionInv, Early
  <2>4. QuietStep(s)
    BY <1>0, <2>1 DEF QuietStep, QueuedInv, SessionInv, Downloads
  <2> QED
    BY <2>2, <2>3, <2>4, QuietKeeps
<1>5. CASE SelfDestruct(s) /\ UNCHANGED twice
  <2>1. /\ state' = state /\ live' = [live EXCEPT ![s] = FALSE]
        /\ timer' = [timer EXCEPT ![s] = "fired"] /\ cancelPending' = cancelPending
        /\ twice' = twice /\ timer[s] = "armed"
    BY <1>5 DEF SelfDestruct
  <2>2. TypeOK'
    BY <1>0, <2>1
  <2>3. SessionInv(s)'
    BY <1>0, <2>1 DEF SessionInv
  <2>4. QuietStep(s)
    BY <1>0, <2>1 DEF QuietStep, QueuedInv
  <2> QED
    BY <2>2, <2>3, <2>4, QuietKeeps
<1> QED
  BY <1>1, <1>2, <1>3, <1>4, <1>5

\* The end of the handler that ran the loop.
LEMMA AfterCallsKeeps == ASSUME Inv, AfterCalls, UNCHANGED twice PROVE Inv'
<1> USE DEF Inv
<1>0. PICK s \in Sessions : s = caller
  BY DEF AfterCalls, TypeOK
<1> USE <1>0
<1>1. /\ s \in Sessions /\ calls = <<>> /\ calls' = <<>> /\ caller' = None /\ called \in Resources
      /\ UNCHANGED <<status, cancelPending, uses, required, called, twice>>
      /\ called \notin required[s] /\ required[s] \subseteq Resources
  BY DEF AfterCalls, TypeOK, LoopInv
<1>2. CASE called = "compiler" /\ "pch" \in required[s]
  <2>1. /\ state' = [state EXCEPT ![s] = "downloadingPCH"] /\ live' = live /\ timer' = timer
        /\ waiters' = waiters
    BY <1>2 DEF AfterCalls, Goto
  <2>2. state[s] = "downloadingCompiler" /\ live[s]
    BY <1>1, <1>2 DEF LoopInv, AfterCalls
  <2>3. TypeOK'
    BY <1>1, <2>1 DEF TypeOK, States
  <2>4. SessionInv(s)'
    <3>1. SessionInv(s) /\ state'[s] = "downloadingPCH" /\ "compiler" \notin required[s]
      BY <1>1, <1>2, <2>1 DEF TypeOK
    <3> QED
      BY <1>1, <2>1, <2>2, <3>1 DEF SessionInv, Early
  <2>5. QuietStep(s)
    <3>1. state'[s] = "downloadingPCH" /\ \A t \in Sessions : t # s => state'[t] = state[t]
      BY <1>1, <2>1 DEF TypeOK
    <3>2. ~Queued(s)
      BY <1>1, <2>2 DEF QueuedInv
    <3>3. \A r \in Resources : Downloads(s, r) => Downloads(s, r)'
      BY <1>1, <1>2, <2>1, <2>2, <3>1 DEF Downloads, Resources
    <3> QED
      BY <1>1, <2>1, <2>2, <3>1, <3>2, <3>3 DEF QuietStep
  <2> QED
    BY <1>1, <2>3, <2>4, <2>5, QuietKeeps
<1>3. CASE ~(called = "compiler" /\ "pch" \in required[s])
  <2>1. state[s] \in {"downloadingCompiler", "writing"}
    BY <1>1 DEF AfterCalls, LoopInv, Resources
  <2>2. called = "pch" => "compiler" \notin required[s]
    BY <1>1 DEF AfterCalls, LoopInv, SessionInv
  <2>3. required[s] = {}
    BY <1>1, <1>3, <2>2 DEF Resources
  <2>4. Compile(s)
    BY <1>3 DEF AfterCalls
  <2> QED
    BY <1>1, <2>1, <2>3, <2>4, CompileKeeps DEF Early
<1> QED
  BY <1>2, <1>3

-----------------------------------------------------------------------------
(* A resource is asked for, and arrives.                                   *)

\* SERVER_TASK: what nobody has and nobody downloads becomes partial, and the
\* new session is to bring it.
LEMMA NewSessionKeeps == ASSUME Inv, NEW s \in Sessions, NewSession(s), UNCHANGED twice PROVE Inv'
<1> USE DEF Inv
<1>1. PICK use \in {{"compiler"}, Resources} :
        LET missing == {r \in use : status[r] = "absent"}
        IN  /\ uses' = [uses EXCEPT ![s] = use]
            /\ required' = [required EXCEPT ![s] = missing]
            /\ status' = [r \in Resources |-> IF r \in missing THEN "partial" ELSE status[r]]
  BY DEF NewSession
<1> DEFINE missing == {r \in use : status[r] = "absent"}
<1>2. use \subseteq Resources /\ "compiler" \in use /\ missing \subseteq Resources
  BY DEF Resources
<1>3. /\ uses'[s] = use /\ required'[s] = missing /\ state'[s] = "headers"
      /\ live'[s] /\ timer'[s] = "armed"
      /\ \A t \in Sessions : t # s => /\ uses'[t] = uses[t] /\ required'[t] = required[t]
                                      /\ state'[t] = state[t] /\ live'[t] = live[t]
                                      /\ timer'[t] = timer[t]
      /\ UNCHANGED <<waiters, cancelPending, called, calls, caller, twice>>
      /\ caller = None /\ state[s] = "new"
  BY <1>1 DEF NewSession, Goto, TypeOK, loopVars, LoopFree
<1>4. \A r \in Resources : /\ r \in missing => status[r] = "absent" /\ status'[r] = "partial"
                           /\ r \notin missing => status'[r] = status[r]
                           /\ r \in use => status'[r] # "absent"
  BY <1>1, <1>2
<1>5. TypeOK'
  <2>1. status' \in [Resources -> {"absent", "partial", "ready"}]
    BY <1>1 DEF TypeOK
  <2>2. uses' \in [Sessions -> SUBSET Resources] /\ required' \in [Sessions -> SUBSET Resources]
    BY <1>1, <1>2 DEF TypeOK
  <2>3. /\ state' \in [Sessions -> States] /\ live' \in [Sessions -> BOOLEAN]
        /\ timer' \in [Sessions -> {"unset", "armed", "fired"}]
    BY DEF NewSession, Goto, TypeOK, States
  <2> QED
    BY <1>3, <2>1, <2>2, <2>3 DEF TypeOK
<1>6. ~Queued(s) /\ timer[s] = "unset" /\ required[s] = {}
  BY <1>3 DEF QueuedInv, SessionInv
<1> HIDE DEF missing
<1>7. LoopInv'
  BY <1>3 DEF LoopInv
<1>8. OwnerInv'
  <2> SUFFICES ASSUME NEW r \in Resources, NEW t \in Sessions, r \in required'[t],
                      NEW x \in Sessions, r \in required'[x]
               PROVE  status'[r] = "partial" /\ x = t
    BY DEF OwnerInv
  <2>1. CASE r \in missing
    BY <1>3, <1>4, <2>1 DEF OwnerInv
  <2>2. CASE r \notin missing
    BY <1>3, <1>4, <2>2 DEF OwnerInv
  <2> QED
    BY <2>1, <2>2
<1>9. QueuesInv'
  <2>1. Once(calls)' /\ \A r \in Resources : Once(waiters[r])'
    BY <1>3 DEF QueuesInv, Once
  <2> QED
    BY <1>3, <2>1 DEF QueuesInv
<1>10. ASSUME NEW t \in Sessions PROVE SessionInv(t)'
  <2>1. CASE t = s
    BY <1>2, <1>3, <1>4, <2>1 DEF SessionInv, Early
  <2>2. CASE t # s
    <3>1. \A r \in uses[t] : status'[r] = status[r] /\ status[r] # "absent"
      BY <1>4 DEF SessionInv, TypeOK
    <3> QED
      BY <1>3, <2>2, <3>1 DEF SessionInv
  <2> QED
    BY <2>1, <2>2
<1>11. ASSUME NEW t \in Sessions PROVE QueuedInv(t)'
  <2>1. Queued(t)' <=> Queued(t)
    BY <1>3 DEF Queued
  <2>2. "pch" \in Resources /\ "compiler" \in Resources
    BY DEF Resources
  <2>3. CASE t = s
    BY <1>3, <1>6, <2>1, <2>2, <2>3 DEF QueuedInv, Queued
  <2>4. CASE t # s
    BY <1>3, <1>4, <2>1, <2>2, <2>4 DEF QueuedInv
  <2> QED
    BY <2>3, <2>4
<1>12. PartialHasDownloader'
  <2> SUFFICES ASSUME NEW r \in Resources, status'[r] = "partial"
               PROVE  \E t \in Sessions : \/ Downloads(t, r)'
                                          \/ r \in required'[t] /\ timer'[t] = "fired"
    BY DEF PartialHasDownloader
  <2>1. CASE r \in missing
    BY <1>3, <2>1 DEF Downloads
  <2>2. CASE r \notin missing
    <3>1. PICK t \in Sessions : Downloads(t, r) \/ (r \in required[t] /\ timer[t] = "fired")
      BY <1>4, <2>2 DEF PartialHasDownloader
    <3>2. t # s
      BY <1>6, <3>1 DEF Downloads
    <3> QED
      BY <1>3, <3>1, <3>2 DEF Downloads
  <2> QED
    BY <2>1, <2>2
<1>13. NoWaiterLost'
  <2> SUFFICES ASSUME NEW t \in Sessions, state'[t] = "waiting",
                      ~(\E x \in Sessions : timer'[x] = "fired" \/ x \in twice)
               PROVE  \/ t \in Elements(calls)
                      \/ \E r \in uses'[t] : status'[r] = "partial" /\ t \in Elements(waiters[r])
    BY <1>3 DEF NoWaiterLost
  <2>1. t # s /\ state[t] = "waiting" /\ uses'[t] = uses[t]
    BY <1>3
  <2>2. \A x \in Sessions : timer[x] # "fired" /\ x \notin twice
    BY <1>3, <1>6
  <2>3. \A r \in uses[t] : status[r] = "partial" => status'[r] = "partial"
    BY <1>4 DEF TypeOK
  <2> QED
    BY <2>1, <2>2, <2>3 DEF NoWaiterLost
<1> QED
  BY <1>5, <1>7, <1>8, <1>9, <1>10, <1>11, <1>12, <1>13

\* set_compiler_ready and file_completed: the waiters become the handlers to call.
LEMMA ReadyKeeps ==
  ASSUME Inv, NEW s \in Sessions, CompilerDownloaded(s) \/ PCHCompleted(s), UNCHANGED twice
  PROVE  Inv'
<1> USE DEF Inv
<1>1. PICK r \in Resources :
        /\ Ready(s, r) /\ r \in required[s] /\ caller = None
        /\ r = "compiler" => state[s] = "downloadingCompiler" /\ live[s]
        /\ r = "pch" => state[s] = "writing"
  BY DEF CompilerDownloaded, PCHCompleted, LoopFree, Resources
<1>2. /\ status'[r] = "ready" /\ \A x \in Resources : x # r => status'[x] = status[x]
      /\ waiters'[r] = <<>> /\ \A x \in Resources : x # r => waiters'[x] = waiters[x]
      /\ called' = r /\ calls' = waiters[r] /\ caller' = s
      /\ required'[s] = required[s] \ {r}
      /\ \A t \in Sessions : t # s => required'[t] = required[t]
      /\ UNCHANGED <<state, live, timer, cancelPending, uses, twice>>
  BY <1>1 DEF Ready, TypeOK
<1>3. calls = <<>> /\ status[r] = "partial" /\ \A t \in Sessions : r \in required[t] => t = s
  BY <1>1 DEF LoopInv, OwnerInv
<1>4. TypeOK'
  BY <1>1, <1>2 DEF Ready, TypeOK
<1>5. LoopInv'
  BY <1>1, <1>2, NoneAssumption DEF LoopInv
<1>6. OwnerInv'
  <2> SUFFICES ASSUME NEW x \in Resources, NEW t \in Sessions, x \in required'[t],
                      NEW y \in Sessions, x \in required'[y]
               PROVE  status'[x] = "partial" /\ y = t
    BY DEF OwnerInv
  <2>1. x # r /\ x \in required[t] /\ x \in required[y]
    BY <1>2, <1>3
  <2> QED
    BY <1>2, <2>1 DEF OwnerInv
<1>7. /\ Elements(<<>>) = {} /\ Once(<<>>)
      /\ Elements(calls') = Elements(waiters[r]) /\ Elements(waiters'[r]) = {}
      /\ \A x \in Resources : x # r => Elements(waiters'[x]) = Elements(waiters[x])
  BY <1>2 DEF Elements, Once
<1>8. QueuesInv'
  <2>1. Once(calls)' /\ \A x \in Resources : Once(waiters[x])'
    BY <1>1, <1>2 DEF QueuesInv, Once
  <2>2. \A x \in Resources : Elements(calls') \cap Elements(waiters'[x]) = {}
    BY <1>1, <1>7 DEF QueuesInv, Resources
  <2>3. Elements(waiters'["compiler"]) \cap Elements(waiters'["pch"]) = {}
    BY <1>1, <1>7 DEF Resources
  <2> QED
    BY <2>1, <2>2, <2>3 DEF QueuesInv
<1>9. \A t \in Sessions : required'[t] \subseteq required[t]
  BY <1>2
<1>10. ASSUME NEW t \in Sessions PROVE SessionInv(t)'
  <2>1. \A x \in uses[t] : status[x] # "absent" => status'[x] # "absent"
    BY <1>2 DEF TypeOK
  <2>2. \A x \in uses[t] : status[x] = "ready" => status'[x] = "ready"
    BY <1>2 DEF TypeOK
  <2> QED
    BY <1>2, <1>9, <2>1, <2>2 DEF SessionInv
<1>11. ASSUME NEW t \in Sessions PROVE QueuedInv(t)'
  <2>1. Queued(t)' => Queued(t)
    BY <1>1, <1>7 DEF Queued
  <2>2. status["pch"] = "ready" => status'["pch"] = "ready"
    BY <1>2 DEF Resources
  <2>3. t \in Elements(waiters'["compiler"]) => t \in Elements(waiters["compiler"])
    BY <1>7 DEF Resources
  <2>4. called' = "compiler" /\ t \in Elements(calls') => t \in Elements(waiters["compiler"])
    BY <1>2, <1>7
  <2> QED
    BY <1>2, <1>9, <2>1, <2>2, <2>3, <2>4 DEF QueuedInv
<1>12. PartialHasDownloader'
  <2> SUFFICES ASSUME NEW x \in Resources, status'[x] = "partial"
               PROVE  \E t \in Sessions : \/ Downloads(t, x)'
                                          \/ x \in required'[t] /\ timer'[t] = "fired"
    BY DEF PartialHasDownloader
  <2>1. x # r /\ status[x] = "partial"
    BY <1>2
  <2>2. PICK t \in Sessions : Downloads(t, x) \/ (x \in required[t] /\ timer[t] = "fired")
    BY <2>1 DEF PartialHasDownloader
  <2>3. x \in required[t] => x \in required'[t]
    BY <1>2, <2>1
  <2> QED
    BY <1>2, <2>2, <2>3 DEF Downloads
<1>13. NoWaiterLost'
  <2> SUFFICES ASSUME NEW t \in Sessions, state[t] = "waiting",
                      ~(\E x \in Sessions : timer[x] = "fired" \/ x \in twice)
               PROVE  \/ t \in Elements(calls')
                      \/ \E x \in uses[t] : status'[x] = "partial" /\ t \in Elements(waiters'[x])
    BY <1>2 DEF NoWaiterLost
  <2>1. PICK x \in uses[t] : status[x] = "partial" /\ t \in Elements(waiters[x])
    BY <1>3, <1>7 DEF NoWaiterLost
  <2>2. x \in Resources
    BY DEF TypeOK
  <2> QED
    BY <1>2, <1>7, <2>1, <2>2
<1> QED
  BY <1>4, <1>5, <1>6, <1>8, <1>10, <1>11, <1>12, <1>13

-----------------------------------------------------------------------------
(* The theorems.                                                           *)

\* Every step keeps the invariant.
LEMMA InvStep == Inv /\ [Next]_vars => Inv'
<1> SUFFICES ASSUME Inv, [Next]_vars PROVE Inv'
  OBVIOUS
<1>1. CASE UNCHANGED vars
  BY <1>1 DEF vars, sessionVars, loopVars, Inv, TypeOK, LoopInv, OwnerInv, QueuesInv, Once,
     SessionInv, QueuedInv, Queued, PartialHasDownloader, Downloads, NoWaiterLost
<1>2. ASSUME NEW s \in Sessions, GotTaskFiles(s), UNCHANGED twice PROVE Inv'
  <2>1. CASE required[s] # {}
    BY <1>2, <2>1, SessionStepKeeps
  <2>2. CASE required[s] = {}
    <3>1. /\ Compile(s) /\ caller = None /\ state[s] = "headers"
          /\ UNCHANGED <<status, cancelPending, uses, required, called, calls, caller, twice>>
      BY <1>2, <2>2 DEF GotTaskFiles, LoopFree, loopVars
    <3>2. calls = <<>>
      BY <3>1 DEF Inv, LoopInv
    <3> QED
      BY <2>2, <3>1, <3>2, CompileKeeps DEF Early
  <2> QED
    BY <2>1, <2>2
<1> QED
  BY <1>1, <1>2, SessionStepKeeps, CallHandlerKeeps, AfterCallsKeeps, NewSessionKeeps, ReadyKeeps
     DEF Next, Loop, Work

\* The invariant holds in every behaviour.
LEMMA ResourcesInvariant == Spec => []Inv
<1>1. ASSUME Init PROVE Inv
  <2> USE <1>1 DEF Init
  <2>1. status \in [Resources -> {"absent", "ready"}]
    BY DEF Resources
  <2>2. TypeOK
    BY <2>1 DEF TypeOK, States, Resources
  <2>3. Elements(<<>>) = {} /\ Once(<<>>)
    BY DEF Elements, Once
  <2>4. LoopInv /\ OwnerInv /\ QueuesInv
    BY <2>3 DEF LoopInv, OwnerInv, QueuesInv, Resources
  <2>5. \A s \in Sessions : SessionInv(s) /\ QueuedInv(s)
    BY <2>3 DEF SessionInv, QueuedInv, Queued, Early, Resources
  <2>6. PartialHasDownloader /\ NoWaiterLost
    BY <2>1 DEF PartialHasDownloader, NoWaiterLost
  <2> QED
    BY <2>2, <2>4, <2>5, <2>6 DEF Inv
<1> QED
  BY <1>1, InvStep, PTL DEF Spec

\* Whatever the order of cancels, time-outs and arrivals, a partial resource has
\* the one session that is to bring it or a timed-out one, and no waiter is
\* lost unless a session that timed out or was cancelled twice raises.
THEOREM ResourcesFitTogether == Spec => []ResourceInv
<1>1. ASSUME Inv PROVE ResourceInv
  <2>1. OneDownloader
    BY <1>1 DEF Inv, OwnerInv, OneDownloader, Downloads
  <2> QED
    BY <1>1, <2>1 DEF Inv, ResourceInv
<1> QED
  BY <1>1, ResourcesInvariant, PTL

\* A compiler never starts before everything its task uses is in place, also
\* when the session had to wait for the PCH and then for the compiler.
THEOREM CompilersHaveTheirResources == Spec => []CompilesWithResources
<1>1. Inv => CompilesWithResources
  BY DEF Inv, SessionInv, CompilesWithResources
<1> QED
  BY <1>1, ResourcesInvariant, PTL
=============================================================================
