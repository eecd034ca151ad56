------------------------- MODULE ProcessHooks_proofs -------------------------
(***************************************************************************)
(* The table of compilations is sound for any number of threads, handles   *)
(* and compilations: the invariant follows a compilation's handle, object  *)
(* and worker from CreateProcess to CloseHandle.  A program that does not  *)
(* close or terminate too early is never hurt.  A kid reads from its pipe  *)
(* what its creator wrote there, whatever the bytes.                       *)
(***************************************************************************)
EXTENDS ProcessHooks, FiniteSetTheorems, TLAPS

(***************************************************************************)
(* Loading the DLL.                                                        *)
(***************************************************************************)

\* The suspend count of the kid's main thread is given by the places of creator
\* and kid.
Count(k) ==
  CASE inj[k] \in {"created", "redirected"} -> 1
    [] inj[k] = "refused" -> IF resumed[k] THEN 0 ELSE 1
    [] inj[k] = "signal" -> IF kid[k] = "ended" THEN 0 ELSE 1
    [] inj[k] = "returned" -> IF asked[k] /\ ~resumed[k] /\ kid[k] # "ended" THEN 1 ELSE 0
    [] OTHER -> 0

KidInv(k) ==
  /\ susp[k] = Count(k)
  /\ resumed[k] => inj[k] \in {"returned", "refused"} /\ asked[k]
  /\ inj[k] \notin {"none", "created", "refused"} => (event[k] # "none" <=> asked[k])
  /\ inj[k] = "wait" => asked[k]
  /\ inj[k] \in {"suspend", "signal"} => asked[k]

InjTypeOK ==
  /\ inj \in [Kids -> InjPlaces] /\ kid \in [Kids -> KidPlaces] /\ susp \in [Kids -> 0..1]
  /\ asked \in [Kids -> BOOLEAN] /\ event \in [Kids -> {"none", "clear", "set"}]
  /\ resumed \in [Kids -> BOOLEAN]

InjInv == InjTypeOK /\ \A k \in Kids : KidInv(k)

(***************************************************************************)
(* The compilations.                                                       *)
(***************************************************************************)
AllCodes == Codes \cup {Garbage, -1}
CallPlaces == {"idle", "suspended", "wait", "read", "close", "closing", "signal", "inject"}
WorkerPlaces == {"none", "suspended", "start", "compile", "result", "unlocked", "fallback", "done"}

HandleRec == [kind : {"free", "event", "process"}, signalled : BOOLEAN, code : AllCodes]
ObjectRec == [mem : {"none", "alive", "freed"}, h : Handles \cup {None}, completed : BOOLEAN,
              exit : AllCodes, params : BOOLEAN]
CallRec == [pc : CallPlaces, h : Handles \cup {None}, o : Objects \cup Kids \cup {None},
            got : AllCodes, waited : BOOLEAN]

HookTypeOK ==
  /\ active \in BOOLEAN /\ misused \subseteq Objects
  /\ handle \in [Handles -> HandleRec] /\ info \in [Handles -> Objects \cup {None}]
  /\ obj \in [Objects -> ObjectRec] /\ worker \in [Objects -> WorkerPlaces]
  /\ call \in [Callers -> CallRec]

\* The caller has a handle; and it has not begun to close it.
Open(c) == call[c].pc \in {"suspended", "wait", "read", "close", "closing", "signal"}
Holds(c) == Open(c) /\ call[c].pc # "closing"

\* Callers have handles of their own, those of processes or of the compilations
\* they have created.
OpenInv(c) ==
  Open(c) => active /\ call[c].h \in Handles /\ handle[call[c].h].kind # "free"
HoldsInv(c) ==
  Holds(c) => \/ call[c].o \in Objects /\ info[call[c].h] = call[c].o
              \/ /\ call[c].o = None /\ info[call[c].h] = None /\ call[c].pc # "suspended"
                 /\ handle[call[c].h].kind = "process"
ClosingInv(c) == call[c].pc = "closing" => info[call[c].h] = None
OwnInv == \A c, d \in Callers : Open(c) /\ Open(d) /\ call[c].h = call[d].h => c = d
WorkerCallInv(o) == Open(o) => worker[o] = "fallback"

\* The table and the live objects are each other's inverse.
TableInv ==
  /\ EntriesLive
  /\ \A o \in Objects : obj[o].mem = "alive" => obj[o].h \in Handles /\ info[obj[o].h] = o

\* Nobody has hurt the compilation.
Sane(o) == o \notin misused /\ "stray" \notin ub

\* The object outlives its worker, and its parameters what needs them.
WorkerInv(o) ==
  /\ obj[o].mem = "none" => worker[o] = "none"
  /\ obj[o].mem # "none" => obj[o].h \in Handles
  /\ worker[o] = "unlocked" => obj[o].completed
  /\ Sane(o) =>
       /\ worker[o] \notin {"none", "done"} => obj[o].mem = "alive"
       /\ worker[o] \in {"suspended", "start", "compile"} => obj[o].params
\* The event is set last.
SignalInv(h) ==
  info[h] # None /\ handle[h].signalled =>
    /\ Sane(info[h]) => worker[info[h]] = "done"
    /\ "stray" \notin ub => obj[info[h]].completed
\* How far a caller has got with its compilation.
CallerInv(c) ==
  Holds(c) /\ call[c].o \in Objects =>
    /\ call[c].pc = "suspended" => worker[call[c].o] = "suspended"
    /\ call[c].pc = "signal" => call[c].o \in misused /\ obj[call[c].o].completed
    /\ call[c].pc \in {"read", "close"} /\ Sane(call[c].o) => worker[call[c].o] = "done"
    /\ call[c].pc = "read" => handle[call[c].h].signalled
    /\ call[c].waited => call[c].pc \in {"read", "close"}
    /\ call[c].pc = "close" /\ call[c].waited /\ "stray" \notin ub =>
         obj[call[c].o].completed /\ call[c].got = obj[call[c].o].exit

CompilationInv ==
  /\ TableInv /\ OwnInv
  /\ \A c \in Callers : OpenInv(c) /\ HoldsInv(c) /\ ClosingInv(c) /\ CallerInv(c)
  /\ \A o \in Objects : WorkerCallInv(o) /\ WorkerInv(o)
  /\ \A h \in Handles : SignalInv(h)

\* A worker is a caller too.
LEMMA Workers == Objects \subseteq Callers /\ Users \subseteq Callers
BY DEF Callers

\* A compilation belongs to one caller.
LEMMA OneHolder ==
  ASSUME CompilationInv, NEW c \in Callers, NEW d \in Callers, Holds(c), Holds(d),
         call[c].o = call[d].o, call[c].o \in Objects
  PROVE  c = d
<1>1. /\ info[call[c].h] = call[c].o /\ info[call[d].h] = call[c].o
      /\ call[c].h \in Handles /\ call[d].h \in Handles
  BY HooksAssumption DEF CompilationInv, HoldsInv, OpenInv, Holds
<1>2. call[c].h = call[d].h
  BY <1>1, HooksAssumption DEF CompilationInv, TableInv, EntriesLive
<1> QED
  BY <1>2 DEF CompilationInv, OwnInv, Holds

\* The compilation of a caller is alive and in the table.
LEMMA HeldIsAlive ==
  ASSUME CompilationInv, NEW c \in Callers, Holds(c), call[c].o \in Objects
  PROVE  /\ obj[call[c].o].mem = "alive" /\ obj[call[c].o].h = call[c].h
         /\ call[c].h \in Handles /\ info[call[c].h] = call[c].o
<1>1. info[call[c].h] = call[c].o /\ call[c].h \in Handles
  BY HooksAssumption DEF CompilationInv, HoldsInv, OpenInv, Holds
<1> QED
  BY <1>1, HooksAssumption DEF CompilationInv, TableInv, EntriesLive

\* A caller goes on with its handle, or one without a handle does something else.
LEMMA CallerMoves ==
  ASSUME HookTypeOK, CompilationInv, NEW c \in Callers,
         UNCHANGED <<active, handle, info, obj, worker, ub>>, misused \subseteq misused', misused' \subseteq Objects,
         NEW rec \in CallRec, call' = [call EXCEPT ![c] = rec],
         \/ rec.pc \in {"idle", "inject"}
         \/ /\ Holds(c) /\ rec.pc \in {"wait", "read", "close", "signal"}
            /\ rec.h = call[c].h /\ rec.o = call[c].o,
         CallerInv(c)'
  PROVE  HookTypeOK' /\ CompilationInv'
<1>1. /\ call'[c] = rec /\ \A d \in Callers \ {c} : call'[d] = call[d]
      /\ \A d \in Callers : Open(d)' => Open(d) /\ call'[d].h = call[d].h
  BY DEF HookTypeOK, Open, Holds
<1>2. HookTypeOK'
  BY DEF HookTypeOK
<1>3. /\ TableInv /\ OwnInv
      /\ \A d \in Callers : OpenInv(d) /\ HoldsInv(d) /\ ClosingInv(d) /\ CallerInv(d)
      /\ \A p \in Objects : WorkerCallInv(p) /\ WorkerInv(p)
      /\ \A g \in Handles : SignalInv(g)
  BY DEF CompilationInv
<1>4. TableInv'
  BY <1>1, <1>3 DEF TableInv, EntriesLive
<1>5. OwnInv'
  BY <1>1, <1>3 DEF OwnInv
<1>6. ASSUME NEW d \in Callers PROVE OpenInv(d)' /\ HoldsInv(d)' /\ ClosingInv(d)' /\ CallerInv(d)'
  <2>1. OpenInv(d)'
    BY <1>1, <1>3 DEF OpenInv
  <2>2. HoldsInv(d)'
    BY <1>1, <1>3 DEF HoldsInv, Holds, Open
  <2>3. ClosingInv(d)'
    BY <1>1, <1>3 DEF ClosingInv, Open
  <2>4. CallerInv(d)'
    BY <1>1, <1>3 DEF CallerInv, Holds, Open, Sane
  <2> QED
    BY <2>1, <2>2, <2>3, <2>4
<1>7. ASSUME NEW p \in Objects PROVE WorkerCallInv(p)' /\ WorkerInv(p)'
  <2>1. WorkerCallInv(p)'
    BY <1>1, <1>3, Workers DEF WorkerCallInv
  <2>2. WorkerInv(p)'
    BY <1>1, <1>3 DEF WorkerInv, Sane
  <2> QED
    BY <2>1, <2>2
<1>8. ASSUME NEW g \in Handles PROVE SignalInv(g)'
  BY <1>1, <1>3 DEF SignalInv, Sane
<1> QED
  BY <1>2, <1>4, <1>5, <1>6, <1>7, <1>8 DEF CompilationInv

\* An exit code, or none.
LEMMA ExitCodeType == ASSUME HookTypeOK, NEW h \in Handles PROVE ExitCode(h) \in AllCodes
<1>1. handle[h].code \in AllCodes /\ Garbage \in AllCodes
  BY DEF HookTypeOK, HandleRec, AllCodes
<1>2. info[h] # None => obj[info[h]].exit \in AllCodes
  BY DEF HookTypeOK, ObjectRec
<1> QED
  BY <1>1, <1>2 DEF ExitCode

\* The event is set.
LEMMA WaitKeeps ==
  ASSUME HookTypeOK, CompilationInv, NEW c \in Callers, Wait(c)
  PROVE  HookTypeOK' /\ CompilationInv'
<1> DEFINE rec == [call[c] EXCEPT !.pc = "read", !.waited = TRUE]
<1>1. call[c] \in CallRec /\ CallerInv(c) /\ HoldsInv(c) /\ OpenInv(c)
  BY DEF HookTypeOK, CompilationInv
<1>2. rec \in CallRec
  BY <1>1 DEF CallRec, CallPlaces, AllCodes
<1>3. UNCHANGED <<active, handle, info, obj, worker, ub>> /\ call' = [call EXCEPT ![c] = rec] /\ call'[c] = rec
  BY <1>1 DEF Wait, HookTypeOK
<1>4. Holds(c) /\ rec.pc \in {"wait", "read", "close", "signal"} /\ rec.h = call[c].h /\ rec.o = call[c].o
  BY <1>1 DEF Wait, Holds, Open, CallRec
<1>5. misused \subseteq misused' /\ misused' \subseteq Objects
  BY DEF Wait, HookTypeOK
<1>6. CallerInv(c)'
  <2> SUFFICES ASSUME rec.o \in Objects PROVE CallerInv(c)'
    BY <1>3 DEF CallerInv
  <2>1. info[call[c].h] = rec.o /\ call[c].h \in Handles /\ rec.o # None /\ rec.h = call[c].h
    BY <1>1, <1>4, HeldIsAlive, HooksAssumption
  <2>2. SignalInv(call[c].h) /\ handle[call[c].h].signalled
    BY <2>1 DEF CompilationInv, Wait
  <2>3. rec.pc = "read"
    BY <1>1 DEF CallRec
  <2> HIDE DEF rec
  <2>4. Sane(rec.o) => worker[rec.o] = "done"
    BY <2>1, <2>2 DEF SignalInv
  <2>5. misused' = misused
    BY DEF Wait
  <2> QED
    BY <1>3, <2>1, <2>2, <2>3, <2>4, <2>5 DEF CallerInv, Sane
<1> HIDE DEF rec
<1> QED
  BY <1>2, <1>3, <1>4, <1>5, <1>6, CallerMoves

\* The exit code is there.
LEMMA GetExitCodeKeeps ==
  ASSUME HookTypeOK, CompilationInv, NEW c \in Callers, GetExitCode(c)
  PROVE  HookTypeOK' /\ CompilationInv'
<1> DEFINE code == ExitCode(call[c].h)
           rec == [call[c] EXCEPT !.pc = "close", !.got = code]
<1>1. call[c] \in CallRec /\ CallerInv(c) /\ HoldsInv(c) /\ OpenInv(c)
  BY DEF HookTypeOK, CompilationInv
<1>2. rec \in CallRec
  <2>1. code \in AllCodes
    BY <1>1, ExitCodeType DEF GetExitCode, OpenInv, Open
  <2> HIDE DEF code
  <2> QED
    BY <1>1, <2>1 DEF CallRec, CallPlaces
<1>3. UNCHANGED <<active, handle, info, obj, worker, ub>> /\ call' = [call EXCEPT ![c] = rec] /\ call'[c] = rec
  BY <1>1 DEF GetExitCode, HookTypeOK
<1>4. Holds(c) /\ rec.pc \in {"wait", "read", "close", "signal"} /\ rec.h = call[c].h /\ rec.o = call[c].o
  BY <1>1 DEF GetExitCode, Holds, Open, CallRec
<1>5. misused \subseteq misused' /\ misused' \subseteq Objects
  BY DEF GetExitCode, HookTypeOK
<1>6. CallerInv(c)'
  <2> SUFFICES ASSUME rec.o \in Objects PROVE CallerInv(c)'
    BY <1>3 DEF CallerInv
  <2>1. info[call[c].h] = rec.o /\ call[c].h \in Handles /\ rec.o # None /\ active
    BY <1>1, <1>4, HeldIsAlive, HooksAssumption DEF OpenInv, Holds
  <2>2. SignalInv(call[c].h) /\ call[c].pc = "read" /\ misused' = misused
    BY <2>1 DEF CompilationInv, GetExitCode
  <2>3. rec.pc = "close" /\ rec.o = call[c].o /\ rec.got = ExitCode(call[c].h)
    BY <1>1 DEF CallRec
  <2>4. /\ Sane(call[c].o) => worker[call[c].o] = "done"
        /\ handle[call[c].h].signalled
    BY <1>1, <1>4, <2>2, <2>3 DEF CallerInv
  <2>5. "stray" \notin ub => obj[rec.o].completed
    BY <2>1, <2>2, <2>4 DEF SignalInv
  <2>6. obj[rec.o].completed => rec.got = obj[rec.o].exit
    BY <2>1, <2>3 DEF ExitCode
  <2> HIDE DEF rec
  <2> QED
    BY <1>3, <2>2, <2>3, <2>4, <2>5, <2>6 DEF CallerInv, Sane
<1> HIDE DEF rec
<1> QED
  BY <1>2, <1>3, <1>4, <1>5, <1>6, CallerMoves

\* A program that polls, and so may close too early.
LEMMA PollKeeps ==
  ASSUME HookTypeOK, CompilationInv, NEW c \in Users, Poll(c)
  PROVE  HookTypeOK' /\ CompilationInv'
<1> DEFINE code == ExitCode(call[c].h)
           rec == [call[c] EXCEPT !.pc = "close", !.got = code]
<1>1. call[c] \in CallRec /\ CallerInv(c) /\ HoldsInv(c) /\ OpenInv(c)
  BY Workers DEF HookTypeOK, CompilationInv
<1>2. rec \in CallRec
  <2>1. code \in AllCodes
    BY <1>1, ExitCodeType DEF Poll, OpenInv, Open
  <2> HIDE DEF code
  <2> QED
    BY <1>1, <2>1 DEF CallRec, CallPlaces
<1>3. UNCHANGED <<active, handle, info, obj, worker, ub>> /\ call' = [call EXCEPT ![c] = rec] /\ call'[c] = rec
  BY <1>1, Workers DEF Poll, HookTypeOK
<1>4. Holds(c) /\ rec.pc \in {"wait", "read", "close", "signal"} /\ rec.h = call[c].h /\ rec.o = call[c].o
  BY <1>1 DEF Poll, Holds, Open, CallRec
<1>5. misused \subseteq misused' /\ misused' \subseteq Objects
  BY DEF Poll, Early, HookTypeOK
<1>6. CallerInv(c)'
  <2> SUFFICES ASSUME rec.o \in Objects PROVE CallerInv(c)'
    BY <1>3 DEF CallerInv
  <2>1. info[call[c].h] = rec.o /\ call[c].h \in Handles /\ rec.o # None
    BY <1>1, <1>4, HeldIsAlive, HooksAssumption, Workers
  <2>2. SignalInv(call[c].h) /\ misused' = misused \cup Early(c)
    BY <2>1 DEF CompilationInv, Poll
  <2>3. rec.pc = "close" /\ rec.o = call[c].o /\ rec.waited = call[c].waited
    BY <1>1 DEF CallRec
  <2>4. ~call[c].waited
    BY <1>1, <1>4, <2>3 DEF CallerInv, Poll
  <2> HIDE DEF rec
  <2>5. rec.o \notin misused' /\ "stray" \notin ub => Sane(rec.o) /\ handle[call[c].h].signalled
    BY <2>2, <2>3 DEF Early, Sane
  <2>6. rec.o \notin misused' /\ "stray" \notin ub => worker[rec.o] = "done"
    BY <2>1, <2>2, <2>5 DEF SignalInv
  <2> QED
    BY <1>3, <2>3, <2>4, <2>6 DEF CallerInv, Sane
<1> HIDE DEF rec
<1> QED
  BY <1>2, <1>3, <1>4, <1>5, <1>6, CallerMoves, Workers

\* A program that does not wait.
LEMMA LeaveKeeps ==
  ASSUME HookTypeOK, CompilationInv, NEW c \in Users, Leave(c)
  PROVE  HookTypeOK' /\ CompilationInv'
<1> DEFINE rec == [call[c] EXCEPT !.pc = "close"]
<1>1. call[c] \in CallRec /\ CallerInv(c) /\ HoldsInv(c) /\ OpenInv(c)
  BY Workers DEF HookTypeOK, CompilationInv
<1>2. rec \in CallRec
  BY <1>1 DEF CallRec, CallPlaces, AllCodes
<1>3. UNCHANGED <<active, handle, info, obj, worker, ub>> /\ call' = [call EXCEPT ![c] = rec] /\ call'[c] = rec
  BY <1>1, Workers DEF Leave, HookTypeOK
<1>4. Holds(c) /\ rec.pc \in {"wait", "read", "close", "signal"} /\ rec.h = call[c].h /\ rec.o = call[c].o
  BY <1>1 DEF Leave, Holds, Open, CallRec
<1>5. misused \subseteq misused' /\ misused' \subseteq Objects
  BY DEF Leave, Early, HookTypeOK
<1>6. CallerInv(c)'
  <2> SUFFICES ASSUME rec.o \in Objects PROVE CallerInv(c)'
    BY <1>3 DEF CallerInv
  <2>1. info[call[c].h] = rec.o /\ call[c].h \in Handles /\ rec.o # None
    BY <1>1, <1>4, HeldIsAlive, HooksAssumption, Workers
  <2>2. SignalInv(call[c].h) /\ misused' = misused \cup Early(c)
    BY <2>1 DEF CompilationInv, Leave
  <2>3. rec.pc = "close" /\ rec.o = call[c].o /\ rec.waited = call[c].waited
    BY <1>1 DEF CallRec
  <2>4. ~call[c].waited
    BY <1>1, <1>4, <2>3 DEF CallerInv, Leave
  <2> HIDE DEF rec
  <2>5. rec.o \notin misused' /\ "stray" \notin ub => Sane(rec.o) /\ handle[call[c].h].signalled
    BY <2>2, <2>3 DEF Early, Sane
  <2>6. rec.o \notin misused' /\ "stray" \notin ub => worker[rec.o] = "done"
    BY <2>1, <2>2, <2>5 DEF SignalInv
  <2> QED
    BY <1>3, <2>3, <2>4, <2>6 DEF CallerInv, Sane
<1> HIDE DEF rec
<1> QED
  BY <1>2, <1>3, <1>4, <1>5, <1>6, CallerMoves, Workers

\* The records of callers that have no handle.
LEMMA IdleRecs ==
  /\ Idle \in CallRec /\ Idle.pc = "idle"
  /\ \A r \in AllCodes : [Idle EXCEPT !.got = r] \in CallRec /\ [Idle EXCEPT !.got = r].pc = "idle"
  /\ \A k \in Kids : /\ [Idle EXCEPT !.pc = "inject", !.o = k] \in CallRec
                    /\ [Idle EXCEPT !.pc = "inject", !.o = k].pc = "inject"
<1>1. Garbage \in AllCodes
  BY DEF AllCodes
<1>2. Idle \in CallRec
  BY <1>1 DEF CallRec, CallPlaces, Idle
<1>3. \A r \in AllCodes : [Idle EXCEPT !.got = r] \in CallRec
  BY <1>2 DEF CallRec
<1>4. \A k \in Kids : [Idle EXCEPT !.pc = "inject", !.o = k] \in CallRec
  BY <1>2 DEF CallRec, CallPlaces
<1> QED
  BY <1>2, <1>3, <1>4 DEF Idle

\* A caller without a handle: CreateProcess of a program that is no compiler.
LEMMA OtherKeeps ==
  ASSUME HookTypeOK, CompilationInv, NEW c \in Callers,
         Injected(c) \/ \E k \in Kids : c \in Users /\ CreateOther(c, k)
  PROVE  HookTypeOK' /\ CompilationInv'
<1>1. UNCHANGED <<active, handle, info, obj, worker, misused, ub>>
  BY DEF Injected, CreateOther
<1>2. PICK rec : /\ call' = [call EXCEPT ![c] = rec]
                 /\ rec = Idle \/ \E k \in Kids : rec = [Idle EXCEPT !.pc = "inject", !.o = k]
  BY DEF Injected, CreateOther
<1>3. rec \in CallRec /\ rec.pc \in {"idle", "inject"}
  BY <1>2, IdleRecs
<1>4. CallerInv(c)'
  BY <1>2, <1>3 DEF CallerInv, Holds, Open, HookTypeOK
<1>5. misused' \subseteq Objects
  BY <1>1 DEF HookTypeOK
<1> QED
  BY <1>1, <1>2, <1>3, <1>4, <1>5, CallerMoves

\* The worker thread runs.
LEMMA StartKeeps ==
  ASSUME HookTypeOK, CompilationInv, NEW o \in Objects, Start(o)
  PROVE  HookTypeOK' /\ CompilationInv'
<1>1. /\ UNCHANGED <<active, handle, info, obj, call, misused, ub>>
      /\ worker[o] = "start" /\ worker' = [worker EXCEPT ![o] = "compile"]
      /\ worker'[o] = "compile" /\ \A p \in Objects \ {o} : worker'[p] = worker[p]
      /\ \A d \in Callers : (Open(d)' <=> Open(d)) /\ (Holds(d)' <=> Holds(d))
  BY DEF Start, HookTypeOK, Open, Holds
<1>2. HookTypeOK'
  BY <1>1 DEF HookTypeOK, WorkerPlaces
<1>3. /\ TableInv /\ OwnInv
      /\ \A d \in Callers : OpenInv(d) /\ HoldsInv(d) /\ ClosingInv(d) /\ CallerInv(d)
      /\ \A p \in Objects : WorkerCallInv(p) /\ WorkerInv(p)
      /\ \A g \in Handles : SignalInv(g)
  BY DEF CompilationInv
<1>4. TableInv'
  BY <1>1, <1>3 DEF TableInv, EntriesLive
<1>5. OwnInv'
  BY <1>1, <1>3 DEF OwnInv
<1>6. ASSUME NEW d \in Callers PROVE OpenInv(d)' /\ HoldsInv(d)' /\ ClosingInv(d)' /\ CallerInv(d)'
  <2>1. OpenInv(d)'
    BY <1>1, <1>3 DEF OpenInv
  <2>2. HoldsInv(d)'
    BY <1>1, <1>3 DEF HoldsInv, Holds, Open
  <2>3. ClosingInv(d)'
    BY <1>1, <1>3 DEF ClosingInv, Open
  <2>4. CallerInv(d)'
    BY <1>1, <1>3 DEF CallerInv, Holds, Open, Sane
  <2> QED
    BY <2>1, <2>2, <2>3, <2>4
<1>7. ASSUME NEW p \in Objects PROVE WorkerCallInv(p)' /\ WorkerInv(p)'
  <2>1. WorkerCallInv(p)'
    BY <1>1, <1>3, Workers DEF WorkerCallInv
  <2>2. WorkerInv(p)'
    BY <1>1, <1>3 DEF WorkerInv, Sane
  <2> QED
    BY <2>1, <2>2
<1>8. ASSUME NEW g \in Handles PROVE SignalInv(g)'
  BY <1>1, <1>3 DEF SignalInv, Sane
<1> QED
  BY <1>2, <1>4, <1>5, <1>6, <1>7, <1>8 DEF CompilationInv

\* The caller resumes the thread.
LEMMA ResumeWorkerKeeps ==
  ASSUME HookTypeOK, CompilationInv, NEW c \in Users, ResumeWorker(c)
  PROVE  HookTypeOK' /\ CompilationInv'
<1>1. /\ UNCHANGED <<active, handle, info, obj, misused, ub>> /\ c \in Callers
      /\ call[c].pc = "suspended" /\ call[c] \in CallRec /\ Holds(c)
      /\ call' = [call EXCEPT ![c] = [call[c] EXCEPT !.pc = "wait"]]
      /\ worker' = [worker EXCEPT ![call[c].o] = "start"]
  BY Workers DEF ResumeWorker, HookTypeOK, Open, Holds
<1>2. HookTypeOK'
  BY <1>1 DEF HookTypeOK, WorkerPlaces, CallRec, CallPlaces
<1>3. /\ TableInv /\ OwnInv
      /\ \A d \in Callers : OpenInv(d) /\ HoldsInv(d) /\ ClosingInv(d) /\ CallerInv(d)
      /\ \A p \in Objects : WorkerCallInv(p) /\ WorkerInv(p)
      /\ \A g \in Handles : SignalInv(g)
  BY DEF CompilationInv
<1>a. call[c].o \in Objects /\ worker[call[c].o] = "suspended" /\ obj[call[c].o].mem = "alive"
  <2>1. call[c].o \in Objects
    BY <1>1, <1>3 DEF HoldsInv
  <2> QED
    BY <1>1, <1>3, <2>1, HeldIsAlive DEF CallerInv
<1>b. /\ worker'[call[c].o] = "start" /\ \A p \in Objects \ {call[c].o} : worker'[p] = worker[p]
      /\ call'[c].pc = "wait" /\ call'[c].h = call[c].h /\ call'[c].o = call[c].o /\ call'[c].waited = call[c].waited
      /\ \A d \in Callers \ {c} : call'[d] = call[d]
      /\ \A d \in Callers : (Open(d)' <=> Open(d)) /\ (Holds(d)' <=> Holds(d)) /\ call'[d].h = call[d].h
  BY <1>1, <1>a DEF HookTypeOK, Open, Holds, CallRec
<1>c. \A d \in Callers : Holds(d) /\ call[d].o = call[c].o => d = c
  BY <1>1, <1>a, OneHolder
<1>4. TableInv'
  BY <1>1, <1>3 DEF TableInv, EntriesLive
<1>5. OwnInv'
  BY <1>1, <1>3, <1>b DEF OwnInv
<1>6. ASSUME NEW d \in Callers PROVE OpenInv(d)' /\ HoldsInv(d)' /\ ClosingInv(d)' /\ CallerInv(d)'
  <2>1. OpenInv(d)'
    BY <1>1, <1>3, <1>b DEF OpenInv
  <2>2. HoldsInv(d)'
    BY <1>1, <1>3, <1>b DEF HoldsInv, Holds, Open
  <2>3. ClosingInv(d)'
    BY <1>1, <1>3, <1>b DEF ClosingInv, Open
  <2>4. CallerInv(d)'
    BY <1>1, <1>3, <1>a, <1>b, <1>c, HeldIsAlive, OneHolder DEF CallerInv, Holds, Open, Sane
  <2> QED
    BY <2>1, <2>2, <2>3, <2>4
<1>7. ASSUME NEW p \in Objects PROVE WorkerCallInv(p)' /\ WorkerInv(p)'
  <2>1. WorkerCallInv(p)'
    BY <1>1, <1>3, Workers, <1>a, <1>b DEF WorkerCallInv
  <2>2. WorkerInv(p)'
    BY <1>1, <1>3, <1>a, <1>b DEF WorkerInv, Sane
  <2> QED
    BY <2>1, <2>2
<1>8. ASSUME NEW g \in Handles PROVE SignalInv(g)'
  BY <1>1, <1>3, <1>a, <1>b DEF SignalInv, Sane
<1> QED
  BY <1>2, <1>4, <1>5, <1>6, <1>7, <1>8 DEF CompilationInv

\* The worker has a result, from the manager or from a fallback that failed.
LEMMA ResultKeeps ==
  ASSUME HookTypeOK, CompilationInv, NEW o \in Objects, Answered(o) \/ FallBackFails(o)
  PROVE  HookTypeOK' /\ CompilationInv'
<1>1. /\ UNCHANGED <<active, handle, info, obj, misused, ub>>
      /\ worker[o] = "compile" /\ worker' = [worker EXCEPT ![o] = "result"]
      /\ \E r \in AllCodes : call' = [call EXCEPT ![o] = [Idle EXCEPT !.got = r]]
  BY DEF Answered, FallBackFails, AllCodes
<1>2. HookTypeOK'
  BY <1>1, Workers, IdleRecs DEF HookTypeOK, WorkerPlaces
<1>3. /\ TableInv /\ OwnInv
      /\ \A d \in Callers : OpenInv(d) /\ HoldsInv(d) /\ ClosingInv(d) /\ CallerInv(d)
      /\ \A p \in Objects : WorkerCallInv(p) /\ WorkerInv(p)
      /\ \A g \in Handles : SignalInv(g)
  BY DEF CompilationInv
<1>a. call'[o].pc = "idle" /\ \A d \in Callers \ {o} : call'[d] = call[d]
  BY <1>1, Workers DEF HookTypeOK, Idle
<1>b. /\ worker'[o] = "result" /\ \A p \in Objects \ {o} : worker'[p] = worker[p]
      /\ call'[o].pc = "idle" /\ \A d \in Callers \ {o} : call'[d] = call[d]
      /\ \A d \in Callers : (Open(d)' => d # o /\ Open(d)) /\ (Holds(d)' => d # o /\ Holds(d))
  BY <1>1, <1>a DEF HookTypeOK, Open, Holds
<1>4. TableInv'
  BY <1>1, <1>3 DEF TableInv, EntriesLive
<1>5. OwnInv'
  BY <1>1, <1>3, <1>b DEF OwnInv
<1>6. ASSUME NEW d \in Callers PROVE OpenInv(d)' /\ HoldsInv(d)' /\ ClosingInv(d)' /\ CallerInv(d)'
  <2>1. OpenInv(d)'
    BY <1>1, <1>3, <1>b DEF OpenInv
  <2>2. HoldsInv(d)'
    BY <1>1, <1>3, <1>b DEF HoldsInv, Holds, Open
  <2>3. ClosingInv(d)'
    BY <1>1, <1>3, <1>b DEF ClosingInv, Open
  <2>4. CallerInv(d)'
    BY <1>1, <1>3, <1>b DEF CallerInv, Holds, Open, Sane
  <2> QED
    BY <2>1, <2>2, <2>3, <2>4
<1>7. ASSUME NEW p \in Objects PROVE WorkerCallInv(p)' /\ WorkerInv(p)'
  <2>1. WorkerCallInv(p)'
    BY <1>1, <1>3, Workers, <1>b DEF WorkerCallInv
  <2>2. WorkerInv(p)'
    BY <1>1, <1>3, <1>b DEF WorkerInv, Sane
  <2> QED
    BY <2>1, <2>2
<1>8. ASSUME NEW g \in Handles PROVE SignalInv(g)'
  BY <1>1, <1>3, <1>b DEF SignalInv, Sane
<1> QED
  BY <1>2, <1>4, <1>5, <1>6, <1>7, <1>8 DEF CompilationInv

\* complete() keeps the types.
LEMMA CompletedType ==
  ASSUME HookTypeOK, NEW o \in Objects, NEW r \in AllCodes PROVE Completed(o, r) \in [Objects -> ObjectRec]
<1>1. obj \in [Objects -> ObjectRec] /\ obj[o] \in ObjectRec
  BY DEF HookTypeOK
<1>2. [obj[o] EXCEPT !.completed = TRUE, !.exit = r, !.params = FALSE] \in ObjectRec
  BY <1>1 DEF ObjectRec
<1> QED
  BY <1>1, <1>2 DEF Completed

\* The result is stored, unless there is one.
LEMMA CompleteKeeps ==
  ASSUME HookTypeOK, CompilationInv, NEW o \in Objects, Complete(o)
  PROVE  HookTypeOK' /\ CompilationInv'
<1>1. /\ UNCHANGED <<active, handle, info, misused, ub>>
      /\ worker[o] = "result" /\ obj[o].mem = "alive"
      /\ worker' = [worker EXCEPT ![o] = IF obj[o].completed THEN "done" ELSE "unlocked"]
      /\ obj' = Completed(o, call[o].got)
      /\ call' = [call EXCEPT ![o] = Idle]
  BY DEF Complete, Usable
<1>2. HookTypeOK'
  <2>1. call[o].got \in AllCodes
    BY Workers DEF HookTypeOK, CallRec
  <2>2. obj' \in [Objects -> ObjectRec]
    BY <1>1, <2>1, CompletedType
  <2> QED
    BY <1>1, <2>2, Workers, IdleRecs DEF HookTypeOK, WorkerPlaces
<1>3. /\ TableInv /\ OwnInv
      /\ \A d \in Callers : OpenInv(d) /\ HoldsInv(d) /\ ClosingInv(d) /\ CallerInv(d)
      /\ \A p \in Objects : WorkerCallInv(p) /\ WorkerInv(p)
      /\ \A g \in Handles : SignalInv(g)
  BY DEF CompilationInv
<1>a. call'[o].pc = "idle" /\ \A d \in Callers \ {o} : call'[d] = call[d]
  BY <1>1, Workers DEF HookTypeOK, Idle
<1>b. /\ UNCHANGED <<active, handle, info, misused, ub>> /\ worker[o] = "result" /\ obj[o].mem = "alive"
      /\ worker'[o] \in {"done", "unlocked"} /\ \A p \in Objects \ {o} : worker'[p] = worker[p]
      /\ \A d \in Callers \ {o} : call'[d] = call[d]
      /\ \A d \in Callers : (Open(d)' => d # o /\ Open(d)) /\ (Holds(d)' => d # o /\ Holds(d))
  BY <1>1, <1>a DEF HookTypeOK, Open, Holds, Completed, ObjectRec
<1>c. \A p \in Objects : obj'[p].mem = obj[p].mem /\ obj'[p].h = obj[p].h
  BY <1>1 DEF HookTypeOK, Completed, ObjectRec
<1>d. /\ obj'[o].completed /\ \A p \in Objects \ {o} : obj'[p] = obj[p]
      /\ \A p \in Objects : obj[p].completed => obj'[p].completed /\ obj'[p].exit = obj[p].exit
  BY <1>1 DEF HookTypeOK, Completed, ObjectRec
<1>e. \A g \in Handles : info[g] \in Objects \cup {None}
  BY DEF HookTypeOK
<1>4. TableInv'
  BY <1>3, <1>b, <1>c, <1>e DEF TableInv, EntriesLive
<1>5. OwnInv'
  BY <1>3, <1>b DEF OwnInv
<1>6. ASSUME NEW d \in Callers PROVE OpenInv(d)' /\ HoldsInv(d)' /\ ClosingInv(d)' /\ CallerInv(d)'
  <2>1. OpenInv(d)'
    BY <1>3, <1>b DEF OpenInv
  <2>2. HoldsInv(d)'
    BY <1>3, <1>b DEF HoldsInv, Holds, Open
  <2>3. ClosingInv(d)'
    BY <1>3, <1>b DEF ClosingInv, Open
  <2>4. CallerInv(d)'
    BY <1>3, <1>b, <1>d DEF CallerInv, Holds, Open, Sane
  <2> QED
    BY <2>1, <2>2, <2>3, <2>4
<1>7. ASSUME NEW p \in Objects PROVE WorkerCallInv(p)' /\ WorkerInv(p)'
  <2>1. WorkerCallInv(p)'
    BY <1>3, <1>b, Workers DEF WorkerCallInv
  <2>2. WorkerInv(p)'
    BY <1>3, <1>b, <1>c, <1>d DEF WorkerInv, Sane
  <2> QED
    BY <2>1, <2>2
<1>8. ASSUME NEW g \in Handles PROVE SignalInv(g)'
  BY <1>3, <1>b, <1>d, <1>e DEF SignalInv, Sane
<1> QED
  BY <1>2, <1>4, <1>5, <1>6, <1>7, <1>8 DEF CompilationInv

\* A handle is signalled.
LEMMA SignalledFacts ==
  ASSUME HookTypeOK, NEW h \in Handles, handle' = [handle EXCEPT ![h].signalled = TRUE]
  PROVE  /\ handle' \in [Handles -> HandleRec] /\ handle'[h].signalled
         /\ \A g \in Handles \ {h} : handle'[g] = handle[g]
         /\ \A g \in Handles : handle'[g].kind = handle[g].kind /\ (handle[g].signalled => handle'[g].signalled)
<1>1. handle[h] \in HandleRec /\ handle \in [Handles -> HandleRec]
  BY DEF HookTypeOK
<1>2. /\ [handle[h] EXCEPT !.signalled = TRUE] \in HandleRec
      /\ handle' = [handle EXCEPT ![h] = [handle[h] EXCEPT !.signalled = TRUE]]
  BY <1>1 DEF HandleRec
<1> QED
  BY <1>1, <1>2 DEF HandleRec

\* The event is set behind the result.
LEMMA SetDoneKeeps ==
  ASSUME HookTypeOK, CompilationInv, NEW o \in Objects, SetDone(o)
  PROVE  HookTypeOK' /\ CompilationInv'
<1>1. /\ UNCHANGED <<active, info, obj, call, misused, ub>>
      /\ worker[o] = "unlocked" /\ obj[o].mem = "alive" /\ worker' = [worker EXCEPT ![o] = "done"]
      /\ handle' = [handle EXCEPT ![obj[o].h].signalled = TRUE]
      /\ obj[o].h \in Handles /\ info[obj[o].h] = o
  BY DEF SetDone, Usable, CompilationInv, TableInv
<1>2. HookTypeOK'
  BY <1>1, SignalledFacts DEF HookTypeOK, WorkerPlaces
<1>3. /\ TableInv /\ OwnInv
      /\ \A d \in Callers : OpenInv(d) /\ HoldsInv(d) /\ ClosingInv(d) /\ CallerInv(d)
      /\ \A p \in Objects : WorkerCallInv(p) /\ WorkerInv(p)
      /\ \A g \in Handles : SignalInv(g)
  BY DEF CompilationInv
<1>b. /\ UNCHANGED <<active, info, obj, call, misused, ub>> /\ worker[o] = "unlocked" /\ obj[o].mem = "alive"
      /\ worker'[o] = "done" /\ \A p \in Objects \ {o} : worker'[p] = worker[p]
      /\ \A d \in Callers : (Open(d)' <=> Open(d)) /\ (Holds(d)' <=> Holds(d))
      /\ \A g \in Handles \ {obj[o].h} : handle'[g] = handle[g]
      /\ \A g \in Handles : handle'[g].kind = handle[g].kind /\ (handle[g].signalled => handle'[g].signalled)
  BY <1>1, SignalledFacts DEF HookTypeOK, Open, Holds
<1>c. info[obj[o].h] = o /\ obj[o].completed /\ \A g \in Handles : info[g] \in Objects \cup {None}
  BY <1>1, <1>3 DEF WorkerInv, HookTypeOK
<1>4. TableInv'
  BY <1>3, <1>b DEF TableInv, EntriesLive
<1>5. OwnInv'
  BY <1>3, <1>b DEF OwnInv
<1>6. ASSUME NEW d \in Callers PROVE OpenInv(d)' /\ HoldsInv(d)' /\ ClosingInv(d)' /\ CallerInv(d)'
  <2>1. OpenInv(d)'
    BY <1>3, <1>b DEF OpenInv
  <2>2. HoldsInv(d)'
    BY <1>3, <1>b DEF HoldsInv, OpenInv, Holds, Open
  <2>3. ClosingInv(d)'
    BY <1>3, <1>b DEF ClosingInv, Open
  <2>4. CallerInv(d)'
    BY <1>3, <1>b DEF CallerInv, OpenInv, Holds, Open, Sane
  <2> QED
    BY <2>1, <2>2, <2>3, <2>4
<1>7. ASSUME NEW p \in Objects PROVE WorkerCallInv(p)' /\ WorkerInv(p)'
  <2>1. WorkerCallInv(p)'
    BY <1>3, <1>b, Workers DEF WorkerCallInv
  <2>2. WorkerInv(p)'
    BY <1>3, <1>b DEF WorkerInv, Sane
  <2> QED
    BY <2>1, <2>2
<1>8. ASSUME NEW g \in Handles PROVE SignalInv(g)'
  BY <1>3, <1>b, <1>c DEF SignalInv, Sane
<1> QED
  BY <1>2, <1>4, <1>5, <1>6, <1>7, <1>8 DEF CompilationInv

\* A worker uses an object that is gone.
LEMMA DanglingKeeps ==
  ASSUME HookTypeOK, CompilationInv, NEW o \in Objects, Dangling(o)
  PROVE  HookTypeOK' /\ CompilationInv'
<1>1. /\ UNCHANGED <<active, info, obj, misused>> /\ worker[o] \in {"start", "compile", "result", "unlocked"}
      /\ worker' = [worker EXCEPT ![o] = "done"] /\ call' = [call EXCEPT ![o] = Idle]
      /\ ub \subseteq ub' /\ obj[o].h \in Handles
      /\ \/ UNCHANGED handle
         \/ "stray" \in ub' /\ handle' = [handle EXCEPT ![obj[o].h].signalled = TRUE]
  BY DEF Dangling, CompilationInv, WorkerInv
<1>2. HookTypeOK'
  BY <1>1, SignalledFacts, IdleRecs, Workers DEF HookTypeOK, WorkerPlaces
<1>3. /\ TableInv /\ OwnInv
      /\ \A d \in Callers : OpenInv(d) /\ HoldsInv(d) /\ ClosingInv(d) /\ CallerInv(d)
      /\ \A p \in Objects : WorkerCallInv(p) /\ WorkerInv(p)
      /\ \A g \in Handles : SignalInv(g)
  BY DEF CompilationInv
<1>b. /\ UNCHANGED <<active, info, obj, misused>> /\ worker[o] \in {"start", "compile", "result", "unlocked"}
      /\ ub \subseteq ub'
      /\ worker'[o] = "done" /\ \A p \in Objects \ {o} : worker'[p] = worker[p]
      /\ \A d \in Callers \ {o} : call'[d] = call[d]
      /\ \A d \in Callers : (Open(d)' => d # o /\ Open(d)) /\ (Holds(d)' => d # o /\ Holds(d))
      /\ call'[o].pc = "idle"
      /\ \A g \in Handles : handle'[g].kind = handle[g].kind /\ (handle[g].signalled => handle'[g].signalled)
  BY <1>1, SignalledFacts, IdleRecs, Workers DEF HookTypeOK, Open, Holds
<1>c. /\ "stray" \in ub' \/ handle' = handle
      /\ \A g \in Handles : info[g] \in Objects \cup {None}
  BY <1>1 DEF HookTypeOK
<1>4. TableInv'
  BY <1>3, <1>b DEF TableInv, EntriesLive
<1>5. OwnInv'
  BY <1>3, <1>b DEF OwnInv
<1>6. ASSUME NEW d \in Callers PROVE OpenInv(d)' /\ HoldsInv(d)' /\ ClosingInv(d)' /\ CallerInv(d)'
  <2>1. OpenInv(d)'
    BY <1>3, <1>b DEF OpenInv
  <2>2. HoldsInv(d)'
    BY <1>3, <1>b DEF HoldsInv, OpenInv, Holds, Open
  <2>3. ClosingInv(d)'
    BY <1>3, <1>b DEF ClosingInv, Open
  <2>4. CallerInv(d)'
    BY <1>3, <1>b DEF CallerInv, OpenInv, Holds, Open, Sane
  <2> QED
    BY <2>1, <2>2, <2>3, <2>4
<1>7. ASSUME NEW p \in Objects PROVE WorkerCallInv(p)' /\ WorkerInv(p)'
  <2>1. WorkerCallInv(p)'
    BY <1>3, <1>b, Workers DEF WorkerCallInv
  <2>2. WorkerInv(p)'
    BY <1>3, <1>b DEF WorkerInv, Sane
  <2> QED
    BY <2>1, <2>2
<1>8. ASSUME NEW g \in Handles PROVE SignalInv(g)'
  BY <1>3, <1>b, <1>c DEF SignalInv, Sane
<1> QED
  BY <1>2, <1>4, <1>5, <1>6, <1>7, <1>8 DEF CompilationInv

\* A process that is no compilation ends.
LEMMA ProcessEndsKeeps ==
  ASSUME HookTypeOK, CompilationInv, NEW h \in Handles, ProcessEnds(h)
  PROVE  HookTypeOK' /\ CompilationInv'
<1>1. /\ UNCHANGED <<active, info, obj, worker, call, misused, ub>> /\ handle[h].kind = "process"
      /\ \E r \in Codes : handle' = [handle EXCEPT ![h] = [handle[h] EXCEPT !.signalled = TRUE, !.code = r]]
  BY DEF ProcessEnds, HookTypeOK, HandleRec
<1>2. HookTypeOK'
  <2>1. handle[h] \in HandleRec
    BY DEF HookTypeOK
  <2>2. \A r \in Codes : [handle[h] EXCEPT !.signalled = TRUE, !.code = r] \in HandleRec
    BY <2>1 DEF HandleRec, AllCodes
  <2> QED
    BY <1>1, <2>2 DEF HookTypeOK
<1>3. /\ TableInv /\ OwnInv
      /\ \A d \in Callers : OpenInv(d) /\ HoldsInv(d) /\ ClosingInv(d) /\ CallerInv(d)
      /\ \A p \in Objects : WorkerCallInv(p) /\ WorkerInv(p)
      /\ \A g \in Handles : SignalInv(g)
  BY DEF CompilationInv
<1>b. /\ UNCHANGED <<active, info, obj, worker, call, misused, ub>>
      /\ \A d \in Callers : (Open(d)' <=> Open(d)) /\ (Holds(d)' <=> Holds(d))
      /\ \A g \in Handles : handle'[g].kind = handle[g].kind /\ (handle[g].signalled => handle'[g].signalled)
  BY <1>1 DEF HookTypeOK, Open, Holds, HandleRec
<1>c. info[h] = None /\ \A g \in Handles \ {h} : handle'[g] = handle[g]
  BY <1>1, <1>3 DEF TableInv, EntriesLive, HookTypeOK
<1>4. TableInv'
  BY <1>3, <1>b DEF TableInv, EntriesLive
<1>5. OwnInv'
  BY <1>3, <1>b DEF OwnInv
<1>6. ASSUME NEW d \in Callers PROVE OpenInv(d)' /\ HoldsInv(d)' /\ ClosingInv(d)' /\ CallerInv(d)'
  <2>1. OpenInv(d)'
    BY <1>3, <1>b DEF OpenInv
  <2>2. HoldsInv(d)'
    BY <1>3, <1>b DEF HoldsInv, OpenInv, Holds, Open
  <2>3. ClosingInv(d)'
    BY <1>3, <1>b DEF ClosingInv, Open
  <2>4. CallerInv(d)'
    BY <1>3, <1>b DEF CallerInv, OpenInv, Holds, Open, Sane
  <2> QED
    BY <2>1, <2>2, <2>3, <2>4
<1>7. ASSUME NEW p \in Objects PROVE WorkerCallInv(p)' /\ WorkerInv(p)'
  <2>1. WorkerCallInv(p)'
    BY <1>3, <1>b, Workers DEF WorkerCallInv
  <2>2. WorkerInv(p)'
    BY <1>3, <1>b DEF WorkerInv, Sane
  <2> QED
    BY <2>1, <2>2
<1>8. ASSUME NEW g \in Handles PROVE SignalInv(g)'
  BY <1>3, <1>b, <1>c DEF SignalInv, Sane
<1> QED
  BY <1>2, <1>4, <1>5, <1>6, <1>7, <1>8 DEF CompilationInv

\* The event of a terminated compilation is set.
LEMMA SignalTerminatedKeeps ==
  ASSUME HookTypeOK, CompilationInv, NEW c \in Callers, SignalTerminated(c)
  PROVE  HookTypeOK' /\ CompilationInv'
<1>1. /\ UNCHANGED <<active, info, obj, worker, misused, ub>>
      /\ call[c].pc = "signal" /\ call[c] \in CallRec /\ Holds(c)
      /\ handle' = [handle EXCEPT ![call[c].h].signalled = TRUE] /\ call[c].h \in Handles
      /\ call' = [call EXCEPT ![c] = [call[c] EXCEPT !.pc = "wait"]]
  BY DEF SignalTerminated, HookTypeOK, CompilationInv, OpenInv, Open, Holds
<1>2. HookTypeOK'
  <2>1. [call[c] EXCEPT !.pc = "wait"] \in CallRec
    BY <1>1 DEF CallRec, CallPlaces
  <2> QED
    BY <1>1, <2>1, SignalledFacts DEF HookTypeOK
<1>3. /\ TableInv /\ OwnInv
      /\ \A d \in Callers : OpenInv(d) /\ HoldsInv(d) /\ ClosingInv(d) /\ CallerInv(d)
      /\ \A p \in Objects : WorkerCallInv(p) /\ WorkerInv(p)
      /\ \A g \in Handles : SignalInv(g)
  BY DEF CompilationInv
<1>b. /\ UNCHANGED <<active, info, obj, worker, misused, ub>> /\ call[c].pc = "signal" /\ Holds(c)
      /\ \A d \in Callers \ {c} : call'[d] = call[d]
      /\ call'[c].pc = "wait" /\ call'[c].o = call[c].o /\ call'[c].waited = call[c].waited
      /\ \A d \in Callers : (Open(d)' <=> Open(d)) /\ (Holds(d)' <=> Holds(d)) /\ call'[d].h = call[d].h
      /\ \A g \in Handles : handle'[g].kind = handle[g].kind /\ (handle[g].signalled => handle'[g].signalled)
  BY <1>1, SignalledFacts DEF HookTypeOK, Open, Holds, CallRec
<1>c. /\ \A g \in Handles \ {call[c].h} : handle'[g] = handle[g]
      /\ \A g \in Handles : info[g] \in Objects \cup {None}
      /\ info[call[c].h] # None => info[call[c].h] \in misused /\ obj[info[call[c].h]].completed
  <2>1. \A g \in Handles : info[g] \in Objects \cup {None}
    BY DEF HookTypeOK
  <2>2. info[call[c].h] # None => call[c].o \in Objects /\ info[call[c].h] = call[c].o
    BY <1>1, <1>3 DEF HoldsInv
  <2>3. call[c].o \in Objects => call[c].o \in misused /\ obj[call[c].o].completed
    BY <1>1, <1>3 DEF CallerInv
  <2> QED
    BY <1>1, <2>1, <2>2, <2>3, SignalledFacts
<1>4. TableInv'
  BY <1>3, <1>b DEF TableInv, EntriesLive
<1>5. OwnInv'
  BY <1>3, <1>b DEF OwnInv
<1>6. ASSUME NEW d \in Callers PROVE OpenInv(d)' /\ HoldsInv(d)' /\ ClosingInv(d)' /\ CallerInv(d)'
  <2>1. OpenInv(d)'
    BY <1>3, <1>b DEF OpenInv
  <2>2. HoldsInv(d)'
    BY <1>3, <1>b DEF HoldsInv, OpenInv, Holds, Open
  <2>3. ClosingInv(d)'
    BY <1>3, <1>b DEF ClosingInv, Open
  <2>4. CallerInv(d)'
    BY <1>3, <1>b, <1>c, HeldIsAlive DEF CallerInv, OpenInv, Holds, Open, Sane
  <2> QED
    BY <2>1, <2>2, <2>3, <2>4
<1>7. ASSUME NEW p \in Objects PROVE WorkerCallInv(p)' /\ WorkerInv(p)'
  <2>1. WorkerCallInv(p)'
    BY <1>3, <1>b, Workers DEF WorkerCallInv
  <2>2. WorkerInv(p)'
    BY <1>3, <1>b DEF WorkerInv, Sane
  <2> QED
    BY <2>1, <2>2
<1>8. ASSUME NEW g \in Handles PROVE SignalInv(g)'
  BY <1>3, <1>b, <1>c DEF SignalInv, Sane
<1> QED
  BY <1>2, <1>4, <1>5, <1>6, <1>7, <1>8 DEF CompilationInv

\* TerminateProcess completes a compilation.
LEMMA TerminateCompilationKeeps ==
  ASSUME HookTypeOK, CompilationInv, NEW c \in Users, Terminate(c), info[call[c].h] # None
  PROVE  HookTypeOK' /\ CompilationInv'
<1>1. /\ UNCHANGED <<active, handle, info, worker, ub>> /\ call[c].pc = "wait" /\ c \in Callers
      /\ call[c] \in CallRec /\ Holds(c) /\ call[c].h \in Handles
      /\ misused' = misused \cup {info[call[c].h]} /\ info[call[c].h] \in Objects
      /\ call' = [call EXCEPT ![c] = [call[c] EXCEPT !.pc = "signal"]]
      /\ \E r \in Codes : obj' = Completed(info[call[c].h], r)
  <2>1. call[c].pc = "wait" /\ c \in Callers /\ call[c] \in CallRec /\ Holds(c)
    BY Workers DEF Terminate, HookTypeOK, Open, Holds
  <2>2. active /\ call[c].h \in Handles /\ info[call[c].h] \in Objects
    BY <2>1 DEF CompilationInv, OpenInv, Holds, HookTypeOK
  <2> QED
    BY <2>1, <2>2 DEF Terminate, HookTypeOK
<1>2. HookTypeOK'
  <2>1. [call[c] EXCEPT !.pc = "signal"] \in CallRec
    BY <1>1 DEF CallRec, CallPlaces
  <2>2. obj' \in [Objects -> ObjectRec]
    BY <1>1, CompletedType DEF AllCodes
  <2> QED
    BY <1>1, <2>1, <2>2 DEF HookTypeOK
<1>3. /\ TableInv /\ OwnInv
      /\ \A d \in Callers : OpenInv(d) /\ HoldsInv(d) /\ ClosingInv(d) /\ CallerInv(d)
      /\ \A p \in Objects : WorkerCallInv(p) /\ WorkerInv(p)
      /\ \A g \in Handles : SignalInv(g)
  BY DEF CompilationInv
<1>a. PICK o \in Objects : o = info[call[c].h] /\ o = call[c].o
  BY <1>1, <1>3 DEF HoldsInv
<1>b. /\ UNCHANGED <<active, handle, info, worker, ub>> /\ misused' = misused \cup {o} /\ Holds(c)
      /\ call[c].pc = "wait" /\ \A d \in Callers \ {c} : call'[d] = call[d]
      /\ call'[c].pc = "signal" /\ call'[c].o = o /\ call[c].o = o /\ call'[c].waited = call[c].waited
      /\ \A d \in Callers : (Open(d)' <=> Open(d)) /\ (Holds(d)' <=> Holds(d)) /\ call'[d].h = call[d].h
  BY <1>1, <1>a DEF HookTypeOK, Open, Holds, CallRec
<1>c. \A p \in Objects : obj'[p].mem = obj[p].mem /\ obj'[p].h = obj[p].h
  BY <1>1 DEF HookTypeOK, Completed, ObjectRec
<1>d. /\ obj'[o].completed /\ \A p \in Objects \ {o} : obj'[p] = obj[p]
      /\ \A p \in Objects : obj[p].completed => obj'[p].completed /\ obj'[p].exit = obj[p].exit
  BY <1>1, <1>a DEF HookTypeOK, Completed, ObjectRec
<1>e. \A g \in Handles : info[g] \in Objects \cup {None}
  BY DEF HookTypeOK
<1>4. TableInv'
  BY <1>3, <1>b, <1>c, <1>e DEF TableInv, EntriesLive
<1>5. OwnInv'
  BY <1>3, <1>b DEF OwnInv
<1>6. ASSUME NEW d \in Callers PROVE OpenInv(d)' /\ HoldsInv(d)' /\ ClosingInv(d)' /\ CallerInv(d)'
  <2>1. OpenInv(d)'
    BY <1>3, <1>b DEF OpenInv
  <2>2. HoldsInv(d)'
    BY <1>3, <1>b DEF HoldsInv, OpenInv, Holds, Open
  <2>3. ClosingInv(d)'
    BY <1>3, <1>b DEF ClosingInv, Open
  <2>4. CallerInv(d)'
    BY <1>3, <1>b, <1>d DEF CallerInv, OpenInv, Holds, Open, Sane
  <2> QED
    BY <2>1, <2>2, <2>3, <2>4
<1>7. ASSUME NEW p \in Objects PROVE WorkerCallInv(p)' /\ WorkerInv(p)'
  <2>1. WorkerCallInv(p)'
    BY <1>3, <1>b, Workers DEF WorkerCallInv
  <2>2. WorkerInv(p)'
    BY <1>3, <1>b, <1>c, <1>d DEF WorkerInv, Sane
  <2> QED
    BY <2>1, <2>2
<1>8. ASSUME NEW g \in Handles PROVE SignalInv(g)'
  BY <1>3, <1>b, <1>d, <1>e DEF SignalInv, Sane
<1> QED
  BY <1>2, <1>4, <1>5, <1>6, <1>7, <1>8 DEF CompilationInv

\* TerminateProcess of another process.
LEMMA TerminateProcessKeeps ==
  ASSUME HookTypeOK, CompilationInv, NEW c \in Users, Terminate(c), info[call[c].h] = None
  PROVE  HookTypeOK' /\ CompilationInv'
<1>1. /\ UNCHANGED <<active, info, obj, worker, call, misused, ub>> /\ call[c].h \in Handles
      /\ \E r \in Codes : handle' = [handle EXCEPT ![call[c].h] =
                            IF @.signalled THEN @ ELSE [@ EXCEPT !.signalled = TRUE, !.code = r]]
  <2>1. c \in Callers /\ Open(c)
    BY Workers DEF Terminate, Open
  <2> QED
    BY <2>1 DEF Terminate, CompilationInv, OpenInv
<1>2. HookTypeOK'
  <2>1. handle[call[c].h] \in HandleRec
    BY <1>1 DEF HookTypeOK
  <2>2. \A r \in Codes : [handle[call[c].h] EXCEPT !.signalled = TRUE, !.code = r] \in HandleRec
    BY <2>1 DEF HandleRec, AllCodes
  <2> QED
    BY <1>1, <2>1, <2>2 DEF HookTypeOK
<1>3. /\ TableInv /\ OwnInv
      /\ \A d \in Callers : OpenInv(d) /\ HoldsInv(d) /\ ClosingInv(d) /\ CallerInv(d)
      /\ \A p \in Objects : WorkerCallInv(p) /\ WorkerInv(p)
      /\ \A g \in Handles : SignalInv(g)
  BY DEF CompilationInv
<1>b. /\ UNCHANGED <<active, info, obj, worker, call, misused, ub>>
      /\ \A d \in Callers : (Open(d)' <=> Open(d)) /\ (Holds(d)' <=> Holds(d))
      /\ \A g \in Handles : handle'[g].kind = handle[g].kind /\ (handle[g].signalled => handle'[g].signalled)
  BY <1>1 DEF HookTypeOK, Open, Holds, HandleRec
<1>c. info[call[c].h] = None /\ \A g \in Handles \ {call[c].h} : handle'[g] = handle[g]
  BY <1>1 DEF HookTypeOK
<1>4. TableInv'
  BY <1>3, <1>b DEF TableInv, EntriesLive
<1>5. OwnInv'
  BY <1>3, <1>b DEF OwnInv
<1>6. ASSUME NEW d \in Callers PROVE OpenInv(d)' /\ HoldsInv(d)' /\ ClosingInv(d)' /\ CallerInv(d)'
  <2>1. OpenInv(d)'
    BY <1>3, <1>b DEF OpenInv
  <2>2. HoldsInv(d)'
    BY <1>3, <1>b DEF HoldsInv, OpenInv, Holds, Open
  <2>3. ClosingInv(d)'
    BY <1>3, <1>b DEF ClosingInv, Open
  <2>4. CallerInv(d)'
    BY <1>3, <1>b DEF CallerInv, OpenInv, Holds, Open, Sane
  <2> QED
    BY <2>1, <2>2, <2>3, <2>4
<1>7. ASSUME NEW p \in Objects PROVE WorkerCallInv(p)' /\ WorkerInv(p)'
  <2>1. WorkerCallInv(p)'
    BY <1>3, <1>b, Workers DEF WorkerCallInv
  <2>2. WorkerInv(p)'
    BY <1>3, <1>b DEF WorkerInv, Sane
  <2> QED
    BY <2>1, <2>2
<1>8. ASSUME NEW g \in Handles PROVE SignalInv(g)'
  BY <1>3, <1>b, <1>c DEF SignalInv, Sane
<1> QED
  BY <1>2, <1>4, <1>5, <1>6, <1>7, <1>8 DEF CompilationInv

\* CloseHandle takes the compilation out of the table.
LEMMA EraseEntryKeeps ==
  ASSUME HookTypeOK, CompilationInv, NEW c \in Callers, EraseEntry(c)
  PROVE  HookTypeOK' /\ CompilationInv'
<1>1. /\ UNCHANGED <<active, handle, worker, misused, ub>> /\ call[c].pc = "close" /\ Holds(c)
      /\ call[c] \in CallRec /\ call[c].h \in Handles
      /\ call' = [call EXCEPT ![c] = [call[c] EXCEPT !.pc = "closing"]]
      /\ \/ info[call[c].h] = None /\ UNCHANGED <<obj, info>>
         \/ /\ info[call[c].h] \in Objects /\ info' = [info EXCEPT ![call[c].h] = None]
            /\ obj' = [obj EXCEPT ![info[call[c].h]] =
                                    [obj[info[call[c].h]] EXCEPT !.mem = "freed", !.params = FALSE]]
  <2>1. call[c].pc = "close" /\ Holds(c) /\ call[c] \in CallRec
    BY DEF EraseEntry, HookTypeOK, Holds, Open
  <2>2. active /\ call[c].h \in Handles /\ info[call[c].h] \in Objects \cup {None}
    BY <2>1 DEF CompilationInv, OpenInv, Holds, HookTypeOK
  <2> QED
    BY <2>1, <2>2 DEF EraseEntry, HookTypeOK, ObjectRec
<1>2. HookTypeOK'
  <2>1. [call[c] EXCEPT !.pc = "closing"] \in CallRec
    BY <1>1 DEF CallRec, CallPlaces
  <2>2. \A p \in Objects : [obj[p] EXCEPT !.mem = "freed", !.params = FALSE] \in ObjectRec
    BY DEF HookTypeOK, ObjectRec
  <2> QED
    BY <1>1, <2>1, <2>2 DEF HookTypeOK
<1>3. /\ TableInv /\ OwnInv
      /\ \A d \in Callers : OpenInv(d) /\ HoldsInv(d) /\ ClosingInv(d) /\ CallerInv(d)
      /\ \A p \in Objects : WorkerCallInv(p) /\ WorkerInv(p)
      /\ \A g \in Handles : SignalInv(g)
  BY DEF CompilationInv
<1>b. /\ UNCHANGED <<active, handle, worker, misused, ub>> /\ Holds(c) /\ call[c].pc = "close"
      /\ \A d \in Callers \ {c} : call'[d] = call[d]
      /\ call'[c].pc = "closing"
      /\ \A d \in Callers : (Open(d)' <=> Open(d)) /\ (Holds(d)' => d # c /\ Holds(d)) /\ call'[d].h = call[d].h
  BY <1>1 DEF HookTypeOK, Open, Holds, CallRec
<1>c. /\ info'[call[c].h] = None /\ \A g \in Handles \ {call[c].h} : info'[g] = info[g]
      /\ \A p \in Objects : /\ obj'[p].h = obj[p].h /\ obj'[p].completed = obj[p].completed
                             /\ obj'[p].exit = obj[p].exit
      /\ \A p \in Objects : p # info[call[c].h] => obj'[p] = obj[p]
      /\ \A p \in Objects : p = info[call[c].h] => obj'[p].mem = "freed"
  <2>1. CASE info[call[c].h] = None
    BY <1>1, <2>1, HooksAssumption DEF HookTypeOK
  <2>2. CASE info[call[c].h] # None
    <3>1. /\ info[call[c].h] \in Objects /\ info' = [info EXCEPT ![call[c].h] = None]
          /\ obj' = [obj EXCEPT ![info[call[c].h]] = [obj[info[call[c].h]] EXCEPT !.mem = "freed", !.params = FALSE]]
      BY <1>1, <2>2
    <3>2. obj \in [Objects -> ObjectRec] /\ info \in [Handles -> Objects \cup {None}]
      BY DEF HookTypeOK
    <3> QED
      BY <1>1, <3>1, <3>2 DEF ObjectRec
  <2> QED
    BY <2>1, <2>2
<1>d. \A d \in Callers \ {c} : Open(d) => call[d].h \in Handles \ {call[c].h}
  BY <1>1, <1>3 DEF OwnInv, OpenInv, Holds
<1>e. \A g \in Handles : info[g] \in Objects \cup {None}
  BY DEF HookTypeOK
<1>f. \A p \in Objects : p = info[call[c].h] /\ Sane(p) => worker[p] = "done"
  BY <1>1, <1>3, HooksAssumption DEF CallerInv, HoldsInv
<1>g. \A p \in Objects : obj[p].mem = "none" => p # info[call[c].h]
  BY <1>1, <1>3, HooksAssumption DEF TableInv, EntriesLive
<1>h. \A g \in Handles \ {call[c].h} : info[g] # None => info[g] # info[call[c].h]
  BY <1>1, <1>3 DEF TableInv, EntriesLive
<1>4. TableInv'
  BY <1>3, <1>b, <1>c, <1>e, <1>h DEF TableInv, EntriesLive
<1>5. OwnInv'
  BY <1>3, <1>b DEF OwnInv
<1>6. ASSUME NEW d \in Callers PROVE OpenInv(d)' /\ HoldsInv(d)' /\ ClosingInv(d)' /\ CallerInv(d)'
  <2>1. OpenInv(d)'
    BY <1>3, <1>b DEF OpenInv
  <2>2. HoldsInv(d)'
    BY <1>3, <1>b, <1>c, <1>d DEF HoldsInv, OpenInv, Holds, Open
  <2>3. ClosingInv(d)'
    BY <1>3, <1>b, <1>c, <1>d DEF ClosingInv, Open
  <2>4. CallerInv(d)'
    BY <1>3, <1>b, <1>c DEF CallerInv, OpenInv, Holds, Open, Sane
  <2> QED
    BY <2>1, <2>2, <2>3, <2>4
<1>7. ASSUME NEW p \in Objects PROVE WorkerCallInv(p)' /\ WorkerInv(p)'
  <2>1. WorkerCallInv(p)'
    BY <1>3, <1>b, Workers DEF WorkerCallInv
  <2>2. WorkerInv(p)'
    BY <1>3, <1>b, <1>c, <1>f, <1>g DEF WorkerInv, Sane
  <2> QED
    BY <2>1, <2>2
<1>8. ASSUME NEW g \in Handles PROVE SignalInv(g)'
  BY <1>3, <1>b, <1>c, <1>e DEF SignalInv, Sane
<1> QED
  BY <1>2, <1>4, <1>5, <1>6, <1>7, <1>8 DEF CompilationInv

\* The handle is closed; a worker has the result of its fallback.
LEMMA CloseHandleKeeps ==
  ASSUME HookTypeOK, CompilationInv, NEW c \in Callers, CloseHandle(c)
  PROVE  HookTypeOK' /\ CompilationInv'
<1>1. /\ UNCHANGED <<active, info, obj, misused, ub>> /\ call[c].pc = "closing" /\ Open(c)
      /\ call[c] \in CallRec /\ call[c].h \in Handles /\ info[call[c].h] = None
      /\ handle' = [handle EXCEPT ![call[c].h] = FreeHandle]
      /\ \E r \in AllCodes : call' = [call EXCEPT ![c] = IF c \in Users THEN Idle ELSE [Idle EXCEPT !.got = r]]
      /\ worker' = IF c \in Users THEN worker ELSE [worker EXCEPT ![c] = "result"]
  <2>1. call[c].pc = "closing" /\ Open(c) /\ call[c] \in CallRec
    BY DEF CloseHandle, HookTypeOK, Open
  <2>2. call[c].h \in Handles /\ info[call[c].h] = None /\ call[c].got \in AllCodes
    BY <2>1 DEF CompilationInv, OpenInv, ClosingInv, CallRec
  <2> QED
    BY <2>1, <2>2 DEF CloseHandle
<1>2. HookTypeOK'
  <2>1. FreeHandle \in HandleRec
    BY DEF FreeHandle, HandleRec, AllCodes
  <2> QED
    BY <1>1, <2>1, IdleRecs DEF HookTypeOK, WorkerPlaces
<1>3. /\ TableInv /\ OwnInv
      /\ \A d \in Callers : OpenInv(d) /\ HoldsInv(d) /\ ClosingInv(d) /\ CallerInv(d)
      /\ \A p \in Objects : WorkerCallInv(p) /\ WorkerInv(p)
      /\ \A g \in Handles : SignalInv(g)
  BY DEF CompilationInv
<1>b. /\ UNCHANGED <<active, info, obj, misused, ub>>
      /\ \A d \in Callers \ {c} : call'[d] = call[d]
      /\ call'[c].pc = "idle"
      /\ \A d \in Callers : (Open(d)' => d # c /\ Open(d)) /\ (Holds(d)' => d # c /\ Holds(d))
  BY <1>1, IdleRecs DEF HookTypeOK, Open, Holds
<1>c. /\ info[call[c].h] = None /\ ~handle'[call[c].h].signalled
      /\ \A g \in Handles \ {call[c].h} : handle'[g] = handle[g]
  BY <1>1 DEF HookTypeOK, FreeHandle
<1>d. \A d \in Callers \ {c} : Open(d) => call[d].h \in Handles \ {call[c].h}
  BY <1>1, <1>3 DEF OwnInv, OpenInv
<1>e. /\ \A p \in Objects \ {c} : worker'[p] = worker[p]
      /\ c \in Objects => worker[c] = "fallback" /\ worker'[c] = "result"
  BY <1>1, <1>3, HooksAssumption DEF WorkerCallInv, HookTypeOK
<1>f. \A g \in Handles : info[g] \in Objects \cup {None}
  BY DEF HookTypeOK
<1>4. TableInv'
  BY <1>3, <1>b, <1>c DEF TableInv, EntriesLive
<1>5. OwnInv'
  BY <1>3, <1>b DEF OwnInv
<1>6. ASSUME NEW d \in Callers PROVE OpenInv(d)' /\ HoldsInv(d)' /\ ClosingInv(d)' /\ CallerInv(d)'
  <2>1. OpenInv(d)'
    BY <1>3, <1>b, <1>c, <1>d DEF OpenInv
  <2>2. HoldsInv(d)'
    BY <1>3, <1>b, <1>c, <1>d DEF HoldsInv, OpenInv, Holds, Open
  <2>3. ClosingInv(d)'
    BY <1>3, <1>b DEF ClosingInv, Open
  <2>4. CallerInv(d)'
    BY <1>3, <1>b, <1>c, <1>d, <1>e DEF CallerInv, OpenInv, Holds, Open, Sane
  <2> QED
    BY <2>1, <2>2, <2>3, <2>4
<1>7. ASSUME NEW p \in Objects PROVE WorkerCallInv(p)' /\ WorkerInv(p)'
  <2>1. WorkerCallInv(p)'
    BY <1>3, <1>b, Workers, <1>e DEF WorkerCallInv
  <2>2. WorkerInv(p)'
    BY <1>3, <1>b, <1>e DEF WorkerInv, Sane
  <2> QED
    BY <2>1, <2>2
<1>8. ASSUME NEW g \in Handles PROVE SignalInv(g)'
  BY <1>3, <1>b, <1>c, <1>e, <1>f DEF SignalInv, Sane
<1> QED
  BY <1>2, <1>4, <1>5, <1>6, <1>7, <1>8 DEF CompilationInv

\* The hooks are enabled, or disabled when all handles are closed.
LEMMA SwitchKeeps ==
  ASSUME HookTypeOK, CompilationInv, EnableHooks \/ DisableHooks
  PROVE  HookTypeOK' /\ CompilationInv'
<1>1. /\ UNCHANGED <<handle, info, obj, worker, call, misused, ub>>
      /\ active' \in BOOLEAN
      /\ active' \/ \A d \in Callers : ~Open(d)
  <2>1. CASE EnableHooks
    BY <2>1 DEF EnableHooks
  <2>2. CASE DisableHooks
    <3>1. Idle.pc = "idle"
      BY DEF Idle
    <3> QED
      BY <2>2, <3>1 DEF DisableHooks, Open
  <2> QED
    BY <2>1, <2>2
<1>2. HookTypeOK'
  BY <1>1 DEF HookTypeOK
<1>3. /\ TableInv /\ OwnInv
      /\ \A d \in Callers : OpenInv(d) /\ HoldsInv(d) /\ ClosingInv(d) /\ CallerInv(d)
      /\ \A p \in Objects : WorkerCallInv(p) /\ WorkerInv(p)
      /\ \A g \in Handles : SignalInv(g)
  BY DEF CompilationInv
<1>b. \A d \in Callers : (Open(d)' <=> Open(d)) /\ (Holds(d)' <=> Holds(d))
  BY <1>1 DEF Open, Holds
<1>4. TableInv'
  BY <1>1, <1>3, <1>b DEF TableInv, EntriesLive
<1>5. OwnInv'
  BY <1>1, <1>3, <1>b DEF OwnInv
<1>6. ASSUME NEW d \in Callers PROVE OpenInv(d)' /\ HoldsInv(d)' /\ ClosingInv(d)' /\ CallerInv(d)'
  <2>1. OpenInv(d)'
    BY <1>1, <1>3, <1>b DEF OpenInv
  <2>2. HoldsInv(d)'
    BY <1>1, <1>3, <1>b DEF HoldsInv, OpenInv, Holds, Open
  <2>3. ClosingInv(d)'
    BY <1>1, <1>3, <1>b DEF ClosingInv, Open
  <2>4. CallerInv(d)'
    BY <1>1, <1>3, <1>b DEF CallerInv, OpenInv, Holds, Open, Sane
  <2> QED
    BY <2>1, <2>2, <2>3, <2>4
<1>7. ASSUME NEW p \in Objects PROVE WorkerCallInv(p)' /\ WorkerInv(p)'
  <2>1. WorkerCallInv(p)'
    BY <1>1, <1>3, <1>b, Workers DEF WorkerCallInv
  <2>2. WorkerInv(p)'
    BY <1>1, <1>3, <1>b DEF WorkerInv, Sane
  <2> QED
    BY <2>1, <2>2
<1>8. ASSUME NEW g \in Handles PROVE SignalInv(g)'
  BY <1>1, <1>3, <1>b DEF SignalInv, Sane
<1> QED
  BY <1>2, <1>4, <1>5, <1>6, <1>7, <1>8 DEF CompilationInv

\* A compilation is created: by a thread of the program, or by a worker that falls back.
LEMMA ShortCircuitKeeps ==
  ASSUME HookTypeOK, CompilationInv, NEW c \in Callers, ~Open(c),
         NEW h \in Handles, NEW o \in Objects, NEW s \in BOOLEAN,
         ShortCircuit(c, h, o, s), UNCHANGED <<active, misused, ub>>, worker' \in [Objects -> WorkerPlaces],
         worker'[o] = IF s THEN "suspended" ELSE "start", c # o,
         \A p \in Objects \ {o, c} : worker'[p] = worker[p],
         c \in Objects => worker[c] = "compile" /\ worker'[c] = "fallback"
  PROVE  HookTypeOK' /\ CompilationInv'
<1>1. /\ active /\ handle[h].kind = "free" /\ obj[o].mem = "none" /\ info[h] = None
      /\ handle' = [handle EXCEPT ![h] = [FreeHandle EXCEPT !.kind = "event"]]
      /\ info' = [info EXCEPT ![h] = o]
      /\ obj' = [obj EXCEPT ![o] = [NoObject EXCEPT !.h = h, !.params = TRUE, !.mem = "alive"]]
      /\ call' = [call EXCEPT ![c] = [Idle EXCEPT !.pc = IF s THEN "suspended" ELSE "wait", !.h = h, !.o = o]]
  <2>1. handle[h].kind = "free" /\ active
    BY DEF ShortCircuit, Free
  <2>2. info[h] = None
    BY <2>1 DEF CompilationInv, TableInv, EntriesLive
  <2>3. info \in [Handles -> Objects \cup {None}]
    BY DEF HookTypeOK
  <2> QED
    BY <2>1, <2>2, <2>3 DEF ShortCircuit
<1>2. HookTypeOK'
  <2>1. [FreeHandle EXCEPT !.kind = "event"] \in HandleRec
    BY DEF FreeHandle, HandleRec, AllCodes
  <2>2. [NoObject EXCEPT !.h = h, !.params = TRUE, !.mem = "alive"] \in ObjectRec
    BY DEF NoObject, ObjectRec, AllCodes
  <2>3. [Idle EXCEPT !.pc = IF s THEN "suspended" ELSE "wait", !.h = h, !.o = o] \in CallRec
    BY IdleRecs DEF CallRec, CallPlaces
  <2> QED
    BY <1>1, <2>1, <2>2, <2>3 DEF HookTypeOK
<1>3. /\ TableInv /\ OwnInv
      /\ \A d \in Callers : OpenInv(d) /\ HoldsInv(d) /\ ClosingInv(d) /\ CallerInv(d)
      /\ \A p \in Objects : WorkerCallInv(p) /\ WorkerInv(p)
      /\ \A g \in Handles : SignalInv(g)
  BY DEF CompilationInv
<1>b. /\ UNCHANGED <<active, misused, ub>> /\ active
      /\ \A d \in Callers \ {c} : call'[d] = call[d] /\ (Open(d)' <=> Open(d)) /\ (Holds(d)' <=> Holds(d))
      /\ call'[c].pc \in {"suspended", "wait"} /\ (call'[c].pc = "suspended" <=> s)
      /\ call'[c].h = h /\ call'[c].o = o /\ ~call'[c].waited
  BY <1>1, IdleRecs DEF HookTypeOK, Open, Holds, Idle
<1>c. /\ info'[h] = o /\ handle'[h].kind = "event" /\ ~handle'[h].signalled
      /\ obj'[o].mem = "alive" /\ obj'[o].h = h /\ obj'[o].params
      /\ \A g \in Handles \ {h} : handle'[g] = handle[g] /\ info'[g] = info[g]
      /\ \A p \in Objects \ {o} : obj'[p] = obj[p]
  BY <1>1 DEF HookTypeOK, FreeHandle, NoObject
<1>d. \A d \in Callers : Open(d) => d # c /\ call[d].h \in Handles \ {h}
  BY <1>1, <1>3 DEF OpenInv
<1>e. /\ worker[o] = "none" /\ worker'[o] = (IF s THEN "suspended" ELSE "start") /\ c # o
      /\ \A p \in Objects \ {o, c} : worker'[p] = worker[p]
      /\ c \in Objects => worker[c] = "compile" /\ worker'[c] = "fallback"
  BY <1>1, <1>3 DEF WorkerInv
<1>f. \A g \in Handles : info[g] \in Objects \cup {None}
  BY DEF HookTypeOK
<1>g. info[h] = None /\ o # None /\ \A g \in Handles : info[g] # o
  BY <1>1, <1>3, HooksAssumption DEF TableInv, EntriesLive
<1>h. \A d \in Callers : Holds(d) => call[d].o # o
  BY <1>1, <1>3, <1>g, HooksAssumption DEF HoldsInv, OpenInv, Holds
<1>4. TableInv'
  <2>1. ASSUME NEW g \in Handles, info'[g] # None
        PROVE  handle'[g].kind = "event" /\ obj'[info'[g]].h = g /\ obj'[info'[g]].mem = "alive"
    <3>1. CASE g = h
      BY <1>c, <3>1
    <3>2. CASE g # h
      <4>1. info'[g] = info[g] /\ info[g] \in Objects \ {o} /\ handle'[g] = handle[g] /\ info[g] # None
        BY <1>c, <1>f, <1>g, <2>1, <3>2
      <4>2. handle[g].kind = "event" /\ obj[info[g]].h = g /\ obj[info[g]].mem = "alive"
        BY <1>3, <4>1 DEF TableInv, EntriesLive
      <4> QED
        BY <1>c, <4>1, <4>2
    <3> QED
      BY <3>1, <3>2
  <2>2. ASSUME NEW p \in Objects, obj'[p].mem = "alive"
        PROVE  obj'[p].h \in Handles /\ info'[obj'[p].h] = p
    <3>1. CASE p = o
      BY <1>c, <3>1
    <3>2. CASE p # o
      <4>1. obj'[p] = obj[p] /\ obj[p].h \in Handles /\ info[obj[p].h] = p
        BY <1>3, <1>c, <2>2, <3>2 DEF TableInv
      <4>2. obj[p].h # h
        BY <1>g, <4>1, HooksAssumption
      <4> QED
        BY <1>c, <4>1, <4>2
    <3> QED
      BY <3>1, <3>2
  <2> QED
    BY <2>1, <2>2 DEF TableInv, EntriesLive
<1>5. OwnInv'
  BY <1>3, <1>b, <1>d DEF OwnInv
<1>6. ASSUME NEW d \in Callers PROVE OpenInv(d)' /\ HoldsInv(d)' /\ ClosingInv(d)' /\ CallerInv(d)'
  <2>1. OpenInv(d)'
    BY <1>3, <1>b, <1>c, <1>d DEF OpenInv
  <2>2. HoldsInv(d)'
    BY <1>3, <1>b, <1>c, <1>d, HooksAssumption DEF HoldsInv, OpenInv, Holds, Open
  <2>3. ClosingInv(d)'
    BY <1>3, <1>b, <1>c, <1>d DEF ClosingInv, Open
  <2>4. CallerInv(d)'
    BY <1>3, <1>b, <1>c, <1>d, <1>e, <1>h DEF CallerInv, OpenInv, Holds, Open, Sane
  <2> QED
    BY <2>1, <2>2, <2>3, <2>4
<1>7. ASSUME NEW p \in Objects PROVE WorkerCallInv(p)' /\ WorkerInv(p)'
  <2>1. WorkerCallInv(p)'
    BY <1>3, <1>b, Workers, <1>e, <1>f DEF WorkerCallInv
  <2>2. WorkerInv(p)'
    BY <1>3, <1>b, <1>c, <1>e DEF WorkerInv, Sane
  <2> QED
    BY <2>1, <2>2
<1>8. ASSUME NEW g \in Handles PROVE SignalInv(g)'
  BY <1>3, <1>b, <1>c, <1>e, <1>f, <1>g DEF SignalInv, Sane
<1> QED
  BY <1>2, <1>4, <1>5, <1>6, <1>7, <1>8 DEF CompilationInv

\* A process is created.
LEMMA ReplacementKeeps ==
  ASSUME HookTypeOK, CompilationInv, NEW c \in Users, NEW h \in Handles, CreateReplacement(c, h)
  PROVE  HookTypeOK' /\ CompilationInv'
<1>1. /\ UNCHANGED <<active, info, obj, worker, misused, ub>> /\ active /\ ~Open(c) /\ c \in Callers
      /\ handle[h].kind = "free"
      /\ handle' = [handle EXCEPT ![h] = [FreeHandle EXCEPT !.kind = "process"]]
      /\ call' = [call EXCEPT ![c] = [Idle EXCEPT !.pc = "wait", !.h = h]]
  BY Workers DEF CreateReplacement, RealProcess, Free, Open, Idle
<1>2. HookTypeOK'
  <2>1. [FreeHandle EXCEPT !.kind = "process"] \in HandleRec
    BY DEF FreeHandle, HandleRec, AllCodes
  <2>2. [Idle EXCEPT !.pc = "wait", !.h = h] \in CallRec
    BY IdleRecs DEF CallRec, CallPlaces
  <2> QED
    BY <1>1, <2>1, <2>2 DEF HookTypeOK
<1>3. /\ TableInv /\ OwnInv
      /\ \A d \in Callers : OpenInv(d) /\ HoldsInv(d) /\ ClosingInv(d) /\ CallerInv(d)
      /\ \A p \in Objects : WorkerCallInv(p) /\ WorkerInv(p)
      /\ \A g \in Handles : SignalInv(g)
  BY DEF CompilationInv
<1>b. /\ UNCHANGED <<active, info, obj, worker, misused, ub>> /\ active
      /\ \A d \in Callers \ {c} : call'[d] = call[d] /\ (Open(d)' <=> Open(d)) /\ (Holds(d)' <=> Holds(d))
      /\ call'[c].pc = "wait" /\ call'[c].h = h /\ call'[c].o = None
  BY <1>1, IdleRecs DEF HookTypeOK, Open, Holds, Idle
<1>c. /\ info[h] = None /\ handle'[h].kind = "process"
      /\ \A g \in Handles \ {h} : handle'[g] = handle[g]
  BY <1>1, <1>3 DEF HookTypeOK, FreeHandle, TableInv, EntriesLive
<1>d. \A d \in Callers : Open(d) => d # c /\ call[d].h \in Handles \ {h}
  BY <1>1, <1>3 DEF OpenInv
<1>e. c \notin Objects
  BY HooksAssumption
<1>4. TableInv'
  BY <1>3, <1>b, <1>c DEF TableInv, EntriesLive
<1>5. OwnInv'
  BY <1>3, <1>b, <1>d DEF OwnInv
<1>6. ASSUME NEW d \in Callers PROVE OpenInv(d)' /\ HoldsInv(d)' /\ ClosingInv(d)' /\ CallerInv(d)'
  <2>1. OpenInv(d)'
    BY <1>3, <1>b, <1>c, <1>d DEF OpenInv
  <2>2. HoldsInv(d)'
    BY <1>3, <1>b, <1>c, <1>d DEF HoldsInv, OpenInv, Holds, Open
  <2>3. ClosingInv(d)'
    BY <1>3, <1>b, <1>d DEF ClosingInv, Open
  <2>4. CallerInv(d)'
    BY <1>3, <1>b, <1>c, <1>d, HooksAssumption DEF CallerInv, OpenInv, Holds, Open, Sane
  <2> QED
    BY <2>1, <2>2, <2>3, <2>4
<1>7. ASSUME NEW p \in Objects PROVE WorkerCallInv(p)' /\ WorkerInv(p)'
  <2>1. WorkerCallInv(p)'
    BY <1>3, <1>b, Workers, <1>e DEF WorkerCallInv
  <2>2. WorkerInv(p)'
    BY <1>3, <1>b DEF WorkerInv, Sane
  <2> QED
    BY <2>1, <2>2
<1>8. ASSUME NEW g \in Handles PROVE SignalInv(g)'
  BY <1>3, <1>b, <1>c DEF SignalInv, Sane
<1> QED
  BY <1>2, <1>4, <1>5, <1>6, <1>7, <1>8 DEF CompilationInv

(***************************************************************************)
(* The injections.                                                         *)
(***************************************************************************)

\* A step of one kid and its creator.
KidOnly(k) ==
  /\ \A j \in Kids \ {k} : /\ inj'[j] = inj[j] /\ kid'[j] = kid[j] /\ susp'[j] = susp[j]
                           /\ asked'[j] = asked[j] /\ event'[j] = event[j] /\ resumed'[j] = resumed[j]

\* It leaves the others alone.
LEMMA OtherKids == ASSUME InjInv, NEW k \in Kids, KidOnly(k), InjTypeOK', KidInv(k)' PROVE InjInv'
<1>1. \A j \in Kids \ {k} : KidInv(j)'
  BY DEF InjInv, KidOnly, KidInv, Count
<1> QED
  BY <1>1 DEF InjInv

\* CreateProcess.
LEMMA CreateCounts == ASSUME InjInv, NEW k \in Kids, CreateSuspended(k) PROVE InjInv'
<1>1. InjTypeOK /\ KidInv(k)
  BY DEF InjInv
<1>2. KidOnly(k)
  BY <1>1 DEF KidOnly, InjTypeOK, CreateSuspended, Goes
<1>3. InjTypeOK'
  <2>1. asked' \in [Kids -> BOOLEAN]
    BY <1>1 DEF InjTypeOK, CreateSuspended
  <2> QED
    BY <1>1, <2>1 DEF InjTypeOK, InjPlaces, KidPlaces, CreateSuspended, Goes
<1>4. KidInv(k)'
  BY <1>1 DEF InjTypeOK, KidInv, Count, InjPlaces, KidPlaces, CreateSuspended, Goes
<1> QED
  BY <1>2, <1>3, <1>4, OtherKids

\* The injection is given up.
LEMMA RefusedCounts == ASSUME InjInv, NEW k \in Kids, InjFault(k) PROVE InjInv'
<1>1. InjTypeOK /\ KidInv(k)
  BY DEF InjInv
<1>2. KidOnly(k)
  BY <1>1 DEF KidOnly, InjTypeOK, InjFault, Refused, ParamsFail, Goes
<1>3. InjTypeOK'
  BY <1>1 DEF InjTypeOK, KidInv, Count, InjPlaces, KidPlaces, InjFault, Refused, ParamsFail, Goes
<1>4. KidInv(k)'
  BY <1>1 DEF InjTypeOK, KidInv, Count, InjPlaces, KidPlaces, InjFault, Refused, ParamsFail, Goes
<1> QED
  BY <1>2, <1>3, <1>4, OtherKids

\* The main thread is redirected.
LEMMA RedirectCounts == ASSUME InjInv, NEW k \in Kids, Redirect(k) PROVE InjInv'
<1>1. InjTypeOK /\ KidInv(k)
  BY DEF InjInv
<1>2. KidOnly(k)
  BY <1>1 DEF KidOnly, InjTypeOK, Redirect, Goes
<1>3. InjTypeOK'
  BY <1>1 DEF InjTypeOK, KidInv, Count, InjPlaces, KidPlaces, Redirect, Goes
<1>4. KidInv(k)'
  BY <1>1 DEF InjTypeOK, KidInv, Count, InjPlaces, KidPlaces, Redirect, Goes
<1> QED
  BY <1>2, <1>3, <1>4, OtherKids

\* The main thread runs the loader.
LEMMA ResumeMainCounts == ASSUME InjInv, NEW k \in Kids, ResumeMain(k) PROVE InjInv'
<1>1. InjTypeOK /\ KidInv(k)
  BY DEF InjInv
<1>2. KidOnly(k)
  BY <1>1 DEF KidOnly, InjTypeOK, ResumeMain, Goes
<1>3. InjTypeOK'
  BY <1>1 DEF InjTypeOK, KidInv, Count, InjPlaces, KidPlaces, ResumeMain, Goes
<1>4. KidInv(k)'
  BY <1>1 DEF InjTypeOK, KidInv, Count, InjPlaces, KidPlaces, ResumeMain, Goes
<1> QED
  BY <1>2, <1>3, <1>4, OtherKids

\* What localInitFunc does is done.
LEMMA WrittenCounts ==
  ASSUME InjInv, NEW k \in Kids, Goes(k, "local", "written") /\ UNCHANGED <<kid, susp, asked, event, resumed>>
  PROVE  InjInv'
<1>1. InjTypeOK /\ KidInv(k)
  BY DEF InjInv
<1>2. KidOnly(k)
  BY <1>1 DEF KidOnly, InjTypeOK, Goes
<1>3. InjTypeOK'
  BY <1>1 DEF InjTypeOK, KidInv, Count, InjPlaces, KidPlaces, Goes
<1>4. KidInv(k)'
  BY <1>1 DEF InjTypeOK, KidInv, Count, InjPlaces, KidPlaces, Goes
<1> QED
  BY <1>2, <1>3, <1>4, OtherKids

\* The creator returns or waits for the event.
LEMMA AfterLocalInitCounts == ASSUME InjInv, NEW k \in Kids, AfterLocalInit(k) PROVE InjInv'
<1>1. InjTypeOK /\ KidInv(k)
  BY DEF InjInv
<1>2. KidOnly(k)
  BY <1>1 DEF KidOnly, InjTypeOK, AfterLocalInit, Goes
<1>3. InjTypeOK'
  BY <1>1 DEF InjTypeOK, KidInv, Count, InjPlaces, KidPlaces, AfterLocalInit, Goes
<1>4. KidInv(k)'
  BY <1>1 DEF InjTypeOK, KidInv, Count, InjPlaces, KidPlaces, AfterLocalInit, Goes
<1> QED
  BY <1>2, <1>3, <1>4, OtherKids

\* The event is set.
LEMMA WaitInitDoneCounts == ASSUME InjInv, NEW k \in Kids, WaitInitDone(k) PROVE InjInv'
<1>1. InjTypeOK /\ KidInv(k)
  BY DEF InjInv
<1>2. KidOnly(k)
  BY <1>1 DEF KidOnly, InjTypeOK, WaitInitDone, Goes
<1>3. InjTypeOK'
  BY <1>1 DEF InjTypeOK, KidInv, Count, InjPlaces, KidPlaces, WaitInitDone, Goes
<1>4. KidInv(k)'
  BY <1>1 DEF InjTypeOK, KidInv, Count, InjPlaces, KidPlaces, WaitInitDone, Goes
<1> QED
  BY <1>2, <1>3, <1>4, OtherKids

\* The creator suspends the main thread.
LEMMA SuspendMainCounts == ASSUME InjInv, NEW k \in Kids, SuspendMain(k) PROVE InjInv'
<1>1. InjTypeOK /\ KidInv(k)
  BY DEF InjInv
<1>2. KidOnly(k)
  BY <1>1 DEF KidOnly, InjTypeOK, SuspendMain, Goes
<1>3. InjTypeOK'
  BY <1>1 DEF InjTypeOK, KidInv, Count, InjPlaces, KidPlaces, SuspendMain, Goes
<1>4. KidInv(k)'
  BY <1>1 DEF InjTypeOK, KidInv, Count, InjPlaces, KidPlaces, SuspendMain, Goes
<1> QED
  BY <1>2, <1>3, <1>4, OtherKids

\* The creator lets the kid go on.
LEMMA SignalKidCounts == ASSUME InjInv, NEW k \in Kids, SignalKid(k) PROVE InjInv'
<1>1. InjTypeOK /\ KidInv(k)
  BY DEF InjInv
<1>2. KidOnly(k)
  BY <1>1 DEF KidOnly, InjTypeOK, SignalKid, Goes
<1>3. InjTypeOK'
  BY <1>1 DEF InjTypeOK, KidInv, Count, InjPlaces, KidPlaces, SignalKid, Goes
<1>4. KidInv(k)'
  BY <1>1 DEF InjTypeOK, KidInv, Count, InjPlaces, KidPlaces, SignalKid, Goes
<1> QED
  BY <1>2, <1>3, <1>4, OtherKids

\* The process is resumed.
LEMMA ResumeKidCounts == ASSUME InjInv, NEW k \in Kids, ResumeKid(k) PROVE InjInv'
<1>1. InjTypeOK /\ KidInv(k)
  BY DEF InjInv
<1>2. KidOnly(k)
  BY <1>1 DEF KidOnly, InjTypeOK, ResumeKid
<1>3. InjTypeOK'
  BY <1>1 DEF InjTypeOK, KidInv, Count, InjPlaces, KidPlaces, ResumeKid
<1>4. KidInv(k)'
  BY <1>1 DEF InjTypeOK, KidInv, Count, InjPlaces, KidPlaces, ResumeKid
<1> QED
  BY <1>2, <1>3, <1>4, OtherKids

\* The hooks are in place.
LEMMA HooksEnabledCounts ==
  ASSUME InjInv, NEW k \in Kids, Runs(k, "init", "hooked") /\ UNCHANGED <<inj, susp, asked, event, resumed>>
  PROVE  InjInv'
<1>1. InjTypeOK /\ KidInv(k)
  BY DEF InjInv
<1>2. KidOnly(k)
  BY <1>1 DEF KidOnly, InjTypeOK, Runs
<1>3. InjTypeOK'
  BY <1>1 DEF InjTypeOK, KidInv, Count, InjPlaces, KidPlaces, Runs
<1>4. KidInv(k)'
  BY <1>1 DEF InjTypeOK, KidInv, Count, InjPlaces, KidPlaces, Runs
<1> QED
  BY <1>2, <1>3, <1>4, OtherKids

\* The kid's main thread.
LEMMA KidStepCounts == ASSUME InjInv, NEW k \in Kids, KidStep(k) PROVE InjInv'
<1>1. InjTypeOK /\ KidInv(k)
  BY DEF InjInv
<1>2. KidOnly(k)
  BY <1>1 DEF KidOnly, InjTypeOK, KidStep, LoadDll, SetInitDone, KidWaits, RunProgram, EndProgram, Runs
<1>3. InjTypeOK'
  BY <1>1 DEF InjTypeOK, KidInv, Count, InjPlaces, KidPlaces,
                  KidStep, LoadDll, SetInitDone, KidWaits, RunProgram, EndProgram, Runs
<1>4. KidInv(k)'
  BY <1>1 DEF InjTypeOK, KidInv, Count, InjPlaces, KidPlaces,
                  KidStep, LoadDll, SetInitDone, KidWaits, RunProgram, EndProgram, Runs
<1> QED
  BY <1>2, <1>3, <1>4, OtherKids

(***************************************************************************)
(* What a process hands down to the processes it creates.                  *)
(***************************************************************************)

\* SetToSeq lists every element of a finite set once.
LEMMA Listing ==
  ASSUME NEW T, IsFiniteSet(T)
  PROVE  /\ Cardinality(T) \in Nat
         /\ SetToSeq(T) \in [1..Cardinality(T) -> T]
         /\ \A x \in T : \E i \in 1..Cardinality(T) : SetToSeq(T)[i] = x
         /\ \A a, b \in 1..Cardinality(T) : SetToSeq(T)[a] = SetToSeq(T)[b] => a = b
<1> DEFINE C == Cardinality(T)
           D == 1..C
           s == SetToSeq(T)
<1>1. C \in Nat /\ ExistsBijection(D, T)
  BY FS_CardinalityType
<1>2. \E f \in [D -> T] : IsInjective(f)
  BY <1>1 DEF ExistsBijection, Bijection, Injection
<1>3. s \in [D -> T] /\ IsInjective(s)
  BY <1>2 DEF SetToSeq
<1>4. IsFiniteSet(D) /\ Cardinality(D) = C
  BY <1>1, FS_Interval
<1>5. s \in Injection(D, T)
  BY <1>3 DEF Injection
<1> HIDE DEF C, D, s
<1>6. s \in Surjection(D, T)
  BY <1>4, <1>5, FS_Injection DEF C
<1>7. \A x \in T : \E i \in D : s[i] = x
  BY <1>6 DEF Surjection
<1>8. \A a, b \in D : s[a] = s[b] => a = b
  BY <1>3 DEF IsInjective
<1> QED
  BY <1>1, <1>3, <1>7, <1>8 DEF C, D, s

\* Induction over numbers, in the form of the least counterexample.
LEMMA Least == ASSUME NEW T, T \subseteq Nat, T # {} PROVE \E x \in T : \A y \in T : x <= y
<1>1. \E x \in T : \A y \in T : ~(<<y, x>> \in OpToRel(<, Nat))
  BY WFMin, NatLessThanWellFounded
<1>2. \A x, y \in T : ~(<<y, x>> \in OpToRel(<, Nat)) => x <= y
  BY DEF OpToRel
<1> QED
  BY <1>1, <1>2

\* The state of Initialize's loops, by its parts.
ParseState(files, port, rep, inPort, done, str, path) ==
  [data |-> [files |-> files, port |-> port], replacement |-> rep, port |-> inPort, done |-> done,
   str |-> str, path |-> path]

\* A byte that is not zero goes on a string ...
LEMMA ByteGoesOn ==
  ASSUME NEW files, NEW port, NEW rep, NEW inPort, NEW done, NEW str, NEW path, NEW b, b # 0
  PROVE  ParseByte(ParseState(files, port, rep, inPort, done, str, path), b) =
           ParseState(files, port, rep, inPort, done, Append(str, b), path)
BY DEF ParseByte, ParseState
\* ... and a zero ends a path, its replacement, the compilers, or the port.
LEMMA ZeroEndsPath ==
  ASSUME NEW files, NEW port, NEW str, str # <<>>, NEW path
  PROVE  ParseByte(ParseState(files, port, FALSE, FALSE, FALSE, str, path), 0) =
           ParseState(files, port, TRUE, FALSE, FALSE, <<>>, str)
BY DEF ParseByte, ParseState
LEMMA ZeroEndsReplacement ==
  ASSUME NEW files, NEW port, NEW str, NEW path
  PROVE  ParseByte(ParseState(files, port, TRUE, FALSE, FALSE, str, path), 0) =
           ParseState(registerFile(files, path, str), port, FALSE, FALSE, FALSE, <<>>, path)
BY DEF ParseByte, ParseState
LEMMA ZeroEndsCompilers ==
  ASSUME NEW files, NEW port, NEW path
  PROVE  ParseByte(ParseState(files, port, FALSE, FALSE, FALSE, <<>>, path), 0) =
           ParseState(files, port, FALSE, TRUE, FALSE, <<>>, path)
BY DEF ParseByte, ParseState
LEMMA ZeroEndsPort ==
  ASSUME NEW files, NEW port, NEW str, NEW path
  PROVE  ParseByte(ParseState(files, port, FALSE, TRUE, FALSE, str, path), 0) =
           ParseState(files, str, FALSE, TRUE, TRUE, <<>>, path)
BY DEF ParseByte, ParseState

\* Initialize is at s before the bytes w and at t after them.
Trace(f, s, w) ==
  f = [i \in 0..Len(w) |-> IF i = 0 THEN s ELSE ParseByte(f[i - 1], w[i])]
Parses(s, w, t) == \E f : Trace(f, s, w) /\ f[Len(w)] = t

\* There is only one way to read them.
LEMMA TraceUnique ==
  ASSUME NEW s, NEW w, Len(w) \in Nat, NEW f, NEW g, Trace(f, s, w), Trace(g, s, w)
  PROVE  f[Len(w)] = g[Len(w)]
<1> DEFINE Bad == {i \in 0..Len(w) : f[i] # g[i]}
<1> SUFFICES ASSUME Bad # {} PROVE FALSE
  OBVIOUS
<1>1. Bad \subseteq Nat
  OBVIOUS
<1>2. PICK k \in Bad : \A i \in Bad : k <= i
  <2> HIDE DEF Bad
  <2> QED
    BY <1>1, Least
<1>3. k \in 0..Len(w) /\ f[k] # g[k]
  BY <1>2
<1>4. k # 0
  <2>1. f[0] = s /\ g[0] = s
    BY DEF Trace
  <2> QED
    BY <1>3, <2>1
<1>5. k - 1 \in 0..Len(w) /\ ~(k <= k - 1)
  BY <1>3, <1>4
<1>6. f[k - 1] = g[k - 1]
  BY <1>2, <1>5
<1>7. f[k] = ParseByte(f[k - 1], w[k]) /\ g[k] = ParseByte(g[k - 1], w[k])
  BY <1>3, <1>4 DEF Trace
<1> QED
  BY <1>3, <1>6, <1>7

\* A chunk is read byte by byte.
LEMMA ChunkParsed ==
  ASSUME NEW s, NEW w, Len(w) \in Nat, NEW t, Parses([s EXCEPT !.str = <<>>, !.path = <<>>], w, t)
  PROVE  ParseChunk(s, w) = t
<1> DEFINE a == [s EXCEPT !.str = <<>>, !.path = <<>>]
<1>1. PICK f : Trace(f, a, w) /\ f[Len(w)] = t
  BY DEF Parses
<1>2. ParseChunk(s, w) = (CHOOSE g : Trace(g, a, w))[Len(w)]
  BY DEF ParseChunk, Trace
<1>3. Trace(CHOOSE g : Trace(g, a, w), a, w)
  BY <1>1
<1> HIDE DEF a
<1> QED
  BY <1>1, <1>2, <1>3, TraceUnique

\* Two parts are read one after the other.
LEMMA ParsesJoin ==
  ASSUME NEW S, NEW u \in Seq(S), NEW v \in Seq(S), NEW s, NEW t, NEW r, Parses(s, u, t), Parses(t, v, r)
  PROVE  Parses(s, u \o v, r)
<1> DEFINE m == Len(u)
           n == Len(v)
           w == u \o v
<1>1. PICK f : Trace(f, s, u) /\ f[m] = t
  BY DEF Parses
<1>2. PICK g : Trace(g, t, v) /\ g[n] = r
  BY DEF Parses
<1>3. /\ m \in Nat /\ n \in Nat /\ Len(w) = m + n
      /\ \A i \in 1..(m + n) : w[i] = IF i <= m THEN u[i] ELSE v[i - m]
  OBVIOUS
<1>4. f[0] = s /\ g[0] = t
  BY <1>1, <1>2, <1>3 DEF Trace
<1>5. \A i \in 1..m : f[i] = ParseByte(f[i - 1], u[i])
  BY <1>1, <1>3 DEF Trace
<1>6. \A i \in 1..n : g[i] = ParseByte(g[i - 1], v[i])
  BY <1>2, <1>3 DEF Trace
<1> HIDE DEF m, n, w
<1> DEFINE e(i) == IF i <= m THEN f[i] ELSE g[i - m]
           h == [i \in 0..(m + n) |-> e(i)]
<1>7. ASSUME NEW i \in 1..(m + n) PROVE e(i) = ParseByte(e(i - 1), w[i])
  <2>1. CASE i <= m
    <3>1. i \in 1..m /\ i - 1 <= m
      BY <2>1, <1>3
    <3> QED
      BY <2>1, <3>1, <1>3, <1>5
  <2>2. CASE i = m + 1
    <3>1. ~(i <= m) /\ i - 1 <= m /\ i - 1 = m /\ i - m = 1 /\ 1 \in 1..n /\ 1 - 1 = 0
      BY <2>2, <1>3
    <3>2. e(i) = g[1] /\ e(i - 1) = t /\ w[i] = v[1]
      BY <3>1, <1>1, <1>3
    <3>3. g[1] = ParseByte(g[0], v[1])
      BY <3>1, <1>6
    <3> QED
      BY <3>2, <3>3, <1>4
  <2>3. CASE i > m + 1
    <3>1. ~(i <= m) /\ ~(i - 1 <= m) /\ i - m \in 1..n /\ (i - 1) - m = (i - m) - 1
      BY <2>3, <1>3
    <3> QED
      BY <3>1, <1>3, <1>6
  <2> QED
    BY <2>1, <2>2, <2>3, <1>3
<1>8. e(0) = s /\ e(m + n) = r
  <2>1. 0 <= m /\ (~(m + n <= m) <=> n # 0) /\ (m + n) - m = n /\ (n = 0 => m + n = m)
    BY <1>3
  <2> QED
    BY <2>1, <1>1, <1>2, <1>4
<1> HIDE DEF e
<1>9. \A i \in 1..(m + n) : h[i - 1] = e(i - 1)
  BY <1>3
<1>10. h = [i \in 0..(m + n) |-> IF i = 0 THEN s ELSE ParseByte(h[i - 1], w[i])]
  <2>1. \A i \in 0..(m + n) : i = 0 \/ i \in 1..(m + n)
    BY <1>3
  <2>2. \A i \in 0..(m + n) : e(i) = IF i = 0 THEN s ELSE ParseByte(h[i - 1], w[i])
    BY <2>1, <1>7, <1>8, <1>9
  <2> QED
    BY <2>2
<1>11. h[m + n] = r
  BY <1>3, <1>8
<1> HIDE DEF h
<1>12. Trace(h, s, w) /\ h[Len(w)] = r
  BY <1>3, <1>10, <1>11 DEF Trace
<1> QED
  BY <1>12 DEF Parses, w

\* One byte.
LEMMA ParsesByte == ASSUME NEW s, NEW b PROVE Parses(s, <<b>>, ParseByte(s, b))
<1> DEFINE f == [i \in 0..1 |-> IF i = 0 THEN s ELSE ParseByte(s, b)]
<1>1. Len(<<b>>) = 1 /\ <<b>>[1] = b
  OBVIOUS
<1>2. f[0] = s /\ f[1] = ParseByte(s, b)
  OBVIOUS
<1>3. \A i \in 0..1 : i = 0 \/ (i = 1 /\ i - 1 = 0)
  OBVIOUS
<1>4. f = [i \in 0..1 |-> IF i = 0 THEN s ELSE ParseByte(f[i - 1], <<b>>[i])]
  BY <1>1, <1>2, <1>3
<1> HIDE DEF f
<1>5. Trace(f, s, <<b>>)
  BY <1>1, <1>4 DEF Trace
<1> QED
  BY <1>1, <1>2, <1>5 DEF Parses

\* A string.
LEMMA ParsesString ==
  ASSUME NEW files, NEW port, NEW rep, NEW inPort, NEW done, NEW str \in Strings, NEW path
  PROVE  Parses(ParseState(files, port, rep, inPort, done, <<>>, path), str,
                ParseState(files, port, rep, inPort, done, str, path))
<1> DEFINE n == Len(str)
           e(i) == ParseState(files, port, rep, inPort, done, SubSeq(str, 1, i), path)
           f == [i \in 0..n |-> e(i)]
<1>1. n \in Nat /\ SubSeq(str, 1, 0) = <<>> /\ SubSeq(str, 1, n) = str
  BY DEF Strings
<1>2. ASSUME NEW i \in 1..n PROVE str[i] # 0 /\ Append(SubSeq(str, 1, i - 1), str[i]) = SubSeq(str, 1, i)
  <2> DEFINE a == Append(SubSeq(str, 1, i - 1), str[i])
             b == SubSeq(str, 1, i)
  <2>1. str \in Seq(Bytes) /\ str[i] \in Bytes
    BY DEF Strings
  <2>2. SubSeq(str, 1, i - 1) \in Seq(Bytes) /\ Len(SubSeq(str, 1, i - 1)) = i - 1
    BY <2>1, <1>1
  <2>3. b \in Seq(Bytes) /\ Len(b) = i /\ \A x \in 1..i : b[x] = str[x]
    BY <2>1, <1>1
  <2>4. a \in Seq(Bytes) /\ Len(a) = i /\ a[i] = str[i]
    BY <2>1, <2>2
  <2>5. \A x \in 1..(i - 1) : a[x] = str[x]
    BY <2>1, <2>2
  <2>6. \A x \in 1..i : x = i \/ x \in 1..(i - 1)
    BY <1>1
  <2> HIDE DEF a, b
  <2>7. a = b
    BY <2>3, <2>4, <2>5, <2>6
  <2>8. 0 \notin Bytes
    BY DEF Bytes
  <2> QED
    BY <2>1, <2>7, <2>8 DEF a, b
<1>3. ASSUME NEW i \in 1..n PROVE e(i) = ParseByte(e(i - 1), str[i])
  <2> DEFINE a == SubSeq(str, 1, i - 1)
  <2>1. ParseByte(ParseState(files, port, rep, inPort, done, a, path), str[i]) =
          ParseState(files, port, rep, inPort, done, Append(a, str[i]), path)
    BY <1>2, ByteGoesOn
  <2> QED
    BY <1>2, <2>1
<1>4. /\ e(0) = ParseState(files, port, rep, inPort, done, <<>>, path)
      /\ e(n) = ParseState(files, port, rep, inPort, done, str, path)
  BY <1>1
<1> HIDE DEF n, e
<1>5. \A i \in 0..n : i = 0 \/ (i \in 1..n /\ i - 1 \in 0..n)
  BY <1>1
<1>6. f = [i \in 0..n |-> IF i = 0 THEN e(0) ELSE ParseByte(f[i - 1], str[i])]
  BY <1>3, <1>5
<1>7. f[n] = e(n)
  BY <1>1
<1> HIDE DEF f
<1>8. Trace(f, e(0), str)
  BY <1>6 DEF Trace, n
<1> QED
  BY <1>4, <1>7, <1>8 DEF Parses, n

\* A string and the zero that ends it.
LEMMA ParsesTerminated ==
  ASSUME NEW files, NEW port, NEW rep, NEW inPort, NEW done, NEW str \in Strings, NEW path
  PROVE  /\ Parses(ParseState(files, port, rep, inPort, done, <<>>, path), ZeroTerminated(str),
                   ParseByte(ParseState(files, port, rep, inPort, done, str, path), 0))
         /\ ZeroTerminated(str) \in Seq(Nat)
<1> DEFINE s == ParseState(files, port, rep, inPort, done, <<>>, path)
           t == ParseState(files, port, rep, inPort, done, str, path)
<1>1. Parses(s, str, t)
  BY ParsesString
<1>2. str \in Seq(Nat) /\ <<0>> \in Seq(Nat)
  <2>1. str \in Seq(Bytes) /\ Len(str) \in Nat /\ \A i \in 1..Len(str) : str[i] \in Bytes
    BY DEF Strings
  <2>2. Bytes \subseteq Nat
    BY DEF Bytes
  <2>3. str \in [1..Len(str) -> Nat]
    <3>1. str \in [1..Len(str) -> Bytes]
      BY <2>1
    <3> QED
      BY <2>2, <3>1
  <2> QED
    BY <2>1, <2>3
<1>3. ZeroTerminated(str) = str \o <<0>>
  BY <1>2 DEF ZeroTerminated
<1>4. ZeroTerminated(str) \in Seq(Nat)
  BY <1>2, <1>3
<1>5. Parses(t, <<0>>, ParseByte(t, 0))
  BY ParsesByte
<1> HIDE DEF s, t
<1>6. Parses(s, str \o <<0>>, ParseByte(t, 0))
  BY <1>1, <1>2, <1>5, ParsesJoin
<1> QED
  BY <1>3, <1>4, <1>6 DEF s, t

\* A compiler and its replacement.
LEMMA ParsesCompiler ==
  ASSUME NEW files, NEW port, NEW old, NEW path \in Executables, NEW str \in Strings
  PROVE  /\ Parses(ParseState(files, port, FALSE, FALSE, FALSE, <<>>, old),
                   ZeroTerminated(path) \o ZeroTerminated(str),
                   ParseState(registerFile(files, path, str), port, FALSE, FALSE, FALSE, <<>>, path))
         /\ ZeroTerminated(path) \o ZeroTerminated(str) \in Seq(Nat)
<1>1. path \in Strings /\ path # <<>>
  BY ExecutablesAssumption
<1> DEFINE s == ParseState(files, port, FALSE, FALSE, FALSE, <<>>, old)
           t == ParseState(files, port, TRUE, FALSE, FALSE, <<>>, path)
           r == ParseState(registerFile(files, path, str), port, FALSE, FALSE, FALSE, <<>>, path)
           u == ZeroTerminated(path)
           v == ZeroTerminated(str)
<1>2. Parses(s, u, ParseByte(ParseState(files, port, FALSE, FALSE, FALSE, path, old), 0)) /\ u \in Seq(Nat)
  BY <1>1, ParsesTerminated
<1>3. Parses(s, u, t)
  BY <1>1, <1>2, ZeroEndsPath
<1>4. Parses(t, v, ParseByte(ParseState(files, port, TRUE, FALSE, FALSE, str, path), 0)) /\ v \in Seq(Nat)
  BY ParsesTerminated
<1>5. Parses(t, v, r)
  BY <1>4, ZeroEndsReplacement
<1> HIDE DEF s, t, r, u, v
<1>6. Parses(s, u \o v, r) /\ u \o v \in Seq(Nat)
  BY <1>2, <1>3, <1>4, <1>5, ParsesJoin
<1> QED
  BY <1>6 DEF s, r, u, v

\* The function that Payload defines by recursion.
Writes(f, d, paths, n) ==
  f = [i \in 0..n |-> IF i = 0 THEN <<>>
                      ELSE f[i - 1] \o (ZeroTerminated(paths[i]) \o ZeroTerminated(d.files[paths[i]]))]
\* The compilers among the first n.
FirstFiles(d, paths, n) == [p \in {paths[i] : i \in 1..n} |-> d.files[p]]
\* What is written of the first n compilers is read.
Handed(f, d, paths, n) ==
  /\ Writes(f, d, paths, n) /\ f[n] \in Seq(Nat)
  /\ \E path : Parses(ParseState(NoData.files, <<>>, FALSE, FALSE, FALSE, <<>>, <<>>), f[n],
                      ParseState(FirstFiles(d, paths, n), <<>>, FALSE, FALSE, FALSE, <<>>, path))

\* Nothing to read.
LEMMA ParsesNothing == ASSUME NEW s PROVE Parses(s, <<>>, s)
<1> DEFINE f == [i \in 0..0 |-> s]
<1>1. f = [i \in 0..Len(<<>>) |-> IF i = 0 THEN s ELSE ParseByte(f[i - 1], <<>>[i])] /\ f[0] = s
  OBVIOUS
<1>2. Len(<<>>) = 0
  OBVIOUS
<1> HIDE DEF f
<1> QED
  BY <1>1, <1>2 DEF Parses, Trace

\* The next compiler is known after the ones before it.
LEMMA NextFile ==
  ASSUME NEW d, IsHookData(d), NEW C \in Nat, NEW paths \in [1..C -> DOMAIN d.files],
         \A a, b \in 1..C : paths[a] = paths[b] => a = b, NEW n \in 1..C
  PROVE  registerFile(FirstFiles(d, paths, n - 1), paths[n], d.files[paths[n]]) = FirstFiles(d, paths, n)
<1> DEFINE A == {paths[i] : i \in 1..(n - 1)}
           B == {paths[i] : i \in 1..n}
           p == paths[n]
<1>1. \A i \in 1..n : i \in 1..C /\ (i = n \/ i \in 1..(n - 1))
  OBVIOUS
<1>2. \A i \in 1..(n - 1) : i \in 1..n /\ i \in 1..C /\ i # n
  OBVIOUS
<1>3. B = A \cup {p} /\ p \notin A
  <2>1. p \in B
    OBVIOUS
  <2>2. p \notin A
    BY <1>2
  <2>3. A \subseteq B
    BY <1>2
  <2>4. B \subseteq A \cup {p}
    BY <1>1
  <2> QED
    BY <2>1, <2>2, <2>3, <2>4
<1>4. p \in Executables
  BY DEF IsHookData
<1>5. FirstFiles(d, paths, n - 1) = [x \in A |-> d.files[x]] /\ FirstFiles(d, paths, n) = [x \in B |-> d.files[x]]
  BY DEF FirstFiles
<1> HIDE DEF A, B, p
<1> DEFINE F == [x \in A |-> d.files[x]]
<1>6. registerFile(F, p, d.files[p]) = [x \in A \cup {p} |-> IF x = p THEN d.files[p] ELSE F[x]]
  BY <1>3, <1>4 DEF registerFile
<1>7. \A x \in A \cup {p} : (IF x = p THEN d.files[p] ELSE F[x]) = d.files[x]
  OBVIOUS
<1>8. registerFile(F, p, d.files[p]) = [x \in B |-> d.files[x]]
  BY <1>3, <1>6, <1>7
<1> QED
  BY <1>5, <1>8 DEF p

\* By induction on their number all compilers are read.
LEMMA HandedAll ==
  ASSUME NEW d, IsHookData(d), NEW C \in Nat, NEW paths \in [1..C -> DOMAIN d.files],
         \A a, b \in 1..C : paths[a] = paths[b] => a = b
  PROVE  \E f : Handed(f, d, paths, C)
<1> DEFINE Bad == {n \in 0..C : ~\E f : Handed(f, d, paths, n)}
           s == ParseState(NoData.files, <<>>, FALSE, FALSE, FALSE, <<>>, <<>>)
<1> SUFFICES ASSUME ~\E f : Handed(f, d, paths, C) PROVE FALSE
  OBVIOUS
<1>0. C \in Bad
  OBVIOUS
<1>1. Bad \subseteq Nat
  OBVIOUS
<1>2. PICK n \in Bad : \A i \in Bad : n <= i
  <2> HIDE DEF Bad
  <2> QED
    BY <1>0, <1>1, Least
<1>3. n \in 0..C /\ ~\E f : Handed(f, d, paths, n)
  BY <1>2
<1>4. n # 0
  <2> DEFINE f == [i \in 0..0 |-> <<>>]
  <2>1. f = [i \in 0..0 |-> IF i = 0 THEN <<>>
                            ELSE f[i - 1] \o (ZeroTerminated(paths[i]) \o ZeroTerminated(d.files[paths[i]]))]
    OBVIOUS
  <2>2. f[0] = <<>> /\ <<>> \in Seq(Nat)
    OBVIOUS
  <2> HIDE DEF f
  <2>3. FirstFiles(d, paths, 0) = NoData.files
    BY DEF FirstFiles, NoData
  <2>4. Parses(s, f[0], ParseState(FirstFiles(d, paths, 0), <<>>, FALSE, FALSE, FALSE, <<>>, <<>>))
    BY <2>2, <2>3, ParsesNothing
  <2>5. Handed(f, d, paths, 0)
    BY <2>1, <2>2, <2>4 DEF Handed, Writes
  <2> QED
    BY <2>5, <1>3
<1>5. n \in 1..C /\ n - 1 \in 0..C /\ ~(n <= n - 1) /\ n - 1 \in Nat
  BY <1>3, <1>4
<1>6. PICK g : Handed(g, d, paths, n - 1)
  BY <1>2, <1>5
<1> DEFINE z(i) == ZeroTerminated(paths[i]) \o ZeroTerminated(d.files[paths[i]])
           e(i) == IF i = n THEN g[n - 1] \o z(n) ELSE g[i]
           f == [i \in 0..n |-> e(i)]
           F == FirstFiles(d, paths, n - 1)
           t(path) == ParseState(F, <<>>, FALSE, FALSE, FALSE, <<>>, path)
           r == ParseState(FirstFiles(d, paths, n), <<>>, FALSE, FALSE, FALSE, <<>>, paths[n])
<1>7. PICK path : Parses(s, g[n - 1], t(path))
  BY <1>6 DEF Handed
<1>8. g[n - 1] \in Seq(Nat) /\ g = [i \in 0..(n - 1) |-> IF i = 0 THEN <<>> ELSE g[i - 1] \o z(i)]
  BY <1>6 DEF Handed, Writes
<1>9. Parses(t(path), z(n), r) /\ z(n) \in Seq(Nat)
  <2>1. paths[n] \in Executables /\ d.files[paths[n]] \in Strings
    BY <1>5 DEF IsHookData
  <2>2. /\ Parses(t(path), z(n), ParseState(registerFile(F, paths[n], d.files[paths[n]]), <<>>, FALSE, FALSE,
                                            FALSE, <<>>, paths[n]))
        /\ z(n) \in Seq(Nat)
    BY <2>1, ParsesCompiler
  <2> QED
    BY <1>5, <2>2, NextFile
<1> HIDE DEF s, z, t, r, F
<1>10. Parses(s, g[n - 1] \o z(n), r) /\ g[n - 1] \o z(n) \in Seq(Nat)
  <2> DEFINE a == g[n - 1]
             b == z(n)
             c == t(path)
  <2>1. Parses(s, a, c) /\ Parses(c, b, r) /\ a \in Seq(Nat) /\ b \in Seq(Nat)
    BY <1>7, <1>8, <1>9
  <2> HIDE DEF a, b, c
  <2>2. Parses(s, a \o b, r) /\ a \o b \in Seq(Nat)
    BY <2>1, ParsesJoin
  <2> QED
    BY <2>2 DEF a, b
<1>11. \A i \in 0..n : e(i) = IF i = 0 THEN <<>> ELSE e(i - 1) \o z(i)
  <2> SUFFICES ASSUME NEW i \in 0..n PROVE e(i) = IF i = 0 THEN <<>> ELSE e(i - 1) \o z(i)
    OBVIOUS
  <2>1. CASE i = n
    <3>1. n # 0 /\ n - 1 # n
      BY <1>5
    <3> QED
      BY <2>1, <3>1
  <2>2. CASE i # n
    <3>1. i \in 0..(n - 1) /\ i - 1 # n
      BY <2>2, <1>5
    <3> QED
      BY <2>2, <3>1, <1>8
  <2> QED
    BY <2>1, <2>2
<1>12. e(n) = g[n - 1] \o z(n)
  OBVIOUS
<1> HIDE DEF e
<1>13. \A i \in 0..n : i # 0 => i - 1 \in 0..n
  BY <1>5
<1>14. f = [i \in 0..n |-> IF i = 0 THEN <<>> ELSE f[i - 1] \o z(i)] /\ f[n] = e(n)
  <2>1. n \in 0..n
    BY <1>5
  <2>2. f[n] = e(n)
    BY <2>1
  <2>3. ASSUME NEW i \in 0..n PROVE e(i) = IF i = 0 THEN <<>> ELSE f[i - 1] \o z(i)
    <3>1. CASE i = 0
      BY <3>1, <1>11
    <3>2. CASE i # 0
      <4>1. f[i - 1] = e(i - 1)
        BY <3>2, <1>13
      <4> QED
        BY <3>2, <4>1, <1>11
    <3> QED
      BY <3>1, <3>2
  <2>4. f = [i \in 0..n |-> IF i = 0 THEN <<>> ELSE f[i - 1] \o z(i)]
    BY <2>3, Zenon
  <2> QED
    BY <2>2, <2>4
<1> HIDE DEF f
<1>15. Writes(f, d, paths, n)
  BY <1>14 DEF Writes, z
<1>16. Handed(f, d, paths, n)
  BY <1>10, <1>12, <1>14, <1>15 DEF Handed, s, r
<1> QED
  BY <1>3, <1>16

\* There is only one way to write them.
LEMMA WritesUnique ==
  ASSUME NEW d, NEW paths, NEW n \in Nat, NEW f, NEW g, Writes(f, d, paths, n), Writes(g, d, paths, n)
  PROVE  f[n] = g[n]
<1> DEFINE Bad == {i \in 0..n : f[i] # g[i]}
           z(i) == ZeroTerminated(paths[i]) \o ZeroTerminated(d.files[paths[i]])
<1> SUFFICES ASSUME Bad # {} PROVE FALSE
  OBVIOUS
<1>1. Bad \subseteq Nat
  OBVIOUS
<1>2. PICK k \in Bad : \A i \in Bad : k <= i
  <2> HIDE DEF Bad
  <2> QED
    BY <1>1, Least
<1>3. k \in 0..n /\ f[k] # g[k]
  BY <1>2
<1>4. \A i \in 0..n : /\ f[i] = IF i = 0 THEN <<>> ELSE f[i - 1] \o z(i)
                      /\ g[i] = IF i = 0 THEN <<>> ELSE g[i - 1] \o z(i)
  BY DEF Writes
<1> HIDE DEF z
<1>5. k # 0
  BY <1>3, <1>4
<1>6. k - 1 \in 0..n /\ ~(k <= k - 1)
  BY <1>3, <1>5
<1>7. f[k - 1] = g[k - 1]
  BY <1>2, <1>6
<1> QED
  BY <1>3, <1>4, <1>5, <1>7

\* A payload that is read in one chunk gives the data back.
LEMMA PayloadParsed ==
  ASSUME NEW d, IsHookData(d)
  PROVE  /\ Payload(d) \in Seq(Nat) /\ Payload(d) # <<>>
         /\ ParseChunk(ParseStart, Payload(d)).done = TRUE /\ ParseChunk(ParseStart, Payload(d)).data = d
<1> DEFINE T == DOMAIN d.files
           C == Cardinality(T)
           paths == SetToSeq(T)
           s == ParseState(NoData.files, <<>>, FALSE, FALSE, FALSE, <<>>, <<>>)
<1>1. IsFiniteSet(T)
  BY ExecutablesAssumption, FS_Subset DEF IsHookData
<1>2. /\ C \in Nat /\ paths \in [1..C -> T]
      /\ \A x \in T : \E i \in 1..C : paths[i] = x
      /\ \A a, b \in 1..C : paths[a] = paths[b] => a = b
  BY <1>1, Listing
<1>3. Payload(d) = (CHOOSE f : Writes(f, d, paths, C))[C] \o <<0>> \o ZeroTerminated(d.port)
  BY DEF Payload, Writes
<1> HIDE DEF C, paths
<1>4. PICK f : Handed(f, d, paths, C)
  BY <1>2, HandedAll
<1>5. Writes(CHOOSE g : Writes(g, d, paths, C), d, paths, C)
  BY <1>4 DEF Handed
<1>6. (CHOOSE g : Writes(g, d, paths, C))[C] = f[C]
  BY <1>2, <1>4, <1>5, WritesUnique DEF Handed
<1>7. FirstFiles(d, paths, C) = d.files
  <2>1. {paths[i] : i \in 1..C} = T
    BY <1>2
  <2>2. d.files = [p \in T |-> d.files[p]]
    BY DEF IsHookData
  <2> QED
    BY <2>1, <2>2 DEF FirstFiles
<1>8. PICK path : Parses(s, f[C], ParseState(d.files, <<>>, FALSE, FALSE, FALSE, <<>>, path))
  BY <1>4, <1>7 DEF Handed
<1> DEFINE t == ParseState(d.files, <<>>, FALSE, FALSE, FALSE, <<>>, path)
           u == ParseState(d.files, <<>>, FALSE, TRUE, FALSE, <<>>, path)
           r == ParseState(d.files, d.port, FALSE, TRUE, TRUE, <<>>, path)
           v == ZeroTerminated(d.port)
           w == f[C]
<1>9. w \in Seq(Nat) /\ <<0>> \in Seq(Nat)
  BY <1>4 DEF Handed
<1>10. Parses(t, <<0>>, u)
  BY ParsesByte, ZeroEndsCompilers
<1>11. Parses(u, v, r) /\ v \in Seq(Nat)
  <2>1. d.port \in Strings
    BY DEF IsHookData
  <2>2. /\ Parses(u, v, ParseByte(ParseState(d.files, <<>>, FALSE, TRUE, FALSE, d.port, path), 0))
        /\ v \in Seq(Nat)
    BY <2>1, ParsesTerminated
  <2> QED
    BY <2>2, ZeroEndsPort
<1>12. Payload(d) = w \o <<0>> \o v
  BY <1>3, <1>6
<1>13. r.done = TRUE /\ r.data = d
  BY DEF ParseState, IsHookData
<1>14. [ParseStart EXCEPT !.str = <<>>, !.path = <<>>] = s
  <2>1. NoData = [files |-> NoData.files, port |-> <<>>]
    BY DEF NoData
  <2>2. ParseStart = s
    BY <2>1 DEF ParseStart, ParseState
  <2>3. ASSUME NEW x, NEW e PROVE [x EXCEPT !.str = e, !.path = e] = [[x EXCEPT !.str = e] EXCEPT !.path = e]
    OBVIOUS
  <2>4. ASSUME NEW y, NEW e, NEW a, NEW b, NEW p, NEW q, NEW h, NEW j
        PROVE  [ParseState(y, p, q, h, j, a, b) EXCEPT !.str = e] = ParseState(y, p, q, h, j, e, b)
    BY DEF ParseState
  <2>5. ASSUME NEW y, NEW e, NEW a, NEW b, NEW p, NEW q, NEW h, NEW j
        PROVE  [ParseState(y, p, q, h, j, a, b) EXCEPT !.path = e] = ParseState(y, p, q, h, j, a, e)
    BY DEF ParseState
  <2>6. [s EXCEPT !.str = <<>>, !.path = <<>>] = s
    <3> DEFINE e == <<>>
               no == FALSE
               fs == NoData.files
    <3>1. s = ParseState(fs, e, no, no, no, e, e)
      OBVIOUS
    <3> HIDE DEF e, no, fs, s
    <3>2. [s EXCEPT !.str = e] = s
      BY <3>1, <2>4
    <3>3. [s EXCEPT !.path = e] = s
      BY <3>1, <2>5
    <3>4. [s EXCEPT !.str = e, !.path = e] = s
      BY <3>2, <3>3, <2>3
    <3> QED
      BY <3>4 DEF e
  <2> QED
    BY <2>2, <2>6
<1>15. Parses(s, w, t)
  BY <1>8
<1> HIDE DEF s, t, u, r, v, w
<1>16. Parses(s, w \o <<0>>, u) /\ w \o <<0>> \in Seq(Nat)
  <2> DEFINE o == <<0>>
  <2>1. o \in Seq(Nat) /\ Parses(t, o, u)
    BY <1>9, <1>10
  <2> HIDE DEF o
  <2>2. Parses(s, w \o o, u) /\ w \o o \in Seq(Nat)
    BY <2>1, <1>9, <1>15, ParsesJoin
  <2> QED
    BY <2>2 DEF o
<1>17. Parses(s, w \o <<0>> \o v, r)
  BY <1>11, <1>16, ParsesJoin
<1>18. Payload(d) \in Seq(Nat) /\ Payload(d) # <<>>
  <2>1. Len(w \o <<0>> \o v) = Len(w) + 1 + Len(v)
    BY <1>9, <1>11
  <2>2. Len(w) \in Nat /\ Len(v) \in Nat /\ w \o <<0>> \o v \in Seq(Nat)
    BY <1>9, <1>11, <1>16
  <2> QED
    BY <2>1, <2>2, <1>12
<1>19. ParseChunk(ParseStart, Payload(d)) = r
  <2>1. Len(Payload(d)) \in Nat
    BY <1>18
  <2>2. Parses([ParseStart EXCEPT !.str = <<>>, !.path = <<>>], Payload(d), r)
    BY <1>12, <1>14, <1>17
  <2> QED
    BY <2>1, <2>2, ChunkParsed
<1> QED
  BY <1>13, <1>18, <1>19

\* The program of a kid, with the hooks or before them.
Before == {"entry", "loader", "init"}
After == {"hooked", "waiting", "main", "ran"}
\* What a kid, at kd, with its creator at i, has of the data d of the first
\* process: dt, or still to be read in its pipe p by its parser ps.
Heir(d, kd, i, dt, p, ps) ==
  /\ (kd = "none" <=> i = "none") /\ (i = "created" => kd = "entry")
  /\ (kd = "entry" => i \in {"created", "refused"})
  /\ (dt = NoData \/ dt = d)
  /\ (kd = "none" => ps = ParseStart)
  /\ (kd \in Before => (ps = ParseStart /\ p = Payload(d)) \/ (ps.done = TRUE /\ ps.data = d))
  /\ (kd \in After /\ i # "refused" => dt = d)
HeirInv(k) == Heir(data[Root], kid[k], inj[k], data[k], pipe[k], parse[k])
Fits == Len(Payload(data[Root])) <= Chunk
HeirsInv ==
  /\ DOMAIN data = Kids \cup {Root} /\ DOMAIN pipe = Kids /\ DOMAIN parse = Kids /\ data[Root] \in Configs
  /\ Fits => \A k \in Kids : HeirInv(k)

\* A step of one kid.
LEMMA OtherHeirs ==
  ASSUME HeirsInv, NEW k \in Kids, KidOnly(k),
         DOMAIN data' = Kids \cup {Root}, DOMAIN pipe' = Kids, DOMAIN parse' = Kids, data'[Root] = data[Root],
         \A j \in Kids \ {k} : data'[j] = data[j] /\ pipe'[j] = pipe[j] /\ parse'[j] = parse[j],
         Fits => Heir(data[Root], kid'[k], inj'[k], data'[k], pipe'[k], parse'[k])
  PROVE  HeirsInv'
<1>1. Fits' <=> Fits
  BY DEF Fits
<1>2. ASSUME Fits, NEW j \in Kids PROVE HeirInv(j)'
  <2>1. CASE j = k
    BY <1>2, <2>1 DEF HeirInv
  <2>2. CASE j # k
    BY <1>2, <2>2 DEF HeirInv, HeirsInv, KidOnly
  <2> QED
    BY <2>1, <2>2
<1> QED
  BY <1>1, <1>2 DEF HeirsInv

\* Steps that leave the kids alone.
LEMMA HeirsSame == ASSUME HeirsInv, UNCHANGED kidVars PROVE HeirsInv'
<1>1. UNCHANGED <<inj, kid, data, pipe, parse>>
  BY DEF kidVars, injVars
<1> QED
  BY <1>1 DEF HeirsInv, HeirInv, Fits

\* A process is created with the data of its creator.
LEMMA CreateHeir ==
  ASSUME InjInv, HeirsInv, NEW k \in Kids, NEW d, Fits => d = data[Root],
         CreateSuspended(k), pipe' = [pipe EXCEPT ![k] = Payload(d)], UNCHANGED <<data, parse>>
  PROVE  HeirsInv'
<1>1. inj[k] = "none" /\ inj'[k] = "created" /\ kid'[k] = "entry" /\ KidOnly(k)
  BY DEF InjInv, InjTypeOK, CreateSuspended, Goes, KidOnly
<1>2. /\ DOMAIN pipe' = Kids /\ pipe'[k] = Payload(d) /\ \A j \in Kids \ {k} : pipe'[j] = pipe[j]
      /\ DOMAIN data = Kids \cup {Root} /\ DOMAIN parse = Kids
  BY DEF HeirsInv
<1>3. ASSUME Fits PROVE Heir(data[Root], "entry", "created", data[k], Payload(d), parse[k])
  <2>1. Heir(data[Root], kid[k], inj[k], data[k], pipe[k], parse[k])
    BY <1>3 DEF HeirsInv, HeirInv
  <2> QED
    BY <1>1, <1>3, <2>1 DEF Heir, Before, After
<1> QED
  BY <1>1, <1>2, <1>3, OtherHeirs

\* Creator and kid get on, with nothing read.
LEMMA HeirMoves ==
  ASSUME HeirsInv, NEW k \in Kids, KidOnly(k), UNCHANGED <<data, pipe, parse>>,
         Fits => /\ inj'[k] # "none" /\ kid'[k] # "none" /\ inj'[k] # "created"
                 /\ (kid'[k] = "entry" => inj'[k] = "refused")
                 /\ (kid'[k] \in Before => kid[k] \in Before)
                 /\ (kid'[k] \in After /\ inj'[k] # "refused" => kid[k] \in After /\ inj[k] # "refused")
  PROVE  HeirsInv'
<1>1. ASSUME Fits PROVE Heir(data[Root], kid'[k], inj'[k], data[k], pipe[k], parse[k])
  <2>1. Heir(data[Root], kid[k], inj[k], data[k], pipe[k], parse[k])
    BY <1>1 DEF HeirsInv, HeirInv
  <2> QED
    BY <1>1, <2>1 DEF Heir
<1>2. DOMAIN data = Kids \cup {Root} /\ DOMAIN pipe = Kids /\ DOMAIN parse = Kids
  BY DEF HeirsInv
<1> QED
  BY <1>1, <1>2, OtherHeirs

\* What is known of a kid.
LEMMA HeirPlace ==
  ASSUME InjInv, HeirsInv, Fits, NEW k \in Kids
  PROVE  /\ inj[k] \in InjPlaces /\ kid[k] \in KidPlaces /\ susp[k] = Count(k)
         /\ (kid[k] = "none" <=> inj[k] = "none") /\ (inj[k] = "created" => kid[k] = "entry")
         /\ (kid[k] = "entry" => inj[k] \in {"created", "refused"})
BY DEF InjInv, InjTypeOK, KidInv, HeirsInv, HeirInv, Heir

\* The creator's steps.
LEMMA CreatorHeirs ==
  ASSUME InjInv, HeirsInv, NEW k \in Kids, UNCHANGED <<data, pipe, parse>>,
         \/ CreatorStep(k) \/ InjFault(k) \/ ResumeKid(k)
         \/ Goes(k, "local", "written") /\ UNCHANGED <<kid, susp, asked, event, resumed>>
  PROVE  HeirsInv'
<1>1. KidOnly(k)
  BY DEF InjInv, InjTypeOK, KidOnly, CreatorStep, Redirect, ResumeMain, AfterLocalInit, WaitInitDone, SuspendMain,
         SignalKid, InjFault, Refused, ParamsFail, ResumeKid, Goes
<1>2. inj \in [Kids -> InjPlaces] /\ kid \in [Kids -> KidPlaces]
  BY DEF InjInv, InjTypeOK
<1>3. CASE Redirect(k)
  <2>1. inj[k] = "created" /\ inj'[k] = "redirected" /\ kid'[k] = "loader"
    BY <1>2, <1>3 DEF Redirect, Goes
  <2>2. Fits => kid[k] \in Before
    BY <2>1, HeirPlace DEF Before
  <2> QED
    BY <1>1, <2>1, <2>2, HeirMoves DEF Before, After
<1>4. CASE ~Redirect(k)
  <2>1. kid'[k] = kid[k] /\ inj[k] # "none" /\ inj'[k] \notin {"none", "created"}
    BY <1>2, <1>4 DEF CreatorStep, ResumeMain, AfterLocalInit, WaitInitDone, SuspendMain,
         SignalKid, InjFault, Refused, ParamsFail, ResumeKid, Goes
  <2>2. (inj'[k] = "refused" \/ inj[k] # "refused") /\ (inj[k] # "created" \/ inj'[k] = "refused")
    BY <1>2, <1>4 DEF CreatorStep, ResumeMain, AfterLocalInit, WaitInitDone, SuspendMain,
         SignalKid, InjFault, Refused, ParamsFail, ResumeKid, Goes
  <2>3. inj[k] = "refused" => inj'[k] = "refused"
    BY <2>2
  <2>4. Fits => /\ kid[k] # "none" /\ (kid[k] = "entry" => inj'[k] = "refused")
    BY <2>1, <2>2, <2>3, HeirPlace
  <2> QED
    BY <1>1, <2>1, <2>3, <2>4, HeirMoves
<1> QED
  BY <1>3, <1>4

\* The kid's steps.
LEMMA KidHeirs ==
  ASSUME InjInv, HeirsInv, NEW k \in Kids, KidStep(k), UNCHANGED <<data, pipe, parse>> PROVE HeirsInv'
<1>1. KidOnly(k)
  BY DEF InjInv, InjTypeOK, KidOnly, KidStep, LoadDll, SetInitDone, KidWaits, RunProgram, EndProgram, Runs
<1>2. inj \in [Kids -> InjPlaces] /\ kid \in [Kids -> KidPlaces]
  BY DEF InjInv, InjTypeOK
<1>3. inj'[k] = inj[k] /\ susp[k] = 0
  BY DEF KidStep, LoadDll, SetInitDone, KidWaits, RunProgram, EndProgram, Runs
<1>4. \/ kid[k] = "loader" /\ kid'[k] \in {"init", "ended"}
      \/ kid[k] = "hooked" /\ kid'[k] \in {"main", "waiting"}
      \/ kid[k] = "waiting" /\ kid'[k] = "main"
      \/ kid[k] \in {"main", "entry"} /\ kid'[k] = "ran"
      \/ kid[k] = "ran" /\ kid'[k] = "ended"
  BY <1>2 DEF KidStep, LoadDll, SetInitDone, KidWaits, RunProgram, EndProgram, Runs
<1>5. Fits => inj[k] \notin {"none", "created"} /\ (kid[k] = "entry" => inj[k] = "refused")
  <2>1. inj[k] = "created" => Count(k) = 1
    BY DEF Count
  <2> QED
    BY <2>1, <1>3, <1>4, HeirPlace
<1>6. Fits => /\ inj'[k] # "none" /\ kid'[k] # "none" /\ inj'[k] # "created"
              /\ (kid'[k] = "entry" => inj'[k] = "refused")
              /\ (kid'[k] \in Before => kid[k] \in Before)
              /\ (kid'[k] \in After /\ inj'[k] # "refused" => kid[k] \in After /\ inj[k] # "refused")
  BY <1>3, <1>4, <1>5 DEF Before, After
<1> QED
  BY <1>1, <1>6, HeirMoves

\* Initialize reads a chunk, which is the payload if that fits.
LEMMA ReadHeirs ==
  ASSUME InjInv, HeirsInv, NEW k \in Kids, ReadChunk(k) PROVE HeirsInv'
<1> DEFINE n == IF Len(pipe[k]) < Chunk THEN Len(pipe[k]) ELSE Chunk
<1>1. /\ kid[k] = "init" /\ ~parse[k].done /\ UNCHANGED <<injVars, data>>
      /\ parse' = [parse EXCEPT ![k] = ParseChunk(parse[k], SubSeq(pipe[k], 1, n))]
      /\ pipe' = [pipe EXCEPT ![k] = SubSeq(pipe[k], n + 1, Len(pipe[k]))]
  BY DEF ReadChunk
<1>2. KidOnly(k) /\ inj'[k] = inj[k] /\ kid'[k] = kid[k]
  BY <1>1 DEF KidOnly, injVars
<1>3. /\ DOMAIN data' = Kids \cup {Root} /\ DOMAIN pipe' = Kids /\ DOMAIN parse' = Kids
      /\ \A j \in Kids \ {k} : pipe'[j] = pipe[j] /\ parse'[j] = parse[j]
      /\ parse'[k] = ParseChunk(parse[k], SubSeq(pipe[k], 1, n))
  BY <1>1 DEF HeirsInv
<1>4. ASSUME Fits PROVE Heir(data[Root], kid'[k], inj'[k], data'[k], pipe'[k], parse'[k])
  <2> DEFINE D == data[Root]
  <2>1. Heir(D, kid[k], inj[k], data[k], pipe[k], parse[k])
    BY <1>4 DEF HeirsInv, HeirInv
  <2>2. parse[k] = ParseStart /\ pipe[k] = Payload(D)
    BY <2>1, <1>1 DEF Heir, Before
  <2>3. IsHookData(D)
    BY ConfigsAssumption DEF HeirsInv
  <2>4. Payload(D) \in Seq(Nat) /\ Len(Payload(D)) <= Chunk
    BY <1>4, <2>3, PayloadParsed DEF Fits
  <2>5. SubSeq(pipe[k], 1, n) = Payload(D)
    <3>1. n = Len(Payload(D))
      BY <2>2, <2>4, ChunkAssumption
    <3> HIDE DEF n
    <3> QED
      BY <2>2, <2>4, <3>1
  <2>6. parse'[k].done = TRUE /\ parse'[k].data = D
    <3> HIDE DEF n, D
    <3>1. parse'[k] = ParseChunk(ParseStart, Payload(D))
      BY <1>3, <2>2, <2>5
    <3> QED
      BY <2>3, <3>1, PayloadParsed
  <2> HIDE DEF D
  <2>7. kid'[k] = "init" /\ inj'[k] = inj[k] /\ data'[k] = data[k]
    BY <1>1, <1>2
  <2>8. Heir(D, kid'[k], inj'[k], data'[k], pipe'[k], parse'[k])
    BY <1>1, <2>1, <2>6, <2>7 DEF Heir, Before, After
  <2> QED
    BY <2>8 DEF D
<1> QED
  BY <1>1, <1>2, <1>3, <1>4, OtherHeirs

\* Initialize is done.
LEMMA EnabledHeirs ==
  ASSUME InjInv, HeirsInv, NEW k \in Kids, HooksEnabled(k) PROVE HeirsInv'
<1>1. /\ kid[k] = "init" /\ parse[k].done /\ kid' = [kid EXCEPT ![k] = "hooked"]
      /\ UNCHANGED <<inj, susp, asked, event, resumed, pipe, parse>>
      /\ data' = [data EXCEPT ![k] = parse[k].data]
  BY DEF HooksEnabled, Runs
<1>2. KidOnly(k) /\ kid'[k] = "hooked"
  BY <1>1 DEF KidOnly, InjInv, InjTypeOK
<1>3. /\ DOMAIN data' = Kids \cup {Root} /\ DOMAIN pipe' = Kids /\ DOMAIN parse' = Kids
      /\ data'[Root] = data[Root] /\ data'[k] = parse[k].data /\ \A j \in Kids \ {k} : data'[j] = data[j]
  BY <1>1, ConfigsAssumption DEF HeirsInv
<1>4. ASSUME Fits PROVE Heir(data[Root], "hooked", inj[k], parse[k].data, pipe[k], parse[k])
  <2>1. Heir(data[Root], "init", inj[k], data[k], pipe[k], parse[k])
    BY <1>1, <1>4 DEF HeirsInv, HeirInv
  <2>2. ParseStart.done = FALSE
    BY DEF ParseStart
  <2>3. parse[k].data = data[Root]
    BY <2>1, <2>2, <1>1 DEF Heir, Before
  <2> QED
    BY <2>1, <2>3, <1>1 DEF Heir, Before, After
<1> QED
  BY <1>1, <1>2, <1>3, <1>4, OtherHeirs

\* Every step keeps what the kids have.
LEMMA HeirsStep == ASSUME InjInv, HeirsInv, Next PROVE HeirsInv'
<1>1. CASE UNCHANGED kidVars
  BY <1>1, HeirsSame
<1>2. ASSUME NEW k \in Kids, InjectStep(k) PROVE HeirsInv'
  <2>1. CASE NoLocalInit(k)
    BY <2>1, CreatorHeirs DEF NoLocalInit
  <2>2. CASE (CreatorStep(k) \/ KidStep(k)) /\ UNCHANGED <<hookVars, data, pipe, parse>>
    BY <2>2, CreatorHeirs, KidHeirs
  <2> QED
    BY <1>2, <2>1, <2>2, ReadHeirs, EnabledHeirs DEF InjectStep
<1>3. ASSUME NEW k \in Kids, CreateGrandkid(k) PROVE HeirsInv'
  <2> DEFINE d == data[Parent[k]]
  <2>1. /\ CreateSuspended(k) /\ pipe' = [pipe EXCEPT ![k] = Payload(d)] /\ UNCHANGED <<data, parse>>
        /\ Parent[k] \in Kids /\ d # NoData
    BY <1>3 DEF CreateGrandkid
  <2>2. Fits => d = data[Root]
    BY <2>1 DEF HeirsInv, HeirInv, Heir
  <2> HIDE DEF d
  <2> QED
    BY <2>1, <2>2, CreateHeir
<1>4. ASSUME NEW k \in Kids, InjFault(k) \/ ResumeKid(k), UNCHANGED <<hookVars, data, pipe, parse>> PROVE HeirsInv'
  BY <1>4, CreatorHeirs
<1>5. ASSUME NEW c \in Users, UserChoice(c) PROVE HeirsInv'
  <2>1. ASSUME NEW k \in Kids, CreateOther(c, k) PROVE HeirsInv'
    <3>1. CreateSuspended(k) /\ pipe' = [pipe EXCEPT ![k] = Payload(data[Root])] /\ UNCHANGED <<data, parse>>
      BY <2>1 DEF CreateOther
    <3> QED
      BY <3>1, CreateHeir
  <2>2. CASE \E k \in Kids : CreateOther(c, k)
    BY <2>1, <2>2
  <2> QED
    BY <1>1, <1>5, <2>2
    DEF UserChoice, CreateCompiler, CreateReplacement, ResumeWorker, Poll, Leave, Terminate
<1>6. ASSUME NEW c \in Callers, CallStep(c) PROVE HeirsInv'
  BY <1>1, <1>6 DEF CallStep, Wait, GetExitCode, SignalTerminated, EraseEntry, CloseHandle, Injected
<1>7. ASSUME NEW o \in Objects, WorkerStep(o) PROVE HeirsInv'
  BY <1>1, <1>7 DEF WorkerStep, Start, Answered, FallBackFails, Complete, SetDone, Dangling, FallBack
<1>8. CASE EnableHooks \/ DisableHooks \/ \E h \in Handles : ProcessEnds(h)
  BY <1>1, <1>8 DEF EnableHooks, DisableHooks, ProcessEnds
<1> QED
  BY <1>2, <1>3, <1>4, <1>5, <1>6, <1>7, <1>8 DEF Next

\* No kid has been created at the start.
LEMMA InitHeirs == Init => HeirsInv
<1> SUFFICES ASSUME Init PROVE HeirsInv
  OBVIOUS
<1>1. PICK cfg \in Configs : data = [p \in Kids \cup {Root} |-> IF p = Root THEN cfg ELSE NoData]
  BY DEF Init
<1>2. /\ pipe = [k \in Kids |-> <<>>] /\ parse = [k \in Kids |-> ParseStart]
      /\ inj = [k \in Kids |-> "none"] /\ kid = [k \in Kids |-> "none"]
  BY DEF Init, InjInit
<1>3. \A k \in Kids : data[k] = NoData
  BY <1>1, ConfigsAssumption
<1>4. DOMAIN data = Kids \cup {Root} /\ data[Root] \in Configs
  BY <1>1
<1>5. \A k \in Kids : HeirInv(k)
  BY <1>2, <1>3 DEF HeirInv, Heir, Before, After
<1> QED
  BY <1>2, <1>4, <1>5 DEF HeirsInv

(***************************************************************************)
(* The theorems.                                                           *)
(***************************************************************************)
HooksIInv == HookTypeOK /\ CompilationInv /\ InjInv

\* At the start there are no processes and no compilations.
LEMMA InitHooks == Init => HooksIInv
<1> SUFFICES ASSUME Init PROVE HooksIInv
  OBVIOUS
<1>1. /\ active = FALSE /\ handle = [h \in Handles |-> FreeHandle] /\ info = [h \in Handles |-> None]
      /\ obj = [o \in Objects |-> NoObject] /\ worker = [o \in Objects |-> "none"]
      /\ call = [c \in Callers |-> Idle] /\ misused = {}
  BY DEF Init
<1>2. FreeHandle \in HandleRec /\ NoObject \in ObjectRec /\ Idle \in CallRec
  BY IdleRecs DEF FreeHandle, HandleRec, NoObject, ObjectRec, AllCodes
<1>3. HookTypeOK
  BY <1>1, <1>2 DEF HookTypeOK, WorkerPlaces
<1>4. \A c \in Callers : ~Open(c) /\ ~Holds(c) /\ call[c].pc = "idle"
  BY <1>1 DEF Open, Holds, Idle
<1>5. \A o \in Objects : obj[o].mem = "none" /\ worker[o] = "none"
  BY <1>1 DEF NoObject
<1>6. \A h \in Handles : info[h] = None
  BY <1>1
<1>7. CompilationInv
  BY <1>4, <1>5, <1>6, Workers
  DEF CompilationInv, TableInv, EntriesLive, OwnInv, OpenInv, HoldsInv, ClosingInv, CallerInv, WorkerCallInv,
      WorkerInv, SignalInv
<1>8. InjInv
  BY DEF Init, InjInit, InjInv, InjTypeOK, InjPlaces, KidPlaces, KidInv, Count
<1> QED
  BY <1>3, <1>7, <1>8 DEF HooksIInv

\* A compilation is created by a thread of the program ...
LEMMA CreateCompilerKeeps ==
  ASSUME HookTypeOK, CompilationInv, NEW c \in Users, NEW h \in Handles, NEW o \in Objects, CreateCompiler(c, h, o)
  PROVE  HookTypeOK' /\ CompilationInv'
<1>1. PICK s \in BOOLEAN : /\ ShortCircuit(c, h, o, s)
                           /\ worker' = [worker EXCEPT ![o] = IF s THEN "suspended" ELSE "start"]
  BY DEF CreateCompiler
<1>2. UNCHANGED <<active, misused, ub>> /\ c \in Callers /\ ~Open(c) /\ c \notin Objects
  BY Workers, HooksAssumption, IdleRecs DEF CreateCompiler, Open
<1>3. worker \in [Objects -> WorkerPlaces]
  BY DEF HookTypeOK
<1>4. worker' \in [Objects -> WorkerPlaces]
  BY <1>1, <1>3 DEF WorkerPlaces
<1>5. worker'[o] = (IF s THEN "suspended" ELSE "start") /\ \A p \in Objects \ {o, c} : worker'[p] = worker[p]
  BY <1>1, <1>3
<1> QED
  BY <1>1, <1>2, <1>4, <1>5, ShortCircuitKeeps

\* ... or by a worker that falls back.
LEMMA FallBackKeeps ==
  ASSUME HookTypeOK, CompilationInv, NEW o \in Objects, NEW h \in Handles, NEW n \in Objects, FallBack(o, h, n)
  PROVE  HookTypeOK' /\ CompilationInv'
<1>1. /\ ShortCircuit(o, h, n, FALSE) /\ UNCHANGED <<active, misused, ub>>
      /\ worker' = [worker EXCEPT ![o] = "fallback", ![n] = "start"]
      /\ worker[o] = "compile" /\ obj[o].mem = "alive" /\ obj[n].mem = "none"
  BY DEF FallBack, Usable, ShortCircuit
<1>2. o \in Callers /\ ~Open(o) /\ o # n
  BY <1>1, Workers DEF CompilationInv, WorkerCallInv
<1>3. worker \in [Objects -> WorkerPlaces]
  BY DEF HookTypeOK
<1>4. worker' \in [Objects -> WorkerPlaces]
  BY <1>1, <1>3 DEF WorkerPlaces
<1>5. worker'[n] = "start" /\ worker'[o] = "fallback" /\ \A p \in Objects \ {n, o} : worker'[p] = worker[p]
  BY <1>1, <1>2, <1>3
<1> QED
  BY <1>1, <1>2, <1>4, <1>5, ShortCircuitKeeps

\* TerminateProcess.
LEMMA TerminateKeeps ==
  ASSUME HookTypeOK, CompilationInv, NEW c \in Users, Terminate(c) PROVE HookTypeOK' /\ CompilationInv'
BY TerminateCompilationKeeps, TerminateProcessKeeps

\* Steps of kids and their creators do not touch the compilations.
LEMMA HooksSame ==
  ASSUME HookTypeOK, CompilationInv, UNCHANGED hookVars PROVE HookTypeOK' /\ CompilationInv'
<1>1. UNCHANGED <<active, handle, info, obj, worker, call, misused, ub>>
  BY DEF hookVars
<1> QED
  BY <1>1
  DEF HookTypeOK, CompilationInv, TableInv, EntriesLive, OwnInv, OpenInv, HoldsInv, ClosingInv, CallerInv,
      WorkerCallInv, WorkerInv, SignalInv, Open, Holds, Sane

\* And the steps of the compilations do not touch the kids.
LEMMA KidsSame == ASSUME InjInv, UNCHANGED injVars PROVE InjInv'
BY DEF injVars, InjInv, InjTypeOK, KidInv, Count

\* Every step keeps the invariant of the compilations ...
LEMMA CompilationsStep == ASSUME HookTypeOK, CompilationInv, Next PROVE HookTypeOK' /\ CompilationInv'
<1>1. CASE EnableHooks \/ DisableHooks
  BY <1>1, SwitchKeeps
<1>2. ASSUME NEW c \in Callers, CallStep(c) PROVE HookTypeOK' /\ CompilationInv'
  BY <1>2, WaitKeeps, GetExitCodeKeeps, SignalTerminatedKeeps, EraseEntryKeeps, CloseHandleKeeps, OtherKeeps
  DEF CallStep
<1>3. ASSUME NEW c \in Users, UserChoice(c) PROVE HookTypeOK' /\ CompilationInv'
  <2>1. CASE \E k \in Kids : CreateOther(c, k)
    BY <2>1, OtherKeeps, Workers
  <2> QED
    BY <1>3, <2>1, CreateCompilerKeeps, ReplacementKeeps, ResumeWorkerKeeps, PollKeeps, LeaveKeeps, TerminateKeeps
    DEF UserChoice
<1>4. ASSUME NEW o \in Objects, WorkerStep(o) PROVE HookTypeOK' /\ CompilationInv'
  BY <1>4, StartKeeps, ResultKeeps, CompleteKeeps, SetDoneKeeps, DanglingKeeps, FallBackKeeps DEF WorkerStep
<1>5. ASSUME NEW h \in Handles, ProcessEnds(h) PROVE HookTypeOK' /\ CompilationInv'
  BY <1>5, ProcessEndsKeeps
<1>6. ASSUME NEW k \in Kids,
             InjectStep(k) \/ CreateGrandkid(k)
               \/ ((InjFault(k) \/ ResumeKid(k)) /\ UNCHANGED <<hookVars, data, pipe, parse>>)
      PROVE  HookTypeOK' /\ CompilationInv'
  <2>1. UNCHANGED hookVars
    BY <1>6 DEF InjectStep, NoLocalInit, ReadChunk, HooksEnabled, CreateGrandkid
  <2> QED
    BY <2>1, HooksSame
<1> QED
  BY <1>1, <1>2, <1>3, <1>4, <1>5, <1>6 DEF Next

\* ... and that of the injections.
LEMMA InjectionsStep == ASSUME InjInv, Next PROVE InjInv'
<1>1. CASE UNCHANGED injVars
  BY <1>1, KidsSame
<1>2. ASSUME NEW k \in Kids,
             \/ CreateSuspended(k) \/ InjFault(k) \/ ResumeKid(k) \/ CreatorStep(k) \/ KidStep(k)
             \/ Goes(k, "local", "written") /\ UNCHANGED <<kid, susp, asked, event, resumed>>
             \/ Runs(k, "init", "hooked") /\ UNCHANGED <<inj, susp, asked, event, resumed>>
      PROVE  InjInv'
  BY <1>2, CreateCounts, RefusedCounts, RedirectCounts, ResumeMainCounts, WrittenCounts, AfterLocalInitCounts,
     WaitInitDoneCounts, SuspendMainCounts, SignalKidCounts, ResumeKidCounts, HooksEnabledCounts, KidStepCounts
  DEF CreatorStep
<1>3. ASSUME NEW k \in Kids, InjectStep(k) PROVE InjInv'
  <2>1. CASE ReadChunk(k)
    BY <1>1, <2>1 DEF ReadChunk
  <2> QED
    BY <1>2, <1>3, <2>1 DEF InjectStep, NoLocalInit, HooksEnabled
<1>4. ASSUME NEW c \in Callers, CallStep(c) PROVE InjInv'
  BY <1>1, <1>4
  DEF CallStep, Wait, GetExitCode, SignalTerminated, EraseEntry, CloseHandle, Injected, kidVars
<1>5. ASSUME NEW c \in Users, UserChoice(c) PROVE InjInv'
  <2>1. CASE \E k \in Kids : CreateOther(c, k)
    BY <1>2, <2>1 DEF CreateOther
  <2> QED
    BY <1>1, <1>5, <2>1
    DEF UserChoice, CreateCompiler, CreateReplacement, ResumeWorker, Poll, Leave, Terminate, kidVars
<1>6. ASSUME NEW o \in Objects, WorkerStep(o) PROVE InjInv'
  BY <1>1, <1>6
  DEF WorkerStep, Start, Answered, FallBackFails, Complete, SetDone, Dangling, FallBack, kidVars
<1>7. CASE EnableHooks \/ DisableHooks \/ \E h \in Handles : ProcessEnds(h)
  BY <1>1, <1>7 DEF EnableHooks, DisableHooks, ProcessEnds, kidVars
<1>8. ASSUME NEW k \in Kids, CreateGrandkid(k) PROVE InjInv'
  BY <1>2, <1>8 DEF CreateGrandkid
<1> QED
  BY <1>2, <1>3, <1>4, <1>5, <1>6, <1>7, <1>8 DEF Next

\* The invariant holds in every behaviour.
LEMMA HooksHold == Spec => []HooksIInv
<1>1. HooksIInv /\ [Next]_vars => HooksIInv'
  <2> SUFFICES ASSUME HooksIInv, [Next]_vars PROVE HooksIInv'
    OBVIOUS
  <2>1. CASE Next
    BY <2>1, CompilationsStep, InjectionsStep DEF HooksIInv
  <2>2. CASE UNCHANGED vars
    BY <2>2, HooksSame, KidsSame DEF HooksIInv, vars, kidVars
  <2> QED
    BY <2>1, <2>2
<1> QED
  BY InitHooks, <1>1, PTL DEF Spec

\* The table of compilations is sound for any number of threads and handles: an
\* entry is an open event of a live object (ShortCircuit, EraseEntry), and a kid
\* is suspended when CreateProcess returns exactly if that was asked for.
THEOREM TableIsSound == Spec => []HooksInv
<1>1. HooksIInv => HooksInv
  <2> SUFFICES ASSUME HooksIInv PROVE HooksInv
    OBVIOUS
  <2>1. TypeOK
    BY DEF HooksIInv, HookTypeOK, HandleRec, ObjectRec, InjInv, InjTypeOK, TypeOK
  <2>2. EntriesLive
    BY DEF HooksIInv, CompilationInv, TableInv
  <2>3. SuspendedOnReturn
    BY DEF HooksIInv, InjInv, KidInv, Count, SuspendedOnReturn
  <2> QED
    BY <2>1, <2>2, <2>3 DEF HooksInv
<1> QED
  BY <1>1, HooksHold, PTL

\* The worker's bare pointer is good for every program that waits before it
\* closes a handle and does not terminate compilations (distributedCompile
\* against closeHandle and terminateProcess).
THEOREM PointersAreGood == Spec => []DanglingOnlyIfMisused
<1>1. HooksIInv => DanglingOnlyIfMisused
  BY DEF HooksIInv, CompilationInv, WorkerInv, Sane, Usable, DanglingOnlyIfMisused
<1> QED
  BY <1>1, HooksHold, PTL

\* A caller that waits gets the exit code of its own compilation, whichever
\* handle values are used again (complete before SetEvent).
THEOREM ExitCodesAreRight == Spec => []RightExitCode
<1>1. HooksIInv => RightExitCode
  BY DEF HooksIInv, CompilationInv, CallerInv, Holds, Open, RightExitCode
<1> QED
  BY <1>1, HooksHold, PTL

\* A kid that runs with the hooks knows the compilers and the port of the first
\* process, however deep in the tree it is and whatever their bytes, if they fit
\* one chunk (hookProcess and Initialize in hookProcess.cpp).
THEOREM DataIsInherited == Spec => []Inherited
<1>1. InjInv /\ HeirsInv /\ [Next]_vars => HeirsInv'
  <2>1. UNCHANGED vars => UNCHANGED kidVars
    BY DEF vars
  <2> QED
    BY <2>1, HeirsStep, HeirsSame
<1>2. HooksIInv => InjInv
  BY DEF HooksIInv
<1>3. HeirsInv => Inherited
  BY DEF HeirsInv, HeirInv, Heir, Fits, After, Inherited
<1> QED
  BY InitHeirs, <1>1, <1>2, <1>3, HooksHold, PTL DEF Spec
=============================================================================
