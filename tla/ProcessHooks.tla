---------------------------- MODULE ProcessHooks ----------------------------
(***************************************************************************)
(* A process whose CreateProcess, GetExitCodeProcess, CloseHandle and      *)
(* TerminateProcess are hooked (hookProcess.cpp, apiHooks.hpp).  Creating  *)
(* a compiler that has no replacement starts a worker thread that sends    *)
(* the command to the manager (Client); the caller gets an event in place  *)
(* of a process handle.  A compiler with a replacement is created as the   *)
(* replacement, and any other process gets the hooks too (Injection).      *)
(*                                                                         *)
(* The threads of the program are Users; a worker that falls back calls    *)
(* the hooked CreateProcess like any of them.  A section under the mutex   *)
(* is one action.                                                          *)
(***************************************************************************)
EXTENDS Integers, Injection, HookPipe

CONSTANTS Users, Handles,
          Objects,    \* bound on the DistributedCompilations ever made
          Codes,      \* exit codes of compilers
          Configs,    \* what register_compiler and set_port_name left in the data
          Spawning,   \* bound: a configuration in Spawning creates other processes and
                      \* replacements, any other one short-circuited compilers
          Parent      \* Parent[k]: the kid that creates k, Root for a user

Root == "root"
None == "none"

\* Threads, DistributedCompilations and the absence of one are different things.
ASSUME HooksAssumption == Users \cap Objects = {} /\ None \notin Objects
ASSUME ConfigsAssumption == Root \notin Kids /\ \A cfg \in Configs : IsHookData(cfg)

Garbage == -2            \* an exit code nobody wrote
Callers == Users \cup Objects

VARIABLES active,     \* APIHookHelper.active_, and MinHook has patched the functions
          handle,     \* free, event or process; with its signalled state and code
          info,       \* distributedCompilationInfo
          obj,        \* the DistributedCompilation objects
          worker,     \* where each one's worker thread is
          call,       \* what each caller is doing with a process it created
          misused,    \* objects closed before their event was set, or terminated
          ub,         \* came of using a freed object: "crashed", a "stray" signal
          data,       \* hook data of Root and the kids
          pipe, parse \* of each kid's Initialize
hookVars == <<active, handle, info, obj, worker, call, misused, ub>>
kidVars == <<injVars, data, pipe, parse>>
vars == <<hookVars, kidVars>>

Idle == [pc |-> "idle", h |-> None, o |-> None, got |-> Garbage, waited |-> FALSE]
NoObject == [mem |-> "none", h |-> None, completed |-> FALSE, exit |-> Garbage, params |-> FALSE]
FreeHandle == [kind |-> "free", signalled |-> FALSE, code |-> Garbage]

Init ==
  /\ InjInit
  /\ active = FALSE
  /\ handle = [h \in Handles |-> FreeHandle]
  /\ info = [h \in Handles |-> None]
  /\ obj = [o \in Objects |-> NoObject]
  /\ worker = [o \in Objects |-> "none"]
  /\ call = [c \in Callers |-> Idle]
  /\ misused = {} /\ ub = {}
  /\ \E cfg \in Configs : data = [p \in Kids \cup {Root} |-> IF p = Root THEN cfg ELSE NoData]
  /\ pipe = [k \in Kids |-> <<>>]
  /\ parse = [k \in Kids |-> ParseStart]

Alive == "crashed" \notin ub
Free(h) == handle[h].kind = "free"
NextHandle == CHOOSE h \in Handles : Free(h)
NextObject == CHOOSE o \in Objects : obj[o].mem = "none"
Replacement == {data[Root].files[p] : p \in DOMAIN data[Root].files}

\* enableHooks, disableHooks: the client disables them when the command it
\* ran has ended and its handle is closed (client/__init__.py).
EnableHooks ==
  /\ ~active
  /\ active' = TRUE
  /\ UNCHANGED <<handle, info, obj, worker, call, misused, ub, kidVars>>
DisableHooks ==
  /\ active /\ \A c \in Callers : call[c] = Idle
  /\ \A h \in Handles : Free(h)
  /\ active' = FALSE
  /\ UNCHANGED <<handle, info, obj, worker, call, misused, ub, kidVars>>

(***************************************************************************)
(* CreateProcess.                                                          *)
(***************************************************************************)
\* shortCircuit and startThread.  insert keeps an entry that is there; the
\* object is owned by the map alone once shortCircuit returns.
ShortCircuit(c, h, o, suspended) ==
  /\ active /\ <<>> \in Replacement
  /\ Free(h) /\ h = NextHandle /\ obj[o].mem = "none" /\ o = NextObject
  /\ handle' = [handle EXCEPT ![h] = [FreeHandle EXCEPT !.kind = "event"]]
  /\ info' = [info EXCEPT ![h] = IF @ = None THEN o ELSE @]
  /\ obj' = [obj EXCEPT ![o] = [NoObject EXCEPT !.h = h, !.params = TRUE,
                                  !.mem = IF info[h] = None THEN "alive" ELSE "freed"]]
  /\ call' = [call EXCEPT ![c] = [Idle EXCEPT !.pc = IF suspended THEN "suspended" ELSE "wait",
                                                !.h = h, !.o = o]]

\* The original CreateProcess, with the replacement.
RealProcess(c, h) ==
  /\ active /\ \E r \in Replacement : r # <<>>
  /\ Free(h) /\ h = NextHandle
  /\ handle' = [handle EXCEPT ![h] = [FreeHandle EXCEPT !.kind = "process"]]
  /\ call' = [call EXCEPT ![c] = [Idle EXCEPT !.pc = "wait", !.h = h]]
  /\ UNCHANGED <<info, obj>>

CreateCompiler(c, h, o) ==
  /\ Alive /\ c \in Users /\ call[c] = Idle /\ data[Root] \notin Spawning
  /\ \E s \in BOOLEAN :
       /\ ShortCircuit(c, h, o, s)
       /\ worker' = [worker EXCEPT ![o] = IF s THEN "suspended" ELSE "start"]
  /\ UNCHANGED <<active, misused, ub, kidVars>>
CreateReplacement(c, h) ==
  /\ Alive /\ c \in Users /\ call[c] = Idle
  /\ RealProcess(c, h)
  /\ UNCHANGED <<active, worker, misused, ub, kidVars>>
\* Any other process: hookProcess fills the pipe before the injection.
CreateOther(c, k) ==
  /\ Alive /\ c \in Users /\ call[c] = Idle /\ active /\ Parent[k] = Root
  /\ data[Root] \in Spawning
  /\ CreateSuspended(k)
  /\ pipe' = [pipe EXCEPT ![k] = Payload(data[Root])]
  /\ call' = [call EXCEPT ![c] = [Idle EXCEPT !.pc = "inject", !.o = k]]
  /\ UNCHANGED <<active, handle, info, obj, worker, misused, ub, data, parse>>
Injected(c) ==
  /\ call[c].pc = "inject" /\ inj[call[c].o] \in {"returned", "refused"}
  /\ call' = [call EXCEPT ![c] = Idle]
  /\ UNCHANGED <<active, handle, info, obj, worker, misused, ub, kidVars>>
\* ... and a kid that runs with the hooks does the same.
CreateGrandkid(k) ==
  /\ Parent[k] \in Kids /\ kid[Parent[k]] = "ran" /\ data[Parent[k]] # NoData
  /\ CreateSuspended(k)
  /\ pipe' = [pipe EXCEPT ![k] = Payload(data[Parent[k]])]
  /\ UNCHANGED <<hookVars, data, parse>>

(***************************************************************************)
(* The worker thread: DistributedCompilation::distributedCompile.          *)
(***************************************************************************)
\* The worker keeps a bare pointer to its object.
Usable(o) ==
  /\ obj[o].mem = "alive"
  /\ worker[o] \in {"start", "compile"} => obj[o].params

ResumeWorker(c) ==
  /\ Alive /\ call[c].pc = "suspended"
  /\ call' = [call EXCEPT ![c].pc = "wait"]
  /\ worker' = [worker EXCEPT ![call[c].o] = "start"]
  /\ UNCHANGED <<active, handle, info, obj, misused, ub, kidVars>>

Start(o) ==
  /\ Alive /\ worker[o] = "start" /\ Usable(o)
  /\ worker' = [worker EXCEPT ![o] = "compile"]
  /\ UNCHANGED <<active, handle, info, obj, call, misused, ub, kidVars>>

\* ::distributedCompile returns an exit code; the worker's own call record
\* holds it.
Answered(o) ==
  /\ Alive /\ worker[o] = "compile" /\ Usable(o)
  /\ \E r \in Codes : call' = [call EXCEPT ![o] = [Idle EXCEPT !.got = r]]
  /\ worker' = [worker EXCEPT ![o] = "result"]
  /\ UNCHANGED <<active, handle, info, obj, misused, ub, kidVars>>

\* fallback: the CreateProcess it calls is the hooked one, so the compiler is
\* short-circuited again and the worker waits for another worker.
FallBack(o, h, n) ==
  /\ Alive /\ worker[o] = "compile" /\ Usable(o)
  /\ ShortCircuit(o, h, n, FALSE)
  /\ worker' = [worker EXCEPT ![o] = "fallback", ![n] = "start"]
  /\ UNCHANGED <<active, misused, ub, kidVars>>
FallBackFails(o) ==
  /\ Alive /\ worker[o] = "compile" /\ Usable(o)
  /\ call' = [call EXCEPT ![o] = [Idle EXCEPT !.got = -1]]
  /\ worker' = [worker EXCEPT ![o] = "result"]
  /\ UNCHANGED <<active, handle, info, obj, misused, ub, kidVars>>

\* DistributedCompilation::complete
Completed(o, code) ==
  [obj EXCEPT ![o] = IF @.completed THEN @
                     ELSE [@ EXCEPT !.completed = TRUE, !.exit = code, !.params = FALSE]]

\* Mutant: the event is set before the result is stored.
X_SignalledFirst(o) ==
  /\ Alive /\ worker[o] = "result" /\ Usable(o)
  /\ worker' = [worker EXCEPT ![o] = "unlocked"]
  /\ handle' = [handle EXCEPT ![obj[o].h].signalled = TRUE]
  /\ UNCHANGED <<active, info, obj, call, misused, ub, kidVars>>
Complete(o) ==
  /\ Alive /\ worker[o] = "result" /\ Usable(o)
  /\ obj' = Completed(o, call[o].got)
  /\ worker' = [worker EXCEPT ![o] = IF obj[o].completed THEN "done" ELSE "unlocked"]
  /\ call' = [call EXCEPT ![o] = Idle]
  /\ UNCHANGED <<active, handle, info, misused, ub, kidVars>>

\* Mutant: the event is not set.
X_NotSignalled(o) ==
  /\ Alive /\ worker[o] = "unlocked" /\ Usable(o)
  /\ worker' = [worker EXCEPT ![o] = "done"]
  /\ UNCHANGED <<active, handle, info, obj, call, misused, ub, kidVars>>
SetDone(o) ==
  /\ Alive /\ worker[o] = "unlocked" /\ Usable(o)
  /\ worker' = [worker EXCEPT ![o] = "done"]
  /\ handle' = [handle EXCEPT ![obj[o].h].signalled = TRUE]
  /\ UNCHANGED <<active, info, obj, call, misused, ub, kidVars>>

\* The object is gone, or its parameters are: the process crashes, the worker
\* ends, or it sets the event its stale handle names by then.
Dangling(o) ==
  /\ Alive /\ worker[o] \in {"start", "compile", "result", "unlocked"} /\ ~Usable(o)
  /\ worker' = [worker EXCEPT ![o] = "done"]
  /\ call' = [call EXCEPT ![o] = Idle]
  /\ \/ ub' = ub \cup {"crashed"} /\ UNCHANGED handle
     \/ /\ obj[o].mem = "freed" \/ worker[o] = "compile"
        /\ UNCHANGED <<ub, handle>>
     \/ /\ obj[o].mem = "freed" /\ handle[obj[o].h].kind = "event"
        /\ handle' = [handle EXCEPT ![obj[o].h].signalled = TRUE]
        /\ ub' = ub \cup {"stray"}
  /\ UNCHANGED <<active, info, obj, misused, kidVars>>

(***************************************************************************)
(* What a caller does with the handle: wait, ask for the exit code, close. *)
(***************************************************************************)
ProcessEnds(h) ==
  /\ handle[h].kind = "process" /\ ~handle[h].signalled
  /\ \E r \in Codes : handle' = [handle EXCEPT ![h].signalled = TRUE, ![h].code = r]
  /\ UNCHANGED <<active, info, obj, worker, call, misused, ub, kidVars>>

Wait(c) ==
  /\ Alive /\ call[c].pc = "wait" /\ handle[call[c].h].signalled
  /\ call' = [call EXCEPT ![c].pc = "read", ![c].waited = TRUE]
  /\ UNCHANGED <<active, handle, info, obj, worker, misused, ub, kidVars>>

\* getExitCodeProcess: the code, or Garbage when it leaves *lpExitCode alone.
ExitCode(h) ==
  IF info[h] # None /\ active
  THEN IF obj[info[h]].completed THEN obj[info[h]].exit ELSE Garbage
  ELSE handle[h].code
GetExitCode(c) ==
  /\ Alive /\ call[c].pc = "read"
  /\ call' = [call EXCEPT ![c].pc = "close", ![c].got = ExitCode(call[c].h)]
  /\ UNCHANGED <<active, handle, info, obj, worker, misused, ub, kidVars>>

\* The object the caller is about to close too early, if it has one.
Early(c) == IF handle[call[c].h].signalled THEN {} ELSE {call[c].o} \cap Objects

\* A caller that asks without waiting.  An unfinished compilation is reported
\* as success without a code, which the caller may take for the end.
Poll(c) ==
  /\ Alive /\ c \in Users /\ call[c].pc = "wait"
  /\ handle[call[c].h].kind = "process" => handle[call[c].h].signalled
  /\ call' = [call EXCEPT ![c].pc = "close", ![c].got = ExitCode(call[c].h)]
  /\ misused' = misused \cup Early(c)
  /\ UNCHANGED <<active, handle, info, obj, worker, ub, kidVars>>
Leave(c) ==
  /\ Alive /\ c \in Users /\ call[c].pc \in {"wait", "suspended"}
  /\ call' = [call EXCEPT ![c].pc = "close"]
  /\ misused' = misused \cup Early(c)
  /\ UNCHANGED <<active, handle, info, obj, worker, ub, kidVars>>

\* terminateProcess: complete under the mutex, then SetEvent.
Terminate(c) ==
  /\ Alive /\ c \in Users /\ call[c].pc = "wait"
  /\ \E r \in Codes :
       IF info[call[c].h] # None /\ active
       THEN /\ obj' = Completed(info[call[c].h], r)
            /\ misused' = misused \cup {info[call[c].h]}
            /\ call' = [call EXCEPT ![c].pc = "signal"]
            /\ UNCHANGED handle
       ELSE /\ handle' = [handle EXCEPT ![call[c].h] =
                            IF @.signalled THEN @ ELSE [@ EXCEPT !.signalled = TRUE, !.code = r]]
            /\ UNCHANGED <<obj, misused, call>>
  /\ UNCHANGED <<active, info, worker, ub, kidVars>>
SignalTerminated(c) ==
  /\ Alive /\ call[c].pc = "signal"
  /\ handle' = [handle EXCEPT ![call[c].h].signalled = TRUE]
  /\ call' = [call EXCEPT ![c].pc = "wait"]
  /\ UNCHANGED <<active, info, obj, worker, misused, ub, kidVars>>

\* Mutant: the entry stays in the map.
X_NotErased(c) ==
  /\ Alive /\ call[c].pc = "close"
  /\ call' = [call EXCEPT ![c].pc = "closing"]
  /\ UNCHANGED <<active, handle, info, obj, worker, misused, ub, kidVars>>
\* closeHandle: the entry is erased under the mutex, and the object with it;
\* the handle is closed after the mutex is left.
EraseEntry(c) ==
  /\ Alive /\ call[c].pc = "close"
  /\ LET h == call[c].h
     IN IF info[h] # None /\ active
        THEN /\ obj' = [obj EXCEPT ![info[h]].mem = "freed", ![info[h]].params = FALSE]
             /\ info' = [info EXCEPT ![h] = None]
        ELSE UNCHANGED <<obj, info>>
  /\ call' = [call EXCEPT ![c].pc = "closing"]
  /\ UNCHANGED <<active, handle, worker, misused, ub, kidVars>>
\* A worker takes the code of its fallback for its result.
CloseHandle(c) ==
  /\ Alive /\ call[c].pc = "closing"
  /\ handle' = [handle EXCEPT ![call[c].h] = FreeHandle]
  /\ call' = [call EXCEPT ![c] = IF c \in Users THEN Idle ELSE [Idle EXCEPT !.got = call[c].got]]
  /\ worker' = IF c \in Users THEN worker ELSE [worker EXCEPT ![c] = "result"]
  /\ UNCHANGED <<active, info, obj, misused, ub, kidVars>>

(***************************************************************************)
(* Initialize in a kid.                                                    *)
(***************************************************************************)
\* There is no localInitFunc.
NoLocalInit(k) ==
  /\ Goes(k, "local", "written")
  /\ UNCHANGED <<kid, susp, asked, event, resumed, hookVars, data, pipe, parse>>
ReadChunk(k) ==
  /\ kid[k] = "init" /\ susp[k] = 0 /\ ~parse[k].done /\ pipe[k] # <<>>
  /\ LET n == IF Len(pipe[k]) < Chunk THEN Len(pipe[k]) ELSE Chunk
     IN /\ parse' = [parse EXCEPT ![k] = ParseChunk(@, SubSeq(pipe[k], 1, n))]
        /\ pipe' = [pipe EXCEPT ![k] = SubSeq(@, n + 1, Len(@))]
  /\ UNCHANGED <<hookVars, injVars, data>>
HooksEnabled(k) ==
  /\ parse[k].done
  /\ Runs(k, "init", "hooked")
  /\ data' = [data EXCEPT ![k] = parse[k].data]
  /\ UNCHANGED <<inj, susp, asked, event, resumed, hookVars, pipe, parse>>

WorkerStep(o) ==
  \/ Start(o) \/ Answered(o) \/ FallBackFails(o) \/ Complete(o) \/ SetDone(o) \/ Dangling(o)
  \/ \E h \in Handles, n \in Objects : FallBack(o, h, n)
CallStep(c) ==
  Wait(c) \/ GetExitCode(c) \/ SignalTerminated(c) \/ EraseEntry(c) \/ CloseHandle(c) \/ Injected(c)
InjectStep(k) ==
  \/ NoLocalInit(k) \/ ReadChunk(k) \/ HooksEnabled(k)
  \/ (CreatorStep(k) \/ KidStep(k)) /\ UNCHANGED <<hookVars, data, pipe, parse>>
UserChoice(c) ==
  \/ \E h \in Handles, o \in Objects : CreateCompiler(c, h, o)
  \/ \E h \in Handles : CreateReplacement(c, h)
  \/ \E k \in Kids : CreateOther(c, k)
  \/ ResumeWorker(c) \/ Poll(c) \/ Leave(c) \/ Terminate(c)
Next ==
  \/ EnableHooks \/ DisableHooks
  \/ \E c \in Callers : CallStep(c)
  \/ \E c \in Users : UserChoice(c)
  \/ \E o \in Objects : WorkerStep(o)
  \/ \E h \in Handles : ProcessEnds(h)
  \/ \E k \in Kids :
       \/ InjectStep(k) \/ CreateGrandkid(k)
       \/ (InjFault(k) \/ ResumeKid(k)) /\ UNCHANGED <<hookVars, data, pipe, parse>>
Spec == Init /\ [][Next]_vars

\* Threads and processes run on; what a user does next is its own choice.
Fairness ==
  /\ \A c \in Callers : WF_vars(CallStep(c))
  /\ \A o \in Objects : WF_vars(WorkerStep(o))
  /\ \A h \in Handles : WF_vars(ProcessEnds(h))
  /\ \A k \in Kids : WF_vars(InjectStep(k))
FairSpec == Spec /\ Fairness

(***************************************************************************)
(* Properties.                                                             *)
(***************************************************************************)
\* Type invariant.
TypeOK ==
  /\ inj \in [Kids -> InjPlaces] /\ kid \in [Kids -> KidPlaces] /\ susp \in [Kids -> 0..1]
  /\ info \in [Handles -> Objects \cup {None}]
  /\ \A h \in Handles : handle[h].kind \in {"free", "event", "process"}
  /\ \A o \in Objects : obj[o].mem \in {"none", "alive", "freed"}
  /\ misused \subseteq Objects

\* The worker's bare pointer is good: a compilation is used after it was
\* freed, or its parameters after complete() dropped them, only when the
\* program closed the handle before it was signalled or terminated the
\* compilation (closeHandle and terminateProcess against distributedCompile);
\* the stray signal that such a use can send is the one way it spreads.
DanglingOnlyIfMisused ==
  \A o \in Objects :
    worker[o] \in {"start", "compile", "result", "unlocked"} /\ ~Usable(o) =>
      o \in misused \/ "stray" \in ub

\* A caller that waits before it asks gets the exit code of its own
\* compilation, never one left out or one of another compilation whose
\* handle had the same value (complete before SetEvent, getExitCodeProcess).
RightExitCode ==
  \A c \in Callers :
    call[c].pc = "close" /\ call[c].waited /\ call[c].o \in Objects /\ "stray" \notin ub =>
      obj[call[c].o].completed /\ call[c].got = obj[call[c].o].exit

\* Every entry of distributedCompilationInfo is an open event of a live
\* object, so a handle value the system gives out again finds no old entry
\* (closeHandle erases before it closes).
EntriesLive ==
  \A h \in Handles : info[h] # None =>
    handle[h].kind = "event" /\ obj[info[h]].h = h /\ obj[info[h]].mem = "alive"

\* The table of compilations is sound, and CreateProcess keeps its promise about
\* suspended processes, while threads create, close and inject.
HooksInv == TypeOK /\ EntriesLive /\ SuspendedOnReturn

\* A kid that runs with the hooks knows the compilers and the port its
\* creator knew, also down the tree, as long as they fit one chunk of
\* Initialize's buffer.
Inherited ==
  \A k \in Kids :
    kid[k] \in {"hooked", "waiting", "main", "ran"} /\ inj[k] # "refused"
      /\ Len(Payload(data[Root])) <= Chunk => data[k] = data[Root]

\* A caller that waits for a compiler gets on, also through a fallback and
\* whoever terminates it, unless the process crashed on a freed object.
WaitersGetOn ==
  \A c \in Callers : call[c].pc = "wait" ~>
    call[c].pc # "wait" \/ ub # {} \/ call[c].o \in misused
=============================================================================
