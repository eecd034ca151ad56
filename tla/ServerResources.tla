--------------------------- MODULE ServerResources ---------------------------
(***************************************************************************)
(* The compilers and precompiled headers a server shares between sessions: *)
(* CompilerRepository and PCHRepository (server/compiler_repository.py,    *)
(* server/pch_repository.py), and how CompileSession (server/runner.py)    *)
(* uses them.  The first session that needs a resource downloads it; the   *)
(* others leave a handler with the repository, which calls the handlers    *)
(* one after the other, in the handler of the downloading session, when    *)
(* the resource is there.  An exception in one of them ends the loop.      *)
(*                                                                         *)
(* All sessions use the same compiler and, if any, the same PCH.           *)
(***************************************************************************)
EXTENDS Naturals, Sequences

CONSTANTS
  Sessions,      \* the CompileSession objects
  None,          \* no session
  Faults         \* what may happen, a subset of AllFaults

ASSUME NoneAssumption == None \notin Sessions

\* A session that waits 60 seconds for a message; a session cancelled again,
\* because the session its task was completed by has failed.
AllFaults == {"timeout", "secondCancel"}

ASSUME FaultsAssumption == Faults \subseteq AllFaults

Resources == {"compiler", "pch"}

VARIABLES
  status,    \* absent, in the set of partial resources, or ready
  waiters,   \* the handlers kept by each repository
  state,     \* CompileSession.state, with the callback it waits for
  live,      \* the session is in ServerRunner.sessions
  timer,     \* selfdestruct: no attribute, scheduled, or an event that has run
  cancelPending,
  uses,      \* the resources of the session's task
  required,  \* compiler_required and pch_required, until the resource is there
  called,    \* the repository whose loop over its waiters is running
  calls,     \* the handlers this loop still has to call
  caller,    \* the session whose handler runs this loop
  twice      \* ghost: the sessions that were cancelled twice

sessionVars == <<state, live, timer, cancelPending, uses, required>>
loopVars == <<called, calls, caller>>
vars == <<status, waiters, sessionVars, loopVars, twice>>

\* "writing" is StateDownloadingPCH with buffer_to_file in the thread pool, and
\* "waiting" and "compiling" are StateRunningCompiler before and after
\* __run_compiler.
States == {"new", "headers", "downloadingCompiler", "downloadingPCH", "writing",
           "waiting", "compiling", "cancelled", "done"}

TypeOK ==
  /\ status \in [Resources -> {"absent", "partial", "ready"}]
  /\ waiters \in [Resources -> Seq(Sessions)]
  /\ state \in [Sessions -> States]
  /\ live \in [Sessions -> BOOLEAN]
  /\ timer \in [Sessions -> {"unset", "armed", "fired"}]
  /\ cancelPending \in [Sessions -> BOOLEAN]
  /\ uses \in [Sessions -> SUBSET Resources]
  /\ required \in [Sessions -> SUBSET Resources]
  /\ called \in Resources
  /\ calls \in Seq(Sessions)
  /\ caller \in Sessions \cup {None}
  /\ twice \subseteq Sessions

\* A compiler of an earlier run of the server is still on disk.
Init ==
  /\ status \in [compiler : {"absent", "ready"}, pch : {"absent"}]
  /\ waiters = [r \in Resources |-> <<>>]
  /\ state = [s \in Sessions |-> "new"]
  /\ live = [s \in Sessions |-> FALSE]
  /\ timer = [s \in Sessions |-> "unset"]
  /\ cancelPending = [s \in Sessions |-> FALSE]
  /\ uses = [s \in Sessions |-> {}]
  /\ required = [s \in Sessions |-> {}]
  /\ called = "compiler"
  /\ calls = <<>>
  /\ caller = None
  /\ twice = {}

-----------------------------------------------------------------------------
(* CompileSession.compile and the handlers it leaves with the repositories. *)

Goto(s, here) == state' = [state EXCEPT ![s] = here]

\* session_done
Finish(s) ==
  /\ live' = [live EXCEPT ![s] = FALSE]
  /\ timer' = [timer EXCEPT ![s] = "unset"]

\* __run_compiler raises for a session that is over: cancel_session asserts
\* that it was not called before, session_done that the session is not
\* completed, and scheduler.cancel that the event has not run.
Raises(s) == IF cancelPending[s] THEN ~live[s] ELSE timer[s] = "fired"

RunCompiler(s) ==
  /\ \/ /\ Raises(s)
        /\ Goto(s, IF cancelPending[s] THEN "cancelled" ELSE "waiting")
        /\ UNCHANGED <<live, timer>>
     \/ /\ ~Raises(s)
        /\ cancelPending[s]
        /\ Goto(s, "cancelled")
        /\ Finish(s)
     \/ /\ ~Raises(s)
        /\ ~cancelPending[s]
        /\ Goto(s, "compiling")
        /\ timer' = [timer EXCEPT ![s] = "unset"]
        /\ UNCHANGED live
  /\ UNCHANGED waiters

WaitFor(s, r) ==
  /\ waiters' = [waiters EXCEPT ![r] = Append(@, s)]
  /\ Goto(s, "waiting")
  /\ UNCHANGED <<live, timer>>

\* Mutant: a session that waited for the PCH does not look at the compiler.
Handler_SkipsCompiler(s, r) == RunCompiler(s)

\* What the repository of r calls: __check_compiler_files or __run_compiler.
Handler(s, r) ==
  IF r = "pch" /\ status["compiler"] # "ready" THEN WaitFor(s, "compiler") ELSE RunCompiler(s)

HandlerRaises(s, r) == (r = "compiler" \/ status["compiler"] = "ready") /\ Raises(s)

Compile(s) ==
  IF "pch" \in uses[s] /\ status["pch"] # "ready" THEN WaitFor(s, "pch") ELSE Handler(s, "pch")

-----------------------------------------------------------------------------
(* The event loop runs one handler at a time.                              *)

LoopFree == caller = None

\* SERVER_TASK: compiler_required and register_file give the session every
\* resource that nobody has and nobody downloads.
NewSession(s) ==
  /\ LoopFree
  /\ state[s] = "new"
  /\ \E use \in {{"compiler"}, Resources} :
       LET missing == {r \in use : status[r] = "absent"}
       IN  /\ uses' = [uses EXCEPT ![s] = use]
           /\ required' = [required EXCEPT ![s] = missing]
           /\ status' = [r \in Resources |-> IF r \in missing THEN "partial" ELSE status[r]]
  /\ Goto(s, "headers")
  /\ live' = [live EXCEPT ![s] = TRUE]
  /\ timer' = [timer EXCEPT ![s] = "armed"]
  /\ UNCHANGED <<waiters, cancelPending, loopVars>>

\* process_msg puts off the self-destruct event; timer stays "armed".
GotTaskFiles(s) ==
  /\ LoopFree
  /\ live[s]
  /\ state[s] = "headers"
  /\ IF required[s] = {}
       THEN Compile(s)
       ELSE /\ Goto(s, IF "compiler" \in required[s] THEN "downloadingCompiler"
                                                     ELSE "downloadingPCH")
            /\ UNCHANGED <<waiters, live, timer>>
  /\ UNCHANGED <<status, cancelPending, uses, required, loopVars>>

\* set_compiler_ready and file_completed, up to the loop.  Nobody looks at the
\* list of waiters once the resource is ready.
Ready(s, r) ==
  /\ status' = [status EXCEPT ![r] = "ready"]
  /\ waiters' = [waiters EXCEPT ![r] = <<>>]
  /\ called' = r
  /\ calls' = waiters[r]
  /\ caller' = s
  /\ required' = [required EXCEPT ![s] = @ \ {r}]
  /\ UNCHANGED <<state, live, timer, cancelPending, uses>>

\* The last part of the compiler is there.  If a waiter raises, the message is
\* delivered again but only finds compiler_data deleted, and raises.
CompilerDownloaded(s) ==
  /\ LoopFree
  /\ live[s]
  /\ state[s] = "downloadingCompiler"
  /\ "compiler" \in required[s]
  /\ Ready(s, "compiler")

\* The last part of the PCH is there.
PCHReceived(s) ==
  /\ LoopFree
  /\ live[s]
  /\ state[s] = "downloadingPCH"
  /\ Goto(s, "writing")
  /\ UNCHANGED <<status, waiters, live, timer, cancelPending, uses, required, loopVars>>

\* pch_completed, also when the session has timed out meanwhile.
PCHCompleted(s) ==
  /\ LoopFree
  /\ state[s] = "writing"
  /\ "pch" \in required[s]
  /\ Ready(s, "pch")

\* One round of the loop over the waiters.
CallHandler ==
  /\ calls # <<>>
  /\ Handler(Head(calls), called)
  /\ IF HandlerRaises(Head(calls), called)
       THEN calls' = <<>> /\ caller' = None
       ELSE calls' = Tail(calls) /\ UNCHANGED caller
  /\ UNCHANGED <<status, cancelPending, uses, required, called>>

\* The rest of the handler that ran the loop.
AfterCalls ==
  /\ caller # None
  /\ calls = <<>>
  /\ IF called = "compiler" /\ "pch" \in required[caller]
       THEN Goto(caller, "downloadingPCH") /\ UNCHANGED <<waiters, live, timer>>
       ELSE Compile(caller)
  /\ caller' = None
  /\ UNCHANGED <<status, cancelPending, uses, required, called, calls>>

\* Mutant: a session can be cancelled in every state.
GotCancel_AnyState(s) ==
  /\ LoopFree
  /\ live[s]
  /\ Goto(s, "cancelled")
  /\ Finish(s)
  /\ UNCHANGED <<status, waiters, cancelPending, uses, required, loopVars, twice>>

GotCancel(s) ==
  /\ LoopFree
  /\ live[s]
  /\ cancelPending[s] => "secondCancel" \in Faults
  /\ IF state[s] \in {"waiting", "compiling"}
       THEN Goto(s, "cancelled") /\ Finish(s) /\ UNCHANGED cancelPending
       ELSE /\ cancelPending' = [cancelPending EXCEPT ![s] = TRUE]
            /\ UNCHANGED <<state, live, timer>>
  /\ twice' = IF cancelPending[s] THEN twice \cup {s} ELSE twice
  /\ UNCHANGED <<status, waiters, uses, required, loopVars>>

\* The compiler ends and with it, for this module, the session.
CompileCompleted(s) ==
  /\ LoopFree
  /\ state[s] = "compiling"
  /\ Goto(s, "done")
  /\ Finish(s)
  /\ UNCHANGED <<status, waiters, cancelPending, uses, required, loopVars>>

\* Mutant: the session stays in ServerRunner.sessions.
SelfDestruct_Stays(s) ==
  /\ "timeout" \in Faults
  /\ LoopFree
  /\ timer[s] = "armed"
  /\ timer' = [timer EXCEPT ![s] = "fired"]
  /\ UNCHANGED <<status, waiters, state, live, cancelPending, uses, required, loopVars>>

SelfDestruct(s) ==
  /\ "timeout" \in Faults
  /\ LoopFree
  /\ timer[s] = "armed"
  /\ timer' = [timer EXCEPT ![s] = "fired"]
  /\ live' = [live EXCEPT ![s] = FALSE]
  /\ UNCHANGED <<status, waiters, state, cancelPending, uses, required, loopVars>>

-----------------------------------------------------------------------------
Work(s) ==
  \/ GotTaskFiles(s)
  \/ CompilerDownloaded(s)
  \/ PCHReceived(s)
  \/ PCHCompleted(s)
  \/ CompileCompleted(s)

Loop == CallHandler \/ AfterCalls

Next ==
  \/ \E s \in Sessions : GotCancel(s)
  \/ /\ Loop \/ \E s \in Sessions : NewSession(s) \/ Work(s) \/ SelfDestruct(s)
     /\ UNCHANGED twice

Spec == Init /\ [][Next]_vars

\* The event loop goes on, files get written and compilers end.  The manager
\* sends what it was asked for, or the self-destruct event comes.
Fairness ==
  /\ WF_vars(Loop /\ UNCHANGED twice)
  /\ \A s \in Sessions : WF_vars((Work(s) \/ SelfDestruct(s)) /\ UNCHANGED twice)

FairSpec == Spec /\ Fairness

-----------------------------------------------------------------------------
(* Properties.                                                             *)

\* Session s is to bring resource r.
Downloads(s, r) ==
  /\ r \in required[s]
  /\ \/ state[s] \in {"headers", "downloadingCompiler"} /\ live[s]
     \/ r = "pch" /\ state[s] = "downloadingPCH" /\ live[s]
     \/ r = "pch" /\ state[s] = "writing"

\* A download other sessions may depend on is given up only by the self-destruct
\* event of the session that was to bring it, never by a cancel: "Some states do
\* not allow cancellation. For instance, Compiler and PCH downloads. These parts
\* are 'bigger' than this session" (runner.py:430-432).
PartialHasDownloader ==
  \A r \in Resources : status[r] = "partial" =>
    \E s \in Sessions : Downloads(s, r) \/ (r \in required[s] /\ timer[s] = "fired")

\* A resource is downloaded once, and what a session downloads is still partial
\* when it is complete: the assertions of compiler_repository.py:49-50 and the
\* lookup of pch_repository.py:32.
OneDownloader ==
  \A r \in Resources : \A s, t \in Sessions :
    Downloads(s, r) /\ Downloads(t, r) => s = t /\ status[r] = "partial"

\* The compiler is only started with everything the task uses in place, also
\* when the session had to wait for both.
CompilesWithResources ==
  \A s \in Sessions : state[s] = "compiling" => \A r \in uses[s] : status[r] = "ready"

Elements(q) == {q[i] : i \in DOMAIN q}

\* A session that waits is known to a repository that will call it, in spite of
\* cancels before, during and after the download, unless a session that has
\* timed out or was cancelled twice raises in the loop in front of it.
NoWaiterLost ==
  \A s \in Sessions : state[s] = "waiting" =>
    \/ s \in Elements(calls)
    \/ \E r \in uses[s] : status[r] = "partial" /\ s \in Elements(waiters[r])
    \/ \E t \in Sessions : timer[t] = "fired" \/ t \in twice

\* Downloads and the waiters for them fit together: one session brings a resource,
\* and those that wait for it are called when it is there.
ResourceInv == TypeOK /\ PartialHasDownloader /\ OneDownloader /\ NoWaiterLost

\* Every session leaves ServerRunner.sessions, whether or not what it waits for
\* ever comes and whoever raises in the loop over the waiters.
SessionsLeave == \A s \in Sessions : live[s] ~> ~live[s]

=============================================================================
