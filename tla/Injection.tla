----------------------------- MODULE Injection -----------------------------
(***************************************************************************)
(* Loading a DLL into a process that is being created (dllInject.cpp and   *)
(* Loader/loader.cpp).  The creator starts the process suspended, points   *)
(* its main thread at the loader and resumes it; the loader calls the      *)
(* DLL's Initialize and then the program's own entry.  A creator that      *)
(* wanted the process suspended gives Initialize an event to set, waits    *)
(* for it and suspends the thread.  A process is a kid; what Initialize    *)
(* reads from its pipe is left to the modules that extend this one.        *)
(***************************************************************************)
EXTENDS Naturals

CONSTANTS Kids,
          Suspendable,  \* kids whose creator may ask for CREATE_SUSPENDED
          Faults        \* kids for which steps of the injection may fail

ASSUME InjectionAssumption == Suspendable \subseteq Kids /\ Faults \subseteq Kids

VARIABLES inj,     \* where injectLibrary is, in the creator's thread
          kid,     \* where the kid's main thread is
          susp,    \* its suspend count
          asked,   \* CREATE_SUSPENDED was asked for
          event,   \* initDone, a manual-reset event: none, clear, set
          resumed  \* the creator resumed the kid after CreateProcess
injVars == <<inj, kid, susp, asked, event, resumed>>

InjPlaces == {"none", "created", "redirected", "local", "written", "wait", "suspend",
              "signal", "refused", "returned"}
KidPlaces == {"none", "entry", "loader", "init", "hooked", "waiting", "main", "ran", "ended"}

InjInit ==
  /\ inj = [k \in Kids |-> "none"]
  /\ kid = [k \in Kids |-> "none"]
  /\ susp = [k \in Kids |-> 0]
  /\ asked = [k \in Kids |-> FALSE]
  /\ event = [k \in Kids |-> "none"]
  /\ resumed = [k \in Kids |-> FALSE]

\* The creator's thread goes from one place of injectLibrary to the next.
Goes(k, from, to) == inj[k] = from /\ inj' = [inj EXCEPT ![k] = to]
\* The kid's main thread does the same; it runs only while not suspended.
Runs(k, from, to) == kid[k] = from /\ susp[k] = 0 /\ kid' = [kid EXCEPT ![k] = to]

\* The original CreateProcess, with CREATE_SUSPENDED added.
CreateSuspended(k) ==
  /\ Goes(k, "none", "created")
  /\ kid' = [kid EXCEPT ![k] = "entry"]
  /\ susp' = [susp EXCEPT ![k] = 1]
  /\ \E a \in (IF k \in Suspendable THEN BOOLEAN ELSE {FALSE}) : asked' = [asked EXCEPT ![k] = a]
  /\ UNCHANGED <<event, resumed>>

\* Early returns: no such module, a 64-bit kid of a 32-bit creator, no memory.
\* The thread has not been resumed, and the callers ignore the result.
Refused(k) ==
  /\ k \in Faults
  /\ Goes(k, "created", "refused")
  /\ UNCHANGED <<kid, susp, asked, event, resumed>>

\* Name, init function and code are written, the event made, and the main
\* thread's context set to start in the loader.
Redirect(k) ==
  /\ Goes(k, "created", "redirected")
  /\ kid' = [kid EXCEPT ![k] = "loader"]
  /\ event' = [event EXCEPT ![k] = IF asked[k] THEN "clear" ELSE "none"]
  /\ UNCHANGED <<susp, asked, resumed>>

\* A write of the parameters fails: the thread stays suspended, redirected.
ParamsFail(k) ==
  /\ k \in Faults
  /\ Goes(k, "redirected", "refused")
  /\ UNCHANGED <<kid, susp, asked, event, resumed>>

\* The parameters are written and the main thread resumed.
ResumeMain(k) ==
  /\ Goes(k, "redirected", "local")
  /\ susp' = [susp EXCEPT ![k] = @ - 1]
  /\ UNCHANGED <<kid, asked, event, resumed>>

\* After localInitFunc: wait for the event if there is one.
AfterLocalInit(k) ==
  /\ Goes(k, "written", IF event[k] = "none" THEN "returned" ELSE "wait")
  /\ UNCHANGED <<kid, susp, asked, event, resumed>>
WaitInitDone(k) ==
  /\ event[k] = "set"
  /\ Goes(k, "wait", "suspend")
  /\ UNCHANGED <<kid, susp, asked, event, resumed>>
\* SuspendThread, without effect on a thread that ended.
SuspendMain(k) ==
  /\ Goes(k, "suspend", "signal")
  /\ susp' = [susp EXCEPT ![k] = IF kid[k] = "ended" THEN @ ELSE @ + 1]
  /\ UNCHANGED <<kid, asked, event, resumed>>
\* SetEvent, on an event that is set already, and CloseHandle.
SignalKid(k) ==
  /\ Goes(k, "signal", "returned")
  /\ event' = [event EXCEPT ![k] = "set"]
  /\ UNCHANGED <<kid, susp, asked, resumed>>

\* The creator of a suspended process resumes it when it likes.
ResumeKid(k) ==
  /\ inj[k] \in {"returned", "refused"} /\ asked[k] /\ ~resumed[k] /\ kid[k] # "ended"
  /\ resumed' = [resumed EXCEPT ![k] = TRUE]
  /\ susp' = [susp EXCEPT ![k] = @ - 1]
  /\ UNCHANGED <<inj, kid, asked, event>>

\* runDLL: LoadLibrary and GetProcAddress are found in kernel32, the DLL is
\* loaded, Initialize called.  When any of these fails runDLL returns, which
\* ends the thread and with it the process.
LoadDll(k) ==
  /\ \/ inj[k] # "refused" /\ Runs(k, "loader", "init")
     \/ k \in Faults /\ Runs(k, "loader", "ended")
  /\ UNCHANGED <<inj, susp, asked, event, resumed>>

\* Mutant: the event is not set.
X_EventNotSet(k) ==
  /\ Runs(k, "hooked", IF event[k] = "none" THEN "main" ELSE "waiting")
  /\ UNCHANGED <<inj, susp, asked, event, resumed>>
\* The end of Initialize, with the hooks in place.
SetInitDone(k) ==
  /\ Runs(k, "hooked", IF event[k] = "none" THEN "main" ELSE "waiting")
  /\ event' = [event EXCEPT ![k] = IF @ = "none" THEN @ ELSE "set"]
  /\ UNCHANGED <<inj, susp, asked, resumed>>
KidWaits(k) ==
  /\ event[k] = "set"
  /\ Runs(k, "waiting", "main")
  /\ UNCHANGED <<inj, susp, asked, event, resumed>>

\* The program runs: behind the loader, or at once when it was not redirected.
RunProgram(k) ==
  /\ Runs(k, "main", "ran") \/ Runs(k, "entry", "ran")
  /\ UNCHANGED <<inj, susp, asked, event, resumed>>
EndProgram(k) ==
  /\ Runs(k, "ran", "ended")
  /\ UNCHANGED <<inj, susp, asked, event, resumed>>

CreatorStep(k) ==
  \/ Redirect(k) \/ ResumeMain(k) \/ AfterLocalInit(k)
  \/ WaitInitDone(k) \/ SuspendMain(k) \/ SignalKid(k)
KidStep(k) == LoadDll(k) \/ SetInitDone(k) \/ KidWaits(k) \/ RunProgram(k) \/ EndProgram(k)
InjFault(k) == Refused(k) \/ ParamsFail(k)

(***************************************************************************)
(* Properties.                                                             *)
(***************************************************************************)
\* A program whose creator asked for a suspended process does not run before
\* it is resumed: "Resume the main thread. It will suspend itself if needeed
\* when it is done with DLL initialization" (dllInject.cpp, injectLibrary).
SuspendedUntilResumed == \A k \in Kids : asked[k] /\ kid[k] = "ran" => resumed[k]

\* When CreateProcess returns, a suspended process was asked for exactly when
\* there is one: the loader's own run neither leaves the kid stopped nor lets
\* one resume too few wake it (the suspend count around initDone).
SuspendedOnReturn ==
  \A k \in Kids : inj[k] = "returned" /\ kid[k] # "ended" =>
    susp[k] = IF asked[k] /\ ~resumed[k] THEN 1 ELSE 0

\* The injection of every kid comes to an end, so CreateProcess returns,
\* unless the kid dies in the loader before it can set the event its creator
\* waits for without a timeout.
EveryInjectionReturns ==
  \A k \in Kids : inj[k] = "created" ~>
    \/ inj[k] \in {"returned", "refused"}
    \/ inj[k] = "wait" /\ kid[k] = "ended" /\ event[k] = "clear"
=============================================================================
