------------------------------- MODULE Client -------------------------------
(***************************************************************************)
(* A compiler command on its way through the client (client.cpp) and the   *)
(* manager (ClientProcessor in manager/runner.py and CommandProcessor in   *)
(* command_processor.py).  The client connects to the manager's pipe,      *)
(* sends the command and then does what it is asked to, until it is told   *)
(* the exit code; whenever anything goes wrong it falls back to running    *)
(* the compiler itself.  The manager's handlers run on its event loop,     *)
(* but a task that cannot be distributed is handed to the client by the    *)
(* scanner's worker thread (NodeManager.task_preprocessed).                *)
(*                                                                         *)
(* A message is a record: op, and code or kind where it has one.  The      *)
(* manager sends no malformed message, so those branches are left out.     *)
(***************************************************************************)
EXTENDS Integers, Sequences

CONSTANTS Clients, Tasks, Codes,
          Commands,       \* assignments of a kind of command to each client
          Undistributable,\* tasks that lack headers their PCH does not explain
          Outputs         \* fits or overflows: compiler output and the pipe's buffer

\* Exit codes are numbers of 32 bits with a sign.
ExitCodeRange == {r \in Int : -2147483647 - 1 <= r /\ r <= 2147483647}
ASSUME ClientAssumption ==
  /\ Codes \subseteq ExitCodeRange /\ 0 \in Codes
  /\ Commands \subseteq [Clients -> {"local", "pch", "compile", "link", "nofiles", "nopch"}]
  /\ Outputs \subseteq {"fits", "overflows"}

VARIABLES kind,      \* what the options of each command ask for
          fallback,  \* whether a fallback function was given (BP_DISABLE_FALLBACK)
          cl,        \* where the client is in distributedCompile
          outcome,   \* how the command ended
          pipe,      \* none, up, closed by the manager, down
          toCli, toMgr,
          mgr,       \* state of the CommandProcessor
          ready, cur,\* ClientTaskCompiler: _client_ready and current_task
          task, results,
          known,     \* compiler_info_cache has the executable
          free,      \* an instance of the pipe listens
          up         \* the manager runs
clientVars == <<kind, fallback, cl, outcome>>
wireVars == <<pipe, toCli, toMgr>>
mgrVars == <<mgr, ready, cur, task, results, known>>
vars == <<clientVars, wireVars, mgrVars, free, up>>

Cmd == INSTANCE Command WITH results <- results, outcome <- outcome
Pending == [how |-> "pending", code |-> 0]
NoTask == "none"

Init ==
  /\ kind \in Commands
  /\ fallback \in BOOLEAN
  /\ cl = [c \in Clients |-> "open"]
  /\ outcome = [c \in Clients |-> Pending]
  /\ pipe = [c \in Clients |-> "none"]
  /\ toCli = [c \in Clients |-> <<>>]
  /\ toMgr = [c \in Clients |-> <<>>]
  /\ mgr = [c \in Clients |-> "new"]
  /\ ready = [c \in Clients |-> FALSE]
  /\ cur = [c \in Clients |-> NoTask]
  /\ task = [c \in Clients |-> [t \in Tasks[c] |-> "none"]]
  /\ results = [c \in Clients |-> [t \in {} |-> 0]]
  /\ known = FALSE /\ free = TRUE /\ up = TRUE

(***************************************************************************)
(* The exit code travels as four bytes of retcode & 0xFFFFFFFF.            *)
(***************************************************************************)
Encode(r) == <<(r \div 16777216) % 256, (r \div 65536) % 256, (r \div 256) % 256, r % 256>>
Decode(b) ==
  (IF b[1] >= 128 THEN b[1] - 256 ELSE b[1]) * 16777216 + b[2] * 65536 + b[3] * 256 + b[4]

(***************************************************************************)
(* The client.                                                             *)
(***************************************************************************)
Ends(c, how, code) ==
  /\ cl' = [cl EXCEPT ![c] = "end"]
  /\ outcome' = [outcome EXCEPT ![c] = [how |-> how, code |-> code]]
  /\ pipe' = [pipe EXCEPT ![c] = "down"]
  /\ UNCHANGED <<kind, fallback>>

\* Fallback::complete: run the compiler here if a function was given.
FallsBack(c) ==
  IF fallback THEN \E r \in Codes \cup {-1} : Ends(c, "fallback", r) ELSE Ends(c, "failed", -1)

\* createProcess: the compiler's exit code, -1 when it cannot be started.
RunsItself(c, how) == \E r \in Codes \cup {-1} : Ends(c, how, r)

\* A write fails once the manager's end of the pipe is gone.
Alive(c) == pipe[c] = "up"
Replies(c, msg) ==
  \/ /\ Alive(c)
     /\ toMgr' = [toMgr EXCEPT ![c] = Append(@, msg)]
     /\ cl' = [cl EXCEPT ![c] = "wait"]
     /\ UNCHANGED <<kind, fallback, outcome, pipe>>
  \/ ~Alive(c) /\ FallsBack(c) /\ UNCHANGED toMgr

\* The loop around CreateFile: a busy pipe is waited for, any other error is
\* a reason to fall back.
OpenPipe(c) ==
  /\ cl[c] = "open"
  /\ \/ /\ up /\ free
        /\ free' = FALSE
        /\ pipe' = [pipe EXCEPT ![c] = "up"]
        /\ cl' = [cl EXCEPT ![c] = "send"]
        /\ UNCHANGED <<kind, fallback, outcome>>
     \/ ~up /\ FallsBack(c) /\ UNCHANGED free
  /\ UNCHANGED <<toCli, toMgr, mgrVars, up>>

\* The request: toolset, executable, INCLUDE, directory and arguments.
SendRequest(c) ==
  /\ cl[c] = "send"
  /\ Replies(c, [op |-> "request"])
  /\ UNCHANGED <<toCli, mgrVars, free, up>>
ResponseFileFails(c) ==
  /\ cl[c] = "send"
  /\ FallsBack(c)
  /\ UNCHANGED <<toCli, toMgr, mgrVars, free, up>>

\* One round of the receiving loop.
Receive(c) ==
  /\ cl[c] = "wait" /\ toCli[c] # <<>>
  /\ toCli' = [toCli EXCEPT ![c] = Tail(@)]
  /\ LET m == Head(toCli[c])
     IN \/ m.op = "run_locally" /\ RunsItself(c, "local") /\ UNCHANGED toMgr
        \/ m.op = "execute_and_exit" /\ RunsItself(c, m.why) /\ UNCHANGED toMgr
        \/ /\ m.op = "execute_get_output"
           /\ \/ /\ cl' = [cl EXCEPT ![c] = "execute"]
                 /\ UNCHANGED <<kind, fallback, outcome, pipe>>
              \/ FallsBack(c)        \* CreateProcess failed
           /\ UNCHANGED toMgr
        \/ m.op = "exit" /\ Ends(c, m.why, Decode(m.code)) /\ UNCHANGED toMgr
        \/ m.op = "locate_files" /\ Replies(c, [op |-> "files"])
  /\ UNCHANGED <<mgrVars, free, up>>

\* The process is waited for before its output is read, so one that fills
\* the pipe waits for the client and the client for it.
ProcessEnds(c) ==
  /\ cl[c] = "execute" /\ "fits" \in Outputs
  /\ \E r \in Codes : Replies(c, [op |-> "output", code |-> r])
  /\ UNCHANGED <<toCli, mgrVars, free, up>>

\* Mutant: a broken connection is read again and again.
X_ReadsOn(c) ==
  /\ cl[c] = "wait" /\ toCli[c] = <<>> /\ pipe[c] = "closed"
  /\ FallsBack(c)
  /\ UNCHANGED <<toCli, toMgr, mgrVars, free, up>>
ReadFails(c) ==
  /\ cl[c] = "wait" /\ toCli[c] = <<>> /\ pipe[c] \in {"closed", "down"}
  /\ FallsBack(c)
  /\ UNCHANGED <<toCli, toMgr, mgrVars, free, up>>

(***************************************************************************)
(* The manager.                                                            *)
(***************************************************************************)
\* The event loop runs one handler at a time; GotFiles is the one that other
\* threads can observe halfway.
LoopFree == up /\ \A c \in Clients : mgr[c] # "creating"

\* The event loop listens on a new instance of the pipe.
Accept ==
  /\ LoopFree /\ ~free
  /\ free' = TRUE
  /\ UNCHANGED <<clientVars, wireVars, mgrVars, up>>

\* send_msg, nothing when the connection is gone; close comes after it.
Sends(c, msg) ==
  /\ toCli' = IF pipe[c] = "up" THEN [toCli EXCEPT ![c] = Append(@, msg)] ELSE toCli
  /\ UNCHANGED pipe
SendsLast(c, msg) ==
  /\ toCli' = IF pipe[c] = "up" THEN [toCli EXCEPT ![c] = Append(@, msg)] ELSE toCli
  /\ pipe' = IF pipe[c] = "up" THEN [pipe EXCEPT ![c] = "closed"] ELSE pipe
do_run_locally(c) == SendsLast(c, [op |-> "run_locally"])
do_exit(c, why, code) == SendsLast(c, [op |-> "exit", why |-> why, code |-> Encode(code)])
do_execute_and_exit(c, why) == SendsLast(c, [op |-> "execute_and_exit", why |-> why])
do_execute_get_output(c) == Sends(c, [op |-> "execute_get_output"])
\* Mutant: the connection is closed behind this message too.
X_ClosedTooEarly(c) == SendsLast(c, [op |-> "locate_files"])
do_locate_files(c) == Sends(c, [op |-> "locate_files"])

\* CommandProcessor.create_tasks and task_created_func for each of them.
CreateTasks(c, next) ==
  \/ /\ kind[c] = "nofiles"
     /\ do_run_locally(c)
     /\ mgr' = [mgr EXCEPT ![c] = next]
     /\ UNCHANGED task
  \/ /\ kind[c] = "nopch"            \* raises: PCH file does not exist
     /\ mgr' = [mgr EXCEPT ![c] = "raised"]
     /\ UNCHANGED <<toCli, pipe, task>>
  \/ /\ kind[c] \in {"compile", "link"}
     /\ task' = [task EXCEPT ![c] = [t \in Tasks[c] |-> "scanning"]]
     /\ mgr' = [mgr EXCEPT ![c] = next]
     /\ UNCHANGED <<toCli, pipe>>

Message(c, state, op) ==
  /\ LoopFree /\ mgr[c] = state /\ toMgr[c] # <<>> /\ Head(toMgr[c]).op = op
  /\ toMgr' = [toMgr EXCEPT ![c] = Tail(@)]

\* ClientProcessor.__handle_new_client
HandleNewClient(c) ==
  /\ Message(c, "new", "request")
  /\ \/ /\ kind[c] = "local" /\ do_run_locally(c)
        /\ mgr' = [mgr EXCEPT ![c] = "over"] /\ UNCHANGED <<ready, task>>
     \/ /\ kind[c] = "pch" /\ do_execute_and_exit(c, "pch")
        /\ mgr' = [mgr EXCEPT ![c] = "over"] /\ UNCHANGED <<ready, task>>
     \/ /\ kind[c] \notin {"local", "pch"} /\ known
        /\ ready' = [ready EXCEPT ![c] = TRUE]
        /\ CreateTasks(c, "ready")
     \/ /\ kind[c] \notin {"local", "pch"} /\ ~known
        /\ do_execute_get_output(c)
        /\ mgr' = [mgr EXCEPT ![c] = "info"] /\ UNCHANGED <<ready, task>>
  /\ UNCHANGED <<clientVars, cur, results, known, free, up>>

\* got_data_from_client while waiting for the output of the test compile.
GotCompilerInfo(c) ==
  /\ Message(c, "info", "output")
  /\ LET r == Head(toMgr[c]).code
     IN \/ r # 0 /\ do_exit(c, "unusable", r) /\ mgr' = [mgr EXCEPT ![c] = "over"]
        \/ r = 0 /\ do_run_locally(c) /\ mgr' = [mgr EXCEPT ![c] = "over"]   \* not identified
        \/ r = 0 /\ do_locate_files(c) /\ mgr' = [mgr EXCEPT ![c] = "files"]
  /\ UNCHANGED <<clientVars, ready, cur, task, results, known, free, up>>

\* ... and for the list of files.  The tasks are handed to the scanner's
\* threads before client_ready is called.
GotFiles(c) ==
  /\ Message(c, "files", "files")
  /\ known' = TRUE
  /\ CreateTasks(c, "creating")
  /\ UNCHANGED <<clientVars, ready, cur, results, free, up>>
ClientReady(c) ==
  /\ up /\ mgr[c] = "creating"
  /\ mgr' = [mgr EXCEPT ![c] = "ready"]
  /\ ready' = [ready EXCEPT ![c] = TRUE]
  /\ UNCHANGED <<clientVars, wireVars, cur, task, results, known, free, up>>

\* CommandProcessor.task_completed, and postprocess for the last task; then
\* the client is told the exit code or to link, and the connection closed.
With(res, t, r) == [u \in DOMAIN res \cup {t} |-> IF u = t THEN r ELSE res[u]]
\* Mutant: the command is answered with the first task that is completed.
X_FirstCompletes(c, t, r) ==
  /\ t \in Tasks[c] \ DOMAIN results[c]
  /\ results' = [results EXCEPT ![c] = With(@, t, r)]
  /\ task' = [task EXCEPT ![c][t] = "done"]
  /\ do_exit(c, "exit", r)
TaskCompleted(c, t, r) ==
  LET res == With(results[c], t, r)
      bad == Cmd!Errors(res)
  IN /\ t \in Tasks[c] \ DOMAIN results[c]
     /\ results' = [results EXCEPT ![c] = res]
     /\ task' = [task EXCEPT ![c][t] = "done"]
     /\ \/ DOMAIN res # Tasks[c] /\ UNCHANGED <<toCli, pipe>>
        \/ DOMAIN res = Tasks[c] /\ \E k \in bad : do_exit(c, "exit", k)
        \/ DOMAIN res = Tasks[c] /\ bad = {} /\ kind[c] = "compile" /\ do_exit(c, "exit", 0)
        \/ DOMAIN res = Tasks[c] /\ bad = {} /\ kind[c] = "link" /\ do_execute_and_exit(c, "link")

\* The scanner's thread is done with the task (notify, task_preprocessed).
Preprocessed(c, t) ==
  /\ up /\ task[c][t] = "scanning"
  /\ task' = [task EXCEPT ![c][t] = IF t \in Undistributable THEN "handing" ELSE "remote"]
  /\ UNCHANGED <<clientVars, wireVars, mgr, ready, cur, results, known, free, up>>
\* ... or raised: task_error is called on the loop.
ScanFails(c, t) ==
  /\ LoopFree /\ task[c][t] = "scanning"
  /\ TaskCompleted(c, t, -1)
  /\ UNCHANGED <<clientVars, toMgr, mgr, ready, cur, known, free, up>>
\* The task's session succeeded (Task.session_completed).
RemoteDone(c, t) ==
  /\ LoopFree /\ task[c][t] = "remote"
  /\ \E r \in Codes : TaskCompleted(c, t, r)
  /\ UNCHANGED <<clientVars, toMgr, mgr, ready, cur, known, free, up>>

\* ClientTaskCompiler.append_task, in a scanner's thread: _client_ready is
\* read and, in another step, cleared.  When it is not set the task should be
\* queued, but building the queue's element raises AttributeError (the code
\* says "compiler. options") and the thread ends with the task lost.
ReadReady(c, t) ==
  /\ up /\ task[c][t] = "handing"
  /\ task' = [task EXCEPT ![c][t] = IF ready[c] THEN "claiming" ELSE "lost"]
  /\ UNCHANGED <<clientVars, wireVars, mgr, ready, cur, results, known, free, up>>
CompileOnClient(c, t) ==
  /\ up /\ task[c][t] = "claiming"
  /\ ready' = [ready EXCEPT ![c] = FALSE]
  /\ cur' = [cur EXCEPT ![c] = t]
  /\ task' = [task EXCEPT ![c][t] = "client"]
  /\ do_execute_get_output(c)
  /\ UNCHANGED <<clientVars, toMgr, mgr, results, known, free, up>>

\* task_done: the output belongs to current_task; client_ready follows.  That
\* there is one, of this command and not completed yet, is asserted.
TaskDone(c) ==
  /\ Message(c, "ready", "output")
  /\ IF cur[c] \notin Tasks[c] \ DOMAIN results[c]
     THEN /\ mgr' = [mgr EXCEPT ![c] = "raised"]
          /\ UNCHANGED <<toCli, pipe, ready, task, results>>
     ELSE /\ TaskCompleted(c, cur[c], Head(toMgr[c]).code)
          /\ ready' = [ready EXCEPT ![c] = TRUE]
          /\ UNCHANGED mgr
  /\ UNCHANGED <<clientVars, cur, known, free, up>>

\* The manager is stopped or killed: its ends of the pipes are gone.
ManagerStops ==
  /\ up
  /\ up' = FALSE
  /\ pipe' = [c \in Clients |-> IF pipe[c] = "none" THEN "none" ELSE "down"]
  /\ UNCHANGED <<clientVars, toCli, toMgr, mgrVars, free>>

ClientStep(c) ==
  \/ OpenPipe(c) \/ SendRequest(c) \/ Receive(c) \/ ProcessEnds(c) \/ ReadFails(c)
ManagerStep(c) ==
  \/ HandleNewClient(c) \/ GotCompilerInfo(c) \/ GotFiles(c) \/ ClientReady(c) \/ TaskDone(c)
TaskStep(c, t) ==
  \/ Preprocessed(c, t) \/ RemoteDone(c, t) \/ ReadReady(c, t) \/ CompileOnClient(c, t)
Next ==
  \/ Accept \/ ManagerStops
  \/ \E c \in Clients :
       \/ ClientStep(c) \/ ResponseFileFails(c) \/ ManagerStep(c)
       \/ \E t \in Tasks[c] : TaskStep(c, t) \/ ScanFails(c, t)
Spec == Init /\ [][Next]_vars

\* The client runs, the event loop handles what arrives, the threads go on;
\* that a task sent to a server is answered is the subject of Task.
Fairness ==
  /\ WF_vars(Accept)
  /\ \A c \in Clients :
       /\ WF_vars(ClientStep(c)) /\ WF_vars(ManagerStep(c))
       /\ \A t \in Tasks[c] : WF_vars(TaskStep(c, t))
FairSpec == Spec /\ Fairness

(***************************************************************************)
(* Properties.                                                             *)
(***************************************************************************)
\* Type invariant.
TypeOK ==
  /\ cl \in [Clients -> {"open", "send", "wait", "execute", "end"}]
  /\ pipe \in [Clients -> {"none", "up", "closed", "down"}]
  /\ mgr \in [Clients -> {"new", "info", "files", "creating", "ready", "over", "raised"}]
  /\ \A c \in Clients : DOMAIN results[c] \subseteq Tasks[c] /\ cur[c] \in Tasks[c] \cup {NoTask}

\* Client and manager together do what a command promises: it ends once, and
\* with the files' exit codes only if all of them were compiled, whatever
\* order the answers come in and whenever the manager dies
\* (CommandProcessor.postprocess, the EXIT branch of distributedCompile).
CommandSpec == Cmd!CommandSpec

\* The manager closes a connection only behind a message that ends the
\* command, and nothing follows that message: a client never falls back
\* because the manager hung up on it (do_exit, do_run_locally and
\* do_execute_and_exit, against the read error branch of distributedCompile).
Final(m) == m.op \in {"exit", "run_locally", "execute_and_exit"}
ClosedBehindAnswer ==
  \A c \in Clients :
    /\ pipe[c] = "closed" => toCli[c] # <<>> /\ Final(toCli[c][Len(toCli[c])])
    /\ \A i \in 1..Len(toCli[c]) : Final(toCli[c][i]) => i = Len(toCli[c])

\* The two sides agree on whose turn it is: while the manager waits for the
\* compiler's output or the file list, the request or the reply is on its way
\* or being carried out, unless the client is gone.
InTurn ==
  \A c \in Clients : up /\ cl[c] # "end" /\ mgr[c] \in {"info", "files"} =>
    \/ toCli[c] # <<>> /\ cl[c] = "wait" /\ toMgr[c] = <<>>
    \/ cl[c] = "execute" /\ mgr[c] = "info" /\ toCli[c] = <<>> /\ toMgr[c] = <<>>
    \/ toMgr[c] # <<>> /\ cl[c] = "wait" /\ toCli[c] = <<>>

\* The conversation between client and manager keeps its form at every step.
ConversationInv == TypeOK /\ ClosedBehindAnswer /\ InTurn

\* Every command ends, also when the manager stops, unless a handler raised
\* for it or one of its tasks was lost on its way to the client.
Stuck(c) == mgr[c] = "raised" \/ \E t \in Tasks[c] : task[c][t] = "lost"
EveryCommandEnds == \A c \in Clients : <>(cl[c] = "end" \/ Stuck(c))
=============================================================================
