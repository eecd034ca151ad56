--------------------------- MODULE SessionProtocol ---------------------------
(***************************************************************************)
(* The session protocol: the sessions of one task, each of them a          *)
(* ServerSession of the manager (manager/compile_session.py) talking to a  *)
(* CompileSession of a server (server/runner.py) over a connection that    *)
(* keeps messages in order.  Both ends are callbacks on an event loop, so  *)
(* every handler is one action; what they leave to an executor, to a       *)
(* process or to a timer comes back as an action of its own.               *)
(*                                                                         *)
(* The sessions of the task meet in Task: the first report of a            *)
(* compilation cancels the others, wherever they are.                      *)
(***************************************************************************)
EXTENDS Task, Sequences

CONSTANTS
  Needs,   \* the sets of resources a server may ask for, of {"compiler", "pch"}
  Faults   \* what may go wrong, a subset of AllFaults

AllFaults == {"timeout", "compile", "compress", "decompress", "terminate"}

ASSUME NeedsAssumption == Needs \subseteq SUBSET {"compiler", "pch"}
ASSUME FaultsAssumption == Faults \subseteq AllFaults

VARIABLES
  state,      \* ServerSession.state
  pchOwed,    \* the Compressor will call send_pch_file
  future,     \* the object file is being decompressed to disk
  toServer,   \* messages on their way to the server, per session
  toManager,  \* messages on their way to the manager, per session
  srv         \* the server's CompileSession, per session

protocolVars == <<state, pchOwed, future, toServer, toManager, srv>>
vars == <<taskVars, protocolVars>>

ManagerStates == {"START", "WAIT_FOR_MISSING_FILES", "WAIT_FOR_SERVER_RESPONSE",
                  "RECEIVE_OBJECT_FILE", "FINISH"}

ServerStates == {"GetTask", "DownloadMissingHeaders", "DownloadingCompiler",
                 "DownloadingPCH", "RunningCompiler", "WaitForConfirmation",
                 "UploadingFile", "Cancelled", "Failed"}

\* The callback a server session waits for: a PCH written to disk, a resource
\* another session downloads, the compiler process, the compressed result.
Work == {"idle", "writing", "waiting", "compiling", "compressing"}

\* selfdestruct is no attribute, a scheduled event, or an event that has run.
Timers == {"unset", "armed", "fired"}

Msg(type) == [type |-> type]
MissingFiles(need) == [type |-> "MISSING_FILES", need |-> need]
ServerDone(ok) == [type |-> "SERVER_DONE", ok |-> ok]

\* send_file: the data, then an empty final part.
FileParts == <<Msg("MORE"), Msg("LAST")>>

ToServerMsgs == {Msg(t) : t \in {"NEW_SESSION", "CANCEL_SESSION", "TASK_FILES", "MORE",
                                 "LAST", "CONFIRM_SEND", "CONFIRM_DROP"}}

ToManagerMsgs ==
  {Msg(t) : t \in {"SERVER_FAILED", "SESSION_CANCELLED", "TIMED_OUT", "MORE", "LAST"}}
    \cup {MissingFiles(n) : n \in Needs} \cup {ServerDone(ok) : ok \in BOOLEAN}

TypeOK ==
  /\ TaskTypeOK
  /\ state \in [Sessions -> ManagerStates]
  /\ pchOwed \in [Sessions -> BOOLEAN]
  /\ future \in [Sessions -> BOOLEAN]
  /\ toServer \in [Sessions -> Seq(ToServerMsgs)]
  /\ toManager \in [Sessions -> Seq(ToManagerMsgs)]
  /\ srv \in [Sessions -> [state : ServerStates, live : BOOLEAN, cancelPending : BOOLEAN,
                           timer : Timers, work : Work, need : Needs \cup {{}}]]

Init ==
  /\ TaskInit
  /\ state = [s \in Sessions |-> "START"]
  /\ pchOwed = [s \in Sessions |-> FALSE]
  /\ future = [s \in Sessions |-> FALSE]
  /\ toServer = [s \in Sessions |-> <<>>]
  /\ toManager = [s \in Sessions |-> <<>>]
  /\ srv = [s \in Sessions |-> [state |-> "GetTask", live |-> FALSE, cancelPending |-> FALSE,
                                timer |-> "unset", work |-> "idle", need |-> {}]]


-----------------------------------------------------------------------------
(* The manager: ServerSession.                                             *)

\* The messages got_data_from_server handles in a state; SESSION_CANCELLED and
\* TIMED_OUT are handled in every state, the first only after a cancel.
Expected(s) ==
  {"TIMED_OUT"}
    \cup (IF cancelled[s] THEN {"SESSION_CANCELLED"} ELSE {})
    \cup (CASE state[s] = "WAIT_FOR_MISSING_FILES"   -> {"MISSING_FILES"}
            [] state[s] = "WAIT_FOR_SERVER_RESPONSE" -> {"SERVER_FAILED", "SERVER_DONE"}
            [] state[s] = "RECEIVE_OBJECT_FILE"      -> {"MORE", "LAST"}
            [] OTHER                                 -> {})

\* process_msg looks the session up in NodeManager.sessions.
ManagerGets(s, type) ==
  /\ phase[s] = "running"
  /\ toManager[s] # <<>>
  /\ Head(toManager[s]).type = type
  /\ type \in Expected(s)

Consumed(s) == toManager' = [toManager EXCEPT ![s] = Tail(@)]

SendToServer(s, msgs) == toServer' = [toServer EXCEPT ![s] = @ \o msgs]

\* The sender is known once the server has answered.
HasSender(s) == state[s] \in {"WAIT_FOR_SERVER_RESPONSE", "RECEIVE_OBJECT_FILE"}

\* register_completion(s) has cancelled every other running session; s itself
\* sends msgs.
SendCancels(s, msgs) ==
  toServer' = [t \in Sessions |->
                 CASE t = s -> toServer[t] \o msgs
                   [] t \in Running \ {s} /\ HasSender(t) ->
                        Append(toServer[t], Msg("CANCEL_SESSION"))
                   [] OTHER -> toServer[t]]

\* ServerSession.__complete, down to Task.session_completed.
Complete(s, r) ==
  /\ state' = [state EXCEPT ![s] = "FINISH"]
  /\ DoSessionCompleted(s, r, completedBy)
  /\ UNCHANGED cancelled

StartSession(s) ==
  /\ phase[s] = "new"
  /\ pending > 0
  /\ DoRegisterSession(s)
  /\ state' = [state EXCEPT ![s] = "WAIT_FOR_MISSING_FILES"]
  /\ SendToServer(s, <<Msg("NEW_SESSION")>>)
  /\ UNCHANGED <<pchOwed, future, toManager, srv>>

StealTask ==
  /\ Steal
  /\ UNCHANGED protocolVars

\* NodeManager.update_node_info_coro finds that the node is gone.  It depends on
\* the getter of nodes whether that ever happens.
Terminate(s) ==
  /\ "terminate" \in Faults
  /\ phase[s] = "running"
  /\ Complete(s, "terminated")
  /\ UNCHANGED <<pchOwed, future, toServer, toManager, srv>>

ManagerDropsMessage(s) ==
  /\ toManager[s] # <<>>
  /\ phase[s] # "running"
  /\ Consumed(s)
  /\ UNCHANGED <<taskVars, state, pchOwed, future, toServer, srv>>

GotMissingFiles(s) ==
  /\ ManagerGets(s, "MISSING_FILES")
  /\ LET need == Head(toManager[s]).need
     IN  /\ SendToServer(s, (IF cancelled[s] THEN <<Msg("CANCEL_SESSION")>> ELSE <<>>)
                              \o <<Msg("TASK_FILES")>>
                              \o (IF "compiler" \in need THEN FileParts ELSE <<>>))
         /\ pchOwed' = [pchOwed EXCEPT ![s] = "pch" \in need]
  /\ state' = [state EXCEPT ![s] = "WAIT_FOR_SERVER_RESPONSE"]
  /\ Consumed(s)
  /\ UNCHANGED <<taskVars, future, srv>>

\* Compressor calls send_pch_file, whether or not the session still exists.
SendPCH(s) ==
  /\ pchOwed[s]
  /\ pchOwed' = [pchOwed EXCEPT ![s] = FALSE]
  /\ SendToServer(s, FileParts)
  /\ UNCHANGED <<taskVars, state, future, toManager, srv>>

GotSessionCancelled(s) ==
  /\ ManagerGets(s, "SESSION_CANCELLED")
  /\ Complete(s, "cancelled")
  /\ Consumed(s)
  /\ UNCHANGED <<pchOwed, future, toServer, srv>>

GotTimedOut(s) ==
  /\ ManagerGets(s, "TIMED_OUT")
  /\ Complete(s, "timed_out")
  /\ Consumed(s)
  /\ UNCHANGED <<pchOwed, future, toServer, srv>>

GotServerFailed(s) ==
  /\ ManagerGets(s, "SERVER_FAILED")
  /\ Complete(s, "failure")
  /\ Consumed(s)
  /\ UNCHANGED <<pchOwed, future, toServer, srv>>

\* SERVER_DONE, and register_completion makes this session the owner.
GotFirstCompletion(s) ==
  /\ ManagerGets(s, "SERVER_DONE")
  /\ ~IsCompleted
  /\ ~cancelled[s]
  /\ IF Head(toManager[s]).ok
       THEN /\ DoRegisterCompletion(s)
            /\ SendCancels(s, <<Msg("CONFIRM_SEND")>>)
            /\ state' = [state EXCEPT ![s] = "RECEIVE_OBJECT_FILE"]
       ELSE /\ DoSessionCompleted(s, "success", s)
            /\ cancelled' = CancelOthers(s)
            /\ SendCancels(s, <<>>)
            /\ state' = [state EXCEPT ![s] = "FINISH"]
  /\ Consumed(s)
  /\ UNCHANGED <<pchOwed, future, srv>>

\* As before, but "assert not self.cancelled" fails.  The exception leaves
\* MessageProtocol.data_received before msg_len is reset: the message stays
\* and is handled again when more data arrives on the connection.
CompletionAssertFails(s) ==
  /\ ManagerGets(s, "SERVER_DONE")
  /\ ~IsCompleted
  /\ cancelled[s]
  /\ DoRegisterCompletion(s)
  /\ SendCancels(s, <<>>)
  /\ UNCHANGED <<state, pchOwed, future, toManager, srv>>

\* Mutant: a report that comes too late counts as a success.
GotLateCompletion_Success(s) ==
  /\ ManagerGets(s, "SERVER_DONE")
  /\ IsCompleted
  /\ SendToServer(s, IF Head(toManager[s]).ok THEN <<Msg("CONFIRM_DROP")>> ELSE <<>>)
  /\ Complete(s, "success")
  /\ Consumed(s)
  /\ UNCHANGED <<pchOwed, future, srv>>

GotLateCompletion(s) ==
  /\ ManagerGets(s, "SERVER_DONE")
  /\ IsCompleted
  /\ SendToServer(s, IF Head(toManager[s]).ok THEN <<Msg("CONFIRM_DROP")>> ELSE <<>>)
  /\ Complete(s, "too_late")
  /\ Consumed(s)
  /\ UNCHANGED <<pchOwed, future, srv>>

GotObjectPart(s) ==
  /\ ManagerGets(s, "MORE") \/ ManagerGets(s, "LAST")
  /\ future' = [future EXCEPT ![s] = Head(toManager[s]).type = "LAST"]
  /\ Consumed(s)
  /\ UNCHANGED <<taskVars, state, pchOwed, toServer, srv>>

\* complete_session, called when the result is on disk or cannot be written.
Decompressed(s) ==
  /\ future[s]
  /\ future' = [future EXCEPT ![s] = FALSE]
  /\ IF state[s] = "FINISH"
       THEN UNCHANGED <<taskVars, state>>
       ELSE \/ Complete(s, "success")
            \/ "decompress" \in Faults /\ Complete(s, "failure")
  /\ UNCHANGED <<pchOwed, toServer, toManager, srv>>

-----------------------------------------------------------------------------
(* The server: CompileSession.                                             *)

\* The next message of a session that is still in ServerRunner.sessions.
ServerGets(s, type) ==
  /\ srv[s].live
  /\ toServer[s] # <<>>
  /\ Head(toServer[s]).type = type

\* process_msg reschedules the self-destruct event before anything else.
Received(s) ==
  /\ toServer' = [toServer EXCEPT ![s] = Tail(@)]
  /\ UNCHANGED <<taskVars, state, pchOwed, future>>

Reply(s, session, msgs) ==
  /\ srv' = [srv EXCEPT ![s] = session]
  /\ toManager' = [toManager EXCEPT ![s] = @ \o msgs]

\* session_done, not from the self-destruct event.
Done(session) == [session EXCEPT !.live = FALSE, !.timer = "unset"]

CancelSession(s, session) ==
  Reply(s, Done([session EXCEPT !.state = "Cancelled"]), <<Msg("SESSION_CANCELLED")>>)

\* __run_compiler.  When the session was completed meanwhile it may raise: the
\* assertion of cancel_session, that of session_done once SESSION_CANCELLED is
\* sent, or the ValueError of cancelling an event that has fired.
RunCompiler(s, session) ==
  CASE session.cancelPending /\ session.live -> CancelSession(s, [session EXCEPT !.work = "idle"])
    [] session.cancelPending /\ ~session.live /\ session.state # "Cancelled" ->
         Reply(s, [session EXCEPT !.work = "idle", !.state = "Cancelled"],
               <<Msg("SESSION_CANCELLED")>>)
    [] \/ session.cancelPending /\ session.state = "Cancelled"
       \/ ~session.cancelPending /\ session.timer = "fired" ->
         Reply(s, [session EXCEPT !.work = "idle"], <<>>)
    [] OTHER -> Reply(s, [session EXCEPT !.work = "compiling", !.timer = "unset"], <<>>)

\* compile: the PCH and the compiler are there, or another session downloads
\* one of them and its repository keeps __run_compiler as a waiter.
Compile(s, session) ==
  LET running == [session EXCEPT !.state = "RunningCompiler"]
  IN  \/ RunCompiler(s, running)
      \/ /\ session.need # {"compiler", "pch"}
         /\ Reply(s, [running EXCEPT !.work = "waiting"], <<>>)

NewSession(s) ==
  /\ toServer[s] # <<>>
  /\ Head(toServer[s]).type = "NEW_SESSION"
  /\ \E need \in Needs :
       Reply(s, [srv[s] EXCEPT !.state = "DownloadMissingHeaders", !.live = TRUE,
                               !.timer = "armed", !.need = need],
             <<MissingFiles(need)>>)
  /\ Received(s)

ServerDropsMessage(s) ==
  /\ ~srv[s].live
  /\ toServer[s] # <<>>
  /\ Head(toServer[s]).type # "NEW_SESSION"
  /\ Received(s)
  /\ UNCHANGED <<toManager, srv>>

\* process_msg for CANCEL_SESSION: RunningCompiler is the one state that can be
\* cancelled and expects no message.  A running process is terminated and its
\* callback comes later.
GotCancel(s) ==
  /\ ServerGets(s, "CANCEL_SESSION")
  /\ IF srv[s].state = "RunningCompiler"
       THEN CancelSession(s, srv[s])
       ELSE Reply(s, [srv[s] EXCEPT !.cancelPending = TRUE, !.timer = "armed"], <<>>)
  /\ Received(s)

\* Mutant: compiles without the compiler and the PCH it has asked for.
GotTaskFiles_NoDownload(s) ==
  /\ ServerGets(s, "TASK_FILES")
  /\ srv[s].state = "DownloadMissingHeaders"
  /\ Compile(s, [srv[s] EXCEPT !.timer = "armed"])
  /\ Received(s)

GotTaskFiles(s) ==
  /\ ServerGets(s, "TASK_FILES")
  /\ srv[s].state = "DownloadMissingHeaders"
  /\ LET session == [srv[s] EXCEPT !.timer = "armed"]
     IN  IF session.need = {}
           THEN Compile(s, session)
           ELSE Reply(s, [session EXCEPT !.state = IF "compiler" \in session.need
                                                     THEN "DownloadingCompiler"
                                                     ELSE "DownloadingPCH"], <<>>)
  /\ Received(s)

\* Parts of the compiler or the PCH; after the last one of the PCH the file is
\* written by the thread pool while the state stays DownloadingPCH.
GotFilePart(s) ==
  /\ srv[s].state \in {"DownloadingCompiler", "DownloadingPCH"}
  /\ LET session == [srv[s] EXCEPT !.timer = "armed"]
     IN  \/ ServerGets(s, "MORE") /\ Reply(s, session, <<>>)
         \/ /\ ServerGets(s, "LAST")
            /\ CASE session.state = "DownloadingPCH" ->
                      Reply(s, [session EXCEPT !.work = "writing"], <<>>)
                 [] session.state = "DownloadingCompiler" /\ "pch" \in session.need ->
                      Reply(s, [session EXCEPT !.state = "DownloadingPCH"], <<>>)
                 [] OTHER -> Compile(s, session)
  /\ Received(s)

\* pch_completed, or a handler kept by a repository.
ResourceReady(s) ==
  /\ \/ srv[s].work = "writing" /\ Compile(s, [srv[s] EXCEPT !.work = "idle"])
     \/ srv[s].work = "waiting" /\ RunCompiler(s, srv[s])
  /\ UNCHANGED <<taskVars, state, pchOwed, future, toServer>>

\* Mutant: does not look whether the session was cancelled meanwhile.
CompileCompleted_IgnoresCancel(s) ==
  /\ srv[s].work = "compiling"
  /\ LET session == [srv[s] EXCEPT !.work = "idle"]
     IN  \/ Reply(s, [session EXCEPT !.state = "WaitForConfirmation", !.timer = "armed"],
                  <<ServerDone(TRUE)>>)
         \/ Reply(s, Done(session), <<ServerDone(FALSE)>>)
  /\ UNCHANGED <<taskVars, state, pchOwed, future, toServer>>

\* Mutant: the self-destruct event is not scheduled again.
CompileCompleted_NoTimer(s) ==
  /\ srv[s].work = "compiling"
  /\ LET session == [srv[s] EXCEPT !.work = "idle"]
     IN  IF session.state # "RunningCompiler"
           THEN Reply(s, session, <<>>)
           ELSE \/ Reply(s, [session EXCEPT !.state = "WaitForConfirmation"], <<ServerDone(TRUE)>>)
                \/ Reply(s, Done(session), <<ServerDone(FALSE)>>)
  /\ UNCHANGED <<taskVars, state, pchOwed, future, toServer>>

\* __compile_completed: the process ended (ok or not), or could not be run.
CompileCompleted(s) ==
  /\ srv[s].work = "compiling"
  /\ LET session == [srv[s] EXCEPT !.work = "idle"]
     IN  IF session.state # "RunningCompiler"
           THEN Reply(s, session, <<>>)
           ELSE \/ Reply(s, [session EXCEPT !.state = "WaitForConfirmation", !.timer = "armed"],
                         <<ServerDone(TRUE)>>)
                \/ Reply(s, Done(session), <<ServerDone(FALSE)>>)
                \/ /\ "compile" \in Faults
                   /\ Reply(s, Done([session EXCEPT !.state = "Failed"]),
                            <<Msg("SERVER_FAILED")>>)
  /\ UNCHANGED <<taskVars, state, pchOwed, future, toServer>>

\* A verdict in WaitForConfirmation, where a pending cancel takes precedence.
GotConfirmation(s) ==
  /\ srv[s].state = "WaitForConfirmation"
  /\ LET session == [srv[s] EXCEPT !.timer = "armed"]
     IN  \/ /\ ServerGets(s, "CONFIRM_SEND") \/ ServerGets(s, "CONFIRM_DROP")
            /\ session.cancelPending
            /\ CancelSession(s, session)
         \/ /\ ServerGets(s, "CONFIRM_SEND")
            /\ ~session.cancelPending
            /\ Reply(s, [session EXCEPT !.state = "UploadingFile", !.work = "compressing"], <<>>)
         \/ /\ ServerGets(s, "CONFIRM_DROP")
            /\ ~session.cancelPending
            /\ Reply(s, Done(session), <<>>)
  /\ Received(s)

\* send_compressed.  If the session timed out meanwhile session_done raises,
\* with everything sent; if the file could not be read nothing is sent.
ResultCompressed(s) ==
  /\ srv[s].work = "compressing"
  /\ LET session == [srv[s] EXCEPT !.work = "idle"]
     IN  \/ Reply(s, IF session.live THEN Done(session) ELSE session, FileParts)
         \/ "compress" \in Faults /\ Reply(s, session, <<>>)
  /\ UNCHANGED <<taskVars, state, pchOwed, future, toServer>>

\* Mutant: the manager is not told.
SelfDestruct_Silent(s) ==
  /\ "timeout" \in Faults
  /\ srv[s].timer = "armed"
  /\ Reply(s, [srv[s] EXCEPT !.timer = "fired", !.live = FALSE], <<>>)
  /\ UNCHANGED <<taskVars, state, pchOwed, future, toServer>>

\* The self-destruct event, 60 seconds after the last message: session_done(True).
SelfDestruct(s) ==
  /\ "timeout" \in Faults
  /\ srv[s].timer = "armed"
  /\ Reply(s, [srv[s] EXCEPT !.timer = "fired", !.live = FALSE], <<Msg("TIMED_OUT")>>)
  /\ UNCHANGED <<taskVars, state, pchOwed, future, toServer>>

-----------------------------------------------------------------------------
ManagerStep(s) ==
  \/ StartSession(s)
  \/ ManagerDropsMessage(s)
  \/ GotMissingFiles(s)
  \/ SendPCH(s)
  \/ GotSessionCancelled(s)
  \/ GotTimedOut(s)
  \/ GotServerFailed(s)
  \/ GotFirstCompletion(s)
  \/ CompletionAssertFails(s)
  \/ GotLateCompletion(s)
  \/ GotObjectPart(s)
  \/ Decompressed(s)

ServerStep(s) ==
  \/ NewSession(s)
  \/ ServerDropsMessage(s)
  \/ GotCancel(s)
  \/ GotTaskFiles(s)
  \/ GotFilePart(s)
  \/ CompileCompleted(s)
  \/ GotConfirmation(s)
  \/ ResultCompressed(s)

Next ==
  \/ StealTask
  \/ \E s \in Sessions : ManagerStep(s) \/ ServerStep(s) \/ ResourceReady(s)
                           \/ SelfDestruct(s) \/ Terminate(s)

Spec == Init /\ [][Next]_vars

\* Both event loops keep running callbacks, processes end, and the scheduler is
\* run every second, so an event that stays scheduled is run.  Nothing makes a
\* resource arrive that another session downloads.
Fairness ==
  \A s \in Sessions :
    WF_vars(ManagerStep(s)) /\ WF_vars(ServerStep(s)) /\ WF_vars(SelfDestruct(s))

FairSpec == Spec /\ Fairness

\* As FairSpec, when every download a session waits for does arrive.
LiveSpec == FairSpec /\ \A s \in Sessions : WF_vars(ResourceReady(s))

-----------------------------------------------------------------------------
(* Properties.                                                             *)

\* The messages a CompileSession handles in a state (process_msg of the state);
\* CANCEL_SESSION is handled in every state.
ServerExpected(session) ==
  {"CANCEL_SESSION"}
    \cup (CASE session.state = "DownloadMissingHeaders" -> {"TASK_FILES"}
            [] session.state \in {"DownloadingCompiler", "DownloadingPCH"} /\ session.work = "idle"
                 -> {"MORE", "LAST"}
            [] session.state = "WaitForConfirmation" -> {"CONFIRM_SEND", "CONFIRM_DROP"}
            [] OTHER -> {})

\* Neither end ever has to handle a message its state does not expect, however
\* cancels, time-outs and answers cross: the assertions on the message type in
\* got_data_from_server and in the process_msg of the server's states.
NoUnexpectedMessage ==
  \A s \in Sessions :
    /\ phase[s] = "running" /\ toManager[s] # <<>> => Head(toManager[s]).type \in Expected(s)
    /\ srv[s].live /\ toServer[s] # <<>> => Head(toServer[s]).type \in ServerExpected(srv[s])

\* A session that receives an object file owns the task and was not cancelled:
\* the assertions of compile_session.py:154 and task.py:92.
ReceiverOwnsTask ==
  \A s \in Sessions : state[s] = "RECEIVE_OBJECT_FILE" => completedBy = s /\ ~cancelled[s]

\* What the server has told the manager when it removes a session.
LastWord(m) == \/ m.type \in {"SESSION_CANCELLED", "TIMED_OUT", "SERVER_FAILED", "LAST"}
               \/ m.type = "SERVER_DONE" /\ ~m.ok

\* The manager never waits for a session the server has removed without its
\* last word being on the way or the result being written: session_done is
\* always preceded by a final message, also when the cancel comes too late
\* (compile_session.py:89-95).
NobodyWaitsForTheDead ==
  \A s \in Sessions :
    /\ phase[s] = "running"
    /\ srv[s].state # "GetTask"
    /\ ~srv[s].live
    => future[s] \/ \E i \in DOMAIN toManager[s] : LastWord(toManager[s][i])

\* Two sessions of a task never write the result file at the same time, unless
\* one was terminated while it was writing: SERVER_DONE asks for the object file
\* of the first session only (compile_session.py:132-144).
OneWriter ==
  \A s, t \in Sessions :
    future[s] /\ future[t] => s = t \/ "terminated" \in {result[s], result[t]}

\* A decompression that ends in a finished session belongs to a terminated one:
\* the assertion of complete_session (compile_session.py:192).
FinishedWriterWasTerminated ==
  \A s \in Sessions : future[s] /\ state[s] = "FINISH" => result[s] = "terminated"

\* The result file of a task has one writer, and a writer that comes too late is
\* one that was terminated.
WritersInv == TypeOK /\ OneWriter /\ FinishedWriterWasTerminated

\* After SESSION_CANCELLED the server sends nothing more for the session
\* (runner.py:416-417).
NothingAfterCancelled ==
  [][\A s \in Sessions : srv[s].state = "Cancelled" =>
       Len(toManager'[s]) <= Len(toManager[s])]_vars

\* Every session ends on both sides: a server session always leaves
\* ServerRunner.sessions, and a manager session always completes.
SessionsEnd ==
  \A s \in Sessions :
    /\ srv[s].live ~> ~srv[s].live
    /\ phase[s] = "running" ~> phase[s] = "finished"

\* A task gets its answer; if every session of the model was used up without
\* one, the task is waiting for the next.
TaskAnswered ==
  <>(answered > 0 \/ (pending > 0 /\ \A s \in Sessions : phase[s] = "finished"))
=============================================================================
