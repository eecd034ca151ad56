-------------------------- MODULE HeaderRepository --------------------------
(***************************************************************************)
(* The server's header repository (server/header_repository.py) for the    *)
(* headers of one client machine, and the part of CompileSession           *)
(* (server/runner.py) that uses it.  missing_files, session_complete and   *)
(* the start of the compiler run on the event loop; prepare_dir runs in a  *)
(* thread pool, so its steps interleave with everything else.              *)
(*                                                                         *)
(* The repository knows a session by id(session), the address of the       *)
(* object, which Python gives to another object once the first is gone.    *)
(* A header's content stands for its checksum as well.                     *)
(***************************************************************************)
EXTENDS Naturals, FiniteSets

CONSTANTS
  Sessions,   \* the CompileSession objects
  Ids,        \* the addresses they can have
  IdsReused,  \* does an object get the address of one that is gone?
  Keys,       \* (directory, name) of a header
  Contents,   \* contents of a header, identified with their checksums
  Absent,     \* no entry in a map
  InProgress  \* the checksum 'IN_PROGRESS'

ASSUME MarkersAssumption == Absent \notin Contents \cup Ids \cup Keys
                              /\ InProgress \notin Contents \cup {Absent}
ASSUME ReuseAssumption == IdsReused \in BOOLEAN

VARIABLES
  checksums,  \* HeaderRepository.checksums[machine]
  global,     \* HeaderRepository.global_map[machine]
  temp,       \* HeaderRepository.temp_map, per id
  tempdirs,   \* the ids in HeaderRepository.tempdirs
  id,         \* id(session)
  want,       \* the headers of session.task.filelist, with their checksums
  needed,     \* session_data: the headers reported missing
  todo,       \* headers still to look up, then headers still to store
  step,       \* where the session is on the event loop
  thread,     \* where the session's prepare_dir is
  file,       \* the header prepare_dir works on
  used        \* the temporary headers handed to the compiler

repository == <<checksums, global, temp, tempdirs>>
vars == <<repository, id, want, needed, todo, step, thread, file, used>>

\* "preparing" lasts from TASK_FILES until the compiler and the PCH are there.
\* A session that ends while another one's download still has to call it back
\* is "late".
Steps == {"new", "checking", "asked", "preparing", "blocked", "compiling", "stuck",
          "ending", "ended", "endingLate", "late", "lateBlocked", "lateCompiling"}

Threads == {"none", "queued", "next", "local", "map", "publish", "done", "raised"}

MaybeHeaders == [Keys -> Contents \cup {Absent}]

NoHeaders == [k \in Keys |-> Absent]

TypeOK ==
  /\ checksums \in [Keys -> Contents \cup {Absent, InProgress}]
  /\ global \in MaybeHeaders
  /\ temp \in [Ids -> MaybeHeaders]
  /\ tempdirs \subseteq Ids
  /\ id \in [Sessions -> Ids \cup {Absent}]
  /\ \A s \in Sessions : step[s] # "new" => id[s] \in Ids /\ want[s] \in [Keys -> Contents]
  /\ \A s \in Sessions : thread[s] # "none" => step[s] # "new"
  /\ \A s \in Sessions : thread[s] \in {"local", "map", "publish"} => file[s] \in Keys
  /\ want \in [Sessions -> MaybeHeaders]
  /\ needed \in [Sessions -> SUBSET Keys]
  /\ todo \in [Sessions -> SUBSET Keys]
  /\ step \in [Sessions -> Steps]
  /\ thread \in [Sessions -> Threads]
  /\ file \in [Sessions -> Keys \cup {Absent}]
  /\ used \in [Sessions -> MaybeHeaders]

Init ==
  /\ checksums = NoHeaders
  /\ global = NoHeaders
  /\ temp = [i \in Ids |-> NoHeaders]
  /\ tempdirs = {}
  /\ id = [s \in Sessions |-> Absent]
  /\ want = [s \in Sessions |-> NoHeaders]
  /\ needed = [s \in Sessions |-> {}]
  /\ todo = [s \in Sessions |-> {}]
  /\ step = [s \in Sessions |-> "new"]
  /\ thread = [s \in Sessions |-> "none"]
  /\ file = [s \in Sessions |-> Absent]
  /\ used = [s \in Sessions |-> NoHeaders]

-----------------------------------------------------------------------------
(* The event loop: one handler at a time.                                  *)

\* The handlers that pool threads can interleave with are several actions; no
\* other handler starts in between.  future.result() blocks the whole loop.
InHandler == {"checking", "blocked", "ending", "endingLate", "lateBlocked"}

At(s, steps) ==
  /\ step[s] \in steps
  /\ \A t \in Sessions \ {s} : step[t] \notin InHandler

Goto(s, here) == step' = [step EXCEPT ![s] = here]

\* A session object is garbage, and its address free, once its work is over and
\* neither a thread nor a list of waiters refers to it.
Freed(s) == step[s] = "ended" /\ thread[s] \in {"none", "done", "raised"}

\* Mutant: the address of an object that is gone is used again.
FreeIds_Reused == Ids \ {id[s] : s \in {t \in Sessions : ~Freed(t)}}

\* The addresses a new object can have.
FreeIds == Ids \ {id[s] : s \in {t \in Sessions : ~(IdsReused /\ Freed(t))}}

NewSession(s) ==
  /\ At(s, {"new"})
  /\ \E i \in FreeIds : id' = [id EXCEPT ![s] = i]
  /\ \E w \in [Keys -> Contents] : want' = [want EXCEPT ![s] = w]
  /\ todo' = [todo EXCEPT ![s] = Keys]
  /\ Goto(s, "checking")
  /\ UNCHANGED <<repository, needed, thread, file, used>>

\* One round of the loop of missing_files, which takes no lock.
CheckFile(s) ==
  /\ At(s, {"checking"})
  /\ \E k \in todo[s] :
       /\ todo' = [todo EXCEPT ![s] = @ \ {k}]
       /\ needed' = [needed EXCEPT ![s] = IF checksums[k] # want[s][k] THEN @ \cup {k} ELSE @]
  /\ UNCHANGED <<repository, id, want, step, thread, file, used>>

ReportMissing(s) ==
  /\ At(s, {"checking"})
  /\ todo[s] = {}
  /\ Goto(s, "asked")
  /\ UNCHANGED <<repository, id, want, needed, todo, thread, file, used>>

\* TASK_FILES arrives: prepare_dir is submitted to the thread pool.
GotTaskFiles(s) ==
  /\ At(s, {"asked"})
  /\ Goto(s, "preparing")
  /\ thread' = [thread EXCEPT ![s] = "queued"]
  /\ UNCHANGED <<repository, id, want, needed, todo, file, used>>

\* __run_compiler, down to include_dirs_future.result().
RunCompiler(s) ==
  /\ At(s, {"preparing", "late"})
  /\ tempdirs' = tempdirs \cup {id[s]}
  /\ Goto(s, IF step[s] = "late" THEN "lateBlocked" ELSE "blocked")
  /\ UNCHANGED <<checksums, global, temp, id, want, needed, todo, thread, file, used>>

\* run_compiler: get_mappings hands the session's maps to the new process.
StartCompiler(s) ==
  /\ At(s, {"blocked", "lateBlocked"})
  /\ thread[s] = "done"
  /\ used' = [used EXCEPT ![s] = temp[id[s]]]
  /\ Goto(s, IF step[s] = "lateBlocked" THEN "lateCompiling" ELSE "compiling")
  /\ UNCHANGED <<repository, id, want, needed, todo, thread, file>>

\* result() passes on the exception of prepare_dir.  The self-destruct event is
\* cancelled already, so nothing ever ends the session.
CompilerNotStarted(s) ==
  /\ At(s, {"blocked", "lateBlocked"})
  /\ thread[s] = "raised"
  /\ Goto(s, IF step[s] = "lateBlocked" THEN "ended" ELSE "stuck")
  /\ UNCHANGED <<repository, id, want, needed, todo, thread, file, used>>

\* A late callback that gives up (its timer has fired, or a cancel is pending),
\* or the end of a compiler that ran for a session already over.
LateEnd(s) ==
  /\ At(s, {"late", "lateCompiling"})
  /\ Goto(s, "ended")
  /\ UNCHANGED <<repository, id, want, needed, todo, thread, file, used>>

\* session_done, at the end of the compilation or on a time-out or cancel before
\* it: session_complete first forgets the temporary headers ...
EndSession(s) ==
  /\ At(s, {"asked", "preparing", "compiling"})
  /\ temp' = [temp EXCEPT ![id[s]] = NoHeaders]
  /\ \/ Goto(s, "ending")
     \/ step[s] = "preparing" /\ Goto(s, "endingLate")
  /\ UNCHANGED <<checksums, global, tempdirs, id, want, needed, todo, thread, file, used>>

\* ... and then removes the directory.
RemoveTempdir(s) ==
  /\ At(s, {"ending", "endingLate"})
  /\ tempdirs' = tempdirs \ {id[s]}
  /\ Goto(s, IF step[s] = "endingLate" THEN "late" ELSE "ended")
  /\ UNCHANGED <<checksums, global, temp, id, want, needed, todo, thread, file, used>>

-----------------------------------------------------------------------------
(* The thread pool: prepare_dir.                                           *)

ThreadGoto(s, here) == thread' = [thread EXCEPT ![s] = here]

sessionVars == <<id, want, needed, step, used>>

\* Mutant: the directory is left for the compilation to make.
PrepareDir_NoTempdir(s) ==
  /\ thread[s] = "queued"
  /\ todo' = [todo EXCEPT ![s] = needed[s]]
  /\ ThreadGoto(s, "next")
  /\ UNCHANGED <<repository, file, sessionVars>>

\* The data of missing_files is taken and the directory is made.
PrepareDir(s) ==
  /\ thread[s] = "queued"
  /\ tempdirs' = tempdirs \cup {id[s]}
  /\ todo' = [todo EXCEPT ![s] = needed[s]]
  /\ ThreadGoto(s, "next")
  /\ UNCHANGED <<checksums, global, temp, file, sessionVars>>

\* Mutant: the checksum is published before the header is mapped.
CreateShared_PublishesFirst(s) ==
  /\ thread[s] = "next"
  /\ \E k \in todo[s] :
       /\ file' = [file EXCEPT ![s] = k]
       /\ todo' = [todo EXCEPT ![s] = @ \ {k}]
       /\ IF checksums[k] = Absent
            THEN checksums' = [checksums EXCEPT ![k] = want[s][k]] /\ ThreadGoto(s, "map")
            ELSE /\ ThreadGoto(s, IF checksums[k] # want[s][k] THEN "local" ELSE "next")
                 /\ UNCHANGED checksums
  /\ UNCHANGED <<global, temp, tempdirs, sessionVars>>

\* Mutant: a header whose checksum differs replaces the shared one.
CreateShared_Replaces(s) ==
  /\ thread[s] = "next"
  /\ \E k \in todo[s] :
       /\ file' = [file EXCEPT ![s] = k]
       /\ todo' = [todo EXCEPT ![s] = @ \ {k}]
       /\ IF checksums[k] # want[s][k]
            THEN checksums' = [checksums EXCEPT ![k] = InProgress] /\ ThreadGoto(s, "map")
            ELSE ThreadGoto(s, "next") /\ UNCHANGED checksums
  /\ UNCHANGED <<global, temp, tempdirs, sessionVars>>

\* create_shared, the part under the machine's lock.
CreateShared(s) ==
  /\ thread[s] = "next"
  /\ \E k \in todo[s] :
       /\ file' = [file EXCEPT ![s] = k]
       /\ todo' = [todo EXCEPT ![s] = @ \ {k}]
       /\ IF checksums[k] = Absent
            THEN checksums' = [checksums EXCEPT ![k] = InProgress] /\ ThreadGoto(s, "map")
            ELSE /\ ThreadGoto(s, IF checksums[k] # want[s][k] THEN "local" ELSE "next")
                 /\ UNCHANGED checksums
  /\ UNCHANGED <<global, temp, tempdirs, sessionVars>>

\* create_temp_file: KeyError once session_complete has removed the directory.
CreateTempFile(s) ==
  /\ thread[s] = "local"
  /\ IF id[s] \in tempdirs
       THEN /\ temp' = [temp EXCEPT ![id[s]][file[s]] = want[s][file[s]]]
            /\ ThreadGoto(s, "next")
       ELSE ThreadGoto(s, "raised") /\ UNCHANGED temp
  /\ UNCHANGED <<checksums, global, tempdirs, todo, file, sessionVars>>

CreateSharedFile(s) ==
  /\ thread[s] = "map"
  /\ global' = [global EXCEPT ![file[s]] = want[s][file[s]]]
  /\ ThreadGoto(s, "publish")
  /\ UNCHANGED <<checksums, temp, tempdirs, todo, file, sessionVars>>

\* The second part under the lock.
Publish(s) ==
  /\ thread[s] = "publish"
  /\ checksums' = [checksums EXCEPT ![file[s]] = want[s][file[s]]]
  /\ ThreadGoto(s, "next")
  /\ UNCHANGED <<global, temp, tempdirs, todo, file, sessionVars>>

\* _process_temp_files stores the source file.
ProcessTempFiles(s) ==
  /\ thread[s] = "next"
  /\ todo[s] = {}
  /\ ThreadGoto(s, IF id[s] \in tempdirs THEN "done" ELSE "raised")
  /\ UNCHANGED <<repository, todo, file, sessionVars>>

-----------------------------------------------------------------------------
EventLoop(s) ==
  \/ NewSession(s)
  \/ CheckFile(s)
  \/ ReportMissing(s)
  \/ GotTaskFiles(s)
  \/ RunCompiler(s)
  \/ StartCompiler(s)
  \/ CompilerNotStarted(s)
  \/ LateEnd(s)
  \/ EndSession(s)
  \/ RemoveTempdir(s)

PoolThread(s) ==
  \/ PrepareDir(s)
  \/ CreateShared(s)
  \/ CreateTempFile(s)
  \/ CreateSharedFile(s)
  \/ Publish(s)
  \/ ProcessTempFiles(s)

Next == \E s \in Sessions : EventLoop(s) \/ PoolThread(s)

Spec == Init /\ [][Next]_vars

-----------------------------------------------------------------------------
(* Properties.                                                             *)

\* The compiler is handed the global map and the temporary one, whose entries
\* take precedence.
Seen(s, k) == IF used[s][k] # Absent THEN used[s][k] ELSE global[k]

\* Every compilation sees exactly the headers its task was scanned with,
\* whatever other sessions store, publish and drop meanwhile: the point of
\* missing_files, create_shared and get_mappings together.
HeadersCorrect ==
  \A s \in Sessions : step[s] = "compiling" => \A k \in Keys : Seen(s, k) = want[s][k]

\* A temporary header that a compilation sees was sent for its own session:
\* "a temporary header, which will be needed for one session only"
\* (header_repository.py:32).
TempHeadersPrivate ==
  \A s \in Sessions : step[s] = "compiling" =>
    \A k \in Keys : used[s][k] # Absent => k \in needed[s]

\* Maps and directories are sound, and what is temporary stays with its session.
RepositoryInv == TypeOK /\ TempHeadersPrivate

\* A checksum is published only after the header it promises is mapped, so a
\* session that is told not to send a header finds it
\* (header_repository.py:104-107).
PublishedIsMapped == \A k \in Keys : checksums[k] \in Contents => global[k] = checksums[k]

\* A shared header never changes, as sessions that were told they need not send
\* it still rely on it (header_repository.py:95-101).
SharedIsStable == [][\A k \in Keys : global[k] # Absent => global'[k] = global[k]]_vars

\* prepare_dir never raises for a session that still waits for it: the session
\* would stay in ServerRunner.sessions for good (runner.py:308).
NoSessionStuck == \A s \in Sessions : step[s] # "stuck"

=============================================================================
