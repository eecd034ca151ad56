# BuildPal in TLA+

BuildPal distributes Visual C++ compilations. On the developer's machine a
**client** (`Extensions/Client`) stands in for `cl.exe` and passes each command
line to the **manager** (`Python/buildpal/manager`). The manager splits it into
tasks, one per source file, scans the headers of each and gives it to a
**server** (`Python/buildpal/server`) on some node. The server asks for what it
lacks (headers, the compiler, a precompiled header), runs the compiler with the
received files mapped over the file system, and returns the object file. An idle
node may take over a task that is already running elsewhere; the first node that
finishes wins.

This directory models that whole path: the compiler command and how it is
intercepted (`ProcessHooks`, `Injection`), the client and the manager's command
processor (`Client`), the header scanner (`HeaderScanner`), the choice of a node
(`NodeManager`), tasks and their sessions on both sides (`Task`,
`SessionProtocol`), what the sessions of a server share (`HeaderRepository`,
`ServerResources`) and the compiler processes with the files they see
(`FileMaps`). Paths below are relative to `src/Python/buildpal/` unless they
start with `Extensions/`, which is `src/Extensions/`.

## Inventory

| Component | State | Operations | Meets | What is hard, what must hold |
|---|---|---|---|---|
| Task (`manager/task.py`) | running and finished sessions, the session that owns the result | register_session, register_completion, session_completed | server sessions, command processor | several sessions end in any order; one answer, never lost |
| Server session (`manager/compile_session.py`) | state, cancelled, sender, result | start, cancel, terminate, got_data_from_server, complete_session | task, node manager, compressor, the server | cancels cross answers; termination races with decompression |
| Node manager (`manager/node_manager.py`) | sessions, tasks per node, queue, connections | schedule_task, create_session, find_work, update_node_info | everything in the manager | connections awaited and lost, stealing, nodes that come and go |
| Node detection (`manager/__init__.py`, `common/beacon.py`) | missed replies per node | call | node manager | a live view handed out |
| Compressor (`manager/compressor.py`) | compressed files, waiters | compress_file | server sessions | lock and executor |
| Command processor (`manager/command_processor.py`, `manager/runner.py`) | tasks of a command, client state | request messages, task_completed, postprocess | client, tasks | compilation on the client, end of a command |
| Source scanner (`manager/source_scanner.py`) | queue of tasks to scan | add_task, worker threads | header scanner, node manager | threads that share the caches |
| Node statistics (`manager/node_info.py`) | counters and times | | node manager | |
| Message framing (`common/message.py`) | partial message | data_received, send_msg | all connections | chunks of any size, handlers that raise |
| Compile session (`server/runner.py`) | state, cancel_pending, self-destruct event | process_msg per state, callbacks | repositories, process runner, manager | time-outs race with callbacks |
| Header repository (`server/header_repository.py`) | checksums, global and temporary maps, directories | missing_files, prepare_dir, session_complete | compile sessions | pool threads against the event loop; the right headers for every compilation |
| Compiler and PCH repositories (`server/compiler_repository.py`, `server/pch_repository.py`) | partial and ready resources, waiters | register, when ready, ready | compile sessions | one session downloads for all |
| Process runner (`server/runner.py`) | slots, event | subprocess_exec | compile sessions | limit, lost wake-ups, busy waiting |
| Server runner (`server/runner.py`) | sessions, loop | RESET, SHUTDOWN | | restart with sessions left |
| Header scanner (`Extensions/HeaderScanner`) | header cache, naive cache, tracker per scan | scanHeaders, the callbacks of Clang, findEntry, addEntry, maintenance | source scanner | an entry recorded by one scan stands for a header in another; the same headers as without a cache |
| Process hooks (`Extensions/Client/hookProcess.cpp`, `Extensions/Common/apiHooks.hpp`) | table of compilations, worker threads, compilers and port | CreateProcess, GetExitCodeProcess, CloseHandle, TerminateProcess, Initialize | any program of a build, the client | bare pointers, handle values used again, callers that do not wait |
| DLL injection and loader (`Extensions/Common/dllInject.cpp`, `Extensions/Loader`) | suspend count, an event | injectLibrary, runDLL | process hooks, file mapping | two processes that meet at one event |
| File mapping (`Extensions/MapFiles`) | maps of the server and of each process | map_file, create_process, the hooked NT calls, Initialize | server runner, compiler processes | maps streamed through a pipe; the right file for every spelling |
| Client (`Extensions/Client/client.cpp`) | its place in the conversation | request, reply, run, exit | manager | the manager dies at any time; one outcome |
| Option parsing, database, GUI, console, MinHook, build scripts | | | | pure translation, input and output, or third-party |

`PROJECT.json` lists the same components with their status, and under `hazards`
every place where the code is hard to test.

## Modules

**`Task`** is one task as the manager keeps it. `phase`, `cancelled`, `result`
describe its sessions, `completedBy` is `completed_by_session`, `pending` counts
how often the task is queued or waits for a connection, and `answered` and
`sessionsDone` count the calls of `task_completed` and `all_sessions_done`. The
operators `Do...` are the bodies of the methods; the actions add what the task
may expect of its sessions, so `TaskSpec` is also the abstract specification of
the protocol. `OwnerMayFail` says whether a session can still fail after it has
become the owner of the result (it can: the object file may not be writable, the
server may time out, the node may vanish).

**`SessionProtocol`** extends `Task` with the sessions themselves. Per session,
`state`, `pchOwed` and `future` are the manager's side, `srv` is the server's
`CompileSession` with its self-destruct event (`timer`) and the callback it waits
for (`work`), and `toServer`, `toManager` are the messages under way, in order.
Each handler is one action with everything it sends and calls, down to
`Task.session_completed` and the rescheduling by the node manager. What comes
back later is an action of its own: a PCH written or compressed, a resource
brought by another session, the end of the compiler, the decompressed result,
the self-destruct event. `Faults` selects what may go wrong. Two exceptions the
code can raise are played out. In `CompletionAssertFails` the assertion of
`compile_session.py:137` fails, and because `data_received` leaves `msg_len` set
the message is handled again later. In `RunCompiler` a late callback raises in a
session that is over.

The node manager terminates a session when its node is no longer reported. With
the getter of nodes in `manager/__init__.py` this does not happen at present (see
the plan), but `terminate` is written for it and the model includes it as a
fault.

**`ProcessRunner`** is the coroutine `subprocess_exec` cut at its suspension
points. `Wake` is `asyncio.Event.set`, modelled from its use. **`FileMaps`**
extends it (see below).

**`HeaderRepository`** follows sessions from `missing_files` to the compiler.
`step` is the session on the event loop, `thread` its `prepare_dir` in the thread
pool. A handler that threads can interleave with is several actions (`InHandler`)
during which no other handler starts; waiting for `include_dirs_future` blocks
the loop in the same way. Contents stand for their checksums, one client machine
is modelled, and `IdsReused` says whether Python gives a new session object the
address, hence the key in `temp_map` and `tempdirs`, of one that is gone.

**`ServerResources`** is the compiler and the PCH shared by the sessions of a
server. The loop over the waiters runs inside the handler of the session that
brought the resource; `calls` is what the loop has left and no other handler runs
meanwhile. `Raises` is the condition under which `__run_compiler` raises, which
ends the loop. `SessionProtocol` leaves it open when a resource comes; this
module shows when it does.

**`NodeManager`** decides which node compiles which task: the queue, the slots,
awaited connections (`connecting`), `tasks_running` (`running`), work found or
stolen when a session ends. A session is only the task in `running`; `owner` is
the node of `completed_by_session`. Which free node is the best and which tasks
are viable for stealing depends on measured times: any free node may be best and
the ratio of times is any number up to `MaxRatio`. `FixedNodeList` is built in.
**`NodeDetector`** is the set of nodes found by multicast, and
**`DetectedNodes`** composes the two, with either kind of node list; its ghost
`known` is the list as it was when the queue began to fill.

**`Command`** is what a build may rely on: a command ends at most once, with the
exit codes of its files only if all of them were compiled, and is linked only if
all were compiled without error; any other end means that the real compiler was
run instead or that the command was refused. **`Client`** is the conversation in
detail: the client's loop in `distributedCompile`, the handlers of
`ClientProcessor` and `CommandProcessor`, the tasks, and those the client
compiles itself, handed over by a scanner's thread. `toCli`, `toMgr` are the two
directions of the pipe, `mgr` the state of the `CommandProcessor`, `ready` and
`cur` the `ClientTaskCompiler`. Exit codes are four bytes on the way (`Encode`,
`Decode`). The manager may stop at any step. `Cmd` instantiates `Command`, and
`CommandSpec` is the refinement.

**`HeaderScanner`** lets threads of the source scanner take tasks and scan them,
one directive at a time. The naive attempt (**`NaivePreprocessor`**) follows all
includes and gives up at the first macro in an include; then Clang reads the
files and tells **`HeaderTracker`** what it sees. The tracker (`headerTracker_.cpp`)
keeps a context per header with its used and changed macros and the stack of
conditions, and asks **`HeaderCache`** for an entry before a header is entered.
A cache entry is its path in the decision tree (used macros and their values),
its effect on macros and its headers. **`Clang`** is external: directives, branches
and include guards as the callbacks present them, and `Run`, preprocessing
without any cache, the reference that scans are compared with.

**`Injection`** is the loading of a DLL into a process that is being created, as
steps of the creator and of the new process (a *kid*) around the suspend count of
the main thread and the event `initDone`. It is shared by two modules.
**`ProcessHooks`** is a program under the hooks of `hookProcess.cpp`: its threads,
the `DistributedCompilation` objects, their worker threads and the table
`distributedCompilationInfo`. `Handles` are values the system gives out again. What
undefined behaviour can do after a freed object is used is in `Dangling`.
**`HookPipe`** is what a hooked process tells its kids, byte by byte, and how
`Initialize` reads it in chunks.

**`FileMaps`** composes `ProcessRunner` and `Injection` with `mapFiles.cpp`:
compilers wait for a slot, `OverrideCreateProcess` swaps the one `CreateProcess` of
Python, the session's maps are written into a pipe while the kid reads them, and
the kid hands its own mapping on. `Norm` gives directory and name for every
spelling of a path, external as far as it is the normalisation by Windows. `given`
is a ghost: what the creator meant the kid to see, the maps merged so that the last
one that has a name has the last word (`Merge`), which is not how they are sent.

The modules `MC...` define model values, sets of faults and files, and symmetry. The `..._proofs` modules hold the theorems. Operators with an
underscore, such as `Acquire_NoClear` or `X_FirstCompletes`, are faulty variants of the definition
behind them; each makes some property fail and shows that the property depends
on that line of the code.

## Runs

| Run | What it shows |
|---|---|
| `session_protocol` | Two sessions, all resources, all faults: no message meets a state that does not expect it; a receiver owns the task; the manager never waits for a session the server has dropped silently; no two sessions write the result at once unless one was terminated while writing, and only a terminated session finds itself finished when its result is written (`WritersInv`); nothing follows SESSION_CANCELLED; the task is answered once; the protocol implements `Task`; every session ends on both sides. |
| `task_answered` | If the owner delivers, the task is never lost, is recorded only after its answer, and is answered. |
| `header_repository` | Three sessions, one header, two contents: every compilation sees its own header; checksums are true; shared headers are stable; temporary ones are private; no session gets stuck. |
| `server_resources` | Time-outs and cancels in any state: whatever is being downloaded has one downloader, every waiter is called (`ResourceInv`), no compiler starts without its resources, every session leaves. |
| `node_manager` | Four tasks on two nodes, fixed or detected: a task is dropped only by a connection that fails (`PlacementInv`), and tasks are queued only while every node known by then is filled. |
| `header_scan` | Two threads, two tasks and six sets of files: a scan by Clang reports exactly the headers that preprocessing without caches includes, a naive scan no fewer; the mirrored macros are those of Clang and the entries of a file form a decision tree (`ScannerInv`); every entry is right wherever it is found (`EntriesReplayable` replays it from every state that matches it). |
| `client` | Two commands of all kinds, a manager that may stop: the conversation keeps to its turns and is closed only behind an answer (`ConversationInv`), client and manager implement `Command`, and every command ends. |
| `process_hooks` | A program, its workers and fallbacks, a kid and a grandkid: freed objects are used only if the program closed a handle too early or terminated the compilation; callers that wait get the right code; handle values find no old entry and suspended processes come back suspended (`HooksInv`); kids know the compilers; waiters get on and injections return. |
| `compiler_process` | Three compilers in two slots, a process one of them creates and one created by the server: each sees the files it was given and those of its own session; writer and reader of the pipe agree (`PipeInv`); the limit holds, without busy waiting or lost wake-ups (`EventInv`); every compilation ends. |

Three runs end in a violation, each of something the code, a comment or a test
states:

| Run | Statement | What happens |
|---|---|---|
| `lost_task` | `manager/task.py:77` | The owner fails while its cancelled rival still runs; the rival's cancellation reschedules nothing. The same failure makes the assertion of `compile_session.py:137` fail. |
| `once_in_condition` | `src/Python/test/test_source_scanner.py:147-150` | `#pragma once` under a condition is recorded without the condition's macro. The test scans with two caches; with one, as in the program, the second scan misses `yyy.h`. |
| `suspended_child` | `Extensions/Common/dllInject.cpp:268-270` | A process created suspended sets `initDone` and waits for the same event, which is set; it may run its program before its creator suspends it. |

Where a property makes an exception, the exception is something the code does:
a handler that raises or a task lost by `command_processor.py:30`, where
`(compiler. options, task)` raises (`Stuck` in `Client`); an injection that is given up
and leaves its process suspended; a directory whose last file was unmapped, which
is sent like the end of the maps; more compilers than fit one chunk of
`Initialize`; a kid that dies in the loader while its creator waits without
a time-out.

Three more observations come out of the models without a run of their own.
Temporary headers are kept by the address of the session object
(`header_repository.py:35`), and a pool thread may store them after its session has
ended; `header_repository` assumes that addresses are not used again, and its
mutant `FreeIds_Reused` shows what happens otherwise. The self-destruct event ends a
download that other sessions wait for and nobody is asked for it again
(`compiler_repository.py:34`), the exception in `PartialHasDownloader`. And
`NodeDetector` hands out a live view of its dictionary, so `node_manager.py:44`
compares it with itself and a node found later is not given the tasks that are
queued, against `Documentation/intro.rst:56`; `NoIdleNode` speaks of the nodes known
when the queue began.

### Bounds

Two sessions suffice for every pairwise race of a task; `task_answered` has three,
so that a task can fail twice; what is proved of `Task` holds for any number.
`MaxPending` bounds how often a task is stolen. All queues are finite because
each side sends a bounded number of messages per session; file transfers are one
part and the final empty one, after which a longer transfer does nothing new.
`header_repository` needs three sessions for one that publishes, one that stores
locally and one that is told what is there; one header is enough for its
properties, which are about each header by itself, and the proofs cover more.
`server_resources` has a downloader of the compiler, one of the PCH and a waiter
for both. `node_manager` needs four tasks for two nodes of one slot to be filled
with another task waiting (two tasks more than slots, one of them stolen);
`MaxLoad` bounds how many copies of a task stealing can pile up on a node.

`header_scan` cleans its cache every second lookup (`Period`), so that entries are
evicted while scans hold them; its six sets of files were chosen for guards,
`#pragma once`, branches not taken, macros changed by one header and used by another, and
an include named by a macro. `client` has two tasks that lack headers, the least
for two threads to race for one client, next to a second command; output that
overflows a pipe is left out by `Outputs`, because client and process then wait for
each other for ever (`client.cpp:663`). `process_hooks` has one user thread and
three objects, which is a fallback of a fallback; `Spawning` separates programs that
create compilers from those that create other processes, which share no state. A
payload of `HookPipe` is at most 12 bytes with `Chunk = 8`, so that one configuration
does not fit. `compiler_process` bounds the pipe to one entry (`PipeSize`), which
makes writer and reader alternate in all ways; maps are not changed while they are
sent (`InUse`), the server uses its own hooks only before the first compilation
(`NoJobs`), and a compiler's process is created when the others are done
(`OthersDone`).

Deadlock is not checked: every model stops when its sessions are over.

### Fairness

Handlers on an event loop run when they are due: weak fairness of each session's
handlers and callbacks. Compilers are assumed to end. The scheduler is run every
second (`runner.py:541-550`), which is the fairness of `SelfDestruct`. Nothing is
assumed of resources that another session downloads, except in `task_answered`
(`LiveSpec`), which is about tasks and not about downloads. In `ServerResources`
a session either gets the message it waits for or its event comes; without
time-outs that says that the manager sends what it was asked for. In
`Client` the event loop, the threads and the client run on, servers answer, and a
process whose output fits ends; that the manager goes on is not assumed
(`ManagerStops` disables it). In `ProcessHooks` threads, workers and processes run on,
but nothing is assumed of what a program does with a handle. In `FileMaps` the steps
of an event loop are strongly fair, as it runs its callbacks in the order they are
due although one `create_process` after another keeps it busy in between;
creators, kids and pool threads are weakly fair.

## Proofs

All theorems hold for every value of the constants that satisfies the named
assumptions.

* `Task_proofs`: types; at most one answer, from an invariant that ties `answered`
  to the owner (an answered task has an owner that has finished with success, and
  nobody else has); the owner is final. Under `~OwnerMayFail`, that the task is
  never lost and is recorded only after the answer; the invariant adds that a
  cancelled session or one that came too late implies an owner, which is exactly
  what fails when the owner may fail, as `lost_task` shows.
* `SessionProtocol_proofs`, first half: `ManagerInv` relates the manager's state of a
  session to its place in the task, and from it the protocol implements `TaskSpec`,
  step by step: handlers that complete a session, that register a completion, that
  start one, and those that leave the task alone. Single answers then carry over.
  Nothing is assumed of the server here: its messages are arbitrary.
* `SessionProtocol_proofs`, second half, is about the messages
  (`NoUnexpectedMessage`, `NobodyWaitsForTheDead`, `WritersInv`,
  `NothingAfterCancelled`). Each end of a session has a position in the protocol; a
  queue is a `Path`, a sequence of positions that never goes back, from where the
  receiver is to where the sender is. `ChannelInv` says so of both directions and
  adds what a path cannot: a cancel may be anywhere (`CancelInv`), a server that
  is gone has its last word on the way (`LastWordInv`), a verdict to drop the
  result was sent by a finished session (`DropInv`). Without the paths the
  properties are not inductive, as nothing would relate the messages behind the
  first one to the states.
* `FileMaps_proofs`, first part: in the runner's own specification `current` counts
  the running compilers, by induction with the cardinality of that set; together
  with the flag of the event this gives the absence of busy waiting and of lost
  wake-ups. `FileMaps` then implements that specification (`RunnerImplemented`), so
  both carry over to compilers that are injected, fed and terminated
  (`CompilersRespectSlots`, `CompilersAreWoken`).
* `FileMaps_proofs`, second part: `Stage` ties the place of a kid to that of its
  creator, and `PipeOf` says that what the kid has read, what is in the pipe and what
  is still to be written are together the sequence `writeMappings` made, cut at two
  places (`Transfers`). What a reader makes of an initial part of that sequence is
  said without a fold, by the last entry for each name (`Means`, `LastWord`); `addFile`
  takes it one entry further, and at the end it is `Merge` of the maps. This gives `SeesGivenFiles` and `PipeInv` for any maps and any
  size of the pipe. For `OwnFiles`, `MapInv` says which session put a file into a map
  and `JobInv` that a process is given the maps of its own job, whoever else
  replaces `CreateProcess` meanwhile. `FileOrDirectory` is needed: a path that one
  session knows as a file and another as a directory would open as the latter.
  `MapsAssumption` and `FilesAssumption` only type the constants and make the paths
  finitely many.
* `ServerResources_proofs`: a partial resource has an owner, the session that is to
  bring it (`OwnerInv`); queues of handlers hold no session twice (`QueuesInv`);
  a queued session brings nothing itself, and raises when it is called only if it
  timed out or was cancelled twice (`QueuedInv`). `ResourceInv` and
  `CompilesWithResources` follow for any number of sessions.
* `HeaderRepository_proofs`: `SharedInv` says that the marker `IN_PROGRESS` gives
  one thread the header until it is published, which makes checksums true and
  shared headers stable however addresses are used. `PrivateInv` follows a header
  of a session through `missing_files`, the thread and the maps; with distinct
  addresses (`~IdsReused`) it gives the right headers for every compilation, and
  `RepositoryInv`.
* `DetectedNodes_proofs`: `PlaceInv` strengthens `TasksPlaced` by `BegunInv` (lists hold
  only tasks that have been scheduled, so that stealing cannot bring in others)
  and `OwnersRun` (the owner of an unanswered task still runs it); from it no task
  is lost. `NoIdleNode` then is inductive, by the loads before and after
  `__find_work`. Stealing flattens sequences of sequences; what a flattened
  sequence holds is shown by the least counterexample over the initial parts
  (`Least`, `FlattenType`), which is how induction over numbers can be done
  here. The nodes must be finitely many (`NodesAssumption`): their order is a sequence.
* `Client_proofs`: client and manager implement `Command`. `RefInv` says that what the
  manager's last message says of the files is true of the results, and remains so
  because a promise about all files leaves no result to add; a command that is not
  over has no outcome yet. `DecodeEncode` shows that every exit code of 32 bits
  survives as four bytes. For `ConversationInv`, `Turn` gives the messages under way
  while the two sides take turns, and `Wire` what is left once the scanner's
  threads send as well: no message behind a final one, and a connection that is
  closed only behind it.
* `ProcessHooks_proofs`: `CompilationInv` follows a compilation's handle, object, entry
  and worker from `CreateProcess` to `CloseHandle`, for any number of threads (the
  run has one): callers have handles of their own, the table and the live objects
  are each other's inverse, the event is set last, and the object outlives its
  worker unless the program misused it. `KidInv` gives the suspend count of a kid's
  main thread from the places of creator and kid. For `Inherited`, `HeirsInv` says of a
  kid what is in its pipe and what it has made of it; that the payload of a process is
  read back as its data (`PayloadParsed`) is shown for any compilers and any bytes, from
  what one string and one compiler do to the state of `Initialize` (`Trace`, `Parses`).
  The paths must be finitely many, not empty and without zero bytes
  (`ExecutablesAssumption`), as file names are.

Model-checked only: liveness under fairness, which TLAPS cannot handle; and
`ScanExact`, `NaiveSuperset`, `ScannerInv` and `EntriesReplayable` of `HeaderScanner`, which compare scans
with `Run`, a recursive operator over the nesting of headers; what it computes for
every set of files needs an induction over data that the provers do not do.
Every other property of a passing run is a theorem.

## Not modelled, and the plan

File contents, timing statistics and UI events are left out throughout. A task
has one result file. Not modelled, with the hazards that remain there:

* the header scanner's content cache and the locks inside its caches: an iterator
  used between two locks (`contentCache_.cpp:60`), an entry that detaches itself
  outside the lock (`headerCache_.hpp:300`); cache operations are atomic here;
* headers that change: `contentChanged_` is never fired (`contentCache_.hpp:206`), so
  entries outlive their header; and search paths: their hash is dropped
  (`headerScanner_.cpp:308`), so entries are shared between them;
* the eviction order, modelled as it is but without a property: a new entry counts
  as last hit at half the present time (`headerCache_.cpp:139`), which
  `headerCache_.hpp:373-376` does not say;
* maps changed by a pool thread while `create_process` reads them
  (`mapFiles.cpp:372`, the bound `InUse`); more compilers than a pipe holds
  (`hookProcess.cpp:447`); directory listings of mapped directories;
* environments, argument lists and search for executables in the client, thread
  contexts and machine code in the injection;
* chunks of messages: a handler that raises drops the rest of its chunk
  (`common/message.py:96`); the cache of the compressor, read outside its lock
  (`compressor.py:42`);
* RESET and SHUTDOWN of the server and a server killed while it extracts a
  compiler (`compiler_repository.py:31`);
* option parsing, the database and the user interfaces, MinHook and the build
  scripts: pure translation, input and output, or third-party.

Next, in this order:

1. `ContentCache` with its locks, and files that change between scans.
2. `MessageFraming` against a reference that splits a stream; `Compressor` with its
   lock and its limit of cached files.
3. The life cycle of `ServerRunner` with RESET, and `ServerResources` with a crash
   while a compiler is extracted.
4. `NodeManager` further: progress when connections are lost.
