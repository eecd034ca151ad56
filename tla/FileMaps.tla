------------------------------ MODULE FileMaps ------------------------------
(***************************************************************************)
(* Compilers of the server and the files they see.  A compiler runs on a   *)
(* machine that lacks the headers it names; CreateProcess is replaced by   *)
(* one that loads a DLL into the process (Injection) and sends it, through *)
(* a pipe, the file maps of its session (mapFiles.cpp).  The DLL's hooks   *)
(* then open the real files, and hand the maps on to further processes.    *)
(* The compilers share the slots of ProcessRunner; OverrideCreateProcess   *)
(* (server/runner.py) swaps the Python-level CreateProcess around a yield. *)
(*                                                                         *)
(* Paths are spelled in many ways; Norm gives the directory and the file   *)
(* name that normalizePath and decomposePath make of each.                 *)
(***************************************************************************)
EXTENDS ProcessRunner, Injection, Sequences, SequencesExt

CONSTANTS
  Parent,      \* of the kids that are not Jobs: a job, or Root
  Spelled,     \* paths as programs and sessions write them
  Norm,        \* Norm[p]: [dir, file, asDir]
  Maps,        \* the FileMap objects of the server
  Composition, \* Composition[j]: the maps of job j, in order
  FilesOf,     \* FilesOf[j][m]: the paths the session of j maps in m
  PipeSize     \* bound on what the pipe holds, in entries

Root == "root"
Original == "winapi"
Shared == "shared"   \* the FileMap all sessions of a machine share

ASSUME MapsAssumption ==
  /\ Jobs \subseteq Kids /\ Suspendable = {} /\ PipeSize \in Nat \ {0}
  /\ Root \notin Kids /\ Parent \in [Kids -> Kids \cup {Root}]
ASSUME FilesAssumption ==
  /\ IsFiniteSet(Spelled) /\ FilesOf \in [Jobs -> [Maps -> SUBSET Spelled]]
  /\ Composition \in [Jobs -> Seq(Maps)]

\* The session s maps the file that p names in the map m.
Brings(s, m, p) ==
  \E q \in FilesOf[s][m] : Norm[q].dir = Norm[p].dir /\ Norm[q].file = Norm[p].file
\* On the machine the sessions come from a file is not a directory as well.
ASSUME FileOrDirectory ==
  \A p, q \in Spelled, i, j \in Jobs, m, n \in Maps :
    Brings(i, m, p) /\ q \in FilesOf[j][n] => Norm[p].asDir # Norm[q].dir

VARIABLES
  maps,     \* customMappings
  gmap,     \* globalMapping of Root (the server) and of the kids
  enabled,  \* the hooks of map_files are enabled in the server itself
  prepared, \* jobs whose session has mapped its files
  cpFun,    \* subprocess._winapi.CreateProcess: Original, or of a job's maps
  save,     \* OverrideCreateProcess.save, per job
  inside,   \* jobs in the body of the with statement
  out,      \* what writeMappings has yet to write
  pipe,     \* entries in the pipe
  reading,  \* Initialize: directory and number of its entries to come
  given     \* ghost: the mapping the creator meant to give
mapVars == <<maps, gmap, enabled, prepared>>
overVars == <<cpFun, save, inside>>
pipeVars == <<out, pipe, reading, given>>
runnerVars == <<pc, current, ready>>
allVars == <<runnerVars, injVars, mapVars, overVars, pipeVars>>

(***************************************************************************)
(* FileMapping: directories, and in each the real files of its names.      *)
(***************************************************************************)
Empty == [d \in {} |-> {}]
NoFiles == [f \in {} |-> {}]
Put(fun, key, val) == [x \in DOMAIN fun \cup {key} |-> IF x = key THEN val ELSE fun[x]]
FilesIn(m, d) == IF d \in DOMAIN m THEN m[d] ELSE NoFiles

\* Mutant: a name that is mapped already keeps its file.
X_FirstKept(m, d, f, real) ==
  IF f \in DOMAIN FilesIn(m, d) THEN m ELSE Put(m, d, Put(FilesIn(m, d), f, real))
addFile(m, d, f, real) == Put(m, d, Put(FilesIn(m, d), f, real))
\* The directory stays, also when its last file goes.
removeFile(m, d, f) ==
  Put(m, d, [x \in DOMAIN FilesIn(m, d) \ {f} |-> FilesIn(m, d)[x]])

\* A path names a directory of the map, or a file in one.
getDir(m, p) == Norm[p].asDir \in DOMAIN m
realFile(m, p) == Norm[p].file \in DOMAIN FilesIn(m, Norm[p].dir)
\* ntCreateFile and ntQueryFullAttributesFile: a mapped directory, the real
\* file, or what the system says.
Resolve(m, p) ==
  IF getDir(m, p) THEN <<"directory">>
  ELSE IF realFile(m, p) THEN FilesIn(m, Norm[p].dir)[Norm[p].file]
  ELSE <<"original", p>>

\* writeMappings: for each directory the number of its files and its name,
\* then the files, then the end.  writeDir sends an empty directory too.
WriteFiles(files) == [i \in 1..Cardinality(DOMAIN files) |->
  LET f == SetToSeq(DOMAIN files)[i] IN [op |-> "file", name |-> f, real |-> files[f]]]
WriteDirs(m) ==
  LET WriteDir(d) ==
        <<[op |-> "dir", name |-> d, n |-> Cardinality(DOMAIN m[d])]>> \o WriteFiles(m[d])
      dirs == SetToSeq(DOMAIN m)
  IN FlattenSeq([i \in 1..Cardinality(DOMAIN m) |-> WriteDir(dirs[i])])
writeMappings(ms) ==
  Append(FlattenSeq([i \in 1..Len(ms) |-> WriteDirs(ms[i])]), [op |-> "end"])

\* What the maps mean together: the last one that has a name has the last word.
Having(ms, d, f) == {i \in 1..Len(ms) : f \in DOMAIN FilesIn(ms[i], d)}
LastHaving(ms, d, f) == CHOOSE i \in Having(ms, d, f) : \A n \in Having(ms, d, f) : n <= i
Merge(ms) ==
  [d \in UNION {DOMAIN ms[i] : i \in 1..Len(ms)} |->
     [f \in UNION {DOMAIN FilesIn(ms[i], d) : i \in 1..Len(ms)} |-> ms[LastHaving(ms, d, f)][d][f]]]
HasEmptyDir(m) == \E d \in DOMAIN m : DOMAIN m[d] = {}

MapsInit ==
  /\ Init /\ InjInit
  /\ maps = [m \in Maps |-> Empty]
  /\ gmap = [p \in Kids \cup {Root} |-> Empty]
  /\ enabled = FALSE /\ prepared = {}
  /\ cpFun = Original /\ save = [j \in Jobs |-> Original] /\ inside = {}
  /\ out = [k \in Kids |-> <<>>]
  /\ pipe = [k \in Kids |-> <<>>]
  /\ reading = [k \in Kids |-> [dir |-> Root, left |-> 0]]
  /\ given = [k \in Kids |-> Empty]

Injecting(k) == inj[k] \notin {"none", "returned", "refused"}
\* create_process blocks the event loop.
LoopFree == \A j \in Jobs : ~Injecting(j)

(***************************************************************************)
(* The map_files module used on the server's own process.  Bound: before   *)
(* the jobs, and not together with them.                                   *)
(***************************************************************************)
NoJobs == prepared = {}
mapFileGlobal(p) ==
  /\ NoJobs /\ ~enabled
  /\ gmap' = [gmap EXCEPT ![Root] = addFile(@, Norm[p].dir, Norm[p].file, <<Root, Norm[p].file>>)]
  /\ UNCHANGED <<runnerVars, injVars, maps, enabled, prepared, overVars, pipeVars>>
unmapFileGlobal(p) ==
  /\ NoJobs /\ ~enabled /\ Norm[p].dir \in DOMAIN gmap[Root]
  /\ gmap' = [gmap EXCEPT ![Root] = removeFile(@, Norm[p].dir, Norm[p].file)]
  /\ UNCHANGED <<runnerVars, injVars, maps, enabled, prepared, overVars, pipeVars>>
hookWinAPIs ==
  /\ NoJobs /\ ~enabled /\ gmap[Root] # Empty
  /\ enabled' = TRUE
  /\ UNCHANGED <<runnerVars, injVars, maps, gmap, prepared, overVars, pipeVars>>

(***************************************************************************)
(* Jobs of the server.                                                     *)
(***************************************************************************)
\* prepare_dir, in a thread of the pool, and run_compiler map the session's
\* files, one mapFile for each; a shared header is mapped by the first session
\* that brings it.  Bound: not while create_process reads one of the maps.
InUse(m) == \E j \in Jobs : Injecting(j) /\ m \in {Composition[j][i] : i \in DOMAIN Composition[j]}
Mapped(m, j, paths) ==
  LET New == IF m = Shared THEN {p \in paths : \A i \in prepared : p \notin FilesOf[i][m]} ELSE paths
      NewIn(d) == {Norm[p].file : p \in {q \in New : Norm[q].dir = d}}
  IN [d \in DOMAIN maps[m] \cup {Norm[p].dir : p \in New} |->
        [f \in DOMAIN FilesIn(maps[m], d) \cup NewIn(d) |->
           IF f \in NewIn(d) THEN <<j, f>> ELSE maps[m][d][f]]]
PrepareFiles(j) ==
  /\ gmap[Root] = Empty /\ j \notin prepared
  /\ \A m \in Maps : FilesOf[j][m] # {} => ~InUse(m)
  /\ maps' = [m \in Maps |-> Mapped(m, j, FilesOf[j][m])]
  /\ prepared' = prepared \cup {j}
  /\ UNCHANGED <<runnerVars, injVars, gmap, enabled, overVars, pipeVars>>

\* createProcessWithMapping and hookProcess, up to injectLibrary.
CreateWith(k, ms) ==
  /\ CreateSuspended(k)
  /\ out' = [out EXCEPT ![k] = writeMappings(ms)]
  /\ given' = [given EXCEPT ![k] = Merge(ms)]
  /\ UNCHANGED <<pipe, reading>>
MapsOf(j) == [i \in DOMAIN Composition[j] |-> maps[Composition[j][i]]]

SleepJob(j) ==
  /\ LoopFree /\ j \in prepared /\ Sleep(j)
  /\ UNCHANGED <<injVars, mapVars, overVars, pipeVars>>
\* Mutant: CreateProcess is not replaced when it is replaced already.
X_OverriddenOnce(j) == IF cpFun = Original THEN j ELSE cpFun
\* OverrideCreateProcess.__enter__
Overridden(j) == j
\* A slot is taken, CreateProcess replaced, and the process created before
\* create_subprocess_exec yields.
AcquireJob(j) ==
  /\ LoopFree /\ j \in prepared /\ Acquire(j)
  /\ save' = [save EXCEPT ![j] = cpFun]
  /\ cpFun' = Overridden(j)
  /\ inside' = inside \cup {j}
  /\ CreateWith(j, MapsOf(Overridden(j)))
  /\ UNCHANGED mapVars
\* create_subprocess_exec returns: __exit__ puts back what __enter__ found.
ExitOverride(j) ==
  /\ LoopFree /\ j \in inside /\ inj[j] \in {"returned", "refused"}
  /\ cpFun' = save[j]
  /\ inside' = inside \ {j}
  /\ UNCHANGED <<runnerVars, injVars, mapVars, save, pipeVars>>
\* The process is gone; the finally clause.
ReleaseJob(j) ==
  /\ LoopFree /\ j \notin inside /\ kid[j] = "ended" /\ Release(j)
  /\ UNCHANGED <<injVars, mapVars, overVars, pipeVars>>
\* session.process.terminate() for a cancelled session.
TerminateJob(j) ==
  /\ LoopFree /\ pc[j] = "running" /\ j \notin inside /\ kid[j] # "ended"
  /\ kid' = [kid EXCEPT ![j] = "ended"]
  /\ UNCHANGED <<runnerVars, inj, susp, asked, event, resumed, mapVars, overVars, pipeVars>>

(***************************************************************************)
(* The hooked createProcess of a program that has the DLL: its own mapping *)
(* goes to the process it creates.                                         *)
(***************************************************************************)
CreatorRuns(k) ==
  k \in Jobs \/ (IF Parent[k] = Root THEN enabled ELSE kid[Parent[k]] = "ran")
\* Bound: the other compilers, which share nothing with these two, are done.
OthersDone(k) == Parent[k] = Root \/ \A j \in Jobs \ {Parent[k]} : pc[j] = "done"
createProcess(k) ==
  /\ k \notin Jobs /\ OthersDone(k) /\ CreatorRuns(k) /\ (Parent[k] # Root => inj[Parent[k]] # "refused")
  /\ CreateWith(k, <<gmap[Parent[k]]>>)
  /\ UNCHANGED <<runnerVars, mapVars, overVars>>

(***************************************************************************)
(* The pipe.                                                               *)
(***************************************************************************)
\* Only the kid has the end to read from, until Initialize closes it.
ReadEnd(k) == kid[k] \in {"entry", "loader", "init"}
WriteEntry(k) ==
  /\ inj[k] = "local" /\ CreatorRuns(k) /\ out[k] # <<>> /\ ReadEnd(k) /\ Len(pipe[k]) < PipeSize
  /\ pipe' = [pipe EXCEPT ![k] = Append(@, Head(out[k]))]
  /\ out' = [out EXCEPT ![k] = Tail(@)]
  /\ UNCHANGED <<runnerVars, injVars, mapVars, overVars, reading, given>>
\* All is written, or WriteFile failed; hookProcess's callers ignore which.
Written(k) ==
  /\ CreatorRuns(k) /\ (out[k] = <<>> \/ ~ReadEnd(k))
  /\ Goes(k, "local", "written")
  /\ UNCHANGED <<runnerVars, kid, susp, asked, event, resumed, mapVars, overVars, pipeVars>>

\* readDir and readMapping in Initialize.
Reads(k, op) ==
  /\ kid[k] = "init" /\ susp[k] = 0 /\ pipe[k] # <<>> /\ Head(pipe[k]).op = op
  /\ pipe' = [pipe EXCEPT ![k] = Tail(@)]
\* Mutant: one entry of the directory is left unread.
X_OneLess(k) ==
  /\ Reads(k, "dir") /\ reading[k].left = 0 /\ Head(pipe[k]).n > 0
  /\ reading' = [reading EXCEPT ![k] = [dir |-> Head(pipe[k]).name, left |-> Head(pipe[k]).n - 1]]
  /\ UNCHANGED <<runnerVars, injVars, mapVars, overVars, out, given>>
readDir(k) ==
  /\ Reads(k, "dir") /\ reading[k].left = 0 /\ Head(pipe[k]).n > 0
  /\ reading' = [reading EXCEPT ![k] = [dir |-> Head(pipe[k]).name, left |-> Head(pipe[k]).n]]
  /\ UNCHANGED <<runnerVars, injVars, mapVars, overVars, out, given>>
readMapping(k) ==
  /\ Reads(k, "file") /\ reading[k].left > 0
  /\ gmap' = [gmap EXCEPT ![k] = addFile(@, reading[k].dir, Head(pipe[k]).name, Head(pipe[k]).real)]
  /\ reading' = [reading EXCEPT ![k].left = @ - 1]
  /\ UNCHANGED <<runnerVars, injVars, maps, enabled, prepared, overVars, out, given>>
\* No entries: the end, or an empty directory, which is taken for it.  The
\* handle is closed and the hooks are enabled.
readEnd(k) ==
  /\ \/ Reads(k, "end")
     \/ Reads(k, "dir") /\ reading[k].left = 0 /\ Head(pipe[k]).n = 0
  /\ Runs(k, "init", "hooked")
  /\ UNCHANGED <<runnerVars, inj, susp, asked, event, resumed, mapVars, overVars, out, reading, given>>
\* The creator is gone before the end is written: Initialize fails.
readFails(k) ==
  /\ pipe[k] = <<>> /\ k \notin Jobs /\ Parent[k] # Root /\ kid[Parent[k]] = "ended"
  /\ Runs(k, "init", "ended")
  /\ UNCHANGED <<runnerVars, inj, susp, asked, event, resumed, mapVars, overVars, pipeVars>>

LoopStep(j) == SleepJob(j) \/ AcquireJob(j) \/ ExitOverride(j) \/ ReleaseJob(j)
WriteStep(k) ==
  \/ WriteEntry(k) \/ Written(k)
  \/ CreatorRuns(k) /\ CreatorStep(k) /\ UNCHANGED <<runnerVars, mapVars, overVars, pipeVars>>
ReadStep(k) ==
  \/ readDir(k) \/ readMapping(k) \/ readEnd(k) \/ readFails(k)
  \/ KidStep(k) /\ UNCHANGED <<runnerVars, mapVars, overVars, pipeVars>>
MapsNext ==
  \/ \E p \in Spelled : mapFileGlobal(p) \/ unmapFileGlobal(p)
  \/ hookWinAPIs
  \/ \E j \in Jobs : PrepareFiles(j) \/ LoopStep(j) \/ TerminateJob(j)
  \/ \E k \in Kids :
       \/ createProcess(k) \/ WriteStep(k) \/ ReadStep(k)
       \/ InjFault(k) /\ UNCHANGED <<runnerVars, mapVars, overVars, pipeVars>>
MapsSpec == MapsInit /\ [][MapsNext]_allVars

\* Sessions prepare their files, the event loop runs what is due, and the
\* threads of creators and kids run on.
MapsFairness ==
  /\ \A j \in Jobs : WF_allVars(PrepareFiles(j)) /\ SF_allVars(LoopStep(j))
  /\ \A k \in Kids : WF_allVars(WriteStep(k)) /\ WF_allVars(ReadStep(k))
FairMapsSpec == MapsSpec /\ MapsFairness

(***************************************************************************)
(* Properties.                                                             *)
(***************************************************************************)
\* Type invariant.
MapsTypeOK ==
  /\ TypeOK
  /\ inj \in [Kids -> InjPlaces] /\ kid \in [Kids -> KidPlaces] /\ susp \in [Kids -> 0..1]
  /\ inside \subseteq Jobs /\ prepared \subseteq Jobs
  /\ cpFun \in Jobs \cup {Original} /\ save \in [Jobs -> Jobs \cup {Original}]
  /\ \A k \in Kids : Len(pipe[k]) <= PipeSize /\ reading[k].left \in Nat

\* A program with the DLL in it sees what its creator meant it to see, from
\* its first instruction on: the maps arrive whole and in order, and a later
\* map has the last word (writeMappings, Initialize, addFile), unless an
\* emptied directory was sent.
Runnable(k) == kid[k] \in {"hooked", "waiting", "main", "ran"} /\ inj[k] # "refused"
SeesGivenFiles ==
  \A k \in Kids : Runnable(k) /\ ~HasEmptyDir(given[k]) =>
    \A p \in Spelled : Resolve(gmap[k], p) = Resolve(given[k], p)

\* A compiler opens the files of its own session whatever other sessions are
\* being started: where the session put a header in one of its maps, the file
\* opened is one that was put in that map, or in one that has the word after
\* it, by the session itself or, in the map they share, by another one
\* (OverrideCreateProcess, FileMapComposition).
OwnFiles ==
  \A j \in Jobs : Runnable(j) =>
    \A p \in Spelled, n \in DOMAIN Composition[j] : Brings(j, Composition[j][n], p) =>
      \E i \in DOMAIN Composition[j], s \in prepared :
        /\ n <= i /\ Brings(s, Composition[j][i], p)
        /\ Resolve(gmap[j], p) = <<s, Norm[p].file>>

\* Initialize and writeMappings agree on what comes next, so that no entry of
\* a directory is taken for a directory.
InStep ==
  \A k \in Kids : kid[k] = "init" /\ pipe[k] # <<>> =>
    (Head(pipe[k]).op = "file" <=> reading[k].left > 0)

\* The state of maps and pipes is sound at every step of the two programs at
\* the ends of a pipe.
PipeInv == MapsTypeOK /\ InStep

\* Every compilation gets a slot and ends, unless an injection was given up
\* and left its compiler suspended in its slot.
EveryCompileEnds ==
  (\E j \in Jobs : j \in prepared) ~>
    \/ \A j \in Jobs : pc[j] = "done"
    \/ \E j \in Jobs : inj[j] = "refused"
=============================================================================
