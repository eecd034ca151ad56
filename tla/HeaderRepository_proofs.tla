------------------------ MODULE HeaderRepository_proofs ------------------------
(***************************************************************************)
(* Proofs about HeaderRepository, for any number of sessions, headers and  *)
(* contents.  SharedInv is about the shared headers and needs no           *)
(* assumption on addresses; PrivateInv is about what one session has       *)
(* stored and sees, and needs that no address is used twice.               *)
(***************************************************************************)
EXTENDS HeaderRepository, TLAPS

\* Header k is being stored by the thread of s, as a shared one.
Storing(s, k) == thread[s] \in {"map", "publish"} /\ file[s] = k

\* The marker 'IN_PROGRESS' gives the thread that set it the header for itself
\* until the checksum is published.
SharedInv ==
  /\ \A k \in Keys, s \in Sessions : Storing(s, k) => checksums[k] = InProgress
  /\ \A k \in Keys, s, t \in Sessions : Storing(s, k) /\ Storing(t, k) => s = t
  /\ \A k \in Keys, s \in Sessions : Storing(s, k) =>
       global[k] = IF thread[s] = "map" THEN Absent ELSE want[s][k]
  /\ \A k \in Keys : checksums[k] = Absent => global[k] = Absent
  /\ \A k \in Keys : checksums[k] \in Contents => global[k] = checksums[k]

\* Session s relies on what is stored for it.
Active(s) == step[s] \in {"preparing", "blocked"}

\* prepare_dir of s is past header k.
Stored(s, k) ==
  /\ thread[s] \in {"next", "local", "map", "publish", "done"}
  /\ k \notin todo[s]
  /\ thread[s] \in {"local", "map", "publish"} => k # file[s]

\* No two sessions share an address.
DistinctIds ==
  /\ \A s, t \in Sessions : id[s] = id[t] /\ id[s] # Absent => s = t
  /\ \A s \in Sessions : step[s] = "new" => id[s] = Absent

\* A temporary header belongs to the session with that address.
TempOwned ==
  \A i \in Ids, k \in Keys : temp[i][k] # Absent =>
    \E s \in Sessions : id[s] = i /\ k \in needed[s] /\ temp[i][k] = want[s][k]

\* prepare_dir works on the headers missing_files has reported.
ThreadInv ==
  /\ \A s \in Sessions : thread[s] \in {"local", "map", "publish"} => file[s] \in needed[s]
  /\ \A s \in Sessions : thread[s] \notin {"none", "queued"} => todo[s] \subseteq needed[s]
  /\ \A s \in Sessions : step[s] \in {"new", "checking", "asked"} => thread[s] = "none"
  /\ \A s \in Sessions : step[s] = "new" => needed[s] = {}
  /\ \A s \in Sessions : thread[s] = "done" => todo[s] = {}

\* A header that was not reported missing is there.
ToldTrue ==
  \A s \in Sessions, k \in Keys :
    /\ step[s] \in {"checking", "asked", "preparing", "blocked"}
    /\ step[s] = "checking" => k \notin todo[s]
    /\ k \notin needed[s]
    => checksums[k] = want[s][k]

\* prepare_dir finds its directory while the session relies on it.
DirThere ==
  \A s \in Sessions : Active(s) =>
    /\ thread[s] \notin {"none", "raised"}
    /\ thread[s] # "queued" => id[s] \in tempdirs

\* A header prepare_dir has passed is in the temporary or in the global map.
StoredInv ==
  \A s \in Sessions, k \in Keys : Active(s) /\ k \in needed[s] /\ Stored(s, k) =>
    temp[id[s]][k] = want[s][k] \/ checksums[k] = want[s][k]

\* The maps the compiler got are right.
UsedInv ==
  \A s \in Sessions, k \in Keys : step[s] = "compiling" =>
    /\ used[s][k] # Absent => used[s][k] = want[s][k] /\ k \in needed[s]
    /\ used[s][k] = Absent => checksums[k] = want[s][k]

PrivateInv == /\ DistinctIds
              /\ TempOwned
              /\ ThreadInv
              /\ ToldTrue
              /\ DirThere
              /\ StoredInv
              /\ UsedInv
              /\ NoSessionStuck

-----------------------------------------------------------------------------
(* Types.                                                                  *)

\* Every step of the event loop and of a pool thread keeps the types.
LEMMA TypeStep == TypeOK /\ Next => TypeOK'
<1>. SUFFICES ASSUME TypeOK, Next PROVE TypeOK'
  OBVIOUS
<1>. SUFFICES ASSUME NEW s \in Sessions, EventLoop(s) \/ PoolThread(s)
             PROVE  TypeOK'
  BY DEF Next
<1>1. CASE NewSession(s)
  BY <1>1 DEF NewSession, Goto, At, FreeIds, TypeOK, Steps, Threads, MaybeHeaders, repository, NoHeaders
<1>2. CASE CheckFile(s)
  BY <1>2 DEF CheckFile, Goto, At, FreeIds, TypeOK, Steps, Threads, MaybeHeaders, repository, NoHeaders
<1>3. CASE ReportMissing(s)
  BY <1>3 DEF ReportMissing, Goto, At, FreeIds, TypeOK, Steps, Threads, MaybeHeaders, repository, NoHeaders
<1>4. CASE GotTaskFiles(s)
  BY <1>4 DEF GotTaskFiles, Goto, At, FreeIds, TypeOK, Steps, Threads, MaybeHeaders, repository, NoHeaders
<1>5. CASE RunCompiler(s)
  BY <1>5 DEF RunCompiler, Goto, At, FreeIds, TypeOK, Steps, Threads, MaybeHeaders, repository, NoHeaders
<1>6. CASE StartCompiler(s)
  BY <1>6 DEF StartCompiler, Goto, At, FreeIds, TypeOK, Steps, Threads, MaybeHeaders, repository, NoHeaders
<1>7. CASE CompilerNotStarted(s)
  BY <1>7 DEF CompilerNotStarted, Goto, At, FreeIds, TypeOK, Steps, Threads, MaybeHeaders, repository, NoHeaders
<1>8. CASE LateEnd(s)
  BY <1>8 DEF LateEnd, Goto, At, FreeIds, TypeOK, Steps, Threads, MaybeHeaders, repository, NoHeaders
<1>9. CASE EndSession(s)
  BY <1>9 DEF EndSession, Goto, At, FreeIds, TypeOK, Steps, Threads, MaybeHeaders, repository, NoHeaders
<1>10. CASE RemoveTempdir(s)
  BY <1>10 DEF RemoveTempdir, Goto, At, FreeIds, TypeOK, Steps, Threads, MaybeHeaders, repository, NoHeaders
<1>11. CASE PrepareDir(s)
  BY <1>11 DEF PrepareDir, ThreadGoto, sessionVars, TypeOK, Steps, Threads, MaybeHeaders, repository, NoHeaders
<1>12. CASE CreateShared(s)
  <2>. PICK k \in todo[s] :
         /\ file' = [file EXCEPT ![s] = k]
         /\ todo' = [todo EXCEPT ![s] = @ \ {k}]
         /\ IF checksums[k] = Absent
              THEN checksums' = [checksums EXCEPT ![k] = InProgress] /\ ThreadGoto(s, "map")
              ELSE /\ ThreadGoto(s, IF checksums[k] # want[s][k] THEN "local" ELSE "next")
                   /\ UNCHANGED checksums
    BY <1>12 DEF CreateShared
  <2>. k \in Keys /\ step[s] # "new"
    BY <1>12 DEF CreateShared, TypeOK
  <2>. UNCHANGED <<global, temp, tempdirs, id, want, needed, step, used>> /\ thread[s] = "next"
    BY <1>12 DEF CreateShared, sessionVars
  <2>1. CASE checksums[k] = Absent
    <3>. checksums' = [checksums EXCEPT ![k] = InProgress] /\ thread' = [thread EXCEPT ![s] = "map"]
      BY <2>1 DEF ThreadGoto
    <3>. QED
      BY <2>1 DEF TypeOK, Steps, Threads, MaybeHeaders
  <2>2. CASE checksums[k] # Absent
    <3>. PICK here \in {"local", "next"} : thread' = [thread EXCEPT ![s] = here]
      BY <2>2 DEF ThreadGoto
    <3>. UNCHANGED checksums
      BY <2>2
    <3>. QED
      BY <2>2 DEF TypeOK, Steps, Threads, MaybeHeaders
  <2>. QED
    BY <2>1, <2>2
<1>13. CASE CreateTempFile(s)
  <2>. UNCHANGED <<checksums, global, tempdirs, todo, file, id, want, needed, step, used>>
    BY <1>13 DEF CreateTempFile, sessionVars
  <2>. PICK here \in {"next", "raised"} : thread' = [thread EXCEPT ![s] = here]
    BY <1>13 DEF CreateTempFile, ThreadGoto
  <2>. file[s] \in Keys /\ id[s] \in Ids /\ want[s] \in [Keys -> Contents] /\ step[s] # "new"
    BY <1>13 DEF CreateTempFile, TypeOK
  <2>. temp' \in [Ids -> MaybeHeaders]
    <3>1. CASE UNCHANGED temp
      BY <3>1 DEF TypeOK
    <3>2. CASE temp' = [temp EXCEPT ![id[s]] = [@ EXCEPT ![file[s]] = want[s][file[s]]]]
      BY <3>2 DEF TypeOK, MaybeHeaders
    <3>. QED
      BY <1>13, <3>1, <3>2 DEF CreateTempFile
  <2>. QED
    BY DEF TypeOK, Steps, Threads, MaybeHeaders
<1>14. CASE CreateSharedFile(s)
  BY <1>14 DEF CreateSharedFile, ThreadGoto, sessionVars, TypeOK, Steps, Threads, MaybeHeaders, repository, NoHeaders
<1>15. CASE Publish(s)
  BY <1>15 DEF Publish, ThreadGoto, sessionVars, TypeOK, Steps, Threads, MaybeHeaders, repository, NoHeaders
<1>16. CASE ProcessTempFiles(s)
  BY <1>16 DEF ProcessTempFiles, ThreadGoto, sessionVars, TypeOK, Steps, Threads, MaybeHeaders, repository, NoHeaders
<1>. QED
  BY <1>1, <1>2, <1>3, <1>4, <1>5, <1>6, <1>7, <1>8, <1>9, <1>10, <1>11, <1>12, <1>13, <1>14, <1>15, <1>16 DEF EventLoop, PoolThread

\* The type invariant of the repository and the sessions that use it.
THEOREM RepositoryTypeCorrect == Spec => []TypeOK
<1>1. Init => TypeOK
  BY DEF Init, TypeOK, Steps, Threads, MaybeHeaders, NoHeaders
<1>2. TypeOK /\ UNCHANGED vars => TypeOK'
  BY DEF vars, repository, TypeOK
<1>. QED
  BY <1>1, <1>2, TypeStep, PTL DEF Spec

-----------------------------------------------------------------------------
(* The shared headers.                                                     *)

\* What SharedInv says is kept by every step, however threads interleave.
LEMMA SharedStep == TypeOK /\ SharedInv /\ Next => SharedInv'
<1>. SUFFICES ASSUME TypeOK, SharedInv, Next PROVE SharedInv'
  OBVIOUS
<1>. USE MarkersAssumption
<1>. SUFFICES ASSUME NEW s \in Sessions, EventLoop(s) \/ PoolThread(s)
             PROVE  SharedInv'
  BY DEF Next
<1>1. CASE NewSession(s)
  BY <1>1 DEF NewSession, Goto, At, TypeOK, Steps, Threads, MaybeHeaders, repository, SharedInv, Storing
<1>2. CASE CheckFile(s)
  BY <1>2 DEF CheckFile, Goto, At, TypeOK, Steps, Threads, MaybeHeaders, repository, SharedInv, Storing
<1>3. CASE ReportMissing(s)
  BY <1>3 DEF ReportMissing, Goto, At, TypeOK, Steps, Threads, MaybeHeaders, repository, SharedInv, Storing
<1>4. CASE GotTaskFiles(s)
  BY <1>4 DEF GotTaskFiles, Goto, At, TypeOK, Steps, Threads, MaybeHeaders, repository, SharedInv, Storing
<1>5. CASE RunCompiler(s)
  BY <1>5 DEF RunCompiler, Goto, At, TypeOK, Steps, Threads, MaybeHeaders, repository, SharedInv, Storing
<1>6. CASE StartCompiler(s)
  BY <1>6 DEF StartCompiler, Goto, At, TypeOK, Steps, Threads, MaybeHeaders, repository, SharedInv, Storing
<1>7. CASE CompilerNotStarted(s)
  BY <1>7 DEF CompilerNotStarted, Goto, At, TypeOK, Steps, Threads, MaybeHeaders, repository, SharedInv, Storing
<1>8. CASE LateEnd(s)
  BY <1>8 DEF LateEnd, Goto, At, TypeOK, Steps, Threads, MaybeHeaders, repository, SharedInv, Storing
<1>9. CASE EndSession(s)
  BY <1>9 DEF EndSession, Goto, At, TypeOK, Steps, Threads, MaybeHeaders, repository, SharedInv, Storing
<1>10. CASE RemoveTempdir(s)
  BY <1>10 DEF RemoveTempdir, Goto, At, TypeOK, Steps, Threads, MaybeHeaders, repository, SharedInv, Storing
<1>11. CASE PrepareDir(s)
  BY <1>11 DEF PrepareDir, ThreadGoto, sessionVars, TypeOK, Steps, Threads, MaybeHeaders, repository, SharedInv, Storing
<1>12. CASE CreateShared(s)
  <2>. PICK k \in todo[s] :
         /\ file' = [file EXCEPT ![s] = k]
         /\ todo' = [todo EXCEPT ![s] = @ \ {k}]
         /\ IF checksums[k] = Absent
              THEN checksums' = [checksums EXCEPT ![k] = InProgress] /\ ThreadGoto(s, "map")
              ELSE /\ ThreadGoto(s, IF checksums[k] # want[s][k] THEN "local" ELSE "next")
                   /\ UNCHANGED checksums
    BY <1>12 DEF CreateShared
  <2>. k \in Keys /\ step[s] # "new"
    BY <1>12 DEF CreateShared, TypeOK
  <2>. UNCHANGED <<global, temp, tempdirs, id, want, needed, step, used>> /\ thread[s] = "next"
    BY <1>12 DEF CreateShared, sessionVars
  <2>1. CASE checksums[k] = Absent
    <3>. checksums' = [checksums EXCEPT ![k] = InProgress] /\ thread' = [thread EXCEPT ![s] = "map"]
      BY <2>1 DEF ThreadGoto
    <3>. QED
      BY <2>1 DEF TypeOK, Steps, Threads, MaybeHeaders, SharedInv, Storing
  <2>2. CASE checksums[k] # Absent
    <3>. PICK here \in {"local", "next"} : thread' = [thread EXCEPT ![s] = here]
      BY <2>2 DEF ThreadGoto
    <3>. UNCHANGED checksums
      BY <2>2
    <3>. QED
      BY <2>2 DEF TypeOK, Steps, Threads, MaybeHeaders, SharedInv, Storing
  <2>. QED
    BY <2>1, <2>2
<1>13. CASE CreateTempFile(s)
  <2>. UNCHANGED <<checksums, global, tempdirs, todo, file, id, want, needed, step, used>>
    BY <1>13 DEF CreateTempFile, sessionVars
  <2>. PICK here \in {"next", "raised"} : thread' = [thread EXCEPT ![s] = here]
    BY <1>13 DEF CreateTempFile, ThreadGoto
  <2>. file[s] \in Keys /\ id[s] \in Ids /\ want[s] \in [Keys -> Contents] /\ step[s] # "new"
    BY <1>13 DEF CreateTempFile, TypeOK
  <2>. QED
    BY DEF TypeOK, Steps, Threads, MaybeHeaders, SharedInv, Storing
<1>14. CASE CreateSharedFile(s)
  BY <1>14 DEF CreateSharedFile, ThreadGoto, sessionVars, TypeOK, Steps, Threads, MaybeHeaders, repository, SharedInv, Storing
<1>15. CASE Publish(s)
  BY <1>15 DEF Publish, ThreadGoto, sessionVars, TypeOK, Steps, Threads, MaybeHeaders, repository, SharedInv, Storing
<1>16. CASE ProcessTempFiles(s)
  BY <1>16 DEF ProcessTempFiles, ThreadGoto, sessionVars, TypeOK, Steps, Threads, MaybeHeaders, repository, SharedInv, Storing
<1>. QED
  BY <1>1, <1>2, <1>3, <1>4, <1>5, <1>6, <1>7, <1>8, <1>9, <1>10, <1>11, <1>12, <1>13, <1>14, <1>15, <1>16 DEF EventLoop, PoolThread

\* SharedInv holds in every behaviour.
LEMMA SharedInvariant == Spec => []SharedInv
<1>1. Init => SharedInv
  BY MarkersAssumption DEF Init, SharedInv, Storing, NoHeaders
<1>2. SharedInv /\ UNCHANGED vars => SharedInv'
  BY DEF vars, repository, SharedInv, Storing
<1>. QED
  BY <1>1, <1>2, SharedStep, RepositoryTypeCorrect, PTL DEF Spec

\* Whatever sessions and threads do, a published checksum is the checksum of
\* the header that is mapped.
THEOREM ChecksumsAreTrue == Spec => []PublishedIsMapped
<1>1. SharedInv => PublishedIsMapped
  BY DEF SharedInv, PublishedIsMapped
<1>. QED
  BY <1>1, SharedInvariant, PTL

\* A shared header is written once.
THEOREM SharedHeadersAreStable == Spec => SharedIsStable
<1>. DEFINE Stable == \A k \in Keys : global[k] # Absent => global'[k] = global[k]
<1>1. TypeOK /\ SharedInv /\ Next => Stable
  <2>. SUFFICES ASSUME TypeOK, SharedInv, NEW s \in Sessions, EventLoop(s) \/ PoolThread(s)
               PROVE  Stable
    BY DEF Next
  <2>1. CASE CreateSharedFile(s)
    <3>. file[s] \in Keys /\ global[file[s]] = Absent
      BY <2>1 DEF CreateSharedFile, TypeOK, SharedInv, Storing
    <3>. QED
      BY <2>1 DEF CreateSharedFile, TypeOK, MaybeHeaders
  <2>2. CASE ~CreateSharedFile(s)
    <3>. UNCHANGED global
      BY <2>2 DEF EventLoop, PoolThread, repository, NewSession, CheckFile, ReportMissing,
                  GotTaskFiles, RunCompiler, StartCompiler, CompilerNotStarted, LateEnd,
                  EndSession, RemoveTempdir, PrepareDir, CreateShared, CreateTempFile,
                  Publish, ProcessTempFiles
    <3>. QED
      OBVIOUS
  <2>. QED
    BY <2>1, <2>2
<1>2. UNCHANGED vars => Stable
  BY DEF vars, repository
<1>. QED
  BY <1>1, <1>2, RepositoryTypeCorrect, SharedInvariant, PTL DEF Spec, SharedIsStable

-----------------------------------------------------------------------------
(* What a session sees, when no address is used twice.                     *)

\* A published checksum is never withdrawn.
LEMMA ChecksumsStable ==
  ASSUME TypeOK, SharedInv, NEW s \in Sessions, CreateShared(s) \/ Publish(s),
         NEW k \in Keys, checksums[k] \in Contents
  PROVE  checksums'[k] = checksums[k]
<1>1. CASE CreateShared(s)
  <2>. PICK j \in todo[s] :
         IF checksums[j] = Absent THEN checksums' = [checksums EXCEPT ![j] = InProgress]
                                  ELSE UNCHANGED checksums
    BY <1>1, Zenon DEF CreateShared
  <2>. QED
    BY MarkersAssumption DEF TypeOK
<1>2. CASE Publish(s)
  <2>. file[s] \in Keys /\ checksums[file[s]] = InProgress
    BY <1>2 DEF Publish, TypeOK, SharedInv, Storing
  <2>. QED
    BY <1>2, MarkersAssumption DEF Publish, TypeOK
<1>. QED
  BY <1>1, <1>2

\* Every step keeps PrivateInv.
LEMMA PrivateStep ==
  ASSUME ~IdsReused
  PROVE  TypeOK /\ SharedInv /\ PrivateInv /\ Next => PrivateInv'
<1>. SUFFICES ASSUME TypeOK, SharedInv, PrivateInv, Next PROVE PrivateInv'
  OBVIOUS
<1>. USE MarkersAssumption
<1>. SUFFICES ASSUME NEW s \in Sessions, EventLoop(s) \/ PoolThread(s)
             PROVE  PrivateInv'
  BY DEF Next
<1>1. CASE NewSession(s)
  <2>1. DistinctIds'
    <3>. PICK i \in Ids : id' = [id EXCEPT ![s] = i] /\ \A t \in Sessions : id[t] # i
      BY <1>1 DEF NewSession, FreeIds
    <3>. QED
      BY <1>1 DEF NewSession, At, Goto, TypeOK, PrivateInv, DistinctIds
  <2>2. TempOwned'
    BY <1>1 DEF NewSession, Goto, At, repository, TypeOK, Steps, Threads,
      MaybeHeaders, PrivateInv, TempOwned, DistinctIds, ThreadInv
  <2>3. ThreadInv'
    BY <1>1 DEF NewSession, Goto, At, repository, TypeOK, Steps, Threads,
      MaybeHeaders, PrivateInv, ThreadInv
  <2>4. ToldTrue'
    BY <1>1 DEF NewSession, Goto, At, repository, TypeOK, Steps, Threads,
      MaybeHeaders, PrivateInv, ToldTrue, ThreadInv
  <2>5. DirThere'
    BY <1>1 DEF NewSession, Goto, At, repository, TypeOK, Steps, Threads,
      MaybeHeaders, PrivateInv, DirThere, DistinctIds, ThreadInv, Active
  <2>6. StoredInv'
    BY <1>1 DEF NewSession, Goto, At, repository, TypeOK, Steps, Threads,
      MaybeHeaders, PrivateInv, StoredInv, DistinctIds, ThreadInv, DirThere, TempOwned, Active, Stored
  <2>7. UsedInv'
    BY <1>1 DEF NewSession, Goto, At, repository, TypeOK, Steps, Threads,
      MaybeHeaders, PrivateInv, UsedInv, StoredInv, ToldTrue, TempOwned, DistinctIds, ThreadInv, Active, Stored
  <2>8. NoSessionStuck'
    BY <1>1 DEF NewSession, Goto, At, repository, TypeOK, Steps, Threads,
      MaybeHeaders, PrivateInv, NoSessionStuck, DirThere, Active
  <2>. QED
    BY <2>1, <2>2, <2>3, <2>4, <2>5, <2>6, <2>7, <2>8 DEF PrivateInv
<1>2. CASE CheckFile(s)
  BY <1>2 DEF CheckFile, Goto, At, TypeOK, Steps, Threads, MaybeHeaders, repository, PrivateInv, DistinctIds, TempOwned,
    ThreadInv, ToldTrue, DirThere, StoredInv, UsedInv, NoSessionStuck, Active, Stored
<1>3. CASE ReportMissing(s)
  BY <1>3 DEF ReportMissing, Goto, At, TypeOK, Steps, Threads, MaybeHeaders, repository, PrivateInv, DistinctIds, TempOwned,
    ThreadInv, ToldTrue, DirThere, StoredInv, UsedInv, NoSessionStuck, Active, Stored
<1>4. CASE GotTaskFiles(s)
  BY <1>4 DEF GotTaskFiles, Goto, At, TypeOK, Steps, Threads, MaybeHeaders, repository, PrivateInv, DistinctIds, TempOwned,
    ThreadInv, ToldTrue, DirThere, StoredInv, UsedInv, NoSessionStuck, Active, Stored
<1>5. CASE RunCompiler(s)
  BY <1>5 DEF RunCompiler, Goto, At, TypeOK, Steps, Threads, MaybeHeaders, repository, PrivateInv, DistinctIds, TempOwned,
    ThreadInv, ToldTrue, DirThere, StoredInv, UsedInv, NoSessionStuck, Active, Stored
<1>6. CASE StartCompiler(s)
  <2>1. DistinctIds'
    BY <1>6 DEF StartCompiler, Goto, At, repository, TypeOK, Steps, Threads,
      MaybeHeaders, PrivateInv, DistinctIds
  <2>2. TempOwned'
    BY <1>6 DEF StartCompiler, Goto, At, repository, TypeOK, Steps, Threads,
      MaybeHeaders, PrivateInv, TempOwned, DistinctIds, ThreadInv
  <2>3. ThreadInv'
    BY <1>6 DEF StartCompiler, Goto, At, repository, TypeOK, Steps, Threads,
      MaybeHeaders, PrivateInv, ThreadInv
  <2>4. ToldTrue'
    BY <1>6 DEF StartCompiler, Goto, At, repository, TypeOK, Steps, Threads,
      MaybeHeaders, PrivateInv, ToldTrue, ThreadInv
  <2>5. DirThere'
    BY <1>6 DEF StartCompiler, Goto, At, repository, TypeOK, Steps, Threads,
      MaybeHeaders, PrivateInv, DirThere, DistinctIds, ThreadInv, Active
  <2>6. StoredInv'
    BY <1>6 DEF StartCompiler, Goto, At, repository, TypeOK, Steps, Threads,
      MaybeHeaders, PrivateInv, StoredInv, DistinctIds, ThreadInv, DirThere, TempOwned, Active, Stored
  <2>7. UsedInv'
    <3>. SUFFICES ASSUME NEW t \in Sessions, NEW k \in Keys, step'[t] = "compiling"
                 PROVE  /\ used'[t][k] # Absent => used'[t][k] = want[t][k] /\ k \in needed[t]
                        /\ used'[t][k] = Absent => checksums[k] = want[t][k]
      BY <1>6, Zenon DEF StartCompiler, repository, UsedInv
    <3>1. CASE t = s
      <4>. step[s] = "blocked" /\ id[s] \in Ids /\ used'[s] = temp[id[s]] /\ thread[s] = "done"
        BY <1>6, <3>1 DEF StartCompiler, At, Goto, TypeOK
      <4>1. temp[id[s]][k] # Absent => temp[id[s]][k] = want[s][k] /\ k \in needed[s]
        BY MarkersAssumption DEF PrivateInv, TempOwned, DistinctIds
      <4>2. k \notin needed[s] => checksums[k] = want[s][k]
        BY DEF PrivateInv, ToldTrue
      <4>3. k \in needed[s] => temp[id[s]][k] = want[s][k] \/ checksums[k] = want[s][k]
        BY DEF PrivateInv, StoredInv, Active, Stored, ThreadInv
      <4>4. want[s][k] # Absent
        BY MarkersAssumption DEF TypeOK
      <4>. QED
        BY <3>1, <4>1, <4>2, <4>3, <4>4
    <3>2. CASE t # s
      BY <1>6, <3>2 DEF StartCompiler, Goto, TypeOK, PrivateInv, UsedInv
    <3>. QED
      BY <3>1, <3>2
  <2>8. NoSessionStuck'
    BY <1>6 DEF StartCompiler, Goto, At, repository, TypeOK, Steps, Threads,
      MaybeHeaders, PrivateInv, NoSessionStuck, DirThere, Active
  <2>. QED
    BY <2>1, <2>2, <2>3, <2>4, <2>5, <2>6, <2>7, <2>8 DEF PrivateInv
<1>7. CASE CompilerNotStarted(s)
  BY <1>7 DEF CompilerNotStarted, Goto, At, TypeOK, Steps, Threads, MaybeHeaders, repository, PrivateInv, DistinctIds, TempOwned,
    ThreadInv, ToldTrue, DirThere, StoredInv, UsedInv, NoSessionStuck, Active, Stored
<1>8. CASE LateEnd(s)
  BY <1>8 DEF LateEnd, Goto, At, TypeOK, Steps, Threads, MaybeHeaders, repository, PrivateInv, DistinctIds, TempOwned,
    ThreadInv, ToldTrue, DirThere, StoredInv, UsedInv, NoSessionStuck, Active, Stored
<1>9. CASE EndSession(s)
  <2>1. DistinctIds'
    BY <1>9 DEF EndSession, Goto, At, repository, TypeOK, Steps, Threads,
      MaybeHeaders, PrivateInv, DistinctIds
  <2>2. TempOwned'
    <3>. temp' = [temp EXCEPT ![id[s]] = NoHeaders] /\ UNCHANGED <<id, needed, want>>
      BY <1>9 DEF EndSession
    <3>. QED
      BY DEF TypeOK, PrivateInv, TempOwned, NoHeaders
  <2>3. ThreadInv'
    BY <1>9 DEF EndSession, Goto, At, repository, TypeOK, Steps, Threads,
      MaybeHeaders, PrivateInv, ThreadInv
  <2>4. ToldTrue'
    BY <1>9 DEF EndSession, Goto, At, repository, TypeOK, Steps, Threads,
      MaybeHeaders, PrivateInv, ToldTrue, ThreadInv
  <2>5. DirThere'
    BY <1>9 DEF EndSession, Goto, At, repository, TypeOK, Steps, Threads,
      MaybeHeaders, PrivateInv, DirThere, DistinctIds, ThreadInv, Active
  <2>6. StoredInv'
    BY <1>9 DEF EndSession, Goto, At, repository, TypeOK, Steps, Threads,
      MaybeHeaders, PrivateInv, StoredInv, DistinctIds, ThreadInv, DirThere, TempOwned, Active, Stored
  <2>7. UsedInv'
    BY <1>9 DEF EndSession, Goto, At, repository, TypeOK, Steps, Threads,
      MaybeHeaders, PrivateInv, UsedInv, StoredInv, ToldTrue, TempOwned, DistinctIds, ThreadInv, Active, Stored
  <2>8. NoSessionStuck'
    BY <1>9 DEF EndSession, Goto, At, repository, TypeOK, Steps, Threads,
      MaybeHeaders, PrivateInv, NoSessionStuck, DirThere, Active
  <2>. QED
    BY <2>1, <2>2, <2>3, <2>4, <2>5, <2>6, <2>7, <2>8 DEF PrivateInv
<1>10. CASE RemoveTempdir(s)
  BY <1>10 DEF RemoveTempdir, Goto, At, TypeOK, Steps, Threads, MaybeHeaders, repository, PrivateInv, DistinctIds, TempOwned,
    ThreadInv, ToldTrue, DirThere, StoredInv, UsedInv, NoSessionStuck, Active, Stored
<1>11. CASE PrepareDir(s)
  BY <1>11 DEF PrepareDir, ThreadGoto, sessionVars, TypeOK, Steps, Threads, MaybeHeaders, repository, PrivateInv, DistinctIds, TempOwned,
    ThreadInv, ToldTrue, DirThere, StoredInv, UsedInv, NoSessionStuck, Active, Stored
<1>12. CASE CreateShared(s)
  <2>. \A t \in Sessions, k \in Keys : step[t] # "new" => want[t][k] \in Contents
    BY DEF TypeOK
  <2>. \A k \in Keys : checksums[k] \in Contents => checksums'[k] = checksums[k]
    BY <1>12, ChecksumsStable
  <2>1. DistinctIds'
    BY <1>12 DEF CreateShared, ThreadGoto, sessionVars, repository, TypeOK, Steps, Threads,
      MaybeHeaders, PrivateInv, DistinctIds
  <2>2. TempOwned'
    BY <1>12 DEF CreateShared, ThreadGoto, sessionVars, repository, TypeOK, Steps, Threads,
      MaybeHeaders, PrivateInv, TempOwned, DistinctIds, ThreadInv
  <2>3. ThreadInv'
    BY <1>12 DEF CreateShared, ThreadGoto, sessionVars, repository, TypeOK, Steps, Threads,
      MaybeHeaders, PrivateInv, ThreadInv
  <2>4. ToldTrue'
    <3>. UNCHANGED <<step, needed, want, used>>
      BY <1>12 DEF CreateShared, sessionVars
    <3>. QED
      BY <1>12 DEF CreateShared, PrivateInv, ToldTrue, ThreadInv, TypeOK
  <2>5. DirThere'
    BY <1>12 DEF CreateShared, ThreadGoto, sessionVars, repository, TypeOK, Steps, Threads,
      MaybeHeaders, PrivateInv, DirThere, DistinctIds, ThreadInv, Active
  <2>6. StoredInv'
    BY <1>12 DEF CreateShared, ThreadGoto, sessionVars, repository, TypeOK, Steps, Threads,
      MaybeHeaders, PrivateInv, StoredInv, DistinctIds, ThreadInv, DirThere, TempOwned, Active, Stored
  <2>7. UsedInv'
    <3>. UNCHANGED <<step, needed, want, used>>
      BY <1>12 DEF CreateShared, sessionVars
    <3>. QED
      BY <1>12 DEF CreateShared, PrivateInv, UsedInv
  <2>8. NoSessionStuck'
    BY <1>12 DEF CreateShared, ThreadGoto, sessionVars, repository, TypeOK, Steps, Threads,
      MaybeHeaders, PrivateInv, NoSessionStuck, DirThere, Active
  <2>. QED
    BY <2>1, <2>2, <2>3, <2>4, <2>5, <2>6, <2>7, <2>8 DEF PrivateInv
<1>13. CASE CreateTempFile(s)
  <2>1. DistinctIds'
    BY <1>13 DEF CreateTempFile, ThreadGoto, sessionVars, repository, TypeOK, Steps, Threads,
      MaybeHeaders, PrivateInv, DistinctIds
  <2>2. TempOwned'
    <3>. file[s] \in Keys /\ id[s] \in Ids /\ file[s] \in needed[s]
      BY <1>13 DEF CreateTempFile, TypeOK, PrivateInv, ThreadInv
    <3>. UNCHANGED <<id, needed, want, checksums, step, todo, file>>
      BY <1>13 DEF CreateTempFile, sessionVars
    <3>1. CASE UNCHANGED temp
      BY <3>1 DEF PrivateInv, TempOwned
    <3>2. CASE temp' = [temp EXCEPT ![id[s]] = [@ EXCEPT ![file[s]] = want[s][file[s]]]]
      BY <3>2 DEF TypeOK, MaybeHeaders, PrivateInv, TempOwned
    <3>. QED
      BY <1>13, <3>1, <3>2 DEF CreateTempFile
  <2>3. ThreadInv'
    BY <1>13 DEF CreateTempFile, ThreadGoto, sessionVars, repository, TypeOK, Steps, Threads,
      MaybeHeaders, PrivateInv, ThreadInv
  <2>4. ToldTrue'
    BY <1>13 DEF CreateTempFile, ThreadGoto, sessionVars, repository, TypeOK, Steps, Threads,
      MaybeHeaders, PrivateInv, ToldTrue, ThreadInv
  <2>5. DirThere'
    BY <1>13 DEF CreateTempFile, ThreadGoto, sessionVars, repository, TypeOK, Steps, Threads,
      MaybeHeaders, PrivateInv, DirThere, DistinctIds, ThreadInv, Active
  <2>6. StoredInv'
    <3>. file[s] \in Keys /\ id[s] \in Ids /\ file[s] \in needed[s]
      BY <1>13 DEF CreateTempFile, TypeOK, PrivateInv, ThreadInv
    <3>. UNCHANGED <<id, needed, want, checksums, step, todo, file>>
      BY <1>13 DEF CreateTempFile, sessionVars
    <3>1. CASE id[s] \notin tempdirs
      <4>. UNCHANGED temp /\ thread' = [thread EXCEPT ![s] = "raised"]
        BY <1>13, <3>1 DEF CreateTempFile, ThreadGoto
      <4>. QED
        BY DEF TypeOK, PrivateInv, StoredInv, Active, Stored
    <3>2. CASE id[s] \in tempdirs
      <4>1. /\ temp' = [temp EXCEPT ![id[s]] = [@ EXCEPT ![file[s]] = want[s][file[s]]]]
            /\ thread' = [thread EXCEPT ![s] = "next"]
        BY <1>13, <3>2 DEF CreateTempFile, ThreadGoto
      <4>2. ASSUME NEW t \in Sessions, NEW k \in Keys, t # s, id[t] \in Ids
            PROVE  temp'[id[t]] = temp[id[t]] /\ thread'[t] = thread[t]
        BY <4>1, <4>2, MarkersAssumption DEF TypeOK, PrivateInv, DistinctIds
      <4>3. ASSUME NEW k \in Keys
            PROVE  temp'[id[s]][k] = IF k = file[s] THEN want[s][k] ELSE temp[id[s]][k]
        BY <4>1 DEF TypeOK, MaybeHeaders
      <4>. QED
        BY <1>13, <4>1, <4>2, <4>3 DEF CreateTempFile, TypeOK, PrivateInv, StoredInv, Active, Stored
    <3>. QED
      BY <3>1, <3>2
  <2>7. UsedInv'
    BY <1>13 DEF CreateTempFile, ThreadGoto, sessionVars, repository, TypeOK, Steps, Threads,
      MaybeHeaders, PrivateInv, UsedInv, StoredInv, ToldTrue, TempOwned, DistinctIds, ThreadInv, Active, Stored
  <2>8. NoSessionStuck'
    BY <1>13 DEF CreateTempFile, ThreadGoto, sessionVars, repository, TypeOK, Steps, Threads,
      MaybeHeaders, PrivateInv, NoSessionStuck, DirThere, Active
  <2>. QED
    BY <2>1, <2>2, <2>3, <2>4, <2>5, <2>6, <2>7, <2>8 DEF PrivateInv
<1>14. CASE CreateSharedFile(s)
  BY <1>14 DEF CreateSharedFile, ThreadGoto, sessionVars, TypeOK, Steps, Threads, MaybeHeaders, repository, PrivateInv, DistinctIds, TempOwned,
    ThreadInv, ToldTrue, DirThere, StoredInv, UsedInv, NoSessionStuck, Active, Stored
<1>15. CASE Publish(s)
  <2>. \A t \in Sessions, k \in Keys : step[t] # "new" => want[t][k] \in Contents
    BY DEF TypeOK
  <2>. \A k \in Keys : checksums[k] \in Contents => checksums'[k] = checksums[k]
    BY <1>15, ChecksumsStable
  <2>1. DistinctIds'
    BY <1>15 DEF Publish, ThreadGoto, sessionVars, repository, TypeOK, Steps, Threads,
      MaybeHeaders, PrivateInv, DistinctIds
  <2>2. TempOwned'
    BY <1>15 DEF Publish, ThreadGoto, sessionVars, repository, TypeOK, Steps, Threads,
      MaybeHeaders, PrivateInv, TempOwned, DistinctIds, ThreadInv
  <2>3. ThreadInv'
    BY <1>15 DEF Publish, ThreadGoto, sessionVars, repository, TypeOK, Steps, Threads,
      MaybeHeaders, PrivateInv, ThreadInv
  <2>4. ToldTrue'
    <3>. UNCHANGED <<step, needed, want, used>>
      BY <1>15 DEF Publish, sessionVars
    <3>. QED
      BY <1>15 DEF Publish, PrivateInv, ToldTrue, ThreadInv, TypeOK
  <2>5. DirThere'
    BY <1>15 DEF Publish, ThreadGoto, sessionVars, repository, TypeOK, Steps, Threads,
      MaybeHeaders, PrivateInv, DirThere, DistinctIds, ThreadInv, Active
  <2>6. StoredInv'
    <3>. UNCHANGED <<step, needed, want, id, temp, todo, file>>
      BY <1>15 DEF Publish, sessionVars
    <3>. file[s] \in Keys /\ thread[s] = "publish" /\ thread' = [thread EXCEPT ![s] = "next"]
      BY <1>15 DEF Publish, TypeOK, ThreadGoto
    <3>. checksums'[file[s]] = want[s][file[s]]
      BY <1>15 DEF Publish, TypeOK
    <3>. QED
      BY DEF TypeOK, PrivateInv, StoredInv, Active, Stored
  <2>7. UsedInv'
    <3>. UNCHANGED <<step, needed, want, used>>
      BY <1>15 DEF Publish, sessionVars
    <3>. QED
      BY <1>15 DEF Publish, PrivateInv, UsedInv
  <2>8. NoSessionStuck'
    BY <1>15 DEF Publish, ThreadGoto, sessionVars, repository, TypeOK, Steps, Threads,
      MaybeHeaders, PrivateInv, NoSessionStuck, DirThere, Active
  <2>. QED
    BY <2>1, <2>2, <2>3, <2>4, <2>5, <2>6, <2>7, <2>8 DEF PrivateInv
<1>16. CASE ProcessTempFiles(s)
  BY <1>16 DEF ProcessTempFiles, ThreadGoto, sessionVars, TypeOK, Steps, Threads, MaybeHeaders, repository, PrivateInv, DistinctIds, TempOwned,
    ThreadInv, ToldTrue, DirThere, StoredInv, UsedInv, NoSessionStuck, Active, Stored
<1>. QED
  BY <1>1, <1>2, <1>3, <1>4, <1>5, <1>6, <1>7, <1>8, <1>9, <1>10, <1>11, <1>12, <1>13, <1>14, <1>15, <1>16 DEF EventLoop, PoolThread

\* PrivateInv holds in every behaviour in which no address is used twice.
LEMMA PrivateInvariant ==
  ASSUME ~IdsReused
  PROVE  Spec => []PrivateInv
<1>1. Init => PrivateInv
  BY MarkersAssumption DEF Init, NoHeaders, PrivateInv, DistinctIds, TempOwned, ThreadInv,
     ToldTrue, DirThere, StoredInv, UsedInv, NoSessionStuck, Active
<1>2. PrivateInv /\ UNCHANGED vars => PrivateInv'
  BY DEF vars, repository, PrivateInv, DistinctIds, TempOwned, ThreadInv, ToldTrue, DirThere,
     StoredInv, UsedInv, NoSessionStuck, Active, Stored
<1>3. TypeOK /\ SharedInv /\ PrivateInv /\ Next => PrivateInv'
  BY PrivateStep
<1>. QED
  BY <1>1, <1>2, <1>3, RepositoryTypeCorrect, SharedInvariant, PTL DEF Spec

\* If no address is used twice, every compilation sees exactly the headers its
\* task was scanned with.
THEOREM CompilationsSeeTheirHeaders ==
  ASSUME ~IdsReused
  PROVE  Spec => []HeadersCorrect
<1>1. TypeOK /\ SharedInv /\ PrivateInv => HeadersCorrect
  BY DEF TypeOK, SharedInv, PrivateInv, UsedInv, HeadersCorrect, Seen
<1>. QED
  BY <1>1, RepositoryTypeCorrect, SharedInvariant, PrivateInvariant, PTL

\* If no address is used twice, maps and directories keep their types and the
\* temporary headers a compilation sees are its own session's.
THEOREM TemporaryHeadersArePrivate ==
  ASSUME ~IdsReused
  PROVE  Spec => []RepositoryInv
<1>1. TypeOK /\ PrivateInv => RepositoryInv
  BY DEF PrivateInv, UsedInv, TempHeadersPrivate, RepositoryInv
<1>. QED
  BY <1>1, RepositoryTypeCorrect, PrivateInvariant, PTL

\* If no address is used twice, prepare_dir never fails a session that waits
\* for it.
THEOREM SessionsDoNotGetStuck ==
  ASSUME ~IdsReused
  PROVE  Spec => []NoSessionStuck
<1>1. PrivateInv => NoSessionStuck
  BY DEF PrivateInv
<1>. QED
  BY <1>1, PrivateInvariant, PTL

=============================================================================
