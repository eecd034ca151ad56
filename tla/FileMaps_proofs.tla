--------------------------- MODULE FileMaps_proofs ---------------------------
(***************************************************************************)
(* Proofs about ProcessRunner and about FileMaps, for any number of slots, *)
(* compilations, maps, files and processes: the file maps of a session     *)
(* arrive whole, whatever else the server starts.                          *)
(***************************************************************************)
EXTENDS FileMaps, FiniteSetTheorems, TLAPS


(***************************************************************************)
(* The slots of the process runner.                                        *)
(***************************************************************************)
\* The three parts support each other: taking a slot clears the flag, so it is
\* never set when none is left, so a sleeper is always woken by a release.
Inv == TypeOK /\ SlotsRespected /\ NoBusyWait /\ NoLostWakeup

\* The compilations running at any time are finitely many.
LEMMA RunningFinite == IsFiniteSet(RunningJobs)
<1>1. RunningJobs \subseteq Jobs
  BY DEF RunningJobs
<1> QED
  BY <1>1, JobsAssumption, FS_Subset

\* At the start nothing runs and nobody sleeps.
LEMMA InitInv == Init => Inv
<1> SUFFICES ASSUME Init PROVE Inv
  OBVIOUS
<1> USE LimitAssumption DEF Init
<1>1. RunningJobs = {}
  BY DEF RunningJobs
<1>2. SlotsRespected
  BY <1>1, FS_EmptySet DEF SlotsRespected
<1> QED
  BY <1>2 DEF Inv, TypeOK, Places, NoBusyWait, NoLostWakeup

\* Taking a slot keeps the invariant.
LEMMA AcquireInv == ASSUME Inv, NEW j \in Jobs, Acquire(j) PROVE Inv'
<1> USE LimitAssumption DEF Inv
<1>1. TypeOK'
  <2>1. pc' \in [Jobs -> Places] /\ current' \in Nat
    BY DEF TypeOK, Acquire, Places
  <2>2. ready' \in BOOLEAN
    BY DEF Acquire
  <2> QED
    BY <2>1, <2>2 DEF TypeOK
<1>2. RunningJobs' = RunningJobs \cup {j} /\ j \notin RunningJobs
  BY DEF TypeOK, Acquire, RunningJobs
<1>3. Cardinality(RunningJobs') = Cardinality(RunningJobs) + 1
  BY <1>2, RunningFinite, FS_AddElement
<1>4. SlotsRespected'
  BY <1>3 DEF SlotsRespected, Acquire, TypeOK
<1>5. NoBusyWait' /\ NoLostWakeup'
  BY DEF TypeOK, Acquire, NoBusyWait, NoLostWakeup
<1> QED
  BY <1>1, <1>4, <1>5

\* Giving a slot back keeps the invariant: all sleepers are woken.
LEMMA ReleaseInv == ASSUME Inv, NEW j \in Jobs, Release(j) PROVE Inv'
<1> USE LimitAssumption DEF Inv
<1>1. RunningJobs' = RunningJobs \ {j} /\ j \in RunningJobs
  BY DEF TypeOK, Release, RunningJobs, Wake
<1>2. Cardinality(RunningJobs') = Cardinality(RunningJobs) - 1
  BY <1>1, RunningFinite, FS_RemoveElement
<1>3. Cardinality(RunningJobs') \in Nat
  BY <1>1, RunningFinite, FS_RemoveElement, FS_CardinalityType
<1>4. TypeOK'
  BY <1>2, <1>3 DEF TypeOK, Release, Places, Wake, SlotsRespected
<1>5. SlotsRespected' /\ current' # Limit
  BY <1>2 DEF SlotsRespected, Release, TypeOK
<1>6. \A i \in Jobs : pc'[i] # "sleeping"
  BY DEF TypeOK, Release, Wake, NoBusyWait, NoLostWakeup
<1> QED
  BY <1>4, <1>5, <1>6 DEF NoBusyWait, NoLostWakeup

\* Going to sleep, the only other step, keeps the invariant.
LEMMA StepInv == Inv /\ [Next]_vars => Inv'
<1> SUFFICES ASSUME Inv, [Next]_vars PROVE Inv'
  OBVIOUS
<1>1. ASSUME NEW j \in Jobs, Sleep(j) PROVE Inv'
  <2>1. RunningJobs' = RunningJobs
    BY <1>1 DEF Inv, TypeOK, Sleep, RunningJobs
  <2> QED
    BY <1>1, <2>1 DEF Inv, TypeOK, Places, Sleep, SlotsRespected, NoBusyWait, NoLostWakeup
<1>2. CASE UNCHANGED vars
  BY <1>2 DEF vars, Inv, TypeOK, SlotsRespected, RunningJobs, NoBusyWait, NoLostWakeup
<1> QED
  BY <1>1, <1>2, AcquireInv, ReleaseInv DEF Next

\* The invariant as a whole holds in every reachable state.
LEMMA Invariance == Spec => []Inv
BY InitInv, StepInv, PTL DEF Spec

\* The variables of the runner always have their types; current never becomes
\* negative.
THEOREM RunnerTypeCorrect == Spec => []TypeOK
<1>1. Inv => TypeOK
  BY DEF Inv
<1> QED
  BY <1>1, Invariance, PTL

\* At most Limit compilers run at once, for every Limit (runner.py:480-496).
THEOREM SlotsAreRespected == Spec => []SlotsRespected
<1>1. Inv => SlotsRespected
  BY DEF Inv
<1> QED
  BY <1>1, Invariance, PTL

\* The event loop is never blocked by the loop of runner.py:480, and no
\* compilation sleeps while there is a free slot (runner.py:480-482, 495-496).
THEOREM EventIsRight == Spec => []EventInv
<1>1. Inv => EventInv
  BY DEF Inv, EventInv
<1> QED
  BY <1>1, Invariance, PTL

(***************************************************************************)
(* Numbers, sets and sequences.                                            *)
(***************************************************************************)

\* Induction over numbers, in the form of the least counterexample.
LEMMA Least == ASSUME NEW T, T \subseteq Nat, T # {} PROVE \E x \in T : \A y \in T : x <= y
<1>1. \E x \in T : \A y \in T : ~(<<y, x>> \in OpToRel(<, Nat))
  BY WFMin, NatLessThanWellFounded
<1>2. \A x, y \in T : ~(<<y, x>> \in OpToRel(<, Nat)) => x <= y
  BY DEF OpToRel
<1> QED
  BY <1>1, <1>2

\* A set of numbers with a bound has a greatest one.
LEMMA Greatest ==
  ASSUME NEW n \in Nat, NEW T, T \subseteq 1..n, T # {} PROVE \E x \in T : \A y \in T : y <= x
<1> DEFINE Up == {u \in Nat : \A y \in T : y <= u}
<1>1. n \in Up
  OBVIOUS
<1>2. PICK u \in Up : \A v \in Up : u <= v
  <2> HIDE DEF Up
  <2>1. Up \subseteq Nat
    BY DEF Up
  <2> QED
    BY <1>1, <2>1, Least
<1>3. u \in T
  <2> SUFFICES ASSUME u \notin T PROVE FALSE
    OBVIOUS
  <2>1. PICK t \in T : TRUE
    OBVIOUS
  <2>2. t \in 1..n /\ t <= u /\ u \in Nat
    BY <1>2
  <2>3. u - 1 \in Nat /\ ~(u <= u - 1)
    BY <2>2
  <2>4. \A y \in T : y <= u - 1
    <3> SUFFICES ASSUME NEW y \in T PROVE y <= u - 1
      OBVIOUS
    <3>1. y \in Nat /\ y <= u /\ y # u
      BY <1>2
    <3> QED
      BY <3>1, <2>2
  <2> QED
    BY <1>2, <2>3, <2>4
<1> QED
  BY <1>2, <1>3

\* SetToSeq lists every element of a finite set once.
LEMMA Listing ==
  ASSUME NEW T, IsFiniteSet(T)
  PROVE  /\ Cardinality(T) \in Nat
         /\ SetToSeq(T) \in [1..Cardinality(T) -> T]
         /\ \A x \in T : \E i \in 1..Cardinality(T) : SetToSeq(T)[i] = x
         /\ \A a, b \in 1..Cardinality(T) : SetToSeq(T)[a] = SetToSeq(T)[b] => a = b
<1> DEFINE C == Cardinality(T)
           D == 1..C
           s == SetToSeq(T)
<1>1. C \in Nat /\ ExistsBijection(D, T)
  BY FS_CardinalityType
<1>2. \E f \in [D -> T] : IsInjective(f)
  BY <1>1 DEF ExistsBijection, Bijection, Injection
<1>3. s \in [D -> T] /\ IsInjective(s)
  BY <1>2 DEF SetToSeq
<1>4. IsFiniteSet(D) /\ Cardinality(D) = C
  BY <1>1, FS_Interval
<1>5. s \in Injection(D, T)
  BY <1>3 DEF Injection
<1> HIDE DEF C, D, s
<1>6. s \in Surjection(D, T)
  BY <1>4, <1>5, FS_Injection DEF C
<1>7. \A x \in T : \E i \in D : s[i] = x
  BY <1>6 DEF Surjection
<1>8. \A a, b \in D : s[a] = s[b] => a = b
  BY <1>3 DEF IsInjective
<1> QED
  BY <1>1, <1>3, <1>7, <1>8 DEF C, D, s

\* The function that FlattenSeq defines by recursion.
Flattens(f, seqs, n) == f = [i \in 1..n |-> IF i = 1 THEN seqs[i] ELSE f[i - 1] \o seqs[i]]

\* It exists for every initial part of the sequence.
LEMMA FlattenExists ==
  ASSUME NEW seqs, NEW n \in Nat PROVE \E f : Flattens(f, seqs, n)
<1> DEFINE Bad == {k \in Nat : ~\E f : Flattens(f, seqs, k)}
<1> SUFFICES ASSUME Bad # {} PROVE FALSE
  OBVIOUS
<1>1. PICK k \in Bad : \A j \in Bad : k <= j
  BY Least
<1>2. k # 0
  <2> DEFINE f == [i \in 1..0 |-> IF i = 1 THEN seqs[i] ELSE <<>>]
  <2>1. f = [i \in 1..0 |-> IF i = 1 THEN seqs[i] ELSE f[i - 1] \o seqs[i]]
    OBVIOUS
  <2>2. Flattens(f, seqs, 0)
    BY <2>1 DEF Flattens
  <2> QED
    BY <2>2
<1>3. k - 1 \in Nat /\ k - 1 \notin Bad
  BY <1>1, <1>2
<1>4. PICK g : Flattens(g, seqs, k - 1)
  BY <1>3
<1> DEFINE e(i) == IF i = 1 THEN seqs[i] ELSE g[i - 1] \o seqs[i]
           f == [i \in 1..k |-> e(i)]
<1>5. \A i \in 1..(k - 1) : g[i] = e(i)
  BY <1>4 DEF Flattens
<1>6. \A i \in 1..k : i # 1 => f[i - 1] = g[i - 1]
  <2> SUFFICES ASSUME NEW i \in 1..k, i # 1 PROVE f[i - 1] = g[i - 1]
    OBVIOUS
  <2>1. i - 1 \in 1..(k - 1) /\ i - 1 \in 1..k
    BY <1>3
  <2> HIDE DEF e
  <2>2. f[i - 1] = e(i - 1)
    BY <2>1
  <2> QED
    BY <2>1, <2>2, <1>5
<1>7. f = [i \in 1..k |-> IF i = 1 THEN seqs[i] ELSE f[i - 1] \o seqs[i]]
  <2>1. \A i \in 1..k : e(i) = IF i = 1 THEN seqs[i] ELSE f[i - 1] \o seqs[i]
    BY <1>6
  <2> HIDE DEF e
  <2> QED
    BY <2>1
<1>8. Flattens(f, seqs, k)
  BY <1>7 DEF Flattens
<1> QED
  BY <1>8

\* What FlattenSeq joins, step by step: parts[i] is made of the first i sequences.
LEMMA FlattenParts ==
  ASSUME NEW seqs, Len(seqs) \in Nat
  PROVE  \E parts : /\ parts[0] = <<>>
                    /\ parts[Len(seqs)] = FlattenSeq(seqs) \/ Len(seqs) = 0
                    /\ \A i \in 1..Len(seqs) : parts[i] = IF i = 1 THEN seqs[i] ELSE parts[i - 1] \o seqs[i]
<1> DEFINE N == Len(seqs)
           f == CHOOSE g : Flattens(g, seqs, N)
           parts == [i \in 0..N |-> IF i = 0 THEN <<>> ELSE f[i]]
<1>1. N \in Nat /\ (N # 0 => N \in 1..N)
  OBVIOUS
<1>2. Flattens(f, seqs, N)
  BY <1>1, FlattenExists
<1>3. N # 0 => FlattenSeq(seqs) = f[N]
  BY DEF FlattenSeq, Flattens
<1> HIDE DEF f
<1>4. \A i \in 1..N : f[i] = IF i = 1 THEN seqs[i] ELSE f[i - 1] \o seqs[i]
  BY <1>2 DEF Flattens
<1> HIDE DEF N
<1>5. \A i \in 1..N : parts[i] = IF i = 1 THEN seqs[i] ELSE parts[i - 1] \o seqs[i]
  <2> SUFFICES ASSUME NEW i \in 1..N PROVE parts[i] = IF i = 1 THEN seqs[i] ELSE parts[i - 1] \o seqs[i]
    OBVIOUS
  <2>1. i \in 0..N /\ i # 0 /\ (i # 1 => i - 1 \in 0..N /\ i - 1 # 0)
    BY <1>1
  <2>2. parts[i] = f[i] /\ (i # 1 => parts[i - 1] = f[i - 1])
    BY <2>1
  <2> HIDE DEF parts
  <2> QED
    BY <2>2, <1>4
<1>6. parts[0] = <<>> /\ (N # 0 => parts[N] = f[N])
  BY <1>1
<1> QED
  BY <1>1, <1>3, <1>5, <1>6 DEF N

(***************************************************************************)
(* What writeMappings sends.                                               *)
(***************************************************************************)
Names == {Norm[p].dir : p \in Spelled} \cup {Norm[p].file : p \in Spelled}
Reals == (Jobs \cup {Root}) \X Names
FileSets == UNION {[F -> Reals] : F \in SUBSET Names}
Mapping == UNION {[D -> FileSets] : D \in SUBSET Names}
DirEntry == [op : {"dir"}, name : Names, n : Nat]
FileEntry == [op : {"file"}, name : Names, real : Reals]
Entry == DirEntry \cup FileEntry

\* The directory d of the map m has the name f.
Has(m, d, f) == d \in DOMAIN m /\ f \in DOMAIN m[d]

\* The entries S as Initialize reads them: left[i] files of the directory
\* dir[i] are to come after the first i entries.
Walk(S, left, dir) ==
  /\ S \in Seq(Entry) /\ left \in [0..Len(S) -> Nat]
  /\ left[0] = 0 /\ left[Len(S)] = 0
  /\ \A i \in 1..Len(S) :
       \/ S[i].op = "dir" /\ left[i - 1] = 0 /\ left[i] = S[i].n /\ dir[i] = S[i].name
       \/ S[i].op = "file" /\ left[i - 1] > 0 /\ left[i] = left[i - 1] - 1 /\ dir[i] = dir[i - 1]
FileAt(S, dir, i, d, f) == S[i].op = "file" /\ dir[i] = d /\ S[i].name = f
\* Of the first n entries the last one for f in d names the file r.
LastWord(S, dir, n, d, f, r) ==
  \E i \in 1..n : /\ FileAt(S, dir, i, d, f) /\ S[i].real = r
                  /\ \A h \in (i + 1)..n : ~FileAt(S, dir, h, d, f)
\* The first n entries have what the map m has ...
Means(S, dir, n, m) ==
  /\ \A i \in 1..n : S[i].op = "file" => Has(m, dir[i], S[i].name)
  /\ \A d \in DOMAIN m : \A f \in DOMAIN m[d] : LastWord(S, dir, n, d, f, m[d][f])
\* ... and all of S what N maps have, a later one having the last word.
MeansAll(S, dir, ms, N) ==
  /\ \A i \in 1..Len(S) : S[i].op = "file" => \E x \in 1..N : Has(ms[x], dir[i], S[i].name)
  /\ \A x \in 1..N : \A d \in DOMAIN ms[x] : \A f \in DOMAIN ms[x][d] :
       (\A y \in (x + 1)..N : ~Has(ms[y], d, f)) => LastWord(S, dir, Len(S), d, f, ms[x][d][f])
\* No directory of S is empty.
Full(S) == \A i \in 1..Len(S) : S[i].op = "dir" => S[i].n > 0
Sends(S, m, full) == \E left, dir : Walk(S, left, dir) /\ Means(S, dir, Len(S), m) /\ (full => Full(S))
SendsAll(S, ms, N, full) ==
  \E left, dir : Walk(S, left, dir) /\ MeansAll(S, dir, ms, N) /\ (full => Full(S))

\* Paths have finitely many parts.
LEMMA NamesFinite == IsFiniteSet(Names)
<1> DEFINE Dirs == {Norm[p].dir : p \in Spelled}
           Files == {Norm[p].file : p \in Spelled}
           fd == [p \in Spelled |-> Norm[p].dir]
           ff == [p \in Spelled |-> Norm[p].file]
<1>1. fd \in Surjection(Spelled, Dirs) /\ ff \in Surjection(Spelled, Files)
  BY DEF Surjection
<1> HIDE DEF Dirs, Files, fd, ff
<1>2. IsFiniteSet(Dirs) /\ IsFiniteSet(Files)
  BY <1>1, FilesAssumption, FS_Surjection
<1>3. IsFiniteSet(Dirs \cup Files)
  BY <1>2, FS_Union
<1> QED
  BY <1>3 DEF Names, Dirs, Files

\* The entries of one directory.
LEMMA OneDir ==
  ASSUME NEW d \in Names, NEW files \in FileSets, NEW full, full => DOMAIN files # {}
  PROVE  Sends(<<[op |-> "dir", name |-> d, n |-> Cardinality(DOMAIN files)]>> \o WriteFiles(files),
               [x \in {d} |-> files], full)
<1> DEFINE C == Cardinality(DOMAIN files)
           s == SetToSeq(DOMAIN files)
           e == [op |-> "dir", name |-> d, n |-> C]
           w == WriteFiles(files)
           S == <<e>> \o w
           m == [x \in {d} |-> files]
           left == [i \in 0..(C + 1) |-> IF i = 0 THEN 0 ELSE C + 1 - i]
           dir == [i \in 0..(C + 1) |-> d]
<1>1. DOMAIN files \subseteq Names /\ files \in [DOMAIN files -> Reals]
  BY DEF FileSets
<1>2. IsFiniteSet(DOMAIN files)
  BY <1>1, NamesFinite, FS_Subset
<1>3. /\ C \in Nat /\ s \in [1..C -> DOMAIN files]
      /\ \A f \in DOMAIN files : \E i \in 1..C : s[i] = f
      /\ \A a, b \in 1..C : s[a] = s[b] => a = b
  BY <1>2, Listing
<1>4. full => C > 0
  BY <1>2, <1>3, FS_EmptySet
<1>5. w = [i \in 1..C |-> [op |-> "file", name |-> s[i], real |-> files[s[i]]]]
  BY DEF WriteFiles
<1> HIDE DEF C, s, w
<1>6. \A i \in 1..C : w[i] = [op |-> "file", name |-> s[i], real |-> files[s[i]]] /\ w[i] \in FileEntry
  BY <1>1, <1>3, <1>5 DEF FileEntry
<1>f. \A i \in 1..C : w[i].op = "file" /\ w[i].name = s[i] /\ w[i].real = files[s[i]]
  BY <1>5
<1>7. w \in Seq(Entry) /\ Len(w) = C
  <2>1. w \in [1..C -> Entry]
    BY <1>5, <1>6 DEF Entry
  <2> QED
    BY <2>1, <1>3
<1>8. e \in Entry
  BY <1>3 DEF Entry, DirEntry
<1>9. /\ S \in Seq(Entry) /\ Len(S) = C + 1 /\ S[1] = e
      /\ \A i \in 1..C : S[i + 1] = w[i]
  BY <1>3, <1>7, <1>8
<1>10. \A i \in 1..(C + 1) : i = 1 \/ (i - 1 \in 1..C /\ S[i] = w[i - 1])
  <2> SUFFICES ASSUME NEW i \in 1..(C + 1), i # 1 PROVE i - 1 \in 1..C /\ S[i] = w[i - 1]
    OBVIOUS
  <2>1. i - 1 \in 1..C /\ (i - 1) + 1 = i
    BY <1>3
  <2> QED
    BY <2>1, <1>9
<1>e. e.op = "dir" /\ e.name = d /\ e.n = C
  OBVIOUS
<1> HIDE DEF S, e
<1>11. left \in [0..(C + 1) -> Nat] /\ left[0] = 0 /\ left[C + 1] = 0
  BY <1>3
<1>12. Walk(S, left, dir)
  <2>1. ASSUME NEW i \in 1..(C + 1)
        PROVE \/ S[i].op = "dir" /\ left[i - 1] = 0 /\ left[i] = S[i].n /\ dir[i] = S[i].name
              \/ S[i].op = "file" /\ left[i - 1] > 0 /\ left[i] = left[i - 1] - 1 /\ dir[i] = dir[i - 1]
    <3>1. CASE i = 1
      BY <3>1, <1>3, <1>9, <1>e
    <3>2. CASE i # 1
      <4>1. S[i].op = "file"
        BY <3>2, <1>f, <1>10
      <4>2. i - 1 \in 1..C /\ i - 1 \in 0..(C + 1) /\ i \in 0..(C + 1)
        BY <3>2, <1>3
      <4>3. left[i - 1] = C + 1 - (i - 1) /\ left[i] = C + 1 - i /\ dir[i] = dir[i - 1]
        BY <3>2, <4>2
      <4> HIDE DEF left, dir
      <4> QED
        BY <4>1, <4>2, <4>3, <1>3
    <3> QED
      BY <3>1, <3>2
  <2> HIDE DEF left, dir
  <2> QED
    BY <1>9, <1>11, <2>1 DEF Walk
<1>13. \A i \in 1..(C + 1) : S[i].op = "file" => Has(m, dir[i], S[i].name)
  <2> SUFFICES ASSUME NEW i \in 1..(C + 1), S[i].op = "file" PROVE Has(m, dir[i], S[i].name)
    OBVIOUS
  <2>1. i # 1
    BY <1>9, <1>e
  <2>2. S[i].name = s[i - 1] /\ s[i - 1] \in DOMAIN files
    BY <2>1, <1>3, <1>f, <1>10
  <2>3. dir[i] = d
    BY <1>3
  <2> QED
    BY <2>2, <2>3 DEF Has
<1>14. ASSUME NEW f \in DOMAIN files PROVE LastWord(S, dir, C + 1, d, f, files[f])
  <2>1. PICK i \in 1..C : s[i] = f
    BY <1>3
  <2>2. i + 1 \in 1..(C + 1) /\ S[i + 1] = w[i] /\ dir[i + 1] = d
    BY <1>3, <1>9
  <2>3. FileAt(S, dir, i + 1, d, f) /\ S[i + 1].real = files[f]
    BY <2>1, <2>2, <1>f DEF FileAt
  <2>4. ASSUME NEW h \in ((i + 1) + 1)..(C + 1) PROVE ~FileAt(S, dir, h, d, f)
    <3>1. h \in 1..(C + 1) /\ h # 1 /\ h - 1 # i /\ h - 1 \in 1..C
      BY <1>3
    <3>2. S[h].name = s[h - 1] /\ s[h - 1] # s[i]
      BY <3>1, <1>3, <1>f, <1>10
    <3> QED
      BY <3>2, <2>1 DEF FileAt
  <2> QED
    BY <2>2, <2>3, <2>4 DEF LastWord
<1>15. Means(S, dir, C + 1, m)
  <2>1. DOMAIN m = {d} /\ m[d] = files
    OBVIOUS
  <2> HIDE DEF m, dir
  <2> QED
    BY <2>1, <1>13, <1>14 DEF Means
<1>16. full => Full(S)
  <2> SUFFICES ASSUME full, NEW i \in 1..(C + 1), S[i].op = "dir" PROVE S[i].n > 0
    BY <1>9 DEF Full
  <2>1. i = 1
    BY <1>f, <1>10
  <2> QED
    BY <2>1, <1>4, <1>9, <1>e
<1>17. Sends(S, m, full)
  <2> HIDE DEF left, dir, m
  <2> QED
    BY <1>9, <1>12, <1>15, <1>16 DEF Sends
<1> QED
  BY <1>17 DEF S, e, w, C

\* The entries of one more map.
LEMMA Joined ==
  ASSUME NEW S, NEW T, NEW ms, NEW N \in Nat \ {0}, NEW full,
         SendsAll(S, ms, N - 1, full), Sends(T, ms[N], full)
  PROVE  SendsAll(S \o T, ms, N, full)
<1>1. PICK ls, ds : Walk(S, ls, ds) /\ MeansAll(S, ds, ms, N - 1) /\ (full => Full(S))
  BY DEF SendsAll
<1>2. PICK lt, dt : Walk(T, lt, dt) /\ Means(T, dt, Len(T), ms[N]) /\ (full => Full(T))
  BY DEF Sends
<1> DEFINE a == Len(S)
           b == Len(T)
           U == S \o T
           left == [i \in 0..(a + b) |-> IF i <= a THEN ls[i] ELSE lt[i - a]]
           dir == [i \in 0..(a + b) |-> IF i <= a THEN ds[i] ELSE dt[i - a]]
<1>3. S \in Seq(Entry) /\ T \in Seq(Entry) /\ a \in Nat /\ b \in Nat
  BY <1>1, <1>2 DEF Walk
<1>4. /\ U \in Seq(Entry) /\ Len(U) = a + b
      /\ \A i \in 1..a : U[i] = S[i]
      /\ \A i \in 1..b : U[a + i] = T[i]
  BY <1>3
<1>5. /\ ls \in [0..a -> Nat] /\ ls[0] = 0 /\ ls[a] = 0
      /\ lt \in [0..b -> Nat] /\ lt[0] = 0 /\ lt[b] = 0
  BY <1>1, <1>2 DEF Walk
<1>6. /\ \A i \in 0..a : left[i] = ls[i] /\ dir[i] = ds[i]
      /\ \A i \in 1..b : left[a + i] = lt[i] /\ dir[a + i] = dt[i]
  BY <1>3
<1>7. \A i \in 1..(a + b) : i \in 1..a \/ (i - a \in 1..b /\ a + (i - a) = i)
  BY <1>3
<1>8. left \in [0..(a + b) -> Nat] /\ left[0] = 0 /\ left[a + b] = 0
  <2>1. left \in [0..(a + b) -> Nat]
    <3> SUFFICES ASSUME NEW i \in 0..(a + b) PROVE (IF i <= a THEN ls[i] ELSE lt[i - a]) \in Nat
      OBVIOUS
    <3>1. i <= a => i \in 0..a
      BY <1>3
    <3>2. ~(i <= a) => i - a \in 0..b
      BY <1>3
    <3> QED
      BY <3>1, <3>2, <1>5
  <2>2. left[a + b] = 0
    <3>1. CASE b = 0
      BY <3>1, <1>3, <1>5, <1>6
    <3>2. CASE b # 0
      <4>1. b \in 1..b
        BY <3>2, <1>3
      <4> QED
        BY <4>1, <1>5, <1>6
    <3> QED
      BY <3>1, <3>2
  <2>3. left[0] = 0
    BY <1>3, <1>5, <1>6
  <2> QED
    BY <2>1, <2>2, <2>3
<1> HIDE DEF a, b, U, left, dir
<1>9. /\ \A i \in 1..a : \A d, f : FileAt(U, dir, i, d, f) <=> FileAt(S, ds, i, d, f)
      /\ \A i \in 1..b : \A d, f : FileAt(U, dir, a + i, d, f) <=> FileAt(T, dt, i, d, f)
  <2>1. \A i \in 1..a : i \in 0..a
    BY <1>3
  <2> QED
    BY <2>1, <1>4, <1>6 DEF FileAt
<1>10. Walk(U, left, dir)
  <2>1. ASSUME NEW i \in 1..(a + b)
        PROVE \/ U[i].op = "dir" /\ left[i - 1] = 0 /\ left[i] = U[i].n /\ dir[i] = U[i].name
              \/ U[i].op = "file" /\ left[i - 1] > 0 /\ left[i] = left[i - 1] - 1 /\ dir[i] = dir[i - 1]
    <3>1. CASE i \in 1..a
      <4>1. i \in 0..a /\ i - 1 \in 0..a
        BY <3>1, <1>3
      <4>2. U[i] = S[i] /\ left[i] = ls[i] /\ left[i - 1] = ls[i - 1] /\ dir[i] = ds[i] /\ dir[i - 1] = ds[i - 1]
        BY <3>1, <4>1, <1>4, <1>6
      <4> QED
        BY <3>1, <4>2, <1>1 DEF Walk, a
    <3>2. CASE i \notin 1..a
      <4> DEFINE j == i - a
      <4>1. j \in 1..b /\ a + j = i
        BY <3>2, <1>7
      <4>2. U[i] = T[j] /\ left[i] = lt[j] /\ dir[i] = dt[j]
        BY <4>1, <1>4, <1>6
      <4>3. left[i - 1] = lt[j - 1] /\ (j # 1 => dir[i - 1] = dt[j - 1])
        <5>1. CASE j = 1
          <6>1. i - 1 = a /\ a \in 0..a
            BY <5>1, <4>1, <1>3
          <6> QED
            BY <5>1, <6>1, <1>5, <1>6
        <5>2. CASE j # 1
          <6>1. j - 1 \in 1..b /\ a + (j - 1) = i - 1
            BY <5>2, <4>1, <1>3
          <6>2. left[a + (j - 1)] = lt[j - 1] /\ dir[a + (j - 1)] = dt[j - 1]
            BY <6>1, <1>6
          <6> QED
            BY <6>1, <6>2
        <5> QED
          BY <5>1, <5>2
      <4> HIDE DEF j
      <4>4. \/ T[j].op = "dir" /\ lt[j - 1] = 0 /\ lt[j] = T[j].n /\ dt[j] = T[j].name
            \/ T[j].op = "file" /\ lt[j - 1] > 0 /\ lt[j] = lt[j - 1] - 1 /\ dt[j] = dt[j - 1]
        BY <4>1, <1>2 DEF Walk, b
      <4>5. lt[j - 1] > 0 => j # 1
        BY <1>5
      <4> QED
        BY <4>2, <4>3, <4>4, <4>5
    <3> QED
      BY <3>1, <3>2
  <2> QED
    BY <2>1, <1>4, <1>8 DEF Walk
<1>11. ASSUME NEW i \in 1..(a + b), U[i].op = "file" PROVE \E x \in 1..N : Has(ms[x], dir[i], U[i].name)
  <2>1. CASE i \in 1..a
    <3>1. i \in 0..a
      BY <2>1, <1>3
    <3>2. S[i].op = "file" /\ dir[i] = ds[i] /\ U[i].name = S[i].name
      BY <1>11, <2>1, <3>1, <1>4, <1>6
    <3>3. PICK x \in 1..(N - 1) : Has(ms[x], ds[i], S[i].name)
      BY <2>1, <3>2, <1>1 DEF MeansAll, a
    <3>4. x \in 1..N
      OBVIOUS
    <3> QED
      BY <3>2, <3>3, <3>4
  <2>2. CASE i \notin 1..a
    <3> DEFINE j == i - a
    <3>1. j \in 1..b /\ a + j = i
      BY <2>2, <1>7
    <3>2. U[i] = T[j] /\ dir[i] = dt[j]
      BY <3>1, <1>4, <1>6
    <3> HIDE DEF j
    <3>3. Has(ms[N], dt[j], T[j].name)
      BY <1>11, <3>1, <3>2, <1>2 DEF Means, b
    <3> QED
      BY <3>2, <3>3
  <2> QED
    BY <2>1, <2>2
<1>12. ASSUME NEW x \in 1..N, NEW d \in DOMAIN ms[x], NEW f \in DOMAIN ms[x][d],
              \A y \in (x + 1)..N : ~Has(ms[y], d, f)
       PROVE  LastWord(U, dir, a + b, d, f, ms[x][d][f])
  <2>1. CASE x = N
    <3>1. LastWord(T, dt, b, d, f, ms[x][d][f])
      BY <2>1, <1>2 DEF Means, b
    <3>2. PICK i \in 1..b : /\ FileAt(T, dt, i, d, f) /\ T[i].real = ms[x][d][f]
                            /\ \A h \in (i + 1)..b : ~FileAt(T, dt, h, d, f)
      BY <3>1 DEF LastWord
    <3>3. a + i \in 1..(a + b) /\ FileAt(U, dir, a + i, d, f) /\ U[a + i].real = ms[x][d][f]
      BY <3>2, <1>3, <1>4, <1>9
    <3>4. ASSUME NEW h \in ((a + i) + 1)..(a + b) PROVE ~FileAt(U, dir, h, d, f)
      <4>1. h - a \in (i + 1)..b /\ h - a \in 1..b /\ a + (h - a) = h
        BY <1>3
      <4>2. ~FileAt(U, dir, a + (h - a), d, f)
        BY <4>1, <3>2, <1>9
      <4> QED
        BY <4>1, <4>2
    <3> QED
      BY <3>3, <3>4 DEF LastWord
  <2>2. CASE x # N
    <3>1. x \in 1..(N - 1) /\ N \in (x + 1)..N /\ \A y \in (x + 1)..(N - 1) : y \in (x + 1)..N
      BY <2>2
    <3>2. LastWord(S, ds, a, d, f, ms[x][d][f])
      BY <1>12, <3>1, <1>1 DEF MeansAll, a
    <3>3. PICK i \in 1..a : /\ FileAt(S, ds, i, d, f) /\ S[i].real = ms[x][d][f]
                            /\ \A h \in (i + 1)..a : ~FileAt(S, ds, h, d, f)
      BY <3>2 DEF LastWord
    <3>4. i \in 1..(a + b) /\ FileAt(U, dir, i, d, f) /\ U[i].real = ms[x][d][f]
      BY <3>3, <1>3, <1>4, <1>9
    <3>5. ASSUME NEW h \in (i + 1)..(a + b) PROVE ~FileAt(U, dir, h, d, f)
      <4>1. CASE h \in 1..a
        <5>1. h \in (i + 1)..a
          BY <4>1, <1>3
        <5> QED
          BY <4>1, <5>1, <3>3, <1>9
      <4>2. CASE h \notin 1..a
        <5>1. h - a \in 1..b /\ a + (h - a) = h
          BY <4>2, <1>3, <1>7
        <5>2. ~Has(ms[N], d, f)
          BY <1>12, <3>1
        <5>3. ~FileAt(T, dt, h - a, d, f)
          BY <5>1, <5>2, <1>2 DEF Means, FileAt, b
        <5>4. ~FileAt(U, dir, a + (h - a), d, f)
          BY <5>1, <5>3, <1>9
        <5> QED
          BY <5>1, <5>4
      <4> QED
        BY <4>1, <4>2
    <3> QED
      BY <3>4, <3>5 DEF LastWord
  <2> QED
    BY <2>1, <2>2
<1>13. full => Full(U)
  <2> SUFFICES ASSUME full, NEW i \in 1..(a + b), U[i].op = "dir" PROVE U[i].n > 0
    BY <1>4 DEF Full
  <2>1. CASE i \in 1..a
    BY <2>1, <1>1, <1>4 DEF Full, a
  <2>2. CASE i \notin 1..a
    <3>1. i - a \in 1..b /\ U[i] = T[i - a]
      BY <2>2, <1>4, <1>7
    <3> QED
      BY <3>1, <1>2 DEF Full, b
  <2> QED
    BY <2>1, <2>2
<1>14. MeansAll(U, dir, ms, N)
  BY <1>4, <1>11, <1>12 DEF MeansAll
<1> QED
  BY <1>10, <1>13, <1>14 DEF SendsAll, U

\* The entries of any number of maps.
LEMMA JoinedAll ==
  ASSUME NEW N \in Nat, NEW seqs \in Seq(Seq(Entry)), Len(seqs) = N, NEW ms, NEW full,
         \A i \in 1..N : Sends(seqs[i], ms[i], full)
  PROVE  SendsAll(FlattenSeq(seqs), ms, N, full)
<1>1. PICK parts : /\ parts[0] = <<>>
                   /\ parts[N] = FlattenSeq(seqs) \/ N = 0
                   /\ \A i \in 1..N : parts[i] = IF i = 1 THEN seqs[i] ELSE parts[i - 1] \o seqs[i]
  BY FlattenParts
<1>2. SendsAll(parts[0], ms, 0, full)
  <2> DEFINE left == [i \in 0..0 |-> 0]
             none == <<>>
  <2>1. none \in Seq(Entry) /\ Len(none) = 0
    OBVIOUS
  <2> HIDE DEF none
  <2>2. Walk(none, left, left)
    BY <2>1 DEF Walk
  <2> HIDE DEF left
  <2>3. MeansAll(none, left, ms, 0) /\ Full(none)
    BY <2>1 DEF MeansAll, Full
  <2>4. parts[0] = none
    BY <1>1 DEF none
  <2> QED
    BY <2>2, <2>3, <2>4 DEF SendsAll
<1> DEFINE Bad == {i \in Nat : i <= N /\ ~SendsAll(parts[i], ms, i, full)}
<1>3. Bad = {}
  <2> SUFFICES ASSUME Bad # {} PROVE FALSE
    OBVIOUS
  <2>1. PICK i \in Bad : \A h \in Bad : i <= h
    BY Least
  <2>2. i \in 1..N /\ i \in Nat \ {0} /\ i - 1 \in Nat
    BY <1>2
  <2>3. SendsAll(parts[i - 1], ms, i - 1, full)
    BY <2>1, <2>2
  <2>4. parts[i] = parts[i - 1] \o seqs[i]
    <3>1. CASE i = 1
      <4>1. parts[i - 1] = <<>> /\ seqs[i] \in Seq(Entry) /\ parts[i] = seqs[i]
        BY <3>1, <2>2, <1>1
      <4> QED
        BY <4>1
    <3>2. CASE i # 1
      BY <3>2, <2>2, <1>1
    <3> QED
      BY <3>1, <3>2
  <2>5. SendsAll(parts[i], ms, i, full)
    BY <2>2, <2>3, <2>4, Joined
  <2> QED
    BY <2>5
<1>4. SendsAll(parts[N], ms, N, full)
  BY <1>3
<1>5. parts[N] = FlattenSeq(seqs)
  <2>1. N = 0 => seqs = <<>>
    OBVIOUS
  <2>2. N = 0 => FlattenSeq(seqs) = <<>>
    BY <2>1 DEF FlattenSeq
  <2> QED
    BY <2>2, <1>1
<1> QED
  BY <1>4, <1>5

\* The names FilesIn finds.
LEMMA InFilesIn == ASSUME NEW m, NEW d, NEW f PROVE f \in DOMAIN FilesIn(m, d) <=> Has(m, d, f)
<1>1. DOMAIN NoFiles = {}
  BY DEF NoFiles
<1> QED
  BY <1>1 DEF FilesIn, Has

\* The directories and files of a map.
LEMMA MappingParts ==
  ASSUME NEW m \in Mapping
  PROVE  /\ DOMAIN m \subseteq Names /\ IsFiniteSet(DOMAIN m)
         /\ \A d \in DOMAIN m : m[d] \in FileSets /\ DOMAIN m[d] \subseteq Names
<1>1. DOMAIN m \subseteq Names /\ \A d \in DOMAIN m : m[d] \in FileSets
  BY DEF Mapping
<1>2. IsFiniteSet(DOMAIN m)
  BY <1>1, NamesFinite, FS_Subset
<1>3. \A fs \in FileSets : DOMAIN fs \subseteq Names
  BY DEF FileSets
<1> QED
  BY <1>1, <1>2, <1>3

\* What has been sent is a sequence of entries.
LEMMA SentType == ASSUME NEW S, NEW m, NEW full, Sends(S, m, full) PROVE S \in Seq(Entry)
BY DEF Sends, Walk

\* writeDir and writeMapping send the map.
LEMMA DirsSent ==
  ASSUME NEW m \in Mapping, NEW full, full => ~HasEmptyDir(m) PROVE Sends(WriteDirs(m), m, full)
<1> DEFINE C == Cardinality(DOMAIN m)
           dirs == SetToSeq(DOMAIN m)
           Dir(d) == <<[op |-> "dir", name |-> d, n |-> Cardinality(DOMAIN m[d])]>> \o WriteFiles(m[d])
           seqs == [i \in 1..C |-> Dir(dirs[i])]
           One(d) == [x \in {d} |-> m[d]]
           ms == [i \in 1..C |-> One(dirs[i])]
           S == FlattenSeq(seqs)
<1>1. WriteDirs(m) = S
  BY DEF WriteDirs
<1>2. /\ C \in Nat /\ dirs \in [1..C -> DOMAIN m]
      /\ \A d \in DOMAIN m : \E i \in 1..C : dirs[i] = d
      /\ \A a, b \in 1..C : dirs[a] = dirs[b] => a = b
  BY MappingParts, Listing
<1> HIDE DEF C, dirs
<1>3. ASSUME NEW d \in DOMAIN m PROVE Sends(Dir(d), One(d), full)
  <2>1. d \in Names /\ m[d] \in FileSets /\ (full => DOMAIN m[d] # {})
    BY MappingParts DEF HasEmptyDir
  <2> QED
    BY <2>1, OneDir
<1>4. ASSUME NEW d, NEW e, NEW f, Has(One(d), e, f) PROVE e = d /\ f \in DOMAIN m[d]
  BY <1>4 DEF Has
<1>5. ASSUME NEW d PROVE DOMAIN One(d) = {d} /\ One(d)[d] = m[d]
  OBVIOUS
<1> HIDE DEF Dir, One
<1>6. \A i \in 1..C : Sends(seqs[i], ms[i], full) /\ seqs[i] \in Seq(Entry) /\ ms[i] = One(dirs[i])
  BY <1>2, <1>3, SentType
<1>7. seqs \in Seq(Seq(Entry)) /\ Len(seqs) = C
  <2>1. seqs \in [1..C -> Seq(Entry)]
    BY <1>6
  <2> QED
    BY <2>1, <1>2
<1> HIDE DEF seqs, ms, S
<1>8. SendsAll(S, ms, C, full)
  BY <1>2, <1>6, <1>7, JoinedAll DEF S
<1>9. PICK left, dir : Walk(S, left, dir) /\ MeansAll(S, dir, ms, C) /\ (full => Full(S))
  BY <1>8 DEF SendsAll
<1>10. \A i \in 1..Len(S) : S[i].op = "file" => Has(m, dir[i], S[i].name)
  <2> SUFFICES ASSUME NEW i \in 1..Len(S), S[i].op = "file" PROVE Has(m, dir[i], S[i].name)
    OBVIOUS
  <2>1. PICK x \in 1..C : Has(ms[x], dir[i], S[i].name)
    BY <1>9 DEF MeansAll
  <2>2. dir[i] = dirs[x] /\ S[i].name \in DOMAIN m[dirs[x]]
    BY <2>1, <1>4, <1>6
  <2> QED
    BY <2>2, <1>2 DEF Has
<1>11. ASSUME NEW d \in DOMAIN m, NEW f \in DOMAIN m[d] PROVE LastWord(S, dir, Len(S), d, f, m[d][f])
  <2>1. PICK x \in 1..C : dirs[x] = d
    BY <1>2
  <2>2. d \in DOMAIN ms[x] /\ ms[x][d] = m[d]
    BY <2>1, <1>5, <1>6
  <2>3. ASSUME NEW y \in (x + 1)..C PROVE ~Has(ms[y], d, f)
    <3>1. y \in 1..C /\ y # x
      BY <1>2
    <3>2. dirs[y] # d
      BY <3>1, <2>1, <1>2
    <3> QED
      BY <3>1, <3>2, <1>4, <1>6
  <2> QED
    BY <2>2, <2>3, <1>9 DEF MeansAll
<1>12. Means(S, dir, Len(S), m)
  BY <1>10, <1>11 DEF Means
<1> QED
  BY <1>1, <1>9, <1>12 DEF Sends

\* The last one of the N maps that has the name has the last word.
Merged(ms, N, d, f) ==
  \E x \in 1..N : /\ Has(ms[x], d, f) /\ Merge(ms)[d][f] = ms[x][d][f]
                  /\ \A y \in (x + 1)..N : ~Has(ms[y], d, f)
\* What the maps mean together.
LEMMA MergeHas ==
  ASSUME NEW ms, NEW N, N = Len(ms), N \in Nat
  PROVE  /\ DOMAIN Merge(ms) = UNION {DOMAIN ms[i] : i \in 1..N}
         /\ \A d, f : Has(Merge(ms), d, f) <=> \E i \in 1..N : Has(ms[i], d, f)
         /\ \A d, f : Has(Merge(ms), d, f) => Merged(ms, N, d, f)
<1> DEFINE M == Merge(ms)
<1>1. /\ DOMAIN M = UNION {DOMAIN ms[i] : i \in 1..N}
      /\ \A d \in DOMAIN M : /\ DOMAIN M[d] = UNION {DOMAIN FilesIn(ms[i], d) : i \in 1..N}
                             /\ \A f \in DOMAIN M[d] : M[d][f] = ms[LastHaving(ms, d, f)][d][f]
  BY DEF Merge
<1> HIDE DEF M
<1>2. ASSUME NEW d, NEW f PROVE Has(M, d, f) <=> \E i \in 1..N : Has(ms[i], d, f)
  <2>1. ASSUME Has(M, d, f) PROVE \E i \in 1..N : Has(ms[i], d, f)
    <3>1. PICK i \in 1..N : f \in DOMAIN FilesIn(ms[i], d)
      BY <2>1, <1>1 DEF Has
    <3> QED
      BY <3>1, InFilesIn
  <2>2. ASSUME NEW i \in 1..N, Has(ms[i], d, f) PROVE Has(M, d, f)
    <3>1. d \in DOMAIN M
      BY <2>2, <1>1 DEF Has
    <3>2. f \in DOMAIN FilesIn(ms[i], d)
      BY <2>2, InFilesIn
    <3> QED
      BY <3>1, <3>2, <1>1 DEF Has
  <2> QED
    BY <2>1, <2>2
<1>3. ASSUME NEW d, NEW f, Has(M, d, f)
      PROVE  \E x \in 1..N : /\ Has(ms[x], d, f) /\ M[d][f] = ms[x][d][f]
                             /\ \A y \in (x + 1)..N : ~Has(ms[y], d, f)
  <2> DEFINE H == Having(ms, d, f)
             x == LastHaving(ms, d, f)
  <2>1. \A i : i \in H <=> i \in 1..N /\ Has(ms[i], d, f)
    BY InFilesIn DEF Having
  <2>2. H \subseteq 1..N /\ H # {}
    BY <1>2, <1>3, <2>1
  <2>3. \E i \in H : \A n \in H : n <= i
    <3> HIDE DEF H
    <3> QED
      BY <2>2, Greatest
  <2>4. x \in H /\ \A n \in H : n <= x
    BY <2>3 DEF LastHaving
  <2>5. M[d][f] = ms[x][d][f]
    BY <1>1, <1>3 DEF Has
  <2> HIDE DEF H, x
  <2>6. ASSUME NEW y \in (x + 1)..N PROVE ~Has(ms[y], d, f)
    <3>1. x \in 1..N
      BY <2>1, <2>4
    <3>2. y \in 1..N /\ ~(y <= x)
      BY <3>1
    <3> QED
      BY <3>2, <2>1, <2>4
  <2> QED
    BY <2>1, <2>4, <2>5, <2>6
<1> QED
  BY <1>1, <1>2, <1>3 DEF M, Merged

\* An emptied directory in the maps together is one in each map that has it.
LEMMA MergeEmpty ==
  ASSUME NEW ms, NEW N, N = Len(ms), N \in Nat
  PROVE  /\ (\A i \in 1..N : ~HasEmptyDir(ms[i])) => ~HasEmptyDir(Merge(ms))
         /\ N = 1 /\ ~HasEmptyDir(Merge(ms)) => ~HasEmptyDir(ms[1])
<1>0. /\ DOMAIN Merge(ms) = UNION {DOMAIN ms[i] : i \in 1..N}
      /\ \A d, f : Has(Merge(ms), d, f) <=> \E i \in 1..N : Has(ms[i], d, f)
  BY MergeHas
<1>1. ASSUME \A i \in 1..N : ~HasEmptyDir(ms[i]), HasEmptyDir(Merge(ms)) PROVE FALSE
  <2>1. PICK d \in DOMAIN Merge(ms) : DOMAIN Merge(ms)[d] = {}
    BY <1>1 DEF HasEmptyDir
  <2>2. PICK i \in 1..N : d \in DOMAIN ms[i]
    BY <1>0
  <2>3. PICK f : f \in DOMAIN ms[i][d]
    BY <1>1, <2>2 DEF HasEmptyDir
  <2>4. Has(Merge(ms), d, f)
    BY <2>2, <2>3, <1>0 DEF Has
  <2> QED
    BY <2>1, <2>4 DEF Has
<1>2. ASSUME N = 1, ~HasEmptyDir(Merge(ms)), HasEmptyDir(ms[1]) PROVE FALSE
  <2>1. PICK d \in DOMAIN ms[1] : DOMAIN ms[1][d] = {}
    BY <1>2 DEF HasEmptyDir
  <2>2. d \in DOMAIN Merge(ms)
    BY <1>2, <1>0
  <2>3. PICK f : f \in DOMAIN Merge(ms)[d]
    BY <1>2, <2>2 DEF HasEmptyDir
  <2>4. Has(Merge(ms), d, f)
    BY <2>2, <2>3 DEF Has
  <2>5. PICK i \in 1..N : Has(ms[i], d, f)
    BY <2>4, <1>0
  <2> QED
    BY <1>2, <2>1, <2>5 DEF Has
<1> QED
  BY <1>1, <1>2

\* writeMappings sends what the maps mean together, and then the end.
LEMMA MapsSent ==
  ASSUME NEW ms \in Seq(Mapping), NEW full, full => \A i \in 1..Len(ms) : ~HasEmptyDir(ms[i])
  PROVE  \E S : writeMappings(ms) = Append(S, [op |-> "end"]) /\ Sends(S, Merge(ms), full)
<1> DEFINE N == Len(ms)
           seqs == [i \in 1..N |-> WriteDirs(ms[i])]
           S == FlattenSeq(seqs)
<1>1. writeMappings(ms) = Append(S, [op |-> "end"])
  BY DEF writeMappings
<1>2. N \in Nat
  OBVIOUS
<1>3. \A i \in 1..N : Sends(seqs[i], ms[i], full) /\ seqs[i] \in Seq(Entry)
  <2> SUFFICES ASSUME NEW i \in 1..N PROVE Sends(seqs[i], ms[i], full) /\ seqs[i] \in Seq(Entry)
    OBVIOUS
  <2>1. ms[i] \in Mapping /\ (full => ~HasEmptyDir(ms[i]))
    OBVIOUS
  <2>2. Sends(WriteDirs(ms[i]), ms[i], full)
    BY <2>1, DirsSent
  <2> QED
    BY <2>2, SentType
<1>4. seqs \in Seq(Seq(Entry)) /\ Len(seqs) = N
  <2>1. seqs \in [1..N -> Seq(Entry)]
    BY <1>3
  <2> HIDE DEF seqs, N
  <2> QED
    BY <2>1, <1>2
<1> HIDE DEF N, seqs, S
<1>5. SendsAll(S, ms, N, full)
  BY <1>2, <1>3, <1>4, JoinedAll DEF S
<1>6. PICK left, dir : Walk(S, left, dir) /\ MeansAll(S, dir, ms, N) /\ (full => Full(S))
  BY <1>5 DEF SendsAll
<1>m. /\ \A d, f : Has(Merge(ms), d, f) <=> \E i \in 1..N : Has(ms[i], d, f)
      /\ \A d, f : Has(Merge(ms), d, f) => Merged(ms, N, d, f)
  <2>1. N = Len(ms)
    BY DEF N
  <2> QED
    BY <2>1, <1>2, MergeHas
<1>7. \A i \in 1..Len(S) : S[i].op = "file" => Has(Merge(ms), dir[i], S[i].name)
  BY <1>6, <1>m DEF MeansAll
<1>8. ASSUME NEW d \in DOMAIN Merge(ms), NEW f \in DOMAIN Merge(ms)[d]
      PROVE  LastWord(S, dir, Len(S), d, f, Merge(ms)[d][f])
  <2>1. PICK x \in 1..N : /\ Has(ms[x], d, f) /\ Merge(ms)[d][f] = ms[x][d][f]
                          /\ \A y \in (x + 1)..N : ~Has(ms[y], d, f)
    <3>1. Has(Merge(ms), d, f)
      BY DEF Has
    <3> QED
      BY <3>1, <1>m DEF Merged
  <2> QED
    BY <2>1, <1>6 DEF MeansAll, Has
<1>9. Means(S, dir, Len(S), Merge(ms))
  BY <1>7, <1>8 DEF Means
<1> QED
  BY <1>1, <1>6, <1>9 DEF Sends

(***************************************************************************)
(* A transfer under way.                                                   *)
(***************************************************************************)
EndEntry == [op |-> "end"]
Message == Entry \cup {EndEntry}
Reading == [dir : Names \cup {Root}, left : Nat]
\* The i-th message of the transfer of S.
Sent(S, i) == IF i = Len(S) + 1 THEN EndEntry ELSE S[i]
\* Two maps have the same files.
SameFiles(m1, m2) ==
  /\ DOMAIN m1 = DOMAIN m2
  /\ \A d \in DOMAIN m1 : DOMAIN m1[d] = DOMAIN m2[d] /\ \A f \in DOMAIN m1[d] : m1[d][f] = m2[d][f]

\* n entries of S are read, the others are in the pipe p and to be written (o);
\* g is what has been read of the map gv, r where Initialize is.
Transferring(S, left, dir, n, p, o, r, g, gv) ==
  /\ Walk(S, left, dir) /\ n \in 0..Len(S)
  /\ n + Len(p) + Len(o) = Len(S) + 1
  /\ \A i \in 1..Len(p) : p[i] = Sent(S, n + i)
  /\ \A i \in 1..Len(o) : o[i] = Sent(S, n + Len(p) + i)
  /\ r.left = left[n] /\ (left[n] > 0 => r.dir = dir[n] /\ r.dir \in Names)
  /\ Means(S, dir, n, g) /\ Means(S, dir, Len(S), gv)
  /\ Full(S) \/ HasEmptyDir(gv)
Transfers(p, o, r, g, gv) == \E S, left, dir, n : Transferring(S, left, dir, n, p, o, r, g, gv)

Early == {"entry", "loader", "init"}
Late == {"hooked", "waiting", "main", "ran"}
\* The pipe of a kid whose main thread is at kd.
PipeOf(kd, p, o, r, g, gv) ==
  /\ kd = "none" => p = <<>> /\ r.left = 0 /\ g = Empty
  /\ kd \in Early => Transfers(p, o, r, g, gv)
  /\ kd \in Late /\ ~HasEmptyDir(gv) => SameFiles(g, gv)
  /\ Len(p) <= PipeSize /\ ~HasEmptyDir(g)

\* addFile adds one name, or changes what it stands for.
LEMMA AddFile ==
  ASSUME NEW m \in Mapping, NEW d \in Names, NEW f \in Names, NEW r \in Reals
  PROVE  /\ addFile(m, d, f, r) \in Mapping
         /\ \A x, y : Has(addFile(m, d, f, r), x, y) <=> Has(m, x, y) \/ (x = d /\ y = f)
         /\ addFile(m, d, f, r)[d][f] = r
         /\ \A x, y : Has(m, x, y) /\ ~(x = d /\ y = f) => addFile(m, d, f, r)[x][y] = m[x][y]
         /\ HasEmptyDir(addFile(m, d, f, r)) => HasEmptyDir(m)
<1> DEFINE F == FilesIn(m, d)
           G == Put(F, f, r)
           A == Put(m, d, G)
<1>1. A = addFile(m, d, f, r)
  BY DEF addFile
<1>2. F \in FileSets /\ DOMAIN F \subseteq Names
  <2>1. NoFiles \in [{} -> Reals] /\ {} \in SUBSET Names
    BY DEF NoFiles
  <2>2. NoFiles \in FileSets
    BY <2>1 DEF FileSets
  <2>3. F \in FileSets
    BY <2>2, MappingParts DEF FilesIn
  <2> QED
    BY <2>3 DEF FileSets
<1>3. /\ DOMAIN G = DOMAIN F \cup {f} /\ G[f] = r
      /\ \A x \in DOMAIN F : x # f => G[x] = F[x]
  BY DEF Put
<1>4. G \in FileSets
  <2>1. F \in [DOMAIN F -> Reals]
    BY <1>2 DEF FileSets
  <2>2. G \in [DOMAIN F \cup {f} -> Reals]
    BY <2>1 DEF Put
  <2>3. DOMAIN F \cup {f} \in SUBSET Names
    BY <1>2
  <2> HIDE DEF F, G
  <2> QED
    BY <2>2, <2>3 DEF FileSets
<1> HIDE DEF F, G
<1>5. /\ DOMAIN A = DOMAIN m \cup {d} /\ A[d] = G
      /\ \A x \in DOMAIN m : x # d => A[x] = m[x]
  BY DEF Put
<1>6. A \in Mapping
  <2>1. DOMAIN m \cup {d} \in SUBSET Names
    BY MappingParts
  <2>2. A \in [DOMAIN m \cup {d} -> FileSets]
    <3>1. \A x \in DOMAIN m : m[x] \in FileSets
      BY MappingParts
    <3> QED
      BY <3>1, <1>4 DEF Put
  <2> HIDE DEF A
  <2> QED
    BY <2>1, <2>2 DEF Mapping
<1> HIDE DEF A
<1>7. \A y : y \in DOMAIN F <=> Has(m, d, y)
  BY InFilesIn DEF F
<1>8. \A y : Has(m, d, y) => F[y] = m[d][y]
  BY DEF F, FilesIn, Has
<1>9. \A x, y : Has(A, x, y) <=> Has(m, x, y) \/ (x = d /\ y = f)
  <2> SUFFICES ASSUME NEW x, NEW y PROVE Has(A, x, y) <=> Has(m, x, y) \/ (x = d /\ y = f)
    OBVIOUS
  <2>1. CASE x = d
    BY <2>1, <1>3, <1>5, <1>7 DEF Has
  <2>2. CASE x # d
    BY <2>2, <1>5 DEF Has
  <2> QED
    BY <2>1, <2>2
<1>10. \A x, y : Has(m, x, y) /\ ~(x = d /\ y = f) => A[x][y] = m[x][y]
  <2> SUFFICES ASSUME NEW x, NEW y, Has(m, x, y), ~(x = d /\ y = f) PROVE A[x][y] = m[x][y]
    OBVIOUS
  <2>1. CASE x = d
    BY <2>1, <1>3, <1>5, <1>7, <1>8
  <2>2. CASE x # d
    BY <2>2, <1>5 DEF Has
  <2> QED
    BY <2>1, <2>2
<1>11. HasEmptyDir(A) => HasEmptyDir(m)
  <2> SUFFICES ASSUME NEW x \in DOMAIN A, DOMAIN A[x] = {} PROVE HasEmptyDir(m)
    BY DEF HasEmptyDir
  <2>1. x # d
    BY <1>3, <1>5
  <2> QED
    BY <2>1, <1>5 DEF HasEmptyDir
<1>12. A[d][f] = r
  BY <1>3, <1>5
<1> QED
  BY <1>1, <1>6, <1>9, <1>10, <1>11, <1>12

\* What has been read in full is what was sent, but for directories without files.
LEMMA ReadInFull ==
  ASSUME NEW S, NEW dir, NEW n \in Nat, NEW g, NEW gv, Means(S, dir, n, g), Means(S, dir, n, gv),
         ~HasEmptyDir(g), ~HasEmptyDir(gv)
  PROVE  SameFiles(g, gv)
<1>1. ASSUME NEW a, NEW b, Means(S, dir, n, a), Means(S, dir, n, b), NEW d, NEW f, Has(a, d, f)
      PROVE  Has(b, d, f)
  <2>1. LastWord(S, dir, n, d, f, a[d][f])
    BY <1>1 DEF Means, Has
  <2>2. PICK i \in 1..n : FileAt(S, dir, i, d, f)
    BY <2>1 DEF LastWord
  <2> QED
    BY <1>1, <2>2 DEF Means, FileAt
<1>2. \A d, f : Has(g, d, f) <=> Has(gv, d, f)
  BY <1>1
<1>3. DOMAIN g = DOMAIN gv
  <2>1. ASSUME NEW a, ~HasEmptyDir(a) PROVE \A d : d \in DOMAIN a <=> \E f : Has(a, d, f)
    BY <2>1 DEF HasEmptyDir, Has
  <2>2. \A d : d \in DOMAIN g <=> d \in DOMAIN gv
    BY <2>1, <1>2
  <2>3. \A d : d \in DOMAIN g => d \in DOMAIN gv
    BY <2>2
  <2> QED
    BY <2>2
<1>4. ASSUME NEW d \in DOMAIN g PROVE DOMAIN g[d] = DOMAIN gv[d]
  BY <1>2, <1>3 DEF Has
<1>5. ASSUME NEW d \in DOMAIN g, NEW f \in DOMAIN g[d] PROVE g[d][f] = gv[d][f]
  <2>1. d \in DOMAIN gv /\ f \in DOMAIN gv[d]
    BY <1>3, <1>4
  <2>2. PICK i \in 1..n : /\ FileAt(S, dir, i, d, f) /\ S[i].real = g[d][f]
                          /\ \A h \in (i + 1)..n : ~FileAt(S, dir, h, d, f)
    BY DEF Means, LastWord
  <2>3. PICK j \in 1..n : /\ FileAt(S, dir, j, d, f) /\ S[j].real = gv[d][f]
                          /\ \A h \in (j + 1)..n : ~FileAt(S, dir, h, d, f)
    BY <2>1 DEF Means, LastWord
  <2>4. ~(i < j) /\ ~(j < i)
    <3>1. i < j => j \in (i + 1)..n
      OBVIOUS
    <3>2. j < i => i \in (j + 1)..n
      OBVIOUS
    <3> QED
      BY <3>1, <3>2, <2>2, <2>3
  <2>5. i = j
    BY <2>4
  <2> QED
    BY <2>2, <2>3, <2>5
<1> QED
  BY <1>3, <1>4, <1>5 DEF SameFiles

\* A transfer that begins.
LEMMA TransferBegins ==
  ASSUME NEW ms \in Seq(Mapping), Len(ms) = 1 \/ \A i \in 1..Len(ms) : ~HasEmptyDir(ms[i]),
         NEW r, r.left = 0
  PROVE  PipeOf("entry", <<>>, writeMappings(ms), r, Empty, Merge(ms)) /\ writeMappings(ms) \in Seq(Message)
<1> DEFINE full == \A i \in 1..Len(ms) : ~HasEmptyDir(ms[i])
           o == writeMappings(ms)
           p == <<>>
<1>1. PICK S : o = Append(S, EndEntry) /\ Sends(S, Merge(ms), full)
  BY MapsSent DEF EndEntry
<1>2. PICK left, dir : Walk(S, left, dir) /\ Means(S, dir, Len(S), Merge(ms)) /\ (full => Full(S))
  BY <1>1 DEF Sends
<1>3. S \in Seq(Entry) /\ Len(S) \in Nat /\ left[0] = 0
  BY <1>2 DEF Walk
<1>4. o \in Seq(Message) /\ Len(o) = Len(S) + 1 /\ \A i \in 1..Len(o) : o[i] = Sent(S, i)
  <2>1. S \in Seq(Message) /\ EndEntry \in Message
    BY <1>3 DEF Message
  <2>2. \A i \in 1..(Len(S) + 1) : Append(S, EndEntry)[i] = IF i = Len(S) + 1 THEN EndEntry ELSE S[i]
    BY <1>3, <2>1
  <2>3. Len(Append(S, EndEntry)) = Len(S) + 1 /\ Append(S, EndEntry) \in Seq(Message)
    BY <2>1
  <2> QED
    BY <1>1, <2>2, <2>3 DEF Sent
<1>5. Full(S) \/ HasEmptyDir(Merge(ms))
  <2>1. CASE full
    BY <2>1, <1>2
  <2>2. CASE ~full
    <3>1. Len(ms) = 1 /\ 1 \in Nat
      BY <2>2
    <3>2. HasEmptyDir(ms[1])
      BY <2>2, <3>1
    <3> QED
      BY <3>1, <3>2, MergeEmpty
  <2> QED
    BY <2>1, <2>2
<1>6. Means(S, dir, 0, Empty) /\ ~HasEmptyDir(Empty)
  <2>1. DOMAIN Empty = {}
    BY DEF Empty
  <2> QED
    BY <2>1 DEF Means, HasEmptyDir
<1>7. Len(p) = 0
  OBVIOUS
<1> HIDE DEF o, p, full
<1>8. Transferring(S, left, dir, 0, p, o, r, Empty, Merge(ms))
  <2>1. \A i \in 1..Len(o) : o[i] = Sent(S, 0 + Len(p) + i)
    BY <1>3, <1>4, <1>7
  <2>2. \A i \in 1..Len(p) : p[i] = Sent(S, 0 + i)
    BY <1>7
  <2> QED
    BY <2>1, <2>2, <1>2, <1>3, <1>4, <1>5, <1>6, <1>7 DEF Transferring
<1>9. Transfers(p, o, r, Empty, Merge(ms))
  BY <1>8 DEF Transfers
<1>10. PipeOf("entry", p, o, r, Empty, Merge(ms))
  BY <1>6, <1>7, <1>9, MapsAssumption DEF PipeOf, Late
<1> QED
  BY <1>4, <1>10 DEF o, p

\* writeMappings goes on.
LEMMA TransferWrites ==
  ASSUME NEW kd \in Early, NEW p \in Seq(Message), NEW o \in Seq(Message), NEW r, NEW g, NEW gv,
         PipeOf(kd, p, o, r, g, gv), o # <<>>, Len(p) < PipeSize
  PROVE  PipeOf(kd, Append(p, Head(o)), Tail(o), r, g, gv)
<1> DEFINE P == Append(p, Head(o))
           O == Tail(o)
<1>1. PICK S, left, dir, n : Transferring(S, left, dir, n, p, o, r, g, gv)
  BY DEF PipeOf, Transfers
<1>2. Len(p) \in Nat /\ Len(o) \in Nat /\ Len(o) >= 1
  OBVIOUS
<1>3. /\ Len(P) = Len(p) + 1 /\ Len(O) = Len(o) - 1
      /\ \A i \in 1..Len(p) : P[i] = p[i]
      /\ P[Len(p) + 1] = o[1]
      /\ \A i \in 1..(Len(o) - 1) : O[i] = o[i + 1]
  OBVIOUS
<1> HIDE DEF P, O
<1>4. n \in Nat /\ Len(S) \in Nat
  BY <1>1 DEF Transferring, Walk
<1>5. ASSUME NEW i \in 1..Len(P) PROVE P[i] = Sent(S, n + i)
  <2>1. CASE i \in 1..Len(p)
    BY <2>1, <1>1, <1>3 DEF Transferring
  <2>2. CASE i \notin 1..Len(p)
    <3>1. i = Len(p) + 1 /\ 1 \in 1..Len(o)
      BY <2>2, <1>2, <1>3
    <3>2. o[1] = Sent(S, n + Len(p) + 1)
      BY <3>1, <1>1 DEF Transferring
    <3>3. n + Len(p) + 1 = n + i
      BY <3>1, <1>2, <1>4
    <3> QED
      BY <3>1, <3>2, <3>3, <1>3
  <2> QED
    BY <2>1, <2>2
<1>6. ASSUME NEW i \in 1..Len(O) PROVE O[i] = Sent(S, n + Len(P) + i)
  <2>0. Len(P) = Len(p) + 1 /\ Len(O) = Len(o) - 1
    BY <1>3
  <2>1. i \in 1..(Len(o) - 1) /\ i + 1 \in 1..Len(o) /\ n + Len(p) + (i + 1) = n + Len(P) + i
    BY <2>0, <1>2, <1>4
  <2>2. o[i + 1] = Sent(S, n + Len(p) + (i + 1))
    BY <2>1, <1>1 DEF Transferring
  <2> QED
    BY <2>1, <2>2, <1>3
<1>7. n + Len(P) + Len(O) = Len(S) + 1
  BY <1>1, <1>2, <1>3, <1>4 DEF Transferring
<1>8. Transferring(S, left, dir, n, P, O, r, g, gv)
  BY <1>1, <1>5, <1>6, <1>7 DEF Transferring
<1>9. Transfers(P, O, r, g, gv)
  BY <1>8 DEF Transfers
<1>10. Len(P) <= PipeSize
  BY <1>2, <1>3, MapsAssumption
<1> QED
  BY <1>9, <1>10 DEF PipeOf, Early, Late, P, O

\* What is ahead of Initialize: the first message of the pipe, and the others.
Ahead(S, left, n, p, o) ==
  /\ Len(S) \in Nat /\ n \in 0..Len(S) /\ left[n] \in Nat
  /\ Head(p).op = "end" => n = Len(S)
  /\ Head(p).op # "end" => n + 1 \in 1..Len(S) /\ Head(p) = S[n + 1] /\ Head(p) \in Entry
  /\ Head(p).op = "file" <=> left[n] > 0
  /\ \A i \in 1..Len(Tail(p)) : Tail(p)[i] = Sent(S, (n + 1) + i)
  /\ \A i \in 1..Len(o) : o[i] = Sent(S, (n + 1) + Len(Tail(p)) + i)
  /\ (n + 1) + Len(Tail(p)) + Len(o) = Len(S) + 1
\* It finds what it expects.
LEMMA TransferHead ==
  ASSUME NEW p \in Seq(Message), NEW o \in Seq(Message), NEW r, NEW g, NEW gv, p # <<>>,
         NEW S, NEW left, NEW dir, NEW n, Transferring(S, left, dir, n, p, o, r, g, gv)
  PROVE  Ahead(S, left, n, p, o)
<1> DEFINE P == Tail(p)
           e == Head(p)
<1>1. Len(p) \in Nat /\ Len(o) \in Nat /\ 1 \in 1..Len(p)
  OBVIOUS
<1>2. Len(P) = Len(p) - 1 /\ e = p[1] /\ \A i \in 1..(Len(p) - 1) : P[i] = p[i + 1]
  OBVIOUS
<1>3. S \in Seq(Entry) /\ Len(S) \in Nat /\ n \in Nat /\ n <= Len(S) /\ left \in [0..Len(S) -> Nat]
  BY DEF Transferring, Walk
<1> HIDE DEF P, e
<1>4. e = Sent(S, n + 1)
  BY <1>1, <1>2 DEF Transferring
<1>5. ASSUME NEW x \in Entry PROVE x.op \in {"dir", "file"} /\ x.op # "end"
  BY <1>5 DEF Entry, DirEntry, FileEntry
<1>6. /\ \A i \in 1..Len(P) : P[i] = Sent(S, (n + 1) + i)
      /\ \A i \in 1..Len(o) : o[i] = Sent(S, (n + 1) + Len(P) + i)
      /\ (n + 1) + Len(P) + Len(o) = Len(S) + 1
  <2>1. ASSUME NEW i \in 1..Len(P) PROVE P[i] = Sent(S, (n + 1) + i)
    <3>1. i \in 1..(Len(p) - 1) /\ i + 1 \in 1..Len(p) /\ n + (i + 1) = (n + 1) + i
      BY <1>1, <1>2, <1>3
    <3>2. p[i + 1] = Sent(S, n + (i + 1))
      BY <3>1 DEF Transferring
    <3> QED
      BY <3>1, <3>2, <1>2
  <2>2. n + Len(p) = (n + 1) + Len(P)
    BY <1>1, <1>2, <1>3
  <2> QED
    BY <2>1, <2>2 DEF Transferring
<1>7. CASE n = Len(S)
  <2>1. e.op = "end"
    BY <1>7, <1>3, <1>4 DEF Sent, EndEntry
  <2>2. left[n] = 0
    BY <1>7 DEF Transferring, Walk
  <2> QED
    BY <2>1, <2>2, <1>3, <1>6, <1>7 DEF P, e, Ahead
<1>8. CASE n # Len(S)
  <2>1. n + 1 \in 1..Len(S) /\ n + 1 # Len(S) + 1
    BY <1>3, <1>8
  <2>2. e = S[n + 1] /\ e \in Entry
    BY <2>1, <1>3, <1>4 DEF Sent
  <2>3. (n + 1) - 1 = n
    BY <1>3
  <2>4. e.op = "file" <=> left[n] > 0
    <3>1. \/ S[n + 1].op = "dir" /\ left[(n + 1) - 1] = 0
          \/ S[n + 1].op = "file" /\ left[(n + 1) - 1] > 0
      BY <2>1 DEF Transferring, Walk
    <3> QED
      BY <3>1, <2>2, <2>3
  <2>5. e.op # "end" /\ left[n] \in Nat /\ n \in 0..Len(S)
    BY <2>2, <1>3, <1>5
  <2> QED
    BY <2>1, <2>2, <2>4, <2>5, <1>3, <1>6 DEF P, e, Ahead
<1> QED
  BY <1>7, <1>8

\* readDir goes on to the files of a directory.
LEMMA TransferReadsDir ==
  ASSUME NEW p \in Seq(Message), NEW o \in Seq(Message), NEW r \in Reading, NEW g, NEW gv,
         PipeOf("init", p, o, r, g, gv), p # <<>>, Head(p).op = "dir"
  PROVE  /\ [dir |-> Head(p).name, left |-> Head(p).n] \in Reading
         /\ PipeOf("init", Tail(p), o, [dir |-> Head(p).name, left |-> Head(p).n], g, gv)
<1> DEFINE P == Tail(p)
           e == Head(p)
           R == [dir |-> e.name, left |-> e.n]
<1>1. PICK S, left, dir, n : Transferring(S, left, dir, n, p, o, r, g, gv)
  BY DEF PipeOf, Transfers, Early
<1>2. /\ Len(S) \in Nat /\ n \in 0..Len(S) /\ n + 1 \in 1..Len(S) /\ n + 1 \in 0..Len(S)
      /\ e = S[n + 1] /\ e \in Entry
      /\ \A i \in 1..Len(P) : P[i] = Sent(S, (n + 1) + i)
      /\ \A i \in 1..Len(o) : o[i] = Sent(S, (n + 1) + Len(P) + i)
      /\ (n + 1) + Len(P) + Len(o) = Len(S) + 1
  <2>1. Ahead(S, left, n, p, o)
    BY <1>1, TransferHead
  <2> QED
    BY <2>1 DEF Ahead
<1>3. e.name \in Names /\ e.n \in Nat
  BY <1>2 DEF Entry, DirEntry, FileEntry
<1>4. R \in Reading /\ R.dir = e.name /\ R.left = e.n
  BY <1>3 DEF Reading
<1>5. Len(P) <= PipeSize
  <2>1. Len(p) \in Nat /\ Len(P) = Len(p) - 1 /\ Len(p) <= PipeSize
    BY DEF PipeOf
  <2> QED
    BY <2>1, MapsAssumption
<1> HIDE DEF P, e, R
<1>6. left[n + 1] = e.n /\ dir[n + 1] = e.name /\ e.op = "dir"
  <2>1. e.op = "dir"
    BY DEF e
  <2> QED
    BY <2>1, <1>1, <1>2 DEF Transferring, Walk
<1>7. Means(S, dir, n + 1, g)
  <2>1. Means(S, dir, n, g)
    BY <1>1 DEF Transferring
  <2>2. \A i \in 1..(n + 1) : i = n + 1 \/ i \in 1..n
    BY <1>2
  <2>3. \A d, f : ~FileAt(S, dir, n + 1, d, f)
    BY <1>2, <1>6 DEF FileAt
  <2>4. \A i \in 1..(n + 1) : S[i].op = "file" => Has(g, dir[i], S[i].name)
    <3>1. S[n + 1].op # "file"
      BY <1>2, <1>6
    <3> QED
      BY <2>1, <2>2, <3>1 DEF Means
  <2>5. ASSUME NEW d \in DOMAIN g, NEW f \in DOMAIN g[d] PROVE LastWord(S, dir, n + 1, d, f, g[d][f])
    <3>1. PICK i \in 1..n : /\ FileAt(S, dir, i, d, f) /\ S[i].real = g[d][f]
                            /\ \A h \in (i + 1)..n : ~FileAt(S, dir, h, d, f)
      BY <2>1 DEF Means, LastWord
    <3>2. i \in 1..(n + 1) /\ \A h \in (i + 1)..(n + 1) : h = n + 1 \/ h \in (i + 1)..n
      BY <1>2
    <3> QED
      BY <3>1, <3>2, <2>3 DEF LastWord
  <2> QED
    BY <2>4, <2>5 DEF Means
<1>8. Transferring(S, left, dir, n + 1, P, o, R, g, gv)
  BY <1>1, <1>2, <1>3, <1>4, <1>6, <1>7 DEF Transferring
<1>9. Transfers(P, o, R, g, gv)
  BY <1>8 DEF Transfers
<1>10. PipeOf("init", P, o, R, g, gv)
  BY <1>5, <1>9 DEF PipeOf, Early, Late
<1> QED
  BY <1>4, <1>10 DEF P, R, e

\* readMapping adds one file.
LEMMA TransferReadsFile ==
  ASSUME NEW p \in Seq(Message), NEW o \in Seq(Message), NEW r \in Reading, NEW g \in Mapping, NEW gv,
         PipeOf("init", p, o, r, g, gv), p # <<>>, Head(p).op = "file"
  PROVE  /\ [r EXCEPT !.left = @ - 1] \in Reading
         /\ addFile(g, r.dir, Head(p).name, Head(p).real) \in Mapping
         /\ PipeOf("init", Tail(p), o, [r EXCEPT !.left = @ - 1],
                   addFile(g, r.dir, Head(p).name, Head(p).real), gv)
<1> DEFINE P == Tail(p)
           e == Head(p)
           R == [r EXCEPT !.left = @ - 1]
           A == addFile(g, r.dir, e.name, e.real)
<1>1. PICK S, left, dir, n : Transferring(S, left, dir, n, p, o, r, g, gv)
  BY DEF PipeOf, Transfers, Early
<1>2. /\ Len(S) \in Nat /\ n \in 0..Len(S) /\ n + 1 \in 1..Len(S) /\ n + 1 \in 0..Len(S)
      /\ e = S[n + 1] /\ e \in Entry /\ left[n] \in Nat /\ left[n] > 0
      /\ \A i \in 1..Len(P) : P[i] = Sent(S, (n + 1) + i)
      /\ \A i \in 1..Len(o) : o[i] = Sent(S, (n + 1) + Len(P) + i)
      /\ (n + 1) + Len(P) + Len(o) = Len(S) + 1
  <2>1. Ahead(S, left, n, p, o)
    BY <1>1, TransferHead
  <2> QED
    BY <2>1 DEF Ahead
<1>3. e.name \in Names /\ e.real \in Reals
  BY <1>2 DEF Entry, DirEntry, FileEntry
<1>4. r.left = left[n] /\ r.dir = dir[n] /\ r.dir \in Names
  BY <1>1, <1>2 DEF Transferring
<1>5. R \in Reading /\ R.left = r.left - 1 /\ R.dir = r.dir
  <2>1. r.left \in Nat /\ r.left > 0
    BY <1>2, <1>4
  <2> QED
    BY <2>1 DEF Reading
<1>6. Len(P) <= PipeSize
  <2>1. Len(p) \in Nat /\ Len(P) = Len(p) - 1 /\ Len(p) <= PipeSize
    BY DEF PipeOf
  <2> QED
    BY <2>1, MapsAssumption
<1>7. /\ A \in Mapping
      /\ \A x, y : Has(A, x, y) <=> Has(g, x, y) \/ (x = r.dir /\ y = e.name)
      /\ A[r.dir][e.name] = e.real
      /\ \A x, y : Has(g, x, y) /\ ~(x = r.dir /\ y = e.name) => A[x][y] = g[x][y]
      /\ HasEmptyDir(A) => HasEmptyDir(g)
  BY <1>3, <1>4, AddFile
<1>o. e.op = "file"
  OBVIOUS
<1> HIDE DEF P, e, R, A
<1>8. left[n + 1] = left[n] - 1 /\ dir[n + 1] = dir[n]
  <2>1. (n + 1) - 1 = n
    BY <1>2
  <2>2. left[n + 1] = left[(n + 1) - 1] - 1 /\ dir[n + 1] = dir[(n + 1) - 1]
    BY <1>1, <1>2, <1>o DEF Transferring, Walk
  <2> QED
    BY <2>1, <2>2
<1>9. Means(S, dir, n + 1, A)
  <2>1. Means(S, dir, n, g)
    BY <1>1 DEF Transferring
  <2>2. \A i \in 1..(n + 1) : i = n + 1 \/ i \in 1..n
    BY <1>2
  <2>3. \A d, f : FileAt(S, dir, n + 1, d, f) <=> d = r.dir /\ f = e.name
    BY <1>2, <1>4, <1>8, <1>o DEF FileAt
  <2>4. \A i \in 1..(n + 1) : S[i].op = "file" => Has(A, dir[i], S[i].name)
    <3> SUFFICES ASSUME NEW i \in 1..(n + 1), S[i].op = "file" PROVE Has(A, dir[i], S[i].name)
      OBVIOUS
    <3>1. CASE i = n + 1
      BY <3>1, <1>2, <1>4, <1>7, <1>8
    <3>2. CASE i \in 1..n
      <4>1. Has(g, dir[i], S[i].name)
        BY <3>2, <2>1 DEF Means
      <4> QED
        BY <4>1, <1>7
    <3> QED
      BY <2>2, <3>1, <3>2
  <2>5. ASSUME NEW d \in DOMAIN A, NEW f \in DOMAIN A[d] PROVE LastWord(S, dir, n + 1, d, f, A[d][f])
    <3>1. CASE d = r.dir /\ f = e.name
      <4>1. FileAt(S, dir, n + 1, d, f) /\ S[n + 1].real = A[d][f]
        BY <3>1, <2>3, <1>2, <1>7
      <4>2. n + 1 \in 1..(n + 1) /\ ((n + 1) + 1)..(n + 1) = {}
        BY <1>2
      <4> QED
        BY <4>1, <4>2 DEF LastWord
    <3>2. CASE ~(d = r.dir /\ f = e.name)
      <4>1. Has(g, d, f) /\ A[d][f] = g[d][f]
        BY <3>2, <1>7 DEF Has
      <4>2. PICK i \in 1..n : /\ FileAt(S, dir, i, d, f) /\ S[i].real = g[d][f]
                              /\ \A h \in (i + 1)..n : ~FileAt(S, dir, h, d, f)
        BY <4>1, <2>1 DEF Means, LastWord, Has
      <4>3. i \in 1..(n + 1) /\ \A h \in (i + 1)..(n + 1) : h = n + 1 \/ h \in (i + 1)..n
        BY <1>2
      <4> QED
        BY <3>2, <4>1, <4>2, <4>3, <2>3 DEF LastWord
    <3> QED
      BY <3>1, <3>2
  <2> QED
    BY <2>4, <2>5 DEF Means
<1>10. Transferring(S, left, dir, n + 1, P, o, R, A, gv)
  <2>1. R.left = left[n + 1] /\ (left[n + 1] > 0 => R.dir = dir[n + 1] /\ R.dir \in Names)
    BY <1>4, <1>5, <1>8
  <2> QED
    BY <2>1, <1>1, <1>2, <1>9 DEF Transferring
<1>11. Transfers(P, o, R, A, gv)
  BY <1>10 DEF Transfers
<1>12. PipeOf("init", P, o, R, A, gv)
  BY <1>6, <1>7, <1>11 DEF PipeOf, Early, Late
<1> QED
  BY <1>5, <1>7, <1>12 DEF P, R, A, e

\* At the end, or at an emptied directory, Initialize is done.
LEMMA TransferEnds ==
  ASSUME NEW p \in Seq(Message), NEW o \in Seq(Message), NEW r, NEW g, NEW gv,
         PipeOf("init", p, o, r, g, gv), p # <<>>,
         Head(p).op = "end" \/ (Head(p).op = "dir" /\ Head(p).n = 0)
  PROVE  PipeOf("hooked", Tail(p), o, r, g, gv)
<1>1. PICK S, left, dir, n : Transferring(S, left, dir, n, p, o, r, g, gv)
  BY DEF PipeOf, Transfers, Early
<1>2. /\ Len(S) \in Nat /\ n \in 0..Len(S) 
      /\ Head(p).op = "end" => n = Len(S)
      /\ Head(p).op # "end" => n + 1 \in 1..Len(S) /\ Head(p) = S[n + 1]
  <2>1. Ahead(S, left, n, p, o)
    BY <1>1, TransferHead
  <2> QED
    BY <2>1 DEF Ahead
<1>3. Len(Tail(p)) <= PipeSize
  <2>1. Len(p) \in Nat /\ Len(Tail(p)) = Len(p) - 1 /\ Len(p) <= PipeSize
    BY DEF PipeOf
  <2> QED
    BY <2>1, MapsAssumption
<1>4. ASSUME ~HasEmptyDir(gv) PROVE SameFiles(g, gv)
  <2>1. Full(S)
    BY <1>1, <1>4 DEF Transferring
  <2>2. Head(p).op = "end"
    BY <2>1, <1>2 DEF Full
  <2>3. Means(S, dir, Len(S), g) /\ Means(S, dir, Len(S), gv) /\ ~HasEmptyDir(g)
    BY <2>2, <1>1, <1>2 DEF Transferring, PipeOf
  <2> QED
    BY <2>3, <1>2, <1>4, ReadInFull
<1> QED
  BY <1>3, <1>4 DEF PipeOf, Early, Late

\* The kid gets on, or ends.
LEMMA PipeMoves ==
  ASSUME NEW kd, NEW to, NEW p, NEW o, NEW r, NEW g, NEW gv, PipeOf(kd, p, o, r, g, gv),
         to = "ended" \/ (kd \in Early /\ to \in Early) \/ (kd \in Late /\ to \in Late)
  PROVE  PipeOf(to, p, o, r, g, gv)
BY DEF PipeOf, Early, Late

\* Initialize expects what comes.
LEMMA PipeInStep ==
  ASSUME NEW p \in Seq(Message), NEW o \in Seq(Message), NEW r, NEW g, NEW gv,
         PipeOf("init", p, o, r, g, gv), p # <<>>
  PROVE  Head(p).op = "file" <=> r.left > 0
<1>1. PICK S, left, dir, n : Transferring(S, left, dir, n, p, o, r, g, gv)
  BY DEF PipeOf, Transfers, Early
<1>2. Head(p).op = "file" <=> left[n] > 0
  <2>1. Ahead(S, left, n, p, o)
    BY <1>1, TransferHead
  <2> QED
    BY <2>1 DEF Ahead
<1> QED
  BY <1>1, <1>2 DEF Transferring

(***************************************************************************)
(* The maps of the server and of the processes.                            *)
(***************************************************************************)

\* What the map m of the sessions prep has.
MapInv(m, fm, prep) ==
  /\ ~HasEmptyDir(fm)
  /\ \A d, f : Has(fm, d, f) =>
       \E s \in prep : \E q \in FilesOf[s][m] :
         Norm[q].dir = d /\ Norm[q].file = f /\ fm[d][f] = <<s, f>>
  /\ \A s \in prep : \A q \in FilesOf[s][m] : Has(fm, Norm[q].dir, Norm[q].file)

\* The files of job j in the map g it is given.
OwnGiven(j, g, prep) ==
  \A p \in Spelled, n \in DOMAIN Composition[j] : Brings(j, Composition[j][n], p) =>
    /\ Norm[p].asDir \notin DOMAIN g
    /\ \E i \in DOMAIN Composition[j], s \in prep :
         /\ n <= i /\ Brings(s, Composition[j][i], p)
         /\ Has(g, Norm[p].dir, Norm[p].file) /\ g[Norm[p].dir][Norm[p].file] = <<s, Norm[p].file>>

\* The parts of a path are names.
LEMMA PathNames == ASSUME NEW p \in Spelled PROVE Norm[p].dir \in Names /\ Norm[p].file \in Names
BY DEF Names

\* A map keeps its type when a file is unmapped.
LEMMA RemoveFile ==
  ASSUME NEW m \in Mapping, NEW d \in Names, NEW f PROVE removeFile(m, d, f) \in Mapping
<1> DEFINE F == FilesIn(m, d)
           G == [x \in DOMAIN F \ {f} |-> F[x]]
           A == Put(m, d, G)
<1>1. A = removeFile(m, d, f)
  BY DEF removeFile
<1>2. F \in FileSets
  <2>1. NoFiles \in [{} -> Reals] /\ {} \in SUBSET Names
    BY DEF NoFiles
  <2>2. NoFiles \in FileSets
    BY <2>1 DEF FileSets
  <2> QED
    BY <2>2, MappingParts DEF FilesIn
<1>3. G \in FileSets
  <2>1. F \in [DOMAIN F -> Reals] /\ DOMAIN F \subseteq Names
    BY <1>2 DEF FileSets
  <2>2. G \in [DOMAIN F \ {f} -> Reals] /\ DOMAIN F \ {f} \in SUBSET Names
    BY <2>1
  <2> HIDE DEF F, G
  <2> QED
    BY <2>2 DEF FileSets
<1> HIDE DEF F, G
<1>4. DOMAIN m \cup {d} \in SUBSET Names
  BY MappingParts
<1>5. A \in [DOMAIN m \cup {d} -> FileSets]
  <2>1. \A x \in DOMAIN m : m[x] \in FileSets
    BY MappingParts
  <2> QED
    BY <2>1, <1>3 DEF Put
<1> HIDE DEF A
<1>6. A \in Mapping
  BY <1>4, <1>5 DEF Mapping
<1> QED
  BY <1>1, <1>6

\* The first maps are empty.
LEMMA EmptyMap == Empty \in Mapping /\ ~HasEmptyDir(Empty) /\ \A d, f : ~Has(Empty, d, f)
<1>1. DOMAIN Empty = {} /\ Empty \in [{} -> FileSets] /\ {} \in SUBSET Names
  BY DEF Empty
<1>2. Empty \in Mapping
  <2> HIDE DEF Empty
  <2> QED
    BY <1>1 DEF Mapping
<1> QED
  BY <1>1, <1>2 DEF HasEmptyDir, Has

\* A session maps its files.
LEMMA MappedKeeps ==
  ASSUME NEW m \in Maps, NEW j \in Jobs, maps[m] \in Mapping, prepared \subseteq Jobs,
         MapInv(m, maps[m], prepared)
  PROVE  /\ Mapped(m, j, FilesOf[j][m]) \in Mapping
         /\ MapInv(m, Mapped(m, j, FilesOf[j][m]), prepared \cup {j})
<1> DEFINE paths == FilesOf[j][m]
           New == IF m = Shared THEN {p \in paths : \A i \in prepared : p \notin FilesOf[i][m]} ELSE paths
           NewIn(d) == {Norm[p].file : p \in {q \in New : Norm[q].dir = d}}
           Fs(d) == DOMAIN FilesIn(maps[m], d) \cup NewIn(d)
           A(d) == [f \in Fs(d) |-> IF f \in NewIn(d) THEN <<j, f>> ELSE maps[m][d][f]]
           Ds == DOMAIN maps[m] \cup {Norm[p].dir : p \in New}
           M == [d \in Ds |-> A(d)]
<1>1. M = Mapped(m, j, FilesOf[j][m])
  BY DEF Mapped
<1>2. paths \subseteq Spelled /\ New \subseteq paths
  BY FilesAssumption
<1>3. \A p \in New : p \in paths /\ p \in Spelled /\ Norm[p].dir \in Names /\ Norm[p].file \in Names
  BY <1>2, PathNames
<1>4. \A p \in paths : p \in New \/ \E i \in prepared : p \in FilesOf[i][m]
  OBVIOUS
<1> HIDE DEF New
<1>5. \A d, f : f \in NewIn(d) <=> \E p \in New : Norm[p].dir = d /\ Norm[p].file = f
  OBVIOUS
<1>6. \A d, f : f \in NewIn(d) => d \in Ds /\ d \in Names /\ f \in Names
  BY <1>3
<1> HIDE DEF NewIn
<1>7. \A d, f : f \in Fs(d) <=> Has(maps[m], d, f) \/ f \in NewIn(d)
  BY InFilesIn
<1> HIDE DEF Fs
<1>8. Ds \subseteq Names
  BY <1>3, MappingParts
<1>9. \A d : Fs(d) \subseteq Names
  BY <1>6, <1>7, MappingParts DEF Has
<1>10. ASSUME NEW d PROVE A(d) \in FileSets
  <2>1. ASSUME NEW f \in Fs(d) PROVE (IF f \in NewIn(d) THEN <<j, f>> ELSE maps[m][d][f]) \in Reals
    <3>1. CASE f \in NewIn(d)
      BY <3>1, <1>6 DEF Reals
    <3>2. CASE f \notin NewIn(d)
      <4>1. Has(maps[m], d, f)
        BY <3>2, <1>7
      <4>2. maps[m][d] \in FileSets
        BY <4>1, MappingParts DEF Has
      <4>3. maps[m][d] \in [DOMAIN maps[m][d] -> Reals]
        BY <4>2 DEF FileSets
      <4> QED
        BY <3>2, <4>1, <4>3 DEF Has
    <3> QED
      BY <3>1, <3>2
  <2>2. A(d) \in [Fs(d) -> Reals]
    BY <2>1
  <2> HIDE DEF A
  <2> QED
    BY <2>2, <1>9 DEF FileSets
<1>11. \A d : DOMAIN A(d) = Fs(d)
  OBVIOUS
<1>12. \A d, f : f \in Fs(d) => A(d)[f] = IF f \in NewIn(d) THEN <<j, f>> ELSE maps[m][d][f]
  OBVIOUS
<1> HIDE DEF A
<1>13. M \in Mapping
  <2>1. M \in [Ds -> FileSets]
    BY <1>10
  <2> HIDE DEF M, Ds
  <2> QED
    BY <2>1, <1>8 DEF Mapping
<1>14. \A d \in Ds : M[d] = A(d)
  OBVIOUS
<1>15. \A d, f : Has(M, d, f) <=> Has(maps[m], d, f) \/ f \in NewIn(d)
  <2>1. \A d, f : Has(maps[m], d, f) => d \in Ds
    BY DEF Has
  <2>2. DOMAIN M = Ds
    OBVIOUS
  <2> HIDE DEF M, Ds
  <2> QED
    BY <2>1, <2>2, <1>6, <1>7, <1>11, <1>14 DEF Has
<1>16. ~HasEmptyDir(M)
  <2> SUFFICES ASSUME NEW d \in Ds, DOMAIN M[d] = {} PROVE FALSE
    BY DEF HasEmptyDir
  <2>1. Fs(d) = {}
    BY <1>11, <1>14
  <2>2. d \notin DOMAIN maps[m]
    BY <2>1, <1>7 DEF MapInv, HasEmptyDir, Has
  <2>3. PICK p \in New : Norm[p].dir = d
    BY <2>2
  <2>4. Norm[p].file \in NewIn(d)
    BY <2>3, <1>5
  <2> QED
    BY <2>1, <2>4, <1>7
<1>17. \A d, f : Has(M, d, f) => M[d][f] = IF f \in NewIn(d) THEN <<j, f>> ELSE maps[m][d][f]
  <2> SUFFICES ASSUME NEW d, NEW f, Has(M, d, f)
               PROVE  M[d][f] = IF f \in NewIn(d) THEN <<j, f>> ELSE maps[m][d][f]
    OBVIOUS
  <2>1. d \in Ds
    BY DEF Has
  <2>2. f \in Fs(d)
    BY <2>1, <1>7, <1>15
  <2> QED
    BY <2>1, <2>2, <1>12, <1>14
<1> HIDE DEF M, Ds
<1>18. ASSUME NEW d, NEW f, Has(M, d, f)
       PROVE  \E s \in prepared \cup {j} : \E q \in FilesOf[s][m] :
                Norm[q].dir = d /\ Norm[q].file = f /\ M[d][f] = <<s, f>>
  <2>1. CASE f \in NewIn(d)
    <3>1. PICK p \in New : Norm[p].dir = d /\ Norm[p].file = f
      BY <2>1, <1>5
    <3>2. p \in FilesOf[j][m] /\ M[d][f] = <<j, f>>
      BY <2>1, <1>3, <1>17, <1>18
    <3> QED
      BY <3>1, <3>2
  <2>2. CASE f \notin NewIn(d)
    <3>1. Has(maps[m], d, f) /\ M[d][f] = maps[m][d][f]
      BY <2>2, <1>15, <1>17, <1>18
    <3>2. PICK s \in prepared : \E q \in FilesOf[s][m] :
            Norm[q].dir = d /\ Norm[q].file = f /\ maps[m][d][f] = <<s, f>>
      BY <3>1 DEF MapInv
    <3> QED
      BY <3>1, <3>2
  <2> QED
    BY <2>1, <2>2
<1>19. ASSUME NEW s \in prepared \cup {j}, NEW q \in FilesOf[s][m] PROVE Has(M, Norm[q].dir, Norm[q].file)
  <2>1. CASE s \in prepared
    BY <2>1, <1>15 DEF MapInv
  <2>2. CASE s \notin prepared
    <3>1. q \in paths
      BY <2>2
    <3>2. CASE q \in New
      BY <3>2, <1>5, <1>15
    <3>3. CASE q \notin New
      BY <3>1, <3>3, <1>4, <1>15 DEF MapInv
    <3> QED
      BY <3>2, <3>3
  <2> QED
    BY <2>1, <2>2
<1>20. MapInv(m, M, prepared \cup {j})
  BY <1>16, <1>18, <1>19 DEF MapInv
<1> QED
  BY <1>1, <1>13, <1>20

\* What a job is given when its maps are put together.
LEMMA OwnAtStart ==
  ASSUME NEW j \in prepared, prepared \subseteq Jobs, maps \in [Maps -> Mapping],
         \A m \in Maps : MapInv(m, maps[m], prepared)
  PROVE  /\ MapsOf(j) \in Seq(Mapping) /\ \A i \in 1..Len(MapsOf(j)) : ~HasEmptyDir(MapsOf(j)[i])
         /\ ~HasEmptyDir(Merge(MapsOf(j))) /\ OwnGiven(j, Merge(MapsOf(j)), prepared)
<1> DEFINE c == Composition[j]
           N == Len(c)
           ms == MapsOf(j)
           G == Merge(ms)
<1>1. j \in Jobs /\ c \in Seq(Maps) /\ N \in Nat /\ DOMAIN c = 1..N
  BY FilesAssumption
<1>2. ms = [i \in 1..N |-> maps[c[i]]]
  BY <1>1 DEF MapsOf
<1> HIDE DEF c, N, ms
<1>3. \A i \in 1..N : c[i] \in Maps /\ ms[i] = maps[c[i]] /\ ms[i] \in Mapping
  BY <1>1, <1>2
<1>4. ms \in Seq(Mapping) /\ Len(ms) = N
  <2>1. ms \in [1..N -> Mapping]
    BY <1>2, <1>3
  <2> QED
    BY <2>1, <1>1
<1>5. \A i \in 1..N : MapInv(c[i], ms[i], prepared) /\ ~HasEmptyDir(ms[i])
  BY <1>3 DEF MapInv
<1>6. N = Len(ms)
  BY <1>4
<1>7. ~HasEmptyDir(G)
  BY <1>1, <1>5, <1>6, MergeEmpty
<1>8. /\ DOMAIN G = UNION {DOMAIN ms[i] : i \in 1..N}
      /\ \A d, f : Has(G, d, f) <=> \E i \in 1..N : Has(ms[i], d, f)
      /\ \A d, f : Has(G, d, f) => Merged(ms, N, d, f)
  BY <1>1, <1>6, MergeHas
<1>9. ASSUME NEW p \in Spelled, NEW n \in 1..N, Brings(j, c[n], p)
      PROVE  /\ Norm[p].asDir \notin DOMAIN G
             /\ \E i \in 1..N, s \in prepared :
                  /\ n <= i /\ Brings(s, c[i], p)
                  /\ Has(G, Norm[p].dir, Norm[p].file) /\ G[Norm[p].dir][Norm[p].file] = <<s, Norm[p].file>>
  <2> DEFINE d == Norm[p].dir
             f == Norm[p].file
  <2>1. PICK q \in FilesOf[j][c[n]] : Norm[q].dir = d /\ Norm[q].file = f
    BY <1>9 DEF Brings
  <2>2. Has(ms[n], d, f)
    BY <2>1, <1>5 DEF MapInv
  <2>3. Has(G, d, f)
    BY <2>2, <1>8
  <2> HIDE DEF d, f, G
  <2>4. PICK x \in 1..N : /\ Has(ms[x], d, f) /\ G[d][f] = ms[x][d][f]
                          /\ \A y \in (x + 1)..N : ~Has(ms[y], d, f)
    BY <2>3, <1>8 DEF Merged, G
  <2>5. n <= x
    <3>1. ~(n <= x) => n \in (x + 1)..N
      BY <1>1
    <3> QED
      BY <3>1, <2>2, <2>4
  <2>6. PICK s \in prepared : \E h \in FilesOf[s][c[x]] :
          Norm[h].dir = d /\ Norm[h].file = f /\ ms[x][d][f] = <<s, f>>
    BY <2>4, <1>5 DEF MapInv
  <2>7. Brings(s, c[x], p)
    BY <2>6 DEF Brings, d, f
  <2>8. Norm[p].asDir \notin DOMAIN G
    <3> SUFFICES ASSUME Norm[p].asDir \in DOMAIN G PROVE FALSE
      OBVIOUS
    <3>1. PICK y \in 1..N : Norm[p].asDir \in DOMAIN ms[y]
      BY <1>8 DEF G
    <3>2. PICK e : Has(ms[y], Norm[p].asDir, e)
      BY <3>1, <1>5 DEF HasEmptyDir, Has
    <3>3. PICK t \in prepared : \E h \in FilesOf[t][c[y]] :
            Norm[h].dir = Norm[p].asDir /\ Norm[h].file = e /\ ms[y][Norm[p].asDir][e] = <<t, e>>
      BY <3>2, <1>5 DEF MapInv
    <3>4. PICK h \in FilesOf[t][c[y]] : Norm[h].dir = Norm[p].asDir
      BY <3>3
    <3>5. t \in Jobs /\ h \in Spelled /\ c[y] \in Maps /\ c[n] \in Maps
      BY <1>3, FilesAssumption
    <3> QED
      BY <3>4, <3>5, <1>1, <1>9, FileOrDirectory
  <2>9. G[d][f] = <<s, f>>
    BY <2>4, <2>6
  <2> QED
    BY <2>3, <2>5, <2>7, <2>8, <2>9 DEF d, f
<1>10. OwnGiven(j, G, prepared)
  <2> HIDE DEF G
  <2> QED
    BY <1>1, <1>9 DEF OwnGiven, c
<1> QED
  BY <1>4, <1>5, <1>7, <1>10 DEF ms

(***************************************************************************)
(* The inductive invariant.                                                *)
(***************************************************************************)

\* Where the creator of a kid, at i, and its main thread, at kd, can be
\* together: nobody asks for a suspended process, so there is no event.
Stage(i, kd, s, a, e) ==
  /\ a = FALSE /\ e = "none"
  /\ \/ i = "none" /\ kd = "none" /\ s = 0
     \/ i = "created" /\ kd = "entry" /\ s = 1
     \/ i = "redirected" /\ kd = "loader" /\ s = 1
     \/ i \in {"local", "written", "returned"} /\ kd \in {"loader", "init", "ended"} \cup Late /\ s = 0
     \/ i = "refused" /\ kd \in {"entry", "loader", "ended"} /\ s = 1

KidInv(k) ==
  /\ Stage(inj[k], kid[k], susp[k], asked[k], event[k])
  /\ PipeOf(kid[k], pipe[k], out[k], reading[k], gmap[k], given[k])
JobInv(j) ==
  /\ (pc[j] = "running" => inj[j] # "none")
  /\ (inj[j] # "none" => ~HasEmptyDir(given[j]) /\ OwnGiven(j, given[j], prepared))

Events == {"none", "clear", "set"}
OverTypes ==
  cpFun \in Jobs \cup {Original} /\ save \in [Jobs -> Jobs \cup {Original}] /\ inside \subseteq Jobs
KidTypes ==
  /\ inj \in [Kids -> InjPlaces] /\ kid \in [Kids -> KidPlaces] /\ susp \in [Kids -> 0..1]
  /\ asked \in [Kids -> BOOLEAN] /\ event \in [Kids -> Events]
  /\ out \in [Kids -> Seq(Message)] /\ pipe \in [Kids -> Seq(Message)]
  /\ reading \in [Kids -> Reading] /\ DOMAIN given = Kids
  /\ gmap \in [Kids \cup {Root} -> Mapping]
ServerTypes ==
  pc \in [Jobs -> Places] /\ maps \in [Maps -> Mapping] /\ prepared \subseteq Jobs /\ OverTypes

\* Every pipe carries what its creator meant to send, every map of the server
\* has what its sessions put there, and every job is given its own files.
MapsIInv ==
  /\ KidTypes /\ ServerTypes
  /\ \A k \in Kids : KidInv(k)
  /\ \A m \in Maps : MapInv(m, maps[m], prepared)
  /\ \A j \in Jobs : JobInv(j)

\* Jobs keep their files when further sessions are prepared.
LEMMA OwnGivenGrows ==
  ASSUME NEW j, NEW g, NEW prep, NEW more, prep \subseteq more, OwnGiven(j, g, prep)
  PROVE  OwnGiven(j, g, more)
BY DEF OwnGiven

\* A step at one kid keeps the invariant if it keeps the kid's part of it.
LEMMA KidChanges ==
  ASSUME MapsIInv, NEW k \in Kids, NEW i \in InjPlaces \ {"none"}, NEW d \in KidPlaces, NEW s \in 0..1,
         NEW o \in Seq(Message), NEW p \in Seq(Message), NEW r \in Reading, NEW g \in Mapping, NEW gv,
         inj' = [inj EXCEPT ![k] = i], kid' = [kid EXCEPT ![k] = d], susp' = [susp EXCEPT ![k] = s],
         out' = [out EXCEPT ![k] = o], pipe' = [pipe EXCEPT ![k] = p],
         reading' = [reading EXCEPT ![k] = r], gmap' = [gmap EXCEPT ![k] = g],
         DOMAIN given' = Kids, given'[k] = gv, \A h \in Kids : h # k => given'[h] = given[h],
         asked' = asked, event' = event,
         pc' \in [Jobs -> Places], \A j \in Jobs : pc'[j] = "running" => pc[j] = "running" \/ j = k,
         OverTypes', UNCHANGED <<maps, prepared>>,
         Stage(i, d, s, FALSE, "none"), PipeOf(d, p, o, r, g, gv),
         k \in Jobs => ~HasEmptyDir(gv) /\ OwnGiven(k, gv, prepared)
  PROVE  MapsIInv'
<1>1. KidTypes'
  BY DEF MapsIInv, KidTypes
<1>2. ServerTypes'
  BY DEF MapsIInv, ServerTypes
<1>3. /\ inj'[k] = i /\ kid'[k] = d /\ susp'[k] = s /\ out'[k] = o /\ pipe'[k] = p
      /\ reading'[k] = r /\ gmap'[k] = g /\ given'[k] = gv
  BY DEF MapsIInv, KidTypes
<1>4. \A h \in Kids : h # k =>
        /\ inj'[h] = inj[h] /\ kid'[h] = kid[h] /\ susp'[h] = susp[h] /\ out'[h] = out[h]
        /\ pipe'[h] = pipe[h] /\ reading'[h] = reading[h] /\ gmap'[h] = gmap[h] /\ given'[h] = given[h]
  BY DEF MapsIInv, KidTypes
<1>5. asked[k] = FALSE /\ event[k] = "none"
  BY DEF MapsIInv, KidInv, Stage
<1>6. ASSUME NEW h \in Kids PROVE KidInv(h)'
  <2>1. CASE h = k
    BY <2>1, <1>3, <1>5 DEF KidInv
  <2>2. CASE h # k
    BY <2>2, <1>4 DEF MapsIInv, KidInv
  <2> QED
    BY <2>1, <2>2
<1>7. \A m \in Maps : MapInv(m, maps'[m], prepared')
  BY DEF MapsIInv
<1>8. ASSUME NEW j \in Jobs PROVE JobInv(j)'
  <2>1. CASE j = k
    BY <2>1, <1>3 DEF JobInv
  <2>2. CASE j # k
    <3>1. inj'[j] = inj[j] /\ given'[j] = given[j] /\ JobInv(j)
      BY <2>2, <1>4, MapsAssumption DEF MapsIInv
    <3> QED
      BY <2>2, <3>1 DEF JobInv
  <2> QED
    BY <2>1, <2>2
<1> QED
  BY <1>1, <1>2, <1>6, <1>7, <1>8 DEF MapsIInv

\* A step of the server that touches no kid keeps it if the maps are right.
LEMMA ServerChanges ==
  ASSUME MapsIInv, UNCHANGED <<injVars, pipeVars>>, gmap' \in [Kids \cup {Root} -> Mapping],
         \A k \in Kids : gmap'[k] = gmap[k], ServerTypes', prepared \subseteq prepared',
         \A j \in Jobs : pc'[j] = "running" => pc[j] = "running",
         \A m \in Maps : MapInv(m, maps'[m], prepared')
  PROVE  MapsIInv'
<1>1. KidTypes'
  BY DEF MapsIInv, KidTypes, injVars, pipeVars
<1>2. ASSUME NEW k \in Kids PROVE KidInv(k)'
  BY DEF MapsIInv, KidInv, injVars, pipeVars
<1>3. ASSUME NEW j \in Jobs PROVE JobInv(j)'
  <2>1. JobInv(j) /\ inj' = inj /\ given' = given
    BY DEF MapsIInv, injVars, pipeVars
  <2>2. OwnGiven(j, given[j], prepared) => OwnGiven(j, given[j], prepared')
    BY OwnGivenGrows
  <2> QED
    BY <2>1, <2>2 DEF JobInv
<1> QED
  BY <1>1, <1>2, <1>3 DEF MapsIInv

\* It holds at the start.
LEMMA MapsInitInv == MapsInit => MapsIInv
<1> SUFFICES ASSUME MapsInit PROVE MapsIInv
  OBVIOUS
<1> USE DEF MapsInit, Init, InjInit
<1>1. KidTypes
  <2>1. <<>> \in Seq(Message) /\ Empty \in Mapping
    BY EmptyMap
  <2>2. [dir |-> Root, left |-> 0] \in Reading
    BY DEF Reading
  <2>3. "none" \in InjPlaces /\ "none" \in KidPlaces /\ "none" \in Events /\ 0 \in 0..1
    BY DEF InjPlaces, KidPlaces, Events
  <2> QED
    BY <2>1, <2>2, <2>3 DEF KidTypes
<1>2. ServerTypes
  BY EmptyMap DEF ServerTypes, OverTypes, Places
<1>3. ASSUME NEW k \in Kids PROVE KidInv(k)
  <2>1. Len(<<>>) <= PipeSize
    BY MapsAssumption
  <2>2. Stage("none", "none", 0, FALSE, "none")
    BY DEF Stage
  <2>3. PipeOf("none", <<>>, <<>>, [dir |-> Root, left |-> 0], Empty, Empty)
    BY <2>1, EmptyMap DEF PipeOf, Early, Late
  <2> QED
    BY <2>2, <2>3 DEF KidInv
<1>4. \A m \in Maps : MapInv(m, maps[m], prepared)
  BY EmptyMap DEF MapInv
<1>5. \A j \in Jobs : JobInv(j)
  BY MapsAssumption DEF JobInv
<1> QED
  BY <1>1, <1>2, <1>3, <1>4, <1>5 DEF MapsIInv

(***************************************************************************)
(* The steps of the two threads of an injection.                           *)
(***************************************************************************)

\* A step of the creator or of the kid that leaves pipe and maps alone.
LEMMA ThreadMoves ==
  ASSUME MapsIInv, NEW k \in Kids, NEW i \in InjPlaces \ {"none"}, NEW d \in KidPlaces, NEW s \in 0..1,
         inj[k] # "none", inj' = [inj EXCEPT ![k] = i], kid' = [kid EXCEPT ![k] = d],
         susp' = [susp EXCEPT ![k] = s], asked' = asked, event' = event,
         UNCHANGED <<pc, maps, gmap, prepared, overVars, pipeVars>>, Stage(i, d, s, FALSE, "none"),
         \/ d = kid[k] \/ d = "ended"
         \/ kid[k] \in Early /\ d \in Early
         \/ kid[k] \in Late /\ d \in Late
  PROVE  MapsIInv'
<1>1. /\ out' = [out EXCEPT ![k] = out[k]] /\ pipe' = [pipe EXCEPT ![k] = pipe[k]]
      /\ reading' = [reading EXCEPT ![k] = reading[k]] /\ gmap' = [gmap EXCEPT ![k] = gmap[k]]
  BY DEF MapsIInv, KidTypes, pipeVars
<1>2. DOMAIN given' = Kids /\ given' = given
  BY DEF MapsIInv, KidTypes, pipeVars
<1>3. out[k] \in Seq(Message) /\ pipe[k] \in Seq(Message) /\ reading[k] \in Reading /\ gmap[k] \in Mapping
  BY DEF MapsIInv, KidTypes
<1>4. PipeOf(d, pipe[k], out[k], reading[k], gmap[k], given[k])
  <2>1. PipeOf(kid[k], pipe[k], out[k], reading[k], gmap[k], given[k])
    BY DEF MapsIInv, KidInv
  <2>2. CASE d = kid[k]
    BY <2>1, <2>2
  <2>3. CASE d # kid[k]
    BY <2>1, <2>3, PipeMoves
  <2> QED
    BY <2>2, <2>3
<1>5. k \in Jobs => ~HasEmptyDir(given[k]) /\ OwnGiven(k, given[k], prepared)
  BY DEF MapsIInv, JobInv
<1>6. pc' \in [Jobs -> Places] /\ OverTypes'
  BY DEF MapsIInv, ServerTypes, OverTypes, overVars
<1> QED
  BY <1>1, <1>2, <1>3, <1>4, <1>5, <1>6, KidChanges

\* Where a kid and its creator are.
LEMMA KidPlace ==
  ASSUME MapsIInv, NEW k \in Kids
  PROVE  /\ Stage(inj[k], kid[k], susp[k], asked[k], event[k]) /\ asked[k] = FALSE /\ event[k] = "none"
         /\ inj[k] \in InjPlaces /\ kid[k] \in KidPlaces /\ susp[k] \in 0..1
<1>1. Stage(inj[k], kid[k], susp[k], asked[k], event[k])
  BY DEF MapsIInv, KidInv
<1>2. asked[k] = FALSE /\ event[k] = "none"
  BY <1>1 DEF Stage
<1> QED
  BY <1>1, <1>2 DEF MapsIInv, KidTypes

\* What a step leaves alone, written as a change.
LEMMA KidStays ==
  ASSUME MapsIInv, NEW k \in Kids
  PROVE  /\ inj = [inj EXCEPT ![k] = inj[k]] /\ kid = [kid EXCEPT ![k] = kid[k]]
         /\ susp = [susp EXCEPT ![k] = susp[k]] /\ event = [event EXCEPT ![k] = event[k]]
BY DEF MapsIInv, KidTypes

\* injectLibrary goes on, or gives up.
LEMMA CreatorKeeps ==
  ASSUME MapsIInv, NEW k \in Kids, CreatorStep(k) \/ InjFault(k),
         UNCHANGED <<runnerVars, mapVars, overVars, pipeVars>>
  PROVE  MapsIInv'
<1> USE DEF Goes
<1>1. UNCHANGED <<pc, maps, gmap, prepared, overVars, pipeVars>>
  BY DEF runnerVars, mapVars
<1>2. CASE Redirect(k)
  <2>1. inj[k] = "created" /\ kid[k] = "entry" /\ susp[k] = 1
    BY <1>2, KidPlace DEF Redirect, Stage
  <2>2. event' = event
    BY <1>2, KidPlace, KidStays DEF Redirect
  <2>3. Stage("redirected", "loader", 1, FALSE, "none") /\ kid[k] \in Early /\ "loader" \in Early
    BY <2>1 DEF Stage, Early
  <2>4. "redirected" \in InjPlaces \ {"none"} /\ "loader" \in KidPlaces /\ 1 \in 0..1
    BY DEF InjPlaces, KidPlaces
  <2>5. /\ inj' = [inj EXCEPT ![k] = "redirected"] /\ kid' = [kid EXCEPT ![k] = "loader"]
        /\ susp' = [susp EXCEPT ![k] = 1] /\ asked' = asked
    BY <1>2, <2>1, KidStays DEF Redirect
  <2> QED
    BY <1>1, <2>1, <2>2, <2>3, <2>4, <2>5, ThreadMoves
<1>3. CASE ResumeMain(k)
  <2>1. inj[k] = "redirected" /\ kid[k] = "loader" /\ susp[k] = 1
    BY <1>3, KidPlace DEF ResumeMain, Stage
  <2>2. Stage("local", "loader", 0, FALSE, "none")
    BY <2>1 DEF Stage
  <2>3. "local" \in InjPlaces \ {"none"} /\ "loader" \in KidPlaces /\ 0 \in 0..1
    BY DEF InjPlaces, KidPlaces
  <2>4. /\ inj' = [inj EXCEPT ![k] = "local"] /\ kid' = [kid EXCEPT ![k] = "loader"]
        /\ susp' = [susp EXCEPT ![k] = 0] /\ asked' = asked /\ event' = event
    BY <1>3, <2>1, KidStays DEF ResumeMain
  <2> QED
    BY <1>1, <2>1, <2>2, <2>3, <2>4, ThreadMoves
<1>4. CASE AfterLocalInit(k)
  <2>1. inj[k] = "written" /\ susp[k] = 0
    BY <1>4, KidPlace DEF AfterLocalInit, Stage
  <2>2. Stage("returned", kid[k], 0, FALSE, "none")
    BY <2>1, KidPlace DEF Stage
  <2>3. "returned" \in InjPlaces \ {"none"} /\ 0 \in 0..1
    BY DEF InjPlaces
  <2>5. kid[k] \in KidPlaces
    BY KidPlace
  <2>4. /\ inj' = [inj EXCEPT ![k] = "returned"] /\ kid' = [kid EXCEPT ![k] = kid[k]]
        /\ susp' = [susp EXCEPT ![k] = 0] /\ asked' = asked /\ event' = event
    BY <1>4, <2>1, KidPlace, KidStays DEF AfterLocalInit
  <2> QED
    BY <1>1, <2>1, <2>2, <2>3, <2>4, <2>5, ThreadMoves
<1>5. CASE WaitInitDone(k) \/ SuspendMain(k) \/ SignalKid(k)
  BY <1>5, KidPlace DEF WaitInitDone, SuspendMain, SignalKid, Stage
<1>6. CASE Refused(k) \/ ParamsFail(k)
  <2>1. inj[k] \in {"created", "redirected"} /\ kid[k] \in {"entry", "loader"} /\ susp[k] = 1
    BY <1>6, KidPlace DEF Refused, ParamsFail, Stage
  <2>2. Stage("refused", kid[k], 1, FALSE, "none")
    BY <2>1 DEF Stage
  <2>3. "refused" \in InjPlaces \ {"none"} /\ 1 \in 0..1
    BY DEF InjPlaces
  <2>5. kid[k] \in KidPlaces
    BY KidPlace
  <2>4. /\ inj' = [inj EXCEPT ![k] = "refused"] /\ kid' = [kid EXCEPT ![k] = kid[k]]
        /\ susp' = [susp EXCEPT ![k] = 1] /\ asked' = asked /\ event' = event
    BY <1>6, <2>1, KidStays DEF Refused, ParamsFail
  <2> QED
    BY <1>1, <2>1, <2>2, <2>3, <2>4, <2>5, ThreadMoves
<1> QED
  BY <1>2, <1>3, <1>4, <1>5, <1>6 DEF CreatorStep, InjFault

\* The kid's main thread moves from one place to another of the same kind.
LEMMA KidMoves ==
  ASSUME MapsIInv, NEW k \in Kids, NEW from \in {"loader", "init"} \cup Late, NEW to \in KidPlaces, Runs(k, from, to),
         to = "ended" \/ (from = "loader" /\ to = "init") \/ (from \in Late /\ to \in Late),
         inj' = inj, susp' = susp, asked' = asked, event' = event,
         UNCHANGED <<runnerVars, mapVars, overVars, pipeVars>>
  PROVE  MapsIInv'
<1>1. /\ inj[k] \in {"local", "written", "returned"} /\ kid[k] = from /\ susp[k] = 0
      /\ kid' = [kid EXCEPT ![k] = to]
  <2>1. kid[k] = from /\ susp[k] = 0 /\ kid' = [kid EXCEPT ![k] = to]
    BY DEF Runs
  <2>2. Stage(inj[k], from, 0, asked[k], event[k])
    BY <2>1, KidPlace
  <2> QED
    BY <2>1, <2>2 DEF Stage, Late
<1>2. Stage(inj[k], to, 0, FALSE, "none")
  BY <1>1 DEF Stage
<1>3. inj[k] \in InjPlaces \ {"none"} /\ 0 \in 0..1
  BY <1>1, KidPlace
<1>4. inj' = [inj EXCEPT ![k] = inj[k]] /\ susp' = [susp EXCEPT ![k] = 0]
  BY <1>1, KidStays
<1>5. to = "ended" \/ (kid[k] \in Early /\ to \in Early) \/ (kid[k] \in Late /\ to \in Late)
  BY <1>1 DEF Early
<1>6. UNCHANGED <<pc, maps, gmap, prepared, overVars, pipeVars>>
  BY DEF runnerVars, mapVars
<1> QED
  BY <1>1, <1>2, <1>3, <1>4, <1>5, <1>6, ThreadMoves

\* The kid runs on.
LEMMA KidKeeps ==
  ASSUME MapsIInv, NEW k \in Kids, KidStep(k), UNCHANGED <<runnerVars, mapVars, overVars, pipeVars>>
  PROVE  MapsIInv'
<1>1. CASE LoadDll(k)
  <2>1. CASE Runs(k, "loader", "init")
    BY <1>1, <2>1, KidMoves DEF LoadDll, KidPlaces
  <2>2. CASE Runs(k, "loader", "ended")
    BY <1>1, <2>2, KidMoves DEF LoadDll, KidPlaces
  <2> QED
    BY <1>1, <2>1, <2>2 DEF LoadDll
<1>2. CASE SetInitDone(k)
  <2>1. Runs(k, "hooked", "main") /\ event' = event
    BY <1>2, KidPlace, KidStays DEF SetInitDone
  <2> QED
    BY <1>2, <2>1, KidMoves DEF SetInitDone, KidPlaces, Late
<1>3. CASE KidWaits(k)
  BY <1>3, KidPlace DEF KidWaits
<1>4. CASE RunProgram(k)
  <2>1. Runs(k, "main", "ran")
    <3>1. Runs(k, "entry", "ran") => Stage(inj[k], "entry", 0, asked[k], event[k])
      BY KidPlace DEF Runs
    <3> QED
      BY <3>1, <1>4 DEF RunProgram, Stage, Late
  <2> QED
    BY <1>4, <2>1, KidMoves DEF RunProgram, KidPlaces, Late
<1>5. CASE EndProgram(k)
  BY <1>5, KidMoves DEF EndProgram, KidPlaces, Late
<1> QED
  BY <1>1, <1>2, <1>3, <1>4, <1>5 DEF KidStep

\* Initialize fails.
LEMMA ReadFailsKeeps == ASSUME MapsIInv, NEW k \in Kids, readFails(k) PROVE MapsIInv'
<1>1. UNCHANGED <<runnerVars, mapVars, overVars, pipeVars>>
  BY DEF readFails
<1> QED
  BY <1>1, KidMoves DEF readFails, KidPlaces

\* A cancelled compiler is terminated.
LEMMA TerminateKeeps == ASSUME MapsIInv, NEW j \in Jobs, TerminateJob(j) PROVE MapsIInv'
<1>1. inj[j] \in {"returned", "refused"} /\ j \in Kids
  BY MapsAssumption DEF TerminateJob, LoopFree, Injecting, MapsIInv, JobInv
<1>2. Stage(inj[j], "ended", susp[j], FALSE, "none")
  BY <1>1, KidPlace DEF Stage
<1>3. inj' = [inj EXCEPT ![j] = inj[j]] /\ susp' = [susp EXCEPT ![j] = susp[j]]
  BY <1>1, KidStays DEF TerminateJob
<1>4. inj[j] \in InjPlaces \ {"none"} /\ susp[j] \in 0..1 /\ "ended" \in KidPlaces
  BY <1>1, KidPlace DEF KidPlaces
<1>5. UNCHANGED <<pc, maps, gmap, prepared, overVars, pipeVars>>
  BY DEF TerminateJob, runnerVars, mapVars
<1>6. kid' = [kid EXCEPT ![j] = "ended"] /\ asked' = asked /\ event' = event
  BY DEF TerminateJob
<1> QED
  BY <1>1, <1>2, <1>3, <1>4, <1>5, <1>6, ThreadMoves

(***************************************************************************)
(* The steps at the ends of a pipe.                                        *)
(***************************************************************************)

\* A step at a pipe, with which the creator stays where it is.
LEMMA PipeChanges ==
  ASSUME MapsIInv, NEW k \in Kids, NEW d \in KidPlaces, NEW o \in Seq(Message), NEW p \in Seq(Message),
         NEW r \in Reading, NEW g \in Mapping, inj[k] # "none",
         kid' = [kid EXCEPT ![k] = d], out' = [out EXCEPT ![k] = o], pipe' = [pipe EXCEPT ![k] = p],
         reading' = [reading EXCEPT ![k] = r], gmap' = [gmap EXCEPT ![k] = g],
         UNCHANGED <<pc, inj, susp, asked, event, maps, prepared, overVars, given>>,
         Stage(inj[k], d, susp[k], FALSE, "none"), PipeOf(d, p, o, r, g, given[k])
  PROVE  MapsIInv'
<1>1. inj' = [inj EXCEPT ![k] = inj[k]] /\ susp' = [susp EXCEPT ![k] = susp[k]]
  BY KidStays
<1>2. inj[k] \in InjPlaces \ {"none"} /\ susp[k] \in 0..1
  BY KidPlace
<1>3. DOMAIN given' = Kids
  BY DEF MapsIInv, KidTypes
<1>4. k \in Jobs => ~HasEmptyDir(given[k]) /\ OwnGiven(k, given[k], prepared)
  BY DEF MapsIInv, JobInv
<1>5. pc' \in [Jobs -> Places] /\ OverTypes'
  BY DEF MapsIInv, ServerTypes, OverTypes, overVars
<1> QED
  BY <1>1, <1>2, <1>3, <1>4, <1>5, KidChanges

\* The pipe of a kid, and what a step at it leaves alone, written as a change.
LEMMA PipeParts ==
  ASSUME MapsIInv, NEW k \in Kids
  PROVE  /\ out[k] \in Seq(Message) /\ pipe[k] \in Seq(Message) /\ reading[k] \in Reading
         /\ gmap[k] \in Mapping /\ PipeOf(kid[k], pipe[k], out[k], reading[k], gmap[k], given[k])
BY DEF MapsIInv, KidTypes, KidInv
LEMMA PipeStays ==
  ASSUME MapsIInv, NEW k \in Kids
  PROVE  /\ out = [out EXCEPT ![k] = out[k]] /\ reading = [reading EXCEPT ![k] = reading[k]]
         /\ gmap = [gmap EXCEPT ![k] = gmap[k]] /\ kid = [kid EXCEPT ![k] = kid[k]]
BY DEF MapsIInv, KidTypes

\* The creator writes an entry.
LEMMA WriteKeeps == ASSUME MapsIInv, NEW k \in Kids, WriteEntry(k) PROVE MapsIInv'
<1> DEFINE p == Append(pipe[k], Head(out[k]))
           o == Tail(out[k])
<1>1. /\ inj[k] = "local" /\ out[k] # <<>> /\ kid[k] \in Early /\ Len(pipe[k]) < PipeSize
      /\ pipe' = [pipe EXCEPT ![k] = p] /\ out' = [out EXCEPT ![k] = o]
      /\ UNCHANGED <<runnerVars, injVars, mapVars, overVars, reading, given>>
  BY DEF WriteEntry, ReadEnd, Early
<1>2. p \in Seq(Message) /\ o \in Seq(Message)
  BY <1>1, PipeParts
<1>3. PipeOf(kid[k], p, o, reading[k], gmap[k], given[k])
  BY <1>1, PipeParts, TransferWrites
<1> HIDE DEF p, o
<1>4. Stage(inj[k], kid[k], susp[k], FALSE, "none") /\ kid[k] \in KidPlaces
  BY KidPlace
<1>5. /\ kid' = [kid EXCEPT ![k] = kid[k]] /\ reading' = [reading EXCEPT ![k] = reading[k]]
      /\ gmap' = [gmap EXCEPT ![k] = gmap[k]]
      /\ UNCHANGED <<pc, inj, susp, asked, event, maps, prepared, overVars, given>>
  BY <1>1, PipeStays DEF runnerVars, injVars, mapVars
<1>6. reading[k] \in Reading /\ gmap[k] \in Mapping /\ inj[k] # "none"
  BY <1>1, PipeParts
<1> QED
  BY <1>1, <1>2, <1>3, <1>4, <1>5, <1>6, PipeChanges

\* localInitFunc returns.
LEMMA WrittenKeeps == ASSUME MapsIInv, NEW k \in Kids, Written(k) PROVE MapsIInv'
<1>1. inj[k] = "local" /\ inj' = [inj EXCEPT ![k] = "written"]
  BY DEF Written, Goes
<1>2. susp[k] = 0 /\ Stage("written", kid[k], 0, FALSE, "none")
  BY <1>1, KidPlace DEF Stage
<1>3. "written" \in InjPlaces \ {"none"} /\ 0 \in 0..1
  BY DEF InjPlaces
<1>4. kid[k] \in KidPlaces
  BY KidPlace
<1>5. /\ kid' = [kid EXCEPT ![k] = kid[k]] /\ susp' = [susp EXCEPT ![k] = 0] /\ asked' = asked /\ event' = event
  BY <1>2, KidStays DEF Written
<1>6. UNCHANGED <<pc, maps, gmap, prepared, overVars, pipeVars>>
  BY DEF Written, runnerVars, mapVars
<1> QED
  BY <1>1, <1>2, <1>3, <1>4, <1>5, <1>6, ThreadMoves

\* What Initialize reads is the head of the pipe.
LEMMA ReadsParts ==
  ASSUME MapsIInv, NEW k \in Kids, NEW op, Reads(k, op)
  PROVE  /\ pipe' = [pipe EXCEPT ![k] = Tail(pipe[k])] /\ Tail(pipe[k]) \in Seq(Message)
         /\ pipe[k] # <<>> /\ Head(pipe[k]).op = op /\ kid[k] = "init" /\ susp[k] = 0
         /\ inj[k] \in {"local", "written", "returned"}
         /\ Stage(inj[k], "init", susp[k], FALSE, "none") /\ Stage(inj[k], "hooked", susp[k], FALSE, "none")
         /\ PipeOf("init", pipe[k], out[k], reading[k], gmap[k], given[k])
<1>1. pipe[k] # <<>> /\ Head(pipe[k]).op = op /\ kid[k] = "init" /\ susp[k] = 0
  BY DEF Reads
<1>2. pipe' = [pipe EXCEPT ![k] = Tail(pipe[k])]
  BY DEF Reads
<1>3. Tail(pipe[k]) \in Seq(Message)
  BY <1>1, PipeParts
<1>4. Stage(inj[k], "init", 0, FALSE, "none")
  BY <1>1, KidPlace
<1>5. inj[k] \in {"local", "written", "returned"} /\ Stage(inj[k], "hooked", 0, FALSE, "none")
  BY <1>4 DEF Stage, Late
<1> QED
  BY <1>1, <1>2, <1>3, <1>4, <1>5, PipeParts

\* A directory is read.
LEMMA ReadDirKeeps == ASSUME MapsIInv, NEW k \in Kids, readDir(k) PROVE MapsIInv'
<1> DEFINE r == [dir |-> Head(pipe[k]).name, left |-> Head(pipe[k]).n]
           p == Tail(pipe[k])
<1>1. /\ Reads(k, "dir") /\ reading' = [reading EXCEPT ![k] = r]
      /\ UNCHANGED <<runnerVars, injVars, mapVars, overVars, out, given>>
  BY DEF readDir
<1>2. r \in Reading /\ PipeOf("init", p, out[k], r, gmap[k], given[k])
  BY <1>1, PipeParts, ReadsParts, TransferReadsDir
<1>3. pipe' = [pipe EXCEPT ![k] = p] /\ p \in Seq(Message)
  BY <1>1, ReadsParts
<1> HIDE DEF p, r
<1>4. kid[k] = "init" /\ inj[k] # "none" /\ Stage(inj[k], "init", susp[k], FALSE, "none")
  BY <1>1, ReadsParts
<1>5. /\ kid' = [kid EXCEPT ![k] = "init"] /\ out' = [out EXCEPT ![k] = out[k]]
      /\ gmap' = [gmap EXCEPT ![k] = gmap[k]]
      /\ UNCHANGED <<pc, inj, susp, asked, event, maps, prepared, overVars, given>>
  BY <1>1, <1>4, PipeStays DEF runnerVars, injVars, mapVars
<1>6. out[k] \in Seq(Message) /\ gmap[k] \in Mapping /\ "init" \in KidPlaces
  BY PipeParts DEF KidPlaces
<1> QED
  BY <1>1, <1>2, <1>3, <1>4, <1>5, <1>6, PipeChanges

\* A file is read.
LEMMA ReadMappingKeeps == ASSUME MapsIInv, NEW k \in Kids, readMapping(k) PROVE MapsIInv'
<1> DEFINE r == [reading[k] EXCEPT !.left = @ - 1]
           p == Tail(pipe[k])
           g == addFile(gmap[k], reading[k].dir, Head(pipe[k]).name, Head(pipe[k]).real)
<1>1. /\ Reads(k, "file") /\ reading' = [reading EXCEPT ![k] = r] /\ gmap' = [gmap EXCEPT ![k] = g]
      /\ UNCHANGED <<runnerVars, injVars, maps, enabled, prepared, overVars, out, given>>
  BY DEF readMapping
<1>2. r \in Reading /\ g \in Mapping /\ PipeOf("init", p, out[k], r, g, given[k])
  BY <1>1, PipeParts, ReadsParts, TransferReadsFile
<1>3. pipe' = [pipe EXCEPT ![k] = p] /\ p \in Seq(Message)
  BY <1>1, ReadsParts
<1> HIDE DEF p, r, g
<1>4. kid[k] = "init" /\ inj[k] # "none" /\ Stage(inj[k], "init", susp[k], FALSE, "none")
  BY <1>1, ReadsParts
<1>5. /\ kid' = [kid EXCEPT ![k] = "init"] /\ out' = [out EXCEPT ![k] = out[k]]
      /\ UNCHANGED <<pc, inj, susp, asked, event, maps, prepared, overVars, given>>
  BY <1>1, <1>4, PipeStays DEF runnerVars, injVars
<1>6. out[k] \in Seq(Message) /\ "init" \in KidPlaces
  BY PipeParts DEF KidPlaces
<1> QED
  BY <1>1, <1>2, <1>3, <1>4, <1>5, <1>6, PipeChanges

\* The end is read, or an empty directory.
LEMMA ReadEndKeeps == ASSUME MapsIInv, NEW k \in Kids, readEnd(k) PROVE MapsIInv'
<1> DEFINE p == Tail(pipe[k])
<1>1. /\ \/ Reads(k, "end")
         \/ Reads(k, "dir") /\ Head(pipe[k]).n = 0
      /\ kid' = [kid EXCEPT ![k] = "hooked"]
      /\ UNCHANGED <<runnerVars, inj, susp, asked, event, resumed, mapVars, overVars, out, reading, given>>
  BY DEF readEnd, Runs
<1>2. PICK op : Reads(k, op) /\ (op = "end" \/ (op = "dir" /\ Head(pipe[k]).n = 0))
  BY <1>1
<1>3. PipeOf("hooked", p, out[k], reading[k], gmap[k], given[k])
  <2>1. /\ PipeOf("init", pipe[k], out[k], reading[k], gmap[k], given[k]) /\ pipe[k] # <<>>
        /\ Head(pipe[k]).op = "end" \/ (Head(pipe[k]).op = "dir" /\ Head(pipe[k]).n = 0)
    BY <1>2, ReadsParts
  <2> QED
    BY <2>1, PipeParts, TransferEnds
<1>4. pipe' = [pipe EXCEPT ![k] = p] /\ p \in Seq(Message)
  BY <1>2, ReadsParts
<1> HIDE DEF p
<1>5. inj[k] # "none" /\ Stage(inj[k], "hooked", susp[k], FALSE, "none")
  BY <1>2, ReadsParts
<1>6. /\ out' = [out EXCEPT ![k] = out[k]] /\ gmap' = [gmap EXCEPT ![k] = gmap[k]]
      /\ reading' = [reading EXCEPT ![k] = reading[k]]
      /\ UNCHANGED <<pc, inj, susp, asked, event, maps, prepared, overVars, given>>
  BY <1>1, PipeStays DEF runnerVars, mapVars
<1>7. out[k] \in Seq(Message) /\ gmap[k] \in Mapping /\ reading[k] \in Reading /\ "hooked" \in KidPlaces
  BY PipeParts DEF KidPlaces
<1> QED
  BY <1>1, <1>3, <1>4, <1>5, <1>6, <1>7, PipeChanges

(***************************************************************************)
(* Processes are created.                                                  *)
(***************************************************************************)

\* A process is created with the maps ms.
LEMMA CreateKeeps ==
  ASSUME MapsIInv, NEW k \in Kids, NEW ms \in Seq(Mapping), CreateWith(k, ms),
         Len(ms) = 1 \/ \A i \in 1..Len(ms) : ~HasEmptyDir(ms[i]),
         pc' \in [Jobs -> Places], \A j \in Jobs : pc'[j] = "running" => pc[j] = "running" \/ j = k,
         OverTypes', UNCHANGED mapVars,
         k \in Jobs => ~HasEmptyDir(Merge(ms)) /\ OwnGiven(k, Merge(ms), prepared)
  PROVE  MapsIInv'
<1>1. /\ inj[k] = "none" /\ inj' = [inj EXCEPT ![k] = "created"] /\ kid' = [kid EXCEPT ![k] = "entry"]
      /\ susp' = [susp EXCEPT ![k] = 1] /\ event' = event
      /\ out' = [out EXCEPT ![k] = writeMappings(ms)] /\ UNCHANGED <<pipe, reading>>
  BY DEF CreateWith, CreateSuspended, Goes
<1>2. kid[k] = "none" /\ asked[k] = FALSE
  BY <1>1, KidPlace DEF Stage
<1>3. asked' = asked
  <2>1. asked' = [asked EXCEPT ![k] = FALSE]
    BY MapsAssumption DEF CreateWith, CreateSuspended
  <2> QED
    BY <1>2, <2>1 DEF MapsIInv, KidTypes
<1>4. /\ DOMAIN given' = Kids /\ given'[k] = Merge(ms) /\ \A h \in Kids : h # k => given'[h] = given[h]
  BY DEF CreateWith, MapsIInv, KidTypes
<1>5. pipe[k] = <<>> /\ reading[k].left = 0 /\ gmap[k] = Empty
  BY <1>2, PipeParts DEF PipeOf
<1>6. /\ PipeOf("entry", <<>>, writeMappings(ms), reading[k], Empty, Merge(ms))
      /\ writeMappings(ms) \in Seq(Message)
  BY <1>5, TransferBegins
<1>7. /\ pipe' = [pipe EXCEPT ![k] = <<>>] /\ reading' = [reading EXCEPT ![k] = reading[k]]
      /\ gmap' = [gmap EXCEPT ![k] = Empty]
  BY <1>1, <1>5 DEF MapsIInv, KidTypes, mapVars
<1>8. <<>> \in Seq(Message) /\ reading[k] \in Reading /\ Empty \in Mapping
  BY PipeParts, EmptyMap
<1>9. "created" \in InjPlaces \ {"none"} /\ "entry" \in KidPlaces /\ 1 \in 0..1
  BY DEF InjPlaces, KidPlaces
<1>10. Stage("created", "entry", 1, FALSE, "none") /\ UNCHANGED <<maps, prepared>>
  BY DEF Stage, mapVars
<1> DEFINE o == writeMappings(ms)
           gv == Merge(ms)
           p == <<>>
           r == reading[k]
<1>11. PipeOf("entry", p, o, r, Empty, gv) /\ o \in Seq(Message) /\ p \in Seq(Message) /\ r \in Reading
  BY <1>6, <1>8
<1>12. /\ out' = [out EXCEPT ![k] = o] /\ pipe' = [pipe EXCEPT ![k] = p]
       /\ reading' = [reading EXCEPT ![k] = r] /\ given'[k] = gv
  BY <1>1, <1>4, <1>7
<1>13. k \in Jobs => ~HasEmptyDir(gv) /\ OwnGiven(k, gv, prepared)
  OBVIOUS
<1>14. /\ inj' = [inj EXCEPT ![k] = "created"] /\ kid' = [kid EXCEPT ![k] = "entry"]
       /\ susp' = [susp EXCEPT ![k] = 1] /\ event' = event
  BY <1>1
<1> HIDE DEF o, gv, p, r
<1>15. DOMAIN given' = Kids /\ (\A h \in Kids : h # k => given'[h] = given[h]) /\ gmap' = [gmap EXCEPT ![k] = Empty]
  BY <1>4, <1>7
<1> QED
  BY <1>3, <1>8, <1>9, <1>10, <1>11, <1>12, <1>13, <1>14, <1>15, KidChanges

\* A job gets a slot, and its compiler is created.
LEMMA AcquireKeeps == ASSUME MapsIInv, NEW j \in Jobs, AcquireJob(j) PROVE MapsIInv'
<1>1. j \in prepared /\ CreateWith(j, MapsOf(j)) /\ UNCHANGED mapVars
  BY DEF AcquireJob, Overridden
<1>2. /\ MapsOf(j) \in Seq(Mapping) /\ \A i \in 1..Len(MapsOf(j)) : ~HasEmptyDir(MapsOf(j)[i])
      /\ ~HasEmptyDir(Merge(MapsOf(j))) /\ OwnGiven(j, Merge(MapsOf(j)), prepared)
  BY <1>1, OwnAtStart DEF MapsIInv, ServerTypes
<1>3. pc' \in [Jobs -> Places] /\ \A i \in Jobs : pc'[i] = "running" => pc[i] = "running" \/ i = j
  BY DEF AcquireJob, Acquire, MapsIInv, ServerTypes, Places
<1>4. OverTypes'
  BY DEF AcquireJob, Overridden, MapsIInv, ServerTypes, OverTypes
<1>5. j \in Kids
  BY MapsAssumption
<1> QED
  BY <1>1, <1>2, <1>3, <1>4, <1>5, CreateKeeps

\* A program with the DLL creates a process.
LEMMA CreateProcessKeeps == ASSUME MapsIInv, NEW k \in Kids, createProcess(k) PROVE MapsIInv'
<1> DEFINE ms == <<gmap[Parent[k]]>>
<1>1. k \notin Jobs /\ CreateWith(k, ms) /\ UNCHANGED <<runnerVars, mapVars, overVars>>
  BY DEF createProcess
<1>2. Parent[k] \in Kids \cup {Root}
  BY MapsAssumption
<1>3. ms \in Seq(Mapping) /\ Len(ms) = 1
  BY <1>2 DEF MapsIInv, KidTypes
<1>4. pc' \in [Jobs -> Places] /\ \A j \in Jobs : pc'[j] = pc[j]
  BY <1>1 DEF runnerVars, MapsIInv, ServerTypes
<1>5. OverTypes'
  BY <1>1 DEF overVars, MapsIInv, ServerTypes, OverTypes
<1> HIDE DEF ms
<1> QED
  BY <1>1, <1>3, <1>4, <1>5, CreateKeeps

(***************************************************************************)
(* The steps of the server that touch no process.                          *)
(***************************************************************************)

\* The server's own map changes.
LEMMA GlobalKeeps ==
  ASSUME MapsIInv, NEW p \in Spelled, mapFileGlobal(p) \/ unmapFileGlobal(p) PROVE MapsIInv'
<1>1. PICK g \in Mapping : gmap' = [gmap EXCEPT ![Root] = g]
  <2>1. gmap[Root] \in Mapping
    BY DEF MapsIInv, KidTypes
  <2>2. Norm[p].dir \in Names /\ Norm[p].file \in Names
    BY PathNames
  <2>3. CASE mapFileGlobal(p)
    <3>1. <<Root, Norm[p].file>> \in Reals
      BY <2>2 DEF Reals
    <3>2. addFile(gmap[Root], Norm[p].dir, Norm[p].file, <<Root, Norm[p].file>>) \in Mapping
      BY <2>1, <2>2, <3>1, AddFile
    <3> QED
      BY <2>3, <3>2 DEF mapFileGlobal
  <2>4. CASE unmapFileGlobal(p)
    <3>1. removeFile(gmap[Root], Norm[p].dir, Norm[p].file) \in Mapping
      BY <2>1, <2>2, RemoveFile
    <3> QED
      BY <2>4, <3>1 DEF unmapFileGlobal
  <2> QED
    BY <2>3, <2>4
<1>2. gmap' \in [Kids \cup {Root} -> Mapping] /\ \A k \in Kids : gmap'[k] = gmap[k]
  BY <1>1, MapsAssumption DEF MapsIInv, KidTypes
<1>3. UNCHANGED <<runnerVars, injVars, maps, enabled, prepared, overVars, pipeVars>>
  BY DEF mapFileGlobal, unmapFileGlobal
<1>4. ServerTypes' /\ pc' = pc /\ maps' = maps /\ prepared' = prepared
  BY <1>3 DEF MapsIInv, ServerTypes, OverTypes, overVars, runnerVars
<1>5. \A m \in Maps : MapInv(m, maps'[m], prepared')
  BY <1>4 DEF MapsIInv
<1> QED
  BY <1>2, <1>3, <1>4, <1>5, ServerChanges

\* A session maps its files.
LEMMA PrepareKeeps == ASSUME MapsIInv, NEW j \in Jobs, PrepareFiles(j) PROVE MapsIInv'
<1>1. /\ maps' = [m \in Maps |-> Mapped(m, j, FilesOf[j][m])] /\ prepared' = prepared \cup {j}
      /\ UNCHANGED <<runnerVars, injVars, gmap, enabled, overVars, pipeVars>>
  BY DEF PrepareFiles
<1>2. ASSUME NEW m \in Maps
      PROVE  maps'[m] \in Mapping /\ MapInv(m, maps'[m], prepared')
  <2>1. maps[m] \in Mapping /\ prepared \subseteq Jobs /\ MapInv(m, maps[m], prepared)
    BY DEF MapsIInv, ServerTypes
  <2>2. maps'[m] = Mapped(m, j, FilesOf[j][m])
    BY <1>1
  <2> QED
    BY <1>1, <2>1, <2>2, MappedKeeps
<1>3. maps' \in [Maps -> Mapping]
  BY <1>1, <1>2
<1>4. ServerTypes' /\ pc' = pc
  BY <1>1, <1>3 DEF MapsIInv, ServerTypes, OverTypes, overVars, runnerVars
<1>5. gmap' \in [Kids \cup {Root} -> Mapping] /\ \A k \in Kids : gmap'[k] = gmap[k]
  BY <1>1 DEF MapsIInv, KidTypes
<1> QED
  BY <1>1, <1>2, <1>4, <1>5, ServerChanges

\* The hooks of the server, the event loop's other steps, and stuttering.
LEMMA LoopKeeps ==
  ASSUME MapsIInv,
         \/ hookWinAPIs \/ UNCHANGED allVars
         \/ \E j \in Jobs : SleepJob(j) \/ ExitOverride(j) \/ ReleaseJob(j)
  PROVE  MapsIInv'
<1>1. UNCHANGED <<injVars, pipeVars, maps, gmap, prepared>>
  BY DEF hookWinAPIs, SleepJob, ExitOverride, ReleaseJob, allVars, mapVars
<1>2. pc' \in [Jobs -> Places] /\ \A i \in Jobs : pc'[i] = "running" => pc[i] = "running"
  <2>1. pc \in [Jobs -> Places]
    BY DEF MapsIInv, ServerTypes
  <2>2. CASE \E j \in Jobs : SleepJob(j)
    BY <2>1, <2>2 DEF SleepJob, Sleep, Places
  <2>3. CASE \E j \in Jobs : ReleaseJob(j)
    BY <2>1, <2>3 DEF ReleaseJob, Release, Wake, Places
  <2>4. CASE hookWinAPIs \/ UNCHANGED allVars \/ \E j \in Jobs : ExitOverride(j)
    BY <2>1, <2>4 DEF hookWinAPIs, ExitOverride, allVars, runnerVars
  <2> QED
    BY <2>2, <2>3, <2>4
<1>3. OverTypes'
  <2>1. OverTypes
    BY DEF MapsIInv, ServerTypes
  <2>2. CASE \E j \in Jobs : ExitOverride(j)
    BY <2>1, <2>2 DEF ExitOverride, OverTypes
  <2>3. CASE UNCHANGED overVars
    BY <2>1, <2>3 DEF OverTypes, overVars
  <2> QED
    BY <2>2, <2>3 DEF hookWinAPIs, SleepJob, ReleaseJob, allVars
<1>4. ServerTypes'
  BY <1>1, <1>2, <1>3 DEF MapsIInv, ServerTypes
<1>5. gmap' \in [Kids \cup {Root} -> Mapping] /\ \A k \in Kids : gmap'[k] = gmap[k]
  BY <1>1 DEF MapsIInv, KidTypes
<1>6. \A m \in Maps : MapInv(m, maps'[m], prepared')
  BY <1>1 DEF MapsIInv
<1> QED
  BY <1>1, <1>2, <1>4, <1>5, <1>6, ServerChanges

(***************************************************************************)
(* Theorems.                                                               *)
(***************************************************************************)

\* Every step keeps the invariant.
LEMMA MapsStepInv == MapsIInv /\ [MapsNext]_allVars => MapsIInv'
<1> SUFFICES ASSUME MapsIInv, [MapsNext]_allVars PROVE MapsIInv'
  OBVIOUS
<1>1. ASSUME NEW p \in Spelled, mapFileGlobal(p) \/ unmapFileGlobal(p) PROVE MapsIInv'
  BY <1>1, GlobalKeeps
<1>2. CASE hookWinAPIs \/ UNCHANGED allVars
  BY <1>2, LoopKeeps
<1>3. ASSUME NEW j \in Jobs, PrepareFiles(j) \/ LoopStep(j) \/ TerminateJob(j) PROVE MapsIInv'
  <2>1. CASE SleepJob(j) \/ ExitOverride(j) \/ ReleaseJob(j)
    BY <2>1, LoopKeeps
  <2> QED
    BY <1>3, <2>1, PrepareKeeps, AcquireKeeps, TerminateKeeps DEF LoopStep
<1>4. ASSUME NEW k \in Kids,
             \/ createProcess(k) \/ WriteStep(k) \/ ReadStep(k)
             \/ InjFault(k) /\ UNCHANGED <<runnerVars, mapVars, overVars, pipeVars>>
      PROVE  MapsIInv'
  <2>1. CASE createProcess(k)
    BY <2>1, CreateProcessKeeps
  <2>2. CASE WriteStep(k)
    BY <2>2, WriteKeeps, WrittenKeeps, CreatorKeeps DEF WriteStep
  <2>3. CASE ReadStep(k)
    BY <2>3, ReadDirKeeps, ReadMappingKeeps, ReadEndKeeps, ReadFailsKeeps, KidKeeps DEF ReadStep
  <2>4. CASE InjFault(k) /\ UNCHANGED <<runnerVars, mapVars, overVars, pipeVars>>
    BY <2>4, CreatorKeeps
  <2> QED
    BY <1>4, <2>1, <2>2, <2>3, <2>4
<1> QED
  BY <1>1, <1>2, <1>3, <1>4 DEF MapsNext

LEMMA MapsInvariance == MapsSpec => []MapsIInv
BY MapsInitInv, MapsStepInv, PTL DEF MapsSpec

\* The compilers of FileMaps take and give back their slots as those of
\* ProcessRunner do: subprocess_exec, with the injection between its yields,
\* implements the abstract runner.
THEOREM RunnerImplemented == MapsSpec => Spec
<1>1. MapsInit => Init
  BY DEF MapsInit
<1>2. [MapsNext]_allVars => [Next]_vars
  <2> SUFFICES ASSUME [MapsNext]_allVars PROVE [Next]_vars
    OBVIOUS
  <2>1. CASE UNCHANGED runnerVars
    BY <2>1 DEF runnerVars, vars
  <2>2. ASSUME NEW j \in Jobs, PrepareFiles(j) \/ LoopStep(j) \/ TerminateJob(j) PROVE [Next]_vars
    <3>1. CASE SleepJob(j) \/ AcquireJob(j) \/ ReleaseJob(j)
      BY <3>1 DEF SleepJob, AcquireJob, ReleaseJob, Next
    <3> QED
      BY <2>1, <2>2, <3>1 DEF LoopStep, PrepareFiles, ExitOverride, TerminateJob
  <2>3. ASSUME NEW k \in Kids, createProcess(k) \/ WriteStep(k) \/ ReadStep(k) PROVE UNCHANGED runnerVars
    BY <2>3 DEF createProcess, WriteStep, WriteEntry, Written,
                ReadStep, readDir, readMapping, readEnd, readFails
  <2>4. (\E p \in Spelled : mapFileGlobal(p) \/ unmapFileGlobal(p)) \/ hookWinAPIs \/ UNCHANGED allVars
          => UNCHANGED runnerVars
    BY DEF mapFileGlobal, unmapFileGlobal, hookWinAPIs, allVars
  <2> QED
    BY <2>1, <2>2, <2>3, <2>4 DEF MapsNext
<1> QED
  BY <1>1, <1>2, PTL DEF MapsSpec, Spec

\* Hence at most Limit compilers run at once, however their injections, ends
\* and terminations interleave (runner.py:480-496) ...
THEOREM CompilersRespectSlots == MapsSpec => []SlotsRespected
BY RunnerImplemented, SlotsAreRespected, PTL

\* ... and the event neither spins the loop nor loses a wake-up.
THEOREM CompilersAreWoken == MapsSpec => []EventInv
BY RunnerImplemented, EventIsRight, PTL

\* Initialize and writeMappings are in step, whatever the maps and the size of
\* the pipe: no entry is taken for a directory, no directory for an entry, and
\* maps and pipes have their types (mapFiles.cpp, writeMappings, Initialize).
THEOREM PipesAreInStep == MapsSpec => []PipeInv
<1>1. MapsIInv /\ TypeOK => PipeInv
  <2> SUFFICES ASSUME MapsIInv, TypeOK PROVE PipeInv
    OBVIOUS
  <2>1. \A k \in Kids : Len(pipe[k]) <= PipeSize
    BY PipeParts DEF PipeOf
  <2>2. \A k \in Kids : reading[k].left \in Nat
    BY PipeParts DEF Reading
  <2>3. MapsTypeOK
    BY <2>1, <2>2 DEF MapsTypeOK, MapsIInv, KidTypes, ServerTypes, OverTypes
  <2>4. ASSUME NEW k \in Kids, kid[k] = "init", pipe[k] # <<>>
        PROVE  Head(pipe[k]).op = "file" <=> reading[k].left > 0
    <3>1. PipeOf("init", pipe[k], out[k], reading[k], gmap[k], given[k])
      BY <2>4, PipeParts
    <3> QED
      BY <2>4, <3>1, PipeParts, PipeInStep
  <2> QED
    BY <2>3, <2>4 DEF PipeInv, InStep
<1> QED
  BY <1>1, MapsInvariance, RunnerImplemented, RunnerTypeCorrect, PTL

\* Maps with the same files resolve every path alike.
LEMMA ResolveSame ==
  ASSUME NEW a, NEW b, SameFiles(a, b), NEW p PROVE Resolve(a, p) = Resolve(b, p)
BY DEF SameFiles, Resolve, getDir, realFile, FilesIn

\* A kid that can run has the files it was given.
LEMMA RunnableSame ==
  ASSUME MapsIInv, NEW k \in Kids, Runnable(k), ~HasEmptyDir(given[k])
  PROVE  SameFiles(gmap[k], given[k]) /\ inj[k] # "none"
<1>1. kid[k] \in Late
  BY DEF Runnable, Late
<1>2. inj[k] # "none"
  BY <1>1, KidPlace DEF Stage, Late
<1> QED
  BY <1>1, <1>2, PipeParts DEF PipeOf

\* A program with the DLL in it sees what its creator meant it to see: the maps
\* arrive whole and in order, through a pipe of any size, whichever of the two
\* programs is ahead, fails or ends (mapFiles.cpp, writeMappings, Initialize).
THEOREM GivenFilesAreSeen == MapsSpec => []SeesGivenFiles
<1>1. MapsIInv => SeesGivenFiles
  BY RunnableSame, ResolveSame DEF SeesGivenFiles
<1> QED
  BY <1>1, MapsInvariance, PTL

\* A compiler opens the files of its own session, however many other sessions
\* are being prepared and started while CreateProcess is replaced
\* (server/runner.py, OverrideCreateProcess; file_map.py, FileMapComposition).
THEOREM FilesAreOwn == MapsSpec => []OwnFiles
<1>1. MapsIInv => OwnFiles
  <2> SUFFICES ASSUME MapsIInv, NEW j \in Jobs, Runnable(j), NEW p \in Spelled,
                      NEW n \in DOMAIN Composition[j], Brings(j, Composition[j][n], p)
               PROVE  \E i \in DOMAIN Composition[j], s \in prepared :
                        /\ n <= i /\ Brings(s, Composition[j][i], p)
                        /\ Resolve(gmap[j], p) = <<s, Norm[p].file>>
    BY DEF OwnFiles
  <2>1. j \in Kids /\ JobInv(j)
    BY MapsAssumption DEF MapsIInv
  <2>2. inj[j] # "none"
    BY <2>1, KidPlace DEF Runnable, Stage
  <2>3. ~HasEmptyDir(given[j]) /\ OwnGiven(j, given[j], prepared)
    BY <2>1, <2>2 DEF JobInv
  <2>4. Resolve(gmap[j], p) = Resolve(given[j], p)
    BY <2>1, <2>3, RunnableSame, ResolveSame
  <2>5. Norm[p].asDir \notin DOMAIN given[j]
    BY <2>3 DEF OwnGiven
  <2>6. PICK i \in DOMAIN Composition[j], s \in prepared :
          /\ n <= i /\ Brings(s, Composition[j][i], p)
          /\ Has(given[j], Norm[p].dir, Norm[p].file)
          /\ given[j][Norm[p].dir][Norm[p].file] = <<s, Norm[p].file>>
    BY <2>3 DEF OwnGiven
  <2>7. Resolve(given[j], p) = <<s, Norm[p].file>>
    BY <2>5, <2>6 DEF Resolve, getDir, realFile, FilesIn, Has
  <2> QED
    BY <2>4, <2>6, <2>7
<1> QED
  BY <1>1, MapsInvariance, PTL
=============================================================================
