------------------------- MODULE DetectedNodes_proofs -------------------------
(***************************************************************************)
(* No task gets lost between the queue, the awaited connections and the    *)
(* sessions, and none waits while a node is idle: for any number of nodes, *)
(* tasks and slots, whichever nodes the detector finds.                    *)
(***************************************************************************)
EXTENDS DetectedNodes, FiniteSetTheorems, TLAPS

(***************************************************************************)
(* Sequences.                                                              *)
(***************************************************************************)

\* Induction over numbers, in the form of the least counterexample.
LEMMA Least == ASSUME NEW T, T \subseteq Nat, T # {} PROVE \E x \in T : \A y \in T : x <= y
<1>1. \E x \in T : \A y \in T : ~(<<y, x>> \in OpToRel(<, Nat))
  BY WFMin, NatLessThanWellFounded
<1>2. \A x, y \in T : ~(<<y, x>> \in OpToRel(<, Nat)) => x <= y
  BY DEF OpToRel
<1> QED
  BY <1>1, <1>2

\* The function that FlattenSeq defines by recursion.
Flattens(f, seqs, n) == f = [i \in 1..n |-> IF i = 1 THEN seqs[i] ELSE f[i - 1] \o seqs[i]]

\* It exists for every initial part of the sequence ...
LEMMA FlattenExists ==
  ASSUME NEW seqs, NEW n \in Nat PROVE \E f : Flattens(f, seqs, n)
<1> DEFINE Bad == {k \in Nat : ~\E f : Flattens(f, seqs, k)}
<1> SUFFICES ASSUME Bad # {} PROVE FALSE
  OBVIOUS
<1>1. PICK k \in Bad : \A j \in Bad : k <= j
  BY Least
<1>2. k # 0
  <2> DEFINE f == [i \in 1..0 |-> IF i = 1 THEN seqs[i] ELSE <<>>]
  <2>1. f = [i \in 1..0 |-> IF i = 1 THEN seqs[i] ELSE f[i - 1] \o seqs[i]]
    OBVIOUS
  <2>2. Flattens(f, seqs, 0)
    BY <2>1 DEF Flattens
  <2> QED
    BY <2>2
<1>3. k - 1 \in Nat /\ k - 1 \notin Bad
  BY <1>1, <1>2
<1>4. PICK g : Flattens(g, seqs, k - 1)
  BY <1>3
<1> DEFINE e(i) == IF i = 1 THEN seqs[i] ELSE g[i - 1] \o seqs[i]
           f == [i \in 1..k |-> e(i)]
<1>5. \A i \in 1..(k - 1) : g[i] = e(i)
  BY <1>4 DEF Flattens
<1>6. \A i \in 1..k : i # 1 => f[i - 1] = g[i - 1]
  <2> SUFFICES ASSUME NEW i \in 1..k, i # 1 PROVE f[i - 1] = g[i - 1]
    OBVIOUS
  <2>1. i - 1 \in 1..(k - 1) /\ i - 1 \in 1..k
    BY <1>3
  <2> HIDE DEF e
  <2>2. f[i - 1] = e(i - 1)
    BY <2>1
  <2> QED
    BY <2>1, <2>2, <1>5
<1>7. f = [i \in 1..k |-> IF i = 1 THEN seqs[i] ELSE f[i - 1] \o seqs[i]]
  <2>1. \A i \in 1..k : e(i) = IF i = 1 THEN seqs[i] ELSE f[i - 1] \o seqs[i]
    BY <1>6
  <2> HIDE DEF e
  <2> QED
    BY <2>1
<1>8. Flattens(f, seqs, k)
  BY <1>7 DEF Flattens
<1> QED
  BY <1>8

\* ... and what it computes is a sequence of elements of the sequences.
LEMMA FlattenType ==
  ASSUME NEW S, NEW seqs \in Seq(Seq(S)) PROVE FlattenSeq(seqs) \in Seq(S)
<1>1. CASE Len(seqs) = 0
  <2>1. FlattenSeq(seqs) = seqs /\ seqs = <<>>
    BY <1>1 DEF FlattenSeq
  <2> QED
    BY <2>1
<1>2. CASE Len(seqs) # 0
  <2>1. Len(seqs) \in Nat /\ Len(seqs) \in 1..Len(seqs)
    BY <1>2
  <2> DEFINE f == CHOOSE g : Flattens(g, seqs, Len(seqs))
  <2>2. Flattens(f, seqs, Len(seqs))
    BY <2>1, FlattenExists
  <2>3. FlattenSeq(seqs) = f[Len(seqs)]
    BY <1>2 DEF FlattenSeq, Flattens
  <2> HIDE DEF f
  <2> DEFINE Bad == {k \in Nat : k \in 1..Len(seqs) /\ f[k] \notin Seq(S)}
  <2>4. Bad = {}
    <3> SUFFICES ASSUME Bad # {} PROVE FALSE
      OBVIOUS
    <3>1. PICK k \in Bad : \A j \in Bad : k <= j
      BY Least
    <3>2. f[k] = IF k = 1 THEN seqs[k] ELSE f[k - 1] \o seqs[k]
      BY <2>2 DEF Flattens
    <3>3. seqs[k] \in Seq(S)
      BY <2>1
    <3>4. k # 1 => f[k - 1] \in Seq(S)
      BY <2>1, <3>1
    <3>5. k # 1 => f[k - 1] \o seqs[k] \in Seq(S)
      BY <3>3, <3>4
    <3>6. f[k] \in Seq(S)
      BY <3>2, <3>3, <3>5
    <3> QED
      BY <3>6
  <2> QED
    BY <2>1, <2>3, <2>4
<1> QED
  BY <1>1, <1>2

\* The elements of a sequence.
LEMMA Elements ==
  ASSUME NEW S, NEW s \in Seq(S), NEW x
  PROVE  x \in ToSet(s) <=> \E i \in 1..Len(s) : x = s[i]
BY DEF ToSet

\* The elements of two sequences, one behind the other.
LEMMA ElementsConcat ==
  ASSUME NEW S, NEW s \in Seq(S), NEW u \in Seq(S), NEW x
  PROVE  /\ s \o u \in Seq(S) /\ Len(s \o u) = Len(s) + Len(u)
         /\ x \in ToSet(s) \cup ToSet(u) => x \in ToSet(s \o u)
<1>1. s \o u \in Seq(S) /\ Len(s \o u) = Len(s) + Len(u)
  OBVIOUS
<1>2. ASSUME NEW i \in 1..Len(s) PROVE i \in 1..Len(s \o u) /\ (s \o u)[i] = s[i]
  OBVIOUS
<1>3. ASSUME NEW i \in 1..Len(u) PROVE Len(s) + i \in 1..Len(s \o u) /\ (s \o u)[Len(s) + i] = u[i]
  OBVIOUS
<1>4. ASSUME x \in ToSet(s) PROVE x \in ToSet(s \o u)
  <2>1. PICK i \in 1..Len(s) : x = s[i]
    BY <1>4, Elements
  <2>2. i \in 1..Len(s \o u) /\ x = (s \o u)[i]
    BY <1>2, <2>1
  <2> QED
    BY <1>1, <2>2, Elements
<1>5. ASSUME x \in ToSet(u) PROVE x \in ToSet(s \o u)
  <2>1. PICK i \in 1..Len(u) : x = u[i]
    BY <1>5, Elements
  <2>2. Len(s) + i \in 1..Len(s \o u) /\ x = (s \o u)[Len(s) + i]
    BY <1>3, <2>1
  <2> QED
    BY <1>1, <2>2, Elements
<1> QED
  BY <1>1, <1>4, <1>5

\* An element is taken out.
LEMMA RemoveAtFacts ==
  ASSUME NEW S, NEW s \in Seq(S), NEW i \in 1..Len(s)
  PROVE  /\ RemoveAt(s, i) \in Seq(S) /\ Len(RemoveAt(s, i)) = Len(s) - 1
         /\ \A x \in ToSet(s) : x # s[i] => x \in ToSet(RemoveAt(s, i))
<1> DEFINE a == SubSeq(s, 1, i - 1)
           b == SubSeq(s, i + 1, Len(s))
<1>0. Len(s) \in Nat /\ i \in Nat
  OBVIOUS
<1>1. a \in Seq(S) /\ Len(a) = i - 1 /\ \A j \in 1..(i - 1) : a[j] = s[j]
  BY <1>0
<1>2. b \in Seq(S) /\ Len(b) = Len(s) - i /\ \A j \in 1..(Len(s) - i) : b[j] = s[i + j]
  BY <1>0
<1>3. RemoveAt(s, i) = a \o b
  BY DEF RemoveAt
<1> HIDE DEF a, b
<1>4. ASSUME NEW x \in ToSet(s), x # s[i] PROVE x \in ToSet(a \o b)
  <2>1. PICK j \in 1..Len(s) : x = s[j]
    BY Elements
  <2>2. j < i \/ j > i
    BY <1>4, <2>1
  <2>3. CASE j < i
    <3>1. j \in 1..Len(a) /\ x = a[j]
      BY <1>0, <1>1, <2>1, <2>3
    <3>2. x \in ToSet(a)
      BY <1>1, <3>1, Elements
    <3> QED
      BY <1>1, <1>2, <3>2, ElementsConcat
  <2>4. CASE j > i
    <3>1. j - i \in 1..Len(b) /\ i + (j - i) = j
      BY <1>0, <1>2, <2>1, <2>4
    <3>2. x = b[j - i]
      BY <1>2, <2>1, <3>1
    <3>3. x \in ToSet(b)
      BY <1>2, <3>1, <3>2, Elements
    <3> QED
      BY <1>1, <1>2, <3>3, ElementsConcat
  <2> QED
    BY <2>2, <2>3, <2>4
<1>5. a \o b \in Seq(S) /\ Len(a \o b) = Len(a) + Len(b)
  BY <1>1, <1>2, ElementsConcat
<1>6. Len(a) + Len(b) = Len(s) - 1
  BY <1>0, <1>1, <1>2
<1> QED
  BY <1>3, <1>4, <1>5, <1>6

\* RemoveFirst takes one occurrence away.
LEMMA RemoveFirstFacts ==
  ASSUME NEW S, NEW s \in Seq(S), NEW e \in ToSet(s)
  PROVE  /\ RemoveFirst(s, e) \in Seq(S) /\ Len(RemoveFirst(s, e)) = Len(s) - 1
         /\ \A x \in ToSet(s) : x # e => x \in ToSet(RemoveFirst(s, e))
<1> DEFINE I == {i \in 1..Len(s) : s[i] = e}
<1>1. \E i \in 1..Len(s) : s[i] = e
  BY Elements
<1>2. I \subseteq Nat /\ I # {}
  BY <1>1
<1>3. Min(I) \in I
  BY <1>2, Least DEF Min
<1>4. RemoveFirst(s, e) = RemoveAt(s, Min(I))
  BY <1>1, <1>2 DEF RemoveFirst, SelectInSeq
<1> HIDE DEF I
<1>5. Min(I) \in 1..Len(s) /\ s[Min(I)] = e
  BY <1>3 DEF I
<1> QED
  BY <1>4, <1>5, RemoveAtFacts

(***************************************************************************)
(* Work for a node.                                                        *)
(***************************************************************************)

\* The head of a sequence that fits a number of places, and the rest.
LEMMA Split ==
  ASSUME NEW S, NEW s \in Seq(S), NEW k \in Int
  PROVE  LET a == FirstOf(s, k)
             b == Without(s, Len(a))
         IN  /\ a \in Seq(S) /\ b \in Seq(S)
             /\ \A x \in ToSet(s) : x \in ToSet(a) \/ x \in ToSet(b)
             /\ s # <<>> /\ k > 0 => Len(a) > 0
             /\ b # <<>> => Len(a) >= k
             /\ s = <<>> => b = <<>>
<1> DEFINE n == IF k < Len(s) THEN (IF k < 0 THEN 0 ELSE k) ELSE Len(s)
           a == FirstOf(s, k)
           b == Without(s, Len(a))
<1>1. Len(s) \in Nat /\ n \in 0..Len(s)
  OBVIOUS
<1>2. a \in Seq(S) /\ Len(a) = n /\ \A i \in 1..n : a[i] = s[i]
  BY DEF FirstOf
<1> HIDE DEF n
<1>3. b \in Seq(S) /\ Len(b) = Len(s) - n /\ \A i \in 1..(Len(s) - n) : b[i] = s[n + i]
  BY <1>1, <1>2 DEF Without
<1> HIDE DEF a, b
<1>4. ASSUME NEW x \in ToSet(s) PROVE x \in ToSet(a) \/ x \in ToSet(b)
  <2>1. PICK j \in 1..Len(s) : x = s[j]
    BY Elements
  <2>2. CASE j <= n
    <3>1. j \in 1..Len(a) /\ x = a[j]
      BY <1>1, <1>2, <2>1, <2>2
    <3> QED
      BY <1>2, <3>1, Elements
  <2>3. CASE ~(j <= n)
    <3>1. j - n \in 1..Len(b) /\ n + (j - n) = j
      BY <1>1, <1>3, <2>3
    <3>2. x = b[j - n]
      BY <1>1, <1>3, <2>1, <3>1
    <3> QED
      BY <1>3, <3>1, <3>2, Elements
  <2> QED
    BY <2>2, <2>3
<1>5. s # <<>> /\ k > 0 => Len(a) > 0
  <2>1. s # <<>> => Len(s) > 0
    OBVIOUS
  <2> QED
    BY <1>1, <1>2, <2>1 DEF n
<1>6. b # <<>> => Len(a) >= k
  <2>1. b # <<>> => Len(b) > 0
    BY <1>3
  <2> QED
    BY <1>1, <1>2, <1>3, <2>1 DEF n
<1>7. s = <<>> => b = <<>>
  <2>1. ASSUME s = <<>> PROVE Len(b) = 0
    BY <1>1, <1>3, <2>1
  <2> QED
    BY <1>3, <2>1
<1> QED
  BY <1>2, <1>3, <1>4, <1>5, <1>6, <1>7 DEF a, b

\* The tasks that have come from the scanner.
Begun == {t \in Tasks : stage[t] # "new"}

\* What a node can steal are tasks.
LEMMA LootType ==
  ASSUME running' \in [Nodes -> Seq(Begun')], NEW from \in Nodes, NEW n \in Nodes, NEW ratio \in Nat
  PROVE  Loot(from, n, ratio) \in Seq(Begun')
<1> DEFINE r == running'[from]
           u == SubSeq(r, ratio * JobSlots + 1, Len(r))
           viable == Reverse(u)
           stolen(t) == IF owner[t] = NoNode /\ t \notin ToSet(running'[n]) THEN <<t>> ELSE <<>>
           all == [i \in DOMAIN viable |-> stolen(viable[i])]
<1>1. r \in Seq(Begun') /\ Len(r) \in Nat
  OBVIOUS
<1>2. ratio * JobSlots \in Nat
  BY SlotsAssumption
<1> HIDE DEF r
<1>3. u \in Seq(Begun')
  BY <1>1, <1>2
<1> HIDE DEF u
<1>4. viable \in Seq(Begun')
  BY <1>3 DEF Reverse
<1> HIDE DEF viable
<1>5. \A t \in Begun' : stolen(t) \in Seq(Begun')
  OBVIOUS
<1> HIDE DEF stolen
<1>6. all \in Seq(Seq(Begun'))
  <2>1. Len(viable) \in Nat /\ DOMAIN viable = 1..Len(viable)
    BY <1>4
  <2>2. \A i \in DOMAIN viable : stolen(viable[i]) \in Seq(Begun')
    BY <1>4, <1>5
  <2> QED
    BY <2>1, <2>2
<1>7. FlattenSeq(all) \in Seq(Begun')
  BY <1>6, FlattenType
<1> QED
  BY <1>7 DEF Loot, all, stolen, viable, u, r

\* A loot comes of some order of the nodes.
LEMMA LootsOf ==
  ASSUME NEW n, NEW stolen, stolen \in Loots(n)
  PROVE  \E order \in SetToSeqs(Nodes \ {n}), ratio \in [Nodes \ {n} -> 0..MaxRatio] :
           stolen = LootOfAll(order, n, ratio)
BY DEF Loots

\* What is stolen is a sequence of tasks that have begun.
LEMMA LootsType ==
  ASSUME running' \in [Nodes -> Seq(Begun')], NEW n \in Nodes, NEW stolen, stolen \in Loots(n)
  PROVE  stolen \in Seq(Begun')
<1> DEFINE others == Nodes \ {n}
<1>1. PICK order \in SetToSeqs(others), ratio \in [others -> 0..MaxRatio] :
        stolen = LootOfAll(order, n, ratio)
  BY LootsOf
<1>2. Cardinality(others) \in Nat
  BY NodesAssumption, FS_Subset, FS_CardinalityType
<1> DEFINE k == Cardinality(others)
<1>3. order \in [1..k -> others]
  BY DEF SetToSeqs
<1> HIDE DEF k
<1>4. k \in Nat
  BY <1>2 DEF k
<1> DEFINE loot(i) == Loot(order[i], n, ratio[order[i]])
           loots == [i \in DOMAIN order |-> loot(i)]
<1>5. \A i \in 1..k : loot(i) \in Seq(Begun')
  <2> SUFFICES ASSUME NEW i \in 1..k PROVE loot(i) \in Seq(Begun')
    OBVIOUS
  <2>1. order[i] \in Nodes /\ ratio[order[i]] \in Nat
    BY <1>3, SlotsAssumption
  <2> QED
    BY <2>1, LootType
<1> HIDE DEF loot
<1>6. loots \in Seq(Seq(Begun'))
  BY <1>3, <1>4, <1>5
<1>7. FlattenSeq(loots) \in Seq(Begun')
  BY <1>6, FlattenType
<1> QED
  BY <1>1, <1>7 DEF loot, LootOfAll

\* What __find_work finds are the tasks taken from the queue and perhaps more.
LEMMA WorkType ==
  ASSUME running' \in [Nodes -> Seq(Begun')], queue \in Seq(Begun'), NEW n \in Nodes,
         NEW work, work \in WorkFor(n)
  PROVE  /\ FreeSlots(n) \in Int /\ Taken(n) \in Seq(Begun')
         /\ \E more \in Seq(Begun') : work = Taken(n) \o more
<1>1. FreeSlots(n) \in Int
  BY SlotsAssumption DEF FreeSlots
<1>2. Taken(n) \in Seq(Begun')
  BY <1>1, Split DEF Taken
<1> DEFINE left == FreeSlots(n) - Len(Taken(n))
<1>3. left \in Int
  BY <1>1, <1>2
<1>4. work = Taken(n) \/ \E stolen \in Loots(n) : work = Taken(n) \o FirstOf(stolen, left)
  BY DEF WorkFor
<1> HIDE DEF left
<1>5. CASE work = Taken(n)
  <2>1. Taken(n) = Taken(n) \o <<>> /\ <<>> \in Seq(Begun')
    BY <1>2
  <2> QED
    BY <1>1, <1>2, <1>5, <2>1
<1>6. ASSUME NEW stolen, stolen \in Loots(n), work = Taken(n) \o FirstOf(stolen, left)
      PROVE  \E more \in Seq(Begun') : work = Taken(n) \o more
  <2>1. stolen \in Seq(Begun')
    BY <1>6, LootsType
  <2>2. FirstOf(stolen, left) \in Seq(Begun')
    BY <1>3, <2>1, Split
  <2> QED
    BY <1>6, <2>2
<1> QED
  BY <1>1, <1>2, <1>4, <1>5, <1>6

(***************************************************************************)
(* The inductive invariant: the tasks that are somewhere have come from    *)
(* the scanner, and the owner of a task that is not answered runs, so that *)
(* whoever else ends a session of the task leaves one behind.              *)
(***************************************************************************)
BegunInv ==
  /\ queue \in Seq(Begun) /\ connecting \in [Nodes -> Seq(Begun)] /\ running \in [Nodes -> Seq(Begun)]
  /\ \A t \in Tasks : owner[t] # NoNode => t \in Begun
OwnersRun ==
  \A t \in Tasks : stage[t] = "scheduled" /\ owner[t] # NoNode => t \in ToSet(running[owner[t]])
PlaceInv == TypeOK /\ BegunInv /\ TasksPlaced /\ OwnersRun

Placed(t) ==
  \/ t \in ToSet(queue) \cup dropped
  \/ \E n \in Nodes : t \in ToSet(connecting[n]) \cup ToSet(running[n])
Load(n) == Len(running[n]) + Len(connecting[n])

\* Tasks are added to those a node's connections are awaited for.
LEMMA ConnectForFacts ==
  ASSUME NEW conn \in [Nodes -> Seq(Begun')], NEW n \in Nodes, NEW tasks \in Seq(Begun'),
         NEW new, new = ConnectFor(conn, n, tasks)
  PROVE  /\ new \in [Nodes -> Seq(Begun')]
         /\ \A m \in Nodes : ToSet(conn[m]) \subseteq ToSet(new[m]) /\ Len(new[m]) >= Len(conn[m])
         /\ ToSet(tasks) \subseteq ToSet(new[n])
         /\ Len(new[n]) = Len(conn[n]) + Len(tasks)
<1>1. conn[n] \o tasks \in Seq(Begun')
  OBVIOUS
<1>2. /\ new \in [Nodes -> Seq(Begun')] /\ new[n] = conn[n] \o tasks
      /\ \A m \in Nodes \ {n} : new[m] = conn[m]
  BY <1>1 DEF ConnectFor
<1>3. /\ ToSet(conn[n]) \subseteq ToSet(new[n]) /\ ToSet(tasks) \subseteq ToSet(new[n])
      /\ Len(new[n]) = Len(conn[n]) + Len(tasks)
  <2>1. conn[n] \in Seq(Begun')
    OBVIOUS
  <2> QED
    BY <1>2, <2>1, ElementsConcat
<1>4. \A m \in Nodes : Len(conn[m]) \in Nat /\ Len(tasks) \in Nat
  OBVIOUS
<1>5. \A m \in Nodes : ToSet(conn[m]) \subseteq ToSet(new[m]) /\ Len(new[m]) >= Len(conn[m])
  <2> SUFFICES ASSUME NEW m \in Nodes
               PROVE  ToSet(conn[m]) \subseteq ToSet(new[m]) /\ Len(new[m]) >= Len(conn[m])
    OBVIOUS
  <2>1. CASE m = n
    <3>1. Len(new[m]) >= Len(conn[m])
      BY <1>3, <1>4, <2>1
    <3> QED
      BY <1>3, <2>1, <3>1
  <2>2. CASE m # n
    <3>1. new[m] = conn[m]
      BY <1>2, <2>2
    <3> QED
      BY <1>4, <3>1
  <2> QED
    BY <2>1, <2>2
<1> QED
  BY <1>2, <1>3, <1>5

\* One task, alone or at either end of others.
LEMMA Single ==
  ASSUME NEW t \in Begun', NEW q \in Seq(Begun')
  PROVE  /\ <<t>> \in Seq(Begun') /\ <<t>> \o q \in Seq(Begun') /\ Append(q, t) \in Seq(Begun')
         /\ t \in ToSet(<<t>>) /\ Len(<<t>>) = 1
         /\ t \in ToSet(<<t>> \o q) /\ t \in ToSet(Append(q, t))
         /\ ToSet(q) \subseteq ToSet(<<t>> \o q) /\ ToSet(q) \subseteq ToSet(Append(q, t))
         /\ Len(Append(q, t)) = Len(q) + 1
<1>1. <<t>> \in Seq(Begun') /\ Len(<<t>>) = 1 /\ <<t>>[1] = t
  OBVIOUS
<1>2. t \in ToSet(<<t>>)
  <2>1. 1 \in 1..Len(<<t>>) /\ t = <<t>>[1]
    BY <1>1
  <2> QED
    BY <1>1, <2>1, Elements
<1>3. /\ <<t>> \o q \in Seq(Begun') /\ t \in ToSet(<<t>> \o q)
      /\ ToSet(q) \subseteq ToSet(<<t>> \o q)
  BY <1>1, <1>2, ElementsConcat
<1>4. Append(q, t) = q \o <<t>>
  OBVIOUS
<1>5. /\ Append(q, t) \in Seq(Begun') /\ t \in ToSet(Append(q, t))
      /\ ToSet(q) \subseteq ToSet(Append(q, t)) /\ Len(Append(q, t)) = Len(q) + 1
  BY <1>1, <1>2, <1>4, ElementsConcat
<1> QED
  BY <1>1, <1>2, <1>3, <1>5

\* schedule_task loses nothing, and queues only behind others or when all nodes
\* are filled.
LEMMA Scheduled ==
  ASSUME NEW t \in Begun', NEW q \in Seq(Begun'), NEW conn \in [Nodes -> Seq(Begun')], NEW high,
         nodeInfo \subseteq Nodes, ScheduleTask(t, q, conn, high)
  PROVE  /\ queue' \in Seq(Begun') /\ connecting' \in [Nodes -> Seq(Begun')]
         /\ ToSet(q) \subseteq ToSet(queue')
         /\ \A m \in Nodes :
              ToSet(conn[m]) \subseteq ToSet(connecting'[m]) /\ Len(connecting'[m]) >= Len(conn[m])
         /\ t \in ToSet(queue') \/ \E m \in Nodes : t \in ToSet(connecting'[m])
         /\ q = <<>> /\ queue' # <<>> => BestNodes = {}
<1>1. CASE (q # <<>> \/ BestNodes = {}) /\ queue' \in {<<t>> \o q, Append(q, t)} /\ connecting' = conn
  <2>3. /\ <<t>> \o q \in Seq(Begun') /\ Append(q, t) \in Seq(Begun')
        /\ t \in ToSet(<<t>> \o q) /\ t \in ToSet(Append(q, t))
        /\ ToSet(q) \subseteq ToSet(<<t>> \o q) /\ ToSet(q) \subseteq ToSet(Append(q, t))
    BY Single
  <2>1. queue' \in Seq(Begun') /\ t \in ToSet(queue') /\ ToSet(q) \subseteq ToSet(queue')
    BY <1>1, <2>3
  <2>2. \A m \in Nodes : Len(connecting'[m]) >= Len(conn[m])
    <3>1. \A m \in Nodes : Len(conn[m]) \in Nat
      OBVIOUS
    <3> QED
      BY <1>1, <3>1
  <2> QED
    BY <1>1, <2>1, <2>2
<1>2. ASSUME q = <<>>, NEW n \in Nodes, queue' = q, connecting' = ConnectFor(conn, n, <<t>>)
      PROVE  /\ queue' \in Seq(Begun') /\ connecting' \in [Nodes -> Seq(Begun')]
             /\ ToSet(q) \subseteq ToSet(queue')
             /\ \A m \in Nodes :
                  ToSet(conn[m]) \subseteq ToSet(connecting'[m]) /\ Len(connecting'[m]) >= Len(conn[m])
             /\ \E m \in Nodes : t \in ToSet(connecting'[m])
             /\ queue' = <<>>
  <2>1. <<t>> \in Seq(Begun') /\ t \in ToSet(<<t>>)
    BY Single
  <2>2. /\ connecting' \in [Nodes -> Seq(Begun')] /\ t \in ToSet(connecting'[n])
        /\ \A m \in Nodes :
             ToSet(conn[m]) \subseteq ToSet(connecting'[m]) /\ Len(connecting'[m]) >= Len(conn[m])
    BY <1>2, <2>1, ConnectForFacts
  <2> QED
    BY <1>2, <2>2
<1>3. \/ (q # <<>> \/ BestNodes = {}) /\ queue' \in {<<t>> \o q, Append(q, t)} /\ connecting' = conn
      \/ q = <<>> /\ \E n \in BestNodes : queue' = q /\ connecting' = ConnectFor(conn, n, <<t>>)
  BY DEF ScheduleTask
<1>4. BestNodes \subseteq Nodes
  BY DEF BestNodes
<1> QED
  BY <1>1, <1>2, <1>3, <1>4

\* The numbers: a node that ends a session while tasks wait is filled again.
LEMMA FilledAgain ==
  ASSUME NEW slots \in Nat, NEW r0 \in Nat, NEW r1 \in Nat, NEW c0 \in Nat, NEW c1 \in Nat,
         NEW taken \in Nat, NEW more \in Nat, NEW conn \in Nat,
         r1 = r0 - 1, r0 + c0 > slots, conn = c0 + (taken + more), c1 >= conn,
         slots + 1 - r1 > 0 => taken > 0
  PROVE  r1 + c1 > slots
OBVIOUS

\* The end of a session, with the task rescheduled or not.
Ended(t, n, again) ==
  /\ running' = [running EXCEPT ![n] = RemoveFirst(@, t)]
  /\ \E work : work \in WorkFor(n) /\
       LET q    == Without(queue, Len(Taken(n)))
           conn == ConnectFor(connecting, n, work)
       IN  \/ again = "no" /\ queue' = q /\ connecting' = conn
           \/ again = "yes" /\ ScheduleTask(t, q, conn, TRUE)

\* Nothing is lost but the session, and a node that ends one while tasks wait
\* takes at least as many as it has room for.
LEMMA EndedFacts ==
  ASSUME queue \in Seq(Begun'), connecting \in [Nodes -> Seq(Begun')], running \in [Nodes -> Seq(Begun')],
         nodeInfo \subseteq Nodes, NEW t \in Begun', NEW n \in Nodes, t \in ToSet(running[n]),
         NEW again \in {"no", "yes"}, Ended(t, n, again)
  PROVE  /\ queue' \in Seq(Begun') /\ connecting' \in [Nodes -> Seq(Begun')]
         /\ running' \in [Nodes -> Seq(Begun')]
         /\ \A m \in Nodes \ {n} : running'[m] = running[m]
         /\ \A x \in ToSet(running[n]) : x # t => x \in ToSet(running'[n])
         /\ \A x \in ToSet(queue) : x \in ToSet(queue') \/ x \in ToSet(connecting'[n])
         /\ \A m \in Nodes :
              /\ ToSet(connecting[m]) \subseteq ToSet(connecting'[m])
              /\ Len(connecting'[m]) >= Len(connecting[m])
         /\ again = "yes" => t \in ToSet(queue') \/ \E m \in Nodes : t \in ToSet(connecting'[m])
         /\ queue # <<>> /\ Load(n) > JobSlots => Load(n)' > JobSlots
         /\ queue = <<>> /\ queue' # <<>> => again = "yes" /\ BestNodes = {}
<1>1. /\ running' \in [Nodes -> Seq(Begun')] /\ Len(running'[n]) = Len(running[n]) - 1
      /\ \A m \in Nodes \ {n} : running'[m] = running[m]
      /\ \A x \in ToSet(running[n]) : x # t => x \in ToSet(running'[n])
  <2>1. /\ RemoveFirst(running[n], t) \in Seq(Begun')
        /\ Len(RemoveFirst(running[n], t)) = Len(running[n]) - 1
        /\ \A x \in ToSet(running[n]) : x # t => x \in ToSet(RemoveFirst(running[n], t))
    BY RemoveFirstFacts
  <2>2. running' = [running EXCEPT ![n] = RemoveFirst(running[n], t)]
    BY DEF Ended
  <2> QED
    BY <2>1, <2>2
<1> DEFINE q == Without(queue, Len(Taken(n)))
<1>2. PICK work : /\ work \in WorkFor(n)
                  /\ \/ again = "no" /\ queue' = q /\ connecting' = ConnectFor(connecting, n, work)
                     \/ again = "yes" /\ ScheduleTask(t, q, ConnectFor(connecting, n, work), TRUE)
  BY DEF Ended
<1> DEFINE conn == ConnectFor(connecting, n, work)
<1>3. /\ FreeSlots(n) \in Int /\ Taken(n) \in Seq(Begun')
      /\ \E more \in Seq(Begun') : work = Taken(n) \o more
  <2>1. running' \in [Nodes -> Seq(Begun')] /\ work \in WorkFor(n)
    BY <1>1, <1>2
  <2> QED
    BY <2>1, WorkType
<1>4. PICK more \in Seq(Begun') : work = Taken(n) \o more
  BY <1>3
<1>5. /\ q \in Seq(Begun')
      /\ \A x \in ToSet(queue) : x \in ToSet(Taken(n)) \/ x \in ToSet(q)
      /\ queue # <<>> /\ FreeSlots(n) > 0 => Len(Taken(n)) > 0
      /\ queue = <<>> => q = <<>>
  BY <1>3, Split DEF Taken
<1>6. /\ work \in Seq(Begun') /\ Len(work) = Len(Taken(n)) + Len(more)
      /\ ToSet(Taken(n)) \subseteq ToSet(work)
  BY <1>3, <1>4, ElementsConcat
<1>7. /\ conn \in [Nodes -> Seq(Begun')]
      /\ \A m \in Nodes :
           ToSet(connecting[m]) \subseteq ToSet(conn[m]) /\ Len(conn[m]) >= Len(connecting[m])
      /\ ToSet(work) \subseteq ToSet(conn[n])
      /\ Len(conn[n]) = Len(connecting[n]) + Len(work)
  <2>1. work \in Seq(Begun') /\ conn = ConnectFor(connecting, n, work)
    BY <1>6
  <2> HIDE DEF conn
  <2>2. conn \in [Nodes -> Seq(Begun')] /\ ToSet(work) \subseteq ToSet(conn[n])
    BY <2>1, ConnectForFacts
  <2>3. \A m \in Nodes : ToSet(connecting[m]) \subseteq ToSet(conn[m])
    BY <2>1, ConnectForFacts
  <2>4. \A m \in Nodes : Len(conn[m]) >= Len(connecting[m])
    BY <2>1, ConnectForFacts
  <2>5. Len(conn[n]) = Len(connecting[n]) + Len(work)
    <3>1. conn[n] = connecting[n] \o work /\ connecting[n] \in Seq(Begun')
      BY <2>1 DEF ConnectFor
    <3> QED
      BY <2>1, <3>1, ElementsConcat
  <2> QED
    BY <2>2, <2>3, <2>4, <2>5
<1> HIDE DEF q, conn
<1>8. /\ queue' \in Seq(Begun') /\ connecting' \in [Nodes -> Seq(Begun')]
      /\ ToSet(q) \subseteq ToSet(queue')
      /\ \A m \in Nodes :
           ToSet(conn[m]) \subseteq ToSet(connecting'[m]) /\ Len(connecting'[m]) >= Len(conn[m])
      /\ again = "yes" => t \in ToSet(queue') \/ \E m \in Nodes : t \in ToSet(connecting'[m])
      /\ q = <<>> /\ queue' # <<>> => again = "yes" /\ BestNodes = {}
  <2>1. CASE again = "no" /\ queue' = q /\ connecting' = conn
    <3>1. \A m \in Nodes : Len(conn[m]) \in Nat
      BY <1>7
    <3> QED
      BY <1>5, <1>7, <2>1, <3>1
  <2>2. CASE again = "yes" /\ ScheduleTask(t, q, conn, TRUE)
    BY <1>5, <1>7, <2>2, Scheduled
  <2> QED
    BY <1>2, <2>1, <2>2 DEF conn
<1>9. \A m \in Nodes :
        ToSet(connecting[m]) \subseteq ToSet(connecting'[m]) /\ Len(connecting'[m]) >= Len(connecting[m])
  <2>1. \A m \in Nodes : Len(connecting'[m]) \in Nat /\ Len(conn[m]) \in Nat /\ Len(connecting[m]) \in Nat
    BY <1>7, <1>8
  <2> QED
    BY <1>7, <1>8, <2>1
<1>10. \A x \in ToSet(queue) : x \in ToSet(queue') \/ x \in ToSet(connecting'[n])
  BY <1>5, <1>6, <1>7, <1>8
<1>11. ASSUME queue # <<>>, Load(n) > JobSlots PROVE Load(n)' > JobSlots
  <2>0. \A s \in Seq(Begun') : Len(s) \in Nat
    OBVIOUS
  <2>1. /\ Len(running[n]) \in Nat /\ Len(running'[n]) \in Nat /\ Len(connecting[n]) \in Nat
        /\ Len(connecting'[n]) \in Nat /\ Len(conn[n]) \in Nat /\ Len(Taken(n)) \in Nat
        /\ Len(more) \in Nat /\ JobSlots \in Nat
    <3>1. /\ running[n] \in Seq(Begun') /\ running'[n] \in Seq(Begun') /\ connecting[n] \in Seq(Begun')
          /\ connecting'[n] \in Seq(Begun') /\ conn[n] \in Seq(Begun') /\ Taken(n) \in Seq(Begun')
      BY <1>1, <1>3, <1>7, <1>8
    <3> QED
      BY <2>0, <3>1, SlotsAssumption
  <2>2. /\ Len(running'[n]) = Len(running[n]) - 1
        /\ Len(running[n]) + Len(connecting[n]) > JobSlots
        /\ Len(conn[n]) = Len(connecting[n]) + (Len(Taken(n)) + Len(more))
        /\ Len(connecting'[n]) >= Len(conn[n])
    BY <1>1, <1>6, <1>7, <1>8, <1>11 DEF Load
  <2>3. JobSlots + 1 - Len(running'[n]) > 0 => Len(Taken(n)) > 0
    BY <1>5, <1>11 DEF FreeSlots
  <2>4. Len(running'[n]) + Len(connecting'[n]) > JobSlots
    BY <2>1, <2>2, <2>3, FilledAgain
  <2> QED
    BY <2>4 DEF Load
<1> QED
  BY <1>1, <1>5, <1>8, <1>9, <1>10, <1>11

(***************************************************************************)
(* The steps.                                                              *)
(***************************************************************************)

\* A session ends in one of the two ways.
LEMMA EndsEnded ==
  ASSUME NEW t, NEW n, SessionEnds(t, n)
  PROVE  /\ t \in ToSet(running[n])
         /\ UNCHANGED <<nodeInfo, polled, link, owner, dropped>>
         /\ \/ Ended(t, n, "no")
            \/ owner[t] = NoNode /\ ~Elsewhere(t, n) /\ Ended(t, n, "yes")
         /\ \/ owner[t] = n /\ stage' = [stage EXCEPT ![t] = "answered"] /\ timed' = [timed EXCEPT ![n] = TRUE]
            \/ /\ UNCHANGED <<stage, timed>> /\ NotOwner(t, n)
               /\ owner[t] # NoNode \/ Elsewhere(t, n) \/ Ended(t, n, "yes")
<1>1. ASSUME SessionCompleted(t, n, FALSE) PROVE Ended(t, n, "no")
  BY <1>1 DEF SessionCompleted, Ended
<1>2. CASE Success(t, n)
  BY <1>1, <1>2 DEF Success, nodeVars
<1>3. CASE NotNeeded(t, n)
  BY <1>1, <1>3 DEF NotNeeded, nodeVars, taskVars
<1>4. CASE Failure(t, n)
  <2>1. /\ t \in ToSet(running[n]) /\ NotOwner(t, n)
        /\ UNCHANGED <<nodeInfo, polled, link, owner, dropped, stage, timed>>
    BY <1>4 DEF Failure, nodeVars, taskVars
  <2>2. CASE owner[t] = NoNode /\ ~Elsewhere(t, n)
    <3>1. Ended(t, n, "yes")
      BY <1>4, <2>2 DEF Failure, SessionCompleted, Ended
    <3> QED
      BY <2>1, <2>2, <3>1
  <2>3. CASE ~(owner[t] = NoNode /\ ~Elsewhere(t, n))
    <3>1. Ended(t, n, "no")
      BY <1>4, <2>3 DEF Failure, SessionCompleted, Ended
    <3> QED
      BY <2>1, <2>3, <3>1
  <2> QED
    BY <2>2, <2>3
<1> QED
  BY <1>2, <1>3, <1>4 DEF SessionEnds

\* TasksPlaced, task by task.
LEMMA PlacedForm == TasksPlaced <=> \A t \in Tasks : stage[t] = "scheduled" => Placed(t)
BY DEF TasksPlaced, Placed

\* Tasks that have begun are tasks.
LEMMA BegunSeq ==
  /\ \A s \in Seq(Begun') : s \in Seq(Tasks)
  /\ \A s \in [Nodes -> Seq(Begun')] : s \in [Nodes -> Seq(Tasks)]
<1>1. Begun' \subseteq Tasks
  BY DEF Begun
<1>2. \A s \in Seq(Begun') : s \in Seq(Tasks)
  BY <1>1
<1> QED
  BY <1>2

\* The end of a session.
LEMMA SessionEndsKeeps ==
  ASSUME PlaceInv, NEW t \in Tasks, NEW n \in Nodes, SessionEnds(t, n)
  PROVE  PlaceInv'
<1>1. TypeOK /\ TasksPlaced /\ OwnersRun /\ BegunInv
  BY DEF PlaceInv
<1>2. /\ t \in ToSet(running[n])
      /\ UNCHANGED <<nodeInfo, polled, link, owner, dropped>>
      /\ Ended(t, n, "no") \/ (owner[t] = NoNode /\ ~Elsewhere(t, n) /\ Ended(t, n, "yes"))
      /\ \/ owner[t] = n /\ stage' = [stage EXCEPT ![t] = "answered"] /\ timed' = [timed EXCEPT ![n] = TRUE]
         \/ /\ UNCHANGED <<stage, timed>> /\ NotOwner(t, n)
            /\ owner[t] # NoNode \/ Elsewhere(t, n) \/ Ended(t, n, "yes")
  BY EndsEnded
<1>14. Begun' = Begun /\ t \in Begun
  <2>1. stage \in [Tasks -> {"new", "scheduled", "answered"}]
    BY <1>1 DEF TypeOK
  <2>2. t \in Begun
    <3>1. running[n] \in Seq(Begun)
      BY <1>1 DEF BegunInv
    <3> QED
      BY <1>2, <3>1, Elements
  <2> QED
    BY <1>2, <2>1, <2>2 DEF Begun
<1>15. /\ queue \in Seq(Begun') /\ connecting \in [Nodes -> Seq(Begun')] /\ running \in [Nodes -> Seq(Begun')]
       /\ nodeInfo \subseteq Nodes
  BY <1>1, <1>14 DEF BegunInv, TypeOK
<1>3. PICK again \in {"no", "yes"} : Ended(t, n, again) /\ (Ended(t, n, "yes") => again = "yes")
  BY <1>2
<1>4. /\ queue' \in Seq(Begun') /\ connecting' \in [Nodes -> Seq(Begun')]
      /\ running' \in [Nodes -> Seq(Begun')]
      /\ \A m \in Nodes \ {n} : running'[m] = running[m]
      /\ \A x \in ToSet(running[n]) : x # t => x \in ToSet(running'[n])
      /\ \A x \in ToSet(queue) : x \in ToSet(queue') \/ x \in ToSet(connecting'[n])
      /\ \A m \in Nodes : ToSet(connecting[m]) \subseteq ToSet(connecting'[m])
      /\ again = "yes" => t \in ToSet(queue') \/ \E m \in Nodes : t \in ToSet(connecting'[m])
  BY <1>2, <1>3, <1>14, <1>15, EndedFacts
<1>5. running'[n] = RemoveFirst(running[n], t)
  <2>1. running' = [running EXCEPT ![n] = RemoveFirst(running[n], t)]
    BY <1>3 DEF Ended
  <2> QED
    BY <1>1, <2>1 DEF TypeOK
<1>6. /\ stage \in [Tasks -> {"new", "scheduled", "answered"}]
      /\ owner \in [Tasks -> Nodes \cup {NoNode}]
      /\ timed \in [Nodes -> BOOLEAN]
  BY <1>1 DEF TypeOK
<1>7. /\ stage' \in [Tasks -> {"new", "scheduled", "answered"}] /\ \A x \in Tasks \ {t} : stage'[x] = stage[x]
      /\ stage'[t] = "scheduled" =>
           /\ UNCHANGED stage /\ NotOwner(t, n)
           /\ owner[t] # NoNode \/ Elsewhere(t, n) \/ Ended(t, n, "yes")
  BY <1>2, <1>6
<1>8. timed' \in [Nodes -> BOOLEAN]
  BY <1>2, <1>6
<1>9. TypeOK'
  BY <1>1, <1>2, <1>4, <1>7, <1>8, BegunSeq DEF TypeOK
<1>10. ASSUME NEW x \in Tasks, stage'[x] = "scheduled", owner'[x] # NoNode
       PROVE  x \in ToSet(running'[owner'[x]])
  <2>1. owner'[x] = owner[x] /\ owner[x] \in Nodes /\ stage[x] = "scheduled"
    BY <1>2, <1>6, <1>7, <1>10
  <2>2. x \in ToSet(running[owner[x]])
    BY <1>1, <1>10, <2>1 DEF OwnersRun
  <2>3. CASE owner[x] # n
    BY <1>4, <2>1, <2>2, <2>3
  <2>4. CASE owner[x] = n /\ x # t
    BY <1>4, <2>1, <2>2, <2>4
  <2>5. CASE owner[x] = n /\ x = t
    <3>1. NotOwner(t, n)
      BY <1>7, <1>10, <2>5
    <3>2. t \in ToSet(RemoveFirst(running[n], t))
      BY <2>1, <2>5, <3>1 DEF NotOwner
    <3> QED
      BY <1>5, <2>1, <2>5, <3>2
  <2> QED
    BY <2>3, <2>4, <2>5
<1>11. ASSUME NEW x \in Tasks, stage'[x] = "scheduled" PROVE Placed(x)'
  <2>1. CASE x # t
    <3>1. Placed(x)
      BY <1>1, <1>7, <1>11, <2>1, PlacedForm
    <3>2. CASE x \in dropped
      BY <1>2, <3>2 DEF Placed
    <3>3. CASE x \in ToSet(queue)
      BY <1>4, <3>3 DEF Placed
    <3>4. ASSUME NEW m \in Nodes, x \in ToSet(connecting[m]) PROVE Placed(x)'
      BY <1>4, <3>4 DEF Placed
    <3>5. ASSUME NEW m \in Nodes, x \in ToSet(running[m]) PROVE Placed(x)'
      <4>1. x \in ToSet(running'[m])
        BY <1>4, <2>1, <3>5
      <4> QED
        BY <4>1 DEF Placed
    <3> QED
      BY <3>1, <3>2, <3>3, <3>4, <3>5 DEF Placed
  <2>2. CASE x = t /\ owner[t] # NoNode
    <3>1. t \in ToSet(running'[owner[t]]) /\ owner[t] \in Nodes
      BY <1>2, <1>6, <1>10, <1>11, <2>2
    <3> QED
      BY <2>2, <3>1 DEF Placed
  <2>3. CASE x = t /\ Elsewhere(t, n)
    <3>1. \E m \in Nodes : t \in ToSet(running'[m])
      BY <1>4, <1>5, <2>3 DEF Elsewhere
    <3> QED
      BY <2>3, <3>1 DEF Placed
  <2>4. CASE x = t /\ Ended(t, n, "yes")
    <3>1. t \in ToSet(queue') \/ \E m \in Nodes : t \in ToSet(connecting'[m])
      BY <1>3, <1>4, <2>4
    <3> QED
      BY <2>4, <3>1 DEF Placed
  <2> QED
    BY <1>7, <1>11, <2>1, <2>2, <2>3, <2>4
<1>12. TasksPlaced'
  <2>1. \A x \in Tasks : stage'[x] = "scheduled" => Placed(x)'
    BY <1>11
  <2> QED
    BY <2>1 DEF TasksPlaced, Placed
<1>13. OwnersRun'
  BY <1>10 DEF OwnersRun
<1>16. BegunInv'
  BY <1>1, <1>2, <1>4, <1>14 DEF BegunInv
<1> QED
  BY <1>9, <1>12, <1>13, <1>16 DEF PlaceInv

\* A connection is there, or cannot be made.
LEMMA ConnectionKeeps ==
  ASSUME PlaceInv, NEW n \in Nodes, CreateSession(n) \/ ConnectFails(n) PROVE PlaceInv'
<1>1. TypeOK /\ TasksPlaced /\ OwnersRun /\ BegunInv
  BY DEF PlaceInv
<1>2. /\ queue \in Seq(Tasks) /\ link \in [Nodes -> {"none", "up", "lost"}]
      /\ owner \in [Tasks -> Nodes \cup {NoNode}] /\ dropped \subseteq Tasks
  BY <1>1 DEF TypeOK
<1>14. connecting \in [Nodes -> Seq(Begun)] /\ running \in [Nodes -> Seq(Begun)] /\ Begun \subseteq Tasks
  BY <1>1 DEF BegunInv, Begun
<1>3. PICK i \in DOMAIN connecting[n] :
        /\ connecting' = [connecting EXCEPT ![n] = RemoveAt(@, i)]
        /\ \/ /\ running' = [running EXCEPT ![n] = Append(@, connecting[n][i])]
              /\ link' = [link EXCEPT ![n] = IF @ = "none" THEN "up" ELSE @] /\ UNCHANGED dropped
           \/ dropped' = dropped \cup {connecting[n][i]} /\ UNCHANGED <<running, link>>
  BY DEF CreateSession, ConnectFails, taskVars
<1>4. UNCHANGED <<nodeInfo, polled, queue, timed, stage, owner>>
  BY DEF CreateSession, ConnectFails, nodeVars, taskVars
<1> DEFINE t == connecting[n][i]
<1>5. i \in 1..Len(connecting[n]) /\ t \in Begun /\ connecting[n] \in Seq(Begun)
  BY <1>14
<1>6. /\ RemoveAt(connecting[n], i) \in Seq(Begun)
      /\ \A x \in ToSet(connecting[n]) : x # t => x \in ToSet(RemoveAt(connecting[n], i))
  BY <1>5, RemoveAtFacts
<1>7. /\ connecting' \in [Nodes -> Seq(Begun)] /\ \A m \in Nodes \ {n} : connecting'[m] = connecting[m]
      /\ \A x \in ToSet(connecting[n]) : x # t => x \in ToSet(connecting'[n])
  BY <1>3, <1>6, <1>14
<1>8. /\ Append(running[n], t) \in Seq(Begun) /\ t \in ToSet(Append(running[n], t))
      /\ ToSet(running[n]) \subseteq ToSet(Append(running[n], t))
  <2>1. Begun' = Begun
    BY <1>4 DEF Begun
  <2> QED
    BY <1>5, <1>14, <2>1, Single
<1> HIDE DEF t
<1>9. /\ running' \in [Nodes -> Seq(Begun)] /\ dropped \subseteq dropped' /\ dropped' \subseteq Tasks
      /\ \A m \in Nodes : ToSet(running[m]) \subseteq ToSet(running'[m])
      /\ link' \in [Nodes -> {"none", "up", "lost"}]
      /\ t \in ToSet(running'[n]) \cup dropped'
  <2>1. CASE /\ running' = [running EXCEPT ![n] = Append(running[n], t)] /\ UNCHANGED dropped
             /\ link' = [link EXCEPT ![n] = IF @ = "none" THEN "up" ELSE @]
    <3>1. running'[n] = Append(running[n], t) /\ \A m \in Nodes \ {n} : running'[m] = running[m]
      BY <1>14, <2>1
    <3>2. running' \in [Nodes -> Seq(Begun)] /\ link' \in [Nodes -> {"none", "up", "lost"}]
      BY <1>2, <1>8, <1>14, <2>1
    <3> QED
      BY <1>2, <1>8, <2>1, <3>1, <3>2
  <2>2. CASE dropped' = dropped \cup {t} /\ UNCHANGED <<running, link>>
    BY <1>2, <1>5, <1>14, <2>2
  <2> QED
    BY <1>3, <2>1, <2>2 DEF t
<1>15. BegunInv'
  <2>1. Begun' = Begun
    BY <1>4 DEF Begun
  <2> QED
    BY <1>1, <1>4, <1>7, <1>9, <2>1 DEF BegunInv
<1>10. TypeOK'
  BY <1>1, <1>4, <1>9, <1>15, BegunSeq DEF TypeOK, BegunInv
<1>11. ASSUME NEW x \in Tasks, Placed(x) PROVE Placed(x)'
  <2>1. CASE x \in ToSet(queue) \cup dropped
    BY <1>4, <1>9, <2>1 DEF Placed
  <2>2. ASSUME NEW m \in Nodes, x \in ToSet(running[m]) PROVE Placed(x)'
    BY <1>9, <2>2 DEF Placed
  <2>3. ASSUME NEW m \in Nodes, x \in ToSet(connecting[m]) PROVE Placed(x)'
    <3>1. CASE m = n /\ x = t
      BY <1>9, <3>1 DEF Placed
    <3>2. CASE ~(m = n /\ x = t)
      <4>1. x \in ToSet(connecting'[m])
        BY <1>7, <2>3, <3>2
      <4> QED
        BY <4>1 DEF Placed
    <3> QED
      BY <3>1, <3>2
  <2> QED
    BY <1>11, <2>1, <2>2, <2>3 DEF Placed
<1>12. TasksPlaced'
  <2>1. \A x \in Tasks : stage'[x] = "scheduled" => Placed(x)'
    BY <1>1, <1>4, <1>11, PlacedForm
  <2> QED
    BY <2>1 DEF TasksPlaced, Placed
<1>13. OwnersRun'
  BY <1>1, <1>2, <1>4, <1>9 DEF OwnersRun
<1> QED
  BY <1>10, <1>12, <1>13, <1>15 DEF PlaceInv

\* A task comes from the scanner.
LEMMA PreprocessedKeeps ==
  ASSUME PlaceInv, NEW t \in Tasks, TaskPreprocessed(t) PROVE PlaceInv'
<1>1. TypeOK /\ TasksPlaced /\ OwnersRun /\ BegunInv
  BY DEF PlaceInv
<1>2. /\ connecting \in [Nodes -> Seq(Begun)] /\ running \in [Nodes -> Seq(Begun)]
      /\ queue \in Seq(Begun) /\ stage \in [Tasks -> {"new", "scheduled", "answered"}]
      /\ owner \in [Tasks -> Nodes \cup {NoNode}] /\ nodeInfo \subseteq Nodes
  BY <1>1 DEF TypeOK, BegunInv
<1>3. /\ stage[t] = "new" /\ stage' = [stage EXCEPT ![t] = "scheduled"]
      /\ UNCHANGED <<nodeInfo, polled, running, link, timed, owner, dropped>>
      /\ ScheduleTask(t, queue, connecting, FALSE)
  BY DEF TaskPreprocessed, nodeVars
<1>10. /\ t \in Begun' /\ Begun \subseteq Begun' /\ queue \in Seq(Begun')
       /\ connecting \in [Nodes -> Seq(Begun')] /\ running \in [Nodes -> Seq(Begun')]
  <2>1. t \in Begun' /\ Begun \subseteq Begun'
    BY <1>2, <1>3 DEF Begun
  <2>2. \A s \in Seq(Begun) : s \in Seq(Begun')
    BY <2>1
  <2> QED
    BY <1>2, <2>1, <2>2
<1>4. /\ queue' \in Seq(Begun') /\ connecting' \in [Nodes -> Seq(Begun')]
      /\ ToSet(queue) \subseteq ToSet(queue')
      /\ \A m \in Nodes : ToSet(connecting[m]) \subseteq ToSet(connecting'[m])
      /\ t \in ToSet(queue') \/ \E m \in Nodes : t \in ToSet(connecting'[m])
  BY <1>2, <1>3, <1>10, Scheduled
<1>5. stage' \in [Tasks -> {"new", "scheduled", "answered"}] /\ \A x \in Tasks \ {t} : stage'[x] = stage[x]
  BY <1>2, <1>3
<1>6. TypeOK'
  BY <1>1, <1>3, <1>4, <1>5, BegunSeq DEF TypeOK
<1>7. Placed(t)'
  BY <1>4 DEF Placed
<1>8. ASSUME NEW x \in Tasks, Placed(x) PROVE Placed(x)'
  BY <1>3, <1>4, <1>8 DEF Placed
<1>9. TasksPlaced'
  <2>1. \A x \in Tasks : stage'[x] = "scheduled" => Placed(x)'
    BY <1>1, <1>5, <1>7, <1>8, PlacedForm
  <2> QED
    BY <2>1 DEF TasksPlaced, Placed
<1>11. BegunInv'
  BY <1>1, <1>3, <1>4, <1>10 DEF BegunInv
<1>12. OwnersRun'
  <2>1. owner[t] = NoNode
    BY <1>1, <1>3 DEF BegunInv, Begun
  <2> QED
    BY <1>1, <1>3, <1>5, <2>1 DEF OwnersRun
<1> QED
  BY <1>6, <1>9, <1>11, <1>12 DEF PlaceInv

\* The steps that move no task.
LEMMA StillKeeps ==
  ASSUME PlaceInv, UNCHANGED <<queue, connecting, running, stage, dropped>>,
         nodeInfo' \subseteq Nodes, polled' \in BOOLEAN, timed' = timed,
         link' \in [Nodes -> {"none", "up", "lost"}],
         \/ UNCHANGED owner
         \/ \E t \in Tasks, n \in Nodes : t \in ToSet(running[n]) /\ owner' = [owner EXCEPT ![t] = n]
  PROVE  PlaceInv'
<1>1. TypeOK /\ TasksPlaced /\ OwnersRun /\ BegunInv /\ Begun' = Begun
  BY DEF PlaceInv, Begun
<1>2. owner \in [Tasks -> Nodes \cup {NoNode}] /\ owner' \in [Tasks -> Nodes \cup {NoNode}]
  BY <1>1 DEF TypeOK
<1>3. TypeOK'
  BY <1>1, <1>2 DEF TypeOK
<1>4. TasksPlaced'
  BY <1>1 DEF TasksPlaced
<1>5. CASE UNCHANGED owner
  BY <1>1, <1>3, <1>4, <1>5 DEF PlaceInv, BegunInv, OwnersRun
<1>6. ASSUME NEW t \in Tasks, NEW n \in Nodes, t \in ToSet(running[n]), owner' = [owner EXCEPT ![t] = n]
      PROVE  PlaceInv'
  <2>1. t \in Begun
    <3>1. running[n] \in Seq(Begun)
      BY <1>1 DEF BegunInv
    <3> QED
      BY <1>6, <3>1, Elements
  <2>2. BegunInv'
    BY <1>1, <1>2, <1>6, <2>1 DEF BegunInv
  <2>3. OwnersRun'
    BY <1>1, <1>2, <1>6 DEF OwnersRun
  <2> QED
    BY <1>3, <1>4, <2>2, <2>3 DEF PlaceInv
<1> QED
  BY <1>5, <1>6

\* What the nodes do.
LEMMA NodeStepKeeps == ASSUME PlaceInv, NodeStep PROVE PlaceInv'
<1>1. /\ link \in [Nodes -> {"none", "up", "lost"}] /\ nodeInfo \subseteq Nodes /\ polled \in BOOLEAN
  BY DEF PlaceInv, TypeOK
<1>2. ASSUME NEW n \in Nodes, ConnectionLost(n) PROVE PlaceInv'
  <2>1. /\ UNCHANGED <<queue, connecting, running, stage, dropped, nodeInfo, polled, timed, owner>>
        /\ link' \in [Nodes -> {"none", "up", "lost"}]
    BY <1>1, <1>2 DEF ConnectionLost, nodeVars, taskVars
  <2> QED
    BY <1>1, <2>1, StillKeeps
<1>3. ASSUME NEW t \in Tasks, NEW n \in Nodes, RegisterCompletion(t, n) PROVE PlaceInv'
  <2>1. /\ UNCHANGED <<queue, connecting, running, stage, dropped, nodeInfo, polled, timed, link>>
        /\ t \in ToSet(running[n]) /\ owner' = [owner EXCEPT ![t] = n]
    BY <1>3 DEF RegisterCompletion, nodeVars
  <2> QED
    BY <1>1, <2>1, StillKeeps
<1> QED
  BY <1>2, <1>3, ConnectionKeeps, SessionEndsKeeps DEF NodeStep

\* A node is dropped from the list when it missed one reply too many, so that no
\* count exceeds the bound.
LEMMA DetectType ==
  ASSUME WorkingSetTypeOK, NEW replies \in SUBSET Nodes, Detect(replies) \/ DetectRaises(replies)
  PROVE  WorkingSetTypeOK' /\ DOMAIN workingSet' \subseteq Nodes
<1> DEFINE Counts == 0..(AllowedMissedReplies + 1)
<1>1. PICK listed \in SUBSET Nodes : workingSet \in [listed -> Counts]
  BY DEF WorkingSetTypeOK
<1>2. Listed = listed
  BY <1>1 DEF Listed
<1>3. \A n \in listed : MissesCounted(replies)[n] \in Counts
  <2> SUFFICES ASSUME NEW n \in listed PROVE MissesCounted(replies)[n] \in Counts
    OBVIOUS
  <2>1. workingSet[n] \in Counts
    BY <1>1
  <2>2. MissesCounted(replies)[n] =
          IF n \in replies \cup Disappeared(replies) THEN workingSet[n] ELSE workingSet[n] + 1
    BY <1>2 DEF MissesCounted
  <2>3. n \notin replies \cup Disappeared(replies) => workingSet[n] <= AllowedMissedReplies
    BY <1>2, <2>1 DEF Disappeared, AllowedMissedReplies
  <2> QED
    BY <2>1, <2>2, <2>3 DEF AllowedMissedReplies
<1>4. CASE Detect(replies)
  <2>1. PICK deleted : workingSet' = [n \in (listed \ deleted) \cup replies |->
                                        IF n \in replies THEN 0 ELSE MissesCounted(replies)[n]]
    BY <1>2, <1>4 DEF Detect
  <2> DEFINE new == (listed \ deleted) \cup replies
  <2>2. new \in SUBSET Nodes
    OBVIOUS
  <2>3. 0 \in Counts
    BY DEF AllowedMissedReplies
  <2>4. workingSet' \in [new -> Counts]
    BY <1>3, <2>1, <2>3
  <2> QED
    BY <2>2, <2>4 DEF WorkingSetTypeOK
<1>5. CASE DetectRaises(replies)
  <2>1. PICK n \in listed : workingSet' = [m \in listed \ {n} |-> MissesCounted(replies)[m]]
    BY <1>2, <1>5 DEF DetectRaises
  <2> DEFINE new == listed \ {n}
  <2>2. new \in SUBSET Nodes /\ workingSet' \in [new -> Counts]
    BY <1>3, <2>1
  <2> QED
    BY <2>2 DEF WorkingSetTypeOK
<1> QED
  BY <1>4, <1>5

\* The inductive invariant of the whole.
NodesInv == PlaceInv /\ DetectedTypeOK

\* It holds at first, and so does the other property.
LEMMA InitNodes == DetectedInit => NodesInv /\ NoIdleNode
<1> SUFFICES ASSUME DetectedInit PROVE NodesInv /\ NoIdleNode
  OBVIOUS
<1> USE DEF DetectedInit, Init
<1>1. TypeOK
  <2>1. <<>> \in Seq(Tasks)
    OBVIOUS
  <2>2. queue \in Seq(Tasks) /\ connecting \in [Nodes -> Seq(Tasks)] /\ running \in [Nodes -> Seq(Tasks)]
    BY <2>1
  <2>3. link \in [Nodes -> {"none", "up", "lost"}] /\ timed \in [Nodes -> BOOLEAN]
    OBVIOUS
  <2>4. stage \in [Tasks -> {"new", "scheduled", "answered"}] /\ owner \in [Tasks -> Nodes \cup {NoNode}]
    OBVIOUS
  <2>5. nodeInfo \subseteq Nodes /\ polled \in BOOLEAN /\ dropped \subseteq Tasks
    OBVIOUS
  <2> QED
    BY <2>2, <2>3, <2>4, <2>5 DEF TypeOK
<1>2. BegunInv
  BY DEF BegunInv, Begun
<1>3. TasksPlaced /\ OwnersRun /\ NoIdleNode
  BY DEF TasksPlaced, OwnersRun, NoIdleNode
<1>4. WorkingSetTypeOK
  <2>1. {} \in SUBSET Nodes /\ workingSet \in [{} -> 0..(AllowedMissedReplies + 1)]
    OBVIOUS
  <2> QED
    BY <2>1 DEF WorkingSetTypeOK
<1> QED
  BY <1>1, <1>2, <1>3, <1>4 DEF NodesInv, PlaceInv, DetectedTypeOK

\* Every step keeps it.
LEMMA NodesStep == ASSUME NodesInv, DetectedNext PROVE NodesInv'
<1>1. PlaceInv /\ WorkingSetTypeOK /\ known \subseteq Nodes /\ TypeOK
  BY DEF NodesInv, DetectedTypeOK, PlaceInv
<1>2. /\ link \in [Nodes -> {"none", "up", "lost"}] /\ nodeInfo \subseteq Nodes
  BY <1>1 DEF TypeOK
<1>3. PlaceInv' /\ WorkingSetTypeOK'
  <2>1. CASE UpdateOnce
    <3>1. /\ UNCHANGED <<queue, connecting, running, stage, dropped, timed, link, owner, workingSet>>
          /\ nodeInfo' \subseteq Nodes /\ polled' \in BOOLEAN
      BY <2>1 DEF UpdateOnce, UpdateNodeInfo, detectorVars, taskVars
    <3>2. PlaceInv'
      BY <1>1, <1>2, <3>1, StillKeeps
    <3> QED
      BY <1>1, <3>1, <3>2 DEF WorkingSetTypeOK
  <2>2. CASE Poll
    <3>1. /\ UNCHANGED <<queue, connecting, running, stage, dropped, timed, link, owner>>
          /\ nodeInfo' = DOMAIN workingSet' /\ polled' \in BOOLEAN
      BY <2>2 DEF Poll, taskVars
    <3>2. WorkingSetTypeOK' /\ DOMAIN workingSet' \subseteq Nodes
      BY <1>1, <2>2, DetectType DEF Poll
    <3>3. PlaceInv'
      BY <1>1, <1>2, <3>1, <3>2, StillKeeps
    <3> QED
      BY <3>2, <3>3
  <2>3. CASE NewTask
    <3>1. UNCHANGED workingSet /\ \E t \in Tasks : TaskPreprocessed(t)
      BY <2>3 DEF NewTask, detectorVars
    <3> QED
      BY <1>1, <3>1, PreprocessedKeeps DEF WorkingSetTypeOK
  <2>4. CASE NodeStep /\ UNCHANGED detectorVars
    BY <1>1, <2>4, NodeStepKeeps DEF WorkingSetTypeOK, detectorVars
  <2> QED
    BY <2>1, <2>2, <2>3, <2>4 DEF DetectedNext
<1>4. TypeOK' /\ nodeInfo' \subseteq Nodes
  BY <1>3 DEF PlaceInv, TypeOK
<1>5. known' \subseteq Nodes
  BY <1>1, <1>4 DEF DetectedNext
<1> QED
  BY <1>3, <1>4, <1>5 DEF NodesInv, DetectedTypeOK

\* And so does a step of other components.
LEMMA NodesStutter ==
  ASSUME NodesInv, NoIdleNode, UNCHANGED <<vars, detectorVars, known>> PROVE NodesInv' /\ NoIdleNode'
<1>1. UNCHANGED <<nodeInfo, polled, queue, connecting, running, link, timed, stage, owner, dropped,
                  workingSet, known>>
  BY DEF vars, nodeVars, taskVars, detectorVars
<1>2. PlaceInv'
  BY <1>1, StillKeeps DEF NodesInv, PlaceInv, TypeOK
<1>3. WorkingSetTypeOK' /\ known' \subseteq Nodes
  BY <1>1 DEF NodesInv, DetectedTypeOK, WorkingSetTypeOK
<1>4. NoIdleNode'
  BY <1>1 DEF NoIdleNode
<1> QED
  BY <1>2, <1>3, <1>4 DEF NodesInv, DetectedTypeOK, PlaceInv

\* A task waits only behind filled nodes.
Filled(n) == Load(n) > JobSlots

\* schedule_task queues a task when no node has a free slot.
LEMMA FilledNodes ==
  ASSUME NodesInv', BestNodes = {}, UNCHANGED nodeInfo PROVE \A n \in nodeInfo' : Filled(n)'
<1> SUFFICES ASSUME NEW n \in nodeInfo' PROVE Filled(n)'
  OBVIOUS
<1>1. running'[n] \in Seq(Tasks) /\ connecting'[n] \in Seq(Tasks)
  BY DEF NodesInv, PlaceInv, TypeOK
<1> DEFINE r == Len(running'[n])
           c == Len(connecting'[n])
<1>2. r \in Nat /\ c \in Nat /\ JobSlots \in Nat
  BY <1>1, SlotsAssumption
<1>3. ~(JobSlots + 1 - r > 0)
  BY DEF BestNodes, FreeSlots
<1> HIDE DEF r, c
<1>4. r + c > JobSlots
  BY <1>2, <1>3
<1> QED
  BY <1>4 DEF Filled, Load, r, c

\* What a node runs and awaits, as numbers.
LEMMA StaysFilled ==
  ASSUME NEW r0 \in Nat, NEW c0 \in Nat, NEW r1 \in Nat, NEW c1 \in Nat, NEW slots \in Nat,
         r0 + c0 > slots, r1 = r0, c1 >= c0
  PROVE  r1 + c1 > slots
OBVIOUS

\* No step leaves a task in the queue and a node of the list with room.
LEMMA NoIdleStep ==
  ASSUME NodesInv, NoIdleNode, DetectedNext, NodesInv' PROVE NoIdleNode'
<1> SUFFICES ASSUME dropped' = {}, queue' # <<>> PROVE \A n \in known' : Filled(n)'
  BY DEF NoIdleNode, Filled, Load
<1>1. /\ TypeOK /\ BegunInv /\ known \subseteq Nodes /\ nodeInfo \subseteq Nodes
      /\ connecting \in [Nodes -> Seq(Tasks)] /\ running \in [Nodes -> Seq(Tasks)]
      /\ connecting' \in [Nodes -> Seq(Tasks)] /\ running' \in [Nodes -> Seq(Tasks)]
  BY DEF NodesInv, PlaceInv, DetectedTypeOK, TypeOK
<1>2. queue # <<>> /\ dropped = {} => \A n \in known : Filled(n)
  BY DEF NoIdleNode, Filled, Load
<1>3. /\ queue = <<>> => known' = nodeInfo'
      /\ queue # <<>> => known' = known
  BY DEF DetectedNext
\* The loads are numbers.
<1>4. \A n \in Nodes :
        /\ Len(running[n]) \in Nat /\ Len(running'[n]) \in Nat
        /\ Len(connecting[n]) \in Nat /\ Len(connecting'[n]) \in Nat
  BY <1>1
<1>5. ASSUME NEW n \in Nodes, Filled(n), Len(running'[n]) = Len(running[n]),
             Len(connecting'[n]) >= Len(connecting[n])
      PROVE  Filled(n)'
  <2>1. JobSlots \in Nat
    BY SlotsAssumption
  <2>2. Len(running[n]) + Len(connecting[n]) > JobSlots
    BY <1>5 DEF Filled, Load
  <2>3. Len(running'[n]) + Len(connecting'[n]) > JobSlots
    BY <1>4, <1>5, <2>1, <2>2, StaysFilled
  <2> QED
    BY <2>3 DEF Filled, Load
<1>6. ASSUME UNCHANGED <<queue, running, connecting>>, dropped = {} PROVE \A n \in known' : Filled(n)'
  <2>1. queue # <<>> /\ known' = known
    BY <1>3, <1>6
  <2>2. \A n \in known : Filled(n)'
    BY <1>2, <1>6, <2>1 DEF Filled, Load
  <2> QED
    BY <2>1, <2>2
<1>7. CASE UpdateOnce \/ Poll
  BY <1>6, <1>7 DEF UpdateOnce, UpdateNodeInfo, Poll, taskVars
<1>8. ASSUME NEW t \in Tasks, TaskPreprocessed(t) PROVE \A n \in known' : Filled(n)'
  <2>1. /\ UNCHANGED <<nodeInfo, running, dropped>> /\ ScheduleTask(t, queue, connecting, FALSE)
        /\ stage[t] = "new" /\ stage' = [stage EXCEPT ![t] = "scheduled"]
    BY <1>8 DEF TaskPreprocessed, nodeVars
  <2>2. /\ t \in Begun' /\ queue \in Seq(Begun') /\ connecting \in [Nodes -> Seq(Begun')]
    <3>1. stage \in [Tasks -> {"new", "scheduled", "answered"}]
      BY <1>1 DEF TypeOK
    <3>2. t \in Begun' /\ Begun \subseteq Begun'
      BY <2>1, <3>1 DEF Begun
    <3>3. \A s \in Seq(Begun) : s \in Seq(Begun')
      BY <3>2
    <3> QED
      BY <1>1, <3>2, <3>3 DEF BegunInv
  <2>3. /\ \A m \in Nodes : Len(connecting'[m]) >= Len(connecting[m])
        /\ queue = <<>> => BestNodes = {}
    BY <1>1, <2>1, <2>2, Scheduled
  <2>4. CASE queue = <<>>
    BY <1>3, <2>1, <2>3, <2>4, FilledNodes
  <2>5. CASE queue # <<>>
    BY <1>1, <1>2, <1>3, <1>5, <2>1, <2>3, <2>5
  <2> QED
    BY <2>4, <2>5
<1>9. ASSUME NEW n \in Nodes, CreateSession(n) PROVE \A m \in known' : Filled(m)'
  <2>1. UNCHANGED <<queue, dropped>>
    BY <1>9 DEF CreateSession, taskVars
  <2>2. PICK i \in DOMAIN connecting[n] :
          /\ connecting' = [connecting EXCEPT ![n] = RemoveAt(connecting[n], i)]
          /\ running' = [running EXCEPT ![n] = Append(running[n], connecting[n][i])]
    BY <1>9 DEF CreateSession
  <2>3. i \in 1..Len(connecting[n]) /\ connecting[n] \in Seq(Tasks)
    BY <1>1
  <2>4. Len(connecting'[n]) = Len(connecting[n]) - 1
    BY <1>1, <2>2, <2>3, RemoveAtFacts
  <2>5. Len(running'[n]) = Len(running[n]) + 1
    BY <1>1, <2>2
  <2>6. \A m \in Nodes \ {n} : connecting'[m] = connecting[m] /\ running'[m] = running[m]
    BY <1>1, <2>2
  <2>7. \A m \in Nodes : Len(running'[m]) + Len(connecting'[m]) = Len(running[m]) + Len(connecting[m])
    <3> SUFFICES ASSUME NEW m \in Nodes
                 PROVE  Len(running'[m]) + Len(connecting'[m]) = Len(running[m]) + Len(connecting[m])
      OBVIOUS
    <3>1. CASE m = n
      <4> DEFINE r0 == Len(running[n])
                 c0 == Len(connecting[n])
                 r1 == Len(running'[n])
                 c1 == Len(connecting'[n])
      <4>1. r0 \in Nat /\ c0 \in Nat /\ r1 \in Nat /\ c1 \in Nat /\ c1 = c0 - 1 /\ r1 = r0 + 1
        BY <1>4, <2>4, <2>5
      <4> HIDE DEF r0, c0, r1, c1
      <4>2. r1 + c1 = r0 + c0
        BY <4>1
      <4> QED
        BY <3>1, <4>2 DEF r0, c0, r1, c1
    <3>2. CASE m # n
      BY <2>6, <3>2
    <3> QED
      BY <3>1, <3>2
  <2>8. \A m \in Nodes : Filled(m) => Filled(m)'
    BY <2>7 DEF Filled, Load
  <2> QED
    BY <1>1, <1>2, <1>3, <2>1, <2>8
<1>10. ASSUME NEW n \in Nodes, ConnectFails(n) PROVE FALSE
  BY <1>10 DEF ConnectFails
<1>11. ASSUME NEW t \in Tasks, NEW n \in Nodes, SessionEnds(t, n) PROVE \A m \in known' : Filled(m)'
  <2>1. /\ t \in ToSet(running[n]) /\ UNCHANGED <<nodeInfo, dropped>>
        /\ \E again \in {"no", "yes"} : Ended(t, n, again)
        /\ \/ stage' = [stage EXCEPT ![t] = "answered"]
           \/ UNCHANGED stage
    BY <1>11, EndsEnded
  <2>2. PICK again \in {"no", "yes"} : Ended(t, n, again)
    BY <2>1
  <2>3. Begun' = Begun /\ t \in Begun
    <3>1. stage \in [Tasks -> {"new", "scheduled", "answered"}] /\ running[n] \in Seq(Begun)
      BY <1>1 DEF TypeOK, BegunInv
    <3>2. t \in Begun
      BY <2>1, <3>1, Elements
    <3> QED
      BY <2>1, <3>1, <3>2 DEF Begun
  <2>4. /\ queue \in Seq(Begun') /\ connecting \in [Nodes -> Seq(Begun')]
        /\ running \in [Nodes -> Seq(Begun')] /\ t \in Begun'
    BY <1>1, <2>3 DEF BegunInv
  <2>5. /\ \A m \in Nodes \ {n} : running'[m] = running[m]
        /\ \A m \in Nodes : Len(connecting'[m]) >= Len(connecting[m])
        /\ queue # <<>> /\ Load(n) > JobSlots => Load(n)' > JobSlots
        /\ queue = <<>> => BestNodes = {}
    BY <1>1, <2>1, <2>2, <2>4, EndedFacts
  <2>6. CASE queue = <<>>
    BY <1>3, <2>1, <2>5, <2>6, FilledNodes
  <2>7. CASE queue # <<>>
    <3> SUFFICES ASSUME NEW m \in known PROVE Filled(m)'
      BY <1>3, <2>7
    <3>1. Filled(m) /\ m \in Nodes
      BY <1>1, <1>2, <2>1, <2>7
    <3>2. CASE m = n
      BY <2>5, <2>7, <3>1, <3>2 DEF Filled
    <3>3. CASE m # n
      BY <1>5, <2>5, <3>1, <3>3
    <3> QED
      BY <3>2, <3>3
  <2> QED
    BY <2>6, <2>7
<1>12. ASSUME NEW n \in Nodes, ConnectionLost(n) \/ \E t \in Tasks : RegisterCompletion(t, n)
       PROVE  \A m \in known' : Filled(m)'
  BY <1>6, <1>12 DEF ConnectionLost, RegisterCompletion, taskVars
<1> QED
  BY <1>7, <1>8, <1>9, <1>10, <1>11, <1>12 DEF DetectedNext, NewTask, NodeStep

\* A task that is not answered is in the queue, waits for a connection or runs,
\* however nodes come and go, sessions fail, tasks are stolen and rescheduled;
\* only a connection that cannot be made drops it (session_completed and
\* create_session in node_manager.py).
THEOREM NoTaskIsLost == DetectedSpec => []PlacementInv
<1>1. NodesInv /\ [DetectedNext]_<<vars, detectorVars, known>> => NodesInv'
  <2> SUFFICES ASSUME NodesInv, [DetectedNext]_<<vars, detectorVars, known>> PROVE NodesInv'
    OBVIOUS
  <2>1. CASE UNCHANGED <<vars, detectorVars, known>>
    <3>1. UNCHANGED <<nodeInfo, polled, queue, connecting, running, link, timed, stage, owner, dropped,
                      workingSet, known>>
      BY <2>1 DEF vars, nodeVars, taskVars, detectorVars
    <3>2. PlaceInv'
      BY <3>1, StillKeeps DEF NodesInv, PlaceInv, TypeOK
    <3> QED
      BY <3>1, <3>2 DEF NodesInv, DetectedTypeOK, WorkingSetTypeOK, PlaceInv
  <2> QED
    BY <2>1, NodesStep
<1>2. NodesInv => PlacementInv
  BY DEF NodesInv, PlaceInv, PlacementInv
<1> QED
  BY InitNodes, <1>1, <1>2, PTL DEF DetectedSpec

\* While tasks wait, every node that was in the list when the first of them was
\* queued is filled: __free_slots, __best_node and __find_work fit together.
THEOREM NoNodeIsIdle == DetectedSpec => []NoIdleNode
<1>1. NodesInv /\ NoIdleNode /\ [DetectedNext]_<<vars, detectorVars, known>> => NodesInv' /\ NoIdleNode'
  BY NodesStep, NoIdleStep, NodesStutter
<1> QED
  BY InitNodes, <1>1, PTL DEF DetectedSpec
=============================================================================
