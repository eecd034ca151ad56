---------------------------- MODULE HeaderCache ----------------------------
(***************************************************************************)
(* The header cache of the preprocessing extension (headerCache_.hpp and   *)
(* headerCache_.cpp).  An entry says: "including this file with these      *)
(* values of the macros it uses has this effect".  The entries of a file   *)
(* form a decision tree (CacheTree) whose path is the sequence of used     *)
(* macros.  Time is hits_ + misses_, and every Period lookups a            *)
(* maintenance pass drops what was not hit since a cutoff.                 *)
(*                                                                         *)
(* The cache is a record                                                   *)
(*   kept   set of [e, t]: cacheEntries_, entry and lastTimeHit            *)
(*   recent set of [e, t]: tempLastTimeHit_                                *)
(*   time   hits_ + misses_                                                *)
(* An entry stays in its tree as long as something refers to it, so the    *)
(* tree is the kept and recent entries and those that scans refer to.      *)
(***************************************************************************)
EXTENDS Integers, Sequences, FiniteSets

CONSTANT Period         \* cacheCleanupPeriod, 2048 in the code

HistoryPeriods == 8
NoEntry == [file |-> "none", path |-> <<>>, out |-> <<>>, headers |-> {}]

EmptyCache == [kept |-> {}, recent |-> {}, time |-> 0]

\* The entries a tree search can reach; held: entries that scans refer to.
Tree(cache, held) == {r.e : r \in cache.kept \cup cache.recent} \cup held

\* CacheTree::find: follow the used macros' current values down to an entry.
Matches(e, state) == \A i \in DOMAIN e.path : state[e.path[i][1]] = e.path[i][2]
Find(cache, held, file, state) ==
  LET hits == {e \in Tree(cache, held) : e.file = file /\ Matches(e, state)}
  IN IF hits = {} THEN NoEntry ELSE CHOOSE e \in hits : TRUE

\* Cache::maintenance, called with the time after the lookup.
Cutoff(now) ==
  IF now > HistoryPeriods * Period THEN now - HistoryPeriods * Period ELSE now \div 5
Maintenance(cache) ==
  IF cache.time % Period # 0 THEN cache
  ELSE LET hit(r) == {q.t : q \in {x \in cache.recent : x.e = r.e}}
           updated == {[e |-> r.e, t |-> IF hit(r) = {} THEN r.t ELSE CHOOSE t \in hit(r) : TRUE]
                       : r \in cache.kept}
       IN [cache EXCEPT !.kept = {r \in updated : r.t >= Cutoff(cache.time)},
                        !.recent = {}]

\* Cache::findEntry: count the lookup, note the hit, then maintain.
FindEntry(cache, e) ==
  LET noted == IF e = NoEntry THEN cache.recent
               ELSE {r \in cache.recent : r.e # e} \cup {[e |-> e, t |-> cache.time]}
  IN Maintenance([cache EXCEPT !.recent = noted, !.time = @ + 1])

\* Cache::addEntry: the entry already at the end of that path, or a new one.
SamePath(e, file, path) == e.file = file /\ e.path = path
AddedEntry(cache, held, new) ==
  LET old == {e \in Tree(cache, held) : SamePath(e, new.file, new.path)}
  IN IF old = {} THEN new ELSE CHOOSE e \in old : TRUE
AddEntry(cache, held, new) ==
  IF \E e \in Tree(cache, held) : SamePath(e, new.file, new.path) THEN cache
  ELSE [cache EXCEPT !.kept = @ \cup {[e |-> new, t |-> cache.time \div 2]}]
=============================================================================
