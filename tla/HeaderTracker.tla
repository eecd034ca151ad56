--------------------------- MODULE HeaderTracker ---------------------------
(***************************************************************************)
(* HeaderTracker, HeaderCtx and ConditionStack (headerTracker_.hpp and     *)
(* .cpp): what one scan records while Clang preprocesses, in order to put  *)
(* every included header in the cache together with the macros it used.    *)
(* The operations are operators on the tracker's state, a record           *)
(*   ctx     stack of HeaderCtx: the file, whether its content is          *)
(*           replaced, the cache entry it stands for, the used macros with *)
(*           their values in order of use, the changed macros, the headers *)
(*   state   macroState_                                                   *)
(*   macros  ConditionStack::macros, seen and not yet committed            *)
(*   conds   ConditionStack::conditions                                    *)
(*   entries usedCacheEntries_                                             *)
(***************************************************************************)
EXTENDS Clang, HeaderCache

NewTracker == [ctx |-> <<>>, state |-> [n \in Names |-> Undef], macros |-> <<>>,
               conds |-> <<>>, entries |-> {}]

Top(trk) == Len(trk.ctx)
Ctx(trk) == trk.ctx[Top(trk)]
FromCache(ctx) == ctx.hit # NoEntry

\* HeaderCtx::macroUsed: a macro is used here unless it was changed here.
UseIn(ctx, name, val) ==
  IF name \in ctx.changed \/ \E i \in DOMAIN ctx.used : ctx.used[i][1] = name THEN ctx
  ELSE [ctx EXCEPT !.used = Append(@, <<name, val>>)]
Use(trk, name) == [trk EXCEPT !.ctx[Top(trk)] = UseIn(@, name, trk.state[name])]
UseAll(trk, names) == FoldLeft(Use, trk, names)

\* ConditionStack::commit
commit(trk) ==
  LET used == FlattenSeq([i \in DOMAIN trk.conds |-> trk.conds[i].macros]) \o trk.macros
  IN [UseAll(trk, used) EXCEPT !.conds = <<>>, !.macros = <<>>]

\* HeaderCtx::macroDefined and macroUndefined
Change(trk, name, val) ==
  [trk EXCEPT !.state[name] = val, !.ctx[Top(trk)].changed = @ \cup {name}]

\* Callbacks; those of a file that stands for a cache entry are ignored, and
\* such a file is entered and left in one step below.
macroUsed(trk, name) == [trk EXCEPT !.macros = Append(@, name)]
\* Mutant: the pending conditions are not committed before a #define.
X_NoCommit(trk, name, val) == Change(trk, name, val)
macroDefined(trk, name, val) == Change(commit(trk), name, val)
macroUndefined(trk, name) == Change(commit(trk), name, Undef)
pragmaOnce(trk) == Change(trk, Once(Ctx(trk).file), "1")

\* ConditionStack::skippable: no #define, #undef or #include in between.
skippable(txt, from, to) ==
  \A i \in (from + 1)..(to - 1) :
    txt[i].op \notin {"define", "undef", "include", "include_macro"}

\* ConditionStack::lastConditionSkippable; Skips tells, SkipOrCommit does.
Innermost(trk) == trk.conds[Len(trk.conds)]
Skips(trk, txt, p) == Innermost(trk).taken \/ skippable(txt, Innermost(trk).last, p)
SkipOrCommit(trk, txt, p, taken) ==
  IF Skips(trk, txt, p)
  THEN [trk EXCEPT !.conds[Len(trk.conds)].last = p, !.conds[Len(trk.conds)].taken = taken]
  ELSE commit(trk)

\* The macros seen since the last directive belong to the innermost condition.
Gather(trk) ==
  [trk EXCEPT !.conds[Len(trk.conds)].macros = @ \o trk.macros, !.macros = <<>>]
\* ... and when there are any at #else or #endif, an #elif went unreported.
GatherUnreported(trk) ==
  IF trk.macros = <<>> THEN trk
  ELSE [Gather(trk) EXCEPT !.conds[Len(trk.conds)].taken = FALSE]

ifDirective(trk, p, taken) ==
  [trk EXCEPT !.conds = Append(@, [macros |-> trk.macros, last |-> p, taken |-> taken, any |-> taken]),
              !.macros = <<>>]
elifDirective(trk, txt, p, taken) ==
  IF trk.conds = <<>> THEN commit(trk)
  ELSE LET g == [Gather(trk) EXCEPT !.conds[Len(trk.conds)].any = @ \/ taken]
       IN SkipOrCommit(g, txt, p, taken)
elseDirective(trk, txt, p) ==
  IF trk.conds = <<>> THEN commit(trk)
  ELSE LET g == GatherUnreported(trk) IN SkipOrCommit(g, txt, p, ~Innermost(g).any)
endifDirective(trk, txt, p) ==
  IF trk.conds = <<>> THEN trk
  ELSE LET g == GatherUnreported(trk)
       IN IF Skips(g, txt, p) THEN [g EXCEPT !.conds = Front(@)] ELSE commit(g)

(***************************************************************************)
(* Files.                                                                  *)
(***************************************************************************)
\* HeaderTracker::enterFile: the file's own #pragma once macro is used.
enterFile(trk, f, repl, hit) ==
  LET ctx == [file |-> f, repl |-> repl, hit |-> hit, used |-> <<>>, changed |-> {}, headers |-> {}]
      entered == [trk EXCEPT !.ctx = Append(@, ctx)]
  IN IF hit = NoEntry THEN Use(entered, Once(f)) ELSE entered

addHeader(trk, f) == [trk EXCEPT !.ctx[Top(trk)].headers = @ \cup {f}]

\* HeaderTracker::headerSkipped, for a file Clang itself does not include again.
headerSkipped(trk, f, guard) ==
  addHeader(UseAll(trk, IF guard = NoGuard THEN <<Once(f)>> ELSE <<Once(f), guard>>), f)

\* HeaderCtx::isViableForCache; every header here uses fewer than 1024 macros.
isViableForCache(trk) == ~Ctx(trk).repl

\* HeaderCtx::addToCache: what the current header would be cached as.
ToCache(trk) ==
  LET ctx == Ctx(trk)
  IN [file |-> ctx.file, path |-> ctx.used, headers |-> ctx.headers,
      out |-> [n \in ctx.changed |-> trk.state[n]]]

\* HeaderCtx::propagateToParent, and exitFile; hit is the entry the header
\* came from or was stored as, NoEntry when it was neither.
\* Mutant: what a cached header changed is not marked as changed in its parent.
X_ChangesNotPropagated(trk, hit) ==
  LET ctx == Ctx(trk)
      used == IF hit # NoEntry THEN hit.path ELSE ctx.used
      parent == FoldLeft(LAMBDA c, u : UseIn(c, u[1], u[2]), trk.ctx[Top(trk) - 1], used)
  IN [trk EXCEPT !.state = IF hit # NoEntry THEN hit.out @@ @ ELSE @,
        !.ctx = Append(SubSeq(@, 1, Top(trk) - 2),
                  [parent EXCEPT !.headers = @ \cup {ctx.file}
                       \cup IF hit # NoEntry THEN hit.headers ELSE ctx.headers])]
\* Mutant: what a cached header changed does not reach the macro state.
X_StateNotUpdated(trk, hit) ==
  LET ctx == Ctx(trk)
      used == IF hit # NoEntry THEN hit.path ELSE ctx.used
      changed == IF hit # NoEntry THEN DOMAIN hit.out ELSE ctx.changed
      headers == IF hit # NoEntry THEN hit.headers ELSE ctx.headers
      parent == FoldLeft(LAMBDA c, u : UseIn(c, u[1], u[2]), trk.ctx[Top(trk) - 1], used)
  IN [trk EXCEPT !.ctx = Append(SubSeq(@, 1, Top(trk) - 2),
                  [parent EXCEPT !.changed = @ \cup changed, !.headers = @ \cup headers \cup {ctx.file}])]
leaveHeader(trk, hit) ==
  LET ctx == Ctx(trk)
      used == IF hit # NoEntry THEN hit.path ELSE ctx.used
      changed == IF hit # NoEntry THEN DOMAIN hit.out ELSE ctx.changed
      headers == IF hit # NoEntry THEN hit.headers ELSE ctx.headers
      parent == FoldLeft(LAMBDA c, u : UseIn(c, u[1], u[2]), trk.ctx[Top(trk) - 1], used)
  IN [trk EXCEPT !.state = IF hit # NoEntry THEN hit.out @@ @ ELSE @,
        !.ctx = Append(SubSeq(@, 1, Top(trk) - 2),
                  [parent EXCEPT !.changed = @ \cup changed, !.headers = @ \cup headers \cup {ctx.file}])]

\* HeaderTracker::replaceFile: a header that a cached one has already included
\* and that has #pragma once is replaced by an empty file ...
AlreadyOnce(trk, f) == trk.state[Once(f)] # Undef
\* ... and one with an entry by a file that makes the entry's changes.
cachedFile(trk, f, hit) ==
  leaveHeader(enterFile([trk EXCEPT !.entries = @ \cup {hit}], f, TRUE, hit), hit)
emptyFile(trk, f) == leaveHeader(enterFile(trk, f, TRUE, NoEntry), NoEntry)

\* HeaderTracker::exitSourceFile: the headers are the result; the tracker,
\* and its references to cache entries, end with the scan.
exitSourceFile(trk) == [result |-> Ctx(trk).headers, tracker |-> NewTracker]
=============================================================================
