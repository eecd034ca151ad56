--------------------------- MODULE HeaderScanner ---------------------------
(***************************************************************************)
(* The source scanner: worker threads take preprocessing tasks from a      *)
(* queue (source_scanner.py) and call Preprocessor::scanHeaders            *)
(* (headerScanner_.cpp), which tries the naive preprocessor and then runs  *)
(* Clang with the callbacks of HeaderTracker.  All threads share one       *)
(* header cache and one naive cache.  A step is one directive of Clang, or *)
(* one include of the naive preprocessor, so that the threads' uses of the *)
(* caches interleave.                                                      *)
(*                                                                         *)
(* Clang's own state in a scan is a record: macros, the #pragma once files *)
(* seen, the guarded files, and a stack of files being read with position  *)
(* and mode: run, look (for a branch to take) or skip (the rest).  The     *)
(* predefines (-D macros and forced includes) are a file on top of the     *)
(* source file that the callbacks do not see.                              *)
(***************************************************************************)
EXTENDS HeaderTracker, NaivePreprocessor

CONSTANTS Threads,
          Values,       \* what the texts define macros as
          Texts,        \* sets of files to scan: functions Headers -> directives
          JobQueues     \* sequences of tasks [main, predefines]

VARIABLES text, queue, pc, job, clang, trk, naive, cache, naiveCache, ended
vars == <<text, queue, pc, job, clang, trk, naive, cache, naiveCache, ended>>
shared == <<text, queue, cache, naiveCache, ended>>

Predefines == "predefines"
TextOf(t, f) == IF f = Predefines THEN job[t].predefines ELSE text[f]

Frame(f) == [file |-> f, pos |-> 1, mode |-> "run"]
NoJob == [main |-> NoFile, predefines |-> <<>>]
NoClang == [macros |-> [n \in RealNames |-> Undef], once |-> {}, guarded |-> {}, stack |-> <<>>]
Idle(t) == pc[t] = "idle"

Init ==
  /\ text \in Texts
  /\ queue \in JobQueues
  /\ pc = [t \in Threads |-> "idle"]
  /\ job = [t \in Threads |-> NoJob]
  /\ clang = [t \in Threads |-> NoClang]
  /\ trk = [t \in Threads |-> NewTracker]
  /\ naive = [t \in Threads |-> NewRun(NoFile)]
  /\ cache = EmptyCache
  /\ naiveCache = [f \in Headers |-> Unknown]
  /\ ended = {}

\* Entries that the threads' trackers refer to.
Held == UNION {trk[t].entries : t \in Threads}

(***************************************************************************)
(* The worker thread.                                                      *)
(***************************************************************************)
\* in_queue.get, and NaivePreprocessor with the source file pushed.
TakeJob(t) ==
  /\ Idle(t) /\ queue # <<>>
  /\ queue' = Tail(queue)
  /\ job' = [job EXCEPT ![t] = Head(queue)]
  /\ pc' = [pc EXCEPT ![t] = "forced"]
  /\ naive' = [naive EXCEPT ![t] = NewRun(Head(queue).main)]
  /\ UNCHANGED <<text, clang, trk, cache, naiveCache, ended>>

Forced(t) == SelectSeq(job[t].predefines, LAMBDA d : d.op = "include")

\* Clang starts: the source file is entered, then the predefines.
StartClang(t) ==
  /\ pc' = [pc EXCEPT ![t] = "clang"]
  /\ clang' = [clang EXCEPT ![t] = [NoClang EXCEPT !.stack = <<Frame(job[t].main), Frame(Predefines)>>]]
  /\ trk' = [trk EXCEPT ![t] = enterFile(NewTracker, job[t].main, FALSE, NoEntry)]
  /\ naive' = [naive EXCEPT ![t] = NewRun(NoFile)]

\* notify(task): the scan's result; how says which preprocessor made it.
Done(t, how, headers) ==
  /\ ended' = ended \cup {[job |-> job[t], how |-> how, headers |-> headers]}
  /\ pc' = [pc EXCEPT ![t] = "idle"]
  /\ job' = [job EXCEPT ![t] = NoJob]

(***************************************************************************)
(* The naive run.                                                          *)
(***************************************************************************)
\* The forced includes are visited before the source file is lexed.
VisitInclude(t, run, h) ==
  /\ IF GivesUp(run, naiveCache, h) THEN StartClang(t)
     ELSE /\ naive' = [naive EXCEPT ![t] = handleInclude(run, naiveCache, h)]
          /\ UNCHANGED <<pc, clang, trk>>
  /\ UNCHANGED <<text, queue, job, cache, naiveCache, ended>>

NaiveForced(t) ==
  /\ pc[t] = "forced"
  /\ \/ \E i \in DOMAIN Forced(t) :
          /\ Visits(naive[t], Forced(t)[i].h)
          /\ \A k \in 1..(i - 1) : ~Visits(naive[t], Forced(t)[k].h)
          /\ VisitInclude(t, naive[t], Forced(t)[i].h)
     \/ /\ \A i \in DOMAIN Forced(t) : ~Visits(naive[t], Forced(t)[i].h)
        /\ pc' = [pc EXCEPT ![t] = "naive"]
        /\ UNCHANGED <<job, clang, trk, naive, shared>>

NaiveText(t) == text[Finder(naive[t]).file]
NaiveInclude(t) ==
  /\ pc[t] = "naive"
  /\ ~AtEnd(naive[t], NaiveText(t)) /\ ~FoundComplex(naive[t], NaiveText(t))
  /\ VisitInclude(t, Advance(naive[t], NaiveText(t)), Found(naive[t], NaiveText(t)))

NaiveHeaderDone(t) ==
  /\ pc[t] = "naive"
  /\ AtEnd(naive[t], NaiveText(t))
  /\ naiveCache' = store(naiveCache, naive[t])
  /\ LET run == popHeader(naive[t])
     IN IF run.stack = <<>>
        THEN /\ Done(t, "naive", run.all)
             /\ naive' = [naive EXCEPT ![t] = NewRun(NoFile)]
        ELSE /\ naive' = [naive EXCEPT ![t] = run]
             /\ UNCHANGED <<pc, job, ended>>
  /\ UNCHANGED <<text, queue, clang, trk, cache>>

NaiveComplex(t) ==
  /\ pc[t] = "naive"
  /\ FoundComplex(naive[t], NaiveText(t))
  /\ naiveCache' = markComplex(naiveCache, naive[t])
  /\ StartClang(t)
  /\ UNCHANGED <<text, queue, job, cache, ended>>

(***************************************************************************)
(* Clang and the tracker.                                                  *)
(***************************************************************************)
Depth(t) == Len(clang[t].stack)
Fr(t) == clang[t].stack[Depth(t)]
Txt(t) == TextOf(t, Fr(t).file)
AtDirective(t, mode, ops) ==
  /\ pc[t] = "clang" /\ Fr(t).mode = mode /\ Fr(t).pos <= Len(Txt(t))
  /\ Txt(t)[Fr(t).pos].op \in ops
D(t) == Txt(t)[Fr(t).pos]
Defined(t, m) == clang[t].macros[m] # Undef

\* Clang goes on at position p in the given mode, with the tracker told so.
GoOn(t, p, mode, c, tracker) ==
  /\ clang' = [clang EXCEPT ![t] = [c EXCEPT !.stack[Depth(t)].pos = p, !.stack[Depth(t)].mode = mode]]
  /\ trk' = [trk EXCEPT ![t] = tracker]
  /\ UNCHANGED <<pc, job, naive, shared>>
Next1(t) == Fr(t).pos + 1
Branch(t) == NextBranch(Txt(t), Fr(t).pos)

\* #define and #undef.
MacroDirective(t) ==
  /\ AtDirective(t, "run", {"define", "undef"})
  /\ LET v == IF D(t).op = "define" THEN D(t).v ELSE Undef
     IN GoOn(t, Next1(t), "run", [clang[t] EXCEPT !.macros[D(t).m] = v],
             IF D(t).op = "define" THEN macroDefined(trk[t], D(t).m, v)
             ELSE macroUndefined(trk[t], D(t).m))

PragmaDirective(t) ==
  /\ AtDirective(t, "run", {"once"})
  /\ GoOn(t, Next1(t), "run", [clang[t] EXCEPT !.once = @ \cup {Fr(t).file}], pragmaOnce(trk[t]))

\* Callbacks Ifdef and Ifndef; a group not taken is searched for a branch.
IfDirective(t) ==
  /\ AtDirective(t, "run", {"ifdef", "ifndef"})
  /\ LET taken == Defined(t, D(t).m) <=> D(t).op = "ifdef"
         tracker == ifDirective(macroUsed(trk[t], D(t).m), Fr(t).pos, taken)
     IN IF taken THEN GoOn(t, Next1(t), "run", clang[t], tracker)
        ELSE GoOn(t, Branch(t), "look", clang[t], tracker)

\* After a branch that was taken: the rest of the group is skipped.
EndBranch(t) ==
  \/ /\ AtDirective(t, "run", {"elif"})
     /\ GoOn(t, Branch(t), "skip", clang[t], elifDirective(trk[t], Txt(t), Fr(t).pos, FALSE))
  \/ /\ AtDirective(t, "run", {"else"})
     /\ GoOn(t, Branch(t), "skip", clang[t], elseDirective(trk[t], Txt(t), Fr(t).pos))
  \/ /\ AtDirective(t, "skip", {"elif", "else"})
     /\ GoOn(t, Branch(t), "skip", clang[t], trk[t])
  \/ /\ AtDirective(t, "run", {"endif"}) \/ AtDirective(t, "skip", {"endif"})
        \/ AtDirective(t, "look", {"endif"})
     /\ GoOn(t, Next1(t), "run", clang[t], endifDirective(trk[t], Txt(t), Fr(t).pos))

\* Looking for a branch: Clang evaluates an #elif (macroUsed) and may leave
\* out the Elif callback of one that is not taken.
LookForBranch(t) ==
  \/ /\ AtDirective(t, "look", {"elif"})
     /\ LET taken == Defined(t, D(t).m)
            used == macroUsed(trk[t], D(t).m)
            told == elifDirective(used, Txt(t), Fr(t).pos, taken)
        IN IF taken THEN GoOn(t, Next1(t), "run", clang[t], told)
           ELSE \E tracker \in {used, told} : GoOn(t, Branch(t), "look", clang[t], tracker)
  \/ /\ AtDirective(t, "look", {"else"})
     /\ GoOn(t, Next1(t), "run", clang[t], elseDirective(trk[t], Txt(t), Fr(t).pos))

\* The #include directive.  A macro that names the file is used.
Target(t) == IncludedFile(D(t), clang[t].macros)
BeforeInclude(t) ==
  IF D(t).op = "include_macro" THEN macroUsed(trk[t], D(t).m) ELSE trk[t]

\* A missing file is only noted; InclusionDirective does not commit for it.
IncludeMissing(t) ==
  /\ AtDirective(t, "run", {"include", "include_macro"})
  /\ Target(t) = NoFile
  /\ GoOn(t, Next1(t), "run", clang[t], BeforeInclude(t))

\* Clang includes the file only once: FileSkipped.
Guarded(t, f) == f \in clang[t].guarded /\ Defined(t, GuardOf(text[f]))
IncludeSkipped(t) ==
  /\ AtDirective(t, "run", {"include", "include_macro"})
  /\ Target(t) # NoFile
  /\ Target(t) \in clang[t].once \/ Guarded(t, Target(t))
  /\ LET f == Target(t)
     IN GoOn(t, Next1(t), "run", clang[t],
             headerSkipped(commit(BeforeInclude(t)), f,
                           IF f \in clang[t].once THEN NoGuard ELSE GuardOf(text[f])))

\* Otherwise the tracker may replace it: ReplaceFile, then EnterFile.
IncludeEntered(t) ==
  /\ AtDirective(t, "run", {"include", "include_macro"})
  /\ Target(t) # NoFile
  /\ Target(t) \notin clang[t].once /\ ~Guarded(t, Target(t))
  /\ LET f == Target(t)
         ready == commit(BeforeInclude(t))
         hit == Find(cache, Held, f, ready.state)
     IN IF AlreadyOnce(ready, f) THEN GoOn(t, Next1(t), "run", clang[t], emptyFile(ready, f))
        ELSE /\ cache' = FindEntry(cache, hit)
             /\ IF hit # NoEntry
                THEN LET real == [n \in DOMAIN hit.out \cap RealNames |-> hit.out[n]]
                     IN /\ clang' = [clang EXCEPT ![t].macros = real @@ @,
                                                  ![t].stack[Depth(t)].pos = @ + 1]
                        /\ trk' = [trk EXCEPT ![t] = cachedFile(ready, f, hit)]
                ELSE /\ clang' = [clang EXCEPT ![t].stack = Append([@ EXCEPT ![Depth(t)].pos = @ + 1], Frame(f))]
                     /\ trk' = [trk EXCEPT ![t] = enterFile(ready, f, FALSE, NoEntry)]
             /\ UNCHANGED <<text, queue, pc, job, naive, naiveCache, ended>>

\* The end of a header: LeaveHeader; of the predefines: nothing is told; of
\* the source file: exitSourceFile, and the result is returned.
AtEof(t) == pc[t] = "clang" /\ Fr(t).pos > Len(Txt(t))
LeavePredefines(t) ==
  /\ AtEof(t) /\ Fr(t).file = Predefines
  /\ clang' = [clang EXCEPT ![t].stack = Front(@)]
  /\ UNCHANGED <<pc, job, trk, naive, shared>>
LeaveHeader(t) ==
  /\ AtEof(t) /\ Fr(t).file # Predefines /\ Depth(t) > 1
  /\ LET f == Fr(t).file
         new == ToCache(trk[t])
         guard == IF GuardOf(text[f]) = NoGuard THEN {} ELSE {f}
         hit == IF isViableForCache(trk[t]) THEN AddedEntry(cache, Held, new) ELSE NoEntry
     IN /\ cache' = IF isViableForCache(trk[t]) THEN AddEntry(cache, Held, new) ELSE cache
        /\ trk' = [trk EXCEPT ![t] = leaveHeader(@, hit)]
        /\ clang' = [clang EXCEPT ![t].stack = Front(@), ![t].guarded = @ \cup guard]
  /\ UNCHANGED <<text, queue, pc, job, naive, naiveCache, ended>>
EndOfMainFile(t) ==
  /\ AtEof(t) /\ Fr(t).file # Predefines /\ Depth(t) = 1
  /\ Done(t, "clang", exitSourceFile(trk[t]).result)
  /\ trk' = [trk EXCEPT ![t] = exitSourceFile(@).tracker]
  /\ clang' = [clang EXCEPT ![t] = NoClang]
  /\ UNCHANGED <<text, queue, naive, cache, naiveCache>>

Next ==
  \E t \in Threads :
    \/ TakeJob(t) \/ NaiveForced(t) \/ NaiveInclude(t) \/ NaiveHeaderDone(t) \/ NaiveComplex(t)
    \/ MacroDirective(t) \/ PragmaDirective(t) \/ IfDirective(t) \/ EndBranch(t) \/ LookForBranch(t)
    \/ IncludeMissing(t) \/ IncludeSkipped(t) \/ IncludeEntered(t)
    \/ LeavePredefines(t) \/ LeaveHeader(t) \/ EndOfMainFile(t)
Spec == Init /\ [][Next]_vars

(***************************************************************************)
(* Properties.                                                             *)
(***************************************************************************)
\* Type invariant: contexts match the files Clang is reading, and threads at
\* rest keep nothing.
TypeOK ==
  /\ pc \in [Threads -> {"idle", "forced", "naive", "clang"}]
  /\ cache.time \in Nat
  /\ \A f \in Headers : naiveCache[f].kind \in {"unknown", "complex", "simple"}
  /\ \A t \in Threads :
       IF pc[t] = "clang"
       THEN [i \in DOMAIN trk[t].ctx |-> trk[t].ctx[i].file]
            = SelectSeq([i \in DOMAIN clang[t].stack |-> clang[t].stack[i].file], LAMBDA f : f # Predefines)
       ELSE trk[t] = NewTracker /\ clang[t] = NoClang

\* What a preprocessor without caches finds, given the predefines.
Whole(j) == (Predefines :> j.predefines) @@ text
Expected(j) ==
  LET start == [macros |-> NoClang.macros, once |-> {}, headers |-> {}]
  IN Run(Whole(j), j.main, 1, Run(Whole(j), Predefines, 1, start)).headers

\* A scan made by Clang reports exactly the headers that preprocessing without
\* any cache would include, whichever scans filled the cache before or
\* meanwhile (Preprocessor::scanHeaders with a shared Cache).
ScanExact ==
  \A r \in ended : r.how = "clang" => r.headers = Expected(r.job)

\* The naive scan ignores conditions, so it may report too much, but never
\* misses a header that is included, although files lexed by other scans are
\* replayed from the naive cache (NaivePreprocessorImpl::run).
NaiveSuperset ==
  \A r \in ended : r.how = "naive" => Expected(r.job) \subseteq r.headers

\* The tracker's macro state, which cache lookups are made with, is at every
\* directive what Clang's is, although cached headers are never preprocessed
\* (HeaderTracker::macroState_ against cachedContent and generateContent).
MacrosMirrored ==
  \A t \in Threads : pc[t] = "clang" =>
    \A n \in RealNames : trk[t].state[n] = clang[t].macros[n]

\* The entries of a file form a decision tree: of any two, the first used
\* macro in which they differ is the same macro with different values.  These
\* are the assertions of CacheTree::getChild and setEntry.
Differ(p, q) ==
  \E i \in DOMAIN p \cap DOMAIN q :
    /\ p[i][1] = q[i][1] /\ p[i][2] # q[i][2]
    /\ \A k \in 1..(i - 1) : p[k] = q[k]
TreeConsistent ==
  \A e \in Tree(cache, Held), f \in Tree(cache, Held) :
    e.file = f.file /\ e # f => Differ(e.path, f.path)

\* What the tracker and the cache know of each file is right at every step.
ScannerInv == TypeOK /\ MacrosMirrored /\ TreeConsistent

\* Preprocessing the entry's file from macros m and #pragma once files o.
Replay(e, m, o) == Run(text, e.file, 1, [macros |-> m, once |-> o, headers |-> {}])
OnceFiles == {f \in Headers : PragmaOnce \in ToSet(text[f])}
Agrees(e, m, o) ==
  \A i \in DOMAIN e.path :
    LET n == e.path[i][1] v == e.path[i][2]
    IN IF n[1] = "macro" THEN m[n] = v ELSE (n[2] \in o) <=> (v # Undef)
\* An entry may be used wherever its used macros have its values: from every
\* such state preprocessing the file has the effect and includes the headers
\* that the entry records, whatever the other macros are.
Replayable(e) ==
  \A m \in [RealNames -> {Undef} \cup Values], o \in SUBSET OnceFiles :
    Agrees(e, m, o) =>
      LET r == Replay(e, m, o)
      IN /\ r.headers = e.headers
         /\ r.macros = [n \in RealNames |-> IF n \in DOMAIN e.out THEN e.out[n] ELSE m[n]]
\* Every entry that a step adds to the cache is replayable: the macros the
\* tracker left out as unused (ConditionStack::skippable) or as changed by the
\* header itself (HeaderCtx::addToCache) make no difference.
EntriesReplayable ==
  [][\A e \in Tree(cache', {}) \ Tree(cache, {}) : Replayable(e)]_vars
=============================================================================
