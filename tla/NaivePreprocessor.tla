------------------------- MODULE NaivePreprocessor -------------------------
(***************************************************************************)
(* NaivePreprocessor (naivePreprocessor_.cpp): collect every file that any *)
(* #include directive could bring in, conditions ignored, and give up as   *)
(* soon as an #include names its file by a macro.  What each file includes *)
(* is kept in a cache that all the scanning threads share:                 *)
(*   naiveCache[f]  Unknown, Complex, or the sequence of included files    *)
(* and one run is a record                                                 *)
(*   stack   headerStack_: the file, the finder (lexing the text or        *)
(*           replaying cached includes), how far it is, includes found     *)
(*   seen    alreadyVisited_                                               *)
(*   all     allHeaders_                                                   *)
(***************************************************************************)
EXTENDS Clang

Unknown == [kind |-> "unknown"]
Complex == [kind |-> "complex"]
Simple(incs) == [kind |-> "simple", includes |-> incs]

\* pushHeader: replay what the cache has, or lex the file.
Pushed(run, f, cached) ==
  [run EXCEPT !.stack = Append(@, [file |-> f, cached |-> cached, pos |-> 1, found |-> <<>>])]
NewRun(main) == Pushed([stack |-> <<>>, seen |-> {}, all |-> {}], main, Unknown)

\* handleInclude: a file is visited once; one known as complex ends the run.
Visits(run, h) == h \in Headers /\ h \notin run.seen
\* Mutant: a file seen before by another scan is taken to include nothing.
X_VisitedElsewhere(run, cache, h) ==
  IF ~Visits(run, h) THEN run
  ELSE Pushed([run EXCEPT !.seen = @ \cup {h}], h, IF cache[h] = Unknown THEN Unknown ELSE Simple(<<>>))
handleInclude(run, cache, h) ==
  IF ~Visits(run, h) THEN run
  ELSE Pushed([run EXCEPT !.seen = @ \cup {h}], h, cache[h])
GivesUp(run, cache, h) == Visits(run, h) /\ cache[h] = Complex

\* popHeader: every header but the source file itself is a result.
popHeader(run) ==
  [run EXCEPT !.stack = Front(@),
              !.all = IF Len(run.stack) > 1 THEN @ \cup {Last(run.stack).file} ELSE @]

\* nextInclude of the innermost finder, on the file's text.
Finder(run) == Last(run.stack)
Lexing(run) == Finder(run).cached = Unknown
Includes(txt, p) == {q \in p..Len(txt) : txt[q].op \in {"include", "include_macro"}}
NextInclude(txt, p) == CHOOSE q \in Includes(txt, p) : \A r \in Includes(txt, p) : q <= r
AtEnd(run, txt) ==
  IF Lexing(run) THEN Includes(txt, Finder(run).pos) = {}
  ELSE Finder(run).pos > Len(Finder(run).cached.includes)
FoundComplex(run, txt) ==
  Lexing(run) /\ ~AtEnd(run, txt) /\ txt[NextInclude(txt, Finder(run).pos)].op = "include_macro"
Found(run, txt) ==
  IF Lexing(run) THEN txt[NextInclude(txt, Finder(run).pos)].h
  ELSE Finder(run).cached.includes[Finder(run).pos]
Advance(run, txt) ==
  LET n == Len(run.stack)
  IN IF Lexing(run)
     THEN [run EXCEPT !.stack[n].pos = NextInclude(txt, @) + 1,
                      !.stack[n].found = Append(@, Found(run, txt))]
     ELSE [run EXCEPT !.stack[n].pos = @ + 1]

\* NaiveCache: store what a lexed file includes; mark the whole stack complex.
store(cache, run) ==
  IF Lexing(run) THEN [cache EXCEPT ![Finder(run).file] = Simple(Finder(run).found)]
  ELSE cache
markComplex(cache, run) ==
  [f \in DOMAIN cache |-> IF \E i \in DOMAIN run.stack : run.stack[i].file = f THEN Complex ELSE cache[f]]
=============================================================================
