------------------------------- MODULE Clang -------------------------------
(***************************************************************************)
(* The C preprocessor that the header scanner drives (Clang, external to   *)
(* this repository): source texts as sequences of directives, the branch   *)
(* structure of #if groups, and the reference meaning of a translation     *)
(* unit.  Nothing here knows of the header cache.                          *)
(***************************************************************************)
EXTENDS Integers, Sequences, FiniteSets, SequencesExt

CONSTANTS Headers,      \* names of the source and header files
          MacroIds      \* identifiers that sources test and define

Undef == "undef"

\* Names of the tracker's macros: the sources' own, and one per file that
\* stands for "this file was included and has #pragma once".
M(id) == <<"macro", id>>
Once(f) == <<"once", f>>
RealNames == {M(id) : id \in MacroIds}
OnceNames == {Once(f) : f \in Headers}
Names == RealNames \cup OnceNames

\* Directives.
If(id) == [op |-> "ifdef", m |-> M(id)]
Ifn(id) == [op |-> "ifndef", m |-> M(id)]
Elif(id) == [op |-> "elif", m |-> M(id)]
Else == [op |-> "else"]
Endif == [op |-> "endif"]
Define(id, v) == [op |-> "define", m |-> M(id), v |-> v]
Undefine(id) == [op |-> "undef", m |-> M(id)]
Include(h) == [op |-> "include", h |-> h]
IncludeMacro(id) == [op |-> "include_macro", m |-> M(id)]
PragmaOnce == [op |-> "once"]

\* The next #elif, #else or #endif of the group that the directive at p is in.
NextBranch(txt, p) ==
  CHOOSE q \in (p + 1)..Len(txt) :
    LET level(r) == Cardinality({i \in (p + 1)..(r - 1) : txt[i].op \in {"ifdef", "ifndef"}})
                    - Cardinality({i \in (p + 1)..(r - 1) : txt[i].op = "endif"})
        branch(r) == txt[r].op \in {"elif", "else", "endif"} /\ level(r) = 0
    IN branch(q) /\ \A r \in (p + 1)..(q - 1) : ~branch(r)

\* The controlling macro of a file that is one #ifndef group, or None.
NoGuard == <<"macro", "none">>
GuardOf(txt) ==
  IF Len(txt) > 0 /\ txt[1].op = "ifndef" /\ NextBranch(txt, 1) = Len(txt)
  THEN txt[1].m ELSE NoGuard

\* The file an #include names, given the macros; NoFile when there is none.
NoFile == "nofile"
IncludedFile(d, macros) ==
  LET h == IF d.op = "include" THEN d.h ELSE macros[d.m]
  IN IF h \in Headers THEN h ELSE NoFile

(***************************************************************************)
(* Reference meaning: the macros, the #pragma once files and the headers   *)
(* included after the text from position p on, branch structure included.  *)
(***************************************************************************)
RECURSIVE Run(_, _, _, _), Seek(_, _, _, _)
Run(text, f, p, st) ==
  IF p > Len(text[f]) THEN st
  ELSE LET d == text[f][p]
           next(s) == Run(text, f, p + 1, s)
       IN CASE d.op = "ifdef" ->
                 IF st.macros[d.m] # Undef THEN next(st) ELSE Seek(text, f, p, st)
            [] d.op = "ifndef" ->
                 IF st.macros[d.m] = Undef THEN next(st) ELSE Seek(text, f, p, st)
            [] d.op \in {"elif", "else"} ->
                 LET q == NextBranch(text[f], p)
                 IN IF text[f][q].op = "endif" THEN Run(text, f, q + 1, st)
                    ELSE Run(text, f, q, st)
            [] d.op = "endif" -> next(st)
            [] d.op = "define" -> next([st EXCEPT !.macros[d.m] = d.v])
            [] d.op = "undef" -> next([st EXCEPT !.macros[d.m] = Undef])
            [] d.op = "once" -> next([st EXCEPT !.once = @ \cup {f}])
            [] OTHER ->
                 LET g == IncludedFile(d, st.macros)
                     seen == [st EXCEPT !.headers = @ \cup {g}]
                 IN IF g = NoFile THEN next(st)
                    ELSE IF g \in st.once THEN next(seen)
                    ELSE next(Run(text, g, 1, seen))
Seek(text, f, p, st) ==
  LET q == NextBranch(text[f], p)
      d == text[f][q]
  IN IF d.op = "elif" /\ st.macros[d.m] = Undef THEN Seek(text, f, q, st)
     ELSE Run(text, f, q + 1, st)
=============================================================================
