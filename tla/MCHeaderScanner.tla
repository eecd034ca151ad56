-------------------------- MODULE MCHeaderScanner --------------------------
(***************************************************************************)
(* Small sets of files and tasks for the header scanner: two sources that  *)
(* share headers with include guards, #pragma once, conditions with        *)
(* branches not taken, macros changed by one header and used by another,   *)
(* and an include named by a macro.                                        *)
(***************************************************************************)
EXTENDS HeaderScanner

MCHeaders == {"m", "n", "a", "b", "c"}
MCMacroIds == {"X", "Y", "F"}
MCValues == {"1", "b"}

A1 == <<Ifn("Y"), Define("Y", "1"), Include("b"), Endif>>
A2 == <<PragmaOnce, If("X"), Include("b"), Elif("Y"), Undefine("X"), Else, Include("c"), Endif>>
A3 == <<If("X"), If("Y"), Include("b"), Endif, Endif, If("F"), Endif, Undefine("Y")>>
A4 == <<Include("b"), If("Y"), Endif, Undefine("Y")>>
B1 == <<PragmaOnce, If("Y"), Define("X", "1"), Else, Endif>>
B2 == <<Ifn("X"), Define("X", "1"), Include("c"), Endif>>
B3 == <<Include("missing"), Include("c"), If("X"), Elif("Y"), Define("X", "1"), Endif>>
C1 == <<PragmaOnce>>
C2 == <<If("Y"), Undefine("Y"), Else, Define("Y", "1"), Endif>>

Files(a, b, c) ==
  [f \in MCHeaders |->
     CASE f = "m" -> <<Include("a"), IncludeMacro("F"), Include("a")>>
       [] f = "n" -> <<Include("b"), Include("a")>>
       [] f = "a" -> a [] f = "b" -> b [] OTHER -> c]
MCTexts == {Files(A1, B1, C1), Files(A1, B3, C2), Files(A2, B1, C2),
            Files(A2, B2, C1), Files(A4, B2, C2), Files(A3, B3, C1)}

Plain == [main |-> "m", predefines |-> <<Define("F", "b")>>]
WithX == [main |-> "m", predefines |-> <<Define("F", "b"), Define("X", "1")>>]
WithB == [main |-> "m", predefines |-> <<Define("F", "b"), Define("Y", "1"), Include("b")>>]
Simple1 == [main |-> "n", predefines |-> <<Include("c")>>]
Simple2 == [main |-> "n", predefines |-> <<>>]

MCJobQueues == {<<Plain, WithX>>, <<WithB, WithX>>, <<Simple1, Simple2>>}

(***************************************************************************)
(* The files of test_pragma_once (test_source_scanner.py), scanned twice   *)
(* with one cache, as SourceScanner does.                                  *)
(***************************************************************************)
TestHeaders == {"test.cpp", "a.h", "xxx.h", "yyy.h"}
TestMacroIds == {"USE_PRAGMA_ONCE", "A_H", "XXX", "YYY"}
TestTexts == {
  [f \in TestHeaders |->
     CASE f = "a.h" -> <<If("USE_PRAGMA_ONCE"), PragmaOnce, Endif,
                         Ifn("XXX"), Define("XXX", "1"), Else, Define("YYY", "1"), Endif>>
       [] f = "test.cpp" -> <<Define("A_H", "a.h"), IncludeMacro("A_H"), IncludeMacro("A_H"),
                              If("XXX"), Include("xxx.h"), Endif, If("YYY"), Include("yyy.h"), Endif>>
       [] OTHER -> <<>>] }
TestJobQueues == {
  <<[main |-> "test.cpp", predefines |-> <<Define("USE_PRAGMA_ONCE", "1")>>],
    [main |-> "test.cpp", predefines |-> <<>>]>> }
=============================================================================
