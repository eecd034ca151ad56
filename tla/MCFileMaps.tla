----------------------------- MODULE MCFileMaps -----------------------------
\* Three compilers of one machine in two slots, a process the second one
\* creates, and one the server creates with its own hooks enabled.  j1 has a
\* precompiled header; j2 its own version of the shared header, whose name it
\* spells differently.
EXTENDS FileMaps
MCParent == [k \in Kids |-> IF k = "g1" THEN "j2" ELSE Root]
MCNorm == [p \in Spelled |->
  CASE p \in {"inc/a.h", "inc/x/../A.h"} -> [dir |-> "inc", file |-> "a.h", asDir |-> "inc/a.h"]
    [] p = "src/a.pch" -> [dir |-> "src", file |-> "a.pch", asDir |-> "src/a.pch"]
    [] OTHER -> [dir |-> "", file |-> "inc", asDir |-> "inc"]]
MCComposition == [j \in Jobs |->
  IF j = "j1" THEN <<"over1", Shared, "temp1">> ELSE IF j = "j2" THEN <<Shared, "temp2">> ELSE <<Shared>>]
MCFilesOf == [j \in Jobs |-> [m \in Maps |->
  CASE m = "over1" /\ j = "j1" -> {"src/a.pch"}
    [] m = Shared /\ j # "j2" -> {"inc/a.h"}
    [] m = "temp2" /\ j = "j2" -> {"inc/x/../A.h"}
    [] OTHER -> {}]]
=============================================================================
