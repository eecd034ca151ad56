------------------------------ MODULE MCClient ------------------------------
\* Two commands: one with two files that lack headers, one with a single file.
EXTENDS Client
MCTasks == [c \in Clients |-> IF c = "c1" THEN {"a", "b"} ELSE {"x"}]
MCCommands ==
  {[c \in Clients |-> IF c = "c1" THEN "compile" ELSE k] : k \in {"local", "nofiles", "nopch", "link"}}
  \cup {[c \in Clients |-> IF c = "c1" THEN "link" ELSE "pch"]}
=============================================================================
