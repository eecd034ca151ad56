------------------------------ MODULE Command ------------------------------
(***************************************************************************)
(* What a build may rely on when its compiler commands go through          *)
(* BuildPal: every command ends at most once; it ends with the combined    *)
(* exit codes of its source files only when all of them were compiled, and *)
(* is linked only when all were compiled without error.  Otherwise the     *)
(* command is run, whole, on the client's machine, or refused.             *)
(***************************************************************************)
EXTENDS Integers

CONSTANTS Clients,      \* one per compiler command
          Tasks,        \* Tasks[c]: the source files of the command
          Codes         \* exit codes of the compiler

VARIABLES results,      \* results[c]: exit codes of the files compiled so far
          outcome       \* outcome[c]: how the command ended
commandVars == <<results, outcome>>

Pending == [how |-> "pending", code |-> 0]
\* Ends that say nothing of the files: the real compiler was run instead
\* (asked by the manager or as a fallback), the fallback is disabled, or the
\* compiler could not be identified.
Elsewhere == {"local", "fallback", "failed", "pch", "unusable"}

AllCompiled(c) == DOMAIN results[c] = Tasks[c]
Errors(res) == {res[t] : t \in DOMAIN res} \ {0}
\* The exit code of a command: 0, or that of some file that failed.
ExitCodes(res) == IF Errors(res) = {} THEN {0} ELSE Errors(res)

CommandInit ==
  /\ results = [c \in Clients |-> [t \in {} |-> 0]]
  /\ outcome = [c \in Clients |-> Pending]

Compiled(c, t, r) ==
  /\ t \in Tasks[c] \ DOMAIN results[c]
  /\ results' = [results EXCEPT ![c] = [u \in DOMAIN results[c] \cup {t} |->
                                          IF u = t THEN r ELSE results[c][u]]]
  /\ UNCHANGED outcome

Ended(c, o) ==
  /\ outcome[c] = Pending
  /\ \/ o.how \in Elsewhere
     \/ o.how = "exit" /\ AllCompiled(c) /\ o.code \in ExitCodes(results[c])
     \/ o.how = "link" /\ AllCompiled(c) /\ Errors(results[c]) = {}
  /\ outcome' = [outcome EXCEPT ![c] = o]
  /\ UNCHANGED results

CommandNext ==
  \E c \in Clients :
    \/ \E t \in Tasks[c], r \in Codes \cup {-1} : Compiled(c, t, r)
    \/ \E h \in Elsewhere \cup {"exit", "link"}, k \in Codes \cup {-1} :
         Ended(c, [how |-> h, code |-> k])
CommandSpec == CommandInit /\ [][CommandNext]_commandVars
=============================================================================
