---------------------------- MODULE NodeDetector ----------------------------
(***************************************************************************)
(* The set of server nodes the manager knows of: NodeDetector and the      *)
(* beacons it asks (manager/__init__.py, common/beacon.py).  A call        *)
(* multicasts a question and takes the replies that come within 0.1        *)
(* seconds; questions and replies are datagrams and may be lost.           *)
(***************************************************************************)
EXTENDS Integers, FiniteSets

CONSTANT Nodes   \* the NodeInfo objects, one for each host name and port

\* NodeDetector.allowed_missed_replies
AllowedMissedReplies == 2

VARIABLE workingSet   \* current_working_set: missed replies of the listed nodes

\* The keys of current_working_set.
Listed == DOMAIN workingSet

WorkingSetTypeOK ==
  \E listed \in SUBSET Nodes : workingSet \in [listed -> 0..(AllowedMissedReplies + 1)]

Disappeared(replies) == {n \in Listed \ replies : workingSet[n] > AllowedMissedReplies}

MissesCounted(replies) ==
  [n \in Listed |-> IF n \in replies \cup Disappeared(replies) THEN workingSet[n]
                                                                ELSE workingSet[n] + 1]

\* The call returns.  What is deleted is old_node, which the first loop has left
\* at the node the dictionary lists last; the order of a dictionary is arbitrary.
Detect(replies) ==
  /\ Cardinality(Disappeared(replies)) <= 1
  /\ \E deleted \in IF Disappeared(replies) = {} THEN {{}} ELSE {{n} : n \in Listed} :
       workingSet' = [n \in (Listed \ deleted) \cup replies |->
                        IF n \in replies THEN 0 ELSE MissesCounted(replies)[n]]

\* The call raises KeyError: old_node is deleted a second time.
DetectRaises(replies) ==
  /\ Cardinality(Disappeared(replies)) > 1
  /\ \E n \in Listed :
       workingSet' = [m \in Listed \ {n} |-> MissesCounted(replies)[m]]

=============================================================================
