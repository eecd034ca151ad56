---------------------------- MODULE MCNodeManager ----------------------------
(* DetectedNodes with interchangeable tasks. *)
EXTENDS DetectedNodes

Symmetry == Permutations(Tasks)

=============================================================================
