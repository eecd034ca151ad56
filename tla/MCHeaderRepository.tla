------------------------- MODULE MCHeaderRepository -------------------------
(* HeaderRepository for a few sessions; sessions, addresses and contents are *)
(* interchangeable.                                                          *)
EXTENDS HeaderRepository, TLC

Symmetry == Permutations(Sessions) \cup Permutations(Ids) \cup Permutations(Contents)

=============================================================================
