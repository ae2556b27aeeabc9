----------------------------- MODULE MCJobQueue -----------------------------
(* Model values of the repository runs and their symmetry. *)
EXTENDS JobQueueRefinement, TLC

Symmetry == Permutations(Jobs) \cup Permutations(Sessions)
=============================================================================
