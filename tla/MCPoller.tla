------------------------------ MODULE MCPoller ------------------------------
(* Model values of the host-process runs and their symmetry. *)
EXTENDS Poller, TLC

Symmetry == Permutations(Jobs) \cup Permutations(Sessions)
=============================================================================
