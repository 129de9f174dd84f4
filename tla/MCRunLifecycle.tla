--------------------------- MODULE MCRunLifecycle ---------------------------
(* RunLifecycle for TLC: reports, and requests of one kind, are exchangeable. *)
EXTENDS RunLifecycle, TLC

Symmetry == Permutations(Reporters) \cup Permutations(Retriers)
               \cup Permutations(Terminators)
=============================================================================
