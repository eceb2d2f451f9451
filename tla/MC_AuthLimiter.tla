--------------------------- MODULE MC_AuthLimiter ---------------------------
(* AuthLimiter on a small instance. *)
EXTENDS AuthLimiter, TLC

Symmetry == Permutations(Addresses) \cup Permutations(Requests)

=============================================================================
