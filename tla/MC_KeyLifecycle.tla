--------------------------- MODULE MC_KeyLifecycle ---------------------------
(* KeyLifecycle on a small instance. *)
EXTENDS KeyLifecycle, TLC

Symmetry == Permutations(Keys) \cup Permutations(Accounts) \cup Permutations(Requests)

=============================================================================
