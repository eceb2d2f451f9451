--------------------------- MODULE MC_RateLimiter ---------------------------
(* RateLimiter on a small instance. *)
EXTENDS RateLimiter, TLC

\* A short and a long window; the long one is as long as StaleEntryTTL.
TwoLimits == {[max |-> 2, window |-> 1], [max |-> 1, window |-> 2]}

Symmetry == Permutations(Keys) \cup Permutations(Requests)

=============================================================================
