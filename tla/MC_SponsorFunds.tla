-------------------------- MODULE MC_SponsorFunds --------------------------
(* SponsorFunds on a small instance. *)
EXTENDS SponsorFunds

\* Every transaction locks one reserve.
MCReserves == [t \in Txs |-> 1]

=============================================================================
