---------------------------- MODULE MC_WalletDemo ----------------------------
(***************************************************************************)
(* Two keypairs and two submissions.                                       *)
(***************************************************************************)
EXTENDS WalletDemo

CONSTANTS k1, k2

MCKeys == {k1, k2}

=============================================================================
