--------------------------- MODULE MC_AccountInfo ---------------------------
(***************************************************************************)
(* Up to five loads in flight at once.                                     *)
(***************************************************************************)
EXTENDS AccountInfo

MCLoads == 1 .. 5

=============================================================================
