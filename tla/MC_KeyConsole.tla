---------------------------- MODULE MC_KeyConsole ----------------------------
(***************************************************************************)
(* Two calls in flight and three versions of the row.                      *)
(***************************************************************************)
EXTENDS KeyConsole

CONSTANTS c1, c2

MCCalls == {c1, c2}

=============================================================================
