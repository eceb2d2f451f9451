---------------------------- MODULE MC_Verifier ----------------------------
(* Verifier on short transactions. *)
EXTENDS Verifier

\* A key for everything, and one for trustlines of a single account.
TwoKeys(user) ==
    {[ops |-> SupportedOperations, sources |-> {}],
     [ops |-> {"CHANGE_TRUST"}, sources |-> {user}]}

CONSTANTS user, new

MCAccounts == {user, new}
MCApiKeys == TwoKeys(user)

\* One type of every kind that Verify tells apart.
MCTypes ==
    {Begin, End, "CREATE_ACCOUNT", "CHANGE_TRUST", "CREATE_CLAIMABLE_BALANCE",
     "MANAGE_DATA", "PAYMENT", "ACCOUNT_MERGE", "BUMP_SEQUENCE"}

=============================================================================
