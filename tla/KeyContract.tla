---------------------------- MODULE KeyContract ----------------------------
(***************************************************************************)
(* What the admin API promises about a sponsorship key, whatever happens   *)
(* to the requests that work on it: a key is created without a sponsor     *)
(* account, is bound only to an account that already exists on the Stellar *)
(* ledger and belongs to no other key, and becomes active only once it is  *)
(* bound.  Nothing here says in how many calls, with which failures or by  *)
(* how many concurrent administrators that is done: KeyLifecycle, the      *)
(* detailed specification, is shown to implement this one.                 *)
(***************************************************************************)

CONSTANTS
    Keys,       \* rows of the api_keys table
    Accounts,   \* Stellar accounts that may become sponsor accounts
    Nil         \* the NULL of the sponsor_account column

VARIABLES
    status,     \* status[k], "absent" until the row is inserted
    sponsor,    \* sponsor[k], the account bound to k, or Nil
    onChain     \* the sponsor accounts that exist on the ledger

contractVars == <<status, sponsor, onChain>>

Init ==
    /\ status = [k \in Keys |-> "absent"]
    /\ sponsor = [k \in Keys |-> Nil]
    /\ onChain = {}

\* The row is inserted, unfunded.
Create(k) ==
    /\ status[k] = "absent"
    /\ status' = [status EXCEPT ![k] = "pending_funding"]
    /\ UNCHANGED <<sponsor, onChain>>

\* The master account's activation transaction creates a on the ledger.
OpenAccount(a) ==
    /\ a \notin onChain
    /\ onChain' = onChain \cup {a}
    /\ UNCHANGED <<status, sponsor>>

\* An existing account that no other key holds is recorded for k.
Bind(k, a) ==
    /\ status[k] # "absent"
    /\ a \in onChain
    /\ \A other \in Keys \ {k} : sponsor[other] # a
    /\ sponsor' = [sponsor EXCEPT ![k] = a]
    /\ UNCHANGED <<status, onChain>>

\* A bound key is opened for signing.
Activate(k) ==
    /\ status[k] # "absent"
    /\ sponsor[k] \in onChain
    /\ status' = [status EXCEPT ![k] = "active"]
    /\ UNCHANGED <<sponsor, onChain>>

\* A key is closed; its account and the binding stay.
Revoke(k) ==
    /\ status[k] # "absent"
    /\ status' = [status EXCEPT ![k] = "revoked"]
    /\ UNCHANGED <<sponsor, onChain>>

Next ==
    \/ \E k \in Keys : Create(k) \/ Activate(k) \/ Revoke(k)
    \/ \E k \in Keys, a \in Accounts : Bind(k, a)
    \/ \E a \in Accounts : OpenAccount(a)

Spec == Init /\ [][Next]_contractVars

=============================================================================
