---------------------------- MODULE KeyLifecycle ----------------------------
(***************************************************************************)
(* The life of an API key: creation (APIKeyService.Create), activation     *)
(* (FundingService.BuildActivate and SubmitActivate) and revocation        *)
(* (APIKeyService.Revoke), as run by concurrent request goroutines against *)
(* one Postgres table and the Stellar network.                             *)
(*                                                                         *)
(* Every statement of the store is a transaction of its own and no handler *)
(* holds a lock, so a request is split at each call that leaves the        *)
(* process: a row read, a Horizon call, a row write.  What a request has   *)
(* read is in its record in req, never read again.  A request ends by      *)
(* answering, by an error of the call it is in, or with the process.       *)
(*                                                                         *)
(* Abstracted: amounts, names and the other columns of the row; an         *)
(* activation envelope is identified by the random sponsor account it      *)
(* creates, because keypair.Random never repeats.                          *)
(***************************************************************************)
EXTENDS Naturals

CONSTANTS
    Keys,       \* rows of the api_keys table
    Accounts,   \* sponsor key pairs that BuildActivate may generate
    Requests,   \* request goroutines of the server
    Nil,        \* the NULL of the sponsor_account column
    MaxSeq      \* bound on the transactions of the master account

ASSUME NilAssumption == Nil \notin Keys /\ Nil \notin Accounts
ASSUME MaxSeqAssumption == MaxSeq \in Nat

VARIABLES
    row,        \* row[k]: the columns status and sponsor of key k
    xdr,        \* xdr[a]: the activation envelope that creates account a
    masterSeq,  \* sequence number of the master account on the ledger
    req         \* req[r]: where goroutine r is, and what it has read

vars == <<row, xdr, masterSeq, req>>

-----------------------------------------------------------------------------

Status == {"absent", "pending_funding", "active", "revoked"}

\* built: handed to the administrator; submitted: given to the network, which
\* may still apply it; applied: its account exists on the ledger.
XdrState == {"unbuilt", "built", "submitted", "applied"}

\* The statement a goroutine executes next.
Pc == {"idle", "build_load", "submit_send", "submit_wait",
       "set_sponsor", "set_active", "revoke_write"}

Idle == [pc |-> "idle", key |-> Nil, acct |-> Nil]

TypeOK ==
    /\ row \in [Keys -> [status : Status, sponsor : Accounts \cup {Nil}]]
    /\ xdr \in [Accounts -> [state : XdrState, key : Keys \cup {Nil}, seq : Nat]]
    /\ masterSeq \in Nat
    /\ req \in [Requests ->
                  [pc : Pc, key : Keys \cup {Nil}, acct : Accounts \cup {Nil}]]

Init ==
    /\ row = [k \in Keys |-> [status |-> "absent", sponsor |-> Nil]]
    /\ xdr = [a \in Accounts |-> [state |-> "unbuilt", key |-> Nil, seq |-> 0]]
    /\ masterSeq = 0
    /\ req = [r \in Requests |-> Idle]

\* The accounts the ledger knows.
OnChain == {a \in Accounts : xdr[a].state = "applied"}

Begin(r, pc, k, a) ==
    /\ req[r].pc = "idle"
    /\ req' = [req EXCEPT ![r] = [pc |-> pc, key |-> k, acct |-> a]]

At(r, pc) == req[r].pc = pc

Goto(r, pc) == req' = [req EXCEPT ![r].pc = pc]

Finish(r) == req' = [req EXCEPT ![r] = Idle]

-----------------------------------------------------------------------------
\* Faulty variants of the operations below.  Each is a mistake that the code could
\* contain and that a property of this module must notice; none is in Next.

\* The row is inserted with a status the column's enum does not have.
CreateUnknownStatus(k) ==
    /\ row[k].status = "absent"
    /\ row' = [row EXCEPT ![k].status = "pending"]
    /\ UNCHANGED <<xdr, masterSeq, req>>

\* The status of the row is not looked at before a submission.
SubmitCheckAnyStatus(r, k, a) ==
    /\ xdr[a].state # "unbuilt"
    /\ row[k].status # "absent"
    /\ Begin(r, "submit_send", k, a)
    /\ UNCHANGED <<row, xdr, masterSeq>>

\* The error of SubmitTransactionXDR is ignored.
SubmitAcceptedUnread(r) ==
    /\ At(r, "submit_wait")
    /\ Goto(r, "set_sponsor")
    /\ UNCHANGED <<row, xdr, masterSeq>>

\* The column sponsor_account lost its UNIQUE constraint.
SetSponsorAccountShared(r) ==
    /\ At(r, "set_sponsor")
    /\ row' = [row EXCEPT ![req[r].key].sponsor = req[r].acct]
    /\ Goto(r, "set_active")
    /\ UNCHANGED <<xdr, masterSeq>>

-----------------------------------------------------------------------------
\* APIKeyService.Create: the validated key is inserted, with no sponsor account.

Create(k) ==
    /\ row[k].status = "absent"
    /\ row' = [row EXCEPT ![k].status = "pending_funding"]
    /\ UNCHANGED <<xdr, masterSeq, req>>

-----------------------------------------------------------------------------
\* FundingService.BuildActivate.

\* Reads the row and requires it to be pending.
BuildRead(r, k) ==
    /\ row[k].status = "pending_funding"
    /\ Begin(r, "build_load", k, Nil)
    /\ UNCHANGED <<row, xdr, masterSeq>>

\* The five operations that create the account, under the master account's next
\* sequence number as Horizon reports it.
NewEnvelope(k) == [state |-> "built", key |-> k, seq |-> masterSeq + 1]

\* Generates a key pair, loads the master account's sequence number, and
\* answers with the pre-signed envelope.
BuildLoad(r) ==
    /\ At(r, "build_load")
    /\ \E a \in Accounts :
        /\ xdr[a].state = "unbuilt"
        /\ xdr' = [xdr EXCEPT ![a] = NewEnvelope(req[r].key)]
    /\ Finish(r)
    /\ UNCHANGED <<row, masterSeq>>

-----------------------------------------------------------------------------
\* FundingService.SubmitActivate.

\* The validation looks at the shape of the envelope only: one that was built for
\* another key passes, and so does one that was submitted before.
ValidActivation(a) == xdr[a].state # "unbuilt"

\* Reads the row, requires it to be pending, and validates the envelope.
SubmitCheck(r, k, a) ==
    /\ row[k].status = "pending_funding"
    /\ ValidActivation(a)
    /\ Begin(r, "submit_send", k, a)
    /\ UNCHANGED <<row, xdr, masterSeq>>

\* Hands the envelope to Horizon.
SubmitSend(r) ==
    /\ At(r, "submit_send")
    /\ xdr' = IF xdr[req[r].acct].state = "built"
                 THEN [xdr EXCEPT ![req[r].acct].state = "submitted"]
                 ELSE xdr
    /\ Goto(r, "submit_wait")
    /\ UNCHANGED <<row, masterSeq>>

\* Horizon answers that the envelope is in a ledger.  It says so as well for an
\* envelope that an earlier submission brought there.
SubmitAccepted(r) ==
    /\ At(r, "submit_wait")
    /\ req[r].acct \in OnChain
    /\ Goto(r, "set_sponsor")
    /\ UNCHANGED <<row, xdr, masterSeq>>

\* The UNIQUE constraint on the column sponsor_account.
HeldByAnother(k, a) == \E other \in Keys \ {k} : row[other].sponsor = a

\* store.SetSponsorAccount, unconditional on the row's status.
SetSponsorAccount(r) ==
    LET k == req[r].key
        a == req[r].acct
    IN  /\ At(r, "set_sponsor")
        /\ ~HeldByAnother(k, a)
        /\ row' = [row EXCEPT ![k].sponsor = a]
        /\ Goto(r, "set_active")
        /\ UNCHANGED <<xdr, masterSeq>>

\* store.UpdateAPIKeyStatus(active), unconditional on the row's status.
SetActive(r) ==
    /\ At(r, "set_active")
    /\ row' = [row EXCEPT ![req[r].key].status = "active"]
    /\ Finish(r)
    /\ UNCHANGED <<xdr, masterSeq>>

-----------------------------------------------------------------------------
\* APIKeyService.Revoke.

\* Reads the row and refuses a key that is revoked already.
RevokeRead(r, k) ==
    /\ row[k].status \notin {"absent", "revoked"}
    /\ Begin(r, "revoke_write", k, Nil)
    /\ UNCHANGED <<row, xdr, masterSeq>>

\* store.UpdateAPIKeyStatus(revoked), unconditional on the row's status.
RevokeWrite(r) ==
    /\ At(r, "revoke_write")
    /\ row' = [row EXCEPT ![req[r].key].status = "revoked"]
    /\ Finish(r)
    /\ UNCHANGED <<xdr, masterSeq>>

-----------------------------------------------------------------------------
\* Failures.

\* A Horizon call fails: the load of the master account, or a submission that
\* is rejected or times out.  The network may still apply what it was given.
HorizonError(r) ==
    /\ req[r].pc \in {"build_load", "submit_send", "submit_wait"}
    /\ Finish(r)
    /\ UNCHANGED <<row, xdr, masterSeq>>

\* A row write fails: the connection, the request's cancelled context, or the
\* UNIQUE constraint.  The earlier writes of the request stay.
StoreError(r) ==
    /\ req[r].pc \in {"set_sponsor", "set_active", "revoke_write"}
    /\ Finish(r)
    /\ UNCHANGED <<row, xdr, masterSeq>>

\* The process restarts: every request in flight is lost, the table is not.
Restart ==
    /\ req' = [r \in Requests |-> Idle]
    /\ UNCHANGED <<row, xdr, masterSeq>>

-----------------------------------------------------------------------------
\* The Stellar network.

\* A submitted envelope whose sequence number is the next one is applied.
LedgerApply(a) ==
    /\ masterSeq < MaxSeq
    /\ xdr[a].state = "submitted"
    /\ xdr[a].seq = masterSeq + 1
    /\ xdr' = [xdr EXCEPT ![a].state = "applied"]
    /\ masterSeq' = masterSeq + 1
    /\ UNCHANGED <<row, req>>

\* Another transaction of the master account uses up a sequence number.
OtherMasterTx ==
    /\ masterSeq < MaxSeq
    /\ masterSeq' = masterSeq + 1
    /\ UNCHANGED <<row, xdr, req>>

-----------------------------------------------------------------------------

RequestStep(r) ==
    \/ BuildLoad(r) \/ SubmitSend(r) \/ SubmitAccepted(r)
    \/ SetSponsorAccount(r) \/ SetActive(r) \/ RevokeWrite(r)
    \/ HorizonError(r) \/ StoreError(r)

Next ==
    \/ \E k \in Keys : Create(k)
    \/ \E r \in Requests, k \in Keys :
        \/ BuildRead(r, k)
        \/ RevokeRead(r, k)
        \/ \E a \in Accounts : SubmitCheck(r, k, a)
    \/ \E r \in Requests : RequestStep(r)
    \/ \E a \in Accounts : LedgerApply(a)
    \/ OtherMasterTx
    \/ Restart

Spec == Init /\ [][Next]_vars

-----------------------------------------------------------------------------
\* Properties.

\* A key that accepts signing requests has a sponsor account that exists on the
\* ledger and that no other key draws on: SubmitActivate waits for Horizon before
\* it writes the row, writes the account before the status, and stops when an
\* envelope submitted for two keys has bound its account to the other one.
ActiveKeyOwnsFundedAccount ==
    \A k \in Keys : row[k].status = "active" =>
        /\ row[k].sponsor \in OnChain
        /\ ~HeldByAnother(k, row[k].sponsor)

\* A SubmitActivate for k is past its check of the row.
ActivationInFlight(k) ==
    \E r \in Requests :
        /\ req[r].key = k
        /\ req[r].pc \in {"submit_send", "submit_wait", "set_sponsor", "set_active"}

Settled(k) ==
    /\ row[k].status \in {"active", "revoked"}
    /\ ~ActivationInFlight(k)

\* Once a key has left pending_funding and the activations that had passed
\* their check by then have ended, no activation ever starts for it again: its
\* sponsor account is final, and the only change left is active to revoked.
SettledKeyOnlyRevokes ==
    [][\A k \in Keys : Settled(k) =>
          /\ Settled(k)'
          /\ row'[k].sponsor = row[k].sponsor
          /\ row'[k].status # row[k].status => row'[k].status = "revoked"]_vars

\* The requests, their failures and their interleavings never do more to a key
\* than the contract of the admin API allows.
Contract == INSTANCE KeyContract WITH
                status <- [k \in Keys |-> row[k].status],
                sponsor <- [k \in Keys |-> row[k].sponsor],
                onChain <- OnChain

ImplementsContract == Contract!Spec

-----------------------------------------------------------------------------
\* A claim of the documentation that the code does not keep.

\* docs/prd.md: revoking "permanently revokes an API key".  An activation past
\* its check of the row overwrites the revocation.
RevocationIsPermanent ==
    [][\A k \in Keys : row[k].status = "revoked" => row'[k].status = "revoked"]_vars

=============================================================================
