---------------------------- MODULE SponsorFunds ----------------------------
(***************************************************************************)
(* What an active key spends and what comes back: signing                  *)
(* (SigningService.Sign), funding (BuildFund, SubmitFund), sweeping        *)
(* (Sweep), and the administration that ends it (Regenerate, Revoke), for  *)
(* one key and its sponsor account.  The key is active and the requests    *)
(* that activated it have ended: module KeyLifecycle shows what they do to *)
(* a revocation otherwise.                                                 *)
(*                                                                         *)
(* A request is split at each call that leaves the process.  The row that  *)
(* authentication read travels with a signing request and is not read      *)
(* again; balance and sequence number of a sweep come from two calls of    *)
(* Horizon; the network applies what it was given later, or never.         *)
(*                                                                         *)
(* Verify (module Verifier) may accept or reject any transaction, so the   *)
(* rules of the row are left out, and with them APIKeyService.Update; what *)
(* it counts is Reserves.  Rows of rejected transactions, which nothing    *)
(* reads here, are left out as well.  A sequence number and an amount      *)
(* stand for an envelope: of two that agree in both, the network applies   *)
(* at most one.                                                            *)
(***************************************************************************)
EXTENDS Naturals

CONSTANTS
    Txs,        \* transactions that wallets ask to have signed
    Reserves,   \* Reserves[t]: base reserves that t locks
    Requests,   \* goroutines of signing requests
    Admins,     \* goroutines of requests of the admin API
    Secrets,    \* API keys that generateAPIKey may return
    Amounts,    \* amounts of payments to the sponsor account
    Nil,        \* no secret, no transaction, no envelope
    Reserve,    \* the base reserve of the network
    Fee,        \* the fee of a transaction with one operation
    Budget,     \* what the account was created with
    MaxMasterSeq \* bound on the transactions of the master account

ASSUME ReservesAssumption == Reserves \in [Txs -> Nat]
ASSUME AmountsAssumption == Amounts \subseteq Nat \ {0}
ASSUME SecretsAssumption == Secrets # {} /\ Nil \notin Secrets
ASSUME UnitsAssumption ==
    /\ Reserve \in Nat \ {0}
    /\ Fee \in Nat \ {0}
    /\ Budget \in Nat
    /\ MaxMasterSeq \in Nat

VARIABLES
    row,        \* the row of the key
    issued,     \* secrets generated so far
    req,        \* req[r]: a signing request, with what it has read
    admin,      \* admin[a]: a request of the admin API, with what it has read
    ledger,     \* the sponsor account, and the master account's sequence number
    network,    \* envelopes submitted and not yet applied
    built,      \* funding envelopes in the hands of administrators
    signed,     \* transactions whose signed form a wallet has received
    applied,    \* transactions of wallets in the ledger
    log         \* signed transactions with a row in transaction_logs

vars == <<row, issued, req, admin, ledger, network, built, signed, applied, log>>

database == <<row, issued, log>>
world == <<ledger, network, applied, signed>>

-----------------------------------------------------------------------------

Row == [status : {"active", "revoked"}, secret : Secrets]

Envelope == [kind : {"sweep", "fund"}, seq : Nat, amount : Nat]

Request ==
    [pc : {"idle", "verify", "log", "answer"}, tx : Txs \cup {Nil},
     secret : Secrets \cup {Nil}]

Idle == [pc |-> "idle", tx |-> Nil, secret |-> Nil]

AdminPc == {"idle", "revoke_write", "regenerate_write", "sweep_balance", "sweep_load",
            "send"}

NoEnvelope == [kind |-> "sweep", seq |-> 0, amount |-> 0]

Free == [pc |-> "idle", available |-> 0, env |-> NoEnvelope]

TypeOK ==
    /\ row \in Row
    /\ issued \subseteq Secrets
    /\ req \in [Requests -> Request]
    /\ admin \in [Admins -> [pc : AdminPc, available : Nat, env : Envelope]]
    /\ ledger \in [balance : Nat, sponsoring : Nat, seq : Nat, masterSeq : Nat]
    /\ network \subseteq Envelope
    /\ built \subseteq Envelope
    /\ signed \subseteq Txs
    /\ applied \subseteq signed
    /\ log \subseteq Txs

Init ==
    /\ \E s \in Secrets :
        /\ row = [status |-> "active", secret |-> s]
        /\ issued = {s}
    /\ req = [r \in Requests |-> Idle]
    /\ admin = [a \in Admins |-> Free]
    /\ ledger = [balance |-> Budget, sponsoring |-> 0, seq |-> 0, masterSeq |-> 0]
    /\ network = {}
    /\ built = {}
    /\ signed = {}
    /\ applied = {}
    /\ log = {}

\* AccountService.GetBalance.  The reserves of the account itself and of its two
\* signers are sponsored by the master account that created it.
Minimum == ledger.sponsoring * Reserve

Available == IF ledger.balance > Minimum THEN ledger.balance - Minimum ELSE 0

-----------------------------------------------------------------------------
\* Signing.

\* APIKeyAuth finds the row of the secret, and it is active; the handler takes the
\* transaction.  Expiry and limits turn away requests that might as well not come.
Authenticate(r, t) ==
    /\ req[r].pc = "idle"
    /\ row.status = "active"
    /\ req' = [req EXCEPT ![r] = [pc |-> "verify", tx |-> t, secret |-> row.secret]]
    /\ UNCHANGED <<database, admin, world, built>>

Required(t) == Reserves[t] * Reserve

\* Verify accepts, and the balance that Horizon answers covers the reserves:
\* the transaction is signed in memory.
CheckBalance(r) ==
    /\ req[r].pc = "verify"
    /\ Required(req[r].tx) <= Available
    /\ req' = [req EXCEPT ![r].pc = "log"]
    /\ UNCHANGED <<database, admin, world, built>>

\* Verify rejects, the balance does not suffice, or Horizon does not answer.
Refuse(r) ==
    /\ req[r].pc = "verify"
    /\ req' = [req EXCEPT ![r] = Idle]
    /\ UNCHANGED <<database, admin, world, built>>

\* The log is best effort.
LogSigned(r) ==
    /\ req[r].pc = "log"
    /\ log' \in {log, log \cup {req[r].tx}}
    /\ req' = [req EXCEPT ![r].pc = "answer"]
    /\ UNCHANGED <<row, issued, admin, world, built>>

Answer(r) ==
    /\ req[r].pc = "answer"
    /\ signed' = signed \cup {req[r].tx}
    /\ req' = [req EXCEPT ![r] = Idle]
    /\ UNCHANGED <<database, admin, ledger, network, applied, built>>

-----------------------------------------------------------------------------
\* Administration of the row.

At(a, pc) == admin[a].pc = pc

Goto(a, pc) == admin' = [admin EXCEPT ![a].pc = pc]

End(a) == admin' = [admin EXCEPT ![a] = Free]

\* Revoke and Regenerate refuse a key that is revoked when they read it.
RevokeRead(a) ==
    /\ At(a, "idle")
    /\ row.status # "revoked"
    /\ Goto(a, "revoke_write")
    /\ UNCHANGED <<database, req, world, built>>

RevokeWrite(a) ==
    /\ At(a, "revoke_write")
    /\ row' = [row EXCEPT !.status = "revoked"]
    /\ End(a)
    /\ UNCHANGED <<issued, log, req, world, built>>

RegenerateRead(a) ==
    /\ At(a, "idle")
    /\ row.status # "revoked"
    /\ Goto(a, "regenerate_write")
    /\ UNCHANGED <<database, req, world, built>>

\* Faulty variant of RegenerateWrite, not in Next: the row is written as it was read.
RegenerateWholeRow(a) ==
    /\ At(a, "regenerate_write")
    /\ \E s \in Secrets \ issued :
        /\ row' = [row EXCEPT !.secret = s, !.status = "active"]
        /\ issued' = issued \cup {s}
    /\ End(a)
    /\ UNCHANGED <<log, req, world, built>>

\* Faulty variant of RegenerateWrite, not in Next: the column of the hash is left empty.
RegenerateNothing(a) ==
    /\ At(a, "regenerate_write")
    /\ row' = [row EXCEPT !.secret = Nil]
    /\ End(a)
    /\ UNCHANGED <<issued, log, req, world, built>>

\* Only the columns of the secret are written, whatever the status is by now.
RegenerateWrite(a) ==
    /\ At(a, "regenerate_write")
    /\ \E s \in Secrets \ issued :
        /\ row' = [row EXCEPT !.secret = s]
        /\ issued' = issued \cup {s}
    /\ End(a)
    /\ UNCHANGED <<log, req, world, built>>

-----------------------------------------------------------------------------
\* FundingService.Sweep.

SweepRead(a) ==
    /\ At(a, "idle")
    /\ row.status = "revoked"
    /\ Goto(a, "sweep_balance")
    /\ UNCHANGED <<database, req, world, built>>

SweepBalance(a) ==
    /\ At(a, "sweep_balance")
    /\ Available > 0
    /\ admin' = [admin EXCEPT ![a].pc = "sweep_load", ![a].available = Available]
    /\ UNCHANGED <<database, req, world, built>>

NothingAvailable(a) ==
    /\ At(a, "sweep_balance")
    /\ Available = 0
    /\ End(a)
    /\ UNCHANGED <<database, req, world, built>>

\* Faulty variant of SweepEnvelope, not used: the sequence number is not incremented.
SweepSameSequence(available) ==
    [kind |-> "sweep", seq |-> ledger.seq, amount |-> available - Fee]

SweepEnvelope(available) ==
    [kind |-> "sweep", seq |-> ledger.seq + 1, amount |-> available - Fee]

\* The second call of Horizon: the sequence number.
SweepLoad(a) ==
    /\ At(a, "sweep_load")
    /\ admin[a].available > Fee
    /\ admin' = [admin EXCEPT ![a].pc = "send", ![a].available = 0,
                                ![a].env = SweepEnvelope(admin[a].available)]
    /\ UNCHANGED <<database, req, world, built>>

\* What is available does not pay for more than the fee.
TooLittle(a) ==
    /\ At(a, "sweep_load")
    /\ admin[a].available <= Fee
    /\ End(a)
    /\ UNCHANGED <<database, req, world, built>>

-----------------------------------------------------------------------------
\* FundingService.BuildFund and SubmitFund.

\* The key is active, and the envelope has the master account's next number, which
\* MaxMasterSeq bounds.
BuildFund(amount) ==
    /\ row.status = "active"
    /\ ledger.masterSeq < MaxMasterSeq
    /\ built' = built \cup {[kind |-> "fund", seq |-> ledger.masterSeq + 1, amount |-> amount]}
    /\ UNCHANGED <<database, req, admin, world>>

\* The key is active, and the payment is one of the master account to the sponsor.
SubmitFund(a, env) ==
    /\ At(a, "idle")
    /\ row.status = "active"
    /\ env \in built
    /\ admin' = [admin EXCEPT ![a].pc = "send", ![a].env = env]
    /\ UNCHANGED <<database, req, world, built>>

-----------------------------------------------------------------------------
\* Horizon.

\* The sequence number of the source of an envelope has not passed it.
Timely(env) ==
    env.seq > IF env.kind = "sweep" THEN ledger.seq ELSE ledger.masterSeq

\* SubmitTransactionXDR of a sweep or of a payment.  Nothing is done with its answer:
\* the outcome, or a timeout while the network still has the envelope.
Send(a) ==
    /\ At(a, "send")
    /\ network' = network \cup {env \in {admin[a].env} : Timely(env)}
    /\ End(a)
    /\ UNCHANGED <<database, req, ledger, signed, applied, built>>

\* A call fails, or the validation of the envelope; or the request is cancelled.
Fail(a) ==
    /\ ~At(a, "idle")
    /\ End(a)
    /\ UNCHANGED <<database, req, world, built>>

\* The process restarts.
Restart ==
    /\ req' = [r \in Requests |-> Idle]
    /\ admin' = [a \in Admins |-> Free]
    /\ UNCHANGED <<database, world, built>>

-----------------------------------------------------------------------------
\* The Stellar network.

\* A wallet submits a signed transaction, and the sponsor can pay its reserves.
ApplyTx(t) ==
    /\ t \in signed \ applied
    /\ Required(t) <= Available
    /\ applied' = applied \cup {t}
    /\ ledger' = [ledger EXCEPT !.sponsoring = @ + Reserves[t]]
    /\ UNCHANGED <<database, req, admin, network, built, signed>>

\* A sponsored entry is removed, and its reserve is free again.
Release ==
    /\ ledger.sponsoring > 0
    /\ ledger' = [ledger EXCEPT !.sponsoring = @ - 1]
    /\ UNCHANGED <<database, req, admin, network, built, signed, applied>>

\* The next transaction of the sponsor account takes the fee, and pays the amount
\* if that is available.
ApplySweep(env) ==
    /\ env \in network
    /\ env.kind = "sweep"
    /\ env.seq = ledger.seq + 1
    /\ Fee <= Available
    /\ network' = {e \in network : e.kind = "sweep" => e.seq > env.seq}
    /\ ledger' = [ledger EXCEPT !.seq = @ + 1,
                !.balance = IF env.amount + Fee <= Available THEN @ - env.amount - Fee
                                                             ELSE @ - Fee]
    /\ UNCHANGED <<database, req, admin, built, signed, applied>>

ApplyFund(env) ==
    /\ env \in network
    /\ env.kind = "fund"
    /\ env.seq = ledger.masterSeq + 1
    /\ network' = {e \in network : e.kind = "fund" => e.seq > env.seq}
    /\ ledger' = [ledger EXCEPT !.masterSeq = @ + 1, !.balance = @ + env.amount]
    /\ UNCHANGED <<database, req, admin, built, signed, applied>>

\* The network drops an envelope: its queue is full, or the envelope's five minutes
\* have passed.
Drop(env) ==
    /\ env \in network
    /\ network' = network \ {env}
    /\ UNCHANGED <<database, req, admin, ledger, built, signed, applied>>

-----------------------------------------------------------------------------

RequestStep(r) == CheckBalance(r) \/ Refuse(r) \/ LogSigned(r) \/ Answer(r)

AdminStep(a) ==
    \/ RevokeRead(a) \/ RevokeWrite(a)
    \/ RegenerateRead(a) \/ RegenerateWrite(a)
    \/ SweepRead(a) \/ SweepBalance(a) \/ NothingAvailable(a) \/ SweepLoad(a) \/ TooLittle(a)
    \/ (\E env \in built : SubmitFund(a, env))
    \/ Send(a) \/ Fail(a)

NetworkStep ==
    \/ \E t \in Txs : ApplyTx(t)
    \/ \E env \in network : ApplySweep(env) \/ ApplyFund(env) \/ Drop(env)
    \/ Release

Next ==
    \/ \E r \in Requests, t \in Txs : Authenticate(r, t)
    \/ \E r \in Requests : RequestStep(r)
    \/ \E a \in Admins : AdminStep(a)
    \/ \E amount \in Amounts : BuildFund(amount)
    \/ NetworkStep
    \/ Restart

Spec == Init /\ [][Next]_vars

\* Requests end; an administrator sweeps again and again, with calls that do not
\* fail for ever.
SweepFairness ==
    /\ \A a \in Admins : WF_vars(~At(a, "idle") /\ AdminStep(a))
    /\ SF_vars(\E a \in Admins : SweepRead(a))
    /\ SF_vars(\E a \in Admins : SweepBalance(a) \/ NothingAvailable(a))
    /\ SF_vars(\E a \in Admins : SweepLoad(a) \/ TooLittle(a))
    /\ SF_vars(\E a \in Admins : Send(a))
    /\ SF_vars(\E env \in network : ApplySweep(env))

FairSpec == Spec /\ SweepFairness

-----------------------------------------------------------------------------
\* Properties.

Retired(s) == s \in issued /\ (row.status = "revoked" \/ row.secret # s)

InUse(s) == \E r \in Requests : req[r].pc # "idle" /\ req[r].secret = s

\* No request carries a retired secret any more.
Dead(s) == Retired(s) /\ ~InUse(s)

\* Nobody holds a secret that the key accepts.
Closed == \A s \in issued : Dead(s)

\* A secret is retired for good, by a revocation or a new secret, in whatever order
\* the two are written: once the requests that authenticated with it before have
\* ended, it starts no other.  Once that holds of all secrets of the key it goes on
\* to hold, also of one that a regeneration under way still issues, and the key
\* signs and logs nothing more.
RetiredSecretsSignNoMore ==
    [][/\ \A s \in Secrets : Dead(s) => Dead(s)'
       /\ Closed => Closed' /\ signed' = signed /\ log' = log]_vars

\* The funds of a revoked key come back: whatever payments, signed transactions and
\* other sweeps cross it, an administrator who sweeps again and again ends with
\* nothing but reserves, and at most a fee, in the account.
SweepsRecoverFunds == row.status = "revoked" ~> [](Available <= Fee)

=============================================================================
