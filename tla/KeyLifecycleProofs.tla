------------------------- MODULE KeyLifecycleProofs -------------------------
(***************************************************************************)
(* Proofs about KeyLifecycle, for every set of keys, accounts and requests *)
(* and every bound on the ledger.                                          *)
(***************************************************************************)
EXTENDS KeyLifecycle, TLAPS

-----------------------------------------------------------------------------
\* What the in-flight requests know.

\* A request that carries a key works on a row that exists.
RequestsKnowTheirKey ==
    \A r \in Requests : req[r].pc # "idle" =>
        /\ req[r].key \in Keys
        /\ row[req[r].key].status # "absent"

\* A submission carries an account, which the ledger knows once Horizon has
\* accepted it, and which the row names once it is recorded.
SubmissionsFollowTheLedger ==
    \A r \in Requests :
        /\ req[r].pc \in {"submit_send", "submit_wait", "set_sponsor", "set_active"}
              => req[r].acct \in Accounts
        /\ req[r].pc = "set_sponsor" => req[r].acct \in OnChain
        /\ req[r].pc = "set_active" => row[req[r].key].sponsor \in OnChain

\* An account that a row names exists on the ledger.
RecordedAccountsExist ==
    \A k \in Keys : row[k].sponsor # Nil => row[k].sponsor \in OnChain

\* A row that was not inserted names no account.
AbsentRowsAreEmpty ==
    \A k \in Keys : row[k].status = "absent" => row[k].sponsor = Nil

\* An active key's account exists on the ledger.
ActiveKeyIsFunded ==
    \A k \in Keys : row[k].status = "active" => row[k].sponsor \in OnChain

\* No account is named by two rows.
NoSharedSponsorAccount ==
    \A k1, k2 \in Keys :
        row[k1].sponsor = row[k2].sponsor => k1 = k2 \/ row[k1].sponsor = Nil

\* The inductive invariant.
IInv ==
    /\ TypeOK
    /\ RequestsKnowTheirKey
    /\ SubmissionsFollowTheLedger
    /\ RecordedAccountsExist
    /\ AbsentRowsAreEmpty
    /\ NoSharedSponsorAccount
    /\ ActiveKeyIsFunded

-----------------------------------------------------------------------------
\* Type correctness.

LEMMA InitTypeOK == Init => TypeOK
BY DEF Init, TypeOK, Status, XdrState, Pc, Idle

\* No step leaves the types.
LEMMA NextTypeOK == TypeOK /\ [Next]_vars => TypeOK'
<1> SUFFICES ASSUME TypeOK, [Next]_vars PROVE TypeOK'
  OBVIOUS
<1> USE DEF TypeOK, Status, XdrState, Pc, Idle, Begin, At, Goto, Finish
<1>1. ASSUME NEW k \in Keys, Create(k) PROVE TypeOK'
  BY <1>1 DEF Create
<1>2. ASSUME NEW r \in Requests, NEW k \in Keys, BuildRead(r, k) PROVE TypeOK'
  BY <1>2 DEF BuildRead
<1>3. ASSUME NEW r \in Requests, BuildLoad(r) PROVE TypeOK'
  <2>1. PICK a \in Accounts :
          xdr' = [xdr EXCEPT ![a] = [state |-> "built", key |-> req[r].key,
                                     seq |-> masterSeq + 1]]
    BY <1>3 DEF BuildLoad, NewEnvelope
  <2>2. [state |-> "built", key |-> req[r].key, seq |-> masterSeq + 1]
          \in [state : XdrState, key : Keys \cup {Nil}, seq : Nat]
    OBVIOUS
  <2> QED
    BY <1>3, <2>1, <2>2 DEF BuildLoad
<1>4. ASSUME NEW r \in Requests, NEW k \in Keys, NEW a \in Accounts, SubmitCheck(r, k, a)
      PROVE TypeOK'
  BY <1>4 DEF SubmitCheck
<1>5. ASSUME NEW r \in Requests, SubmitSend(r) PROVE TypeOK'
  <2>1. CASE xdr[req[r].acct].state = "built"
    <3>1. xdr' = [xdr EXCEPT ![req[r].acct].state = "submitted"]
      BY <1>5, <2>1 DEF SubmitSend
    <3>2. xdr' \in [Accounts -> [state : XdrState, key : Keys \cup {Nil}, seq : Nat]]
      BY <3>1
    <3>3. req' \in [Requests -> [pc : Pc, key : Keys \cup {Nil}, acct : Accounts \cup {Nil}]]
      BY <1>5 DEF SubmitSend
    <3> QED
      BY <1>5, <3>2, <3>3 DEF SubmitSend
  <2>2. CASE xdr[req[r].acct].state # "built"
    BY <1>5, <2>2 DEF SubmitSend
  <2> QED
    BY <2>1, <2>2
<1>6. ASSUME NEW r \in Requests, SubmitAccepted(r) PROVE TypeOK'
  BY <1>6 DEF SubmitAccepted
<1>7. ASSUME NEW r \in Requests, SetSponsorAccount(r) PROVE TypeOK'
  <2>1. row' = [row EXCEPT ![req[r].key].sponsor = req[r].acct]
    BY <1>7 DEF SetSponsorAccount
  <2>2. req[r].acct \in Accounts \cup {Nil}
    OBVIOUS
  <2>3. row' \in [Keys -> [status : Status, sponsor : Accounts \cup {Nil}]]
    BY <2>1, <2>2
  <2> QED
    BY <1>7, <2>3 DEF SetSponsorAccount
<1>8. ASSUME NEW r \in Requests, SetActive(r) PROVE TypeOK'
  BY <1>8 DEF SetActive
<1>9. ASSUME NEW r \in Requests, NEW k \in Keys, RevokeRead(r, k) PROVE TypeOK'
  BY <1>9 DEF RevokeRead
<1>10. ASSUME NEW r \in Requests, RevokeWrite(r) PROVE TypeOK'
  BY <1>10 DEF RevokeWrite
<1>11. ASSUME NEW r \in Requests, HorizonError(r) \/ StoreError(r) PROVE TypeOK'
  BY <1>11 DEF HorizonError, StoreError
<1>12. CASE Restart
  BY <1>12 DEF Restart
<1>13. ASSUME NEW a \in Accounts, LedgerApply(a) PROVE TypeOK'
  BY <1>13 DEF LedgerApply
<1>14. CASE OtherMasterTx
  BY <1>14 DEF OtherMasterTx
<1>15. CASE UNCHANGED vars
  BY <1>15 DEF vars
<1> QED
  BY <1>1, <1>2, <1>3, <1>4, <1>5, <1>6, <1>7, <1>8, <1>9, <1>10, <1>11, <1>12,
     <1>13, <1>14, <1>15 DEF Next, RequestStep

\* Every variable keeps its type, whatever the requests do.
THEOREM TypeCorrect == Spec => []TypeOK
BY InitTypeOK, NextTypeOK, PTL DEF Spec

-----------------------------------------------------------------------------
\* The inductive invariant.

\* What the rows say of themselves and of the ledger.
RowInv ==
    /\ RecordedAccountsExist
    /\ AbsentRowsAreEmpty
    /\ NoSharedSponsorAccount
    /\ ActiveKeyIsFunded

LEMMA InitIInv == Init => IInv
BY InitTypeOK, NilAssumption
   DEF Init, IInv, Idle, OnChain, RequestsKnowTheirKey, SubmissionsFollowTheLedger,
       RecordedAccountsExist, AbsentRowsAreEmpty, NoSharedSponsorAccount, ActiveKeyIsFunded

\* The ledger only grows.
LEMMA LedgerGrows == TypeOK /\ [Next]_vars => OnChain \subseteq OnChain'
<1> SUFFICES ASSUME TypeOK, [Next]_vars, NEW b \in Accounts, xdr[b].state = "applied"
             PROVE  xdr'[b].state = "applied"
  BY DEF OnChain
<1>1. ASSUME NEW r \in Requests, BuildLoad(r) PROVE xdr'[b].state = "applied"
  <2>1. PICK a \in Accounts :
          /\ xdr[a].state = "unbuilt"
          /\ xdr' = [xdr EXCEPT ![a] = [state |-> "built", key |-> req[r].key,
                                        seq |-> masterSeq + 1]]
    BY <1>1 DEF BuildLoad, NewEnvelope
  <2> QED
    BY <2>1 DEF TypeOK
<1>2. ASSUME NEW r \in Requests, SubmitSend(r) PROVE xdr'[b].state = "applied"
  BY <1>2 DEF SubmitSend, TypeOK
<1>3. ASSUME NEW a \in Accounts, LedgerApply(a) PROVE xdr'[b].state = "applied"
  BY <1>3 DEF LedgerApply, TypeOK
<1>4. CASE UNCHANGED xdr
  BY <1>4
<1> QED
  BY <1>1, <1>2, <1>3, <1>4
  DEF Next, RequestStep, vars, Create, BuildRead, SubmitCheck, SubmitAccepted,
      SetSponsorAccount, SetActive, RevokeRead, RevokeWrite, HorizonError, StoreError,
      Restart, OtherMasterTx

\* A step that writes no row keeps what the rows say.
LEMMA SameRows ==
    ASSUME RowInv, UNCHANGED row, OnChain \subseteq OnChain'
    PROVE  RowInv'
BY DEF RowInv, RecordedAccountsExist, AbsentRowsAreEmpty, NoSharedSponsorAccount,
       ActiveKeyIsFunded

\* A goroutine that starts a request, or moves one on, has read or written what
\* its next statement relies on; the others keep what they know as long as rows
\* stay inserted and bound to accounts that exist.
LEMMA OneRequestMoves ==
    ASSUME TypeOK, TypeOK', RequestsKnowTheirKey, SubmissionsFollowTheLedger,
           OnChain \subseteq OnChain',
           \A k \in Keys : row[k].status # "absent" => row'[k].status # "absent",
           \A k \in Keys : row[k].sponsor \in OnChain => row'[k].sponsor \in OnChain',
           NEW r \in Requests,
           \A other \in Requests \ {r} : req'[other] = req[other],
           req'[r].pc # "idle" =>
               req'[r].key \in Keys /\ row'[req'[r].key].status # "absent",
           req'[r].pc \in {"submit_send", "submit_wait", "set_sponsor", "set_active"}
               => req'[r].acct \in Accounts,
           req'[r].pc = "set_sponsor" => req'[r].acct \in OnChain',
           req'[r].pc = "set_active" => row'[req'[r].key].sponsor \in OnChain'
    PROVE  RequestsKnowTheirKey' /\ SubmissionsFollowTheLedger'
<1>1. RequestsKnowTheirKey'
  <2> SUFFICES ASSUME NEW q \in Requests, req'[q].pc # "idle"
               PROVE  req'[q].key \in Keys /\ row'[req'[q].key].status # "absent"
    BY DEF RequestsKnowTheirKey
  <2>1. CASE q = r
    BY <2>1
  <2>2. CASE q # r
    BY <2>2 DEF RequestsKnowTheirKey
  <2> QED
    BY <2>1, <2>2
<1>2. SubmissionsFollowTheLedger'
  <2> SUFFICES ASSUME NEW q \in Requests
               PROVE  /\ req'[q].pc \in {"submit_send", "submit_wait", "set_sponsor", "set_active"}
                            => req'[q].acct \in Accounts
                      /\ req'[q].pc = "set_sponsor" => req'[q].acct \in OnChain'
                      /\ req'[q].pc = "set_active" => row'[req'[q].key].sponsor \in OnChain'
    BY DEF SubmissionsFollowTheLedger
  <2>1. CASE q = r
    BY <2>1
  <2>2. CASE q # r
    BY <2>2 DEF SubmissionsFollowTheLedger, RequestsKnowTheirKey
  <2> QED
    BY <2>1, <2>2
<1> QED
  BY <1>1, <1>2

\* Every step keeps the inductive invariant.
LEMMA NextIInv == IInv /\ [Next]_vars => IInv'
<1> SUFFICES ASSUME IInv, [Next]_vars PROVE IInv'
  OBVIOUS
<1>0. TypeOK' /\ OnChain \subseteq OnChain'
  BY NextTypeOK, LedgerGrows DEF IInv
<1> SUFFICES RowInv' /\ RequestsKnowTheirKey' /\ SubmissionsFollowTheLedger'
  BY <1>0 DEF IInv, RowInv
<1> USE <1>0 DEF Begin, At, Goto, Finish, Idle
<1>a. RowInv
  BY DEF IInv, RowInv
<1>b. ASSUME UNCHANGED row PROVE RowInv'
  BY <1>a, <1>b, SameRows
<1>1. ASSUME NEW k \in Keys, Create(k)
      PROVE  RowInv' /\ RequestsKnowTheirKey' /\ SubmissionsFollowTheLedger'
  <2>1. /\ row'[k] = [status |-> "pending_funding", sponsor |-> Nil]
        /\ \A other \in Keys \ {k} : row'[other] = row[other]
        /\ UNCHANGED <<xdr, req>>
    BY <1>1 DEF Create, IInv, TypeOK, AbsentRowsAreEmpty
  <2>2. RowInv'
    BY <1>a, <2>1, NilAssumption
       DEF RowInv, RecordedAccountsExist, AbsentRowsAreEmpty, NoSharedSponsorAccount,
           ActiveKeyIsFunded, OnChain
  <2>3. RequestsKnowTheirKey'
    BY <2>1 DEF IInv, RequestsKnowTheirKey
  <2>4. \A other \in Keys : row[other].sponsor \in OnChain => row'[other].sponsor \in OnChain'
    BY <1>1, <2>1, NilAssumption DEF Create, IInv, AbsentRowsAreEmpty, OnChain
  <2>5. SubmissionsFollowTheLedger'
    BY <2>1, <2>4 DEF IInv, SubmissionsFollowTheLedger, RequestsKnowTheirKey
  <2> QED
    BY <2>2, <2>3, <2>5
<1>2. ASSUME NEW r \in Requests, UNCHANGED row,
             \A other \in Requests \ {r} : req'[other] = req[other],
             req'[r].pc # "idle" =>
                 req'[r].key \in Keys /\ row[req'[r].key].status # "absent",
             req'[r].pc \in {"submit_send", "submit_wait", "set_sponsor", "set_active"}
                 => req'[r].acct \in Accounts,
             req'[r].pc = "set_sponsor" => req'[r].acct \in OnChain',
             req'[r].pc # "set_active"
      PROVE  RowInv' /\ RequestsKnowTheirKey' /\ SubmissionsFollowTheLedger'
  BY <1>2, <1>b, OneRequestMoves DEF IInv
<1>3. ASSUME NEW r \in Requests, NEW k \in Keys, BuildRead(r, k) \/ RevokeRead(r, k)
      PROVE  RowInv' /\ RequestsKnowTheirKey' /\ SubmissionsFollowTheLedger'
  BY <1>2, <1>3 DEF BuildRead, RevokeRead, IInv, TypeOK
<1>4. ASSUME NEW r \in Requests, NEW k \in Keys, NEW a \in Accounts, SubmitCheck(r, k, a)
      PROVE  RowInv' /\ RequestsKnowTheirKey' /\ SubmissionsFollowTheLedger'
  BY <1>2, <1>4 DEF SubmitCheck, IInv, TypeOK
<1>5. ASSUME NEW r \in Requests, BuildLoad(r) \/ HorizonError(r) \/ StoreError(r)
      PROVE  RowInv' /\ RequestsKnowTheirKey' /\ SubmissionsFollowTheLedger'
  BY <1>2, <1>5 DEF BuildLoad, HorizonError, StoreError, IInv, TypeOK
<1>6. ASSUME NEW r \in Requests, SubmitSend(r) \/ SubmitAccepted(r)
      PROVE  RowInv' /\ RequestsKnowTheirKey' /\ SubmissionsFollowTheLedger'
  <2>1. req[r].key \in Keys /\ row[req[r].key].status # "absent" /\ req[r].acct \in Accounts
    BY <1>6 DEF SubmitSend, SubmitAccepted, IInv, RequestsKnowTheirKey,
                SubmissionsFollowTheLedger
  <2>2. \A other \in Requests \ {r} : req'[other] = req[other]
    BY <1>6 DEF SubmitSend, SubmitAccepted, IInv, TypeOK
  <2>3. /\ req'[r].key = req[r].key
        /\ req'[r].acct = req[r].acct
        /\ \/ req'[r].pc = "submit_wait"
           \/ req'[r].pc = "set_sponsor" /\ req[r].acct \in OnChain
    BY <1>6 DEF SubmitSend, SubmitAccepted, IInv, TypeOK
  <2>4. UNCHANGED row
    BY <1>6 DEF SubmitSend, SubmitAccepted
  <2> QED
    BY <1>2, <2>1, <2>2, <2>3, <2>4
<1>7. ASSUME NEW r \in Requests, SetSponsorAccount(r)
      PROVE  RowInv' /\ RequestsKnowTheirKey' /\ SubmissionsFollowTheLedger'
  <2> DEFINE k == req[r].key
             a == req[r].acct
  <2>1. k \in Keys /\ row[k].status # "absent" /\ a \in OnChain /\ a # Nil
    BY <1>7, NilAssumption DEF SetSponsorAccount, IInv, RequestsKnowTheirKey,
                               SubmissionsFollowTheLedger, OnChain
  <2>2. /\ row'[k] = [status |-> row[k].status, sponsor |-> a]
        /\ \A other \in Keys \ {k} : row'[other] = row[other] /\ row[other].sponsor # a
        /\ UNCHANGED xdr
    BY <1>7, <2>1 DEF SetSponsorAccount, HeldByAnother, IInv, TypeOK
  <2>3. req'[r] = [pc |-> "set_active", key |-> k, acct |-> a]
        /\ \A other \in Requests \ {r} : req'[other] = req[other]
    BY <1>7 DEF SetSponsorAccount, IInv, TypeOK
  <2> HIDE DEF k, a
  <2>4. RecordedAccountsExist' /\ AbsentRowsAreEmpty' /\ ActiveKeyIsFunded'
    BY <1>a, <2>1, <2>2
       DEF RowInv, RecordedAccountsExist, AbsentRowsAreEmpty, ActiveKeyIsFunded, OnChain
  <2>5. NoSharedSponsorAccount'
    BY <1>a, <2>1, <2>2 DEF RowInv, NoSharedSponsorAccount
  <2>6. RequestsKnowTheirKey' /\ SubmissionsFollowTheLedger'
    <3>1. \A other \in Keys : row[other].status # "absent" => row'[other].status # "absent"
      BY <2>1, <2>2
    <3>2. \A other \in Keys : row[other].sponsor \in OnChain => row'[other].sponsor \in OnChain'
      BY <2>1, <2>2
    <3>3. row'[k].status # "absent" /\ row'[k].sponsor \in OnChain' /\ a \in Accounts
      BY <2>1, <2>2 DEF OnChain
    <3> QED
      BY <2>1, <2>3, <3>1, <3>2, <3>3, OneRequestMoves DEF IInv
  <2> QED
    BY <2>4, <2>5, <2>6 DEF RowInv
<1>8. ASSUME NEW r \in Requests, SetActive(r) \/ RevokeWrite(r)
      PROVE  RowInv' /\ RequestsKnowTheirKey' /\ SubmissionsFollowTheLedger'
  <2> DEFINE k == req[r].key
  <2>1. k \in Keys /\ row[k].status # "absent"
    BY <1>8 DEF SetActive, RevokeWrite, IInv, RequestsKnowTheirKey
  <2>2. SetActive(r) => row[k].sponsor \in OnChain
    BY DEF SetActive, IInv, SubmissionsFollowTheLedger
  <2>3. /\ row'[k].sponsor = row[k].sponsor
        /\ row'[k].status = IF SetActive(r) THEN "active" ELSE "revoked"
        /\ \A other \in Keys \ {k} : row'[other] = row[other]
        /\ UNCHANGED xdr
    BY <1>8, <2>1 DEF SetActive, RevokeWrite, IInv, TypeOK
  <2>4. req'[r] = Idle /\ \A other \in Requests \ {r} : req'[other] = req[other]
    BY <1>8 DEF SetActive, RevokeWrite, IInv, TypeOK
  <2> HIDE DEF k
  <2>5. RecordedAccountsExist' /\ AbsentRowsAreEmpty' /\ ActiveKeyIsFunded'
    BY <1>a, <1>8, <2>1, <2>2, <2>3
       DEF RowInv, RecordedAccountsExist, AbsentRowsAreEmpty, ActiveKeyIsFunded, OnChain
  <2>6. NoSharedSponsorAccount'
    BY <1>a, <2>1, <2>3 DEF RowInv, NoSharedSponsorAccount
  <2>7. RequestsKnowTheirKey' /\ SubmissionsFollowTheLedger'
    <3>1. \A other \in Keys : row[other].status # "absent" => row'[other].status # "absent"
      BY <2>1, <2>3
    <3>2. \A other \in Keys : row[other].sponsor \in OnChain => row'[other].sponsor \in OnChain'
      BY <2>1, <2>3 DEF OnChain
    <3> QED
      BY <2>4, <3>1, <3>2, OneRequestMoves DEF IInv
  <2> QED
    BY <2>5, <2>6, <2>7 DEF RowInv
<1>9. CASE Restart
  <2>1. \A r \in Requests : req'[r] = Idle
    BY <1>9 DEF Restart
  <2> QED
    BY <1>9, <1>b, <2>1 DEF Restart, RequestsKnowTheirKey, SubmissionsFollowTheLedger
<1>10. ASSUME UNCHANGED <<row, req>>
       PROVE  RowInv' /\ RequestsKnowTheirKey' /\ SubmissionsFollowTheLedger'
  BY <1>10, <1>b DEF IInv, RequestsKnowTheirKey, SubmissionsFollowTheLedger
<1> QED
  BY <1>1, <1>3, <1>4, <1>5, <1>6, <1>7, <1>8, <1>9, <1>10
     DEF Next, RequestStep, LedgerApply, OtherMasterTx, vars

\* The inductive invariant holds.
LEMMA Inductive == Spec => []IInv
BY InitIInv, NextIInv, PTL DEF Spec

\* An active key always has a funded account of its own, however requests
\* interleave, fail or are cut off by a restart.
THEOREM ActiveKeysOwnFundedAccounts == Spec => []ActiveKeyOwnsFundedAccount
<1>1. IInv => ActiveKeyOwnsFundedAccount
  <2> SUFFICES ASSUME IInv, NEW k \in Keys, row[k].status = "active"
               PROVE  row[k].sponsor \in OnChain /\ ~HeldByAnother(k, row[k].sponsor)
    BY DEF ActiveKeyOwnsFundedAccount
  <2>1. row[k].sponsor \in OnChain
    BY DEF IInv, ActiveKeyIsFunded
  <2>2. row[k].sponsor # Nil
    BY <2>1, NilAssumption DEF OnChain
  <2> QED
    BY <2>1, <2>2 DEF IInv, NoSharedSponsorAccount, HeldByAnother
<1> QED
  BY <1>1, Inductive, PTL

-----------------------------------------------------------------------------
\* Settled keys.

\* A step leaves a request where it is, ends it, or takes it to a statement of a
\* submission only from another one or from a row that is pending.
LEMMA NoLateActivation ==
    ASSUME TypeOK, [Next]_vars, NEW k \in Keys, Settled(k)
    PROVE  ~ActivationInFlight(k)'
<1> DEFINE Submitting == {"submit_send", "submit_wait", "set_sponsor", "set_active"}
<1> SUFFICES ASSUME NEW q \in Requests, req'[q].key = k, req'[q].pc \in Submitting
             PROVE  FALSE
  BY DEF ActivationInFlight
<1>1. ~(req[q].key = k /\ req[q].pc \in Submitting)
  BY DEF Settled, ActivationInFlight
<1> USE DEF Begin, At, Goto, Finish, Idle, TypeOK
<1>2. ASSUME NEW r \in Requests, NEW l \in Keys, BuildRead(r, l) \/ RevokeRead(r, l)
      PROVE  FALSE
  <2>1. req' = [req EXCEPT ![r] = [pc |-> req'[r].pc, key |-> l, acct |-> Nil]]
        /\ req'[r].pc \in {"build_load", "revoke_write"}
    BY <1>2 DEF BuildRead, RevokeRead
  <2> QED
    BY <1>1, <2>1
<1>3. ASSUME NEW r \in Requests, NEW l \in Keys, NEW a \in Accounts, SubmitCheck(r, l, a)
      PROVE  FALSE
  BY <1>1, <1>3 DEF SubmitCheck, Settled
<1>4. ASSUME NEW r \in Requests, BuildLoad(r) \/ SetActive(r) \/ RevokeWrite(r)
                                \/ HorizonError(r) \/ StoreError(r)
      PROVE  FALSE
  BY <1>1, <1>4 DEF BuildLoad, SetActive, RevokeWrite, HorizonError, StoreError
<1>5. ASSUME NEW r \in Requests, SubmitSend(r) \/ SubmitAccepted(r) \/ SetSponsorAccount(r)
      PROVE  FALSE
  <2>1. req[r].pc \in Submitting
    BY <1>5 DEF SubmitSend, SubmitAccepted, SetSponsorAccount
  <2>2. req'[r].key = req[r].key /\ \A other \in Requests \ {r} : req'[other] = req[other]
    BY <1>5 DEF SubmitSend, SubmitAccepted, SetSponsorAccount
  <2> QED
    BY <1>1, <2>1, <2>2
<1>6. CASE Restart
  BY <1>1, <1>6 DEF Restart
<1>7. CASE UNCHANGED req
  BY <1>1, <1>7
<1> QED
  BY <1>2, <1>3, <1>4, <1>5, <1>6, <1>7
     DEF Next, RequestStep, vars, Create, LedgerApply, OtherMasterTx

\* A settled key's row is written by a revocation only.
LEMMA SettledRow ==
    ASSUME TypeOK, [Next]_vars, NEW k \in Keys, Settled(k)
    PROVE  \/ row'[k] = row[k]
           \/ row'[k].sponsor = row[k].sponsor /\ row'[k].status = "revoked"
<1> USE DEF At, TypeOK, Settled
<1>1. ASSUME NEW l \in Keys, Create(l) PROVE row'[k] = row[k]
  BY <1>1 DEF Create
<1>2. ASSUME NEW r \in Requests, SetSponsorAccount(r) \/ SetActive(r) PROVE row'[k] = row[k]
  <2>1. req[r].key # k
    BY <1>2 DEF SetSponsorAccount, SetActive, ActivationInFlight
  <2> QED
    BY <1>2, <2>1 DEF SetSponsorAccount, SetActive
<1>3. ASSUME NEW r \in Requests, RevokeWrite(r)
      PROVE  \/ row'[k] = row[k]
             \/ row'[k].sponsor = row[k].sponsor /\ row'[k].status = "revoked"
  BY <1>3 DEF RevokeWrite
<1>4. CASE UNCHANGED row
  BY <1>4
<1> QED
  BY <1>1, <1>2, <1>3, <1>4
     DEF Next, RequestStep, vars, BuildRead, BuildLoad, SubmitCheck, SubmitSend,
         SubmitAccepted, RevokeRead, HorizonError, StoreError, Restart, LedgerApply,
         OtherMasterTx

\* Once no activation is in flight for a key that is active or revoked, none
\* ever is again: the account is final and the key can only be revoked.
THEOREM SettledKeysOnlyRevoke == Spec => SettledKeyOnlyRevokes
<1>1. TypeOK /\ [Next]_vars =>
        [\A k \in Keys : Settled(k) =>
            /\ Settled(k)'
            /\ row'[k].sponsor = row[k].sponsor
            /\ row'[k].status # row[k].status => row'[k].status = "revoked"]_vars
  <2> SUFFICES ASSUME TypeOK, [Next]_vars, NEW k \in Keys, Settled(k)
               PROVE  /\ Settled(k)'
                      /\ row'[k].sponsor = row[k].sponsor
                      /\ row'[k].status # row[k].status => row'[k].status = "revoked"
    OBVIOUS
  <2>1. ~ActivationInFlight(k)'
    BY NoLateActivation
  <2>2. \/ row'[k] = row[k]
        \/ row'[k].sponsor = row[k].sponsor /\ row'[k].status = "revoked"
    BY SettledRow
  <2> QED
    BY <2>1, <2>2 DEF Settled
<1> QED
  BY <1>1, TypeCorrect, PTL DEF Spec, SettledKeyOnlyRevokes

-----------------------------------------------------------------------------
\* KeyLifecycle implements KeyContract.

\* A change of one row's status, of one row's account or of the ledger, or none,
\* is what each step comes to.
LEMMA StepImplements == IInv /\ [Next]_vars => [Contract!Next]_(Contract!contractVars)
<1> SUFFICES ASSUME IInv, [Next]_vars
             PROVE  Contract!Next \/ UNCHANGED Contract!contractVars
  OBVIOUS
<1> DEFINE st == [k \in Keys |-> row[k].status]
           sp == [k \in Keys |-> row[k].sponsor]
<1> USE DEF At, IInv, TypeOK
<1>1. ASSUME NEW k \in Keys, Create(k) PROVE Contract!Create(k)
  BY <1>1 DEF Create, OnChain, Contract!Create
<1>2. ASSUME NEW r \in Requests, SetSponsorAccount(r)
      PROVE  \E k \in Keys, a \in Accounts : Contract!Bind(k, a)
  <2>1. PICK k \in Keys, a \in Accounts :
          /\ k = req[r].key /\ row[k].status # "absent"
          /\ a = req[r].acct /\ a \in OnChain
    BY <1>2 DEF SetSponsorAccount, RequestsKnowTheirKey, SubmissionsFollowTheLedger, OnChain
  <2>2. UNCHANGED OnChain
    BY <1>2 DEF SetSponsorAccount, OnChain
  <2>3. sp' = [sp EXCEPT ![k] = a] /\ UNCHANGED st
    BY <1>2, <2>1 DEF SetSponsorAccount
  <2>4. \A other \in Keys \ {k} : sp[other] # a
    BY <1>2, <2>1 DEF SetSponsorAccount, HeldByAnother
  <2>5. Contract!Bind(k, a)
    BY <2>1, <2>2, <2>3, <2>4 DEF Contract!Bind
  <2> QED
    BY <2>5
<1>3. ASSUME NEW r \in Requests, SetActive(r)
      PROVE  \E k \in Keys : Contract!Activate(k)
  <2>1. PICK k \in Keys :
          k = req[r].key /\ row[k].status # "absent" /\ row[k].sponsor \in OnChain
    BY <1>3 DEF SetActive, RequestsKnowTheirKey, SubmissionsFollowTheLedger
  <2>2. st' = [st EXCEPT ![k] = "active"] /\ UNCHANGED sp /\ UNCHANGED OnChain
    BY <1>3, <2>1 DEF SetActive, OnChain
  <2>3. Contract!Activate(k)
    BY <2>1, <2>2 DEF Contract!Activate
  <2> QED
    BY <2>3
<1>4. ASSUME NEW r \in Requests, RevokeWrite(r)
      PROVE  \E k \in Keys : Contract!Revoke(k)
  <2>1. PICK k \in Keys : k = req[r].key /\ row[k].status # "absent"
    BY <1>4 DEF RevokeWrite, RequestsKnowTheirKey
  <2>2. st' = [st EXCEPT ![k] = "revoked"] /\ UNCHANGED sp /\ UNCHANGED OnChain
    BY <1>4, <2>1 DEF RevokeWrite, OnChain
  <2>3. Contract!Revoke(k)
    BY <2>1, <2>2 DEF Contract!Revoke
  <2> QED
    BY <2>3
<1>5. ASSUME NEW a \in Accounts, LedgerApply(a) PROVE Contract!OpenAccount(a)
  BY <1>5 DEF LedgerApply, OnChain, Contract!OpenAccount
<1>6. ASSUME NEW r \in Requests, BuildLoad(r) \/ SubmitSend(r)
      PROVE  UNCHANGED Contract!contractVars
  <2>1. \A a \in Accounts : xdr'[a].state = "applied" <=> xdr[a].state = "applied"
    <3>1. CASE BuildLoad(r)
      <4>1. PICK a \in Accounts :
              /\ xdr[a].state = "unbuilt"
              /\ xdr' = [xdr EXCEPT ![a] = [state |-> "built", key |-> req[r].key,
                                            seq |-> masterSeq + 1]]
        BY <3>1 DEF BuildLoad, NewEnvelope
      <4> QED
        BY <4>1
    <3>2. CASE SubmitSend(r)
      BY <3>2 DEF SubmitSend
    <3> QED
      BY <1>6, <3>1, <3>2
  <2>2. UNCHANGED OnChain
    BY <2>1 DEF OnChain
  <2> QED
    BY <1>6, <2>2 DEF BuildLoad, SubmitSend, Contract!contractVars
<1>7. CASE UNCHANGED <<row, xdr>>
  BY <1>7 DEF OnChain, Contract!contractVars
<1> QED
  BY <1>1, <1>2, <1>3, <1>4, <1>5, <1>6, <1>7
     DEF Next, RequestStep, vars, BuildRead, SubmitCheck, SubmitAccepted, RevokeRead,
         HorizonError, StoreError, Restart, OtherMasterTx, Contract!Next

\* Behind the requests, the failures and the restarts, a key does only what the
\* contract of the admin API allows.
THEOREM LifecycleImplementsContract == Spec => ImplementsContract
<1>1. Init => Contract!Init
  BY DEF Init, OnChain, Contract!Init
<1> QED
  BY <1>1, StepImplements, Inductive, PTL DEF Spec, ImplementsContract, Contract!Spec

=============================================================================
