------------------------- MODULE SponsorFundsProofs -------------------------
(***************************************************************************)
(* Proofs about SponsorFunds.  A retired secret starts no request because  *)
(* a revoked row is written active by nobody and a new secret is never one *)
(* that was issued before; only requests in flight sign, and each of them  *)
(* carries a secret that was issued.                                       *)
(***************************************************************************)
EXTENDS SponsorFunds, TLAPS

\* Every secret that is used was issued; a request in flight has a transaction.
SecretsIssued ==
    /\ row.secret \in issued
    /\ \A r \in Requests :
        req[r].pc # "idle" => req[r].secret \in issued /\ req[r].tx \in Txs

IInv == TypeOK /\ SecretsIssued

Pc == {"idle", "verify", "log", "answer"}

LedgerType == [balance : Nat, sponsoring : Nat, seq : Nat, masterSeq : Nat]

AdminType == [pc : AdminPc, available : Nat, env : Envelope]

-----------------------------------------------------------------------------
\* Each variable by itself.

DatabaseType == row \in Row /\ issued \subseteq Secrets /\ log \subseteq Txs

WorldType ==
    /\ ledger \in LedgerType
    /\ network \subseteq Envelope
    /\ signed \subseteq Txs
    /\ applied \subseteq signed

LEMMA TypeParts ==
    TypeOK <=> /\ DatabaseType
               /\ req \in [Requests -> Request]
               /\ admin \in [Admins -> AdminType]
               /\ WorldType
               /\ built \subseteq Envelope
BY DEF TypeOK, DatabaseType, WorldType, LedgerType, AdminType

LEMMA InitHolds == Init => IInv
<1> SUFFICES ASSUME Init PROVE IInv
  OBVIOUS
<1> USE DEF Init
<1>1. DatabaseType
  BY DEF DatabaseType, Row
<1>2. req \in [Requests -> Request]
  BY DEF Request, Idle
<1>3. admin \in [Admins -> AdminType]
  BY DEF AdminType, AdminPc, Free, NoEnvelope, Envelope
<1>4. WorldType
  BY UnitsAssumption DEF WorldType, LedgerType
<1>5. TypeOK
  BY <1>1, <1>2, <1>3, <1>4, TypeParts
<1>6. SecretsIssued
  BY DEF SecretsIssued, Idle
<1> QED BY <1>5, <1>6 DEF IInv

-----------------------------------------------------------------------------
\* A request of the admin API stays well typed.

LEMMA GotoType ==
    ASSUME TypeOK, NEW a \in Admins, NEW pc \in AdminPc, Goto(a, pc)
    PROVE  admin' \in [Admins -> AdminType]
BY DEF TypeOK, Goto, AdminType

LEMMA EndType ==
    ASSUME TypeOK, NEW a \in Admins, End(a)
    PROVE  admin' \in [Admins -> AdminType]
<1>1. Free \in AdminType
  BY DEF Free, NoEnvelope, AdminType, AdminPc, Envelope
<1> QED BY <1>1 DEF TypeOK, End, AdminType

\* What the service makes of what Horizon answers.
LEMMA AvailableType == TypeOK => Available \in Nat
<1> SUFFICES ASSUME TypeOK PROVE Available \in Nat
  OBVIOUS
<1>1. ledger.balance \in Nat /\ ledger.sponsoring \in Nat
  BY DEF TypeOK
<1>2. Minimum \in Nat
  BY <1>1, UnitsAssumption DEF Minimum
<1> QED BY <1>1, <1>2 DEF Available

\* The ledger with another account stays a ledger.
LEMMA LedgerTypes ==
    ASSUME TypeOK, NEW n \in Nat
    PROVE  /\ [ledger EXCEPT !.sponsoring = n] \in LedgerType
           /\ \A m \in Nat : [ledger EXCEPT !.seq = n, !.balance = m] \in LedgerType
           /\ \A m \in Nat : [ledger EXCEPT !.masterSeq = n, !.balance = m] \in LedgerType
BY DEF TypeOK, LedgerType

-----------------------------------------------------------------------------
\* What every step does.

Stays(s) == Dead(s) => Dead(s)'

Silent == Closed => Closed' /\ signed' = signed /\ log' = log

StepOK == IInv' /\ (\A s \in Secrets : Stays(s)) /\ Silent

\* A step that issues no secret keeps a closed key closed.
LEMMA ClosedStays ==
    ASSUME TypeOK, issued' = issued, \A s \in Secrets : Stays(s), Closed
    PROVE  Closed'
BY DEF TypeOK, Closed, Stays

\* A step that leaves the row and the requests alone.
LEMMA ElsewhereStep ==
    ASSUME IInv, UNCHANGED <<row, issued, log, req, signed>>,
           admin' \in [Admins -> AdminType],
           ledger' \in LedgerType, network' \subseteq Envelope, applied' \subseteq signed,
           built' \subseteq Envelope
    PROVE  StepOK
<1>1. TypeOK'
  BY DEF IInv, TypeOK, LedgerType, AdminType
<1>2. SecretsIssued'
  BY DEF IInv, SecretsIssued
<1> QED BY <1>1, <1>2 DEF StepOK, IInv, Stays, Silent, Closed, Dead, Retired, InUse

\* A step of one request that has a transaction, or its end.
LEMMA RequestMoves ==
    ASSUME IInv, NEW r \in Requests, req[r].pc # "idle",
           NEW pc \in Pc, req' \in {[req EXCEPT ![r].pc = pc], [req EXCEPT ![r] = Idle]},
           UNCHANGED <<row, issued, admin, ledger, network, applied, built>>,
           log' \subseteq Txs, signed' \subseteq Txs, signed \subseteq signed'
    PROVE  StepOK
<1>1. req \in [Requests -> Request] /\ \A q \in Requests :
        req[q].pc # "idle" => req[q].secret \in issued /\ req[q].tx \in Txs
  BY DEF IInv, TypeOK, SecretsIssued
<1>2. req' \in [Requests -> Request]
  BY <1>1 DEF Request, Idle, Pc
<1>3. \A q \in Requests :
        req'[q].pc # "idle" =>
            req[q].pc # "idle" /\ req'[q].secret = req[q].secret /\ req'[q].tx = req[q].tx
  BY <1>1 DEF Request, Idle
<1>4. TypeOK'
  BY <1>2 DEF IInv, TypeOK
<1>5. SecretsIssued'
  BY <1>1, <1>3 DEF IInv, SecretsIssued
<1>6. \A s \in Secrets : Stays(s)
  BY <1>3 DEF Stays, Dead, Retired, InUse
<1>7. Silent
  BY <1>1, <1>6, ClosedStays DEF Silent, Closed, Dead, InUse, IInv
<1> QED BY <1>4, <1>5, <1>6, <1>7 DEF StepOK, IInv

-----------------------------------------------------------------------------

LEMMA RequestKeeps ==
    ASSUME IInv, NEW r \in Requests, RequestStep(r)
    PROVE  StepOK
<1>1. /\ req[r].pc # "idle" => req[r].tx \in Txs
      /\ signed \subseteq Txs /\ log \subseteq Txs
      /\ {"log", "answer"} \subseteq Pc
  BY DEF IInv, TypeOK, SecretsIssued, Pc
<1>2. CASE CheckBalance(r)
  <2>1. req' = [req EXCEPT ![r].pc = "log"] /\ req[r].pc # "idle"
    BY <1>2 DEF CheckBalance
  <2>2. UNCHANGED <<row, issued, log, signed, admin, ledger, network, applied, built>>
    BY <1>2 DEF CheckBalance, database, world
  <2> QED BY <1>1, <2>1, <2>2, RequestMoves
<1>3. CASE Refuse(r)
  <2>1. req' = [req EXCEPT ![r] = Idle] /\ req[r].pc # "idle"
    BY <1>3 DEF Refuse
  <2>2. UNCHANGED <<row, issued, log, signed, admin, ledger, network, applied, built>>
    BY <1>3 DEF Refuse, database, world
  <2> QED BY <1>1, <2>1, <2>2, RequestMoves
<1>4. CASE LogSigned(r)
  <2>1. /\ req' = [req EXCEPT ![r].pc = "answer"] /\ req[r].pc # "idle"
        /\ log' \in {log, log \cup {req[r].tx}}
    BY <1>4 DEF LogSigned
  <2>2. UNCHANGED <<row, issued, signed, admin, ledger, network, applied, built>>
    BY <1>4 DEF LogSigned, world
  <2> QED BY <1>1, <2>1, <2>2, RequestMoves
<1>5. CASE Answer(r)
  <2>1. /\ req' = [req EXCEPT ![r] = Idle] /\ req[r].pc # "idle"
        /\ signed' = signed \cup {req[r].tx}
    BY <1>5 DEF Answer
  <2>2. UNCHANGED <<row, issued, log, admin, ledger, network, applied, built>>
    BY <1>5 DEF Answer, database
  <2> QED BY <1>1, <2>1, <2>2, RequestMoves
<1> QED BY <1>2, <1>3, <1>4, <1>5 DEF RequestStep

\* Authentication starts a request with the secret of the row, which is active.
LEMMA AuthenticateKeeps ==
    ASSUME IInv, NEW r \in Requests, NEW t \in Txs, Authenticate(r, t)
    PROVE  StepOK
<1> DEFINE new == [pc |-> "verify", tx |-> t, secret |-> row.secret]
<1>1. /\ row.status = "active" /\ row.secret \in issued /\ row.secret \in Secrets
      /\ req' = [req EXCEPT ![r] = new]
      /\ UNCHANGED <<row, issued, log, signed, admin, ledger, network, applied, built>>
  BY DEF Authenticate, IInv, TypeOK, SecretsIssued, Row, database, world
<1>2. new \in Request /\ new.secret = row.secret /\ new.tx = t
  BY <1>1 DEF Request
<1> HIDE DEF new
<1>3. req' \in [Requests -> Request] /\ req'[r] = new
      /\ \A q \in Requests \ {r} : req'[q] = req[q]
  BY <1>1, <1>2 DEF IInv, TypeOK
<1>4. TypeOK'
  BY <1>1, <1>3 DEF IInv, TypeOK
<1>5. SecretsIssued'
  BY <1>1, <1>2, <1>3 DEF IInv, SecretsIssued
<1>6. \A s \in Secrets : Stays(s)
  BY <1>1, <1>2, <1>3 DEF Stays, Dead, Retired, InUse
<1>7. Silent
  BY <1>1, <1>6, ClosedStays DEF Silent, IInv
<1> QED BY <1>4, <1>5, <1>6, <1>7 DEF StepOK, IInv

\* A write of the row does not make a revoked key active, nor an old secret current.
LEMMA RowWrites ==
    ASSUME IInv, NEW a \in Admins, RevokeWrite(a) \/ RegenerateWrite(a)
    PROVE  StepOK
<1>1. /\ admin' \in [Admins -> AdminType]
      /\ UNCHANGED <<log, req, signed, ledger, network, applied, built>>
  BY EndType DEF RevokeWrite, RegenerateWrite, world, IInv
<1>2. row \in Row /\ issued \subseteq Secrets /\ row.secret \in issued
  BY DEF IInv, TypeOK, SecretsIssued
<1>3. CASE RevokeWrite(a)
  <2>1. row' = [row EXCEPT !.status = "revoked"] /\ issued' = issued
    BY <1>3 DEF RevokeWrite
  <2>2. row' \in Row /\ row'.status = "revoked" /\ row'.secret = row.secret
    BY <1>2, <2>1 DEF Row
  <2>3. TypeOK' /\ SecretsIssued'
    BY <1>1, <2>1, <2>2 DEF IInv, TypeOK, SecretsIssued, AdminType
  <2>4. \A s \in Secrets : Stays(s)
    BY <1>1, <2>1, <2>2 DEF Stays, Dead, Retired, InUse
  <2> QED BY <1>1, <2>1, <2>3, <2>4, ClosedStays DEF StepOK, IInv, Silent
<1>4. CASE RegenerateWrite(a)
  <2>1. PICK new \in Secrets \ issued :
            row' = [row EXCEPT !.secret = new] /\ issued' = issued \cup {new}
    BY <1>4 DEF RegenerateWrite
  <2>2. row' \in Row /\ row'.secret = new /\ row'.status = row.status
    BY <1>2, <2>1 DEF Row
  <2>3. TypeOK' /\ SecretsIssued'
    BY <1>1, <1>2, <2>1, <2>2 DEF IInv, TypeOK, SecretsIssued, AdminType
  <2>4. \A s \in Secrets : Stays(s)
    BY <1>1, <2>1, <2>2 DEF Stays, Dead, Retired, InUse
  <2>5. ASSUME Closed PROVE Closed'
    <3>1. row.status = "revoked"
      BY <1>2, <2>5 DEF Closed, Dead, Retired
    <3>2. ~InUse(new)'
      BY <1>1, <2>1 DEF IInv, SecretsIssued, InUse
    <3> QED BY <1>1, <2>1, <2>2, <2>5, <3>1, <3>2 DEF Closed, Dead, Retired, InUse
  <2> QED BY <1>1, <2>3, <2>4, <2>5 DEF StepOK, IInv, Silent
<1> QED BY <1>3, <1>4

\* The other requests of the admin API move between types.
LEMMA AdminKeeps ==
    ASSUME IInv, NEW a \in Admins, AdminStep(a)
    PROVE  StepOK
<1>1. TypeOK /\ {"revoke_write", "regenerate_write", "sweep_balance", "sweep_load", "send"}
                   \subseteq AdminPc
  BY DEF IInv, AdminPc
<1>2. /\ ledger \in LedgerType /\ network \subseteq Envelope /\ built \subseteq Envelope
      /\ applied \subseteq signed /\ admin \in [Admins -> AdminType]
      /\ admin[a] \in AdminType
  BY <1>1 DEF TypeOK, LedgerType, AdminType
<1>3. CASE RevokeWrite(a) \/ RegenerateWrite(a)
  BY <1>3, RowWrites
<1>4. CASE RevokeRead(a) \/ RegenerateRead(a) \/ SweepRead(a)
  <2>1. admin' \in [Admins -> AdminType]
    BY <1>1, <1>4, GotoType DEF RevokeRead, RegenerateRead, SweepRead
  <2>2. UNCHANGED <<row, issued, log, req, ledger, network, signed, applied, built>>
    BY <1>4 DEF RevokeRead, RegenerateRead, SweepRead, database, world
  <2> QED BY <1>2, <2>1, <2>2, ElsewhereStep
<1>5. CASE NothingAvailable(a) \/ TooLittle(a) \/ Fail(a)
  <2>1. admin' \in [Admins -> AdminType]
    BY <1>1, <1>5, EndType DEF NothingAvailable, TooLittle, Fail
  <2>2. UNCHANGED <<row, issued, log, req, ledger, network, signed, applied, built>>
    BY <1>5 DEF NothingAvailable, TooLittle, Fail, database, world
  <2> QED BY <1>2, <2>1, <2>2, ElsewhereStep
<1>6. CASE SweepBalance(a)
  <2>1. admin' = [admin EXCEPT ![a].pc = "sweep_load", ![a].available = Available]
    BY <1>6 DEF SweepBalance
  <2>2. admin' \in [Admins -> AdminType]
    BY <1>1, <1>2, <2>1, AvailableType DEF AdminType
  <2>3. UNCHANGED <<row, issued, log, req, ledger, network, signed, applied, built>>
    BY <1>6 DEF SweepBalance, database, world
  <2> QED BY <1>2, <2>2, <2>3, ElsewhereStep
<1>7. CASE SweepLoad(a)
  <2> DEFINE env == SweepEnvelope(admin[a].available)
  <2>1. env \in Envelope
    <3>1. admin[a].available \in Nat /\ ledger.seq \in Nat
      BY <1>2 DEF AdminType, LedgerType
    <3>2. admin[a].available - Fee \in Nat
      BY <1>7, <3>1, UnitsAssumption DEF SweepLoad
    <3> QED BY <3>1, <3>2 DEF SweepEnvelope, Envelope
  <2>2. admin' = [admin EXCEPT ![a].pc = "send", ![a].available = 0, ![a].env = env]
    BY <1>7 DEF SweepLoad
  <2> HIDE DEF env
  <2>3. admin' \in [Admins -> AdminType]
    BY <1>1, <1>2, <2>1, <2>2 DEF AdminType
  <2>4. UNCHANGED <<row, issued, log, req, ledger, network, signed, applied, built>>
    BY <1>7 DEF SweepLoad, database, world
  <2> QED BY <1>2, <2>3, <2>4, ElsewhereStep
<1>8. ASSUME NEW env \in built, SubmitFund(a, env)
      PROVE  StepOK
  <2>1. admin' = [admin EXCEPT ![a].pc = "send", ![a].env = env]
    BY <1>8 DEF SubmitFund
  <2>2. admin' \in [Admins -> AdminType]
    BY <1>1, <1>2, <2>1 DEF AdminType
  <2>3. UNCHANGED <<row, issued, log, req, ledger, network, signed, applied, built>>
    BY <1>8 DEF SubmitFund, database, world
  <2> QED BY <1>2, <2>2, <2>3, ElsewhereStep
<1>9. CASE Send(a)
  <2>1. network' \subseteq Envelope
    BY <1>2, <1>9 DEF Send, AdminType
  <2>2. admin' \in [Admins -> AdminType]
    BY <1>1, <1>9, EndType DEF Send
  <2>3. UNCHANGED <<row, issued, log, req, ledger, signed, applied, built>>
    BY <1>9 DEF Send, database
  <2> QED BY <1>2, <2>1, <2>2, <2>3, ElsewhereStep
<1> QED BY <1>3, <1>4, <1>5, <1>6, <1>7, <1>8, <1>9 DEF AdminStep

\* The network writes neither rows nor requests.
LEMMA NetworkKeeps ==
    ASSUME IInv, NetworkStep
    PROVE  StepOK
<1>1. /\ TypeOK /\ ledger \in LedgerType /\ network \subseteq Envelope /\ built \subseteq Envelope
      /\ applied \subseteq signed /\ signed \subseteq Txs /\ admin \in [Admins -> AdminType]
  BY DEF IInv, TypeOK, LedgerType, AdminType
<1>2. /\ ledger.balance \in Nat /\ ledger.sponsoring \in Nat
      /\ ledger.seq \in Nat /\ ledger.masterSeq \in Nat
  BY <1>1 DEF LedgerType
<1>3. UNCHANGED <<row, issued, log, req, signed, admin, built>>
  BY DEF NetworkStep, ApplyTx, ApplySweep, ApplyFund, Drop, Release, database
<1>4. ASSUME NEW t \in Txs, ApplyTx(t)
      PROVE  ledger' \in LedgerType /\ network' = network /\ applied' \subseteq signed
  <2>1. ledger.sponsoring + Reserves[t] \in Nat
    BY <1>2, ReservesAssumption
  <2>2. ledger' = [ledger EXCEPT !.sponsoring = ledger.sponsoring + Reserves[t]]
    BY <1>4 DEF ApplyTx
  <2> QED BY <1>1, <1>4, <2>1, <2>2, LedgerTypes DEF ApplyTx
<1>5. ASSUME NEW env \in network, ApplySweep(env)
      PROVE  ledger' \in LedgerType /\ network' \subseteq network /\ applied' = applied
  <2>1. Minimum \in Nat
    BY <1>2, UnitsAssumption DEF Minimum
  <2>2. Available \in Nat /\ Available <= ledger.balance /\ Fee <= Available
    BY <1>2, <1>5, <2>1 DEF Available, ApplySweep
  <2>3. env.amount \in Nat
    BY <1>1 DEF Envelope
  <2> DEFINE left == IF env.amount + Fee <= Available THEN ledger.balance - env.amount - Fee
                                                      ELSE ledger.balance - Fee
  <2>4. left \in Nat
    BY <1>2, <2>2, <2>3, UnitsAssumption
  <2>5. ledger' = [ledger EXCEPT !.seq = ledger.seq + 1, !.balance = left]
    BY <1>5 DEF ApplySweep
  <2>6. ledger.seq + 1 \in Nat
    BY <1>2
  <2> HIDE DEF left
  <2>7. ledger' \in LedgerType
    BY <1>1, <2>4, <2>5, <2>6, LedgerTypes
  <2> QED BY <1>5, <2>7 DEF ApplySweep
<1>6. ASSUME NEW env \in network, ApplyFund(env)
      PROVE  ledger' \in LedgerType /\ network' \subseteq network /\ applied' = applied
  <2>1. env.amount \in Nat
    BY <1>1 DEF Envelope
  <2>2. ledger.balance + env.amount \in Nat /\ ledger.masterSeq + 1 \in Nat
    BY <1>2, <2>1
  <2>3. ledger' = [ledger EXCEPT !.masterSeq = ledger.masterSeq + 1,
                                 !.balance = ledger.balance + env.amount]
    BY <1>6 DEF ApplyFund
  <2>4. ledger' \in LedgerType
    BY <1>1, <2>2, <2>3, LedgerTypes
  <2> QED BY <1>6, <2>4 DEF ApplyFund
<1>7. ASSUME NEW env \in network, Drop(env)
      PROVE  ledger' \in LedgerType /\ network' \subseteq network /\ applied' = applied
  BY <1>1, <1>7 DEF Drop
<1>8. ASSUME Release
      PROVE  ledger' \in LedgerType /\ network' = network /\ applied' = applied
  <2>1. ledger.sponsoring - 1 \in Nat
    BY <1>2, <1>8 DEF Release
  <2>2. ledger' = [ledger EXCEPT !.sponsoring = ledger.sponsoring - 1]
    BY <1>8 DEF Release
  <2> QED BY <1>1, <1>8, <2>1, <2>2, LedgerTypes DEF Release
<1>9. ledger' \in LedgerType /\ network' \subseteq Envelope /\ applied' \subseteq signed
  BY <1>1, <1>4, <1>5, <1>6, <1>7, <1>8 DEF NetworkStep
<1> QED BY <1>1, <1>3, <1>9, ElsewhereStep

LEMMA StepKeeps ==
    ASSUME IInv, [Next]_vars
    PROVE  StepOK
<1>1. /\ ledger \in LedgerType /\ network \subseteq Envelope /\ built \subseteq Envelope
      /\ applied \subseteq signed /\ admin \in [Admins -> AdminType]
  BY DEF IInv, TypeOK, LedgerType, AdminType
<1>2. ASSUME NEW amount \in Amounts, BuildFund(amount)
      PROVE  StepOK
  <2>1. ledger.masterSeq + 1 \in Nat /\ amount \in Nat
    BY <1>1, AmountsAssumption DEF LedgerType
  <2>2. built' \subseteq Envelope
    BY <1>1, <1>2, <2>1 DEF BuildFund, Envelope
  <2>3. UNCHANGED <<row, issued, log, req, admin, ledger, network, signed, applied>>
    BY <1>2 DEF BuildFund, database, world
  <2> QED BY <1>1, <2>2, <2>3, ElsewhereStep
<1>3. CASE Restart
  <2>1. Idle \in Request /\ Free \in AdminType
    BY DEF Idle, Free, NoEnvelope, Request, AdminType, AdminPc, Envelope
  <2>2. /\ req' = [r \in Requests |-> Idle] /\ admin' = [a \in Admins |-> Free]
        /\ UNCHANGED <<row, issued, log, ledger, network, signed, applied, built>>
    BY <1>3 DEF Restart, database, world
  <2>3. TypeOK'
    BY <2>1, <2>2 DEF IInv, TypeOK, AdminType
  <2>4. SecretsIssued' /\ \A s \in Secrets : Stays(s)
    BY <2>2 DEF IInv, SecretsIssued, Stays, Dead, Retired, InUse, Idle
  <2> QED BY <2>2, <2>3, <2>4, ClosedStays DEF StepOK, IInv, Silent
<1>4. CASE UNCHANGED vars
  BY <1>1, <1>4, ElsewhereStep DEF vars
<1> QED BY <1>2, <1>3, <1>4, AuthenticateKeeps, RequestKeeps, AdminKeeps, NetworkKeeps DEF Next

-----------------------------------------------------------------------------

\* Every state is well typed: no amount of a sweep and no balance goes below zero,
\* and only what was signed is applied (funding.go, signing.go, builder.go).
THEOREM TypeCorrect == Spec => []TypeOK
<1>1. IInv => TypeOK
  BY DEF IInv
<1>2. IInv /\ [Next]_vars => IInv'
  BY StepKeeps DEF StepOK
<1> QED BY <1>1, <1>2, InitHolds, PTL DEF Spec

\* For any number of requests and administrators, in whatever order revocations and
\* new secrets are written: a secret that is retired and whose requests have ended
\* starts no request again, and a key that has none but such secrets signs nothing.
THEOREM RetiredSecretsAreSilent == Spec => RetiredSecretsSignNoMore
<1>1. IInv /\ [Next]_vars =>
        [/\ \A s \in Secrets : Dead(s) => Dead(s)'
         /\ Closed => Closed' /\ signed' = signed /\ log' = log]_vars
  BY StepKeeps DEF StepOK, Stays, Silent
<1>2. IInv /\ [Next]_vars => IInv'
  BY StepKeeps DEF StepOK
<1> QED BY <1>1, <1>2, InitHolds, PTL DEF Spec, RetiredSecretsSignNoMore

=============================================================================
