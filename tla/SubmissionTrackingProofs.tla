---------------------- MODULE SubmissionTrackingProofs ----------------------
(***************************************************************************)
(* A transaction that is called confirmed is on the ledger, for any number *)
(* of transactions, listings, checks and slots.                            *)
(***************************************************************************)
EXTENDS SubmissionTracking, TLAPS

\* What a goroutine is about to store is an answer of Horizon.
AnswersAreStored ==
    \A l \in Lists, t \in Txs :
        list[l].task[t] = "writing" => list[l].seen[t] \in SubmissionStatus

IInv == TypeOK /\ AnswersAreStored /\ ConfirmedIsOnLedger

-----------------------------------------------------------------------------

LEMMA InitIInv == Init => IInv
BY NilAssumption
DEF Init, IInv, TypeOK, AnswersAreStored, ConfirmedIsOnLedger, Row, Listing, NoListing,
    Task, NoCheck, Check

\* The row after a status has been stored.
LEMMA StoredRow ==
    ASSUME TypeOK, NEW u \in Txs, NEW status \in SubmissionStatus,
           UpdateSubmissionStatus(u, status)
    PROVE  /\ row' \in [Txs -> Row]
           /\ \A t \in Txs : row'[t].status = IF t = u THEN status ELSE row[t].status
BY DEF TypeOK, UpdateSubmissionStatus, Row

\* A goroutine that moves leaves the rows in memory as they are.
LEMMA MovedTask ==
    ASSUME TypeOK, NEW l \in Lists, NEW u \in Txs, NEW pc \in Task, Move(l, u, pc)
    PROVE  /\ list' \in [Lists -> Listing]
           /\ \A k \in Lists, t \in Txs :
                /\ list'[k].seen[t] = list[k].seen[t]
                /\ list'[k].task[t] =
                       IF k = l /\ t = u THEN pc ELSE list[k].task[t]
<1> DEFINE tasks == [list[l].task EXCEPT ![u] = pc]
           entry == [list[l] EXCEPT !.task = tasks]
<1>1. list[l] \in Listing
  BY DEF TypeOK
<1>2. tasks \in [Txs -> Task]
  BY <1>1 DEF Listing
<1>3. \A t \in Txs : tasks[t] = IF t = u THEN pc ELSE list[l].task[t]
  BY <1>1 DEF Listing
<1>4. list' = [list EXCEPT ![l] = entry]
  BY DEF Move
<1> HIDE DEF tasks
<1>5. /\ entry \in Listing
      /\ entry.seen = list[l].seen
      /\ entry.task = tasks
  BY <1>1, <1>2 DEF Listing
<1> HIDE DEF entry
<1> QED BY <1>3, <1>4, <1>5 DEF TypeOK

\* Steps that store nothing and answer nothing: what is known remains known.
LEMMA MoveKeeps ==
    ASSUME IInv, NEW l \in Lists, NEW u \in Txs, NEW pc \in Task \ {"writing"},
           Move(l, u, pc), UNCHANGED <<onLedger, row, check>>
    PROVE  IInv'
<1>1. /\ list' \in [Lists -> Listing]
      /\ \A k \in Lists, t \in Txs :
            /\ list'[k].seen[t] = list[k].seen[t]
            /\ list'[k].task[t] = IF k = l /\ t = u THEN pc ELSE list[k].task[t]
  BY MovedTask DEF IInv
<1>2. TypeOK'
  BY <1>1 DEF IInv, TypeOK
<1>3. AnswersAreStored'
  BY <1>1 DEF IInv, AnswersAreStored
<1>4. ConfirmedIsOnLedger'
  BY <1>1 DEF IInv, ConfirmedIsOnLedger
<1> QED BY <1>2, <1>3, <1>4 DEF IInv

LEMMA ListKeeps ==
    ASSUME IInv, NEW l \in Lists, List(l)
    PROVE  IInv'
<1>1. PICK page \in SUBSET Txs :
        list' = [list EXCEPT ![l] =
            [pc |-> "checking",
             seen |-> [t \in Txs |-> IF t \in page THEN row[t].status ELSE "unlisted"],
             task |-> [t \in Txs |-> IF t \in page /\ NeedsCheck(t) THEN "queued" ELSE "none"],
             expired |-> FALSE]]
  BY DEF List
<1> DEFINE seen == [t \in Txs |-> IF t \in page THEN row[t].status ELSE "unlisted"]
           task == [t \in Txs |-> IF t \in page /\ NeedsCheck(t) THEN "queued" ELSE "none"]
           entry == [pc |-> "checking", seen |-> seen, task |-> task, expired |-> FALSE]
<1>2. /\ seen \in [Txs -> SubmissionStatus \cup {Nil, "unlisted"}]
      /\ \A t \in Txs : seen[t] = "confirmed" => row[t].status = "confirmed"
  BY DEF IInv, TypeOK, Row
<1>3. /\ task \in [Txs -> Task]
      /\ \A t \in Txs : task[t] # "writing"
  BY DEF Task
<1> HIDE DEF seen, task
<1>4. entry \in Listing /\ entry.seen = seen /\ entry.task = task
  BY <1>2, <1>3 DEF Listing
<1>5. list' = [list EXCEPT ![l] = entry]
  BY <1>1 DEF seen, task
<1> HIDE DEF entry
<1>6. UNCHANGED <<onLedger, row, check>>
  BY DEF List
<1>7. TypeOK'
  BY <1>4, <1>5, <1>6 DEF IInv, TypeOK
<1>8. AnswersAreStored'
  BY <1>3, <1>4, <1>5, <1>6 DEF IInv, TypeOK, AnswersAreStored
<1>9. ConfirmedIsOnLedger'
  BY <1>2, <1>4, <1>5, <1>6 DEF IInv, TypeOK, ConfirmedIsOnLedger
<1> QED BY <1>7, <1>8, <1>9 DEF IInv

LEMMA AnsweredKeeps ==
    ASSUME IInv, NEW l \in Lists, NEW u \in Txs, Answered(l, u)
    PROVE  IInv'
<1> DEFINE seen == [list[l].seen EXCEPT ![u] = CheckTransaction(u)]
           task == [list[l].task EXCEPT ![u] = "writing"]
           entry == [list[l] EXCEPT !.seen = seen, !.task = task]
<1>1. list[l] \in Listing
  BY DEF IInv, TypeOK
<1>2. /\ CheckTransaction(u) \in SubmissionStatus
      /\ CheckTransaction(u) = "confirmed" => u \in onLedger
  BY DEF CheckTransaction, SubmissionStatus
<1>3. /\ seen \in [Txs -> SubmissionStatus \cup {Nil, "unlisted"}]
      /\ \A t \in Txs : seen[t] = IF t = u THEN CheckTransaction(u) ELSE list[l].seen[t]
  BY <1>1, <1>2 DEF Listing
<1>4. /\ task \in [Txs -> Task]
      /\ \A t \in Txs : task[t] = IF t = u THEN "writing" ELSE list[l].task[t]
  BY <1>1 DEF Listing, Task
<1>5. list' = [list EXCEPT ![l] = entry]
  BY <1>1 DEF Answered, Listing
<1> HIDE DEF seen, task
<1>6. entry \in Listing /\ entry.seen = seen /\ entry.task = task
  BY <1>1, <1>3, <1>4 DEF Listing
<1> HIDE DEF entry
<1>7. UNCHANGED <<onLedger, row, check>>
  BY DEF Answered
<1>8. TypeOK'
  BY <1>5, <1>6, <1>7 DEF IInv, TypeOK
<1>9. AnswersAreStored'
  BY <1>2, <1>3, <1>4, <1>5, <1>6, <1>7 DEF IInv, TypeOK, AnswersAreStored
<1>10. ConfirmedIsOnLedger'
  BY <1>2, <1>3, <1>5, <1>6, <1>7 DEF IInv, TypeOK, ConfirmedIsOnLedger
<1> QED BY <1>8, <1>9, <1>10 DEF IInv

LEMMA WriteKeeps ==
    ASSUME IInv, NEW l \in Lists, NEW u \in Txs, Write(l, u)
    PROVE  IInv'
<1>1. list[l].seen[u] \in SubmissionStatus
  BY DEF IInv, AnswersAreStored, Write
<1>2. /\ row' \in [Txs -> Row]
      /\ \A t \in Txs :
            row'[t].status = IF t = u THEN list[l].seen[u] ELSE row[t].status
  BY <1>1, StoredRow DEF IInv, Write
<1>3. /\ list' \in [Lists -> Listing]
      /\ \A k \in Lists, t \in Txs :
            /\ list'[k].seen[t] = list[k].seen[t]
            /\ list'[k].task[t] = IF k = l /\ t = u THEN "done" ELSE list[k].task[t]
  <2>1. "done" \in Task /\ Move(l, u, "done")
    BY DEF Task, Write
  <2> QED BY <2>1, MovedTask DEF IInv
<1>4. UNCHANGED <<onLedger, check>>
  BY DEF Write
<1>5. TypeOK'
  BY <1>2, <1>3, <1>4 DEF IInv, TypeOK
<1>6. AnswersAreStored'
  BY <1>3 DEF IInv, AnswersAreStored
<1>7. ConfirmedIsOnLedger'
  BY <1>2, <1>3, <1>4 DEF IInv, ConfirmedIsOnLedger
<1> QED BY <1>5, <1>6, <1>7 DEF IInv

\* Steps of the request itself.
LEMMA ExpireKeeps ==
    ASSUME IInv, NEW l \in Lists, Expire(l)
    PROVE  IInv'
<1>1. /\ list' \in [Lists -> Listing]
      /\ \A k \in Lists : list'[k].seen = list[k].seen /\ list'[k].task = list[k].task
  BY DEF Expire, IInv, TypeOK, Listing
<1>2. UNCHANGED <<onLedger, row, check>>
  BY DEF Expire
<1> QED
  BY <1>1, <1>2 DEF IInv, TypeOK, AnswersAreStored, ConfirmedIsOnLedger

LEMMA RespondKeeps ==
    ASSUME IInv, NEW l \in Lists, Respond(l)
    PROVE  IInv'
<1>1. /\ NoListing \in Listing
      /\ \A t \in Txs : NoListing.seen[t] = "unlisted" /\ NoListing.task[t] = "none"
  BY DEF NoListing, Listing, Task
<1>2. list' = [list EXCEPT ![l] = NoListing] /\ UNCHANGED <<onLedger, row, check>>
  BY DEF Respond
<1> QED
  BY <1>1, <1>2 DEF IInv, TypeOK, AnswersAreStored, ConfirmedIsOnLedger

LEMMA GoroutineKeeps ==
    ASSUME IInv, NEW l \in Lists, NEW t \in Txs, Goroutine(l, t)
    PROVE  IInv'
<1>1. CASE Acquire(l, t)
  <2>1. /\ "asking" \in Task \ {"writing"}
        /\ Move(l, t, "asking") /\ UNCHANGED <<onLedger, row, check>>
    BY <1>1 DEF Acquire, Task
  <2> QED BY <2>1, MoveKeeps
<1>2. CASE GiveUp(l, t) \/ Failed(l, t) \/ WriteFailed(l, t)
  <2>1. /\ "done" \in Task \ {"writing"}
        /\ Move(l, t, "done") /\ UNCHANGED <<onLedger, row, check>>
    BY <1>2 DEF GiveUp, Failed, WriteFailed, Task
  <2> QED BY <2>1, MoveKeeps
<1> QED BY <1>1, <1>2, AnsweredKeeps, WriteKeeps DEF Goroutine

-----------------------------------------------------------------------------
\* The check of one transaction.

\* A check that is at another statement, with an answer it may call confirmed only
\* if the transaction is on the ledger.
LEMMA CheckKeeps ==
    ASSUME IInv, NEW c \in Checks, NEW entry \in Check,
           check' = [check EXCEPT ![c] = entry],
           entry.pc = "writing" /\ entry.result = "confirmed" => entry.tx \in onLedger,
           UNCHANGED <<onLedger, list>>,
           row' \in [Txs -> Row],
           \A t \in Txs : row'[t].status = "confirmed" => t \in onLedger
    PROVE  IInv'
<1>1. TypeOK'
  BY DEF IInv, TypeOK
<1>2. AnswersAreStored'
  BY DEF IInv, AnswersAreStored
<1>3. \A d \in Checks : check'[d] = IF d = c THEN entry ELSE check[d]
  BY DEF IInv, TypeOK
<1>4. ConfirmedIsOnLedger'
  BY <1>3 DEF IInv, ConfirmedIsOnLedger
<1> QED BY <1>1, <1>2, <1>4 DEF IInv

LEMMA CheckStepKeeps ==
    ASSUME IInv, NEW c \in Checks, CheckStep(c) \/ \E t \in Txs : CheckOne(c, t)
    PROVE  IInv'
<1>1. /\ row \in [Txs -> Row]
      /\ \A t \in Txs : row[t].status = "confirmed" => t \in onLedger
      /\ check[c] \in Check
  BY DEF IInv, TypeOK, ConfirmedIsOnLedger
<1>2. NoCheck \in Check /\ NoCheck.pc # "writing"
  BY DEF Check, NoCheck
<1>3. CASE CheckFailed(c) \/ CheckWriteFailed(c)
  BY <1>1, <1>2, <1>3, CheckKeeps DEF CheckFailed, CheckWriteFailed
<1>4. ASSUME NEW t \in Txs, CheckOne(c, t)
      PROVE  IInv'
  <2> DEFINE entry == [pc |-> "asking", tx |-> t]
  <2>1. entry \in Check /\ entry.pc # "writing"
    BY DEF Check
  <2>2. check' = [check EXCEPT ![c] = entry] /\ UNCHANGED <<onLedger, row, list>>
    BY <1>4 DEF CheckOne
  <2> HIDE DEF entry
  <2> QED BY <1>1, <2>1, <2>2, CheckKeeps
<1>5. CASE CheckAnswered(c)
  <2> DEFINE u == check[c].tx
             entry == [pc |-> "writing", tx |-> u, result |-> CheckTransaction(u)]
  <2>1. u \in Txs
    BY <1>1, <1>5 DEF CheckAnswered, Check, NoCheck
  <2>2. entry \in Check
    BY <2>1 DEF Check, CheckTransaction, SubmissionStatus
  <2>3. entry.result = "confirmed" => entry.tx \in onLedger
    BY DEF CheckTransaction
  <2>4. check' = [check EXCEPT ![c] = entry] /\ UNCHANGED <<onLedger, row, list>>
    BY <1>5 DEF CheckAnswered
  <2> HIDE DEF entry
  <2> QED BY <1>1, <2>2, <2>3, <2>4, CheckKeeps
<1>6. CASE CheckWrite(c)
  <2>1. /\ check[c].pc = "writing"
        /\ UpdateSubmissionStatus(check[c].tx, check[c].result)
        /\ check' = [check EXCEPT ![c] = NoCheck]
        /\ UNCHANGED <<onLedger, list>>
    BY <1>6 DEF CheckWrite
  <2>2. check[c].tx \in Txs /\ check[c].result \in SubmissionStatus
    BY <1>1, <2>1 DEF Check, NoCheck
  <2>3. /\ row' \in [Txs -> Row]
        /\ \A t \in Txs : row'[t].status =
              IF t = check[c].tx THEN check[c].result ELSE row[t].status
    BY <2>1, <2>2, StoredRow DEF IInv
  <2>4. check[c].result = "confirmed" => check[c].tx \in onLedger
    BY <2>1, <2>2 DEF IInv, ConfirmedIsOnLedger
  <2>5. \A t \in Txs : row'[t].status = "confirmed" => t \in onLedger
    BY <1>1, <2>3, <2>4
  <2> QED BY <1>2, <2>1, <2>3, <2>5, CheckKeeps
<1> QED BY <1>3, <1>4, <1>5, <1>6 DEF CheckStep

-----------------------------------------------------------------------------

\* The wallets and the clock.
LEMMA EnvironmentKeeps ==
    ASSUME IInv, NEW t \in Txs, Apply(t) \/ FiveMinutesPass(t) \/ ADayPasses(t)
    PROVE  IInv'
<1>1. CASE Apply(t)
  BY <1>1 DEF Apply, IInv, TypeOK, AnswersAreStored, ConfirmedIsOnLedger
<1>2. CASE FiveMinutesPass(t) \/ ADayPasses(t)
  <2>1. row[t] \in Row /\ row \in [Txs -> Row]
    BY DEF IInv, TypeOK
  <2>2. PICK aged \in Row : row' = [row EXCEPT ![t] = aged] /\ aged.status = row[t].status
    <3>1. CASE FiveMinutesPass(t)
      <4>1. /\ [row[t] EXCEPT !.recent = FALSE] \in Row
            /\ [row[t] EXCEPT !.recent = FALSE].status = row[t].status
        BY <2>1 DEF Row
      <4>2. row' = [row EXCEPT ![t] = [row[t] EXCEPT !.recent = FALSE]]
        BY <3>1 DEF FiveMinutesPass
      <4> QED BY <4>1, <4>2
    <3>2. CASE ADayPasses(t)
      <4>1. /\ [row[t] EXCEPT !.old = TRUE] \in Row
            /\ [row[t] EXCEPT !.old = TRUE].status = row[t].status
        BY <2>1 DEF Row
      <4>2. row' = [row EXCEPT ![t] = [row[t] EXCEPT !.old = TRUE]]
        BY <3>2 DEF ADayPasses
      <4> QED BY <4>1, <4>2
    <3> QED BY <1>2, <3>1, <3>2
  <2>3. /\ row' \in [Txs -> Row]
        /\ \A u \in Txs : row'[u].status = row[u].status
    BY <2>1, <2>2
  <2>4. UNCHANGED <<onLedger, list, check>>
    BY <1>2 DEF FiveMinutesPass, ADayPasses
  <2> QED BY <2>3, <2>4 DEF IInv, TypeOK, AnswersAreStored, ConfirmedIsOnLedger
<1> QED BY <1>1, <1>2

LEMMA NextIInv == IInv /\ [Next]_vars => IInv'
<1> SUFFICES ASSUME IInv, [Next]_vars PROVE IInv'
  OBVIOUS
<1>1. CASE UNCHANGED vars
  BY <1>1 DEF vars, IInv, TypeOK, AnswersAreStored, ConfirmedIsOnLedger
<1> QED
  BY <1>1, ListKeeps, ExpireKeeps, RespondKeeps, GoroutineKeeps, CheckStepKeeps,
     EnvironmentKeeps
  DEF Next

\* Every state is well typed, and what a goroutine stores is an answer of Horizon.
THEOREM TypeCorrect == Spec => []TypeOK
<1>1. IInv => TypeOK
  BY DEF IInv
<1> QED BY <1>1, InitIInv, NextIInv, PTL DEF Spec

\* The table, the answers on their way to it and the listings say confirmed only of
\* transactions the network has applied, for any number of concurrent listings and
\* checks, in whatever order their answers are stored.
THEOREM ConfirmationsAreTrue == Spec => []ConfirmedIsOnLedger
<1>1. IInv => ConfirmedIsOnLedger
  BY DEF IInv
<1> QED BY <1>1, InitIInv, NextIInv, PTL DEF Spec

=============================================================================
