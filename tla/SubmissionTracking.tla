------------------------- MODULE SubmissionTracking -------------------------
(***************************************************************************)
(* Tracking whether signed transactions reached the network                *)
(* (handler/admin/transactions.go).  A listing of the transaction logs     *)
(* checks with Horizon the rows that need it, one goroutine for each, at   *)
(* most MaxConcurrentChecks at a time, for no longer than its context      *)
(* lasts; the check endpoint asks for one row.  Both write what they       *)
(* learn to the row, long after they have asked.                           *)
(*                                                                         *)
(* Txs are the rows of signed transactions with a hash: others are never   *)
(* checked.  Times are abstracted to what the code compares them with:     *)
(* whether a row was checked in the last five minutes, and whether it is   *)
(* more than a day old.  Wallets submit transactions when they please.     *)
(***************************************************************************)
EXTENDS Naturals, FiniteSets

CONSTANTS
    Txs,                \* signed transactions in the log
    Lists,              \* requests for a page of the log
    Checks,             \* requests to check one transaction
    Nil,                \* a row without a submission status
    MaxConcurrentChecks \* slots of the semaphore of a listing

ASSUME NilAssumption == Nil \notin {"confirmed", "not_found", "unlisted"}
ASSUME ConcurrencyAssumption == MaxConcurrentChecks \in Nat \ {0}

VARIABLES
    onLedger,   \* transactions the network has applied
    row,        \* row[t]: status, and whether it is recent or the row old
    list,       \* list[l]: a listing with the rows it read and its goroutines
    check       \* check[c]: a check of one transaction

vars == <<onLedger, row, list, check>>

-----------------------------------------------------------------------------

SubmissionStatus == {"confirmed", "not_found"}

\* recent: checked less than five minutes ago; old: created a day ago.
Row == [status : SubmissionStatus \cup {Nil}, recent : BOOLEAN, old : BOOLEAN]

\* Of the rows of the page, the status in memory; of the goroutines, where they
\* are; and whether the context has expired.
Task == {"none", "queued", "asking", "writing", "done"}

Listing ==
    [pc : {"idle", "checking"},
     seen : [Txs -> SubmissionStatus \cup {Nil, "unlisted"}],
     task : [Txs -> Task],
     expired : BOOLEAN]

NoListing ==
    [pc |-> "idle", seen |-> [t \in Txs |-> "unlisted"], task |-> [t \in Txs |-> "none"],
     expired |-> FALSE]

NoCheck == [pc |-> "idle"]

Check ==
    {NoCheck}
    \cup [pc : {"asking"}, tx : Txs]
    \cup [pc : {"writing"}, tx : Txs, result : SubmissionStatus]

TypeOK ==
    /\ onLedger \in SUBSET Txs
    /\ row \in [Txs -> Row]
    /\ list \in [Lists -> Listing]
    /\ check \in [Checks -> Check]

Init ==
    /\ onLedger = {}
    /\ row = [t \in Txs |-> [status |-> Nil, recent |-> FALSE, old |-> FALSE]]
    /\ list = [l \in Lists |-> NoListing]
    /\ check = [c \in Checks |-> NoCheck]

-----------------------------------------------------------------------------
\* Faulty variants of the code below, which the properties must notice; none is
\* in Next.

\* UpdateSubmissionStatus with a status the column does not have.
UpdateUnknownStatus(t, status) ==
    row' = [row EXCEPT ![t].status = "pending", ![t].recent = TRUE]

\* CheckTransaction takes every answer without an error for a confirmation.
CheckAlwaysConfirms(t) == "confirmed"

\* CheckTransaction takes every error for a transaction that is not found.
CheckFailedAsNotFound(c) ==
    /\ check[c].pc = "asking"
    /\ check' = [check EXCEPT ![c] =
                    [pc |-> "writing", tx |-> check[c].tx, result |-> "not_found"]]
    /\ UNCHANGED <<onLedger, row, list>>

\* wg.Add counts every row of the page, also those that no goroutine is started for.
RespondCountsEveryRow(l) ==
    /\ list[l].pc = "checking"
    /\ \A t \in Txs : list[l].seen[t] # "unlisted" => list[l].task[t] = "done"
    /\ list' = [list EXCEPT ![l] = NoListing]
    /\ UNCHANGED <<onLedger, row, check>>

-----------------------------------------------------------------------------
\* The store and the checker.

UpdateSubmissionStatus(t, status) ==
    row' = [row EXCEPT ![t].status = status, ![t].recent = TRUE]

\* What Horizon answers at this time.
CheckTransaction(t) == IF t \in onLedger THEN "confirmed" ELSE "not_found"

-----------------------------------------------------------------------------
\* The listing.

NeedsCheck(t) ==
    /\ row[t].status # "confirmed"
    /\ row[t].status = Nil \/ ~row[t].recent
    /\ row[t].status = Nil => ~row[t].old

\* Reads a page of the log, and starts a goroutine for each row to check.
List(l) ==
    /\ list[l].pc = "idle"
    /\ \E page \in SUBSET Txs :
        list' = [list EXCEPT ![l] =
            [pc |-> "checking",
             seen |-> [t \in Txs |-> IF t \in page THEN row[t].status ELSE "unlisted"],
             task |-> [t \in Txs |-> IF t \in page /\ NeedsCheck(t) THEN "queued" ELSE "none"],
             expired |-> FALSE]]
    /\ UNCHANGED <<onLedger, row, check>>

\* The goroutines that hold a slot of the semaphore.
Busy(l) == {t \in Txs : list[l].task[t] \in {"asking", "writing"}}

Move(l, t, pc) == list' = [list EXCEPT ![l].task[t] = pc]

Acquire(l, t) ==
    /\ list[l].task[t] = "queued"
    /\ Cardinality(Busy(l)) < MaxConcurrentChecks
    /\ Move(l, t, "asking")
    /\ UNCHANGED <<onLedger, row, check>>

GiveUp(l, t) ==
    /\ list[l].task[t] = "queued"
    /\ list[l].expired
    /\ Move(l, t, "done")
    /\ UNCHANGED <<onLedger, row, check>>

\* The answer goes to the row in memory before it goes to the table.
Answered(l, t) ==
    /\ list[l].task[t] = "asking"
    /\ list' = [list EXCEPT ![l].task[t] = "writing", ![l].seen[t] = CheckTransaction(t)]
    /\ UNCHANGED <<onLedger, row, check>>

\* Horizon answers with an error, or not in time.
Failed(l, t) ==
    /\ list[l].task[t] = "asking"
    /\ Move(l, t, "done")
    /\ UNCHANGED <<onLedger, row, check>>

Write(l, t) ==
    /\ list[l].task[t] = "writing"
    /\ ~list[l].expired
    /\ UpdateSubmissionStatus(t, list[l].seen[t])
    /\ Move(l, t, "done")
    /\ UNCHANGED <<onLedger, check>>

\* The statement fails, or the context has expired: logged only.
WriteFailed(l, t) ==
    /\ list[l].task[t] = "writing"
    /\ Move(l, t, "done")
    /\ UNCHANGED <<onLedger, row, check>>

\* The context of the batch expires after five seconds, or with the request.
Expire(l) ==
    /\ list[l].pc = "checking"
    /\ ~list[l].expired
    /\ list' = [list EXCEPT ![l].expired = TRUE]
    /\ UNCHANGED <<onLedger, row, check>>

\* wg.Wait has returned, and the rows in memory are the answer.
Respond(l) ==
    /\ list[l].pc = "checking"
    /\ \A t \in Txs : list[l].task[t] \in {"none", "done"}
    /\ list' = [list EXCEPT ![l] = NoListing]
    /\ UNCHANGED <<onLedger, row, check>>

-----------------------------------------------------------------------------
\* The check of one transaction.

CheckOne(c, t) ==
    /\ check[c].pc = "idle"
    /\ check' = [check EXCEPT ![c] = [pc |-> "asking", tx |-> t]]
    /\ UNCHANGED <<onLedger, row, list>>

CheckAnswered(c) ==
    /\ check[c].pc = "asking"
    /\ check' = [check EXCEPT ![c] =
                    [pc |-> "writing", tx |-> check[c].tx,
                     result |-> CheckTransaction(check[c].tx)]]
    /\ UNCHANGED <<onLedger, row, list>>

CheckFailed(c) ==
    /\ check[c].pc = "asking"
    /\ check' = [check EXCEPT ![c] = NoCheck]
    /\ UNCHANGED <<onLedger, row, list>>

CheckWrite(c) ==
    /\ check[c].pc = "writing"
    /\ UpdateSubmissionStatus(check[c].tx, check[c].result)
    /\ check' = [check EXCEPT ![c] = NoCheck]
    /\ UNCHANGED <<onLedger, list>>

\* The result is answered without being stored.
CheckWriteFailed(c) ==
    /\ check[c].pc = "writing"
    /\ check' = [check EXCEPT ![c] = NoCheck]
    /\ UNCHANGED <<onLedger, row, list>>

-----------------------------------------------------------------------------
\* The wallets and the clock.

\* A wallet submits t, and the network applies it.
Apply(t) ==
    /\ t \notin onLedger
    /\ onLedger' = onLedger \cup {t}
    /\ UNCHANGED <<row, list, check>>

FiveMinutesPass(t) ==
    /\ row[t].recent
    /\ row' = [row EXCEPT ![t].recent = FALSE]
    /\ UNCHANGED <<onLedger, list, check>>

ADayPasses(t) ==
    /\ ~row[t].old
    /\ row' = [row EXCEPT ![t].old = TRUE]
    /\ UNCHANGED <<onLedger, list, check>>

-----------------------------------------------------------------------------

Goroutine(l, t) ==
    \/ Acquire(l, t) \/ GiveUp(l, t)
    \/ Answered(l, t) \/ Failed(l, t)
    \/ Write(l, t) \/ WriteFailed(l, t)

CheckStep(c) ==
    CheckAnswered(c) \/ CheckFailed(c) \/ CheckWrite(c) \/ CheckWriteFailed(c)

Next ==
    \/ \E l \in Lists : List(l) \/ Expire(l) \/ Respond(l)
    \/ \E l \in Lists, t \in Txs : Goroutine(l, t)
    \/ \E c \in Checks, t \in Txs : CheckOne(c, t)
    \/ \E c \in Checks : CheckStep(c)
    \/ \E t \in Txs : Apply(t) \/ FiveMinutesPass(t) \/ ADayPasses(t)

Spec == Init /\ [][Next]_vars

\* The scheduler runs every goroutine, the Horizon client and the database answer
\* or time out, and so does the context of a batch.
Fairness ==
    \A l \in Lists :
        /\ WF_vars(Expire(l))
        /\ WF_vars(Respond(l))
        /\ \A t \in Txs : WF_vars(Goroutine(l, t))

FairSpec == Spec /\ Fairness

-----------------------------------------------------------------------------
\* Properties.

\* No row and no listing says confirmed of a transaction that the network has not
\* applied, whatever the order in which answers are stored.
ConfirmedIsOnLedger ==
    \A t \in Txs :
        /\ row[t].status = "confirmed" => t \in onLedger
        /\ \A l \in Lists : list[l].seen[t] = "confirmed" => t \in onLedger
        /\ \A c \in Checks :
            check[c].pc = "writing" /\ check[c].tx = t /\ check[c].result = "confirmed"
            => t \in onLedger

\* Every listing is answered: no goroutine waits for a slot for ever, holds one
\* for ever, or ends without being counted.
ListingsAnswer == \A l \in Lists : list[l].pc = "checking" ~> list[l].pc = "idle"

Recorded(t) ==
    \/ \E l \in Lists : Write(l, t)
    \/ \E c \in Checks : check[c].pc = "writing" /\ check[c].tx = t /\ CheckWrite(c)

\* If answers go on being stored for a transaction the network has applied, its
\* row ends up confirmed and stays so: answers that were old when they were stored
\* are used up.
ConfirmationSettles ==
    \A t \in Txs :
        <>(t \in onLedger) /\ []<><<Recorded(t)>>_vars => <>[](row[t].status = "confirmed")

=============================================================================
