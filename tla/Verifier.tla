------------------------------ MODULE Verifier ------------------------------
(***************************************************************************)
(* Verifier.Verify (stellar/verifier.go): the rules a transaction must     *)
(* keep before the service signs it with the sponsor's key.                *)
(*                                                                         *)
(* Verify reads the operations once, from first to last, and stops at the  *)
(* first that breaks a rule.  Here each operation read is a step, and the  *)
(* transaction is made up as it is read: every transaction of at most      *)
(* MaxOps operations is a behaviour.  Beside Verify's own variables, the   *)
(* model keeps what the Stellar network would make of the operations read  *)
(* so far, because Verify predicts it: whom the sponsor sponsors, and how  *)
(* many base reserves it pays.                                             *)
(*                                                                         *)
(* Abstracted: assets, amounts, prices and the encoding.  Of an operation  *)
(* remain its type, its source and what decides its verdict or its cost.   *)
(***************************************************************************)
EXTENDS Naturals, Sequences, FiniteSetsExt

CONSTANTS
    Accounts,       \* accounts other than the sponsor's
    Sponsor,        \* the sponsor account of the API key
    Nil,            \* an operation without a source of its own
    ApiKeys,        \* the allowed operations and sources a key may have
    Types,          \* operation types that transactions are made of
    MaxClaimants,   \* bound on the claimants of a claimable balance
    MaxOps          \* bound on the operations of a transaction

Address == Accounts \cup {Sponsor}

ASSUME AddressAssumption == Sponsor \notin Accounts /\ Nil \notin Address
ASSUME BoundsAssumption == MaxClaimants \in Nat \ {0} /\ MaxOps \in Nat

Begin == "BEGIN_SPONSORING_FUTURE_RESERVES"
End == "END_SPONSORING_FUTURE_RESERVES"

\* Types that create one entry with one reserve, or change or delete one.
EntryTypes == {"MANAGE_SELL_OFFER", "MANAGE_BUY_OFFER", "SET_OPTIONS", "MANAGE_DATA"}

SupportedOperations ==
    EntryTypes \cup {"CREATE_ACCOUNT", "CHANGE_TRUST", "CREATE_CLAIMABLE_BALANCE"}

\* Types whose asset may be native, and types that always move native XLM.
PaymentTypes ==
    {"PAYMENT", "PATH_PAYMENT_STRICT_SEND", "PATH_PAYMENT_STRICT_RECEIVE", "CLAWBACK"}
MergeTypes == {"ACCOUNT_MERGE", "INFLATION"}

\* Stands for every other type: BUMP_SEQUENCE, SET_TRUST_LINE_FLAGS...
OtherTypes == {"BUMP_SEQUENCE"}

\* What CHANGE_TRUST does: a limit of zero removes the trustline, and the line is of
\* an asset or of the shares of a liquidity pool.
Trustlines == {"removed", "asset", "pool"}

\* A source of Nil is the transaction's.  adds: the offer is new, a signer or a value
\* (not an empty one) is given.
Operation ==
    LET Source == Address \cup {Nil}
    IN  {op \in
            [type : {Begin}, source : Source, sponsoredID : Address] \cup
            [type : {End} \cup MergeTypes \cup OtherTypes, source : Source] \cup
            [type : PaymentTypes, source : Source, native : BOOLEAN] \cup
            [type : {"CREATE_ACCOUNT"}, source : Source, destination : Address] \cup
            [type : EntryTypes, source : Source, adds : BOOLEAN] \cup
            [type : {"CHANGE_TRUST"}, source : Source, trustline : Trustlines] \cup
            [type : {"CREATE_CLAIMABLE_BALANCE"}, source : Source,
             claimants : 1..MaxClaimants]
         : op.type \in Types}

VARIABLES
    apiKey,     \* the key's allowed operations and source accounts
    txSource,   \* source account of the transaction
    ops,        \* the operations read
    stack,      \* sponsoredAccountStack: who is sponsored by the open blocks
    reserves,   \* reservesLocked
    verdict,    \* "start", "reading", "valid", or the code of the rejection
    ledger      \* what the network makes of the operations read

vars == <<apiKey, txSource, ops, stack, reserves, verdict, ledger>>

Rejections ==
    {"invalid_transaction", "sponsor_as_source", "invalid_sponsor",
     "xlm_transfer_detected", "disallowed_operation"}

\* ok: no operation has failed; sponsored: the accounts that the sponsor sponsors
\* at this point; charged: the base reserves it pays for at most.
Ledger == [ok : BOOLEAN, sponsored : SUBSET Address, charged : Nat]

TypeOK ==
    /\ apiKey \in ApiKeys
    /\ txSource \in Address
    /\ ops \in Seq(Operation)
    /\ stack \in Seq(Address)
    /\ reserves \in Nat
    /\ verdict \in {"start", "reading", "valid"} \cup Rejections
    /\ ledger \in Ledger

Init ==
    /\ apiKey \in ApiKeys
    /\ txSource \in Address
    /\ ops = <<>>
    /\ stack = <<>>
    /\ reserves = 0
    /\ verdict = "start"
    /\ ledger = [ok |-> TRUE, sponsored |-> {}, charged |-> 0]

-----------------------------------------------------------------------------

\* getOperationSource
Source(op) == IF op.source = Nil THEN txSource ELSE op.source

isXLMTransfer(op) ==
    \/ op.type \in MergeTypes
    \/ op.type \in PaymentTypes /\ op.native

\* Faulty variant, not used: the reserves of docs/prd.md, where an account has one
\* base reserve.
reservesOfPrd(op) ==
    CASE op.type \in {"CREATE_ACCOUNT", "CHANGE_TRUST", "CREATE_CLAIMABLE_BALANCE"} -> 1
      [] op.type \in EntryTypes -> IF op.adds THEN 1 ELSE 0
      [] OTHER -> 0

\* A limit is compared with "0", and a decoded one has seven decimals: the removal of
\* a trustline counts as well.
reservesForOperation(op) ==
    CASE op.type = "CREATE_ACCOUNT" -> 2
      [] op.type \in EntryTypes -> IF op.adds THEN 1 ELSE 0
      [] op.type \in {"CHANGE_TRUST", "CREATE_CLAIMABLE_BALANCE"} -> 1
      [] OTHER -> 0

\* The API key allows a as a source account; an empty list allows all.
AllowedSource(a) == apiKey.sources = {} \/ a \in apiKey.sources

\* Faulty variant, not used: the innermost block is taken for the outermost.
TopIsBottom == stack[1]

Top == stack[Len(stack)]

-----------------------------------------------------------------------------
\* The Stellar network: CAP-33 sponsorship.

\* The sponsor begins to sponsor a, who must not be sponsored yet.
LedgerBegin(a) ==
    [ledger EXCEPT !.ok = @ /\ a \notin ledger.sponsored \cup {Sponsor},
                   !.sponsored = @ \cup {a}]

\* Source a puts an end to its being sponsored.
LedgerEnd(a) ==
    [ledger EXCEPT !.ok = @ /\ a \in ledger.sponsored,
                   !.sponsored = @ \ {a}]

\* An account's reserve is its own; that of any other entry is the source's.
Owner(op) == IF op.type = "CREATE_ACCOUNT" THEN op.destination ELSE Source(op)

TrustlineReserves == [removed |-> 0, asset |-> 1, pool |-> 2]

\* Base reserves of what op creates: a claimable balance has one for each claimant,
\* a trustline one for each of its assets (CAP-38).
EntryReserves(op) ==
    CASE op.type = "CREATE_ACCOUNT" -> 2
      [] op.type \in EntryTypes -> IF op.adds THEN 1 ELSE 0
      [] op.type = "CHANGE_TRUST" -> TrustlineReserves[op.trustline]
      [] op.type = "CREATE_CLAIMABLE_BALANCE" -> op.claimants
      [] OTHER -> 0

LedgerCharge(op) ==
    IF Owner(op) \in ledger.sponsored
       THEN [ledger EXCEPT !.charged = @ + EntryReserves(op)]
       ELSE ledger

-----------------------------------------------------------------------------
\* Faulty variant of Reject, not in Next: a rejection that leaves the error code out.
RejectWithoutCode(code) ==
    /\ verdict' = ""
    /\ UNCHANGED <<stack, reserves, ledger>>

-----------------------------------------------------------------------------
\* Steps 1 to 3 of Verify.

Start(v) ==
    /\ verdict = "start"
    /\ verdict' = v
    /\ UNCHANGED <<apiKey, txSource, ops, stack, reserves, ledger>>

\* No transaction, or a fee bump.
Undecodable == Start("invalid_transaction")

SponsorIsTxSource ==
    /\ txSource = Sponsor
    /\ Start("sponsor_as_source")

TxSourceAccepted ==
    /\ txSource # Sponsor
    /\ Start("reading")

-----------------------------------------------------------------------------
\* Step 4, one iteration of the loop.  The checks are made in the order of these
\* predicates, each of which includes those before it.

MoreToRead == verdict = "reading" /\ Len(ops) < MaxOps

Read(op) ==
    /\ MoreToRead
    /\ ops' = Append(ops, op)
    /\ UNCHANGED <<apiKey, txSource>>

Reject(code) ==
    /\ verdict' = code
    /\ UNCHANGED <<stack, reserves, ledger>>

SourceOK(op) == Source(op) # Sponsor \/ op.type = Begin

Unstructural(op) == SourceOK(op) /\ op.type \notin {Begin, End}

NoTransfer(op) == Unstructural(op) /\ ~isXLMTransfer(op)

AllowedOp(op) ==
    /\ NoTransfer(op)
    /\ op.type \in SupportedOperations
    /\ op.type \in apiKey.ops

InBlock(op) == AllowedOp(op) /\ stack # <<>>

SponsoredSource(op) == InBlock(op) /\ Source(op) = Top

Countable(op) == SponsoredSource(op) /\ AllowedSource(Source(op))

\* 4a
SponsorIsOpSource(op) ==
    /\ Read(op)
    /\ ~SourceOK(op)
    /\ Reject("sponsor_as_source")

\* 4b
ForeignBegin(op) ==
    /\ Read(op)
    /\ op.type = Begin /\ Source(op) # Sponsor
    /\ Reject("invalid_sponsor")

BeginBlock(op) ==
    /\ Read(op)
    /\ op.type = Begin /\ Source(op) = Sponsor
    /\ stack' = Append(stack, op.sponsoredID)
    /\ ledger' = LedgerBegin(op.sponsoredID)
    /\ UNCHANGED <<reserves, verdict>>

UnmatchedEnd(op) ==
    /\ Read(op)
    /\ op.type = End /\ SourceOK(op) /\ stack = <<>>
    /\ Reject("invalid_transaction")

\* Faulty variant of EndBlock, not in Next: the oldest block is closed.
EndOldestBlock(op) ==
    /\ Read(op)
    /\ op.type = End /\ SourceOK(op) /\ stack # <<>>
    /\ stack' = Tail(stack)
    /\ ledger' = LedgerEnd(Source(op))
    /\ UNCHANGED <<reserves, verdict>>

\* Whoever its source is: END closes the innermost block.
EndBlock(op) ==
    /\ Read(op)
    /\ op.type = End /\ SourceOK(op) /\ stack # <<>>
    /\ stack' = SubSeq(stack, 1, Len(stack) - 1)
    /\ ledger' = LedgerEnd(Source(op))
    /\ UNCHANGED <<reserves, verdict>>

\* 4c
XLMTransfer(op) ==
    /\ Read(op)
    /\ Unstructural(op) /\ ~NoTransfer(op)
    /\ Reject("xlm_transfer_detected")

\* 4d
DisallowedOp(op) ==
    /\ Read(op)
    /\ NoTransfer(op) /\ ~AllowedOp(op)
    /\ Reject("disallowed_operation")

\* 4e
OutsideBlock(op) ==
    /\ Read(op)
    /\ AllowedOp(op) /\ ~InBlock(op)
    /\ Reject("invalid_transaction")

ForeignSource(op) ==
    /\ Read(op)
    /\ InBlock(op) /\ ~SponsoredSource(op)
    /\ Reject("invalid_transaction")

\* 4f
DisallowedSource(op) ==
    /\ Read(op)
    /\ SponsoredSource(op) /\ ~Countable(op)
    /\ Reject("disallowed_operation")

Count(op) ==
    /\ Read(op)
    /\ Countable(op)
    /\ reserves' = reserves + reservesForOperation(op)
    /\ ledger' = LedgerCharge(op)
    /\ UNCHANGED <<stack, verdict>>

-----------------------------------------------------------------------------
\* After the last operation.

Finish(v) ==
    /\ verdict = "reading"
    /\ verdict' = v
    /\ UNCHANGED <<apiKey, txSource, ops, stack, reserves, ledger>>

NoOperations ==
    /\ ops = <<>>
    /\ Finish("invalid_transaction")

UnclosedBlock ==
    /\ stack # <<>>
    /\ Finish("invalid_transaction")

DisallowedTxSource ==
    /\ ops # <<>> /\ stack = <<>>
    /\ ~AllowedSource(txSource)
    /\ Finish("disallowed_operation")

Accept ==
    /\ ops # <<>> /\ stack = <<>>
    /\ AllowedSource(txSource)
    /\ Finish("valid")

Structural(op) ==
    ForeignBegin(op) \/ BeginBlock(op) \/ UnmatchedEnd(op) \/ EndBlock(op)

Iteration(op) ==
    \/ SponsorIsOpSource(op)
    \/ Structural(op)
    \/ XLMTransfer(op) \/ DisallowedOp(op)
    \/ OutsideBlock(op) \/ ForeignSource(op) \/ DisallowedSource(op)
    \/ Count(op)

Next ==
    \/ Undecodable \/ SponsorIsTxSource \/ TxSourceAccepted
    \/ MoreToRead /\ \E op \in Operation : Iteration(op)
    \/ NoOperations \/ UnclosedBlock \/ DisallowedTxSource \/ Accept

Spec == Init /\ [][Next]_vars

-----------------------------------------------------------------------------
\* Properties.

InForce == verdict \in {"reading", "valid"}

\* What a transaction must be, said of the whole list and with no stack: the BEGIN
\* that encloses position i is the last one that no END before i closes.
Depth(i) ==
    Cardinality({j \in 1..i : ops[j].type = Begin}) -
    Cardinality({j \in 1..i : ops[j].type = End})

Enclosing(i) ==
    {j \in 1..(i - 1) :
        /\ ops[j].type = Begin
        /\ \A m \in j..(i - 1) : Depth(m) >= Depth(j)}

Sponsorable(i) ==
    /\ ~isXLMTransfer(ops[i])
    /\ ops[i].type \in apiKey.ops \cap SupportedOperations
    /\ AllowedSource(Source(ops[i]))
    /\ Enclosing(i) # {}
    /\ ops[Max(Enclosing(i))].sponsoredID = Source(ops[i])

KeepsRules(i) ==
    CASE ops[i].type = Begin -> Source(ops[i]) = Sponsor
      [] ops[i].type = End -> Enclosing(i) # {} /\ Source(ops[i]) # Sponsor
      [] OTHER -> Source(ops[i]) # Sponsor /\ Sponsorable(i)

WholeTransactionOK ==
    /\ ops # <<>>
    /\ Depth(Len(ops)) = 0
    /\ AllowedSource(txSource)

\* Verify goes on after an operation exactly if it keeps the rules, and accepts at
\* the end exactly a transaction that is whole: its one pass with a stack decides
\* what the rules say of the list.
VerdictFollowsTheRules ==
    [][IF ops' # ops
          THEN verdict' = "reading" <=> KeepsRules(Len(ops))'
          ELSE verdict = "reading" => (verdict' = "valid" <=> WholeTransactionOK)]_vars

\* Every END is sent by the account its block sponsors, as in the transactions
\* that the integration guide describes.  The network accepts some others, too: after
\* BEGIN for a, BEGIN for b and an END by a, Verify has a's block open, and it has b's.
EndsByTheSponsored ==
    \A i \in 1..Len(ops) : ops[i].type = End /\ Enclosing(i) # {} =>
        ops[Max(Enclosing(i))].sponsoredID = Source(ops[i])

\* While no operation fails on the network, it has as many sponsorships in force as
\* blocks are on Verify's stack, whoever sends the ENDs: a transaction that Verify
\* accepts leaves none open, for which the network would refuse it.  They are those of
\* the same accounts, if the sponsored send the ENDs: then the sponsor pays for what
\* Verify accepts inside a block.
StackIsTheLedgers ==
    InForce /\ ledger.ok =>
        /\ Cardinality(ledger.sponsored) = Len(stack)
        /\ EndsByTheSponsored => ledger.sponsored = {stack[i] : i \in 1..Len(stack)}

\* What Verify leaves out of its count: every reserve but the first of a trustline and
\* of a claimable balance.
Uncounted ==
    UNION {{i} \X (2..EntryReserves(ops[i])) :
        i \in {j \in 1..Len(ops) :
                  ops[j].type \in {"CHANGE_TRUST", "CREATE_CLAIMABLE_BALANCE"}}}

\* SigningService.Sign compares the sponsor's balance with reserves before it signs:
\* what the network charges the sponsor, whatever the blocks and whoever sends their
\* ENDs, exceeds it by no more than that.  It is covered in full if trustlines are of
\* assets and claimable balances have one claimant.
ReservesCoverLedger == ledger.charged <= reserves + Cardinality(Uncounted)

=============================================================================
