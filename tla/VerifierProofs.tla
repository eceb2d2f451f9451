--------------------------- MODULE VerifierProofs ---------------------------
(***************************************************************************)
(* Proofs about Verifier, for transactions of any length, any accounts and *)
(* any API keys: the types, the reserves that Verify counts and what the   *)
(* network charges, the verdict and the rules, and the stack and the       *)
(* sponsorships of the network.                                            *)
(*                                                                         *)
(* The rules speak of the list of operations and Verify keeps a stack.     *)
(* What ties them is Nested: the k-th account on the stack is the one of a *)
(* BEGIN at depth k below which the list has not fallen since.             *)
(***************************************************************************)
EXTENDS Verifier, FiniteSetTheorems, WellFoundedInduction, TLAPS

\* The parts of TypeOK that the loop changes.
LEMMA OperationShape ==
    ASSUME NEW op \in Operation
    PROVE  /\ op.type = Begin => op.sponsoredID \in Address
           /\ op.type = "CREATE_CLAIMABLE_BALANCE" => op.claimants \in 1..MaxClaimants
           /\ op.type = "CHANGE_TRUST" => op.trustline \in Trustlines
BY DEF Operation, Begin, End, EntryTypes, MergeTypes, OtherTypes, PaymentTypes

LEMMA ReservesAreNatural ==
    ASSUME NEW op \in Operation
    PROVE  reservesForOperation(op) \in Nat /\ EntryReserves(op) \in Nat
<1>1. CASE op.type = "CREATE_ACCOUNT"
  BY <1>1 DEF reservesForOperation, EntryReserves, EntryTypes
<1>2. CASE op.type \in EntryTypes
  BY <1>2 DEF reservesForOperation, EntryReserves, EntryTypes
<1>3. CASE op.type = "CHANGE_TRUST"
  BY <1>3, OperationShape
  DEF reservesForOperation, EntryReserves, EntryTypes, Trustlines, TrustlineReserves
<1>4. CASE op.type = "CREATE_CLAIMABLE_BALANCE"
  BY <1>4, OperationShape, BoundsAssumption
  DEF reservesForOperation, EntryReserves, EntryTypes
<1>5. CASE op.type \notin EntryTypes \cup
                  {"CREATE_ACCOUNT", "CHANGE_TRUST", "CREATE_CLAIMABLE_BALANCE"}
  BY <1>5 DEF reservesForOperation, EntryReserves
<1> QED BY <1>1, <1>2, <1>3, <1>4, <1>5

\* The types that Verify counts one reserve for and that may have more.
Several == {"CHANGE_TRUST", "CREATE_CLAIMABLE_BALANCE"}

\* The network asks no more than Verify counts, or of a trustline and of a claimable
\* balance what comes after the first reserve.
LEMMA CountCoversEntry ==
    ASSUME NEW op \in Operation
    PROVE  /\ op.type \in Several => reservesForOperation(op) = 1
           /\ op.type \notin Several => EntryReserves(op) <= reservesForOperation(op)
<1>1. CASE op.type \in Several
  BY <1>1 DEF Several, reservesForOperation, EntryTypes
<1>2. CASE op.type = "CREATE_ACCOUNT"
  BY <1>2 DEF Several, reservesForOperation, EntryReserves, EntryTypes
<1>3. CASE op.type \in EntryTypes
  BY <1>3 DEF Several, reservesForOperation, EntryReserves, EntryTypes
<1>4. CASE op.type \notin EntryTypes \cup Several \cup {"CREATE_ACCOUNT"}
  BY <1>4 DEF Several, reservesForOperation, EntryReserves
<1> QED BY <1>1, <1>2, <1>3, <1>4

-----------------------------------------------------------------------------
\* Type correctness.

LEMMA InitTypeOK == Init => TypeOK
BY DEF Init, TypeOK, Ledger

\* Reading an operation, whatever becomes of it.
LEMMA ReadType ==
    ASSUME TypeOK, NEW op \in Operation, Read(op)
    PROVE  /\ ops' \in Seq(Operation)
           /\ Len(ops') = Len(ops) + 1
           /\ \A i \in 1..Len(ops) : ops'[i] = ops[i]
           /\ ops'[Len(ops')] = op
           /\ apiKey' \in ApiKeys
           /\ txSource' \in Address
BY DEF TypeOK, Read

\* What an iteration of the loop does to Verify's counts and to the ledger.
LEMMA IterationCases ==
    ASSUME TypeOK, NEW op \in Operation, Iteration(op)
    PROVE  /\ Read(op)
           /\ \/ verdict' \in Rejections /\ UNCHANGED <<stack, reserves, ledger>>
              \/ BeginBlock(op) \/ EndBlock(op) \/ Count(op)
<1>1. CASE SponsorIsOpSource(op) \/ XLMTransfer(op) \/ DisallowedOp(op) \/ OutsideBlock(op)
           \/ ForeignSource(op) \/ DisallowedSource(op) \/ ForeignBegin(op) \/ UnmatchedEnd(op)
  BY <1>1 DEF SponsorIsOpSource, XLMTransfer, DisallowedOp, OutsideBlock, ForeignSource,
              DisallowedSource, ForeignBegin, UnmatchedEnd, Reject, Rejections
<1>2. CASE BeginBlock(op) \/ EndBlock(op) \/ Count(op)
  BY <1>2 DEF BeginBlock, EndBlock, Count
<1> QED BY <1>1, <1>2 DEF Iteration, Structural

\* The ledger's operations keep its type.
LEMMA LedgerTypes ==
    ASSUME TypeOK, NEW op \in Operation, NEW a \in Address
    PROVE  /\ LedgerBegin(a) \in Ledger
           /\ LedgerBegin(a).charged = ledger.charged
           /\ LedgerEnd(a) \in Ledger
           /\ LedgerEnd(a).charged = ledger.charged
           /\ LedgerCharge(op) \in Ledger
           /\ LedgerCharge(op).charged \in
                  {ledger.charged, ledger.charged + EntryReserves(op)}
<1>1. /\ ledger \in Ledger
      /\ ledger.charged \in Nat
      /\ ledger.sponsored \in SUBSET Address
      /\ ledger.ok \in BOOLEAN
  BY DEF TypeOK, Ledger
<1>2. /\ LedgerBegin(a) \in Ledger
      /\ LedgerBegin(a).charged = ledger.charged
  BY <1>1 DEF LedgerBegin, Ledger
<1>3. /\ LedgerEnd(a) \in Ledger
      /\ LedgerEnd(a).charged = ledger.charged
  BY <1>1 DEF LedgerEnd, Ledger
<1>4. EntryReserves(op) \in Nat
  BY ReservesAreNatural
<1>5. CASE Owner(op) \in ledger.sponsored
  <2>1. LedgerCharge(op) = [ledger EXCEPT !.charged = ledger.charged + EntryReserves(op)]
    BY <1>5 DEF LedgerCharge
  <2> QED BY <1>1, <1>2, <1>3, <1>4, <2>1 DEF Ledger
<1>6. CASE Owner(op) \notin ledger.sponsored
  <2>1. LedgerCharge(op) = ledger
    BY <1>6 DEF LedgerCharge
  <2> QED BY <1>1, <1>2, <1>3, <2>1
<1> QED BY <1>5, <1>6

LEMMA SourceType ==
    ASSUME TypeOK, NEW op \in Operation
    PROVE  Source(op) \in Address
<1>1. op.source \in Address \cup {Nil}
  BY DEF Operation
<1> QED BY <1>1 DEF Source, TypeOK

LEMMA IterationTypeOK ==
    ASSUME TypeOK, NEW op \in Operation, Iteration(op)
    PROVE  TypeOK'
<1>1. /\ ops' \in Seq(Operation)
      /\ apiKey' \in ApiKeys
      /\ txSource' \in Address
  BY IterationCases, ReadType
<1>2. CASE verdict' \in Rejections /\ UNCHANGED <<stack, reserves, ledger>>
  BY <1>1, <1>2 DEF TypeOK
<1>3. CASE BeginBlock(op)
  <2>1. op.sponsoredID \in Address
    BY <1>3, OperationShape DEF BeginBlock
  <2>2. stack' \in Seq(Address)
    BY <1>3, <2>1 DEF BeginBlock, TypeOK
  <2>3. ledger' \in Ledger
    BY <1>3, <2>1, LedgerTypes DEF BeginBlock
  <2> QED BY <1>1, <1>3, <2>2, <2>3 DEF BeginBlock, TypeOK
<1>4. CASE EndBlock(op)
  <2>1. stack' \in Seq(Address)
    <3>1. stack \in Seq(Address) /\ stack # <<>>
      BY <1>4 DEF EndBlock, TypeOK
    <3>2. SubSeq(stack, 1, Len(stack) - 1) \in Seq(Address)
      BY <3>1
    <3> QED BY <1>4, <3>2 DEF EndBlock
  <2>2. ledger' \in Ledger
    BY <1>4, SourceType, LedgerTypes DEF EndBlock
  <2> QED BY <1>1, <1>4, <2>1, <2>2 DEF EndBlock, TypeOK
<1>5. CASE Count(op)
  <2>1. reserves' \in Nat
    BY <1>5, ReservesAreNatural DEF Count, TypeOK
  <2>2. ledger' \in Ledger
    <3>1. txSource \in Address
      BY DEF TypeOK
    <3>2. LedgerCharge(op) \in Ledger
      BY <3>1, LedgerTypes
    <3> QED BY <1>5, <3>2 DEF Count
  <2> QED BY <1>1, <1>5, <2>1, <2>2 DEF Count, TypeOK
<1> QED BY <1>2, <1>3, <1>4, <1>5, IterationCases

\* The steps before and after the loop.
Outer ==
    \/ Undecodable \/ SponsorIsTxSource \/ TxSourceAccepted
    \/ NoOperations \/ UnclosedBlock \/ DisallowedTxSource \/ Accept

LEMMA OuterChangesVerdict ==
    ASSUME Outer
    PROVE  /\ verdict' \in {"reading", "valid"} \cup Rejections
           /\ UNCHANGED <<apiKey, txSource, ops, stack, reserves, ledger>>
BY DEF Outer, Undecodable, SponsorIsTxSource, TxSourceAccepted, NoOperations, UnclosedBlock,
       DisallowedTxSource, Accept, Start, Finish, Rejections

LEMMA NextTypeOK == TypeOK /\ [Next]_vars => TypeOK'
<1> SUFFICES ASSUME TypeOK, [Next]_vars PROVE TypeOK'
  OBVIOUS
<1>1. CASE Outer
  BY <1>1, OuterChangesVerdict DEF TypeOK
<1>2. ASSUME NEW op \in Operation, Iteration(op) PROVE TypeOK'
  BY <1>2, IterationTypeOK
<1>3. CASE UNCHANGED vars
  BY <1>3 DEF TypeOK, vars
<1> QED BY <1>1, <1>2, <1>3 DEF Next, Outer

\* Verify's counts, its stack and its verdict have their types in every state.
THEOREM TypeCorrect == Spec => []TypeOK
BY InitTypeOK, NextTypeOK, PTL DEF Spec

-----------------------------------------------------------------------------
\* The reserves.

\* Uncounted of a list s.
UncountedOf(s) ==
    UNION {{i} \X (2..EntryReserves(s[i])) : i \in {j \in 1..Len(s) : s[j].type \in Several}}

\* The bound, with what makes it inductive: what is not counted is a number.
ReservesBound ==
    /\ IsFiniteSet(UncountedOf(ops))
    /\ ledger.charged <= reserves + Cardinality(UncountedOf(ops))

\* What reading one more operation adds to what is not counted.
LEMMA OneMoreUncounted ==
    ASSUME NEW op \in Operation, NEW s, NEW t, Len(s) \in Nat,
           Len(t) = Len(s) + 1, \A i \in 1..Len(s) : t[i] = s[i], t[Len(t)] = op,
           IsFiniteSet(UncountedOf(s))
    PROVE  /\ IsFiniteSet(UncountedOf(t))
           /\ Cardinality(UncountedOf(s)) \in Nat
           /\ Cardinality(UncountedOf(t)) \in Nat
           /\ Cardinality(UncountedOf(t)) >= Cardinality(UncountedOf(s))
           /\ op.type \in Several =>
                  EntryReserves(op) + Cardinality(UncountedOf(s)) <=
                      1 + Cardinality(UncountedOf(t))
<1> DEFINE n == Len(t)
           e == EntryReserves(op)
           new == {n} \X (2..e)
<1>1. n \in Nat /\ n = Len(s) + 1 /\ e \in Nat
  BY ReservesAreNatural
<1>2. /\ 1..n = 1..Len(s) \cup {n}
      /\ n \notin 1..Len(s)
  BY <1>1
<1>3. /\ Cardinality(UncountedOf(s)) \in Nat
      /\ \A p \in UncountedOf(s) : p \notin new
  <2>1. ASSUME NEW p \in UncountedOf(s), p \in new
        PROVE  FALSE
    <3>1. PICK i \in 1..Len(s) : p \in {i} \X (2..EntryReserves(s[i]))
      BY <2>1 DEF UncountedOf
    <3>2. p[1] = i /\ p[1] = n
      BY <2>1, <3>1
    <3> QED BY <1>2, <3>1, <3>2
  <2> QED BY <2>1, FS_CardinalityType
<1>4. CASE op.type \notin Several
  <2>1. UncountedOf(t) = UncountedOf(s)
    <3>1. {j \in 1..n : t[j].type \in Several} = {j \in 1..Len(s) : s[j].type \in Several}
      BY <1>2, <1>4
    <3> QED BY <3>1 DEF UncountedOf
  <2> QED BY <1>3, <1>4, <2>1
<1>5. CASE op.type \in Several
  <2>1. UncountedOf(t) = UncountedOf(s) \cup new
    <3> DEFINE I == {j \in 1..Len(s) : s[j].type \in Several}
               F(i) == {i} \X (2..EntryReserves(t[i]))
    <3>1. {j \in 1..n : t[j].type \in Several} = I \cup {n}
      BY <1>2, <1>5
    <3>2. UncountedOf(t) = UNION {F(i) : i \in I \cup {n}}
      BY <3>1 DEF UncountedOf
    <3>3. F(n) = new
      OBVIOUS
    <3>4. UncountedOf(s) = UNION {F(i) : i \in I}
      BY DEF UncountedOf
    <3> HIDE DEF F, I, new
    <3> QED BY <3>2, <3>3, <3>4
  <2>2. /\ IsFiniteSet(new)
        /\ Cardinality(new) \in Nat
        /\ e <= 1 + Cardinality(new)
    <3>1. /\ IsFiniteSet({n}) /\ Cardinality({n}) = 1
      BY FS_Singleton
    <3>2. /\ IsFiniteSet(2..e)
          /\ Cardinality(2..e) = IF 2 > e THEN 0 ELSE e - 2 + 1
      <4>1. 2 \in Int /\ e \in Int
        BY <1>1
      <4> HIDE DEF e
      <4> QED BY <4>1, FS_Interval
    <3>3. /\ IsFiniteSet(new)
          /\ Cardinality(new) = Cardinality({n}) * Cardinality(2..e)
      BY <3>1, <3>2, FS_Product
    <3>4. Cardinality(new) = IF 2 > e THEN 0 ELSE e - 2 + 1
      <4>1. (IF 2 > e THEN 0 ELSE e - 2 + 1) \in Nat
        BY <1>1
      <4> QED BY <3>1, <3>2, <3>3, <4>1
    <3> HIDE DEF new, e
    <3> QED BY <1>1, <3>3, <3>4
  <2>3. UncountedOf(s) \cap new = {}
    BY <1>3
  <2> HIDE DEF new, e
  <2>4. /\ IsFiniteSet(UncountedOf(s) \cup new)
        /\ Cardinality(UncountedOf(s) \cup new) =
               Cardinality(UncountedOf(s)) + Cardinality(new) - Cardinality({})
    BY <2>2, <2>3, FS_Union
  <2>5. Cardinality({}) = 0
    BY FS_EmptySet
  <2>6. Cardinality(UncountedOf(t)) = Cardinality(UncountedOf(s)) + Cardinality(new)
    BY <1>3, <2>1, <2>2, <2>4, <2>5
  <2> QED BY <1>1, <1>3, <2>1, <2>2, <2>4, <2>6 DEF e
<1> QED BY <1>4, <1>5

LEMMA InitReserves == Init => ReservesBound
<1> SUFFICES ASSUME Init PROVE ReservesBound
  OBVIOUS
<1>1. ops = <<>> /\ ledger.charged = 0 /\ reserves = 0
  BY DEF Init
<1>2. UncountedOf(ops) = {}
  <2>1. {j \in 1..Len(ops) : ops[j].type \in Several} = {}
    BY <1>1
  <2> QED BY <2>1 DEF UncountedOf
<1>3. IsFiniteSet({}) /\ Cardinality({}) = 0
  BY FS_EmptySet
<1>4. IsFiniteSet(UncountedOf(ops)) /\ Cardinality(UncountedOf(ops)) = 0
  BY <1>2, <1>3
<1> QED BY <1>1, <1>4 DEF ReservesBound

LEMMA StepReserves ==
    ASSUME TypeOK, ReservesBound, [Next]_vars
    PROVE  ReservesBound'
<1>0. /\ reserves \in Nat
      /\ ledger.charged \in Nat
      /\ txSource \in Address
  BY DEF TypeOK, Ledger
<1>1. ASSUME UNCHANGED <<ops, reserves>>, ledger'.charged = ledger.charged
      PROVE  ReservesBound'
  BY <1>1 DEF ReservesBound, UncountedOf
<1>2. CASE Outer
  BY <1>1, <1>2, OuterChangesVerdict
<1>3. CASE UNCHANGED vars
  BY <1>1, <1>3 DEF vars
<1>4. ASSUME NEW op \in Operation, Iteration(op)
      PROVE  ReservesBound'
  <2> DEFINE before == Cardinality(UncountedOf(ops))
             after == Cardinality(UncountedOf(ops'))
  <2>1. /\ IsFiniteSet(UncountedOf(ops'))
        /\ before \in Nat /\ after \in Nat
        /\ before <= after
        /\ op.type \in Several => EntryReserves(op) + before <= 1 + after
    <3>1. /\ Len(ops') = Len(ops) + 1
          /\ \A i \in 1..Len(ops) : ops'[i] = ops[i]
          /\ ops'[Len(ops')] = op
          /\ Len(ops) \in Nat
      BY <1>4, IterationCases, ReadType DEF TypeOK
    <3>2. IsFiniteSet(UncountedOf(ops))
      BY DEF ReservesBound
    <3> QED BY <3>1, <3>2, OneMoreUncounted
  <2>2. ledger.charged <= reserves + before
    BY DEF ReservesBound
  <2> SUFFICES ledger'.charged <= reserves' + after
    BY <2>1 DEF ReservesBound, UncountedOf
  <2> HIDE DEF before, after
  <2>3. ASSUME reserves' = reserves, ledger'.charged = ledger.charged
        PROVE  ledger'.charged <= reserves' + after
    BY <1>0, <2>1, <2>2, <2>3
  <2>4. CASE verdict' \in Rejections /\ UNCHANGED <<stack, reserves, ledger>>
    BY <2>3, <2>4
  <2>5. CASE BeginBlock(op)
    <3>1. op.sponsoredID \in Address
      BY <2>5, OperationShape DEF BeginBlock
    <3> QED BY <2>3, <2>5, <3>1, LedgerTypes DEF BeginBlock
  <2>6. CASE EndBlock(op)
    BY <2>3, <2>6, SourceType, LedgerTypes DEF EndBlock
  <2>7. CASE Count(op)
    <3>1. /\ EntryReserves(op) \in Nat
          /\ reservesForOperation(op) \in Nat
          /\ EntryReserves(op) + before <= reservesForOperation(op) + after
      <4>1. EntryReserves(op) \in Nat /\ reservesForOperation(op) \in Nat
        BY ReservesAreNatural
      <4>2. CASE op.type \in Several
        BY <2>1, <4>1, <4>2, CountCoversEntry
      <4>3. CASE op.type \notin Several
        BY <2>1, <4>1, <4>3, CountCoversEntry
      <4> QED BY <4>1, <4>2, <4>3
    <3>2. /\ reserves' = reserves + reservesForOperation(op)
          /\ ledger' = LedgerCharge(op)
      BY <2>7 DEF Count
    <3>3. LedgerCharge(op).charged \in {ledger.charged, ledger.charged + EntryReserves(op)}
      BY <1>0, LedgerTypes
    <3>4. ledger'.charged \in {ledger.charged, ledger.charged + EntryReserves(op)}
      BY <3>2, <3>3
    <3> QED BY <1>0, <2>1, <2>2, <3>1, <3>2, <3>4
  <2> QED BY <1>4, <2>4, <2>5, <2>6, <2>7, IterationCases
<1> QED BY <1>2, <1>3, <1>4 DEF Next, Outer

\* For transactions of any length, whatever the nesting of the blocks and whoever ends
\* them, the network charges the sponsor no more than Verify counts and, of every
\* trustline and claimable balance, what it needs after its first reserve (verifier.go
\* and operations.go): so much the balance check of SigningService.Sign may miss, and
\* nothing else.
THEOREM ReservesCover == Spec => []ReservesCoverLedger
<1>1. TypeOK /\ ReservesBound /\ [Next]_vars => ReservesBound'
  BY StepReserves
<1>2. ReservesBound => ReservesCoverLedger
  BY DEF ReservesBound, ReservesCoverLedger, UncountedOf, Uncounted, Several
<1> QED BY <1>1, <1>2, TypeCorrect, InitReserves, PTL DEF Spec

-----------------------------------------------------------------------------
\* The blocks of a list of operations, and the stack of Verify.

\* Depth and Enclosing of a list s.
DepthOf(s, i) ==
    Cardinality({j \in 1..i : s[j].type = Begin}) -
    Cardinality({j \in 1..i : s[j].type = End})

EnclosingOf(s, i) ==
    {j \in 1..(i - 1) :
        /\ s[j].type = Begin
        /\ \A m \in j..(i - 1) : DepthOf(s, m) >= DepthOf(s, j)}

\* The block that s opens at p is the k-th of those that are open at the end of s.
OpensAt(s, k, p) ==
    /\ p \in 1..Len(s)
    /\ s[p].type = Begin
    /\ DepthOf(s, p) = k
    /\ \A m \in p..Len(s) : DepthOf(s, m) >= k

\* The stack st holds the blocks that are open at the end of s, in their order.
Nested(s, st) ==
    /\ \A i \in 0..Len(s) : DepthOf(s, i) >= 0
    /\ DepthOf(s, Len(s)) = Len(st)
    /\ \A k \in 1..Len(st) : \E p \in 1..Len(s) :
            OpensAt(s, k, p) /\ s[p].sponsoredID = st[k]

NotRejected == verdict \notin Rejections

StackIsNested == NotRejected => Nested(ops, stack)

Distinct(st) == \A i, j \in 1..Len(st) : st[i] = st[j] => i = j

\* The network refuses to sponsor an account twice: no account is on the stack twice.
StackIsSponsored ==
    NotRejected /\ EndsByTheSponsored /\ ledger.ok =>
        /\ ledger.sponsored = {stack[i] : i \in 1..Len(stack)}
        /\ Distinct(stack)

\* As many accounts are sponsored as blocks are open, whoever ends them.
SponsorshipsAreCounted ==
    NotRejected /\ ledger.ok =>
        /\ IsFiniteSet(ledger.sponsored)
        /\ Cardinality(ledger.sponsored) = Len(stack)

LEMMA DepthIsOf == \A i : Depth(i) = DepthOf(ops, i) /\ Enclosing(i) = EnclosingOf(ops, i)
BY DEF Depth, DepthOf, Enclosing, EnclosingOf

LEMMA DepthIsOfNext ==
    /\ \A i : DepthOf(ops, i)' = DepthOf(ops', i)
    /\ \A i : EnclosingOf(ops, i)' = EnclosingOf(ops', i)
BY DEF DepthOf, EnclosingOf

UpTo(s, T, i) == {j \in 1..i : s[j].type = T}

\* One more position, and how many of a type there are.
LEMMA TypeCount ==
    ASSUME NEW s, NEW T, NEW i \in Nat \ {0}
    PROVE  /\ Cardinality(UpTo(s, T, i - 1)) \in Nat
           /\ s[i].type = T =>
                Cardinality(UpTo(s, T, i)) = Cardinality(UpTo(s, T, i - 1)) + 1
           /\ s[i].type # T => Cardinality(UpTo(s, T, i)) = Cardinality(UpTo(s, T, i - 1))
<1> DEFINE before == UpTo(s, T, i - 1)
<1>1. IsFiniteSet(before) /\ i \notin before
  <2>1. IsFiniteSet(1..(i - 1))
    BY FS_Interval
  <2>2. before \subseteq 1..(i - 1)
    BY DEF UpTo
  <2>3. IsFiniteSet(before)
    BY <2>1, <2>2, FS_Subset
  <2>4. i \notin 1..(i - 1)
    OBVIOUS
  <2> QED BY <2>2, <2>3, <2>4
<1>2. 1..i = 1..(i - 1) \cup {i}
  OBVIOUS
<1>3. UpTo(s, T, i) = IF s[i].type = T THEN before \cup {i} ELSE before
  BY <1>2 DEF UpTo
<1>4. Cardinality(before) \in Nat
  BY <1>1, FS_CardinalityType
<1>5. Cardinality(before \cup {i}) = Cardinality(before) + 1
  BY <1>1, FS_AddElement
<1> QED BY <1>3, <1>4, <1>5

\* How an operation changes the depth.
LEMMA DepthNext ==
    ASSUME NEW s, NEW i \in Nat \ {0}
    PROVE  /\ DepthOf(s, i - 1) \in Int
           /\ DepthOf(s, i) \in Int
           /\ s[i].type = Begin => DepthOf(s, i) = DepthOf(s, i - 1) + 1
           /\ s[i].type = End => DepthOf(s, i) = DepthOf(s, i - 1) - 1
           /\ s[i].type \notin {Begin, End} => DepthOf(s, i) = DepthOf(s, i - 1)
<1> DEFINE begins(n) == Cardinality(UpTo(s, Begin, n))
           ends(n) == Cardinality(UpTo(s, End, n))
<1>1. /\ begins(i - 1) \in Nat
      /\ s[i].type = Begin => begins(i) = begins(i - 1) + 1
      /\ s[i].type # Begin => begins(i) = begins(i - 1)
  BY TypeCount
<1>2. /\ ends(i - 1) \in Nat
      /\ s[i].type = End => ends(i) = ends(i - 1) + 1
      /\ s[i].type # End => ends(i) = ends(i - 1)
  BY TypeCount
<1>3. \A n : DepthOf(s, n) = begins(n) - ends(n)
  BY DEF DepthOf, UpTo
<1>4. Begin # End
  BY DEF Begin, End
<1> HIDE DEF begins, ends
<1> QED BY <1>1, <1>2, <1>3, <1>4

LEMMA DepthZero == \A s : DepthOf(s, 0) = 0
<1> SUFFICES ASSUME NEW s PROVE DepthOf(s, 0) = 0
  OBVIOUS
<1>1. \A T : {j \in 1..0 : s[j].type = T} = {}
  OBVIOUS
<1>2. /\ Cardinality({j \in 1..0 : s[j].type = Begin}) = 0
      /\ Cardinality({j \in 1..0 : s[j].type = End}) = 0
  BY <1>1, FS_EmptySet
<1> QED BY <1>2 DEF DepthOf

LEMMA DepthType ==
    ASSUME NEW s, NEW i \in Nat
    PROVE  DepthOf(s, i) \in Int
<1>1. CASE i = 0
  BY <1>1, DepthZero
<1>2. CASE i # 0
  BY <1>2, DepthNext
<1> QED BY <1>1, <1>2

\* What is read later does not change the blocks before it.
LEMMA SamePrefix ==
    ASSUME NEW s, NEW u, NEW n \in Nat, \A j \in 1..n : u[j] = s[j]
    PROVE  /\ \A i \in 0..n : DepthOf(u, i) = DepthOf(s, i)
           /\ \A i \in 1..(n + 1) : EnclosingOf(u, i) = EnclosingOf(s, i)
<1>1. ASSUME NEW i \in 0..n
      PROVE  DepthOf(u, i) = DepthOf(s, i)
  <2>1. \A T : {j \in 1..i : u[j].type = T} = {j \in 1..i : s[j].type = T}
    <3>1. \A j \in 1..i : u[j] = s[j]
      OBVIOUS
    <3> QED BY <3>1
  <2> QED BY <2>1 DEF DepthOf
<1>2. ASSUME NEW i \in 1..(n + 1)
      PROVE  EnclosingOf(u, i) = EnclosingOf(s, i)
  <2>1. \A j \in 1..(i - 1) : u[j] = s[j] /\ DepthOf(u, j) = DepthOf(s, j)
    BY <1>1
  <2>2. \A j \in 1..(i - 1) : \A m \in j..(i - 1) : DepthOf(u, m) = DepthOf(s, m)
    BY <1>1
  <2> QED BY <2>1, <2>2 DEF EnclosingOf
<1> QED BY <1>1, <1>2

\* The innermost open block is the enclosing one, and the top of the stack.
LEMMA TopEncloses ==
    ASSUME NEW s, Len(s) \in Nat, NEW st, Len(st) \in Nat, Nested(s, st)
    PROVE  /\ EnclosingOf(s, Len(s) + 1) # {} <=> Len(st) > 0
           /\ Len(st) > 0 =>
                 /\ Max(EnclosingOf(s, Len(s) + 1)) \in 1..Len(s)
                 /\ s[Max(EnclosingOf(s, Len(s) + 1))].sponsoredID = st[Len(st)]
<1> DEFINE n == Len(s)
           k == Len(st)
           E == EnclosingOf(s, n + 1)
<1>1. /\ \A i \in 0..n : DepthOf(s, i) >= 0
      /\ DepthOf(s, n) = k
      /\ \A i \in 1..k : \E p \in 1..n : OpensAt(s, i, p) /\ s[p].sponsoredID = st[i]
  BY DEF Nested
<1>2. E = {j \in 1..n : s[j].type = Begin /\ \A m \in j..n : DepthOf(s, m) >= DepthOf(s, j)}
  BY DEF EnclosingOf
<1>3. \A i \in 0..n : DepthOf(s, i) \in Int
  BY DepthType
<1> HIDE DEF E
<1>4. ASSUME NEW j \in E
      PROVE  /\ j \in 1..n
             /\ DepthOf(s, j) = DepthOf(s, j - 1) + 1
             /\ DepthOf(s, j) <= k
  <2>1. j \in 1..n /\ s[j].type = Begin /\ n \in j..n
    BY <1>2
  <2>2. DepthOf(s, n) >= DepthOf(s, j)
    BY <1>2, <2>1
  <2>3. DepthOf(s, j) = DepthOf(s, j - 1) + 1
    BY <2>1, DepthNext
  <2> QED BY <1>1, <1>3, <2>1, <2>2, <2>3
<1>5. CASE k = 0
  <2>1. ASSUME NEW j \in E PROVE FALSE
    <3>1. /\ j \in 1..n /\ j - 1 \in 0..n
          /\ DepthOf(s, j) = DepthOf(s, j - 1) + 1
          /\ DepthOf(s, j) <= 0
      BY <1>4, <1>5
    <3>2. DepthOf(s, j - 1) >= 0 /\ DepthOf(s, j - 1) \in Int
      BY <1>1, <1>3, <3>1
    <3> QED BY <3>1, <3>2
  <2> QED BY <1>5, <2>1 DEF E
<1>6. CASE k > 0
  <2>1. PICK p \in 1..n : OpensAt(s, k, p) /\ s[p].sponsoredID = st[k]
    <3>1. k \in 1..k
      BY <1>6
    <3> QED BY <1>1, <3>1
  <2>2. /\ s[p].type = Begin
        /\ DepthOf(s, p) = k
        /\ \A m \in p..n : DepthOf(s, m) >= k
    BY <2>1 DEF OpensAt
  <2>3. p \in E
    BY <1>2, <2>2
  <2>4. ASSUME NEW j \in E
        PROVE  p >= j
    <3>1. /\ j \in 1..n /\ j \in Int /\ p \in Int
          /\ DepthOf(s, j) = DepthOf(s, j - 1) + 1
          /\ DepthOf(s, j) <= k
      BY <1>4
    <3>2. CASE j > p
      <4>1. j - 1 \in p..n /\ j - 1 \in 0..n
        BY <3>1, <3>2
      <4>2. DepthOf(s, j - 1) >= k /\ DepthOf(s, j - 1) \in Int
        BY <1>3, <2>2, <4>1
      <4> QED BY <3>1, <4>2
    <3> QED BY <3>1, <3>2
  <2>5. Max(E) = p
    <3> DEFINE top == Max(E)
    <3>1. top \in E /\ \A j \in E : top >= j
      BY <2>3, <2>4 DEF Max
    <3> HIDE DEF top
    <3>2. top >= p /\ p >= top
      BY <2>3, <2>4, <3>1
    <3>3. p \in Nat
      OBVIOUS
    <3>4. top \in Nat
      BY <1>4, <3>1
    <3>5. top = p
      BY <3>2, <3>3, <3>4
    <3> QED BY <3>5 DEF top
  <2> QED BY <1>6, <2>1, <2>3, <2>5 DEF E
<1> QED BY <1>5, <1>6

\* A block that is open stays open, if the depth does not fall below it.
LEMMA StaysOpen ==
    ASSUME NEW s, NEW u, Len(s) \in Nat, Len(u) = Len(s) + 1,
           \A j \in 1..Len(s) : u[j] = s[j],
           NEW k \in Nat, NEW p, OpensAt(s, k, p), DepthOf(u, Len(u)) >= k
    PROVE  OpensAt(u, k, p)
<1>1. /\ p \in 1..Len(s) /\ s[p].type = Begin /\ DepthOf(s, p) = k
      /\ \A m \in p..Len(s) : DepthOf(s, m) >= k
  BY DEF OpensAt
<1>2. \A i \in 0..Len(s) : DepthOf(u, i) = DepthOf(s, i)
  BY SamePrefix
<1>3. p \in 1..Len(u) /\ u[p].type = Begin /\ DepthOf(u, p) = k
  BY <1>1, <1>2
<1>4. ASSUME NEW m \in p..Len(u)
      PROVE  DepthOf(u, m) >= k
  <2>1. CASE m = Len(u)
    BY <2>1
  <2>2. CASE m # Len(u)
    <3>1. m \in p..Len(s) /\ m \in 0..Len(s)
      BY <1>1, <2>2
    <3> QED BY <1>1, <1>2, <3>1
  <2> QED BY <2>1, <2>2
<1> QED BY <1>3, <1>4 DEF OpensAt

\* The three ways of going on with the blocks of s, after one more operation.
LEMMA ReadNests ==
    ASSUME NEW s \in Seq(Operation), NEW u \in Seq(Operation), Len(u) = Len(s) + 1,
           \A j \in 1..Len(s) : u[j] = s[j],
           NEW st \in Seq(Address), Nested(s, st),
           NEW st1 \in Seq(Address),
           \/ /\ u[Len(u)].type = Begin
              /\ Len(st1) = Len(st) + 1
              /\ st1[Len(st1)] = u[Len(u)].sponsoredID
              /\ \A k \in 1..Len(st) : st1[k] = st[k]
           \/ /\ u[Len(u)].type = End
              /\ Len(st1) = Len(st) - 1
              /\ \A k \in 1..Len(st1) : st1[k] = st[k]
           \/ /\ u[Len(u)].type \notin {Begin, End}
              /\ st1 = st
    PROVE  Nested(u, st1)
<1> DEFINE n == Len(s)
           op == u[Len(u)]
<1>1. n \in Nat /\ Len(st) \in Nat /\ Len(st1) \in Nat /\ Len(u) = n + 1
  OBVIOUS
<1>2. /\ \A i \in 0..n : DepthOf(s, i) >= 0
      /\ DepthOf(s, n) = Len(st)
      /\ \A k \in 1..Len(st) : \E p \in 1..n : OpensAt(s, k, p) /\ s[p].sponsoredID = st[k]
  BY DEF Nested
<1>3. \A i \in 0..n : DepthOf(u, i) = DepthOf(s, i)
  BY <1>1, SamePrefix
<1>4. Begin # End
  BY DEF Begin, End
<1>5. /\ op.type = Begin => DepthOf(u, Len(u)) = Len(st) + 1
      /\ op.type = End => DepthOf(u, Len(u)) = Len(st) - 1
      /\ op.type \notin {Begin, End} => DepthOf(u, Len(u)) = Len(st)
  <2>1. Len(u) \in Nat \ {0} /\ Len(u) - 1 = n /\ n \in 0..n
    BY <1>1
  <2>2. DepthOf(u, Len(u) - 1) = Len(st)
    BY <1>2, <1>3, <2>1
  <2> QED BY <2>1, <2>2, DepthNext
<1>6. DepthOf(u, Len(u)) = Len(st1)
  BY <1>4, <1>5
<1>7. \A i \in 0..Len(u) : DepthOf(u, i) >= 0
  <2> SUFFICES ASSUME NEW i \in 0..Len(u)
               PROVE  DepthOf(u, i) >= 0
    OBVIOUS
  <2>1. CASE i = Len(u)
    BY <1>1, <1>6, <2>1
  <2>2. CASE i # Len(u)
    <3>1. i \in 0..n
      BY <1>1, <2>2
    <3> QED BY <1>2, <1>3, <3>1
  <2> QED BY <2>1, <2>2
<1>8. ASSUME NEW k \in 1..Len(st1)
      PROVE  \E p \in 1..Len(u) : OpensAt(u, k, p) /\ u[p].sponsoredID = st1[k]
  <2>1. CASE op.type = Begin /\ k = Len(st1)
    <3>1. /\ Len(u) \in 1..Len(u)
          /\ \A m \in Len(u)..Len(u) : m = Len(u)
      BY <1>1
    <3>2. DepthOf(u, Len(u)) >= k /\ DepthOf(u, Len(u)) = k
      BY <1>1, <1>6, <2>1
    <3>3. OpensAt(u, k, Len(u))
      BY <2>1, <3>1, <3>2 DEF OpensAt
    <3>4. op.sponsoredID = st1[k]
      BY <1>4, <2>1
    <3> QED BY <3>1, <3>3, <3>4
  <2>2. CASE ~(op.type = Begin /\ k = Len(st1))
    <3>1. k \in 1..Len(st) /\ st1[k] = st[k]
      BY <1>1, <1>4, <2>2
    <3>2. PICK p \in 1..n : OpensAt(s, k, p) /\ s[p].sponsoredID = st[k]
      BY <1>2, <3>1
    <3>3. DepthOf(u, Len(u)) >= k /\ k \in Nat
      BY <1>1, <1>6
    <3>4. OpensAt(u, k, p)
      BY <1>1, <3>2, <3>3, StaysOpen
    <3>5. p \in 1..Len(u) /\ u[p] = s[p]
      BY <1>1
    <3> QED BY <3>1, <3>2, <3>4, <3>5
  <2> QED BY <2>1, <2>2
<1> QED BY <1>6, <1>7, <1>8 DEF Nested

LEMMA WithoutLast ==
    ASSUME NEW st \in Seq(Address), st # <<>>
    PROVE  LET rest == SubSeq(st, 1, Len(st) - 1)
           IN  /\ rest \in Seq(Address)
               /\ Len(rest) = Len(st) - 1
               /\ \A k \in 1..Len(rest) : rest[k] = st[k]
<1> DEFINE n == Len(st) - 1
<1>1. n \in Nat /\ n <= Len(st) /\ 1 \in Nat
  OBVIOUS
<1> HIDE DEF n
<1>2. /\ SubSeq(st, 1, n) \in Seq(Address)
      /\ Len(SubSeq(st, 1, n)) = n
      /\ \A k \in 1..n : SubSeq(st, 1, n)[k] = st[k]
  BY <1>1
<1> QED BY <1>2 DEF n

\* The three steps that go on.
LEMMA StackKeepsNested ==
    ASSUME TypeOK, TypeOK', Nested(ops, stack), NEW op \in Operation, Read(op),
           BeginBlock(op) \/ EndBlock(op) \/ Count(op)
    PROVE  Nested(ops', stack')
<1>1. /\ ops \in Seq(Operation) /\ ops' \in Seq(Operation)
      /\ Len(ops') = Len(ops) + 1
      /\ \A i \in 1..Len(ops) : ops'[i] = ops[i]
      /\ ops'[Len(ops')] = op
      /\ stack \in Seq(Address) /\ stack' \in Seq(Address)
  BY ReadType DEF TypeOK
<1>2. CASE BeginBlock(op)
  <2>1. op.type = Begin /\ stack' = Append(stack, op.sponsoredID)
    BY <1>2 DEF BeginBlock
  <2>2. /\ Len(stack') = Len(stack) + 1
        /\ stack'[Len(stack')] = op.sponsoredID
        /\ \A k \in 1..Len(stack) : stack'[k] = stack[k]
    BY <1>1, <2>1
  <2> QED BY <1>1, <2>1, <2>2, ReadNests
<1>3. CASE EndBlock(op)
  <2>1. op.type = End /\ stack # <<>> /\ stack' = SubSeq(stack, 1, Len(stack) - 1)
    BY <1>3 DEF EndBlock
  <2>2. /\ Len(stack') = Len(stack) - 1
        /\ \A k \in 1..Len(stack') : stack'[k] = stack[k]
    BY <1>1, <2>1, WithoutLast
  <2> QED BY <1>1, <2>1, <2>2, ReadNests
<1>4. CASE Count(op)
  <2>1. op.type \notin {Begin, End} /\ stack' = stack
    BY <1>4 DEF Count, Countable, SponsoredSource, InBlock, AllowedOp, NoTransfer, Unstructural
  <2> QED BY <1>1, <2>1, ReadNests
<1> QED BY <1>2, <1>3, <1>4

LEMMA InitNested == Init => StackIsNested
<1> SUFFICES ASSUME Init PROVE Nested(ops, stack)
  BY DEF StackIsNested
<1>1. ops = <<>> /\ stack = <<>> /\ Len(<<>>) = 0
  BY DEF Init
<1>2. \A i \in 0..0 : DepthOf(<<>>, i) >= 0
  BY DepthZero
<1> QED BY <1>1, <1>2, DepthZero DEF Nested

LEMMA StepNested == TypeOK /\ StackIsNested /\ [Next]_vars => StackIsNested'
<1> SUFFICES ASSUME TypeOK, StackIsNested, [Next]_vars PROVE StackIsNested'
  OBVIOUS
<1>1. CASE Outer
  <2>1. UNCHANGED <<ops, stack>> /\ NotRejected
    BY <1>1, OuterChangesVerdict
    DEF Outer, NotRejected, Rejections, Undecodable, SponsorIsTxSource, TxSourceAccepted,
        NoOperations, UnclosedBlock, DisallowedTxSource, Accept, Start, Finish
  <2>2. Nested(ops, stack)
    BY <2>1 DEF StackIsNested
  <2>3. Nested(ops', stack')
    BY <2>1, <2>2
  <2> QED BY <2>3 DEF StackIsNested, Nested, OpensAt, DepthOf
<1>2. ASSUME NEW op \in Operation, Iteration(op) PROVE StackIsNested'
  <2>1. Read(op) /\ NotRejected
    BY <1>2, IterationCases DEF Read, MoreToRead, NotRejected, Rejections
  <2>2. CASE BeginBlock(op) \/ EndBlock(op) \/ Count(op)
    <3>1. Nested(ops', stack')
      BY <1>2, <2>1, <2>2, StackKeepsNested, IterationTypeOK DEF StackIsNested
    <3> QED BY <3>1 DEF StackIsNested, Nested, OpensAt, DepthOf
  <2>3. CASE verdict' \in Rejections
    BY <2>3 DEF StackIsNested, NotRejected
  <2> QED BY <1>2, <2>2, <2>3, IterationCases
<1>3. CASE UNCHANGED vars
  <2>1. UNCHANGED <<ops, stack, verdict>>
    BY <1>3 DEF vars
  <2>2. CASE NotRejected
    <3>1. Nested(ops, stack)
      BY <2>2 DEF StackIsNested
    <3>2. Nested(ops', stack')
      BY <2>1, <3>1
    <3> QED BY <3>2 DEF StackIsNested, Nested, OpensAt, DepthOf
  <2>3. CASE ~NotRejected
    BY <2>1, <2>3 DEF StackIsNested, NotRejected
  <2> QED BY <2>2, <2>3
<1> QED BY <1>1, <1>2, <1>3 DEF Next, Outer

-----------------------------------------------------------------------------
\* The verdict.

\* What Verify asks of op, with its stack.
Passes(op) ==
    /\ op.type = Begin => Source(op) = Sponsor
    /\ op.type = End => stack # <<>> /\ Source(op) # Sponsor
    /\ op.type \notin {Begin, End} => Countable(op)

\* Verify's questions decide whether it goes on.
LEMMA GoesOnIfPasses ==
    ASSUME TypeOK, NEW op \in Operation, Iteration(op)
    PROVE  verdict' = "reading" <=> Passes(op)
<1> DEFINE Outcome == verdict' = "reading" <=> Passes(op)
<1>1. Begin # End
  BY DEF Begin, End
<1>2. CASE SponsorIsOpSource(op)
  BY <1>1, <1>2 DEF SponsorIsOpSource, Reject, SourceOK, Passes, Countable, SponsoredSource,
                    InBlock, AllowedOp, NoTransfer, Unstructural
<1>3. CASE ForeignBegin(op)
  BY <1>1, <1>3 DEF ForeignBegin, Reject, Passes
<1>4. CASE BeginBlock(op)
  BY <1>1, <1>4 DEF BeginBlock, Read, MoreToRead, Passes
<1>5. CASE UnmatchedEnd(op)
  BY <1>1, <1>5 DEF UnmatchedEnd, Reject, Passes
<1>6. CASE EndBlock(op)
  BY <1>1, <1>6 DEF EndBlock, Read, MoreToRead, SourceOK, Passes
<1>7. CASE XLMTransfer(op)
  BY <1>7 DEF XLMTransfer, Reject, Passes, Countable, SponsoredSource, InBlock, AllowedOp,
              NoTransfer, Unstructural
<1>8. CASE DisallowedOp(op)
  BY <1>8 DEF DisallowedOp, Reject, Passes, Countable, SponsoredSource, InBlock, AllowedOp,
              NoTransfer, Unstructural
<1>9. CASE OutsideBlock(op)
  BY <1>9 DEF OutsideBlock, Reject, Passes, Countable, SponsoredSource, InBlock, AllowedOp,
              NoTransfer, Unstructural
<1>10. CASE ForeignSource(op)
  BY <1>10 DEF ForeignSource, Reject, Passes, Countable, SponsoredSource, InBlock, AllowedOp,
               NoTransfer, Unstructural
<1>11. CASE DisallowedSource(op)
  BY <1>11 DEF DisallowedSource, Reject, Passes, Countable, SponsoredSource, InBlock,
               AllowedOp, NoTransfer, Unstructural
<1>12. CASE Count(op)
  BY <1>12 DEF Count, Read, MoreToRead, Passes, Countable, SponsoredSource, InBlock, AllowedOp,
               NoTransfer, Unstructural
<1> QED BY <1>2, <1>3, <1>4, <1>5, <1>6, <1>7, <1>8, <1>9, <1>10, <1>11, <1>12
        DEF Iteration, Structural

\* The block that encloses what is read next is the top of the stack.
LEMMA NextEnclosed ==
    ASSUME TypeOK, Nested(ops, stack), NEW op \in Operation, Read(op)
    PROVE  /\ EnclosingOf(ops', Len(ops')) # {} <=> stack # <<>>
           /\ stack # <<>> => ops'[Max(EnclosingOf(ops', Len(ops')))].sponsoredID = Top
<1>1. /\ Len(ops) \in Nat /\ Len(stack) \in Nat
      /\ stack # <<>> <=> Len(stack) > 0
      /\ Len(ops') = Len(ops) + 1
      /\ \A i \in 1..Len(ops) : ops'[i] = ops[i]
  BY ReadType DEF TypeOK
<1>2. EnclosingOf(ops', Len(ops) + 1) = EnclosingOf(ops, Len(ops) + 1)
  <2>1. Len(ops) + 1 \in 1..(Len(ops) + 1)
    BY <1>1
  <2> QED BY <1>1, <2>1, SamePrefix
<1>3. /\ EnclosingOf(ops, Len(ops) + 1) # {} <=> Len(stack) > 0
      /\ Len(stack) > 0 =>
            /\ Max(EnclosingOf(ops, Len(ops) + 1)) \in 1..Len(ops)
            /\ ops[Max(EnclosingOf(ops, Len(ops) + 1))].sponsoredID = stack[Len(stack)]
  BY <1>1, TopEncloses
<1> QED BY <1>1, <1>2, <1>3 DEF Top

\* What Verify asks of op with its stack is what the rules ask of the list.
LEMMA PassesAreRules ==
    ASSUME TypeOK, Nested(ops, stack), NEW op \in Operation, Read(op)
    PROVE  Passes(op) <=> KeepsRules(Len(ops))'
<1> DEFINE n == Len(ops')
           E == EnclosingOf(ops', n)
<1>1. ops'[n] = op /\ UNCHANGED <<apiKey, txSource>>
  BY ReadType DEF Read
<1>2. /\ Enclosing(Len(ops))' = E
      /\ Source(ops[Len(ops)])' = Source(op)
      /\ \A a : AllowedSource(a)' = AllowedSource(a)
  BY <1>1 DEF Enclosing, EnclosingOf, Depth, DepthOf, Source, AllowedSource
<1>3. /\ E # {} <=> stack # <<>>
      /\ stack # <<>> => ops'[Max(E)].sponsoredID = Top
  BY NextEnclosed
<1>4. Begin # End
  BY DEF Begin, End
<1>5. Sponsorable(Len(ops))' <=>
          /\ ~isXLMTransfer(op)
          /\ op.type \in apiKey.ops \cap SupportedOperations
          /\ AllowedSource(Source(op))
          /\ E # {}
          /\ ops'[Max(E)].sponsoredID = Source(op)
  BY <1>1, <1>2 DEF Sponsorable
<1>6. KeepsRules(Len(ops))' <=>
          /\ op.type = Begin => Source(op) = Sponsor
          /\ op.type = End => E # {} /\ Source(op) # Sponsor
          /\ op.type \notin {Begin, End} => Source(op) # Sponsor /\ Sponsorable(Len(ops))'
  BY <1>1, <1>2, <1>4 DEF KeepsRules
<1> HIDE DEF E
<1>7. op.type \notin {Begin, End} =>
          (Countable(op) <=> Source(op) # Sponsor /\ Sponsorable(Len(ops))')
  BY <1>3, <1>5 DEF Countable, SponsoredSource, InBlock, AllowedOp, NoTransfer, Unstructural,
                    SourceOK
<1> QED BY <1>3, <1>6, <1>7 DEF Passes

\* At the end, a list is whole if no block is left on the stack.
LEMMA OuterVerdict ==
    ASSUME TypeOK, Nested(ops, stack), Outer, verdict = "reading"
    PROVE  verdict' = "valid" <=> WholeTransactionOK
<1>1. Depth(Len(ops)) = 0 <=> stack = <<>>
  <2>1. Depth(Len(ops)) = Len(stack)
    BY DepthIsOf DEF Nested
  <2>2. Len(stack) = 0 <=> stack = <<>>
    BY DEF TypeOK
  <2> QED BY <2>1, <2>2
<1>2. CASE NoOperations \/ UnclosedBlock \/ DisallowedTxSource \/ Accept
  BY <1>1, <1>2 DEF NoOperations, UnclosedBlock, DisallowedTxSource, Accept, Finish,
                    WholeTransactionOK
<1>3. ~(Undecodable \/ SponsorIsTxSource \/ TxSourceAccepted)
  BY DEF Undecodable, SponsorIsTxSource, TxSourceAccepted, Start
<1> QED BY <1>2, <1>3 DEF Outer

LEMMA StepFollowsTheRules ==
    ASSUME TypeOK, StackIsNested, Next
    PROVE  IF ops' # ops
              THEN verdict' = "reading" <=> KeepsRules(Len(ops))'
              ELSE verdict = "reading" => (verdict' = "valid" <=> WholeTransactionOK)
<1>1. CASE Outer
  <2>1. ops' = ops
    BY <1>1, OuterChangesVerdict
  <2>2. verdict = "reading" => Nested(ops, stack)
    BY DEF StackIsNested, NotRejected, Rejections
  <2> QED BY <1>1, <2>1, <2>2, OuterVerdict
<1>2. ASSUME NEW op \in Operation, Iteration(op)
      PROVE  /\ ops' # ops
             /\ verdict' = "reading" <=> KeepsRules(Len(ops))'
  <2>1. Read(op)
    BY <1>2, IterationCases
  <2>2. ops' # ops
    <3>1. Len(ops') = Len(ops) + 1 /\ Len(ops) \in Nat
      BY <2>1, ReadType DEF TypeOK
    <3> QED BY <3>1
  <2>3. Nested(ops, stack)
    BY <2>1 DEF Read, MoreToRead, StackIsNested, NotRejected, Rejections
  <2> QED BY <1>2, <2>1, <2>2, <2>3, GoesOnIfPasses, PassesAreRules
<1> QED BY <1>1, <1>2 DEF Next, Outer

\* For transactions of any length and any nesting of the blocks: Verify's one pass with
\* a stack goes on exactly after the operations that keep the rules said of the list,
\* and accepts at the end exactly what is whole (verifier.go, Verify).
THEOREM VerdictFollows == Spec => VerdictFollowsTheRules
<1>1. Spec => [](TypeOK /\ StackIsNested)
  BY InitTypeOK, NextTypeOK, InitNested, StepNested, PTL DEF Spec
<1>2. TypeOK /\ StackIsNested /\ [Next]_vars =>
        [IF ops' # ops
            THEN verdict' = "reading" <=> KeepsRules(Len(ops))'
            ELSE verdict = "reading" => (verdict' = "valid" <=> WholeTransactionOK)]_vars
  BY StepFollowsTheRules
<1> QED BY <1>1, <1>2, PTL DEF Spec, VerdictFollowsTheRules

-----------------------------------------------------------------------------
\* The network's sponsorships.

\* A set of numbers has a least one.
LEMMA LeastElement ==
    ASSUME NEW S \in SUBSET Nat, S # {}
    PROVE  \E m \in S : \A i \in S : m <= i
<1>1. PICK m \in S : \A i \in S : <<i, m>> \notin OpToRel(<, Nat)
  BY NatLessThanWellFounded, WFMin
<1>2. ASSUME NEW i \in S
      PROVE  m <= i
  <2>1. <<i, m>> \in Nat \X Nat
    OBVIOUS
  <2>2. ~(i < m)
    BY <1>1, <2>1 DEF OpToRel
  <2> QED BY <2>2
<1> QED BY <1>2

\* The least bound of positions is one of them: Max is what it is called.
LEMMA MaxIsIn ==
    ASSUME NEW n \in Nat, NEW S \in SUBSET (1..n), S # {}
    PROVE  Max(S) \in S
<1> DEFINE Bounds == {b \in Nat : \A j \in S : j <= b}
<1>1. n \in Bounds
  OBVIOUS
<1>2. Bounds \in SUBSET Nat /\ Bounds # {}
  BY <1>1
<1>3. PICK b \in Bounds : \A c \in Bounds : b <= c
  <2> HIDE DEF Bounds
  <2> QED BY <1>2, LeastElement
<1>4. b \in Nat /\ \A j \in S : j <= b /\ j \in Nat /\ j > 0
  OBVIOUS
<1>5. b \in S
  <2> SUFFICES ASSUME b \notin S PROVE FALSE
    OBVIOUS
  <2>1. PICK k \in S : TRUE
    OBVIOUS
  <2>2. b > 0
    BY <1>4, <2>1
  <2>3. b - 1 \in Nat /\ ~(b <= b - 1)
    BY <1>4, <2>2
  <2>4. ASSUME NEW j \in S
        PROVE  j <= b - 1
    <3>1. j <= b /\ j # b /\ j \in Nat /\ b \in Nat
      BY <1>4
    <3> QED BY <3>1
  <2>5. b - 1 \in Bounds
    BY <2>3, <2>4
  <2> QED BY <1>3, <2>3, <2>5
<1>6. \A j \in S : b >= j
  BY <1>4
<1> QED BY <1>5, <1>6 DEF Max

\* What the ENDs read before said of their blocks stays, and so does the new one.
LEMMA EndsReadBefore ==
    ASSUME TypeOK, Nested(ops, stack), NEW op \in Operation, Read(op), EndsByTheSponsored'
    PROVE  /\ EndsByTheSponsored
           /\ op.type = End /\ stack # <<>> => Source(op) = Top
<1> DEFINE n == Len(ops')
<1>1. /\ Len(ops) \in Nat
      /\ n = Len(ops) + 1
      /\ \A i \in 1..Len(ops) : ops'[i] = ops[i]
      /\ ops'[n] = op
      /\ txSource' = txSource
  BY ReadType DEF TypeOK, Read
<1>2. \A i \in 1..n : ops'[i].type = End /\ EnclosingOf(ops', i) # {} =>
          ops'[Max(EnclosingOf(ops', i))].sponsoredID = Source(ops'[i])
  BY <1>1 DEF EndsByTheSponsored, Enclosing, EnclosingOf, Depth, DepthOf, Source
<1> HIDE DEF n
<1>3. op.type = End /\ stack # <<>> => Source(op) = Top
  <2>1. n \in 1..n
    BY <1>1
  <2> QED BY <1>1, <1>2, <2>1, NextEnclosed DEF n
<1>4. ASSUME NEW i \in 1..Len(ops), ops[i].type = End, EnclosingOf(ops, i) # {}
      PROVE  ops[Max(EnclosingOf(ops, i))].sponsoredID = Source(ops[i])
  <2>1. i \in 1..n /\ i \in 1..(Len(ops) + 1) /\ ops'[i] = ops[i]
    BY <1>1
  <2>2. EnclosingOf(ops', i) = EnclosingOf(ops, i)
    BY <1>1, <2>1, SamePrefix
  <2>3. EnclosingOf(ops, i) \in SUBSET (1..Len(ops))
    <3>1. \A j \in 1..(i - 1) : j \in 1..Len(ops)
      BY <1>1
    <3> QED BY <3>1 DEF EnclosingOf
  <2>4. Max(EnclosingOf(ops, i)) \in 1..Len(ops)
    BY <1>1, <1>4, <2>3, MaxIsIn
  <2>5. ops'[Max(EnclosingOf(ops, i))] = ops[Max(EnclosingOf(ops, i))]
    BY <1>1, <2>4
  <2> QED BY <1>2, <1>4, <2>1, <2>2, <2>5
<1>5. EndsByTheSponsored
  BY <1>4, DepthIsOf DEF EndsByTheSponsored
<1> QED BY <1>3, <1>5

LEMMA InitSponsored == Init => StackIsSponsored
BY DEF Init, StackIsSponsored, Distinct

\* What the steps that go on leave of the stack and of the sponsorships.
LEMMA StepOnStack ==
    ASSUME TypeOK, Nested(ops, stack), NEW op \in Operation, Read(op),
           BeginBlock(op) \/ EndBlock(op) \/ Count(op),
           ledger.sponsored = {stack[i] : i \in 1..Len(stack)}, Distinct(stack),
           op.type = End /\ stack # <<>> => Source(op) = Top,
           ledger'.ok
    PROVE  /\ ledger'.sponsored = {stack'[i] : i \in 1..Len(stack')}
           /\ Distinct(stack')
<1>1. /\ stack \in Seq(Address)
      /\ Len(stack) \in Nat
      /\ ledger \in Ledger
      /\ ledger.ok \in BOOLEAN
  BY DEF TypeOK, Ledger
<1>2. CASE BeginBlock(op)
  <2> DEFINE a == op.sponsoredID
  <2>1. /\ ledger'.sponsored = ledger.sponsored \cup {a}
        /\ a \notin ledger.sponsored
    <3>1. ledger' = LedgerBegin(a)
      BY <1>2 DEF BeginBlock
    <3> QED BY <1>1, <3>1 DEF LedgerBegin, Ledger
  <2>2. /\ Len(stack') = Len(stack) + 1
        /\ stack'[Len(stack) + 1] = a
        /\ \A i \in 1..Len(stack) : stack'[i] = stack[i]
    <3>1. op.type = Begin /\ stack' = Append(stack, a)
      BY <1>2 DEF BeginBlock
    <3>2. a \in Address
      BY <3>1, OperationShape
    <3> QED BY <1>1, <3>1, <3>2
  <2> HIDE DEF a
  <2>3. 1..Len(stack') = 1..Len(stack) \cup {Len(stack) + 1}
    BY <1>1, <2>2
  <2>4. {stack'[i] : i \in 1..Len(stack')} = {stack[i] : i \in 1..Len(stack)} \cup {a}
    BY <2>2, <2>3
  <2>5. Distinct(stack')
    <3>1. \A i \in 1..Len(stack) : stack[i] # a
      BY <2>1
    <3> QED BY <2>2, <2>3, <3>1 DEF Distinct
  <2> QED BY <2>1, <2>4, <2>5
<1>3. CASE EndBlock(op)
  <2>1. stack # <<>> /\ op.type = End /\ stack' = SubSeq(stack, 1, Len(stack) - 1)
    BY <1>3 DEF EndBlock
  <2>2. /\ Len(stack') = Len(stack) - 1
        /\ \A i \in 1..Len(stack') : stack'[i] = stack[i]
    BY <1>1, <2>1, WithoutLast
  <2>3. Len(stack) > 0
    BY <1>1, <2>1
  <2>4. ledger'.sponsored = ledger.sponsored \ {stack[Len(stack)]}
    <3>1. ledger' = LedgerEnd(Top)
      BY <1>3, <2>1 DEF EndBlock
    <3> QED BY <1>1, <3>1 DEF LedgerEnd, Ledger, Top
  <2>5. /\ 1..Len(stack) = 1..Len(stack') \cup {Len(stack)}
        /\ Len(stack) \notin 1..Len(stack')
    BY <1>1, <2>2, <2>3
  <2>6. \A i \in 1..Len(stack') : stack[i] # stack[Len(stack)]
    BY <2>5 DEF Distinct
  <2>7. {stack'[i] : i \in 1..Len(stack')} = ledger'.sponsored
    BY <2>2, <2>4, <2>5, <2>6
  <2>8. Distinct(stack')
    BY <2>2, <2>5 DEF Distinct
  <2> QED BY <2>7, <2>8
<1>4. CASE Count(op)
  <2>1. stack' = stack /\ ledger' = LedgerCharge(op)
    BY <1>4 DEF Count
  <2>2. ledger'.sponsored = ledger.sponsored
    BY <1>1, <2>1 DEF LedgerCharge, Ledger
  <2> QED BY <2>1, <2>2
<1> QED BY <1>2, <1>3, <1>4

\* An operation that failed on the network stays failed.
LEMMA OnceFailed ==
    ASSUME TypeOK, NEW op \in Operation, BeginBlock(op) \/ EndBlock(op) \/ Count(op),
           ledger'.ok
    PROVE  ledger.ok
<1>1. ledger \in Ledger
  BY DEF TypeOK
<1>2. ledger' \in {LedgerBegin(op.sponsoredID), LedgerEnd(Source(op)), LedgerCharge(op)}
  BY DEF BeginBlock, EndBlock, Count
<1> QED BY <1>1, <1>2 DEF LedgerBegin, LedgerEnd, LedgerCharge, Ledger

LEMMA StepSponsored ==
    ASSUME TypeOK, StackIsNested, StackIsSponsored, [Next]_vars
    PROVE  StackIsSponsored'
<1>1. ASSUME UNCHANGED <<txSource, ops, stack, ledger>>, NotRejected' => NotRejected
      PROVE  StackIsSponsored'
  <2>1. EndsByTheSponsored' => EndsByTheSponsored
    BY <1>1 DEF EndsByTheSponsored, Enclosing, Depth, Source
  <2> SUFFICES ASSUME NotRejected', EndsByTheSponsored', ledger'.ok
               PROVE  /\ ledger'.sponsored = {stack'[i] : i \in 1..Len(stack')}
                      /\ Distinct(stack')
    BY DEF StackIsSponsored, Distinct
  <2>2. ledger.sponsored = {stack[i] : i \in 1..Len(stack)} /\ Distinct(stack)
    BY <1>1, <2>1 DEF StackIsSponsored
  <2> QED BY <1>1, <2>2
<1>2. CASE Outer
  <2>1. NotRejected
    BY <1>2 DEF Outer, NotRejected, Rejections, Undecodable, SponsorIsTxSource,
                TxSourceAccepted, NoOperations, UnclosedBlock, DisallowedTxSource, Accept,
                Start, Finish
  <2> QED BY <1>1, <1>2, <2>1, OuterChangesVerdict
<1>3. CASE UNCHANGED vars
  <2>1. UNCHANGED <<txSource, ops, stack, ledger, verdict>>
    BY <1>3 DEF vars
  <2> QED BY <1>1, <2>1 DEF NotRejected
<1>4. ASSUME NEW op \in Operation, Iteration(op)
      PROVE  StackIsSponsored'
  <2>1. Read(op) /\ NotRejected
    BY <1>4, IterationCases DEF Read, MoreToRead, NotRejected, Rejections
  <2>2. CASE verdict' \in Rejections
    BY <2>2 DEF StackIsSponsored, NotRejected
  <2>3. CASE BeginBlock(op) \/ EndBlock(op) \/ Count(op)
    <3> SUFFICES ASSUME EndsByTheSponsored', ledger'.ok
                 PROVE  /\ ledger'.sponsored = {stack'[i] : i \in 1..Len(stack')}
                        /\ Distinct(stack')
      BY DEF StackIsSponsored, Distinct
    <3>1. Nested(ops, stack)
      BY <2>1 DEF StackIsNested
    <3>2. EndsByTheSponsored /\ (op.type = End /\ stack # <<>> => Source(op) = Top)
      BY <2>1, <3>1, EndsReadBefore
    <3>3. ledger.ok
      BY <2>3, OnceFailed
    <3>4. ledger.sponsored = {stack[i] : i \in 1..Len(stack)} /\ Distinct(stack)
      BY <2>1, <3>2, <3>3 DEF StackIsSponsored
    <3> QED BY <2>1, <2>3, <3>1, <3>2, <3>4, StepOnStack
  <2> QED BY <1>4, <2>2, <2>3, IterationCases
<1> QED BY <1>2, <1>3, <1>4 DEF Next, Outer

LEMMA InitCounted == Init => SponsorshipsAreCounted
<1>1. IsFiniteSet({}) /\ Cardinality({}) = 0
  BY FS_EmptySet
<1> QED BY <1>1 DEF Init, SponsorshipsAreCounted

LEMMA StepCounted ==
    ASSUME TypeOK, SponsorshipsAreCounted, [Next]_vars
    PROVE  SponsorshipsAreCounted'
<1>0. /\ stack \in Seq(Address)
      /\ Len(stack) \in Nat
      /\ ledger \in Ledger
      /\ ledger.ok \in BOOLEAN
  BY DEF TypeOK, Ledger
<1>1. CASE Outer
  <2>1. NotRejected
    BY <1>1 DEF Outer, NotRejected, Rejections, Undecodable, SponsorIsTxSource,
                TxSourceAccepted, NoOperations, UnclosedBlock, DisallowedTxSource, Accept,
                Start, Finish
  <2>2. UNCHANGED <<stack, ledger>>
    BY <1>1, OuterChangesVerdict
  <2> QED BY <2>1, <2>2 DEF SponsorshipsAreCounted
<1>2. CASE UNCHANGED vars
  BY <1>2 DEF vars, SponsorshipsAreCounted, NotRejected
<1>3. ASSUME NEW op \in Operation, Iteration(op)
      PROVE  SponsorshipsAreCounted'
  <2>1. Read(op) /\ NotRejected
    BY <1>3, IterationCases DEF Read, MoreToRead, NotRejected, Rejections
  <2>2. CASE verdict' \in Rejections
    BY <2>2 DEF SponsorshipsAreCounted, NotRejected
  <2>3. CASE BeginBlock(op) \/ EndBlock(op) \/ Count(op)
    <3> SUFFICES ASSUME ledger'.ok
                 PROVE  /\ IsFiniteSet(ledger'.sponsored)
                        /\ Cardinality(ledger'.sponsored) = Len(stack')
      BY DEF SponsorshipsAreCounted
    <3>1. ledger.ok
      BY <2>3, OnceFailed
    <3>2. IsFiniteSet(ledger.sponsored) /\ Cardinality(ledger.sponsored) = Len(stack)
      BY <2>1, <3>1 DEF SponsorshipsAreCounted
    <3>3. CASE BeginBlock(op)
      <4>1. ledger' = LedgerBegin(op.sponsoredID) /\ stack' = Append(stack, op.sponsoredID)
        BY <3>3 DEF BeginBlock
      <4>2. /\ ledger'.sponsored = ledger.sponsored \cup {op.sponsoredID}
            /\ op.sponsoredID \notin ledger.sponsored
        BY <1>0, <4>1 DEF LedgerBegin, Ledger
      <4>3. Len(stack') = Len(stack) + 1
        BY <1>0, <4>1
      <4> QED BY <3>2, <4>2, <4>3, FS_AddElement
    <3>4. CASE EndBlock(op)
      <4>1. /\ ledger' = LedgerEnd(Source(op))
            /\ stack # <<>> /\ stack' = SubSeq(stack, 1, Len(stack) - 1)
        BY <3>4 DEF EndBlock
      <4>2. /\ ledger'.sponsored = ledger.sponsored \ {Source(op)}
            /\ Source(op) \in ledger.sponsored
        BY <1>0, <4>1 DEF LedgerEnd, Ledger
      <4>3. Len(stack') = Len(stack) - 1
        BY <1>0, <4>1, WithoutLast
      <4> QED BY <3>2, <4>2, <4>3, FS_RemoveElement
    <3>5. CASE Count(op)
      <4>1. stack' = stack /\ ledger' = LedgerCharge(op)
        BY <3>5 DEF Count
      <4>2. ledger'.sponsored = ledger.sponsored
        BY <1>0, <4>1 DEF LedgerCharge, Ledger
      <4> QED BY <3>2, <4>1, <4>2
    <3> QED BY <2>3, <3>3, <3>4, <3>5
  <2> QED BY <1>3, <2>2, <2>3, IterationCases
<1> QED BY <1>1, <1>2, <1>3 DEF Next, Outer

\* As long as the network refuses nothing, it has as many sponsorships in force as blocks
\* are on Verify's stack, whoever sends the ENDs, so that a transaction that is accepted
\* leaves none open; and if ENDs are sent by those whose block they close, the two are of
\* the same accounts, so that what is accepted inside a block is the sponsor's to pay.
THEOREM StackMatchesLedger == Spec => []StackIsTheLedgers
<1>1. Spec => [](TypeOK /\ StackIsNested /\ StackIsSponsored)
  BY InitTypeOK, NextTypeOK, InitNested, StepNested, InitSponsored, StepSponsored, PTL DEF Spec
<1>2. Spec => []SponsorshipsAreCounted
  <2>1. TypeOK /\ SponsorshipsAreCounted /\ [Next]_vars => SponsorshipsAreCounted'
    BY StepCounted
  <2> QED BY <2>1, InitCounted, TypeCorrect, PTL DEF Spec
<1>3. StackIsSponsored /\ SponsorshipsAreCounted => StackIsTheLedgers
  BY DEF StackIsSponsored, SponsorshipsAreCounted, StackIsTheLedgers, InForce, NotRejected,
         Rejections
<1> QED BY <1>1, <1>2, <1>3, PTL

=============================================================================
