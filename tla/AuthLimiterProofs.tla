-------------------------- MODULE AuthLimiterProofs --------------------------
(***************************************************************************)
(* Proofs about AuthLimiter.                                               *)
(*                                                                         *)
(* A block holds because every method writes the entry of an address that  *)
(* no request of it has in flight without touching its blockedUntil, and   *)
(* because the cleanup that follows drops no entry that is blocked.        *)
(*                                                                         *)
(* That failures are bounded needs to know which of them an entry stands   *)
(* for: FailuresRecorded relates the entry of an address, the times of its *)
(* failures and the requests that may still add to them.                   *)
(***************************************************************************)
EXTENDS AuthLimiter, FiniteSetTheorems, WellFoundedInduction, TLAPS

\* A set of entries that may be stored.
Entries(written) ==
    /\ DOMAIN written \subseteq Addresses
    /\ written \in [DOMAIN written -> AuthAttempt]

\* written keeps the block of a.
KeepsBlock(written, a) ==
    /\ a \in DOMAIN written
    /\ written[a].blockedUntil = entries[a].blockedUntil

\* Cleanup keeps the type of the entries, and every entry that is blocked.
LEMMA CleanedKeeps ==
    ASSUME NEW written, Entries(written)
    PROVE  Entries(Cleaned(written))
BY DEF Entries, Cleaned

LEMMA CleanedKeepsBlocked ==
    ASSUME NEW written, Entries(written), now \in Nat,
           NEW a \in DOMAIN written, now < written[a].blockedUntil
    PROVE  a \in DOMAIN Cleaned(written) /\ Cleaned(written)[a] = written[a]
<1>1. written[a].blockedUntil \in Nat
  BY DEF Entries, AuthAttempt
<1>2. ~Stale(written[a])
  BY <1>1 DEF Stale
<1> QED BY <1>2 DEF Cleaned

\* Writing an attempt for one address leaves attempts, and the others as they are.
LEMMA WithKeeps ==
    ASSUME TypeOK, NEW a \in Addresses, NEW e \in AuthAttempt
    PROVE  /\ Entries(With(a, e))
           /\ a \in DOMAIN With(a, e)
           /\ With(a, e)[a] = e
           /\ \A b \in Addresses \ {a} : b \in DOMAIN entries => KeepsBlock(With(a, e), b)
<1> DEFINE written == With(a, e)
<1>1. written = [b \in {a} \cup DOMAIN entries |-> IF b = a THEN e ELSE entries[b]]
  BY DEF With
<1> HIDE DEF written
<1>2. /\ DOMAIN written = {a} \cup DOMAIN entries
      /\ written[a] = e
      /\ \A b \in DOMAIN entries \ {a} : written[b] = entries[b]
  BY <1>1
<1>3. Entries(written)
  <2>1. DOMAIN entries \subseteq Addresses /\ \A b \in DOMAIN entries : entries[b] \in AuthAttempt
    BY DEF TypeOK
  <2>2. \A b \in DOMAIN written : written[b] \in AuthAttempt
    BY <1>2, <2>1
  <2>3. written = [b \in DOMAIN written |-> written[b]]
    BY <1>1
  <2>4. DOMAIN written \subseteq Addresses
    BY <1>2, <2>1
  <2> QED BY <2>2, <2>3, <2>4 DEF Entries
<1>4. \A b \in Addresses \ {a} : b \in DOMAIN entries => KeepsBlock(written, b)
  BY <1>2 DEF KeepsBlock
<1> QED BY <1>2, <1>3, <1>4 DEF written

\* What allow and registerFailure write is an attempt.
LEMMA AttemptTypes ==
    ASSUME TypeOK
    PROVE  /\ FirstFailure \in AuthAttempt
           /\ \A e \in AuthAttempt :
                /\ Refreshed(e) \in AuthAttempt
                /\ Counted(e) \in AuthAttempt
                /\ [e EXCEPT !.lastSeen = now] \in AuthAttempt
<1>1. now \in Nat
  BY DEF TypeOK
<1>2. FirstFailure \in AuthAttempt
  BY <1>1 DEF FirstFailure, AuthAttempt
<1>3. ASSUME NEW e \in AuthAttempt
      PROVE  /\ Refreshed(e) \in AuthAttempt
             /\ Counted(e) \in AuthAttempt
             /\ [e EXCEPT !.lastSeen = now] \in AuthAttempt
  <2>1. Refreshed(e) \in AuthAttempt
    BY <1>1 DEF Refreshed, AuthAttempt
  <2>2. Counted(e) \in AuthAttempt
    <3>1. e.failures \in Nat /\ e.failures + 1 \in Nat
      BY DEF AuthAttempt
    <3>2. now + BlockDuration \in Nat
      BY <1>1, LimiterAssumption
    <3>3. CASE e.failures + 1 >= MaxFailures
      <4>1. Counted(e) = [e EXCEPT !.failures = 0, !.windowStart = now,
                                   !.blockedUntil = now + BlockDuration]
        BY <3>3 DEF Counted
      <4> DEFINE until == now + BlockDuration
      <4> HIDE DEF until
      <4>2. until \in Nat /\ now \in Nat
        BY <1>1, <3>2 DEF until
      <4>3. [e EXCEPT !.failures = 0, !.windowStart = now, !.blockedUntil = until] \in AuthAttempt
        BY <4>2 DEF AuthAttempt
      <4> QED BY <4>1, <4>3 DEF until
    <3>4. CASE ~(e.failures + 1 >= MaxFailures)
      <4>1. Counted(e) = [e EXCEPT !.failures = e.failures + 1]
        BY <3>4 DEF Counted
      <4> QED BY <3>1, <4>1 DEF AuthAttempt
    <3> QED BY <3>3, <3>4
  <2> QED BY <1>1, <2>1, <2>2 DEF AuthAttempt
<1> QED BY <1>2, <1>3

-----------------------------------------------------------------------------
\* A block that holds in this step.

Holds(a) ==
    Blocked(a) /\ ~InFlight(a) =>
        \/ now' >= entries[a].blockedUntil
        \/ Blocked(a)' /\ entries'[a].blockedUntil = entries[a].blockedUntil
           /\ ~InFlight(a)'

\* A method that writes well-typed entries, and keeps the blocks of the addresses
\* it is not called for.
LEMMA MethodStep ==
    ASSUME TypeOK, NEW written, Entries(written), StoreAndClean(written),
           now' = now,
           req' \in [Requests -> Addresses \cup {Nil}],
           failed' \in [Addresses -> Seq(Nat)],
           \A a \in Addresses : Blocked(a) /\ ~InFlight(a) =>
                KeepsBlock(written, a) /\ ~InFlight(a)'
    PROVE  TypeOK' /\ \A a \in Addresses : Holds(a)
<1>1. now \in Nat
  BY DEF TypeOK
<1>2. entries' = Cleaned(written)
  BY DEF StoreAndClean
<1>3. Entries(entries')
  BY <1>2, CleanedKeeps
<1>4. lastCleanup' \in Nat
  BY <1>1 DEF StoreAndClean, TypeOK
<1>5. TypeOK'
  BY <1>3, <1>4 DEF TypeOK, Entries
<1>6. ASSUME NEW a \in Addresses, Blocked(a), ~InFlight(a)
      PROVE  /\ Blocked(a)'
             /\ entries'[a].blockedUntil = entries[a].blockedUntil
             /\ ~InFlight(a)'
  <2>1. KeepsBlock(written, a) /\ ~InFlight(a)'
    BY <1>6
  <2>2. a \in DOMAIN written /\ now < written[a].blockedUntil
    BY <1>6, <2>1 DEF Blocked, KeepsBlock
  <2>3. a \in DOMAIN entries' /\ entries'[a] = written[a]
    BY <1>1, <1>2, <2>2, CleanedKeepsBlocked
  <2> QED BY <2>1, <2>2, <2>3 DEF Blocked, KeepsBlock
<1> QED BY <1>5, <1>6 DEF Holds

LEMMA InitType == Init => TypeOK
<1> SUFFICES ASSUME Init PROVE TypeOK
  OBVIOUS
<1> USE DEF Init
<1>1. now \in 1..MaxTime /\ lastCleanup \in Nat
  BY LimiterAssumption
<1>2. DOMAIN entries \subseteq Addresses /\ entries \in [DOMAIN entries -> AuthAttempt]
  OBVIOUS
<1>3. failed \in [Addresses -> Seq(Nat)]
  OBVIOUS
<1> QED BY <1>1, <1>2, <1>3 DEF TypeOK

LEMMA StepKeeps ==
    ASSUME TypeOK, [Next]_vars
    PROVE  TypeOK' /\ \A a \in Addresses : Holds(a)
<1>1. ASSUME NEW a \in Addresses, Refuse(a)
      PROVE  TypeOK' /\ \A b \in Addresses : Holds(b)
  <2> DEFINE e == [entries[a] EXCEPT !.lastSeen = now]
  <2>1. a \in DOMAIN entries /\ entries[a] \in AuthAttempt
    BY <1>1 DEF Refuse, Blocked, TypeOK
  <2>2. e \in AuthAttempt /\ e.blockedUntil = entries[a].blockedUntil
    BY <2>1, AttemptTypes DEF AuthAttempt
  <2>3. StoreAndClean(With(a, e)) /\ UNCHANGED <<now, req, failed>>
    BY <1>1 DEF Refuse
  <2> HIDE DEF e
  <2>4. Entries(With(a, e)) /\ KeepsBlock(With(a, e), a)
    BY <2>1, <2>2, WithKeeps DEF KeepsBlock
  <2>5. \A b \in Addresses : Blocked(b) => KeepsBlock(With(a, e), b)
    BY <2>2, <2>4, WithKeeps DEF Blocked
  <2>6. \A b \in Addresses : ~InFlight(b) => ~InFlight(b)'
    BY <2>3 DEF InFlight
  <2>7. /\ req' \in [Requests -> Addresses \cup {Nil}]
        /\ failed' \in [Addresses -> Seq(Nat)]
    BY <2>3 DEF TypeOK
  <2> QED BY <2>3, <2>4, <2>5, <2>6, <2>7, MethodStep
<1>2. ASSUME NEW r \in Requests, NEW a \in Addresses, Admit(r, a)
      PROVE  TypeOK' /\ \A b \in Addresses : Holds(b)
  <2>1. /\ ~Blocked(a)
        /\ req' = [req EXCEPT ![r] = a]
        /\ UNCHANGED <<now, failed>>
    BY <1>2 DEF Admit
  <2>2. /\ req' \in [Requests -> Addresses \cup {Nil}]
        /\ failed' \in [Addresses -> Seq(Nat)]
    BY <2>1 DEF TypeOK
  <2>3. \A b \in Addresses \ {a} : ~InFlight(b) => ~InFlight(b)'
    BY <2>1 DEF InFlight, TypeOK
  <2>4. CASE a \in DOMAIN entries
    <3>1. Refreshed(entries[a]) \in AuthAttempt
      BY <2>4, AttemptTypes DEF TypeOK
    <3>2. StoreAndClean(With(a, Refreshed(entries[a])))
      BY <1>2, <2>4 DEF Admit
    <3>3. /\ Entries(With(a, Refreshed(entries[a])))
          /\ \A b \in Addresses \ {a} :
                b \in DOMAIN entries => KeepsBlock(With(a, Refreshed(entries[a])), b)
      BY <3>1, WithKeeps
    <3>4. \A b \in Addresses : Blocked(b) =>
                b # a /\ KeepsBlock(With(a, Refreshed(entries[a])), b)
      BY <2>1, <3>3 DEF Blocked
    <3> QED BY <2>1, <2>2, <2>3, <3>2, <3>3, <3>4, MethodStep
  <2>5. CASE a \notin DOMAIN entries
    <3>1. StoreAndClean(entries)
      BY <1>2, <2>5 DEF Admit
    <3>2. Entries(entries)
      BY DEF TypeOK, Entries
    <3>3. \A b \in Addresses : Blocked(b) => b # a /\ KeepsBlock(entries, b)
      BY <2>1 DEF Blocked, KeepsBlock
    <3> QED BY <2>1, <2>2, <2>3, <3>1, <3>2, <3>3, MethodStep
  <2> QED BY <2>4, <2>5
<1>3. ASSUME NEW r \in Requests, Fail(r)
      PROVE  TypeOK' /\ \A b \in Addresses : Holds(b)
  <2> DEFINE a == req[r]
             e == IF a \in DOMAIN entries
                     THEN Counted(Refreshed(entries[a]))
                     ELSE FirstFailure
  <2>1. a \in Addresses
    BY <1>3 DEF Fail, TypeOK
  <2>2. e \in AuthAttempt
    <3>1. CASE a \in DOMAIN entries
      <4>1. Refreshed(entries[a]) \in AuthAttempt
        BY <3>1, AttemptTypes DEF TypeOK
      <4> QED BY <3>1, <4>1, AttemptTypes
    <3>2. CASE a \notin DOMAIN entries
      BY <3>2, AttemptTypes
    <3> QED BY <3>1, <3>2
  <2>3. /\ StoreAndClean(With(a, e))
        /\ req' = [req EXCEPT ![r] = Nil]
        /\ failed' = [failed EXCEPT ![a] = Append(failed[a], now)]
        /\ now' = now
    BY <1>3 DEF Fail
  <2>4. InFlight(a)
    BY DEF InFlight
  <2> HIDE DEF e
  <2>5. req' \in [Requests -> Addresses \cup {Nil}]
    BY <2>3 DEF TypeOK
  <2>6. failed' \in [Addresses -> Seq(Nat)]
    <3>1. failed[a] \in Seq(Nat) /\ now \in Nat
      BY <2>1 DEF TypeOK
    <3>2. Append(failed[a], now) \in Seq(Nat)
      BY <3>1
    <3> QED BY <2>3, <3>2 DEF TypeOK
  <2>7. /\ Entries(With(a, e))
        /\ \A b \in Addresses \ {a} : b \in DOMAIN entries => KeepsBlock(With(a, e), b)
    BY <2>1, <2>2, WithKeeps
  <2>8. \A b \in Addresses : Blocked(b) /\ ~InFlight(b) =>
            KeepsBlock(With(a, e), b) /\ ~InFlight(b)'
    <3>1. \A b \in Addresses : ~InFlight(b) => ~InFlight(b)'
      BY <2>3, NilAssumption DEF InFlight, TypeOK
    <3> QED BY <2>4, <2>7, <3>1 DEF Blocked
  <2> QED BY <2>3, <2>5, <2>6, <2>7, <2>8, MethodStep
<1>4. ASSUME NEW r \in Requests, Succeed(r)
      PROVE  TypeOK' /\ \A b \in Addresses : Holds(b)
  <2> DEFINE a == req[r]
             written == [b \in DOMAIN entries \ {a} |-> entries[b]]
  <2>1. a \in Addresses
    BY <1>4 DEF Succeed, TypeOK
  <2>2. /\ StoreAndClean(written)
        /\ req' = [req EXCEPT ![r] = Nil]
        /\ failed' = [failed EXCEPT ![a] = <<>>]
        /\ now' = now
    BY <1>4 DEF Succeed
  <2>3. InFlight(a)
    BY DEF InFlight
  <2>4. /\ Entries(written)
        /\ \A b \in DOMAIN entries \ {a} : KeepsBlock(written, b)
    BY DEF Entries, KeepsBlock, TypeOK
  <2> HIDE DEF written
  <2>5. /\ req' \in [Requests -> Addresses \cup {Nil}]
        /\ failed' \in [Addresses -> Seq(Nat)]
    <3>1. <<>> \in Seq(Nat)
      OBVIOUS
    <3>2. /\ req \in [Requests -> Addresses \cup {Nil}]
          /\ failed \in [Addresses -> Seq(Nat)]
      BY DEF TypeOK
    <3> QED BY <2>1, <2>2, <3>1, <3>2
  <2>6. \A b \in Addresses : Blocked(b) /\ ~InFlight(b) =>
            KeepsBlock(written, b) /\ ~InFlight(b)'
    <3>1. \A b \in Addresses : ~InFlight(b) => ~InFlight(b)'
      BY <2>2, NilAssumption DEF InFlight, TypeOK
    <3> QED BY <2>3, <2>4, <3>1 DEF Blocked
  <2> QED BY <2>2, <2>4, <2>5, <2>6, MethodStep
<1>5. CASE Tick
  <2>1. now \in 1..MaxTime /\ now' = now + 1 /\ now < MaxTime /\ MaxTime \in Nat
    BY <1>5, LimiterAssumption DEF Tick, TypeOK
  <2>2. UNCHANGED <<entries, lastCleanup, req, failed>>
    BY <1>5 DEF Tick
  <2>3. TypeOK'
    BY <2>1, <2>2 DEF TypeOK
  <2>4. ASSUME NEW a \in Addresses, Blocked(a), ~InFlight(a)
        PROVE  Holds(a)
    <3>1. entries[a].blockedUntil \in Nat
      BY <2>4 DEF Blocked, TypeOK, AuthAttempt
    <3> QED BY <2>1, <2>2, <2>4, <3>1 DEF Holds, Blocked, InFlight
  <2> QED BY <2>3, <2>4 DEF Holds
<1>6. CASE UNCHANGED vars
  BY <1>6 DEF vars, TypeOK, Holds, Blocked, InFlight
<1> QED BY <1>1, <1>2, <1>3, <1>4, <1>5, <1>6 DEF Next

-----------------------------------------------------------------------------

\* Every state of the limiter is well typed: no failure count goes below zero, and
\* only addresses are in flight (auth_attempt_limiter.go).
THEOREM TypeCorrect == Spec => []TypeOK
BY InitType, StepKeeps, PTL DEF Spec

\* For any number of addresses and concurrent requests and any times, an address
\* that is blocked and has no request in flight stays blocked until its time has
\* come: neither other addresses nor the cleanup lift its block.
THEOREM BlocksAreKept == Spec => BlocksHold
<1>1. Spec => []TypeOK
  BY TypeCorrect
<1>2. TypeOK /\ [Next]_vars =>
        [\A a \in Addresses : Blocked(a) /\ ~InFlight(a) =>
            \/ now' >= entries[a].blockedUntil
            \/ Blocked(a)' /\ entries'[a].blockedUntil = entries[a].blockedUntil
               /\ ~InFlight(a)']_vars
  BY StepKeeps DEF Holds
<1> QED BY <1>1, <1>2, PTL DEF Spec, BlocksHold

-----------------------------------------------------------------------------
\* Failures are bounded, with thresholds and times as the defaults have them.

Tuned == MaxFailures > 1 /\ BlockDuration > WindowLength /\ StaleEntryTTL >= WindowLength

\* Of two windows one of which blocks, and of the requests in flight by then.
Bound == 2 * MaxFailures - 1 + Cardinality(Requests) - 1

\* The requests of a that are in flight.
Pending(a) == Cardinality({r \in Requests : req[r] = a})

-----------------------------------------------------------------------------
\* Sequences of times, such as the times of the failures of an address.

Past(s, t) == \A i \in 1..Len(s) : s[i] <= t

Ordered(s) == \A i, j \in 1..Len(s) : i <= j => s[i] <= s[j]

\* Any n + 1 successive times take longer than a window.
Apart(s, n) == \A i \in 1..Len(s) : i + n <= Len(s) => s[i] + WindowLength < s[i + n]

\* All but the last n times are more than a window before t.
Before(s, n, t) == \A i \in 1..Len(s) : i + n <= Len(s) => s[i] + WindowLength < t

\* e may be the entry of an address that failed at the times s, with p requests in
\* flight.  The failures that e counts are the last ones.  If the window of e did not
\* begin with a block, the one before it had no more than MaxFailures - 1, and earlier
\* ones are long ago.  If it did, two windows and the requests that have ended since
\* the block account for all that is recent: nothing is admitted meanwhile.
Counts(s, e, p) ==
    /\ e.failures < MaxFailures
    /\ e.failures <= Len(s)
    /\ e.windowStart <= e.lastSeen
    /\ e.lastSeen <= now
    /\ e.blockedUntil <= e.windowStart + BlockDuration
    /\ Past(s, e.lastSeen)
    /\ \A i \in 1..Len(s) : i + e.failures <= Len(s) => s[i] <= e.windowStart
    /\ e.blockedUntil < e.windowStart + BlockDuration =>
           Before(s, e.failures + (MaxFailures - 1), e.windowStart)
    /\ e.blockedUntil = e.windowStart + BlockDuration =>
           \A i \in 1..Len(s) : i + Bound <= Len(s) + p =>
               s[i] + WindowLength < e.windowStart

\* With these entries, s may be the times at which a failed.
Recorded(written, s, a, p) ==
    /\ Past(s, now) /\ Ordered(s) /\ Apart(s, Bound)
    /\ a \in DOMAIN written => Counts(s, written[a], p)
    /\ a \notin DOMAIN written => Before(s, 0, now)

FailuresRecorded ==
    Tuned => \A a \in Addresses : Recorded(entries, failed[a], a, Pending(a))

\* The figures of a tuned limiter.
LEMMA BoundType ==
    ASSUME Tuned
    PROVE  /\ Cardinality(Requests) \in Nat
           /\ MaxFailures \in Nat /\ MaxFailures > 1
           /\ WindowLength \in Nat /\ WindowLength > 0
           /\ BlockDuration \in Nat /\ BlockDuration > WindowLength
           /\ StaleEntryTTL \in Nat /\ StaleEntryTTL >= WindowLength
           /\ Bound = MaxFailures + MaxFailures + Cardinality(Requests) - 2
           /\ Bound \in Nat
<1>1. Cardinality(Requests) \in Nat
  BY RequestsAssumption, FS_CardinalityType
<1> QED BY <1>1, LimiterAssumption DEF Tuned, Bound

LEMMA AttemptFields ==
    ASSUME NEW e \in AuthAttempt
    PROVE  /\ e.failures \in Nat /\ e.windowStart \in Nat
           /\ e.blockedUntil \in Nat /\ e.lastSeen \in Nat
BY DEF AuthAttempt

\* Arithmetic of the lengths below.
LEMMA OneMore ==
    ASSUME NEW i \in Nat, NEW l \in Nat, i <= l + 1
    PROVE  i <= l \/ i = l + 1
OBVIOUS

LEMMA AtMost ==
    ASSUME NEW i \in Nat, NEW j \in Nat, i <= j
    PROVE  i = j \/ i < j
OBVIOUS

LEMMA TwoWindows ==
    ASSUME NEW i \in Nat, NEW l \in Nat, NEW p \in Nat, NEW q \in Nat,
           NEW c \in Nat, NEW m \in Nat, c < m, p <= q,
           i + (m + m + q - 2) <= l + p
    PROVE  i + (c + (m - 1)) <= l
OBVIOUS

LEMMA NextTime ==
    ASSUME NEW i \in Nat, NEW l \in Nat, NEW c \in Nat, NEW m \in Nat, i > 0, m > 1,
           i + ((c + 1) + (m - 1)) <= l + 1
    PROVE  i \in 1..l /\ i + (c + (m - 1)) <= l
OBVIOUS

LEMMA AmongNext ==
    ASSUME NEW i \in Nat, NEW m \in Nat, NEW n \in Nat, m <= i, i < m + n
    PROVE  i \in m..(m + n - 1)
OBVIOUS

\* One more time.
LEMMA AppendTime ==
    ASSUME NEW s \in Seq(Nat), NEW t \in Nat, Past(s, t), Ordered(s)
    PROVE  /\ Append(s, t) \in Seq(Nat)
           /\ Len(s) \in Nat
           /\ Len(Append(s, t)) = Len(s) + 1
           /\ Append(s, t)[Len(s) + 1] = t
           /\ \A i \in 1..Len(s) : Append(s, t)[i] = s[i] /\ s[i] \in Nat
           /\ Past(Append(s, t), t)
           /\ Ordered(Append(s, t))
<1> DEFINE u == Append(s, t)
<1>1. /\ u \in Seq(Nat)
      /\ Len(u) = Len(s) + 1
      /\ u[Len(s) + 1] = t
      /\ \A i \in 1..Len(s) : u[i] = s[i] /\ s[i] \in Nat
      /\ Len(s) \in Nat
  OBVIOUS
<1> HIDE DEF u
<1>2. Past(u, t)
  BY <1>1 DEF Past
<1>3. Ordered(u)
  <2> SUFFICES ASSUME NEW i \in 1..Len(u), NEW j \in 1..Len(u), i <= j
               PROVE  u[i] <= u[j]
    BY DEF Ordered
  <2>1. CASE j = Len(s) + 1
    BY <1>1, <1>2, <2>1 DEF Past
  <2>2. CASE j # Len(s) + 1
    <3>1. i \in 1..Len(s) /\ j \in 1..Len(s)
      BY <1>1, <2>2
    <3> QED BY <1>1, <3>1 DEF Ordered
  <2> QED BY <2>1, <2>2
<1> QED BY <1>1, <1>2, <1>3 DEF u

\* One more time keeps all apart, if the others but for n - 1 are long ago.
LEMMA AppendApart ==
    ASSUME NEW s \in Seq(Nat), NEW t \in Nat, Past(s, t), Ordered(s),
           NEW n \in Nat, Apart(s, n),
           \A i \in 1..Len(s) : i + n = Len(s) + 1 => s[i] + WindowLength < t,
           n > 0
    PROVE  Apart(Append(s, t), n)
<1> DEFINE u == Append(s, t)
<1>1. /\ Len(u) = Len(s) + 1
      /\ u[Len(s) + 1] = t
      /\ \A i \in 1..Len(s) : u[i] = s[i]
      /\ Len(s) \in Nat
  BY AppendTime
<1> HIDE DEF u
<1> SUFFICES ASSUME NEW i \in 1..Len(u), i + n <= Len(u)
             PROVE  u[i] + WindowLength < u[i + n]
  BY DEF Apart, u
<1>2. CASE i + n <= Len(s)
  <2>1. i \in 1..Len(s) /\ i + n \in 1..Len(s)
    BY <1>1, <1>2
  <2>2. s[i] + WindowLength < s[i + n]
    BY <1>2, <2>1 DEF Apart
  <2> QED BY <1>1, <2>1, <2>2
<1>3. CASE i + n = Len(s) + 1
  <2>1. i \in 1..Len(s)
    BY <1>1, <1>3
  <2>2. s[i] + WindowLength < t
    BY <1>3, <2>1
  <2> QED BY <1>1, <1>3, <2>1, <2>2
<1>4. i + n <= Len(s) \/ i + n = Len(s) + 1
  <2>1. i \in Nat /\ i + n <= Len(s) + 1
    BY <1>1
  <2>2. i + n \in Nat
    BY <2>1
  <2> QED BY <1>1, <2>1, <2>2, OneMore
<1> QED BY <1>2, <1>3, <1>4

\* A set of numbers has a least one.
LEMMA LeastElement ==
    ASSUME NEW S \in SUBSET Nat, S # {}
    PROVE  \E m \in S : \A i \in S : m <= i
<1>1. PICK m \in S : \A i \in S : <<i, m>> \notin OpToRel(<, Nat)
  BY NatLessThanWellFounded, WFMin
<1>2. ASSUME NEW i \in S
      PROVE  m <= i
  <2>1. <<i, m>> \in Nat \X Nat
    OBVIOUS
  <2>2. ~(i < m)
    BY <1>1, <2>1 DEF OpToRel
  <2> QED BY <2>2
<1> QED BY <1>2

\* Times apart are not crowded: no more than n of them fall into a time as long as a
\* window.
LEMMA ApartAreFew ==
    ASSUME NEW s \in Seq(Nat), NEW n \in Nat, NEW t \in Nat, Ordered(s), Apart(s, n)
    PROVE  Cardinality({i \in DOMAIN s : s[i] \in t..t + WindowLength}) <= n
<1> DEFINE S == {i \in DOMAIN s : s[i] \in t..t + WindowLength}
<1>1. /\ \A i \in 1..Len(s) : s[i] \in Nat
      /\ Len(s) \in Nat
      /\ DOMAIN s = 1..Len(s)
      /\ WindowLength \in Nat
  BY LimiterAssumption
<1>2. CASE S = {}
  <2>1. Cardinality(S) = 0
    BY <1>2, FS_EmptySet
  <2> QED BY <2>1
<1>3. CASE S # {}
  <2>1. PICK m \in S : \A i \in S : m <= i
    <3>1. S \subseteq Nat
      BY <1>1
    <3> HIDE DEF S
    <3> QED BY <1>3, <3>1, LeastElement
  <2>2. ASSUME NEW i \in S
        PROVE  i \in m..(m + n - 1)
    <3>1. /\ m \in 1..Len(s) /\ i \in 1..Len(s) /\ m <= i
          /\ t <= s[m] /\ s[i] <= t + WindowLength
      BY <1>1, <2>1
    <3>2. CASE i >= m + n
      <4>1. m + n \in 1..Len(s)
        BY <1>1, <3>1, <3>2
      <4>2. s[m] + WindowLength < s[m + n] /\ s[m + n] <= s[i]
        BY <3>1, <3>2, <4>1 DEF Ordered, Apart
      <4>3. s[m] \in Nat /\ s[m + n] \in Nat /\ s[i] \in Nat
        BY <1>1, <3>1, <4>1
      <4>4. s[m] + WindowLength < s[i]
        BY <1>1, <4>2, <4>3
      <4> QED BY <1>1, <3>1, <4>3, <4>4
    <3>3. i < m + n
      BY <3>2
    <3>4. i \in Nat /\ m \in Nat /\ m <= i
      BY <3>1
    <3> QED BY <3>3, <3>4, AmongNext
  <2>3. /\ IsFiniteSet(m..(m + n - 1))
        /\ Cardinality(m..(m + n - 1)) = n
    <3>1. m \in Int /\ m + n - 1 \in Int
      BY <1>1, <2>1
    <3>2. n = IF m > m + n - 1 THEN 0 ELSE (m + n - 1) - m + 1
      BY <3>1
    <3> QED BY <3>1, <3>2, FS_Interval
  <2> QED BY <2>2, <2>3, FS_Subset
<1> QED BY <1>2, <1>3

-----------------------------------------------------------------------------
\* What the methods do to the entry of an address.

LEMMA RefreshedFields ==
    ASSUME NEW e \in AuthAttempt, now \in Nat
    PROVE  /\ Refreshed(e).lastSeen = now
           /\ Refreshed(e).blockedUntil = e.blockedUntil
           /\ now - e.windowStart > WindowLength =>
                  Refreshed(e).failures = 0 /\ Refreshed(e).windowStart = now
           /\ ~(now - e.windowStart > WindowLength) =>
                  Refreshed(e).failures = e.failures
                  /\ Refreshed(e).windowStart = e.windowStart
BY DEF Refreshed, AuthAttempt

\* A new window forgets only what is long ago.
LEMMA RefreshedCounts ==
    ASSUME Tuned, NEW s \in Seq(Nat), NEW e \in AuthAttempt, now \in Nat, NEW p \in Nat,
           Counts(s, e, p)
    PROVE  /\ Counts(s, Refreshed(e), p)
           /\ now <= Refreshed(e).windowStart + WindowLength
<1> DEFINE f == Refreshed(e)
<1>0. /\ MaxFailures \in Nat /\ MaxFailures > 1
      /\ WindowLength \in Nat /\ WindowLength > 0
      /\ BlockDuration \in Nat /\ BlockDuration > WindowLength
  BY BoundType
<1>1. /\ Len(s) \in Nat
      /\ \A i \in 1..Len(s) : s[i] \in Nat
      /\ e.failures \in Nat /\ e.windowStart \in Nat
      /\ e.blockedUntil \in Nat /\ e.lastSeen \in Nat
  BY AttemptFields
<1>2. /\ f.lastSeen = now
      /\ f.blockedUntil = e.blockedUntil
      /\ now - e.windowStart > WindowLength => f.failures = 0 /\ f.windowStart = now
      /\ ~(now - e.windowStart > WindowLength) =>
             f.failures = e.failures /\ f.windowStart = e.windowStart
  BY RefreshedFields
<1> HIDE DEF f
<1>3. Past(s, now)
  BY <1>1 DEF Counts, Past
<1>4. CASE ~(now - e.windowStart > WindowLength)
  <2>1. now <= e.windowStart + WindowLength
    BY <1>1, <1>4, <1>0
  <2> QED BY <1>1, <1>2, <1>3, <1>4, <2>1 DEF Counts, f
<1>5. CASE now - e.windowStart > WindowLength
  <2>1. /\ f.failures = 0 /\ f.windowStart = now
        /\ e.windowStart + WindowLength < now
        /\ e.blockedUntil < now + BlockDuration
    BY <1>1, <1>2, <1>5, <1>0 DEF Counts
  <2>2. Before(s, MaxFailures - 1, now)
    <3> SUFFICES ASSUME NEW i \in 1..Len(s), i + (MaxFailures - 1) <= Len(s)
                 PROVE  s[i] + WindowLength < now
      BY DEF Before
    <3>1. i + e.failures <= Len(s)
      BY <1>1, <1>0 DEF Counts
    <3>2. s[i] <= e.windowStart
      BY <3>1 DEF Counts
    <3> QED BY <1>1, <2>1, <3>2, <1>0
  <2>3. 0 + (MaxFailures - 1) = MaxFailures - 1
    BY <1>0
  <2>4. \A i \in 1..Len(s) : s[i] <= now
    BY <1>3 DEF Past
  <2> QED BY <1>1, <1>2, <1>3, <2>1, <2>2, <2>3, <2>4, <1>0 DEF Counts, f
<1> QED BY <1>4, <1>5

\* An address is admitted when it is not blocked: whatever is in flight then.
LEMMA AdmittedCounts ==
    ASSUME Tuned, NEW s \in Seq(Nat), NEW e \in AuthAttempt, now \in Nat, NEW p \in Nat,
           Counts(s, e, p), ~(now < e.blockedUntil), NEW q \in Nat
    PROVE  Counts(s, Refreshed(e), q)
<1>0. BlockDuration \in Nat /\ BlockDuration > WindowLength /\ WindowLength \in Nat
  BY BoundType
<1>1. /\ Counts(s, Refreshed(e), p)
      /\ now <= Refreshed(e).windowStart + WindowLength
      /\ Refreshed(e).blockedUntil = e.blockedUntil
      /\ Refreshed(e).windowStart \in Nat
      /\ e.blockedUntil \in Nat
  BY RefreshedCounts, RefreshedFields, AttemptFields
<1>2. Refreshed(e).blockedUntil < Refreshed(e).windowStart + BlockDuration
  BY <1>1, <1>0
<1> QED BY <1>1, <1>2, <1>0 DEF Counts

\* A refused request is seen.
LEMMA SeenCounts ==
    ASSUME NEW s \in Seq(Nat), NEW e \in AuthAttempt, now \in Nat, NEW p \in Nat,
           Counts(s, e, p)
    PROVE  Counts(s, [e EXCEPT !.lastSeen = now], p)
<1> DEFINE f == [e EXCEPT !.lastSeen = now]
<1>1. /\ f.lastSeen = now
      /\ f.failures = e.failures /\ f.windowStart = e.windowStart
      /\ f.blockedUntil = e.blockedUntil
  BY DEF AuthAttempt
<1> HIDE DEF f
<1>2. /\ \A i \in 1..Len(s) : s[i] \in Nat
      /\ e.windowStart \in Nat /\ e.lastSeen \in Nat
  BY AttemptFields
<1>3. Past(s, now)
  BY <1>2 DEF Counts, Past
<1>4. e.windowStart <= now /\ now <= now
  BY <1>2 DEF Counts
<1> QED BY <1>1, <1>3, <1>4 DEF Counts, f

\* Of the times that a window has begun with, a failure now is apart.
LEMMA FailApart ==
    ASSUME Tuned, NEW s \in Seq(Nat), NEW e \in AuthAttempt, now \in Nat,
           NEW p \in Nat, Counts(s, e, p), 0 < p, p <= Cardinality(Requests)
    PROVE  \A i \in 1..Len(s) : i + Bound <= Len(s) + p => s[i] + WindowLength < e.windowStart
<1>0. /\ MaxFailures \in Nat /\ MaxFailures > 1
      /\ Cardinality(Requests) \in Nat
      /\ BlockDuration \in Nat
      /\ Bound = MaxFailures + MaxFailures + Cardinality(Requests) - 2
  BY BoundType
<1>1. /\ Len(s) \in Nat
      /\ e.failures \in Nat /\ e.windowStart \in Nat /\ e.blockedUntil \in Nat
  BY AttemptFields
<1> SUFFICES ASSUME NEW i \in 1..Len(s), i + Bound <= Len(s) + p
             PROVE  s[i] + WindowLength < e.windowStart
  OBVIOUS
<1>2. CASE e.blockedUntil = e.windowStart + BlockDuration
  BY <1>2 DEF Counts
<1>3. CASE e.blockedUntil < e.windowStart + BlockDuration
  <2>1. Before(s, e.failures + (MaxFailures - 1), e.windowStart)
    BY <1>3 DEF Counts
  <2>2. e.failures < MaxFailures /\ i \in Nat
    BY <1>1 DEF Counts
  <2>3. p \in Nat /\ p <= Cardinality(Requests)
    OBVIOUS
  <2>4. i + (MaxFailures + MaxFailures + Cardinality(Requests) - 2) <= Len(s) + p
    BY <1>0
  <2>5. i + (e.failures + (MaxFailures - 1)) <= Len(s)
    BY <1>0, <1>1, <2>2, <2>3, <2>4, TwoWindows
  <2> QED BY <2>1, <2>5 DEF Before
<1>4. e.blockedUntil <= e.windowStart + BlockDuration
  BY DEF Counts
<1>5. e.windowStart + BlockDuration \in Nat
  <2>1. e.windowStart \in Nat
    BY <1>1
  <2>2. BlockDuration \in Nat
    BY <1>0
  <2> QED BY <2>1, <2>2
<1>6. \/ e.blockedUntil = e.windowStart + BlockDuration
      \/ e.blockedUntil < e.windowStart + BlockDuration
  BY <1>1, <1>4, <1>5, AtMost
<1> QED BY <1>2, <1>3, <1>6

LEMMA CountedFields ==
    ASSUME NEW e \in AuthAttempt
    PROVE  /\ Counted(e).lastSeen = e.lastSeen
           /\ e.failures + 1 >= MaxFailures =>
                  /\ Counted(e).failures = 0 /\ Counted(e).windowStart = now
                  /\ Counted(e).blockedUntil = now + BlockDuration
           /\ ~(e.failures + 1 >= MaxFailures) =>
                  /\ Counted(e).failures = e.failures + 1
                  /\ Counted(e).windowStart = e.windowStart
                  /\ Counted(e).blockedUntil = e.blockedUntil
BY DEF Counted, AuthAttempt

\* A failure is counted, and its request has ended.
LEMMA FailCounts ==
    ASSUME Tuned, NEW s \in Seq(Nat), NEW e \in AuthAttempt, now \in Nat,
           NEW p \in Nat, Counts(s, e, p), 0 < p, p <= Cardinality(Requests),
           e.lastSeen = now, Ordered(s)
    PROVE  Counts(Append(s, now), Counted(e), p - 1)
<1> DEFINE u == Append(s, now)
           g == Counted(e)
<1>0. /\ MaxFailures \in Nat /\ MaxFailures > 1
      /\ Cardinality(Requests) \in Nat
      /\ BlockDuration \in Nat /\ BlockDuration > 0
      /\ Bound \in Nat /\ Bound > Cardinality(Requests)
  <2>1. /\ MaxFailures \in Nat /\ MaxFailures > 1
        /\ WindowLength \in Nat
        /\ Cardinality(Requests) \in Nat
        /\ BlockDuration \in Nat /\ BlockDuration > WindowLength
        /\ Bound = MaxFailures + MaxFailures + Cardinality(Requests) - 2
        /\ Bound \in Nat
    BY BoundType
  <2> QED BY <2>1
<1>1. /\ e.failures \in Nat /\ e.windowStart \in Nat /\ e.blockedUntil \in Nat
  BY AttemptFields
<1>2. /\ Len(s) \in Nat
      /\ Len(u) = Len(s) + 1
      /\ u[Len(s) + 1] = now
      /\ \A i \in 1..Len(s) : u[i] = s[i] /\ s[i] \in Nat
      /\ Past(u, now)
  <2>1. Past(s, now)
    BY DEF Counts
  <2> QED BY <2>1, AppendTime
<1>3. /\ g.lastSeen = now
      /\ e.failures + 1 >= MaxFailures =>
            g.failures = 0 /\ g.windowStart = now /\ g.blockedUntil = now + BlockDuration
      /\ ~(e.failures + 1 >= MaxFailures) =>
            /\ g.failures = e.failures + 1 /\ g.windowStart = e.windowStart
            /\ g.blockedUntil = e.blockedUntil
  BY CountedFields
<1> HIDE DEF u, g
<1>4. \A i \in 1..Len(u) : i + Bound <= Len(u) + (p - 1) =>
          u[i] + WindowLength < e.windowStart
  <2> SUFFICES ASSUME NEW i \in 1..Len(u), i + Bound <= Len(u) + (p - 1)
               PROVE  u[i] + WindowLength < e.windowStart
    OBVIOUS
  <2>1. i \in 1..Len(s) /\ i + Bound <= Len(s) + p
    BY <1>0, <1>2
  <2>2. s[i] + WindowLength < e.windowStart
    BY <2>1, FailApart
  <2> QED BY <1>2, <2>1, <2>2
<1>5. /\ e.failures < MaxFailures /\ e.failures <= Len(s)
      /\ e.windowStart <= now
      /\ e.blockedUntil <= e.windowStart + BlockDuration
      /\ \A i \in 1..Len(s) : i + e.failures <= Len(s) => s[i] <= e.windowStart
      /\ e.blockedUntil < e.windowStart + BlockDuration =>
             Before(s, e.failures + (MaxFailures - 1), e.windowStart)
  BY DEF Counts
<1>6. now <= now
  OBVIOUS
<1>7. CASE e.failures + 1 >= MaxFailures
  <2>1. g.failures = 0 /\ g.windowStart = now /\ g.blockedUntil = now + BlockDuration
    BY <1>3, <1>7
  <2>2. \A i \in 1..Len(u) : i + Bound <= Len(u) + (p - 1) => u[i] + WindowLength < now
    <3> SUFFICES ASSUME NEW i \in 1..Len(u), i + Bound <= Len(u) + (p - 1)
                 PROVE  u[i] + WindowLength < now
      OBVIOUS
    <3>1. u[i] + WindowLength < e.windowStart
      BY <1>4
    <3>2. u[i] \in Nat /\ WindowLength \in Nat
      BY <1>2, LimiterAssumption
    <3> QED BY <1>1, <1>5, <3>1, <3>2
  <2>3. \A i \in 1..Len(u) : u[i] <= now
    BY <1>2 DEF Past
  <2>4. /\ 0 < MaxFailures /\ 0 <= Len(u)
        /\ now + BlockDuration <= now + BlockDuration
        /\ ~(now + BlockDuration < now + BlockDuration)
    BY <1>0, <1>2
  <2> QED BY <1>2, <1>3, <1>6, <2>1, <2>2, <2>3, <2>4 DEF Counts, u, g
<1>8. CASE ~(e.failures + 1 >= MaxFailures)
  <2>1. /\ g.failures = e.failures + 1 /\ g.windowStart = e.windowStart
        /\ g.blockedUntil = e.blockedUntil
    BY <1>3, <1>8
  <2>2. e.failures + 1 < MaxFailures /\ e.failures + 1 <= Len(u)
    BY <1>0, <1>1, <1>2, <1>5, <1>8
  <2>3. \A i \in 1..Len(u) : i + (e.failures + 1) <= Len(u) => u[i] <= e.windowStart
    <3> SUFFICES ASSUME NEW i \in 1..Len(u), i + (e.failures + 1) <= Len(u)
                 PROVE  u[i] <= e.windowStart
      OBVIOUS
    <3>1. i \in 1..Len(s) /\ i + e.failures <= Len(s)
      BY <1>1, <1>2
    <3> QED BY <1>2, <1>5, <3>1
  <2>4. e.blockedUntil < e.windowStart + BlockDuration =>
            Before(u, (e.failures + 1) + (MaxFailures - 1), e.windowStart)
    <3> SUFFICES ASSUME e.blockedUntil < e.windowStart + BlockDuration,
                        NEW i \in 1..Len(u),
                        i + ((e.failures + 1) + (MaxFailures - 1)) <= Len(u)
                 PROVE  u[i] + WindowLength < e.windowStart
      BY DEF Before
    <3>1. i \in 1..Len(s) /\ i + (e.failures + (MaxFailures - 1)) <= Len(s)
      <4>1. i \in Nat /\ i > 0
        BY <1>2
      <4>2. i + ((e.failures + 1) + (MaxFailures - 1)) <= Len(s) + 1
        BY <1>2
      <4> QED BY <1>0, <1>1, <1>2, <4>1, <4>2, NextTime
    <3>2. s[i] + WindowLength < e.windowStart
      BY <1>5, <3>1 DEF Before
    <3> QED BY <1>2, <3>1, <3>2
  <2> QED BY <1>2, <1>3, <1>4, <1>5, <1>6, <2>1, <2>2, <2>3, <2>4 DEF Counts, u, g
<1> QED BY <1>7, <1>8

\* The first failure of an address that none is remembered of.
LEMMA FirstFailureCounts ==
    ASSUME Tuned, NEW s \in Seq(Nat), now \in Nat, NEW q \in Nat,
           Past(s, now), Ordered(s), Before(s, 0, now)
    PROVE  Counts(Append(s, now), FirstFailure, q)
<1> DEFINE u == Append(s, now)
           g == FirstFailure
<1>0. /\ MaxFailures \in Nat /\ MaxFailures > 1
      /\ BlockDuration \in Nat /\ BlockDuration > 0
  <2>1. /\ MaxFailures \in Nat /\ MaxFailures > 1
        /\ WindowLength \in Nat
        /\ BlockDuration \in Nat /\ BlockDuration > WindowLength
    BY BoundType
  <2> QED BY <2>1
<1>1. g.failures = 1 /\ g.windowStart = now /\ g.blockedUntil = 0 /\ g.lastSeen = now
  BY DEF FirstFailure
<1>2. /\ Len(s) \in Nat
      /\ Len(u) = Len(s) + 1
      /\ \A i \in 1..Len(s) : u[i] = s[i] /\ s[i] \in Nat
      /\ Past(u, now)
  BY AppendTime
<1> HIDE DEF u, g
<1>3. \A i \in 1..Len(u) : u[i] <= now
  BY <1>2 DEF Past
<1>4. Before(u, 1 + (MaxFailures - 1), now)
  <2> SUFFICES ASSUME NEW i \in 1..Len(u), i + (1 + (MaxFailures - 1)) <= Len(u)
               PROVE  u[i] + WindowLength < now
    BY DEF Before
  <2>1. i \in 1..Len(s) /\ i + 0 <= Len(s)
    BY <1>0, <1>2
  <2>2. s[i] + WindowLength < now
    BY <2>1 DEF Before
  <2> QED BY <1>2, <2>1, <2>2
<1>5. /\ 1 < MaxFailures /\ 1 <= Len(u) /\ now <= now
      /\ 0 <= now + BlockDuration /\ 0 # now + BlockDuration
  BY <1>0, <1>2
<1> QED BY <1>1, <1>2, <1>3, <1>4, <1>5 DEF Counts, u, g

-----------------------------------------------------------------------------
\* The requests in flight.

LEMMA PendingType ==
    ASSUME NEW a
    PROVE  /\ Pending(a) \in Nat
           /\ Pending(a) <= Cardinality(Requests)
           /\ IsFiniteSet({r \in Requests : req[r] = a})
           /\ Cardinality({r \in Requests : req'[r] = a}) \in Nat
<1>1. /\ {r \in Requests : req[r] = a} \subseteq Requests
      /\ {r \in Requests : req'[r] = a} \subseteq Requests
  OBVIOUS
<1> QED BY <1>1, RequestsAssumption, FS_Subset, FS_CardinalityType DEF Pending

\* One of a ends.
LEMMA PendingEnds ==
    ASSUME TypeOK, NEW r \in Requests, NEW a \in Addresses, req[r] = a,
           req' = [req EXCEPT ![r] = Nil]
    PROVE  /\ Pending(a) > 0
           /\ Pending(a)' = Pending(a) - 1
           /\ \A b \in Addresses \ {a} : Pending(b)' = Pending(b)
<1> DEFINE S == {q \in Requests : req[q] = a}
<1>0. a # Nil
  BY NilAssumption
<1>1. {q \in Requests : req'[q] = a} = S \ {r}
  BY <1>0 DEF TypeOK
<1>2. IsFiniteSet(S) /\ r \in S /\ Cardinality(S) \in Nat
  BY PendingType, FS_CardinalityType
<1> HIDE DEF S
<1>3. Cardinality(S \ {r}) = Cardinality(S) - 1 /\ IsFiniteSet(S \ {r})
  BY <1>2, FS_RemoveElement
<1>4. Cardinality(S \ {r}) \in Nat
  BY <1>3, FS_CardinalityType
<1>5. Pending(a)' = Cardinality(S \ {r}) /\ Pending(a) = Cardinality(S)
  BY <1>1 DEF Pending, S
<1>6. ASSUME NEW b \in Addresses \ {a}
      PROVE  Pending(b)' = Pending(b)
  <2>1. {q \in Requests : req'[q] = b} = {q \in Requests : req[q] = b}
    BY NilAssumption DEF TypeOK
  <2> QED BY <2>1 DEF Pending
<1>7. Pending(a) > 0
  BY <1>2, <1>3, <1>4, <1>5
<1> QED BY <1>3, <1>5, <1>6, <1>7

\* One of a is admitted.
LEMMA PendingBegins ==
    ASSUME TypeOK, NEW r \in Requests, NEW a \in Addresses, req[r] = Nil,
           req' = [req EXCEPT ![r] = a]
    PROVE  \A b \in Addresses \ {a} : Pending(b)' = Pending(b)
<1> SUFFICES ASSUME NEW b \in Addresses \ {a}
             PROVE  Pending(b)' = Pending(b)
  OBVIOUS
<1>1. {q \in Requests : req'[q] = b} = {q \in Requests : req[q] = b}
  BY NilAssumption DEF TypeOK
<1> QED BY <1>1 DEF Pending

-----------------------------------------------------------------------------
\* The entries and the failures belong together.

\* An entry that the cleanup drops was last seen before the window.
LEMMA CleanedRecords ==
    ASSUME Tuned, NEW written, Entries(written), now \in Nat, NEW s \in Seq(Nat), NEW a,
           NEW p \in Nat, Recorded(written, s, a, p)
    PROVE  Recorded(Cleaned(written), s, a, p)
<1>0. WindowLength \in Nat /\ StaleEntryTTL \in Nat /\ StaleEntryTTL >= WindowLength
  BY BoundType
<1>1. CASE a \in DOMAIN Cleaned(written)
  <2>1. a \in DOMAIN written /\ Cleaned(written)[a] = written[a]
    BY <1>1 DEF Cleaned
  <2> QED BY <1>1, <2>1 DEF Recorded
<1>2. CASE a \notin DOMAIN written
  <2>1. a \notin DOMAIN Cleaned(written)
    BY <1>2 DEF Cleaned
  <2> QED BY <1>2, <2>1 DEF Recorded
<1>3. CASE a \in DOMAIN written /\ a \notin DOMAIN Cleaned(written)
  <2> DEFINE e == written[a]
  <2>1. Stale(e)
    BY <1>3 DEF Cleaned
  <2>2. e \in AuthAttempt
    BY <1>3 DEF Entries
  <2>3. Past(s, e.lastSeen)
    BY <1>3 DEF Recorded, Counts
  <2> HIDE DEF e
  <2>4. Before(s, 0, now)
    <3> SUFFICES ASSUME NEW i \in 1..Len(s)
                 PROVE  s[i] + WindowLength < now
      BY DEF Before
    <3>1. s[i] <= e.lastSeen /\ s[i] \in Nat /\ e.lastSeen \in Nat
      BY <2>2, <2>3, AttemptFields DEF Past
    <3>2. now - e.lastSeen > StaleEntryTTL
      BY <2>1 DEF Stale
    <3> QED BY <1>0, <3>1, <3>2
  <2> QED BY <1>3, <2>4 DEF Recorded
<1> QED BY <1>1, <1>2, <1>3

\* A method that writes what belongs to the failures of an address.
LEMMA MethodRecords ==
    ASSUME Tuned, TypeOK, TypeOK', NEW written, Entries(written), StoreAndClean(written),
           now' = now, NEW a \in Addresses, Recorded(written, failed'[a], a, Pending(a)')
    PROVE  Recorded(entries, failed[a], a, Pending(a))'
<1>1. now \in Nat /\ failed'[a] \in Seq(Nat)
  BY DEF TypeOK
<1>2. Pending(a)' \in Nat
  BY PendingType DEF Pending
<1>3. entries' = Cleaned(written)
  BY DEF StoreAndClean
<1>4. Recorded(entries', failed'[a], a, Pending(a)')
  BY <1>1, <1>2, <1>3, CleanedRecords
<1> QED BY <1>4 DEF Recorded, Counts

LEMMA WithRecords ==
    ASSUME NEW a, NEW b, NEW e, NEW s, NEW p, Past(s, now), Ordered(s), Apart(s, Bound),
           \/ b = a /\ Counts(s, e, p)
           \/ b # a /\ Recorded(entries, s, b, p)
    PROVE  Recorded(With(a, e), s, b, p)
BY DEF Recorded, With

\* A failure keeps the failures of its address apart.
LEMMA FailKeepsApart ==
    ASSUME Tuned, NEW s \in Seq(Nat), now \in Nat, Past(s, now), Ordered(s), Apart(s, Bound),
           \A i \in 1..Len(s) : i + Bound = Len(s) + 1 => s[i] + WindowLength < now
    PROVE  /\ Append(s, now) \in Seq(Nat)
           /\ Past(Append(s, now), now)
           /\ Ordered(Append(s, now))
           /\ Apart(Append(s, now), Bound)
<1>1. Bound \in Nat /\ Bound > 0
  <2>1. /\ Cardinality(Requests) \in Nat
        /\ MaxFailures \in Nat /\ MaxFailures > 1
        /\ Bound = MaxFailures + MaxFailures + Cardinality(Requests) - 2
        /\ Bound \in Nat
    BY BoundType
  <2> QED BY <2>1
<1> QED BY <1>1, AppendTime, AppendApart

\* The entry that a failure leaves behind belongs to the failures with the new one.
LEMMA FailRecords ==
    ASSUME TypeOK, Tuned, NEW r \in Requests, NEW a \in Addresses, Fail(r), req[r] = a,
           Recorded(entries, failed[a], a, Pending(a))
    PROVE  \E e \in AuthAttempt :
              /\ StoreAndClean(With(a, e))
              /\ Recorded(With(a, e), failed'[a], a, Pending(a)')
<1> DEFINE s == failed[a]
           p == Pending(a)
           u == Append(s, now)
<1>1. now \in Nat /\ s \in Seq(Nat)
  BY DEF TypeOK
<1>2. /\ p \in Nat /\ p > 0 /\ p <= Cardinality(Requests)
      /\ Pending(a)' = p - 1
      /\ p - 1 \in Nat
  <2>1. req' = [req EXCEPT ![r] = Nil]
    BY DEF Fail
  <2>2. p > 0 /\ Pending(a)' = p - 1
    BY <2>1, PendingEnds
  <2>3. p \in Nat /\ p <= Cardinality(Requests)
    BY PendingType
  <2> QED BY <2>2, <2>3
<1>3. failed'[a] = u
  BY DEF Fail, TypeOK
<1>4. Past(s, now) /\ Ordered(s) /\ Apart(s, Bound)
  BY DEF Recorded
<1> HIDE DEF s, p
<1>5. CASE a \in DOMAIN entries
  <2> DEFINE e == Refreshed(entries[a])
  <2>1. entries[a] \in AuthAttempt /\ Counts(s, entries[a], p)
    BY <1>5 DEF TypeOK, Recorded, s, p
  <2>2. /\ e \in AuthAttempt /\ Counted(e) \in AuthAttempt
        /\ Counts(s, e, p)
        /\ e.lastSeen = now
    BY <1>1, <1>2, <2>1, AttemptTypes, RefreshedCounts, RefreshedFields
  <2>3. StoreAndClean(With(a, Counted(e)))
    BY <1>5 DEF Fail
  <2> HIDE DEF e
  <2>4. Counts(u, Counted(e), p - 1)
    BY <1>1, <1>2, <1>4, <2>2, FailCounts
  <2>5. \A i \in 1..Len(s) : i + Bound = Len(s) + 1 => s[i] + WindowLength < now
    <3> SUFFICES ASSUME NEW i \in 1..Len(s), i + Bound = Len(s) + 1
                 PROVE  s[i] + WindowLength < now
      OBVIOUS
    <3>1. Len(s) \in Nat /\ s[i] \in Nat /\ WindowLength \in Nat
      BY <1>1, LimiterAssumption
    <3>2. Len(s) + 1 <= Len(s) + p
      BY <1>2, <3>1
    <3>3. i + Bound <= Len(s) + p
      BY <3>2
    <3>4. s[i] + WindowLength < e.windowStart
      BY <1>1, <1>2, <2>2, <3>3, FailApart
    <3>5. e.windowStart <= now /\ e.windowStart \in Nat
      BY <2>2, AttemptFields DEF Counts
    <3> QED BY <1>1, <3>1, <3>4, <3>5
  <2>6. Past(u, now) /\ Ordered(u) /\ Apart(u, Bound)
    BY <1>1, <1>4, <2>5, FailKeepsApart
  <2>7. Recorded(With(a, Counted(e)), u, a, p - 1)
    BY <2>4, <2>6, WithRecords
  <2> QED BY <1>2, <1>3, <2>2, <2>3, <2>7
<1>6. CASE a \notin DOMAIN entries
  <2>1. Before(s, 0, now)
    BY <1>6 DEF Recorded, s
  <2>2. FirstFailure \in AuthAttempt
    BY AttemptTypes
  <2>3. StoreAndClean(With(a, FirstFailure))
    BY <1>6 DEF Fail
  <2>4. Counts(u, FirstFailure, p - 1)
    BY <1>1, <1>2, <1>4, <2>1, FirstFailureCounts
  <2>5. \A i \in 1..Len(s) : s[i] + WindowLength < now
    <3>1. \A i \in 1..Len(s) : i + 0 <= Len(s)
      OBVIOUS
    <3> QED BY <2>1, <3>1 DEF Before
  <2>6. Past(u, now) /\ Ordered(u) /\ Apart(u, Bound)
    BY <1>1, <1>4, <2>5, FailKeepsApart
  <2>7. Recorded(With(a, FirstFailure), u, a, p - 1)
    BY <2>4, <2>6, WithRecords
  <2> QED BY <1>2, <1>3, <2>2, <2>3, <2>7
<1> QED BY <1>5, <1>6

LEMMA StepRecords ==
    ASSUME TypeOK, FailuresRecorded, [Next]_vars
    PROVE  FailuresRecorded'
<1> SUFFICES ASSUME Tuned, NEW b \in Addresses
             PROVE  Recorded(entries, failed[b], b, Pending(b))'
  BY DEF FailuresRecorded, Tuned
<1>0. /\ TypeOK'
      /\ now \in Nat
      /\ failed[b] \in Seq(Nat)
      /\ Recorded(entries, failed[b], b, Pending(b))
      /\ Pending(b) \in Nat
      /\ Past(failed[b], now) /\ Ordered(failed[b]) /\ Apart(failed[b], Bound)
      /\ \A a \in DOMAIN entries : entries[a] \in AuthAttempt
  <2>1. TypeOK'
    BY StepKeeps
  <2>2. Recorded(entries, failed[b], b, Pending(b))
    BY DEF FailuresRecorded
  <2>3. Pending(b) \in Nat
    BY PendingType
  <2>4. /\ now \in Nat
        /\ failed[b] \in Seq(Nat)
        /\ \A a \in DOMAIN entries : entries[a] \in AuthAttempt
    BY DEF TypeOK
  <2> QED BY <2>1, <2>2, <2>3, <2>4 DEF Recorded
<1>1. ASSUME NEW a \in Addresses, Refuse(a)
      PROVE  Recorded(entries, failed[b], b, Pending(b))'
  <2> DEFINE e == [entries[a] EXCEPT !.lastSeen = now]
  <2>1. /\ a \in DOMAIN entries /\ entries[a] \in AuthAttempt
        /\ StoreAndClean(With(a, e))
        /\ UNCHANGED <<now, req, failed>>
        /\ e \in AuthAttempt
    BY <1>0, <1>1, AttemptTypes DEF Refuse, Blocked
  <2>2. b = a => Counts(failed[b], e, Pending(b))
    BY <1>0, <2>1, SeenCounts DEF Recorded
  <2> HIDE DEF e
  <2>3. Recorded(With(a, e), failed[b], b, Pending(b))
    BY <1>0, <2>2, WithRecords
  <2>4. failed'[b] = failed[b] /\ Pending(b)' = Pending(b)
    BY <2>1 DEF Pending
  <2>5. Entries(With(a, e))
    BY <2>1, WithKeeps
  <2> QED BY <1>0, <2>1, <2>3, <2>4, <2>5, MethodRecords
<1>2. ASSUME NEW r \in Requests, NEW a \in Addresses, Admit(r, a)
      PROVE  Recorded(entries, failed[b], b, Pending(b))'
  <2>1. /\ ~Blocked(a)
        /\ req[r] = Nil /\ req' = [req EXCEPT ![r] = a]
        /\ UNCHANGED <<now, failed>>
    BY <1>2 DEF Admit
  <2>2. b # a => Pending(b)' = Pending(b)
    BY <2>1, PendingBegins
  <2>3. Pending(b)' \in Nat
    BY PendingType DEF Pending
  <2>4. CASE a \in DOMAIN entries
    <3> DEFINE e == Refreshed(entries[a])
    <3>1. entries[a] \in AuthAttempt /\ e \in AuthAttempt
      BY <1>0, <2>4, AttemptTypes
    <3>2. StoreAndClean(With(a, e))
      BY <1>2, <2>4 DEF Admit
    <3>3. b = a => Counts(failed[b], e, Pending(b)')
      <4>1. ~(now < entries[a].blockedUntil)
        BY <2>1, <2>4 DEF Blocked
      <4>2. b = a => Counts(failed[b], entries[a], Pending(b))
        BY <1>0, <2>4 DEF Recorded
      <4> QED BY <1>0, <2>3, <3>1, <4>1, <4>2, AdmittedCounts
    <3> HIDE DEF e
    <3>4. Recorded(With(a, e), failed[b], b, Pending(b)')
      BY <1>0, <2>2, <3>3, WithRecords
    <3>5. Entries(With(a, e))
      BY <3>1, WithKeeps
    <3> QED BY <1>0, <2>1, <3>2, <3>4, <3>5, MethodRecords
  <2>5. CASE a \notin DOMAIN entries
    <3>1. StoreAndClean(entries)
      BY <1>2, <2>5 DEF Admit
    <3>2. Recorded(entries, failed[b], b, Pending(b)')
      BY <1>0, <2>2, <2>5 DEF Recorded
    <3>3. Entries(entries)
      BY DEF TypeOK, Entries
    <3> QED BY <1>0, <2>1, <3>1, <3>2, <3>3, MethodRecords
  <2> QED BY <2>4, <2>5
<1>3. ASSUME NEW r \in Requests, Fail(r)
      PROVE  Recorded(entries, failed[b], b, Pending(b))'
  <2> DEFINE a == req[r]
  <2>1. /\ a \in Addresses
        /\ req' = [req EXCEPT ![r] = Nil]
        /\ failed' = [failed EXCEPT ![a] = Append(failed[a], now)]
        /\ now' = now
    BY <1>3 DEF Fail, TypeOK
  <2>2. Recorded(entries, failed[a], a, Pending(a))
    BY <2>1 DEF FailuresRecorded
  <2>3. PICK e \in AuthAttempt :
            /\ StoreAndClean(With(a, e))
            /\ Recorded(With(a, e), failed'[a], a, Cardinality({q \in Requests : req'[q] = a}))
    <3>1. ASSUME NEW c \in Addresses, req[r] = c
          PROVE  \E e \in AuthAttempt :
                    /\ StoreAndClean(With(c, e))
                    /\ Recorded(With(c, e), failed'[c], c,
                                Cardinality({q \in Requests : req'[q] = c}))
      BY <1>3, <2>2, <3>1, FailRecords DEF Pending
    <3> QED BY <2>1, <3>1
  <2>4. Entries(With(a, e))
    BY <2>1, WithKeeps
  <2>5. Recorded(With(a, e), failed'[b], b, Pending(b)')
    <3>1. CASE b = a
      BY <2>3, <3>1 DEF Pending
    <3>2. CASE b # a
      <4>1. failed'[b] = failed[b]
        BY <2>1, <3>2 DEF TypeOK
      <4>2. Pending(b)' = Pending(b)
        BY <2>1, <3>2, PendingEnds
      <4> QED BY <1>0, <3>2, <4>1, <4>2, WithRecords
    <3> QED BY <3>1, <3>2
  <2> QED BY <1>0, <2>1, <2>3, <2>4, <2>5, MethodRecords
<1>4. ASSUME NEW r \in Requests, Succeed(r)
      PROVE  Recorded(entries, failed[b], b, Pending(b))'
  <2> DEFINE a == req[r]
             written == [c \in DOMAIN entries \ {a} |-> entries[c]]
  <2>1. /\ a \in Addresses
        /\ StoreAndClean(written)
        /\ req' = [req EXCEPT ![r] = Nil]
        /\ failed' = [failed EXCEPT ![a] = <<>>]
        /\ now' = now
    BY <1>4 DEF Succeed, TypeOK
  <2>2. Entries(written)
    BY DEF Entries, TypeOK
  <2>3. DOMAIN written = DOMAIN entries \ {a} /\ \A c \in DOMAIN written : written[c] = entries[c]
    OBVIOUS
  <2> HIDE DEF written
  <2>4. Recorded(written, failed'[b], b, Pending(b)')
    <3>1. CASE b = a
      <4>1. failed'[b] = <<>>
        BY <2>1, <3>1 DEF TypeOK
      <4>2. Past(<<>>, now) /\ Ordered(<<>>) /\ Apart(<<>>, Bound) /\ Before(<<>>, 0, now)
        BY DEF Past, Ordered, Apart, Before
      <4> QED BY <2>3, <3>1, <4>1, <4>2 DEF Recorded
    <3>2. CASE b # a
      <4>1. failed'[b] = failed[b]
        BY <2>1, <3>2 DEF TypeOK
      <4>2. Pending(b)' = Pending(b)
        BY <2>1, <3>2, PendingEnds
      <4> QED BY <1>0, <2>3, <3>2, <4>1, <4>2 DEF Recorded
    <3> QED BY <3>1, <3>2
  <2> QED BY <1>0, <2>1, <2>2, <2>4, MethodRecords
<1>5. CASE Tick
  <2>1. now' = now + 1 /\ UNCHANGED <<entries, lastCleanup, req, failed>>
    BY <1>5 DEF Tick
  <2>2. Pending(b)' = Pending(b) /\ failed'[b] = failed[b]
    BY <2>1 DEF Pending
  <2>3. \A i \in 1..Len(failed[b]) : failed[b][i] \in Nat
    BY <1>0
  <2>4. Past(failed[b], now')
    BY <1>0, <2>1, <2>3 DEF Past
  <2>5. ASSUME b \in DOMAIN entries
        PROVE  Counts(failed[b], entries[b], Pending(b))'
    <3>1. Counts(failed[b], entries[b], Pending(b))
      BY <1>0, <2>5 DEF Recorded
    <3>2. entries[b].lastSeen \in Nat
      BY <1>0, <2>5, AttemptFields
    <3>3. entries[b].lastSeen <= now'
      BY <1>0, <2>1, <3>1, <3>2 DEF Counts
    <3> QED BY <2>1, <2>2, <3>1, <3>3 DEF Counts
  <2>6. ASSUME b \notin DOMAIN entries
        PROVE  Before(failed[b], 0, now')
    <3>1. Before(failed[b], 0, now)
      BY <1>0, <2>6 DEF Recorded
    <3>2. WindowLength \in Nat
      BY LimiterAssumption
    <3> QED BY <1>0, <2>1, <2>3, <3>1, <3>2 DEF Before
  <2> QED BY <1>0, <2>1, <2>2, <2>4, <2>5, <2>6 DEF Recorded
<1>6. CASE UNCHANGED vars
  <2>1. UNCHANGED <<now, entries, req, failed>>
    BY <1>6 DEF vars
  <2> QED BY <1>0, <2>1 DEF Recorded, Counts, Pending
<1> QED BY <1>1, <1>2, <1>3, <1>4, <1>5, <1>6 DEF Next

LEMMA InitRecords == Init => FailuresRecorded
<1> SUFFICES ASSUME Init, Tuned, NEW a \in Addresses
             PROVE  Recorded(entries, failed[a], a, Pending(a))
  BY DEF FailuresRecorded
<1>1. failed[a] = <<>> /\ a \notin DOMAIN entries
  BY DEF Init
<1>2. Past(<<>>, now) /\ Ordered(<<>>) /\ Apart(<<>>, Bound) /\ Before(<<>>, 0, now)
  BY DEF Past, Ordered, Apart, Before
<1> QED BY <1>1, <1>2 DEF Recorded

LEMMA RecordedAreBounded ==
    ASSUME TypeOK, FailuresRecorded
    PROVE  FailuresBounded
<1> SUFFICES ASSUME Tuned, NEW a \in Addresses, NEW t \in 1..MaxTime
             PROVE  Failures(a, t, t + WindowLength) <= Bound
  BY DEF FailuresBounded, Tuned, Bound
<1>1. Recorded(entries, failed[a], a, Pending(a))
  BY DEF FailuresRecorded
<1>2. failed[a] \in Seq(Nat) /\ t \in Nat /\ Bound \in Nat
  BY BoundType, LimiterAssumption DEF TypeOK
<1> QED BY <1>1, <1>2, ApartAreFew DEF Recorded, Failures

\* For any number of addresses and of requests at the same time, any threshold above
\* one, and blocks and entries that outlast the window: an address that has not
\* succeeded fails, within the length of a window, no more often than two windows
\* allow and the requests that were in flight when it was blocked
\* (auth_attempt_limiter.go, registerFailure).
THEOREM FailuresAreBounded == Spec => []FailuresBounded
<1>1. Spec => [](TypeOK /\ FailuresRecorded)
  BY InitType, StepKeeps, InitRecords, StepRecords, PTL DEF Spec
<1> QED BY <1>1, RecordedAreBounded, PTL

=============================================================================
