---------------------------- MODULE AuthLimiter ----------------------------
(***************************************************************************)
(* The limiter of failed authentications (auth_attempt_limiter.go) and the *)
(* two middlewares that use it, APIKeyAuth and GoogleAuth.Middleware.      *)
(*                                                                         *)
(* A request asks the limiter whether its address may try, authenticates   *)
(* with the database or the token verifier, and then tells the limiter how *)
(* that went.  Each method of the limiter holds the mutex from beginning   *)
(* to end, its cleanup included, but nothing holds it between the methods: *)
(* while a request authenticates, others of the same address may fail,     *)
(* block the address, or succeed.                                          *)
(*                                                                         *)
(* Time is counted in ticks from 1; 0 is the zero time of Go.              *)
(***************************************************************************)
EXTENDS Naturals, Sequences, FiniteSets

CONSTANTS
    Addresses,      \* attempt keys: a prefix and the address of a client
    Requests,       \* request goroutines of the server
    Nil,            \* a goroutine with no request
    MaxFailures,    \* failures that block an address
    WindowLength,   \* time over which failures are counted
    BlockDuration,  \* time an address is blocked
    CleanupEvery,   \* least time between two cleanups
    StaleEntryTTL,  \* time an entry is kept that no request looks at
    MaxTime         \* bound on the time a behaviour takes

ASSUME NilAssumption == Nil \notin Addresses
ASSUME RequestsAssumption == IsFiniteSet(Requests)

\* NewAuthAttemptLimiter replaces what is not positive by a default.
ASSUME LimiterAssumption ==
    /\ MaxFailures \in Nat \ {0}
    /\ WindowLength \in Nat \ {0}
    /\ BlockDuration \in Nat \ {0}
    /\ CleanupEvery \in Nat
    /\ StaleEntryTTL \in Nat
    /\ MaxTime \in Nat \ {0}

VARIABLES
    now,            \* the clock
    entries,        \* entries[a]: what is remembered of an address that has failed
    lastCleanup,    \* when cleanupLocked last went through the entries
    req,            \* req[r]: the address whose credentials r is checking, or Nil
    failed          \* history: failed[a]: when a failed since it last succeeded, in order

vars == <<now, entries, lastCleanup, req, failed>>

-----------------------------------------------------------------------------

AuthAttempt ==
    [failures : Nat, windowStart : Nat, blockedUntil : Nat, lastSeen : Nat]

TypeOK ==
    /\ now \in 1..MaxTime
    /\ DOMAIN entries \subseteq Addresses
    /\ entries \in [DOMAIN entries -> AuthAttempt]
    /\ lastCleanup \in Nat
    /\ req \in [Requests -> Addresses \cup {Nil}]
    /\ failed \in [Addresses -> Seq(Nat)]

Init ==
    /\ now = 1
    /\ entries = [a \in {} |-> Nil]
    /\ lastCleanup = 1
    /\ req = [r \in Requests |-> Nil]
    /\ failed = [a \in Addresses |-> <<>>]

Blocked(a) == a \in DOMAIN entries /\ now < entries[a].blockedUntil

\* The entries once e is written for a.
With(a, e) == [b \in {a} \cup DOMAIN entries |-> IF b = a THEN e ELSE entries[b]]

-----------------------------------------------------------------------------
\* cleanupLocked, which every method calls on the entries it has written.

\* Faulty variant of Stale, not used: an entry is dropped for its age alone.
StaleThoughBlocked(e) == now - e.lastSeen > StaleEntryTTL

CleanupDue == now - lastCleanup >= CleanupEvery

Stale(e) == now - e.lastSeen > StaleEntryTTL /\ now > e.blockedUntil

Cleaned(written) ==
    LET kept == {a \in DOMAIN written : ~(CleanupDue /\ Stale(written[a]))}
    IN  [a \in kept |-> written[a]]

StoreAndClean(written) ==
    /\ entries' = Cleaned(written)
    /\ lastCleanup' = IF CleanupDue THEN now ELSE lastCleanup

-----------------------------------------------------------------------------

\* An entry looked at now; its failures are forgotten with their window.
Refreshed(e) ==
    IF now - e.windowStart > WindowLength
       THEN [e EXCEPT !.failures = 0, !.windowStart = now, !.lastSeen = now]
       ELSE [e EXCEPT !.lastSeen = now]

FirstFailure ==
    [failures |-> 1, windowStart |-> now, blockedUntil |-> 0, lastSeen |-> now]

\* Faulty variant of Counted, not used: the threshold is compared with >.
CountedOneMore(e) ==
    IF e.failures + 1 > MaxFailures
       THEN [e EXCEPT !.failures = 0, !.windowStart = now,
                      !.blockedUntil = now + BlockDuration]
       ELSE [e EXCEPT !.failures = @ + 1]

\* One more failure: the threshold blocks the address and starts counting anew.
Counted(e) ==
    IF e.failures + 1 >= MaxFailures
       THEN [e EXCEPT !.failures = 0, !.windowStart = now,
                      !.blockedUntil = now + BlockDuration]
       ELSE [e EXCEPT !.failures = @ + 1]

\* allow answers false: 429.
Refuse(a) ==
    /\ Blocked(a)
    /\ StoreAndClean(With(a, [entries[a] EXCEPT !.lastSeen = now]))
    /\ UNCHANGED <<now, req, failed>>

\* allow answers true, and the credentials are looked up.
Admit(r, a) ==
    /\ req[r] = Nil
    /\ ~Blocked(a)
    /\ StoreAndClean(IF a \in DOMAIN entries
                        THEN With(a, Refreshed(entries[a]))
                        ELSE entries)
    /\ req' = [req EXCEPT ![r] = a]
    /\ UNCHANGED <<now, failed>>

\* No token, an unknown one, a failing lookup, an expired or disabled key:
\* registerFailure.
Fail(r) ==
    LET a == req[r]
    IN  /\ a # Nil
        /\ StoreAndClean(With(a, IF a \in DOMAIN entries
                                    THEN Counted(Refreshed(entries[a]))
                                    ELSE FirstFailure))
        /\ req' = [req EXCEPT ![r] = Nil]
        /\ failed' = [failed EXCEPT ![a] = Append(@, now)]
        /\ UNCHANGED now

\* Faulty variant of Succeed, not in Next: a success takes one failure back.
SucceedTakesOneBack(r) ==
    LET a == req[r]
    IN  /\ a # Nil
        /\ StoreAndClean(IF a \in DOMAIN entries
                            THEN With(a, [entries[a] EXCEPT !.failures = @ - 1])
                            ELSE entries)
        /\ req' = [req EXCEPT ![r] = Nil]
        /\ failed' = [failed EXCEPT ![a] = <<>>]
        /\ UNCHANGED now

\* registerSuccess forgets the address, blocked or not.
Succeed(r) ==
    LET a == req[r]
    IN  /\ a # Nil
        /\ StoreAndClean([b \in DOMAIN entries \ {a} |-> entries[b]])
        /\ req' = [req EXCEPT ![r] = Nil]
        /\ failed' = [failed EXCEPT ![a] = <<>>]
        /\ UNCHANGED now

Tick ==
    /\ now < MaxTime
    /\ now' = now + 1
    /\ UNCHANGED <<entries, lastCleanup, req, failed>>

Next ==
    \/ \E a \in Addresses : Refuse(a)
    \/ \E r \in Requests, a \in Addresses : Admit(r, a)
    \/ \E r \in Requests : Fail(r) \/ Succeed(r)
    \/ Tick

Spec == Init /\ [][Next]_vars

-----------------------------------------------------------------------------
\* Properties.

Failures(a, from, to) ==
    Cardinality({i \in DOMAIN failed[a] : failed[a][i] \in from..to})

\* Between its successes an address fails, in a time as long as the window, at most
\* as often as two windows allow, one of which blocks it, and once more for each
\* request that was in flight when it was blocked; if blocks are longer than windows
\* and entries are kept as long, as by default.  A threshold of one is not kept: the
\* first failure of an address is stored without comparing it.
FailuresBounded ==
    MaxFailures > 1 /\ BlockDuration > WindowLength /\ StaleEntryTTL >= WindowLength =>
    \A a \in Addresses, t \in 1..MaxTime :
        Failures(a, t, t + WindowLength) <= 2 * MaxFailures - 1 + Cardinality(Requests) - 1

InFlight(a) == \E r \in Requests : req[r] = a

\* A block holds: once the requests that were in flight when the address was blocked
\* have ended, nothing but time lifts or shortens it, not the cleanup either, and
\* none of its requests is admitted.
BlocksHold ==
    [][\A a \in Addresses : Blocked(a) /\ ~InFlight(a) =>
          \/ now' >= entries[a].blockedUntil
          \/ Blocked(a)' /\ entries'[a].blockedUntil = entries[a].blockedUntil
             /\ ~InFlight(a)']_vars

=============================================================================
