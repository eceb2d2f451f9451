---------------------------- MODULE RateLimiter ----------------------------
(***************************************************************************)
(* The per-key rate limiter of the signing API (middleware/ratelimit.go).  *)
(*                                                                         *)
(* A request is authenticated first, and carries from then on the row of   *)
(* its key as authentication read it; the administrator may change the     *)
(* limits of the key before the request reaches the limiter.  Each method  *)
(* of the limiter holds its mutex from beginning to end, so it is one      *)
(* action here, the cleanup it ends with included.                         *)
(*                                                                         *)
(* Time is counted in ticks; the counters live as long as the process, and *)
(* so does this model: a restart begins a new one.                         *)
(***************************************************************************)
EXTENDS Naturals, Sequences, FiniteSets

CONSTANTS
    Keys,               \* API keys
    Requests,           \* request goroutines of the server
    Limits,             \* the limits an administrator may give a key
    Largest,            \* the largest quota among them
    Shortest,           \* the shortest window among them
    CleanupInterval,    \* least time between two cleanups
    ExpiredWindowGrace, \* time an expired window is kept
    StaleEntryTTL,      \* time a window is kept that no request looks at
    MaxTime             \* bound on the time a behaviour takes

\* CHECK constraints of the table; a window of 24 hours is the longest, and as
\* long as a window that nobody looks at is kept.
ASSUME LimitsAssumption ==
    /\ StaleEntryTTL \in Nat
    /\ Largest \in Nat
    /\ Shortest \in Nat \ {0}
    /\ Limits \subseteq [max : 1..Largest, window : Shortest..StaleEntryTTL]
ASSUME TimeAssumption ==
    /\ CleanupInterval \in Nat
    /\ ExpiredWindowGrace \in Nat
    /\ MaxTime \in Nat

VARIABLES
    now,            \* the clock
    limit,          \* limit[k]: columns rate_limit_max and rate_limit_window
    counters,       \* the windows, for the keys that have one
    lastCleanup,    \* when cleanupLocked last went through the windows
    req,            \* req[r]: the key a request carries, with its limits, or Idle
    grants          \* history: grants[k]: when requests of k were allowed, in order

vars == <<now, limit, counters, lastCleanup, req, grants>>

-----------------------------------------------------------------------------

Window == [count : Nat, windowStart : Nat, resetAt : Nat, lastSeen : Nat]

Idle == [pc |-> "idle"]

TypeOK ==
    /\ now \in 0..MaxTime
    /\ limit \in [Keys -> Limits]
    /\ DOMAIN counters \subseteq Keys
    /\ counters \in [DOMAIN counters -> Window]
    /\ lastCleanup \in Nat
    /\ req \in [Requests -> {Idle} \cup [pc : {"allow"}, key : Keys, limit : Limits]]
    /\ grants \in [Keys -> Seq(Nat)]

Init ==
    /\ now = 0
    /\ limit \in [Keys -> Limits]
    /\ counters = [k \in {} |-> Idle]
    /\ lastCleanup = 0
    /\ req = [r \in Requests |-> Idle]
    /\ grants = [k \in Keys |-> <<>>]

\* The window of k counts at this time.
Live(k) == k \in DOMAIN counters /\ now <= counters[k].resetAt

\* The windows once w is written for k.
With(k, w) == [j \in {k} \cup DOMAIN counters |-> IF j = k THEN w ELSE counters[j]]

-----------------------------------------------------------------------------
\* Faulty variants of the operations below, which the properties must notice;
\* none is in Next.

\* The age of a window is compared with >=.
StaleTooEarly(w) == now - w.lastSeen >= StaleEntryTTL \/ now > w.resetAt + ExpiredWindowGrace

\* The limits of a key are not checked when they are written.
UpdateLimitUnchecked(k) ==
    /\ limit' = [limit EXCEPT ![k].max = 0]
    /\ UNCHANGED <<now, counters, lastCleanup, req, grants>>

-----------------------------------------------------------------------------
\* cleanupLocked, which every method calls on the windows it has written.

CleanupDue == now - lastCleanup >= CleanupInterval

Stale(w) == now - w.lastSeen > StaleEntryTTL \/ now > w.resetAt + ExpiredWindowGrace

Cleaned(windows) ==
    LET kept == {k \in DOMAIN windows : ~(CleanupDue /\ Stale(windows[k]))}
    IN  [k \in kept |-> windows[k]]

StoreAndClean(windows) ==
    /\ counters' = Cleaned(windows)
    /\ lastCleanup' = IF CleanupDue THEN now ELSE lastCleanup

-----------------------------------------------------------------------------

\* APIKeyAuth puts the row of the key into the request's context.
Authenticate(r, k) ==
    /\ req[r] = Idle
    /\ req' = [req EXCEPT ![r] = [pc |-> "allow", key |-> k, limit |-> limit[k]]]
    /\ UNCHANGED <<now, limit, counters, lastCleanup, grants>>

Answer(r) == req' = [req EXCEPT ![r] = Idle]

Record(k) == grants' = [grants EXCEPT ![k] = Append(@, now)]

NewWindow(l) ==
    [count |-> 1, windowStart |-> now, resetAt |-> now + l.window, lastSeen |-> now]

\* The window of k looked at now, with its count at n.
Seen(k, n) == With(k, [counters[k] EXCEPT !.count = n, !.lastSeen = now])

\* Two more faulty variants, of Allow and Deny.

\* The quota is compared with <= in Allow.
AllowOneMore(r) ==
    LET k == req[r].key
    IN  /\ req[r] # Idle
        /\ Live(k)
        /\ counters[k].count <= req[r].limit.max
        /\ StoreAndClean(Seen(k, counters[k].count + 1))
        /\ Record(k)
        /\ Answer(r)
        /\ UNCHANGED <<now, limit>>

\* A refused request counts as well.
DenyCounted(r) ==
    LET k == req[r].key
    IN  /\ req[r] # Idle
        /\ Live(k)
        /\ counters[k].count >= req[r].limit.max
        /\ StoreAndClean(Seen(k, counters[k].count + 1))
        /\ Answer(r)
        /\ UNCHANGED <<now, limit, grants>>

\* Allow without a window that counts: a new one begins.
OpenWindow(r) ==
    LET k == req[r].key
    IN  /\ req[r] # Idle
        /\ ~Live(k)
        /\ StoreAndClean(With(k, NewWindow(req[r].limit)))
        /\ Record(k)
        /\ Answer(r)
        /\ UNCHANGED <<now, limit>>

\* Allow within a window that has room.
Allow(r) ==
    LET k == req[r].key
    IN  /\ req[r] # Idle
        /\ Live(k)
        /\ counters[k].count < req[r].limit.max
        /\ StoreAndClean(Seen(k, counters[k].count + 1))
        /\ Record(k)
        /\ Answer(r)
        /\ UNCHANGED <<now, limit>>

\* Allow within a window that is full: 429.
Deny(r) ==
    LET k == req[r].key
    IN  /\ req[r] # Idle
        /\ Live(k)
        /\ counters[k].count >= req[r].limit.max
        /\ StoreAndClean(Seen(k, counters[k].count))
        /\ Answer(r)
        /\ UNCHANGED <<now, limit, grants>>

\* Remaining, for the usage endpoint.
Remaining(k) ==
    /\ StoreAndClean(IF Live(k) THEN Seen(k, counters[k].count) ELSE counters)
    /\ UNCHANGED <<now, limit, req, grants>>

\* PATCH of an API key.
UpdateLimit(k) ==
    /\ \E l \in Limits : limit' = [limit EXCEPT ![k] = l]
    /\ UNCHANGED <<now, counters, lastCleanup, req, grants>>

Tick ==
    /\ now < MaxTime
    /\ now' = now + 1
    /\ UNCHANGED <<limit, counters, lastCleanup, req, grants>>

Next ==
    \/ \E r \in Requests : OpenWindow(r) \/ Allow(r) \/ Deny(r)
    \/ \E r \in Requests, k \in Keys : Authenticate(r, k)
    \/ \E k \in Keys : Remaining(k) \/ UpdateLimit(k)
    \/ Tick

Spec == Init /\ [][Next]_vars

-----------------------------------------------------------------------------
\* Properties.

Granted(k, from, to) ==
    Cardinality({i \in DOMAIN grants[k] : grants[k][i] \in from..to})

\* A window that counts is never forgotten, cut short or set back, not by the
\* cleanup another key's request sets off, nor by a change of the key's limits:
\* what a key has used up stays used up until the announced reset.
LiveWindowsSurvive ==
    [][\A k \in Keys : Live(k) =>
          /\ k \in DOMAIN counters'
          /\ counters'[k].resetAt = counters[k].resetAt
          /\ counters'[k].count >= counters[k].count]_vars

\* The count of a window is the number of requests allowed since it began, so
\* that none is lost between concurrent requests.
WindowCountsGrants ==
    \A k \in Keys : Live(k) =>
        counters[k].count = Granted(k, counters[k].windowStart, now)

\* Whatever the administrator does meanwhile, in a time as long as the shortest
\* window a key is allowed at most twice the largest quota: an interval of that
\* length, both ends included, meets at most two windows of the limiter.
TwoQuotasPerInterval ==
    \A k \in Keys, t \in 0..MaxTime : Granted(k, t, t + Shortest) <= 2 * Largest

\* What is left of the windows when only those that count are looked at.
NoWindow == [count |-> 0, resetAt |-> 0]

Counting(k) ==
    IF Live(k) THEN [count |-> counters[k].count, resetAt |-> counters[k].resetAt]
    ELSE NoWindow

Ideal == INSTANCE Quota WITH
    clock <- now, window <- [k \in Keys |-> Counting(k)], allowed <- grants

\* The limiter allows what one would allow that keeps every window until its end and
\* drops it there: neither the table of windows nor the cleanup shows.
ImplementsQuota == Ideal!Spec

=============================================================================
