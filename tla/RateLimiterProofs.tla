------------------------- MODULE RateLimiterProofs -------------------------
(***************************************************************************)
(* Proofs about RateLimiter, for all keys, limits, intervals and times:    *)
(* the windows are well formed, the cleanup drops none that still counts,  *)
(* a window counts the requests it granted, no interval sees more than two *)
(* quotas, and the limiter implements the ideal one of Quota.  The last    *)
(* three need GrantsRecorded, which says where in the sequence of the      *)
(* grants the window of a key begins.                                      *)
(***************************************************************************)
EXTENDS RateLimiter, FiniteSetTheorems, WellFoundedInduction, TLAPS

\* A window ends no later than StaleEntryTTL after it was last looked at: it
\* was looked at when it began, and no limit is longer.  This is what makes the
\* age test of cleanupLocked harmless.
WindowsEndInTime ==
    \A k \in DOMAIN counters :
        /\ counters[k].lastSeen <= now
        /\ counters[k].resetAt <= counters[k].lastSeen + StaleEntryTTL

IInv == TypeOK /\ WindowsEndInTime

-----------------------------------------------------------------------------

Windows(windows) ==
    /\ DOMAIN windows \subseteq Keys
    /\ windows \in [DOMAIN windows -> Window]

EndInTime(windows) ==
    \A k \in DOMAIN windows :
        /\ windows[k].lastSeen <= now
        /\ windows[k].resetAt <= windows[k].lastSeen + StaleEntryTTL

\* The cleanup keeps what remains as it was.
LEMMA CleanedKeeps ==
    ASSUME NEW windows, Windows(windows), EndInTime(windows)
    PROVE  /\ Windows(Cleaned(windows))
           /\ EndInTime(Cleaned(windows))
           /\ \A k \in DOMAIN Cleaned(windows) :
                  k \in DOMAIN windows /\ Cleaned(windows)[k] = windows[k]
<1> DEFINE kept == {k \in DOMAIN windows : ~(CleanupDue /\ Stale(windows[k]))}
<1>1. Cleaned(windows) = [k \in kept |-> windows[k]]
  BY DEF Cleaned
<1> HIDE DEF kept
<1>2. kept \subseteq DOMAIN windows
  BY DEF kept
<1> QED BY <1>1, <1>2 DEF Windows, EndInTime

\* The cleanup keeps a window that counts.
LEMMA CleanedKeepsLive ==
    ASSUME TypeOK, NEW windows, Windows(windows), EndInTime(windows),
           NEW k \in DOMAIN windows, now <= windows[k].resetAt
    PROVE  /\ k \in DOMAIN Cleaned(windows)
           /\ Cleaned(windows)[k] = windows[k]
<1>1. /\ windows[k] \in Window
      /\ now \in Nat
  BY DEF Windows, TypeOK
<1>2. /\ windows[k].lastSeen \in Nat
      /\ windows[k].resetAt \in Nat
  BY <1>1 DEF Window
<1>3. ~Stale(windows[k])
  BY <1>1, <1>2, LimitsAssumption, TimeAssumption DEF Stale, EndInTime
<1> QED BY <1>3 DEF Cleaned

-----------------------------------------------------------------------------
\* The windows each method writes, before the cleanup it ends with.

\* What a request carries has the shape of a key and a limit.
LEMMA CarriedRequest ==
    ASSUME TypeOK, NEW r \in Requests, req[r] # Idle
    PROVE  /\ req[r].key \in Keys
           /\ req[r].limit.max \in 1..Largest
           /\ req[r].limit.window \in Shortest..StaleEntryTTL
<1>1. /\ req[r].key \in Keys
      /\ req[r].limit \in Limits
  BY DEF TypeOK
<1> QED BY <1>1, LimitsAssumption

\* Writing a well-formed window leaves well-formed windows.
LEMMA WithKeeps ==
    ASSUME Windows(counters), EndInTime(counters),
           NEW k \in Keys, NEW w \in Window,
           w.lastSeen <= now, w.resetAt <= w.lastSeen + StaleEntryTTL
    PROVE  /\ Windows(With(k, w))
           /\ EndInTime(With(k, w))
<1> DEFINE windows == With(k, w)
<1>1. windows = [j \in {k} \cup DOMAIN counters |-> IF j = k THEN w ELSE counters[j]]
  BY DEF With
<1> HIDE DEF windows
<1>2. /\ DOMAIN windows = {k} \cup DOMAIN counters
      /\ windows[k] = w
      /\ \A j \in DOMAIN counters \ {k} : windows[j] = counters[j]
  BY <1>1
<1>3. Windows(windows)
  BY <1>1, <1>2 DEF Windows
<1>4. EndInTime(windows)
  BY <1>2 DEF EndInTime
<1> QED BY <1>3, <1>4 DEF windows

\* The window that Allow begins.
LEMMA OpenedWindows ==
    ASSUME IInv, NEW r \in Requests, req[r] # Idle
    PROVE  LET windows == With(req[r].key, NewWindow(req[r].limit))
           IN  Windows(windows) /\ EndInTime(windows)
<1>1. /\ req[r].key \in Keys
      /\ req[r].limit.window \in Shortest..StaleEntryTTL
      /\ now \in Nat
      /\ StaleEntryTTL \in Nat
      /\ Shortest \in Nat
  BY CarriedRequest, LimitsAssumption DEF IInv, TypeOK
<1>2. /\ NewWindow(req[r].limit) \in Window
      /\ NewWindow(req[r].limit).lastSeen <= now
      /\ NewWindow(req[r].limit).resetAt <=
             NewWindow(req[r].limit).lastSeen + StaleEntryTTL
  BY <1>1 DEF NewWindow, Window
<1>3. Windows(counters) /\ EndInTime(counters)
  BY DEF IInv, TypeOK, WindowsEndInTime, Windows, EndInTime
<1> QED BY <1>1, <1>2, <1>3, WithKeeps

\* The window a request looks at, and may count in.
LEMMA SeenWindows ==
    ASSUME IInv, NEW k \in DOMAIN counters, NEW n \in Nat
    PROVE  /\ Windows(Seen(k, n))
           /\ EndInTime(Seen(k, n))
           /\ DOMAIN Seen(k, n) = DOMAIN counters
           /\ Seen(k, n)[k].windowStart = counters[k].windowStart
           /\ Seen(k, n)[k].resetAt = counters[k].resetAt
           /\ Seen(k, n)[k].count = n
           /\ \A j \in DOMAIN counters \ {k} : Seen(k, n)[j] = counters[j]
<1> DEFINE w == [counters[k] EXCEPT !.count = n, !.lastSeen = now]
<1>1. /\ counters[k] \in Window
      /\ now \in Nat
      /\ StaleEntryTTL \in Nat
      /\ k \in Keys
  BY LimitsAssumption DEF IInv, TypeOK
<1>2. /\ w \in Window
      /\ w.lastSeen = now
      /\ w.count = n
      /\ w.windowStart = counters[k].windowStart
      /\ w.resetAt = counters[k].resetAt
  BY <1>1 DEF Window
<1>3. /\ counters[k].lastSeen <= now
      /\ counters[k].resetAt <= counters[k].lastSeen + StaleEntryTTL
  BY DEF IInv, WindowsEndInTime
<1>4. /\ counters[k].lastSeen \in Nat
      /\ counters[k].resetAt \in Nat
  BY <1>1 DEF Window
<1>5. Seen(k, n) = With(k, w)
  BY DEF Seen
<1> HIDE DEF w
<1>6. w.resetAt <= w.lastSeen + StaleEntryTTL
  BY <1>1, <1>2, <1>3, <1>4
<1>7. Windows(counters) /\ EndInTime(counters)
  BY DEF IInv, TypeOK, WindowsEndInTime, Windows, EndInTime
<1>8. Windows(With(k, w)) /\ EndInTime(With(k, w))
  BY <1>1, <1>2, <1>6, <1>7, WithKeeps
<1>9. /\ DOMAIN With(k, w) = DOMAIN counters
      /\ With(k, w)[k] = w
      /\ \A j \in DOMAIN counters \ {k} : With(k, w)[j] = counters[j]
  BY DEF With
<1> QED BY <1>2, <1>5, <1>8, <1>9

-----------------------------------------------------------------------------
\* Every method of the limiter ends in StoreAndClean of well-formed windows that
\* keep the live ones.

\* What windows keeps of the live windows in counters.
KeepsLive(windows) ==
    \A k \in Keys : Live(k) =>
        /\ k \in DOMAIN windows
        /\ windows[k].resetAt = counters[k].resetAt
        /\ windows[k].count >= counters[k].count

Sound(windows) == Windows(windows) /\ EndInTime(windows) /\ KeepsLive(windows)

LEMMA StoredAreSound ==
    ASSUME IInv, NEW windows, Sound(windows), StoreAndClean(windows)
    PROVE  /\ Windows(counters') /\ EndInTime(counters')
           /\ lastCleanup' \in Nat
           /\ KeepsLive(counters')
<1>1. counters' = Cleaned(windows)
  BY DEF StoreAndClean
<1>2. Windows(counters') /\ EndInTime(counters')
  BY <1>1, CleanedKeeps DEF Sound
<1>3. lastCleanup' \in Nat
  BY DEF StoreAndClean, IInv, TypeOK
<1>4. ASSUME NEW k \in Keys, Live(k)
      PROVE  /\ k \in DOMAIN counters'
             /\ counters'[k].resetAt = counters[k].resetAt
             /\ counters'[k].count >= counters[k].count
  <2>1. /\ k \in DOMAIN windows
        /\ windows[k].resetAt = counters[k].resetAt
        /\ windows[k].count >= counters[k].count
    BY <1>4 DEF Sound, KeepsLive
  <2>2. now <= windows[k].resetAt
    BY <1>4, <2>1 DEF Live
  <2>3. k \in DOMAIN Cleaned(windows) /\ Cleaned(windows)[k] = windows[k]
    BY <2>1, <2>2, CleanedKeepsLive DEF Sound, IInv
  <2> QED BY <1>1, <2>1, <2>3
<1> QED BY <1>2, <1>3, <1>4 DEF KeepsLive

\* The windows as they are.
LEMMA CountersAreSound ==
    ASSUME IInv
    PROVE  Sound(counters)
<1>1. Windows(counters) /\ EndInTime(counters)
  BY DEF IInv, TypeOK, WindowsEndInTime, Windows, EndInTime
<1>2. ASSUME NEW k \in Keys, Live(k)
      PROVE  counters[k].count >= counters[k].count
  <2>1. counters[k] \in Window
    BY <1>2 DEF Live, IInv, TypeOK
  <2> QED BY <2>1 DEF Window
<1> QED BY <1>1, <1>2 DEF Sound, KeepsLive, Live

LEMMA OpenedAreSound ==
    ASSUME IInv, NEW r \in Requests, req[r] # Idle, ~Live(req[r].key)
    PROVE  Sound(With(req[r].key, NewWindow(req[r].limit)))
<1> DEFINE windows == With(req[r].key, NewWindow(req[r].limit))
<1>1. Windows(windows) /\ EndInTime(windows)
  BY OpenedWindows
<1>2. ASSUME NEW k \in Keys, Live(k)
      PROVE  k \in DOMAIN windows /\ windows[k] = counters[k]
  BY <1>2 DEF With, Live
<1>3. KeepsLive(counters)
  BY CountersAreSound DEF Sound
<1> HIDE DEF windows
<1>4. KeepsLive(windows)
  BY <1>2, <1>3 DEF KeepsLive
<1> QED BY <1>1, <1>4 DEF Sound, windows

LEMMA SeenAreSound ==
    ASSUME IInv, NEW k \in DOMAIN counters, NEW n \in Nat, n >= counters[k].count
    PROVE  Sound(Seen(k, n))
<1> DEFINE windows == Seen(k, n)
<1>1. /\ Windows(windows) /\ EndInTime(windows)
      /\ DOMAIN windows = DOMAIN counters
      /\ windows[k].resetAt = counters[k].resetAt
      /\ windows[k].count = n
      /\ \A j \in DOMAIN counters \ {k} : windows[j] = counters[j]
  BY SeenWindows
<1>2. KeepsLive(counters)
  BY CountersAreSound DEF Sound
<1> HIDE DEF windows
<1>3. KeepsLive(windows)
  BY <1>1, <1>2 DEF KeepsLive, Live
<1> QED BY <1>1, <1>3 DEF Sound, windows

-----------------------------------------------------------------------------
\* The inductive invariant and what every step keeps of the live windows.

LEMMA InitIInv == Init => IInv
<1> SUFFICES ASSUME Init PROVE IInv
  OBVIOUS
<1> USE DEF Init
<1>1. /\ now \in 0..MaxTime
      /\ limit \in [Keys -> Limits]
      /\ lastCleanup \in Nat
  BY TimeAssumption
<1>2. DOMAIN counters = {} /\ counters \in [DOMAIN counters -> Window]
  OBVIOUS
<1>3. req \in [Requests -> {Idle} \cup [pc : {"allow"}, key : Keys, limit : Limits]]
  OBVIOUS
<1>4. grants \in [Keys -> Seq(Nat)]
  OBVIOUS
<1> QED BY <1>1, <1>2, <1>3, <1>4 DEF IInv, TypeOK, WindowsEndInTime

\* A step of a method of the limiter, whatever else it records.
LEMMA MethodStep ==
    ASSUME IInv, NEW windows, Sound(windows), StoreAndClean(windows),
           UNCHANGED <<now, limit>>,
           req' \in [Requests -> {Idle} \cup [pc : {"allow"}, key : Keys, limit : Limits]],
           grants' \in [Keys -> Seq(Nat)]
    PROVE  IInv' /\ KeepsLive(counters')
<1>1. /\ Windows(counters') /\ EndInTime(counters')
      /\ lastCleanup' \in Nat
      /\ KeepsLive(counters')
  BY StoredAreSound
<1>2. TypeOK'
  BY <1>1 DEF TypeOK, IInv, Windows
<1>3. WindowsEndInTime'
  BY <1>1 DEF WindowsEndInTime, EndInTime
<1> QED BY <1>1, <1>2, <1>3 DEF IInv

\* Answering, and recording a grant, keep the types.
LEMMA AnswerType ==
    ASSUME TypeOK, NEW r \in Requests, Answer(r)
    PROVE  req' \in [Requests -> {Idle} \cup [pc : {"allow"}, key : Keys, limit : Limits]]
BY DEF TypeOK, Answer

LEMMA RecordType ==
    ASSUME TypeOK, NEW k \in Keys, Record(k)
    PROVE  grants' \in [Keys -> Seq(Nat)]
<1>1. grants[k] \in Seq(Nat) /\ now \in Nat
  BY DEF TypeOK
<1>2. Append(grants[k], now) \in Seq(Nat)
  BY <1>1
<1> QED BY <1>2 DEF TypeOK, Record

LEMMA StepKeeps ==
    ASSUME IInv, [Next]_vars
    PROVE  IInv' /\ KeepsLive(counters')
<1>0. TypeOK
  BY DEF IInv
<1>1. KeepsLive(counters)
  BY CountersAreSound DEF Sound
<1>2. ASSUME NEW k \in DOMAIN counters
      PROVE  counters[k].count \in Nat
  BY <1>0 DEF TypeOK, Window
<1>3. ASSUME NEW r \in Requests, OpenWindow(r)
      PROVE  IInv' /\ KeepsLive(counters')
  <2>1. req[r] # Idle /\ ~Live(req[r].key) /\ UNCHANGED <<now, limit>>
    BY <1>3 DEF OpenWindow
  <2>2. StoreAndClean(With(req[r].key, NewWindow(req[r].limit)))
    BY <1>3 DEF OpenWindow
  <2>3. Sound(With(req[r].key, NewWindow(req[r].limit)))
    BY <2>1, OpenedAreSound
  <2>4. req' \in [Requests -> {Idle} \cup [pc : {"allow"}, key : Keys, limit : Limits]]
    BY <1>0, <1>3, AnswerType DEF OpenWindow
  <2>5. grants' \in [Keys -> Seq(Nat)]
    BY <1>0, <1>3, <2>1, CarriedRequest, RecordType DEF OpenWindow
  <2> QED BY <2>1, <2>2, <2>3, <2>4, <2>5, MethodStep
<1>4. ASSUME NEW r \in Requests, Allow(r)
      PROVE  IInv' /\ KeepsLive(counters')
  <2> DEFINE k == req[r].key
  <2>1. req[r] # Idle /\ k \in DOMAIN counters /\ UNCHANGED <<now, limit>>
    BY <1>4 DEF Allow, Live
  <2>2. StoreAndClean(Seen(k, counters[k].count + 1))
    BY <1>4 DEF Allow
  <2>3. Sound(Seen(k, counters[k].count + 1))
    BY <1>2, <2>1, SeenAreSound
  <2>4. req' \in [Requests -> {Idle} \cup [pc : {"allow"}, key : Keys, limit : Limits]]
    BY <1>0, <1>4, AnswerType DEF Allow
  <2>5. grants' \in [Keys -> Seq(Nat)]
    BY <1>0, <1>4, <2>1, CarriedRequest, RecordType DEF Allow
  <2> QED BY <2>1, <2>2, <2>3, <2>4, <2>5, MethodStep
<1>5. ASSUME NEW r \in Requests, Deny(r)
      PROVE  IInv' /\ KeepsLive(counters')
  <2> DEFINE k == req[r].key
  <2>1. k \in DOMAIN counters /\ UNCHANGED <<now, limit, grants>>
    BY <1>5 DEF Deny, Live
  <2>2. StoreAndClean(Seen(k, counters[k].count))
    BY <1>5 DEF Deny
  <2>3. Sound(Seen(k, counters[k].count))
    BY <1>2, <2>1, SeenAreSound
  <2>4. req' \in [Requests -> {Idle} \cup [pc : {"allow"}, key : Keys, limit : Limits]]
    BY <1>0, <1>5, AnswerType DEF Deny
  <2>5. grants' \in [Keys -> Seq(Nat)]
    BY <1>0, <2>1 DEF TypeOK
  <2> QED BY <2>1, <2>2, <2>3, <2>4, <2>5, MethodStep
<1>6. ASSUME NEW k \in Keys, Remaining(k)
      PROVE  IInv' /\ KeepsLive(counters')
  <2>1. UNCHANGED <<now, limit, req, grants>>
    BY <1>6 DEF Remaining
  <2>2. /\ req' \in [Requests -> {Idle} \cup [pc : {"allow"}, key : Keys, limit : Limits]]
        /\ grants' \in [Keys -> Seq(Nat)]
    BY <1>0, <2>1 DEF TypeOK
  <2>3. CASE Live(k)
    <3>1. StoreAndClean(Seen(k, counters[k].count))
      BY <1>6, <2>3 DEF Remaining
    <3>2. Sound(Seen(k, counters[k].count))
      BY <1>2, <2>3, SeenAreSound DEF Live
    <3> QED BY <2>1, <2>2, <3>1, <3>2, MethodStep
  <2>4. CASE ~Live(k)
    <3>1. StoreAndClean(counters)
      BY <1>6, <2>4 DEF Remaining
    <3> QED BY <2>1, <2>2, <3>1, CountersAreSound, MethodStep
  <2> QED BY <2>3, <2>4
<1>7. ASSUME UNCHANGED counters, TypeOK', now <= now'
      PROVE  IInv' /\ KeepsLive(counters')
  <2>1. now \in Nat /\ now' \in Nat
    BY <1>0, <1>7 DEF TypeOK
  <2>2. WindowsEndInTime'
    <3> SUFFICES ASSUME NEW k \in DOMAIN counters
                 PROVE  /\ counters[k].lastSeen <= now'
                        /\ counters[k].resetAt <= counters[k].lastSeen + StaleEntryTTL
      BY <1>7 DEF WindowsEndInTime
    <3>1. counters[k].lastSeen \in Nat
      BY <1>0 DEF TypeOK, Window
    <3> QED BY <1>7, <2>1, <3>1 DEF IInv, WindowsEndInTime
  <2> QED BY <1>1, <1>7, <2>2 DEF IInv
<1>8. ASSUME NEW r \in Requests, NEW k \in Keys, Authenticate(r, k)
      PROVE  IInv' /\ KeepsLive(counters')
  <2>1. UNCHANGED <<now, limit, counters, lastCleanup, grants>>
    BY <1>8 DEF Authenticate
  <2>2. limit[k] \in Limits
    BY <1>0 DEF TypeOK
  <2>3. req' \in [Requests -> {Idle} \cup [pc : {"allow"}, key : Keys, limit : Limits]]
    BY <1>0, <1>8, <2>2 DEF TypeOK, Authenticate
  <2>4. TypeOK' /\ now <= now'
    BY <1>0, <2>1, <2>3 DEF TypeOK
  <2> QED BY <1>7, <2>1, <2>4
<1>9. ASSUME NEW k \in Keys, UpdateLimit(k)
      PROVE  IInv' /\ KeepsLive(counters')
  <2>1. TypeOK' /\ UNCHANGED counters /\ now <= now'
    BY <1>0, <1>9 DEF TypeOK, UpdateLimit
  <2> QED BY <1>7, <2>1
<1>10. CASE Tick
  <2>1. now \in Nat /\ MaxTime \in Nat
    BY <1>0, TimeAssumption DEF TypeOK
  <2>2. TypeOK' /\ UNCHANGED counters /\ now <= now'
    BY <1>0, <1>10, <2>1 DEF TypeOK, Tick
  <2> QED BY <1>7, <2>2
<1>11. CASE UNCHANGED vars
  <2>1. TypeOK' /\ UNCHANGED counters /\ now <= now'
    BY <1>0, <1>11 DEF TypeOK, vars
  <2> QED BY <1>7, <2>1
<1> QED
  BY <1>3, <1>4, <1>5, <1>6, <1>8, <1>9, <1>10, <1>11 DEF Next

-----------------------------------------------------------------------------

\* Every state of the limiter is well typed, with no window that outlives the
\* time it is kept (Allow, Remaining and cleanupLocked of middleware/ratelimit.go).
THEOREM TypeCorrect == Spec => []TypeOK
<1>1. Spec => []IInv
  BY InitIInv, StepKeeps, PTL DEF Spec
<1>2. IInv => TypeOK
  BY DEF IInv
<1> QED BY <1>1, <1>2, PTL

\* For any keys, limits and cleanup times, a window that counts survives every
\* step, the cleanup that another key's request sets off included, with its reset
\* time fixed and its count never set back.
THEOREM LiveWindowsAreKept == Spec => LiveWindowsSurvive
<1>1. Spec => []IInv
  BY InitIInv, StepKeeps, PTL DEF Spec
<1>2. IInv /\ [Next]_vars =>
        [\A k \in Keys : Live(k) =>
            /\ k \in DOMAIN counters'
            /\ counters'[k].resetAt = counters[k].resetAt
            /\ counters'[k].count >= counters[k].count]_vars
  BY StepKeeps DEF KeepsLive
<1> QED BY <1>1, <1>2, PTL DEF Spec, LiveWindowsSurvive

-----------------------------------------------------------------------------
\* Sequences of times, such as the times of the requests allowed to a key.

Past(s, t) == \A i \in 1..Len(s) : s[i] <= t

Ordered(s) == \A i, j \in 1..Len(s) : i <= j => s[i] <= s[j]

\* Any n + 1 successive times take longer than the shortest window.
Apart(s, n) == \A i \in 1..Len(s) : i + n <= Len(s) => s[i] + Shortest < s[i + n]

\* The last c times are since start; those before, but for as many as a quota, are
\* more than the shortest window before it.
Since(s, c, start) ==
    /\ c \in 1..Largest
    /\ c <= Len(s)
    /\ \A i \in 1..Len(s) : s[i] < start <=> i <= Len(s) - c
    /\ \A i \in 1..Len(s) : i + Largest <= Len(s) - c => s[i] + Shortest < start

\* The same, of a window that would begin at t.
Closed(s, t) ==
    /\ \A i \in 1..Len(s) : s[i] < t
    /\ \A i \in 1..Len(s) : i + Largest <= Len(s) => s[i] + Shortest < t

\* One more time.
LEMMA AppendTime ==
    ASSUME NEW s \in Seq(Nat), NEW t \in Nat, Past(s, t), Ordered(s)
    PROVE  /\ Append(s, t) \in Seq(Nat)
           /\ Len(Append(s, t)) = Len(s) + 1
           /\ Append(s, t)[Len(s) + 1] = t
           /\ \A i \in 1..Len(s) : Append(s, t)[i] = s[i] /\ s[i] \in Nat
           /\ Past(Append(s, t), t)
           /\ Ordered(Append(s, t))
<1> DEFINE u == Append(s, t)
<1>1. /\ u \in Seq(Nat)
      /\ Len(u) = Len(s) + 1
      /\ u[Len(s) + 1] = t
      /\ \A i \in 1..Len(s) : u[i] = s[i] /\ s[i] \in Nat
      /\ Len(s) \in Nat
  OBVIOUS
<1> HIDE DEF u
<1>2. Past(u, t)
  BY <1>1 DEF Past
<1>3. Ordered(u)
  <2> SUFFICES ASSUME NEW i \in 1..Len(u), NEW j \in 1..Len(u), i <= j
               PROVE  u[i] <= u[j]
    BY DEF Ordered
  <2>1. CASE j = Len(s) + 1
    BY <1>1, <1>2, <2>1 DEF Past
  <2>2. CASE j # Len(s) + 1
    <3>1. i \in 1..Len(s) /\ j \in 1..Len(s)
      BY <1>1, <2>2
    <3> QED BY <1>1, <3>1 DEF Ordered
  <2> QED BY <2>1, <2>2
<1> QED BY <1>1, <1>2, <1>3 DEF u

\* Arithmetic of a length.
LEMMA OneMore ==
    ASSUME NEW i \in Nat, NEW l \in Nat, i <= l + 1
    PROVE  i <= l \/ i = l + 1
OBVIOUS

\* A window begins.
LEMMA OpenTime ==
    ASSUME NEW s \in Seq(Nat), NEW t \in Nat, Past(s, t), Ordered(s),
           NEW n \in Nat, n = Largest + Largest, Apart(s, n), Closed(s, t), Largest >= 1
    PROVE  /\ Apart(Append(s, t), n)
           /\ Since(Append(s, t), 1, t)
<1> DEFINE u == Append(s, t)
<1>1. /\ Len(u) = Len(s) + 1
      /\ u[Len(s) + 1] = t
      /\ \A i \in 1..Len(s) : u[i] = s[i] /\ s[i] \in Nat
      /\ Len(s) \in Nat
      /\ Largest \in Nat
      /\ Shortest \in Nat
  BY AppendTime, LimitsAssumption
<1> HIDE DEF u
<1>2. Apart(u, n)
  <2> SUFFICES ASSUME NEW i \in 1..Len(u), i + n <= Len(u)
               PROVE  u[i] + Shortest < u[i + n]
    BY DEF Apart
  <2>1. CASE i + n <= Len(s)
    <3>1. i \in 1..Len(s) /\ i + n \in 1..Len(s)
      BY <1>1, <2>1
    <3>2. s[i] + Shortest < s[i + n]
      BY <2>1, <3>1 DEF Apart
    <3>3. u[i] = s[i] /\ u[i + n] = s[i + n]
      BY <1>1, <3>1
    <3> QED BY <3>2, <3>3
  <2>2. CASE i + n = Len(s) + 1
    <3>1. i \in 1..Len(s) /\ i + Largest <= Len(s)
      BY <1>1, <2>2
    <3>2. s[i] + Shortest < t
      BY <3>1 DEF Closed
    <3>3. u[i] = s[i] /\ u[i + n] = t
      BY <1>1, <2>2, <3>1
    <3> QED BY <3>2, <3>3
  <2>3. i + n <= Len(s) \/ i + n = Len(s) + 1
    <3>1. i \in Nat /\ i + n <= Len(s) + 1
      BY <1>1
    <3>2. i + n \in Nat /\ Len(s) \in Nat
      BY <1>1, <3>1
    <3> QED BY <3>1, <3>2, OneMore
  <2> QED BY <2>1, <2>2, <2>3
<1>3. Since(u, 1, t)
  <2>1. \A i \in 1..Len(u) : u[i] < t <=> i <= Len(u) - 1
    <3> SUFFICES ASSUME NEW i \in 1..Len(u) PROVE u[i] < t <=> i <= Len(u) - 1
      OBVIOUS
    <3>1. CASE i = Len(s) + 1
      BY <1>1, <3>1
    <3>2. CASE i \in 1..Len(s)
      BY <1>1, <3>2 DEF Closed
    <3> QED BY <1>1, <3>1, <3>2
  <2>2. ASSUME NEW i \in 1..Len(u), i + Largest <= Len(u) - 1
        PROVE  u[i] + Shortest < t
    <3>1. i \in 1..Len(s) /\ i + Largest <= Len(s)
      BY <1>1, <2>2
    <3> QED BY <1>1, <3>1 DEF Closed
  <2> QED BY <1>1, <2>1, <2>2 DEF Since
<1> QED BY <1>2, <1>3 DEF u

\* A window counts one more.
LEMMA CountTime ==
    ASSUME NEW s \in Seq(Nat), NEW t \in Nat, Past(s, t), Ordered(s),
           NEW n \in Nat, n = Largest + Largest, Apart(s, n),
           NEW c \in Nat, NEW start \in Nat,
           Since(s, c, start), start <= t, c < Largest
    PROVE  /\ Apart(Append(s, t), n)
           /\ Since(Append(s, t), c + 1, start)
<1> DEFINE u == Append(s, t)
<1>1. /\ Len(u) = Len(s) + 1
      /\ u[Len(s) + 1] = t
      /\ \A i \in 1..Len(s) : u[i] = s[i] /\ s[i] \in Nat
      /\ Len(s) \in Nat
      /\ Largest \in Nat
      /\ Shortest \in Nat
  BY AppendTime, LimitsAssumption
<1> HIDE DEF u
<1>2. Apart(u, n)
  <2> SUFFICES ASSUME NEW i \in 1..Len(u), i + n <= Len(u)
               PROVE  u[i] + Shortest < u[i + n]
    BY DEF Apart
  <2>1. CASE i + n <= Len(s)
    <3>1. i \in 1..Len(s) /\ i + n \in 1..Len(s)
      BY <1>1, <2>1
    <3>2. s[i] + Shortest < s[i + n]
      BY <2>1, <3>1 DEF Apart
    <3>3. u[i] = s[i] /\ u[i + n] = s[i + n]
      BY <1>1, <3>1
    <3> QED BY <3>2, <3>3
  <2>2. CASE i + n = Len(s) + 1
    <3>1. i \in 1..Len(s) /\ i + Largest <= Len(s) - c
      BY <1>1, <2>2
    <3>2. s[i] + Shortest < start
      BY <3>1 DEF Since
    <3>3. u[i] = s[i] /\ s[i] \in Nat /\ u[i + n] = t
      BY <1>1, <2>2, <3>1
    <3> QED BY <1>1, <3>2, <3>3
  <2>3. i + n <= Len(s) \/ i + n = Len(s) + 1
    <3>1. i \in Nat /\ i + n <= Len(s) + 1
      BY <1>1
    <3>2. i + n \in Nat /\ Len(s) \in Nat
      BY <1>1, <3>1
    <3> QED BY <3>1, <3>2, OneMore
  <2> QED BY <2>1, <2>2, <2>3
<1>3. Since(u, c + 1, start)
  <2>1. \A i \in 1..Len(u) : u[i] < start <=> i <= Len(u) - (c + 1)
    <3> SUFFICES ASSUME NEW i \in 1..Len(u)
                 PROVE  u[i] < start <=> i <= Len(u) - (c + 1)
      OBVIOUS
    <3>1. CASE i = Len(s) + 1
      <4>1. u[i] = t
        BY <1>1, <3>1
      <4> QED BY <1>1, <3>1, <4>1
    <3>2. CASE i \in 1..Len(s)
      <4>1. s[i] < start <=> i <= Len(s) - c
        BY <3>2 DEF Since
      <4> QED BY <1>1, <3>2, <4>1
    <3> QED BY <1>1, <3>1, <3>2
  <2>2. ASSUME NEW i \in 1..Len(u), i + Largest <= Len(u) - (c + 1)
        PROVE  u[i] + Shortest < start
    <3>1. i \in 1..Len(s) /\ i + Largest <= Len(s) - c
      BY <1>1, <2>2
    <3>2. s[i] + Shortest < start
      BY <3>1 DEF Since
    <3> QED BY <1>1, <3>1, <3>2
  <2>3. c <= Len(s)
    BY DEF Since
  <2>4. c + 1 \in 1..Largest /\ c + 1 <= Len(u)
    BY <1>1, <2>3
  <2> QED BY <2>1, <2>2, <2>4 DEF Since
<1> QED BY <1>2, <1>3 DEF u

\* The window has ended by t.
LEMMA CloseTime ==
    ASSUME NEW s \in Seq(Nat), NEW t \in Nat, NEW c \in Nat, NEW start \in Nat,
           Since(s, c, start), Past(s, t - 1), start + Shortest < t
    PROVE  Closed(s, t)
<1>1. /\ \A i \in 1..Len(s) : s[i] \in Nat
      /\ Len(s) \in Nat
      /\ Largest \in Nat
      /\ Shortest \in Nat
  BY LimitsAssumption
<1>2. ASSUME NEW i \in 1..Len(s)
      PROVE  s[i] < t
  <2>1. s[i] <= t - 1
    BY DEF Past
  <2> QED BY <1>1, <2>1
<1>3. ASSUME NEW i \in 1..Len(s), i + Largest <= Len(s)
      PROVE  s[i] + Shortest < t
  <2>1. i + Largest <= Len(s) - c \/ i <= Len(s) - c
    BY <1>1, <1>3 DEF Since
  <2>2. s[i] < start
    BY <1>1, <2>1 DEF Since
  <2> QED BY <1>1, <2>2
<1> QED BY <1>2, <1>3 DEF Closed

\* The requests that a window counts are those allowed since it began.
LEMMA CountedSince ==
    ASSUME NEW s \in Seq(Nat), NEW t \in Nat, NEW c \in Nat, NEW start \in Nat,
           Since(s, c, start), Past(s, t)
    PROVE  Cardinality({i \in DOMAIN s : s[i] \in start..t}) = c
<1>1. /\ \A i \in 1..Len(s) : s[i] \in Nat
      /\ Len(s) \in Nat
      /\ DOMAIN s = 1..Len(s)
  OBVIOUS
<1>2. {i \in DOMAIN s : s[i] \in start..t} = (Len(s) - c + 1)..Len(s)
  BY <1>1 DEF Since, Past
<1>3. Cardinality((Len(s) - c + 1)..Len(s)) = c
  BY <1>1, FS_Interval DEF Since
<1> QED BY <1>2, <1>3

\* A set of numbers has a least one.
LEMMA LeastElement ==
    ASSUME NEW S \in SUBSET Nat, S # {}
    PROVE  \E m \in S : \A i \in S : m <= i
<1>1. PICK m \in S : \A i \in S : <<i, m>> \notin OpToRel(<, Nat)
  BY NatLessThanWellFounded, WFMin
<1>2. ASSUME NEW i \in S
      PROVE  m <= i
  <2>1. <<i, m>> \in Nat \X Nat
    OBVIOUS
  <2>2. ~(i < m)
    BY <1>1, <2>1 DEF OpToRel
  <2> QED BY <2>2
<1> QED BY <1>2

\* Times apart are not crowded: no more than n of them fall into a time as long as the
\* shortest window.
LEMMA ApartAreFew ==
    ASSUME NEW s \in Seq(Nat), NEW n \in Nat, NEW t \in Nat, Ordered(s), Apart(s, n)
    PROVE  Cardinality({i \in DOMAIN s : s[i] \in t..t + Shortest}) <= n
<1> DEFINE S == {i \in DOMAIN s : s[i] \in t..t + Shortest}
<1>1. /\ \A i \in 1..Len(s) : s[i] \in Nat
      /\ Len(s) \in Nat
      /\ DOMAIN s = 1..Len(s)
      /\ Shortest \in Nat
  BY LimitsAssumption
<1>2. CASE S = {}
  <2>1. Cardinality(S) = 0
    BY <1>2, FS_EmptySet
  <2> QED BY <2>1
<1>3. CASE S # {}
  <2>1. PICK m \in S : \A i \in S : m <= i
    <3>1. S \subseteq Nat
      BY <1>1
    <3> HIDE DEF S
    <3> QED BY <1>3, <3>1, LeastElement
  <2>2. ASSUME NEW i \in S
        PROVE  i \in m..(m + n - 1)
    <3>1. /\ m \in 1..Len(s) /\ i \in 1..Len(s) /\ m <= i
          /\ t <= s[m] /\ s[i] <= t + Shortest
      BY <1>1, <2>1
    <3>2. CASE i >= m + n
      <4>1. m + n \in 1..Len(s)
        BY <1>1, <3>1, <3>2
      <4>2. s[m] + Shortest < s[m + n] /\ s[m + n] <= s[i]
        BY <3>1, <3>2, <4>1 DEF Ordered, Apart
      <4>3. s[m] \in Nat /\ s[m + n] \in Nat /\ s[i] \in Nat
        BY <1>1, <3>1, <4>1
      <4>4. s[m] + Shortest < s[i]
        BY <1>1, <4>2, <4>3
      <4> QED BY <1>1, <3>1, <4>3, <4>4
    <3>3. m \in Nat /\ i \in Nat
      BY <1>1, <3>1
    <3>4. ~(i >= m + n)
      BY <3>2
    <3> QED BY <3>1, <3>3, <3>4
  <2>3. /\ IsFiniteSet(m..(m + n - 1))
        /\ Cardinality(m..(m + n - 1)) = n
    <3>1. m \in Int /\ m + n - 1 \in Int
      BY <1>1, <2>1
    <3>2. n = IF m > m + n - 1 THEN 0 ELSE (m + n - 1) - m + 1
      BY <3>1
    <3> QED BY <3>1, <3>2, FS_Interval
  <2> QED BY <2>2, <2>3, FS_Subset
<1> QED BY <1>2, <1>3

-----------------------------------------------------------------------------
\* Quotas.

LiveIn(windows, k) == k \in DOMAIN windows /\ now <= windows[k].resetAt

\* With these windows, s may be the times at which requests of k were allowed: those
\* since the window that counts began are as many as it counts, and earlier windows
\* ended before it began.
Recorded(windows, s, k) ==
    /\ Past(s, now) /\ Ordered(s) /\ Apart(s, 2 * Largest)
    /\ LiveIn(windows, k) =>
           /\ windows[k].windowStart <= now
           /\ windows[k].windowStart + Shortest <= windows[k].resetAt
           /\ Since(s, windows[k].count, windows[k].windowStart)
    /\ ~LiveIn(windows, k) => Closed(s, now)

GrantsRecorded == \A k \in Keys : Recorded(counters, grants[k], k)

LEMMA CleanedRecords ==
    ASSUME IInv, NEW windows, Windows(windows), EndInTime(windows),
           NEW k \in Keys, NEW s, Recorded(windows, s, k)
    PROVE  Recorded(Cleaned(windows), s, k)
<1>1. CASE LiveIn(windows, k)
  <2>1. k \in DOMAIN Cleaned(windows) /\ Cleaned(windows)[k] = windows[k]
    BY <1>1, CleanedKeepsLive DEF IInv, LiveIn
  <2> QED BY <1>1, <2>1 DEF Recorded, LiveIn
<1>2. CASE ~LiveIn(windows, k)
  <2>1. ~LiveIn(Cleaned(windows), k)
    BY <1>2, CleanedKeeps DEF LiveIn
  <2> QED BY <1>2, <2>1 DEF Recorded
<1> QED BY <1>1, <1>2

LEMMA MethodRecords ==
    ASSUME IInv, NEW windows, Sound(windows), StoreAndClean(windows), now' = now,
           \A k \in Keys : Recorded(windows, grants'[k], k)
    PROVE  GrantsRecorded'
<1>1. counters' = Cleaned(windows)
  BY DEF StoreAndClean
<1>2. ASSUME NEW k \in Keys
      PROVE  Recorded(counters', grants'[k], k)
  BY <1>1, CleanedRecords DEF Sound
<1> QED BY <1>2 DEF GrantsRecorded, Recorded, LiveIn

\* The windows of the other keys, and what was recorded of them.
LEMMA OthersRecorded ==
    ASSUME NEW windows, NEW k \in Keys, GrantsRecorded,
           k \in DOMAIN counters \/ k \notin DOMAIN windows,
           k \in DOMAIN counters => k \in DOMAIN windows /\ windows[k] = counters[k]
    PROVE  Recorded(windows, grants[k], k)
BY DEF GrantsRecorded, Recorded, LiveIn

LEMMA TwoQuotas == 2 * Largest \in Nat /\ 2 * Largest = Largest + Largest
BY LimitsAssumption

LEMMA OpenRecords ==
    ASSUME IInv, GrantsRecorded, NEW r \in Requests, OpenWindow(r)
    PROVE  GrantsRecorded'
<1> DEFINE k == req[r].key
           w == NewWindow(req[r].limit)
           windows == With(k, w)
           u == Append(grants[k], now)
<1>1. /\ req[r] # Idle /\ ~Live(k) /\ now' = now
      /\ StoreAndClean(windows)
      /\ grants' = [grants EXCEPT ![k] = u]
  BY DEF OpenWindow, Record
<1>2. /\ k \in Keys
      /\ req[r].limit.max \in 1..Largest
      /\ req[r].limit.window \in Shortest..StaleEntryTTL
      /\ now \in Nat /\ Largest \in Nat /\ Shortest \in Nat /\ StaleEntryTTL \in Nat
      /\ grants \in [Keys -> Seq(Nat)]
  BY <1>1, CarriedRequest, LimitsAssumption DEF IInv, TypeOK
<1>3. Sound(windows)
  BY <1>1, OpenedAreSound
<1>4. /\ k \in DOMAIN windows
      /\ windows[k].count = 1
      /\ windows[k].windowStart = now
      /\ windows[k].resetAt = now + req[r].limit.window
      /\ DOMAIN windows = {k} \cup DOMAIN counters
      /\ \A j \in DOMAIN counters \ {k} : windows[j] = counters[j]
  BY DEF With, NewWindow
<1>5. Recorded(windows, u, k)
  <2>1. /\ Past(grants[k], now) /\ Ordered(grants[k]) /\ Apart(grants[k], 2 * Largest)
        /\ Closed(grants[k], now)
    BY <1>1, <1>2 DEF GrantsRecorded, Recorded, LiveIn, Live
  <2>2. grants[k] \in Seq(Nat) /\ Largest >= 1
    BY <1>2
  <2>3. /\ Past(u, now) /\ Ordered(u)
        /\ Apart(u, 2 * Largest)
        /\ Since(u, 1, now)
    BY <1>2, <2>1, <2>2, TwoQuotas, AppendTime, OpenTime
  <2>4. LiveIn(windows, k) /\ now + Shortest <= windows[k].resetAt
    BY <1>2, <1>4 DEF LiveIn
  <2> HIDE DEF windows, u
  <2> QED BY <1>2, <1>4, <2>3, <2>4 DEF Recorded
<1> HIDE DEF windows, u
<1>6. ASSUME NEW j \in Keys
      PROVE  Recorded(windows, grants'[j], j)
  <2>1. CASE j = k
    BY <1>1, <1>2, <1>5, <2>1
  <2>2. CASE j # k
    <3>1. grants'[j] = grants[j]
      BY <1>1, <1>2, <2>2
    <3> QED BY <1>4, <2>2, <3>1, OthersRecorded
  <2> QED BY <2>1, <2>2
<1> QED BY <1>1, <1>3, <1>6, MethodRecords

\* A method that looks at the window of k, which counts n now, and records s for k.
LEMMA SeenRecords ==
    ASSUME IInv, GrantsRecorded, NEW k \in Keys, Live(k), NEW n \in Nat,
           n >= counters[k].count, StoreAndClean(Seen(k, n)), now' = now,
           NEW s, grants' = [grants EXCEPT ![k] = s],
           Past(s, now), Ordered(s), Apart(s, 2 * Largest),
           Since(s, n, counters[k].windowStart)
    PROVE  GrantsRecorded'
<1> DEFINE windows == Seen(k, n)
<1>1. k \in DOMAIN counters
  BY DEF Live
<1>2. /\ DOMAIN windows = DOMAIN counters
      /\ windows[k].windowStart = counters[k].windowStart
      /\ windows[k].resetAt = counters[k].resetAt
      /\ windows[k].count = n
      /\ \A j \in DOMAIN counters \ {k} : windows[j] = counters[j]
  BY <1>1, SeenWindows
<1>3. Sound(windows)
  BY <1>1, SeenAreSound
<1>4. grants \in [Keys -> Seq(Nat)]
  BY DEF IInv, TypeOK
<1> HIDE DEF windows
<1>5. Recorded(windows, s, k)
  BY <1>1, <1>2 DEF GrantsRecorded, Recorded, LiveIn, Live
<1>6. ASSUME NEW j \in Keys
      PROVE  Recorded(windows, grants'[j], j)
  <2>1. CASE j = k
    BY <1>4, <1>5, <2>1
  <2>2. CASE j # k
    <3>1. grants'[j] = grants[j]
      BY <1>4, <2>2
    <3> QED BY <1>2, <2>2, <3>1, OthersRecorded
  <2> QED BY <2>1, <2>2
<1> QED BY <1>3, <1>6, MethodRecords DEF windows

LEMMA AllowRecords ==
    ASSUME IInv, GrantsRecorded, NEW r \in Requests, Allow(r)
    PROVE  GrantsRecorded'
<1> DEFINE k == req[r].key
           c == counters[k].count
           s == Append(grants[k], now)
<1>1. /\ req[r] # Idle /\ Live(k) /\ now' = now
      /\ c < req[r].limit.max
      /\ StoreAndClean(Seen(k, c + 1))
      /\ grants' = [grants EXCEPT ![k] = s]
  BY DEF Allow, Record
<1>2. /\ k \in Keys
      /\ req[r].limit.max \in 1..Largest
      /\ now \in Nat /\ Largest \in Nat
      /\ grants[k] \in Seq(Nat)
  BY <1>1, CarriedRequest, LimitsAssumption DEF IInv, TypeOK
<1>3. c \in Nat /\ counters[k].windowStart \in Nat
  BY <1>1 DEF Live, IInv, TypeOK, Window
<1>4. c < Largest
  BY <1>1, <1>2, <1>3
<1>5. /\ Past(grants[k], now) /\ Ordered(grants[k]) /\ Apart(grants[k], 2 * Largest)
      /\ counters[k].windowStart <= now
      /\ Since(grants[k], c, counters[k].windowStart)
  BY <1>1, <1>2 DEF GrantsRecorded, Recorded, LiveIn, Live
<1>6. /\ Past(s, now) /\ Ordered(s) /\ Apart(s, 2 * Largest)
      /\ Since(s, c + 1, counters[k].windowStart)
  BY <1>2, <1>3, <1>4, <1>5, TwoQuotas, AppendTime, CountTime
<1>7. c + 1 \in Nat /\ c + 1 >= c
  BY <1>3
<1> HIDE DEF k, s
<1> QED BY <1>1, <1>2, <1>6, <1>7, SeenRecords

\* A method that looks at the window of k and counts nothing.
LEMMA LookRecords ==
    ASSUME IInv, GrantsRecorded, NEW k \in Keys, Live(k),
           StoreAndClean(Seen(k, counters[k].count)), UNCHANGED <<now, grants>>
    PROVE  GrantsRecorded'
<1>1. counters[k].count \in Nat /\ counters[k].count >= counters[k].count
  <2>1. counters[k].count \in Nat
    BY DEF Live, IInv, TypeOK, Window
  <2> QED BY <2>1
<1>2. /\ Past(grants[k], now) /\ Ordered(grants[k]) /\ Apart(grants[k], 2 * Largest)
      /\ Since(grants[k], counters[k].count, counters[k].windowStart)
  BY DEF GrantsRecorded, Recorded, LiveIn, Live
<1>3. grants' = [grants EXCEPT ![k] = grants[k]]
  BY DEF IInv, TypeOK
<1> QED BY <1>1, <1>2, <1>3, SeenRecords

\* Time goes on: a window that counts goes on counting, or has ended.
LEMMA TickRecords ==
    ASSUME IInv, GrantsRecorded, Tick
    PROVE  GrantsRecorded'
<1>1. /\ now \in Nat /\ now' = now + 1
      /\ UNCHANGED <<counters, grants>>
      /\ Shortest \in Nat
  BY LimitsAssumption DEF Tick, IInv, TypeOK
<1> SUFFICES ASSUME NEW k \in Keys
             PROVE  Recorded(counters, grants[k], k)'
  BY <1>1 DEF GrantsRecorded
<1> DEFINE s == grants[k]
           w == counters[k]
<1>2. /\ s \in Seq(Nat)
      /\ \A i \in 1..Len(s) : s[i] \in Nat
      /\ Past(s, now) /\ Ordered(s) /\ Apart(s, 2 * Largest)
      /\ LiveIn(counters, k) =>
           /\ w.windowStart <= now
           /\ w.windowStart + Shortest <= w.resetAt
           /\ Since(s, w.count, w.windowStart)
      /\ ~LiveIn(counters, k) => Closed(s, now)
  BY DEF GrantsRecorded, Recorded, IInv, TypeOK
<1>3. k \in DOMAIN counters => w.count \in Nat /\ w.windowStart \in Nat /\ w.resetAt \in Nat
  BY DEF IInv, TypeOK, Window
<1> HIDE DEF s
<1>4. Past(s, now + 1)
  BY <1>1, <1>2 DEF Past
<1>5. ASSUME k \in DOMAIN counters, now + 1 <= w.resetAt
      PROVE  /\ w.windowStart <= now + 1
             /\ w.windowStart + Shortest <= w.resetAt
             /\ Since(s, w.count, w.windowStart)
  BY <1>1, <1>2, <1>3, <1>5 DEF LiveIn
<1>6. ASSUME ~(k \in DOMAIN counters /\ now + 1 <= w.resetAt)
      PROVE  Closed(s, now + 1)
  <2>1. CASE LiveIn(counters, k)
    <3>1. /\ k \in DOMAIN counters
          /\ w.windowStart + Shortest < now + 1
          /\ Since(s, w.count, w.windowStart)
      BY <1>1, <1>2, <1>3, <1>6, <2>1 DEF LiveIn
    <3>2. Past(s, (now + 1) - 1)
      BY <1>1, <1>2
    <3> QED BY <1>1, <1>2, <1>3, <3>1, <3>2, CloseTime
  <2>2. CASE ~LiveIn(counters, k)
    <3>1. Closed(s, now)
      BY <1>2, <2>2
    <3> QED BY <1>1, <1>2, <3>1 DEF Closed
  <2> QED BY <2>1, <2>2
<1> HIDE DEF w
<1> QED BY <1>1, <1>2, <1>4, <1>5, <1>6 DEF Recorded, LiveIn, s, w

LEMMA StepRecords ==
    ASSUME IInv, GrantsRecorded, [Next]_vars
    PROVE  GrantsRecorded'
<1>1. ASSUME NEW r \in Requests, OpenWindow(r) PROVE GrantsRecorded'
  BY <1>1, OpenRecords
<1>2. ASSUME NEW r \in Requests, Allow(r) PROVE GrantsRecorded'
  BY <1>2, AllowRecords
<1>3. ASSUME NEW r \in Requests, Deny(r) PROVE GrantsRecorded'
  <2>1. req[r].key \in Keys
    BY <1>3, CarriedRequest DEF Deny, IInv
  <2> QED BY <1>3, <2>1, LookRecords DEF Deny
<1>4. ASSUME NEW k \in Keys, Remaining(k) PROVE GrantsRecorded'
  <2>1. CASE Live(k)
    BY <1>4, <2>1, LookRecords DEF Remaining
  <2>2. CASE ~Live(k)
    <3>1. /\ StoreAndClean(counters)
          /\ UNCHANGED <<now, grants>>
      BY <1>4, <2>2 DEF Remaining
    <3> QED BY <3>1, CountersAreSound, MethodRecords DEF GrantsRecorded
  <2> QED BY <2>1, <2>2
<1>5. CASE UNCHANGED <<now, counters, grants>>
  BY <1>5 DEF GrantsRecorded, Recorded, LiveIn
<1>6. CASE Tick
  BY <1>6, TickRecords
<1> QED BY <1>1, <1>2, <1>3, <1>4, <1>5, <1>6 DEF Next, Authenticate, UpdateLimit, vars

LEMMA InitRecords == Init => GrantsRecorded
<1> SUFFICES ASSUME Init, NEW k \in Keys PROVE Recorded(counters, grants[k], k)
  BY DEF GrantsRecorded
<1>1. grants[k] = <<>> /\ Len(<<>>) = 0 /\ ~LiveIn(counters, k)
  BY DEF Init, LiveIn
<1> QED BY <1>1 DEF Recorded, Past, Ordered, Apart, Closed

LEMMA Recording == Spec => [](IInv /\ GrantsRecorded)
<1>1. Init => IInv /\ GrantsRecorded
  BY InitIInv, InitRecords
<1>2. IInv /\ GrantsRecorded /\ [Next]_vars => (IInv /\ GrantsRecorded)'
  BY StepKeeps, StepRecords
<1> QED BY <1>1, <1>2, PTL DEF Spec

\* However many requests of a key are answered at the same time, the count of its
\* window is the number of requests allowed since the window began (Allow).
THEOREM CountsAreGrants == Spec => []WindowCountsGrants
<1>1. IInv /\ GrantsRecorded => WindowCountsGrants
  <2> SUFFICES ASSUME IInv, GrantsRecorded, NEW k \in Keys, Live(k)
               PROVE  counters[k].count = Granted(k, counters[k].windowStart, now)
    BY DEF WindowCountsGrants
  <2>1. /\ counters[k].count \in Nat /\ counters[k].windowStart \in Nat
        /\ now \in Nat
        /\ grants[k] \in Seq(Nat)
    BY DEF Live, IInv, TypeOK, Window
  <2>2. /\ Past(grants[k], now)
        /\ Since(grants[k], counters[k].count, counters[k].windowStart)
    BY DEF GrantsRecorded, Recorded, LiveIn, Live
  <2> QED BY <2>1, <2>2, CountedSince DEF Granted
<1> QED BY <1>1, Recording, PTL

\* For any limits, and whatever the administrator does to them meanwhile, a key is
\* allowed at most two of the largest quotas in a time as long as the shortest window.
THEOREM QuotasAreKept == Spec => []TwoQuotasPerInterval
<1>1. IInv /\ GrantsRecorded => TwoQuotasPerInterval
  <2> SUFFICES ASSUME IInv, GrantsRecorded, NEW k \in Keys, NEW t \in 0..MaxTime
               PROVE  Granted(k, t, t + Shortest) <= 2 * Largest
    BY DEF TwoQuotasPerInterval
  <2>1. t \in Nat /\ grants[k] \in Seq(Nat)
    BY DEF IInv, TypeOK
  <2>2. Ordered(grants[k]) /\ Apart(grants[k], 2 * Largest)
    BY DEF GrantsRecorded, Recorded
  <2> QED BY <2>1, <2>2, TwoQuotas, ApartAreFew DEF Granted
<1> QED BY <1>1, Recording, PTL

-----------------------------------------------------------------------------
\* The ideal limiter.

Windowing == [k \in Keys |-> Counting(k)]

\* What counts of some windows.
CountingIn(windows, k) ==
    IF k \in DOMAIN windows /\ now <= windows[k].resetAt
      THEN [count |-> windows[k].count, resetAt |-> windows[k].resetAt]
      ELSE NoWindow

\* A window that counts has allowed something, so it is told from none.
LEMMA CountsSome ==
    ASSUME IInv, GrantsRecorded, NEW k \in Keys
    PROVE  /\ Live(k) => /\ Counting(k).count = counters[k].count
                         /\ Counting(k).resetAt = counters[k].resetAt
                         /\ Counting(k) # NoWindow
           /\ ~Live(k) => Counting(k) = NoWindow
<1>1. ASSUME Live(k)
      PROVE  counters[k].count # 0
  <2>1. Since(grants[k], counters[k].count, counters[k].windowStart)
    BY <1>1 DEF GrantsRecorded, Recorded, LiveIn, Live
  <2>2. Largest \in Nat
    BY LimitsAssumption
  <2> QED BY <2>1, <2>2 DEF Since
<1>2. NoWindow.count = 0
  BY DEF NoWindow
<1> QED BY <1>1, <1>2 DEF Counting

\* The cleanup does not show in what counts.
LEMMA StoredCounting ==
    ASSUME IInv, NEW windows, Windows(windows), EndInTime(windows),
           StoreAndClean(windows), now' = now, NEW k \in Keys
    PROVE  Counting(k)' = CountingIn(windows, k)
<1>1. counters' = Cleaned(windows)
  BY DEF StoreAndClean
<1>2. CASE k \in DOMAIN windows /\ now <= windows[k].resetAt
  <2>1. k \in DOMAIN counters' /\ counters'[k] = windows[k]
    BY <1>1, <1>2, CleanedKeepsLive DEF IInv
  <2> QED BY <1>2, <2>1 DEF Counting, Live, CountingIn
<1>3. CASE ~(k \in DOMAIN windows /\ now <= windows[k].resetAt)
  <2>1. k \in DOMAIN counters' => k \in DOMAIN windows /\ counters'[k] = windows[k]
    BY <1>1, CleanedKeeps
  <2> QED BY <1>3, <2>1 DEF Counting, Live, CountingIn
<1> QED BY <1>2, <1>3

\* A window that is looked at, and may count one more.
LEMMA SeenCounting ==
    ASSUME IInv, NEW k \in Keys, Live(k), NEW n \in Nat,
           StoreAndClean(Seen(k, n)), now' = now
    PROVE  Windowing' = [Windowing EXCEPT
                ![k] = [count |-> n, resetAt |-> counters[k].resetAt]]
<1> DEFINE windows == Seen(k, n)
<1>1. /\ k \in DOMAIN counters /\ now <= counters[k].resetAt
      /\ Windows(windows) /\ EndInTime(windows)
      /\ DOMAIN windows = DOMAIN counters
      /\ windows[k].resetAt = counters[k].resetAt
      /\ windows[k].count = n
      /\ \A j \in DOMAIN counters \ {k} : windows[j] = counters[j]
  BY SeenWindows DEF Live
<1> HIDE DEF windows
<1>2. \A j \in Keys : Counting(j)' = CountingIn(windows, j)
  BY <1>1, StoredCounting DEF windows
<1>3. CountingIn(windows, k) = [count |-> n, resetAt |-> counters[k].resetAt]
  BY <1>1 DEF CountingIn
<1>4. \A j \in Keys \ {k} : CountingIn(windows, j) = Counting(j)
  BY <1>1 DEF CountingIn, Counting, Live
<1> QED BY <1>2, <1>3, <1>4 DEF Windowing

\* A new window begins the ideal one, which was over.
LEMMA OpenIsIdeal ==
    ASSUME IInv, GrantsRecorded, NEW r \in Requests, OpenWindow(r)
    PROVE  Ideal!Next
<1> DEFINE k == req[r].key
           l == req[r].limit
           windows == With(k, NewWindow(l))
<1>1. /\ req[r] # Idle /\ ~Live(k) /\ StoreAndClean(windows) /\ Record(k) /\ now' = now
  BY DEF OpenWindow
<1>2. /\ k \in Keys /\ l \in Limits
      /\ now \in Nat /\ l.window \in Nat
  BY <1>1, CarriedRequest, LimitsAssumption DEF IInv, TypeOK
<1>3. Windows(windows) /\ EndInTime(windows)
  BY <1>1, OpenedWindows
<1>4. /\ DOMAIN windows = {k} \cup DOMAIN counters
      /\ windows[k].count = 1 /\ windows[k].resetAt = now + l.window
      /\ \A j \in DOMAIN counters \ {k} : windows[j] = counters[j]
  BY DEF With, NewWindow
<1> HIDE DEF windows, k, l
<1>5. now <= now + l.window
  BY <1>2
<1>6. \A j \in Keys : Counting(j)' = CountingIn(windows, j)
  BY <1>1, <1>3, StoredCounting
<1>7. CountingIn(windows, k) = [count |-> 1, resetAt |-> now + l.window]
  BY <1>4, <1>5 DEF CountingIn
<1>8. \A j \in Keys \ {k} : CountingIn(windows, j) = Counting(j)
  BY <1>4 DEF CountingIn, Counting, Live
<1>9. Windowing' = [Windowing EXCEPT ![k] = [count |-> 1, resetAt |-> now + l.window]]
  BY <1>6, <1>7, <1>8 DEF Windowing
<1>10. Windowing[k] = NoWindow
  BY <1>1, <1>2, CountsSome DEF Windowing
<1>11. Ideal!Begin(k, l)
  BY <1>1, <1>9, <1>10 DEF Ideal!Begin, Ideal!Grant, Ideal!NoWindow, NoWindow, Windowing,
                          Record
<1> QED BY <1>2, <1>11 DEF Ideal!Next

\* A request that is let into a window counts in the ideal one.
LEMMA AllowIsIdeal ==
    ASSUME IInv, GrantsRecorded, NEW r \in Requests, Allow(r)
    PROVE  Ideal!Next
<1> DEFINE k == req[r].key
           l == req[r].limit
<1>1. /\ req[r] # Idle /\ Live(k) /\ counters[k].count < l.max
      /\ StoreAndClean(Seen(k, counters[k].count + 1)) /\ Record(k) /\ now' = now
  BY DEF Allow
<1>2. k \in Keys /\ l \in Limits
  BY <1>1 DEF IInv, TypeOK
<1> HIDE DEF k, l
<1>3. counters[k].count \in Nat /\ counters[k].count + 1 \in Nat
  BY <1>1 DEF IInv, TypeOK, Window, Live
<1>4. Windowing' = [Windowing EXCEPT ![k] =
          [count |-> counters[k].count + 1, resetAt |-> counters[k].resetAt]]
  BY <1>1, <1>2, <1>3, SeenCounting
<1>5. /\ Windowing[k].count = counters[k].count
      /\ Windowing[k].resetAt = counters[k].resetAt
      /\ Windowing[k] # NoWindow
  BY <1>1, <1>2, CountsSome DEF Windowing
<1>6. Ideal!Count(k, l)
  BY <1>1, <1>4, <1>5 DEF Ideal!Count, Ideal!Grant, Ideal!NoWindow, NoWindow, Windowing,
                         Record
<1> QED BY <1>2, <1>6 DEF Ideal!Next

\* Looking at a window is not seen.
LEMMA LookIsIdeal ==
    ASSUME IInv, GrantsRecorded, NEW k \in Keys, Live(k),
           StoreAndClean(Seen(k, counters[k].count)), now' = now
    PROVE  Windowing' = Windowing
<1>1. counters[k].count \in Nat
  BY DEF IInv, TypeOK, Window, Live
<1>2. Windowing' = [Windowing EXCEPT
          ![k] = [count |-> counters[k].count, resetAt |-> counters[k].resetAt]]
  BY <1>1, SeenCounting
<1>3. Windowing[k] = [count |-> counters[k].count, resetAt |-> counters[k].resetAt]
  BY DEF Windowing, Counting
<1> QED BY <1>2, <1>3 DEF Windowing

\* The windows that end with a tick are those the ideal limiter drops at it.
LEMMA TickIsIdeal ==
    ASSUME IInv, GrantsRecorded, Tick
    PROVE  Ideal!Next
<1>1. /\ now' = now + 1 /\ UNCHANGED <<counters, grants>>
      /\ now \in Nat
  BY DEF Tick, IInv, TypeOK
<1>2. ASSUME NEW k \in Keys
      PROVE  Counting(k)' = IF Windowing[k] # NoWindow /\ Windowing[k].resetAt < now'
                              THEN NoWindow ELSE Windowing[k]
  <2>1. CASE Live(k)
    <3>1. /\ Windowing[k] # NoWindow /\ Windowing[k].resetAt = counters[k].resetAt
          /\ Windowing[k] = Counting(k)
      BY <2>1, CountsSome DEF Windowing
    <3>2. counters[k].resetAt \in Nat
      BY <2>1 DEF IInv, TypeOK, Window, Live
    <3>3. now' <= counters[k].resetAt <=> ~(counters[k].resetAt < now')
      BY <1>1, <3>2
    <3> QED BY <1>1, <2>1, <3>1, <3>3 DEF Counting, Live
  <2>2. CASE ~Live(k)
    <3>1. Windowing[k] = NoWindow
      BY <2>2, CountsSome DEF Windowing
    <3>2. ASSUME k \in DOMAIN counters
          PROVE  ~(now' <= counters[k].resetAt)
      <4>1. counters[k].resetAt \in Nat /\ ~(now <= counters[k].resetAt)
        BY <2>2, <3>2 DEF IInv, TypeOK, Window, Live
      <4> QED BY <1>1, <4>1
    <3>3. Counting(k)' = NoWindow
      BY <1>1, <3>2 DEF Counting, Live
    <3> QED BY <3>1, <3>3
  <2> QED BY <2>1, <2>2
<1>3. Ideal!Pass
  BY <1>1, <1>2 DEF Ideal!Pass, Ideal!NoWindow, NoWindow, Windowing
<1> QED BY <1>3 DEF Ideal!Next

\* Every step is one of the ideal limiter, or none of its.
LEMMA StepIsIdeal ==
    ASSUME IInv, GrantsRecorded, [Next]_vars
    PROVE  [Ideal!Next]_(Ideal!quotaVars)
<1>1. ASSUME Windowing' = Windowing, UNCHANGED <<now, grants>>
      PROVE  UNCHANGED Ideal!quotaVars
  BY <1>1 DEF Ideal!quotaVars, Windowing
<1>2. ASSUME UNCHANGED <<now, counters>>
      PROVE  Windowing' = Windowing
  BY <1>2 DEF Windowing, Counting, Live
<1>3. ASSUME NEW r \in Requests, OpenWindow(r) PROVE Ideal!Next
  BY <1>3, OpenIsIdeal
<1>4. ASSUME NEW r \in Requests, Allow(r) PROVE Ideal!Next
  BY <1>4, AllowIsIdeal
<1>5. ASSUME NEW r \in Requests, Deny(r) PROVE UNCHANGED Ideal!quotaVars
  <2>1. /\ req[r] # Idle /\ Live(req[r].key) /\ UNCHANGED <<now, grants>>
        /\ StoreAndClean(Seen(req[r].key, counters[req[r].key].count))
    BY <1>5 DEF Deny
  <2>2. req[r].key \in Keys
    BY <2>1, CarriedRequest DEF IInv
  <2> QED BY <1>1, <2>1, <2>2, LookIsIdeal
<1>6. ASSUME NEW k \in Keys, Remaining(k) PROVE UNCHANGED Ideal!quotaVars
  <2>1. UNCHANGED <<now, grants>>
    BY <1>6 DEF Remaining
  <2>2. CASE Live(k)
    <3>1. StoreAndClean(Seen(k, counters[k].count))
      BY <1>6, <2>2 DEF Remaining
    <3> QED BY <1>1, <2>1, <2>2, <3>1, LookIsIdeal
  <2>3. CASE ~Live(k)
    <3>1. StoreAndClean(counters)
      BY <1>6, <2>3 DEF Remaining
    <3>2. Windows(counters) /\ EndInTime(counters)
      BY CountersAreSound DEF Sound
    <3>3. \A j \in Keys : Counting(j)' = CountingIn(counters, j)
      BY <2>1, <3>1, <3>2, StoredCounting
    <3>4. \A j \in Keys : CountingIn(counters, j) = Counting(j)
      BY DEF CountingIn, Counting, Live
    <3>5. Windowing' = Windowing
      BY <3>3, <3>4 DEF Windowing
    <3> QED BY <1>1, <2>1, <3>5
  <2> QED BY <2>2, <2>3
<1>7. ASSUME NEW r \in Requests, NEW k \in Keys, Authenticate(r, k)
      PROVE  UNCHANGED Ideal!quotaVars
  BY <1>1, <1>2, <1>7 DEF Authenticate
<1>8. ASSUME NEW k \in Keys, UpdateLimit(k) PROVE UNCHANGED Ideal!quotaVars
  BY <1>1, <1>2, <1>8 DEF UpdateLimit
<1>9. CASE Tick
  BY <1>9, TickIsIdeal
<1>10. CASE UNCHANGED vars
  BY <1>1, <1>2, <1>10 DEF vars
<1> QED BY <1>3, <1>4, <1>5, <1>6, <1>7, <1>8, <1>9, <1>10 DEF Next

\* The limiter begins as the ideal one does.
LEMMA InitIsIdeal == Init => Ideal!Init
<1> SUFFICES ASSUME Init PROVE Ideal!Init
  OBVIOUS
<1>1. \A k \in Keys : Counting(k) = NoWindow
  BY DEF Init, Counting, Live
<1> QED BY <1>1 DEF Init, Ideal!Init, Ideal!NoWindow, NoWindow

\* The limiter implements the ideal one: its table, its cleanup, and the requests that
\* carry older limits show in nothing that it allows (Allow, Remaining and cleanupLocked of
\* middleware/ratelimit.go).
THEOREM LimiterImplementsQuota == Spec => ImplementsQuota
<1>1. IInv /\ GrantsRecorded /\ [Next]_vars => [Ideal!Next]_(Ideal!quotaVars)
  BY StepIsIdeal
<1> QED BY <1>1, InitIsIdeal, Recording, PTL DEF Spec, ImplementsQuota, Ideal!Spec

=============================================================================
