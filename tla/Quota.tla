------------------------------- MODULE Quota --------------------------------
(***************************************************************************)
(* What the rate limiter promises: an ideal limiter, which remembers the   *)
(* window of every key exactly until it is over.  It has no table of       *)
(* windows that grows, no cleanup, and no requests that carry limits read  *)
(* earlier: a request is held against some limit that an administrator may *)
(* have given, and a refusal changes nothing.  RateLimiter is shown to     *)
(* implement this: what its cleanup drops, and when, cannot be told from   *)
(* what it allows.                                                         *)
(***************************************************************************)
EXTENDS Naturals, Sequences

CONSTANTS
    Keys,     \* API keys
    Limits    \* the limits a key may have

VARIABLES
    clock,    \* the time
    window,   \* window[k]: the requests allowed in the window of k, and its end
    allowed   \* allowed[k]: when requests of k were allowed, in order

quotaVars == <<clock, window, allowed>>

\* Nothing was allowed since the last window was over.
NoWindow == [count |-> 0, resetAt |-> 0]

Init ==
    /\ clock = 0
    /\ window = [k \in Keys |-> NoWindow]
    /\ allowed = [k \in Keys |-> <<>>]

Grant(k, w) ==
    /\ window' = [window EXCEPT ![k] = w]
    /\ allowed' = [allowed EXCEPT ![k] = Append(@, clock)]
    /\ UNCHANGED clock

\* The first request of a window begins it.
Begin(k, l) ==
    /\ window[k] = NoWindow
    /\ Grant(k, [count |-> 1, resetAt |-> clock + l.window])

\* A request is allowed as long as fewer than the limit were; the end stays.
Count(k, l) ==
    /\ window[k] # NoWindow
    /\ window[k].count < l.max
    /\ Grant(k, [count |-> window[k].count + 1, resetAt |-> window[k].resetAt])

\* A window is over after its end.
Pass ==
    /\ clock' = clock + 1
    /\ window' = [k \in Keys |-> IF window[k] # NoWindow /\ window[k].resetAt < clock'
                                   THEN NoWindow ELSE window[k]]
    /\ UNCHANGED allowed

Next ==
    \/ \E k \in Keys, l \in Limits : Begin(k, l) \/ Count(k, l)
    \/ Pass

Spec == Init /\ [][Next]_quotaVars

=============================================================================
