----------------------------- MODULE KeyConsole -----------------------------
(***************************************************************************)
(* The dashboard's page of one API key (APIKeyDetailPage) in one browser   *)
(* tab: the copy of the key that the query cache keeps and fetches again   *)
(* (useAPIKey), and what the page does to the key: edit, regenerate,       *)
(* revoke and sweep.  The other administrators, with tabs of their own,    *)
(* change the row at any time; activation and funding are in FundingForms. *)
(*                                                                         *)
(* Every write of the row takes a new version, and a new secret has the    *)
(* version that it came with.  A call goes on at the service when the page *)
(* that made it is left, fails or is reloaded: it loses its owner only.    *)
(* The page ignores the answers of calls that it made before it was left,  *)
(* but the mutation still invalidates the cache, as long as the tab was    *)
(* not reloaded.  Field values, the wording of errors, dialogs that only   *)
(* ask for a confirmation, and the list of keys are left out.              *)
(***************************************************************************)
EXTENDS Integers, FiniteSets

CONSTANTS
    Calls,  \* identities of the calls in flight
    None,   \* no call, no copy of the key
    Idle,   \* no fetch in flight
    Asked,  \* a fetch that the service has not answered
    MaxVer  \* bound on the versions of the row

ASSUME CallsAssumption == IsFiniteSet(Calls)
ASSUME BoundAssumption == MaxVer \in Nat

VARIABLES
    row,      \* the row of the key
    away,     \* the tab shows another page of the dashboard
    cache,    \* the copy of the key that the page shows
    invalid,  \* the copy is marked as invalidated
    fetch,    \* the fetch of the copy: Idle, Asked, or what the service answered
    shown,    \* the regenerated secret on display, 0 if there is none
    editOpen, \* the edit dialog is open
    call,     \* call[i]: what call i is and how far it is
    acked     \* the last own write that was answered while the page was open

vars == <<row, away, cache, invalid, fetch, shown, editOpen, call, acked>>

query == <<cache, invalid, fetch>>
page == <<away, shown, editOpen>>

-----------------------------------------------------------------------------

Status == {"pending_funding", "active", "revoked"}

Row == [ver : Nat, status : Status, secret : Nat]

Copy == [ver : Nat, status : Status]

Kind == {"save", "regenerate", "revoke", "sweep"}

\* owner: the page as it is now, the tab only (the page was left), or nobody.
\* ver: what the call has written, once its answer is on its way.
Call ==
    [kind : Kind, owner : {"page", "tab", "nobody"}, phase : {"asked", "read", "ok"},
     ver : Nat]

ASSUME NoneAssumption == None \notin Call /\ None \notin Copy

ASSUME FetchAssumption == Idle # Asked /\ Idle \notin Copy /\ Asked \notin Copy

CopyOf(r) == [ver |-> r.ver, status |-> r.status]

TypeOK ==
    /\ row \in Row
    /\ row.secret <= row.ver
    /\ away \in BOOLEAN
    /\ cache \in Copy \cup {None}
    /\ invalid \in BOOLEAN
    /\ fetch \in Copy \cup {Idle, Asked}
    /\ shown \in Nat
    /\ editOpen \in BOOLEAN
    /\ call \in [Calls -> Call \cup {None}]
    /\ acked \in Nat
    /\ acked <= row.ver
    /\ \A i \in Calls : call[i] # None => call[i].ver <= row.ver

\* The page is opened on a key that exists.
Init ==
    /\ row \in [ver : {1}, status : Status, secret : {0}]
    /\ away = FALSE
    /\ cache = None
    /\ invalid = FALSE
    /\ fetch = Asked
    /\ shown = 0
    /\ editOpen = FALSE
    /\ call = [i \in Calls |-> None]
    /\ acked = 0

-----------------------------------------------------------------------------
\* The query of the key.

\* Faulty variant of StartFetch, not in Next: no refetch interval.
StartFetchOnce ==
    /\ ~away
    /\ fetch = Idle
    /\ cache = None
    /\ fetch' = Asked
    /\ UNCHANGED <<row, page, cache, invalid, call, acked>>

\* The refetch interval, or the page's first look.
StartFetch ==
    /\ ~away
    /\ fetch = Idle
    /\ fetch' = Asked
    /\ UNCHANGED <<row, page, cache, invalid, call, acked>>

GetAPIKey ==
    /\ fetch = Asked
    /\ fetch' = CopyOf(row)
    /\ UNCHANGED <<row, page, cache, invalid, call, acked>>

FetchArrives ==
    /\ fetch \notin {Idle, Asked}
    /\ cache' = fetch
    /\ invalid' = FALSE
    /\ fetch' = Idle
    /\ UNCHANGED <<row, page, call, acked>>

\* The service or the network fails, the one retry included: the copy stays.
FetchFails ==
    /\ fetch # Idle
    /\ fetch' = Idle
    /\ UNCHANGED <<row, page, cache, invalid, call, acked>>

-----------------------------------------------------------------------------
\* What the page offers, and what its buttons do.

Shows(statuses) ==
    /\ ~away
    /\ cache # None
    /\ cache.status \in statuses

\* isPending of a mutation: its button is disabled.
Pending(kind) ==
    \E i \in Calls : call[i] # None /\ call[i].kind = kind /\ call[i].owner = "page"

Ask(kind) ==
    \E i \in Calls :
        /\ call[i] = None
        /\ call' = [call EXCEPT ![i] =
             [kind |-> kind, owner |-> "page", phase |-> "asked", ver |-> 0]]
        /\ UNCHANGED <<row, page, query, acked>>

canEdit == Shows({"pending_funding", "active"})

openEditDialog ==
    /\ canEdit
    /\ ~editOpen
    /\ editOpen' = TRUE
    /\ UNCHANGED <<row, away, query, shown, call, acked>>

\* The dialog is open until its save succeeds or it is cancelled, whatever the status.
OffersSave == Shows(Status) /\ editOpen /\ ~Pending("save")

handleSave == OffersSave /\ Ask("save")

cancelEdit ==
    /\ editOpen
    /\ editOpen' = FALSE
    /\ UNCHANGED <<row, away, query, shown, call, acked>>

\* Faulty variant of OffersRegenerate, not used: the button stays enabled.
OffersRegenerateAgain == canEdit

OffersRegenerate == canEdit /\ ~Pending("regenerate")

handleRegenerate == OffersRegenerate /\ Ask("regenerate")

OffersRevoke == Shows({"active"}) /\ ~Pending("revoke")

handleRevoke == OffersRevoke /\ Ask("revoke")

OffersSweep == Shows({"revoked"}) /\ ~Pending("sweep")

handleSweep == OffersSweep /\ Ask("sweep")

-----------------------------------------------------------------------------
\* The service.

\* Revoke and Regenerate read the row and refuse a revoked key; the sweep, which leaves
\* the row alone, refuses any other.
ServiceReads(i) ==
    /\ call[i] # None
    /\ call[i].phase = "asked"
    /\ \/ call[i].kind \in {"revoke", "regenerate"} /\ row.status # "revoked"
       \/ call[i].kind = "sweep" /\ row.status = "revoked"
    /\ call' = [call EXCEPT ![i].phase =
         IF call[i].kind = "sweep" THEN "ok" ELSE "read"]
    /\ UNCHANGED <<row, page, query, acked>>

\* The row after a write, its statement changing the columns of its own only.
Written(kind) ==
    CASE kind = "save"       -> [row EXCEPT !.ver = @ + 1]
      [] kind = "revoke"     -> [row EXCEPT !.ver = @ + 1, !.status = "revoked"]
      [] kind = "regenerate" -> [row EXCEPT !.ver = @ + 1, !.secret = row.ver + 1]
      [] OTHER               -> row

\* Update asks no status.
Writes(c) == c.phase = IF c.kind = "save" THEN "asked" ELSE "read"

\* Faulty variant of ServiceWrites, not in Next: the answer is given, the write is lost.
ServiceAnswersUnwritten(i) ==
    /\ call[i] # None
    /\ Writes(call[i])
    /\ row.ver < MaxVer
    /\ call' = [call EXCEPT ![i].phase = "ok", ![i].ver = row.ver + 1]
    /\ UNCHANGED <<row, page, query, acked>>

ServiceWrites(i) ==
    /\ call[i] # None
    /\ Writes(call[i])
    /\ row.ver < MaxVer
    /\ row' = Written(call[i].kind)
    /\ call' = [call EXCEPT ![i].phase = "ok", ![i].ver = row.ver + 1]
    /\ UNCHANGED <<page, query, acked>>

\* The service refuses or the database fails: the page shows an error, and its button
\* again.
Refused(i) ==
    /\ call[i] # None
    /\ call[i].phase # "ok"
    /\ call' = [call EXCEPT ![i] = None]
    /\ UNCHANGED <<row, page, query, acked>>

\* Another administrator edits, regenerates, revokes, or activates the key.
Others(kind) ==
    /\ row.ver < MaxVer
    /\ row' = Written(kind)
    /\ UNCHANGED <<page, query, call, acked>>

OthersActivate ==
    /\ row.ver < MaxVer
    /\ row.status = "pending_funding"
    /\ row' = [row EXCEPT !.ver = @ + 1, !.status = "active"]
    /\ UNCHANGED <<page, query, call, acked>>

-----------------------------------------------------------------------------
\* The answers.

\* Faulty variants of Invalidate, not used: a fetch in flight goes on; the answer is
\* put into the cache.
InvalidateLater(c) ==
    /\ invalid' = TRUE
    /\ fetch' = IF away \/ fetch # Idle THEN fetch ELSE Asked
    /\ UNCHANGED cache

InvalidateBySetting(c) ==
    /\ cache' = IF cache = None THEN None ELSE [cache EXCEPT !.ver = c.ver]
    /\ UNCHANGED <<invalid, fetch>>

\* invalidateQueries: an open page starts its fetch anew, and drops the one in flight.
Invalidate(c) ==
    /\ invalid' = TRUE
    /\ fetch' = IF away THEN fetch ELSE Asked
    /\ UNCHANGED cache

Later(a, b) == IF a > b THEN a ELSE b

\* useUpdateAPIKey and useRegenerateAPIKey invalidate the key; useRevokeAPIKey and
\* useSweepFunds the list of keys only.
onSuccess(c) ==
    IF c.owner # "nobody" /\ c.kind \in {"save", "regenerate"}
      THEN /\ Invalidate(c)
           /\ acked' = IF away THEN acked ELSE Later(c.ver, acked)
      ELSE UNCHANGED <<query, acked>>

\* The page that asked closes its dialog, or shows the new secret.
Answered(i) ==
    /\ call[i] # None
    /\ call[i].phase = "ok"
    /\ call' = [call EXCEPT ![i] = None]
    /\ onSuccess(call[i])
    /\ editOpen' = (editOpen /\ ~(call[i].kind = "save" /\ call[i].owner = "page"))
    /\ shown' = IF call[i].kind = "regenerate" /\ call[i].owner = "page"
                  THEN call[i].ver ELSE shown
    /\ UNCHANGED <<row, away>>

\* The call fails for the browser only: the page shows an error, the service goes on.
Failed(i) ==
    /\ call[i] # None
    /\ call[i].owner # "nobody"
    /\ call' = [call EXCEPT ![i].owner = "nobody"]
    /\ UNCHANGED <<row, page, query, acked>>

\* A call in flight outlives the page, and no longer the tab.
Disowned(from, to) ==
    [i \in Calls |-> IF call[i] # None /\ call[i].owner \in from
                       THEN [call[i] EXCEPT !.owner = to] ELSE call[i]]

\* The administrator goes to another page of the dashboard: what the page knew, a new
\* secret as well, is gone; the cached copy is not, and a fetch in flight goes on.
Leave ==
    /\ ~away
    /\ away' = TRUE
    /\ shown' = 0
    /\ editOpen' = FALSE
    /\ call' = Disowned({"page"}, "tab")
    /\ UNCHANGED <<row, query, acked>>

\* Back on the page: a copy that is invalidated, or older than ten seconds, is fetched.
Return ==
    /\ away
    /\ away' = FALSE
    /\ fetch' \in IF fetch # Idle THEN {fetch}
                    ELSE IF invalid \/ cache = None THEN {Asked} ELSE {Idle, Asked}
    /\ UNCHANGED <<row, cache, invalid, shown, editOpen, call, acked>>

\* The page is loaded anew, by the administrator or, after an answer of 401, by way of
\* the login page.
Reload ==
    /\ away' = FALSE
    /\ shown' = 0
    /\ editOpen' = FALSE
    /\ cache' = None
    /\ invalid' = FALSE
    /\ fetch' = Asked
    /\ call' = Disowned({"page", "tab"}, "nobody")
    /\ UNCHANGED <<row, acked>>

-----------------------------------------------------------------------------

FetchStep == StartFetch \/ GetAPIKey \/ FetchArrives \/ FetchFails

PageStep ==
    \/ openEditDialog \/ cancelEdit \/ handleSave
    \/ handleRegenerate \/ handleRevoke \/ handleSweep
    \/ Leave \/ Return \/ Reload

CallStep ==
    \E i \in Calls :
        ServiceReads(i) \/ ServiceWrites(i) \/ Refused(i) \/ Answered(i) \/ Failed(i)

OthersStep ==
    \/ \E kind \in {"save", "regenerate", "revoke"} : Others(kind)
    \/ OthersActivate

Next == FetchStep \/ PageStep \/ CallStep \/ OthersStep

\* An open and visible page keeps its refetch interval, the service answers some fetch
\* in the end, and the network does not lose every answer.
Fairness ==
    /\ WF_vars(StartFetch)
    /\ SF_vars(GetAPIKey)
    /\ SF_vars(FetchArrives)

Spec == Init /\ [][Next]_vars /\ Fairness

-----------------------------------------------------------------------------

\* Read your own writes: a copy that is not marked as invalidated shows every edit and
\* every regeneration that the open page was told to have succeeded, whatever fetches
\* were in flight when their answers came.
OwnWritesAreSeen ==
    cache # None /\ ~invalid => cache.ver >= acked

\* What a page shows of the key is never replaced by something older, unless the tab is
\* loaded anew.
PageNeverGoesBack ==
    [][cache # None /\ cache' # None => cache'.ver >= cache.ver]_vars

\* "The previous key is now invalid": a secret on display is never replaced by one that
\* was generated before it, and that no longer works.
SecretsAppearInOrder ==
    [][shown' # 0 => shown' >= shown]_vars

\* A revocation, whoever made it, shows in the end on a page that stays open: it offers
\* neither to edit nor to fund nor to revoke the key.
RevocationIsSeen ==
    row.status = "revoked" ~> away \/ Shows({"revoked"})

=============================================================================
