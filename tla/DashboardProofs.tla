-------------------------- MODULE DashboardProofs ---------------------------
(***************************************************************************)
(* That the dashboard says what is so, and pays once.                      *)
(*                                                                         *)
(* The page of a key shows the administrator's own writes, never goes back *)
(* to an older copy, and replaces a secret by newer ones only, for any     *)
(* number of calls in flight and of versions of the row. The inductive     *)
(* invariant, IInv, orders the versions that are under way: what the       *)
(* service has answered to a fetch is no older than the copy that it       *)
(* replaces and than any own write that has been answered, because such a  *)
(* write drops the fetch (AnswerIsRecent). An answer that brings a secret  *)
(* is no older than the secret on display, because a page waits for one    *)
(* regeneration at a time (OneRegeneration).                               *)
(*                                                                         *)
(* The master account pays at most once for each mount of a form, and a    *)
(* form which says so has been paid, for any number of tabs, mounts and    *)
(* calls. The inductive invariant, FormsInv, follows an envelope from the  *)
(* form to the ledger. An envelope is out once a form shows it; it is then *)
(* in the form, in a call on its way to the network, or sent. OneEnvelope  *)
(* says that all envelopes of one mount that are out are the same, and     *)
(* Unbuilt that none is before the form has one. That a build answers a    *)
(* form once is OneCall: a mount waits for one call at a time.             *)
(***************************************************************************)
EXTENDS KeyConsole, FundingForms, TLAPS

-----------------------------------------------------------------------------
\* The page of a key.

\* What the service has answered to a fetch.
AnswerIsRecent ==
    fetch \in Copy =>
        /\ acked <= fetch.ver /\ fetch.ver <= row.ver
        /\ cache # None => cache.ver <= fetch.ver

CopyIsRecent ==
    cache # None =>
        /\ cache.ver <= row.ver
        /\ ~invalid => acked <= cache.ver

Regenerates(i) ==
    /\ call[i] # None
    /\ call[i].kind = "regenerate"
    /\ call[i].owner = "page"

OneRegeneration == \A i, j \in Calls : Regenerates(i) /\ Regenerates(j) => i = j

SecretIsNewer ==
    /\ shown <= row.ver
    /\ \A i \in Calls : Regenerates(i) /\ call[i].phase = "ok" => shown <= call[i].ver

\* A sweep has read the row when it is answered: it is never about to write it.
SweepsDoNotWrite ==
    \A i \in Calls : call[i] # None /\ call[i].kind = "sweep" => call[i].phase # "read"

Recent == AnswerIsRecent /\ CopyIsRecent

Secrets == OneRegeneration /\ SecretIsNewer

IInv == TypeOK /\ SweepsDoNotWrite /\ Recent /\ Secrets

-----------------------------------------------------------------------------
\* The rows that a write leaves behind.

LEMMA WrittenIsNewer ==
  ASSUME TypeOK, NEW kind \in Kind
  PROVE  /\ Written(kind) \in Row
         /\ Written(kind).secret <= Written(kind).ver
         /\ row.ver <= Written(kind).ver
         /\ kind # "sweep" => Written(kind).ver = row.ver + 1
<1>0. row \in Row /\ row.ver \in Nat /\ row.secret \in Nat /\ row.secret <= row.ver
  BY DEF TypeOK, Row
<1>1. CASE kind = "save"
  <2>1. Written(kind) = [row EXCEPT !.ver = row.ver + 1]
    BY <1>1 DEF Written
  <2> QED BY <1>0, <2>1 DEF Row
<1>2. CASE kind = "revoke"
  <2>1. Written(kind) = [row EXCEPT !.ver = row.ver + 1, !.status = "revoked"]
    BY <1>2 DEF Written
  <2>2. Written(kind) = [ver |-> row.ver + 1, status |-> "revoked", secret |-> row.secret]
    BY <1>0, <2>1 DEF Row
  <2> QED BY <1>0, <2>2 DEF Row, Status
<1>3. CASE kind = "regenerate"
  <2>1. Written(kind) = [row EXCEPT !.ver = row.ver + 1, !.secret = row.ver + 1]
    BY <1>3 DEF Written
  <2>2. Written(kind) =
          [ver |-> row.ver + 1, status |-> row.status, secret |-> row.ver + 1]
    BY <1>0, <2>1 DEF Row
  <2>3. row.status \in Status
    BY <1>0 DEF Row
  <2> QED BY <1>0, <2>2, <2>3 DEF Row
<1>4. CASE kind = "sweep"
  BY <1>0, <1>4 DEF Written
<1> QED BY <1>1, <1>2, <1>3, <1>4 DEF Kind

\* Asking is all that the buttons of the page do to the calls.
LEMMA AskStep ==
  ASSUME TypeOK, NEW kind \in Kind, Ask(kind)
  PROVE  \E i \in Calls :
           /\ call[i] = None
           /\ call' \in [Calls -> Call \cup {None}]
           /\ call'[i] \in Call /\ call'[i].kind = kind
           /\ call'[i].phase = "asked" /\ call'[i].ver = 0
           /\ \A j \in Calls \ {i} : call'[j] = call[j]
           /\ UNCHANGED <<row, away, shown, editOpen, cache, invalid, fetch, acked>>
<1>1. PICK i \in Calls :
        /\ call[i] = None
        /\ call' = [call EXCEPT ![i] =
             [kind |-> kind, owner |-> "page", phase |-> "asked", ver |-> 0]]
        /\ UNCHANGED <<row, page, query, acked>>
  BY DEF Ask
<1>2. [kind |-> kind, owner |-> "page", phase |-> "asked", ver |-> 0] \in Call
  BY DEF Call
<1> QED BY <1>1, <1>2 DEF TypeOK, page, query

Asks == \E kind \in Kind : Ask(kind)

LEMMA ButtonsAsk ==
  handleSave \/ handleRegenerate \/ handleRevoke \/ handleSweep => Asks
  BY DEF handleSave, handleRegenerate, handleRevoke, handleSweep, Asks, Kind

\* A write of the service.
LEMMA WriteStep ==
  ASSUME TypeOK, SweepsDoNotWrite, NEW i \in Calls, ServiceWrites(i)
  PROVE  /\ row' \in Row /\ row'.ver = row.ver + 1 /\ row'.secret <= row'.ver
         /\ call' \in [Calls -> Call \cup {None}]
         /\ call[i] \in Call /\ call'[i] \in Call
         /\ call'[i].kind = call[i].kind /\ call'[i].owner = call[i].owner
         /\ call'[i].phase = "ok" /\ call'[i].ver = row.ver + 1
         /\ \A j \in Calls \ {i} : call'[j] = call[j]
         /\ UNCHANGED <<away, shown, editOpen, cache, invalid, fetch, acked>>
<1>1. /\ call' = [call EXCEPT ![i] = [call[i] EXCEPT !.phase = "ok", !.ver = row.ver + 1]]
      /\ row' = Written(call[i].kind)
      /\ UNCHANGED <<away, shown, editOpen, cache, invalid, fetch, acked>>
      /\ call[i] # None
      /\ Writes(call[i])
  BY DEF ServiceWrites, page, query
<1>2. call[i] \in Call /\ call[i].kind \in Kind /\ row.ver \in Nat
  BY <1>1 DEF TypeOK, Call, Row
<1>3. call[i].kind # "sweep"
  BY <1>1 DEF SweepsDoNotWrite, Writes
<1>4. row' \in Row /\ row'.ver = row.ver + 1 /\ row'.secret <= row'.ver
  BY <1>1, <1>2, <1>3, WrittenIsNewer
<1>5. /\ call'[i] = [call[i] EXCEPT !.phase = "ok", !.ver = row.ver + 1]
      /\ \A j \in Calls \ {i} : call'[j] = call[j]
  BY <1>1 DEF TypeOK
<1>6. /\ call'[i] \in Call /\ call'[i].ver = row.ver + 1 /\ call'[i].phase = "ok"
      /\ call'[i].kind = call[i].kind /\ call'[i].owner = call[i].owner
  <2>1. PICK c \in Call, v \in Nat : c = call[i] /\ v = row.ver + 1
    BY <1>2
  <2>2. PICK d : d = call'[i]
    OBVIOUS
  <2>3. d = [c EXCEPT !.phase = "ok", !.ver = v]
    BY <1>5, <2>1, <2>2
  <2>4. d = [kind |-> c.kind, owner |-> c.owner, phase |-> "ok", ver |-> v]
    <3> DEFINE b == [c EXCEPT !.phase = "ok"]
    <3>1. b = [kind |-> c.kind, owner |-> c.owner, phase |-> "ok", ver |-> c.ver]
      BY DEF Call
    <3>2. d = [b EXCEPT !.ver = v]
      BY <2>3
    <3> HIDE DEF b
    <3> QED BY <3>1, <3>2
  <2>5. d \in Call /\ d.ver = v /\ d.phase = "ok" /\ d.kind = c.kind /\ d.owner = c.owner
    BY <2>4 DEF Call
  <2> QED BY <2>1, <2>2, <2>5
<1>7. call' \in [Calls -> Call \cup {None}]
  BY <1>1, <1>5, <1>6 DEF TypeOK
<1> QED BY <1>1, <1>2, <1>4, <1>5, <1>6, <1>7

\* What the page disowns changes its owner only.
LEMMA DisownedStep ==
  ASSUME TypeOK, NEW from, NEW to \in {"tab", "nobody"}, call' = Disowned(from, to)
  PROVE  /\ call' \in [Calls -> Call \cup {None}]
         /\ \A i \in Calls :
              /\ call'[i] = None <=> call[i] = None
              /\ call[i] # None =>
                   /\ call'[i].ver = call[i].ver
                   /\ call'[i].kind = call[i].kind
                   /\ call'[i].phase = call[i].phase
                   /\ call'[i].owner = "page" => call[i].owner = "page"
<1>1. ASSUME NEW i \in Calls, call[i] # None
      PROVE  /\ call[i] \in Call
             /\ [call[i] EXCEPT !.owner = to] \in Call
             /\ [call[i] EXCEPT !.owner = to] # None
  BY <1>1, NoneAssumption DEF TypeOK, Call
<1>2. ASSUME NEW i \in Calls
      PROVE  call'[i] = IF call[i] # None /\ call[i].owner \in from
                          THEN [call[i] EXCEPT !.owner = to] ELSE call[i]
  BY DEF Disowned
<1>3. call' \in [Calls -> Call \cup {None}]
  BY <1>1 DEF Disowned, TypeOK
<1>4. ASSUME NEW i \in Calls, call[i] # None
      PROVE  /\ call'[i] # None
             /\ call'[i].ver = call[i].ver
             /\ call'[i].kind = call[i].kind
             /\ call'[i].phase = call[i].phase
             /\ call'[i].owner = "page" => call[i].owner = "page"
  BY <1>1, <1>2, <1>4 DEF Call
<1> QED BY <1>2, <1>3, <1>4

-----------------------------------------------------------------------------
\* Every step keeps the types.

LEMMA InitTypes == Init => TypeOK /\ SweepsDoNotWrite
<1> SUFFICES ASSUME Init PROVE TypeOK /\ SweepsDoNotWrite
  OBVIOUS
<1>1. row \in Row /\ row.secret = 0 /\ row.ver = 1
  BY DEF Init, Row
<1>2. call \in [Calls -> Call \cup {None}] /\ \A i \in Calls : call[i] = None
  BY DEF Init
<1>3. /\ away \in BOOLEAN /\ cache = None /\ invalid \in BOOLEAN /\ fetch = Asked
      /\ shown = 0 /\ editOpen \in BOOLEAN /\ acked = 0
  BY DEF Init
<1>4. TypeOK
  BY <1>1, <1>2, <1>3 DEF TypeOK
<1> QED BY <1>2, <1>4 DEF SweepsDoNotWrite

LEMMA FetchTypes == TypeOK /\ FetchStep => TypeOK'
<1> SUFFICES ASSUME TypeOK, FetchStep PROVE TypeOK'
  OBVIOUS
<1>1. CASE StartFetch
  BY <1>1 DEF TypeOK, StartFetch, page
<1>2. CASE GetAPIKey
  <2>1. CopyOf(row) \in Copy
    BY DEF TypeOK, CopyOf, Copy, Row
  <2> QED BY <1>2, <2>1 DEF TypeOK, GetAPIKey, page
<1>3. CASE FetchArrives
  BY <1>3 DEF TypeOK, FetchArrives, page
<1>4. CASE FetchFails
  BY <1>4 DEF TypeOK, FetchFails, page
<1> QED BY <1>1, <1>2, <1>3, <1>4 DEF FetchStep

LEMMA PageTypes == TypeOK /\ PageStep => TypeOK'
<1> SUFFICES ASSUME TypeOK, PageStep PROVE TypeOK'
  OBVIOUS
<1>1. CASE openEditDialog
  BY <1>1 DEF TypeOK, openEditDialog, query
<1>2. CASE cancelEdit
  BY <1>2 DEF TypeOK, cancelEdit, query
<1>3. CASE Asks
  <2>1. PICK kind \in Kind : Ask(kind)
    BY <1>3 DEF Asks
  <2>2. PICK i \in Calls :
          /\ call' \in [Calls -> Call \cup {None}]
          /\ call'[i] \in Call /\ call'[i].ver = 0
          /\ \A j \in Calls \ {i} : call'[j] = call[j]
          /\ UNCHANGED <<row, away, shown, editOpen, cache, invalid, fetch, acked>>
    BY <2>1, AskStep
  <2> QED BY <2>2 DEF TypeOK, Row
<1>4. CASE Leave
  <2>1. call' = Disowned({"page"}, "tab")
    BY <1>4 DEF Leave
  <2>2. /\ call' \in [Calls -> Call \cup {None}]
        /\ \A i \in Calls : call'[i] # None => call[i] # None /\ call'[i].ver = call[i].ver
    BY <2>1, DisownedStep
  <2> QED BY <1>4, <2>2 DEF TypeOK, Leave, query
<1>5. CASE Return
  BY <1>5 DEF TypeOK, Return
<1>6. CASE Reload
  <2>1. call' = Disowned({"page", "tab"}, "nobody")
    BY <1>6 DEF Reload
  <2>2. /\ call' \in [Calls -> Call \cup {None}]
        /\ \A i \in Calls : call'[i] # None => call[i] # None /\ call'[i].ver = call[i].ver
    BY <2>1, DisownedStep
  <2> QED BY <1>6, <2>2 DEF TypeOK, Reload
<1> QED BY <1>1, <1>2, <1>3, <1>4, <1>5, <1>6, ButtonsAsk DEF PageStep

LEMMA CallTypes == TypeOK /\ SweepsDoNotWrite /\ CallStep => TypeOK'
<1> SUFFICES ASSUME TypeOK, SweepsDoNotWrite, NEW i \in Calls,
                    \/ ServiceReads(i) \/ ServiceWrites(i) \/ Refused(i)
                    \/ Answered(i) \/ Failed(i)
             PROVE  TypeOK'
  BY DEF CallStep
<1>0. call[i] # None /\ call[i] \in Call
  BY DEF TypeOK, ServiceReads, ServiceWrites, Refused, Answered, Failed
<1>1. CASE ServiceReads(i)
  BY <1>0, <1>1 DEF TypeOK, ServiceReads, Call, page, query
<1>2. CASE ServiceWrites(i)
  <2>1. \A j \in Calls : call'[j] # None => call'[j].ver <= row'.ver
    BY <1>2, WriteStep DEF TypeOK, Call, Row
  <2> QED BY <1>2, <2>1, WriteStep DEF TypeOK, Row
<1>3. CASE Refused(i)
  BY <1>3 DEF TypeOK, Refused, page, query
<1>4. CASE Answered(i)
  BY <1>0, <1>4 DEF TypeOK, Answered, onSuccess, Invalidate, Later, query, Call
<1>5. CASE Failed(i)
  BY <1>0, <1>5 DEF TypeOK, Failed, Call, page, query
<1> QED BY <1>1, <1>2, <1>3, <1>4, <1>5

LEMMA OthersRow ==
  ASSUME TypeOK, OthersStep
  PROVE  /\ row' \in Row /\ row.ver <= row'.ver /\ row'.secret <= row'.ver
         /\ UNCHANGED <<away, shown, editOpen, cache, invalid, fetch, call, acked>>
<1>1. CASE \E kind \in {"save", "regenerate", "revoke"} : Others(kind)
  <2>1. PICK kind \in Kind : Others(kind)
    BY <1>1 DEF Kind
  <2> QED BY <2>1, WrittenIsNewer DEF Others, page, query
<1>2. CASE OthersActivate
  <2>1. row' = [row EXCEPT !.ver = row.ver + 1, !.status = "active"]
    BY <1>2 DEF OthersActivate
  <2>2. row' = [ver |-> row.ver + 1, status |-> "active", secret |-> row.secret]
    BY <2>1 DEF TypeOK, Row
  <2> QED BY <1>2, <2>2 DEF OthersActivate, TypeOK, Row, Status, page, query
<1> QED BY <1>1, <1>2 DEF OthersStep

LEMMA OthersTypes == TypeOK /\ OthersStep => TypeOK'
<1> SUFFICES ASSUME TypeOK, OthersStep PROVE TypeOK'
  OBVIOUS
<1>1. \A i \in Calls : call'[i] # None => call'[i].ver <= row'.ver
  BY OthersRow DEF TypeOK, Call, Row
<1> QED BY <1>1, OthersRow DEF TypeOK, Row

LEMMA NextTypes == TypeOK /\ SweepsDoNotWrite /\ [Next]_vars => TypeOK'
<1> SUFFICES ASSUME TypeOK, SweepsDoNotWrite, [Next]_vars PROVE TypeOK'
  OBVIOUS
<1>1. CASE UNCHANGED vars
  BY <1>1 DEF vars, TypeOK
<1> QED BY <1>1, FetchTypes, PageTypes, CallTypes, OthersTypes DEF Next

-----------------------------------------------------------------------------
\* Every step keeps the copies in order.

LEMMA FetchRecent == TypeOK /\ Recent /\ FetchStep => Recent'
<1> SUFFICES ASSUME TypeOK, Recent, FetchStep PROVE Recent'
  OBVIOUS
<1> USE FetchAssumption, NoneAssumption DEF Recent, AnswerIsRecent, CopyIsRecent
<1>1. CASE StartFetch
  BY <1>1 DEF StartFetch, page
<1>2. CASE GetAPIKey
  <2>1. fetch'.ver = row.ver
    BY <1>2 DEF GetAPIKey, CopyOf
  <2>2. acked <= row.ver /\ row.ver \in Nat
    BY DEF TypeOK, Row
  <2> QED BY <1>2, <2>1, <2>2 DEF GetAPIKey, page
<1>3. CASE FetchArrives
  <2>1. fetch \in Copy
    BY <1>3 DEF FetchArrives, TypeOK
  <2> QED BY <1>3, <2>1 DEF FetchArrives, page
<1>4. CASE FetchFails
  BY <1>4 DEF FetchFails, page
<1> QED BY <1>1, <1>2, <1>3, <1>4 DEF FetchStep

LEMMA PageRecent == TypeOK /\ Recent /\ PageStep => Recent'
<1> SUFFICES ASSUME TypeOK, Recent, PageStep PROVE Recent'
  OBVIOUS
<1> USE FetchAssumption DEF Recent, AnswerIsRecent, CopyIsRecent
<1>1. CASE openEditDialog \/ cancelEdit
  BY <1>1 DEF openEditDialog, cancelEdit, query
<1>2. CASE Asks
  BY <1>2 DEF Asks, Ask, page, query
<1>3. CASE Leave
  BY <1>3 DEF Leave, query
<1>4. CASE Return
  <2>1. fetch' = fetch \/ fetch' \notin Copy
    BY <1>4 DEF Return
  <2> QED BY <1>4, <2>1 DEF Return
<1>5. CASE Reload
  BY <1>5 DEF Reload
<1> QED BY <1>1, <1>2, <1>3, <1>4, <1>5, ButtonsAsk DEF PageStep

LEMMA CallRecent == TypeOK /\ SweepsDoNotWrite /\ Recent /\ CallStep => Recent'
<1> SUFFICES ASSUME TypeOK, SweepsDoNotWrite, Recent, NEW i \in Calls,
                    \/ ServiceReads(i) \/ ServiceWrites(i) \/ Refused(i)
                    \/ Answered(i) \/ Failed(i)
             PROVE  Recent'
  BY DEF CallStep
<1> USE DEF Recent, AnswerIsRecent, CopyIsRecent
<1>1. CASE ServiceReads(i) \/ Refused(i) \/ Failed(i)
  BY <1>1 DEF ServiceReads, Refused, Failed, page, query
<1>2. CASE ServiceWrites(i)
  <2>1. /\ row'.ver = row.ver + 1 /\ row.ver \in Nat
        /\ UNCHANGED <<cache, invalid, fetch, acked>>
    BY <1>2, WriteStep DEF TypeOK, Row
  <2> QED BY <2>1 DEF TypeOK, Copy
<1>3. CASE Answered(i)
  <2>1. UNCHANGED row /\ UNCHANGED away
    BY <1>3 DEF Answered
  <2>2. \/ UNCHANGED <<cache, invalid, fetch, acked>>
        \/ invalid' = TRUE /\ fetch' = Asked /\ UNCHANGED cache
        \/ invalid' = TRUE /\ UNCHANGED <<cache, fetch, acked>>
    BY <1>3 DEF Answered, onSuccess, Invalidate, query
  <2> QED BY <2>1, <2>2, FetchAssumption
<1> QED BY <1>1, <1>2, <1>3

LEMMA NextRecent == TypeOK /\ SweepsDoNotWrite /\ Recent /\ [Next]_vars => Recent'
<1> SUFFICES ASSUME TypeOK, SweepsDoNotWrite, Recent, [Next]_vars PROVE Recent'
  OBVIOUS
<1>1. CASE UNCHANGED vars
  BY <1>1 DEF vars, Recent, AnswerIsRecent, CopyIsRecent
<1>2. CASE OthersStep
  BY <1>2, OthersRow DEF Recent, AnswerIsRecent, CopyIsRecent, TypeOK, Row, Copy
<1> QED BY <1>1, <1>2, FetchRecent, PageRecent, CallRecent DEF Next

-----------------------------------------------------------------------------
\* Every step keeps sweeps from writing, and secrets in order.

LEMMA NextSweeps == TypeOK /\ SweepsDoNotWrite /\ [Next]_vars => SweepsDoNotWrite'
<1> SUFFICES ASSUME TypeOK, SweepsDoNotWrite, [Next]_vars PROVE SweepsDoNotWrite'
  OBVIOUS
<1> USE DEF SweepsDoNotWrite
<1>1. CASE UNCHANGED call
  BY <1>1
<1>2. CASE Asks
  <2>1. PICK kind \in Kind : Ask(kind)
    BY <1>2 DEF Asks
  <2>2. PICK i \in Calls :
          /\ call'[i].phase = "asked"
          /\ \A j \in Calls \ {i} : call'[j] = call[j]
    BY <2>1, AskStep
  <2> QED BY <2>2
<1>3. CASE Leave \/ Reload
  <2>1. PICK from, to : to \in {"tab", "nobody"} /\ call' = Disowned(from, to)
    BY <1>3 DEF Leave, Reload
  <2> QED BY <2>1, DisownedStep
<1>4. CASE CallStep
  <2>1. PICK i \in Calls :
          \/ ServiceReads(i) \/ ServiceWrites(i) \/ Refused(i) \/ Answered(i) \/ Failed(i)
    BY <1>4 DEF CallStep
  <2>2. CASE ServiceReads(i)
    <3>1. call[i] # None /\ call[i] \in Call
      BY <2>2 DEF ServiceReads, TypeOK
    <3> QED BY <2>2, <3>1 DEF ServiceReads, TypeOK, Call
  <2>3. CASE ServiceWrites(i)
    BY <2>3, WriteStep
  <2>4. CASE Refused(i) \/ Answered(i)
    BY <2>4 DEF Refused, Answered, TypeOK
  <2>5. CASE Failed(i)
    <3>1. call[i] # None /\ call[i] \in Call
      BY <2>5 DEF Failed, TypeOK
    <3> QED BY <2>5, <3>1 DEF Failed, TypeOK, Call
  <2> QED BY <2>1, <2>2, <2>3, <2>4, <2>5
<1>5. CASE OthersStep
  BY <1>5, OthersRow
<1>6. CASE FetchStep \/ openEditDialog \/ cancelEdit \/ Return
  BY <1>1, <1>6 DEF FetchStep, StartFetch, GetAPIKey, FetchArrives, FetchFails,
                    openEditDialog, cancelEdit, Return
<1>7. CASE UNCHANGED vars
  BY <1>1, <1>7 DEF vars
<1> QED BY <1>2, <1>3, <1>4, <1>5, <1>6, <1>7, ButtonsAsk DEF Next, PageStep

\* The secrets stay in order as long as nothing but the row and the calls that are not
\* page-owned regenerations changes.
LEMMA SecretsFrame ==
  ASSUME TypeOK, Secrets, row'.ver \in Nat, row.ver <= row'.ver,
         shown' = shown \/ shown' = 0,
         \A i \in Calls : Regenerates(i)' =>
           /\ Regenerates(i)
           /\ call'[i].phase = "ok" => call[i].phase = "ok" /\ call'[i].ver = call[i].ver,
         \A i \in Calls : Regenerates(i)' => call'[i].ver \in Nat
  PROVE  Secrets'
<1>1. shown \in Nat /\ shown' \in Nat /\ row.ver \in Nat
  BY DEF TypeOK, Row
<1>2. OneRegeneration'
  BY DEF Secrets, OneRegeneration
<1>3. shown' <= row'.ver
  BY <1>1 DEF Secrets, SecretIsNewer
<1>4. ASSUME NEW i \in Calls, Regenerates(i)', call'[i].phase = "ok"
      PROVE  shown' <= call'[i].ver
  BY <1>1, <1>4 DEF Secrets, SecretIsNewer
<1> QED BY <1>2, <1>3, <1>4 DEF Secrets, SecretIsNewer

LEMMA AsksSecrets ==
  ASSUME TypeOK, Secrets, NEW kind \in Kind, Ask(kind),
         kind = "regenerate" => ~Pending("regenerate")
  PROVE  Secrets'
<1>1. PICK i \in Calls :
        /\ call[i] = None
        /\ call'[i].kind = kind
        /\ call'[i].phase = "asked"
        /\ \A j \in Calls \ {i} : call'[j] = call[j]
        /\ UNCHANGED <<row, shown>>
  BY AskStep
<1>2. ASSUME NEW j \in Calls, Regenerates(j)', j # i PROVE Regenerates(j)
  BY <1>1, <1>2 DEF Regenerates
<1>3. OneRegeneration'
  <2>1. CASE kind = "regenerate"
    <3>1. \A j \in Calls : ~Regenerates(j)
      BY <2>1 DEF Pending, Regenerates
    <3> QED BY <1>2, <3>1 DEF OneRegeneration
  <2>2. CASE kind # "regenerate"
    <3>1. ~Regenerates(i)'
      BY <1>1, <2>2 DEF Regenerates
    <3> QED BY <1>2, <3>1 DEF OneRegeneration, Secrets
  <2> QED BY <2>1, <2>2
<1>4. SecretIsNewer'
  BY <1>1, <1>2 DEF Secrets, SecretIsNewer
<1> QED BY <1>3, <1>4 DEF Secrets

LEMMA PageSecrets == TypeOK /\ Secrets /\ PageStep => Secrets'
<1> SUFFICES ASSUME TypeOK, Secrets, PageStep PROVE Secrets'
  OBVIOUS
<1>1. CASE openEditDialog \/ cancelEdit \/ Return
  BY <1>1 DEF openEditDialog, cancelEdit, Return, Secrets, OneRegeneration, SecretIsNewer,
              Regenerates
<1>2. CASE handleSave \/ handleRevoke \/ handleSweep
  <2>1. PICK kind \in Kind : Ask(kind) /\ kind # "regenerate"
    BY <1>2 DEF handleSave, handleRevoke, handleSweep, Kind
  <2> QED BY <2>1, AsksSecrets
<1>3. CASE handleRegenerate
  <2>1. Ask("regenerate") /\ ~Pending("regenerate") /\ "regenerate" \in Kind
    BY <1>3 DEF handleRegenerate, OffersRegenerate, Kind
  <2> QED BY <2>1, AsksSecrets
<1>4. CASE Leave \/ Reload
  <2>1. PICK from, to : to \in {"tab", "nobody"} /\ call' = Disowned(from, to)
    BY <1>4 DEF Leave, Reload
  <2>2. UNCHANGED row /\ shown' = 0
    BY <1>4 DEF Leave, Reload
  <2>3. \A i \in Calls : Regenerates(i)' =>
          /\ Regenerates(i)
          /\ call'[i].phase = call[i].phase /\ call'[i].ver = call[i].ver
          /\ call'[i].ver \in Nat
    BY <2>1, DisownedStep DEF Regenerates, TypeOK, Call
  <2>4. row.ver \in Nat
    BY DEF TypeOK, Row
  <2> QED BY <2>2, <2>3, <2>4, SecretsFrame
<1> QED BY <1>1, <1>2, <1>3, <1>4 DEF PageStep

LEMMA CallSecrets == TypeOK /\ SweepsDoNotWrite /\ Secrets /\ CallStep => Secrets'
<1> SUFFICES ASSUME TypeOK, SweepsDoNotWrite, Secrets, NEW i \in Calls,
                    \/ ServiceReads(i) \/ ServiceWrites(i) \/ Refused(i)
                    \/ Answered(i) \/ Failed(i)
             PROVE  Secrets'
  BY DEF CallStep
<1>0. /\ call[i] # None /\ call[i] \in Call
      /\ row.ver \in Nat /\ shown \in Nat
      /\ \A j \in Calls : call[j] # None => call[j].ver \in Nat
  BY DEF TypeOK, ServiceReads, ServiceWrites, Refused, Answered, Failed, Call, Row
<1>1. CASE ServiceReads(i)
  <2>1. /\ UNCHANGED <<row, shown>>
        /\ \A j \in Calls \ {i} : call'[j] = call[j]
        /\ call'[i].ver = call[i].ver /\ call'[i].kind = call[i].kind
        /\ call'[i].owner = call[i].owner
        /\ call[i].kind = "regenerate" => call'[i].phase = "read"
    BY <1>0, <1>1 DEF ServiceReads, TypeOK, Call, page
  <2>2. \A j \in Calls : Regenerates(j)' =>
          /\ Regenerates(j)
          /\ call'[j].phase = "ok" => call[j].phase = "ok" /\ call'[j].ver = call[j].ver
          /\ call'[j].ver \in Nat
    BY <1>0, <2>1 DEF Regenerates
  <2> QED BY <1>0, <2>1, <2>2, SecretsFrame
<1>2. CASE ServiceWrites(i)
  <2>1. \A j \in Calls : Regenerates(j)' => Regenerates(j)
    BY <1>0, <1>2, WriteStep DEF Regenerates
  <2>2. OneRegeneration'
    BY <2>1 DEF Secrets, OneRegeneration
  <2>3. shown <= row.ver /\ row'.ver = row.ver + 1 /\ UNCHANGED shown
        /\ call'[i].ver = row.ver + 1
        /\ \A j \in Calls \ {i} : call'[j] = call[j]
    BY <1>2, WriteStep DEF Secrets, SecretIsNewer
  <2>4. SecretIsNewer'
    BY <1>0, <2>1, <2>3 DEF Secrets, SecretIsNewer
  <2> QED BY <2>2, <2>4 DEF Secrets
<1>3. CASE Refused(i)
  <2>1. /\ UNCHANGED <<row, shown>>
        /\ \A j \in Calls : Regenerates(j)' => Regenerates(j) /\ call'[j] = call[j]
    BY <1>3 DEF Refused, TypeOK, page, Regenerates
  <2> QED BY <1>0, <2>1, SecretsFrame DEF Regenerates
<1>4. CASE Answered(i)
  <2>1. /\ UNCHANGED row
        /\ \A j \in Calls : Regenerates(j)' => Regenerates(j) /\ j # i /\ call'[j] = call[j]
        /\ shown' = IF Regenerates(i) THEN call[i].ver ELSE shown
    BY <1>0, <1>4 DEF Answered, TypeOK, Regenerates
  <2>2. CASE Regenerates(i)
    <3>1. \A j \in Calls : ~Regenerates(j)'
      BY <2>1, <2>2 DEF Secrets, OneRegeneration
    <3>2. shown' <= row'.ver
      BY <1>0, <2>1, <2>2 DEF TypeOK
    <3> QED BY <3>1, <3>2 DEF Secrets, OneRegeneration, SecretIsNewer
  <2>3. CASE ~Regenerates(i)
    BY <1>0, <2>1, <2>3, SecretsFrame DEF Regenerates
  <2> QED BY <2>2, <2>3
<1>5. CASE Failed(i)
  <2>1. /\ UNCHANGED <<row, shown>>
        /\ \A j \in Calls \ {i} : call'[j] = call[j]
        /\ call'[i].owner = "nobody"
    BY <1>0, <1>5 DEF Failed, TypeOK, Call, page
  <2>2. \A j \in Calls : Regenerates(j)' => Regenerates(j) /\ call'[j] = call[j]
    BY <2>1 DEF Regenerates
  <2> QED BY <1>0, <2>1, <2>2, SecretsFrame DEF Regenerates
<1> QED BY <1>1, <1>2, <1>3, <1>4, <1>5

LEMMA NextSecrets == TypeOK /\ SweepsDoNotWrite /\ Secrets /\ [Next]_vars => Secrets'
<1> SUFFICES ASSUME TypeOK, SweepsDoNotWrite, Secrets, [Next]_vars PROVE Secrets'
  OBVIOUS
<1>1. CASE UNCHANGED <<row, shown, call>>
  BY <1>1 DEF Secrets, OneRegeneration, SecretIsNewer, Regenerates
<1>2. CASE FetchStep
  BY <1>1, <1>2 DEF FetchStep, StartFetch, GetAPIKey, FetchArrives, FetchFails, page
<1>3. CASE OthersStep
  <2>1. /\ row'.ver \in Nat /\ row.ver <= row'.ver /\ UNCHANGED <<shown, call>>
        /\ \A j \in Calls : Regenerates(j)' => Regenerates(j) /\ call[j].ver \in Nat
    BY <1>3, OthersRow DEF Row, Regenerates, TypeOK, Call
  <2> QED BY <2>1, SecretsFrame
<1>4. CASE UNCHANGED vars
  BY <1>1, <1>4 DEF vars
<1> QED BY <1>2, <1>3, <1>4, PageSecrets, CallSecrets DEF Next

-----------------------------------------------------------------------------
\* The invariant, and what follows from it.

LEMMA Initial == Init => IInv
<1> SUFFICES ASSUME Init PROVE IInv
  OBVIOUS
<1>1. Recent
  BY FetchAssumption DEF Init, Recent, AnswerIsRecent, CopyIsRecent
<1>2. Secrets
  <2>1. \A i \in Calls : call[i] = None
    BY DEF Init
  <2>2. shown = 0 /\ row.ver = 1
    BY DEF Init
  <2> QED BY <2>1, <2>2 DEF Secrets, OneRegeneration, SecretIsNewer, Regenerates
<1> QED BY <1>1, <1>2, InitTypes DEF IInv

LEMMA Invariance == Spec => []IInv
<1>1. IInv /\ [Next]_vars => IInv'
  BY NextTypes, NextSweeps, NextRecent, NextSecrets DEF IInv
<1> QED BY <1>1, Initial, PTL DEF Spec

\* The types of the page, its calls and its copies, and the bounds on their versions:
\* neither an answer nor an acknowledgement is ahead of the row.
THEOREM TypeCorrect == Spec => []TypeOK
<1>1. IInv => TypeOK
  BY DEF IInv
<1> QED BY <1>1, Invariance, PTL

\* The page shows the administrator's own edits and regenerations: invalidating the key
\* (useUpdateAPIKey, useRegenerateAPIKey) drops the fetch that may be older.
THEOREM OwnWritesShow == Spec => []OwnWritesAreSeen
<1>1. IInv => OwnWritesAreSeen
  BY DEF IInv, Recent, CopyIsRecent, OwnWritesAreSeen, TypeOK, Copy
<1> QED BY <1>1, Invariance, PTL

\* A fetch that arrives (useAPIKey) is no older than the copy that it replaces.
THEOREM PageGoesForward == Spec => PageNeverGoesBack
<1> DEFINE P == cache # None /\ cache' # None => cache'.ver >= cache.ver
<1>1. IInv /\ [Next]_vars => P \/ UNCHANGED vars
  <2> SUFFICES ASSUME IInv, [Next]_vars PROVE P \/ UNCHANGED vars
    OBVIOUS
  <2> USE DEF IInv
  <2>1. CASE UNCHANGED cache
    BY <2>1 DEF TypeOK, Copy
  <2>2. CASE FetchArrives
    <3>1. fetch \in Copy
      BY <2>2 DEF FetchArrives, TypeOK
    <3> QED BY <2>2, <3>1 DEF FetchArrives, Recent, AnswerIsRecent, TypeOK, Copy
  <2>3. CASE Reload
    BY <2>3 DEF Reload
  <2>4. CASE StartFetch \/ GetAPIKey \/ FetchFails \/ openEditDialog \/ cancelEdit
             \/ Leave \/ Return
    BY <2>1, <2>4 DEF StartFetch, GetAPIKey, FetchFails, openEditDialog, cancelEdit, Leave,
                      Return, query
  <2>5. CASE Asks
    BY <2>1, <2>5 DEF Asks, Ask, query
  <2>6. CASE CallStep
    <3>1. UNCHANGED cache
      BY <2>6 DEF CallStep, ServiceReads, ServiceWrites, Refused, Answered, Failed,
                  onSuccess, Invalidate, query
    <3> QED BY <2>1, <3>1
  <2>7. CASE OthersStep
    BY <2>1, <2>7, OthersRow
  <2> QED BY <2>2, <2>3, <2>4, <2>5, <2>6, <2>7, ButtonsAsk DEF Next, FetchStep, PageStep
<1>2. IInv /\ [Next]_vars => [P]_vars
  BY <1>1
<1> QED BY <1>2, Invariance, PTL DEF Spec, PageNeverGoesBack

\* The page waits for one regeneration at a time, so that a secret on display is never
\* replaced by an older one.
THEOREM SecretsInOrder == Spec => SecretsAppearInOrder
<1> DEFINE P == shown' # 0 => shown' >= shown
<1>1. IInv /\ [Next]_vars => P \/ UNCHANGED vars
  <2> SUFFICES ASSUME IInv, [Next]_vars PROVE P \/ UNCHANGED vars
    OBVIOUS
  <2>0. shown \in Nat
    BY DEF IInv, TypeOK
  <2>1. CASE UNCHANGED shown
    BY <2>0, <2>1
  <2>2. CASE Leave \/ Reload
    BY <2>2 DEF Leave, Reload
  <2>3. CASE \E i \in Calls : Answered(i)
    <3>1. PICK i \in Calls : Answered(i)
      BY <2>3
    <3>2. call[i] \in Call /\ call[i].ver \in Nat /\ call[i] # None /\ call[i].phase = "ok"
      BY <3>1 DEF Answered, IInv, TypeOK, Call
    <3>3. shown' = IF Regenerates(i) THEN call[i].ver ELSE shown
      BY <3>1, <3>2 DEF Answered, Regenerates
    <3> QED BY <2>0, <3>2, <3>3 DEF IInv, Secrets, SecretIsNewer
  <2>4. CASE \E i \in Calls : ServiceReads(i) \/ ServiceWrites(i) \/ Refused(i) \/ Failed(i)
    BY <2>1, <2>4 DEF ServiceReads, ServiceWrites, Refused, Failed, page
  <2>5. CASE FetchStep \/ openEditDialog \/ cancelEdit \/ Return
    BY <2>1, <2>5 DEF FetchStep, StartFetch, GetAPIKey, FetchArrives, FetchFails,
                      openEditDialog, cancelEdit, Return, page
  <2>6. CASE Asks
    BY <2>1, <2>6 DEF Asks, Ask, page
  <2>7. CASE OthersStep
    BY <2>1, <2>7, OthersRow DEF IInv
  <2> QED BY <2>2, <2>3, <2>4, <2>5, <2>6, <2>7, ButtonsAsk DEF Next, PageStep, CallStep
<1>2. IInv /\ [Next]_vars => [P]_vars
  BY <1>1
<1> QED BY <1>2, Invariance, PTL DEF Spec, SecretsAppearInOrder

-----------------------------------------------------------------------------
\* The forms that have the master account pay.

Travelling == {"sign", "submit", "wait", "ok"}

Out == sent \cup {c.env : c \in {d \in calls : d.phase \in Travelling}}
            \cup ({form[t].env : t \in Tabs} \ {NoEnvelope})

\* A call knows its tab's mounts of the past and the present, and nothing but the
\* envelope of its own mount.
CallFacts(c) ==
    /\ c.mount <= mount[c.tab]
    /\ c.phase \in {"create", "created", "build"} => c.env = NoEnvelope
    /\ c.phase \in Travelling \cup {"built"} =>
        /\ c.env \in Envelope
        /\ c.env.tab = c.tab /\ c.env.kind = c.kind
        /\ c.env.mount <= mount[c.tab]
        /\ c.mount # 0 => c.env.mount = c.mount
    /\ c.phase \in {"wait", "ok"} => c.env \in sent
    /\ c.phase = "ok" =>
        /\ c.env \in applied
        /\ c.kind = "activate" => status \in {"active", "revoked"}

\* A call that its form waits for fits the step of the form.
MountedFacts(c) ==
    Mounted(c) =>
        /\ form[c.tab].kind # "none"
        /\ c.kind = "fund" <=> form[c.tab].kind = "fund"
        /\ c.phase \in {"create", "created"} => form[c.tab].kind = "create"
        /\ c.phase \in {"create", "created", "build", "built"} => form[c.tab].env = NoEnvelope

CallsFit == \A c \in calls : CallFacts(c) /\ MountedFacts(c)

FormsFit ==
    \A t \in Tabs :
        /\ form[t].env # NoEnvelope => form[t].env.tab = t /\ form[t].env.mount = mount[t]
        /\ form[t].env = NoEnvelope <=> form[t].step \notin {"sign", "done"}
        /\ form[t].env # NoEnvelope =>
             (form[t].env.kind = "fund" <=> form[t].kind = "fund")

SentFit == \A e \in sent : e.mount <= mount[e.tab]

OneCall == \A t \in Tabs : \A c1, c2 \in Own(t) : c1 = c2

Unbuilt ==
    \A t \in Tabs : form[t].env = NoEnvelope =>
        \A e \in Out : ~(e.tab = t /\ e.mount = mount[t])

OneEnvelope ==
    \A e1, e2 \in Out : e1.tab = e2.tab /\ e1.mount = e2.mount => e1 = e2

FormsInv ==
    /\ FormsTypeOK
    /\ CallsFit
    /\ FormsFit
    /\ SentFit
    /\ OneCall
    /\ Unbuilt
    /\ OneEnvelope
    /\ DoneIsPaid

-----------------------------------------------------------------------------

LEMMA InitIInv == FormsInit => FormsInv
<1> SUFFICES ASSUME FormsInit PROVE FormsInv
  OBVIOUS
<1> USE NoEnvelopeAssumption, TabsAssumption
<1>1. \A t \in Tabs :
        /\ form[t] \in Form
        /\ form[t].step \in Steps(form[t].kind)
        /\ form[t].env = NoEnvelope
        /\ form[t].step \notin {"sign", "done"}
  BY DEF FormsInit, Opened, CreateForm, CardOf, Form, Step, Steps, RowStatus
<1>2. FormsTypeOK
  BY <1>1 DEF FormsInit, FormsTypeOK, Opened, CreateForm, CardOf, Form, Step
<1>3. Out = {}
  BY <1>1 DEF FormsInit, Out
<1>4. CallsFit /\ FormsFit /\ SentFit /\ OneCall /\ DoneIsPaid
  BY <1>1 DEF FormsInit, CallsFit, FormsFit, SentFit, OneCall, Own, DoneIsPaid
<1> QED BY <1>2, <1>3, <1>4 DEF FormsInv, Unbuilt, OneEnvelope

\* Steps of calls: no form and no mount changes, and nothing gets out that was not.
LEMMA CallsStepKeeps ==
    ASSUME FormsInv, FormsTypeOK', UNCHANGED pages,
           sent \subseteq sent', applied \subseteq applied',
           status \in {"active", "revoked"} => status' \in {"active", "revoked"},
           NEW D, calls' \subseteq calls \cup D,
           \A d \in D : CallFacts(d)' /\ MountedFacts(d)',
           OneCall', SentFit', Out' \subseteq Out
    PROVE  FormsInv'
<1> USE DEF FormsInv, pages
<1>1. CallsFit'
  <2>1. \A c \in calls : CallFacts(c)' /\ MountedFacts(c)'
    BY DEF CallsFit, CallFacts, MountedFacts, Mounted
  <2> QED BY <2>1 DEF CallsFit
<1>2. FormsFit'
  BY DEF FormsFit
<1>3. Unbuilt' /\ OneEnvelope'
  BY DEF Unbuilt, OneEnvelope
<1>4. DoneIsPaid'
  BY DEF DoneIsPaid
<1> QED BY <1>1, <1>2, <1>3, <1>4

\* A call that takes another's place, or is given up, is as alone as that one was.
LEMMA OneCallKept ==
    ASSUME FormsTypeOK, OneCall, NEW c \in calls, NEW d,
           d.tab = c.tab, d.mount \in {c.mount, 0},
           calls' \subseteq (calls \ {c}) \cup {d}, UNCHANGED mount
    PROVE  OneCall'
<1>1. c \in Own(c.tab) \/ c.mount # mount[c.tab]
  BY DEF Own
<1>2. ASSUME NEW t \in Tabs, NEW c1 \in Own(t)', NEW c2 \in Own(t)', c1 # c2
      PROVE  FALSE
  <2>1. \A x \in Own(t)' : x # d => x \in Own(t) /\ x # c
    BY DEF Own
  <2>2. d \in Own(t)' => c \in Own(t)
    BY DEF Own, FormsTypeOK, FormCall
  <2> QED BY <1>2, <2>1, <2>2 DEF OneCall
<1> QED BY <1>2 DEF OneCall

\* A call that moves on to another phase, or is given up, with its envelope.
LEMMA BecomesKeeps ==
    ASSUME FormsInv, NEW c \in calls, NEW phase \in Phase, NEW m \in {c.mount, 0},
           calls' = (calls \ {c}) \cup {[c EXCEPT !.phase = phase, !.mount = m]},
           UNCHANGED pages, status' \in RowStatus, masterSeq' = masterSeq,
           applied' = applied,
           status \in {"active", "revoked"} => status' \in {"active", "revoked"},
           sent \subseteq sent', sent' \subseteq sent \cup {c.env},
           c.phase \in Travelling \/ (sent' = sent /\ phase \notin Travelling),
           phase \in {"create", "created", "build"} =>
               c.phase \in {"create", "created", "build"},
           phase \in {"create", "created"} => c.phase \in {"create", "created"},
           phase = "built" => c.phase = "built",
           phase \in {"wait", "ok"} => c.env \in sent',
           phase = "ok" =>
               /\ c.env \in applied
               /\ c.kind = "activate" => status' \in {"active", "revoked"}
    PROVE  FormsInv'
<1> DEFINE d == [c EXCEPT !.phase = phase, !.mount = m]
<1>1. c \in FormCall
  BY DEF FormsInv, FormsTypeOK
<1>2. CallFacts(c) /\ MountedFacts(c)
  BY DEF FormsInv, CallsFit
<1>3. m \in Nat
  BY <1>1 DEF FormCall
<1>4. /\ d \in FormCall
      /\ d.tab = c.tab /\ d.kind = c.kind /\ d.env = c.env
      /\ d.phase = phase /\ d.mount = m
  BY <1>1, <1>3 DEF FormCall
<1>5. mount \in [Tabs -> Nat \ {0}] /\ c.tab \in Tabs
  BY <1>1 DEF FormsInv, FormsTypeOK, FormCall
<1>6. c.phase \in Travelling => c.env \in Envelope
  BY <1>2 DEF CallFacts
<1>15. calls' = (calls \ {c}) \cup {d}
  OBVIOUS
<1> HIDE DEF d
<1>7. FormsTypeOK'
  <2>1. sent' \subseteq Envelope /\ applied' \subseteq sent'
    BY <1>6 DEF FormsInv, FormsTypeOK
  <2> QED BY <1>4, <1>15, <2>1 DEF FormsInv, FormsTypeOK, pages
<1>8. OneCall'
  <2>1. FormsTypeOK /\ OneCall /\ UNCHANGED mount
    BY DEF FormsInv, pages
  <2> QED BY <1>4, <1>15, <2>1, OneCallKept
<1>9. SentFit'
  BY <1>2 DEF FormsInv, SentFit, CallFacts, pages, Travelling
<1>10. Out' \subseteq Out
  <2>1. sent' \subseteq Out
    BY DEF Out
  <2>2. \A x \in calls' : x.phase \in Travelling => x.env \in Out
    BY <1>4, <1>15 DEF Out, Travelling
  <2> QED BY <2>1, <2>2 DEF Out, pages
<1>11. CallFacts(d)'
  BY <1>2, <1>4, <1>3, <1>5 DEF CallFacts, Travelling, pages, Phase
<1>12. MountedFacts(d)'
  BY <1>2, <1>4, <1>5 DEF MountedFacts, Mounted, Travelling, pages
<1> DEFINE D == {d}
<1>13. \A x \in D : CallFacts(x)' /\ MountedFacts(x)'
  BY <1>11, <1>12
<1>14. calls' \subseteq calls \cup D
  BY <1>15
<1> HIDE DEF D
<1> QED BY <1>7, <1>8, <1>9, <1>10, <1>13, <1>14, CallsStepKeeps

\* Steps that take calls away, and steps of the network and of other administrators.
LEMMA FewerCallsKeep ==
    ASSUME FormsInv, UNCHANGED <<pages, sent>>, calls' \subseteq calls,
           status' \in RowStatus, masterSeq' \in Nat,
           status \in {"active", "revoked"} => status' \in {"active", "revoked"},
           applied \subseteq applied', applied' \subseteq sent
    PROVE  FormsInv'
<1>1. FormsTypeOK' /\ OneCall' /\ SentFit' /\ Out' \subseteq Out
  BY DEF FormsInv, FormsTypeOK, OneCall, Own, SentFit, Out, pages
<1> DEFINE D == {}
<1>2. calls' \subseteq calls \cup D /\ sent \subseteq sent' /\ UNCHANGED pages
  OBVIOUS
<1>3. \A d \in D : CallFacts(d)' /\ MountedFacts(d)'
  OBVIOUS
<1> HIDE DEF D
<1> QED BY <1>1, <1>2, <1>3, CallsStepKeeps

LEMMA FormCallTypes ==
    ASSUME FormsInv, NEW c \in calls
    PROVE  /\ c \in FormCall
           /\ \A p \in Phase :
                [c EXCEPT !.phase = p] = [c EXCEPT !.phase = p, !.mount = c.mount]
           /\ [c EXCEPT !.mount = 0] = [c EXCEPT !.phase = c.phase, !.mount = 0]
           /\ CallFacts(c) /\ MountedFacts(c)
BY DEF FormsInv, FormsTypeOK, FormCall, CallsFit

LEMMA PhaseStepsKeep ==
    ASSUME FormsInv, NEW c \in calls,
           \/ WalletSigns(c) \/ CreateRow(c) \/ Submit(c) \/ Accepted(c) \/ FormFailed(c)
    PROVE  FormsInv'
<1> USE FormCallTypes
<1>1. CASE WalletSigns(c)
  <2> USE <1>1 DEF WalletSigns, Becomes, ledger
  <2>1. calls' = (calls \ {c}) \cup {[c EXCEPT !.phase = "submit", !.mount = c.mount]}
    BY DEF Phase
  <2> QED BY <2>1, BecomesKeeps DEF Phase, Travelling, FormsInv, FormsTypeOK
<1>2. CASE CreateRow(c)
  <2> USE <1>2 DEF CreateRow, Becomes, ledger
  <2>1. calls' = (calls \ {c}) \cup {[c EXCEPT !.phase = "created", !.mount = c.mount]}
    BY DEF Phase
  <2> QED BY <2>1, BecomesKeeps DEF Phase, Travelling, FormsInv, FormsTypeOK, RowStatus
<1>3. CASE Submit(c)
  <2> USE <1>3 DEF Submit, Becomes
  <2>1. calls' = (calls \ {c}) \cup {[c EXCEPT !.phase = "wait", !.mount = c.mount]}
    BY DEF Phase
  <2> QED BY <2>1, BecomesKeeps DEF Phase, Travelling, FormsInv, FormsTypeOK
<1>4. CASE Accepted(c)
  <2> USE <1>4 DEF Accepted, Becomes, ledger
  <2>1. calls' = (calls \ {c}) \cup {[c EXCEPT !.phase = "ok", !.mount = c.mount]}
    BY DEF Phase
  <2>2. c.env \in sent
    BY DEF CallFacts
  <2> QED BY <2>1, <2>2, BecomesKeeps DEF Phase, Travelling, FormsInv, FormsTypeOK, RowStatus
<1>5. CASE FormFailed(c)
  <2> USE <1>5 DEF FormFailed, ledger
  <2>1. calls' = (calls \ {c}) \cup {[c EXCEPT !.phase = c.phase, !.mount = 0]}
    OBVIOUS
  <2>2. c.phase \in Phase
    BY DEF FormCall
  <2>3. /\ status' \in RowStatus /\ UNCHANGED <<pages, status, sent, applied, masterSeq>>
        /\ c.phase \in {"wait", "ok"} => c.env \in sent'
        /\ c.phase = "ok" => /\ c.env \in applied
                             /\ c.kind = "activate" => status' \in {"active", "revoked"}
    BY DEF CallFacts, FormsInv, FormsTypeOK
  <2> QED BY <2>1, <2>2, <2>3, BecomesKeeps
<1> QED BY <1>1, <1>2, <1>3, <1>4, <1>5

LEMMA EndingStepsKeep ==
    ASSUME FormsInv,
           \/ \E c \in calls : WalletRefuses(c) \/ FormRefused(c)
           \/ \E e \in sent : LedgerApply(e)
           \/ OtherMasterTx
           \/ Revoke
    PROVE  FormsInv'
<1>1. CASE \E c \in calls : WalletRefuses(c) \/ FormRefused(c)
  BY <1>1, FewerCallsKeep DEF WalletRefuses, FormRefused, Ends, ledger, FormsInv, FormsTypeOK
<1>2. CASE \E e \in sent : LedgerApply(e)
  BY <1>2, FewerCallsKeep DEF LedgerApply, FormsInv, FormsTypeOK
<1>3. CASE OtherMasterTx
  BY <1>3, FewerCallsKeep DEF OtherMasterTx, FormsInv, FormsTypeOK
<1>4. CASE Revoke
  BY <1>4, FewerCallsKeep DEF Revoke, ledger, FormsInv, FormsTypeOK, RowStatus
<1> QED BY <1>1, <1>2, <1>3, <1>4

LEMMA BuildEnvelopeKeeps ==
    ASSUME FormsInv, NEW c \in calls, BuildEnvelope(c)
    PROVE  FormsInv'
<1>0. PICK n : n = masterSeq + 1
  OBVIOUS
<1> DEFINE e == [tab |-> c.tab, mount |-> c.mount, kind |-> c.kind, seq |-> n]
           d == [c EXCEPT !.phase = "built", !.env = e]
           D == {d}
<1>1. /\ c \in FormCall /\ CallFacts(c) /\ MountedFacts(c)
      /\ c.phase = "build" /\ UNCHANGED <<status, pages, ledger>>
      /\ calls' = (calls \ {c}) \cup D
  BY <1>0, FormCallTypes DEF BuildEnvelope
<1>2. e \in Envelope
  BY <1>0, <1>1 DEF FormCall, Envelope, FormsInv, FormsTypeOK
<1>3. /\ e.tab = c.tab /\ e.mount = c.mount /\ e.kind = c.kind
  OBVIOUS
<1> HIDE DEF e
<1>4. /\ d \in FormCall
      /\ d.tab = c.tab /\ d.kind = c.kind /\ d.env = e
      /\ d.phase = "built" /\ d.mount = c.mount
  BY <1>1, <1>2 DEF FormCall, Phase
<1> HIDE DEF d
<1>5. FormsTypeOK'
  BY <1>1, <1>4 DEF FormsInv, FormsTypeOK, pages, ledger
<1>6. OneCall' /\ SentFit'
  <2>1. FormsTypeOK /\ OneCall /\ UNCHANGED mount
    BY <1>1 DEF FormsInv, pages
  <2>2. OneCall'
    BY <1>1, <1>4, <2>1, OneCallKept
  <2> QED BY <1>1, <2>2 DEF FormsInv, SentFit, pages, ledger
<1>7. Out' \subseteq Out
  <2>1. \A x \in calls' : x.phase \in Travelling => x \in calls
    BY <1>1, <1>4 DEF Travelling
  <2> QED BY <1>1, <2>1 DEF Out, pages, ledger
<1>8. CallFacts(d)' /\ MountedFacts(d)'
  <2>1. CallFacts(d)'
    BY <1>1, <1>2, <1>3, <1>4 DEF CallFacts, Travelling, pages, ledger
  <2>2. MountedFacts(d)'
    BY <1>1, <1>4 DEF MountedFacts, Mounted, pages
  <2> QED BY <2>1, <2>2
<1>9. \A x \in D : CallFacts(x)' /\ MountedFacts(x)'
  BY <1>8
<1>10. /\ calls' \subseteq calls \cup D
       /\ sent \subseteq sent' /\ applied \subseteq applied' /\ UNCHANGED <<pages, status>>
  BY <1>1 DEF ledger
<1> HIDE DEF D
<1> QED BY <1>5, <1>6, <1>7, <1>9, <1>10, CallsStepKeeps

\* A button is pressed: the mount, which waited for nothing, waits for one call.
LEMMA AskKeeps ==
    ASSUME FormsInv, NEW t \in Tabs, Own(t) = {},
           NEW kind \in {"activate", "fund"}, NEW phase \in {"create", "build", "sign"},
           NEW env \in Envelope \cup {NoEnvelope},
           AskFor(t, kind, phase, env), UNCHANGED <<status, pages, ledger>>,
           form[t].kind # "none",
           kind = "fund" <=> form[t].kind = "fund",
           phase = "create" => form[t].kind = "create",
           phase = "sign" => env.kind = kind,
           IF phase = "sign" THEN env = form[t].env /\ env # NoEnvelope
                             ELSE env = NoEnvelope /\ form[t].env = NoEnvelope
    PROVE  FormsInv'
<1>1. mount \in [Tabs -> Nat \ {0}]
  BY DEF FormsInv, FormsTypeOK
<1>2. PICK m : m = mount[t]
  OBVIOUS
<1> DEFINE d == [tab |-> t, mount |-> m, kind |-> kind, phase |-> phase, env |-> env]
           D == {d}
<1>3. calls' = calls \cup D
  BY <1>2 DEF AskFor
<1>4. /\ d \in FormCall
      /\ d.tab = t /\ d.mount = m /\ d.kind = kind /\ d.phase = phase /\ d.env = env
  BY <1>1, <1>2 DEF FormCall, Phase
<1> HIDE DEF d
<1>5. env # NoEnvelope => env.tab = t /\ env.mount = m
  BY <1>2, NoEnvelopeAssumption DEF FormsInv, FormsFit
<1>6. FormsTypeOK'
  BY <1>3, <1>4 DEF FormsInv, FormsTypeOK, pages, ledger
<1>7. OneCall'
  <2>1. \A u \in Tabs : Own(u)' = IF u = t THEN {d} ELSE Own(u)
    BY <1>2, <1>3, <1>4 DEF Own, pages
  <2> QED BY <2>1 DEF FormsInv, OneCall
<1>8. SentFit'
  BY DEF FormsInv, SentFit, pages, ledger
<1>9. Out' \subseteq Out
  <2>1. \A x \in calls' : x.phase \in Travelling => x.env \in Out
    BY <1>3, <1>4 DEF Out, Travelling
  <2> QED BY <2>1 DEF Out, pages, ledger
<1>10. CallFacts(d)'
  BY <1>1, <1>2, <1>4, <1>5 DEF CallFacts, Travelling, pages, ledger
<1>11. MountedFacts(d)'
  BY <1>4 DEF MountedFacts, pages
<1>12. \A x \in D : CallFacts(x)' /\ MountedFacts(x)'
  BY <1>10, <1>11
<1>13. /\ calls' \subseteq calls \cup D
       /\ sent \subseteq sent' /\ applied \subseteq applied' /\ UNCHANGED <<pages, status>>
  BY <1>3 DEF ledger
<1> HIDE DEF D
<1> QED BY <1>6, <1>7, <1>8, <1>9, <1>12, <1>13, CallsStepKeeps

LEMMA ButtonsKeep ==
    ASSUME FormsInv, NEW t \in Tabs,
           \/ handleSubmit(t) \/ handleContinueToSign(t) \/ handleBuildActivate(t)
           \/ handleBuildFund(t) \/ handleSign(t)
    PROVE  FormsInv'
<1>1. /\ form[t] \in Form
      /\ form[t].step \in Steps(form[t].kind)
      /\ form[t].env = NoEnvelope <=> form[t].step \notin {"sign", "done"}
      /\ form[t].env # NoEnvelope => (form[t].env.kind = "fund" <=> form[t].kind = "fund")
  BY DEF FormsInv, FormsTypeOK, FormsFit
<1>2. CASE handleSubmit(t)
  BY <1>1, <1>2, AskKeeps DEF handleSubmit, OffersCreate, Ready
<1>3. CASE handleContinueToSign(t)
  BY <1>1, <1>3, AskKeeps DEF handleContinueToSign, OffersContinue, Ready
<1>4. CASE handleBuildActivate(t)
  BY <1>1, <1>4, AskKeeps DEF handleBuildActivate, OffersActivation, Ready
<1>5. CASE handleBuildFund(t)
  BY <1>1, <1>5, AskKeeps DEF handleBuildFund, OffersFunding, Ready
<1>6. CASE handleSign(t)
  <2>1. /\ form[t].step = "sign" /\ Own(t) = {}
        /\ form[t].env \in Envelope /\ form[t].kind # "none"
    BY <1>1, <1>6 DEF handleSign, OffersSigning, Form, Steps
  <2>2. form[t].env.kind \in {"activate", "fund"}
    BY <2>1 DEF Envelope
  <2> DEFINE env == form[t].env
  <2>3. /\ env \in Envelope \cup {NoEnvelope} /\ env # NoEnvelope
        /\ env.kind \in {"activate", "fund"}
        /\ AskFor(t, env.kind, "sign", env) /\ UNCHANGED <<status, pages, ledger>>
        /\ env.kind = "fund" <=> form[t].kind = "fund"
    BY <1>1, <1>6, <2>1, <2>2, NoEnvelopeAssumption DEF handleSign
  <2>4. PICK e : e = env
    OBVIOUS
  <2> QED BY <2>1, <2>3, <2>4, AskKeeps
<1> QED BY <1>2, <1>3, <1>4, <1>5, <1>6

\* Envelopes that are out belong to mounts that exist.
LEMMA OutIsOld ==
    ASSUME FormsInv
    PROVE  \A e \in Out : e \in Envelope /\ e.mount <= mount[e.tab]
<1>1. \A e \in sent : e \in Envelope /\ e.mount <= mount[e.tab]
  BY DEF FormsInv, FormsTypeOK, SentFit
<1>2. \A c \in calls : c.phase \in Travelling =>
        c.env \in Envelope /\ c.env.mount <= mount[c.env.tab]
  BY DEF FormsInv, CallsFit, CallFacts
<1>3. \A t \in Tabs : form[t].env # NoEnvelope =>
        form[t].env \in Envelope /\ form[t].env.mount <= mount[form[t].env.tab]
  <2>1. \A t \in Tabs : form[t] \in Form /\ mount[t] \in Nat
    BY DEF FormsInv, FormsTypeOK
  <2> QED BY <2>1 DEF FormsInv, FormsFit, Form
<1> QED BY <1>1, <1>2, <1>3 DEF Out

\* A tab gets a form that knows nothing: what was out is out for an older mount.
LEMMA NewMountKeeps ==
    ASSUME FormsInv, NEW t \in Tabs, NEW f \in Form, f.step \in Steps(f.kind),
           f.env = NoEnvelope, f.step \notin {"sign", "done"},
           NewMount(t, f), calls' \subseteq calls, view' \in [Tabs -> RowStatus],
           UNCHANGED <<status, ledger>>
    PROVE  FormsInv'
<1>1. /\ form \in [Tabs -> Form] /\ form' = [form EXCEPT ![t] = f]
      /\ mount \in [Tabs -> Nat \ {0}] /\ mount' = [mount EXCEPT ![t] = @ + 1]
      /\ UNCHANGED <<status, sent, applied, masterSeq>>
  BY DEF FormsInv, FormsTypeOK, NewMount, ledger
<1>2. \A u \in Tabs : /\ form'[u] = IF u = t THEN f ELSE form[u]
                      /\ mount'[u] = IF u = t THEN mount[u] + 1 ELSE mount[u]
                      /\ mount[u] \in Nat
  BY <1>1
<1>3. FormsTypeOK'
  BY <1>1, <1>2 DEF FormsInv, FormsTypeOK
<1>4. \A c \in calls : c \in FormCall /\ c.tab \in Tabs /\ c.mount \in Nat
                       /\ CallFacts(c) /\ MountedFacts(c)
  BY DEF FormsInv, FormsTypeOK, FormCall, CallsFit
<1>5. \A c \in calls' : CallFacts(c)'
  <2> SUFFICES ASSUME NEW c \in calls' PROVE CallFacts(c)'
    OBVIOUS
  <2>1. mount'[c.tab] >= mount[c.tab] /\ mount[c.tab] \in Nat
    BY <1>2, <1>4
  <2>2. c.env \in Envelope => c.env.mount \in Nat
    BY DEF Envelope
  <2> QED BY <1>1, <1>4, <2>1, <2>2 DEF CallFacts
<1>6. \A c \in calls' : MountedFacts(c)'
  BY <1>1, <1>2, <1>4 DEF CallFacts, MountedFacts, Mounted
<1>7. CallsFit'
  BY <1>5, <1>6 DEF CallsFit
<1>8. FormsFit'
  BY <1>2 DEF FormsInv, FormsFit
<1>9. SentFit'
  <2>1. \A e \in sent : e.tab \in Tabs /\ e.mount \in Nat
    BY DEF FormsInv, FormsTypeOK, Envelope
  <2> QED BY <1>1, <1>2, <2>1 DEF FormsInv, SentFit
<1>10. OneCall'
  <2>1. \A u \in Tabs : Own(u)' \subseteq IF u = t THEN {} ELSE Own(u)
    BY <1>2, <1>4 DEF Own, CallFacts
  <2> QED BY <2>1 DEF FormsInv, OneCall
<1>11. Out' \subseteq Out
  BY <1>1, <1>2 DEF Out
<1>12. Unbuilt'
  <2> SUFFICES ASSUME NEW u \in Tabs, form'[u].env = NoEnvelope, NEW e \in Out',
                      e.tab = u, e.mount = mount'[u]
               PROVE  FALSE
    BY DEF Unbuilt
  <2>1. e \in Out /\ e \in Envelope /\ e.mount <= mount[u]
    BY <1>11, OutIsOld
  <2>2. CASE u = t
    BY <1>2, <2>1, <2>2
  <2>3. CASE u # t
    BY <1>2, <2>1, <2>3 DEF FormsInv, Unbuilt
  <2> QED BY <2>2, <2>3
<1>13. OneEnvelope'
  BY <1>11 DEF FormsInv, OneEnvelope
<1>14. DoneIsPaid'
  BY <1>1, <1>2 DEF FormsInv, DoneIsPaid
<1> QED BY <1>3, <1>7, <1>8, <1>9, <1>10, <1>12, <1>13, <1>14 DEF FormsInv

LEMMA PagesKeep ==
    ASSUME FormsInv, NEW t \in Tabs, Refetch(t) \/ LeaveTab(t) \/ ReloadTab(t)
    PROVE  FormsInv'
<1>1. view \in [Tabs -> RowStatus] /\ status \in RowStatus
  BY DEF FormsInv, FormsTypeOK
<1>2. \A s \in RowStatus : \A f \in {CardOf(s), Opened(t, s)} :
        /\ f \in Form /\ f.step \in Steps(f.kind)
        /\ f.env = NoEnvelope /\ f.step \notin {"sign", "done"}
  BY DEF RowStatus, CardOf, Opened, CreateForm, Form, Step, Steps
<1>3. CASE Refetch(t)
  BY <1>1, <1>2, <1>3, NewMountKeeps DEF Refetch
<1>4. CASE LeaveTab(t)
  BY <1>1, <1>2, <1>4, NewMountKeeps DEF LeaveTab
<1>5. CASE ReloadTab(t)
  <2>1. "absent" \in RowStatus
    BY DEF RowStatus
  <2> QED BY <1>1, <1>2, <1>5, <2>1, NewMountKeeps DEF ReloadTab
<1> QED BY <1>3, <1>4, <1>5

\* A form learns what it has waited for.
LEMMA AnsweredKeeps ==
    ASSUME FormsInv, NEW c \in calls, FormAnswered(c)
    PROVE  FormsInv'
<1>1. /\ c \in FormCall /\ CallFacts(c) /\ MountedFacts(c)
      /\ c.phase \in {"created", "built", "ok"} /\ calls' = calls \ {c}
      /\ UNCHANGED <<status, view, mount, ledger>>
  BY FormCallTypes DEF FormAnswered, Ends
<1>2. CASE ~Mounted(c)
  BY <1>1, <1>2, FewerCallsKeep DEF FormAnswered, pages, ledger, FormsInv, FormsTypeOK
<1>3. CASE Mounted(c)
  <2>1. PICK t \in Tabs : t = c.tab
    BY <1>1 DEF FormCall
  <2>2. PICK f : f = [form[t] EXCEPT !.step = StepAfter(form[t].kind, c.phase),
                                     !.env = c.env]
    OBVIOUS
  <2>3. form[t] \in Form /\ form \in [Tabs -> Form] /\ mount[t] \in Nat \ {0}
    BY DEF FormsInv, FormsTypeOK
  <2>4. form' = [form EXCEPT ![t] = f]
    BY <1>3, <2>1, <2>2, <2>3 DEF FormAnswered
  <2>5. /\ form[t].kind # "none" /\ c.mount = mount[t] /\ c \in Own(t)
        /\ c.kind = "fund" <=> form[t].kind = "fund"
        /\ c.phase = "created" => form[t].kind = "create"
        /\ c.phase \in {"created", "built"} => form[t].env = NoEnvelope
        /\ c.phase = "created" => c.env = NoEnvelope
        /\ c.phase # "created" => /\ c.env \in Envelope
                                  /\ c.env.tab = t /\ c.env.mount = mount[t]
    BY <1>1, <1>3, <2>1, <2>3 DEF CallFacts, MountedFacts, Mounted, Own, Travelling
  <2>6. c.phase = "ok" => c.env = form[t].env
    <3> SUFFICES ASSUME c.phase = "ok" PROVE c.env = form[t].env
      OBVIOUS
    <3>1. c.env \in Out
      BY DEF Out, Travelling
    <3>2. form[t].env # NoEnvelope
      BY <2>5, <3>1 DEF FormsInv, Unbuilt
    <3>3. form[t].env \in Out /\ form[t].env.tab = t /\ form[t].env.mount = mount[t]
      BY <3>2 DEF Out, FormsInv, FormsFit
    <3> QED BY <2>5, <3>1, <3>3 DEF FormsInv, OneEnvelope
  <2>7. /\ f.kind = form[t].kind /\ f.env = c.env
        /\ f.step = StepAfter(form[t].kind, c.phase)
    BY <2>2, <2>3 DEF Form
  <2>8. /\ f \in Form /\ f.step \in Steps(f.kind)
        /\ f.env = NoEnvelope <=> f.step \notin {"sign", "done"}
        /\ f.step = "done" => c.phase = "ok"
    <3>1. f.env \in Envelope \cup {NoEnvelope}
      BY <2>5, <2>7
    <3>2. StepAfter(form[t].kind, c.phase) \in Step
      BY DEF StepAfter, Step
    <3>3. f \in Form
      BY <2>2, <2>3, <2>7, <3>1, <3>2 DEF Form
    <3> QED BY <1>1, <2>3, <2>5, <2>7, <3>3, NoEnvelopeAssumption DEF StepAfter, Steps, Form
  <2>9. FormsTypeOK'
    BY <1>1, <2>4, <2>8 DEF FormsInv, FormsTypeOK, ledger
  <2>10. \A u \in Tabs : Own(u)' = IF u = t THEN {} ELSE Own(u)
    <3>1. \A x \in Own(t) : x = c
      BY <2>5 DEF FormsInv, OneCall
    <3>2. \A x \in Own(t)' : x \in Own(t) /\ x # c
      BY <1>1 DEF Own
    <3>3. \A u \in Tabs : u # t => Own(u)' = Own(u)
      BY <1>1, <2>1 DEF Own
    <3> QED BY <3>1, <3>2, <3>3
  <2>11. OneCall'
    BY <2>10 DEF FormsInv, OneCall
  <2>12. SentFit'
    BY <1>1 DEF FormsInv, SentFit, ledger
  <2>13. CallsFit'
    <3> SUFFICES ASSUME NEW x \in calls' PROVE CallFacts(x)' /\ MountedFacts(x)'
      BY DEF CallsFit
    <3>1. x \in calls /\ x \in FormCall /\ CallFacts(x) /\ MountedFacts(x)
      BY <1>1, FormCallTypes
    <3>2. CallFacts(x)'
      BY <1>1, <3>1 DEF CallFacts, ledger
    <3>3. x.tab = t => x.mount # mount[t]
      BY <1>1, <2>10 DEF Own
    <3>4. MountedFacts(x)'
      BY <1>1, <2>3, <2>4, <3>1, <3>3 DEF MountedFacts, Mounted, FormCall
    <3> QED BY <3>2, <3>4
  <2>14. FormsFit'
    <3>1. f.env # NoEnvelope => (f.env.kind = "fund" <=> f.kind = "fund")
      <4>1. c.phase = "built" => (c.env.kind = "fund" <=> c.kind = "fund")
        BY <1>1 DEF CallFacts
      <4> QED BY <1>1, <2>5, <2>6, <2>7, <4>1 DEF FormsInv, FormsFit
    <3> QED BY <1>1, <2>3, <2>4, <2>5, <2>7, <2>8, <3>1 DEF FormsInv, FormsFit
  <2>15. Out' \subseteq Out \cup ({c.env} \ {NoEnvelope})
    BY <1>1, <2>3, <2>4, <2>7 DEF Out, ledger
  <2>16. c.env # NoEnvelope => c.env \in Out \/ form[t].env = NoEnvelope
    BY <1>1, <2>5 DEF Out, Travelling
  <2>17. OneEnvelope'
    BY <2>5, <2>15, <2>16 DEF FormsInv, OneEnvelope, Unbuilt
  <2>18. Unbuilt'
    <3> SUFFICES ASSUME NEW u \in Tabs, form'[u].env = NoEnvelope, NEW e \in Out',
                        e.tab = u, e.mount = mount[u]
                 PROVE  FALSE
      BY <1>1 DEF Unbuilt
    <3>1. CASE u = t
      <4>1. form'[t].env = c.env
        BY <2>3, <2>4, <2>7
      <4>2. c.env = NoEnvelope /\ form[t].env = NoEnvelope
        BY <1>1, <2>5, <3>1, <4>1, NoEnvelopeAssumption
      <4> QED BY <2>15, <3>1, <4>2 DEF FormsInv, Unbuilt
    <3>2. CASE u # t
      BY <2>3, <2>4, <2>5, <2>15, <3>2 DEF FormsInv, Unbuilt
    <3> QED BY <3>1, <3>2
  <2>19. DoneIsPaid'
    <3>1. f.step = "done" =>
            /\ f.env \in applied
            /\ f.kind = "create" => status \in {"active", "revoked"}
      BY <1>1, <2>5, <2>7, <2>8 DEF CallFacts, FormCall
    <3> QED BY <1>1, <2>3, <2>4, <3>1 DEF FormsInv, DoneIsPaid, ledger
  <2> QED BY <2>9, <2>11, <2>12, <2>13, <2>14, <2>17, <2>18, <2>19 DEF FormsInv
<1> QED BY <1>2, <1>3

-----------------------------------------------------------------------------

LEMMA NextKeeps == FormsInv /\ [FormsNext]_formsVars => FormsInv'
<1> SUFFICES ASSUME FormsInv, [FormsNext]_formsVars PROVE FormsInv'
  OBVIOUS
<1>1. CASE FormStep
  BY <1>1, ButtonsKeep, PagesKeep DEF FormStep
<1>2. CASE FormCallStep
  BY <1>2, PhaseStepsKeep, EndingStepsKeep, BuildEnvelopeKeeps, AnsweredKeeps DEF FormCallStep
<1>3. CASE (\E e \in sent : LedgerApply(e)) \/ OtherMasterTx \/ Revoke
  BY <1>3, EndingStepsKeep
<1>4. CASE UNCHANGED formsVars
  BY <1>4, FewerCallsKeep DEF formsVars, pages, FormsInv, FormsTypeOK
<1> QED BY <1>1, <1>2, <1>3, <1>4 DEF FormsNext

LEMMA Inductive == FormsSpec => []FormsInv
BY InitIInv, NextKeeps, PTL DEF FormsSpec

\* Every variable of the forms keeps its type: in particular no form is in a step that
\* its component does not have.
THEOREM FormsTypeCorrect == FormsSpec => []FormsTypeOK
<1>1. FormsInv => FormsTypeOK
  BY DEF FormsInv
<1> QED BY <1>1, Inductive, PTL

\* However often a form is signed and submitted, and whatever becomes of the calls and
\* of the form, the master account pays at most once for each mount.
THEOREM MountsPayOnce == FormsSpec => []PaysOncePerMount
<1>1. FormsInv => PaysOncePerMount
  BY DEF FormsInv, FormsTypeOK, OneEnvelope, PaysOncePerMount, Out
<1> QED BY <1>1, Inductive, PTL

\* A form that reports success has its envelope in the ledger.
THEOREM DoneFormsArePaid == FormsSpec => []DoneIsPaid
<1>1. FormsInv => DoneIsPaid
  BY DEF FormsInv
<1> QED BY <1>1, Inductive, PTL

=============================================================================
