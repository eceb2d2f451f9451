---------------------------- MODULE FundingForms ----------------------------
(***************************************************************************)
(* The forms of the dashboard that have the master account pay: the        *)
(* creation form (CreateKeyForm), and on the page of a key the activation  *)
(* card (APIKeyDetailPage) and the fund form (FundForm), each with its     *)
(* sign button (SignTransaction).                                          *)
(*                                                                         *)
(* An administrator's tab shows either the creation page or the page of    *)
(* the one key that is followed here.  A mount is the life of a form from  *)
(* its first rendering until the page is left, reloaded, or shows another  *)
(* form because the key's status has changed: what the form knows is lost  *)
(* with it.  What it awaits is not: a promise of a form that is gone goes  *)
(* on, and sends the envelope that the wallet signs, unless the whole page *)
(* went, as apiFetch lets it go at an answer of 401.                       *)
(*                                                                         *)
(* The handlers of the service are coarser than in KeyLifecycle and        *)
(* SponsorFunds.  A call may fail for the browser at any time while the    *)
(* service goes on with it; the network applies what it was sent, later or *)
(* never, and once only.  Amounts, names, errors on display, and whether   *)
(* the tab has its wallet connected are left out: a signature is given,    *)
(* refused, or waited for as long as it takes.                             *)
(***************************************************************************)
EXTENDS Naturals, FiniteSets

CONSTANTS
    Tabs,       \* the browser tabs of the administrators
    CreateTabs, \* those on the creation page; the others show the page of the key
    NoEnvelope, \* no envelope
    MaxMounts,  \* bound on the mounts that a tab gets by being left or reloaded
    MaxCalls,   \* bound on the calls awaited, by forms or by nobody
    MaxSeq      \* bound on the transactions of the master account

ASSUME TabsAssumption == CreateTabs \subseteq Tabs
ASSUME BoundsAssumption == MaxMounts \in Nat /\ MaxCalls \in Nat /\ MaxSeq \in Nat

VARIABLES
    status,     \* the status column of the key
    view,       \* view[t]: the status that the page of tab t has fetched
    form,       \* form[t]: the form of tab t, its step and its envelope
    mount,      \* mount[t]: the number of the mount that tab t is in
    calls,      \* what forms, or nobody any more, wait for
    sent,       \* envelopes given to the network
    applied,    \* envelopes in the ledger
    masterSeq   \* sequence number of the master account on the ledger

formsVars == <<status, view, form, mount, calls, sent, applied, masterSeq>>

ledger == <<sent, applied, masterSeq>>
pages == <<view, form, mount>>

-----------------------------------------------------------------------------

RowStatus == {"absent", "pending_funding", "active", "revoked"}

Steps(kind) ==
    CASE kind = "create"   -> {"form", "api_key", "sign", "done"}
      [] kind = "activate" -> {"build", "sign"}
      [] kind = "fund"     -> {"amount", "sign", "done"}
      [] kind = "none"     -> {"loading"}

Step == {"form", "api_key", "build", "amount", "sign", "done", "loading"}

\* An envelope is known by the form that had it built, and by its number.
Envelope ==
    [tab : Tabs, mount : Nat, kind : {"activate", "fund"}, seq : Nat]

ASSUME NoEnvelopeAssumption == NoEnvelope \notin Envelope

Form ==
    [kind : {"create", "activate", "fund", "none"}, step : Step,
     env : Envelope \cup {NoEnvelope}]

\* create, build, sign, submit: on the way to the service or the wallet; wait: the
\* service waits for the network; created, built, ok: the answer is on its way.
Phase == {"create", "created", "build", "built", "sign", "submit", "wait", "ok"}

FormCall ==
    [tab : Tabs, mount : Nat, kind : {"activate", "fund"}, phase : Phase,
     env : Envelope \cup {NoEnvelope}]

CreateForm == [kind |-> "create", step |-> "form", env |-> NoEnvelope]

\* What the page of a key has to offer to the master account.
CardOf(s) ==
    CASE s = "pending_funding" ->
             [kind |-> "activate", step |-> "build", env |-> NoEnvelope]
      [] s = "active" ->
             [kind |-> "fund", step |-> "amount", env |-> NoEnvelope]
      [] OTHER ->
             [kind |-> "none", step |-> "loading", env |-> NoEnvelope]

Opened(t, s) == IF t \in CreateTabs THEN CreateForm ELSE CardOf(s)

FormsTypeOK ==
    /\ status \in RowStatus
    /\ view \in [Tabs -> RowStatus]
    /\ form \in [Tabs -> Form]
    /\ \A t \in Tabs : form[t].step \in Steps(form[t].kind)
    /\ mount \in [Tabs -> Nat \ {0}]
    /\ calls \subseteq FormCall
    /\ sent \subseteq Envelope
    /\ applied \subseteq sent
    /\ masterSeq \in Nat

\* The key may exist already, and its page be open.
FormsInit ==
    /\ status \in RowStatus
    /\ view = [t \in Tabs |-> status]
    /\ form = [t \in Tabs |-> Opened(t, status)]
    /\ mount = [t \in Tabs |-> 1]
    /\ calls = {}
    /\ sent = {}
    /\ applied = {}
    /\ masterSeq = 0

\* The mount of a tab waits for an answer or for a signature: its buttons are disabled.
Own(t) == {c \in calls : c.tab = t /\ c.mount = mount[t]}

Ready(t, kind, step) ==
    /\ form[t].kind = kind
    /\ form[t].step = step
    /\ Own(t) = {}

AskFor(t, kind, phase, env) ==
    /\ Cardinality(calls) < MaxCalls
    /\ calls' = calls \cup {[tab |-> t, mount |-> mount[t], kind |-> kind,
                             phase |-> phase, env |-> env]}

Becomes(c, phase) == calls' = (calls \ {c}) \cup {[c EXCEPT !.phase = phase]}

Ends(c) == calls' = calls \ {c}

Mounted(c) == c.mount = mount[c.tab]

-----------------------------------------------------------------------------
\* What the forms offer, and what their buttons do.

\* CreateKeyForm, step form: the fields are filled in.
OffersCreate(t) == Ready(t, "create", "form")

handleSubmit(t) ==
    /\ OffersCreate(t)
    /\ AskFor(t, "activate", "create", NoEnvelope)
    /\ UNCHANGED <<status, pages, ledger>>

\* CreateKeyForm, step api_key: the new API key is on display.
OffersContinue(t) == Ready(t, "create", "api_key")

handleContinueToSign(t) ==
    /\ OffersContinue(t)
    /\ AskFor(t, "activate", "build", NoEnvelope)
    /\ UNCHANGED <<status, pages, ledger>>

\* The activation card, as long as there is no envelope.
OffersActivation(t) == Ready(t, "activate", "build")

handleBuildActivate(t) ==
    /\ OffersActivation(t)
    /\ AskFor(t, "activate", "build", NoEnvelope)
    /\ UNCHANGED <<status, pages, ledger>>

\* FundForm, step amount.
OffersFunding(t) == Ready(t, "fund", "amount")

handleBuildFund(t) ==
    /\ OffersFunding(t)
    /\ AskFor(t, "fund", "build", NoEnvelope)
    /\ UNCHANGED <<status, pages, ledger>>

\* SignTransaction, in the step sign of every form.
OffersSigning(t) ==
    /\ form[t].step = "sign"
    /\ Own(t) = {}

handleSign(t) ==
    /\ OffersSigning(t)
    /\ AskFor(t, form[t].env.kind, "sign", form[t].env)
    /\ UNCHANGED <<status, pages, ledger>>

-----------------------------------------------------------------------------
\* The wallet.

\* The wallet signs, whether its form is still there or not, and handleSigned or
\* handleActivateSigned calls the service.
WalletSigns(c) ==
    /\ c.phase = "sign"
    /\ Becomes(c, "submit")
    /\ UNCHANGED <<status, pages, ledger>>

\* The administrator refuses, or the wallet fails: the error is shown, and the form
\* offers the same envelope again.
WalletRefuses(c) ==
    /\ c.phase = "sign"
    /\ Ends(c)
    /\ UNCHANGED <<status, pages, ledger>>

-----------------------------------------------------------------------------
\* The service and the network.

CreateRow(c) ==
    /\ c.phase = "create"
    /\ status = "absent"
    /\ status' = "pending_funding"
    /\ Becomes(c, "created")
    /\ UNCHANGED <<pages, ledger>>

\* What BuildActivate and SubmitActivate, BuildFund and SubmitFund require of the key.
Required(kind) == IF kind = "activate" THEN "pending_funding" ELSE "active"

\* BuildActivate, BuildFund: the envelope has the master account's next number.
BuildEnvelope(c) ==
    /\ c.phase = "build"
    /\ status = Required(c.kind)
    /\ masterSeq < MaxSeq
    /\ calls' = (calls \ {c}) \cup
         {[c EXCEPT !.phase = "built",
                    !.env = [tab |-> c.tab, mount |-> c.mount, kind |-> c.kind,
                             seq |-> masterSeq + 1]]}
    /\ UNCHANGED <<status, pages, ledger>>

\* Faulty variant of Submit, not in FormsNext: the result of the network is not awaited.
SubmitUnawaited(c) ==
    /\ c.phase = "submit"
    /\ status = Required(c.kind)
    /\ sent' = sent \cup {c.env}
    /\ Becomes(c, "ok")
    /\ UNCHANGED <<status, pages, applied, masterSeq>>

\* SubmitActivate, SubmitFund: the envelope is given to the network.
Submit(c) ==
    /\ c.phase = "submit"
    /\ status = Required(c.kind)
    /\ sent' = sent \cup {c.env}
    /\ Becomes(c, "wait")
    /\ UNCHANGED <<status, pages, applied, masterSeq>>

\* Horizon reports the envelope as applied; SubmitActivate writes the status.
Accepted(c) ==
    /\ c.phase = "wait"
    /\ c.env \in applied
    /\ status' = IF c.kind = "activate" THEN "active" ELSE status
    /\ Becomes(c, "ok")
    /\ UNCHANGED <<pages, ledger>>

\* The service refuses, or Horizon or the database fails: the call is over.
FormRefused(c) ==
    /\ c.phase \in {"create", "build", "submit", "wait"}
    /\ Ends(c)
    /\ UNCHANGED <<status, pages, ledger>>

LedgerApply(e) ==
    /\ e \in sent
    /\ e.seq = masterSeq + 1
    /\ applied' = applied \cup {e}
    /\ masterSeq' = e.seq
    /\ UNCHANGED <<status, pages, calls, sent>>

OtherMasterTx ==
    /\ masterSeq < MaxSeq
    /\ masterSeq' = masterSeq + 1
    /\ UNCHANGED <<status, pages, calls, sent, applied>>

\* Another administrator revokes the key.
Revoke ==
    /\ status = "active"
    /\ status' = "revoked"
    /\ UNCHANGED <<pages, calls, ledger>>

-----------------------------------------------------------------------------
\* The browser's side of the answers.

\* Faulty variant of StepAfter, not used: every form ends in a step of its own.
StepAfterSubmitDone(kind, phase) ==
    CASE phase = "created" -> "api_key"
      [] phase = "built"   -> "sign"
      [] OTHER             -> "done"

\* The step after an answer.  The activation card keeps its envelope; it goes when the
\* page learns the new status.
StepAfter(kind, phase) ==
    CASE phase = "created" -> "api_key"
      [] phase = "built"   -> "sign"
      [] OTHER             -> IF kind = "activate" THEN "sign" ELSE "done"

\* A form that is gone ignores the answer.
FormAnswered(c) ==
    /\ c.phase \in {"created", "built", "ok"}
    /\ Ends(c)
    /\ form' = IF Mounted(c)
                 THEN [form EXCEPT ![c.tab].step = StepAfter(form[c.tab].kind, c.phase),
                                   ![c.tab].env = c.env]
                 ELSE form
    /\ UNCHANGED <<status, view, mount, ledger>>

\* Faulty variant of FormFailed, not in FormsNext: after an error the form begins anew.
FailedStartsOver(c) ==
    /\ c.phase # "sign"
    /\ Mounted(c)
    /\ calls' = (calls \ {c}) \cup {[c EXCEPT !.mount = 0]}
    /\ form' = [form EXCEPT ![c.tab] = Opened(c.tab, view[c.tab])]
    /\ UNCHANGED <<status, view, mount, ledger>>

\* The call fails for the browser: it shows the error and offers the same step again,
\* while the service may go on with a call that nobody waits for.
FormFailed(c) ==
    /\ c.phase # "sign"
    /\ Mounted(c)
    /\ calls' = (calls \ {c}) \cup {[c EXCEPT !.mount = 0]}
    /\ UNCHANGED <<status, pages, ledger>>

NewMount(t, f) ==
    /\ form' = [form EXCEPT ![t] = f]
    /\ mount' = [mount EXCEPT ![t] = @ + 1]

\* useAPIKey fetches the key again; another status brings another card.
Refetch(t) ==
    /\ t \notin CreateTabs
    /\ view[t] # status
    /\ view' = [view EXCEPT ![t] = status]
    /\ NewMount(t, CardOf(status))
    /\ UNCHANGED <<status, calls, ledger>>

\* The administrator goes to another page of the dashboard and comes back.
LeaveTab(t) ==
    /\ mount[t] < MaxMounts
    /\ NewMount(t, Opened(t, view[t]))
    /\ UNCHANGED <<status, view, calls, ledger>>

\* The page is loaded anew, by the administrator or by way of the login page after an
\* answer of 401: nothing is awaited any more, not even a signature.
ReloadTab(t) ==
    /\ mount[t] < MaxMounts
    /\ NewMount(t, Opened(t, "absent"))
    /\ view' = [view EXCEPT ![t] = "absent"]
    /\ calls' = {c \in calls : ~(c.tab = t /\ c.phase = "sign")}
    /\ UNCHANGED <<status, ledger>>

-----------------------------------------------------------------------------

FormStep ==
    \E t \in Tabs :
        \/ handleSubmit(t) \/ handleContinueToSign(t)
        \/ handleBuildActivate(t) \/ handleBuildFund(t) \/ handleSign(t)
        \/ Refetch(t) \/ LeaveTab(t) \/ ReloadTab(t)

FormCallStep ==
    \E c \in calls :
        \/ WalletSigns(c) \/ WalletRefuses(c)
        \/ CreateRow(c) \/ BuildEnvelope(c) \/ Submit(c) \/ Accepted(c) \/ FormRefused(c)
        \/ FormAnswered(c) \/ FormFailed(c)

FormsNext ==
    \/ FormStep
    \/ FormCallStep
    \/ \E e \in sent : LedgerApply(e)
    \/ OtherMasterTx
    \/ Revoke

FormsSpec == FormsInit /\ [][FormsNext]_formsVars

-----------------------------------------------------------------------------

\* However often the buttons of a form are pressed, whatever fails, is signed twice,
\* or is answered after the form has gone: the master account pays at most once for
\* each mount of a form.
PaysOncePerMount ==
    \A e1, e2 \in applied : e1.tab = e2.tab /\ e1.mount = e2.mount => e1 = e2

\* "Funds Added" and "API Key Created Successfully" are true: the envelope of the form
\* is in the ledger, and a created key has become active.
DoneIsPaid ==
    \A t \in Tabs : form[t].step = "done" =>
        /\ form[t].env \in applied
        /\ form[t].kind = "create" => status \in {"active", "revoked"}

=============================================================================
