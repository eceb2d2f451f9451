----------------------------- MODULE WalletDemo -----------------------------
(***************************************************************************)
(* The wallet demo: a page that holds one keypair in memory, and two forms *)
(* that have a transaction built, signed by the sponsor, signed by the     *)
(* wallet and submitted to the network (AddTrustlineForm and               *)
(* CreateAccountForm).                                                     *)
(*                                                                         *)
(* A submission is a run of handleSubmit.  The form of the tab that is not *)
(* selected does not exist, and neither form does while the wallet is      *)
(* disconnected: what it showed is gone, and the run goes on.  A run       *)
(* reports every step to its form, if that is still there, and to the      *)
(* history of the page; the two are the step of the run here.              *)
(*                                                                         *)
(* When the sponsor has answered, nothing is awaited until the transaction *)
(* is submitted: signing is one step with the answer, and uses the keypair *)
(* that the wallet has by then.  The operations that the sponsor accepts   *)
(* are in Verifier; here it accepts or not.  Assets, hashes, the wording   *)
(* of errors, and the account's balances on display are left out.          *)
(***************************************************************************)
EXTENDS Naturals

CONSTANTS
    Keys,    \* keypairs that a wallet may have
    None,    \* no keypair
    MaxRuns  \* bound on the submissions

ASSUME NoneAssumption == None \notin Keys
ASSUME BoundAssumption == MaxRuns \in Nat

VARIABLES
    key,             \* the keypair of the wallet; the wallet is connected if it has one
    generatedSecret, \* the new secret that the page's ConnectWalletButton holds
    tab,             \* the tab that is selected
    form,            \* the form of that tab
    run,             \* run[i]: the i-th submission, and its row of the history
    runs,            \* the number of submissions so far
    sent,            \* the runs whose transaction was given to Horizon
    applied,         \* the runs whose transaction is in the ledger
    seq              \* seq[k]: the sequence number of an account, 0 if there is none

vars == <<key, generatedSecret, tab, form, run, runs, sent, applied, seq>>

ledger == <<sent, applied, seq>>

-----------------------------------------------------------------------------

Tab == {"trustline", "create"}

\* The steps of the create form, in their order; the trustline form has all but
\* signing_new_account.
allSteps ==
    <<"building", "signing_sponsor", "signing_wallet", "signing_new_account", "submitting">>

Live == {allSteps[n] : n \in DOMAIN allSteps}

\* gone: the page was loaded anew.
RunStep == Live \cup {"success", "error", "gone"}

\* The new account of the create form: no key yet; a keypair that was generated, and
\* whose secret the user says to have saved; a public key that was typed in.
NewAccount == {"none", "generated", "saved", "entered"}

\* errorAt: the step of the error on display.
\* run: the submission that the form has made, 0 if none.
Form ==
    [step : RunStep \cup {"configure"}, errorAt : Live \cup {"none"}, run : Nat,
     account : NewAccount]

\* What a run has: its sequence number when it is built, the sponsor's signature, and
\* the keypair that has signed as its source.
Run ==
    [kind : Tab, source : Keys, signsNew : BOOLEAN, step : RunStep,
     mounted : BOOLEAN, seq : Nat, sponsored : BOOLEAN, signer : Keys \cup {None}]

Precedes(s1, s2) ==
    \E i, j \in DOMAIN allSteps : i < j /\ allSteps[i] = s1 /\ allSteps[j] = s2

Runs == 1 .. runs

\* What the history of the page lists.
History == {i \in Runs : run[i].step # "gone"}

Running(i) == i \in Runs /\ run[i].step \in Live

EmptyForm == [step |-> "configure", errorAt |-> "none", run |-> 0, account |-> "none"]

TypeOK ==
    /\ key \in Keys \cup {None}
    /\ generatedSecret \in Keys \cup {None}
    /\ tab \in Tab
    /\ form \in Form
    /\ form.run <= runs
    /\ run \in [Runs -> Run]
    /\ runs \in Nat
    /\ sent \subseteq Runs
    /\ applied \subseteq sent
    /\ seq \in [Keys -> Nat]
    /\ \A i \in sent : run[i].seq > 0 /\ run[i].signer # None

Init ==
    /\ key = None
    /\ generatedSecret = None
    /\ tab = "trustline"
    /\ form = EmptyForm
    /\ run = << >>
    /\ runs = 0
    /\ sent = {}
    /\ applied = {}
    /\ seq \in [Keys -> {0, 1}]

-----------------------------------------------------------------------------
\* The wallet.

\* The page's button is there as long as the wallet is not connected; the one in the
\* header has no secret of its own.
SecretAfterRender(secret, connected) == IF connected THEN None ELSE secret

\* The page's button shows the new secret.
SecretOnDisplay(k) == key = None /\ generatedSecret = k

\* The forms come up, the first tab selected.
Connect(k) ==
    /\ key = None
    /\ key' = k
    /\ tab' = "trustline"
    /\ form' = EmptyForm
    /\ UNCHANGED <<run, runs, ledger>>

\* generateAndConnect connects before handleGenerate keeps the secret for display.
handleGenerate(k) ==
    /\ generatedSecret = None
    /\ Connect(k)
    /\ generatedSecret' = SecretAfterRender(k, key' # None)

handleImport(k) ==
    /\ generatedSecret = None
    /\ Connect(k)
    /\ UNCHANGED generatedSecret

Unmounted == [i \in Runs |-> [run[i] EXCEPT !.mounted = FALSE]]

disconnect ==
    /\ key # None
    /\ key' = None
    /\ form' = EmptyForm
    /\ run' = Unmounted
    /\ UNCHANGED <<generatedSecret, tab, runs, ledger>>

SelectTab(t) ==
    /\ key # None
    /\ t # tab
    /\ tab' = t
    /\ form' = EmptyForm
    /\ run' = Unmounted
    /\ UNCHANGED <<key, generatedSecret, runs, ledger>>

\* The page is loaded anew: keypair, forms, history and runs are gone.
Reload ==
    /\ key' = None
    /\ generatedSecret' = None
    /\ tab' = "trustline"
    /\ form' = EmptyForm
    /\ run' = [i \in Runs |-> [run[i] EXCEPT !.mounted = FALSE, !.step = "gone"]]
    /\ UNCHANGED <<runs, ledger>>

-----------------------------------------------------------------------------
\* The forms.

Configuring == key # None /\ form.step = "configure"

\* A keypair for the new account takes the place of the button that generates it.
generateKeypair ==
    /\ Configuring
    /\ tab = "create"
    /\ form.account \in {"none", "entered"}
    /\ form' = [form EXCEPT !.account = "generated"]
    /\ UNCHANGED <<key, generatedSecret, tab, run, runs, ledger>>

\* "I have saved the secret key", checked or not.
Acknowledge ==
    /\ Configuring
    /\ form.account \in {"generated", "saved"}
    /\ form' = [form EXCEPT !.account = IF @ = "saved" THEN "generated" ELSE "saved"]
    /\ UNCHANGED <<key, generatedSecret, tab, run, runs, ledger>>

EnterPublicKey ==
    /\ Configuring
    /\ tab = "create"
    /\ form.account = "none"
    /\ form' = [form EXCEPT !.account = "entered"]
    /\ UNCHANGED <<key, generatedSecret, tab, run, runs, ledger>>

\* The fields of the trustline are filled in, or the new account's key is there and a
\* generated secret acknowledged.
OffersSubmit ==
    /\ Configuring
    /\ tab = "create" => form.account \in {"saved", "entered"}

handleSubmit ==
    /\ OffersSubmit
    /\ runs < MaxRuns
    /\ runs' = runs + 1
    /\ run' = [i \in 1 .. runs + 1 |->
         IF i \in Runs THEN run[i]
         ELSE [kind |-> tab, source |-> key, signsNew |-> form.account = "saved",
               step |-> "building", mounted |-> TRUE, seq |-> 0, sponsored |-> FALSE,
               signer |-> None]]
    /\ form' = [form EXCEPT !.step = "building", !.run = runs + 1]
    /\ UNCHANGED <<key, generatedSecret, tab, ledger>>

\* Faulty variant of OffersReset, not used: the form may be reset at any time.
OffersResetAnyTime == form.step # "configure"

\* Add or create another, after a success; try again, after an error.
OffersReset == form.step \in {"success", "error"}

reset ==
    /\ OffersReset
    /\ form' = EmptyForm
    /\ UNCHANGED <<key, generatedSecret, tab, run, runs, ledger>>

\* Faulty variant of getState, not used: an error leaves every other step done.
getStateAfterError(s) ==
    CASE form.step = "error" /\ form.errorAt = s -> "error"
      [] form.step = s -> "active"
      [] form.step \in {"error", "success"} -> "done"
      [] Precedes(s, form.step) -> "done"
      [] OTHER -> "pending"

\* getState: how the list of steps shows one of them.
getState(s) ==
    CASE form.step = "error" /\ form.errorAt = s -> "error"
      [] form.step = s -> "active"
      [] form.step = "success" -> "done"
      [] Precedes(s, IF form.step = "error" THEN form.errorAt ELSE form.step) -> "done"
      [] OTHER -> "pending"

-----------------------------------------------------------------------------
\* The runs.

\* setStep and onTransactionUpdate: the form that is gone hears nothing.
Report(i, r) ==
    /\ run' = [run EXCEPT ![i] = r]
    /\ form' = IF run[i].mounted THEN [form EXCEPT !.step = r.step] ELSE form
    /\ UNCHANGED <<key, generatedSecret, tab, runs>>

fail(i, at) ==
    /\ run' = [run EXCEPT ![i].step = "error",
                          ![i].sponsored = @ \/ at \notin {"building", "signing_sponsor"}]
    /\ form' = IF run[i].mounted
                 THEN [form EXCEPT !.step = "error", !.errorAt = at] ELSE form
    /\ UNCHANGED <<key, generatedSecret, tab, runs>>

\* Faulty variant of Built, not in Next: the sequence number is not loaded.
BuiltUnloaded(i) ==
    /\ run[i].step = "building"
    /\ Report(i, [run[i] EXCEPT !.step = "signing_sponsor"])
    /\ UNCHANGED ledger

\* buildAddTrustlineTransaction, buildCreateAccountTransaction: the account is loaded for
\* its sequence number.
Built(i) ==
    /\ run[i].step = "building"
    /\ seq[run[i].source] > 0
    /\ Report(i, [run[i] EXCEPT !.step = "signing_sponsor",
                                !.seq = seq[run[i].source] + 1])
    /\ UNCHANGED ledger

\* The account does not exist, or Horizon cannot be asked.
NotBuilt(i) ==
    /\ run[i].step = "building"
    /\ fail(i, "building")
    /\ UNCHANGED ledger

SponsorRefuses(i) ==
    /\ run[i].step = "signing_sponsor"
    /\ fail(i, "signing_sponsor")
    /\ UNCHANGED ledger

\* The sponsor's signature arrives; the wallet signs with the keypair that it has now,
\* the new account with its own if the form has its secret; and the transaction is
\* submitted.
Signed(i) ==
    /\ run[i].step = "signing_sponsor"
    /\ key # None
    /\ Report(i, [run[i] EXCEPT !.step = "submitting", !.sponsored = TRUE,
                                !.signer = key])
    /\ sent' = sent \cup {i}
    /\ UNCHANGED <<applied, seq>>

\* Faulty variant of NoWallet, not in Next: the run waits until there is a wallet.
NoWalletWaits(i) ==
    /\ run[i].step = "signing_sponsor"
    /\ key = None
    /\ Report(i, [run[i] EXCEPT !.step = "signing_wallet"])
    /\ UNCHANGED ledger

\* "No keypair loaded": the wallet has been disconnected.
NoWallet(i) ==
    /\ run[i].step = "signing_sponsor"
    /\ key = None
    /\ fail(i, "signing_wallet")
    /\ UNCHANGED ledger

\* Faulty variant of Confirmed, not in Next: the answer of Horizon is not awaited.
ConfirmedUnawaited(i) ==
    /\ run[i].step = "submitting"
    /\ Report(i, [run[i] EXCEPT !.step = "success"])
    /\ UNCHANGED ledger

Confirmed(i) ==
    /\ run[i].step = "submitting"
    /\ i \in applied
    /\ Report(i, [run[i] EXCEPT !.step = "success"])
    /\ UNCHANGED ledger

\* Horizon refuses, or does not answer in time: the transaction may still be applied.
NotConfirmed(i) ==
    /\ run[i].step = "submitting"
    /\ fail(i, "submitting")
    /\ UNCHANGED ledger

-----------------------------------------------------------------------------
\* The network.

\* A transaction needs the signature of its source, and of the account that it creates.
Authorized(r) ==
    /\ r.signer = r.source
    /\ r.kind = "create" => r.signsNew

LedgerApply(i) ==
    /\ i \in sent
    /\ Authorized(run[i])
    /\ run[i].seq = seq[run[i].source] + 1
    /\ applied' = applied \cup {i}
    /\ seq' = [seq EXCEPT ![run[i].source] = @ + 1]
    /\ UNCHANGED <<key, generatedSecret, tab, form, run, runs, sent>>

\* The account of a keypair is created and funded, by Friendbot or by anyone.
AccountCreated(k) ==
    /\ seq[k] = 0
    /\ seq' = [seq EXCEPT ![k] = 1]
    /\ UNCHANGED <<key, generatedSecret, tab, form, run, runs, sent, applied>>

-----------------------------------------------------------------------------

UserStep ==
    \/ \E k \in Keys : handleGenerate(k) \/ handleImport(k)
    \/ disconnect
    \/ \E t \in Tab : SelectTab(t)
    \/ Reload
    \/ generateKeypair \/ Acknowledge \/ EnterPublicKey
    \/ handleSubmit \/ reset

\* What a run awaits: Horizon, the sponsor, and Horizon again.
RunStepOf(i) ==
    \/ Built(i) \/ NotBuilt(i)
    \/ SponsorRefuses(i) \/ Signed(i) \/ NoWallet(i)
    \/ Confirmed(i) \/ NotConfirmed(i)

Next ==
    \/ UserStep
    \/ \E i \in Runs : RunStepOf(i) \/ LedgerApply(i)
    \/ \E k \in Keys : AccountCreated(k)

\* A request is answered, or fails, in the end.
Fairness == \A i \in 1 .. MaxRuns : WF_vars(i \in Runs /\ RunStepOf(i))

Spec == Init /\ [][Next]_vars /\ Fairness

-----------------------------------------------------------------------------

\* "Account created successfully!", "Trustline added successfully!", and "success" in the
\* history: the transaction is in the ledger, signed by the account that it was built
\* for, whichever keypair the wallet has had meanwhile.
SuccessIsOnLedger ==
    /\ \A i \in History : run[i].step = "success" =>
           i \in applied /\ run[i].signer = run[i].source
    /\ form.step = "success" => form.run \in applied

\* A form shows the progress of the submission that it made last, and of no other: not of
\* one that an earlier form made, nor of one before a reset.
FormShowsItsRun ==
    form.step # "configure" =>
        /\ form.run \in Runs
        /\ form.step = run[form.run].step
        /\ run[form.run].kind = tab

\* A step on the list that is ticked off has been done by the submission that the form
\* shows; that the new account has signed is not among them, since the list ticks it off
\* without a secret to sign with.
StepsTickedOffAreDone ==
    form.step # "configure" =>
        LET r == run[form.run]
        IN /\ getState("building") = "done" => r.seq > 0
           /\ getState("signing_sponsor") = "done" => r.sponsored
           /\ getState("signing_wallet") = "done" => r.signer # None
           /\ getState("submitting") = "done" => form.run \in applied

\* A submission comes to an end, also if its form or the wallet has gone.
RunsEnd ==
    \A i \in 1 .. MaxRuns : Running(i) ~> ~Running(i)

\* "Save this secret key": the button that generates a keypair shows its secret.
GeneratedSecretIsShown ==
    [][\A k \in Keys : handleGenerate(k) => SecretOnDisplay(k)']_vars

=============================================================================
