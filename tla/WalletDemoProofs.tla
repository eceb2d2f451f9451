-------------------------- MODULE WalletDemoProofs --------------------------
(***************************************************************************)
(* That what the wallet demo shows is so. Of a submission: a success is in *)
(* the ledger, signed by the account that it was built for; a form shows   *)
(* its own submission and no other; a step that is ticked off is done. Of  *)
(* the account card: an account that was found is never said to be         *)
(* missing, and Friendbot is offered only when that is final. For any      *)
(* number of keypairs, submissions, and loads in flight.                   *)
(*                                                                         *)
(* The inductive invariant of the forms, DemoInv, adds two things to what  *)
(* they show. A run that reports to a form is the run of the form on       *)
(* display, since a form that is reset, changed for the other tab, or lost *)
(* with the wallet has let go of its run or has seen it end                *)
(* (FormIsMounted); this is why an answer to an older run changes nothing  *)
(* on display. And a run has, step by step, what its earlier steps have    *)
(* given it (RunsAreInOrder), also once it has failed, as far as its error *)
(* says that it came (ErrorIsReached).                                     *)
(*                                                                         *)
(* The one of the card, CardInv, bounds the loads in flight as long as the *)
(* account may be missing (OneLoadUntilFound): the offer of Friendbot is   *)
(* the last word of Horizon because nothing else was asked.                *)
(***************************************************************************)
EXTENDS WalletDemo, AccountInfo, TLAPS

-----------------------------------------------------------------------------
\* The forms and their runs.

\* What the steps of a run before its own have given it.
InOrder(i, r) ==
    /\ r.step \notin {"signing_wallet", "signing_new_account"}
    /\ r.step \in {"signing_sponsor", "submitting", "success"} => r.seq > 0
    /\ r.step \in {"submitting", "success"} => r.sponsored /\ r.signer # None
    /\ r.step = "success" => i \in applied

RunsAreInOrder == \A i \in Runs : InOrder(i, run[i])

\* Nothing signs a transaction again once it is sent.
SentRuns ==
    /\ \A i \in sent : run[i].step \in {"submitting", "success", "error", "gone"}
    /\ \A i \in applied : run[i].signer = run[i].source

\* The form on display and the run that reports to it.
FormIsMounted ==
    /\ form.step # "configure" =>
          /\ key # None
          /\ form.run \in Runs
          /\ run[form.run].mounted
          /\ form.step = run[form.run].step
          /\ run[form.run].kind = tab
    /\ \A i \in Runs : run[i].mounted /\ run[i].step \in Live =>
          form.step # "configure" /\ form.run = i

\* An error on display names the step that its run has reached.
Reached(f, r) ==
    f.step = "error" =>
        /\ f.errorAt \in {"building", "signing_sponsor", "signing_wallet", "submitting"}
        /\ f.errorAt # "building" => r.seq > 0
        /\ f.errorAt \in {"signing_wallet", "submitting"} => r.sponsored
        /\ f.errorAt = "submitting" => r.signer # None

ErrorIsReached == Reached(form, run[form.run])

DemoInv == TypeOK /\ RunsAreInOrder /\ SentRuns /\ FormIsMounted /\ ErrorIsReached

LEMMA LiveSteps ==
    Live = {"building", "signing_sponsor", "signing_wallet", "signing_new_account",
            "submitting"}
<1>1. DOMAIN allSteps = {1, 2, 3, 4, 5}
  BY DEF allSteps
<1>2. /\ allSteps[1] = "building" /\ allSteps[2] = "signing_sponsor"
      /\ allSteps[3] = "signing_wallet" /\ allSteps[4] = "signing_new_account"
      /\ allSteps[5] = "submitting"
  BY DEF allSteps
<1> QED BY <1>1, <1>2 DEF Live

LEMMA RunFields ==
    ASSUME NEW r \in Run
    PROVE  /\ r.kind \in Tab /\ r.source \in Keys /\ r.step \in RunStep
           /\ r.mounted \in BOOLEAN /\ r.seq \in Nat /\ r.sponsored \in BOOLEAN
           /\ r.signer \in Keys \cup {None} /\ r.signsNew \in BOOLEAN
BY DEF Run

LEMMA FormFields ==
    ASSUME NEW f \in Form
    PROVE  /\ f.step \in RunStep \cup {"configure"} /\ f.errorAt \in Live \cup {"none"}
           /\ f.run \in Nat /\ f.account \in NewAccount
BY DEF Form

LEMMA EmptyFormFields ==
    /\ EmptyForm \in Form
    /\ EmptyForm.step = "configure" /\ EmptyForm.run = 0
BY DEF EmptyForm, Form, NewAccount

\* A step of a run.
LEMMA RunStepKeeps ==
    ASSUME DemoInv, NEW i \in Runs, run[i].step \in Live, NEW r \in Run, NEW f \in Form,
           UNCHANGED <<key, generatedSecret, tab, runs, applied, seq>>,
           run' = [run EXCEPT ![i] = r],
           form' = IF run[i].mounted THEN f ELSE form,
           sent' = sent \/ sent' = sent \cup {i},
           f.run = form.run, f.step = r.step,
           r.kind = run[i].kind, r.source = run[i].source, r.mounted = run[i].mounted,
           InOrder(i, r), Reached(f, r),
           i \in sent' => /\ r.step \in {"submitting", "success", "error"}
                          /\ r.seq > 0 /\ r.signer # None,
           i \in applied => r.signer = r.source
    PROVE  DemoInv'
<1>1. /\ Runs' = Runs /\ runs \in Nat
      /\ run \in [Runs -> Run]
      /\ sent \subseteq Runs /\ applied \subseteq sent
      /\ form \in Form
  BY DEF DemoInv, TypeOK, Runs
<1>2. /\ run' \in [Runs -> Run]
      /\ run'[i] = r
      /\ \A j \in Runs : j # i => run'[j] = run[j]
  BY <1>1
<1>4. r.step # "configure" /\ r.step \in RunStep
  BY RunFields, LiveSteps DEF RunStep
<1>5. form' \in Form /\ form'.run = form.run
  BY <1>1
<1>6. TypeOK'
  <2>1. \A j \in sent' : run'[j].seq > 0 /\ run'[j].signer # None
    BY <1>1, <1>2 DEF DemoInv, TypeOK
  <2>2. sent' \subseteq Runs /\ applied' \subseteq sent'
    BY <1>1
  <2> QED BY <1>1, <1>2, <1>5, <2>1, <2>2 DEF DemoInv, TypeOK
<1>7. RunsAreInOrder'
  <2>1. \A j \in Runs : InOrder(j, run'[j])
    BY <1>1, <1>2 DEF DemoInv, RunsAreInOrder
  <2> QED BY <1>1, <2>1 DEF RunsAreInOrder, InOrder
<1>8. SentRuns'
  BY <1>1, <1>2 DEF DemoInv, SentRuns
<1>9. FormIsMounted'
  <2>1. CASE run[i].mounted
    <3>1. form.step # "configure" /\ form.run = i /\ form' = f
      BY <2>1 DEF DemoInv, FormIsMounted
    <3>2. \A j \in Runs : run[j].mounted /\ run[j].step \in Live => j = i
      BY <3>1 DEF DemoInv, FormIsMounted
    <3>3. key # None /\ run[i].kind = tab
      BY <3>1 DEF DemoInv, FormIsMounted
    <3> QED BY <1>1, <1>2, <1>4, <2>1, <3>1, <3>2, <3>3 DEF FormIsMounted
  <2>2. CASE ~run[i].mounted
    <3>1. form' = form
      BY <2>2
    <3>2. form.step # "configure" => form.run # i
      BY <2>2 DEF DemoInv, FormIsMounted
    <3> QED BY <1>1, <1>2, <2>2, <3>1, <3>2 DEF DemoInv, FormIsMounted
  <2> QED BY <2>1, <2>2
<1>10. ErrorIsReached'
  <2>1. CASE run[i].mounted
    <3>1. form.run = i /\ form' = f
      BY <2>1 DEF DemoInv, FormIsMounted
    <3>2. Reached(form', run'[form'.run])
      BY <1>2, <3>1
    <3> QED BY <3>2 DEF ErrorIsReached, Reached
  <2>2. CASE ~run[i].mounted
    <3>1. form' = form
      BY <2>2
    <3>2. form.step = "error" => form.run \in Runs /\ form.run # i
      BY <2>2 DEF DemoInv, FormIsMounted
    <3> QED BY <1>2, <3>1, <3>2 DEF DemoInv, ErrorIsReached, Reached
  <2> QED BY <2>1, <2>2
<1> QED BY <1>6, <1>7, <1>8, <1>9, <1>10 DEF DemoInv

\* The runs of a step that only takes forms away.
LEMMA FormsGo ==
    ASSUME DemoInv,
           key' \in Keys \cup {None}, generatedSecret' \in Keys \cup {None}, tab' \in Tab,
           form' = EmptyForm, UNCHANGED <<runs, ledger>>,
           run' \in [Runs -> Run],
           \A i \in Runs : /\ run'[i].source = run[i].source
                           /\ run'[i].seq = run[i].seq
                           /\ run'[i].sponsored = run[i].sponsored
                           /\ run'[i].signer = run[i].signer
                           /\ run'[i].step \in {run[i].step, "gone"}
                           /\ ~(run'[i].mounted /\ run'[i].step \in Live)
    PROVE  DemoInv'
<1>1. /\ Runs' = Runs /\ runs \in Nat
      /\ sent' = sent /\ applied' = applied /\ seq' = seq
      /\ sent \subseteq Runs /\ applied \subseteq sent
  BY DEF DemoInv, TypeOK, Runs, ledger
<1>2. /\ form'.step = "configure" /\ form'.run = 0 /\ form' \in Form
  BY EmptyFormFields
<1>3. TypeOK'
  <2>1. \A j \in sent' : run'[j].seq > 0 /\ run'[j].signer # None
    BY <1>1 DEF DemoInv, TypeOK
  <2> QED BY <1>1, <1>2, <2>1 DEF DemoInv, TypeOK
<1>4. RunsAreInOrder'
  <2>1. \A j \in Runs : InOrder(j, run'[j])
    BY <1>1 DEF DemoInv, RunsAreInOrder, InOrder
  <2> QED BY <1>1, <2>1 DEF RunsAreInOrder, InOrder
<1>5. SentRuns'
  BY <1>1 DEF DemoInv, SentRuns
<1>6. FormIsMounted'
  BY <1>1, <1>2 DEF FormIsMounted
<1>7. ErrorIsReached'
  BY <1>2 DEF ErrorIsReached, Reached
<1> QED BY <1>3, <1>4, <1>5, <1>6, <1>7 DEF DemoInv

\* A form in its configuration, and one that has ended, has no run that reports to it.
LEMMA NothingReports ==
    ASSUME DemoInv, form.step \notin Live
    PROVE  \A i \in Runs : ~(run[i].mounted /\ run[i].step \in Live)
BY DEF DemoInv, FormIsMounted

LEMMA UnmountedRuns ==
    ASSUME DemoInv
    PROVE  /\ Unmounted \in [Runs -> Run]
           /\ \A i \in Runs : /\ Unmounted[i].source = run[i].source
                              /\ Unmounted[i].seq = run[i].seq
                              /\ Unmounted[i].sponsored = run[i].sponsored
                              /\ Unmounted[i].signer = run[i].signer
                              /\ Unmounted[i].step = run[i].step
                              /\ ~Unmounted[i].mounted
<1>1. \A i \in Runs : run[i] \in Run
  BY DEF DemoInv, TypeOK
<1>2. ASSUME NEW i \in Runs
      PROVE  /\ [run[i] EXCEPT !.mounted = FALSE] \in Run
             /\ Unmounted[i] = [run[i] EXCEPT !.mounted = FALSE]
  BY <1>1 DEF Run, Unmounted
<1>3. Unmounted \in [Runs -> Run]
  BY <1>2 DEF Unmounted
<1>4. ASSUME NEW i \in Runs
      PROVE  /\ Unmounted[i].source = run[i].source
             /\ Unmounted[i].seq = run[i].seq
             /\ Unmounted[i].sponsored = run[i].sponsored
             /\ Unmounted[i].signer = run[i].signer
             /\ Unmounted[i].step = run[i].step
             /\ ~Unmounted[i].mounted
  BY <1>1, <1>2 DEF Run
<1> QED BY <1>3, <1>4

LEMMA ConnectKeeps ==
    ASSUME DemoInv, NEW k \in Keys, Connect(k), generatedSecret' \in Keys \cup {None}
    PROVE  DemoInv'
<1>1. form.step = "configure"
  BY DEF DemoInv, FormIsMounted, Connect
<1>2. \A i \in Runs : ~(run[i].mounted /\ run[i].step \in Live)
  BY <1>1, LiveSteps, NothingReports
<1>3. run \in [Runs -> Run]
  BY DEF DemoInv, TypeOK
<1> QED BY <1>2, <1>3, FormsGo DEF Connect, Tab

LEMMA WalletKeeps ==
    ASSUME DemoInv,
           \/ \E k \in Keys : handleGenerate(k) \/ handleImport(k)
           \/ disconnect
           \/ \E t \in Tab : SelectTab(t)
           \/ Reload
    PROVE  DemoInv'
<1>1. ASSUME NEW k \in Keys, handleGenerate(k) \/ handleImport(k)
      PROVE  DemoInv'
  <2>1. Connect(k)
    BY <1>1 DEF handleGenerate, handleImport
  <2>2. generatedSecret' \in Keys \cup {None}
    BY <1>1 DEF handleGenerate, handleImport, SecretAfterRender, DemoInv, TypeOK
  <2> QED BY <2>1, <2>2, ConnectKeeps
<1>2. CASE disconnect
  <2>1. /\ key' \in Keys \cup {None} /\ generatedSecret' \in Keys \cup {None}
        /\ tab' \in Tab /\ form' = EmptyForm /\ run' = Unmounted
        /\ UNCHANGED <<runs, ledger>>
    BY <1>2 DEF disconnect, DemoInv, TypeOK
  <2> QED BY <2>1, UnmountedRuns, FormsGo
<1>3. ASSUME NEW t \in Tab, SelectTab(t)
      PROVE  DemoInv'
  <2>1. /\ key' \in Keys \cup {None} /\ generatedSecret' \in Keys \cup {None}
        /\ tab' \in Tab /\ form' = EmptyForm /\ run' = Unmounted
        /\ UNCHANGED <<runs, ledger>>
    BY <1>3 DEF SelectTab, DemoInv, TypeOK
  <2> QED BY <2>1, UnmountedRuns, FormsGo
<1>4. CASE Reload
  <2>1. \A i \in Runs : run[i] \in Run
    BY DEF DemoInv, TypeOK
  <2>2. ASSUME NEW i \in Runs
        PROVE  /\ run'[i] = [run[i] EXCEPT !.mounted = FALSE, !.step = "gone"]
               /\ run'[i] \in Run
    BY <1>4, <2>1 DEF Reload, Run, RunStep
  <2>3. run' \in [Runs -> Run]
    BY <1>4, <2>2 DEF Reload
  <2>4. ASSUME NEW i \in Runs
        PROVE  /\ run'[i].source = run[i].source
               /\ run'[i].seq = run[i].seq
               /\ run'[i].sponsored = run[i].sponsored
               /\ run'[i].signer = run[i].signer
               /\ run'[i].step = "gone" /\ ~run'[i].mounted
    BY <2>1, <2>2 DEF Run
  <2>5. /\ key' \in Keys \cup {None} /\ generatedSecret' \in Keys \cup {None}
        /\ tab' \in Tab /\ form' = EmptyForm
        /\ UNCHANGED <<runs, ledger>>
    BY <1>4 DEF Reload, Tab
  <2> QED BY <2>3, <2>4, <2>5, FormsGo
<1> QED BY <1>1, <1>2, <1>3, <1>4

\* The new account of a form that is being filled in.
LEMMA AccountKeeps ==
    ASSUME DemoInv, generateKeypair \/ Acknowledge \/ EnterPublicKey
    PROVE  DemoInv'
<1>1. /\ UNCHANGED <<key, generatedSecret, tab, run, runs, sent, applied, seq>>
      /\ form.step = "configure"
      /\ \E a \in NewAccount : form' = [form EXCEPT !.account = a]
  BY DEF generateKeypair, Acknowledge, EnterPublicKey, Configuring, NewAccount, ledger
<1>2. /\ form' \in Form /\ form'.step = "configure" /\ form'.run = form.run
  BY <1>1 DEF DemoInv, TypeOK, Form
<1>3. Runs' = Runs
  BY <1>1 DEF Runs
<1>4. \A i \in Runs : ~(run[i].mounted /\ run[i].step \in Live)
  BY <1>1, LiveSteps, NothingReports
<1>5. TypeOK'
  BY <1>1, <1>2, <1>3 DEF DemoInv, TypeOK
<1>6. RunsAreInOrder'
  BY <1>1, <1>3 DEF DemoInv, RunsAreInOrder, InOrder
<1>7. SentRuns'
  BY <1>1 DEF DemoInv, SentRuns
<1>8. FormIsMounted' /\ ErrorIsReached'
  BY <1>1, <1>2, <1>3, <1>4 DEF FormIsMounted, ErrorIsReached, Reached
<1> QED BY <1>5, <1>6, <1>7, <1>8 DEF DemoInv

LEMMA SubmitKeeps ==
    ASSUME DemoInv, handleSubmit
    PROVE  DemoInv'
<1> DEFINE n == runs + 1
           r == [kind |-> tab, source |-> key, signsNew |-> form.account = "saved",
                 step |-> "building", mounted |-> TRUE, seq |-> 0, sponsored |-> FALSE,
                 signer |-> None]
<1>1. /\ runs \in Nat /\ Runs' = Runs \cup {n} /\ n \notin Runs
      /\ runs' = n /\ n \in Nat
      /\ \A j \in Runs : j \in Nat /\ j <= n
  BY DEF DemoInv, TypeOK, Runs, handleSubmit
<1>2. r \in Run
  BY DEF DemoInv, TypeOK, Run, RunStep, Live, allSteps, handleSubmit, OffersSubmit,
         Configuring
<1>3. /\ run' \in [Runs' -> Run]
      /\ run'[n] = r
      /\ \A j \in Runs : run'[j] = run[j]
  BY <1>1, <1>2 DEF DemoInv, TypeOK, Runs, handleSubmit
<1>4. /\ r.kind = tab /\ r.step = "building" /\ r.mounted /\ r.seq = 0
  OBVIOUS
<1> HIDE DEF r, n
<1>5. /\ form' \in Form /\ form'.step = "building" /\ form'.run = n
  BY <1>1, LiveSteps DEF DemoInv, TypeOK, Form, RunStep, handleSubmit, n
<1>6. /\ UNCHANGED <<key, generatedSecret, tab, sent, applied, seq>>
      /\ sent \subseteq Runs /\ applied \subseteq sent
      /\ key # None /\ form.step = "configure"
  BY DEF DemoInv, TypeOK, handleSubmit, ledger, OffersSubmit, Configuring
<1>7. \A i \in Runs : ~(run[i].mounted /\ run[i].step \in Live)
  BY <1>6, LiveSteps, NothingReports
<1>8. TypeOK'
  <2>1. \A j \in sent' : run'[j].seq > 0 /\ run'[j].signer # None
    BY <1>3, <1>6 DEF DemoInv, TypeOK
  <2> QED BY <1>1, <1>3, <1>5, <1>6, <2>1 DEF DemoInv, TypeOK
<1>9. RunsAreInOrder'
  <2>1. \A j \in Runs' : InOrder(j, run'[j])
    BY <1>1, <1>3, <1>4 DEF DemoInv, RunsAreInOrder, InOrder
  <2> QED BY <1>6, <2>1 DEF RunsAreInOrder, InOrder
<1>10. SentRuns'
  BY <1>3, <1>6 DEF DemoInv, SentRuns
<1>11. FormIsMounted'
  BY <1>1, <1>3, <1>4, <1>5, <1>6, <1>7 DEF FormIsMounted
<1>12. ErrorIsReached'
  BY <1>5 DEF ErrorIsReached, Reached
<1> QED BY <1>8, <1>9, <1>10, <1>11, <1>12 DEF DemoInv

LEMMA ResetKeeps ==
    ASSUME DemoInv, reset
    PROVE  DemoInv'
<1>1. form.step \notin Live
  BY LiveSteps DEF reset, OffersReset
<1>2. \A i \in Runs : ~(run[i].mounted /\ run[i].step \in Live)
  BY <1>1, NothingReports
<1>3. /\ key' \in Keys \cup {None} /\ generatedSecret' \in Keys \cup {None}
      /\ tab' \in Tab /\ form' = EmptyForm /\ run' = run
      /\ UNCHANGED <<runs, ledger>>
      /\ run \in [Runs -> Run]
  BY DEF reset, DemoInv, TypeOK
<1> QED BY <1>2, <1>3, FormsGo

\* What a run reports.
LEMMA ReportKeeps ==
    ASSUME DemoInv, NEW i \in Runs, run[i].step \in Live, NEW r \in Run, Report(i, r),
           UNCHANGED <<applied, seq>>, sent' = sent \/ sent' = sent \cup {i},
           r.kind = run[i].kind, r.source = run[i].source, r.mounted = run[i].mounted,
           r.step # "error", InOrder(i, r),
           i \in sent' => /\ r.step \in {"submitting", "success"}
                          /\ r.seq > 0 /\ r.signer # None,
           i \in applied => r.signer = r.source
    PROVE  DemoInv'
<1> DEFINE f == [form EXCEPT !.step = r.step]
<1>1. form \in Form
  BY DEF DemoInv, TypeOK
<1>2. f \in Form /\ f.run = form.run /\ f.step = r.step
  BY <1>1, RunFields DEF Form
<1>3. /\ UNCHANGED <<key, generatedSecret, tab, runs, applied, seq>>
      /\ run' = [run EXCEPT ![i] = r]
      /\ form' = IF run[i].mounted THEN f ELSE form
  BY DEF Report
<1> HIDE DEF f
<1>4. Reached(f, r)
  BY <1>2 DEF Reached
<1> QED BY <1>2, <1>3, <1>4, RunStepKeeps

\* What a run that fails leaves.
LEMMA FailKeeps ==
    ASSUME DemoInv, NEW i \in Runs, run[i].step \in Live,
           NEW at \in {"building", "signing_sponsor", "signing_wallet", "submitting"},
           fail(i, at), UNCHANGED <<sent, applied, seq>>,
           at # "building" => run[i].seq > 0,
           at = "submitting" => run[i].signer # None,
           i \in sent => at = "submitting"
    PROVE  DemoInv'
<1> DEFINE r == [run[i] EXCEPT !.step = "error",
                               !.sponsored = @ \/ at \notin {"building", "signing_sponsor"}]
           f == [form EXCEPT !.step = "error", !.errorAt = at]
<1>1. form \in Form /\ run[i] \in Run /\ run \in [Runs -> Run]
  BY DEF DemoInv, TypeOK
<1>2. /\ f \in Form /\ f.run = form.run /\ f.step = "error" /\ f.errorAt = at
  BY <1>1, LiveSteps DEF Form, RunStep
<1>3. /\ r \in Run
      /\ r.kind = run[i].kind /\ r.source = run[i].source /\ r.mounted = run[i].mounted
      /\ r.step = "error" /\ r.seq = run[i].seq /\ r.signer = run[i].signer
  BY <1>1 DEF Run, RunStep
<1>4. at \notin {"building", "signing_sponsor"} => r.sponsored
  BY <1>1 DEF Run
<1>5. run' = [run EXCEPT ![i] = r]
  BY <1>1 DEF fail
<1>6. /\ UNCHANGED <<key, generatedSecret, tab, runs, applied, seq>>
      /\ form' = IF run[i].mounted THEN f ELSE form
      /\ sent' = sent
  BY DEF fail
<1> HIDE DEF r, f
<1>7. InOrder(i, r) /\ Reached(f, r)
  BY <1>2, <1>3, <1>4 DEF InOrder, Reached
<1>8. i \in sent => r.seq > 0 /\ r.signer # None
  BY <1>3 DEF DemoInv, TypeOK
<1>9. i \in applied => i \in sent /\ r.signer = r.source
  BY <1>3 DEF DemoInv, TypeOK, SentRuns
<1> QED BY <1>2, <1>3, <1>5, <1>6, <1>7, <1>8, <1>9, RunStepKeeps

\* The answers that a run awaits.
LEMMA RunKeeps ==
    ASSUME DemoInv, NEW i \in Runs, RunStepOf(i)
    PROVE  DemoInv'
<1>1. /\ run[i] \in Run /\ key \in Keys \cup {None}
      /\ i \in sent => run[i].step \in {"submitting", "success", "error", "gone"}
                       /\ run[i].seq > 0 /\ run[i].signer # None
      /\ i \in applied => i \in sent /\ run[i].signer = run[i].source
      /\ InOrder(i, run[i])
  BY DEF DemoInv, TypeOK, SentRuns, RunsAreInOrder
<1>2. seq[run[i].source] \in Nat
  BY <1>1, RunFields DEF DemoInv, TypeOK
<1>3. CASE Built(i)
  <2> DEFINE n == seq[run[i].source] + 1
             r == [run[i] EXCEPT !.step = "signing_sponsor", !.seq = n]
  <2>0. n \in Nat /\ n > 0
    BY <1>2
  <2>1. /\ run[i].step = "building" /\ Report(i, r) /\ UNCHANGED <<sent, applied, seq>>
    BY <1>3 DEF Built, ledger
  <2>2. /\ r \in Run
        /\ r.kind = run[i].kind /\ r.source = run[i].source /\ r.mounted = run[i].mounted
        /\ r.step = "signing_sponsor" /\ r.seq > 0
    <3> HIDE DEF n
    <3>1. r.seq = n
      BY <1>1 DEF Run
    <3>2. r \in Run
      BY <1>1, <2>0, LiveSteps DEF Run, RunStep
    <3>3. /\ r.kind = run[i].kind /\ r.source = run[i].source
          /\ r.mounted = run[i].mounted /\ r.step = "signing_sponsor"
      BY <1>1 DEF Run
    <3> QED BY <2>0, <3>1, <3>2, <3>3
  <2> HIDE DEF r
  <2>3. i \notin sent /\ i \notin applied
    BY <1>1, <2>1
  <2>4. InOrder(i, r)
    BY <2>2 DEF InOrder
  <2> QED BY <2>1, <2>2, <2>3, <2>4, LiveSteps, ReportKeeps
<1>4. CASE NotBuilt(i)
  <2>1. /\ run[i].step = "building" /\ fail(i, "building")
        /\ UNCHANGED <<sent, applied, seq>>
    BY <1>4 DEF NotBuilt, ledger
  <2>2. i \notin sent
    BY <1>1, <2>1
  <2> QED BY <2>1, <2>2, LiveSteps, FailKeeps
<1>5. CASE SponsorRefuses(i)
  <2>1. /\ run[i].step = "signing_sponsor" /\ fail(i, "signing_sponsor")
        /\ UNCHANGED <<sent, applied, seq>>
    BY <1>5 DEF SponsorRefuses, ledger
  <2>2. i \notin sent /\ run[i].seq > 0
    BY <1>1, <2>1 DEF InOrder
  <2> QED BY <2>1, <2>2, LiveSteps, FailKeeps
<1>6. CASE Signed(i)
  <2> DEFINE r == [run[i] EXCEPT !.step = "submitting", !.sponsored = TRUE,
                                 !.signer = key]
  <2>1. /\ run[i].step = "signing_sponsor" /\ key # None /\ Report(i, r)
        /\ sent' = sent \cup {i} /\ UNCHANGED <<applied, seq>>
    BY <1>6 DEF Signed
  <2>2. /\ r \in Run
        /\ r.kind = run[i].kind /\ r.source = run[i].source /\ r.mounted = run[i].mounted
        /\ r.step = "submitting" /\ r.seq = run[i].seq /\ r.sponsored /\ r.signer = key
    BY <1>1, <2>1, LiveSteps DEF Run, RunStep
  <2> HIDE DEF r
  <2>3. i \notin applied /\ run[i].seq > 0
    BY <1>1, <2>1 DEF InOrder
  <2>4. InOrder(i, r)
    BY <2>1, <2>2, <2>3 DEF InOrder
  <2> QED BY <2>1, <2>2, <2>3, <2>4, LiveSteps, ReportKeeps
<1>7. CASE NoWallet(i)
  <2>1. /\ run[i].step = "signing_sponsor" /\ fail(i, "signing_wallet")
        /\ UNCHANGED <<sent, applied, seq>>
    BY <1>7 DEF NoWallet, ledger
  <2>2. i \notin sent /\ run[i].seq > 0
    BY <1>1, <2>1 DEF InOrder
  <2> QED BY <2>1, <2>2, LiveSteps, FailKeeps
<1>8. CASE Confirmed(i)
  <2> DEFINE r == [run[i] EXCEPT !.step = "success"]
  <2>1. /\ run[i].step = "submitting" /\ i \in applied /\ Report(i, r)
        /\ UNCHANGED <<sent, applied, seq>>
    BY <1>8 DEF Confirmed, ledger
  <2>2. /\ r \in Run
        /\ r.kind = run[i].kind /\ r.source = run[i].source /\ r.mounted = run[i].mounted
        /\ r.step = "success" /\ r.seq = run[i].seq /\ r.signer = run[i].signer
        /\ r.sponsored = run[i].sponsored
    BY <1>1, LiveSteps DEF Run, RunStep
  <2> HIDE DEF r
  <2>3. InOrder(i, r)
    BY <1>1, <2>1, <2>2 DEF InOrder
  <2> QED BY <1>1, <2>1, <2>2, <2>3, LiveSteps, ReportKeeps
<1>9. CASE NotConfirmed(i)
  <2>1. /\ run[i].step = "submitting" /\ fail(i, "submitting")
        /\ UNCHANGED <<sent, applied, seq>>
    BY <1>9 DEF NotConfirmed, ledger
  <2>2. run[i].seq > 0 /\ run[i].signer # None
    BY <1>1, <2>1 DEF InOrder
  <2> QED BY <2>1, <2>2, LiveSteps, FailKeeps
<1> QED BY <1>3, <1>4, <1>5, <1>6, <1>7, <1>8, <1>9 DEF RunStepOf

\* The page does not see the network.
LEMMA NetworkKeeps ==
    ASSUME DemoInv,
           \/ \E i \in Runs : LedgerApply(i)
           \/ \E k \in Keys : AccountCreated(k)
    PROVE  DemoInv'
<1>1. /\ UNCHANGED <<key, generatedSecret, tab, form, run, runs, sent>>
      /\ Runs' = Runs /\ applied \subseteq applied'
  BY DEF LedgerApply, AccountCreated, Runs
<1>2. applied' \subseteq sent /\ \A i \in applied' : run[i].signer = run[i].source
  BY DEF LedgerApply, AccountCreated, Authorized, DemoInv, TypeOK, SentRuns
<1>3. seq' \in [Keys -> Nat]
  <2>1. seq \in [Keys -> Nat]
    BY DEF DemoInv, TypeOK
  <2>2. ASSUME NEW i \in Runs, LedgerApply(i)
        PROVE  seq' \in [Keys -> Nat]
    <3>1. seq[run[i].source] + 1 \in Nat
      BY <2>1, RunFields DEF DemoInv, TypeOK
    <3> QED BY <2>1, <2>2, <3>1 DEF LedgerApply
  <2>3. ASSUME NEW k \in Keys, AccountCreated(k)
        PROVE  seq' \in [Keys -> Nat]
    BY <2>1, <2>3 DEF AccountCreated
  <2> QED BY <2>2, <2>3
<1>4. TypeOK'
  BY <1>1, <1>2, <1>3 DEF DemoInv, TypeOK
<1>5. RunsAreInOrder' /\ SentRuns'
  BY <1>1, <1>2 DEF DemoInv, RunsAreInOrder, InOrder, SentRuns
<1>6. FormIsMounted' /\ ErrorIsReached'
  BY <1>1 DEF DemoInv, FormIsMounted, ErrorIsReached, Reached
<1> QED BY <1>4, <1>5, <1>6 DEF DemoInv

LEMMA DemoInitial == Init => DemoInv
<1> SUFFICES ASSUME Init PROVE DemoInv
  OBVIOUS
<1>1. Runs = {} /\ runs = 0
  BY DEF Init, Runs
<1>2. run \in [Runs -> Run]
  BY <1>1 DEF Init
<1>3. seq \in [Keys -> Nat]
  BY DEF Init
<1>4. TypeOK
  BY <1>1, <1>2, <1>3, EmptyFormFields DEF Init, TypeOK, Tab
<1> QED BY <1>1, <1>4, EmptyFormFields
        DEF Init, DemoInv, RunsAreInOrder, SentRuns, FormIsMounted, ErrorIsReached, Reached

LEMMA DemoStep == DemoInv /\ [Next]_vars => DemoInv'
<1> SUFFICES ASSUME DemoInv, [Next]_vars PROVE DemoInv'
  OBVIOUS
<1>1. CASE UserStep
  BY <1>1, WalletKeeps, AccountKeeps, SubmitKeeps, ResetKeeps DEF UserStep
<1>2. ASSUME NEW i \in Runs, RunStepOf(i) \/ LedgerApply(i) PROVE DemoInv'
  BY <1>2, RunKeeps, NetworkKeeps
<1>3. ASSUME NEW k \in Keys, AccountCreated(k) PROVE DemoInv'
  BY <1>3, NetworkKeeps
<1>4. CASE UNCHANGED vars
  BY <1>4 DEF vars, DemoInv, TypeOK, RunsAreInOrder, InOrder, SentRuns,
              FormIsMounted, ErrorIsReached, Reached, Runs
<1> QED BY <1>1, <1>2, <1>3, <1>4 DEF Next

LEMMA DemoInvariance == Spec => []DemoInv
BY DemoInitial, DemoStep, PTL DEF Spec

\* The wallet, the forms, the runs and the ledger keep their types; what was sent has a
\* sequence number and a signer.
THEOREM TypeCorrect == Spec => []TypeOK
<1>1. DemoInv => TypeOK
  BY DEF DemoInv
<1> QED BY <1>1, DemoInvariance, PTL

\* A success, in the form or in the history of the page, is in the ledger and signed by
\* its source, whichever keypair the wallet has had meanwhile (add-trustline-form.tsx,
\* create-account-form.tsx, handleSubmit).
THEOREM SuccessIsReal == Spec => []SuccessIsOnLedger
<1>1. DemoInv => SuccessIsOnLedger
  BY DEF DemoInv, RunsAreInOrder, InOrder, SentRuns, FormIsMounted, SuccessIsOnLedger,
         History
<1> QED BY <1>1, DemoInvariance, PTL

\* Runs of forms that are gone, or were reset, do not show in the form on display
\* (setStep and onTransactionUpdate in handleSubmit; page.tsx of the wallet demo).
THEOREM FormsShowTheirRuns == Spec => []FormShowsItsRun
<1>1. DemoInv => FormShowsItsRun
  BY DEF DemoInv, FormIsMounted, FormShowsItsRun
<1> QED BY <1>1, DemoInvariance, PTL

LEMMA AllSteps ==
    /\ DOMAIN allSteps = {1, 2, 3, 4, 5}
    /\ allSteps[1] = "building" /\ allSteps[2] = "signing_sponsor"
    /\ allSteps[3] = "signing_wallet" /\ allSteps[4] = "signing_new_account"
    /\ allSteps[5] = "submitting"
BY DEF allSteps

\* A step comes before the ones after it.
LEMMA PrecedesNot ==
    /\ \A s : ~Precedes("submitting", s)
    /\ \A s : Precedes("signing_wallet", s) => s \in {"signing_new_account", "submitting"}
    /\ \A s : Precedes("signing_sponsor", s) =>
           s \in {"signing_wallet", "signing_new_account", "submitting"}
    /\ \A s : Precedes("building", s) =>
           s \in {"signing_sponsor", "signing_wallet", "signing_new_account", "submitting"}
BY AllSteps DEF Precedes

\* The list of steps ticks nothing off that the submission has not done, also beside an
\* error (transaction-status.tsx, getState).
THEOREM TickedStepsAreDone == Spec => []StepsTickedOffAreDone
<1>1. ASSUME DemoInv, form.step # "configure"
      PROVE  /\ getState("building") = "done" => run[form.run].seq > 0
             /\ getState("signing_sponsor") = "done" => run[form.run].sponsored
             /\ getState("signing_wallet") = "done" => run[form.run].signer # None
             /\ getState("submitting") = "done" => form.run \in applied
  <2> DEFINE r == run[form.run]
             shown == IF form.step = "error" THEN form.errorAt ELSE form.step
  <2>1. /\ form.run \in Runs /\ r.step = form.step /\ InOrder(form.run, r)
        /\ Reached(form, r)
    BY <1>1 DEF DemoInv, FormIsMounted, RunsAreInOrder, ErrorIsReached
  <2>2. ASSUME NEW s, getState(s) = "done"
        PROVE  form.step = "success" \/ Precedes(s, shown)
    BY <2>2 DEF getState
  <2> HIDE DEF r
  <2>3. /\ form.step = "success" => /\ r.seq > 0 /\ r.sponsored /\ r.signer # None
                                    /\ form.run \in applied
        /\ form.step \notin {"signing_wallet", "signing_new_account"}
        /\ form.step = "signing_sponsor" => r.seq > 0
        /\ form.step = "submitting" => r.seq > 0 /\ r.sponsored /\ r.signer # None
    BY <2>1 DEF InOrder
  <2>4. getState("building") = "done" => r.seq > 0
    BY <2>1, <2>2, <2>3, PrecedesNot DEF Reached
  <2>5. getState("signing_sponsor") = "done" => r.sponsored
    BY <2>1, <2>2, <2>3, PrecedesNot DEF Reached
  <2>6. getState("signing_wallet") = "done" => r.signer # None
    BY <2>1, <2>2, <2>3, PrecedesNot DEF Reached
  <2>7. getState("submitting") = "done" => form.run \in applied
    BY <2>2, <2>3, PrecedesNot
  <2> QED BY <2>4, <2>5, <2>6, <2>7 DEF r
<1>2. DemoInv => StepsTickedOffAreDone
  BY <1>1 DEF StepsTickedOffAreDone
<1> QED BY <1>2, DemoInvariance, PTL

-----------------------------------------------------------------------------
\* The card of the account.

\* While Horizon's last word is that the account is missing, or Friendbot is asked, no
\* load is in flight; and none overlaps a load that is to say so.
OneLoadUntilFound ==
    /\ notFound \/ funding => InFlight = {} /\ ~data
    /\ \A i \in Loads : load[i] = "missing" => InFlight = {i} /\ ~data
    /\ ~exists => \A i, j \in InFlight : i = j

CardInv == CardTypeOK /\ OneLoadUntilFound

LEMMA CardInitial == CardInit => CardInv
<1> SUFFICES ASSUME CardInit PROVE CardInv
  OBVIOUS
<1>1. PICK i \in Loads : load = [j \in Loads |-> IF j = i THEN "asked" ELSE "none"]
  BY DEF CardInit
<1>2. CardTypeOK
  BY <1>1 DEF CardInit, CardTypeOK, Phase
<1>3. InFlight = {i}
  BY <1>1 DEF InFlight
<1> QED BY <1>1, <1>2, <1>3 DEF CardInit, CardInv, OneLoadUntilFound

\* A load begins that finds the account.
LEMMA LoadBegins ==
    ASSUME CardInv, NEW i \in Loads, loadAccount(i), exists, exists' = exists,
           funding' = FALSE \/ (data /\ funding' = funding),
           \A j \in Loads : load[j] # "missing"
    PROVE  CardInv'
<1>1. /\ load \in [Loads -> Phase]
      /\ load' = [load EXCEPT ![i] = "asked"]
      /\ loading' = TRUE /\ error' = FALSE /\ notFound' = FALSE /\ data' = data
      /\ {exists, data, funding} \subseteq BOOLEAN
  BY DEF loadAccount, CardInv, CardTypeOK
<1>2. load' \in [Loads -> Phase] /\ \A j \in Loads : load'[j] # "missing"
  BY <1>1 DEF Phase
<1>3. funding' = FALSE
  BY DEF CardInv, CardTypeOK, OneLoadUntilFound
<1>4. CardTypeOK'
  BY <1>1, <1>2, <1>3 DEF CardTypeOK
<1>5. OneLoadUntilFound'
  BY <1>1, <1>2, <1>3 DEF OneLoadUntilFound
<1> QED BY <1>4, <1>5 DEF CardInv

\* A load ends.
LEMMA LoadEnded ==
    ASSUME CardInv, NEW i \in Loads, LoadEnds(i)
    PROVE  CardInv'
<1>1. /\ load \in [Loads -> Phase]
      /\ load[i] # "none"
      /\ load' = [load EXCEPT ![i] = "none"]
      /\ loading' = FALSE
      /\ UNCHANGED <<exists, funding>>
      /\ {exists, data, loading, notFound, error, funding} \subseteq BOOLEAN
      /\ data \/ (\E j \in Loads : load[j] = "found") => exists
  BY DEF LoadEnds, Found, Missing, LoadFails, Ends, CardInv, CardTypeOK
<1>2. /\ load' \in [Loads -> Phase]
      /\ InFlight' = InFlight \ {i}
      /\ i \in InFlight
      /\ \A j \in Loads : load'[j] # "none" => load'[j] = load[j]
  BY <1>1 DEF Phase, InFlight
<1>3. ~notFound /\ ~funding
  BY <1>2 DEF CardInv, OneLoadUntilFound
<1>4. /\ \A j \in Loads : load[j] = "missing" => InFlight = {j} /\ ~data
      /\ ~exists => \A j, k \in InFlight : j = k
  BY DEF CardInv, OneLoadUntilFound
<1>5. ~exists' => \A j, k \in InFlight' : j = k
  BY <1>1, <1>2, <1>4
<1>6. \A j \in Loads : load'[j] # "missing"
  <2> SUFFICES ASSUME NEW j \in Loads, load'[j] = "missing" PROVE FALSE
    OBVIOUS
  <2>1. load[j] = "missing" /\ j # i
    BY <1>1, <1>2
  <2> QED BY <1>2, <1>4, <2>1
<1>7. CASE Found(i)
  <2>1. data' = TRUE /\ notFound' = FALSE /\ error' = error /\ exists
    BY <1>1, <1>7 DEF Found
  <2>2. CardTypeOK'
    BY <1>1, <1>2, <2>1 DEF CardTypeOK
  <2>3. OneLoadUntilFound'
    BY <1>1, <1>3, <1>5, <1>6, <2>1 DEF OneLoadUntilFound
  <2> QED BY <2>2, <2>3 DEF CardInv
<1>8. CASE Missing(i)
  <2>1. load[i] = "missing" /\ notFound' = TRUE /\ data' = data /\ error' = error
    BY <1>8 DEF Missing
  <2>2. InFlight' = {} /\ ~data'
    BY <1>2, <1>4, <2>1
  <2>3. CardTypeOK'
    BY <1>1, <1>2, <2>1 DEF CardTypeOK
  <2>4. OneLoadUntilFound'
    BY <1>5, <1>6, <2>2 DEF OneLoadUntilFound
  <2> QED BY <2>3, <2>4 DEF CardInv
<1>9. CASE LoadFails(i)
  <2>1. error' = TRUE /\ data' = data /\ notFound' = notFound
    BY <1>9 DEF LoadFails
  <2>2. CardTypeOK'
    BY <1>1, <1>2, <2>1 DEF CardTypeOK
  <2>3. OneLoadUntilFound'
    BY <1>1, <1>3, <1>5, <1>6, <2>1 DEF OneLoadUntilFound
  <2> QED BY <2>2, <2>3 DEF CardInv
<1> QED BY <1>7, <1>8, <1>9 DEF LoadEnds

LEMMA CardStep == CardInv /\ [CardNext]_cardVars => CardInv'
<1> SUFFICES ASSUME CardInv, [CardNext]_cardVars PROVE CardInv'
  OBVIOUS
<1>0. /\ load \in [Loads -> Phase]
      /\ {exists, data, loading, notFound, error, funding} \subseteq BOOLEAN
      /\ data \/ (\E j \in Loads : load[j] = "found") => exists
      /\ notFound \/ funding => InFlight = {} /\ ~data
      /\ \A i \in Loads : load[i] = "missing" => InFlight = {i} /\ ~data
      /\ ~exists => \A i, j \in InFlight : i = j
  BY DEF CardInv, CardTypeOK, OneLoadUntilFound
<1>1. ASSUME NEW i \in Loads, Answer(i) PROVE CardInv'
  <2>1. /\ load[i] = "asked"
        /\ load' = [load EXCEPT ![i] = IF exists THEN "found" ELSE "missing"]
        /\ UNCHANGED <<exists, data, loading, notFound, error, funding>>
    BY <1>1 DEF Answer, card
  <2>2. /\ load' \in [Loads -> Phase]
        /\ InFlight' = InFlight
        /\ i \in InFlight
        /\ \A j \in Loads : j # i => load'[j] = load[j]
        /\ exists => load'[i] = "found"
        /\ ~exists => load'[i] = "missing"
    BY <1>0, <2>1 DEF Phase, InFlight
  <2>3. ~exists => InFlight = {i} /\ ~data
    BY <1>0, <2>2
  <2>4. CardTypeOK'
    BY <1>0, <2>1, <2>2 DEF CardTypeOK
  <2>5. \A j \in Loads : load'[j] = "missing" => InFlight' = {j} /\ ~data'
    <3> SUFFICES ASSUME NEW j \in Loads, load'[j] = "missing"
                 PROVE  InFlight' = {j} /\ ~data'
      OBVIOUS
    <3>1. CASE j = i
      BY <2>1, <2>2, <2>3, <3>1
    <3>2. CASE j # i
      BY <1>0, <2>1, <2>2, <3>2
    <3> QED BY <3>1, <3>2
  <2>6. OneLoadUntilFound'
    BY <1>0, <2>1, <2>2, <2>5 DEF OneLoadUntilFound
  <2> QED BY <2>4, <2>6 DEF CardInv
<1>2. ASSUME NEW i \in Loads, LoadEnds(i) PROVE CardInv'
  BY <1>2, LoadEnded
<1>3. ASSUME NEW i \in Loads, Refresh(i) PROVE CardInv'
  <2>1. data /\ loadAccount(i) /\ exists' = exists /\ funding' = funding
    BY <1>3 DEF Refresh, OffersRefresh
  <2>2. exists /\ \A j \in Loads : load[j] # "missing"
    BY <1>0, <2>1
  <2> QED BY <2>1, <2>2, LoadBegins
<1>4. ASSUME NEW i \in Loads, Funded(i) PROVE CardInv'
  <2>1. funding /\ exists /\ loadAccount(i) /\ funding' = FALSE /\ exists' = exists
    BY <1>4 DEF Funded
  <2>2. \A j \in Loads : load[j] # "missing"
    BY <1>0, <2>1
  <2> QED BY <2>1, <2>2, LoadBegins
<1>5. CASE handleFundWithFriendbot
  <2>1. /\ notFound /\ funding' = TRUE /\ error' = FALSE
        /\ UNCHANGED <<exists, data, loading, notFound, load>>
    BY <1>5 DEF handleFundWithFriendbot, OffersFriendbot
  <2>2. CardTypeOK'
    BY <1>0, <2>1 DEF CardTypeOK
  <2>3. OneLoadUntilFound'
    BY <1>0, <2>1 DEF OneLoadUntilFound, InFlight
  <2> QED BY <2>2, <2>3 DEF CardInv
<1>6. CASE NotFunded
  <2>1. /\ funding' = FALSE /\ error' = TRUE
        /\ UNCHANGED <<exists, data, loading, notFound, load>>
    BY <1>6 DEF NotFunded
  <2>2. CardTypeOK'
    BY <1>0, <2>1 DEF CardTypeOK
  <2>3. OneLoadUntilFound'
    BY <1>0, <2>1 DEF OneLoadUntilFound, InFlight
  <2> QED BY <2>2, <2>3 DEF CardInv
<1>7. CASE Create
  <2>1. exists' = TRUE /\ UNCHANGED <<data, loading, notFound, error, funding, load>>
    BY <1>7 DEF Create, card
  <2>2. CardTypeOK'
    BY <1>0, <2>1 DEF CardTypeOK
  <2>3. OneLoadUntilFound'
    BY <1>0, <2>1 DEF OneLoadUntilFound, InFlight
  <2> QED BY <2>2, <2>3 DEF CardInv
<1>8. CASE UNCHANGED cardVars
  <2>1. UNCHANGED <<exists, data, loading, notFound, error, funding, load>>
    BY <1>8 DEF cardVars, card
  <2>2. CardTypeOK'
    BY <1>0, <2>1 DEF CardTypeOK
  <2>3. OneLoadUntilFound'
    BY <1>0, <2>1 DEF OneLoadUntilFound, InFlight
  <2> QED BY <2>2, <2>3 DEF CardInv
<1> QED BY <1>1, <1>2, <1>3, <1>4, <1>5, <1>6, <1>7, <1>8 DEF CardNext, FriendbotEnds

LEMMA CardInvariance == CardSpec => []CardInv
BY CardInitial, CardStep, PTL DEF CardSpec

\* What the card of the account shows and the loads in flight keep their types; what has
\* been found exists.
THEOREM CardTypeCorrect == CardSpec => []CardTypeOK
BY CardInvariance, PTL DEF CardInv

\* Whatever loads overlap, and in whatever order they end, an account that the card has
\* shown is never said to be missing (account-info.tsx, loadAccount).
THEOREM FoundAccountsStay == CardSpec => []FoundStaysFound
<1>1. CardInv => FoundStaysFound
  BY DEF CardInv, OneLoadUntilFound, FoundStaysFound
<1> QED BY <1>1, CardInvariance, PTL

\* Friendbot is offered only when no load is in flight, for any number of loads
\* (account-info.tsx, handleFundWithFriendbot).
THEOREM OffersAreFinal == CardSpec => []OfferIsFinal
<1>1. CardInv => OfferIsFinal
  BY DEF CardInv, OneLoadUntilFound, OfferIsFinal, OffersFriendbot
<1> QED BY <1>1, CardInvariance, PTL

=============================================================================
