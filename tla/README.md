# Stellar sponsorship service: specifications, model checks and proofs

The service signs, with the key of a sponsor account, transactions that wallets
build, so that the base reserves of new ledger entries are paid by the sponsor
and not by the wallet's user. An administrator creates an API key, activates it
with a funded sponsor account, and later changes, revokes and sweeps it. The
parts are written in Go (`internal/`), with a dashboard and an example wallet in
TypeScript. State is in one Postgres table for keys, one for the transaction
log, two in-memory limiters, on the Stellar ledger, and in the browser tabs of
administrators and of the wallet's user.

No handler holds a lock or a database transaction across two statements. Each
request is a goroutine that reads a row, calls Horizon, and writes a row, so
that everything that is hard in the service comes from what happens between
those calls. The clients are React components: what they show is lost when they
are left, what they await is not, so that what is hard there comes from answers
that arrive late, for a component that has gone, or not at all.

This directory holds TLA+ modules for those parts, TLC configurations that check
them on small instances, and proofs that TLAPS checks for every instance.

    tlc -config MC_KeyLifecycle.cfg MC_KeyLifecycle     a run
    tlapm KeyLifecycleProofs.tla                        a proof

`PROJECT.json` lists runs, theorems, hazards, findings, the source lines of each
definition, and for each property a change of the code that breaks it.

## 1. Inventory

State kept, operations, and what makes each component correct.

| Component | State | Operations | Correct if | Module |
|---|---|---|---|---|
| API key service, `service/apikey.go`; store, `store/apikeys.go` | table `api_keys`: status, sponsor account (UNIQUE), hash of the secret, limits, rules | Create, Update, Regenerate, Revoke | a key goes from pending to active to revoked; a retired secret is dead | KeyLifecycle, SponsorFunds, RateLimiter |
| Funding service, `service/funding.go` | none of its own: table, ledger, envelopes handed out | BuildActivate, SubmitActivate, BuildFund, SubmitFund, Sweep | an active key has a funded account of its own; funds of a revoked key come back | KeyLifecycle, SponsorFunds |
| Transaction builder and account service, `stellar/builder.go`, `stellar/account.go` | sequence numbers of master and sponsor, on the ledger | activation, funding and sweep envelopes, balances | an envelope is applied at most once | KeyLifecycle, SponsorFunds |
| Signing service, `service/signing.go` | table `transaction_logs` | Sign | it signs only what Verify accepts and the sponsor can pay; what is signed is logged | SponsorFunds, Verifier |
| Verifier, `stellar/verifier.go`, `stellar/operations.go` | stack of open blocks, counted reserves, within one call | Verify | it decides what the rules say; the count misses of what the network locks no more than is known | Verifier |
| Submission checker, `stellar/submission_checker.go`; log handlers, `handler/admin/transactions.go`; `store/transactions.go` | submission status and ledger of each signed row; goroutines of a listing | List (with its checks), CheckTransaction | what is called confirmed is on the ledger; listings answer; statuses settle | SubmissionTracking |
| Rate limiter, `middleware/ratelimit.go` | a window for each key, in memory | Allow, Remaining, cleanup | no key gets more than its quota; a window that counts is kept | RateLimiter |
| API key and Google authentication, `middleware/auth.go`, `google_auth.go`; attempt limiter, `auth_attempt_limiter.go` | failures and blocks for each address, in memory | allow, registerFailure, registerSuccess, cleanup | failures of an address are bounded; a block holds | AuthLimiter |
| Handlers, `handler/` | none | decode, one service call, encode | as their services | with the services |
| Dashboard, forms that create, activate and fund a key: `create-key-form.tsx`, `fund-form.tsx`, `sign-transaction.tsx`, activation card of `api-keys/[id]/page.tsx` | step and envelope of each form; calls and signatures awaited | handleSubmit, handleContinueToSign, handleBuildActivate, handleBuildFund, handleSign, submission; leave, reload | one opened form pays once; a form that says done is paid | FundingForms |
| Dashboard, page of a key: `api-keys/[id]/page.tsx`, `use-api-keys.ts` | cached copy of the key, its fetch, secret on display, edit dialog, calls awaited | fetch and refetch, edit, regenerate, revoke, sweep; leave, return, reload | shows its own writes, never goes back, shows the secret that works, learns of a revocation | KeyConsole |
| Dashboard, API client, wallet, providers, navigation: `lib/api.ts`, `use-wallet.ts`, `providers.tsx`, `sidebar.tsx` | token; wallet connection; query client | apiFetch, signTransaction | a call ends with an answer or an error | FundingForms, KeyConsole |
| Dashboard, session, overview, lists, settings: `lib/auth.ts`, other pages, tables | filters, page number | read only; check one transaction | - | not modelled |
| Wallet demo, transactions: `create-account-form.tsx`, `add-trustline-form.tsx`, `transaction-builder.ts`, `page.tsx`, `connect-wallet-button.tsx`, `use-wallet.ts`, `app/api/sign` | keypair, selected tab, form with its steps, submissions and history | generate, import, disconnect, submit, reset; build, sponsor, sign, submit | success is on the ledger; a form shows its own submission; every submission ends | WalletDemo |
| Wallet demo, account card: `account-info.tsx` | data, loading, not found, error, funding; loads in flight | load, refresh, fund with Friendbot | an account found stays found; a request to Friendbot is answered for | AccountInfo |
| Wallet demo, sponsor information: `sponsor-info.tsx`, `lib/api.ts` | one fetched record | read once | - | not modelled |
| Configuration, content type and security headers, layouts and UI widgets | none that changes | read once, checked per request | - | not modelled |

How they interact. The authentication middleware reads the row of a key and puts
it in the request's context; the rate limiter, the signing service and the usage
endpoint use that copy and never read the row again. The administrator's
requests read a row, check its status, call Horizon and write columns, each an
own statement. An envelope leaves the server unsigned (activation, funding) and
returns minutes later, signed by the master wallet. Signed transactions leave
the server for good: the wallet submits them when it likes, and the log learns
what became of them only by asking Horizon when somebody looks at the log. The
dashboard keeps a cached copy of a key, refetched every 30 seconds and when one
of its own writes says so; the wallet demo asks the sponsor through its own
server and Horizon directly.

What is hard, by kind (each with its line under `hazards` in `PROJECT.json`):

- interleaving: an activation in flight against a revocation or against another
  activation; regeneration against revocation; two sweeps; attempts of one
  address that succeed and fail together;
- stale copies: limits, status and secret of a row that authentication read;
  a balance and a sequence number from two Horizon calls; the dashboard's copy of
  a key, and a fetch of it that crosses a write; the keypair of the wallet demo,
  which may change between building and signing;
- partial failure: the envelope is applied and the row is not written; a
  transaction is signed and not logged; a new secret whose answer is lost; an
  account that Friendbot has created without saying so;
- timeouts and retries: Horizon times out on an envelope that is applied later;
  the batch context of a listing expires while an answer is under way; an
  administrator submits again what the page says has failed;
- answers for what has gone: a form that was left goes on signing and submitting,
  and the same form is opened again beside it;
- limits in memory: cleanup, run by any request, deletes entries of others; the
  boundary instants of windows and blocks;
- liveness: a listing waits for goroutines that wait for slots of a semaphore; a
  page of the dashboard must learn what other administrators do; a submission of
  the wallet demo must end when its wallet is gone.

## 2. Modules

Each component's module holds its state as variables, one action for each
operation or for each stretch of it between two calls that leave the process,
and its properties with the definitions they need. The `MC_` module of the same
name gives TLC its constants. The `Proofs` module holds the theorems;
`DashboardProofs` is about KeyConsole and FundingForms, `WalletDemoProofs` about
WalletDemo and AccountInfo. Where two modules are extended together, the second
one's specification has its own names (`FormsSpec`, `CardSpec`).

**KeyContract** is the abstract specification of a key: its status and account,
and which accounts exist. A key is created unfunded, bound only to an account
that exists and that no other key holds, active only when bound. Nothing is said
of requests or failures. **KeyLifecycle** is what the code does:

| Action | Code |
|---|---|
| `Create` | APIKeyService.Create: validation, then the INSERT |
| `BuildRead`, `BuildLoad` | BuildActivate: row read; sponsor key pair, master sequence number, envelope |
| `SubmitCheck` | SubmitActivate up to the Horizon call: row read, validateActivateTransaction |
| `SubmitSend`, `SubmitAccepted` | the call of Horizon and its answer |
| `SetSponsorAccount`, `SetActive` | the two UPDATEs, the first under the UNIQUE constraint |
| `RevokeRead`, `RevokeWrite` | Revoke |
| `HorizonError`, `StoreError`, `Restart` | each error return, and the end of the process |
| `LedgerApply`, `OtherMasterTx` | the network applies an envelope, also one whose call timed out; another use of the master account |

`req[r]` is what goroutine r has read. An envelope is identified by the account
it creates, because its key pair is random. The refinement mapping reads status
and account from the row, and `onChain` from the applied envelopes; building,
submitting and failing are stutters of the contract.

**SponsorFunds** takes one active key and models what it spends and what comes
back: `Authenticate`, `CheckBalance`, `Refuse`, `LogSigned`, `Answer` are Sign;
`RevokeRead/Write`, `RegenerateRead/Write` are the ends of a secret; `SweepRead`,
`SweepBalance`, `NothingAvailable`, `SweepLoad`, `TooLittle`, `Send` are Sweep;
`BuildFund`, `SubmitFund`, `Send` add funds. The network applies envelopes in the
order of their sequence numbers, drops them, or locks and releases reserves.

**Verifier** reads a transaction operation by operation, as the loop of Verify
does. The transaction is chosen as it is read, so that every transaction of at
most `MaxOps` operations is a behaviour. Each check is an action that rejects
with the code's verdict (`SponsorIsOpSource`, `ForeignBegin`, `UnmatchedEnd`,
`XLMTransfer`, `DisallowedOp`, `OutsideBlock`, `ForeignSource`,
`DisallowedSource`); their guards accumulate in the order of the source. Beside
Verify's stack and count runs the network's own account of the same operations,
`ledger`: who is sponsored, whether the network would have failed, and what the
sponsor is charged. Verify predicts it, and the properties compare the two. Left
out are empty values of MANAGE_DATA, which the decoder of the SDK may give as
none.

**SubmissionTracking** has the rows of signed transactions, a listing with one
goroutine for each row that needs a check, its semaphore and its context
(`List`, `Acquire`, `GiveUp`, `Answered`, `Failed`, `Write`, `WriteFailed`,
`Expire`, `Respond`), and the check of one row (`CheckOne`, `CheckAnswered`,
`CheckFailed`, `CheckWrite`, `CheckWriteFailed`). Asking and storing are two
steps, and the network applies transactions between them. Time is what the code
asks of it: five minutes since the last check, a day since creation.

**RateLimiter** and **AuthLimiter** count time in ticks. Each method of a limiter
holds its mutex from its first line to its last, so it is one action, with the
cleanup it ends with. What is not under the mutex is not one action: limits that
were read before, and the lookup between allow and registerFailure or
registerSuccess. Both keep a history (`grants`, `failed`), the sequence of the times
at which a key was allowed a request or an address failed, which no action reads,
for properties that speak of counts in an interval. `Largest` and `Shortest` are
the largest quota and the shortest window that a key may have.

**Quota** is the abstract specification of the rate limiter: an ideal one, which
keeps the window of a key until its end and drops it there. It has no table, no
cleanup and no requests in flight; a request is held against some limit that an
administrator may give. The refinement mapping shows it a window only while that
window counts (`Counting`), so what the cleanup removes must not show; refusals,
look-ups and changes of limits are stutters.

**FundingForms** follows one key and the browser tabs that may have the master
account pay for it. A *mount* is the life of a form from its first rendering
until the page is left, reloaded or shows another form. `calls` holds what is
awaited, each with the mount that asked, and goes through the phases of the
handlers: `handleSubmit`, `handleContinueToSign`, `handleBuildActivate`,
`handleBuildFund` and `handleSign` ask; `WalletSigns` and `WalletRefuses` are the
wallet; `CreateRow`, `BuildEnvelope`, `Submit`, `Accepted` and `FormRefused` the
service; `FormAnswered` and `FormFailed` the browser's end of a call, `FormFailed`
also when the service goes on. `LeaveTab`, `Refetch` and `ReloadTab` end a mount;
only `ReloadTab` takes the signatures awaited with it. `LedgerApply` is the network, with the
sequence number of the master account. The service's handlers are in
KeyLifecycle and SponsorFunds in full, and coarser here.

**KeyConsole** is the rest of the page of a key, in one tab. The row has a version
that each write raises; `cache`, `invalid` and `fetch` are what the query cache
knows, `call` the mutations in flight. `Invalidate` is invalidateQueries of an
open page, which drops the fetch in flight and starts another; `onSuccess` says
which mutation invalidates what. `owner` says who still listens to a call: the
page, the tab only (the page was left, the mutation still invalidates), nobody.
The library (react-query) is taken to do what its documentation says of these
calls. Other administrators write at any time (`Others`, `OthersActivate`); an
activation that was in flight at a revocation is KeyLifecycle's, not repeated
here.

**WalletDemo** has the wallet's keypair, the selected tab with its form, and
`run[i]`, the i-th submission with its row of the history. `Built`, `NotBuilt`,
`SponsorRefuses`, `Signed`, `NoWallet`, `Confirmed`, `NotConfirmed` are the
stretches of handleSubmit between two awaits; `Signed` takes the keypair that the
wallet has by then. A run whose form was left (`mounted`) reports to the history
only. `getState` is the form's own account of which steps are done.

**AccountInfo** is the account card: `loadAccount` starts a load, `Answer` is
Horizon, `Found`, `Missing` and `LoadFails` its arrival, in any order;
`handleFundWithFriendbot`, `Funded`, `NotFunded` are Friendbot. Horizon is taken
to know an account once Friendbot has answered that it is there.

Not modelled: the text of answers and errors, encodings, hashes and signatures
(taken as unforgeable), pagination and filters (any set of rows), the claims of
a Google token, configuration, headers, health. The entry point with the routes
is not in the repository; that authentication precedes the rate limit and the
rate limit the handler follows from what each reads from the request's context.
Rows of rejected transactions are left out of SponsorFunds: no code reads them
except to list them. Of the clients, pages that only show what they fetch, the
session, connecting the dashboard's wallet (a library's modal) and UI widgets are
left out, and so are the values of fields: the forms' validation, amounts and
assets decide nothing that the properties speak of.

## 3. Runs

Bounds are the constants of the `.cfg` files. All passing runs check deadlock
except `verifier`, whose Verify returns after its verdict, `funding_forms`, whose
tabs may use up their mounts, and `account_info`, whose card may be left with an
error and nothing to press.

| Run | Bounds | What it shows |
|---|---|---|
| `key_lifecycle` | 2 keys, 2 key pairs, 2 requests, 2 transactions of the master | `ActiveKeyOwnsFundedAccount`: an active key has an account on the ledger that no other key has; `SettledKeyOnlyRevokes`: when the activations in flight have ended, only revocation is left; `ImplementsContract` |
| `rate_limiter` | 2 keys, 2 requests, quotas 2 in 1 tick and 1 in 2 ticks, time 3 | `WindowCountsGrants`, `TwoQuotasPerInterval`, `LiveWindowsSurvive`, while limits change under requests; `ImplementsQuota`: what the cleanup drops cannot be told from what is allowed |
| `verifier` | 2 accounts, 2 keys, one type of each kind, 5 operations | `VerdictFollowsTheRules`: one pass with a stack decides what the rules say of the whole list; `StackIsTheLedgers`: as many blocks on the stack as sponsorships on the network, and the same ones; `ReservesCoverLedger`: what the network charges beyond Verify's count is at most the further reserves of pool trustlines and claimable balances |
| `submission_tracking` | 2 transactions, 1 listing with 1 slot, 1 check | `ConfirmedIsOnLedger`; under fairness `ListingsAnswer` and `ConfirmationSettles` |
| `auth_limiter` | 2 addresses, 2 requests, threshold 2, window 1, block 3, time 5 | `FailuresBounded`, `BlocksHold` |
| `funding_forms` | a tab on the creation page and one on the page of the key, 2 mounts each, 2 calls awaited, 2 transactions of the master | `PaysOncePerMount`: whatever fails, is retried or is answered late, one opened form pays at most once; `DoneIsPaid`: what says done is on the ledger, and a created key has become active |
| `key_console` | 2 calls in flight, 3 versions of the row | `OwnWritesAreSeen`, `PageNeverGoesBack`, `SecretsAppearInOrder`; under fairness `RevocationIsSeen` |
| `wallet_demo` | 2 keypairs, 2 submissions | `SuccessIsOnLedger`, `FormShowsItsRun`, `StepsTickedOffAreDone`; under fairness `RunsEnd` |
| `account_info` | 5 loads in flight | `FoundStaysFound`, `OfferIsFinal`; under fairness `FundingIsSeen` |
| `sponsor_funds` | 1 transaction, 1 signing request, 2 administrators, 2 secrets, 1 payment | `RetiredSecretsSignNoMore`; under fairness `SweepsRecoverFunds` |

Two more runs have TLC find a claim of the documentation, or of what the program
says to its user, violated (section 5).

Why these bounds are enough to meet the interesting cases:

- `key_lifecycle`: both requests may activate one key with two envelopes, or two
  keys with one envelope, or one may activate while the other revokes; two
  master transactions let the envelopes compete for one sequence number, and
  let one fail because the other was applied. The theorems hold without bounds.
- `rate_limiter`: a cleanup is due every second tick and may be run by the other
  key's request; the long window is as long as `StaleEntryTTL`, which is the
  boundary that matters (86,400 s and 24 h in the code).
- `verifier`: five operations hold two nested blocks with an operation in the
  inner or the outer one, two blocks in a row, and two blocks whose ENDs cross.
  Claimable balances have one claimant or two; trustlines are of an asset, of pool
  shares, or removed. MANAGE_DATA stands for the four types of `EntryTypes`.
- `submission_tracking`: with one slot and two rows, a goroutine waits for the
  other; the check runs against both.
- `auth_limiter`: two requests of an address overlap at every point of its
  window; the block outlasts the window and `StaleEntryTTL`, so that a cleanup
  meets an entry that is blocked and stale.
- `sponsor_funds`: two administrators may sweep, revoke, regenerate and fund
  against each other; one unit each of reserve, fee, budget and payment makes
  every comparison with the available balance meet both its outcomes. It is a small
  instance: with a second transaction, or a budget of two, TLC takes too long for
  `SweepsRecoverFunds`. Two transactions signed against one balance therefore do not
  occur in it, and a sweep is worth sending only after the payment.
- `funding_forms`: with two mounts a form is left while its signature is awaited
  and opened again; two calls are one of the old form and one of the new, or of
  both tabs; two sequence numbers let both envelopes be applied, or one
  transaction of the master overtake the other. The theorems have no bounds.
- `key_console`: two calls overlap with each other and with a fetch; three versions
  are an own write and one of another administrator after the first row, in
  either order, which is what a stale answer takes.
- `wallet_demo`: two submissions are one that was left and one on display, of one
  account, whose sequence numbers compete, or of two accounts; two keypairs let
  the wallet change in between.
- `account_info`: more loads than a user starts before one ends; the card tells
  none from the others.

Fairness. `KeyConsole!Fairness`: an open page keeps its refetch interval (weak
fairness of `StartFetch`; a browser may suspend the interval of a hidden tab, so
`RevocationIsSeen` is about a visible one), the service answers some fetch and
some answer arrives in the end (strong fairness, since fetches may fail and be
dropped in between). `WalletDemo!Fairness` and `AccountInfo!CardFairness`: every
request to Horizon, the sponsor or Friendbot ends, with an answer or an error, as
fetch does (weak fairness for each run and each load); nothing says that it ends
well. `SubmissionTracking!Fairness`: the scheduler runs every goroutine, the
Horizon client and the database return or time out, and a listing's context
expires after five seconds, so each of these is weakly fair. Nothing says that
Horizon answers, that somebody looks at the log or that a wallet submits:
`ConfirmationSettles` takes as premises that the transaction is applied and
that answers go on being stored. `SponsorFunds!SweepFairness`: requests end
(weak fairness), and, as assumptions about the environment, an administrator
sweeps again and again and the calls and the network do not fail every time
(strong fairness). Without an administrator who repeats a sweep the code
promises nothing, because it has no retry of its own.

## 4. Proofs

TLAPS checks these for every value of the constants: each safety property and each
action property that a passing run checks, and both refinements. What is assumed of
the constants is in the `ASSUME`s of each module: times and bounds are naturals,
limits lie within `StaleEntryTTL` (the CHECK constraints) and between the figures
`Largest` and `Shortest`, `Nil` is no key, account or secret, a threshold and the
semaphore are at least one, a sponsor account is not one of the other accounts, and
the markers of no envelope, no copy, no fetch and no keypair are none of those. Sets
of keys and transactions may be infinite; requests in flight at one time are
finitely many in AuthLimiter, whose bound counts them.

| Theorem | Statement | Why it is inductive |
|---|---|---|
| `TypeCorrect`, in each of the eight; `DashboardProofs!FormsTypeCorrect`; `WalletDemoProofs!CardTypeCorrect` | `Spec => []TypeOK` | itself, but for the last and for WalletDemo, which need the invariants below |
| `KeyLifecycleProofs!ActiveKeysOwnFundedAccounts` | `Spec => []ActiveKeyOwnsFundedAccount` | needs what requests know: a request that is to write an account knows it is on the ledger, one that is to write the status knows the row names such an account, and no two rows share one |
| `KeyLifecycleProofs!SettledKeysOnlyRevoke` | `Spec => SettledKeyOnlyRevokes` | a settled row is neither pending nor absent, so no step makes a request pass the check of an activation for it |
| `KeyLifecycleProofs!LifecycleImplementsContract` | `Spec => ImplementsContract` | each step, given the invariant, is a step of KeyContract or a stutter |
| `RateLimiterProofs!LiveWindowsAreKept` | `Spec => LiveWindowsSurvive` | needs `WindowsEndInTime`: no window ends later than `lastSeen + StaleEntryTTL`, so that the cleanup, which judges by `lastSeen`, never meets one that counts |
| `RateLimiterProofs!CountsAreGrants` | `Spec => []WindowCountsGrants` | needs `GrantsRecorded`: the grants since a window began are the last ones of the history, as many as it counts, and times within the history do not decrease |
| `RateLimiterProofs!QuotasAreKept` | `Spec => []TwoQuotasPerInterval` | needs `GrantsRecorded`: what a closed window counted lies before the window that follows, so that a grant and the one `2 * Largest` later lie in different windows with one between them, and are more than `Shortest` apart (`Apart`); times so far apart are few in any interval (`ApartAreFew`) |
| `RateLimiterProofs!LimiterImplementsQuota` | `Spec => ImplementsQuota` | needs `WindowsEndInTime`, so that the cleanup drops only windows over already, and `GrantsRecorded`, so that a window that counts has allowed something and is not mistaken for none; each step is then one of Quota or a stutter |
| `VerifierProofs!ReservesCover` | `Spec => []ReservesCoverLedger` | needs that `Uncounted` is finite: each operation adds to the count and to what is known to be missing from it at least as much as to the charge, whoever the network thinks is sponsored |
| `VerifierProofs!VerdictFollows` | `Spec => VerdictFollowsTheRules` | needs `StackIsNested`: the stack is, from the bottom, the BEGINs that no END has closed, each the last one at its depth; so that the top of the stack is the block that the list as a whole has around the next operation |
| `VerifierProofs!StackMatchesLedger` | `Spec => []StackIsTheLedgers` | needs `StackIsNested`, and `StackIsSponsored`: while the network has not failed, it sponsors exactly the accounts on the stack, and none is on it twice, if ENDs are sent by the sponsored; for any ENDs `SponsorshipsAreCounted`: a BEGIN or END that the network accepts changes the number of sponsorships as it changes the stack |
| `SubmissionTrackingProofs!ConfirmationsAreTrue` | `Spec => []ConfirmedIsOnLedger` | the property speaks of rows, pages and answers under way alike; with it, what is about to be stored is an answer |
| `AuthLimiterProofs!BlocksAreKept` | `Spec => BlocksHold` | the cleanup keeps what is blocked, and only a request in flight writes the entry of its address |
| `AuthLimiterProofs!FailuresAreBounded` | `Spec => []FailuresBounded` | needs `FailuresRecorded`: the failures that an entry counts are the last ones of the history; of those before its window, few are recent, at most `MaxFailures - 1` if no block began it, and otherwise no more than the bound leaves after the requests still in flight, since a block lets nothing in |
| `SponsorFundsProofs!RetiredSecretsAreSilent` | `Spec => RetiredSecretsSignNoMore` | needs that every secret in use was issued, and that a new one never was; a key all of whose secrets are dead is revoked, so one that a late regeneration issues is dead from its birth |
| `DashboardProofs!MountsPayOnce` | `FormsSpec => []PaysOncePerMount` | needs `OneEnvelope`: all envelopes of one mount that are in its form, in its calls or with the network are the same; `Unbuilt`: none is out before the form has one; `OneCall`: a mount waits for one call at a time, so that a build answers it once |
| `DashboardProofs!DoneFormsArePaid` | `FormsSpec => []DoneIsPaid` | an answer that ends a form has its envelope in the ledger, an activation that was answered has written the status, and no status goes back to pending |
| `DashboardProofs!OwnWritesShow` | `Spec => []OwnWritesAreSeen` | needs `AnswerIsRecent`: what the service has answered to the fetch in flight is no older than the copy on display and than every own write that was answered, because such a write drops the fetch |
| `DashboardProofs!PageGoesForward` | `Spec => PageNeverGoesBack` | the same |
| `DashboardProofs!SecretsInOrder` | `Spec => SecretsAppearInOrder` | needs `OneRegeneration`: the page waits for one regeneration at a time, and that one is written after the secret on display |
| `WalletDemoProofs!SuccessIsReal` | `Spec => []SuccessIsOnLedger` | needs `RunsAreInOrder`: what a run has, step by step; and `SentRuns`: nothing is signed again once it is sent, so that what the ledger has checked stays so |
| `WalletDemoProofs!FormsShowTheirRuns` | `Spec => []FormShowsItsRun` | needs `FormIsMounted`: a run in flight that still reports to a form is the run of the form on display; a form is reset only when its run has ended, and loses it when it is left |
| `WalletDemoProofs!TickedStepsAreDone` | `Spec => []StepsTickedOffAreDone` | needs `RunsAreInOrder`, and `ErrorIsReached`: the step that an error names is one that the run came to |
| `WalletDemoProofs!FoundAccountsStay`, `OffersAreFinal` | `CardSpec => []FoundStaysFound`, `CardSpec => []OfferIsFinal` | need `OneLoadUntilFound`: as long as an account is missing, one load is in flight at a time, and none while Friendbot is offered or asked; only a card that has found its account starts a second one |

Two of the arguments go over data and are made without an induction over it. The
counts in an interval (`ApartAreFew`, for both limiters) take the least index in the
interval, from the library's well-founded order of the naturals (`WFMin`,
`NatLessThanWellFounded`), and compare with an interval of indices. The stack of
Verify is described by depths of the list's prefixes, so that one operation more is
one cardinality more (`TypeCount`, `DepthNext`), and the block that an END
closes is at the greatest of its positions (`MaxIsIn`). What Verify does not count is
a set of pairs, one for each reserve, which an operation extends (`OneMoreUncounted`).

Only model-checked: `ListingsAnswer`, `ConfirmationSettles`, `SweepsRecoverFunds`,
`RevocationIsSeen`, `RunsEnd`, `FundingIsSeen`. Liveness under fairness is beyond the
prover.

## 5. Where code and documents disagree

| Run | What TLC shows |
|---|---|
| `revocation_not_permanent` | An activation that checked the row before a revocation writes `active` after it; `docs/prd.md:486` calls revocation permanent. |
| `generated_secret_unshown` | The button that generates a keypair connects the wallet in the same update that keeps the secret for display, and the component, once connected, returns before it comes to the secret: "Save this secret key. It will not be shown again after you dismiss." (`wallet-demo/src/components/connect-wallet-button.tsx:62`) is never seen, and the secret is lost with the tab. |

Observations on the models, with no run of their own:

- Two activations of one key in flight, with two envelopes: the second replaces
  the account of the key that the first made active (`funding.go:118`);
  `docs/integration-guide.md:242` tells wallets to cache it. `SettledKeyOnlyRevokes`
  is what holds.
- The account creation of `docs/integration-guide.md:169-177` is rejected at its
  second operation, because its source is not the account that its block sponsors
  (`verifier.go:182`; `ForeignSource` of Verifier).
  `wallet-demo/src/lib/transaction-builder.ts` builds that transaction, so that the
  wallet demo's account creation ends in `SponsorRefuses`.
- `reservesForOperation` is said to return "how many base reserves a sponsored
  operation will lock in the sponsor account" (`operations.go:57-58`). It counts one
  for every trustline and claimable balance (`operations.go:69`, `:93`), while the
  network locks two for a trustline of pool shares (CAP-38) and one for each claimant
  of a balance. Sign may therefore sign what the sponsor cannot pay.
  `ReservesCoverLedger` bounds what is missed by exactly these reserves.
- It counts one reserve for the removal of a trustline too: the limit is compared
  with "0" (`operations.go:66`), which the comment above says frees the reserve, and
  a decoded transaction has the limit "0.0000000". Sign then asks for a balance that
  the removal does not need.
- A transaction is signed and answered though its log row could not be inserted
  (`signing.go:93`; `LogSigned` of SponsorFunds); `docs/DOCUMENTATION.md:278` says
  that every request is recorded.
- A `not_found` asked for before a confirmation and stored after it takes it back
  (`store/transactions.go:167`); the comment at `handler/admin/transactions.go:168`
  takes a confirmation for final. `ConfirmationSettles` shows that this heals.
- `create-account-form.tsx:151` goes to the step after "New account signature"
  whether or not there is a secret to sign with, so that the list ticks it off,
  "done client-side", for a public key that was typed in. Such a transaction lacks
  the new account's signature and is refused, as `Authorized` of WalletDemo has it;
  the comment at `transaction-builder.ts:78-79` says that the signature is not
  needed, the form signs all the same. `StepsTickedOffAreDone` leaves the step out.
- `api-keys/[id]/page.tsx:112` sends every field of the edit form, the expiry as a
  date without time of day. On its last day a key can no longer be renamed, since
  the date then lies in the past.
- `account-info.tsx:76`: if the first load fails for another reason than 404, the
  card has neither its refresh button nor Friendbot's: only a reload helps.
- `use-api-keys.ts:96` and the sweep's hook refresh the list of keys and not the page
  that asked; the page shows a revocation at its next refetch (`RevocationIsSeen`).
- `ratelimit.go:12` speaks of a sliding window; the code has fixed ones, so that
  two quotas fit into the length of a window (`TwoQuotasPerInterval` is tight).
- `auth_attempt_limiter.go:83` stores a first failure without comparing it with
  the threshold: with a threshold of one, `FailuresBounded` fails, so the property
  asks for more than one. The default is five.
- `verifier.go:139` closes the innermost block for an END of any source, while the
  network ends the sponsorship of the END's source. The network refuses an END whose
  source is not sponsored, and accepts ENDs that cross: after BEGIN for a, BEGIN for b
  and an END by a, Verify takes a's block for the one still open, and the network b's.
  An operation of a is then accepted and counted, and a pays for it. So the second
  part of `StackIsTheLedgers` speaks of transactions whose ENDs are sent by the
  sponsored account; its first part and `ReservesCoverLedger` hold for the others too:
  the two agree on how many sponsorships are open, at the end on none.
- `docs/prd.md:175` gives CREATE_ACCOUNT "1 base reserve (1 XLM)", at half an XLM for
  a base reserve; the code counts two reserves, which is what the network locks.

## 6. Order of the work, and what is left

Written in this order: KeyContract and KeyLifecycle (what a key promises is what
everything else stands on), Verifier (what the service signs), RateLimiter and
AuthLimiter (concurrent state in memory), SubmissionTracking, SponsorFunds, and
then the clients: FundingForms (what may pay twice), KeyConsole (what an
administrator is told), WalletDemo and AccountInfo.

Left:

1. **KeyWithFunds**, which would compose KeyLifecycle and SponsorFunds over one
   row, so that an activation in flight at a revocation meets signing and sweeping;
   SponsorFunds takes the key as active and its activations as ended.
2. Update and Create in full (rules, expiry), the queries of the transaction log,
   and the rows of rejected transactions.
3. The composition of FundingForms with the detailed requests of KeyLifecycle and
   SponsorFunds, in place of its coarser handlers.

Abstract specifications worth stating next: what a wallet may rely on (a signed
transaction obeys the rules of the key at some moment between request and
answer), implemented by the composition of Authenticate, Verify and Sign.

Theorems worth proving next: at most one sweep is applied for each sequence
number and the account never goes below its reserves; that composition, once it is
stated as a specification.
