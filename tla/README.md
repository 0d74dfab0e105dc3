# Verification of the SODAX SDKs

TLA+ models of the parts of this repository that carry a cross-chain operation
from a click to its end: the SDK's relay client and backend attempt, the
orchestration built on them, the swap form of dapp-kit, and the status poll that
watches a transfer afterwards. Beside it stand the parts that a user meets before:
the sponsored activation of an account, the connection dialog with the EVM
connection under it, and the Privy connector. TLC checks each on small instances;
TLAPS proves the safety properties of all of them for every value of their
constants: the invariants and action properties, that the relay client, the backend
attempt and the orchestration implement an abstract promise each, and of the waits
that end, that each of their steps uses up what is left of them.

    tlc -config MCRelayClient.cfg MCRelayClient.tla
    tlapm RelayClientProofs.tla

## 1. The system

A user signs one transaction on a source ("spoke") chain. A *relay* carries it to
the *hub* chain (Sonic), where a *solver* fills a swap, or from where a second
packet leaves for the destination chain. A *backend* can do the relaying and the
notification on the client's behalf. None of this is under the SDK's control:
what the SDK owns is the order of its steps, the budgets, and what it tells the
caller. That is where its hard bugs would be: a transfer reported as failed that
lands, one reported as done that is not, a transaction nobody relays, a second
deposit, a poll that stops too early or never.

Before that, the user connects wallets. Wallets, wagmi and Privy answer late,
never or by themselves; what the SDK owns is whose answer it believes: that a
dialog speaks of the wallet picked last, that a disconnect stays one, and that a
session is of the person who signed in.

### Inventory

Paths are below `src/packages/`.

| Component | State it keeps | Operations | What makes it correct |
|---|---|---|---|
| Intent relay client, `sdk/src/shared/services/intentRelay` | budget, deadline, `lastPollingError`, retry counters | `submitTransaction`, `waitUntilIntentExecuted`, `relayTxAndWaitPacket` | returns an executed packet of its own transaction; no timer outlives the budget; codes tell outage from timeout |
| Backend submission, `sdk/src/backendApi/{runBackendSubmitTx,pollBackendSubmitTx,submitTxAttempt,api-utils}.ts` | one attempt budget, last status error | POST, status poll | only a complete record is a success; the fallback is never delayed past the budget; the cause is true |
| Orchestration, `sdk/src/{swap,bridge,leverageYield}` | phase of a call | create, backend attempt, verify, relay, notify | success means done, failure keeps the transaction, nothing is stranded |
| One-path operations, `sdk/src/{moneyMarket,staking,migration,dex}`, `cancelIntent` | phase of a call | create, verify, relay, second leg | the relay is skipped exactly when it may be |
| Spoke verification, `sdk/src/shared/services/spoke` | none | `verifyTxHash` | what is relayed has landed |
| Solver API, `sdk/src/swap/SolverApiService.ts` | none | `postExecution`, `getStatus` | transport failure and typed answer are told apart |
| Approval batch, `sdk/src/shared/utils/approvalBatch.ts` | batch id | choose a strategy, send, confirm, fall back | never a second deposit |
| Swap form, `dapp-kit/src/hooks/swap`, `dapp-kit/src/utils/swapLifecycle.ts` | mutation observer, `acting` ref, rendered state, params | `next`, `reset`, edit | the button says the truth about money in flight |
| Detailed status, `getDetailedStatus` of three services, `backendApi/detailedStatusRouting.ts`, `dapp-kit/src/hooks/shared` | query cache, miss streak, poll key | read, evaluate, refetch | final verdicts are true; it stops for a reason, and it stops |
| Leverage position operations, `sdk/src/leverageYield` | phase of a call | open, operate (adjust, close), report the intent | success means landed, on the hub too; an intent left unreported is said to be |
| Sponsoring, `sdk/src/sponsoring` | config cache, in-flight requests | config, activate | a superseded answer never fills the cache; a second signature only for a dead transaction |
| Radfi session, `sdk/src/shared/entities/btc` | access and refresh token | ensure, refresh | a rotating token is spent once |
| Connection modal, `wallet-sdk-react/src/hooks/useWalletModal.ts`, `useWalletModalStore.ts` | modal state, attempt in flight | open, select, retry, back, close | the dialog is about the last pick |
| EVM connection, `wallet-sdk-react/src/providers/evm`, `useXWalletStore.ts` | persisted entry, disconnect flag, `wasConnectedRef` | connect, disconnect, hydrate | a disconnect sticks; a stored entry is confirmed or goes |
| Batch connect and disconnect, `wallet-sdk-react/src/hooks/useBatch*.ts` | progress of a batch | run | skips what is connected now |
| Privy connector, `wallet-sdk-react/src/privy` | session, attempt, owed sign-out, stored flags | connect, restore, disconnect, switch chain, watch | a session is of one person; a disconnect is final |
| Recovery, partner, config, API clients, wallets, types, apps | little or none | single calls | left out, see section 7 |

How they interact: the features call the relay client and the backend attempt as
functions and interpret their results; the form calls the swap feature and renders
what React last committed; the status hook reads four services one after another
while each of them moves. Nothing else is shared. Concurrency comes from the
services, which act between any two steps of the client; from the backend, which
goes on working after the client gave it up; from React, which renders later than
state changes; and from the user. The dialog calls the EVM connection, whose
hydrator carries wagmi's state into the store the dialog waits on; the Privy
connector is one of wagmi's wallets and is called by it.

## 2. Modules

| Module | Models | Composition |
|---|---|---|
| `RelayPromise` | what `relayTxAndWaitPacket` promises its callers | abstract |
| `RelayClient` | submit with retries, every poll, its retries, abort timers and error paths, and the relay | implements `RelayPromise` |
| `AttemptPromise` | what a submit-tx attempt promises the operation that opens it | abstract |
| `BackendAttempt` | POST and status poll under one budget, and the backend's record | implements `AttemptPromise`; used by outcome in `Completion` |
| `CompletionPromise` | what an orchestrated operation promises | abstract |
| `Completion` | thirty operations by profile over every route, with backend, relay, solver and source chain beside them | implements `CompletionPromise`; takes the relay wait as `RelayPromise` states it |
| `SwapForm` | `useSwapLifecycle` over `swapWithApproval` and `approvalBatch`, with user, React, wallet and chain | takes a completed call from `Completion` by its outcome |
| `DetailedStatus` | one read over record, relay, solver and journal, and the polling hook | stands alone: it watches a transfer from outside |
| `Sponsoring` | the config cache and the activation of an account, with the sponsoring server and the ledger | stands alone |
| `EvmConnection` | wagmi's connections, the persisted entry and flag, `EvmHydrator` and `EvmActions` | no behaviour of its own: extended by `WalletModal` |
| `WalletModal` | `useWalletModal` and its attempts, composed with `EvmConnection` | its `Next` takes the steps of both |
| `PrivyConnector` | connector, runtime and bridge, with Privy, wagmi and other wallets beside them | stands alone: wagmi is modelled from its side |
| `...Proofs` | theorems | extend the module they are about |
| `MC...` | instances for TLC | extend the module, give constants |

### RelayClient

`pc` follows the code: `start`, `submit`, `submitBackoff` are `submitTransaction`
with its `retry`; `head` is the loop condition of `waitUntilIntentExecuted`;
`fetch` and `body` are the two awaits of one request of `pollTransactionPackets`
under its abort timer; `backoff` is the delay before a retry; `sleep` the interval
between polls. `timer` is the armed timer and `now` the time since the wait
began: the submit has no deadline in the code and none here. Each way a request
can end is an action: rejected fetch, abort with and without headers, 404, other
HTTP error, unparsable body, an answer whose shape makes the reader throw, an
answer with a list. An answer lists packets the relay holds, each as it is now or
as it was before, own ones and siblings in any order; the first own entry decides,
as in `pollForExecutedPacket`. `lastPollingError` is `pollError`. Two histories say
what really happened: `fatal`, a poll failed before the deadline, and `threwLate`, a
poll threw at it or later, which the code records all the same (section 4).

### BackendAttempt

The three awaits of an attempt (POST, status GET, sleep) under the one deadline of
`createSubmitTxAttempt`. Every request is bounded by what is left and by the
service's own timeout, which may be unusable or negative. `job` is the backend's
record; `bare` is a terminal status without its result fields. The client's
`outcome` names the exact cause the code logs. To its callers all causes are one
answer, to fall back, which is what `AttemptPromise` keeps of them.

### Completion

One skeleton for all call sites of `relayTxAndWaitPacket`: create and broadcast,
backend attempt, verification, relay and wait, second leg, notification. Each
operation has a definition of its own, named as in the code (`Supply`, `Withdraw`,
`MigratebnUSD`, ...): the set of the steps it takes on its route and of its habits,
translated from its own service, where the condition for relaying is written anew
each time. `Profile` picks the running operation's, and `UsesBackend`, `Verifies`,
`NeedsRelay` and so on read it. Two families add a phase:

- *Resumed batches* (`ResumedSwap`, `ResumedVaultSwap`, `ResumedBridge`) begin with
  the confirmation of a batch an earlier call sent, wait at least `BatchWait`, and
  read the intent back from the hub (`read`) before they notify.
- *Positions* (`OpenPosition`, `OperatePosition`, and the two that also report the
  intent) share `SettleHubWallet`: from the hub they wait for the receipt
  (`receipt`) instead of relaying. The report may fail without failing the call,
  which then returns `OK_UNNOTIFIED`.

Success may come from the backend or from the client. `result` holds the code after
`mapRelayFailure`, the relay code in its context, and which transactions the error
names (`src`, `dst`). The services act at any time: the source transaction is mined
or reverts, the relay registers, delivers and settles, the backend queues, finishes
or stops. The funding approval that may precede an open is left out.

### SwapForm

Up to `MaxCalls` calls of `swapWithApproval` run under one form. `view` is what
was last rendered; `observed` is the mutation observer's call, which changes at
once. `next()` and `reset()` decide by `view` and by the `acting` ref, as the hook
does. A step of a call carries the conjunct `Rendered`: React commits a change
before the next answer from outside is handled, while the user may click before
it does. `root` is the call whose batch a resuming call waits for. `dropped` is
history: what the user told the form to forget.

### DetailedStatus

`read.pc` is the question in flight; between two questions every service may
move. The solver forgets in a restart, the journal follows the hub, a packet of a
sibling transaction may be listed, the backend may give a record up. A read ends
in one of the results the hook distinguishes. The hook's part is
`advanceNotFoundStreak` in a ref with its poll key, evaluated by React Query on
every result and every render, and the stop rule of the refetch interval.
`misses` is history: the misses in a row that the sources themselves confirmed.

### Sponsoring

Calls share one account and one cache key: entries of other keys never meet. A
request goes through `asked`, `answered`, `settled` (its `then` has run) and
`closed` (its `finally`), and only then do its callers go on; another call may step
in between any two. `inflight` is `inflightConfig`, `cache` the request whose answer
is cached. An activation reads the sponsor's sequence number or takes the server's
hint, asks for a signature and submits; what throws in the first attempt is returned as a
failure, in the second it rejects the call (`Thrown`, section 4). The server signs what fits, late or never,
and the client hears a verdict, an error status or nothing (`Heard`). What the
client may hear is bounded by what is true: a conflict only of a sequence number
that has passed, because the server looks for the transaction first
(`errors.ts:165`). `forced` and `floor` are history.

### EvmConnection and WalletModal

React renders after a change of either store, and runs the effects of `EvmHydrator`
in their order, before the next task: `Rendered`, and with settled promises
`Quiet`, are conjuncts of every step that begins a task. `Render` is one render with
its effects; `Hydrate` the render in which `usePersistHydrated` turns. The
reconnect effect reads the entry before the status effect clears it, as in the
code. wagmi ignores a second reconnect, refuses the current wallet, does not listen
while it is busy, and picks any remaining connection as the current one.

An attempt is `starts`, `asks` (the wallet), `waits` (for the entry), `over`. It
cannot be aborted. `slot` is `inFlightRef`. The hook compares `XConnector` objects by
identity, and `EvmHydrator` builds new ones whenever the list of wallets grows; so an
object is its wallet with the list it was built in (`XConnector`). The user picks from
the present list, or by `retry` the object that failed (`Offered`). wagmi and the stored
entry know the wallet only. A wallet in flight that is picked again after another one has
announced itself is therefore a new attempt. The dialog is composed with the EVM
connection, whose `connect` never answers with an account: the path of the chains that
do, which skips the wait, is not modelled. `onConnected` is the application's and
returns at once: one that takes long would keep the slot until it returns. `picked` is
history.

### PrivyConnector

`privy` is the snapshot the bridge publishes, with the number of the sign-in behind
it, which the code does not see. `conn` is the connector's own state. An attempt's
stage is the wait it is in; an abort ends every wait but the sign-out and the chain
switch, after which the attempt looks itself. `Seen` is `onRuntimeChange`, run with
every snapshot and after every switch. `owed` and `flag` are stored and outlive a
reload. wagmi's part is what it makes of the connector's answers and of its
`disconnect` event. `barrier` and `dismissed` are history: the sign-ins that the
user ended, and whether the user disconnected and has not connected since.

## 3. Properties and runs

Each module has one type invariant. The rest aims at the hazards that
`PROJECT.json` lists.

| Run | Bounds | Checks |
|---|---|---|
| `relay` | two own packets, one sibling, answers of up to two entries, timeouts unusable, -1, 0, 3, 8; request timeout 3, sleeps of 2, three requests a poll | `FoundIsExecutedOwn`, `DeadlineHeld`, `FailureClassified`, `WaitEnds`, `ImplementsPromise` |
| `backend_attempt` | budgets 0, 1, 3, 6; service timeouts unusable, -1, 2, 9 | `AttemptBounded`, `OutcomeIsTrue`, `AttemptEnds`, `ImplementsPromise` |
| `completion` | every operation on every route it can take; timeouts 0, 1, 3 around a floor of 2, a batch wait of 3 | `SuccessMeansDone`, `SuccessMeansLanded`, `NothingStranded`, `FailureIsTrue`, `CallEnds`, `ImplementsPromise` |
| `swap_form` | two intents, two calls | `OfferIsSafe`, `DepositAfterApproval`, `NoSecondDeposit`, `BatchWaitEnds` |
| `detailed_status` | one transfer of each kind, a budget of two misses, one unanswered question | `VerdictIsTrue`, `StopsForAReason`, `LostTransferStops`, `CancelEndsPoll` |
| `sponsoring` | two calls, two requests, two configs, sequence numbers to 2, one re-submission | `RefreshSupersedes`, `NewestIsRegistered`, `ResignsOnlyDead` |
| `wallet_modal` | two wallets, one announced late, one not installed; two attempts, a reload | `DisconnectSticks`, `DialogIsAboutPick`, `EntryIsResolved` |
| `privy` | two people, two chains; two attempts, sign-ins and wallet objects, a switch, a reload | `AccountNotFollowed`, `NothingRevives`, `SignedOutStays` |

Why the bounds suffice. A request of length 3 in a budget of 3 or 8 is aborted
both by its own timeout and by the deadline, and leaves room for several polls
with retries. Two own packets and a sibling are the least with which a wrong
choice is possible. Timeouts below, at and above the floor separate the two
budgets; a batch wait above the floor separates a resumed wait from both. `RouteFits`
leaves out only routes an operation does not look at. Two calls are what a double click, a resumed batch and a refused batch
need; the second intent is what an edit needs. A budget of two misses is the
least that a stale count can shorten; one outage is the least that can be charged
to it, and it may fall on any question of any read. Two requests are a refresh and
what it supersedes; the second call is what they race for. Two attempts are an
abandoned and a current one, and the run `wallet_late_result` has the three that
the same wallet twice takes. Two people, with as many sign-ins and attempts, are a
session and its successor; a switch, a replaced wallet and a reload each happen in
any of their waits.

`completion` shares its clock only within phases that have a budget, so waits for
the wallet are not timed, as in the code. `swap_form` runs with a wallet whose
answers arrive (`LosesAnswers = FALSE`): with one that broadcasts and then throws,
the code cannot tell, and the run `swap_form_lost` shows what follows. A run says
`CHECK_DEADLOCK FALSE` where a call returns and nothing is left to happen.

### Fairness

Only what the client's own runtime does is fair.

- `RelayClient`: weak fairness of `Timers` (the loop and its timers). Network and
  relay owe nothing, so `WaitEnds` holds with a relay that never answers.
- `BackendAttempt`: weak fairness of `Client`, its requests being under an abort timer.
- `Completion`: weak fairness of `Timers`, the phases' budgets. The submit, reading
  the intent back and the notification have no budget in the code, nor has the
  wait for a hub receipt with a timeout of zero, which the chain client takes for
  none: `CallEnds` excludes them.
- `SwapForm`: weak fairness of `Render`, strong fairness of the batch timeout,
  whose handling waits for a render that edits may go on delaying.
- `DetailedStatus`: weak fairness of a read's next step (every request has a
  timeout), of evaluating the interval and of its tick. Services owe nothing.
- `WalletModal`: weak fairness of React's renders, of the attempts' own steps and of
  the end of a reconnect, which wagmi bounds. A wallet that was asked, or told to
  disconnect, may never answer.
- `Sponsoring`, `PrivyConnector`: none, their properties are safety.

## 4. Disagreements between the code and its comments

Each is a run in which TLC finds the comment's statement violated by what the code
does; the counterexample is the schedule.

| Run | Comment | Code |
|---|---|---|
| `completion_landed` | the fallback verifies that the transaction landed | on most chains `verifyTxHash` answers `true` at once |
| `swap_form_lost` | whatever may have landed is "unconfirmed" | a throw after the batch was sent is a plain failure |
| `detailed_status_outage` | an outage keeps a healthy transfer's poll going | behind a failing submit-tx endpoint a solver miss counts |
| `wallet_late_result` | the late result of a replaced attempt is dropped | an attempt counts again when its wallet is picked again |

More were met and have no run of their own.

- `SubmitRefused`, `SubmitThrows`: every submit failure is `SUBMIT_TX_FAILED`
  (`IntentRelayApiService.ts:272-274`), but a `null` body throws a bare `TypeError`.
- `PollThrows`: a failure once the deadline has elapsed is a timeout and not an outage
  (`IntentRelayApiService.ts:405-406`), but a body that cannot be read then throws
  (`:414`) and is recorded (`:461`), which makes it `RELAY_POLLING_FAILED`.
- `Answered`: `RELAY_POLLING_FAILED` means that polling never recovered (`:497-498`),
  but the error of a poll that threw is never cleared.
- `Withdraw`: the relay is skipped only from hub to hub and not to the router
  (`MoneyMarketService.ts:986`), but also from the hub to the router elsewhere.
- `Reset`: `reset()` is a no-op while a call runs (`useSwapLifecycle.ts:63-64`), but
  its check is of the last render.
- `MappedRelayCode`: `RELAY_FAILED` also carries `RELAY_POLLING_FAILED`, while
  `SwapService.ts:732` says its relay code is `UNKNOWN`.
- `SolverRefuses`: a solver that cannot be reached is reported as one that answered
  with a typed error, against `SwapService.ts:633-636`.
- `Thrown`: no method throws (`packages/sdk/docs/SPONSORING.md:70`), but the promise of
  the second attempt is returned without an `await` (`SponsoringService.ts:351`), outside
  the reach of the `catch`: what throws in it rejects the call.
- `Cause`: one failed status request after many answered ones gives the cause of
  requests that "never succeeded", against `pollBackendSubmitTx.ts:30-32`.
- `Navigate`: `open()` sets `chainSelect` from every state, while
  `useWalletModal.ts:103` calls it a no-op when the dialog is open.
- `Offered`: a second pick of the connector in flight joins the first, so that double
  clicks open one popup (`useWalletModal.ts:186-187`), but not when a wallet announced
  itself in between: the objects were rebuilt (`EvmHydrator.tsx:30`).
- `Announce`: a wallet that announces itself after the page's reconnect has failed is
  not tried, the failure having cleared the entry; `docs/ARCHITECTURE.md:264` says the
  retry exists for such wallets.
- `Joins`: a connect with a chain, during the switch of a first one, is answered with
  the first one's session; when that switch fails, the session is torn down without
  a `disconnect` event and wagmi lists a wallet that has none. Its requests fail.
- `Switched`: a switch that ends after a disconnect and a new session sets the chain
  of the new session, which was never verified on it (`privyConnector.ts:82`).

## 5. Proofs

The proof modules hold for every value of the constants that satisfies the named
assumptions: `PacketsAssumption` and `BudgetAssumption` (own and foreign packets
are disjoint; timeouts are integers or unusable; the code's own delays and retry
count are positive) and `CompletionAssumption` (timeouts, floor, verification time
and batch wait are naturals; operations are among those modelled),
`AttemptAssumption` (budgets are naturals, the poll interval is positive),
`FormAssumption`, `StatusAssumption`, `SponsoringAssumption`, `EvmAssumption`,
`ModalAssumption` and `PrivyAssumption` (bounds are naturals, `None` is no wallet, chain
or person, late wallets are wallets).

**RelayClientProofs.** `FoundIsExecutedOwn` and `FailureClassified` are not
inductive: that a returned packet was registered needs that the relay lists own
packets only after it registered the transaction; that a code is true needs that an
error is recorded exactly when a poll really failed before the deadline or threw at it
or later; that the budget holds
needs that a retry is only planned within it. `Inductive` is the type invariant
with `NoResultYet`, `RelayHolds`, `ErrorsAreReal`, `RetriesLeft`, `DeadlineHeld` and
`Results`. One lemma per group of actions shows that it is kept, one step per
action. From it follow `TypeCorrect`, `FoundIsSound`, `WaitIsRegistered`,
`DeadlineIsHeld`, `FailureIsClassified`. `KeepsPromise` shows that every step maps
to a step of `RelayPromise` or to a stutter. `WaitIsRegistered` is proved and needs
no run: who waited has a transaction the relay holds.

The safety half of `WaitEnds` is proved as well. `WaitRunsDown`: every step of a waiting
client lowers `Work`, six times what is left of the budget plus the place in the loop,
which stays a natural number. `TimerIsAhead`: a waiting client is at the head of its
loop or has a timer that is still to come. What is left to TLC is that a step which may
be taken is taken.

**CompletionProofs.** `Inductive` adds to the type invariant `Clock`, `RelayOrder`
(what the relay did, it did in order and after it got the transaction),
`BackendIsHonest` (what the backend calls complete is complete: the assumption
about the backend, kept by its actions), `Progress` (what the client has
established when it enters a phase) and `Verdict`. The client leaves a phase in two
ways, by entering another or by returning; each has a lemma, and every action is an
instance of one of them. What the proof needs of the thirty operations is one lemma,
`Profiles`: which brackets exclude each other (nothing both relays and waits for a
receipt, only relaying operations have a second leg, only two-step operations have a
backend, ...). `OnHubNow` carries what success needs on the hub, the
packet or the receipt, from where it is established to where it is reported.
`SuccessIsDone`, `SuccessHasLanded`, `NothingIsStranded`, `FailuresAreTrue` and
`KeepsPromise` follow. `FailuresAreTrue` has two parts: `RelayWaitIsFull`, that
`RELAY_TIMEOUT` is reported only after the relay wait had the caller's whole budget for
itself, whatever the earlier phases took, and that a failure names the transactions it
leaves behind.
`CallIsBounded` and `CallRunsDown` are the safety half of `CallEnds`. A call never comes
back to a phase it has left (`RankOf` orders them, the fallback after an attempt
included), so it takes each limit once: what it spends in all is at most the limits of
its own operation and route added up. `RestShrinks` is the lemma: what has passed and
the limits still to come never grow. That a single phase keeps its limit is taken here
from `DeadlineHeld` and `AttemptBounded` and, for verification and receipt, from the
timeouts of the chain clients.

**BackendAttemptProofs.** `IInv` adds `Timed` (a timer that is on ends within the
budget), `Passed` (what the client has gone through at each step: whoever polls was
accepted, so the backend has a record) and `RepliesAreHonest`: an answer is a snapshot,
and a final record stays what the answer called it. Two lemmas, `Polls` and `Waits`,
are the two places where the loop ends for want of budget and must name the cause. `KeepsPromise` maps each step to one of `AttemptPromise` or to a
stutter: a POST only while there is time to hear of it, success only for a record that
is complete. `AttemptRunsDown` and `TimerIsAhead` are to `AttemptEnds` what the theorems
of the same kind are to `WaitEnds`.

**SwapFormProofs.** The module assumes nothing of the wallet: it may send something and
lose its answer. `Lost` names the deposit of a call that failed for the form while
`LosesAnswers` holds, `Explained` what is accounted for or lost. `IInv` adds `OneRuns`
(the acting ref is a lock), `InOrder` (a call sends a batch or a deposit, never both, and
only a call that has sent its batch waits for one), `UnobservedIsDropped`, `Tracked` (a
deposit that is not explained is the one the form observes, and its call is running,
unconfirmed or broadcast), `OthersExplained` (while a call may still send, all others are
explained) and `ViewIsSafe`: what was rendered last, however stale, offers nothing that
the observed call forbids. `OfferHidesOnlyLost` follows from `Tracked`,
`OnlyLostIsRepeated` from `OthersExplained`: lost answers are the only way around the
form. With `~LosesAnswers` they become `OfferIsSafe` and `NoSecondDeposit`, the properties
the run checks. `FailureIsFinal` (from `FailedIsDead`, under the same assumption) shows
that the comment which the run `swap_form_lost` refutes holds exactly when no answer is
lost.

**DetailedStatusProofs.** `IInv` adds `ServicesAreTrue` (what a service says of an intent
was true, and final states stay), `MissIsHeard`, `BudgetIsEarned` (what the streak has
counted, and what it is still to count of the last result, the sources confirmed) and
`OffForAReason` (an interval that is off was turned off for the result that is shown).
The lemma `Counted` is where the identity of the transfer matters: a streak of another
key is not continued. `VerdictsAgree` relates reads to later ones: with `RefusedUnfilled`
(the solver refuses nothing that is filled) a transfer called solved is filled, one
called failed never will be, and both stay so.

**SponsoringProofs.** `IInv` adds `Registered` (the request that is registered, if there
is one, is not older than the last forced refresh) and `OnlyEndedHaveResults` (only a
call that has signed and ended was told of a sequence conflict). `Registered` carries
`RefreshSupersedes`: an answer fills the cache only when its request is still the
registered one, so what it fills the cache with is not older than the refresh either.
`OnlyEndedHaveResults` carries `ResignsOnlyDead`: the transaction a call signs anew after
a conflict is one whose sequence number the sponsor's account has passed, and that
number never falls.

`FillingCorrect` is an action property: with `OnlyNewest` (no request but the newest made
is registered) only that request fills the cache. `ActivatedOnce` needs `LInv`: a call has
a transaction for each signature it asked for and none before (`Signs`), a cosigned one can
be applied at the next sequence number or never (`Stands`), and what a call was told of the
account is true (`ToldTrue`). It shows that of all transactions of all calls at most one
is applied. `CallRunsDown`: every step of a call asks for the one second signature, spends
a re-submission or comes closer to the end.

**WalletModalProofs.** `IInv` adds `AttemptsHaveWallets` and `ConnectingIsBacked`: a
dialog that shows a wallet connecting is backed by the attempt in its slot and by the
user's last pick, both for that connector. `OfferedTypes` says that what can be retried is
a connector. `ConnectingIsBacked` makes the step to `success` be about the
wallet picked last. `DisconnectSticks` is inductive with the types alone, one lemma
for the hydrator and one for wagmi. `EntryCorrect` is the safety half of `EntryIsResolved`:
whenever React has rendered, the entry is wagmi's current wallet unless the user
disconnected, and gone once wagmi has given it up. `Mirrored` adds that a stored entry
has set `wasConnectedRef`, and that wagmi reconnects only for the hydrator.

**PrivyConnectorProofs.** `IInv` adds four parts to the types and `AccountNotFollowed`.
`Owned`: an attempt that has not attached its wallet yet is the current one, finds no
session, and trusts Privy's answer only when Privy is ready and no sign-out is owed; one
that has attached finds its session not yet watched. `Replacing`: a replacement belongs
to the user of a watched session. `Settled`: a sign-out is owed, or Privy is signed out,
or its sign-in is later than every one the user ended. `Final`: a disconnect leaves no
attempt, no session, no flag and no connection in wagmi. `SignedOutStays` rests on them
and on the lemma `WatchedByCommit`: a session comes to be watched only by the commit of
the current attempt. `SessionKeepsUser`: from one step to the next a watched session
stays with its user or ends.

Only model-checked: liveness under fairness, which is out of the prover's reach. Of
`WaitEnds`, `AttemptEnds`, `CallEnds` and `EntryIsResolved` the safety half is proved, as
said above, and TLC checks the rest; `BatchWaitEnds`, `LostTransferStops` and
`CancelEndsPoll` are TLC's alone. Every other property of a passing run is proved.

## 6. Plan

In this order, the most important behaviour first.

1. Done: relay client, backend attempt, completion with resumed batches and
   positions, swap form, detailed status, sponsoring, connection dialog and EVM
   connection, Privy connector; proofs of all of them, and the run-down of every wait
   but the form's batch and the status poll, which are next to prove.
2. The batch connect and disconnect as a second client of the connection, and the
   hydrators of Solana and Sui, which differ from the EVM's.
3. The Radfi session: two calls that spend one rotating refresh token.
4. The approval that funds a position, and the approvals of the other features,
   before `Completion`'s broadcast.

## 7. Not modelled

- Amounts, fees, quotes, slippage, position maths, intent and payload encoding:
  computations without control. The models know which packet, which transaction
  and which intent, not how much.
- The builders of the per-chain deposits and calls, wallet providers and
  connectors: they pass through to libraries outside this repository.
- REST clients, schemas, URL building, analytics, logging: one request or none
  each. The error mappings that properties depend on are in the models.
- The dialog over chains whose `connect` answers with the account (Bitcoin, ICON, Stellar,
  NEAR, Stacks, Injective): it skips the wait for an entry (`useWalletModal.ts:223-228`).
- Batch connect and disconnect, the Radfi session, the sponsoring status lookup with
  its base-reserve cache: see the plan. The lookup drives a hint, no transaction.
- Privy's published errors, an unmounted bridge, a storage that refuses writes, and the
  `accountsChanged` and `disconnect` callbacks of a provider that never calls them.
- Recovery and partner fee claims: single calls through the relay client, which
  is modelled.
- Types, vendored libraries, assets, examples, scripts and documentation.
- The relay, the solver, the backend and the chains themselves: modelled from how
  the SDK uses them, and marked external in `PROJECT.json`.
- A reload of the page in the middle of a call: nothing is persisted by the SDK, so
  there is no state to recover. A batch id that is lost this way is listed as a
  hazard.
