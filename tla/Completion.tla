----------------------------- MODULE Completion -----------------------------
(***************************************************************************)
(* How the SDK carries one operation from its source transaction to the    *)
(* hub and beyond: every call site of relayTxAndWaitPacket.  They share one *)
(* skeleton: create and broadcast, [backend attempt], [verify], [relay and  *)
(* wait | wait for the hub receipt], [wait for the second leg], [read the   *)
(* intent back], [notify the solver].  Which brackets an operation has is   *)
(* its profile.                                                            *)
(*                                                                         *)
(* The backend, the relay, the solver and the source chain run beside the  *)
(* client.  The backend keeps working on a submission after the client has *)
(* given up on it, so both may relay and notify the same transaction.      *)
(*                                                                         *)
(* relayTxAndWaitPacket appears as RelayPromise specifies it and the       *)
(* backend attempt by its outcome; RelayClient and BackendAttempt hold     *)
(* their detail.  `now` runs while the client waits under a budget and     *)
(* `entered` is the time the current phase began.                          *)
(***************************************************************************)
EXTENDS Integers

CONSTANTS
  Operations,  \* operations to run, a subset of AllOperations
  Timeouts,    \* callers' timeouts, resolved
  Floor,       \* RELAY_FALLBACK_FLOOR_MS
  VerifyTime,  \* pollingConfig.maxTimeoutMs of the source chain
  BatchWait    \* DEFAULT_RELAY_TX_TIMEOUT, the least wait of a resumed batch

\* The two-step operations have a backend API.
TwoStep == {"swap", "vaultSwap", "bridge"}
MoneyMarket == {"supply", "borrow", "withdraw", "repay"}
Staking == {"stake", "unstake", "instantUnstake", "claim", "cancelUnstake"}
Dex == {"assetDeposit", "assetWithdraw", "supplyLiquidity", "increaseLiquidity",
        "decreaseLiquidity", "claimRewards"}
Migration == {"migratebnUSD", "migrateIcxToSoda", "revertMigrateSodaToIcx", "migrateBaln"}
\* An approval batch that an earlier call left unconfirmed, finished by a new one.
Resumed == {"resumedSwap", "resumedVaultSwap", "resumedBridge"}
\* Leverage positions: an open or a call of the hub wallet, with or without
\* reporting the intent it posts.
Positions == {"openPosition", "operatePosition", "openLeveragePosition",
              "submitLeveragePositionIntent"}
AllOperations == TwoStep \cup MoneyMarket \cup Staking \cup Dex \cup Migration
                 \cup Resumed \cup Positions \cup {"cancelIntent"}

ASSUME CompletionAssumption ==
  /\ Operations \subseteq AllOperations
  /\ Timeouts \subseteq Nat /\ Floor \in Nat /\ VerifyTime \in Nat /\ BatchWait \in Nat

VARIABLES
  op, route,   \* the operation and where it goes
  timeout,     \* resolved timeout of the call
  pc,          \* phase of the call
  now, entered,
  result,      \* what the call returned
  srcTx,       \* the source transaction: none, pending, confirmed, reverted
  registered,  \* the relay holds it
  delivered,   \* its packet is executed on the hub
  settled,     \* the second leg is executed on the destination chain
  notified,    \* the solver knows the hub transaction
  posted,      \* the backend was asked to take over
  backend      \* its record: none, working, complete, stopped

call == <<op, route, timeout, pc, now, entered, result>>
world == <<srcTx, registered, delivered, settled, notified, posted, backend>>
vars == <<call, world>>

\* srcHub and dstHub: an end of the operation is the hub (Sonic).  dstRouter:
\* the destination address is the wallet router.  checked: verifyTxHash waits
\* for a receipt on this source chain (NEAR, Stellar, Sui, Stacks) instead of
\* returning true.
Routes == {r \in [srcHub : BOOLEAN, dstHub : BOOLEAN, dstRouter : BOOLEAN,
                  checked : BOOLEAN] : r.srcHub => ~r.checked}

-----------------------------------------------------------------------------
(* Profiles: the steps of the skeleton an operation takes, and its habits:  *)
(* "floor", its relay wait has a least budget; "traced", its failures after *)
(* the broadcast carry the transaction; "raw", it hands on the relay's      *)
(* error unmapped.                                                          *)

\* Nothing has to be relayed when the source chain is the hub.
OffHub == IF route.srcHub THEN {} ELSE {"relay"}

Swap == {"backend", "verify", "notify", "floor", "traced"} \cup OffHub
VaultSwap == {"backend", "verify", "notify", "floor", "traced"} \cup OffHub
Bridge == {"backend", "verify", "relay", "floor", "traced"}
CancelIntent == {"verify", "raw"} \cup OffHub

Supply == {"verify"} \cup OffHub
Repay == {"verify"} \cup OffHub
\* Tokens may have to leave the hub after an operation that started there.
Borrow == {"verify"} \cup (IF route.srcHub /\ route.dstHub THEN {} ELSE {"relay"})
Withdraw == {"verify"} \cup
  (IF route.srcHub /\ (route.dstHub \/ route.dstRouter) THEN {} ELSE {"relay"})

Stake == {"verify"} \cup OffHub
Unstake == OffHub
InstantUnstake == OffHub
Claim == OffHub
CancelUnstake == OffHub

AssetDeposit == {"raw"} \cup OffHub
AssetWithdraw == {"raw"} \cup OffHub
SupplyLiquidity == {"raw"} \cup OffHub
IncreaseLiquidity == {"raw"} \cup OffHub
DecreaseLiquidity == {"raw"} \cup OffHub
ClaimRewards == {"raw"} \cup OffHub

\* bnUSD from one spoke to another crosses the hub: a second packet follows.
MigratebnUSD == {"verify", "relay"} \cup
  (IF route.srcHub \/ route.dstHub THEN {} ELSE {"second"})
MigrateIcxToSoda == {"relay"}
RevertMigrateSodaToIcx == {"relay"}
MigrateBaln == {"relay"}

\* The intent went with the call that sent the batch: it is read from the hub.
ResumedSwap == {"relay", "read", "notify", "floor", "traced"}
ResumedVaultSwap == {"relay", "read", "notify", "floor", "traced"}
ResumedBridge == {"relay", "floor", "traced"}

\* settleHubWalletMessage: a hub transaction is waited for instead of relayed.
SettleHubWallet == {"verify"} \cup (IF route.srcHub THEN {"receipt"} ELSE {"relay"})
OpenPosition == SettleHubWallet
OperatePosition == SettleHubWallet
OpenLeveragePosition == {"report"} \cup OpenPosition
SubmitLeveragePositionIntent == {"report"} \cup OperatePosition

Profile ==
  CASE op = "swap" -> Swap
    [] op = "vaultSwap" -> VaultSwap
    [] op = "bridge" -> Bridge
    [] op = "cancelIntent" -> CancelIntent
    [] op = "supply" -> Supply
    [] op = "borrow" -> Borrow
    [] op = "withdraw" -> Withdraw
    [] op = "repay" -> Repay
    [] op = "stake" -> Stake
    [] op = "unstake" -> Unstake
    [] op = "instantUnstake" -> InstantUnstake
    [] op = "claim" -> Claim
    [] op = "cancelUnstake" -> CancelUnstake
    [] op = "assetDeposit" -> AssetDeposit
    [] op = "assetWithdraw" -> AssetWithdraw
    [] op = "supplyLiquidity" -> SupplyLiquidity
    [] op = "increaseLiquidity" -> IncreaseLiquidity
    [] op = "decreaseLiquidity" -> DecreaseLiquidity
    [] op = "claimRewards" -> ClaimRewards
    [] op = "migratebnUSD" -> MigratebnUSD
    [] op = "migrateIcxToSoda" -> MigrateIcxToSoda
    [] op = "revertMigrateSodaToIcx" -> RevertMigrateSodaToIcx
    [] op = "migrateBaln" -> MigrateBaln
    [] op = "resumedSwap" -> ResumedSwap
    [] op = "resumedVaultSwap" -> ResumedVaultSwap
    [] op = "resumedBridge" -> ResumedBridge
    [] op = "openPosition" -> OpenPosition
    [] op = "operatePosition" -> OperatePosition
    [] op = "openLeveragePosition" -> OpenLeveragePosition
    [] op = "submitLeveragePositionIntent" -> SubmitLeveragePositionIntent

UsesBackend == "backend" \in Profile
Verifies == "verify" \in Profile
NeedsRelay == "relay" \in Profile
NeedsReceipt == "receipt" \in Profile
NeedsSecondLeg == "second" \in Profile
ReadsIntent == "read" \in Profile
Notifies == "notify" \in Profile
Reports == "report" \in Profile

\* What an operation does not look at is FALSE in its route; ICX and BALN come
\* from ICON, the revert from the hub, a batch from an EVM spoke.
RouteFits ==
  /\ route.dstHub => op \in {"borrow", "withdraw", "migratebnUSD"}
  /\ route.dstRouter => op = "withdraw"
  /\ route.checked => Verifies
  /\ route.srcHub => op \notin Resumed \cup {"migrateIcxToSoda", "migrateBaln"}
  /\ op = "revertMigrateSodaToIcx" => route.srcHub

Larger(a, b) == IF a < b THEN b ELSE a

\* The budget of the relay wait: the caller's full timeout, counted from the
\* wait itself, and the floor at least where there is one.  A resumed batch is
\* never given less than the default.
RelayBudget ==
  LET asked == IF op \in Resumed THEN Larger(timeout, BatchWait) ELSE timeout
  IN IF "floor" \in Profile THEN Larger(asked, Floor) ELSE asked

\* mapRelayFailure.
MappedCode(c) ==
  IF "raw" \in Profile THEN c
  ELSE CASE c = "RELAY_TIMEOUT" -> "RELAY_TIMEOUT"
         [] c = "SUBMIT_TX_FAILED" -> "TX_SUBMIT_FAILED"
         [] OTHER -> "RELAY_FAILED"
\* Slip: the message of an unknown failure is taken for a relay code.
UncheckedRelayCode(c) == IF "raw" \in Profile THEN "none" ELSE c

MappedRelayCode(c) ==
  IF "raw" \in Profile THEN "none"
  ELSE IF c = "RAW_ERROR" THEN "UNKNOWN" ELSE c

-----------------------------------------------------------------------------
(* The client. *)

\* `src` and `dst`: the returned value or error names that transaction.
NoResult == [code |-> "none", relayCode |-> "none", src |-> FALSE, dst |-> FALSE]
Failure(c, rc, src, dst) == [code |-> c, relayCode |-> rc, src |-> src, dst |-> dst]
Success == [code |-> "OK", relayCode |-> "none", src |-> TRUE, dst |-> TRUE]

\* The solver was not told of a posted intent: still a success, which says so.
Unreported == Failure("OK_UNNOTIFIED", "none", TRUE, TRUE)

\* Slip: the transaction is added to the errors of the relay only.
NamedByRelay == "traced" \in Profile /\ pc # "verify"

\* txCtx: what the failures after the broadcast carry.
NamesTx == "traced" \in Profile

Return(r) == /\ pc' = "done" /\ result' = r
             /\ UNCHANGED <<op, route, timeout, now, entered>>
Enter(phase) == /\ pc' = phase /\ entered' = now
                /\ UNCHANGED <<op, route, timeout, now, result>>

CreateFails ==
  /\ pc = "create"
  /\ Return(Failure("INTENT_CREATION_FAILED", "none", FALSE, FALSE))
  /\ UNCHANGED world

\* The batch is still unconfirmed: no transaction of it is known.
BatchUnconfirmed ==
  /\ pc = "create" /\ op \in Resumed
  /\ Return(Failure("TX_VERIFICATION_FAILED", "none", FALSE, FALSE))
  /\ UNCHANGED world

AfterBroadcast == IF Verifies THEN "verify" ELSE "relay"

\* relay stands for the choice the code makes right before relaying.
Broadcast(useBackend) ==
  /\ pc = "create"
  /\ useBackend => UsesBackend
  /\ op \notin Resumed
  /\ srcTx' = "pending"
  /\ Enter(IF useBackend THEN "backend" ELSE AfterBroadcast)
  /\ UNCHANGED <<registered, delivered, settled, notified, posted, backend>>

\* The wallet names the transaction that carried the batch's deposit.
BatchConfirmed ==
  /\ pc = "create" /\ op \in Resumed
  /\ srcTx' = "confirmed"
  /\ Enter("relay")
  /\ UNCHANGED <<registered, delivered, settled, notified, posted, backend>>

\* The POST goes out only with a budget to spend on it.
PostToBackend ==
  /\ pc = "backend" /\ ~posted /\ timeout > 0
  /\ posted' = TRUE
  /\ UNCHANGED <<call, srcTx, registered, delivered, settled, notified, backend>>
\* Slip: a submission still in progress counts as completed.
SucceedsEarly ==
  /\ pc = "backend" /\ backend # "none"
  /\ Return(Success)
  /\ UNCHANGED world

\* The attempt saw the backend complete the submission.
BackendSucceeds ==
  /\ pc = "backend" /\ backend = "complete"
  /\ Return(Success)
  /\ UNCHANGED world

\* Any other end of the attempt: skipped, rejected, failed or abandoned at any
\* time, and timed out at the latest.  The fallback starts, whatever the backend
\* goes on to do.
BackendGivesUp ==
  /\ pc = "backend"
  /\ Enter("verify")
  /\ UNCHANGED world

\* Slip: the attempt has no budget of its own.
UnboundedAttempt == FALSE /\ BackendGivesUp

BackendTimesOut == now - entered >= timeout /\ BackendGivesUp

Verified ==
  /\ pc = "verify"
  /\ route.checked => srcTx = "confirmed"
  /\ Enter("relay")
  /\ UNCHANGED world

\* No receipt in time, a reverted one, or an RPC failure.
VerifyFails ==
  /\ pc = "verify" /\ route.checked
  /\ Return(Failure("TX_VERIFICATION_FAILED", "none", NamesTx, FALSE))
  /\ UNCHANGED world

VerifyTimesOut == now - entered >= VerifyTime /\ VerifyFails

\* Slip: the second leg is not waited for.
HubIsTheEnd == IF ReadsIntent THEN Enter("read")
               ELSE IF Notifies \/ Reports THEN Enter("notify") ELSE Return(Success)

\* The hub transaction is known: wait for the second leg, read the intent back,
\* notify the solver, or return.
HubReached == IF NeedsSecondLeg THEN Enter("second")
              ELSE IF ReadsIntent THEN Enter("read")
              ELSE IF Notifies \/ Reports THEN Enter("notify") ELSE Return(Success)

RelayFails(c) == Return(Failure(MappedCode(c), MappedRelayCode(c), NamesTx, FALSE))

\* Slip: nothing is submitted without a budget to wait with.
RelayIfBudgeted ==
  /\ pc = "relay"
  /\ IF ~NeedsRelay THEN HubReached
     ELSE IF timeout > 0 THEN Enter("submit") ELSE RelayFails("RELAY_TIMEOUT")
  /\ UNCHANGED world

\* Slip: a hub transaction is taken for executed once it was broadcast.
RelayOrReturn ==
  /\ pc = "relay"
  /\ IF NeedsRelay THEN Enter("submit") ELSE HubReached
  /\ UNCHANGED world

RelayOrSkip ==
  /\ pc = "relay"
  /\ IF NeedsRelay THEN Enter("submit")
     ELSE IF NeedsReceipt THEN Enter("receipt") ELSE HubReached
  /\ UNCHANGED world

ReceiptSucceeded ==
  /\ pc = "receipt" /\ srcTx = "confirmed"
  /\ HubReached
  /\ UNCHANGED world

ReceiptReverted ==
  /\ pc = "receipt" /\ srcTx = "reverted"
  /\ Return(Failure("TX_VERIFICATION_FAILED", "none", NamesTx, FALSE))
  /\ UNCHANGED world

\* The wait for the receipt throws.
ReceiptFails ==
  /\ pc = "receipt"
  /\ Return(Failure("EXECUTION_FAILED", "none", NamesTx, FALSE))
  /\ UNCHANGED world

\* The hub client takes a timeout of zero for none.
ReceiptTimesOut == timeout > 0 /\ now - entered >= timeout /\ ReceiptFails

SubmitFails ==
  /\ pc = "submit"
  /\ \E c \in {"SUBMIT_TX_FAILED", "RAW_ERROR"} : RelayFails(c)
  /\ UNCHANGED world

SubmitAcknowledged ==
  /\ pc = "submit" /\ registered
  /\ Enter("wait")
  /\ UNCHANGED world

PacketFound ==
  /\ pc = "wait" /\ delivered
  /\ HubReached
  /\ UNCHANGED world

SecondPacketFound ==
  /\ pc = "second" /\ settled
  /\ Return(Success)
  /\ UNCHANGED world

Waiting == pc \in {"wait", "second"}
\* Slip: the budget is counted from the broadcast, the attempt and all.
SpentFromStart == now >= RelayBudget

BudgetSpent == now - entered >= RelayBudget

WaitTimesOut ==
  /\ Waiting /\ BudgetSpent
  /\ RelayFails("RELAY_TIMEOUT")
  /\ UNCHANGED world

PollingFails ==
  /\ Waiting /\ ~BudgetSpent
  /\ RelayFails("RELAY_POLLING_FAILED")
  /\ UNCHANGED world

IntentRead ==
  /\ pc = "read" /\ Enter("notify")
  /\ UNCHANGED world

\* Of the two services that read the intent back, one names the hub transaction.
IntentUnread ==
  /\ pc = "read"
  /\ Return(Failure("UNKNOWN", "none", NamesTx, op = "resumedVaultSwap"))
  /\ UNCHANGED world

SolverAgrees ==
  /\ pc = "notify" /\ notified
  /\ Return(Success)
  /\ UNCHANGED world

\* The solver answers with a typed error, or cannot be reached: SolverApiService
\* gives the second the shape of the first.
SolverRefuses ==
  /\ pc = "notify"
  /\ Return(IF Reports THEN Unreported
            ELSE Failure("EXTERNAL_API_ERROR", "none", TRUE, TRUE))
  /\ UNCHANGED world

\* The longest a phase waits.  The limits are taken from where they are kept: the
\* relay wait and the attempt end within their budgets by DeadlineHeld of RelayClient
\* and AttemptBounded of BackendAttempt, verification and receipt by the timeouts of
\* the chain clients.  Timers are due at the limit, so the clock does not pass it.
PhaseLimit == CASE pc = "backend" -> timeout
                [] pc = "verify" -> IF route.checked THEN VerifyTime ELSE 0
                [] Waiting -> RelayBudget
                [] pc = "receipt" -> timeout
                [] OTHER -> 0
Tick ==
  /\ now - entered < PhaseLimit
  /\ now' = now + 1
  /\ UNCHANGED <<op, route, timeout, pc, entered, result, world>>

-----------------------------------------------------------------------------
(* The source chain, the relay, the backend and the solver. *)

Mine ==
  /\ srcTx = "pending"
  /\ srcTx' \in {"confirmed", "reverted"}
  /\ UNCHANGED <<call, registered, delivered, settled, notified, posted, backend>>

\* Submitted by the client or by the backend; the second submission is a no-op.
Register ==
  /\ pc = "submit" \/ backend = "working"
  /\ registered' = TRUE
  /\ UNCHANGED <<call, srcTx, delivered, settled, notified, posted, backend>>

Deliver ==
  /\ registered /\ srcTx = "confirmed"
  /\ delivered' = TRUE
  /\ UNCHANGED <<call, srcTx, registered, settled, notified, posted, backend>>

Settle ==
  /\ delivered
  /\ settled' = TRUE
  /\ UNCHANGED <<call, srcTx, registered, delivered, notified, posted, backend>>

\* The solver accepts a hub transaction that exists, from either sender.
OnHub == delivered \/ (~NeedsRelay /\ srcTx = "confirmed")
Notify ==
  /\ pc = "notify" \/ backend = "working"
  /\ Notifies \/ Reports
  /\ OnHub
  /\ notified' = TRUE
  /\ UNCHANGED <<call, srcTx, registered, delivered, settled, posted, backend>>

BackendQueues ==
  /\ posted /\ backend = "none"
  /\ backend' = "working"
  /\ UNCHANGED <<call, srcTx, registered, delivered, settled, notified, posted>>
BackendEnds ==
  /\ backend = "working"
  /\ \/ backend' = "stopped"
     \/ OnHub /\ (Notifies => notified) /\ backend' = "complete"
  /\ UNCHANGED <<call, srcTx, registered, delivered, settled, notified, posted>>
-----------------------------------------------------------------------------
Init ==
  /\ op \in Operations /\ route \in Routes /\ timeout \in Timeouts
  /\ RouteFits
  /\ pc = "create" /\ now = 0 /\ entered = 0 /\ result = NoResult
  /\ srcTx = "none" /\ backend = "none"
  /\ registered = FALSE /\ delivered = FALSE /\ settled = FALSE
  /\ notified = FALSE /\ posted = FALSE

\* What happens without anybody's answer: code that runs on, and timers.
Timers == BackendTimesOut \/ Verified \/ VerifyTimesOut \/ RelayOrSkip
          \/ ReceiptTimesOut \/ WaitTimesOut \/ Tick
Answers == \/ CreateFails \/ BatchUnconfirmed \/ BatchConfirmed
           \/ \E b \in BOOLEAN : Broadcast(b)
           \/ PostToBackend \/ BackendSucceeds \/ BackendGivesUp \/ VerifyFails
           \/ ReceiptSucceeded \/ ReceiptReverted \/ ReceiptFails
           \/ SubmitFails \/ SubmitAcknowledged
           \/ PacketFound \/ SecondPacketFound \/ PollingFails
           \/ IntentRead \/ IntentUnread \/ SolverAgrees \/ SolverRefuses
Environment == Mine \/ Register \/ Deliver \/ Settle \/ Notify
               \/ BackendQueues \/ BackendEnds

Next == Timers \/ Answers \/ Environment

\* The client's code runs and its timers fire.  Nothing is assumed of the wallet,
\* of the network and of the services behind it.
Spec == Init /\ [][Next]_vars /\ WF_vars(Timers)

-----------------------------------------------------------------------------
Codes == {"none", "OK", "OK_UNNOTIFIED", "INTENT_CREATION_FAILED", "TX_VERIFICATION_FAILED",
          "TX_SUBMIT_FAILED", "RELAY_TIMEOUT", "RELAY_FAILED",
          "EXTERNAL_API_ERROR", "EXECUTION_FAILED", "UNKNOWN",
          "SUBMIT_TX_FAILED", "RAW_ERROR", "RELAY_POLLING_FAILED"}
RelayCodes == {"none", "SUBMIT_TX_FAILED", "RELAY_TIMEOUT",
               "RELAY_POLLING_FAILED", "UNKNOWN"}

\* The types of the call and of the world around it, as the services keep them.
TypeOK ==
  /\ op \in Operations /\ route \in Routes /\ timeout \in Timeouts
  /\ pc \in {"create", "backend", "verify", "relay", "receipt", "submit", "wait",
             "second", "read", "notify", "done"}
  /\ now \in Nat /\ entered \in Nat
  /\ result \in [code : Codes, relayCode : RelayCodes, src : BOOLEAN, dst : BOOLEAN]
  /\ srcTx \in {"none", "pending", "confirmed", "reverted"}
  /\ backend \in {"none", "working", "complete", "stopped"}
  /\ registered \in BOOLEAN /\ delivered \in BOOLEAN /\ settled \in BOOLEAN
  /\ notified \in BOOLEAN /\ posted \in BOOLEAN

\* Success is reported only for a transaction that reached the hub whenever it
\* had to be relayed, that the solver was told of when it needs to be (a posted
\* position intent may stay untold, and the result says so), and whose second
\* leg arrived when there is one, whichever of the client and the backend got it
\* there.
Succeeded == result.code \in {"OK", "OK_UNNOTIFIED"}
SuccessMeansDone ==
  Succeeded =>
    /\ NeedsRelay => delivered
    /\ Notifies \/ (Reports /\ result.code = "OK") => notified
    /\ NeedsSecondLeg => settled

\* A position operation or a resumed batch succeeds only once its source
\* transaction has landed, on the hub as well as on a spoke: a caller that then
\* reports or settles the position acts on a transaction that exists.
SuccessMeansLanded ==
  Succeeded /\ op \in Positions \cup Resumed => srcTx = "confirmed"

\* A failure after the relay was reached leaves the transaction with the relay,
\* except when the submit itself is what failed: a backend that gives up, or a
\* timeout of zero, never strands a landed transaction unrelayed.
NothingStranded ==
  pc = "done" /\ srcTx # "none" /\ NeedsRelay
    /\ result.code \notin {"TX_VERIFICATION_FAILED", "TX_SUBMIT_FAILED",
                           "SUBMIT_TX_FAILED", "RAW_ERROR"}
    /\ ~(result.code = "RELAY_FAILED" /\ result.relayCode = "UNKNOWN")
  => registered

\* RELAY_TIMEOUT is reported only after the relay was waited for as long as the
\* caller allowed, and for the floor at least where there is one, no matter what
\* the backend attempt and the verification had already spent.
FullRelayWait ==
  result.code = "RELAY_TIMEOUT" =>
    /\ now - entered >= timeout
    /\ op \in TwoStep \cup Resumed => now - entered >= Floor

\* Every failure of a two-step operation or a resumed batch after its transaction
\* is known names it; one of the notification names the hub transaction too, which
\* was then delivered if it had to be, and none that came before the hub does.
\* That is what reading the status again, or notifying again, needs.
FailureKeepsTx ==
  pc = "done" /\ op \in TwoStep \cup Resumed /\ srcTx # "none" =>
    /\ result.src
    /\ result.code = "EXTERNAL_API_ERROR" => result.dst
    /\ result.dst => result.code \in {"OK", "EXTERNAL_API_ERROR", "UNKNOWN"}
    /\ result.dst /\ NeedsRelay => delivered

\* What a failure tells the caller is so: a timeout was waited for in full, and the
\* transaction to recover is in the error.
FailureIsTrue == FullRelayWait /\ FailureKeepsTx

\* No phase with a budget outlives it: a call that is not waiting for the wallet,
\* for the relay to take the transaction, for a receipt without a limit, or for
\* the hub's or the solver's answer, moves on to one of these or returns.
CallEnds ==
  pc \in {"backend", "verify", "relay", "wait", "second"} \/ (pc = "receipt" /\ timeout > 0)
    ~> pc \in {"submit", "read", "notify", "done"} \/ (pc = "receipt" /\ timeout = 0)

-----------------------------------------------------------------------------
(* What comments of the code say and the code does not keep.                *)

\* SwapService: the broadcast transaction has landed before it is relayed.
\* verifyTxHash answers true at once on most chains.
RelaysOnlyLanded == pc = "submit" /\ Verifies => srcTx = "confirmed"

-----------------------------------------------------------------------------
\* The call implements its promise.
Promise == INSTANCE CompletionPromise WITH
  sent <- srcTx # "none",
  effects <- (IF delivered THEN {"delivered"} ELSE {})
             \cup (IF notified THEN {"notified"} ELSE {})
             \cup (IF settled THEN {"settled"} ELSE {}),
  needed <- (IF NeedsRelay THEN {"delivered"} ELSE {})
            \cup (IF Notifies THEN {"notified"} ELSE {})
            \cup (IF NeedsSecondLeg THEN {"settled"} ELSE {}),
  verdict <- IF result.code = "none" THEN "pending"
             ELSE IF Succeeded THEN "success" ELSE "failure"
ImplementsPromise == Promise!Spec
=============================================================================
