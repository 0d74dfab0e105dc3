-------------------------- MODULE CompletionProofs --------------------------
(***************************************************************************)
(* Proofs about Completion for every set of operations, every timeout,     *)
(* floor and verification time: what a success and each failure say about  *)
(* the transaction, and that the call implements CompletionPromise.        *)
(*                                                                         *)
(* The inductive invariant says, phase by phase, what the client has       *)
(* already established (Progress), what the backend can have established   *)
(* instead (BackendIsHonest), and what a returned result says (Verdict).   *)
(***************************************************************************)
EXTENDS Completion, TLAPS

\* The clock of a phase runs forward, and stands still where there is no budget.
Clock == entered <= now

\* A packet is delivered and settled only after the relay got its transaction and
\* that landed, and the second leg follows the first.
RelayOrder == /\ delivered => registered /\ srcTx = "confirmed"
              /\ settled => delivered
              /\ srcTx = "none" => ~registered /\ ~notified /\ ~posted

\* What the backend reports as complete is complete, and only the two-step
\* operations ever ask it.
BackendIsHonest ==
  /\ posted => UsesBackend
  /\ backend # "none" => posted
  /\ backend = "complete" => (NeedsRelay => delivered) /\ (Notifies => notified)

\* The transaction is where the operation needs it: delivered by the relay, or
\* landed on the hub where that is waited for.
OnHubNow == /\ NeedsRelay => delivered
            /\ NeedsReceipt => srcTx = "confirmed"

\* What the client knows when it enters a phase.
Progress ==
  /\ pc \notin {"create", "done"} => srcTx # "none"
  /\ pc = "create" => srcTx = "none"
  /\ pc = "backend" => UsesBackend
  /\ pc \in {"submit", "wait"} => NeedsRelay
  /\ pc = "wait" => registered
  /\ pc = "second" => NeedsSecondLeg /\ delivered
  /\ pc = "receipt" => NeedsReceipt
  /\ pc = "read" => ReadsIntent
  /\ pc = "notify" => Notifies \/ Reports
  /\ pc \in {"read", "notify"} => OnHubNow
  /\ pc # "done" => result = NoResult

Verdict ==
  /\ SuccessMeansDone
  /\ SuccessMeansLanded
  /\ NothingStranded
  /\ FullRelayWait
  /\ FailureKeepsTx
  /\ pc = "done" => result.code # "none"
  /\ Succeeded => srcTx # "none"

Inductive == TypeOK /\ Clock /\ RelayOrder /\ BackendIsHonest /\ Progress /\ Verdict

-----------------------------------------------------------------------------
\* The routing decisions are made once: they depend on the operation and its route.
LEMMA RoutingIsFixed ==
  ASSUME UNCHANGED <<op, route>>
  PROVE  UNCHANGED <<Profile, NeedsRelay, NeedsReceipt, ReadsIntent, Notifies, Reports,
                     NeedsSecondLeg, UsesBackend, NamesTx>>
<1>1. UNCHANGED Profile
  BY DEF Profile, OffHub, Swap, VaultSwap, Bridge, CancelIntent, Supply, Repay, Borrow,
       Withdraw, Stake, Unstake, InstantUnstake, Claim, CancelUnstake, AssetDeposit,
       AssetWithdraw, SupplyLiquidity, IncreaseLiquidity, DecreaseLiquidity,
       ClaimRewards, MigratebnUSD, MigrateIcxToSoda, RevertMigrateSodaToIcx, MigrateBaln,
       ResumedSwap, ResumedVaultSwap, ResumedBridge, SettleHubWallet, OpenPosition,
       OperatePosition, OpenLeveragePosition, SubmitLeveragePositionIntent
<1> QED
  BY <1>1 DEF NeedsRelay, NeedsReceipt, ReadsIntent, Notifies, Reports, NeedsSecondLeg,
       UsesBackend, NamesTx

\* Operations are among those that have a profile.
LEMMA KnownOperation ==
  Inductive => op \in AllOperations
BY CompletionAssumption DEF Inductive, TypeOK

\* What the profiles have in common, whatever the route: who is traced and who has a
\* floor, who ends where, and that a position or a resumed batch reaches the hub by the
\* relay or by its receipt.
LEMMA Profiles ==
  ASSUME op \in AllOperations
  PROVE  /\ op \in TwoStep \cup Resumed => "traced" \in Profile /\ "floor" \in Profile
         /\ UsesBackend => op \in TwoStep /\ ~ReadsIntent /\ ~Reports /\ ~NeedsReceipt
         /\ NeedsSecondLeg => NeedsRelay /\ ~Notifies /\ ~Reports /\ ~UsesBackend
         /\ op \in Resumed => NeedsRelay /\ ~NeedsSecondLeg /\ ~Reports
         /\ op \in Positions => NeedsRelay \/ NeedsReceipt
         /\ NeedsReceipt => ~NeedsRelay
         /\ ReadsIntent => Notifies /\ op \in Resumed
         /\ Notifies => ~Reports
         /\ Reports => op \in Positions
<1> DEFINE Common ==
      /\ op \in TwoStep \cup Resumed => "traced" \in Profile /\ "floor" \in Profile
      /\ "backend" \in Profile => /\ op \in TwoStep
           /\ "read" \notin Profile /\ "report" \notin Profile /\ "receipt" \notin Profile
      /\ "second" \in Profile => /\ "relay" \in Profile /\ "notify" \notin Profile
           /\ "report" \notin Profile /\ "backend" \notin Profile
      /\ op \in Resumed => /\ "relay" \in Profile
           /\ "second" \notin Profile /\ "report" \notin Profile
      /\ op \in Positions => "relay" \in Profile \/ "receipt" \in Profile
      /\ "receipt" \in Profile => "relay" \notin Profile
      /\ "read" \in Profile => "notify" \in Profile /\ op \in Resumed
      /\ "notify" \in Profile => "report" \notin Profile
      /\ "report" \in Profile => op \in Positions
<1> SUFFICES Common
  BY DEF NeedsRelay, NeedsReceipt, ReadsIntent, Notifies, Reports, NeedsSecondLeg,
       UsesBackend
<1>1. CASE op \in TwoStep
  <2>1. /\ op = "swap" => Profile = Swap
        /\ op = "vaultSwap" => Profile = VaultSwap
        /\ op = "bridge" => Profile = Bridge
    BY DEF Profile
  <2> QED
    BY <1>1, <2>1 DEF TwoStep, Resumed, Positions, Swap, VaultSwap, Bridge, OffHub
<1>2. CASE op \in MoneyMarket
  <2>1. /\ op = "supply" => Profile = Supply
        /\ op = "borrow" => Profile = Borrow
        /\ op = "withdraw" => Profile = Withdraw
        /\ op = "repay" => Profile = Repay
    BY DEF Profile
  <2> QED
    BY <1>2, <2>1 DEF TwoStep, Resumed, Positions, MoneyMarket, Supply, Borrow, Withdraw,
         Repay, OffHub
<1>3. CASE op \in Staking
  <2>1. /\ op = "stake" => Profile = Stake
        /\ op = "unstake" => Profile = Unstake
        /\ op = "instantUnstake" => Profile = InstantUnstake
        /\ op = "claim" => Profile = Claim
        /\ op = "cancelUnstake" => Profile = CancelUnstake
    BY DEF Profile
  <2> QED
    BY <1>3, <2>1 DEF TwoStep, Resumed, Positions, Staking, Stake, Unstake,
         InstantUnstake, Claim, CancelUnstake, OffHub
<1>4. CASE op \in Dex
  <2>1. /\ op = "assetDeposit" => Profile = AssetDeposit
        /\ op = "assetWithdraw" => Profile = AssetWithdraw
        /\ op = "supplyLiquidity" => Profile = SupplyLiquidity
        /\ op = "increaseLiquidity" => Profile = IncreaseLiquidity
        /\ op = "decreaseLiquidity" => Profile = DecreaseLiquidity
        /\ op = "claimRewards" => Profile = ClaimRewards
    BY DEF Profile
  <2> QED
    BY <1>4, <2>1 DEF TwoStep, Resumed, Positions, Dex, AssetDeposit, AssetWithdraw,
         SupplyLiquidity, IncreaseLiquidity, DecreaseLiquidity, ClaimRewards, OffHub
<1>5. CASE op \in Migration
  <2>1. /\ op = "migratebnUSD" => Profile = MigratebnUSD
        /\ op = "migrateIcxToSoda" => Profile = MigrateIcxToSoda
        /\ op = "revertMigrateSodaToIcx" => Profile = RevertMigrateSodaToIcx
        /\ op = "migrateBaln" => Profile = MigrateBaln
    BY DEF Profile
  <2> QED
    BY <1>5, <2>1 DEF TwoStep, Resumed, Positions, Migration, MigratebnUSD,
         MigrateIcxToSoda, RevertMigrateSodaToIcx, MigrateBaln
<1>6. CASE op \in Resumed
  <2>1. /\ op = "resumedSwap" => Profile = ResumedSwap
        /\ op = "resumedVaultSwap" => Profile = ResumedVaultSwap
        /\ op = "resumedBridge" => Profile = ResumedBridge
    BY DEF Profile
  <2> QED
    BY <1>6, <2>1 DEF TwoStep, Resumed, Positions, ResumedSwap, ResumedVaultSwap,
         ResumedBridge
<1>7. CASE op \in Positions
  <2>1. /\ op = "openPosition" => Profile = OpenPosition
        /\ op = "operatePosition" => Profile = OperatePosition
        /\ op = "openLeveragePosition" => Profile = OpenLeveragePosition
        /\ op = "submitLeveragePositionIntent" => Profile = SubmitLeveragePositionIntent
    BY DEF Profile
  <2> QED
    BY <1>7, <2>1 DEF TwoStep, Resumed, Positions, OpenPosition, OperatePosition,
         OpenLeveragePosition, SubmitLeveragePositionIntent, SettleHubWallet
<1>8. CASE op = "cancelIntent"
  <2>1. Profile = CancelIntent
    BY <1>8 DEF Profile
  <2> QED
    BY <1>8, <2>1 DEF TwoStep, Resumed, Positions, CancelIntent, OffHub
<1> HIDE DEF Common
<1> QED
  BY <1>1, <1>2, <1>3, <1>4, <1>5, <1>6, <1>7, <1>8 DEF AllOperations

\* The budget of a relay wait is the caller's timeout at least.
LEMMA BudgetCoversTimeout ==
  ASSUME TypeOK
  PROVE  /\ RelayBudget \in Nat /\ RelayBudget >= timeout
         /\ op \in TwoStep \cup Resumed => RelayBudget >= Floor
<1>1. op \in AllOperations
  BY CompletionAssumption DEF TypeOK
<1>2. op \in TwoStep \cup Resumed => "floor" \in Profile
  BY <1>1, Profiles
<1> QED
  BY <1>2, CompletionAssumption DEF TypeOK, RelayBudget, Larger

\* The relay's codes are mapped to codes that say no more than they do.
LEMMA MappedCodes ==
  ASSUME NEW c \in {"SUBMIT_TX_FAILED", "RAW_ERROR", "RELAY_TIMEOUT",
                "RELAY_POLLING_FAILED"}
  PROVE  /\ MappedCode(c) \in Codes \ {"none", "OK", "OK_UNNOTIFIED",
                                        "EXTERNAL_API_ERROR", "UNKNOWN"}
         /\ MappedRelayCode(c) \in RelayCodes
         /\ MappedCode(c) = "RELAY_TIMEOUT" => c = "RELAY_TIMEOUT"
         /\ c = "SUBMIT_TX_FAILED" => MappedCode(c) \in {"TX_SUBMIT_FAILED",
                                                         "SUBMIT_TX_FAILED"}
         /\ c = "RAW_ERROR" => MappedCode(c) = "RAW_ERROR"
              \/ (MappedCode(c) = "RELAY_FAILED" /\ MappedRelayCode(c) = "UNKNOWN")
BY DEF MappedCode, MappedRelayCode, Codes, RelayCodes

\* The initial states satisfy the inductive invariant.
LEMMA InitInductive == Init => Inductive
<1> SUFFICES ASSUME Init PROVE Inductive
  OBVIOUS
<1>1. result \in [code : Codes, relayCode : RelayCodes, src : BOOLEAN, dst : BOOLEAN]
      /\ result.code = "none"
  BY DEF Init, NoResult, Codes, RelayCodes
<1>2. TypeOK
  BY <1>1 DEF Init, TypeOK
<1>3. Clock /\ RelayOrder /\ BackendIsHonest /\ Progress
  BY DEF Init, Clock, RelayOrder, BackendIsHonest, Progress
<1>4. Verdict
  BY <1>1 DEF Init, Verdict, SuccessMeansDone, SuccessMeansLanded, Succeeded,
       NothingStranded, FullRelayWait, FailureKeepsTx
<1> QED
  BY <1>2, <1>3, <1>4 DEF Inductive

-----------------------------------------------------------------------------
(* The two ways a step of the client leaves its phase: into another one,    *)
(* or out of the call.                                                      *)

LEMMA EnterInductive ==
  ASSUME Inductive, NEW phase \in {"backend", "verify", "relay", "receipt", "submit",
                               "wait", "second", "read", "notify"},
         Enter(phase), UNCHANGED world, srcTx # "none", pc # "done",
         phase = "backend" => UsesBackend,
         phase \in {"submit", "wait"} => NeedsRelay,
         phase = "wait" => registered,
         phase = "receipt" => NeedsReceipt,
         phase = "second" => NeedsSecondLeg /\ delivered,
         phase = "read" => ReadsIntent,
         phase = "notify" => Notifies \/ Reports,
         phase \in {"read", "notify"} => OnHubNow
  PROVE  Inductive'
<1>1. UNCHANGED <<op, route, timeout, now, result, srcTx, registered, delivered, settled,
                  notified, posted, backend>>
      /\ pc' = phase /\ entered' = now
  BY DEF Enter, world
<1>2. UNCHANGED <<Profile, NeedsRelay, NeedsReceipt, ReadsIntent, Notifies, Reports,
                  NeedsSecondLeg, UsesBackend, NamesTx>>
  BY <1>1, RoutingIsFixed
<1>3. result.code = "none"
  BY DEF Inductive, Progress, NoResult
<1> USE <1>1, <1>2 DEF Inductive
<1>4. TypeOK'
  BY DEF TypeOK
<1>5. Clock' /\ RelayOrder' /\ BackendIsHonest'
  BY DEF TypeOK, Clock, RelayOrder, BackendIsHonest
<1>6. Progress'
  BY DEF Progress, OnHubNow, NoResult
<1>7. Verdict'
  BY <1>3 DEF Verdict, SuccessMeansDone, SuccessMeansLanded, Succeeded, NothingStranded,
       FullRelayWait, FailureKeepsTx
<1> QED
  BY <1>4, <1>5, <1>6, <1>7

LEMMA ReturnInductive ==
  ASSUME Inductive, NEW c \in Codes \ {"none"}, NEW rc \in RelayCodes,
         NEW src \in BOOLEAN, NEW dst \in BOOLEAN,
         Return(Failure(c, rc, src, dst)),
         UNCHANGED <<srcTx, registered, delivered, settled, notified, posted, backend>>,
         c \in {"OK", "OK_UNNOTIFIED"} =>
           /\ srcTx # "none" /\ OnHubNow
           /\ (Notifies \/ (Reports /\ c = "OK") => notified)
           /\ (NeedsSecondLeg => settled),
         c \notin {"TX_VERIFICATION_FAILED", "TX_SUBMIT_FAILED", "SUBMIT_TX_FAILED",
                  "RAW_ERROR"}
           /\ srcTx # "none" /\ ~(c = "RELAY_FAILED" /\ rc = "UNKNOWN") /\ NeedsRelay
           => registered,
         c = "RELAY_TIMEOUT" =>
           /\ now - entered >= timeout
           /\ op \in TwoStep \cup Resumed => now - entered >= Floor,
         op \in TwoStep \cup Resumed /\ srcTx # "none" =>
           /\ src /\ (c = "EXTERNAL_API_ERROR" => dst)
           /\ (dst => c \in {"OK", "EXTERNAL_API_ERROR", "UNKNOWN"})
           /\ (dst /\ NeedsRelay => delivered)
  PROVE  Inductive'
<1>1. UNCHANGED <<op, route, timeout, now, entered>> /\ pc' = "done"
      /\ result' = [code |-> c, relayCode |-> rc, src |-> src, dst |-> dst]
  BY DEF Return, Failure
<1>2. UNCHANGED <<Profile, NeedsRelay, NeedsReceipt, ReadsIntent, Notifies, Reports,
                  NeedsSecondLeg, UsesBackend, NamesTx>>
  BY <1>1, RoutingIsFixed
<1> USE <1>1, <1>2 DEF Inductive
<1>3. TypeOK'
  BY DEF TypeOK
<1>4. Clock' /\ RelayOrder' /\ BackendIsHonest' /\ Progress'
  BY DEF Clock, RelayOrder, BackendIsHonest, Progress
<1>5. SuccessMeansDone' /\ NothingStranded' /\ FullRelayWait'
  BY DEF SuccessMeansDone, Succeeded, NothingStranded, FullRelayWait, OnHubNow
<1>6. FailureKeepsTx'
  BY DEF FailureKeepsTx
<1>7. SuccessMeansLanded'
  <2>1. op \in Positions \cup Resumed => NeedsRelay \/ NeedsReceipt
    BY KnownOperation, Profiles
  <2>2. OnHubNow /\ op \in Positions \cup Resumed => srcTx = "confirmed"
    BY <2>1 DEF OnHubNow, RelayOrder
  <2> QED
    BY <2>2 DEF SuccessMeansLanded, Succeeded
<1>8. Verdict'
  BY <1>5, <1>6, <1>7 DEF Verdict, Succeeded
<1> QED
  BY <1>3, <1>4, <1>8

\* A success returned from a phase whose requirements are met.
LEMMA SuccessInductive ==
  ASSUME Inductive, Return(Success), UNCHANGED world, srcTx # "none", OnHubNow,
         Notifies \/ Reports => notified, NeedsSecondLeg => settled
  PROVE  Inductive'
<1>1. Success = Failure("OK", "none", TRUE, TRUE)
  BY DEF Success, Failure
<1>2. NeedsRelay => registered /\ delivered
  BY DEF Inductive, RelayOrder, OnHubNow
<1>3. UNCHANGED <<srcTx, registered, delivered, settled, notified, posted, backend>>
  BY DEF world, Inductive, TypeOK
<1>4. "OK" \in Codes \ {"none"} /\ "none" \in RelayCodes
  BY DEF Codes, RelayCodes
<1> QED
  BY <1>1, <1>2, <1>3, <1>4, ReturnInductive

\* A failure the relay reported, mapped.
LEMMA RelayFailsInductive ==
  ASSUME Inductive, UNCHANGED world, srcTx # "none", pc # "done",
         NEW c \in {"SUBMIT_TX_FAILED", "RAW_ERROR", "RELAY_TIMEOUT",
                    "RELAY_POLLING_FAILED"},
         RelayFails(c),
         c \in {"RELAY_TIMEOUT", "RELAY_POLLING_FAILED"} => registered,
         c = "RELAY_TIMEOUT" => now - entered >= timeout
                                /\ (op \in TwoStep \cup Resumed => now - entered >= Floor)
  PROVE  Inductive'
<1>1. UNCHANGED <<srcTx, registered, delivered, settled, notified, posted, backend>>
  BY DEF world, Inductive, TypeOK
<1>2. NamesTx \in BOOLEAN /\ (op \in TwoStep \cup Resumed => NamesTx)
  BY Profiles, KnownOperation DEF NamesTx
<1>3. Return(Failure(MappedCode(c), MappedRelayCode(c), NamesTx, FALSE))
  BY DEF RelayFails
<1> QED
  BY <1>1, <1>2, <1>3, MappedCodes, ReturnInductive

\* The hub transaction is known: the second leg, the reading, the notification or
\* the success.
LEMMA HubReachedInductive ==
  ASSUME Inductive, HubReached, UNCHANGED world, srcTx # "none", pc # "done", OnHubNow
  PROVE  Inductive'
<1>1. CASE NeedsSecondLeg
  <2>1. Enter("second") /\ delivered
    BY <1>1, KnownOperation, Profiles DEF HubReached, OnHubNow
  <2> QED
    BY <1>1, <2>1, EnterInductive
<1>2. CASE ~NeedsSecondLeg /\ ReadsIntent
  <2>1. Enter("read")
    BY <1>2 DEF HubReached
  <2> QED
    BY <1>2, <2>1, EnterInductive
<1>3. CASE ~NeedsSecondLeg /\ ~ReadsIntent /\ (Notifies \/ Reports)
  <2>1. Enter("notify")
    BY <1>3 DEF HubReached
  <2> QED
    BY <1>3, <2>1, EnterInductive
<1>4. CASE ~NeedsSecondLeg /\ ~ReadsIntent /\ ~Notifies /\ ~Reports
  <2>1. Return(Success)
    BY <1>4 DEF HubReached
  <2> QED
    BY <1>4, <2>1, SuccessInductive
<1> QED
  BY <1>1, <1>2, <1>3, <1>4

-----------------------------------------------------------------------------
\* The failures before the relay: nothing was created, or it did not verify or did
\* not succeed on the hub.
LEMMA EarlyFailureInductive ==
  ASSUME Inductive, UNCHANGED world,
         \/ CreateFails \/ BatchUnconfirmed
         \/ \E c \in {"TX_VERIFICATION_FAILED", "EXECUTION_FAILED"} :
              /\ pc = "verify" \/ (pc = "receipt" /\ ~NeedsRelay)
              /\ pc = "verify" => c = "TX_VERIFICATION_FAILED"
              /\ Return(Failure(c, "none", NamesTx, FALSE))
  PROVE  Inductive'
<1>1. UNCHANGED <<srcTx, registered, delivered, settled, notified, posted, backend>>
  BY DEF world, Inductive, TypeOK
<1>2. {"INTENT_CREATION_FAILED", "TX_VERIFICATION_FAILED", "EXECUTION_FAILED"}
        \subseteq Codes \ {"none", "OK", "OK_UNNOTIFIED"}
      /\ "none" \in RelayCodes
  BY DEF Codes, RelayCodes
<1>3. CASE CreateFails
  <2>1. srcTx = "none" /\ Return(Failure("INTENT_CREATION_FAILED", "none", FALSE, FALSE))
    BY <1>3 DEF CreateFails, Inductive, Progress
  <2> QED
    BY <1>1, <1>2, <2>1, ReturnInductive
<1>4. CASE BatchUnconfirmed
  <2>1. srcTx = "none" /\ Return(Failure("TX_VERIFICATION_FAILED", "none", FALSE, FALSE))
    BY <1>4 DEF BatchUnconfirmed, Inductive, Progress
  <2> QED
    BY <1>1, <1>2, <2>1, ReturnInductive
<1>5. ASSUME NEW c \in {"TX_VERIFICATION_FAILED", "EXECUTION_FAILED"},
             pc = "verify" \/ (pc = "receipt" /\ ~NeedsRelay),
             pc = "verify" => c = "TX_VERIFICATION_FAILED",
             Return(Failure(c, "none", NamesTx, FALSE))
      PROVE  Inductive'
  <2>1. NamesTx \in BOOLEAN /\ (op \in TwoStep \cup Resumed => NamesTx)
    BY Profiles, KnownOperation DEF NamesTx
  <2> QED
    BY <1>1, <1>2, <1>5, <2>1, ReturnInductive
<1> QED
  BY <1>3, <1>4, <1>5

\* The backend attempt ends with a success or with the client's own work.
LEMMA BackendPhaseInductive ==
  Inductive /\ (BackendSucceeds \/ BackendGivesUp) => Inductive'
<1> SUFFICES ASSUME Inductive, BackendSucceeds \/ BackendGivesUp PROVE Inductive'
  OBVIOUS
<1>1. pc = "backend" /\ UsesBackend /\ srcTx # "none" /\ UNCHANGED world
  BY DEF BackendSucceeds, BackendGivesUp, Inductive, Progress
<1>2. CASE BackendSucceeds
  <2>1. Return(Success) /\ ~NeedsSecondLeg /\ ~Reports /\ OnHubNow /\ (Notifies => notified)
    BY <1>1, <1>2, KnownOperation, Profiles
    DEF BackendSucceeds, Inductive, BackendIsHonest, OnHubNow
  <2> QED
    BY <1>1, <2>1, SuccessInductive
<1>3. CASE BackendGivesUp
  BY <1>1, <1>3, EnterInductive DEF BackendGivesUp
<1> QED
  BY <1>2, <1>3

\* Broadcast: the one step that creates the source transaction.
LEMMA BroadcastInductive ==
  ASSUME Inductive, NEW b \in BOOLEAN, Broadcast(b)
  PROVE  Inductive'
<1>1. /\ pc = "create" /\ srcTx = "none" /\ srcTx' = "pending" /\ entered' = now
      /\ pc' \in {"backend", "verify", "relay"} /\ (pc' = "backend" => UsesBackend)
      /\ UNCHANGED <<op, route, timeout, now, result, registered, delivered, settled,
                     notified, posted, backend>>
  BY DEF Broadcast, Enter, AfterBroadcast, Inductive, Progress
<1>2. UNCHANGED <<Profile, NeedsRelay, NeedsReceipt, ReadsIntent, Notifies, Reports,
                  NeedsSecondLeg, UsesBackend, NamesTx>>
  BY <1>1, RoutingIsFixed
<1>3. result.code = "none"
  BY <1>1 DEF Inductive, Progress, NoResult
<1> USE <1>1, <1>2 DEF Inductive
<1>4. TypeOK'
  BY DEF TypeOK
<1>5. Clock' /\ RelayOrder' /\ BackendIsHonest' /\ Progress'
  BY DEF TypeOK, Clock, RelayOrder, BackendIsHonest, Progress, NoResult
<1>6. Verdict'
  BY <1>3 DEF Verdict, SuccessMeansDone, SuccessMeansLanded, Succeeded, NothingStranded,
       FullRelayWait, FailureKeepsTx
<1> QED
  BY <1>4, <1>5, <1>6

\* The receipt of a hub transaction is found, or is not.
LEMMA ReceiptPhaseInductive ==
  Inductive /\ (ReceiptSucceeded \/ ReceiptReverted \/ ReceiptFails) => Inductive'
<1> SUFFICES ASSUME Inductive, ReceiptSucceeded \/ ReceiptReverted \/ ReceiptFails
             PROVE  Inductive'
  OBVIOUS
<1>1. /\ pc = "receipt" /\ NeedsReceipt /\ ~NeedsRelay
      /\ srcTx # "none" /\ UNCHANGED world
  BY KnownOperation, Profiles
  DEF ReceiptSucceeded, ReceiptReverted, ReceiptFails, Inductive, Progress
<1>2. CASE ReceiptSucceeded
  BY <1>1, <1>2, HubReachedInductive DEF ReceiptSucceeded, OnHubNow
<1>3. CASE ReceiptReverted
  BY <1>1, <1>3, EarlyFailureInductive DEF ReceiptReverted
<1>4. CASE ReceiptFails
  BY <1>1, <1>4, EarlyFailureInductive DEF ReceiptFails
<1> QED
  BY <1>2, <1>3, <1>4

\* A resumed batch: its transaction has landed when the client learns of it.
LEMMA BatchConfirmedInductive ==
  ASSUME Inductive, BatchConfirmed
  PROVE  Inductive'
<1>1. /\ pc = "create" /\ srcTx = "none" /\ srcTx' = "confirmed" /\ entered' = now
      /\ pc' = "relay"
      /\ UNCHANGED <<op, route, timeout, now, result, registered, delivered, settled,
                     notified, posted, backend>>
  BY DEF BatchConfirmed, Enter, Inductive, Progress
<1>2. UNCHANGED <<Profile, NeedsRelay, NeedsReceipt, ReadsIntent, Notifies, Reports,
                  NeedsSecondLeg, UsesBackend, NamesTx>>
  BY <1>1, RoutingIsFixed
<1>3. result.code = "none"
  BY <1>1 DEF Inductive, Progress, NoResult
<1> USE <1>1, <1>2 DEF Inductive
<1>4. TypeOK'
  BY DEF TypeOK
<1>5. Clock' /\ RelayOrder' /\ BackendIsHonest' /\ Progress'
  BY DEF TypeOK, Clock, RelayOrder, BackendIsHonest, Progress, NoResult
<1>6. Verdict'
  BY <1>3 DEF Verdict, SuccessMeansDone, SuccessMeansLanded, Succeeded, NothingStranded,
       FullRelayWait, FailureKeepsTx
<1> QED
  BY <1>4, <1>5, <1>6

\* Steps that need nobody's answer.
LEMMA TimersInductive == Inductive /\ Timers => Inductive'
<1> SUFFICES ASSUME Inductive, Timers PROVE Inductive'
  OBVIOUS
<1>1. CASE BackendTimesOut
  BY <1>1, BackendPhaseInductive DEF BackendTimesOut
<1>2. CASE Verified
  BY <1>2, EnterInductive DEF Verified, Inductive, Progress
<1>3. CASE VerifyTimesOut
  BY <1>3, EarlyFailureInductive DEF VerifyTimesOut, VerifyFails
<1>7. CASE ReceiptTimesOut
  BY <1>7, ReceiptPhaseInductive DEF ReceiptTimesOut
<1>4. CASE RelayOrSkip
  <2>1. pc = "relay" /\ srcTx # "none" /\ UNCHANGED world
    BY <1>4 DEF RelayOrSkip, Inductive, Progress
  <2>2. CASE NeedsRelay
    BY <1>4, <2>1, <2>2, EnterInductive DEF RelayOrSkip
  <2>3. CASE ~NeedsRelay /\ NeedsReceipt
    BY <1>4, <2>1, <2>3, EnterInductive DEF RelayOrSkip
  <2>4. CASE ~NeedsRelay /\ ~NeedsReceipt
    BY <1>4, <2>1, <2>4, HubReachedInductive DEF RelayOrSkip, OnHubNow
  <2> QED
    BY <2>2, <2>3, <2>4
<1>5. CASE WaitTimesOut
  <2>1. now - entered >= timeout /\ (op \in TwoStep \cup Resumed => now - entered >= Floor)
    BY <1>5, BudgetCoversTimeout, CompletionAssumption
    DEF WaitTimesOut, BudgetSpent, Inductive, TypeOK
  <2>2. /\ registered /\ srcTx # "none" /\ pc # "done"
        /\ UNCHANGED world /\ RelayFails("RELAY_TIMEOUT")
    BY <1>5 DEF WaitTimesOut, Waiting, Inductive, Progress, RelayOrder
  <2> QED
    BY <2>1, <2>2, RelayFailsInductive
<1>6. CASE Tick
  <2>1. /\ UNCHANGED <<op, route, timeout, pc, entered, result, srcTx, registered,
                       delivered, settled, notified, posted, backend>>
        /\ now' = now + 1
    BY <1>6 DEF Tick, world
  <2>2. UNCHANGED <<Profile, NeedsRelay, NeedsReceipt, ReadsIntent, Notifies, Reports,
                    NeedsSecondLeg, UsesBackend, NamesTx>>
    BY <2>1, RoutingIsFixed
  <2> USE <2>1, <2>2 DEF Inductive
  <2>3. TypeOK'
    BY DEF TypeOK
  <2>4. Clock' /\ RelayOrder' /\ BackendIsHonest' /\ Progress'
    BY DEF TypeOK, Clock, RelayOrder, BackendIsHonest, Progress, OnHubNow, NoResult
  <2>5. FullRelayWait'
    BY CompletionAssumption DEF TypeOK, Verdict, FullRelayWait
  <2>6. Verdict'
    BY <2>5 DEF Verdict, SuccessMeansDone, SuccessMeansLanded, Succeeded,
         NothingStranded, FailureKeepsTx
  <2> QED
    BY <2>3, <2>4, <2>6
<1> QED
  BY <1>1, <1>2, <1>3, <1>4, <1>5, <1>6, <1>7 DEF Timers

\* Steps that somebody's answer triggers.
LEMMA AnswersInductive == Inductive /\ Answers => Inductive'
<1> SUFFICES ASSUME Inductive, Answers PROVE Inductive'
  OBVIOUS
<1>1. CASE CreateFails
  BY <1>1, EarlyFailureInductive DEF CreateFails
<1>2. ASSUME NEW b \in BOOLEAN, Broadcast(b) PROVE Inductive'
  BY <1>2, BroadcastInductive
<1>3. CASE PostToBackend
  <2>1. /\ pc = "backend" /\ posted' = TRUE
        /\ UNCHANGED <<op, route, timeout, pc, now, entered, result, srcTx, registered,
                       delivered, settled, notified, backend>>
    BY <1>3 DEF PostToBackend, call
  <2>2. UNCHANGED <<Profile, NeedsRelay, NeedsReceipt, ReadsIntent, Notifies, Reports,
                    NeedsSecondLeg, UsesBackend, NamesTx>>
    BY <2>1, RoutingIsFixed
  <2> USE <2>1, <2>2 DEF Inductive
  <2>3. TypeOK'
    BY DEF TypeOK
  <2>4. Clock' /\ RelayOrder' /\ BackendIsHonest' /\ Progress'
    BY DEF Clock, RelayOrder, BackendIsHonest, Progress, NoResult
  <2>5. Verdict'
    BY DEF Verdict, SuccessMeansDone, SuccessMeansLanded, Succeeded, NothingStranded,
         FullRelayWait, FailureKeepsTx
  <2> QED
    BY <2>3, <2>4, <2>5
<1>4. CASE BackendSucceeds \/ BackendGivesUp
  BY <1>4, BackendPhaseInductive
<1>5. CASE VerifyFails
  BY <1>5, EarlyFailureInductive DEF VerifyFails
<1>6. CASE SubmitFails
  BY <1>6, RelayFailsInductive DEF SubmitFails, Inductive, Progress
<1>7. CASE SubmitAcknowledged
  BY <1>7, EnterInductive DEF SubmitAcknowledged, Inductive, Progress
<1>8. CASE PacketFound
  <2>1. OnHubNow
    BY <1>8, KnownOperation, Profiles DEF PacketFound, OnHubNow, Inductive, RelayOrder
  <2> QED
    BY <1>8, <2>1, HubReachedInductive DEF PacketFound, Inductive, Progress
<1>9. CASE SecondPacketFound
  <2>1. /\ NeedsSecondLeg /\ delivered /\ settled /\ srcTx # "none"
        /\ Return(Success) /\ UNCHANGED world
    BY <1>9 DEF SecondPacketFound, Inductive, Progress
  <2>2. ~Notifies /\ ~Reports /\ OnHubNow
    BY <2>1, KnownOperation, Profiles DEF OnHubNow, Inductive, RelayOrder
  <2> QED
    BY <2>1, <2>2, SuccessInductive
<1>10. CASE PollingFails
  <2>1. registered /\ srcTx # "none" /\ pc # "done"
    BY <1>10 DEF PollingFails, Waiting, Inductive, Progress, RelayOrder
  <2> QED
    BY <1>10, <2>1, RelayFailsInductive DEF PollingFails
<1>11. CASE SolverAgrees
  <2>1. OnHubNow /\ notified /\ srcTx # "none" /\ Return(Success) /\ UNCHANGED world
    BY <1>11 DEF SolverAgrees, Inductive, Progress
  <2>2. ~NeedsSecondLeg
    BY <1>11, KnownOperation, Profiles DEF SolverAgrees, Inductive, Progress
  <2> QED
    BY <2>1, <2>2, SuccessInductive
<1>12. CASE SolverRefuses
  <2>1. /\ NeedsRelay => delivered /\ registered
        /\ OnHubNow /\ srcTx # "none" /\ (Notifies \/ Reports)
        /\ UNCHANGED <<srcTx, registered, delivered, settled, notified, posted, backend>>
    BY <1>12 DEF SolverRefuses, world, Inductive, Progress, OnHubNow, RelayOrder
  <2>2. {"EXTERNAL_API_ERROR", "OK_UNNOTIFIED"} \subseteq Codes \ {"none"} /\ "none" \in RelayCodes
    BY DEF Codes, RelayCodes
  <2>3. CASE Reports
    <3>1. ~Notifies /\ ~NeedsSecondLeg /\ op \notin TwoStep \cup Resumed
      BY <2>3, KnownOperation, Profiles DEF Positions, TwoStep, Resumed
    <3>2. Return(Failure("OK_UNNOTIFIED", "none", TRUE, TRUE))
      BY <1>12, <2>3 DEF SolverRefuses, Unreported
    <3> QED
      BY <2>1, <2>2, <3>1, <3>2, ReturnInductive
  <2>4. CASE ~Reports
    <3>1. Return(Failure("EXTERNAL_API_ERROR", "none", TRUE, TRUE))
      BY <1>12, <2>4 DEF SolverRefuses
    <3> QED
      BY <2>1, <2>2, <3>1, ReturnInductive
  <2> QED
    BY <2>3, <2>4
<1>13. CASE BatchUnconfirmed
  BY <1>13, EarlyFailureInductive DEF BatchUnconfirmed
<1>14. CASE BatchConfirmed
  BY <1>14, BatchConfirmedInductive
<1>15. CASE ReceiptSucceeded \/ ReceiptReverted \/ ReceiptFails
  BY <1>15, ReceiptPhaseInductive
<1>16. CASE IntentRead
  <2>1. Notifies /\ OnHubNow /\ srcTx # "none"
    BY <1>16, KnownOperation, Profiles DEF IntentRead, Inductive, Progress
  <2> QED
    BY <1>16, <2>1, EnterInductive DEF IntentRead
<1>17. CASE IntentUnread
  <2>1. /\ OnHubNow /\ srcTx # "none" /\ op \in Resumed /\ NeedsRelay /\ NamesTx
    BY <1>17, KnownOperation, Profiles DEF IntentUnread, Inductive, Progress, NamesTx
  <2>2. registered /\ delivered
    BY <2>1 DEF OnHubNow, Inductive, RelayOrder
  <2>3. "UNKNOWN" \in Codes \ {"none"} /\ "none" \in RelayCodes
    BY DEF Codes, RelayCodes
  <2>4. /\ Return(Failure("UNKNOWN", "none", NamesTx, op = "resumedVaultSwap"))
        /\ UNCHANGED <<srcTx, registered, delivered, settled, notified, posted, backend>>
    BY <1>17 DEF IntentUnread, world
  <2>5. NamesTx \in BOOLEAN /\ (op = "resumedVaultSwap") \in BOOLEAN
    BY DEF NamesTx
  <2> QED
    BY <2>1, <2>2, <2>3, <2>4, <2>5, ReturnInductive
<1> QED
  BY <1>1, <1>2, <1>3, <1>4, <1>5, <1>6, <1>7, <1>8, <1>9, <1>10, <1>11, <1>12, <1>13,
       <1>14, <1>15, <1>16, <1>17 DEF Answers

\* The services only ever add to what is true of the transaction.
LEMMA EnvironmentInductive == Inductive /\ Environment => Inductive'
<1> SUFFICES ASSUME Inductive, Environment PROVE Inductive'
  OBVIOUS
<1>1. UNCHANGED <<op, route, timeout, pc, now, entered, result, posted>>
  BY DEF Environment, Mine, Register, Deliver, Settle, Notify, BackendQueues,
       BackendEnds, call
<1>2. UNCHANGED <<Profile, NeedsRelay, NeedsReceipt, ReadsIntent, Notifies, Reports,
                  NeedsSecondLeg, UsesBackend, NamesTx>>
  BY <1>1, RoutingIsFixed
<1>3. /\ (registered => registered') /\ (delivered => delivered')
      /\ (settled => settled') /\ (notified => notified')
      /\ srcTx = "none" <=> srcTx' = "none"
      /\ srcTx = "confirmed" => srcTx' = "confirmed"
  BY DEF Environment, Mine, Register, Deliver, Settle, Notify, BackendQueues,
       BackendEnds, Inductive, TypeOK
<1>4. TypeOK'
  <2>1. /\ srcTx' \in {"none", "pending", "confirmed", "reverted"}
        /\ backend' \in {"none", "working", "complete", "stopped"}
        /\ registered' \in BOOLEAN /\ delivered' \in BOOLEAN
        /\ settled' \in BOOLEAN /\ notified' \in BOOLEAN
    BY DEF Environment, Mine, Register, Deliver, Settle, Notify, BackendQueues,
         BackendEnds, Inductive, TypeOK
  <2> QED
    BY <1>1, <2>1 DEF Inductive, TypeOK
<1>5. Clock'
  BY <1>1 DEF Clock, Inductive
<1>6. RelayOrder'
  <2>1. pc = "submit" \/ backend = "working" => srcTx # "none"
    BY DEF Inductive, Progress, RelayOrder, BackendIsHonest
  <2>2. pc = "notify" => srcTx # "none"
    BY DEF Inductive, Progress
  <2> QED
    BY <1>1, <1>3, <2>1, <2>2
    DEF Environment, Mine, Register, Deliver, Settle, Notify, BackendQueues, BackendEnds,
        Inductive, RelayOrder
<1>7. BackendIsHonest'
  BY <1>1, <1>2, <1>3
  DEF Environment, Mine, Register, Deliver, Settle, Notify, BackendQueues, BackendEnds,
      OnHub, Inductive, BackendIsHonest
<1>8. Progress'
  BY <1>1, <1>2, <1>3 DEF Inductive, Progress, OnHubNow, NoResult
<1>9. Verdict'
  BY <1>1, <1>2, <1>3
  DEF Inductive, Verdict, SuccessMeansDone, SuccessMeansLanded, Succeeded,
      NothingStranded, FullRelayWait, FailureKeepsTx
<1> QED
  BY <1>4, <1>5, <1>6, <1>7, <1>8, <1>9 DEF Inductive

-----------------------------------------------------------------------------
\* Inductive is an invariant: every step of the client, of the clock and of the
\* services keeps it.
THEOREM Invariance == Spec => []Inductive
<1>1. Inductive /\ Next => Inductive'
  BY TimersInductive, AnswersInductive, EnvironmentInductive DEF Next
<1>2. Inductive /\ UNCHANGED vars => Inductive'
  <2> SUFFICES ASSUME Inductive, UNCHANGED vars PROVE Inductive'
    OBVIOUS
  <2>1. UNCHANGED <<op, route, timeout, pc, now, entered, result, srcTx, registered,
                    delivered, settled, notified, posted, backend>>
    BY DEF vars, call, world
  <2>2. UNCHANGED <<Profile, NeedsRelay, NeedsReceipt, ReadsIntent, Notifies, Reports,
                    NeedsSecondLeg, UsesBackend, NamesTx>>
    BY <2>1, RoutingIsFixed
  <2> QED
    BY <2>1, <2>2
    DEF Inductive, TypeOK, Clock, RelayOrder, BackendIsHonest, Progress, OnHubNow,
        NoResult, Verdict, SuccessMeansDone, SuccessMeansLanded, Succeeded,
        NothingStranded, FullRelayWait, FailureKeepsTx
<1> QED
  BY InitInductive, <1>1, <1>2, PTL DEF Spec

\* Type correctness of every orchestrated operation.
THEOREM TypeCorrect == Spec => []TypeOK
BY Invariance, PTL DEF Inductive

\* A reported success means that the transaction reached the hub if it had to,
\* that the solver knows of it and that the second leg arrived.
THEOREM SuccessIsDone == Spec => []SuccessMeansDone
<1>1. Inductive => SuccessMeansDone
  BY DEF Inductive, Verdict
<1> QED
  BY <1>1, Invariance, PTL

\* A position operation or a resumed batch that succeeds has landed, whether its source
\* is the hub or a spoke.
THEOREM SuccessHasLanded == Spec => []SuccessMeansLanded
<1>1. Inductive => SuccessMeansLanded
  BY DEF Inductive, Verdict
<1> QED
  BY <1>1, Invariance, PTL

\* A backend that gives up, at any time, never leaves a landed transaction that
\* nobody hands to the relay.
THEOREM NothingIsStranded == Spec => []NothingStranded
<1>1. Inductive => NothingStranded
  BY DEF Inductive, Verdict
<1> QED
  BY <1>1, Invariance, PTL

\* The relay is waited for in full before RELAY_TIMEOUT, for every timeout, floor
\* and verification time.
THEOREM RelayWaitIsFull == Spec => []FullRelayWait
<1>1. Inductive => FullRelayWait
  BY DEF Inductive, Verdict
<1> QED
  BY <1>1, Invariance, PTL

\* What a failure tells the caller is so: its timeout was waited for in full, and a
\* two-step operation or a resumed batch names what recovering it needs.
THEOREM FailuresAreTrue == Spec => []FailureIsTrue
<1>1. Inductive => FailureIsTrue
  BY DEF Inductive, Verdict, FailureIsTrue
<1> QED
  BY <1>1, Invariance, PTL

-----------------------------------------------------------------------------
(* The operation implements its promise, CompletionPromise.                 *)

\* What the promise sees of a state.
EffectsSeen == (IF delivered THEN {"delivered"} ELSE {})
               \cup (IF notified THEN {"notified"} ELSE {})
               \cup (IF settled THEN {"settled"} ELSE {})
EffectsNeeded == (IF NeedsRelay THEN {"delivered"} ELSE {})
                 \cup (IF Notifies THEN {"notified"} ELSE {})
                 \cup (IF NeedsSecondLeg THEN {"settled"} ELSE {})
VerdictSeen == IF result.code = "none" THEN "pending"
               ELSE IF Succeeded THEN "success" ELSE "failure"

\* A step that leaves all of that alone is invisible.
LEMMA QuietStep ==
  ASSUME UNCHANGED <<op, route, result, delivered, notified, settled>>,
         srcTx' = "none" <=> srcTx = "none"
  PROVE  UNCHANGED Promise!vars
<1>1. UNCHANGED <<NeedsRelay, Notifies, NeedsSecondLeg>>
  BY RoutingIsFixed
<1>2. (srcTx' # "none") = (srcTx # "none")
  OBVIOUS
<1> QED
  BY <1>1, <1>2 DEF Promise!vars, Succeeded

LEMMA EnterStep ==
  ASSUME NEW phase, Enter(phase), UNCHANGED world
  PROVE  UNCHANGED Promise!vars
BY QuietStep DEF Enter, world

\* A returned result is the verdict: a failure at any time, a success only when the
\* transaction was sent and everything needed has happened.
LEMMA ReturnStep ==
  ASSUME Inductive, Inductive', NEW c, NEW rc, NEW src, NEW dst, pc # "done",
         Return(Failure(c, rc, src, dst)),
         UNCHANGED <<srcTx, delivered, notified, settled>>
  PROVE  Promise!Next
<1>1. UNCHANGED <<op, route>> /\ pc' = "done" /\ result'.code = c
  BY DEF Return, Failure
<1>2. UNCHANGED <<NeedsRelay, Notifies, NeedsSecondLeg>>
  BY <1>1, RoutingIsFixed
<1>3. UNCHANGED <<EffectsSeen, EffectsNeeded>> /\ (srcTx' # "none") = (srcTx # "none")
  BY <1>2 DEF EffectsSeen, EffectsNeeded
<1>4. VerdictSeen = "pending"
  BY DEF Inductive, Progress, NoResult, VerdictSeen
<1>5. CASE c \in {"OK", "OK_UNNOTIFIED"}
  <2>1. VerdictSeen' = "success" /\ Succeeded'
    BY <1>1, <1>5 DEF VerdictSeen, Succeeded
  <2>2. srcTx # "none" /\ EffectsNeeded \subseteq EffectsSeen
    BY <1>1, <1>2, <2>1 DEF Inductive, Verdict, SuccessMeansDone, EffectsSeen, EffectsNeeded
  <2>3. Promise!Succeed
    BY <1>3, <1>4, <2>1, <2>2
    DEF Promise!Succeed, EffectsSeen, EffectsNeeded, VerdictSeen, Succeeded
  <2> QED
    BY <2>3 DEF Promise!Next
<1>6. CASE c \notin {"OK", "OK_UNNOTIFIED"}
  <2>1. VerdictSeen' = "failure"
    BY <1>1, <1>6 DEF Inductive, Verdict, VerdictSeen, Succeeded
  <2>2. Promise!Fail
    BY <1>3, <1>4, <2>1 DEF Promise!Fail, EffectsSeen, EffectsNeeded, VerdictSeen, Succeeded
  <2> QED
    BY <2>2 DEF Promise!Next
<1> QED
  BY <1>5, <1>6

LEMMA SuccessStep ==
  ASSUME Inductive, Inductive', pc # "done", Return(Success), UNCHANGED world
  PROVE  Promise!Next
<1>1. Success = Failure("OK", "none", TRUE, TRUE)
  BY DEF Success, Failure
<1> QED
  BY <1>1, ReturnStep DEF world

LEMMA HubReachedStep ==
  ASSUME Inductive, Inductive', pc # "done", HubReached, UNCHANGED world
  PROVE  [Promise!Next]_(Promise!vars)
BY EnterStep, SuccessStep DEF HubReached

LEMMA RelayFailsStep ==
  ASSUME Inductive, Inductive', pc # "done", NEW c, RelayFails(c), UNCHANGED world
  PROVE  Promise!Next
BY ReturnStep DEF RelayFails, world

LEMMA BackendPhaseStep ==
  Inductive /\ Inductive' /\ (BackendSucceeds \/ BackendGivesUp) => [Promise!Next]_(Promise!vars)
BY EnterStep, SuccessStep DEF BackendSucceeds, BackendGivesUp

LEMMA TimersStep == Inductive /\ Inductive' /\ Timers => [Promise!Next]_(Promise!vars)
<1> SUFFICES ASSUME Inductive, Inductive', Timers PROVE [Promise!Next]_(Promise!vars)
  OBVIOUS
<1>1. CASE BackendTimesOut
  BY <1>1, BackendPhaseStep DEF BackendTimesOut
<1>2. CASE Verified
  BY <1>2, EnterStep DEF Verified
<1>3. CASE VerifyTimesOut
  BY <1>3, ReturnStep DEF VerifyTimesOut, VerifyFails, world
<1>4. CASE RelayOrSkip
  BY <1>4, EnterStep, HubReachedStep DEF RelayOrSkip
<1>5. CASE WaitTimesOut
  BY <1>5, RelayFailsStep DEF WaitTimesOut, Waiting
<1>6. CASE Tick
  BY <1>6, QuietStep DEF Tick, world
<1>7. CASE ReceiptTimesOut
  BY <1>7, ReturnStep DEF ReceiptTimesOut, ReceiptFails, world
<1> QED
  BY <1>1, <1>2, <1>3, <1>4, <1>5, <1>6, <1>7 DEF Timers

\* The broadcast happens once: nothing was sent before it.
LEMMA BroadcastStep ==
  ASSUME Inductive, NEW b \in BOOLEAN, Broadcast(b)
  PROVE  Promise!Next
<1>1. /\ srcTx = "none" /\ srcTx' # "none" /\ result = NoResult
      /\ UNCHANGED <<op, route, result, delivered, notified, settled>>
  BY DEF Broadcast, Enter, Inductive, Progress
<1>2. UNCHANGED <<NeedsRelay, Notifies, NeedsSecondLeg>>
  BY <1>1, RoutingIsFixed
<1>3. Promise!Broadcast
  BY <1>1, <1>2 DEF Promise!Broadcast, NoResult, Succeeded
<1> QED
  BY <1>3 DEF Promise!Next

\* A resumed batch counts as sent once its transaction is known.
LEMMA BatchConfirmedStep ==
  ASSUME Inductive, BatchConfirmed
  PROVE  Promise!Next
<1>1. /\ srcTx = "none" /\ srcTx' # "none" /\ result = NoResult
      /\ UNCHANGED <<op, route, result, delivered, notified, settled>>
  BY DEF BatchConfirmed, Enter, Inductive, Progress
<1>2. UNCHANGED <<NeedsRelay, Notifies, NeedsSecondLeg>>
  BY <1>1, RoutingIsFixed
<1>3. Promise!Broadcast
  BY <1>1, <1>2 DEF Promise!Broadcast, NoResult, Succeeded
<1> QED
  BY <1>3 DEF Promise!Next

LEMMA AnswersStep == Inductive /\ Inductive' /\ Answers => [Promise!Next]_(Promise!vars)
<1> SUFFICES ASSUME Inductive, Inductive', Answers PROVE [Promise!Next]_(Promise!vars)
  OBVIOUS
<1>1. CASE CreateFails
  BY <1>1, ReturnStep DEF CreateFails, world
<1>2. ASSUME NEW b \in BOOLEAN, Broadcast(b) PROVE Promise!Next
  BY <1>2, BroadcastStep
<1>3. CASE PostToBackend
  BY <1>3, QuietStep DEF PostToBackend, call
<1>4. CASE BackendSucceeds \/ BackendGivesUp
  BY <1>4, BackendPhaseStep
<1>5. CASE VerifyFails
  BY <1>5, ReturnStep DEF VerifyFails, world
<1>6. CASE SubmitFails
  BY <1>6, RelayFailsStep DEF SubmitFails
<1>7. CASE SubmitAcknowledged
  BY <1>7, EnterStep DEF SubmitAcknowledged
<1>8. CASE PacketFound
  BY <1>8, HubReachedStep DEF PacketFound
<1>9. CASE SecondPacketFound
  BY <1>9, SuccessStep DEF SecondPacketFound
<1>10. CASE PollingFails
  BY <1>10, RelayFailsStep DEF PollingFails, Waiting
<1>11. CASE SolverAgrees
  BY <1>11, SuccessStep DEF SolverAgrees
<1>12. CASE SolverRefuses
  <2>1. \/ Return(Failure("EXTERNAL_API_ERROR", "none", TRUE, TRUE))
        \/ Return(Failure("OK_UNNOTIFIED", "none", TRUE, TRUE))
    BY <1>12 DEF SolverRefuses, Unreported
  <2> QED
    BY <1>12, <2>1, ReturnStep DEF SolverRefuses, world
<1>13. CASE BatchUnconfirmed
  BY <1>13, ReturnStep DEF BatchUnconfirmed, world
<1>14. CASE BatchConfirmed
  BY <1>14, BatchConfirmedStep
<1>15. CASE ReceiptSucceeded
  BY <1>15, HubReachedStep DEF ReceiptSucceeded
<1>16. CASE ReceiptReverted \/ ReceiptFails
  BY <1>16, ReturnStep DEF ReceiptReverted, ReceiptFails, world
<1>17. CASE IntentRead
  BY <1>17, EnterStep DEF IntentRead
<1>18. CASE IntentUnread
  BY <1>18, ReturnStep DEF IntentUnread, world
<1> QED
  BY <1>1, <1>2, <1>3, <1>4, <1>5, <1>6, <1>7, <1>8, <1>9, <1>10, <1>11, <1>12, <1>13,
       <1>14, <1>15, <1>16, <1>17, <1>18 DEF Answers

\* A service adds one effect at a time, to a transaction that was sent.
LEMMA EnvironmentStep ==
  Inductive /\ Inductive' /\ Environment => [Promise!Next]_(Promise!vars)
<1> SUFFICES ASSUME Inductive, Inductive', Environment PROVE [Promise!Next]_(Promise!vars)
  OBVIOUS
<1>1. UNCHANGED <<op, route, pc, result>>
  BY DEF Environment, Mine, Register, Deliver, Settle, Notify, BackendQueues,
       BackendEnds, call
<1>2. UNCHANGED <<NeedsRelay, Notifies, NeedsSecondLeg>>
  BY <1>1, RoutingIsFixed
<1>3. ASSUME NEW e \in {"delivered", "notified", "settled"},
             EffectsSeen' = EffectsSeen \cup {e}, srcTx # "none", UNCHANGED srcTx
      PROVE  Promise!Next
  <2>1. Promise!Happen
    BY <1>1, <1>2, <1>3 DEF Promise!Happen, Promise!Effects, EffectsSeen, Succeeded
  <2> QED
    BY <2>1 DEF Promise!Next
<1>4. CASE Mine \/ Register \/ BackendQueues \/ BackendEnds
  BY <1>1, <1>4, QuietStep DEF Mine, Register, BackendQueues, BackendEnds
<1>5. CASE Deliver
  <2>1. EffectsSeen' = EffectsSeen \cup {"delivered"} /\ srcTx # "none" /\ UNCHANGED srcTx
    BY <1>5 DEF Deliver, EffectsSeen
  <2> QED
    BY <1>3, <2>1
<1>6. CASE Settle
  <2>1. EffectsSeen' = EffectsSeen \cup {"settled"} /\ srcTx # "none" /\ UNCHANGED srcTx
    BY <1>6 DEF Settle, EffectsSeen, Inductive, RelayOrder
  <2> QED
    BY <1>3, <2>1
<1>7. CASE Notify
  <2>1. EffectsSeen' = EffectsSeen \cup {"notified"} /\ srcTx # "none" /\ UNCHANGED srcTx
    BY <1>7 DEF Notify, EffectsSeen, Inductive, Progress, RelayOrder, BackendIsHonest
  <2> QED
    BY <1>3, <2>1
<1> QED
  BY <1>4, <1>5, <1>6, <1>7 DEF Environment

\* Every orchestrated operation keeps its promise: one broadcast, and a success only
\* when everything the operation stands for has happened, whoever made it happen.
THEOREM KeepsPromise == Spec => ImplementsPromise
<1>1. Init => Promise!Init
  BY DEF Init, Promise!Init, Promise!Effects, NoResult, Succeeded
<1>2. Inductive /\ Inductive' /\ [Next]_vars => [Promise!Next]_(Promise!vars)
  <2>1. Inductive /\ Inductive' /\ Next => [Promise!Next]_(Promise!vars)
    BY TimersStep, AnswersStep, EnvironmentStep DEF Next
  <2>2. UNCHANGED vars => UNCHANGED Promise!vars
    BY QuietStep DEF vars, call, world
  <2> QED
    BY <2>1, <2>2
<1> QED
  BY <1>1, <1>2, Invariance, PTL DEF Spec, ImplementsPromise, Promise!Spec

-----------------------------------------------------------------------------
(* The safety half of CallEnds: a call only moves on, and no phase outlives *)
(* its limit.                                                               *)

\* The order of the phases, the last one lowest.
RankOf(phase) ==
  CASE phase = "create" -> 9
    [] phase = "backend" -> 8
    [] phase = "verify" -> 7
    [] phase = "relay" -> 6
    [] phase \in {"receipt", "submit"} -> 5
    [] phase = "wait" -> 4
    [] phase = "second" -> 3
    [] phase = "read" -> 2
    [] phase = "notify" -> 1
    [] phase = "done" -> 0

\* What is left of the current phase, and the promise that it is not overspent.
Left == PhaseLimit - (now - entered)
InBudget == pc # "done" => Left \in Nat

RunsDown ==
  call' # call => \/ RankOf(pc') < RankOf(pc)
                  \/ pc' = pc /\ Left' < Left

LEMMA LimitIsNat == TypeOK => PhaseLimit \in Nat
<1> SUFFICES ASSUME TypeOK PROVE PhaseLimit \in Nat
  OBVIOUS
<1>1. RelayBudget \in Nat /\ timeout \in Nat /\ VerifyTime \in Nat
  BY BudgetCoversTimeout, CompletionAssumption DEF TypeOK
<1> QED
  BY <1>1 DEF PhaseLimit, Waiting

LEMMA NextLimitIsNat == (TypeOK => PhaseLimit \in Nat)'
BY LimitIsNat, PTL

\* A phase that begins has its whole limit left.
LEMMA EnterRunsDown ==
  ASSUME Inductive', NEW phase, Enter(phase), RankOf(phase) < RankOf(pc)
  PROVE  RunsDown /\ InBudget'
<1>1. pc' = phase /\ now' = entered'
  BY DEF Enter
<1>2. TypeOK' => PhaseLimit' \in Nat
  BY NextLimitIsNat
<1>3. PICK m \in Nat : PhaseLimit' = m
  BY <1>2 DEF Inductive
<1>4. PICK n \in Nat : now' = n /\ entered' = n
  BY <1>1 DEF Inductive, TypeOK
<1>5. Left' = m - (n - n) /\ m - (n - n) \in Nat
  BY <1>3, <1>4 DEF Left
<1>6. InBudget'
  BY <1>5 DEF InBudget
<1>7. RankOf(pc') < RankOf(pc)
  BY <1>1
<1> QED
  BY <1>6, <1>7 DEF RunsDown

LEMMA ReturnRunsDown ==
  ASSUME Inductive, pc # "done", NEW r, Return(r)
  PROVE  RunsDown /\ InBudget'
<1>1. pc' = "done"
  BY DEF Return
<1>2. RankOf(pc') < RankOf(pc)
  BY <1>1 DEF RankOf, Inductive, TypeOK
<1> QED
  BY <1>1, <1>2 DEF RunsDown, InBudget

LEMMA HubReachedRunsDown ==
  ASSUME Inductive, Inductive', pc \in {"relay", "receipt", "wait"}, HubReached
  PROVE  RunsDown /\ InBudget'
<1>1. \A phase \in {"second", "read", "notify"} : RankOf(phase) < RankOf(pc)
  BY DEF RankOf
<1>2. \/ \E phase \in {"second", "read", "notify"} : Enter(phase)
      \/ Return(Success)
  BY DEF HubReached
<1> QED
  BY <1>1, <1>2, EnterRunsDown, ReturnRunsDown

\* Time passes only within the limit of a phase, and nothing else changes.
LEMMA TickRunsDown ==
  ASSUME Inductive, Tick
  PROVE  RunsDown /\ InBudget'
<1>1. /\ now' = now + 1 /\ now - entered < PhaseLimit
      /\ UNCHANGED <<op, route, timeout, pc, entered>>
  BY DEF Tick
<1>2. UNCHANGED Profile
  BY <1>1, RoutingIsFixed
<1>3. PhaseLimit' = PhaseLimit
  BY <1>1, <1>2 DEF PhaseLimit, Waiting, RelayBudget
<1>4. PhaseLimit \in Nat /\ now \in Nat /\ entered \in Nat /\ entered <= now
  BY LimitIsNat DEF Inductive, TypeOK, Clock
<1>5. PICK m \in Nat : PhaseLimit = m /\ PhaseLimit' = m
  BY <1>3, <1>4
<1>6. Left = m - (now - entered) /\ Left' = m - (now + 1 - entered)
  BY <1>1, <1>4, <1>5 DEF Left
<1>7. Left' \in Nat /\ Left' < Left
  BY <1>1, <1>4, <1>5, <1>6
<1> QED
  BY <1>1, <1>7 DEF RunsDown, InBudget

LEMMA TimersRunDown == Inductive /\ Inductive' /\ Timers => RunsDown /\ InBudget'
<1> SUFFICES ASSUME Inductive, Inductive', Timers PROVE RunsDown /\ InBudget'
  OBVIOUS
<1>1. CASE BackendTimesOut
  <2>1. pc = "backend" /\ Enter("verify") /\ RankOf("verify") < RankOf("backend")
    BY <1>1 DEF BackendTimesOut, BackendGivesUp, RankOf
  <2> QED
    BY <2>1, EnterRunsDown
<1>2. CASE Verified
  <2>1. pc = "verify" /\ Enter("relay") /\ RankOf("relay") < RankOf("verify")
    BY <1>2 DEF Verified, RankOf
  <2> QED
    BY <2>1, EnterRunsDown
<1>3. CASE VerifyTimesOut
  BY <1>3, ReturnRunsDown DEF VerifyTimesOut, VerifyFails
<1>4. CASE RelayOrSkip
  <2>1. /\ pc = "relay" /\ (Enter("submit") \/ Enter("receipt") \/ HubReached)
        /\ RankOf("submit") < RankOf("relay") /\ RankOf("receipt") < RankOf("relay")
    BY <1>4 DEF RelayOrSkip, RankOf
  <2> QED
    BY <2>1, EnterRunsDown, HubReachedRunsDown
<1>5. CASE WaitTimesOut
  BY <1>5, ReturnRunsDown DEF WaitTimesOut, Waiting, RelayFails
<1>6. CASE ReceiptTimesOut
  BY <1>6, ReturnRunsDown DEF ReceiptTimesOut, ReceiptFails
<1> QED
  BY <1>1, <1>2, <1>3, <1>4, <1>5, <1>6, TickRunsDown DEF Timers

LEMMA AnswersRunDown ==
  Inductive /\ Inductive' /\ InBudget /\ Answers => RunsDown /\ InBudget'
<1> SUFFICES ASSUME Inductive, Inductive', InBudget, Answers PROVE RunsDown /\ InBudget'
  OBVIOUS
<1>1. ASSUME NEW b \in BOOLEAN, Broadcast(b) \/ BatchConfirmed PROVE RunsDown /\ InBudget'
  <2>1. /\ pc = "create" /\ \E phase \in {"backend", "verify", "relay"} : Enter(phase)
        /\ \A phase \in {"backend", "verify", "relay"} : RankOf(phase) < RankOf("create")
    BY <1>1 DEF Broadcast, BatchConfirmed, AfterBroadcast, RankOf
  <2> QED
    BY <2>1, EnterRunsDown
<1>2. CASE PostToBackend
  <2>1. UNCHANGED call /\ UNCHANGED Profile
    BY <1>2, RoutingIsFixed DEF PostToBackend, call
  <2>2. UNCHANGED <<pc, Left>>
    BY <2>1 DEF call, Left, PhaseLimit, Waiting, RelayBudget
  <2> QED
    BY <2>1, <2>2 DEF RunsDown, InBudget
<1>3. CASE BackendSucceeds \/ BackendGivesUp
  <2>1. /\ pc = "backend" /\ (Return(Success) \/ Enter("verify"))
        /\ RankOf("verify") < RankOf("backend")
    BY <1>3 DEF BackendSucceeds, BackendGivesUp, RankOf
  <2> QED
    BY <2>1, EnterRunsDown, ReturnRunsDown
<1>4. CASE CreateFails \/ BatchUnconfirmed \/ VerifyFails \/ SubmitFails
  BY <1>4, ReturnRunsDown DEF CreateFails, BatchUnconfirmed, VerifyFails, SubmitFails, RelayFails
<1>5. CASE SubmitAcknowledged
  <2>1. pc = "submit" /\ Enter("wait") /\ RankOf("wait") < RankOf("submit")
    BY <1>5 DEF SubmitAcknowledged, RankOf
  <2> QED
    BY <2>1, EnterRunsDown
<1>6. CASE PacketFound \/ ReceiptSucceeded
  BY <1>6, HubReachedRunsDown DEF PacketFound, ReceiptSucceeded
<1>7. CASE SecondPacketFound \/ PollingFails \/ ReceiptReverted \/ ReceiptFails
  BY <1>7, ReturnRunsDown
  DEF SecondPacketFound, PollingFails, ReceiptReverted, ReceiptFails, Waiting, RelayFails
<1>8. CASE IntentRead
  <2>1. pc = "read" /\ Enter("notify") /\ RankOf("notify") < RankOf("read")
    BY <1>8 DEF IntentRead, RankOf
  <2> QED
    BY <2>1, EnterRunsDown
<1>9. CASE IntentUnread \/ SolverAgrees \/ SolverRefuses
  BY <1>9, ReturnRunsDown DEF IntentUnread, SolverAgrees, SolverRefuses
<1> QED
  BY <1>1, <1>2, <1>3, <1>4, <1>5, <1>6, <1>7, <1>8, <1>9 DEF Answers

\* The services take nothing from the call.
LEMMA OthersKeepBudget ==
  ASSUME InBudget, Environment \/ UNCHANGED vars
  PROVE  RunsDown /\ InBudget'
<1>1. UNCHANGED call
  BY DEF Environment, Mine, Register, Deliver, Settle, Notify, BackendQueues, BackendEnds, vars
<1>2. UNCHANGED Profile
  BY <1>1, RoutingIsFixed DEF call
<1>3. UNCHANGED <<pc, Left>>
  BY <1>1, <1>2 DEF call, Left, PhaseLimit, Waiting, RelayBudget
<1> QED
  BY <1>1, <1>3 DEF RunsDown, InBudget

LEMMA NextRunsDown ==
  Inductive /\ Inductive' /\ InBudget /\ [Next]_vars => RunsDown /\ InBudget'
BY TimersRunDown, AnswersRunDown, OthersKeepBudget DEF Next

LEMMA InitInBudget == Init => InBudget
<1> SUFFICES ASSUME Init PROVE Left \in Nat
  BY DEF InBudget
<1>1. TypeOK
  BY InitInductive DEF Inductive
<1> QED
  BY <1>1, LimitIsNat DEF Init, Left

\* A call never comes back to a phase it has left, and a phase that goes on uses up what
\* is left of its limit: no schedule of answers and failures makes an operation go round
\* in circles, the fallback after a backend attempt included.
THEOREM CallRunsDown == Spec => [][RunsDown]_vars
BY InitInBudget, NextRunsDown, Invariance, PTL DEF Spec
-----------------------------------------------------------------------------
(* What the limits of the phases add up to.                                 *)

\* The time a phase may take, if the operation has it.  Whoever submits, reads or
\* notifies is not timed.
TimeOf(phase) ==
  CASE phase = "backend" -> IF UsesBackend THEN timeout ELSE 0
    [] phase = "verify" -> IF route.checked THEN VerifyTime ELSE 0
    [] phase = "receipt" -> IF NeedsReceipt THEN timeout ELSE 0
    [] phase = "wait" -> IF NeedsRelay THEN RelayBudget ELSE 0
    [] phase = "second" -> IF NeedsSecondLeg THEN RelayBudget ELSE 0
    [] OTHER -> 0

\* What is still to come after a phase.
Rest(phase) ==
  CASE phase = "create" -> TimeOf("backend") + TimeOf("verify") + TimeOf("receipt")
                           + TimeOf("wait") + TimeOf("second")
    [] phase = "backend" -> TimeOf("verify") + TimeOf("receipt") + TimeOf("wait")
                            + TimeOf("second")
    [] phase \in {"verify", "relay"} -> TimeOf("receipt") + TimeOf("wait") + TimeOf("second")
    [] phase \in {"receipt", "submit"} -> TimeOf("wait") + TimeOf("second")
    [] phase = "wait" -> TimeOf("second")
    [] OTHER -> 0

\* What the whole call may take: every phase the operation has, once.
Total == Rest("create")

CallBounded == now <= Total

\* The same for a call on its way: what it spent and what is still to come.
InTotal == IF pc = "done" THEN now <= Total ELSE entered + TimeOf(pc) + Rest(pc) <= Total

\* The terms are natural numbers, and none depends on the phase the call is in.
LEMMA TimesAreNat ==
  ASSUME Inductive
  PROVE  /\ TimeOf("backend") \in Nat /\ TimeOf("verify") \in Nat
         /\ TimeOf("receipt") \in Nat /\ TimeOf("wait") \in Nat /\ TimeOf("second") \in Nat
         /\ \A phase : TimeOf(phase) \in Nat
<1>1. RelayBudget \in Nat /\ timeout \in Nat /\ VerifyTime \in Nat
  BY BudgetCoversTimeout, CompletionAssumption DEF Inductive, TypeOK
<1> QED
  BY <1>1 DEF TimeOf

LEMMA TimesAreFixed ==
  ASSUME UNCHANGED <<op, route, timeout>>, NEW phase
  PROVE  TimeOf(phase)' = TimeOf(phase) /\ Rest(phase)' = Rest(phase)
<1>1. UNCHANGED <<Profile, UsesBackend, NeedsReceipt, NeedsRelay, NeedsSecondLeg>>
  BY RoutingIsFixed
<1>2. UNCHANGED RelayBudget
  BY <1>1 DEF RelayBudget
<1>3. \A q : TimeOf(q)' = TimeOf(q)
  BY <1>1, <1>2 DEF TimeOf
<1> QED
  BY <1>3 DEF Rest

\* A phase the call is in is one the operation has: its limit is among the terms.
LEMMA LimitIsCounted ==
  ASSUME Inductive, pc # "done"
  PROVE  PhaseLimit = TimeOf(pc)
BY DEF Inductive, TypeOK, Progress, PhaseLimit, Waiting, TimeOf

\* What comes after a phase holds the time of every later one.
LEMMA RestShrinks ==
  ASSUME Inductive, NEW phase \in {"backend", "verify", "relay", "receipt", "submit", "wait",
                                 "second", "read", "notify"},
         RankOf(phase) < RankOf(pc)
  PROVE  TimeOf(phase) + Rest(phase) <= Rest(pc)
<1>1. pc \in {"create", "backend", "verify", "relay", "receipt", "submit", "wait",
             "second", "read", "notify", "done"}
  BY DEF Inductive, TypeOK
<1>2. PICK b \in Nat, v \in Nat, r \in Nat, w \in Nat, s \in Nat :
        /\ TimeOf("backend") = b /\ TimeOf("verify") = v /\ TimeOf("receipt") = r
        /\ TimeOf("wait") = w /\ TimeOf("second") = s
  BY TimesAreNat
<1>3. \A q \in {"create", "relay", "submit", "read", "notify", "done"} : TimeOf(q) = 0
  BY DEF TimeOf
<1>4. /\ Rest("create") = b + v + r + w + s
      /\ Rest("backend") = v + r + w + s
      /\ Rest("verify") = r + w + s /\ Rest("relay") = r + w + s
      /\ Rest("receipt") = w + s /\ Rest("submit") = w + s
      /\ Rest("wait") = s
      /\ Rest("second") = 0 /\ Rest("read") = 0 /\ Rest("notify") = 0 /\ Rest("done") = 0
  BY <1>2 DEF Rest
<1> QED
  BY <1>1, <1>2, <1>3, <1>4 DEF RankOf

\* The four things a step may do to the call.
LEMMA StepKinds ==
  ASSUME [Next]_vars
  PROVE  \/ UNCHANGED call
         \/ Tick
         \/ \E phase \in {"backend", "verify", "relay", "receipt", "submit", "wait",
                         "second", "read", "notify"} : Enter(phase)
         \/ \E r : Return(r)
<1>1. CASE Timers
  BY <1>1 DEF Timers, BackendTimesOut, BackendGivesUp, Verified, VerifyTimesOut, VerifyFails,
       RelayOrSkip, HubReached, ReceiptTimesOut, ReceiptFails, WaitTimesOut, RelayFails
<1>2. CASE Answers
  <2>1. ASSUME NEW b \in BOOLEAN, Broadcast(b)
        PROVE  \E phase \in {"backend", "verify", "relay"} : Enter(phase)
    BY <2>1 DEF Broadcast, AfterBroadcast
  <2> QED
    BY <1>2, <2>1
    DEF Answers, CreateFails, BatchUnconfirmed, BatchConfirmed, PostToBackend, BackendSucceeds,
        BackendGivesUp, VerifyFails, ReceiptSucceeded, ReceiptReverted, ReceiptFails,
        SubmitFails, SubmitAcknowledged, PacketFound, SecondPacketFound, PollingFails,
        IntentRead, IntentUnread, SolverAgrees, SolverRefuses, HubReached, RelayFails
<1>3. CASE Environment \/ UNCHANGED vars
  BY <1>3 DEF Environment, Mine, Register, Deliver, Settle, Notify, BackendQueues,
       BackendEnds, vars
<1> QED
  BY <1>1, <1>2, <1>3 DEF Next

LEMMA TotalIsKept ==
  ASSUME Inductive, InBudget, RunsDown, InTotal, [Next]_vars
  PROVE  InTotal'
<1>1. UNCHANGED <<op, route, timeout>>
  BY StepKinds DEF call, Tick, Enter, Return
<1>2. \A q : TimeOf(q)' = TimeOf(q) /\ Rest(q)' = Rest(q)
  BY <1>1, TimesAreFixed
<1>3. Total' = Total
  BY <1>2 DEF Total
<1>4. /\ now \in Nat /\ entered \in Nat /\ TimeOf(pc) \in Nat /\ entered <= now
      /\ Rest(pc) \in Nat /\ Total \in Nat
  BY TimesAreNat DEF Inductive, TypeOK, Clock, Rest, Total
<1>5. pc # "done" => now <= entered + TimeOf(pc)
  BY <1>4, LimitIsCounted DEF InBudget, Left
<1>6. CASE UNCHANGED call
  <2>1. UNCHANGED <<pc, now, entered>>
    BY <1>6 DEF call
  <2> QED
    BY <1>2, <1>3, <2>1 DEF InTotal
<1>7. CASE Tick
  <2>1. UNCHANGED <<pc, entered>> /\ now - entered < PhaseLimit
    BY <1>7 DEF Tick
  <2>2. pc # "done"
    BY <1>4, <2>1 DEF PhaseLimit, Waiting
  <2> QED
    BY <1>2, <1>3, <2>1, <2>2 DEF InTotal
<1>8. CASE \E r : Return(r)
  <2>1. pc' = "done" /\ now' = now
    BY <1>8 DEF Return
  <2>2. now <= Total
    BY <1>4, <1>5 DEF InTotal
  <2> QED
    BY <1>3, <2>1, <2>2 DEF InTotal
<1>9. ASSUME NEW phase \in {"backend", "verify", "relay", "receipt", "submit", "wait",
                           "second", "read", "notify"}, Enter(phase), call' # call
      PROVE  InTotal'
  <2>1. pc' = phase /\ entered' = now /\ now' = now /\ phase # "done"
    BY <1>9 DEF Enter
  <2>2. TimeOf(phase) \in Nat /\ Rest(phase) \in Nat
    BY TimesAreNat DEF Rest
  <2>3. InTotal' <=> now + TimeOf(phase) + Rest(phase) <= Total
    BY <1>2, <1>3, <2>1 DEF InTotal
  <2>4. CASE RankOf(phase) < RankOf(pc)
    <3>1. pc # "done"
      BY <2>4 DEF RankOf
    <3>2. TimeOf(phase) + Rest(phase) <= Rest(pc)
      BY <2>4, RestShrinks
    <3>3. entered + TimeOf(pc) + Rest(pc) <= Total
      BY <3>1 DEF InTotal
    <3> QED
      BY <1>4, <1>5, <2>2, <2>3, <3>1, <3>2, <3>3
  <2>5. CASE pc' = pc /\ Left' < Left
    <3>1. pc = phase /\ pc # "done"
      BY <2>1, <2>5
    <3>2. PhaseLimit' = PhaseLimit
      BY <1>1, <2>5, RoutingIsFixed DEF PhaseLimit, Waiting, RelayBudget
    <3>3. PICK n \in Nat : PhaseLimit = n /\ PhaseLimit' = n
      BY <1>4, <3>1, <3>2, LimitIsCounted
    <3>4. n - (now - now) < n - (now - entered)
      BY <2>1, <2>5, <3>3 DEF Left
    <3>5. now < entered
      BY <1>4, <3>4
    <3> QED
      BY <1>4, <3>5
  <2> QED
    BY <1>9, <2>1, <2>4, <2>5 DEF RunsDown
<1> QED
  BY <1>6, <1>7, <1>8, <1>9, StepKinds

\* A call takes no longer than the limits of the phases it has, each taken once: the
\* attempt and the verification come before the relay waits, which have their whole
\* budget, and no failure on the way makes the call start a phase again.  The limit of
\* each wait is what RelayClient, BackendAttempt and the chain clients keep to.
THEOREM CallIsBounded == Spec => []CallBounded
<1>1. Init => InTotal
  <2> SUFFICES ASSUME Init PROVE InTotal
    OBVIOUS
  <2>1. Inductive
    BY InitInductive
  <2>2. entered = 0 /\ pc = "create" /\ TimeOf(pc) = 0 /\ Total \in Nat
    BY <2>1, TimesAreNat DEF Init, TimeOf, Total, Rest
  <2> QED
    BY <2>2 DEF InTotal, Total
<1>2. Inductive /\ Inductive' /\ InBudget /\ InTotal /\ [Next]_vars => InTotal' /\ InBudget'
  BY NextRunsDown, TotalIsKept
<1>3. Inductive /\ InBudget /\ InTotal => CallBounded
  <2> SUFFICES ASSUME Inductive, InBudget, InTotal PROVE now <= Total
    BY DEF CallBounded
  <2>1. CASE pc = "done"
    BY <2>1 DEF InTotal
  <2>2. CASE pc # "done"
    <3>1. /\ now \in Nat /\ entered \in Nat /\ TimeOf(pc) \in Nat /\ Rest(pc) \in Nat
          /\ Total \in Nat
      BY TimesAreNat DEF Inductive, TypeOK, Rest, Total
    <3>2. now <= entered + TimeOf(pc)
      BY <2>2, <3>1, LimitIsCounted DEF InBudget, Left
    <3> QED
      BY <2>2, <3>1, <3>2 DEF InTotal
  <2> QED
    BY <2>1, <2>2
<1> QED
  BY <1>1, <1>2, <1>3, InitInBudget, Invariance, PTL DEF Spec
=============================================================================
