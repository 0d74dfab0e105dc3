------------------------- MODULE WalletModalProofs -------------------------
(***************************************************************************)
(* Proofs of the safety properties of WalletModal for every set of wallets *)
(* and every number of attempts and reloads.  The inductive invariant adds *)
(* that an attempt is for a wallet, and that a dialog that shows a wallet  *)
(* connecting is backed twice: by the attempt in the slot and by the       *)
(* user's last pick.                                                       *)
(***************************************************************************)
EXTENDS WalletModal, TLAPS

AttemptsHaveWallets ==
  \A a \in Attempts :
    stage[a] # "unused" => connector[a] \in XConnectors /\ connector[a].wallet \in Connectors

ConnectingIsBacked ==
  modal.kind = "connecting" =>
    /\ slot # 0 /\ connector[slot] = modal.connector
    /\ picked # 0 /\ connector[picked] = modal.connector

IInv ==
  /\ TypeOK
  /\ AttemptsHaveWallets
  /\ ConnectingIsBacked
  /\ DisconnectSticks

\* What the dialog's part of the invariant is about.
rest == <<modal, attempts, picked, reloads>>

-----------------------------------------------------------------------------
(* The connection.                                                          *)

LEMMA InitEvm == Init => EvmTypeOK /\ DisconnectSticks
<1> SUFFICES ASSUME EvmInit PROVE EvmTypeOK /\ DisconnectSticks
  BY DEF Init
<1>1. /\ entry \in Connectors \union {None} /\ flag = FALSE
      /\ live = {} /\ current = None /\ status = "disconnected"
      /\ reconnecting = FALSE /\ leaving = {} /\ hydrated = FALSE /\ wasConnected = FALSE
  BY DEF EvmInit
<1>2. announced \subseteq Connectors /\ Connectors \ Lazy \subseteq announced
  BY DEF EvmInit
<1>3. seen \in [status : {"none", "disconnected", "busy", "connected"},
                connector : Connectors \union {None}, flag : BOOLEAN]
  BY DEF EvmInit, Blank
<1>4. QED
  BY <1>1, <1>2, <1>3 DEF EvmTypeOK, DisconnectSticks

\* A render stores only a wallet that wagmi shows while the flag is down.
LEMMA RenderEvm ==
  ASSUME EvmTypeOK, DisconnectSticks, Render
  PROVE  EvmTypeOK' /\ DisconnectSticks'
<1> USE EvmAssumption DEF EvmTypeOK
<1>1. /\ UNCHANGED <<flag, live, current, leaving, announced, hydrated>>
      /\ seen' = Shown
  BY DEF Render
<1>2. reconnecting' \in BOOLEAN /\ status' \in {"disconnected", "busy", "connected"}
  BY DEF Render, Reconnects
<1>3. wasConnected' \in BOOLEAN /\ entry' \in Connectors \union {None}
      /\ (flag => entry' = entry \/ entry' = None)
  BY DEF Render, Reflect, ShowsWallet
<1>4. seen' \in [status : {"none", "disconnected", "busy", "connected"},
                 connector : Connectors \union {None}, flag : BOOLEAN]
  BY <1>1 DEF Shown
<1>5. EvmTypeOK'
  BY <1>1, <1>2, <1>3, <1>4
<1>6. DisconnectSticks'
  BY <1>1, <1>3 DEF DisconnectSticks
<1>7. QED
  BY <1>5, <1>6

LEMMA HydrateEvm ==
  ASSUME EvmTypeOK, DisconnectSticks, Hydrate
  PROVE  EvmTypeOK' /\ DisconnectSticks'
  BY DEF EvmTypeOK, DisconnectSticks, Hydrate, Reconnects, WereConnected

\* What the operations do to the connection.
LEMMA OperationEvm ==
  ASSUME EvmTypeOK, DisconnectSticks, NEW c \in Connectors,
         BeginConnect \/ AskWallet(c) \/ Approved(c) \/ Declined \/ Disconnect \/ Reload
         \/ UNCHANGED evm
  PROVE  EvmTypeOK' /\ DisconnectSticks'
<1> USE EvmAssumption DEF EvmTypeOK, DisconnectSticks, store, wagmi, hydrator
<1>1. CASE BeginConnect
  BY <1>1 DEF BeginConnect
<1>2. CASE AskWallet(c)
  BY <1>2 DEF AskWallet
<1>3. CASE Approved(c)
  BY <1>3 DEF Approved
<1>4. CASE Declined
  BY <1>4 DEF Declined
<1>5. CASE Disconnect
  BY <1>5 DEF Disconnect
<1>6. CASE Reload
  BY <1>6 DEF Reload, Blank
<1>7. CASE UNCHANGED evm
  BY <1>7 DEF evm
<1>8. QED
  BY <1>1, <1>2, <1>3, <1>4, <1>5, <1>6, <1>7

\* No wallet and no answer of wagmi touches the store.
LEMMA WalletsEvm ==
  ASSUME EvmTypeOK, DisconnectSticks, Wallets
  PROVE  EvmTypeOK' /\ DisconnectSticks'
<1> USE EvmAssumption DEF EvmTypeOK, DisconnectSticks, store, hydrator
<1>1. ASSUME NEW c \in Connectors, Leaves(c) PROVE EvmTypeOK' /\ DisconnectSticks'
  BY <1>1 DEF Leaves, Remove
<1>2. ASSUME NEW c \in Connectors, WalletDrops(c) PROVE EvmTypeOK' /\ DisconnectSticks'
  BY <1>2 DEF WalletDrops, Remove
<1>3. ASSUME NEW c \in Connectors, WalletReturns(c) PROVE EvmTypeOK' /\ DisconnectSticks'
  BY <1>3 DEF WalletReturns
<1>4. ASSUME NEW c \in Connectors, Announce(c) PROVE EvmTypeOK' /\ DisconnectSticks'
  BY <1>4 DEF Announce, Reconnects
<1>5. ASSUME ReconnectEnds PROVE EvmTypeOK' /\ DisconnectSticks'
  BY <1>5 DEF ReconnectEnds
<1>6. QED
  BY <1>1, <1>2, <1>3, <1>4, <1>5 DEF Wallets

-----------------------------------------------------------------------------
(* The dialog.                                                              *)

\* The dialog's own part of the type invariant.
DialogTypeOK ==
  /\ modal \in Dialogs
  /\ slot \in 0..MaxAttempts /\ picked \in 0..MaxAttempts
  /\ slot # 0 => stage[slot] \in {"starts", "asks", "waits"}
  /\ connector \in [Attempts -> XConnectors \union {None}]
  /\ stage \in [Attempts -> {"unused", "starts", "asks", "waits", "over"}]
  /\ reloads \in 0..MaxReloads

Backed == DialogTypeOK /\ AttemptsHaveWallets /\ ConnectingIsBacked

LEMMA InvariantParts == IInv <=> EvmTypeOK /\ DisconnectSticks /\ Backed
  BY DEF IInv, TypeOK, Backed, DialogTypeOK

LEMMA InitBacked == Init => Backed
<1> SUFFICES ASSUME Init PROVE Backed
  OBVIOUS
<1>1. /\ modal = Dialog("closed", None) /\ slot = 0 /\ picked = 0 /\ reloads = 0
      /\ connector = [a \in Attempts |-> None] /\ stage = [a \in Attempts |-> "unused"]
  BY DEF Init
<1>2. modal.kind = "closed" /\ 0 \in 0..MaxAttempts /\ 0 \in 0..MaxReloads
  BY <1>1, ModalAssumption DEF Dialog
<1>3. DialogTypeOK
  BY <1>1, <1>2 DEF DialogTypeOK, Dialogs, Unpicked
<1>4. QED
  BY <1>1, <1>2, <1>3 DEF Backed, AttemptsHaveWallets, ConnectingIsBacked

LEMMA RestBacked ==
  ASSUME Backed, UNCHANGED rest
  PROVE  Backed'
  BY DEF Backed, DialogTypeOK, AttemptsHaveWallets, ConnectingIsBacked, rest, attempts

LEMMA NavigateBacked ==
  ASSUME Backed, Navigate
  PROVE  Backed'
<1> USE ModalAssumption DEF Backed, DialogTypeOK
<1>1. modal' \in Unpicked /\ picked' = 0 /\ UNCHANGED <<slot, connector, stage, reloads>>
  BY DEF Navigate, attempts
<1>2. modal' \in Dialogs /\ modal'.kind # "connecting"
  BY <1>1 DEF Dialogs, Unpicked, Dialog
<1>3. QED
  BY <1>1, <1>2 DEF AttemptsHaveWallets, ConnectingIsBacked

\* The user picks a connector: a dialog in error shows one.
LEMMA OfferedTypes ==
  ASSUME DialogTypeOK, EvmTypeOK, NEW x \in Offered
  PROVE  x \in XConnectors
<1>1. CASE x \in {XConnector(c) : c \in announced \union Uninstalled}
  BY <1>1 DEF XConnector, XConnectors, EvmTypeOK
<1>2. CASE modal.kind = "error" /\ x = modal.connector
  BY <1>2 DEF DialogTypeOK, Dialogs, Unpicked, Dialog
<1>3. QED
  BY <1>1, <1>2 DEF Offered

LEMMA PickBacked ==
  ASSUME Backed, EvmTypeOK, NEW x \in Offered, Pick(x)
  PROVE  Backed'
<1> USE ModalAssumption DEF Backed, DialogTypeOK
<1>0. x \in XConnectors
  BY OfferedTypes
<1>1. CASE InFlight(x) /\ picked' = slot /\ UNCHANGED <<modal, attempts, evm>>
  <2>1. modal.kind = "connecting" => modal.connector = x
    BY <1>1 DEF InFlight, ConnectingIsBacked
  <2>2. UNCHANGED <<slot, connector, stage, modal, reloads>>
    BY <1>1 DEF Pick, attempts
  <2>3. QED
    BY <1>1, <2>1, <2>2 DEF AttemptsHaveWallets, ConnectingIsBacked, InFlight
<1>2. CASE /\ x.wallet \in Uninstalled /\ modal' = Dialog("error", x) /\ picked' = 0
           /\ UNCHANGED <<attempts, evm>>
  <2>1. UNCHANGED <<slot, connector, stage, reloads>>
    BY <1>2 DEF Pick, attempts
  <2>2. modal' \in Dialogs
    BY <1>0, <1>2 DEF Dialog, Dialogs
  <2>3. QED
    BY <1>2, <2>1, <2>2 DEF AttemptsHaveWallets, ConnectingIsBacked, Dialog
<1>3. ASSUME NEW a \in Unused, x.wallet \notin Uninstalled, slot' = a, picked' = a,
             connector' = [connector EXCEPT ![a] = x],
             stage' = [stage EXCEPT ![a] = "starts"],
             modal' = Dialog("connecting", x)
      PROVE  Backed'
  <2>1. x.wallet \in Connectors /\ a \in Attempts /\ a # 0 /\ a \in 0..MaxAttempts
    BY <1>0, <1>3 DEF Unused, Attempts, XConnectors
  <2>2. connector' \in [Attempts -> XConnectors \union {None}]
        /\ stage' \in [Attempts -> {"unused", "starts", "asks", "waits", "over"}]
        /\ connector'[a] = x /\ stage'[a] = "starts"
    BY <1>0, <1>3, <2>1
  <2>3. UNCHANGED reloads
    BY DEF Pick
  <2>4. modal' \in Dialogs /\ modal'.connector = x
    BY <1>0, <1>3 DEF Dialog, Dialogs
  <2>5. AttemptsHaveWallets'
    BY <1>0, <1>3, <2>1 DEF AttemptsHaveWallets
  <2>6. ConnectingIsBacked'
    BY <1>3, <2>1, <2>2, <2>4 DEF ConnectingIsBacked
  <2>7. QED
    BY <1>3, <2>1, <2>2, <2>3, <2>4, <2>5, <2>6
<1>4. QED
  BY <1>1, <1>2, <1>3 DEF Pick

\* The end of an attempt empties the slot when it holds that connector, and then the
\* dialog that showed it connecting has moved on.
LEMMA FinishBacked ==
  ASSUME Backed, NEW a \in Attempts, stage[a] # "unused", Finish(a),
         \/ Shows(a, "success") \/ Shows(a, "error")
         \/ ~StillCurrent(connector[a]) /\ UNCHANGED modal
  PROVE  Backed'
<1> USE ModalAssumption DEF Backed, DialogTypeOK
<1>1. /\ stage' = [stage EXCEPT ![a] = "over"] /\ slot' = Emptied(a)
      /\ UNCHANGED <<connector, picked, reloads>>
  BY DEF Finish
<1>2. slot' \in {0, slot} /\ (slot' # 0 => slot # a)
  BY <1>1 DEF Emptied, InFlight
<1>3. connector[a] \in XConnectors
  BY DEF AttemptsHaveWallets
<1>4. modal' \in Dialogs
  BY <1>3 DEF Shows, Dialog, Dialogs
<1>5. modal'.kind = "connecting" => modal' = modal /\ modal.connector # connector[a]
  <2>1. modal.kind = "connecting" => modal = Dialog("connecting", modal.connector)
    BY DEF Dialogs, Unpicked, Dialog
  <2>2. modal' = modal \/ modal'.kind \in {"success", "error"}
    BY DEF Shows, Dialog
  <2>3. modal' = modal => modal # Dialog("connecting", connector[a])
    BY DEF Shows, StillCurrent, Dialog
  <2>4. QED
    BY <2>1, <2>2, <2>3
<1>6. modal'.kind = "connecting" => slot' = slot
  BY <1>1, <1>5 DEF Emptied, InFlight, ConnectingIsBacked
<1>7. slot' # 0 => stage'[slot'] \in {"starts", "asks", "waits"}
  BY <1>1, <1>2
<1>8. AttemptsHaveWallets'
  BY <1>1 DEF AttemptsHaveWallets
<1>9. ConnectingIsBacked'
  BY <1>1, <1>5, <1>6 DEF ConnectingIsBacked
<1>10. stage' \in [Attempts -> {"unused", "starts", "asks", "waits", "over"}]
       /\ slot' \in 0..MaxAttempts
  BY <1>1, <1>2
<1>11. connector' \in [Attempts -> XConnectors \union {None}]
       /\ picked' \in 0..MaxAttempts /\ reloads' \in 0..MaxReloads
  BY <1>1
<1> HIDE DEF DialogTypeOK
<1>12. DialogTypeOK'
  BY <1>4, <1>7, <1>10, <1>11 DEF DialogTypeOK
<1>13. QED
  BY <1>8, <1>9, <1>12

\* An attempt that goes on to its next stage.
LEMMA StageBacked ==
  ASSUME Backed, NEW a \in Attempts, stage[a] # "unused", NEW s \in {"asks", "waits"},
         stage' = [stage EXCEPT ![a] = s], UNCHANGED <<slot, connector, modal, picked, reloads>>
  PROVE  Backed'
<1>1. stage' \in [Attempts -> {"unused", "starts", "asks", "waits", "over"}]
  BY DEF Backed, DialogTypeOK
<1>2. slot # 0 => stage'[slot] \in {"starts", "asks", "waits"}
  BY DEF Backed, DialogTypeOK
<1>3. AttemptsHaveWallets'
  BY DEF Backed, AttemptsHaveWallets, DialogTypeOK
<1>4. QED
  BY <1>1, <1>2, <1>3 DEF Backed, DialogTypeOK, ConnectingIsBacked

LEMMA AfterConnectBacked ==
  ASSUME Backed, NEW a \in Attempts, stage[a] # "unused", AfterConnect(a)
  PROVE  Backed'
<1>1. CASE ~StillCurrent(connector[a]) /\ Finish(a) /\ UNCHANGED modal
  BY <1>1, FinishBacked
<1>2. CASE /\ stage' = [stage EXCEPT ![a] = "waits"]
           /\ UNCHANGED <<slot, connector, modal, picked, reloads>>
  BY <1>2, StageBacked
<1>3. QED
  BY <1>1, <1>2 DEF AfterConnect

LEMMA AttemptInvariant ==
  ASSUME IInv, NEW a \in Attempts, AttemptStep(a)
  PROVE  IInv'
<1>0. EvmTypeOK /\ DisconnectSticks /\ Backed /\ stage[a] # "unused"
  BY InvariantParts DEF AttemptStep, Begin, Answered, Waited
<1>1. connector[a].wallet \in Connectors
  BY <1>0 DEF Backed, AttemptsHaveWallets
<1>2. EvmTypeOK' /\ DisconnectSticks'
  BY <1>0, <1>1, OperationEvm DEF AttemptStep, Begin, Answered, Waited
<1>3. Backed'
  <2>1. CASE Begin(a)
    <3>1. CASE AfterConnect(a)
      BY <1>0, <3>1, AfterConnectBacked
    <3>2. CASE stage' = [stage EXCEPT ![a] = "asks"]
               /\ UNCHANGED <<slot, connector, modal, picked, reloads>>
      BY <1>0, <3>2, StageBacked
    <3>3. QED
      BY <2>1, <3>1, <3>2 DEF Begin
  <2>2. CASE Answered(a)
    BY <1>0, <2>2, AfterConnectBacked, FinishBacked DEF Answered
  <2>3. CASE Waited(a)
    BY <1>0, <2>3, FinishBacked DEF Waited
  <2>4. QED
    BY <2>1, <2>2, <2>3 DEF AttemptStep
<1>4. QED
  BY <1>2, <1>3 DEF IInv, TypeOK, Backed, DialogTypeOK

LEMMA NextInvariant == IInv /\ [Next]_vars => IInv'
<1> SUFFICES ASSUME IInv, [Next]_vars PROVE IInv'
  OBVIOUS
<1>0. EvmTypeOK /\ DisconnectSticks /\ Backed
  BY InvariantParts
<1>1. ASSUME EvmTypeOK', DisconnectSticks', Backed' PROVE IInv'
  BY <1>1 DEF IInv, TypeOK, Backed, DialogTypeOK
<1>2. CASE UNCHANGED <<evm, rest>>
  <2>1. UNCHANGED evm /\ UNCHANGED rest
    BY <1>2 DEF rest, attempts
  <2>2. EvmTypeOK' /\ DisconnectSticks'
    BY <1>0, <2>1 DEF evm, store, wagmi, hydrator, EvmTypeOK, DisconnectSticks
  <2>3. QED
    BY <1>0, <1>1, <2>1, <2>2, RestBacked
<1>3. CASE Navigate
  <2>1. EvmTypeOK' /\ DisconnectSticks'
    BY <1>0, <1>3 DEF Navigate, evm, store, wagmi, hydrator, EvmTypeOK, DisconnectSticks
  <2>2. QED
    BY <1>0, <1>1, <1>3, <2>1, NavigateBacked
<1>4. ASSUME NEW x \in Offered, Pick(x) PROVE IInv'
  <2>1. CASE UNCHANGED evm
    <3>1. EvmTypeOK' /\ DisconnectSticks'
      BY <1>0, <2>1 DEF evm, store, wagmi, hydrator, EvmTypeOK, DisconnectSticks
    <3>2. QED
      BY <1>0, <1>1, <1>4, <3>1, PickBacked
  <2>2. CASE x.wallet \notin Uninstalled /\ BeginConnect
    <3>0. x.wallet \in Connectors
      BY <1>0, <2>2, OfferedTypes DEF Backed, XConnectors
    <3>1. EvmTypeOK' /\ DisconnectSticks'
      BY <1>0, <2>2, <3>0, OperationEvm
    <3>2. QED
      BY <1>0, <1>1, <1>4, <3>1, PickBacked
  <2>3. QED
    BY <1>4, <2>1, <2>2 DEF Pick
<1>5. CASE UserDisconnects
  <2>1. EvmTypeOK' /\ DisconnectSticks' /\ UNCHANGED rest
    BY <1>0, <1>5
       DEF UserDisconnects, Disconnect, EvmTypeOK, DisconnectSticks, hydrator, rest
  <2>2. QED
    BY <1>0, <1>1, <2>1, RestBacked
<1>6. CASE ReloadPage
  <2>1. EvmTypeOK' /\ DisconnectSticks'
    BY <1>0, <1>6, EvmAssumption
       DEF ReloadPage, Reload, EvmTypeOK, DisconnectSticks, store, Blank
  <2>2. /\ modal' = Dialog("closed", None) /\ picked' = 0 /\ slot' = 0 /\ connector' = connector
        /\ stage' = [a \in Attempts |-> IF stage[a] = "unused" THEN "unused" ELSE "over"]
        /\ reloads' = reloads + 1 /\ reloads < MaxReloads
    BY <1>6 DEF ReloadPage
  <2>3. DialogTypeOK'
    BY <1>0, <2>2, ModalAssumption DEF Backed, DialogTypeOK, Dialogs, Unpicked
  <2>4. AttemptsHaveWallets' /\ ConnectingIsBacked'
    BY <1>0, <2>2 DEF Backed, AttemptsHaveWallets, ConnectingIsBacked, Dialog
  <2>5. QED
    BY <1>1, <2>1, <2>3, <2>4 DEF Backed
<1>7. CASE React
  <2>1. EvmTypeOK' /\ DisconnectSticks'
    BY <1>0, <1>7, RenderEvm, HydrateEvm DEF React
  <2>2. UNCHANGED rest
    BY <1>7 DEF React, rest
  <2>3. QED
    BY <1>0, <1>1, <2>1, <2>2, RestBacked
<1>8. CASE Outside
  <2>1. EvmTypeOK' /\ DisconnectSticks'
    BY <1>0, <1>8, WalletsEvm DEF Outside
  <2>2. UNCHANGED rest
    BY <1>8 DEF Outside, rest
  <2>3. QED
    BY <1>0, <1>1, <2>1, <2>2, RestBacked
<1>9. QED
  BY <1>2, <1>3, <1>4, <1>5, <1>6, <1>7, <1>8, AttemptInvariant
     DEF Next, User, vars, rest

-----------------------------------------------------------------------------
\* The inductive invariant holds in every reachable state, for all wallets and bounds
\* (useWalletModal over EvmHydrator).
THEOREM Invariance == Spec => []IInv
<1>1. Init => IInv
  BY InitEvm, InitBacked, InvariantParts
<1>2. QED
  BY <1>1, NextInvariant, PTL DEF Spec

\* The slot never holds an attempt that is over (inFlightRef of useWalletModal).
THEOREM TypeCorrect == Spec => []TypeOK
<1>1. IInv => TypeOK
  BY DEF IInv
<1>2. QED
  BY <1>1, Invariance, PTL

\* Nothing but the user's own connect undoes a disconnect
\* (EvmActions.disconnect, EvmHydrator).
THEOREM DisconnectCorrect == Spec => []DisconnectSticks
<1>1. IInv => DisconnectSticks
  BY DEF IInv
<1>2. QED
  BY <1>1, Invariance, PTL

\* The dialog shows a success only of the wallet last picked, whose connection is
\* stored, and a wallet connecting only while an attempt for it runs
\* (useWalletModal).
THEOREM DialogCorrect == Spec => DialogIsAboutPick
<1>1. ASSUME IInv, IInv', [Next]_vars, modal'.kind = "connecting"
      PROVE  \E a \in Attempts : stage'[a] \in {"starts", "asks", "waits"}
                                /\ connector'[a] = modal'.connector
  <2>1. slot' \in Attempts /\ stage'[slot'] \in {"starts", "asks", "waits"}
        /\ connector'[slot'] = modal'.connector
    BY <1>1, ModalAssumption DEF IInv, TypeOK, ConnectingIsBacked, Attempts
  <2>2. QED
    BY <2>1
<1>2. ASSUME IInv, [Next]_vars, modal'.kind = "success", modal # modal'
      PROVE  /\ entry' = modal'.connector.wallet
             /\ picked # 0 /\ connector[picked] = modal'.connector
  <2>1. PICK a \in Attempts : Waited(a) /\ Matches(connector[a]) /\ Shows(a, "success")
    BY <1>2 DEF Next, User, React, Outside, Navigate, Unpicked, Pick, UserDisconnects, ReloadPage,
                AttemptStep, Begin, Answered, Waited, AfterConnect, Shows, Dialog, vars
  <2>2. modal = Dialog("connecting", connector[a]) /\ modal' = Dialog("success", connector[a])
    BY <1>2, <2>1 DEF Shows, StillCurrent
  <2>3. entry' = entry /\ entry = connector[a].wallet
    BY <2>1 DEF Waited, Matches, evm, store
  <2>4. QED
    BY <1>2, <2>2, <2>3 DEF IInv, ConnectingIsBacked, Dialog
<1>3. IInv /\ IInv' /\ [Next]_vars
        => [/\ modal'.kind = "connecting" =>
                  \E a \in Attempts : stage'[a] \in {"starts", "asks", "waits"}
                                      /\ connector'[a] = modal'.connector
            /\ modal'.kind = "success" /\ modal # modal' =>
                  /\ entry' = modal'.connector.wallet
                  /\ picked # 0 /\ connector[picked] = modal'.connector]_vars
  BY <1>1, <1>2
<1>4. QED
  BY <1>3, Invariance, PTL DEF Spec, DialogIsAboutPick

-----------------------------------------------------------------------------
(* The persisted entry and wagmi.                                           *)

\* Once rendered, the store shows wagmi's current wallet unless the user disconnected,
\* and nothing at all when wagmi has given up on the entry that was read back.
EntryFollows ==
  Rendered =>
    /\ status = "connected" /\ ~flag => entry = current
    /\ hydrated /\ status = "disconnected" => entry = None

\* An entry counts as a connection, and wagmi reconnects for the hydrator only.
Mirrored ==
  /\ EntryFollows
  /\ hydrated /\ entry # None => wasConnected
  /\ reconnecting => hydrated

\* What a step does to the connection, and whether React has rendered before it.
LEMMA EvmSteps ==
  ASSUME [Next]_vars, AttemptsHaveWallets
  PROVE  \/ UNCHANGED evm
         \/ Render
         \/ Hydrate
         \/ Rendered /\ BeginConnect
         \/ \E c \in Connectors : AskWallet(c) \/ (Rendered /\ Approved(c))
         \/ Rendered /\ (Declined \/ Disconnect \/ Reload \/ Wallets)
<1>1. CASE UNCHANGED vars
  BY <1>1 DEF vars
<1>2. CASE Navigate \/ UserDisconnects \/ ReloadPage
  BY <1>2 DEF Navigate, UserDisconnects, ReloadPage, Quiet
<1>3. ASSUME NEW x, Pick(x) PROVE UNCHANGED evm \/ (Rendered /\ BeginConnect)
  BY <1>3 DEF Pick, Quiet
<1>4. CASE React \/ Outside
  BY <1>4 DEF React, Outside, Quiet
<1>5. ASSUME NEW a \in Attempts, AttemptStep(a)
      PROVE  \/ UNCHANGED evm
             \/ Rendered /\ Declined
             \/ \E c \in Connectors : AskWallet(c) \/ (Rendered /\ Approved(c))
  <2>1. stage[a] # "unused" => /\ connector[a] \in XConnectors
                                              /\ connector[a].wallet \in Connectors
    BY DEF AttemptsHaveWallets
  <2>2. CASE Begin(a)
    BY <2>1, <2>2 DEF Begin
  <2>3. CASE Answered(a)
    BY <2>1, <2>3 DEF Answered, Quiet
  <2>4. CASE Waited(a)
    BY <2>4 DEF Waited
  <2>5. QED
    BY <1>5, <2>2, <2>3, <2>4 DEF AttemptStep
<1>6. QED
  BY <1>1, <1>2, <1>3, <1>4, <1>5 DEF Next, User

\* The effects bring the store in line, or wagmi reconnects and is rendered again.
LEMMA RenderMirrors == ASSUME EvmTypeOK, DisconnectSticks, Mirrored, Render PROVE Mirrored'
<1>1. /\ UNCHANGED <<flag, current, hydrated>> /\ seen' = [status |-> status, connector |-> current,
                                                           flag |-> flag]
  BY DEF Render, Shown
<1>2. \/ status' = "busy" /\ reconnecting' /\ hydrated
      \/ status' = status /\ reconnecting' = reconnecting
  BY DEF Render, Reconnects, WantsReconnect
<1>3. EntryFollows'
  <2>1. Rendered' => status' = status
    BY <1>1 DEF Rendered, Shown
  <2>2. status = "connected" /\ ~flag => entry' = current
    BY DEF Render, Reflect, ShowsWallet
  <2>3. hydrated /\ status = "disconnected" => entry' = None
    BY DEF Render, Reflect, ShowsWallet, Mirrored
  <2>4. QED
    BY <1>1, <2>1, <2>2, <2>3 DEF EntryFollows
<1>4. hydrated' /\ entry' # None => wasConnected'
  BY <1>1 DEF Render, Reflect, Mirrored
<1>5. reconnecting' => hydrated'
  BY <1>1, <1>2 DEF Mirrored
<1>6. QED
  BY <1>3, <1>4, <1>5 DEF Mirrored

LEMMA HydrateMirrors == ASSUME EvmTypeOK, DisconnectSticks, Mirrored, Hydrate PROVE Mirrored'
<1>1. /\ ~hydrated /\ Rendered /\ hydrated' /\ wasConnected' = (wasConnected \/ entry # None)
      /\ ~reconnecting /\ UNCHANGED <<entry, flag, current, seen>>
  BY DEF Hydrate, WereConnected, Mirrored
<1>2. seen'.status = status
  BY <1>1 DEF Rendered, Shown
<1>3. \/ status' = "busy"
      \/ status' = status /\ (status = "disconnected" => entry = None)
  BY <1>1, <1>2 DEF Hydrate, Reconnects, WantsReconnect, DisconnectSticks
<1>4. EntryFollows'
  BY <1>1, <1>3 DEF EntryFollows, Mirrored
<1>5. QED
  BY <1>1, <1>4 DEF Mirrored

\* A task changes what is shown, and is rendered later, or leaves it and the entry alone.
LEMMA TaskMirrors ==
  ASSUME EvmTypeOK, Mirrored, seen' = seen \/ seen' = Blank, seen' = seen => Rendered,
         hydrated' = hydrated \/ ~hydrated', reconnecting' => reconnecting \/ hydrated,
         reconnecting' => hydrated',
         status' \in {"disconnected", "busy", "connected"},
         \/ UNCHANGED <<entry, wasConnected>>
         \/ entry' = None /\ flag'
         \/ ~hydrated' /\ UNCHANGED entry
  PROVE  Mirrored'
<1>1. EntryFollows'
  <2>1. CASE seen' = Blank
    BY <2>1 DEF EntryFollows, Rendered, Shown, Blank
  <2>2. CASE seen' = seen
    <3>1. Rendered
      BY <2>2
    <3>2. Rendered' => status' = status /\ current' = current /\ flag' = flag
      BY <2>2, <3>1 DEF Rendered, Shown
    <3>3. QED
      BY <3>1, <3>2 DEF EntryFollows, Mirrored
  <2>3. QED
    BY <2>1, <2>2
<1>2. hydrated' /\ entry' # None => wasConnected'
  BY DEF Mirrored
<1>3. QED
  BY <1>1, <1>2 DEF Mirrored

LEMMA MirrorStep == IInv /\ Mirrored /\ [Next]_vars => Mirrored'
<1> SUFFICES ASSUME IInv, Mirrored, [Next]_vars PROVE Mirrored'
  OBVIOUS
<1>0. EvmTypeOK /\ DisconnectSticks /\ AttemptsHaveWallets
  BY DEF IInv, TypeOK
<1> USE DEF store, wagmi, hydrator
<1>1. CASE UNCHANGED evm
  BY <1>1 DEF evm, Mirrored, EntryFollows, Rendered, Shown
<1>2. CASE Render \/ Hydrate
  BY <1>0, <1>2, RenderMirrors, HydrateMirrors
<1>3. CASE Rendered /\ BeginConnect
  BY <1>0, <1>3, TaskMirrors DEF BeginConnect, Mirrored, EvmTypeOK
<1>4. ASSUME NEW c \in Connectors, AskWallet(c) PROVE Mirrored'
  BY <1>4 DEF AskWallet, Mirrored, EntryFollows, Rendered, Shown
<1>5. ASSUME NEW c \in Connectors, Rendered, Approved(c) PROVE Mirrored'
  BY <1>0, <1>5, TaskMirrors DEF Approved, Mirrored
<1>6. CASE Rendered /\ (Declined \/ Disconnect)
  BY <1>0, <1>6, TaskMirrors DEF Declined, Disconnect, Mirrored, EvmTypeOK
<1>7. CASE Rendered /\ Reload
  BY <1>0, <1>7, TaskMirrors DEF Reload
<1>8. CASE Rendered /\ Wallets
  <2>1. /\ UNCHANGED <<entry, flag, wasConnected, hydrated, seen>>
        /\ status' \in {"disconnected", "busy", "connected"}
        /\ reconnecting' => reconnecting \/ hydrated
    <3> USE <1>0 DEF EvmTypeOK
    <3>1. ASSUME NEW c \in Connectors, Leaves(c) \/ WalletDrops(c) \/ WalletReturns(c)
          PROVE  /\ UNCHANGED <<entry, flag, wasConnected, hydrated, seen, reconnecting>>
                 /\ status' \in {"disconnected", "busy", "connected"}
      BY <3>1 DEF Leaves, WalletDrops, WalletReturns, Remove
    <3>2. ASSUME NEW c \in Connectors, Announce(c)
          PROVE  /\ UNCHANGED <<entry, flag, wasConnected, hydrated, seen>>
                 /\ status' \in {"disconnected", "busy", "connected"}
                 /\ reconnecting' => reconnecting \/ hydrated
      BY <3>2 DEF Announce, Reconnects, WantsReconnect
    <3>3. CASE ReconnectEnds
      BY <3>3 DEF ReconnectEnds
    <3>4. QED
      BY <1>8, <3>1, <3>2, <3>3 DEF Wallets
  <2>2. QED
    BY <1>0, <1>8, <2>1, TaskMirrors DEF Mirrored
<1>9. QED
  BY <1>0, <1>1, <1>2, <1>3, <1>4, <1>5, <1>6, <1>7, <1>8, EvmSteps

\* Whenever React has rendered, the persisted connection is wagmi's current one, or none
\* if the user disconnected it or wagmi could not bring it back: no wallet that answers
\* late, drops out or returns leaves another entry behind (EvmHydrator).
THEOREM EntryCorrect == Spec => []EntryFollows
<1>1. Init => Mirrored
  BY DEF Init, EvmInit, Mirrored, EntryFollows, Rendered, Shown, Blank
<1>2. Mirrored => EntryFollows
  BY DEF Mirrored
<1>3. QED
  BY <1>1, <1>2, MirrorStep, Invariance, PTL DEF Spec
=============================================================================
