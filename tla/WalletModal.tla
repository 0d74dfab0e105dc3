---------------------------- MODULE WalletModal ----------------------------
(***************************************************************************)
(* The connection dialog, useWalletModal, over the EVM connection: each    *)
(* pick of a wallet starts an attempt that asks the wallet and waits for   *)
(* EvmHydrator to store its connection, while the user goes back, closes,  *)
(* picks another wallet, disconnects or reloads the page.  An attempt      *)
(* cannot be aborted: it runs on, and its result counts only when the      *)
(* dialog still shows its connector.  The hook compares XConnector objects *)
(* by identity, and EvmHydrator builds new ones when the list of wallets   *)
(* grows: a connector is known by its wallet and the list it was built in. *)
(***************************************************************************)
EXTENDS EvmConnection

CONSTANTS
  Uninstalled,  \* further wallets, offered without being installed
  MaxAttempts,  \* bound: attempts
  MaxReloads    \* bound: page reloads

ASSUME ModalAssumption ==
  /\ Uninstalled \intersect (Connectors \union {None}) = {}
  /\ MaxAttempts \in Nat \ {0} /\ MaxReloads \in Nat

Attempts == 1..MaxAttempts

VARIABLES
  modal,     \* walletModal: kind and connector
  slot,      \* inFlightRef: the attempt it holds, 0 for none
  connector, \* XConnector of each attempt
  stage,     \* unused, starts, asks (the wallet), waits (for the entry), over
  picked,    \* history: attempt of the user's last pick, 0 once the user walked away
  reloads

attempts == <<slot, connector, stage>>
vars == <<evm, modal, attempts, picked, reloads>>

Dialog(kind, x) == [kind |-> kind, connector |-> x]

Init ==
  /\ EvmInit
  /\ modal = Dialog("closed", None) /\ picked = 0
  /\ slot = 0 /\ reloads = 0
  /\ connector = [a \in Attempts |-> None]
  /\ stage = [a \in Attempts |-> "unused"]

\* The XConnector of a wallet in the present list.
XConnector(c) == [wallet |-> c, list |-> announced]

\* Slip: any dialog that shows a connecting wallet.
AnyConnecting(x) == modal.kind = "connecting"

\* isStillCurrent.
StillCurrent(x) == modal = Dialog("connecting", x)

\* Slip: whatever entry there is.
AnyEntry(x) == entry # None

\* waitForXConnection: the entry of another wallet does not count.
Matches(x) == entry = x.wallet

\* Promises are settled before the next task.
Quiet == Rendered /\ \A a \in Attempts : stage[a] # "starts"
                                         /\ (stage[a] = "waits" => ~Matches(connector[a]))

-----------------------------------------------------------------------------
(* The dialog.                                                              *)

Unpicked == {Dialog("closed", None), Dialog("chainSelect", None), Dialog("walletSelect", None)}

\* open, close, back and selectChain: whatever was being connected is left.
Navigate ==
  /\ Quiet
  /\ modal' \in Unpicked /\ modal' # modal
  /\ picked' = 0
  /\ UNCHANGED <<evm, attempts, reloads>>

InFlight(x) == slot # 0 /\ connector[slot] = x

Unused == {a \in Attempts : stage[a] = "unused"}

\* What the user may pick: the present list, and by retry the connector that failed.
Offered == {XConnector(c) : c \in announced \union Uninstalled}
             \union (IF modal.kind = "error" THEN {modal.connector} ELSE {})

\* selectWallet and retry: a pick of the connector in flight joins it.
Pick(x) ==
  /\ Quiet
  /\ modal.kind \in {"walletSelect", "connecting", "error"}
  /\ \/ /\ InFlight(x)
        /\ picked' = slot
        /\ UNCHANGED <<modal, attempts, evm>>
     \/ /\ ~InFlight(x) /\ x.wallet \in Uninstalled
        /\ modal' = Dialog("error", x) /\ picked' = 0
        /\ UNCHANGED <<attempts, evm>>
     \/ /\ ~InFlight(x) /\ x.wallet \notin Uninstalled
        /\ \E a \in Unused :
             /\ \A o \in Unused : a <= o
             /\ slot' = a /\ picked' = a
             /\ connector' = [connector EXCEPT ![a] = x]
             /\ stage' = [stage EXCEPT ![a] = "starts"]
        /\ modal' = Dialog("connecting", x)
        /\ BeginConnect
  /\ UNCHANGED reloads

\* Slip: the slot is emptied for another attempt only.
KeepsSlot(a) == slot

\* The `finally` of an attempt: it empties the slot if that holds its connector.
Emptied(a) == IF InFlight(connector[a]) THEN 0 ELSE slot

Finish(a) ==
  /\ stage' = [stage EXCEPT ![a] = "over"]
  /\ slot' = Emptied(a)
  /\ UNCHANGED <<connector, picked, reloads>>

Shows(a, kind) ==
  modal' = IF StillCurrent(connector[a]) THEN Dialog(kind, connector[a]) ELSE modal

\* The connect resolved: an attempt that the user left ends here.
AfterConnect(a) ==
  \/ /\ StillCurrent(connector[a])
     /\ stage' = [stage EXCEPT ![a] = "waits"]
     /\ UNCHANGED <<slot, connector, modal, picked, reloads>>
  \/ ~StillCurrent(connector[a]) /\ Finish(a) /\ UNCHANGED modal

Begin(a) ==
  /\ stage[a] = "starts"
  /\ \/ /\ AlreadyConnected(connector[a].wallet)
        /\ AfterConnect(a) /\ UNCHANGED evm
     \/ /\ AskWallet(connector[a].wallet)
        /\ stage' = [stage EXCEPT ![a] = "asks"]
        /\ UNCHANGED <<slot, connector, modal, picked, reloads>>

\* The wallet's answer, if it ever comes.
Answered(a) ==
  /\ Quiet /\ stage[a] = "asks"
  /\ \/ Approved(connector[a].wallet) /\ AfterConnect(a)
     \/ Declined /\ Finish(a) /\ Shows(a, "error")

\* The entry of the wallet is stored, or the time for that is over.
Waited(a) ==
  /\ stage[a] = "waits"
  /\ \/ Matches(connector[a]) /\ Shows(a, "success")
     \/ ~Matches(connector[a]) /\ Quiet /\ Shows(a, "error")
  /\ Finish(a)
  /\ UNCHANGED evm

-----------------------------------------------------------------------------
UserDisconnects ==
  /\ Quiet /\ Disconnect
  /\ UNCHANGED <<modal, attempts, picked, reloads>>

ReloadPage ==
  /\ Quiet /\ reloads < MaxReloads
  /\ Reload
  /\ reloads' = reloads + 1
  /\ modal' = Dialog("closed", None) /\ picked' = 0 /\ slot' = 0
  /\ stage' = [a \in Attempts |-> IF stage[a] = "unused" THEN "unused" ELSE "over"]
  /\ UNCHANGED connector

User == Navigate \/ (\E x \in Offered : Pick(x)) \/ UserDisconnects \/ ReloadPage

React == (Render \/ Hydrate) /\ UNCHANGED <<modal, attempts, picked, reloads>>

Outside == Quiet /\ Wallets /\ UNCHANGED <<modal, attempts, picked, reloads>>

AttemptStep(a) == Begin(a) \/ Answered(a) \/ Waited(a)

Next == User \/ React \/ Outside \/ \E a \in Attempts : AttemptStep(a)

\* React renders, timers and promises fire, and wagmi ends a reconnect; a wallet that
\* was asked, or told to disconnect, may never answer.
Fairness ==
  /\ WF_vars(React)
  /\ WF_vars(Quiet /\ ReconnectEnds /\ UNCHANGED <<modal, attempts, picked, reloads>>)
  /\ \A a \in Attempts : WF_vars(Begin(a)) /\ WF_vars(Waited(a))

Spec == Init /\ [][Next]_vars /\ Fairness

-----------------------------------------------------------------------------
XConnectors == [wallet : Connectors \union Uninstalled, list : SUBSET Connectors]
Dialogs == Unpicked \union [kind : {"connecting", "success", "error"}, connector : XConnectors]

\* Types of the dialog's variables; the slot holds an attempt that is under way.
TypeOK ==
  /\ EvmTypeOK
  /\ modal \in Dialogs
  /\ slot \in 0..MaxAttempts /\ picked \in 0..MaxAttempts
  /\ slot # 0 => stage[slot] \in {"starts", "asks", "waits"}
  /\ connector \in [Attempts -> XConnectors \union {None}]
  /\ stage \in [Attempts -> {"unused", "starts", "asks", "waits", "over"}]
  /\ reloads \in 0..MaxReloads

\* The dialog is about the wallet the user last picked and has not walked away from;
\* it says "success" only of a wallet whose connection is the one stored, and
\* "connecting" only while an attempt for that wallet runs (useWalletModal).
DialogIsAboutPick ==
  [][/\ modal'.kind = "connecting" =>
          \E a \in Attempts : stage'[a] \in {"starts", "asks", "waits"}
                              /\ connector'[a] = modal'.connector
     /\ modal'.kind = "success" /\ modal # modal' =>
          /\ entry' = modal'.connector.wallet
          /\ picked # 0 /\ connector[picked] = modal'.connector]_vars

\* An attempt that the user left or replaced never moves the dialog: only the one
\* that the last pick started may
\* (docs/WALLET_MODAL.md on selectWallet).
LateResultIsDropped ==
  [][\A a \in Attempts :
       stage[a] \in {"asks", "waits"} /\ stage'[a] = "over" /\ modal'.kind \in {"success", "error"}
         => modal' = modal \/ picked = a]_vars

\* An entry does not outlive its connection: unless a wallet is being asked, it is
\* confirmed by wagmi or goes, also after a reload
\* (the last effect of EvmHydrator).
EntryIsResolved ==
  entry # None ~> \/ entry = None \/ status = "connected"
                  \/ \E a \in Attempts : stage[a] = "asks"
=============================================================================
