--------------------------- MODULE EvmConnection ---------------------------
(***************************************************************************)
(* The EVM connection of wallet-sdk-react: wagmi's connections, the        *)
(* persisted entry of the app's own store, the flag that the user          *)
(* disconnected, and EvmHydrator, whose effects carry one to the other.    *)
(* EvmActions.connect and disconnect are the operations; wallets answer,   *)
(* announce themselves, drop out, come back by themselves or stall; the    *)
(* page may be reloaded at any time.                                       *)
(*                                                                         *)
(* Both stores are external to React, which renders a change of them and   *)
(* runs the effects before the next task: every step that begins a task    *)
(* has the conjunct Rendered.                                              *)
(***************************************************************************)
EXTENDS Integers

CONSTANTS
  Connectors,  \* wallets
  Lazy,        \* those that announce themselves after the page has loaded
  None         \* no wallet

ASSUME EvmAssumption == Lazy \subseteq Connectors /\ None \notin Connectors

VARIABLES
  entry,        \* xConnections.EVM, persisted
  flag,         \* userDisconnected.EVM, persisted
  live,         \* connections wagmi holds
  current,      \* the current one of them
  status,       \* wagmi: disconnected, busy (connecting, reconnecting), connected
  reconnecting, \* wagmi's isReconnecting
  leaving,      \* wallets whose disconnect is under way
  announced,    \* wallets that have announced themselves
  hydrated,     \* usePersistHydrated
  wasConnected, \* wasConnectedRef
  seen          \* what EvmHydrator last rendered

store == <<entry, flag>>
wagmi == <<live, current, status, reconnecting, leaving, announced>>
hydrator == <<hydrated, wasConnected, seen>>
evm == <<store, wagmi, hydrator>>

Shown == [status |-> status, connector |-> current, flag |-> flag]
Rendered == seen = Shown
Blank == [status |-> "none", connector |-> None, flag |-> FALSE]

EvmInit ==
  /\ entry \in Connectors \union {None} /\ flag = FALSE
  /\ live = {} /\ current = None /\ status = "disconnected"
  /\ reconnecting = FALSE /\ leaving = {} /\ announced = Connectors \ Lazy
  /\ hydrated = FALSE /\ wasConnected = FALSE /\ seen = Blank

-----------------------------------------------------------------------------
(* EvmHydrator.                                                             *)

\* The reconnect effect; wagmi ignores the call while it reconnects already.
WantsReconnect(ready) ==
  ready /\ seen'.status = "disconnected" /\ entry # None /\ ~flag

Reconnects(ready) ==
  IF WantsReconnect(ready) /\ ~reconnecting
  THEN reconnecting' = TRUE /\ status' = "busy"
  ELSE UNCHANGED <<reconnecting, status>>

\* Slip: the flag is not looked at.
ShowsGhosts == status = "connected"

\* A wallet that ignores the disconnect must not be shown again.
ShowsWallet == status = "connected" /\ ~flag

\* The status effect.
Reflect ==
  \/ /\ ShowsWallet
     /\ wasConnected' = TRUE /\ entry' = current
  \/ /\ status = "disconnected" /\ wasConnected
     /\ wasConnected' = FALSE /\ entry' = None
  \/ /\ ~ShowsWallet /\ ~(status = "disconnected" /\ wasConnected)
     /\ UNCHANGED <<wasConnected, entry>>

\* A render whose snapshot differs, and its effects in their order: the reconnect
\* effect depends on the status only, and reads the entry before it is cleared.
Render ==
  /\ ~Rendered
  /\ seen' = Shown
  /\ Reconnects(hydrated /\ seen.status # status)
  /\ Reflect
  /\ UNCHANGED <<flag, live, current, leaving, announced, hydrated>>

\* Slip: an entry that was read back does not count as a connection.
ForgetsEntry == wasConnected

\* A persisted entry means that we were connected.
WereConnected == wasConnected \/ entry # None

\* The persisted state has been read: the reconnect effect and the last effect run.
Hydrate ==
  /\ ~hydrated /\ Rendered
  /\ hydrated' = TRUE
  /\ wasConnected' = WereConnected
  /\ UNCHANGED seen
  /\ Reconnects(TRUE)
  /\ UNCHANGED <<entry, flag, live, current, leaving, announced>>

-----------------------------------------------------------------------------
(* EvmActions.                                                              *)

\* connect: the flag is cleared before wagmi is asked, which may surface a
\* connection that wagmi still holds.
BeginConnect ==
  /\ flag' = FALSE
  /\ UNCHANGED <<entry, wagmi, hydrator>>

\* wagmi refuses to connect the current wallet again; connect resolves.
AlreadyConnected(c) == current = c

AskWallet(c) ==
  /\ ~AlreadyConnected(c)
  /\ status' = "busy"
  /\ UNCHANGED <<store, live, current, reconnecting, leaving, announced, hydrator>>

Approved(c) ==
  /\ live' = live \union {c} /\ current' = c /\ status' = "connected"
  /\ UNCHANGED <<store, reconnecting, leaving, announced, hydrator>>

Declined ==
  /\ status' = IF current = None THEN "disconnected" ELSE "connected"
  /\ UNCHANGED <<store, live, current, reconnecting, leaving, announced, hydrator>>

\* disconnect: the store first, then every wagmi connection.
Disconnect ==
  /\ Rendered
  /\ entry' = None /\ flag' = TRUE
  /\ leaving' = leaving \union live
  /\ UNCHANGED <<live, current, status, reconnecting, announced, hydrator>>

-----------------------------------------------------------------------------
(* wagmi and the wallets.                                                   *)

\* A connection ends: another one becomes current.
Remove(c) ==
  /\ live' = live \ {c}
  /\ \/ live' = {} /\ current' = None /\ status' = "disconnected"
     \/ live' # {} /\ current' \in live' /\ UNCHANGED status

\* The wallet confirms a disconnect, or its disconnect fails: the connection stays.
Leaves(c) ==
  /\ Rendered /\ c \in leaving
  /\ leaving' = leaving \ {c}
  /\ Remove(c) \/ UNCHANGED <<live, current, status>>
  /\ UNCHANGED <<store, reconnecting, announced, hydrator>>

WalletDrops(c) ==
  /\ Rendered /\ c \in live
  /\ Remove(c)
  /\ UNCHANGED <<store, reconnecting, leaving, announced, hydrator>>

\* A wallet connects by itself; wagmi does not listen while it is busy.
WalletReturns(c) ==
  /\ Rendered /\ c \in announced /\ status # "busy"
  /\ live' = live \union {c} /\ current' = c /\ status' = "connected"
  /\ UNCHANGED <<store, reconnecting, leaving, announced, hydrator>>

\* A reconnect finds wallets that let the page in, or none.
ReconnectEnds ==
  /\ Rendered /\ reconnecting
  /\ reconnecting' = FALSE
  /\ \/ live' \in (SUBSET announced) \ {{}} /\ current' \in live' /\ status' = "connected"
     \/ status = "busy" /\ live' = {} /\ current' = None /\ status' = "disconnected"
     \/ status # "busy" /\ UNCHANGED <<live, current, status>>
  /\ UNCHANGED <<store, leaving, announced, hydrator>>

\* The list of connectors grows, which re-fires the reconnect effect.
Announce(c) ==
  /\ Rendered /\ c \in Lazy \ announced
  /\ announced' = announced \union {c}
  /\ UNCHANGED seen
  /\ Reconnects(hydrated)
  /\ UNCHANGED <<store, live, current, leaving, hydrated, wasConnected>>

\* The persisted part of the store survives.
Reload ==
  /\ Rendered
  /\ live' = {} /\ current' = None /\ status' = "disconnected"
  /\ reconnecting' = FALSE /\ leaving' = {} /\ announced' = Connectors \ Lazy
  /\ hydrated' = FALSE /\ wasConnected' = FALSE /\ seen' = Blank
  /\ UNCHANGED store

Wallets ==
  \/ \E c \in Connectors : Leaves(c) \/ WalletDrops(c) \/ WalletReturns(c) \/ Announce(c)
  \/ ReconnectEnds

-----------------------------------------------------------------------------
\* Types of the connection's variables; wagmi has a current connection exactly when it
\* has one.
EvmTypeOK ==
  /\ entry \in Connectors \union {None} /\ flag \in BOOLEAN
  /\ live \subseteq Connectors /\ current \in live \union {None}
  /\ current = None <=> live = {}
  /\ status \in {"disconnected", "busy", "connected"}
  /\ reconnecting \in BOOLEAN /\ leaving \subseteq Connectors
  /\ announced \subseteq Connectors /\ Connectors \ Lazy \subseteq announced
  /\ hydrated \in BOOLEAN /\ wasConnected \in BOOLEAN
  /\ seen \in [status : {"none", "disconnected", "busy", "connected"},
               connector : Connectors \union {None}, flag : BOOLEAN]

\* What the user disconnected stays disconnected: no late answer, returning wallet,
\* reconnect or reload puts an entry back until the user connects again
\* (EvmActions.disconnect, EvmHydrator).
DisconnectSticks == flag => entry = None
=============================================================================
