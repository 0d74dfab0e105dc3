---------------------------- MODULE RelayPromise ----------------------------
(***************************************************************************)
(* What relayTxAndWaitPacket promises its callers (swap, bridge, money     *)
(* market, staking, migration, dex): a source transaction is handed to the *)
(* relay, and the call ends either with a packet of that transaction that  *)
(* the relay has executed on the hub, or with one of the relay codes.  How *)
(* often it posts, polls, retries or sleeps is not visible here.           *)
(***************************************************************************)
CONSTANTS Own,      \* packets of the source transaction
          Foreign   \* packets of other transactions the relay may list

VARIABLES phase,       \* of the call: "submitting", "waiting" or "done"
          registered,  \* the relay knows the source transaction
          executed,    \* packets the relay has executed on the hub
          outcome      \* how the call ended

vars == <<phase, registered, executed, outcome>>

Packets == Own \cup Foreign
Pending == [code |-> "none"]
Failed(c) == [code |-> c]
Found(p) == [code |-> "found", packet |-> p]

\* Codes of a call that never got past the submit, and of one that did.
SubmitCodes == {"SUBMIT_TX_FAILED", "RAW_ERROR"}
WaitCodes == {"RELAY_TIMEOUT", "RELAY_POLLING_FAILED"}

Init == /\ phase = "submitting"
        /\ registered = FALSE
        /\ executed = {}
        /\ outcome = Pending

\* The relay: it learns of the transaction, and later executes packets.
Register == /\ registered' = TRUE
            /\ UNCHANGED <<phase, executed, outcome>>

Execute == \E p \in Packets :
              /\ p \in Own => registered
              /\ executed' = executed \cup {p}
              /\ UNCHANGED <<phase, registered, outcome>>

\* The caller: the submit is acknowledged or fails, then the wait ends.
Acknowledged == /\ phase = "submitting" /\ registered
                /\ phase' = "waiting"
                /\ UNCHANGED <<registered, executed, outcome>>

SubmitFails == /\ phase = "submitting"
               /\ phase' = "done"
               /\ \E c \in SubmitCodes : outcome' = Failed(c)
               /\ UNCHANGED <<registered, executed>>

Deliver == /\ phase = "waiting"
           /\ \E p \in Own \cap executed : outcome' = Found(p)
           /\ phase' = "done"
           /\ UNCHANGED <<registered, executed>>

GiveUp == /\ phase = "waiting"
          /\ phase' = "done"
          /\ \E c \in WaitCodes : outcome' = Failed(c)
          /\ UNCHANGED <<registered, executed>>

Next == Register \/ Execute \/ Acknowledged \/ SubmitFails \/ Deliver \/ GiveUp

Spec == Init /\ [][Next]_vars
=============================================================================
