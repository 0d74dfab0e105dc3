-------------------------- MODULE CompletionPromise -------------------------
(***************************************************************************)
(* What an orchestrated operation (swap, bridge, supply, stake, ...)       *)
(* promises: at most one source transaction is broadcast, and the caller   *)
(* is told of success only when everything the operation stands for has    *)
(* happened.  Who carried it across, the client or the backend, and how    *)
(* long it took, is not visible here.                                      *)
(***************************************************************************)
VARIABLES sent,       \* the source transaction was broadcast
          effects,    \* what has happened to it
          needed,     \* what the operation requires before it may succeed
          verdict     \* what the caller was told

vars == <<sent, effects, needed, verdict>>

\* The transaction is on the hub, the solver knows of it, and the second leg
\* reached the destination chain.
Effects == {"delivered", "notified", "settled"}

Init == /\ sent = FALSE /\ effects = {}
        /\ needed \subseteq Effects
        /\ verdict = "pending"

Broadcast == /\ ~sent /\ verdict = "pending"
             /\ sent' = TRUE
             /\ UNCHANGED <<effects, needed, verdict>>

Happen == /\ sent
          /\ \E e \in Effects : effects' = effects \cup {e}
          /\ UNCHANGED <<sent, needed, verdict>>

Succeed == /\ sent /\ needed \subseteq effects
           /\ verdict = "pending" /\ verdict' = "success"
           /\ UNCHANGED <<sent, effects, needed>>

Fail == /\ verdict = "pending" /\ verdict' = "failure"
        /\ UNCHANGED <<sent, effects, needed>>

Next == Broadcast \/ Happen \/ Succeed \/ Fail

Spec == Init /\ [][Next]_vars
=============================================================================
