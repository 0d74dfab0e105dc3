---------------------------- MODULE AttemptPromise --------------------------
(***************************************************************************)
(* What one backend submit-tx attempt promises to the operations that open *)
(* it (swap, vault swap, bridge): within its budget it answers once, with  *)
(* success or with a request to fall back to the client's own relay.       *)
(* Success means that the backend's record is complete.  After a fallback  *)
(* the backend may go on with what was posted.  How often the attempt      *)
(* polls, sleeps and fails is not visible here.                            *)
(***************************************************************************)
EXTENDS Integers

VARIABLES budget,   \* time the attempt may take
          elapsed,  \* time it has taken
          posted,   \* the transaction was posted to the backend
          record,   \* the backend's record: none, working, complete or stopped
          answer    \* pending, success or fallback

vars == <<budget, elapsed, posted, record, answer>>

Init == /\ budget \in Nat /\ elapsed = 0
        /\ posted = FALSE /\ record = "none" /\ answer = "pending"

\* Nothing is posted that there is no time to hear of.
Post == /\ answer = "pending" /\ ~posted /\ elapsed < budget
        /\ posted' = TRUE
        /\ UNCHANGED <<budget, elapsed, record, answer>>

\* An attempt that posts nothing takes no time.
Pass == /\ answer = "pending" /\ posted /\ elapsed < budget
        /\ elapsed' = elapsed + 1
        /\ UNCHANGED <<budget, posted, record, answer>>

Succeed == /\ answer = "pending" /\ record = "complete"
           /\ answer' = "success"
           /\ UNCHANGED <<budget, elapsed, posted, record>>

FallBack == /\ answer = "pending" /\ answer' = "fallback"
            /\ UNCHANGED <<budget, elapsed, posted, record>>

\* The backend, before and after the answer.
Queue == /\ posted /\ record = "none" /\ record' = "working"
         /\ UNCHANGED <<budget, elapsed, posted, answer>>

End == /\ record = "working" /\ record' \in {"complete", "stopped"}
       /\ UNCHANGED <<budget, elapsed, posted, answer>>

Next == Post \/ Pass \/ Succeed \/ FallBack \/ Queue \/ End

Spec == Init /\ [][Next]_vars
=============================================================================
