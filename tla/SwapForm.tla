------------------------------ MODULE SwapForm ------------------------------
(***************************************************************************)
(* A swap form: the dapp-kit hook useSwapLifecycle over the SDK call       *)
(* swapWithApproval, with the user, the wallet and the source chain around *)
(* it.  Each next() that swaps starts a call: it picks an approval         *)
(* strategy, sends the deposit in an EIP-5792 batch or after a separate    *)
(* approval, and completes the swap (Completion).  A batch that was not    *)
(* confirmed is resumed by a further call that only waits for it.          *)
(*                                                                         *)
(* The form acts on what it last rendered (`view`), while the mutation it  *)
(* observes moves on.  React renders a change before the next answer from  *)
(* outside is handled, hence the conjunct Rendered of every step of a      *)
(* call; the user may click before it does.                                *)
(***************************************************************************)
EXTENDS Integers

CONSTANTS
  Intents,       \* intent params a user may enter, up to isSameIntent
  MaxCalls,      \* bound: calls of swapWithApproval
  LosesAnswers   \* the wallet's answer may be lost after it sent something

ASSUME FormAssumption == MaxCalls \in Nat \ {0} /\ LosesAnswers \in BOOLEAN

Calls == 1..MaxCalls

VARIABLES
  params,      \* intent params in the form
  observed,    \* call the mutation observer tracks, 0 for none
  acting,      \* the acting ref of next()
  view,        \* what was last rendered
  pc,          \* control state of each call
  intent,      \* params of each call
  root,        \* the call whose batch a call waits for: itself, or an earlier one
  outcome,     \* how each call ended
  approval,    \* separate approval of each call
  batch,       \* its batch
  swapTx,      \* its separately sent deposit
  verdict,     \* detailed status of its deposit: open, solved, failed
  dropped      \* history: calls whose tracking the user gave up by reset()

form == <<params, observed, acting, view>>
calls == <<pc, intent, root, outcome>>
chain == <<approval, batch, swapTx, verdict>>
vars == <<form, calls, chain, dropped>>

-----------------------------------------------------------------------------
(* What the form shows.                                                     *)

\* Slip: an edit of the params forgets an unconfirmed batch.
ForgetsBatch(o) == o = "afterBroadcast"

\* toSwapAttempt: an attempt that may still land counts whatever the params are.
MayStillLand(o) == o \in {"unconfirmed", "afterBroadcast"}

Phase ==
  IF observed = 0 THEN "none"
  ELSE IF outcome[observed] = "running" THEN "submitting"
  ELSE IF ~MayStillLand(outcome[observed]) /\ intent[observed] # params THEN "none"
  ELSE IF outcome[observed] \in {"success", "afterBroadcast"} THEN "broadcast"
  ELSE outcome[observed]

\* resolveSwapLifecycle: an attempt wins over everything else the form knows.  Of a
\* form without one only "ready" is of interest: in every other state next() sends
\* no swap.
Progress(v) == IF v = "solved" THEN "settled" ELSE IF v = "failed" THEN v ELSE "pending"

Kind == IF Phase = "broadcast" THEN Progress(verdict[root[observed]])
        ELSE IF Phase = "none" THEN "ready" ELSE Phase

Current == [kind |-> Kind, params |-> params, call |-> observed]
Rendered == view = Current

Init ==
  /\ params \in Intents
  /\ observed = 0 /\ acting = FALSE
  /\ view = [kind |-> "ready", params |-> params, call |-> 0]
  /\ pc = [c \in Calls |-> "unused"]
  /\ intent = [c \in Calls |-> params]
  /\ root = [c \in Calls |-> c]
  /\ outcome = [c \in Calls |-> "running"]
  /\ approval = [c \in Calls |-> "none"]
  /\ batch = [c \in Calls |-> "none"] /\ swapTx = [c \in Calls |-> "none"]
  /\ verdict = [c \in Calls |-> "open"]
  /\ dropped = {}

-----------------------------------------------------------------------------
(* The user and React.                                                      *)

Render == /\ ~Rendered /\ view' = Current
          /\ UNCHANGED <<params, observed, acting, calls, chain, dropped>>

Edit(p) == /\ params' = p
           /\ UNCHANGED <<observed, acting, view, calls, chain, dropped>>

\* mutateAsyncSafe: the observer turns to the new call at once.
Start(c, at, p, r) ==
  /\ pc[c] = "unused" /\ \A k \in 1..(c - 1) : pc[k] # "unused"
  /\ pc' = [pc EXCEPT ![c] = at]
  /\ intent' = [intent EXCEPT ![c] = p]
  /\ root' = [root EXCEPT ![c] = r]
  /\ observed' = c
  /\ acting' = TRUE
  /\ UNCHANGED <<params, view, outcome, chain, dropped>>

\* next() does nothing while an earlier one runs.
NotActing == ~acting

NextSwaps(c) == NotActing /\ view.kind = "ready" /\ Start(c, "strategy", view.params, c)

\* Slip: what was not confirmed is sent again.
ResumesBySending(c) == /\ NotActing /\ view.kind = "unconfirmed"
                       /\ Start(c, "strategy", intent[view.call], c)

\* The call that resumes a batch runs with the variables of the one that sent it.
NextResumes(c) == /\ NotActing /\ view.kind = "unconfirmed"
                  /\ Start(c, "batchWait", intent[view.call], root[view.call])

Detach == observed' = 0 /\ UNCHANGED <<params, acting, view, calls, chain>>

\* After a settled or failed swap next() starts over; it tracks nothing else.
NextStartsOver == /\ NotActing /\ view.kind \in {"settled", "failed"}
                  /\ Detach
                  /\ UNCHANGED dropped

\* reset(): its check for a call in flight is the rendered one.
Reset == /\ view.kind # "submitting" /\ observed # 0
         /\ Detach
         /\ dropped' = dropped \cup {root[observed]}

-----------------------------------------------------------------------------
(* One call of swapWithApproval.                                            *)

Go(c, to) == /\ pc' = [pc EXCEPT ![c] = to]
             /\ UNCHANGED <<intent, root, outcome, form, dropped>>

\* The call returns, and the next() that made it lets go of the acting ref.
End(c, o) == /\ pc' = [pc EXCEPT ![c] = "done"]
             /\ outcome' = [outcome EXCEPT ![c] = o]
             /\ acting' = FALSE
             /\ UNCHANGED <<params, observed, view, intent, root, dropped>>

At(c, here) == Rendered /\ pc[c] = here

\* getApprovalStrategy: the allowance suffices, the wallet can batch, or neither.
PickStrategy(c) == /\ At(c, "strategy")
                   /\ \E to \in {"deposit", "build", "preflight"} : Go(c, to)
                   /\ UNCHANGED chain

\* Slip: an unexpected exception is handed on as it is.
ThrowsEarly(c) == /\ Rendered /\ pc[c] \in {"strategy", "preflight", "build"}
                  /\ End(c, "thrown")
                  /\ UNCHANGED chain

\* Anything that fails before the wallet is asked: the allowance read, building
\* the transactions, the preflight.
FailsEarly(c) == /\ Rendered /\ pc[c] \in {"strategy", "preflight", "build"}
                 /\ End(c, "failed")
                 /\ UNCHANGED chain

Built(c) == /\ \/ At(c, "preflight") /\ Go(c, "approve")
               \/ At(c, "build") /\ Go(c, "batchPrompt")
            /\ UNCHANGED chain

ApproveSent(c) == /\ At(c, "approve")
                  /\ Go(c, "confirm")
                  /\ approval' = [approval EXCEPT ![c] = "sent"]
                  /\ UNCHANGED <<batch, swapTx, verdict>>

\* Slip: a receipt is enough, its status is not looked at.
ReceiptSuffices(c) == /\ At(c, "confirm") /\ approval[c] # "sent"
                      /\ Go(c, "deposit")
                      /\ UNCHANGED chain

\* confirmApproval: the deposit waits for a successful receipt.
ApproveConfirmed(c) == /\ At(c, "confirm") /\ approval[c] = "landed"
                       /\ Go(c, "deposit")
                       /\ UNCHANGED chain

\* A rejected or failed approval, a reverted one, no receipt in time.
ApproveFails(c) == /\ Rendered /\ pc[c] \in {"approve", "confirm"}
                   /\ End(c, "failed")
                   /\ UNCHANGED chain

DepositSent(c) == /\ At(c, "deposit")
                  /\ Go(c, "complete")
                  /\ swapTx' = [swapTx EXCEPT ![c] = "sent"]
                  /\ UNCHANGED <<approval, batch, verdict>>

\* The user rejects, or the wallet throws.
DepositFails(c) == /\ At(c, "deposit")
                   /\ End(c, "failed")
                   /\ \/ UNCHANGED swapTx
                      \/ LosesAnswers /\ swapTx' = [swapTx EXCEPT ![c] = "sent"]
                   /\ UNCHANGED <<approval, batch, verdict>>

\* Only a batch refused before anything was signed falls back to a separate
\* approval; it was built already.
BatchRefused(c) == /\ At(c, "batchPrompt")
                   /\ Go(c, "approve")
                   /\ UNCHANGED chain

BatchThrows(c) == /\ At(c, "batchPrompt")
                  /\ End(c, "failed")
                  /\ \/ UNCHANGED batch
                     \/ LosesAnswers /\ batch' = [batch EXCEPT ![c] = "sent"]
                  /\ UNCHANGED <<approval, swapTx, verdict>>

BatchSent(c) == /\ At(c, "batchPrompt")
                /\ Go(c, "batchWait")
                /\ batch' = [batch EXCEPT ![c] = "sent"]
                /\ UNCHANGED <<approval, swapTx, verdict>>

BatchConfirmed(c) == /\ At(c, "batchWait") /\ batch[root[c]] = "landed"
                     /\ Go(c, "complete")
                     /\ UNCHANGED chain

\* EIP-5792 400 and 500: never included or fully reverted.
BatchFailed(c) == /\ At(c, "batchWait") /\ batch[root[c]] = "dead"
                  /\ End(c, "failed")
                  /\ UNCHANGED chain

\* A partial revert (600), receipts that do not identify the deposit, or an error
\* of the wallet.
BatchUnclear(c) == /\ At(c, "batchWait")
                   /\ End(c, "unconfirmed")
                   /\ UNCHANGED chain

\* Slip: the wait has no timeout.
WaitsForever(c) == FALSE /\ BatchUnclear(c)

BatchTimesOut(c) == BatchUnclear(c)

\* completeSwap, or the relay and solver steps of resumeAtomicBatch.  A failure
\* keeps the source transaction in its context (FailureKeepsTx of Completion).
Completes(c) ==
  /\ At(c, "complete")
  /\ \/ /\ "landed" \in {batch[root[c]], swapTx[c]} /\ End(c, "success")
     \/ End(c, "afterBroadcast")
  /\ UNCHANGED chain

-----------------------------------------------------------------------------
(* The source chain, and what its status reads come to.                     *)

Settle(tx, c) == tx[c] = "sent" /\ \E s \in {"landed", "dead"} : tx' = [tx EXCEPT ![c] = s]

Mine(c) == /\ \/ pc[c] = "confirm" /\ Settle(approval, c) /\ UNCHANGED <<batch, swapTx>>
              \/ Settle(batch, c) /\ UNCHANGED <<approval, swapTx>>
              \/ Settle(swapTx, c) /\ UNCHANGED <<approval, batch>>
           /\ UNCHANGED <<form, calls, verdict, dropped>>

\* useDetailedStatus: the deposit's intent is filled, cancelled or given up on.
Conclude(c) == /\ verdict[c] = "open" /\ "landed" \in {batch[c], swapTx[c]}
               /\ \E v \in {"solved", "failed"} : verdict' = [verdict EXCEPT ![c] = v]
               /\ UNCHANGED <<form, calls, approval, batch, swapTx, dropped>>

-----------------------------------------------------------------------------
User == \/ \E p \in Intents \ {params} : Edit(p)
        \/ \E c \in Calls : NextSwaps(c) \/ NextResumes(c)
        \/ NextStartsOver \/ Reset
CallStep(c) == \/ PickStrategy(c) \/ FailsEarly(c) \/ Built(c)
               \/ ApproveSent(c) \/ ApproveConfirmed(c) \/ ApproveFails(c)
               \/ DepositSent(c) \/ DepositFails(c)
               \/ BatchRefused(c) \/ BatchThrows(c) \/ BatchSent(c)
               \/ BatchConfirmed(c) \/ BatchFailed(c) \/ BatchUnclear(c)
               \/ Completes(c)
Timers == Render \/ \E c \in Calls : BatchTimesOut(c)
Environment == \E c \in Calls : Mine(c) \/ Conclude(c)

Next == User \/ Timers \/ Environment \/ \E c \in Calls : CallStep(c)

\* React renders, and the wait for a batch has a timeout.  The wallet, the user and
\* the chain owe nothing.
Spec == /\ Init /\ [][Next]_vars
        /\ WF_vars(Render) /\ \A c \in Calls : SF_vars(BatchTimesOut(c))

-----------------------------------------------------------------------------
Sent == {"none", "sent", "landed", "dead"}
Kinds == {"ready", "submitting", "pending", "settled", "failed",
          "unconfirmed"}

\* The types of the form's state and of the calls it made.
TypeOK ==
  /\ params \in Intents /\ acting \in BOOLEAN
  /\ observed \in 0..MaxCalls
  /\ view \in [kind : Kinds, params : Intents, call : 0..MaxCalls]
  /\ pc \in [Calls -> {"unused", "strategy", "preflight", "build", "approve",
                       "confirm", "deposit", "batchPrompt", "batchWait",
                       "complete", "done"}]
  /\ intent \in [Calls -> Intents] /\ root \in [Calls -> Calls]
  /\ outcome \in [Calls -> {"running", "failed", "unconfirmed",
                            "afterBroadcast", "success"}]
  /\ approval \in [Calls -> Sent] /\ batch \in [Calls -> Sent]
  /\ swapTx \in [Calls -> Sent] /\ verdict \in [Calls -> {"open", "solved", "failed"}]
  /\ dropped \subseteq Calls

Running(c) == pc[c] \notin {"unused", "done"}
MayLand(c) == {batch[c], swapTx[c]} \cap {"sent", "landed"} # {}

\* A deposit nobody needs to worry about: it cannot land, its swap was completed or
\* concluded, or the user told the form to forget it.
Accounted(c) == \/ ~MayLand(c)
                \/ verdict[c] # "open"
                \/ \E k \in Calls : root[k] = c /\ outcome[k] = "success"
                \/ c \in dropped

SendsDeposit(c) == \/ batch[c] = "none" /\ batch'[c] # "none"
                   \/ swapTx[c] = "none" /\ swapTx'[c] # "none"

\* A deposit goes out only when no earlier one may still land unaccounted for,
\* neither of another call nor, as a batch, of the same one: no double click, no
\* edit of the params, no resumed or refused batch makes the user swap twice.
NoSecondDeposit ==
  [][\A c \in Calls : SendsDeposit(c) =>
       /\ \A e \in Calls \ {c} : Accounted(e)
       /\ ~MayLand(c)]_vars

\* While the user has not given a deposit up, a form that offers to swap (or to
\* start over) says the truth: no deposit of it is still in flight.
OfferIsSafe ==
  Kind \in {"ready", "failed", "settled"} =>
    \A c \in Calls : ~Running(c) => Accounted(c)

\* A deposit that follows a separate approval is never sent before it landed.
DepositAfterApproval ==
  \A c \in Calls : swapTx[c] # "none" /\ approval[c] # "none" => approval[c] = "landed"

\* The wait for a batch ends even with a wallet that never answers.
BatchWaitEnds == \A c \in Calls : pc[c] = "batchWait" ~> pc[c] # "batchWait"

-----------------------------------------------------------------------------
(* What comments of the code say and the code does not keep.                *)

\* sendApprovalBatch: whatever may have landed is reported as unconfirmed.  A wallet
\* that throws after it sent the batch yields a plain failure.
LandableIsUnconfirmed ==
  \A c \in Calls : outcome[c] = "failed" /\ root[c] = c => batch[c] \in {"none", "dead"}
=============================================================================
