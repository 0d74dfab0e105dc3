--------------------------- MODULE SwapFormProofs ---------------------------
(***************************************************************************)
(* What SwapForm promises, for every number of calls and of intents.  A    *)
(* wallet may send something and then lose its answer.  What that costs is *)
(* stated exactly: only a deposit whose answer was lost escapes the form,  *)
(* so that with a wallet whose answers arrive none does.                   *)
(***************************************************************************)
EXTENDS SwapForm, TLAPS

\* Where a call is that has not sent its deposit or its batch yet.
Sending == {"strategy", "preflight", "build", "approve", "confirm", "deposit",
            "batchPrompt"}
Places == Sending \union {"batchWait", "complete"}

\* The acting ref is a lock: one call runs at a time.
OneRuns == \A c, e \in Calls : Running(c) => acting /\ (Running(e) => c = e)

\* What a call has sent, where it is; a resuming call waits for a batch of another.
Ordered(c) ==
  /\ pc[c] \in Sending \union {"unused"} =>
       root[c] = c /\ batch[c] = "none" /\ swapTx[c] = "none"
  /\ pc[c] \notin {"confirm", "done"} => approval[c] \in {"none", "landed"}
  /\ pc[c] \in {"strategy", "unused", "preflight", "build", "approve", "batchPrompt"}
       => approval[c] = "none"
  /\ batch[c] # "none" => swapTx[c] = "none"
  /\ swapTx[c] # "none" => approval[c] \in {"none", "landed"} /\ pc[c] \in {"complete", "done"}
  /\ pc[c] = "batchWait" \/ outcome[c] = "unconfirmed" => batch[root[c]] # "none"
  /\ pc[c] # "done" <=> outcome[c] = "running"

InOrder == \A c \in Calls : Ordered(c)

\* A call the form does not observe is one the user gave up.
UnobservedIsDropped == \A c \in Calls : Running(c) => observed = c \/ root[c] \in dropped

\* The deposit of a call that failed for the form because the wallet's answer to it
\* was lost.  Only such a one may land without the form's knowing.
Lost(c) == LosesAnswers /\ outcome[c] = "failed" /\ root[c] = c
Explained(c) == Accounted(c) \/ Lost(c)

\* What the form owes its user whatever the wallet does: an offer hides no deposit, and
\* no deposit follows another, but for those whose answers were lost.
OfferUpToLoss ==
  Kind \in {"ready", "failed", "settled"} =>
    \A c \in Calls : ~Running(c) => Explained(c)

DepositUpToLoss ==
  [][\A c \in Calls : SendsDeposit(c) =>
       /\ \A e \in Calls \ {c} : Explained(e)
       /\ ~MayLand(c)]_vars

\* A deposit that needs attention is the one the form observes.
Tracks(c) == /\ observed # 0 /\ root[observed] = c
             /\ outcome[observed] \in {"running", "unconfirmed", "afterBroadcast"}
Tracked == \A c \in Calls : Explained(c) \/ Tracks(c)

\* While a call may send its deposit, every other deposit is explained.
OthersExplained == \A c, e \in Calls : pc[c] \in Sending /\ e # c => Explained(e)

\* What was rendered, however old, offers nothing that the observed call forbids.
ViewIsSafe ==
  /\ view.kind \in {"ready", "settled", "failed"} /\ observed # 0 =>
       outcome[observed] \in {"running", "failed", "success"} \/ verdict[root[observed]] # "open"
  /\ view.kind = "unconfirmed" =>
       /\ view.call # 0 /\ outcome[view.call] = "unconfirmed"
       /\ observed # 0 => root[observed] = root[view.call]
  /\ observed # 0 => pc[observed] # "unused"

IInv == TypeOK /\ OneRuns /\ InOrder /\ UnobservedIsDropped /\ Tracked
        /\ OthersExplained /\ ViewIsSafe

-----------------------------------------------------------------------------
LEMMA Bounds == MaxCalls \in Nat /\ 0 \notin Calls /\ 1 \in Calls
                /\ (\A n \in 0..MaxCalls : n # 0 => n \in Calls)
BY FormAssumption DEF Calls

LEMMA InitInvariant == Init => IInv
<1> SUFFICES ASSUME Init PROVE IInv OBVIOUS
<1>1. TypeOK
  <2>1. view \in [kind : Kinds, params : Intents, call : 0..MaxCalls]
    BY FormAssumption DEF Init, Kinds
  <2>2. observed \in 0..MaxCalls BY FormAssumption DEF Init
  <2>3. acting \in BOOLEAN /\ params \in Intents /\ dropped \subseteq Calls BY DEF Init
  <2>4. intent \in [Calls -> Intents] /\ root \in [Calls -> Calls] BY DEF Init
  <2> QED BY <2>1, <2>2, <2>3, <2>4 DEF Init, TypeOK, Sent
<1>2. OneRuns /\ UnobservedIsDropped BY DEF Init, OneRuns, UnobservedIsDropped, Running
<1>3. InOrder BY DEF Init, InOrder, Ordered, Sending
<1>4. Tracked /\ OthersExplained
  BY DEF Init, Tracked, OthersExplained, Accounted, Explained, Lost, MayLand, Sending
<1>5. ViewIsSafe BY DEF Init, ViewIsSafe
<1> QED BY <1>1, <1>2, <1>3, <1>4, <1>5 DEF IInv

-----------------------------------------------------------------------------
(* What the form shows.                                                     *)

LEMMA Shown ==
  ASSUME IInv
  PROVE /\ Kind \in Kinds
        /\ Kind = "submitting" <=> observed # 0 /\ outcome[observed] = "running"
        /\ Kind = "unconfirmed" <=> observed # 0 /\ outcome[observed] = "unconfirmed"
        /\ Kind \in {"ready", "settled", "failed"} /\ observed # 0 =>
             \/ outcome[observed] \in {"failed", "success"}
             \/ outcome[observed] = "afterBroadcast" /\ verdict[root[observed]] # "open"
<1>1. CASE observed = 0 BY <1>1 DEF Kind, Phase, Kinds
<1>2. CASE observed # 0
  <2>1. /\ outcome[observed] \in {"running", "failed", "unconfirmed", "afterBroadcast", "success"}
        /\ verdict[root[observed]] \in {"open", "solved", "failed"}
    BY <1>2, Bounds DEF IInv, TypeOK
  <2>2. CASE outcome[observed] = "running"
    BY <1>2, <2>2 DEF Kind, Phase, Kinds
  <2>3. CASE outcome[observed] \in {"unconfirmed", "afterBroadcast"}
    BY <1>2, <2>1, <2>3 DEF Kind, Phase, Kinds, MayStillLand, Progress
  <2>4. CASE outcome[observed] \in {"failed", "success"}
    BY <1>2, <2>1, <2>4 DEF Kind, Phase, Kinds, MayStillLand, Progress
  <2> QED BY <2>1, <2>2, <2>3, <2>4
<1> QED BY <1>1, <1>2

LEMMA RenderInvariant == ASSUME IInv, Render PROVE IInv'
<1>1. /\ view' = [kind |-> Kind, params |-> params, call |-> observed]
      /\ UNCHANGED <<params, observed, acting, calls, chain, dropped>>
  BY DEF Render, Current
<1>2. view'.kind = Kind /\ view'.call = observed BY <1>1
<1>3. TypeOK' BY <1>1, Shown DEF IInv, TypeOK, calls, chain
<1>4. OneRuns' /\ InOrder' /\ UnobservedIsDropped'
  BY <1>1 DEF IInv, OneRuns, InOrder, Ordered, UnobservedIsDropped, Running, calls, chain
<1>5. Tracked' /\ OthersExplained'
  BY <1>1
  DEF IInv, Tracked, Tracks, OthersExplained, Accounted, Explained, Lost, MayLand, calls, chain
<1>6. ViewIsSafe' BY <1>1, <1>2, Shown DEF IInv, ViewIsSafe, calls, chain
<1> QED BY <1>3, <1>4, <1>5, <1>6 DEF IInv

LEMMA EditInvariant == ASSUME IInv, NEW p \in Intents, Edit(p) PROVE IInv'
<1>1. params' = p /\ UNCHANGED <<observed, acting, view, calls, chain, dropped>> BY DEF Edit
<1>2. TypeOK' BY <1>1 DEF IInv, TypeOK, calls, chain
<1>3. OneRuns' /\ InOrder' /\ UnobservedIsDropped'
  BY <1>1 DEF IInv, OneRuns, InOrder, Ordered, UnobservedIsDropped, Running, calls, chain
<1>4. Tracked' /\ OthersExplained' /\ ViewIsSafe'
  BY <1>1
  DEF IInv, Tracked, Tracks, OthersExplained, Accounted, Explained, Lost, MayLand, ViewIsSafe,
      calls, chain
<1> QED BY <1>2, <1>3, <1>4 DEF IInv

-----------------------------------------------------------------------------
(* next() and reset().                                                      *)

\* When next() may act on a form that offers to, every deposit is explained.
LEMMA AllExplained ==
  ASSUME IInv, ~acting, view.kind \in {"ready", "settled", "failed"}, NEW e \in Calls
  PROVE Explained(e)
<1>1. SUFFICES ASSUME ~Explained(e) PROVE FALSE OBVIOUS
<1>2. /\ observed # 0 /\ root[observed] = e
      /\ outcome[observed] \in {"running", "unconfirmed", "afterBroadcast"}
  BY <1>1 DEF IInv, Tracked, Tracks
<1>3. observed \in Calls BY <1>2, Bounds DEF IInv, TypeOK
<1>4. ~Running(observed) /\ pc[observed] # "unused"
  BY <1>2, <1>3 DEF IInv, OneRuns, ViewIsSafe
<1>5. outcome[observed] # "running" BY <1>3, <1>4 DEF Running, IInv, InOrder, Ordered
<1>6. verdict[e] # "open" BY <1>2, <1>5 DEF IInv, ViewIsSafe
<1> QED BY <1>1, <1>6 DEF Accounted, Explained, Lost

\* A new call is for the new intent, or waits for the batch that was not confirmed.
LEMMA StartInvariant ==
  ASSUME IInv, ~acting, NEW c \in Calls, NEW at \in {"strategy", "batchWait"},
         NEW p \in Intents, NEW r \in Calls, Start(c, at, p, r),
         at = "strategy" => r = c /\ view.kind = "ready",
         at = "batchWait" => view.kind = "unconfirmed" /\ r = root[view.call]
  PROVE IInv'
<1>1. /\ pc[c] = "unused" /\ pc' = [pc EXCEPT ![c] = at]
      /\ intent' = [intent EXCEPT ![c] = p] /\ root' = [root EXCEPT ![c] = r]
      /\ observed' = c /\ acting' = TRUE
      /\ UNCHANGED <<params, view, outcome, approval, batch, swapTx, verdict, dropped>>
  BY DEF Start, chain
<1>2. /\ pc \in [Calls -> Places \union {"unused", "done"}]
      /\ root \in [Calls -> Calls] /\ view.call \in 0..MaxCalls
  BY DEF IInv, TypeOK, Places, Sending
<1>3. /\ pc'[c] = at /\ root'[c] = r
      /\ \A e \in Calls \ {c} : pc'[e] = pc[e] /\ root'[e] = root[e]
  BY <1>1, <1>2
<1>4. outcome[c] = "running" /\ batch[c] = "none" /\ swapTx[c] = "none" /\ approval[c] = "none"
  BY <1>1 DEF IInv, InOrder, Ordered
<1>5. at = "batchWait" => /\ view.call \in Calls /\ view.call # c /\ r # c
                          /\ batch[r] # "none"
                          /\ observed # 0 => root[observed] = r
  BY <1>2, <1>4, Bounds DEF IInv, ViewIsSafe, InOrder, Ordered
<1>6. \A e \in Calls : Explained(e) => Explained(e)'
  BY <1>1, <1>3, <1>4 DEF Accounted, Explained, Lost, MayLand
<1>7. \A e \in Calls : ~Running(e) BY DEF IInv, OneRuns
<1>8. TypeOK' BY <1>1, <1>2 DEF IInv, TypeOK, Calls
<1>9. OneRuns' /\ UnobservedIsDropped'
  BY <1>1, <1>3, <1>7 DEF OneRuns, UnobservedIsDropped, Running
<1>10. InOrder'
  <2>1. Ordered(c)'
    BY <1>1, <1>3, <1>4, <1>5 DEF Ordered, Sending
  <2>2. ASSUME NEW e \in Calls, e # c PROVE Ordered(e)'
    <3>1. Ordered(e) BY DEF IInv, InOrder
    <3> QED BY <1>1, <1>3, <2>2, <3>1 DEF Ordered
  <2> QED BY <2>1, <2>2 DEF InOrder
<1>11. Tracked'
  <2> SUFFICES ASSUME NEW e \in Calls, ~Explained(e) PROVE Tracks(e)'
    BY <1>6 DEF Tracked
  <2>1. at = "batchWait" BY AllExplained
  <2>2. observed # 0 /\ root[observed] = e BY DEF IInv, Tracked, Tracks
  <2> QED BY <2>1, <2>2, <1>1, <1>3, <1>4, <1>5, Bounds DEF Tracks
<1>12. OthersExplained'
  <2> SUFFICES ASSUME NEW d \in Calls, NEW e \in Calls, pc'[d] \in Sending, e # d
               PROVE Explained(e)'
    BY DEF OthersExplained
  <2>1. d = c BY <1>3, <1>7 DEF Running, Sending
  <2>2. at = "strategy" BY <2>1, <1>3 DEF Sending
  <2> QED BY <2>2, <1>6, AllExplained
<1>13. ViewIsSafe'
  BY <1>1, <1>3, <1>4, <1>5, Bounds DEF IInv, ViewIsSafe
<1> QED BY <1>8, <1>9, <1>10, <1>11, <1>12, <1>13 DEF IInv

LEMMA NextCallInvariant == ASSUME IInv, NEW c \in Calls, NextSwaps(c) \/ NextResumes(c) PROVE IInv'
<1>1. view.params \in Intents BY DEF IInv, TypeOK
<1>2. CASE NextSwaps(c) BY <1>1, <1>2, StartInvariant DEF NextSwaps, NotActing
<1>3. CASE NextResumes(c)
  <2>1. view.call \in Calls BY <1>3, Bounds DEF NextResumes, IInv, ViewIsSafe, TypeOK
  <2>2. intent[view.call] \in Intents /\ root[view.call] \in Calls BY <2>1 DEF IInv, TypeOK
  <2> QED BY <1>3, <2>2, StartInvariant DEF NextResumes, NotActing
<1> QED BY <1>2, <1>3

\* The form lets go of its call: of one that is accounted for, or that is given up.
LEMMA DetachInvariant == ASSUME IInv, NextStartsOver \/ Reset PROVE IInv'
<1>1. /\ observed' = 0
      /\ UNCHANGED <<params, acting, view, pc, intent, root, outcome, approval, batch,
                     swapTx, verdict>>
  BY DEF NextStartsOver, Reset, Detach, calls, chain
<1>2. /\ dropped' \subseteq Calls /\ dropped \subseteq dropped'
      /\ \A e \in Calls : Explained(e)'
      /\ \A e \in Calls : Running(e) => root[e] \in dropped'
  <2>1. CASE NextStartsOver
    <3>1. ~acting /\ view.kind \in {"settled", "failed"} /\ dropped' = dropped
      BY <2>1 DEF NextStartsOver, NotActing
    <3> QED BY <1>1, <3>1, AllExplained
            DEF IInv, TypeOK, OneRuns, Accounted, Explained, Lost, MayLand
  <2>2. CASE Reset
    <3>1. observed \in Calls /\ dropped' = dropped \union {root[observed]}
      BY <2>2, Bounds DEF Reset, IInv, TypeOK
    <3>2. root[observed] \in Calls BY <3>1 DEF IInv, TypeOK
    <3>3. \A e \in Calls : Explained(e)'
      BY <1>1, <3>1 DEF IInv, Tracked, Tracks, Accounted, Explained, Lost, MayLand
    <3> QED BY <3>1, <3>2, <3>3 DEF IInv, TypeOK, UnobservedIsDropped
  <2> QED BY <2>1, <2>2
<1>3. TypeOK' BY <1>1, <1>2, Bounds DEF IInv, TypeOK
<1>4. OneRuns' /\ UnobservedIsDropped'
  BY <1>1, <1>2 DEF IInv, OneRuns, UnobservedIsDropped, Running
<1>5. InOrder' BY <1>1 DEF IInv, InOrder, Ordered
<1>6. Tracked' /\ OthersExplained' BY <1>2 DEF Tracked, OthersExplained
<1>7. ViewIsSafe' BY <1>1 DEF IInv, ViewIsSafe
<1> QED BY <1>3, <1>4, <1>5, <1>6, <1>7 DEF IInv

-----------------------------------------------------------------------------
(* One call.                                                                *)

ChainTypes == /\ approval \in [Calls -> Sent] /\ batch \in [Calls -> Sent]
              /\ swapTx \in [Calls -> Sent] /\ verdict \in [Calls -> {"open", "solved", "failed"}]

\* A call goes on; only one that had not sent its deposit may change the chain.
LEMMA GoInvariant ==
  ASSUME IInv, NEW c \in Calls, pc[c] \in Places, NEW to \in Places, Go(c, to),
         to \in Sending => pc[c] \in Sending,
         pc[c] \in Sending \/ UNCHANGED chain,
         ChainTypes', verdict' = verdict,
         \A e \in Calls \ {c} : /\ approval'[e] = approval[e] /\ batch'[e] = batch[e]
                                /\ swapTx'[e] = swapTx[e],
         Ordered(c)', batch[c] # "none" => batch'[c] # "none"
  PROVE IInv'
<1>1. /\ pc' = [pc EXCEPT ![c] = to]
      /\ UNCHANGED <<intent, root, outcome, params, observed, acting, view, dropped>>
  BY DEF Go, form
<1>2. /\ pc \in [Calls -> Places \union {"unused", "done"}] /\ root \in [Calls -> Calls]
  BY DEF IInv, TypeOK, Places, Sending
<1>3. pc'[c] = to /\ \A e \in Calls \ {c} : pc'[e] = pc[e] BY <1>1, <1>2
<1>4. Running(c) /\ \A e \in Calls \ {c} : ~Running(e)
  BY DEF IInv, OneRuns, Running, Places, Sending
<1>5. \A e \in Calls \ {c} : Explained(e) => Explained(e)'
  BY <1>1 DEF Accounted, Explained, Lost, MayLand
<1>6. TypeOK' BY <1>1, <1>2 DEF IInv, TypeOK, ChainTypes, Places, Sending
<1>7. OneRuns' /\ UnobservedIsDropped'
  BY <1>1, <1>3, <1>4 DEF IInv, OneRuns, UnobservedIsDropped, Running
<1>8. InOrder'
  <2> SUFFICES ASSUME NEW e \in Calls, e # c PROVE Ordered(e)' BY DEF InOrder
  <2>1. Ordered(e) /\ root[e] \in Calls BY <1>2 DEF IInv, InOrder
  <2>2. batch[root[e]] # "none" => batch'[root[e]] # "none" BY <2>1
  <2> QED BY <1>1, <1>3, <2>1, <2>2 DEF Ordered
<1>9. Explained(c)' \/ Tracks(c)'
  <2>1. CASE pc[c] \in Sending
    <3>1. root[c] = c /\ outcome[c] = "running" /\ c # 0
      BY <2>1, Bounds DEF IInv, InOrder, Ordered, Sending
    <3>2. observed = c \/ c \in dropped BY <3>1, <1>4 DEF IInv, UnobservedIsDropped
    <3> QED BY <1>1, <3>1, <3>2 DEF Accounted, Explained, Lost, Tracks
  <2>2. CASE UNCHANGED chain
    BY <1>1, <2>2 DEF IInv, Tracked, Tracks, Accounted, Explained, Lost, MayLand, chain
  <2> QED BY <2>1, <2>2
<1>10. Tracked'
  BY <1>1, <1>5, <1>9 DEF IInv, Tracked, Tracks
<1>11. OthersExplained'
  <2> SUFFICES ASSUME NEW d \in Calls, NEW e \in Calls, pc'[d] \in Sending, e # d
               PROVE Explained(e)'
    BY DEF OthersExplained
  <2>1. d = c BY <1>3, <1>4 DEF Running, Sending
  <2> QED BY <2>1, <1>3, <1>5 DEF IInv, OthersExplained
<1>12. ViewIsSafe'
  BY <1>1, <1>3, Bounds DEF IInv, ViewIsSafe, Places, Sending, TypeOK
<1> QED BY <1>6, <1>7, <1>8, <1>10, <1>11, <1>12 DEF IInv

\* A call returns: a plain failure only of a deposit that cannot land any more, or of
\* one whose answer was lost.
LEMMA EndInvariant ==
  ASSUME IInv, NEW c \in Calls, pc[c] \in Places, Rendered,
         NEW o \in {"failed", "unconfirmed", "afterBroadcast", "success"}, End(c, o),
         ChainTypes', Ordered(c)', UNCHANGED <<approval, verdict>>,
         \A e \in Calls \ {c} : batch'[e] = batch[e] /\ swapTx'[e] = swapTx[e],
         \/ /\ UNCHANGED chain
            /\ o = "failed" => ~MayLand(root[c])
            /\ o = "unconfirmed" => batch[root[c]] # "none"
         \/ LosesAnswers /\ o = "failed" /\ root[c] = c /\ batch[c] = "none"
  PROVE IInv'
<1>1. /\ pc' = [pc EXCEPT ![c] = "done"] /\ outcome' = [outcome EXCEPT ![c] = o]
      /\ acting' = FALSE
      /\ UNCHANGED <<params, observed, view, intent, root, dropped, approval, verdict>>
  BY DEF End
<1>2. /\ pc \in [Calls -> Places \union {"unused", "done"}] /\ root \in [Calls -> Calls]
      /\ outcome \in [Calls -> {"running", "failed", "unconfirmed", "afterBroadcast", "success"}]
      /\ observed \in 0..MaxCalls /\ view.call \in 0..MaxCalls
  BY DEF IInv, TypeOK, Places, Sending
<1>3. /\ pc'[c] = "done" /\ outcome'[c] = o
      /\ \A e \in Calls \ {c} : pc'[e] = pc[e] /\ outcome'[e] = outcome[e]
  BY <1>1, <1>2
<1>4. Running(c) /\ outcome[c] = "running" /\ \A e \in Calls \ {c} : ~Running(e)
  BY DEF IInv, OneRuns, Running, Places, Sending, InOrder, Ordered
<1>5. \A e \in Calls : Explained(e) => Explained(e)'
  <2> SUFFICES ASSUME NEW e \in Calls, Explained(e) PROVE Explained(e)' OBVIOUS
  <2>1. Lost(e) => Lost(e)' BY <1>1, <1>3, <1>4 DEF Lost
  <2>2. CASE batch'[e] = batch[e] /\ swapTx'[e] = swapTx[e]
    BY <1>1, <1>3, <1>4, <2>1, <2>2 DEF Accounted, Explained, MayLand
  <2>3. CASE e = c /\ ~UNCHANGED chain
    BY <1>1, <1>3, <2>3 DEF Explained, Lost
  <2> QED BY <2>2, <2>3 DEF chain
<1>6. TypeOK' BY <1>1, <1>2 DEF IInv, TypeOK, ChainTypes
<1>7. OneRuns' /\ UnobservedIsDropped'
  BY <1>1, <1>3, <1>4 DEF OneRuns, UnobservedIsDropped, Running
<1>8. InOrder'
  <2> SUFFICES ASSUME NEW e \in Calls, e # c PROVE Ordered(e)' BY DEF InOrder
  <2>1. Ordered(e) /\ root[e] \in Calls BY <1>2 DEF IInv, InOrder
  <2>2. batch[root[e]] # "none" => batch'[root[e]] # "none" BY <2>1 DEF chain
  <2> QED BY <1>1, <1>3, <2>1, <2>2 DEF Ordered
<1>9. Tracked'
  <2> SUFFICES ASSUME NEW e \in Calls, ~Explained(e)' PROVE Tracks(e)'
    BY DEF Tracked
  <2>1. Tracks(e) BY <1>5 DEF IInv, Tracked
  <2>2. observed \in Calls BY <2>1, <1>2, Bounds DEF Tracks
  <2>3. CASE observed # c BY <1>1, <1>3, <2>1, <2>2, <2>3 DEF Tracks
  <2>4. CASE observed = c
    <3>1. root[c] = e BY <2>1, <2>4 DEF Tracks
    <3>2. o # "failed"
      BY <1>1, <1>3, <3>1 DEF Accounted, Explained, Lost, MayLand, chain
    <3>3. o # "success" BY <1>1, <1>3, <3>1 DEF Accounted, Explained
    <3> QED BY <1>1, <1>3, <2>1, <2>4, <3>2, <3>3 DEF Tracks
  <2> QED BY <2>3, <2>4
<1>10. OthersExplained'
  <2> SUFFICES ASSUME NEW d \in Calls, pc'[d] \in Sending PROVE FALSE
    BY DEF OthersExplained
  <2> QED BY <1>3, <1>4 DEF Running, Sending
<1>11. ViewIsSafe'
  <2>1. observed = c => view.kind = "submitting"
    BY <1>4, Bounds, Shown DEF Rendered, Current
  <2>2. observed # 0 => observed \in Calls BY <1>2, Bounds
  <2>3. view.kind = "unconfirmed" => view.call \in Calls /\ view.call # c
    BY <1>2, <1>4, Bounds DEF IInv, ViewIsSafe
  <2> QED BY <1>1, <1>3, <2>1, <2>2, <2>3 DEF IInv, ViewIsSafe
<1> QED BY <1>6, <1>7, <1>8, <1>9, <1>10, <1>11 DEF IInv

-----------------------------------------------------------------------------
(* The steps of swapWithApproval.                                           *)

\* What is known of a call at a step.
LEMMA Here ==
  ASSUME IInv, NEW c \in Calls
  PROVE /\ Ordered(c) /\ ChainTypes
        /\ pc \in [Calls -> Places \union {"unused", "done"}] /\ root[c] \in Calls
        /\ pc[c] \in Sending => ~MayLand(root[c])
BY DEF IInv, InOrder, Ordered, TypeOK, ChainTypes, Places, Sending, MayLand, Sent

LEMMA QuietGo ==
  ASSUME IInv, NEW c \in Calls, pc[c] \in Places, NEW to \in Places, Go(c, to),
         UNCHANGED chain, to \in Sending => pc[c] \in Sending,
         Ordered(c)'
  PROVE IInv'
BY Here, GoInvariant DEF chain, ChainTypes

\* Steps that leave the chain as it is.
LEMMA QuietInvariant ==
  ASSUME IInv, NEW c \in Calls,
         PickStrategy(c) \/ Built(c) \/ ApproveConfirmed(c) \/ BatchRefused(c)
         \/ BatchConfirmed(c)
  PROVE IInv'
<1>1. PICK to \in Places :
        /\ Go(c, to) /\ UNCHANGED chain /\ pc[c] \in Places
        /\ to \in Sending => pc[c] \in Sending
        /\ to \in {"preflight", "build", "approve", "batchPrompt"} => approval[c] = "none"
        /\ to = "deposit" => approval[c] \in {"none", "landed"}
        /\ to \in Sending \union {"complete"}
        /\ to = "complete" => pc[c] = "batchWait" /\ approval[c] \in {"none", "landed"}
        /\ to # "confirm" /\ to # "strategy"
  <2> USE Here DEF At, Places, Sending, Ordered
  <2>1. CASE PickStrategy(c) BY <2>1 DEF PickStrategy
  <2>2. CASE Built(c) BY <2>2 DEF Built
  <2>3. CASE ApproveConfirmed(c) BY <2>3 DEF ApproveConfirmed
  <2>4. CASE BatchRefused(c) BY <2>4 DEF BatchRefused
  <2>5. CASE BatchConfirmed(c) BY <2>5 DEF BatchConfirmed
  <2> QED BY <2>1, <2>2, <2>3, <2>4, <2>5
<1>2. /\ pc'[c] = to /\ UNCHANGED <<root, outcome, approval, batch, swapTx>>
  BY <1>1, Here DEF Go, chain
<1>3. Ordered(c)' BY <1>1, <1>2, Here DEF Ordered, Sending, Places
<1> QED BY <1>1, <1>3, QuietGo

\* Steps that send something.
LEMMA SendInvariant ==
  ASSUME IInv, NEW c \in Calls, ApproveSent(c) \/ DepositSent(c) \/ BatchSent(c)
  PROVE IInv'
<1> USE Here DEF At, Places, Sending
<1>1. CASE ApproveSent(c)
  <2>1. /\ pc[c] = "approve" /\ Go(c, "confirm") /\ approval' = [approval EXCEPT ![c] = "sent"]
        /\ UNCHANGED <<batch, swapTx, verdict>>
    BY <1>1 DEF ApproveSent
  <2>2. pc'[c] = "confirm" /\ root' = root /\ outcome' = outcome BY <2>1 DEF Go
  <2>3. Ordered(c)' BY <2>1, <2>2 DEF Ordered
  <2>4. ChainTypes' BY <2>1 DEF ChainTypes, Sent
  <2> QED BY <2>1, <2>3, <2>4, GoInvariant DEF ChainTypes
<1>2. CASE DepositSent(c)
  <2>1. /\ pc[c] = "deposit" /\ Go(c, "complete") /\ swapTx' = [swapTx EXCEPT ![c] = "sent"]
        /\ UNCHANGED <<approval, batch, verdict>>
    BY <1>2 DEF DepositSent
  <2>2. pc'[c] = "complete" /\ root' = root /\ outcome' = outcome BY <2>1 DEF Go
  <2>3. Ordered(c)' BY <2>1, <2>2 DEF Ordered
  <2>4. ChainTypes' BY <2>1 DEF ChainTypes, Sent
  <2> QED BY <2>1, <2>3, <2>4, GoInvariant DEF ChainTypes
<1>3. CASE BatchSent(c)
  <2>1. /\ pc[c] = "batchPrompt" /\ Go(c, "batchWait") /\ batch' = [batch EXCEPT ![c] = "sent"]
        /\ UNCHANGED <<approval, swapTx, verdict>>
    BY <1>3 DEF BatchSent
  <2>2. /\ pc'[c] = "batchWait" /\ root' = root /\ outcome' = outcome
        /\ batch'[c] = "sent"
    BY <2>1 DEF Go, ChainTypes
  <2>3. Ordered(c)' BY <2>1, <2>2 DEF Ordered
  <2>4. ChainTypes' BY <2>1 DEF ChainTypes, Sent
  <2> QED BY <2>1, <2>2, <2>3, <2>4, GoInvariant DEF ChainTypes
<1> QED BY <1>1, <1>2, <1>3

LEMMA QuietEnd ==
  ASSUME IInv, NEW c \in Calls, pc[c] \in Places, Rendered,
         NEW o \in {"failed", "unconfirmed", "afterBroadcast", "success"}, End(c, o),
         UNCHANGED chain,
         o = "failed" => ~MayLand(root[c]),
         o = "unconfirmed" => batch[root[c]] # "none"
  PROVE IInv'
<1>1. /\ pc'[c] = "done" /\ outcome'[c] = o /\ root' = root
      /\ UNCHANGED <<approval, batch, swapTx, verdict>>
  BY DEF End, IInv, TypeOK, chain
<1>2. Ordered(c)' BY <1>1, Here DEF Ordered, Sending
<1>3. ChainTypes' BY <1>1, Here DEF ChainTypes
<1> QED BY <1>1, <1>2, <1>3, EndInvariant

\* Steps that end the call.
LEMMA EndsInvariant ==
  ASSUME IInv, NEW c \in Calls,
         FailsEarly(c) \/ ApproveFails(c) \/ DepositFails(c) \/ BatchThrows(c)
         \/ BatchFailed(c) \/ BatchUnclear(c) \/ Completes(c)
  PROVE IInv'
<1> USE Here DEF At, Places, Sending
<1>1. CASE FailsEarly(c) \/ ApproveFails(c)
  <2>1. Rendered /\ pc[c] \in Sending /\ End(c, "failed") /\ UNCHANGED chain
    BY <1>1 DEF FailsEarly, ApproveFails
  <2> QED BY <2>1, QuietEnd
<1>2. CASE DepositFails(c) \/ BatchThrows(c)
  <2>1. /\ Rendered /\ pc[c] \in {"deposit", "batchPrompt"} /\ End(c, "failed")
        /\ UNCHANGED <<approval, verdict>>
        /\ \/ UNCHANGED chain
           \/ /\ LosesAnswers
              /\ \/ /\ pc[c] = "deposit" /\ swapTx' = [swapTx EXCEPT ![c] = "sent"]
                    /\ UNCHANGED batch
                 \/ /\ pc[c] = "batchPrompt" /\ batch' = [batch EXCEPT ![c] = "sent"]
                    /\ UNCHANGED swapTx
    BY <1>2 DEF DepositFails, BatchThrows, chain
  <2>2. CASE UNCHANGED chain BY <2>1, <2>2, QuietEnd
  <2>3. CASE ~UNCHANGED chain
    <3>1. /\ LosesAnswers /\ root[c] = c /\ batch[c] = "none" /\ swapTx[c] = "none"
          /\ approval[c] \in {"none", "landed"}
          /\ pc[c] = "batchPrompt" => approval[c] = "none"
      BY <2>1, <2>3 DEF Ordered
    <3>2. ChainTypes' BY <2>1, <2>3 DEF ChainTypes, Sent
    <3>3. /\ pc'[c] = "done" /\ outcome'[c] = "failed" /\ root' = root
      BY <2>1 DEF End, IInv, TypeOK
    <3>4. Ordered(c)'
      BY <2>1, <2>3, <3>1, <3>3 DEF Ordered
    <3>5. \A e \in Calls \ {c} : batch'[e] = batch[e] /\ swapTx'[e] = swapTx[e]
      BY <2>1, <2>3 DEF ChainTypes
    <3> QED BY <2>1, <3>1, <3>2, <3>4, <3>5, EndInvariant
  <2> QED BY <2>2, <2>3
<1>3. CASE BatchFailed(c)
  <2>1. /\ Rendered /\ pc[c] = "batchWait" /\ batch[root[c]] = "dead"
        /\ End(c, "failed") /\ UNCHANGED chain
    BY <1>3 DEF BatchFailed
  <2>2. swapTx[root[c]] = "none" BY <2>1 DEF IInv, InOrder, Ordered
  <2>3. ~MayLand(root[c]) BY <2>1, <2>2 DEF MayLand
  <2> QED BY <2>1, <2>3, QuietEnd
<1>4. CASE BatchUnclear(c)
  <2>1. /\ Rendered /\ pc[c] = "batchWait" /\ End(c, "unconfirmed") /\ UNCHANGED chain
    BY <1>4 DEF BatchUnclear
  <2>2. batch[root[c]] # "none" BY <2>1 DEF Ordered
  <2> QED BY <2>1, <2>2, QuietEnd
<1>5. CASE Completes(c)
  <2>1. /\ Rendered /\ pc[c] = "complete" /\ UNCHANGED chain
        /\ End(c, "success") \/ End(c, "afterBroadcast")
    BY <1>5 DEF Completes
  <2> QED BY <2>1, QuietEnd
<1> QED BY <1>1, <1>2, <1>3, <1>4, <1>5

-----------------------------------------------------------------------------
\* The chain settles what was sent, and the status of a deposit concludes.
LEMMA ChainInvariant == ASSUME IInv, NEW c \in Calls, Mine(c) \/ Conclude(c) PROVE IInv'
<1>1. UNCHANGED <<params, observed, acting, view, pc, intent, root, outcome, dropped>>
  BY DEF Mine, Conclude, form, calls
<1> DEFINE settles == \A e \in Calls :
             /\ batch[e] = "none" <=> batch'[e] = "none"
             /\ swapTx[e] = "none" <=> swapTx'[e] = "none"
             /\ batch'[e] # batch[e] => batch[e] = "sent"
             /\ swapTx'[e] # swapTx[e] => swapTx[e] = "sent"
             /\ approval'[e] = approval[e] \/ pc[e] = "confirm"
             /\ verdict[e] # "open" => verdict'[e] = verdict[e]
<1>2. ChainTypes' /\ settles
  <2>1. ChainTypes BY DEF IInv, TypeOK, ChainTypes
  <2>2. CASE Conclude(c) BY <2>1, <2>2 DEF Conclude, ChainTypes
  <2>3. CASE Settle(approval, c) /\ pc[c] = "confirm" /\ UNCHANGED <<batch, swapTx, verdict>>
    BY <2>1, <2>3 DEF Settle, ChainTypes, Sent
  <2>4. CASE Settle(batch, c) /\ UNCHANGED <<approval, swapTx, verdict>>
    BY <2>1, <2>4 DEF Settle, ChainTypes, Sent
  <2>5. CASE Settle(swapTx, c) /\ UNCHANGED <<approval, batch, verdict>>
    BY <2>1, <2>5 DEF Settle, ChainTypes, Sent
  <2> QED BY <2>2, <2>3, <2>4, <2>5 DEF Mine
<1>3. \A e \in Calls : Explained(e) => Explained(e)'
  BY <1>1, <1>2 DEF Accounted, Explained, Lost, MayLand
<1>4. TypeOK' BY <1>1, <1>2 DEF IInv, TypeOK, ChainTypes
<1>5. OneRuns' /\ UnobservedIsDropped'
  BY <1>1 DEF IInv, OneRuns, UnobservedIsDropped, Running
<1>6. InOrder'
  <2> SUFFICES ASSUME NEW e \in Calls PROVE Ordered(e)' BY DEF InOrder
  <2> QED BY <1>1, <1>2, Here DEF Ordered, Sending
<1>7. Tracked' /\ OthersExplained'
  BY <1>1, <1>3 DEF IInv, Tracked, Tracks, OthersExplained
<1>8. ViewIsSafe'
  <2>1. observed # 0 => root[observed] \in Calls BY Bounds DEF IInv, TypeOK
  <2> QED BY <1>1, <1>2, <2>1 DEF IInv, ViewIsSafe
<1> QED BY <1>4, <1>5, <1>6, <1>7, <1>8 DEF IInv

LEMMA NextInvariant == IInv /\ [Next]_vars => IInv'
<1> SUFFICES ASSUME IInv, [Next]_vars PROVE IInv' OBVIOUS
<1>1. CASE User
  BY <1>1, EditInvariant, NextCallInvariant, DetachInvariant DEF User
<1>2. CASE Timers BY <1>2, RenderInvariant, EndsInvariant DEF Timers, BatchTimesOut
<1>3. CASE Environment BY <1>3, ChainInvariant DEF Environment
<1>4. ASSUME NEW c \in Calls, CallStep(c) PROVE IInv'
  BY <1>4, QuietInvariant, SendInvariant, EndsInvariant DEF CallStep
<1>5. CASE UNCHANGED vars
  <2> USE <1>5 DEF vars, form, calls, chain, IInv
  <2>1. TypeOK' BY DEF TypeOK
  <2>2. OneRuns' /\ InOrder' /\ UnobservedIsDropped'
    BY DEF OneRuns, InOrder, Ordered, UnobservedIsDropped, Running
  <2>3. Tracked' /\ OthersExplained' /\ ViewIsSafe'
    BY DEF Tracked, Tracks, OthersExplained, Accounted, Explained, Lost, MayLand, ViewIsSafe
  <2> QED BY <2>1, <2>2, <2>3
<1> QED BY <1>1, <1>2, <1>3, <1>4, <1>5 DEF Next

-----------------------------------------------------------------------------
\* The inductive invariant holds of every form, also of one whose wallet loses answers.
THEOREM Invariance == Spec => []IInv
BY InitInvariant, NextInvariant, PTL DEF Spec

\* The state of the form and of its calls keeps its types.
THEOREM TypeCorrect == Spec => []TypeOK
<1>1. IInv => TypeOK BY DEF IInv
<1> QED BY <1>1, Invariance, PTL

\* A deposit that follows a separate approval goes out after the approval landed.
THEOREM ApprovalIsFirst == Spec => []DepositAfterApproval
<1>1. IInv => DepositAfterApproval BY DEF IInv, InOrder, Ordered, DepositAfterApproval
<1> QED BY <1>1, Invariance, PTL

\* With any wallet, a form that offers to swap or to start over has no deposit in flight
\* but one whose answer was lost.
THEOREM OfferHidesOnlyLost == Spec => []OfferUpToLoss
<1>1. IInv => OfferUpToLoss
  <2> SUFFICES ASSUME IInv, Kind \in {"ready", "failed", "settled"}, NEW c \in Calls,
                      ~Explained(c)
               PROVE FALSE
    BY DEF OfferUpToLoss
  <2>1. /\ observed # 0 /\ root[observed] = c /\ verdict[c] = "open"
        /\ outcome[observed] \in {"running", "unconfirmed", "afterBroadcast"}
    BY DEF IInv, Tracked, Tracks, Accounted, Explained
  <2> QED BY <2>1, Shown
<1> QED BY <1>1, Invariance, PTL

\* With any wallet, no step of the user, of a call or of the chain sends a deposit while
\* another one may land, but one whose answer was lost.
THEOREM OnlyLostIsRepeated == Spec => DepositUpToLoss
<1>1. ASSUME IInv, [Next]_vars, NEW c \in Calls, SendsDeposit(c)
      PROVE (\A e \in Calls \ {c} : Explained(e)) /\ ~MayLand(c)
  <2>1. pc[c] \in Sending
    <3>1. batch' # batch \/ swapTx' # swapTx BY <1>1 DEF SendsDeposit
    <3>2. PICK d \in Calls : \/ Mine(d) \/ DepositSent(d) \/ BatchSent(d)
                              \/ DepositFails(d) \/ BatchThrows(d)
      BY <1>1, <3>1
      DEF Next, User, Timers, Environment, CallStep, vars, chain, Edit, NextSwaps,
          NextResumes, Start, NextStartsOver, Reset, Detach, Render, BatchTimesOut,
          BatchUnclear, Conclude, PickStrategy, FailsEarly, Built, ApproveSent,
          ApproveConfirmed, ApproveFails, BatchRefused, BatchConfirmed, BatchFailed,
          Completes
    <3>3. ChainTypes BY <1>1, Here
    <3>4. CASE Mine(d)
      BY <1>1, <3>3, <3>4 DEF Mine, Settle, SendsDeposit, ChainTypes
    <3>5. CASE DepositSent(d) \/ DepositFails(d)
      BY <1>1, <3>3, <3>5 DEF DepositSent, DepositFails, At, SendsDeposit, ChainTypes, Sending
    <3>6. CASE BatchSent(d) \/ BatchThrows(d)
      BY <1>1, <3>3, <3>6 DEF BatchSent, BatchThrows, At, SendsDeposit, ChainTypes, Sending
    <3> QED BY <3>2, <3>4, <3>5, <3>6
  <2> QED BY <1>1, <2>1, Here DEF IInv, OthersExplained, InOrder, Ordered, MayLand
<1>2. IInv /\ [Next]_vars
        => [\A c \in Calls : SendsDeposit(c) =>
              /\ \A e \in Calls \ {c} : Explained(e)
              /\ ~MayLand(c)]_vars
  BY <1>1
<1> QED BY <1>2, Invariance, PTL DEF Spec, DepositUpToLoss

\* With a wallet whose answers arrive, nothing is lost, and an offer is safe.
THEOREM OfferIsCorrect == ~LosesAnswers => (Spec => []OfferIsSafe)
<1> SUFFICES ASSUME ~LosesAnswers PROVE Spec => []OfferIsSafe OBVIOUS
<1>1. OfferUpToLoss => OfferIsSafe BY DEF OfferUpToLoss, OfferIsSafe, Explained, Lost
<1> QED BY <1>1, OfferHidesOnlyLost, PTL

\* With such a wallet the form does not make the user swap twice.
THEOREM DepositIsOnce == ~LosesAnswers => (Spec => NoSecondDeposit)
<1> SUFFICES ASSUME ~LosesAnswers PROVE Spec => NoSecondDeposit OBVIOUS
<1>1. [\A c \in Calls : SendsDeposit(c) =>
         /\ \A e \in Calls \ {c} : Explained(e)
         /\ ~MayLand(c)]_vars
      => [\A c \in Calls : SendsDeposit(c) =>
            /\ \A e \in Calls \ {c} : Accounted(e)
            /\ ~MayLand(c)]_vars
  BY DEF Explained, Lost
<1> QED BY <1>1, OnlyLostIsRepeated, PTL DEF DepositUpToLoss, NoSecondDeposit

-----------------------------------------------------------------------------
(* What a failure says of the deposit, when no answer is lost.              *)

\* A call that failed sent nothing, or waited for a batch that is dead.
FailedIsDead ==
  \A c \in Calls : outcome[c] = "failed" =>
    \/ root[c] = c /\ batch[c] = "none" /\ swapTx[c] = "none"
    \/ batch[root[c]] = "dead"

\* A failure tells the truth: the deposit the call stands for cannot land.
FailureIsTrue == \A c \in Calls : outcome[c] = "failed" => ~MayLand(root[c])

\* What a step does to what was sent, to whom a call waits for, and to how it ended.
Moves(c) ==
  /\ batch'[c] # batch[c] =>
       batch[c] = "sent" \/ (batch[c] = "none" /\ pc[c] = "batchPrompt")
  /\ swapTx'[c] # swapTx[c] => swapTx[c] = "sent" \/ pc[c] = "deposit"
  /\ root'[c] # root[c] => pc[c] = "unused"
  /\ outcome'[c] = "failed" /\ outcome[c] # "failed" =>
       /\ UNCHANGED <<root, batch, swapTx>>
       /\ \/ pc[c] \in Sending
          \/ pc[c] = "batchWait" /\ batch[root[c]] = "dead"

LEMMA StepMoves ==
  ASSUME ~LosesAnswers, IInv, [Next]_vars, NEW c \in Calls PROVE Moves(c)
<1>0. TypeOK /\ Ordered(c) BY Here DEF IInv
<1> USE <1>0 DEF TypeOK
<1>1. CASE Render \/ NextStartsOver \/ Reset \/ UNCHANGED vars
  BY <1>1 DEF Render, NextStartsOver, Reset, Detach, Moves, vars, calls, chain
<1>2. ASSUME NEW p \in Intents, Edit(p) PROVE Moves(c)
  BY <1>2 DEF Edit, Moves, calls, chain
<1>3. ASSUME NEW d \in Calls, NextSwaps(d) \/ NextResumes(d) PROVE Moves(c)
  BY <1>3 DEF NextSwaps, NextResumes, Start, Moves, chain
<1>4. ASSUME NEW d \in Calls, Mine(d) \/ Conclude(d) PROVE Moves(c)
  BY <1>4 DEF Mine, Settle, Conclude, Moves, calls, Sent
<1>5. ASSUME NEW d \in Calls,
             PickStrategy(d) \/ Built(d) \/ ApproveSent(d) \/ ApproveConfirmed(d)
             \/ BatchRefused(d) \/ BatchConfirmed(d)
      PROVE Moves(c)
  BY <1>5 DEF PickStrategy, Built, ApproveSent, ApproveConfirmed, BatchRefused,
              BatchConfirmed, Go, Moves, chain
<1>6. ASSUME NEW d \in Calls, DepositSent(d) \/ BatchSent(d) PROVE Moves(c)
  BY <1>6 DEF DepositSent, BatchSent, At, Go, Ordered, Sending, Moves
<1>7. ASSUME NEW d \in Calls,
             FailsEarly(d) \/ ApproveFails(d) \/ DepositFails(d) \/ BatchThrows(d)
             \/ BatchFailed(d)
      PROVE Moves(c)
  <2>1. /\ End(d, "failed") /\ UNCHANGED <<batch, swapTx>>
        /\ \/ pc[d] \in Sending
           \/ pc[d] = "batchWait" /\ batch[root[d]] = "dead"
    BY <1>7 DEF FailsEarly, ApproveFails, DepositFails, BatchThrows, BatchFailed, At, Sending,
                chain
  <2> QED BY <2>1 DEF End, Moves
<1>8. ASSUME NEW d \in Calls, BatchUnclear(d) \/ Completes(d) PROVE Moves(c)
  BY <1>8 DEF BatchUnclear, Completes, End, Moves, chain
<1> QED BY <1>1, <1>2, <1>3, <1>4, <1>5, <1>6, <1>7, <1>8
        DEF Next, User, Timers, Environment, CallStep, BatchTimesOut

\* With a wallet whose answers arrive, a failure is the truth for good: nothing of the
\* call may land, now or later.  The comment of sendApprovalBatch that the run with
\* lost answers refutes (LandableIsUnconfirmed) holds exactly then.
THEOREM FailureIsFinal ==
  ~LosesAnswers => (Spec => []FailureIsTrue /\ []LandableIsUnconfirmed)
<1> SUFFICES ASSUME ~LosesAnswers
             PROVE Spec => []FailureIsTrue /\ []LandableIsUnconfirmed
  OBVIOUS
<1>1. Init => FailedIsDead BY DEF Init, FailedIsDead
<1>2. ASSUME IInv, FailedIsDead, [Next]_vars PROVE FailedIsDead'
  <2> SUFFICES ASSUME NEW c \in Calls, outcome'[c] = "failed"
               PROVE \/ root'[c] = c /\ batch'[c] = "none" /\ swapTx'[c] = "none"
                     \/ batch'[root'[c]] = "dead"
    BY DEF FailedIsDead
  <2>1. Moves(c) /\ Moves(root[c]) BY <1>2, Here, StepMoves
  <2>2. CASE outcome[c] = "failed"
    <3>1. pc[c] = "done" BY <1>2, <2>2, Here DEF Ordered
    <3> QED BY <1>2, <2>1, <2>2, <3>1 DEF Moves, FailedIsDead
  <2>3. CASE outcome[c] # "failed"
    BY <1>2, <2>1, <2>3, Here DEF Moves, Ordered
  <2> QED BY <2>2, <2>3
<1>3. IInv /\ FailedIsDead => FailureIsTrue
  <2> SUFFICES ASSUME IInv, FailedIsDead, NEW c \in Calls, outcome[c] = "failed"
               PROVE ~MayLand(root[c])
    BY DEF FailureIsTrue
  <2>1. root[c] \in Calls /\ Ordered(root[c]) BY Here
  <2> QED BY <2>1 DEF FailedIsDead, Ordered, MayLand
<1>4. IInv /\ FailureIsTrue => LandableIsUnconfirmed
  BY DEF IInv, TypeOK, Sent, FailureIsTrue, MayLand, LandableIsUnconfirmed
<1> QED BY <1>1, <1>2, <1>3, <1>4, Invariance, PTL DEF Spec
=============================================================================
