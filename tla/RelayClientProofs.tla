------------------------- MODULE RelayClientProofs --------------------------
(***************************************************************************)
(* Proofs about RelayClient for every set of packets, every budget and     *)
(* every interval.  The inductive invariant is Inductive: the type         *)
(* invariant and the facts that tie the client's state to the relay's     *)
(* and to the history.                                                     *)
(***************************************************************************)
EXTENDS RelayClient, TLAPS

\* The call has no result while it runs.
NoResultYet == pc # "done" => result = None

\* What the relay lists it holds, and what the client waits for it submitted.
RelayHolds ==
  /\ \A p \in Own : status[p] # "absent" => registered
  /\ Waiting => registered

\* A recorded polling error is a real failure or a late throw, and a late throw is
\* the last thing a wait meets: its clock stands at the deadline.
Failed == fatal \/ threwLate
ErrorsAreReal ==
  /\ Failed <=> pollError # "none"
  /\ threwLate => now = timeout

\* A retry is only planned while retries are left, and the clock of the wait
\* stands still before it.
RetriesLeft ==
  /\ pc = "start" => posts = 0
  /\ pc \in {"start", "submit", "submitBackoff"} => timer = 0
  /\ pc = "submitBackoff" => posts < MaxRetry
  /\ pc = "backoff" => attempt < MaxRetry

\* What the call returned was true of the relay and of the wait.
Results ==
  /\ FoundIsExecutedOwn
  /\ result.code \in {"RELAY_TIMEOUT", "RELAY_POLLING_FAILED"} => registered
  /\ FailureClassified

Inductive == /\ TypeOK
             /\ NoResultYet
             /\ RelayHolds
             /\ ErrorsAreReal
             /\ RetriesLeft
             /\ DeadlineHeld
             /\ Results

-----------------------------------------------------------------------------
\* resolveTimeoutMs: whatever the caller passes, the budget is a natural number.
LEMMA BudgetIsNat == \A t \in Timeouts : ResolveTimeout(t) \in Nat
BY BudgetAssumption DEF ResolveTimeout

\* The initial states satisfy the inductive invariant.
LEMMA InitInductive == Init => Inductive
<1> SUFFICES ASSUME Init PROVE Inductive
  OBVIOUS
<1>1. status \in [Packets -> {"absent", "pending", "executed"}]
  BY DEF Init
<1>2. timeout \in Nat
  BY BudgetIsNat DEF Init
<1>3. result = None /\ result.code = "none"
  BY DEF Init, None
<1>4. TypeOK
  <2>1. result \in [code : Codes]
    BY <1>3 DEF None, Codes
  <2>2. posts \in 0..MaxRetry /\ attempt \in 0..MaxRetry /\ now \in Nat /\ timer \in Nat
    BY BudgetAssumption DEF Init
  <2>3. pc = "start" /\ pollError = "none" /\ registered = FALSE /\ fatal = FALSE
        /\ threwLate = FALSE
    BY DEF Init
  <2> QED
    BY <1>1, <1>2, <2>1, <2>2, <2>3 DEF TypeOK
<1>5. NoResultYet /\ ErrorsAreReal /\ RetriesLeft /\ DeadlineHeld
  BY <1>2, <1>3 DEF Init, NoResultYet, ErrorsAreReal, Failed, RetriesLeft, DeadlineHeld, Waiting
<1>6. RelayHolds
  BY <1>1 DEF Init, RelayHolds, Waiting, Packets
<1>7. Results
  BY <1>3 DEF Results, FoundIsExecutedOwn, FailureClassified
<1> QED
  BY <1>4, <1>5, <1>6, <1>7 DEF Inductive

\* The submit keeps the inductive invariant.
LEMMA SubmittingInductive == Inductive /\ Submitting => Inductive'
<1> SUFFICES ASSUME Inductive, Submitting PROVE Inductive'
  OBVIOUS
<1> USE BudgetAssumption DEF Inductive, TypeOK, Codes, NoResultYet, RelayHolds, ErrorsAreReal,
    RetriesLeft, DeadlineHeld, Results, FoundIsExecutedOwn, FailureClassified, Waiting, Failed,
    history, Return, Error, None, relay
<1>1. CASE MissingData
  BY <1>1 DEF MissingData
<1>2. CASE PostSubmit
  BY <1>2 DEF PostSubmit
<1>3. CASE SubmitRejected
  BY <1>3 DEF SubmitRejected
<1>4. CASE SubmitRefused
  BY <1>4 DEF SubmitRefused
<1>5. CASE SubmitThrows
  BY <1>5 DEF SubmitThrows
<1>6. CASE SubmitAccepted
  BY <1>6 DEF SubmitAccepted
<1> QED
  BY <1>1, <1>2, <1>3, <1>4, <1>5, <1>6 DEF Submitting

\* What an answer may list are packets of the relay, executed only if it says so.
LEMMA AnswersAreTruthful ==
  ASSUME NEW list \in Answers, NEW i \in DOMAIN list
  PROVE  /\ list[i].packet \in Packets
         /\ list[i].status = "executed" => status[list[i].packet] = "executed"
<1>1. PICK n \in 0..MaxListed : list \in [1..n -> {v \in Views : Truthful(v)}]
  BY DEF Answers
<1>2. list[i] \in Views /\ Truthful(list[i])
  BY <1>1
<1> QED
  BY <1>2 DEF Views, Truthful

\* A request that is issued in time keeps the inductive invariant.
LEMMA RequestInductive ==
  ASSUME Inductive, pc \in {"head", "backoff"}, InTime, UNCHANGED <<history, relay>>,
         NEW n \in 1..MaxRetry, Request(n)
  PROVE  Inductive'
<1>1. pc' = "fetch" /\ attempt' = n /\ timer' = Smaller(now + RequestTimeout, timeout)
      /\ UNCHANGED <<posts, timeout, now, pollError, result, fatal, threwLate,
                     registered, status>>
  BY DEF Request, relay, history
<1> USE <1>1, BudgetAssumption DEF Inductive
<1>2. TypeOK'
  BY DEF TypeOK, Smaller
<1>3. NoResultYet' /\ RelayHolds' /\ ErrorsAreReal' /\ RetriesLeft'
  BY DEF NoResultYet, RelayHolds, ErrorsAreReal, Failed, RetriesLeft, Waiting
<1>4. DeadlineHeld'
  BY DEF DeadlineHeld, Waiting, Smaller, TypeOK
<1>5. Results'
  BY DEF NoResultYet, None, Results, FoundIsExecutedOwn, FailureClassified
<1> QED
  BY <1>2, <1>3, <1>4, <1>5

\* A poll that ends without a verdict keeps the inductive invariant.
LEMMA ContinueInductive ==
  ASSUME Inductive, pc \in {"fetch", "body", "backoff"}, UNCHANGED relay,
         NEW err \in {"none", "hard", "thrown"}, Continue(err),
         fatal' \in BOOLEAN, threwLate' \in BOOLEAN,
         Failed' <=> err # "none", threwLate' => now = timeout
  PROVE  Inductive'
<1> USE BudgetAssumption DEF Inductive, Continue, InTime, Smaller, relay
<1>1. TypeOK'
  BY DEF TypeOK
<1>2. NoResultYet' /\ RelayHolds' /\ ErrorsAreReal' /\ RetriesLeft'
  BY DEF NoResultYet, RelayHolds, ErrorsAreReal, Failed, RetriesLeft, Waiting, None
<1>3. DeadlineHeld'
  BY DEF DeadlineHeld, Waiting, TypeOK
<1>4. Results'
  BY DEF NoResultYet, None, Results, FoundIsExecutedOwn, FailureClassified
<1> QED
  BY <1>1, <1>2, <1>3, <1>4

\* Nothing failed in it: a 404, an abort, or an answer without a packet.
LEMMA QuietContinue ==
  ASSUME Inductive, pc \in {"fetch", "body", "backoff"}, UNCHANGED <<history, relay>>,
         Continue(pollError)
  PROVE  Inductive'
<1>1. /\ pollError \in {"none", "hard", "thrown"}
      /\ fatal' \in BOOLEAN /\ threwLate' \in BOOLEAN
      /\ Failed' <=> pollError # "none"
      /\ threwLate' => now = timeout
  BY DEF Inductive, TypeOK, ErrorsAreReal, Failed, history
<1> QED
  BY <1>1, ContinueInductive

\* So does a poll that fails, wherever it fails.
LEMMA PollFailedInductive ==
  ASSUME Inductive, pc \in {"fetch", "body"}, UNCHANGED <<threwLate, relay>>,
         NEW kind, PollFailed(kind),
         fatal' = (fatal \/ (kind \notin {"http404", "abort"} /\ InTime))
  PROVE  Inductive'
<1>1. CASE kind \in {"http404", "abort"} \/ ~InTime
  <2>1. Continue(pollError) /\ UNCHANGED history
    BY <1>1 DEF PollFailed, Inductive, TypeOK, history
  <2> QED
    BY <2>1, QuietContinue
<1>2. CASE ~(kind \in {"http404", "abort"} \/ ~InTime)
  <2>1. fatal' = TRUE /\ pollError' = "hard" /\ pc' = "done"
        /\ result' = Error("RELAY_POLLING_FAILED")
    BY <1>2 DEF PollFailed
  <2>2. UNCHANGED <<posts, attempt, timeout, now, timer, threwLate, registered, status>>
    BY <1>2 DEF PollFailed, relay
  <2> USE <2>1, <2>2 DEF Inductive
  <2>3. TypeOK'
    BY DEF TypeOK, Error, Codes
  <2>4. NoResultYet' /\ RelayHolds' /\ ErrorsAreReal' /\ RetriesLeft' /\ DeadlineHeld'
    BY DEF NoResultYet, RelayHolds, ErrorsAreReal, Failed, RetriesLeft, DeadlineHeld, Waiting
  <2>5. Results'
    BY DEF Results, FoundIsExecutedOwn, FailureClassified, Error, RelayHolds, Waiting
  <2> QED
    BY <2>3, <2>4, <2>5
<1> QED
  BY <1>1, <1>2

\* And so does a request that is retried or given up.
LEMMA RetryInductive ==
  ASSUME Inductive, pc \in {"fetch", "body"}, UNCHANGED <<threwLate, relay>>,
         NEW kind, RetryOrFail(kind),
         fatal' = (fatal \/ (kind \notin {"http404", "abort"} /\ attempt = MaxRetry /\ InTime))
  PROVE  Inductive'
<1>1. CASE attempt < MaxRetry /\ InTime
  <2>1. pc' = "backoff" /\ timer' = Smaller(now + RetryDelay, timeout) /\ fatal' = fatal
        /\ UNCHANGED <<posts, attempt, timeout, now, pollError, result, threwLate, registered,
                       status>>
    BY <1>1, BudgetAssumption DEF RetryOrFail, relay, history, Inductive, TypeOK
  <2> USE <1>1, <2>1, BudgetAssumption DEF Inductive
  <2>2. TypeOK'
    BY DEF TypeOK, Smaller
  <2>3. NoResultYet' /\ RelayHolds' /\ ErrorsAreReal' /\ RetriesLeft'
    BY DEF NoResultYet, RelayHolds, ErrorsAreReal, Failed, RetriesLeft, Waiting
  <2>4. DeadlineHeld'
    BY DEF DeadlineHeld, Waiting, Smaller, TypeOK
  <2>5. Results'
    BY DEF NoResultYet, None, Results, FoundIsExecutedOwn, FailureClassified
  <2> QED
    BY <2>2, <2>3, <2>4, <2>5
<1>2. CASE ~(attempt < MaxRetry /\ InTime)
  <2>1. PollFailed(kind)
    BY <1>2 DEF RetryOrFail
  <2>2. fatal' = (fatal \/ (kind \notin {"http404", "abort"} /\ InTime))
    BY <1>2, BudgetAssumption DEF Inductive, TypeOK
  <2> QED
    BY <2>1, <2>2, PollFailedInductive
<1> QED
  BY <1>1, <1>2

\* Whatever the network does, and whatever the relay answers.
LEMMA NetworkInductive == Inductive /\ Network => Inductive'
<1> SUFFICES ASSUME Inductive, Network PROVE Inductive'
  OBVIOUS
<1>1. CASE FetchRejected
  <2>1. "reject" \notin {"http404", "abort"}
    OBVIOUS
  <2> QED
    BY <1>1, <2>1, RetryInductive DEF FetchRejected
<1>2. CASE Headers
  <2>1. pc = "fetch" /\ pc' = "body"
        /\ UNCHANGED <<posts, attempt, timeout, now, timer, pollError, result, fatal, threwLate,
                       registered, status>>
    BY <1>2 DEF Headers, relay, history
  <2> USE <2>1 DEF Inductive
  <2>2. TypeOK' /\ NoResultYet' /\ RelayHolds' /\ ErrorsAreReal' /\ RetriesLeft'
        /\ DeadlineHeld'
    BY DEF TypeOK, NoResultYet, RelayHolds, ErrorsAreReal, Failed, RetriesLeft, DeadlineHeld,
           Waiting
  <2>3. Results'
    BY DEF Results, FoundIsExecutedOwn, FailureClassified
  <2> QED
    BY <2>2, <2>3
<1>3. CASE BodyUnparsable
  <2>1. "parse" \notin {"http404", "abort"}
    OBVIOUS
  <2> QED
    BY <1>3, <2>1, PollFailedInductive DEF BodyUnparsable
<1>4. CASE PollThrows
  <2>1. /\ Continue("thrown") /\ pc = "body" /\ UNCHANGED relay
        /\ fatal' = (fatal \/ InTime) /\ threwLate' = (threwLate \/ ~InTime)
    BY <1>4 DEF PollThrows
  <2>2. ~InTime => now = timeout
    BY DEF InTime, Inductive, TypeOK, DeadlineHeld
  <2>3. /\ fatal' \in BOOLEAN /\ threwLate' \in BOOLEAN /\ Failed'
        /\ threwLate' => now = timeout
    BY <2>1, <2>2 DEF Failed, Inductive, TypeOK, ErrorsAreReal
  <2> QED
    BY <2>1, <2>3, ContinueInductive
<1>5. ASSUME NEW kind \in {"http404", "httpError"}, HttpError(kind) PROVE Inductive'
  <2>1. kind \notin {"http404", "abort"} <=> kind # "http404"
    OBVIOUS
  <2> QED
    BY <1>5, <2>1, PollFailedInductive DEF HttpError
<1>6. ASSUME NEW list \in Answers, Answered(list) PROVE Inductive'
  <2>1. CASE Continue(pollError)
    BY <1>6, <2>1, QuietContinue DEF Answered
  <2>2. ASSUME NEW i \in DOMAIN list, IsFirstCandidate(list, i), Landed(list[i]),
               Return(Found(list[i].packet))
        PROVE  Inductive'
    <3>1. list[i].packet \in Own /\ status[list[i].packet] = "executed"
      BY <2>2, AnswersAreTruthful DEF IsFirstCandidate, IsCandidate, Landed
    <3>2. pc' = "done" /\ result' = [code |-> "found", packet |-> list[i].packet]
          /\ UNCHANGED <<posts, attempt, timeout, now, timer, pollError, fatal, threwLate,
                         registered, status>>
      BY <1>6, <2>2 DEF Answered, Return, Found, relay, history
    <3>3. pc = "body" /\ registered
      BY <1>6 DEF Answered, Inductive, RelayHolds, Waiting
    <3> USE <3>1, <3>2, <3>3 DEF Inductive
    <3>4. TypeOK'
      BY DEF TypeOK, Packets
    <3>5. NoResultYet' /\ RelayHolds' /\ ErrorsAreReal' /\ RetriesLeft' /\ DeadlineHeld'
      BY DEF NoResultYet, RelayHolds, ErrorsAreReal, Failed, RetriesLeft, DeadlineHeld, Waiting
    <3>6. Results'
      BY DEF Results, FoundIsExecutedOwn, FailureClassified
    <3> QED
      BY <3>4, <3>5, <3>6
  <2> QED
    BY <1>6, <2>1, <2>2 DEF Answered
<1> QED
  BY <1>1, <1>2, <1>3, <1>4, <1>5, <1>6 DEF Network

\* The client's own steps and its timers.
LEMMA TimersInductive == Inductive /\ Timers => Inductive'
<1> SUFFICES ASSUME Inductive, Timers PROVE Inductive'
  OBVIOUS
<1>1. CASE pc = "head" /\ InTime /\ Request(1) /\ UNCHANGED <<history, relay>>
  BY <1>1, RequestInductive, BudgetAssumption
<1>2. CASE LoopHead /\ ~InTime
  <2>1. pc = "head" /\ now = timeout /\ pc' = "done"
        /\ result' = Error(IF pollError = "none" THEN "RELAY_TIMEOUT"
                           ELSE "RELAY_POLLING_FAILED")
        /\ UNCHANGED <<posts, attempt, timeout, now, timer, pollError, fatal, threwLate,
                       registered, status>>
    BY <1>2 DEF LoopHead, Return, relay, history, InTime, Inductive, DeadlineHeld, TypeOK
  <2> USE <2>1 DEF Inductive
  <2>2. TypeOK'
    BY DEF TypeOK, Error, Codes
  <2>3. NoResultYet' /\ RelayHolds' /\ ErrorsAreReal' /\ RetriesLeft' /\ DeadlineHeld'
    BY DEF NoResultYet, RelayHolds, ErrorsAreReal, Failed, RetriesLeft, DeadlineHeld, Waiting
  <2>4. Results'
    BY DEF Results, FoundIsExecutedOwn, FailureClassified, Error, RelayHolds, Waiting,
           ErrorsAreReal, Failed
  <2> QED
    BY <2>2, <2>3, <2>4
<1>3. CASE Aborted
  <2>1. "abort" \in {"http404", "abort"}
    OBVIOUS
  <2>2. UNCHANGED <<fatal, threwLate, relay>> /\ fatal \in BOOLEAN
    BY <1>3 DEF Aborted, Inductive, TypeOK, history
  <2> QED
    BY <1>3, <2>1, <2>2, RetryInductive DEF Aborted
<1>4. CASE BackoffOver
  <2>1. CASE InTime
    <3>1. attempt + 1 \in 1..MaxRetry
      BY <1>4, BudgetAssumption DEF BackoffOver, Inductive, RetriesLeft, TypeOK
    <3> QED
      BY <1>4, <2>1, <3>1, RequestInductive DEF BackoffOver
  <2>2. CASE ~InTime
    BY <1>4, <2>2, QuietContinue DEF BackoffOver
  <2> QED
    BY <2>1, <2>2
<1>5. CASE SleepOver \/ Tick
  <2>1. pc' \in {pc, "head"} /\ pc \in {"fetch", "body", "backoff", "sleep"}
        /\ now' \in Nat /\ now' <= timeout
        /\ (now' # now => now < timeout)
        /\ UNCHANGED <<posts, attempt, timeout, timer, pollError, result, fatal, threwLate,
                       registered, status>>
    BY <1>5 DEF SleepOver, Tick, relay, history, Inductive, TypeOK, DeadlineHeld, Waiting
  <2> USE <2>1 DEF Inductive
  <2>2. TypeOK'
    BY DEF TypeOK
  <2>3. NoResultYet' /\ RelayHolds' /\ RetriesLeft' /\ DeadlineHeld'
    BY DEF NoResultYet, RelayHolds, RetriesLeft, DeadlineHeld, Waiting
  <2>4. ErrorsAreReal'
    <3>1. threwLate => now' = timeout
      BY DEF ErrorsAreReal, TypeOK
    <3> QED
      BY <3>1 DEF ErrorsAreReal, Failed
  <2>5. Results'
    BY DEF NoResultYet, None, Results, FoundIsExecutedOwn, FailureClassified
  <2> QED
    BY <2>2, <2>3, <2>4, <2>5
<1> QED
  BY <1>1, <1>2, <1>3, <1>4, <1>5 DEF Timers, LoopHead

\* The relay's own steps.
LEMMA RelayInductive == Inductive /\ Relay => Inductive'
<1> SUFFICES ASSUME Inductive, Relay PROVE Inductive'
  OBVIOUS
<1>1. UNCHANGED <<pc, posts, attempt, timeout, now, timer, pollError, result, fatal, threwLate>>
  BY DEF Relay, RelayReceives, RelayLists, RelayExecutes, client, history
<1>2. /\ registered => registered'
      /\ registered' \in BOOLEAN
      /\ status' \in [Packets -> {"absent", "pending", "executed"}]
      /\ \A p \in Packets : status[p] = "executed" => status'[p] = "executed"
      /\ \A p \in Own : status'[p] # "absent" => registered'
  BY DEF Relay, RelayReceives, RelayLists, RelayExecutes, Inductive, TypeOK, RelayHolds, Packets
<1> USE <1>1, <1>2 DEF Inductive
<1>3. TypeOK'
  BY DEF TypeOK
<1>4. NoResultYet' /\ RelayHolds' /\ ErrorsAreReal' /\ RetriesLeft' /\ DeadlineHeld'
  BY DEF NoResultYet, RelayHolds, ErrorsAreReal, Failed, RetriesLeft, DeadlineHeld, Waiting
<1>5. Results'
  BY DEF Results, FoundIsExecutedOwn, FailureClassified, Packets
<1> QED
  BY <1>3, <1>4, <1>5

-----------------------------------------------------------------------------
\* Inductive is an invariant of the relay client: it holds initially and every
\* step of the client, the network, the clock and the relay keeps it.
THEOREM Invariance == Spec => []Inductive
<1>1. Inductive /\ [Next]_vars => Inductive'
  <2>1. Inductive /\ Next => Inductive'
    BY SubmittingInductive, NetworkInductive, TimersInductive, RelayInductive DEF Next
  <2>2. Inductive /\ UNCHANGED vars => Inductive'
    BY DEF vars, client, history, relay, Failed, Inductive, TypeOK, NoResultYet, RelayHolds,
           ErrorsAreReal, RetriesLeft, DeadlineHeld, Results, FoundIsExecutedOwn,
           FailureClassified, Waiting, None
  <2> QED
    BY <2>1, <2>2
<1> QED
  BY InitInductive, <1>1, PTL DEF Spec

\* Type correctness of relayTxAndWaitPacket, for every budget and packet set.
THEOREM TypeCorrect == Spec => []TypeOK
BY Invariance, PTL DEF Inductive

\* The packet the client hands back is an executed packet of the submitted
\* transaction, however many siblings the relay lists beside it.
THEOREM FoundIsSound == Spec => []FoundIsExecutedOwn
<1>1. Inductive => FoundIsExecutedOwn
  BY DEF Inductive, Results
<1> QED
  BY <1>1, Invariance, PTL

\* While the client waits, and after it gave up waiting, the relay holds the
\* transaction: nothing needs to be submitted again.
THEOREM WaitIsRegistered == Spec => []WaitedMeansRegistered
<1>1. Inductive => WaitedMeansRegistered
  BY DEF Inductive, Results, RelayHolds, WaitedMeansRegistered
<1> QED
  BY <1>1, Invariance, PTL

\* No timer of the wait outlives the caller's budget, for every request timeout,
\* poll interval and retry delay.
THEOREM DeadlineIsHeld == Spec => []DeadlineHeld
BY Invariance, PTL DEF Inductive

\* The two failure codes of the wait tell an outage from a spent budget.
THEOREM FailureIsClassified == Spec => []FailureClassified
<1>1. Inductive => FailureClassified
  BY DEF Inductive, Results
<1> QED
  BY <1>1, Invariance, PTL

-----------------------------------------------------------------------------
(* The call implements its promise, RelayPromise.                           *)

\* The phase of the call and the executed packets, as the promise sees them.
Phase == IF Waiting THEN "waiting" ELSE IF pc = "done" THEN "done" ELSE "submitting"
Executed == {p \in Packets : status[p] = "executed"}

\* A step between two control states of one phase, with the same result, is
\* invisible to the promise.
LEMMA QuietStep ==
  ASSUME UNCHANGED <<result, relay>>, Phase' = Phase
  PROVE  UNCHANGED Promise!vars
BY DEF Promise!vars, relay, Phase, Packets, Waiting

\* The client hands back an executed packet of its own, or a code of the wait.
LEMMA WaitReturns ==
  ASSUME Inductive, Waiting, pc' = "done", UNCHANGED relay,
         \/ \E p \in Own : status[p] = "executed" /\ result' = Found(p)
         \/ \E c \in {"RELAY_TIMEOUT", "RELAY_POLLING_FAILED"} : result' = Error(c)
  PROVE  Promise!Next
<1>1. Phase = "waiting" /\ Phase' = "done" /\ UNCHANGED <<registered, Executed>>
  BY DEF Phase, Executed, Waiting, relay, Packets
<1>2. CASE \E p \in Own : status[p] = "executed" /\ result' = Found(p)
  <2>1. Promise!Deliver
    BY <1>1, <1>2 DEF Promise!Deliver, Phase, Executed, Packets, Found, Promise!Found
  <2> QED
    BY <2>1 DEF Promise!Next
<1>3. CASE \E c \in {"RELAY_TIMEOUT", "RELAY_POLLING_FAILED"} : result' = Error(c)
  <2>1. Promise!GiveUp
    BY <1>1, <1>3
    DEF Promise!GiveUp, Promise!WaitCodes, Promise!Failed, Error, Phase, Executed
  <2> QED
    BY <2>1 DEF Promise!Next
<1> QED
  BY <1>2, <1>3

\* The submit ends the call with one of its own codes, or starts the wait once
\* the relay holds the transaction.
LEMMA SubmittingStep == Inductive /\ Submitting => [Promise!Next]_(Promise!vars)
<1> SUFFICES ASSUME Inductive, Submitting PROVE [Promise!Next]_(Promise!vars)
  OBVIOUS
<1>1. ASSUME pc \in {"start", "submit"}, UNCHANGED relay,
             NEW c \in {"SUBMIT_TX_FAILED", "RAW_ERROR"}, Return(Error(c))
      PROVE  Promise!Next
  <2>1. Phase = "submitting" /\ Phase' = "done" /\ UNCHANGED <<registered, Executed>>
    BY <1>1 DEF Phase, Executed, Waiting, relay, Packets, Return
  <2>2. Promise!SubmitFails
    BY <1>1, <2>1 DEF Promise!SubmitFails, Promise!SubmitCodes, Promise!Failed, Error, Return,
                      Phase, Executed
  <2> QED
    BY <2>2 DEF Promise!Next
<1>2. CASE MissingData \/ SubmitRefused \/ SubmitThrows
  BY <1>1, <1>2 DEF MissingData, SubmitRefused, SubmitThrows
<1>3. CASE PostSubmit
  <2>1. UNCHANGED <<result, relay>> /\ Phase' = Phase
    BY <1>3 DEF PostSubmit, Phase, Waiting
  <2> QED
    BY <2>1, QuietStep
<1>4. CASE SubmitRejected
  <2>1. CASE posts < MaxRetry
    <3>1. UNCHANGED <<result, relay>> /\ Phase' = Phase
      BY <1>4, <2>1 DEF SubmitRejected, Phase, Waiting
    <3> QED
      BY <3>1, QuietStep
  <2>2. CASE ~(posts < MaxRetry)
    BY <1>1, <1>4, <2>2 DEF SubmitRejected
  <2> QED
    BY <2>1, <2>2
<1>5. CASE SubmitAccepted
  <2>1. /\ Phase = "submitting" /\ Phase' = "waiting" /\ registered
        /\ UNCHANGED <<registered, result, Executed>>
    BY <1>5 DEF SubmitAccepted, Phase, Executed, Waiting, relay, Packets
  <2>2. Promise!Acknowledged
    BY <2>1 DEF Promise!Acknowledged, Phase, Executed
  <2> QED
    BY <2>2 DEF Promise!Next
<1> QED
  BY <1>2, <1>3, <1>4, <1>5 DEF Submitting

\* A poll without a verdict, and a failed one, as the promise sees them.
LEMMA ContinueStep ==
  ASSUME Inductive, pc \in {"fetch", "body", "backoff"}, NEW e, Continue(e), UNCHANGED relay
  PROVE  UNCHANGED Promise!vars
<1>1. UNCHANGED <<result, relay>> /\ Phase' = Phase
  BY DEF Continue, Phase, Waiting
<1> QED
  BY <1>1, QuietStep

LEMMA PollFailedStep ==
  ASSUME Inductive, pc \in {"fetch", "body"}, NEW kind, PollFailed(kind), UNCHANGED relay
  PROVE  [Promise!Next]_(Promise!vars)
<1>1. CASE kind \in {"http404", "abort"} \/ ~InTime
  BY <1>1, ContinueStep DEF PollFailed
<1>2. CASE ~(kind \in {"http404", "abort"} \/ ~InTime)
  BY <1>2, WaitReturns DEF PollFailed, Waiting
<1> QED
  BY <1>1, <1>2

LEMMA RetryStep ==
  ASSUME Inductive, pc \in {"fetch", "body"}, NEW kind, RetryOrFail(kind), UNCHANGED relay
  PROVE  [Promise!Next]_(Promise!vars)
<1>1. CASE attempt < MaxRetry /\ InTime
  <2>1. UNCHANGED <<result, relay>> /\ Phase' = Phase
    BY <1>1 DEF RetryOrFail, Phase, Waiting
  <2> QED
    BY <2>1, QuietStep
<1>2. CASE ~(attempt < MaxRetry /\ InTime)
  BY <1>2, PollFailedStep DEF RetryOrFail
<1> QED
  BY <1>1, <1>2

LEMMA NetworkStep == Inductive /\ Network => [Promise!Next]_(Promise!vars)
<1> SUFFICES ASSUME Inductive, Network PROVE [Promise!Next]_(Promise!vars)
  OBVIOUS
<1>1. CASE FetchRejected
  BY <1>1, RetryStep DEF FetchRejected
<1>2. CASE Headers
  <2>1. UNCHANGED <<result, relay>> /\ Phase' = Phase
    BY <1>2 DEF Headers, Phase, Waiting
  <2> QED
    BY <2>1, QuietStep
<1>3. CASE BodyUnparsable
  BY <1>3, PollFailedStep DEF BodyUnparsable
<1>4. CASE PollThrows
  BY <1>4, ContinueStep DEF PollThrows
<1>5. ASSUME NEW kind \in {"http404", "httpError"}, HttpError(kind)
      PROVE  [Promise!Next]_(Promise!vars)
  BY <1>5, PollFailedStep DEF HttpError
<1>6. ASSUME NEW list \in Answers, Answered(list) PROVE [Promise!Next]_(Promise!vars)
  <2>1. CASE Continue(pollError)
    BY <1>6, <2>1, ContinueStep DEF Answered
  <2>2. ASSUME NEW i \in DOMAIN list, IsFirstCandidate(list, i), Landed(list[i]),
               Return(Found(list[i].packet))
        PROVE  Promise!Next
    <3>1. list[i].packet \in Own /\ status[list[i].packet] = "executed"
      BY <2>2, AnswersAreTruthful DEF IsFirstCandidate, IsCandidate, Landed
    <3> QED
      BY <1>6, <2>2, <3>1, WaitReturns DEF Answered, Return, Waiting
  <2> QED
    BY <1>6, <2>1, <2>2 DEF Answered
<1> QED
  BY <1>1, <1>2, <1>3, <1>4, <1>5, <1>6 DEF Network

LEMMA TimersStep == Inductive /\ Timers => [Promise!Next]_(Promise!vars)
<1> SUFFICES ASSUME Inductive, Timers PROVE [Promise!Next]_(Promise!vars)
  OBVIOUS
<1>1. ASSUME NEW n, pc \in {"head", "backoff"}, Request(n), UNCHANGED relay
      PROVE  UNCHANGED Promise!vars
  <2>1. UNCHANGED <<result, relay>> /\ Phase' = Phase
    BY <1>1 DEF Request, Phase, Waiting
  <2> QED
    BY <2>1, QuietStep
<1>2. CASE LoopHead
  <2>1. CASE InTime
    BY <1>1, <1>2, <2>1 DEF LoopHead
  <2>2. CASE ~InTime
    BY <1>2, <2>2, WaitReturns DEF LoopHead, Return, Waiting
  <2> QED
    BY <2>1, <2>2
<1>3. CASE Aborted
  BY <1>3, RetryStep DEF Aborted
<1>4. CASE BackoffOver
  BY <1>1, <1>4, ContinueStep DEF BackoffOver
<1>5. CASE SleepOver \/ Tick
  <2>1. UNCHANGED <<result, relay>> /\ Phase' = Phase
    BY <1>5 DEF SleepOver, Tick, Phase, Waiting
  <2> QED
    BY <2>1, QuietStep
<1> QED
  BY <1>2, <1>3, <1>4, <1>5 DEF Timers

LEMMA RelayStep == Inductive /\ Relay => [Promise!Next]_(Promise!vars)
<1> SUFFICES ASSUME Inductive, Relay PROVE [Promise!Next]_(Promise!vars)
  OBVIOUS
<1>1. CASE RelayReceives
  <2>1. Promise!Register
    BY <1>1 DEF RelayReceives, client, Promise!Register, Waiting, Packets
  <2> QED
    BY <2>1 DEF Promise!Next
<1>2. ASSUME NEW p \in Packets, RelayLists(p) PROVE UNCHANGED Promise!vars
  <2>1. UNCHANGED <<pc, result, registered>>
    BY <1>2 DEF RelayLists, client
  <2>2. \A q \in Packets : status'[q] = "executed" <=> status[q] = "executed"
    BY <1>2 DEF RelayLists, Inductive, TypeOK
  <2> QED
    BY <2>1, <2>2 DEF Promise!vars, Waiting, Packets
<1>3. ASSUME NEW p \in Packets, RelayExecutes(p) PROVE Promise!Next
  <2>1. UNCHANGED <<pc, result, registered>> /\ (p \in Own => registered)
    BY <1>3 DEF RelayExecutes, client, Inductive, RelayHolds
  <2>2. \A q \in Packets : status'[q] = "executed" <=> status[q] = "executed" \/ q = p
    BY <1>3 DEF RelayExecutes, Inductive, TypeOK
  <2>3. Executed' = Executed \cup {p} /\ UNCHANGED Phase
    BY <2>1, <2>2 DEF Executed, Phase, Waiting, Packets
  <2>4. Promise!Execute
    BY <2>1, <2>3 DEF Promise!Execute, Promise!Packets, Packets, Executed, Phase
  <2> QED
    BY <2>4 DEF Promise!Next
<1> QED
  BY <1>1, <1>2, <1>3 DEF Relay

\* relayTxAndWaitPacket keeps its promise to the features that call it: however it
\* posts, polls, retries and sleeps, all they can see is a step of RelayPromise.
THEOREM KeepsPromise == Spec => ImplementsPromise
<1>1. Init => Promise!Init
  BY DEF Init, Promise!Init, Promise!Pending, None, Waiting, Packets
<1>2. Inductive /\ [Next]_vars => [Promise!Next]_(Promise!vars)
  <2>1. Inductive /\ Next => [Promise!Next]_(Promise!vars)
    BY SubmittingStep, NetworkStep, TimersStep, RelayStep DEF Next
  <2>2. UNCHANGED vars => UNCHANGED Promise!vars
    BY DEF vars, client, relay, Promise!vars, Waiting, Packets
  <2> QED
    BY <2>1, <2>2
<1> QED
  BY <1>1, <1>2, Invariance, PTL DEF Spec, ImplementsPromise, Promise!Spec

-----------------------------------------------------------------------------
(* The safety half of WaitEnds: the wait runs down, and it never runs dry.  *)

Timed == {"fetch", "body", "backoff", "sleep"}
TimerAhead == pc \in Timed => now <= timer

\* What the wait may still do: its budget, and its place in the loop.  A sleep
\* that is over is worth more than one that goes on, for the clock has paid for it.
Rank ==
  CASE pc = "head" -> IF InTime THEN 4 ELSE 1
    [] pc = "fetch" -> 3
    [] pc = "body" -> 2
    [] pc \in {"backoff", "sleep"} -> IF now = timer THEN 5 ELSE 1
    [] OTHER -> 0
Work == 6 * (timeout - now) + Rank
RunsDown == Waiting /\ client' # client => Work' \in Nat /\ Work' < Work

LEMMA RankIsNat ==
  ASSUME Inductive
  PROVE  /\ Rank \in 0..5
         /\ Waiting => Rank \in 1..5
         /\ timeout \in Nat /\ now \in Nat /\ now <= timeout
BY DEF Inductive, TypeOK, DeadlineHeld, Rank, Waiting, Timed

\* Time stands still and the control moves to a state of lower rank.
LEMMA Descends ==
  ASSUME Inductive, Waiting, UNCHANGED <<timeout, now>>, NEW r \in Nat, Rank' = r, r < Rank
  PROVE  RunsDown
<1>1. Work' = 6 * (timeout - now) + r
  BY DEF Work
<1> QED
  BY <1>1, RankIsNat DEF Work, RunsDown

\* A timer that is armed now is armed for later, unless it is the deadline's.
LEMMA ArmedLater ==
  ASSUME Inductive, InTime, NEW d \in Nat \ {0}
  PROVE  now < Smaller(now + d, timeout)
BY RankIsNat DEF Smaller, InTime

LEMMA ContinueRunsDown ==
  ASSUME Inductive, pc \in {"fetch", "body"} \/ (pc = "backoff" /\ now = timer), NEW e, Continue(e)
  PROVE  RunsDown /\ TimerAhead'
<1>1. Waiting /\ Rank \in {2, 3, 5} /\ UNCHANGED <<timeout, now>>
  BY DEF Waiting, Rank, Continue
<1>2. CASE InTime
  <2>1. pc' = "sleep" /\ now' < timer'
    BY <1>2, ArmedLater, BudgetAssumption DEF Continue
  <2>2. Rank' = 1 /\ TimerAhead'
    BY <1>1, <2>1, RankIsNat, BudgetAssumption
    DEF Rank, TimerAhead, Continue, Smaller, Inductive, TypeOK
  <2> QED
    BY <1>1, <2>2, Descends
<1>3. CASE ~InTime
  <2>1. pc' = "head" /\ ~InTime'
    BY <1>1, <1>3 DEF Continue, InTime
  <2>2. Rank' = 1 /\ TimerAhead'
    BY <2>1 DEF Rank, TimerAhead, Timed
  <2> QED
    BY <1>1, <2>2, Descends
<1> QED
  BY <1>2, <1>3

\* The wait is over, or a request goes out.
LEMMA DoneRunsDown ==
  ASSUME Inductive, Waiting, pc' = "done", UNCHANGED <<timeout, now>>
  PROVE  RunsDown /\ TimerAhead'
<1>1. Rank' = 0 /\ TimerAhead'
  BY DEF Rank, TimerAhead, Timed
<1> QED
  BY <1>1, RankIsNat, Descends

LEMMA RequestRunsDown ==
  ASSUME Inductive, InTime, pc = "head" \/ (pc = "backoff" /\ now = timer), NEW n, Request(n)
  PROVE  RunsDown /\ TimerAhead'
<1>1. Waiting /\ Rank \in {4, 5} /\ UNCHANGED <<timeout, now>> /\ pc' = "fetch"
  BY DEF Waiting, Rank, Request
<1>2. Rank' = 3
  BY <1>1 DEF Rank
<1>3. TimerAhead'
  BY <1>1, ArmedLater, RankIsNat, BudgetAssumption DEF TimerAhead, Request, Smaller
<1> QED
  BY <1>1, <1>2, <1>3, Descends

LEMMA PollFailedRunsDown ==
  ASSUME Inductive, pc \in {"fetch", "body"}, NEW kind, PollFailed(kind)
  PROVE  RunsDown /\ TimerAhead'
<1>1. CASE kind \in {"http404", "abort"} \/ ~InTime
  BY <1>1, ContinueRunsDown DEF PollFailed
<1>2. CASE ~(kind \in {"http404", "abort"} \/ ~InTime)
  BY <1>2, DoneRunsDown DEF PollFailed, Waiting
<1> QED
  BY <1>1, <1>2

LEMMA RetryRunsDown ==
  ASSUME Inductive, pc \in {"fetch", "body"}, NEW kind, RetryOrFail(kind)
  PROVE  RunsDown /\ TimerAhead'
<1>1. CASE attempt < MaxRetry /\ InTime
  <2>1. pc' = "backoff" /\ UNCHANGED <<timeout, now>> /\ now' < timer'
    BY <1>1, ArmedLater, BudgetAssumption DEF RetryOrFail
  <2>2. Rank' = 1 /\ Rank \in {2, 3}
    BY <1>1, <2>1, RankIsNat, BudgetAssumption
    DEF Rank, RetryOrFail, Smaller
  <2>3. TimerAhead'
    BY <1>1, <2>1, RankIsNat, BudgetAssumption DEF TimerAhead, RetryOrFail, Smaller
  <2> QED
    BY <2>1, <2>2, <2>3, Descends DEF Waiting
<1>2. CASE ~(attempt < MaxRetry /\ InTime)
  BY <1>2, PollFailedRunsDown DEF RetryOrFail
<1> QED
  BY <1>1, <1>2

LEMMA NetworkRunsDown == Inductive /\ TimerAhead /\ Network => RunsDown /\ TimerAhead'
<1> SUFFICES ASSUME Inductive, TimerAhead, Network PROVE RunsDown /\ TimerAhead'
  OBVIOUS
<1>1. CASE FetchRejected
  BY <1>1, RetryRunsDown DEF FetchRejected
<1>2. CASE BodyUnparsable
  BY <1>2, PollFailedRunsDown DEF BodyUnparsable
<1>3. CASE PollThrows
  BY <1>3, ContinueRunsDown DEF PollThrows
<1>4. CASE \E kind \in {"http404", "httpError"} : HttpError(kind)
  BY <1>4, PollFailedRunsDown DEF HttpError
<1>5. CASE \E list \in Answers : Answered(list)
  BY <1>5, ContinueRunsDown, DoneRunsDown DEF Answered, Return, Waiting
<1>6. CASE Headers
  <2>1. pc = "fetch" /\ pc' = "body" /\ UNCHANGED <<timeout, now, timer>>
    BY <1>6 DEF Headers
  <2>2. Rank = 3 /\ Rank' = 2 /\ TimerAhead'
    BY <2>1 DEF Rank, TimerAhead, Timed
  <2> QED
    BY <2>1, <2>2, Descends DEF Waiting
<1> QED
  BY <1>1, <1>2, <1>3, <1>4, <1>5, <1>6 DEF Network

\* The clock costs more than a sleep that is over gives back.
LEMMA TickRunsDown ==
  ASSUME Inductive, TimerAhead, Tick
  PROVE  RunsDown /\ TimerAhead'
<1>1. /\ now' = now + 1 /\ now < timer /\ timer <= timeout
      /\ UNCHANGED <<pc, timeout, timer>>
  BY DEF Tick, Inductive, DeadlineHeld, Waiting
<1>2. /\ now \in Nat /\ timer \in Nat /\ timeout \in Nat
      /\ Rank \in 1..5
  BY <1>1, RankIsNat DEF Inductive, TypeOK, Tick, Waiting
<1>3. Rank' \in 0..5 /\ TimerAhead'
  BY <1>1, <1>2 DEF Rank, TimerAhead
<1>4. PICK r \in 0..5 : Rank' = r
  BY <1>3
<1>5. Work' = 6 * (timeout - (now + 1)) + r
  BY <1>1, <1>4 DEF Work
<1>6. Work' \in Nat /\ Work' < Work
  BY <1>1, <1>2, <1>5 DEF Work
<1> QED
  BY <1>3, <1>6 DEF RunsDown

\* The loop condition, the abort timer, the end of a back-off and of a sleep.
LEMMA TimersRunDown == Inductive /\ TimerAhead /\ Timers => RunsDown /\ TimerAhead'
<1> SUFFICES ASSUME Inductive, TimerAhead, Timers PROVE RunsDown /\ TimerAhead'
  OBVIOUS
<1>1. CASE LoopHead
  BY <1>1, RequestRunsDown, DoneRunsDown DEF LoopHead, Return, Waiting
<1>2. CASE Aborted
  BY <1>2, RetryRunsDown DEF Aborted
<1>3. CASE BackoffOver
  BY <1>3, RequestRunsDown, ContinueRunsDown DEF BackoffOver
<1>4. CASE SleepOver
  <2>1. pc = "sleep" /\ now = timer /\ pc' = "head" /\ UNCHANGED <<timeout, now, timer>>
    BY <1>4 DEF SleepOver
  <2>2. Rank = 5 /\ Rank' \in {1, 4} /\ TimerAhead'
    BY <2>1 DEF Rank, TimerAhead, Timed
  <2> QED
    BY <2>1, <2>2, Descends DEF Waiting
<1> QED
  BY <1>1, <1>2, <1>3, <1>4, TickRunsDown DEF Timers

\* The submit has no clock, and what the relay does takes nothing from the wait.
LEMMA OthersKeepTimer ==
  ASSUME Inductive, TimerAhead, Submitting \/ Relay \/ UNCHANGED vars
  PROVE  RunsDown /\ TimerAhead'
<1>1. CASE Submitting
  BY <1>1 DEF Submitting, MissingData, PostSubmit, SubmitRejected, SubmitRefused, SubmitThrows,
              SubmitAccepted, Return, RunsDown, Waiting, TimerAhead, Timed
<1>2. CASE Relay \/ UNCHANGED vars
  <2>1. UNCHANGED client
    BY <1>2 DEF Relay, RelayReceives, RelayLists, RelayExecutes, vars
  <2> QED
    BY <2>1 DEF RunsDown, client, TimerAhead
<1> QED
  BY <1>1, <1>2

\* Every step of a waiting client uses up some of what is left of the wait, which is
\* finite: at most six steps to a unit of its budget, whatever the network and the
\* relay do.  No schedule of answers, failures, retries and sleeps keeps
\* waitUntilIntentExecuted polling for ever.
THEOREM WaitRunsDown == Spec => [][RunsDown]_vars
<1>1. Inductive /\ TimerAhead /\ [Next]_vars => RunsDown /\ TimerAhead'
  BY NetworkRunsDown, TimersRunDown, OthersKeepTimer DEF Next
<1>2. Init => TimerAhead
  BY DEF Init, TimerAhead, Timed
<1> QED
  BY <1>1, <1>2, Invariance, PTL DEF Spec

\* While the client waits, its loop is about to run or a timer is on that will fire:
\* a wait never depends on the network to go on.
THEOREM TimerIsAhead == Spec => [](Waiting => pc = "head" \/ now <= timer)
<1>1. Inductive /\ TimerAhead /\ [Next]_vars => TimerAhead'
  BY NetworkRunsDown, TimersRunDown, OthersKeepTimer DEF Next
<1>2. Init => TimerAhead
  BY DEF Init, TimerAhead, Timed
<1>3. TimerAhead => (Waiting => pc = "head" \/ now <= timer)
  BY DEF TimerAhead, Timed, Waiting
<1> QED
  BY <1>1, <1>2, <1>3, Invariance, PTL DEF Spec
=============================================================================
