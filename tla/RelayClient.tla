---------------------------- MODULE RelayClient -----------------------------
(***************************************************************************)
(* The SDK's client of the intent relay: relayTxAndWaitPacket posts a      *)
(* source transaction to the relay and waits, polling, until a packet of   *)
(* it is executed on the hub.  The network and the relay are the           *)
(* environment: a request may be lost before or after it took effect, hang *)
(* with or without headers, and be answered late, malformed or with an     *)
(* HTTP error.                                                             *)
(*                                                                         *)
(* Time is `now`, counted from the start of the wait (the submit is        *)
(* unbounded and has no clock).  Timers fire when they are due: Tick stops *)
(* at `timer`.                                                             *)
(***************************************************************************)
EXTENDS Integers

CONSTANTS
  Own,             \* packets whose src_tx_hash and src_chain_id match the call
  Foreign,         \* other packets the relay may list in the same answer
  Timeouts,        \* values a caller passes as `timeout`
  Unusable,        \* a `timeout` that is absent, NaN or infinite
  DefaultTimeout,  \* DEFAULT_RELAY_TX_TIMEOUT
  RequestTimeout,  \* RELAY_REQUEST_TIMEOUT_MS
  PollInterval,    \* the sleep between polls
  RetryDelay,      \* DEFAULT_RETRY_DELAY_MS
  MaxRetry,        \* DEFAULT_MAX_RETRY
  MaxListed        \* bound: entries in one answer of the relay

ASSUME PacketsAssumption == Own \cap Foreign = {}
ASSUME BudgetAssumption ==
  /\ Timeouts \subseteq Int \cup {Unusable}
  /\ DefaultTimeout \in Nat
  /\ {RequestTimeout, PollInterval, RetryDelay, MaxRetry} \subseteq Nat \ {0}
  /\ MaxListed \in Nat

VARIABLES
  pc,          \* control state of the call
  posts,       \* submit POSTs issued
  attempt,     \* requests issued in the current poll
  timeout,     \* resolved budget of the wait, hence its deadline
  now,         \* time since the wait began
  timer,       \* due time of the armed timer (abort, back-off or sleep)
  pollError,   \* lastPollingError: "none", "hard" or "thrown"
  result,      \* what the call returned
  registered,  \* the relay holds the transaction
  status,      \* relay status of each packet
  fatal,       \* history: a poll really failed before the deadline
  threwLate    \* history: a poll threw at or after the deadline

history == <<fatal, threwLate>>
client == <<pc, posts, attempt, timeout, now, timer, pollError, result, history>>
relay == <<registered, status>>
vars == <<client, relay>>

Packets == Own \cup Foreign
None == [code |-> "none"]
Error(c) == [code |-> c]
Found(p) == [code |-> "found", packet |-> p]

Smaller(a, b) == IF a < b THEN a ELSE b

\* Slip: a negative timeout is taken as it is.
ResolveUnclamped(t) == IF t = Unusable THEN DefaultTimeout ELSE t

\* resolveTimeoutMs: an unusable value becomes the default, a negative one 0.
ResolveTimeout(t) == IF t = Unusable THEN DefaultTimeout
                     ELSE IF t < 0 THEN 0 ELSE t

InTime == now < timeout

Init ==
  /\ pc = "start"
  /\ posts = 0 /\ attempt = 0 /\ now = 0 /\ timer = 0
  /\ \E t \in Timeouts : timeout = ResolveTimeout(t)
  /\ pollError = "none" /\ result = None /\ fatal = FALSE /\ threwLate = FALSE
  /\ registered = FALSE
  /\ status = [p \in Packets |-> "absent"]

-----------------------------------------------------------------------------
(* The submit: relayTxAndWaitPacket, submitTransaction, postRequest, retry. *)

Return(r) == /\ pc' = "done" /\ result' = r
             /\ UNCHANGED <<posts, attempt, timeout, now, timer, pollError>>

\* A split-transaction source (Solana, Bitcoin) without its relay data throws
\* before anything is sent.
MissingData ==
  /\ pc = "start"
  /\ Return(Error("RAW_ERROR"))
  /\ UNCHANGED <<history, relay>>

PostSubmit ==
  /\ \/ pc = "start"
     \/ pc = "submitBackoff"
  /\ pc' = "submit" /\ posts' = posts + 1
  /\ UNCHANGED <<attempt, timeout, now, timer, pollError, result, history,
                 relay>>

\* fetch rejects: retried until MaxRetry posts were made.  The relay may or may
\* not have received the request.
SubmitRejected ==
  /\ pc = "submit"
  /\ IF posts < MaxRetry
     THEN /\ pc' = "submitBackoff"
          /\ UNCHANGED <<posts, attempt, timeout, now, timer, pollError, result>>
     ELSE Return(Error("SUBMIT_TX_FAILED"))
  /\ UNCHANGED <<history, relay>>

\* An HTTP error, an unparsable body or `success: false`.  None is retried.
SubmitRefused ==
  /\ pc = "submit"
  /\ Return(Error("SUBMIT_TX_FAILED"))
  /\ UNCHANGED <<history, relay>>

\* A JSON body that is `null`: reading `.success` throws, and the outer catch
\* returns the TypeError itself.
SubmitThrows ==
  /\ pc = "submit"
  /\ Return(Error("RAW_ERROR"))
  /\ UNCHANGED <<history, relay>>

\* Slip: any parsed answer counts as an acknowledgement.
SubmitUnchecked ==
  /\ pc = "submit"
  /\ pc' = "head"
  /\ UNCHANGED <<posts, attempt, timeout, now, timer, pollError, result, history,
                 relay>>

SubmitAccepted ==
  /\ pc = "submit" /\ registered
  /\ pc' = "head"
  /\ UNCHANGED <<posts, attempt, timeout, now, timer, pollError, result, history,
                 relay>>

-----------------------------------------------------------------------------
(* The wait: waitUntilIntentExecuted, pollForExecutedPacket and             *)
(* pollTransactionPackets.                                                  *)

\* Issue one request, its abort timer bounded by the deadline.
Request(n) == /\ pc' = "fetch" /\ attempt' = n
              /\ timer' = Smaller(now + RequestTimeout, timeout)
              /\ UNCHANGED <<posts, timeout, now, pollError, result>>

\* The while condition: poll again, or leave the loop with a code.
LoopHead ==
  /\ pc = "head"
  /\ IF InTime THEN Request(1)
     ELSE Return(Error(IF pollError = "none" THEN "RELAY_TIMEOUT"
                       ELSE "RELAY_POLLING_FAILED"))
  /\ UNCHANGED <<history, relay>>

\* Slip: the sleep is not capped by the deadline.
ContinueUncapped(err) ==
  /\ pollError' = err
  /\ IF InTime
     THEN pc' = "sleep" /\ timer' = now + PollInterval
     ELSE pc' = "head" /\ UNCHANGED timer
  /\ UNCHANGED <<posts, attempt, timeout, now, result>>

\* The poll ended without a verdict: sleep, never past the deadline, and loop.
Continue(err) ==
  /\ pollError' = err
  /\ IF InTime
     THEN pc' = "sleep" /\ timer' = Smaller(now + PollInterval, timeout)
     ELSE pc' = "head" /\ UNCHANGED timer
  /\ UNCHANGED <<posts, attempt, timeout, now, result>>

\* Slip: an abort of the client's own is taken for an outage.
FailedOnAbort(kind) ==
  IF kind = "http404" \/ ~InTime
  THEN Continue(pollError)
  ELSE /\ pc' = "done" /\ pollError' = "hard"
       /\ result' = Error("RELAY_POLLING_FAILED")
       /\ UNCHANGED <<posts, attempt, timeout, now, timer>>

\* The poll failed: a 404, an abort and any failure at or after the deadline
\* are part of waiting, everything else ends the wait at once.
PollFailed(kind) ==
  IF kind \in {"http404", "abort"} \/ ~InTime
  THEN Continue(pollError)
  ELSE /\ pc' = "done" /\ pollError' = "hard"
       /\ result' = Error("RELAY_POLLING_FAILED")
       /\ UNCHANGED <<posts, attempt, timeout, now, timer>>

\* A transport reject or an abort is retried within the poll.
RetryOrFail(kind) ==
  IF attempt < MaxRetry /\ InTime
  THEN /\ pc' = "backoff" /\ timer' = Smaller(now + RetryDelay, timeout)
       /\ UNCHANGED <<posts, attempt, timeout, now, pollError, result>>
  ELSE PollFailed(kind)

FetchRejected ==
  /\ pc = "fetch"
  /\ RetryOrFail("reject")
  /\ fatal' = (fatal \/ (attempt = MaxRetry /\ InTime))
  /\ UNCHANGED <<threwLate, relay>>

\* Slip: the abort timer is cleared when the headers arrive.
AbortedHeaders ==
  /\ pc = "fetch" /\ now = timer
  /\ RetryOrFail("abort")
  /\ UNCHANGED <<history, relay>>

\* The abort timer covers the headers and the body.
Aborted ==
  /\ pc \in {"fetch", "body"} /\ now = timer
  /\ RetryOrFail("abort")
  /\ UNCHANGED <<history, relay>>

HttpError(kind) ==
  /\ pc = "fetch"
  /\ PollFailed(kind)
  /\ fatal' = (fatal \/ (kind # "http404" /\ InTime))
  /\ UNCHANGED <<threwLate, relay>>

Headers ==
  /\ pc = "fetch"
  /\ pc' = "body"
  /\ UNCHANGED <<posts, attempt, timeout, now, timer, pollError, result, history,
                 relay>>

BodyUnparsable ==
  /\ pc = "body"
  /\ PollFailed("parse")
  /\ fatal' = (fatal \/ InTime)
  /\ UNCHANGED <<threwLate, relay>>

\* A parsed body the code cannot read (null, or success without data) throws
\* out of the poll; the loop records it and goes on.  Nothing asks for the time,
\* so a throw at or after the deadline is recorded like any other.
PollThrows ==
  /\ pc = "body"
  /\ Continue("thrown")
  /\ fatal' = (fatal \/ InTime)
  /\ threwLate' = (threwLate \/ ~InTime)
  /\ UNCHANGED relay

\* What an answer may list: packets the relay holds, each as it is or as it
\* was before; an executed one may lack its destination hash.
Views == {[packet |-> p, status |-> s, hash |-> h] :
            p \in {q \in Packets : status[q] # "absent"},
            s \in {"pending", "executed"}, h \in BOOLEAN}
Truthful(v) == v.status = "executed" => status[v.packet] = "executed"
Answers == UNION {[1..n -> {v \in Views : Truthful(v)}] : n \in 0..MaxListed}

\* Slips: every entry is a candidate, and a destination hash is enough.
AnyEntry(v) == v.packet \in Packets
HasHash(v) == v.hash

\* The candidates are the entries of the polled transaction, and the default
\* selector takes the first of them.
IsCandidate(v) == v.packet \in Own
IsFirstCandidate(list, i) ==
  IsCandidate(list[i]) /\ \A j \in 1..(i - 1) : ~IsCandidate(list[j])
Landed(v) == v.status = "executed" /\ v.hash

Answered(list) ==
  /\ pc = "body"
  /\ \/ \E i \in DOMAIN list : /\ IsFirstCandidate(list, i) /\ Landed(list[i])
                                /\ Return(Found(list[i].packet))
     \/ /\ \A i \in DOMAIN list : ~(IsFirstCandidate(list, i) /\ Landed(list[i]))
        /\ Continue(pollError)
  /\ UNCHANGED <<history, relay>>

BackoffOver ==
  /\ pc = "backoff" /\ now = timer
  /\ IF InTime THEN Request(attempt + 1) ELSE Continue(pollError)
  /\ UNCHANGED <<history, relay>>

SleepOver ==
  /\ pc = "sleep" /\ now = timer
  /\ pc' = "head"
  /\ UNCHANGED <<posts, attempt, timeout, now, timer, pollError, result, history,
                 relay>>

Tick ==
  /\ pc \in {"fetch", "body", "backoff", "sleep"} /\ now < timer
  /\ now' = now + 1
  /\ UNCHANGED <<pc, posts, attempt, timeout, timer, pollError, result, history,
                 relay>>

-----------------------------------------------------------------------------
(* The relay. *)

\* A POST reaches the relay, perhaps after the client gave up on it.
\* Registering a transaction twice changes nothing.
RelayReceives ==
  /\ posts > 0 /\ ~registered
  /\ registered' = TRUE
  /\ UNCHANGED <<client, status>>

RelayLists(p) ==
  /\ status[p] = "absent" /\ (p \in Own => registered)
  /\ status' = [status EXCEPT ![p] = "pending"]
  /\ UNCHANGED <<client, registered>>

RelayExecutes(p) ==
  /\ status[p] = "pending"
  /\ status' = [status EXCEPT ![p] = "executed"]
  /\ UNCHANGED <<client, registered>>

-----------------------------------------------------------------------------
Submitting == MissingData \/ PostSubmit \/ SubmitRejected \/ SubmitRefused
              \/ SubmitThrows \/ SubmitAccepted
Network == \/ FetchRejected \/ Headers \/ BodyUnparsable \/ PollThrows
           \/ \E kind \in {"http404", "httpError"} : HttpError(kind)
           \/ \E list \in Answers : Answered(list)
Timers == LoopHead \/ Aborted \/ BackoffOver \/ SleepOver \/ Tick
Relay == RelayReceives \/ \E p \in Packets : RelayLists(p) \/ RelayExecutes(p)

Next == Submitting \/ Network \/ Timers \/ Relay

\* The client's own code runs and its timers fire; neither the network nor the
\* relay owes it anything.
Spec == Init /\ [][Next]_vars /\ WF_vars(Timers)

-----------------------------------------------------------------------------
Codes == {"none", "SUBMIT_TX_FAILED", "RAW_ERROR", "RELAY_TIMEOUT",
          "RELAY_POLLING_FAILED"}
Waiting == pc \in {"head", "fetch", "body", "backoff", "sleep"}

\* Every variable has its type: submitTransaction and waitUntilIntentExecuted
\* keep their counters, budgets and codes in these sets.
TypeOK ==
  /\ pc \in {"start", "submit", "submitBackoff", "head", "fetch", "body",
             "backoff", "sleep", "done"}
  /\ posts \in 0..MaxRetry /\ attempt \in 0..MaxRetry
  /\ timeout \in Nat /\ now \in Nat /\ timer \in Nat
  /\ pollError \in {"none", "hard", "thrown"}
  /\ result \in [code : Codes] \cup [code : {"found"}, packet : Packets]
  /\ registered \in BOOLEAN /\ fatal \in BOOLEAN /\ threwLate \in BOOLEAN
  /\ status \in [Packets -> {"absent", "pending", "executed"}]

\* The packet handed back belongs to the polled transaction, is executed, and
\* was relayed for it: a sibling of another transaction listed in the same
\* answer, or a packet still in flight, never becomes the hub transaction.
FoundIsExecutedOwn ==
  result.code = "found" =>
    /\ result.packet \in Own
    /\ status[result.packet] = "executed"
    /\ registered

\* A caller that reads RELAY_TIMEOUT or RELAY_POLLING_FAILED need not submit
\* again: the relay holds the transaction whenever the wait was entered.
WaitedMeansRegistered ==
  Waiting \/ result.code \in {"RELAY_TIMEOUT", "RELAY_POLLING_FAILED"} => registered

\* No request, back-off or sleep outlives the caller's budget, whatever hangs.
DeadlineHeld == now <= timeout /\ (Waiting => timer <= timeout)

\* RELAY_TIMEOUT is returned only when the whole budget was spent and no poll
\* failed; RELAY_POLLING_FAILED only when one failed before the deadline, or when
\* a body the code cannot read arrived as the budget ran out.  A hung request, an
\* unknown transaction (404) and every other failure at the deadline are never an
\* outage.  The unreadable body is the exception to the comment at the deadline check
\* of pollForExecutedPacket: its throw passes by the check.
FailureClassified ==
  /\ result.code = "RELAY_TIMEOUT" => now = timeout /\ ~fatal /\ ~threwLate
  /\ result.code = "RELAY_POLLING_FAILED" => fatal \/ (threwLate /\ now = timeout)

\* Once the submit is acknowledged the call returns, even if the relay never
\* answers another byte.
WaitEnds == Waiting ~> (pc = "done")

\* The call implements its promise to the features that use it.
Promise == INSTANCE RelayPromise WITH
  phase <- IF Waiting THEN "waiting" ELSE IF pc = "done" THEN "done" ELSE "submitting",
  executed <- {p \in Packets : status[p] = "executed"},
  outcome <- result
ImplementsPromise == Promise!Spec
=============================================================================
