--------------------------- MODULE BackendAttempt ---------------------------
(***************************************************************************)
(* One backend submit-tx attempt, as swap and bridge run it: POST the      *)
(* broadcast source transaction, then poll its status, all within the      *)
(* attempt's own budget (createSubmitTxAttempt, runBackendSubmitTx,        *)
(* pollBackendSubmitTx, and makeRequest's abort timer under each request). *)
(* The backend is the environment: it works on a submission it accepted    *)
(* whether or not the client is still watching.                            *)
(*                                                                         *)
(* `now` counts from the opening of the attempt.  A request is bounded by  *)
(* `timer`; the poll's sleep uses the same variable.                       *)
(***************************************************************************)
EXTENDS Integers

CONSTANTS
  Timeouts,         \* callers' budgets, already resolved
  ServiceTimeouts,  \* values of api.getTimeout()
  Unusable,         \* an api timeout that is not a number
  Interval          \* intervalMs, the sleep between polls

ASSUME AttemptAssumption ==
  /\ Timeouts \subseteq Nat
  /\ ServiceTimeouts \subseteq Int \cup {Unusable}
  /\ Unusable \notin Int
  /\ Interval \in Nat \ {0}

VARIABLES
  pc,              \* control state of the client
  timeout,         \* budget of the attempt, hence its deadline
  serviceTimeout,  \* the service's own request timeout
  now, timer,
  polls,           \* a status request was issued (polls > 0)
  statusError,     \* lastStatusError is set
  outcome,         \* what runBackendSubmitTx returned
  job,             \* the backend's record of the submission
  reply,           \* the answer on its way to the client
  answered         \* history: some status request succeeded

client == <<pc, timeout, serviceTimeout, now, timer, polls, statusError, outcome,
            answered>>
vars == <<client, job, reply>>

Running == "running"
Ok == "ok"
None == "none"

\* Records of a submission: absent until queued, then in progress, and finally
\* complete or given up on.  "bare" is the terminal status before its result
\* fields are filled in; an abandoned record keeps its status.
Jobs == {"absent", "working", "bare", "complete", "failed", "abandoned"}

Smaller(a, b) == IF a < b THEN a ELSE b
Remaining == timeout - now

\* Slips: the sign of the bound is not checked, the remaining budget is ignored.
BoundUnchecked ==
  IF serviceTimeout = Unusable THEN 0 ELSE Smaller(Remaining, serviceTimeout)
BoundOfService ==
  IF serviceTimeout = Unusable \/ serviceTimeout < 0 \/ Remaining = 0
  THEN 0 ELSE serviceTimeout

\* SubmitTxAttempt.requestTimeout: the bound of one request, 0 standing for
\* null: no request may be issued.
RequestBound ==
  IF serviceTimeout = Unusable THEN 0
  ELSE IF Smaller(Remaining, serviceTimeout) > 0
       THEN Smaller(Remaining, serviceTimeout) ELSE 0

Init ==
  /\ pc = "start"
  /\ timeout \in Timeouts /\ serviceTimeout \in ServiceTimeouts
  /\ now = 0 /\ timer = 0
  /\ polls = FALSE /\ statusError = FALSE /\ answered = FALSE
  /\ outcome = Running
  /\ job = "absent" /\ reply = None

Finish(o) == /\ pc' = "done" /\ outcome' = o
             /\ UNCHANGED <<timeout, serviceTimeout, now, timer>>

-----------------------------------------------------------------------------
(* runBackendSubmitTx *)

Start ==
  /\ pc = "start"
  /\ IF RequestBound = 0
     THEN Finish("skipped") /\ UNCHANGED <<polls, statusError, answered>>
     ELSE /\ pc' = "post" /\ timer' = now + RequestBound
          /\ UNCHANGED <<timeout, serviceTimeout, now, polls, statusError,
                         outcome, answered>>
  /\ UNCHANGED <<job, reply>>

\* A transport failure, an HTTP error, a timeout, or an answer whose `success`
\* is false.  The backend may have queued the submission all the same, unless
\* it said that it did not.
PostFails(o) ==
  /\ pc = "post"
  /\ o = "postTimedOut" => now = timer
  /\ o = "notAccepted" => reply = "refused"
  /\ Finish(o)
  /\ reply' = None
  /\ UNCHANGED <<polls, statusError, answered, job>>

\* The loop header of the poll: a null bound ends it, with a cause that says
\* what happened.
Cause(p, e) == IF ~p THEN "noPollBudget"
               ELSE IF e THEN "statusFailed" ELSE "timedOut"

PollOrStop ==
  IF RequestBound = 0
  THEN Finish(Cause(polls, statusError)) /\ UNCHANGED polls
  ELSE /\ pc' = "status" /\ timer' = now + RequestBound /\ polls' = TRUE
       /\ UNCHANGED <<timeout, serviceTimeout, now, outcome>>

PostAccepted ==
  /\ pc = "post" /\ reply = "accepted"
  /\ PollOrStop
  /\ reply' = None
  /\ UNCHANGED <<statusError, answered, job>>

-----------------------------------------------------------------------------
(* pollBackendSubmitTx *)

\* Nothing conclusive: sleep one interval, unless it would use up the attempt.
WaitOrStop(e) ==
  IF Remaining <= Interval
  THEN Finish(Cause(polls, e))
  ELSE /\ pc' = "sleep" /\ timer' = now + Interval
       /\ UNCHANGED <<timeout, serviceTimeout, now, outcome>>

\* Slip: the terminal status is enough, its result fields are not looked at.
AnsweredBare ==
  /\ pc = "status" /\ reply \in Jobs
  /\ CASE reply \in {"complete", "bare"} -> Finish(Ok)
       [] reply \in {"failed", "abandoned"} -> Finish("failed")
       [] OTHER -> WaitOrStop(FALSE)
  /\ statusError' = FALSE /\ answered' = TRUE /\ reply' = None
  /\ UNCHANGED <<polls, job>>

StatusAnswered ==
  /\ pc = "status" /\ reply \in Jobs
  /\ CASE reply = "complete" -> Finish(Ok)
       [] reply \in {"failed", "abandoned"} -> Finish("failed")
       [] OTHER -> WaitOrStop(FALSE)
  /\ statusError' = FALSE /\ answered' = TRUE /\ reply' = None
  /\ UNCHANGED <<polls, job>>

StatusUnauthorized ==
  /\ pc = "status"
  /\ Finish("rejectedKey")
  /\ statusError' = TRUE /\ reply' = None
  /\ UNCHANGED <<polls, answered, job>>

\* Slip: the failure of a status request is not recorded.
FailsUnrecorded ==
  /\ pc = "status"
  /\ WaitOrStop(statusError)
  /\ reply' = None
  /\ UNCHANGED <<polls, statusError, answered, job>>

\* A transport failure, a 404 or 5xx, an unusable body.
StatusFails ==
  /\ pc = "status"
  /\ WaitOrStop(TRUE)
  /\ statusError' = TRUE /\ reply' = None
  /\ UNCHANGED <<polls, answered, job>>

\* Slip: a request has no abort timer.
NeverTimesOut == FALSE /\ StatusFails

\* The abort timer covers the headers and the body of a request.
StatusTimesOut == now = timer /\ StatusFails

SleepOver ==
  /\ pc = "sleep" /\ now = timer
  /\ PollOrStop
  /\ UNCHANGED <<statusError, answered, job, reply>>

Tick ==
  /\ pc \in {"post", "status", "sleep"} /\ now < timer
  /\ now' = now + 1
  /\ UNCHANGED <<pc, timeout, serviceTimeout, timer, polls, statusError, outcome,
                 answered, job, reply>>

-----------------------------------------------------------------------------
(* The backend. *)

\* It may queue the submission at any time after the POST went out, once; a
\* second submission is a duplicate.
Queue ==
  /\ pc # "start" /\ outcome \notin {"skipped", "notAccepted"}
  /\ job = "absent" /\ reply # "refused"
  /\ job' = "working"
  /\ UNCHANGED <<client, reply>>

Advance ==
  /\ \/ job = "working" /\ job' \in {"bare", "complete", "failed", "abandoned"}
     \/ job = "bare" /\ job' \in {"complete", "abandoned"}
  /\ UNCHANGED <<client, reply>>

AnswerPost ==
  /\ pc = "post" /\ reply = None
  /\ \/ job # "absent" /\ reply' = "accepted"
     \/ job = "absent" /\ reply' = "refused"
  /\ UNCHANGED <<client, job>>

\* A status answer is a snapshot: the job may move on before it is read.
AnswerStatus ==
  /\ pc = "status" /\ reply = None /\ job # "absent"
  /\ reply' = job
  /\ UNCHANGED <<client, job>>

-----------------------------------------------------------------------------
Client == Start \/ StatusTimesOut \/ SleepOver \/ Tick
          \/ PostFails("postTimedOut")
Network == PostFails("postFailed") \/ PostFails("notAccepted") \/ PostAccepted
           \/ StatusAnswered \/ StatusUnauthorized \/ StatusFails
Backend == Queue \/ Advance \/ AnswerPost \/ AnswerStatus

Next == Client \/ Network \/ Backend

\* The client's code runs and its timers fire.  Nothing is assumed of the
\* network and of the backend.
Spec == Init /\ [][Next]_vars /\ WF_vars(Client)

-----------------------------------------------------------------------------
Outcomes == {Running, Ok, "skipped", "postFailed", "postTimedOut", "notAccepted",
             "noPollBudget", "failed", "rejectedKey", "statusFailed", "timedOut"}

\* The types of the attempt's state, as runBackendSubmitTx keeps it.
TypeOK ==
  /\ pc \in {"start", "post", "status", "sleep", "done"}
  /\ timeout \in Timeouts /\ serviceTimeout \in ServiceTimeouts
  /\ now \in Nat /\ timer \in Nat
  /\ polls \in BOOLEAN /\ statusError \in BOOLEAN /\ answered \in BOOLEAN
  /\ outcome \in Outcomes
  /\ job \in Jobs /\ reply \in Jobs \cup {None, "accepted", "refused"}

\* No request and no sleep outlives the attempt, so the client-side fallback is
\* never kept waiting past the budget, however the backend stalls.
AttemptBounded == now <= timeout /\ (pc # "done" => timer <= timeout)

\* What the attempt returns is what happened: success only of a record with all its
\* result fields, a failure only of one that failed or was given up, and a spent budget
\* with the way it was spent: without a status request, with the last one failing, or
\* with the last one answered.  Nothing was posted exactly when it was skipped.
OutcomeIsTrue ==
  /\ outcome = Ok => job = "complete"
  /\ outcome = "failed" => job \in {"failed", "abandoned"}
  /\ outcome = "noPollBudget" => ~polls /\ job # "absent"
  /\ outcome = "statusFailed" => polls /\ statusError
  /\ outcome = "timedOut" => answered /\ ~statusError
  /\ outcome = "skipped" => job = "absent" /\ timer = 0

\* The attempt ends by itself, with a backend that never answers.
AttemptEnds == <>(pc = "done")

\* The attempt implements its promise: it answers its caller once, in its budget, and
\* calls a submission done only when the backend's record is complete.
Promise == INSTANCE AttemptPromise WITH
  budget <- timeout,
  elapsed <- now,
  posted <- pc # "start" /\ outcome # "skipped",
  record <- CASE job = "absent" -> "none"
              [] job \in {"working", "bare"} -> "working"
              [] job = "complete" -> "complete"
              [] OTHER -> "stopped",
  answer <- CASE outcome = Running -> "pending"
              [] outcome = Ok -> "success"
              [] OTHER -> "fallback"
ImplementsPromise == Promise!Spec
=============================================================================
