------------------------ MODULE BackendAttemptProofs ------------------------
(***************************************************************************)
(* What BackendAttempt promises, for every budget, every request timeout   *)
(* of the service and every poll interval.                                 *)
(***************************************************************************)
EXTENDS BackendAttempt, TLAPS

Underway == {"post", "status", "sleep"}

\* A request or a sleep that is on ends later than now and within the budget.
Timed == /\ pc = "start" => now = 0 /\ timer = 0
         /\ pc \in Underway => now <= timer /\ timer <= timeout
         /\ now <= timeout

\* What the client has gone through when it is at a step.
Passed == /\ pc \in {"start", "post"} => ~polls /\ ~statusError
          /\ pc = "start" => job = "absent"
          /\ pc \in {"status", "sleep"} => polls /\ job # "absent"
          /\ pc = "sleep" => statusError \/ answered
          /\ outcome = Running <=> pc # "done"

\* An answer says what the backend's record was and, if it was final, still is.
RepliesAreHonest ==
  /\ reply = "accepted" => job # "absent"
  /\ reply = "complete" => job = "complete"
  /\ reply \in {"failed", "abandoned"} => job \in {"failed", "abandoned"}
  /\ reply \in Jobs => pc = "status" /\ reply # "absent"
  /\ reply \in {"accepted", "refused"} => pc = "post"

IInv == /\ TypeOK /\ Timed /\ Passed /\ RepliesAreHonest /\ OutcomeIsTrue

-----------------------------------------------------------------------------
LEMMA Bound ==
  ASSUME timeout \in Nat, now \in Nat, now <= timeout, serviceTimeout \in ServiceTimeouts
  PROVE /\ RequestBound \in Nat
        /\ now + RequestBound <= timeout
<1>1. CASE serviceTimeout = Unusable BY <1>1 DEF RequestBound
<1>2. CASE serviceTimeout \in Int /\ serviceTimeout # Unusable
  BY <1>2 DEF RequestBound, Smaller, Remaining
<1> QED BY <1>1, <1>2, AttemptAssumption

LEMMA InitInvariant == Init => IInv
<1> SUFFICES ASSUME Init PROVE IInv OBVIOUS
<1>1. TypeOK BY DEF Init, TypeOK, Outcomes, Jobs, Running, None
<1>2. Timed BY AttemptAssumption DEF Init, Timed, Underway
<1>3. Passed BY DEF Init, Passed
<1>4. RepliesAreHonest BY DEF Init, RepliesAreHonest, Jobs, None
<1>5. OutcomeIsTrue BY DEF Init, OutcomeIsTrue, Running, Ok
<1> QED BY <1>1, <1>2, <1>3, <1>4, <1>5 DEF IInv

\* An attempt ends with any outcome that is true of it.
LEMMA Ends ==
  ASSUME IInv, pc # "done", NEW o \in Outcomes \ {Running}, Finish(o),
         polls' = polls, statusError' \in BOOLEAN, answered' \in BOOLEAN,
         reply' = None, job' = job, OutcomeIsTrue'
  PROVE IInv'
BY DEF IInv, TypeOK, Timed, Passed, RepliesAreHonest, Finish, Underway, Running, Ok,
       None, Jobs, Outcomes

\* The next status request, or the end for want of budget.
LEMMA Polls ==
  ASSUME IInv, pc \in {"post", "sleep"}, job # "absent", PollOrStop,
         UNCHANGED <<statusError, answered, job>>, reply' = None
  PROVE IInv'
<1>1. timeout \in Nat /\ now \in Nat /\ now <= timeout /\ serviceTimeout \in ServiceTimeouts
  BY AttemptAssumption DEF IInv, TypeOK, Timed
<1>2. CASE RequestBound = 0
  <2>1. Finish(Cause(polls, statusError)) /\ UNCHANGED polls
    BY <1>2 DEF PollOrStop
  <2>2. Cause(polls, statusError) \in Outcomes \ {Running}
    BY DEF Cause, Outcomes, Running, Ok
  <2>3. OutcomeIsTrue'
    BY <2>1 DEF OutcomeIsTrue, Finish, Cause, IInv, TypeOK, Passed, Ok
  <2> QED BY <2>1, <2>2, <2>3, Ends DEF IInv, TypeOK
<1>3. CASE RequestBound # 0
  <2>1. RequestBound \in Nat /\ now + RequestBound <= timeout BY <1>1, Bound
  <2>2. /\ pc' = "status" /\ timer' = now + RequestBound /\ polls'
        /\ UNCHANGED <<timeout, serviceTimeout, now, outcome>>
    BY <1>3 DEF PollOrStop
  <2> HIDE DEF RequestBound
  <2> QED
    BY <1>1, <2>1, <2>2
    DEF IInv, TypeOK, Timed, Passed, RepliesAreHonest, OutcomeIsTrue, Underway,
        Running, None, Jobs, Ok
<1> QED BY <1>2, <1>3

\* The sleep after a status request, or the end for want of budget.
LEMMA Waits ==
  ASSUME IInv, pc = "status", NEW e \in BOOLEAN, WaitOrStop(e),
         statusError' = e, answered' = (answered \/ ~e), UNCHANGED <<polls, job>>,
         reply' = None
  PROVE IInv'
<1>1. /\ timeout \in Nat /\ now \in Nat /\ now <= timeout /\ Interval \in Nat
      /\ polls /\ job # "absent"
  BY AttemptAssumption DEF IInv, TypeOK, Timed, Passed
<1>2. CASE Remaining <= Interval
  <2>1. Finish(Cause(polls, e)) BY <1>2 DEF WaitOrStop
  <2>2. Cause(polls, e) \in Outcomes \ {Running} BY DEF Cause, Outcomes, Running, Ok
  <2>3. OutcomeIsTrue'
    BY <1>1, <2>1 DEF OutcomeIsTrue, Finish, Cause, IInv, TypeOK, Ok
  <2> QED BY <2>1, <2>2, <2>3, Ends DEF IInv, TypeOK
<1>3. CASE ~(Remaining <= Interval)
  <2>1. /\ pc' = "sleep" /\ timer' = now + Interval
        /\ UNCHANGED <<timeout, serviceTimeout, now, outcome>>
    BY <1>3 DEF WaitOrStop
  <2>2. now + Interval \in Nat /\ now <= now + Interval /\ now + Interval <= timeout
    BY <1>1, <1>3 DEF Remaining
  <2>3. TypeOK' BY <2>1, <2>2 DEF IInv, TypeOK
  <2>4. Timed' BY <1>1, <2>1, <2>2 DEF Timed, Underway
  <2>5. Passed'
    <3>1. CASE e BY <3>1, <1>1, <2>1 DEF IInv, TypeOK, Passed, Running
    <3>2. CASE ~e BY <3>2, <1>1, <2>1 DEF IInv, TypeOK, Passed, Running
    <3> QED BY <3>1, <3>2
  <2>6. RepliesAreHonest' BY DEF RepliesAreHonest, None, Jobs
  <2>7. OutcomeIsTrue' BY <2>1 DEF IInv, Passed, OutcomeIsTrue, Running, Ok
  <2> QED BY <2>3, <2>4, <2>5, <2>6, <2>7 DEF IInv
<1> QED BY <1>2, <1>3

-----------------------------------------------------------------------------
LEMMA StartInvariant == ASSUME IInv, Start PROVE IInv'
<1>1. timeout \in Nat /\ now \in Nat /\ now <= timeout /\ serviceTimeout \in ServiceTimeouts
  BY AttemptAssumption DEF IInv, TypeOK, Timed
<1>2. CASE RequestBound = 0
  BY <1>2 DEF Start, Finish, IInv, TypeOK, Timed, Passed, RepliesAreHonest,
              OutcomeIsTrue, Underway, Running, None, Jobs, Ok, Outcomes
<1>3. CASE RequestBound # 0
  <2>1. RequestBound \in Nat /\ now + RequestBound <= timeout BY <1>1, Bound
  <2>2. /\ pc = "start" /\ pc' = "post" /\ timer' = now + RequestBound
        /\ UNCHANGED <<timeout, serviceTimeout, now, polls, statusError,
                       outcome, answered, job, reply>>
    BY <1>3 DEF Start
  <2> HIDE DEF RequestBound
  <2> QED
    BY <1>1, <2>1, <2>2
    DEF IInv, TypeOK, Timed, Passed, RepliesAreHonest, OutcomeIsTrue, Underway,
        Running, None, Jobs, Ok
<1> QED BY <1>2, <1>3

LEMMA PostInvariant ==
  ASSUME IInv, NEW o \in {"postFailed", "postTimedOut", "notAccepted"}, PostFails(o)
  PROVE IInv'
<1>1. o \in Outcomes \ {Running} BY DEF Outcomes, Running
<1>2. OutcomeIsTrue' BY DEF PostFails, Finish, OutcomeIsTrue, Ok
<1> QED BY <1>1, <1>2, Ends DEF PostFails, IInv, TypeOK

LEMMA AnsweredInvariant == ASSUME IInv, StatusAnswered PROVE IInv'
<1>1. /\ pc = "status" /\ reply \in Jobs /\ polls' = polls /\ job' = job
      /\ statusError' = FALSE /\ answered' = TRUE /\ reply' = None
  BY DEF StatusAnswered
<1>2. CASE reply = "complete"
  <2>1. Finish(Ok) BY <1>2 DEF StatusAnswered
  <2>2. OutcomeIsTrue' BY <1>1, <1>2, <2>1 DEF OutcomeIsTrue, Finish, Ok, IInv, RepliesAreHonest
  <2> QED BY <1>1, <2>1, <2>2, Ends DEF Outcomes, Running, Ok
<1>3. CASE reply \in {"failed", "abandoned"}
  <2>1. Finish("failed") BY <1>3 DEF StatusAnswered
  <2>2. OutcomeIsTrue' BY <1>1, <1>3, <2>1 DEF OutcomeIsTrue, Finish, Ok, IInv, RepliesAreHonest
  <2> QED BY <1>1, <2>1, <2>2, Ends DEF Outcomes, Running
<1>4. CASE reply \notin {"complete", "failed", "abandoned"}
  <2>1. WaitOrStop(FALSE) BY <1>1, <1>4 DEF StatusAnswered, Jobs
  <2> QED BY <1>1, <2>1, Waits DEF IInv, TypeOK
<1> QED BY <1>2, <1>3, <1>4

LEMMA FailsInvariant == ASSUME IInv, StatusFails PROVE IInv'
<1>1. answered' = (answered \/ ~TRUE) BY DEF StatusFails, IInv, TypeOK
<1> QED BY <1>1, Waits DEF StatusFails

LEMMA UnauthorizedInvariant == ASSUME IInv, StatusUnauthorized PROVE IInv'
<1>1. OutcomeIsTrue' BY DEF StatusUnauthorized, Finish, OutcomeIsTrue, Ok
<1> QED BY <1>1, Ends DEF StatusUnauthorized, IInv, TypeOK, Outcomes, Running

\* An accepted POST is polled: the backend has the submission.
LEMMA PollInvariant == ASSUME IInv, PostAccepted \/ SleepOver PROVE IInv'
<1>1. CASE PostAccepted
  BY <1>1, Polls DEF PostAccepted, IInv, RepliesAreHonest
<1>2. CASE SleepOver
  <2>1. pc = "sleep" /\ job # "absent" BY <1>2 DEF SleepOver, IInv, Passed
  <2>2. reply' = None BY <1>2, <2>1 DEF SleepOver, IInv, TypeOK, RepliesAreHonest
  <2> QED BY <1>2, <2>1, <2>2, Polls DEF SleepOver
<1> QED BY <1>1, <1>2

LEMMA TickInvariant == ASSUME IInv, Tick PROVE IInv'
BY AttemptAssumption
DEF Tick, IInv, TypeOK, Timed, Passed, RepliesAreHonest, OutcomeIsTrue, Underway,
    Running, None, Jobs, Ok

LEMMA BackendInvariant == ASSUME IInv, Backend PROVE IInv'
<1> USE DEF IInv, TypeOK, Timed, Passed, RepliesAreHonest, OutcomeIsTrue, Underway,
            Running, None, Jobs, Ok, client, Outcomes
<1>1. CASE Queue BY <1>1 DEF Queue
<1>2. CASE Advance BY <1>2 DEF Advance
<1>3. CASE AnswerPost BY <1>3 DEF AnswerPost
<1>4. CASE AnswerStatus BY <1>4 DEF AnswerStatus
<1> QED BY <1>1, <1>2, <1>3, <1>4 DEF Backend

LEMMA NextInvariant == IInv /\ [Next]_vars => IInv'
<1> SUFFICES ASSUME IInv, [Next]_vars PROVE IInv' OBVIOUS
<1>1. CASE Client
  BY <1>1, StartInvariant, FailsInvariant, PollInvariant, TickInvariant, PostInvariant
  DEF Client, StatusTimesOut
<1>2. CASE Network
  BY <1>2, PostInvariant, PollInvariant, AnsweredInvariant, UnauthorizedInvariant,
     FailsInvariant
  DEF Network
<1>3. CASE Backend BY <1>3, BackendInvariant
<1>4. CASE UNCHANGED vars
  BY <1>4 DEF vars, client, IInv, TypeOK, Timed, Passed, RepliesAreHonest,
              OutcomeIsTrue
<1> QED BY <1>1, <1>2, <1>3, <1>4 DEF Next

-----------------------------------------------------------------------------
\* The inductive invariant holds of every attempt, whatever its budget.
THEOREM Invariance == Spec => []IInv
BY InitInvariant, NextInvariant, PTL DEF Spec

\* The state of runBackendSubmitTx keeps its types.
THEOREM TypeCorrect == Spec => []TypeOK
<1>1. IInv => TypeOK BY DEF IInv
<1> QED BY <1>1, Invariance, PTL

\* No request and no sleep of an attempt outlives its budget.
THEOREM AttemptIsBounded == Spec => []AttemptBounded
<1>1. IInv => AttemptBounded
  BY AttemptAssumption DEF IInv, AttemptBounded, TypeOK, Timed, Underway
<1> QED BY <1>1, Invariance, PTL

\* What the attempt returns is what happened to the submission.
THEOREM OutcomeIsCorrect == Spec => []OutcomeIsTrue
<1>1. IInv => OutcomeIsTrue BY DEF IInv
<1> QED BY <1>1, Invariance, PTL

-----------------------------------------------------------------------------
(* The safety half of AttemptEnds: the attempt runs down, and it never      *)
(* waits for a timer that has passed.                                       *)

\* What the attempt may still do: its budget, and its place in the loop.
Rank ==
  CASE pc = "start" -> 5
    [] pc = "post" -> 4
    [] pc = "status" -> 3
    [] pc = "sleep" -> IF now = timer THEN 4 ELSE 1
    [] OTHER -> 0
Work == 5 * (timeout - now) + Rank
RunsDown == client' # client => Work' \in Nat /\ Work' < Work

LEMMA RankIsNat ==
  ASSUME IInv
  PROVE  /\ Rank \in 0..5 /\ (pc # "done" => Rank \in 1..5)
         /\ timeout \in Nat /\ now \in Nat /\ now <= timeout
<1>1. timeout \in Nat /\ now \in Nat /\ now <= timeout
  BY AttemptAssumption DEF IInv, TypeOK, Timed
<1>2. Rank \in 0..5 /\ (pc # "done" => Rank \in 1..5)
  BY DEF Rank, IInv, TypeOK
<1> QED BY <1>1, <1>2

\* Time stands still and the control moves to a state of lower rank.
LEMMA Descends ==
  ASSUME IInv, UNCHANGED <<timeout, now>>, NEW r \in Nat, Rank' = r, r < Rank
  PROVE  RunsDown
<1>1. Work' = 5 * (timeout - now) + r BY DEF Work
<1> QED BY <1>1, RankIsNat DEF Work, RunsDown

LEMMA FinishRunsDown ==
  ASSUME IInv, pc # "done", NEW o, Finish(o)
  PROVE  RunsDown
<1>1. Rank' = 0 BY DEF Finish, Rank
<1> QED BY <1>1, RankIsNat, Descends DEF Finish

\* A status request goes out, or the attempt is over.
LEMMA PollRunsDown ==
  ASSUME IInv, pc = "post" \/ (pc = "sleep" /\ now = timer), PollOrStop
  PROVE  RunsDown
<1>1. CASE RequestBound = 0
  BY <1>1, FinishRunsDown DEF PollOrStop
<1>2. CASE RequestBound # 0
  <2>1. Rank = 4 /\ Rank' = 3 /\ UNCHANGED <<timeout, now>>
    BY <1>2 DEF PollOrStop, Rank
  <2> QED BY <2>1, Descends
<1> QED BY <1>1, <1>2

\* The interval is positive: a sleep that begins is not over.
LEMMA WaitRunsDown ==
  ASSUME IInv, pc = "status", NEW e, WaitOrStop(e)
  PROVE  RunsDown
<1>1. CASE Remaining <= Interval
  BY <1>1, FinishRunsDown DEF WaitOrStop
<1>2. CASE ~(Remaining <= Interval)
  <2>1. pc' = "sleep" /\ timer' = now + Interval /\ UNCHANGED <<timeout, now>>
    BY <1>2 DEF WaitOrStop
  <2>2. now' # timer' BY <2>1, RankIsNat, AttemptAssumption
  <2>3. Rank = 3 /\ Rank' = 1 BY <2>1, <2>2 DEF Rank
  <2> QED BY <2>1, <2>3, Descends
<1> QED BY <1>1, <1>2

LEMMA StartRunsDown == ASSUME IInv, Start PROVE RunsDown
<1>1. CASE RequestBound = 0
  BY <1>1, FinishRunsDown DEF Start
<1>2. CASE RequestBound # 0
  <2>1. Rank = 5 /\ Rank' = 4 /\ UNCHANGED <<timeout, now>>
    BY <1>2 DEF Start, Rank
  <2> QED BY <2>1, Descends
<1> QED BY <1>1, <1>2

\* The clock costs more than a sleep that is over gives back.
LEMMA TickRunsDown == ASSUME IInv, Tick PROVE RunsDown
<1>1. /\ now' = now + 1 /\ now < timer /\ timer <= timeout
      /\ UNCHANGED <<pc, timeout, timer>>
  BY DEF Tick, IInv, Timed, Underway
<1>2. /\ now \in Nat /\ timer \in Nat /\ timeout \in Nat /\ Rank \in 1..5
  BY <1>1, RankIsNat DEF IInv, TypeOK, Tick
<1>3. PICK r \in 0..5 : Rank' = r
  BY <1>1, <1>2 DEF Rank
<1>4. Work' = 5 * (timeout - (now + 1)) + r
  BY <1>1, <1>3 DEF Work
<1>5. CASE pc = "sleep"
  <2>1. Rank = 1 /\ r <= 4
    BY <1>1, <1>2, <1>3, <1>5 DEF Rank
  <2> QED BY <1>1, <1>2, <1>4, <2>1 DEF Work, RunsDown
<1>6. CASE pc # "sleep"
  <2>1. r = Rank
    BY <1>1, <1>3, <1>6 DEF Rank
  <2> QED BY <1>1, <1>2, <1>4, <2>1 DEF Work, RunsDown
<1> QED BY <1>5, <1>6

LEMMA NextRunsDown == ASSUME IInv, [Next]_vars PROVE RunsDown
<1>1. ASSUME NEW o, PostFails(o) PROVE RunsDown
  BY <1>1, FinishRunsDown DEF PostFails
<1>2. CASE PostAccepted \/ SleepOver
  BY <1>2, PollRunsDown DEF PostAccepted, SleepOver
<1>3. CASE StatusAnswered
  BY <1>3, FinishRunsDown, WaitRunsDown DEF StatusAnswered
<1>4. CASE StatusFails \/ StatusUnauthorized
  BY <1>4, WaitRunsDown, FinishRunsDown DEF StatusFails, StatusUnauthorized
<1>5. CASE Backend \/ UNCHANGED vars
  BY <1>5 DEF Backend, Queue, Advance, AnswerPost, AnswerStatus, vars, RunsDown
<1> QED
  BY <1>1, <1>2, <1>3, <1>4, <1>5, StartRunsDown, TickRunsDown
  DEF Next, Client, Network, StatusTimesOut

\* Every step of the client uses up some of what is left of its attempt, which is
\* finite: no schedule of answers, failures and sleeps makes pollBackendSubmitTx
\* poll for ever.
THEOREM AttemptRunsDown == Spec => [][RunsDown]_vars
BY NextRunsDown, Invariance, PTL DEF Spec

\* While a request or a sleep is on, its timer is still to come: the attempt never
\* depends on the backend to go on.
THEOREM TimerIsAhead == Spec => [](pc \in Underway => now <= timer)
<1>1. IInv => (pc \in Underway => now <= timer) BY DEF IInv, Timed
<1> QED BY <1>1, Invariance, PTL

-----------------------------------------------------------------------------
(* The attempt implements its promise, AttemptPromise.                      *)

\* The attempt as its promise sees it.
Posted == pc # "start" /\ outcome # "skipped"
Record == CASE job = "absent" -> "none"
            [] job \in {"working", "bare"} -> "working"
            [] job = "complete" -> "complete"
            [] OTHER -> "stopped"
Answer == CASE outcome = Running -> "pending"
            [] outcome = Ok -> "success"
            [] OTHER -> "fallback"

LEMMA PostedIsBoolean == Posted \in BOOLEAN /\ Posted' \in BOOLEAN
BY DEF Posted

\* A step of the client between two polls is invisible.
LEMMA QuietStep ==
  ASSUME UNCHANGED <<timeout, now, outcome, job>>, pc # "start", pc' # "start"
  PROVE  UNCHANGED Promise!vars
BY DEF Promise!vars

\* The attempt answers: success of a complete record, a fallback otherwise.
LEMMA FinishStep ==
  ASSUME IInv, pc # "done", NEW o \in Outcomes \ {Running}, Finish(o), UNCHANGED job,
         o = Ok => job = "complete",
         pc = "start" <=> o = "skipped"
  PROVE  Promise!Next
<1>1. /\ outcome = Running /\ pc' = "done" /\ outcome' = o /\ o # Running
      /\ UNCHANGED <<timeout, now, job>>
  BY DEF Finish, IInv, Passed
<1>2. UNCHANGED <<timeout, now, Posted, Record>> /\ Answer = "pending"
  <2>1. Posted' <=> Posted
    BY <1>1 DEF Posted, Running
  <2>2. Posted' = Posted
    BY <2>1, PostedIsBoolean
  <2>3. UNCHANGED <<timeout, now, Record>> /\ Answer = "pending"
    BY <1>1 DEF Record, Answer, Running, Ok
  <2> QED BY <2>2, <2>3
<1>3. CASE o = Ok
  <2>1. Record = "complete" /\ Answer' = "success"
    BY <1>1, <1>3 DEF Record, Answer, Ok, Running
  <2>2. Promise!Succeed
    BY <1>2, <2>1 DEF Promise!Succeed, Posted, Record, Answer
  <2> QED BY <2>2 DEF Promise!Next
<1>4. CASE o # Ok
  <2>1. Answer' = "fallback"
    BY <1>1, <1>4 DEF Answer
  <2>2. Promise!FallBack
    BY <1>2, <2>1 DEF Promise!FallBack, Posted, Record, Answer
  <2> QED BY <2>2 DEF Promise!Next
<1> QED BY <1>3, <1>4

LEMMA StartStep == ASSUME IInv, Start PROVE [Promise!Next]_(Promise!vars)
<1>1. CASE RequestBound = 0
  <2>1. Finish("skipped") /\ UNCHANGED job /\ "skipped" \in Outcomes \ {Running}
    BY <1>1 DEF Start, Outcomes, Running
  <2> QED BY <2>1, FinishStep DEF Start, Ok
<1>2. CASE RequestBound # 0
  <2>1. now < timeout
    BY <1>2, RankIsNat, AttemptAssumption
    DEF RequestBound, Smaller, Remaining, IInv, TypeOK
  <2>2. /\ pc = "start" /\ pc' = "post" /\ outcome = Running /\ job = "absent"
        /\ UNCHANGED <<timeout, now, outcome, job>>
    BY <1>2 DEF Start, IInv, Passed
  <2>3. ~Posted /\ Posted' /\ Answer = "pending" /\ UNCHANGED <<timeout, now, Record, Answer>>
    BY <2>2 DEF Posted, Record, Answer, Running, Ok
  <2>4. Posted' = TRUE
    BY <2>3, PostedIsBoolean
  <2>5. Promise!Post
    BY <2>1, <2>3, <2>4 DEF Promise!Post, Posted, Record, Answer
  <2> QED BY <2>5 DEF Promise!Next
<1> QED BY <1>1, <1>2

LEMMA PollStep ==
  ASSUME IInv, pc \in {"post", "sleep"}, PollOrStop, UNCHANGED job
  PROVE  [Promise!Next]_(Promise!vars)
<1>1. CASE RequestBound = 0
  <2>1. Finish(Cause(polls, statusError))
    BY <1>1 DEF PollOrStop
  <2>2. Cause(polls, statusError) \in Outcomes \ {Running, Ok, "skipped"}
    BY DEF Cause, Outcomes, Running, Ok
  <2> QED BY <2>1, <2>2, FinishStep
<1>2. CASE RequestBound # 0
  BY <1>2, QuietStep DEF PollOrStop
<1> QED BY <1>1, <1>2

LEMMA WaitStep ==
  ASSUME IInv, pc = "status", NEW e, WaitOrStop(e), UNCHANGED job
  PROVE  [Promise!Next]_(Promise!vars)
<1>1. CASE Remaining <= Interval
  <2>1. Finish(Cause(polls, e))
    BY <1>1 DEF WaitOrStop
  <2>2. Cause(polls, e) \in Outcomes \ {Running, Ok, "skipped"}
    BY DEF Cause, Outcomes, Running, Ok
  <2> QED BY <2>1, <2>2, FinishStep
<1>2. CASE ~(Remaining <= Interval)
  BY <1>2, QuietStep DEF WaitOrStop
<1> QED BY <1>1, <1>2

LEMMA TickStep == ASSUME IInv, Tick PROVE Promise!Next
<1>1. /\ now < timeout /\ outcome = Running /\ pc # "start"
      /\ now' = now + 1 /\ UNCHANGED <<pc, timeout, outcome, job>>
  BY RankIsNat DEF Tick, IInv, TypeOK, Timed, Passed, Underway
<1>2. Posted /\ Answer = "pending" /\ UNCHANGED <<timeout, Posted, Record, Answer>>
  BY <1>1 DEF Posted, Record, Answer, Running, Ok
<1>3. Promise!Pass
  BY <1>1, <1>2 DEF Promise!Pass, Posted, Record, Answer
<1> QED BY <1>3 DEF Promise!Next

\* The backend's record moves on, before or after the answer.
LEMMA BackendStep == ASSUME IInv, Backend PROVE [Promise!Next]_(Promise!vars)
<1>1. UNCHANGED <<pc, timeout, now, outcome>>
  BY DEF Backend, Queue, Advance, AnswerPost, AnswerStatus, client
<1>2. UNCHANGED <<timeout, now, Posted, Answer>>
  BY <1>1 DEF Posted, Answer
<1>3. CASE Queue
  <2>1. Posted /\ Record = "none" /\ Record' = "working"
    BY <1>3 DEF Queue, Posted, Record
  <2>2. Promise!Queue
    BY <1>2, <2>1 DEF Promise!Queue, Posted, Record, Answer
  <2> QED BY <2>2 DEF Promise!Next
<1>4. CASE Advance
  <2>1. Record = "working" /\ Record' \in {"working", "complete", "stopped"}
    BY <1>4 DEF Advance, Record
  <2>2. Promise!End \/ UNCHANGED Promise!vars
    BY <1>2, <2>1 DEF Promise!End, Promise!vars, Posted, Record, Answer
  <2> QED BY <2>2 DEF Promise!Next
<1>5. CASE AnswerPost \/ AnswerStatus
  BY <1>1, <1>5 DEF AnswerPost, AnswerStatus, Promise!vars
<1> QED BY <1>3, <1>4, <1>5 DEF Backend

\* A submit-tx attempt keeps its promise to the operations that open it: all they
\* can see of runBackendSubmitTx are steps of AttemptPromise.
THEOREM KeepsPromise == Spec => ImplementsPromise
<1>1. Init => Promise!Init
  <2> SUFFICES ASSUME Init PROVE Promise!Init
    OBVIOUS
  <2>1. ~Posted /\ timeout \in Nat /\ now = 0 /\ Record = "none" /\ Answer = "pending"
    BY AttemptAssumption DEF Init, Posted, Record, Answer, Running, Ok
  <2>2. Posted = FALSE
    BY <2>1, PostedIsBoolean
  <2> QED BY <2>1, <2>2 DEF Promise!Init, Posted, Record, Answer
<1>2. IInv /\ [Next]_vars => [Promise!Next]_(Promise!vars)
  <2> SUFFICES ASSUME IInv, [Next]_vars PROVE [Promise!Next]_(Promise!vars)
    OBVIOUS
  <2>1. ASSUME NEW o \in {"postFailed", "postTimedOut", "notAccepted"}, PostFails(o)
        PROVE  Promise!Next
    <3>1. o \in Outcomes \ {Running, Ok, "skipped"} BY DEF Outcomes, Running, Ok
    <3> QED BY <2>1, <3>1, FinishStep DEF PostFails
  <2>2. CASE PostAccepted \/ SleepOver
    BY <2>2, PollStep DEF PostAccepted, SleepOver
  <2>3. CASE StatusAnswered
    <3>1. pc = "status" /\ UNCHANGED job BY <2>3 DEF StatusAnswered
    <3>2. CASE reply = "complete"
      <4>1. Finish(Ok) /\ job = "complete" /\ Ok \in Outcomes \ {Running}
        BY <2>3, <3>2 DEF StatusAnswered, IInv, RepliesAreHonest, Outcomes, Ok, Running
      <4> QED BY <3>1, <4>1, FinishStep DEF Ok
    <3>3. CASE reply \in {"failed", "abandoned"}
      <4>1. Finish("failed") /\ "failed" \in Outcomes \ {Running, Ok}
        BY <2>3, <3>3 DEF StatusAnswered, Outcomes, Ok, Running
      <4> QED BY <3>1, <4>1, FinishStep
    <3>4. CASE reply \notin {"complete", "failed", "abandoned"}
      <4>1. WaitOrStop(FALSE) BY <2>3, <3>4 DEF StatusAnswered, Jobs
      <4> QED BY <3>1, <4>1, WaitStep
    <3> QED BY <3>2, <3>3, <3>4
  <2>4. CASE StatusFails
    BY <2>4, WaitStep DEF StatusFails
  <2>5. CASE StatusUnauthorized
    <3>1. "rejectedKey" \in Outcomes \ {Running, Ok} BY DEF Outcomes, Running, Ok
    <3> QED BY <2>5, <3>1, FinishStep DEF StatusUnauthorized
  <2>6. CASE UNCHANGED vars
    BY <2>6 DEF vars, client, Promise!vars
  <2> QED
    BY <2>1, <2>2, <2>3, <2>4, <2>5, <2>6, StartStep, TickStep, BackendStep
    DEF Next, Client, Network, StatusTimesOut
<1> QED
  BY <1>1, <1>2, Invariance, PTL DEF Spec, ImplementsPromise, Promise!Spec
=============================================================================
