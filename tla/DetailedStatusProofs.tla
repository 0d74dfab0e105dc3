------------------------ MODULE DetailedStatusProofs ------------------------
(***************************************************************************)
(* What DetailedStatus promises, for every miss budget and any number of   *)
(* unanswered questions.                                                   *)
(***************************************************************************)
EXTENDS DetailedStatus, TLAPS

\* What a service says of an intent was true when it said it, and what is final
\* stays: a filled, a cancelled and a refused intent, an executed packet.
ServicesAreTrue ==
  /\ solver = "SOLVED" => intent = "filled"
  /\ solver = "FAILED" => refused
  /\ journal \in {"filled", "cancelled"} => intent = journal
  /\ kind # "hub" /\ packet # "executed" => intent = "none"

\* A read that is about to report a miss of the solver has heard the solver.
MissIsHeard ==
  /\ read.pc = "journal" => read.solver # "none"
  /\ read.pc = "journal" /\ read.solver = "NOT_FOUND" => "solver" \in read.heard

\* The miss budget never runs ahead of the misses: what it has counted, and what it
\* is still to count of the last result, the sources confirmed.
BudgetIsEarned ==
  /\ read.pc # "idle" => streak.seen
  /\ Ambiguous(data) => misses >= 1
  /\ streak.key = "own" /\ streak.seen => streak.count <= misses
  /\ streak.key = "own" /\ ~streak.seen /\ Ambiguous(data) => UpTo(streak.count + 1) <= misses

\* An interval that is off was turned off for the result that is shown.
OffForAReason ==
  streak.key = "own" /\ streak.seen /\ ~polling =>
    data \in Final \cup {"rejectedKey"} \/ misses = MaxMisses

IInv == TypeOK /\ ServicesAreTrue /\ MissIsHeard /\ BudgetIsEarned /\ OffForAReason
        /\ VerdictIsTrue

Results == Final \cup {"none", "inPlay", "rejectedKey", "lookupFailed",
                       "notDelivered", "NOT_FOUND", "inFlight"}

Services == {"backend", "relay", "solver", "journal"}

\* A result that is true, and whose miss, if it is one, was heard.
MayReport(result, heard) ==
  /\ result \in Results
  /\ result = "SOLVED" => intent = "filled"
  /\ result = "FAILED" => refused \/ intent = "cancelled"
  /\ result = "packet" => packet = "executed"
  /\ Ambiguous(result) => Witnesses(result) \subseteq heard

-----------------------------------------------------------------------------
LEMMA InitInvariant == Init => IInv
<1> SUFFICES ASSUME Init PROVE IInv OBVIOUS
<1>1. TypeOK
  <2>1. /\ 0 \in 0..MaxOutages /\ 0 \in 0..MaxMisses
        /\ streak = [key |-> "own", seen |-> TRUE, count |-> 0]
        /\ read = [pc |-> "idle", heard |-> {}, solver |-> "none"]
    BY StatusAssumption DEF Init
  <2>2. streak \in [key : {"own", "other"}, seen : BOOLEAN, count : 0..MaxMisses]
    BY <2>1
  <2>3. refused \in BOOLEAN /\ polling \in BOOLEAN BY DEF Init
  <2>4. read.pc = "idle" /\ read.heard = {} /\ read.solver = "none" BY <2>1
  <2>5. /\ kind \in {"spoke", "hub", "bridge"} /\ data \in Final \cup {"none"}
        /\ shown \in {"own", "other"} /\ solver \in {"NOT_FOUND", "inFlight", "SOLVED", "FAILED"}
        /\ record = "none" /\ packet = "none" /\ intent \in Intents /\ journal \in Intents
        /\ outages = 0 /\ misses = 0
    BY DEF Init, Intents
  <2> QED BY <2>1, <2>2, <2>3, <2>4, <2>5 DEF TypeOK
<1>2. ServicesAreTrue BY DEF Init, ServicesAreTrue
<1>3. MissIsHeard BY DEF Init, MissIsHeard
<1>4. BudgetIsEarned BY DEF Init, BudgetIsEarned, Ambiguous
<1>5. OffForAReason BY DEF Init, OffForAReason
<1>6. VerdictIsTrue BY DEF Init, VerdictIsTrue
<1> QED BY <1>1, <1>2, <1>3, <1>4, <1>5, <1>6 DEF IInv

LEMMA Capped ==
  ASSUME NEW n \in Nat
  PROVE /\ UpTo(n) \in 0..MaxMisses
        /\ n >= 1 => UpTo(n) >= 1
        /\ \A m \in Nat : m <= n => UpTo(m) <= UpTo(n)
BY StatusAssumption DEF UpTo

\* A read ends with a result it may report.
LEMMA FinishInvariant ==
  ASSUME IInv, read.pc # "idle", NEW result, NEW heard \in SUBSET Services,
         MayReport(result, heard), Finish(result, heard), outages' \in 0..MaxOutages
  PROVE IInv'
<1> DEFINE miss == Ambiguous(result)
<1>1. /\ read' = [pc |-> "idle", heard |-> heard, solver |-> "none"]
      /\ data' = result
      /\ streak' = [streak EXCEPT !.seen = FALSE]
      /\ UNCHANGED <<kind, record, packet, intent, refused, solver, journal, shown, polling>>
  BY DEF Finish, world
<1>2. misses' = IF miss THEN UpTo(misses + 1) ELSE 0 BY DEF Finish, MayReport
<1>3. /\ misses \in Nat /\ misses <= MaxMisses
      /\ streak \in [key : {"own", "other"}, seen : BOOLEAN, count : 0..MaxMisses]
  BY StatusAssumption DEF IInv, TypeOK
<1>4. misses' \in 0..MaxMisses /\ (miss => misses' >= 1)
  BY <1>2, <1>3, Capped, StatusAssumption
<1>5. /\ streak' \in [key : {"own", "other"}, seen : BOOLEAN, count : 0..MaxMisses]
      /\ streak'.key = streak.key /\ streak'.seen = FALSE /\ streak'.count = streak.count
  BY <1>1, <1>3
<1>6. TypeOK' BY <1>1, <1>4, <1>5 DEF IInv, TypeOK, MayReport, Results, Services
<1>7. BudgetIsEarned'
  <2>1. ASSUME streak.key = "own", miss PROVE UpTo(streak.count + 1) <= misses'
    <3>1. streak.seen /\ streak.count <= misses BY <2>1 DEF IInv, BudgetIsEarned
    <3>2. streak.count + 1 \in Nat /\ streak.count + 1 <= misses + 1 BY <3>1, <1>3, StatusAssumption
    <3> QED BY <3>2, <1>2, <1>3, <2>1, Capped
  <2> QED BY <1>1, <1>4, <1>5, <2>1 DEF BudgetIsEarned, Ambiguous, UpTo
<1>8. ServicesAreTrue' /\ MissIsHeard' BY <1>1 DEF IInv, ServicesAreTrue, MissIsHeard
<1>9. OffForAReason' BY <1>5 DEF OffForAReason
<1>10. VerdictIsTrue' BY <1>1 DEF VerdictIsTrue, MayReport
<1> QED BY <1>6, <1>7, <1>8, <1>9, <1>10 DEF IInv

\* A read goes on to its next question.
LEMMA ContinueInvariant ==
  ASSUME IInv, read.pc # "idle", NEW to \in Services, NEW heard \in SUBSET Services,
         NEW answer \in {"none", "NOT_FOUND", "inFlight", "lookupFailed"},
         Continue(to, heard, answer), outages' \in 0..MaxOutages,
         to = "journal" => answer # "none",
         to = "journal" /\ answer = "NOT_FOUND" => "solver" \in heard
  PROVE IInv'
<1>1. /\ read' = [pc |-> to, heard |-> heard, solver |-> answer]
      /\ UNCHANGED <<kind, record, packet, intent, refused, solver, journal, data, shown,
                     streak, polling, misses>>
  BY DEF Continue, world, poll
<1>2. TypeOK' BY <1>1 DEF IInv, TypeOK, Services
<1>3. MissIsHeard' BY <1>1 DEF MissIsHeard
<1>4. BudgetIsEarned' BY <1>1 DEF IInv, BudgetIsEarned, Ambiguous, UpTo
<1>5. ServicesAreTrue' /\ OffForAReason' /\ VerdictIsTrue'
  BY <1>1 DEF IInv, ServicesAreTrue, OffForAReason, VerdictIsTrue, Final
<1> QED BY <1>2, <1>3, <1>4, <1>5 DEF IInv

-----------------------------------------------------------------------------
(* The questions of a read.                                                 *)

LEMMA HeardTypes ==
  ASSUME IInv
  PROVE /\ read.heard \in SUBSET Services
        /\ \A s \in Services : Heard(s) \in SUBSET Services
        /\ Answers \/ Fails => outages' \in 0..MaxOutages
BY StatusAssumption DEF IInv, TypeOK, Heard, Services, Answers, Fails

LEMMA RecordInvariant == ASSUME IInv, ReadRecord PROVE IInv'
<1>1. read.pc # "idle" BY DEF ReadRecord, Asking
<1>2. CASE Answers /\ InUse /\ Finish(record, Heard("backend"))
  <2>1. MayReport(record, Heard("backend"))
    BY <1>2 DEF InUse, MayReport, Results, Final, Ambiguous
  <2> QED BY <1>1, <1>2, <2>1, HeardTypes, FinishInvariant DEF Services
<1>3. CASE Answers /\ Finish("rejectedKey", Heard("backend"))
  <2>1. MayReport("rejectedKey", Heard("backend"))
    BY DEF MayReport, Results, Ambiguous
  <2> QED BY <1>1, <1>3, <2>1, HeardTypes, FinishInvariant DEF Services
<1>4. ASSUME Answers \/ Fails, NEW heard \in SUBSET Services, AfterRecord(heard)
      PROVE IInv'
  <2> DEFINE to == IF kind = "hub" THEN "solver" ELSE "relay"
  <2>1. to \in Services /\ to # "journal" BY DEF Services
  <2>2. Continue(to, heard, "none") BY <1>4 DEF AfterRecord
  <2> HIDE DEF to
  <2> QED BY <1>1, <1>4, <2>1, <2>2, HeardTypes, ContinueInvariant
<1> QED BY <1>2, <1>3, <1>4, HeardTypes DEF ReadRecord, Services

LEMMA PacketsInvariant == ASSUME IInv, ReadPackets PROVE IInv'
<1>1. read.pc # "idle" BY DEF ReadPackets, Asking
<1>2. CASE Answers /\ ~Delivered /\ Finish(Miss(read.heard), Heard("relay"))
  <2>1. MayReport(Miss(read.heard), Heard("relay"))
    BY DEF Miss, MayReport, Results, Ambiguous, Witnesses, Heard
  <2> QED BY <1>1, <1>2, <2>1, HeardTypes, FinishInvariant DEF Services
<1>3. CASE Answers /\ Delivered /\ Finish("packet", Heard("relay"))
  <2>1. MayReport("packet", Heard("relay"))
    BY <1>3 DEF MayReport, Results, Final, Ambiguous, Delivered
  <2> QED BY <1>1, <1>3, <2>1, HeardTypes, FinishInvariant DEF Services
<1>4. CASE Answers /\ Continue("solver", Heard("relay"), "none")
  BY <1>1, <1>4, HeardTypes, ContinueInvariant DEF Services
<1>5. CASE Fails /\ Finish("lookupFailed", read.heard)
  <2>1. MayReport("lookupFailed", read.heard) BY DEF MayReport, Results, Ambiguous
  <2> QED BY <1>1, <1>5, <2>1, HeardTypes, FinishInvariant
<1> QED BY <1>2, <1>3, <1>4, <1>5 DEF ReadPackets

LEMMA SolverInvariant == ASSUME IInv, AskSolver PROVE IInv'
<1>1. read.pc # "idle" BY DEF AskSolver, Asking
<1>2. CASE Answers /\ SolverIsFinal /\ Finish(solver, Heard("solver"))
  <2>1. MayReport(solver, Heard("solver"))
    BY <1>2 DEF SolverIsFinal, MayReport, Results, Final, Ambiguous, IInv, ServicesAreTrue
  <2> QED BY <1>1, <1>2, <2>1, HeardTypes, FinishInvariant DEF Services
<1>3. CASE Answers /\ ~SolverIsFinal /\ Continue("journal", Heard("solver"), solver)
  <2>1. solver \in {"NOT_FOUND", "inFlight"} /\ "solver" \in Heard("solver")
    BY <1>3 DEF SolverIsFinal, IInv, TypeOK, Heard
  <2> QED BY <1>1, <1>3, <2>1, HeardTypes, ContinueInvariant DEF Services
<1>4. CASE Fails /\ Continue("journal", read.heard, "lookupFailed")
  BY <1>1, <1>4, HeardTypes, ContinueInvariant DEF Services
<1> QED BY <1>2, <1>3, <1>4 DEF AskSolver

LEMMA JournalInvariant == ASSUME IInv, ReadJournal PROVE IInv'
<1>1. read.pc = "journal" BY DEF ReadJournal, Asking
<1>2. read.solver \in {"NOT_FOUND", "inFlight", "lookupFailed"}
  BY <1>1 DEF IInv, TypeOK, MissIsHeard
<1> DEFINE known == IF JournalOutcome # "none" THEN JournalOutcome ELSE read.solver
<1>3. CASE Answers /\ Finish(known, Heard("journal"))
  <2>1. MayReport(known, Heard("journal"))
    BY <1>1, <1>2 DEF JournalOutcome, MayReport, Results, Final, Ambiguous, Witnesses, Heard,
                      IInv, ServicesAreTrue, MissIsHeard
  <2> HIDE DEF known
  <2> QED BY <1>1, <1>3, <2>1, HeardTypes, FinishInvariant DEF Services
<1>4. CASE Fails /\ Finish(Unverified(read.solver), read.heard)
  <2>1. MayReport(Unverified(read.solver), read.heard)
    BY <1>2 DEF Unverified, MayReport, Results, Ambiguous
  <2> QED BY <1>1, <1>4, <2>1, HeardTypes, FinishInvariant
<1> QED BY <1>3, <1>4 DEF ReadJournal

-----------------------------------------------------------------------------
(* The hook.                                                                *)

StreakTypes == [key : {"own", "other"}, seen : BOOLEAN, count : 0..MaxMisses]

\* What the hook makes of the last result: its own streak, counted.
LEMMA Counted ==
  ASSUME IInv
  PROVE /\ Advance(OwnStreak) \in StreakTypes
        /\ Advance(OwnStreak).key = "own" /\ Advance(OwnStreak).seen
        /\ Advance(OwnStreak).count <= misses
<1>1. /\ streak \in StreakTypes /\ misses \in Nat /\ 0 \in 0..MaxMisses
      /\ MaxMisses \in Nat \ {0}
  BY StatusAssumption DEF IInv, TypeOK, StreakTypes
<1>2. /\ OwnStreak \in StreakTypes /\ OwnStreak.key = "own"
      /\ OwnStreak.seen => OwnStreak.count <= misses
      /\ ~OwnStreak.seen /\ Ambiguous(data) => UpTo(OwnStreak.count + 1) <= misses
  <2>1. CASE streak.key = "own"
    BY <1>1, <2>1 DEF OwnStreak, IInv, BudgetIsEarned
  <2>2. CASE streak.key # "own"
    <3>1. OwnStreak = [key |-> "own", seen |-> data = "none", count |-> 0]
      BY <2>2 DEF OwnStreak
    <3>2. UpTo(0 + 1) = 1 BY <1>1 DEF UpTo
    <3>3. Ambiguous(data) => misses >= 1 BY DEF IInv, BudgetIsEarned
    <3>4. (data = "none") \in BOOLEAN OBVIOUS
    <3>5. OwnStreak \in StreakTypes BY <3>1, <3>4, <1>1 DEF StreakTypes
    <3>6. OwnStreak.key = "own" /\ OwnStreak.count = 0 BY <3>1
    <3> QED BY <3>2, <3>3, <3>5, <3>6, <1>1
  <2> QED BY <2>1, <2>2
<1> DEFINE s == OwnStreak
<1>3. CASE s.seen BY <1>2, <1>3 DEF Advance
<1>4. CASE ~s.seen
  <2> DEFINE n == IF Ambiguous(data) THEN UpTo(s.count + 1) ELSE 0
  <2>1. Advance(s) = [s EXCEPT !.seen = TRUE, !.count = n]
    BY <1>4, <1>2 DEF Advance, StreakTypes
  <2>2. s.count + 1 \in Nat BY <1>1, <1>2 DEF StreakTypes
  <2>3. n \in 0..MaxMisses /\ n <= misses BY <1>1, <1>2, <1>4, <2>2, Capped
  <2> HIDE DEF n, s
  <2> QED BY <2>1, <2>3, <1>2 DEF StreakTypes, s
<1> QED BY <1>3, <1>4

LEMMA EvaluateInvariant == ASSUME IInv, Evaluate PROVE IInv'
<1>1. /\ streak' = Advance(OwnStreak)
      /\ polling' = ~Stops(streak'.count)
      /\ UNCHANGED <<kind, record, packet, intent, refused, solver, journal, outages, read,
                     data, shown, misses>>
  BY DEF Evaluate, world
<1>2. /\ streak' \in StreakTypes /\ streak'.key = "own" /\ streak'.seen
      /\ streak'.count <= misses
  BY <1>1, Counted
<1>3. misses \in Nat /\ misses <= MaxMisses /\ MaxMisses \in Nat
  BY StatusAssumption DEF IInv, TypeOK
<1>4. polling' \in BOOLEAN BY <1>1
<1>5. TypeOK' BY <1>1, <1>2, <1>4 DEF IInv, TypeOK, StreakTypes
<1>6. BudgetIsEarned' BY <1>1, <1>2 DEF IInv, BudgetIsEarned, Ambiguous
<1>7. OffForAReason'
  BY <1>1, <1>2, <1>3 DEF OffForAReason, Stops, StreakTypes, Final
<1>8. ServicesAreTrue' /\ MissIsHeard' /\ VerdictIsTrue'
  BY <1>1 DEF IInv, ServicesAreTrue, MissIsHeard, VerdictIsTrue
<1> QED BY <1>5, <1>6, <1>7, <1>8 DEF IInv

LEMMA BeginInvariant == ASSUME IInv, BeginRead PROVE IInv'
<1>1. /\ read' = [pc |-> "backend", heard |-> {}, solver |-> "none"]
      /\ UNCHANGED <<kind, record, packet, intent, refused, solver, journal, outages, data,
                     shown, streak, polling, misses>>
  BY DEF BeginRead, world, poll
<1>2. streak.seen BY Counted DEF BeginRead, Evaluated
<1>3. TypeOK' BY <1>1 DEF IInv, TypeOK
<1>4. BudgetIsEarned' BY <1>1, <1>2 DEF IInv, BudgetIsEarned, Ambiguous, UpTo
<1>5. ServicesAreTrue' /\ MissIsHeard' /\ VerdictIsTrue' /\ OffForAReason'
  BY <1>1 DEF IInv, ServicesAreTrue, MissIsHeard, VerdictIsTrue, OffForAReason, Final
<1> QED BY <1>3, <1>4, <1>5 DEF IInv

\* The component shows another transfer, or its own again.
LEMMA ShowInvariant == ASSUME IInv, ShowOther \/ ShowOwn PROVE IInv'
<1>1. /\ shown' \in {"own", "other"}
      /\ streak' = streak \/ (streak' \in StreakTypes /\ streak'.key = "other" /\ streak'.seen)
      /\ UNCHANGED <<kind, record, packet, intent, refused, solver, journal, outages, read,
                     data, polling, misses>>
  <2>1. CASE ShowOther
    <3>1. PICK n \in 0..MaxMisses : streak' = [key |-> "other", seen |-> TRUE, count |-> n]
      BY <2>1 DEF ShowOther
    <3>2. streak' \in StreakTypes /\ streak'.key = "other" /\ streak'.seen
      BY <3>1 DEF StreakTypes
    <3> QED BY <2>1, <3>2 DEF ShowOther, world
  <2>2. CASE ShowOwn BY <2>2 DEF ShowOwn, world
  <2> QED BY <2>1, <2>2
<1>2. TypeOK' BY <1>1 DEF IInv, TypeOK, StreakTypes
<1>3. BudgetIsEarned' BY <1>1 DEF IInv, BudgetIsEarned, Ambiguous, UpTo
<1>4. ServicesAreTrue' /\ MissIsHeard' /\ VerdictIsTrue' /\ OffForAReason'
  BY <1>1 DEF IInv, ServicesAreTrue, MissIsHeard, VerdictIsTrue, OffForAReason, Final
<1> QED BY <1>2, <1>3, <1>4 DEF IInv

LEMMA EnvironmentInvariant == ASSUME IInv, Environment PROVE IInv'
<1>1. UNCHANGED <<kind, outages, read, data, shown, streak, polling, misses>>
  BY DEF Environment, RecordMoves, PacketMoves, IntentMoves, SolverMoves, JournalMoves,
         sdk, poll
<1>2. MissIsHeard' /\ BudgetIsEarned' /\ OffForAReason'
  BY <1>1 DEF IInv, MissIsHeard, BudgetIsEarned, OffForAReason, Ambiguous, UpTo, Final
<1>3. TypeOK' /\ ServicesAreTrue' /\ VerdictIsTrue'
  <2> USE <1>1 DEF IInv, TypeOK, ServicesAreTrue, VerdictIsTrue, Intents
  <2>1. CASE RecordMoves BY <2>1 DEF RecordMoves
  <2>2. CASE PacketMoves BY <2>2 DEF PacketMoves
  <2>3. CASE IntentMoves BY <2>3 DEF IntentMoves
  <2>4. CASE SolverMoves
    <3>1. UNCHANGED <<record, packet, intent, journal>> BY <2>4 DEF SolverMoves
    <3>2. /\ solver' \in {"NOT_FOUND", "inFlight", "SOLVED", "FAILED"}
          /\ refused' \in BOOLEAN /\ (refused => refused')
          /\ solver' = "SOLVED" => intent = "filled"
          /\ solver' = "FAILED" => refused'
      <4>1. CASE solver' = "FAILED" /\ refused' = TRUE BY <4>1
      <4>2. CASE refused' = refused /\ solver' \in {"inFlight", "NOT_FOUND"} BY <4>2
      <4>3. CASE refused' = refused /\ solver' = "SOLVED" /\ intent = "filled" BY <4>3
      <4> QED BY <2>4, <4>1, <4>2, <4>3 DEF SolverMoves
    <3> QED BY <3>1, <3>2
  <2>5. CASE JournalMoves BY <2>5 DEF JournalMoves
  <2> QED BY <2>1, <2>2, <2>3, <2>4, <2>5 DEF Environment
<1> QED BY <1>2, <1>3 DEF IInv

LEMMA NextInvariant == IInv /\ [Next]_vars => IInv'
<1> SUFFICES ASSUME IInv, [Next]_vars PROVE IInv' OBVIOUS
<1>1. CASE ReadStep
  BY <1>1, RecordInvariant, PacketsInvariant, SolverInvariant, JournalInvariant DEF ReadStep
<1>2. CASE Hook
  BY <1>2, EvaluateInvariant, BeginInvariant, ShowInvariant DEF Hook, Poll, Focus
<1>3. CASE Environment BY <1>3, EnvironmentInvariant
<1>4. CASE UNCHANGED vars
  <2> USE <1>4 DEF vars, world, poll, IInv
  <2>1. TypeOK' BY DEF TypeOK
  <2>2. ServicesAreTrue' /\ MissIsHeard' /\ VerdictIsTrue'
    BY DEF ServicesAreTrue, MissIsHeard, VerdictIsTrue
  <2>3. BudgetIsEarned' /\ OffForAReason'
    BY DEF BudgetIsEarned, OffForAReason, Ambiguous, UpTo, Final
  <2> QED BY <2>1, <2>2, <2>3
<1> QED BY <1>1, <1>2, <1>3, <1>4 DEF Next

-----------------------------------------------------------------------------
\* The inductive invariant holds however the services move and fail.
THEOREM Invariance == Spec => []IInv
BY InitInvariant, NextInvariant, PTL DEF Spec

\* The results and the hook's budget keep their types.
THEOREM TypeCorrect == Spec => []TypeOK
<1>1. IInv => TypeOK BY DEF IInv
<1> QED BY <1>1, Invariance, PTL

\* A final status that getDetailedStatus reports is true of the transfer.
THEOREM VerdictIsCorrect == Spec => []VerdictIsTrue
<1>1. IInv => VerdictIsTrue BY DEF IInv
<1> QED BY <1>1, Invariance, PTL

\* The hook stops polling only for a reason the sources confirmed.
THEOREM StopIsCorrect == Spec => []StopsForAReason
<1>1. IInv => StopsForAReason
  <2> SUFFICES ASSUME IInv, shown = "own", ~polling, Evaluated
               PROVE data \in Final \cup {"rejectedKey"} \/ misses = MaxMisses
    BY DEF StopsForAReason
  <2>1. streak.key = "own" /\ streak.seen BY Counted DEF Evaluated
  <2> QED BY <2>1 DEF IInv, OffForAReason
<1> QED BY <1>1, Invariance, PTL

-----------------------------------------------------------------------------
(* Verdicts over time.                                                      *)

\* The solver refuses nothing that is filled, and what it refused stays unfilled.
RefusedUnfilled == refused => intent # "filled"

Solved == data = "SOLVED"
Failed == data = "FAILED"
Filled == intent = "filled"
NeverFilled == refused \/ intent = "cancelled"

LEMMA RefusedStep ==
  IInv /\ RefusedUnfilled /\ [Next]_vars =>
    RefusedUnfilled' /\ (Filled => Filled') /\ (NeverFilled => NeverFilled')
<1> SUFFICES ASSUME IInv, RefusedUnfilled, [Next]_vars
             PROVE RefusedUnfilled' /\ (Filled => Filled') /\ (NeverFilled => NeverFilled')
  OBVIOUS
<1> USE DEF RefusedUnfilled, Filled, NeverFilled, sdk, world, poll
<1>1. CASE ReadStep \/ Hook \/ RecordMoves \/ JournalMoves \/ UNCHANGED vars
  <2>1. UNCHANGED <<intent, refused>>
    BY <1>1 DEF ReadStep, ReadRecord, ReadPackets, AskSolver, ReadJournal, Finish, AfterRecord,
                Continue, Hook, Evaluate, Poll, Focus, BeginRead, ShowOther, ShowOwn,
                RecordMoves, JournalMoves, vars
  <2> QED BY <2>1
<1>2. CASE PacketMoves
  BY <1>2 DEF PacketMoves, IInv, ServicesAreTrue, TypeOK
<1>3. CASE IntentMoves BY <1>3 DEF IntentMoves
<1>4. CASE SolverMoves BY <1>4 DEF SolverMoves
<1> QED BY <1>1, <1>2, <1>3, <1>4 DEF Next, Environment

\* However often a transfer is read, by polls, by focus and after a final status, no
\* read contradicts an earlier one: what was called solved is never called failed,
\* nor the other way round (getDetailedStatus).
THEOREM VerdictsAgree ==
  Spec => /\ [](Solved => []~Failed)
          /\ [](Failed => []~Solved)
<1>1. Init => RefusedUnfilled BY DEF Init, RefusedUnfilled
<1>2. Spec => []RefusedUnfilled BY <1>1, RefusedStep, Invariance, PTL DEF Spec
<1>3. IInv => (Solved => Filled) /\ (Failed => NeverFilled)
  BY DEF IInv, VerdictIsTrue, Solved, Failed, Filled, NeverFilled
<1>4. RefusedUnfilled => ~(Filled /\ NeverFilled)
  BY DEF RefusedUnfilled, Filled, NeverFilled
<1>5. IInv /\ RefusedUnfilled /\ [Next]_vars => (Filled => Filled') /\ (NeverFilled => NeverFilled')
  BY RefusedStep
<1> QED BY <1>2, <1>3, <1>4, <1>5, Invariance, PTL DEF Spec
=============================================================================
