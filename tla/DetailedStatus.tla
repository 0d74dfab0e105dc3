--------------------------- MODULE DetailedStatus ---------------------------
(***************************************************************************)
(* The status of one transfer, polled from its source transaction:         *)
(* getDetailedStatus of swap and leverage yield (one read asks the         *)
(* backend's submit-tx record, the relay, the solver and the backend's     *)
(* intent journal, one after the other) and of bridge (the first two),     *)
(* under the dapp-kit hook that polls it, stops on a terminal answer or a   *)
(* rejected key, and gives up after MaxMisses ambiguous reads in a row.     *)
(*                                                                         *)
(* The services move between the questions of a read.  The solver keeps    *)
(* its intents in memory and forgets them in a restart; the journal        *)
(* follows the hub with a delay.                                           *)
(***************************************************************************)
EXTENDS Naturals

CONSTANTS
  MaxMisses,    \* MAX_NOT_FOUND_POLLS
  MaxOutages    \* bound: questions left unanswered

ASSUME StatusAssumption == MaxMisses \in Nat \ {0} /\ MaxOutages \in Nat

VARIABLES
  kind,      \* "spoke" or "hub": a swap, by its source chain; or a "bridge"
  record,    \* the backend's submit-tx record
  packet,    \* relay packets of the source transaction
  intent,    \* the intent on the hub
  refused,   \* the solver decided not to fill it
  solver,    \* what the solver would answer now
  journal,   \* the intent as the backend's journal has it
  outages,   \* questions left unanswered so far
  read,      \* the read in flight: its question, who answered, the solver's answer
  data,      \* the last result, in the query cache
  shown,     \* whose status the component shows: its "own" transfer or an "other"
  streak,    \* the ref of the miss budget; seen: it counted the last result
  polling,   \* the refetch interval is on
  misses     \* history: verified misses in a row, up to MaxMisses

world == <<record, packet, intent, refused, solver, journal>>
poll == <<shown, streak, polling>>
vars == <<kind, world, outages, read, data, poll, misses>>

Init ==
  /\ kind \in {"spoke", "hub", "bridge"}
  /\ record = "none" /\ packet = "none"
  /\ intent = "none" /\ refused = FALSE
  /\ solver = "NOT_FOUND" /\ journal = "none"
  /\ outages = 0
  /\ read = [pc |-> "idle", heard |-> {}, solver |-> "none"]
  /\ data = "none"
  /\ shown = "own" /\ streak = [key |-> "own", seen |-> TRUE, count |-> 0]
  /\ polling = TRUE
  /\ misses = 0

-----------------------------------------------------------------------------
(* One read.                                                                *)

Ambiguous(result) == result \in {"NOT_FOUND", "notDelivered"}

\* The sources whose silence would leave a miss of this form unproven.
Witnesses(result) ==
  IF result = "NOT_FOUND" THEN {"solver", "journal"} ELSE {"backend", "relay"}

UpTo(n) == IF n > MaxMisses THEN MaxMisses ELSE n

Finish(result, heard) ==
  /\ read' = [pc |-> "idle", heard |-> heard, solver |-> "none"]
  /\ data' = result
  /\ streak' = [streak EXCEPT !.seen = FALSE]
  /\ misses' = IF Ambiguous(result) /\ Witnesses(result) \subseteq heard
               THEN UpTo(misses + 1) ELSE 0
  /\ UNCHANGED <<kind, world, shown, polling>>

Continue(to, heard, answer) ==
  /\ read' = [pc |-> to, heard |-> heard, solver |-> answer]
  /\ UNCHANGED <<kind, world, data, poll, misses>>

Asking(service) == read.pc = service
Heard(service) == read.heard \cup {service}
Answers == UNCHANGED outages
Fails == outages < MaxOutages /\ outages' = outages + 1

\* Slip: a record the backend gave up on is an answer.
AnyRecord == record # "none"

\* A failed or abandoned record never heals: it is no answer.
InUse == record \in {"inPlay", "done"}

AfterRecord(heard) == Continue(IF kind = "hub" THEN "solver" ELSE "relay", heard, "none")

ReadRecord ==
  /\ Asking("backend")
  /\ \/ Answers /\ InUse /\ Finish(record, Heard("backend"))
     \/ Answers /\ Finish("rejectedKey", Heard("backend"))
     \/ Answers /\ ~InUse /\ AfterRecord(Heard("backend"))
     \/ Fails /\ AfterRecord(read.heard)

\* The packet must be one of the source transaction and executed.
Delivered == packet = "executed"

\* Behind a backend outage a relay miss proves nothing.
Miss(heard) == IF "backend" \in heard THEN "notDelivered" ELSE "lookupFailed"

ReadPackets ==
  /\ Asking("relay")
  /\ \/ Answers /\ ~Delivered /\ Finish(Miss(read.heard), Heard("relay"))
     \/ Answers /\ Delivered /\ kind = "bridge" /\ Finish("packet", Heard("relay"))
     \/ Answers /\ Delivered /\ kind # "bridge"
        /\ Continue("solver", Heard("relay"), "none")
     \/ Fails /\ Finish("lookupFailed", read.heard)

\* Slip: only a forgotten intent is looked up in the journal.
InFlightStands == solver \in {"SOLVED", "FAILED", "inFlight"}

SolverIsFinal == solver \in {"SOLVED", "FAILED"}

AskSolver ==
  /\ Asking("solver")
  /\ \/ Answers /\ SolverIsFinal /\ Finish(solver, Heard("solver"))
     \/ Answers /\ ~SolverIsFinal /\ Continue("journal", Heard("solver"), solver)
     \/ Fails /\ Continue("journal", read.heard, "lookupFailed")

\* Slip: a fill is a fill, whatever input remains; a cancel is a cancel.
AnyEvent == CASE journal \in {"filled", "partly", "partlyCancelled"} -> "SOLVED"
              [] journal = "cancelled" -> "FAILED"
              [] OTHER -> "none"

\* Solved needs the fill that consumed the rest, cancelled that nothing was filled.
JournalOutcome == IF journal = "filled" THEN "SOLVED"
                  ELSE IF journal = "cancelled" THEN "FAILED" ELSE "none"

\* The solver's answer behind a journal that could not be read.
Unverified(answer) == IF answer = "NOT_FOUND" THEN "lookupFailed" ELSE answer

ReadJournal ==
  /\ Asking("journal")
  /\ \/ /\ Answers
        /\ Finish(IF JournalOutcome # "none" THEN JournalOutcome ELSE read.solver,
                  Heard("journal"))
     \/ Fails /\ Finish(Unverified(read.solver), read.heard)

ReadStep == ReadRecord \/ ReadPackets \/ AskSolver \/ ReadJournal

-----------------------------------------------------------------------------
(* The hook.                                                                *)

Final == {"done", "SOLVED", "FAILED", "packet"}

\* Slip: a new key inherits the count of the previous one.
KeyIgnored == streak

\* advanceNotFoundStreak: another transfer starts its own streak.
OwnStreak == IF streak.key = "own" THEN streak
             ELSE [key |-> "own", seen |-> data = "none", count |-> 0]

\* One result counts once, however often React Query asks for the interval.
Advance(s) == IF s.seen THEN s
              ELSE [s EXCEPT !.seen = TRUE,
                             !.count = IF Ambiguous(data) THEN UpTo(@ + 1) ELSE 0]

\* Slip: what the relay has not delivered spends no budget.
OnlyNotFoundStops(count) == \/ data \in Final \cup {"rejectedKey"}
                            \/ data = "NOT_FOUND" /\ count >= MaxMisses

Stops(count) == \/ data \in Final \cup {"rejectedKey"}
                \/ Ambiguous(data) /\ count >= MaxMisses

Evaluated == streak = Advance(OwnStreak)

\* refetchInterval; it runs on every result and on every render.
Evaluate ==
  /\ shown = "own"
  /\ streak' = Advance(OwnStreak)
  /\ polling' = ~Stops(streak'.count)
  /\ UNCHANGED <<kind, world, outages, read, data, shown, misses>>

BeginRead ==
  /\ shown = "own" /\ Evaluated /\ read.pc = "idle"
  /\ read' = [pc |-> "backend", heard |-> {}, solver |-> "none"]
  /\ UNCHANGED <<kind, world, outages, data, poll, misses>>

Poll == polling /\ BeginRead

\* The window gets the focus, or a component mounts: React Query reads again.
Focus == ~polling /\ BeginRead

\* The component turns to another transfer, which has its own budget, and back.
ShowOther == /\ shown = "own" /\ shown' = "other"
             /\ \E n \in 0..MaxMisses : streak' = [key |-> "other", seen |-> TRUE, count |-> n]
             /\ UNCHANGED <<kind, world, outages, read, data, polling, misses>>
ShowOwn == /\ shown = "other" /\ shown' = "own"
           /\ UNCHANGED <<kind, world, outages, read, data, streak, polling, misses>>

-----------------------------------------------------------------------------
(* The services.                                                            *)

sdk == <<kind, outages, read, data, poll, misses>>

\* The backend claims what it has seen come true; anything else it may give up.
Reached == IF kind = "bridge" THEN packet = "executed" ELSE intent = "filled"
RecordMoves == /\ \/ record = "none" /\ record' = "inPlay"
                  \/ record = "inPlay" /\ record' = "givenUp"
                  \/ record = "inPlay" /\ Reached /\ record' = "done"
               /\ UNCHANGED <<packet, intent, refused, solver, journal, sdk>>

\* A packet of a sibling transaction may be in the relay's answer before our own.
PacketMoves == /\ kind # "hub"
               /\ \/ packet = "none" /\ packet' = "sibling" /\ UNCHANGED intent
                  \/ /\ packet # "executed" /\ packet' = "executed"
                     /\ intent' = IF kind = "bridge" THEN intent ELSE "open"
               /\ UNCHANGED <<record, refused, solver, journal, sdk>>

IntentMoves == /\ \/ kind = "hub" /\ intent = "none" /\ intent' = "open"
                  \/ intent = "open" /\ ~refused /\ intent' \in {"partly", "filled"}
                  \/ intent = "partly" /\ ~refused /\ intent' = "filled"
                  \/ intent = "open" /\ intent' = "cancelled"
                  \/ intent = "partly" /\ intent' = "partlyCancelled"
               /\ UNCHANGED <<record, packet, refused, solver, journal, sdk>>

\* It learns of an intent, fills it or decides not to, and forgets in a restart.
SolverMoves ==
  /\ \/ solver = "NOT_FOUND" /\ intent # "none" /\ solver' = "inFlight" /\ UNCHANGED refused
     \/ solver = "inFlight" /\ intent = "filled" /\ solver' = "SOLVED" /\ UNCHANGED refused
     \/ /\ solver = "inFlight" /\ intent \in {"open", "partly"}
        /\ solver' = "FAILED" /\ refused' = TRUE
     \/ solver # "NOT_FOUND" /\ solver' = "NOT_FOUND" /\ UNCHANGED refused
  /\ UNCHANGED <<record, packet, intent, journal, sdk>>

JournalMoves == /\ journal # intent /\ journal' = intent
                /\ UNCHANGED <<record, packet, intent, refused, solver, sdk>>

Hook == Evaluate \/ Poll \/ Focus \/ ShowOther \/ ShowOwn
Environment == RecordMoves \/ PacketMoves \/ IntentMoves \/ SolverMoves \/ JournalMoves

Next == ReadStep \/ Hook \/ Environment

\* Every question ends, by an answer or by its timeout, and the interval ticks.
Spec == /\ Init /\ [][Next]_vars
        /\ WF_vars(ReadStep) /\ WF_vars(Evaluate) /\ WF_vars(Poll)

-----------------------------------------------------------------------------
Intents == {"none", "open", "partly", "filled", "cancelled", "partlyCancelled"}

\* A failed or abandoned record is never among the results.
TypeOK ==
  /\ kind \in {"spoke", "hub", "bridge"}
  /\ record \in {"none", "inPlay", "givenUp", "done"}
  /\ packet \in {"none", "sibling", "executed"}
  /\ intent \in Intents /\ journal \in Intents /\ refused \in BOOLEAN
  /\ solver \in {"NOT_FOUND", "inFlight", "SOLVED", "FAILED"}
  /\ outages \in 0..MaxOutages
  /\ read.pc \in {"idle", "backend", "relay", "solver", "journal"}
  /\ read.heard \subseteq {"backend", "relay", "solver", "journal"}
  /\ read.solver \in {"none", "NOT_FOUND", "inFlight", "lookupFailed"}
  /\ data \in Final \cup {"none", "inPlay", "rejectedKey", "lookupFailed",
                          "notDelivered", "NOT_FOUND", "inFlight"}
  /\ shown \in {"own", "other"} /\ polling \in BOOLEAN
  /\ streak \in [key : {"own", "other"}, seen : BOOLEAN, count : 0..MaxMisses]
  /\ misses \in 0..MaxMisses

\* A final status is true of the transfer, however the services moved during the
\* read: solved means filled to the end, failed that the solver refused the intent or
\* that it was cancelled with nothing filled, delivered that its own packet executed.
VerdictIsTrue ==
  /\ data = "SOLVED" => intent = "filled"
  /\ data = "FAILED" => refused \/ intent = "cancelled"
  /\ data = "packet" => packet = "executed"

\* Polling stops only for a final status, a rejected key, or MaxMisses reads in a row
\* that each ended in a miss the sources themselves confirmed: no outage, no second
\* look at one result and no other transfer's count is charged to this one.
StopsForAReason ==
  shown = "own" /\ ~polling /\ read.pc = "idle" /\ Evaluated =>
    \/ data \in Final \cup {"rejectedKey"}
    \/ misses = MaxMisses

\* A transfer that no source ever hears of is not polled forever.
LostTransferStops ==
  <>[](kind # "hub" /\ packet # "executed" /\ record # "inPlay" /\ shown = "own")
    => []<>~polling

\* A cancelled intent ends its poll although the solver goes on calling it in flight.
CancelEndsPoll ==
  journal = "cancelled" /\ record # "inPlay"
    ~> ~polling \/ shown = "other" \/ record = "inPlay"

-----------------------------------------------------------------------------
(* What a comment of the code says and the code does not keep.              *)

\* notFoundStreak: a dependency that fails right now keeps the poll of a healthy
\* transfer going.  A submit-tx endpoint that is down does not, once the solver is
\* asked: the budget is spent on a transfer whose record is in play.
OutageSpendsNothing ==
  [][ /\ read.pc = "idle" /\ streak.key = "own" /\ streak'.key = "own"
      /\ record = "inPlay" /\ streak'.count > streak.count
      => "backend" \in read.heard ]_vars
=============================================================================
