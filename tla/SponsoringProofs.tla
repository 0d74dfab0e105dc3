-------------------------- MODULE SponsoringProofs --------------------------
(***************************************************************************)
(* Proofs of the invariants of Sponsoring for every number of calls,       *)
(* requests, versions, sequence numbers and retries.  The inductive        *)
(* invariant adds to them that the registered request is never older than  *)
(* the last forced refresh, and that only an ended call that has signed    *)
(* has been told of a conflict.                                            *)
(***************************************************************************)
EXTENDS Sponsoring, TLAPS

Registered == inflight = 0 \/ inflight >= forced
OnlyEndedHaveResults ==
  \A c \in Calls : /\ result[c] = "conflict" => pc[c] = "done" /\ attempt[c] \in Attempts
                   /\ pc[c] \in {"builds", "signs", "submits"} => attempt[c] \in Attempts

IInv ==
  /\ TypeOK
  /\ Registered
  /\ OnlyEndedHaveResults
  /\ RefreshSupersedes
  /\ NewestIsRegistered
  /\ ResignsOnlyDead

-----------------------------------------------------------------------------
(* Types.                                                                   *)

LEMMA InitTypes == Init => TypeOK
<1> SUFFICES ASSUME Init PROVE TypeOK
  OBVIOUS
<1> USE SponsoringAssumption
<1>1. /\ asked = 0 /\ cache = 0 /\ fresh = FALSE /\ inflight = 0 /\ forced = 0
      /\ exists \in BOOLEAN /\ sponsorSeq = 0 /\ published = 1
  BY DEF Init
<1>2. 0 \in 0..MaxRequests /\ 0 \in 0..0 /\ 1 \in Versions /\ 0 \in Nat /\ 0 \in 0..MaxVersion
      /\ 0 \in 0..2 /\ 0 \in 0..MaxRetries
  BY DEF Versions
<1>3. /\ stage \in [Requests -> {"unused", "asked", "answered", "settled", "closed"}]
      /\ version \in [Requests -> 0..MaxVersion]
  BY <1>2 DEF Init
<1>4. /\ pc \in [Calls -> {"idle", "waits", "configured", "builds", "signs", "submits", "done"}]
      /\ goal \in [Calls -> {"config", "activation"}]
  BY DEF Init
<1>5. config \in [Calls -> 0..0] /\ attempt \in [Calls -> 0..2] /\ floor \in [Calls -> 0..0]
  BY <1>2 DEF Init
<1>6. /\ sequence \in [Calls -> [Attempts -> Nat]] /\ retries \in [Calls -> 0..MaxRetries]
      /\ hint \in [Calls -> Nat \union {-1}]
  BY <1>2 DEF Init
<1>7. /\ result \in [Calls -> {"none", "failed", "thrown", "config", "submitted",
                               "alreadyActive", "unavailable", "badConfig", "conflict", "other"}]
      /\ tx \in [Calls -> [Attempts -> {"none", "posted", "cosigned", "applied"}]]
  BY DEF Init
<1>8. QED
  BY <1>1, <1>2, <1>3, <1>4, <1>5, <1>6, <1>7 DEF TypeOK

\* A fetch makes room for one more number, under which all numbers in use stay.
LEMMA AskTypes ==
  ASSUME TypeOK, NEW c \in Calls, Ask(c)
  PROVE  /\ asked' \in 0..MaxRequests /\ asked' = asked + 1 /\ inflight' \in 0..asked'
         /\ asked' \in Requests
         /\ stage' \in [Requests -> {"unused", "asked", "answered", "settled", "closed"}]
         /\ config' \in [Calls -> 0..asked']
         /\ pc' \in [Calls -> {"idle", "waits", "configured", "builds", "signs", "submits", "done"}]
<1> USE SponsoringAssumption DEF TypeOK, Requests
<1>1. /\ asked' \in 0..MaxRequests /\ asked' = asked + 1 /\ inflight' \in 0..asked'
      /\ asked' \in Requests
  BY DEF Ask
<1>2. stage' \in [Requests -> {"unused", "asked", "answered", "settled", "closed"}]
  BY <1>1 DEF Ask
<1>3. config' \in [Calls -> 0..asked']
  BY <1>1 DEF Ask
<1>4. pc' \in [Calls -> {"idle", "waits", "configured", "builds", "signs", "submits", "done"}]
  BY DEF Ask
<1>5. QED
  BY <1>1, <1>2, <1>3, <1>4

\* The cache part of the type invariant, for a call's first step.
LEMMA StartCaching ==
  ASSUME TypeOK, NEW c \in Calls, Start(c)
  PROVE  /\ asked' \in 0..MaxRequests /\ asked' \in {asked, asked + 1}
         /\ cache' \in 0..asked' /\ inflight' \in 0..asked' /\ forced' \in 0..asked'
         /\ stage' \in [Requests -> {"unused", "asked", "answered", "settled", "closed"}]
         /\ config' \in [Calls -> 0..asked']
         /\ pc' \in [Calls -> {"idle", "waits", "configured", "builds", "signs", "submits", "done"}]
<1>1. CASE ForceRefresh(c)
  BY <1>1, AskTypes, SponsoringAssumption DEF ForceRefresh, TypeOK
<1>2. CASE /\ Cached
           /\ config' = [config EXCEPT ![c] = cache]
           /\ pc' = [pc EXCEPT ![c] = "configured"]
           /\ UNCHANGED <<cache, inflight, asked, stage, forced>>
  BY <1>2 DEF TypeOK
<1>3. CASE /\ ~Cached /\ inflight # 0
           /\ config' = [config EXCEPT ![c] = inflight]
           /\ pc' = [pc EXCEPT ![c] = "waits"]
           /\ UNCHANGED <<cache, inflight, asked, stage, forced>>
  BY <1>3 DEF TypeOK
<1>4. CASE Ask(c) /\ UNCHANGED <<cache, forced>>
  BY <1>4, AskTypes, SponsoringAssumption DEF TypeOK
<1>5. QED
  BY <1>1, <1>2, <1>3, <1>4 DEF Start, Lookup

LEMMA StartTypes ==
  ASSUME TypeOK, NEW c \in Calls, Start(c)
  PROVE  TypeOK'
<1>1. goal' \in [Calls -> {"config", "activation"}]
  BY DEF Start, TypeOK
<1>2. floor' \in [Calls -> 0..asked']
  <2>1. asked \in Nat /\ asked' \in {asked, asked + 1} /\ forced' \in 0..asked'
    BY StartCaching, SponsoringAssumption DEF TypeOK
  <2>2. 0..asked \subseteq 0..asked'
    BY <2>1
  <2>3. floor \in [Calls -> 0..asked'] /\ floor' = [floor EXCEPT ![c] = forced']
    BY <2>2 DEF Start, TypeOK
  <2>4. QED
    BY <2>1, <2>3
<1>3. UNCHANGED <<fresh, version, attempt, sequence, retries, hint, result,
                  tx, exists, sponsorSeq, published>>
  BY DEF Start, ledger
<1>4. QED
  BY <1>1, <1>2, <1>3, StartCaching DEF TypeOK

\* The other steps of a call.
LEMMA CallTypes ==
  ASSUME TypeOK, NEW c \in Calls,
         \/ Receive(c) \/ Configured(c) \/ CheckAccount(c)
         \/ Build(c) \/ Sign(c) \/ Hear(c)
  PROVE  TypeOK'
<1> USE SponsoringAssumption DEF TypeOK, caching, ledger, Return
<1>1. CASE Receive(c)
  BY <1>1 DEF Receive
<1>2. CASE Configured(c)
  BY <1>2 DEF Configured
<1>3. CASE CheckAccount(c)
  <2>1. CASE Return(c, "alreadyActive") /\ UNCHANGED attempt
    BY <1>3, <2>1 DEF CheckAccount
  <2>2. CASE /\ pc' = [pc EXCEPT ![c] = "builds"]
             /\ attempt' = [attempt EXCEPT ![c] = 1]
             /\ UNCHANGED result
    BY <1>3, <2>2 DEF CheckAccount
  <2>3. QED
    BY <1>3, <2>1, <2>2 DEF CheckAccount
<1>4. CASE Build(c)
  <2>1. attempt[c] \in Attempts \/ attempt[c] = 0
    BY DEF Attempts
  <2>2. sequence' \in [Calls -> [Attempts -> Nat]]
    <3> DEFINE next == 1 + (IF hint[c] = -1 THEN sponsorSeq ELSE hint[c])
    <3>1. sequence \in [Calls -> [Attempts -> Nat]] /\ next \in Nat
      OBVIOUS
    <3>2. sequence' = sequence \/ sequence' = [sequence EXCEPT ![c][attempt[c]] = next]
      BY <1>4 DEF Build, Abandon, Thrown
    <3> HIDE DEF next, TypeOK
    <3>3. QED
      BY <3>1, <3>2
  <2>3. hint' = [hint EXCEPT ![c] = -1]
    BY <1>4 DEF Build
  <2>4. CASE Abandon(c)
    BY <1>4, <2>2, <2>3, <2>4 DEF Build, Abandon, Thrown
  <2>5. CASE pc' = [pc EXCEPT ![c] = "signs"] /\ UNCHANGED result
    BY <1>4, <2>2, <2>3, <2>5 DEF Build
  <2>6. QED
    BY <1>4, <2>4, <2>5 DEF Build
<1>5. CASE Sign(c)
  <2>1. CASE Abandon(c) /\ UNCHANGED <<retries, tx>>
    BY <1>5, <2>1 DEF Sign, Abandon, Thrown
  <2>2. CASE /\ pc' = [pc EXCEPT ![c] = "submits"]
             /\ retries' = [retries EXCEPT ![c] = MaxRetries]
             /\ tx' = [tx EXCEPT ![c][attempt[c]] = "posted"]
             /\ UNCHANGED result
    <3>1. tx' \in [Calls -> [Attempts -> {"none", "posted", "cosigned", "applied"}]]
      BY <2>2
    <3>2. retries' \in [Calls -> 0..MaxRetries]
      BY <2>2
    <3>3. QED
      BY <1>5, <2>2, <3>1, <3>2 DEF Sign, Abandon, Thrown
  <2>3. QED
    BY <1>5, <2>1, <2>2 DEF Sign, Abandon, Thrown
<1>6. CASE Hear(c)
  <2>1. CASE Retry(c)
    BY <1>6, <2>1 DEF Hear, Retry, MayRetry
  <2>2. CASE Resign(c)
    BY <1>6, <2>2 DEF Hear, Resign
  <2>3. CASE Conclude(c)
    BY <1>6, <2>3 DEF Hear, Conclude, Heard
  <2>4. QED
    BY <1>6, <2>1, <2>2, <2>3 DEF Hear
<1>7. QED
  BY <1>1, <1>2, <1>3, <1>4, <1>5, <1>6

LEMMA OtherTypes ==
  ASSUME TypeOK,
         (\E r \in Requests : RequestStep(r)) \/ Expire \/ Network \/ UNCHANGED vars
  PROVE  TypeOK'
<1> USE SponsoringAssumption DEF TypeOK, caching, ledger, control
<1>1. ASSUME NEW r \in Requests, Answer(r) PROVE TypeOK'
  BY <1>1 DEF Answer, Versions
<1>2. ASSUME NEW r \in Requests, Fill(r) PROVE TypeOK'
  BY <1>2 DEF Fill, MayFill, Requests
<1>3. ASSUME NEW r \in Requests, Close(r) PROVE TypeOK'
  BY <1>3 DEF Close, Unregister
<1>4. CASE Expire
  BY <1>4 DEF Expire
<1>5. ASSUME NEW c \in Calls, NEW a \in Attempts, Cosign(c, a) PROVE TypeOK'
  BY <1>5 DEF Cosign
<1>6. ASSUME NEW c \in Calls, NEW a \in Attempts, Apply(c, a) PROVE TypeOK'
  BY <1>6 DEF Apply
<1>7. CASE OtherActivation
  BY <1>7 DEF OtherActivation
<1>8. CASE Rotate
  BY <1>8 DEF Rotate, Versions
<1>9. CASE UNCHANGED vars
  BY <1>9 DEF vars
<1>10. QED
  BY <1>1, <1>2, <1>3, <1>4, <1>5, <1>6, <1>7, <1>8, <1>9 DEF RequestStep, Network

-----------------------------------------------------------------------------
(* The config cache.                                                        *)

LEMMA InitInvariant == Init => IInv
<1> SUFFICES ASSUME Init PROVE IInv
  OBVIOUS
<1>1. /\ cache = 0 /\ inflight = 0 /\ asked = 0 /\ pc = [c \in Calls |-> "idle"]
      /\ attempt = [c \in Calls |-> 0] /\ result = [c \in Calls |-> "none"]
  BY DEF Init
<1>2. Registered /\ OnlyEndedHaveResults /\ RefreshSupersedes /\ NewestIsRegistered
      /\ ResignsOnlyDead
  BY <1>1 DEF Registered, OnlyEndedHaveResults, RefreshSupersedes, NewestIsRegistered,
              ResignsOnlyDead
<1>3. QED
  BY <1>2, InitTypes DEF IInv

\* A call's first step: it takes the cached config, joins the registered request or
\* asks anew, and each of these is at least as new as the last forced refresh.
LEMMA StartSupersedes ==
  ASSUME IInv, NEW c \in Calls, Start(c)
  PROVE  Registered' /\ RefreshSupersedes' /\ NewestIsRegistered'
<1> USE SponsoringAssumption DEF IInv, TypeOK
<1>1. /\ asked' \in Nat /\ inflight' \in Nat /\ forced' \in Nat /\ forced \in Nat /\ asked \in Nat
  BY StartCaching
<1>2. floor' = [floor EXCEPT ![c] = forced']
  BY DEF Start
<1>3. ASSUME config'[c] >= forced',
             \A d \in Calls \ {c} : config'[d] = config[d] /\ pc'[d] = pc[d],
             cache' = 0 \/ (cache' = cache /\ forced' = forced)
      PROVE  RefreshSupersedes'
  <2>1. cache' = 0 \/ cache' >= forced'
    BY <1>3 DEF RefreshSupersedes
  <2>2. ASSUME NEW d \in Calls, pc'[d] # "idle" PROVE config'[d] >= floor'[d]
    <3>1. CASE d = c
      BY <1>2, <1>3, <3>1
    <3>2. CASE d # c
      BY <1>2, <1>3, <2>2, <3>2 DEF RefreshSupersedes
    <3>3. QED
      BY <3>1, <3>2
  <2>3. QED
    BY <2>1, <2>2 DEF RefreshSupersedes
<1>4. CASE ForceRefresh(c)
  <2>1. /\ inflight' = asked + 1 /\ asked' = asked + 1 /\ forced' = asked + 1 /\ cache' = 0
        /\ config' = [config EXCEPT ![c] = asked + 1] /\ pc' = [pc EXCEPT ![c] = "waits"]
    BY <1>4 DEF ForceRefresh, Ask
  <2>2. config'[c] >= forced'
    BY <1>1, <2>1
  <2>3. \A d \in Calls \ {c} : config'[d] = config[d] /\ pc'[d] = pc[d]
    BY <2>1
  <2>4. cache' = 0 \/ (cache' = cache /\ forced' = forced)
    BY <2>1
  <2>5. RefreshSupersedes'
    BY <1>3, <2>2, <2>3, <2>4
  <2>6. QED
    BY <1>1, <2>1, <2>5 DEF Registered, NewestIsRegistered
<1>5. CASE Cached /\ config' = [config EXCEPT ![c] = cache]
           /\ pc' = [pc EXCEPT ![c] = "configured"]
           /\ UNCHANGED <<cache, inflight, asked, stage, forced>>
  <2>1. cache >= forced
    BY <1>5 DEF Cached, RefreshSupersedes
  <2>2. RefreshSupersedes'
    BY <1>1, <1>3, <1>5, <2>1
  <2>3. QED
    BY <1>5, <2>2 DEF Registered, NewestIsRegistered
<1>6. CASE /\ ~Cached /\ inflight # 0
           /\ config' = [config EXCEPT ![c] = inflight]
           /\ pc' = [pc EXCEPT ![c] = "waits"]
           /\ UNCHANGED <<cache, inflight, asked, stage, forced>>
  <2>1. inflight >= forced
    BY <1>6 DEF Registered
  <2>2. RefreshSupersedes'
    BY <1>1, <1>3, <1>6, <2>1
  <2>3. QED
    BY <1>6, <2>2 DEF Registered, NewestIsRegistered
<1>7. CASE ~Cached /\ inflight = 0 /\ Ask(c) /\ UNCHANGED <<cache, forced>>
  <2>1. /\ inflight' = asked + 1 /\ asked' = asked + 1 /\ forced' = forced /\ cache' = cache
        /\ config' = [config EXCEPT ![c] = asked + 1] /\ pc' = [pc EXCEPT ![c] = "waits"]
    BY <1>7 DEF Ask
  <2>2. RefreshSupersedes'
    BY <1>1, <1>3, <2>1
  <2>3. QED
    BY <1>1, <2>1, <2>2 DEF Registered, NewestIsRegistered
<1>8. QED
  BY <1>4, <1>5, <1>6, <1>7 DEF Start, Lookup

\* The answer, the `then` and the `finally` of a request.
LEMMA RequestSupersedes ==
  ASSUME IInv, NEW r \in Requests, RequestStep(r)
  PROVE  Registered' /\ RefreshSupersedes' /\ NewestIsRegistered'
<1> USE SponsoringAssumption DEF IInv, TypeOK, control, Requests
<1>1. CASE Answer(r)
  BY <1>1 DEF Answer, Registered, RefreshSupersedes, NewestIsRegistered
<1>2. CASE Fill(r)
  <2>1. Registered' /\ NewestIsRegistered'
    BY <1>2 DEF Fill, Registered, NewestIsRegistered
  <2>2. cache' = 0 \/ cache' >= forced'
    BY <1>2 DEF Fill, MayFill, Registered, RefreshSupersedes
  <2>3. QED
    BY <1>2, <2>1, <2>2 DEF Fill, RefreshSupersedes
<1>3. CASE Close(r)
  <2>1. Registered' /\ RefreshSupersedes'
    BY <1>3 DEF Close, Unregister, Registered, RefreshSupersedes
  <2>2. NewestIsRegistered'
    BY <1>3 DEF Close, Unregister, NewestIsRegistered
  <2>3. QED
    BY <2>1, <2>2
<1>4. QED
  BY <1>1, <1>2, <1>3 DEF RequestStep

LEMMA CallSupersedes ==
  ASSUME IInv, NEW c \in Calls,
         \/ Receive(c) \/ Configured(c) \/ CheckAccount(c)
         \/ Build(c) \/ Sign(c) \/ Hear(c)
  PROVE  Registered' /\ RefreshSupersedes' /\ NewestIsRegistered'
<1>1. /\ UNCHANGED <<inflight, asked, stage, config, forced, floor>>
      /\ cache' \in {0, cache}
      /\ \A d \in Calls : pc'[d] # "idle" => pc[d] # "idle"
  <2> USE DEF IInv, TypeOK, caching, Return
  <2>1. CASE Receive(c)
    BY <2>1 DEF Receive
  <2>2. CASE Configured(c)
    BY <2>2 DEF Configured
  <2>3. CASE CheckAccount(c)
    BY <2>3 DEF CheckAccount
  <2>4. CASE Build(c)
    BY <2>4 DEF Build, Abandon, Thrown
  <2>5. CASE Sign(c)
    BY <2>5 DEF Sign, Abandon, Thrown
  <2>6. CASE Hear(c)
    BY <2>6 DEF Hear, Retry, Resign, Conclude
  <2>7. QED
    BY <2>1, <2>2, <2>3, <2>4, <2>5, <2>6
<1>2. QED
  BY <1>1 DEF IInv, TypeOK, Registered, RefreshSupersedes, NewestIsRegistered

LEMMA OtherSupersedes ==
  ASSUME IInv, Expire \/ Network \/ UNCHANGED vars
  PROVE  Registered' /\ RefreshSupersedes' /\ NewestIsRegistered'
<1>1. UNCHANGED <<cache, inflight, asked, stage, config, pc, forced, floor>>
  BY DEF Expire, Network, Cosign, Apply, OtherActivation, Rotate, vars, caching, control
<1>2. QED
  BY <1>1 DEF IInv, Registered, RefreshSupersedes, NewestIsRegistered

-----------------------------------------------------------------------------
(* Two transactions of a call.                                              *)

Owns(d) ==
  /\ result[d] = "conflict" => pc[d] = "done" /\ attempt[d] \in Attempts
  /\ pc[d] \in {"builds", "signs", "submits"} => attempt[d] \in Attempts
  /\ attempt[d] = 2 => tx[d][1] # "applied" /\ sequence[d][1] <= sponsorSeq
  /\ result[d] = "conflict" => /\ tx[d][attempt[d]] # "applied"
                               /\ sequence[d][attempt[d]] <= sponsorSeq

LEMMA OwnsAll == (\A d \in Calls : Owns(d)) <=> OnlyEndedHaveResults /\ ResignsOnlyDead
  BY DEF Owns, OnlyEndedHaveResults, ResignsOnlyDead

\* A step of one call leaves what the others own alone.
LEMMA OwnSteps ==
  ASSUME IInv, NEW c \in Calls, CallStep(c), NEW d \in Calls, d # c
  PROVE  Owns(d)'
<1>1. Owns(d)
  BY OwnsAll DEF IInv
<1>2. /\ pc'[d] = pc[d] /\ result'[d] = result[d] /\ attempt'[d] = attempt[d]
      /\ tx'[d] = tx[d] /\ sequence'[d] = sequence[d] /\ sponsorSeq' = sponsorSeq
  <2> USE DEF IInv, TypeOK, ledger, Return
  <2>1. CASE Start(c)
    BY <2>1 DEF Start, ForceRefresh, Lookup, Ask
  <2>2. CASE Receive(c) \/ Configured(c) \/ CheckAccount(c)
    BY <2>2 DEF Receive, Configured, CheckAccount
  <2>3. CASE Build(c) \/ Sign(c)
    BY <2>3 DEF Build, Sign, Abandon, Thrown
  <2>4. CASE Hear(c)
    BY <2>4 DEF Hear, Retry, Resign, Conclude
  <2>5. QED
    BY <2>1, <2>2, <2>3, <2>4 DEF CallStep
<1>3. QED
  BY <1>1, <1>2 DEF Owns

\* A conflict is heard only of a transaction whose sequence number is behind the
\* sponsor's, and nothing a call does changes what is applied.
LEMMA CallOwns ==
  ASSUME IInv, NEW c \in Calls, CallStep(c)
  PROVE  Owns(c)'
<1>0. Owns(c)
  BY OwnsAll DEF IInv
<1> USE DEF IInv, TypeOK, ledger, Return
<1>1. CASE Start(c)
  <2>1. /\ UNCHANGED <<attempt, result, tx, sequence, sponsorSeq>> /\ pc[c] = "idle"
        /\ pc'[c] \in {"waits", "configured"}
    BY <1>1 DEF Start, ForceRefresh, Lookup, Ask
  <2>2. QED
    BY <1>0, <2>1 DEF Owns
<1>2. CASE Receive(c)
  BY <1>0, <1>2 DEF Receive, Owns
<1>3. CASE Configured(c)
  BY <1>0, <1>3 DEF Configured, Owns
<1>4. CASE CheckAccount(c)
  <2>1. CASE Return(c, "alreadyActive") /\ UNCHANGED attempt
    BY <1>0, <1>4, <2>1 DEF CheckAccount, Owns
  <2>2. CASE /\ pc' = [pc EXCEPT ![c] = "builds"]
             /\ attempt' = [attempt EXCEPT ![c] = 1]
             /\ UNCHANGED result
    BY <1>0, <1>4, <2>2 DEF CheckAccount, Owns, Attempts
  <2>3. QED
    BY <1>4, <2>1, <2>2 DEF CheckAccount
<1>5. CASE Build(c)
  <2>1. UNCHANGED <<attempt, tx, sponsorSeq>> /\ result'[c] # "conflict" /\ pc[c] = "builds"
    BY <1>0, <1>5 DEF Build, Abandon, Thrown, Owns
  <2>2. attempt[c] = 2 => sequence'[c][1] = sequence[c][1]
    BY <1>5 DEF Build, Abandon, Thrown, Attempts
  <2>3. QED
    BY <1>0, <2>1, <2>2 DEF Owns
<1>6. CASE Sign(c)
  <2>1. UNCHANGED <<attempt, sequence, sponsorSeq>> /\ result'[c] # "conflict" /\ pc[c] = "signs"
    BY <1>0, <1>6 DEF Sign, Abandon, Thrown, Owns
  <2>2. attempt[c] = 2 => tx'[c][1] = tx[c][1]
    BY <1>6 DEF Sign, Abandon, Thrown, Attempts
  <2>3. QED
    BY <1>0, <2>1, <2>2 DEF Owns
<1>7. CASE Hear(c)
  <2>0. UNCHANGED <<tx, sequence, sponsorSeq>> /\ pc[c] = "submits" /\ result[c] # "conflict"
    BY <1>0, <1>7 DEF Hear, Owns
  <2>1. CASE Retry(c)
    BY <1>0, <2>0, <2>1 DEF Retry, Owns
  <2>2. CASE Resign(c)
    <3>1. "conflict" \in Heard(c) /\ attempt[c] = 1
      BY <2>2 DEF Resign, NeedsResign
    <3>2. tx[c][1] # "applied" /\ sequence[c][1] <= sponsorSeq
      BY <3>1 DEF Heard
    <3>3. QED
      BY <2>0, <2>2, <3>2 DEF Resign, Owns, Attempts
  <2>3. CASE Conclude(c)
    <3>1. PICK h \in Heard(c) : Return(c, h) /\ UNCHANGED attempt
      BY <2>3 DEF Conclude
    <3>2. h = "conflict" => tx[c][attempt[c]] # "applied" /\ sequence[c][attempt[c]] <= sponsorSeq
      BY <3>1 DEF Heard
    <3>3. QED
      BY <1>0, <2>0, <3>1, <3>2 DEF Owns
  <2>4. QED
    BY <1>7, <2>1, <2>2, <2>3 DEF Hear
<1>8. QED
  BY <1>1, <1>2, <1>3, <1>4, <1>5, <1>6, <1>7 DEF CallStep

\* The sponsor's sequence number only grows, and a transaction it has passed is
\* never applied.
LEMMA OtherOwns ==
  ASSUME IInv, NEW d \in Calls,
         (\E r \in Requests : RequestStep(r)) \/ Expire \/ Network \/ UNCHANGED vars
  PROVE  Owns(d)'
<1>0. Owns(d)
  BY OwnsAll DEF IInv
<1> USE DEF IInv, TypeOK, control, ledger
<1>1. CASE (\E r \in Requests : RequestStep(r)) \/ Expire \/ Rotate \/ UNCHANGED vars
  <2>1. UNCHANGED <<pc, result, attempt, tx, sequence, sponsorSeq>>
    BY <1>1 DEF RequestStep, Answer, Fill, Close, Expire, Rotate, vars
  <2>2. QED
    BY <1>0, <2>1 DEF Owns
<1>2. ASSUME NEW c \in Calls, NEW a \in Attempts, Cosign(c, a) PROVE Owns(d)'
  <2>1. /\ UNCHANGED <<pc, result, attempt, sequence, sponsorSeq>>
        /\ \A b \in Attempts : tx'[d][b] = "applied" => tx[d][b] = "applied"
    BY <1>2 DEF Cosign
  <2>2. attempt[d] = 2 => 1 \in Attempts
    BY DEF Attempts
  <2>3. tx'[d][attempt[d]] = "applied" => tx[d][attempt[d]] = "applied"
    BY <1>2 DEF Cosign
  <2>4. QED
    BY <1>0, <2>1, <2>2, <2>3 DEF Owns
<1>3. ASSUME NEW c \in Calls, NEW a \in Attempts, Apply(c, a) PROVE Owns(d)'
  <2>1. /\ UNCHANGED <<pc, result, attempt, sequence>> /\ sponsorSeq' = sponsorSeq + 1
        /\ sequence[c][a] = sponsorSeq + 1
        /\ tx' = [tx EXCEPT ![c][a] = "applied"]
    BY <1>3 DEF Apply
  <2>2. ASSUME NEW b \in Attempts, sequence[d][b] <= sponsorSeq, tx[d][b] # "applied"
        PROVE  tx'[d][b] # "applied" /\ sequence[d][b] <= sponsorSeq'
    <3>1. ~(c = d /\ a = b)
      BY <2>1, <2>2
    <3>2. sequence[d][b] \in Nat
      OBVIOUS
    <3>3. QED
      BY <2>1, <2>2, <3>1, <3>2
  <2>3. 1 \in Attempts
    BY DEF Attempts
  <2>4. QED
    BY <1>0, <2>1, <2>2, <2>3 DEF Owns
<1>4. CASE OtherActivation
  <2>1. UNCHANGED <<pc, result, attempt, sequence, tx>> /\ sponsorSeq' = sponsorSeq + 1
    BY <1>4 DEF OtherActivation
  <2>2. \A b \in Attempts : sequence[d][b] \in Nat
    OBVIOUS
  <2>3. 1 \in Attempts
    BY DEF Attempts
  <2>4. QED
    BY <1>0, <2>1, <2>2, <2>3 DEF Owns
<1>5. QED
  BY <1>1, <1>2, <1>3, <1>4 DEF Network

-----------------------------------------------------------------------------
LEMMA NextInvariant == IInv /\ [Next]_vars => IInv'
<1> SUFFICES ASSUME IInv, [Next]_vars PROVE IInv'
  OBVIOUS
<1>1. ASSUME NEW c \in Calls, CallStep(c) PROVE IInv'
  <2>1. TypeOK'
    BY <1>1, StartTypes, CallTypes DEF IInv, CallStep
  <2>2. Registered' /\ RefreshSupersedes' /\ NewestIsRegistered'
    BY <1>1, StartSupersedes, CallSupersedes DEF CallStep
  <2>3. \A d \in Calls : Owns(d)'
    BY <1>1, CallOwns, OwnSteps
  <2>4. OnlyEndedHaveResults' /\ ResignsOnlyDead'
    BY <2>3 DEF Owns, OnlyEndedHaveResults, ResignsOnlyDead
  <2>5. QED
    BY <2>1, <2>2, <2>4 DEF IInv
<1>2. CASE (\E r \in Requests : RequestStep(r)) \/ Expire \/ Network \/ UNCHANGED vars
  <2>1. TypeOK'
    BY <1>2, OtherTypes DEF IInv
  <2>2. Registered' /\ RefreshSupersedes' /\ NewestIsRegistered'
    BY <1>2, RequestSupersedes, OtherSupersedes
  <2>3. \A d \in Calls : Owns(d)'
    BY <1>2, OtherOwns
  <2>4. OnlyEndedHaveResults' /\ ResignsOnlyDead'
    BY <2>3 DEF Owns, OnlyEndedHaveResults, ResignsOnlyDead
  <2>5. QED
    BY <2>1, <2>2, <2>4 DEF IInv
<1>3. QED
  BY <1>1, <1>2 DEF Next

\* The inductive invariant holds in every reachable state, whatever the bounds
\* (SponsoringService).
THEOREM Invariance == Spec => []IInv
  BY InitInvariant, NextInvariant, PTL DEF Spec

\* No call waits for a request that was not made, and none re-submits more often than
\* its retries allow (submitWithHorizonRetry).
THEOREM TypeCorrect == Spec => []TypeOK
<1>1. IInv => TypeOK
  BY DEF IInv
<1>2. QED
  BY <1>1, Invariance, PTL

\* A superseded config request never decides what is cached or what a later call
\* gets (getStellarSponsorConfig).
THEOREM RefreshCorrect == Spec => []RefreshSupersedes
<1>1. IInv => RefreshSupersedes
  BY DEF IInv
<1>2. QED
  BY <1>1, Invariance, PTL

\* An older request that ends does not unregister the newest one
\* (the `finally` of getStellarSponsorConfig).
THEOREM RegistrationCorrect == Spec => []NewestIsRegistered
<1>1. IInv => NewestIsRegistered
  BY DEF IInv
<1>2. QED
  BY <1>1, Invariance, PTL

\* A second transaction is signed only when the first can never be applied
\* (activateStellarAccount).
THEOREM ResigningCorrect == Spec => []ResignsOnlyDead
<1>1. IInv => ResignsOnlyDead
  BY DEF IInv
<1>2. QED
  BY <1>1, Invariance, PTL

-----------------------------------------------------------------------------
(* Which request fills the cache.                                           *)

\* A request that is not the newest one made is not registered either.
OnlyNewest == inflight \in {0, asked}

LEMMA NewestInvariant == IInv /\ OnlyNewest /\ [Next]_vars => OnlyNewest'
<1> SUFFICES ASSUME IInv, OnlyNewest, [Next]_vars
             PROVE  OnlyNewest'
  OBVIOUS
<1> USE DEF OnlyNewest, IInv, TypeOK, caching, control, ledger
<1>1. ASSUME NEW c \in Calls, CallStep(c) PROVE OnlyNewest'
  <2>1. CASE Start(c)
    BY <2>1 DEF Start, ForceRefresh, Lookup, Ask
  <2>2. CASE \/ Receive(c) \/ Configured(c) \/ CheckAccount(c) \/ Build(c) \/ Sign(c) \/ Hear(c)
    <3>1. UNCHANGED <<inflight, asked>>
      BY <2>2 DEF Receive, Configured, CheckAccount, Build, Sign, Abandon, Thrown, Hear
    <3>2. QED
      BY <3>1
  <2>3. QED
    BY <1>1, <2>1, <2>2 DEF CallStep
<1>2. ASSUME NEW r \in Requests, RequestStep(r) PROVE OnlyNewest'
  BY <1>2 DEF RequestStep, Answer, Fill, Close, Unregister
<1>3. CASE Expire \/ Network \/ UNCHANGED vars
  <2>1. UNCHANGED <<inflight, asked>>
    BY <1>3 DEF Expire, Network, Cosign, Apply, OtherActivation, Rotate, vars
  <2>2. QED
    BY <2>1
<1>4. QED
  BY <1>1, <1>2, <1>3 DEF Next

FillsWithNewest == cache' # cache => cache' \in {0, asked'}

LEMMA FillStep ==
  ASSUME IInv, OnlyNewest, [Next]_vars
  PROVE  FillsWithNewest
<1> USE DEF OnlyNewest, IInv, TypeOK, caching, control, ledger
<1>1. ASSUME NEW c \in Calls, CallStep(c) PROVE cache' \in {0, cache}
  <2>1. CASE Start(c)
    BY <2>1 DEF Start, ForceRefresh, Lookup, Ask
  <2>2. CASE Hear(c)
    BY <2>2 DEF Hear, Retry, Resign, Conclude
  <2>3. CASE \/ Receive(c) \/ Configured(c) \/ CheckAccount(c) \/ Build(c) \/ Sign(c)
    BY <2>3 DEF Receive, Configured, CheckAccount, Build, Sign, Abandon, Thrown
  <2>4. QED
    BY <1>1, <2>1, <2>2, <2>3 DEF CallStep
<1>2. ASSUME NEW r \in Requests, RequestStep(r) PROVE FillsWithNewest
  <2>1. CASE Fill(r)
    BY <2>1 DEF Fill, MayFill, FillsWithNewest, Requests
  <2>2. CASE Answer(r) \/ Close(r)
    BY <2>2 DEF Answer, Close, FillsWithNewest
  <2>3. QED
    BY <1>2, <2>1, <2>2 DEF RequestStep
<1>3. CASE Expire \/ Network \/ UNCHANGED vars
  BY <1>3 DEF Expire, Network, Cosign, Apply, OtherActivation, Rotate, vars, FillsWithNewest
<1>4. QED
  BY <1>1, <1>2, <1>3 DEF Next, FillsWithNewest

\* Whatever the order in which answers arrive, only the newest request made so far
\* fills the cache: no answer is ever followed in the cache by an older one, with or
\* without a forced refresh (the `then` of getStellarSponsorConfig).
THEOREM FillingCorrect == Spec => [][FillsWithNewest]_vars
<1>1. Init => OnlyNewest
  BY DEF Init, OnlyNewest
<1>2. Spec => []OnlyNewest
  BY <1>1, NewestInvariant, Invariance, PTL DEF Spec
<1>3. QED
  BY <1>2, FillStep, Invariance, PTL DEF Spec

-----------------------------------------------------------------------------
(* What an activation returns.                                              *)

\* A call has a transaction for each signature it asked for, none before it is signed,
\* and no result before it ended.
Signs(c) ==
  /\ pc[c] # "done" => result[c] = "none"
  /\ pc[c] \in {"idle", "waits", "configured"} => attempt[c] = 0
  /\ \A a \in Attempts :
       (attempt[c] < a \/ (attempt[c] = a /\ pc[c] \in {"builds", "signs"}))
         => tx[c][a] = "none"

\* A transaction the sponsor signed can be applied at the next sequence number or
\* never, and never once the account exists.
Stands(c) ==
  \A a \in Attempts :
    /\ tx[c][a] = "cosigned"
         => IF exists THEN sequence[c][a] <= sponsorSeq ELSE sequence[c][a] <= sponsorSeq + 1
    /\ tx[c][a] = "applied" => exists

\* What a call is told of the account is true.
ToldTrue(c) ==
  /\ result[c] = "submitted" => attempt[c] \in Attempts /\ tx[c][attempt[c]] = "applied"
  /\ result[c] = "alreadyActive" => exists

AppliedOnce ==
  \A c, d \in Calls : \A a, b \in Attempts :
    tx[c][a] = "applied" /\ tx[d][b] = "applied" => c = d /\ a = b

LInv == (\A c \in Calls : Signs(c) /\ Stands(c) /\ ToldTrue(c)) /\ AppliedOnce

\* Steps that leave a call's part of the state alone.
LEMMA LedgerStutter ==
  ASSUME NEW d \in Calls, Signs(d) /\ Stands(d) /\ ToldTrue(d),
         /\ pc'[d] = pc[d] /\ result'[d] = result[d] /\ attempt'[d] = attempt[d]
         /\ tx'[d] = tx[d] /\ sequence'[d] = sequence[d] /\ UNCHANGED <<exists, sponsorSeq>>
  PROVE  (Signs(d) /\ Stands(d) /\ ToldTrue(d))'
  BY DEF Signs, Stands, ToldTrue

\* A step of one call leaves the others and the ledger alone.
LEMMA OtherCalls ==
  ASSUME IInv, NEW c \in Calls, CallStep(c)
  PROVE  /\ UNCHANGED <<exists, sponsorSeq>>
         /\ \A d \in Calls \ {c} :
              /\ pc'[d] = pc[d] /\ result'[d] = result[d] /\ attempt'[d] = attempt[d]
              /\ tx'[d] = tx[d] /\ sequence'[d] = sequence[d]
<1> USE DEF IInv, TypeOK, ledger, Return
<1>1. CASE Start(c)
  BY <1>1 DEF Start, ForceRefresh, Lookup, Ask
<1>2. CASE Receive(c) \/ Configured(c) \/ CheckAccount(c)
  BY <1>2 DEF Receive, Configured, CheckAccount
<1>3. CASE Build(c) \/ Sign(c)
  BY <1>3 DEF Build, Sign, Abandon, Thrown
<1>4. CASE Hear(c)
  BY <1>4 DEF Hear, Retry, Resign, Conclude
<1>5. QED
  BY <1>1, <1>2, <1>3, <1>4 DEF CallStep

\* Only a signature changes a call's transactions, and it makes no applied one.
LEMMA CallApplies ==
  ASSUME IInv, LInv, NEW c \in Calls, CallStep(c), NEW a \in Attempts
  PROVE  /\ tx'[c][a] = tx[c][a] \/ (tx[c][a] = "none" /\ tx'[c][a] = "posted")
         /\ sequence'[c][a] = sequence[c][a] \/ tx'[c][a] = "none"
<1>0. Signs(c) /\ Owns(c)
  BY OwnsAll DEF IInv, LInv
<1> USE DEF IInv, TypeOK, ledger, Return
<1>1. CASE Start(c) \/ Receive(c) \/ Configured(c) \/ CheckAccount(c) \/ Hear(c)
  BY <1>1 DEF Start, Receive, Configured, CheckAccount, Hear
<1>2. CASE Build(c)
  <2>1. UNCHANGED tx /\ pc[c] = "builds"
    BY <1>2 DEF Build, Abandon, Thrown
  <2>2. a # attempt[c] => sequence'[c][a] = sequence[c][a]
    BY <1>2 DEF Build, Abandon, Thrown
  <2>3. QED
    BY <1>0, <2>1, <2>2 DEF Signs
<1>3. CASE Sign(c)
  <2>1. UNCHANGED sequence /\ pc[c] = "signs"
    BY <1>3 DEF Sign, Abandon, Thrown
  <2>2. tx' = tx \/ tx' = [tx EXCEPT ![c][attempt[c]] = "posted"]
    BY <1>3 DEF Sign, Abandon, Thrown
  <2>3. a = attempt[c] => tx[c][a] = "none"
    BY <1>0, <2>1 DEF Signs
  <2>4. QED
    BY <2>1, <2>2, <2>3
<1>4. QED
  BY <1>1, <1>2, <1>3 DEF CallStep

\* A call is told what is true when it hears it.
LEMMA CallLedger ==
  ASSUME IInv, LInv, NEW c \in Calls, CallStep(c)
  PROVE  (Signs(c) /\ Stands(c) /\ ToldTrue(c))'
<1>0. Signs(c) /\ Stands(c) /\ ToldTrue(c) /\ Owns(c)
  BY OwnsAll DEF IInv, LInv
<1>1. /\ UNCHANGED <<exists, sponsorSeq>>
      /\ \A a \in Attempts :
           /\ tx'[c][a] = tx[c][a] \/ (tx[c][a] = "none" /\ tx'[c][a] = "posted")
           /\ sequence'[c][a] = sequence[c][a] \/ tx'[c][a] = "none"
  BY CallApplies, OtherCalls
<1>2. Stands(c)'
  BY <1>0, <1>1 DEF Stands
<1>3. pc[c] # "done" /\ result[c] = "none"
  BY <1>0 DEF CallStep, Start, Receive, Configured, CheckAccount, Build, Sign, Hear, Signs
<1> USE DEF IInv, TypeOK, ledger, Return
<1>4. CASE Start(c) \/ Receive(c) \/ Configured(c)
  <2>1. /\ UNCHANGED <<attempt, tx>> /\ pc[c] \in {"idle", "waits", "configured"}
        /\ pc'[c] \in {"waits", "configured", "done"}
        /\ result'[c] \in {"none", "failed", "config"}
        /\ pc'[c] # "done" => result'[c] = "none"
    BY <1>3, <1>4 DEF Start, ForceRefresh, Lookup, Ask, Receive, Configured
  <2>2. QED
    BY <1>0, <1>2, <2>1 DEF Signs, ToldTrue
<1>5. CASE CheckAccount(c)
  <2>1. pc[c] = "configured" /\ attempt[c] = 0 /\ UNCHANGED tx
    BY <1>0, <1>5 DEF CheckAccount, Signs
  <2>2. CASE exists /\ Return(c, "alreadyActive") /\ UNCHANGED attempt
    BY <1>0, <1>1, <1>2, <2>1, <2>2 DEF Signs, ToldTrue
  <2>3. CASE /\ pc' = [pc EXCEPT ![c] = "builds"]
             /\ attempt' = [attempt EXCEPT ![c] = 1]
             /\ UNCHANGED result
    <3>1. pc'[c] = "builds" /\ attempt'[c] = 1 /\ result'[c] = "none"
      BY <1>3, <2>3
    <3>2. \A a \in Attempts : tx'[c][a] = "none"
      BY <1>0, <2>1 DEF Signs, Attempts
    <3>3. QED
      BY <1>2, <3>1, <3>2 DEF Signs, ToldTrue
  <2>4. QED
    BY <1>5, <2>2, <2>3 DEF CheckAccount
<1>6. CASE Build(c)
  <2>1. /\ UNCHANGED <<attempt, tx>> /\ pc[c] = "builds" /\ pc'[c] \in {"done", "signs"}
        /\ result'[c] \in {"none", "failed", "thrown"} /\ (pc'[c] # "done" => result'[c] = "none")
    BY <1>3, <1>6 DEF Build, Abandon, Thrown
  <2>2. QED
    BY <1>0, <1>2, <2>1 DEF Signs, ToldTrue
<1>7. CASE Sign(c)
  <2>1. /\ UNCHANGED attempt /\ pc[c] = "signs" /\ pc'[c] \in {"done", "submits"}
        /\ result'[c] \in {"none", "failed", "thrown"} /\ (pc'[c] # "done" => result'[c] = "none")
    BY <1>3, <1>7 DEF Sign, Abandon, Thrown
  <2>2. \A a \in Attempts : a # attempt[c] => tx'[c][a] = tx[c][a]
    BY <1>7 DEF Sign, Abandon, Thrown
  <2>3. \A a \in Attempts : attempt[c] < a => a # attempt[c]
    BY DEF Attempts
  <2>4. QED
    BY <1>0, <1>2, <2>1, <2>2, <2>3 DEF Signs, ToldTrue
<1>8. CASE Hear(c)
  <2>0. UNCHANGED tx /\ pc[c] = "submits" /\ attempt[c] \in Attempts
    BY <1>0, <1>8 DEF Hear, Owns
  <2>1. CASE Retry(c)
    BY <1>0, <1>2, <2>0, <2>1 DEF Retry, Signs, ToldTrue
  <2>2. CASE Resign(c)
    <3>1. pc'[c] = "builds" /\ attempt[c] = 1 /\ attempt'[c] = 2 /\ result'[c] = "none"
      BY <1>3, <2>0, <2>2 DEF Resign
    <3>2. tx'[c][2] = "none"
      BY <1>0, <2>0, <3>1 DEF Signs, Attempts
    <3>3. QED
      BY <1>2, <3>1, <3>2 DEF Signs, ToldTrue, Attempts
  <2>3. CASE Conclude(c)
    <3>1. PICK h \in Heard(c) : Return(c, h) /\ UNCHANGED attempt
      BY <2>3 DEF Conclude
    <3>2. /\ h = "submitted" => tx[c][attempt[c]] = "applied"
          /\ h = "alreadyActive" => exists
      BY <3>1 DEF Heard
    <3>3. pc'[c] = "done" /\ result'[c] = h
      BY <3>1
    <3>4. QED
      BY <1>0, <1>1, <1>2, <2>0, <3>1, <3>2, <3>3 DEF Signs, ToldTrue
  <2>4. QED
    BY <1>8, <2>1, <2>2, <2>3 DEF Hear
<1>9. QED
  BY <1>4, <1>5, <1>6, <1>7, <1>8 DEF CallStep

\* The sponsor signs for an account that does not exist and at its next sequence number.
LEMMA CosignLedger ==
  ASSUME IInv, LInv, NEW c \in Calls, NEW a \in Attempts, Cosign(c, a)
  PROVE  LInv'
<1> USE DEF IInv, TypeOK, control
<1>1. /\ UNCHANGED <<pc, result, attempt, sequence, exists, sponsorSeq>>
      /\ tx[c][a] = "posted" /\ ~exists /\ sequence[c][a] = sponsorSeq + 1
      /\ tx' = [tx EXCEPT ![c][a] = "cosigned"]
  BY DEF Cosign
<1>2. \A d \in Calls, b \in Attempts :
        \/ tx'[d][b] = tx[d][b]
        \/ d = c /\ b = a /\ tx'[d][b] = "cosigned"
  BY <1>1
<1>3. AppliedOnce'
  <2>1. \A d \in Calls, b \in Attempts : tx'[d][b] = "applied" => tx[d][b] = "applied"
    BY <1>2
  <2>2. AppliedOnce
    BY DEF LInv
  <2> HIDE DEF IInv, TypeOK
  <2>3. QED
    BY <2>1, <2>2 DEF AppliedOnce
<1>4. ASSUME NEW d \in Calls PROVE (Signs(d) /\ Stands(d) /\ ToldTrue(d))'
  <2>1. Signs(d) /\ Stands(d) /\ ToldTrue(d)
    BY DEF LInv
  <2>2. Signs(d)'
    BY <1>1, <1>2, <2>1 DEF Signs
  <2>3. Stands(d)'
    BY <1>1, <1>2, <2>1 DEF Stands
  <2>4. ToldTrue(d)'
    BY <1>1, <1>2, <2>1 DEF ToldTrue
  <2>5. QED
    BY <2>2, <2>3, <2>4
<1>5. QED
  BY <1>3, <1>4 DEF LInv

\* A transaction that is applied outruns all others.
LEMMA ApplyLedger ==
  ASSUME IInv, LInv, NEW c \in Calls, NEW a \in Attempts, Apply(c, a)
  PROVE  LInv'
<1> USE DEF IInv, TypeOK, control
<1>1. /\ UNCHANGED <<pc, result, attempt, sequence>>
      /\ exists' /\ sponsorSeq' = sponsorSeq + 1
      /\ tx[c][a] = "cosigned" /\ sequence[c][a] = sponsorSeq + 1
      /\ tx' = [tx EXCEPT ![c][a] = "applied"]
  BY DEF Apply
<1>2. \A d \in Calls, b \in Attempts :
        \/ tx'[d][b] = tx[d][b] /\ ~(d = c /\ b = a)
        \/ d = c /\ b = a /\ tx'[d][b] = "applied"
  BY <1>1
<1>3. ~exists
  BY <1>1 DEF LInv, Stands
<1>4. \A d \in Calls, b \in Attempts : tx[d][b] # "applied"
  BY <1>3 DEF LInv, Stands
<1>5. AppliedOnce'
  BY <1>2, <1>4 DEF AppliedOnce
<1>6. ASSUME NEW d \in Calls PROVE (Signs(d) /\ Stands(d) /\ ToldTrue(d))'
  <2>1. Signs(d) /\ Stands(d) /\ ToldTrue(d)
    BY DEF LInv
  <2>2. Signs(d)'
    BY <1>1, <1>2, <2>1 DEF Signs
  <2>3. Stands(d)'
    BY <1>1, <1>2, <1>3, <2>1 DEF Stands
  <2>4. ToldTrue(d)'
    BY <1>1, <1>2, <2>1 DEF ToldTrue
  <2>5. QED
    BY <2>2, <2>3, <2>4
<1>7. QED
  BY <1>5, <1>6 DEF LInv

LEMMA LedgerInvariant == IInv /\ LInv /\ [Next]_vars => LInv'
<1> SUFFICES ASSUME IInv, LInv, [Next]_vars PROVE LInv'
  OBVIOUS
<1>1. ASSUME NEW c \in Calls, CallStep(c) PROVE LInv'
  <2>1. ASSUME NEW d \in Calls PROVE (Signs(d) /\ Stands(d) /\ ToldTrue(d))'
    <3>1. CASE d = c
      BY <1>1, <3>1, CallLedger
    <3>2. CASE d # c
      BY <1>1, <3>2, OtherCalls, LedgerStutter DEF LInv
    <3>3. QED
      BY <3>1, <3>2
  <2>2. \A d \in Calls, b \in Attempts : tx'[d][b] = "applied" => tx[d][b] = "applied"
    <3>1. \A b \in Attempts : tx'[c][b] = "applied" => tx[c][b] = "applied"
      BY <1>1, CallApplies
    <3>2. \A d \in Calls \ {c} : tx'[d] = tx[d]
      BY <1>1, OtherCalls
    <3>3. QED
      BY <3>1, <3>2
  <2>3. AppliedOnce'
    BY <2>2 DEF LInv, AppliedOnce
  <2>4. QED
    BY <2>1, <2>3 DEF LInv
<1>2. CASE (\E r \in Requests : RequestStep(r)) \/ Expire \/ Rotate \/ UNCHANGED vars
  <2>1. UNCHANGED <<pc, result, attempt, tx, sequence, exists, sponsorSeq>>
    BY <1>2 DEF RequestStep, Answer, Fill, Close, Expire, Rotate, vars, control, ledger
  <2>2. QED
    BY <2>1 DEF LInv, Signs, Stands, ToldTrue, AppliedOnce
<1>3. CASE OtherActivation
  <2>1. UNCHANGED <<pc, result, attempt, tx, sequence, exists>> /\ sponsorSeq' = sponsorSeq + 1
    BY <1>3 DEF OtherActivation, control
  <2>2. \A d \in Calls : Stands(d)'
    BY <2>1 DEF IInv, TypeOK, LInv, Stands
  <2>3. QED
    BY <2>1, <2>2 DEF LInv, Signs, ToldTrue, AppliedOnce
<1>4. QED
  BY <1>1, <1>2, <1>3, CosignLedger, ApplyLedger DEF Next, Network

LEMMA InitLedger == Init => LInv
<1> SUFFICES ASSUME Init PROVE LInv
  OBVIOUS
<1>1. /\ pc = [c \in Calls |-> "idle"] /\ result = [c \in Calls |-> "none"]
      /\ attempt = [c \in Calls |-> 0]
      /\ tx = [c \in Calls |-> [a \in Attempts |-> "none"]]
  BY DEF Init
<1>2. QED
  BY <1>1 DEF LInv, Signs, Stands, ToldTrue, AppliedOnce

LEMMA LedgerAlways == Spec => []LInv
  BY InitLedger, LedgerInvariant, Invariance, PTL DEF Spec

OneActivation == AppliedOnce /\ \A c \in Calls : ToldTrue(c)

\* However many calls activate the account at once, with a second signature each, one
\* transaction creates it at most, and a call is told "submitted" only when that one is
\* its own and "already active" only when the account exists
\* (activateStellarAccount, classifySponsorError).
THEOREM ActivatedOnce == Spec => []OneActivation
<1>1. LInv => OneActivation
  BY DEF LInv, OneActivation
<1>2. QED
  BY <1>1, LedgerAlways, PTL

-----------------------------------------------------------------------------
(* An activation ends.                                                      *)

Rank(c) ==
  CASE pc[c] = "idle" -> 6 [] pc[c] = "waits" -> 5 [] pc[c] = "configured" -> 4
    [] pc[c] = "builds" -> 3 [] pc[c] = "signs" -> 2 [] pc[c] = "submits" -> 1
    [] pc[c] = "done" -> 0

\* Lexicographically: signatures left, distance to the end, re-submissions left.
RunsDown(c) ==
  \/ attempt'[c] > attempt[c]
  \/ attempt'[c] = attempt[c] /\ Rank(c)' < Rank(c)
  \/ attempt'[c] = attempt[c] /\ Rank(c)' = Rank(c) /\ retries'[c] < retries[c]

LEMMA StepRunsDown ==
  ASSUME IInv, LInv, NEW c \in Calls, CallStep(c)
  PROVE  RunsDown(c)
<1>0. Signs(c)
  BY DEF LInv
<1> USE DEF IInv, TypeOK, ledger, Return, Rank, RunsDown
<1>1. CASE Start(c)
  <2>1. UNCHANGED attempt /\ pc[c] = "idle" /\ pc'[c] \in {"waits", "configured"}
    BY <1>1 DEF Start, ForceRefresh, Lookup, Ask
  <2>2. QED
    BY <2>1
<1>2. CASE Receive(c) \/ Configured(c) \/ Build(c) \/ Sign(c)
  <2>1. /\ UNCHANGED attempt
        /\ \/ pc[c] = "waits" /\ pc'[c] \in {"configured", "done"}
           \/ pc[c] = "configured" /\ pc'[c] = "done"
           \/ pc[c] = "builds" /\ pc'[c] \in {"signs", "done"}
           \/ pc[c] = "signs" /\ pc'[c] \in {"submits", "done"}
    BY <1>2 DEF Receive, Configured, Build, Sign, Abandon, Thrown
  <2>2. QED
    BY <2>1
<1>3. CASE CheckAccount(c)
  <2>1. CASE Return(c, "alreadyActive") /\ UNCHANGED attempt
    BY <1>3, <2>1 DEF CheckAccount
  <2>2. CASE pc' = [pc EXCEPT ![c] = "builds"] /\ attempt' = [attempt EXCEPT ![c] = 1]
    <3>1. pc[c] = "configured" /\ pc'[c] = "builds" /\ attempt'[c] = 1
      BY <1>3, <2>2 DEF CheckAccount
    <3>2. attempt[c] = 0
      BY <1>0, <3>1 DEF Signs
    <3>3. QED
      BY <3>1, <3>2
  <2>3. QED
    BY <1>3, <2>1, <2>2 DEF CheckAccount
<1>4. CASE Hear(c)
  <2>0. pc[c] = "submits"
    BY <1>4 DEF Hear
  <2>1. CASE Retry(c)
    BY <2>0, <2>1 DEF Retry, MayRetry
  <2>2. CASE Resign(c)
    BY <2>0, <2>2 DEF Resign
  <2>3. CASE Conclude(c)
    BY <2>0, <2>3 DEF Conclude
  <2>4. QED
    BY <1>4, <2>1, <2>2, <2>3 DEF Hear
<1>5. QED
  BY <1>1, <1>2, <1>3, <1>4 DEF CallStep

EveryCallRunsDown == \A c \in Calls : CallStep(c) => RunsDown(c)

\* An activation can not go on for ever: every step of a call asks for the one second
\* signature, comes closer to the end or spends one of the re-submissions of the
\* transaction, whatever the server answers (activateStellarAccount,
\* submitWithHorizonRetry).
THEOREM CallRunsDown == Spec => [][EveryCallRunsDown]_vars
<1>1. IInv /\ LInv => EveryCallRunsDown
  BY StepRunsDown DEF EveryCallRunsDown
<1>2. QED
  BY <1>1, Invariance, LedgerAlways, PTL DEF Spec
=============================================================================
