----------------------------- MODULE Sponsoring -----------------------------
(***************************************************************************)
(* SponsoringService: the cache of the sponsor's config, filled by         *)
(* requests that concurrent callers share and a forced refresh supersedes, *)
(* and the sponsored activation of a Stellar account, which signs a        *)
(* transaction with the sponsor's sequence number, submits it to the       *)
(* sponsoring API, retries it while Horizon is down and signs a second one *)
(* after a sequence conflict.                                              *)
(*                                                                         *)
(* All calls concern one account and one cache key: entries of other keys  *)
(* never meet.  A config is known by the number of the request that read   *)
(* it; what the server published then is its version.                      *)
(***************************************************************************)
EXTENDS Integers

CONSTANTS
  Calls,        \* calls of getStellarSponsorConfig and activateStellarAccount
  MaxRequests,  \* bound: config requests
  MaxVersion,   \* bound: configs the sponsor publishes
  MaxSequence,  \* bound: sequence number of the sponsor's account
  MaxRetries    \* maxHorizonRetries

ASSUME SponsoringAssumption ==
  /\ MaxRequests \in Nat \ {0} /\ MaxVersion \in Nat \ {0}
  /\ MaxSequence \in Nat /\ MaxRetries \in Nat

Requests == 1..MaxRequests
Versions == 1..MaxVersion
Attempts == {1, 2}

VARIABLES
  cache, fresh,   \* request that filled the cache (0: none); within its TTL
  inflight,       \* inflightConfig: the registered request, 0 for none
  asked,          \* number of requests made
  stage, version, \* progress of each request; the version it read, 0: it failed
  pc,             \* control state of each call
  goal,           \* "config" or "activation"
  config,         \* the request a call waits for, then has its config from
  attempt,        \* signatures it may have asked for
  sequence,       \* sequence number of each transaction of a call
  retries,        \* re-submissions left of the current one
  hint,           \* the sequence number the server reported, -1 for none
  result,         \* how it ended
  tx,             \* each transaction of a call: none, posted, cosigned, applied
  exists,         \* the account is on the ledger
  sponsorSeq,     \* sequence number of the sponsor's account
  published,      \* version of the config the server publishes
  forced, floor   \* history: request of the last forced refresh, now and at a call's start

caching == <<cache, fresh, inflight, asked, stage, version>>
control == <<pc, goal, config, attempt, sequence, retries, hint, result>>
ledger == <<tx, exists, sponsorSeq>>
vars == <<caching, control, ledger, published, forced, floor>>

Init ==
  /\ cache = 0 /\ fresh = FALSE /\ inflight = 0 /\ asked = 0
  /\ stage = [r \in Requests |-> "unused"]
  /\ version = [r \in Requests |-> 0]
  /\ pc = [c \in Calls |-> "idle"]
  /\ goal = [c \in Calls |-> "config"]
  /\ config = [c \in Calls |-> 0]
  /\ attempt = [c \in Calls |-> 0]
  /\ sequence = [c \in Calls |-> [a \in Attempts |-> 0]]
  /\ retries = [c \in Calls |-> 0]
  /\ hint = [c \in Calls |-> -1]
  /\ result = [c \in Calls |-> "none"]
  /\ tx = [c \in Calls |-> [a \in Attempts |-> "none"]]
  /\ exists \in BOOLEAN /\ sponsorSeq = 0 /\ published = 1
  /\ forced = 0 /\ floor = [c \in Calls |-> 0]

-----------------------------------------------------------------------------
(* getStellarSponsorConfig.                                                 *)

Cached == cache # 0 /\ fresh

\* A fetch: the request becomes the registered one, whichever was before.
Ask(c) ==
  /\ asked < MaxRequests
  /\ asked' = asked + 1 /\ inflight' = asked + 1
  /\ stage' = [stage EXCEPT ![asked + 1] = "asked"]
  /\ config' = [config EXCEPT ![c] = asked + 1]
  /\ pc' = [pc EXCEPT ![c] = "waits"]

ForceRefresh(c) ==
  Ask(c) /\ cache' = 0 /\ forced' = asked + 1

Lookup(c) ==
  \/ /\ Cached
     /\ config' = [config EXCEPT ![c] = cache]
     /\ pc' = [pc EXCEPT ![c] = "configured"]
     /\ UNCHANGED <<cache, inflight, asked, stage, forced>>
  \/ /\ ~Cached /\ inflight # 0
     /\ config' = [config EXCEPT ![c] = inflight]
     /\ pc' = [pc EXCEPT ![c] = "waits"]
     /\ UNCHANGED <<cache, inflight, asked, stage, forced>>
  \/ /\ ~Cached /\ inflight = 0
     /\ Ask(c)
     /\ UNCHANGED <<cache, forced>>

Start(c) ==
  /\ pc[c] = "idle"
  /\ \E g \in {"config", "activation"} : goal' = [goal EXCEPT ![c] = g]
  /\ ForceRefresh(c) \/ Lookup(c)
  /\ floor' = [floor EXCEPT ![c] = forced']
  /\ UNCHANGED <<fresh, version, attempt, sequence, retries, hint, result,
                 ledger, published>>

\* The server reads what is published, or fails; the answer travels.
Answer(r) ==
  /\ stage[r] = "asked"
  /\ stage' = [stage EXCEPT ![r] = "answered"]
  /\ \E v \in {0, published} : version' = [version EXCEPT ![r] = v]
  /\ UNCHANGED <<cache, fresh, inflight, asked, control, ledger, published, forced, floor>>

\* Slip: any good answer is cached.
AnyAnswer(r) == version[r] # 0

\* A superseded request must not overwrite the refreshed value.
MayFill(r) == version[r] # 0 /\ inflight = r

\* The `then` of a request.
Fill(r) ==
  /\ stage[r] = "answered"
  /\ stage' = [stage EXCEPT ![r] = "settled"]
  /\ IF MayFill(r) THEN cache' = r /\ fresh' = TRUE
                   ELSE UNCHANGED <<cache, fresh>>
  /\ UNCHANGED <<inflight, asked, version, control, ledger, published, forced, floor>>

\* Slip: the end of a request clears whatever is registered.
ClearsAny(r) == 0

\* A replacement registered by a concurrent refresh is preserved.
Unregister(r) == IF inflight = r THEN 0 ELSE inflight

\* Its `finally`; only then do the callers that wait for it go on.
Close(r) ==
  /\ stage[r] = "settled"
  /\ stage' = [stage EXCEPT ![r] = "closed"]
  /\ inflight' = Unregister(r)
  /\ UNCHANGED <<cache, fresh, asked, version, control, ledger, published, forced, floor>>

Expire ==
  /\ Cached
  /\ fresh' = FALSE
  /\ UNCHANGED <<cache, inflight, asked, stage, version, control, ledger,
                 published, forced, floor>>

-----------------------------------------------------------------------------
(* activateStellarAccount.                                                  *)

Return(c, value) ==
  /\ pc' = [pc EXCEPT ![c] = "done"]
  /\ result' = [result EXCEPT ![c] = value]

Receive(c) ==
  /\ pc[c] = "waits"
  /\ stage[config[c]] = "closed"
  /\ IF version[config[c]] = 0
     THEN Return(c, "failed")
     ELSE pc' = [pc EXCEPT ![c] = "configured"] /\ UNCHANGED result
  /\ UNCHANGED <<goal, config, attempt, sequence, retries, hint, caching, ledger,
                 published, forced, floor>>

Configured(c) ==
  /\ pc[c] = "configured" /\ goal[c] = "config"
  /\ Return(c, "config")
  /\ UNCHANGED <<goal, config, attempt, sequence, retries, hint, caching, ledger,
                 published, forced, floor>>

\* accountExistsBestEffort: a failed read goes on, the server checks again.
CheckAccount(c) ==
  /\ pc[c] = "configured" /\ goal[c] = "activation"
  /\ \/ exists /\ Return(c, "alreadyActive") /\ UNCHANGED attempt
     \/ /\ pc' = [pc EXCEPT ![c] = "builds"]
        /\ attempt' = [attempt EXCEPT ![c] = 1]
        /\ UNCHANGED result
  /\ UNCHANGED <<goal, config, sequence, retries, hint, caching, ledger,
                 published, forced, floor>>

\* A throw of the first attempt is awaited and caught; that of the second leaves the
\* call as a rejection, because its promise is returned without an await.
Thrown(c) == IF attempt[c] = 1 THEN "failed" ELSE "thrown"

\* An attempt ends early with a failure it returns or by a throw.
Abandon(c) == \E v \in {"failed", Thrown(c)} : Return(c, v)

\* attemptActivation up to the wallet prompt: unusable inputs and a failed read of
\* the sponsor's account end the call; a hint saves the read.
Build(c) ==
  /\ pc[c] = "builds"
  /\ \/ Abandon(c) /\ UNCHANGED sequence
     \/ /\ pc' = [pc EXCEPT ![c] = "signs"]
        /\ sequence' = [sequence EXCEPT ![c][attempt[c]] =
                          1 + (IF hint[c] = -1 THEN sponsorSeq ELSE hint[c])]
        /\ UNCHANGED result
  /\ hint' = [hint EXCEPT ![c] = -1]
  /\ UNCHANGED <<goal, config, attempt, retries, caching, ledger,
                 published, forced, floor>>

\* The wallet refuses or returns something else than was asked, or signs; the signed
\* transaction is submitted.
Sign(c) ==
  /\ pc[c] = "signs"
  /\ \/ Abandon(c) /\ UNCHANGED <<retries, tx>>
     \/ /\ pc' = [pc EXCEPT ![c] = "submits"]
        /\ retries' = [retries EXCEPT ![c] = MaxRetries]
        /\ tx' = [tx EXCEPT ![c][attempt[c]] = "posted"]
        /\ UNCHANGED result
  /\ UNCHANGED <<goal, config, attempt, sequence, hint, exists, sponsorSeq, caching,
                 published, forced, floor>>

\* What the client hears of a submission: a verdict, or an error status.  "other"
\* stands for the statuses that end the call and for no status at all, with the
\* request handled or not.
Heard(c) ==
  LET a == attempt[c] IN
  {"unavailable", "other"}
    \union (IF tx[c][a] = "applied" THEN {"submitted"} ELSE {})
    \union (IF exists THEN {"alreadyActive"} ELSE {})
    \union (IF version[config[c]] # published THEN {"badConfig"} ELSE {})
    \union (IF tx[c][a] # "applied" /\ sequence[c][a] <= sponsorSeq
            THEN {"conflict"} ELSE {})

\* Slip: an unavailable Horizon is answered by a new transaction, too.
ResignsUnavailable == {"conflict", "unavailable"}

\* classifySponsorError: the answers whose next action is rebuildAndResign.
NeedsResign == {"conflict"}

\* Slip: one retry too many.
OneMoreRetry(c) == retries[c] >= 0

MayRetry(c) == retries[c] > 0

Retry(c) ==
  /\ "unavailable" \in Heard(c) /\ MayRetry(c)
  /\ retries' = [retries EXCEPT ![c] = @ - 1]
  /\ UNCHANGED <<pc, attempt, hint, result, cache>>

\* allowSequenceRetry is the user's choice; the hint is optional.
Resign(c) ==
  /\ Heard(c) \intersect NeedsResign # {} /\ attempt[c] = 1
  /\ pc' = [pc EXCEPT ![c] = "builds"]
  /\ attempt' = [attempt EXCEPT ![c] = 2]
  /\ \E h \in {-1, sponsorSeq} : hint' = [hint EXCEPT ![c] = h]
  /\ retries' = [retries EXCEPT ![c] = 0]
  /\ UNCHANGED <<result, cache>>

\* A rejected config may have been rotated: it is evicted.
Conclude(c) ==
  \E h \in Heard(c) :
    /\ h = "unavailable" => ~MayRetry(c)
    /\ Return(c, h)
    /\ cache' = IF h = "badConfig" THEN 0 ELSE cache
    /\ retries' = [retries EXCEPT ![c] = 0]
    /\ UNCHANGED <<attempt, hint>>

Hear(c) ==
  /\ pc[c] = "submits"
  /\ Retry(c) \/ Resign(c) \/ Conclude(c)
  /\ UNCHANGED <<goal, config, sequence, fresh, inflight, asked, stage, version,
                 ledger, published, forced, floor>>

-----------------------------------------------------------------------------
(* The sponsoring server and the ledger.                                    *)

\* The server adds the sponsor's signature to a transaction that fits, late perhaps.
Cosign(c, a) ==
  /\ tx[c][a] = "posted" /\ ~exists
  /\ version[config[c]] = published
  /\ sequence[c][a] = sponsorSeq + 1
  /\ tx' = [tx EXCEPT ![c][a] = "cosigned"]
  /\ UNCHANGED <<exists, sponsorSeq, caching, control, published, forced, floor>>

Apply(c, a) ==
  /\ tx[c][a] = "cosigned"
  /\ sequence[c][a] = sponsorSeq + 1
  /\ tx' = [tx EXCEPT ![c][a] = "applied"]
  /\ sponsorSeq' = sponsorSeq + 1
  /\ exists' = TRUE
  /\ UNCHANGED <<caching, control, published, forced, floor>>

\* The sponsor serves other accounts.
OtherActivation ==
  /\ sponsorSeq < MaxSequence
  /\ sponsorSeq' = sponsorSeq + 1
  /\ UNCHANGED <<tx, exists, caching, control, published, forced, floor>>

Rotate ==
  /\ published < MaxVersion
  /\ published' = published + 1
  /\ UNCHANGED <<caching, control, ledger, forced, floor>>

Network ==
  \/ \E c \in Calls, a \in Attempts : Cosign(c, a) \/ Apply(c, a)
  \/ OtherActivation \/ Rotate

-----------------------------------------------------------------------------
CallStep(c) ==
  \/ Start(c) \/ Receive(c) \/ Configured(c) \/ CheckAccount(c)
  \/ Build(c) \/ Sign(c) \/ Hear(c)

RequestStep(r) == Answer(r) \/ Fill(r) \/ Close(r)

Next ==
  \/ \E c \in Calls : CallStep(c)
  \/ \E r \in Requests : RequestStep(r)
  \/ Expire \/ Network

\* Safety only: the wallet, the server and the ledger owe nothing.
Spec == Init /\ [][Next]_vars

-----------------------------------------------------------------------------
\* Types of all variables: requests are numbered as they are made, and no call submits
\* more often than its retries allow (submitWithHorizonRetry).
TypeOK ==
  /\ asked \in 0..MaxRequests
  /\ cache \in 0..asked /\ fresh \in BOOLEAN /\ inflight \in 0..asked
  /\ stage \in [Requests -> {"unused", "asked", "answered", "settled", "closed"}]
  /\ version \in [Requests -> 0..MaxVersion]
  /\ pc \in [Calls -> {"idle", "waits", "configured", "builds", "signs", "submits", "done"}]
  /\ goal \in [Calls -> {"config", "activation"}]
  /\ config \in [Calls -> 0..asked]
  /\ attempt \in [Calls -> 0..2]
  /\ sequence \in [Calls -> [Attempts -> Nat]]
  /\ retries \in [Calls -> 0..MaxRetries]
  /\ hint \in [Calls -> Nat \union {-1}]
  /\ result \in [Calls -> {"none", "failed", "thrown", "config", "submitted",
                           "alreadyActive", "unavailable", "badConfig", "conflict", "other"}]
  /\ tx \in [Calls -> [Attempts -> {"none", "posted", "cosigned", "applied"}]]
  /\ exists \in BOOLEAN /\ sponsorSeq \in Nat /\ published \in Versions
  /\ forced \in 0..asked /\ floor \in [Calls -> 0..asked]

\* After a forced refresh no config that was asked for before it is cached, and none
\* is given to a call that began after it, whatever the order of the answers
\* (getStellarSponsorConfig).
RefreshSupersedes ==
  /\ cache = 0 \/ cache >= forced
  /\ \A c \in Calls : pc[c] # "idle" => config[c] >= floor[c]

\* The newest request under way is the registered one: later callers share it and its
\* answer is cached, although older requests end while it runs
\* (inflightConfig).
NewestIsRegistered ==
  asked > 0 /\ stage[asked] \in {"asked", "answered"} => inflight = asked

\* The user signs a second transaction, or is told to, only when the sponsor's
\* sequence number has passed the first: it can not be applied any more, so a call
\* never puts two live transactions out (activateStellarAccount).
ResignsOnlyDead ==
  \A c \in Calls :
    /\ attempt[c] = 2 => /\ tx[c][1] # "applied"
                         /\ sequence[c][1] <= sponsorSeq
    /\ result[c] = "conflict" => /\ tx[c][attempt[c]] # "applied"
                                 /\ sequence[c][attempt[c]] <= sponsorSeq
=============================================================================
