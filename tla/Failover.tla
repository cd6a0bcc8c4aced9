------------------------------ MODULE Failover ------------------------------
(***************************************************************************)
(* The key-value store that fails over from Redis to memory and back       *)
(* (pkg/kv/failover.go), started by pkg/kv/factory.go.                     *)
(*                                                                         *)
(* Calls load the active store, run on it and, when Redis was unavailable, *)
(* demote it and try again.  A probe goroutine pings Redis and signals a   *)
(* promotion; handlePromotions switches back.  Switching back and stopping *)
(* the probe are two steps, and only the second takes the mutex.           *)
(*                                                                         *)
(* active is an atomic.Value, whose Store panics when the concrete type of *)
(* the new value differs from the old one's.  sameType says whether the    *)
(* two stores have one type, as the mocks of failover_test.go do;          *)
(* *redis.Store and *memory.Store do not.  The mocks report every failure  *)
(* as unavailable, the Redis store only those of some operations.          *)
(***************************************************************************)
EXTENDS Naturals

CONSTANTS
    Calls,             \* calls of the Store interface
    Wrapped,           \* those of Set, Get, SetString and GetString
    Types,             \* possible values of sameType
    MaxOutages         \* bound: how often Redis becomes unreachable

ASSUME FailoverAssumption ==
    Wrapped \subseteq Calls /\ Types \subseteq BOOLEAN /\ MaxOutages \in Nat

Handlers == {"handler1", "handler2"}

VARIABLES
    mode,              \* "starting", "pinging", then "failover", "redis", "memory", "crashed"
    failoverEnabled,   \* Config.FailoverEnabled
    sameType,
    up,                \* whether Redis answers
    outages,
    active,            \* the active store
    probing,           \* fs.probing
    prober,            \* probeLoop: "none", "looping", "healthy", "returned"
    probeStop,         \* whether the current probeStop channel is closed
    promote,           \* signals in the promote channel, of capacity 1
    handler,           \* handlePromotions: "none", "waiting", "switch", "stop", "join", "gone"
    mu,                \* who holds the mutex while it waits, or "free"
    closing,           \* Close: "no", "begun", "join", "stores", "closed"
    call,              \* where each call is, or how it ended
    store              \* the store each call loaded

startVars == <<mode, failoverEnabled, sameType>>
redisVars == <<up, outages>>
probeVars == <<probing, prober, probeStop, promote>>
callVars == <<call, store>>
vars == <<startVars, redisVars, active, probeVars, handler, mu, closing, callVars>>

CallEnds == {"ok", "error", "unavailable", "panicked"}

-----------------------------------------------------------------------------
(* NewStoreFromConfig for the redis backend: connect, then ping.           *)

\* redis.New fails: the memory store is returned on its own, for good
Connect ==
    /\ mode = "starting"
    /\ mode' = IF up THEN "pinging" ELSE "memory"
    /\ active' = IF up THEN active ELSE "fallback"
    /\ UNCHANGED <<failoverEnabled, sameType, redisVars, probeVars, handler, mu, closing, callVars>>

\* NewFailoverStore, or NewFailoverStoreWithFallbackActive: the latter stores
\* both stores into active, and starts a second handlePromotions
PingAtStartup ==
    /\ mode = "pinging"
    /\ \/ /\ up
          /\ mode' = IF failoverEnabled THEN "failover" ELSE "redis"
          /\ handler' = [handler EXCEPT !["handler1"] =
                            IF failoverEnabled THEN "waiting" ELSE "none"]
          /\ UNCHANGED <<active, probing, prober>>
       \/ /\ ~up /\ ~failoverEnabled
          /\ mode' = "memory" /\ active' = "fallback"
          /\ UNCHANGED <<handler, probing, prober>>
       \/ /\ ~up /\ failoverEnabled /\ ~sameType
          /\ mode' = "crashed"
          /\ UNCHANGED <<active, handler, probing, prober>>
       \/ /\ ~up /\ failoverEnabled /\ sameType
          /\ mode' = "failover" /\ active' = "fallback"
          /\ handler' = [h \in Handlers |-> "waiting"]
          /\ probing' = TRUE /\ prober' = "looping"
    /\ UNCHANGED <<failoverEnabled, sameType, redisVars, probeStop, promote, mu, closing, callVars>>

-----------------------------------------------------------------------------
(* executeWithFailover, for one call. *)

Started == mode \in {"failover", "redis", "memory"}

LoadActive(c) ==
    /\ Started
    /\ call[c] = "idle"
    /\ store' = [store EXCEPT ![c] = active]
    /\ call' = [call EXCEPT ![c] = "run"]
    /\ UNCHANGED <<startVars, redisVars, active, probeVars, handler, mu, closing>>

\* wrapConnectionError, which turns a connection error into ErrBackendUnavailable,
\* is called by Set and Get (and Ping) of the Redis store only
ReportsUnavailable(c) == sameType \/ c \in Wrapped

AfterFailure(c) ==
    IF ~ReportsUnavailable(c) THEN "error"
    ELSE IF mode = "failover" THEN "demote" ELSE "unavailable"

\* A store that has been closed refuses the call, except that memory starts anew.
Refuses(s) == closing \in {"stores", "closed"} /\ (s = "primary" \/ sameType)

Run(c) ==
    /\ call[c] = "run"
    /\ \/ /\ store[c] = "fallback" \/ up
          /\ closing # "closed" \/ ~Refuses(store[c])
          /\ call' = [call EXCEPT ![c] = "ok"]
       \/ /\ store[c] = "primary" /\ ~up /\ closing # "closed"
          /\ call' = [call EXCEPT ![c] = AfterFailure(c)]
       \/ /\ Refuses(store[c])
          /\ call' = [call EXCEPT ![c] = "error"]
    /\ UNCHANGED <<startVars, redisVars, active, probeVars, handler, mu, closing, store>>

StartProbing ==
    /\ probing' = TRUE
    /\ IF probing THEN UNCHANGED <<prober, probeStop>>
       ELSE prober' = "looping" /\ probeStop' = FALSE

DemoteToFallback(c) ==
    /\ call[c] = "demote"
    /\ mu = "free"
    /\ \/ /\ active = "fallback"
          /\ call' = [call EXCEPT ![c] = "retry"]
          /\ UNCHANGED <<active, probing, prober, probeStop>>
       \/ /\ active = "primary" /\ sameType
          /\ active' = "fallback"
          /\ StartProbing
          /\ call' = [call EXCEPT ![c] = "retry"]
       \/ /\ active = "primary" /\ ~sameType
          /\ call' = [call EXCEPT ![c] = "panicked"]     \* the deferred Unlock runs
          /\ UNCHANGED <<active, probing, prober, probeStop>>
    /\ UNCHANGED <<startVars, redisVars, promote, handler, mu, closing, store>>

\* When a promotion came first, the first error is returned.
Retry(c) ==
    /\ call[c] = "retry"
    /\ \/ /\ active = "fallback"
          /\ closing # "closed" \/ ~Refuses("fallback")
          /\ call' = [call EXCEPT ![c] = "ok"]
       \/ /\ active = "fallback" /\ Refuses("fallback")
          /\ call' = [call EXCEPT ![c] = "error"]
       \/ /\ active = "primary"
          /\ call' = [call EXCEPT ![c] = "unavailable"]
    /\ UNCHANGED <<startVars, redisVars, active, probeVars, handler, mu, closing, store>>

-----------------------------------------------------------------------------
(* probeLoop *)

Ping ==
    /\ prober = "looping"
    /\ up
    /\ prober' = "healthy"
    /\ UNCHANGED <<startVars, redisVars, active, probing, probeStop, promote, handler, mu, closing, callVars>>

\* signalPromotion drops the signal when one is pending; the loop then returns
SignalPromotion ==
    /\ prober = "healthy"
    /\ promote' = 1
    /\ prober' = "returned"
    /\ UNCHANGED <<startVars, redisVars, active, probing, probeStop, handler, mu, closing, callVars>>

\* Mutant: the loop only ends when it finds Redis healthy
ProbeOnlyByHealth ==
    /\ prober = "looping" /\ up /\ probeStop
    /\ prober' = "returned"
    /\ UNCHANGED <<startVars, redisVars, active, probing, probeStop, promote, handler, mu, closing, callVars>>

ProbeStops ==
    /\ prober = "looping"
    /\ probeStop \/ closing # "no"
    /\ prober' = "returned"
    /\ UNCHANGED <<startVars, redisVars, active, probing, probeStop, promote, handler, mu, closing, callVars>>

-----------------------------------------------------------------------------
(* handlePromotions *)

\* Mutant: the check for "already using primary" is inverted
ReceivePromotionInverted(h) ==
    /\ handler[h] = "waiting"
    /\ promote = 1
    /\ promote' = 0
    /\ handler' = [handler EXCEPT ![h] = IF active = "fallback" THEN "waiting" ELSE "switch"]
    /\ UNCHANGED <<startVars, redisVars, active, probing, prober, probeStop, mu, closing, callVars>>

ReceivePromotion(h) ==
    /\ handler[h] = "waiting"
    /\ promote = 1
    /\ promote' = 0
    /\ handler' = [handler EXCEPT ![h] = IF active = "primary" THEN "waiting" ELSE "switch"]
    /\ UNCHANGED <<startVars, redisVars, active, probing, prober, probeStop, mu, closing, callVars>>

SwitchToPrimary(h) ==
    /\ handler[h] = "switch"
    /\ active' = "primary"
    /\ handler' = [handler EXCEPT ![h] = "stop"]
    /\ UNCHANGED <<startVars, redisVars, probeVars, mu, closing, callVars>>

\* stopProbing: close(probeStop), then wait for the probe with the mutex held
StopProbing(h) ==
    /\ handler[h] = "stop"
    /\ mu = "free"
    /\ IF probing
       THEN /\ probeStop' = TRUE /\ mu' = h
            /\ handler' = [handler EXCEPT ![h] = "join"]
       ELSE /\ handler' = [handler EXCEPT ![h] = "waiting"]
            /\ UNCHANGED <<probeStop, mu>>
    /\ UNCHANGED <<startVars, redisVars, active, probing, prober, promote, closing, callVars>>

JoinProbe(h) ==
    /\ handler[h] = "join"
    /\ prober = "returned"
    /\ probing' = FALSE /\ mu' = "free"
    /\ handler' = [handler EXCEPT ![h] = "waiting"]
    /\ UNCHANGED <<startVars, redisVars, active, prober, probeStop, promote, closing, callVars>>

HandlerStops(h) ==
    /\ handler[h] = "waiting"
    /\ closing # "no"
    /\ handler' = [handler EXCEPT ![h] = "gone"]
    /\ UNCHANGED <<startVars, redisVars, active, probeVars, mu, closing, callVars>>

-----------------------------------------------------------------------------
(* Close *)

BeginClose ==
    /\ mode = "failover" /\ closing = "no"
    /\ closing' = "begun"
    /\ UNCHANGED <<startVars, redisVars, active, probeVars, handler, mu, callVars>>

\* Mutant: Close does not wait for the probe
CloseWithoutJoin ==
    /\ closing = "begun"
    /\ mu = "free"
    /\ probeStop' = TRUE /\ probing' = FALSE /\ closing' = "stores"
    /\ UNCHANGED <<startVars, redisVars, active, prober, promote, handler, mu, callVars>>

CloseStopsProbing ==
    /\ closing = "begun"
    /\ mu = "free"
    /\ IF probing THEN probeStop' = TRUE /\ mu' = "closer" /\ closing' = "join"
       ELSE closing' = "stores" /\ UNCHANGED <<probeStop, mu>>
    /\ UNCHANGED <<startVars, redisVars, active, probing, prober, promote, handler, callVars>>

CloseJoins ==
    /\ closing = "join"
    /\ prober = "returned"
    /\ probing' = FALSE /\ mu' = "free" /\ closing' = "stores"
    /\ UNCHANGED <<startVars, redisVars, active, prober, probeStop, promote, handler, callVars>>

CloseStores ==
    /\ closing = "stores"
    /\ closing' = "closed"
    /\ UNCHANGED <<startVars, redisVars, active, probeVars, handler, mu, callVars>>

-----------------------------------------------------------------------------
(* Redis itself. *)

RedisFails ==
    /\ up /\ outages < MaxOutages
    /\ up' = FALSE /\ outages' = outages + 1
    /\ UNCHANGED <<startVars, active, probeVars, handler, mu, closing, callVars>>

RedisRecovers ==
    /\ ~up
    /\ up' = TRUE
    /\ UNCHANGED <<startVars, outages, active, probeVars, handler, mu, closing, callVars>>

-----------------------------------------------------------------------------

Init ==
    /\ mode = "starting"
    /\ failoverEnabled \in BOOLEAN
    /\ sameType \in Types
    /\ up \in BOOLEAN /\ outages = 0
    /\ active = "primary"
    /\ probing = FALSE /\ prober = "none" /\ probeStop = FALSE /\ promote = 0
    /\ handler = [h \in Handlers |-> "none"]
    /\ mu = "free" /\ closing = "no"
    /\ call = [c \in Calls |-> "idle"]
    /\ store = [c \in Calls |-> "primary"]

CallStep(c) == Run(c) \/ DemoteToFallback(c) \/ Retry(c)

ProbeStep == Ping \/ SignalPromotion \/ ProbeStops

HandlerStep(h) ==
    \/ ReceivePromotion(h)
    \/ SwitchToPrimary(h)
    \/ StopProbing(h)
    \/ JoinProbe(h)
    \/ HandlerStops(h)

CloseStep == CloseStopsProbing \/ CloseJoins \/ CloseStores

Next ==
    \/ Connect
    \/ PingAtStartup
    \/ \E c \in Calls : LoadActive(c)
    \/ \E c \in Calls : CallStep(c)
    \/ ProbeStep
    \/ \E h \in Handlers : HandlerStep(h)
    \/ BeginClose
    \/ CloseStep
    \/ RedisFails
    \/ RedisRecovers

Spec == Init /\ [][Next]_vars

(***************************************************************************)
(* Every goroutine keeps running.  Nothing obliges Redis to come back,     *)
(* callers to call or anyone to close the store.                           *)
(***************************************************************************)
FairSpec ==
    /\ Spec
    /\ \A c \in Calls : WF_vars(CallStep(c))
    /\ WF_vars(ProbeStep)
    /\ \A h \in Handlers : WF_vars(HandlerStep(h))
    /\ WF_vars(CloseStep)

-----------------------------------------------------------------------------

\* Type invariant.
FailoverTypeOK ==
    /\ mode \in {"starting", "pinging", "failover", "redis", "memory", "crashed"}
    /\ failoverEnabled \in BOOLEAN /\ sameType \in BOOLEAN
    /\ up \in BOOLEAN /\ outages \in Nat
    /\ active \in {"primary", "fallback"}
    /\ probing \in BOOLEAN /\ probeStop \in BOOLEAN /\ promote \in {0, 1}
    /\ prober \in {"none", "looping", "healthy", "returned"}
    /\ handler \in [Handlers -> {"none", "waiting", "switch", "stop", "join", "gone"}]
    /\ mu \in Handlers \cup {"closer", "free"}
    /\ closing \in {"no", "begun", "join", "stores", "closed"}
    /\ call \in [Calls -> {"idle", "run", "demote", "retry"} \cup CallEnds]
    /\ store \in [Calls -> {"primary", "fallback"}]

(***************************************************************************)
(* No probe goroutine outlives the flag that accounts for it, and a        *)
(* probeStop channel that may still be closed is open: however demotions,  *)
(* promotions and Close interleave, at most one probe runs and no channel  *)
(* is closed twice (which would panic).                                    *)
(***************************************************************************)
OneProbe ==
    /\ prober \in {"looping", "healthy"} => probing
    /\ probing /\ mu = "free" => ~probeStop

\* Every call returns, whatever Redis, the probe and Close do meanwhile.
EveryCallReturns == \A c \in Calls : call[c] = "run" ~> call[c] \in CallEnds

\* Close returns: it holds the mutex while it waits for a probe that never needs it.
CloseReturns == closing = "begun" ~> closing = "closed"

\* Nobody waits for ever: neither calls, before, during or after Close, nor Close
\* (executeWithFailover, stopProbing).
NobodyStuck == EveryCallReturns /\ CloseReturns

\* A store that runs on memory with a probe looping returns to Redis, unless
\* Redis fails again or the store is closed.
ProbeRestores ==
    (active = "fallback" /\ prober = "looping") ~> (active = "primary" \/ ~up \/ closing # "no")

=============================================================================
