--------------------------- MODULE FailoverProofs ---------------------------
(***************************************************************************)
(* The store that fails over keeps its types and runs at most one probe,   *)
(* for any number of concurrent calls, any choice of operations and any    *)
(* number of outages of Redis.                                             *)
(***************************************************************************)
EXTENDS Failover, TLAPS

-----------------------------------------------------------------------------
(* Types. *)

\* Type correctness of every step of calls, probe, handlers and Close.
LEMMA TypeStep == FailoverTypeOK /\ [Next]_vars => FailoverTypeOK'
<1> USE FailoverAssumption
<1> SUFFICES ASSUME FailoverTypeOK, [Next]_vars
             PROVE  FailoverTypeOK'
    OBVIOUS
<1>1. CASE Connect
    BY <1>1 DEF Connect, FailoverTypeOK, redisVars, probeVars, callVars
<1>2. CASE PingAtStartup
  <2>1. handler' \in [Handlers -> {"none", "waiting", "switch", "stop", "join", "gone"}]
      BY <1>2 DEF PingAtStartup, FailoverTypeOK
  <2>2. /\ mode' \in {"starting", "pinging", "failover", "redis", "memory", "crashed"}
        /\ active' \in {"primary", "fallback"}
        /\ probing' \in BOOLEAN
        /\ prober' \in {"none", "looping", "healthy", "returned"}
      BY <1>2 DEF PingAtStartup, FailoverTypeOK
  <2>3. UNCHANGED <<failoverEnabled, sameType, redisVars, probeStop, promote, mu, closing, callVars>>
      BY <1>2 DEF PingAtStartup
  <2> QED
      BY <2>1, <2>2, <2>3 DEF FailoverTypeOK, redisVars, callVars
<1>3. ASSUME NEW c \in Calls, LoadActive(c)
      PROVE  FailoverTypeOK'
    BY <1>3 DEF LoadActive, FailoverTypeOK, startVars, redisVars, probeVars
<1>4. ASSUME NEW c \in Calls, CallStep(c)
      PROVE  FailoverTypeOK'
  <2>1. CASE Run(c)
    <3>1. AfterFailure(c) \in {"idle", "run", "demote", "retry"} \cup CallEnds
        BY DEF AfterFailure, CallEnds
    <3>2. {"ok", "error"} \subseteq {"idle", "run", "demote", "retry"} \cup CallEnds
        BY DEF CallEnds
    <3>4. call' \in [Calls -> {"idle", "run", "demote", "retry"} \cup CallEnds]
        BY <2>1, <3>1, <3>2 DEF Run, FailoverTypeOK
    <3>5. UNCHANGED <<startVars, redisVars, active, probeVars, handler, mu, closing, store>>
        BY <2>1 DEF Run
    <3> QED
        BY <3>4, <3>5 DEF FailoverTypeOK, startVars, redisVars, probeVars
  <2>2. CASE DemoteToFallback(c)
    <3>1. call' \in [Calls -> {"idle", "run", "demote", "retry"} \cup CallEnds]
        BY <2>2 DEF DemoteToFallback, FailoverTypeOK, CallEnds
    <3>2. /\ active' \in {"primary", "fallback"}
          /\ probing' \in BOOLEAN /\ probeStop' \in BOOLEAN
          /\ prober' \in {"none", "looping", "healthy", "returned"}
        BY <2>2 DEF DemoteToFallback, StartProbing, FailoverTypeOK
    <3>3. UNCHANGED <<startVars, redisVars, promote, handler, mu, closing, store>>
        BY <2>2 DEF DemoteToFallback
    <3> QED
        BY <3>1, <3>2, <3>3 DEF FailoverTypeOK, startVars, redisVars
  <2>3. CASE Retry(c)
    <3>1. call' \in [Calls -> {"idle", "run", "demote", "retry"} \cup CallEnds]
        BY <2>3 DEF Retry, FailoverTypeOK, CallEnds
    <3>3. UNCHANGED <<startVars, redisVars, active, probeVars, handler, mu, closing, store>>
        BY <2>3 DEF Retry
    <3> QED
        BY <3>1, <3>3 DEF FailoverTypeOK, startVars, redisVars, probeVars
  <2> QED
      BY <1>4, <2>1, <2>2, <2>3 DEF CallStep
<1>5. CASE ProbeStep
    BY <1>5 DEF ProbeStep, Ping, SignalPromotion, ProbeStops, FailoverTypeOK,
                startVars, redisVars, callVars
<1>6. ASSUME NEW h \in Handlers, HandlerStep(h)
      PROVE  FailoverTypeOK'
  <2>1. CASE ReceivePromotion(h) \/ SwitchToPrimary(h) \/ HandlerStops(h)
      BY <2>1 DEF ReceivePromotion, SwitchToPrimary, HandlerStops, FailoverTypeOK,
                  startVars, redisVars, probeVars, callVars
  <2>2. CASE StopProbing(h) \/ JoinProbe(h)
    <3>1. /\ handler' \in [Handlers -> {"none", "waiting", "switch", "stop", "join", "gone"}]
          /\ mu' \in Handlers \cup {"closer", "free"}
        BY <1>6, <2>2 DEF StopProbing, JoinProbe, FailoverTypeOK
    <3>2. probing' \in BOOLEAN /\ probeStop' \in BOOLEAN
        BY <2>2 DEF StopProbing, JoinProbe, FailoverTypeOK
    <3>3. UNCHANGED <<startVars, redisVars, active, prober, promote, closing, callVars>>
        BY <2>2 DEF StopProbing, JoinProbe
    <3> QED
        BY <3>1, <3>2, <3>3 DEF FailoverTypeOK, startVars, redisVars, callVars
  <2> QED
      BY <1>6, <2>1, <2>2 DEF HandlerStep
<1>7. CASE BeginClose
    BY <1>7 DEF BeginClose, FailoverTypeOK, startVars, redisVars, probeVars, callVars
<1>8. CASE CloseStep
  <2>1. /\ mu' \in Handlers \cup {"closer", "free"}
        /\ closing' \in {"no", "begun", "join", "stores", "closed"}
      BY <1>8 DEF CloseStep, CloseStopsProbing, CloseJoins, CloseStores, FailoverTypeOK
  <2>2. probing' \in BOOLEAN /\ probeStop' \in BOOLEAN
      BY <1>8 DEF CloseStep, CloseStopsProbing, CloseJoins, CloseStores, probeVars, FailoverTypeOK
  <2>3. UNCHANGED <<startVars, redisVars, active, prober, promote, handler, callVars>>
      BY <1>8 DEF CloseStep, CloseStopsProbing, CloseJoins, CloseStores, probeVars
  <2> QED
      BY <2>1, <2>2, <2>3 DEF FailoverTypeOK, startVars, redisVars, callVars
<1>9. CASE RedisFails \/ RedisRecovers
  <2>1. outages' \in Nat
      BY <1>9 DEF RedisFails, RedisRecovers, FailoverTypeOK
  <2>2. up' \in BOOLEAN
      BY <1>9 DEF RedisFails, RedisRecovers
  <2>3. UNCHANGED <<startVars, active, probeVars, handler, mu, closing, callVars>>
      BY <1>9 DEF RedisFails, RedisRecovers
  <2> QED
      BY <2>1, <2>2, <2>3 DEF FailoverTypeOK, startVars, probeVars, callVars
<1>10. CASE UNCHANGED vars
    BY <1>10 DEF vars, FailoverTypeOK, startVars, redisVars, probeVars, callVars
<1> QED
    BY <1>1, <1>2, <1>3, <1>4, <1>5, <1>6, <1>7, <1>8, <1>9, <1>10 DEF Next

\* Every variable of the failover store keeps its type.
THEOREM FailoverTypeCorrect == Spec => []FailoverTypeOK
<1>1. ASSUME Init
      PROVE  FailoverTypeOK
  <2>1. failoverEnabled \in BOOLEAN /\ sameType \in BOOLEAN /\ up \in BOOLEAN
      BY <1>1, FailoverAssumption, Zenon DEF Init
  <2>2. probing \in BOOLEAN /\ probeStop \in BOOLEAN
      BY <1>1 DEF Init
  <2>3. call \in [Calls -> {"idle", "run", "demote", "retry"} \cup CallEnds]
      BY <1>1 DEF Init
  <2> QED
      BY <1>1, <2>1, <2>2, <2>3 DEF Init, FailoverTypeOK
<1> QED
    BY <1>1, TypeStep, PTL DEF Spec

-----------------------------------------------------------------------------
(* One probe. *)

(***************************************************************************)
(* OneProbe is not inductive: it says nothing while somebody holds the     *)
(* mutex, and joining hands it back.  Whoever holds the mutex is the one   *)
(* that waits for the probe, the probe is accounted for meanwhile, and     *)
(* before the store exists nothing of this has begun.                      *)
(***************************************************************************)
ProbeInv ==
    /\ OneProbe
    /\ \A h \in Handlers : handler[h] = "join" <=> mu = h
    /\ closing = "join" <=> mu = "closer"
    /\ mode \in {"starting", "pinging"} =>
            /\ ~probing /\ ~probeStop /\ prober = "none"
            /\ mu = "free" /\ closing = "no"
            /\ \A h \in Handlers : handler[h] = "none"
            /\ \A c \in Calls : call[c] = "idle"

\* Every step keeps the probe accounted for.
LEMMA ProbeStepInv == FailoverTypeOK /\ ProbeInv /\ [Next]_vars => ProbeInv'
<1> SUFFICES ASSUME FailoverTypeOK, ProbeInv, [Next]_vars
             PROVE  ProbeInv'
    OBVIOUS
<1>1. CASE Connect
    BY <1>1 DEF Connect, FailoverTypeOK, ProbeInv, OneProbe, redisVars, probeVars, callVars
<1>2. CASE PingAtStartup
    BY <1>2 DEF PingAtStartup, FailoverTypeOK, ProbeInv, OneProbe, redisVars, callVars, Handlers
<1>3. ASSUME NEW c \in Calls, LoadActive(c)
      PROVE  ProbeInv'
    BY <1>3 DEF LoadActive, Started, ProbeInv, OneProbe, startVars, redisVars, probeVars
<1>4. ASSUME NEW c \in Calls, CallStep(c)
      PROVE  ProbeInv'
  <2>1. CASE Run(c) \/ Retry(c)
      BY <2>1 DEF Run, Retry, ProbeInv, OneProbe, startVars, redisVars, probeVars
  <2>2. CASE DemoteToFallback(c)
    <3>1. CASE active = "primary" /\ sameType /\ StartProbing
      <4>1. OneProbe'
          BY <2>2, <3>1 DEF DemoteToFallback, StartProbing, ProbeInv, OneProbe
      <4>2. mode \notin {"starting", "pinging"}
          BY <2>2 DEF DemoteToFallback, ProbeInv
      <4> QED
          BY <2>2, <3>1, <4>1, <4>2 DEF DemoteToFallback, ProbeInv, startVars
    <3>2. CASE UNCHANGED <<probing, prober, probeStop>>
        BY <2>2, <3>2 DEF DemoteToFallback, ProbeInv, OneProbe, startVars, redisVars
    <3> QED
        BY <2>2, <3>1, <3>2 DEF DemoteToFallback
  <2> QED
      BY <1>4, <2>1, <2>2 DEF CallStep
<1>5. CASE ProbeStep
    BY <1>5 DEF ProbeStep, Ping, SignalPromotion, ProbeStops, ProbeInv, OneProbe,
                startVars, redisVars, callVars
<1>6. ASSUME NEW h \in Handlers, HandlerStep(h)
      PROVE  ProbeInv'
  <2>1. CASE ReceivePromotion(h) \/ SwitchToPrimary(h) \/ HandlerStops(h)
      BY <2>1 DEF ReceivePromotion, SwitchToPrimary, HandlerStops, ProbeInv, OneProbe,
                  FailoverTypeOK, startVars, redisVars, probeVars, callVars
  <2>2. CASE StopProbing(h)
      BY <2>2 DEF StopProbing, ProbeInv, OneProbe, FailoverTypeOK, Handlers,
                  startVars, redisVars, callVars
  <2>3. CASE JoinProbe(h)
      BY <2>3 DEF JoinProbe, ProbeInv, OneProbe, FailoverTypeOK, Handlers,
                  startVars, redisVars, callVars
  <2> QED
      BY <1>6, <2>1, <2>2, <2>3 DEF HandlerStep
<1>7. CASE BeginClose
    BY <1>7 DEF BeginClose, ProbeInv, OneProbe, startVars, redisVars, probeVars, callVars
<1>8. CASE CloseStep
    BY <1>8 DEF CloseStep, CloseStopsProbing, CloseJoins, CloseStores, ProbeInv, OneProbe,
                FailoverTypeOK, Handlers, startVars, redisVars, probeVars, callVars
<1>9. CASE RedisFails \/ RedisRecovers
    BY <1>9 DEF RedisFails, RedisRecovers, ProbeInv, OneProbe, startVars, probeVars, callVars
<1>10. CASE UNCHANGED vars
    BY <1>10 DEF vars, ProbeInv, OneProbe, startVars, redisVars, probeVars, callVars
<1> QED
    BY <1>1, <1>2, <1>3, <1>4, <1>5, <1>6, <1>7, <1>8, <1>9, <1>10 DEF Next

\* At most one probe goroutine runs and no stop channel is closed twice, however
\* demotions, promotions and Close interleave (startProbingUnsafe, stopProbing).
THEOREM FailoverOneProbe == Spec => []OneProbe
<1>1. Init => ProbeInv
    BY DEF Init, ProbeInv, OneProbe, Handlers
<1>2. ProbeInv => OneProbe
    BY DEF ProbeInv
<1> QED
    BY <1>1, <1>2, FailoverTypeCorrect, ProbeStepInv, PTL DEF Spec

=============================================================================
