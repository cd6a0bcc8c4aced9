------------------------- MODULE CachedReadsProofs -------------------------
(***************************************************************************)
(* The read path keeps its types and every key in flight has exactly one   *)
(* leader, for any number of requests, any endpoints, any history of the   *)
(* chain and any failures of chain and cache.                              *)
(***************************************************************************)
EXTENDS CachedReads, SequenceTheorems, TLAPS

-----------------------------------------------------------------------------
(* Types. *)

Outcomes == [ok : {TRUE}, value : Values] \cup {Failed}

ReadingPCs == {"get", "fetch", "fSupply", "xSupply", "index", "set", "leave"}
ActivePCs == ReadingPCs \cup {"enter", "wait", "handle"}

\* the amounts a request gets past the validation with
ValidAmounts == {a \in Amounts : ValidAmount(a)}

\* a request between its arrival and its answer
Active(r) == [pc : ActivePCs, endpoint : Asks[r], amount : ValidAmounts, kind : Kinds,
              results : Seq(Outcomes), read : Outcomes, since : Versions]

Shape(r) ==
    \/ request[r] = [pc |-> "idle"]
    \/ request[r] \in Active(r)
    \/ request[r].pc = "done" /\ request[r].endpoint \in Asks[r]

\* balances are neither looked up nor stored, only a stake waits for the index and
\* only a state for the supplies
Stage(r) ==
    /\ request[r].pc \in {"get", "set"} => request[r].kind # "balances"
    /\ request[r].pc = "index" => request[r].kind = "spUser"
    /\ request[r].pc \in {"fSupply", "xSupply"} => request[r].kind = "state"
    /\ request[r].pc \in {"fSupply", "xSupply", "set", "index"} =>
           request[r].read \in [ok : {TRUE}, value : Values]

(***************************************************************************)
(* ReadsTypeOK is not inductive: what is cached and returned is typed only *)
(* because every request in between is.                                    *)
(***************************************************************************)
ReadsInv ==
    /\ chain \in Versions
    /\ cache \in [CacheKeys -> Values \cup {None}]
    /\ flight \in [Kinds -> Requests \cup {None}]
    /\ request = [r \in Requests |-> request[r]]
    /\ \A r \in Requests : Shape(r) /\ Stage(r)
    /\ served \in [Kinds -> Versions]
    /\ faulted \in BOOLEAN

\* What a handler reads next is a kind of read or nothing.
LEMMA NextReadKind ==
    ASSUME NEW ep, NEW results
    PROVE  NextRead(ep, results) \in Kinds \cup {None}
BY DEF NextRead, OneRead, MetricsReads, PositionsReads, Kinds

\* A handler always makes a first read.
LEMMA FirstReadKind ==
    ASSUME NEW ep
    PROVE  NextRead(ep, <<>>) \in Kinds
BY DEF NextRead, OneRead, MetricsReads, PositionsReads, Kinds

\* Everything but balances is cached under some key.
LEMMA KeyOfCached ==
    ASSUME NEW k \in Kinds, k # "balances"
    PROVE  KeyOf(k) \in CacheKeys
BY DEF Kinds, KeyOf, CacheKeys

\* A request that is neither waiting to be made nor answered is active.
LEMMA ActiveShape ==
    ASSUME ReadsInv, NEW r \in Requests, request[r].pc \in ActivePCs
    PROVE  request[r] \in Active(r)
<1>1. Shape(r)
    BY DEF ReadsInv
<1>2. request[r].pc # "idle" /\ request[r].pc # "done"
    BY DEF ActivePCs, ReadingPCs
<1> QED
    BY <1>1, <1>2 DEF Shape

\* A step that changes one request keeps the others as they were.
LEMMA OneRequestChanges ==
    ASSUME ReadsInv, NEW r \in Requests, NEW v,
           request' = [request EXCEPT ![r] = v],
           \/ v \in Active(r)
           \/ v.pc = "done" /\ v.endpoint \in Asks[r],
           /\ v.pc \in {"get", "set"} => v.kind # "balances"
           /\ v.pc = "index" => v.kind = "spUser"
           /\ v.pc \in {"fSupply", "xSupply"} => v.kind = "state"
           /\ v.pc \in {"fSupply", "xSupply", "set", "index"} =>
                  v.read \in [ok : {TRUE}, value : Values]
    PROVE  /\ (request = [q \in Requests |-> request[q]])'
           /\ (\A q \in Requests : Shape(q) /\ Stage(q))'
<1>1. /\ request'[r] = v
      /\ \A q \in Requests : q # r => request'[q] = request[q]
    BY DEF ReadsInv
<1>2. Shape(r)' /\ Stage(r)'
    BY <1>1 DEF Shape, Stage, Active
<1>3. ASSUME NEW q \in Requests, q # r
      PROVE  Shape(q)' /\ Stage(q)'
    BY <1>1, <1>3 DEF ReadsInv, Shape, Stage, Active
<1>4. request' = [q \in Requests |-> request'[q]]
    BY DEF ReadsInv
<1> QED
    BY <1>2, <1>3, <1>4

\* Types are kept by every step of a request, by the chain and by the cache.
LEMMA ReadsInvStep == ReadsInv /\ [Next]_vars => ReadsInv'
<1> SUFFICES ASSUME ReadsInv, [Next]_vars
             PROVE  ReadsInv'
    OBVIOUS
<1> USE ReadsAssumption
<1>1. ASSUME NEW r \in Requests, NEW a \in Amounts, NEW ep \in Asks[r], Arrive(r, ep, a)
      PROVE  ReadsInv'
  <2> DEFINE v == [pc |-> "enter", endpoint |-> ep, amount |-> a, kind |-> NextRead(ep, <<>>),
                   results |-> <<>>, read |-> Failed, since |-> 0]
  <2>1. v \in Active(r)
    <3>1. 0 \in Versions
        BY DEF Versions
    <3>2. <<>> \in Seq(Outcomes) /\ Failed \in Outcomes
        BY DEF Outcomes
    <3>3. a \in ValidAmounts
        BY <1>1 DEF Arrive, ValidAmounts
    <3> QED
        BY <3>1, <3>2, <3>3, FirstReadKind DEF Active, ActivePCs
  <2>2. request' = [request EXCEPT ![r] = v]
      BY <1>1 DEF Arrive
  <2> HIDE DEF v
  <2>3. v.pc = "enter"
      BY DEF v
  <2> QED
      BY <1>1, <2>1, <2>2, <2>3, OneRequestChanges DEF Arrive, ReadsInv
<1>2. ASSUME NEW r \in Requests, Enter(r)
      PROVE  ReadsInv'
  <2> DEFINE k == request[r].kind
             lead == [request[r] EXCEPT !.pc = IF KeyOf(k) = None THEN "fetch" ELSE "get",
                                        !.since = served[k]]
             wait == [request[r] EXCEPT !.pc = "wait"]
  <2>1. request[r] \in Active(r)
      BY <1>2, ActiveShape DEF Enter, ActivePCs
  <2>2. CASE flight[k] # None
    <3>1. wait \in Active(r) /\ wait.pc = "wait"
        BY <2>1 DEF Active, ActivePCs
    <3>2. request' = [request EXCEPT ![r] = wait]
        BY <1>2, <2>2 DEF Enter, Step
    <3>3. UNCHANGED <<chain, cache, flight, served, faulted>>
        BY <1>2, <2>2 DEF Enter
    <3> HIDE DEF wait
    <3> QED
        BY <3>1, <3>2, <3>3, OneRequestChanges DEF ReadsInv
  <2>3. CASE flight[k] = None
    <3>1. k \in Kinds
        BY <2>1 DEF Active
    <3>2. lead \in Active(r) /\ lead.kind = k
        BY <2>1, <3>1 DEF Active, ActivePCs, ReadingPCs, ReadsInv
    <3>3. lead.pc \in {"fetch", "get"} /\ (lead.pc = "get" => k # "balances")
        BY <2>1 DEF Active, KeyOf
    <3>4. request' = [request EXCEPT ![r] = lead]
        BY <1>2, <2>3 DEF Enter
    <3>5. flight' = [flight EXCEPT ![k] = r] /\ UNCHANGED <<chain, cache, served, faulted>>
        BY <1>2, <2>3 DEF Enter
    <3>6. flight' \in [Kinds -> Requests \cup {None}]
        BY <3>5 DEF ReadsInv
    <3> HIDE DEF lead
    <3> QED
        BY <3>2, <3>3, <3>4, <3>5, <3>6, OneRequestChanges DEF ReadsInv
  <2> QED
      BY <2>2, <2>3
<1>3. ASSUME NEW r \in Requests, Leave(r)
      PROVE  ReadsInv'
  <2> DEFINE k == request[r].kind
             res == request[r].read
             v == [request[r] EXCEPT !.pc = "handle", !.results = Append(@, res)]
  <2>1. request[r] \in Active(r)
      BY <1>3, ActiveShape DEF Leave, ActivePCs, ReadingPCs
  <2>2. v \in Active(r) /\ v.pc = "handle"
    <3>1. Append(request[r].results, res) \in Seq(Outcomes)
        BY <2>1, AppendProperties DEF Active
    <3> QED
        BY <2>1, <3>1 DEF Active, ActivePCs
  <2>3. request' = [request EXCEPT ![r] = v]
      BY <1>3 DEF Leave
  <2>4. flight' \in [Kinds -> Requests \cup {None}]
      BY <1>3 DEF Leave, ReadsInv
  <2>5. served' \in [Kinds -> Versions]
    <3>1. k \in Kinds /\ res \in Outcomes
        BY <2>1 DEF Active
    <3>2. res.ok => res.value.version \in Versions
      <4>1. CASE res = Failed
          BY <4>1 DEF Failed
      <4>2. CASE res \in [ok : {TRUE}, value : Values]
          BY <4>2 DEF Values
      <4> QED
          BY <3>1, <4>1, <4>2 DEF Outcomes
    <3>3. served' = [served EXCEPT ![k] = IF res.ok /\ res.value.version > @ THEN res.value.version ELSE @]
        BY <1>3 DEF Leave
    <3> QED
        BY <3>1, <3>2, <3>3 DEF ReadsInv
  <2>6. UNCHANGED <<chain, cache, faulted>>
      BY <1>3 DEF Leave
  <2> HIDE DEF v
  <2> QED
      BY <2>2, <2>3, <2>4, <2>5, <2>6, OneRequestChanges DEF ReadsInv
<1>4. ASSUME NEW r \in Requests, Hit(r)
      PROVE  ReadsInv'
  <2> DEFINE k == request[r].kind
             v == [request[r] EXCEPT !.pc = "leave", !.read = Ok(Decode(cache[KeyOf(k)], k))]
  <2>1. request[r] \in Active(r)
      BY <1>4, ActiveShape DEF Hit, ActivePCs, ReadingPCs
  <2>2. k \in Kinds /\ k # "balances"
      BY <1>4, <2>1 DEF Hit, Active, ReadsInv, Stage
  <2>3. cache[KeyOf(k)] \in Values
      BY <1>4, <2>2, KeyOfCached DEF Hit, ReadsInv
  <2>4. Decode(cache[KeyOf(k)], k) \in Values
      BY <2>2, <2>3 DEF Decode, Values
  <2>5. Ok(Decode(cache[KeyOf(k)], k)) \in Outcomes
      BY <2>4 DEF Ok, Outcomes
  <2>6. v \in Active(r) /\ v.pc = "leave"
      BY <2>1, <2>5 DEF Active, ActivePCs, ReadingPCs
  <2>7. request' = [request EXCEPT ![r] = v] /\ UNCHANGED <<chain, cache, flight, served, faulted>>
      BY <1>4 DEF Hit
  <2> HIDE DEF v
  <2> QED
      BY <2>6, <2>7, OneRequestChanges DEF ReadsInv
<1>5. ASSUME NEW r \in Requests, Miss(r)
      PROVE  ReadsInv'
  <2> DEFINE v == [request[r] EXCEPT !.pc = "fetch"]
  <2>1. request[r] \in Active(r)
      BY <1>5, ActiveShape DEF Miss, ActivePCs, ReadingPCs
  <2>2. v \in Active(r) /\ v.pc = "fetch"
      BY <2>1 DEF Active, ActivePCs, ReadingPCs
  <2>3. request' = [request EXCEPT ![r] = v] /\ UNCHANGED <<chain, cache, flight, served>>
      BY <1>5 DEF Miss, Step
  <2>4. faulted' \in BOOLEAN
      BY <1>5 DEF Miss
  <2> HIDE DEF v
  <2> QED
      BY <2>2, <2>3, <2>4, OneRequestChanges DEF ReadsInv
<1>6. ASSUME NEW r \in Requests, NEW k \in Kinds, NEW next, Fetched(r, k, next),
             \/ next = "leave"
             \/ next = "set" /\ k # "balances"
             \/ next = "index" /\ k = "spUser"
             \/ next = "fSupply" /\ k = "state"
      PROVE  ReadsInv'
  <2> DEFINE v == [request[r] EXCEPT !.pc = next, !.read = Ok(ChainValue(k))]
  <2>1. request[r] \in Active(r) /\ request[r].kind = k
      BY <1>6, ActiveShape DEF Fetched, ActivePCs, ReadingPCs
  <2>2. ChainValue(k) \in Values
      BY DEF ChainValue, Values, ReadsInv
  <2>3. Ok(ChainValue(k)) \in [ok : {TRUE}, value : Values]
      BY <2>2 DEF Ok
  <2>4. v \in Active(r) /\ v.kind = k /\ v.pc = next /\ v.read = Ok(ChainValue(k))
      BY <1>6, <2>1, <2>3 DEF Active, ActivePCs, ReadingPCs, Outcomes
  <2>5. request' = [request EXCEPT ![r] = v] /\ UNCHANGED <<chain, cache, flight, served, faulted>>
      BY <1>6 DEF Fetched
  <2> HIDE DEF v
  <2> QED
      BY <1>6, <2>3, <2>4, <2>5, OneRequestChanges DEF ReadsInv
<1>7. ASSUME NEW r \in Requests,
             \/ FetchState(r) \/ FetchIndex(r) \/ FetchPositions(r) \/ FetchBalances(r) \/ FetchSpUser(r)
      PROVE  ReadsInv'
    BY <1>6, <1>7 DEF FetchState, FetchIndex, FetchPositions, FetchBalances, FetchSpUser, Kinds
<1>8. ASSUME NEW r \in Requests, FetchRewards(r)
      PROVE  ReadsInv'
  <2> DEFINE v == [request[r] EXCEPT !.pc = "set"]
  <2>1. request[r] \in Active(r)
      BY <1>8, ActiveShape DEF FetchRewards, ActivePCs, ReadingPCs
  <2>2. request[r].kind = "spUser" /\ request[r].read \in [ok : {TRUE}, value : Values]
      BY <1>8 DEF FetchRewards, ReadsInv, Stage
  <2>3. v \in Active(r) /\ v.pc = "set" /\ v.kind = "spUser" /\ v.read = request[r].read
      BY <2>1, <2>2 DEF Active, ActivePCs, ReadingPCs
  <2>4. request' = [request EXCEPT ![r] = v] /\ UNCHANGED <<chain, cache, flight, served, faulted>>
      BY <1>8 DEF FetchRewards, Step
  <2> HIDE DEF v
  <2> QED
      BY <2>2, <2>3, <2>4, OneRequestChanges DEF ReadsInv
<1>9. ASSUME NEW r \in Requests, FetchFails(r)
      PROVE  ReadsInv'
  <2> DEFINE v == [request[r] EXCEPT !.pc = "leave", !.read = Failed]
  <2>1. request[r] \in Active(r)
      BY <1>9, ActiveShape DEF FetchFails, ActivePCs, ReadingPCs
  <2>2. v \in Active(r) /\ v.pc = "leave"
      BY <2>1 DEF Active, ActivePCs, ReadingPCs, Outcomes
  <2>3. request' = [request EXCEPT ![r] = v] /\ UNCHANGED <<chain, cache, flight, served, faulted>>
      BY <1>9 DEF FetchFails
  <2> HIDE DEF v
  <2> QED
      BY <2>2, <2>3, OneRequestChanges DEF ReadsInv
<1>10. ASSUME NEW r \in Requests, Store(r) \/ StoreFails(r)
      PROVE  ReadsInv'
  <2> DEFINE v == [request[r] EXCEPT !.pc = "leave"]
  <2>1. request[r] \in Active(r) /\ request[r].pc = "set"
      BY <1>10, ActiveShape DEF Store, StoreFails, ActivePCs, ReadingPCs
  <2>2. v \in Active(r) /\ v.pc = "leave"
      BY <2>1 DEF Active, ActivePCs, ReadingPCs
  <2>3. request' = [request EXCEPT ![r] = v] /\ UNCHANGED <<chain, flight, served>>
      BY <1>10 DEF Store, StoreFails, Step
  <2>4. KeyOf(request[r].kind) \in CacheKeys
      BY <2>1, KeyOfCached DEF Active, ReadsInv, Stage
  <2>5. request[r].read.value \in Values
      BY <2>1 DEF ReadsInv, Stage
  <2>6. cache' \in [CacheKeys -> Values \cup {None}]
      BY <1>10, <2>4, <2>5 DEF Store, StoreFails, ReadsInv
  <2>7. faulted' \in BOOLEAN
      BY <1>10 DEF Store, StoreFails, ReadsInv
  <2> HIDE DEF v
  <2> QED
      BY <2>2, <2>3, <2>6, <2>7, OneRequestChanges DEF ReadsInv
<1>11. ASSUME NEW r \in Requests, ReadOn(r)
      PROVE  ReadsInv'
  <2> DEFINE k == NextRead(request[r].endpoint, request[r].results)
             v == [request[r] EXCEPT !.pc = "enter", !.kind = k]
  <2>1. request[r] \in Active(r)
      BY <1>11, ActiveShape DEF ReadOn, ActivePCs
  <2>2. k \in Kinds
      BY <1>11, NextReadKind DEF ReadOn
  <2> HIDE DEF k
  <2>3. v \in Active(r) /\ v.pc = "enter"
      BY <2>1, <2>2 DEF Active, ActivePCs
  <2>4. request' = [request EXCEPT ![r] = v] /\ UNCHANGED <<chain, cache, flight, served, faulted>>
      BY <1>11 DEF ReadOn, k
  <2> HIDE DEF v
  <2> QED
      BY <2>3, <2>4, OneRequestChanges DEF ReadsInv
<1>12. ASSUME NEW r \in Requests, NEW stake, NEW quote, Finish(r, stake, quote)
      PROVE  ReadsInv'
  <2> DEFINE v == [pc |-> "done", endpoint |-> request[r].endpoint, stake |-> stake, quote |-> quote]
  <2>1. request[r] \in Active(r)
      BY <1>12, ActiveShape DEF Finish, ActivePCs
  <2>2. v.pc = "done" /\ v.endpoint \in Asks[r]
      BY <2>1 DEF Active
  <2>3. request' = [request EXCEPT ![r] = v] /\ UNCHANGED <<chain, cache, flight, served, faulted>>
      BY <1>12 DEF Finish
  <2> HIDE DEF v
  <2> QED
      BY <2>2, <2>3, OneRequestChanges DEF ReadsInv
<1>13. ASSUME NEW r \in Requests, Answer(r) \/ \E p \in MarketPrices : AnswerQuote(r, p)
      PROVE  ReadsInv'
    BY <1>12, <1>13 DEF Answer, AnswerQuote
<1>17. ASSUME NEW r \in Requests, NEW a, NEW ep \in Asks[r], RefuseAmount(r, ep, a)
      PROVE  ReadsInv'
  <2> DEFINE v == [pc |-> "done", endpoint |-> ep, stake |-> None, quote |-> None]
  <2>1. v.pc = "done" /\ v.endpoint \in Asks[r]
      OBVIOUS
  <2>2. request' = [request EXCEPT ![r] = v] /\ UNCHANGED <<chain, cache, flight, served, faulted>>
      BY <1>17 DEF RefuseAmount
  <2> HIDE DEF v
  <2> QED
      BY <2>1, <2>2, OneRequestChanges DEF ReadsInv
<1>18. ASSUME NEW r \in Requests, FetchFSupply(r)
      PROVE  ReadsInv'
  <2> DEFINE read == Ok([request[r].read.value EXCEPT !.fAt = chain])
             v == [request[r] EXCEPT !.pc = "xSupply", !.read = read]
  <2>1. /\ request[r] \in Active(r) /\ request[r].kind = "state"
        /\ request[r].read.value \in Values
      BY <1>18, ActiveShape DEF FetchFSupply, ActivePCs, ReadingPCs, ReadsInv, Stage
  <2>2. read \in [ok : {TRUE}, value : Values]
      BY <2>1 DEF Ok, Values, ReadsInv
  <2>3. v \in Active(r) /\ v.kind = "state" /\ v.pc = "xSupply" /\ v.read = read
      BY <2>1, <2>2 DEF Active, ActivePCs, ReadingPCs, Outcomes
  <2>4. request' = [request EXCEPT ![r] = v] /\ UNCHANGED <<chain, cache, flight, served, faulted>>
      BY <1>18 DEF FetchFSupply
  <2> HIDE DEF v, read
  <2> QED
      BY <2>2, <2>3, <2>4, OneRequestChanges DEF ReadsInv
<1>19. ASSUME NEW r \in Requests, FetchXSupply(r)
      PROVE  ReadsInv'
  <2> DEFINE val == [request[r].read.value EXCEPT !.xAt = chain]
             pc == IF HasRatio(StateOf(val)) /\ Sane(StateOf(val)) THEN "set" ELSE "leave"
             read == IF HasRatio(StateOf(val)) THEN Ok(val) ELSE Failed
             v == [request[r] EXCEPT !.pc = pc, !.read = read]
  <2>1. /\ request[r] \in Active(r) /\ request[r].kind = "state"
        /\ request[r].read.value \in Values
      BY <1>19, ActiveShape DEF FetchXSupply, ActivePCs, ReadingPCs, ReadsInv, Stage
  <2>2. val \in Values
      BY <2>1 DEF Values, ReadsInv
  <2>3. read \in Outcomes /\ (pc = "set" => read \in [ok : {TRUE}, value : Values])
      BY <2>2 DEF Ok, Outcomes
  <2>4. pc \in {"set", "leave"}
      OBVIOUS
  <2>5. request' = [request EXCEPT ![r] = v] /\ UNCHANGED <<chain, cache, flight, served, faulted>>
      BY <1>19 DEF FetchXSupply
  <2> HIDE DEF pc, read
  <2>6. v \in Active(r) /\ v.kind = "state" /\ v.pc = pc /\ v.read = read
      BY <2>1, <2>3, <2>4 DEF Active, ActivePCs, ReadingPCs
  <2> HIDE DEF v
  <2> QED
      BY <2>3, <2>4, <2>5, <2>6, OneRequestChanges DEF ReadsInv
<1>14. CASE Advance
  <2>1. chain' \in Versions
      BY <1>14 DEF Advance, ReadsInv, Versions
  <2> QED
      BY <1>14, <2>1 DEF Advance, ReadsInv, Shape, Stage
<1>15. ASSUME NEW key \in CacheKeys, Expire(key)
      PROVE  ReadsInv'
    BY <1>15 DEF Expire, ReadsInv, Shape, Stage, Active
<1>16. CASE UNCHANGED vars
    BY <1>16 DEF vars, ReadsInv, Shape, Stage, Active
<1> QED
  <2>1. ASSUME NEW r \in Requests, Work(r)
        PROVE  ReadsInv'
      BY <2>1, <1>2, <1>3, <1>4, <1>5, <1>7, <1>8, <1>9, <1>10, <1>11, <1>13, <1>18, <1>19 DEF Work
  <2> QED
      BY <2>1, <1>1, <1>14, <1>15, <1>16, <1>17 DEF Next

\* The read path starts well typed.
LEMMA ReadsInvInit == Init => ReadsInv
<1> SUFFICES ASSUME Init
             PROVE  ReadsInv
    OBVIOUS
<1>1. 0 \in Versions
    BY ReadsAssumption DEF Versions
<1>2. faulted \in BOOLEAN
    BY DEF Init
<1>3. \A r \in Requests : Shape(r) /\ Stage(r)
    BY DEF Init, Shape, Stage
<1> QED
    BY <1>1, <1>2, <1>3 DEF Init, ReadsInv

\* Cache, flights and requests keep their types, whatever fails: nothing is decoded
\* from an entry that is not there and nothing is stored under a key nobody reads.
THEOREM ReadsTypeCorrect == Spec => []ReadsTypeOK
<1>1. ReadsInv => ReadsTypeOK
  <2> SUFFICES ASSUME ReadsInv
               PROVE  ReadsTypeOK
      OBVIOUS
  <2>1. \A key \in CacheKeys : cache[key] = None \/ cache[key] \in Values
      BY DEF ReadsInv
  <2>2. ASSUME NEW r \in Requests
        PROVE  /\ request[r].pc \in {"idle", "enter", "get", "fetch", "fSupply", "xSupply", "index",
                                     "set", "leave", "wait", "handle", "done"}
               /\ request[r].pc # "idle" => request[r].endpoint \in Asks[r]
    <3>1. Shape(r)
        BY DEF ReadsInv
    <3> QED
        BY <3>1 DEF Shape, Active, ActivePCs, ReadingPCs
  <2> QED
      BY <2>1, <2>2 DEF ReadsInv, ReadsTypeOK
<1> QED
    BY <1>1, ReadsInvInit, ReadsInvStep, PTL DEF Spec

-----------------------------------------------------------------------------
(* Flights. *)

\* What a step that replaces one request's record leaves in its place.
LEMMA Replaced ==
    ASSUME ReadsInv, NEW r \in Requests, NEW v, request' = [request EXCEPT ![r] = v]
    PROVE  /\ request'[r] = v
           /\ \A q \in Requests : q # r => request'[q] = request[q]
BY DEF ReadsInv

\* A step of one request that neither begins nor ends a read keeps the flights.
LEMMA SameFlights ==
    ASSUME ReadsInv, FlightsLed, NEW r \in Requests, NEW v, flight' = flight,
           request' = [request EXCEPT ![r] = v],
           request[r].pc \in ReadingPCs <=> v.pc \in ReadingPCs,
           request[r].pc \in ReadingPCs => v.kind = request[r].kind
    PROVE  FlightsLed'
<1>1. \A q \in Requests : /\ request[q].pc \in ReadingPCs <=> request'[q].pc \in ReadingPCs
                          /\ request[q].pc \in ReadingPCs => request'[q].kind = request[q].kind
    BY Replaced
<1>2. \A k \in Kinds : flight[k] # None => flight[k] \in Requests
    BY DEF ReadsInv
<1>3. ASSUME NEW k \in Kinds, flight[k] # None
      PROVE  request'[flight[k]].pc \in ReadingPCs /\ request'[flight[k]].kind = k
    BY <1>1, <1>2, <1>3 DEF FlightsLed, Reading, ReadingPCs
<1>4. ASSUME NEW q \in Requests, request'[q].pc \in ReadingPCs
      PROVE  flight[request'[q].kind] = q
    BY <1>1, <1>4 DEF FlightsLed, Reading, ReadingPCs
<1> QED
    BY <1>3, <1>4 DEF FlightsLed, Reading, ReadingPCs

\* A caller that finds its key free leads it.
LEMMA FlightBegins ==
    ASSUME ReadsInv, FlightsLed, NEW r \in Requests, NEW v, NEW k \in Kinds,
           flight[k] = None, flight' = [flight EXCEPT ![k] = r],
           request' = [request EXCEPT ![r] = v],
           request[r].pc \notin ReadingPCs, v.pc \in ReadingPCs, v.kind = k
    PROVE  FlightsLed'
<1> USE ReadsAssumption
<1>1. /\ request'[r] = v
      /\ \A q \in Requests : q # r => request'[q] = request[q]
    BY Replaced
<1>2. flight'[k] = r /\ \A j \in Kinds : j # k => flight'[j] = flight[j]
    BY DEF ReadsInv
<1>3. ASSUME NEW j \in Kinds, flight'[j] # None
      PROVE  request'[flight'[j]].pc \in ReadingPCs /\ request'[flight'[j]].kind = j
  <2>1. CASE j = k
      BY <1>1, <1>2, <2>1
  <2>2. CASE j # k
    <3>1. flight'[j] = flight[j] /\ flight[j] \in Requests
        BY <1>2, <1>3, <2>2 DEF ReadsInv
    <3>2. request[flight[j]].pc \in ReadingPCs /\ request[flight[j]].kind = j
        BY <1>3, <3>1 DEF FlightsLed, Reading, ReadingPCs
    <3> QED
        BY <1>1, <3>1, <3>2
  <2> QED
      BY <2>1, <2>2
<1>4. ASSUME NEW q \in Requests, request'[q].pc \in ReadingPCs
      PROVE  flight'[request'[q].kind] = q
  <2>1. CASE q = r
      BY <1>1, <1>2, <2>1
  <2>2. CASE q # r
    <3>1. request'[q] = request[q] /\ request[q].pc \in ReadingPCs
        BY <1>1, <1>4, <2>2
    <3>2. flight[request[q].kind] = q /\ request[q].kind \in Kinds
        BY <3>1, ActiveShape DEF FlightsLed, Reading, Active, ActivePCs, ReadingPCs
    <3> QED
        BY <1>2, <3>1, <3>2
  <2> QED
      BY <2>1, <2>2
<1> QED
    BY <1>3, <1>4 DEF FlightsLed, Reading, ReadingPCs

\* A leader that has its result frees the key.
LEMMA FlightIsOver ==
    ASSUME ReadsInv, FlightsLed, NEW r \in Requests, NEW v, NEW k \in Kinds,
           flight' = [flight EXCEPT ![k] = None],
           request' = [request EXCEPT ![r] = v],
           request[r].pc \in ReadingPCs, request[r].kind = k, v.pc \notin ReadingPCs
    PROVE  FlightsLed'
<1> USE ReadsAssumption
<1>1. /\ request'[r] = v
      /\ \A q \in Requests : q # r => request'[q] = request[q]
    BY Replaced
<1>2. flight'[k] = None /\ \A j \in Kinds : j # k => flight'[j] = flight[j]
    BY DEF ReadsInv
<1>3. flight[k] = r
    BY DEF FlightsLed, Reading, ReadingPCs
<1>4. ASSUME NEW j \in Kinds, flight'[j] # None
      PROVE  request'[flight'[j]].pc \in ReadingPCs /\ request'[flight'[j]].kind = j
  <2>1. j # k /\ flight'[j] = flight[j] /\ flight[j] \in Requests
      BY <1>2, <1>4 DEF ReadsInv
  <2>2. request[flight[j]].pc \in ReadingPCs /\ request[flight[j]].kind = j
      BY <1>4, <2>1 DEF FlightsLed, Reading, ReadingPCs
  <2>3. flight[j] # r
      BY <2>1, <2>2
  <2> QED
      BY <1>1, <2>1, <2>2, <2>3
<1>5. ASSUME NEW q \in Requests, request'[q].pc \in ReadingPCs
      PROVE  flight'[request'[q].kind] = q
  <2>1. q # r
      BY <1>1, <1>5
  <2>2. request'[q] = request[q] /\ request[q].pc \in ReadingPCs
      BY <1>1, <1>5, <2>1
  <2>3. flight[request[q].kind] = q /\ request[q].kind \in Kinds
      BY <2>2, ActiveShape DEF FlightsLed, Reading, Active, ActivePCs, ReadingPCs
  <2> QED
      BY <1>2, <1>3, <2>1, <2>2, <2>3
<1> QED
    BY <1>4, <1>5 DEF FlightsLed, Reading, ReadingPCs

\* A supply is added to the state a leader has read, whose version is that of the
\* first call; nothing else changes.
LEMMA SupplyFetched ==
    ASSUME ReadsInv, NEW r \in Requests, FetchFSupply(r) \/ FetchXSupply(r)
    PROVE  /\ request[r].pc \in {"fSupply", "xSupply"} /\ request[r].kind = "state"
           /\ request[r].read \in [ok : {TRUE}, value : Values]
           /\ UNCHANGED <<chain, cache, flight, served, faulted>>
           /\ \E v : /\ request' = [request EXCEPT ![r] = v]
                     /\ v.pc \in {"xSupply", "set", "leave"} /\ v.kind = "state"
                     /\ v.since = request[r].since
                     /\ v.read.ok => v.read.value.version = request[r].read.value.version
<1>1. /\ request[r].pc \in {"fSupply", "xSupply"} /\ request[r] \in Active(r)
      /\ request[r].kind = "state" /\ request[r].read \in [ok : {TRUE}, value : Values]
      /\ UNCHANGED <<chain, cache, flight, served, faulted>>
    BY ActiveShape DEF FetchFSupply, FetchXSupply, ActivePCs, ReadingPCs, ReadsInv, Stage
<1>2. CASE FetchFSupply(r)
  <2> DEFINE val == [request[r].read.value EXCEPT !.fAt = chain]
             v == [request[r] EXCEPT !.pc = "xSupply", !.read = Ok(val)]
  <2>1. request' = [request EXCEPT ![r] = v]
      BY <1>2 DEF FetchFSupply
  <2>2. Ok(val).value.version = request[r].read.value.version
      BY <1>1 DEF Ok, Values
  <2> HIDE DEF val
  <2>3. /\ v.pc = "xSupply" /\ v.kind = "state" /\ v.since = request[r].since
        /\ v.read = Ok(val)
      BY <1>1 DEF Active
  <2> HIDE DEF v
  <2> QED
      BY <1>1, <2>1, <2>2, <2>3
<1>3. CASE FetchXSupply(r)
  <2> DEFINE val == [request[r].read.value EXCEPT !.xAt = chain]
             pc == IF HasRatio(StateOf(val)) /\ Sane(StateOf(val)) THEN "set" ELSE "leave"
             read == IF HasRatio(StateOf(val)) THEN Ok(val) ELSE Failed
             v == [request[r] EXCEPT !.pc = pc, !.read = read]
  <2>1. request' = [request EXCEPT ![r] = v]
      BY <1>3 DEF FetchXSupply
  <2>2. Ok(val).value.version = request[r].read.value.version
      BY <1>1 DEF Ok, Values
  <2>3. read.ok => read.value.version = request[r].read.value.version
      BY <2>2 DEF Failed
  <2>4. pc \in {"set", "leave"}
      OBVIOUS
  <2> HIDE DEF pc, read
  <2>5. v.pc = pc /\ v.kind = "state" /\ v.since = request[r].since /\ v.read = read
      BY <1>1 DEF Active
  <2> HIDE DEF v
  <2> QED
      BY <1>1, <2>1, <2>3, <2>4, <2>5
<1> QED
    BY <1>2, <1>3

\* A key gets a leader when it is entered, keeps it through the read and loses it
\* when the leader leaves.
LEMMA FlightsStep == ReadsInv /\ FlightsLed /\ [Next]_vars => FlightsLed'
<1> SUFFICES ASSUME ReadsInv, FlightsLed, [Next]_vars
             PROVE  FlightsLed'
    OBVIOUS
<1> USE ReadsAssumption
<1>1. ASSUME NEW r \in Requests, NEW a \in Amounts, NEW ep \in Asks[r], Arrive(r, ep, a)
      PROVE  FlightsLed'
  <2> DEFINE v == [pc |-> "enter", endpoint |-> ep, amount |-> a, kind |-> NextRead(ep, <<>>),
                   results |-> <<>>, read |-> Failed, since |-> 0]
  <2>1. request[r].pc = "idle" /\ request' = [request EXCEPT ![r] = v] /\ flight' = flight
      BY <1>1 DEF Arrive
  <2>2. v.pc = "enter"
      OBVIOUS
  <2> HIDE DEF v
  <2> QED
      BY <2>1, <2>2, SameFlights DEF ReadingPCs
<1>2. ASSUME NEW r \in Requests, Enter(r)
      PROVE  FlightsLed'
  <2> DEFINE k == request[r].kind
             lead == [request[r] EXCEPT !.pc = IF KeyOf(k) = None THEN "fetch" ELSE "get",
                                        !.since = served[k]]
             wait == [request[r] EXCEPT !.pc = "wait"]
  <2>1. request[r] \in Active(r) /\ request[r].pc = "enter"
      BY <1>2, ActiveShape DEF Enter, ActivePCs
  <2>2. CASE flight[k] # None
    <3>1. wait.pc = "wait"
        BY <2>1 DEF Active
    <3>2. request' = [request EXCEPT ![r] = wait] /\ flight' = flight
        BY <1>2, <2>2 DEF Enter, Step
    <3> HIDE DEF wait
    <3> QED
        BY <2>1, <3>1, <3>2, SameFlights DEF ReadingPCs
  <2>3. CASE flight[k] = None
    <3>1. k \in Kinds
        BY <2>1 DEF Active
    <3>2. lead.pc \in ReadingPCs /\ lead.kind = k
        BY <2>1 DEF Active, ReadingPCs
    <3>3. request' = [request EXCEPT ![r] = lead] /\ flight' = [flight EXCEPT ![k] = r]
        BY <1>2, <2>3 DEF Enter
    <3>4. request[r].pc \notin ReadingPCs
        BY <2>1 DEF ReadingPCs
    <3> HIDE DEF lead, k
    <3> QED
        BY <2>3, <3>1, <3>2, <3>3, <3>4, FlightBegins
  <2> QED
      BY <2>2, <2>3
<1>3. ASSUME NEW r \in Requests, Leave(r)
      PROVE  FlightsLed'
  <2> DEFINE k == request[r].kind
             v == [request[r] EXCEPT !.pc = "handle", !.results = Append(@, request[r].read)]
  <2>1. request[r] \in Active(r) /\ request[r].pc \in ReadingPCs
      BY <1>3, ActiveShape DEF Leave, ActivePCs, ReadingPCs
  <2>2. k \in Kinds
      BY <2>1 DEF Active
  <2>3. v.pc \notin ReadingPCs
      BY <2>1 DEF Active, ReadingPCs
  <2>4. request' = [request EXCEPT ![r] = v] /\ flight' = [flight EXCEPT ![k] = None]
      BY <1>3 DEF Leave
  <2>5. request[r].kind = k
      OBVIOUS
  <2> HIDE DEF v, k
  <2> QED
      BY <2>1, <2>2, <2>3, <2>4, <2>5, FlightIsOver
<1>4. ASSUME NEW r \in Requests, NEW pc \in ReadingPCs, NEW read,
             request[r].pc \in ReadingPCs, flight' = flight,
             request' = [request EXCEPT ![r].pc = pc, ![r].read = read]
      PROVE  FlightsLed'
  <2> DEFINE v == [request[r] EXCEPT !.pc = pc, !.read = read]
  <2>1. request[r] \in Active(r)
      BY <1>4, ActiveShape DEF ActivePCs
  <2>2. v.pc = pc /\ v.kind = request[r].kind
      BY <2>1 DEF Active
  <2>3. request' = [request EXCEPT ![r] = v]
      BY <1>4
  <2> HIDE DEF v
  <2> QED
      BY <1>4, <2>2, <2>3, SameFlights
<1>5. ASSUME NEW r \in Requests, NEW pc \in ReadingPCs,
             request[r].pc \in ReadingPCs, flight' = flight, request' = Step(r, pc)
      PROVE  FlightsLed'
  <2> DEFINE v == [request[r] EXCEPT !.pc = pc]
  <2>1. request[r] \in Active(r)
      BY <1>5, ActiveShape DEF ActivePCs
  <2>2. v.pc = pc /\ v.kind = request[r].kind
      BY <2>1 DEF Active
  <2>3. request' = [request EXCEPT ![r] = v]
      BY <1>5 DEF Step
  <2> HIDE DEF v
  <2> QED
      BY <1>5, <2>2, <2>3, SameFlights
<1>6. ASSUME NEW r \in Requests, Hit(r) \/ FetchFails(r)
      PROVE  FlightsLed'
  <2>1. CASE Hit(r)
    <3> DEFINE read == Ok(Decode(cache[KeyOf(request[r].kind)], request[r].kind))
    <3>1. /\ request[r].pc = "get" /\ flight' = flight
          /\ request' = [request EXCEPT ![r].pc = "leave", ![r].read = read]
        BY <2>1 DEF Hit
    <3> HIDE DEF read
    <3>2. request[r].pc \in ReadingPCs /\ "leave" \in ReadingPCs
        BY <3>1 DEF ReadingPCs
    <3> QED
        BY ONLY <1>4, <3>1, <3>2
  <2>2. CASE FetchFails(r)
    <3>1. /\ request[r].pc \in {"fetch", "fSupply", "xSupply", "index"} /\ flight' = flight
          /\ request' = [request EXCEPT ![r].pc = "leave", ![r].read = Failed]
        BY <2>2 DEF FetchFails
    <3>2. request[r].pc \in ReadingPCs /\ "leave" \in ReadingPCs
        BY <3>1 DEF ReadingPCs
    <3> QED
        BY ONLY <1>4, <3>1, <3>2
  <2> QED
      BY <1>6, <2>1, <2>2
<1>7. ASSUME NEW r \in Requests, Miss(r) \/ FetchRewards(r) \/ Store(r) \/ StoreFails(r)
      PROVE  FlightsLed'
    BY <1>5, <1>7 DEF Miss, FetchRewards, Store, StoreFails, ReadingPCs
<1>8. ASSUME NEW r \in Requests, NEW k, NEW next \in {"fSupply", "leave", "set", "index"}, Fetched(r, k, next)
      PROVE  FlightsLed'
  <2> DEFINE read == Ok(ChainValue(k))
  <2>1. /\ request[r].pc = "fetch" /\ flight' = flight
        /\ request' = [request EXCEPT ![r].pc = next, ![r].read = read]
      BY <1>8 DEF Fetched
  <2> HIDE DEF read
  <2>2. request[r].pc \in ReadingPCs /\ next \in ReadingPCs
      BY <2>1 DEF ReadingPCs
  <2> QED
      BY ONLY <1>4, <2>1, <2>2
<1>9. ASSUME NEW r \in Requests,
             \/ FetchState(r) \/ FetchIndex(r) \/ FetchPositions(r) \/ FetchBalances(r) \/ FetchSpUser(r)
      PROVE  FlightsLed'
    BY <1>8, <1>9 DEF FetchState, FetchIndex, FetchPositions, FetchBalances, FetchSpUser
<1>10. ASSUME NEW r \in Requests, ReadOn(r)
      PROVE  FlightsLed'
  <2> DEFINE k == NextRead(request[r].endpoint, request[r].results)
             v == [request[r] EXCEPT !.pc = "enter", !.kind = k]
  <2>1. request[r] \in Active(r) /\ request[r].pc = "handle"
      BY <1>10, ActiveShape DEF ReadOn, ActivePCs
  <2>2. request' = [request EXCEPT ![r] = v] /\ flight' = flight
      BY <1>10 DEF ReadOn
  <2> HIDE DEF k
  <2>3. v.pc = "enter"
      BY <2>1 DEF Active
  <2> HIDE DEF v
  <2> QED
      BY <2>1, <2>2, <2>3, SameFlights DEF ReadingPCs
<1>11. ASSUME NEW r \in Requests, NEW stake, NEW quote, Finish(r, stake, quote)
      PROVE  FlightsLed'
  <2> DEFINE v == [pc |-> "done", endpoint |-> request[r].endpoint, stake |-> stake, quote |-> quote]
  <2>1. request[r].pc = "handle" /\ request' = [request EXCEPT ![r] = v] /\ flight' = flight
      BY <1>11 DEF Finish
  <2>2. v.pc = "done"
      OBVIOUS
  <2> HIDE DEF v
  <2> QED
      BY <2>1, <2>2, SameFlights DEF ReadingPCs
<1>12. ASSUME NEW r \in Requests, Answer(r) \/ \E p \in MarketPrices : AnswerQuote(r, p)
      PROVE  FlightsLed'
    BY <1>11, <1>12 DEF Answer, AnswerQuote
<1>14. ASSUME NEW r \in Requests, NEW a, NEW ep, RefuseAmount(r, ep, a)
      PROVE  FlightsLed'
  <2> DEFINE v == [pc |-> "done", endpoint |-> ep, stake |-> None, quote |-> None]
  <2>1. request[r].pc = "idle" /\ request' = [request EXCEPT ![r] = v] /\ flight' = flight
      BY <1>14 DEF RefuseAmount
  <2>2. v.pc = "done"
      OBVIOUS
  <2> HIDE DEF v
  <2> QED
      BY <2>1, <2>2, SameFlights DEF ReadingPCs
<1>15. ASSUME NEW r \in Requests, FetchFSupply(r) \/ FetchXSupply(r)
      PROVE  FlightsLed'
  <2>1. PICK v : /\ request' = [request EXCEPT ![r] = v]
                 /\ v.pc \in {"xSupply", "set", "leave"} /\ v.kind = "state"
      BY <1>15, SupplyFetched
  <2>2. /\ request[r].pc \in {"fSupply", "xSupply"} /\ request[r].kind = "state"
        /\ flight' = flight
      BY <1>15, SupplyFetched
  <2> QED
      BY <2>1, <2>2, SameFlights DEF ReadingPCs
<1>13. CASE UNCHANGED <<flight, request>>
    BY <1>13 DEF FlightsLed, Reading
<1> QED
  <2>1. ASSUME NEW r \in Requests, Work(r)
        PROVE  FlightsLed'
      BY <2>1, <1>2, <1>3, <1>6, <1>7, <1>9, <1>10, <1>12, <1>15 DEF Work
  <2>2. ASSUME Advance \/ UNCHANGED vars \/ \E key \in CacheKeys : Expire(key)
        PROVE  UNCHANGED <<flight, request>>
      BY <2>2 DEF Advance, Expire, vars
  <2> QED
      BY <2>1, <2>2, <1>1, <1>13, <1>14 DEF Next

\* Every key in flight has one leader that is running its function, for any number of
\* concurrent requests and any failures: no two ask the chain for the same thing at
\* once and no key is left behind (Group.Do, doCall).
THEOREM ReadsFlightsLed == Spec => []FlightsLed
<1>1. Init => FlightsLed
    BY DEF Init, FlightsLed, Reading
<1> QED
    BY <1>1, ReadsInvInit, ReadsInvStep, FlightsStep, PTL DEF Spec

-----------------------------------------------------------------------------
(* Reads do not go back in time. *)

\* the kinds whose entry is theirs alone: the user's key is shared by two
Timely == {"state", "index"}

\* What is cached is at least as new as anything returned so far.
EntryFresh(k) ==
    /\ served[k] <= chain
    /\ cache[k] # None => served[k] <= cache[k].version /\ cache[k].version <= chain

\* Nothing of its kind is returned while a leader runs; it asks the chain only when
\* there is no entry, and what it returns is no newer than the entry it leaves.
ReadFresh(r, k) ==
    /\ request[r].since = served[k]
    /\ request[r].pc \in {"fetch", "fSupply", "xSupply", "set"} => cache[k] = None
    /\ request[r].pc \in {"fSupply", "xSupply", "set", "leave"} /\ request[r].read.ok =>
          /\ served[k] <= request[r].read.value.version
          /\ request[r].read.value.version <= chain
    /\ request[r].pc = "leave" /\ request[r].read.ok /\ cache[k] # None =>
          request[r].read.value.version <= cache[k].version

(***************************************************************************)
(* MonotonicReads is not inductive: that a later read is no older needs    *)
(* the entry of its kind to be as new as every answer, which needs what    *)
(* the leader holds to be bounded by what it stored.                       *)
(***************************************************************************)
Freshness ==
    ~faulted =>
        \A k \in Timely :
            /\ EntryFresh(k)
            /\ \A r \in Requests : Reading(r) /\ request[r].kind = k => ReadFresh(r, k)

\* A step of one request concerns the entry and the answers of a kind only if the
\* request leads that kind; every other reader is of another kind.
LEMMA FreshStep ==
    ASSUME ReadsInv, FlightsLed, Freshness, NEW r \in Requests, NEW v,
           request' = [request EXCEPT ![r] = v], chain' = chain, faulted => faulted',
           \A k \in Timely : \/ served'[k] = served[k] /\ cache'[k] = cache[k]
                             \/ request[r].pc \in ReadingPCs /\ request[r].kind = k,
           \A k \in Timely : ~faulted' =>
                /\ EntryFresh(k)'
                /\ v.pc \in ReadingPCs /\ v.kind = k => ReadFresh(r, k)'
    PROVE  Freshness'
<1> SUFFICES ASSUME ~faulted', NEW k \in Timely, NEW q \in Requests,
                    request'[q].pc \in ReadingPCs, request'[q].kind = k
             PROVE  ReadFresh(q, k)'
    BY DEF Freshness, Reading, ReadingPCs
<1>1. /\ request'[r] = v
      /\ \A p \in Requests : p # r => request'[p] = request[p]
    BY Replaced
<1>2. CASE q = r
    BY <1>1, <1>2
<1>3. CASE q # r
  <2>1. request'[q] = request[q]
      BY <1>1, <1>3
  <2>2. ReadFresh(q, k)
      BY <2>1 DEF Freshness, Reading, ReadingPCs
  <2>3. flight[k] = q
      BY <2>1 DEF FlightsLed, Reading, ReadingPCs
  <2>4. ~(request[r].pc \in ReadingPCs /\ request[r].kind = k)
      BY <1>3, <2>3 DEF FlightsLed, Reading, ReadingPCs
  <2>5. served'[k] = served[k] /\ cache'[k] = cache[k]
      BY <2>4
  <2> QED
      BY <2>1, <2>2, <2>5 DEF ReadFresh
<1> QED
    BY <1>2, <1>3

\* Entries and answers that nothing touched are as fresh as they were.
LEMMA EntriesKept ==
    ASSUME Freshness, faulted => faulted', UNCHANGED <<chain, cache, served>>
    PROVE  \A k \in Timely : ~faulted' => EntryFresh(k)'
BY DEF Freshness, EntryFresh

\* A step of a request that is not reading after it, and leaves the rest alone.
LEMMA FreshIdle ==
    ASSUME ReadsInv, FlightsLed, Freshness, NEW r \in Requests, NEW v,
           request' = [request EXCEPT ![r] = v], v.pc \notin ReadingPCs,
           UNCHANGED <<chain, cache, served, faulted>>
    PROVE  Freshness'
BY FreshStep, EntriesKept

\* A step of a leader that leaves chain, cache and answers alone.
LEMMA FreshLeader ==
    ASSUME ReadsInv, FlightsLed, Freshness, NEW r \in Requests, NEW v,
           request' = [request EXCEPT ![r] = v],
           UNCHANGED <<chain, cache, served>>, faulted => faulted',
           \A k \in Timely : ~faulted' /\ v.kind = k => ReadFresh(r, k)'
    PROVE  Freshness'
BY FreshStep, EntriesKept

\* What a leader of a timely kind knows.
LEMMA LeaderKnows ==
    ASSUME ReadsInv, Freshness, ~faulted, NEW r \in Requests,
           request[r].pc \in ReadingPCs, request[r].kind \in Timely
    PROVE  /\ request[r] \in Active(r)
           /\ ReadFresh(r, request[r].kind) /\ EntryFresh(request[r].kind)
           /\ served[request[r].kind] \in Nat /\ chain \in Nat
           /\ KeyOf(request[r].kind) = request[r].kind /\ request[r].kind \in CacheKeys
           /\ cache[request[r].kind] # None =>
                 cache[request[r].kind] \in Values /\ cache[request[r].kind].version \in Nat
<1>1. request[r] \in Active(r)
    BY ActiveShape DEF ActivePCs
<1>2. ReadFresh(r, request[r].kind) /\ EntryFresh(request[r].kind)
    BY DEF Freshness, Reading, ReadingPCs
<1>3. Versions \subseteq Nat
    BY ReadsAssumption DEF Versions
<1>4. KeyOf(request[r].kind) = request[r].kind /\ request[r].kind \in CacheKeys
    BY DEF KeyOf, Timely, CacheKeys
<1>5. request[r].kind \in Kinds
    BY DEF Timely, Kinds
<1>6. cache[request[r].kind] # None =>
         cache[request[r].kind] \in Values /\ cache[request[r].kind].version \in Nat
    BY <1>3, <1>4 DEF ReadsInv, Values
<1> QED
    BY <1>1, <1>2, <1>3, <1>4, <1>5, <1>6 DEF ReadsInv

\* A leader starts from what was returned before it; without a key it would not look.
LEMMA EnterFresh ==
    ASSUME ReadsInv, FlightsLed, Freshness, NEW r \in Requests, Enter(r)
    PROVE  Freshness'
<1> DEFINE k == request[r].kind
           lead == [request[r] EXCEPT !.pc = IF KeyOf(k) = None THEN "fetch" ELSE "get",
                                      !.since = served[k]]
           wait == [request[r] EXCEPT !.pc = "wait"]
<1>1. request[r] \in Active(r) /\ UNCHANGED <<chain, cache, served, faulted>>
    BY ActiveShape DEF Enter, ActivePCs
<1>2. CASE flight[k] # None
  <2>1. wait.pc \notin ReadingPCs
      BY <1>1 DEF Active, ReadingPCs
  <2>2. request' = [request EXCEPT ![r] = wait]
      BY <1>2 DEF Enter, Step
  <2> HIDE DEF wait
  <2> QED
      BY <1>1, <2>1, <2>2, FreshIdle
<1>3. CASE flight[k] = None
  <2>1. request' = [request EXCEPT ![r] = lead]
      BY <1>3 DEF Enter
  <2>2. lead.kind = k /\ lead.since = served[k]
      BY <1>1 DEF Active
  <2>3. k \in Timely => lead.pc = "get"
      BY <1>1, ReadsAssumption DEF Active, KeyOf, Timely, CacheKeys
  <2> HIDE DEF lead, k
  <2>4. request'[r] = lead
      BY <2>1, Replaced
  <2>5. \A j \in Timely : ~faulted' /\ lead.kind = j => ReadFresh(r, j)'
      BY <1>1, <2>2, <2>3, <2>4 DEF ReadFresh
  <2> QED
      BY <1>1, <2>1, <2>5, FreshLeader
<1> QED
    BY <1>2, <1>3

\* A hit returns the entry.
LEMMA HitFresh ==
    ASSUME ReadsInv, FlightsLed, Freshness, NEW r \in Requests, Hit(r)
    PROVE  Freshness'
<1> DEFINE k == request[r].kind
           read == Ok(Decode(cache[KeyOf(k)], k))
           v == [request[r] EXCEPT !.pc = "leave", !.read = read]
<1>1. /\ request[r].pc = "get" /\ request[r].pc \in ReadingPCs /\ request[r] \in Active(r)
      /\ UNCHANGED <<chain, cache, served, faulted>> /\ cache[KeyOf(k)] # None
    BY ActiveShape DEF Hit, ActivePCs, ReadingPCs
<1>2. request' = [request EXCEPT ![r] = v]
    BY DEF Hit
<1>3. v.pc = "leave" /\ v.kind = k /\ v.read = read /\ v.since = request[r].since
    BY <1>1 DEF Active
<1>4. ASSUME ~faulted, k \in Timely
      PROVE  read.value.version = cache[k].version
  <2>1. cache[k] \in Values /\ KeyOf(k) = k
      BY <1>1, <1>4, LeaderKnows
  <2> QED
      BY <2>1 DEF Ok, Decode, Values
<1>5. request'[r] = v
    BY <1>2, Replaced
<1> HIDE DEF v, read
<1>6. ASSUME ~faulted, k \in Timely
      PROVE  ReadFresh(r, k)'
  <2>1. ReadFresh(r, k) /\ EntryFresh(k) /\ KeyOf(k) = k /\ cache[k].version \in Nat
      BY <1>1, <1>6, LeaderKnows
  <2>2. served[k] <= cache[k].version /\ cache[k].version <= chain
      BY <1>1, <2>1 DEF EntryFresh
  <2> QED
      BY <1>1, <1>3, <1>4, <1>5, <1>6, <2>1, <2>2 DEF ReadFresh
<1> QED
    BY <1>1, <1>2, <1>3, <1>6, FreshLeader

\* A miss that is none, because the cache failed, is a fault.
LEMMA MissFresh ==
    ASSUME ReadsInv, FlightsLed, Freshness, NEW r \in Requests, Miss(r)
    PROVE  Freshness'
<1> DEFINE k == request[r].kind
           v == [request[r] EXCEPT !.pc = "fetch"]
<1>1. /\ request[r].pc = "get" /\ request[r].pc \in ReadingPCs /\ request[r] \in Active(r)
      /\ UNCHANGED <<chain, cache, served>>
      /\ faulted' = (faulted \/ cache[KeyOf(k)] # None)
    BY ActiveShape DEF Miss, ActivePCs, ReadingPCs
<1>2. request' = [request EXCEPT ![r] = v]
    BY DEF Miss, Step
<1>3. v.pc = "fetch" /\ v.kind = k /\ v.since = request[r].since
    BY <1>1 DEF Active
<1>4. request'[r] = v
    BY <1>2, Replaced
<1> HIDE DEF v
<1>5. ASSUME ~faulted', k \in Timely
      PROVE  ReadFresh(r, k)'
  <2>1. ReadFresh(r, k) /\ KeyOf(k) = k
      BY <1>1, <1>5, LeaderKnows
  <2> QED
      BY <1>1, <1>3, <1>4, <1>5, <2>1 DEF ReadFresh
<1> QED
    BY <1>1, <1>2, <1>3, <1>5, FreshLeader

\* An answer of the chain is as new as the chain.
LEMMA FetchedFresh ==
    ASSUME ReadsInv, FlightsLed, Freshness, NEW r \in Requests,
           NEW k, NEW next \in {"fSupply", "leave", "set", "index"}, Fetched(r, k, next)
    PROVE  Freshness'
<1> DEFINE read == Ok(ChainValue(k))
           v == [request[r] EXCEPT !.pc = next, !.read = read]
<1>1. /\ request[r].pc = "fetch" /\ request[r].pc \in ReadingPCs /\ request[r] \in Active(r)
      /\ UNCHANGED <<chain, cache, served, faulted>> /\ request[r].kind = k
    BY ActiveShape DEF Fetched, ActivePCs, ReadingPCs
<1>2. request' = [request EXCEPT ![r] = v]
    BY DEF Fetched
<1>3. v.pc = next /\ v.kind = k /\ v.read = read /\ v.since = request[r].since
    BY <1>1 DEF Active
<1>4. read.value.version = chain
    BY DEF Ok, ChainValue
<1>5. request'[r] = v
    BY <1>2, Replaced
<1> HIDE DEF v, read
<1>6. ASSUME ~faulted, k \in Timely
      PROVE  ReadFresh(r, k)'
  <2>1. ReadFresh(r, k) /\ EntryFresh(k) /\ chain \in Nat
      BY <1>1, <1>6, LeaderKnows
  <2> QED
      BY <1>1, <1>3, <1>4, <1>5, <2>1 DEF ReadFresh, EntryFresh
<1> QED
    BY <1>1, <1>2, <1>3, <1>6, FreshLeader

\* The supplies leave a state as new as it was.
LEMMA SupplyFresh ==
    ASSUME ReadsInv, FlightsLed, Freshness, NEW r \in Requests,
           FetchFSupply(r) \/ FetchXSupply(r)
    PROVE  Freshness'
<1>1. /\ request[r].pc \in {"fSupply", "xSupply"} /\ request[r].kind = "state"
      /\ request[r].pc \in ReadingPCs /\ request[r].read.ok
      /\ UNCHANGED <<chain, cache, served, faulted>>
    BY SupplyFetched DEF ReadingPCs
<1>2. PICK v : /\ request' = [request EXCEPT ![r] = v]
               /\ v.pc \in {"xSupply", "set", "leave"} /\ v.kind = "state"
               /\ v.since = request[r].since
               /\ v.read.ok => v.read.value.version = request[r].read.value.version
    BY SupplyFetched
<1>3. request'[r] = v
    BY <1>2, Replaced
<1>4. ASSUME ~faulted
      PROVE  ReadFresh(r, "state")'
  <2>1. ReadFresh(r, "state") /\ EntryFresh("state")
      BY <1>1, <1>4, LeaderKnows DEF Timely
  <2> QED
      BY <1>1, <1>2, <1>3, <2>1 DEF ReadFresh
<1> QED
    BY <1>1, <1>2, <1>4, FreshLeader

\* A failed fetch returns nothing.
LEMMA FailFresh ==
    ASSUME ReadsInv, FlightsLed, Freshness, NEW r \in Requests, FetchFails(r)
    PROVE  Freshness'
<1> DEFINE k == request[r].kind
           v == [request[r] EXCEPT !.pc = "leave", !.read = Failed]
<1>1. /\ request[r].pc \in ReadingPCs /\ request[r] \in Active(r)
      /\ UNCHANGED <<chain, cache, served, faulted>>
    BY ActiveShape DEF FetchFails, ActivePCs, ReadingPCs
<1>2. request' = [request EXCEPT ![r] = v]
    BY DEF FetchFails
<1>3. v.pc = "leave" /\ v.kind = k /\ ~v.read.ok /\ v.since = request[r].since
    BY <1>1 DEF Active, Failed
<1>4. request'[r] = v
    BY <1>2, Replaced
<1> HIDE DEF v
<1>5. ASSUME ~faulted, k \in Timely
      PROVE  ReadFresh(r, k)'
  <2>1. ReadFresh(r, k)
      BY <1>1, <1>5, LeaderKnows
  <2> QED
      BY <1>1, <1>3, <1>4, <2>1 DEF ReadFresh
<1> QED
    BY <1>1, <1>2, <1>3, <1>5, FreshLeader

\* The pool's index completes a stake, which is not of a timely kind.
LEMMA RewardsFresh ==
    ASSUME ReadsInv, FlightsLed, Freshness, NEW r \in Requests, FetchRewards(r)
    PROVE  Freshness'
<1> DEFINE v == [request[r] EXCEPT !.pc = "set"]
<1>1. /\ request[r].pc = "index" /\ request[r] \in Active(r)
      /\ UNCHANGED <<chain, cache, served, faulted>>
    BY ActiveShape DEF FetchRewards, ActivePCs, ReadingPCs
<1>2. request' = [request EXCEPT ![r] = v]
    BY DEF FetchRewards, Step
<1>3. v.kind = request[r].kind /\ request[r].kind = "spUser"
    BY <1>1 DEF Active, ReadsInv, Stage
<1>4. v.kind \notin Timely
    BY <1>3 DEF Timely
<1> HIDE DEF v
<1> QED
    BY <1>1, <1>2, <1>4, FreshLeader

\* The entry stored is what will be returned; one that is not stored is a fault.
LEMMA StoreFresh ==
    ASSUME ReadsInv, FlightsLed, Freshness, NEW r \in Requests, Store(r) \/ StoreFails(r)
    PROVE  Freshness'
<1>0. PICK k : k = request[r].kind
    OBVIOUS
<1> DEFINE v == [request[r] EXCEPT !.pc = "leave"]
<1>1. /\ request[r].pc = "set" /\ request[r].pc \in ReadingPCs /\ request[r] \in Active(r)
      /\ UNCHANGED <<chain, served>>
    BY ActiveShape DEF Store, StoreFails, ActivePCs, ReadingPCs
<1>2. request' = [request EXCEPT ![r] = v]
    BY DEF Store, StoreFails, Step
<1>3. v.pc = "leave" /\ v.kind = k /\ v.read = request[r].read /\ v.since = request[r].since
    BY <1>0, <1>1 DEF Active
<1>4. request'[r] = v
    BY <1>2, Replaced
<1> HIDE DEF v
<1>5. CASE StoreFails(r)
  <2>1. faulted' /\ cache' = cache
      BY <1>5 DEF StoreFails
  <2> QED
      BY <1>1, <1>2, <2>1, FreshLeader
<1>6. CASE Store(r)
  <2>1. /\ cache' = [cache EXCEPT ![KeyOf(k)] = request[r].read.value] /\ faulted' = faulted
        /\ cache \in [CacheKeys -> Values \cup {None}]
      BY <1>0, <1>6 DEF Store, ReadsInv
  <2>2. \A j \in Timely : j # k => cache'[j] = cache[j]
    <3>1. k \in Kinds
        BY <1>0, <1>1 DEF Active
    <3>2. \A j \in Timely : j # k => KeyOf(k) # j /\ j \in CacheKeys
        BY <3>1, ReadsAssumption DEF Timely, Kinds, KeyOf, CacheKeys
    <3> QED
        BY <2>1, <3>2
  <2>3. ASSUME ~faulted, k \in Timely
        PROVE  EntryFresh(k)' /\ ReadFresh(r, k)'
    <3>1. ReadFresh(r, k) /\ EntryFresh(k) /\ KeyOf(k) = k /\ k \in CacheKeys
        BY <1>0, <1>1, <2>3, LeaderKnows
    <3>2. cache'[k] = request[r].read.value
        BY <2>1, <3>1
    <3>3. request[r].read.ok
        BY <1>1 DEF ReadsInv, Stage
    <3>4. request[r].read.value.version \in Nat
      <4>1. request[r].read.value \in Values
          BY <1>1 DEF ReadsInv, Stage
      <4>2. Versions \subseteq Nat
          BY ReadsAssumption DEF Versions
      <4> QED
          BY <4>1, <4>2 DEF Values
    <3> QED
        BY <1>1, <1>3, <1>4, <3>1, <3>2, <3>3, <3>4 DEF ReadFresh, EntryFresh
  <2>4. ASSUME ~faulted, NEW j \in Timely
        PROVE  EntryFresh(j)'
    <3>1. CASE j = k
        BY <2>3, <2>4, <3>1
    <3>2. CASE j # k
        BY <1>1, <2>2, <2>4, <3>2 DEF Freshness, EntryFresh
    <3> QED
        BY <3>1, <3>2
  <2>5. \A j \in Timely : \/ served'[j] = served[j] /\ cache'[j] = cache[j]
                          \/ request[r].pc \in ReadingPCs /\ request[r].kind = j
      BY <1>0, <1>1, <2>2
  <2>6. \A j \in Timely : ~faulted' =>
           /\ EntryFresh(j)'
           /\ v.pc \in ReadingPCs /\ v.kind = j => ReadFresh(r, j)'
      BY <1>3, <2>1, <2>3, <2>4
  <2> QED
      BY <1>1, <1>2, <2>1, <2>5, <2>6, FreshStep
<1> QED
    BY <1>5, <1>6

\* What is returned is no newer than the entry that stays.
LEMMA LeaveFresh ==
    ASSUME ReadsInv, FlightsLed, Freshness, NEW r \in Requests, Leave(r)
    PROVE  Freshness'
<1>0. PICK k : k = request[r].kind
    OBVIOUS
<1> DEFINE res == request[r].read
           v == [request[r] EXCEPT !.pc = "handle", !.results = Append(@, request[r].read)]
<1>1. /\ request[r].pc = "leave" /\ request[r].pc \in ReadingPCs /\ request[r] \in Active(r)
      /\ UNCHANGED <<chain, cache, faulted>> /\ served \in [Kinds -> Versions]
      /\ served' = [served EXCEPT ![k] =
                      IF res.ok /\ res.value.version > served[k] THEN res.value.version ELSE served[k]]
    BY <1>0, ActiveShape DEF Leave, ActivePCs, ReadingPCs, ReadsInv
<1>2. request' = [request EXCEPT ![r] = v]
    BY DEF Leave
<1>3. v.pc \notin ReadingPCs
    BY <1>1 DEF Active, ReadingPCs
<1> HIDE DEF v
<1>4. \A j \in Timely : j # k => served'[j] = served[j]
    BY <1>1 DEF Timely, Kinds
<1>5. ASSUME ~faulted, k \in Timely
      PROVE  EntryFresh(k)'
  <2>1. /\ ReadFresh(r, k) /\ EntryFresh(k) /\ served[k] \in Nat /\ chain \in Nat /\ k \in Kinds
        /\ cache[k] # None => cache[k].version \in Nat
      BY <1>0, <1>1, <1>5, LeaderKnows DEF Timely, Kinds
  <2>2. served'[k] = IF res.ok /\ res.value.version > served[k] THEN res.value.version ELSE served[k]
      BY <1>1, <2>1
  <2>0. res.ok => res.value.version \in Nat
    <3>1. res.ok => res.value \in Values
      <4>1. res \in Outcomes
          BY <1>1 DEF Active
      <4>2. res = Failed => ~res.ok
          BY DEF Failed
      <4> HIDE DEF res
      <4> QED
          BY <4>1, <4>2 DEF Outcomes
    <3>2. Versions \subseteq Nat
        BY ReadsAssumption DEF Versions
    <3> QED
        BY <3>1, <3>2 DEF Values
  <2>3. served'[k] <= chain
      BY <1>1, <2>0, <2>1, <2>2 DEF ReadFresh, EntryFresh
  <2>4. cache[k] # None => served'[k] <= cache[k].version /\ cache[k].version <= chain
      BY <1>1, <2>0, <2>1, <2>2 DEF ReadFresh, EntryFresh
  <2> QED
      BY <1>1, <2>3, <2>4 DEF EntryFresh
<1>6. ASSUME ~faulted, NEW j \in Timely
      PROVE  EntryFresh(j)'
  <2>1. CASE j = k
      BY <1>5, <1>6, <2>1
  <2>2. CASE j # k
      BY <1>1, <1>4, <1>6, <2>2 DEF Freshness, EntryFresh
  <2> QED
      BY <2>1, <2>2
<1>7. \A j \in Timely : \/ served'[j] = served[j] /\ cache'[j] = cache[j]
                        \/ request[r].pc \in ReadingPCs /\ request[r].kind = j
    BY <1>0, <1>1, <1>4
<1>8. \A j \in Timely : ~faulted' =>
         /\ EntryFresh(j)'
         /\ v.pc \in ReadingPCs /\ v.kind = j => ReadFresh(r, j)'
    BY <1>1, <1>3, <1>6
<1> QED
    BY <1>1, <1>2, <1>7, <1>8, FreshStep

\* An answer, a new request or the handler's next read touches no entry.
LEMMA HandlerFresh ==
    ASSUME ReadsInv, FlightsLed, Freshness, NEW r \in Requests,
           \/ \E a \in Amounts, ep \in Asks[r] : Arrive(r, ep, a) \/ RefuseAmount(r, ep, a)
           \/ ReadOn(r) \/ \E stake, quote : Finish(r, stake, quote)
    PROVE  Freshness'
<1>1. ASSUME NEW a, NEW ep, Arrive(r, ep, a) PROVE Freshness'
  <2> DEFINE v == [pc |-> "enter", endpoint |-> ep, amount |-> a, kind |-> NextRead(ep, <<>>),
                   results |-> <<>>, read |-> Failed, since |-> 0]
  <2>1. /\ request' = [request EXCEPT ![r] = v]
        /\ UNCHANGED <<chain, cache, served, faulted>>
      BY <1>1 DEF Arrive
  <2>2. v.pc \notin ReadingPCs
      BY DEF ReadingPCs
  <2> HIDE DEF v
  <2> QED
      BY <2>1, <2>2, FreshIdle
<1>2. CASE ReadOn(r)
  <2> DEFINE v == [request[r] EXCEPT !.pc = "enter",
                                     !.kind = NextRead(request[r].endpoint, request[r].results)]
  <2>1. request[r] \in Active(r)
      BY <1>2, ActiveShape DEF ReadOn, ActivePCs
  <2>2. /\ request' = [request EXCEPT ![r] = v]
        /\ UNCHANGED <<chain, cache, served, faulted>>
      BY <1>2 DEF ReadOn
  <2>3. v.pc \notin ReadingPCs
      BY <2>1 DEF Active, ReadingPCs
  <2> HIDE DEF v
  <2> QED
      BY <2>2, <2>3, FreshIdle
<1>3. ASSUME NEW stake, NEW quote, Finish(r, stake, quote) PROVE Freshness'
  <2> DEFINE v == [pc |-> "done", endpoint |-> request[r].endpoint, stake |-> stake, quote |-> quote]
  <2>1. /\ request' = [request EXCEPT ![r] = v]
        /\ UNCHANGED <<chain, cache, served, faulted>>
      BY <1>3 DEF Finish
  <2>2. v.pc \notin ReadingPCs
      BY DEF ReadingPCs
  <2> HIDE DEF v
  <2> QED
      BY <2>1, <2>2, FreshIdle
<1>4. ASSUME NEW a, NEW ep, RefuseAmount(r, ep, a) PROVE Freshness'
  <2> DEFINE v == [pc |-> "done", endpoint |-> ep, stake |-> None, quote |-> None]
  <2>1. /\ request' = [request EXCEPT ![r] = v]
        /\ UNCHANGED <<chain, cache, served, faulted>>
      BY <1>4 DEF RefuseAmount
  <2>2. v.pc \notin ReadingPCs
      BY DEF ReadingPCs
  <2> HIDE DEF v
  <2> QED
      BY <2>1, <2>2, FreshIdle
<1> QED
    BY <1>1, <1>2, <1>3, <1>4

\* A transaction makes the chain newer; an entry that runs out is gone.
LEMMA WorldFresh ==
    ASSUME ReadsInv, Freshness, Advance \/ \E key \in CacheKeys : Expire(key)
    PROVE  Freshness'
<1> SUFFICES ASSUME ~faulted', NEW k \in Timely
             PROVE  /\ EntryFresh(k)'
                    /\ \A r \in Requests : request'[r].pc \in ReadingPCs /\ request'[r].kind = k
                          => ReadFresh(r, k)'
    BY DEF Freshness, Reading, ReadingPCs
<1>0. request' = request /\ served' = served /\ faulted' = faulted
    BY DEF Advance, Expire
<1>1. /\ EntryFresh(k) /\ k \in CacheKeys /\ served[k] \in Nat /\ chain \in Nat
      /\ cache[k] # None => cache[k].version \in Nat
  <2>1. Versions \subseteq Nat
      BY ReadsAssumption DEF Versions
  <2>2. k \in CacheKeys /\ k \in Kinds
      BY DEF Timely, CacheKeys, Kinds
  <2> QED
      BY <1>0, <2>1, <2>2 DEF Freshness, ReadsInv, Values
<1>2. ASSUME NEW r \in Requests, request[r].pc \in ReadingPCs, request[r].kind = k
      PROVE  /\ ReadFresh(r, k)
             /\ request[r].pc \in {"fSupply", "xSupply", "set", "leave"} /\ request[r].read.ok
                   => request[r].read.value.version \in Nat
  <2>1. ReadFresh(r, k) /\ request[r].read \in Outcomes
      BY <1>0, <1>2, ActiveShape DEF Freshness, Reading, ReadingPCs, Active, ActivePCs
  <2>2. request[r].read = Failed => ~request[r].read.ok
      BY DEF Failed
  <2>3. request[r].read.ok => request[r].read.value \in Values
      BY <2>1, <2>2 DEF Outcomes
  <2>4. Versions \subseteq Nat
      BY ReadsAssumption DEF Versions
  <2> QED
      BY <2>1, <2>3, <2>4 DEF Values
<1>3. CASE Advance
  <2>1. chain' = chain + 1 /\ cache' = cache
      BY <1>3 DEF Advance
  <2>2. EntryFresh(k)'
      BY <1>0, <1>1, <2>1 DEF EntryFresh
  <2> QED
      BY <1>0, <1>1, <1>2, <2>1, <2>2 DEF ReadFresh
<1>4. CASE \E key \in CacheKeys : Expire(key)
  <2>1. chain' = chain /\ (cache'[k] = cache[k] \/ cache'[k] = None)
      BY <1>1, <1>4 DEF Expire, ReadsInv
  <2>2. EntryFresh(k)'
      BY <1>0, <1>1, <2>1 DEF EntryFresh
  <2> QED
      BY <1>0, <1>2, <2>1, <2>2 DEF ReadFresh
<1> QED
    BY <1>3, <1>4

\* Every step keeps the entries fresh.
LEMMA FreshnessStep == ReadsInv /\ FlightsLed /\ Freshness /\ [Next]_vars => Freshness'
<1> SUFFICES ASSUME ReadsInv, FlightsLed, Freshness, [Next]_vars
             PROVE  Freshness'
    OBVIOUS
<1>1. ASSUME NEW r \in Requests,
             \/ FetchState(r) \/ FetchIndex(r) \/ FetchPositions(r) \/ FetchBalances(r) \/ FetchSpUser(r)
      PROVE  Freshness'
    BY <1>1, FetchedFresh DEF FetchState, FetchIndex, FetchPositions, FetchBalances, FetchSpUser
<1>2. ASSUME NEW r \in Requests, Answer(r) \/ \E p \in MarketPrices : AnswerQuote(r, p)
      PROVE  Freshness'
  <2>1. \E stake, quote : Finish(r, stake, quote)
      BY <1>2 DEF Answer, AnswerQuote
  <2> QED
      BY <2>1, HandlerFresh
<1>3. ASSUME NEW r \in Requests, Work(r)
      PROVE  Freshness'
  <2>1. CASE Enter(r) \/ Leave(r) \/ Hit(r) \/ Miss(r)
      BY <2>1, EnterFresh, LeaveFresh, HitFresh, MissFresh
  <2>2. CASE FetchRewards(r) \/ FetchFails(r) \/ Store(r) \/ StoreFails(r) \/ ReadOn(r)
      BY <2>2, RewardsFresh, FailFresh, StoreFresh, HandlerFresh
  <2>3. CASE FetchFSupply(r) \/ FetchXSupply(r)
      BY <2>3, SupplyFresh
  <2> QED
      BY <1>1, <1>2, <1>3, <2>1, <2>2, <2>3 DEF Work
<1>4. CASE UNCHANGED vars
    BY <1>4 DEF vars, Freshness, EntryFresh, ReadFresh, Reading
<1> QED
    BY <1>3, <1>4, HandlerFresh, WorldFresh DEF Next

\* Of two reads of the protocol's state, or of the pool's index, the one that begins
\* after the other ended never returns an older version, for any number of requests,
\* whatever expires and however the chain advances, unless the cache lost a call.
THEOREM ReadsMonotonic == Spec => []MonotonicReads
<1>1. Init => Freshness
  <2> SUFFICES ASSUME Init PROVE Freshness
      OBVIOUS
  <2>1. \A r \in Requests : ~Reading(r)
      BY DEF Init, Reading
  <2>2. \A k \in Timely : EntryFresh(k)
      BY DEF Init, EntryFresh, Timely, Kinds, CacheKeys
  <2> QED
      BY <2>1, <2>2 DEF Freshness
<1>2. ReadsInv /\ Freshness => MonotonicReads
  <2> SUFFICES ASSUME ReadsInv, Freshness, NEW r \in Requests,
                      request[r].pc = "leave", request[r].read.ok,
                      request[r].kind \in {"state", "index"}, ~faulted
               PROVE  request[r].read.value.version >= request[r].since
      BY DEF MonotonicReads
  <2>1. /\ request[r] \in Active(r) /\ ReadFresh(r, request[r].kind)
        /\ served[request[r].kind] \in Nat
      BY LeaderKnows DEF ReadingPCs, Timely
  <2>2. request[r].read.value.version \in Nat
    <3>1. request[r].read \in Outcomes
        BY <2>1 DEF Active
    <3>2. request[r].read = Failed => ~request[r].read.ok
        BY DEF Failed
    <3>3. request[r].read.value \in Values
        BY <3>1, <3>2 DEF Outcomes
    <3>4. Versions \subseteq Nat
        BY ReadsAssumption DEF Versions
    <3> QED
        BY <3>3, <3>4 DEF Values
  <2> QED
      BY <2>1, <2>2 DEF ReadFresh
<1>3. Init => FlightsLed
    BY DEF Init, FlightsLed, Reading
<1> QED
    BY <1>1, <1>2, <1>3, ReadsInvInit, ReadsInvStep, FlightsStep, FreshnessStep, PTL DEF Spec

-----------------------------------------------------------------------------
(* Round trips. *)

\* What a quote gives depends on the endpoint, the amount and the price, and not on the
\* protocol state it was made from, which only decides whether there is a quote.
OutOf(endpoint, a, p) ==
    CASE endpoint = "mintF" ->
            LET G == (a * Unit) * p
                D == (1 * 1) * FPrice
            IN  [n |-> (G * (D * 1000) - (G * 3) * D) * 1, d |-> (D * (D * 1000)) * Unit]
      [] endpoint = "redeemF" ->
            LET G == a * FPrice
                D == 1 * p
            IN  [n |-> G * (D * 1000) - (G * 5) * D, d |-> D * (D * 1000)]
      [] endpoint = "mintX" -> [n |-> a * 98, d |-> 1 * 100]
      [] endpoint = "redeemX" -> [n |-> a * 102, d |-> 1 * 100]

\* A constraint that is met gives the quote as it was worked out.
LEMMA QuotedGives ==
    ASSUME NEW q, Quoted(q).ok
    PROVE  Quoted(q).quote = q
BY DEF Quoted

\* Each of the four quotes gives what OutOf says.
LEMMA QuoteOuts ==
    ASSUME NEW s, NEW a, NEW p
    PROVE  /\ MintQuote(s, Whole(a), p, FPrice).ok
                 => MintQuote(s, Whole(a), p, FPrice).quote.out = OutOf("mintF", a, p)
           /\ RedeemQuote(s, Whole(a), p, FPrice).ok
                 => RedeemQuote(s, Whole(a), p, FPrice).quote.out = OutOf("redeemF", a, p)
           /\ MintXQuote(s, Whole(a)).ok
                 => MintXQuote(s, Whole(a)).quote.out = OutOf("mintX", a, p)
           /\ RedeemXQuote(s, Whole(a)).ok
                 => RedeemXQuote(s, Whole(a)).quote.out = OutOf("redeemX", a, p)
<1>1. ASSUME MintQuote(s, Whole(a), p, FPrice).ok
      PROVE  MintQuote(s, Whole(a), p, FPrice).quote.out = OutOf("mintF", a, p)
    BY <1>1, QuotedGives DEF MintQuote, OutOf, Times, Minus, Whole
<1>2. ASSUME RedeemQuote(s, Whole(a), p, FPrice).ok
      PROVE  RedeemQuote(s, Whole(a), p, FPrice).quote.out = OutOf("redeemF", a, p)
    BY <1>2, QuotedGives DEF RedeemQuote, OutOf, Times, Minus, Whole
<1>3. ASSUME MintXQuote(s, Whole(a)).ok
      PROVE  MintXQuote(s, Whole(a)).quote.out = OutOf("mintX", a, p)
    BY <1>3, QuotedGives DEF MintXQuote, OutOf, Times, Whole
<1>4. ASSUME RedeemXQuote(s, Whole(a)).ok
      PROVE  RedeemXQuote(s, Whole(a)).quote.out = OutOf("redeemX", a, p)
    BY <1>4, QuotedGives DEF RedeemXQuote, OutOf, Times, Whole
<1> QED
    BY <1>1, <1>2, <1>3, <1>4

\* 0.997 * 0.995 of an fToken round trip comes back, at any prices.
LEMMA FTripLoses ==
    ASSUME NEW a \in Nat, NEW b \in Nat, NEW p \in Nat
    PROVE  LET got == OutOf("mintF", a, p)
               back == OutOf("redeemF", b, p)
           IN  (back.n * got.n) * 1 <= (a * b) * (back.d * got.d)
<1> DEFINE got == OutOf("mintF", a, p)
           back == OutOf("redeemF", b, p)
<1>1. Unit \in Nat /\ FPrice \in Nat
    BY UnitAssumption, ReadsAssumption
<1>2. PICK u \in Nat, f \in Nat : u = Unit /\ f = FPrice
    BY <1>1
<1>3. /\ got.n = (((a * u) * p) * (((1 * 1) * f) * 1000) - (((a * u) * p) * 3) * ((1 * 1) * f)) * 1
      /\ got.d = (((1 * 1) * f) * (((1 * 1) * f) * 1000)) * u
      /\ back.n = (b * f) * ((1 * p) * 1000) - ((b * f) * 5) * (1 * p)
      /\ back.d = (1 * p) * ((1 * p) * 1000)
    BY <1>2 DEF OutOf
<1> HIDE DEF got, back
<1>4. PICK x \in Nat, y \in Nat, z \in Nat, w \in Nat :
         x = ((a * u) * p) * f /\ y = (f * f) * u /\ z = (b * f) * p /\ w = p * p
    BY SMT
<1>5. got.n = 997 * x /\ got.d = 1000 * y
    BY <1>3, <1>4, SMT
<1>6. back.n = 995 * z /\ back.d = 1000 * w
    BY <1>3, <1>4, SMT
<1>7. z * x = (a * b) * (w * y) /\ z * x \in Nat
    BY <1>4, SMT
<1>8. back.n * got.n = (995 * 997) * (z * x)
    BY <1>5, <1>6, SMT
<1>9. (a * b) * (back.d * got.d) = (1000 * 1000) * ((a * b) * (w * y))
    BY <1>5, <1>6, SMT
<1>10. (back.n * got.n) * 1 <= (a * b) * (back.d * got.d)
  <2> DEFINE L == back.n * got.n
             R == (a * b) * (back.d * got.d)
             m == z * x
  <2>1. L = (995 * 997) * m
      BY <1>8
  <2>2. (a * b) * (w * y) = m
      BY <1>7
  <2>3. R = (1000 * 1000) * ((a * b) * (w * y))
      BY <1>9
  <2>4. R = (1000 * 1000) * m
      BY <2>2, <2>3
  <2>5. m \in Nat
      BY <1>7
  <2> HIDE DEF L, R, m
  <2>6. L * 1 <= R
      BY <2>1, <2>4, <2>5, SMT
  <2> QED
      BY <2>6 DEF L, R
<1> QED
    BY <1>10, Zenon DEF got, back

\* 0.98 * 1.02 of an xToken round trip comes back.
LEMMA XTripLoses ==
    ASSUME NEW a \in Nat, NEW b \in Nat, NEW p
    PROVE  LET got == OutOf("mintX", a, p)
               back == OutOf("redeemX", b, p)
           IN  (back.n * got.n) * 1 <= (a * b) * (back.d * got.d)
<1> DEFINE got == OutOf("mintX", a, p)
           back == OutOf("redeemX", b, p)
<1>1. /\ got.n = a * 98 /\ got.d = 1 * 100
      /\ back.n = b * 102 /\ back.d = 1 * 100
    BY DEF OutOf
<1> HIDE DEF got, back
<1>2. back.n * got.n = (98 * 102) * (a * b)
    BY <1>1, SMT
<1>3. (a * b) * (back.d * got.d) = (100 * 100) * (a * b) /\ a * b \in Nat
    BY <1>1, SMT
<1>4. ASSUME NEW m \in Nat PROVE ((98 * 102) * m) * 1 <= (100 * 100) * m
    BY SMT
<1>5. ((98 * 102) * (a * b)) * 1 <= (100 * 100) * (a * b)
    BY ONLY <1>3, <1>4
<1>6. (back.n * got.n) * 1 <= (a * b) * (back.d * got.d)
    BY <1>2, <1>3, <1>5, Zenon
<1> QED
    BY <1>6, Zenon DEF got, back

\* A quote that was answered is what its endpoint gives for its amount at its price.
QuotesMade ==
    \A r \in Requests :
        request[r].pc = "done" /\ request[r].quote # None =>
            \E a \in ValidAmounts, p \in MarketPrices :
                /\ request[r].quote.amount = a /\ request[r].quote.price = p
                /\ request[r].quote.quote.out = OutOf(request[r].endpoint, a, p)

\* A step that answers nothing keeps the quotes answered so far.
LEMMA NoAnswer ==
    ASSUME ReadsInv, QuotesMade, NEW r \in Requests, NEW v,
           request' = [request EXCEPT ![r] = v], v.pc # "done"
    PROVE  QuotesMade'
<1>1. /\ request'[r] = v
      /\ \A q \in Requests : q # r => request'[q] = request[q]
    BY Replaced
<1> QED
    BY <1>1 DEF QuotesMade

\* An answer is made by the quote service from the state that was read.
LEMMA AnswerMade ==
    ASSUME ReadsInv, NEW r \in Requests, NEW p \in MarketPrices, AnswerQuote(r, p)
    PROVE  /\ request[r].amount \in ValidAmounts
           /\ QuoteOf(r, p).quote.out = OutOf(request[r].endpoint, request[r].amount, p)
<1> DEFINE a == request[r].amount
           s == StateOf(request[r].results[1].value)
<1>1. a \in ValidAmounts
    BY ActiveShape DEF AnswerQuote, Active, ActivePCs
<1>2. request[r].endpoint \in QuoteEndpoints /\ QuoteOf(r, p).ok
    BY DEF AnswerQuote
<1> HIDE DEF s
<1>3. CASE request[r].endpoint = "mintF"
  <2>1. QuoteOf(r, p) = MintQuote(s, Whole(a), p, FPrice)
      BY <1>3 DEF QuoteOf, FQuoteOf, s
  <2> QED
      BY <1>1, <1>2, <1>3, <2>1, QuoteOuts
<1>4. CASE request[r].endpoint = "redeemF"
  <2>1. QuoteOf(r, p) = RedeemQuote(s, Whole(a), p, FPrice)
      BY <1>4 DEF QuoteOf, FQuoteOf, s
  <2> QED
      BY <1>1, <1>2, <1>4, <2>1, QuoteOuts
<1>5. CASE request[r].endpoint = "mintX"
  <2>1. QuoteOf(r, p) = MintXQuote(s, Whole(a))
      BY <1>5 DEF QuoteOf, XQuoteOf, s
  <2> QED
      BY <1>1, <1>2, <1>5, <2>1, QuoteOuts
<1>6. CASE request[r].endpoint = "redeemX"
  <2>1. QuoteOf(r, p) = RedeemXQuote(s, Whole(a))
      BY <1>6 DEF QuoteOf, XQuoteOf, s
  <2> QED
      BY <1>1, <1>2, <1>6, <2>1, QuoteOuts
<1> QED
    BY <1>2, <1>3, <1>4, <1>5, <1>6 DEF QuoteEndpoints

\* Every quote answered is one that was made.
LEMMA QuotesStep == ReadsInv /\ QuotesMade /\ [Next]_vars => QuotesMade'
<1> SUFFICES ASSUME ReadsInv, QuotesMade, [Next]_vars
             PROVE  QuotesMade'
    OBVIOUS
<1>1. ASSUME NEW r \in Requests, NEW a, NEW ep, Arrive(r, ep, a)
      PROVE  QuotesMade'
  <2> DEFINE v == [pc |-> "enter", endpoint |-> ep, amount |-> a, kind |-> NextRead(ep, <<>>),
                   results |-> <<>>, read |-> Failed, since |-> 0]
  <2>1. request' = [request EXCEPT ![r] = v] /\ v.pc # "done"
      BY <1>1 DEF Arrive
  <2> HIDE DEF v
  <2> QED
      BY <2>1, NoAnswer
<1>2. ASSUME NEW r \in Requests, request[r].pc \in ActivePCs,
             NEW v, request' = [request EXCEPT ![r] = v], v.pc \in ActivePCs
      PROVE  QuotesMade'
    BY <1>2, NoAnswer DEF ActivePCs, ReadingPCs
<1>3. ASSUME NEW r \in Requests, request[r].pc \in ActivePCs,
             NEW pc \in ActivePCs, NEW read,
             request' = [request EXCEPT ![r].pc = pc, ![r].read = read]
      PROVE  QuotesMade'
  <2> DEFINE v == [request[r] EXCEPT !.pc = pc, !.read = read]
  <2>1. request[r] \in Active(r)
      BY <1>3, ActiveShape
  <2>2. v.pc = pc /\ request' = [request EXCEPT ![r] = v]
      BY <1>3, <2>1 DEF Active
  <2> HIDE DEF v
  <2> QED
      BY <1>2, <1>3, <2>2
<1>4. ASSUME NEW r \in Requests, request[r].pc \in ActivePCs,
             NEW pc \in ActivePCs, request' = Step(r, pc)
      PROVE  QuotesMade'
  <2> DEFINE v == [request[r] EXCEPT !.pc = pc]
  <2>1. request[r] \in Active(r)
      BY <1>4, ActiveShape
  <2>2. v.pc = pc /\ request' = [request EXCEPT ![r] = v]
      BY <1>4, <2>1 DEF Active, Step
  <2> HIDE DEF v
  <2> QED
      BY <1>2, <1>4, <2>2
<1>5. ASSUME NEW r \in Requests, Enter(r)
      PROVE  QuotesMade'
  <2> DEFINE v == [request[r] EXCEPT !.pc = IF KeyOf(request[r].kind) = None THEN "fetch" ELSE "get",
                                     !.since = served[request[r].kind]]
  <2>1. request[r] \in Active(r) /\ request[r].pc \in ActivePCs
      BY <1>5, ActiveShape DEF Enter, ActivePCs
  <2>2. CASE request' = Step(r, "wait")
      BY <1>4, <2>1, <2>2 DEF ActivePCs
  <2>3. CASE request' = [request EXCEPT ![r] = v]
    <3>1. v.pc \in ActivePCs
        BY <2>1 DEF Active, ActivePCs, ReadingPCs
    <3> HIDE DEF v
    <3> QED
        BY <1>2, <2>1, <2>3, <3>1
  <2> QED
      BY <1>5, <2>2, <2>3 DEF Enter
<1>6. ASSUME NEW r \in Requests, Leave(r)
      PROVE  QuotesMade'
  <2> DEFINE v == [request[r] EXCEPT !.pc = "handle", !.results = Append(@, request[r].read)]
  <2>1. request[r] \in Active(r) /\ request[r].pc \in ActivePCs
      BY <1>6, ActiveShape DEF Leave, ActivePCs, ReadingPCs
  <2>2. v.pc \in ActivePCs
      BY <2>1 DEF Active, ActivePCs
  <2>3. request' = [request EXCEPT ![r] = v]
      BY <1>6 DEF Leave
  <2> HIDE DEF v
  <2> QED
      BY <1>2, <2>1, <2>2, <2>3
<1>7. ASSUME NEW r \in Requests, Miss(r) \/ FetchRewards(r) \/ Store(r) \/ StoreFails(r)
      PROVE  QuotesMade'
    BY <1>4, <1>7 DEF Miss, FetchRewards, Store, StoreFails, ActivePCs, ReadingPCs
<1>8. ASSUME NEW r \in Requests, Hit(r)
      PROVE  QuotesMade'
  <2> DEFINE read == Ok(Decode(cache[KeyOf(request[r].kind)], request[r].kind))
  <2>1. request[r].pc = "get" /\ request' = [request EXCEPT ![r].pc = "leave", ![r].read = read]
      BY <1>8 DEF Hit
  <2> HIDE DEF read
  <2>2. request[r].pc \in ActivePCs /\ "leave" \in ActivePCs
      BY <2>1 DEF ActivePCs, ReadingPCs
  <2> QED
      BY ONLY <1>3, <2>1, <2>2
<1>9. ASSUME NEW r \in Requests, FetchFails(r)
      PROVE  QuotesMade'
  <2>1. /\ request[r].pc \in {"fetch", "fSupply", "xSupply", "index"}
        /\ request' = [request EXCEPT ![r].pc = "leave", ![r].read = Failed]
      BY <1>9 DEF FetchFails
  <2>2. request[r].pc \in ActivePCs /\ "leave" \in ActivePCs
      BY <2>1 DEF ActivePCs, ReadingPCs
  <2> QED
      BY ONLY <1>3, <2>1, <2>2
<1>10. ASSUME NEW r \in Requests, NEW k, NEW next \in {"fSupply", "leave", "set", "index"}, Fetched(r, k, next)
       PROVE  QuotesMade'
  <2> DEFINE read == Ok(ChainValue(k))
  <2>1. /\ request[r].pc = "fetch"
        /\ request' = [request EXCEPT ![r].pc = next, ![r].read = read]
      BY <1>10 DEF Fetched
  <2> HIDE DEF read
  <2>2. request[r].pc \in ActivePCs /\ next \in ActivePCs
      BY <2>1 DEF ActivePCs, ReadingPCs
  <2> QED
      BY ONLY <1>3, <2>1, <2>2
<1>11. ASSUME NEW r \in Requests,
             \/ FetchState(r) \/ FetchIndex(r) \/ FetchPositions(r) \/ FetchBalances(r) \/ FetchSpUser(r)
       PROVE  QuotesMade'
    BY <1>10, <1>11 DEF FetchState, FetchIndex, FetchPositions, FetchBalances, FetchSpUser
<1>12. ASSUME NEW r \in Requests, ReadOn(r)
       PROVE  QuotesMade'
  <2> DEFINE v == [request[r] EXCEPT !.pc = "enter",
                                     !.kind = NextRead(request[r].endpoint, request[r].results)]
  <2>1. request[r] \in Active(r) /\ request[r].pc \in ActivePCs
      BY <1>12, ActiveShape DEF ReadOn, ActivePCs
  <2>2. v.pc \in ActivePCs
      BY <2>1 DEF Active, ActivePCs
  <2>3. request' = [request EXCEPT ![r] = v]
      BY <1>12 DEF ReadOn
  <2> HIDE DEF v
  <2> QED
      BY <1>2, <2>1, <2>2, <2>3
<1>13. ASSUME NEW r \in Requests, NEW stake, NEW quote, Finish(r, stake, quote),
              quote # None =>
                 \E a \in ValidAmounts, p \in MarketPrices :
                    /\ quote.amount = a /\ quote.price = p
                    /\ quote.quote.out = OutOf(request[r].endpoint, a, p)
       PROVE  QuotesMade'
  <2> DEFINE v == [pc |-> "done", endpoint |-> request[r].endpoint, stake |-> stake, quote |-> quote]
  <2>1. request' = [request EXCEPT ![r] = v]
      BY <1>13 DEF Finish
  <2>2. v.endpoint = request[r].endpoint /\ v.quote = quote
      OBVIOUS
  <2> HIDE DEF v
  <2>3. /\ request'[r] = v
        /\ \A q \in Requests : q # r => request'[q] = request[q]
      BY <2>1, Replaced
  <2> QED
      BY <1>13, <2>2, <2>3 DEF QuotesMade
<1>14. ASSUME NEW r \in Requests, Answer(r)
       PROVE  QuotesMade'
    BY <1>13, <1>14 DEF Answer
<1>15. ASSUME NEW r \in Requests, NEW p \in MarketPrices, AnswerQuote(r, p)
       PROVE  QuotesMade'
  <2> DEFINE quote == [quote |-> QuoteOf(r, p).quote, price |-> p, amount |-> request[r].amount]
  <2>1. Finish(r, None, quote)
      BY <1>15 DEF AnswerQuote
  <2>2. /\ quote.amount = request[r].amount /\ request[r].amount \in ValidAmounts /\ quote.price = p
        /\ quote.quote.out = OutOf(request[r].endpoint, request[r].amount, p)
      BY <1>15, AnswerMade
  <2> HIDE DEF quote
  <2> QED
      BY <1>13, <2>1, <2>2
<1>17. ASSUME NEW r \in Requests, NEW a, NEW ep, RefuseAmount(r, ep, a)
       PROVE  QuotesMade'
  <2> DEFINE v == [pc |-> "done", endpoint |-> ep, stake |-> None, quote |-> None]
  <2>1. request' = [request EXCEPT ![r] = v] /\ v.quote = None
      BY <1>17 DEF RefuseAmount
  <2> HIDE DEF v
  <2>2. /\ request'[r] = v
        /\ \A q \in Requests : q # r => request'[q] = request[q]
      BY <2>1, Replaced
  <2> QED
      BY <2>1, <2>2 DEF QuotesMade
<1>18. ASSUME NEW r \in Requests, FetchFSupply(r) \/ FetchXSupply(r)
       PROVE  QuotesMade'
  <2>1. PICK v : request' = [request EXCEPT ![r] = v] /\ v.pc \in {"xSupply", "set", "leave"}
      BY <1>18, SupplyFetched
  <2> QED
      BY <2>1, NoAnswer
<1>16. CASE UNCHANGED request
    BY <1>16 DEF QuotesMade
<1> QED
  <2>1. ASSUME NEW r \in Requests, Work(r)
        PROVE  QuotesMade'
      BY <2>1, <1>5, <1>6, <1>7, <1>8, <1>9, <1>11, <1>12, <1>14, <1>15, <1>18 DEF Work
  <2>2. ASSUME Advance \/ UNCHANGED vars \/ \E key \in CacheKeys : Expire(key)
        PROVE  UNCHANGED request
      BY <2>2 DEF Advance, Expire, vars
  <2> QED
      BY <2>1, <2>2, <1>1, <1>16, <1>17 DEF Next

\* A mint and a redemption quoted at one price never give back more than was put in,
\* for both tokens, any amounts, any prices and any two protocol states.
THEOREM ReadsNoRoundTripProfit == Spec => []NoRoundTripProfit
<1>1. Init => QuotesMade
    BY DEF Init, QuotesMade
<1>2. ASSUME QuotesMade PROVE NoRoundTripProfit
  <2> SUFFICES ASSUME NEW m \in Requests, NEW r \in Requests,
                      request[m].pc = "done", request[r].pc = "done",
                      request[m].quote # None, request[r].quote # None,
                      request[m].quote.price = request[r].quote.price,
                      <<request[m].endpoint, request[r].endpoint>> \in
                          {<<"mintF", "redeemF">>, <<"mintX", "redeemX">>}
               PROVE  LET got == request[m].quote.quote.out
                          back == request[r].quote.quote.out
                      IN  AtMost([n |-> back.n * got.n, d |-> back.d * got.d],
                                 Whole(request[m].quote.amount * request[r].quote.amount))
      BY DEF NoRoundTripProfit
  <2>1. PICK a \in ValidAmounts, p \in MarketPrices :
           /\ request[m].quote.amount = a /\ request[m].quote.price = p
           /\ request[m].quote.quote.out = OutOf(request[m].endpoint, a, p)
      BY <1>2 DEF QuotesMade
  <2>2. PICK b \in ValidAmounts :
           /\ request[r].quote.amount = b
           /\ request[r].quote.quote.out = OutOf(request[r].endpoint, b, p)
      BY <1>2, <2>1 DEF QuotesMade
  <2>3. a \in Nat /\ b \in Nat /\ p \in Nat
      BY ReadsAssumption DEF ValidAmounts, ValidAmount
  <2> DEFINE got == OutOf(request[m].endpoint, a, p)
             back == OutOf(request[r].endpoint, b, p)
  <2>4. (back.n * got.n) * 1 <= (a * b) * (back.d * got.d)
    <3>1. CASE request[m].endpoint = "mintF" /\ request[r].endpoint = "redeemF"
        BY <2>3, <3>1, FTripLoses
    <3>2. CASE request[m].endpoint = "mintX" /\ request[r].endpoint = "redeemX"
        BY <2>3, <3>2, XTripLoses
    <3> QED
        BY <3>1, <3>2
  <2> HIDE DEF got, back
  <2>5. AtMost([n |-> back.n * got.n, d |-> back.d * got.d], Whole(a * b))
      BY <2>4 DEF AtMost, Whole
  <2> QED
      BY <2>1, <2>2, <2>5 DEF got, back
<1> QED
    BY <1>1, <1>2, ReadsInvInit, ReadsInvStep, QuotesStep, PTL DEF Spec

=============================================================================
