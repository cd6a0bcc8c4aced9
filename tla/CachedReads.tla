---------------------------- MODULE CachedReads ----------------------------
(***************************************************************************)
(* The read path of the HTTP API: the handlers of internal/api/handlers.go,*)
(* the services of internal/onchain that answer them, the single flight of *)
(* internal/util and the cache of internal/store between them and the      *)
(* chain.                                                                  *)
(*                                                                         *)
(* A read of some kind goes through its service's Group: the first caller  *)
(* of a key leads and runs the function, a caller that finds the key in    *)
(* the map waits for the leader.  The function looks in the cache, asks    *)
(* the chain on a miss, stores the answer and returns it.  Requests        *)
(* interleave at each of these steps.                                      *)
(*                                                                         *)
(* The chain is a counter of versions; a cached value is the version it    *)
(* was read at and the kind of record it is.  The protocol's state takes   *)
(* three calls, so its supplies may be of later versions than its reserve. *)
(* One user stands for all: the keys of two users never meet.              *)
(***************************************************************************)
EXTENDS Quotes, Sequences, FiniteSets

CONSTANTS
    Requests,          \* HTTP requests, each made once
    Asks,              \* the endpoints each of them may be for
    Amounts,           \* amounts quotes are asked for, in tokens
    MaxAmount,         \* the largest amount a quote is given for
    StateAt,           \* the protocol state at each version of the chain
    StakeAt,           \* the user's stake at each version of the chain
    MarketPrices,      \* prices the feed may give for the reserve token
    FPrice,            \* the price the client gives for the fToken
    MaxVersion,        \* bound on the chain's versions
    None               \* no value

QuoteEndpoints == {"mintF", "redeemF", "mintX", "redeemX"}
Versions == 0 .. MaxVersion
Kinds == {"state", "index", "positions", "spUser", "balances"}
CacheKeys == {"state", "index", "position"}

ASSUME ReadsAssumption ==
    \* the amounts are decimals of the ChainReader; those of the Sui client are unsigned
    /\ StateAt \in [Versions -> [reserve : Int, f : Int, x : Int, P : Nat, Pf : Nat]]
    /\ StakeAt \in [Versions -> Nat]
    /\ MaxVersion \in Nat /\ MaxAmount \in Nat /\ Amounts \subseteq Int
    /\ None \notin Versions /\ None \notin Requests /\ None \notin CacheKeys
    /\ MarketPrices \subseteq Nat \ {0} /\ FPrice \in Nat \ {0}

\* The key a kind is cached under; balances are not cached.  The positions of
\* UserService and the stake of StabilityPoolService share one key.
KeyOf(k) == CASE k = "state" -> "state"
              [] k = "index" -> "index"
              [] k \in {"positions", "spUser"} -> "position"
              [] k = "balances" -> None

VARIABLES
    chain,             \* version of the chain's state
    cache,             \* entry of each key, or None
    flight,            \* Group.m: the leader of each key in flight, or None
    request,           \* where each request stands
    \* history of what the reads returned, for the properties
    served,            \* newest version returned so far, per kind
    faulted            \* the cache lost a Get or a Set

vars == <<chain, cache, flight, request, served, faulted>>

\* version is that of the record, fAt and xAt those of the two supplies of a state
Values == [kind : Kinds, version : Versions, fAt : Versions, xAt : Versions,
           stake : Nat, blank : BOOLEAN]
Ok(v) == [ok |-> TRUE, value |-> v]
Failed == [ok |-> FALSE]

ReadsTypeOK ==
    /\ chain \in Versions
    /\ \A key \in CacheKeys : cache[key] = None \/ cache[key] \in Values
    /\ flight \in [Kinds -> Requests \cup {None}]
    /\ \A r \in Requests :
        /\ request[r].pc \in {"idle", "enter", "get", "fetch", "fSupply", "xSupply", "index",
                              "set", "leave", "wait", "handle", "done"}
        /\ request[r].pc # "idle" => request[r].endpoint \in Asks[r]
    /\ served \in [Kinds -> Versions]
    /\ faulted \in BOOLEAN

----------------------------------------------------------------------------
(* What the endpoints read. *)

\* The read a handler makes next, or None, given the results it has so far.
OneRead(k, results) == IF results = <<>> THEN k ELSE None

\* the metrics ask for the index even if the state could not be read
MetricsReads(results) ==
    CASE Len(results) = 0 -> "state"
      [] Len(results) = 1 -> "index"
      [] OTHER -> None

\* the positions ask for the stake when they show one
PositionsReads(results) ==
    CASE Len(results) = 0 -> "positions"
      [] Len(results) = 1 /\ results[1].ok /\ results[1].value.stake > 0 -> "spUser"
      [] OTHER -> None

\* the state, the health and the quotes need the protocol's state
NextRead(endpoint, results) ==
    CASE endpoint = "positions" -> PositionsReads(results)
      [] endpoint = "metrics" -> MetricsReads(results)
      [] endpoint = "spIndex" -> OneRead("index", results)
      [] endpoint = "spUser" -> OneRead("spUser", results)
      [] endpoint = "balances" -> OneRead("balances", results)
      [] OTHER -> OneRead("state", results)

\* What a Get decodes into the record of kind k.  The two records under the
\* user's key have no JSON field in common but the address: the other one's
\* decodes without an error and leaves every amount zero.
Decode(entry, k) ==
    IF entry.kind = k THEN entry ELSE [entry EXCEPT !.kind = k, !.stake = 0, !.blank = TRUE]

Step(r, pc) == [request EXCEPT ![r].pc = pc]

----------------------------------------------------------------------------
(* Group.Do *)

\* ValidateAmount
ValidAmount(amount) == 0 < amount /\ amount <= MaxAmount

\* Only the quotes have an amount; the other endpoints ignore it.
Arrive(r, endpoint, amount) ==
    /\ request[r].pc = "idle"
    /\ ValidAmount(amount)
    /\ request' = [request EXCEPT ![r] =
                    [pc |-> "enter", endpoint |-> endpoint, amount |-> amount,
                     kind |-> NextRead(endpoint, <<>>), results |-> <<>>,
                     read |-> Failed, since |-> 0]]
    /\ UNCHANGED <<chain, cache, flight, served, faulted>>

\* A quote for an amount out of bounds is refused before anything is read.
RefuseAmount(r, endpoint, amount) ==
    /\ request[r].pc = "idle"
    /\ endpoint \in QuoteEndpoints
    /\ ~ValidAmount(amount)
    /\ request' = [request EXCEPT ![r] = [pc |-> "done", endpoint |-> endpoint,
                                          stake |-> None, quote |-> None]]
    /\ UNCHANGED <<chain, cache, flight, served, faulted>>

\* Mutant: the map is consulted before the lock is taken
EnterUnlocked(r) ==
    LET k == request[r].kind
    IN  /\ request[r].pc = "enter"
        /\ flight' = [flight EXCEPT ![k] = r]
        /\ request' = [request EXCEPT ![r].pc = IF KeyOf(k) = None THEN "fetch" ELSE "get",
                                      ![r].since = served[k]]
        /\ UNCHANGED <<chain, cache, served, faulted>>

\* A key in flight makes the caller wait for its WaitGroup, which doCall never
\* releases; otherwise the caller leads.
Enter(r) ==
    LET k == request[r].kind
    IN  /\ request[r].pc = "enter"
        /\ IF flight[k] # None
           THEN /\ request' = Step(r, "wait")
                /\ flight' = flight
           ELSE /\ flight' = [flight EXCEPT ![k] = r]
                /\ request' = [request EXCEPT ![r].pc = IF KeyOf(k) = None THEN "fetch" ELSE "get",
                                              ![r].since = served[k]]
        /\ UNCHANGED <<chain, cache, served, faulted>>

\* Mutant: a failed call is left in the map
LeaveOnlyOk(r) ==
    LET k == request[r].kind
        res == request[r].read
    IN  /\ request[r].pc = "leave"
        /\ flight' = [flight EXCEPT ![k] = IF res.ok THEN None ELSE @]
        /\ served' = [served EXCEPT ![k] =
                        IF res.ok /\ res.value.version > @ THEN res.value.version ELSE @]
        /\ request' = [request EXCEPT ![r].pc = "handle",
                                      ![r].results = Append(@, res)]
        /\ UNCHANGED <<chain, cache, faulted>>

\* doCall returns, with an error if the function failed or panicked
Leave(r) ==
    LET k == request[r].kind
        res == request[r].read
    IN  /\ request[r].pc = "leave"
        /\ flight' = [flight EXCEPT ![k] = None]
        /\ served' = [served EXCEPT ![k] =
                        IF res.ok /\ res.value.version > @ THEN res.value.version ELSE @]
        /\ request' = [request EXCEPT ![r].pc = "handle",
                                      ![r].results = Append(@, res)]
        /\ UNCHANGED <<chain, cache, faulted>>

----------------------------------------------------------------------------
(* The function a leader runs. *)

Hit(r) ==
    LET k == request[r].kind
    IN  /\ request[r].pc = "get"
        /\ cache[KeyOf(k)] # None
        /\ request' = [request EXCEPT ![r].pc = "leave",
                                      ![r].read = Ok(Decode(cache[KeyOf(k)], k))]
        /\ UNCHANGED <<chain, cache, flight, served, faulted>>

\* A miss, or an error of the cache: both send the read to the chain.
Miss(r) ==
    /\ request[r].pc = "get"
    /\ request' = Step(r, "fetch")
    /\ faulted' = (faulted \/ cache[KeyOf(request[r].kind)] # None)
    /\ UNCHANGED <<chain, cache, flight, served>>

\* the client's answer
ChainValue(k) == [kind |-> k, version |-> chain, fAt |-> chain, xAt |-> chain,
                  stake |-> StakeAt[chain], blank |-> FALSE]

Fetched(r, k, next) ==
    /\ request[r].pc = "fetch"
    /\ request[r].kind = k
    /\ request' = [request EXCEPT ![r].pc = next, ![r].read = Ok(ChainValue(k))]
    /\ UNCHANGED <<chain, cache, flight, served, faulted>>

\* The protocol object first, then the two supplies, each at the version of its call.
FetchState(r) == Fetched(r, "state", "fSupply")

FetchFSupply(r) ==
    /\ request[r].pc = "fSupply"
    /\ request' = [request EXCEPT ![r].pc = "xSupply",
                                  ![r].read = Ok([request[r].read.value EXCEPT !.fAt = chain])]
    /\ UNCHANGED <<chain, cache, flight, served, faulted>>

StateOf(value) == [StateAt[value.version] EXCEPT !.f = StateAt[value.fAt].f,
                                                 !.x = StateAt[value.xAt].x]

\* The ratio of a state without fTokens, or before they have a price, is no
\* number, and making a decimal of it panics.
HasRatio(s) == s.f # 0 /\ s.Pf # 0

\* ValidateProtocolState: a state that fails it is returned and not cached
Sane(s) == s.reserve >= 0 /\ s.f >= 0
           /\ ~Less(RatioAt(s, Whole(s.reserve), Whole(s.f)), Whole(0))

FetchXSupply(r) ==
    LET v == [request[r].read.value EXCEPT !.xAt = chain]
    IN  /\ request[r].pc = "xSupply"
        /\ request' = [request EXCEPT
                ![r].pc = IF HasRatio(StateOf(v)) /\ Sane(StateOf(v)) THEN "set" ELSE "leave",
                ![r].read = IF HasRatio(StateOf(v)) THEN Ok(v) ELSE Failed]
        /\ UNCHANGED <<chain, cache, flight, served, faulted>>

FetchIndex(r) == Fetched(r, "index", "set")

FetchPositions(r) == Fetched(r, "positions", "set")

FetchBalances(r) == Fetched(r, "balances", "leave")

\* the record of a user without stake is not cached
FetchSpUser(r) == Fetched(r, "spUser", IF StakeAt[chain] = 0 THEN "leave" ELSE "index")

\* the stake's rewards need the pool's index as well
FetchRewards(r) ==
    /\ request[r].pc = "index"
    /\ request' = Step(r, "set")
    /\ UNCHANGED <<chain, cache, flight, served, faulted>>

\* An error of the chain, a bad address, the request's context, or a panic of
\* the function: the leader returns it.
FetchFails(r) ==
    /\ request[r].pc \in {"fetch", "fSupply", "xSupply", "index"}
    /\ request' = [request EXCEPT ![r].pc = "leave", ![r].read = Failed]
    /\ UNCHANGED <<chain, cache, flight, served, faulted>>

\* Mutant: the flight is over before the answer is stored
StoreLate(r) ==
    /\ request[r].pc = "set"
    /\ \/ /\ flight[request[r].kind] = r
          /\ flight' = [flight EXCEPT ![request[r].kind] = None]
          /\ UNCHANGED <<request, cache>>
       \/ /\ flight[request[r].kind] # r
          /\ cache' = [cache EXCEPT ![KeyOf(request[r].kind)] = request[r].read.value]
          /\ request' = Step(r, "leave")
          /\ UNCHANGED flight
    /\ UNCHANGED <<chain, served, faulted>>

Store(r) ==
    /\ request[r].pc = "set"
    /\ cache' = [cache EXCEPT ![KeyOf(request[r].kind)] = request[r].read.value]
    /\ request' = Step(r, "leave")
    /\ UNCHANGED <<chain, flight, served, faulted>>

\* An error of the cache's Set is logged and the answer returned.
StoreFails(r) ==
    /\ request[r].pc = "set"
    /\ request' = Step(r, "leave")
    /\ faulted' = TRUE
    /\ UNCHANGED <<chain, cache, flight, served>>

----------------------------------------------------------------------------
(* The handlers. *)

\* Quotes are made from the state the flight returned.  Those of the fToken use
\* the price at the feed, those of the xToken none.
FQuoteOf(r, s, price) ==
    LET a == Whole(request[r].amount)
    IN  IF request[r].endpoint = "mintF" THEN MintQuote(s, a, price, FPrice)
        ELSE RedeemQuote(s, a, price, FPrice)

XQuoteOf(r, s) ==
    LET a == Whole(request[r].amount)
    IN  IF request[r].endpoint = "mintX" THEN MintXQuote(s, a) ELSE RedeemXQuote(s, a)

QuoteOf(r, price) ==
    LET s == StateOf(request[r].results[1].value)
    IN  IF request[r].endpoint \in {"mintF", "redeemF"} THEN FQuoteOf(r, s, price)
        ELSE XQuoteOf(r, s)

ReadOn(r) ==
    LET k == NextRead(request[r].endpoint, request[r].results)
    IN  /\ request[r].pc = "handle"
        /\ k # None
        /\ request' = [request EXCEPT ![r].pc = "enter", ![r].kind = k]
        /\ UNCHANGED <<chain, cache, flight, served, faulted>>

\* The handler returns.  A client that waited fifteen seconds has its 503 from
\* http.TimeoutHandler by then; the handler goes on as modelled.
Finish(r, stake, quote) ==
    /\ request[r].pc = "handle"
    /\ NextRead(request[r].endpoint, request[r].results) = None
    /\ request' = [request EXCEPT ![r] = [pc |-> "done", endpoint |-> request[r].endpoint,
                                          stake |-> stake, quote |-> quote]]
    /\ UNCHANGED <<chain, cache, flight, served, faulted>>

\* The handler of a quote answers at the feed's price of the moment; the quote it
\* stores under its id is never read.
AnswerQuote(r, price) ==
    /\ request[r].pc = "handle"
    /\ request[r].endpoint \in QuoteEndpoints
    /\ request[r].results[1].ok
    /\ QuoteOf(r, price).ok
    /\ Finish(r, None, [quote |-> QuoteOf(r, price).quote, price |-> price,
                        amount |-> request[r].amount])

\* Any other answer: the stake of the positions, an error (of the read, of the
\* feed or of the ratio), or what was read, which no property looks at again.
Answer(r) ==
    LET results == request[r].results
    IN  Finish(r, IF request[r].endpoint = "positions" /\ Len(results) = 2 /\ results[2].ok
                  THEN results[2].value.stake ELSE None, None)

----------------------------------------------------------------------------
(* The world outside. *)

\* a transaction changes the chain
Advance ==
    /\ chain < MaxVersion
    /\ chain' = chain + 1
    /\ UNCHANGED <<cache, flight, request, served, faulted>>

\* the ttl of an entry (3, 2 and 10 seconds) runs out
Expire(key) ==
    /\ cache[key] # None
    /\ cache' = [cache EXCEPT ![key] = None]
    /\ UNCHANGED <<chain, flight, request, served, faulted>>

Init ==
    /\ chain = 0
    /\ cache = [key \in CacheKeys |-> None]
    /\ flight = [k \in Kinds |-> None]
    /\ request = [r \in Requests |-> [pc |-> "idle"]]
    /\ served = [k \in Kinds |-> 0]
    /\ faulted = FALSE

Work(r) ==
    \/ Enter(r) \/ Leave(r) \/ Hit(r) \/ Miss(r)
    \/ FetchState(r) \/ FetchFSupply(r) \/ FetchXSupply(r)
    \/ FetchIndex(r) \/ FetchPositions(r) \/ FetchBalances(r)
    \/ FetchSpUser(r) \/ FetchRewards(r)
    \/ FetchFails(r) \/ Store(r) \/ StoreFails(r) \/ ReadOn(r) \/ Answer(r)
    \/ \E p \in MarketPrices : AnswerQuote(r, p)

Next ==
    \/ \E r \in Requests, a \in Amounts : \E ep \in Asks[r] :
        Arrive(r, ep, a) \/ RefuseAmount(r, ep, a)
    \/ \E r \in Requests : Work(r)
    \/ \E key \in CacheKeys : Expire(key)
    \/ Advance

Spec == Init /\ [][Next]_vars

\* Goroutines run, the calls of a leader end: the request's context times out
\* after fifteen seconds (Routes), and every remote call takes it.
FairSpec == Spec /\ \A r \in Requests : WF_vars(Work(r))

----------------------------------------------------------------------------
(* Properties *)

Reading(r) == request[r].pc \in {"get", "fetch", "fSupply", "xSupply", "index", "set", "leave"}

\* A key is in flight exactly while its leader runs the function: no two callers
\* ask the chain for the same thing at once and no error, panic or lost cache
\* leaves a key behind that would make every later caller wait (Group.Do, doCall).
FlightsLed ==
    /\ \A k \in Kinds : flight[k] # None => Reading(flight[k]) /\ request[flight[k]].kind = k
    /\ \A r \in Requests : Reading(r) => flight[request[r].kind] = r

\* Reads of the protocol's state and of the pool's index do not go back in time:
\* one that begins after another ended never returns an older version, whether it
\* hits the cache or asks the chain, unless the cache itself failed in between
\* (getStateInternal, getIndexInternal).
MonotonicReads ==
    \A r \in Requests :
        (/\ request[r].pc = "leave" /\ request[r].read.ok
         /\ request[r].kind \in {"state", "index"} /\ ~faulted)
        => request[r].read.value.version >= request[r].since

\* Minting and redeeming at quotes made at one price never gives back more than
\* was put in, for both tokens and whichever protocol states the two quotes were
\* made from (GetMintQuote, GetRedeemQuote, GetMintXQuote, GetRedeemXQuote).
NoRoundTripProfit ==
    \A m, r \in Requests :
        (/\ request[m].pc = "done" /\ request[r].pc = "done"
         /\ request[m].quote # None /\ request[r].quote # None
         /\ request[m].quote.price = request[r].quote.price
         /\ <<request[m].endpoint, request[r].endpoint>> \in
                {<<"mintF", "redeemF">>, <<"mintX", "redeemX">>})
        => \* the redemption scaled down to what the mint gave
           LET got == request[m].quote.quote.out
               back == request[r].quote.quote.out
           IN  AtMost([n |-> back.n * got.n, d |-> back.d * got.d],
                      Whole(request[m].quote.amount * request[r].quote.amount))

\* A key never stays in flight: the leader of a flight gets through the cache and
\* the chain, failures included, and frees the key for later requests.
FlightEnds == \A k \in Kinds : []<>(flight[k] = None)

\* "If a duplicate comes in, the duplicate caller waits for the original to
\* complete and receives the same results" (singleflight.go:48): every request
\* is answered.
EveryRequestAnswered ==
    \A r \in Requests : (request[r].pc = "enter") ~> (request[r].pc = "done")

=============================================================================
