------------------------------ MODULE PriceFeed ------------------------------
(***************************************************************************)
(* The price publisher (internal/jobs/price_publisher.go) with the live    *)
(* streams of its providers (internal/prices/binance, internal/prices/     *)
(* mock).                                                                  *)
(*                                                                         *)
(* Each symbol has a subscription loop: a goroutine that reads ticks from  *)
(* a bounded channel which a stream goroutine fills.  A failed stream      *)
(* makes the provider unhealthy; a ticker compares the provider's health   *)
(* with the provider in use, and on recovery starts one more loop for      *)
(* every symbol.                                                           *)
(*                                                                         *)
(* What a loop does with its ticks is the subject of TickPipeline: here a  *)
(* tick is its price, and processing one caches it.  The publisher stops   *)
(* only with the process.                                                  *)
(***************************************************************************)
EXTENDS Integers, Sequences, FiniteSets

CONSTANTS
    Symbols,           \* the provider symbols of the registry
    MaxLoops,          \* bound: subscription loops started for a symbol
    TickCap,           \* capacity of a loop's channel (100)
    Prices,            \* the prices a trade may have
    MaxEmitted,        \* bound on the ticks emitted altogether
    MaxFailures,       \* bound on the streams that fail
    None               \* no value

ASSUME FeedAssumption ==
    /\ Prices \subseteq Nat \ {0} /\ Prices # {}
    /\ MaxLoops \in Nat \ {0} /\ TickCap \in Nat \ {0}
    /\ MaxEmitted \in Nat /\ MaxFailures \in Nat

VARIABLES
    usingMock,         \* the publisher's flag
    healthy,           \* the primary provider's health
    basePrice,         \* the price the mock generator starts from
    checked,           \* what the health check has read, or None
    loop,              \* each loop: where it is, its stream and its channel
    latest,            \* fx:oracle:price:<symbol>: the price last set, or None
    emitted            \* ticks emitted altogether (history)

vars == <<usingMock, healthy, basePrice, checked, loop, latest, emitted>>

Loops == Symbols \X (1 .. MaxLoops)

\* A loop before subscribeLiveData is called
NoLoop == [pc |-> "none", provider |-> None, stream |-> "none", ticks |-> <<>>]

SetLoop(l, v) == loop' = [loop EXCEPT ![l] = v]

----------------------------------------------------------------------------
(* The publisher's two providers. *)

FailuresLeft == Cardinality({l \in Loops : loop[l].stream \in {"failed", "dead"}}) < MaxFailures

\* Mutant: without a cached price to continue from the switch is not made
SwitchToMockPriced(y) ==
    /\ usingMock' = (usingMock \/ latest[y] # None)
    /\ \/ UNCHANGED basePrice
       \/ ~usingMock /\ latest[y] # None /\ basePrice' = latest[y]

\* switchToMock under the lock: the first caller moves the generator to the last
\* price cached for its symbol, unless that is absent, has expired or cannot be read
SwitchToMock(y) ==
    /\ usingMock' = TRUE
    /\ \/ UNCHANGED basePrice
       \/ ~usingMock /\ latest[y] # None /\ basePrice' = latest[y]

\* subscribeLiveData picks the provider of the moment,
StartLoop(l) ==
    /\ loop[l].pc = "starting"
    /\ SetLoop(l, [loop[l] EXCEPT !.pc = "range", !.stream = "dialing",
                                  !.provider = IF usingMock THEN "mock" ELSE "primary"])
    /\ UNCHANGED <<usingMock, healthy, basePrice, checked, latest, emitted>>

\* whose stream connects, or cannot, whatever is in use by then; the generator
\* needs no connection and has a health of its own
Dial(l) ==
    /\ loop[l].stream = "dialing"
    /\ \/ /\ loop[l].provider = "mock" /\ UNCHANGED healthy
          /\ SetLoop(l, [loop[l] EXCEPT !.stream = "live"])
       \/ /\ loop[l].provider = "primary" /\ healthy' = TRUE
          /\ SetLoop(l, [loop[l] EXCEPT !.stream = "live"])
       \/ /\ loop[l].provider = "primary" /\ healthy' = FALSE /\ FailuresLeft
          /\ SetLoop(l, [loop[l] EXCEPT !.stream = "failed"])
    /\ UNCHANGED <<usingMock, basePrice, checked, latest, emitted>>

\* the primary's connection breaks
StreamFails(l) ==
    /\ loop[l].provider = "primary" /\ loop[l].stream = "live"
    /\ FailuresLeft
    /\ SetLoop(l, [loop[l] EXCEPT !.stream = "failed"])
    /\ healthy' = FALSE
    /\ UNCHANGED <<usingMock, basePrice, checked, latest, emitted>>

\* The stream's goroutine handles the error and ends; the loop goes on waiting
\* on a channel that nobody closes.
StreamEnds(l) ==
    /\ loop[l].stream = "failed"
    /\ SetLoop(l, [loop[l] EXCEPT !.stream = "dead"])
    /\ SwitchToMock(l[1])
    /\ UNCHANGED <<healthy, checked, latest, emitted>>

\* what a generator may emit: within half of its base price
MockPrices == {p \in Prices : 2 * p >= basePrice /\ 2 * p <= 3 * basePrice}

\* A trade arrives, or the generator's ticker fires: the tick is dropped when the
\* channel is full, and the primary counts as healthy again.
Emit(l) ==
    /\ loop[l].stream = "live" /\ emitted < MaxEmitted
    /\ emitted' = emitted + 1
    /\ \E p \in IF loop[l].provider = "mock" THEN MockPrices ELSE Prices :
        SetLoop(l, IF Len(loop[l].ticks) < TickCap
                   THEN [loop[l] EXCEPT !.ticks = Append(@, p)] ELSE loop[l])
    /\ healthy' = (healthy \/ loop[l].provider = "primary")
    /\ UNCHANGED <<usingMock, basePrice, checked, latest>>

\* checkProviderHealth reads the health,
CheckReads ==
    /\ checked = None
    /\ checked' = healthy
    /\ UNCHANGED <<usingMock, healthy, basePrice, loop, latest, emitted>>

\* Mutant: the loops that are there are trusted to go on
StartNoLoops == UNCHANGED loop

\* one more loop for every symbol
StartLoops ==
    \E k \in 2 .. MaxLoops :
        /\ \A y \in Symbols : loop[<<y, k>>].pc = "none" /\ loop[<<y, k - 1>>].pc # "none"
        /\ loop' = [l \in Loops |-> IF l[2] = k THEN [NoLoop EXCEPT !.pc = "starting"] ELSE loop[l]]

\* then acts on what it read: it switches to the generator, with the first of
\* the symbols in the registry's order, or back, and starts a loop for each
CheckActs ==
    /\ checked # None /\ checked' = None
    /\ \/ ~checked /\ ~usingMock /\ (\E y \in Symbols : SwitchToMock(y)) /\ UNCHANGED loop
       \/ checked /\ usingMock /\ usingMock' = FALSE /\ UNCHANGED basePrice /\ StartLoops
       \/ checked # usingMock /\ UNCHANGED <<usingMock, basePrice, loop>>
    /\ UNCHANGED <<healthy, latest, emitted>>

----------------------------------------------------------------------------
\* The loop takes a tick from its channel and processes it: its price is cached,
\* if it can be.
ProcessTick(l) ==
    /\ loop[l].pc = "range" /\ loop[l].ticks # <<>>
    /\ SetLoop(l, [loop[l] EXCEPT !.ticks = Tail(@)])
    /\ latest' = [latest EXCEPT ![l[1]] = Head(loop[l].ticks)] \/ UNCHANGED latest
    /\ UNCHANGED <<usingMock, healthy, basePrice, checked, emitted>>

----------------------------------------------------------------------------
\* Start: one loop for each symbol of the registry
Init ==
    /\ usingMock = FALSE /\ healthy = TRUE /\ checked = None
    /\ basePrice = CHOOSE p \in Prices : \A q \in Prices : p <= q
    /\ loop = [l \in Loops |-> IF l[2] = 1 THEN [NoLoop EXCEPT !.pc = "starting"] ELSE NoLoop]
    /\ latest = [y \in Symbols |-> None]
    /\ emitted = 0

Next ==
    \/ \E l \in Loops : StartLoop(l) \/ Dial(l) \/ StreamFails(l) \/ StreamEnds(l) \/ Emit(l)
    \/ \E l \in Loops : ProcessTick(l)
    \/ CheckReads \/ CheckActs

Spec == Init /\ [][Next]_vars

\* Goroutines that can run do, a connection attempt ends one way or the other, and
\* the retry ticker keeps firing; the exchange and the cache owe nothing.
FairSpec ==
    /\ Spec
    /\ WF_vars(CheckReads) /\ WF_vars(CheckActs)
    /\ \A l \in Loops : /\ WF_vars(StartLoop(l)) /\ WF_vars(Dial(l))
                        /\ WF_vars(StreamEnds(l)) /\ WF_vars(ProcessTick(l))

----------------------------------------------------------------------------
(* Properties *)

\* An unhealthy primary provider does not stay the provider in use, also when it
\* fails between the reading of its health and the switch back (switchToMock,
\* checkProviderHealth).
OutageNoticed == (~healthy /\ ~usingMock) ~> (healthy \/ usingMock)

\* While the primary provider is in use every symbol gets a live stream again, or
\* the failure to connect it takes the primary out of use, whichever streams died
\* in the outage before (checkProviderHealth, subscribeLiveData).
RecoveryResubscribes ==
    \A y \in Symbols :
        ~usingMock ~> (usingMock \/ \E l \in Loops : l[1] = y /\ loop[l].stream = "live")
=============================================================================
