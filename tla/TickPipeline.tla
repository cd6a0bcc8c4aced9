---------------------------- MODULE TickPipeline ----------------------------
(***************************************************************************)
(* processTick of the price publisher (internal/jobs/price_publisher.go),  *)
(* as the live loops of ONE symbol run it side by side, and the chart a    *)
(* browser asks for meanwhile (internal/api/candles.go).                   *)
(*                                                                         *)
(* checkProviderHealth starts one more loop of a symbol after each         *)
(* recovery and no loop ever ends, so several of them share the symbol's   *)
(* cache keys and its aggregator.  The history is read from the cache and  *)
(* written back; the candle is tested and written field by field through a *)
(* shared pointer.  Nothing locks either, so a step here is one call of    *)
(* the cache or one access of the candle.                                  *)
(*                                                                         *)
(* A tick carries the exchange's event time or the generator's local time, *)
(* so times need not grow.  Candles of the six intervals are aggregated    *)
(* alike: one stands for all.  Their copies in the cache                   *)
(* (fx:candles:...:latest) are left out, for nothing reads them; how       *)
(* published ticks travel is the subject of LivePush, and where ticks come *)
(* from of PriceFeed.                                                      *)
(***************************************************************************)
EXTENDS Candles, FiniteSets

CONSTANTS
    Loops,             \* the live loops of the symbol
    Prices,            \* the prices a tick may have
    Times,             \* the times of ticks and of requests for a chart
    MaxTicks,          \* bound on the ticks processed altogether
    MaxTicksPerSym,    \* ticks kept in the history (10000)
    Klines,            \* answers of the exchange to a request for its candles
    Walks              \* random walks of the generator, one for each bar asked for

ASSUME PipelineAssumption ==
    /\ Prices \subseteq Nat \ {0} /\ Times \subseteq Nat
    /\ MaxTicks \in Nat /\ MaxTicksPerSym \in Nat \ {0}
    /\ Klines \subseteq {None} \cup Seq({None} \cup GoodBar)
    /\ Walks \subseteq Seq(Seq(Prices) \ {<<>>}) \ {<<>>}

VARIABLES
    loop,              \* each loop: its step, its tick, its ticks so far, the history it read
    latest,            \* fx:oracle:price:<symbol>, last value set
    history,           \* fx:ticks:<symbol>: each tick as [loop, n]; <<>> if absent
    candle,            \* the aggregator's current candle, or None
    chart,             \* an answer of GetCandles, with what it was made from, or None
    \* what has happened, for the properties
    saved,             \* ticks saved since the history was last started anew
    clean,             \* no other loop has been between Get and Set since then
    seen,              \* ticks added to the candle since it was started
    torn,              \* two loops have been in AddTick at once since then
    alone              \* the loop in AddTick has had it to itself

historyVars == <<history, saved, clean>>
candleVars == <<candle, seen, torn, alone>>
vars == <<loop, latest, historyVars, candleVars, chart>>

SetLoop(l, v) == loop' = [loop EXCEPT ![l] = v]
Goto(l, pc) == SetLoop(l, [loop[l] EXCEPT !.pc = pc])

\* AddTick returns; the loop publishes the tick and waits for the next one
Done(l) == SetLoop(l, [loop[l] EXCEPT !.pc = "range", !.tick = None])

-----------------------------------------------------------------------------
(* The latest price and the history. *)

TicksTaken == SumFunctionOnSet([l \in Loops |-> loop[l].n], Loops)

\* a tick is taken from the loop's channel; its price is cached, if it can be
Take(l) ==
    /\ loop[l].pc = "range" /\ TicksTaken < MaxTicks
    /\ \E t \in [price : Prices, ts : Times] :
        /\ SetLoop(l, [loop[l] EXCEPT !.pc = "get", !.tick = t, !.n = @ + 1])
        /\ latest' = t \/ UNCHANGED latest
    /\ UNCHANGED <<historyVars, candleVars, chart>>

Saving == {l \in Loops : loop[l].pc = "set"}

\* addToTickHistory gets the history, which may be there, be missing (its TTL is
\* five seconds) or be out of reach; in the last case it gives up
GetHistory(l) ==
    /\ loop[l].pc = "get"
    /\ \/ /\ \E h \in {history, <<>>} :
                SetLoop(l, [loop[l] EXCEPT !.pc = "set", !.read = h])
          /\ clean' = (clean /\ Saving = {})
       \/ Goto(l, "candle") /\ UNCHANGED clean
    /\ UNCHANGED <<latest, history, saved, candleVars, chart>>

\* Mutant: the newest tick is the one removed when there are too many
WithLatestDropped(h, t) ==
    LET s == Append(h, t)
    IN  IF Len(s) > MaxTicksPerSym THEN SubSeq(s, 1, MaxTicksPerSym) ELSE s

\* a history with a tick added and the oldest ticks removed if there are too many
WithLatest(h, t) ==
    LET s == Append(h, t)
    IN  IF Len(s) > MaxTicksPerSym THEN SubSeq(s, Len(s) - MaxTicksPerSym + 1, Len(s)) ELSE s

\* and saves it with the tick added, if it can
SetHistory(l) ==
    LET t == [loop |-> l, n |-> loop[l].n]
    IN  /\ loop[l].pc = "set"
        /\ SetLoop(l, [loop[l] EXCEPT !.pc = "candle", !.read = <<>>])
        /\ \/ UNCHANGED historyVars
           \/ /\ history' = WithLatest(loop[l].read, t)
              /\ saved' = IF loop[l].read = <<>> THEN <<t>> ELSE Append(saved, t)
              /\ clean' = (clean \/ (loop[l].read = <<>> /\ Saving = {l}))
        /\ UNCHANGED <<latest, candleVars, chart>>

-----------------------------------------------------------------------------
(* CandleAggregator.AddTick, access by access. *)

Adding == {l \in Loops : loop[l].pc \in {"new", "high", "sethigh", "low", "setlow", "close"}}

\* Mutant: only a tick of a later interval starts a new candle
CheckCandleLater(l) ==
    /\ loop[l].pc = "candle"
    /\ Goto(l, IF candle # None /\ candle.time >= AlignTime(loop[l].tick.ts)
               THEN "high" ELSE "new")
    /\ alone' = (Adding = {})
    /\ torn' = (torn \/ Adding # {})
    /\ UNCHANGED <<latest, historyVars, candle, seen, chart>>

\* the interval of the tick is compared with that of the candle
CheckCandle(l) ==
    /\ loop[l].pc = "candle"
    /\ Goto(l, IF candle # None /\ candle.time = AlignTime(loop[l].tick.ts)
               THEN "high" ELSE "new")
    /\ alone' = (Adding = {})
    /\ torn' = (torn \/ Adding # {})
    /\ UNCHANGED <<latest, historyVars, candle, seen, chart>>

\* a new candle takes the place of the current one
StartCandle(l) ==
    /\ loop[l].pc = "new"
    /\ candle' = NewCandle(loop[l].tick)
    /\ Done(l)
    /\ seen' = IF alone THEN <<loop[l].tick>> ELSE <<>>
    /\ torn' = ~alone
    /\ UNCHANGED <<latest, historyVars, alone, chart>>

\* Every access loads the pointer to the current candle.  One that still goes to a
\* candle just replaced is the same as one made before the replacement.

CheckHigh(l) ==
    /\ loop[l].pc = "high"
    /\ Goto(l, IF loop[l].tick.price > candle.high THEN "sethigh" ELSE "low")
    /\ UNCHANGED <<latest, historyVars, candleVars, chart>>

SetHigh(l) ==
    /\ loop[l].pc = "sethigh"
    /\ candle' = [candle EXCEPT !.high = loop[l].tick.price]
    /\ Goto(l, "low")
    /\ UNCHANGED <<latest, historyVars, seen, torn, alone, chart>>

CheckLow(l) ==
    /\ loop[l].pc = "low"
    /\ Goto(l, IF loop[l].tick.price < candle.low THEN "setlow" ELSE "close")
    /\ UNCHANGED <<latest, historyVars, candleVars, chart>>

SetLow(l) ==
    /\ loop[l].pc = "setlow"
    /\ candle' = [candle EXCEPT !.low = loop[l].tick.price]
    /\ Goto(l, "close")
    /\ UNCHANGED <<latest, historyVars, seen, torn, alone, chart>>

SetClose(l) ==
    /\ loop[l].pc = "close"
    /\ candle' = [candle EXCEPT !.close = loop[l].tick.price]
    /\ Done(l)
    /\ seen' = IF torn THEN <<>> ELSE Append(seen, loop[l].tick)
    /\ UNCHANGED <<latest, historyVars, torn, alone, chart>>

AddTick(l) ==
    \/ CheckCandle(l) \/ StartCandle(l)
    \/ CheckHigh(l) \/ SetHigh(l)
    \/ CheckLow(l) \/ SetLow(l) \/ SetClose(l)

ProcessTick(l) == Take(l) \/ GetHistory(l) \/ SetHistory(l) \/ AddTick(l)

-----------------------------------------------------------------------------
(* GetCandles *)

\* what the exchange answers, if it does and if anything of it can be parsed
HistoryOf(klines) == IF klines = None THEN <<>> ELSE KlineHistory(klines)

ExchangeChart ==
    /\ chart = None
    /\ \E klines \in Klines :
         /\ HistoryOf(klines) # <<>>
         /\ chart' = [mocked |-> FALSE, data |-> HistoryOf(klines)]
    /\ UNCHANGED <<loop, latest, historyVars, candleVars>>

\* otherwise candles are generated from the price in the cache, unless it is absent,
\* has expired or cannot be read
MockChart ==
    /\ chart = None
    /\ \E klines \in Klines : HistoryOf(klines) = <<>>
    /\ \E cached \in {latest, None}, moves \in Walks, ts \in Times :
         chart' = [mocked |-> TRUE, data |-> MockHistory(ChartBase(cached), moves, ts),
                   cached |-> cached, limit |-> Len(moves), ts |-> ts]
    /\ UNCHANGED <<loop, latest, historyVars, candleVars>>

Init ==
    /\ loop = [l \in Loops |-> [pc |-> "range", tick |-> None, n |-> 0, read |-> <<>>]]
    /\ latest = None /\ chart = None
    /\ history = <<>> /\ saved = <<>> /\ clean = TRUE
    /\ candle = None /\ seen = <<>> /\ torn = FALSE /\ alone = TRUE

Next == (\E l \in Loops : ProcessTick(l)) \/ ExchangeChart \/ MockChart

Spec == Init /\ [][Next]_vars

-----------------------------------------------------------------------------
(* Properties *)

\* the candle that a series of ticks of one interval asks for
BarOf(s) ==
    LET prices == {s[i].price : i \in 1 .. Len(s)}
    IN  [time |-> AlignTime(s[1].ts), open |-> s[1].price, close |-> s[Len(s)].price,
         high |-> Max(prices), low |-> Min(prices)]

\* Between two ticks the candle is the bar of the ticks of its interval: it opens
\* with the first, closes with the last and spans all prices.  Two loops that were
\* inside AddTick at once may have torn it (a high below the close); the damage ends
\* with the candle: the next one started by a loop that is by itself is right again,
\* however many loops go on beside it (AddTick, updateCandleAggregators).
CandleIsBarOfTicks ==
    (~torn /\ Adding = {}) =>
        IF seen = <<>> THEN candle = None
        ELSE /\ candle = BarOf(seen)
             /\ \A i \in 1 .. Len(seen) : AlignTime(seen[i].ts) = candle.time

\* The history never exceeds its limit, and however loops overwrite one another's
\* updates no tick is in it twice or before an earlier one of its loop; when no two
\* of them met between Get and Set it is exactly the latest ticks saved, as many as
\* it may hold and without a hole (addToTickHistory).
HistoryIsRecentTicks ==
    /\ Len(history) <= MaxTicksPerSym
    /\ \A i, j \in 1 .. Len(history) :
          (i < j /\ history[i].loop = history[j].loop) => history[i].n < history[j].n
    /\ (clean /\ Saving = {}) =>
          /\ Len(history) = Min({Len(saved), MaxTicksPerSym})
          /\ IsSuffix(history, saved)

\* A chart has a bar and its bars are aligned and well formed.  A generated one has
\* as many as were asked for, without a gap, each opening where the one before it
\* closed; it ends with the current bar and opens with the price the feed has cached
\* (GetCandles, createMockProvider, FetchHistory).
ChartContinues ==
    chart # None =>
        LET bars == chart.data
        IN  /\ bars # <<>>
            /\ \A i \in 1 .. Len(bars) : bars[i] \in GoodBar /\ bars[i].time % Interval = 0
            /\ chart.mocked =>
                /\ Len(bars) = chart.limit
                /\ bars[Len(bars)].time = chart.ts - (chart.ts % Interval)
                /\ chart.cached # None => bars[1].open = chart.cached.price
                /\ \A i \in 1 .. Len(bars) - 1 :
                        /\ bars[i + 1].time = bars[i].time + Interval
                        /\ bars[i + 1].open = bars[i].close

=============================================================================
