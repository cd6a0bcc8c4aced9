------------------------------ MODULE Candles ------------------------------
(***************************************************************************)
(* Candles of prices: how the publisher aggregates ticks into them         *)
(* (internal/jobs/price_publisher.go), and how the chart a browser starts  *)
(* from is made by the exchange's history or the mock generator's          *)
(* (internal/api/candles.go, internal/prices).  A tick is a record         *)
(* [price, ts]; volumes are left out.                                      *)
(***************************************************************************)
EXTENDS Integers, SequencesExt

CONSTANTS
    Interval,          \* the length of a candle
    DefaultPrice,      \* the price the generator starts from when none is cached
    None               \* no value

Candle == [time : Int, open : Int, high : Int, low : Int, close : Int]

\* a well-formed candle
GoodBar ==
    {b \in Candle : /\ b.low <= b.open /\ b.open <= b.high
                    /\ b.low <= b.close /\ b.close <= b.high}

ASSUME CandleAssumption ==
    /\ Interval \in Nat \ {0} /\ DefaultPrice \in Nat \ {0}
    /\ None \notin Candle

AlignTime(ts) == (ts \div Interval) * Interval

-----------------------------------------------------------------------------
(* CandleAggregator *)

\* the candle a tick starts
NewCandle(t) == [time |-> AlignTime(t.ts), open |-> t.price, high |-> t.price,
                 low |-> t.price, close |-> t.price]

-----------------------------------------------------------------------------
(* GetCandles *)

\* FetchHistory of the exchange: what cannot be parsed is skipped, the rest aligned
KlineHistory(klines) ==
    LET Parsed[n \in 0 .. Len(klines)] ==
            IF n = 0 THEN <<>>
            ELSE IF klines[n] = None THEN Parsed[n - 1]
            ELSE Append(Parsed[n - 1], [klines[n] EXCEPT !.time = AlignTime(@)])
    IN  Parsed[Len(klines)]

\* one candle of the generator, from a random walk of prices
GenerateCandle(time, walk) ==
    [time |-> time, open |-> walk[1], close |-> walk[Len(walk)],
     high |-> Max(ToSet(walk)), low |-> Min(ToSet(walk))]

\* Mutant: the times of the candles are counted from the limit
MockHistoryEarly(base, moves, ts) ==
    LET Open(i) == IF i = 1 THEN base ELSE Last(moves[i - 1])
    IN  [i \in 1 .. Len(moves) |->
            GenerateCandle(AlignTime(ts) + (i - 1) * Interval, <<Open(i)>> \o moves[i])]

\* FetchHistory of the generator: as many candles as asked for, up to the current
\* one, each walking on (moves[i]) from the close of the one before
MockHistory(base, moves, ts) ==
    LET Open(i) == IF i = 1 THEN base ELSE Last(moves[i - 1])
    IN  [i \in 1 .. Len(moves) |->
            GenerateCandle(AlignTime(ts) - (Len(moves) - i) * Interval, <<Open(i)>> \o moves[i])]

\* createMockProvider: the generator continues from the last price cached
ChartBase(cached) == IF cached = None THEN DefaultPrice ELSE cached.price

=============================================================================
