--------------------------- MODULE MCTickPipeline ---------------------------
(* TickPipeline with a few answers of the exchange and a few random walks. *)
EXTENDS TickPipeline, TLC

Bar(t, o, h, w, c) == [time |-> t, open |-> o, high |-> h, low |-> w, close |-> c]

\* no answer, nothing that can be parsed, and two candles around one that cannot
MCKlines == {None, <<None>>, <<Bar(1, 2, 3, 1, 1), None, Bar(3, 1, 2, 1, 2)>>}

MCWalks == {<<<<3>>, <<2, 1>>>>}

MCSymmetry == Permutations(Loops)
=============================================================================
