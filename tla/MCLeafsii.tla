----------------------------- MODULE MCLeafsii -----------------------------
(* TLC instances of the protocol.  One dollar is 10, prices, ratios and    *)
(* thresholds keep their proportions: 1.3, 1.2 and 1.1 for the levels, a   *)
(* price step of at most 0.2.                                              *)
EXTENDS Leafsii

NoFees ==
    [mint_f |-> 0, mint_x |-> 0, redeem_f |-> 0, redeem_x |-> 0,
     l1_redeem_x |-> 0, bonus |-> 0]

\* fees and bonus large enough not to round to nothing on amounts below ten
Fees ==
    [mint_f |-> 2000, mint_x |-> 2000, redeem_f |-> 2000, redeem_x |-> 2000,
     l1_redeem_x |-> 4000, bonus |-> 0]

Bonus == [Fees EXCEPT !.bonus = 3500]

MCBonus == {Bonus}
MCFeesOnly == {NoFees, Fees}

=============================================================================
