--------------------------- MODULE MCCachedReads ---------------------------
(* Small instances of CachedReads: two versions of a chain whose protocol is *)
(* collateralised enough for some of the quotes only.                        *)
EXTENDS CachedReads

MCStateAt == [v \in 0 .. 1 |->
    IF v = 0 THEN [reserve |-> 30, f |-> 10, x |-> 20, P |-> 1, Pf |-> 1]
             ELSE [reserve |-> 40, f |-> 20, x |-> 30, P |-> 2, Pf |-> 1]]

CONSTANTS r1, r2, r3

MCAsks == [r \in Requests |->
    CASE r = r1 -> {"mintX"}
      [] r = r2 -> {"redeemX", "mintF", "spIndex"}
      [] r = r3 -> {"redeemF", "metrics", "positions", "balances"}]

MCStakeAt == [v \in 0 .. 1 |-> v]
=============================================================================
