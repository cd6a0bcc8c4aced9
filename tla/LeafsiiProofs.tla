--------------------------- MODULE LeafsiiProofs ---------------------------
(***************************************************************************)
(* Proofs about the stability pool, for every number of positions, every   *)
(* scale, every word size and every set of inputs, and about the protocol  *)
(* composed with it, for every scale, threshold, price, fee configuration  *)
(* and set of inputs.                                                      *)
(*                                                                         *)
(* Part I, the pool: RewardsCovered speaks of one position at a time and   *)
(* is not inductive: a claim by one position lowers the obligation the     *)
(* others rely on.  The inductive invariant bounds the SUM of what all     *)
(* positions could claim.                                                  *)
(*                                                                         *)
(* Part II, the protocol: an effect lemma per operation states once what   *)
(* the operation does to the books, with the rounding of its conversions   *)
(* as inequalities; the proofs of the properties then only combine         *)
(* effects.  The pool's own invariant carries over because every protocol  *)
(* step that touches the pool is one of the pool's operations.             *)
(***************************************************************************)
EXTENDS Leafsii, SumTheorems

-----------------------------------------------------------------------------
(* PART I.  The pool. *)

\* what position u could claim, before the division by REWARD_SCALE
Liability(u) == sp_scaled[u] * (sp_index_r_scaled - sp_index_snap[u])

Liabilities == [u \in Positions |-> Liability(u)]

LiabilitySum == SumFunction(Liabilities) <= sp_obligation_r_amount * REWARD_SCALE

PoolInv ==
    /\ PoolTypeOK
    /\ \A u \in Positions : sp_index_snap[u] <= sp_index_r_scaled
    /\ SharesAccounted
    /\ LiabilitySum

-----------------------------------------------------------------------------
(* Arithmetic. *)

\* Products of naturals are naturals.
LEMMA NatProduct == \A a, b \in Nat : a * b \in Nat
  OBVIOUS

\* The quotient of math.move's mul_div is the floor.
LEMMA MulDivFloor ==
    ASSUME NEW a \in Nat, NEW b \in Nat, NEW c \in Nat \ {0}
    PROVE  /\ MulDiv(a, b, c) \in Nat
           /\ MulDiv(a, b, c) * c <= a * b
           /\ a * b < MulDiv(a, b, c) * c + c
<1> DEFINE p == a * b
<1>1. p \in Nat
  OBVIOUS
<1>2. /\ p \div c \in Nat
      /\ (p \div c) * c <= p
      /\ p < (p \div c) * c + c
  <2> HIDE DEF p
  <2> QED BY <1>1, SMT
<1> QED
  BY <1>2 DEF MulDiv

\* Scaling an amount by a fraction b / c of at most one does not enlarge it.
LEMMA MulDivShrinks ==
    ASSUME NEW a \in Nat, NEW b \in Nat, NEW c \in Nat \ {0}, b <= c
    PROVE  MulDiv(a, b, c) <= a
<1> DEFINE q == MulDiv(a, b, c)
<1>1. q \in Nat /\ q * c <= a * b
  BY MulDivFloor
<1>2. a * b <= a * c
  BY SMT
<1>3. q * c <= a * c
  <2>1. a * b \in Nat /\ a * c \in Nat /\ q * c \in Nat
    BY <1>1, SMT
  <2> QED BY <2>1, <1>1, <1>2, SMT
<1>4. q <= a
  <2> HIDE DEF q
  <2> QED BY <1>1, <1>3, SMT
<1> QED
  BY <1>4

\* A floor never exceeds an integer that bounds the quotient from above.
LEMMA MulDivBounded ==
    ASSUME NEW a \in Nat, NEW b \in Nat, NEW c \in Nat \ {0}, NEW m \in Nat,
           a * b <= m * c
    PROVE  MulDiv(a, b, c) <= m
<1> DEFINE q == MulDiv(a, b, c)
<1>1. q \in Nat /\ q * c <= a * b
  BY MulDivFloor
<1>2. q * c <= m * c
  <2>1. a * b \in Nat /\ m * c \in Nat /\ q * c \in Nat
    BY <1>1, SMT
  <2> QED BY <2>1, <1>1, SMT
<1>3. q <= m
  <2> HIDE DEF q
  <2> QED BY <1>1, <1>2, SMT
<1> QED
  BY <1>3

-----------------------------------------------------------------------------
(* The inductive invariant. *)

\* The constants the arithmetic lemmas need are positive naturals.
LEMMA PoolConstants ==
    /\ MAX_U64 \in Nat \ {0} /\ MAX_U128 \in Nat
    /\ NumPositions \in Nat \ {0}
    /\ SCALE_FACTOR \in Nat \ {0} /\ REWARD_SCALE \in Nat \ {0} /\ BPS \in Nat \ {0}
    /\ SP_MAX_BURN_FRAC_CALL \in Nat /\ SP_MAX_BURN_FRAC_CALL <= BPS
    /\ HARVEST_BOUNTY_BPS \in Nat /\ HARVEST_BOUNTY_BPS <= BPS
  BY MaxU64Assumption, PoolAssumption

\* There are finitely many positions.
LEMMA PositionsFinite == IsFiniteSet(Positions)
  BY PoolConstants, FS_Interval DEF Positions

\* Under the invariant all liabilities are natural numbers.
LEMMA LiabilitiesNat ==
    ASSUME PoolTypeOK, \A u \in Positions : sp_index_snap[u] <= sp_index_r_scaled
    PROVE  /\ Liabilities \in [Positions -> Nat]
           /\ \A u \in Positions : Liability(u) \in Nat /\ Liabilities[u] = Liability(u)
<1>1. ASSUME NEW u \in Positions PROVE Liability(u) \in Nat
  <2>1. /\ sp_scaled[u] \in Nat
        /\ sp_index_r_scaled - sp_index_snap[u] \in Nat
    BY PoolConstants DEF PoolTypeOK
  <2> QED BY <2>1, SMT DEF Liability
<1> QED
  BY <1>1 DEF Liabilities

\* A new pool, with no shares and no obligation, satisfies the invariant.
LEMMA PoolInitInv == PoolInit => PoolInv
<1> SUFFICES ASSUME PoolInit PROVE PoolInv
  OBVIOUS
<1> USE DEF PoolInit
<1>1. PoolTypeOK
  BY PoolConstants, PoolAssumption DEF PoolTypeOK
<1>2. \A u \in Positions : sp_index_snap[u] <= sp_index_r_scaled
  OBVIOUS
<1>6. Liabilities \in [Positions -> Int] /\ \A i \in Positions : Liabilities[i] = 0
  BY DEF Liabilities, Liability
<1>7. SumFunction(Liabilities) = 0
  BY <1>6, PositionsFinite, SumFunctionZero
<1>8. SharesAccounted
  <2>1. sp_scaled \in [Positions -> Int] /\ \A i \in Positions : sp_scaled[i] = 0
    OBVIOUS
  <2> QED BY <2>1, PositionsFinite, SumFunctionZero DEF SharesAccounted
<1>9. LiabilitySum
  BY <1>7, PoolConstants DEF LiabilitySum
<1> QED
  BY <1>1, <1>2, <1>8, <1>9 DEF PoolInv

\* settle_user of a position takes exactly its liability off the sum, whatever
\* happens to its shares in the same step.
LEMMA SettledSum ==
    ASSUME PoolInv, PoolTypeOK', NEW u \in Positions,
           sp_index_r_scaled' = sp_index_r_scaled,
           sp_index_snap' = [sp_index_snap EXCEPT ![u] = sp_index_r_scaled],
           \A i \in Positions \ {u} : sp_scaled'[i] = sp_scaled[i],
           sp_obligation_r_amount' * REWARD_SCALE
               >= sp_obligation_r_amount * REWARD_SCALE - Liability(u)
    PROVE  /\ \A i \in Positions : sp_index_snap'[i] <= sp_index_r_scaled'
           /\ LiabilitySum'
<1>1. /\ PoolTypeOK
      /\ \A i \in Positions : sp_index_snap[i] <= sp_index_r_scaled
      /\ LiabilitySum
  BY DEF PoolInv
<1>2. \A i \in Positions : sp_index_snap'[i] <= sp_index_r_scaled'
  BY <1>1 DEF PoolTypeOK
<1>3. /\ Liabilities \in [Positions -> Nat]
      /\ \A i \in Positions : Liability(i) \in Nat /\ Liabilities[i] = Liability(i)
  BY <1>1, LiabilitiesNat
<1>4. sp_index_snap'[u] = sp_index_r_scaled' /\ sp_scaled'[u] \in Nat /\ sp_index_r_scaled \in Nat
  BY <1>1, PoolConstants DEF PoolTypeOK
<1>5. Liability(u)' = 0
  BY <1>4, SMT DEF Liability
<1>6. \A i \in Positions \ {u} : Liability(i)' = Liability(i)
  BY <1>1 DEF Liability, PoolTypeOK
<1>7. /\ Liabilities' \in [Positions -> Nat]
      /\ Liabilities'[u] = 0
      /\ \A i \in Positions \ {u} : Liabilities'[i] = Liabilities[i]
  <2>1. \A i \in Positions : Liabilities'[i] = Liability(i)'
    BY DEF Liabilities
  <2>2. \A i \in Positions : Liabilities'[i] \in Nat
    BY <2>1, <1>3, <1>5, <1>6
  <2>3. Liabilities' = [i \in Positions |-> Liabilities'[i]]
    BY DEF Liabilities
  <2>4. Liabilities' \in [Positions -> Nat]
    BY <2>2, <2>3
  <2> QED BY <2>1, <2>4, <1>3, <1>5, <1>6
<1>8. SumFunction(Liabilities') = SumFunction(Liabilities) - Liabilities[u] + Liabilities'[u]
  BY <1>3, <1>7, PositionsFinite, SumFunctionUpdate
<1>9. SumFunction(Liabilities) \in Nat
  BY <1>3, PositionsFinite, SumFunctionNat
<1>12. /\ sp_obligation_r_amount * REWARD_SCALE \in Nat
       /\ sp_obligation_r_amount' * REWARD_SCALE \in Nat
  <2>1. sp_obligation_r_amount \in Nat /\ sp_obligation_r_amount' \in Nat
    BY <1>1, PoolConstants DEF PoolTypeOK
  <2> QED BY <2>1, PoolConstants, NatProduct
<1>13. SumFunction(Liabilities) <= sp_obligation_r_amount * REWARD_SCALE
  BY <1>1 DEF LiabilitySum
<1>14. LiabilitySum'
  BY <1>3, <1>7, <1>8, <1>9, <1>12, <1>13 DEF LiabilitySum
<1> QED
  BY <1>2, <1>14

\* Indexing r over all shares raises the sum by at most r.
LEMMA AccruedSum ==
    ASSUME PoolInv, PoolTypeOK', NEW r \in Nat, sp_scaled_total > 0, Accrue(r),
           UNCHANGED <<sp_scaled, sp_index_snap>>
    PROVE  /\ \A i \in Positions : sp_index_snap'[i] <= sp_index_r_scaled'
           /\ LiabilitySum'
<1> DEFINE delta == MulDiv(r, REWARD_SCALE, sp_scaled_total)
<1>1. /\ PoolTypeOK
      /\ \A i \in Positions : sp_index_snap[i] <= sp_index_r_scaled
      /\ SharesAccounted
      /\ LiabilitySum
  BY DEF PoolInv
<1>2. sp_scaled_total \in Nat \ {0} /\ sp_index_r_scaled \in Nat /\ sp_obligation_r_amount \in Nat
  BY <1>1, PoolConstants DEF PoolTypeOK
<1>3. delta \in Nat /\ delta * sp_scaled_total <= r * REWARD_SCALE
  BY <1>2, PoolConstants, MulDivFloor
<1>4. /\ sp_index_r_scaled' = sp_index_r_scaled + delta
      /\ sp_obligation_r_amount' = sp_obligation_r_amount + r
  BY DEF Accrue
<1> HIDE DEF delta
<1>5. \A i \in Positions : sp_index_snap[i] \in Nat /\ sp_scaled[i] \in Nat
  BY <1>1, PoolConstants DEF PoolTypeOK
<1>6. \A i \in Positions : sp_index_snap'[i] <= sp_index_r_scaled'
  BY <1>1, <1>2, <1>3, <1>4, <1>5
<1>7. /\ Liabilities \in [Positions -> Nat]
      /\ \A i \in Positions : Liability(i) \in Nat /\ Liabilities[i] = Liability(i)
  BY <1>1, LiabilitiesNat
<1>8. \A i \in Positions : Liability(i)' = Liability(i) + sp_scaled[i] * delta
  <2> SUFFICES ASSUME NEW i \in Positions
               PROVE  Liability(i)' = Liability(i) + sp_scaled[i] * delta
    OBVIOUS
  <2> DEFINE a == sp_scaled[i]
             b == sp_index_r_scaled - sp_index_snap[i]
  <2>1. a \in Nat /\ b \in Nat
    BY <1>1, <1>2, <1>5
  <2>2. sp_index_r_scaled' - sp_index_snap'[i] = b + delta /\ sp_scaled'[i] = a
    BY <1>2, <1>3, <1>4, <1>5
  <2>3. a * (b + delta) = a * b + a * delta
    <3> HIDE DEF a, b
    <3> QED BY <2>1, <1>3, SMT
  <2> QED BY <2>2, <2>3 DEF Liability
<1>9. /\ Liabilities' \in [Positions -> Nat]
      /\ \A i \in Positions : Liabilities'[i] = Liabilities[i] + sp_scaled[i] * delta
  <2>1. \A i \in Positions : Liabilities'[i] = Liability(i)'
    BY DEF Liabilities
  <2>2. \A i \in Positions : sp_scaled[i] * delta \in Nat
    BY <1>3, <1>5, SMT
  <2>3. \A i \in Positions : Liabilities'[i] \in Nat
    BY <2>1, <2>2, <1>7, <1>8
  <2>4. Liabilities' = [i \in Positions |-> Liabilities'[i]]
    BY DEF Liabilities
  <2>5. Liabilities' \in [Positions -> Nat]
    BY <2>3, <2>4
  <2> QED BY <2>1, <2>5, <1>7, <1>8
<1>10. SumFunction(Liabilities) <= sp_obligation_r_amount * REWARD_SCALE
  BY <1>1 DEF LiabilitySum
<1>11. SumFunction(Liabilities') = SumFunction(Liabilities) + SumFunction(sp_scaled) * delta
  <2>1. sp_scaled \in [Positions -> Nat]
    BY <1>1, PoolConstants DEF PoolTypeOK
  <2> QED BY <1>3, <1>7, <1>9, <2>1, PositionsFinite, SumFunctionLinear
<1>13. SumFunction(Liabilities') = SumFunction(Liabilities) + sp_scaled_total * delta
  BY <1>1, <1>11 DEF SharesAccounted
<1>14. SumFunction(Liabilities) \in Nat
  BY <1>7, PositionsFinite, SumFunctionNat
<1>15. SumFunction(Liabilities') <= sp_obligation_r_amount' * REWARD_SCALE
  <2>1. sp_scaled_total * delta = delta * sp_scaled_total
    BY <1>2, <1>3, SMT
  <2>2. (sp_obligation_r_amount + r) * REWARD_SCALE
          = sp_obligation_r_amount * REWARD_SCALE + r * REWARD_SCALE
    BY <1>2, PoolConstants, SMT
  <2>3. /\ sp_obligation_r_amount * REWARD_SCALE \in Nat
        /\ r * REWARD_SCALE \in Nat
        /\ delta * sp_scaled_total \in Nat
    BY <1>2, <1>3, PoolConstants, SMT
  <2> QED BY <2>1, <2>2, <2>3, <1>3, <1>4, <1>10, <1>13, <1>14
<1>16. LiabilitySum'
  BY <1>15 DEF LiabilitySum
<1> QED
  BY <1>6, <1>16

\* A new share count of one position is added to the pool's total.
LEMMA SharesUpdated ==
    ASSUME PoolInv, PoolTypeOK', NEW u \in Positions, NEW d \in Int,
           sp_scaled' = [sp_scaled EXCEPT ![u] = sp_scaled[u] + d],
           sp_scaled_total' = sp_scaled_total + d
    PROVE  SharesAccounted'
<1>1. PoolTypeOK /\ SharesAccounted
  BY DEF PoolInv
<1>3. sp_scaled' \in [Positions -> Nat] /\ sp_scaled \in [Positions -> Nat]
  BY <1>1, PoolConstants DEF PoolTypeOK
<1>4. \A i \in Positions \ {u} : sp_scaled'[i] = sp_scaled[i]
  BY <1>3
<1>5. SumFunction(sp_scaled') = SumFunction(sp_scaled) - sp_scaled[u] + sp_scaled'[u]
  <2> DEFINE g == sp_scaled'
  <2>1. g \in [Positions -> Int] /\ \A i \in Positions \ {u} : g[i] = sp_scaled[i]
    BY <1>3, <1>4
  <2>2. sp_scaled \in [Positions -> Int]
    BY <1>3
  <2> HIDE DEF g
  <2>3. SumFunction(g) = SumFunction(sp_scaled) - sp_scaled[u] + g[u]
    BY ONLY <2>1, <2>2, PositionsFinite, SumFunctionUpdate, u \in Positions
  <2> QED BY <2>3 DEF g
<1>6. sp_scaled'[u] = sp_scaled[u] + d
  BY <1>3
<1>7. sp_scaled_total \in Nat /\ sp_scaled[u] \in Nat
  BY <1>1, PoolConstants DEF PoolTypeOK
<1> QED
  BY <1>1, <1>5, <1>6, <1>7 DEF SharesAccounted

\* The burn sp_controller_rebalance allows, and what it leaves of the scale.
LEMMA BurnBounds ==
    ASSUME PoolTypeOK, NEW f \in Nat, pool_f > 0
    PROVE  /\ AllowedBurn(f) \in Nat /\ AllowedBurn(f) <= pool_f
           /\ ShrunkScale(AllowedBurn(f)) \in 0 .. SCALE_FACTOR
<1>1. pool_f \in Nat \ {0} /\ sp_scale \in Nat /\ sp_scale <= SCALE_FACTOR
  BY PoolConstants DEF PoolTypeOK
<1>2. SpQuoteBurnCap \in Nat /\ SpQuoteBurnCap <= pool_f
  BY <1>1, PoolConstants, MulDivFloor, MulDivShrinks DEF SpQuoteBurnCap
<1>3. AllowedBurn(f) \in Nat /\ AllowedBurn(f) <= pool_f
  BY <1>1, <1>2 DEF AllowedBurn
<1> DEFINE b == AllowedBurn(f)
           frac == MulDiv(b, SCALE_FACTOR, pool_f)
<1>4. b \in Nat /\ b <= pool_f
  BY <1>3
<1> HIDE DEF b
<1>5. frac \in Nat
  BY <1>1, <1>4, PoolConstants, MulDivFloor
<1>6. frac <= SCALE_FACTOR
  <2>1. b * SCALE_FACTOR <= SCALE_FACTOR * pool_f
    BY <1>1, <1>4, PoolConstants, SMT
  <2> QED BY <2>1, <1>1, <1>4, PoolConstants, MulDivBounded
<1> HIDE DEF frac
<1>7. SCALE_FACTOR - frac \in Nat /\ SCALE_FACTOR - frac <= SCALE_FACTOR
  BY <1>5, <1>6, PoolConstants
<1>8. /\ MulDiv(sp_scale, SCALE_FACTOR - frac, SCALE_FACTOR) \in Nat
      /\ MulDiv(sp_scale, SCALE_FACTOR - frac, SCALE_FACTOR) <= sp_scale
  BY <1>1, <1>7, PoolConstants, MulDivFloor, MulDivShrinks
<1>9. ShrunkScale(b) \in 0 .. SCALE_FACTOR
  BY <1>1, <1>8, PoolConstants DEF ShrunkScale, frac
<1> QED
  BY <1>3, <1>9 DEF b

\* The payout stays a natural number when it is cut along with the burn.
LEMMA PayoutNat ==
    ASSUME PoolTypeOK, NEW f \in Nat, f > 0, NEW r \in Nat, pool_f > 0
    PROVE  AllowedPayout(f, r) \in Nat
<1>1. AllowedBurn(f) \in Nat
  BY BurnBounds
<1>2. f \in Nat \ {0}
  OBVIOUS
<1>3. MulDiv(r, AllowedBurn(f), f) \in Nat
  BY <1>1, <1>2, MulDivFloor
<1> QED
  BY <1>3 DEF AllowedPayout

\* deposit_f keeps the invariant: the dropped reward only lowers the sum.
LEMMA DepositInv ==
    ASSUME PoolInv, NEW u \in Positions, NEW f \in Nat, DepositF(u, f)
    PROVE  PoolInv'
<1>1. PoolTypeOK
  BY DEF PoolInv
<1> DEFINE d == SharesFor(f)
<1>2. d \in Nat
  BY <1>1, PoolConstants, MulDivFloor DEF DepositF, SharesFor, PoolTypeOK
<1>3. /\ sp_scaled' = [sp_scaled EXCEPT ![u] = sp_scaled[u] + d]
      /\ sp_scaled_total' = sp_scaled_total + d
      /\ sp_scaled[u] + d <= MAX_U64
      /\ sp_scaled_total + d <= MAX_U64
      /\ pool_f' = pool_f + f /\ pool_f + f <= MAX_U64
      /\ UNCHANGED <<sp_scale, sp_index_r_scaled, sp_obligation_r_amount>>
      /\ sp_index_snap' = [sp_index_snap EXCEPT ![u] = sp_index_r_scaled]
  BY DEF DepositF, SettleUser, FitsU64
<1> HIDE DEF d
<1>4. PoolTypeOK'
  BY <1>1, <1>2, <1>3, PoolConstants DEF PoolTypeOK
<1>5. SharesAccounted'
  <2>1. d \in Int
    BY <1>2
  <2> QED BY <2>1, <1>3, <1>4, SharesUpdated
<1>6. /\ \A i \in Positions : sp_index_snap'[i] <= sp_index_r_scaled'
      /\ LiabilitySum'
  <2>1. \A i \in Positions \ {u} : sp_scaled'[i] = sp_scaled[i]
    BY <1>1, <1>3 DEF PoolTypeOK
  <2>2. Liability(u) \in Nat
    BY LiabilitiesNat DEF PoolInv
  <2>3. sp_obligation_r_amount * REWARD_SCALE \in Nat
    BY <1>1, PoolConstants, NatProduct DEF PoolTypeOK
  <2>4. sp_obligation_r_amount' * REWARD_SCALE
            >= sp_obligation_r_amount * REWARD_SCALE - Liability(u)
    BY <1>3, <2>2, <2>3
  <2> QED BY <1>3, <1>4, <2>1, <2>4, SettledSum
<1> QED
  BY <1>4, <1>5, <1>6 DEF PoolInv

\* withdraw_f keeps the invariant, for the same reason.
LEMMA WithdrawInv ==
    ASSUME PoolInv, NEW u \in Positions, NEW f \in Nat, WithdrawF(u, f)
    PROVE  PoolInv'
<1>1. PoolTypeOK
  BY DEF PoolInv
<1> DEFINE d == SharesFor(f)
<1>2. d \in Nat
  BY <1>1, PoolConstants, MulDivFloor DEF WithdrawF, SharesFor, PoolTypeOK
<1>3. /\ sp_scaled' = [sp_scaled EXCEPT ![u] = sp_scaled[u] - d]
      /\ sp_scaled_total' = sp_scaled_total - d
      /\ d <= sp_scaled[u] /\ d <= sp_scaled_total
      /\ pool_f' = pool_f - f /\ f <= pool_f
      /\ UNCHANGED <<sp_scale, sp_index_r_scaled, sp_obligation_r_amount>>
      /\ sp_index_snap' = [sp_index_snap EXCEPT ![u] = sp_index_r_scaled]
  BY DEF WithdrawF, SettleUser
<1> HIDE DEF d
<1>4. PoolTypeOK'
  BY <1>1, <1>2, <1>3, PoolConstants DEF PoolTypeOK
<1>5. SharesAccounted'
  <2> DEFINE e == 0 - d
  <2>1. e \in Int /\ sp_scaled[u] \in Nat /\ sp_scaled_total \in Nat
    BY <1>1, <1>2, PoolConstants DEF PoolTypeOK
  <2>2. sp_scaled[u] - d = sp_scaled[u] + e /\ sp_scaled_total - d = sp_scaled_total + e
    BY <1>2, <2>1
  <2>3. /\ sp_scaled' = [sp_scaled EXCEPT ![u] = sp_scaled[u] + e]
        /\ sp_scaled_total' = sp_scaled_total + e
    BY <1>3, <2>2
  <2> HIDE DEF e
  <2> QED BY <1>4, <2>1, <2>3, SharesUpdated
<1>6. /\ \A i \in Positions : sp_index_snap'[i] <= sp_index_r_scaled'
      /\ LiabilitySum'
  <2>1. \A i \in Positions \ {u} : sp_scaled'[i] = sp_scaled[i]
    BY <1>1, <1>3 DEF PoolTypeOK
  <2>2. Liability(u) \in Nat
    BY LiabilitiesNat DEF PoolInv
  <2>3. sp_obligation_r_amount * REWARD_SCALE \in Nat
    BY <1>1, PoolConstants, NatProduct DEF PoolTypeOK
  <2>4. sp_obligation_r_amount' * REWARD_SCALE
            >= sp_obligation_r_amount * REWARD_SCALE - Liability(u)
    BY <1>3, <2>2, <2>3
  <2> QED BY <1>3, <1>4, <2>1, <2>4, SettledSum
<1> QED
  BY <1>4, <1>5, <1>6 DEF PoolInv

\* A claim lowers the sum by at least what it takes off the obligation.
LEMMA ClaimInv ==
    ASSUME PoolInv, NEW u \in Positions, ClaimRewards(u)
    PROVE  PoolInv'
<1>1. PoolTypeOK
  BY DEF PoolInv
<1> DEFINE owed == CalculatePendingRewards(u)
<1>2. /\ owed > 0 /\ sp_obligation_r_amount >= owed
      /\ sp_obligation_r_amount' = sp_obligation_r_amount - owed
      /\ sp_index_snap' = [sp_index_snap EXCEPT ![u] = sp_index_r_scaled]
      /\ UNCHANGED <<pool_f, sp_scale, sp_scaled_total, sp_index_r_scaled, sp_scaled>>
  BY DEF ClaimRewards, SettleUser
<1>3. Liability(u) \in Nat
  BY LiabilitiesNat DEF PoolInv
<1>4. owed \in Nat /\ owed * REWARD_SCALE <= Liability(u)
  <2>1. sp_scaled[u] \in Nat /\ sp_index_r_scaled - sp_index_snap[u] \in Nat
    BY <1>1, PoolConstants DEF PoolInv, PoolTypeOK
  <2>2. CASE sp_scaled[u] = 0
    BY <2>2, <1>3, PoolConstants DEF CalculatePendingRewards
  <2>3. CASE sp_scaled[u] # 0
    BY <2>1, <2>3, PoolConstants, MulDivFloor DEF CalculatePendingRewards, Liability
  <2> QED BY <2>2, <2>3
<1> HIDE DEF owed
<1>5. PoolTypeOK'
  BY <1>1, <1>2, <1>4, PoolConstants DEF PoolTypeOK
<1>6. SharesAccounted'
  <2>1. sp_scaled[u] = sp_scaled[u] + 0 /\ sp_scaled_total' = sp_scaled_total + 0
    BY <1>1, <1>2, PoolConstants DEF PoolTypeOK
  <2>2. sp_scaled' = [sp_scaled EXCEPT ![u] = sp_scaled[u] + 0]
    BY <1>1, <1>2, <2>1 DEF PoolTypeOK
  <2>3. 0 \in Int
    OBVIOUS
  <2> QED BY <1>5, <2>1, <2>2, <2>3, SharesUpdated
<1>7. /\ \A i \in Positions : sp_index_snap'[i] <= sp_index_r_scaled'
      /\ LiabilitySum'
  <2>1. \A i \in Positions \ {u} : sp_scaled'[i] = sp_scaled[i]
    BY <1>2
  <2>2. sp_obligation_r_amount \in Nat
    BY <1>1, PoolConstants DEF PoolTypeOK
  <2>3. (sp_obligation_r_amount - owed) * REWARD_SCALE
            = sp_obligation_r_amount * REWARD_SCALE - owed * REWARD_SCALE
    BY <1>4, <2>2, PoolConstants, SMT
  <2>4. sp_obligation_r_amount * REWARD_SCALE \in Nat /\ owed * REWARD_SCALE \in Nat
    BY <1>4, <2>2, PoolConstants, NatProduct
  <2>5. sp_obligation_r_amount' * REWARD_SCALE
            >= sp_obligation_r_amount * REWARD_SCALE - Liability(u)
    BY <1>2, <1>3, <1>4, <2>3, <2>4
  <2> QED BY <1>2, <1>5, <2>1, <2>5, SettledSum
<1> QED
  BY <1>5, <1>6, <1>7 DEF PoolInv

\* sp_controller_rebalance keeps the invariant.
LEMMA RebalanceInv ==
    ASSUME PoolInv, NEW f \in Nat, NEW r \in Nat, SpControllerRebalance(f, r)
    PROVE  PoolInv'
<1>1. PoolTypeOK
  BY DEF PoolInv
<1> DEFINE b == AllowedBurn(f)
           p == AllowedPayout(f, r)
<1>2. /\ pool_f > 0 /\ f > 0
      /\ sp_scale' = ShrunkScale(b) /\ pool_f' = pool_f - b
      /\ UNCHANGED <<sp_scaled_total, sp_scaled, sp_index_snap>>
      /\ sp_scaled_total > 0 => Accrue(p)
      /\ ~(sp_scaled_total > 0) =>
             UNCHANGED <<sp_index_r_scaled, sp_obligation_r_amount>>
  BY DEF SpControllerRebalance
<1>3. b \in Nat /\ b <= pool_f /\ ShrunkScale(b) \in 0 .. SCALE_FACTOR
  BY <1>1, <1>2, BurnBounds
<1>4. p \in Nat
  BY <1>1, <1>2, PayoutNat
<1> HIDE DEF b, p
<1>5. SharesAccounted'
  BY <1>2 DEF PoolInv, SharesAccounted
<1>6. CASE sp_scaled_total > 0
  <2>1. sp_index_r_scaled' \in 0 .. MAX_U128 /\ sp_obligation_r_amount' \in 0 .. MAX_U64
    <3>0. sp_scaled_total \in Nat \ {0} /\ REWARD_SCALE \in Nat
      BY <1>1, <1>6, PoolConstants DEF PoolTypeOK
    <3>1. MulDiv(p, REWARD_SCALE, sp_scaled_total) \in Nat
      BY <1>4, <3>0, MulDivFloor
    <3> QED BY <1>1, <1>2, <1>4, <1>6, <3>1, PoolConstants DEF Accrue, FitsU64, PoolTypeOK
  <2>2. PoolTypeOK'
    BY <1>1, <1>2, <1>3, <2>1, PoolConstants DEF PoolTypeOK
  <2>3. /\ \A i \in Positions : sp_index_snap'[i] <= sp_index_r_scaled'
        /\ LiabilitySum'
    BY <1>2, <1>4, <1>6, <2>2, AccruedSum
  <2> QED BY <1>5, <2>2, <2>3 DEF PoolInv
<1>7. CASE ~(sp_scaled_total > 0)
  <2>1. PoolTypeOK'
    BY <1>1, <1>2, <1>3, <1>7, PoolConstants DEF PoolTypeOK
  <2>2. Liabilities' = Liabilities
    BY <1>2, <1>7 DEF Liabilities, Liability
  <2>3. LiabilitySum'
    BY <1>2, <1>7, <2>2 DEF PoolInv, LiabilitySum
  <2> QED BY <1>2, <1>5, <1>7, <2>1, <2>3 DEF PoolInv
<1> QED
  BY <1>6, <1>7

\* sp_index_harvest keeps the invariant.
LEMMA HarvestInv ==
    ASSUME PoolInv, NEW r \in Nat, SpIndexHarvest(r)
    PROVE  PoolInv'
<1>1. PoolTypeOK
  BY DEF PoolInv
<1> DEFINE p == r - MulDiv(r, HARVEST_BOUNTY_BPS, BPS)
<1>2. /\ sp_scaled_total > 0 /\ Accrue(p)
      /\ UNCHANGED <<pool_f, sp_scale, sp_scaled_total, sp_scaled, sp_index_snap>>
  BY DEF SpIndexHarvest
<1>3. p \in Nat
  <2>1. /\ MulDiv(r, HARVEST_BOUNTY_BPS, BPS) \in Nat
        /\ MulDiv(r, HARVEST_BOUNTY_BPS, BPS) <= r
    BY PoolConstants, MulDivFloor, MulDivShrinks
  <2> QED BY <2>1
<1> HIDE DEF p
<1>4. PoolTypeOK'
  <2>0. sp_scaled_total \in Nat \ {0} /\ REWARD_SCALE \in Nat
    BY <1>1, <1>2, PoolConstants DEF PoolTypeOK
  <2>1. MulDiv(p, REWARD_SCALE, sp_scaled_total) \in Nat
    BY <1>3, <2>0, MulDivFloor
  <2>2. sp_index_r_scaled' \in 0 .. MAX_U128 /\ sp_obligation_r_amount' \in 0 .. MAX_U64
    BY <1>1, <1>2, <1>3, <2>1, PoolConstants DEF Accrue, FitsU64, PoolTypeOK
  <2> QED BY <1>1, <1>2, <2>2 DEF PoolTypeOK
<1>5. SharesAccounted'
  BY <1>2 DEF PoolInv, SharesAccounted
<1>6. /\ \A i \in Positions : sp_index_snap'[i] <= sp_index_r_scaled'
      /\ LiabilitySum'
  BY <1>2, <1>3, <1>4, AccruedSum
<1> QED
  BY <1>4, <1>5, <1>6 DEF PoolInv

\* Every step of the pool keeps the invariant.
LEMMA PoolStepInv == PoolInv /\ [PoolNext]_poolVars => PoolInv'
<1> SUFFICES ASSUME PoolInv, [PoolNext]_poolVars PROVE PoolInv'
  OBVIOUS
<1>1. CASE UNCHANGED poolVars
  BY <1>1 DEF poolVars, PoolInv, PoolTypeOK, SharesAccounted, LiabilitySum, Liabilities,
              Liability
<1>2. ASSUME NEW u \in Positions, NEW f \in FAmounts, DepositF(u, f) PROVE PoolInv'
  BY <1>2, DepositInv, PoolAssumption
<1>3. ASSUME NEW u \in Positions, NEW f \in FAmounts, WithdrawF(u, f) PROVE PoolInv'
  BY <1>3, WithdrawInv, PoolAssumption
<1>4. ASSUME NEW f \in FAmounts, NEW r \in RAmounts, SpControllerRebalance(f, r)
      PROVE  PoolInv'
  BY <1>4, RebalanceInv, PoolAssumption
<1>5. ASSUME NEW u \in Positions, ClaimRewards(u) PROVE PoolInv'
  BY <1>5, ClaimInv
<1>6. ASSUME NEW r \in RAmounts, SpIndexHarvest(r) PROVE PoolInv'
  BY <1>6, HarvestInv, PoolAssumption
<1> QED
  BY <1>1, <1>2, <1>3, <1>4, <1>5, <1>6 DEF PoolNext

\* The invariant gives every position's coverage.
LEMMA PoolInvCovers == PoolInv => RewardsCovered
<1> SUFFICES ASSUME PoolInv, NEW u \in Positions
             PROVE  CalculatePendingRewards(u) <= sp_obligation_r_amount
  BY DEF RewardsCovered
<1>1. PoolTypeOK /\ sp_obligation_r_amount \in Nat /\ sp_scaled[u] \in Nat
      /\ sp_index_r_scaled - sp_index_snap[u] \in Nat
  BY PoolConstants DEF PoolInv, PoolTypeOK
<1>2. Liability(u) \in Nat /\ Liabilities[u] = Liability(u)
  BY LiabilitiesNat DEF PoolInv
<1>3. SumFunction(Liabilities) <= sp_obligation_r_amount * REWARD_SCALE
  BY DEF PoolInv, LiabilitySum
<1>4. Liability(u) <= SumFunction(Liabilities) /\ SumFunction(Liabilities) \in Nat
  <2>1. Liabilities \in [Positions -> Nat]
    BY LiabilitiesNat DEF PoolInv
  <2> QED BY <1>2, <2>1, PositionsFinite, SumFunctionNat
<1>5. sp_obligation_r_amount * REWARD_SCALE \in Nat
  BY <1>1, PoolConstants, NatProduct
<1>6. Liability(u) <= sp_obligation_r_amount * REWARD_SCALE
  BY <1>2, <1>3, <1>4, <1>5
<1>7. CASE sp_scaled[u] = 0
  BY <1>1, <1>7 DEF CalculatePendingRewards
<1>8. CASE sp_scaled[u] # 0
  BY <1>1, <1>6, <1>8, PoolConstants, MulDivBounded DEF CalculatePendingRewards, Liability
<1> QED
  BY <1>7, <1>8

(***************************************************************************)
(* The pool object and its positions always have their types.              *)
(***************************************************************************)
THEOREM PoolTypeCorrect == PoolSpec => []PoolTypeOK
<1>1. PoolInv => PoolTypeOK
  BY DEF PoolInv
<1> QED
  BY <1>1, PoolInitInv, PoolStepInv, PTL DEF PoolSpec

(***************************************************************************)
(* The obligation covers what every depositor is owed, after every         *)
(* sequence of deposits, withdrawals, rebalances, harvests and claims: the *)
(* assertion in decrease_obligation never refuses a claim.                 *)
(***************************************************************************)
THEOREM PoolRewardsCovered == PoolSpec => []RewardsCovered
  BY PoolInvCovers, PoolInitInv, PoolStepInv, PTL DEF PoolSpec

(***************************************************************************)
(* Burning the shares of an amount up to the floor of a position's worth   *)
(* takes at most the position's shares: n is worth s * b / c at most.      *)
(***************************************************************************)
LEMMA SharesOfBalance ==
    ASSUME NEW s \in Nat, NEW b \in Nat \ {0}, NEW c \in Nat \ {0},
           NEW n \in Nat, n <= MulDiv(s, b, c)
    PROVE  MulDiv(n, c, b) <= s
<1> DEFINE q == MulDiv(n, c, b)
<1> DEFINE m == MulDiv(s, b, c)
<1>1. m \in Nat /\ m * c <= s * b
  BY MulDivFloor
<1>2. q \in Nat /\ q * b <= n * c
  BY MulDivFloor
<1>3. n * c <= m * c
  <2>1. n <= m
    OBVIOUS
  <2> HIDE DEF m
  <2> QED BY <1>1, <2>1, SMT
<1>4. q * b <= s * b
  <2> HIDE DEF m, q
  <2>1. q * b \in Int /\ n * c \in Int /\ m * c \in Int /\ s * b \in Int
    BY <1>1, <1>2
  <2> QED BY <1>1, <1>2, <1>3, <2>1
<1>5. ASSUME q > s PROVE FALSE
  <2> HIDE DEF q
  <2>1. q * b >= (s + 1) * b
    BY <1>2, <1>5, SMT
  <2>2. (s + 1) * b = s * b + b
    BY SMT
  <2>3. s * b \in Int /\ q * b \in Int
    BY <1>2
  <2> QED BY <1>4, <2>1, <2>2, <2>3
<1> HIDE DEF q
<1> QED BY <1>2, <1>5 DEF q

(***************************************************************************)
(* withdraw_f never underflows a position's shares: anything up to the     *)
(* available balance costs at most the shares the position has.            *)
(***************************************************************************)
THEOREM PoolWithdrawalSharesSuffice == PoolSpec => []WithdrawalSharesSuffice
<1>1. ASSUME PoolTypeOK
      PROVE  WithdrawalSharesSuffice
  <2> SUFFICES ASSUME sp_scale > 0, NEW u \in Positions, NEW f \in 0 .. EffectiveBalance(u)
               PROVE  SharesFor(f) <= sp_scaled[u]
    BY DEF WithdrawalSharesSuffice
  <2>1. /\ sp_scaled[u] \in Nat /\ sp_scale \in Nat \ {0} /\ SCALE_FACTOR \in Nat \ {0}
    BY <1>1, PoolAssumption, MaxU64Assumption DEF PoolTypeOK
  <2>2. EffectiveBalance(u) = MulDiv(sp_scaled[u], sp_scale, SCALE_FACTOR)
    BY DEF EffectiveBalance
  <2>3. f \in Nat /\ f <= MulDiv(sp_scaled[u], sp_scale, SCALE_FACTOR)
    BY <2>1, <2>2, MulDivFloor
  <2>4. MulDiv(f, SCALE_FACTOR, sp_scale) <= sp_scaled[u]
    BY <2>1, <2>3, SharesOfBalance
  <2> QED BY <2>4 DEF SharesFor
<1>2. QED BY <1>1, PoolTypeCorrect, PTL

(***************************************************************************)
(* sp_scaled_total is the sum of the depositors' shares after every        *)
(* sequence of operations: what a rebalance or a harvest spreads over the  *)
(* total reaches the depositors and nobody else.                           *)
(***************************************************************************)
THEOREM PoolSharesAccounted == PoolSpec => []SharesAccounted
<1>1. PoolInv => SharesAccounted
  BY DEF PoolInv
<1> QED
  BY <1>1, PoolInitInv, PoolStepInv, PTL DEF PoolSpec

-----------------------------------------------------------------------------
(* Where pending rewards go. *)

\* mul_div is monotonic in its second argument.
LEMMA MulDivMonotonic ==
    ASSUME NEW a \in Nat, NEW b \in Nat, NEW d \in Nat, NEW c \in Nat \ {0}, b <= d
    PROVE  MulDiv(a, b, c) <= MulDiv(a, d, c)
<1> DEFINE p == MulDiv(a, b, c)
           q == MulDiv(a, d, c)
<1>1. p \in Nat /\ p * c <= a * b
  BY MulDivFloor
<1>2. q \in Nat /\ a * d < q * c + c
  BY MulDivFloor
<1>3. a * b <= a * d /\ a * b \in Nat /\ a * d \in Nat
  BY SMT
<1>4. ASSUME p >= q + 1 PROVE FALSE
  <2> HIDE DEF p, q
  <2>1. p * c >= (q + 1) * c
    BY <1>1, <1>2, <1>4, SMT
  <2>2. (q + 1) * c = q * c + c
    BY <1>2, SMT
  <2>3. p * c \in Nat /\ q * c \in Nat
    BY <1>1, <1>2, SMT
  <2> QED BY <1>1, <1>2, <1>3, <2>1, <2>2, <2>3
<1> QED
  BY <1>1, <1>2, <1>4

\* Every fToken deposited or withdrawn is worth at least one share, because
\* the scale only shrinks.
LEMMA SharesPositive ==
    ASSUME PoolTypeOK, sp_scale > 0, NEW f \in Nat, f > 0
    PROVE  SharesFor(f) \in Nat /\ SharesFor(f) >= f
<1> DEFINE q == MulDiv(f, SCALE_FACTOR, sp_scale)
<1>1. sp_scale \in Nat \ {0} /\ sp_scale <= SCALE_FACTOR /\ SCALE_FACTOR \in Nat
  BY PoolConstants DEF PoolTypeOK
<1>2. q \in Nat /\ f * SCALE_FACTOR < q * sp_scale + sp_scale
  BY <1>1, MulDivFloor
<1>3. f * sp_scale <= f * SCALE_FACTOR
  BY <1>1, SMT
<1> HIDE DEF q
<1>4. ASSUME q + 1 <= f PROVE FALSE
  <2>1. (q + 1) * sp_scale <= f * sp_scale
    BY <1>1, <1>2, <1>4, SMT
  <2>2. (q + 1) * sp_scale = q * sp_scale + sp_scale
    BY <1>1, <1>2, SMT
  <2>3. q * sp_scale \in Nat /\ f * sp_scale \in Nat /\ f * SCALE_FACTOR \in Nat
    BY <1>1, <1>2, SMT
  <2> QED BY <1>1, <1>2, <1>3, <2>1, <2>2, <2>3
<1> QED
  BY <1>2, <1>4 DEF q, SharesFor

\* Pending rewards do not go down while the shares and the snapshot stay and
\* the index does not go down.
LEMMA PendingKept ==
    ASSUME PoolInv, NEW u \in Positions,
           sp_scaled'[u] = sp_scaled[u], sp_index_snap'[u] = sp_index_snap[u],
           sp_index_r_scaled' \in Nat, sp_index_r_scaled' >= sp_index_r_scaled
    PROVE  ~(CalculatePendingRewards(u)' < CalculatePendingRewards(u))
<1>1. /\ sp_scaled[u] \in Nat /\ sp_index_snap[u] \in Nat /\ sp_index_r_scaled \in Nat
      /\ sp_index_snap[u] <= sp_index_r_scaled
  BY PoolConstants DEF PoolInv, PoolTypeOK
<1> DEFINE b == sp_index_r_scaled - sp_index_snap[u]
           d == sp_index_r_scaled' - sp_index_snap[u]
<1>2. b \in Nat /\ d \in Nat /\ b <= d
  BY <1>1
<1>3. /\ MulDiv(sp_scaled[u], b, REWARD_SCALE) \in Nat
      /\ MulDiv(sp_scaled[u], d, REWARD_SCALE) \in Nat
      /\ MulDiv(sp_scaled[u], b, REWARD_SCALE) <= MulDiv(sp_scaled[u], d, REWARD_SCALE)
  <2> HIDE DEF b, d
  <2> QED BY <1>1, <1>2, PoolConstants, MulDivFloor, MulDivMonotonic
<1>4. CalculatePendingRewards(u)
          = IF sp_scaled[u] = 0 THEN 0 ELSE MulDiv(sp_scaled[u], b, REWARD_SCALE)
  BY DEF CalculatePendingRewards
<1>5. CalculatePendingRewards(u)'
          = IF sp_scaled[u] = 0 THEN 0 ELSE MulDiv(sp_scaled[u], d, REWARD_SCALE)
  BY DEF CalculatePendingRewards
<1> HIDE DEF b, d
<1> QED
  BY <1>3, <1>4, <1>5

\* What a step may do to the pending rewards of one position.
PaidOrSettled(u) ==
    CalculatePendingRewards(u)' < CalculatePendingRewards(u) =>
        \/ sp_obligation_r_amount - sp_obligation_r_amount'
              = CalculatePendingRewards(u) - CalculatePendingRewards(u)'
        \/ sp_scaled'[u] # sp_scaled[u]

\* deposit_f and withdraw_f only settle the position that calls them.
LEMMA ShareStepSettlesOwn ==
    ASSUME PoolInv, NEW v \in Positions, NEW d \in Int, d # 0,
           sp_scaled' = [sp_scaled EXCEPT ![v] = sp_scaled[v] + d],
           sp_index_snap' = [sp_index_snap EXCEPT ![v] = sp_index_r_scaled],
           sp_index_r_scaled' = sp_index_r_scaled,
           NEW u \in Positions
    PROVE  PaidOrSettled(u)
<1>1. sp_scaled \in [Positions -> Nat] /\ sp_index_r_scaled \in Nat
      /\ sp_index_snap \in [Positions -> Nat]
  BY PoolConstants DEF PoolInv, PoolTypeOK
<1>2. CASE u = v
  <2>1. sp_scaled'[u] = sp_scaled[u] + d /\ sp_scaled[u] \in Nat
    BY <1>1, <1>2
  <2> QED BY <2>1 DEF PaidOrSettled
<1>3. CASE u # v
  <2>1. sp_scaled'[u] = sp_scaled[u] /\ sp_index_snap'[u] = sp_index_snap[u]
    BY <1>1, <1>3
  <2>2. sp_index_r_scaled' \in Nat /\ sp_index_r_scaled' >= sp_index_r_scaled
    BY <1>1
  <2> QED BY <2>1, <2>2, PendingKept DEF PaidOrSettled
<1> QED
  BY <1>2, <1>3

\* Accruing a payout takes nothing away.
LEMMA AccrueKeepsPending ==
    ASSUME PoolInv, NEW r \in Nat, sp_scaled_total > 0, Accrue(r),
           UNCHANGED <<sp_scaled, sp_index_snap>>, NEW u \in Positions
    PROVE  PaidOrSettled(u)
<1>1. sp_scaled_total \in Nat \ {0} /\ sp_index_r_scaled \in Nat
  BY PoolConstants DEF PoolInv, PoolTypeOK
<1>2. MulDiv(r, REWARD_SCALE, sp_scaled_total) \in Nat
  BY <1>1, PoolConstants, MulDivFloor
<1>3. sp_index_r_scaled' = sp_index_r_scaled + MulDiv(r, REWARD_SCALE, sp_scaled_total)
  BY DEF Accrue
<1>4. sp_index_r_scaled' \in Nat /\ sp_index_r_scaled' >= sp_index_r_scaled
  BY <1>1, <1>2, <1>3
<1> QED
  BY <1>4, PendingKept DEF PaidOrSettled

\* A claim pays exactly what it takes from the claimer.
LEMMA ClaimPaysOwn ==
    ASSUME PoolInv, NEW v \in Positions, ClaimRewards(v), NEW u \in Positions
    PROVE  PaidOrSettled(u)
<1>1. /\ sp_scaled \in [Positions -> Nat] /\ sp_index_r_scaled \in Nat
      /\ sp_index_snap \in [Positions -> Nat] /\ sp_obligation_r_amount \in Nat
  BY PoolConstants DEF PoolInv, PoolTypeOK
<1>2. /\ sp_index_snap' = [sp_index_snap EXCEPT ![v] = sp_index_r_scaled]
      /\ sp_obligation_r_amount' = sp_obligation_r_amount - CalculatePendingRewards(v)
      /\ sp_scaled' = sp_scaled /\ sp_index_r_scaled' = sp_index_r_scaled
  BY DEF ClaimRewards, SettleUser
<1>3. CASE u = v
  <2>1. CalculatePendingRewards(u)' = 0
    <3>1. sp_index_snap'[u] = sp_index_r_scaled
      BY <1>1, <1>2, <1>3
    <3>2. sp_index_r_scaled' - sp_index_snap'[u] = 0
      BY <1>1, <1>2, <3>1
    <3>3. MulDiv(sp_scaled[u], 0, REWARD_SCALE) = 0
      <4>1. sp_scaled[u] * 0 = 0 /\ 0 \div REWARD_SCALE = 0
        BY <1>1, PoolConstants
      <4> QED BY <4>1 DEF MulDiv
    <3> QED BY <1>2, <3>2, <3>3 DEF CalculatePendingRewards
  <2>2. CalculatePendingRewards(u) \in Nat
    <3>1. sp_index_r_scaled - sp_index_snap[u] \in Nat /\ sp_scaled[u] \in Nat
      BY <1>1 DEF PoolInv
    <3>2. MulDiv(sp_scaled[u], sp_index_r_scaled - sp_index_snap[u], REWARD_SCALE) \in Nat
      BY <3>1, PoolConstants, MulDivFloor
    <3> QED BY <3>2 DEF CalculatePendingRewards
  <2> QED BY <1>1, <1>2, <1>3, <2>1, <2>2 DEF PaidOrSettled
<1>4. CASE u # v
  <2>1. sp_scaled'[u] = sp_scaled[u] /\ sp_index_snap'[u] = sp_index_snap[u]
    BY <1>1, <1>2, <1>4
  <2>2. sp_index_r_scaled' \in Nat /\ sp_index_r_scaled' >= sp_index_r_scaled
    BY <1>1, <1>2
  <2> QED BY <2>1, <2>2, PendingKept DEF PaidOrSettled
<1> QED
  BY <1>3, <1>4

(***************************************************************************)
(* The pool's steps for any amounts at all: the protocol's rebalance burns *)
(* and pays what the reserve's value asks for, not an amount of the        *)
(* holders' choosing.                                                      *)
(***************************************************************************)
PoolStep ==
    \/ \E u \in Positions, f \in Nat : DepositF(u, f)
    \/ \E u \in Positions, f \in Nat : WithdrawF(u, f)
    \/ \E f \in Nat, r \in Nat : SpControllerRebalance(f, r)
    \/ \E u \in Positions : ClaimRewards(u)
    \/ \E r \in Nat : SpIndexHarvest(r)

\* The steps with the amounts of the specification are among them.
LEMMA PoolNextIsStep == PoolNext => PoolStep
  BY PoolAssumption DEF PoolNext, PoolStep

\* Every step of the pool pays or settles what it takes.
LEMMA PoolStepPaysOrSettles ==
    ASSUME PoolInv, [PoolStep]_poolVars, NEW u \in Positions
    PROVE  PaidOrSettled(u)
<1>0. PoolTypeOK
  BY DEF PoolInv
<1>1. CASE UNCHANGED poolVars
  <2>1. sp_index_r_scaled \in Nat
    BY <1>0, PoolConstants DEF PoolTypeOK
  <2>2. /\ sp_scaled'[u] = sp_scaled[u] /\ sp_index_snap'[u] = sp_index_snap[u]
        /\ sp_index_r_scaled' \in Nat /\ sp_index_r_scaled' >= sp_index_r_scaled
    BY <1>1, <2>1 DEF poolVars
  <2> QED BY <2>2, PendingKept DEF PaidOrSettled
<1>2. ASSUME NEW v \in Positions, NEW f \in Nat, DepositF(v, f) PROVE PaidOrSettled(u)
  <2>1. f \in Nat /\ f > 0 /\ sp_scale > 0
    BY <1>2, PoolAssumption DEF DepositF
  <2>2. SharesFor(f) \in Int /\ SharesFor(f) # 0
    BY <1>0, <2>1, SharesPositive
  <2> QED BY <1>2, <2>2, ShareStepSettlesOwn DEF DepositF, SettleUser
<1>3. ASSUME NEW v \in Positions, NEW f \in Nat, WithdrawF(v, f) PROVE PaidOrSettled(u)
  <2>1. f \in Nat /\ f > 0 /\ sp_scale > 0
    BY <1>3, PoolAssumption DEF WithdrawF
  <2> DEFINE e == 0 - SharesFor(f)
  <2>2. SharesFor(f) \in Nat /\ e \in Int /\ e # 0 /\ sp_scaled[v] \in Nat
    BY <1>0, <2>1, SharesPositive, PoolConstants DEF PoolTypeOK
  <2>3. sp_scaled[v] - SharesFor(f) = sp_scaled[v] + e
    BY <2>2
  <2>4. sp_scaled' = [sp_scaled EXCEPT ![v] = sp_scaled[v] + e]
    BY <1>3, <2>3 DEF WithdrawF
  <2> HIDE DEF e
  <2> QED BY <1>3, <2>2, <2>4, ShareStepSettlesOwn DEF WithdrawF, SettleUser
<1>4. ASSUME NEW f \in Nat, NEW r \in Nat, SpControllerRebalance(f, r)
      PROVE  PaidOrSettled(u)
  <2>1. /\ f \in Nat /\ f > 0 /\ r \in Nat /\ pool_f > 0
        /\ UNCHANGED <<sp_scaled, sp_index_snap>>
        /\ sp_scaled_total > 0 => Accrue(AllowedPayout(f, r))
        /\ ~(sp_scaled_total > 0) => sp_index_r_scaled' = sp_index_r_scaled
    BY <1>4, PoolAssumption DEF SpControllerRebalance
  <2>2. CASE sp_scaled_total > 0
    <3>1. AllowedPayout(f, r) \in Nat
      BY <1>0, <2>1, PayoutNat
    <3> QED BY <2>1, <2>2, <3>1, AccrueKeepsPending
  <2>3. CASE ~(sp_scaled_total > 0)
    <3>1. sp_index_r_scaled \in Nat
      BY <1>0, PoolConstants DEF PoolTypeOK
    <3>2. sp_index_r_scaled' \in Nat /\ sp_index_r_scaled' >= sp_index_r_scaled
      BY <2>1, <2>3, <3>1
    <3> QED BY <2>1, <3>2, PendingKept DEF PaidOrSettled
  <2> QED BY <2>2, <2>3
<1>5. ASSUME NEW v \in Positions, ClaimRewards(v) PROVE PaidOrSettled(u)
  BY <1>5, ClaimPaysOwn
<1>6. ASSUME NEW r \in Nat, SpIndexHarvest(r) PROVE PaidOrSettled(u)
  <2> DEFINE b == MulDiv(r, HARVEST_BOUNTY_BPS, BPS)
  <2>1. r \in Nat
    BY PoolAssumption
  <2>2. b \in Nat /\ b <= r
    BY <2>1, PoolConstants, MulDivFloor, MulDivShrinks
  <2>3. r - b \in Nat
    BY <2>1, <2>2
  <2>4. sp_scaled_total > 0 /\ Accrue(r - b) /\ UNCHANGED <<sp_scaled, sp_index_snap>>
    BY <1>6 DEF SpIndexHarvest
  <2> HIDE DEF b
  <2> QED BY <2>3, <2>4, AccrueKeepsPending
<1> QED
  BY <1>1, <1>2, <1>3, <1>4, <1>5, <1>6 DEF PoolStep

(***************************************************************************)
(* Pending rewards leave a position only by being paid, the obligation     *)
(* going down by as much, or by the position's own deposit or withdrawal.  *)
(***************************************************************************)
THEOREM PoolRewardsLeavePaidOrSettled == PoolSpec => RewardsLeavePaidOrSettled
<1>1. PoolInv /\ [PoolNext]_poolVars
          => [\A u \in Positions :
                CalculatePendingRewards(u)' < CalculatePendingRewards(u) =>
                    \/ sp_obligation_r_amount - sp_obligation_r_amount'
                          = CalculatePendingRewards(u) - CalculatePendingRewards(u)'
                    \/ sp_scaled'[u] # sp_scaled[u]]_poolVars
  BY PoolNextIsStep, PoolStepPaysOrSettles DEF PaidOrSettled
<1> QED
  BY <1>1, PoolInitInv, PoolStepInv, PTL DEF PoolSpec, RewardsLeavePaidOrSettled

-----------------------------------------------------------------------------
(* PART II.  The protocol: constants and arithmetic. *)

\* What the proofs use of the protocol's constants.
LEMMA LeafConstants ==
    /\ PF_FIXED \in Nat \ {0} /\ EPS \in Nat /\ EPS < PF_FIXED
    /\ CR_T_L1 \in Nat
    /\ InitialPrice \in Nat \ {0} /\ InitialReserve \in Nat
    /\ NumTickets \in Nat /\ IsFiniteSet(Tickets)
    /\ SCALE_FACTOR \in Nat \ {0} /\ BPS \in Nat \ {0}
    /\ NoTicket \in TicketType /\ NoTicket.amount = 0 /\ NoTicket.operation_fee = 0
<1>1. IsFiniteSet(Tickets)
  BY LeafsiiAssumption, FS_Interval DEF Tickets
<1> QED
  BY <1>1, LeafsiiAssumption, PoolAssumption DEF NoTicket, TicketType

\* A fee is a natural number.
LEMMA FeeNat == \A a, r \in Nat : FeeAmount(a, r) \in Nat
  BY PoolConstants, MulDivFloor DEF FeeAmount

\* No fee at a rate of zero.
LEMMA FeeZero == \A a \in Nat : FeeAmount(a, 0) = 0
<1> SUFFICES ASSUME NEW a \in Nat PROVE FeeAmount(a, 0) = 0
  OBVIOUS
<1>1. a * 0 = 0 /\ 0 \div BPS = 0
  BY PoolConstants
<1> QED
  BY <1>1 DEF FeeAmount, MulDiv

\* What a saturating subtraction leaves.
LEMMA SafeSubNat == \A a, b \in Nat : SafeSub(a, b) \in Nat /\ SafeSub(a, b) <= a
  BY DEF SafeSub

\* The xToken price is a natural number.
LEMMA PxNat ==
    ASSUME NEW r \in Nat, NEW p \in Nat, NEW f \in Nat, NEW x \in Nat
    PROVE  PxOf(r, p, f, x) \in Nat
<1> DEFINE e == r * p - f * PF_FIXED
<1>1. r * p \in Nat /\ f * PF_FIXED \in Nat
  BY LeafConstants, NatProduct
<1>2. CASE x > EPS /\ r * p > f * PF_FIXED
  <2>1. e \in Nat /\ x \in Nat \ {0}
    BY <1>1, <1>2, LeafConstants
  <2>2. e \div x \in Nat
    <3> HIDE DEF e
    <3> QED BY <2>1, SMT
  <2> QED BY <1>2, <2>2 DEF PxOf
<1>3. CASE ~(x > EPS /\ r * p > f * PF_FIXED)
  BY <1>3 DEF PxOf
<1> QED
  BY <1>2, <1>3

\* update_px gives at least q when every xToken can be given q of the equity.
LEMMA PxAtLeast ==
    ASSUME NEW r \in Nat, NEW p \in Nat, NEW f \in Nat, NEW x \in Nat, x > EPS,
           NEW q \in Nat, x * q <= r * p - f * PF_FIXED
    PROVE  PxOf(r, p, f, x) >= q
<1> DEFINE e == r * p - f * PF_FIXED
           z == e \div x
<1>1. r * p \in Nat /\ f * PF_FIXED \in Nat /\ x * q \in Nat /\ x \in Nat \ {0}
  BY LeafConstants, NatProduct
<1>2. CASE q = 0
  BY <1>2, PxNat
<1>3. CASE q # 0
  <2>1. x * q > 0
    BY <1>1, <1>3, SMT
  <2>2. e \in Nat /\ x * q <= e /\ r * p > f * PF_FIXED
    BY <1>1, <2>1
  <2>3. z \in Nat /\ e < z * x + x
    <3> HIDE DEF e
    <3> QED BY <1>1, <2>2, SMT
  <2> HIDE DEF e, z
  <2>4. ASSUME z + 1 <= q PROVE FALSE
    <3>1. x * (z + 1) <= x * q
      BY <1>1, <2>3, <2>4, SMT
    <3>2. x * (z + 1) = z * x + x /\ z * x \in Nat
      BY <1>1, <2>3, SMT
    <3> QED BY <1>1, <2>2, <2>3, <3>1, <3>2
  <2>5. z >= q
    BY <2>3, <2>4
  <2> QED BY <2>2, <2>5 DEF PxOf, e, z
<1> QED
  BY <1>2, <1>3

\* A fresh xToken price, when positive, is covered by the equity.
LEMMA PxCovered ==
    ASSUME NEW r \in Nat, NEW p \in Nat, NEW f \in Nat, NEW x \in Nat,
           PxOf(r, p, f, x) > 0
    PROVE  x > EPS /\ x * PxOf(r, p, f, x) <= r * p - f * PF_FIXED
<1> DEFINE e == r * p - f * PF_FIXED
           z == e \div x
<1>1. r * p \in Nat /\ f * PF_FIXED \in Nat
  BY LeafConstants, NatProduct
<1>2. x > EPS /\ r * p > f * PF_FIXED /\ PxOf(r, p, f, x) = z
  BY DEF PxOf
<1>3. e \in Nat /\ x \in Nat \ {0}
  BY <1>1, <1>2, LeafConstants
<1>4. z \in Nat /\ z * x <= e /\ x * z = z * x
  <2> HIDE DEF e
  <2> QED BY <1>3, SMT
<1> HIDE DEF e, z
<1> QED
  BY <1>2, <1>4 DEF e

-----------------------------------------------------------------------------
(* Tickets. *)

\* The ticket amounts are natural numbers, and so is their total.
LEMMA TicketTotalNat ==
    ASSUME tickets \in [Tickets -> TicketType]
    PROVE  /\ TicketAmounts \in [Tickets -> Nat]
           /\ TicketTotal \in Nat
           /\ \A i \in Tickets : tickets[i].amount \in Nat /\ tickets[i].amount <= TicketTotal
<1>1. \A i \in Tickets : tickets[i].amount \in Nat /\ TicketAmounts[i] = tickets[i].amount
  BY DEF TicketType, TicketAmounts
<1>2. TicketAmounts \in [Tickets -> Nat]
  BY <1>1 DEF TicketAmounts
<1> QED
  BY <1>1, <1>2, LeafConstants, SumFunctionNat DEF TicketTotal

\* Writing one ticket changes the total by the difference of the amounts.
LEMMA TicketWritten ==
    ASSUME tickets \in [Tickets -> TicketType], NEW i \in Tickets, NEW v \in TicketType,
           tickets' = [tickets EXCEPT ![i] = v]
    PROVE  /\ tickets' \in [Tickets -> TicketType]
           /\ TicketTotal' = TicketTotal - tickets[i].amount + v.amount
           /\ tickets'[i] = v
           /\ \A j \in Tickets \ {i} : tickets'[j] = tickets[j]
<1>1. /\ tickets' \in [Tickets -> TicketType]
      /\ tickets'[i] = v
      /\ \A j \in Tickets \ {i} : tickets'[j] = tickets[j]
  OBVIOUS
<1> DEFINE f == TicketAmounts
           g == TicketAmounts'
<1>2. f \in [Tickets -> Int]
  BY TicketTotalNat
<1>3. \A j \in Tickets : g[j] = tickets'[j].amount /\ tickets'[j].amount \in Nat
  BY <1>1 DEF TicketAmounts, TicketType
<1>4. g \in [Tickets -> Int]
  <2>1. g = [j \in Tickets |-> g[j]]
    BY DEF TicketAmounts
  <2>2. \A j \in Tickets : g[j] \in Int
    BY <1>3
  <2> HIDE DEF g
  <2> QED BY <2>1, <2>2
<1>5. \A j \in Tickets \ {i} : g[j] = f[j]
  BY <1>1, <1>3 DEF TicketAmounts
<1>6. f[i] = tickets[i].amount /\ g[i] = v.amount
  BY <1>1, <1>3 DEF TicketAmounts
<1>7. TicketTotal = SumFunction(f) /\ TicketTotal' = SumFunction(g)
  BY DEF TicketTotal
<1> HIDE DEF f, g
<1>8. SumFunction(g) = SumFunction(f) - f[i] + g[i]
  BY ONLY <1>2, <1>4, <1>5, i \in Tickets, LeafConstants, SumFunctionUpdate
<1> QED
  BY <1>1, <1>6, <1>7, <1>8

\* The total only depends on the tickets.
LEMMA TicketTotalKept == tickets' = tickets => TicketTotal' = TicketTotal
  BY DEF TicketTotal, TicketAmounts

\* apply_redemption_flow pays `needed` out of custody or promises it, and
\* leaves every outstanding ticket alone.
LEMMA FlowEffect ==
    ASSUME LeafTypeOK, NEW needed \in Nat, NEW delegate \in BOOLEAN,
           ApplyRedemptionFlow(needed, delegate)
    PROVE  /\ reserve_buffer_sui' \in Nat
           /\ tickets' \in [Tickets -> TicketType]
           /\ TicketTotal \in Nat /\ TicketTotal' \in Nat
           /\ reserve_buffer_sui' - TicketTotal' = reserve_buffer_sui - TicketTotal - needed
           /\ \A i \in Tickets : Live(i) => tickets'[i] = tickets[i]
           /\ \A i \in Tickets :
                 tickets'[i].operation_fee
                     \in {tickets[i].operation_fee, delegate_redeem_operation_fee, 0}
<1>1. reserve_buffer_sui \in Nat /\ tickets \in [Tickets -> TicketType]
      /\ now \in Nat /\ ticket_expiration_ms \in Nat /\ delegate_redeem_operation_fee \in Nat
  BY DEF LeafTypeOK
<1>2. TicketTotal \in Nat
  BY <1>1, TicketTotalNat
<1>3. CASE reserve_buffer_sui >= needed /\ reserve_buffer_sui' = reserve_buffer_sui - needed
           /\ UNCHANGED tickets
  BY <1>1, <1>2, <1>3, TicketTotalKept
<1>4. CASE reserve_buffer_sui < needed
  <2> DEFINE v == [amount |-> needed - reserve_buffer_sui,
                   expiration |-> now + ticket_expiration_ms,
                   operation_fee |-> IF delegate THEN delegate_redeem_operation_fee ELSE 0,
                   delegate |-> delegate]
  <2>1. PICK i \in Tickets : tickets[i].amount = 0 /\ tickets' = [tickets EXCEPT ![i] = v]
    BY <1>1, <1>4 DEF ApplyRedemptionFlow
  <2>2. reserve_buffer_sui' = 0
    BY <1>1, <1>4 DEF ApplyRedemptionFlow
  <2>3. v \in TicketType /\ v.amount = needed - reserve_buffer_sui
        /\ v.operation_fee \in {delegate_redeem_operation_fee, 0}
    BY <1>1, <1>4 DEF TicketType
  <2> HIDE DEF v
  <2>4. /\ tickets' \in [Tickets -> TicketType]
        /\ TicketTotal' = TicketTotal - tickets[i].amount + v.amount
        /\ tickets'[i] = v
        /\ \A j \in Tickets \ {i} : tickets'[j] = tickets[j]
    BY <1>1, <2>1, <2>3, TicketWritten
  <2>5. \A j \in Tickets : Live(j) => tickets'[j] = tickets[j]
    BY <2>1, <2>4 DEF Live
  <2>6. \A j \in Tickets :
          tickets'[j].operation_fee
              \in {tickets[j].operation_fee, delegate_redeem_operation_fee, 0}
    BY <2>3, <2>4
  <2> QED BY <1>1, <1>2, <1>4, <2>1, <2>2, <2>3, <2>4, <2>5, <2>6
<1> QED
  BY <1>1, <1>3, <1>4 DEF ApplyRedemptionFlow

-----------------------------------------------------------------------------
(* What each operation does to the books. *)

\* The rates an operation charges or pays are natural numbers.
LEMMA RatesNat ==
    ASSUME LeafTypeOK
    PROVE  /\ fee_config.mint_f \in Nat /\ fee_config.mint_x \in Nat
           /\ MintXBonusRate \in Nat /\ RedeemFFeeRate \in Nat
           /\ RedeemFBonusRate \in Nat /\ RedeemXFeeRate \in Nat
<1>1. fee_config \in [mint_f : Nat, mint_x : Nat, redeem_f : Nat, redeem_x : Nat,
                      l1_redeem_x : Nat, bonus : Nat]
  BY DEF LeafTypeOK, FeeConfigType
<1>2. /\ fee_config.mint_f \in Nat /\ fee_config.mint_x \in Nat
      /\ fee_config.redeem_f \in Nat /\ fee_config.redeem_x \in Nat
      /\ fee_config.l1_redeem_x \in Nat /\ fee_config.bonus \in Nat
  BY <1>1
<1> QED
  BY <1>2 DEF MintXBonusRate, RedeemFFeeRate, RedeemFBonusRate, RedeemXFeeRate

\* mint_f: custody and books grow by the deposit; the fTokens minted are worth
\* at most what was deposited net of the fee.
LEMMA MintFEffect ==
    ASSUME LeafTypeOK, NEW d \in Nat, MintF(d)
    PROVE  \E fee, minted \in Nat :
              /\ fee <= d
              /\ minted * PF_FIXED <= (d - fee) * last_reserve_price
              /\ reserve_buffer_sui' = reserve_buffer_sui + d
              /\ fees_collected_sui' = fees_collected_sui + fee
              /\ reserve_balance_sui' = reserve_balance_sui + (d - fee)
              /\ nf' = nf + minted
              /\ UNCHANGED <<nx, poolVars, adminVars, oracleVars, tickets, now>>
              /\ UpdatePx
<1> DEFINE fee == FeeAmount(d, fee_config.mint_f)
           minted == MulDiv(d - fee, last_reserve_price, PF_FIXED)
<1>1. fee \in Nat
  BY RatesNat, FeeNat
<1>2. /\ fee <= d
      /\ reserve_buffer_sui' = reserve_buffer_sui + d
      /\ fees_collected_sui' = fees_collected_sui + fee
      /\ reserve_balance_sui' = reserve_balance_sui + (d - fee)
      /\ nf' = nf + minted
      /\ UNCHANGED <<nx, poolVars, adminVars, oracleVars, tickets, now>>
      /\ UpdatePx
  BY DEF MintF
<1>3. d - fee \in Nat /\ last_reserve_price \in Nat
  BY <1>1, <1>2 DEF LeafTypeOK
<1>4. minted \in Nat /\ minted * PF_FIXED <= (d - fee) * last_reserve_price
  <2> HIDE DEF fee
  <2> QED BY <1>3, LeafConstants, MulDivFloor
<1> HIDE DEF fee, minted
<1> QED
  BY <1>1, <1>2, <1>4

\* mint_x: custody and books grow by the deposit; without a bonus the xTokens
\* minted are worth at most what was deposited net of the fee.
LEMMA MintXEffect ==
    ASSUME LeafTypeOK, NEW d \in Nat, MintX(d)
    PROVE  \E fee, minted \in Nat :
              /\ fee <= d
              /\ nx # 0 => px > 0
              /\ nx # 0 /\ MintXBonusRate = 0
                     => minted * px <= (d - fee) * last_reserve_price
              /\ reserve_buffer_sui' = reserve_buffer_sui + d
              /\ fees_collected_sui' = fees_collected_sui + fee
              /\ reserve_balance_sui' = reserve_balance_sui + (d - fee)
              /\ nx' = nx + minted
              /\ UNCHANGED <<nf, poolVars, adminVars, oracleVars, tickets, now>>
              /\ UpdatePx
<1> DEFINE fee == FeeAmount(d, fee_config.mint_x)
           bonus == FeeAmount(d, MintXBonusRate)
           price == IF nx = 0 THEN last_reserve_price ELSE px
           minted == MulDiv((d - fee) + bonus, last_reserve_price, price)
<1>1. fee \in Nat /\ bonus \in Nat
  BY RatesNat, FeeNat
<1>2. /\ fee <= d
      /\ reserve_buffer_sui' = reserve_buffer_sui + d
      /\ fees_collected_sui' = fees_collected_sui + fee
      /\ reserve_balance_sui' = reserve_balance_sui + (d - fee)
      /\ price > 0
      /\ nx' = nx + minted
      /\ UNCHANGED <<nf, poolVars, adminVars, oracleVars, tickets, now>>
      /\ UpdatePx
  BY DEF MintX, MintXAtPrice
<1>3. last_reserve_price \in Nat /\ px \in Nat
  BY DEF LeafTypeOK
<1>4. (d - fee) + bonus \in Nat /\ price \in Nat \ {0}
  <2>1. price \in Nat
    BY <1>3
  <2> HIDE DEF fee, bonus, price
  <2> QED BY <1>1, <1>2, <2>1
<1>5. minted \in Nat /\ minted * price <= ((d - fee) + bonus) * last_reserve_price
  <2> HIDE DEF fee, bonus, price
  <2> QED BY <1>3, <1>4, MulDivFloor
<1>6. MintXBonusRate = 0 => (d - fee) + bonus = d - fee
  <2>1. MintXBonusRate = 0 => bonus = 0
    BY FeeZero
  <2> HIDE DEF fee, bonus
  <2> QED BY <1>1, <1>2, <2>1
<1>7. nx # 0 => price = px
  OBVIOUS
<1> HIDE DEF fee, bonus, price, minted
<1> QED
  BY <1>1, <1>2, <1>5, <1>6, <1>7

\* redeem_f: the payout is worth at most the fTokens burned; a bonus is paid on
\* top of it and added to the reserve.
LEMMA RedeemFEffect ==
    ASSUME LeafTypeOK, NEW f \in Nat, NEW delegate \in BOOLEAN, RedeemFWith(f, delegate)
    PROVE  \E base, fee, bonus \in Nat :
              /\ f > 0 /\ f <= nf - pool_f
              /\ fee <= base /\ bonus <= base /\ base - bonus <= reserve_balance_sui
              /\ base * last_reserve_price <= f * PF_FIXED
              /\ bonus = RedeemFBonus(f)
              /\ ApplyRedemptionFlow(base - fee + bonus, delegate)
              /\ nf' = nf - f
              /\ reserve_balance_sui' = reserve_balance_sui - (base - bonus)
              /\ fees_collected_sui' = fees_collected_sui + fee
              /\ UNCHANGED <<nx, poolVars, adminVars, oracleVars, now>>
              /\ UpdatePx
<1> DEFINE base == RedeemFBase(f)
           fee == FeeAmount(base, RedeemFFeeRate)
           raw == FeeAmount(base, RedeemFBonusRate)
           bonus == RedeemFBonus(f)
<1>1. /\ f > 0 /\ f <= nf - pool_f
      /\ fee <= base /\ base - fee <= RedeemableReserve
      /\ bonus <= base /\ base - bonus <= reserve_balance_sui
      /\ ApplyRedemptionFlow(base - fee + bonus, delegate)
      /\ nf' = nf - f
      /\ reserve_balance_sui' = reserve_balance_sui - (base - bonus)
      /\ fees_collected_sui' = fees_collected_sui + fee
      /\ UNCHANGED <<nx, poolVars, adminVars, oracleVars, now>>
      /\ UpdatePx
  BY DEF RedeemFWith
<1>2. base \in Nat /\ base * last_reserve_price <= f * PF_FIXED
  <2>1. last_reserve_price \in Nat \ {0}
    BY DEF LeafTypeOK
  <2> QED BY <2>1, LeafConstants, MulDivFloor DEF RedeemFBase
<1>3. RedeemableReserve \in Nat
  <2>1. reserve_balance_sui + fees_collected_sui \in Nat /\ sp_obligation_r_amount \in Nat
    BY PoolConstants DEF LeafTypeOK, PoolTypeOK
  <2> QED BY <2>1, SafeSubNat DEF RedeemableReserve
<1>4. fee \in Nat /\ raw \in Nat
  <2> HIDE DEF base
  <2> QED BY <1>2, RatesNat, FeeNat
<1>5. bonus = IF base - fee + raw > RedeemableReserve
              THEN RedeemableReserve - (base - fee) ELSE raw
  BY DEF RedeemFBonus
<1>6. bonus = RedeemFBonus(f)
  OBVIOUS
<1> HIDE DEF base, fee, raw, bonus
<1>7. bonus \in Nat
  BY <1>1, <1>2, <1>3, <1>4, <1>5
<1> QED
  BY <1>1, <1>2, <1>4, <1>6, <1>7

\* redeem_x: the payout is worth at most the xTokens burned.
LEMMA RedeemXEffect ==
    ASSUME LeafTypeOK, NEW x \in Nat, NEW delegate \in BOOLEAN, RedeemXWith(x, delegate)
    PROVE  \E base, fee \in Nat :
              /\ x > 0 /\ x <= nx
              /\ fee <= base /\ base <= reserve_balance_sui
              /\ base * last_reserve_price <= x * px
              /\ ApplyRedemptionFlow(base - fee, delegate)
              /\ nx' = nx - x
              /\ reserve_balance_sui' = reserve_balance_sui - base
              /\ fees_collected_sui' = fees_collected_sui + fee
              /\ UNCHANGED <<nf, poolVars, adminVars, oracleVars, now>>
              /\ UpdatePx
<1> DEFINE base == MulDiv(x, px, last_reserve_price)
           fee == FeeAmount(base, RedeemXFeeRate)
<1>1. /\ x > 0 /\ x <= nx
      /\ fee <= base /\ base <= reserve_balance_sui
      /\ ApplyRedemptionFlow(base - fee, delegate)
      /\ nx' = nx - x
      /\ reserve_balance_sui' = reserve_balance_sui - base
      /\ fees_collected_sui' = fees_collected_sui + fee
      /\ UNCHANGED <<nf, poolVars, adminVars, oracleVars, now>>
      /\ UpdatePx
  BY DEF RedeemXWith
<1>2. base \in Nat /\ base * last_reserve_price <= x * px
  <2>1. last_reserve_price \in Nat \ {0} /\ px \in Nat
    BY DEF LeafTypeOK
  <2> QED BY <2>1, MulDivFloor
<1>3. fee \in Nat
  <2> HIDE DEF base
  <2> QED BY <1>2, RatesNat, FeeNat
<1> HIDE DEF base, fee
<1> QED
  BY <1>1, <1>2, <1>3

\* protocol_rebalance_l3_to_target: burns b fTokens out of the pool, at least
\* one and less than the pool holds, for a payout worth at most b.
LEMMA RebalanceEffect ==
    ASSUME LeafTypeOK, NEW t \in Nat \ {0}, ProtocolRebalanceL3(t)
    PROVE  \E b, y \in Nat :
              /\ b > 0 /\ b < pool_f /\ b <= nf
              /\ y * last_reserve_price <= b * PF_FIXED
              /\ SpControllerRebalance(b, y)
              /\ pool_f' = pool_f - b
              /\ nf' = nf - b
              /\ sp_obligation_r_amount' \in
                     {sp_obligation_r_amount, sp_obligation_r_amount + y}
              /\ UNCHANGED <<reserve_buffer_sui, reserve_balance_sui, fees_collected_sui,
                             nx, adminVars, oracleVars, tickets, now>>
              /\ UpdatePx
<1> DEFINE b == RebalanceBurn(t)
           y == RebalancePayout(b)
           cap == SpQuoteBurnCap
           target == NfTarget(t)
<1>1. /\ target < nf
      /\ b > EPS
      /\ SpControllerRebalance(b, y)
      /\ nf' = nf - AllowedBurn(b)
      /\ UNCHANGED <<reserve_buffer_sui, reserve_balance_sui, fees_collected_sui,
                     nx, adminVars, oracleVars, tickets, now>>
      /\ UpdatePx
  BY DEF ProtocolRebalanceL3
<1>2. /\ pool_f \in Nat /\ nf \in Nat /\ last_reserve_price \in Nat \ {0}
      /\ sp_obligation_r_amount \in Nat /\ reserve_balance_sui \in Nat
  BY PoolConstants DEF LeafTypeOK, PoolTypeOK
<1>3. target \in Nat
  <2>1. ReserveNetUsd \in Nat
    <3>1. SafeSub(reserve_balance_sui, sp_obligation_r_amount) \in Nat
      BY <1>2, SafeSubNat
    <3> QED BY <1>2, <3>1, NatProduct DEF ReserveNetUsd
  <2>2. MulDiv(ReserveNetUsd, SCALE_FACTOR, t) \in Nat
    BY <2>1, LeafConstants, MulDivFloor
  <2> QED BY <2>2, LeafConstants, MulDivFloor DEF NfTarget
<1>4. cap \in Nat /\ (pool_f > 0 => cap < pool_f)
  <2>1. SP_MAX_BURN_FRAC_CALL \in Nat /\ SP_MAX_BURN_FRAC_CALL < BPS
    BY PoolAssumption
  <2>2. cap \in Nat /\ cap * BPS <= pool_f * SP_MAX_BURN_FRAC_CALL
    BY <1>2, <2>1, LeafConstants, MulDivFloor DEF SpQuoteBurnCap
  <2>3. ASSUME pool_f > 0 PROVE cap < pool_f
    <3>1. pool_f * SP_MAX_BURN_FRAC_CALL < pool_f * BPS
      BY <1>2, <2>1, <2>3, LeafConstants, SMT
    <3>2. cap * BPS < pool_f * BPS
      <4>1. cap * BPS \in Nat /\ pool_f * SP_MAX_BURN_FRAC_CALL \in Nat /\ pool_f * BPS \in Nat
        BY <1>2, <2>1, <2>2, LeafConstants, NatProduct
      <4> QED BY <2>2, <3>1, <4>1
    <3> HIDE DEF cap
    <3> QED BY <1>2, <2>2, <3>2, LeafConstants, SMT
  <2> QED BY <2>2, <2>3
<1>5. b = IF nf - target > cap THEN cap ELSE nf - target
  BY DEF RebalanceBurn
<1>6. b \in Nat /\ b <= cap /\ b <= nf /\ b > 0
  <2> HIDE DEF b, cap, target
  <2> QED BY <1>1, <1>2, <1>3, <1>4, <1>5, LeafConstants
<1>7. y \in Nat /\ y * last_reserve_price <= b * PF_FIXED
  <2> HIDE DEF b
  <2> QED BY <1>2, <1>6, LeafConstants, MulDivFloor DEF RebalancePayout
<1>8. AllowedBurn(b) = b
  <2> HIDE DEF b
  <2> QED BY <1>4, <1>6 DEF AllowedBurn, cap
<1>9. AllowedPayout(b, y) = y
  <2> HIDE DEF b, y
  <2> QED BY <1>8 DEF AllowedPayout
<1>10. pool_f > 0 /\ pool_f' = pool_f - b
  <2> HIDE DEF b, y
  <2> QED BY <1>1, <1>8 DEF SpControllerRebalance
<1>11. sp_obligation_r_amount' \in {sp_obligation_r_amount, sp_obligation_r_amount + y}
  <2> HIDE DEF b, y
  <2> QED BY <1>1, <1>9 DEF SpControllerRebalance, Accrue
<1>12. b < pool_f
  <2> HIDE DEF b, cap
  <2> QED BY <1>2, <1>4, <1>6, <1>10
<1> HIDE DEF b, y
<1> QED
  BY <1>1, <1>6, <1>7, <1>8, <1>10, <1>11, <1>12

-----------------------------------------------------------------------------
(* The inductive invariant. *)

LeafInv ==
    /\ LeafTypeOK
    /\ PoolInv
    /\ pool_f <= nf
    /\ CustodyNeverAhead

\* What a step may do to the difference between the books and custody.
GapKept == Books' - reserve_buffer_sui' = Books - reserve_buffer_sui

GapBonus ==
    /\ nf' < nf /\ pool_f' = pool_f
    /\ RedeemFBonus(nf - nf') \in Nat
    /\ Books' - reserve_buffer_sui'
          = (Books - reserve_buffer_sui) + 2 * RedeemFBonus(nf - nf')

GapKeeper ==
    \E i \in Tickets :
        /\ Live(i) /\ ~Expired(i) /\ tickets[i].delegate /\ tickets'[i] = NoTicket
        /\ Books' - reserve_buffer_sui'
              = (Books - reserve_buffer_sui) + tickets[i].operation_fee

GapStep == GapKept \/ GapBonus \/ GapKeeper

\* The price update_px stores is a natural number.
LEMMA PxTyped ==
    ASSUME UpdatePx, reserve_balance_sui' \in Nat, last_reserve_price' \in Nat,
           nf' \in Nat, nx' \in Nat
    PROVE  px' \in Nat
  BY PxNat DEF UpdatePx

\* A step that leaves the pool alone keeps its invariant.
LEMMA PoolUntouched ==
    ASSUME PoolInv, UNCHANGED poolVars
    PROVE  PoolInv' /\ PoolTypeOK' /\ pool_f' = pool_f
<1>1. PoolInv'
  BY PoolStepInv
<1> QED
  BY <1>1 DEF PoolInv, poolVars

\* The books are a natural number.
LEMMA BooksNat ==
    ASSUME LeafTypeOK
    PROVE  /\ TicketTotal \in Nat /\ Books \in Nat
           /\ reserve_buffer_sui \in Nat /\ reserve_balance_sui \in Nat
           /\ fees_collected_sui \in Nat /\ nf \in Nat /\ nx \in Nat /\ px \in Nat
           /\ last_reserve_price \in Nat \ {0} /\ pool_f \in Nat
           /\ sp_obligation_r_amount \in Nat
<1>1. /\ TicketTotal \in Nat
      /\ reserve_buffer_sui \in Nat /\ reserve_balance_sui \in Nat
      /\ fees_collected_sui \in Nat /\ nf \in Nat /\ nx \in Nat /\ px \in Nat
      /\ last_reserve_price \in Nat \ {0} /\ pool_f \in Nat
      /\ sp_obligation_r_amount \in Nat
  BY TicketTotalNat, PoolConstants DEF LeafTypeOK, PoolTypeOK
<1> QED
  BY <1>1 DEF Books

\* Minting raises custody and books by the deposit.
LEMMA MintKeeps ==
    ASSUME LeafInv, NEW d \in Nat, MintF(d) \/ MintX(d)
    PROVE  LeafTypeOK' /\ PoolInv' /\ pool_f' <= nf' /\ GapKept
<1>0. LeafTypeOK /\ PoolInv /\ pool_f <= nf
  BY DEF LeafInv
<1>1. PICK fee, mf, mx \in Nat :
          /\ fee <= d
          /\ reserve_buffer_sui' = reserve_buffer_sui + d
          /\ fees_collected_sui' = fees_collected_sui + fee
          /\ reserve_balance_sui' = reserve_balance_sui + (d - fee)
          /\ nf' = nf + mf
          /\ nx' = nx + mx
          /\ UNCHANGED <<poolVars, adminVars, oracleVars, tickets, now>>
          /\ UpdatePx
  <2>1. nf \in Nat /\ nx \in Nat /\ nf + 0 = nf /\ nx + 0 = nx /\ 0 \in Nat
    BY <1>0, BooksNat
  <2>2. CASE MintF(d)
    BY <1>0, <2>1, <2>2, MintFEffect
  <2>3. CASE MintX(d)
    BY <1>0, <2>1, <2>3, MintXEffect
  <2> QED BY <2>2, <2>3
<1>2. PoolInv' /\ PoolTypeOK' /\ pool_f' = pool_f
  BY <1>0, <1>1, PoolUntouched
<1>3. /\ TicketTotal \in Nat /\ TicketTotal' = TicketTotal
      /\ reserve_buffer_sui \in Nat /\ reserve_balance_sui \in Nat
      /\ fees_collected_sui \in Nat /\ nf \in Nat /\ nx \in Nat
      /\ last_reserve_price \in Nat \ {0} /\ pool_f \in Nat
  BY <1>0, <1>1, BooksNat, TicketTotalKept
<1>4. /\ reserve_buffer_sui' \in Nat /\ reserve_balance_sui' \in Nat
      /\ fees_collected_sui' \in Nat /\ nf' \in Nat /\ nx' \in Nat
      /\ last_reserve_price' = last_reserve_price
  BY <1>1, <1>3 DEF oracleVars
<1>5. px' \in Nat
  BY <1>1, <1>3, <1>4, PxTyped
<1>6. LeafTypeOK'
  BY <1>0, <1>1, <1>2, <1>4, <1>5 DEF LeafTypeOK, adminVars, oracleVars
<1>7. GapKept
  BY <1>1, <1>3 DEF GapKept, Books
<1>8. pool_f' <= nf'
  BY <1>0, <1>1, <1>2, <1>3
<1> QED
  BY <1>2, <1>6, <1>7, <1>8

\* apply_redemption_flow, in terms of the new custody b and ticket total t.
LEMMA FlowGap ==
    ASSUME LeafTypeOK, NEW needed \in Nat, NEW delegate \in BOOLEAN,
           ApplyRedemptionFlow(needed, delegate)
    PROVE  \E b, t \in Nat : /\ reserve_buffer_sui' = b /\ TicketTotal' = t
                             /\ b - t = (reserve_buffer_sui - TicketTotal) - needed
  BY FlowEffect, Zenon

\* The gap after a redemption that takes `taken` off the reserve and pays or
\* promises `paid`.
LEMMA GapOfFlow ==
    ASSUME NEW paid \in Nat, NEW taken \in Nat, NEW fee \in Nat,
           reserve_balance_sui \in Nat, fees_collected_sui \in Nat,
           reserve_buffer_sui \in Nat, TicketTotal \in Nat,
           NEW b \in Nat, NEW t \in Nat,
           reserve_balance_sui' = reserve_balance_sui - taken,
           fees_collected_sui' = fees_collected_sui + fee,
           reserve_buffer_sui' = b, TicketTotal' = t,
           b - t = (reserve_buffer_sui - TicketTotal) - paid
    PROVE  Books' - reserve_buffer_sui'
               = (Books - reserve_buffer_sui) + (paid - taken + fee)
  BY DEF Books

\* A redemption moves what it pays out of the reserve, except for a bonus,
\* which stays on the books twice: paid out and not taken off.
LEMMA RedeemFKeeps ==
    ASSUME LeafInv, NEW f \in Nat, NEW delegate \in BOOLEAN, RedeemFWith(f, delegate)
    PROVE  LeafTypeOK' /\ PoolInv' /\ pool_f' <= nf' /\ GapBonus
<1>0. LeafTypeOK /\ PoolInv /\ pool_f <= nf
  BY DEF LeafInv
<1>1. PICK base, fee, bonus \in Nat :
          /\ f > 0 /\ f <= nf - pool_f
          /\ fee <= base /\ bonus <= base /\ base - bonus <= reserve_balance_sui
          /\ bonus = RedeemFBonus(f)
          /\ ApplyRedemptionFlow(base - fee + bonus, delegate)
          /\ nf' = nf - f
          /\ reserve_balance_sui' = reserve_balance_sui - (base - bonus)
          /\ fees_collected_sui' = fees_collected_sui + fee
          /\ UNCHANGED <<nx, poolVars, adminVars, oracleVars, now>>
          /\ UpdatePx
  BY <1>0, RedeemFEffect
<1>2. PoolInv' /\ PoolTypeOK' /\ pool_f' = pool_f
  BY <1>0, <1>1, PoolUntouched
<1>3. /\ reserve_buffer_sui \in Nat /\ reserve_balance_sui \in Nat
      /\ fees_collected_sui \in Nat /\ nf \in Nat /\ nx \in Nat
      /\ last_reserve_price \in Nat \ {0} /\ pool_f \in Nat
  BY <1>0, BooksNat
<1>4. base - fee + bonus \in Nat
  BY <1>1
<1>5. /\ reserve_buffer_sui' \in Nat
      /\ tickets' \in [Tickets -> TicketType]
      /\ TicketTotal \in Nat
  BY <1>0, <1>1, <1>4, FlowEffect
<1>6. /\ reserve_balance_sui' \in Nat /\ fees_collected_sui' \in Nat
      /\ nf' \in Nat /\ nx' \in Nat /\ last_reserve_price' = last_reserve_price
  BY <1>1, <1>3 DEF oracleVars
<1>7. px' \in Nat
  BY <1>1, <1>3, <1>6, PxTyped
<1>8. LeafTypeOK'
  BY <1>0, <1>1, <1>2, <1>5, <1>6, <1>7 DEF LeafTypeOK, adminVars, oracleVars
<1>9. Books' - reserve_buffer_sui' = (Books - reserve_buffer_sui) + 2 * bonus
  <2>1. PICK b, t \in Nat :
            /\ reserve_buffer_sui' = b /\ TicketTotal' = t
            /\ b - t = (reserve_buffer_sui - TicketTotal) - (base - fee + bonus)
    BY <1>0, <1>1, <1>4, FlowGap
  <2>2. base - bonus \in Nat
        /\ (base - fee + bonus) - (base - bonus) + fee = 2 * bonus
    BY <1>1
  <2>3. Books' - reserve_buffer_sui'
            = (Books - reserve_buffer_sui) + ((base - fee + bonus) - (base - bonus) + fee)
    <3>1. /\ reserve_balance_sui' = reserve_balance_sui - (base - bonus)
          /\ fees_collected_sui' = fees_collected_sui + fee
      BY <1>1
    <3> QED BY ONLY <1>3, <1>4, <1>5, <2>1, <2>2, <3>1, GapOfFlow
  <2> QED BY ONLY <2>2, <2>3
<1>10. nf' < nf /\ nf - nf' = f
  BY <1>1, <1>3
<1>11. GapBonus
  <2>1. RedeemFBonus(nf - nf') = bonus
    BY <1>1, <1>10, Zenon
  <2> QED BY <1>2, <1>9, <1>10, <2>1 DEF GapBonus
<1>12. pool_f' <= nf'
  BY <1>1, <1>2, <1>3
<1> QED
  BY <1>2, <1>8, <1>11, <1>12

\* redeem_x takes off the books exactly what it pays or promises.
LEMMA RedeemXKeeps ==
    ASSUME LeafInv, NEW x \in Nat, NEW delegate \in BOOLEAN, RedeemXWith(x, delegate)
    PROVE  LeafTypeOK' /\ PoolInv' /\ pool_f' <= nf' /\ GapKept
<1>0. LeafTypeOK /\ PoolInv /\ pool_f <= nf
  BY DEF LeafInv
<1>1. PICK base, fee \in Nat :
          /\ x > 0 /\ x <= nx
          /\ fee <= base /\ base <= reserve_balance_sui
          /\ ApplyRedemptionFlow(base - fee, delegate)
          /\ nx' = nx - x
          /\ reserve_balance_sui' = reserve_balance_sui - base
          /\ fees_collected_sui' = fees_collected_sui + fee
          /\ UNCHANGED <<nf, poolVars, adminVars, oracleVars, now>>
          /\ UpdatePx
  BY <1>0, RedeemXEffect
<1>2. PoolInv' /\ PoolTypeOK' /\ pool_f' = pool_f
  BY <1>0, <1>1, PoolUntouched
<1>3. /\ reserve_buffer_sui \in Nat /\ reserve_balance_sui \in Nat
      /\ fees_collected_sui \in Nat /\ nf \in Nat /\ nx \in Nat
      /\ last_reserve_price \in Nat \ {0} /\ pool_f \in Nat
  BY <1>0, BooksNat
<1>4. base - fee \in Nat
  BY <1>1
<1>5. /\ reserve_buffer_sui' \in Nat
      /\ tickets' \in [Tickets -> TicketType]
      /\ TicketTotal \in Nat
  BY <1>0, <1>1, <1>4, FlowEffect
<1>6. /\ reserve_balance_sui' \in Nat /\ fees_collected_sui' \in Nat
      /\ nf' \in Nat /\ nx' \in Nat /\ last_reserve_price' = last_reserve_price
  BY <1>1, <1>3 DEF oracleVars
<1>7. px' \in Nat
  BY <1>1, <1>3, <1>6, PxTyped
<1>8. LeafTypeOK'
  BY <1>0, <1>1, <1>2, <1>5, <1>6, <1>7 DEF LeafTypeOK, adminVars, oracleVars
<1>9. Books' - reserve_buffer_sui' = Books - reserve_buffer_sui
  <2>1. PICK b, t \in Nat :
            /\ reserve_buffer_sui' = b /\ TicketTotal' = t
            /\ b - t = (reserve_buffer_sui - TicketTotal) - (base - fee)
    BY <1>0, <1>1, <1>4, FlowGap
  <2>2. Books' - reserve_buffer_sui'
            = (Books - reserve_buffer_sui) + ((base - fee) - base + fee)
    BY <1>1, <1>3, <1>4, <1>5, <2>1, GapOfFlow
  <2>3. Books - reserve_buffer_sui \in Int
    BY <1>0, <1>3, BooksNat
  <2>4. (Books - reserve_buffer_sui) + ((base - fee) - base + fee) = Books - reserve_buffer_sui
    BY <2>3
  <2> QED BY <2>2, <2>4
<1>10. pool_f' <= nf' /\ GapKept
  BY <1>0, <1>1, <1>2, <1>9 DEF GapKept
<1> QED
  BY <1>2, <1>8, <1>10

\* Tickets are paid out of custody, by their holder or by a keeper who also
\* takes the operation fee, or return to the reserve.
LEMMA TicketKeeps ==
    ASSUME LeafInv, NEW i \in Tickets,
           ClaimRedemption(i) \/ KeeperExecuteRedemption(i) \/ ReclaimExpiredTicket(i)
    PROVE  LeafTypeOK' /\ PoolInv' /\ pool_f' <= nf' /\ GapStep
<1>0. LeafTypeOK /\ PoolInv /\ pool_f <= nf
  BY DEF LeafInv
<1>1. /\ tickets' = [tickets EXCEPT ![i] = NoTicket]
      /\ UNCHANGED <<fees_collected_sui, nf, nx, px, poolVars, adminVars, oracleVars, now>>
  BY DEF ClaimRedemption, KeeperExecuteRedemption, ReclaimExpiredTicket
<1>2. PoolInv' /\ PoolTypeOK' /\ pool_f' = pool_f
  BY <1>0, <1>1, PoolUntouched
<1>3. /\ reserve_buffer_sui \in Nat /\ reserve_balance_sui \in Nat
      /\ fees_collected_sui \in Nat /\ TicketTotal \in Nat /\ Books \in Nat
  BY <1>0, BooksNat
<1>4. tickets \in [Tickets -> TicketType]
  BY <1>0 DEF LeafTypeOK
<1>5. /\ tickets' \in [Tickets -> TicketType]
      /\ TicketTotal' = TicketTotal - tickets[i].amount + NoTicket.amount
      /\ tickets'[i] = NoTicket
  BY <1>1, <1>4, LeafConstants, TicketWritten
<1>6. tickets[i].amount \in Nat /\ tickets[i].amount <= TicketTotal
  BY <1>4, TicketTotalNat
<1>7. tickets[i].operation_fee \in Nat
  BY <1>4 DEF TicketType
<1>8. TicketTotal' = TicketTotal - tickets[i].amount
  BY <1>3, <1>5, <1>6, LeafConstants
<1>9. CASE ClaimRedemption(i)
  <2>1. /\ tickets[i].amount <= reserve_buffer_sui
        /\ reserve_buffer_sui' = reserve_buffer_sui - tickets[i].amount
        /\ reserve_balance_sui' = reserve_balance_sui
    BY <1>9 DEF ClaimRedemption
  <2>2. reserve_buffer_sui' \in Nat /\ reserve_balance_sui' \in Nat
    BY <1>3, <1>6, <2>1
  <2>3. GapKept
    BY <1>1, <1>3, <1>6, <1>8, <2>1 DEF GapKept, Books
  <2>4. LeafTypeOK'
    BY <1>0, <1>1, <1>2, <1>5, <2>2 DEF LeafTypeOK, adminVars, oracleVars
  <2> QED BY <1>0, <1>1, <1>2, <2>3, <2>4 DEF GapStep
<1>10. CASE KeeperExecuteRedemption(i)
  <2>1. /\ tickets[i].amount + tickets[i].operation_fee <= reserve_buffer_sui
        /\ reserve_buffer_sui' =
               reserve_buffer_sui - (tickets[i].amount + tickets[i].operation_fee)
        /\ reserve_balance_sui' = reserve_balance_sui
        /\ Live(i) /\ ~Expired(i) /\ tickets[i].delegate
    BY <1>10 DEF KeeperExecuteRedemption
  <2>2. reserve_buffer_sui' \in Nat /\ reserve_balance_sui' \in Nat
    BY <1>3, <1>6, <1>7, <2>1
  <2>3. Books' - reserve_buffer_sui'
            = (Books - reserve_buffer_sui) + tickets[i].operation_fee
    BY <1>1, <1>3, <1>6, <1>7, <1>8, <2>1 DEF Books
  <2>4. LeafTypeOK'
    BY <1>0, <1>1, <1>2, <1>5, <2>2 DEF LeafTypeOK, adminVars, oracleVars
  <2> QED BY <1>0, <1>1, <1>2, <1>5, <2>1, <2>3, <2>4 DEF GapStep, GapKeeper
<1>11. CASE ReclaimExpiredTicket(i)
  <2>1. /\ reserve_balance_sui' = reserve_balance_sui + tickets[i].amount
        /\ reserve_buffer_sui' = reserve_buffer_sui
    BY <1>11 DEF ReclaimExpiredTicket
  <2>2. reserve_buffer_sui' \in Nat /\ reserve_balance_sui' \in Nat
    BY <1>3, <1>6, <2>1
  <2>3. GapKept
    BY <1>1, <1>3, <1>6, <1>8, <2>1 DEF GapKept, Books
  <2>4. LeafTypeOK'
    BY <1>0, <1>1, <1>2, <1>5, <2>2 DEF LeafTypeOK, adminVars, oracleVars
  <2> QED BY <1>0, <1>1, <1>2, <2>3, <2>4 DEF GapStep
<1> QED
  BY <1>9, <1>10, <1>11

\* A step that leaves the books and the tickets alone keeps the gap.
LEMMA GapUntouched ==
    ASSUME UNCHANGED <<reserve_buffer_sui, reserve_balance_sui, fees_collected_sui, tickets>>
    PROVE  GapKept
  BY TicketTotalKept DEF GapKept, Books

\* Holders move fTokens in and out of the pool, never more than exist.
LEMMA HolderKeeps ==
    ASSUME LeafInv, NEW u \in Positions, NEW f \in Nat,
           HolderDeposits(u, f) \/ HolderWithdraws(u, f)
    PROVE  LeafTypeOK' /\ PoolInv' /\ pool_f' <= nf' /\ GapKept
<1>0. LeafTypeOK /\ PoolInv /\ pool_f <= nf /\ nf \in Nat /\ pool_f \in Nat
  BY BooksNat DEF LeafInv
<1>1. UNCHANGED <<bookVars, adminVars, oracleVars, tickets, now>>
  BY DEF HolderDeposits, HolderWithdraws
<1>2. PoolInv'
  BY <1>0, DepositInv, WithdrawInv DEF HolderDeposits, HolderWithdraws
<1>3. LeafTypeOK'
  BY <1>0, <1>1, <1>2 DEF LeafTypeOK, PoolInv, bookVars, adminVars, oracleVars
<1>4. GapKept
  BY <1>1, GapUntouched DEF bookVars
<1>5. nf' = nf
  BY <1>1 DEF bookVars
<1>6. pool_f' <= nf
  <2>1. CASE HolderDeposits(u, f)
    BY <1>0, <2>1 DEF HolderDeposits, DepositF
  <2>2. CASE HolderWithdraws(u, f)
    BY <1>0, <2>2 DEF HolderWithdraws, WithdrawF
  <2> QED BY <2>1, <2>2
<1> QED
  BY <1>2, <1>3, <1>4, <1>5, <1>6

\* A pool claim leaves custody and the reserve together.
LEMMA ClaimSpKeeps ==
    ASSUME LeafInv, NEW u \in Positions, ClaimSpRewards(u)
    PROVE  LeafTypeOK' /\ PoolInv' /\ pool_f' <= nf' /\ GapKept
<1> DEFINE owed == CalculatePendingRewards(u)
<1>0. LeafTypeOK /\ PoolInv /\ pool_f <= nf
  BY DEF LeafInv
<1>1. /\ owed <= reserve_buffer_sui /\ owed <= reserve_balance_sui
      /\ ClaimRewards(u)
      /\ reserve_buffer_sui' = reserve_buffer_sui - owed
      /\ reserve_balance_sui' = reserve_balance_sui - owed
      /\ UNCHANGED <<fees_collected_sui, nf, nx, px, adminVars, oracleVars, tickets, now>>
  BY DEF ClaimSpRewards
<1>2. PoolInv' /\ pool_f' = pool_f
  BY <1>0, <1>1, ClaimInv DEF ClaimRewards
<1>3. owed \in Nat
  <2>1. /\ sp_scaled[u] \in Nat /\ sp_index_r_scaled - sp_index_snap[u] \in Nat
    BY <1>0, PoolConstants DEF PoolInv, PoolTypeOK
  <2>2. MulDiv(sp_scaled[u], sp_index_r_scaled - sp_index_snap[u], REWARD_SCALE) \in Nat
    BY <2>1, PoolConstants, MulDivFloor
  <2> QED BY <2>2 DEF CalculatePendingRewards
<1> HIDE DEF owed
<1>4. /\ reserve_buffer_sui \in Nat /\ reserve_balance_sui \in Nat
      /\ fees_collected_sui \in Nat /\ TicketTotal \in Nat /\ TicketTotal' = TicketTotal
  BY <1>0, <1>1, BooksNat, TicketTotalKept
<1>5. reserve_buffer_sui' \in Nat /\ reserve_balance_sui' \in Nat
  BY <1>1, <1>3, <1>4
<1>6. LeafTypeOK'
  BY <1>0, <1>1, <1>2, <1>5 DEF LeafTypeOK, PoolInv, adminVars, oracleVars
<1>7. GapKept
  BY <1>1, <1>3, <1>4 DEF GapKept, Books
<1> QED
  BY <1>0, <1>1, <1>2, <1>6, <1>7

\* A rebalance burns as many fTokens as the pool gives up.
LEMMA RebalanceKeeps ==
    ASSUME LeafInv, NEW t \in Nat \ {0}, ProtocolRebalanceL3(t)
    PROVE  LeafTypeOK' /\ PoolInv' /\ pool_f' <= nf' /\ GapKept
<1>0. LeafTypeOK /\ PoolInv /\ pool_f <= nf
  BY DEF LeafInv
<1>1. PICK b, y \in Nat :
          /\ b <= nf
          /\ SpControllerRebalance(b, y)
          /\ pool_f' = pool_f - b
          /\ nf' = nf - b
          /\ UNCHANGED <<reserve_buffer_sui, reserve_balance_sui, fees_collected_sui,
                         nx, adminVars, oracleVars, tickets, now>>
          /\ UpdatePx
  BY <1>0, RebalanceEffect
<1>2. PoolInv'
  BY <1>0, <1>1, RebalanceInv
<1>3. /\ nf \in Nat /\ nx \in Nat /\ pool_f \in Nat /\ reserve_balance_sui \in Nat
      /\ last_reserve_price \in Nat
  BY <1>0, BooksNat
<1>4. /\ nf' \in Nat /\ pool_f' <= nf' /\ reserve_balance_sui' \in Nat /\ nx' \in Nat
      /\ last_reserve_price' \in Nat
  BY <1>0, <1>1, <1>3 DEF oracleVars
<1>5. px' \in Nat
  BY <1>1, <1>4, PxTyped
<1>6. LeafTypeOK'
  BY <1>0, <1>1, <1>2, <1>4, <1>5 DEF LeafTypeOK, PoolInv, adminVars, oracleVars
<1>7. GapKept
  BY <1>1, GapUntouched
<1> QED
  BY <1>2, <1>4, <1>6, <1>7

\* An oracle update changes the two prices and nothing else.
LEMMA OracleKeeps ==
    ASSUME LeafInv, NEW new \in Nat \ {0}, UpdateFromOracle(new)
    PROVE  LeafTypeOK' /\ PoolInv' /\ pool_f' <= nf' /\ GapKept
<1>0. LeafTypeOK /\ PoolInv /\ pool_f <= nf
  BY DEF LeafInv
<1>1. /\ last_reserve_price' = new /\ last_oracle_ts' = now
      /\ UNCHANGED <<poolVars, adminVars, reserve_buffer_sui, reserve_balance_sui,
                     fees_collected_sui, nf, nx, tickets, now>>
      /\ UpdatePx
  BY DEF UpdateFromOracle
<1>2. PoolInv' /\ PoolTypeOK' /\ pool_f' = pool_f
  BY <1>0, <1>1, PoolUntouched
<1>3. /\ nf' \in Nat /\ nx' \in Nat /\ reserve_balance_sui' \in Nat
      /\ last_reserve_price' \in Nat
  BY <1>0, <1>1, BooksNat
<1>4. px' \in Nat
  BY <1>1, <1>3, PxTyped
<1>5. LeafTypeOK'
  BY <1>0, <1>1, <1>2, <1>4 DEF LeafTypeOK, adminVars
<1>6. GapKept
  BY <1>1, GapUntouched
<1> QED
  BY <1>0, <1>1, <1>2, <1>5, <1>6

\* The admin's settings and the clock.
LEMMA SettingsKeep ==
    ASSUME LeafInv,
           \/ \E a \in UserActionSettings : SetUserActionsAllowed(a)
           \/ \E c \in FeeConfigs : SetFeeConfig(c)
           \/ \E n \in OperationFees : SetDelegateOperationFee(n)
           \/ \E n \in Expirations : SetTicketExpiration(n)
           \/ Tick
           \/ UNCHANGED vars
    PROVE  LeafTypeOK' /\ PoolInv' /\ pool_f' <= nf' /\ GapKept
<1>0. LeafTypeOK /\ PoolInv /\ pool_f <= nf
  BY DEF LeafInv
<1>1. UNCHANGED <<poolVars, bookVars, oracleVars, tickets>>
  BY DEF SetUserActionsAllowed, SetFeeConfig, SetDelegateOperationFee,
         SetTicketExpiration, Tick, vars
<1>2. PoolInv' /\ PoolTypeOK' /\ pool_f' = pool_f
  BY <1>0, <1>1, PoolUntouched
<1>3. /\ allow_user_actions' \in BOOLEAN /\ fee_config' \in FeeConfigType
      /\ delegate_redeem_operation_fee' \in Nat /\ ticket_expiration_ms' \in Nat
      /\ now' \in Nat
  BY <1>0, LeafsiiAssumption
     DEF LeafTypeOK, SetUserActionsAllowed, SetFeeConfig, SetDelegateOperationFee,
         SetTicketExpiration, Tick, vars, adminVars
<1>4. LeafTypeOK'
  BY <1>0, <1>1, <1>2, <1>3 DEF LeafTypeOK, bookVars, oracleVars
<1>5. GapKept
  BY <1>1, GapUntouched DEF bookVars
<1> QED
  BY <1>0, <1>1, <1>2, <1>4, <1>5 DEF bookVars

\* The same for the books after a step.
LEMMA BooksTyped ==
    ASSUME LeafTypeOK'
    PROVE  Books' \in Nat /\ reserve_buffer_sui' \in Nat
<1>1. /\ tickets' \in [Tickets -> TicketType] /\ reserve_buffer_sui' \in Nat
      /\ reserve_balance_sui' \in Nat /\ fees_collected_sui' \in Nat
  BY DEF LeafTypeOK
<1> DEFINE g == [i \in Tickets |-> tickets'[i].amount]
<1>2. g \in [Tickets -> Nat]
  BY <1>1 DEF TicketType
<1>3. TicketTotal' = SumFunction(g)
  BY DEF TicketTotal, TicketAmounts
<1> HIDE DEF g
<1>4. PICK r, f, t \in Nat :
          reserve_balance_sui' = r /\ fees_collected_sui' = f /\ TicketTotal' = t
  BY <1>1, <1>2, <1>3, LeafConstants, SumFunctionNat
<1>5. Books' = r + f + t
  BY <1>4 DEF Books
<1> QED
  BY <1>1, <1>5

\* init_protocol establishes the invariant.
LEMMA LeafInitInv == Init => LeafInv
<1> SUFFICES ASSUME Init PROVE LeafInv
  OBVIOUS
<1> DEFINE usd == InitialReserve * InitialPrice
           half == usd \div 2
<1>1. PoolInv /\ PoolTypeOK /\ pool_f = 0
  BY PoolInitInv DEF Init, PoolInit, PoolInv
<1>2. usd \in Nat
  BY LeafConstants, NatProduct
<1>3. half \in Nat /\ usd - half \in Nat
  <2> HIDE DEF usd
  <2> QED BY <1>2, SMT
<1>4. nf \in Nat /\ nx \in Nat
  <2>1. nf = half \div PF_FIXED /\ nx = (usd - half) \div InitialPrice
    BY DEF Init
  <2> DEFINE rest == usd - half
  <2>2. half \div PF_FIXED \in Nat /\ rest \div InitialPrice \in Nat
    <3>1. rest \in Nat
      BY <1>3
    <3> HIDE DEF half, usd, rest
    <3> QED BY <1>3, <3>1, LeafConstants, SMT
  <2> QED BY <2>1, <2>2
<1>5. px \in Nat
  BY <1>4, LeafConstants, PxNat DEF Init
<1>6. tickets \in [Tickets -> TicketType]
  BY LeafConstants DEF Init
<1>7. LeafTypeOK
  BY <1>1, <1>4, <1>5, <1>6, LeafsiiAssumption DEF LeafTypeOK, Init
<1>8. TicketTotal = 0
  <2>1. TicketAmounts \in [Tickets -> Nat] /\ \A i \in Tickets : TicketAmounts[i] = 0
    BY <1>6, TicketTotalNat, LeafConstants DEF TicketAmounts, Init
  <2> QED BY <2>1, LeafConstants, SumFunctionZero DEF TicketTotal
<1>9. CustodyNeverAhead
  BY <1>8, LeafConstants DEF CustodyNeverAhead, Books, Init
<1> QED
  BY <1>1, <1>4, <1>7, <1>9 DEF LeafInv

\* Every step of the protocol keeps the books, and moves the gap as stated.
LEMMA LeafStep ==
    ASSUME LeafInv, [Next]_vars
    PROVE  LeafInv' /\ GapStep
<1>1. LeafTypeOK' /\ PoolInv' /\ pool_f' <= nf' /\ GapStep
  <2>1. CASE \E d \in Deposits : MintF(d) \/ MintX(d)
    BY <2>1, MintKeeps, LeafsiiAssumption DEF GapStep
  <2>2. CASE \E f \in Redeems : RedeemF(f) \/ RedeemFDelegate(f)
    <3>1. PICK f \in Nat, delegate \in BOOLEAN : RedeemFWith(f, delegate)
      BY <2>2, LeafsiiAssumption DEF RedeemF, RedeemFDelegate
    <3> QED BY <3>1, RedeemFKeeps DEF GapStep
  <2>3. CASE \E x \in Redeems : RedeemX(x) \/ RedeemXDelegate(x)
    <3>1. PICK x \in Nat, delegate \in BOOLEAN : RedeemXWith(x, delegate)
      BY <2>3, LeafsiiAssumption DEF RedeemX, RedeemXDelegate
    <3> QED BY <3>1, RedeemXKeeps DEF GapStep
  <2>4. CASE \E i \in Tickets : \/ ClaimRedemption(i) \/ KeeperExecuteRedemption(i)
                                \/ ReclaimExpiredTicket(i)
    BY <2>4, TicketKeeps
  <2>5. CASE \E u \in Positions, f \in FAmounts : HolderDeposits(u, f) \/ HolderWithdraws(u, f)
    BY <2>5, HolderKeeps, PoolAssumption DEF GapStep
  <2>6. CASE \E u \in Positions : ClaimSpRewards(u)
    BY <2>6, ClaimSpKeeps DEF GapStep
  <2>7. CASE \E p \in Prices : UpdateFromOracle(p)
    BY <2>7, OracleKeeps, LeafsiiAssumption DEF GapStep
  <2>8. CASE \E t \in TargetCRs : ProtocolRebalanceL3(t)
    BY <2>8, RebalanceKeeps, LeafsiiAssumption DEF GapStep
  <2>9. CASE \/ \E a \in UserActionSettings : SetUserActionsAllowed(a)
             \/ \E c \in FeeConfigs : SetFeeConfig(c)
             \/ \E n \in OperationFees : SetDelegateOperationFee(n)
             \/ \E n \in Expirations : SetTicketExpiration(n)
             \/ Tick
             \/ UNCHANGED vars
    BY <2>9, SettingsKeep DEF GapStep
  <2> QED
    BY <2>1, <2>2, <2>3, <2>4, <2>5, <2>6, <2>7, <2>8, <2>9 DEF Next, UserNext, AdminNext
<1>2. CustodyNeverAhead'
  <2>1. PICK c, d, g, h \in Nat :
            c = Books' /\ d = reserve_buffer_sui' /\ g = Books /\ h = reserve_buffer_sui
    <3>1. Books \in Nat /\ reserve_buffer_sui \in Nat
      BY BooksNat DEF LeafInv
    <3>2. Books' \in Nat /\ reserve_buffer_sui' \in Nat
      BY <1>1, BooksTyped
    <3> QED BY <3>1, <3>2
  <2>2. h <= g
    BY <2>1 DEF LeafInv, CustodyNeverAhead
  <2>3. c - d = g - h \/ (\E n \in Nat : c - d = (g - h) + 2 * n) \/ \E n \in Nat : c - d = (g - h) + n
    <3>1. \A i \in Tickets : tickets[i].operation_fee \in Nat
      BY DEF LeafInv, LeafTypeOK, TicketType
    <3> QED BY <1>1, <2>1, <3>1 DEF GapStep, GapKept, GapBonus, GapKeeper
  <2>4. d <= c
    BY ONLY <2>2, <2>3
  <2> QED BY <2>1, <2>4 DEF CustodyNeverAhead
<1> QED
  BY <1>1, <1>2 DEF LeafInv

\* The invariant is inductive.
LEMMA LeafStepInv == LeafInv /\ [Next]_vars => LeafInv'
  BY LeafStep

-----------------------------------------------------------------------------
(* Safety. *)

(***************************************************************************)
(* Every field of the protocol object keeps its type: no unsigned          *)
(* subtraction of the code that a guard protects goes below zero.          *)
(***************************************************************************)
THEOREM LeafTypeCorrect == Spec => []LeafTypeOK
<1>1. LeafInv => LeafTypeOK
  BY DEF LeafInv
<1> QED
  BY <1>1, LeafInitInv, LeafStepInv, PTL DEF Spec

(***************************************************************************)
(* Custody never holds SUI that the books do not account for, for every    *)
(* sequence of mints, redemptions, tickets, claims and rebalances.         *)
(***************************************************************************)
THEOREM LeafCustodyNeverAhead == Spec => []CustodyNeverAhead
<1>1. LeafInv => CustodyNeverAhead
  BY DEF LeafInv
<1> QED
  BY <1>1, LeafInitInv, LeafStepInv, PTL DEF Spec

(***************************************************************************)
(* What the pool promises on its own it also keeps when the protocol       *)
(* drives it: the payouts the rebalance computes and the claims the        *)
(* protocol pays leave every depositor's rewards covered by the            *)
(* obligation, and the pool never holds more fTokens than exist.           *)
(***************************************************************************)
THEOREM LeafPoolCovered == Spec => [](RewardsCovered /\ SharesAccounted /\ pool_f <= nf)
<1>1. LeafInv => RewardsCovered /\ SharesAccounted /\ pool_f <= nf
  BY PoolInvCovers DEF LeafInv, PoolInv
<1> QED
  BY <1>1, LeafInitInv, LeafStepInv, PTL DEF Spec

\* A ratio of at least one means that the reserve net of the obligation is
\* worth at least the fTokens.
LEMMA SolventMeans ==
    ASSUME LeafTypeOK, CollateralRatio >= SCALE_FACTOR, nf * PF_FIXED > EPS
    PROVE  /\ ReserveNetUsd \in Nat /\ nf * PF_FIXED \in Nat \ {0}
           /\ nf * PF_FIXED <= ReserveNetUsd
           /\ CollateralRatio = MulDiv(ReserveNetUsd, SCALE_FACTOR, nf * PF_FIXED)
<1> DEFINE B == nf * PF_FIXED
           A == ReserveNetUsd
           q == MulDiv(A, SCALE_FACTOR, B)
<1>1. /\ nf \in Nat /\ reserve_balance_sui \in Nat /\ sp_obligation_r_amount \in Nat
      /\ last_reserve_price \in Nat
  BY BooksNat
<1>2. B \in Nat \ {0}
  <2>1. B \in Nat
    BY <1>1, LeafConstants, NatProduct
  <2> QED BY <2>1, LeafConstants
<1>3. A \in Nat
  <2>1. SafeSub(reserve_balance_sui, sp_obligation_r_amount) \in Nat
    BY <1>1, SafeSubNat
  <2> QED BY <1>1, <2>1, NatProduct DEF ReserveNetUsd
<1>4. ~(B <= EPS)
  BY <1>2, LeafConstants
<1>5. CollateralRatio = q
  BY <1>4 DEF CollateralRatio
<1>6. q \in Nat /\ q * B <= A * SCALE_FACTOR /\ q >= SCALE_FACTOR
  <2> HIDE DEF A, B
  <2> QED BY <1>2, <1>3, <1>5, LeafConstants, MulDivFloor
<1>7. B <= A
  <2> HIDE DEF A, B, q
  <2>1. SCALE_FACTOR * B <= q * B
    BY <1>2, <1>6, LeafConstants, SMT
  <2>2. SCALE_FACTOR * B \in Nat /\ q * B \in Nat /\ A * SCALE_FACTOR \in Nat
    BY <1>2, <1>3, <1>6, LeafConstants, NatProduct
  <2>3. SCALE_FACTOR * B <= A * SCALE_FACTOR
    BY <1>6, <2>1, <2>2
  <2>4. ASSUME A + 1 <= B PROVE FALSE
    <3>1. SCALE_FACTOR * (A + 1) <= SCALE_FACTOR * B
      BY <1>2, <1>3, <2>4, LeafConstants, SMT
    <3>2. SCALE_FACTOR * (A + 1) = A * SCALE_FACTOR + SCALE_FACTOR
      BY <1>3, LeafConstants, SMT
    <3> QED BY <2>2, <2>3, <3>1, <3>2, LeafConstants
  <2> QED BY <1>2, <1>3, <2>4
<1> QED
  BY <1>2, <1>3, <1>5, <1>7

\* A quotient that fits n times into p is at most n.
LEMMA ProductCancel ==
    ASSUME NEW a \in Nat, NEW n \in Nat, NEW p \in Nat \ {0}, a * p <= n * p
    PROVE  a <= n
<1>1. ASSUME n + 1 <= a PROVE FALSE
  <2>1. (n + 1) * p <= a * p
    BY <1>1, SMT
  <2>2. (n + 1) * p = n * p + p /\ n * p \in Nat /\ a * p \in Nat
    BY SMT
  <2> QED BY <2>1, <2>2
<1> QED
  BY <1>1

\* A solvent protocol can pay any redemption a holder can ask for.
LEMMA SolventPays == LeafInv => SolventRedeemable
<1> SUFFICES ASSUME LeafInv, CollateralRatio >= SCALE_FACTOR, nf * PF_FIXED > EPS,
                    NEW f \in 1 .. nf - pool_f
             PROVE  /\ RedeemFBase(f) - FeeAmount(RedeemFBase(f), RedeemFFeeRate)
                           <= RedeemableReserve
                    /\ RedeemFBase(f) - RedeemFBonus(f) <= reserve_balance_sui
  BY DEF SolventRedeemable
<1> DEFINE base == RedeemFBase(f)
           fee == FeeAmount(base, RedeemFFeeRate)
           raw == FeeAmount(base, RedeemFBonusRate)
           N == SafeSub(reserve_balance_sui, sp_obligation_r_amount)
           p == last_reserve_price
<1>0. LeafTypeOK
  BY DEF LeafInv
<1>1. /\ nf \in Nat /\ reserve_balance_sui \in Nat /\ sp_obligation_r_amount \in Nat
      /\ p \in Nat \ {0} /\ fees_collected_sui \in Nat /\ pool_f \in Nat
  BY <1>0, BooksNat
<1>2. f \in Nat /\ f <= nf
  BY <1>1
<1>3. base \in Nat /\ base * p <= f * PF_FIXED
  BY <1>1, <1>2, LeafConstants, MulDivFloor DEF RedeemFBase
<1>4. fee \in Nat /\ raw \in Nat
  <2> HIDE DEF base
  <2> QED BY <1>0, <1>3, RatesNat, FeeNat
<1>5. N \in Nat /\ N <= reserve_balance_sui /\ N <= RedeemableReserve
      /\ RedeemableReserve \in Nat
  BY <1>1 DEF SafeSub, RedeemableReserve
<1>6. nf * PF_FIXED <= N * p
  BY <1>0, SolventMeans DEF ReserveNetUsd
<1> HIDE DEF base, fee, raw, N, p
<1>7. base <= N
  <2>1. f * PF_FIXED <= nf * PF_FIXED
    BY <1>1, <1>2, LeafConstants, SMT
  <2>2. /\ f * PF_FIXED \in Nat /\ nf * PF_FIXED \in Nat /\ N * p \in Nat
        /\ base * p \in Nat
    BY <1>1, <1>2, <1>3, <1>5, LeafConstants, NatProduct
  <2>3. base * p <= N * p
    BY <1>3, <1>6, <2>1, <2>2
  <2> QED BY <1>1, <1>3, <1>5, <2>3, ProductCancel
<1>8. base - fee <= RedeemableReserve
  BY <1>3, <1>4, <1>5, <1>7
<1>9. RedeemFBonus(f) = IF base - fee + raw > RedeemableReserve
                        THEN RedeemableReserve - (base - fee) ELSE raw
  BY DEF RedeemFBonus, base, fee, raw
<1>10. base - RedeemFBonus(f) <= reserve_balance_sui
  BY <1>1, <1>3, <1>4, <1>5, <1>7, <1>8, <1>9
<1> QED
  BY <1>8, <1>10 DEF base, fee

(***************************************************************************)
(* While the collateral ratio is at least one, redeem_f of anything held   *)
(* outside the pool passes the reserve check and the unsigned subtraction. *)
(***************************************************************************)
THEOREM LeafSolventRedeemable == Spec => []SolventRedeemable
  BY SolventPays, LeafInitInv, LeafStepInv, PTL DEF Spec

-----------------------------------------------------------------------------
(* What a step may never do. *)

\* The kinds of step the action properties tell apart.
LEMMA StepKinds ==
    ASSUME [Next]_vars
    PROVE  \/ \E d \in Nat : MintF(d)
           \/ \E d \in Nat : MintX(d)
           \/ \E f \in Nat, delegate \in BOOLEAN : RedeemFWith(f, delegate)
           \/ \E x \in Nat, delegate \in BOOLEAN : RedeemXWith(x, delegate)
           \/ \E i \in Tickets : ClaimRedemption(i)
           \/ \E i \in Tickets : KeeperExecuteRedemption(i)
           \/ \E i \in Tickets : ReclaimExpiredTicket(i)
           \/ \E u \in Positions, f \in Nat : HolderDeposits(u, f) \/ HolderWithdraws(u, f)
           \/ \E u \in Positions : ClaimSpRewards(u)
           \/ \E p \in Nat \ {0} : UpdateFromOracle(p)
           \/ \E t \in Nat \ {0} : ProtocolRebalanceL3(t)
           \/ UNCHANGED <<poolVars, bookVars, oracleVars, tickets>>
<1>1. CASE \/ \E a \in UserActionSettings : SetUserActionsAllowed(a)
           \/ \E c \in FeeConfigs : SetFeeConfig(c)
           \/ \E n \in OperationFees : SetDelegateOperationFee(n)
           \/ \E n \in Expirations : SetTicketExpiration(n)
           \/ Tick
           \/ UNCHANGED vars
  BY <1>1 DEF SetUserActionsAllowed, SetFeeConfig, SetDelegateOperationFee,
              SetTicketExpiration, Tick, vars
<1>2. CASE UserNext \/ (\E p \in Prices : UpdateFromOracle(p))
                    \/ (\E t \in TargetCRs : ProtocolRebalanceL3(t))
  BY <1>2, LeafsiiAssumption, PoolAssumption
     DEF UserNext, RedeemF, RedeemFDelegate, RedeemX, RedeemXDelegate
<1> QED
  BY <1>1, <1>2 DEF Next, AdminNext

\* Only redeem_f burns fTokens that are not the pool's.
LEMMA OnlyRedeemFBurns ==
    ASSUME LeafInv, [Next]_vars
    PROVE  \/ \E f \in Nat, delegate \in BOOLEAN : RedeemFWith(f, delegate)
           \/ nf' >= nf \/ pool_f' < pool_f
<1>0. LeafTypeOK /\ nf \in Nat /\ pool_f \in Nat
  BY BooksNat DEF LeafInv
<1>1. CASE \E d \in Nat : MintF(d)
  <2>1. PICK m \in Nat : nf' = nf + m
    BY <1>0, <1>1, MintFEffect
  <2> QED BY <1>0, <2>1
<1>2. CASE \E t \in Nat \ {0} : ProtocolRebalanceL3(t)
  <2>1. PICK b \in Nat : b > 0 /\ pool_f' = pool_f - b
    BY <1>0, <1>2, RebalanceEffect
  <2> QED BY <1>0, <2>1
<1>3. CASE nf' = nf
  BY <1>0, <1>3
<1>4. ASSUME \/ \E d \in Nat : MintX(d)
             \/ \E x \in Nat, delegate \in BOOLEAN : RedeemXWith(x, delegate)
             \/ \E i \in Tickets : ClaimRedemption(i)
             \/ \E i \in Tickets : KeeperExecuteRedemption(i)
             \/ \E i \in Tickets : ReclaimExpiredTicket(i)
             \/ \E u \in Positions, f \in Nat : HolderDeposits(u, f) \/ HolderWithdraws(u, f)
             \/ \E u \in Positions : ClaimSpRewards(u)
             \/ \E p \in Nat \ {0} : UpdateFromOracle(p)
             \/ UNCHANGED <<poolVars, bookVars, oracleVars, tickets>>
      PROVE  nf' = nf
  BY <1>4 DEF MintX, RedeemXWith, ClaimRedemption, KeeperExecuteRedemption,
        ReclaimExpiredTicket, HolderDeposits, HolderWithdraws, ClaimSpRewards,
        UpdateFromOracle, bookVars
<1> QED
  BY <1>1, <1>2, <1>3, <1>4, StepKinds

(***************************************************************************)
(* The books and custody drift apart only by twice the stability bonus of  *)
(* a redeem_f and by the operation fee of a ticket a keeper executes.      *)
(***************************************************************************)
THEOREM LeafGapOnlyByBonusOrKeeper == Spec => GapOnlyByBonusOrKeeper
<1>1. ASSUME LeafInv, [Next]_vars
      PROVE  \/ (nf' >= nf \/ pool_f' < pool_f) /\ Gap' = Gap
             \/ nf' < nf /\ pool_f' = pool_f /\ Gap' = Gap + 2 * RedeemFBonus(nf - nf')
             \/ \E i \in Tickets : /\ Live(i) /\ ~Expired(i) /\ tickets[i].delegate
                                   /\ tickets'[i] = NoTicket
                                   /\ Gap' = Gap + tickets[i].operation_fee
  <2>1. CASE \E f \in Nat, delegate \in BOOLEAN : RedeemFWith(f, delegate)
    BY <1>1, <2>1, RedeemFKeeps DEF GapBonus, Gap
  <2>2. CASE nf' >= nf \/ pool_f' < pool_f
    <3>1. GapStep
      BY <1>1, LeafStep
    <3> QED BY <2>2, <3>1 DEF GapStep, GapKept, GapBonus, GapKeeper, Gap
  <2> QED BY <1>1, <2>1, <2>2, OnlyRedeemFBurns
<1> QED
  BY <1>1, LeafInitInv, LeafStepInv, PTL DEF Spec, GapOnlyByBonusOrKeeper

\* Tickets through one step.
LEMMA TicketsThroughStep ==
    ASSUME LeafInv, [Next]_vars, NEW i \in Tickets,
           Live(i), now <= tickets[i].expiration, tickets'[i] # tickets[i]
    PROVE  reserve_buffer_sui' <= reserve_buffer_sui - tickets[i].amount
<1>0. /\ LeafTypeOK /\ reserve_buffer_sui \in Nat /\ now \in Nat
      /\ tickets \in [Tickets -> TicketType]
      /\ tickets[i].amount \in Nat /\ tickets[i].operation_fee \in Nat
      /\ tickets[i].expiration \in Nat
  BY DEF LeafInv, LeafTypeOK, TicketType
<1>1. ASSUME NEW f \in Nat, NEW delegate \in BOOLEAN, RedeemFWith(f, delegate) PROVE FALSE
  <2>1. PICK base, fee, bonus \in Nat :
            fee <= base /\ ApplyRedemptionFlow(base - fee + bonus, delegate)
    <3>1. LeafTypeOK
      BY <1>0
    <3> QED BY ONLY <1>1, <3>1, RedeemFEffect
  <2>2. base - fee + bonus \in Nat
    BY <2>1
  <2> QED BY <1>0, <2>1, <2>2, FlowEffect
<1>2. ASSUME NEW x \in Nat, NEW delegate \in BOOLEAN, RedeemXWith(x, delegate) PROVE FALSE
  <2>1. PICK base, fee \in Nat : fee <= base /\ ApplyRedemptionFlow(base - fee, delegate)
    <3>1. LeafTypeOK
      BY <1>0
    <3> QED BY ONLY <1>2, <3>1, RedeemXEffect
  <2>2. base - fee \in Nat
    BY <2>1
  <2> QED BY <1>0, <2>1, <2>2, FlowEffect
<1>3. ASSUME NEW j \in Tickets, ReclaimExpiredTicket(j) PROVE FALSE
  <2>0. tickets' = [tickets EXCEPT ![j] = NoTicket]
    BY <1>3 DEF ReclaimExpiredTicket
  <2>1. j = i
    BY <1>0, <2>0
  <2>2. now > tickets[i].expiration
    BY <1>3, <2>1 DEF ReclaimExpiredTicket, Expired
  <2> QED BY <1>0, <2>2
<1>4. ASSUME NEW j \in Tickets, ClaimRedemption(j)
      PROVE  reserve_buffer_sui' <= reserve_buffer_sui - tickets[i].amount
  <2>1. j = i
    BY <1>0, <1>4 DEF ClaimRedemption
  <2> QED BY <1>0, <1>4, <2>1 DEF ClaimRedemption
<1>5. ASSUME NEW j \in Tickets, KeeperExecuteRedemption(j)
      PROVE  reserve_buffer_sui' <= reserve_buffer_sui - tickets[i].amount
  <2>1. j = i
    BY <1>0, <1>5 DEF KeeperExecuteRedemption
  <2>2. reserve_buffer_sui' =
            reserve_buffer_sui - (tickets[i].amount + tickets[i].operation_fee)
    BY <1>5, <2>1 DEF KeeperExecuteRedemption
  <2> QED BY <1>0, <2>2
<1>6. CASE tickets' = tickets
  BY <1>6
<1> QED
  BY <1>1, <1>2, <1>3, <1>4, <1>5, <1>6, StepKinds
     DEF MintF, MintX, HolderDeposits, HolderWithdraws, ClaimSpRewards, UpdateFromOracle,
         ProtocolRebalanceL3

(***************************************************************************)
(* A ticket that has not expired ends only by being paid in full, however  *)
(* redemptions, claims, keepers and reclaims of other tickets interleave.  *)
(***************************************************************************)
THEOREM LeafUnexpiredTicketPaid == Spec => UnexpiredTicketPaid
<1>1. LeafInv /\ [Next]_vars
        => [\A i \in Tickets :
              Live(i) /\ now <= tickets[i].expiration /\ tickets'[i] # tickets[i] =>
                  reserve_buffer_sui' <= reserve_buffer_sui - tickets[i].amount]_vars
  BY TicketsThroughStep
<1> QED
  BY <1>1, LeafInitInv, LeafStepInv, PTL DEF Spec, UnexpiredTicketPaid

\* The xToken price through one step.
LEMMA PxThroughStep ==
    ASSUME LeafInv, [Next]_vars, PxFresh, ~PxFresh'
    PROVE  \/ sp_obligation_r_amount' < sp_obligation_r_amount
           \/ \E i \in Tickets : Live(i) /\ Expired(i) /\ tickets'[i] = NoTicket
<1>0. tickets \in [Tickets -> TicketType] /\ sp_obligation_r_amount \in Nat
  BY BooksNat DEF LeafInv, LeafTypeOK
<1>1. ~UpdatePx
  BY DEF UpdatePx, PxFresh
<1>2. ~UNCHANGED <<reserve_balance_sui, last_reserve_price, nf, nx, px>>
  BY DEF PxFresh
<1>3. ASSUME NEW u \in Positions, ClaimSpRewards(u)
      PROVE  sp_obligation_r_amount' < sp_obligation_r_amount
  <2> DEFINE owed == CalculatePendingRewards(u)
  <2>1. /\ owed > 0 /\ owed \in Nat
        /\ sp_obligation_r_amount' = sp_obligation_r_amount - owed
    <3>1. /\ sp_scaled[u] \in Nat /\ sp_index_r_scaled - sp_index_snap[u] \in Nat
      BY PoolConstants DEF LeafInv, PoolInv, PoolTypeOK
    <3>2. MulDiv(sp_scaled[u], sp_index_r_scaled - sp_index_snap[u], REWARD_SCALE) \in Nat
      BY <3>1, PoolConstants, MulDivFloor
    <3> QED BY <1>3, <3>2 DEF ClaimSpRewards, ClaimRewards, CalculatePendingRewards
  <2> HIDE DEF owed
  <2> QED BY <1>0, <2>1
<1>4. ASSUME NEW i \in Tickets, ReclaimExpiredTicket(i)
      PROVE  Live(i) /\ Expired(i) /\ tickets'[i] = NoTicket
  BY <1>0, <1>4 DEF ReclaimExpiredTicket
<1>5. ~ \E d \in Nat : MintF(d) \/ MintX(d)
  BY <1>1 DEF MintF, MintX
<1>6. ~ \E n \in Nat, delegate \in BOOLEAN : RedeemFWith(n, delegate) \/ RedeemXWith(n, delegate)
  BY <1>1 DEF RedeemFWith, RedeemXWith
<1>7. ~ \E i \in Tickets : ClaimRedemption(i) \/ KeeperExecuteRedemption(i)
  BY <1>2 DEF ClaimRedemption, KeeperExecuteRedemption, oracleVars
<1>8. ~ \E u \in Positions, f \in Nat : HolderDeposits(u, f) \/ HolderWithdraws(u, f)
  BY <1>2 DEF HolderDeposits, HolderWithdraws, bookVars, oracleVars
<1>9. ~ \E p \in Nat \ {0} : UpdateFromOracle(p)
  BY <1>1 DEF UpdateFromOracle
<1>10. ~ \E t \in Nat \ {0} : ProtocolRebalanceL3(t)
  BY <1>1 DEF ProtocolRebalanceL3
<1>11. ~ UNCHANGED <<poolVars, bookVars, oracleVars, tickets>>
  BY <1>2 DEF bookVars, oracleVars
<1> QED
  BY <1>3, <1>4, <1>5, <1>6, <1>7, <1>8, <1>9, <1>10, <1>11, StepKinds

(***************************************************************************)
(* Only a pool claim or the reclaim of an expired ticket leaves the xToken *)
(* price out of date.                                                      *)
(***************************************************************************)
THEOREM LeafPxStaleOnlyByPayout == Spec => PxStaleOnlyByPayout
<1>1. LeafInv /\ [Next]_vars
        => [PxFresh /\ ~PxFresh' =>
              \/ sp_obligation_r_amount' < sp_obligation_r_amount
              \/ \E i \in Tickets : Live(i) /\ Expired(i) /\ tickets'[i] = NoTicket]_vars
  BY PxThroughStep
<1> QED
  BY <1>1, LeafInitInv, LeafStepInv, PTL DEF Spec, PxStaleOnlyByPayout

\* The reserve and the obligation through one step.
LEMMA ObligationThroughStep ==
    ASSUME LeafInv, [Next]_vars,
           reserve_balance_sui >= sp_obligation_r_amount,
           reserve_balance_sui' < sp_obligation_r_amount'
    PROVE  nf' < nf \/ nx' < nx
<1>0. /\ LeafTypeOK /\ reserve_balance_sui \in Nat /\ sp_obligation_r_amount \in Nat
      /\ nf \in Nat /\ nx \in Nat /\ pool_f \in Nat
      /\ \A i \in Tickets : tickets[i].amount \in Nat
  BY BooksNat, TicketTotalNat DEF LeafInv, LeafTypeOK
<1>1. ASSUME NEW n \in Nat, reserve_balance_sui' = reserve_balance_sui + n,
             sp_obligation_r_amount' = sp_obligation_r_amount
      PROVE  FALSE
  BY <1>0, <1>1
<1>2. ASSUME NEW d \in Nat, MintF(d) \/ MintX(d) PROVE FALSE
  <2>1. PICK fee \in Nat : /\ fee <= d /\ UNCHANGED poolVars
                           /\ reserve_balance_sui' = reserve_balance_sui + (d - fee)
    BY <1>0, <1>2, MintFEffect, MintXEffect
  <2> QED BY <1>1, <2>1 DEF poolVars
<1>3. ASSUME NEW f \in Nat, NEW delegate \in BOOLEAN, RedeemFWith(f, delegate)
      PROVE  nf' < nf
  BY <1>0, <1>3 DEF RedeemFWith
<1>4. ASSUME NEW x \in Nat, NEW delegate \in BOOLEAN, RedeemXWith(x, delegate)
      PROVE  nx' < nx
  BY <1>0, <1>4 DEF RedeemXWith
<1>5. ASSUME UNCHANGED reserve_balance_sui, UNCHANGED sp_obligation_r_amount PROVE FALSE
  BY <1>0, <1>5
<1>6. ASSUME NEW i \in Tickets, ClaimRedemption(i) \/ KeeperExecuteRedemption(i) PROVE FALSE
  BY <1>5, <1>6 DEF ClaimRedemption, KeeperExecuteRedemption, poolVars
<1>7. ASSUME NEW i \in Tickets, ReclaimExpiredTicket(i) PROVE FALSE
  BY <1>0, <1>1, <1>7 DEF ReclaimExpiredTicket, poolVars
<1>8. ASSUME NEW u \in Positions, NEW f \in Nat, HolderDeposits(u, f) \/ HolderWithdraws(u, f)
      PROVE  FALSE
  BY <1>5, <1>8 DEF HolderDeposits, HolderWithdraws, DepositF, WithdrawF, bookVars
<1>9. ASSUME NEW u \in Positions, ClaimSpRewards(u) PROVE FALSE
  <2> DEFINE owed == CalculatePendingRewards(u)
  <2>1. /\ owed <= reserve_balance_sui
        /\ owed \in Nat
        /\ reserve_balance_sui' = reserve_balance_sui - owed
        /\ sp_obligation_r_amount' = sp_obligation_r_amount - owed
    <3>1. /\ sp_scaled[u] \in Nat /\ sp_index_r_scaled - sp_index_snap[u] \in Nat
      BY PoolConstants DEF LeafInv, PoolInv, PoolTypeOK
    <3>2. MulDiv(sp_scaled[u], sp_index_r_scaled - sp_index_snap[u], REWARD_SCALE) \in Nat
      BY <3>1, PoolConstants, MulDivFloor
    <3>3. owed \in Nat
      BY <3>2 DEF CalculatePendingRewards
    <3> QED BY <1>9, <3>3 DEF ClaimSpRewards, ClaimRewards
  <2> HIDE DEF owed
  <2> QED BY <1>0, <2>1
<1>10. ASSUME NEW p \in Nat \ {0}, UpdateFromOracle(p) PROVE FALSE
  BY <1>5, <1>10 DEF UpdateFromOracle, poolVars
<1>11. ASSUME NEW t \in Nat \ {0}, ProtocolRebalanceL3(t) PROVE nf' < nf
  <2>1. PICK b \in Nat : b > 0 /\ nf' = nf - b
    BY <1>0, <1>11, RebalanceEffect
  <2> QED BY <1>0, <2>1
<1>12. ASSUME UNCHANGED <<poolVars, bookVars, oracleVars, tickets>> PROVE FALSE
  BY <1>5, <1>12 DEF poolVars, bookVars
<1> QED
  BY <1>2, <1>3, <1>4, <1>6, <1>7, <1>8, <1>9, <1>10, <1>11, <1>12, StepKinds

(***************************************************************************)
(* Only burning tokens takes the reserve below the obligation to the       *)
(* stability pool.                                                         *)
(***************************************************************************)
THEOREM LeafObligationStrandedOnlyByBurn == Spec => ObligationStrandedOnlyByBurn
<1>1. LeafInv /\ [Next]_vars
        => [(/\ reserve_balance_sui >= sp_obligation_r_amount
             /\ reserve_balance_sui' < sp_obligation_r_amount') => nf' < nf \/ nx' < nx]_vars
  BY ObligationThroughStep
<1> QED
  BY <1>1, LeafInitInv, LeafStepInv, PTL DEF Spec, ObligationStrandedOnlyByBurn

-----------------------------------------------------------------------------
(* The xToken price. *)

\* The new price is at least the old one when the value given to or taken
\* from the xTokens, at the old price, is matched by the equity.
LEMMA PxNotLower ==
    ASSUME LeafTypeOK, PxFresh, UpdatePx, last_reserve_price' = last_reserve_price,
           NEW r \in Nat, NEW f \in Nat, NEW x \in Nat,
           reserve_balance_sui' = r, nf' = f, nx' = x, x > EPS,
           px > 0 /\ nx > EPS =>
               x * px - nx * px
                   <= (r * last_reserve_price - f * PF_FIXED)
                      - (reserve_balance_sui * last_reserve_price - nf * PF_FIXED)
    PROVE  px' >= px
<1>1. /\ reserve_balance_sui \in Nat /\ nf \in Nat /\ nx \in Nat /\ px \in Nat
      /\ last_reserve_price \in Nat
  BY BooksNat
<1>2. px' = PxOf(r, last_reserve_price, f, x)
  BY DEF UpdatePx
<1>3. PxOf(r, last_reserve_price, f, x) \in Nat
  BY <1>1, PxNat
<1>4. CASE px = 0
  BY <1>2, <1>3, <1>4
<1>5. CASE px > 0
  <2>1. px = PxOf(reserve_balance_sui, last_reserve_price, nf, nx)
    BY DEF PxFresh
  <2>2. nx > EPS /\ nx * px <= reserve_balance_sui * last_reserve_price - nf * PF_FIXED
    BY <1>1, <1>5, <2>1, PxCovered
  <2>3. /\ x * px \in Nat /\ nx * px \in Nat /\ r * last_reserve_price \in Nat
        /\ f * PF_FIXED \in Nat /\ reserve_balance_sui * last_reserve_price \in Nat
        /\ nf * PF_FIXED \in Nat
    BY <1>1, LeafConstants, NatProduct
  <2>4. x * px <= r * last_reserve_price - f * PF_FIXED
    BY <1>5, <2>2, <2>3
  <2>5. PxOf(r, last_reserve_price, f, x) >= px
    BY <1>1, <2>4, PxAtLeast
  <2> QED BY <1>2, <2>5
<1> QED
  BY <1>1, <1>4, <1>5

\* Products of sums and differences.
LEMMA Distribute ==
    ASSUME NEW a \in Nat, NEW b \in Nat, NEW c \in Nat
    PROVE  /\ (a + b) * c = a * c + b * c
           /\ b <= a => (a - b) * c = a * c - b * c
           /\ a * c \in Nat /\ b * c \in Nat
  BY SMT

\* mint_f does not dilute.
LEMMA MintFNoDilution ==
    ASSUME LeafTypeOK, PxFresh, NEW d \in Nat, MintF(d), nx' > EPS
    PROVE  px' >= px
<1>1. PICK fee, minted \in Nat :
          /\ fee <= d
          /\ minted * PF_FIXED <= (d - fee) * last_reserve_price
          /\ reserve_balance_sui' = reserve_balance_sui + (d - fee)
          /\ nf' = nf + minted
          /\ UNCHANGED <<nx, poolVars, adminVars, oracleVars, tickets, now>>
          /\ UpdatePx
  BY MintFEffect
<1> DEFINE k == d - fee
<1>2. /\ reserve_balance_sui \in Nat /\ nf \in Nat /\ nx \in Nat /\ px \in Nat
      /\ last_reserve_price \in Nat /\ k \in Nat
  BY <1>1, BooksNat
<1>3. /\ reserve_balance_sui' = reserve_balance_sui + k /\ nf' = nf + minted /\ nx' = nx
      /\ last_reserve_price' = last_reserve_price
      /\ minted * PF_FIXED <= k * last_reserve_price
      /\ UpdatePx
  BY <1>1 DEF oracleVars
<1> HIDE DEF k
<1>4. /\ (reserve_balance_sui + k) * last_reserve_price
            = reserve_balance_sui * last_reserve_price + k * last_reserve_price
      /\ reserve_balance_sui * last_reserve_price \in Nat /\ k * last_reserve_price \in Nat
  BY <1>2, Distribute
<1>5. /\ (nf + minted) * PF_FIXED = nf * PF_FIXED + minted * PF_FIXED
      /\ nf * PF_FIXED \in Nat /\ minted * PF_FIXED \in Nat
  BY <1>2, LeafConstants, Distribute
<1>6. nx * px \in Nat
  BY <1>2, NatProduct
<1>7. nx * px - nx * px
          <= ((reserve_balance_sui + k) * last_reserve_price - (nf + minted) * PF_FIXED)
             - (reserve_balance_sui * last_reserve_price - nf * PF_FIXED)
  BY <1>3, <1>4, <1>5, <1>6
<1>8. reserve_balance_sui + k \in Nat /\ nf + minted \in Nat /\ nx > EPS
  BY <1>2, <1>3
<1> QED
  BY <1>2, <1>3, <1>7, <1>8, PxNotLower

\* mint_x does not dilute unless it pays a bonus.
LEMMA MintXNoDilution ==
    ASSUME LeafTypeOK, PxFresh, NEW d \in Nat, MintX(d), nx' > EPS,
           nx' > nx => MintXBonusRate = 0
    PROVE  px' >= px
<1>1. PICK fee, minted \in Nat :
          /\ fee <= d
          /\ nx # 0 /\ MintXBonusRate = 0 => minted * px <= (d - fee) * last_reserve_price
          /\ reserve_balance_sui' = reserve_balance_sui + (d - fee)
          /\ nx' = nx + minted
          /\ UNCHANGED <<nf, poolVars, adminVars, oracleVars, tickets, now>>
          /\ UpdatePx
  BY MintXEffect
<1> DEFINE k == d - fee
<1>2. /\ reserve_balance_sui \in Nat /\ nf \in Nat /\ nx \in Nat /\ px \in Nat
      /\ last_reserve_price \in Nat /\ k \in Nat
  BY <1>1, BooksNat
<1>3. /\ reserve_balance_sui' = reserve_balance_sui + k /\ nf' = nf /\ nx' = nx + minted
      /\ last_reserve_price' = last_reserve_price
      /\ nx # 0 /\ MintXBonusRate = 0 => minted * px <= k * last_reserve_price
      /\ UpdatePx
  BY <1>1 DEF oracleVars
<1> HIDE DEF k
<1>4. /\ (reserve_balance_sui + k) * last_reserve_price
            = reserve_balance_sui * last_reserve_price + k * last_reserve_price
      /\ reserve_balance_sui * last_reserve_price \in Nat /\ k * last_reserve_price \in Nat
  BY <1>2, Distribute
<1>5. /\ (nx + minted) * px = nx * px + minted * px
      /\ nx * px \in Nat /\ minted * px \in Nat
  BY <1>2, Distribute
<1>6. nf * PF_FIXED \in Nat
  BY <1>2, LeafConstants, NatProduct
<1>7. nx # 0 => minted * px <= k * last_reserve_price
  <2>1. CASE minted = 0
    <3>1. minted * px = 0
      BY <1>2, <2>1
    <3> QED BY <1>4, <3>1
  <2>2. CASE minted > 0
    BY <1>2, <1>3, <2>2
  <2> QED BY <2>1, <2>2
<1>8. px > 0 /\ nx > EPS =>
          (nx + minted) * px - nx * px
              <= ((reserve_balance_sui + k) * last_reserve_price - nf * PF_FIXED)
                 - (reserve_balance_sui * last_reserve_price - nf * PF_FIXED)
  <2> SUFFICES ASSUME nx > EPS
               PROVE  (nx + minted) * px - nx * px
                   <= ((reserve_balance_sui + k) * last_reserve_price - nf * PF_FIXED)
                      - (reserve_balance_sui * last_reserve_price - nf * PF_FIXED)
    OBVIOUS
  <2>1. nx # 0
    BY <1>2, LeafConstants
  <2> QED BY <1>4, <1>5, <1>6, <1>7, <2>1
<1>9. reserve_balance_sui + k \in Nat /\ nx + minted \in Nat /\ nx + minted > EPS
  BY <1>2, <1>3
<1> QED
  BY <1>2, <1>3, <1>8, <1>9, PxNotLower

\* redeem_f does not dilute: the reserve falls by at most what is burned.
LEMMA RedeemFNoDilution ==
    ASSUME LeafTypeOK, PxFresh, NEW f \in Nat, NEW delegate \in BOOLEAN,
           RedeemFWith(f, delegate), nx' > EPS
    PROVE  px' >= px
<1>1. PICK base, fee, bonus \in Nat :
          /\ f > 0 /\ f <= nf - pool_f
          /\ bonus <= base /\ base - bonus <= reserve_balance_sui
          /\ base * last_reserve_price <= f * PF_FIXED
          /\ nf' = nf - f
          /\ reserve_balance_sui' = reserve_balance_sui - (base - bonus)
          /\ UNCHANGED <<nx, poolVars, adminVars, oracleVars, now>>
          /\ UpdatePx
  BY RedeemFEffect
<1> DEFINE k == base - bonus
<1>2. /\ reserve_balance_sui \in Nat /\ nf \in Nat /\ nx \in Nat /\ px \in Nat
      /\ last_reserve_price \in Nat /\ k \in Nat /\ k <= base /\ k <= reserve_balance_sui
      /\ f <= nf
  BY <1>1, BooksNat
<1>3. /\ reserve_balance_sui' = reserve_balance_sui - k /\ nf' = nf - f /\ nx' = nx
      /\ last_reserve_price' = last_reserve_price
      /\ UpdatePx
  BY <1>1 DEF oracleVars
<1> HIDE DEF k
<1>4. /\ (reserve_balance_sui - k) * last_reserve_price
            = reserve_balance_sui * last_reserve_price - k * last_reserve_price
      /\ reserve_balance_sui * last_reserve_price \in Nat /\ k * last_reserve_price \in Nat
  BY <1>2, Distribute
<1>5. /\ (nf - f) * PF_FIXED = nf * PF_FIXED - f * PF_FIXED
      /\ nf * PF_FIXED \in Nat /\ f * PF_FIXED \in Nat
  BY <1>2, LeafConstants, Distribute
<1>6. nx * px \in Nat /\ base * last_reserve_price \in Nat
  BY <1>2, NatProduct
<1>7. k * last_reserve_price <= base * last_reserve_price
  BY <1>2, SMT
<1>8. nx * px - nx * px
          <= ((reserve_balance_sui - k) * last_reserve_price - (nf - f) * PF_FIXED)
             - (reserve_balance_sui * last_reserve_price - nf * PF_FIXED)
  BY <1>1, <1>4, <1>5, <1>6, <1>7
<1>9. reserve_balance_sui - k \in Nat /\ nf - f \in Nat /\ nx > EPS
  BY <1>2, <1>3
<1> QED
  BY <1>2, <1>3, <1>8, <1>9, PxNotLower

\* redeem_x does not dilute: it pays at most the price of what is burned.
LEMMA RedeemXNoDilution ==
    ASSUME LeafTypeOK, PxFresh, NEW x \in Nat, NEW delegate \in BOOLEAN,
           RedeemXWith(x, delegate), nx' > EPS
    PROVE  px' >= px
<1>1. PICK base, fee \in Nat :
          /\ x > 0 /\ x <= nx /\ base <= reserve_balance_sui
          /\ base * last_reserve_price <= x * px
          /\ nx' = nx - x
          /\ reserve_balance_sui' = reserve_balance_sui - base
          /\ UNCHANGED <<nf, poolVars, adminVars, oracleVars, now>>
          /\ UpdatePx
  BY RedeemXEffect
<1>2. /\ reserve_balance_sui \in Nat /\ nf \in Nat /\ nx \in Nat /\ px \in Nat
      /\ last_reserve_price \in Nat
  BY BooksNat
<1>3. nf' = nf /\ last_reserve_price' = last_reserve_price
  BY <1>1 DEF oracleVars
<1>4. /\ (reserve_balance_sui - base) * last_reserve_price
            = reserve_balance_sui * last_reserve_price - base * last_reserve_price
      /\ reserve_balance_sui * last_reserve_price \in Nat /\ base * last_reserve_price \in Nat
  BY <1>1, <1>2, Distribute
<1>5. (nx - x) * px = nx * px - x * px /\ nx * px \in Nat /\ x * px \in Nat
  BY <1>1, <1>2, Distribute
<1>6. nf * PF_FIXED \in Nat
  BY <1>2, LeafConstants, NatProduct
<1>7. (nx - x) * px - nx * px
          <= ((reserve_balance_sui - base) * last_reserve_price - nf * PF_FIXED)
             - (reserve_balance_sui * last_reserve_price - nf * PF_FIXED)
  BY <1>1, <1>4, <1>5, <1>6
<1>8. reserve_balance_sui - base \in Nat /\ nx - x \in Nat /\ nx - x > EPS
  BY <1>1, <1>2
<1> QED
  BY <1>1, <1>2, <1>3, <1>7, <1>8, PxNotLower

\* A rebalance burns fTokens and leaves the reserve alone.
LEMMA RebalanceNoDilution ==
    ASSUME LeafTypeOK, PxFresh, NEW t \in Nat \ {0}, ProtocolRebalanceL3(t), nx' > EPS
    PROVE  px' >= px
<1>1. PICK b \in Nat :
          /\ b <= nf /\ nf' = nf - b
          /\ UNCHANGED <<reserve_buffer_sui, reserve_balance_sui, fees_collected_sui,
                         nx, adminVars, oracleVars, tickets, now>>
          /\ UpdatePx
  BY RebalanceEffect
<1>2. /\ reserve_balance_sui \in Nat /\ nf \in Nat /\ nx \in Nat /\ px \in Nat
      /\ last_reserve_price \in Nat
  BY BooksNat
<1>3. /\ reserve_balance_sui' = reserve_balance_sui /\ nx' = nx
      /\ last_reserve_price' = last_reserve_price
  BY <1>1 DEF oracleVars
<1>4. /\ (nf - b) * PF_FIXED = nf * PF_FIXED - b * PF_FIXED
      /\ nf * PF_FIXED \in Nat /\ b * PF_FIXED \in Nat
  BY <1>1, <1>2, LeafConstants, Distribute
<1>5. nx * px \in Nat /\ reserve_balance_sui * last_reserve_price \in Nat
  BY <1>2, NatProduct
<1>6. nx * px - nx * px
          <= (reserve_balance_sui * last_reserve_price - (nf - b) * PF_FIXED)
             - (reserve_balance_sui * last_reserve_price - nf * PF_FIXED)
  BY <1>4, <1>5
<1>7. nf - b \in Nat /\ nx > EPS
  BY <1>1, <1>2, <1>3
<1> QED
  BY <1>1, <1>2, <1>3, <1>6, <1>7, PxNotLower

\* No step dilutes.
LEMMA StepNoDilution ==
    ASSUME LeafInv, [Next]_vars, PxFresh, last_reserve_price' = last_reserve_price,
           nx' > EPS, nx' > nx => MintXBonusRate = 0
    PROVE  px' >= px
<1>0. LeafTypeOK /\ px \in Nat
  BY BooksNat DEF LeafInv
<1>1. CASE px' = px
  BY <1>0, <1>1
<1>2. ASSUME NEW i \in Tickets,
             ClaimRedemption(i) \/ KeeperExecuteRedemption(i) \/ ReclaimExpiredTicket(i)
      PROVE  px' = px
  BY <1>2 DEF ClaimRedemption, KeeperExecuteRedemption, ReclaimExpiredTicket
<1>3. ASSUME NEW u \in Positions, NEW f \in Nat, HolderDeposits(u, f) \/ HolderWithdraws(u, f)
      PROVE  px' = px
  BY <1>3 DEF HolderDeposits, HolderWithdraws, bookVars
<1>4. ASSUME NEW u \in Positions, ClaimSpRewards(u) PROVE px' = px
  BY <1>4 DEF ClaimSpRewards
<1>5. ASSUME NEW p \in Nat \ {0}, UpdateFromOracle(p) PROVE px' = px
  BY <1>5 DEF UpdateFromOracle, UpdatePx, PxFresh
<1>6. ASSUME UNCHANGED <<poolVars, bookVars, oracleVars, tickets>> PROVE px' = px
  BY <1>6 DEF bookVars
<1> QED
  BY <1>0, <1>1, <1>2, <1>3, <1>4, <1>5, <1>6, StepKinds, MintFNoDilution, MintXNoDilution,
     RedeemFNoDilution, RedeemXNoDilution, RebalanceNoDilution

(***************************************************************************)
(* At a constant reserve price no operation lowers a fresh xToken price,   *)
(* except a mint_x that earns a bonus: for every amount, rate and price    *)
(* the floors of the conversions favour the remaining holders.             *)
(***************************************************************************)
THEOREM LeafNoDilution == Spec => NoDilution
<1>1. LeafInv /\ [Next]_vars
        => [(/\ PxFresh
             /\ last_reserve_price' = last_reserve_price
             /\ nx' > EPS
             /\ nx' > nx => MintXBonusRate = 0) => px' >= px]_vars
  BY StepNoDilution
<1> QED
  BY <1>1, LeafInitInv, LeafStepInv, PTL DEF Spec, NoDilution

-----------------------------------------------------------------------------
(* Rebalancing. *)

\* Taking at most c off a numerator and c off a smaller denominator does not
\* lower the quotient.
LEMMA RatioRises ==
    ASSUME NEW A \in Nat, NEW B \in Nat \ {0}, B <= A, NEW S \in Nat,
           NEW c \in Nat, c < B, NEW A2 \in Nat, A2 >= A - c
    PROVE  MulDiv(A2, S, B - c) >= MulDiv(A, S, B)
<1> DEFINE D == B - c
           q == MulDiv(A, S, B)
           z == MulDiv(A2, S, D)
<1>1. D \in Nat \ {0} /\ D <= B
  OBVIOUS
<1>2. q \in Nat /\ q * B <= A * S
  BY MulDivFloor
<1>3. z \in Nat /\ A2 * S < z * D + D
  <2> HIDE DEF D
  <2> QED BY <1>1, MulDivFloor
<1>4. A * D <= A2 * B
  <2>1. A * D = A * B - A * c
    BY SMT
  <2>2. B * c <= A * c
    BY SMT
  <2>3. A2 * B >= (A - c) * B
    BY SMT
  <2>4. (A - c) * B = A * B - B * c
    BY SMT
  <2>5. A * B \in Nat /\ A * c \in Nat /\ B * c \in Nat /\ A2 * B \in Nat
    BY NatProduct
  <2> HIDE DEF D
  <2> QED BY <2>1, <2>2, <2>3, <2>4, <2>5
<1> HIDE DEF D, q, z
<1>5. (q * D) * B <= (A2 * S) * B
  <2>1. (q * D) * B = (q * B) * D
    BY <1>1, <1>2, SMT
  <2>2. (q * B) * D <= (A * S) * D
    <3>1. q * B \in Nat /\ A * S \in Nat
      BY <1>2, NatProduct
    <3> QED BY <1>1, <1>2, <3>1, SMT
  <2>3. (A * S) * D = (A * D) * S
    BY <1>1, SMT
  <2>4. (A * D) * S <= (A2 * B) * S
    <3>1. A * D \in Nat /\ A2 * B \in Nat
      BY <1>1, NatProduct
    <3> QED BY <1>4, <3>1, SMT
  <2>5. (A2 * B) * S = (A2 * S) * B
    BY SMT
  <2>6. /\ (q * D) * B \in Nat /\ (q * B) * D \in Nat /\ (A * S) * D \in Nat
        /\ (A * D) * S \in Nat /\ (A2 * B) * S \in Nat /\ (A2 * S) * B \in Nat
    BY <1>1, <1>2, NatProduct
  <2> QED BY <2>1, <2>2, <2>3, <2>4, <2>5, <2>6
<1>6. q * D <= A2 * S
  <2>1. q * D \in Nat /\ A2 * S \in Nat
    BY <1>1, <1>2, NatProduct
  <2> QED BY <1>5, <2>1, ProductCancel
<1>7. ASSUME z + 1 <= q PROVE FALSE
  <2>1. (z + 1) * D <= q * D
    BY <1>1, <1>2, <1>3, <1>7, SMT
  <2>2. (z + 1) * D = z * D + D /\ z * D \in Nat /\ q * D \in Nat /\ A2 * S \in Nat
    BY <1>1, <1>2, <1>3, SMT
  <2> QED BY <1>1, <1>3, <1>6, <2>1, <2>2
<1>8. z >= q
  BY <1>2, <1>3, <1>7
<1> QED
  BY <1>8 DEF D, q, z

\* The collateral ratio through a rebalance.
LEMMA RebalanceRaisesRatio ==
    ASSUME LeafInv, NEW t \in Nat \ {0}, ProtocolRebalanceL3(t),
           CollateralRatio >= SCALE_FACTOR
    PROVE  CollateralRatio' >= CollateralRatio
<1>0. LeafTypeOK /\ pool_f <= nf
  BY DEF LeafInv
<1>1. PICK b, y \in Nat :
          /\ b > 0 /\ b < pool_f /\ b <= nf
          /\ y * last_reserve_price <= b * PF_FIXED
          /\ nf' = nf - b
          /\ sp_obligation_r_amount' \in {sp_obligation_r_amount, sp_obligation_r_amount + y}
          /\ UNCHANGED <<reserve_buffer_sui, reserve_balance_sui, fees_collected_sui,
                         nx, adminVars, oracleVars, tickets, now>>
  BY <1>0, RebalanceEffect
<1>2. /\ reserve_balance_sui \in Nat /\ sp_obligation_r_amount \in Nat /\ nf \in Nat
      /\ last_reserve_price \in Nat \ {0} /\ pool_f \in Nat
  BY <1>0, BooksNat
<1>3. nf > b /\ nf - b \in Nat \ {0} /\ nf \in Nat \ {0}
  BY <1>0, <1>1, <1>2
<1>4. \A n \in Nat \ {0} : n * PF_FIXED \in Nat /\ n * PF_FIXED > EPS
  <2> TAKE n \in Nat \ {0}
  <2>1. n * PF_FIXED >= PF_FIXED /\ n * PF_FIXED \in Nat
    BY LeafConstants, SMT
  <2> QED BY <2>1, LeafConstants
<1> DEFINE p == last_reserve_price
           N == SafeSub(reserve_balance_sui, sp_obligation_r_amount)
           A == N * p
           B == nf * PF_FIXED
           c == b * PF_FIXED
<1>5. A \in Nat /\ B \in Nat \ {0} /\ B <= A /\ CollateralRatio = MulDiv(A, SCALE_FACTOR, B)
  BY <1>0, <1>3, <1>4, SolventMeans DEF ReserveNetUsd
<1>6. PICK o \in Nat : /\ sp_obligation_r_amount' = o
                       /\ o = sp_obligation_r_amount \/ o = sp_obligation_r_amount + y
  BY <1>1, <1>2
<1> DEFINE N2 == SafeSub(reserve_balance_sui, o)
           A2 == N2 * p
<1>7. N \in Nat /\ N2 \in Nat /\ N2 + y >= N
  BY <1>2, <1>6 DEF SafeSub
<1>8. c \in Nat /\ c < B /\ (nf - b) * PF_FIXED = B - c
  <2>1. (nf - b) * PF_FIXED = B - c /\ c \in Nat /\ B \in Nat
    BY <1>1, <1>2, LeafConstants, Distribute
  <2>2. (nf - b) * PF_FIXED > EPS
    BY <1>3, <1>4
  <2> HIDE DEF B, c
  <2> QED BY <2>1, <2>2, LeafConstants
<1>9. A2 \in Nat /\ A2 >= A - c
  <2> HIDE DEF N, N2
  <2>1. (N2 + y) * p = N2 * p + y * p /\ N2 * p \in Nat /\ y * p \in Nat
    BY <1>2, <1>7, Distribute
  <2>2. N * p <= (N2 + y) * p
    BY <1>2, <1>7, SMT
  <2>3. N * p \in Nat /\ y * p <= c /\ c \in Nat
    BY <1>1, <1>2, <1>7, <1>8, NatProduct
  <2> HIDE DEF c, p
  <2> QED BY <2>1, <2>2, <2>3
<1>10. CollateralRatio' = MulDiv(A2, SCALE_FACTOR, B - c)
  <2>1. ReserveNetUsd' = A2
    BY <1>1, <1>6 DEF ReserveNetUsd, oracleVars
  <2>2. (nf' * PF_FIXED) = B - c /\ ~(nf' * PF_FIXED <= EPS)
    <3>1. (nf - b) * PF_FIXED \in Nat /\ (nf - b) * PF_FIXED > EPS
      BY <1>3, <1>4
    <3>2. ~((nf - b) * PF_FIXED <= EPS)
      BY <3>1, LeafConstants
    <3> QED BY <1>1, <1>8, <3>2
  <2> HIDE DEF A2, B, c
  <2> QED BY <2>1, <2>2 DEF CollateralRatio
<1> HIDE DEF A, B, c, A2
<1> QED
  BY <1>5, <1>8, <1>9, <1>10, RatioRises, LeafConstants

\* Only a rebalance burns fTokens out of the pool.
LEMMA BurnIsRebalance ==
    ASSUME LeafInv, [Next]_vars, pool_f' < pool_f, nf' < nf
    PROVE  \E t \in Nat \ {0} : ProtocolRebalanceL3(t)
<1>0. LeafTypeOK /\ pool_f \in Nat /\ nf \in Nat
  BY BooksNat DEF LeafInv
<1>1. pool_f' # pool_f /\ nf' # nf
  BY <1>0
<1> QED
  BY <1>1, StepKinds
     DEF MintF, MintX, RedeemFWith, RedeemXWith, ClaimRedemption, KeeperExecuteRedemption,
         ReclaimExpiredTicket, HolderDeposits, HolderWithdraws, ClaimSpRewards,
         UpdateFromOracle, poolVars, bookVars

(***************************************************************************)
(* While the protocol is solvent, a rebalance never lowers the collateral  *)
(* ratio, although it burns fTokens and adds to the obligation at once and *)
(* rounds both.                                                            *)
(***************************************************************************)
THEOREM LeafRebalanceHelps == Spec => RebalanceHelps
<1>1. LeafInv /\ [Next]_vars
        => [pool_f' < pool_f /\ nf' < nf /\ CollateralRatio >= SCALE_FACTOR
              => CollateralRatio' >= CollateralRatio]_vars
  BY BurnIsRebalance, RebalanceRaisesRatio
<1> QED
  BY <1>1, LeafInitInv, LeafStepInv, PTL DEF Spec, RebalanceHelps

-----------------------------------------------------------------------------
(* The protocol implements the pool. *)

\* the pool as a component of its own, with deposits, burns and payouts of any size
AnyPool == INSTANCE StabilityPool WITH FAmounts <- Nat, RAmounts <- Nat

\* A step of the pool is one of that component.
LEMMA StepOfAnyPool == PoolStep => AnyPool!PoolNext
<1>1. ASSUME NEW u \in Positions, NEW f \in Nat, DepositF(u, f) PROVE AnyPool!DepositF(u, f)
  BY <1>1 DEF DepositF, SettleUser, CalculatePendingRewards, SharesFor, FitsU64, MulDiv,
        AnyPool!DepositF, AnyPool!SettleUser, AnyPool!CalculatePendingRewards,
        AnyPool!SharesFor, AnyPool!FitsU64, AnyPool!MulDiv
<1>2. ASSUME NEW u \in Positions, NEW f \in Nat, WithdrawF(u, f) PROVE AnyPool!WithdrawF(u, f)
  BY <1>2 DEF WithdrawF, SettleUser, CalculatePendingRewards, SharesFor, EffectiveBalance, FitsU64, MulDiv,
        AnyPool!WithdrawF, AnyPool!SettleUser, AnyPool!CalculatePendingRewards,
        AnyPool!SharesFor, AnyPool!EffectiveBalance, AnyPool!FitsU64, AnyPool!MulDiv
<1>3. ASSUME NEW f \in Nat, NEW r \in Nat, SpControllerRebalance(f, r)
      PROVE  AnyPool!SpControllerRebalance(f, r)
  BY <1>3 DEF SpControllerRebalance, AllowedBurn, AllowedPayout, ShrunkScale, SpQuoteBurnCap,
        Accrue, FitsU64, MulDiv,
        AnyPool!SpControllerRebalance, AnyPool!AllowedBurn, AnyPool!AllowedPayout,
        AnyPool!ShrunkScale, AnyPool!SpQuoteBurnCap, AnyPool!Accrue, AnyPool!FitsU64, AnyPool!MulDiv
<1>4. ASSUME NEW u \in Positions, ClaimRewards(u) PROVE AnyPool!ClaimRewards(u)
  BY <1>4 DEF ClaimRewards, SettleUser, CalculatePendingRewards, FitsU64, MulDiv,
        AnyPool!ClaimRewards, AnyPool!SettleUser, AnyPool!CalculatePendingRewards,
        AnyPool!FitsU64, AnyPool!MulDiv
<1>5. ASSUME NEW r \in Nat, SpIndexHarvest(r) PROVE AnyPool!SpIndexHarvest(r)
  BY <1>5 DEF SpIndexHarvest, Accrue, FitsU64, MulDiv,
        AnyPool!SpIndexHarvest, AnyPool!Accrue, AnyPool!FitsU64, AnyPool!MulDiv
<1> QED
  BY <1>1, <1>2, <1>3, <1>4, <1>5 DEF PoolStep, AnyPool!PoolNext, Positions, AnyPool!Positions

\* A step of the protocol is a step of its pool or leaves the pool alone.
LEMMA LeafStepIsPoolStep ==
    ASSUME LeafInv, [Next]_vars
    PROVE  [PoolStep]_poolVars
<1>0. LeafTypeOK /\ PoolInv /\ pool_f <= nf
  BY DEF LeafInv
<1>1. CASE \/ \E d \in Nat : MintF(d)
           \/ \E d \in Nat : MintX(d)
           \/ \E f \in Nat, delegate \in BOOLEAN : RedeemFWith(f, delegate)
           \/ \E x \in Nat, delegate \in BOOLEAN : RedeemXWith(x, delegate)
           \/ \E i \in Tickets : ClaimRedemption(i)
           \/ \E i \in Tickets : KeeperExecuteRedemption(i)
           \/ \E i \in Tickets : ReclaimExpiredTicket(i)
           \/ \E p \in Nat \ {0} : UpdateFromOracle(p)
           \/ UNCHANGED <<poolVars, bookVars, oracleVars, tickets>>
  BY <1>1 DEF MintF, MintX, RedeemFWith, RedeemXWith, ClaimRedemption,
        KeeperExecuteRedemption, ReclaimExpiredTicket, UpdateFromOracle
<1>2. CASE \E u \in Positions, f \in Nat : HolderDeposits(u, f) \/ HolderWithdraws(u, f)
  BY <1>2 DEF HolderDeposits, HolderWithdraws, PoolStep
<1>3. CASE \E u \in Positions : ClaimSpRewards(u)
  BY <1>3 DEF ClaimSpRewards, PoolStep
<1>4. CASE \E t \in Nat \ {0} : ProtocolRebalanceL3(t)
  <2>1. PICK b, y \in Nat : SpControllerRebalance(b, y)
    BY <1>0, <1>4, RebalanceEffect
  <2> QED BY <2>1 DEF PoolStep
<1> QED
  BY <1>1, <1>2, <1>3, <1>4, StepKinds

(***************************************************************************)
(* The protocol implements its stability pool: seen from the pool, every   *)
(* run of the protocol is one of the pool's operations after the other,    *)
(* a rebalance's burn and payout included (leafsii.move's calls of         *)
(* deposit_f, withdraw_f, sp_controller_rebalance, burn_from_pool,         *)
(* settle_user and decrease_obligation).                                   *)
(***************************************************************************)
THEOREM LeafImplementsPool == Spec => AnyPool!PoolSpec
<1>1. Init => AnyPool!PoolInit
  BY DEF Init, PoolInit, AnyPool!PoolInit, Positions, AnyPool!Positions
<1>2. LeafInv /\ [Next]_vars => [AnyPool!PoolNext]_AnyPool!poolVars
  BY LeafStepIsPoolStep, StepOfAnyPool DEF poolVars, AnyPool!poolVars
<1> QED
  BY <1>1, <1>2, LeafInitInv, LeafStepInv, PTL DEF Spec, AnyPool!PoolSpec

(***************************************************************************)
(* No step of the protocol takes a depositor's pending rewards away other  *)
(* than by paying them or by the depositor's own deposit or withdrawal:    *)
(* neither mints and redeems nor a rebalance, at whatever price.           *)
(***************************************************************************)
THEOREM LeafRewardsLeavePaidOrSettled == Spec => RewardsLeavePaidOrSettled
<1>1. LeafInv /\ [Next]_vars
          => [\A u \in Positions :
                CalculatePendingRewards(u)' < CalculatePendingRewards(u) =>
                    \/ sp_obligation_r_amount - sp_obligation_r_amount'
                          = CalculatePendingRewards(u) - CalculatePendingRewards(u)'
                    \/ sp_scaled'[u] # sp_scaled[u]]_poolVars
  BY LeafStepIsPoolStep, PoolStepPaysOrSettles DEF PaidOrSettled, LeafInv
<1> QED
  BY <1>1, LeafInitInv, LeafStepInv, PTL DEF Spec, RewardsLeavePaidOrSettled

=============================================================================
