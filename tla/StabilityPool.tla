--------------------------- MODULE StabilityPool ---------------------------
(***************************************************************************)
(* The stability pool of sources/stability_pool.move.                      *)
(*                                                                         *)
(* Depositors hold scaled shares.  A rebalance burns fTokens from all of   *)
(* them at once by shrinking the global factor sp_scale, and compensates   *)
(* them by raising the cumulative reward index sp_index_r_scaled; what the *)
(* index promises is recorded, unpaid, in sp_obligation_r_amount.  Nobody  *)
(* iterates over the depositors: each one catches up with the index when   *)
(* it next touches its position.                                           *)
(*                                                                         *)
(* Every Move transaction is atomic, so every public operation is one      *)
(* action, and a transaction that aborts changes nothing: the abort        *)
(* conditions are the actions' guards.                                     *)
(*                                                                         *)
(* One pool per fToken is assumed: a position names no pool, so the code   *)
(* would take it to any other pool of the same fToken type.                *)
(***************************************************************************)
EXTENDS FixedPoint, FiniteSets, Functions

CONSTANTS
    NumPositions,             \* number of SPPosition objects
    SCALE_FACTOR,             \* 1e9: the fixed-point one of sp_scale
    REWARD_SCALE,             \* 1e18: the fixed-point one of the index
    BPS,                      \* 10_000
    SP_MAX_BURN_FRAC_CALL,    \* 5_000 of BPS: at most half the pool a call
    HARVEST_BOUNTY_BPS,       \* 100 of BPS
    MAX_U128,                 \* largest index value
    FAmounts,                 \* fToken amounts callers pass
    RAmounts                  \* payout and yield amounts callers pass

ASSUME PoolAssumption ==
    /\ NumPositions \in Nat \ {0}
    /\ SCALE_FACTOR \in Nat \ {0}
    /\ REWARD_SCALE \in Nat \ {0}
    /\ BPS \in Nat \ {0}
    /\ SP_MAX_BURN_FRAC_CALL \in 0 .. BPS - 1
    /\ HARVEST_BOUNTY_BPS \in 0 .. BPS
    /\ MAX_U128 \in Nat
    /\ SCALE_FACTOR <= MAX_U64
    /\ FAmounts \subseteq Nat
    /\ RAmounts \subseteq Nat

Positions == 1 .. NumPositions

VARIABLES
    pool_f,                   \* fTokens in custody
    sp_scale,                 \* global shrink factor
    sp_scaled_total,          \* sum of the positions' shares
    sp_index_r_scaled,        \* cumulative reward per share
    sp_obligation_r_amount,   \* rewards promised and not yet paid
    sp_scaled,                \* SPPosition.sp_scaled, per position
    sp_index_snap             \* SPPosition.sp_index_snap, per position

poolVars == <<pool_f, sp_scale, sp_scaled_total, sp_index_r_scaled,
              sp_obligation_r_amount, sp_scaled, sp_index_snap>>

(***************************************************************************)
(* What a position is worth.                                               *)
(***************************************************************************)

\* Mutant: the balance is rounded up
EffectiveBalanceUp(u) == MulDivCeil(sp_scaled[u], sp_scale, SCALE_FACTOR)

\* get_user_position_info, first result; withdraw_f calls it "available"
EffectiveBalance(u) == MulDiv(sp_scaled[u], sp_scale, SCALE_FACTOR)

CalculatePendingRewards(u) ==
    IF sp_scaled[u] = 0 THEN 0
    ELSE MulDiv(sp_scaled[u], sp_index_r_scaled - sp_index_snap[u], REWARD_SCALE)

SharesFor(f) == MulDiv(f, SCALE_FACTOR, sp_scale)

SpQuoteBurnCap == MulDiv(pool_f, SP_MAX_BURN_FRAC_CALL, BPS)

(***************************************************************************)
(* settle_user: the snapshot catches up with the index.  The amount owed   *)
(* is the function's result; the cast to u64 in                            *)
(* calculate_pending_rewards aborts when it does not fit.                  *)
(***************************************************************************)
\* Mutant: the snapshot is left behind
SettleUserSkipped(u) ==
    /\ FitsU64(CalculatePendingRewards(u))
    /\ UNCHANGED sp_index_snap

SettleUser(u) ==
    /\ FitsU64(CalculatePendingRewards(u))
    /\ sp_index_snap' = [sp_index_snap EXCEPT ![u] = sp_index_r_scaled]

(***************************************************************************)
(* deposit_f.  The owed amount settle_user returns is dropped (_owed).     *)
(***************************************************************************)
\* Mutant: the pool's total is not raised
DepositForgetsTotal(u, f) ==
    /\ f > 0
    /\ SettleUser(u)
    /\ sp_scale > 0
    /\ FitsU64(SharesFor(f))
    /\ FitsU64(sp_scaled_total + SharesFor(f))
    /\ FitsU64(pool_f + f)
    /\ sp_scaled' = [sp_scaled EXCEPT ![u] = @ + SharesFor(f)]
    /\ pool_f' = pool_f + f
    /\ UNCHANGED <<sp_scale, sp_scaled_total, sp_index_r_scaled,
                   sp_obligation_r_amount>>

DepositF(u, f) ==
    /\ f > 0
    /\ SettleUser(u)
    /\ sp_scale > 0                                \* mul_div: divisor
    /\ FitsU64(sp_scaled[u] + SharesFor(f))
    /\ FitsU64(sp_scaled_total + SharesFor(f))
    /\ FitsU64(pool_f + f)                         \* fToken supply is a u64
    /\ sp_scaled' = [sp_scaled EXCEPT ![u] = @ + SharesFor(f)]
    /\ sp_scaled_total' = sp_scaled_total + SharesFor(f)
    /\ pool_f' = pool_f + f
    /\ UNCHANGED <<sp_scale, sp_index_r_scaled, sp_obligation_r_amount>>

(***************************************************************************)
(* withdraw_f.  The owed amount is dropped here too.  The two share        *)
(* subtractions and balance::split abort when they would underflow.        *)
(***************************************************************************)
WithdrawF(u, f) ==
    /\ f > 0
    /\ SettleUser(u)
    /\ f <= EffectiveBalance(u)
    /\ sp_scale > 0
    /\ SharesFor(f) <= sp_scaled[u]
    /\ SharesFor(f) <= sp_scaled_total
    /\ f <= pool_f
    /\ sp_scaled' = [sp_scaled EXCEPT ![u] = @ - SharesFor(f)]
    /\ sp_scaled_total' = sp_scaled_total - SharesFor(f)
    /\ pool_f' = pool_f - f
    /\ UNCHANGED <<sp_scale, sp_index_r_scaled, sp_obligation_r_amount>>

(***************************************************************************)
(* Index accrual, shared by sp_controller_rebalance and sp_index_harvest:  *)
(* r is spread over all shares, rounding the increment down.               *)
(***************************************************************************)
Accrue(r) ==
    LET delta == MulDiv(r, REWARD_SCALE, sp_scaled_total)
    IN  /\ sp_index_r_scaled + delta <= MAX_U128
        /\ FitsU64(sp_obligation_r_amount + r)
        /\ sp_index_r_scaled' = sp_index_r_scaled + delta
        /\ sp_obligation_r_amount' = sp_obligation_r_amount + r

\* Mutant: the cap per call is not applied
AllowedBurnUncapped(f_burn) == f_burn

AllowedBurn(f_burn) == IF f_burn > SpQuoteBurnCap THEN SpQuoteBurnCap ELSE f_burn

AllowedPayout(f_burn, payout) ==
    IF f_burn # AllowedBurn(f_burn)
    THEN MulDiv(payout, AllowedBurn(f_burn), f_burn)
    ELSE payout

ShrunkScale(burn) ==
    MulDiv(sp_scale, SCALE_FACTOR - MulDiv(burn, SCALE_FACTOR, pool_f), SCALE_FACTOR)

(***************************************************************************)
(* sp_controller_rebalance followed, in the same transaction, by           *)
(* burn_from_pool of the burn it returned (the protocol makes both calls). *)
(* The early returns (0, 0) change nothing and are the guard's negation.   *)
(***************************************************************************)
SpControllerRebalance(f_burn, payout) ==
    /\ pool_f > 0
    /\ f_burn > 0
    /\ AllowedBurn(f_burn) > 0
    /\ IF sp_scaled_total > 0
       THEN Accrue(AllowedPayout(f_burn, payout))
       ELSE UNCHANGED <<sp_index_r_scaled, sp_obligation_r_amount>>
    /\ sp_scale' = ShrunkScale(AllowedBurn(f_burn))
    /\ pool_f' = pool_f - AllowedBurn(f_burn)
    /\ UNCHANGED <<sp_scaled_total, sp_scaled, sp_index_snap>>

\* Mutant: a claim rounds its payment down to an even amount
ClaimRewardsEven(u) ==
    LET owed == CalculatePendingRewards(u)
    IN  /\ SettleUser(u)
        /\ owed > 1
        /\ sp_obligation_r_amount >= owed
        /\ sp_obligation_r_amount' = sp_obligation_r_amount - 2 * (owed \div 2)
        /\ UNCHANGED <<pool_f, sp_scale, sp_scaled_total, sp_index_r_scaled, sp_scaled>>

(***************************************************************************)
(* The pool's half of claim_sp_rewards: settle_user, then                  *)
(* decrease_obligation by the owed amount, which asserts that the          *)
(* obligation covers it.                                                   *)
(***************************************************************************)
ClaimRewards(u) ==
    LET owed == CalculatePendingRewards(u)
    IN  /\ SettleUser(u)
        /\ owed > 0
        /\ sp_obligation_r_amount >= owed
        /\ sp_obligation_r_amount' = sp_obligation_r_amount - owed
        /\ UNCHANGED <<pool_f, sp_scale, sp_scaled_total, sp_index_r_scaled, sp_scaled>>

(***************************************************************************)
(* sp_index_harvest: 1% of the yield is the caller's bounty, the rest is   *)
(* indexed.  With no yield or no shares the coin is returned untouched.    *)
(***************************************************************************)
SpIndexHarvest(yield_amount) ==
    LET bounty == MulDiv(yield_amount, HARVEST_BOUNTY_BPS, BPS)
    IN  /\ yield_amount > 0
        /\ sp_scaled_total > 0
        /\ Accrue(yield_amount - bounty)
        /\ UNCHANGED <<pool_f, sp_scale, sp_scaled_total, sp_scaled, sp_index_snap>>

-----------------------------------------------------------------------------

\* create_stability_pool, and create_position for every position
PoolInit ==
    /\ pool_f = 0
    /\ sp_scale = SCALE_FACTOR
    /\ sp_scaled_total = 0
    /\ sp_index_r_scaled = 0
    /\ sp_obligation_r_amount = 0
    /\ sp_scaled = [u \in Positions |-> 0]
    /\ sp_index_snap = [u \in Positions |-> 0]

PoolNext ==
    \/ \E u \in Positions, f \in FAmounts : DepositF(u, f)
    \/ \E u \in Positions, f \in FAmounts : WithdrawF(u, f)
    \/ \E f \in FAmounts, r \in RAmounts : SpControllerRebalance(f, r)
    \/ \E u \in Positions : ClaimRewards(u)
    \/ \E r \in RAmounts : SpIndexHarvest(r)

PoolSpec == PoolInit /\ [][PoolNext]_poolVars

-----------------------------------------------------------------------------

(***************************************************************************)
(* Type invariant of the pool object and its positions.                    *)
(***************************************************************************)
PoolTypeOK ==
    /\ pool_f \in 0 .. MAX_U64
    /\ sp_scale \in 0 .. SCALE_FACTOR
    /\ sp_scaled_total \in 0 .. MAX_U64
    /\ sp_index_r_scaled \in 0 .. MAX_U128
    /\ sp_obligation_r_amount \in 0 .. MAX_U64
    /\ sp_scaled \in [Positions -> 0 .. MAX_U64]
    /\ sp_index_snap \in [Positions -> 0 .. MAX_U128]

(***************************************************************************)
(* The pool's total is the sum of the shares of all positions, so that     *)
(* spreading a payout over sp_scaled_total (sp_controller_rebalance,       *)
(* sp_index_harvest) spreads it over the depositors and nobody else.       *)
(***************************************************************************)
SharesAccounted == sp_scaled_total = SumFunction(sp_scaled)

(***************************************************************************)
(* Whatever a depositor is owed is still covered by the obligation, in     *)
(* every order in which depositors join, leave, are burned and claim: the  *)
(* assertion of decrease_obligation never blocks a claim.  Claims lower    *)
(* the obligation, so the invariant also says that all depositors can      *)
(* claim one after the other.                                              *)
(***************************************************************************)
RewardsCovered ==
    \A u \in Positions : CalculatePendingRewards(u) <= sp_obligation_r_amount

(***************************************************************************)
(* A withdrawal of anything up to the available balance burns no more      *)
(* shares than the position has (the u64 subtraction in withdraw_f cannot  *)
(* underflow), although balance and shares are rounded independently.      *)
(***************************************************************************)
WithdrawalSharesSuffice ==
    sp_scale > 0 =>
        \A u \in Positions :
            \A f \in 0 .. EffectiveBalance(u) : SharesFor(f) <= sp_scaled[u]

(***************************************************************************)
(* Pending rewards of a position go down only by being paid, the           *)
(* obligation going down by as much, or by the position's own deposit or   *)
(* withdrawal, which settles it and drops the amount (stability_pool.move  *)
(* line 12 promises that rewards can be claimed at any time).  Neither the *)
(* other depositors nor a burn or a harvest can take them away.            *)
(***************************************************************************)
RewardsLeavePaidOrSettled ==
    [][\A u \in Positions :
          CalculatePendingRewards(u)' < CalculatePendingRewards(u) =>
              \/ sp_obligation_r_amount - sp_obligation_r_amount'
                    = CalculatePendingRewards(u) - CalculatePendingRewards(u)'
              \/ sp_scaled'[u] # sp_scaled[u]]_poolVars

=============================================================================
