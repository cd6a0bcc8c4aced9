------------------------------ MODULE Leafsii ------------------------------
(***************************************************************************)
(* The protocol object of sources/leafsii.move, composed with the          *)
(* stability pool it is bound to (authorized_pool_id).                     *)
(*                                                                         *)
(* SUI deposits back two tokens: fTokens, worth PF_FIXED each, and         *)
(* xTokens, which own what is left.  The collateral ratio selects one of   *)
(* four levels that decide which operations are open and what they cost.   *)
(* A redemption the liquid buffer cannot pay in full becomes a ticket.     *)
(*                                                                         *)
(* Every transaction is atomic and an abort changes nothing, so every      *)
(* operation is one action whose guards are the asserts, the non-zero      *)
(* divisors and the u64 range checks of the code.  Token holders are       *)
(* anonymous: whoever redeems f fTokens holds them, so f is at most the    *)
(* supply outside the pool.                                                *)
(*                                                                         *)
(* No operation ever sets current_validator_address, which init_protocol   *)
(* leaves at @0x0.  Hence nothing is ever staked: the stake, its FSS and   *)
(* the fee treasury stay empty, rebalance_buffer and                       *)
(* settle_and_consolidate change nothing, withdraw_fees always aborts, and *)
(* the FSS top-up of claim_redemption and keeper_execute_redemption fails. *)
(***************************************************************************)
EXTENDS StabilityPool

CONSTANTS
    PF_FIXED,                    \* 1e9: the fToken price
    EPS,                         \* 1000: dust
    CR_T_L1, CR_T_L2, CR_T_L3,   \* level thresholds, scaled by SCALE_FACTOR
    MAX_STALENESS_MS,            \* longest age of the last oracle update
    MAX_REL_STEP,                \* largest relative price step
    InitialPrice, InitialReserve,
    Deposits,                    \* SUI amounts users deposit
    Redeems,                     \* token amounts users redeem
    Prices,                      \* prices the oracle reports
    FeeConfigs,                  \* fee configurations the admin may set
    InitialFeeConfig,
    UserActionSettings,          \* values of set_user_actions_allowed
    OperationFees,               \* values of set_delegate_operation_fee
    DEFAULT_DELEGATE_OPERATION_FEE,
    Expirations,                 \* values of set_ticket_expiration
    DEFAULT_TICKET_EXPIRATION_MS,
    MIN_TICKET_EXPIRATION_MS, MAX_TICKET_EXPIRATION_MS,   \* 1 hour, 30 days
    TargetCRs,                   \* targets the admin passes to a rebalance
    NumTickets,                  \* bound: tickets outstanding at once
    MaxReserve,                  \* bound: SUI on the books after a mint
    MaxTime                      \* bound: the clock

FeeConfigType ==
    [mint_f : Nat, mint_x : Nat, redeem_f : Nat, redeem_x : Nat,
     l1_redeem_x : Nat, bonus : Nat]

ASSUME LeafsiiAssumption ==
    /\ PF_FIXED \in Nat \ {0}
    /\ EPS \in Nat /\ EPS < PF_FIXED
    /\ CR_T_L1 \in Nat /\ CR_T_L2 \in Nat /\ CR_T_L3 \in Nat
    /\ CR_T_L3 <= CR_T_L2 /\ CR_T_L2 <= CR_T_L1
    /\ MAX_STALENESS_MS \in Nat
    /\ MAX_REL_STEP \in Nat
    /\ InitialPrice \in Nat \ {0}
    /\ InitialReserve \in Nat \ {0}
    /\ Deposits \subseteq Nat /\ Redeems \subseteq Nat
    /\ Prices \subseteq Nat \ {0}
    /\ FeeConfigs \subseteq FeeConfigType /\ InitialFeeConfig \in FeeConfigType
    /\ UserActionSettings \subseteq BOOLEAN
    /\ OperationFees \subseteq Nat /\ DEFAULT_DELEGATE_OPERATION_FEE \in Nat
    /\ Expirations \subseteq Nat /\ DEFAULT_TICKET_EXPIRATION_MS \in Nat
    /\ TargetCRs \subseteq Nat \ {0}
    /\ NumTickets \in Nat /\ MaxReserve \in Nat /\ MaxTime \in Nat

Tickets == 1 .. NumTickets

VARIABLES
    reserve_buffer_sui,             \* SUI in custody
    reserve_balance_sui,            \* SUI the books say is backing the tokens
    fees_collected_sui,             \* SUI the books say is fees
    nf,                             \* fToken supply
    nx,                             \* xToken supply
    last_reserve_price,
    px,                             \* xToken price, as of the last update_px
    last_oracle_ts,
    allow_user_actions,
    fee_config,
    delegate_redeem_operation_fee,
    ticket_expiration_ms,
    tickets,                        \* outstanding RedemptionTickets
    now                             \* the Clock

adminVars == <<allow_user_actions, fee_config, delegate_redeem_operation_fee,
               ticket_expiration_ms>>
oracleVars == <<last_reserve_price, last_oracle_ts>>
bookVars == <<reserve_buffer_sui, reserve_balance_sui, fees_collected_sui, nf, nx, px>>
vars == <<poolVars, adminVars, oracleVars, bookVars, tickets, now>>

\* A ticket is issued for a positive shortfall, so amount 0 marks a free slot.
\* Its owner is left out: claim_redemption aborts for everyone else.
NoTicket == [amount |-> 0, expiration |-> 0, operation_fee |-> 0, delegate |-> FALSE]

TicketType == [amount : Nat, expiration : Nat, operation_fee : Nat, delegate : BOOLEAN]

-----------------------------------------------------------------------------
(* Collateral ratio and levels. *)

ReserveUsd == reserve_balance_sui * last_reserve_price

ReserveNetUsd ==
    SafeSub(reserve_balance_sui, sp_obligation_r_amount) * last_reserve_price

\* Mutant: the obligation to the stability pool is not subtracted
CollateralRatioGross ==
    IF nf * PF_FIXED <= EPS THEN CR_T_L1 + 1
    ELSE MulDiv(ReserveUsd, SCALE_FACTOR, nf * PF_FIXED)

CollateralRatio ==
    IF nf * PF_FIXED <= EPS THEN CR_T_L1 + 1
    ELSE MulDiv(ReserveNetUsd, SCALE_FACTOR, nf * PF_FIXED)

CurrentLevel ==
    CASE CollateralRatio >= CR_T_L1 -> 0      \* LEVEL_NORMAL
      [] CollateralRatio >= CR_T_L2 /\ CollateralRatio < CR_T_L1 -> 1
      [] CollateralRatio >= CR_T_L3 /\ CollateralRatio < CR_T_L2 -> 2
      [] CollateralRatio < CR_T_L3 -> 3

\* calculate_fee_amount and calculate_bonus_amount
FeeAmount(amount, bps) == MulDiv(amount, bps, BPS)

MintXBonusRate == IF CurrentLevel >= 1 THEN fee_config.bonus ELSE 0
RedeemFFeeRate == IF CurrentLevel >= 1 THEN 0 ELSE fee_config.redeem_f
RedeemFBonusRate == IF CurrentLevel >= 2 THEN fee_config.bonus ELSE 0
RedeemXFeeRate ==
    IF CurrentLevel = 1 THEN fee_config.l1_redeem_x ELSE fee_config.redeem_x

(***************************************************************************)
(* update_px on the state an operation leaves behind: reserve r at price   *)
(* p, supplies f and x.                                                    *)
(***************************************************************************)
PxOf(r, p, f, x) ==
    IF x > EPS /\ r * p > f * PF_FIXED THEN (r * p - f * PF_FIXED) \div x ELSE 0

UpdatePx ==
    /\ px' = PxOf(reserve_balance_sui', last_reserve_price', nf', nx')
    /\ FitsU64(px')

\* What every mint and redemption checks first: user actions are enabled and
\* current_level, which all of them call, does not abort on its u64 result.
UserActionOpen == allow_user_actions /\ FitsU64(CollateralRatio)

-----------------------------------------------------------------------------
(* Oracle. *)

RelChange(new) ==
    IF last_reserve_price > new
    THEN MulDiv(last_reserve_price - new, SCALE_FACTOR, last_reserve_price)
    ELSE MulDiv(new - last_reserve_price, SCALE_FACTOR, last_reserve_price)

\* The checks of update_from_oracle: the age is that of the protocol's own
\* last update.
OracleUpdateAllowed(new) ==
    last_oracle_ts # 0 =>
        /\ now - last_oracle_ts <= MAX_STALENESS_MS
        /\ RelChange(new) <= MAX_REL_STEP

UpdateFromOracle(new) ==
    /\ OracleUpdateAllowed(new)
    /\ last_reserve_price' = new
    /\ last_oracle_ts' = now
    /\ UNCHANGED <<poolVars, adminVars, reserve_buffer_sui, reserve_balance_sui,
                   fees_collected_sui, nf, nx, tickets, now>>
    /\ UpdatePx

-----------------------------------------------------------------------------
(* Minting. *)

\* Mutant: the tracked reserve balance is not raised
MintFForgetsReserve(deposit) ==
    LET fee == FeeAmount(deposit, fee_config.mint_f)
        minted == MulDiv(deposit - fee, last_reserve_price, PF_FIXED)
    IN  /\ deposit > 0 /\ UserActionOpen /\ CurrentLevel = 0
        /\ fee <= deposit
        /\ reserve_balance_sui + fees_collected_sui + deposit <= MaxReserve
        /\ reserve_buffer_sui' = reserve_buffer_sui + deposit
        /\ fees_collected_sui' = fees_collected_sui + fee
        /\ nf' = nf + minted /\ FitsU64(nf')
        /\ UNCHANGED <<reserve_balance_sui, nx, poolVars, adminVars, oracleVars,
                       tickets, now>>
        /\ UpdatePx

MintF(deposit) ==
    LET fee == FeeAmount(deposit, fee_config.mint_f)
        minted == MulDiv(deposit - fee, last_reserve_price, PF_FIXED)
    IN  /\ deposit > 0
        /\ UserActionOpen
        /\ CurrentLevel = 0                    \* require_ftoken_mint_allowed
        /\ fee <= deposit
        /\ reserve_balance_sui + fees_collected_sui + deposit <= MaxReserve
        /\ reserve_buffer_sui' = reserve_buffer_sui + deposit
        /\ fees_collected_sui' = fees_collected_sui + fee
        /\ reserve_balance_sui' = reserve_balance_sui + (deposit - fee)
        /\ nf' = nf + minted
        /\ FitsU64(nf')
        /\ UNCHANGED <<nx, poolVars, adminVars, oracleVars, tickets, now>>
        /\ UpdatePx

\* Mutant: the xTokens minted are rounded up
MintXAtPriceUp(deposit, fee, bonus, price) ==
    LET minted == MulDivCeil((deposit - fee) + bonus, last_reserve_price, price)
    IN  /\ price > 0
        /\ nx' = nx + minted
        /\ FitsU64(nx')

\* A bonus mints xTokens for more than was deposited; the books only grow by
\* the deposit net of the fee.
MintXAtPrice(deposit, fee, bonus, price) ==
    LET minted == MulDiv((deposit - fee) + bonus, last_reserve_price, price)
    IN  /\ price > 0                           \* div_back_u64: divisor
        /\ nx' = nx + minted
        /\ FitsU64(nx')

MintX(deposit) ==
    LET fee == FeeAmount(deposit, fee_config.mint_x)
        bonus == FeeAmount(deposit, MintXBonusRate)
    IN  /\ deposit > 0
        /\ UserActionOpen
        /\ fee <= deposit
        /\ reserve_balance_sui + fees_collected_sui + deposit <= MaxReserve
        /\ reserve_buffer_sui' = reserve_buffer_sui + deposit
        /\ fees_collected_sui' = fees_collected_sui + fee
        /\ reserve_balance_sui' = reserve_balance_sui + (deposit - fee)
        /\ MintXAtPrice(deposit, fee, bonus,
                        IF nx = 0 THEN last_reserve_price ELSE px)
        /\ UNCHANGED <<nf, poolVars, adminVars, oracleVars, tickets, now>>
        /\ UpdatePx

-----------------------------------------------------------------------------
(* Redemption. *)

(***************************************************************************)
(* apply_redemption_flow: pay from the buffer; when it is too small, pay   *)
(* all of it and issue a ticket for the shortfall.                         *)
(***************************************************************************)
ApplyRedemptionFlow(needed, delegate) ==
    \/ /\ reserve_buffer_sui >= needed
       /\ reserve_buffer_sui' = reserve_buffer_sui - needed
       /\ UNCHANGED tickets
    \/ /\ reserve_buffer_sui < needed
       /\ reserve_buffer_sui' = 0
       /\ \E i \in Tickets :
             /\ tickets[i].amount = 0
             /\ \A j \in 1 .. i - 1 : tickets[j].amount > 0
             /\ tickets' = [tickets EXCEPT ![i] =
                   [amount |-> needed - reserve_buffer_sui,
                    expiration |-> now + ticket_expiration_ms,
                    operation_fee |-> IF delegate THEN delegate_redeem_operation_fee ELSE 0,
                    delegate |-> delegate]]

\* What redeem_f and redeem_x treat as payable: the books including fees, net
\* of the obligation to the stability pool.
RedeemableReserve ==
    SafeSub(reserve_balance_sui + fees_collected_sui, sp_obligation_r_amount)

RedeemFBase(f) == MulDiv(f, PF_FIXED, last_reserve_price)

\* the bonus, capped to what is left of the redeemable reserve
RedeemFBonus(f) ==
    LET base == RedeemFBase(f)
        net == base - FeeAmount(base, RedeemFFeeRate)
        bonus == FeeAmount(base, RedeemFBonusRate)
    IN  IF net + bonus > RedeemableReserve THEN RedeemableReserve - net ELSE bonus

\* Mutant: the reserve is not checked against the payout
RedeemFUnchecked(f, delegate) ==
    LET base == RedeemFBase(f)
        fee == FeeAmount(base, RedeemFFeeRate)
    IN  /\ f > 0
        /\ UserActionOpen
        /\ f <= nf - pool_f
        /\ ApplyRedemptionFlow(base - fee, delegate)
        /\ nf' = nf - f
        /\ reserve_balance_sui' = reserve_balance_sui - base
        /\ fees_collected_sui' = fees_collected_sui + fee
        /\ UNCHANGED <<nx, poolVars, adminVars, oracleVars, now>>
        /\ UpdatePx

RedeemFWith(f, delegate) ==
    LET base == RedeemFBase(f)
        fee == FeeAmount(base, RedeemFFeeRate)
        bonus == RedeemFBonus(f)
    IN  /\ f > 0
        /\ UserActionOpen
        /\ f <= nf - pool_f
        /\ fee <= base
        /\ base - fee <= RedeemableReserve
        /\ FitsU64(base)
        /\ bonus <= base                          \* base - bonus, unsigned
        /\ base - bonus <= reserve_balance_sui
        /\ ApplyRedemptionFlow(base - fee + bonus, delegate)
        /\ nf' = nf - f
        /\ reserve_balance_sui' = reserve_balance_sui - (base - bonus)
        /\ fees_collected_sui' = fees_collected_sui + fee
        /\ UNCHANGED <<nx, poolVars, adminVars, oracleVars, now>>
        /\ UpdatePx

RedeemF(f) == RedeemFWith(f, FALSE)
RedeemFDelegate(f) == RedeemFWith(f, TRUE)

RedeemXWith(x, delegate) ==
    LET base == MulDiv(x, px, last_reserve_price)
        fee == FeeAmount(base, RedeemXFeeRate)
    IN  /\ x > 0
        /\ UserActionOpen
        /\ x <= nx
        /\ fee <= base
        /\ base - fee <= RedeemableReserve
        /\ base <= reserve_balance_sui
        /\ ApplyRedemptionFlow(base - fee, delegate)
        /\ nx' = nx - x
        /\ reserve_balance_sui' = reserve_balance_sui - base
        /\ fees_collected_sui' = fees_collected_sui + fee
        /\ UNCHANGED <<nf, poolVars, adminVars, oracleVars, now>>
        /\ UpdatePx

RedeemX(x) == RedeemXWith(x, FALSE)
RedeemXDelegate(x) == RedeemXWith(x, TRUE)

-----------------------------------------------------------------------------
(* Tickets. *)

Live(i) == tickets[i].amount > 0
\* Mutant: reclaimable at the very instant of the expiration
ExpiredEarly(i) == now >= tickets[i].expiration

Expired(i) == now > tickets[i].expiration

\* A ticket names no protocol and init_protocol is open to all: that the ticket
\* is one of this object's is an assumption of the model, not a check of the code.
ClaimRedemption(i) ==
    /\ Live(i) /\ ~Expired(i)
    /\ tickets[i].amount <= reserve_buffer_sui
    /\ reserve_buffer_sui' = reserve_buffer_sui - tickets[i].amount
    /\ tickets' = [tickets EXCEPT ![i] = NoTicket]
    /\ UNCHANGED <<reserve_balance_sui, fees_collected_sui, nf, nx, px,
                   poolVars, adminVars, oracleVars, now>>

KeeperExecuteRedemption(i) ==
    /\ Live(i) /\ ~Expired(i)
    /\ tickets[i].delegate
    /\ tickets[i].amount + tickets[i].operation_fee <= reserve_buffer_sui
    /\ reserve_buffer_sui' =
           reserve_buffer_sui - (tickets[i].amount + tickets[i].operation_fee)
    /\ tickets' = [tickets EXCEPT ![i] = NoTicket]
    /\ UNCHANGED <<reserve_balance_sui, fees_collected_sui, nf, nx, px,
                   poolVars, adminVars, oracleVars, now>>

\* Mutant: an expired ticket is destroyed and its amount forgotten
ReclaimForgets(i) ==
    /\ Live(i) /\ Expired(i)
    /\ tickets' = [tickets EXCEPT ![i] = NoTicket]
    /\ UNCHANGED <<reserve_balance_sui, reserve_buffer_sui, fees_collected_sui,
                   nf, nx, px, poolVars, adminVars, oracleVars, now>>

ReclaimExpiredTicket(i) ==
    /\ Live(i) /\ Expired(i)
    /\ reserve_balance_sui' = reserve_balance_sui + tickets[i].amount
    /\ tickets' = [tickets EXCEPT ![i] = NoTicket]
    /\ UNCHANGED <<reserve_buffer_sui, fees_collected_sui, nf, nx, px,
                   poolVars, adminVars, oracleVars, now>>

-----------------------------------------------------------------------------
(* The stability pool, used by holders and by the protocol. *)

HolderDeposits(u, f) ==
    /\ f <= nf - pool_f
    /\ DepositF(u, f)
    /\ UNCHANGED <<bookVars, adminVars, oracleVars, tickets, now>>

HolderWithdraws(u, f) ==
    /\ WithdrawF(u, f)
    /\ UNCHANGED <<bookVars, adminVars, oracleVars, tickets, now>>

\* Mutant: the payout is taken off the books once when withdrawn and once more
ClaimBooksTwice(u) ==
    LET owed == CalculatePendingRewards(u)
    IN  /\ owed <= reserve_buffer_sui
        /\ 2 * owed <= reserve_balance_sui
        /\ ClaimRewards(u)
        /\ reserve_buffer_sui' = reserve_buffer_sui - owed
        /\ reserve_balance_sui' = reserve_balance_sui - 2 * owed
        /\ UNCHANGED <<fees_collected_sui, nf, nx, px, adminVars, oracleVars,
                       tickets, now>>

ClaimSpRewards(u) ==
    LET owed == CalculatePendingRewards(u)
    IN  /\ owed <= reserve_buffer_sui
        /\ owed <= reserve_balance_sui
        /\ ClaimRewards(u)
        /\ reserve_buffer_sui' = reserve_buffer_sui - owed
        /\ reserve_balance_sui' = reserve_balance_sui - owed
        /\ UNCHANGED <<fees_collected_sui, nf, nx, px, adminVars, oracleVars,
                       tickets, now>>

\* The fToken supply protocol_rebalance_l3_to_target steers to.
NfTarget(target_cr) ==
    MulDiv(MulDiv(ReserveNetUsd, SCALE_FACTOR, target_cr), SCALE_FACTOR, PF_FIXED)

RebalanceBurn(target_cr) ==
    LET needed == nf - NfTarget(target_cr)
    IN  IF needed > SpQuoteBurnCap THEN SpQuoteBurnCap ELSE needed

\* Mutant: the burned fTokens are paid for at a premium
RebalancePayoutPremium(f_burn) == MulDiv(f_burn, PF_FIXED + 4, last_reserve_price)

RebalancePayout(f_burn) == MulDiv(f_burn, PF_FIXED, last_reserve_price)

\* Mutant: the xToken price is not recomputed after the burn
RebalanceKeepsPx(target_cr) ==
    /\ nf > EPS
    /\ FitsU64(MulDiv(ReserveNetUsd, SCALE_FACTOR, target_cr))
    /\ NfTarget(target_cr) < nf
    /\ RebalanceBurn(target_cr) > EPS
    /\ SpControllerRebalance(RebalanceBurn(target_cr),
                             RebalancePayout(RebalanceBurn(target_cr)))
    /\ nf' = nf - AllowedBurn(RebalanceBurn(target_cr))
    /\ UNCHANGED <<reserve_buffer_sui, reserve_balance_sui, fees_collected_sui, nx,
                   px, adminVars, oracleVars, tickets, now>>

ProtocolRebalanceL3(target_cr) ==
    /\ nf > EPS
    /\ FitsU64(MulDiv(ReserveNetUsd, SCALE_FACTOR, target_cr))
    /\ FitsU64(NfTarget(target_cr))
    /\ NfTarget(target_cr) < nf
    /\ RebalanceBurn(target_cr) > EPS
    /\ FitsU64(RebalancePayout(RebalanceBurn(target_cr)))
    /\ SpControllerRebalance(RebalanceBurn(target_cr),
                             RebalancePayout(RebalanceBurn(target_cr)))
    /\ nf' = nf - AllowedBurn(RebalanceBurn(target_cr))
    /\ UNCHANGED <<reserve_buffer_sui, reserve_balance_sui, fees_collected_sui, nx,
                   adminVars, oracleVars, tickets, now>>
    /\ UpdatePx

-----------------------------------------------------------------------------
(* Administration and the clock. *)

SetUserActionsAllowed(allowed) ==
    /\ allow_user_actions' = allowed
    /\ UNCHANGED <<fee_config, delegate_redeem_operation_fee, ticket_expiration_ms,
                   poolVars, bookVars, oracleVars, tickets, now>>

SetFeeConfig(c) ==
    /\ fee_config' = c
    /\ UNCHANGED <<allow_user_actions, delegate_redeem_operation_fee,
                   ticket_expiration_ms, poolVars, bookVars, oracleVars, tickets, now>>

SetDelegateOperationFee(fee) ==
    /\ delegate_redeem_operation_fee' = fee
    /\ UNCHANGED <<allow_user_actions, fee_config, ticket_expiration_ms,
                   poolVars, bookVars, oracleVars, tickets, now>>

SetTicketExpiration(ms) ==
    /\ ms >= MIN_TICKET_EXPIRATION_MS /\ ms <= MAX_TICKET_EXPIRATION_MS
    /\ ticket_expiration_ms' = ms
    /\ UNCHANGED <<allow_user_actions, fee_config, delegate_redeem_operation_fee,
                   poolVars, bookVars, oracleVars, tickets, now>>

Tick ==
    /\ now < MaxTime
    /\ now' = now + 1
    /\ UNCHANGED <<poolVars, bookVars, adminVars, oracleVars, tickets>>

-----------------------------------------------------------------------------

\* init_protocol: half of the deposit's value in fTokens, half in xTokens
Init ==
    /\ PoolInit
    /\ reserve_buffer_sui = InitialReserve
    /\ reserve_balance_sui = InitialReserve
    /\ fees_collected_sui = 0
    /\ LET usd == InitialReserve * InitialPrice
       IN  /\ nf = (usd \div 2) \div PF_FIXED
           /\ nx = (usd - usd \div 2) \div InitialPrice
    /\ last_reserve_price = InitialPrice
    /\ px = PxOf(InitialReserve, InitialPrice, nf, nx)
    /\ now = 1
    /\ last_oracle_ts = now
    /\ allow_user_actions = TRUE
    /\ fee_config = InitialFeeConfig
    /\ delegate_redeem_operation_fee = DEFAULT_DELEGATE_OPERATION_FEE
    /\ ticket_expiration_ms = DEFAULT_TICKET_EXPIRATION_MS
    /\ tickets = [i \in Tickets |-> NoTicket]

UserNext ==
    \/ \E d \in Deposits : MintF(d)
    \/ \E d \in Deposits : MintX(d)
    \/ \E f \in Redeems : RedeemF(f)
    \/ \E f \in Redeems : RedeemFDelegate(f)
    \/ \E x \in Redeems : RedeemX(x)
    \/ \E x \in Redeems : RedeemXDelegate(x)
    \/ \E i \in Tickets : ClaimRedemption(i)
    \/ \E i \in Tickets : KeeperExecuteRedemption(i)
    \/ \E i \in Tickets : ReclaimExpiredTicket(i)
    \/ \E u \in Positions, f \in FAmounts : HolderDeposits(u, f)
    \/ \E u \in Positions, f \in FAmounts : HolderWithdraws(u, f)
    \/ \E u \in Positions : ClaimSpRewards(u)

AdminNext ==
    \/ \E p \in Prices : UpdateFromOracle(p)
    \/ \E t \in TargetCRs : ProtocolRebalanceL3(t)
    \/ \E b \in UserActionSettings : SetUserActionsAllowed(b)
    \/ \E c \in FeeConfigs : SetFeeConfig(c)
    \/ \E n \in OperationFees : SetDelegateOperationFee(n)
    \/ \E n \in Expirations : SetTicketExpiration(n)

Next == UserNext \/ AdminNext \/ Tick

Spec == Init /\ [][Next]_vars

-----------------------------------------------------------------------------

(***************************************************************************)
(* Type invariant of the protocol object.                                  *)
(***************************************************************************)
LeafTypeOK ==
    /\ PoolTypeOK
    /\ reserve_buffer_sui \in Nat
    /\ reserve_balance_sui \in Nat
    /\ fees_collected_sui \in Nat
    /\ nf \in Nat /\ nx \in Nat /\ px \in Nat
    /\ last_reserve_price \in Nat \ {0}
    /\ now \in Nat /\ last_oracle_ts \in Nat
    /\ allow_user_actions \in BOOLEAN
    /\ fee_config \in FeeConfigType
    /\ delegate_redeem_operation_fee \in Nat
    /\ ticket_expiration_ms \in Nat
    /\ tickets \in [Tickets -> TicketType]

\* What the protocol owes on its outstanding tickets.
TicketAmounts == [i \in Tickets |-> tickets[i].amount]
TicketTotal == SumFunction(TicketAmounts)

\* Everything the books say the SUI in custody is for.
Books == reserve_balance_sui + fees_collected_sui + TicketTotal

(***************************************************************************)
(* Custody never holds SUI that the books do not account for as backing,   *)
(* fees or queued redemptions, whatever sequence of mints, redemptions,    *)
(* tickets, claims and reclaims is run: no operation strands funds.        *)
(***************************************************************************)
CustodyNeverAhead == reserve_buffer_sui <= Books

\* What the books promise beyond what custody holds.
Gap == Books - reserve_buffer_sui

(***************************************************************************)
(* The books and custody move together, to the last unit: redeem_f of f    *)
(* fTokens opens a gap of exactly twice its bonus (paid out of custody and *)
(* also left on the books), a keeper who executes a delegated ticket in    *)
(* time one of exactly the operation fee of that ticket, and no other step *)
(* changes the gap: minting, redeem_x, queueing a shortfall, claiming a    *)
(* ticket, reclaiming an expired one, a pool claim and a rebalance all     *)
(* conserve it.                                                            *)
(***************************************************************************)
GapOnlyByBonusOrKeeper ==
    [][\/ (nf' >= nf \/ pool_f' < pool_f) /\ Gap' = Gap
       \/ nf' < nf /\ pool_f' = pool_f /\ Gap' = Gap + 2 * RedeemFBonus(nf - nf')
       \/ \E i \in Tickets : /\ Live(i) /\ ~Expired(i) /\ tickets[i].delegate
                             /\ tickets'[i] = NoTicket
                             /\ Gap' = Gap + tickets[i].operation_fee]_vars

(***************************************************************************)
(* A ticket that has not expired ends only by being paid in full from      *)
(* custody, by its holder or by a keeper; up to and including the instant  *)
(* of its expiration nobody can reclaim it.                                *)
(***************************************************************************)
UnexpiredTicketPaid ==
    [][\A i \in Tickets :
          Live(i) /\ now <= tickets[i].expiration /\ tickets'[i] # tickets[i] =>
              reserve_buffer_sui' <= reserve_buffer_sui - tickets[i].amount]_vars

(***************************************************************************)
(* A solvent protocol honours every fToken: while the collateral ratio is  *)
(* at least one, redeem_f of any amount a holder can have passes both its  *)
(* reserve check and the unsigned subtraction from reserve_balance_sui,    *)
(* although the ratio is net of the obligation and the check adds fees.    *)
(***************************************************************************)
SolventRedeemable ==
    CollateralRatio >= SCALE_FACTOR /\ nf * PF_FIXED > EPS =>
        \A f \in 1 .. nf - pool_f :
            LET base == RedeemFBase(f)
                fee == FeeAmount(base, RedeemFFeeRate)
            IN  /\ base - fee <= RedeemableReserve
                /\ base - RedeemFBonus(f) <= reserve_balance_sui

PxFresh == px = PxOf(reserve_balance_sui, last_reserve_price, nf, nx)

(***************************************************************************)
(* The xToken price only goes out of date by paying a stability pool claim *)
(* or by reclaiming an expired ticket: every other operation that moves    *)
(* the reserve, the price or a supply recomputes it.                       *)
(***************************************************************************)
PxStaleOnlyByPayout ==
    [][PxFresh /\ ~PxFresh' =>
          \/ sp_obligation_r_amount' < sp_obligation_r_amount
          \/ \E i \in Tickets : Live(i) /\ Expired(i) /\ tickets'[i] = NoTicket]_vars

(***************************************************************************)
(* At a constant reserve price no mint, redemption or rebalance lowers the *)
(* price of the xTokens that remain, unless it is a mint_x that earns a    *)
(* stability bonus: all rounding is in favour of the remaining holders.    *)
(***************************************************************************)
NoDilution ==
    [][(/\ PxFresh
        /\ last_reserve_price' = last_reserve_price
        /\ nx' > EPS
        /\ nx' > nx => MintXBonusRate = 0) => px' >= px]_vars

(***************************************************************************)
(* While the protocol is solvent, burning fTokens out of the stability     *)
(* pool never lowers the collateral ratio: the obligation recorded for the *)
(* burn is worth at most what was burned.                                  *)
(***************************************************************************)
RebalanceHelps ==
    [][pool_f' < pool_f /\ nf' < nf /\ CollateralRatio >= SCALE_FACTOR
          => CollateralRatio' >= CollateralRatio]_vars

(***************************************************************************)
(* README.md, Security Considerations: "Protocol ensures reserve_r >=      *)
(* sp_obligation_r at all times".  The code does not: redemptions compare  *)
(* their payout with the reserve and the fees less the obligation but take *)
(* it from the reserve, and a rebalance adds to the obligation whatever    *)
(* the reserve.  Only these steps, which burn tokens, take the reserve     *)
(* below the obligation: a pool claim, a ticket, a mint or a price update  *)
(* never does.                                                             *)
(***************************************************************************)
ObligationStrandedOnlyByBurn ==
    [][(/\ reserve_balance_sui >= sp_obligation_r_amount
        /\ reserve_balance_sui' < sp_obligation_r_amount') => nf' < nf \/ nx' < nx]_vars

=============================================================================
