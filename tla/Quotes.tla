------------------------------- MODULE Quotes -------------------------------
(***************************************************************************)
(* The arithmetic of the quote service (internal/onchain/protocol.go) and  *)
(* of internal/calc: what a mint or a redemption of an amount would give,  *)
(* what it costs and the collateral ratio it leaves.  Decimals are exact   *)
(* fractions [n |-> numerator, d |-> denominator > 0]; a protocol state is *)
(* a record [reserve, f, x, P, Pf] of the reserve, the two supplies and    *)
(* the on-chain prices of the reserve token and of the fToken.             *)
(***************************************************************************)
EXTENDS Integers

CONSTANT Unit          \* base units of one token (1000_000_000 in the code)

ASSUME UnitAssumption == Unit \in Nat \ {0}

Whole(n) == [n |-> n, d |-> 1]
Plus(a, b) == [n |-> a.n * b.d + b.n * a.d, d |-> a.d * b.d]
Minus(a, b) == [n |-> a.n * b.d - b.n * a.d, d |-> a.d * b.d]
Times(a, n, d) == [n |-> a.n * n, d |-> a.d * d]
Less(a, b) == a.n * b.d < b.n * a.d
AtMost(a, b) == a.n * b.d <= b.n * a.d

\* CollateralRatio; a ratio to no supply counts as zero
CollateralRatio(reserves, supply) ==
    IF supply.n = 0 THEN Whole(0)
    ELSE IF supply.n > 0 THEN [n |-> reserves.n * supply.d, d |-> reserves.d * supply.n]
    ELSE [n |-> -(reserves.n * supply.d), d |-> reserves.d * (-supply.n)]

PostMintCR(reserves, supply, amount) ==
    CollateralRatio(Plus(reserves, amount), Plus(supply, amount))

PostRedeemCR(reserves, supply, amount) ==
    IF AtMost(supply, amount) THEN Whole(0)
    ELSE CollateralRatio(Minus(reserves, amount), Minus(supply, amount))

\* ValidateCRConstraint against the 110% every quote asks for
MeetsMinCR(cr) == ~Less(cr, [n |-> 11, d |-> 10])

\* PostCR at the on-chain prices of the state the quote is made from
RatioAt(s, reserves, supply) ==
    CollateralRatio(Times(reserves, s.P, 1), Times(supply, s.Pf, 1))

\* A quote, or the error of the constraint it breaches.  The quote of an fToken
\* mint is worked out in base units; only its output is turned back into tokens.
Quoted(q) == IF MeetsMinCR(q.postCR) THEN [ok |-> TRUE, quote |-> q] ELSE [ok |-> FALSE]

\* GetMintQuote: the rate comes from the price feed, 0.3% stays behind
MintQuote(s, amount, pR, pF) ==
    LET base == Times(amount, Unit, 1)
        gross == Times(base, pR, pF)
        fee == Times(gross, 3, 1000)
        fOut == Minus(gross, fee)
    IN  Quoted([out |-> Times(fOut, 1, Unit), fee |-> fee,
                postCR |-> RatioAt(s, Plus(Whole(s.reserve), base), Plus(Whole(s.f), fOut))])

\* GetRedeemQuote: 0.5% stays behind, no more than the supply can be redeemed
RedeemQuote(s, amount, pR, pF) ==
    LET gross == Times(amount, pF, pR)
        fee == Times(gross, 5, 1000)
        rOut == Minus(gross, fee)
    IN  IF Less(Whole(s.f), amount) THEN [ok |-> FALSE]
        ELSE Quoted([out |-> rOut, fee |-> fee,
                     postCR |-> RatioAt(s, Minus(Whole(s.reserve), rOut), Minus(Whole(s.f), amount))])

\* GetMintXQuote: 98% of the reserve token whatever the prices
MintXQuote(s, amount) ==
    Quoted([out |-> Times(amount, 98, 100), fee |-> Times(amount, 2, 100),
            postCR |-> PostMintCR(Whole(s.reserve), Whole(s.x), amount)])

\* Mutant: the fee is added to the conversion rate instead of being its margin
RedeemXQuoteGenerous(s, amount) ==
    IF Less(Whole(s.x), amount) THEN [ok |-> FALSE]
    ELSE Quoted([out |-> Times(amount, 104, 100), fee |-> Times(amount, 2, 100),
                 postCR |-> PostRedeemCR(Whole(s.reserve), Whole(s.x), amount)])

\* GetRedeemXQuote: 102% of the xTokens whatever the prices
RedeemXQuote(s, amount) ==
    IF Less(Whole(s.x), amount) THEN [ok |-> FALSE]
    ELSE Quoted([out |-> Times(amount, 102, 100), fee |-> Times(amount, 2, 100),
                 postCR |-> PostRedeemCR(Whole(s.reserve), Whole(s.x), amount)])
=============================================================================
