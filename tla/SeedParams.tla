----------------------------- MODULE SeedParams -----------------------------
(***************************************************************************)
(* The arithmetic of the seed: seed-params.mjs and make-env.mjs size the   *)
(* liquidity and state its bounds, the pool charges for it, and Deploy     *)
(* checks what was charged.  Prices are a table: the code's TickMath is    *)
(* Uniswap's, and all that is used of it is that it grows with the tick.   *)
(***************************************************************************)
EXTENDS Integers

CONSTANTS
    Supply,    \* 5000 PRISM
    Q,         \* 2^96
    Ticks,     \* the aligned ticks
    SqrtPrice, \* the square root of the price at each, times Q
    Headroom, Slack, \* what is left unseeded, and what MIN_SEED_PRISM leaves out
    Whole,     \* 50 PRISM
    MinFdv, MaxFdv   \* Deploy's absolute bounds on a valuation

ASSUME SeedAssumption ==
    /\ {Supply, Q, Headroom, Slack, Whole, MinFdv, MaxFdv} \subseteq Nat \ {0}
    /\ Ticks \subseteq Int
    /\ SqrtPrice \in [Ticks -> Nat \ {0}]
    /\ \A t, u \in Ticks : t < u => SqrtPrice[t] < SqrtPrice[u]

CeilDiv(n, d) == (n + d - 1) \div d

\* impliedFdvWei, in Deploy and in both tools.
Fdv(t) == (((Supply * Q) \div SqrtPrice[t]) * Q) \div SqrtPrice[t]

Width(lower, upper) == SqrtPrice[upper] - SqrtPrice[lower]

\* The liquidity a deposit buys, and what the pool charges for it.
LiquidityFor(prism, lower, upper) == (prism * Q) \div Width(lower, upper)
PrismFor(liquidity, lower, upper) == CeilDiv(liquidity * Width(lower, upper), Q)

Floor90(float) == (float * 90) \div 100

\* Mutant: no room for the rounding of the liquidity.
MinSeedUnslacked(float, deposit) == float - Headroom

\* seed-params.mjs: MIN_SEED_PRISM for a seed that deposits so much.
MinSeed(float, deposit) ==
    IF deposit > Floor90(float) + Slack THEN deposit - Slack ELSE Floor90(float)

\* The aligned tick whose valuation is closest; the lowest of two as close.
TickFor(fdv) ==
    LET error(t) == IF Fdv(t) > fdv THEN Fdv(t) - fdv ELSE fdv - Fdv(t)
    IN  {t \in Ticks : \A u \in Ticks :
            error(t) < error(u) \/ (error(t) = error(u) /\ t <= u)}

\* Mutant: Deploy's band, which compares the price with itself.
AgreesLoosely(fdv, declared) == fdv >= (declared * 3) \div 4 /\ fdv <= (declared * 5) \div 4

\* Within 5% of the valuation a human stated.
Agrees(fdv, declared) == fdv * 100 >= declared * 95 /\ fdv * 100 <= declared * 105

\* validateSeededAmount.
SeededEnough(float, seeded, minSeed) ==
    /\ seeded >= minSeed /\ seeded >= Floor90(float)
    /\ seeded >= Whole
=============================================================================
