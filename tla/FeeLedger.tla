------------------------------ MODULE FeeLedger ------------------------------
(***************************************************************************)
(* What PrismHookV2 promises about the ETH fees of its position: an amount *)
(* credited to a holder stays credited until that holder is paid, money    *)
(* leaves only as such a payment, and the credits never exceed what the    *)
(* contract has.  How credits are kept (accumulators, debts, pending       *)
(* balances) is not part of the promise.                                   *)
(***************************************************************************)
EXTENDS Integers, Functions

CONSTANT Holders

VARIABLES
    position, \* fees accrued in the position, not collected
    reserve,  \* what the contract holds
    credit    \* what each holder could withdraw, after claiming

ledgerVars == <<position, reserve, credit>>

Credits(c) == SumFunctionOnSet(c, Holders)

Init ==
    /\ position = 0
    /\ reserve = 0
    /\ credit = [u \in Holders |-> 0]

Accrue ==
    /\ position' > position
    /\ UNCHANGED <<reserve, credit>>

\* Any collection, distribution, payment of x to u, or several of them in one
\* call (a withdrawal may trigger a collection).
Settle(u, x) ==
    /\ position' <= position
    /\ reserve' = reserve + (position - position') - x
    /\ \A v \in Holders : credit'[v] >= credit[v] - (IF v = u THEN x ELSE 0)
    /\ Credits(credit') <= reserve'

Next ==
    \/ Accrue
    \/ \E u \in Holders : \E x \in 0..credit[u] : Settle(u, x)

Spec == Init /\ [][Next]_ledgerVars
=============================================================================
