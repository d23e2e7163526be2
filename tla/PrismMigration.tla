--------------------------- MODULE PrismMigration ---------------------------
(***************************************************************************)
(* PrismMigration, the vault that pays the airdrop: a token that its       *)
(* deployer may correct until the first claim, and claims that anybody may *)
(* submit for any holder of the Merkle tree.  A call that reverts changes  *)
(* nothing and is no step.                                                 *)
(*                                                                         *)
(* A candidate token is a contract with code.  It either keeps balances    *)
(* truthfully or is a contract with a permissive fallback, which answers   *)
(* every call with one word holding 1; a contract that answers with        *)
(* nothing fails every check and is left out.                              *)
(***************************************************************************)
EXTENDS Integers, FiniteSets, Functions

CONSTANTS
    Holders,    \* the accounts of the snapshot
    Allocation, \* what the tree grants each of them
    Tokens,     \* the contracts the deployer may wire
    Fallbacks,  \* those of them with a permissive fallback
    NoToken,    \* the zero address
    Reserve,    \* what the vault holds of each token at first
    Amounts,    \* bound: the amounts claims are submitted with
    MaxGift     \* bound: what strangers send to the vault

\* generate.mjs refuses an allocation that is not positive.
ASSUME MigrationAssumption ==
    /\ IsFiniteSet(Holders)
    /\ Allocation \in [Holders -> Nat \ {0}]
    /\ Fallbacks \subseteq Tokens
    /\ NoToken \notin Tokens
    /\ Reserve \in [Tokens -> Nat]
    /\ Amounts \subseteq Nat
    /\ MaxGift \in Nat

VARIABLES
    token,      \* the wired token
    tokenFinal, \* the first claim has landed
    claimed,    \* the accounts marked claimed
    held,       \* external: what the vault really holds of each token
    received,   \* external: what each holder really got of each token
    gifts       \* history: what strangers sent, for the bound

vars == <<token, tokenFinal, claimed, held, received, gifts>>

\* balanceOf(vault) and the same after a transfer of n.
Reported(t) == IF t \in Fallbacks THEN 1 ELSE held[t]
ReportedAfter(t, n) == IF t \in Fallbacks THEN 1 ELSE held[t] - n

\* Mutants: the vault's balance is no bound; the token's word is taken for it;
\* a strict comparison.
DeliversUnbounded(t, n) == ReportedAfter(t, n) = Reported(t) - n
DeliversByReturn(t, n) == n <= held[t] \/ t \in Fallbacks
DeliversStrictly(t, n) == n < Reported(t) /\ ReportedAfter(t, n) = Reported(t) - n

\* The transfer of n succeeds and the reported balance fell by n.
Delivers(t, n) == n <= Reported(t) /\ ReportedAfter(t, n) = Reported(t) - n

\* Mutant: the leaf does not bind the amount.
InTreeAccount(a, n) == a \in Holders

\* The Merkle proof of (a, n) verifies.
InTree(a, n) == a \in Holders /\ n = Allocation[a]

Init ==
    /\ token = NoToken
    /\ tokenFinal = FALSE
    /\ claimed = {}
    /\ held = Reserve
    /\ received = [t \in Tokens |-> [a \in Holders |-> 0]]
    /\ gifts = 0

\* Mutant: wiring latches.
SetTokenLatching(t) ==
    /\ ~tokenFinal
    /\ Reported(t) # 0
    /\ token' = t
    /\ tokenFinal' = TRUE
    /\ UNCHANGED <<claimed, held, received, gifts>>

\* By the deployer.
SetToken(t) ==
    /\ ~tokenFinal
    /\ Reported(t) # 0
    /\ token' = t
    /\ UNCHANGED <<tokenFinal, claimed, held, received, gifts>>

\* By anybody, for account a.
Claim(a, n) ==
    /\ token # NoToken
    /\ a \notin claimed
    /\ InTree(a, n)
    /\ Delivers(token, n)
    /\ tokenFinal' = TRUE
    /\ claimed' = claimed \cup {a}
    /\ IF token \in Fallbacks THEN UNCHANGED <<held, received>>
       ELSE /\ held' = [held EXCEPT ![token] = @ - n]
            /\ received' = [received EXCEPT ![token][a] = @ + n]
    /\ UNCHANGED <<token, gifts>>

\* A stranger sends one unit of a token to the vault, which cannot refuse.
Gift(t) ==
    /\ gifts < MaxGift
    /\ gifts' = gifts + 1
    /\ held' = [held EXCEPT ![t] = @ + 1]
    /\ UNCHANGED <<token, tokenFinal, claimed, received>>

Next ==
    \/ \E t \in Tokens : SetToken(t)
    \/ \E a \in Holders, n \in Amounts : Claim(a, n)
    \/ \E t \in Tokens \ Fallbacks : Gift(t)

\* Claims are permissionless: somebody eventually submits each holder's row.
Fairness == \A a \in Holders : WF_vars(\E n \in Amounts : Claim(a, n))

Spec == Init /\ [][Next]_vars /\ Fairness

-----------------------------------------------------------------------------
(* Properties.                                                             *)

\* The vault's holdings and the payments are amounts.
TypeOK ==
    /\ token \in Tokens \cup {NoToken}
    /\ tokenFinal \in BOOLEAN
    /\ claimed \subseteq Holders
    /\ held \in [Tokens -> Nat]
    /\ received \in [Tokens -> [Holders -> Nat]]
    /\ gifts \in 0..MaxGift

\* A claimed account got exactly its allocation, of the token now wired and of
\* no other, and nobody else got anything: no double payment, no claim marked
\* without delivery, no payments split over two tokens by a late correction.
PaidInFull ==
    \A t \in Tokens, a \in Holders :
        received[t][a] = IF a \in claimed /\ t = token THEN Allocation[a] ELSE 0

\* The token is correctable up to the first payment and locked from it on:
\* neither a wiring, nor a claim that failed, nor a gift closes the window, and
\* a payment never leaves it open (setToken, tokenFinal).
CorrectableUntilFirstClaim == tokenFinal <=> claimed # {}

Unpaid == SumFunctionOnSet(Allocation, Holders \ claimed)
Granted == SumFunctionOnSet(Allocation, Holders)

\* A reserve that covers the tree at first covers whoever is left, whatever
\* order the claims come in.
ReserveCoversUnpaid ==
    \A t \in Tokens \ Fallbacks : Reserve[t] >= Granted => held[t] >= Unpaid

\* Once a claim has landed in a token that covers the tree, everybody is paid.
EverybodyPaid ==
    (tokenFinal /\ token \in Tokens \ Fallbacks /\ Reserve[token] >= Granted)
        ~> (claimed = Holders)
=============================================================================
