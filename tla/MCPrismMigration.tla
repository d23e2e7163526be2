-------------------------- MODULE MCPrismMigration --------------------------
(* PrismMigration for TLC: PRISM with the exact reserve, another token of  *)
(* which the vault happens to hold some, and a fallback contract.          *)
EXTENDS PrismMigration

CONSTANTS alice, bob, carol, prism, other, proxy

MCHolders == {alice, bob, carol}
MCTokens == {prism, other, proxy}
MCFallbacks == {proxy}
MCAllocation == [a \in MCHolders |-> IF a = alice THEN 1 ELSE 2]
MCReserve == [t \in MCTokens |-> CASE t = prism -> 5 [] t = other -> 3 [] OTHER -> 0]
=============================================================================
