---------------------------- MODULE MCPrismShares ----------------------------
(* PrismShares for TLC: interchangeable users, half-token amounts.         *)
EXTENDS PrismShares, TLC

CONSTANTS alice, bob, carol, hook, pool, sink, vault

MCUsers == {alice, bob, carol}
MCExcluded == {hook, pool, sink, vault}
MCAccounts == MCUsers \cup MCExcluded
UserSymmetry == Permutations(MCUsers)
=============================================================================
