----------------------------- MODULE MCPrismHook -----------------------------
(* PrismHook for TLC.                                                      *)
EXTENDS PrismHook, TLC

CONSTANTS alice, bob, hook, pool, sink, vault

MCUsers == {alice, bob}
MCExcluded == {hook, pool, sink, vault}
MCAccounts == MCUsers \cup MCExcluded
Fees(e, p) == [l \in Legs |-> IF l = "ETH" THEN e ELSE p]
OneAndTwo == Fees(1, 2)
TwoAndTwo == Fees(2, 2)
UserSymmetry == Permutations(MCUsers)
=============================================================================
