-------------------------- MODULE MCPrismApprovals ---------------------------
(* PackedBook under PrismApprovals, for TLC: two holders and a market.      *)
EXTENDS PrismApprovals

CONSTANTS alice, bob, market, nobody

MCHolders == {alice, bob}
MCOthers == {market}
MCSpenders == {bob, market}
=============================================================================
