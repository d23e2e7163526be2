---------------------------- MODULE MCAirdropPush ----------------------------
(* AirdropPush for TLC: PRISM with a holder of dust and one of a whole     *)
(* token, claims files that are complete, partial, wrong about one amount  *)
(* or of another tree, and claims that cost what was measured or far more. *)
EXTENDS AirdropPush

CONSTANTS alice, bob, carol, prism

MCHolders == {alice, bob}
MCTokens == {prism}
MCAllocation == [a \in MCHolders |-> IF a = alice THEN 1 ELSE 2]
MCReserve == [t \in MCTokens |-> 3]

Shipped == MCAllocation
OnlyAlice == [a \in {alice} |-> 1]
WrongAlice == [MCAllocation EXCEPT ![alice] = 2]
Foreign == [a \in {carol} |-> 1]
AllFiles == {Shipped, OnlyAlice, WrongAlice, Foreign}
ShippedOnly == {Shipped}

MCMeasured == [a \in MCHolders |-> IF a = alice THEN 63278 ELSE 209578]
MCHot == [a \in MCHolders |-> IF a = alice THEN 130000 ELSE 600000]
MCMeasuredOnly == {MCMeasured}
MCCosts == {MCMeasured, MCHot}
=============================================================================
