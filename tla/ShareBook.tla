------------------------------ MODULE ShareBook ------------------------------
(***************************************************************************)
(* What the packed storage of PrismHookV2 promises to the code above it: a *)
(* sequence of token ids per holder, to which a mint appends a fresh id,   *)
(* from which a burn takes the last one and a move any one.  PackedBook    *)
(* implements it; PrismShares is written in terms of it.                   *)
(***************************************************************************)
EXTENDS Integers, Sequences, OwnedArrays

CONSTANTS Holders, MaxId

VARIABLES owned, nextId

bookVars == <<owned, nextId>>

Init ==
    /\ owned = [u \in Holders |-> << >>]
    /\ nextId = 0

Mint(to) ==
    /\ owned' = [owned EXCEPT ![to] = Append(@, nextId + 1)]
    /\ nextId' = nextId + 1

BurnTail(from) ==
    /\ owned[from] # << >>
    /\ owned' = [owned EXCEPT ![from] = DropTails(@, 1)]
    /\ UNCHANGED nextId

Move(from, to, i) ==
    /\ from # to
    /\ i \in DOMAIN owned[from]
    /\ owned' = [owned EXCEPT ![from] = SwapPop(@, i),
                              ![to] = Append(@, owned[from][i])]
    /\ UNCHANGED nextId

Next ==
    \/ \E u \in Holders : Mint(u) \/ BurnTail(u)
    \/ \E u, v \in Holders : \E i \in DOMAIN owned[u] : Move(u, v, i)

Spec == Init /\ [][Next]_bookVars
=============================================================================
