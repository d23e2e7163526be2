----------------------------- MODULE OwnedArrays -----------------------------
(* What the realignment loops of PrismHookV2 do to one owned array, seen   *)
(* as the sequence of its token ids in index order.                        *)
EXTENDS Integers, Sequences

\* k times _pickTail: the tails leave in the order they are met, last first.
DropTails(s, k) == SubSeq(s, 1, Len(s) - k)
TailsOf(s, k) == [i \in 1..k |-> s[Len(s) + 1 - i]]

\* Swap-and-pop: the last id takes the place of the one at position i.
SwapPop(s, i) ==
    [k \in 1..(Len(s) - 1) |-> IF k = i THEN s[Len(s)] ELSE s[k]]
=============================================================================
