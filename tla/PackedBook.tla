----------------------------- MODULE PackedBook ------------------------------
(***************************************************************************)
(* How PrismHookV2 stores who owns which fee-share: a packed word per id   *)
(* (_oo: the owner and the index in the owner's array), a packed array of  *)
(* ids per holder (_ownedSlots) and its length (_addressData).  A burn or  *)
(* a move never clears the array word it leaves behind, so beyond its      *)
(* length an array holds stale ids.                                        *)
(*                                                                         *)
(* The eight 32-bit lanes of a word are read and written one at a time, so *)
(* an array is a function on indexes; ids stay below 2^32, the width of a  *)
(* lane, which MaxId stands for.                                           *)
(***************************************************************************)
EXTENDS Integers, Sequences, FiniteSets

CONSTANTS
    Holders,  \* the accounts that may own a share
    Nobody,   \* the zero address
    MaxId,    \* bound: the last token id minted
    MaxLength \* bound: the length of one array

ASSUME BookAssumption ==
    MaxId \in Nat /\ MaxLength \in Nat \ {0} /\ Nobody \notin Holders

VARIABLES
    oo,          \* _oo: the owner and index of each id
    slots,       \* _ownedSlots: each holder's array, 0 where never written
    length,      \* _addressData: the length of each array
    nextId,      \* _nextTokenId
    totalShares  \* the number of live shares, as the contract counts it

vars == <<oo, slots, length, nextId, totalShares>>

Ids == 1..MaxId
Indexes == 0..(MaxLength - 1)
None == [owner |-> Nobody, index |-> 0]

OwnerOf(id) == oo[id].owner
OwnedIndexOf(id) == oo[id].index

\* Mutant: the head of the array instead of its tail.
PickHead(u) == slots[u][0]

PickTail(u) == slots[u][length[u] - 1]

Init ==
    /\ oo = [id \in Ids |-> None]
    /\ slots = [u \in Holders |-> [k \in Indexes |-> 0]]
    /\ length = [u \in Holders |-> 0]
    /\ nextId = 0
    /\ totalShares = 0

\* Mutant: the index counts from one.
NextIndexFromOne(to) == length[to] + 1

\* Where an id is appended.
NextIndex(to) == length[to]

MintNFT(to) ==
    LET id == nextId + 1
    IN  /\ id <= MaxId
        /\ length[to] < MaxLength
        /\ nextId' = id
        /\ oo' = [oo EXCEPT ![id] = [owner |-> to, index |-> NextIndex(to)]]
        /\ slots' = [slots EXCEPT ![to][length[to]] = id]
        /\ length' = [length EXCEPT ![to] = @ + 1]
        /\ totalShares' = totalShares + 1

\* Taking id out of from's array: the last id takes its place, in the array
\* and in its own packed word.
Last(from) == slots[from][length[from] - 1]
AtEnd(from, id) == OwnedIndexOf(id) = length[from] - 1

\* Mutant: the id that fills the gap keeps its old index.
ReindexedStale(from, id) == oo

Reindexed(from, id) ==
    IF AtEnd(from, id) THEN oo
    ELSE [oo EXCEPT ![Last(from)] = [owner |-> from, index |-> OwnedIndexOf(id)]]
Refilled(from, id) ==
    IF AtEnd(from, id) THEN slots
    ELSE [slots EXCEPT ![from][OwnedIndexOf(id)] = Last(from)]

\* Mutant: the counter is not lowered.
BurnNFTUncounted(from, id) ==
    /\ oo' = [Reindexed(from, id) EXCEPT ![id] = None]
    /\ slots' = Refilled(from, id)
    /\ length' = [length EXCEPT ![from] = @ - 1]
    /\ UNCHANGED <<nextId, totalShares>>

BurnNFT(from, id) ==
    /\ oo' = [Reindexed(from, id) EXCEPT ![id] = None]
    /\ slots' = Refilled(from, id)
    /\ length' = [length EXCEPT ![from] = @ - 1]
    /\ totalShares' = totalShares - 1
    /\ UNCHANGED nextId

Move(from, to, id) ==
    /\ length[to] < MaxLength
    /\ oo' = [Reindexed(from, id) EXCEPT ![id] = [owner |-> to, index |-> NextIndex(to)]]
    /\ slots' = [Refilled(from, id) EXCEPT ![to][length[to]] = id]
    /\ length' = [length EXCEPT ![from] = @ - 1, ![to] = @ + 1]
    /\ UNCHANGED <<nextId, totalShares>>

\* The realignment burns and moves tails; an NFT transfer moves any id of its
\* owner, and neither ever moves a share from an account to itself.
Next ==
    \/ \E u \in Holders : MintNFT(u)
    \/ \E u \in Holders : length[u] > 0 /\ BurnNFT(u, PickTail(u))
    \/ \E u, v \in Holders, id \in Ids :
            OwnerOf(id) = u /\ u # v /\ Move(u, v, id)

Spec == Init /\ [][Next]_vars

-----------------------------------------------------------------------------
(* Properties.                                                             *)

\* Every packed word and array entry is in range.
TypeOK ==
    /\ oo \in [Ids -> [owner : Holders \cup {Nobody}, index : Indexes]]
    /\ slots \in [Holders -> [Indexes -> 0..MaxId]]
    /\ length \in [Holders -> 0..MaxLength]
    /\ nextId \in 0..MaxId
    /\ totalShares \in Int

\* The two representations agree: the live part of an array lists exactly the
\* ids whose packed word names that holder, each at its recorded index, so a
\* burn or move after any history takes out the id it was asked to
\* (_burnNFT and _move patch both sides of the swap by hand).
Listed ==
    \A u \in Holders : \A k \in Indexes :
        k < length[u] => /\ slots[u][k] \in 1..nextId
                         /\ oo[slots[u][k]] = [owner |-> u, index |-> k]
Indexed ==
    \A id \in Ids :
        OwnerOf(id) # Nobody => /\ OwnedIndexOf(id) < length[OwnerOf(id)]
                                /\ slots[OwnerOf(id)][OwnedIndexOf(id)] = id
ViewsAgree == Listed /\ Indexed

\* The running counter that divides every fee is the number of live ids.
Live == {id \in Ids : OwnerOf(id) # Nobody}
CountExact == totalShares = Cardinality(Live)

\* The sequence of ids a holder's array stands for.
Array(u) == [k \in 1..length[u] |-> slots[u][k - 1]]
Arrays == [u \in Holders |-> Array(u)]

\* Every mint, burn and move on the packed words is one on plain sequences:
\* stale words beyond an array's length are never seen.
Book == INSTANCE ShareBook WITH owned <- Arrays
ImplementsBook == Book!Spec
=============================================================================
