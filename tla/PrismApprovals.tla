--------------------------- MODULE PrismApprovals ----------------------------
(***************************************************************************)
(* Who may move a fee-share: the owner, the one spender approved for that  *)
(* id (_nftApprovals), and the owner's operators (_nftOperatorApprovals).  *)
(* Calls arrive through PrismMirror, which passes its own caller on.  The  *)
(* realignment of ERC-20 transfers burns and moves shares beneath all of   *)
(* them, on the storage of PackedBook.                                     *)
(*                                                                         *)
(* safeTransferFrom is a transfer after which the receiver may call again, *)
(* or refuse, which undoes all of it: those are further steps, or none.    *)
(***************************************************************************)
EXTENDS PackedBook

CONSTANTS
    Others,    \* accounts that own no share: markets, vaults of approvals
    Spenders,  \* bound: the spenders and operators that are named
    Approvable \* bound: the ids whose single approval is exercised

\* The zero address calls nothing.
ASSUME ApprovalsAssumption == Nobody \notin Others /\ Approvable \subseteq 1..MaxId

VARIABLES
    approvals, \* _nftApprovals: the approved spender of each id
    operators, \* _nftOperatorApprovals: pairs of owner and operator
    named      \* observed: the spender last named by the owner or an operator of
               \* the owner since the id changed hands

allVars == <<vars, approvals, operators, named>>

Actors == Holders \cup Others

ApprovalsInit ==
    /\ Init
    /\ approvals = [id \in Ids |-> Nobody]
    /\ operators = {}
    /\ named = [id \in Ids |-> Nobody]

\* Who speaks for an owner: the owner and its operators.
Speaks(caller, owner) == caller = owner \/ <<owner, caller>> \in operators

\* An observer forgets who was named for an id when its owner changes.
Observe ==
    named' = [id \in Ids |-> IF oo[id].owner = oo'[id].owner THEN named[id] ELSE Nobody]

Mint(u) ==
    /\ MintNFT(u)
    /\ UNCHANGED <<approvals, operators>>
    /\ Observe

\* Mutant: only a move to the approved spender uses the approval up.
ClearedIfUsed(id) == [approvals EXCEPT ![id] = IF @ = oo'[id].owner THEN Nobody ELSE @]

\* delete _nftApprovals[id], the last write of _burnNFT and _move.
Cleared(id) == [approvals EXCEPT ![id] = Nobody]

\* The realignment after an ERC-20 transfer takes from the tail, and asks
\* nobody but the sender of the tokens.
Burn(u) ==
    LET id == PickTail(u)
    IN  /\ length[u] > 0
        /\ BurnNFT(u, id)
        /\ approvals' = Cleared(id)
        /\ UNCHANGED operators
        /\ Observe

Realign(u, v) ==
    LET id == PickTail(u)
    IN  /\ u # v
        /\ length[u] > 0
        /\ Move(u, v, id)
        /\ approvals' = Cleared(id)
        /\ UNCHANGED operators
        /\ Observe

MayMove(caller, from, id) == Speaks(caller, from) \/ approvals[id] = caller

NFTTransfer(caller, from, to, id) ==
    /\ from # to
    /\ OwnerOf(id) = from
    /\ MayMove(caller, from, id)
    /\ Move(from, to, id)
    /\ approvals' = Cleared(id)
    /\ UNCHANGED operators
    /\ Observe

NFTApprove(caller, spender, id) ==
    /\ OwnerOf(id) # Nobody
    /\ Speaks(caller, OwnerOf(id))
    /\ approvals' = [approvals EXCEPT ![id] = spender]
    /\ named' = [named EXCEPT ![id] = spender]
    /\ UNCHANGED <<vars, operators>>

NFTSetApprovalForAll(caller, operator, approved) ==
    /\ operators' = IF approved THEN operators \cup {<<caller, operator>>}
                    ELSE operators \ {<<caller, operator>>}
    /\ UNCHANGED <<vars, approvals, named>>

ApprovalsNext ==
    \/ \E u \in Holders : Mint(u) \/ Burn(u)
    \/ \E u, v \in Holders : Realign(u, v)
    \/ \E c \in Actors, u, v \in Holders, id \in Ids : NFTTransfer(c, u, v, id)
    \/ \E c \in Actors, s \in Spenders \cup {Nobody}, id \in Approvable : NFTApprove(c, s, id)
    \/ \E u \in Holders, o \in Spenders, yes \in BOOLEAN : NFTSetApprovalForAll(u, o, yes)

ApprovalsSpec == ApprovalsInit /\ [][ApprovalsNext]_allVars

-----------------------------------------------------------------------------
(* Properties.                                                             *)

\* Whoever may move a share is its owner, an operator its owner has set, or
\* the spender that one of these named last, since this owner got it:
\* whatever way a share changed hands, through the mirror or beneath it by an
\* ERC-20 transfer, the next owner inherits no spender (handleNFTTransfer,
\* handleNFTApprove and the deletes of _burnNFT and _move).
MoversAreMandated ==
    \A id \in Live, c \in Actors :
        MayMove(c, OwnerOf(id), id) => Speaks(c, OwnerOf(id)) \/ c = named[id]
=============================================================================
