------------------------ MODULE PrismApprovals_proof -------------------------
(***************************************************************************)
(* Proofs about PackedBook and PrismApprovals, for every set of holders    *)
(* and markets and every bound.                                            *)
(*                                                                         *)
(* The storage: TypeOK, Listed, Indexed and CountExact are inductive       *)
(* together (IInv).  Listed says the array entry and the packed word of    *)
(* the id it names are inverse, so patching both sides of a swap-and-pop   *)
(* touches one id only.                                                    *)
(*                                                                         *)
(* The approvals: nobody moves a share without its present owner's word.   *)
(* Every approval step is a step of the storage or leaves it alone, so     *)
(* IInv holds here too; what is added is that a standing approval is the   *)
(* one last named, and that an id nobody owns has none, or the next mint   *)
(* would wake it (Standing).  IInv is needed because the swap of a removal *)
(* rewrites another id's word: only the agreement of words and arrays says *)
(* that its owner stays the same.                                          *)
(***************************************************************************)
EXTENDS PrismApprovals, FiniteSetTheorems, TLAPS

-----------------------------------------------------------------------------
(* The storage.                                                            *)

\* The storage's inductive invariant.
IInv == TypeOK /\ Listed /\ Indexed /\ CountExact

USE BookAssumption DEF BookAssumption

\* A live id has been minted.
LEMMA LiveMinted ==
    ASSUME TypeOK, Listed, Indexed
    PROVE  /\ Live \subseteq 1..nextId
           /\ \A id \in Live : OwnerOf(id) \in Holders
<1>1. ASSUME NEW id \in Live
      PROVE  OwnerOf(id) \in Holders /\ id \in 1..nextId
  <2>1. OwnerOf(id) \in Holders /\ OwnedIndexOf(id) \in Nat
    BY DEF TypeOK, Live, OwnerOf, OwnedIndexOf, Indexes
  <2>2. /\ OwnedIndexOf(id) < length[OwnerOf(id)]
        /\ slots[OwnerOf(id)][OwnedIndexOf(id)] = id
    BY DEF Live, Indexed
  <2>3. OwnedIndexOf(id) \in Indexes
    BY <2>1, <2>2 DEF TypeOK, Indexes
  <2>4. QED
    BY <2>1, <2>2, <2>3 DEF Listed
<1>2. QED
  BY <1>1

\* The live ids are finitely many, and adding or removing one counts.
LEMMA LiveFinite ==
    ASSUME TypeOK
    PROVE  /\ IsFiniteSet(Live)
           /\ Cardinality(Live) \in Nat
           /\ \A id : Cardinality(Live \cup {id}) =
                        IF id \in Live THEN Cardinality(Live) ELSE Cardinality(Live) + 1
           /\ \A id : Cardinality(Live \ {id}) =
                        IF id \in Live THEN Cardinality(Live) - 1 ELSE Cardinality(Live)
<1>1. IsFiniteSet(1..MaxId)
  BY FS_Interval
<1>2. IsFiniteSet(Live)
  BY <1>1, FS_Subset DEF Live, Ids
<1>3. QED
  BY <1>2, FS_CardinalityType, FS_AddElement, FS_RemoveElement

-----------------------------------------------------------------------------
(* Minting.                                                                *)

\* A mint keeps the inductive invariant.
LEMMA MintKeepsIInv ==
    ASSUME IInv, NEW to \in Holders, MintNFT(to)
    PROVE  IInv'
<1> DEFINE id == nextId + 1
<1>1. /\ id \in Ids /\ length[to] \in Indexes
      /\ nextId' = id
      /\ oo' = [oo EXCEPT ![id] = [owner |-> to, index |-> length[to]]]
      /\ slots' = [slots EXCEPT ![to][length[to]] = id]
      /\ length' = [length EXCEPT ![to] = @ + 1]
      /\ totalShares' = totalShares + 1
  BY DEF MintNFT, NextIndex, IInv, TypeOK, Ids, Indexes
<1>2. id \notin Live
  BY LiveMinted DEF IInv, TypeOK
<1>3. TypeOK'
  <2>1. id \in 0..MaxId /\ length[to] + 1 \in 0..MaxLength
    BY <1>1 DEF Ids, Indexes
  <2>2. \A f \in [Indexes -> 0..MaxId] : [f EXCEPT ![length[to]] = id] \in [Indexes -> 0..MaxId]
    BY <2>1
  <2> HIDE DEF id
  <2>3. slots' \in [Holders -> [Indexes -> 0..MaxId]]
    BY <1>1, <2>2 DEF IInv, TypeOK
  <2>4. oo' \in [Ids -> [owner : Holders \cup {Nobody}, index : Indexes]]
    BY <1>1 DEF IInv, TypeOK
  <2>5. length' \in [Holders -> 0..MaxLength] /\ totalShares' \in Int
    BY <1>1, <2>1 DEF IInv, TypeOK
  <2>6. QED
    BY <1>1, <2>1, <2>3, <2>4, <2>5 DEF TypeOK
<1>4. Listed'
  <2>1. ASSUME NEW u \in Holders, NEW k \in Indexes, k < length'[u]
        PROVE  /\ slots'[u][k] \in 1..nextId'
               /\ oo'[slots'[u][k]] = [owner |-> u, index |-> k]
    <3>1. CASE u = to /\ k = length[to]
      BY <1>1, <3>1 DEF IInv, TypeOK, Ids
    <3>2. CASE ~(u = to /\ k = length[to])
      <4>1. k < length[u] /\ slots'[u][k] = slots[u][k]
        BY <1>1, <2>1, <3>2 DEF IInv, TypeOK, Indexes
      <4>2. /\ slots[u][k] \in 1..nextId
            /\ oo[slots[u][k]] = [owner |-> u, index |-> k]
        BY <4>1 DEF IInv, Listed
      <4>3. QED
        BY <1>1, <4>1, <4>2 DEF IInv, TypeOK, Ids
    <3>3. QED
      BY <3>1, <3>2
  <2>2. QED
    BY <2>1 DEF Listed
<1>5. Indexed'
  <2>1. ASSUME NEW x \in Ids, oo'[x].owner # Nobody
        PROVE  /\ oo'[x].index < length'[oo'[x].owner]
               /\ slots'[oo'[x].owner][oo'[x].index] = x
    <3>1. CASE x = id
      BY <1>1, <3>1 DEF IInv, TypeOK, Indexes
    <3>2. CASE x # id
      <4>1. oo'[x] = oo[x] /\ x \in Live
        BY <1>1, <2>1, <3>2 DEF IInv, TypeOK, Live, OwnerOf
      <4>2. /\ oo[x].owner \in Holders /\ oo[x].index \in Indexes
            /\ oo[x].index < length[oo[x].owner]
            /\ slots[oo[x].owner][oo[x].index] = x
        BY <4>1, LiveMinted DEF IInv, TypeOK, Indexed, Live, OwnerOf, OwnedIndexOf
      <4>3. QED
        <5>1. /\ length \in [Holders -> 0..MaxLength]
              /\ slots \in [Holders -> [Indexes -> 0..MaxId]]
          BY DEF IInv, TypeOK
        <5>2. oo[x].index < length'[oo[x].owner]
          <6>1. length' = [v \in Holders |-> IF v = to THEN length[v] + 1 ELSE length[v]]
            BY <1>1, <5>1
          <6>2. oo[x].index \in Nat /\ length[oo[x].owner] \in Nat
            BY <4>2, <5>1 DEF Indexes
          <6>3. QED
            BY <4>2, <6>1, <6>2
        <5>3. slots'[oo[x].owner][oo[x].index] = slots[oo[x].owner][oo[x].index]
          <6>1. oo[x].owner = to => oo[x].index # length[to]
            BY <4>2, <5>1 DEF Indexes
          <6>2. \A v \in Holders, k \in Indexes :
                  ~(v = to /\ k = length[to]) => slots'[v][k] = slots[v][k]
            BY <1>1, <5>1
          <6>3. QED
            BY <4>2, <6>1, <6>2
        <5>4. QED
          BY <4>1, <4>2, <5>2, <5>3
    <3>3. QED
      BY <3>1, <3>2
  <2>2. QED
    BY <2>1 DEF Indexed, OwnerOf, OwnedIndexOf
<1>6. CountExact'
  <2>1. Live' = Live \cup {id}
    BY <1>1 DEF IInv, TypeOK, Live, OwnerOf
  <2>2. QED
    BY <1>1, <1>2, <2>1, LiveFinite DEF IInv, CountExact
<1>7. QED
  BY <1>3, <1>4, <1>5, <1>6 DEF IInv

-----------------------------------------------------------------------------
(* Taking an id out of an array.                                           *)

\* Patching both sides of the swap leaves, apart from id itself, two views
\* that agree with the array of from one shorter.
LEMMA SwapAgrees ==
    ASSUME IInv, NEW from \in Holders, NEW id \in Ids, OwnerOf(id) = from
    PROVE  /\ length[from] \in 1..MaxLength
           /\ Reindexed(from, id) \in [Ids -> [owner : Holders \cup {Nobody},
                                               index : Indexes]]
           /\ Refilled(from, id) \in [Holders -> [Indexes -> 0..MaxId]]
           /\ \A x \in Ids \ {id} : Reindexed(from, id)[x].owner = oo[x].owner
           /\ \A u \in Holders : \A k \in Indexes :
                k < (IF u = from THEN length[u] - 1 ELSE length[u]) =>
                  /\ Refilled(from, id)[u][k] \in (1..nextId) \ {id}
                  /\ Reindexed(from, id)[Refilled(from, id)[u][k]]
                        = [owner |-> u, index |-> k]
           /\ \A u \in Holders : \A x \in Ids \ {id} :
                oo[x].owner = u =>
                  /\ Reindexed(from, id)[x].index
                        < (IF u = from THEN length[u] - 1 ELSE length[u])
                  /\ Refilled(from, id)[u][Reindexed(from, id)[x].index] = x
<1> DEFINE i == OwnedIndexOf(id)
           last == Last(from)
           lastIdx == length[from] - 1
           R == Reindexed(from, id)
           F == Refilled(from, id)
           W == [owner : Holders \cup {Nobody}, index : Indexes]
<1>1. /\ oo \in [Ids -> W] /\ slots \in [Holders -> [Indexes -> 0..MaxId]]
      /\ length \in [Holders -> 0..MaxLength] /\ nextId \in 0..MaxId
      /\ oo[id].owner = from /\ i = oo[id].index
  BY DEF IInv, TypeOK, OwnerOf, OwnedIndexOf
<1>2. i \in Nat /\ i < length[from] /\ slots[from][i] = id
  BY <1>1 DEF IInv, Indexed, OwnerOf, OwnedIndexOf, Indexes
<1>3. /\ lastIdx \in Indexes /\ i \in Indexes /\ i <= lastIdx
      /\ length[from] \in 1..MaxLength
  BY <1>1, <1>2 DEF Indexes
<1>4. /\ last = slots[from][lastIdx]
      /\ last \in 1..nextId /\ last \in Ids
      /\ oo[last] = [owner |-> from, index |-> lastIdx]
  BY <1>1, <1>3 DEF IInv, Listed, Last, Ids
<1>5. (i = lastIdx) <=> (last = id)
  BY <1>1, <1>2, <1>4
<1>6. /\ R = IF i = lastIdx THEN oo
             ELSE [oo EXCEPT ![last] = [owner |-> from, index |-> i]]
      /\ F = IF i = lastIdx THEN slots
             ELSE [slots EXCEPT ![from] = [@ EXCEPT ![i] = last]]
  BY DEF Reindexed, Refilled, AtEnd
<1> HIDE DEF R, F, last, lastIdx, i
<1>7. R \in [Ids -> W]
  BY <1>1, <1>3, <1>4, <1>6 DEF Indexes
<1>8. F \in [Holders -> [Indexes -> 0..MaxId]]
  <2>1. last \in 0..MaxId
    BY <1>4 DEF Ids
  <2>2. \A f \in [Indexes -> 0..MaxId] : [f EXCEPT ![i] = last] \in [Indexes -> 0..MaxId]
    BY <2>1
  <2>3. slots[from] \in [Indexes -> 0..MaxId]
    BY <1>1
  <2>4. QED
    BY <1>1, <1>6, <2>2, <2>3
<1>9. /\ \A x \in Ids \ {last} : R[x] = oo[x]
      /\ last # id => R[last] = [owner |-> from, index |-> i]
      /\ \A x \in Ids \ {id} : R[x].owner = oo[x].owner
  BY <1>1, <1>4, <1>5, <1>6
<1>10. /\ \A u \in Holders \ {from} : F[u] = slots[u]
       /\ \A k \in Indexes \ {i} : F[from][k] = slots[from][k]
       /\ last # id => F[from][i] = last
  BY <1>1, <1>3, <1>5, <1>6
<1>11. ASSUME NEW u \in Holders, NEW k \in Indexes,
              k < (IF u = from THEN length[u] - 1 ELSE length[u])
       PROVE  F[u][k] \in (1..nextId) \ {id} /\ R[F[u][k]] = [owner |-> u, index |-> k]
  <2>1. /\ length[u] \in Nat /\ k \in Nat /\ k < length[u]
        /\ u = from => k < lastIdx
    BY <1>1, <1>11 DEF Indexes, lastIdx
  <2>2. /\ slots[u][k] \in 1..nextId
        /\ oo[slots[u][k]] = [owner |-> u, index |-> k]
    BY <2>1 DEF IInv, Listed
  <2>3. slots[u][k] \in Ids
    BY <1>1, <2>2 DEF Ids
  <2>4. CASE u = from /\ k = i
    BY <1>4, <1>5, <1>9, <1>10, <2>1, <2>4
  <2>5. CASE ~(u = from /\ k = i)
    <3>1. F[u][k] = slots[u][k]
      BY <1>10, <2>5
    <3>2. slots[u][k] # id
      BY <1>1, <2>2, <2>5
    <3>3. slots[u][k] # last
      BY <1>4, <2>1, <2>2
    <3>4. QED
      BY <1>9, <2>2, <2>3, <3>1, <3>2, <3>3
  <2>6. QED
    BY <2>4, <2>5
<1>12. ASSUME NEW u \in Holders, NEW x \in Ids \ {id}, oo[x].owner = u
       PROVE  /\ R[x].index < (IF u = from THEN length[u] - 1 ELSE length[u])
              /\ F[u][R[x].index] = x
  <2>1. /\ oo[x].index \in Indexes /\ oo[x].index < length[u] /\ slots[u][oo[x].index] = x
    BY <1>1, <1>12 DEF IInv, Indexed, OwnerOf, OwnedIndexOf, Indexes
  <2>2. CASE x = last
    <3>1. u = from /\ R[x].index = i /\ i # lastIdx
      BY <1>4, <1>5, <1>9, <1>12, <2>2
    <3>2. QED
      BY <1>2, <1>3, <1>10, <2>2, <3>1 DEF lastIdx
  <2>3. CASE x # last
    <3>1. R[x] = oo[x]
      BY <1>9, <2>3
    <3>2. u = from => oo[x].index # lastIdx /\ oo[x].index # i
      BY <1>2, <1>4, <2>1, <2>3
    <3>3. F[u][oo[x].index] = slots[u][oo[x].index]
      BY <1>10, <2>1, <3>2
    <3>4. u = from => oo[x].index < length[u] - 1
      BY <1>1, <2>1, <3>2 DEF lastIdx, Indexes
    <3>5. QED
      BY <2>1, <3>1, <3>3, <3>4
  <2>4. QED
    BY <2>2, <2>3
<1>13. QED
  BY <1>3, <1>7, <1>8, <1>9, <1>11, <1>12 DEF R, F

\* A burn of any id of the account keeps the inductive invariant.
LEMMA BurnKeepsIInv ==
    ASSUME IInv, NEW from \in Holders, NEW id \in Ids, OwnerOf(id) = from,
           BurnNFT(from, id)
    PROVE  IInv'
<1> DEFINE R == Reindexed(from, id)
           F == Refilled(from, id)
           after(u) == IF u = from THEN length[u] - 1 ELSE length[u]
<1>1. /\ oo' = [R EXCEPT ![id] = None] /\ slots' = F
      /\ length' = [length EXCEPT ![from] = @ - 1]
      /\ totalShares' = totalShares - 1 /\ nextId' = nextId
  BY DEF BurnNFT
<1>2. /\ length[from] \in 1..MaxLength
      /\ R \in [Ids -> [owner : Holders \cup {Nobody}, index : Indexes]]
      /\ F \in [Holders -> [Indexes -> 0..MaxId]]
      /\ \A x \in Ids \ {id} : R[x].owner = oo[x].owner
  BY SwapAgrees
<1>3. \A u \in Holders : \A k \in Indexes : k < after(u) =>
        F[u][k] \in (1..nextId) \ {id} /\ R[F[u][k]] = [owner |-> u, index |-> k]
  BY SwapAgrees
<1>4. \A u \in Holders : \A x \in Ids \ {id} : oo[x].owner = u =>
        R[x].index < after(u) /\ F[u][R[x].index] = x
  BY SwapAgrees
<1> HIDE DEF R, F
<1>5. /\ length \in [Holders -> 0..MaxLength]
      /\ \A u \in Holders : length'[u] = after(u)
      /\ nextId \in 0..MaxId /\ totalShares \in Int
  BY <1>1 DEF IInv, TypeOK
<1>6. /\ oo'[id] = None
      /\ \A x \in Ids \ {id} : oo'[x] = R[x]
  BY <1>1, <1>2
<1>7. TypeOK'
  <2>1. None \in [owner : Holders \cup {Nobody}, index : Indexes]
    BY DEF None, Indexes
  <2>2. oo' \in [Ids -> [owner : Holders \cup {Nobody}, index : Indexes]]
    BY <1>1, <1>2, <2>1
  <2>3. length' \in [Holders -> 0..MaxLength]
    BY <1>1, <1>2, <1>5
  <2>4. QED
    BY <1>1, <1>2, <1>5, <2>2, <2>3 DEF TypeOK
<1>8. Listed'
  <2>1. ASSUME NEW u \in Holders, NEW k \in Indexes, k < length'[u]
        PROVE  slots'[u][k] \in 1..nextId' /\ oo'[slots'[u][k]] = [owner |-> u, index |-> k]
    <3>1. F[u][k] \in (1..nextId) \ {id} /\ R[F[u][k]] = [owner |-> u, index |-> k]
      BY <1>3, <1>5, <2>1
    <3>2. F[u][k] \in Ids \ {id}
      BY <1>5, <3>1 DEF Ids
    <3>3. QED
      BY <1>1, <1>6, <3>1, <3>2
  <2>2. QED
    BY <2>1 DEF Listed
<1>9. Indexed'
  <2>1. ASSUME NEW x \in Ids, oo'[x].owner # Nobody
        PROVE  /\ oo'[x].index < length'[oo'[x].owner]
               /\ slots'[oo'[x].owner][oo'[x].index] = x
    <3>1. x # id
      BY <1>6, <2>1 DEF None
    <3>2. oo'[x] = R[x] /\ R[x].owner = oo[x].owner
      BY <1>2, <1>6, <3>1
    <3>3. oo[x].owner \in Holders
      BY <2>1, <3>2 DEF IInv, TypeOK
    <3>4. QED
      BY <1>1, <1>4, <1>5, <3>1, <3>2, <3>3
  <2>2. QED
    BY <2>1 DEF Indexed, OwnerOf, OwnedIndexOf
<1>10. CountExact'
  <2>1. Live' = Live \ {id} /\ id \in Live
    BY <1>2, <1>6 DEF Live, OwnerOf, None
  <2>2. QED
    BY <1>1, <2>1, LiveFinite DEF IInv, CountExact
<1>11. QED
  BY <1>7, <1>8, <1>9, <1>10 DEF IInv

\* A move of any id of the account to another keeps the inductive invariant.
LEMMA MoveKeepsIInv ==
    ASSUME IInv, NEW from \in Holders, NEW to \in Holders, from # to,
           NEW id \in Ids, OwnerOf(id) = from, Move(from, to, id)
    PROVE  IInv'
<1> DEFINE R == Reindexed(from, id)
           F == Refilled(from, id)
           moved == [owner |-> to, index |-> length[to]]
           after(u) == IF u = from THEN length[u] - 1 ELSE length[u]
<1>1. /\ oo' = [R EXCEPT ![id] = moved]
      /\ slots' = [F EXCEPT ![to] = [@ EXCEPT ![length[to]] = id]]
      /\ length' = [length EXCEPT ![from] = @ - 1, ![to] = @ + 1]
      /\ nextId' = nextId /\ totalShares' = totalShares
      /\ length[to] < MaxLength
  BY DEF Move, NextIndex
<1>2. /\ length[from] \in 1..MaxLength
      /\ R \in [Ids -> [owner : Holders \cup {Nobody}, index : Indexes]]
      /\ F \in [Holders -> [Indexes -> 0..MaxId]]
      /\ \A x \in Ids \ {id} : R[x].owner = oo[x].owner
  BY SwapAgrees
<1>3. \A u \in Holders : \A k \in Indexes : k < after(u) =>
        F[u][k] \in (1..nextId) \ {id} /\ R[F[u][k]] = [owner |-> u, index |-> k]
  BY SwapAgrees
<1>4. \A u \in Holders : \A x \in Ids \ {id} : oo[x].owner = u =>
        R[x].index < after(u) /\ F[u][R[x].index] = x
  BY SwapAgrees
<1> HIDE DEF R, F
<1>5. /\ length \in [Holders -> 0..MaxLength]
      /\ nextId \in 0..MaxId /\ totalShares \in Int /\ length[to] \in Indexes
      /\ \A x \in Ids : oo[x].owner \in Holders \cup {Nobody}
  BY <1>1 DEF IInv, TypeOK, Indexes
<1>6. \A u \in Holders : length'[u] = IF u = to THEN length[to] + 1 ELSE after(u)
  BY <1>1, <1>5
<1>7. /\ oo'[id] = moved
      /\ \A x \in Ids \ {id} : oo'[x] = R[x]
  BY <1>1, <1>2
<1>8. /\ slots'[to][length[to]] = id
      /\ \A k \in Indexes \ {length[to]} : slots'[to][k] = F[to][k]
      /\ \A u \in Holders \ {to} : slots'[u] = F[u]
  BY <1>1, <1>2, <1>5
<1>9. id \in 1..nextId
  BY LiveMinted DEF IInv, Live, OwnerOf
<1>10. TypeOK'
  <2>1. moved \in [owner : Holders \cup {Nobody}, index : Indexes]
    BY <1>5
  <2>2. oo' \in [Ids -> [owner : Holders \cup {Nobody}, index : Indexes]]
    BY <1>1, <1>2, <2>1
  <2>3. length' \in [Holders -> 0..MaxLength]
    BY <1>1, <1>2, <1>5
  <2>4. [F[to] EXCEPT ![length[to]] = id] \in [Indexes -> 0..MaxId]
    <3>1. F[to] \in [Indexes -> 0..MaxId] /\ id \in 0..MaxId
      BY <1>2 DEF Ids
    <3>2. QED
      BY <3>1
  <2>5. slots' \in [Holders -> [Indexes -> 0..MaxId]]
    BY <1>1, <1>2, <2>4
  <2>6. QED
    BY <1>1, <1>5, <2>2, <2>3, <2>5 DEF TypeOK
<1>11. Listed'
  <2>1. ASSUME NEW u \in Holders, NEW k \in Indexes, k < length'[u]
        PROVE  slots'[u][k] \in 1..nextId' /\ oo'[slots'[u][k]] = [owner |-> u, index |-> k]
    <3>1. CASE u = to /\ k = length[to]
      BY <1>1, <1>7, <1>8, <1>9, <3>1
    <3>2. CASE ~(u = to /\ k = length[to])
      <4>1. k < after(u) /\ slots'[u][k] = F[u][k]
        BY <1>5, <1>6, <1>8, <2>1, <3>2 DEF Indexes
      <4>2. F[u][k] \in (1..nextId) \ {id} /\ R[F[u][k]] = [owner |-> u, index |-> k]
        BY <1>3, <4>1
      <4>3. F[u][k] \in Ids \ {id}
        BY <1>5, <4>2 DEF Ids
      <4>4. QED
        BY <1>1, <1>7, <4>1, <4>2, <4>3
    <3>3. QED
      BY <3>1, <3>2
  <2>2. QED
    BY <2>1 DEF Listed
<1>12. Indexed'
  <2>1. ASSUME NEW x \in Ids, oo'[x].owner # Nobody
        PROVE  /\ oo'[x].index < length'[oo'[x].owner]
               /\ slots'[oo'[x].owner][oo'[x].index] = x
    <3>1. CASE x = id
      BY <1>5, <1>6, <1>7, <1>8, <3>1 DEF Indexes
    <3>2. CASE x # id
      <4>1. oo'[x] = R[x] /\ R[x].owner = oo[x].owner /\ oo[x].owner \in Holders
        BY <1>2, <1>5, <1>7, <2>1, <3>2
      <4> DEFINE u == oo[x].owner
                 k == R[x].index
      <4>2. k < after(u) /\ F[u][k] = x /\ k \in Indexes
        BY <1>2, <1>4, <3>2, <4>1
      <4>3. k < length'[u] /\ ~(u = to /\ k = length[to]) /\ k \in Indexes
        BY <1>5, <1>6, <4>1, <4>2 DEF Indexes
      <4>4. slots'[u][k] = F[u][k]
        BY <1>8, <4>1, <4>3
      <4>5. QED
        BY <4>1, <4>2, <4>3, <4>4
    <3>3. QED
      BY <3>1, <3>2
  <2>2. QED
    BY <2>1 DEF Indexed, OwnerOf, OwnedIndexOf
<1>13. CountExact'
  <2>1. oo[id].owner = from /\ oo'[id].owner = to
    BY <1>7 DEF OwnerOf
  <2>2. Live' = Live
    BY <1>2, <1>7, <2>1 DEF Live, OwnerOf
  <2>3. QED
    BY <1>1, <2>2 DEF IInv, CountExact
<1>14. QED
  BY <1>10, <1>11, <1>12, <1>13 DEF IInv

-----------------------------------------------------------------------------
(* The theorems.                                                           *)

\* The id at the tail of an array that is not empty is its owner's.
LEMMA TailOwned ==
    ASSUME IInv, NEW u \in Holders, length[u] > 0
    PROVE  PickTail(u) \in Ids /\ OwnerOf(PickTail(u)) = u
<1>1. /\ length[u] - 1 \in Indexes
      /\ PickTail(u) \in 1..nextId
      /\ oo[PickTail(u)] = [owner |-> u, index |-> length[u] - 1]
  BY DEF IInv, TypeOK, Listed, PickTail, Indexes
<1>2. QED
  BY <1>1 DEF IInv, TypeOK, Ids, OwnerOf

LEMMA InitKeepsIInv ==
    ASSUME Init
    PROVE  IInv
<1>1. Listed /\ Indexed
  <2>1. \A id \in Ids : oo[id].owner = Nobody
    BY DEF Init, None
  <2>2. \A u \in Holders : length[u] = 0
    BY DEF Init
  <2>3. QED
    BY <2>1, <2>2 DEF Listed, Indexed, OwnerOf, Indexes
<1>2. TypeOK
  <2>1. None \in [owner : Holders \cup {Nobody}, index : Indexes]
    BY DEF None, Indexes
  <2>2. oo \in [Ids -> [owner : Holders \cup {Nobody}, index : Indexes]]
    BY <2>1 DEF Init
  <2>3. QED
    BY <2>2 DEF Init, TypeOK
<1>3. Live = {}
  BY DEF Init, Live, OwnerOf, None
<1>4. QED
  BY <1>1, <1>2, <1>3, FS_EmptySet DEF Init, IInv, CountExact

\* Every step of the storage keeps the invariant.
LEMMA NextKeepsIInv ==
    ASSUME IInv, [Next]_vars
    PROVE  IInv'
<1>1. ASSUME NEW u \in Holders, MintNFT(u) PROVE IInv'
  BY <1>1, MintKeepsIInv
<1>2. ASSUME NEW u \in Holders, length[u] > 0, BurnNFT(u, PickTail(u)) PROVE IInv'
  BY <1>2, TailOwned, BurnKeepsIInv
<1>3. ASSUME NEW u \in Holders, NEW v \in Holders, NEW id \in Ids,
             OwnerOf(id) = u, u # v, Move(u, v, id)
      PROVE  IInv'
  BY <1>3, MoveKeepsIInv
<1>4. CASE UNCHANGED vars
  BY <1>4 DEF vars, IInv, TypeOK, Listed, Indexed, CountExact, Live,
              OwnerOf, OwnedIndexOf
<1>5. QED
  BY <1>1, <1>2, <1>3, <1>4 DEF Next

\* The inductive invariant holds in every reachable state.
THEOREM Inductive == Spec => []IInv
<1>1. Init => IInv
  BY InitKeepsIInv
<1>2. IInv /\ [Next]_vars => IInv'
  BY NextKeepsIInv
<1>3. QED
  BY <1>1, <1>2, PTL DEF Spec

\* The arrays and the packed owner words never disagree, after any history of
\* mints, tail burns and moves.
THEOREM Agreement == Spec => []ViewsAgree
BY Inductive, PTL DEF IInv, ViewsAgree

\* Every packed word, array entry and length stays in range.
THEOREM Typed == Spec => []TypeOK
BY Inductive, PTL DEF IInv

\* The fee denominator is exactly the number of live shares.
THEOREM Counted == Spec => []CountExact
BY Inductive, PTL DEF IInv

-----------------------------------------------------------------------------
(* The packed storage implements the book of sequences.                    *)

\* Where the packed word points is the position in the sequence.
LEMMA PositionOf ==
    ASSUME IInv, NEW u \in Holders, NEW id \in Ids, OwnerOf(id) = u
    PROVE  /\ OwnedIndexOf(id) + 1 \in DOMAIN Array(u)
           /\ Array(u)[OwnedIndexOf(id) + 1] = id
<1>1. /\ OwnedIndexOf(id) \in Nat /\ OwnedIndexOf(id) < length[u]
      /\ slots[u][OwnedIndexOf(id)] = id /\ length[u] \in Nat
  BY DEF IInv, TypeOK, Indexed, OwnerOf, OwnedIndexOf, Indexes
<1>2. QED
  BY <1>1 DEF Array

\* A mint appends to the sequence.
LEMMA MintIsBookMint ==
    ASSUME IInv, NEW u \in Holders, MintNFT(u)
    PROVE  Book!Mint(u)
<1>1. /\ nextId' = nextId + 1
      /\ slots' = [slots EXCEPT ![u][length[u]] = nextId + 1]
      /\ length' = [length EXCEPT ![u] = @ + 1]
  BY DEF MintNFT, NextIndex
<1>2. /\ slots \in [Holders -> [Indexes -> 0..MaxId]]
      /\ length \in [Holders -> Nat] /\ length[u] \in Indexes
  BY DEF IInv, TypeOK, MintNFT, Indexes
<1>3. \A v \in Holders \ {u} : Array(v)' = Array(v)
  BY <1>1, <1>2 DEF Array
<1>4. Array(u)' = Append(Array(u), nextId + 1)
  BY <1>1, <1>2 DEF Array, Indexes
<1>5. Arrays' = [Arrays EXCEPT ![u] = Append(@, nextId + 1)]
  BY <1>3, <1>4 DEF Arrays
<1>6. QED
  BY <1>1, <1>5 DEF Book!Mint

\* Taking id out of the array is swap-and-pop on the sequence.
LEMMA SwapIsSwapPop ==
    ASSUME IInv, NEW u \in Holders, NEW id \in Ids, OwnerOf(id) = u
    PROVE  [k \in 1..(length[u] - 1) |-> Refilled(u, id)[u][k - 1]]
             = Book!SwapPop(Array(u), OwnedIndexOf(id) + 1)
<1>1. /\ OwnedIndexOf(id) \in Nat /\ OwnedIndexOf(id) < length[u]
      /\ OwnedIndexOf(id) \in Indexes
      /\ length[u] \in 1..MaxLength /\ slots[u] \in [Indexes -> 0..MaxId]
      /\ slots \in [Holders -> [Indexes -> 0..MaxId]]
  <2>1. /\ slots \in [Holders -> [Indexes -> 0..MaxId]]
        /\ length \in [Holders -> 0..MaxLength]
        /\ oo[id].index \in Indexes /\ oo[id].owner = u
    BY DEF IInv, TypeOK, OwnerOf
  <2>2. OwnedIndexOf(id) \in Nat /\ OwnedIndexOf(id) < length[u]
    BY <2>1 DEF IInv, Indexed, OwnerOf, OwnedIndexOf, Indexes
  <2>3. QED
    BY <2>1, <2>2 DEF Indexes
<1>2. Len(Array(u)) = length[u]
  BY <1>1 DEF Array
<1>3. ASSUME NEW k \in 1..(length[u] - 1)
      PROVE  Refilled(u, id)[u][k - 1]
               = IF k = OwnedIndexOf(id) + 1 THEN Array(u)[length[u]] ELSE Array(u)[k]
  <2>1. Array(u)[length[u]] = Last(u) /\ Array(u)[k] = slots[u][k - 1]
    BY <1>1 DEF Array, Last
  <2>2. k - 1 \in Indexes
    BY <1>1 DEF Indexes
  <2>3. CASE AtEnd(u, id)
    BY <1>1, <2>1, <2>3 DEF Refilled, AtEnd
  <2>4. CASE ~AtEnd(u, id)
    BY <1>1, <2>1, <2>2, <2>4 DEF Refilled
  <2>5. QED
    BY <2>3, <2>4
<1>4. QED
  BY <1>2, <1>3 DEF Book!SwapPop

\* Other holders' arrays are not touched by taking id out of from's.
LEMMA OthersKeepArrays ==
    ASSUME IInv, NEW from \in Holders, NEW id \in Ids, OwnerOf(id) = from,
           NEW v \in Holders, v # from
    PROVE  Refilled(from, id)[v] = slots[v]
BY DEF Refilled, IInv, TypeOK

\* Burning the tail drops the last element of the sequence.
LEMMA BurnIsBookBurn ==
    ASSUME IInv, NEW u \in Holders, length[u] > 0, BurnNFT(u, PickTail(u))
    PROVE  Book!BurnTail(u)
<1> DEFINE id == PickTail(u)
<1>1. /\ length \in [Holders -> 0..MaxLength] /\ length[u] - 1 \in Indexes
      /\ slots \in [Holders -> [Indexes -> 0..MaxId]] /\ nextId \in 0..MaxId
  BY DEF IInv, TypeOK, Indexes
<1>2. id \in 1..nextId /\ oo[id] = [owner |-> u, index |-> length[u] - 1]
  <2>1. length[u] - 1 < length[u]
    BY <1>1
  <2>2. QED
    BY <1>1, <2>1 DEF IInv, Listed, PickTail
<1>3. AtEnd(u, id)
  BY <1>2 DEF AtEnd, OwnedIndexOf
<1>4. /\ slots' = slots /\ length' = [length EXCEPT ![u] = @ - 1] /\ nextId' = nextId
  BY <1>3 DEF BurnNFT, Refilled
<1>5. \A v \in Holders \ {u} : Array(v)' = Array(v)
  BY <1>1, <1>4 DEF Array
<1>6. Array(u)' = Book!DropTails(Array(u), 1)
  BY <1>1, <1>4 DEF Array, Book!DropTails
<1>7. Arrays' = [Arrays EXCEPT ![u] = Book!DropTails(@, 1)]
  BY <1>5, <1>6 DEF Arrays
<1>8. Arrays[u] # << >>
  BY <1>1 DEF Arrays, Array
<1>9. QED
  BY <1>4, <1>7, <1>8 DEF Book!BurnTail

\* A move takes the id from one sequence and appends it to the other.
LEMMA MoveIsBookMove ==
    ASSUME IInv, NEW u \in Holders, NEW v \in Holders, u # v, NEW id \in Ids,
           OwnerOf(id) = u, Move(u, v, id)
    PROVE  \E i \in DOMAIN Arrays[u] : Book!Move(u, v, i)
<1> DEFINE i == OwnedIndexOf(id) + 1
           F == Refilled(u, id)
<1>1. /\ slots' = [F EXCEPT ![v] = [@ EXCEPT ![length[v]] = id]]
      /\ length' = [length EXCEPT ![u] = @ - 1, ![v] = @ + 1]
      /\ nextId' = nextId /\ length[v] < MaxLength
  BY DEF Move, NextIndex
<1>2. /\ F \in [Holders -> [Indexes -> 0..MaxId]]
      /\ \A x \in Holders \ {u} : F[x] = slots[x]
      /\ length[u] \in 1..MaxLength
  BY SwapAgrees, OthersKeepArrays
<1>3. length \in [Holders -> 0..MaxLength] /\ length[v] \in Indexes
  BY <1>1 DEF IInv, TypeOK, Indexes
<1>4. i \in DOMAIN Array(u) /\ Array(u)[i] = id
  BY PositionOf
<1>5. [k \in 1..(length[u] - 1) |-> F[u][k - 1]] = Book!SwapPop(Array(u), i)
  BY SwapIsSwapPop
<1> HIDE DEF F, i
<1>6. /\ slots'[u] = F[u] /\ length'[u] = length[u] - 1
      /\ slots'[v] = [slots[v] EXCEPT ![length[v]] = id] /\ length'[v] = length[v] + 1
      /\ \A x \in Holders \ {u, v} : slots'[x] = slots[x] /\ length'[x] = length[x]
  BY <1>1, <1>2, <1>3
<1>7. Array(u)' = Book!SwapPop(Array(u), i)
  BY <1>5, <1>6 DEF Array
<1>8. Array(v)' = Append(Array(v), id)
  <2>1. slots[v] \in [Indexes -> 0..MaxId]
    BY DEF IInv, TypeOK
  <2>2. QED
    <3>1. \A k \in 1..length[v] : k - 1 \in Indexes /\ k - 1 # length[v]
      BY <1>3 DEF Indexes
    <3>2. \A k \in 1..length[v] : slots'[v][k - 1] = slots[v][k - 1]
      BY <1>6, <2>1, <3>1
    <3>3. slots'[v][length[v]] = id
      BY <1>3, <1>6, <2>1
    <3>4. length[v] \in Nat
      BY <1>3 DEF Indexes
    <3>5. QED
      BY <1>6, <3>2, <3>3, <3>4 DEF Array
<1>9. \A x \in Holders \ {u, v} : Array(x)' = Array(x)
  BY <1>6 DEF Array
<1>10. Arrays' = [Arrays EXCEPT ![u] = Book!SwapPop(@, i), ![v] = Append(@, Arrays[u][i])]
  BY <1>4, <1>7, <1>8, <1>9 DEF Arrays
<1>11. Arrays[u] = Array(u)
  BY DEF Arrays
<1>12. QED
  BY <1>1, <1>4, <1>10, <1>11 DEF Book!Move

\* The packed owner words and arrays implement the plain book of sequences:
\* the initial states map to its initial state, every step to one of its steps.
THEOREM Implements == Spec => ImplementsBook
<1>1. Init => Book!Init
  BY DEF Init, Book!Init, Arrays, Array
<1>2. IInv /\ [Next]_vars => [Book!Next]_Book!bookVars
  <2> SUFFICES ASSUME IInv, [Next]_vars PROVE [Book!Next]_Book!bookVars
    OBVIOUS
  <2>1. ASSUME NEW u \in Holders, MintNFT(u) PROVE Book!Next
    BY <2>1, MintIsBookMint DEF Book!Next
  <2>2. ASSUME NEW u \in Holders, length[u] > 0, BurnNFT(u, PickTail(u))
        PROVE  Book!Next
    BY <2>2, BurnIsBookBurn DEF Book!Next
  <2>3. ASSUME NEW u \in Holders, NEW v \in Holders, NEW id \in Ids,
               OwnerOf(id) = u, u # v, Move(u, v, id)
        PROVE  Book!Next
    BY <2>3, MoveIsBookMove DEF Book!Next
  <2>4. CASE UNCHANGED vars
    BY <2>4 DEF vars, Book!bookVars, Arrays, Array
  <2>5. QED
    BY <2>1, <2>2, <2>3, <2>4 DEF Next
<1>3. QED
  BY <1>1, <1>2, Inductive, PTL DEF Spec, ImplementsBook, Book!Spec

-----------------------------------------------------------------------------
(* The approvals.                                                          *)

\* A standing approval is the one last named, and nobody's id has none.
Standing ==
    /\ approvals = [id \in Ids |-> approvals[id]]
    /\ named = [id \in Ids |-> named[id]]
    /\ \A id \in Ids : approvals[id] \in {Nobody, named[id]}
    /\ \A id \in Ids : OwnerOf(id) = Nobody => approvals[id] = Nobody

\* The steps of the approvals are steps of the storage, or leave it alone.
LEMMA StepOnTheBook ==
    ASSUME IInv, [ApprovalsNext]_allVars
    PROVE  [Next]_vars
<1>1. ASSUME NEW u \in Holders, Mint(u) PROVE Next
  BY <1>1 DEF Mint, Next
<1>2. ASSUME NEW u \in Holders, Burn(u) PROVE Next
  BY <1>2 DEF Burn, Next
<1>3. ASSUME NEW u \in Holders, NEW v \in Holders, Realign(u, v) PROVE Next
  BY <1>3, TailOwned DEF Realign, Next
<1>4. ASSUME NEW c \in Actors, NEW u \in Holders, NEW v \in Holders, NEW id \in Ids,
             NFTTransfer(c, u, v, id)
      PROVE  Next
  BY <1>4 DEF NFTTransfer, Next
<1>5. ASSUME NEW c \in Actors, NEW s \in Spenders \cup {Nobody}, NEW id \in Approvable,
             NFTApprove(c, s, id)
      PROVE  UNCHANGED vars
  BY <1>5 DEF NFTApprove
<1>6. ASSUME NEW u \in Holders, NEW o \in Spenders, NEW yes \in BOOLEAN,
             NFTSetApprovalForAll(u, o, yes)
      PROVE  UNCHANGED vars
  BY <1>6 DEF NFTSetApprovalForAll
<1>7. CASE UNCHANGED allVars
  BY <1>7 DEF allVars
<1>8. QED
  BY <1>1, <1>2, <1>3, <1>4, <1>5, <1>6, <1>7 DEF ApprovalsNext

\* A removal of one id changes the owner of no other.
LEMMA OthersKeepOwners ==
    ASSUME IInv, NEW from \in Holders, NEW id \in Ids, OwnerOf(id) = from,
           \/ BurnNFT(from, id)
           \/ \E to \in Holders : Move(from, to, id)
    PROVE  \A x \in Ids \ {id} : oo'[x].owner = oo[x].owner
<1>1. \A x \in Ids \ {id} : Reindexed(from, id)[x].owner = oo[x].owner
  BY SwapAgrees
<1>2. ASSUME NEW w, NEW x \in Ids \ {id}, oo' = [Reindexed(from, id) EXCEPT ![id] = w]
      PROVE  oo'[x].owner = oo[x].owner
  BY <1>1, <1>2, SwapAgrees
<1>3. QED
  BY <1>2 DEF BurnNFT, Move

\* Clearing the approval of the id that leaves is enough.
LEMMA RemovalKeepsStanding ==
    ASSUME Standing, NEW id \in Ids,
           \A x \in Ids \ {id} : oo'[x].owner = oo[x].owner,
           approvals' = Cleared(id), Observe
    PROVE  Standing'
BY DEF Standing, Cleared, Observe, OwnerOf

LEMMA StepKeepsStanding ==
    ASSUME IInv, Standing, [ApprovalsNext]_allVars
    PROVE  Standing'
<1>1. ASSUME NEW u \in Holders, Mint(u) PROVE Standing'
  <2>1. /\ nextId + 1 \in Ids
        /\ \A x \in Ids \ {nextId + 1} : oo'[x] = oo[x]
        /\ oo'[nextId + 1].owner = u
    BY <1>1 DEF Mint, MintNFT, IInv, TypeOK, Ids
  <2>2. OwnerOf(nextId + 1) = Nobody
    BY <2>1, LiveMinted DEF IInv, Live, TypeOK
  <2>3. approvals' = approvals /\ Observe
    BY <1>1 DEF Mint
  <2>4. u # Nobody
    BY BookAssumption DEF BookAssumption
  <2>5. QED
    BY <2>1, <2>2, <2>3, <2>4 DEF Standing, Observe, OwnerOf
<1>2. ASSUME NEW u \in Holders, Burn(u) PROVE Standing'
  <2> DEFINE id == PickTail(u)
  <2>1. id \in Ids /\ OwnerOf(id) = u
    BY <1>2, TailOwned DEF Burn
  <2>2. BurnNFT(u, id) /\ approvals' = Cleared(id) /\ Observe
    BY <1>2 DEF Burn
  <2>3. \A x \in Ids \ {id} : oo'[x].owner = oo[x].owner
    BY <2>1, <2>2, OthersKeepOwners
  <2>4. QED
    BY <2>1, <2>2, <2>3, RemovalKeepsStanding
<1>3. ASSUME NEW u \in Holders, NEW v \in Holders, Realign(u, v) PROVE Standing'
  <2> DEFINE id == PickTail(u)
  <2>1. id \in Ids /\ OwnerOf(id) = u
    BY <1>3, TailOwned DEF Realign
  <2>2. Move(u, v, id) /\ approvals' = Cleared(id) /\ Observe
    BY <1>3 DEF Realign
  <2>3. \A x \in Ids \ {id} : oo'[x].owner = oo[x].owner
    BY <2>1, <2>2, OthersKeepOwners
  <2>4. QED
    BY <2>1, <2>2, <2>3, RemovalKeepsStanding
<1>4. ASSUME NEW c \in Actors, NEW u \in Holders, NEW v \in Holders, NEW id \in Ids,
             NFTTransfer(c, u, v, id)
      PROVE  Standing'
  <2>1. /\ OwnerOf(id) = u /\ Move(u, v, id)
        /\ approvals' = Cleared(id) /\ Observe
    BY <1>4 DEF NFTTransfer
  <2>2. \A x \in Ids \ {id} : oo'[x].owner = oo[x].owner
    BY <2>1, OthersKeepOwners
  <2>3. QED
    BY <2>1, <2>2, RemovalKeepsStanding
<1>5. ASSUME NEW c \in Actors, NEW s \in Spenders \cup {Nobody}, NEW id \in Approvable,
             NFTApprove(c, s, id)
      PROVE  Standing'
  <2>1. /\ approvals' = [approvals EXCEPT ![id] = s]
        /\ named' = [named EXCEPT ![id] = s]
        /\ OwnerOf(id) # Nobody /\ oo' = oo /\ id \in Ids
    BY <1>5, ApprovalsAssumption DEF ApprovalsAssumption, NFTApprove, vars, Ids
  <2>2. QED
    BY <2>1 DEF Standing, OwnerOf
<1>6. ASSUME NEW u \in Holders, NEW o \in Spenders, NEW yes \in BOOLEAN,
             NFTSetApprovalForAll(u, o, yes)
      PROVE  Standing'
  BY <1>6 DEF NFTSetApprovalForAll, vars, Standing, OwnerOf
<1>7. CASE UNCHANGED allVars
  BY <1>7 DEF allVars, vars, Standing, OwnerOf
<1>8. QED
  BY <1>1, <1>2, <1>3, <1>4, <1>5, <1>6, <1>7 DEF ApprovalsNext

\* Both invariants hold in every reachable state of the approvals.
THEOREM ApprovalsInductive == ApprovalsSpec => [](IInv /\ Standing)
<1>1. ApprovalsInit => IInv /\ Standing
  <2>1. ApprovalsInit => IInv
    BY InitKeepsIInv DEF ApprovalsInit
  <2>2. ApprovalsInit => Standing
    BY DEF ApprovalsInit, Standing
  <2>3. QED
    BY <2>1, <2>2
<1>2. IInv /\ Standing /\ [ApprovalsNext]_allVars => (IInv /\ Standing)'
  BY StepOnTheBook, NextKeepsIInv, StepKeepsStanding
<1>3. QED
  BY <1>1, <1>2, PTL DEF ApprovalsSpec

\* Whoever may move a share speaks for its present owner or was the last to
\* be named by one who did, since this owner got it.
THEOREM Mandated == ApprovalsSpec => []MoversAreMandated
<1>1. Standing => MoversAreMandated
  <2> SUFFICES ASSUME Standing, NEW id \in Live, NEW c \in Actors,
                      MayMove(c, OwnerOf(id), id)
               PROVE  Speaks(c, OwnerOf(id)) \/ c = named[id]
    BY DEF MoversAreMandated
  <2>1. c # Nobody /\ id \in Ids
    BY BookAssumption, ApprovalsAssumption DEF BookAssumption, ApprovalsAssumption, Actors, Live
  <2>2. QED
    BY <2>1 DEF MayMove, Standing
<1>2. QED
  BY <1>1, ApprovalsInductive, PTL

\* Approvals add nothing to what the storage may do: every history of calls
\* through the mirror is a history of the packed storage.
THEOREM OnTheBook == ApprovalsSpec => Spec
<1>1. ApprovalsInit => Init
  BY DEF ApprovalsInit
<1>2. IInv /\ [ApprovalsNext]_allVars => [Next]_vars
  BY StepOnTheBook
<1>3. QED
  BY <1>1, <1>2, ApprovalsInductive, PTL DEF ApprovalsSpec, Spec
=============================================================================
