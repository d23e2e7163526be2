-------------------------- MODULE AirdropPush_proof --------------------------
(***************************************************************************)
(* Proofs about AirdropPush and the plan of PushGas, for every tree, every *)
(* claims file, any chunk gas, any gas that claims turn out to take and    *)
(* any number of transactions in flight.                                   *)
(*                                                                         *)
(* Three things come together.  The plan: each chunk it makes can start    *)
(* (Ready), by induction over the packing and the arithmetic of its limit  *)
(* and floor.  The vault: what PrismMigration_proof proves of it holds     *)
(* under the pushes (VaultSteps).  The loop: the rows it has passed are    *)
(* settled, which later steps of the vault cannot undo (Walked), and its   *)
(* first row has what it needs (Begins).                                   *)
(***************************************************************************)
EXTENDS AirdropPush, SumTheorems

-----------------------------------------------------------------------------
(* Finite sets of numbers, and induction downwards from a number.          *)

\* A finite set of natural numbers that is not empty has a maximum.
LEMMA MaxIs ==
    ASSUME NEW S, IsFiniteSet(S), S # {}, S \subseteq Nat
    PROVE  Max(S) \in S /\ \A y \in S : Max(S) >= y
<1> DEFINE Good == {T \in SUBSET S : T = {} \/ \E x \in T : \A y \in T : x >= y}
<1>1. ASSUME NEW T \in SUBSET S, \A U \in SUBSET T : U # T => U \in Good
      PROVE  T \in Good
  <2>1. SUFFICES ASSUME NEW x \in T PROVE \E z \in T : \A y \in T : z >= y
    OBVIOUS
  <2>2. T \ {x} \in Good
    BY <1>1
  <2>3. CASE T \ {x} = {}
    <3>1. \A y \in T : x >= y
      BY <2>3
    <3>2. QED
      BY <3>1
  <2>4. CASE T \ {x} # {}
    <3>1. PICK z \in T \ {x} : \A y \in T \ {x} : z >= y
      BY <2>2, <2>4
    <3>2. CASE x >= z
      <4>1. \A y \in T : x >= y
        BY <3>1, <3>2
      <4>2. QED
        BY <4>1
    <3>3. CASE ~(x >= z)
      <4>1. \A y \in T : z >= y
        BY <3>1, <3>3
      <4>2. QED
        BY <4>1
    <3>4. QED
      BY <3>2, <3>3
  <2>5. QED
    BY <2>3, <2>4
<1> HIDE DEF Good
<1>2. S \in Good
  BY <1>1, SubsetInduction
<1>3. \E x \in S : \A y \in S : x >= y
  BY <1>2 DEF Good
<1>4. QED
  BY <1>3 DEF Max

\* The lesser and the greater of two numbers.
LEMMA OfTwo ==
    ASSUME NEW a \in Int, NEW b \in Int
    PROVE  /\ Min({a, b}) = IF a <= b THEN a ELSE b
           /\ Max({a, b}) = IF a >= b THEN a ELSE b
BY DEF Min, Max

\* What holds of a number if it holds of all above it, up to n, holds from 1 on.
LEMMA DownInduction ==
    ASSUME NEW n \in Nat, NEW Good,
           \A k \in 1..n : (\A j \in (k + 1)..n : j \in Good) => k \in Good
    PROVE  \A k \in 1..n : k \in Good
<1> DEFINE Bad == {k \in 1..n : k \notin Good}
<1>1. SUFFICES ASSUME Bad # {} PROVE FALSE
  OBVIOUS
<1>2. IsFiniteSet(Bad) /\ Bad \subseteq Nat
  <2>1. Bad \in SUBSET Nat /\ \A k \in Bad : k <= n
    OBVIOUS
  <2> HIDE DEF Bad
  <2>2. QED
    BY <2>1, FS_BoundedSetOfNaturals
<1>3. Max(Bad) \in Bad /\ \A y \in Bad : Max(Bad) >= y
  <2> HIDE DEF Bad
  <2>1. QED
    BY <1>1, <1>2, MaxIs
<1>4. PICK k \in Bad : \A y \in Bad : k >= y
  BY <1>3
<1>5. \A j \in (k + 1)..n : j \in Good
  BY <1>4
<1>6. QED
  BY <1>4, <1>5

\* A set of numbers up to n that is not empty has a minimum.
LEMMA MinIs ==
    ASSUME NEW n \in Nat, NEW S, S # {}, S \subseteq 1..n
    PROVE  Min(S) \in S /\ \A y \in S : Min(S) <= y
<1> DEFINE T == {n - s : s \in S}
<1>1. IsFiniteSet(T) /\ T # {} /\ T \subseteq Nat
  <2>1. /\ T \in SUBSET Nat /\ T # {}
        /\ \A t \in T : t <= n
    <3>1. \A s \in S : n - s \in Nat /\ n - s <= n
      OBVIOUS
    <3>2. \A t \in T : t \in Nat /\ t <= n
      BY <3>1
    <3>3. PICK s \in S : TRUE
      OBVIOUS
    <3>4. n - s \in T
      OBVIOUS
    <3> HIDE DEF T
    <3>5. QED
      BY <3>2, <3>4
  <2> HIDE DEF T
  <2>2. QED
    BY <2>1, FS_BoundedSetOfNaturals
<1>2. PICK t \in T : \A y \in T : t >= y
  <2> HIDE DEF T
  <2>1. QED
    BY <1>1, MaxIs
<1>3. PICK s \in S : t = n - s
  BY <1>2
<1>4. ASSUME NEW y \in S PROVE s <= y
  <2>1. n - y \in T
    OBVIOUS
  <2>2. t >= n - y
    BY <1>2, <2>1
  <2>3. QED
    BY <1>3, <2>2
<1>5. QED
  BY <1>3, <1>4 DEF Min

-----------------------------------------------------------------------------
(* What rows cost.                                                         *)

\* The rows of claims files: an account and an amount.
Listed == (UNION {DOMAIN f : f \in Files}) \X Nat

\* The calldata of a row.
Calldata == CalldataBase + ProofDepth * CalldataPerProof

LEMMA CalldataIs == Calldata \in Nat /\ Calldata <= 82120 /\ Calldata = 200 + 512 * ProofDepth
<1>1. ProofDepth \in Nat /\ ProofDepth <= 160
  BY PushAssumption DEF PushAssumption
<1>2. Calldata = 200 + ProofDepth * 512
  BY DEF Calldata, CalldataBase, CalldataPerProof
<1>3. QED
  BY <1>1, <1>2

\* A row takes at least the base and at most a realignment of the cap.
LEMMA RowCost ==
    ASSUME NEW row \in Listed
    PROVE  /\ RowExecution(row) \in Nat
           /\ 66000 <= RowExecution(row) /\ RowExecution(row) <= 10120000
           /\ RowGas(row) \in Nat
           /\ RowGas(row) = RowExecution(row) + Calldata
<1> DEFINE n == Nfts(row[2])
           q == row[2] \div Unit
           e == RowExecution(row)
<1>1. row[2] \in Nat /\ Unit \in Nat \ {0}
  BY PushAssumption DEF PushAssumption, Listed
<1>2. q \in Nat
  BY <1>1
<1>3. n = Min({q, 128})
  BY DEF Nfts, MaxRealign
<1>4. e = 66000 + n * 78000 + (IF n > 0 THEN 70000 ELSE 0)
  BY DEF RowExecution, GasBase, GasPerNft, GasPoke
<1>5. RowGas(row) = e + CalldataBase + ProofDepth * CalldataPerProof
  BY DEF RowGas
<1>6. ProofDepth \in Nat
  BY PushAssumption DEF PushAssumption
<1> HIDE DEF n, q, e
<1>7. n \in Nat /\ n <= 128
  BY <1>2, <1>3, OfTwo
<1>8. e \in Nat /\ 66000 <= e /\ e <= 10120000
  BY <1>4, <1>7
<1>9. RowGas(row) = e + Calldata
  <2>1. RowGas(row) = e + 200 + ProofDepth * 512
    BY <1>5 DEF CalldataBase, CalldataPerProof
  <2>2. QED
    BY <1>6, <1>8, <2>1, CalldataIs
<1>10. QED
  BY <1>8, <1>9, CalldataIs DEF e

\* A total is the sum over the indexes.
LEMMA TotalIsSum ==
    ASSUME NEW costs
    PROVE  Total(costs) = SumFunctionOnSet(costs, DOMAIN costs)
BY Zenon DEF Total, FoldSeq, FoldFunction, SumFunctionOnSet, FoldFunctionOnSet, MapThenFoldSet

\* The gas of some rows is their execution and their calldata, and every row
\* adds the base at least.
LEMMA Totals ==
    ASSUME NEW rows \in Seq(Listed)
    PROVE  /\ Len(rows) \in Nat
           /\ Total(Executions(rows)) \in Nat
           /\ Total(RowGases(rows)) \in Nat
           /\ Total(RowGases(rows)) = Total(Executions(rows)) + Calldata * Len(rows)
           /\ \A k \in 1..Len(rows) :
                 Total(Executions(rows)) >= RowExecution(rows[k]) + 66000 * (Len(rows) - 1)
<1> DEFINE n == Len(rows)
           S == 1..n
           e == Executions(rows)
           g == RowGases(rows)
           d == [k \in S |-> Calldata]
           low == [k \in S |-> 66000]
<1>1. n \in Nat /\ DOMAIN rows = S /\ \A k \in S : rows[k] \in Listed
  OBVIOUS
<1>2. IsFiniteSet(S) /\ Cardinality(S) = n
  <2>1. n \in Nat
    OBVIOUS
  <2> HIDE DEF n
  <2>2. QED
    BY ONLY <2>1, FS_Interval DEF S
<1>3. DOMAIN e = S /\ DOMAIN g = S
  BY <1>1 DEF Executions, RowGases
<1>4. \A k \in S : e[k] = RowExecution(rows[k]) /\ g[k] = RowGas(rows[k])
  BY <1>1 DEF Executions, RowGases
<1>5. \A k \in S : e[k] \in Nat /\ e[k] >= 66000 /\ d[k] \in Nat /\ g[k] = e[k] + d[k]
  BY <1>1, <1>4, RowCost, CalldataIs
<1>6. \A k \in S : low[k] = 66000 /\ low[k] \in Nat
  OBVIOUS
<1>7. \A k \in S : d[k] = Calldata
  OBVIOUS
<1>8. Total(e) = SumFunctionOnSet(e, S) /\ Total(g) = SumFunctionOnSet(g, S)
  BY <1>3, TotalIsSum
<1> HIDE DEF e, g, d, low, S
<1>9. SumFunctionOnSet(e, S) \in Nat
  BY <1>2, <1>5, SumRemove
<1>10. SumFunctionOnSet(g, S) = SumFunctionOnSet(e, S) + Calldata * n
  <2>1. SumFunctionOnSet(g, S) = SumFunctionOnSet(e, S) + SumFunctionOnSet(d, S)
    BY <1>2, <1>5, SumPlus
  <2>2. CASE S = {}
    <3>1. n = 0
      BY <1>2, <2>2, FS_EmptySet
    <3>2. Calldata * n = 0 /\ SumFunctionOnSet(d, {}) = 0
      <4>1. Calldata \in Nat
        BY CalldataIs
      <4>2. SumFunctionOnSet(d, {}) = 0
        <5>1. \A k \in S : d[k] \in Nat
          BY <1>5
        <5>2. QED
          BY ONLY <1>2, <5>1, SumRemove
      <4>3. QED
        BY <3>1, <4>1, <4>2
    <3>3. QED
      BY <1>9, <2>1, <2>2, <3>2
  <2>3. ASSUME NEW k \in S
        PROVE  SumFunctionOnSet(d, S) = Calldata * n
    <3>1. Calldata \in Nat
      BY CalldataIs
    <3>2. QED
      BY <1>2, <1>7, <3>1, SumConstant
  <2>4. QED
    BY <2>1, <2>2, <2>3
<1>11. ASSUME NEW k \in S
       PROVE  SumFunctionOnSet(e, S) >= RowExecution(rows[k]) + 66000 * (n - 1)
  <2> DEFINE R == S \ {k}
  <2>1. IsFiniteSet(R) /\ Cardinality(R) = n - 1
    BY <1>2, FS_RemoveElement
  <2>2. SumFunctionOnSet(e, S) = e[k] + SumFunctionOnSet(e, R)
    <3>1. \A x \in S : e[x] \in Nat
      BY <1>5
    <3>2. QED
      BY ONLY <1>2, <3>1, k \in S, SumRemove DEF R
  <2>3. SumFunctionOnSet(low, R) = 66000 * (n - 1)
    <3>1. SumFunctionOnSet(low, R) = 66000 * Cardinality(R)
      <4>1. \A x \in R : low[x] = 66000
        BY <1>6
      <4>2. 66000 \in Nat
        OBVIOUS
      <4> HIDE DEF R
      <4>3. QED
        BY ONLY <2>1, <4>1, <4>2, SumConstant
    <3>2. QED
      BY <2>1, <3>1
  <2>4. SumFunctionOnSet(low, R) <= SumFunctionOnSet(e, R)
    BY <1>5, <1>6, <2>1, SumLeq
  <2>5. SumFunctionOnSet(e, R) \in Nat /\ e[k] \in Nat
    BY <1>5, <2>1, SumRemove
  <2>6. QED
    BY <1>1, <1>4, <2>2, <2>3, <2>4, <2>5
<1>12. SumFunctionOnSet(g, S) \in Nat
  BY <1>2, <1>5, CalldataIs, SumRemove
<1>13. QED
  BY <1>1, <1>8, <1>9, <1>10, <1>11, <1>12 DEF e, g, S

-----------------------------------------------------------------------------
(* Chunks: their worst row, floor, limit and intrinsic charge.             *)

\* The worst row of some rows is one of them, and no row is worse.
LEMMA WorstIs ==
    ASSUME NEW rows \in Seq(Listed), rows # << >>
    PROVE  /\ WorstRow(rows) \in Nat
           /\ \A k \in 1..Len(rows) : RowGas(rows[k]) <= WorstRow(rows)
           /\ \E k \in 1..Len(rows) : RowGas(rows[k]) = WorstRow(rows)
<1> DEFINE S == 1..Len(rows)
           G == {RowGas(rows[k]) : k \in S}
<1>1. Len(rows) \in Nat /\ Len(rows) # 0 /\ DOMAIN rows = S /\ \A k \in S : rows[k] \in Listed
  OBVIOUS
<1>2. G # {} /\ G \subseteq Nat
  <2>1. 1 \in S
    BY <1>1
  <2>2. \A k \in S : RowGas(rows[k]) \in Nat
    BY <1>1, RowCost
  <2> HIDE DEF S
  <2>3. QED
    BY <2>1, <2>2
<1>3. IsFiniteSet(S)
  BY <1>1, FS_Interval
<1>4. IsFiniteSet(G)
  <2> DEFINE f == [k \in S |-> RowGas(rows[k])]
  <2> HIDE DEF S
  <2>1. f \in Surjection(S, G)
    BY DEF Surjection
  <2>2. QED
    BY <1>3, <2>1, FS_Surjection
<1>5. WorstRow(rows) = Max(G)
  BY <1>1 DEF WorstRow
<1>6. Max(G) \in G /\ \A y \in G : Max(G) >= y
  <2> HIDE DEF G
  <2>1. QED
    BY <1>2, <1>4, MaxIs
<1>7. QED
  BY <1>2, <1>5, <1>6

\* The floor of a chunk covers its worst row and the least floor.
LEMMA FloorIs ==
    ASSUME NEW rows \in Seq(Listed), rows # << >>
    PROVE  /\ GasFloor(rows) \in Nat
           /\ GasFloor(rows) >= FloorMin
           /\ GasFloor(rows) >= WorstRow(rows)
           /\ GasFloor(rows) \in {FloorMin, WorstRow(rows)}
<1> DEFINE w == WorstRow(rows)
<1>1. w \in Nat
  BY WorstIs
<1>2. GasFloor(rows) = Max({FloorMin, w})
  BY DEF GasFloor
<1>3. FloorMin \in Nat
  BY SMT DEF FloorMin
<1> HIDE DEF w
<1>4. Max({FloorMin, w}) = IF FloorMin >= w THEN FloorMin ELSE w
  <2>1. FloorMin \in Int /\ w \in Int
    BY <1>1, <1>3
  <2>2. QED
    BY ONLY <2>1, OfTwo
<1>5. QED
  BY <1>1, <1>2, <1>3, <1>4 DEF w

\* The limit is what the chunk takes, with headroom, up to the cap.
LEMMA LimitIs ==
    ASSUME NEW rows \in Seq(Listed), rows # << >>
    PROVE  GasLimit(rows) =
             IF TxGasCap <= Total(RowGases(rows)) + GasFloor(rows) + LoopMargin + TxOverhead
             THEN TxGasCap
             ELSE Total(RowGases(rows)) + GasFloor(rows) + LoopMargin + TxOverhead
<1> DEFINE s == Total(RowGases(rows)) + GasFloor(rows) + LoopMargin + TxOverhead
<1>1. s \in Int /\ TxGasCap \in Int
  <2>1. Total(RowGases(rows)) \in Nat
    BY Totals, CalldataIs, SMT
  <2>2. GasFloor(rows) \in Nat
    BY FloorIs, SMT
  <2>3. LoopMargin \in Nat /\ TxOverhead \in Nat /\ TxGasCap \in Int
    BY SMT DEF LoopMargin, TxOverhead, TxGasCap
  <2>4. QED
    BY <2>1, <2>2, <2>3, SMT
<1>2. GasLimit(rows) = Min({TxGasCap, s})
  BY DEF GasLimit
<1> HIDE DEF s
<1>3. QED
  BY <1>1, <1>2, OfTwo DEF s

\* The intrinsic charge, by rows.
LEMMA IntrinsicIs ==
    ASSUME NEW rows \in Seq(Listed)
    PROVE  /\ Intrinsic(rows) \in Nat
           /\ Intrinsic(rows) = 21064 + 1848 * Len(rows) + Calldata * Len(rows)
<1> DEFINE n == Len(rows)
           d == ProofDepth
<1>1. n \in Nat /\ d \in Nat
  <2>1. n \in Nat
    OBVIOUS
  <2>2. ProofDepth \in 0..160
    BY PushAssumption DEF PushAssumption
  <2>3. QED
    BY <2>1, <2>2
<1>2. Intrinsic(rows) = 21000 + 16 * (4 + n * (128 + 32 * d))
  BY SMT DEF Intrinsic, TxOverhead
<1>3. Calldata = 200 + 512 * d
  BY CalldataIs, SMT
<1> HIDE DEF n, d
<1>4. n * d \in Nat
  BY <1>1, SMT
<1>5. n * (128 + 32 * d) = 128 * n + 32 * (n * d)
  BY <1>1, SMT
<1>6. (200 + 512 * d) * n = 200 * n + 512 * (n * d)
  BY <1>1, SMT
<1>7. QED
  BY <1>1, <1>2, <1>3, <1>4, <1>5, <1>6, SMT DEF n

-----------------------------------------------------------------------------
(* Packing.  The chunks come of a recursion over the rows from the last to *)
(* the first; a function that satisfies it is built the same way.          *)

\* A row added to others adds its gas.
LEMMA AddedRow ==
    ASSUME NEW cur \in Seq(Listed), NEW row \in Listed
    PROVE  Total(RowGases(Append(cur, row))) = Total(RowGases(cur)) + RowGas(row)
<1> DEFINE n == Len(cur)
           S == 1..n
           T == 1..(n + 1)
           h == RowGases(cur)
           g == RowGases(Append(cur, row))
<1>1. n \in Nat /\ DOMAIN h = S /\ DOMAIN g = T
  BY DEF RowGases
<1>2. /\ \A k \in S : h[k] = RowGas(cur[k]) /\ g[k] = RowGas(cur[k]) /\ cur[k] \in Listed
      /\ g[n + 1] = RowGas(row)
  BY DEF RowGases
<1>3. /\ IsFiniteSet(S) /\ IsFiniteSet(T)
      /\ S = T \ {n + 1} /\ n + 1 \in T
  <2> HIDE DEF n
  <2>1. IsFiniteSet(S) /\ IsFiniteSet(T)
    BY <1>1, FS_Interval
  <2>2. QED
    BY <1>1, <2>1
<1>4. Total(h) = SumFunctionOnSet(h, S) /\ Total(g) = SumFunctionOnSet(g, T)
  <2> HIDE DEF h, g, S, T
  <2>1. QED
    BY <1>1, TotalIsSum
<1> HIDE DEF h, g
<1>5. \A k \in S : h[k] \in Nat /\ g[k] = h[k]
  BY <1>2, RowCost
<1>6. g[n + 1] \in Nat
  BY <1>2, RowCost
<1>7. \A k \in T : g[k] \in Nat
  BY <1>1, <1>3, <1>5, <1>6
<1> HIDE DEF S, T, n
<1>8. SumFunctionOnSet(g, T) = g[n + 1] + SumFunctionOnSet(g, S)
  BY <1>3, <1>7, SumRemove
<1>9. SumFunctionOnSet(g, S) = SumFunctionOnSet(h, S) /\ SumFunctionOnSet(h, S) \in Nat
  BY <1>3, <1>5, SumEqual, SumRemove
<1>10. QED
  BY <1>2, <1>4, <1>6, <1>8, <1>9 DEF g, h

\* The rows of a chunk leave room for its worst row.
Fits(rows) ==
    Len(rows) > 1 =>
        Total(RowGases(rows)) + WorstRow(rows) + LoopMargin <= TxGasCap - TxOverhead

\* Chunks of rows in R.
Loads(R) == {rows \in Seq(R) : rows # << >> /\ Fits(rows)}

\* A part of a sequence is its last element after the others.
LEMMA SplitLast ==
    ASSUME NEW R, NEW rows \in Seq(R), NEW i \in Nat, NEW j \in Nat,
           1 <= i, i < j, j <= Len(rows)
    PROVE  /\ SubSeq(rows, i, j - 1) \in Seq(R)
           /\ SubSeq(rows, i, j - 1) # << >>
           /\ rows[j] \in R
           /\ SubSeq(rows, i, j) = Append(SubSeq(rows, i, j - 1), rows[j])
<1> DEFINE cur == SubSeq(rows, i, j - 1)
           load == SubSeq(rows, i, j)
<1>1. Len(rows) \in Nat /\ \A k \in 1..Len(rows) : rows[k] \in R
  OBVIOUS
<1>2. /\ cur \in Seq(R) /\ Len(cur) = j - i
      /\ \A k \in 1..(j - i) : cur[k] = rows[i + k - 1]
  BY <1>1
<1>3. /\ load \in Seq(R) /\ Len(load) = j - i + 1
      /\ \A k \in 1..(j - i + 1) : load[k] = rows[i + k - 1]
  BY <1>1
<1>4. cur # << >> /\ rows[j] \in R
  BY <1>1, <1>2
<1> HIDE DEF cur, load
<1>5. load = Append(cur, rows[j])
  <2>1. load[j - i + 1] = rows[j]
    BY <1>3
  <2>2. QED
    BY <1>2, <1>3, <1>4, <2>1
<1>6. QED
  BY <1>2, <1>4, <1>5 DEF cur, load

\* Where the chunk that starts at i ends.
Past(rows, chunkGas, i) ==
    Min({j \in (i + 1)..(Len(rows) + 1) :
            \/ j > Len(rows)
            \/ Overflows(SubSeq(rows, i, j - 1), rows[j], chunkGas)})

\* The chunk that starts at i has a row, and fits.
LEMMA Taken ==
    ASSUME NEW R \in SUBSET Listed, NEW rows \in Seq(R), NEW chunkGas \in Nat,
           NEW i \in 1..Len(rows)
    PROVE  /\ Past(rows, chunkGas, i) \in (i + 1)..(Len(rows) + 1)
           /\ SubSeq(rows, i, Past(rows, chunkGas, i) - 1) \in Loads(R)
<1> DEFINE n == Len(rows)
           S == {j \in (i + 1)..(n + 1) :
                    j > n \/ Overflows(SubSeq(rows, i, j - 1), rows[j], chunkGas)}
           p == Past(rows, chunkGas, i)
           load == SubSeq(rows, i, p - 1)
<1>1. n \in Nat /\ i \in 1..n
  OBVIOUS
<1>2. p \in S /\ \A j \in S : p <= j
  <2>1. p = Min(S)
    BY DEF Past
  <2>2. S # {} /\ S \subseteq 1..(n + 1) /\ n + 1 \in Nat
    <3> HIDE DEF n
    <3>1. n + 1 \in S
      BY <1>1
    <3>2. S \subseteq (i + 1)..(n + 1)
      OBVIOUS
    <3>3. (i + 1)..(n + 1) \subseteq 1..(n + 1) /\ n + 1 \in Nat
      BY <1>1
    <3> HIDE DEF S
    <3>4. QED
      BY <3>1, <3>2, <3>3
  <2> HIDE DEF S, p
  <2>3. QED
    BY <2>1, <2>2, MinIs
<1>3. p \in (i + 1)..(n + 1)
  BY <1>2
<1> HIDE DEF p
<1>4. load \in Seq(R) /\ Len(load) = p - i /\ load # << >>
  BY <1>1, <1>3
<1>5. ASSUME Len(load) > 1
      PROVE  Total(RowGases(load)) + WorstRow(load) + LoopMargin <= TxGasCap - TxOverhead
  <2> DEFINE j == p - 1
             cur == SubSeq(rows, i, j - 1)
             row == rows[j]
  <2>1. j \in (i + 1)..n /\ j \in Int /\ j < p
    BY <1>1, <1>3, <1>4, <1>5
  <2>2. j \notin S
    BY <1>2, <2>1
  <2>3. ~Overflows(cur, row, chunkGas)
    BY <1>1, <2>1, <2>2
  <2>4. cur \in Seq(R) /\ cur # << >> /\ row \in R /\ load = Append(cur, row)
    <3>1. j \in Nat /\ i \in Nat /\ 1 <= i /\ i < j /\ j <= Len(rows)
      BY <1>1, <2>1
    <3>2. load = SubSeq(rows, i, j)
      OBVIOUS
    <3> HIDE DEF j, load
    <3>3. QED
      BY <3>1, <3>2, SplitLast
  <2> HIDE DEF j, cur, row, load
  <2>5. cur \in Seq(Listed) /\ row \in Listed /\ load \in Seq(Listed)
    BY <1>4, <2>4
  <2> DEFINE t == Total(RowGases(cur)) + RowGas(row) + WorstRow(load) + LoopMargin
             cap == TxGasCap - TxOverhead
  <2>6. ~(t > Min({chunkGas, cap}))
    BY <2>3, <2>4 DEF Overflows
  <2>7. t \in Nat
    <3>1. Total(RowGases(cur)) \in Nat /\ RowGas(row) \in Nat
      BY <2>5, Totals, RowCost, SMT
    <3>2. WorstRow(load) \in Nat
      BY <1>4, <2>5, WorstIs, SMT
    <3>3. LoopMargin \in Nat
      BY SMT DEF LoopMargin
    <3>4. QED
      BY <3>1, <3>2, <3>3, SMT
  <2>8. cap \in Int
    BY SMT DEF TxGasCap, TxOverhead
  <2>9. Total(RowGases(load)) = Total(RowGases(cur)) + RowGas(row)
    BY <2>4, <2>5, AddedRow
  <2> HIDE DEF cap
  <2>10. t <= cap
    <3> HIDE DEF t
    <3>1. QED
      BY <2>6, <2>7, <2>8, OfTwo, SMT
  <2>11. QED
    BY <2>9, <2>10, SMT DEF cap
<1>6. QED
  BY <1>3, <1>4, <1>5 DEF Loads, Fits, p

\* The recursion, for what each index adds to the value further on that it uses.
Unrolls(f, n, P, X) ==
    f = [i \in 1..(n + 1) |-> IF i > n THEN << >> ELSE X[i] \o f[P[i]]]

\* There is a function that satisfies it.
LEMMA Recursion ==
    ASSUME NEW n \in Nat, NEW P, NEW X, \A i \in 1..n : P[i] \in (i + 1)..(n + 1)
    PROVE  \E f : Unrolls(f, n, P, X)
<1> DEFINE D == 1..(n + 1)
           Step(f, i) == IF i > n THEN << >> ELSE X[i] \o f[P[i]]
           From(f, k) == \A i \in k..(n + 1) : f[i] = Step(f, i)
           Good == {k \in D : \E f : DOMAIN f = D /\ f = [i \in D |-> f[i]] /\ From(f, k)}
<1>1. ASSUME NEW k \in D, \A j \in (k + 1)..(n + 1) : j \in Good
      PROVE  k \in Good
  <2>1. CASE k = n + 1
    <3> DEFINE f == [i \in D |-> << >>]
    <3>1. DOMAIN f = D /\ f = [i \in D |-> f[i]]
      OBVIOUS
    <3>2. From(f, k)
      <4>1. ASSUME NEW i \in k..(n + 1) PROVE i > n /\ i \in D
        BY <2>1
      <4>2. \A i \in D : f[i] = << >>
        OBVIOUS
      <4> HIDE DEF f, D
      <4>3. QED
        BY <4>1, <4>2
    <3> HIDE DEF f, From
    <3>3. QED
      BY <3>1, <3>2
  <2>2. CASE k # n + 1
    <3>1. k + 1 \in Good /\ k \in 1..n
      BY <1>1, <2>2
    <3>2. PICK f : DOMAIN f = D /\ f = [i \in D |-> f[i]] /\ From(f, k + 1)
      BY <3>1
    <3> DEFINE g == [i \in D |-> IF i = k THEN Step(f, k) ELSE f[i]]
    <3>3. DOMAIN g = D /\ g = [i \in D |-> g[i]]
      OBVIOUS
    <3>4. ASSUME NEW i \in k..(n + 1) PROVE g[i] = Step(g, i)
      <4>1. i \in D
        BY <3>1
      <4>2. CASE i = k
        <5>1. P[k] \in D /\ P[k] # k /\ ~(k > n)
          BY <3>1
        <5>2. g[P[k]] = f[P[k]] /\ g[k] = X[k] \o f[P[k]]
          BY <3>1, <5>1
        <5> HIDE DEF g
        <5>3. QED
          BY <4>2, <5>1, <5>2
      <4>3. CASE i # k /\ i > n
        <5>1. g[i] = f[i] /\ f[i] = << >>
          BY <3>2, <4>1, <4>3
        <5> HIDE DEF g
        <5>2. QED
          BY <4>3, <5>1
      <4>4. CASE i # k /\ ~(i > n)
        <5>1. i \in (k + 1)..(n + 1) /\ P[i] \in D /\ P[i] # k
          BY <3>1, <4>4
        <5>2. g[i] = f[i] /\ g[P[i]] = f[P[i]] /\ f[i] = Step(f, i)
          BY <3>2, <4>1, <4>4, <5>1
        <5> HIDE DEF g
        <5>3. QED
          BY <4>4, <5>2
      <4>5. QED
        BY <4>2, <4>3, <4>4
    <3>5. From(g, k)
      BY <3>4
    <3> HIDE DEF g, From
    <3>6. QED
      BY <3>3, <3>5
  <2>3. QED
    BY <2>1, <2>2
<1>2. \A k \in 1..(n + 1) : k \in Good
  <2> HIDE DEF Good
  <2>1. n + 1 \in Nat /\ D = 1..(n + 1)
    OBVIOUS
  <2>2. QED
    BY <1>1, <2>1, DownInduction
<1>3. PICK f : DOMAIN f = D /\ f = [i \in D |-> f[i]] /\ From(f, 1)
  <2>1. 1 \in Good
    BY <1>2
  <2>2. QED
    BY <2>1
<1>4. f = [i \in D |-> Step(f, i)]
  BY <1>3
<1>5. QED
  BY <1>4 DEF Unrolls

\* What is packed from each index on.
LEMMA PackedUnrolls ==
    ASSUME NEW rows \in Seq(Listed), NEW chunkGas \in Nat
    PROVE  \E from :
              /\ Packed(rows, chunkGas) = from[1]
              /\ \A i \in 1..(Len(rows) + 1) :
                    from[i] = IF i > Len(rows) THEN << >>
                              ELSE << SubSeq(rows, i, Past(rows, chunkGas, i) - 1) >>
                                      \o from[Past(rows, chunkGas, i)]
<1> DEFINE n == Len(rows)
           p(i) == Past(rows, chunkGas, i)
           x(i) == << SubSeq(rows, i, p(i) - 1) >>
           from == CHOOSE f : f = [i \in 1..(n + 1) |-> IF i > n THEN << >> ELSE x(i) \o f[p(i)]]
           P == [i \in 1..n |-> p(i)]
           X == [i \in 1..n |-> x(i)]
<1>1. Packed(rows, chunkGas) = from[1]
  BY DEF Packed, Past
<1>2. n \in Nat
  OBVIOUS
<1>3. \A i \in 1..n : p(i) \in (i + 1)..(n + 1)
  <2>1. Listed \in SUBSET Listed
    OBVIOUS
  <2>2. QED
    BY <2>1, Taken
<1> HIDE DEF n, p, x
<1>4. from = [i \in 1..(n + 1) |-> IF i > n THEN << >> ELSE x(i) \o from[p(i)]]
  <2>1. \A i \in 1..n : P[i] = p(i) /\ X[i] = x(i)
    OBVIOUS
  <2> HIDE DEF P, X
  <2>2. PICK f : Unrolls(f, n, P, X)
    <3>1. \A i \in 1..n : P[i] \in (i + 1)..(n + 1)
      BY <1>3, <2>1
    <3>2. QED
      BY ONLY <1>2, <3>1, Recursion
  <2>3. \A i \in 1..(n + 1) : ~(i > n) => i \in 1..n
    BY <1>2
  <2>4. f = [i \in 1..(n + 1) |-> IF i > n THEN << >> ELSE x(i) \o f[p(i)]]
    BY <2>1, <2>2, <2>3 DEF Unrolls
  <2>5. QED
    BY <2>4
<1> HIDE DEF from
<1>5. \A i \in 1..(n + 1) : from[i] = IF i > n THEN << >> ELSE x(i) \o from[p(i)]
  BY <1>4
<1>6. QED
  BY <1>1, <1>5 DEF n, p, x

\* Every chunk of the plan has a row and fits; without rows there is none.
LEMMA PackedFits ==
    ASSUME NEW R \in SUBSET Listed, NEW rows \in Seq(R), NEW chunkGas \in Nat
    PROVE  /\ Packed(rows, chunkGas) \in Seq(Loads(R))
           /\ rows = << >> => Packed(rows, chunkGas) = << >>
<1> DEFINE n == Len(rows)
           p(i) == Past(rows, chunkGas, i)
           x(i) == << SubSeq(rows, i, p(i) - 1) >>
<1>1. PICK from : /\ Packed(rows, chunkGas) = from[1]
                  /\ \A i \in 1..(n + 1) :
                        from[i] = IF i > n THEN << >> ELSE x(i) \o from[p(i)]
  BY PackedUnrolls
<1>2. n \in Nat
  OBVIOUS
<1>3. \A i \in 1..n : p(i) \in (i + 1)..(n + 1) /\ x(i) \in Seq(Loads(R))
  <2>1. SUFFICES ASSUME NEW i \in 1..n
                 PROVE  p(i) \in (i + 1)..(n + 1) /\ x(i) \in Seq(Loads(R))
    OBVIOUS
  <2>2. p(i) \in (i + 1)..(n + 1) /\ SubSeq(rows, i, p(i) - 1) \in Loads(R)
    BY Taken
  <2> HIDE DEF n
  <2>3. QED
    BY <2>2
<1> HIDE DEF n, p, x
<1>4. \A i \in 1..(n + 1) : from[i] = IF i > n THEN << >> ELSE x(i) \o from[p(i)]
  BY <1>1
<1>5. \A k \in 1..(n + 1) : k \in {i \in 1..(n + 1) : from[i] \in Seq(Loads(R))}
  <2> DEFINE Good == {i \in 1..(n + 1) : from[i] \in Seq(Loads(R))}
  <2>1. ASSUME NEW k \in 1..(n + 1), \A j \in (k + 1)..(n + 1) : j \in Good
        PROVE  k \in Good
    <3>1. CASE k > n
      <4>1. from[k] = << >>
        BY <1>4, <3>1
      <4>2. << >> \in Seq(Loads(R))
        OBVIOUS
      <4>3. QED
        BY <4>1, <4>2, Zenon
    <3>2. CASE ~(k > n)
      <4>1. k \in 1..n
        BY <1>2, <3>2
      <4>2. p(k) \in Good /\ x(k) \in Seq(Loads(R))
        BY <1>3, <2>1, <4>1
      <4>3. from[k] = x(k) \o from[p(k)]
        BY <1>4, <3>2
      <4>4. from[p(k)] \in Seq(Loads(R))
        BY <4>2
      <4>5. x(k) \o from[p(k)] \in Seq(Loads(R))
        BY ONLY <4>2, <4>4
      <4>6. QED
        BY <4>3, <4>5, Zenon
    <3>3. QED
      BY <3>1, <3>2
  <2> HIDE DEF Good
  <2>2. \A k \in 1..(n + 1) : k \in Good
    <3>1. n + 1 \in Nat
      BY <1>2
    <3>2. QED
      BY ONLY <2>1, <3>1, DownInduction
  <2>3. QED
    BY <2>2 DEF Good
<1>6. from[1] \in Seq(Loads(R))
  BY <1>2, <1>5
<1>7. ASSUME rows = << >> PROVE from[1] = << >>
  <2>1. n = 0
    BY <1>7 DEF n
  <2>2. QED
    BY <1>4, <2>1
<1>8. QED
  BY <1>1, <1>6, <1>7

\* The rows of some chunks.
Held(lists) == UNION {ToSet(lists[c]) : c \in DOMAIN lists}

LEMMA HeldWithFirst ==
    ASSUME NEW S, NEW lists \in Seq(S), NEW load
    PROVE  Held(<< load >> \o lists) = ToSet(load) \cup Held(lists)
<1> DEFINE all == << load >> \o lists
           n == Len(lists)
<1>1. /\ n \in Nat /\ DOMAIN lists = 1..n /\ DOMAIN all = 1..(n + 1)
      /\ all[1] = load
      /\ \A c \in 1..n : all[c + 1] = lists[c]
  OBVIOUS
<1> HIDE DEF all, n
<1>2. ASSUME NEW c \in 1..(n + 1) PROVE c = 1 \/ (c - 1 \in 1..n /\ all[c] = lists[c - 1])
  <2>1. CASE c # 1
    <3>1. c - 1 \in 1..n /\ (c - 1) + 1 = c
      BY <1>1, <2>1
    <3>2. QED
      BY <1>1, <3>1
  <2>2. QED
    BY <2>1
<1>3. ASSUME NEW r, r \in Held(all) PROVE r \in ToSet(load) \cup Held(lists)
  <2>1. PICK c \in 1..(n + 1) : r \in ToSet(all[c])
    BY <1>1, <1>3 DEF Held
  <2>2. QED
    BY <1>1, <1>2, <2>1 DEF Held
<1>4. ASSUME NEW r, r \in ToSet(load) \cup Held(lists) PROVE r \in Held(all)
  <2>1. CASE r \in ToSet(load)
    <3>1. 1 \in DOMAIN all
      BY <1>1
    <3>2. QED
      BY <1>1, <2>1, <3>1 DEF Held
  <2>2. CASE r \in Held(lists)
    <3>1. PICK c \in 1..n : r \in ToSet(lists[c])
      BY <1>1, <2>2 DEF Held
    <3>2. c + 1 \in DOMAIN all /\ all[c + 1] = lists[c]
      BY <1>1
    <3>3. QED
      BY <3>1, <3>2 DEF Held
  <2>3. QED
    BY <1>4, <2>1, <2>2
<1>5. QED
  BY <1>3, <1>4 DEF all

\* Every row is in some chunk, and every row of a chunk was there.
LEMMA PackedIsComplete ==
    ASSUME NEW rows \in Seq(Listed), NEW chunkGas \in Nat
    PROVE  Held(Packed(rows, chunkGas)) = ToSet(rows)
<1> DEFINE n == Len(rows)
           p(i) == Past(rows, chunkGas, i)
           load(i) == SubSeq(rows, i, p(i) - 1)
<1>1. PICK from : /\ Packed(rows, chunkGas) = from[1]
                  /\ \A i \in 1..(n + 1) :
                        from[i] = IF i > n THEN << >> ELSE << load(i) >> \o from[p(i)]
  BY PackedUnrolls
<1>2. n \in Nat /\ DOMAIN rows = 1..n
  OBVIOUS
<1>3. ASSUME NEW i \in 1..n
      PROVE  /\ p(i) \in (i + 1)..(n + 1)
             /\ ToSet(load(i)) = {rows[k] : k \in i..(p(i) - 1)}
  <2>1. p(i) \in (i + 1)..(n + 1)
    <3>1. Listed \in SUBSET Listed
      OBVIOUS
    <3>2. QED
      BY <3>1, Taken
  <2> HIDE DEF p
  <2>2. /\ DOMAIN load(i) = 1..(p(i) - i)
        /\ \A j \in 1..(p(i) - i) : load(i)[j] = rows[i + j - 1]
    BY <1>2, <2>1
  <2> HIDE DEF load, n
  <2>3. ASSUME NEW k \in i..(p(i) - 1) PROVE rows[k] \in ToSet(load(i))
    <3>1. k - i + 1 \in 1..(p(i) - i) /\ i + (k - i + 1) - 1 = k
      BY <1>2, <2>1
    <3>2. load(i)[k - i + 1] = rows[k]
      BY <2>2, <3>1
    <3>3. QED
      BY <2>2, <3>1, <3>2 DEF ToSet
  <2>4. ASSUME NEW j \in 1..(p(i) - i) PROVE load(i)[j] \in {rows[k] : k \in i..(p(i) - 1)}
    <3>1. i + j - 1 \in i..(p(i) - 1)
      BY <1>2, <2>1
    <3>2. QED
      BY <2>2, <3>1
  <2>5. QED
    BY <2>1, <2>2, <2>3, <2>4 DEF ToSet
<1> DEFINE Good == {i \in 1..(n + 1) : /\ from[i] \in Seq(Seq(Listed))
                                      /\ Held(from[i]) = {rows[k] : k \in i..n}}
<1>4. ASSUME NEW i \in 1..n PROVE load(i) \in Seq(Listed)
  <2>1. p(i) \in (i + 1)..(n + 1)
    BY <1>3
  <2> HIDE DEF p
  <2>2. QED
    BY <1>2, <2>1
<1> HIDE DEF n, p, load
<1>5. ASSUME NEW i \in 1..(n + 1), \A j \in (i + 1)..(n + 1) : j \in Good
      PROVE  i \in Good
  <2>1. CASE i > n
    <3>1. from[i] = << >> /\ i..n = {}
      <4>1. from[i] = << >>
        BY <1>1, <2>1
      <4>2. i..n = {}
        BY <1>2, <2>1
      <4>3. QED
        BY <4>1, <4>2
    <3>2. << >> \in Seq(Seq(Listed)) /\ Held(<< >>) = {}
      BY DEF Held
    <3>3. {rows[k] : k \in i..n} = {}
      BY <3>1
    <3>4. QED
      BY <3>1, <3>2, <3>3, Zenon
  <2>2. CASE ~(i > n)
    <3>1. i \in 1..n /\ p(i) \in (i + 1)..(n + 1) /\ load(i) \in Seq(Listed)
      BY <1>2, <1>3, <1>4, <2>2
    <3>2. /\ from[p(i)] \in Seq(Seq(Listed))
          /\ Held(from[p(i)]) = {rows[k] : k \in p(i)..n}
      BY <1>5, <3>1
    <3>3. from[i] = << load(i) >> \o from[p(i)]
      BY <1>1, <2>2
    <3>4. Held(from[i]) = ToSet(load(i)) \cup Held(from[p(i)])
      BY <3>2, <3>3, HeldWithFirst
    <3>5. {rows[k] : k \in i..(p(i) - 1)} \cup {rows[k] : k \in p(i)..n} = {rows[k] : k \in i..n}
      <4>1. i..(p(i) - 1) \cup p(i)..n = i..n
        BY <1>2, <3>1
      <4>2. QED
        BY <4>1
    <3>6. ToSet(load(i)) = {rows[k] : k \in i..(p(i) - 1)}
      BY <1>3, <3>1
    <3>7. from[i] \in Seq(Seq(Listed))
      <4>1. << load(i) >> \in Seq(Seq(Listed))
        <5> DEFINE y == load(i)
        <5>1. y \in Seq(Listed)
          BY <3>1
        <5> HIDE DEF y
        <5>2. << y >> \in Seq(Seq(Listed))
          BY <5>1
        <5>3. QED
          BY <5>2 DEF y
      <4>2. << load(i) >> \o from[p(i)] \in Seq(Seq(Listed))
        BY ONLY <3>2, <4>1
      <4>3. QED
        BY <3>3, <4>2, Zenon
    <3>8. QED
      BY <3>2, <3>4, <3>5, <3>6, <3>7
  <2>3. QED
    BY <2>1, <2>2
<1>6. 1 \in Good
  <2> HIDE DEF Good
  <2>1. n + 1 \in Nat /\ 1 \in 1..(n + 1)
    BY <1>2
  <2>2. \A i \in 1..(n + 1) : i \in Good
    BY ONLY <1>5, <2>1, DownInduction
  <2>3. QED
    BY <2>1, <2>2
<1>7. Held(from[1]) = {rows[k] : k \in 1..n}
  BY <1>6
<1>8. QED
  BY <1>1, <1>2, <1>7 DEF ToSet

-----------------------------------------------------------------------------
(* A planned chunk can start.                                              *)

\* What is left of x when a 64th is kept back.
LEMMA KeptBack ==
    ASSUME NEW x \in Nat
    PROVE  /\ Forwarded(x) \in Nat /\ Forwarded(x) <= x
           /\ \A e \in Nat : 64 * e <= 63 * x => e <= Forwarded(x)
           /\ 64 * Forwarded(x) >= 63 * x
<1> DEFINE q == x \div 64
<1>1. q \in Nat /\ 64 * q <= x /\ x < 64 * q + 64
  OBVIOUS
<1>2. Forwarded(x) = x - q
  BY DEF Forwarded
<1> HIDE DEF q
<1>3. QED
  BY <1>1, <1>2, SMT

\* The arithmetic: a chunk of n rows with execution t, calldata p, worst row w,
\* floor f and limit g, whose first row has execution e and calldata c.
LEMMA Headroom ==
    ASSUME NEW n \in Nat \ {0}, NEW t \in Nat, NEW p \in Nat, NEW w \in Nat, NEW f \in Nat,
           NEW g \in Nat, NEW e \in Nat, NEW c \in Nat,
           66000 <= e, e <= 10120000, c <= 82120, p <= 82120 * n,
           e + 66000 * (n - 1) <= t, e + c <= w, 300000 <= f, w <= f, f \in {300000, w},
           g = IF 16777216 <= t + p + f + 121000 THEN 16777216 ELSE t + p + f + 121000,
           n = 1 => w = e + c,
           n > 1 => t + p + w + 121000 <= 16777216
    PROVE  LET i == 21064 + 1848 * n + p
           IN  i + f <= g /\ 64 * e <= 63 * (g - i)
<1> DEFINE i == 21064 + 1848 * n + p
<1>1. CASE g = t + p + f + 121000
  <2>1. g - i = t + f + 99936 - 1848 * n
    BY <1>1, SMT
  <2>2. QED
    BY <2>1, SMT
<1>2. CASE g = 16777216 /\ n = 1
  <2>1. i <= 105032 /\ f <= 10202120
    BY <1>2, SMT
  <2>2. QED
    BY <1>2, <2>1, SMT
<1>3. CASE g = 16777216 /\ n > 1
  <2>1. g - i >= w + t + 99936 - 1848 * n
    BY <1>3, SMT
  <2>2. 64 * e <= 63 * (g - i)
    BY <2>1, SMT
  <2>3. CASE f = w
    BY <2>1, <2>2, <2>3, SMT
  <2>4. CASE f = 300000 /\ n = 2
    BY <1>3, <2>2, <2>4, SMT
  <2>5. CASE f = 300000 /\ n > 2
    <3>1. t >= 66000 * n /\ w >= 66000
      BY SMT
    <3>2. QED
      BY <1>3, <2>2, <2>5, <3>1, SMT
  <2>6. QED
    BY <1>3, <2>3, <2>4, <2>5, SMT
<1>4. QED
  BY <1>1, <1>2, <1>3, SMT

\* A chunk that can be executed: its limit pays for the calldata, reaches the
\* floor, and forwards enough for the first row.
Ready(c) ==
    /\ c.rows \in Seq(Listed) /\ c.rows # << >>
    /\ c.gas \in Nat
    /\ c.floor \in Nat /\ c.floor >= FloorMin
    /\ Intrinsic(c.rows) + c.floor <= c.gas
    /\ RowExecution(c.rows[1]) <= Forwarded(c.gas - Intrinsic(c.rows))

\* The rows that fit a transaction.
Deliverable == {row \in Listed : ~Undeliverable(row)}

\* So is every chunk of deliverable rows that fits.
LEMMA LoadIsReady ==
    ASSUME NEW rows \in Loads(Deliverable)
    PROVE  Ready([rows |-> rows, gas |-> GasLimit(rows), floor |-> GasFloor(rows)])
<1> DEFINE n == Len(rows)
           t == Total(Executions(rows))
           c == Calldata
           p == c * n
           w == WorstRow(rows)
           f == GasFloor(rows)
           g == GasLimit(rows)
           e == RowExecution(rows[1])
           i == Intrinsic(rows)
<1>1. rows \in Seq(Deliverable) /\ rows # << >> /\ Fits(rows)
  BY DEF Loads
<1>2. rows \in Seq(Listed) /\ n \in Nat \ {0} /\ 1 \in 1..n /\ rows[1] \in Listed /\ rows[1] \in Deliverable
  BY <1>1 DEF Deliverable
<1>3. /\ t \in Nat /\ Total(RowGases(rows)) = t + p
      /\ e + 66000 * (n - 1) <= t
  <2>1. /\ Total(Executions(rows)) \in Nat
        /\ Total(RowGases(rows)) = Total(Executions(rows)) + Calldata * Len(rows)
        /\ \A k \in 1..Len(rows) :
              Total(Executions(rows)) >= RowExecution(rows[k]) + 66000 * (Len(rows) - 1)
    BY <1>2, Totals, SMT
  <2>2. t >= e + 66000 * (n - 1)
    BY <1>2, <2>1, SMT
  <2>3. e \in Nat
    BY <1>2, RowCost, SMT
  <2> HIDE DEF e
  <2>4. QED
    BY <1>2, <2>1, <2>2, <2>3, SMT
<1>4. /\ e \in Nat /\ 66000 <= e /\ e <= 10120000
      /\ RowGas(rows[1]) = e + c
      /\ c \in Nat /\ c <= 82120
  BY <1>2, RowCost, CalldataIs, SMT
<1>5. p \in Nat /\ p <= 82120 * n
  <2>1. \A x, y \in Nat : x <= 82120 => x * y \in Nat /\ x * y <= 82120 * y
    BY SMT
  <2>2. QED
    BY <1>2, <1>4, <2>1, SMT
<1>6. /\ w \in Nat /\ e + c <= w
      /\ n = 1 => w = e + c
  <2>1. /\ w \in Nat
        /\ \A k \in 1..n : RowGas(rows[k]) <= w
        /\ \E k \in 1..n : RowGas(rows[k]) = w
    BY <1>1, <1>2, WorstIs
  <2>2. n = 1 => \A k \in 1..n : k = 1
    BY <1>2
  <2> HIDE DEF n, w, e
  <2>3. QED
    BY <1>2, <1>4, <2>1, <2>2
<1>7. f \in Nat /\ FloorMin <= f /\ w <= f /\ f \in {FloorMin, w}
  BY <1>1, <1>2, FloorIs DEF f, w
<1>8. g = IF TxGasCap <= t + p + f + LoopMargin + TxOverhead THEN TxGasCap
          ELSE t + p + f + LoopMargin + TxOverhead
  BY <1>1, <1>2, <1>3, LimitIs
<1>9. n > 1 => t + p + w + LoopMargin <= TxGasCap - TxOverhead
  BY <1>1, <1>3 DEF Fits
<1>10. ~(RowGas(rows[1]) + TxOverhead > TxGasCap)
  BY <1>2 DEF Deliverable, Undeliverable
<1>11. i \in Nat /\ i = 21064 + 1848 * n + p
  BY <1>2, IntrinsicIs
<1> HIDE DEF n, t, c, p, w, f, g, e, i
<1>12. /\ g = IF 16777216 <= t + p + f + 121000 THEN 16777216 ELSE t + p + f + 121000
       /\ g \in Nat
  BY <1>3, <1>5, <1>7, <1>8, SMT DEF TxGasCap, LoopMargin, TxOverhead
<1>13. n > 1 => t + p + w + 121000 <= 16777216
  BY <1>2, <1>3, <1>5, <1>6, <1>9, SMT DEF TxGasCap, LoopMargin, TxOverhead
<1>14. f \in Nat /\ 300000 <= f /\ w <= f /\ f \in {300000, w}
  BY <1>7, SMT DEF FloorMin
<1>15. i + f <= g /\ 64 * e <= 63 * (g - i)
  BY <1>2, <1>3, <1>4, <1>5, <1>6, <1>11, <1>12, <1>13, <1>14, Headroom, SMT
<1>16. e <= Forwarded(g - i)
  <2>1. g - i \in Nat
    BY <1>11, <1>12, <1>14, <1>15, SMT
  <2>2. QED
    BY <1>4, <1>15, <2>1, KeptBack
<1>17. QED
  BY <1>1, <1>2, <1>7, <1>12, <1>14, <1>15, <1>16, SMT DEF Ready, e, f, g, i

\* A chunk of some rows, as the plan has it.
ChunkOf(rows) == [rows |-> rows, gas |-> GasLimit(rows), floor |-> GasFloor(rows)]
Chunks == {ChunkOf(rows) : rows \in Loads(Deliverable)}

LEMMA ChunksAreReady ==
    ASSUME NEW c \in Chunks
    PROVE  Ready(c) /\ c.rows # << >>
<1>1. PICK rows \in Loads(Deliverable) : c = ChunkOf(rows)
  BY DEF Chunks
<1>2. Ready(c)
  BY <1>1, LoadIsReady DEF ChunkOf
<1>3. QED
  BY <1>2 DEF Ready

\* A plan that is not refused is made of such chunks, and a plan for nothing is
\* empty.
LEMMA PlanReady ==
    ASSUME NEW rows \in Seq(Listed), NEW g \in Nat
    PROVE  /\ ~Plan(rows, g).refused => Plan(rows, g).chunks \in Seq(Chunks)
           /\ rows = << >> => Plan(rows, g).chunks = << >>
<1> DEFINE lists == Packed(rows, g)
           chunks == [k \in DOMAIN lists |-> ChunkOf(lists[k])]
<1>1. /\ Plan(rows, g).chunks = chunks
      /\ Plan(rows, g).refused <=> \/ \E k \in DOMAIN rows : Undeliverable(rows[k])
                                   \/ \E k \in DOMAIN lists : Unfinishable(lists[k])
  BY DEF Plan, ChunkOf
<1>2. ASSUME rows = << >> PROVE lists = << >>
  BY <1>2, PackedFits
<1>3. ASSUME ~Plan(rows, g).refused PROVE lists \in Seq(Loads(Deliverable))
  <2>1. \A k \in DOMAIN rows : rows[k] \in Listed /\ ~Undeliverable(rows[k])
    BY <1>1, <1>3
  <2>2. rows \in Seq(Deliverable)
    <3>1. \A k \in 1..Len(rows) : rows[k] \in Deliverable
      BY <2>1 DEF Deliverable
    <3>2. QED
      BY <3>1
  <2>3. Deliverable \in SUBSET Listed
    BY DEF Deliverable
  <2>4. QED
    BY <2>2, <2>3, PackedFits
<1> HIDE DEF lists
<1>4. ASSUME lists \in Seq(Loads(Deliverable)) PROVE chunks \in Seq(Chunks)
  <2>1. \A k \in 1..Len(lists) : ChunkOf(lists[k]) \in Chunks
    BY <1>4 DEF Chunks
  <2>2. QED
    BY <1>4, <2>1
<1>5. ASSUME lists = << >> PROVE chunks = << >>
  BY <1>5
<1>6. QED
  BY <1>1, <1>2, <1>3, <1>4, <1>5

\* A plan has all the rows it was made for and no others, and, if it is not refused,
\* each of its chunks can start, whatever the chunk gas: its limit pays for the
\* calldata, reaches the batcher's floor, and forwards enough for the first row.
THEOREM PlansAreSound ==
    ASSUME NEW rows \in Seq(Listed), NEW g \in Nat
    PROVE  LET chunks == Plan(rows, g).chunks
           IN  /\ UNION {ToSet(chunks[k].rows) : k \in DOMAIN chunks} = ToSet(rows)
               /\ ~Plan(rows, g).refused => \A k \in DOMAIN chunks : Ready(chunks[k])
<1> DEFINE chunks == Plan(rows, g).chunks
           lists == Packed(rows, g)
<1>1. DOMAIN chunks = DOMAIN lists /\ \A k \in DOMAIN lists : chunks[k].rows = lists[k]
  BY DEF Plan
<1>2. Held(lists) = ToSet(rows)
  BY PackedIsComplete
<1> HIDE DEF lists
<1>3. UNION {ToSet(chunks[k].rows) : k \in DOMAIN chunks} = Held(lists)
  <2> HIDE DEF chunks
  <2>1. QED
    BY <1>1 DEF Held
<1>4. ASSUME ~Plan(rows, g).refused, NEW k \in DOMAIN chunks PROVE Ready(chunks[k])
  <2>1. chunks \in Seq(Chunks)
    BY <1>4, PlanReady
  <2> HIDE DEF chunks
  <2>2. chunks[k] \in Chunks
    BY <1>4, <2>1
  <2>3. QED
    BY <2>2, ChunksAreReady
<1>5. QED
  BY <1>2, <1>3, <1>4

\* The accounts of a finite set, in some order.
LEMMA OrderIs ==
    ASSUME NEW S, IsFiniteSet(S)
    PROVE  SetToSeq(S) \in Seq(S)
<1> DEFINE n == Cardinality(S)
<1>1. n \in Nat /\ ExistsBijection(1..n, S)
  BY FS_CardinalityType
<1>2. PICK f \in [1..n -> S] : IsInjective(f)
  BY <1>1 DEF ExistsBijection, Bijection, Injection, IsInjective
<1>3. SetToSeq(S) \in [1..n -> S]
  BY <1>2 DEF SetToSeq
<1> HIDE DEF n
<1>4. QED
  BY <1>1, <1>3

\* The rows of a claims file are listed.
LEMMA RowsAreListed ==
    ASSUME NEW f \in Files, NEW S \in SUBSET DOMAIN f
    PROVE  Rows(f, S) \in Seq(Listed)
<1> DEFINE order == SetToSeq(S)
<1>1. f \in [DOMAIN f -> Nat] /\ IsFiniteSet(DOMAIN f)
  BY PushAssumption DEF PushAssumption
<1>2. order \in Seq(S)
  BY <1>1, FS_Subset, OrderIs
<1>3. Rows(f, S) = [j \in DOMAIN order |-> <<order[j], f[order[j]]>>]
  BY DEF Rows
<1> HIDE DEF order
<1>4. \A j \in 1..Len(order) : <<order[j], f[order[j]]>> \in Listed
  <2>1. SUFFICES ASSUME NEW j \in 1..Len(order) PROVE <<order[j], f[order[j]]>> \in Listed
    OBVIOUS
  <2>2. order[j] \in DOMAIN f /\ f[order[j]] \in Nat
    BY <1>1, <1>2
  <2>3. QED
    BY <2>2 DEF Listed
<1>5. QED
  BY <1>2, <1>3, <1>4

-----------------------------------------------------------------------------
(* The vault, which is PrismMigration with claims of any amount.           *)

V == INSTANCE PrismMigration_proof WITH Amounts <- Nat

VaultSound == V!IInv /\ V!ReserveCoversUnpaid

LEMMA VaultAssumption == V!MigrationAssumption
BY PushAssumption DEF PushAssumption, V!MigrationAssumption, V!IsFiniteSet, IsFiniteSet

\* Every step of the distribution is one of the vault, or leaves it alone.
LEMMA VaultSteps == [Next]_vars => [V!Next]_vault
<1> SUFFICES ASSUME [Next]_vars
             PROVE  V!Next \/ UNCHANGED vault
  OBVIOUS
<1>1. ASSUME NEW a, NEW n, M!Claim(a, n)
      PROVE  V!Next
  <2>1. a \in Holders /\ n \in Nat
    BY <1>1, PushAssumption DEF PushAssumption, M!Claim, M!InTree
  <2>2. V!Claim(a, n)
    BY <1>1 DEF M!Claim, V!Claim, M!InTree, V!InTree, M!Delivers, V!Delivers, M!Reported,
       V!Reported, M!ReportedAfter, V!ReportedAfter
  <2>3. QED
    BY <2>1, <2>2 DEF V!Next
<1>2. ASSUME NEW t \in Tokens, OpenAirdrop(t)
      PROVE  V!Next
  BY <1>2 DEF OpenAirdrop, M!SetToken, M!Reported, V!Next, V!SetToken, V!Reported
<1>3. ASSUME NEW t \in Tokens \ Fallbacks, M!Gift(t)
      PROVE  V!Next
  BY <1>3 DEF M!Gift, V!Gift, V!Next
<1>4. CASE Deliver
  BY <1>1, <1>4 DEF Deliver
<1>5. CASE Others
  BY <1>1, <1>3, <1>5 DEF Others
<1>6. CASE UNCHANGED vars
  BY <1>6 DEF vars
<1>7. ASSUME NEW tx \in pool, Land(tx) \/ Drop(tx)
      PROVE  UNCHANGED vault
  BY <1>7 DEF Land, Drop
<1>8. CASE SkipClaimed \/ RowFails \/ PushReturns
  BY <1>8 DEF SkipClaimed, RowFails, PushReturns
<1>9. ASSUME NEW f \in Files, NEW m \in Thresholds, NEW g \in ChunkGases, NEW dry \in BOOLEAN,
             StartRun(f, m, g, dry)
      PROVE  UNCHANGED vault
  BY <1>9 DEF StartRun
<1>10. CASE SendChunk \/ SendFails \/ Receipt \/ WaitFails \/ Verify \/ Finish \/ Crash
  BY <1>10 DEF SendChunk, SendFails, Receipt, WaitFails, Verify, Finish, Crash
<1>11. QED
  BY <1>2, <1>4, <1>5, <1>6, <1>7, <1>8, <1>9, <1>10 DEF Next

LEMMA VaultKept == VaultSound /\ [Next]_vars => VaultSound'
<1>1. V!IInv /\ [V!Next]_V!vars => (V!IInv)'
  BY VaultAssumption, V!Preserved
<1>2. V!IInv /\ V!ReserveCoversUnpaid /\ [V!Next]_V!vars => (V!ReserveCoversUnpaid)'
  BY VaultAssumption, V!CoverPreserved
<1>3. UNCHANGED vault => UNCHANGED V!vars
  BY DEF vault, V!vars
<1>4. QED
  BY <1>1, <1>2, <1>3, VaultSteps DEF VaultSound

\* Paid accounts stay paid, and the token is wired once, between pushes.
LEMMA VaultGrows ==
    ASSUME [Next]_vars
    PROVE  /\ claimed \subseteq claimed'
           /\ token' = token \/ (token = NoToken /\ push = Idle)
<1>1. ASSUME NEW a, NEW n, M!Claim(a, n)
      PROVE  claimed \subseteq claimed' /\ token' = token
  BY <1>1 DEF M!Claim
<1>2. ASSUME NEW t \in Tokens, OpenAirdrop(t)
      PROVE  claimed \subseteq claimed' /\ token = NoToken /\ push = Idle
  BY <1>2 DEF OpenAirdrop, M!SetToken
<1>3. ASSUME NEW t \in Tokens \ Fallbacks, M!Gift(t)
      PROVE  claimed \subseteq claimed' /\ token' = token
  BY <1>3 DEF M!Gift
<1>4. CASE Deliver
  BY <1>1, <1>4 DEF Deliver
<1>5. CASE Others
  BY <1>1, <1>3, <1>5 DEF Others
<1>6. CASE UNCHANGED vars
  BY <1>6 DEF vars, vault
<1>7. ASSUME NEW tx \in pool, Land(tx) \/ Drop(tx)
      PROVE  UNCHANGED vault
  BY <1>7 DEF Land, Drop
<1>8. CASE SkipClaimed \/ RowFails \/ PushReturns
  BY <1>8 DEF SkipClaimed, RowFails, PushReturns, vault
<1>9. ASSUME NEW f \in Files, NEW m \in Thresholds, NEW g \in ChunkGases, NEW dry \in BOOLEAN,
             StartRun(f, m, g, dry)
      PROVE  UNCHANGED vault
  BY <1>9 DEF StartRun
<1>10. CASE SendChunk \/ SendFails \/ Receipt \/ WaitFails \/ Verify \/ Finish \/ Crash
  BY <1>10 DEF SendChunk, SendFails, Receipt, WaitFails, Verify, Finish, Crash, vault
<1>11. QED
  BY <1>2, <1>4, <1>5, <1>6, <1>7, <1>8, <1>9, <1>10 DEF Next, vault

\* The reserve covers the tree, as LaunchConfig shows of a deployed one.
Full == \A t \in Tokens \ Fallbacks : Reserve[t] >= V!Granted

LEMMA VaultFacts ==
    ASSUME VaultSound
    PROVE  /\ token \in Tokens \cup {NoToken}
           /\ claimed \subseteq Holders
           /\ held \in [Tokens -> Nat]
           /\ claimed # {} => token \in Tokens \ Fallbacks
BY DEF VaultSound, V!IInv, V!TypeOK, V!Honest

\* Such a vault can pay whoever is left.
LEMMA FullPays ==
    ASSUME VaultSound, Full, NEW t \in Tokens \ Fallbacks, NEW a \in Holders \ claimed
    PROVE  Allocation[a] \in Nat \ {0} /\ held[t] \in Nat /\ Allocation[a] <= held[t]
<1> DEFINE S == Holders \ claimed
           owing == V!SumFunctionOnSet(Allocation, S)
           left == V!SumFunctionOnSet(Allocation, S \ {a})
<1>1. /\ owing \in Nat /\ left \in Nat
      /\ owing = Allocation[a] + left
  <2>1. S \in SUBSET Holders /\ a \in S
    OBVIOUS
  <2>2. /\ V!SumFunctionOnSet(Allocation, S) \in Nat
        /\ \A x \in S : V!SumFunctionOnSet(Allocation, S \ {x}) \in Nat
        /\ \A x \in S : V!SumFunctionOnSet(Allocation, S)
                          = Allocation[x] + V!SumFunctionOnSet(Allocation, S \ {x})
    BY <2>1, VaultAssumption, V!PartsAddUp
  <2>3. QED
    BY <2>1, <2>2
<1>2. held[t] >= owing
  BY DEF VaultSound, V!ReserveCoversUnpaid, V!Unpaid, Full
<1>3. held[t] \in Nat
  BY VaultFacts
<1>4. Allocation[a] \in Nat \ {0}
  BY PushAssumption DEF PushAssumption
<1> HIDE DEF owing, left
<1>5. QED
  BY <1>1, <1>2, <1>3, <1>4

\* A contract with a permissive fallback delivers no allocation.
LEMMA NothingByFallback ==
    ASSUME NEW t \in Fallbacks, NEW a \in Holders
    PROVE  ~M!Delivers(t, Allocation[a])
<1>1. Allocation[a] \in Nat \ {0}
  BY PushAssumption DEF PushAssumption
<1>2. QED
  BY <1>1 DEF M!Delivers, M!Reported, M!ReportedAfter

-----------------------------------------------------------------------------
(* What each part of the state is changed by.                              *)

LEMMA Frames ==
    ASSUME [Next]_vars
    PROVE  /\ cost' = cost
           /\ \/ pool' \subseteq pool
              \/ SendChunk
           /\ \/ todo' = todo
              \/ todo # << >> /\ todo' = Tail(todo)
              \/ \E f \in Files, m \in Thresholds, g \in ChunkGases, dry \in BOOLEAN :
                    StartRun(f, m, g, dry)
           /\ \/ push' = push
              \/ \E tx \in pool : Land(tx)
              \/ SkipClaimed \/ Deliver \/ RowFails \/ PushReturns
           /\ \/ last' \in {last, Idle}
              \/ PushReturns
<1>1. ASSUME NEW t \in Tokens, OpenAirdrop(t)
      PROVE  UNCHANGED <<chain, runner>>
  BY <1>1 DEF OpenAirdrop
<1>2. ASSUME NEW tx \in pool, Land(tx) \/ Drop(tx)
      PROVE  /\ cost' = cost /\ pool' \subseteq pool /\ last' = last /\ UNCHANGED runner
             /\ push' = push \/ Land(tx)
  BY <1>2 DEF Land, Drop
<1>3. CASE SkipClaimed \/ Deliver \/ RowFails \/ PushReturns
  BY <1>3 DEF SkipClaimed, Deliver, RowFails, PushReturns, runner
<1>4. ASSUME NEW f \in Files, NEW m \in Thresholds, NEW g \in ChunkGases, NEW dry \in BOOLEAN,
             StartRun(f, m, g, dry)
      PROVE  UNCHANGED chain
  BY <1>4 DEF StartRun
<1>5. CASE SendChunk
  BY <1>5 DEF SendChunk
<1>6. CASE SendFails
  BY <1>6 DEF SendFails, chain
<1>7. CASE Receipt \/ WaitFails \/ Verify \/ Finish \/ Crash \/ Others
  BY <1>7 DEF Receipt, WaitFails, Verify, Finish, Crash, Others, chain, runner
<1>8. CASE UNCHANGED vars
  BY <1>8 DEF vars, chain, runner
<1>9. QED
  BY <1>1, <1>2, <1>3, <1>4, <1>5, <1>6, <1>7, <1>8 DEF Next, chain, runner

-----------------------------------------------------------------------------
(* The invariant.                                                          *)

\* A row that no later call of the vault will pay: paid, refused for good, or asked
\* of a token that pays nobody.
Settled(row) == row[1] \in claimed \/ ~M!InTree(row[1], row[2]) \/ token \in Fallbacks

Walked(p) == \A k \in 1..(p.i - 1) : Settled(p.rows[k])

\* At its first row a covered push has what it needs.
Begins(p) ==
    p.i = 1 /\ Covered(p.rows) =>
        /\ ~p.stopped /\ p.gas >= p.floor
        /\ RowExecution(p.rows[1]) <= Forwarded(p.gas)

\* The loop's variables.
Fields(p) ==
    [rows |-> p.rows, gas |-> p.gas, floor |-> p.floor, no |-> p.no, i |-> p.i,
     delivered |-> p.delivered, failed |-> p.failed, stopped |-> p.stopped]

Loop(p) ==
    /\ p = Fields(p)
    /\ p.rows \in Seq(Listed) /\ p.rows # << >>
    /\ p.gas \in Nat
    /\ p.floor \in Nat /\ p.floor >= FloorMin
    /\ p.i \in 1..(Len(p.rows) + 1)

PlansSound ==
    /\ cost \in Costs
    /\ todo \in Seq(Chunks)
    /\ IsFiniteSet(pool) /\ Cardinality(pool) <= MaxPool
    /\ \A tx \in pool : Ready(tx)

PushSound ==
    push # Idle => /\ token # NoToken
                   /\ Loop(push) /\ Begins(push)
                   /\ Full => Walked(push)

LastSound ==
    last # Idle => /\ token # NoToken
                   /\ Loop(last)
                   /\ Covered(last.rows) => last.i > 1
                   /\ Full => Walked(last)

RunnerSound ==
    /\ pc # "off" => file \in Files
    /\ unpaid \subseteq DOMAIN file
    /\ pc = "verified" => Unclaimed(DOMAIN file) \subseteq unpaid
    /\ Full /\ exit = "done" => claimed = Holders

IInv == VaultSound /\ PlansSound /\ PushSound /\ LastSound /\ RunnerSound

LEMMA Initially == Init => IInv
<1> SUFFICES ASSUME Init
             PROVE  IInv
  OBVIOUS
<1>1. VaultSound
  <2>1. V!Init
    BY DEF Init, M!Init, V!Init
  <2>2. QED
    BY <2>1, VaultAssumption, V!Initially, V!InitiallyCovered DEF VaultSound
<1>2. PlansSound
  <2>1. IsFiniteSet(pool) /\ Cardinality(pool) = 0
    BY FS_EmptySet DEF Init
  <2>2. MaxPool \in Nat
    BY PushAssumption DEF PushAssumption
  <2>3. QED
    BY <2>1, <2>2 DEF Init, PlansSound
<1>3. PushSound /\ LastSound
  BY DEF Init, PushSound, LastSound
<1>4. RunnerSound
  BY DEF Init, RunnerSound
<1>5. QED
  BY <1>1, <1>2, <1>3, <1>4 DEF IInv

\* What is sent is a planned chunk, and only if there is room for it.
LEMMA PlansKept ==
    ASSUME PlansSound, RunnerSound, [Next]_vars
    PROVE  PlansSound'
<1>1. cost' \in Costs
  BY Frames DEF PlansSound
<1>2. todo' \in Seq(Chunks)
  <2>1. CASE todo' = todo \/ (todo # << >> /\ todo' = Tail(todo))
    BY <2>1 DEF PlansSound
  <2>2. ASSUME NEW f \in Files, NEW m \in Thresholds, NEW g \in ChunkGases, NEW dry \in BOOLEAN,
               StartRun(f, m, g, dry)
        PROVE  todo' \in Seq(Chunks)
    <3> DEFINE rows == Rows(f, Unclaimed(Chosen(f, m)))
    <3>1. todo' = IF rows # << >> /\ (dry \/ Plan(rows, g).refused) THEN << >>
                  ELSE Plan(rows, g).chunks
      BY <2>2 DEF StartRun
    <3>2. rows \in Seq(Listed)
      <4>1. Unclaimed(Chosen(f, m)) \in SUBSET DOMAIN f
        BY DEF Unclaimed, Chosen
      <4>2. QED
        BY <4>1, RowsAreListed
    <3>3. g \in Nat
      BY PushAssumption DEF PushAssumption
    <3> HIDE DEF rows
    <3>4. /\ ~Plan(rows, g).refused => Plan(rows, g).chunks \in Seq(Chunks)
          /\ rows = << >> => Plan(rows, g).chunks = << >>
      BY <3>2, <3>3, PlanReady
    <3>5. << >> \in Seq(Chunks)
      OBVIOUS
    <3>6. QED
      BY <3>1, <3>4, <3>5
  <2>3. QED
    BY <2>1, <2>2, Frames
<1>3. CASE pool' \subseteq pool
  <2>1. IsFiniteSet(pool') /\ Cardinality(pool') <= Cardinality(pool)
    BY <1>3, FS_Subset DEF PlansSound
  <2>2. Cardinality(pool') \in Nat /\ Cardinality(pool) \in Nat /\ MaxPool \in Nat
    BY <2>1, FS_CardinalityType, PushAssumption DEF PlansSound, PushAssumption
  <2>3. Cardinality(pool') <= MaxPool
    BY <2>1, <2>2 DEF PlansSound
  <2>4. QED
    BY <1>1, <1>2, <1>3, <2>1, <2>3 DEF PlansSound, Ready
<1>4. CASE SendChunk
  <2> DEFINE tx == Sent(Head(todo))
  <2>1. /\ todo # << >>
        /\ Cardinality(pool) < MaxPool
        /\ pool' = pool \cup {tx}
    BY <1>4 DEF SendChunk
  <2>2. Ready(tx)
    <3>1. Head(todo) \in Chunks
      BY <2>1 DEF PlansSound
    <3>2. Ready(Head(todo))
      BY <3>1, ChunksAreReady
    <3>3. tx.rows = Head(todo).rows /\ tx.gas = Head(todo).gas /\ tx.floor = Head(todo).floor
      BY DEF Sent
    <3> HIDE DEF tx
    <3>4. QED
      BY <3>2, <3>3 DEF Ready
  <2> HIDE DEF tx
  <2>3. /\ IsFiniteSet(pool')
        /\ Cardinality(pool') = IF tx \in pool THEN Cardinality(pool) ELSE Cardinality(pool) + 1
    BY <2>1, FS_AddElement DEF PlansSound
  <2>4. Cardinality(pool) \in Nat /\ MaxPool \in Nat
    BY FS_CardinalityType, PushAssumption DEF PlansSound, PushAssumption
  <2>5. Cardinality(pool') <= MaxPool
    BY <2>1, <2>3, <2>4
  <2>6. \A x \in pool' : Ready(x)
    BY <2>1, <2>2 DEF PlansSound
  <2>7. QED
    BY <1>1, <1>2, <2>3, <2>5, <2>6 DEF PlansSound, Ready
<1>5. QED
  BY <1>3, <1>4, Frames

\* The runner claims success only when its file is claimed and the vault owes
\* nothing, which a full vault does only when nobody is left.
LEMMA EmptyMeansAllPaid ==
    ASSUME VaultSound, Full, NEW f \in Files, Unclaimed(DOMAIN f) = {},
           token = NoToken \/ held[token] = 0
    PROVE  claimed = Holders
<1>1. PICK a \in DOMAIN f : a \in claimed
  <2>1. DOMAIN f # {}
    BY PushAssumption DEF PushAssumption
  <2>2. QED
    BY <2>1 DEF Unclaimed
<1>2. token \in Tokens \ Fallbacks /\ claimed \subseteq Holders
  BY <1>1, VaultFacts
<1>3. NoToken \notin Tokens
  BY PushAssumption DEF PushAssumption
<1>4. held[token] = 0
  BY <1>2, <1>3
<1>5. SUFFICES ASSUME NEW b \in Holders \ claimed PROVE FALSE
  BY <1>2
<1>6. Allocation[b] \in Nat \ {0} /\ Allocation[b] <= held[token]
  BY <1>2, FullPays
<1>7. QED
  BY <1>4, <1>6

LEMMA RunnerKept ==
    ASSUME VaultSound, VaultSound', RunnerSound, [Next]_vars
    PROVE  RunnerSound'
<1>1. claimed \subseteq claimed' /\ claimed' \subseteq Holders /\ claimed \subseteq Holders
  <2>1. claimed \subseteq Holders
    BY VaultFacts
  <2>2. claimed' \subseteq Holders
    BY DEF VaultSound, V!IInv, V!TypeOK
  <2>3. QED
    BY <2>1, <2>2, VaultGrows
<1>2. CASE UNCHANGED <<pc, file, unpaid, exit>>
  <2>1. Full' = Full
    BY DEF Full, V!Granted
  <2>2. Unclaimed(DOMAIN file)' \subseteq Unclaimed(DOMAIN file)
    BY <1>1, <1>2 DEF Unclaimed
  <2>3. QED
    BY <1>1, <1>2, <2>1, <2>2 DEF RunnerSound
<1>3. ASSUME NEW f \in Files, NEW m \in Thresholds, NEW g \in ChunkGases, NEW dry \in BOOLEAN,
             StartRun(f, m, g, dry)
      PROVE  RunnerSound'
  <2>1. /\ file' = f /\ unpaid' = {}
        /\ pc' \in {"off", "nothing", "sending"}
        /\ exit' \in {"none", "refused", "planned"}
    BY <1>3 DEF StartRun
  <2>2. QED
    BY <2>1 DEF RunnerSound
<1>4. ASSUME UNCHANGED <<file, exit, unpaid, claimed>>, pc # "off",
             pc' \in {"off", "sending", "waiting"}
      PROVE  RunnerSound'
  <2>1. Full' = Full
    BY DEF Full, V!Granted
  <2>2. QED
    BY <1>4, <2>1 DEF RunnerSound
<1>5. CASE SendChunk \/ SendFails \/ Receipt \/ WaitFails \/ Crash
  <2>1. UNCHANGED <<file, exit, unpaid, claimed>> /\ pc # "off" /\ pc' \in {"off", "sending", "waiting"}
    BY <1>5 DEF SendChunk, SendFails, Receipt, WaitFails, Crash, vault
  <2>2. QED
    BY <1>4, <2>1
<1>6. CASE Verify
  <2>1. /\ pc = "sending" /\ pc' = "verified"
        /\ unpaid' = Unclaimed(DOMAIN file)
        /\ file' = file /\ exit' = exit /\ claimed' = claimed
    BY <1>6 DEF Verify, vault
  <2>2. Unclaimed(DOMAIN file)' = Unclaimed(DOMAIN file) /\ Full' = Full
    BY <2>1 DEF Unclaimed, Full, V!Granted
  <2>3. unpaid' \subseteq DOMAIN file
    BY <2>1 DEF Unclaimed
  <2>4. QED
    BY <2>1, <2>2, <2>3 DEF RunnerSound
<1>7. CASE Finish
  <2>1. /\ pc \in {"nothing", "verified"} /\ pc' = "off"
        /\ UNCHANGED <<file, unpaid, claimed>>
    BY <1>7 DEF Finish, vault
  <2>2. PICK owed \in VaultReadings :
           exit' = IF pc = "nothing" THEN EarlyVerdict(owed) ELSE Verdict(owed)
    BY <1>7 DEF Finish
  <2>3. ASSUME Full, exit' = "done" PROVE claimed' = Holders
    <3>1. owed # Unknown => owed = IF token = NoToken THEN 0 ELSE held[token]
      BY DEF VaultReadings
    <3>2. owed \in Int
      <4>1. token \in Tokens \cup {NoToken} /\ held \in [Tokens -> Nat]
        BY VaultFacts
      <4>2. QED
        BY <4>1, <3>1 DEF Unknown
    <3>3. CASE pc = "nothing"
      <4>1. EarlyVerdict(owed) = "done"
        BY <2>2, <2>3, <3>3
      <4>2. owed # Unknown /\ ~(owed > 0) /\ ~(owed = 0 /\ Unclaimed(DOMAIN file) # {})
        BY <4>1 DEF EarlyVerdict
      <4>3. owed = 0 /\ Unclaimed(DOMAIN file) = {}
        <5>1. owed >= 0
          BY <3>1, <4>2, VaultFacts
        <5>2. QED
          BY <3>2, <4>2, <5>1
      <4>4. QED
        BY <2>1, <2>3, <3>1, <3>3, <4>2, <4>3, EmptyMeansAllPaid DEF RunnerSound
    <3>4. CASE pc = "verified"
      <4>1. Verdict(owed) = "done"
        BY <2>2, <2>3, <3>4
      <4>2. unpaid = {} /\ owed # Unknown /\ ~(owed > 0)
        BY <4>1 DEF Verdict
      <4>3. owed = 0 /\ Unclaimed(DOMAIN file) = {}
        <5>1. owed >= 0
          BY <3>1, <4>2, VaultFacts
        <5>2. Unclaimed(DOMAIN file) \subseteq unpaid
          BY <3>4 DEF RunnerSound
        <5>3. QED
          BY <3>2, <4>2, <5>1, <5>2
      <4>4. QED
        BY <2>1, <2>3, <3>1, <3>4, <4>2, <4>3, EmptyMeansAllPaid DEF RunnerSound
    <3>5. QED
      BY <2>1, <3>3, <3>4
  <2>4. Full' = Full
    BY DEF Full, V!Granted
  <2>5. QED
    BY <2>1, <2>3, <2>4 DEF RunnerSound
<1>8. ASSUME NEW tx \in pool, Land(tx) \/ Drop(tx)
      PROVE  UNCHANGED <<pc, file, unpaid, exit>>
  BY <1>8 DEF Land, Drop, runner
<1>9. ASSUME NEW t \in Tokens, OpenAirdrop(t)
      PROVE  UNCHANGED <<pc, file, unpaid, exit>>
  BY <1>9 DEF OpenAirdrop, runner
<1>10. CASE SkipClaimed \/ Deliver \/ RowFails \/ PushReturns \/ Others \/ UNCHANGED vars
  BY <1>2, <1>10 DEF SkipClaimed, Deliver, RowFails, PushReturns, Others, vars, runner
<1>11. QED
  BY <1>2, <1>3, <1>5, <1>6, <1>7, <1>8, <1>9, <1>10 DEF Next

-----------------------------------------------------------------------------
(* The loop of a push.                                                     *)

\* While it loops there is a row, listed in some file, and gas for a floor.
LEMMA RowIs ==
    ASSUME PushSound, Looping
    PROVE  /\ push # Idle /\ Loop(push) /\ token # NoToken
           /\ push.i \in 1..Len(push.rows) /\ Len(push.rows) \in Nat
           /\ Row \in Listed
           /\ push.gas \in Nat /\ push.gas >= FloorMin
<1>1. push # Idle /\ Loop(push) /\ token # NoToken
  BY DEF PushSound, Looping
<1>2. push.rows \in Seq(Listed) /\ push.i \in 1..(Len(push.rows) + 1)
  BY <1>1 DEF Loop
<1>3. push.i \in 1..Len(push.rows) /\ Len(push.rows) \in Nat
  BY <1>2 DEF Looping
<1>4. Row \in Listed
  BY <1>2, <1>3 DEF Row
<1>5. push.gas \in Nat /\ push.floor \in Nat /\ push.floor >= FloorMin /\ push.gas >= push.floor
  BY <1>1, SMT DEF Loop, Looping
<1>6. push.gas >= FloorMin
  BY <1>5, SMT DEF FloorMin
<1>7. QED
  BY <1>1, <1>3, <1>4, <1>5, <1>6

\* What a row needs and burns.
LEMMA NeededIs ==
    ASSUME PlansSound
    PROVE  /\ Needed \in Nat
           /\ Cheap \in Nat /\ Cheap <= 66000
<1>1. Cheap \in Nat /\ Cheap <= 66000
  <2>1. Cheap \in 0..GasBase
    BY PushAssumption DEF PushAssumption
  <2>2. QED
    BY <2>1, SMT DEF GasBase
<1>2. CASE Invalid \/ Short
  BY <1>1, <1>2 DEF Needed
<1>3. CASE ~(Invalid \/ Short)
  <2>1. Account \in Holders
    BY <1>3 DEF Invalid, M!InTree
  <2>2. cost \in [Holders -> Nat \ {0}]
    BY PushAssumption DEF PushAssumption, PlansSound
  <2>3. QED
    BY <1>1, <1>3, <2>1, <2>2 DEF Needed
<1>4. QED
  BY <1>2, <1>3

\* A row that fails burns no more than there is, and an exhausted one most of it.
LEMMA BurnedIs ==
    ASSUME PlansSound, PushSound, Looping, Invalid \/ Short \/ OutOfGas
    PROVE  /\ Burned \in Nat /\ Burned <= push.gas
           /\ OutOfGas => Burned > push.gas \div 2
<1> DEFINE g == push.gas
           x == Forwarded(g)
           y == Forwarded(x)
<1>1. g \in Nat /\ g > 0
  <2>1. g \in Nat /\ g >= FloorMin
    BY RowIs
  <2>2. QED
    BY <2>1, SMT DEF FloorMin
<1>2. x \in Nat /\ x <= g /\ 64 * x >= 63 * g
  BY <1>1, KeptBack
<1> HIDE DEF x
<1>3. y \in Nat /\ y <= x /\ 64 * y >= 63 * x
  BY <1>2, KeptBack
<1>4. CASE OutOfGas
  <2>1. Burned = y
    BY <1>4 DEF Burned, Exhausted, x
  <2> HIDE DEF g, y
  <2>2. y > g \div 2
    BY <1>1, <1>2, <1>3, SMT
  <2>3. QED
    BY <1>1, <1>2, <1>3, <2>1, <2>2 DEF g
<1>5. CASE ~OutOfGas
  <2>1. Burned = Cheap /\ Needed = Cheap
    BY <1>5 DEF Burned, Needed, OutOfGas
  <2>2. Cheap \in Nat /\ Cheap <= x
    BY <1>2, <1>5, <2>1, NeededIs DEF OutOfGas, x
  <2>3. QED
    BY <1>1, <1>2, <1>5, <2>1, <2>2
<1>6. QED
  BY <1>4, <1>5

\* The first row of a covered push is not retriable.
LEMMA FirstGoesThrough ==
    ASSUME PlansSound, PushSound, Looping, push.i = 1, Covered(push.rows)
    PROVE  ~Retriable
<1>1. /\ Row = push.rows[1] /\ Row \in Listed
      /\ push.gas \in Nat /\ push.gas >= FloorMin
      /\ push.rows \in Seq(Listed) /\ 1 \in 1..Len(push.rows)
  BY RowIs DEF Row, Loop
<1>2. RowExecution(Row) <= Forwarded(push.gas)
  BY <1>1 DEF PushSound, Begins, Looping
<1>3. RowExecution(Row) \in Nat /\ 66000 <= RowExecution(Row)
  BY <1>1, RowCost
<1>4. Forwarded(push.gas) \in Nat
  BY <1>1, KeptBack
<1>5. Needed <= RowExecution(Row)
  <2>1. CASE Invalid \/ Short
    BY <1>3, <2>1, NeededIs DEF Needed
  <2>2. CASE ~(Invalid \/ Short)
    <3>1. Row[1] \in Holders /\ Needed = cost[Row[1]]
      BY <2>2 DEF Invalid, M!InTree, Needed, Account
    <3>2. Row \in ToSet(push.rows)
      BY <1>1 DEF ToSet
    <3>3. QED
      BY <3>1, <3>2 DEF Covered
  <2>3. QED
    BY <2>1, <2>2
<1>6. ~OutOfGas
  BY <1>2, <1>3, <1>4, <1>5, NeededIs DEF OutOfGas
<1>7. Burned = Cheap
  BY <1>6 DEF Burned
<1>8. ~(Cheap > push.gas \div 2)
  <2>1. Cheap \in Nat /\ Cheap <= 66000
    BY NeededIs
  <2>2. QED
    BY <1>1, <2>1, SMT DEF FloorMin
<1>9. QED
  BY <1>7, <1>8 DEF Retriable

\* A row that is walked past unpaid is settled, if the vault is full.
LEMMA SkippedIsSettled ==
    ASSUME VaultSound, PlansSound, PushSound, Full, RowFails, ~Retriable
    PROVE  Settled(Row)
<1>1. Looping /\ Account \notin claimed /\ (Invalid \/ Short \/ OutOfGas)
  BY DEF RowFails
<1>2. CASE Invalid
  BY <1>2 DEF Settled, Invalid, Account
<1>3. CASE ~Invalid
  <2>1. ~OutOfGas
    BY <1>1, <1>3, BurnedIs DEF Retriable
  <2>2. ~M!Delivers(token, Row[2])
    BY <1>1, <1>3, <2>1 DEF Short
  <2>3. Row[1] \in Holders \ claimed /\ Row[2] = Allocation[Row[1]]
    BY <1>1, <1>3 DEF Invalid, M!InTree, Account
  <2>4. token \in Tokens
    BY <1>1, RowIs, VaultFacts
  <2>5. ASSUME token \notin Fallbacks PROVE FALSE
    <3>1. Allocation[Row[1]] \in Nat \ {0} /\ held[token] \in Nat /\ Allocation[Row[1]] <= held[token]
      BY <2>3, <2>4, <2>5, FullPays
    <3>2. M!Delivers(token, Row[2])
      BY <2>3, <2>5, <3>1 DEF M!Delivers, M!Reported, M!ReportedAfter
    <3>3. QED
      BY <2>2, <3>2
  <2>6. QED
    BY <2>5 DEF Settled
<1>4. QED
  BY <1>2, <1>3

\* What the loop does to its own variables.
LEMMA LoopGoesOn ==
    ASSUME NEW p, Loop(p), NEW q, q = Fields(q), q.rows = p.rows, q.floor = p.floor,
           q.gas \in Nat, q.i \in 1..(Len(p.rows) + 1)
    PROVE  Loop(q)
BY DEF Loop


\* Going on to the next row, past one that is settled.
LEMMA NextRow ==
    ASSUME PushSound, Looping, [Next]_vars,
           push' = Fields(push'), push'.rows = push.rows, push'.floor = push.floor,
           push'.gas \in Nat, push'.i = push.i + 1,
           Full => Row[1] \in claimed' \/ Settled(Row)
    PROVE  PushSound'
<1>1. /\ push # Idle /\ Loop(push) /\ token # NoToken
      /\ push.i \in 1..Len(push.rows) /\ Len(push.rows) \in Nat
  BY RowIs
<1>2. Loop(push')
  <2>1. push'.i \in 1..(Len(push.rows) + 1)
    BY <1>1
  <2>2. QED
    BY <1>1, <2>1, LoopGoesOn
<1>3. token' # NoToken
  BY <1>1, VaultGrows
<1>4. ~(push'.i = 1)
  BY <1>1
<1>5. ASSUME Full, NEW k \in 1..(push'.i - 1) PROVE Settled(push.rows[k])'
  <2>1. CASE k = push.i
    <3>1. push'.rows[k] = Row
      BY <2>1 DEF Row
    <3>2. CASE Row[1] \in claimed'
      BY <3>1, <3>2 DEF Settled
    <3>3. CASE Settled(Row)
      <4>1. Settled(push.rows[k])
        BY <3>3, <2>1 DEF Row
      <4>2. Settled(push.rows[k]) => Row[1] \in claimed' \/ ~M!InTree(Row[1], Row[2]) \/ token' \in Fallbacks
        BY <1>1, <2>1, VaultGrows DEF Settled, Row
      <4>3. QED
        BY <3>1, <4>1, <4>2 DEF Settled, M!InTree
    <3>4. QED
      BY <1>5, <3>2, <3>3
  <2>2. CASE k # push.i
    <3>1. k \in 1..(push.i - 1)
      BY <1>1, <2>2
    <3>2. Settled(push.rows[k])
      BY <1>1, <1>5, <3>1 DEF PushSound, Walked
    <3>3. QED
      BY <1>1, <3>2, VaultGrows DEF Settled, M!InTree
  <2>3. QED
    BY <2>1, <2>2
<1>6. Full => Walked(push)'
  BY <1>5 DEF Walked
<1>7. Full' = Full
  BY DEF Full, V!Granted
<1>8. Loop(push)' /\ Begins(push)'
  BY <1>2, <1>4 DEF Loop, Fields, Begins
<1>9. QED
  BY <1>3, <1>6, <1>7, <1>8 DEF PushSound

\* Each step of the loop, and what surrounds it.
LEMMA PushKept ==
    ASSUME VaultSound, PlansSound, PushSound, [Next]_vars
    PROVE  PushSound'
<1>1. CASE push' = push
  <2>1. ASSUME push # Idle PROVE token' # NoToken /\ token # NoToken
    BY <2>1, VaultGrows DEF PushSound
  <2>2. ASSUME push # Idle, Full, Walked(push) PROVE Walked(push)'
    BY <1>1, <2>1, <2>2, VaultGrows DEF Walked, Settled, M!InTree
  <2>3. cost' = cost
    BY Frames
  <2>4. Full' = Full
    BY DEF Full, V!Granted
  <2>5. Loop(push) => Loop(push)'
    BY <1>1 DEF Loop, Fields
  <2>6. Begins(push) => Begins(push)'
    BY <1>1, <2>3 DEF Begins, Covered
  <2>7. QED
    BY <1>1, <2>1, <2>2, <2>4, <2>5, <2>6 DEF PushSound
<1>2. ASSUME NEW tx \in pool, Land(tx)
      PROVE  PushSound'
  <2> DEFINE gas == tx.gas - Intrinsic(tx.rows)
  <2>1. /\ token # NoToken /\ token' = token
        /\ push' = [rows |-> tx.rows, gas |-> gas, floor |-> tx.floor, no |-> tx.no,
                    i |-> 1, delivered |-> 0, failed |-> 0, stopped |-> FALSE]
    BY <1>2 DEF Land, vault
  <2>2. Ready(tx)
    BY DEF PlansSound
  <2>3. tx.rows \in Seq(Listed) /\ tx.rows # << >> /\ Intrinsic(tx.rows) \in Nat
    BY <2>2, IntrinsicIs DEF Ready
  <2>4. gas \in Nat /\ gas >= tx.floor /\ tx.floor \in Nat /\ tx.floor >= FloorMin
    <3>1. /\ tx.gas \in Nat /\ tx.floor \in Nat /\ tx.floor >= FloorMin
          /\ Intrinsic(tx.rows) + tx.floor <= tx.gas
      BY <2>2 DEF Ready
    <3>2. QED
      BY <2>3, <3>1
  <2>5. RowExecution(tx.rows[1]) <= Forwarded(gas)
    BY <2>2 DEF Ready
  <2> HIDE DEF gas
  <2>6. /\ push'.rows = tx.rows /\ push'.gas = gas /\ push'.floor = tx.floor
        /\ push'.i = 1 /\ push'.stopped = FALSE
        /\ push' = Fields(push')
    BY <2>1 DEF Fields
  <2>7. 1 \in 1..(Len(tx.rows) + 1)
    BY <2>3
  <2>8. Loop(push')
    BY <2>3, <2>4, <2>6, <2>7 DEF Loop
  <2>9. Begins(push)' /\ Loop(push)'
    BY <2>4, <2>5, <2>6, <2>8 DEF Begins, Loop, Fields
  <2>10. Walked(push)'
    BY <2>6 DEF Walked
  <2>11. QED
    BY <2>1, <2>9, <2>10 DEF PushSound
<1>3. CASE SkipClaimed
  <2>1. Looping /\ push' = [push EXCEPT !.i = @ + 1] /\ claimed' = claimed /\ Account \in claimed
    BY <1>3 DEF SkipClaimed, vault
  <2>2. Loop(push) /\ push = Fields(push)
    BY <2>1, RowIs DEF Loop
  <2>3. /\ push' = Fields(push') /\ push'.rows = push.rows /\ push'.floor = push.floor
        /\ push'.gas = push.gas /\ push'.i = push.i + 1
    BY <2>1, <2>2 DEF Fields
  <2>4. push'.gas \in Nat
    BY <2>2, <2>3 DEF Loop
  <2>5. Row[1] \in claimed'
    BY <2>1 DEF Account
  <2>6. QED
    BY <2>1, <2>3, <2>4, <2>5, NextRow
<1>4. CASE Deliver
  <2>1. /\ Looping /\ ~OutOfGas
        /\ push' = [push EXCEPT !.i = @ + 1, !.gas = @ - Needed, !.delivered = @ + 1]
        /\ Account \in claimed'
    BY <1>4 DEF Deliver, M!Claim
  <2>2. Loop(push) /\ push = Fields(push)
    BY <2>1, RowIs DEF Loop
  <2>3. /\ push' = Fields(push') /\ push'.rows = push.rows /\ push'.floor = push.floor
        /\ push'.gas = push.gas - Needed /\ push'.i = push.i + 1
    BY <2>1, <2>2 DEF Fields
  <2>4. push'.gas \in Nat
    <3>1. push.gas \in Nat /\ Needed \in Nat /\ ~(Needed > Forwarded(push.gas))
      BY <2>1, <2>2, NeededIs DEF Loop, OutOfGas
    <3>2. Forwarded(push.gas) \in Nat /\ Forwarded(push.gas) <= push.gas
      BY <3>1, KeptBack
    <3>3. QED
      BY <2>3, <3>1, <3>2
  <2>5. Row[1] \in claimed'
    BY <2>1 DEF Account
  <2>6. QED
    BY <2>1, <2>3, <2>4, <2>5, NextRow
<1>5. CASE RowFails
  <2>1. /\ Looping /\ (Invalid \/ Short \/ OutOfGas)
        /\ push' = [push EXCEPT !.failed = @ + 1, !.gas = @ - Burned, !.stopped = Retriable,
                                !.i = IF Retriable THEN @ ELSE @ + 1]
        /\ UNCHANGED <<vault, cost>>
    BY <1>5 DEF RowFails
  <2>2. Loop(push) /\ push = Fields(push)
    BY <2>1, RowIs DEF Loop
  <2>3. /\ push' = Fields(push') /\ push'.rows = push.rows /\ push'.floor = push.floor
        /\ push'.gas = push.gas - Burned
        /\ push'.i = IF Retriable THEN push.i ELSE push.i + 1
    BY <2>1, <2>2 DEF Fields
  <2>4. push'.gas \in Nat
    <3>1. push.gas \in Nat /\ Burned \in Nat /\ Burned <= push.gas
      BY <2>1, <2>2, BurnedIs DEF Loop
    <3>2. QED
      BY <2>3, <3>1
  <2>5. CASE ~Retriable
    <3>1. Full => Settled(Row)
      BY <1>5, <2>5, SkippedIsSettled
    <3>2. push'.i = push.i + 1
      BY <2>3, <2>5
    <3>3. QED
      BY <2>1, <2>3, <2>4, <3>1, <3>2, NextRow
  <2>6. CASE Retriable
    <3>1. push'.i = push.i /\ push # Idle /\ token # NoToken
      BY <2>1, <2>3, <2>6, RowIs
    <3>2. Loop(push')
      BY <2>2, <2>3, <2>4, <3>1, LoopGoesOn DEF Loop
    <3>3. ~(push.i = 1 /\ Covered(push.rows))
      BY <2>1, <2>6, FirstGoesThrough
    <3>4. Loop(push)' /\ Begins(push)'
      BY <2>1, <2>3, <3>1, <3>2, <3>3 DEF Loop, Fields, Begins, Covered
    <3>5. Full => Walked(push)'
      BY <2>1, <2>3, <3>1 DEF PushSound, Walked, Settled, M!InTree, vault
    <3>6. Full' = Full /\ token' # NoToken
      BY <2>1, <3>1 DEF Full, V!Granted, vault
    <3>7. QED
      BY <3>4, <3>5, <3>6 DEF PushSound
  <2>7. QED
    BY <2>5, <2>6
<1>6. CASE PushReturns
  BY <1>6 DEF PushReturns, PushSound
<1>7. QED
  BY <1>1, <1>2, <1>3, <1>4, <1>5, <1>6, Frames

\* A push that returns has walked past its first row, if it was covered.
LEMMA LastKept ==
    ASSUME PushSound, LastSound, [Next]_vars
    PROVE  LastSound'
<1>1. cost' = cost /\ Full' = Full
  BY Frames DEF Full, V!Granted
<1>2. CASE last' = Idle
  BY <1>2 DEF LastSound
<1>3. CASE last' = last
  <2>1. ASSUME last # Idle PROVE token' # NoToken /\ token # NoToken
    BY <2>1, VaultGrows DEF LastSound
  <2>2. ASSUME last # Idle, Walked(last) PROVE Walked(last)'
    BY <1>3, <2>1, <2>2, VaultGrows DEF Walked, Settled, M!InTree
  <2>3. Loop(last) => Loop(last)'
    BY <1>3 DEF Loop, Fields
  <2>4. Covered(last.rows)' = Covered(last.rows)
    BY <1>1, <1>3 DEF Covered
  <2>5. QED
    BY <1>1, <1>3, <2>1, <2>2, <2>3, <2>4 DEF LastSound
<1>4. CASE PushReturns
  <2>1. push # Idle /\ ~Looping /\ last' = push /\ token' = token /\ claimed' = claimed
    BY <1>4 DEF PushReturns, vault
  <2>2. /\ token # NoToken /\ Loop(push) /\ Begins(push)
        /\ Full => Walked(push)
    BY <2>1 DEF PushSound
  <2>3. ASSUME Covered(push.rows) PROVE push.i > 1
    <3>1. push.i \in 1..(Len(push.rows) + 1) /\ Len(push.rows) \in Nat /\ Len(push.rows) # 0
      BY <2>2 DEF Loop
    <3>2. ASSUME push.i = 1 PROVE FALSE
      <4>1. ~push.stopped /\ push.gas >= push.floor
        BY <2>2, <2>3, <3>2 DEF Begins
      <4>2. push.i <= Len(push.rows)
        BY <3>1, <3>2
      <4>3. QED
        BY <2>1, <4>1, <4>2 DEF Looping
    <3>3. QED
      BY <3>1, <3>2
  <2>4. Loop(last)' /\ (Covered(last.rows)' => (last.i > 1)')
    BY <1>1, <2>1, <2>2, <2>3 DEF Loop, Fields, Covered
  <2>5. Walked(push) => Walked(last)'
    BY <2>1 DEF Walked, Settled, M!InTree
  <2>6. QED
    BY <1>1, <2>1, <2>2, <2>4, <2>5 DEF LastSound
<1>5. QED
  BY <1>2, <1>3, <1>4, Frames

-----------------------------------------------------------------------------
(* Theorems.                                                               *)

LEMMA Preserved == IInv /\ [Next]_vars => IInv'
<1> SUFFICES ASSUME IInv, [Next]_vars
             PROVE  IInv'
  OBVIOUS
<1>1. VaultSound'
  BY VaultKept DEF IInv
<1>2. PlansSound' /\ PushSound' /\ LastSound'
  BY PlansKept, PushKept, LastKept DEF IInv
<1>3. RunnerSound'
  BY <1>1, RunnerKept DEF IInv
<1>4. QED
  BY <1>1, <1>2, <1>3 DEF IInv

\* The strengthened invariant holds in every reachable state.
THEOREM Inductive == Spec => []IInv
BY Initially, Preserved, PTL DEF Spec

\* Whatever rows cost and however often a push is starved, its gas never goes
\* negative, nor does the vault's balance; the runner never has more transactions in
\* flight than it may, never plans an empty chunk, and reads as unpaid only accounts
\* of its file.
THEOREM TypesCorrect == Spec => []TypeOK
<1>1. ASSUME IInv PROVE TypeOK
  <2>1. push # Idle => push.gas \in Nat
    BY <1>1 DEF IInv, PushSound, Loop
  <2>2. held \in [Tokens -> Nat]
    BY <1>1, VaultFacts DEF IInv
  <2>3. \A k \in DOMAIN todo : todo[k].rows # << >>
    <3>1. \A k \in DOMAIN todo : todo[k] \in Chunks
      BY <1>1 DEF IInv, PlansSound
    <3>2. QED
      BY <3>1, ChunksAreReady
  <2>4. QED
    BY <1>1, <2>1, <2>2, <2>3 DEF IInv, PlansSound, RunnerSound, TypeOK
<1>2. IInv => TypeOK
  BY <1>1
<1>3. QED
  BY <1>2, Inductive, PTL

\* If the reserve covers the tree, the runner exits 0 only when every holder has been
\* paid, whatever file it is run on, whoever else claims, and whatever it misread.
THEOREM SuccessIsComplete ==
    ASSUME Full
    PROVE  Spec => []ExitMeansAllPaid
<1>1. IInv => ExitMeansAllPaid
  BY DEF IInv, RunnerSound, ExitMeansAllPaid
<1>2. QED
  BY <1>1, Inductive, PTL

\* If the reserve covers the tree, a push that returned has walked past nobody it could
\* have paid, neither then nor later: a row that ran out of gas stops it.
THEOREM NobodyIsMissed ==
    ASSUME Full
    PROVE  Spec => []ResumeMissesNobody
<1>1. ASSUME IInv PROVE ResumeMissesNobody
  <2>1. SUFFICES ASSUME last # Idle, NEW k \in 1..(last.i - 1)
                 PROVE  LET row == last.rows[k]
                        IN  row[1] \in claimed \/ ~M!InTree(row[1], row[2])
                              \/ ~M!Delivers(token, row[2])
    BY DEF ResumeMissesNobody, Passed
  <2>2. Settled(last.rows[k])
    BY <1>1, <2>1 DEF IInv, LastSound, Walked
  <2>3. QED
    BY <2>2, NothingByFallback DEF Settled, M!InTree
<1>2. IInv => ResumeMissesNobody
  BY <1>1
<1>3. QED
  BY <1>2, Inductive, PTL

\* A planned push whose rows take no more than they were estimated to gets past its
\* first row, so that running the same file again makes progress.
THEOREM PushesAdvance == Spec => []PushAdvances
<1>1. IInv => PushAdvances
  BY DEF IInv, LastSound, PushAdvances
<1>2. QED
  BY <1>1, Inductive, PTL

\* Pushes, the runner and everybody else do to the vault only what PrismMigration lets
\* them: a loop of claims inside one transaction pays nobody twice, and what is proved
\* of the vault holds under it.
THEOREM OnTheVault == Spec => V!Init /\ [][V!Next]_vault
<1>1. Init => V!Init
  BY DEF Init, M!Init, V!Init
<1>2. QED
  BY <1>1, VaultSteps, PTL DEF Spec
=============================================================================
