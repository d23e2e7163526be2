----------------------------- MODULE SumTheorems -----------------------------
(* Sums of natural numbers over finite sets, as SumFunctionOnSet computes  *)
(* them: one element at a time, in an order nobody knows.                  *)
EXTENDS Integers, FiniteSets, Functions, FiniteSetTheorems, TLAPS

-----------------------------------------------------------------------------
\* Induction over the subsets of a finite set, for a set Good of them: a subset
\* is in Good if all smaller ones are.
LEMMA SubsetInduction ==
    ASSUME NEW S, IsFiniteSet(S), NEW Good,
           \A T \in SUBSET S : (\A U \in SUBSET T : U # T => U \in Good) => T \in Good
    PROVE  S \in Good
<1> DEFINE Odd == {T \in SUBSET S : T \notin Good}
           R == StrictSubsetOrdering(S)
<1>1. SUFFICES ASSUME S \notin Good PROVE FALSE
  OBVIOUS
<1>2. IsWellFoundedOn(R, SUBSET S)
  BY FS_StrictSubsetOrderingWellFounded, FS_FiniteSubsetsOfFinite
<1>3. Odd \subseteq SUBSET S /\ Odd # {}
  BY <1>1
<1>4. PICK T \in Odd : \A U \in Odd : <<U, T>> \notin R
  <2> HIDE DEF Odd, R
  <2>1. QED
    BY <1>2, <1>3, WFMin
<1>5. ASSUME NEW U \in SUBSET T, U # T PROVE U \in Good
  BY <1>4, <1>5 DEF StrictSubsetOrdering
<1>6. QED
  BY <1>4, <1>5

-----------------------------------------------------------------------------
\* As many pairs as the sum of f over S counts.
Units(f, S) == UNION {{x} \X (1..f[x]) : x \in S}

\* Taking one element away takes its pairs away.
LEMMA UnitsCounted ==
    ASSUME NEW f, NEW S, IsFiniteSet(S), \A x \in S : f[x] \in Nat
    PROVE  /\ Cardinality(Units(f, {})) = 0
           /\ IsFiniteSet(Units(f, S))
           /\ Cardinality(Units(f, S)) \in Nat
           /\ \A x \in S : Cardinality(Units(f, S)) = f[x] + Cardinality(Units(f, S \ {x}))
<1>1. ASSUME NEW x \in S
      PROVE  IsFiniteSet({x} \X (1..f[x])) /\ Cardinality({x} \X (1..f[x])) = f[x]
  <2>1. f[x] \in Nat
    OBVIOUS
  <2>2. IsFiniteSet(1..f[x]) /\ Cardinality(1..f[x]) = f[x]
    BY <2>1, FS_Interval
  <2>3. IsFiniteSet({x}) /\ Cardinality({x}) = 1
    BY FS_Singleton
  <2>4. QED
    BY <2>1, <2>2, <2>3, FS_Product
<1>2. Units(f, {}) = {}
  BY DEF Units
<1>3. ASSUME NEW T \in SUBSET S PROVE IsFiniteSet(Units(f, T))
  <2>1. IsFiniteSet(T)
    BY FS_Subset
  <2> DEFINE P == {{x} \X (1..f[x]) : x \in T}
  <2>2. IsFiniteSet(P)
    <3> DEFINE g == [x \in T |-> {x} \X (1..f[x])]
    <3>1. g \in Surjection(T, P)
      BY DEF Surjection
    <3>2. QED
      BY <2>1, <3>1, FS_Surjection
  <2>3. \A U \in P : IsFiniteSet(U)
    BY <1>1
  <2>4. IsFiniteSet(UNION P)
    BY <2>2, <2>3, FS_UNION
  <2>5. QED
    BY <2>4 DEF Units
<1>4. ASSUME NEW x \in S
      PROVE  Cardinality(Units(f, S)) = f[x] + Cardinality(Units(f, S \ {x}))
  <2> DEFINE A == {x} \X (1..f[x])
             B == Units(f, S \ {x})
  <2>1. Units(f, S) = A \cup B /\ A \cap B = {}
    BY DEF Units
  <2>2. IsFiniteSet(A) /\ Cardinality(A) = f[x] /\ IsFiniteSet(B)
    BY <1>1, <1>3
  <2>3. Cardinality(B) \in Nat /\ f[x] \in Nat
    BY <2>2, FS_CardinalityType
  <2> HIDE DEF A, B
  <2>4. Cardinality(A \cup B) = Cardinality(A) + Cardinality(B) - Cardinality(A \cap B)
    BY <2>2, FS_Union
  <2>5. Cardinality(A \cap B) = 0
    BY <2>1, FS_EmptySet
  <2>6. QED
    BY <2>1, <2>2, <2>3, <2>4, <2>5 DEF B
<1>5. QED
  BY <1>2, <1>3, <1>4, FS_EmptySet, FS_CardinalityType

\* The sum counts the pairs.
LEMMA SumCounts ==
    ASSUME NEW f, NEW S, IsFiniteSet(S), \A x \in S : f[x] \in Nat
    PROVE  SumFunctionOnSet(f, S) = Cardinality(Units(f, S))
<1> DEFINE Pick(s) == CHOOSE x \in s : TRUE
           iter == CHOOSE it : it = [s \in SUBSET S |->
                      IF s = {} THEN 0 ELSE f[Pick(s)] + it[s \ {Pick(s)}]]
           g == [s \in SUBSET S |-> Cardinality(Units(f, s))]
<1>1. SumFunctionOnSet(f, S) = iter[S]
  BY DEF SumFunctionOnSet, FoldFunctionOnSet, MapThenFoldSet
<1>2. \A s \in SUBSET S : g[s] = IF s = {} THEN 0 ELSE f[Pick(s)] + g[s \ {Pick(s)}]
  <2> SUFFICES ASSUME NEW s \in SUBSET S, s # {}
               PROVE  g[s] = f[Pick(s)] + g[s \ {Pick(s)}]
    BY UnitsCounted
  <2>1. IsFiniteSet(s) /\ Pick(s) \in s /\ s \ {Pick(s)} \in SUBSET S
    BY FS_Subset
  <2> HIDE DEF Pick
  <2>2. QED
    BY <2>1, UnitsCounted
<1> HIDE DEF g
<1>3. \A s \in SUBSET S : iter[s] = IF s = {} THEN 0 ELSE f[Pick(s)] + iter[s \ {Pick(s)}]
  <2> HIDE DEF Pick
  <2>1. g = [s \in SUBSET S |-> IF s = {} THEN 0 ELSE f[Pick(s)] + g[s \ {Pick(s)}]]
    BY <1>2 DEF g
  <2>2. iter = [s \in SUBSET S |-> IF s = {} THEN 0 ELSE f[Pick(s)] + iter[s \ {Pick(s)}]]
    BY <2>1
  <2> HIDE DEF iter
  <2>3. QED
    BY <2>2
<1>4. \A s \in SUBSET S : s # {} => Pick(s) \in s
  OBVIOUS
<1> HIDE DEF iter, Pick
<1>5. S \in {s \in SUBSET S : iter[s] = g[s]}
  <2> DEFINE Good == {s \in SUBSET S : iter[s] = g[s]}
  <2>1. ASSUME NEW s \in SUBSET S, \A u \in SUBSET s : u # s => u \in Good
        PROVE  s \in Good
    <3>1. CASE s = {}
      BY <1>2, <1>3, <3>1
    <3>2. CASE s # {}
      <4>1. s \ {Pick(s)} \in Good
        BY <1>4, <2>1, <3>2
      <4>2. QED
        BY <1>2, <1>3, <3>2, <4>1
    <3>3. QED
      BY <3>1, <3>2
  <2> HIDE DEF Good
  <2>2. S \in Good
    BY <2>1, SubsetInduction
  <2>3. QED
    BY <2>2 DEF Good
<1>6. QED
  BY <1>1, <1>5 DEF g

-----------------------------------------------------------------------------
(* What the sum does.                                                      *)

\* The sum over nothing is 0, every sum is natural, and any one element can be
\* taken out of it.
LEMMA SumRemove ==
    ASSUME NEW f, NEW S, IsFiniteSet(S), \A x \in S : f[x] \in Nat
    PROVE  /\ SumFunctionOnSet(f, {}) = 0
           /\ SumFunctionOnSet(f, S) \in Nat
           /\ \A x \in S : SumFunctionOnSet(f, S) = f[x] + SumFunctionOnSet(f, S \ {x})
<1>1. \A T \in SUBSET S : SumFunctionOnSet(f, T) = Cardinality(Units(f, T))
  BY SumCounts, FS_Subset
<1>2. {} \in SUBSET S /\ S \in SUBSET S /\ \A x \in S : S \ {x} \in SUBSET S
  OBVIOUS
<1>3. /\ Cardinality(Units(f, {})) = 0
      /\ Cardinality(Units(f, S)) \in Nat
      /\ \A x \in S : Cardinality(Units(f, S)) = f[x] + Cardinality(Units(f, S \ {x}))
  BY UnitsCounted
<1>4. SumFunctionOnSet(f, {}) = 0
  BY <1>1, <1>2, <1>3
<1>5. SumFunctionOnSet(f, S) \in Nat
  BY <1>1, <1>2, <1>3
<1>6. ASSUME NEW x \in S
      PROVE  SumFunctionOnSet(f, S) = f[x] + SumFunctionOnSet(f, S \ {x})
  BY <1>1, <1>2, <1>3
<1>7. QED
  BY <1>4, <1>5, <1>6

\* Functions that agree on S have the same sum over S.
LEMMA SumEqual ==
    ASSUME NEW f, NEW g, NEW S, IsFiniteSet(S),
           \A x \in S : f[x] \in Nat /\ g[x] = f[x]
    PROVE  SumFunctionOnSet(g, S) = SumFunctionOnSet(f, S)
<1>1. Units(g, S) = Units(f, S)
  BY DEF Units
<1>2. \A x \in S : g[x] \in Nat
  OBVIOUS
<1>3. QED
  BY <1>1, <1>2, SumCounts

\* The sum over two sets without a common element is the sum of their sums.
LEMMA SumUnion ==
    ASSUME NEW f, NEW S, IsFiniteSet(S), NEW T, IsFiniteSet(T), S \cap T = {},
           \A x \in S \cup T : f[x] \in Nat
    PROVE  SumFunctionOnSet(f, S \cup T) = SumFunctionOnSet(f, S) + SumFunctionOnSet(f, T)
<1>1. Units(f, S \cup T) = Units(f, S) \cup Units(f, T) /\ Units(f, S) \cap Units(f, T) = {}
  BY DEF Units
<1>2. /\ IsFiniteSet(Units(f, S)) /\ Cardinality(Units(f, S)) \in Nat
      /\ IsFiniteSet(Units(f, T)) /\ Cardinality(Units(f, T)) \in Nat
  BY UnitsCounted
<1>3. IsFiniteSet(S \cup T)
  BY FS_Union
<1>4. Cardinality(Units(f, S) \cap Units(f, T)) = 0
  BY <1>1, FS_EmptySet
<1>5. Cardinality(Units(f, S) \cup Units(f, T))
        = Cardinality(Units(f, S)) + Cardinality(Units(f, T))
  <2>1. Cardinality(Units(f, S) \cup Units(f, T))
          = Cardinality(Units(f, S)) + Cardinality(Units(f, T))
              - Cardinality(Units(f, S) \cap Units(f, T))
    BY <1>2, FS_Union
  <2>2. QED
    BY <1>2, <1>4, <2>1
<1>6. QED
  BY <1>1, <1>3, <1>5, SumCounts

\* A part of the set has at most the sum of the whole.
LEMMA SumSubset ==
    ASSUME NEW f, NEW S, IsFiniteSet(S), NEW T \in SUBSET S, \A x \in S : f[x] \in Nat
    PROVE  SumFunctionOnSet(f, T) <= SumFunctionOnSet(f, S)
<1>1. IsFiniteSet(T) /\ \A x \in T : f[x] \in Nat
  BY FS_Subset
<1>2. Units(f, T) \subseteq Units(f, S)
  BY DEF Units
<1>3. IsFiniteSet(Units(f, S))
  BY UnitsCounted
<1>4. QED
  BY <1>1, <1>2, <1>3, SumCounts, FS_Subset

\* Sums add up term by term.
LEMMA SumPlus ==
    ASSUME NEW f, NEW g, NEW h, NEW S, IsFiniteSet(S),
           \A x \in S : f[x] \in Nat /\ g[x] \in Nat /\ h[x] = f[x] + g[x]
    PROVE  SumFunctionOnSet(h, S) = SumFunctionOnSet(f, S) + SumFunctionOnSet(g, S)
<1> DEFINE F(T) == SumFunctionOnSet(f, T)
           G(T) == SumFunctionOnSet(g, T)
           H(T) == SumFunctionOnSet(h, T)
           Good == {T \in SUBSET S : H(T) = F(T) + G(T)}
<1>1. \A T \in SUBSET S : IsFiniteSet(T) /\ F(T) \in Nat /\ G(T) \in Nat /\ H(T) \in Nat
  BY SumRemove, FS_Subset
<1>2. ASSUME NEW T \in SUBSET S, NEW x \in T
      PROVE  /\ F(T) = f[x] + F(T \ {x})
             /\ G(T) = g[x] + G(T \ {x})
             /\ H(T) = h[x] + H(T \ {x})
  <2>1. IsFiniteSet(T) /\ \A y \in T : f[y] \in Nat /\ g[y] \in Nat /\ h[y] \in Nat
    BY <1>1
  <2>2. F(T) = f[x] + F(T \ {x})
    BY <2>1, SumRemove
  <2>3. G(T) = g[x] + G(T \ {x})
    BY <2>1, SumRemove
  <2>4. H(T) = h[x] + H(T \ {x})
    BY <2>1, SumRemove
  <2>5. QED
    BY <2>2, <2>3, <2>4
<1>3. F({}) = 0 /\ G({}) = 0 /\ H({}) = 0
  BY SumRemove, FS_EmptySet, Zenon
<1> HIDE DEF F, G, H
<1>4. ASSUME NEW T \in SUBSET S, \A U \in SUBSET T : U # T => U \in Good
      PROVE  T \in Good
  <2>1. CASE T = {}
    BY <1>3, <2>1
  <2>2. ASSUME NEW x \in T PROVE T \in Good
    <3>1. T \ {x} \in Good
      BY <1>4
    <3>2. H(T \ {x}) = F(T \ {x}) + G(T \ {x}) /\ T \ {x} \in SUBSET S
      BY <3>1
    <3>3. QED
      BY <1>1, <1>2, <3>2
  <2>3. QED
    BY <2>1, <2>2
<1> HIDE DEF Good
<1>5. S \in Good
  BY <1>4, SubsetInduction
<1>6. QED
  BY <1>5 DEF Good, F, G, H

\* The sum of a constant.
LEMMA SumConstant ==
    ASSUME NEW f, NEW c \in Nat, NEW S, IsFiniteSet(S), \A x \in S : f[x] = c
    PROVE  SumFunctionOnSet(f, S) = c * Cardinality(S)
<1>1. Units(f, S) = S \X (1..c)
  BY DEF Units
<1>2. IsFiniteSet(1..c) /\ Cardinality(1..c) = c
  BY FS_Interval
<1>3. Cardinality(S \X (1..c)) = Cardinality(S) * c /\ Cardinality(S) \in Nat
  BY <1>2, FS_Product, FS_CardinalityType
<1>4. QED
  BY <1>1, <1>3, SumCounts

\* If k times f stays below h everywhere, k times the sum of f stays below the
\* sum of h.
LEMMA SumScaled ==
    ASSUME NEW f, NEW h, NEW k \in Nat, NEW S, IsFiniteSet(S),
           \A x \in S : f[x] \in Nat /\ h[x] \in Nat /\ k * f[x] <= h[x]
    PROVE  k * SumFunctionOnSet(f, S) <= SumFunctionOnSet(h, S)
<1> DEFINE F(T) == SumFunctionOnSet(f, T)
           H(T) == SumFunctionOnSet(h, T)
           Good == {T \in SUBSET S : k * F(T) <= H(T)}
<1>1. \A T \in SUBSET S : IsFiniteSet(T) /\ F(T) \in Nat /\ H(T) \in Nat
  BY SumRemove, FS_Subset
<1>2. ASSUME NEW T \in SUBSET S, NEW x \in T
      PROVE  F(T) = f[x] + F(T \ {x}) /\ H(T) = h[x] + H(T \ {x})
  <2>1. IsFiniteSet(T)
    BY <1>1
  <2>2. \A y \in T : f[y] \in Nat
    OBVIOUS
  <2>3. \A y \in T : h[y] \in Nat
    OBVIOUS
  <2>4. F(T) = f[x] + F(T \ {x})
    BY ONLY <1>2, <2>1, <2>2, SumRemove DEF F
  <2>5. H(T) = h[x] + H(T \ {x})
    BY ONLY <1>2, <2>1, <2>3, SumRemove DEF H
  <2>6. QED
    BY <2>4, <2>5
<1>3. F({}) = 0 /\ H({}) = 0
  BY SumRemove
<1> HIDE DEF F, H
<1>4. ASSUME NEW T \in SUBSET S, \A U \in SUBSET T : U # T => U \in Good
      PROVE  T \in Good
  <2>1. CASE T = {}
    BY <1>3, <2>1
  <2>2. ASSUME NEW x \in T PROVE T \in Good
    <3>1. T \ {x} \in Good /\ T \ {x} \in SUBSET S
      BY <1>4
    <3>2. F(T \ {x}) \in Nat /\ H(T \ {x}) \in Nat /\ k * F(T \ {x}) <= H(T \ {x})
      BY <1>1, <3>1
    <3>3. f[x] \in Nat /\ h[x] \in Nat /\ k * f[x] <= h[x]
      OBVIOUS
    <3>4. \A p, q \in Nat : k * (p + q) = k * p + k * q
      OBVIOUS
    <3>5. k * F(T) = k * f[x] + k * F(T \ {x})
      BY <1>2, <3>2, <3>3, <3>4
    <3>6. H(T) = h[x] + H(T \ {x})
      BY <1>2
    <3>7. k * f[x] \in Nat /\ k * F(T \ {x}) \in Nat
      BY <3>2, <3>3
    <3>8. \A p, q, r, s \in Nat : p <= r /\ q <= s => p + q <= r + s
      OBVIOUS
    <3>9. k * f[x] + k * F(T \ {x}) <= h[x] + H(T \ {x})
      BY <3>2, <3>3, <3>7, <3>8
    <3>10. QED
      BY <3>5, <3>6, <3>9
  <2>3. QED
    BY <2>1, <2>2
<1> HIDE DEF Good
<1>5. S \in Good
  BY <1>4, SubsetInduction
<1>6. QED
  BY <1>5 DEF Good, F, H

\* The sum of what is no larger anywhere is no larger.
LEMMA SumLeq ==
    ASSUME NEW f, NEW h, NEW S, IsFiniteSet(S),
           \A x \in S : f[x] \in Nat /\ h[x] \in Nat /\ f[x] <= h[x]
    PROVE  SumFunctionOnSet(f, S) <= SumFunctionOnSet(h, S)
<1>1. \A x \in S : f[x] \in Nat /\ h[x] \in Nat /\ 1 * f[x] <= h[x]
  OBVIOUS
<1>2. 1 * SumFunctionOnSet(f, S) <= SumFunctionOnSet(h, S)
  BY <1>1, SumScaled
<1>3. SumFunctionOnSet(f, S) \in Nat
  BY SumRemove
<1>4. QED
  BY <1>2, <1>3

\* A function that differs at one element has a sum that differs by as much.
LEMMA SumUpdate ==
    ASSUME NEW f, NEW g, NEW S, IsFiniteSet(S), NEW a \in S,
           \A x \in S : f[x] \in Nat /\ g[x] \in Nat,
           \A x \in S \ {a} : g[x] = f[x]
    PROVE  SumFunctionOnSet(g, S) + f[a] = SumFunctionOnSet(f, S) + g[a]
<1> DEFINE F == SumFunctionOnSet(f, S \ {a})
           G == SumFunctionOnSet(g, S \ {a})
<1>1. IsFiniteSet(S \ {a})
  BY FS_Subset
<1>2. G = F
  BY <1>1, SumEqual
<1>3. F \in Nat
  BY <1>1, SumRemove
<1>4. SumFunctionOnSet(f, S) = f[a] + F
  BY SumRemove
<1>5. SumFunctionOnSet(g, S) = g[a] + G
  BY SumRemove
<1>6. f[a] \in Nat /\ g[a] \in Nat
  OBVIOUS
<1> HIDE DEF F, G
<1>7. QED
  BY ONLY <1>2, <1>3, <1>4, <1>5, <1>6

\* Elements replaced by others that count nothing take their sum away.
LEMMA SumReplace ==
    ASSUME NEW g, NEW h, NEW S, IsFiniteSet(S), NEW X \in SUBSET S, NEW N, IsFiniteSet(N),
           N \cap (S \ X) = {}, \A x \in S : g[x] \in Nat,
           \A x \in S \ X : h[x] = g[x], \A x \in N : h[x] = 0
    PROVE  SumFunctionOnSet(h, (S \ X) \cup N) + SumFunctionOnSet(g, X)
             = SumFunctionOnSet(g, S)
<1> DEFINE R == S \ X
<1>1. IsFiniteSet(R) /\ IsFiniteSet(X) /\ R \cap N = {} /\ R \cap X = {} /\ S = R \cup X
  BY FS_Subset
<1>2. /\ \A x \in R : g[x] \in Nat /\ h[x] = g[x]
      /\ \A x \in R \cup N : h[x] \in Nat
  OBVIOUS
<1>3. SumFunctionOnSet(g, R \cup X) = SumFunctionOnSet(g, R) + SumFunctionOnSet(g, X)
  BY <1>1, SumUnion
<1> HIDE DEF R
<1>4. SumFunctionOnSet(h, R) = SumFunctionOnSet(g, R)
  BY <1>1, <1>2, SumEqual
<1>5. SumFunctionOnSet(h, N) = 0
  <2>1. SumFunctionOnSet(h, N) = 0 * Cardinality(N) /\ Cardinality(N) \in Nat
    BY SumConstant, FS_CardinalityType
  <2>2. QED
    BY <2>1
<1>6. SumFunctionOnSet(h, R \cup N) = SumFunctionOnSet(h, R) + SumFunctionOnSet(h, N)
  BY <1>1, <1>2, SumUnion
<1>7. SumFunctionOnSet(g, R) \in Nat /\ SumFunctionOnSet(g, X) \in Nat
  BY <1>1, <1>2, SumRemove
<1>8. SumFunctionOnSet(h, R \cup N) + SumFunctionOnSet(g, X) = SumFunctionOnSet(g, R \cup X)
  BY <1>3, <1>4, <1>5, <1>6, <1>7
<1>9. QED
  BY <1>1, <1>8 DEF R

\* Sums over sets that are apart, added up, are the sum over all of them.
LEMMA SumPartition ==
    ASSUME NEW f, NEW H, NEW F, NEW A, IsFiniteSet(A),
           \A a \in A : IsFiniteSet(H[a]) /\ F[a] = SumFunctionOnSet(f, H[a]),
           \A a, c \in A : a # c => H[a] \cap H[c] = {},
           \A a \in A : \A x \in H[a] : f[x] \in Nat
    PROVE  /\ IsFiniteSet(UNION {H[a] : a \in A})
           /\ SumFunctionOnSet(F, A) = SumFunctionOnSet(f, UNION {H[a] : a \in A})
           /\ \A a \in A : F[a] \in Nat
<1> DEFINE All(B) == UNION {H[a] : a \in B}
           Good == {B \in SUBSET A : /\ IsFiniteSet(All(B))
                                     /\ SumFunctionOnSet(F, B) = SumFunctionOnSet(f, All(B))}
<1>1. \A a \in A : F[a] \in Nat
  BY SumRemove
<1>2. ASSUME NEW B \in SUBSET A, \A U \in SUBSET B : U # B => U \in Good
      PROVE  B \in Good
  <2>1. CASE B = {}
    <3>1. All(B) = {} /\ IsFiniteSet({})
      BY <2>1, FS_EmptySet
    <3>2. SumFunctionOnSet(F, {}) = 0
      BY FS_EmptySet, SumRemove
    <3>3. SumFunctionOnSet(f, {}) = 0
      BY FS_EmptySet, SumRemove
    <3>4. QED
      BY <2>1, <3>1, <3>2, <3>3
  <2>2. ASSUME NEW a \in B PROVE B \in Good
    <3> DEFINE C == B \ {a}
    <3>1. C \in Good
      BY <1>2
    <3>2. /\ C \in SUBSET A /\ IsFiniteSet(All(C))
          /\ SumFunctionOnSet(F, C) = SumFunctionOnSet(f, All(C))
      BY <3>1
    <3>3. All(B) = All(C) \cup H[a] /\ All(C) \cap H[a] = {}
      OBVIOUS
    <3>4. \A x \in All(C) \cup H[a] : f[x] \in Nat
      OBVIOUS
    <3>5. IsFiniteSet(B) /\ \A c \in B : F[c] \in Nat
      BY <1>1, FS_Subset
    <3>6. SumFunctionOnSet(F, B) = F[a] + SumFunctionOnSet(F, C)
      BY <3>5, SumRemove
    <3>7. IsFiniteSet(H[a]) /\ F[a] = SumFunctionOnSet(f, H[a]) /\ a \in A
      OBVIOUS
    <3> HIDE DEF All, C
    <3>8. /\ IsFiniteSet(All(C) \cup H[a])
          /\ SumFunctionOnSet(f, All(C) \cup H[a])
               = SumFunctionOnSet(f, All(C)) + SumFunctionOnSet(f, H[a])
      <4>1. IsFiniteSet(All(C) \cup H[a])
        BY <3>2, <3>7, FS_Union
      <4>2. SumFunctionOnSet(f, All(C) \cup H[a])
              = SumFunctionOnSet(f, All(C)) + SumFunctionOnSet(f, H[a])
        BY <3>2, <3>3, <3>4, <3>7, SumUnion
      <4>3. QED
        BY <4>1, <4>2
    <3>9. F[a] \in Nat /\ SumFunctionOnSet(F, C) \in Nat
      <4>1. IsFiniteSet(C) /\ \A c \in C : F[c] \in Nat
        BY <3>5, FS_Subset DEF C
      <4>2. QED
        BY <1>1, <3>7, <4>1, SumRemove
    <3>10. SumFunctionOnSet(F, B) = SumFunctionOnSet(f, All(B))
      BY <3>2, <3>3, <3>6, <3>7, <3>8, <3>9
    <3>11. QED
      BY <3>3, <3>8, <3>10
  <2>3. QED
    BY <2>1, <2>2
<1> HIDE DEF Good
<1>3. A \in Good
  BY <1>2, SubsetInduction
<1>4. QED
  BY <1>1, <1>3 DEF Good
=============================================================================
