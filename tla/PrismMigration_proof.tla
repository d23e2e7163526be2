------------------------ MODULE PrismMigration_proof ------------------------
(***************************************************************************)
(* Proofs about PrismMigration, for every tree, every set of candidate     *)
(* tokens and every reserve.  PaidInFull compares payments with the token  *)
(* now wired, so it needs that the token is locked once somebody is paid   *)
(* (CorrectableUntilFirstClaim), and that no payment was made by a         *)
(* contract with a permissive fallback (Honest).  ReserveCoversUnpaid      *)
(* follows one claim at a time: what leaves the vault is what leaves the   *)
(* sum of the unpaid.                                                      *)
(***************************************************************************)
EXTENDS PrismMigration, SumTheorems, TLAPS

\* Payments were made by a token that keeps balances.
Honest == claimed # {} => token \in Tokens \ Fallbacks

IInv == TypeOK /\ CorrectableUntilFirstClaim /\ Honest /\ PaidInFull

USE MigrationAssumption DEF MigrationAssumption

\* A contract with a permissive fallback reports the balance 1 before and
\* after any transfer, so only a transfer of nothing would satisfy the check.
LEMMA FallbackNeverDelivers ==
    ASSUME NEW t \in Fallbacks, NEW n \in Nat \ {0}
    PROVE  ~Delivers(t, n)
BY DEF Delivers, Reported, ReportedAfter

\* A claim that goes through is of a holder, for its allocation, and the wired
\* token has it.
LEMMA ClaimIsCovered ==
    ASSUME TypeOK, NEW a \in Holders, NEW n \in Amounts, Claim(a, n)
    PROVE  /\ n = Allocation[a] /\ n \in Nat \ {0}
           /\ token \in Tokens \ Fallbacks
           /\ n <= held[token]
<1>1. n = Allocation[a] /\ n \in Nat \ {0}
  BY DEF Claim, InTree
<1>2. token \in Tokens /\ Delivers(token, n)
  BY DEF Claim, TypeOK
<1>3. token \notin Fallbacks
  BY <1>1, <1>2, FallbackNeverDelivers
<1>4. n <= held[token]
  BY <1>2, <1>3 DEF Delivers, Reported
<1>5. QED
  BY <1>1, <1>2, <1>3, <1>4

\* What a claim does to the vault and to the payments.
LEMMA ClaimPays ==
    ASSUME IInv, NEW a \in Holders, NEW n \in Amounts, Claim(a, n)
    PROVE  IInv'
<1>1. /\ n = Allocation[a] /\ n \in Nat \ {0}
      /\ token \in Tokens \ Fallbacks
      /\ n <= held[token]
  BY ClaimIsCovered DEF IInv
<1>2. /\ tokenFinal' = TRUE
      /\ claimed' = claimed \cup {a}
      /\ a \notin claimed
      /\ held' = [held EXCEPT ![token] = @ - n]
      /\ received' = [received EXCEPT ![token][a] = @ + n]
      /\ token' = token /\ gifts' = gifts
  BY <1>1 DEF Claim
<1>3. received[token][a] = 0
  BY <1>1, <1>2 DEF IInv, PaidInFull
<1>4. \A t \in Tokens, b \in Holders :
         received'[t][b] = IF t = token /\ b = a THEN n ELSE received[t][b]
  BY <1>1, <1>2, <1>3 DEF IInv, TypeOK
<1>5. TypeOK'
  <2>1. held' \in [Tokens -> Nat]
    BY <1>1, <1>2 DEF IInv, TypeOK
  <2>2. received' \in [Tokens -> [Holders -> Nat]]
    BY <1>1, <1>2, <1>3 DEF IInv, TypeOK
  <2>3. QED
    BY <1>1, <1>2, <2>1, <2>2 DEF IInv, TypeOK
<1>6. PaidInFull'
  <2>1. ASSUME NEW t \in Tokens, NEW b \in Holders
        PROVE  received'[t][b] =
                 IF b \in claimed' /\ t = token' THEN Allocation[b] ELSE 0
    <3>1. received[t][b] = IF b \in claimed /\ t = token THEN Allocation[b] ELSE 0
      BY DEF IInv, PaidInFull
    <3>2. QED
      BY <1>1, <1>2, <1>4, <3>1
  <2>2. QED
    BY <2>1 DEF PaidInFull
<1>7. CorrectableUntilFirstClaim' /\ Honest'
  BY <1>1, <1>2 DEF CorrectableUntilFirstClaim, Honest
<1>8. QED
  BY <1>5, <1>6, <1>7 DEF IInv

LEMMA Initially == Init => IInv
<1> SUFFICES ASSUME Init
             PROVE  IInv
  OBVIOUS
<1>1. TypeOK
  <2>1. held \in [Tokens -> Nat] /\ gifts \in 0..MaxGift
    BY DEF Init
  <2>2. received \in [Tokens -> [Holders -> Nat]]
    BY DEF Init
  <2>3. QED
    BY <2>1, <2>2 DEF Init, TypeOK
<1>2. \A t \in Tokens, a \in Holders : received[t][a] = 0
  BY DEF Init
<1>3. PaidInFull
  BY <1>2 DEF Init, PaidInFull
<1>4. CorrectableUntilFirstClaim /\ Honest
  BY DEF Init, CorrectableUntilFirstClaim, Honest
<1>5. QED
  BY <1>1, <1>3, <1>4 DEF IInv

LEMMA Preserved == IInv /\ [Next]_vars => IInv'
<1> SUFFICES ASSUME IInv, [Next]_vars
             PROVE  IInv'
  OBVIOUS
<1>1. ASSUME NEW t \in Tokens, SetToken(t)
      PROVE  IInv'
  <2>1. ~tokenFinal /\ claimed = {}
    BY <1>1 DEF SetToken, IInv, CorrectableUntilFirstClaim
  <2>2. \A s \in Tokens, a \in Holders : received[s][a] = 0
    BY <2>1 DEF IInv, PaidInFull
  <2>3. QED
    BY <1>1, <2>1, <2>2
    DEF SetToken, IInv, TypeOK, CorrectableUntilFirstClaim, Honest, PaidInFull
<1>2. ASSUME NEW a \in Holders, NEW n \in Amounts, Claim(a, n)
      PROVE  IInv'
  BY <1>2, ClaimPays
<1>3. ASSUME NEW t \in Tokens \ Fallbacks, Gift(t)
      PROVE  IInv'
  <2>1. TypeOK'
    BY <1>3 DEF Gift, IInv, TypeOK
  <2>2. QED
    BY <1>3, <2>1 DEF Gift, IInv, CorrectableUntilFirstClaim, Honest, PaidInFull
<1>4. ASSUME UNCHANGED vars
      PROVE  IInv'
  BY <1>4 DEF vars, IInv, TypeOK, CorrectableUntilFirstClaim, Honest, PaidInFull
<1>5. QED
  BY <1>1, <1>2, <1>3, <1>4 DEF Next

\* The strengthened invariant holds in every reachable state.
THEOREM Inductive == Spec => []IInv
BY Initially, Preserved, PTL DEF Spec

\* setToken, claim and transfers to the vault keep every amount a natural
\* number: no balance of the vault underflows.
THEOREM TypesCorrect == Spec => []TypeOK
<1>1. IInv => TypeOK
  BY DEF IInv
<1>2. QED
  BY <1>1, Inductive, PTL

\* Every claimed account got exactly its allocation, of the one wired token,
\* and nobody else got anything.
THEOREM Paid == Spec => []PaidInFull
<1>1. IInv => PaidInFull
  BY DEF IInv
<1>2. QED
  BY <1>1, Inductive, PTL

\* The token is locked if and only if somebody has been paid.
THEOREM Correctable == Spec => []CorrectableUntilFirstClaim
<1>1. IInv => CorrectableUntilFirstClaim
  BY DEF IInv
<1>2. QED
  BY <1>1, Inductive, PTL

-----------------------------------------------------------------------------
(* The sum of the unpaid.                                                  *)

\* Any part of the tree adds up to an amount.
LEMMA PartsAddUp ==
    ASSUME NEW S \in SUBSET Holders
    PROVE  /\ IsFiniteSet(S)
           /\ SumFunctionOnSet(Allocation, S) \in Nat
           /\ \A a \in S : SumFunctionOnSet(Allocation, S \ {a}) \in Nat
           /\ \A a \in S : SumFunctionOnSet(Allocation, S)
                             = Allocation[a] + SumFunctionOnSet(Allocation, S \ {a})
<1>1. IsFiniteSet(S)
  BY FS_Subset
<1>2. \A a \in S : Allocation[a] \in Nat
  OBVIOUS
<1>3. SumFunctionOnSet(Allocation, S) \in Nat
  BY <1>1, <1>2, SumRemove
<1>4. \A a \in S : SumFunctionOnSet(Allocation, S)
                     = Allocation[a] + SumFunctionOnSet(Allocation, S \ {a})
  BY <1>1, <1>2, SumRemove
<1>5. ASSUME NEW a \in S PROVE SumFunctionOnSet(Allocation, S \ {a}) \in Nat
  <2>1. IsFiniteSet(S \ {a}) /\ \A b \in S \ {a} : Allocation[b] \in Nat
    BY <1>1, <1>2, FS_Subset
  <2>2. QED
    BY <2>1, SumRemove
<1>6. QED
  BY <1>1, <1>3, <1>4, <1>5

\* A claim takes from the vault what it takes from the unpaid.
LEMMA ClaimKeepsCover ==
    ASSUME IInv, ReserveCoversUnpaid, NEW a \in Holders, NEW n \in Amounts, Claim(a, n)
    PROVE  ReserveCoversUnpaid'
<1> DEFINE owing == SumFunctionOnSet(Allocation, Holders \ claimed)
           left == SumFunctionOnSet(Allocation, (Holders \ claimed) \ {a})
<1>1. /\ n = Allocation[a] /\ n \in Nat \ {0}
      /\ token \in Tokens \ Fallbacks
  BY ClaimIsCovered DEF IInv
<1>2. /\ a \in Holders \ claimed
      /\ claimed' = claimed \cup {a}
      /\ held' = [held EXCEPT ![token] = @ - n]
  BY <1>1 DEF Claim
<1>3. owing \in Nat /\ left \in Nat /\ owing = n + left
  BY <1>1, <1>2, PartsAddUp
<1>4. Unpaid = owing /\ Unpaid' = left
  <2>1. Holders \ claimed' = (Holders \ claimed) \ {a}
    BY <1>2
  <2>2. QED
    BY <2>1 DEF Unpaid
<1> HIDE DEF owing, left
<1>5. ASSUME NEW t \in Tokens \ Fallbacks, Reserve[t] >= Granted
      PROVE  held'[t] >= Unpaid'
  <2>1. held[t] >= owing /\ held[t] \in Nat
    BY <1>4, <1>5 DEF ReserveCoversUnpaid, IInv, TypeOK
  <2>2. held'[t] = IF t = token THEN held[t] - n ELSE held[t]
    BY <1>2 DEF IInv, TypeOK
  <2>3. QED
    BY <1>1, <1>3, <1>4, <2>1, <2>2
<1>6. Granted' = Granted
  BY DEF Granted
<1>7. QED
  BY <1>5, <1>6 DEF ReserveCoversUnpaid

\* At first nobody is paid, and the vault holds its reserve.
LEMMA InitiallyCovered == Init => ReserveCoversUnpaid
<1> SUFFICES ASSUME Init
             PROVE  ReserveCoversUnpaid
  OBVIOUS
<1>1. Unpaid = Granted
  <2>1. Holders \ claimed = Holders
    BY DEF Init
  <2>2. QED
    BY <2>1 DEF Unpaid, Granted
<1>2. QED
  BY <1>1 DEF Init, ReserveCoversUnpaid

LEMMA CoverPreserved == IInv /\ ReserveCoversUnpaid /\ [Next]_vars => ReserveCoversUnpaid'
<1> SUFFICES ASSUME IInv, ReserveCoversUnpaid, [Next]_vars
             PROVE  ReserveCoversUnpaid'
  OBVIOUS
<1>1. ASSUME held' = held, claimed' = claimed
      PROVE  ReserveCoversUnpaid'
  BY <1>1 DEF ReserveCoversUnpaid, Unpaid, Granted
<1>2. ASSUME NEW t \in Tokens, SetToken(t)
      PROVE  ReserveCoversUnpaid'
  BY <1>1, <1>2 DEF SetToken
<1>3. ASSUME NEW a \in Holders, NEW n \in Amounts, Claim(a, n)
      PROVE  ReserveCoversUnpaid'
  BY <1>3, ClaimKeepsCover
<1>4. ASSUME NEW t \in Tokens \ Fallbacks, Gift(t)
      PROVE  ReserveCoversUnpaid'
  <2>1. /\ claimed' = claimed
        /\ held' = [held EXCEPT ![t] = @ + 1]
    BY <1>4 DEF Gift
  <2>2. Unpaid' = Unpaid /\ Unpaid \in Nat /\ Granted' = Granted
    BY <2>1, PartsAddUp DEF Unpaid, Granted
  <2>3. \A s \in Tokens : held[s] \in Nat /\ held'[s] \in Nat /\ held'[s] >= held[s]
    BY <2>1 DEF IInv, TypeOK
  <2>4. QED
    BY <2>2, <2>3 DEF ReserveCoversUnpaid
<1>5. ASSUME UNCHANGED vars
      PROVE  ReserveCoversUnpaid'
  BY <1>1, <1>5 DEF vars
<1>6. QED
  BY <1>2, <1>3, <1>4, <1>5 DEF Next

\* A reserve that covers the tree at first covers whoever is still unpaid,
\* whatever order claims, corrections and gifts come in.
THEOREM Covered == Spec => []ReserveCoversUnpaid
BY Inductive, InitiallyCovered, CoverPreserved, PTL DEF Spec
=============================================================================
