--------------------------- MODULE PrismHook_proof ---------------------------
(***************************************************************************)
(* Proofs about PrismShares and about PrismHook, for every set of accounts *)
(* and shares, every unit, supply, cap, scale, burn rate, fee and bound.   *)
(*                                                                         *)
(* Shares.  NoUnbackedShares and ExcludedHoldNothing are inductive         *)
(* together with ShareTypeOK: every plan a call works out is a good plan,  *)
(* and executing a good plan keeps them.  That no id is ever reused needs  *)
(* where each id goes as well: IdAt says which id an account holds at each *)
(* place of its array once a plan is executed, and the rest follows from   *)
(* that one function.                                                      *)
(*                                                                         *)
(* Fees.  Solvency is about rounded amounts and is not inductive; what is  *)
(* inductive is that the reserve, scaled, covers the scaled pending        *)
(* balances and what the live shares accrued before any rounding.  A       *)
(* collection adds to the accrued amounts, of as many shares as the        *)
(* denominator counts, no more than Scale times what it adds to the        *)
(* reserve; a share that is captured adds to the pending balances no more, *)
(* scaled, than it had accrued.                                            *)
(***************************************************************************)
EXTENDS PrismHook, FiniteSetTheorems, SumTheorems

(***************************************************************************)
(* Part 1.  PrismShares.                                                   *)
(***************************************************************************)

IInv == ShareTypeOK /\ NoUnbackedShares /\ ExcludedHoldNothing

USE ConstantsAssumption DEF ConstantsAssumption

-----------------------------------------------------------------------------
(* Whole tokens.                                                           *)

\* A balance of naturals holds a natural number of whole tokens.
LEMMA WholeNat ==
    ASSUME NEW b \in Nat
    PROVE  Whole(b) \in Nat
BY DEF Whole

\* More balance is never fewer whole tokens.
LEMMA WholeMonotone ==
    ASSUME NEW b \in Nat, NEW c \in Nat, b <= c
    PROVE  Whole(b) <= Whole(c)
BY DEF Whole

\* One UNIT more or less is one whole token more or less.
LEMMA WholeUnit ==
    ASSUME NEW b \in Nat
    PROVE  /\ Whole(b + UNIT) = Whole(b) + 1
           /\ UNIT <= b => Whole(b - UNIT) = Whole(b) - 1
BY DEF Whole

-----------------------------------------------------------------------------
(* Balances.                                                               *)

\* A payment within the payer's balance keeps balances natural, takes from
\* nobody but the payer and gives to nobody but the payee.
LEMMA PaidBalances ==
    ASSUME NEW b \in [Accounts -> Nat], NEW from \in Accounts, NEW to \in Accounts,
           NEW amount \in Nat, amount <= b[from]
    PROVE  /\ Paid(b, from, to, amount) \in [Accounts -> Nat]
           /\ from = to => Paid(b, from, to, amount) = b
           /\ from # to => Paid(b, from, to, amount)[from] = b[from] - amount
           /\ from # to => Paid(b, from, to, amount)[to] = b[to] + amount
           /\ \A a \in Accounts \ {from, to} : Paid(b, from, to, amount)[a] = b[a]
BY DEF Paid

\* A collection of what the pool has leaves the balance of every user as it
\* was, and the hook with what it did not burn.
LEMMA CollectionBalances ==
    ASSUME NEW b \in [Accounts -> Nat], NEW g \in Nat, NEW burn \in Nat,
           burn <= g, g <= b[Pool]
    PROVE  /\ CollectedBalances(b, g, burn) \in [Accounts -> Nat]
           /\ CollectedBalances(b, g, burn)[Hook] = b[Hook] + g - burn
           /\ CollectedBalances(b, g, burn)[Pool] = b[Pool] - g
           /\ \A u \in Users : CollectedBalances(b, g, burn)[u] = b[u]
<1> DEFINE d == Paid(b, Pool, Hook, g)
<1>1. /\ d \in [Accounts -> Nat]
      /\ d[Hook] = b[Hook] + g /\ d[Pool] = b[Pool] - g
      /\ \A u \in Users : d[u] = b[u]
  BY DEF Paid, Users
<1>2. CollectedBalances(b, g, burn) = Paid(d, Hook, Sink, burn)
  BY DEF CollectedBalances
<1>3. burn <= d[Hook]
  BY <1>1
<1> HIDE DEF d
<1>4. /\ Paid(d, Hook, Sink, burn) \in [Accounts -> Nat]
      /\ Paid(d, Hook, Sink, burn)[Hook] = d[Hook] - burn
      /\ Paid(d, Hook, Sink, burn)[Pool] = d[Pool]
      /\ \A u \in Users : Paid(d, Hook, Sink, burn)[u] = d[u]
  <2>1. /\ Hook \in Accounts /\ Sink \in Accounts /\ Pool \in Accounts
        /\ Hook # Sink /\ Pool # Hook /\ Pool # Sink
        /\ \A u \in Users : u \in Accounts \ {Hook, Sink}
    BY DEF Users
  <2>2. /\ Paid(d, Hook, Sink, burn) \in [Accounts -> Nat]
        /\ Paid(d, Hook, Sink, burn)[Hook] = d[Hook] - burn
        /\ \A a \in Accounts \ {Hook, Sink} : Paid(d, Hook, Sink, burn)[a] = d[a]
    BY <1>1, <1>3, <2>1, PaidBalances
  <2>3. QED
    BY <2>1, <2>2
<1>5. QED
  <2>1. d[Hook] - burn = b[Hook] + g - burn
    BY <1>1
  <2>2. QED
    BY <1>1, <1>2, <1>4, <2>1

\* A poke leaves the balance of every user as it was.
LEMMA PokeBalances ==
    ASSUME NEW b \in [Accounts -> Nat], NEW c \in AfterPoke(b)
    PROVE  /\ c \in [Accounts -> Nat]
           /\ \A u \in Users : c[u] = b[u]
BY CollectionBalances DEF AfterPoke

-----------------------------------------------------------------------------
(* Plans.                                                                  *)

\* The shares account a is left with when plan p is executed.
SharesAfter(p, a) ==
    Shares(a) - (IF a = p.loser THEN p.moves + p.burns ELSE 0)
              + (IF a = p.gainer THEN p.moves + p.mints ELSE 0)

\* A plan that can be executed and leaves every user backed by balances b.
GoodPlan(p, b) ==
    /\ p.loser \in Accounts
    /\ p.gainer \in Accounts
    /\ p.moves \in Nat /\ p.burns \in Nat /\ p.mints \in Nat
    /\ p.moves + p.burns <= Shares(p.loser)
    /\ p.loser = p.gainer => p.moves = 0
    /\ p.gainer \in Excluded => p.moves = 0 /\ p.mints = 0
    /\ \A u \in Users : SharesAfter(p, u) <= Whole(b[u])

\* The mint budget is a natural number: the recipient's balance only grew.
LEMMA BudgetNat ==
    ASSUME ShareTypeOK, NEW from \in Accounts, NEW to \in Accounts, NEW amount \in Nat,
           amount <= bal[from]
    PROVE  MintBudget(Paid(bal, from, to, amount), from, to, amount) \in Nat
<1> DEFINE paid == Paid(bal, from, to, amount)
<1>1. CASE to \in Users /\ to # from
  <2>1. paid[to] = bal[to] + amount /\ bal[to] \in Nat
    BY <1>1 DEF ShareTypeOK, Paid
  <2> HIDE DEF paid
  <2>2. /\ paid[to] \in Nat /\ paid[to] - amount \in Nat
        /\ paid[to] - amount <= paid[to]
    BY <2>1
  <2>3. /\ Whole(paid[to]) \in Nat /\ Whole(paid[to] - amount) \in Nat
        /\ Whole(paid[to] - amount) <= Whole(paid[to])
    BY <2>2, WholeNat, WholeMonotone
  <2>4. MintBudget(paid, from, to, amount) = Whole(paid[to]) - Whole(paid[to] - amount)
    BY <1>1 DEF MintBudget
  <2>5. MintBudget(paid, from, to, amount) \in Nat
    BY <2>3, <2>4
  <2>6. QED
    BY <2>5 DEF paid
<1>2. CASE ~(to \in Users /\ to # from)
  BY <1>2 DEF MintBudget
<1>3. QED
  BY <1>1, <1>2

\* The plan of every transfer is a good plan.
LEMMA TransferPlanGood ==
    ASSUME IInv, NEW from \in Accounts, NEW to \in Accounts, NEW amount \in Nat,
           amount <= bal[from]
    PROVE  GoodPlan(TransferPlan(from, to, amount), Paid(bal, from, to, amount))
<1> DEFINE paid == Paid(bal, from, to, amount)
           budget == MintBudget(paid, from, to, amount)
           p == TransferPlan(from, to, amount)
<1>1. /\ paid \in [Accounts -> Nat]
      /\ from = to => paid = bal
      /\ \A a \in Accounts \ {from} : bal[a] <= paid[a]
  <2>1. bal \in [Accounts -> Nat]
    BY DEF IInv, ShareTypeOK
  <2>2. QED
    BY <2>1 DEF Paid
<1>2. budget \in Nat
  BY BudgetNat DEF IInv
<1> HIDE DEF paid
<1>3. \A a \in Accounts : Shares(a) \in Nat /\ Whole(paid[a]) \in Nat
  <2>1. \A a \in Accounts : Shares(a) \in Nat
    BY DEF IInv, ShareTypeOK, Shares
  <2>2. \A a \in Accounts : Whole(paid[a]) \in Nat
    BY <1>1, WholeNat
  <2>3. QED
    BY <2>1, <2>2
<1>4. \A a \in Accounts : a # from \/ from = to => Shares(a) <= Whole(paid[a])
  <2>1. \A a \in Accounts : /\ bal[a] \in Nat /\ Whole(bal[a]) \in Nat
                            /\ Shares(a) <= Whole(bal[a])
    BY WholeNat DEF IInv, ShareTypeOK, NoUnbackedShares
  <2>2. QED
    BY <1>1, <1>3, <2>1, WholeMonotone
<1>5. p = Plan(paid, from, to, budget)
  BY DEF TransferPlan, paid
<1> HIDE DEF budget, p
<1>6. CASE from \in Users /\ to \in Users
  <2>1. p = PairPlan(paid, from, to, budget)
    BY <1>5, <1>6 DEF Plan
  <2>2. QED
    BY <1>2, <1>3, <1>4, <1>6, <2>1
    DEF GoodPlan, SharesAfter, PairPlan, Monus, Least, Users, paid, p
<1>7. CASE from \in Users /\ to \notin Users
  <2>1. p = SoloPlan(paid, from, budget)
    BY <1>5, <1>7 DEF Plan
  <2>2. QED
    BY <1>2, <1>3, <1>4, <1>7, <2>1
    DEF GoodPlan, SharesAfter, SoloPlan, Monus, Least, Users, paid, p
<1>8. CASE from \notin Users /\ to \in Users
  <2>1. p = SoloPlan(paid, to, budget)
    BY <1>5, <1>8 DEF Plan
  <2>2. QED
    BY <1>2, <1>3, <1>4, <1>8, <2>1
    DEF GoodPlan, SharesAfter, SoloPlan, Monus, Least, Users, paid, p
<1>9. CASE from \notin Users /\ to \notin Users
  <2>1. p = IdlePlan(from, to)
    BY <1>5, <1>9 DEF Plan
  <2>2. QED
    BY <1>3, <1>4, <1>9, <2>1
    DEF GoodPlan, SharesAfter, IdlePlan, Users, paid, p
<1>10. QED
  BY <1>6, <1>7, <1>8, <1>9

\* What the plan of a transfer does to holders, with the balances paid it
\* leaves: only a capped mint lets a gap grow, only a payer loses shares, a
\* mint is within the whole tokens that reached the recipient, a call that mints
\* burns nothing, and it has tried to collect before.
LEMMA TransferPlanMirrors ==
    ASSUME IInv, NEW from \in Accounts, NEW to \in Accounts, NEW amount \in Nat,
           amount <= bal[from]
    PROVE  LET p == TransferPlan(from, to, amount)
               paid == Paid(bal, from, to, amount)
           IN  /\ \A u \in Users :
                     \/ p.mints = MaxRealign
                     \/ Whole(paid[u]) - SharesAfter(p, u) <= Whole(bal[u]) - Shares(u)
               /\ \A u \in Users : SharesAfter(p, u) < Shares(u) => paid[u] < bal[u]
               /\ p.mints > 0 => to \in Users /\ p.mints <= Whole(paid[to]) - Whole(bal[to])
               /\ p.mints = 0 \/ p.burns = 0
               /\ p.mints > 0 => p.pokes
<1> DEFINE paid == Paid(bal, from, to, amount)
           budget == MintBudget(paid, from, to, amount)
           p == TransferPlan(from, to, amount)
           W(u) == Whole(paid[u])
           V(u) == Whole(bal[u])
<1>1. /\ paid \in [Accounts -> Nat] /\ bal \in [Accounts -> Nat]
      /\ from = to => paid = bal
      /\ from # to => paid[from] <= bal[from] /\ paid[to] = bal[to] + amount
      /\ \A a \in Accounts \ {from} : bal[a] <= paid[a]
      /\ \A a \in Accounts \ {from, to} : paid[a] = bal[a]
  <2>1. bal \in [Accounts -> Nat]
    BY DEF IInv, ShareTypeOK
  <2>2. QED
    BY <2>1 DEF Paid
<1>2. budget \in Nat
  BY BudgetNat DEF IInv
<1>3. /\ to \in Users /\ to # from => budget = W(to) - V(to)
      /\ to \notin Users \/ to = from => budget = 0
  <2>1. to # from => paid[to] - amount = bal[to]
    <3> HIDE DEF paid
    <3>1. QED
      BY <1>1
  <2>2. QED
    BY <2>1 DEF MintBudget
<1> HIDE DEF paid, budget
<1>4. \A a \in Accounts : /\ Shares(a) \in Nat /\ W(a) \in Nat /\ V(a) \in Nat
                          /\ Shares(a) <= V(a)
  <2>1. \A a \in Accounts : Shares(a) \in Nat /\ Shares(a) <= V(a)
    BY DEF IInv, ShareTypeOK, NoUnbackedShares, Shares
  <2>2. \A a \in Accounts : W(a) \in Nat /\ V(a) \in Nat
    BY <1>1, WholeNat
  <2>3. QED
    BY <2>1, <2>2
<1>5. \A a \in Accounts : bal[a] <= paid[a] => V(a) <= W(a)
  BY <1>1, WholeMonotone
<1>6. \A a \in Accounts : W(a) < V(a) => paid[a] < bal[a]
  BY <1>1, <1>4, <1>5
<1>7. /\ \A a \in Accounts : a # from \/ from = to => V(a) <= W(a)
      /\ \A a \in Accounts : a \notin {from, to} \/ from = to => V(a) = W(a)
      /\ W(from) <= V(from) \/ from = to
  BY <1>1, <1>5, WholeMonotone
<1>8. p = Plan(paid, from, to, budget)
  BY DEF TransferPlan, paid, budget
<1> HIDE DEF W, V, p
<1>9. CASE from \in Users /\ to \in Users
  <2>1. p = PairPlan(paid, from, to, budget)
    BY <1>8, <1>9 DEF Plan
  <2> DEFINE loses == Monus(Shares(from), W(from))
             gains == Monus(W(to), Shares(to))
             moves == Least(loses, gains)
             toMint == Least(gains - moves, budget)
  <2>2. /\ p.loser = from /\ p.gainer = to /\ p.moves = moves /\ p.burns = loses - moves
        /\ p.mints = Least(toMint, MaxRealign) 
        /\ toMint > 0 => p.pokes
    BY <2>1 DEF PairPlan, W
  <2>3. /\ loses = (IF Shares(from) > W(from) THEN Shares(from) - W(from) ELSE 0)
        /\ gains = (IF W(to) > Shares(to) THEN W(to) - Shares(to) ELSE 0)
    BY DEF Monus
  <2>4. /\ loses \in Nat /\ gains \in Nat /\ moves \in Nat
        /\ moves <= loses /\ moves <= gains
        /\ moves = loses \/ moves = gains
    BY <1>4, <2>3 DEF Least
  <2>5. /\ toMint \in Nat /\ toMint <= gains - moves /\ toMint <= budget
        /\ toMint = gains - moves \/ toMint = budget
        /\ p.mints \in Nat /\ p.mints <= toMint
        /\ p.mints = toMint \/ p.mints = MaxRealign
    BY <1>2, <2>2, <2>4 DEF Least
  <2> HIDE DEF loses, gains, moves, toMint
  <2>6. ASSUME NEW u \in Users
        PROVE  /\ p.mints = MaxRealign \/ W(u) - SharesAfter(p, u) <= V(u) - Shares(u)
               /\ SharesAfter(p, u) < Shares(u) => W(u) < V(u)
    <3>1. CASE u = from /\ from # to
      <4>1. SharesAfter(p, u) = Shares(u) - loses
        BY <1>4, <2>2, <2>4, <3>1 DEF SharesAfter, Users
      <4>2. W(u) <= V(u)
        BY <1>7, <3>1
      <4>3. /\ Shares(u) \in Nat /\ W(u) \in Nat /\ V(u) \in Nat /\ Shares(u) <= V(u)
            /\ loses = (IF Shares(u) > W(u) THEN Shares(u) - W(u) ELSE 0)
        BY <1>4, <2>3, <3>1
      <4>4. QED
        BY <4>1, <4>2, <4>3
    <3>2. CASE u = to /\ from # to
      <4>1. SharesAfter(p, u) = Shares(u) + (moves + p.mints)
        BY <1>4, <2>2, <2>4, <2>5, <3>2 DEF SharesAfter, Users
      <4>2. budget = W(u) - V(u) /\ V(u) <= W(u)
        BY <1>3, <1>7, <1>9, <3>2
      <4>3. QED
        BY <1>4, <2>3, <2>4, <2>5, <3>2, <4>1, <4>2 DEF Users
    <3>3. CASE from = to
      <4>1. V(u) = W(u) /\ W(from) = V(from) /\ budget = 0
        BY <1>3, <1>7, <3>3 DEF Users
      <4>2. loses = 0
        BY <1>4, <1>9, <2>3, <4>1 DEF Users
      <4>3. moves = 0 /\ p.mints = 0 /\ p.burns = 0 /\ p.moves = 0
        BY <2>2, <2>4, <2>5, <4>1, <4>2
      <4>4. SharesAfter(p, u) = Shares(u)
        BY <1>4, <4>3 DEF SharesAfter, Users
      <4>5. QED
        BY <1>4, <4>1, <4>4 DEF Users
    <3>4. CASE u \notin {from, to} /\ from # to
      <4>1. SharesAfter(p, u) = Shares(u)
        BY <1>4, <2>2, <3>4 DEF SharesAfter, Users
      <4>2. QED
        BY <1>4, <1>7, <3>4, <4>1 DEF Users
    <3>5. QED
      BY <3>1, <3>2, <3>3, <3>4
  <2>7. p.mints > 0 => p.mints <= W(to) - V(to)
    BY <1>2, <1>3, <1>4, <1>9, <2>5 DEF Users
  <2>8. p.mints = 0 \/ p.burns = 0
    BY <2>2, <2>4, <2>5 
  <2>9. p.mints > 0 => p.pokes
    BY <2>2, <2>5
  <2>10. QED
    BY <1>6, <1>9, <2>6, <2>7, <2>8, <2>9 DEF p, paid, W, V, Users
<1>10. ASSUME NEW user \in Users, user \in {from, to}, from \notin Users \/ to \notin Users,
             p = SoloPlan(paid, user, budget)
       PROVE  /\ \A u \in Users :
                    /\ p.mints = MaxRealign \/ W(u) - SharesAfter(p, u) <= V(u) - Shares(u)
                    /\ SharesAfter(p, u) < Shares(u) => W(u) < V(u)
              /\ p.mints \in Nat /\ p.mints <= budget
              /\ p.mints = 0 \/ p.burns = 0
              /\ p.mints > 0 => p.pokes
  <2> DEFINE gains == Monus(W(user), Shares(user))
  <2>1. /\ p.loser = user /\ p.gainer = user /\ p.moves = 0
        /\ p.burns = Monus(Shares(user), W(user))
        /\ p.mints = Least(Least(gains, budget), MaxRealign) 
        /\ gains > 0 => p.pokes
    BY <1>10 DEF SoloPlan, W
  <2>2. /\ p.burns = (IF Shares(user) > W(user) THEN Shares(user) - W(user) ELSE 0)
        /\ gains = (IF W(user) > Shares(user) THEN W(user) - Shares(user) ELSE 0)
    BY <2>1 DEF Monus
  <2>3. gains \in Nat /\ p.burns \in Nat
    BY <1>4, <2>2 DEF Users
  <2>4. /\ p.mints \in Nat /\ p.mints <= gains /\ p.mints <= budget
        /\ p.mints = gains \/ p.mints = budget \/ p.mints = MaxRealign
    BY <1>2, <2>1, <2>3 DEF Least
  <2> HIDE DEF gains
  <2>5. budget = 0 \/ (budget = W(user) - V(user) /\ V(user) <= W(user))
    BY <1>3, <1>7, <1>10
  <2>6. SharesAfter(p, user) = Shares(user) - p.burns + p.mints
    BY <1>4, <2>1, <2>3, <2>4 DEF SharesAfter, Users
  <2>7. W(user) <= V(user) \/ budget = W(user) - V(user)
    BY <1>3, <1>7, <1>10
  <2>8. /\ p.mints = MaxRealign \/ W(user) - SharesAfter(p, user) <= V(user) - Shares(user)
        /\ SharesAfter(p, user) < Shares(user) => W(user) < V(user)
    BY <1>4, <2>2, <2>3, <2>4, <2>5, <2>6, <2>7 DEF Users
  <2>9. ASSUME NEW u \in Users, u # user
        PROVE  SharesAfter(p, u) = Shares(u) /\ W(u) = V(u)
    <3>1. SharesAfter(p, u) = Shares(u)
      BY <1>4, <2>1, <2>9 DEF SharesAfter, Users
    <3>2. u \notin {from, to}
      BY <1>10, <2>9
    <3>3. QED
      BY <1>7, <3>1, <3>2 DEF Users
  <2>10. \A u \in Users :
           /\ p.mints = MaxRealign \/ W(u) - SharesAfter(p, u) <= V(u) - Shares(u)
           /\ SharesAfter(p, u) < Shares(u) => W(u) < V(u)
    BY <1>4, <2>8, <2>9 DEF Users
  <2>12. p.mints = 0 \/ p.burns = 0
    BY <1>4, <2>2, <2>4 DEF Users
  <2>13. p.mints > 0 => p.pokes
    BY <2>1, <2>3, <2>4
  <2>14. QED
    BY <2>4, <2>10, <2>12, <2>13
<1>11. CASE from \in Users /\ to \notin Users
  <2>1. p = SoloPlan(paid, from, budget)
    BY <1>8, <1>11 DEF Plan
  <2>2. p.mints = 0
    BY <1>3, <1>10, <1>11, <2>1
  <2>3. QED
    BY <1>6, <1>10, <1>11, <2>1, <2>2 DEF p, paid, W, V, Users
<1>12. CASE from \notin Users /\ to \in Users
  <2>1. p = SoloPlan(paid, to, budget)
    BY <1>8, <1>12 DEF Plan
  <2>2. p.mints <= W(to) - V(to)
    BY <1>3, <1>10, <1>12, <2>1
  <2>3. QED
    BY <1>6, <1>10, <1>12, <2>1, <2>2 DEF p, paid, W, V, Users
<1>13. CASE from \notin Users /\ to \notin Users
  <2>1. p = IdlePlan(from, to)
    BY <1>8, <1>13 DEF Plan
  <2>2. p.moves = 0 /\ p.burns = 0 /\ p.mints = 0
    BY <2>1 DEF IdlePlan
  <2>3. \A u \in Users : SharesAfter(p, u) = Shares(u) /\ W(u) = V(u)
    BY <1>4, <1>7, <1>13, <2>2 DEF SharesAfter, Users
  <2>4. QED
    BY <1>4, <2>2, <2>3 DEF p, paid, W, V, Users
<1>14. QED
  BY <1>9, <1>11, <1>12, <1>13

\* The plan of every sync by a user is a good plan for the balances as they are.
LEMMA SyncPlanGood ==
    ASSUME IInv, NEW user \in Users, NEW max \in Nat
    PROVE  GoodPlan(SyncPlan(user, max), bal)
<1>1. \A a \in Accounts : /\ Shares(a) \in Nat /\ Whole(bal[a]) \in Nat
                          /\ Shares(a) <= Whole(bal[a])
  BY WholeNat DEF IInv, ShareTypeOK, NoUnbackedShares, Shares
<1>2. QED
  BY <1>1 DEF GoodPlan, SharesAfter, SyncPlan, Monus, Least, Users

-----------------------------------------------------------------------------
(* Executing a plan.                                                       *)

\* Executing a good plan on typed arrays leaves every account with the
\* shares the plan says, and every array with minted ids only.
LEMMA RealignArrays ==
    ASSUME ShareTypeOK, NEW p, NEW b, GoodPlan(p, b), Realign(p)
    PROVE  /\ owned' \in [Accounts -> Seq(1..MaxId)]
           /\ nextId' \in 0..MaxId
           /\ \A a \in Accounts : Len(owned'[a]) = SharesAfter(p, a)
<1> DEFINE l == p.loser
           g == p.gainer
           m == p.moves
           k == p.burns
           n == p.mints
           S == Seq(1..MaxId)
           dropped == [owned EXCEPT ![l] = DropTails(@, m)]
           moved   == [dropped EXCEPT ![g] = @ \o TailsOf(owned[l], m)]
           burned  == [moved EXCEPT ![l] = DropTails(@, k)]
           minted  == [burned EXCEPT ![g] = @ \o FreshIds(n)]
<1>1. /\ owned \in [Accounts -> S]
      /\ l \in Accounts /\ g \in Accounts /\ m \in Nat /\ k \in Nat /\ n \in Nat
      /\ m + k <= Len(owned[l])
      /\ l = g => m = 0
      /\ nextId \in 0..MaxId /\ nextId + n <= MaxId
  BY DEF ShareTypeOK, GoodPlan, Shares, Realign
<1>2. /\ owned' = minted
      /\ nextId' = nextId + n
  BY DEF Realign, MoveTails, BurnTails, MintTo
<1>3. \A a \in Accounts : SharesAfter(p, a) = Len(owned[a])
                                - (IF a = l THEN m + k ELSE 0)
                                + (IF a = g THEN m + n ELSE 0)
  BY DEF SharesAfter, Shares
<1> HIDE DEF l, g, m, k, n
<1>4. \A s \in S, x \in Nat :
        x <= Len(s) => /\ DropTails(s, x) \in S
                       /\ Len(DropTails(s, x)) = Len(s) - x
                       /\ TailsOf(s, x) \in S
                       /\ Len(TailsOf(s, x)) = x
  BY DEF DropTails, TailsOf
<1>5. FreshIds(n) \in S /\ Len(FreshIds(n)) = n
  <2>1. \A i \in 1..n : nextId + i \in 1..MaxId
    BY <1>1
  <2>2. QED
    BY <1>1, <2>1 DEF FreshIds
<1>6. \A s, t \in S : s \o t \in S /\ Len(s \o t) = Len(s) + Len(t)
  OBVIOUS
<1>7. \A s \in S : Len(s) \in Nat
  OBVIOUS
<1>8. \A o \in [Accounts -> S], x \in Accounts, s \in S :
        /\ [o EXCEPT ![x] = s] \in [Accounts -> S]
        /\ \A a \in Accounts : [o EXCEPT ![x] = s][a] = IF a = x THEN s ELSE o[a]
  OBVIOUS
<1> HIDE DEF S
<1>9. /\ dropped \in [Accounts -> S]
      /\ \A a \in Accounts :
           Len(dropped[a]) = Len(owned[a]) - (IF a = l THEN m ELSE 0)
  <2>1. m <= Len(owned[l]) /\ owned[l] \in S
    BY <1>1, <1>7
  <2>2. DropTails(owned[l], m) \in S /\ Len(DropTails(owned[l], m)) = Len(owned[l]) - m
    BY <1>1, <1>4, <2>1
  <2>3. QED
    BY <1>1, <1>7, <1>8, <2>2
<1>10. /\ moved \in [Accounts -> S]
       /\ \A a \in Accounts :
            Len(moved[a]) = Len(dropped[a]) + (IF a = g THEN m ELSE 0)
  <2>1. m <= Len(owned[l]) /\ owned[l] \in S
    BY <1>1, <1>7
  <2>2. TailsOf(owned[l], m) \in S /\ Len(TailsOf(owned[l], m)) = m
    BY <1>1, <1>4, <2>1
  <2> HIDE DEF dropped
  <2>3. /\ dropped[g] \o TailsOf(owned[l], m) \in S
        /\ Len(dropped[g] \o TailsOf(owned[l], m)) = Len(dropped[g]) + m
    BY <1>1, <1>6, <1>9, <2>2
  <2>4. QED
    BY <1>1, <1>7, <1>8, <1>9, <2>3
<1> HIDE DEF dropped, moved
<1>11. /\ burned \in [Accounts -> S]
       /\ \A a \in Accounts :
            Len(burned[a]) = Len(moved[a]) - (IF a = l THEN k ELSE 0)
  <2>1. k <= Len(moved[l]) /\ moved[l] \in S
    <3>1. l \in Accounts /\ owned[l] \in S /\ dropped[l] \in S /\ moved[l] \in S
      BY <1>1, <1>9, <1>10
    <3>2. Len(owned[l]) \in Nat /\ Len(dropped[l]) \in Nat /\ Len(moved[l]) \in Nat
      BY <1>7, <3>1
    <3>3. Len(dropped[l]) = Len(owned[l]) - m
      BY <1>9, <3>1
    <3>4. m \in Nat /\ k \in Nat /\ m + k <= Len(owned[l])
      BY <1>1
    <3>5. CASE l = g
      <4>1. Len(moved[l]) = Len(dropped[l]) + m
        BY <1>10, <3>1, <3>5
      <4>2. QED
        BY <3>1, <3>2, <3>3, <3>4, <4>1
    <3>6. CASE l # g
      <4>1. Len(moved[l]) = Len(dropped[l]) + 0
        BY <1>10, <3>1, <3>6
      <4>2. QED
        BY <3>1, <3>2, <3>3, <3>4, <4>1
    <3>7. QED
      BY <3>5, <3>6
  <2>2. DropTails(moved[l], k) \in S /\ Len(DropTails(moved[l], k)) = Len(moved[l]) - k
    BY <1>1, <1>4, <2>1
  <2>3. QED
    BY <1>1, <1>7, <1>8, <1>10, <2>2
<1>12. /\ minted \in [Accounts -> S]
       /\ \A a \in Accounts :
            Len(minted[a]) = Len(burned[a]) + (IF a = g THEN n ELSE 0)
  <2> HIDE DEF burned
  <2>1. /\ burned[g] \o FreshIds(n) \in S
        /\ Len(burned[g] \o FreshIds(n)) = Len(burned[g]) + n
    BY <1>1, <1>5, <1>6, <1>11
  <2>2. QED
    BY <1>1, <1>7, <1>8, <1>11, <2>1
<1> HIDE DEF burned, minted
<1>13. nextId' \in 0..MaxId
  BY <1>1, <1>2
<1>14. \A a \in Accounts : Len(owned'[a]) = SharesAfter(p, a)
  <2>1. ASSUME NEW a \in Accounts PROVE Len(owned'[a]) = SharesAfter(p, a)
    <3>1. Len(owned[a]) \in Nat
      BY <1>1, <1>7
    <3>2. Len(dropped[a]) = Len(owned[a]) - (IF a = l THEN m ELSE 0)
      BY <1>9
    <3>3. Len(moved[a]) = Len(dropped[a]) + (IF a = g THEN m ELSE 0)
      BY <1>10
    <3>4. Len(burned[a]) = Len(moved[a]) - (IF a = l THEN k ELSE 0)
      BY <1>11
    <3>5. Len(minted[a]) = Len(burned[a]) + (IF a = g THEN n ELSE 0)
      BY <1>12
    <3>6. Len(minted[a]) = Len(owned[a]) - (IF a = l THEN m + k ELSE 0)
                                         + (IF a = g THEN m + n ELSE 0)
      <4>1. CASE a = l /\ a = g
        BY <1>1, <3>1, <3>2, <3>3, <3>4, <3>5, <4>1
      <4>2. CASE a = l /\ a # g
        BY <1>1, <3>1, <3>2, <3>3, <3>4, <3>5, <4>2
      <4>3. CASE a # l
        BY <1>1, <3>1, <3>2, <3>3, <3>4, <3>5, <4>3
      <4>4. QED
        BY <4>1, <4>2, <4>3
    <3>7. QED
      BY <1>2, <1>3, <3>6
  <2>2. QED
    BY <2>1
<1>15. QED
  BY <1>2, <1>12, <1>13, <1>14 DEF S

\* What account a keeps of its array when plan p is executed.
Kept(p, a) == Len(owned[a]) - (IF a = p.loser THEN p.moves + p.burns ELSE 0)

\* What then stands at position i: what stood there, then the moved ids from
\* the tail of the loser inwards, then the fresh ones.
IdAt(p, a, i) ==
    IF i <= Kept(p, a) THEN owned[a][i]
    ELSE IF i <= Kept(p, a) + p.moves
         THEN owned[p.loser][Len(owned[p.loser]) + 1 - (i - Kept(p, a))]
         ELSE nextId + (i - Kept(p, a) - p.moves)

\* Executing a good plan puts every id where the plan says.
LEMMA RealignPositions ==
    ASSUME ShareTypeOK, NEW p, NEW b, GoodPlan(p, b), Realign(p), NEW a \in Accounts
    PROVE  /\ Kept(p, a) \in 0..Len(owned[a])
           /\ Len(owned'[a]) = Kept(p, a) + (IF a = p.gainer THEN p.moves + p.mints ELSE 0)
           /\ \A i \in 1..Len(owned'[a]) : owned'[a][i] = IdAt(p, a, i)
<1> DEFINE l == p.loser
           g == p.gainer
           m == p.moves
           k == p.burns
           n == p.mints
           S == Seq(1..MaxId)
           s == owned[l]
           fresh == FreshIds(n)
<1>1. /\ owned \in [Accounts -> S]
      /\ l \in Accounts /\ g \in Accounts /\ m \in Nat /\ k \in Nat /\ n \in Nat
      /\ m + k <= Len(owned[l])
      /\ l = g => m = 0
      /\ nextId \in 0..MaxId /\ nextId + n <= MaxId
  BY DEF ShareTypeOK, GoodPlan, Shares, Realign
<1>2. owned' = MintTo(BurnTails(MoveTails(owned, l, g, m), l, k), g, n)
  BY DEF Realign
<1>3. Kept(p, a) = Len(owned[a]) - (IF a = l THEN m + k ELSE 0)
  BY DEF Kept
<1>4. \A i : IdAt(p, a, i) =
              IF i <= Kept(p, a) THEN owned[a][i]
              ELSE IF i <= Kept(p, a) + m
                   THEN owned[l][Len(owned[l]) + 1 - (i - Kept(p, a))]
                   ELSE nextId + (i - Kept(p, a) - m)
  BY DEF IdAt
<1> HIDE DEF l, g, m, k, n
<1>5. /\ s \in S /\ Len(s) \in Nat /\ owned[a] \in S /\ Len(owned[a]) \in Nat
      /\ owned[g] \in S
      /\ \A q \in S : Len(q) \in Nat
  BY <1>1
<1>6. Kept(p, a) \in 0..Len(owned[a])
  BY <1>1, <1>3, <1>5
<1>7. \A q \in S, x \in Nat :
        x <= Len(q) => /\ DropTails(q, x) \in S
                       /\ Len(DropTails(q, x)) = Len(q) - x
                       /\ \A i \in 1..(Len(q) - x) : DropTails(q, x)[i] = q[i]
                       /\ TailsOf(q, x) \in S
                       /\ Len(TailsOf(q, x)) = x
                       /\ \A i \in 1..x : TailsOf(q, x)[i] = q[Len(q) + 1 - i]
  <2> SUFFICES ASSUME NEW q \in S, NEW x \in Nat, x <= Len(q)
               PROVE  /\ DropTails(q, x) \in S
                      /\ Len(DropTails(q, x)) = Len(q) - x
                      /\ \A i \in 1..(Len(q) - x) : DropTails(q, x)[i] = q[i]
                      /\ TailsOf(q, x) \in S
                      /\ Len(TailsOf(q, x)) = x
                      /\ \A i \in 1..x : TailsOf(q, x)[i] = q[Len(q) + 1 - i]
    OBVIOUS
  <2>1. Len(q) \in Nat /\ q \in Seq(1..MaxId)
    BY <1>5
  <2>2. /\ DropTails(q, x) \in Seq(1..MaxId)
        /\ Len(DropTails(q, x)) = Len(q) - x
        /\ \A i \in 1..(Len(q) - x) : DropTails(q, x)[i] = q[i]
    BY <2>1 DEF DropTails
  <2>3. \A i \in 1..x : q[Len(q) + 1 - i] \in 1..MaxId
    BY <2>1
  <2>4. /\ TailsOf(q, x) \in Seq(1..MaxId)
        /\ Len(TailsOf(q, x)) = x
        /\ \A i \in 1..x : TailsOf(q, x)[i] = q[Len(q) + 1 - i]
    BY <2>1, <2>3 DEF TailsOf
  <2>5. QED
    BY <2>2, <2>4
<1>8. fresh \in S /\ Len(fresh) = n /\ \A i \in 1..n : fresh[i] = nextId + i
  <2>1. \A i \in 1..n : nextId + i \in 1..MaxId
    BY <1>1
  <2>2. QED
    BY <1>1, <2>1 DEF FreshIds
<1>9. \A q, r \in S : /\ q \o r \in S /\ Len(q \o r) = Len(q) + Len(r)
                      /\ \A i \in 1..(Len(q) + Len(r)) :
                           (q \o r)[i] = IF i <= Len(q) THEN q[i] ELSE r[i - Len(q)]
  OBVIOUS
<1> HIDE DEF S, fresh
<1>10. CASE l # g
  <2> DEFINE t == TailsOf(s, m)
             d == DropTails(s, m)
             e == DropTails(d, k)
             u == owned[g] \o t
  <2>1. /\ owned'[l] = e /\ owned'[g] = u \o fresh
        /\ \A c \in Accounts \ {l, g} : owned'[c] = owned[c]
    BY <1>1, <1>2, <1>10 DEF MintTo, BurnTails, MoveTails, fresh
  <2>2. /\ t \in S /\ Len(t) = m /\ \A i \in 1..m : t[i] = s[Len(s) + 1 - i]
        /\ d \in S /\ Len(d) = Len(s) - m /\ \A i \in 1..(Len(s) - m) : d[i] = s[i]
    <3>1. m <= Len(s)
      BY <1>1, <1>5
    <3>2. QED
      BY <1>1, <1>5, <1>7, <3>1
  <2> HIDE DEF t, d
  <2>3. /\ Len(e) = Len(s) - (m + k)
        /\ \A i \in 1..(Len(s) - (m + k)) : e[i] = s[i]
    <3>1. k <= Len(d)
      BY <1>1, <1>5, <2>2
    <3>2. Len(e) = Len(d) - k /\ \A i \in 1..(Len(d) - k) : e[i] = d[i]
      BY <1>1, <1>7, <2>2, <3>1
    <3> HIDE DEF e
    <3>3. QED
      BY <1>1, <1>5, <2>2, <3>2
  <2>4. /\ Len(u \o fresh) = Len(owned[g]) + m + n
        /\ \A i \in 1..(Len(owned[g]) + m + n) :
             (u \o fresh)[i] = IF i <= Len(owned[g]) THEN owned[g][i]
                              ELSE IF i <= Len(owned[g]) + m
                                   THEN s[Len(s) + 1 - (i - Len(owned[g]))]
                                   ELSE nextId + (i - Len(owned[g]) - m)
    <3>1. /\ u \in S /\ Len(u) = Len(owned[g]) + m
          /\ \A i \in 1..(Len(owned[g]) + m) :
               u[i] = IF i <= Len(owned[g]) THEN owned[g][i] ELSE t[i - Len(owned[g])]
      BY <1>5, <1>9, <2>2
    <3> HIDE DEF u
    <3>2. /\ Len(u \o fresh) = Len(u) + n
          /\ \A i \in 1..(Len(u) + n) :
               (u \o fresh)[i] = IF i <= Len(u) THEN u[i] ELSE fresh[i - Len(u)]
      BY <1>8, <1>9, <3>1
    <3> DEFINE v == u \o fresh
               L == Len(owned[g])
    <3>3. L \in Nat /\ Len(s) \in Nat
      BY <1>5
    <3> HIDE DEF v, L
    <3>4. /\ Len(v) = L + m + n
          /\ \A i \in 1..(L + m + n) :
               v[i] = IF i <= L + m THEN IF i <= L THEN owned[g][i] ELSE t[i - L]
                      ELSE fresh[i - (L + m)]
      BY <1>1, <3>1, <3>2, <3>3 DEF v, L
    <3>5. ASSUME NEW i \in 1..(L + m + n)
          PROVE  v[i] = IF i <= L THEN owned[g][i]
                        ELSE IF i <= L + m THEN s[Len(s) + 1 - (i - L)]
                             ELSE nextId + (i - L - m)
      <4>1. CASE i <= L
        BY <1>1, <3>3, <3>4, <4>1
      <4>2. CASE ~(i <= L) /\ i <= L + m
        <5>1. i - L \in 1..m
          BY <1>1, <3>3, <4>2
        <5>2. QED
          BY <2>2, <3>4, <4>2, <5>1
      <4>3. CASE ~(i <= L) /\ ~(i <= L + m)
        <5>1. i - (L + m) \in 1..n /\ i - (L + m) = i - L - m
          BY <1>1, <3>3, <4>3
        <5>2. QED
          BY <1>8, <3>4, <4>3, <5>1
      <4>4. QED
        BY <4>1, <4>2, <4>3
    <3>6. QED
      BY <1>1, <3>3, <3>4, <3>5 DEF v, L
  <2> HIDE DEF e, u
  <2>5. CASE a = l
    <3>1. Kept(p, a) = Len(s) - (m + k) /\ owned'[a] = e
      BY <1>3, <2>1, <2>5
    <3>2. a # p.gainer
      BY <1>10, <2>5 DEF g
    <3>3. Len(owned'[a]) = Kept(p, a) + 0
      BY <1>1, <1>5, <2>3, <3>1
    <3>4. ASSUME NEW i \in 1..Len(owned'[a]) PROVE owned'[a][i] = IdAt(p, a, i)
      <4>1. i \in 1..(Len(s) - (m + k)) /\ i <= Kept(p, a)
        BY <1>6, <3>1, <3>3
      <4>2. owned'[a][i] = owned[l][i] /\ IdAt(p, a, i) = owned[a][i]
        BY <1>4, <2>3, <3>1, <4>1
      <4>3. QED
        BY <2>5, <4>2
    <3>5. QED
      BY <1>6, <3>2, <3>3, <3>4
  <2>6. CASE a = g
    <3>1. Kept(p, a) = Len(owned[a]) - 0 /\ owned'[a] = u \o fresh
      BY <1>3, <1>10, <2>1, <2>6
    <3>2. Kept(p, a) = Len(owned[g])
      BY <1>5, <2>6, <3>1
    <3>0. Len(owned'[a]) = Len(owned[g]) + m + n
      BY <2>4, <3>1
    <3>3. Len(owned'[a]) = Kept(p, a) + (m + n)
      BY <1>1, <1>6, <3>0, <3>2
    <3>4. \A i \in 1..Len(owned'[a]) : owned'[a][i] = IdAt(p, a, i)
      BY <1>4, <2>4, <2>6, <3>0, <3>1, <3>2
    <3>5. QED
      BY <1>6, <2>6, <3>3, <3>4 DEF g, m, n
  <2>7. CASE a \notin {l, g}
    BY <1>1, <1>3, <1>4, <1>5, <1>6, <2>1, <2>7 DEF l, g, m, n
  <2>8. QED
    BY <2>5, <2>6, <2>7
<1>11. CASE l = g
  <2> DEFINE d == DropTails(s, 0) \o TailsOf(s, 0)
             e == DropTails(d, k)
  <2>1. m = 0 /\ k <= Len(s)
    BY <1>1, <1>5, <1>11
  <2>2. /\ owned'[l] = e \o fresh
        /\ \A c \in Accounts \ {l} : owned'[c] = owned[c]
    BY <1>1, <1>2, <1>11, <2>1 DEF MintTo, BurnTails, MoveTails, fresh
  <2>3. d \in S /\ Len(d) = Len(s) /\ \A i \in 1..Len(s) : d[i] = s[i]
    <3> DEFINE q == DropTails(s, 0)
               r == TailsOf(s, 0)
    <3>1. 0 \in Nat /\ 0 <= Len(s) /\ Len(s) - 0 = Len(s) /\ Len(s) + 0 = Len(s)
      BY <1>5
    <3>2. /\ q \in S /\ Len(q) = Len(s) - 0 /\ \A i \in 1..(Len(s) - 0) : q[i] = s[i]
          /\ r \in S /\ Len(r) = 0
      BY <1>5, <1>7, <3>1
    <3> HIDE DEF q, r
    <3>3. /\ q \o r \in S /\ Len(q \o r) = Len(s) + 0
          /\ \A i \in 1..(Len(s) + 0) : (q \o r)[i] = IF i <= Len(s) THEN q[i] ELSE r[i - Len(s)]
      BY <1>9, <3>1, <3>2
    <3>4. \A i \in 1..Len(s) : (q \o r)[i] = s[i]
      BY <1>5, <3>1, <3>2, <3>3
    <3>5. QED
      BY <3>1, <3>3, <3>4 DEF q, r
  <2> HIDE DEF d
  <2>4. /\ e \in S /\ Len(e) = Len(s) - k
        /\ \A i \in 1..(Len(s) - k) : e[i] = s[i]
    BY <1>1, <1>5, <1>7, <2>1, <2>3
  <2> HIDE DEF e
  <2>5. CASE a = l
    <3>1. Kept(p, a) = Len(s) - k
      BY <1>1, <1>3, <2>1, <2>5
    <3>2. /\ Len(owned'[a]) = Kept(p, a) + (m + n)
          /\ \A i \in 1..Len(owned'[a]) :
               owned'[a][i] = IF i <= Kept(p, a) THEN e[i] ELSE fresh[i - Kept(p, a)]
      <4>1. /\ Len(e \o fresh) = Len(e) + n
            /\ \A i \in 1..(Len(e) + n) :
                 (e \o fresh)[i] = IF i <= Len(e) THEN e[i] ELSE fresh[i - Len(e)]
        BY <1>8, <1>9, <2>4
      <4>2. Len(e) = Kept(p, a) /\ owned'[a] = e \o fresh /\ m + n = n
        BY <1>1, <2>1, <2>2, <2>4, <2>5, <3>1
      <4>3. QED
        BY <4>1, <4>2
    <3>3. ASSUME NEW i \in 1..Len(owned'[a]) PROVE owned'[a][i] = IdAt(p, a, i)
      <4>1. Len(owned'[a]) = Kept(p, a) + n
        BY <1>1, <1>6, <2>1, <3>2
      <4>2. CASE i <= Kept(p, a)
        BY <1>4, <1>6, <2>4, <2>5, <3>1, <3>2, <4>2
      <4>3. CASE ~(i <= Kept(p, a))
        <5>1. i - Kept(p, a) \in 1..n
          BY <1>1, <1>6, <4>1, <4>3
        <5>2. i - Kept(p, a) - m = i - Kept(p, a) /\ ~(i <= Kept(p, a) + m)
          BY <1>6, <2>1, <4>3, <4>1, <1>1
        <5>3. QED
          BY <1>4, <1>8, <3>2, <4>3, <5>1, <5>2
      <4>4. QED
        BY <4>2, <4>3
    <3>4. QED
      BY <1>6, <1>11, <2>5, <3>2, <3>3 DEF g, m, n
  <2>6. CASE a # l
    BY <1>1, <1>3, <1>4, <1>5, <1>6, <1>11, <2>2, <2>6 DEF l, g, m, n
  <2>7. QED
    BY <2>5, <2>6
<1>12. QED
  BY <1>10, <1>11

\* A step that executes a good plan for the balances it leaves the users with
\* keeps the inductive invariant.
LEMMA RealignKeepsIInv ==
    ASSUME IInv, NEW p, NEW b, GoodPlan(p, b), Realign(p),
           bal' \in [Accounts -> Nat], \A u \in Users : bal'[u] = b[u]
    PROVE  IInv'
<1>1. /\ owned' \in [Accounts -> Seq(1..MaxId)]
      /\ nextId' \in 0..MaxId
      /\ \A a \in Accounts : Len(owned'[a]) = SharesAfter(p, a)
  BY RealignArrays DEF IInv
<1>2. ShareTypeOK'
  <2>1. totalShares' = totalShares - p.burns + p.mints
    BY DEF Realign
  <2>2. totalShares \in Int /\ p.burns \in Nat /\ p.mints \in Nat
    BY DEF IInv, ShareTypeOK, GoodPlan
  <2>3. totalShares' \in Int
    BY <2>1, <2>2
  <2>4. QED
    BY <1>1, <2>3 DEF ShareTypeOK
<1>3. \A a \in Excluded : SharesAfter(p, a) = 0
  <2>1. \A a \in Excluded : Shares(a) = 0
    BY DEF IInv, ExcludedHoldNothing, Shares
  <2>2. QED
    BY <2>1 DEF SharesAfter, GoodPlan
<1>4. ExcludedHoldNothing'
  <2>1. \A a \in Excluded : owned'[a] \in Seq(1..MaxId) /\ Len(owned'[a]) = 0
    BY <1>1, <1>3
  <2>2. QED
    BY <2>1 DEF ExcludedHoldNothing
<1>5. NoUnbackedShares'
  <2>1. ASSUME NEW a \in Accounts
        PROVE  Len(owned'[a]) <= Whole(bal'[a])
    <3>1. CASE a \in Users
      BY <1>1, <3>1 DEF GoodPlan
    <3>2. CASE a \in Excluded
      BY <1>1, <1>3, <3>2, WholeNat
    <3>3. QED
      BY <3>1, <3>2 DEF Users
  <2>2. QED
    BY <2>1 DEF NoUnbackedShares, Shares, Whole
<1>6. QED
  BY <1>2, <1>4, <1>5 DEF IInv

-----------------------------------------------------------------------------
(* Which ids are held.                                                     *)

\* No id stands in two places, and the ids that stand anywhere were minted.
Distinct ==
    \A a, b \in Accounts : \A i \in 1..Len(owned[a]), j \in 1..Len(owned[b]) :
        owned[a][i] = owned[b][j] => a = b /\ i = j
Minted == \A a \in Accounts : \A i \in 1..Len(owned[a]) : owned[a][i] <= nextId

\* The denominator is the number of ids held.
Counted == totalShares = Cardinality(Live)

IdInv == Distinct /\ Minted /\ Counted

\* The last x ids of account a, and the ids plan p mints.
TailIds(a, x) == {owned[a][j] : j \in (Len(owned[a]) + 1 - x)..Len(owned[a])}
Fresh(p) == {nextId + i : i \in 1..p.mints}

\* Where an entry of an array comes from when a good plan is executed: from its
\* own place, from the tail of the loser, or from the counter.
LEMMA Origin ==
    ASSUME ShareTypeOK, NEW p, NEW b, GoodPlan(p, b), Realign(p), NEW a \in Accounts,
           NEW i \in 1..Len(owned'[a])
    PROVE  \/ /\ i <= Kept(p, a) /\ i \in 1..Len(owned[a])
              /\ owned'[a][i] = owned[a][i]
           \/ /\ a = p.gainer /\ ~(i <= Kept(p, a))
              /\ \E j \in 1..Len(owned[p.loser]) :
                   /\ j = Len(owned[p.loser]) + 1 - (i - Kept(p, a))
                   /\ ~(j <= Len(owned[p.loser]) - p.moves)
                   /\ owned'[a][i] = owned[p.loser][j]
           \/ /\ a = p.gainer /\ ~(i <= Kept(p, a))
              /\ \E n \in 1..p.mints : /\ n = i - Kept(p, a) - p.moves
                                      /\ owned'[a][i] = nextId + n
<1>1. /\ Kept(p, a) \in 0..Len(owned[a])
      /\ Len(owned'[a]) = Kept(p, a) + (IF a = p.gainer THEN p.moves + p.mints ELSE 0)
      /\ owned'[a][i] = IdAt(p, a, i)
  BY RealignPositions
<1>2. /\ Len(owned[a]) \in Nat /\ Len(owned[p.loser]) \in Nat
      /\ p.moves \in Nat /\ p.burns \in Nat /\ p.mints \in Nat
      /\ p.moves + p.burns <= Len(owned[p.loser])
  BY DEF ShareTypeOK, GoodPlan, Shares
<1>3. Kept(p, a) \in Nat /\ i \in Nat
  <2>1. Kept(p, a) \in Nat
    BY <1>1, <1>2
  <2>2. Len(owned'[a]) \in Nat
    <3>1. CASE a = p.gainer
      BY <1>1, <1>2, <2>1, <3>1
    <3>2. CASE a # p.gainer
      BY <1>1, <1>2, <2>1, <3>2
    <3>3. QED
      BY <3>1, <3>2
  <2>3. QED
    BY <2>1, <2>2
<1>4. CASE i <= Kept(p, a)
  <2>1. i \in 1..Len(owned[a])
    BY <1>1, <1>2, <1>3, <1>4
  <2>2. owned'[a][i] = owned[a][i]
    BY <1>1, <1>4 DEF IdAt
  <2>3. QED
    BY <1>4, <2>1, <2>2
<1>5. ASSUME ~(i <= Kept(p, a))
      PROVE  /\ a = p.gainer
             /\ i <= Kept(p, a) + p.moves + p.mints
  <2>1. CASE a = p.gainer
    BY <1>1, <1>2, <1>3, <2>1
  <2>2. CASE a # p.gainer
    BY <1>1, <1>2, <1>3, <1>5, <2>2
  <2>3. QED
    BY <2>1, <2>2
<1>6. CASE ~(i <= Kept(p, a)) /\ i <= Kept(p, a) + p.moves
  <2> DEFINE j == Len(owned[p.loser]) + 1 - (i - Kept(p, a))
  <2>1. j \in 1..Len(owned[p.loser]) /\ ~(j <= Len(owned[p.loser]) - p.moves)
    <3>1. p.moves <= Len(owned[p.loser])
      BY <1>2
    <3>2. i - Kept(p, a) \in 1..p.moves
      BY <1>2, <1>3, <1>6
    <3>3. ASSUME NEW d \in 1..p.moves, NEW n \in Nat, p.moves <= n
          PROVE  n + 1 - d \in 1..n /\ ~(n + 1 - d <= n - p.moves)
      BY <1>2, <3>3
    <3>4. QED
      BY <1>2, <3>1, <3>2, <3>3
  <2>2. owned'[a][i] = owned[p.loser][j]
    BY <1>1, <1>6 DEF IdAt
  <2>3. QED
    BY <1>5, <1>6, <2>1, <2>2
<1>7. CASE ~(i <= Kept(p, a)) /\ ~(i <= Kept(p, a) + p.moves)
  <2>1. i - Kept(p, a) - p.moves \in 1..p.mints
    BY <1>2, <1>3, <1>5, <1>7
  <2>2. owned'[a][i] = nextId + (i - Kept(p, a) - p.moves)
    BY <1>1, <1>7 DEF IdAt
  <2>3. QED
    BY <1>5, <1>7, <2>1, <2>2
<1>8. QED
  BY <1>4, <1>6, <1>7

\* Executing a good plan leaves every id in one place and mints fresh ones.
LEMMA RealignKeepsPlaces ==
    ASSUME ShareTypeOK, Distinct, Minted, NEW p, NEW b, GoodPlan(p, b), Realign(p)
    PROVE  Distinct' /\ Minted'
<1>1. /\ p.moves \in Nat /\ p.burns \in Nat /\ p.mints \in Nat /\ nextId \in Nat
      /\ p.loser \in Accounts /\ p.gainer \in Accounts
      /\ nextId' = nextId + p.mints
  BY DEF ShareTypeOK, GoodPlan, Realign
<1>2. ASSUME NEW a \in Accounts
      PROVE  /\ Len(owned[a]) \in Nat /\ Len(owned'[a]) \in Nat
             /\ Kept(p, a) \in 0..Len(owned[a]) /\ Kept(p, a) \in Nat
             /\ \A i \in 1..Len(owned[a]) : owned[a][i] \in Nat /\ owned[a][i] <= nextId
  <2>1. Len(owned[a]) \in Nat /\ \A i \in 1..Len(owned[a]) : owned[a][i] \in Nat
    BY DEF ShareTypeOK
  <2>2. owned' \in [Accounts -> Seq(1..MaxId)]
    BY RealignArrays
  <2>3. Kept(p, a) \in 0..Len(owned[a])
    BY RealignPositions
  <2>4. QED
    BY <2>1, <2>2, <2>3 DEF Minted
<1>3. Kept(p, p.loser) <= Len(owned[p.loser]) - p.moves
  <2>1. Len(owned[p.loser]) \in Nat /\ Kept(p, p.loser) = Len(owned[p.loser]) - (p.moves + p.burns)
    BY <1>1, <1>2 DEF Kept
  <2>2. QED
    BY <1>1, <2>1
<1> DEFINE Stays(d, k) == /\ k <= Kept(p, d) /\ k \in 1..Len(owned[d])
                          /\ owned'[d][k] = owned[d][k]
           Moves(d, k, x) == /\ d = p.gainer /\ ~(k <= Kept(p, d))
                             /\ x \in 1..Len(owned[p.loser])
                             /\ x = Len(owned[p.loser]) + 1 - (k - Kept(p, d))
                             /\ ~(x <= Len(owned[p.loser]) - p.moves)
                             /\ owned'[d][k] = owned[p.loser][x]
           IsNew(d, k, n) == /\ d = p.gainer /\ n \in 1..p.mints
                             /\ n = k - Kept(p, d) - p.moves
                             /\ owned'[d][k] = nextId + n
<1>4. ASSUME NEW a \in Accounts, NEW i \in 1..Len(owned'[a])
      PROVE  Stays(a, i) \/ (\E x : Moves(a, i, x)) \/ (\E n : IsNew(a, i, n))
  BY Origin
<1>5. ASSUME NEW d \in Accounts, NEW k
      PROVE  /\ Stays(d, k) => owned'[d][k] \in Nat /\ owned'[d][k] <= nextId
             /\ \A x : Moves(d, k, x) => owned'[d][k] \in Nat /\ owned'[d][k] <= nextId
             /\ \A n : IsNew(d, k, n) => /\ owned'[d][k] \in Nat /\ ~(owned'[d][k] <= nextId)
                                         /\ owned'[d][k] <= nextId + p.mints
  <2>1. Stays(d, k) => owned'[d][k] \in Nat /\ owned'[d][k] <= nextId
    BY <1>2
  <2>2. ASSUME NEW x, Moves(d, k, x)
        PROVE  owned'[d][k] \in Nat /\ owned'[d][k] <= nextId
    BY <1>1, <1>2, <2>2
  <2>3. ASSUME NEW n, IsNew(d, k, n)
        PROVE  /\ owned'[d][k] \in Nat /\ ~(owned'[d][k] <= nextId)
               /\ owned'[d][k] <= nextId + p.mints
    BY <1>1, <2>3
  <2>4. QED
    BY <2>1, <2>2, <2>3
<1>6. Minted'
  <2>1. ASSUME NEW a \in Accounts, NEW i \in 1..Len(owned'[a])
        PROVE  owned'[a][i] <= nextId + p.mints
    <3> HIDE DEF Stays, Moves, IsNew
    <3>1. CASE owned'[a][i] \in Nat /\ owned'[a][i] <= nextId
      BY <1>1, <3>1
    <3>2. CASE ~(owned'[a][i] \in Nat /\ owned'[a][i] <= nextId)
      BY <1>4, <1>5, <3>2
    <3>3. QED
      BY <3>1, <3>2
  <2>2. QED
    BY <1>1, <2>1 DEF Minted
<1>7. ASSUME NEW a \in Accounts, NEW i \in 1..Len(owned'[a]),
             NEW c \in Accounts, NEW j \in 1..Len(owned'[c]), owned'[a][i] = owned'[c][j]
      PROVE  a = c /\ i = j
  <2>1. i \in Nat /\ j \in Nat
    BY <1>2
  <2>2. ASSUME NEW d \in Accounts, NEW k, Stays(d, k), NEW e \in Accounts, NEW q, NEW x,
               Moves(e, q, x)
        PROVE  owned'[d][k] # owned'[e][q]
    <3>1. SUFFICES ASSUME owned[d][k] = owned[p.loser][x] PROVE FALSE
      BY <2>2
    <3>2. d = p.loser /\ k = x
      BY <1>1, <2>2, <3>1 DEF Distinct
    <3>3. x \in Nat /\ Len(owned[p.loser]) \in Nat /\ Kept(p, p.loser) \in Nat
      BY <1>1, <1>2, <2>2
    <3>4. QED
      BY <1>1, <1>3, <2>2, <3>2, <3>3
  <2>3. CASE Stays(a, i) /\ Stays(c, j)
    <3>1. owned[a][i] = owned[c][j]
      BY <1>7, <2>3
    <3>2. QED
      BY <2>3, <3>1 DEF Distinct
  <2>4. ASSUME NEW x, NEW y, Moves(a, i, x), Moves(c, j, y) PROVE a = c /\ i = j
    <3>1. x = y
      <4>1. owned[p.loser][x] = owned[p.loser][y]
        BY <1>7, <2>4
      <4>2. QED
        BY <1>1, <2>4, <4>1 DEF Distinct
    <3>2. /\ a = c /\ Kept(p, a) \in Nat /\ Len(owned[p.loser]) \in Nat
          /\ Len(owned[p.loser]) + 1 - (i - Kept(p, a)) = Len(owned[p.loser]) + 1 - (j - Kept(p, a))
      BY <1>1, <1>2, <2>4, <3>1
    <3>3. QED
      BY <2>1, <3>2
  <2>5. ASSUME NEW x, NEW y, IsNew(a, i, x), IsNew(c, j, y) PROVE a = c /\ i = j
    <3>1. x = y /\ a = c /\ Kept(p, a) \in Nat
      BY <1>1, <1>2, <1>7, <2>5
    <3>2. i - Kept(p, a) - p.moves = j - Kept(p, a) - p.moves
      BY <2>5, <3>1
    <3>3. QED
      BY <1>1, <2>1, <3>1, <3>2
  <2> HIDE DEF Stays, Moves, IsNew
  <2>6. QED
    BY <1>4, <1>5, <1>7, <2>2, <2>3, <2>4, <2>5
<1>8. Distinct'
  BY <1>7 DEF Distinct
<1>9. QED
  BY <1>6, <1>8

\* In a typed state the ids of an account are the entries of its array.
LEMMA HeldIds ==
    ASSUME ShareTypeOK
    PROVE  \A a \in Accounts : /\ Len(owned[a]) \in Nat
                               /\ HeldBy(a) = {owned[a][i] : i \in 1..Len(owned[a])}
                               /\ HeldBy(a) \subseteq 1..MaxId
                               /\ \A i \in 1..Len(owned[a]) : owned[a][i] \in 1..MaxId
<1>1. ASSUME NEW a \in Accounts
      PROVE  /\ Len(owned[a]) \in Nat /\ DOMAIN owned[a] = 1..Len(owned[a])
             /\ \A i \in 1..Len(owned[a]) : owned[a][i] \in 1..MaxId
  BY DEF ShareTypeOK
<1>2. QED
  BY <1>1 DEF HeldBy

\* What each account holds after a good plan was executed.
LEMMA RealignHeld ==
    ASSUME ShareTypeOK, Distinct, Minted, NEW p, NEW b, GoodPlan(p, b), Realign(p),
           NEW a \in Accounts
    PROVE  HeldBy(a)' =
             (HeldBy(a) \ (IF a = p.loser THEN TailIds(a, p.moves + p.burns) ELSE {}))
               \cup (IF a = p.gainer THEN TailIds(p.loser, p.moves) \cup Fresh(p) ELSE {})
<1> DEFINE gone == IF a = p.loser THEN TailIds(a, p.moves + p.burns) ELSE {}
           come == IF a = p.gainer THEN TailIds(p.loser, p.moves) \cup Fresh(p) ELSE {}
<1>1. /\ p.moves \in Nat /\ p.burns \in Nat /\ p.mints \in Nat /\ nextId \in Nat
      /\ p.loser \in Accounts /\ p.gainer \in Accounts
      /\ p.moves + p.burns <= Len(owned[p.loser])
  BY DEF ShareTypeOK, GoodPlan, Shares
<1>2. /\ Len(owned[a]) \in Nat /\ Len(owned[p.loser]) \in Nat /\ Len(owned'[a]) \in Nat
      /\ HeldBy(a) = {owned[a][i] : i \in 1..Len(owned[a])}
      /\ HeldBy(a)' = {owned'[a][i] : i \in 1..Len(owned'[a])}
  <2>1. /\ Len(owned[a]) \in Nat /\ Len(owned[p.loser]) \in Nat
        /\ HeldBy(a) = {owned[a][i] : i \in 1..Len(owned[a])}
    BY <1>1, HeldIds
  <2>2. owned' \in [Accounts -> Seq(1..MaxId)]
    BY RealignArrays
  <2>3. Len(owned'[a]) \in Nat /\ DOMAIN owned'[a] = 1..Len(owned'[a])
    BY <2>2
  <2>4. QED
    BY <2>1, <2>3 DEF HeldBy
<1>3. /\ Kept(p, a) \in 0..Len(owned[a]) /\ Kept(p, a) \in Nat
      /\ a # p.loser => Kept(p, a) = Len(owned[a])
      /\ a = p.loser => Kept(p, a) = Len(owned[a]) - (p.moves + p.burns)
      /\ a # p.gainer => Len(owned'[a]) = Kept(p, a)
      /\ a = p.gainer => Len(owned'[a]) = Kept(p, a) + (p.moves + p.mints)
      /\ \A i \in 1..Len(owned'[a]) : owned'[a][i] = IdAt(p, a, i)
  <2>1. /\ Kept(p, a) \in 0..Len(owned[a])
        /\ Len(owned'[a]) = Kept(p, a) + (IF a = p.gainer THEN p.moves + p.mints ELSE 0)
        /\ \A i \in 1..Len(owned'[a]) : owned'[a][i] = IdAt(p, a, i)
    BY RealignPositions
  <2>2. Kept(p, a) \in Nat
    BY <1>2, <2>1
  <2>3. /\ a # p.loser => Kept(p, a) = Len(owned[a])
        /\ a = p.loser => Kept(p, a) = Len(owned[a]) - (p.moves + p.burns)
    BY <1>1, <1>2 DEF Kept
  <2>4. /\ a # p.gainer => Len(owned'[a]) = Kept(p, a)
        /\ a = p.gainer => Len(owned'[a]) = Kept(p, a) + (p.moves + p.mints)
    BY <1>1, <2>1, <2>2
  <2>5. QED
    BY <2>1, <2>2, <2>3, <2>4
<1>4. ASSUME NEW i \in 1..Len(owned'[a]) PROVE owned'[a][i] \in (HeldBy(a) \ gone) \cup come
  <2>1. CASE i <= Kept(p, a) /\ i \in 1..Len(owned[a]) /\ owned'[a][i] = owned[a][i]
    <3>1. owned[a][i] \in HeldBy(a)
      BY <1>2, <2>1
    <3>2. ASSUME a = p.loser, NEW j \in (Len(owned[a]) + 1 - (p.moves + p.burns))..Len(owned[a])
          PROVE  owned[a][j] # owned[a][i]
      <4>1. j \in 1..Len(owned[a]) /\ j # i
        BY <1>1, <1>2, <1>3, <2>1, <3>2
      <4>2. QED
        BY <2>1, <4>1 DEF Distinct
    <3>3. owned[a][i] \notin gone
      BY <3>2 DEF TailIds
    <3>4. QED
      BY <2>1, <3>1, <3>3
  <2>2. ASSUME a = p.gainer, NEW j \in 1..Len(owned[p.loser]),
               ~(j <= Len(owned[p.loser]) - p.moves), owned'[a][i] = owned[p.loser][j]
        PROVE  owned'[a][i] \in come
    <3>1. j \in (Len(owned[p.loser]) + 1 - p.moves)..Len(owned[p.loser])
      BY <1>1, <1>2, <2>2
    <3>2. QED
      BY <2>2, <3>1 DEF TailIds
  <2>3. ASSUME a = p.gainer, NEW n \in 1..p.mints, owned'[a][i] = nextId + n
        PROVE  owned'[a][i] \in come
    BY <2>3 DEF Fresh
  <2> HIDE DEF gone, come
  <2>4. QED
    BY Origin, <2>1, <2>2, <2>3
<1>5. ASSUME NEW id \in HeldBy(a) \ gone PROVE id \in HeldBy(a)'
  <2>1. PICK i \in 1..Len(owned[a]) : id = owned[a][i]
    BY <1>2, <1>5
  <2>2. i <= Kept(p, a)
    <3>1. CASE a = p.loser
      <4>1. ~(i \in (Len(owned[a]) + 1 - (p.moves + p.burns))..Len(owned[a]))
        BY <1>5, <2>1, <3>1 DEF TailIds
      <4>2. QED
        BY <1>1, <1>2, <1>3, <3>1, <4>1
    <3>2. CASE a # p.loser
      BY <1>2, <1>3, <3>2
    <3>3. QED
      BY <3>1, <3>2
  <2>3. i \in 1..Len(owned'[a])
    BY <1>1, <1>2, <1>3, <2>2
  <2>4. owned'[a][i] = id
    BY <1>3, <2>1, <2>2, <2>3 DEF IdAt
  <2>5. QED
    BY <1>2, <2>3, <2>4
<1>6. ASSUME NEW id \in come PROVE id \in HeldBy(a)'
  <2>1. a = p.gainer
    BY <1>6
  <2>2. CASE id \in TailIds(p.loser, p.moves)
    <3>1. PICK j \in (Len(owned[p.loser]) + 1 - p.moves)..Len(owned[p.loser]) :
                  id = owned[p.loser][j]
      BY <2>2 DEF TailIds
    <3> DEFINE d == Len(owned[p.loser]) + 1 - j
               i == Kept(p, a) + d
    <3>2. d \in 1..p.moves /\ Len(owned[p.loser]) + 1 - d = j
      BY <1>1, <1>2, <3>1
    <3> HIDE DEF d
    <3>3. /\ i \in 1..Len(owned'[a]) /\ ~(i <= Kept(p, a)) /\ i <= Kept(p, a) + p.moves
          /\ Len(owned[p.loser]) + 1 - (i - Kept(p, a)) = j
      <4>1. /\ Kept(p, a) \in Nat /\ p.moves \in Nat /\ p.mints \in Nat
            /\ Len(owned'[a]) = Kept(p, a) + (p.moves + p.mints)
        BY <1>1, <1>3, <2>1
      <4>2. i \in 1..Len(owned'[a]) /\ ~(i <= Kept(p, a)) /\ i <= Kept(p, a) + p.moves
        BY <3>2, <4>1
      <4>3. i - Kept(p, a) = d
        BY <3>2, <4>1
      <4>4. QED
        BY <3>2, <4>2, <4>3
    <3> HIDE DEF i
    <3>4. owned'[a][i] = id
      BY <1>3, <3>1, <3>3 DEF IdAt
    <3>5. QED
      BY <1>2, <3>3, <3>4
  <2>3. CASE id \in Fresh(p)
    <3>1. PICK n \in 1..p.mints : id = nextId + n
      BY <2>3 DEF Fresh
    <3> DEFINE i == Kept(p, a) + p.moves + n
    <3>2. /\ i \in 1..Len(owned'[a]) /\ ~(i <= Kept(p, a)) /\ ~(i <= Kept(p, a) + p.moves)
          /\ i - Kept(p, a) - p.moves = n
      BY <1>1, <1>3, <2>1, <3>1
    <3> HIDE DEF i
    <3>3. owned'[a][i] = id
      BY <1>3, <3>1, <3>2 DEF IdAt
    <3>4. QED
      BY <1>2, <3>2, <3>3
  <2>4. QED
    BY <1>6, <2>1, <2>2, <2>3
<1>7. HeldBy(a)' = (HeldBy(a) \ gone) \cup come
  <2> HIDE DEF gone, come
  <2>1. \A id \in HeldBy(a)' : id \in (HeldBy(a) \ gone) \cup come
    BY <1>2, <1>4
  <2>2. QED
    BY <1>5, <1>6, <2>1
<1>8. QED
  BY <1>7

\* The ids of two accounts are apart, and every id held was minted.
LEMMA HeldApart ==
    ASSUME ShareTypeOK, Distinct, Minted
    PROVE  /\ \A a, c \in Accounts : a # c => HeldBy(a) \cap HeldBy(c) = {}
           /\ \A id \in Live : id \in 1..MaxId /\ id <= nextId
           /\ IsFiniteSet(Live)
<1>1. ASSUME NEW a \in Accounts, NEW c \in Accounts, NEW id \in HeldBy(a) \cap HeldBy(c)
      PROVE  a = c
  <2>1. PICK i \in 1..Len(owned[a]) : id = owned[a][i]
    BY <1>1, HeldIds
  <2>2. PICK j \in 1..Len(owned[c]) : id = owned[c][j]
    BY <1>1, HeldIds
  <2>3. owned[a][i] = owned[c][j] => a = c
    BY DEF Distinct
  <2>4. QED
    BY <2>1, <2>2, <2>3
<1>2. ASSUME NEW id \in Live PROVE id \in 1..MaxId /\ id <= nextId
  <2>1. PICK a \in Accounts : id \in HeldBy(a)
    BY <1>2 DEF Live
  <2>2. QED
    BY <2>1, HeldIds DEF Minted
<1>3. IsFiniteSet(Live)
  <2>1. IsFiniteSet(1..MaxId)
    BY FS_Interval
  <2>2. Live \in SUBSET (1..MaxId)
    BY <1>2
  <2>3. QED
    BY <2>1, <2>2, FS_Subset
<1>4. QED
  BY <1>1, <1>2, <1>3

\* The last x ids of an account are x of its ids.
LEMMA TailSize ==
    ASSUME ShareTypeOK, Distinct, NEW a \in Accounts, NEW x \in 0..Len(owned[a])
    PROVE  /\ TailIds(a, x) \subseteq HeldBy(a)
           /\ IsFiniteSet(TailIds(a, x)) /\ Cardinality(TailIds(a, x)) = x
<1> DEFINE P == (Len(owned[a]) + 1 - x)..Len(owned[a])
           f == [j \in P |-> owned[a][j]]
<1>1. Len(owned[a]) \in Nat /\ x \in Nat /\ P \subseteq 1..Len(owned[a])
  BY HeldIds
<1>2. TailIds(a, x) \subseteq HeldBy(a)
  BY <1>1, HeldIds DEF TailIds
<1>3. IsFiniteSet(P) /\ Cardinality(P) = x
  <2>1. Len(owned[a]) + 1 - x \in Int /\ Len(owned[a]) \in Int
    BY <1>1
  <2>2. /\ IsFiniteSet(P)
        /\ Cardinality(P) = IF Len(owned[a]) + 1 - x > Len(owned[a]) THEN 0
                            ELSE Len(owned[a]) - (Len(owned[a]) + 1 - x) + 1
    BY <2>1, FS_Interval
  <2>3. QED
    BY <1>1, <2>2
<1>4. f \in Surjection(P, TailIds(a, x))
  BY DEF Surjection, TailIds
<1>5. f \in Injection(P, TailIds(a, x))
  <2>1. ASSUME NEW i \in P, NEW j \in P, f[i] = f[j] PROVE i = j
    BY <1>1, <2>1 DEF Distinct
  <2>2. QED
    BY <1>4, <2>1 DEF Injection, Surjection, IsInjective
<1> HIDE DEF P, f
<1>6. QED
  BY <1>2, <1>3, <1>4, <1>5, FS_Surjection

\* A plan mints as many new ids as it says.
LEMMA FreshSize ==
    ASSUME ShareTypeOK, NEW p, p.mints \in Nat
    PROVE  /\ IsFiniteSet(Fresh(p)) /\ Cardinality(Fresh(p)) = p.mints
           /\ \A id \in Fresh(p) : id \in Nat /\ ~(id <= nextId)
<1> DEFINE f == [i \in 1..p.mints |-> nextId + i]
<1>1. nextId \in Nat /\ IsFiniteSet(1..p.mints) /\ Cardinality(1..p.mints) = p.mints
  <2>1. /\ IsFiniteSet(1..p.mints)
        /\ Cardinality(1..p.mints) = IF 1 > p.mints THEN 0 ELSE p.mints - 1 + 1
    BY FS_Interval
  <2>2. QED
    BY <2>1 DEF ShareTypeOK
<1>2. f \in Surjection(1..p.mints, Fresh(p))
  BY DEF Surjection, Fresh
<1>3. f \in Injection(1..p.mints, Fresh(p))
  BY <1>1, <1>2 DEF Injection, Surjection, IsInjective
<1>4. \A id \in Fresh(p) : id \in Nat /\ ~(id <= nextId)
  BY <1>1 DEF Fresh
<1> HIDE DEF f
<1>5. QED
  BY <1>1, <1>2, <1>3, <1>4, FS_Surjection

\* What is held by anybody after a good plan was executed.
LEMMA RealignLive ==
    ASSUME ShareTypeOK, Distinct, Minted, NEW p, NEW b, GoodPlan(p, b), Realign(p)
    PROVE  Live' = (Live \ TailIds(p.loser, p.moves + p.burns))
                     \cup (TailIds(p.loser, p.moves) \cup Fresh(p))
<1> DEFINE gone == TailIds(p.loser, p.moves + p.burns)
           come == TailIds(p.loser, p.moves) \cup Fresh(p)
<1>1. /\ p.loser \in Accounts /\ p.gainer \in Accounts
      /\ p.moves + p.burns \in 0..Len(owned[p.loser])
  <2>1. /\ p.moves \in Nat /\ p.burns \in Nat /\ p.loser \in Accounts /\ p.gainer \in Accounts
        /\ p.moves + p.burns <= Len(owned[p.loser])
    BY DEF GoodPlan, Shares
  <2>2. Len(owned[p.loser]) \in Nat
    BY <2>1, HeldIds
  <2>3. QED
    BY <2>1, <2>2
<1>2. gone \subseteq HeldBy(p.loser)
  BY <1>1, TailSize
<1>3. \A a \in Accounts : HeldBy(a)' = (HeldBy(a) \ (IF a = p.loser THEN gone ELSE {}))
                                         \cup (IF a = p.gainer THEN come ELSE {})
  BY RealignHeld
<1>4. Live' = UNION {HeldBy(a)' : a \in Accounts}
  BY DEF Live
<1> HIDE DEF gone, come
<1>5. ASSUME NEW id \in Live' PROVE id \in (Live \ gone) \cup come
  <2>1. PICK a \in Accounts : id \in HeldBy(a)'
    BY <1>4, <1>5
  <2>2. CASE id \in come
    BY <2>2
  <2>3. CASE id \notin come
    <3>1. id \in HeldBy(a) /\ (a = p.loser => id \notin gone)
      BY <1>3, <2>1, <2>3
    <3>2. id \notin gone
      BY <1>1, <1>2, <3>1, HeldApart
    <3>3. QED
      BY <3>1, <3>2 DEF Live
  <2>4. QED
    BY <2>2, <2>3
<1>6. ASSUME NEW id \in (Live \ gone) \cup come PROVE id \in Live'
  <2>1. CASE id \in come
    BY <1>1, <1>3, <1>4, <2>1
  <2>2. CASE id \in Live \ gone
    <3>1. PICK a \in Accounts : id \in HeldBy(a)
      BY <2>2 DEF Live
    <3>2. QED
      BY <1>3, <1>4, <2>2, <3>1
  <2>3. QED
    BY <1>6, <2>1, <2>2
<1>7. Live' = (Live \ gone) \cup come
  BY <1>5, <1>6
<1>8. QED
  BY <1>7 DEF gone, come

\* Executing a good plan keeps what is known of the ids: the denominator moves
\* with the ids burned and minted.
LEMMA RealignKeepsIds ==
    ASSUME ShareTypeOK, IdInv, NEW p, NEW b, GoodPlan(p, b), Realign(p)
    PROVE  IdInv'
<1> DEFINE gone == TailIds(p.loser, p.moves + p.burns)
           moved == TailIds(p.loser, p.moves)
           rest == Live \ gone
<1>1. /\ p.moves \in Nat /\ p.burns \in Nat /\ p.mints \in Nat /\ p.loser \in Accounts
      /\ Len(owned[p.loser]) \in Nat
      /\ p.moves \in 0..Len(owned[p.loser]) /\ p.moves + p.burns \in 0..Len(owned[p.loser])
      /\ totalShares' = totalShares - p.burns + p.mints
  <2>1. /\ p.moves \in Nat /\ p.burns \in Nat /\ p.mints \in Nat /\ p.loser \in Accounts
        /\ p.moves + p.burns <= Len(owned[p.loser])
        /\ totalShares' = totalShares - p.burns + p.mints
    BY DEF GoodPlan, Shares, Realign
  <2>2. Len(owned[p.loser]) \in Nat
    BY <2>1, HeldIds
  <2>3. QED
    BY <2>1, <2>2
<1>2. Distinct' /\ Minted'
  BY RealignKeepsPlaces DEF IdInv
<1>3. /\ IsFiniteSet(Live) /\ Cardinality(Live) \in Nat
      /\ gone \subseteq Live /\ moved \subseteq gone
      /\ IsFiniteSet(gone) /\ Cardinality(gone) = p.moves + p.burns
      /\ IsFiniteSet(moved) /\ Cardinality(moved) = p.moves
  <2>1. /\ gone \subseteq HeldBy(p.loser)
        /\ IsFiniteSet(gone) /\ Cardinality(gone) = p.moves + p.burns
        /\ IsFiniteSet(moved) /\ Cardinality(moved) = p.moves
    BY <1>1, TailSize DEF IdInv
  <2>2. gone \subseteq Live
    BY <1>1, <2>1 DEF Live
  <2>3. moved \subseteq gone
    BY <1>1 DEF TailIds
  <2>4. IsFiniteSet(Live) /\ Cardinality(Live) \in Nat
    BY HeldApart, FS_CardinalityType DEF IdInv
  <2>5. QED
    BY <2>1, <2>2, <2>3, <2>4
<1>4. IsFiniteSet(Fresh(p)) /\ Cardinality(Fresh(p)) = p.mints /\ Fresh(p) \cap Live = {}
  BY <1>1, FreshSize, HeldApart DEF IdInv
<1>5. Live' = (rest \cup moved) \cup Fresh(p)
  BY RealignLive DEF IdInv
<1> HIDE DEF gone, moved
<1>6. IsFiniteSet(rest) /\ Cardinality(rest) = Cardinality(Live) - (p.moves + p.burns)
  <2>1. Live \cap gone = gone
    BY <1>3
  <2>2. /\ IsFiniteSet(rest)
        /\ Cardinality(rest) = Cardinality(Live) - Cardinality(Live \cap gone)
    BY <1>3, FS_Difference
  <2>3. QED
    BY <1>3, <2>1, <2>2
<1>7. /\ IsFiniteSet(rest \cup moved)
      /\ Cardinality(rest \cup moved) = Cardinality(Live) - p.burns
  <2>1. Cardinality(rest \cap moved) = 0
    <3>1. rest \cap moved = {}
      BY <1>3
    <3>2. QED
      BY <3>1, FS_EmptySet
  <2> HIDE DEF rest
  <2>2. /\ IsFiniteSet(rest \cup moved)
        /\ Cardinality(rest \cup moved)
             = Cardinality(rest) + Cardinality(moved) - Cardinality(rest \cap moved)
    BY <1>3, <1>6, FS_Union
  <2>3. QED
    BY <1>1, <1>3, <1>6, <2>1, <2>2
<1>8. Cardinality(Live') = Cardinality(Live) - p.burns + p.mints
  <2>1. Cardinality((rest \cup moved) \cap Fresh(p)) = 0
    <3>1. (rest \cup moved) \cap Fresh(p) = {}
      BY <1>3, <1>4
    <3>2. QED
      BY <3>1, FS_EmptySet
  <2> DEFINE old == rest \cup moved
  <2> HIDE DEF rest, old
  <2>2. /\ Cardinality(old \cup Fresh(p))
             = Cardinality(old) + Cardinality(Fresh(p)) - Cardinality(old \cap Fresh(p))
        /\ Cardinality(old \cap Fresh(p)) = 0 /\ Live' = old \cup Fresh(p)
        /\ Cardinality(old) = Cardinality(Live) - p.burns
    BY <1>4, <1>5, <1>7, <2>1, FS_Union DEF old
  <2>3. QED
    BY <1>1, <1>3, <1>4, <2>2
<1>9. Counted'
  BY <1>1, <1>8 DEF Counted, IdInv
<1>10. QED
  BY <1>2, <1>9 DEF IdInv

\* An NFT transfer moves one id from one account to the other, and the ids stay
\* as they should.
LEMMA NFTTransferHeld ==
    ASSUME ShareTypeOK, IdInv, NEW from \in Accounts, NEW to \in Accounts,
           NEW i \in DOMAIN owned[from], ShareNFTTransfer(from, to, i)
    PROVE  /\ HeldBy(from)' = HeldBy(from) \ {owned[from][i]}
           /\ HeldBy(to)' = HeldBy(to) \cup {owned[from][i]}
           /\ \A a \in Accounts \ {from, to} : HeldBy(a)' = HeldBy(a)
           /\ Live' = Live
           /\ IdInv'
<1> DEFINE id == owned[from][i]
           n == Len(owned[from])
<1>1. /\ from # to /\ owned \in [Accounts -> Seq(1..MaxId)]
      /\ nextId' = nextId /\ totalShares' = totalShares
      /\ n \in Nat /\ i \in 1..n /\ id \in 1..MaxId
  BY DEF ShareTypeOK, ShareNFTTransfer, MayTakeShare
<1>2. /\ Len(owned[to]) \in Nat
      /\ owned'[from] = SwapPop(owned[from], i)
      /\ owned'[to] = Append(owned[to], id)
      /\ \A a \in Accounts \ {from, to} : owned'[a] = owned[a]
  BY <1>1 DEF ShareNFTTransfer
<1>3. /\ Len(owned'[from]) = n - 1 /\ DOMAIN owned'[from] = 1..(n - 1)
      /\ \A k \in 1..(n - 1) : owned'[from][k] = IF k = i THEN owned[from][n] ELSE owned[from][k]
  <2>1. \A k \in 1..n : owned[from][k] \in 1..MaxId
    BY <1>1
  <2>2. owned'[from] \in [1..(n - 1) -> 1..MaxId] /\ n - 1 \in Nat
    BY <1>1, <1>2, <2>1 DEF SwapPop
  <2>3. Len(owned'[from]) = n - 1
    BY <2>2
  <2>4. QED
    BY <1>2, <2>2, <2>3 DEF SwapPop
<1>4. /\ Len(owned'[to]) = Len(owned[to]) + 1 /\ DOMAIN owned'[to] = 1..(Len(owned[to]) + 1)
      /\ \A k \in 1..Len(owned[to]) : owned'[to][k] = owned[to][k]
      /\ owned'[to][Len(owned[to]) + 1] = id
  BY <1>1, <1>2
<1> HIDE DEF n
<1>5. /\ HeldBy(from) = {owned[from][k] : k \in 1..n}
      /\ HeldBy(to) = {owned[to][k] : k \in 1..Len(owned[to])}
  BY HeldIds DEF n
<1> HIDE DEF id
<1>6. HeldBy(to)' = HeldBy(to) \cup {id}
  <2>1. HeldBy(to)' = {owned'[to][k] : k \in 1..(Len(owned[to]) + 1)}
    BY <1>4 DEF HeldBy
  <2>2. 1..(Len(owned[to]) + 1) = 1..Len(owned[to]) \cup {Len(owned[to]) + 1}
    BY <1>2
  <2>3. QED
    BY <1>4, <1>5, <2>1, <2>2
<1>7. HeldBy(from)' = HeldBy(from) \ {id}
  <2>1. HeldBy(from)' = {owned'[from][k] : k \in 1..(n - 1)}
    BY <1>3 DEF HeldBy
  <2>2. \A k, j \in 1..n : owned[from][k] = owned[from][j] => k = j
    BY DEF IdInv, Distinct, n
  <2>3. owned[from][i] = id
    BY DEF id
  <2>4. ASSUME NEW k \in 1..(n - 1) PROVE owned'[from][k] \in HeldBy(from) \ {id}
    <3>1. CASE k = i
      <4>1. owned'[from][k] = owned[from][n] /\ n \in 1..n /\ n # i
        BY <1>1, <1>3, <3>1
      <4>2. QED
        BY <1>1, <1>5, <2>2, <2>3, <4>1
    <3>2. CASE k # i
      <4>1. owned'[from][k] = owned[from][k] /\ k \in 1..n
        BY <1>1, <1>3, <3>2
      <4>2. QED
        BY <1>1, <1>5, <2>2, <2>3, <3>2, <4>1
    <3>3. QED
      BY <3>1, <3>2
  <2>5. ASSUME NEW x \in HeldBy(from) \ {id} PROVE x \in HeldBy(from)'
    <3>1. PICK k \in 1..n : x = owned[from][k]
      BY <1>5, <2>5
    <3>2. k # i
      BY <2>3, <2>5, <3>1
    <3>3. CASE k = n
      <4>1. i \in 1..(n - 1)
        BY <1>1, <3>2, <3>3
      <4>2. owned'[from][i] = x
        BY <1>3, <3>1, <3>3, <4>1
      <4>3. QED
        BY <2>1, <4>1, <4>2
    <3>4. CASE k # n
      <4>1. k \in 1..(n - 1) /\ owned'[from][k] = x
        BY <1>1, <1>3, <3>1, <3>2, <3>4
      <4>2. QED
        BY <2>1, <4>1
    <3>5. QED
      BY <3>3, <3>4
  <2>6. QED
    BY <2>1, <2>4, <2>5
<1>8. \A a \in Accounts \ {from, to} : HeldBy(a)' = HeldBy(a)
  BY <1>2 DEF HeldBy
<1>9. id \in HeldBy(from)
  BY <1>1, <1>5 DEF id
<1>10. Live' = Live
  <2>1. Live = UNION {HeldBy(a) : a \in Accounts} /\ Live' = UNION {HeldBy(a)' : a \in Accounts}
    BY DEF Live
  <2>2. ASSUME NEW x \in Live PROVE x \in Live'
    <3>1. PICK a \in Accounts : x \in HeldBy(a)
      BY <2>1, <2>2
    <3>2. x \in HeldBy(a)' \/ x \in HeldBy(to)'
      BY <1>6, <1>7, <1>8, <3>1
    <3>3. QED
      BY <2>1, <3>2
  <2>3. ASSUME NEW x \in Live' PROVE x \in Live
    <3>1. PICK a \in Accounts : x \in HeldBy(a)'
      BY <2>1, <2>3
    <3>2. x \in HeldBy(a) \/ x \in HeldBy(from)
      BY <1>6, <1>7, <1>8, <1>9, <3>1
    <3>3. QED
      BY <2>1, <3>2
  <2>4. QED
    BY <2>2, <2>3
<1>11. ASSUME NEW a \in Accounts, NEW k \in 1..Len(owned'[a])
       PROVE  \E c \in Accounts : \E j \in 1..Len(owned[c]) :
                 /\ owned'[a][k] = owned[c][j]
                 /\ \/ a \notin {from, to} /\ c = a /\ j = k
                    \/ a = from /\ c = from /\ j = (IF k = i THEN n ELSE k) /\ j # i
                    \/ a = to /\ c = to /\ j = k /\ k <= Len(owned[to])
                    \/ a = to /\ c = from /\ j = i /\ k = Len(owned[to]) + 1
  <2>1. CASE a = from
    <3> DEFINE j == IF k = i THEN n ELSE k
    <3>1. j \in 1..n /\ j # i /\ owned'[a][k] = owned[from][j]
      BY <1>1, <1>3, <2>1
    <3>2. QED
      BY <2>1, <3>1 DEF n
  <2>2. CASE a = to /\ k <= Len(owned[to])
    <3>1. k \in 1..Len(owned[to]) /\ owned'[a][k] = owned[to][k]
      BY <1>2, <1>4, <2>2
    <3>2. QED
      BY <2>2, <3>1
  <2>3. CASE a = to /\ ~(k <= Len(owned[to]))
    <3>1. k = Len(owned[to]) + 1 /\ owned'[a][k] = owned[from][i] /\ i \in 1..Len(owned[from])
      BY <1>1, <1>2, <1>4, <2>3 DEF id, n
    <3>2. QED
      BY <2>3, <3>1
  <2>4. CASE a \notin {from, to}
    BY <1>2, <2>4
  <2>5. QED
    BY <2>1, <2>2, <2>3, <2>4
<1>12. Minted'
  <2>1. ASSUME NEW a \in Accounts, NEW k \in 1..Len(owned'[a]) PROVE owned'[a][k] <= nextId
    <3>1. \E c \in Accounts : \E j \in 1..Len(owned[c]) : owned'[a][k] = owned[c][j]
      BY <1>11
    <3>2. QED
      BY <3>1 DEF Minted, IdInv
  <2>2. QED
    BY <1>1, <2>1 DEF Minted
<1>13. Distinct'
  <2>1. ASSUME NEW a \in Accounts, NEW k \in 1..Len(owned'[a]),
               NEW c \in Accounts, NEW j \in 1..Len(owned'[c]), owned'[a][k] = owned'[c][j]
        PROVE  a = c /\ k = j
    <3> DEFINE From(q, m, d, x) ==
                 /\ owned'[q][m] = owned[d][x]
                 /\ \/ q \notin {from, to} /\ d = q /\ x = m
                    \/ q = from /\ d = from /\ x = (IF m = i THEN n ELSE m) /\ x # i
                    \/ q = to /\ d = to /\ x = m /\ m <= Len(owned[to])
                    \/ q = to /\ d = from /\ x = i /\ m = Len(owned[to]) + 1
    <3>1. \E d \in Accounts : \E x \in 1..Len(owned[d]) : From(a, k, d, x)
      BY <1>11
    <3>2. \E e \in Accounts : \E y \in 1..Len(owned[e]) : From(c, j, e, y)
      BY <1>11
    <3>3. a = from => k # n
      BY <1>1, <1>3
    <3>4. c = from => j # n
      BY <1>1, <1>3
    <3>5. ASSUME NEW d \in Accounts, NEW x \in 1..Len(owned[d]), From(a, k, d, x),
                 NEW e \in Accounts, NEW y \in 1..Len(owned[e]), From(c, j, e, y)
          PROVE  a = c /\ k = j
      <4>1. d = e /\ x = y
        <5>1. owned[d][x] = owned[e][y]
          BY <2>1, <3>5
        <5> HIDE DEF From
        <5>2. QED
          BY <5>1 DEF IdInv, Distinct
      <4>2. QED
        BY <1>1, <1>2, <3>3, <3>4, <3>5, <4>1
    <3>6. QED
      BY <3>1, <3>2, <3>5
  <2>2. QED
    BY <2>1 DEF Distinct
<1>14. Counted'
  BY <1>1, <1>10 DEF Counted, IdInv
<1>15. QED
  BY <1>6, <1>7, <1>8, <1>10, <1>12, <1>13, <1>14 DEF IdInv, id

-----------------------------------------------------------------------------
(* The steps.                                                              *)

\* Every transfer keeps the inductive invariant.
LEMMA TransferKeepsIInv ==
    ASSUME IInv, NEW from \in Accounts, NEW to \in Accounts, NEW amount \in Amounts,
           ShareTransfer(from, to, amount)
    PROVE  IInv'
<1> DEFINE paid == Paid(bal, from, to, amount)
           p == TransferPlan(from, to, amount)
<1>1. amount \in Nat /\ amount <= bal[from]
  BY DEF ShareTransfer
<1>2. GoodPlan(p, paid)
  BY <1>1, TransferPlanGood
<1>3. paid \in [Accounts -> Nat]
  BY <1>1 DEF Paid, IInv, ShareTypeOK
<1>4. Realign(p) /\ (bal' = paid \/ bal' \in AfterPoke(paid))
  BY DEF ShareTransfer
<1> HIDE DEF paid, p
<1>5. bal' \in [Accounts -> Nat] /\ \A u \in Users : bal'[u] = paid[u]
  BY <1>3, <1>4, PokeBalances
<1>6. QED
  BY <1>2, <1>4, <1>5, RealignKeepsIInv

\* Every sync keeps the inductive invariant.
LEMMA SyncKeepsIInv ==
    ASSUME IInv, NEW user \in Accounts, NEW max \in Amounts, ShareSync(user, max)
    PROVE  IInv'
<1> DEFINE p == SyncPlan(user, max)
<1>1. user \in Users /\ max \in Nat
  BY DEF ShareSync, Users
<1>2. GoodPlan(p, bal)
  BY <1>1, SyncPlanGood
<1>3. Realign(p) /\ (bal' = bal \/ bal' \in AfterPoke(bal))
  BY DEF ShareSync
<1> HIDE DEF p
<1>4. bal \in [Accounts -> Nat]
  BY DEF IInv, ShareTypeOK
<1>5. bal' \in [Accounts -> Nat] /\ \A u \in Users : bal'[u] = bal[u]
  BY <1>3, <1>4, PokeBalances
<1>6. QED
  BY <1>2, <1>3, <1>5, RealignKeepsIInv

\* Every NFT transfer keeps the inductive invariant: a share and the UNIT
\* behind it leave together.
LEMMA NFTTransferKeepsIInv ==
    ASSUME IInv, NEW from \in Accounts, NEW to \in Accounts,
           NEW i \in DOMAIN owned[from], ShareNFTTransfer(from, to, i)
    PROVE  IInv'
<1> DEFINE S == Seq(1..MaxId)
           s == SwapPop(owned[from], i)
           t == Append(owned[to], owned[from][i])
<1>1. /\ bal \in [Accounts -> Nat] /\ owned \in [Accounts -> S]
      /\ to \in Users /\ from # to /\ UNIT <= bal[from] /\ i \in 1..Len(owned[from])
  BY DEF IInv, ShareTypeOK, ShareNFTTransfer, MayTakeShare, Users
<1>2. from \in Users
  BY <1>1 DEF IInv, ExcludedHoldNothing, Users
<1>3. s \in S /\ Len(s) = Len(owned[from]) - 1
  <2>1. owned[from] \in S /\ Len(owned[from]) \in Nat /\ Len(owned[from]) >= 1
    BY <1>1
  <2>2. \A q \in S : Len(q) >= 1 =>
          SwapPop(q, i) \in S /\ Len(SwapPop(q, i)) = Len(q) - 1
    BY DEF SwapPop
  <2>3. QED
    BY <2>1, <2>2
<1>4. t \in S /\ Len(t) = Len(owned[to]) + 1
  <2>1. /\ owned[from] \in S /\ owned[to] \in S
        /\ owned[from][i] \in 1..MaxId
    BY <1>1
  <2> HIDE DEF s
  <2>2. QED
    BY <2>1
<1>5. /\ owned' \in [Accounts -> S]
      /\ owned'[from] = s /\ owned'[to] = t
      /\ \A a \in Accounts \ {from, to} : owned'[a] = owned[a]
  <2>1. owned' = [owned EXCEPT ![from] = s, ![to] = t]
    BY DEF ShareNFTTransfer
  <2> HIDE DEF S, s, t
  <2>2. QED
    BY <1>1, <1>3, <1>4, <2>1
<1>6. /\ bal' \in [Accounts -> Nat]
      /\ bal'[from] = bal[from] - UNIT /\ bal'[to] = bal[to] + UNIT
      /\ \A a \in Accounts \ {from, to} : bal'[a] = bal[a]
  <2>1. bal' = [a \in Accounts |-> bal[a] - (IF a = from THEN UNIT ELSE 0)
                                         + (IF a = to THEN UNIT ELSE 0)]
    BY DEF ShareNFTTransfer, Paid
  <2>2. \A a \in Accounts : bal[a] \in Nat
    BY <1>1
  <2>3. /\ bal'[from] = bal[from] - UNIT /\ bal'[to] = bal[to] + UNIT
        /\ \A a \in Accounts \ {from, to} : bal'[a] = bal[a]
    <3>1. from # to /\ UNIT \in Nat
      BY <1>1
    <3>2. /\ bal'[from] = bal[from] - UNIT + 0
          /\ bal'[to] = bal[to] - 0 + UNIT
          /\ \A a \in Accounts \ {from, to} : bal'[a] = bal[a] - 0 + 0
      BY <2>1, <3>1
    <3>3. QED
      BY <2>2, <3>1, <3>2
  <2>4. \A a \in Accounts : bal'[a] \in Nat
    <3>1. bal[from] \in Nat /\ bal[to] \in Nat /\ UNIT \in Nat /\ UNIT <= bal[from]
      BY <1>1, <2>2
    <3>2. bal'[from] \in Nat /\ bal'[to] \in Nat
      BY <2>3, <3>1
    <3>3. QED
      BY <2>2, <2>3, <3>2
  <2>5. QED
    BY <2>1, <2>3, <2>4
<1> HIDE DEF s, t
<1>7. ShareTypeOK'
  <2>1. nextId' \in 0..MaxId /\ totalShares' \in Int
    BY DEF IInv, ShareTypeOK, ShareNFTTransfer
  <2>2. QED
    BY <1>5, <1>6, <2>1 DEF ShareTypeOK
<1>8. ExcludedHoldNothing'
  BY <1>1, <1>2, <1>5 DEF IInv, ExcludedHoldNothing, Users
<1>9. NoUnbackedShares'
  <2>1. ASSUME NEW a \in Accounts
        PROVE  Len(owned'[a]) <= Whole(bal'[a])
    <3>1. Len(owned[a]) \in Nat /\ Len(owned[a]) <= Whole(bal[a]) /\ Whole(bal[a]) \in Nat
      <4>1. bal[a] \in Nat /\ owned[a] \in S
        BY <1>1
      <4>2. Whole(bal[a]) \in Nat
        BY <4>1, WholeNat
      <4>3. Len(owned[a]) \in Nat
        BY <4>1
      <4>4. QED
        BY <4>2, <4>3 DEF IInv, NoUnbackedShares, Shares
    <3>2. /\ bal[a] \in Nat
          /\ Whole(bal[a] + UNIT) = Whole(bal[a]) + 1
          /\ UNIT <= bal[a] => Whole(bal[a] - UNIT) = Whole(bal[a]) - 1
      BY <1>1, WholeUnit
    <3>3. CASE a = from
      BY <1>1, <1>3, <1>5, <1>6, <3>1, <3>2, <3>3
    <3>4. CASE a = to
      BY <1>1, <1>4, <1>5, <1>6, <3>1, <3>2, <3>4
    <3>5. CASE a \notin {from, to}
      BY <1>5, <1>6, <3>1, <3>5
    <3>6. QED
      BY <3>3, <3>4, <3>5
  <2>2. QED
    BY <2>1 DEF NoUnbackedShares, Shares, Whole
<1>10. QED
  BY <1>7, <1>8, <1>9 DEF IInv

\* Balances may move between excluded accounts.
LEMMA BalancesKeepIInv ==
    ASSUME IInv, bal' \in [Accounts -> Nat], \A u \in Users : bal'[u] = bal[u],
           UNCHANGED <<owned, nextId, totalShares>>
    PROVE  IInv'
<1>1. bal' \in [Accounts -> Nat] /\ \A u \in Users : bal'[u] = bal[u]
  OBVIOUS
<1>2. owned' = owned /\ nextId' = nextId /\ totalShares' = totalShares
  OBVIOUS
<1>3. \A a \in Excluded : Shares(a) = 0
  BY DEF IInv, ExcludedHoldNothing, Shares
<1>4. \A a \in Accounts : Len(owned[a]) <= bal'[a] \div UNIT
  <2>1. \A a \in Accounts : bal'[a] \div UNIT \in Nat
    BY <1>1, WholeNat DEF Whole
  <2>2. \A a \in Accounts : Len(owned[a]) <= bal[a] \div UNIT
    BY DEF IInv, NoUnbackedShares, Shares, Whole
  <2>3. ASSUME NEW a \in Users PROVE Len(owned[a]) <= bal'[a] \div UNIT
    BY <1>1, <2>2, <2>3 DEF Users
  <2>4. ASSUME NEW a \in Excluded PROVE Len(owned[a]) <= bal'[a] \div UNIT
    BY <1>3, <2>1, <2>4 DEF Shares
  <2>5. QED
    BY <2>3, <2>4 DEF Users
<1>5. QED
  BY <1>1, <1>2, <1>4
  DEF IInv, ShareTypeOK, NoUnbackedShares, ExcludedHoldNothing, Shares, Whole

\* A poke keeps the inductive invariant.
LEMMA PokeKeepsIInv ==
    ASSUME IInv, SharePoke
    PROVE  IInv'
<1>1. bal' \in [Accounts -> Nat] /\ \A u \in Users : bal'[u] = bal[u]
  BY PokeBalances DEF SharePoke, IInv, ShareTypeOK
<1>2. QED
  BY <1>1, BalancesKeepIInv DEF SharePoke

\* At construction nobody holds a share.
LEMMA InitGood == ShareInit => IInv /\ IdInv
<1> SUFFICES ASSUME ShareInit PROVE IInv /\ IdInv
  OBVIOUS
<1>1. ShareTypeOK /\ \A a \in Accounts : Len(owned[a]) = 0 /\ HeldBy(a) = {}
  BY DEF ShareInit, ShareTypeOK, HeldBy
<1>2. ASSUME NEW a \in Accounts PROVE 0 <= Whole(bal[a])
  BY <1>1, WholeNat DEF ShareTypeOK
<1>3. IInv
  BY <1>1, <1>2 DEF ShareInit, IInv, NoUnbackedShares, ExcludedHoldNothing, Shares
<1>4. Live = {} /\ totalShares = 0
  BY <1>1 DEF Live, ShareInit
<1>5. IdInv
  BY <1>1, <1>4, FS_EmptySet DEF IdInv, Distinct, Minted, Counted
<1>6. QED
  BY <1>3, <1>5

\* What is held does not depend on balances.
LEMMA SameShares ==
    ASSUME UNCHANGED <<owned, nextId, totalShares>>
    PROVE  /\ Live' = Live
           /\ \A a : HeldBy(a)' = HeldBy(a)
           /\ IdInv => IdInv'
<1>1. Live' = Live /\ \A a : HeldBy(a)' = HeldBy(a)
  BY DEF Live, HeldBy
<1>2. IdInv => IdInv'
  BY <1>1 DEF IdInv, Distinct, Minted, Counted
<1>3. QED
  BY <1>1, <1>2

-----------------------------------------------------------------------------
(* The theorems.                                                           *)

\* The inductive invariant holds in every reachable state: at construction
\* nobody holds a share, and every step keeps it.
THEOREM Inductive == ShareSpec => []IInv
<1>1. ShareInit => IInv
  BY InitGood
<1>2. IInv /\ [ShareNext]_shareVars => IInv'
  <2> SUFFICES ASSUME IInv, [ShareNext]_shareVars PROVE IInv'
    OBVIOUS
  <2>1. ASSUME NEW from \in Accounts, NEW to \in Accounts, NEW amount \in Amounts,
               ShareTransfer(from, to, amount)
        PROVE  IInv'
    BY <2>1, TransferKeepsIInv
  <2>2. ASSUME NEW user \in Accounts, NEW max \in Amounts, ShareSync(user, max)
        PROVE  IInv'
    BY <2>2, SyncKeepsIInv
  <2>3. ASSUME NEW from \in Accounts, NEW to \in Accounts,
               NEW i \in DOMAIN owned[from], ShareNFTTransfer(from, to, i)
        PROVE  IInv'
    BY <2>3, NFTTransferKeepsIInv
  <2>4. CASE SharePoke
    BY <2>4, PokeKeepsIInv
  <2>5. CASE UNCHANGED shareVars
    BY <2>5 DEF shareVars, IInv, ShareTypeOK, NoUnbackedShares, ExcludedHoldNothing,
                Shares, Whole
  <2>6. QED
    BY <2>1, <2>2, <2>3, <2>4, <2>5 DEF ShareNext
<1>3. QED
  BY <1>1, <1>2, PTL DEF ShareSpec

\* Balances stay natural and owned arrays hold minted ids (checked subtraction
\* in solady never reverts a transfer the guard admits).
THEOREM TypesCorrect == ShareSpec => []ShareTypeOK
BY Inductive, PTL DEF IInv

\* The main result: whatever calls are made, by whom and in which order, no
\* account ever holds more fee-shares than whole tokens.
THEOREM Backed == ShareSpec => []NoUnbackedShares
BY Inductive, PTL DEF IInv

\* No call ever leaves a fee-share on an address of the exclusion set.
THEOREM NothingParked == ShareSpec => []ExcludedHoldNothing
BY Inductive, PTL DEF IInv

\* No id is ever held twice, every id held was minted, and the denominator of
\* fee distribution is the number of shares anybody holds (totalShares is
\* changed apart from the arrays, in _mintNFT and _burnNFT).
THEOREM DenominatorCounts == ShareSpec => []IdInv
<1>1. ShareInit => IdInv
  BY InitGood
<1>2. IInv /\ IdInv /\ [ShareNext]_shareVars => IdInv'
  <2> SUFFICES ASSUME IInv, IdInv, [ShareNext]_shareVars PROVE IdInv'
    OBVIOUS
  <2>1. ShareTypeOK
    BY DEF IInv
  <2>2. ASSUME NEW from \in Accounts, NEW to \in Accounts, NEW amount \in Amounts,
               ShareTransfer(from, to, amount)
        PROVE  IdInv'
    <3>1. /\ GoodPlan(TransferPlan(from, to, amount), Paid(bal, from, to, amount))
          /\ Realign(TransferPlan(from, to, amount))
      BY <2>2, TransferPlanGood DEF ShareTransfer
    <3>2. QED
      BY <2>1, <3>1, RealignKeepsIds
  <2>3. ASSUME NEW user \in Accounts, NEW max \in Amounts, ShareSync(user, max)
        PROVE  IdInv'
    <3>1. GoodPlan(SyncPlan(user, max), bal) /\ Realign(SyncPlan(user, max))
      BY <2>3, SyncPlanGood DEF ShareSync, Users
    <3>2. QED
      BY <2>1, <3>1, RealignKeepsIds
  <2>4. ASSUME NEW from \in Accounts, NEW to \in Accounts,
               NEW i \in DOMAIN owned[from], ShareNFTTransfer(from, to, i)
        PROVE  IdInv'
    BY <2>1, <2>4, NFTTransferHeld
  <2>5. CASE SharePoke \/ UNCHANGED shareVars
    BY <2>5, SameShares DEF SharePoke, shareVars
  <2>6. QED
    BY <2>2, <2>3, <2>4, <2>5 DEF ShareNext
<1>3. QED
  BY <1>1, <1>2, Inductive, PTL DEF ShareSpec

-----------------------------------------------------------------------------
(* The action properties.                                                  *)

\* The numbers of a holder.
LEMMA HolderNumbers ==
    ASSUME ShareTypeOK, NEW u \in Users
    PROVE  /\ u \in Accounts /\ bal[u] \in Nat
           /\ Whole(bal[u]) \in Nat /\ Shares(u) \in Nat
           /\ Gap(u) \in Int
<1>1. u \in Accounts
  BY DEF Users
<1>2. bal[u] \in Nat /\ Len(owned[u]) \in Nat
  BY <1>1 DEF ShareTypeOK
<1>3. Whole(bal[u]) \in Nat
  BY <1>2, WholeNat
<1>4. QED
  BY <1>1, <1>2, <1>3 DEF Shares, Gap

\* What a step does to the holders, in one formula.
Mirrored ==
    /\ \A u \in Users : Gap(u)' > Gap(u) => nextId' - nextId = MaxRealign
    /\ \A u \in Users : Shares(u)' < Shares(u) => bal'[u] < bal[u]

LEMMA TransferMirrors ==
    ASSUME IInv, NEW from \in Accounts, NEW to \in Accounts, NEW amount \in Amounts,
           ShareTransfer(from, to, amount)
    PROVE  Mirrored
<1> DEFINE paid == Paid(bal, from, to, amount)
           p == TransferPlan(from, to, amount)
<1>1. amount \in Nat /\ amount <= bal[from]
  BY DEF ShareTransfer
<1>2. GoodPlan(p, paid)
  BY <1>1, TransferPlanGood
<1>3. paid \in [Accounts -> Nat]
  BY <1>1 DEF Paid, IInv, ShareTypeOK
<1>4. Realign(p) /\ (bal' = paid \/ bal' \in AfterPoke(paid))
  BY DEF ShareTransfer
<1>5. /\ \A u \in Users :
           \/ p.mints = MaxRealign
           \/ Whole(paid[u]) - SharesAfter(p, u) <= Whole(bal[u]) - Shares(u)
      /\ \A u \in Users : SharesAfter(p, u) < Shares(u) => paid[u] < bal[u]
  BY <1>1, TransferPlanMirrors
<1> HIDE DEF paid, p
<1>6. \A u \in Users : bal'[u] = paid[u]
  BY <1>3, <1>4, PokeBalances
<1>7. \A u \in Users : Shares(u)' = SharesAfter(p, u)
  BY <1>2, <1>4, RealignArrays DEF IInv, Shares, Users
<1>8. nextId' = nextId + p.mints /\ nextId \in Nat /\ p.mints \in Nat
  BY <1>2, <1>4 DEF Realign, IInv, ShareTypeOK, GoodPlan
<1>9. nextId' - nextId = p.mints /\ (nextId' > nextId <=> p.mints > 0)
  BY <1>8
<1>10. ASSUME NEW u \in Users, Gap(u)' > Gap(u) PROVE nextId' - nextId = MaxRealign
  <2>1. Gap(u)' = Whole(paid[u]) - SharesAfter(p, u)
    BY <1>6, <1>7 DEF Gap, Whole
  <2>2. Gap(u) = Whole(bal[u]) - Shares(u) /\ Gap(u) \in Int
    BY HolderNumbers DEF Gap, IInv
  <2>3. SharesAfter(p, u) \in Int /\ Whole(paid[u]) \in Int
    BY <1>2, <1>3, HolderNumbers, WholeNat DEF SharesAfter, GoodPlan, IInv
  <2>4. ~(Whole(paid[u]) - SharesAfter(p, u) <= Whole(bal[u]) - Shares(u))
    BY <1>10, <2>1, <2>2, <2>3
  <2>5. QED
    BY <1>5, <1>9, <2>4
<1>11. QED
  BY <1>5, <1>6, <1>7, <1>9, <1>10 DEF Mirrored

LEMMA SyncMirrors ==
    ASSUME IInv, NEW user \in Accounts, NEW max \in Amounts, ShareSync(user, max)
    PROVE  Mirrored
<1> DEFINE p == SyncPlan(user, max)
<1>1. user \in Users /\ max \in Nat
  BY DEF ShareSync, Users
<1>2. GoodPlan(p, bal)
  BY <1>1, SyncPlanGood
<1>3. Realign(p) /\ (bal' = bal \/ bal' \in AfterPoke(bal))
  BY DEF ShareSync
<1>4. p.moves = 0 /\ p.burns = 0 /\ p.mints \in Nat
  BY <1>2 DEF SyncPlan, GoodPlan
<1> HIDE DEF p
<1>5. bal \in [Accounts -> Nat] /\ \A u \in Users : bal'[u] = bal[u]
  BY <1>3, PokeBalances DEF IInv, ShareTypeOK
<1>6. \A u \in Users : Shares(u) \in Nat /\ Whole(bal[u]) \in Nat
  BY HolderNumbers DEF IInv
<1>7. \A u \in Users : Shares(u)' = SharesAfter(p, u)
  BY <1>2, <1>3, RealignArrays DEF IInv, Shares, Users
<1>8. \A u \in Users : Shares(u)' >= Shares(u) /\ Shares(u)' \in Nat
  BY <1>4, <1>6, <1>7 DEF SharesAfter
<1>9. \A u \in Users : ~(Gap(u)' > Gap(u)) /\ ~(Shares(u)' < Shares(u))
  BY <1>5, <1>6, <1>8 DEF Gap, Whole
<1>10. QED
  BY <1>1, <1>9 DEF Mirrored

LEMMA NFTTransferMirrors ==
    ASSUME IInv, NEW from \in Accounts, NEW to \in Accounts,
           NEW i \in DOMAIN owned[from], ShareNFTTransfer(from, to, i)
    PROVE  Mirrored
<1>1. /\ bal \in [Accounts -> Nat] /\ owned \in [Accounts -> Seq(1..MaxId)]
      /\ from # to /\ UNIT <= bal[from] /\ nextId' = nextId /\ nextId \in Nat
  BY DEF IInv, ShareTypeOK, ShareNFTTransfer, MayTakeShare
<1>2. /\ Len(owned'[from]) = Len(owned[from]) - 1
      /\ Len(owned'[to]) = Len(owned[to]) + 1
      /\ \A a \in Accounts \ {from, to} : owned'[a] = owned[a]
  BY <1>1 DEF ShareNFTTransfer, SwapPop
<1>3. /\ bal'[from] = bal[from] - UNIT
      /\ bal'[to] = bal[to] + UNIT
      /\ \A a \in Accounts \ {from, to} : bal'[a] = bal[a]
  <2>1. bal' = Paid(bal, from, to, UNIT)
    BY DEF ShareNFTTransfer
  <2>2. bal \in [Accounts -> Nat] /\ UNIT \in Nat /\ UNIT <= bal[from] /\ from # to
    BY <1>1
  <2>3. /\ Paid(bal, from, to, UNIT)[from] = bal[from] - UNIT
        /\ Paid(bal, from, to, UNIT)[to] = bal[to] + UNIT
        /\ \A a \in Accounts \ {from, to} : Paid(bal, from, to, UNIT)[a] = bal[a]
    BY ONLY <2>2, from \in Accounts, to \in Accounts, PaidBalances
  <2>4. QED
    BY <2>1, <2>3, Zenon
<1>4. ASSUME NEW u \in Users
      PROVE  /\ Gap(u)' = Gap(u)
             /\ Shares(u)' < Shares(u) => bal'[u] < bal[u]
  <2>1. bal[u] \in Nat /\ Len(owned[u]) \in Nat /\ Whole(bal[u]) \in Nat
    BY HolderNumbers DEF IInv, Shares
  <2>2. CASE u = from
    <3>1. Whole(bal[u] - UNIT) = Whole(bal[u]) - 1
      BY <1>1, <2>1, <2>2, WholeUnit
    <3>2. /\ Gap(u)' = Whole(bal[u] - UNIT) - (Len(owned[u]) - 1)
          /\ bal'[u] = bal[u] - UNIT
      BY <1>2, <1>3, <2>2 DEF Gap, Shares, Whole
    <3>3. QED
      BY <2>1, <3>1, <3>2 DEF Gap, Shares
  <2>3. CASE u = to
    <3>1. Whole(bal[u] + UNIT) = Whole(bal[u]) + 1
      BY <2>1, WholeUnit
    <3>2. /\ Gap(u)' = Whole(bal[u] + UNIT) - (Len(owned[u]) + 1)
          /\ Shares(u)' = Len(owned[u]) + 1
      BY <1>2, <1>3, <2>3 DEF Gap, Shares, Whole
    <3>3. QED
      BY <2>1, <3>1, <3>2 DEF Gap, Shares
  <2>4. CASE u \notin {from, to}
    BY <1>2, <1>3, <2>1, <2>4 DEF Gap, Shares, Whole, Users
  <2>5. QED
    BY <2>2, <2>3, <2>4
<1>5. \A u \in Users : Gap(u) \in Int
  BY HolderNumbers DEF IInv
<1>6. QED
  BY <1>1, <1>4, <1>5 DEF Mirrored

\* Every step mirrors.
LEMMA StepMirrors ==
    ASSUME IInv, [ShareNext]_shareVars
    PROVE  Mirrored
<1>1. ASSUME NEW from \in Accounts, NEW to \in Accounts, NEW amount \in Amounts,
             ShareTransfer(from, to, amount)
      PROVE  Mirrored
  BY <1>1, TransferMirrors
<1>2. ASSUME NEW user \in Accounts, NEW max \in Amounts, ShareSync(user, max)
      PROVE  Mirrored
  BY <1>2, SyncMirrors
<1>3. ASSUME NEW from \in Accounts, NEW to \in Accounts,
             NEW i \in DOMAIN owned[from], ShareNFTTransfer(from, to, i)
      PROVE  Mirrored
  BY <1>3, NFTTransferMirrors
<1>4. CASE SharePoke \/ UNCHANGED shareVars
  <2>1. /\ owned' = owned /\ nextId' = nextId /\ nextId \in Nat
        /\ \A u \in Users : bal'[u] = bal[u]
    <3>1. bal \in [Accounts -> Nat] /\ nextId \in Nat
      BY DEF IInv, ShareTypeOK
    <3>2. CASE SharePoke
      BY <3>1, <3>2, PokeBalances DEF SharePoke
    <3>3. CASE UNCHANGED shareVars
      BY <3>1, <3>3 DEF shareVars
    <3>4. QED
      BY <1>4, <3>2, <3>3
  <2>2. \A u \in Users : Gap(u) \in Int /\ Shares(u) \in Nat
    BY HolderNumbers DEF IInv
  <2>3. QED
    BY <2>1, <2>2 DEF Mirrored, Gap, Shares, Whole
<1>5. QED
  BY <1>1, <1>2, <1>3, <1>4 DEF ShareNext

\* A holder falls behind its balance only in a call that minted the cap.
THEOREM GapsClose == ShareSpec => GapGrowsOnlyAtCap
<1>1. IInv /\ [ShareNext]_shareVars =>
        [\A u \in Users : Gap(u)' > Gap(u) => nextId' - nextId = MaxRealign]_shareVars
  BY StepMirrors DEF Mirrored
<1>2. QED
  BY <1>1, Inductive, PTL DEF ShareSpec, GapGrowsOnlyAtCap

\* Shares are taken from a holder only together with balance.
THEOREM SharesFollowBalance == ShareSpec => SharesFallOnlyWithBalance
<1>1. IInv /\ [ShareNext]_shareVars =>
        [\A u \in Users : Shares(u)' < Shares(u) => bal'[u] < bal[u]]_shareVars
  BY StepMirrors DEF Mirrored
<1>2. QED
  BY <1>1, Inductive, PTL DEF ShareSpec, SharesFallOnlyWithBalance

\* What a transfer mints is within the whole tokens it brought its recipient.
LEMMA TransferMints ==
    ASSUME IInv, NEW from \in Accounts, NEW to \in Accounts, NEW amount \in Amounts,
           ShareTransfer(from, to, amount), nextId' > nextId
    PROVE  to \in Users /\ nextId' - nextId <= Whole(bal'[to]) - Whole(bal[to])
<1> DEFINE paid == Paid(bal, from, to, amount)
           p == TransferPlan(from, to, amount)
<1>1. amount \in Nat /\ amount <= bal[from]
  BY DEF ShareTransfer
<1>2. GoodPlan(p, paid)
  BY <1>1, TransferPlanGood
<1>3. paid \in [Accounts -> Nat]
  BY <1>1 DEF Paid, IInv, ShareTypeOK
<1>4. Realign(p) /\ (bal' = paid \/ bal' \in AfterPoke(paid))
  BY DEF ShareTransfer
<1>5. p.mints > 0 => to \in Users /\ p.mints <= Whole(paid[to]) - Whole(bal[to])
  BY <1>1, TransferPlanMirrors
<1> HIDE DEF paid, p
<1>6. \A u \in Users : bal'[u] = paid[u]
  BY <1>3, <1>4, PokeBalances
<1>7. nextId' = nextId + p.mints /\ nextId \in Nat /\ p.mints \in Nat
  BY <1>2, <1>4 DEF Realign, IInv, ShareTypeOK, GoodPlan
<1>8. nextId' - nextId = p.mints /\ p.mints > 0
  BY <1>7
<1>9. QED
  BY <1>5, <1>6, <1>8

\* No transfer mints more shares than the whole tokens it brought to its
\* recipient: none with a zero amount and none to oneself (mintBudget).
THEOREM MintsAreCrossings == ShareSpec => MintsNeedACrossing
<1>1. IInv /\ [ShareNext]_shareVars =>
        [nextId' > nextId =>
           \A from \in Accounts \ {Sink}, to \in Accounts, amount \in Amounts :
              ShareTransfer(from, to, amount) =>
                 /\ to \in Users
                 /\ nextId' - nextId <= Whole(bal'[to]) - Whole(bal[to])]_shareVars
  BY TransferMints
<1>2. QED
  BY <1>1, Inductive, PTL DEF ShareSpec, MintsNeedACrossing

(***************************************************************************)
(* Part 2.  PrismHook.                                                     *)
(***************************************************************************)

\* What a share accrued on leg l since its checkpoint, times Scale.
Accrued(l) == [id \in Ids |-> acc[l] - debt[l][id]]

\* The reserve covers pending balances and accrued amounts before rounding.
Funded ==
    \A l \in Legs :
       Scale * AllPending(l) + SumFunctionOnSet(Accrued(l), Live) <= Scale * Reserve(l)

\* No checkpoint runs ahead of its accumulator, those of dead ids included.
Behind == \A l \in Legs, id \in Ids : debt[l][id] <= acc[l]

\* The pool has the fees it owes the position.
FeesHeld == fees["PRISM"] <= bal[Pool]

\* Before the seed there is nothing to distribute.
NothingYet ==
    ~seeded => /\ eth = 0
               /\ \A l \in Legs : /\ fees[l] = 0 /\ acc[l] = 0
                                  /\ \A a \in Accounts : pending[l][a] = 0

\* Whenever nobody holds a share the next collection is forfeited.
ForfeitReady == seeded /\ totalShares = 0 => forfeit

\* The ids minted in this transaction are those the quarantine names.
QuarantineIsTx == IF lo = 0 THEN before = nextId ELSE lo = before + 1

HInv == /\ IInv /\ IdInv /\ TypeOK
        /\ Behind /\ FeesHeld /\ NothingYet
        /\ ForfeitReady /\ OrphansForfeited
        /\ QuarantineIsTx /\ Funded

USE ConstantsAssumption, HookAssumption DEF ConstantsAssumption, HookAssumption

-----------------------------------------------------------------------------
(* Arithmetic.                                                             *)

\* Rounding down loses, it never gains.
LEMMA RoundDown ==
    ASSUME NEW x \in Nat, NEW d \in Nat \ {0}
    PROVE  x \div d \in Nat /\ d * (x \div d) <= x
OBVIOUS

\* A quotient by the larger of two numbers is no larger than what was multiplied
\* by the smaller.
LEMMA PartOf ==
    ASSUME NEW x \in Nat, NEW d \in Nat \ {0}, NEW n \in 0..d
    PROVE  (x * n) \div d \in Nat /\ (x * n) \div d <= x
<1> DEFINE y == x * n
<1>1. y \in Nat /\ y <= x * d /\ x * d \in Nat
  OBVIOUS
<1>2. y \div d \in Nat /\ d * (y \div d) <= y
  <2> HIDE DEF y
  <2>1. QED
    BY <1>1, RoundDown
<1> HIDE DEF y
<1>3. ASSUME NEW q \in Nat, d * q <= x * d PROVE q <= x
  <2>1. SUFFICES ASSUME q >= x + 1 PROVE FALSE
    OBVIOUS
  <2>2. d * q >= d * (x + 1)
    BY <2>1
  <2>3. d * (x + 1) = x * d + d
    OBVIOUS
  <2>4. QED
    BY <1>3, <2>2, <2>3
<1>4. d * (y \div d) <= x * d
  BY <1>1, <1>2
<1>5. y \div d <= x
  BY <1>2, <1>3, <1>4
<1>6. QED
  BY <1>2, <1>5 DEF y

-----------------------------------------------------------------------------
(* Collection.                                                             *)

\* What backs the promises of leg l when balances are b and the ETH is e.
ReserveAt(l, b, e) == IF l = "ETH" THEN e ELSE b[Hook]

\* A poke outcome p that starts from balances b the users keep, loses nothing
\* and adds to the accumulators no more than the shares of the denominator can
\* be paid from what came in.
GoodPoke(p, b) ==
    /\ b \in [Accounts -> Nat]
    /\ p.bal \in [Accounts -> Nat] /\ \A u \in Users : p.bal[u] = b[u]
    /\ p.fees \in [Legs -> Nat] /\ p.fees["PRISM"] <= p.bal[Pool]
    /\ p.acc \in [Legs -> Nat] /\ \A l \in Legs : acc[l] <= p.acc[l]
    /\ p.eth \in Nat
    /\ p.forfeit \in BOOLEAN /\ p.orphaned \in BOOLEAN
    /\ p.orphaned => p.forfeit
    /\ totalShares = 0 => p.forfeit = forfeit
    /\ ~seeded => p.eth = eth /\ p.fees = fees /\ p.acc = acc
    /\ \A l \in Legs : /\ ReserveAt(l, b, eth) <= ReserveAt(l, p.bal, p.eth)
                       /\ totalShares * (p.acc[l] - acc[l])
                            <= Scale * (ReserveAt(l, p.bal, p.eth) - ReserveAt(l, b, eth))

\* Every poke is good.
LEMMA PokeGood ==
    ASSUME HInv, NEW b \in [Accounts -> Nat], fees["PRISM"] <= b[Pool], NEW p \in Poked(b)
    PROVE  GoodPoke(p, b)
<1>1. /\ fees \in [Legs -> Nat] /\ acc \in [Legs -> Nat] /\ eth \in Nat
      /\ forfeit \in BOOLEAN /\ orphaned \in BOOLEAN /\ (orphaned => forfeit)
      /\ totalShares \in Int
  BY DEF HInv, TypeOK, OrphansForfeited, IInv, ShareTypeOK
<1>2. CASE p = Unpoked(b)
  <2>1. /\ p.bal = b /\ p.eth = eth /\ p.fees = fees /\ p.acc = acc /\ p.forfeit = forfeit
        /\ p.orphaned = orphaned
    BY <1>2 DEF Unpoked
  <2>2. \A l \in Legs : ReserveAt(l, b, eth) \in Nat
    BY <1>1 DEF ReserveAt
  <2>3. \A l \in Legs : /\ ReserveAt(l, b, eth) <= ReserveAt(l, p.bal, p.eth)
                        /\ totalShares * (p.acc[l] - acc[l])
                             <= Scale * (ReserveAt(l, p.bal, p.eth) - ReserveAt(l, b, eth))
    <3>1. ASSUME NEW l \in Legs
          PROVE  totalShares * (acc[l] - acc[l])
                   <= Scale * (ReserveAt(l, b, eth) - ReserveAt(l, b, eth))
      <4>1. acc[l] - acc[l] = 0 /\ ReserveAt(l, b, eth) - ReserveAt(l, b, eth) = 0
        BY <1>1, <2>2
      <4>2. totalShares * 0 = 0 /\ Scale * 0 = 0
        BY <1>1
      <4>3. QED
        BY <4>1, <4>2
    <3>2. QED
      BY <2>1, <2>2, <3>1
  <2>4. QED
    BY <1>1, <2>1, <2>3 DEF GoodPoke
<1>3. CASE p = Collected(b) /\ seeded /\ totalShares # 0
  <2> DEFINE g == fees["PRISM"]
             n(l) == fees[l] - (IF l = "PRISM" THEN Burned ELSE 0)
  <2>1. /\ p.bal = CollectedBalances(b, g, Burned) /\ p.eth = eth + fees["ETH"]
        /\ p.fees = [l \in Legs |-> 0] /\ p.acc = Accumulated
        /\ p.forfeit = FALSE /\ p.orphaned = FALSE
    BY <1>3 DEF Collected
  <2>2. totalShares \in Nat \ {0}
    <3>1. totalShares = Cardinality(Live) /\ Cardinality(Live) \in Nat
      BY HeldApart, FS_CardinalityType DEF HInv, IInv, IdInv, Counted
    <3>2. QED
      BY <1>3, <3>1
  <2>3. g \in Nat /\ Burned \in Nat /\ Burned <= g
    <3>1. g \in Nat
      BY <1>1 DEF Legs
    <3>2. QED
      BY <3>1, PartOf DEF Burned
  <2>4. /\ p.bal \in [Accounts -> Nat] /\ \A u \in Users : p.bal[u] = b[u]
        /\ p.bal[Hook] = b[Hook] + g - Burned /\ p.bal[Pool] \in Nat
    BY <2>1, <2>3, CollectionBalances
  <2>5. ASSUME NEW l \in Legs
        PROVE  /\ n(l) \in Nat
               /\ Distributed(l) \in Nat /\ totalShares * Distributed(l) <= n(l) * Scale
               /\ ReserveAt(l, p.bal, p.eth) = ReserveAt(l, b, eth) + n(l)
               /\ ReserveAt(l, b, eth) \in Nat
    <3>1. n(l) \in Nat
      BY <1>1, <2>3 DEF Legs
    <3>2. Distributed(l) = (n(l) * Scale) \div totalShares
      BY DEF Distributed
    <3>3. ReserveAt(l, p.bal, p.eth) = ReserveAt(l, b, eth) + n(l)
      BY <1>1, <2>1, <2>3, <2>4 DEF ReserveAt, Legs
    <3> HIDE DEF n
    <3>4. n(l) * Scale \in Nat
      BY <3>1
    <3>5. Distributed(l) \in Nat /\ totalShares * Distributed(l) <= n(l) * Scale
      BY <2>2, <3>2, <3>4, RoundDown
    <3>6. ReserveAt(l, b, eth) \in Nat
      BY <1>1 DEF ReserveAt
    <3>7. QED
      BY <3>1, <3>3, <3>5, <3>6
  <2>6. ASSUME NEW l \in Legs
        PROVE  /\ p.acc[l] \in Nat /\ acc[l] <= p.acc[l]
               /\ ReserveAt(l, b, eth) <= ReserveAt(l, p.bal, p.eth)
               /\ totalShares * (p.acc[l] - acc[l])
                    <= Scale * (ReserveAt(l, p.bal, p.eth) - ReserveAt(l, b, eth))
    <3>1. p.acc[l] = acc[l] + (IF forfeit THEN 0 ELSE Distributed(l))
      <4>1. p.acc[l] = (IF forfeit THEN acc[l] ELSE acc[l] + Distributed(l))
        BY <2>1 DEF Accumulated
      <4>2. QED
        BY <1>1, <2>5, <4>1
    <3> DEFINE d == IF forfeit THEN 0 ELSE Distributed(l)
    <3>2. d \in Nat /\ totalShares * d <= n(l) * Scale
      <4>1. n(l) \in Nat /\ n(l) * Scale \in Nat /\ totalShares * 0 = 0
        BY <2>2, <2>5
      <4>2. QED
        BY <2>5, <4>1
    <3>3. ReserveAt(l, p.bal, p.eth) - ReserveAt(l, b, eth) = n(l)
      BY <2>5
    <3> HIDE DEF d, n
    <3>4. p.acc[l] - acc[l] = d /\ acc[l] \in Nat /\ p.acc[l] = acc[l] + d
      BY <1>1, <3>1, <3>2 DEF d
    <3>5. n(l) * Scale = Scale * n(l) /\ n(l) \in Nat
      BY <2>5
    <3>6. QED
      BY <2>5, <3>2, <3>3, <3>4, <3>5
  <2>7. p.acc \in [Legs -> Nat]
    BY <2>1, <2>6 DEF Accumulated
  <2>8. p.eth \in Nat /\ p.fees \in [Legs -> Nat] /\ p.fees["PRISM"] <= p.bal[Pool]
    BY <1>1, <2>1, <2>4 DEF Legs
  <2> HIDE DEF g, n
  <2>9. QED
    BY <1>3, <2>1, <2>2, <2>4, <2>6, <2>7, <2>8 DEF GoodPoke
<1>4. QED
  BY <1>2, <1>3 DEF Poked

-----------------------------------------------------------------------------
(* Promises.                                                               *)

\* What shares accrued once the accumulators are those of poke p.
AccruedBy(l, p) == [id \in Ids |-> p.acc[l] - debt[l][id]]

\* The live ids are finitely many ids, as many as the denominator says, and
\* what they accrued is natural.
LEMMA LiveFacts ==
    ASSUME HInv
    PROVE  /\ IsFiniteSet(Live) /\ Live \subseteq Ids
           /\ totalShares = Cardinality(Live) /\ totalShares \in Nat
           /\ \A l \in Legs, id \in Ids : /\ debt[l][id] \in Nat /\ acc[l] \in Nat
                                          /\ debt[l][id] <= acc[l]
                                          /\ Accrued(l)[id] \in Nat
<1>1. /\ IsFiniteSet(Live) /\ Live \subseteq Ids
      /\ totalShares = Cardinality(Live) /\ totalShares \in Nat
  BY HeldApart, FS_CardinalityType DEF HInv, IInv, IdInv, Counted, Ids
<1>2. \A l \in Legs, id \in Ids : debt[l][id] \in Nat /\ acc[l] \in Nat
                                  /\ debt[l][id] <= acc[l]
  BY DEF HInv, TypeOK, Behind
<1>3. QED
  BY <1>1, <1>2 DEF Accrued

\* After a good poke the accrued amounts are natural and grew by no more than
\* what came in.
LEMMA AccruedAfterPoke ==
    ASSUME HInv, NEW b, NEW p, GoodPoke(p, b), NEW l \in Legs
    PROVE  /\ \A id \in Ids : /\ AccruedBy(l, p)[id] \in Nat
                              /\ Accrued(l)[id] <= AccruedBy(l, p)[id]
           /\ SumFunctionOnSet(AccruedBy(l, p), Live) \in Nat
           /\ SumFunctionOnSet(Accrued(l), Live) \in Nat
           /\ SumFunctionOnSet(AccruedBy(l, p), Live)
                <= SumFunctionOnSet(Accrued(l), Live)
                     + Scale * (ReserveAt(l, p.bal, p.eth) - ReserveAt(l, b, eth))
<1> DEFINE d == p.acc[l] - acc[l]
           c == [id \in Ids |-> d]
<1>1. d \in Nat /\ p.acc[l] \in Nat /\ acc[l] \in Nat /\ p.acc[l] = acc[l] + d
  <2>1. p.acc[l] \in Nat /\ acc[l] \in Nat /\ acc[l] <= p.acc[l]
    BY DEF GoodPoke, HInv, TypeOK
  <2>2. QED
    BY <2>1
<1>2. totalShares * d <= Scale * (ReserveAt(l, p.bal, p.eth) - ReserveAt(l, b, eth))
  BY DEF GoodPoke
<1> HIDE DEF d
<1>3. \A id \in Ids : /\ Accrued(l)[id] \in Nat /\ c[id] = d
                      /\ AccruedBy(l, p)[id] = Accrued(l)[id] + c[id]
  BY <1>1, LiveFacts DEF Accrued, AccruedBy
<1> HIDE DEF c
<1>4. \A id \in Live : /\ Accrued(l)[id] \in Nat /\ c[id] = d /\ c[id] \in Nat
                       /\ AccruedBy(l, p)[id] = Accrued(l)[id] + c[id]
                       /\ AccruedBy(l, p)[id] \in Nat
  BY <1>1, <1>3, LiveFacts
<1>5. SumFunctionOnSet(AccruedBy(l, p), Live)
        = SumFunctionOnSet(Accrued(l), Live) + SumFunctionOnSet(c, Live)
  BY <1>4, LiveFacts, SumPlus
<1>6. SumFunctionOnSet(c, Live) = d * totalShares
  BY <1>1, <1>4, LiveFacts, SumConstant
<1>7. SumFunctionOnSet(Accrued(l), Live) \in Nat
  BY <1>4, LiveFacts, SumRemove
<1>8. SumFunctionOnSet(AccruedBy(l, p), Live) \in Nat
  BY <1>4, LiveFacts, SumRemove
<1>9. ReserveAt(l, p.bal, p.eth) - ReserveAt(l, b, eth) \in Int
  <2>1. p.eth \in Nat /\ eth \in Nat /\ p.bal[Hook] \in Nat /\ b[Hook] \in Nat
    BY DEF GoodPoke, HInv, TypeOK
  <2>2. QED
    BY <2>1 DEF ReserveAt
<1>10. d * totalShares = totalShares * d /\ totalShares * d \in Nat
  BY <1>1, LiveFacts
<1>11. \A id \in Ids : AccruedBy(l, p)[id] \in Nat /\ Accrued(l)[id] <= AccruedBy(l, p)[id]
  BY <1>1, <1>3
<1>12. QED
  BY <1>2, <1>5, <1>6, <1>7, <1>8, <1>9, <1>10, <1>11

\* Crediting shares pays out, scaled, no more than they accrued.
LEMMA DueBound ==
    ASSUME HInv, NEW b, NEW p, GoodPoke(p, b), NEW l \in Legs, NEW X \in SUBSET Live
    PROVE  /\ Due(l, X, p.acc) \in Nat
           /\ Scale * Due(l, X, p.acc) <= SumFunctionOnSet(AccruedBy(l, p), X)
           /\ SumFunctionOnSet(AccruedBy(l, p), X) \in Nat
<1> DEFINE open == {id \in X : ~Quarantined(id)}
           f == Owed(l, p.acc)
           g == AccruedBy(l, p)
<1>1. IsFiniteSet(X) /\ open \in SUBSET X /\ IsFiniteSet(open) /\ X \subseteq Ids
  BY LiveFacts, FS_Subset
<1>2. \A id \in Ids : f[id] \in Nat /\ g[id] \in Nat /\ Scale * f[id] <= g[id]
  <2>1. \A id \in Ids : g[id] \in Nat
    BY AccruedAfterPoke
  <2>2. \A id \in Ids : f[id] = g[id] \div Scale
    BY DEF Owed, AccruedBy
  <2> HIDE DEF f, g
  <2>3. QED
    BY <2>1, <2>2, RoundDown
<1> HIDE DEF open, f, g
<1>3. \A id \in open : f[id] \in Nat /\ g[id] \in Nat /\ Scale * f[id] <= g[id]
  BY <1>1, <1>2
<1>4. SumFunctionOnSet(f, open) \in Nat
  BY <1>1, <1>3, SumRemove
<1>5. Scale * SumFunctionOnSet(f, open) <= SumFunctionOnSet(g, open)
  BY <1>1, <1>3, SumScaled
<1>6. SumFunctionOnSet(g, open) <= SumFunctionOnSet(g, X)
  BY <1>1, <1>2, SumSubset
<1>7. SumFunctionOnSet(g, open) \in Nat
  BY <1>1, <1>3, SumRemove
<1>8. SumFunctionOnSet(g, X) \in Nat
  BY <1>1, <1>2, SumRemove
<1>9. Due(l, X, p.acc) = SumFunctionOnSet(f, open)
  BY DEF Due, f, open
<1>10. Scale * SumFunctionOnSet(f, open) \in Nat
  BY <1>4
<1>11. QED
  BY <1>4, <1>5, <1>6, <1>7, <1>8, <1>9, <1>10 DEF g

\* A step that credits what the shares X accrued, and starts the ids N afresh,
\* leaves no more accrued than the credit is short of it.
LEMMA AccruedAfter ==
    ASSUME HInv, NEW b, NEW p, GoodPoke(p, b), NEW l \in Legs, NEW X \in SUBSET Live,
           NEW N \in SUBSET Ids, N \cap (Live \ X) = {}, Live' = (Live \ X) \cup N,
           acc'[l] = p.acc[l],
           \A id \in Live \ X : debt'[l][id] = debt[l][id],
           \A id \in N : debt'[l][id] = p.acc[l],
           NEW credit \in Nat, Scale * credit <= SumFunctionOnSet(AccruedBy(l, p), X)
    PROVE  /\ SumFunctionOnSet(Accrued(l)', Live') \in Nat
           /\ Scale * credit + SumFunctionOnSet(Accrued(l)', Live')
                <= SumFunctionOnSet(AccruedBy(l, p), Live)
<1> DEFINE g == AccruedBy(l, p)
           h == Accrued(l)'
<1>1. /\ IsFiniteSet(Live) /\ Live \subseteq Ids /\ IsFiniteSet(N)
  <2>1. IsFiniteSet(Ids)
    BY FS_Interval DEF Ids
  <2>2. QED
    BY <2>1, LiveFacts, FS_Subset
<1>2. \A id \in Ids : g[id] \in Nat
  BY AccruedAfterPoke
<1>3. /\ \A id \in Live \ X : h[id] = g[id]
      /\ \A id \in N : h[id] = 0
  <2>1. p.acc[l] \in Nat
    BY DEF GoodPoke
  <2>2. \A id \in Ids : h[id] = p.acc[l] - debt'[l][id] /\ g[id] = p.acc[l] - debt[l][id]
    BY DEF Accrued, AccruedBy
  <2>3. QED
    BY <1>1, <2>1, <2>2
<1> HIDE DEF g, h
<1>4. SumFunctionOnSet(h, (Live \ X) \cup N) + SumFunctionOnSet(g, X)
        = SumFunctionOnSet(g, Live)
  BY <1>1, <1>2, <1>3, SumReplace
<1>5. SumFunctionOnSet(g, X) \in Nat /\ SumFunctionOnSet(g, Live) \in Nat
  <2>1. IsFiniteSet(X) /\ \A id \in Live : g[id] \in Nat
    BY <1>1, <1>2, FS_Subset
  <2>2. SumFunctionOnSet(g, X) \in Nat
    BY <2>1, SumRemove
  <2>3. QED
    BY <1>1, <2>1, <2>2, SumRemove
<1>6. SumFunctionOnSet(h, (Live \ X) \cup N) \in Nat
  <2>1. IsFiniteSet(Live \ X)
    BY <1>1, FS_Subset
  <2>2. IsFiniteSet((Live \ X) \cup N)
    BY <1>1, <2>1, FS_Union
  <2>3. \A id \in (Live \ X) \cup N : h[id] \in Nat
    BY <1>1, <1>2, <1>3
  <2>4. QED
    BY <2>2, <2>3, SumRemove
<1> DEFINE Q == Scale * credit
           U == SumFunctionOnSet(g, X)
           V == SumFunctionOnSet(g, Live)
           W == SumFunctionOnSet(h, (Live \ X) \cup N)
<1>7. Q <= U /\ W + U = V /\ Q \in Nat /\ U \in Nat /\ V \in Nat /\ W \in Nat
  BY <1>4, <1>5, <1>6 DEF g
<1>8. SumFunctionOnSet(h, Live') = W
  OBVIOUS
<1> HIDE DEF Q, U, V, W
<1>9. Q + W <= V
  BY <1>7
<1>10. QED
  BY <1>7, <1>8, <1>9 DEF g, h, Q, V

-----------------------------------------------------------------------------
(* Realignment.                                                            *)

\* The hook's names for the ids a plan moves around.
LEMMA PlanIds ==
    ASSUME IInv, NEW p, NEW b, GoodPlan(p, b)
    PROVE  /\ Leaving(p) = TailIds(p.loser, p.moves + p.burns)
           /\ Moving(p) = TailIds(p.loser, p.moves)
           /\ Minting(p) = Fresh(p)
<1>1. ASSUME NEW a \in Accounts, NEW k \in Nat
      PROVE  ToSet(TailsOf(owned[a], k)) = TailIds(a, k)
  <2> DEFINE n == Len(owned[a])
  <2>1. n \in Nat
    BY HeldIds DEF IInv
  <2>2. ToSet(TailsOf(owned[a], k)) = {owned[a][n + 1 - i] : i \in 1..k}
    BY DEF ToSet, TailsOf
  <2> HIDE DEF n
  <2>3. ASSUME NEW i \in 1..k PROVE n + 1 - i \in (n + 1 - k)..n
    BY <2>1
  <2>4. ASSUME NEW j \in (n + 1 - k)..n PROVE n + 1 - j \in 1..k /\ n + 1 - (n + 1 - j) = j
    BY <2>1
  <2>5. TailIds(a, k) = {owned[a][j] : j \in (n + 1 - k)..n}
    BY DEF TailIds, n
  <2>6. ASSUME NEW x \in {owned[a][n + 1 - i] : i \in 1..k} PROVE x \in TailIds(a, k)
    BY <2>3, <2>5
  <2>7. ASSUME NEW x \in TailIds(a, k) PROVE x \in {owned[a][n + 1 - i] : i \in 1..k}
    <3>1. PICK j \in (n + 1 - k)..n : x = owned[a][j]
      BY <2>5
    <3>2. x = owned[a][n + 1 - (n + 1 - j)] /\ n + 1 - j \in 1..k
      BY <2>4, <3>1
    <3>3. QED
      BY <3>2
  <2>8. QED
    BY <2>2, <2>6, <2>7
<1>2. p.loser \in Accounts /\ p.moves \in Nat /\ p.moves + p.burns \in Nat
  BY DEF GoodPlan
<1>3. QED
  BY <1>1, <1>2 DEF Leaving, Moving, Minting, Fresh

\* The ids that leave the loser were live, those that start afresh are not
\* among the ones that stay, and together they make the live ids.
LEMMA PlanSets ==
    ASSUME HInv, NEW plan, NEW b, GoodPlan(plan, b), Realign(plan)
    PROVE  /\ Leaving(plan) \in SUBSET HeldBy(plan.loser)
           /\ Leaving(plan) \in SUBSET Live
           /\ Moving(plan) \in SUBSET Leaving(plan)
           /\ Minting(plan) \cap Live = {}
           /\ Moving(plan) \cup Minting(plan) \in SUBSET Ids
           /\ (Moving(plan) \cup Minting(plan)) \cap (Live \ Leaving(plan)) = {}
           /\ Live' = (Live \ Leaving(plan)) \cup (Moving(plan) \cup Minting(plan))
           /\ \A a \in Accounts :
                HeldBy(a)' =
                  (HeldBy(a) \ (IF a = plan.loser THEN Leaving(plan) ELSE {}))
                    \cup (IF a = plan.gainer THEN Moving(plan) \cup Minting(plan) ELSE {})
           /\ plan.moves + plan.burns = 0 => Leaving(plan) = {}
<1> DEFINE n == Len(owned[plan.loser])
           m == plan.moves
           k == plan.moves + plan.burns
<1>1. /\ IInv /\ ShareTypeOK /\ IdInv /\ Distinct /\ Minted /\ nextId \in Nat
      /\ plan.loser \in Accounts
  <2>1. IInv /\ IdInv
    BY DEF HInv
  <2>2. ShareTypeOK /\ Distinct /\ Minted
    BY <2>1 DEF IInv, IdInv
  <2>3. nextId \in Nat /\ plan.loser \in Accounts
    BY <2>2 DEF ShareTypeOK, GoodPlan
  <2>4. QED
    BY <2>1, <2>2, <2>3
<1>2. n \in Nat /\ m \in Nat /\ k \in Nat /\ m <= k /\ k <= n /\ plan.mints \in Nat
  BY <1>1, HeldIds DEF GoodPlan, Shares
<1>3. /\ Leaving(plan) = TailIds(plan.loser, k) /\ Moving(plan) = TailIds(plan.loser, m)
      /\ Minting(plan) = Fresh(plan)
  BY <1>1, PlanIds
<1>4. Leaving(plan) \in SUBSET HeldBy(plan.loser)
  <2>1. k \in 0..n
    BY <1>2
  <2>2. QED
    BY <1>1, <1>3, <2>1, TailSize
<1>5. Leaving(plan) \in SUBSET Live
  BY <1>1, <1>4 DEF Live
<1>6. Moving(plan) \in SUBSET Leaving(plan)
  <2> HIDE DEF k, m
  <2>1. \A j \in (n + 1 - m)..n : j \in (n + 1 - k)..n
    BY <1>2
  <2>2. QED
    BY <1>3, <2>1 DEF TailIds
<1>7. Minting(plan) \cap Live = {}
  BY <1>1, <1>2, <1>3, FreshSize, HeldApart
<1>8. Minting(plan) \in SUBSET Ids
  <2>1. nextId + plan.mints <= MaxId
    BY DEF Realign
  <2>2. QED
    BY <1>1, <1>2, <2>1 DEF Minting, Ids
<1>9. Moving(plan) \in SUBSET Ids
  BY <1>5, <1>6, LiveFacts
<1>10. Live' = (Live \ Leaving(plan)) \cup (Moving(plan) \cup Minting(plan))
  BY <1>1, <1>3, RealignLive
<1>11. k = 0 => Leaving(plan) = {}
  <2>1. ASSUME k = 0, NEW j \in (n + 1 - k)..n PROVE FALSE
    BY <1>2, <2>1
  <2>2. QED
    BY <1>3, <2>1 DEF TailIds
<1>12. \A a \in Accounts :
           HeldBy(a)' =
             (HeldBy(a) \ (IF a = plan.loser THEN Leaving(plan) ELSE {}))
               \cup (IF a = plan.gainer THEN Moving(plan) \cup Minting(plan) ELSE {})
  <2>1. ASSUME NEW a \in Accounts
        PROVE  HeldBy(a)' =
                 (HeldBy(a) \ (IF a = plan.loser THEN TailIds(a, plan.moves + plan.burns) ELSE {}))
                   \cup (IF a = plan.gainer THEN TailIds(plan.loser, plan.moves) \cup Fresh(plan)
                         ELSE {})
    BY <1>1, RealignHeld
  <2>2. QED
    BY <1>3, <2>1
<1>13. QED
  BY <1>4, <1>5, <1>6, <1>7, <1>8, <1>9, <1>10, <1>11, <1>12

\* What a realignment with fees does to everything but the money.
LEMMA RealignBooks ==
    ASSUME HInv, NEW plan, NEW b, GoodPlan(plan, b), Realign(plan),
           NEW p, GoodPoke(p, b), RealignFees(plan, p), seeded' = seeded, before' = before
    PROVE  /\ IInv' /\ IdInv' /\ Behind' /\ FeesHeld' /\ ForfeitReady' /\ OrphansForfeited'
           /\ QuarantineIsTx'
           /\ acc' = p.acc /\ acc' \in [Legs -> Nat] /\ debt' \in [Legs -> [Ids -> Nat]]
           /\ fees' = p.fees /\ fees' \in [Legs -> Nat] /\ lo' \in 0..MaxId
           /\ bal' = p.bal
           /\ forfeit' \in BOOLEAN /\ orphaned' \in BOOLEAN
           /\ \A l \in Legs : /\ \A id \in Live \ Leaving(plan) : debt'[l][id] = debt[l][id]
                              /\ \A id \in Moving(plan) \cup Minting(plan) :
                                    debt'[l][id] = p.acc[l]
<1>1. /\ bal' = p.bal /\ fees' = p.fees /\ acc' = p.acc /\ orphaned' = p.orphaned
      /\ forfeit' = (p.forfeit \/ ForfeitsLast(plan))
      /\ debt' = [l \in Legs |-> [id \in Ids |->
                    IF id \in Moving(plan) \cup Minting(plan) THEN p.acc[l]
                    ELSE IF id \in Leaving(plan) THEN 0 ELSE debt[l][id]]]
      /\ lo' = Noted(plan)
  BY DEF RealignFees, Books
<1>2. IInv'
  <2>1. bal' \in [Accounts -> Nat] /\ \A u \in Users : bal'[u] = b[u]
    BY <1>1 DEF GoodPoke
  <2>2. QED
    BY <2>1, RealignKeepsIInv DEF HInv
<1>3. IdInv'
  BY RealignKeepsIds DEF HInv, IInv
<1>4. acc' \in [Legs -> Nat] /\ fees' \in [Legs -> Nat] /\ FeesHeld'
  BY <1>1 DEF GoodPoke, FeesHeld
<1>5. debt' \in [Legs -> [Ids -> Nat]] /\ Behind'
  <2>1. ASSUME NEW l \in Legs, NEW id \in Ids
        PROVE  debt'[l][id] \in Nat /\ debt'[l][id] <= acc'[l]
    <3>1. p.acc[l] \in Nat /\ acc[l] <= p.acc[l] /\ acc[l] \in Nat
      BY DEF GoodPoke, HInv, TypeOK
    <3>2. debt[l][id] \in Nat /\ debt[l][id] <= acc[l]
      BY LiveFacts
    <3>3. debt'[l][id] \in {p.acc[l], 0, debt[l][id]} /\ acc'[l] = p.acc[l]
      BY <1>1
    <3>4. QED
      BY <3>1, <3>2, <3>3
  <2>2. debt' \in [Legs -> [Ids -> Nat]]
    <3>1. ASSUME NEW l \in Legs, NEW id \in Ids
          PROVE  (IF id \in Moving(plan) \cup Minting(plan) THEN p.acc[l]
                  ELSE IF id \in Leaving(plan) THEN 0 ELSE debt[l][id]) \in Nat
      BY LiveFacts DEF GoodPoke
    <3>2. QED
      BY <1>1, <3>1
  <2>3. QED
    BY <2>1, <2>2 DEF Behind
<1>6. forfeit' \in BOOLEAN /\ orphaned' \in BOOLEAN /\ OrphansForfeited'
  BY <1>1 DEF GoodPoke, OrphansForfeited, ForfeitsLast
<1>7. plan.mints \in Nat /\ plan.burns \in Nat /\ nextId \in Nat /\ nextId + plan.mints <= MaxId
      /\ nextId' = nextId + plan.mints /\ totalShares' = totalShares - plan.burns + plan.mints
  BY DEF GoodPlan, Realign, HInv, IInv, ShareTypeOK
<1>8. ForfeitReady'
  <2> SUFFICES ASSUME seeded, totalShares' = 0 PROVE forfeit'
    BY DEF ForfeitReady
  <2>1. Live' = {} /\ totalShares \in Nat
    <3>1. Cardinality(Live') = 0
      BY <1>3 DEF IdInv, Counted
    <3>2. IsFiniteSet(Live')
      <4>1. IsFiniteSet(Ids)
        BY FS_Interval DEF Ids
      <4>2. Live' \in SUBSET Ids
        BY PlanSets, LiveFacts
      <4>3. QED
        BY <4>1, <4>2, FS_Subset
    <3>3. QED
      BY <3>1, <3>2, FS_EmptySet, LiveFacts
  <2>2. plan.mints = 0
    <3>1. Minting(plan) = {}
      BY <2>1, PlanSets
    <3>2. plan.mints # 0 => nextId + 1 \in Minting(plan)
      BY <1>7 DEF Minting
    <3>3. QED
      BY <3>1, <3>2
  <2>3. plan.burns = totalShares
    BY <1>7, <2>1, <2>2
  <2>4. CASE totalShares = 0
    BY <1>1, <2>4 DEF GoodPoke, HInv, ForfeitReady
  <2>5. CASE totalShares # 0
    <3>1. plan.burns > 0
      BY <2>1, <2>3, <2>5
    <3>2. QED
      BY <1>1, <2>3, <3>1 DEF ForfeitsLast
  <2>6. QED
    BY <2>4, <2>5
<1>9. lo' \in 0..MaxId /\ QuarantineIsTx'
  <2>1. lo \in 0..MaxId /\ before \in 0..MaxId
    BY DEF HInv, TypeOK
  <2>2. QED
    BY <1>1, <1>7, <2>1 DEF Noted, HInv, QuarantineIsTx
<1>10. ASSUME NEW l \in Legs
       PROVE  /\ \A id \in Live \ Leaving(plan) : debt'[l][id] = debt[l][id]
              /\ \A id \in Moving(plan) \cup Minting(plan) : debt'[l][id] = p.acc[l]
  BY <1>1, PlanSets, LiveFacts
<1>11. QED
  BY <1>1, <1>2, <1>3, <1>4, <1>5, <1>6, <1>8, <1>9, <1>10

-----------------------------------------------------------------------------
(* The money.                                                              *)

\* Scaling keeps order and adds up.
LEMMA Scaled ==
    /\ \A x, y \in Int : x <= y => Scale * x <= Scale * y
    /\ \A x, y \in Int : Scale * (x + y) = Scale * x + Scale * y
    /\ \A x, y \in Int : Scale * (x - y) = Scale * x - Scale * y
    /\ \A x \in Int : Scale * x \in Int
    /\ \A x, y \in Int : Scale * x <= Scale * y => x <= y
<1>1. ASSUME NEW x \in Int, NEW y \in Int, x <= y PROVE Scale * x <= Scale * y
  <2>1. y - x \in Nat /\ Scale * (y - x) >= 0
    BY <1>1
  <2>2. Scale * (y - x) = Scale * y - Scale * x
    OBVIOUS
  <2>3. QED
    BY <2>1, <2>2
<1>2. ASSUME NEW x \in Int, NEW y \in Int, Scale * x <= Scale * y PROVE x <= y
  <2>1. SUFFICES ASSUME x >= y + 1 PROVE FALSE
    OBVIOUS
  <2>2. Scale * (y + 1) <= Scale * x
    BY <1>1, <2>1
  <2>3. Scale * (y + 1) = Scale * y + Scale
    OBVIOUS
  <2>4. QED
    BY <1>2, <2>2, <2>3
<1>3. QED
  BY <1>1, <1>2

\* What credits make of the pending balances.
LEMMA CreditOne ==
    ASSUME pending \in [Legs -> [Accounts -> Nat]], NEW l \in Legs, NEW a \in Accounts,
           NEW d \in Nat, pending'[l] = [pending[l] EXCEPT ![a] = @ + d]
    PROVE  /\ pending'[l] \in [Accounts -> Nat]
           /\ AllPending(l) \in Nat /\ AllPending(l)' = AllPending(l) + d
           /\ AllPending(l)' \in Nat
<1> DEFINE f == pending[l]
           g == pending'[l]
<1>1. /\ f \in [Accounts -> Nat] /\ g \in [Accounts -> Nat]
      /\ g[a] = f[a] + d /\ \A c \in Accounts \ {a} : g[c] = f[c]
  OBVIOUS
<1> HIDE DEF f, g
<1>2. SumFunctionOnSet(g, Accounts) + f[a] = SumFunctionOnSet(f, Accounts) + g[a]
  BY <1>1, SumUpdate
<1>3. SumFunctionOnSet(g, Accounts) \in Nat /\ SumFunctionOnSet(f, Accounts) \in Nat
  BY <1>1, SumRemove
<1>4. SumFunctionOnSet(g, Accounts) = SumFunctionOnSet(f, Accounts) + d
  <2>1. f[a] \in Nat /\ g[a] = f[a] + d
    BY <1>1
  <2> DEFINE F == SumFunctionOnSet(f, Accounts)
             G == SumFunctionOnSet(g, Accounts)
             v == f[a]
  <2>2. G + v = F + (v + d) /\ F \in Nat /\ G \in Nat /\ v \in Nat
    BY <1>2, <1>3, <2>1
  <2> HIDE DEF F, G, v
  <2>3. G = F + d
    BY <2>2
  <2>4. QED
    BY <2>3 DEF F, G
<1>5. AllPending(l) = SumFunctionOnSet(f, Accounts) /\ AllPending(l)' = SumFunctionOnSet(g, Accounts)
  BY DEF AllPending, f, g
<1>6. QED
  BY <1>1, <1>3, <1>4, <1>5 DEF g

\* A step that credits no more than was accrued, and pays first before the poke
\* and last after it out of the pending balances, keeps leg l funded.
LEMMA FundedAfter ==
    ASSUME HInv, NEW b, NEW p, GoodPoke(p, b), NEW l \in Legs,
           NEW first \in Nat, NEW last \in Nat, NEW credit \in Nat, NEW sum \in Int,
           Reserve(l) <= ReserveAt(l, b, eth) + first,
           Reserve(l)' = ReserveAt(l, p.bal, p.eth) - last,
           AllPending(l) \in Nat,
           AllPending(l)' = AllPending(l) + credit - (first + last),
           Scale * credit + sum <= SumFunctionOnSet(AccruedBy(l, p), Live)
    PROVE  Scale * AllPending(l)' + sum <= Scale * Reserve(l)'
<1> DEFINE A == AllPending(l)
           S == SumFunctionOnSet(Accrued(l), Live)
           T == SumFunctionOnSet(AccruedBy(l, p), Live)
           R == Reserve(l)
           Rb == ReserveAt(l, b, eth)
           Rp == ReserveAt(l, p.bal, p.eth)
           x == Rp - Rb
           y == first + last
           z == Rp - last
<1>1. S \in Nat /\ T \in Nat /\ T <= S + Scale * x
  BY AccruedAfterPoke
<1>2. R \in Int /\ Rb \in Int /\ Rp \in Int
  <2>1. eth \in Nat /\ bal[Hook] \in Nat
    BY DEF HInv, TypeOK, IInv, ShareTypeOK
  <2>2. b[Hook] \in Nat /\ p.bal[Hook] \in Nat /\ p.eth \in Nat
    BY DEF GoodPoke
  <2>3. QED
    BY <2>1, <2>2 DEF Reserve, ReserveAt
<1>3. Scale * A + S <= Scale * R
  BY DEF HInv, Funded
<1>4. /\ R <= Rb + first /\ Reserve(l)' = z /\ A \in Int
      /\ AllPending(l)' = A + credit - y
      /\ Scale * credit + sum <= T
  OBVIOUS
<1>5. R + x - y <= z /\ x \in Int /\ y \in Int /\ z \in Int
  <2> HIDE DEF A, S, T, R, Rb, Rp
  <2>1. QED
    BY <1>2, <1>4
<1> HIDE DEF A, S, T, R, x, y, z
<1>6. Scale * (R + x - y) <= Scale * z
  <2>1. R + x - y \in Int
    BY <1>2, <1>5
  <2>2. QED
    BY <1>5, <2>1, Scaled
<1>7. Scale * (R + x - y) = Scale * (R + x) - Scale * y /\ Scale * (R + x) = Scale * R + Scale * x
  <2>1. R + x \in Int
    BY <1>2, <1>5
  <2>2. QED
    BY <1>2, <1>5, <2>1, Scaled
<1>8. /\ Scale * (A + credit - y) = Scale * (A + credit) - Scale * y
      /\ Scale * (A + credit) = Scale * A + Scale * credit
  <2>1. A + credit \in Int
    BY <1>4
  <2>2. QED
    BY <1>4, <1>5, <2>1, Scaled
<1> DEFINE kA == Scale * A
           kc == Scale * credit
           kR == Scale * R
           kx == Scale * x
           ky == Scale * y
           kz == Scale * z
           kRx == Scale * (R + x)
           kRxy == Scale * (R + x - y)
           kAc == Scale * (A + credit)
           kAcy == Scale * (A + credit - y)
<1>9. /\ kA \in Int /\ kR \in Int /\ kx \in Int /\ ky \in Int /\ kz \in Int /\ kc \in Int
      /\ kRxy <= kz /\ kRxy = kRx - ky /\ kRx = kR + kx
      /\ kAcy = kAc - ky /\ kAc = kA + kc
      /\ kc + sum <= T
      /\ T <= S + kx
      /\ kA + S <= kR
  BY <1>1, <1>2, <1>3, <1>4, <1>5, <1>6, <1>7, <1>8, Scaled
<1>10. Scale * AllPending(l)' = kAcy /\ Scale * Reserve(l)' = kz
  BY <1>4
<1> HIDE DEF kA, kc, kR, kx, ky, kz, kRx, kRxy, kAc, kAcy
<1>11. kAcy + sum <= kz
  BY <1>1, <1>9
<1>12. QED
  BY <1>10, <1>11

\* Before the seed nothing can be credited.
LEMMA NothingDue ==
    ASSUME HInv, ~seeded, NEW b, NEW p, GoodPoke(p, b), NEW l \in Legs, NEW X \in SUBSET Live
    PROVE  Due(l, X, p.acc) = 0
<1>1. IsFiniteSet(X) /\ X \subseteq Ids
  BY LiveFacts, FS_Subset
<1>2. \A id \in X : AccruedBy(l, p)[id] = 0
  <2>1. p.acc[l] = 0 /\ acc[l] = 0
    BY DEF HInv, NothingYet, GoodPoke
  <2>2. \A id \in X : debt[l][id] = 0
    BY <1>1, <2>1, LiveFacts
  <2>3. QED
    BY <1>1, <2>1, <2>2 DEF AccruedBy
<1>3. SumFunctionOnSet(AccruedBy(l, p), X) = 0 * Cardinality(X)
  BY <1>1, <1>2, SumConstant
<1>4. Cardinality(X) \in Nat
  BY <1>1, FS_CardinalityType
<1>5. Due(l, X, p.acc) \in Nat /\ Scale * Due(l, X, p.acc) <= Scale * 0
  BY <1>3, <1>4, DueBound
<1>6. QED
  BY <1>5, Scaled

-----------------------------------------------------------------------------
(* The steps that realign.                                                 *)

\* A step that credits what shares accrued, and pays nothing, keeps leg l funded.
LEMMA CreditsFunded ==
    ASSUME HInv, NEW b, NEW p, GoodPoke(p, b), NEW l \in Legs, NEW X \in SUBSET Live,
           NEW N \in SUBSET Ids, N \cap (Live \ X) = {}, Live' = (Live \ X) \cup N,
           acc'[l] = p.acc[l],
           \A id \in Live \ X : debt'[l][id] = debt[l][id],
           \A id \in N : debt'[l][id] = p.acc[l],
           NEW credit \in Nat, Scale * credit <= SumFunctionOnSet(AccruedBy(l, p), X),
           AllPending(l) \in Nat, AllPending(l)' = AllPending(l) + credit,
           Reserve(l) <= ReserveAt(l, b, eth),
           Reserve(l)' = ReserveAt(l, p.bal, p.eth)
    PROVE  Scale * AllPending(l)' + SumFunctionOnSet(Accrued(l)', Live') <= Scale * Reserve(l)'
<1> DEFINE sum == SumFunctionOnSet(Accrued(l)', Live')
<1>1. sum \in Nat /\ Scale * credit + sum <= SumFunctionOnSet(AccruedBy(l, p), Live)
  BY AccruedAfter
<1> HIDE DEF sum
<1>2. /\ Reserve(l) <= ReserveAt(l, b, eth) + 0
      /\ Reserve(l)' = ReserveAt(l, p.bal, p.eth) - 0
  <2>1. eth \in Nat /\ b[Hook] \in Nat /\ p.eth \in Nat /\ p.bal[Hook] \in Nat
    BY DEF HInv, TypeOK, GoodPoke
  <2>2. ReserveAt(l, b, eth) \in Nat /\ ReserveAt(l, p.bal, p.eth) \in Nat
    BY <2>1 DEF ReserveAt
  <2>3. QED
    BY <2>2
<1>3. AllPending(l)' = AllPending(l) + credit - (0 + 0) /\ sum \in Int /\ 0 \in Nat
  BY <1>1
<1>4. Scale * AllPending(l)' + sum <= Scale * Reserve(l)'
  BY <1>1, <1>2, <1>3, FundedAfter
<1>5. QED
  BY <1>4 DEF sum

\* A realignment that captures what leaves the loser keeps the invariant.
LEMMA CapturingRealign ==
    ASSUME HInv, NEW plan, NEW b, GoodPlan(plan, b), Realign(plan),
           NEW p, GoodPoke(p, b), RealignFees(plan, p), pending' = Captured(plan, p),
           eth' = p.eth, UNCHANGED txVars,
           \A l \in Legs : Reserve(l) <= ReserveAt(l, b, eth)
    PROVE  HInv'
<1> DEFINE X == Leaving(plan)
           N == Moving(plan) \cup Minting(plan)
<1>1. seeded' = seeded /\ before' = before /\ frames' = frames /\ earned' = earned
  BY DEF txVars
<1>2. /\ X \in SUBSET Live /\ N \in SUBSET Ids /\ N \cap (Live \ X) = {}
      /\ Live' = (Live \ X) \cup N
  BY PlanSets
<1>3. /\ acc' = p.acc /\ bal' = p.bal
      /\ \A l \in Legs : /\ \A id \in Live \ X : debt'[l][id] = debt[l][id]
                         /\ \A id \in N : debt'[l][id] = p.acc[l]
  BY <1>1, RealignBooks
<1>4. pending \in [Legs -> [Accounts -> Nat]] /\ plan.loser \in Accounts
  BY DEF HInv, TypeOK, GoodPlan
<1>5. ASSUME NEW l \in Legs
      PROVE  /\ pending'[l] = [pending[l] EXCEPT ![plan.loser] = @ + Due(l, X, p.acc)]
             /\ Due(l, X, p.acc) \in Nat
  <2>1. Due(l, X, p.acc) \in Nat
    BY <1>2, DueBound
  <2>2. QED
    BY <2>1 DEF Captured, Credited
<1>6. ASSUME NEW l \in Legs
      PROVE  /\ pending'[l] \in [Accounts -> Nat] /\ AllPending(l) \in Nat
             /\ AllPending(l)' \in Nat
             /\ AllPending(l)' = AllPending(l) + Due(l, X, p.acc)
  BY <1>4, <1>5, CreditOne
<1> HIDE DEF X, N
<1>7. Funded'
  <2>1. ASSUME NEW l \in Legs
        PROVE  Scale * AllPending(l)' + SumFunctionOnSet(Accrued(l)', Live')
                 <= Scale * Reserve(l)'
    <3>1. /\ Due(l, X, p.acc) \in Nat
          /\ Scale * Due(l, X, p.acc) <= SumFunctionOnSet(AccruedBy(l, p), X)
      BY <1>2, DueBound
    <3>2. acc'[l] = p.acc[l] /\ Reserve(l) <= ReserveAt(l, b, eth)
      BY <1>3
    <3>3. Reserve(l)' = ReserveAt(l, p.bal, p.eth)
      BY <1>3 DEF Reserve, ReserveAt
    <3>4. QED
      BY <1>2, <1>3, <1>6, <3>1, <3>2, <3>3, CreditsFunded
  <2>2. QED
    BY <2>1 DEF Funded
<1>8. pending' \in [Legs -> [Accounts -> Nat]]
  <2>1. pending' = [l \in Legs |-> [pending[l] EXCEPT ![plan.loser] = @ + Due(l, X, p.acc)]]
    BY DEF Captured, Credited, X
  <2>2. QED
    BY <1>6, <2>1
<1>9. TypeOK'
  <2>1. /\ seeded' \in BOOLEAN /\ before' \in 0..MaxId /\ earned' \in [Legs -> Nat]
        /\ frames' \in Seq({"pool", "send"})
    BY <1>1 DEF HInv, TypeOK
  <2>2. eth' \in Nat
    BY DEF GoodPoke
  <2>3. QED
    BY <1>1, <1>8, <2>1, <2>2, RealignBooks DEF TypeOK
<1>10. NothingYet'
  <2> SUFFICES ASSUME ~seeded
               PROVE  /\ eth' = 0
                      /\ \A l \in Legs : /\ fees'[l] = 0 /\ acc'[l] = 0
                                         /\ \A a \in Accounts : pending'[l][a] = 0
    BY <1>1 DEF NothingYet
  <2>1. /\ eth' = 0 /\ \A l \in Legs : fees'[l] = 0 /\ acc'[l] = 0
    BY <1>1, <1>3, RealignBooks DEF HInv, NothingYet, GoodPoke
  <2>2. ASSUME NEW l \in Legs, NEW a \in Accounts PROVE pending'[l][a] = 0
    <3>1. Due(l, X, p.acc) = 0 /\ pending[l][a] = 0 /\ pending[l][plan.loser] = 0
      BY <1>2, <1>4, NothingDue DEF HInv, NothingYet
    <3>2. pending'[l] = [pending[l] EXCEPT ![plan.loser] = 0 + 0]
      BY <1>5, <3>1
    <3>3. QED
      BY <1>4, <3>1, <3>2
  <2>3. QED
    BY <2>1, <2>2
<1>11. QED
  BY <1>1, <1>7, <1>9, <1>10, RealignBooks DEF HInv

\* Every transfer keeps the invariant.
LEMMA TransferKeepsHInv ==
    ASSUME HInv, NEW from \in Users \cup {Pool, Vault}, NEW to \in Accounts,
           NEW amount \in Amounts, Transfer(from, to, amount)
    PROVE  HInv'
<1> DEFINE b == Paid(bal, from, to, amount)
           plan == TransferPlan(from, to, amount)
<1>1. /\ IInv /\ bal \in [Accounts -> Nat] /\ fees["PRISM"] \in Nat /\ fees["PRISM"] <= bal[Pool]
      /\ eth \in Nat /\ amount \in Nat /\ from \in Accounts /\ from # Hook
  BY DEF HInv, IInv, ShareTypeOK, TypeOK, Legs, FeesHeld, Users
<1>2. amount <= bal[from] - (IF from = Pool THEN fees["PRISM"] ELSE 0)
  BY DEF Transfer
<1>3. amount <= bal[from] /\ (from = Pool => amount <= bal[from] - fees["PRISM"])
  BY <1>1, <1>2
<1>4. b \in [Accounts -> Nat] /\ fees["PRISM"] <= b[Pool] /\ bal[Hook] <= b[Hook]
  BY <1>1, <1>3 DEF Paid
<1>5. GoodPlan(plan, b)
  BY <1>1, <1>3, TransferPlanGood
<1>6. PICK p \in PokedIf(plan.pokes, b) :
            /\ Realign(plan) /\ RealignFees(plan, p)
            /\ pending' = Captured(plan, p) /\ eth' = p.eth
  BY DEF Transfer
<1>7. UNCHANGED txVars
  BY DEF Transfer
<1> HIDE DEF b, plan
<1>8. p \in Poked(b)
  BY <1>6 DEF PokedIf, Poked
<1>9. GoodPoke(p, b)
  BY <1>4, <1>8, PokeGood
<1>10. \A l \in Legs : Reserve(l) <= ReserveAt(l, b, eth)
  BY <1>1, <1>4 DEF Reserve, ReserveAt
<1>11. QED
  BY <1>5, <1>6, <1>7, <1>9, <1>10, CapturingRealign

\* Every sync keeps the invariant.
LEMMA SyncKeepsHInv ==
    ASSUME HInv, NEW user \in Users, NEW max \in Amounts, SyncNFTs(user, max)
    PROVE  HInv'
<1> DEFINE plan == SyncPlan(user, max)
<1>1. /\ IInv /\ bal \in [Accounts -> Nat] /\ fees["PRISM"] <= bal[Pool]
      /\ eth \in Nat /\ max \in Nat
  BY DEF HInv, IInv, ShareTypeOK, TypeOK, FeesHeld
<1>2. GoodPlan(plan, bal)
  BY <1>1, SyncPlanGood
<1>3. PICK p \in PokedIf(plan.pokes, bal) :
            /\ Realign(plan) /\ RealignFees(plan, p)
            /\ pending' = Captured(plan, p) /\ eth' = p.eth
  BY DEF SyncNFTs
<1>4. UNCHANGED txVars
  BY DEF SyncNFTs
<1> HIDE DEF plan
<1>5. p \in Poked(bal)
  BY <1>3 DEF PokedIf, Poked
<1>6. GoodPoke(p, bal)
  BY <1>1, <1>5, PokeGood
<1>7. \A l \in Legs : Reserve(l) <= ReserveAt(l, bal, eth)
  BY <1>1 DEF Reserve, ReserveAt
<1>8. QED
  BY <1>2, <1>3, <1>4, <1>6, <1>7, CapturingRealign

\* What a payment makes of the pending balances.
LEMMA DebitOne ==
    ASSUME pending \in [Legs -> [Accounts -> Nat]], NEW l \in Legs, NEW a \in Accounts,
           pending'[l] = [pending[l] EXCEPT ![a] = 0]
    PROVE  /\ pending'[l] \in [Accounts -> Nat]
           /\ AllPending(l) \in Nat /\ AllPending(l)' \in Nat
           /\ AllPending(l)' = AllPending(l) - pending[l][a]
<1> DEFINE f == pending[l]
           g == pending'[l]
<1>1. /\ f \in [Accounts -> Nat] /\ g \in [Accounts -> Nat]
      /\ g[a] = 0 /\ \A c \in Accounts \ {a} : g[c] = f[c]
  OBVIOUS
<1> HIDE DEF f, g
<1>2. SumFunctionOnSet(g, Accounts) + f[a] = SumFunctionOnSet(f, Accounts) + g[a]
  BY <1>1, SumUpdate
<1>3. SumFunctionOnSet(g, Accounts) \in Nat /\ SumFunctionOnSet(f, Accounts) \in Nat
  BY <1>1, SumRemove
<1>4. SumFunctionOnSet(g, Accounts) = SumFunctionOnSet(f, Accounts) - f[a]
  <2> DEFINE F == SumFunctionOnSet(f, Accounts)
             G == SumFunctionOnSet(g, Accounts)
             v == f[a]
  <2>1. G + v = F + 0 /\ F \in Nat /\ G \in Nat /\ v \in Nat
    BY <1>1, <1>2, <1>3
  <2> HIDE DEF F, G, v
  <2>2. G = F - v
    BY <2>1
  <2>3. QED
    BY <2>2 DEF F, G, v
<1>5. AllPending(l) = SumFunctionOnSet(f, Accounts) /\ AllPending(l)' = SumFunctionOnSet(g, Accounts)
  BY DEF AllPending, f, g
<1>6. QED
  BY <1>1, <1>3, <1>4, <1>5 DEF f, g

\* The pending balances add up to a natural number.
LEMMA PendingNat ==
    ASSUME pending \in [Legs -> [Accounts -> Nat]], NEW l \in Legs
    PROVE  AllPending(l) \in Nat
<1> DEFINE f == pending[l]
<1>1. \A a \in Accounts : f[a] \in Nat
  OBVIOUS
<1> HIDE DEF f
<1>2. SumFunctionOnSet(f, Accounts) \in Nat
  BY <1>1, SumRemove
<1>3. QED
  BY <1>2 DEF AllPending, f

\* Tokens the contract pays to a user come out of its own balance alone.
LEMMA PaidByHook ==
    ASSUME bal \in [Accounts -> Nat], NEW to \in Users, NEW amount \in Nat,
           amount <= bal[Hook]
    PROVE  LET b == Paid(bal, Hook, to, amount)
           IN  b \in [Accounts -> Nat] /\ b[Hook] = bal[Hook] - amount /\ b[Pool] = bal[Pool]
<1>1. /\ Hook \in Accounts /\ Pool \in Accounts \ {Hook, to} /\ to # Hook /\ to \in Accounts
  BY DEF Users
<1>2. QED
  BY <1>1 DEF Paid

\* Tokens that arrive take no share away from a user.
LEMMA ArrivalKeepsShares ==
    ASSUME IInv, NEW from \in Excluded, NEW to \in Users, NEW amount \in Nat,
           amount <= bal[from]
    PROVE  LET plan == TransferPlan(from, to, amount)
           IN  plan.loser = to /\ plan.gainer = to /\ plan.moves = 0 /\ plan.burns = 0
<1> DEFINE b == Paid(bal, from, to, amount)
<1>1. from \in Accounts /\ to \in Accounts /\ from # to /\ from \notin Users
  BY DEF Users
<1>2. bal[to] \in Nat /\ b[to] = bal[to] + amount
  <2>1. bal \in [Accounts -> Nat]
    BY DEF IInv, ShareTypeOK
  <2>2. QED
    BY <1>1, <2>1, PaidBalances
<1> HIDE DEF b
<1>3. b[to] \in Nat /\ bal[to] <= b[to]
  BY <1>2
<1>4. /\ Shares(to) \in Nat /\ Whole(bal[to]) \in Nat /\ Whole(b[to]) \in Nat
      /\ Shares(to) <= Whole(bal[to]) /\ Whole(bal[to]) <= Whole(b[to])
  <2>1. Whole(bal[to]) \in Nat /\ Whole(b[to]) \in Nat /\ Whole(bal[to]) <= Whole(b[to])
    BY <1>2, <1>3, WholeNat, WholeMonotone
  <2>2. Shares(to) \in Nat
    BY <1>1, HeldIds DEF IInv, Shares
  <2>3. Shares(to) <= Whole(bal[to])
    BY <1>1 DEF IInv, NoUnbackedShares
  <2>4. QED
    BY <2>1, <2>2, <2>3
<1>5. Monus(Shares(to), Whole(b[to])) = 0
  BY <1>4 DEF Monus
<1>6. \A budget : Plan(b, from, to, budget) = SoloPlan(b, to, budget)
  BY <1>1 DEF Plan
<1>7. TransferPlan(from, to, amount) = SoloPlan(b, to, MintBudget(b, from, to, amount))
  BY <1>6 DEF TransferPlan, b
<1>8. QED
  BY <1>5, <1>7 DEF SoloPlan

\* Every withdrawal keeps the invariant, whether its send succeeds or not.
LEMMA WithdrawKeepsHInv ==
    ASSUME HInv, NEW caller \in Users, NEW recipient \in Users, NEW sent \in BOOLEAN,
           WithdrawPending(caller, recipient, sent)
    PROVE  HInv'
<1> DEFINE prism == pending["PRISM"][caller]
           ether == pending["ETH"][caller]
           paid == IF sent THEN ether ELSE 0
           b == Paid(bal, Hook, recipient, prism)
           plan == TransferPlan(Hook, recipient, prism)
           X == Leaving(plan)
           N == Moving(plan) \cup Minting(plan)
<1>1. /\ IInv /\ bal \in [Accounts -> Nat] /\ fees["PRISM"] \in Nat /\ fees["PRISM"] <= bal[Pool]
      /\ eth \in Nat /\ pending \in [Legs -> [Accounts -> Nat]]
      /\ caller \in Accounts /\ recipient \in Accounts /\ Hook \in Excluded /\ Hook \in Accounts
      /\ recipient # Hook /\ "ETH" \in Legs /\ "PRISM" \in Legs
  BY DEF HInv, IInv, ShareTypeOK, TypeOK, Legs, FeesHeld, Users
<1>2. prism \in Nat /\ ether \in Nat /\ paid \in Nat
  <2>1. pending["PRISM"] \in [Accounts -> Nat] /\ pending["ETH"] \in [Accounts -> Nat]
    BY <1>1
  <2>2. QED
    BY <1>1, <2>1
<1>3. /\ prism <= bal[Hook] /\ (sent => ether > 0)
      /\ seeded' = seeded /\ earned' = earned /\ before' = before
      /\ frames' = IF sent THEN Append(frames, "send") ELSE frames
      /\ pending' = LeftPending(caller, sent)
  BY DEF WithdrawPending
<1>4. PICK p \in PokedIf(plan.pokes /\ prism > 0, b) :
            /\ sent => ether <= p.eth
            /\ Realign(plan) /\ RealignFees(plan, p)
            /\ eth' = p.eth - paid
  BY DEF WithdrawPending
<1>5. b \in [Accounts -> Nat] /\ fees["PRISM"] <= b[Pool] /\ b[Hook] = bal[Hook] - prism
  <2>1. Pool \in Accounts \ {Hook, recipient} /\ prism <= bal[Hook]
    BY <1>3 DEF Users
  <2>2. bal \in [Accounts -> Nat] /\ prism \in Nat
    BY <1>1, <1>2
  <2> HIDE DEF prism
  <2>3. /\ b \in [Accounts -> Nat] /\ b[Hook] = bal[Hook] - prism
        /\ b[Pool] = bal[Pool]
    BY <2>1, <2>2, PaidByHook
  <2>4. QED
    BY <1>1, <2>3
<1>6. GoodPlan(plan, b)
  <2>1. prism <= bal[Hook]
    BY <1>3
  <2> HIDE DEF prism
  <2>2. QED
    BY <1>1, <1>2, <2>1, TransferPlanGood
<1>7. plan.moves = 0 /\ plan.burns = 0
  <2>1. prism <= bal[Hook]
    BY <1>3
  <2> HIDE DEF prism
  <2>2. QED
    BY <1>1, <1>2, <2>1, ArrivalKeepsShares
<1> HIDE DEF b, plan
<1>8. GoodPoke(p, b)
  <2>1. p \in Poked(b)
    BY <1>4 DEF PokedIf, Poked
  <2>2. QED
    BY <1>5, <2>1, PokeGood
<1>9. /\ X = {} /\ X \in SUBSET Live /\ N \in SUBSET Ids /\ N \cap (Live \ X) = {}
      /\ Live' = (Live \ X) \cup N
  <2>1. plan.moves + plan.burns = 0
    BY <1>7
  <2>2. QED
    BY <1>4, <1>6, <2>1, PlanSets
<1>10. /\ acc' = p.acc /\ bal' = p.bal
       /\ \A l \in Legs : /\ \A id \in Live \ X : debt'[l][id] = debt[l][id]
                          /\ \A id \in N : debt'[l][id] = p.acc[l]
  BY <1>3, <1>4, <1>6, <1>8, RealignBooks
<1> HIDE DEF X, N
<1>11. /\ pending'["PRISM"] = [pending["PRISM"] EXCEPT ![caller] = 0]
       /\ pending'["ETH"] = [pending["ETH"] EXCEPT ![caller] = IF sent THEN 0 ELSE @]
       /\ pending' \in [Legs -> [Accounts -> Nat]]
  <2>1. pending' = [pending EXCEPT !["PRISM"][caller] = 0,
                                   !["ETH"][caller] = IF sent THEN 0 ELSE @]
    BY <1>3 DEF LeftPending
  <2>2. /\ pending'["PRISM"] = [pending["PRISM"] EXCEPT ![caller] = 0]
        /\ pending'["ETH"] = [pending["ETH"] EXCEPT ![caller] = IF sent THEN 0 ELSE @]
        /\ DOMAIN pending' = Legs /\ pending' = [l \in Legs |-> pending'[l]]
    <3>1. CASE sent
      BY <1>1, <2>1, <3>1
    <3>2. CASE ~sent
      BY <1>1, <2>1, <3>2
    <3>3. QED
      BY <3>1, <3>2
  <2>3. \A l \in Legs : pending'[l] \in [Accounts -> Nat]
    BY <1>1, <2>2 DEF Legs
  <2>4. QED
    BY <2>2, <2>3
<1>12. /\ AllPending("PRISM") \in Nat /\ AllPending("PRISM")' = AllPending("PRISM") - prism
       /\ AllPending("ETH") \in Nat /\ AllPending("ETH")' = AllPending("ETH") - paid
  <2>1. AllPending("PRISM") \in Nat /\ AllPending("PRISM")' = AllPending("PRISM") - prism
    BY <1>1, <1>11, DebitOne
  <2>2. CASE sent
    <3>1. pending'["ETH"] = [pending["ETH"] EXCEPT ![caller] = 0]
      BY <1>11, <2>2
    <3>2. AllPending("ETH") \in Nat /\ AllPending("ETH")' = AllPending("ETH") - ether
      BY <1>1, <3>1, DebitOne
    <3>3. QED
      BY <2>1, <2>2, <3>2
  <2>3. CASE ~sent
    <3>1. pending'["ETH"] = pending["ETH"]
      BY <1>1, <1>11, <2>3
    <3>2. AllPending("ETH") \in Nat /\ AllPending("ETH")' = AllPending("ETH")
      BY <1>1, <3>1, PendingNat DEF AllPending
    <3>3. QED
      BY <2>1, <2>3, <3>2
  <2>4. QED
    BY <2>2, <2>3
<1> HIDE DEF prism, paid
<1>13. ASSUME NEW l \in Legs
       PROVE  /\ SumFunctionOnSet(Accrued(l)', Live') \in Nat
              /\ Scale * 0 + SumFunctionOnSet(Accrued(l)', Live')
                   <= SumFunctionOnSet(AccruedBy(l, p), Live)
  <2>1. Scale * 0 <= SumFunctionOnSet(AccruedBy(l, p), X)
    <3>1. SumFunctionOnSet(AccruedBy(l, p), X) \in Nat
      BY <1>8, <1>9, DueBound
    <3>2. QED
      BY <3>1
  <2>2. acc'[l] = p.acc[l] /\ 0 \in Nat
    BY <1>10
  <2>3. QED
    BY <1>8, <1>9, <1>10, <2>1, <2>2, AccruedAfter
<1>14. /\ p.eth \in Nat /\ p.bal[Hook] \in Nat /\ eth' \in Nat
       /\ Reserve("ETH") = eth /\ Reserve("ETH")' = p.eth - paid
       /\ Reserve("PRISM") = bal[Hook] /\ Reserve("PRISM")' = p.bal[Hook]
       /\ ReserveAt("ETH", b, eth) = eth /\ ReserveAt("ETH", p.bal, p.eth) = p.eth
       /\ ReserveAt("PRISM", b, eth) = b[Hook]
       /\ ReserveAt("PRISM", p.bal, p.eth) = p.bal[Hook]
  <2>1. p.eth \in Nat /\ p.bal[Hook] \in Nat
    BY <1>1, <1>8 DEF GoodPoke
  <2>2. paid \in Nat /\ paid <= p.eth
    BY <1>2, <1>4, <2>1 DEF paid
  <2>3. eth' \in Nat
    BY <1>4, <2>1, <2>2
  <2>4. QED
    BY <1>4, <1>10, <2>1, <2>3 DEF Reserve, ReserveAt
<1>15. Funded'
  <2>1. Scale * AllPending("PRISM")' + SumFunctionOnSet(Accrued("PRISM")', Live')
          <= Scale * Reserve("PRISM")'
    <3> DEFINE sum == SumFunctionOnSet(Accrued("PRISM")', Live')
    <3>1. /\ sum \in Int /\ prism \in Nat /\ 0 \in Nat
          /\ Scale * 0 + sum <= SumFunctionOnSet(AccruedBy("PRISM", p), Live)
      BY <1>1, <1>2, <1>13
    <3> HIDE DEF sum
    <3>2. Reserve("PRISM") <= ReserveAt("PRISM", b, eth) + prism
      BY <1>1, <1>2, <1>5, <1>14
    <3>3. Reserve("PRISM")' = ReserveAt("PRISM", p.bal, p.eth) - 0
      BY <1>14
    <3>4. AllPending("PRISM")' = AllPending("PRISM") + 0 - (prism + 0)
      BY <1>2, <1>12
    <3>5. Scale * AllPending("PRISM")' + sum <= Scale * Reserve("PRISM")'
      BY <1>1, <1>8, <1>12, <3>1, <3>2, <3>3, <3>4, FundedAfter
    <3>6. QED
      BY <3>5 DEF sum
  <2>2. Scale * AllPending("ETH")' + SumFunctionOnSet(Accrued("ETH")', Live')
          <= Scale * Reserve("ETH")'
    <3> DEFINE sum == SumFunctionOnSet(Accrued("ETH")', Live')
    <3>1. /\ sum \in Int /\ paid \in Nat /\ 0 \in Nat
          /\ Scale * 0 + sum <= SumFunctionOnSet(AccruedBy("ETH", p), Live)
      BY <1>1, <1>2, <1>13
    <3> HIDE DEF sum
    <3>2. Reserve("ETH") <= ReserveAt("ETH", b, eth) + 0
      BY <1>1, <1>14
    <3>3. Reserve("ETH")' = ReserveAt("ETH", p.bal, p.eth) - paid
      BY <1>14
    <3>4. AllPending("ETH")' = AllPending("ETH") + 0 - (0 + paid)
      BY <1>2, <1>12
    <3>5. Scale * AllPending("ETH")' + sum <= Scale * Reserve("ETH")'
      BY <1>1, <1>8, <1>12, <3>1, <3>2, <3>3, <3>4, FundedAfter
    <3>6. QED
      BY <3>5 DEF sum
  <2>3. QED
    BY <2>1, <2>2 DEF Funded, Legs
<1>16. TypeOK'
  <2>1. /\ seeded' \in BOOLEAN /\ before' \in 0..MaxId /\ earned' \in [Legs -> Nat]
        /\ frames' \in Seq({"pool", "send"})
    <3>1. frames \in Seq({"pool", "send"})
      BY DEF HInv, TypeOK
    <3>2. frames' \in Seq({"pool", "send"})
      BY <1>3, <3>1
    <3>3. QED
      BY <1>3, <3>2 DEF HInv, TypeOK
  <2>2. QED
    BY <1>3, <1>4, <1>6, <1>8, <1>11, <1>14, <2>1, RealignBooks DEF TypeOK
<1>17. NothingYet'
  <2> SUFFICES ASSUME ~seeded
               PROVE  /\ eth' = 0
                      /\ \A l \in Legs : /\ fees'[l] = 0 /\ acc'[l] = 0
                                         /\ \A a \in Accounts : pending'[l][a] = 0
    BY <1>3 DEF NothingYet
  <2>1. eth = 0 /\ fees' = p.fees /\ p.eth = eth /\ p.fees = fees /\ p.acc = acc
    BY <1>3, <1>4, <1>6, <1>8, RealignBooks DEF HInv, NothingYet, GoodPoke
  <2>2. paid = 0
    BY <1>1 DEF HInv, NothingYet, paid
  <2>3. eth' = 0
    BY <1>4, <2>1, <2>2 DEF paid
  <2>4. \A l \in Legs : fees'[l] = 0 /\ acc'[l] = 0
    BY <1>10, <2>1 DEF HInv, NothingYet
  <2>5. \A l \in Legs : \A a \in Accounts : pending'[l][a] = 0
    BY <1>1, <1>11 DEF HInv, NothingYet, Legs
  <2>6. QED
    BY <2>3, <2>4, <2>5
<1>18. QED
  BY <1>3, <1>4, <1>6, <1>8, <1>15, <1>16, <1>17, RealignBooks DEF HInv

-----------------------------------------------------------------------------
(* The steps that do not realign.                                          *)

\* Crediting every holder what its shares among ids accrued credits, in all,
\* what the live shares among ids accrued.
LEMMA CreditMany ==
    ASSUME HInv, NEW b, NEW p, GoodPoke(p, b), NEW l \in Legs, NEW ids,
           \A a \in Accounts : pending'[l][a] = pending[l][a] + Due(l, ids \cap HeldBy(a), p.acc)
    PROVE  /\ \A a \in Accounts : Due(l, ids \cap HeldBy(a), p.acc) \in Nat
           /\ AllPending(l) \in Nat
           /\ AllPending(l)' = AllPending(l) + Due(l, ids \cap Live, p.acc)
<1> DEFINE open(a) == {id \in ids \cap HeldBy(a) : ~Quarantined(id)}
           H == [a \in Accounts |-> open(a)]
           F == [a \in Accounts |-> Due(l, ids \cap HeldBy(a), p.acc)]
           f == Owed(l, p.acc)
           q == pending[l]
           r == pending'[l]
<1>1. IsFiniteSet(Live) /\ Live \subseteq Ids
  BY LiveFacts
<1>2. ASSUME NEW a \in Accounts
      PROVE  /\ ids \cap HeldBy(a) \in SUBSET Live
             /\ open(a) \in SUBSET Live /\ IsFiniteSet(open(a))
  <2>1. HeldBy(a) \in SUBSET Live
    BY DEF Live
  <2>2. QED
    BY <1>1, <2>1, FS_Subset
<1>3. \A a \in Accounts : Due(l, ids \cap HeldBy(a), p.acc) \in Nat
  BY <1>2, DueBound
<1>4. \A a, c \in Accounts : a # c => H[a] \cap H[c] = {}
  BY HeldApart DEF HInv, IInv, IdInv
<1>5. \A id \in Ids : f[id] \in Nat
  <2>1. \A id \in Ids : AccruedBy(l, p)[id] \in Nat
    BY AccruedAfterPoke
  <2>2. \A id \in Ids : f[id] = AccruedBy(l, p)[id] \div Scale
    BY DEF Owed, AccruedBy
  <2> HIDE DEF f
  <2>3. QED
    BY <2>1, <2>2, RoundDown
<1>6. \A a \in Accounts : IsFiniteSet(H[a]) /\ F[a] = SumFunctionOnSet(f, H[a])
  BY <1>2 DEF Due
<1>7. \A a \in Accounts : \A x \in H[a] : f[x] \in Nat
  BY <1>1, <1>2, <1>5
<1>8. UNION {H[a] : a \in Accounts} = {id \in ids \cap Live : ~Quarantined(id)}
  BY DEF Live
<1>9. Due(l, ids \cap Live, p.acc) = SumFunctionOnSet(f, {id \in ids \cap Live : ~Quarantined(id)})
  BY DEF Due
<1>10. F = [a \in Accounts |-> F[a]]
  OBVIOUS
<1>11. q \in [Accounts -> Nat] /\ \A a \in Accounts : r[a] = q[a] + F[a]
  BY DEF HInv, TypeOK
<1> HIDE DEF H, F, f, q, r
<1>12. SumFunctionOnSet(F, Accounts) = SumFunctionOnSet(f, UNION {H[a] : a \in Accounts})
       /\ \A a \in Accounts : F[a] \in Nat
  <2>1. SumFunctionOnSet(F, Accounts) = SumFunctionOnSet(f, UNION {H[a] : a \in Accounts})
    BY <1>4, <1>6, <1>7, SumPartition
  <2>2. \A a \in Accounts : F[a] \in Nat
    BY <1>3 DEF F
  <2>3. QED
    BY <2>1, <2>2
<1>13. SumFunctionOnSet(r, Accounts) = SumFunctionOnSet(q, Accounts) + SumFunctionOnSet(F, Accounts)
  BY <1>11, <1>12, SumPlus
<1>14. SumFunctionOnSet(q, Accounts) \in Nat
  BY <1>11, SumRemove
<1>15. QED
  BY <1>3, <1>8, <1>9, <1>12, <1>13, <1>14 DEF AllPending, q, r

\* Every claim and every poke keep the invariant.
LEMMA ClaimKeepsHInv ==
    ASSUME HInv, NEW ids, NEW p \in Poked(bal), Books(p), forfeit' = p.forfeit, eth' = p.eth,
           pending' = [l \in Legs |-> [a \in Accounts |->
                          pending[l][a] + Due(l, ids \cap HeldBy(a), p.acc)]],
           debt' = [l \in Legs |-> [id \in Ids |->
                       IF id \in ids \cap Live THEN p.acc[l] ELSE debt[l][id]]],
           UNCHANGED <<owned, nextId, totalShares, lo, txVars>>
    PROVE  HInv'
<1> DEFINE X == ids \cap Live
<1>1. /\ IInv /\ IdInv /\ bal \in [Accounts -> Nat] /\ fees["PRISM"] <= bal[Pool]
      /\ pending \in [Legs -> [Accounts -> Nat]]
  BY DEF HInv, IInv, ShareTypeOK, FeesHeld, TypeOK
<1>2. GoodPoke(p, bal)
  BY <1>1, PokeGood
<1>3. /\ bal' = p.bal /\ fees' = p.fees /\ acc' = p.acc /\ orphaned' = p.orphaned
      /\ seeded' = seeded /\ frames' = frames /\ earned' = earned /\ before' = before
      /\ lo' = lo /\ owned' = owned /\ nextId' = nextId /\ totalShares' = totalShares
  BY DEF Books, txVars
<1>4. IInv' /\ IdInv' /\ Live' = Live
  <2>1. bal' \in [Accounts -> Nat] /\ \A u \in Users : bal'[u] = bal[u]
    BY <1>2, <1>3 DEF GoodPoke
  <2>2. QED
    BY <1>1, <1>3, <2>1, BalancesKeepIInv, SameShares
<1>5. X \in SUBSET Live /\ X \in SUBSET Ids /\ X \cap (Live \ X) = {} /\ Live' = (Live \ X) \cup X
  BY <1>4, LiveFacts
<1>6. ASSUME NEW l \in Legs
      PROVE  /\ \A a \in Accounts : pending'[l][a] \in Nat
             /\ AllPending(l) \in Nat
             /\ AllPending(l)' = AllPending(l) + Due(l, X, p.acc)
  <2>1. \A a \in Accounts : pending'[l][a] = pending[l][a] + Due(l, ids \cap HeldBy(a), p.acc)
    OBVIOUS
  <2>2. \A a \in Accounts : pending[l][a] \in Nat
    BY <1>1
  <2>3. \A a \in Accounts : Due(l, ids \cap HeldBy(a), p.acc) \in Nat
    BY <1>2, <2>1, CreditMany
  <2>4. ASSUME NEW a \in Accounts PROVE pending'[l][a] \in Nat
    <3> DEFINE x == pending[l][a]
               y == Due(l, ids \cap HeldBy(a), p.acc)
    <3>1. x \in Nat /\ y \in Nat /\ pending'[l][a] = x + y
      BY <2>1, <2>2, <2>3
    <3> HIDE DEF x, y
    <3>2. QED
      BY ONLY <3>1
  <2>5. QED
    BY <1>2, <2>1, <2>4, CreditMany
<1>7. ASSUME NEW l \in Legs
      PROVE  /\ \A id \in Live \ X : debt'[l][id] = debt[l][id]
             /\ \A id \in X : debt'[l][id] = p.acc[l]
  BY <1>5, LiveFacts
<1>8. debt' \in [Legs -> [Ids -> Nat]] /\ Behind'
  <2>1. ASSUME NEW l \in Legs, NEW id \in Ids
        PROVE  /\ (IF id \in ids \cap Live THEN p.acc[l] ELSE debt[l][id]) \in Nat
               /\ debt'[l][id] <= acc'[l]
    <3>1. p.acc[l] \in Nat /\ acc[l] <= p.acc[l] /\ acc[l] \in Nat
      BY <1>2 DEF GoodPoke, HInv, TypeOK
    <3>2. debt[l][id] \in Nat /\ debt[l][id] <= acc[l]
      BY LiveFacts
    <3>3. debt'[l][id] \in {p.acc[l], debt[l][id]} /\ acc'[l] = p.acc[l]
      BY <1>3
    <3>4. QED
      BY <3>1, <3>2, <3>3
  <2>2. QED
    BY <2>1 DEF Behind
<1>9. pending' \in [Legs -> [Accounts -> Nat]]
  <2>1. \A l \in Legs, a \in Accounts : pending'[l][a] \in Nat
    BY <1>6
  <2>2. pending' = [l \in Legs |-> [a \in Accounts |-> pending'[l][a]]]
    OBVIOUS
  <2>3. QED
    BY <2>1, <2>2
<1> HIDE DEF X
<1>10. Funded'
  <2>1. ASSUME NEW l \in Legs
        PROVE  Scale * AllPending(l)' + SumFunctionOnSet(Accrued(l)', Live')
                 <= Scale * Reserve(l)'
    <3>1. /\ Due(l, X, p.acc) \in Nat
          /\ Scale * Due(l, X, p.acc) <= SumFunctionOnSet(AccruedBy(l, p), X)
      BY <1>2, <1>5, DueBound
    <3>2. acc'[l] = p.acc[l] /\ Reserve(l) <= ReserveAt(l, bal, eth)
      <4>1. Reserve(l) = ReserveAt(l, bal, eth)
        BY DEF Reserve, ReserveAt
      <4>2. eth \in Nat /\ bal[Hook] \in Nat
        BY <1>1 DEF HInv, TypeOK
      <4>3. QED
        BY <1>3, <4>1, <4>2 DEF ReserveAt
    <3>3. Reserve(l)' = ReserveAt(l, p.bal, p.eth)
      BY <1>3 DEF Reserve, ReserveAt
    <3>4. QED
      BY <1>2, <1>5, <1>6, <1>7, <3>1, <3>2, <3>3, CreditsFunded
  <2>2. QED
    BY <2>1 DEF Funded
<1>11. TypeOK'
  <2>1. /\ seeded' \in BOOLEAN /\ before' \in 0..MaxId /\ earned' \in [Legs -> Nat]
        /\ frames' \in Seq({"pool", "send"}) /\ lo' \in 0..MaxId
    BY <1>3 DEF HInv, TypeOK
  <2>2. /\ acc' \in [Legs -> Nat] /\ fees' \in [Legs -> Nat] /\ eth' \in Nat
        /\ forfeit' \in BOOLEAN /\ orphaned' \in BOOLEAN
    BY <1>2, <1>3 DEF GoodPoke
  <2>3. QED
    BY <1>8, <1>9, <2>1, <2>2 DEF TypeOK
<1>12. NothingYet'
  <2> SUFFICES ASSUME ~seeded
               PROVE  /\ eth' = 0
                      /\ \A l \in Legs : /\ fees'[l] = 0 /\ acc'[l] = 0
                                         /\ \A a \in Accounts : pending'[l][a] = 0
    BY <1>3 DEF NothingYet
  <2>1. /\ eth' = 0 /\ \A l \in Legs : fees'[l] = 0 /\ acc'[l] = 0
    BY <1>2, <1>3 DEF HInv, NothingYet, GoodPoke
  <2>2. ASSUME NEW l \in Legs, NEW a \in Accounts PROVE pending'[l][a] = 0
    <3>1. ids \cap HeldBy(a) \in SUBSET Live
      BY DEF Live
    <3>2. Due(l, ids \cap HeldBy(a), p.acc) = 0 /\ pending[l][a] = 0
      BY <1>2, <3>1, NothingDue DEF HInv, NothingYet
    <3>3. QED
      BY <3>2
  <2>3. QED
    BY <2>1, <2>2
<1>13. FeesHeld' /\ OrphansForfeited'
  BY <1>2, <1>3 DEF GoodPoke, FeesHeld, OrphansForfeited
<1>14. ForfeitReady'
  BY <1>2, <1>3 DEF GoodPoke, HInv, ForfeitReady
<1>15. QuarantineIsTx'
  BY <1>3 DEF HInv, QuarantineIsTx
<1>16. QED
  BY <1>4, <1>8, <1>10, <1>11, <1>12, <1>13, <1>14, <1>15 DEF HInv

\* Every NFT transfer keeps the invariant: the id is captured for its owner.
LEMMA NFTTransferKeepsHInv ==
    ASSUME HInv, NEW from \in Accounts, NEW to \in Accounts, NEW i \in DOMAIN owned[from],
           NFTTransfer(from, to, i)
    PROVE  HInv'
<1> DEFINE id == owned[from][i]
           X == {id}
           p == Unpoked(bal)
<1>1. /\ IInv /\ IdInv /\ ShareTypeOK /\ bal \in [Accounts -> Nat] /\ fees["PRISM"] <= bal[Pool]
      /\ pending \in [Legs -> [Accounts -> Nat]] /\ eth \in Nat
      /\ ShareNFTTransfer(from, to, i)
  BY DEF HInv, IInv, ShareTypeOK, FeesHeld, TypeOK, NFTTransfer
<1>2. GoodPoke(p, bal)
  <2>1. p \in Poked(bal)
    BY DEF Poked
  <2>2. QED
    BY <1>1, <2>1, PokeGood
<1>3. p.acc = acc /\ p.bal = bal /\ p.eth = eth
  BY DEF Unpoked
<1>4. /\ seeded' = seeded /\ frames' = frames /\ earned' = earned /\ before' = before
      /\ lo' = lo /\ nextId' = nextId /\ totalShares' = totalShares /\ acc' = acc /\ eth' = eth
      /\ fees' = fees /\ forfeit' = forfeit /\ orphaned' = orphaned
      /\ pending' = Credited(from, X, acc)
      /\ debt' = [l \in Legs |-> [debt[l] EXCEPT ![id] = acc[l]]]
  BY <1>1 DEF NFTTransfer, ShareNFTTransfer, txVars
<1>5. IInv' /\ IdInv' /\ Live' = Live
  BY <1>1, NFTTransferKeepsIInv, NFTTransferHeld
<1>6. /\ bal'[Hook] = bal[Hook] /\ bal'[Pool] = bal[Pool]
  <2>1. from \notin Excluded /\ to \notin Excluded
    BY <1>1 DEF IInv, ExcludedHoldNothing, ShareNFTTransfer, MayTakeShare
  <2>2. Hook \in Accounts \ {from, to} /\ Pool \in Accounts \ {from, to}
    BY <2>1
  <2>3. bal' = Paid(bal, from, to, UNIT) /\ UNIT <= bal[from]
    BY <1>1 DEF ShareNFTTransfer
  <2>4. UNIT \in Nat
    OBVIOUS
  <2>5. \A a \in Accounts \ {from, to} : Paid(bal, from, to, UNIT)[a] = bal[a]
    BY <1>1, <2>3, <2>4, PaidBalances
  <2>6. QED
    BY <2>2, <2>3, <2>5
<1>7. X \in SUBSET Live /\ X \in SUBSET Ids /\ X \cap (Live \ X) = {} /\ Live' = (Live \ X) \cup X
  <2>1. id \in Live
    BY DEF Live, HeldBy
  <2>2. QED
    BY <1>5, <2>1, LiveFacts
<1> HIDE DEF p
<1>8. ASSUME NEW l \in Legs
      PROVE  /\ pending'[l] = [pending[l] EXCEPT ![from] = @ + Due(l, X, acc)]
             /\ Due(l, X, acc) \in Nat
             /\ Scale * Due(l, X, acc) <= SumFunctionOnSet(AccruedBy(l, p), X)
  <2>1. /\ Due(l, X, acc) \in Nat
        /\ Scale * Due(l, X, acc) <= SumFunctionOnSet(AccruedBy(l, p), X)
    BY <1>2, <1>3, <1>7, DueBound
  <2>2. pending'[l] = [pending[l] EXCEPT ![from] = @ + Due(l, X, acc)]
    BY <1>4 DEF Credited
  <2>3. QED
    BY <2>1, <2>2
<1>9. ASSUME NEW l \in Legs
      PROVE  /\ pending'[l] \in [Accounts -> Nat] /\ AllPending(l) \in Nat
             /\ AllPending(l)' = AllPending(l) + Due(l, X, acc)
  BY <1>1, <1>8, CreditOne
<1>10. ASSUME NEW l \in Legs
       PROVE  /\ \A x \in Live \ X : debt'[l][x] = debt[l][x]
              /\ \A x \in X : debt'[l][x] = p.acc[l]
  <2>1. debt[l] \in [Ids -> Nat] /\ id \in Ids
    BY <1>7 DEF HInv, TypeOK
  <2>2. debt'[l] = [debt[l] EXCEPT ![id] = acc[l]]
    BY <1>4
  <2>3. QED
    BY <1>3, <1>7, <2>1, <2>2
<1>11. debt' \in [Legs -> [Ids -> Nat]] /\ Behind'
  <2>1. debt \in [Legs -> [Ids -> Nat]] /\ acc \in [Legs -> Nat] /\ id \in Ids
    BY <1>7 DEF HInv, TypeOK
  <2>2. debt' \in [Legs -> [Ids -> Nat]]
    BY <1>4, <2>1
  <2>3. ASSUME NEW l \in Legs, NEW x \in Ids PROVE debt'[l][x] <= acc'[l]
    <3>1. debt[l][x] \in Nat /\ acc[l] \in Nat /\ debt[l][x] <= acc[l]
      BY LiveFacts
    <3>2. debt'[l][x] \in {acc[l], debt[l][x]} /\ acc'[l] = acc[l]
      BY <1>4, <2>1
    <3>3. QED
      BY <3>1, <3>2
  <2>4. QED
    BY <2>2, <2>3 DEF Behind
<1>12. pending' \in [Legs -> [Accounts -> Nat]]
  <2>1. pending' = [l \in Legs |-> pending'[l]]
    BY <1>4 DEF Credited
  <2>2. QED
    BY <1>9, <2>1
<1> HIDE DEF id, X
<1>13. Funded'
  <2>1. ASSUME NEW l \in Legs
        PROVE  Scale * AllPending(l)' + SumFunctionOnSet(Accrued(l)', Live')
                 <= Scale * Reserve(l)'
    <3>1. acc'[l] = p.acc[l]
      BY <1>3, <1>4
    <3>2. /\ Reserve(l) <= ReserveAt(l, bal, eth)
          /\ Reserve(l)' = ReserveAt(l, p.bal, p.eth)
      <4>1. bal[Hook] \in Nat
        BY <1>1
      <4>2. QED
        BY <1>1, <1>3, <1>4, <1>6, <4>1 DEF Reserve, ReserveAt
    <3>3. QED
      BY <1>2, <1>7, <1>8, <1>9, <1>10, <3>1, <3>2, CreditsFunded
  <2>2. QED
    BY <2>1 DEF Funded
<1>14. TypeOK'
  BY <1>4, <1>11, <1>12 DEF HInv, TypeOK
<1>15. NothingYet'
  <2> SUFFICES ASSUME ~seeded
               PROVE  /\ eth' = 0
                      /\ \A l \in Legs : /\ fees'[l] = 0 /\ acc'[l] = 0
                                         /\ \A a \in Accounts : pending'[l][a] = 0
    BY <1>4 DEF NothingYet
  <2>1. /\ eth' = 0 /\ \A l \in Legs : fees'[l] = 0 /\ acc'[l] = 0
    BY <1>4 DEF HInv, NothingYet
  <2>2. ASSUME NEW l \in Legs, NEW a \in Accounts PROVE pending'[l][a] = 0
    <3>1. Due(l, X, acc) = 0 /\ pending[l][a] = 0 /\ pending[l][from] = 0
      BY <1>2, <1>3, <1>7, NothingDue DEF HInv, NothingYet
    <3>2. pending'[l] = [pending[l] EXCEPT ![from] = 0 + 0]
      BY <1>8, <3>1
    <3>3. QED
      BY <1>1, <3>1, <3>2
  <2>3. QED
    BY <2>1, <2>2
<1>16. FeesHeld' /\ OrphansForfeited' /\ ForfeitReady' /\ QuarantineIsTx'
  BY <1>4, <1>6 DEF HInv, FeesHeld, OrphansForfeited, ForfeitReady, QuarantineIsTx
<1>17. QED
  BY <1>5, <1>11, <1>13, <1>14, <1>15, <1>16 DEF HInv

\* A step that moves no money, no share and no credit keeps the invariant if it
\* keeps the parts about flags and fees.
LEMMA QuietKeepsHInv ==
    ASSUME HInv, UNCHANGED <<shareVars, acc, debt, pending, eth>>,
           TypeOK', FeesHeld', NothingYet', ForfeitReady', OrphansForfeited', QuarantineIsTx'
    PROVE  HInv'
<1>1. /\ bal' = bal /\ owned' = owned /\ nextId' = nextId /\ totalShares' = totalShares
      /\ acc' = acc /\ debt' = debt /\ pending' = pending /\ eth' = eth
  BY DEF shareVars
<1>2. IInv' /\ IdInv' /\ Live' = Live
  BY <1>1, SameShares
  DEF HInv, IInv, ShareTypeOK, NoUnbackedShares, ExcludedHoldNothing, Shares, Whole
<1>3. Behind'
  BY <1>1 DEF HInv, Behind
<1>4. Funded'
  <2>1. ASSUME NEW l \in Legs
        PROVE  /\ AllPending(l)' = AllPending(l) /\ Accrued(l)' = Accrued(l)
               /\ Reserve(l)' = Reserve(l)
    BY <1>1 DEF AllPending, Accrued, Reserve
  <2>2. \A l \in Legs :
          Scale * AllPending(l) + SumFunctionOnSet(Accrued(l), Live) <= Scale * Reserve(l)
    BY DEF HInv, Funded
  <2>3. QED
    BY <1>2, <2>1, <2>2 DEF Funded
<1>5. QED
  BY <1>2, <1>3, <1>4 DEF HInv

\* The seed takes out nothing that was promised: nothing is, before it.
LEMMA SeedKeepsHInv ==
    ASSUME HInv, NEW amount \in Amounts, Seed(amount)
    PROVE  HInv'
<1>1. /\ IInv /\ IdInv /\ bal \in [Accounts -> Nat] /\ ~seeded /\ amount \in Nat
      /\ amount <= bal[Hook] /\ bal' = Paid(bal, Hook, Pool, amount)
      /\ seeded' = TRUE /\ forfeit' = TRUE
      /\ owned' = owned /\ nextId' = nextId /\ totalShares' = totalShares
      /\ acc' = acc /\ debt' = debt /\ pending' = pending /\ eth' = eth /\ fees' = fees
      /\ lo' = lo /\ orphaned' = orphaned /\ frames' = frames /\ earned' = earned
      /\ before' = before
  BY DEF HInv, IInv, ShareTypeOK, Seed
<1>2. /\ bal' \in [Accounts -> Nat] /\ \A u \in Users : bal'[u] = bal[u]
  <2>1. Hook \in Accounts /\ Pool \in Accounts /\ \A u \in Users : u \in Accounts \ {Hook, Pool}
    BY DEF Users
  <2>2. /\ Paid(bal, Hook, Pool, amount) \in [Accounts -> Nat]
        /\ \A a \in Accounts \ {Hook, Pool} : Paid(bal, Hook, Pool, amount)[a] = bal[a]
    BY <1>1, <2>1, PaidBalances
  <2>3. QED
    BY <1>1, <2>1, <2>2
<1>3. IInv' /\ IdInv' /\ Live' = Live
  BY <1>1, <1>2, BalancesKeepIInv, SameShares
<1>4. /\ eth = 0
      /\ \A l \in Legs : /\ fees[l] = 0 /\ acc[l] = 0
                         /\ \A a \in Accounts : pending[l][a] = 0
  BY <1>1 DEF HInv, NothingYet
<1>5. Funded'
  <2>1. ASSUME NEW l \in Legs
        PROVE  Scale * AllPending(l)' + SumFunctionOnSet(Accrued(l)', Live')
                 <= Scale * Reserve(l)'
    <3> DEFINE q == pending'[l]
               g == Accrued(l)'
    <3>1. \A a \in Accounts : q[a] = 0
      BY <1>1, <1>4
    <3>2. IsFiniteSet(Live) /\ \A id \in Live : g[id] = 0
      <4>1. \A id \in Ids : debt[l][id] = 0
        BY <1>4, LiveFacts
      <4>2. QED
        BY <1>1, <1>4, <4>1, LiveFacts DEF Accrued
    <3>3. AllPending(l)' = SumFunctionOnSet(q, Accounts)
      BY DEF AllPending
    <3> HIDE DEF q, g
    <3>4. SumFunctionOnSet(q, Accounts) = 0 * Cardinality(Accounts) /\ Cardinality(Accounts) \in Nat
      BY <3>1, SumConstant, FS_CardinalityType
    <3>5. SumFunctionOnSet(g, Live) = 0 * Cardinality(Live) /\ Cardinality(Live) \in Nat
      BY <3>2, SumConstant, FS_CardinalityType
    <3>6. Reserve(l)' \in Nat
      BY <1>1, <1>2, <1>4 DEF Reserve
    <3>7. Scale * 0 + 0 <= Scale * Reserve(l)'
      BY <3>6, Scaled
    <3>8. AllPending(l)' = 0 /\ SumFunctionOnSet(Accrued(l)', Live') = 0
      BY <1>3, <3>3, <3>4, <3>5 DEF g
    <3>9. QED
      BY <3>7, <3>8
  <2>2. QED
    BY <2>1 DEF Funded
<1>6. TypeOK'
  BY <1>1 DEF HInv, TypeOK
<1>7. Behind' /\ ForfeitReady' /\ OrphansForfeited' /\ QuarantineIsTx' /\ NothingYet'
  BY <1>1 DEF HInv, Behind, ForfeitReady, OrphansForfeited, QuarantineIsTx, NothingYet
<1>8. FeesHeld'
  <2>1. fees'["PRISM"] = 0 /\ bal'[Pool] \in Nat
    BY <1>1, <1>2, <1>4 DEF Legs
  <2>2. QED
    BY <2>1 DEF FeesHeld
<1>9. QED
  BY <1>3, <1>5, <1>6, <1>7, <1>8 DEF HInv

\* Entering and leaving calls, swaps and the end of the transaction keep the
\* invariant.
LEMMA SurroundingsKeepHInv ==
    ASSUME HInv, Return \/ Unlock \/ Relock \/ EndTx \/ (\E l \in Legs : Swap(l))
                   \/ UNCHANGED vars
    PROVE  HInv'
<1>1. /\ TypeOK /\ FeesHeld /\ NothingYet /\ ForfeitReady /\ OrphansForfeited /\ QuarantineIsTx
      /\ nextId \in 0..MaxId
  BY DEF HInv, IInv, ShareTypeOK
<1>2. CASE Return \/ Unlock \/ Relock \/ UNCHANGED vars
  <2>1. UNCHANGED <<shareVars, forfeit, acc, debt, pending, eth, fees, lo, orphaned,
                    seeded, earned, before>>
    BY <1>2 DEF Return, Unlock, Relock, Pop, vars, txVars
  <2>2. /\ forfeit' = forfeit /\ acc' = acc /\ debt' = debt /\ pending' = pending /\ eth' = eth
        /\ fees' = fees /\ lo' = lo /\ orphaned' = orphaned /\ seeded' = seeded
        /\ earned' = earned /\ before' = before /\ bal' = bal /\ nextId' = nextId
        /\ totalShares' = totalShares
    BY <2>1 DEF shareVars
  <2>3. frames' \in Seq({"pool", "send"})
    <3>1. frames \in Seq({"pool", "send"})
      BY <1>1 DEF TypeOK
    <3>2. \/ frames' = frames
          \/ frames' = Append(frames, "pool")
          \/ frames # << >> /\ frames' = SubSeq(frames, 1, Len(frames) - 1)
      BY <1>2 DEF Return, Unlock, Relock, Pop, vars, txVars
    <3>3. ASSUME NEW q \in Seq({"pool", "send"})
          PROVE  /\ Append(q, "pool") \in Seq({"pool", "send"})
                 /\ q # << >> => SubSeq(q, 1, Len(q) - 1) \in Seq({"pool", "send"})
      <4>1. Append(q, "pool") \in Seq({"pool", "send"})
        OBVIOUS
      <4>2. q # << >> => Len(q) - 1 \in 0..Len(q)
        OBVIOUS
      <4>3. q # << >> => SubSeq(q, 1, Len(q) - 1) \in Seq({"pool", "send"})
        BY <4>2
      <4>4. QED
        BY <4>1, <4>3
    <3>4. QED
      BY <3>1, <3>2, <3>3
  <2>4. TypeOK'
    BY <1>1, <2>2, <2>3 DEF TypeOK
  <2>5. FeesHeld' /\ NothingYet' /\ ForfeitReady' /\ OrphansForfeited' /\ QuarantineIsTx'
    BY <1>1, <2>2 DEF FeesHeld, NothingYet, ForfeitReady, OrphansForfeited, QuarantineIsTx
  <2>6. QED
    BY <2>1, <2>4, <2>5, QuietKeepsHInv
<1>3. CASE EndTx
  <2>1. /\ UNCHANGED <<shareVars, acc, debt, pending, eth>>
        /\ forfeit' = forfeit /\ acc' = acc /\ debt' = debt /\ pending' = pending /\ eth' = eth
        /\ fees' = fees /\ lo' = 0 /\ orphaned' = orphaned /\ seeded' = seeded
        /\ earned' = earned /\ before' = nextId /\ frames' = frames
        /\ bal' = bal /\ nextId' = nextId /\ totalShares' = totalShares
    BY <1>3 DEF EndTx, shareVars
  <2>2. TypeOK'
    BY <1>1, <2>1 DEF TypeOK
  <2>3. FeesHeld' /\ NothingYet' /\ ForfeitReady' /\ OrphansForfeited' /\ QuarantineIsTx'
    BY <1>1, <2>1 DEF FeesHeld, NothingYet, ForfeitReady, OrphansForfeited, QuarantineIsTx
  <2>4. QED
    BY <2>1, <2>2, <2>3, QuietKeepsHInv
<1>4. ASSUME NEW l \in Legs, Swap(l) PROVE HInv'
  <2>1. /\ UNCHANGED <<shareVars, acc, debt, pending, eth>>
        /\ forfeit' = forfeit /\ acc' = acc /\ debt' = debt /\ pending' = pending /\ eth' = eth
        /\ lo' = lo /\ seeded' = seeded /\ seeded /\ frames' = frames /\ before' = before
        /\ fees' = [fees EXCEPT ![l] = @ + Fee[l]] /\ earned' = [earned EXCEPT ![l] = @ + Fee[l]]
        /\ orphaned' = (orphaned \/ totalShares = 0)
        /\ (l = "PRISM" => fees[l] + Fee[l] <= bal[Pool])
        /\ bal' = bal /\ nextId' = nextId /\ totalShares' = totalShares
    BY <1>4 DEF Swap, shareVars
  <2>2. fees' \in [Legs -> Nat] /\ earned' \in [Legs -> Nat]
    <3>1. Fee[l] \in Nat /\ fees \in [Legs -> Nat] /\ earned \in [Legs -> Nat]
      BY <1>1 DEF TypeOK, Legs
    <3>2. QED
      BY <2>1, <3>1
  <2>3. TypeOK'
    BY <1>1, <2>1, <2>2 DEF TypeOK
  <2>4. FeesHeld'
    <3>1. fees \in [Legs -> Nat]
      BY <1>1 DEF TypeOK
    <3>2. QED
      BY <1>1, <2>1, <3>1 DEF FeesHeld, Legs
  <2>5. NothingYet' /\ ForfeitReady' /\ OrphansForfeited' /\ QuarantineIsTx'
    BY <1>1, <2>1 DEF NothingYet, ForfeitReady, OrphansForfeited, QuarantineIsTx
  <2>6. QED
    BY <2>1, <2>3, <2>4, <2>5, QuietKeepsHInv
<1>5. QED
  BY <1>2, <1>3, <1>4

\* A poke by itself claims nothing.
LEMMA PokeFeesKeepsHInv ==
    ASSUME HInv, PokeFees
    PROVE  HInv'
<1>1. PICK p \in Poked(bal) : Books(p) /\ forfeit' = p.forfeit /\ eth' = p.eth
  BY DEF PokeFees
<1>2. UNCHANGED <<owned, nextId, totalShares, debt, pending, lo, txVars>>
  BY DEF PokeFees
<1>3. /\ pending \in [Legs -> [Accounts -> Nat]] /\ debt \in [Legs -> [Ids -> Nat]]
      /\ pending' = pending /\ debt' = debt
  BY <1>2 DEF HInv, TypeOK
<1>4. ASSUME NEW l \in Legs, NEW a \in Accounts
      PROVE  Due(l, {} \cap HeldBy(a), p.acc) = 0
  <2>1. {id \in {} \cap HeldBy(a) : ~Quarantined(id)} = {}
    OBVIOUS
  <2>2. SumFunctionOnSet(Owed(l, p.acc), {}) = 0
    BY SumRemove, FS_EmptySet
  <2>3. QED
    BY <2>1, <2>2 DEF Due
<1>5. pending' = [l \in Legs |-> [a \in Accounts |->
                     pending[l][a] + Due(l, {} \cap HeldBy(a), p.acc)]]
  <2>1. \A l \in Legs, a \in Accounts :
          pending[l][a] = pending[l][a] + Due(l, {} \cap HeldBy(a), p.acc)
    <3>1. ASSUME NEW l \in Legs, NEW a \in Accounts
          PROVE  pending[l][a] = pending[l][a] + Due(l, {} \cap HeldBy(a), p.acc)
      <4>1. pending[l][a] \in Nat
        BY <1>3
      <4>2. QED
        BY <1>4, <4>1
    <3>2. QED
      BY <3>1
  <2>2. pending' = [l \in Legs |-> [a \in Accounts |-> pending[l][a]]]
    BY <1>3
  <2>3. QED
    BY <2>1, <2>2
<1>6. debt' = [l \in Legs |-> [id \in Ids |->
                  IF id \in {} \cap Live THEN p.acc[l] ELSE debt[l][id]]]
  BY <1>3
<1>7. QED
  BY <1>1, <1>2, <1>5, <1>6, ClaimKeepsHInv

\* At construction nothing is promised.
LEMMA InitFunded == Init => HInv
<1> SUFFICES ASSUME Init PROVE HInv
  OBVIOUS
<1>1. /\ IInv /\ IdInv /\ nextId = 0 /\ Live = {} /\ bal \in [Accounts -> Nat]
  <2>1. IInv /\ IdInv
    BY InitGood DEF Init
  <2>2. nextId = 0 /\ \A a \in Accounts : HeldBy(a) = {}
    BY DEF Init, ShareInit, HeldBy
  <2>3. QED
    BY <2>1, <2>2 DEF Live, IInv, ShareTypeOK
<1>2. /\ seeded = FALSE /\ forfeit = FALSE /\ orphaned = FALSE
      /\ acc = [l \in Legs |-> 0] /\ debt = [l \in Legs |-> [id \in Ids |-> 0]]
      /\ pending = [l \in Legs |-> [a \in Accounts |-> 0]]
      /\ eth = 0 /\ fees = [l \in Legs |-> 0] /\ lo = 0 /\ frames = << >>
      /\ earned = [l \in Legs |-> 0] /\ before = 0
  BY DEF Init
<1>3. TypeOK
  <2>1. frames \in Seq({"pool", "send"}) /\ lo \in 0..MaxId /\ before \in 0..MaxId
    BY <1>2
  <2>2. /\ acc \in [Legs -> Nat] /\ debt \in [Legs -> [Ids -> Nat]]
        /\ pending \in [Legs -> [Accounts -> Nat]] /\ fees \in [Legs -> Nat]
        /\ earned \in [Legs -> Nat] /\ eth \in Nat
    BY <1>2
  <2>3. QED
    BY <1>2, <2>1, <2>2 DEF TypeOK
<1>4. Behind /\ NothingYet /\ ForfeitReady /\ OrphansForfeited /\ QuarantineIsTx
  BY <1>1, <1>2 DEF Behind, NothingYet, ForfeitReady, OrphansForfeited, QuarantineIsTx
<1>5. FeesHeld
  <2>1. fees["PRISM"] = 0 /\ bal[Pool] \in Nat
    BY <1>1, <1>2 DEF Legs
  <2>2. QED
    BY <2>1 DEF FeesHeld
<1>6. Funded
  <2>1. ASSUME NEW l \in Legs
        PROVE  Scale * AllPending(l) + SumFunctionOnSet(Accrued(l), Live) <= Scale * Reserve(l)
    <3> DEFINE q == pending[l]
               g == Accrued(l)
    <3>1. \A a \in Accounts : q[a] = 0
      BY <1>2
    <3>2. AllPending(l) = SumFunctionOnSet(q, Accounts)
      BY DEF AllPending
    <3> HIDE DEF q, g
    <3>3. SumFunctionOnSet(q, Accounts) = 0 * Cardinality(Accounts) /\ Cardinality(Accounts) \in Nat
      BY <3>1, SumConstant, FS_CardinalityType
    <3>4. SumFunctionOnSet(g, {}) = 0
      BY SumRemove, FS_EmptySet
    <3>5. Reserve(l) \in Nat
      BY <1>1, <1>2 DEF Reserve
    <3>6. Scale * 0 + 0 <= Scale * Reserve(l)
      BY <3>5, Scaled
    <3>7. AllPending(l) = 0 /\ SumFunctionOnSet(Accrued(l), Live) = 0
      BY <1>1, <3>2, <3>3, <3>4 DEF g
    <3>8. QED
      BY <3>6, <3>7
  <2>2. QED
    BY <2>1 DEF Funded
<1>7. QED
  BY <1>1, <1>3, <1>4, <1>5, <1>6 DEF HInv

\* Every step keeps the invariant.
LEMMA StepKeepsHInv == HInv /\ [Next]_vars => HInv'
<1> SUFFICES ASSUME HInv, [Next]_vars PROVE HInv'
  OBVIOUS
<1>1. ASSUME NEW amount \in Amounts, Seed(amount) PROVE HInv'
  BY <1>1, SeedKeepsHInv
<1>2. ASSUME NEW from \in Users \cup {Pool, Vault}, NEW to \in Accounts, NEW amount \in Amounts,
             Transfer(from, to, amount)
      PROVE  HInv'
  BY <1>2, TransferKeepsHInv
<1>3. ASSUME NEW user \in Users, NEW max \in Amounts, SyncNFTs(user, max) PROVE HInv'
  BY <1>3, SyncKeepsHInv
<1>4. ASSUME NEW from \in Accounts, NEW to \in Accounts, NEW i \in DOMAIN owned[from],
             NFTTransfer(from, to, i)
      PROVE  HInv'
  BY <1>4, NFTTransferKeepsHInv
<1>5. CASE PokeFees
  BY <1>5, PokeFeesKeepsHInv
<1>6. ASSUME NEW ids, Claim(ids) PROVE HInv'
  <2>1. PICK p \in Poked(bal) :
             /\ Books(p) /\ forfeit' = p.forfeit /\ eth' = p.eth
             /\ pending' = [l \in Legs |-> [a \in Accounts |->
                               pending[l][a] + Due(l, ids \cap HeldBy(a), p.acc)]]
             /\ debt' = [l \in Legs |-> [id \in Ids |->
                               IF id \in ids \cap Live THEN p.acc[l] ELSE debt[l][id]]]
    BY <1>6 DEF Claim
  <2>2. UNCHANGED <<owned, nextId, totalShares, lo, txVars>>
    BY <1>6 DEF Claim
  <2>3. QED
    BY <2>1, <2>2, ClaimKeepsHInv
<1>7. ASSUME NEW caller \in Users, NEW recipient \in Users, NEW sent \in BOOLEAN,
             WithdrawPending(caller, recipient, sent)
      PROVE  HInv'
  BY <1>7, WithdrawKeepsHInv
<1>8. CASE Return \/ Unlock \/ Relock \/ EndTx \/ (\E l \in Legs : Swap(l)) \/ UNCHANGED vars
  BY <1>8, SurroundingsKeepHInv
<1>9. QED
  BY <1>1, <1>2, <1>3, <1>4, <1>5, <1>6, <1>7, <1>8 DEF Next

\* The invariant is enough for solvency: rounding only loses.
LEMMA FundedIsSolvent == HInv => Solvent
<1> SUFFICES ASSUME HInv, NEW l \in Legs PROVE AllPending(l) + AllOwed(l) <= Reserve(l)
  BY DEF Solvent
<1> DEFINE f == Owed(l, acc)
           g == Accrued(l)
           P == AllPending(l)
           O == SumFunctionOnSet(f, Live)
           S == SumFunctionOnSet(g, Live)
           R == Reserve(l)
<1>1. \A id \in Ids : g[id] \in Nat /\ f[id] = g[id] \div Scale
  BY LiveFacts DEF Owed, Accrued
<1>2. P \in Nat
  BY PendingNat DEF HInv, TypeOK
<1>3. R \in Nat
  BY DEF HInv, TypeOK, IInv, ShareTypeOK, Reserve
<1>4. Scale * P + S <= Scale * R
  BY DEF HInv, Funded
<1> HIDE DEF f, g, P, R
<1>5. \A id \in Live : f[id] \in Nat /\ g[id] \in Nat /\ Scale * f[id] <= g[id]
  BY <1>1, LiveFacts, RoundDown
<1>6. Scale * O <= S
  BY <1>5, LiveFacts, SumScaled
<1>7. O \in Nat
  BY <1>5, LiveFacts, SumRemove
<1>8. S \in Nat
  BY <1>5, LiveFacts, SumRemove
<1> HIDE DEF O, S
<1>9. Scale * (P + O) = Scale * P + Scale * O
  BY <1>2, <1>7, Scaled
<1> DEFINE kP == Scale * P
           kO == Scale * O
           kR == Scale * R
           kPO == Scale * (P + O)
<1>10. /\ kP \in Int /\ kO \in Int /\ kR \in Int /\ kPO = kP + kO
       /\ kO <= S /\ kP + S <= kR
  BY <1>2, <1>3, <1>4, <1>6, <1>7, <1>9, Scaled
<1>11. kPO <= kR
  <2> HIDE DEF kP, kO, kR, kPO
  <2>1. QED
    BY <1>8, <1>10
<1>12. P + O <= R
  BY <1>2, <1>3, <1>7, <1>11, Scaled
<1>13. QED
  BY <1>12 DEF P, O, R, f, AllOwed

-----------------------------------------------------------------------------
(* The theorems.                                                           *)

\* The inductive invariant holds in every reachable state, during sends and
\* with the PoolManager unlocked included.
THEOREM HookInductive == Spec => []HInv
BY InitFunded, StepKeepsHInv, PTL DEF Spec

\* Every quantity the fee layer keeps stays a natural number.
THEOREM HookTypes == Spec => []TypeOK
BY HookInductive, PTL DEF HInv

\* The main result: at every moment the contract holds at least what it has
\* promised on each leg, for any number of holders, any amounts and any scale
\* (credits are made in _captureAndCreditPending, collections in _pokeFees).
THEOREM AlwaysSolvent == Spec => []Solvent
BY FundedIsSolvent, HookInductive, PTL

\* The checked subtraction of a debt from its accumulator never reverts.
THEOREM DebtsNeverRunAhead == Spec => []DebtBehind
<1>1. HInv => DebtBehind
  BY LiveFacts DEF DebtBehind
<1>2. QED
  BY <1>1, HookInductive, PTL

\* Fees that accrued while nobody held a share are never distributed.
THEOREM OrphansAreForfeited == Spec => []OrphansForfeited
BY HookInductive, PTL DEF HInv

-----------------------------------------------------------------------------
(* What a step does to the credits of one account.                         *)

\* A step captures some of the shares of u, at accumulators a no older than the
\* present ones, pays u the amount x, and leaves u the other shares with their
\* debts, none of them newly quarantined.
Captures(u, l, x) ==
    \E X \in SUBSET HeldBy(u), a \in [Legs -> Nat] :
       /\ acc[l] <= a[l] /\ acc[l] <= acc'[l]
       /\ pending'[l][u] + x = pending[l][u] + Due(l, X, a)
       /\ \A id \in HeldBy(u) \ X : /\ id \in HeldBy(u)'
                                    /\ debt'[l][id] = debt[l][id]
                                    /\ ~Quarantined(id) => ~Quarantined(id)'

\* Nothing is due on nothing.
LEMMA DueNothing ==
    ASSUME NEW l, NEW a
    PROVE  Due(l, {}, a) = 0
<1>1. {id \in {} : ~Quarantined(id)} = {}
  OBVIOUS
<1>2. SumFunctionOnSet(Owed(l, a), {}) = 0
  BY SumRemove, FS_EmptySet
<1>3. QED
  BY <1>1, <1>2 DEF Due

\* What is due on live shares is natural.
LEMMA DueNat ==
    ASSUME HInv, NEW l \in Legs, NEW X \in SUBSET Live
    PROVE  Due(l, X, acc) \in Nat
<1>1. bal \in [Accounts -> Nat] /\ fees["PRISM"] <= bal[Pool] /\ Unpoked(bal) \in Poked(bal)
  BY DEF HInv, IInv, ShareTypeOK, FeesHeld, Poked
<1>2. GoodPoke(Unpoked(bal), bal) /\ Unpoked(bal).acc = acc
  BY <1>1, PokeGood DEF Unpoked
<1>3. QED
  BY <1>2, DueBound

\* A step that leaves u all its shares, with their debts, captures none.
LEMMA CapturesNothing ==
    ASSUME HInv, NEW u \in Users, NEW l \in Legs,
           acc[l] <= acc'[l], pending'[l][u] = pending[l][u],
           \A id \in HeldBy(u) : /\ id \in HeldBy(u)'
                                 /\ debt'[l][id] = debt[l][id]
                                 /\ ~Quarantined(id) => ~Quarantined(id)'
    PROVE  Captures(u, l, 0)
<1>1. acc \in [Legs -> Nat] /\ acc[l] \in Nat /\ pending[l][u] \in Nat
  BY DEF HInv, TypeOK, Users
<1>2. acc[l] <= acc[l] /\ pending'[l][u] + 0 = pending[l][u] + Due(l, {}, acc)
  BY <1>1, DueNothing
<1>3. {} \in SUBSET HeldBy(u) /\ HeldBy(u) \ {} = HeldBy(u)
  OBVIOUS
<1>4. QED
  BY <1>1, <1>2, <1>3 DEF Captures

\* A realignment captures what leaves its loser.
LEMMA RealignCaptures ==
    ASSUME HInv, NEW plan, NEW b, GoodPlan(plan, b), Realign(plan),
           NEW p, GoodPoke(p, b), RealignFees(plan, p), seeded' = seeded, before' = before,
           NEW u \in Users, NEW l \in Legs,
           NEW x, pending'[l][u] + x
                    = pending[l][u]
                        + (IF u = plan.loser THEN Due(l, Leaving(plan), p.acc) ELSE 0)
    PROVE  Captures(u, l, x)
<1> DEFINE X == IF u = plan.loser THEN Leaving(plan) ELSE {}
<1>1. /\ u \in Accounts /\ plan.loser \in Accounts /\ pending[l][u] \in Nat
      /\ lo \in 0..MaxId /\ nextId \in Nat
  BY DEF Users, GoodPlan, HInv, TypeOK, IInv, ShareTypeOK
<1>2. X \in SUBSET HeldBy(u)
  BY PlanSets
<1>3. /\ p.acc \in [Legs -> Nat] /\ acc[l] <= p.acc[l] /\ acc[l] <= acc'[l]
  BY RealignBooks DEF GoodPoke
<1>4. pending'[l][u] + x = pending[l][u] + Due(l, X, p.acc)
  BY DueNothing
<1>5. ASSUME NEW id \in HeldBy(u) \ X
      PROVE  id \in HeldBy(u)' /\ debt'[l][id] = debt[l][id] /\ (~Quarantined(id) => ~Quarantined(id)')
  <2>1. id \in HeldBy(u)'
    BY <1>1, PlanSets
  <2>2. id \in Live \ Leaving(plan) /\ id \in Nat /\ id <= nextId
    <3>1. id \in Live
      BY <1>1 DEF Live
    <3>2. id \notin Leaving(plan)
      <4>1. CASE u = plan.loser
        BY <4>1
      <4>2. CASE u # plan.loser
        <5>1. HeldBy(u) \cap HeldBy(plan.loser) = {}
          BY <1>1, <4>2, HeldApart DEF HInv, IInv, IdInv
        <5>2. QED
          BY <5>1, PlanSets
      <4>3. QED
        BY <4>1, <4>2
    <3>3. id \in Nat /\ id <= nextId
      BY <3>1, HeldApart DEF HInv, IInv, IdInv
    <3>4. QED
      BY <3>1, <3>2, <3>3
  <2>3. debt'[l][id] = debt[l][id]
    BY <2>2, RealignBooks
  <2>4. ~Quarantined(id) => ~Quarantined(id)'
    <3>1. lo' = IF lo = 0 /\ plan.mints > 0 THEN nextId + 1 ELSE lo
      BY DEF RealignFees, Noted
    <3>2. QED
      BY <1>1, <2>2, <3>1 DEF Quarantined
  <2>5. QED
    BY <2>1, <2>3, <2>4
<1> HIDE DEF X
<1>6. QED
  BY <1>2, <1>3, <1>4, <1>5 DEF Captures

\* What a capturing realignment does to one account.
LEMMA LoserCredited ==
    ASSUME HInv, NEW plan, NEW b, GoodPlan(plan, b), Realign(plan),
           NEW p, GoodPoke(p, b), NEW u \in Users, NEW l \in Legs,
           pending'[l] = [pending[l] EXCEPT ![plan.loser] = @ + Due(l, Leaving(plan), p.acc)]
    PROVE  pending'[l][u] + 0
             = pending[l][u] + (IF u = plan.loser THEN Due(l, Leaving(plan), p.acc) ELSE 0)
<1> DEFINE d == Due(l, Leaving(plan), p.acc)
<1>1. d \in Nat
  BY PlanSets, DueBound
<1>2. pending[l] \in [Accounts -> Nat] /\ u \in Accounts
  BY DEF HInv, TypeOK, Users
<1>3. pending'[l] = [pending[l] EXCEPT ![plan.loser] = @ + d]
  OBVIOUS
<1> HIDE DEF d
<1>4. pending'[l][u] + 0 = pending[l][u] + (IF u = plan.loser THEN d ELSE 0)
  BY <1>1, <1>2, <1>3
<1>5. QED
  BY <1>4 DEF d

\* The realignments of transfers capture for the account that loses.
LEMMA TransferCaptures ==
    ASSUME HInv, NEW from \in Users \cup {Pool, Vault}, NEW to \in Accounts,
           NEW amount \in Amounts, Transfer(from, to, amount), NEW u \in Users, NEW l \in Legs
    PROVE  Captures(u, l, 0)
<1> DEFINE b == Paid(bal, from, to, amount)
           plan == TransferPlan(from, to, amount)
<1>1. /\ IInv /\ bal \in [Accounts -> Nat] /\ fees["PRISM"] \in Nat /\ fees["PRISM"] <= bal[Pool]
      /\ amount \in Nat /\ from \in Accounts /\ u \in Accounts
      /\ pending \in [Legs -> [Accounts -> Nat]]
  BY DEF HInv, IInv, ShareTypeOK, TypeOK, Legs, FeesHeld, Users
<1>2. amount <= bal[from] - (IF from = Pool THEN fees["PRISM"] ELSE 0)
  BY DEF Transfer
<1>3. amount <= bal[from] /\ (from = Pool => amount <= bal[from] - fees["PRISM"])
  BY <1>1, <1>2
<1>4. b \in [Accounts -> Nat] /\ fees["PRISM"] <= b[Pool]
  BY <1>1, <1>3 DEF Paid
<1>5. GoodPlan(plan, b)
  BY <1>1, <1>3, TransferPlanGood
<1>6. PICK p \in PokedIf(plan.pokes, b) :
            Realign(plan) /\ RealignFees(plan, p) /\ pending' = Captured(plan, p)
  BY DEF Transfer
<1>7. seeded' = seeded /\ before' = before
  BY DEF Transfer, txVars
<1> HIDE DEF b, plan
<1>8. p \in Poked(b)
  BY <1>6 DEF PokedIf, Poked
<1>9. GoodPoke(p, b)
  BY <1>4, <1>8, PokeGood
<1>10. pending'[l] = [pending[l] EXCEPT ![plan.loser] = @ + Due(l, Leaving(plan), p.acc)]
  BY <1>6 DEF Captured, Credited
<1>11. pending'[l][u] + 0
         = pending[l][u] + (IF u = plan.loser THEN Due(l, Leaving(plan), p.acc) ELSE 0)
  BY <1>1, <1>5, <1>6, <1>9, <1>10, LoserCredited
<1>12. QED
  BY <1>5, <1>6, <1>7, <1>9, <1>11, RealignCaptures

\* So do the realignments of syncs.
LEMMA SyncCaptures ==
    ASSUME HInv, NEW user \in Users, NEW max \in Amounts, SyncNFTs(user, max),
           NEW u \in Users, NEW l \in Legs
    PROVE  Captures(u, l, 0)
<1> DEFINE plan == SyncPlan(user, max)
<1>1. /\ IInv /\ bal \in [Accounts -> Nat] /\ fees["PRISM"] <= bal[Pool]
      /\ max \in Nat /\ u \in Accounts /\ pending \in [Legs -> [Accounts -> Nat]]
  BY DEF HInv, IInv, ShareTypeOK, TypeOK, FeesHeld, Users
<1>2. GoodPlan(plan, bal)
  BY <1>1, SyncPlanGood
<1>3. PICK p \in PokedIf(plan.pokes, bal) :
            Realign(plan) /\ RealignFees(plan, p) /\ pending' = Captured(plan, p)
  BY DEF SyncNFTs
<1>4. seeded' = seeded /\ before' = before
  BY DEF SyncNFTs, txVars
<1> HIDE DEF plan
<1>5. p \in Poked(bal)
  BY <1>3 DEF PokedIf, Poked
<1>6. GoodPoke(p, bal)
  BY <1>1, <1>5, PokeGood
<1>7. pending'[l] = [pending[l] EXCEPT ![plan.loser] = @ + Due(l, Leaving(plan), p.acc)]
  BY <1>3 DEF Captured, Credited
<1>8. pending'[l][u] + 0
        = pending[l][u] + (IF u = plan.loser THEN Due(l, Leaving(plan), p.acc) ELSE 0)
  BY <1>1, <1>2, <1>3, <1>6, <1>7, LoserCredited
<1>9. QED
  BY <1>2, <1>3, <1>4, <1>6, <1>8, RealignCaptures

\* An NFT transfer captures the id that moves.
LEMMA NFTTransferCaptures ==
    ASSUME HInv, NEW from \in Accounts, NEW to \in Accounts, NEW i \in DOMAIN owned[from],
           NFTTransfer(from, to, i), NEW u \in Users, NEW l \in Legs
    PROVE  Captures(u, l, 0)
<1> DEFINE id == owned[from][i]
<1>1. /\ IInv /\ IdInv /\ ShareTypeOK /\ ShareNFTTransfer(from, to, i) /\ from # to
      /\ u \in Accounts /\ pending[l] \in [Accounts -> Nat] /\ acc \in [Legs -> Nat]
      /\ acc[l] \in Nat /\ id \in HeldBy(from)
  BY DEF HInv, IInv, NFTTransfer, ShareNFTTransfer, MayTakeShare, Users, TypeOK, HeldBy
<1>2. /\ lo' = lo /\ acc' = acc /\ pending' = Credited(from, {id}, acc)
      /\ debt' = [m \in Legs |-> [debt[m] EXCEPT ![id] = acc[m]]]
  BY DEF NFTTransfer
<1>3. /\ HeldBy(from)' = HeldBy(from) \ {id}
      /\ HeldBy(to)' = HeldBy(to) \cup {id}
      /\ \A a \in Accounts \ {from, to} : HeldBy(a)' = HeldBy(a)
  BY <1>1, NFTTransferHeld
<1>4. pending'[l] = [pending[l] EXCEPT ![from] = @ + Due(l, {id}, acc)]
  BY <1>2 DEF Credited
<1>5. \A x \in Live \ {id} : debt'[l][x] = debt[l][x]
  <2>1. debt[l] \in [Ids -> Nat]
    BY DEF HInv, TypeOK
  <2>2. debt'[l] = [debt[l] EXCEPT ![id] = acc[l]]
    BY <1>2
  <2>3. QED
    BY <2>1, <2>2, LiveFacts
<1>6. HeldBy(u) \in SUBSET Live
  BY <1>1 DEF Live
<1>7. \A x : Quarantined(x)' = Quarantined(x)
  BY <1>2 DEF Quarantined
<1> HIDE DEF id
<1>8. CASE u = from
  <2>1. pending'[l][u] + 0 = pending[l][u] + Due(l, {id}, acc)
    <3>1. {id} \in SUBSET Live
      BY <1>1, <1>6, <1>8
    <3>2. Due(l, {id}, acc) \in Nat
      BY <3>1, DueNat
    <3>3. pending'[l][u] = pending[l][u] + Due(l, {id}, acc) /\ pending[l][u] \in Nat
      BY <1>1, <1>4, <1>8
    <3>4. QED
      BY <3>2, <3>3
  <2>2. \A x \in HeldBy(u) \ {id} : /\ x \in HeldBy(u)' /\ debt'[l][x] = debt[l][x]
                                    /\ ~Quarantined(x) => ~Quarantined(x)'
    BY <1>3, <1>5, <1>6, <1>7, <1>8
  <2>3. {id} \in SUBSET HeldBy(u) /\ acc[l] <= acc[l] /\ acc[l] <= acc'[l]
    BY <1>1, <1>2, <1>8
  <2>4. QED
    BY <1>1, <2>1, <2>2, <2>3 DEF Captures
<1>9. CASE u # from
  <2>1. pending'[l][u] = pending[l][u] /\ acc[l] <= acc'[l]
    BY <1>1, <1>2, <1>4, <1>9
  <2>2. id \notin HeldBy(u)
    BY <1>1, <1>9, HeldApart DEF IdInv
  <2>3. \A x \in HeldBy(u) : /\ x \in HeldBy(u)' /\ debt'[l][x] = debt[l][x]
                             /\ ~Quarantined(x) => ~Quarantined(x)'
    BY <1>1, <1>3, <1>5, <1>6, <1>7, <1>9, <2>2
  <2>4. QED
    BY <2>1, <2>3, CapturesNothing
<1>10. QED
  BY <1>8, <1>9

\* A claim captures the shares it names.
LEMMA ClaimCaptures ==
    ASSUME HInv, NEW ids, Claim(ids), NEW u \in Users, NEW l \in Legs
    PROVE  Captures(u, l, 0)
<1>1. PICK p \in Poked(bal) :
           /\ acc' = p.acc
           /\ pending' = [m \in Legs |-> [a \in Accounts |->
                             pending[m][a] + Due(m, ids \cap HeldBy(a), p.acc)]]
           /\ debt' = [m \in Legs |-> [id \in Ids |->
                             IF id \in ids \cap Live THEN p.acc[m] ELSE debt[m][id]]]
  BY DEF Claim, Books
<1>2. owned' = owned /\ nextId' = nextId /\ totalShares' = totalShares /\ lo' = lo
  BY DEF Claim
<1>3. /\ u \in Accounts /\ bal \in [Accounts -> Nat] /\ fees["PRISM"] <= bal[Pool]
  BY DEF HInv, IInv, ShareTypeOK, FeesHeld, Users
<1>4. GoodPoke(p, bal)
  BY <1>3, PokeGood
<1>5. p.acc \in [Legs -> Nat] /\ acc[l] <= p.acc[l] /\ acc[l] <= acc'[l]
  BY <1>1, <1>4 DEF GoodPoke
<1>6. ids \cap HeldBy(u) \in SUBSET HeldBy(u)
  OBVIOUS
<1>7. HeldBy(u)' = HeldBy(u) /\ HeldBy(u) \in SUBSET Live
  BY <1>2, <1>3, SameShares DEF Live
<1>8. pending'[l][u] + 0 = pending[l][u] + Due(l, ids \cap HeldBy(u), p.acc)
  <2>1. ids \cap HeldBy(u) \in SUBSET Live
    BY <1>7
  <2>2. Due(l, ids \cap HeldBy(u), p.acc) \in Nat
    BY <1>4, <2>1, DueBound
  <2>3. pending[l][u] \in Nat
    BY <1>3 DEF HInv, TypeOK
  <2>4. pending'[l][u] = pending[l][u] + Due(l, ids \cap HeldBy(u), p.acc)
    BY <1>1, <1>3
  <2>5. QED
    BY <2>2, <2>3, <2>4
<1>9. ASSUME NEW id \in HeldBy(u) \ (ids \cap HeldBy(u))
      PROVE  /\ id \in HeldBy(u)' /\ debt'[l][id] = debt[l][id]
             /\ ~Quarantined(id) => ~Quarantined(id)'
  <2>1. id \notin ids \cap Live /\ id \in Ids
    BY <1>7, LiveFacts
  <2>2. debt'[l][id] = debt[l][id]
    BY <1>1, <2>1
  <2>3. QED
    BY <1>2, <1>7, <2>2 DEF Quarantined
<1>10. QED
  BY <1>5, <1>6, <1>8, <1>9 DEF Captures

\* What a withdrawal pays.
Withdrawn(caller, sent, u, l) ==
    IF u = caller /\ (l = "PRISM" \/ sent) THEN pending[l][u] ELSE 0

\* A withdrawal captures nothing from anybody, and pays only its caller.
LEMMA WithdrawCaptures ==
    ASSUME HInv, NEW caller \in Users, NEW recipient \in Users, NEW sent \in BOOLEAN,
           WithdrawPending(caller, recipient, sent), NEW u \in Users, NEW l \in Legs
    PROVE  Captures(u, l, Withdrawn(caller, sent, u, l))
<1> DEFINE prism == pending["PRISM"][caller]
           b == Paid(bal, Hook, recipient, prism)
           plan == TransferPlan(Hook, recipient, prism)
<1>1. /\ IInv /\ bal \in [Accounts -> Nat] /\ fees["PRISM"] <= bal[Pool]
      /\ pending \in [Legs -> [Accounts -> Nat]] /\ u \in Accounts
      /\ caller \in Accounts /\ recipient \in Accounts /\ Hook \in Excluded /\ Hook \in Accounts
  BY DEF HInv, IInv, ShareTypeOK, TypeOK, FeesHeld, Users
<1>2. prism \in Nat /\ prism <= bal[Hook]
  <2>1. pending["PRISM"] \in [Accounts -> Nat]
    BY <1>1 DEF Legs
  <2>2. QED
    BY <1>1, <2>1 DEF WithdrawPending
<1>3. /\ seeded' = seeded /\ before' = before /\ pending' = LeftPending(caller, sent)
  BY DEF WithdrawPending
<1>4. PICK p \in PokedIf(plan.pokes /\ prism > 0, b) : Realign(plan) /\ RealignFees(plan, p)
  BY DEF WithdrawPending
<1>5. pending'[l][u] = IF u = caller /\ (l = "PRISM" \/ sent) THEN 0 ELSE pending[l][u]
  <2>1. pending' = [pending EXCEPT !["PRISM"][caller] = 0,
                                   !["ETH"][caller] = IF sent THEN 0 ELSE @]
    BY <1>3 DEF LeftPending
  <2>2. CASE sent
    BY <1>1, <2>1, <2>2 DEF Legs
  <2>3. CASE ~sent
    BY <1>1, <2>1, <2>3 DEF Legs
  <2>4. QED
    BY <2>2, <2>3
<1>6. pending[l][u] \in Nat
  BY <1>1
<1>7. pending'[l][u] + Withdrawn(caller, sent, u, l) = pending[l][u] + 0
  BY <1>5, <1>6 DEF Withdrawn
<1> HIDE DEF prism
<1>8. b \in [Accounts -> Nat] /\ fees["PRISM"] <= b[Pool]
  BY <1>1, <1>2, PaidByHook
<1>9. GoodPlan(plan, b)
  BY <1>1, <1>2, TransferPlanGood
<1>10. plan.moves = 0 /\ plan.burns = 0
  BY <1>1, <1>2, ArrivalKeepsShares
<1> HIDE DEF b, plan
<1>11. GoodPoke(p, b)
  <2>1. p \in Poked(b)
    BY <1>4 DEF PokedIf, Poked
  <2>2. QED
    BY <1>8, <2>1, PokeGood
<1>12. Leaving(plan) = {}
  <2>1. plan.moves + plan.burns = 0
    BY <1>10
  <2>2. QED
    BY <1>4, <1>9, <2>1, PlanSets
<1>13. pending'[l][u] + Withdrawn(caller, sent, u, l)
         = pending[l][u] + (IF u = plan.loser THEN Due(l, Leaving(plan), p.acc) ELSE 0)
  BY <1>7, <1>12, DueNothing
<1>14. QED
  BY <1>3, <1>4, <1>9, <1>11, <1>13, RealignCaptures

\* Every step but a withdrawal only captures.
LEMMA StepCaptures ==
    ASSUME HInv, [Next]_vars, NEW u \in Users, NEW l \in Legs
    PROVE  \/ Captures(u, l, 0)
           \/ \E r \in Users, sent \in BOOLEAN :
                 /\ WithdrawPending(u, r, sent)
                 /\ Captures(u, l, Withdrawn(u, sent, u, l))
<1>1. ASSUME NEW amount \in Amounts, Seed(amount) PROVE Captures(u, l, 0)
  <2>1. /\ acc' = acc /\ pending' = pending /\ debt' = debt /\ lo' = lo
        /\ owned' = owned /\ nextId' = nextId /\ totalShares' = totalShares
    BY <1>1 DEF Seed
  <2>2. acc[l] \in Nat /\ HeldBy(u)' = HeldBy(u)
    BY <2>1, SameShares DEF HInv, TypeOK
  <2>3. QED
    BY <2>1, <2>2, CapturesNothing DEF Quarantined
<1>2. ASSUME NEW from \in Users \cup {Pool, Vault}, NEW to \in Accounts, NEW amount \in Amounts,
             Transfer(from, to, amount)
      PROVE  Captures(u, l, 0)
  BY <1>2, TransferCaptures
<1>3. ASSUME NEW user \in Users, NEW max \in Amounts, SyncNFTs(user, max) PROVE Captures(u, l, 0)
  BY <1>3, SyncCaptures
<1>4. ASSUME NEW from \in Accounts, NEW to \in Accounts, NEW i \in DOMAIN owned[from],
             NFTTransfer(from, to, i)
      PROVE  Captures(u, l, 0)
  BY <1>4, NFTTransferCaptures
<1>5. CASE PokeFees
  <2>1. PICK p \in Poked(bal) : acc' = p.acc
    BY <1>5 DEF PokeFees, Books
  <2>2. /\ pending' = pending /\ debt' = debt /\ lo' = lo
        /\ owned' = owned /\ nextId' = nextId /\ totalShares' = totalShares
    BY <1>5 DEF PokeFees
  <2>3. /\ bal \in [Accounts -> Nat] /\ fees["PRISM"] <= bal[Pool]
    BY DEF HInv, IInv, ShareTypeOK, FeesHeld
  <2>4. acc[l] <= acc'[l] /\ HeldBy(u)' = HeldBy(u)
    BY <2>1, <2>2, <2>3, PokeGood, SameShares DEF GoodPoke
  <2>5. QED
    BY <2>2, <2>4, CapturesNothing DEF Quarantined
<1>6. ASSUME NEW ids, Claim(ids) PROVE Captures(u, l, 0)
  BY <1>6, ClaimCaptures
<1>7. ASSUME NEW caller \in Users, NEW recipient \in Users, NEW sent \in BOOLEAN,
             WithdrawPending(caller, recipient, sent)
      PROVE  \/ Captures(u, l, 0)
             \/ \E r \in Users, s \in BOOLEAN :
                   /\ WithdrawPending(u, r, s)
                   /\ Captures(u, l, Withdrawn(u, s, u, l))
  <2>1. Captures(u, l, Withdrawn(caller, sent, u, l))
    BY <1>7, WithdrawCaptures
  <2>2. u # caller => Withdrawn(caller, sent, u, l) = 0
    BY DEF Withdrawn
  <2>3. QED
    BY <1>7, <2>1, <2>2
<1>8. CASE Return \/ Unlock \/ Relock \/ EndTx \/ (\E m \in Legs : Swap(m)) \/ UNCHANGED vars
  <2>1. /\ acc' = acc /\ pending' = pending /\ debt' = debt /\ (lo' = lo \/ lo' = 0)
        /\ owned' = owned /\ nextId' = nextId /\ totalShares' = totalShares
    BY <1>8 DEF Return, Unlock, Relock, Pop, EndTx, Swap, vars, shareVars
  <2>2. acc[l] \in Nat /\ HeldBy(u)' = HeldBy(u)
    BY <2>1, SameShares DEF HInv, TypeOK
  <2>3. QED
    BY <2>1, <2>2, CapturesNothing DEF Quarantined
<1>9. QED
  BY <1>1, <1>2, <1>3, <1>4, <1>5, <1>6, <1>7, <1>8 DEF Next

\* Rounding down keeps order.
LEMMA DivMonotone ==
    ASSUME NEW x \in Nat, NEW y \in Nat, x <= y, NEW d \in Nat \ {0}
    PROVE  x \div d \in Nat /\ y \div d \in Nat /\ x \div d <= y \div d
OBVIOUS

\* What every share is owed is natural.
LEMMA ClaimFacts ==
    HInv => /\ Live \subseteq Ids
            /\ acc \in [Legs -> Nat]
            /\ pending \in [Legs -> [Accounts -> Nat]]
            /\ \A l \in Legs, id \in Ids : debt[l][id] \in Nat /\ debt[l][id] <= acc[l]
BY LiveFacts DEF HInv, TypeOK

\* So it is after every step.
LEMMA ClaimFactsNext ==
    HInv' =>
      (/\ Live \subseteq Ids
       /\ acc \in [Legs -> Nat]
       /\ pending \in [Legs -> [Accounts -> Nat]]
       /\ \A l \in Legs, id \in Ids : debt[l][id] \in Nat /\ debt[l][id] <= acc[l])'
BY ClaimFacts, PTL

\* What is owed grows with the accumulators.
LEMMA OwedGrows ==
    ASSUME NEW d \in Nat, NEW c \in Nat, NEW e \in Nat, d <= c, c <= e
    PROVE  /\ (c - d) \div Scale \in Nat /\ (e - d) \div Scale \in Nat
           /\ (c - d) \div Scale <= (e - d) \div Scale
<1>1. c - d \in Nat /\ e - d \in Nat /\ c - d <= e - d
  OBVIOUS
<1>2. QED
  BY <1>1, DivMonotone

\* Capturing lowers claims by no more than it pays: what leaves the shares is
\* credited, and the rest can be claimed as before.
LEMMA CapturesKeepClaims ==
    ASSUME HInv, HInv', NEW u \in Users, NEW l \in Legs, NEW x \in Nat, Captures(u, l, x)
    PROVE  /\ Claimable(l, u) \in Nat /\ Claimable(l, u)' \in Nat
           /\ pending[l][u] <= Claimable(l, u)
           /\ Claimable(l, u)' >= Claimable(l, u) - x
<1>1. PICK X \in SUBSET HeldBy(u), a \in [Legs -> Nat] :
           /\ acc[l] <= a[l] /\ acc[l] <= acc'[l]
           /\ pending'[l][u] + x = pending[l][u] + Due(l, X, a)
           /\ \A id \in HeldBy(u) \ X : /\ id \in HeldBy(u)' /\ debt'[l][id] = debt[l][id]
                                        /\ ~Quarantined(id) => ~Quarantined(id)'
  BY DEF Captures
<1> DEFINE open == {id \in HeldBy(u) : ~Quarantined(id)}
           gone == {id \in X : ~Quarantined(id)}
           kept == {id \in HeldBy(u) \ X : ~Quarantined(id)}
           openNext == {id \in HeldBy(u)' : ~Quarantined(id)'}
           f == Owed(l, acc)
           g == Owed(l, a)
           h == Owed(l, acc)'
<1>2. /\ HeldBy(u) \in SUBSET Ids /\ HeldBy(u)' \in SUBSET Ids
  <2>1. HeldBy(u) \in SUBSET Live /\ HeldBy(u)' \in SUBSET Live'
    BY DEF Users, Live
  <2>2. QED
    BY <2>1, ClaimFacts, ClaimFactsNext
<1>3. /\ open = gone \cup kept /\ gone \cap kept = {} /\ kept \in SUBSET openNext
      /\ open \in SUBSET Ids /\ gone \in SUBSET Ids /\ kept \in SUBSET Ids
      /\ openNext \in SUBSET Ids
  BY <1>1, <1>2
<1>4. IsFiniteSet(open) /\ IsFiniteSet(gone) /\ IsFiniteSet(kept) /\ IsFiniteSet(openNext)
  <2>1. IsFiniteSet(Ids)
    BY FS_Interval DEF Ids
  <2>2. QED
    BY <1>3, <2>1, FS_Subset
<1>5. ASSUME NEW id \in Ids PROVE f[id] \in Nat /\ g[id] \in Nat /\ f[id] <= g[id]
  <2>1. debt[l][id] \in Nat /\ acc[l] \in Nat /\ a[l] \in Nat /\ debt[l][id] <= acc[l]
        /\ acc[l] <= a[l]
    BY <1>1, ClaimFacts
  <2>2. f[id] = (acc[l] - debt[l][id]) \div Scale /\ g[id] = (a[l] - debt[l][id]) \div Scale
    BY DEF Owed
  <2> HIDE DEF f, g
  <2> DEFINE d == debt[l][id]
             c == acc[l]
             e == a[l]
  <2>3. d \in Nat /\ c \in Nat /\ e \in Nat /\ d <= c /\ c <= e
    BY <2>1
  <2>4. f[id] = (c - d) \div Scale /\ g[id] = (e - d) \div Scale
    BY <2>2
  <2> HIDE DEF d, c, e
  <2>5. QED
    BY <2>3, <2>4, OwedGrows
<1>6. ASSUME NEW id \in Ids PROVE h[id] \in Nat
  <2>1. debt'[l][id] \in Nat /\ acc'[l] \in Nat /\ debt'[l][id] <= acc'[l]
    BY ClaimFactsNext
  <2>2. h[id] = (acc'[l] - debt'[l][id]) \div Scale
    BY DEF Owed
  <2>3. QED
    BY <2>1, <2>2, OwedGrows
<1>7. ASSUME NEW id \in kept PROVE f[id] <= h[id]
  <2>1. /\ debt[l][id] \in Nat /\ acc[l] \in Nat /\ acc'[l] \in Nat /\ debt[l][id] <= acc[l]
        /\ acc[l] <= acc'[l] /\ debt'[l][id] = debt[l][id]
    BY <1>1, <1>3, ClaimFacts, ClaimFactsNext
  <2>2. /\ f[id] = (acc[l] - debt[l][id]) \div Scale
        /\ h[id] = (acc'[l] - debt'[l][id]) \div Scale
    BY <1>3 DEF Owed
  <2>3. QED
    BY <2>1, <2>2, OwedGrows
<1>8. /\ Claimable(l, u) = pending[l][u] + SumFunctionOnSet(f, open)
      /\ Claimable(l, u)' = pending'[l][u] + SumFunctionOnSet(h, openNext)
      /\ Due(l, X, a) = SumFunctionOnSet(g, gone)
  BY DEF Claimable, Due
<1>9. pending[l][u] \in Nat /\ pending'[l][u] \in Nat
  BY ClaimFacts, ClaimFactsNext DEF Users
<1> HIDE DEF open, gone, kept, openNext, f, g, h
<1> DEFINE S == SumFunctionOnSet(f, gone)
           T == SumFunctionOnSet(f, kept)
           D == SumFunctionOnSet(g, gone)
           K == SumFunctionOnSet(h, kept)
           E == SumFunctionOnSet(h, openNext)
           P == pending[l][u]
           Q == pending'[l][u]
<1>10. SumFunctionOnSet(f, open) = S + T
  <2>1. \A y \in gone \cup kept : f[y] \in Nat
    BY <1>3, <1>5
  <2>2. SumFunctionOnSet(f, gone \cup kept) = SumFunctionOnSet(f, gone) + SumFunctionOnSet(f, kept)
    BY <1>3, <1>4, <2>1, SumUnion
  <2>3. QED
    BY <1>3, <2>2
<1>11. S \in Nat /\ D \in Nat /\ S <= D
  <2>1. \A y \in gone : f[y] \in Nat /\ g[y] \in Nat /\ f[y] <= g[y]
    BY <1>3, <1>5
  <2>2. S <= D
    BY <1>4, <2>1, SumLeq
  <2>3. S \in Nat
    BY <1>4, <2>1, SumRemove
  <2>4. D \in Nat
    BY <1>4, <2>1, SumRemove
  <2>5. QED
    BY <2>2, <2>3, <2>4
<1>12. T \in Nat /\ K \in Nat /\ T <= K
  <2>1. \A y \in kept : f[y] \in Nat /\ h[y] \in Nat /\ f[y] <= h[y]
    BY <1>3, <1>5, <1>6, <1>7
  <2>2. T <= K
    BY <1>4, <2>1, SumLeq
  <2>3. T \in Nat
    BY <1>4, <2>1, SumRemove
  <2>4. K \in Nat
    BY <1>4, <2>1, SumRemove
  <2>5. QED
    BY <2>2, <2>3, <2>4
<1>13. E \in Nat /\ K <= E
  <2>1. \A y \in openNext : h[y] \in Nat
    BY <1>3, <1>6
  <2>2. E \in Nat
    BY <1>4, <2>1, SumRemove
  <2>3. K <= E
    BY <1>3, <1>4, <2>1, SumSubset
  <2>4. QED
    BY <2>2, <2>3
<1>14. /\ Claimable(l, u) = P + (S + T) /\ Claimable(l, u)' = Q + E
       /\ Q + x = P + D /\ P \in Nat /\ Q \in Nat
  BY <1>1, <1>8, <1>9, <1>10
<1>15. P <= Claimable(l, u) => pending[l][u] <= Claimable(l, u)
  OBVIOUS
<1> HIDE DEF S, T, D, K, E, P, Q
<1>16. QED
  BY <1>11, <1>12, <1>13, <1>14, <1>15

\* Only its own withdrawal ever lowers what an account can claim, whatever
\* anybody does in whatever order (the captures in _burnTails, _moveTails,
\* handleNFTTransfer and claim).
THEOREM CreditsAreKept == Spec => CreditsKept
<1>1. HInv /\ HInv' /\ [Next]_vars =>
        [\A u \in Users, l \in Legs :
           \/ Claimable(l, u)' >= Claimable(l, u)
           \/ \E r \in Users, sent \in BOOLEAN : WithdrawPending(u, r, sent)]_vars
  <2> SUFFICES ASSUME HInv, HInv', [Next]_vars, NEW u \in Users, NEW l \in Legs
               PROVE  \/ Claimable(l, u)' >= Claimable(l, u)
                      \/ \E r \in Users, sent \in BOOLEAN : WithdrawPending(u, r, sent)
    OBVIOUS
  <2>1. CASE Captures(u, l, 0)
    <3>1. /\ Claimable(l, u) \in Nat /\ Claimable(l, u)' \in Nat
          /\ Claimable(l, u)' >= Claimable(l, u) - 0
      BY <2>1, CapturesKeepClaims
    <3>2. QED
      BY <3>1
  <2>2. QED
    BY <2>1, StepCaptures
<1>2. QED
  BY <1>1, HookInductive, PTL DEF Spec, CreditsKept

\* Nothing a single transaction mints collects anything in that transaction (the
\* quarantine of _mintedThisTx covers all ids minted in it).
THEOREM NobodySkims == Spec => NoAtomicSkim
<1>1. HInv /\ [Next]_vars =>
        [\A u \in Users, l \in Legs :
           (\A id \in HeldBy(u) : id > before) => pending[l][u]' <= pending[l][u]]_vars
  <2> SUFFICES ASSUME HInv, [Next]_vars, NEW u \in Users, NEW l \in Legs,
                      \A id \in HeldBy(u) : id > before
               PROVE  pending'[l][u] <= pending[l][u]
    OBVIOUS
  <2>1. /\ u \in Accounts /\ before \in Nat /\ lo \in Nat /\ pending[l][u] \in Nat
        /\ HeldBy(u) \in SUBSET Live
        /\ IF lo = 0 THEN before = nextId ELSE lo = before + 1
    BY DEF Users, HInv, TypeOK, QuarantineIsTx, Live
  <2>2. \A id \in HeldBy(u) : id \in Nat /\ id <= nextId
    BY <2>1, HeldApart DEF HInv, IInv, IdInv
  <2>3. ASSUME NEW id \in HeldBy(u) PROVE Quarantined(id)
    BY <2>1, <2>2 DEF Quarantined, HInv, IInv, ShareTypeOK
  <2>4. ASSUME NEW X \in SUBSET HeldBy(u), NEW a PROVE Due(l, X, a) = 0
    <3>1. {id \in X : ~Quarantined(id)} = {} /\ {id \in {} : ~Quarantined(id)} = {}
      BY <2>3
    <3>2. Due(l, X, a) = Due(l, {}, a)
      BY <3>1 DEF Due
    <3>3. QED
      BY <3>2, DueNothing
  <2>5. ASSUME NEW x \in Nat, Captures(u, l, x) PROVE pending'[l][u] <= pending[l][u]
    <3>1. PICK X \in SUBSET HeldBy(u), a \in [Legs -> Nat] :
               pending'[l][u] + x = pending[l][u] + Due(l, X, a)
      BY <2>5 DEF Captures
    <3>2. pending'[l][u] \in Nat
      <4>1. HInv'
        BY StepKeepsHInv
      <4>2. QED
        BY <2>1, <4>1 DEF HInv, TypeOK
    <3>3. QED
      BY <2>1, <2>4, <3>1, <3>2
  <2>6. \A sent \in BOOLEAN : Withdrawn(u, sent, u, l) \in Nat
    BY <2>1 DEF Withdrawn
  <2>7. QED
    BY <2>5, <2>6, StepCaptures
<1>2. QED
  BY <1>1, HookInductive, PTL DEF Spec, NoAtomicSkim

-----------------------------------------------------------------------------
(* The hook implements PrismShares.  The bound on amounts is lifted: a     *)
(* collection and a withdrawal move amounts no caller chose.               *)

\* A plan that does nothing can be executed by doing nothing.
LEMMA IdleRealign ==
    ASSUME IInv, NEW from \in Accounts, NEW to \in Accounts,
           UNCHANGED <<owned, nextId, totalShares>>
    PROVE  Realign(IdlePlan(from, to))
<1> DEFINE plan == IdlePlan(from, to)
           S == Seq(1..MaxId)
<1>1. /\ owned \in [Accounts -> S] /\ nextId \in 0..MaxId /\ totalShares \in Int
  BY DEF IInv, ShareTypeOK
<1>2. /\ plan.loser = from /\ plan.gainer = to /\ plan.moves = 0 /\ plan.burns = 0
      /\ plan.mints = 0
  BY DEF IdlePlan
<1>3. ASSUME NEW s \in S PROVE DropTails(s, 0) = s
  <2>1. Len(s) - 0 = Len(s)
    OBVIOUS
  <2>2. QED
    BY <2>1 DEF DropTails
<1>4. ASSUME NEW s \in S, NEW t \in S PROVE s \o TailsOf(t, 0) = s
  <2>1. TailsOf(t, 0) = << >>
    BY DEF TailsOf
  <2>2. QED
    BY <2>1
<1>5. ASSUME NEW s \in S PROVE s \o FreshIds(0) = s
  <2>1. FreshIds(0) = << >>
    BY DEF FreshIds
  <2>2. QED
    BY <2>1
<1>6. BurnTails(owned, from, 0) = owned
  BY <1>1, <1>3 DEF BurnTails
<1>7. MoveTails(owned, from, to, 0) = owned
  BY <1>1, <1>4, <1>6 DEF MoveTails
<1>8. MintTo(owned, to, 0) = owned
  BY <1>1, <1>5 DEF MintTo
<1> HIDE DEF plan
<1>9. owned' = MintTo(BurnTails(MoveTails(owned, plan.loser, plan.gainer, plan.moves),
                                plan.loser, plan.burns),
                      plan.gainer, plan.mints)
  BY <1>2, <1>6, <1>7, <1>8
<1>10. /\ nextId + plan.mints <= MaxId /\ nextId' = nextId + plan.mints
       /\ totalShares' = totalShares - plan.burns + plan.mints
  BY <1>1, <1>2
<1>11. QED
  BY <1>9, <1>10 DEF Realign, plan

\* Every outcome of a poke is one PrismShares allows.
LEMMA PokeAllowed ==
    ASSUME Amounts = Nat, HInv, NEW b \in [Accounts -> Nat], fees["PRISM"] <= b[Pool],
           NEW p \in Poked(b)
    PROVE  /\ p.bal \in AfterPoke(b)
           /\ p.bal = b \/ totalShares # 0
<1>1. CASE p = Unpoked(b)
  BY <1>1 DEF Unpoked, AfterPoke
<1>2. CASE p = Collected(b) /\ seeded /\ totalShares # 0
  <2>1. p.bal = CollectedBalances(b, fees["PRISM"], Burned)
    BY <1>2 DEF Collected
  <2>2. fees["PRISM"] \in Nat
    BY DEF HInv, TypeOK, Legs
  <2>3. Burned \in Nat /\ Burned <= fees["PRISM"]
    BY <2>2, PartOf DEF Burned
  <2> DEFINE c == <<fees["PRISM"], Burned>>
  <2>4. c \in {d \in Amounts \X Amounts : d[2] <= d[1] /\ d[1] <= b[Pool]}
    BY <2>2, <2>3
  <2>5. p.bal = CollectedBalances(b, c[1], c[2])
    BY <2>1
  <2> HIDE DEF c
  <2>6. QED
    BY <1>2, <2>4, <2>5 DEF AfterPoke
<1>3. QED
  BY <1>1, <1>2 DEF Poked

\* Every step of the hook is one of PrismShares, or leaves balances and shares
\* as they are.
LEMMA StepImplementsShares ==
    ASSUME Amounts = Nat, HInv, [Next]_vars
    PROVE  [ShareNext]_shareVars
<1>1. /\ IInv /\ bal \in [Accounts -> Nat] /\ fees["PRISM"] \in Nat /\ fees["PRISM"] <= bal[Pool]
      /\ Hook \in Accounts \ {Sink} /\ Pool \in Accounts \ {Sink} /\ Vault \in Accounts \ {Sink}
      /\ Users \subseteq Accounts \ {Sink}
  BY DEF HInv, IInv, ShareTypeOK, TypeOK, Legs, FeesHeld, Users
<1>2. ASSUME NEW p \in Poked(bal), bal' = p.bal, UNCHANGED <<owned, nextId, totalShares>>
      PROVE  SharePoke \/ UNCHANGED shareVars
  BY <1>1, <1>2, PokeAllowed DEF SharePoke, shareVars
<1>3. ASSUME NEW amount \in Amounts, Seed(amount) PROVE ShareNext
  <2>1. /\ amount <= bal[Hook] /\ bal' = Paid(bal, Hook, Pool, amount)
        /\ UNCHANGED <<owned, nextId, totalShares>>
    BY <1>3 DEF Seed
  <2>2. TransferPlan(Hook, Pool, amount) = IdlePlan(Hook, Pool)
    BY DEF TransferPlan, Plan, Users
  <2>3. Realign(IdlePlan(Hook, Pool)) /\ ~IdlePlan(Hook, Pool).pokes
    BY <1>1, <2>1, IdleRealign DEF IdlePlan
  <2>4. ShareTransfer(Hook, Pool, amount)
    BY <2>1, <2>2, <2>3 DEF ShareTransfer
  <2>5. QED
    BY <1>1, <2>4 DEF ShareNext
<1>4. ASSUME NEW from \in Users \cup {Pool, Vault}, NEW to \in Accounts, NEW amount \in Amounts,
             Transfer(from, to, amount)
      PROVE  ShareNext
  <2> DEFINE b == Paid(bal, from, to, amount)
             plan == TransferPlan(from, to, amount)
  <2>1. PICK p \in PokedIf(plan.pokes, b) : Realign(plan) /\ bal' = p.bal
    BY <1>4 DEF Transfer, RealignFees, Books
  <2>2. amount <= bal[from] - (IF from = Pool THEN fees["PRISM"] ELSE 0)
    BY <1>4 DEF Transfer
  <2>3. from \in Accounts \ {Sink} /\ amount \in Nat
    BY <1>1
  <2>4. amount <= bal[from] /\ (from = Pool => amount <= bal[from] - fees["PRISM"])
    BY <1>1, <2>2, <2>3
  <2>5. b \in [Accounts -> Nat] /\ fees["PRISM"] <= b[Pool]
    BY <1>1, <2>3, <2>4 DEF Paid
  <2> HIDE DEF b, plan
  <2>6. bal' \in IF plan.pokes THEN AfterPoke(b) ELSE {b}
    <3>1. CASE plan.pokes
      BY <2>1, <2>5, <3>1, PokeAllowed DEF PokedIf
    <3>2. CASE ~plan.pokes
      BY <2>1, <3>2 DEF PokedIf, Unpoked
    <3>3. QED
      BY <3>1, <3>2
  <2>7. ShareTransfer(from, to, amount)
    BY <2>1, <2>4, <2>6 DEF ShareTransfer, b, plan
  <2>8. QED
    BY <2>3, <2>7 DEF ShareNext
<1>5. ASSUME NEW user \in Users, NEW max \in Amounts, SyncNFTs(user, max)
      PROVE  ShareNext
  <2> DEFINE plan == SyncPlan(user, max)
  <2>1. PICK p \in PokedIf(plan.pokes, bal) : Realign(plan) /\ bal' = p.bal
    BY <1>5 DEF SyncNFTs, RealignFees, Books
  <2> HIDE DEF plan
  <2>2. bal' \in IF plan.pokes THEN AfterPoke(bal) ELSE {bal}
    <3>1. CASE plan.pokes
      BY <1>1, <2>1, <3>1, PokeAllowed DEF PokedIf
    <3>2. CASE ~plan.pokes
      BY <2>1, <3>2 DEF PokedIf, Unpoked
    <3>3. QED
      BY <3>1, <3>2
  <2>3. ShareSync(user, max)
    BY <2>1, <2>2 DEF ShareSync, plan, Users
  <2>4. QED
    BY <1>1, <2>3 DEF ShareNext
<1>6. ASSUME NEW from \in Accounts, NEW to \in Accounts, NEW i \in DOMAIN owned[from],
             NFTTransfer(from, to, i)
      PROVE  ShareNext
  BY <1>6 DEF NFTTransfer, ShareNext
<1>7. CASE PokeFees
  <2>1. /\ \E p \in Poked(bal) : bal' = p.bal
        /\ UNCHANGED <<owned, nextId, totalShares>>
    BY <1>7 DEF PokeFees, Books
  <2>2. QED
    BY <1>2, <2>1 DEF ShareNext
<1>8. ASSUME NEW ids, Claim(ids) PROVE [ShareNext]_shareVars
  <2>1. /\ \E p \in Poked(bal) : bal' = p.bal
        /\ UNCHANGED <<owned, nextId, totalShares>>
    BY <1>8 DEF Claim, Books
  <2>2. QED
    BY <1>2, <2>1 DEF ShareNext
<1>9. ASSUME NEW caller \in Users, NEW recipient \in Users, NEW sent \in BOOLEAN,
             WithdrawPending(caller, recipient, sent)
      PROVE  ShareNext
  <2> DEFINE prism == pending["PRISM"][caller]
             b == Paid(bal, Hook, recipient, prism)
             plan == TransferPlan(Hook, recipient, prism)
  <2>1. prism \in Nat /\ prism <= bal[Hook]
    <3>1. pending["PRISM"] \in [Accounts -> Nat] /\ caller \in Accounts
      BY DEF HInv, TypeOK, Legs, Users
    <3>2. QED
      BY <1>9, <3>1 DEF WithdrawPending
  <2>2. PICK p \in PokedIf(plan.pokes /\ prism > 0, b) : Realign(plan) /\ bal' = p.bal
    BY <1>9 DEF WithdrawPending, RealignFees, Books
  <2> HIDE DEF prism
  <2>3. b \in [Accounts -> Nat] /\ fees["PRISM"] <= b[Pool]
    BY <1>1, <2>1, PaidByHook
  <2> HIDE DEF b, plan
  <2>4. bal' \in IF plan.pokes THEN AfterPoke(b) ELSE {b}
    <3>1. CASE plan.pokes
      <4>1. p \in Poked(b)
        BY <2>2 DEF PokedIf, Poked
      <4>2. QED
        BY <2>2, <2>3, <3>1, <4>1, PokeAllowed
    <3>2. CASE ~plan.pokes
      BY <2>2, <3>2 DEF PokedIf, Unpoked
    <3>3. QED
      BY <3>1, <3>2
  <2>5. ShareTransfer(Hook, recipient, prism)
    BY <2>1, <2>2, <2>4 DEF ShareTransfer, b, plan
  <2>6. QED
    BY <1>1, <2>1, <2>5 DEF ShareNext
<1>10. CASE Return \/ Unlock \/ Relock \/ EndTx \/ (\E l \in Legs : Swap(l)) \/ UNCHANGED vars
  BY <1>10 DEF Return, Unlock, Relock, Pop, EndTx, Swap, vars
<1>11. QED
  BY <1>3, <1>4, <1>5, <1>6, <1>7, <1>8, <1>9, <1>10 DEF Next

\* With its fees, quarantine, forfeits and sends the contract still moves
\* balances and shares exactly as PrismShares says, so all its theorems hold of
\* the whole contract.
THEOREM RefinesShares == Amounts = Nat => (Spec => ImplementsShares)
<1> SUFFICES ASSUME Amounts = Nat PROVE Spec => ImplementsShares
  OBVIOUS
<1>1. Init => ShareInit
  BY DEF Init
<1>2. HInv /\ [Next]_vars => [ShareNext]_shareVars
  BY StepImplementsShares
<1>3. QED
  BY <1>1, <1>2, HookInductive, PTL DEF Spec, ImplementsShares, ShareSpec

-----------------------------------------------------------------------------
(* The ETH leg implements FeeLedger.                                       *)

\* The ledger's sum of credits is the sum over the users.
LEMMA CreditsAreASum ==
    ASSUME NEW c
    PROVE  Ledger!Credits(c) = SumFunctionOnSet(c, Users)
BY Zenon DEF Ledger!Credits, Ledger!SumFunctionOnSet, Ledger!FoldFunctionOnSet, Ledger!MapThenFoldSet,
             SumFunctionOnSet, FoldFunctionOnSet, MapThenFoldSet

\* The credits of all users together are natural and covered by the ETH the
\* contract holds.
LEMMA CreditsBacked ==
    HInv => /\ \A u \in Users : Claimable("ETH", u) \in Nat
            /\ Ledger!Credits([u \in Users |-> Claimable("ETH", u)]) <= eth
<1> SUFFICES ASSUME HInv
             PROVE  /\ \A u \in Users : Claimable("ETH", u) \in Nat
                    /\ Ledger!Credits([u \in Users |-> Claimable("ETH", u)]) <= eth
  OBVIOUS
<1> DEFINE f == Owed("ETH", acc)
           q == pending["ETH"]
           open(u) == {id \in HeldBy(u) : ~Quarantined(id)}
           H == [u \in Users |-> open(u)]
           F == [u \in Users |-> Due("ETH", HeldBy(u), acc)]
           C == [u \in Users |-> Claimable("ETH", u)]
           all == UNION {H[u] : u \in Users}
<1>1. "ETH" \in Legs /\ IsFiniteSet(Live) /\ Live \subseteq Ids
  BY LiveFacts DEF Legs
<1>2. Users \in SUBSET Accounts /\ IsFiniteSet(Users)
  BY FS_Subset DEF Users
<1>3. \A a \in Accounts : q[a] \in Nat
  BY <1>1 DEF HInv, TypeOK
<1>4. ASSUME NEW id \in Ids PROVE f[id] \in Nat
  <2>1. Accrued("ETH")[id] \in Nat
    BY <1>1, LiveFacts
  <2>2. f[id] = Accrued("ETH")[id] \div Scale
    BY DEF Owed, Accrued
  <2> HIDE DEF f
  <2>3. QED
    BY <2>1, <2>2, RoundDown
<1>5. \A u \in Users : H[u] \in SUBSET Live /\ IsFiniteSet(H[u])
  <2>1. \A u \in Users : HeldBy(u) \in SUBSET Live
    BY <1>2 DEF Live
  <2>2. QED
    BY <1>1, <2>1, FS_Subset
<1>6. \A u, v \in Users : u # v => H[u] \cap H[v] = {}
  BY <1>2, HeldApart DEF HInv, IInv, IdInv
<1>7. \A u \in Users : IsFiniteSet(H[u]) /\ F[u] = SumFunctionOnSet(f, H[u])
  BY <1>5 DEF Due
<1>8. \A u \in Users : \A id \in H[u] : f[id] \in Nat
  BY <1>1, <1>4, <1>5
<1>9. \A u \in Users : C[u] = q[u] + F[u]
  BY DEF Claimable
<1>10. all \in SUBSET Live
  BY <1>5
<1>11. SumFunctionOnSet(F, Users) = SumFunctionOnSet(f, all)
  <2>1. all = UNION {H[u] : u \in Users}
    OBVIOUS
  <2> HIDE DEF f, q, H, F, C, all
  <2>2. QED
    BY ONLY <1>2, <1>6, <1>7, <1>8, <2>1, SumPartition
<1> HIDE DEF f, q, H, F, C
<1>12. \A u \in Users : F[u] \in Nat
  BY <1>2, <1>6, <1>7, <1>8, SumPartition
<1> HIDE DEF all
<1>13. \A u \in Users : q[u] \in Nat /\ F[u] \in Nat /\ C[u] = q[u] + F[u]
  BY <1>2, <1>3, <1>9, <1>12
<1>14. SumFunctionOnSet(C, Users) = SumFunctionOnSet(q, Users) + SumFunctionOnSet(F, Users)
  BY <1>2, <1>13, SumPlus
<1>15. SumFunctionOnSet(q, Users) <= SumFunctionOnSet(q, Accounts)
  BY <1>2, <1>3, SumSubset
<1>16. SumFunctionOnSet(q, Users) \in Nat
  BY <1>2, <1>13, SumRemove
<1>17. SumFunctionOnSet(q, Accounts) \in Nat
  BY <1>3, SumRemove
<1>18. \A id \in Live : f[id] \in Nat
  BY <1>1, <1>4
<1>19. SumFunctionOnSet(f, all) <= SumFunctionOnSet(f, Live)
  BY <1>1, <1>10, <1>18, SumSubset
<1>20. SumFunctionOnSet(f, Live) \in Nat
  BY <1>1, <1>18, SumRemove
<1>21. SumFunctionOnSet(F, Users) \in Nat
  BY <1>2, <1>13, SumRemove
<1> DEFINE sC == SumFunctionOnSet(C, Users)
           sq == SumFunctionOnSet(q, Users)
           sF == SumFunctionOnSet(F, Users)
           sQ == SumFunctionOnSet(q, Accounts)
           sf == SumFunctionOnSet(f, Live)
<1>22. sQ + sf <= eth /\ eth \in Nat
  BY <1>1, FundedIsSolvent DEF Solvent, AllPending, AllOwed, Reserve, q, f, HInv, TypeOK
<1>23. /\ sC = sq + sF /\ sq <= sQ /\ sF <= sf
       /\ sq \in Nat /\ sF \in Nat /\ sQ \in Nat /\ sf \in Nat
  <2>1. sF <= sf
    BY <1>11, <1>19
  <2>2. QED
    BY <1>14, <1>15, <1>16, <1>17, <1>20, <1>21, <2>1
<1>24. sC = Ledger!Credits(C)
  BY CreditsAreASum
<1> HIDE DEF sC, sq, sF, sQ, sf
<1>25. Ledger!Credits(C) <= eth
  BY <1>22, <1>23, <1>24
<1>26. \A u \in Users : Claimable("ETH", u) \in Nat
  <2>1. \A u \in Users : C[u] \in Nat /\ C[u] = Claimable("ETH", u)
    BY <1>13 DEF C
  <2>2. QED
    BY <2>1
<1>27. QED
  BY <1>25, <1>26 DEF C

\* So they are after every step.
LEMMA CreditsBackedNext ==
    HInv' => (/\ \A u \in Users : Claimable("ETH", u) \in Nat
              /\ Ledger!Credits([u \in Users |-> Claimable("ETH", u)]) <= eth)'
BY CreditsBacked, PTL

\* A poke only moves ETH from the position to the contract.
LEMMA PokeMovesEth ==
    ASSUME HInv, NEW b, NEW p \in Poked(b)
    PROVE  /\ p.fees["ETH"] \in Nat /\ p.fees["ETH"] <= fees["ETH"]
           /\ p.eth = eth + (fees["ETH"] - p.fees["ETH"])
<1>1. fees["ETH"] \in Nat /\ eth \in Nat /\ "ETH" \in Legs
  BY DEF HInv, TypeOK, Legs
<1>2. p.fees["ETH"] \in {0, fees["ETH"]} /\ p.eth = eth + (fees["ETH"] - p.fees["ETH"])
  <2>1. CASE p = Unpoked(b)
    BY <1>1, <2>1 DEF Unpoked
  <2>2. CASE p = Collected(b)
    BY <1>1, <2>2 DEF Collected
  <2>3. QED
    BY <2>1, <2>2 DEF Poked
<1>3. QED
  BY <1>1, <1>2

\* ETH that leaves the position arrives at the contract, less what is paid out.
EthFlow(x) ==
    /\ fees'["ETH"] <= fees["ETH"]
    /\ eth' = eth + (fees["ETH"] - fees'["ETH"]) - x

\* No step but a withdrawal pays ETH out, and none but a swap brings any in.
LEMMA StepEthFlow ==
    ASSUME HInv, [Next]_vars,
           ~\E caller, recipient \in Users, sent \in BOOLEAN :
               WithdrawPending(caller, recipient, sent)
    PROVE  EthFlow(0) \/ Swap("ETH")
<1>1. /\ fees["ETH"] \in Nat /\ eth \in Nat
  BY DEF HInv, TypeOK, Legs
<1>2. ASSUME NEW b, NEW p \in Poked(b), fees' = p.fees, eth' = p.eth PROVE EthFlow(0)
  <2>1. /\ p.fees["ETH"] \in Nat /\ p.fees["ETH"] <= fees["ETH"]
        /\ p.eth = eth + (fees["ETH"] - p.fees["ETH"])
    BY PokeMovesEth
  <2>2. QED
    BY <1>1, <1>2, <2>1 DEF EthFlow
<1>3. ASSUME fees'["ETH"] = fees["ETH"], eth' = eth PROVE EthFlow(0)
  BY <1>1, <1>3 DEF EthFlow
<1>4. ASSUME NEW amount \in Amounts, Seed(amount) PROVE EthFlow(0)
  BY <1>3, <1>4 DEF Seed
<1>5. ASSUME NEW from \in Users \cup {Pool, Vault}, NEW to \in Accounts, NEW amount \in Amounts,
             Transfer(from, to, amount)
      PROVE  EthFlow(0)
  <2>1. PICK p \in PokedIf(TransferPlan(from, to, amount).pokes, Paid(bal, from, to, amount)) :
             fees' = p.fees /\ eth' = p.eth
    BY <1>5 DEF Transfer, RealignFees, Books
  <2>2. p \in Poked(Paid(bal, from, to, amount))
    BY <2>1 DEF PokedIf, Poked
  <2>3. QED
    BY <1>2, <2>1, <2>2
<1>6. ASSUME NEW user \in Users, NEW max \in Amounts, SyncNFTs(user, max) PROVE EthFlow(0)
  <2>1. PICK p \in PokedIf(SyncPlan(user, max).pokes, bal) : fees' = p.fees /\ eth' = p.eth
    BY <1>6 DEF SyncNFTs, RealignFees, Books
  <2>2. p \in Poked(bal)
    BY <2>1 DEF PokedIf, Poked
  <2>3. QED
    BY <1>2, <2>1, <2>2
<1>7. ASSUME NEW from \in Accounts, NEW to \in Accounts, NEW i \in DOMAIN owned[from],
             NFTTransfer(from, to, i)
      PROVE  EthFlow(0)
  BY <1>3, <1>7 DEF NFTTransfer
<1>8. CASE PokeFees
  BY <1>2, <1>8 DEF PokeFees, Books
<1>9. ASSUME NEW ids, Claim(ids) PROVE EthFlow(0)
  BY <1>2, <1>9 DEF Claim, Books
<1>10. ASSUME NEW l \in Legs, Swap(l) PROVE EthFlow(0) \/ Swap("ETH")
  <2>1. CASE l = "ETH"
    BY <1>10, <2>1
  <2>2. CASE l = "PRISM"
    <3>1. fees'["ETH"] = fees["ETH"] /\ eth' = eth
      BY <1>10, <2>2 DEF Swap, HInv, TypeOK, Legs
    <3>2. QED
      BY <1>3, <3>1
  <2>3. QED
    BY <2>1, <2>2 DEF Legs
<1>11. CASE Return \/ Unlock \/ Relock \/ EndTx \/ UNCHANGED vars
  BY <1>3, <1>11 DEF Return, Unlock, Relock, Pop, EndTx, vars
<1>12. QED
  BY <1>4, <1>5, <1>6, <1>7, <1>8, <1>9, <1>10, <1>11 DEF Next

\* A step that pays x to u and only captures otherwise settles.
LEMMA Settles ==
    ASSUME HInv, HInv', NEW u \in Users, NEW x \in Nat, x <= pending["ETH"][u],
           EthFlow(x), Captures(u, "ETH", x),
           \A v \in Users \ {u} : Captures(v, "ETH", 0)
    PROVE  Ledger!Next
<1>1. "ETH" \in Legs
  BY DEF Legs
<1>2. /\ Claimable("ETH", u) \in Nat /\ Claimable("ETH", u)' \in Nat
      /\ pending["ETH"][u] <= Claimable("ETH", u)
      /\ Claimable("ETH", u)' >= Claimable("ETH", u) - x
  BY <1>1, CapturesKeepClaims
<1>3. ASSUME NEW v \in Users \ {u} PROVE Claimable("ETH", v)' >= Claimable("ETH", v) - 0
  BY <1>1, CapturesKeepClaims
<1>4. x \in 0..Claimable("ETH", u)
  <2>1. pending["ETH"][u] \in Nat
    BY <1>1 DEF HInv, TypeOK, Users
  <2>2. QED
    BY <1>2, <2>1
<1>5. \A v \in Users : Claimable("ETH", v)' >= Claimable("ETH", v) - (IF v = u THEN x ELSE 0)
  BY <1>2, <1>3
<1>6. Ledger!Credits([v \in Users |-> Claimable("ETH", v)])' <= eth'
  BY CreditsBackedNext
<1>7. Ledger!Settle(u, x)
  BY <1>5, <1>6 DEF Ledger!Settle, EthFlow, Ledger!Credits
<1>8. QED
  BY <1>4, <1>7 DEF Ledger!Next

\* Every step of the hook is one of the ledger.
LEMMA StepImplementsLedger ==
    ASSUME Users # {}, HInv, HInv', [Next]_vars
    PROVE  [Ledger!Next]_(Ledger!ledgerVars)
<1>1. "ETH" \in Legs /\ pending \in [Legs -> [Accounts -> Nat]]
  BY DEF Legs, HInv, TypeOK
<1>2. ASSUME NEW caller \in Users, NEW recipient \in Users, NEW sent \in BOOLEAN,
             WithdrawPending(caller, recipient, sent)
      PROVE  Ledger!Next
  <2> DEFINE x == Withdrawn(caller, sent, caller, "ETH")
  <2>1. x \in Nat /\ x <= pending["ETH"][caller]
    BY <1>1 DEF Withdrawn, Users
  <2>2. Captures(caller, "ETH", x)
    BY <1>1, <1>2, WithdrawCaptures
  <2>3. ASSUME NEW v \in Users \ {caller} PROVE Captures(v, "ETH", 0)
    <3>1. Withdrawn(caller, sent, v, "ETH") = 0
      BY DEF Withdrawn
    <3>2. Captures(v, "ETH", Withdrawn(caller, sent, v, "ETH"))
      BY <1>1, <1>2, WithdrawCaptures
    <3>3. QED
      BY <3>1, <3>2
  <2>4. EthFlow(x)
    <3> DEFINE b == Paid(bal, Hook, recipient, pending["PRISM"][caller])
               pokes == TransferPlan(Hook, recipient, pending["PRISM"][caller]).pokes
                          /\ pending["PRISM"][caller] > 0
    <3>1. PICK p \in PokedIf(pokes, b) :
               fees' = p.fees /\ eth' = p.eth - (IF sent THEN pending["ETH"][caller] ELSE 0)
      BY <1>2 DEF WithdrawPending, RealignFees, Books
    <3> HIDE DEF b, pokes
    <3>2. p \in Poked(b)
      BY <3>1 DEF PokedIf, Poked
    <3>3. /\ p.fees["ETH"] \in Nat /\ p.fees["ETH"] <= fees["ETH"]
          /\ p.eth = eth + (fees["ETH"] - p.fees["ETH"])
      BY <3>2, PokeMovesEth
    <3>4. x = IF sent THEN pending["ETH"][caller] ELSE 0
      BY DEF Withdrawn
    <3>5. eth' = p.eth - x
      BY <3>1, <3>4
    <3>6. fees["ETH"] \in Nat /\ eth \in Nat
      BY <1>1 DEF HInv, TypeOK
    <3>7. fees'["ETH"] = p.fees["ETH"]
      BY <3>1
    <3> HIDE DEF x
    <3>8. QED
      BY <2>1, <3>3, <3>5, <3>6, <3>7 DEF EthFlow
  <2> HIDE DEF x
  <2>5. QED
    BY <2>1, <2>2, <2>3, <2>4, Settles
<1>3. ASSUME ~\E caller, recipient \in Users, sent \in BOOLEAN :
                 WithdrawPending(caller, recipient, sent)
      PROVE  [Ledger!Next]_(Ledger!ledgerVars)
  <2>1. CASE EthFlow(0)
    <3>1. \A v \in Users : Captures(v, "ETH", 0)
      BY <1>1, <1>3, StepCaptures
    <3>2. PICK u \in Users : TRUE
      OBVIOUS
    <3>3. 0 \in Nat /\ 0 <= pending["ETH"][u]
      BY <1>1 DEF Users
    <3>4. QED
      BY <2>1, <3>1, <3>3, Settles
  <2>2. CASE Swap("ETH")
    <3>1. /\ fees'["ETH"] = fees["ETH"] + Fee["ETH"] /\ fees["ETH"] \in Nat /\ Fee["ETH"] \in Nat
      BY <2>2 DEF Swap, HInv, TypeOK, Legs
    <3>2. eth' = eth
      BY <2>2 DEF Swap
    <3>3. [u \in Users |-> Claimable("ETH", u)]' = [u \in Users |-> Claimable("ETH", u)]
      <4>1. /\ owned' = owned /\ acc' = acc /\ debt' = debt /\ pending' = pending /\ lo' = lo
        BY <2>2 DEF Swap, shareVars
      <4>2. \A u \in Users : Claimable("ETH", u)' = Claimable("ETH", u)
        BY <4>1 DEF Claimable, Due, Owed, Quarantined, HeldBy
      <4>3. QED
        BY <4>2
    <3>4. CASE Fee["ETH"] = 0
      BY <3>1, <3>2, <3>3, <3>4 DEF Ledger!ledgerVars
    <3>5. CASE Fee["ETH"] # 0
      <4>1. fees'["ETH"] > fees["ETH"]
        BY <3>1, <3>5
      <4>2. Ledger!Accrue
        BY <3>2, <3>3, <4>1 DEF Ledger!Accrue
      <4>3. QED
        BY <4>2 DEF Ledger!Next
    <3>6. QED
      BY <3>4, <3>5
  <2>3. QED
    BY <1>3, <2>1, <2>2, StepEthFlow
<1>4. QED
  BY <1>2, <1>3

\* Of its ETH the contract is the simple ledger: credits stay until paid, money
\* leaves only as a payment of credits, and the credits are always covered.
THEOREM RefinesLedger == Users # {} => (Spec => ImplementsLedger)
<1> SUFFICES ASSUME Users # {} PROVE Spec => ImplementsLedger
  OBVIOUS
<1>1. Init => Ledger!Init
  <2> SUFFICES ASSUME Init PROVE Ledger!Init
    OBVIOUS
  <2>1. fees["ETH"] = 0 /\ eth = 0
    BY DEF Init, Legs
  <2>2. ASSUME NEW u \in Users PROVE Claimable("ETH", u) = 0
    <3>1. HeldBy(u) = {} /\ pending["ETH"][u] = 0
      BY DEF Init, ShareInit, HeldBy, Legs, Users
    <3>2. Due("ETH", HeldBy(u), acc) = 0
      BY <3>1, DueNothing
    <3>3. QED
      BY <3>1, <3>2 DEF Claimable
  <2>3. QED
    BY <2>1, <2>2 DEF Ledger!Init
<1>2. HInv /\ HInv' /\ [Next]_vars => [Ledger!Next]_(Ledger!ledgerVars)
  BY StepImplementsLedger
<1>3. QED
  BY <1>1, <1>2, HookInductive, PTL DEF Spec, ImplementsLedger, Ledger!Spec
=============================================================================
