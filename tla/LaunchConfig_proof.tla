------------------------- MODULE LaunchConfig_proof -------------------------
(***************************************************************************)
(* Proofs about LaunchConfig, for every set of snapshots, list of          *)
(* forbidden addresses and table of prices.  A canary file agrees with the *)
(* tree it was written for, and .env holds amounts: with that, Deploy's    *)
(* comparisons with the canary say that the reserve is the tree's.  What   *)
(* the tools checked stays true of the part of .env they wrote.            *)
(***************************************************************************)
EXTENDS LaunchConfig, TLAPS

USE SeedAssumption, ConfigAssumption DEF SeedAssumption, ConfigAssumption

-----------------------------------------------------------------------------
(* The arithmetic.                                                         *)

LEMMA WidthPositive ==
    ASSUME NEW lower \in Ticks, NEW upper \in Ticks, lower < upper
    PROVE  Width(lower, upper) \in Nat \ {0}
<1>1. SqrtPrice[lower] \in Nat /\ SqrtPrice[upper] \in Nat /\ SqrtPrice[lower] < SqrtPrice[upper]
  OBVIOUS
<1>2. QED
  BY <1>1 DEF Width

LEMMA FloorDivision ==
    ASSUME NEW n \in Int, NEW d \in Nat \ {0}
    PROVE  /\ n \div d \in Int
           /\ (n \div d) * d <= n
           /\ n < (n \div d) * d + d
OBVIOUS

\* Rounding up reaches a bound that is a whole number of divisors.
LEMMA CeilingBound ==
    ASSUME NEW n \in Int, NEW d \in Nat \ {0}, NEW b \in Int, n <= b * d
    PROVE  CeilDiv(n, d) \in Int /\ CeilDiv(n, d) <= b
<1> DEFINE c == CeilDiv(n, d)
<1>1. c \in Int /\ c * d <= n + d - 1
  BY FloorDivision DEF CeilDiv
<1>2. c * d < (b + 1) * d
  BY <1>1
<1>3. c < b + 1
  BY <1>1, <1>2
<1>4. QED
  BY <1>1, <1>3

\* The pool never charges more than the amount the liquidity was sized for,
\* whatever the prices: sized from the float less the headroom, seed() cannot
\* ask Permit2 for PRISM the hook does not hold.
THEOREM SeedFits ==
    ASSUME NEW prism \in Int, NEW lower \in Ticks, NEW upper \in Ticks, lower < upper
    PROVE  /\ LiquidityFor(prism, lower, upper) \in Int
           /\ PrismFor(LiquidityFor(prism, lower, upper), lower, upper) \in Int
           /\ PrismFor(LiquidityFor(prism, lower, upper), lower, upper) <= prism
<1> DEFINE w == Width(lower, upper)
           L == LiquidityFor(prism, lower, upper)
<1>1. w \in Nat \ {0}
  BY WidthPositive
<1>2. prism * Q \in Int
  OBVIOUS
<1>3. L \in Int /\ L * w <= prism * Q
  BY <1>1, <1>2, FloorDivision DEF LiquidityFor
<1>4. L * w \in Int
  BY <1>1, <1>3
<1>5. CeilDiv(L * w, Q) \in Int /\ CeilDiv(L * w, Q) <= prism
  BY <1>3, <1>4, CeilingBound
<1>6. QED
  BY <1>3, <1>5 DEF PrismFor

-----------------------------------------------------------------------------
(* The files and .env.                                                     *)

\* A canary file agrees with the tree it was written for.
Vouches(c) == c.root \in Trees /\ Clean(c.root) /\ c.total = Total(c.root)

FilesOK ==
    /\ canary \in [Dirs -> {canary[d] : d \in Dirs}]
    /\ Vouches(canary["airdrop"])
    /\ \A d \in Dirs : canary[d] # None => Vouches(canary[d])
    /\ gen # None => gen.root \in Trees /\ gen.total \in Nat /\ gen.dir \in Dirs
    /\ printed # None => printed.root \in Trees /\ printed.total \in Nat /\ printed.dir \in Dirs

Configs ==
    [root : Trees \cup {None}, total : Nat, reserve : Nat, path : Dirs,
     lower : Ticks, upper : Ticks, liquidity : Int, target : Int, minSeed : Int,
     declared : Valuations \cup {None}, sizedFor : Nat, checked : BOOLEAN]

\* What a tool that found no problem knows of the seed it wrote.
Sized(e) ==
    LET float == Supply - e.sizedFor
        seeded == PrismFor(e.liquidity, e.lower, e.upper)
    IN  /\ e.sizedFor <= Supply
        /\ e.lower < e.upper
        /\ e.target = Fdv(e.upper)
        /\ seeded <= float
        /\ seeded >= e.minSeed /\ seeded >= Floor90(float)

EnvOK == env \in Configs /\ (env.checked => Sized(env))

DeployedOK ==
    deployed # None =>
        IF deployed.root = None THEN deployed.reserve = 0
        ELSE Clean(deployed.root) /\ deployed.reserve = Total(deployed.root)

IInv == FilesOK /\ EnvOK /\ DeployedOK

LEMMA CanaryOfTree ==
    ASSUME NEW tree \in Trees, Clean(tree), NEW leaf
    PROVE  Vouches(Canary(tree, leaf))
BY DEF Vouches, Canary

\* Rows that are accepted make a tree without a parked leaf.
LEMMA AcceptableIsClean ==
    ASSUME NEW rows, Acceptable(rows)
    PROVE  Clean(Tree(rows))
<1>1. SUFFICES ASSUME NEW a \in DOMAIN Tree(rows)
               PROVE  /\ Tree(rows)[a] > 0
                      /\ a \in Forbidden =>
                            a \in DOMAIN Grandfathered /\ Tree(rows)[a] = Grandfathered[a]
  BY DEF Clean, Leaves
<1> DEFINE i == CHOOSE k \in DOMAIN rows : rows[k][1] = a
<1>2. \E k \in DOMAIN rows : rows[k][1] = a
  BY <1>1 DEF Tree
<1>3. i \in DOMAIN rows /\ rows[i][1] = a
  BY <1>2
<1>4. Tree(rows)[a] = rows[i][2]
  BY <1>1 DEF Tree
<1>5. rows[i][2] > 0 /\ (a \in Forbidden => Excepted(rows[i]))
  BY <1>3 DEF Acceptable
<1>6. QED
  BY <1>3, <1>4, <1>5 DEF Excepted

LEMMA InitKeeps == Init => IInv
<1> SUFFICES ASSUME Init PROVE IInv
  OBVIOUS
<1>1. PICK leaf \in Leaves(Shipped) :
         canary = [d \in Dirs |-> IF d = "airdrop" THEN Canary(Shipped, leaf) ELSE None]
  BY DEF Init
<1>2. Shipped \in Trees
  BY DEF Trees
<1>3. Vouches(Canary(Shipped, leaf))
  BY <1>2, CanaryOfTree, TreesAssumption
<1>4. FilesOK
  BY <1>1, <1>3 DEF Init, FilesOK, Dirs
<1>5. EnvOK
  BY DEF Init, EnvOK, Blank, Configs, Dirs
<1>6. DeployedOK
  BY DEF Init, DeployedOK
<1>7. QED
  BY <1>4, <1>5, <1>6 DEF IInv

-----------------------------------------------------------------------------
(* The actions.                                                            *)

LEMMA GenerateKeeps ==
    ASSUME IInv, NEW s \in Snapshots, NEW rows \in {s, Basis(s)}, NEW dir \in Dirs,
           Generate(rows, dir)
    PROVE  IInv'
<1>1. Tree(rows) \in Trees
  BY DEF Trees, Generate
<1>2. Clean(Tree(rows))
  BY AcceptableIsClean DEF Generate
<1>3. PICK leaf : canary' = [canary EXCEPT ![dir] = Canary(Tree(rows), leaf)]
  BY DEF Generate
<1>4. Vouches(Canary(Tree(rows), leaf))
  BY <1>1, <1>2, CanaryOfTree
<1>5. canary' \in [Dirs -> {canary'[d] : d \in Dirs}]
  BY <1>3 DEF IInv, FilesOK
<1>6. \A d \in Dirs : canary'[d] = IF d = dir THEN Canary(Tree(rows), leaf) ELSE canary[d]
  BY <1>3 DEF IInv, FilesOK
<1>7. "airdrop" \in Dirs
  BY DEF Dirs
<1>8. gen' = [root |-> Tree(rows), total |-> Total(Tree(rows)), dir |-> dir]
  BY DEF Generate
<1>9. Total(Tree(rows)) \in Nat
  BY <1>1, TreesAssumption
<1>10. FilesOK'
  BY <1>1, <1>4, <1>5, <1>6, <1>7, <1>8, <1>9 DEF IInv, FilesOK, Generate
<1>11. QED
  BY <1>10 DEF IInv, EnvOK, DeployedOK, Generate

LEMMA GenerateEndsKeeps ==
    ASSUME IInv, GenerateEnds
    PROVE  IInv'
<1>1. FilesOK'
  BY DEF IInv, FilesOK, GenerateEnds
<1>2. QED
  BY <1>1 DEF IInv, EnvOK, DeployedOK, GenerateEnds

\* A step that only writes .env.
LEMMA SetEnvKeeps ==
    ASSUME IInv, NEW new, SetEnv(new), new \in Configs, new.checked => Sized(new)
    PROVE  IInv'
BY DEF IInv, FilesOK, EnvOK, DeployedOK, SetEnv, files

LEMMA FdvIsInt ==
    ASSUME NEW t \in Ticks
    PROVE  Fdv(t) \in Nat
<1>1. SqrtPrice[t] \in Nat \ {0}
  OBVIOUS
<1>2. (Supply * Q) \div SqrtPrice[t] \in Nat
  BY <1>1
<1>3. ((Supply * Q) \div SqrtPrice[t]) * Q \in Nat
  BY <1>2
<1>4. QED
  BY <1>1, <1>3 DEF Fdv

LEMMA Floor90IsInt ==
    ASSUME NEW float \in Int
    PROVE  Floor90(float) \in Int /\ (float < 0 => float <= Floor90(float))
BY DEF Floor90

LEMMA MakeEnvKeeps ==
    ASSUME IInv, NEW tick \in Ticks, NEW fdv \in Valuations, MakeEnv(tick, fdv)
    PROVE  IInv'
<1> DEFINE c == canary["airdrop"]
           float == Supply - c.total
           liquidity == LiquidityFor(float - Headroom, MinTick, tick)
           deposit == PrismFor(liquidity, MinTick, tick)
           new == [root |-> c.root, total |-> c.total, reserve |-> c.total,
                   path |-> "airdrop", lower |-> MinTick, upper |-> tick,
                   liquidity |-> liquidity, target |-> Fdv(tick),
                   minSeed |-> deposit - Slack,
                   declared |-> fdv, sizedFor |-> c.total, checked |-> TRUE]
           fits == /\ deposit <= float /\ deposit - Slack >= Floor90(float)
                   /\ Agrees(Fdv(tick), fdv)
<1>1. c.root \in Trees /\ c.total \in Nat
  BY TreesAssumption DEF IInv, FilesOK, Vouches
<1>2. float \in Int /\ MinTick \in Ticks /\ MinTick < tick
  BY <1>1 DEF MakeEnv
<1>3. liquidity \in Int /\ deposit \in Int /\ deposit <= float - Headroom
  <2> DEFINE target == float - Headroom
  <2>1. target \in Int
    BY <1>2
  <2> HIDE DEF target
  <2>2. /\ LiquidityFor(target, MinTick, tick) \in Int
        /\ PrismFor(LiquidityFor(target, MinTick, tick), MinTick, tick) \in Int
        /\ PrismFor(LiquidityFor(target, MinTick, tick), MinTick, tick) <= target
    BY <1>2, <2>1, SeedFits
  <2>3. QED
    BY <2>2 DEF target
<1>4. Fdv(tick) \in Int
  BY FdvIsInt
<1>5. CASE fits
  <2>1. SetEnv(new)
    BY <1>5 DEF MakeEnv
  <2>2. new \in Configs
    BY <1>1, <1>2, <1>3, <1>4 DEF Configs, Dirs
  <2>3. Floor90(float) \in Int /\ (float < 0 => float <= Floor90(float))
    BY <1>2, Floor90IsInt
  <2>4. float >= 0
    BY <1>2, <1>3, <1>5, <2>3
  <2>5. Sized(new)
    <3> HIDE DEF liquidity, deposit
    <3>1. deposit >= deposit - Slack /\ deposit >= Floor90(float)
      BY <1>3, <1>5, <2>3
    <3>2. c.total <= Supply
      BY <1>1, <2>4
    <3>3. deposit = PrismFor(liquidity, MinTick, tick)
      BY DEF deposit
    <3>4. QED
      BY <1>2, <1>5, <3>1, <3>2, <3>3 DEF Sized
  <2>6. QED
    BY <2>1, <2>2, <2>5, SetEnvKeeps
<1>6. CASE ~fits
  <2>1. PICK left \in {env, Blank} : SetEnv(left)
    BY <1>6 DEF MakeEnv
  <2>2. Blank \in Configs /\ ~Blank.checked
    BY DEF Blank, Configs, Dirs
  <2>3. QED
    BY <2>1, <2>2, SetEnvKeeps DEF IInv, EnvOK
<1>7. QED
  BY <1>5, <1>6

\* Copying what generate.mjs printed touches no part of the seed.
LEMMA SizedReadsTheSeed ==
    ASSUME NEW e \in Configs, NEW f \in Configs,
           f.sizedFor = e.sizedFor, f.liquidity = e.liquidity,
           f.lower = e.lower, f.upper = e.upper, f.target = e.target, f.minSeed = e.minSeed,
           Sized(e)
    PROVE  Sized(f)
BY DEF Sized

LEMMA PasteTreeKeeps ==
    ASSUME IInv, PasteRoot \/ PasteTotal \/ PasteNoAirdrop
    PROVE  IInv'
<1>1. env \in Configs /\ (env.checked => Sized(env))
  BY DEF IInv, EnvOK
<1>2. CASE PasteRoot
  <2> DEFINE new == [env EXCEPT !.root = printed.root, !.path = printed.dir]
  <2>1. SetEnv(new) /\ printed.root \in Trees /\ printed.dir \in Dirs
    BY <1>2 DEF PasteRoot, IInv, FilesOK
  <2>2. new \in Configs
    BY <1>1, <2>1 DEF Configs
  <2>3. new.checked => Sized(new)
    <3>1. /\ new.sizedFor = env.sizedFor /\ new.liquidity = env.liquidity
          /\ new.lower = env.lower /\ new.upper = env.upper
          /\ new.target = env.target /\ new.minSeed = env.minSeed
          /\ new.checked = env.checked
      BY <1>1 DEF Configs
    <3> HIDE DEF new
    <3>2. QED
      BY <1>1, <2>2, <3>1, SizedReadsTheSeed
  <2>4. QED
    BY <2>1, <2>2, <2>3, SetEnvKeeps
<1>3. CASE PasteTotal
  <2>1. PICK r \in {printed.total} \cup Slips :
           SetEnv([env EXCEPT !.total = printed.total, !.reserve = r])
    BY <1>3 DEF PasteTotal
  <2> DEFINE new == [env EXCEPT !.total = printed.total, !.reserve = r]
  <2>2. printed.total \in Nat /\ r \in Nat
    BY <1>3 DEF PasteTotal, IInv, FilesOK
  <2>3. new \in Configs
    BY <1>1, <2>2 DEF Configs
  <2>4. new.checked => Sized(new)
    <3>1. /\ new.sizedFor = env.sizedFor /\ new.liquidity = env.liquidity
          /\ new.lower = env.lower /\ new.upper = env.upper
          /\ new.target = env.target /\ new.minSeed = env.minSeed
          /\ new.checked = env.checked
      BY <1>1 DEF Configs
    <3> HIDE DEF new
    <3>2. QED
      BY <1>1, <2>3, <3>1, SizedReadsTheSeed
  <2>5. QED
    BY <2>1, <2>3, <2>4, SetEnvKeeps
<1>4. CASE PasteNoAirdrop
  <2> DEFINE new == [env EXCEPT !.root = None, !.reserve = 0]
  <2>1. new \in Configs
    BY <1>1 DEF Configs
  <2>2. new.checked => Sized(new)
    <3>1. /\ new.sizedFor = env.sizedFor /\ new.liquidity = env.liquidity
          /\ new.lower = env.lower /\ new.upper = env.upper
          /\ new.target = env.target /\ new.minSeed = env.minSeed
          /\ new.checked = env.checked
      BY <1>1 DEF Configs
    <3> HIDE DEF new
    <3>2. QED
      BY <1>1, <2>1, <3>1, SizedReadsTheSeed
  <2>3. QED
    BY <1>4, <2>1, <2>2, SetEnvKeeps DEF PasteNoAirdrop
<1>5. QED
  BY <1>2, <1>3, <1>4

LEMMA PasteSeedKeeps ==
    ASSUME IInv, NEW v \in Valuations \cup {None}, NEW t \in Ticks \cup {None},
           NEW l \in Lowers, NEW s \in SeedArgs, NEW r \in {env.total, 0},
           PasteSeed(v, t, l, s, r)
    PROVE  IInv'
<1>1. PICK u \in IF t = None THEN TickFor(v) ELSE {t} :
        LET float == Supply - r
            target == IF s = None THEN float - Headroom ELSE s
            liquidity == LiquidityFor(target, l, u)
            used == PrismFor(liquidity, l, u)
        IN  /\ r <= Supply
            /\ l < u
            /\ v # None /\ t # None => Agrees(Fdv(t), v)
            /\ target <= float
            /\ SetEnv([env EXCEPT
                   !.reserve = r, !.lower = l, !.upper = u,
                   !.liquidity = liquidity, !.target = Fdv(u),
                   !.minSeed = MinSeed(float, used),
                   !.declared = v, !.sizedFor = r,
                   !.checked = /\ used >= Floor90(float) /\ used >= Whole
                               /\ Fdv(u) >= MinFdv /\ u # MaxTick])
  BY DEF PasteSeed
<1> DEFINE float == Supply - r
           target == IF s = None THEN float - Headroom ELSE s
           liquidity == LiquidityFor(target, l, u)
           used == PrismFor(liquidity, l, u)
           good == used >= Floor90(float) /\ used >= Whole /\ Fdv(u) >= MinFdv /\ u # MaxTick
           new == [env EXCEPT !.reserve = r, !.lower = l, !.upper = u,
                              !.liquidity = liquidity, !.target = Fdv(u),
                              !.minSeed = MinSeed(float, used),
                              !.declared = v, !.sizedFor = r, !.checked = good]
<1>2. env \in Configs /\ r \in Nat
  BY DEF IInv, EnvOK, Configs
<1>3. u \in Ticks /\ l \in Ticks /\ l < u
  BY <1>1 DEF TickFor
<1>4. SetEnv(new) /\ r <= Supply
  BY <1>1
<1>5. float \in Int /\ target \in Int /\ target <= float
  BY <1>1, <1>2
<1>6. liquidity \in Int /\ used \in Int /\ used <= target
  BY <1>3, <1>5, SeedFits
<1>7. Fdv(u) \in Int /\ Floor90(float) \in Int
  BY <1>3, <1>5, FdvIsInt, Floor90IsInt
<1> HIDE DEF float, target, liquidity, used
<1>8. MinSeed(float, used) \in Int /\ (used >= Floor90(float) => MinSeed(float, used) <= used)
  BY <1>5, <1>6, <1>7 DEF MinSeed
<1>9. good \in BOOLEAN
  OBVIOUS
<1>10. new \in Configs
  BY <1>2, <1>3, <1>6, <1>7, <1>8, <1>9 DEF Configs
<1>11. /\ new.sizedFor = r /\ new.lower = l /\ new.upper = u /\ new.target = Fdv(u)
       /\ new.liquidity = liquidity /\ new.minSeed = MinSeed(float, used)
       /\ new.checked = good
  BY <1>2 DEF Configs
<1>12. used = PrismFor(liquidity, l, u) /\ float = Supply - r
  BY DEF used, float
<1> HIDE DEF new
<1>13. new.checked => Sized(new)
  <2>1. SUFFICES ASSUME good PROVE Sized(new)
    BY <1>11
  <2>2. used >= Floor90(float) /\ used >= MinSeed(float, used) /\ used <= float
    BY <1>5, <1>6, <1>7, <1>8, <2>1
  <2>3. QED
    BY <1>3, <1>4, <1>11, <1>12, <2>2 DEF Sized
<1>14. QED
  BY <1>4, <1>10, <1>13, SetEnvKeeps

LEMMA DeployKeeps ==
    ASSUME IInv, Deploy
    PROVE  IInv'
<1>1. /\ deployed' = [root |-> env.root, reserve |-> env.reserve, upper |-> env.upper,
                      declared |-> env.declared]
      /\ env.reserve > 0 <=> env.root # None
      /\ env.reserve > 0 => env.reserve = env.total /\ CanaryVouches
  BY DEF Deploy, DeployAccepts, ValidConfig
<1>2. env.reserve \in Nat /\ env.path \in Dirs
  BY DEF IInv, EnvOK, Configs
<1>3. ASSUME env.root # None
      PROVE  Clean(env.root) /\ env.reserve = Total(env.root)
  <2>1. canary[env.path] # None /\ canary[env.path].root = env.root
        /\ canary[env.path].total = env.total
    BY <1>1, <1>3 DEF CanaryVouches
  <2>2. Vouches(canary[env.path])
    BY <1>2, <2>1 DEF IInv, FilesOK
  <2>3. QED
    BY <1>1, <1>3, <2>1, <2>2 DEF Vouches
<1>4. DeployedOK'
  BY <1>1, <1>2, <1>3 DEF DeployedOK
<1>5. QED
  BY <1>4 DEF IInv, FilesOK, EnvOK, Deploy, files

-----------------------------------------------------------------------------
(* The theorems.                                                           *)

THEOREM ConfigInductive == Spec => []IInv
<1>1. Init => IInv
  BY InitKeeps
<1>2. IInv /\ [Next]_vars => IInv'
  <2> SUFFICES ASSUME IInv, [Next]_vars PROVE IInv'
    OBVIOUS
  <2>1. CASE UNCHANGED vars
    BY <2>1 DEF IInv, FilesOK, EnvOK, DeployedOK, vars, files
  <2>2. CASE Next
    <3>1. CASE \E s \in Snapshots, d \in Dirs : \E rows \in {s, Basis(s)} : Generate(rows, d)
      BY <3>1, GenerateKeeps
    <3>2. CASE GenerateEnds
      BY <3>2, GenerateEndsKeeps
    <3>3. CASE \E t \in Ticks, v \in Valuations : MakeEnv(t, v)
      BY <3>3, MakeEnvKeeps
    <3>4. CASE PasteRoot \/ PasteTotal \/ PasteNoAirdrop
      BY <3>4, PasteTreeKeeps
    <3>5. CASE \E v \in Valuations \cup {None}, t \in Ticks \cup {None} :
                  /\ v # None \/ t # None
                  /\ \E l \in Lowers, s \in SeedArgs, r \in {env.total, 0} :
                        PasteSeed(v, t, l, s, r)
      BY <3>5, PasteSeedKeeps
    <3>6. CASE Deploy
      BY <3>6, DeployKeeps
    <3>7. QED
      BY <2>2, <3>1, <3>2, <3>3, <3>4, <3>5, <3>6 DEF Next
  <2>3. QED
    BY <2>1, <2>2
<1>3. QED
  BY <1>1, <1>2, PTL DEF Spec

\* A deployed reserve is the sum of the leaves of the deployed root.
THEOREM ReserveSound == Spec => []ReserveIsTheTree
<1>1. IInv => ReserveIsTheTree
  BY DEF IInv, DeployedOK, ReserveIsTheTree
<1>2. QED
  BY <1>1, ConfigInductive, PTL

\* No deployed tree has a leaf at a forbidden address, but for the exceptions.
THEOREM ParkedSound == Spec => []NoParkedLeaf
<1>1. IInv => NoParkedLeaf
  BY DEF IInv, DeployedOK, NoParkedLeaf
<1>2. QED
  BY <1>1, ConfigInductive, PTL

\* What the tools emit, Deploy accepts, at every price and for every reserve.
THEOREM EmittedSound == Spec => []EmittedDeploys
<1>1. IInv => EmittedDeploys
  <2> SUFFICES ASSUME IInv, env.checked, env.reserve = env.sizedFor,
                      IF env.root = None THEN env.reserve = 0
                      ELSE env.reserve = env.total /\ CanaryVouches,
                      ~Unmirrored
               PROVE  DeployAccepts
    BY DEF EmittedDeploys
  <2> DEFINE float == Supply - env.reserve
             seeded == PrismFor(env.liquidity, env.lower, env.upper)
             fdv == Fdv(env.upper)
  <2>1. /\ env \in Configs
        /\ env.reserve <= Supply /\ env.lower < env.upper /\ env.target = fdv
        /\ seeded <= float /\ seeded >= env.minSeed /\ seeded >= Floor90(float)
    BY DEF IInv, EnvOK, Sized
  <2>2. /\ env.reserve \in Nat /\ env.total \in Nat /\ env.liquidity \in Int
        /\ env.lower \in Ticks /\ env.upper \in Ticks
    BY <2>1 DEF Configs
  <2>3. fdv \in Nat
    BY <2>2, FdvIsInt
  <2>4. Width(env.lower, env.upper) \in Nat \ {0}
    BY <2>1, <2>2, WidthPositive
  <2>5. seeded \in Int
    BY <2>2, <2>4 DEF PrismFor, CeilDiv
  <2>6. seeded >= Whole /\ fdv >= MinFdv /\ fdv <= MaxFdv
    BY <2>3, <2>5 DEF Unmirrored
  <2>7. env.liquidity > 0
    <3>1. SUFFICES ASSUME env.liquidity <= 0 PROVE FALSE
      BY <2>2
    <3>2. env.liquidity * Width(env.lower, env.upper) \in Int
          /\ env.liquidity * Width(env.lower, env.upper) <= 0 * Q
      BY <2>2, <2>4, <3>1
    <3>3. seeded <= 0
      BY <3>2, CeilingBound DEF PrismFor
    <3>4. QED
      BY <2>5, <2>6, <3>3
  <2>8. fdv >= (fdv * 3) \div 4 /\ fdv <= (fdv * 5) \div 4
    BY <2>3
  <2>9. env.root = None => env.reserve = 0
    OBVIOUS
  <2>10. env.root # None => env.reserve = env.total /\ CanaryVouches
    OBVIOUS
  <2>11. env.root # None => env.reserve > 0
    <3>1. SUFFICES ASSUME env.root # None PROVE env.reserve > 0
      OBVIOUS
    <3>2. Vouches(canary[env.path]) /\ canary[env.path].total = env.reserve
      BY <2>1, <2>10, <3>1 DEF CanaryVouches, IInv, FilesOK, Configs
    <3>3. env.reserve \in Nat \ {0}
      BY <3>2, TreesAssumption DEF Vouches
    <3>4. QED
      BY <3>3
  <2>12. ValidConfig
    BY <2>1, <2>2, <2>3, <2>6, <2>7, <2>8, <2>9, <2>10, <2>11 DEF ValidConfig
  <2>13. SeedGoesThrough
    BY <2>1, <2>6 DEF SeedGoesThrough, SeededEnough
  <2>14. QED
    BY <2>9, <2>10, <2>12, <2>13 DEF DeployAccepts
<1>2. QED
  BY <1>1, ConfigInductive, PTL

-----------------------------------------------------------------------------
(* The price.  Deploy compares the valuation of .env's tick with a target  *)
(* that its tools derived from the same tick, so it only bounds it; that   *)
(* it is the one a human stated is the tools' doing.                       *)

\* What .env says of a stated valuation, unless Deploy will refuse it.
Priced(e) ==
    e.declared # None =>
        /\ e.target = Fdv(e.upper)
        /\ Agrees(Fdv(e.upper), e.declared) \/ Fdv(e.upper) \notin MinFdv..MaxFdv

\* If any tick is within 5%, the closest one is.
LEMMA ClosestAgrees ==
    ASSUME NEW v \in Nat, NEW t \in TickFor(v), NEW u \in Ticks, Agrees(Fdv(u), v)
    PROVE  Agrees(Fdv(t), v)
<1> DEFINE error(x) == IF Fdv(x) > v THEN Fdv(x) - v ELSE v - Fdv(x)
           ft == Fdv(t)
           fu == Fdv(u)
<1>1. t \in Ticks /\ (error(t) < error(u) \/ error(t) = error(u))
  BY DEF TickFor
<1>2. ft \in Nat /\ fu \in Nat
  BY <1>1, FdvIsInt
<1>3. fu * 100 >= v * 95 /\ fu * 100 <= v * 105
  BY DEF Agrees
<1>4. \/ (IF ft > v THEN ft - v ELSE v - ft) < (IF fu > v THEN fu - v ELSE v - fu)
      \/ (IF ft > v THEN ft - v ELSE v - ft) = (IF fu > v THEN fu - v ELSE v - fu)
  BY <1>1
<1> HIDE DEF ft, fu
<1>5. ft * 100 >= v * 95 /\ ft * 100 <= v * 105
  BY <1>2, <1>3, <1>4
<1>6. QED
  BY <1>5 DEF Agrees, ft

\* .env copied by hand is priced as it was, unless a tool prices it anew.
LEMMA SetEnvPrices ==
    ASSUME Priced(env), PriceIsDeclared, NEW new, SetEnv(new),
           \/ new.declared = env.declared /\ new.target = env.target /\ new.upper = env.upper
           \/ Priced(new)
    PROVE  Priced(env)' /\ PriceIsDeclared'
<1>1. env' = new /\ deployed' = deployed
  BY DEF SetEnv
<1>2. Priced(new)
  BY DEF Priced
<1>3. QED
  BY <1>1, <1>2 DEF Priced, PriceIsDeclared

LEMMA MakeEnvPrices ==
    ASSUME IInv, Priced(env), PriceIsDeclared, NEW tick \in Ticks, NEW fdv \in Valuations,
           MakeEnv(tick, fdv)
    PROVE  Priced(env)' /\ PriceIsDeclared'
<1>1. \/ \E new : /\ SetEnv(new) /\ Agrees(Fdv(tick), fdv)
                  /\ new.declared = fdv /\ new.target = Fdv(tick) /\ new.upper = tick
      \/ \E left \in {env, Blank} : SetEnv(left)
  <2> DEFINE c == canary["airdrop"]
             float == Supply - c.total
             liquidity == LiquidityFor(float - Headroom, MinTick, tick)
             deposit == PrismFor(liquidity, MinTick, tick)
             priced == [root |-> c.root, total |-> c.total, reserve |-> c.total,
                        path |-> "airdrop", lower |-> MinTick, upper |-> tick,
                        liquidity |-> liquidity, target |-> Fdv(tick),
                        minSeed |-> deposit - Slack,
                        declared |-> fdv, sizedFor |-> c.total, checked |-> TRUE]
  <2>1. \/ SetEnv(priced) /\ Agrees(Fdv(tick), fdv)
        \/ \E left \in {env, Blank} : SetEnv(left)
    BY DEF MakeEnv
  <2>2. priced.declared = fdv /\ priced.target = Fdv(tick) /\ priced.upper = tick
    OBVIOUS
  <2> HIDE DEF priced
  <2>3. QED
    BY <2>1, <2>2
<1>2. Blank.declared = None
  BY DEF Blank
<1>3. CASE \E left \in {env, Blank} : SetEnv(left)
  BY <1>2, <1>3, SetEnvPrices DEF Priced
<1>4. ASSUME NEW new, SetEnv(new), Agrees(Fdv(tick), fdv),
             new.declared = fdv, new.target = Fdv(tick), new.upper = tick
      PROVE  Priced(env)' /\ PriceIsDeclared'
  <2>1. Priced(new)
    BY <1>4 DEF Priced
  <2>2. QED
    BY <1>4, <2>1, SetEnvPrices
<1>5. QED
  BY <1>1, <1>3, <1>4

LEMMA PasteTreePrices ==
    ASSUME IInv, Priced(env), PriceIsDeclared, PasteRoot \/ PasteTotal \/ PasteNoAirdrop
    PROVE  Priced(env)' /\ PriceIsDeclared'
<1>1. env \in Configs
  BY DEF IInv, EnvOK
<1>2. ASSUME NEW new, SetEnv(new), new.declared = env.declared,
             new.target = env.target, new.upper = env.upper
      PROVE  Priced(env)' /\ PriceIsDeclared'
  BY <1>2, SetEnvPrices
<1>3. CASE PasteRoot
  <2> DEFINE new == [env EXCEPT !.root = printed.root, !.path = printed.dir]
  <2>1. SetEnv(new)
    BY <1>3 DEF PasteRoot
  <2>2. new.declared = env.declared /\ new.target = env.target /\ new.upper = env.upper
    BY <1>1 DEF Configs
  <2> HIDE DEF new
  <2>3. QED
    BY <1>2, <2>1, <2>2
<1>4. CASE PasteTotal
  <2>1. PICK reserve :
           SetEnv([env EXCEPT !.total = printed.total, !.reserve = reserve])
    BY <1>4 DEF PasteTotal
  <2> DEFINE new == [env EXCEPT !.total = printed.total, !.reserve = reserve]
  <2>2. new.declared = env.declared /\ new.target = env.target /\ new.upper = env.upper
    BY <1>1 DEF Configs
  <2>3. SetEnv(new)
    BY <2>1
  <2> HIDE DEF new
  <2>4. QED
    BY <1>2, <2>2, <2>3
<1>5. CASE PasteNoAirdrop
  <2> DEFINE new == [env EXCEPT !.root = None, !.reserve = 0]
  <2>1. SetEnv(new)
    BY <1>5 DEF PasteNoAirdrop
  <2>2. new.declared = env.declared /\ new.target = env.target /\ new.upper = env.upper
    BY <1>1 DEF Configs
  <2> HIDE DEF new
  <2>3. QED
    BY <1>2, <2>1, <2>2
<1>6. QED
  BY <1>3, <1>4, <1>5

\* seed-params.mjs compares the two when both are given; a valuation alone gets
\* the tick closest to it.
LEMMA PasteSeedPrices ==
    ASSUME FineTicks, IInv, Priced(env), PriceIsDeclared,
           NEW v \in Valuations \cup {None}, NEW t \in Ticks \cup {None},
           NEW l \in Lowers, NEW s \in SeedArgs, NEW r \in {env.total, 0},
           v # None \/ t # None, PasteSeed(v, t, l, s, r)
    PROVE  Priced(env)' /\ PriceIsDeclared'
<1>1. env \in Configs
  BY DEF IInv, EnvOK
<1>2. PICK u \in IF t = None THEN TickFor(v) ELSE {t} :
         /\ v # None /\ t # None => Agrees(Fdv(t), v)
         /\ \E liquidity, minSeed, checked :
               SetEnv([env EXCEPT
                !.reserve = r, !.lower = l, !.upper = u,
                !.liquidity = liquidity, !.target = Fdv(u), !.minSeed = minSeed,
                !.declared = v, !.sizedFor = r, !.checked = checked])
  BY DEF PasteSeed
<1>3. PICK liquidity, minSeed, checked :
         SetEnv([env EXCEPT
                !.reserve = r, !.lower = l, !.upper = u,
                !.liquidity = liquidity, !.target = Fdv(u), !.minSeed = minSeed,
                !.declared = v, !.sizedFor = r, !.checked = checked])
  BY <1>2
<1> DEFINE new == [env EXCEPT
                !.reserve = r, !.lower = l, !.upper = u,
                !.liquidity = liquidity, !.target = Fdv(u), !.minSeed = minSeed,
                !.declared = v, !.sizedFor = r, !.checked = checked]
<1>4. new.upper = u /\ new.target = Fdv(u) /\ new.declared = v
  BY <1>1 DEF Configs
<1>5. SetEnv(new)
  BY <1>3
<1> HIDE DEF new
<1>6. ASSUME v # None
      PROVE  Agrees(Fdv(u), v) \/ Fdv(u) \notin MinFdv..MaxFdv
  <2>1. CASE t # None
    BY <1>2, <1>6, <2>1
  <2>2. CASE t = None
    <3>1. v \in Valuations /\ v \in Nat /\ u \in TickFor(v)
      BY <1>2, <1>6, <2>2
    <3>2. QED
      BY <3>1, ClosestAgrees DEF FineTicks
  <2>3. QED
    BY <2>1, <2>2
<1>7. Priced(new)
  BY <1>4, <1>6 DEF Priced
<1>8. QED
  BY <1>5, <1>7, SetEnvPrices

\* Deploy's bounds are on the target, which is the valuation of the tick.
LEMMA DeployPrices ==
    ASSUME IInv, Priced(env), PriceIsDeclared, Deploy
    PROVE  Priced(env)' /\ PriceIsDeclared'
<1>1. /\ env' = env
      /\ deployed'.upper = env.upper /\ deployed'.declared = env.declared
      /\ env.target <= MaxFdv /\ Fdv(env.upper) >= MinFdv
  BY DEF Deploy, DeployAccepts, ValidConfig
<1>2. env.upper \in Ticks /\ env.declared \in Valuations \cup {None}
  BY DEF IInv, EnvOK, Configs
<1>3. ASSUME env.declared # None
      PROVE  Fdv(env.upper) * 100 \in (env.declared * 95)..(env.declared * 105)
  <2>1. Fdv(env.upper) \in Nat /\ env.declared \in Nat
    BY <1>2, <1>3, FdvIsInt
  <2>2. Fdv(env.upper) \in MinFdv..MaxFdv
    BY <1>1, <1>3, <2>1 DEF Priced
  <2>3. Agrees(Fdv(env.upper), env.declared)
    BY <1>3, <2>2 DEF Priced
  <2>4. QED
    BY <2>1, <2>3 DEF Agrees
<1>4. PriceIsDeclared'
  BY <1>1, <1>3 DEF PriceIsDeclared
<1>5. Priced(env)'
  BY <1>1 DEF Priced
<1>6. QED
  BY <1>4, <1>5

\* A launch goes out within 5% of the valuation a human stated, whatever is pasted
\* again, or left stale, in whatever order: the tick and the valuation it was
\* stated for are only ever written together.
THEOREM PriceSound == ASSUME FineTicks PROVE Spec => []PriceIsDeclared
<1>1. Init => Priced(env) /\ PriceIsDeclared
  BY DEF Init, Blank, Priced, PriceIsDeclared
<1>2. IInv /\ Priced(env) /\ PriceIsDeclared /\ [Next]_vars
         => Priced(env)' /\ PriceIsDeclared'
  <2> SUFFICES ASSUME IInv, Priced(env), PriceIsDeclared, [Next]_vars
               PROVE  Priced(env)' /\ PriceIsDeclared'
    OBVIOUS
  <2>1. CASE UNCHANGED <<env, deployed>>
    BY <2>1 DEF Priced, PriceIsDeclared
  <2>2. CASE \/ \E s \in Snapshots, d \in Dirs : \E rows \in {s, Basis(s)} : Generate(rows, d)
             \/ GenerateEnds \/ UNCHANGED vars
    BY <2>1, <2>2 DEF Generate, GenerateEnds, vars
  <2>3. CASE \E t \in Ticks, v \in Valuations : MakeEnv(t, v)
    BY <2>3, MakeEnvPrices
  <2>4. CASE PasteRoot \/ PasteTotal \/ PasteNoAirdrop
    BY <2>4, PasteTreePrices
  <2>5. CASE \E v \in Valuations \cup {None}, t \in Ticks \cup {None} :
                /\ v # None \/ t # None
                /\ \E l \in Lowers, s \in SeedArgs, r \in {env.total, 0} :
                      PasteSeed(v, t, l, s, r)
    BY <2>5, PasteSeedPrices
  <2>6. CASE Deploy
    BY <2>6, DeployPrices
  <2>7. QED
    BY <2>2, <2>3, <2>4, <2>5, <2>6 DEF Next
<1>3. QED
  BY <1>1, <1>2, ConfigInductive, PTL DEF Spec
=============================================================================
