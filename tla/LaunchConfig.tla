---------------------------- MODULE LaunchConfig ----------------------------
(***************************************************************************)
(* How the configuration of a launch comes about.  prepare-basis.mjs and   *)
(* generate.mjs turn a snapshot into a tree and its files; make-env.mjs,   *)
(* or an operator who copies what generate.mjs and seed-params.mjs print,  *)
(* fills .env; Deploy reads .env and a canary file and goes ahead or not.  *)
(*                                                                         *)
(* generate.mjs may be killed between two files, anything may be run again *)
(* in any order, and each value is copied, or left stale, by itself.  A    *)
(* root stands for its tree, the function from its accounts to their       *)
(* amounts: hashes do not collide.                                         *)
(***************************************************************************)
EXTENDS SeedParams, Sequences, FiniteSetsExt, SequencesExt

CONSTANTS
    Snapshots,     \* raw snapshots: sequences of <<address, amount>>
    Forbidden,     \* the addresses of forbidden.mjs
    Grandfathered, \* the exact amounts excepted for some of them
    Shipped,       \* the tree whose files are committed under airdrop/
    None,
    MinTick,       \* the lowest aligned tick
    MaxTick,       \* the highest
    Valuations,    \* the valuations an operator may state
    Lowers,        \* the values of --tick-lower
    SeedArgs,      \* the values of --seed-prism, None for none
    Slips          \* amounts mistyped where one is copied

Dirs == {"airdrop", "out"} \* airdrop/ and merkle/out/

ASSUME ConfigAssumption ==
    /\ DOMAIN Grandfathered \subseteq Forbidden
    /\ {MinTick, MaxTick} \cup Lowers \subseteq Ticks
    /\ Valuations \subseteq Nat \ {0} /\ Slips \subseteq Nat
    /\ SeedArgs \subseteq Int \cup {None} /\ None \notin Int

VARIABLES
    canary,  \* canary.json of each directory: the root, the total and a leaf, or None
    gen,     \* the run of generate.mjs that has not printed yet, or None
    printed, \* what generate.mjs printed last, or None
    env,     \* .env; "declared", "sizedFor" and "checked" are history: the valuation
             \* stated, the reserve the seed was sized for, if its tool found no problem
    deployed \* what Deploy broadcast, or None

files == <<canary, gen, printed>>
vars == <<files, env, deployed>>

Total(tree) == MapThenSumSet(LAMBDA a : tree[a], DOMAIN tree)
Leaves(tree) == {<<a, tree[a]>> : a \in DOMAIN tree}

\* No leaf is for nothing, or at a forbidden address but for the exceptions.
Clean(tree) ==
    \A row \in Leaves(tree) :
        /\ row[2] > 0
        /\ row[1] \in Forbidden =>
              row[1] \in DOMAIN Grandfathered /\ row[2] = Grandfathered[row[1]]

Canary(tree, leaf) == [root |-> tree, total |-> Total(tree), leaf |-> leaf]

\* .env.example.
Blank ==
    [root |-> None, total |-> 0, reserve |-> 0, path |-> "out",
     lower |-> MinTick, upper |-> MinTick, liquidity |-> 0, target |-> 0, minSeed |-> 0,
     declared |-> None, sizedFor |-> 0, checked |-> FALSE]

Init ==
    /\ gen = None /\ printed = None
    /\ \E leaf \in Leaves(Shipped) :
          canary = [d \in Dirs |-> IF d = "airdrop" THEN Canary(Shipped, leaf) ELSE None]
    /\ env = Blank /\ deployed = None

-----------------------------------------------------------------------------
(* The tree.                                                               *)

\* What prepare-basis.mjs makes of a snapshot.
Basis(snapshot) == SelectSeq(snapshot, LAMBDA row : row[1] \notin Forbidden)

\* Mutant: the exception is for the address, whatever the amount.
ExceptedAddress(row) == row[1] \in DOMAIN Grandfathered

Excepted(row) == row[1] \in DOMAIN Grandfathered /\ row[2] = Grandfathered[row[1]]

Acceptable(rows) ==
    /\ rows # << >>
    /\ \A i \in DOMAIN rows :
          /\ rows[i][1] \in Forbidden => Excepted(rows[i])
          /\ rows[i][2] > 0
    /\ \A i, j \in DOMAIN rows : rows[i][1] = rows[j][1] => i = j

Tree(rows) ==
    [a \in {rows[i][1] : i \in DOMAIN rows} |->
        rows[CHOOSE i \in DOMAIN rows : rows[i][1] = a][2]]

\* The trees there can be.  Amounts are positive, and so are their sums.
Trees ==
    {Shipped} \cup
    {Tree(rows) : rows \in {r \in Snapshots \cup {Basis(s) : s \in Snapshots} : Acceptable(r)}}

ASSUME TreesAssumption ==
    /\ Shipped # None /\ Clean(Shipped)
    /\ \A tree \in Trees : Total(tree) \in Nat \ {0}

\* Rows that are not acceptable end the run before it writes anything.  Any
\* leaf may come first.  A run killed before its last file leaves the canary
\* as it was.
Generate(rows, dir) ==
    /\ gen = None
    /\ Acceptable(rows)
    /\ \E leaf \in Leaves(Tree(rows)) :
          canary' = [canary EXCEPT ![dir] = Canary(Tree(rows), leaf)]
    /\ gen' = [root |-> Tree(rows), total |-> Total(Tree(rows)), dir |-> dir]
    /\ UNCHANGED <<printed, env, deployed>>

\* It prints what to copy, or was killed before.
GenerateEnds ==
    /\ gen # None
    /\ gen' = None
    /\ printed' \in {gen, printed}
    /\ UNCHANGED <<canary, env, deployed>>

-----------------------------------------------------------------------------
(* .env.                                                                   *)

SetEnv(new) ==
    /\ env' = new
    /\ UNCHANGED <<files, deployed>>

\* A run of make-env.mjs with LAUNCH_TICK and LAUNCH_FDV_ETH as they stand in
\* the source, which an operator may edit.  When it refuses, the redirection
\* of LAUNCH.md has emptied .env, and the wizard keeps the old one.
MakeEnv(tick, fdv) ==
    LET c == canary["airdrop"]
        float == Supply - c.total
        liquidity == LiquidityFor(float - Headroom, MinTick, tick)
        deposit == PrismFor(liquidity, MinTick, tick)
    IN  /\ MinTick < tick
        /\ IF deposit <= float /\ deposit - Slack >= Floor90(float) /\ Agrees(Fdv(tick), fdv)
           THEN SetEnv([root |-> c.root, total |-> c.total, reserve |-> c.total,
                        path |-> "airdrop", lower |-> MinTick, upper |-> tick,
                        liquidity |-> liquidity, target |-> Fdv(tick),
                        minSeed |-> deposit - Slack,
                        declared |-> fdv, sizedFor |-> c.total, checked |-> TRUE])
           ELSE \E left \in {env, Blank} : SetEnv(left)

\* The values an operator copies from what generate.mjs printed, the root
\* apart from the amounts.
PasteRoot ==
    /\ printed # None
    /\ SetEnv([env EXCEPT !.root = printed.root, !.path = printed.dir])

PasteTotal ==
    /\ printed # None
    /\ \E reserve \in {printed.total} \cup Slips :
          SetEnv([env EXCEPT !.total = printed.total, !.reserve = reserve])

\* A fair launch has neither.
PasteNoAirdrop == SetEnv([env EXCEPT !.root = None, !.reserve = 0])

\* What seed-params.mjs prints, pasted even when it lists problems.  Both a
\* tick and a valuation may be given; one that is not is None.
PasteSeed(fdv, tick, lower, seed, reserve) ==
    \E upper \in IF tick = None THEN TickFor(fdv) ELSE {tick} :
        LET float == Supply - reserve
            target == IF seed = None THEN float - Headroom ELSE seed
            liquidity == LiquidityFor(target, lower, upper)
            used == PrismFor(liquidity, lower, upper)
        IN  /\ reserve <= Supply
            /\ lower < upper
            /\ fdv # None /\ tick # None => Agrees(Fdv(tick), fdv)
            /\ target <= float
            /\ SetEnv([env EXCEPT
                   !.reserve = reserve, !.lower = lower, !.upper = upper,
                   !.liquidity = liquidity, !.target = Fdv(upper),
                   !.minSeed = MinSeed(float, used),
                   !.declared = fdv, !.sizedFor = reserve,
                   !.checked = /\ used >= Floor90(float) /\ used >= Whole
                               /\ Fdv(upper) >= MinFdv /\ upper # MaxTick])

-----------------------------------------------------------------------------
(* Deploy.s.sol, simulated before anything is signed.                      *)

ValidConfig ==
    /\ env.reserve <= Supply
    /\ env.liquidity > 0
    /\ env.lower < env.upper
    /\ env.target >= MinFdv /\ env.target <= MaxFdv
    /\ Fdv(env.upper) >= MinFdv
    /\ Fdv(env.upper) >= (env.target * 3) \div 4 /\ Fdv(env.upper) <= (env.target * 5) \div 4
    /\ env.reserve > 0 <=> env.root # None
    /\ env.reserve > 0 => env.total > 0 /\ env.reserve = env.total

\* Mutant: one real leaf, and no comparison of the roots.
CanaryLeafOnly ==
    LET c == canary[env.path]
    IN  c # None /\ c.total = env.total /\ c.leaf \in Leaves(env.root)

CanaryVouches ==
    LET c == canary[env.path]
    IN  c # None /\ c.root = env.root /\ c.total = env.total /\ c.leaf \in Leaves(env.root)

\* The hook has the float, and its seed is large enough.
SeedGoesThrough ==
    LET float == Supply - env.reserve
        seeded == PrismFor(env.liquidity, env.lower, env.upper)
    IN  seeded <= float /\ SeededEnough(float, seeded, env.minSeed)

DeployAccepts ==
    /\ ValidConfig
    /\ env.reserve > 0 => CanaryVouches
    /\ SeedGoesThrough

Deploy ==
    /\ DeployAccepts
    /\ deployed' = [root |-> env.root, reserve |-> env.reserve, upper |-> env.upper,
                    declared |-> env.declared]
    /\ UNCHANGED <<files, env>>

\* Bound: nothing is run after the deploy.
Next ==
    /\ deployed = None
    /\ \/ \E s \in Snapshots, d \in Dirs : \E rows \in {s, Basis(s)} : Generate(rows, d)
       \/ GenerateEnds
       \/ \E t \in Ticks, v \in Valuations : MakeEnv(t, v)
       \/ PasteRoot \/ PasteTotal \/ PasteNoAirdrop
       \/ \E v \in Valuations \cup {None}, t \in Ticks \cup {None} :
             /\ v # None \/ t # None
             /\ \E l \in Lowers, s \in SeedArgs, r \in {env.total, 0} : PasteSeed(v, t, l, s, r)
       \/ Deploy

Spec == Init /\ [][Next]_vars

-----------------------------------------------------------------------------
(* Properties.                                                             *)

\* Whatever is stale, mistyped or half written, a deployed reserve is the sum of
\* the leaves of the deployed root: no PRISM is minted where no proof reaches it,
\* and no claimer is left without.
ReserveIsTheTree ==
    deployed # None =>
        deployed.reserve = IF deployed.root = None THEN 0 ELSE Total(deployed.root)

\* No tree that was deployed pays an address that cannot hold fee-shares, apart
\* from the exact amounts excepted, though a raw snapshot names such addresses.
NoParkedLeaf ==
    deployed # None /\ deployed.root # None => Clean(deployed.root)

\* A launch goes out near the valuation a human stated, if one was stated, though
\* Deploy's own band is given a target derived from the same tick.
PriceIsDeclared ==
    deployed # None /\ deployed.declared # None =>
        Fdv(deployed.upper) * 100 \in (deployed.declared * 95)..(deployed.declared * 105)

\* The table of prices is as fine as PriceIsDeclared needs it, and TickMath's
\* aligned ticks, 2% apart, are finer: where the tick closest to a valuation is
\* one that Deploy accepts, there is one within 5%.
FineTicks ==
    LET accepted == {t \in Ticks : Fdv(t) \in MinFdv..MaxFdv}
    IN  \A v \in Valuations :
            TickFor(v) \cap accepted # {} => \E t \in accepted : Agrees(Fdv(t), v)

\* What the tools found no problem in, and nothing has gone stale around, Deploy
\* does not refuse.  Two of its bounds are not mirrored: make-env.mjs has no
\* floor of 50 PRISM, and neither tool its upper bound on a valuation.
Unmirrored ==
    \/ PrismFor(env.liquidity, env.lower, env.upper) < Whole
    \/ Fdv(env.upper) < MinFdv \/ Fdv(env.upper) > MaxFdv
EmittedDeploys ==
    /\ env.checked /\ env.reserve = env.sizedFor
    /\ IF env.root = None THEN env.reserve = 0
       ELSE env.reserve = env.total /\ CanaryVouches
    /\ ~Unmirrored
    => DeployAccepts
=============================================================================
