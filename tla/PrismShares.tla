----------------------------- MODULE PrismShares -----------------------------
(***************************************************************************)
(* The ERC-20 -> fee-share synchronisation of PrismHookV2: every PRISM     *)
(* transfer realigns how many fee-share NFTs the two parties hold, so that *)
(* an account never holds more shares than the whole tokens behind them.   *)
(*                                                                         *)
(* The fee layer is abstracted to the one effect it has on balances: a     *)
(* collection moves PRISM from the pool to the hook and part of it on to   *)
(* the burn sink.  PrismHook adds the fee layer; PackedBook models how the *)
(* sequences owned[a] are stored.                                          *)
(***************************************************************************)
EXTENDS Integers, Sequences, FiniteSets, OwnedArrays

CONSTANTS
    Accounts,    \* every address that can hold PRISM
    Excluded,    \* the addresses for which _isExcluded answers true
    Hook,        \* the contract itself
    Pool,        \* the Uniswap PoolManager
    Sink,        \* BURN_SINK, stands also for the other addresses nobody can act for
    Vault,       \* MIGRATION_VAULT
    UNIT,        \* the balance behind one share
    Supply,      \* the fixed supply
    VaultAmount, \* the airdrop reserve minted to the vault
    MaxRealign,  \* MAX_REALIGN, the most shares one call mints
    Amounts,     \* bound: the transfer amounts and collections enumerated
    MaxId        \* bound: the last token id minted

ASSUME ConstantsAssumption ==
    /\ Excluded \subseteq Accounts
    /\ {Hook, Pool, Sink, Vault} \subseteq Excluded
    /\ Hook # Pool /\ Hook # Sink /\ Pool # Sink /\ Hook # Vault /\ Vault # Sink
    /\ UNIT \in Nat \ {0}
    /\ Supply \in Nat
    /\ VaultAmount \in 0..Supply
    /\ MaxRealign \in Nat \ {0}
    /\ Amounts \subseteq Nat
    /\ MaxId \in Nat

VARIABLES
    bal,         \* balanceOf
    owned,       \* the owned array of each account, oldest position first
    nextId,      \* _nextTokenId
    totalShares  \* the share denominator of fee distribution

shareVars == <<bal, owned, nextId, totalShares>>

Users == Accounts \ Excluded
Whole(b) == b \div UNIT
Shares(a) == Len(owned[a])
HeldBy(a) == {owned[a][i] : i \in DOMAIN owned[a]}
Live == UNION {HeldBy(a) : a \in Accounts}
Least(m, n) == IF m <= n THEN m ELSE n
Monus(m, n) == IF m > n THEN m - n ELSE 0

-----------------------------------------------------------------------------
(* Balances.                                                               *)

Paid(b, from, to, amount) ==
    [a \in Accounts |-> b[a] - (IF a = from THEN amount ELSE 0)
                             + (IF a = to THEN amount ELSE 0)]

\* Mutant: the burn leaves the hook although the collection brought nothing in.
CollectedBurnOnly(b, g, burn) == Paid(b, Hook, Sink, burn)

\* A collection moves g from the pool to the hook, which burns a part of it.
CollectedBalances(b, g, burn) == Paid(Paid(b, Pool, Hook, g), Hook, Sink, burn)

\* The balances a poke may leave: unchanged when it returns early or the
\* position manager fails, otherwise those after a collection.
AfterPoke(b) ==
    {b} \cup {CollectedBalances(b, c[1], c[2]) :
                c \in {d \in Amounts \X Amounts : d[2] <= d[1] /\ d[1] <= b[Pool]}}

-----------------------------------------------------------------------------
(* The owned arrays.                                                       *)

FreshIds(n) == [i \in 1..n |-> nextId + i]

\* Mutants: burns and moves under the cap that belongs to mints; a burn loop
\* that runs once too often.
BurnTailsCapped(o, from, k) ==
    [o EXCEPT ![from] = DropTails(@, Least(k, MaxRealign))]
BurnTailsOneMore(o, from, k) ==
    [o EXCEPT ![from] = IF @ = << >> THEN @ ELSE DropTails(@, k + 1)]

BurnTails(o, from, k) == [o EXCEPT ![from] = DropTails(@, k)]
MoveTails(o, from, to, k) ==
    [BurnTails(o, from, k) EXCEPT ![to] = @ \o TailsOf(o[from], k)]
MintTo(o, to, n) == [o EXCEPT ![to] = @ \o FreshIds(n)]

-----------------------------------------------------------------------------
(* What a transfer does to shares, worked out on the balances b it left.   *)

\* Mutants: a budget taken from the amount; a transfer to oneself counts as a
\* receipt.
MintBudgetOfAmount(b, from, to, amount) ==
    IF to \in Users /\ to # from THEN amount \div UNIT ELSE 0
MintBudgetToOneself(b, from, to, amount) ==
    IF to \in Users THEN Whole(b[to]) - Whole(b[to] - amount) ELSE 0

\* The whole-token boundaries the recipient crossed.
MintBudget(b, from, to, amount) ==
    IF to \in Users /\ to # from THEN Whole(b[to]) - Whole(b[to] - amount) ELSE 0

IdlePlan(from, to) ==
    [loser |-> from, gainer |-> to, moves |-> 0, burns |-> 0, mints |-> 0,
     pokes |-> FALSE]

PairPlan(b, from, to, budget) ==
    LET loses  == Monus(Shares(from), Whole(b[from]))
        gains  == Monus(Whole(b[to]), Shares(to))
        moves  == Least(loses, gains)
        toMint == Least(gains - moves, budget)
    IN  [loser |-> from, gainer |-> to, moves |-> moves, burns |-> loses - moves,
         mints |-> Least(toMint, MaxRealign), pokes |-> toMint > 0]

SoloPlan(b, user, budget) ==
    LET gains == Monus(Whole(b[user]), Shares(user))
    IN  [loser |-> user, gainer |-> user, moves |-> 0,
         burns |-> Monus(Shares(user), Whole(b[user])),
         mints |-> Least(Least(gains, budget), MaxRealign), pokes |-> gains > 0]

Plan(b, from, to, budget) ==
    CASE from \in Users /\ to \in Users -> PairPlan(b, from, to, budget)
      [] from \in Users /\ to \notin Users -> SoloPlan(b, from, budget)
      [] from \notin Users /\ to \in Users -> SoloPlan(b, to, budget)
      [] OTHER -> IdlePlan(from, to)

TransferPlan(from, to, amount) ==
    LET paid == Paid(bal, from, to, amount)
    IN  Plan(paid, from, to, MintBudget(paid, from, to, amount))

\* What syncNFTs(max) mints for its caller.
SyncPlan(user, max) ==
    LET owed == Monus(Whole(bal[user]), Shares(user))
        want == IF max = 0 THEN owed ELSE Least(owed, max)
    IN  [loser |-> user, gainer |-> user, moves |-> 0, burns |-> 0,
         mints |-> Least(want, MaxRealign), pokes |-> owed > 0]

Realign(plan) ==
    /\ nextId + plan.mints <= MaxId
    /\ nextId' = nextId + plan.mints
    /\ totalShares' = totalShares - plan.burns + plan.mints
    /\ owned' = LET moved  == MoveTails(owned, plan.loser, plan.gainer, plan.moves)
                    burned == BurnTails(moved, plan.loser, plan.burns)
                IN  MintTo(burned, plan.gainer, plan.mints)

-----------------------------------------------------------------------------
(* Actions.                                                                *)

ShareInit ==
    /\ bal = [a \in Accounts |->
                CASE a = Vault -> VaultAmount
                  [] a = Hook -> Supply - VaultAmount
                  [] OTHER -> 0]
    /\ owned = [a \in Accounts |-> << >>]
    /\ nextId = 0
    /\ totalShares = 0

\* transfer, transferFrom, and the contract's own _transfer.
ShareTransfer(from, to, amount) ==
    /\ amount <= bal[from]
    /\ LET paid == Paid(bal, from, to, amount)
           plan == TransferPlan(from, to, amount)
       IN  /\ Realign(plan)
           /\ bal' \in IF plan.pokes THEN AfterPoke(paid) ELSE {paid}

ShareSync(user, max) ==
    /\ user \notin Excluded
    /\ LET plan == SyncPlan(user, max)
       IN  /\ bal' \in IF plan.pokes THEN AfterPoke(bal) ELSE {bal}
           /\ Realign(plan)

\* Mutant: the destination is not checked against the exclusion set.
MayTakeShareAnywhere(from, to) == from # to

\* Where a share may be sent.
MayTakeShare(from, to) == to \notin Excluded /\ from # to

\* handleNFTTransfer: the share at position i and one UNIT behind it go
\* together, with the realignment switched off.
ShareNFTTransfer(from, to, i) ==
    /\ MayTakeShare(from, to)
    /\ i \in DOMAIN owned[from]
    /\ UNIT <= bal[from]
    /\ owned' = [owned EXCEPT ![from] = SwapPop(@, i),
                              ![to] = Append(@, owned[from][i])]
    /\ bal' = Paid(bal, from, to, UNIT)
    /\ UNCHANGED <<nextId, totalShares>>

SharePoke ==
    /\ totalShares # 0
    /\ bal' \in AfterPoke(bal)
    /\ UNCHANGED <<owned, nextId, totalShares>>

\* Nobody can act for the burn sink.
ShareNext ==
    \/ \E from \in Accounts \ {Sink}, to \in Accounts, amount \in Amounts :
            ShareTransfer(from, to, amount)
    \/ \E user \in Accounts, max \in Amounts : ShareSync(user, max)
    \/ \E from, to \in Accounts : \E i \in DOMAIN owned[from] :
            ShareNFTTransfer(from, to, i)
    \/ SharePoke

ShareSpec == ShareInit /\ [][ShareNext]_shareVars

-----------------------------------------------------------------------------
(* Properties.                                                             *)

\* Balances never go negative and owned arrays hold ids that were minted.
ShareTypeOK ==
    /\ bal \in [Accounts -> Nat]
    /\ owned \in [Accounts -> Seq(1..MaxId)]
    /\ nextId \in 0..MaxId
    /\ totalShares \in Int

\* No account holds more shares than the whole tokens behind them, whatever
\* the order of transfers, NFT transfers and syncs (_realignPair keeps moves
\* and burns uncapped for exactly this).
NoUnbackedShares == \A a \in Accounts : Shares(a) <= Whole(bal[a])

\* A share never rests on an account excluded from the fee layer, where it
\* would dilute every holder and its fees could not be claimed (_isExcluded).
ExcludedHoldNothing == \A a \in Excluded : owned[a] = << >>

\* The whole tokens of an account that no share mirrors.
Gap(a) == Whole(bal[a]) - Shares(a)

\* A holder falls behind only in a call that minted the cap: any other
\* transfer, sync or NFT transfer leaves the gap of every holder as it was or
\* smaller (the remainder _mintCapped leaves for syncNFTs).
GapGrowsOnlyAtCap ==
    [][\A u \in Users : Gap(u)' > Gap(u) => nextId' - nextId = MaxRealign]_shareVars

\* Nobody can take a share from a holder without taking balance as well: the
\* owned count of an account falls only in a step in which its balance falls.
SharesFallOnlyWithBalance ==
    [][\A u \in Users : Shares(u)' < Shares(u) => bal'[u] < bal[u]]_shareVars

\* A transfer mints no more shares than the whole tokens it brought to its
\* recipient: none with a zero amount, none to oneself, none within one UNIT,
\* however far the recipient lags behind.  Who pushes value back and forth may
\* make a laggard catch up, but by a share per whole token that arrives
\* (mintBudget in _afterTokenTransfer); the rest is left to its own syncNFTs.
MintsNeedACrossing ==
    [][nextId' > nextId =>
         \A from \in Accounts \ {Sink}, to \in Accounts, amount \in Amounts :
            ShareTransfer(from, to, amount) =>
               /\ to \in Users
               /\ nextId' - nextId <= Whole(bal'[to]) - Whole(bal[to])]_shareVars
=============================================================================
