# A verification project for PRISM v2

TLA+ models of the contracts, the launch wizard, the scripts and the tools of
this repository, the TLC runs that check them on small instances, and theorems
proved with TLAPS for every value of the constants. Paths below are relative to the repository root.

## 1. The system and its parts

PRISM v2 is a fixed-supply ERC-20 that is at the same time a Uniswap v4 hook
and the owner of the pool's one liquidity position. Every whole token a user
holds is mirrored by one NFT, a *share*; the position's fees are divided over
the shares. 89 % of the supply is an airdrop reserve in a vault, paid out over
a Merkle tree by permissionless claims that a batcher and an off-chain runner
push through.

| Part | Source | State | Operations |
|---|---|---|---|
| Share mirroring | `src/PrismHookV2.sol` 459-666, 789-799, 892-919 | balances, owned ids, `_nextTokenId`, `totalShares` | ERC-20 transfer hook, `syncNFTs`, `handleNFTTransfer` |
| Packed storage | same, 202-263, 593-666 | `_oo` words, `_ownedSlots`, lengths | `_mintNFT`, `_burnNFT`, `_move` |
| Fee accounting | same, 384-419, 668-869, 977-1007 | accumulators, debts, pending credits, `forfeitNextCollection`, transient first mint | `seed`, `pokeFees`, `claim*`, `withdrawPending*` |
| ERC-721 mirror, approvals | `src/PrismMirror.sol`, hook 921-975 | approvals | `approve`, `transferFrom`, `safeTransferFrom` |
| Migration vault | `src/PrismMigration.sol` | `token`, `tokenFinal`, `claimed` | `setToken`, `claim` |
| Airdrop batcher | `src/PrismAirdropBatcher.sol` | none | `push`, `pendingOf` |
| Airdrop runner | `merkle/push-airdrop.mjs` | one run's plan, chunks and counters | a run |
| Launch | `launch.mjs`, `script/*.s.sol` | the chain itself | deploy, renounce, open |
| Configuration | `merkle/{prepare-basis,generate,forbidden,make-env,seed-params}.mjs`, `script/Deploy.s.sol` 92-134, 356-482 | the tree's files, `.env` | prepare, generate, size, copy, validate |
| Fee keeper | `merkle/keeper.mjs` | its arguments, requests in flight | a tick every interval |
| Share checker, artwork | `merkle/check-shares.mjs`, `src/PrismArt.sol` | none | report, render |

How they interact. A transfer (also one that the vault, the pool or a
withdrawal makes) calls back into the share mirroring, which first collects
fees through the PositionManager unless the PoolManager is unlocked, then
moves, burns and mints shares, and each of these captures or starts the fees of
the shares it touches. A withdrawal sends ETH to its recipient, who can call
anything that is not guarded. The runner reaches the vault only through the
batcher, and reads the chain between its transactions. The keeper is one more
caller of `pokeFees`: it collects on an interval what a late buyer of shares
could otherwise have a part of. The configuration tools hand their results to
each other, and to Deploy, through files and an operator's clipboard.

What is hard here:

- the split of a transfer into moves, burns and mints, with a cap on mints only;
- two packed copies of the same ownership relation under swap-and-pop;
- accumulators, debts and pending credits that must add up under rounding,
  failed collections, an unlocked PoolManager and callbacks;
- fees that accrue when nobody holds a share; shares minted and burnt within one
  transaction;
- a token that can be corrected until, and only until, the first claim;
- approvals for single ids, which ERC-20 transfers move and burn beneath them;
- a root, a reserve, a canary, a seed and a price that are each copied, or stale,
  by itself, and constants of a deploy that nothing can correct;
- keeper ticks that overlap, and a collection whose failure is a successful
  transaction;
- a launch of four irreversible steps, simulated and then broadcast as plain
  transactions, that may stop half-way, located again from readings that fail;
- claims that exhaust gas inside `try`; transactions that land after the runner
  has given up on them; reads that fail; a runner killed and run again.

`PROJECT.json` lists each hazard at its line with the properties about it.

## 2. Modules

| Module | What it is |
|---|---|
| `OwnedArrays` | the array operations of owned ids: tails, swap-and-pop |
| `PrismShares` | balances and shares; fees reduced to what they do to balances |
| `ShareBook` | abstract: what the storage of shares promises |
| `PackedBook` | the packed words, arrays and lengths; implements `ShareBook` |
| `PrismApprovals` | approvals, operators and NFT transfers on top of `PackedBook` |
| `PrismHook` | the whole hook with its fee layer, on the operators of `PrismShares`, which it implements; implements `FeeLedger` on the ETH leg |
| `FeeLedger` | abstract: credits stay until paid, money leaves only as payment |
| `PrismMigration` | the vault |
| `PushGas` | the runner's plan: what a row costs, chunks, limits, floors, the refusal of a plan |
| `AirdropPush` | batcher, runner and vault together (on `PushGas`, `M == INSTANCE PrismMigration`) |
| `Keeper` | the keeper's overlapping ticks, and what is left of the hook when one looks at collections only |
| `SeedParams` | the arithmetic of tick, price, liquidity and seed |
| `LaunchConfig` | how tree, `.env` and canary come about, and what Deploy accepts (on `SeedParams`) |
| `Launch` | the wizard, the scripts it signs with, and the chain they land on |
| `MC*` | the instances TLC checks |
| `*_proof` | theorems about the module of that name (`PrismApprovals_proof`: about `PackedBook` too; `PrismHook_proof`: about `PrismShares` too; `AirdropPush_proof`: about `PushGas` too) |
| `SumTheorems` | lemmas about sums over finite sets |

How they correspond to the code:

**PrismShares.** `bal` is `balanceOf`, `owned[a]` the ids of `a` in the order of
`_ownedSlots`. A call first works out a *plan* (`PairPlan`, `SoloPlan`,
`IdlePlan` are `_realignPair`, `_realignSolo` and the early return of
`_afterTokenTransfer`; `SyncPlan` is `syncNFTs`): how many shares to move, burn
and mint. `Realign` then executes it in the order of the code. A transaction is
one step: the EVM runs nothing in between, except where a withdrawal hands over
control, which `PrismHook` models. Allowances are left out: a transfer is by
whoever may make it.

**PackedBook.** One word per id packs owner and index, an array per holder packs
ids, and a mint, burn or move patches both. `None`, nobody's, is the deleted word. The
32-bit lanes of ids are an assumption: ids stay below 2^32.

**PrismApprovals.** `approvals` is `_nftApprovals`, `operators`
`_nftOperatorApprovals`. `Mint`, `Burn` and `Realign` are what the realignment of
an ERC-20 transfer does to the storage, with nobody's approval; `NFTTransfer`,
`NFTApprove` and `NFTSetApprovalForAll` are the handlers the mirror calls with
its own caller. `named` is an observer: whom the owner or an operator named
since the id changed hands. `safeTransferFrom` is a transfer followed by
whatever the receiver does, which are further steps, or undone as a whole. That
every step is one of `PackedBook`'s, or leaves the storage alone, is a theorem
(`OnTheBook`).

**PrismHook.** Adds `acc`, `debt`, `pending`, `forfeit`, the contract's ETH, the
fees waiting in the position, the transient `lo` (first id minted in this
transaction) and `frames`, the calls in progress. A collection `Poked` either
succeeds or fails, nondeterministically, and does neither when nothing is
seeded, there are no shares, or the PoolManager is unlocked. `WithdrawPending`
whose ETH is sent pushes a `"send"` frame: until `Return` the recipient may take
every action that the reentrancy guard does not refuse. A send that fails leaves
the ETH credit in place and undoes what the recipient did, so it has no frame.
`EndTx` clears transient storage; without it steps belong to one transaction,
as when one contract makes several calls. ETH that anybody sends to `receive()`
is left out; it can only make the contract richer.

**PrismMigration.** A candidate token either keeps balances truthfully or
answers every call with a word holding 1 (`Fallbacks`), the case the comments in
`claim` are about. A token built to lie is outside the contract's own claims,
and outside the model. `Gift` is an ordinary transfer to the vault.

**PushGas.** `push-airdrop.mjs` 30-50, 86-94 and 193-278 with the runner's own
constants. `Plan` packs rows in order into the longest chunks that do not
overflow, gives each its limit and floor, and refuses what cannot be delivered or
cannot finish, before anything is sent.

**AirdropPush.** `push` runs row by row: a call gets all but a 64th of the gas
(`Forwarded`), the proof check comes first, a claim that runs out burns what it was
forwarded, twice nested, and the loop stops at the floor. What a claim for each
holder costs is chosen once (`cost`): what was measured, or far more. A push is
one transaction, so other actors wait for it. The runner's run is `StartRun`
(reads what is pending and plans; a refused plan and a dry run end there),
`SendChunk` / `SendFails`, `Receipt` / `WaitFails`, `Verify`, `Finish`, with
`Crash` anywhere. A read that fails ends the run like a crash, except the vault's
balance, which `vaultStillOwes` answers with "unknown". Transactions it stopped
waiting for stay in `pool` and may land at any later time or never. All proofs
have the depth of the shipped tree.

**Keeper.** A tick is its chain of requests (`CheckSeeded`, `CountShares`,
`ReadBefore`, `Estimate`, `Send`, `Land`, `ReadAfter`); any of them may fail and
end it in the catch (`RequestFails`). The first tick is awaited before the
interval is set; later ones start whether or not the last one has its receipt, so
`Ticks` of them run at once. The hook is reduced to what decides a collection:
seeded, somebody holds a share, fees waiting, forfeiture pending, whether POSM
accepts a collect; `Outcome(gas)` is what `pokeFees` does with so much gas. The
estimate may be either of the costs at which `pokeFees` does not revert. `moved`
is the difference of the two readings of the accumulators, which only grow.
Other people poke, the last share is burnt, POSM refuses for a while.

All pokes are signed by one wallet, and ethers gives each the nonce that the node
names as the next free one (`Assigned`). `queue` has the pokes sent under each
nonce that is not mined yet, and `Land` mines one of the first nonce only. A
refused send, also one whose nonce another tick took a moment before, is a
request that fails. `Reprice` is the price of gas rising above what the first
poke pays, or falling again: while it is `stuck` nothing behind it is mined
either. `Forget` is the node's dropping a poke: its nonce is free again, the next
tick's poke takes it, and when that one is mined the tick that waited for the
first is told TRANSACTION_REPLACED and ends in the catch (`Replaced`). Until then
pokes with later nonces wait.

**SeedParams, LaunchConfig.** A root stands for its tree, the function from
accounts to amounts: hashes do not collide. `Basis` is `prepare-basis.mjs`,
`Acceptable` and `Tree` are `generate.mjs`; it writes the canary last
(`Generate`) and then prints, or is killed first (`GenerateEnds`). `MakeEnv`
sizes the seed from `airdrop/canary.json`; if it refuses, the redirection
`> .env` of LAUNCH.md has emptied `.env`, while the wizard keeps the old one.
`PasteRoot`, `PasteTotal`, `PasteNoAirdrop` and `PasteSeed` each copy what one
tool printed and leave the rest as stale as it is. `DeployAccepts` is what
Deploy checks, and what the seed does when it goes through. In `env`, `declared`, `sizedFor` and
`checked` are observers: the valuation a human stated, the reserve the seed was
sized for, whether the tool found a problem. Prices are a table over ticks, of
which only monotonicity is used. Left out: round trips through narrower integer
types, a canary whose `total` was edited by hand together with the reserve (no check
against that file can see it, as Deploy's comment at 431-437 says), v4's own price range, and a price typed apart from its tick, which
`validatePoolTick` refuses.

**Launch.** A system is named by the SALT_NONCE its addresses are computed from
(`Predicted`). `chain` holds what has landed of each: vault, hook, seed,
renounce, wiring. A script is two steps: its checks (`DeployChecks`,
`RenounceChecks`, `OpenChecks`), evaluated when the operator signs, and `Send`,
which puts the bare transactions in `queue`; they `Land`, `Revert` or are never
sent (`Drop`). What is pending under the same account nonces is replaced or wins
(`Broadcast`). The wizard is a state machine over `pc`: `Start`, `Probe`,
`Paste` / `Blank`, `Classify`, `Inspect`, then `Configure` and `SignDeploy`,
`SignRenounce` or `SignOpen`, `Send`, `Confirm`. The chain moves between any two
of its steps. `Inspect` takes four readings as one step: `State`
tests them in the order in which the code reads them, and without reorganisations what
one test found to be so still is so when a later reading decides, so one step at that
moment classifies alike. A failed reading is modelled where the code goes on with it; where
it dies, it is a `Stop`, like Ctrl-C. `State` is the classification with its
order of tests. The operator pastes the right address, and is `Careful` or not
about signing NOTHING IS DEPLOYED; finishes a partial deploy by hand, rightly or
wrongly; and may move to a clean checkout (`LoseDirectory`). An artifact of a dry
run counts as no artifact, as in the code. Squatters, and a vault wired to a
foreign token before the renounce, are left out.

## 3. Runs

| Run | Question | Bounds |
|---|---|---|
| `shares` | Are shares always backed and off excluded accounts; does a transfer mint only the whole tokens it brings? | 3 users, UNIT 2, supply 8, cap 1, 5 ids |
| `book` | Do words, arrays, lengths and counter agree, and behave as sequences; may a share be moved only by whom its present owner mandated? | 2 holders and a market, 3 ids |
| `hook` | Are fees solvent, kept, forfeited when orphaned, out of reach of shares just minted; does the hook implement `PrismShares` and `FeeLedger`? | 2 users, UNIT 1, supply 3, cap 1, 3 ids, fees of 1 and 2 |
| `vault` | Is everybody paid once, in one token, in the end? | 3 holders, a good token, a wrong token, a fallback |
| `push` | Does exit 0 mean that everybody is paid; does a push that runs out of gas miss anybody; does each push whose estimates hold settle a row? | 2 holders, claims files that are complete, partial, wrong or of other people, two thresholds, two chunk sizes, 2 transactions in flight, costs as measured and far above |
| `complete` | Does running it again and again end with everybody paid? | as `push`, the shipped file, measured costs |
| `launch` | Is only a live token renounced, only a renounced one opened, only what is so confirmed? | 2 salts, a careless operator, bad seeds, 1 block undone |
| `finish` | Does running the wizard again finish the launch, with one system? | 2 salts, one lost directory |
| `keeper` | Is what a tick logs so, and does the backlog go away again and again? | 2 ticks, three gas arguments, 2 failures, 1 outage, 1 poke that the node forgets, which leaves a tick to send another; any rise of the gas price |
| `config` | Is the deployed reserve the deployed tree's, without a parked leaf, near the stated price; does Deploy accept what the tools found sound? | 4 snapshots, 4 ticks, 2 directories, 2 valuations |
| `unconfirmed` | (violation) Is a deploy only offered after a confirmation? | as `finish`, without losses |
| `hang` | (violation) Does a keeper that is up collect? | as `keeper`, but the poke of the first tick may be the one forgotten |

Why the bounds are enough to be interesting. A cap of one share with transfers
of two units makes every receipt of two shares leave a gap, so capped mints,
moves that meet a gap and syncs that heal it all occur (`GapGrowsOnlyAtCap`
fails in one line's mutation). UNIT 2 separates a unit from a share, so that
amounts below a unit cross or do not cross a boundary. In `book` two holders and three ids give swap-and-pop
of a first, middle and last element, between holders as well; the two holders
and a market that owns nothing are the spenders and operators, for ids 1 and 2, so that a
spender becomes the owner and an old owner comes back.
In `hook` UNIT is 1: boundaries are `shares`'s question, and fees of one and two
over one to three shares give rounding on both legs and a PRISM burn that
rounds. `Scale` is 2, less than 10^18: what matters is that division loses
something. In `push` the gas numbers are the runner's own and
those of the comments on its constants: one holder has dust and one a whole PRISM, and
at a chunk gas of 400,000 each is a chunk, by default both are one. Costs far
above the measured ones make one row starve where the other does not, and the
file that is wrong about alice, or of people the tree does not know, makes the vault
refuse a row for good. A backlog
of one is enough in `keeper`, where the question is whether there is any. In
`config` the snapshots share a leaf with the shipped tree, name a forbidden pair
at its excepted amount and above it, repeat an account, and pay nobody; prices
are worthless, the launch price, 5 % off it, and absurd; amounts are scaled so that a
whole PRISM is one and the slack a visible part of the float.

Two salts are one for the system that is live and one for the second system that
must not be. With a careless operator a second system is what he asked for, so
`launch` does not ask for one system and `finish` has a careful one. Readings
between which a block is undone lead to the state of `unconfirmed` as well, so
`finish` has no reorganisation. In `launch` a block may be undone; what is
renounced, opened and confirmed there is claimed up to that moment
(`reorgs = 0 =>`), since checks that ran in a simulation promise
nothing about a chain that was rewritten under them.

`book`, `vault` and `config` may stop (ids run out, everybody is paid, Deploy has
gone through): they do not check deadlock. Users are interchangeable in `shares`
and `hook`, salts in `launch` and `unconfirmed`, and the properties checked there
are safety properties, so symmetry is sound.

Fairness. `vault`: claims are permissionless, so somebody submits each holder's
row in the end, and only that is assumed. `complete` (`FairSpec`): the operator
re-runs with the shipped file as LAUNCH.md says; the deployer opens the airdrop;
a send, a receipt and a read go through again and again if they are tried again
and again (strong fairness, since a failure disables them in between); a wait
that hangs because its transaction was dropped is interrupted, by the operator,
as `tx.wait()` has no timeout. Other claimants, drops, crashes and late
landings are not constrained. `finish` (`FairSpec`): the operator runs the wizard
again and answers its questions, readings and landings succeed if tried again
and again, and what "needs a human, not a script" is done; directories are lost
at most once, for lack of salts. `keeper`: the event loop runs the ticks that are
due; the poke at the head of the wallet's nonces is mined if its fee is high enough
again and again (strong fairness on `Land`); an outage of POSM ends; requests that
fail are bounded by `MaxFailures`, and nothing is assumed of anybody else who might
poke. Nothing on the chain makes a fee sufficient, so none of this is assumed of
the price of gas: a poke that pays too little for good, which the node keeps and
nobody replaces, holds up every later one, and `BacklogCleared` excepts that
history in its own words (`<>[]stuck`). With `Ticks` bounding the ticks in
progress, `Forget` needs one that is not waiting (in the code the interval
always starts another), since it is the next poke that frees the hung one.

### What the violation runs show

- `unconfirmed`. `launch.mjs` 243 asks the operator when the recorded hook reads
  as `0x`; a reading that failed is `null` and skips the question. The second
  reading, at 291, may answer `0x`, and line 299 treats that as fresh, so that a
  deploy is offered with no confirmation, which the comment above (238-242)
  rules out. With the same `.env` the CREATE2 guard still stops a second system
  (`finish`); if the operator also lets `.env` be overwritten, it does not.
- `hang`. `merkle/keeper.mjs` sets its interval (150) only after the first tick
  has been awaited (148), and `tx.wait()` (110) has no timeout. If the first poke
  is accepted by the node and never mined, the process stays up and never pokes
  again, although the comment in the catch (141-142) says that the next tick
  handles a flaky node. The run has the node forget the poke: another one
  under its nonce would end the wait, but none is ever sent. Once the interval
  is set, a poke that is forgotten is replaced by the next tick's (`keeper`). One
  that the node keeps and that pays too little to be mined stops every later poke
  too, whichever tick sent it; the keeper has no remedy for it.

### Disagreements

Places where the code, its comments and its messages disagree, met while
modelling; the hazards in `PROJECT.json` point here.

- `Renounce.s.sol` 36-37 and `LAUNCH.md` 413 say that an unseeded hook cannot be
  renounced. The checks run in simulation, and what lands is
  `renounceOwnership()` alone: a seed undone in between leaves an unseeded hook
  to be sealed. `DEPLOY.md` 330-334 says so.
- The header of `PrismMigration.sol` (15-16) says that `setToken` is "callable once
  by the deployer to wire the token", after which the contract is "fully
  permissionless". The code, and the comment on `setToken` itself (56-58), let the
  deployer call it any number of times until the first claim, and never after it.
  The model follows the code; `CorrectableUntilFirstClaim` says both halves.
- With every holder paid, a unit of PRISM that somebody transferred to the vault
  makes the runner print "holders outside this claims file are unpaid"
  (`merkle/push-airdrop.mjs` 393-397) and exit 1, in this and in every later run:
  the vault has no sweep. The loop `launch.mjs` 593-594 recommends would not end.
  Nobody loses anything; the verdict is wrong.
- When all sends of a run threw, the runner prints "NOTHING was delivered this
  run, so re-running will repeat the same result" (410), right after it printed
  "re-run afterwards to retry this one" (362).
- The check that every planned chunk finishes (243-278) compares its limit with
  the execution of its rows and leaves out the gas floor at which the batcher
  stops. A chunk of ninety or more dust rows that cost just what was estimated
  ends before its last row; the next run finishes it.
- `seed-params.mjs` says at 196 that its guards mirror Deploy's. The upper bound
  on the valuation is not among them, and `make-env.mjs` lacks the floor of 50
  PRISM too (`Unmirrored` in `LaunchConfig`).
- `check-shares.mjs` treats a zero balance as a hint when it has no vault to ask
  (114-115), and prints it as "have NOT BEEN PAID AT ALL" (153).

## 4. Proofs

TLAPS checks, for every value of the constants that meets the module's named
assumption:

**PrismHook_proof**, part 1, on `PrismShares` alone (`ConstantsAssumption`): `TypesCorrect`, `Backed`
(`NoUnbackedShares`), `NothingParked` (`ExcludedHoldNothing`). The three are
inductive together. Backing alone is not: that a plan can be executed at all
needs typed arrays, and that a transfer out of an excluded account burns nothing
needs that it holds nothing. The argument goes over *good plans*: a plan is good
for new balances if executing it leaves nobody with more shares than whole
tokens and touches users only. Each way of making a plan gives a good one
(arithmetic about division by UNIT), and executing a good plan keeps the
invariant (facts about tails and concatenations).

`DenominatorCounts` adds what the fee layer relies on: no id is held twice, none
above `nextId` is held, and `totalShares` is how many are held. Its argument is
one function, `IdAt(p, a, i)`, the id at place `i` of the array of `a` after plan
`p`: every place after a call is a place before it or a new id, and no two places
have the same origin. `GapsClose` (`GapGrowsOnlyAtCap`), `SharesFollowBalance`
(`SharesFallOnlyWithBalance`) and `MintsAreCrossings` (`MintsNeedACrossing`: a transfer
mints at most the whole tokens it brought to its recipient) are about single steps: what the plan of each call moves, burns and mints against
the change of whole tokens on either side.

**SumTheorems**: a sum of naturals over a finite set is a natural, splits into an
element and the rest, is monotone, and adds up. `SumFunctionOnSet` is a
recursion over the set; the induction it takes is done over the subsets of the
finite set as data (`SubsetInduction`, from the well-foundedness of the strict
subset relation), so that no theorem with an operator parameter is needed.

**PrismHook_proof**, part 2 (`ConstantsAssumption`, `HookAssumption`): `AlwaysSolvent`
(`Solvent`), `HookTypes`, `DebtsNeverRunAhead` (`DebtBehind`),
`OrphansAreForfeited` (`OrphansForfeited`). Solvency is not inductive: it is
about amounts rounded per share, and roundings do not add up. What is inductive
is `Funded`: on each leg, Scale times the pending balances plus what the live
shares accrued *before* division is at most Scale times the reserve. A
collection raises each of `totalShares` accrued amounts by the increment, which
was rounded down from Scale times the income over `totalShares`, so it needs
`Counted` of part 1; a capture moves a share's accrued amount, rounded
down, to a pending balance; a new share starts with nothing accrued. `HInv`
also needs that the pool holds the fees the position is owed, that there is
nothing before the seed, that no checkpoint, those of burnt ids included, is ahead, and that the
quarantine is exactly the ids of the running transaction.

`CreditsAreKept` (`CreditsKept`) and `NobodySkims` (`NoAtomicSkim`) go through
one notion, `StepCaptures`: every step captures for an account some of its
shares, at accumulators between the old and the new. What an account can claim
is a sum over its shares; splitting it at the captured ones shows that only a
withdrawal lowers it, and that a transaction captures nothing of what it minted.

`RefinesShares` (`ImplementsShares`): the hook, with its fees, quarantine,
forfeits and sends, moves balances and shares as `PrismShares` says; assumed is
`Amounts = Nat`, since `PrismShares` draws every amount, what is withdrawn
included, from that bound. With it every theorem of part 1 holds of the whole
contract. `RefinesLedger` (`ImplementsLedger`): of its ETH the contract is
`FeeLedger`; assumed is that there is a user, since the abstract step is by
somebody. A step of the ledger is allowed only where credits stay covered, so
this rests on `Funded` and the captures too.

**PrismApprovals_proof** (`BookAssumption`, `ApprovalsAssumption`), first on
`PackedBook` alone: `Agreement` (`ViewsAgree`), `Counted` (`CountExact`), `Typed` (`TypeOK`), `Implements`
(`ImplementsBook`). `ViewsAgree` is split into `Listed` (an array entry's word
points back to that place) and `Indexed` (a live word's place holds that id);
together they make places and ids one-to-one, so that patching a hole and the
word of the id that fills it disturbs nothing else. The refinement maps each
holder's live prefix to a sequence, and each operation to the operation of
`ShareBook` of that name. Then on `PrismApprovals`: `Mandated` (`MoversAreMandated`)
and `OnTheBook`, that the calls with approvals do to the storage what
`PackedBook` does, so that all of the above holds under them. `Mandated` needs
that the tail of an array is an id its holder owns (from the invariant of the
book) and `Standing`: a single approval, where there is one, is the spender
named since the present owner got the id.

**PrismMigration_proof** (`MigrationAssumption`): `TypesCorrect`, `Paid`
(`PaidInFull`), `Correctable` (`CorrectableUntilFirstClaim`: the token is final if
and only if somebody has been paid). `PaidInFull` speaks of the
token wired now, so it is inductive only with the latter and `Honest` (then the token keeps balances): a correction
happens before any payment, and a contract that answers every call can never
satisfy the balance check for a positive amount. `Covered`
(`ReserveCoversUnpaid`): a claim takes from the vault what it takes from the sum
of the allocations of those not yet paid, and nothing else takes from either.

**Launch_proof** (`LaunchAssumption`): `Sealed`
(`SealedIsLive`), `OpenSealed` (`OpenOnlyWhenSealed`), `Truthful`
(`SaidIsTrue`). None is inductive: the transaction that seals or wires was
checked long before it lands. `Sound` adds that every transaction signed or
pending is still `Checked`, which holds because without reorganisations the
chain only grows (`LandGrows`, `CheckedStays`); this is the argument
`DEPLOY.md` 328-334 makes. The inductive invariant is `reorgs = 0 => Sound`:
nothing is claimed after a reorganisation. `OneSystem` (`NoSecondSystem`) is
about one deployer who answers truthfully and keeps `.env`, on a chain that keeps
its blocks (`Diligent`: the switches `Careful` and `MayOverwrite` and the bound
`MaxReorgs`). Its invariant `Single` adds all
hooks that could still come: those deployed, and those of transactions
signed or in flight, are one, which is the one in `.env` and on record; the delicate states
are those between the record's being written and the deploy's landing, and after
a deploy that was dropped.

**LaunchConfig_proof** (`SeedAssumption`, `ConfigAssumption`, `TreesAssumption`):
`SeedFits`, that what the pool charges for the liquidity a deposit buys is at
most the deposit (rounding up does not outrun rounding down), for any table of
prices; `ReserveSound` (`ReserveIsTheTree`), `ParkedSound` (`NoParkedLeaf`) and
`EmittedSound` (`EmittedDeploys`). The inductive invariant has three parts: a
canary, and what was printed, is of a tree whose rows were accepted, with its
total (`FilesOK`); `.env` has its types, and a seed that a tool found sound fits
the reserve it was sized for (`EnvOK`); what was deployed is clean and sums to its
reserve (`DeployedOK`). No part says that `.env` is consistent, since it need not
be: Deploy's comparisons with the canary carry the argument. `PriceSound`
(`PriceIsDeclared`): a launch is within 5% of the valuation a human stated. A target
and its tick come from the same choice (`Priced`), and Deploy compares one with the
other only; what bounds the rest is that a tool takes the tick *closest* to the
valuation. It assumes of the table of prices `FineTicks`: where that tick is one Deploy
accepts, some accepted tick is within 5%. TLC evaluates it on the run's table.

**Keeper_proof** (`KeeperAssumption`): `LogTrue` (`LogIsTrue`), for any number of
overlapping ticks. What a tick logs depends on a receipt that came many steps
earlier, so the invariant adds that whoever waits for a poke is a tick that is
waiting, for one poke only, whatever their nonces (`Awaited`), that a tick is silent until its end (`Silent`), and
that one which rereads the accumulators sees them moved if its own poke moved
them (`Informed`).

**AirdropPush_proof** (`PushAssumption`), on the plan of `PushGas` first:
`PlansAreSound`, that a plan holds exactly the pending rows and that each chunk of
one that is not refused can start (`Ready`): its limit pays for the calldata,
reaches the gas floor and forwards enough for the first row. `Packed` is a recursive
function of the index at which a chunk starts, computed from the last row back.
What it computes is got without an induction theorem over a predicate: a function
that satisfies the recursion exists (`Recursion`), and what holds of every index
does by the greatest counterexample (`DownInduction`), both over sets as data.
That a chunk can start is then arithmetic on its total, its worst row, its floor
and the cap (`Headroom`), with the two cases that matter: a chunk of one row, whose
limit may be the cap, and one that leaves room for its worst row. It uses that a
proof has at most 160 elements.

On the runs: `TypesCorrect` (`TypeOK`), `PushesAdvance` (`PushAdvances`),
`SuccessIsComplete` (`ExitMeansAllPaid`), `NobodyIsMissed` (`ResumeMissesNobody`).
The last two suppose that the reserve covers the tree (`Full`), which is what
`ReserveSound` of `LaunchConfig_proof` shows of a deployed one: an empty vault that
still owes somebody would be taken for a finished airdrop. The invariant has the
vault's own, since every step of the distribution is one of `PrismMigration` or
leaves the vault alone (`VaultSteps`, and as a theorem `OnTheVault`), so that `Covered` applies; that all plans,
transactions in flight and chunks to come are `Ready`; that every row a push has
passed is paid, refused for good, or asked of a contract that pays nobody
(`Walked`), which no later step undoes; and that a covered push still at its first
row has what it needs (`Begins`). A row that ran out of gas is never passed,
because a 64th kept back twice leaves more than half burnt. `exit = "done"` needs
that somebody is paid at all, so `PushAssumption` has claims files that list
somebody (`StandardMerkleTree` makes no tree of nothing): an empty file run before
the airdrop is opened does exit 0.

Only model-checked: liveness (`EverybodyPaid`, `PushCompletes`,
`LaunchCompletes`, `BacklogCleared`), since the prover has neither fairness nor
ENABLED. Every safety property the passing runs check is also a theorem. The
modules with theorems use no recursive operators.

## 5. Not modelled

- `PrismArt`: a pure string from an id.
- `check-shares.mjs`: it reads and reports, and changes nothing.
- ERC-20 allowances and permits (vendored solady), Uniswap (vendored
  interfaces, `TickMath` too): only the calls made on them, and that prices grow
  with the tick. The hook's `beforeInitialize` gate and the swap callback are not actions of their
  own: a swap is a transfer with the PoolManager unlocked.
- ETH that anybody sends to `receive()`: it only makes the hook richer.
- Gas, except where the control of the batcher, the runner or the keeper depends
  on it.
- The search of `HookMiner`, and squatters on the addresses it finds.
- The keeper together with all of `PrismHook`: their product is out of TLC's
  reach, so `Keeper` has its own reduction of the hook.
- The anti-JIT rule covers one transaction, as the code does; a share held over
  two transactions earns normally.

## 6. Plan

Done, in this order:

1. `OwnedArrays`, `PrismShares` and its proofs.
2. `ShareBook`, `PackedBook`, refinement, proofs; `PrismApprovals`, proofs.
3. `PrismHook`, `FeeLedger`, refinement of `PrismShares`.
4. `PrismMigration` and its proofs.
5. `PushGas`, `AirdropPush`.
6. `Launch` and its proofs.
7. `Keeper` and its proof.
8. `SeedParams`, `LaunchConfig` and its proofs.

9. `PrismHook_proof` with `SumTheorems`, the two refinements of `PrismHook`
   included; the action properties of `PrismShares`; `ReserveCoversUnpaid`,
   `NoSecondSystem`, `PriceIsDeclared`.
10. `AirdropPush_proof`, on the plan of `PushGas` and on `PrismMigration_proof`.

Left:

1. The PoolManager's callbacks around a swap as actions of their own, with the
   deltas it settles.
