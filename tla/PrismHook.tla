------------------------------ MODULE PrismHook ------------------------------
(***************************************************************************)
(* PrismHookV2 with its fee layer: the accumulator of fees per share, the  *)
(* debt of each share, the pending balances, collection from the position  *)
(* (which may fail, and is impossible while the PoolManager is unlocked),  *)
(* forfeiture of what accrued without shares, the quarantine of shares     *)
(* minted in the current transaction, and the withdrawal whose ETH leg     *)
(* hands control to the recipient in the middle of the call.               *)
(*                                                                         *)
(* Balances and shares follow PrismShares, whose operators are used here   *)
(* and which this module implements.                                       *)
(***************************************************************************)
EXTENDS PrismShares, Functions

CONSTANTS
    Scale,     \* ACC_SCALE
    BurnBps,   \* PRISM_BURN_BPS
    Bps,       \* BPS
    Fee,       \* bound: what one swap adds to each leg
    MaxFees    \* bound: the fees that ever accrue on each leg

\* There are finitely many addresses.
ASSUME HookAssumption ==
    /\ IsFiniteSet(Accounts)
    /\ Scale \in Nat \ {0}
    /\ Bps \in Nat \ {0}
    /\ BurnBps \in 0..Bps
    /\ Fee \in [{"ETH", "PRISM"} -> Nat]
    /\ MaxFees \in [{"ETH", "PRISM"} -> Nat]

VARIABLES
    seeded,
    forfeit,   \* forfeitNextCollection
    acc,       \* accFeesPerShareETH and accFeesPerSharePRISM
    debt,      \* _ethDebt and _prismDebt
    pending,   \* pendingETH and pendingPRISM
    eth,       \* the contract's own ETH
    fees,      \* external: fees accrued in the position, not collected
    lo,        \* the transient first id minted in this transaction, or 0
    frames,    \* the calls in progress: "pool" an unlocked PoolManager,
               \* "send" the ETH send of a withdrawal; a stack
    earned,    \* history: the fees that ever accrued, for the bound
    before,    \* history: the last id minted before this transaction
    orphaned   \* history: fees still to collect accrued while no share existed

txVars == <<seeded, frames, earned, before>>
vars == <<shareVars, forfeit, acc, debt, pending, eth, fees, lo, orphaned, txVars>>

Legs == {"ETH", "PRISM"}
Ids == 1..MaxId
ToSet(s) == {s[k] : k \in DOMAIN s}

Unlocked == "pool" \in ToSet(frames)   \* poolManager.isUnlocked()
Entered == "send" \in ToSet(frames)    \* the reentrancy guard is taken

-----------------------------------------------------------------------------
(* What a share is owed.                                                   *)

\* Mutant: the first id minted in the transaction escapes.
QuarantinedAfterFirst(id) == lo # 0 /\ id > lo

\* _mintedThisTx
Quarantined(id) == lo # 0 /\ id >= lo
Owed(l, a) == [id \in Ids |-> (a[l] - debt[l][id]) \div Scale]

\* What capturing or claiming the shares ids credits on leg l, with
\* accumulators a.
Due(l, ids, a) == SumFunctionOnSet(Owed(l, a), {id \in ids : ~Quarantined(id)})

-----------------------------------------------------------------------------
(* Collection.  A poke turns the balances b and the fee state into one of  *)
(* a set of outcomes.                                                      *)

Unpoked(b) ==
    [bal |-> b, eth |-> eth, fees |-> fees, acc |-> acc, forfeit |-> forfeit,
     orphaned |-> orphaned]

\* Mutants: numerator and denominator exchanged; holders get what was burned
\* as well; a forfeit starts the accumulators afresh.
BurnedInverted == IF forfeit THEN 0 ELSE (fees["PRISM"] * Bps) \div BurnBps
DistributedGross(l) == (fees[l] * Scale) \div totalShares

Burned == IF forfeit THEN 0 ELSE (fees["PRISM"] * BurnBps) \div Bps

\* What a distributing collection adds to the accumulator of leg l.
Distributed(l) ==
    ((fees[l] - (IF l = "PRISM" THEN Burned ELSE 0)) * Scale) \div totalShares

AccumulatedAfresh == [l \in Legs |-> IF forfeit THEN 0 ELSE acc[l] + Distributed(l)]

Accumulated == [l \in Legs |-> IF forfeit THEN acc[l] ELSE acc[l] + Distributed(l)]

Collected(b) ==
    [bal |-> CollectedBalances(b, fees["PRISM"], Burned),
     eth |-> eth + fees["ETH"],
     fees |-> [l \in Legs |-> 0],
     acc |-> Accumulated,
     forfeit |-> FALSE,
     orphaned |-> FALSE]

\* The position manager may fail: then nothing is collected and no flag moves.
Poked(b) ==
    {Unpoked(b)} \cup
    (IF seeded /\ totalShares # 0 /\ ~Unlocked THEN {Collected(b)} ELSE {})

PokedIf(pokes, b) == IF pokes THEN Poked(b) ELSE {Unpoked(b)}

\* What a poke leaves behind, except balances and the forfeit flag.
Books(p) ==
    /\ bal' = p.bal
    /\ fees' = p.fees
    /\ acc' = p.acc
    /\ orphaned' = p.orphaned

-----------------------------------------------------------------------------
(* Realignment with fees: the ids that leave the loser are captured for it *)
(* after the poke p, moved and fresh ids start at the accumulators.        *)

Leaving(plan) == ToSet(TailsOf(owned[plan.loser], plan.moves + plan.burns))
Moving(plan) == ToSet(TailsOf(owned[plan.loser], plan.moves))
Minting(plan) == {nextId + i : i \in 1..plan.mints}

\* Mutant: the last burn leaves the flag alone.
NeverForfeits(plan) == FALSE

\* The plan burns the last share.
ForfeitsLast(plan) == plan.burns > 0 /\ plan.burns = totalShares

\* Mutant: the counter is read after the mints.
NotedAfter(plan) == IF lo = 0 /\ plan.mints > 0 THEN nextId + plan.mints + 1 ELSE lo

\* _noteMint
Noted(plan) == IF lo = 0 /\ plan.mints > 0 THEN nextId + 1 ELSE lo

RealignFees(plan, p) ==
    /\ Books(p)
    /\ forfeit' = (p.forfeit \/ ForfeitsLast(plan))
    /\ debt' = [l \in Legs |-> [id \in Ids |->
                  IF id \in Moving(plan) \cup Minting(plan) THEN p.acc[l]
                  ELSE IF id \in Leaving(plan) THEN 0 ELSE debt[l][id]]]
    /\ lo' = Noted(plan)

Credited(holder, ids, a) ==
    [l \in Legs |-> [pending[l] EXCEPT ![holder] = @ + Due(l, ids, a)]]

\* Mutant: a burn captures nothing.
CapturedOnMove(plan, p) == Credited(plan.loser, Moving(plan), p.acc)

Captured(plan, p) == Credited(plan.loser, Leaving(plan), p.acc)

-----------------------------------------------------------------------------
(* The contract's entry points.                                            *)

Init ==
    /\ ShareInit
    /\ seeded = FALSE
    /\ forfeit = FALSE
    /\ acc = [l \in Legs |-> 0]
    /\ debt = [l \in Legs |-> [id \in Ids |-> 0]]
    /\ pending = [l \in Legs |-> [a \in Accounts |-> 0]]
    /\ eth = 0
    /\ fees = [l \in Legs |-> 0]
    /\ lo = 0
    /\ frames = << >>
    /\ earned = [l \in Legs |-> 0]
    /\ before = 0
    /\ orphaned = FALSE

\* seed: the position manager opens the PoolManager itself, so it cannot be
\* open already, and pulls the liquidity out of the contract.
Seed(amount) ==
    /\ ~seeded
    /\ ~Unlocked
    /\ amount <= bal[Hook]
    /\ seeded' = TRUE
    /\ forfeit' = TRUE
    /\ bal' = Paid(bal, Hook, Pool, amount)
    /\ UNCHANGED <<owned, nextId, totalShares, acc, debt, pending, eth, fees, lo,
                   orphaned, frames, earned, before>>

\* transfer and transferFrom.  The PoolManager pays out only while unlocked,
\* and keeps the fees it owes the position.
Transfer(from, to, amount) ==
    /\ amount <= bal[from] - (IF from = Pool THEN fees["PRISM"] ELSE 0)
    /\ from = Pool => Unlocked
    /\ LET plan == TransferPlan(from, to, amount)
       IN  \E p \in PokedIf(plan.pokes, Paid(bal, from, to, amount)) :
              /\ Realign(plan)
              /\ RealignFees(plan, p)
              /\ pending' = Captured(plan, p)
              /\ eth' = p.eth
    /\ UNCHANGED txVars

SyncNFTs(user, max) ==
    /\ ~Entered
    /\ LET plan == SyncPlan(user, max)
       IN  \E p \in PokedIf(plan.pokes, bal) :
              /\ Realign(plan)
              /\ RealignFees(plan, p)
              /\ pending' = Captured(plan, p)
              /\ eth' = p.eth
    /\ UNCHANGED txVars

\* handleNFTTransfer by the owner or somebody it approved; no poke.
NFTTransfer(from, to, i) ==
    /\ ~Entered
    /\ ShareNFTTransfer(from, to, i)
    /\ LET id == owned[from][i]
       IN  /\ pending' = Credited(from, {id}, acc)
           /\ debt' = [l \in Legs |-> [debt[l] EXCEPT ![id] = acc[l]]]
    /\ UNCHANGED <<acc, eth, fees, forfeit, lo, orphaned, txVars>>

PokeFees ==
    /\ \E p \in Poked(bal) :
          /\ Books(p)
          /\ forfeit' = p.forfeit
          /\ eth' = p.eth
    /\ UNCHANGED <<owned, nextId, totalShares, debt, pending, lo, txVars>>

\* claim and claimMany, by anybody: the owners are credited, dead ids skipped.
Claim(ids) ==
    /\ ~Entered
    /\ \E p \in Poked(bal) :
          /\ Books(p)
          /\ forfeit' = p.forfeit
          /\ eth' = p.eth
          /\ pending' = [l \in Legs |-> [a \in Accounts |->
                            pending[l][a] + Due(l, ids \cap HeldBy(a), p.acc)]]
          /\ debt' = [l \in Legs |-> [id \in Ids |->
                            IF id \in ids \cap Live THEN p.acc[l] ELSE debt[l][id]]]
    /\ UNCHANGED <<owned, nextId, totalShares, lo, txVars>>

\* Mutant: an ETH credit survives its payment.
LeftPendingPaid(caller, sent) == [pending EXCEPT !["PRISM"][caller] = 0]

\* The credits a withdrawal leaves.
LeftPending(caller, sent) ==
    [pending EXCEPT !["PRISM"][caller] = 0, !["ETH"][caller] = IF sent THEN 0 ELSE @]

\* withdrawPending and withdrawPendingTo.  The PRISM leg realigns the
\* recipient, then the ETH is sent: if that succeeds the recipient is in
\* control until Return, otherwise the credit is put back.  A failed send
\* leaves nothing of what the recipient did, so it needs no frame.
WithdrawPending(caller, recipient, sent) ==
    /\ ~Entered
    /\ recipient \notin Excluded
    /\ LET prism == pending["PRISM"][caller]
           ether == pending["ETH"][caller]
           plan  == TransferPlan(Hook, recipient, prism)
       IN  /\ prism + ether > 0
           /\ sent => ether > 0
           /\ prism <= bal[Hook]
           /\ \E p \in PokedIf(plan.pokes /\ prism > 0,
                               Paid(bal, Hook, recipient, prism)) :
                 /\ sent => ether <= p.eth
                 /\ Realign(plan)
                 /\ RealignFees(plan, p)
                 /\ eth' = p.eth - (IF sent THEN ether ELSE 0)
           /\ pending' = LeftPending(caller, sent)
           /\ frames' = IF sent THEN Append(frames, "send") ELSE frames
    /\ UNCHANGED <<seeded, earned, before>>

-----------------------------------------------------------------------------
(* The surroundings.                                                       *)

Pop(frame) ==
    /\ frames # << >>
    /\ frames[Len(frames)] = frame
    /\ frames' = SubSeq(frames, 1, Len(frames) - 1)
    /\ UNCHANGED <<shareVars, forfeit, acc, debt, pending, eth, fees, lo, orphaned,
                   seeded, earned, before>>

\* The recipient of a withdrawal returns.
Return == Pop("send")

\* Somebody unlocks the PoolManager, and the callback ends.
Unlock ==
    /\ ~Unlocked
    /\ frames' = Append(frames, "pool")
    /\ UNCHANGED <<shareVars, forfeit, acc, debt, pending, eth, fees, lo, orphaned,
                   seeded, earned, before>>
Relock == Pop("pool")

\* A swap pays a fee to the position.
Swap(l) ==
    /\ seeded /\ Unlocked
    /\ earned[l] + Fee[l] <= MaxFees[l]
    /\ l = "PRISM" => fees[l] + Fee[l] <= bal[Pool]
    /\ fees' = [fees EXCEPT ![l] = @ + Fee[l]]
    /\ earned' = [earned EXCEPT ![l] = @ + Fee[l]]
    /\ orphaned' = (orphaned \/ totalShares = 0)
    /\ UNCHANGED <<shareVars, forfeit, acc, debt, pending, eth, lo, seeded, frames,
                   before>>

\* The transaction ends and transient storage is cleared.
EndTx ==
    /\ frames = << >>
    /\ lo # 0
    /\ lo' = 0
    /\ before' = nextId
    /\ UNCHANGED <<shareVars, forfeit, acc, debt, pending, eth, fees, orphaned,
                   seeded, frames, earned>>

Next ==
    \/ \E amount \in Amounts : Seed(amount)
    \/ \E from \in Users \cup {Pool, Vault}, to \in Accounts, amount \in Amounts :
            Transfer(from, to, amount)
    \/ \E user \in Users, max \in Amounts : SyncNFTs(user, max)
    \/ \E from, to \in Accounts : \E i \in DOMAIN owned[from] : NFTTransfer(from, to, i)
    \/ PokeFees
    \/ \E ids \in {{id} : id \in Live} \cup {Live} : Claim(ids)
    \/ \E caller, recipient \in Users, sent \in BOOLEAN :
            WithdrawPending(caller, recipient, sent)
    \/ Return \/ Unlock \/ Relock \/ EndTx
    \/ \E l \in Legs : Swap(l)

Spec == Init /\ [][Next]_vars

-----------------------------------------------------------------------------
(* Properties.                                                             *)

\* Nothing owed or accumulated is ever negative, and the transient first mint
\* id names an id that exists.
TypeOK ==
    /\ seeded \in BOOLEAN /\ forfeit \in BOOLEAN /\ orphaned \in BOOLEAN
    /\ acc \in [Legs -> Nat]
    /\ debt \in [Legs -> [Ids -> Nat]]
    /\ pending \in [Legs -> [Accounts -> Nat]]
    /\ eth \in Nat
    /\ fees \in [Legs -> Nat] /\ earned \in [Legs -> Nat]
    /\ lo \in 0..MaxId /\ before \in 0..MaxId
    /\ frames \in Seq({"pool", "send"})

Reserve(l) == IF l = "ETH" THEN eth ELSE bal[Hook]
AllOwed(l) == SumFunctionOnSet(Owed(l, acc), Live)
AllPending(l) == SumFunctionOnSet(pending[l], Accounts)

\* On each leg the contract holds at least everything it has promised: the
\* pending balances and what every live share could still claim, whatever the
\* roundings, burns, forfeits and failed collections on the way.
Solvent == \A l \in Legs : AllPending(l) + AllOwed(l) <= Reserve(l)

\* No share's debt runs ahead of the accumulator: the checked subtraction in
\* _captureAndCreditPending would otherwise revert every transfer of its holder.
DebtBehind == \A l \in Legs : \A id \in Live : debt[l][id] <= acc[l]

\* Fees that accrued while nobody held a share can only be forfeited: as long
\* as some are uncollected the flag is up, so no later holder sweeps them.
OrphansForfeited == orphaned => forfeit

\* What account u could withdraw on leg l after claiming everything.
Claimable(l, u) == pending[l][u] + Due(l, HeldBy(u), acc)

\* Nothing anybody does lowers what an account can claim, except its own
\* withdrawal: not a transfer or NFT transfer away, a burn, a claim by a
\* stranger, a forfeit, a failed send or what a recipient does during a send.
CreditsKept ==
    [][\A u \in Users, l \in Legs :
         \/ Claimable(l, u)' >= Claimable(l, u)
         \/ \E r \in Users, sent \in BOOLEAN : WithdrawPending(u, r, sent)]_vars

\* An account all of whose shares were minted in this transaction collects
\* nothing on them before the transaction is over: no mint, poke, claim or
\* burn in one transaction skims fees others earned.
NoAtomicSkim ==
    [][\A u \in Users, l \in Legs :
         (\A id \in HeldBy(u) : id > before) => pending[l][u]' <= pending[l][u]]_vars

\* Balances and shares behave as PrismShares says, fees and all.
ImplementsShares == ShareSpec

\* The ETH leg is the simple ledger of credits and payments.
Ledger == INSTANCE FeeLedger WITH
    Holders <- Users, position <- fees["ETH"], reserve <- eth,
    credit <- [u \in Users |-> Claimable("ETH", u)]
ImplementsLedger == Ledger!Spec
=============================================================================
