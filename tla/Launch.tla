------------------------------- MODULE Launch -------------------------------
(***************************************************************************)
(* The launch: the wizard launch.mjs, which works out from readings of the *)
(* chain where a launch stands and offers the next signature, and the      *)
(* scripts it signs with, Deploy, Renounce and OpenAirdrop.  A script      *)
(* simulates its checks first and broadcasts afterwards: what reaches the  *)
(* chain is plain transactions, which land in order, fail, or are lost.    *)
(*                                                                         *)
(* One deployer key, so no address is squatted.  A system is named by the  *)
(* SALT_NONCE its addresses come from.  A wizard that gives up (die), or   *)
(* is interrupted, is the one action Stop.                                 *)
(***************************************************************************)
EXTENDS Naturals, FiniteSets, SequencesExt

CONSTANTS
    Salts,        \* the SALT_NONCEs make-env.mjs can draw; a draw is new
    None,         \* no file, no address
    MayOverwrite, \* the operator lets the wizard overwrite .env
    Careful,      \* signs NOTHING IS DEPLOYED only when that is true
    MayLose,      \* works on from a clean checkout: .env, broadcast/ are gone
    HandSeeds,    \* how a seed finished by hand turns out
    MaxReorgs     \* bound: blocks undone after they were seen

ASSUME LaunchAssumption ==
    /\ None \notin Salts
    /\ {MayOverwrite, Careful, MayLose} \subseteq BOOLEAN
    /\ HandSeeds \subseteq {"seed", "badseed"}
    /\ MaxReorgs \in Nat

VARIABLES
    airdrop,  \* MIGRATION_AMOUNT > 0
    chain,    \* what has landed, by system
    queue,    \* broadcast and not landed, in the order of account nonces
    last,     \* the chain before the last landing, and what landed
    reorgs,   \* bound
    env,      \* .env: its SALT_NONCE
    artifact, \* the hook that broadcast/.../run-latest.json names
    used,     \* history: the salts drawn
    wizard,   \* a run of launch.mjs
    unarmed,  \* history: renounces simulated without .env
    said      \* history: what the wizard reported as confirmed on-chain

ledger == <<chain, queue, last, reorgs>>
files == <<env, artifact, used>>
vars == <<airdrop, ledger, files, wizard, unarmed, said>>

Null == "null"      \* the read failed
Empty == "0x"
Zero == "zero"      \* the zero address
Some == "some"      \* code, or an address that is not zero

Acts == {"vault", "hook", "seed", "badseed", "renounce", "wire"}
Tx(act, k) == [act |-> act, at |-> k]

Idle == [pc |-> "off", hook |-> None, confirmed |-> FALSE, txs |-> <<>>]

Init ==
    /\ airdrop \in BOOLEAN
    /\ chain = [vaults |-> {}, hooks |-> {}, wired |-> {}, sealed |-> {},
                seeds |-> [k \in Salts |-> "none"]]
    /\ queue = <<>> /\ last = None /\ reorgs = 0
    /\ env = None /\ artifact = None /\ used = {}
    /\ wizard = Idle
    /\ unarmed = {} /\ said = {}

Seeded(k) == chain.seeds[k] # "none"

-----------------------------------------------------------------------------
(* The chain. *)

\* The transaction t does not revert.
Valid(t) ==
    LET k == t.at IN
    \/ t.act = "vault" /\ k \notin chain.vaults
    \/ t.act = "hook" /\ k \notin chain.hooks
    \/ t.act \in {"seed", "badseed"} /\ k \in chain.hooks \ chain.sealed /\ ~Seeded(k)
    \/ t.act = "renounce" /\ k \in chain.hooks \ chain.sealed
    \/ t.act = "wire" /\ {k} \subseteq chain.vaults \cap chain.hooks

Effect(t) ==
    LET k == t.at IN
    CASE t.act = "vault" -> [chain EXCEPT !.vaults = @ \cup {k}]
      [] t.act = "hook" -> [chain EXCEPT !.hooks = @ \cup {k}]
      [] t.act \in {"seed", "badseed"} -> [chain EXCEPT !.seeds[k] = t.act]
      [] t.act = "renounce" -> [chain EXCEPT !.sealed = @ \cup {k}]
      [] t.act = "wire" -> [chain EXCEPT !.wired = @ \cup {k}]

Land ==
    /\ queue # <<>>
    /\ Valid(Head(queue))
    /\ chain' = Effect(Head(queue))
    /\ queue' = Tail(queue)
    /\ last' = IF reorgs < MaxReorgs THEN [chain |-> chain, tx |-> Head(queue)] ELSE None
    /\ UNCHANGED <<airdrop, reorgs, files, wizard, unarmed, said>>

\* It reverts: for a reason of its own, for gas, or for its deadline.  Without
\* --slow the transactions behind it are mined all the same.
Revert ==
    /\ queue # <<>>
    /\ queue' = Tail(queue)
    /\ UNCHANGED <<airdrop, chain, last, reorgs, files, wizard, unarmed, said>>

\* Forge stops, or is stopped, before the rest is sent.
Drop ==
    /\ \E n \in 0 .. Len(queue) - 1 : queue' = SubSeq(queue, 1, n)
    /\ UNCHANGED <<airdrop, chain, last, reorgs, files, wizard, unarmed, said>>

\* The last block is undone and its transaction is pending again.
Reorg ==
    /\ last # None
    /\ chain' = last.chain
    /\ queue' = <<last.tx>> \o queue
    /\ last' = None
    /\ reorgs' = reorgs + 1
    /\ UNCHANGED <<airdrop, files, wizard, unarmed, said>>

\* Forge numbers txs from the account's nonce: they replace what is pending, or
\* are refused beside it.
Broadcast(txs) == queue' = txs \/ (queue # <<>> /\ queue' = queue)

-----------------------------------------------------------------------------
(* The checks of the scripts, which run in simulation. *)

\* Mutant: the vault is created with `new`, so that every run has its own
\* addresses.
PredictedByAccountNonce(k) ==
    IF Salts \subseteq chain.hooks THEN k ELSE CHOOSE s \in Salts : s \notin chain.hooks

\* The CREATE2 address of the vault, and with it that of the hook, is a function
\* of the configuration alone.
Predicted(k) == k

\* deployHook: the predicted address is not occupied.
DeployChecks == Predicted(env) \notin chain.hooks

\* deployVaultIfAbsent, deployHook, seed.
DeployTxs ==
    LET k == Predicted(env) IN
    (IF airdrop /\ k \notin chain.vaults THEN <<Tx("vault", k)>> ELSE <<>>)
        \o <<Tx("hook", k), Tx("seed", k)>>

\* Mutant: the vault needs no code.
RenounceChecksNoVault(k) ==
    /\ k \in chain.hooks \ chain.sealed /\ Seeded(k)
    /\ env # None => chain.seeds[k] = "seed"

\* Mutant: the airdrop must be open first.
RenounceChecksWired(k) ==
    /\ k \in chain.hooks \ chain.sealed /\ Seeded(k)
    /\ airdrop => k \in chain.vaults \cap chain.wired
    /\ env # None => chain.seeds[k] = "seed"

\* The liquidity and the range are compared only when .env holds them.
RenounceChecks(k) ==
    /\ k \in chain.hooks \ chain.sealed /\ Seeded(k)
    /\ airdrop => k \in chain.vaults
    /\ env # None => chain.seeds[k] = "seed"

OpenChecks(k) ==
    /\ k \in chain.hooks \cap chain.vaults
    /\ k \notin chain.wired /\ Seeded(k)

-----------------------------------------------------------------------------
(* The wizard. *)

Step(pc) == wizard' = [wizard EXCEPT !.pc = pc]

\* castCode and castCall: the answer, or null.
Reading(v) == {v, Null}
CodeAt(k) == IF k \in chain.hooks THEN Some ELSE Empty
Owner(k) == IF k \in chain.sealed THEN Zero ELSE Some
SeededAt(k) == IF Seeded(k) THEN "true" ELSE "false"
Token(k) == IF k \in chain.wired THEN Some ELSE Zero
Vault == IF airdrop THEN Some ELSE Zero

IsZeroAddr(v) == v \in {Null, Zero}

\* Mutant: a reading of the owner that failed passes.
UnansweredSeeded(seeded, owner) == seeded = Null

\* seeded() or owner() did not answer: die.
Unanswered(seeded, owner) == Null \in {seeded, owner}

\* What the readings say.
State(seeded, owner, vault, token) ==
    IF seeded = "false" THEN "partial"
    ELSE IF ~IsZeroAddr(owner) THEN "seeded_not_renounced"
    ELSE IF vault = Null THEN "vault_unreadable"
    ELSE IF vault = Zero THEN "live_no_airdrop"
    ELSE IF token = Null THEN "vault_unreadable"
    ELSE IF token = Zero THEN "live_airdrop_closed"
    ELSE "airdrop_open"

\* die, a failed step, Ctrl-C, or the end of a run that has nothing to sign.
Stop ==
    /\ wizard # Idle
    /\ wizard' = Idle
    /\ UNCHANGED <<airdrop, ledger, files, unarmed, said>>

\* Mutant: no record is a first launch.
LocatedFresh(record) == IF record = None THEN "fresh" ELSE "probe"

Located(record) == IF record = None THEN "ask" ELSE "probe"

\* Locate the launch: no record is not "fresh", the operator is asked.
Start ==
    /\ wizard = Idle
    /\ wizard' = [Idle EXCEPT !.pc = Located(artifact), !.hook = artifact]
    /\ UNCHANGED <<airdrop, ledger, files, unarmed, said>>

\* castCode(hook) === "0x": an empty address is a question too.
Probe ==
    /\ wizard.pc = "probe"
    /\ \E code \in Reading(CodeAt(wizard.hook)) :
          Step(IF code = Empty THEN "ask" ELSE "classify")
    /\ UNCHANGED <<airdrop, ledger, files, unarmed, said>>

\* The operator pastes an address, which must have code and answer as a hook.
Paste ==
    /\ wizard.pc = "ask"
    /\ \E k \in chain.hooks :
          wizard' = [wizard EXCEPT !.pc = "classify", !.hook = k]
    /\ UNCHANGED <<airdrop, ledger, files, unarmed, said>>

\* The operator leaves it blank and signs NOTHING IS DEPLOYED.
Blank ==
    /\ wizard.pc = "ask"
    /\ Careful => chain.hooks = {} /\ queue = <<>>
    /\ wizard' = [wizard EXCEPT !.pc = IF wizard.hook = None THEN "fresh" ELSE "classify",
                               !.confirmed = TRUE]
    /\ UNCHANGED <<airdrop, ledger, files, unarmed, said>>

\* The second reading of the hook's code; a reading that failed stops here.
Classify ==
    /\ wizard.pc = "classify"
    /\ Step(IF CodeAt(wizard.hook) = Empty THEN "fresh" ELSE "inspect")
    /\ UNCHANGED <<airdrop, ledger, files, unarmed, said>>

\* seeded(), owner(), MIGRATION_VAULT() and token(); the states that only report
\* are a Stop.
Inspect ==
    /\ wizard.pc = "inspect"
    /\ LET k == wizard.hook IN
       \E seeded \in Reading(SeededAt(k)), owner \in Reading(Owner(k)),
          vault \in Reading(Vault), token \in Reading(Token(k)) :
         /\ ~Unanswered(seeded, owner)
         /\ Step(State(seeded, owner, vault, token))
    /\ UNCHANGED <<airdrop, ledger, files, unarmed, said>>

\* Step 2: keep .env, or write one with a new salt.
Configure ==
    /\ wizard.pc = "fresh"
    /\ \/ env # None /\ UNCHANGED <<env, used>>
       \/ /\ env = None \/ MayOverwrite
          /\ \E k \in Salts \ used : env' = k /\ used' = used \cup {k}
    /\ Step("configured")
    /\ UNCHANGED <<airdrop, ledger, artifact, unarmed, said>>

\* Steps 3 to 6: the checks of Deploy.s.sol pass in simulation and the operator
\* signs.
SignDeploy ==
    /\ wizard.pc = "configured"
    /\ DeployChecks
    /\ wizard' = [wizard EXCEPT !.pc = "signed", !.txs = DeployTxs]
    /\ UNCHANGED <<airdrop, ledger, files, unarmed, said>>

\* Steps 7 to 9.
SignRenounce ==
    /\ wizard.pc = "seeded_not_renounced"
    /\ RenounceChecks(wizard.hook)
    /\ wizard' = [wizard EXCEPT !.pc = "signed", !.txs = <<Tx("renounce", wizard.hook)>>]
    /\ unarmed' = IF env = None THEN unarmed \cup {wizard.hook} ELSE unarmed
    /\ UNCHANGED <<airdrop, ledger, files, said>>

\* Step 10b.
SignOpen ==
    /\ wizard.pc = "live_airdrop_closed"
    /\ OpenChecks(wizard.hook)
    /\ wizard' = [wizard EXCEPT !.pc = "signed", !.txs = <<Tx("wire", wizard.hook)>>]
    /\ UNCHANGED <<airdrop, ledger, files, unarmed, said>>

Deploying == Len(wizard.txs) > 1

\* Forge broadcasts what was simulated.  Only a deploy writes the record, and
\* only a deploy ends the run without a look at the chain.
Send ==
    /\ wizard.pc = "signed"
    /\ Broadcast(wizard.txs)
    /\ IF Deploying
       THEN wizard' = Idle /\ artifact' = Last(wizard.txs).at
       ELSE Step("sent") /\ UNCHANGED artifact
    /\ UNCHANGED <<airdrop, chain, last, reorgs, env, used, unarmed, said>>

\* Mutant: an owner that could not be read is the zero address.
RenouncedNull(owner) == IsZeroAddr(owner)

\* The verifier of step 9.
Renounced(owner) == owner # Null /\ IsZeroAddr(owner)

\* The verifiers of steps 9 and 10b; a step that did not take effect is a Stop.
Confirm ==
    /\ wizard.pc = "sent"
    /\ LET k == wizard.hook IN
       \/ /\ Head(wizard.txs).act = "renounce"
          /\ \E owner \in Reading(Owner(k)) : Renounced(owner)
          /\ said' = said \cup {<<"renounced", k>>}
       \/ /\ Head(wizard.txs).act = "wire"
          /\ \E token \in Reading(Token(k)) : token = Some
          /\ said' = said \cup {<<"open", k>>}
    /\ wizard' = Idle
    /\ UNCHANGED <<airdrop, ledger, files, unarmed>>

-----------------------------------------------------------------------------
(* The operator, beside the wizard (LAUNCH.md 6). *)

\* "Finish the remaining steps by hand": a seed typed into cast send, or the
\* vault, once nothing is pending.
FinishByHand ==
    /\ wizard = Idle /\ queue = <<>>
    /\ \E k \in chain.hooks :
       \/ \E seed \in HandSeeds : ~Seeded(k) /\ Broadcast(<<Tx(seed, k)>>)
       \/ airdrop /\ k \notin chain.vaults /\ Broadcast(<<Tx("vault", k)>>)
    /\ UNCHANGED <<airdrop, chain, last, reorgs, files, wizard, unarmed, said>>

\* Another machine or a clean checkout; bound: while a salt is left.
LoseDirectory ==
    /\ MayLose /\ wizard = Idle
    /\ used # Salts
    /\ env' = None /\ artifact' = None
    /\ env # None \/ artifact # None
    /\ UNCHANGED <<airdrop, ledger, used, wizard, unarmed, said>>

Wizard ==
    \/ Start \/ Probe \/ Paste \/ Blank \/ Classify \/ Inspect \/ Configure
    \/ SignDeploy \/ SignRenounce \/ SignOpen \/ Send \/ Confirm \/ Stop

Next ==
    \/ Wizard
    \/ Land \/ Revert \/ Drop \/ Reorg
    \/ FinishByHand \/ LoseDirectory

Spec == Init /\ [][Next]_vars

-----------------------------------------------------------------------------
(* Properties.  A reorganisation takes back what simulations and readings      *)
(* relied on, so three of them speak of a chain without one so far.            *)

Pcs == {"off", "probe", "ask", "classify", "inspect", "partial", "vault_unreadable",
        "seeded_not_renounced", "live_no_airdrop", "live_airdrop_closed",
        "airdrop_open", "fresh", "configured", "signed", "sent"}

\* One deployer never gets a second system on the chain, however often the deploy
\* is run again, from whatever directory and whatever part of it has landed.
NoSecondSystem == Cardinality(chain.hooks) <= 1

\* What k's holders rely on when it is renounced.
Live(k) ==
    /\ Seeded(k)
    /\ airdrop => k \in chain.vaults
    /\ k \notin unarmed => chain.seeds[k] = "seed"

\* A renounced hook has its pool, its reserve is reachable and, unless the
\* renounce was run without .env, the pool is the configured one; whoever seeded
\* it and whatever reverted.
SealedIsLive == reorgs = 0 => \A k \in chain.sealed : Live(k)

\* The wizard opens an airdrop only over a token without an owner: a reading of
\* the owner that failed never counts as a renounce.
OpenOnlyWhenSealed == reorgs = 0 => chain.wired \subseteq chain.sealed

\* What the wizard reports as confirmed on-chain is so.
SaidIsTrue ==
    reorgs = 0 => \A k \in Salts :
        /\ <<"renounced", k>> \in said => k \in chain.sealed
        /\ <<"open", k>> \in said => k \in chain.wired

\* launch.mjs:238-242: a record that names an address without code is not
\* "fresh", and a deploy is not offered without a confirmation.
FreshWasConfirmed == wizard.pc \in {"fresh", "configured"} => wizard.confirmed

-----------------------------------------------------------------------------
(* Liveness.  The operator runs the wizard again and answers, a run ends,  *)
(* the endpoint answers now and then, a transaction that is sent again and *)
(* again lands once, and what the runbook leaves to a human is done.       *)

FairSpec ==
    /\ Spec
    /\ WF_vars(Start) /\ WF_vars(Stop)
    /\ SF_vars(Probe) /\ SF_vars(Paste \/ Blank) /\ SF_vars(Classify)
    /\ SF_vars(Inspect /\ wizard'.pc # "vault_unreadable")
    /\ SF_vars(Configure) /\ SF_vars(SignDeploy \/ SignRenounce \/ SignOpen)
    /\ SF_vars(Send)
    /\ SF_vars(Land) /\ WF_vars(Revert /\ ~Valid(Head(queue)))
    /\ SF_vars(FinishByHand)

\* Every launch ends: the token is renounced and its airdrop open.
LaunchCompletes ==
    <>(\E k \in chain.sealed : airdrop => k \in chain.wired)

=============================================================================
