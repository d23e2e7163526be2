---------------------------- MODULE Launch_proof ----------------------------
(* Proofs about Launch, for any salts, operators and seeds, on a chain     *)
(* that has not been reorganised.                                          *)
EXTENDS Launch, FiniteSetTheorems, TLAPS

\* The transactions of a sequence.
Sent(s) == {s[i] : i \in 1 .. Len(s)}

Txs == [act : Acts, at : Salts]

Chains == [vaults : SUBSET Salts, hooks : SUBSET Salts, wired : SUBSET Salts,
           sealed : SUBSET Salts, seeds : [Salts -> {"none", "seed", "badseed"}]]

Wizards == [pc : Pcs, hook : Salts \cup {None}, confirmed : BOOLEAN, txs : Seq(Txs)]

Typed ==
    /\ chain \in Chains
    /\ queue \in Seq(Txs)
    /\ wizard \in Wizards
    /\ wizard.pc = "configured" => env \in Salts
    /\ env \in Salts \cup {None}
    /\ artifact \in Salts \cup {None}
    /\ reorgs = 0

\* What a transaction relied on in its simulation.
Checked(t) ==
    /\ t.act = "renounce" => Live(t.at)
    /\ t.act = "wire" => t.at \in chain.sealed

\* The inductive invariant: what the simulation established still holds while the
\* transaction is signed and pending, for the chain only grows.
Sound ==
    /\ Typed
    /\ \A t \in Sent(queue) \cup Sent(wizard.txs) : Checked(t)
    /\ wizard.pc = "live_airdrop_closed" => wizard.hook \in chain.sealed
    /\ SealedIsLive
    /\ OpenOnlyWhenSealed
    /\ SaidIsTrue

-----------------------------------------------------------------------------
(* Sequences. *)

\* What is left of a sequence was in it.
LEMMA SentLess ==
    ASSUME NEW S, NEW s \in Seq(S), s # <<>>
    PROVE /\ Head(s) \in Sent(s) /\ Head(s) \in S
          /\ Tail(s) \in Seq(S) /\ Sent(Tail(s)) \subseteq Sent(s)
          /\ \A n \in 0 .. Len(s) - 1 :
                SubSeq(s, 1, n) \in Seq(S) /\ Sent(SubSeq(s, 1, n)) \subseteq Sent(s)
<1>1. Len(s) \in Nat \ {0} /\ s[1] \in S /\ Head(s) = s[1]
  OBVIOUS
<1>2. Head(s) \in Sent(s)
  BY <1>1 DEF Sent
<1>3. Tail(s) \in Seq(S) /\ Len(Tail(s)) = Len(s) - 1
      /\ \A i \in 1 .. Len(s) - 1 : Tail(s)[i] = s[i + 1]
  OBVIOUS
<1>4. Sent(Tail(s)) \subseteq Sent(s)
  BY <1>1, <1>3 DEF Sent
<1>5. ASSUME NEW n \in 0 .. Len(s) - 1
      PROVE SubSeq(s, 1, n) \in Seq(S) /\ Sent(SubSeq(s, 1, n)) \subseteq Sent(s)
  <2>1. n \in Nat /\ n <= Len(s)
    BY <1>1
  <2>2. \A i \in 1 .. n : s[i] \in S
    BY <1>1
  <2>3. SubSeq(s, 1, n) \in Seq(S) /\ Len(SubSeq(s, 1, n)) = n
        /\ \A i \in 1 .. n : SubSeq(s, 1, n)[i] = s[i]
    BY <1>1, <2>1, <2>2
  <2>4. QED
    BY <2>1, <2>3, <1>1 DEF Sent
<1>6. QED
  BY <1>1, <1>2, <1>3, <1>4, <1>5

-----------------------------------------------------------------------------
(* The chain only grows. *)

\* What later steps rely on, of two successive states.
Grows ==
    /\ \A k \in Salts : Live(k) => Live(k)'
    /\ chain.sealed \subseteq chain'.sealed
    /\ chain.wired \subseteq chain'.wired

\* A transaction that was checked stays so.
LEMMA CheckedStays ==
    ASSUME Grows, NEW t \in Txs, Checked(t)
    PROVE Checked(t)'
BY DEF Grows, Checked, Txs

\* A landing grows the chain.
LEMMA LandGrows ==
    ASSUME Typed, Land
    PROVE Grows /\ Typed'
<1> DEFINE t == Head(queue)
           k == t.at
<1>0. queue # <<>> /\ queue \in Seq(Txs) /\ chain \in Chains
  BY DEF Land, Typed
<1>1. t \in Txs /\ t.act \in Acts /\ k \in Salts
  <2>1. t \in Txs
    BY <1>0, SentLess
  <2>2. QED
    BY <2>1 DEF Txs
<1>2. chain' = Effect(t) /\ UNCHANGED <<airdrop, unarmed, wizard, env, artifact, reorgs>>
  BY DEF Land, files
<1>3. queue' \in Seq(Txs)
  BY <1>0, SentLess DEF Land
<1>7. t.act \in {"seed", "badseed"} => ~Seeded(k)
  BY <1>0 DEF Land, Valid
<1> HIDE DEF t, k
<1>5. Grows /\ chain' \in Chains
  <2>1. CASE t.act = "vault"
    <3>1. chain' = [chain EXCEPT !.vaults = @ \cup {k}]
      BY <1>2, <2>1 DEF Effect, k
    <3>2. chain' \in Chains /\ chain'.vaults = chain.vaults \cup {k}
          /\ chain'.hooks = chain.hooks /\ chain'.wired = chain.wired
          /\ chain'.sealed = chain.sealed /\ chain'.seeds = chain.seeds
      BY <3>1, <1>1, <1>0 DEF Chains
    <3>3. QED
      BY <3>2, <1>0, <1>2 DEF Grows, Live, Seeded
  <2>2. CASE t.act = "hook"
    <3>1. chain' = [chain EXCEPT !.hooks = @ \cup {k}]
      BY <1>2, <2>2 DEF Effect, k
    <3>2. chain' \in Chains /\ chain'.hooks = chain.hooks \cup {k}
          /\ chain'.vaults = chain.vaults /\ chain'.wired = chain.wired
          /\ chain'.sealed = chain.sealed /\ chain'.seeds = chain.seeds
      BY <3>1, <1>1, <1>0 DEF Chains
    <3>3. QED
      BY <3>2, <1>0, <1>2 DEF Grows, Live, Seeded
  <2>3. CASE t.act \in {"seed", "badseed"}
    <3>1. chain' = [chain EXCEPT !.seeds[k] = t.act]
      BY <1>2, <2>3 DEF Effect, k
    <3>2. chain'.vaults = chain.vaults /\ chain'.hooks = chain.hooks
          /\ chain'.wired = chain.wired /\ chain'.sealed = chain.sealed
          /\ chain'.seeds = [chain.seeds EXCEPT ![k] = t.act]
      BY <3>1, <1>0 DEF Chains
    <3>3. chain' \in Chains
      BY <3>1, <2>3, <1>1, <1>0 DEF Chains
    <3>4. \A s \in Salts : Seeded(s) => chain'.seeds[s] = chain.seeds[s]
      BY <3>2, <1>7, <2>3, <1>0 DEF Seeded, Chains
    <3>5. QED
      BY <3>2, <3>3, <3>4, <1>2 DEF Grows, Live, Seeded
  <2>4. CASE t.act = "renounce"
    <3>1. chain' = [chain EXCEPT !.sealed = @ \cup {k}]
      BY <1>2, <2>4 DEF Effect, k
    <3>2. chain' \in Chains /\ chain'.sealed = chain.sealed \cup {k}
          /\ chain'.vaults = chain.vaults /\ chain'.hooks = chain.hooks
          /\ chain'.wired = chain.wired /\ chain'.seeds = chain.seeds
      BY <3>1, <1>1, <1>0 DEF Chains
    <3>3. QED
      BY <3>2, <1>0, <1>2 DEF Grows, Live, Seeded
  <2>5. CASE t.act = "wire"
    <3>1. chain' = [chain EXCEPT !.wired = @ \cup {k}]
      BY <1>2, <2>5 DEF Effect, k
    <3>2. chain' \in Chains /\ chain'.wired = chain.wired \cup {k}
          /\ chain'.vaults = chain.vaults /\ chain'.hooks = chain.hooks
          /\ chain'.sealed = chain.sealed /\ chain'.seeds = chain.seeds
      BY <3>1, <1>1, <1>0 DEF Chains
    <3>3. QED
      BY <3>2, <1>0, <1>2 DEF Grows, Live, Seeded
  <2>6. QED
    BY <1>1, <2>1, <2>2, <2>3, <2>4, <2>5 DEF Acts
<1>6. QED
  BY <1>2, <1>3, <1>5 DEF Typed

-----------------------------------------------------------------------------
(* The invariant. *)

\* Every transaction of a typed sequence is one.
LEMMA SentTyped == ASSUME NEW s \in Seq(Txs) PROVE Sent(s) \subseteq Txs
BY DEF Sent

\* Nothing in the empty sequence.
LEMMA SentNone == Sent(<<>>) = {}
BY DEF Sent

\* The chain as it is, and perhaps one more renounce without .env.
LEMMA SameGrows ==
    ASSUME UNCHANGED <<airdrop, chain>>, unarmed \subseteq unarmed'
    PROVE Grows
BY DEF Grows, Live, Seeded

\* What a step has to show: the new transactions are checked, what it offers to
\* open is sealed, what it seals is live, what it wires is sealed, and what it
\* says is so.
LEMMA Preserved ==
    ASSUME Sound, Typed', Grows,
           \A t \in Sent(queue') \cup Sent(wizard'.txs) :
              t \in Sent(queue) \cup Sent(wizard.txs) \/ Checked(t)',
           wizard'.pc = "live_airdrop_closed" => wizard'.hook \in chain'.sealed,
           \A k \in chain'.sealed : k \in chain.sealed \/ Live(k)',
           \A k \in chain'.wired : k \in chain.wired \/ k \in chain'.sealed,
           \A k \in Salts :
              /\ <<"renounced", k>> \in said' => <<"renounced", k>> \in said \/ k \in chain'.sealed
              /\ <<"open", k>> \in said' => <<"open", k>> \in said \/ k \in chain'.wired
    PROVE Sound'
<1>1. Sent(queue) \cup Sent(wizard.txs) \subseteq Txs
  <2>1. queue \in Seq(Txs) /\ wizard.txs \in Seq(Txs)
    BY DEF Sound, Typed, Wizards
  <2>2. QED
    BY <2>1, SentTyped
<1>2. (\A t \in Sent(queue) \cup Sent(wizard.txs) : Checked(t))'
  BY <1>1, CheckedStays DEF Sound
<1>0. reorgs = 0 /\ reorgs' = 0
  BY DEF Sound, Typed
<1>3. SealedIsLive'
  <2>1. chain.sealed \subseteq Salts
    BY DEF Sound, Typed, Chains
  <2>2. QED
    BY <1>0, <2>1 DEF Sound, SealedIsLive, Grows
<1>4. OpenOnlyWhenSealed'
  BY <1>0 DEF Sound, OpenOnlyWhenSealed, Grows
<1>5. SaidIsTrue'
  BY <1>0 DEF Sound, SaidIsTrue, Grows
<1>6. QED
  BY <1>2, <1>3, <1>4, <1>5 DEF Sound

\* A step of the wizard, or of the operator, that leaves the chain as it is and
\* broadcasts and signs nothing that is not checked.
LEMMA Quiet ==
    ASSUME Sound, Typed', UNCHANGED <<airdrop, chain, said>>, unarmed \subseteq unarmed',
           \A t \in Sent(queue') \cup Sent(wizard'.txs) :
              t \in Sent(queue) \cup Sent(wizard.txs) \/ Checked(t)',
           wizard'.pc = "live_airdrop_closed" => wizard'.hook \in chain.sealed
    PROVE Sound'
BY SameGrows, Preserved

\* No wizard running is a typed wizard.
LEMMA IdleTyped == Idle \in Wizards /\ Idle.txs = <<>> /\ Idle.pc = "off"
<1>1. <<>> \in Seq(Txs)
  OBVIOUS
<1>2. QED
  BY <1>1 DEF Idle, Wizards, Pcs

\* The wizard after a step, typed.
LEMMA StepTyped ==
    ASSUME wizard \in Wizards, NEW pc \in Pcs, Step(pc)
    PROVE wizard' \in Wizards /\ wizard'.pc = pc /\ wizard'.hook = wizard.hook
          /\ wizard'.txs = wizard.txs
BY DEF Step, Wizards

\* The initial states.
LEMMA StartsSound == ASSUME Init PROVE Sound
<1>1. Typed
  <2>1. chain \in Chains
    BY DEF Init, Chains
  <2>2. <<>> \in Seq(Txs)
    OBVIOUS
  <2>3. QED
    BY <2>1, <2>2, IdleTyped DEF Init, Typed
<1>2. Sent(queue) \cup Sent(wizard.txs) = {}
  BY SentNone DEF Init, Idle
<1>3. QED
  BY <1>1, <1>2 DEF Init, Idle, Sound, SealedIsLive, OpenOnlyWhenSealed, SaidIsTrue

\* What lands was checked, and the checks still hold of it.
LEMMA LandSound == ASSUME Sound, Land PROVE Sound'
<1>1. Grows /\ Typed'
  BY LandGrows DEF Sound
<1>2. queue # <<>> /\ queue \in Seq(Txs) /\ chain \in Chains
  BY DEF Land, Sound, Typed
<1>3. PICK t \in Txs : t = Head(queue)
  BY <1>2, SentLess
<1>4. t \in Sent(queue) /\ Checked(t) /\ Sent(queue') \subseteq Sent(queue)
  BY <1>2, <1>3, SentLess DEF Land, Sound
<1>5. UNCHANGED <<wizard, said, airdrop, unarmed>> /\ chain' = Effect(t)
  BY <1>3 DEF Land
<1>6. t.at \in Salts /\ t.act \in Acts
  BY <1>3 DEF Txs
<1>7. Checked(t)'
  BY <1>1, <1>4, CheckedStays
<1>8. \A s \in chain'.sealed : s \in chain.sealed \/ Live(s)'
  <2>1. CASE t.act = "renounce"
    <3>1. chain'.sealed = chain.sealed \cup {t.at}
      BY <2>1, <1>2, <1>5, <1>6 DEF Effect, Chains
    <3>2. QED
      BY <2>1, <3>1, <1>7 DEF Checked
  <2>2. CASE t.act # "renounce"
    <3>1. chain'.sealed = chain.sealed
      BY <2>2, <1>2, <1>5, <1>6 DEF Effect, Chains, Acts
    <3>2. QED
      BY <3>1
  <2>3. QED
    BY <2>1, <2>2
<1>9. \A s \in chain'.wired : s \in chain.wired \/ s \in chain'.sealed
  <2>1. CASE t.act = "wire"
    <3>1. chain'.wired = chain.wired \cup {t.at}
      BY <2>1, <1>2, <1>5, <1>6 DEF Effect, Chains
    <3>2. QED
      BY <2>1, <3>1, <1>7 DEF Checked
  <2>2. CASE t.act # "wire"
    <3>1. chain'.wired = chain.wired
      BY <2>2, <1>2, <1>5, <1>6 DEF Effect, Chains, Acts
    <3>2. QED
      BY <3>1
  <2>3. QED
    BY <2>1, <2>2
<1>10. wizard'.pc = "live_airdrop_closed" => wizard'.hook \in chain'.sealed
  BY <1>1, <1>5 DEF Sound, Grows
<1>11. QED
  BY <1>1, <1>4, <1>5, <1>8, <1>9, <1>10, Preserved

\* A transaction that reverts leaves those behind it.
LEMMA RevertSound == ASSUME Sound, Revert PROVE Sound'
<1>1. queue # <<>> /\ queue \in Seq(Txs)
  BY DEF Revert, Sound, Typed
<1>2. queue' \in Seq(Txs) /\ Sent(queue') \subseteq Sent(queue)
  BY <1>1, SentLess DEF Revert
<1>3. UNCHANGED <<airdrop, chain, last, reorgs, env, artifact, wizard, unarmed, said>>
  BY DEF Revert, files
<1>4. Typed'
  BY <1>2, <1>3 DEF Sound, Typed
<1>5. QED
  BY <1>2, <1>3, <1>4, Quiet DEF Sound

\* What is never sent leaves those before it.
LEMMA DropSound == ASSUME Sound, Drop PROVE Sound'
<1>1. queue \in Seq(Txs)
  BY DEF Sound, Typed
<1>2. queue # <<>>
  BY <1>1 DEF Drop
<1>3. queue' \in Seq(Txs) /\ Sent(queue') \subseteq Sent(queue)
  BY <1>1, <1>2, SentLess DEF Drop
<1>4. UNCHANGED <<airdrop, chain, last, reorgs, env, artifact, wizard, unarmed, said>>
  BY DEF Drop, files
<1>5. Typed'
  BY <1>3, <1>4 DEF Sound, Typed
<1>6. QED
  BY <1>3, <1>4, <1>5, Quiet DEF Sound

\* A step of the wizard that only moves it on, to a state that neither offers to
\* open nor has anything to sign.
LEMMA MoveSound ==
    ASSUME Sound, UNCHANGED <<airdrop, ledger, env, artifact, said, unarmed>>,
           wizard' \in Wizards,
           wizard'.txs \in {wizard.txs, <<>>},
           wizard'.pc = "live_airdrop_closed" => wizard'.hook \in chain.sealed,
           wizard'.pc # "configured"
    PROVE Sound'
<1>1. Typed'
  BY DEF Sound, Typed, ledger
<1>2. Sent(queue') = Sent(queue) /\ Sent(wizard'.txs) \subseteq Sent(wizard.txs)
  BY SentNone DEF ledger
<1>3. QED
  BY <1>1, <1>2, Quiet DEF ledger

\* The steps that only read and ask.
LEMMA WizardMoves ==
    ASSUME Sound, Start \/ Probe \/ Paste \/ Blank \/ Classify \/ Inspect \/ Stop
    PROVE Sound'
<1>1. wizard \in Wizards
      /\ artifact \in Salts \cup {None} /\ chain \in Chains
  BY DEF Sound, Typed
<1>2. Idle \in Wizards /\ Idle.txs = <<>> /\ Idle.pc = "off"
  BY IdleTyped
<1>3. CASE Stop
  BY <1>2, <1>3, MoveSound DEF Stop, files
<1>4. CASE Start
  BY <1>1, <1>2, <1>4, MoveSound DEF Start, files, Located, Wizards, Pcs
<1>5. CASE Probe
  BY <1>1, <1>5, StepTyped, MoveSound DEF Probe, files, Pcs
<1>6. CASE Paste
  BY <1>1, <1>6, MoveSound DEF Paste, files, Chains, Wizards, Pcs
<1>7. CASE Blank
  BY <1>1, <1>7, MoveSound DEF Blank, files, Wizards, Pcs
<1>8. CASE Classify
  BY <1>1, <1>8, StepTyped, MoveSound DEF Classify, files, Pcs
<1>9. CASE Inspect
  <2>1. PICK seeded, owner, vault, token :
           /\ owner \in Reading(Owner(wizard.hook))
           /\ ~Unanswered(seeded, owner)
           /\ Step(State(seeded, owner, vault, token))
    BY <1>9 DEF Inspect
  <2>2. owner = Owner(wizard.hook)
    BY <2>1 DEF Reading, Unanswered
  <2>3. State(seeded, owner, vault, token) = "live_airdrop_closed" => wizard.hook \in chain.sealed
    BY <2>2 DEF State, IsZeroAddr, Owner, Some, Zero, Null
  <2>4. State(seeded, owner, vault, token) \in Pcs \ {"configured"}
    BY DEF State, Pcs
  <2>5. QED
    BY <1>1, <1>9, <2>1, <2>3, <2>4, StepTyped, MoveSound DEF Inspect, files
<1>10. QED
  BY <1>3, <1>4, <1>5, <1>6, <1>7, <1>8, <1>9

\* Writing .env, or keeping it.
LEMMA ConfigureSound == ASSUME Sound, Configure PROVE Sound'
<1>1. env' \in Salts
  BY DEF Configure, Sound, Typed
<1>2. wizard' = [wizard EXCEPT !.pc = "configured"] /\ UNCHANGED <<airdrop, ledger, artifact, unarmed, said>>
  BY DEF Configure, Step
<1>3. wizard' \in Wizards /\ wizard'.txs = wizard.txs /\ wizard'.pc = "configured"
  BY <1>2 DEF Sound, Typed, Wizards, Pcs
<1>4. Typed'
  BY <1>1, <1>2, <1>3 DEF Sound, Typed, ledger
<1>5. QED
  BY <1>2, <1>3, <1>4, Quiet DEF ledger

\* Signing: what is signed was checked in the simulation.
LEMMA SignSound ==
    ASSUME Sound, UNCHANGED <<airdrop, ledger, files, said>>, unarmed \subseteq unarmed',
           NEW txs \in Seq(Txs),
           wizard' = [wizard EXCEPT !.pc = "signed", !.txs = txs],
           \A t \in Sent(txs) : Checked(t)'
    PROVE Sound'
<1>1. wizard' \in Wizards /\ wizard'.pc = "signed" /\ wizard'.txs = txs
  BY DEF Sound, Typed, Wizards, Pcs
<1>2. Typed'
  BY <1>1 DEF Sound, Typed, ledger, files
<1>3. QED
  BY <1>1, <1>2, Quiet DEF ledger

\* The one transaction of a sequence of one.
LEMMA SentOne == ASSUME NEW t PROVE Sent(<<t>>) = {t}
BY DEF Sent

\* A concatenation holds what its parts hold.
LEMMA SentConcat ==
    ASSUME NEW S, NEW s \in Seq(S), NEW r \in Seq(S)
    PROVE s \o r \in Seq(S) /\ Sent(s \o r) \subseteq Sent(s) \cup Sent(r)
<1>1. Len(s) \in Nat /\ Len(r) \in Nat
  OBVIOUS
<1>2. s \o r \in Seq(S) /\ Len(s \o r) = Len(s) + Len(r)
      /\ \A i \in 1 .. Len(s) + Len(r) :
            (s \o r)[i] = IF i <= Len(s) THEN s[i] ELSE r[i - Len(s)]
  OBVIOUS
<1>3. ASSUME NEW i \in 1 .. Len(s) + Len(r)
      PROVE (s \o r)[i] \in Sent(s) \cup Sent(r)
  <2>1. CASE i <= Len(s)
    BY <2>1, <1>1, <1>2 DEF Sent
  <2>2. CASE ~(i <= Len(s))
    <3>1. i - Len(s) \in 1 .. Len(r)
      BY <2>2, <1>1
    <3>2. QED
      BY <3>1, <2>2, <1>2 DEF Sent
  <2>3. QED
    BY <2>1, <2>2
<1>4. QED
  BY <1>2, <1>3 DEF Sent

\* A deploy signs nothing that renounces or wires.
LEMMA SignDeploySound == ASSUME Sound, SignDeploy PROVE Sound'
<1>1. env \in Salts
  BY DEF SignDeploy, Sound, Typed
<1>2. PICK v, h, s : v = Tx("vault", env) /\ h = Tx("hook", env) /\ s = Tx("seed", env)
  OBVIOUS
<1>3. \A t \in {v, h, s} : t \in Txs /\ t.act \notin {"renounce", "wire"}
  BY <1>1, <1>2 DEF Tx, Txs, Acts
<1>4. PICK first, rest : first \in {<<v>>, <<>>} /\ rest = <<h, s>> /\ DeployTxs = first \o rest
  <2>1. DeployTxs = (IF airdrop /\ env \notin chain.vaults THEN <<v>> ELSE <<>>) \o <<h, s>>
    BY <1>2 DEF DeployTxs, Predicted
  <2>2. PICK first : first = IF airdrop /\ env \notin chain.vaults THEN <<v>> ELSE <<>>
    OBVIOUS
  <2>3. first \in {<<v>>, <<>>} /\ DeployTxs = first \o <<h, s>>
    BY <2>1, <2>2
  <2>4. QED
    BY <2>3, Zenon
<1>5. first \in Seq(Txs) /\ Sent(first) \subseteq {v}
  <2>1. <<v>> \in Seq(Txs) /\ <<>> \in Seq(Txs)
    BY <1>3
  <2>2. Sent(<<v>>) = {v} /\ Sent(<<>>) = {}
    BY SentOne, SentNone
  <2>3. QED
    BY <2>1, <2>2, <1>4
<1>6. rest \in Seq(Txs) /\ Sent(rest) \subseteq {h, s}
  BY <1>3, <1>4 DEF Sent
<1>7. first \o rest \in Seq(Txs) /\ Sent(first \o rest) \subseteq {v, h, s}
  BY <1>5, <1>6, SentConcat
<1>8. \A t \in Sent(first \o rest) : Checked(t)'
  BY <1>3, <1>7 DEF Checked
<1>9. QED
  BY <1>4, <1>7, <1>8, SignSound DEF SignDeploy

\* The checks of the renounce make its transaction a checked one.
LEMMA SignRenounceSound == ASSUME Sound, SignRenounce PROVE Sound'
<1>1. PICK t : t = Tx("renounce", wizard.hook)
  OBVIOUS
<1>2. wizard.hook \in chain.hooks /\ chain.hooks \subseteq Salts
  BY DEF SignRenounce, RenounceChecks, Sound, Typed, Chains
<1>3. t \in Txs /\ t.act = "renounce" /\ t.at = wizard.hook
  BY <1>1, <1>2 DEF Tx, Txs, Acts
<1>4. <<t>> \in Seq(Txs) /\ Sent(<<t>>) = {t}
  BY <1>3, SentOne
<1>5. Checked(t)'
  <2>1. PICK k : k = wizard.hook
    OBVIOUS
  <2>2. Live(k)'
    BY <2>1, <1>2 DEF SignRenounce, RenounceChecks, Live, Seeded, ledger
  <2>3. QED
    BY <2>1, <2>2, <1>3 DEF Checked
<1>6. unarmed \subseteq unarmed'
  BY DEF SignRenounce
<1>7. QED
  BY <1>1, <1>4, <1>5, <1>6, SignSound DEF SignRenounce

\* What the wizard offers to open was read as renounced.
LEMMA SignOpenSound == ASSUME Sound, SignOpen PROVE Sound'
<1>1. PICK t : t = Tx("wire", wizard.hook)
  OBVIOUS
<1>2. wizard.hook \in chain.sealed /\ chain.sealed \subseteq Salts
  BY DEF SignOpen, Sound, Typed, Chains
<1>3. t \in Txs /\ t.act = "wire" /\ t.at = wizard.hook
  BY <1>1, <1>2 DEF Tx, Txs, Acts
<1>4. <<t>> \in Seq(Txs) /\ Sent(<<t>>) = {t}
  BY <1>3, SentOne
<1>5. t.at \in chain'.sealed
  BY <1>2, <1>3 DEF SignOpen, ledger
<1>6. Checked(t)'
  BY <1>3, <1>5 DEF Checked
<1>7. QED
  BY <1>1, <1>4, <1>6, SignSound DEF SignOpen

\* A broadcast is what was signed, or what was pending.
LEMMA SendSound == ASSUME Sound, Send PROVE Sound'
<1>1. queue' \in {wizard.txs, queue} /\ UNCHANGED <<airdrop, chain, last, reorgs, env, unarmed, said>>
  BY DEF Send, Broadcast
<1>2. queue \in Seq(Txs) /\ wizard.txs \in Seq(Txs) /\ wizard \in Wizards
  BY DEF Sound, Typed, Wizards
<1>3. wizard' \in Wizards /\ wizard'.txs \in {wizard.txs, <<>>} /\ wizard'.pc \in {"off", "sent"}
  BY <1>2, IdleTyped, StepTyped DEF Send, Pcs
<1>4. artifact' \in Salts \cup {None}
  <2>1. CASE Deploying
    <3>1. Len(wizard.txs) > 1 /\ artifact' = Last(wizard.txs).at
      BY <2>1 DEF Send, Deploying
    <3>2. Last(wizard.txs) \in Txs
      BY <1>2, <3>1 DEF Last
    <3>3. QED
      BY <3>1, <3>2 DEF Txs
  <2>2. CASE ~Deploying
    BY <2>2 DEF Send, Sound, Typed
  <2>3. QED
    BY <2>1, <2>2
<1>5. Typed'
  BY <1>1, <1>2, <1>3, <1>4 DEF Sound, Typed
<1>6. QED
  BY <1>1, <1>3, <1>5, SentNone, Quiet

\* A confirmation is an answered reading.
LEMMA ConfirmSound == ASSUME Sound, Confirm PROVE Sound'
<1>1. UNCHANGED <<airdrop, chain, queue, last, reorgs, env, artifact, unarmed>> /\ wizard' = Idle
  BY DEF Confirm, ledger, files
<1>2. Typed'
  BY <1>1, IdleTyped DEF Sound, Typed
<1>3. \A k \in Salts :
        /\ <<"renounced", k>> \in said' => <<"renounced", k>> \in said \/ k \in chain.sealed
        /\ <<"open", k>> \in said' => <<"open", k>> \in said \/ k \in chain.wired
  <2>1. CASE \E owner \in Reading(Owner(wizard.hook)) :
               Renounced(owner) /\ said' = said \cup {<<"renounced", wizard.hook>>}
    <3>1. wizard.hook \in chain.sealed
      BY <2>1 DEF Reading, Renounced, Owner, IsZeroAddr, Zero, Some, Null
    <3>2. QED
      BY <2>1, <3>1
  <2>2. CASE \E token \in Reading(Token(wizard.hook)) :
               token = Some /\ said' = said \cup {<<"open", wizard.hook>>}
    <3>1. wizard.hook \in chain.wired
      BY <2>2 DEF Reading, Token, Zero, Some, Null
    <3>2. QED
      BY <2>2, <3>1
  <2>3. QED
    BY <2>1, <2>2 DEF Confirm
<1>4. QED
  BY <1>1, <1>2, <1>3, SentNone, IdleTyped, SameGrows, Preserved

\* The operator's own transactions neither renounce nor wire.
LEMMA ByHandSound == ASSUME Sound, FinishByHand \/ LoseDirectory PROVE Sound'
<1>1. CASE FinishByHand
  <2>1. PICK act \in {"seed", "badseed", "vault"}, k \in chain.hooks : Broadcast(<<Tx(act, k)>>)
    BY <1>1, LaunchAssumption DEF FinishByHand
  <2>2. PICK t : t = Tx(act, k)
    OBVIOUS
  <2>3. t \in Txs /\ t.act \notin {"renounce", "wire"}
    BY <2>2 DEF Tx, Txs, Acts, Sound, Typed, Chains
  <2>4. <<t>> \in Seq(Txs) /\ Sent(<<t>>) = {t} /\ queue' \in {<<t>>, queue}
    BY <2>1, <2>2, <2>3, SentOne DEF Broadcast
  <2>5. UNCHANGED <<airdrop, chain, last, reorgs, env, artifact, wizard, unarmed, said>>
    BY <1>1 DEF FinishByHand, files
  <2>6. Typed'
    BY <2>4, <2>5 DEF Sound, Typed
  <2>7. Checked(t)'
    BY <2>3 DEF Checked
  <2>8. QED
    BY <2>4, <2>5, <2>6, <2>7, Quiet DEF Sound
<1>2. CASE LoseDirectory
  <2>1. UNCHANGED <<airdrop, chain, queue, last, reorgs, wizard, unarmed, said>>
        /\ env' = None /\ artifact' = None /\ wizard.pc = "off"
    BY <1>2, IdleTyped DEF LoseDirectory, ledger
  <2>2. Typed'
    BY <2>1 DEF Sound, Typed
  <2>3. QED
    BY <2>1, <2>2, Quiet DEF Sound
<1>3. QED
  BY <1>1, <1>2

-----------------------------------------------------------------------------
(* Theorems. *)

\* The invariant holds in every reachable state before a reorganisation, for any
\* salts, any operator, any seed by hand, and whatever is lost, dropped or
\* reverted.
THEOREM Inductive == Spec => [](reorgs \in Nat /\ (reorgs = 0 => Sound))
<1> DEFINE IInv == reorgs \in Nat /\ (reorgs = 0 => Sound)
<1>1. Init => IInv
  BY StartsSound DEF Init
<1>2. IInv /\ [Next]_vars => IInv'
  <2> SUFFICES ASSUME IInv, [Next]_vars PROVE IInv'
    OBVIOUS
  <2>1. reorgs' = reorgs \/ (Reorg /\ reorgs' = reorgs + 1)
    BY DEF Next, Wizard, Start, Probe, Paste, Blank, Classify, Inspect, Configure,
       SignDeploy, SignRenounce, SignOpen, Send, Confirm, Stop, Land, Revert, Drop,
       Reorg, FinishByHand, LoseDirectory, vars, ledger
  <2>2. SUFFICES ASSUME reorgs = 0, reorgs' = 0 PROVE Sound'
    BY <2>1
  <2>3. Sound
    BY <2>2
  <2>4. CASE Wizard
    BY <2>3, <2>4, WizardMoves, ConfigureSound, SignDeploySound, SignRenounceSound,
       SignOpenSound, SendSound, ConfirmSound DEF Wizard
  <2>5. CASE Land \/ Revert \/ Drop
    BY <2>3, <2>5, LandSound, RevertSound, DropSound
  <2>6. CASE Reorg
    BY <2>2, <2>6 DEF Reorg
  <2>7. CASE FinishByHand \/ LoseDirectory
    BY <2>3, <2>7, ByHandSound
  <2>8. CASE UNCHANGED vars
    <3>1. UNCHANGED <<airdrop, chain, queue, reorgs, env, artifact, wizard, unarmed, said>>
      BY <2>8 DEF vars, ledger, files
    <3>2. Typed'
      BY <2>3, <3>1 DEF Sound, Typed
    <3>3. QED
      BY <2>3, <3>1, <3>2, Quiet DEF Sound
  <2>9. QED
    BY <2>4, <2>5, <2>6, <2>7, <2>8 DEF Next
<1>3. QED
  BY <1>1, <1>2, PTL DEF Spec

\* A renounced hook has its pool and a reachable reserve, and the configured pool
\* unless the renounce ran without .env: Renounce.s.sol's checks are enough
\* although they run in simulation, as long as nothing they saw is undone.
THEOREM Sealed == Spec => []SealedIsLive
<1>1. reorgs \in Nat /\ (reorgs = 0 => Sound) => SealedIsLive
  BY DEF Sound, SealedIsLive
<1>2. QED
  BY <1>1, Inductive, PTL

\* The airdrop is opened only over a renounced token, whatever reads failed.
THEOREM OpenSealed == Spec => []OpenOnlyWhenSealed
<1>1. reorgs \in Nat /\ (reorgs = 0 => Sound) => OpenOnlyWhenSealed
  BY DEF Sound, OpenOnlyWhenSealed
<1>2. QED
  BY <1>1, Inductive, PTL

\* The wizard reports nothing as confirmed on-chain that is not so.
THEOREM Truthful == Spec => []SaidIsTrue
<1>1. reorgs \in Nat /\ (reorgs = 0 => Sound) => SaidIsTrue
  BY DEF Sound, SaidIsTrue
<1>2. QED
  BY <1>1, Inductive, PTL

-----------------------------------------------------------------------------
(* One system.  An operator who signs NOTHING IS DEPLOYED only when that is *)
(* so, and keeps the .env of a launch, gets one hook at most, however the   *)
(* wizard is stopped, transactions fail and directories are lost.           *)

\* The systems that have a hook, or a transaction on its way that makes one.
HookTxs(txs) == {t.at : t \in {u \in txs : u.act = "hook"}}
Hooks == chain.hooks \cup HookTxs(Sent(queue)) \cup HookTxs(Sent(wizard.txs))

\* The inductive invariant.  A record, and a wizard that is about to deploy, name
\* .env's salt, and there is no other system and will be none; what is signed is
\* .env's.
Single ==
    /\ \A j, k \in Hooks : j = k
    /\ artifact # None => env = artifact /\ Hooks \subseteq {env}
    /\ wizard.pc \notin {"signed", "sent"} => wizard.txs = <<>>
    /\ wizard.pc \in {"probe", "ask"} => wizard.hook = artifact
    /\ wizard.pc = "probe" => artifact # None
    /\ wizard.pc = "classify" => wizard.hook \in chain.hooks \cup ({artifact} \ {None})
    /\ wizard.pc \in {"fresh", "configured"} => Hooks \subseteq {env}
    /\ Len(wizard.txs) > 1 => Hooks \subseteq {env} /\ Last(wizard.txs).at = env
    /\ last = None

\* The hypotheses: what LAUNCH.md asks of the operator, and a chain that keeps
\* its blocks.
Diligent == Careful /\ ~MayOverwrite /\ MaxReorgs = 0

\* The hooks that come of some of the transactions.
LEMMA FewerHooks ==
    ASSUME NEW r, NEW s, s \subseteq r
    PROVE  HookTxs(s) \subseteq HookTxs(r)
BY DEF HookTxs

\* The hooks are salts.
LEMMA HooksAreSalts ==
    ASSUME Typed
    PROVE  Hooks \subseteq Salts
<1>1. chain.hooks \subseteq Salts
  BY DEF Typed, Chains
<1>2. Sent(queue) \subseteq Txs /\ Sent(wizard.txs) \subseteq Txs
  BY SentTyped DEF Typed, Wizards
<1>3. QED
  BY <1>1, <1>2 DEF Hooks, HookTxs, Txs

\* What a step that adds no hook has to show of the wizard.
LEMMA NoNewHook ==
    ASSUME Single, Hooks' \subseteq Hooks, UNCHANGED <<env, artifact, last>>,
           wizard'.pc \notin {"signed", "sent"} => wizard'.txs = <<>>,
           wizard'.pc \in {"probe", "ask"} => wizard'.hook = artifact,
           wizard'.pc = "probe" => artifact # None,
           wizard'.pc = "classify" =>
              wizard'.hook \in chain'.hooks \cup ({artifact} \ {None}),
           wizard'.pc \in {"fresh", "configured"} => Hooks \subseteq {env},
           Len(wizard'.txs) > 1 => Hooks \subseteq {env} /\ Last(wizard'.txs).at = env
    PROVE  Single'
BY DEF Single

\* Steps of the chain and of the operator, which leave the wizard as it is.
LEMMA BesideTheWizard ==
    ASSUME Single, Hooks' \subseteq Hooks, UNCHANGED <<env, artifact, last, wizard>>,
           chain.hooks \subseteq chain'.hooks
    PROVE  Single'
BY NoNewHook DEF Single

\* A landing makes no hook that was not on its way, and no block is undone.
LEMMA LandSingle ==
    ASSUME Diligent, Sound, Single, Land
    PROVE  Single'
<1>1. queue # <<>> /\ queue \in Seq(Txs) /\ chain \in Chains
  BY DEF Land, Sound, Typed
<1>2. PICK t \in Txs : t = Head(queue) /\ t \in Sent(queue)
  BY <1>1, SentLess
<1>3. Sent(queue') \subseteq Sent(queue)
  BY <1>1, SentLess DEF Land
<1>4. UNCHANGED <<wizard, env, artifact>> /\ last' = None /\ chain' = Effect(t)
  BY <1>2 DEF Land, Diligent, files, Sound, Typed
<1>5. t.act \in Acts /\ t.at \in Salts
  BY DEF Txs
<1>6. \/ t.act = "hook" /\ chain'.hooks = chain.hooks \cup {t.at}
      \/ chain'.hooks = chain.hooks
  BY <1>1, <1>4, <1>5 DEF Effect, Acts, Chains
<1>7. t.act = "hook" => t.at \in HookTxs(Sent(queue))
  BY <1>2 DEF HookTxs
<1>8. Hooks' \subseteq Hooks /\ chain.hooks \subseteq chain'.hooks
  BY <1>3, <1>4, <1>6, <1>7, FewerHooks DEF Hooks
<1>9. last' = last
  BY <1>4 DEF Single
<1>10. QED
  BY <1>4, <1>8, <1>9, BesideTheWizard

\* What is reverted or dropped makes no hook.
LEMMA FailSingle ==
    ASSUME Sound, Single, Revert \/ Drop
    PROVE  Single'
<1>1. queue # <<>> /\ queue \in Seq(Txs)
  BY DEF Revert, Drop, Sound, Typed
<1>2. Sent(queue') \subseteq Sent(queue)
  BY <1>1, SentLess DEF Revert, Drop
<1>3. UNCHANGED <<chain, last, env, artifact, wizard>>
  BY DEF Revert, Drop, files
<1>4. Hooks' \subseteq Hooks
  BY <1>2, <1>3, FewerHooks DEF Hooks
<1>5. QED
  BY <1>3, <1>4, BesideTheWizard

\* Neither does what the operator finishes by hand, and a lost directory leaves
\* no record.
LEMMA ByHandSingle ==
    ASSUME Sound, Single, FinishByHand \/ LoseDirectory
    PROVE  Single'
<1>1. CASE FinishByHand
  <2>1. PICK act \in {"seed", "badseed", "vault"}, k \in chain.hooks : Broadcast(<<Tx(act, k)>>)
    BY <1>1, LaunchAssumption DEF FinishByHand
  <2>2. PICK t : t = Tx(act, k)
    OBVIOUS
  <2>3. t.act # "hook"
    BY <2>2 DEF Tx
  <2>4. Sent(<<t>>) = {t} /\ queue' \in {<<t>>, queue}
    BY <2>1, <2>2, SentOne DEF Broadcast
  <2>5. HookTxs(Sent(queue')) \subseteq HookTxs(Sent(queue))
    BY <2>4, <2>3 DEF HookTxs
  <2>6. UNCHANGED <<chain, last, env, artifact, wizard>>
    BY <1>1 DEF FinishByHand, files
  <2>7. Hooks' \subseteq Hooks
    BY <2>5, <2>6 DEF Hooks
  <2>8. QED
    BY <2>6, <2>7, BesideTheWizard
<1>2. CASE LoseDirectory
  <2>1. UNCHANGED <<chain, queue, last, wizard>> /\ env' = None /\ artifact' = None
        /\ wizard = Idle
    BY <1>2 DEF LoseDirectory, ledger
  <2>2. wizard.pc = "off" /\ wizard.txs = <<>>
    BY <2>1, IdleTyped
  <2>3. Hooks' = Hooks /\ Len(wizard'.txs) = 0
    BY <2>1, <2>2 DEF Hooks
  <2>4. QED
    BY <2>1, <2>2, <2>3 DEF Single
<1>3. QED
  BY <1>1, <1>2

\* A wizard that has nothing to sign yet, or none any more, moves on.
LEMMA MoveSingle ==
    ASSUME Single, UNCHANGED <<ledger, env, artifact>>, wizard'.txs = <<>>,
           wizard'.pc \in {"probe", "ask"} => wizard'.hook = artifact,
           wizard'.pc = "probe" => artifact # None,
           wizard'.pc = "classify" =>
              wizard'.hook \in chain.hooks \cup ({artifact} \ {None}),
           wizard'.pc \in {"fresh", "configured"} => Hooks \subseteq {env}
    PROVE  Single'
<1>1. UNCHANGED <<chain, queue, last>>
  BY DEF ledger
<1>2. HookTxs(Sent(wizard'.txs)) = {} /\ Len(wizard'.txs) = 0
  BY SentNone DEF HookTxs
<1>3. Hooks' \subseteq Hooks
  BY <1>1, <1>2 DEF Hooks
<1>4. QED
  BY <1>1, <1>2, <1>3, NoNewHook

\* The questions and the readings: only a blank answer, and a reading of an empty
\* address the record names, lead to a deploy.
LEMMA AskSingle ==
    ASSUME Diligent, Sound, Single,
           Start \/ Probe \/ Paste \/ Blank \/ Classify \/ Inspect \/ Stop
    PROVE  Single'
<1>0. /\ UNCHANGED <<ledger, env, artifact>>
      /\ wizard \in Wizards /\ artifact \in Salts \cup {None}
      /\ Idle \in Wizards /\ Idle.txs = <<>> /\ Idle.pc = "off"
  BY IdleTyped DEF Start, Probe, Paste, Blank, Classify, Inspect, Stop, files, Sound, Typed
<1>1. CASE Stop
  BY <1>0, <1>1, MoveSingle DEF Stop
<1>2. CASE Start
  <2>1. wizard' = [Idle EXCEPT !.pc = Located(artifact), !.hook = artifact]
    BY <1>2 DEF Start
  <2>2. wizard'.txs = <<>> /\ wizard'.hook = artifact /\ wizard'.pc \in {"ask", "probe"}
        /\ (wizard'.pc = "probe" => artifact # None)
    BY <1>0, <2>1 DEF Wizards, Located
  <2>3. QED
    BY <1>0, <2>2, MoveSingle
<1>3. CASE Probe
  <2>1. wizard.txs = <<>> /\ wizard.hook = artifact /\ artifact # None
    BY <1>3 DEF Probe, Single
  <2>2. PICK pc \in {"ask", "classify"} : Step(pc)
    BY <1>3 DEF Probe
  <2>3. wizard'.pc = pc /\ wizard'.hook = artifact /\ wizard'.txs = <<>>
    BY <1>0, <2>1, <2>2, StepTyped DEF Pcs
  <2>4. QED
    BY <1>0, <2>1, <2>3, MoveSingle
<1>4. CASE Paste
  <2>1. wizard.txs = <<>>
    BY <1>4 DEF Paste, Single
  <2>2. wizard'.pc = "classify" /\ wizard'.hook \in chain.hooks /\ wizard'.txs = <<>>
    BY <1>0, <1>4, <2>1 DEF Paste, Wizards
  <2>3. QED
    BY <1>0, <2>2, MoveSingle
<1>5. CASE Blank
  <2>1. wizard.txs = <<>> /\ wizard.hook = artifact
    BY <1>5 DEF Blank, Single
  <2>2. chain.hooks = {} /\ queue = <<>>
    BY <1>5 DEF Blank, Diligent
  <2>3. Hooks = {}
    BY <2>1, <2>2, SentNone DEF Hooks, HookTxs
  <2>4. /\ wizard'.pc = (IF wizard.hook = None THEN "fresh" ELSE "classify")
        /\ wizard'.hook = artifact /\ wizard'.txs = <<>>
    BY <1>0, <1>5, <2>1 DEF Blank, Wizards
  <2>5. QED
    BY <1>0, <2>1, <2>3, <2>4, MoveSingle
<1>6. CASE Classify
  <2>1. wizard.txs = <<>> /\ wizard.hook \in chain.hooks \cup ({artifact} \ {None})
    BY <1>6 DEF Classify, Single
  <2>2. PICK pc \in {"fresh", "inspect"} :
           Step(pc) /\ (pc = "fresh" => wizard.hook \notin chain.hooks)
    BY <1>6 DEF Classify, CodeAt, Empty, Some
  <2>3. wizard'.pc = pc /\ wizard'.txs = <<>>
    BY <1>0, <2>1, <2>2, StepTyped DEF Pcs
  <2>4. pc = "fresh" => artifact # None /\ Hooks \subseteq {env}
    BY <2>1, <2>2 DEF Single
  <2>5. QED
    BY <1>0, <2>3, <2>4, MoveSingle
<1>7. CASE Inspect
  <2>1. wizard.txs = <<>>
    BY <1>7 DEF Inspect, Single
  <2>2. PICK seeded, owner, vault, token : Step(State(seeded, owner, vault, token))
    BY <1>7 DEF Inspect
  <2>3. State(seeded, owner, vault, token) \in
           Pcs \ {"probe", "ask", "classify", "fresh", "configured"}
    BY DEF State, Pcs
  <2>4. wizard'.pc = State(seeded, owner, vault, token) /\ wizard'.txs = <<>>
    BY <1>0, <2>1, <2>2, <2>3, StepTyped
  <2>5. QED
    BY <1>0, <2>3, <2>4, MoveSingle
<1>8. QED
  BY <1>1, <1>2, <1>3, <1>4, <1>5, <1>6, <1>7

\* The .env of a launch is kept; a new one is written when there is none, and
\* then there is no hook either.
LEMMA ConfigureSingle ==
    ASSUME Diligent, Sound, Single, Configure
    PROVE  Single'
<1>1. wizard.pc = "fresh" /\ wizard.txs = <<>> /\ Hooks \subseteq {env}
  BY DEF Configure, Single
<1>2. wizard \in Wizards /\ Step("configured") /\ UNCHANGED <<ledger, artifact>>
  BY DEF Configure, Sound, Typed
<1>3. wizard'.pc = "configured" /\ wizard'.txs = <<>>
  BY <1>1, <1>2, StepTyped DEF Pcs
<1>4. CASE env' = env
  BY <1>1, <1>2, <1>3, <1>4, MoveSingle
<1>5. CASE env = None
  <2>1. None \notin Salts /\ Hooks \subseteq Salts
    BY LaunchAssumption, HooksAreSalts DEF Sound
  <2>2. Hooks = {}
    BY <1>1, <1>5, <2>1
  <2>3. artifact = None
    BY <1>5 DEF Single
  <2>4. UNCHANGED <<chain, queue, last>> /\ HookTxs(Sent(wizard'.txs)) = {}
    BY <1>2, <1>3, SentNone DEF ledger, HookTxs
  <2>5. Hooks' = {} /\ Len(wizard'.txs) = 0
    BY <1>3, <2>2, <2>4 DEF Hooks
  <2>6. artifact' = None /\ last' = None
    BY <1>2, <2>3, <2>4 DEF Single
  <2>7. QED
    BY <1>3, <2>5, <2>6 DEF Single
<1>6. QED
  BY <1>4, <1>5 DEF Configure, Diligent

\* A deploy that is signed is .env's.
LEMMA SignDeploySingle ==
    ASSUME Sound, Single, SignDeploy
    PROVE  Single'
<1>1. /\ Hooks \subseteq {env} /\ wizard.txs = <<>>
      /\ env \in Salts /\ wizard \in Wizards
  BY DEF SignDeploy, Single, Sound, Typed
<1>2. PICK v, h, s : v = Tx("vault", env) /\ h = Tx("hook", env) /\ s = Tx("seed", env)
  OBVIOUS
<1>3. /\ \A t \in {v, h, s} : t \in Txs /\ t.at = env
  BY <1>1, <1>2 DEF Tx, Txs, Acts
<1>4. PICK txs : txs = DeployTxs
  OBVIOUS
<1>5. PICK first \in {<<v>>, <<>>} : txs = first \o <<h, s>>
  BY <1>2, <1>4 DEF DeployTxs, Predicted
<1>6. Sent(txs) \subseteq {v, h, s} /\ Last(txs) = s
  <2>1. first \in Seq(Txs) /\ Sent(first) \subseteq {v} /\ Len(first) \in Nat
    <3>1. CASE first = <<v>>
      BY <1>3, <3>1, SentOne
    <3>2. CASE first = <<>>
      BY <3>2, SentNone
    <3>3. QED
      BY <3>1, <3>2
  <2>2. <<h, s>> \in Seq(Txs) /\ Sent(<<h, s>>) \subseteq {h, s}
        /\ Len(<<h, s>>) = 2 /\ <<h, s>>[2] = s
    BY <1>3 DEF Sent
  <2>3. PICK rest \in Seq(Txs) : rest = <<h, s>>
    BY <2>2
  <2>4. Sent(first \o rest) \subseteq {v, h, s}
    BY <2>1, <2>2, <2>3, SentConcat
  <2>5. Len(first \o rest) = Len(first) + 2 /\ (first \o rest)[Len(first) + 2] = rest[2]
    BY <2>1, <2>2, <2>3
  <2>6. QED
    BY <1>5, <2>2, <2>3, <2>4, <2>5 DEF Last
<1>7. HookTxs(Sent(txs)) \subseteq {env}
  BY <1>3, <1>6 DEF HookTxs
<1>8. wizard'.pc = "signed" /\ wizard'.txs = txs
  BY <1>1, <1>4 DEF SignDeploy, Wizards
<1>9. UNCHANGED <<chain, queue, last, env, artifact>>
  BY DEF SignDeploy, ledger, files
<1>10. Hooks' \subseteq {env}
  BY <1>1, <1>7, <1>8, <1>9 DEF Hooks
<1>11. Last(txs).at = env
  BY <1>3, <1>6
<1>12. QED
  BY <1>8, <1>9, <1>10, <1>11 DEF Single

\* A renounce and an opening make no hook.
LEMMA SignSingle ==
    ASSUME Sound, Single, UNCHANGED <<ledger, env, artifact>>,
           NEW t, t.act # "hook",
           wizard' = [wizard EXCEPT !.pc = "signed", !.txs = <<t>>]
    PROVE  Single'
<1>1. wizard'.pc = "signed" /\ wizard'.txs = <<t>> /\ Len(<<t>>) = 1
  BY DEF Sound, Typed, Wizards
<1>2. HookTxs(Sent(wizard'.txs)) = {}
  BY <1>1, SentOne DEF HookTxs
<1>3. UNCHANGED <<chain, queue, last>>
  BY DEF ledger
<1>4. Hooks' \subseteq Hooks
  BY <1>2, <1>3 DEF Hooks
<1>5. QED
  BY <1>1, <1>3, <1>4, NoNewHook

LEMMA SignOthersSingle ==
    ASSUME Sound, Single, SignRenounce \/ SignOpen
    PROVE  Single'
<1>1. UNCHANGED <<ledger, env, artifact>>
  BY DEF SignRenounce, SignOpen, files
<1>2. PICK act \in {"renounce", "wire"} :
         wizard' = [wizard EXCEPT !.pc = "signed", !.txs = <<Tx(act, wizard.hook)>>]
  BY DEF SignRenounce, SignOpen
<1>3. PICK t : t = Tx(act, wizard.hook)
  OBVIOUS
<1>4. t.act # "hook"
  BY <1>3 DEF Tx
<1>5. QED
  BY <1>1, <1>2, <1>3, <1>4, SignSingle

\* What is sent was signed, and a deploy leaves its own record.
LEMMA SendSingle ==
    ASSUME Sound, Single, Send
    PROVE  Single'
<1>1. /\ queue' \in {wizard.txs, queue} /\ UNCHANGED <<chain, last, env>>
      /\ wizard.pc = "signed"
  BY DEF Send, Broadcast
<1>2. wizard \in Wizards
  BY DEF Sound, Typed
<1>3. Idle.pc = "off" /\ Idle.txs = <<>>
  BY IdleTyped
<1>4. HookTxs(Sent(queue')) \subseteq HookTxs(Sent(queue)) \cup HookTxs(Sent(wizard.txs))
  BY <1>1
<1>5. CASE Deploying
  <2>1. wizard' = Idle /\ artifact' = Last(wizard.txs).at
    BY <1>5 DEF Send
  <2>2. Hooks \subseteq {env} /\ artifact' = env
    BY <1>5, <2>1 DEF Deploying, Single
  <2>3. HookTxs(Sent(wizard'.txs)) = {} /\ Len(wizard'.txs) = 0
    BY <1>3, <2>1, SentNone DEF HookTxs
  <2>4. Hooks' \subseteq {env}
    BY <1>1, <1>4, <2>2, <2>3 DEF Hooks
  <2>5. QED
    BY <1>1, <1>3, <2>1, <2>2, <2>3, <2>4 DEF Single
<1>6. CASE ~Deploying
  <2>1. Step("sent") /\ artifact' = artifact
    BY <1>6 DEF Send
  <2>2. wizard'.pc = "sent" /\ wizard'.txs = wizard.txs
    BY <1>2, <2>1, StepTyped DEF Pcs
  <2>3. Hooks' \subseteq Hooks
    BY <1>1, <1>4, <2>2 DEF Hooks
  <2>4. ~(Len(wizard'.txs) > 1)
    BY <1>6, <2>2 DEF Deploying
  <2>5. QED
    BY <1>1, <2>1, <2>2, <2>3, <2>4, NoNewHook
<1>7. QED
  BY <1>5, <1>6

LEMMA ConfirmSingle ==
    ASSUME Single, Confirm
    PROVE  Single'
<1>1. UNCHANGED <<ledger, env, artifact>> /\ wizard' = Idle
  BY DEF Confirm, files
<1>2. Idle.pc = "off" /\ Idle.txs = <<>>
  BY IdleTyped
<1>3. QED
  BY <1>1, <1>2, MoveSingle

LEMMA StartsSingle == ASSUME Init PROVE Single
<1>1. Idle.pc = "off" /\ Idle.txs = <<>>
  BY IdleTyped
<1>2. Hooks = {} /\ Len(wizard.txs) = 0
  BY <1>1, SentNone DEF Init, Hooks, HookTxs
<1>3. QED
  BY <1>1, <1>2 DEF Init, Single

\* At most one hook is at most one system.
LEMMA OneHook ==
    ASSUME Single
    PROVE  NoSecondSystem
<1>1. \A j, k \in chain.hooks : j = k
  BY DEF Single, Hooks
<1>2. CASE chain.hooks = {}
  BY <1>2, FS_EmptySet DEF NoSecondSystem
<1>3. CASE chain.hooks # {}
  <2>1. PICK k : chain.hooks = {k}
    BY <1>1, <1>3
  <2>2. QED
    <3>1. Cardinality({k}) = 1
      BY FS_Singleton
    <3>2. QED
      BY <2>1, <3>1 DEF NoSecondSystem
<1>4. QED
  BY <1>2, <1>3

\* One deployer gets one system at most, for any salts and however often a deploy
\* is signed again: the record, .env and the chain name the same one.  It takes an
\* operator who answers truthfully and keeps .env, and a chain that keeps its
\* blocks.
THEOREM OneSystem == ASSUME Diligent PROVE Spec => []NoSecondSystem
<1> DEFINE SInv == reorgs = 0 /\ Sound /\ Single
<1>1. Init => SInv
  BY StartsSound, StartsSingle DEF Init
<1>2. SInv /\ [Next]_vars /\ (reorgs \in Nat /\ (reorgs = 0 => Sound))' => SInv'
  <2> SUFFICES ASSUME Sound, Single, [Next]_vars, reorgs = 0, reorgs' = 0 => Sound'
               PROVE  reorgs' = 0 /\ Single'
    OBVIOUS
  <2>1. ~Reorg
    BY DEF Reorg, Single
  <2>2. reorgs' = 0
    BY <2>1 DEF Next, Wizard, Start, Probe, Paste, Blank, Classify, Inspect, Configure,
       SignDeploy, SignRenounce, SignOpen, Send, Confirm, Stop, Land, Revert, Drop,
       FinishByHand, LoseDirectory, vars, ledger
  <2>3. CASE Wizard
    BY <2>2, <2>3, AskSingle, ConfigureSingle, SignDeploySingle, SignOthersSingle, SendSingle,
       ConfirmSingle DEF Wizard
  <2>4. CASE Land \/ Revert \/ Drop
    BY <2>2, <2>4, LandSingle, FailSingle
  <2>5. CASE FinishByHand \/ LoseDirectory
    BY <2>2, <2>5, ByHandSingle
  <2>6. CASE UNCHANGED vars
    <3>1. UNCHANGED <<chain, queue, last, env, artifact, wizard>>
      BY <2>6 DEF vars, ledger, files
    <3>2. Hooks' = Hooks
      BY <3>1 DEF Hooks
    <3>3. QED
      BY <2>2, <3>1, <3>2, BesideTheWizard
  <2>7. QED
    BY <2>1, <2>2, <2>3, <2>4, <2>5, <2>6 DEF Next
<1>3. SInv => NoSecondSystem
  BY OneHook
<1>4. QED
  BY <1>1, <1>2, <1>3, Inductive, PTL DEF Spec
=============================================================================
