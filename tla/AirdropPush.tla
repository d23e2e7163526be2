----------------------------- MODULE AirdropPush -----------------------------
(***************************************************************************)
(* The airdrop distribution: push-airdrop.mjs, run again and again by an   *)
(* operator, sends chunks of its claims file to PrismAirdropBatcher, which *)
(* loops over PrismMigration.claim.                                        *)
(*                                                                         *)
(* The runner may be killed, its reads and sends may fail, a transaction   *)
(* it has given up on may still land, or never does; anybody may claim     *)
(* directly in between.  A push is one transaction, so nothing else acts   *)
(* on the vault while it loops; one that reverts as a whole is one that    *)
(* never lands.  Chunks are planned by PushGas, with the runner's own gas  *)
(* constants.                                                              *)
(***************************************************************************)
EXTENDS PushGas

CONSTANTS
    Holders, Allocation, Tokens, Fallbacks, NoToken, Reserve, Amounts, MaxGift,
                \* as in PrismMigration
    Files,      \* the claims files an operator may use: account -> amount
    Thresholds, \* the values of --min-prism
    ChunkGases, \* the values of --chunk-gas
    Costs,      \* the gas a claim for each holder may turn out to take
    Cheap,      \* the gas a claim that is refused at once takes
    MaxPool     \* bound: the transactions in flight

\* The vault's constants are as in PrismMigration.
\* A claims file lists somebody: no tree is made of nothing.  Its accounts may be
\* strangers to the tree and its amounts wrong.  A proof has an element for each
\* level of a tree of addresses.  A claim that is refused at once takes less than
\* one that pays dust.
ASSUME PushAssumption ==
    /\ IsFiniteSet(Holders) /\ Allocation \in [Holders -> Nat \ {0}]
    /\ Fallbacks \subseteq Tokens /\ NoToken \notin Tokens
    /\ Reserve \in [Tokens -> Nat] /\ MaxGift \in Nat
    /\ \A f \in Files : /\ f \in [DOMAIN f -> Nat]
                       /\ IsFiniteSet(DOMAIN f) /\ DOMAIN f # {}
    /\ ChunkGases \subseteq Nat
    /\ Costs \subseteq [Holders -> Nat \ {0}]
    /\ Unit \in Nat \ {0} /\ ProofDepth \in 0..160
    /\ Cheap \in 0..GasBase /\ MaxPool \in Nat

VARIABLES
    token, tokenFinal, claimed, held, received, gifts,  \* the vault
    pool,     \* external: the pushes sent, not landed
    push,     \* the loop of the push being executed, or Idle
    last,     \* history: the last push that returned, or Idle
    cost,     \* the gas a claim for each holder takes
    pc,       \* what the runner is doing
    file,     \* its claims file
    minimum,  \* its --min-prism
    todo,     \* the planned chunks it has not sent yet
    awaited,  \* the push whose receipt it waits for, or Idle
    delivered,\* whether a receipt reported a delivery
    unpaid,   \* the accounts of its file it read as unpaid at the end
    exit      \* its last verdict

vault == <<token, tokenFinal, claimed, held, received, gifts>>
chain == <<pool, push, last, cost>>
runner == <<pc, file, minimum, todo, awaited, delivered, unpaid, exit>>
vars == <<vault, chain, runner>>

M == INSTANCE PrismMigration

Idle == [rows |-> << >>, no |-> 0]

-----------------------------------------------------------------------------
(* PrismAirdropBatcher.push.  A row is an account and the amount listed    *)
(* for it.                                                                 *)

\* A call keeps a 64th of its gas back.
Forwarded(gas) == gas - (gas \div 64)

\* What an exhausted claim burns: it forwarded to the transfer what it got,
\* which used it all up.
Exhausted(gas) == Forwarded(Forwarded(gas))

Row == push.rows[push.i]
Account == Row[1]
Invalid == ~M!InTree(Account, Row[2])
Short == ~M!Delivers(token, Row[2])

\* The gas the row takes if it has enough.
Needed == IF Invalid \/ Short THEN Cheap ELSE cost[Account]
OutOfGas == Needed > Forwarded(push.gas)

\* Mutant: a starved claim is charged what it would have needed.
BurnedInFull == Needed

Burned == IF OutOfGas THEN Exhausted(push.gas) ELSE Cheap

\* Mutant: any failed row is skipped.
RetriableNever == FALSE

\* Not InvalidProof, and more than half of the gas is gone.
Retriable == (OutOfGas \/ ~Invalid) /\ Burned > push.gas \div 2

Looping ==
    /\ push # Idle
    /\ ~push.stopped
    /\ push.i <= Len(push.rows)
    /\ push.gas >= push.floor

\* A transaction lands, once the token is wired, with what the intrinsic
\* charge leaves of its gas.
Land(tx) ==
    /\ push = Idle
    /\ tx \in pool
    /\ token # NoToken
    /\ pool' = pool \ {tx}
    /\ push' = [rows |-> tx.rows, gas |-> tx.gas - Intrinsic(tx.rows), floor |-> tx.floor, no |-> tx.no,
                i |-> 1, delivered |-> 0, failed |-> 0, stopped |-> FALSE]
    /\ UNCHANGED <<vault, last, cost, runner>>

\* It never lands, or reverts.
Drop(tx) ==
    /\ push = Idle
    /\ tx \in pool
    /\ pool' = pool \ {tx}
    /\ UNCHANGED <<vault, push, last, cost, runner>>

SkipClaimed ==
    /\ Looping
    /\ Account \in claimed
    /\ push' = [push EXCEPT !.i = @ + 1]
    /\ UNCHANGED <<vault, pool, last, cost, runner>>

Deliver ==
    /\ Looping
    /\ ~OutOfGas
    /\ M!Claim(Account, Row[2])
    /\ push' = [push EXCEPT !.i = @ + 1, !.gas = @ - Needed, !.delivered = @ + 1]
    /\ UNCHANGED <<pool, last, cost, runner>>

\* Stop at a retriable row; skip any other, and stop there if gas is low,
\* which the next test of the loop does at the same index.
RowFails ==
    /\ Looping
    /\ Account \notin claimed
    /\ Invalid \/ Short \/ OutOfGas
    /\ push' = [push EXCEPT !.failed = @ + 1, !.gas = @ - Burned,
                            !.stopped = Retriable,
                            !.i = IF Retriable THEN @ ELSE @ + 1]
    /\ UNCHANGED <<vault, pool, last, cost, runner>>

PushReturns ==
    /\ push # Idle
    /\ ~Looping
    /\ last' = push
    /\ push' = Idle
    /\ UNCHANGED <<vault, pool, cost, runner>>

-----------------------------------------------------------------------------
(* push-airdrop.mjs.  A read that fails ends the run, as does a kill;      *)
(* only the read of the vault's balance is retried and answered for.       *)

Unknown == -1

\* Mutant: a balance that could not be read counts as none.
VaultReadingsNull == {0, IF token = NoToken THEN 0 ELSE held[token]}

\* What vaultStillOwes may answer.
VaultReadings == {Unknown, IF token = NoToken THEN 0 ELSE held[token]}

Chosen(f, m) == {a \in DOMAIN f : f[a] >= m}
Unclaimed(s) == {a \in s : a \notin claimed}

Rows(f, accounts) ==
    LET order == SetToSeq(accounts)
    IN  [j \in DOMAIN order |-> <<order[j], f[order[j]]>>]

\* Nothing to do; a plan that is refused; a dry run, which prints the plan
\* and exits 0; or chunks to send.
StartRun(f, m, g, dry) ==
    /\ push = Idle
    /\ pc = "off"
    /\ \E rows \in {Rows(f, Unclaimed(Chosen(f, m)))} : \E plan \in {Plan(rows, g)} :
          LET stays == rows # << >> /\ (dry \/ plan.refused)
          IN  /\ todo' = IF stays THEN << >> ELSE plan.chunks
              /\ pc' = CASE stays -> "off" [] rows = << >> -> "nothing" [] OTHER -> "sending"
              /\ exit' = CASE ~stays -> "none" [] plan.refused -> "refused" [] OTHER -> "planned"
    /\ file' = f /\ minimum' = m
    /\ awaited' = Idle /\ delivered' = FALSE /\ unpaid' = {}
    /\ UNCHANGED <<vault, chain>>

\* Mutant: the floor is sent the limit.
SentFloorIsLimit(chunk) ==
    [rows |-> chunk.rows, gas |-> chunk.gas, floor |-> chunk.gas,
     no |-> Min(1..MaxPool \ {tx.no : tx \in pool})]

Sent(chunk) ==
    [rows |-> chunk.rows, gas |-> chunk.gas, floor |-> chunk.floor,
     no |-> Min(1..MaxPool \ {tx.no : tx \in pool})]

SendChunk ==
    /\ push = Idle
    /\ pc = "sending" /\ todo # << >>
    /\ Cardinality(pool) < MaxPool
    /\ pool' = pool \cup {Sent(Head(todo))}
    /\ awaited' = Sent(Head(todo))
    /\ last' = Idle
    /\ todo' = Tail(todo)
    /\ pc' = "waiting"
    /\ UNCHANGED <<vault, push, cost, file, minimum, delivered, unpaid, exit>>

\* One bad chunk does not abandon the chunks behind it.
SendFails ==
    /\ push = Idle
    /\ pc = "sending" /\ todo # << >>
    /\ todo' = Tail(todo)
    /\ UNCHANGED <<vault, chain, pc, file, minimum, awaited, delivered, unpaid, exit>>

Receipt ==
    /\ push = Idle
    /\ pc = "waiting"
    /\ last.no = awaited.no /\ last.rows = awaited.rows
    /\ delivered' = (delivered \/ last.delivered > 0)
    /\ pc' = "sending" /\ awaited' = Idle
    /\ UNCHANGED <<vault, chain, file, minimum, todo, unpaid, exit>>

\* The transaction may still land.
WaitFails ==
    /\ push = Idle
    /\ pc = "waiting"
    /\ pc' = "sending" /\ awaited' = Idle
    /\ UNCHANGED <<vault, chain, file, minimum, todo, delivered, unpaid, exit>>

Verify ==
    /\ push = Idle
    /\ pc = "sending" /\ todo = << >>
    /\ unpaid' = Unclaimed(DOMAIN file)
    /\ pc' = "verified"
    /\ UNCHANGED <<vault, chain, file, minimum, todo, awaited, delivered, exit>>

\* The verdict of a run that had nothing to send.
EarlyVerdict(owed) ==
    CASE owed = Unknown -> "unread"
      [] owed > 0 -> "vetoed"
      [] owed = 0 /\ Unclaimed(DOMAIN file) # {} -> "unpaid"
      [] OTHER -> "done"

Verdict(owed) ==
    CASE unpaid # {} -> IF delivered THEN "unpaid" ELSE "stuck"
      [] unpaid = {} /\ owed = Unknown -> "unread"
      [] unpaid = {} /\ owed > 0 -> "vetoed"
      [] OTHER -> "done"

Finish ==
    /\ push = Idle
    /\ pc \in {"nothing", "verified"}
    /\ \E owed \in VaultReadings :
          exit' = IF pc = "nothing" THEN EarlyVerdict(owed) ELSE Verdict(owed)
    /\ pc' = "off"
    /\ UNCHANGED <<vault, chain, file, minimum, todo, awaited, delivered, unpaid>>

Crash ==
    /\ push = Idle
    /\ pc # "off"
    /\ pc' = "off"
    /\ UNCHANGED <<vault, chain, file, minimum, todo, awaited, delivered, unpaid, exit>>

-----------------------------------------------------------------------------
(* OpenAirdrop.s.sol wires once; everybody else.                           *)

OpenAirdrop(t) ==
    /\ push = Idle /\ token = NoToken
    /\ M!SetToken(t)
    /\ UNCHANGED <<chain, runner>>

Others ==
    /\ push = Idle
    /\ \/ \E a \in Holders : M!Claim(a, Allocation[a])
       \/ \E t \in Tokens \ Fallbacks : M!Gift(t)
    /\ UNCHANGED <<chain, runner>>

Init ==
    /\ M!Init
    /\ pool = {} /\ push = Idle /\ last = Idle /\ cost \in Costs
    /\ pc = "off" /\ file = << >> /\ minimum = 0 /\ todo = << >> /\ awaited = Idle
    /\ delivered = FALSE /\ unpaid = {} /\ exit = "none"

Next ==
    \/ \E t \in Tokens : OpenAirdrop(t)
    \/ \E tx \in pool : Land(tx) \/ Drop(tx)
    \/ SkipClaimed \/ Deliver \/ RowFails \/ PushReturns
    \/ \E f \in Files, m \in Thresholds, g \in ChunkGases, dry \in BOOLEAN :
            StartRun(f, m, g, dry)
    \/ SendChunk \/ SendFails \/ Receipt \/ WaitFails \/ Verify \/ Finish \/ Crash
    \/ Others

Spec == Init /\ [][Next]_vars

\* LAUNCH.md has the operator run the shipped file until nobody is unpaid;
\* nodes work often enough that a send, a receipt and a run go through again
\* and again; a wait that hangs on a transaction that was dropped (tx.wait()
\* has no timeout) is interrupted, and the deployer opens the airdrop.
Fairness ==
    /\ WF_vars(\E t \in Tokens : OpenAirdrop(t))
    /\ WF_vars(SkipClaimed \/ Deliver \/ RowFails \/ PushReturns)
    /\ SF_vars(\E tx \in pool : Land(tx))
    /\ WF_vars(\E f \in Files, m \in Thresholds, g \in ChunkGases, dry \in BOOLEAN :
                  StartRun(f, m, g, dry))
    /\ SF_vars(SendChunk)
    /\ SF_vars(Receipt)
    /\ WF_vars(pc = "waiting" /\ (Receipt \/ WaitFails \/ Crash))
    /\ SF_vars(Verify)
    /\ SF_vars(Finish /\ exit' # "unread")
FairSpec == Spec /\ Fairness

-----------------------------------------------------------------------------
(* Properties.                                                             *)

\* Gas and the vault's balance never go negative; no planned chunk is empty; the
\* accounts read as unpaid are of the file.
TypeOK ==
    /\ push # Idle => push.gas \in Nat
    /\ held \in [Tokens -> Nat]
    /\ Cardinality(pool) <= MaxPool
    /\ \A k \in DOMAIN todo : todo[k].rows # << >>
    /\ unpaid \subseteq DOMAIN file

\* The runner exits 0 only when every holder of the tree has been paid, even
\* run on a file that lists only some of them or with --min-prism, with reads
\* that fail, transactions that land late and claims by others meanwhile.
ExitMeansAllPaid == exit = "done" => claimed = Holders

\* The rows a returned push walked past.
Passed == IF last = Idle THEN {} ELSE {last.rows[k] : k \in 1..(last.i - 1)}

\* The batcher never walks past a holder it could have paid: every row before
\* stoppedAt is settled, or refused by the vault for good, or the vault cannot
\* cover it; a starved row is left to be resumed at.
ResumeMissesNobody ==
    \A row \in Passed :
        row[1] \in claimed \/ ~M!InTree(row[1], row[2]) \/ ~M!Delivers(token, row[2])

\* The estimates of the rows of a push cover what they really take.
Covered(rows) ==
    \A row \in ToSet(rows) : row[1] \in Holders => cost[row[1]] <= RowExecution(row)

\* A planned push that is covered gets at least its first row settled: the
\* limit pays for the calldata, reaches the floor, and forwards enough.  That
\* it gets to its end is not promised: the plan is checked against the
\* execution of all rows and not against the floor before the last.
PushAdvances == last # Idle /\ Covered(last.rows) => last.i > 1

\* Run again and again with the shipped file, the push ends: everybody is paid
\* and the runner says so, unless the estimates are too low or somebody sends
\* the vault more than it owes.
Diligent ==
    /\ file = Allocation /\ minimum = 0 /\ exit # "planned"
    /\ gifts = 0
    /\ \A a \in Holders : cost[a] <= RowExecution(<<a, Allocation[a]>>)
PushCompletes == <>[]Diligent => <>(claimed = Holders /\ exit = "done")
=============================================================================
