------------------------------- MODULE Keeper --------------------------------
(***************************************************************************)
(* merkle/keeper.mjs: a process that calls pokeFees every interval so that *)
(* the fees waiting in the position never become worth stealing.  A tick   *)
(* is a chain of requests to a node; setInterval starts the next one       *)
(* whether or not the last has its receipt, so several run at once, while  *)
(* fees accrue, shares come and go, and anybody pokes as well.             *)
(*                                                                         *)
(* All pokes are signed by one wallet, which takes the nonce of each from  *)
(* the node: they are mined in the order of their nonces.  A poke that is  *)
(* never mined holds up those behind it, until the node has forgotten it   *)
(* and a later poke takes its nonce.                                       *)
(*                                                                         *)
(* The hook swallows a collect that fails, for want of gas or because POSM *)
(* refuses, into a successful transaction with a PokeCollectFailed log.    *)
(* The accumulators only grow, so a tick that compares two readings learns *)
(* whether any poke, its own or not, distributed fees in between.          *)
(***************************************************************************)
EXTENDS Integers, Sequences

CONSTANTS
    Ticks,     \* bound: the ticks that can be in progress at once
    First,     \* the tick that is awaited before the interval is set
    Nobody,    \* waits for the pokes whose tick has ended
    Modes,     \* among "loop", "once" and "dry": --once, --dry-run
    GasArgs,   \* the values of --gas-limit, NoArg for none
    NoArg,
    CheapGas,  \* what pokeFees costs when its collect fails inside the try
    FullGas,   \* what it needs for the collect to succeed
    FloorGas,  \* the keeper's absolute floor
    FirstMayHang, \* whether the first poke may be one that the node forgets
    MaxBacklog, MaxFailures, MaxOutages, MaxDrops \* bounds: fees waiting, requests
               \* that fail, times POSM starts to refuse, pokes forgotten

ASSUME KeeperAssumption ==
    /\ First \in Ticks /\ Nobody \notin Ticks
    /\ GasArgs \subseteq Nat /\ CheapGas \in Nat /\ FullGas \in Nat /\ FloorGas \in Nat
    /\ 0 < CheapGas /\ CheapGas < FullGas /\ FullGas <= FloorGas

VARIABLES
    seeded, hasShares, forfeit, \* the hook: seeded, totalShares > 0, forfeitNextCollection
    backlog,  \* fees earned by the position and not collected
    posm,     \* whether POSM accepts a collect
    queue,    \* the pokes sent under each nonce that is not mined yet, the wallet's
              \* next one first: who waits for it, its gas limit, and whether the
              \* node still knows it
    stuck,    \* whether the fee of the first of them is too low to be mined
    mode, gasArg, \* the keeper's arguments
    process,  \* "first" until the first tick ends, then "ticking"; "stopped"
    pc,       \* where each tick is
    limit,    \* its gas limit
    moved,    \* whether fees were distributed since it read the accumulators
    receipt,  \* what its poke did; the keeper can tell "swallowed" only
    said,     \* what it logged at its end
    failures, outages, drops

hookVars == <<seeded, hasShares, forfeit, backlog, posm>>
keeperVars == <<mode, gasArg, process, pc, limit, said>>
counts == <<failures, outages, drops>>
vars == <<hookVars, queue, stuck, keeperVars, moved, receipt, counts>>

Init ==
    /\ seeded = FALSE /\ hasShares = FALSE /\ forfeit = FALSE
    /\ backlog = 0 /\ posm = TRUE /\ queue = << >> /\ stuck = FALSE
    /\ mode \in Modes /\ gasArg \in GasArgs /\ process = "first"
    /\ pc = [t \in Ticks |-> IF t = First THEN "checking" ELSE "idle"]
    /\ limit = [t \in Ticks |-> 0]
    /\ moved = [t \in Ticks |-> FALSE]
    /\ receipt = [t \in Ticks |-> "none"]
    /\ said = [t \in Ticks |-> "none"]
    /\ failures = 0 /\ outages = 0 /\ drops = 0

-----------------------------------------------------------------------------
(* The tick.                                                               *)

\* When the first tick is over the interval is set, or --once is done.
EndTick(t, line) ==
    /\ pc' = [pc EXCEPT ![t] = "idle"]
    /\ said' = [said EXCEPT ![t] = line]
    /\ limit' = [limit EXCEPT ![t] = 0]
    /\ process' = IF mode = "once" THEN "stopped" ELSE "ticking"
    /\ UNCHANGED <<mode, gasArg>>

GoTo(t, next) ==
    /\ pc' = [pc EXCEPT ![t] = next]
    /\ UNCHANGED <<mode, gasArg, process, limit, said>>

Start(t) ==
    /\ process = "ticking" /\ pc[t] = "idle"
    /\ pc' = [pc EXCEPT ![t] = "checking"]
    /\ said' = [said EXCEPT ![t] = "none"]
    /\ moved' = [moved EXCEPT ![t] = FALSE]
    /\ receipt' = [receipt EXCEPT ![t] = "none"]
    /\ UNCHANGED <<hookVars, queue, stuck, mode, gasArg, process, limit, counts>>

CheckSeeded(t) ==
    /\ pc[t] = "checking"
    /\ IF seeded THEN GoTo(t, "counting") ELSE EndTick(t, "not seeded yet")
    /\ UNCHANGED <<hookVars, queue, stuck, moved, receipt, counts>>

CountShares(t) ==
    /\ pc[t] = "counting"
    /\ IF hasShares THEN GoTo(t, "reading") ELSE EndTick(t, "nothing to distribute to")
    /\ UNCHANGED <<hookVars, queue, stuck, moved, receipt, counts>>

ReadBefore(t) ==
    /\ pc[t] = "reading"
    /\ IF mode = "dry" THEN EndTick(t, "would succeed") ELSE GoTo(t, "estimating")
    /\ UNCHANGED <<hookVars, queue, stuck, moved, receipt, counts>>

\* Mutant: the estimate is trusted.
GasLimitEstimated(est) == IF gasArg = NoArg THEN est ELSE gasArg

GasLimit(est) ==
    IF gasArg # NoArg THEN gasArg
    ELSE IF 4 * est < FloorGas THEN FloorGas ELSE 4 * est

\* The estimator may stop at any limit with which pokeFees does not revert.
Estimate(t) ==
    /\ pc[t] = "estimating"
    /\ pc' = [pc EXCEPT ![t] = "sending"]
    /\ \E est \in {CheapGas, FullGas} : limit' = [limit EXCEPT ![t] = GasLimit(est)]
    /\ UNCHANGED <<hookVars, queue, stuck, mode, gasArg, process, said, moved, receipt, counts>>

\* The node gives a new poke the first nonce under which it knows none.
Free(i) == i \notin {j \in DOMAIN queue : \E p \in queue[j] : p.known}
Assigned(i) == Free(i) /\ \A j \in 1..(i - 1) : ~Free(j)

Queued(i, p) ==
    IF i > Len(queue) THEN Append(queue, {p}) ELSE [queue EXCEPT ![i] = @ \cup {p}]

Send(t) ==
    /\ pc[t] = "sending"
    /\ \E i \in 1..(Len(queue) + 1) :
          /\ Assigned(i)
          /\ queue' = Queued(i, [by |-> t, gas |-> limit[t], known |-> TRUE])
    /\ GoTo(t, "waiting")
    /\ UNCHANGED <<hookVars, stuck, moved, receipt, counts>>

\* Another poke was mined under the nonce of the one waited for, which ends
\* the wait with TRANSACTION_REPLACED.
Replaced(t) ==
    /\ pc[t] = "waiting"
    /\ \A i \in DOMAIN queue : \A p \in queue[i] : p.by # t
    /\ EndTick(t, "poke failed")
    /\ UNCHANGED <<hookVars, queue, stuck, moved, receipt, counts>>

\* Mutant: the receipt's logs are not looked at.
ReportUnread(t) == IF moved[t] THEN "collected fees" ELSE "nothing to collect"

Report(t) ==
    IF receipt[t] = "swallowed" THEN "ALARM"
    ELSE IF moved[t] THEN "collected fees" ELSE "nothing to collect"

ReadAfter(t) ==
    /\ pc[t] = "rereading"
    /\ EndTick(t, Report(t))
    /\ UNCHANGED <<hookVars, queue, stuck, moved, receipt, counts>>

\* The pokes of the ticks S wait for nobody any more.
Unwatched(S) ==
    [i \in DOMAIN queue |-> {[p EXCEPT !.by = IF @ \in S THEN Nobody ELSE @] : p \in queue[i]}]

\* Any request may fail, the wait for the receipt too, and a poke whose nonce
\* another tick has taken meanwhile is refused: the catch ends the tick, and a
\* poke that was sent stays where it is.
RequestFails(t) ==
    /\ pc[t] # "idle"
    /\ failures < MaxFailures
    /\ failures' = failures + 1
    /\ EndTick(t, "poke failed")
    /\ queue' = Unwatched({t})
    /\ UNCHANGED <<hookVars, stuck, moved, receipt, outages, drops>>

Tick(t) ==
    \/ Start(t) \/ CheckSeeded(t) \/ CountShares(t) \/ ReadBefore(t)
    \/ Estimate(t) \/ Send(t) \/ Replaced(t) \/ ReadAfter(t)

\* SIGINT, or the end of the machine.
Stop ==
    /\ process # "stopped"
    /\ process' = "stopped"
    /\ pc' = [t \in Ticks |-> "idle"]
    /\ limit' = [t \in Ticks |-> 0]
    /\ queue' = Unwatched(Ticks)
    /\ UNCHANGED <<hookVars, stuck, mode, gasArg, said, moved, receipt, counts>>

-----------------------------------------------------------------------------
(* The chain.                                                              *)

\* What pokeFees does with so much gas, if it does not revert.
Outcome(gas) ==
    IF ~seeded \/ ~hasShares THEN "returned early"
    ELSE IF ~posm \/ gas < FullGas THEN "swallowed"
    ELSE IF backlog = 0 THEN "empty"
    ELSE IF forfeit THEN "forfeited" ELSE "distributed"

Watching(t) == pc[t] \in {"estimating", "sending", "waiting", "rereading"}

PokeFees(gas) ==
    LET collects == Outcome(gas) \in {"empty", "forfeited", "distributed"}
    IN  /\ backlog' = IF collects THEN 0 ELSE backlog
        /\ forfeit' = (forfeit /\ ~collects)
        /\ moved' = [t \in Ticks |->
                        moved[t] \/ (Watching(t) /\ Outcome(gas) = "distributed")]
        /\ UNCHANGED <<seeded, hasShares, posm>>

\* A poke of the keeper is mined.  With less than CheapGas it reverts, and the
\* wait throws.
Mined(p) ==
    IF p.gas < CheapGas THEN UNCHANGED <<hookVars, moved>> ELSE PokeFees(p.gas)

Heard(p) ==
    IF p.by = Nobody THEN UNCHANGED <<keeperVars, receipt>>
    ELSE IF p.gas < CheapGas THEN EndTick(p.by, "poke failed") /\ UNCHANGED receipt
    ELSE /\ GoTo(p.by, "rereading")
         /\ receipt' = [receipt EXCEPT ![p.by] = Outcome(p.gas)]

Land ==
    /\ queue # << >> /\ ~stuck
    /\ \E p \in queue[1] : p.known /\ Mined(p) /\ Heard(p)
    /\ queue' = Tail(queue)
    /\ UNCHANGED <<stuck, counts>>

\* The node forgets a poke, which is then never mined.  wait() has no timeout,
\* so its tick hangs until another poke is mined under the nonce; if it is the
\* first tick the interval is never set and there is none.  Bound: some tick is
\* left to send that poke, as there always is while the interval runs.
Forget(i, p) ==
    /\ p.known
    /\ drops < MaxDrops
    /\ process = "first" => FirstMayHang
    /\ \E t \in Ticks : pc[t] # "waiting"
    /\ drops' = drops + 1
    /\ queue' = [queue EXCEPT ![i] = (@ \ {p}) \cup {[p EXCEPT !.known = FALSE]}]
    /\ stuck' = (stuck /\ i # 1)
    /\ UNCHANGED <<hookVars, keeperVars, moved, receipt, failures, outages>>

\* The price of gas rises above what the first poke pays, or falls again.
Reprice ==
    /\ ~Free(1)
    /\ stuck' = ~stuck
    /\ UNCHANGED <<hookVars, queue, keeperVars, moved, receipt, counts>>

Seed ==
    /\ ~seeded
    /\ seeded' = TRUE
    /\ UNCHANGED <<hasShares, forfeit, backlog, posm, moved>>

Accrue ==
    /\ seeded
    /\ backlog < MaxBacklog
    /\ backlog' = backlog + 1
    /\ UNCHANGED <<seeded, hasShares, forfeit, posm, moved>>

\* The first share appears, or the last one is burned.
TradeShares ==
    /\ hasShares' = ~hasShares
    /\ forfeit' = (forfeit \/ hasShares)
    /\ UNCHANGED <<seeded, backlog, posm, moved>>

World ==
    /\ Seed \/ Accrue \/ TradeShares \/ PokeFees(FullGas)
    /\ UNCHANGED <<queue, stuck, keeperVars, receipt, counts>>

\* POSM starts to refuse every collect, or accepts them again.
PosmFails ==
    /\ posm /\ outages < MaxOutages
    /\ posm' = FALSE
    /\ outages' = outages + 1
    /\ UNCHANGED <<seeded, hasShares, forfeit, backlog, queue, stuck, keeperVars, moved, receipt,
                   failures, drops>>

PosmRecovers ==
    /\ ~posm
    /\ posm' = TRUE
    /\ UNCHANGED <<seeded, hasShares, forfeit, backlog, queue, stuck, keeperVars, moved, receipt,
                   counts>>

Next ==
    \/ \E t \in Ticks : Tick(t) \/ RequestFails(t)
    \/ Land \/ Reprice
    \/ \E i \in DOMAIN queue : \E p \in queue[i] : Forget(i, p)
    \/ Stop \/ World \/ PosmFails \/ PosmRecovers

\* The event loop runs what is due, the wallet's first poke is mined if its fee
\* is high enough again and again, and an outage of POSM ends.
Spec ==
    /\ Init /\ [][Next]_vars
    /\ WF_vars(\E t \in Ticks : Tick(t))
    /\ SF_vars(Land)
    /\ WF_vars(PosmRecovers)

-----------------------------------------------------------------------------
(* Properties.                                                             *)

\* What a tick logs of its own poke is so, with other ticks and other people
\* poking between its readings: an alarm means a collect that was swallowed,
\* and "nothing to collect" that there was nothing, or nobody to have it.
LogIsTrue ==
    \A t \in Ticks :
        /\ said[t] = "ALARM" => receipt[t] = "swallowed"
        /\ said[t] = "nothing to collect" =>
              receipt[t] \in {"empty", "forfeited", "returned early"}
        /\ said[t] = "collected fees" => receipt[t] # "swallowed" /\ moved[t]

\* The keeper's purpose: as long as it runs with its own gas limit the backlog
\* is cleared again and again, whatever requests fail and although the node
\* forgets a poke.  The exception is a poke the node keeps and nobody mines,
\* because its fee stays too low: every later poke is behind it.
Keeping == process # "stopped" /\ mode = "loop" /\ gasArg = NoArg
BacklogCleared ==
    <>[]stuck \/ []<>(Keeping /\ seeded /\ hasShares => backlog = 0)
=============================================================================
