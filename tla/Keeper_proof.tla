---------------------------- MODULE Keeper_proof -----------------------------
(***************************************************************************)
(* Proofs about Keeper, for any number of ticks at once, any gas and any   *)
(* number of failures: what a tick logs is so.  A receipt reaches the tick *)
(* that waits for it and no other, and what the accumulators did while it  *)
(* watched them includes what its own poke did.                            *)
(***************************************************************************)
EXTENDS Keeper, TLAPS

USE KeeperAssumption DEF KeeperAssumption

Results == {"returned early", "swallowed", "empty", "forfeited", "distributed"}

TypeInv ==
    /\ pc \in [Ticks -> {"idle", "checking", "counting", "reading", "estimating", "sending",
                         "waiting", "rereading"}]
    /\ moved \in [Ticks -> BOOLEAN]
    /\ receipt \in [Ticks -> Results \cup {"none"}]
    /\ said \in [Ticks -> {"none", "not seeded yet", "nothing to distribute to",
                           "would succeed", "poke failed", "ALARM", "collected fees",
                           "nothing to collect"}]
    /\ gasArg \in GasArgs
    /\ limit \in [Ticks -> Nat]

Pokes == [by : Ticks \cup {Nobody}, gas : Nat, known : BOOLEAN]

QueueInv == queue \in Seq(SUBSET Pokes)

\* A poke is waited for by a tick that waits, and each tick waits for one.
Awaited ==
    \A i \in DOMAIN queue : \A p \in queue[i] : p.by # Nobody =>
        /\ pc[p.by] = "waiting"
        /\ \A j \in DOMAIN queue : \A q \in queue[j] : q.by = p.by => j = i /\ q = p

\* Tick t waits for none.
Unawaited(t) == \A i \in DOMAIN queue : \A p \in queue[i] : p.by # t

\* A tick has logged nothing before its end.
Silent == \A t \in Ticks : pc[t] # "idle" => said[t] = "none"

\* A tick that rereads the accumulators has its receipt, and finds them moved
\* if its own poke moved them.
Informed ==
    \A t \in Ticks : pc[t] = "rereading" =>
        receipt[t] \in Results /\ (receipt[t] = "distributed" => moved[t])

IInv == TypeInv /\ QueueInv /\ Awaited /\ Silent /\ Informed /\ LogIsTrue

LEMMA InitIInv == Init => IInv
<1> SUFFICES ASSUME Init PROVE IInv
  OBVIOUS
<1>1. TypeInv /\ Silent /\ Informed /\ LogIsTrue
  BY DEF Init, TypeInv, Silent, Informed, LogIsTrue
<1>2. queue = << >>
  BY DEF Init
<1>3. QueueInv /\ Awaited
  BY <1>2 DEF QueueInv, Awaited
<1>4. QED
  BY <1>1, <1>3 DEF IInv

LEMMA OutcomeResults == \A gas : Outcome(gas) \in Results
BY DEF Outcome, Results

\* A tick that waits for no poke can go anywhere as far as pokes are concerned.
LEMMA AwaitedElsewhere ==
    ASSUME IInv, NEW t \in Ticks, Unawaited(t), NEW next,
           pc' = [pc EXCEPT ![t] = next], queue' = queue
    PROVE  QueueInv' /\ Awaited'
<1>1. \A u \in Ticks : u # t => pc'[u] = pc[u]
  BY DEF IInv, TypeInv
<1>2. \A i \in DOMAIN queue : \A p \in queue[i] : p.by \in Ticks \cup {Nobody}
  BY DEF IInv, QueueInv, Pokes
<1>3. QED
  BY <1>1, <1>2 DEF IInv, QueueInv, Awaited, Unawaited

\* So can one that does not wait.
LEMMA BusyTicks ==
    ASSUME IInv, NEW t \in Ticks, pc[t] # "waiting"
    PROVE  Unawaited(t)
BY DEF IInv, Awaited, Unawaited, KeeperAssumption

\* A tick that moves on to a place where it neither waits nor rereads, and
\* whose poke is not in the queue.
LEMMA GoOn ==
    ASSUME IInv, NEW t \in Ticks, NEW next \in {"counting", "reading", "estimating"},
           pc[t] \notin {"idle", "waiting"}, GoTo(t, next), UNCHANGED <<queue, moved, receipt>>
    PROVE  IInv'
<1>1. QueueInv' /\ Awaited'
  BY AwaitedElsewhere, BusyTicks DEF GoTo
<1>2. TypeInv' /\ Silent' /\ Informed' /\ LogIsTrue'
  BY DEF IInv, TypeInv, Silent, Informed, LogIsTrue, GoTo
<1>3. QED
  BY <1>1, <1>2 DEF IInv

\* A tick that ends with a line that claims nothing.
LEMMA EndQuietly ==
    ASSUME IInv, NEW t \in Ticks, Unawaited(t),
           NEW line \in {"not seeded yet", "nothing to distribute to", "would succeed",
                         "poke failed"},
           EndTick(t, line), UNCHANGED <<queue, moved, receipt>>
    PROVE  IInv'
<1>1. QueueInv' /\ Awaited'
  BY AwaitedElsewhere DEF EndTick
<1>2. TypeInv' /\ Silent' /\ Informed' /\ LogIsTrue'
  BY DEF IInv, TypeInv, Silent, Informed, LogIsTrue, EndTick
<1>3. QED
  BY <1>1, <1>2 DEF IInv

\* A new poke stands under the one nonce the node assigned it, and every other
\* stands where it did.
LEMMA NewPoke ==
    ASSUME QueueInv, NEW new \in Pokes, NEW i \in 1..(Len(queue) + 1)
    PROVE  /\ Queued(i, new) \in Seq(SUBSET Pokes)
           /\ \A j \in DOMAIN Queued(i, new) : \A p \in Queued(i, new)[j] :
                 \/ j = i /\ p = new
                 \/ j \in DOMAIN queue /\ p \in queue[j]
<1>1. queue \in Seq(SUBSET Pokes) /\ Len(queue) \in Nat /\ DOMAIN queue = 1..Len(queue)
  BY DEF QueueInv
<1>2. CASE i > Len(queue)
  <2>1. Queued(i, new) = Append(queue, {new}) /\ i = Len(queue) + 1
    BY <1>1, <1>2 DEF Queued
  <2>2. {new} \in SUBSET Pokes
    OBVIOUS
  <2>3. /\ Append(queue, {new}) \in Seq(SUBSET Pokes)
        /\ DOMAIN Append(queue, {new}) = 1..(Len(queue) + 1)
        /\ Append(queue, {new})[Len(queue) + 1] = {new}
        /\ \A j \in 1..Len(queue) : Append(queue, {new})[j] = queue[j]
    BY <1>1, <2>2
  <2>4. QED
    BY <1>1, <2>1, <2>3
<1>3. CASE ~(i > Len(queue))
  <2>1. i \in DOMAIN queue /\ Queued(i, new) = [queue EXCEPT ![i] = @ \cup {new}]
    BY <1>1, <1>3 DEF Queued
  <2>2. queue[i] \cup {new} \in SUBSET Pokes
    BY <1>1, <2>1
  <2>3. QED
    BY <1>1, <2>1, <2>2
<1>4. QED
  BY <1>2, <1>3

LEMMA SendKeeps ==
    ASSUME IInv, NEW t \in Ticks, Send(t)
    PROVE  IInv'
<1> DEFINE new == [by |-> t, gas |-> limit[t], known |-> TRUE]
<1>1. /\ pc[t] = "sending" /\ pc' = [pc EXCEPT ![t] = "waiting"]
      /\ UNCHANGED <<gasArg, limit, said, moved, receipt>>
  BY DEF Send, GoTo
<1>2. PICK i \in 1..(Len(queue) + 1) : queue' = Queued(i, new)
  BY DEF Send
<1>3. new \in Pokes /\ new.by = t
  BY DEF IInv, TypeInv, Pokes
<1> HIDE DEF new
<1>4. /\ queue' \in Seq(SUBSET Pokes)
      /\ \A j \in DOMAIN queue' : \A p \in queue'[j] :
            \/ j = i /\ p = new
            \/ j \in DOMAIN queue /\ p \in queue[j]
  BY <1>2, <1>3, NewPoke DEF IInv
<1>5. Unawaited(t)
  BY <1>1, BusyTicks
<1>6. \A u \in Ticks : pc'[u] = IF u = t THEN "waiting" ELSE pc[u]
  BY <1>1 DEF IInv, TypeInv
<1>7. \A j \in DOMAIN queue : \A p \in queue[j] : p.by \in Ticks \cup {Nobody}
  BY DEF IInv, QueueInv, Pokes
<1>8. Awaited'
  BY <1>3, <1>4, <1>5, <1>6, <1>7 DEF IInv, Awaited, Unawaited
<1>9. TypeInv' /\ QueueInv' /\ Silent' /\ Informed' /\ LogIsTrue'
  BY <1>1, <1>4 DEF IInv, TypeInv, QueueInv, Silent, Informed, LogIsTrue
<1>10. QED
  BY <1>8, <1>9 DEF IInv

LEMMA TickKeeps ==
    ASSUME IInv, NEW t \in Ticks, Tick(t)
    PROVE  IInv'
<1>1. CASE Start(t)
  <2>1. QueueInv' /\ Awaited'
    BY <1>1, AwaitedElsewhere, BusyTicks DEF Start
  <2>2. TypeInv' /\ Silent' /\ Informed' /\ LogIsTrue'
    BY <1>1 DEF Start, IInv, TypeInv, Silent, Informed, LogIsTrue
  <2>3. QED
    BY <2>1, <2>2 DEF IInv
<1>2. CASE CheckSeeded(t)
  BY <1>2, GoOn, EndQuietly, BusyTicks DEF CheckSeeded
<1>3. CASE CountShares(t)
  BY <1>3, GoOn, EndQuietly, BusyTicks DEF CountShares
<1>4. CASE ReadBefore(t)
  BY <1>4, GoOn, EndQuietly, BusyTicks DEF ReadBefore
<1>5. CASE Estimate(t)
  <2>1. QueueInv' /\ Awaited'
    BY <1>5, AwaitedElsewhere, BusyTicks DEF Estimate
  <2>2. ASSUME NEW est \in Nat PROVE GasLimit(est) \in Nat
    <3>1. gasArg \in GasArgs
      BY DEF IInv, TypeInv
    <3>2. gasArg \in Nat /\ FloorGas \in Nat
      BY <3>1
    <3>3. QED
      BY <3>2 DEF GasLimit
  <2>3. limit' \in [Ticks -> Nat]
    BY <1>5, <2>2 DEF Estimate, IInv, TypeInv
  <2>4. TypeInv' /\ Silent' /\ Informed' /\ LogIsTrue'
    BY <1>5, <2>3 DEF Estimate, IInv, TypeInv, Silent, Informed, LogIsTrue
  <2>5. QED
    BY <2>1, <2>4 DEF IInv
<1>6. CASE Send(t)
  BY <1>6, SendKeeps
<1>7. CASE Replaced(t)
  BY <1>7, EndQuietly DEF Replaced, Unawaited
<1>8. CASE ReadAfter(t)
  <2>1. /\ pc[t] = "rereading" /\ pc' = [pc EXCEPT ![t] = "idle"]
        /\ said' = [said EXCEPT ![t] = Report(t)]
        /\ limit' = [limit EXCEPT ![t] = 0]
        /\ UNCHANGED <<gasArg, queue, moved, receipt>>
    BY <1>8 DEF ReadAfter, EndTick
  <2>2. receipt[t] \in Results /\ (receipt[t] = "distributed" => moved[t])
    BY <2>1 DEF IInv, Informed
  <2>3. /\ Report(t) \in {"ALARM", "collected fees", "nothing to collect"}
        /\ Report(t) = "ALARM" => receipt[t] = "swallowed"
        /\ Report(t) = "nothing to collect" =>
              receipt[t] \in {"empty", "forfeited", "returned early"}
        /\ Report(t) = "collected fees" => receipt[t] # "swallowed" /\ moved[t]
    BY <2>2 DEF Report, Results
  <2>4. QueueInv' /\ Awaited'
    BY <2>1, AwaitedElsewhere, BusyTicks
  <2>5. TypeInv' /\ Silent' /\ Informed' /\ LogIsTrue'
    BY <2>1, <2>3 DEF IInv, TypeInv, Silent, Informed, LogIsTrue
  <2>6. QED
    BY <2>4, <2>5 DEF IInv
<1>9. QED
  BY <1>1, <1>2, <1>3, <1>4, <1>5, <1>6, <1>7, <1>8 DEF Tick

\* When ticks stop waiting, their pokes are waited for by nobody and those of
\* the others as before.
LEMMA UnwatchedKeeps ==
    ASSUME IInv, NEW S \in SUBSET Ticks, queue' = Unwatched(S),
           \A u \in Ticks \ S : pc'[u] = pc[u]
    PROVE  QueueInv' /\ Awaited'
<1> DEFINE Left(p) == [p EXCEPT !.by = IF @ \in S THEN Nobody ELSE @]
<1>1. queue \in Seq(SUBSET Pokes) /\ Len(queue) \in Nat /\ DOMAIN queue = 1..Len(queue)
  BY DEF IInv, QueueInv
<1>2. queue' = [i \in 1..Len(queue) |-> {Left(p) : p \in queue[i]}]
  BY <1>1 DEF Unwatched
<1>3. ASSUME NEW p \in Pokes
      PROVE  /\ Left(p) \in Pokes
             /\ Left(p).by = IF p.by \in S THEN Nobody ELSE p.by
             /\ p.by \in Ticks \cup {Nobody}
  <2>1. p = [by |-> p.by, gas |-> p.gas, known |-> p.known] /\ p.by \in Ticks \cup {Nobody}
    BY DEF Pokes
  <2>2. CASE p.by \in S
    <3>1. Left(p) = [by |-> Nobody, gas |-> p.gas, known |-> p.known]
      BY <2>1, <2>2
    <3>2. QED
      BY <2>1, <2>2, <3>1 DEF Pokes
  <2>3. CASE p.by \notin S
    <3>1. Left(p) = p
      BY <2>1, <2>3
    <3>2. QED
      BY <2>1, <2>3, <3>1
  <2>4. QED
    BY <2>2, <2>3
<1> HIDE DEF Left
<1>4. \A i \in 1..Len(queue) : {Left(p) : p \in queue[i]} \in SUBSET Pokes
  BY <1>1, <1>3
<1>5. queue' \in Seq(SUBSET Pokes) /\ DOMAIN queue' = DOMAIN queue
  BY <1>1, <1>2, <1>4
<1>6. ASSUME NEW i \in DOMAIN queue, NEW p \in queue[i], Left(p).by # Nobody
      PROVE  /\ Left(p).by = p.by /\ pc'[p.by] = "waiting"
             /\ \A j \in DOMAIN queue : \A q \in queue[j] :
                   Left(q).by = p.by => j = i /\ Left(q) = Left(p)
  <2> \A j \in DOMAIN queue : queue[j] \subseteq Pokes
    BY <1>1
  <2>1. p \in Pokes /\ Left(p).by = p.by /\ p.by \notin S /\ p.by # Nobody /\ p.by \in Ticks
    <3>1. p \in Pokes
      OBVIOUS
    <3>2. QED
      BY <1>3, <1>6, <3>1
  <2>2. pc'[p.by] = "waiting"
    BY <2>1 DEF IInv, Awaited
  <2>3. ASSUME NEW j \in DOMAIN queue, NEW q \in queue[j], Left(q).by = p.by
        PROVE  j = i /\ Left(q) = Left(p)
    <3>1. q \in Pokes
      OBVIOUS
    <3>2. q.by = p.by
      BY <1>3, <2>1, <2>3, <3>1
    <3>3. j = i /\ q = p
      BY <2>1, <3>2 DEF IInv, Awaited
    <3>4. QED
      BY <3>3
  <2>4. QED
    BY <2>1, <2>2, <2>3
<1>7. \A i \in DOMAIN queue : queue'[i] = {Left(p) : p \in queue[i]}
  BY <1>1, <1>2
<1>8. Awaited'
  BY <1>5, <1>6, <1>7 DEF Awaited
<1>9. QED
  BY <1>5, <1>8 DEF QueueInv

\* A request that fails leaves a poke that nobody waits for.
LEMMA FailureKeeps ==
    ASSUME IInv, NEW t \in Ticks, RequestFails(t)
    PROVE  IInv'
<1>1. /\ pc' = [pc EXCEPT ![t] = "idle"]
      /\ said' = [said EXCEPT ![t] = "poke failed"]
      /\ limit' = [limit EXCEPT ![t] = 0]
      /\ queue' = Unwatched({t})
      /\ UNCHANGED <<gasArg, moved, receipt>>
  BY DEF RequestFails, EndTick
<1>2. \A u \in Ticks \ {t} : pc'[u] = pc[u]
  BY <1>1 DEF IInv, TypeInv
<1>3. QueueInv' /\ Awaited'
  BY <1>1, <1>2, UnwatchedKeeps
<1>4. TypeInv' /\ Silent' /\ Informed' /\ LogIsTrue'
  BY <1>1 DEF IInv, TypeInv, Silent, Informed, LogIsTrue
<1>5. QED
  BY <1>3, <1>4 DEF IInv

LEMMA StopKeeps ==
    ASSUME IInv, Stop
    PROVE  IInv'
<1>1. /\ pc' = [t \in Ticks |-> "idle"]
      /\ limit' = [t \in Ticks |-> 0]
      /\ queue' = Unwatched(Ticks)
      /\ UNCHANGED <<gasArg, said, moved, receipt>>
  BY DEF Stop
<1>2. QueueInv' /\ Awaited'
  BY <1>1, UnwatchedKeeps
<1>3. TypeInv' /\ Silent' /\ Informed' /\ LogIsTrue'
  BY <1>1 DEF IInv, TypeInv, Silent, Informed, LogIsTrue
<1>4. QED
  BY <1>2, <1>3 DEF IInv

\* Whoever pokes, what watching ticks see of the accumulators only grows.
LEMMA PokeGrows ==
    ASSUME IInv, NEW gas, PokeFees(gas)
    PROVE  /\ moved' \in [Ticks -> BOOLEAN]
           /\ \A t \in Ticks : moved[t] => moved'[t]
           /\ \A t \in Ticks : pc[t] = "waiting" /\ Outcome(gas) = "distributed" => moved'[t]
<1>1. moved' = [t \in Ticks |-> moved[t] \/ (Watching(t) /\ Outcome(gas) = "distributed")]
  BY DEF PokeFees
<1>2. \A t \in Ticks : moved[t] \in BOOLEAN
  BY DEF IInv, TypeInv
<1>3. QED
  BY <1>1, <1>2 DEF Watching

\* Steps that leave the ticks where they are, and the accumulators no lower.
LEMMA WorldKeeps ==
    ASSUME IInv, UNCHANGED <<pc, gasArg, limit, said, receipt>>, QueueInv', Awaited',
           moved' \in [Ticks -> BOOLEAN], \A t \in Ticks : moved[t] => moved'[t]
    PROVE  IInv'
<1>1. TypeInv' /\ Silent'
  BY DEF IInv, TypeInv, Silent
<1>2. Informed'
  BY DEF IInv, Informed
<1>3. ASSUME NEW t \in Ticks
      PROVE  /\ said[t] = "ALARM" => receipt[t] = "swallowed"
             /\ said[t] = "nothing to collect" =>
                   receipt[t] \in {"empty", "forfeited", "returned early"}
             /\ said[t] = "collected fees" => receipt[t] # "swallowed" /\ moved'[t]
  BY DEF IInv, LogIsTrue
<1>4. QED
  BY <1>1, <1>2, <1>3 DEF IInv, LogIsTrue

LEMMA SameQueue ==
    ASSUME IInv, UNCHANGED <<pc, queue>>
    PROVE  QueueInv' /\ Awaited'
BY DEF IInv, QueueInv, Awaited

\* A forgotten poke keeps its place and its tick.
LEMMA ForgetKeeps ==
    ASSUME IInv, NEW i \in DOMAIN queue, NEW p \in queue[i], Forget(i, p)
    PROVE  IInv'
<1> DEFINE left == [p EXCEPT !.known = FALSE]
<1>1. /\ queue' = [queue EXCEPT ![i] = (@ \ {p}) \cup {left}]
      /\ UNCHANGED <<pc, gasArg, limit, said, receipt, moved>>
  BY DEF Forget, keeperVars
<1>2. /\ queue \in Seq(SUBSET Pokes) /\ Len(queue) \in Nat /\ DOMAIN queue = 1..Len(queue)
      /\ p \in Pokes
  BY DEF IInv, QueueInv
<1>3. left \in Pokes /\ left.by = p.by
  BY <1>2 DEF Pokes
<1> HIDE DEF left
<1>4. (queue[i] \ {p}) \cup {left} \in SUBSET Pokes
  BY <1>2, <1>3
<1>5. queue' \in Seq(SUBSET Pokes) /\ DOMAIN queue' = DOMAIN queue
  BY <1>1, <1>2, <1>4
<1>6. \A j \in DOMAIN queue : \A q \in queue'[j] :
         (j = i /\ q = left) \/ (q \in queue[j] /\ ~(j = i /\ q = p))
  BY <1>1, <1>2
<1>7. Awaited'
  <2>1. ASSUME NEW j \in DOMAIN queue, NEW q \in queue'[j], q.by # Nobody
        PROVE  /\ pc[q.by] = "waiting"
               /\ \A k \in DOMAIN queue : \A r \in queue'[k] : r.by = q.by => k = j /\ r = q
    <3>1. CASE j = i /\ q = left
      <4>1. /\ p.by # Nobody /\ pc[p.by] = "waiting"
            /\ \A k \in DOMAIN queue : \A r \in queue[k] : r.by = p.by => k = i /\ r = p
        BY <1>3, <2>1, <3>1 DEF IInv, Awaited
      <4>2. QED
        BY <1>3, <1>6, <3>1, <4>1
    <3>2. CASE q \in queue[j] /\ ~(j = i /\ q = p)
      <4>1. /\ pc[q.by] = "waiting"
            /\ \A k \in DOMAIN queue : \A r \in queue[k] : r.by = q.by => k = j /\ r = q
        BY <2>1, <3>2 DEF IInv, Awaited
      <4>2. left.by # q.by
        BY <1>3, <3>2, <4>1
      <4>3. QED
        BY <1>6, <4>1, <4>2
    <3>3. QED
      BY <1>6, <2>1, <3>1, <3>2
  <2>2. QED
    BY <1>1, <1>5, <2>1 DEF Awaited
<1>8. QED
  BY <1>1, <1>5, <1>7, WorldKeeps DEF IInv, TypeInv, QueueInv

LEMMA LandKeeps ==
    ASSUME IInv, Land
    PROVE  IInv'
<1>1. /\ queue # << >> /\ queue' = Tail(queue)
      /\ queue \in Seq(SUBSET Pokes) /\ Len(queue) \in Nat /\ DOMAIN queue = 1..Len(queue)
  BY DEF Land, IInv, QueueInv
<1>2. PICK p \in queue[1] : Mined(p) /\ Heard(p)
  BY DEF Land
<1>3. /\ 1 \in DOMAIN queue /\ p \in Pokes
      /\ p.by \in Ticks \cup {Nobody}
  BY <1>1, <1>2 DEF Pokes
<1>4. QueueInv'
  BY <1>1 DEF QueueInv
<1>5. \A j \in DOMAIN queue' : j + 1 \in DOMAIN queue /\ j + 1 # 1 /\ queue'[j] = queue[j + 1]
  BY <1>1
<1>6. /\ moved' \in [Ticks -> BOOLEAN]
      /\ \A t \in Ticks : moved[t] => moved'[t]
  BY <1>2, PokeGrows DEF Mined, IInv, TypeInv
<1>7. CASE p.by = Nobody
  <2>1. UNCHANGED <<pc, gasArg, limit, said, receipt>>
    BY <1>2, <1>7 DEF Heard, keeperVars
  <2>2. Awaited'
    <3>1. ASSUME NEW j \in DOMAIN queue', NEW q \in queue'[j], q.by # Nobody
          PROVE  /\ pc'[q.by] = "waiting"
                 /\ \A k \in DOMAIN queue' : \A r \in queue'[k] : r.by = q.by => k = j /\ r = q
      <4>1. /\ pc[q.by] = "waiting"
            /\ \A k \in DOMAIN queue : \A r \in queue[k] : r.by = q.by => k = j + 1 /\ r = q
        BY <1>5, <3>1 DEF IInv, Awaited
      <4>2. ASSUME NEW k \in DOMAIN queue', NEW r \in queue'[k], r.by = q.by
            PROVE  k = j /\ r = q
        <5>1. k + 1 = j + 1 /\ r = q
          BY <1>5, <4>1, <4>2
        <5>2. k \in Int /\ j \in Int
          BY <1>1
        <5>3. QED
          BY <5>1, <5>2
      <4>3. QED
        BY <2>1, <4>1, <4>2
    <3>2. QED
      BY <3>1 DEF Awaited
  <2>3. QED
    BY <1>4, <1>6, <2>1, <2>2, WorldKeeps
<1>8. CASE p.by # Nobody
  <2> DEFINE t == p.by
  <2>1. /\ t \in Ticks /\ t # Nobody /\ pc[t] = "waiting" /\ said[t] = "none"
        /\ \A j \in DOMAIN queue : \A q \in queue[j] : q.by = t => j = 1
    BY <1>3, <1>8 DEF IInv, TypeInv, Awaited, Silent
  <2> HIDE DEF t
  <2>2. \A u \in Ticks \ {t} : pc'[u] = pc[u]
    BY <1>2, <1>8 DEF Heard, EndTick, GoTo, t, IInv, TypeInv
  <2>3. Awaited'
    <3>1. ASSUME NEW j \in DOMAIN queue', NEW q \in queue'[j], q.by # Nobody
          PROVE  /\ pc'[q.by] = "waiting"
                 /\ \A k \in DOMAIN queue' : \A r \in queue'[k] : r.by = q.by => k = j /\ r = q
      <4>1. /\ pc[q.by] = "waiting"
            /\ \A k \in DOMAIN queue : \A r \in queue[k] : r.by = q.by => k = j + 1 /\ r = q
        BY <1>5, <3>1 DEF IInv, Awaited
      <4>2. q.by # t
        BY <1>5, <2>1, <3>1
      <4>3. q.by \in Ticks
        BY <1>1, <1>5, <3>1 DEF Pokes
      <4>4. ASSUME NEW k \in DOMAIN queue', NEW r \in queue'[k], r.by = q.by
            PROVE  k = j /\ r = q
        <5>1. k + 1 = j + 1 /\ r = q
          BY <1>5, <4>1, <4>4
        <5>2. k \in Int /\ j \in Int
          BY <1>1
        <5>3. QED
          BY <5>1, <5>2
      <4>5. QED
        BY <2>2, <4>1, <4>2, <4>3, <4>4
    <3>2. QED
      BY <3>1 DEF Awaited
  <2>4. CASE p.gas < CheapGas
    <3>1. /\ pc' = [pc EXCEPT ![t] = "idle"]
          /\ said' = [said EXCEPT ![t] = "poke failed"]
          /\ limit' = [limit EXCEPT ![t] = 0]
          /\ UNCHANGED <<gasArg, receipt>>
      BY <1>2, <1>8, <2>4 DEF Heard, EndTick, t
    <3>2. TypeInv' /\ Silent'
      BY <1>6, <2>1, <3>1 DEF IInv, TypeInv, Silent
    <3>3. Informed' /\ LogIsTrue'
      BY <1>6, <2>1, <3>1 DEF IInv, TypeInv, Informed, LogIsTrue
    <3>4. QED
      BY <1>4, <2>3, <3>2, <3>3 DEF IInv
  <2>5. CASE ~(p.gas < CheapGas)
    <3>1. /\ pc' = [pc EXCEPT ![t] = "rereading"]
          /\ UNCHANGED <<gasArg, limit, said>>
          /\ receipt' = [receipt EXCEPT ![t] = Outcome(p.gas)]
      BY <1>2, <1>8, <2>5 DEF Heard, GoTo, t
    <3>2. Outcome(p.gas) \in Results
      BY OutcomeResults
    <3>3. Outcome(p.gas) = "distributed" => moved'[t]
      BY <1>2, <2>1, <2>5, PokeGrows DEF Mined
    <3>4. TypeInv' /\ Silent'
      BY <1>6, <2>1, <3>1, <3>2 DEF IInv, TypeInv, Silent
    <3>5. Informed' /\ LogIsTrue'
      BY <1>6, <2>1, <3>1, <3>2, <3>3 DEF IInv, TypeInv, Informed, LogIsTrue
    <3>6. QED
      BY <1>4, <2>3, <3>4, <3>5 DEF IInv
  <2>6. QED
    BY <2>4, <2>5
<1>9. QED
  BY <1>7, <1>8

LEMMA StepKeeps ==
    ASSUME IInv, [Next]_vars
    PROVE  IInv'
<1>1. moved \in [Ticks -> BOOLEAN]
  BY DEF IInv, TypeInv
<1>2. ASSUME NEW t \in Ticks, Tick(t) \/ RequestFails(t) PROVE IInv'
  BY <1>2, TickKeeps, FailureKeeps
<1>3. CASE Land
  BY <1>3, LandKeeps
<1>4. ASSUME NEW i \in DOMAIN queue, NEW p \in queue[i], Forget(i, p) PROVE IInv'
  BY <1>4, ForgetKeeps
<1>5. CASE Stop
  BY <1>5, StopKeeps
<1>6. CASE World
  <2>1. UNCHANGED <<queue, pc, gasArg, limit, said, receipt>>
    BY <1>6 DEF World, keeperVars
  <2>2. moved' \in [Ticks -> BOOLEAN] /\ \A t \in Ticks : moved[t] => moved'[t]
    BY <1>1, <1>6, PokeGrows DEF World, Seed, Accrue, TradeShares
  <2>3. QED
    BY <2>1, <2>2, SameQueue, WorldKeeps
<1>7. CASE Reprice \/ PosmFails \/ PosmRecovers
  BY <1>1, <1>7, SameQueue, WorldKeeps DEF Reprice, PosmFails, PosmRecovers, keeperVars
<1>8. CASE UNCHANGED vars
  BY <1>1, <1>8, SameQueue, WorldKeeps DEF vars, keeperVars
<1>9. QED
  BY <1>2, <1>3, <1>4, <1>5, <1>6, <1>7, <1>8 DEF Next

\* What a tick logs is so in every reachable state, however ticks overlap,
\* requests fail and others poke (tick, 97-146).
THEOREM LogTrue == Spec => []LogIsTrue
<1>1. Init => IInv
  BY InitIInv
<1>2. IInv /\ [Next]_vars => IInv'
  BY StepKeeps
<1>3. IInv => LogIsTrue
  BY DEF IInv
<1>4. QED
  BY <1>1, <1>2, <1>3, PTL DEF Spec
=============================================================================
