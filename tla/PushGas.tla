------------------------------- MODULE PushGas -------------------------------
(***************************************************************************)
(* The plan of push-airdrop.mjs: what a row is taken to cost, how pending  *)
(* rows are packed into transactions, and the limit and floor of each.     *)
(* A row is an account and the amount the claims file lists for it; every  *)
(* proof has the same depth.                                               *)
(***************************************************************************)
EXTENDS Integers, Sequences, SequencesExt, FiniteSetsExt

CONSTANTS
    Unit,       \* one whole PRISM
    ProofDepth  \* elements in a proof

GasBase == 66000
GasPerNft == 78000
GasPoke == 70000
MaxRealign == 128
CalldataBase == 200
CalldataPerProof == 512
TxGasCap == 16777216
TxOverhead == 21000
FloorMin == 300000
LoopMargin == 100000

Nfts(amount) == Min({amount \div Unit, MaxRealign})

\* The execution of one row, and with its share of the calldata.
RowExecution(row) ==
    GasBase + Nfts(row[2]) * GasPerNft + (IF Nfts(row[2]) > 0 THEN GasPoke ELSE 0)
RowGas(row) == RowExecution(row) + CalldataBase + ProofDepth * CalldataPerProof

Total(costs) == FoldSeq(LAMBDA c, sum : c + sum, 0, costs)
RowGases(rows) == [k \in DOMAIN rows |-> RowGas(rows[k])]
Executions(rows) == [k \in DOMAIN rows |-> RowExecution(rows[k])]
WorstRow(rows) == Max({RowGas(rows[k]) : k \in DOMAIN rows})

GasFloor(rows) == Max({FloorMin, WorstRow(rows)})

\* Mutant: no headroom for the last row.
GasLimitTight(rows) == Total(RowGases(rows))

GasLimit(rows) ==
    Min({TxGasCap, Total(RowGases(rows)) + GasFloor(rows) + LoopMargin + TxOverhead})

\* What a transaction is charged before it executes: four words and the proof
\* for each row, at 16 gas a byte.
Intrinsic(rows) == TxOverhead + 16 * (4 + Len(rows) * (128 + 32 * ProofDepth))

\* Whether a row opens a new chunk after those in cur.
Overflows(cur, row, chunkGas) ==
    /\ cur # << >>
    /\ Total(RowGases(cur)) + RowGas(row) + WorstRow(Append(cur, row)) + LoopMargin
          > Min({chunkGas, TxGasCap - TxOverhead})

\* Each chunk takes rows from its first one on until the next overflows it.
Packed(rows, chunkGas) ==
    LET past(i) == Min({j \in (i + 1)..(Len(rows) + 1) :
                           \/ j > Len(rows)
                           \/ Overflows(SubSeq(rows, i, j - 1), rows[j], chunkGas)})
        from[i \in 1..(Len(rows) + 1)] ==
            IF i > Len(rows) THEN << >>
            ELSE << SubSeq(rows, i, past(i) - 1) >> \o from[past(i)]
    IN  from[1]

\* Rows that no transaction can hold, and chunks that cannot execute within
\* their own limit, have the plan refused before anything is sent.
Undeliverable(row) == RowGas(row) + TxOverhead > TxGasCap
Unfinishable(rows) == GasLimit(rows) - Intrinsic(rows) < Total(Executions(rows))

\* The plan for pending rows: the chunks, and whether it is refused.
Plan(rows, chunkGas) ==
    LET lists == Packed(rows, chunkGas)
    IN  [chunks |-> [k \in DOMAIN lists |->
                        [rows |-> lists[k], gas |-> GasLimit(lists[k]),
                         floor |-> GasFloor(lists[k])]],
         refused |-> \/ \E k \in DOMAIN rows : Undeliverable(rows[k])
                     \/ \E k \in DOMAIN lists : Unfinishable(lists[k])]
=============================================================================
