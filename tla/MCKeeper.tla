------------------------------ MODULE MCKeeper -------------------------------
(* Keeper for TLC: two ticks at once, gas in thousands.                    *)
EXTENDS Keeper

CONSTANTS t1, t2, nobody

MCTicks == {t1, t2}
MCModes == {"loop", "once", "dry"}
MCGasArgs == {0, 1, 60}
=============================================================================
