--------------------------- MODULE MCLaunchConfig ---------------------------
(* LaunchConfig for TLC: snapshots that share leaves with the shipped one, *)
(* name a pair at the excepted amount and above it, repeat an account, or  *)
(* hold nothing; prices from worthless to absurd around the launch tick.      *)
EXTENDS LaunchConfig

CONSTANTS alice, bob, pair

MCForbidden == {pair}
MCGrandfathered == [a \in {pair} |-> 1]
MCShipped == [a \in {alice, pair} |-> IF a = alice THEN 3000 ELSE 1]
MCSnapshots ==
    { << <<alice, 3000>>, <<bob, 1400>> >>,
      << <<alice, 3000>>, <<pair, 25>> >>,
      << <<alice, 3000>>, <<alice, 1>> >>,
      << <<bob, 0>> >> }

MCSqrtPrice ==
    [t \in {-4436, 224, 227, 4436} |->
        CASE t = -4436 -> 5 [] t = 224 -> 1000
          [] t = 227 -> 1050 [] t = 4436 -> 2000000]
MCTicks == DOMAIN MCSqrtPrice
MCMinTick == -4436
MCLowers == {-4436}
MCSeedArgs == {None, 1800}

\* What the proof of PriceIsDeclared assumes is true of the table above.
ASSUME MCFineTicks == FineTicks
=============================================================================
