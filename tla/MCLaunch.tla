------------------------------ MODULE MCLaunch ------------------------------
(* Launch for TLC: two salts, none of which means more than the other. *)
EXTENDS Launch, TLC

Symmetry == Permutations(Salts)

=============================================================================
