---------------------------- MODULE MCVirginMap ----------------------------
(* Model-checking instance of VirginMap: two workers, a two-byte bitmap   *)
(* with two bits per byte, so that a byte can be partly cleared (NewHit)  *)
(* as well as cleared for the first time (NewEdge).                       *)
EXTENDS VirginMap, TLC

CONSTANTS w1, w2

MCWorkers == {w1, w2}
MCIdx == 1..2
MCBits == {0, 1}

Symmetry == Permutations(MCWorkers)
=============================================================================
