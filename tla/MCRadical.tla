---------------------------- MODULE MCRadical ----------------------------
(* The change list for TLC.  Nodes and walkers are interchangeable.        *)
EXTENDS Radical, TLC

RadicalSymmetry == Permutations(Route) \cup Permutations(Walker)
============================================================================
