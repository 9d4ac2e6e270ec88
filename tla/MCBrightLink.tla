---------------------------- MODULE MCBrightLink ----------------------------
(* Instances of BrightLink for TLC: two SEP keys, so that a bridge can come *)
(* back with the old identity or a new one.                                 *)
EXTENDS BrightLink, TLC

CONSTANTS k1, k2, none

Symmetry == Permutations({k1, k2})
=============================================================================
