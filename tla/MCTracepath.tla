---------------------------- MODULE MCTracepath -----------------------------
(* Tracepath for TLC: paths of three links, either all alike or each        *)
(* narrower than the one before, so that the MTU shrinks twice on the way.  *)
EXTENDS Tracepath

Narrowing == <<6, 4, 2>>
Wide == <<4, 4, 4>>
=============================================================================
