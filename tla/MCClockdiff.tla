---------------------------- MODULE MCClockdiff -----------------------------
(* Clockdiff for TLC: a day of 16 ms that begins shortly before midnight.   *)
EXTENDS Clockdiff

Slow == -4
=============================================================================
