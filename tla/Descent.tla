------------------------------ MODULE Descent ------------------------------
(***************************************************************************)
(* The lexicographic order of tuples of one length, where the component    *)
(* that falls stays a natural number.  It has no infinite descent: a       *)
(* system whose every step takes such a tuple to a lesser one comes to     *)
(* rest, however its steps are scheduled.                                  *)
(***************************************************************************)
EXTENDS Integers, Sequences

LexLess(r, s) ==
    \E k \in 1..Len(s) :
        r[k] \in 0..(s[k] - 1) /\ \A j \in 1..(k - 1) : r[j] = s[j]
============================================================================
