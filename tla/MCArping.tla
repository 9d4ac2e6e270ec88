------------------------------ MODULE MCArping ------------------------------
(* Arping for TLC: the command lines of each run.                           *)
EXTENDS Arping

Plain ==
    [count |-> 2, timeout |-> 0, interval |-> 1, dad |-> FALSE, quit |-> FALSE,
     unsolicited |-> FALSE, brd |-> FALSE]

(* -c 2 -w 3; -b -c 2; -D -w 2; -U -c 2; -w 3.                              *)
Usual ==
    {[Plain EXCEPT !.timeout = 3],
     [Plain EXCEPT !.brd = TRUE],
     [Plain EXCEPT !.count = NoCount, !.timeout = 2, !.dad = TRUE, !.quit = TRUE],
     [Plain EXCEPT !.unsolicited = TRUE],
     [Plain EXCEPT !.count = NoCount, !.timeout = 3]}

(* -c 1 -w 4                                                                *)
CountAndDeadline == {[Plain EXCEPT !.count = 1, !.timeout = 4]}
=============================================================================
