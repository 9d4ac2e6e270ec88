----------------------------- MODULE MCHopTool -----------------------------
(* Instances of HopTool for TLC: a table of two hops, a window of two      *)
(* samples, and -m and -c below, at and above their limits.                *)
EXTENDS HopTool

Line(t, m, c, r) == [tool |-> t, m |-> m, c |-> c, report |-> r]

Usual == {
    Line("btraceroute", 1, 0, FALSE),
    Line("btraceroute", 3, 0, FALSE),
    Line("bmtr", 0, 3, TRUE),
    Line("bmtr", 1, 3, FALSE),
    Line("bmtr", 3, 2, FALSE),
    Line("bmtr", 2, 0, FALSE),
    Line("bmtr", 2, -1, TRUE)}

\* One hop, probed more often than the window holds.
Long == {Line("bmtr", 1, 3, TRUE)}
=============================================================================
