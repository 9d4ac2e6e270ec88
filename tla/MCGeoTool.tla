----------------------------- MODULE MCGeoTool -----------------------------
(* Instances of GeoTool for TLC: two SEP keys and a handful of command     *)
(* lines of each tool.                                                     *)
EXTENDS GeoTool

CONSTANTS k1, k2, none

Line(t, a) == [tool |-> t, argv |-> a]

\* Command lines that give at most one position.
Usual == {
    Line("bping", <<"dest">>),
    Line("bping", <<"--target-ecef", "dest">>),
    Line("bping", <<"--my-ecef", "--target-ecef", "dest">>),
    Line("bping", <<"--my-ecef", "--my-ecef=bad", "dest", "--target-coord">>),
    Line("bping", <<"dest", "--reset-brightlink-pin">>),
    Line("btraceroute", <<"dest">>),
    Line("btraceroute", <<"--my-coord", "dest">>),
    Line("bmtr", <<"--my-ecef", "dest">>),
    Line("bmtr", <<"--help">>),
    Line("bmtr", <<"--my-coord">>),
    Line("baudit", <<"dest">>),
    Line("baudit", <<"anchor-out", "dest", "--my-coord">>),
    Line("baudit", <<"--my-coord", "anchor-in", "anchor-in", "anchor-out", "dest">>)}

\* Both positions on one command line.
Both == {Line("btraceroute", <<"--my-ecef", "--my-coord", "dest">>)}

\* No position on the command line.
Plain == {Line("btraceroute", <<"dest">>)}

\* More anchors than there is room for.
ManyAnchors == {Line("baudit", <<"anchor-in", "anchor-in", "--my-coord", "dest">>)}
=============================================================================
