----------------------------- MODULE MCPinStore -----------------------------
(* Instances of PinStore for TLC.                                           *)
EXTENDS PinStore

CONSTANTS p1, p2, k1, k2, i1, i2, i3, none
=============================================================================
