---------------------------- MODULE PinRegister -----------------------------
(***************************************************************************)
(* What the pin file promises its users: one register that holds no key or *)
(* one whole key, takes a key only while it holds none (trust on first     *)
(* use), and is emptied only by the user.                                  *)
(***************************************************************************)
CONSTANTS Keys, NoKey

VARIABLE reg

Init == reg = NoKey

Learn(k) == reg = NoKey /\ reg' = k

Forget == reg # NoKey /\ reg' = NoKey

Next == Forget \/ \E k \in Keys : Learn(k)

Spec == Init /\ [][Next]_reg
=============================================================================
