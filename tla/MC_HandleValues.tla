--------------------------- MODULE MC_HandleValues ---------------------------
(* Conditions, and addresses, differ by name only.                          *)
EXTENDS HandleValues, TLC
MCSymmetry == Permutations(Conds) \cup Permutations(Addrs)
=============================================================================
