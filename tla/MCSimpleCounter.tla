-------------------------- MODULE MCSimpleCounter --------------------------
(* Instantiation of SimpleCounter for TLC.                                 *)
EXTENDS SimpleCounterWeights, TLC

CONSTANTS a1, a2

MCAccounts == {a1, a2}

\* AccountIds are opaque: permuting them maps behaviours to behaviours.
AccountSymmetry == Permutations(MCAccounts)
=============================================================================
