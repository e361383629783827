--------------------------- MODULE MCDiscoveryGate ---------------------------
(***************************************************************************)
(* Symmetry for model-checking DiscoveryGate.                              *)
(***************************************************************************)
EXTENDS DiscoveryGate, TLC

TokenSymmetry == Permutations(Tokens)
=============================================================================
