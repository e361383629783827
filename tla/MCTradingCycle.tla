-------------------------- MODULE MCTradingCycle --------------------------
(***************************************************************************)
(* Fault sets and symmetry for model-checking TradingCycle.                *)
(***************************************************************************)
EXTENDS TradingCycle, TLC

NoFaults == {}
AllFaults == FaultKinds

\* No answer is wrong or lost.
AnsweredFaults == {"refused", "stale"}

MintSymmetry == Permutations(Mints)
=============================================================================
