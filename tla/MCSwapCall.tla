----------------------------- MODULE MCSwapCall -----------------------------
(***************************************************************************)
(* Values for model-checking SwapCall.                                     *)
(***************************************************************************)
EXTENDS SwapCall

AllFaults == FaultKinds
ReadsBySide == [buy |-> 3, sell |-> 6]
=============================================================================
