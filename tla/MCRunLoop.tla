----------------------------- MODULE MCRunLoop -----------------------------
(***************************************************************************)
(* Values for model-checking RunLoop.                                      *)
(***************************************************************************)
EXTENDS RunLoop

AllFaults == FaultKinds
=============================================================================
