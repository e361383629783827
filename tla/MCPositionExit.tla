--------------------------- MODULE MCPositionExit ---------------------------
(***************************************************************************)
(* Fault sets for model-checking PositionExit.                             *)
(***************************************************************************)
EXTENDS PositionExit

NoFaults == {}

\* The recovery never reads an invented balance, and an answered swap landed.
HonestFaults == FaultKinds \ {"unlanded_reply", "recovery_error"}

\* No answer is lost and no proceeds are missing.
ExactFaults == {"refused", "threshold", "unlanded_reply"}

Mode(live, sell) == [live |-> live, sell |-> sell]

LiveLadder == {Mode(TRUE, "ladder")}
LiveDrip == {Mode(TRUE, "drip")}
LiveAny == {m \in AllModes : m.live}

\* The operator may restart a live drip as a dry run, and back.
DripLiveOrDry == {Mode(TRUE, "drip"), Mode(FALSE, "drip")}
=============================================================================
