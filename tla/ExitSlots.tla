------------------------------ MODULE ExitSlots ------------------------------
(***************************************************************************)
(* What the rest of the trader can see of a position: whether its mint     *)
(* occupies a slot of open_positions, and which safety rail it counts for. *)
(* PositionExit is shown to move a position between slots only as stated   *)
(* here; TradingCycle builds on these moves and leaves the exit itself to  *)
(* PositionExit.                                                           *)
(***************************************************************************)

Slots ==
  { "none",        \* not in open_positions
    "open",        \* OPEN, PARTIAL
    "unconfirmed", \* RECONCILE_PENDING in the entry context
    "exiting",     \* EXIT_PENDING, RECONCILE_PENDING in the exit context
    "blocked",     \* EXIT_BLOCKED, never tried again
    "threshold" }  \* EXIT_BLOCKED, tried again in every cycle

\* Slots in which _mark_positions may leave a position it finds in slot s.
VisitMoves(s) ==
  CASE s = "open" -> {"open", "exiting", "blocked", "threshold", "none"}
    [] s = "unconfirmed" -> Slots
    [] s = "exiting" -> {"open", "exiting", "blocked", "threshold", "none"}
    [] s = "threshold" -> {"open", "exiting", "threshold", "none"}
    [] s = "blocked" -> {"blocked"}
    [] s = "none" -> {"none"}

\* The same, knowing what the exit rules ask of the visit: an open position is left alone
\* unless they ask for a sale, and only the time stop sells an unconfirmed entry.
SignalMoves(s, signal) ==
  CASE s = "open" /\ signal = "none" -> {"open"}
    [] s = "unconfirmed" /\ signal = "hard" -> VisitMoves("open")
    [] s = "unconfirmed" /\ signal # "hard" -> {"open", "unconfirmed"}
    [] OTHER -> VisitMoves(s)

\* Slots in which a failed sale leaves a position it was tried for in slot s: a reason
\* left by an earlier threshold failure survives the failure.
FailedMoves(s) ==
  CASE s = "threshold" -> {"threshold"}
    [] s = "exiting" -> {"blocked", "threshold"}
    [] OTHER -> {"blocked"}

\* Slots in which run_startup_recovery may leave a position it finds in slot s.  An
\* earlier threshold failure may have left its reason behind.
RecoveryMoves(s) ==
  CASE s = "open" -> {"open", "blocked", "threshold"}
    [] s = "exiting" -> {"exiting", "open", "blocked", "threshold", "none"}
    [] OTHER -> {s}
=============================================================================
