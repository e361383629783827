----------------------------- MODULE SwapPromise -----------------------------
(***************************************************************************)
(* What one call of executor.buy or executor.sell promises its caller: it  *)
(* returns once, at most one swap moves tokens on its behalf, and none     *)
(* ever does when it answers that it did not try.  PositionExit and        *)
(* TradingCycle take a call as one step with these outcomes.               *)
(***************************************************************************)
EXTENDS Naturals

CONSTANT Fills   \* what a swap may move

VARIABLES
  live,    \* may this call trade
  outcome, \* what the caller has been told
  moved    \* tokens moved on chain, 0 if none

vars == <<live, outcome, moved>>

Outcomes ==
  { "pending",
    "refused",  \* failed, for certain without a swap
    "lost",     \* failed in /execute: the swap may land nevertheless
    "skipped",  \* dry run, or trading is disabled
    "success", "unknown" }

\* Answers after which nothing moves.
Nothing == {"refused", "skipped"}

Init == live \in BOOLEAN /\ outcome = "pending" /\ moved = 0

\* The chain takes its own time: before or after the answer.
Land ==
  /\ live /\ moved = 0 /\ outcome \notin Nothing
  /\ moved' \in Fills
  /\ UNCHANGED <<live, outcome>>

Return ==
  /\ outcome = "pending"
  /\ outcome' \in Outcomes \ {"pending"}
  /\ outcome' \in Nothing => moved = 0
  /\ outcome' \in {"success", "unknown", "lost"} => live
  /\ UNCHANGED <<live, moved>>

Next == Land \/ Return

Spec == Init /\ [][Next]_vars
=============================================================================
