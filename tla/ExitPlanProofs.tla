--------------------------- MODULE ExitPlanProofs ---------------------------
(***************************************************************************)
(* What one exit does from its signal to its end, proved about             *)
(* PositionExit for every value of its constants: it sells no more than it *)
(* was started for, its books are exact, it runs out of attempts, and no   *)
(* visit leaves a position that the next one could not handle.  Each       *)
(* theorem names the faults it excludes; each of them does break it.       *)
(***************************************************************************)
EXTENDS PositionExitProofs

(***************************************************************************)
(* The plan.  Reads may fail, swaps may be answered and not land, proceeds *)
(* may be unknown.  But a read that comes is current, and an answer may    *)
(* only be lost where a position blocked by the loss stays blocked: with   *)
(* threshold failures as well it may be sold a second time.                *)
(***************************************************************************)
CurrentReads ==
  /\ "read_lag" \notin Faults /\ "read_error" \notin Faults
  /\ "lost_reply" \in Faults => "threshold" \notin Faults
  /\ MaxCrashes = 0

\* The exits whose pending quantity may still be sold.
Holding(p) == Exiting(p) \/ (p.status = "EXIT_BLOCKED" /\ p.reason = "threshold")

PlanFor(p, allowance) ==
  /\ allowance >= 0
  /\ Holding(p) => p.pendingQty <= allowance
  /\ p.reason = "threshold" => "threshold" \in Faults

PlanInv == OrderlyInv /\ PlanFor(pos, plan)

LEMMA ReadsAreCurrent ==
  ASSUME CurrentReads
  PROVE  \A held, after : /\ Reads(held) \subseteq {held, NoRead}
                          /\ ReadsAfterSale(held, after) \subseteq {after, NoRead}
  BY DEF CurrentReads, Reads, ReadsAfterSale

\* A request is never for more than what is pending.
LEMMA WantedPending ==
  ASSUME NEW p \in Position, DripReady(p), p.pendingQty > 0, NEW q \in Wanted(p)
  PROVE  q \in 0..p.remaining /\ q <= p.pendingQty
<1> USE QtyAssumption, PercentAssumption
<1>1. p.remaining \in Nat /\ p.pendingQty \in Nat /\ p.dripLeft \in Nat
  BY DEF Position
<1>2. q \in 0..p.remaining
  BY WantedBounded
<1>3. CASE p.drip
  <2>1. p.dripLeft = p.pendingQty
    BY <1>3 DEF DripReady
  <2>2. CASE q = Smaller(p.pendingQty, p.remaining)
    BY <1>1, <2>2 DEF Smaller
  <2>3. ASSUME NEW pct \in ChunkPcts,
               q = Smaller(Part(p.remaining, pct), Smaller(p.remaining, p.dripLeft))
        PROVE  q <= p.pendingQty
    <3>1. Part(p.remaining, pct) \in Nat
      BY <1>1, PartType
    <3> QED BY <1>1, <2>1, <2>3, <3>1 DEF Smaller
  <2> QED BY <1>1, <1>2, <1>3, <2>1, <2>2, <2>3 DEF Wanted
<1>4. CASE ~p.drip
  BY <1>1, <1>2, <1>4 DEF Wanted, Smaller
<1> QED BY <1>2, <1>3, <1>4

\* What a failed attempt leaves pending is what was pending, or what was asked for.
LEMMA FailuresKeepPlan ==
  ASSUME NEW p \in Position, NEW allowance \in Int, PlanFor(p, allowance),
         p.pendingQty <= allowance, NEW q \in Nat, q <= allowance, NEW sig
  PROVE  /\ PlanFor(ReconcileExit(p), allowance)
         /\ PlanFor(UnconfirmedSale(p, sig), allowance)
         /\ PlanFor(FailedSale(p), allowance)
         /\ "threshold" \in Faults => PlanFor(ThresholdFailure(p, q), allowance)
         /\ PlanFor(SkippedSale(p), allowance)
<1>1. ASSUME NEW r, r.pendingQty \in {p.pendingQty, q},
             r.reason = p.reason \/ "threshold" \in Faults
      PROVE  PlanFor(r, allowance)
  BY <1>1 DEF PlanFor
<1>2. ReconcileExit(p).pendingQty = p.pendingQty /\ ReconcileExit(p).reason = p.reason
  BY DEF Position, ReconcileExit, ClearDrip
<1>3. /\ UnconfirmedSale(p, sig).pendingQty = p.pendingQty
      /\ UnconfirmedSale(p, sig).reason = p.reason
  BY DEF Position, UnconfirmedSale, ReconcileExit, ClearDrip
<1>4. FailedSale(p).pendingQty = p.pendingQty /\ FailedSale(p).reason = p.reason
  BY DEF Position, FailedSale, ClearDrip
<1>5. ThresholdFailure(p, q).pendingQty = q
  BY DEF Position, ThresholdFailure, ClearDrip
<1>6. SkippedSale(p).pendingQty = p.pendingQty /\ SkippedSale(p).reason = p.reason
  BY DEF Position, SkippedSale, ClearDrip
<1> QED BY <1>1, <1>2, <1>3, <1>4, <1>5, <1>6

\* A sale that nobody learns of leaves a position that is not sold again.
LEMMA LostReplyKeepsPlan ==
  ASSUME NEW p \in Position, NEW allowance \in Int, PlanFor(p, allowance),
         "threshold" \notin Faults, NEW q \in Nat, q <= allowance
  PROVE  PlanFor(FailedSale(p), allowance - q)
<1>1. FailedSale(p).status = "EXIT_BLOCKED" /\ FailedSale(p).reason = p.reason
  BY DEF Position, FailedSale, ClearDrip
<1>2. p.reason # "threshold" /\ allowance - q >= 0
  BY DEF PlanFor
<1> QED BY <1>1, <1>2 DEF PlanFor, Holding, Exiting

\* A sale without its proceeds leaves nothing pending.
LEMMA UnpaidSaleKeepsPlan ==
  ASSUME NEW p \in Position, NEW allowance \in Int, PlanFor(p, allowance),
         NEW q \in Nat, q <= allowance, NEW sig
  PROVE  PlanFor(UnpaidSale(p, q, sig), allowance) /\ PlanFor(UnpaidSale(p, q, sig), allowance - q)
<1>1. UnpaidSale(p, q, sig).pendingQty = 0 /\ UnpaidSale(p, q, sig).reason = p.reason
  BY DEF Position, UnpaidSale, ReconcileExit, ClearDrip
<1> QED BY <1>1 DEF PlanFor

\* What is left of a drip is less than was pending by what was sold.
LEMMA BookedSaleKeepsPlan ==
  ASSUME NEW p \in Position, DripReady(p), NEW q \in 1..p.remaining, NEW armHachi \in BOOLEAN,
         NEW allowance \in Int, p.pendingQty <= allowance, q <= p.pendingQty
  PROVE  /\ PlanFor(BookedSale(p, q, armHachi), allowance)
         /\ PlanFor(BookedSale(p, q, armHachi), allowance - q)
<1> DEFINE b == BookedSale(p, q, armHachi)
           left == Larger(0, p.dripLeft - q)
<1>1. /\ p.dripLeft \in 0..Qty /\ p.pendingQty \in 0..Qty /\ q \in Int /\ q >= 1 /\ Qty \in Nat
      /\ p.remaining \in 0..Qty
  BY QtyAssumption DEF Position
<1>2. b.reason \in {"none", "take_profit"}
  BY DEF BookedSale, ClearDrip, Position
<1>3. b.status \in {"CLOSED", "PARTIAL"} \/ (p.drip /\ b.pendingQty = left /\ left > 0)
  BY DEF BookedSale, ClearDrip, Position
<1> HIDE DEF b
<1>4. Holding(b) => b.pendingQty <= allowance - q
  <2>1. CASE b.status \in {"CLOSED", "PARTIAL"}
    BY <2>1 DEF Holding, Exiting
  <2>2. CASE p.drip /\ b.pendingQty = left /\ left > 0
    <3>1. p.dripLeft = p.pendingQty
      BY <2>2 DEF DripReady
    <3> QED BY <1>1, <2>2, <3>1 DEF Larger
  <2> QED BY <1>3, <2>1, <2>2
<1>5. Holding(b) => b.pendingQty <= allowance
  <2>1. CASE b.status \in {"CLOSED", "PARTIAL"}
    BY <2>1 DEF Holding, Exiting
  <2>2. CASE p.drip /\ b.pendingQty = left /\ left > 0
    <3>1. p.dripLeft = p.pendingQty
      BY <2>2 DEF DripReady
    <3> QED BY <1>1, <2>2, <3>1 DEF Larger
  <2> QED BY <1>3, <2>1, <2>2
<1>6. PlanFor(b, allowance) /\ PlanFor(b, allowance - q)
  BY <1>1, <1>2, <1>4, <1>5 DEF PlanFor
<1> QED BY <1>6 DEF b

\* A swap that landed is confirmed by reads that are right.
LEMMA LandedIsConfirmed ==
  ASSUME NEW held \in Nat, NEW q \in Nat \ {0}, q <= held
  PROVE  SettlementConfirmed(q, held, held - q)
<1>1. Tolerance(q) >= 0
  BY DEF Tolerance, Larger
<1>2. held - (held - q) = q /\ Distance(q, q) = 0 /\ held - q < held
  BY DEF Distance
<1> QED BY <1>1, <1>2 DEF SettlementConfirmed

LEMMA SellKeepsPlan ==
  ASSUME CurrentReads, NEW p \in Position, DripReady(p), wallet \in 0..Qty,
         NEW q \in 1..p.remaining, NEW allowance \in Int, NEW armHachi \in BOOLEAN,
         PlanFor(p, allowance), p.pendingQty <= allowance, q <= p.pendingQty,
         Sell(p, q, allowance, armHachi)
  PROVE  PlanFor(pos', plan')
<1>1. /\ p.remaining \in 0..Qty /\ p.pendingQty \in Nat /\ q \in Nat /\ q \in Nat \ {0}
      /\ q <= allowance /\ wallet \in Nat /\ wallet \in Int /\ allowance - 0 = allowance
  BY QtyAssumption DEF Position
<1>2. CASE SellRefused(p, q, allowance)
  BY <1>1, <1>2, FailuresKeepPlan DEF SellRefused, NoSwap, Swap
<1>3. CASE SellThreshold(p, q, allowance)
  BY <1>1, <1>3, FailuresKeepPlan DEF SellThreshold, NoSwap, Swap
<1>4. CASE SellSkipped(p, allowance)
  BY <1>1, <1>4, FailuresKeepPlan DEF SellSkipped, NoSwap, Swap
<1>5. CASE SellReplyLost(p, q, allowance)
  BY <1>1, <1>5, LostReplyKeepsPlan DEF SellReplyLost, CurrentReads, Swap
<1>6. CASE SellAnswered(p, q, allowance, armHachi)
  <2>1. PICK landed \in {0, q} :
          /\ \E pre \in Reads(wallet), post \in ReadsAfterSale(wallet, wallet - landed) :
               LET sig == IF landed = q THEN "landed" ELSE "dropped"
               IN  IF ~SettlementConfirmed(q, pre, post)
                   THEN pos' = UnconfirmedSale(p, sig)
                   ELSE \/ pos' = BookedSale(p, q, armHachi)
                        \/ pos' = UnpaidSale(p, q, sig)
          /\ landed <= wallet /\ plan' = allowance - landed
    BY <1>6 DEF SellAnswered, Swap
  <2>2. PICK pre \in Reads(wallet), post \in ReadsAfterSale(wallet, wallet - landed),
             sig \in {"landed", "dropped"} :
          IF ~SettlementConfirmed(q, pre, post)
          THEN pos' = UnconfirmedSale(p, sig)
          ELSE \/ pos' = BookedSale(p, q, armHachi)
               \/ pos' = UnpaidSale(p, q, sig)
    BY <2>1
  <2>3. CASE pos' = BookedSale(p, q, armHachi) \/ pos' = UnpaidSale(p, q, sig)
    BY <1>1, <2>1, <2>3, BookedSaleKeepsPlan, UnpaidSaleKeepsPlan
  <2>4. CASE ~SettlementConfirmed(q, pre, post) /\ pos' = UnconfirmedSale(p, sig)
    <3>1. landed = 0
      BY <1>1, <2>1, <2>2, <2>4, ReadsAreCurrent, LandedIsConfirmed DEF SettlementConfirmed
    <3> QED BY <1>1, <2>1, <2>4, <3>1, FailuresKeepPlan
  <2> QED BY <2>2, <2>3, <2>4
<1> QED BY <1>2, <1>3, <1>4, <1>5, <1>6 DEF Sell

LEMMA AttemptKeepsPlan ==
  ASSUME CurrentReads, NEW p, GoodPosition(p), DripReady(p), wallet \in 0..Qty,
         NEW allowance \in Int, NEW armHachi \in BOOLEAN,
         PlanFor(p, allowance), p.pendingQty <= allowance,
         AttemptExit(p, allowance, armHachi)
  PROVE  PlanFor(pos', plan')
<1>1. /\ p \in Position /\ p.remaining \in 0..Qty /\ p.pendingQty \in Nat
      /\ allowance - 0 = allowance
  BY QtyAssumption DEF GoodPosition, Position
<1>2. CASE MissingQty(p, allowance)
  <2>1. pos'.reason = p.reason /\ pos'.pendingQty = p.pendingQty /\ plan' = allowance
    BY <1>1, <1>2 DEF MissingQty, ClearDrip, Position, NoSwap, Swap
  <2> QED BY <2>1 DEF PlanFor
<1>3. CASE ChunkNotDue(p, allowance)
  BY <1>1, <1>3 DEF ChunkNotDue, NoSwap, Swap
<1>4. CASE SubmitSell(p, allowance, armHachi)
  <2>1. PICK want \in Wanted(p), read \in Reads(wallet) :
          LET short == read # NoRead /\ read < want
              q == IF short THEN read ELSE want
              p1 == IF short THEN Adjusted(p, q) ELSE p
          IN  IF q = 0
              THEN pos' = ReconcileExit(p1) /\ NoSwap(allowance)
              ELSE Sell(p1, q, allowance, armHachi)
    BY <1>4 DEF SubmitSell
  <2> DEFINE short == read # NoRead /\ read < want
             q == IF short THEN read ELSE want
             p1 == IF short THEN Adjusted(p, q) ELSE p
  <2>2. want \in 0..p.remaining /\ want <= p.pendingQty
    BY <1>1, <1>4, <2>1, WantedPending DEF SubmitSell
  <2>3. read \in {wallet, NoRead}
    BY <2>1, ReadsAreCurrent
  <2>4. q \in 0..want /\ q \in 0..Qty
    BY <1>1, <2>2, <2>3, QtyAssumption DEF NoRead
  <2>5. IF q = 0 THEN pos' = ReconcileExit(p1) /\ NoSwap(allowance)
                 ELSE Sell(p1, q, allowance, armHachi)
    BY <2>1
  <2> HIDE DEF short, q
  <2>6. /\ p1 \in Position /\ DripReady(p1) /\ p1.remaining = p.remaining /\ p1.reason = p.reason
        /\ p1.pendingQty \in {p.pendingQty, q} /\ q <= p1.pendingQty
    BY <1>1, <2>2, <2>4 DEF Adjusted, Position, DripReady
  <2> HIDE DEF p1
  <2>7. p1.pendingQty <= allowance /\ PlanFor(p1, allowance)
    BY <1>1, <2>2, <2>4, <2>6 DEF PlanFor
  <2>8. CASE q = 0
    <3>1. pos' = ReconcileExit(p1) /\ plan' = allowance
      BY <1>1, <2>5, <2>8 DEF NoSwap, Swap
    <3>2. 0 \in Nat /\ 0 <= allowance
      BY DEF PlanFor
    <3> QED BY <2>6, <2>7, <3>1, <3>2, FailuresKeepPlan
  <2>9. CASE q # 0
    <3>1. q \in 1..p1.remaining
      BY <1>1, <2>2, <2>4, <2>6, <2>9
    <3> QED BY <2>5, <2>6, <2>7, <2>9, <3>1, SellKeepsPlan
  <2> QED BY <2>8, <2>9
<1> QED BY <1>2, <1>3, <1>4 DEF AttemptExit

\* An exit's plan is what it asks for at its start.
LEMMA StartKeepsPlan ==
  ASSUME CurrentReads, NEW p, GoodPosition(p), ~p.drip, p.retries = 0, wallet \in 0..Qty,
         NEW qty \in Int, NEW reason \in {"hard", "take_profit", "hachi_dripper"},
         NEW armHachi \in BOOLEAN, StartExit(p, qty, reason, armHachi)
  PROVE  PlanFor(pos', plan')
<1> DEFINE q == Smaller(Larger(1, qty), p.remaining)
           p1 == IF reason = "hard" THEN [p EXCEPT !.chunkWaiting = FALSE] ELSE p
           p2 == IF mode.sell = "drip" /\ reason = "take_profit"
                 THEN [p1 EXCEPT !.drip = TRUE, !.dripLeft = q, !.chunkWaiting = FALSE]
                 ELSE p1
           p3 == [p2 EXCEPT !.status = "EXIT_PENDING", !.reason = reason, !.pendingQty = q]
<1>1. /\ p.remaining \in 0..Qty /\ q \in 0..Qty /\ q \in 0..p.remaining /\ q \in Int /\ q >= 0
  BY QtyAssumption DEF GoodPosition, Position, Smaller, Larger
<1> HIDE DEF q
<1>2. /\ p1 \in Position /\ p1.remaining = p.remaining /\ p1.realized = p.realized
      /\ ~p1.drip /\ p1.retries = 0
  BY DEF GoodPosition, Position
<1> HIDE DEF p1
<1>3. /\ p2 \in Position /\ p2.remaining = p.remaining /\ p2.realized = p.realized
      /\ p2.retries = 0 /\ (p2.drip => p2.dripLeft = q)
  BY <1>1, <1>2 DEF Position
<1> HIDE DEF p2
<1>4. /\ p3 \in Position /\ p3.remaining = p.remaining /\ p3.realized = p.realized
      /\ p3.status = "EXIT_PENDING" /\ p3.pendingQty = q /\ p3.reason = reason
      /\ p3.retries = 0 /\ (p3.drip => p3.dripLeft = q)
  BY <1>1, <1>3 DEF Position, Statuses, Reasons
<1> HIDE DEF p3
<1>5. GoodPosition(p3) /\ DripReady(p3)
  BY <1>1, <1>4 DEF GoodPosition, WithinEntry, EntryUnpaid, DripReady
<1>6. AttemptExit(p3, q, armHachi)
  BY DEF StartExit, p3, p2, p1, q
<1>7. PlanFor(p3, q) /\ p3.pendingQty <= q
  BY <1>1, <1>4 DEF PlanFor
<1> QED BY <1>1, <1>5, <1>6, <1>7, AttemptKeepsPlan

\* A visit retries within the plan of the exit, or starts a new one.
LEMMA MarkKeepsPlan ==
  ASSUME CurrentReads, PlanInv, crashes = 0, Mark
  PROVE  PlanFor(pos', plan')
<1>1. /\ GoodPosition(pos) /\ pos \in Position /\ wallet \in 0..Qty /\ plan \in Int
      /\ Orderly(pos) /\ DripReady(pos) /\ PlanFor(pos, plan)
  BY DEF PlanInv, OrderlyInv, TypeInv, TypeOK, GoodPosition, Orderly
<1>2. /\ pos.remaining \in Int /\ pos.remaining \in Nat /\ pos.tpDone \in 0..TpSteps
      /\ plan >= 0
  BY <1>1, QtyAssumption DEF Position, PlanFor
<1>3. CASE UNCHANGED <<pos, wallet, plan>>
  BY <1>1, <1>3
<1>4. ASSUME Holding(pos), AttemptExit(pos, plan, FALSE)
      PROVE  PlanFor(pos', plan')
  <2>1. pos.pendingQty <= plan
    BY <1>1, <1>4 DEF PlanFor
  <2> QED BY <1>1, <1>4, <2>1, AttemptKeepsPlan
<1>5. ASSUME NEW p, GoodPosition(p), p.drip = pos.drip, p.retries = pos.retries,
             NEW qty \in Int, NEW reason \in {"hard", "take_profit", "hachi_dripper"},
             NEW armHachi \in BOOLEAN, Starting(pos), StartExit(p, qty, reason, armHachi)
      PROVE  PlanFor(pos', plan')
  <2>1. ~pos.drip /\ pos.retries = 0
    BY <1>1, <1>5 DEF Orderly, DripReady, Starting
  <2> QED BY <1>1, <1>5, <2>1, StartKeepsPlan
<1>6. CASE MarkBlocked
  <2>1. CASE pos.reason = "threshold" /\ AttemptExit(pos, plan, FALSE)
    BY <1>4, <1>6, <2>1 DEF MarkBlocked, Holding
  <2> QED BY <1>3, <1>6, <2>1 DEF MarkBlocked
<1>7. CASE MarkExhausted
  <2>1. pos'.reason = "none" /\ pos'.pendingQty = 0 /\ plan' = plan
    BY <1>1, <1>7 DEF MarkExhausted, Position
  <2> QED BY <1>2, <2>1 DEF PlanFor
<1>8. CASE MarkPending
  <2>1. CASE AttemptExit(pos, plan, FALSE)
    BY <1>4, <1>8, <2>1 DEF MarkPending, Holding
  <2> QED BY <1>3, <1>8, <2>1 DEF MarkPending
<1>9. CASE MarkUnconfirmedEntry
  <2>1. Starting(pos)
    BY <1>9 DEF MarkUnconfirmedEntry, Starting
  <2>2. PICK read \in Reads(wallet) :
          IF read > 0
          THEN /\ pos' = [pos EXCEPT !.remaining = read, !.status = "OPEN", !.context = "none"]
               /\ UNCHANGED <<wallet, plan>>
          ELSE IF signal = "hard"
          THEN StartExit(pos, pos.remaining, "hard", FALSE)
          ELSE UNCHANGED <<pos, wallet, plan>>
    BY <1>9 DEF MarkUnconfirmedEntry
  <2>3. CASE read > 0
    <3>1. /\ pos'.status = "OPEN" /\ pos'.reason = pos.reason /\ plan' = plan
      BY <1>1, <2>2, <2>3 DEF Position
    <3> QED BY <1>1, <3>1 DEF PlanFor, Holding, Exiting
  <2>4. CASE StartExit(pos, pos.remaining, "hard", FALSE)
    BY <1>1, <1>2, <1>5, <2>1, <2>4
  <2> QED BY <1>3, <2>2, <2>3, <2>4
<1>10. CASE MarkHardExit
  BY <1>1, <1>2, <1>5, <1>10 DEF MarkHardExit, Evaluated, Starting
<1>11. CASE MarkSoftExit
  <2>1. 50 \in 1..100
    OBVIOUS
  <2>2. Part(pos.remaining, 50) \in Int
    BY <1>2, <2>1, PartType
  <2> QED BY <1>1, <1>5, <1>11, <2>2 DEF MarkSoftExit, Evaluated, Starting
<1>12. CASE MarkTakeProfit
  <2> DEFINE p == [pos EXCEPT !.tpDone = @ + 1]
  <2>1. p \in Position /\ p.remaining = pos.remaining /\ p.realized = pos.realized
        /\ p.status = pos.status /\ p.context = pos.context
        /\ p.drip = pos.drip /\ p.retries = pos.retries
    BY <1>1, <1>2, <1>12, PercentAssumption DEF MarkTakeProfit, Position
  <2>2. StartExit(p, Part(pos.remaining, TpPct), "take_profit", FALSE) /\ Starting(pos)
    BY <1>12 DEF MarkTakeProfit, Evaluated, Starting
  <2> HIDE DEF p
  <2>3. GoodPosition(p)
    BY <1>1, <2>1 DEF GoodPosition, WithinEntry, EntryUnpaid
  <2>4. Part(pos.remaining, TpPct) \in Int
    BY <1>2, PartType, PercentAssumption
  <2> QED BY <1>5, <2>1, <2>2, <2>3, <2>4
<1>13. CASE MarkHachi
  <2>1. PICK pct \in ChunkPcts : StartExit(pos, Part(pos.remaining, pct), "hachi_dripper", TRUE)
    BY <1>13 DEF MarkHachi
  <2>2. Part(pos.remaining, pct) \in Int
    BY <1>2, PartType, PercentAssumption
  <2> QED BY <1>1, <1>5, <1>13, <2>1, <2>2 DEF MarkHachi, Evaluated, Starting
<1>14. CASE MarkIdle
  BY <1>3, <1>14 DEF MarkIdle
<1> QED BY <1>6, <1>7, <1>8, <1>9, <1>10, <1>11, <1>12, <1>13, <1>14 DEF Mark

LEMMA PlanStep ==
  ASSUME CurrentReads, PlanInv, [Next]_vars
  PROVE  PlanInv'
<1>1. OrderlyInv'
  BY OrderlyStep DEF PlanInv
<1> SUFFICES PlanFor(pos', plan')
  BY <1>1 DEF PlanInv, PlanFor, Holding, Exiting
<1>2. crashes = 0 /\ pos \in Position /\ phase # "down" /\ PlanFor(pos, plan)
  BY DEF PlanInv, OrderlyInv, TypeInv, TypeOK, GoodPosition, CurrentReads
<1>3. CASE Mark
  BY <1>2, <1>3, MarkKeepsPlan
<1>4. ASSUME NEW expired \in BOOLEAN, BeginCycle(expired)
      PROVE  PlanFor(pos', plan')
  <2>1. /\ pos'.pendingQty = pos.pendingQty /\ pos'.status = pos.status
        /\ pos'.context = pos.context /\ pos'.reason = pos.reason
    BY <1>2, <1>4 DEF BeginCycle, Position
  <2>2. plan' = plan
    BY <1>4 DEF BeginCycle
  <2> QED BY <1>2, <2>1, <2>2 DEF PlanFor, Holding, Exiting
<1>5. CASE Persist
  BY <1>2, <1>5 DEF Persist
<1>6. ~Crash
  BY <1>2 DEF Crash, CurrentReads
<1>7. ~Restart
  BY <1>2 DEF Restart
<1>8. CASE UNCHANGED vars
  BY <1>2, <1>8 DEF vars
<1> QED BY <1>3, <1>4, <1>5, <1>6, <1>7, <1>8 DEF Next

\* With reads that are current and no crash, no exit sells more than it was started for,
\* over all its chunks and retries: also when reads fail, swaps are answered that never
\* land, and the proceeds of a sale are unknown.
THEOREM ExitsKeepToTheirPlan ==
  ASSUME CurrentReads
  PROVE  Spec => []NeverOverSell
<1>1. Init => PlanInv
  <2> SUFFICES ASSUME Init
               PROVE  PlanFor(pos, plan)
    BY OrderlyInit DEF PlanInv
  <2>1. PICK kind \in EntryKinds : pos = NewPosition(kind)
    BY DEF Init
  <2>2. pos.pendingQty = 0 /\ pos.reason = "none" /\ plan = Qty
    BY <2>1 DEF NewPosition, Init
  <2> QED BY <2>2, QtyAssumption DEF PlanFor
<1>2. PlanInv /\ [Next]_vars => PlanInv'
  BY PlanStep
<1>3. PlanInv => NeverOverSell
  BY DEF PlanInv, PlanFor, NeverOverSell
<1> QED BY <1>1, <1>2, <1>3, PTL DEF Spec

-----------------------------------------------------------------------------
(***************************************************************************)
(* Exactness.  When no answer is lost, no proceeds are missing, every read *)
(* that comes is right and nothing crashes, a sale is booked exactly when  *)
(* it happened.  Reads may fail, and Jupiter may answer for a swap that    *)
(* never landed, but not both: then a sale that did not happen is booked.  *)
(***************************************************************************)
Exactly ==
  /\ {"lost_reply", "no_proceeds", "read_lag", "read_error"} \cap Faults = {}
  /\ "unlanded_reply" \in Faults => "read_timeout" \notin Faults
  /\ EntryKinds \subseteq {"confirmed"}
  /\ MaxCrashes = 0

ExactFor(p, held) == p.remaining = held /\ p.realized = Qty - held

ExactInv ==
  /\ TypeInv
  /\ phase # "down" /\ crashes = 0
  /\ ExactFor(pos, wallet)

LEMMA ExactReads ==
  ASSUME Exactly
  PROVE  \A held, after : /\ Reads(held) \subseteq {held, NoRead}
                          /\ ReadsAfterSale(held, after) \subseteq {after, NoRead}
  BY DEF Exactly, Reads, ReadsAfterSale

LEMMA KeptIsExact ==
  ASSUME NEW p, NEW r, NEW held, Kept(p, r), ExactFor(p, held)
  PROVE  ExactFor(r, held)
  BY DEF Kept, ExactFor

LEMMA BookedSaleExact ==
  ASSUME NEW p, GoodPosition(p), NEW q \in 1..p.remaining, NEW armHachi \in BOOLEAN,
         ExactFor(p, wallet), wallet \in 0..Qty
  PROVE  ExactFor(BookedSale(p, q, armHachi), wallet - q)
<1> DEFINE b == BookedSale(p, q, armHachi)
<1>1. /\ p.remaining \in 0..Qty /\ p.realized \in 0..Qty /\ q \in Int /\ Qty \in Nat
      /\ q >= 1 /\ q <= p.remaining
  BY QtyAssumption DEF GoodPosition, Position
<1>2. b.realized = p.realized + q /\ b.remaining = Larger(0, p.remaining - q)
  BY DEF BookedSale, ClearDrip, GoodPosition, Position
<1> HIDE DEF b
<1>3. ExactFor(b, wallet - q)
  BY <1>1, <1>2 DEF ExactFor, Larger
<1> QED BY <1>3 DEF b

LEMMA SellExact ==
  ASSUME Exactly, NEW p, GoodPosition(p), wallet \in 0..Qty, ExactFor(p, wallet),
         NEW q \in 1..p.remaining, NEW allowance \in Int, NEW armHachi \in BOOLEAN,
         Sell(p, q, allowance, armHachi)
  PROVE  ExactFor(pos', wallet')
<1>1. /\ p.remaining \in 0..Qty /\ q \in Nat /\ q \in Nat \ {0} /\ wallet \in Nat
      /\ wallet \in Int /\ q <= wallet /\ wallet - 0 = wallet /\ 0 # q
  BY QtyAssumption DEF GoodPosition, Position, ExactFor
<1>2. CASE SellRefused(p, q, allowance)
  BY <1>1, <1>2, FailuresKeep, KeptIsExact DEF SellRefused, NoSwap, Swap
<1>3. CASE SellThreshold(p, q, allowance)
  BY <1>1, <1>3, FailuresKeep, KeptIsExact DEF SellThreshold, NoSwap, Swap
<1>4. CASE SellSkipped(p, allowance)
  BY <1>1, <1>4, FailuresKeep, KeptIsExact DEF SellSkipped, NoSwap, Swap
<1>5. ~SellReplyLost(p, q, allowance)
  BY DEF SellReplyLost, Exactly
<1>6. CASE SellAnswered(p, q, allowance, armHachi)
  <2>1. PICK landed \in {0, q} :
          /\ landed = 0 => "unlanded_reply" \in Faults
          /\ \E pre \in Reads(wallet), post \in ReadsAfterSale(wallet, wallet - landed) :
               LET sig == IF landed = q THEN "landed" ELSE "dropped"
               IN  IF ~SettlementConfirmed(q, pre, post)
                   THEN pos' = UnconfirmedSale(p, sig)
                   ELSE \/ pos' = BookedSale(p, q, armHachi)
                        \/ /\ "no_proceeds" \in Faults
                           /\ pos' = UnpaidSale(p, q, sig)
          /\ wallet' = wallet - landed
    BY <1>6 DEF SellAnswered, Swap
  <2>2. PICK pre \in Reads(wallet), post \in ReadsAfterSale(wallet, wallet - landed),
             sig \in {"landed", "dropped"} :
          IF ~SettlementConfirmed(q, pre, post)
          THEN pos' = UnconfirmedSale(p, sig)
          ELSE pos' = BookedSale(p, q, armHachi)
    BY <2>1 DEF Exactly
  <2>3. CASE landed = q
    <3>1. SettlementConfirmed(q, pre, post)
      BY <1>1, <2>2, <2>3, ExactReads, LandedIsConfirmed DEF SettlementConfirmed
    <3> QED BY <1>1, <2>1, <2>2, <2>3, <3>1, BookedSaleExact
  <2>4. CASE landed = 0
    <3>1. Reads(wallet) = {wallet} /\ ReadsAfterSale(wallet, wallet - landed) = {wallet}
      BY <1>1, <2>1, <2>4 DEF Exactly, Reads, ReadsAfterSale
    <3>2. ~SettlementConfirmed(q, pre, post)
      BY <1>1, <2>2, <3>1 DEF SettlementConfirmed, NoRead
    <3> QED BY <1>1, <2>1, <2>2, <2>4, <3>2, FailuresKeep, KeptIsExact
  <2> QED BY <2>3, <2>4
<1> QED BY <1>2, <1>3, <1>4, <1>5, <1>6 DEF Sell

LEMMA AttemptExact ==
  ASSUME Exactly, NEW p, GoodPosition(p), wallet \in 0..Qty, ExactFor(p, wallet),
         NEW allowance \in Int, NEW armHachi \in BOOLEAN, AttemptExit(p, allowance, armHachi)
  PROVE  ExactFor(pos', wallet')
<1>1. p \in Position /\ p.remaining \in 0..Qty /\ wallet - 0 = wallet
  BY DEF GoodPosition, Position
<1>2. CASE MissingQty(p, allowance)
  <2>1. pos'.remaining = p.remaining /\ pos'.realized = p.realized /\ wallet' = wallet
    BY <1>1, <1>2 DEF MissingQty, ClearDrip, Position, NoSwap, Swap
  <2> QED BY <2>1 DEF ExactFor
<1>3. CASE ChunkNotDue(p, allowance)
  BY <1>1, <1>3 DEF ChunkNotDue, NoSwap, Swap
<1>4. CASE SubmitSell(p, allowance, armHachi)
  <2>1. PICK want \in Wanted(p), read \in Reads(wallet) :
          LET short == read # NoRead /\ read < want
              q == IF short THEN read ELSE want
              p1 == IF short THEN Adjusted(p, q) ELSE p
          IN  IF q = 0
              THEN pos' = ReconcileExit(p1) /\ NoSwap(allowance)
              ELSE Sell(p1, q, allowance, armHachi)
    BY <1>4 DEF SubmitSell
  <2>2. want \in 0..p.remaining
    BY <1>1, <2>1, WantedBounded
  <2>3. ~(read # NoRead /\ read < want)
    <3>1. read \in {wallet, NoRead}
      BY <2>1, ExactReads
    <3>2. want \in Int /\ wallet \in Int /\ want <= wallet
      BY <1>1, <2>2, QtyAssumption DEF ExactFor
    <3> QED BY <3>1, <3>2
  <2>4. IF want = 0 THEN pos' = ReconcileExit(p) /\ NoSwap(allowance)
                    ELSE Sell(p, want, allowance, armHachi)
    BY <2>1, <2>3
  <2>5. CASE want = 0
    <3>1. pos' = ReconcileExit(p) /\ wallet' = wallet
      BY <1>1, <2>4, <2>5 DEF NoSwap, Swap
    <3> QED BY <3>1, FailuresKeep, KeptIsExact
  <2>6. CASE want # 0
    <3>1. want \in 1..p.remaining
      BY <1>1, <2>2, <2>6
    <3> QED BY <2>4, <2>6, <3>1, SellExact
  <2> QED BY <2>5, <2>6
<1> QED BY <1>2, <1>3, <1>4 DEF AttemptExit

LEMMA MarkExact ==
  ASSUME Exactly, ExactInv, Mark
  PROVE  ExactFor(pos', wallet')
<1>1. /\ GoodPosition(pos) /\ pos \in Position /\ wallet \in 0..Qty /\ plan \in Int
      /\ ExactFor(pos, wallet)
  BY DEF ExactInv, TypeInv, TypeOK, GoodPosition
<1>2. pos.remaining \in Int /\ pos.remaining \in Nat /\ pos.tpDone \in 0..TpSteps
  BY <1>1, QtyAssumption DEF Position
<1>3. CASE UNCHANGED <<pos, wallet, plan>>
  BY <1>1, <1>3
<1>4. CASE AttemptExit(pos, plan, FALSE)
  BY <1>1, <1>4, AttemptExact
<1>5. ASSUME NEW p, GoodPosition(p), p.remaining = pos.remaining, p.realized = pos.realized,
             NEW qty \in Int, NEW reason \in Reasons, NEW armHachi \in BOOLEAN,
             StartExit(p, qty, reason, armHachi)
      PROVE  ExactFor(pos', wallet')
  <2>1. PICK q, r : /\ q \in Int /\ GoodPosition(r)
                    /\ r.remaining = p.remaining /\ r.realized = p.realized
                    /\ AttemptExit(r, q, armHachi)
    BY <1>5, StartPrepares
  <2>2. ExactFor(r, wallet)
    BY <1>1, <1>5, <2>1 DEF ExactFor
  <2> QED BY <1>1, <2>1, <2>2, AttemptExact
<1>6. Reasons = {"none", "hard", "take_profit", "hachi_dripper", "threshold"}
  BY DEF Reasons
<1>7. CASE MarkBlocked \/ MarkPending \/ MarkIdle
  BY <1>3, <1>4, <1>7 DEF MarkBlocked, MarkPending, MarkIdle
<1>8. CASE MarkExhausted
  <2>1. pos'.remaining = pos.remaining /\ pos'.realized = pos.realized /\ wallet' = wallet
    BY <1>1, <1>8 DEF MarkExhausted, Position
  <2> QED BY <1>1, <2>1 DEF ExactFor
<1>9. CASE MarkUnconfirmedEntry
  <2>1. PICK read \in Reads(wallet) :
          IF read > 0
          THEN /\ pos' = [pos EXCEPT !.remaining = read, !.status = "OPEN", !.context = "none"]
               /\ UNCHANGED <<wallet, plan>>
          ELSE IF signal = "hard"
          THEN StartExit(pos, pos.remaining, "hard", FALSE)
          ELSE UNCHANGED <<pos, wallet, plan>>
    BY <1>9 DEF MarkUnconfirmedEntry
  <2>2. CASE read > 0
    <3>1. read = wallet
      BY <2>1, <2>2, ExactReads DEF NoRead
    <3>2. pos'.remaining = wallet /\ pos'.realized = pos.realized /\ wallet' = wallet
      BY <1>1, <2>1, <2>2, <3>1 DEF Position
    <3> QED BY <1>1, <3>2 DEF ExactFor
  <2>3. CASE StartExit(pos, pos.remaining, "hard", FALSE)
    BY <1>1, <1>2, <1>5, <1>6, <2>3
  <2> QED BY <1>3, <2>1, <2>2, <2>3
<1>10. CASE MarkHardExit
  BY <1>1, <1>2, <1>5, <1>6, <1>10 DEF MarkHardExit
<1>11. CASE MarkSoftExit
  <2>1. 50 \in 1..100
    OBVIOUS
  <2>2. Part(pos.remaining, 50) \in Int
    BY <1>2, <2>1, PartType
  <2> QED BY <1>1, <1>5, <1>6, <1>11, <2>2 DEF MarkSoftExit
<1>12. CASE MarkTakeProfit
  <2> DEFINE p == [pos EXCEPT !.tpDone = @ + 1]
  <2>1. p \in Position /\ p.remaining = pos.remaining /\ p.realized = pos.realized
        /\ p.status = pos.status /\ p.context = pos.context
    BY <1>1, <1>2, <1>12, PercentAssumption DEF MarkTakeProfit, Position
  <2>2. StartExit(p, Part(pos.remaining, TpPct), "take_profit", FALSE)
    BY <1>12 DEF MarkTakeProfit
  <2> HIDE DEF p
  <2>3. GoodPosition(p)
    BY <1>1, <2>1 DEF GoodPosition, WithinEntry, EntryUnpaid
  <2>4. Part(pos.remaining, TpPct) \in Int
    BY <1>2, PartType, PercentAssumption
  <2> QED BY <1>5, <1>6, <2>1, <2>2, <2>3, <2>4
<1>13. CASE MarkHachi
  <2>1. PICK pct \in ChunkPcts : StartExit(pos, Part(pos.remaining, pct), "hachi_dripper", TRUE)
    BY <1>13 DEF MarkHachi
  <2>2. Part(pos.remaining, pct) \in Int
    BY <1>2, PartType, PercentAssumption
  <2> QED BY <1>1, <1>5, <1>6, <2>1, <2>2
<1> QED BY <1>7, <1>8, <1>9, <1>10, <1>11, <1>12, <1>13 DEF Mark

LEMMA ExactStep ==
  ASSUME Exactly, ExactInv, [Next]_vars
  PROVE  ExactInv'
<1>1. TypeInv'
  BY TypeStep DEF ExactInv
<1>2. pos \in Position /\ ExactFor(pos, wallet) /\ MaxCrashes = 0
  BY DEF ExactInv, TypeInv, GoodPosition, Exactly
<1> SUFFICES phase' # "down" /\ crashes' = 0 /\ ExactFor(pos', wallet')
  BY <1>1 DEF ExactInv, ExactFor
<1>3. CASE Mark
  BY <1>3, MarkExact, MarkPhases DEF ExactInv
<1>4. ASSUME NEW expired \in BOOLEAN, BeginCycle(expired)
      PROVE  phase' # "down" /\ crashes' = 0 /\ ExactFor(pos', wallet')
  <2>1. pos'.remaining = pos.remaining /\ pos'.realized = pos.realized
    BY <1>2, <1>4 DEF BeginCycle, Position
  <2> QED BY <1>2, <1>4, <2>1 DEF BeginCycle, ExactInv, ExactFor
<1>5. CASE Persist
  BY <1>2, <1>5 DEF Persist, ExactInv
<1>6. ~Crash /\ ~Restart
  BY <1>2 DEF Crash, Restart, ExactInv
<1>7. CASE UNCHANGED vars
  BY <1>2, <1>7 DEF vars, ExactInv
<1> QED BY <1>3, <1>4, <1>5, <1>6, <1>7 DEF Next

\* With answers that arrive, proceeds that are known, reads that are right when they come
\* and no crash, the books are the chain, in every order of failures and retries.
THEOREM BooksAreExact ==
  ASSUME Exactly
  PROVE  Spec => []ExactBooks
<1>1. Init => ExactInv
  <2> SUFFICES ASSUME Init
               PROVE  ExactInv
    OBVIOUS
  <2>1. TypeInv
    BY TypeInit
  <2>2. pos = NewPosition("confirmed") /\ wallet = Qty
    BY DEF Init, Exactly
  <2>3. ExactFor(pos, wallet)
    BY <2>2, QtyAssumption DEF NewPosition, ExactFor
  <2> QED BY <2>1, <2>3 DEF ExactInv, Init
<1>2. ExactInv /\ [Next]_vars => ExactInv'
  BY ExactStep
<1>3. ExactInv => ExactBooks
  BY DEF ExactInv, ExactFor, ExactBooks
<1> QED BY <1>1, <1>2, <1>3, PTL DEF Spec

-----------------------------------------------------------------------------
(***************************************************************************)
(* Progress.  Whatever fails, an exit has a bounded number of attempts: a  *)
(* failed one uses up a retry or blocks the exit, a chunk that is sold     *)
(* shortens the drip, and a drip that fails does not come back.  This is   *)
(* the part of ExitResolves that no fairness is needed for, under every    *)
(* fault and with crashes; what fairness adds is that the due attempts are *)
(* made.                                                                   *)
(***************************************************************************)
\* What an exit may still use up.
Rank(p) == IF p.drip THEN RetryCap + 1 + p.dripLeft ELSE RetryCap - p.retries

\* Neither the retry timer nor the chunk timer holds the exit back.
Due(p) == ~p.waiting /\ ~(p.drip /\ p.chunkWaiting)

Shorter(p, r) == Exiting(r) => Rank(r) <= Rank(p) /\ (mode.live => Rank(r) < Rank(p))

\* No step between a start and a crash lengthens an exit that goes on, and the visit of a
\* live exit that is due leaves less of it (_attempt_exit, MAX_EXIT_RETRIES).
ExitConverges ==
  [][ phase # "down" /\ phase' # "down" /\ Exiting(pos) /\ Exiting(pos') =>
        /\ Rank(pos') \in Nat /\ Rank(pos') <= Rank(pos)
        /\ Mark /\ mode.live /\ Due(pos) => Rank(pos') < Rank(pos) ]_vars

LEMMA RankType ==
  ASSUME NEW p \in Position
  PROVE  Rank(p) \in Nat
  BY QtyAssumption, RetryMaxAssumption DEF Position, Rank, RetryCap

\* A failure that is retried has used up a retry, and the drip if there was one.
LEMMA FailuresShorten ==
  ASSUME NEW p \in Position, p.retries < RetryMax, NEW q, NEW sig
  PROVE  /\ Shorter(p, ReconcileExit(p)) /\ Shorter(p, UnconfirmedSale(p, sig))
         /\ Shorter(p, UnpaidSale(p, q, sig)) /\ Shorter(p, FailedSale(p))
         /\ Shorter(p, ThresholdFailure(p, q))
         /\ ~mode.live => Shorter(p, SkippedSale(p))
<1>1. /\ p.retries \in Nat /\ p.dripLeft \in Nat /\ RetryMax \in Nat /\ RetryCap = RetryMax + 1
      /\ Counted(p.retries) = p.retries + 1
  BY QtyAssumption, RetryMaxAssumption DEF Position, RetryCap, Counted, Smaller
<1>2. ASSUME NEW r, r.drip = FALSE, r.retries = p.retries + 1
      PROVE  Shorter(p, r)
  BY <1>1, <1>2 DEF Shorter, Rank
<1>3. ReconcileExit(p).drip = FALSE /\ ReconcileExit(p).retries = Counted(p.retries)
  BY DEF Position, ReconcileExit, ClearDrip
<1>4. UnconfirmedSale(p, sig).drip = FALSE /\ UnconfirmedSale(p, sig).retries = Counted(p.retries)
  BY DEF Position, UnconfirmedSale, ReconcileExit, ClearDrip
<1>5. UnpaidSale(p, q, sig).drip = FALSE /\ UnpaidSale(p, q, sig).retries = Counted(p.retries)
  BY DEF Position, UnpaidSale, ReconcileExit, ClearDrip
<1>6. FailedSale(p).status = "EXIT_BLOCKED"
  BY DEF Position, FailedSale, ClearDrip
<1>7. ThresholdFailure(p, q).status = "EXIT_BLOCKED"
  BY DEF Position, ThresholdFailure, ClearDrip
<1>8. SkippedSale(p).drip = FALSE /\ SkippedSale(p).retries = p.retries
  BY DEF Position, SkippedSale, ClearDrip
<1>9. ~mode.live => Shorter(p, SkippedSale(p))
  BY <1>1, <1>8 DEF Shorter, Rank
<1> QED BY <1>1, <1>2, <1>3, <1>4, <1>5, <1>6, <1>7, <1>9 DEF Shorter, Exiting

LEMMA BookedSaleShortens ==
  ASSUME NEW p \in Position, NEW q \in Nat \ {0}, NEW armHachi \in BOOLEAN
  PROVE  Shorter(p, BookedSale(p, q, armHachi))
<1> DEFINE b == BookedSale(p, q, armHachi)
           left == Larger(0, p.dripLeft - q)
<1>1. b.status \in {"CLOSED", "PARTIAL"} \/ (p.drip /\ b.drip = p.drip /\ b.dripLeft = left /\ left > 0)
  BY DEF BookedSale, ClearDrip, Position
<1> HIDE DEF b
<1>2. p.dripLeft \in Nat /\ RetryCap \in Nat
  BY QtyAssumption, RetryMaxAssumption DEF Position, RetryCap
<1>3. CASE b.status \in {"CLOSED", "PARTIAL"}
  BY <1>3 DEF b, Shorter, Exiting
<1>4. CASE p.drip /\ b.drip = p.drip /\ b.dripLeft = left /\ left > 0
  <2>1. Shorter(p, b)
    BY <1>2, <1>4 DEF Shorter, Rank, Larger
  <2> QED BY <2>1 DEF b
<1> QED BY <1>1, <1>3, <1>4

LEMMA SellShortens ==
  ASSUME NEW p \in Position, p.retries < RetryMax, NEW q \in Nat \ {0}, NEW allowance,
         NEW armHachi \in BOOLEAN, Sell(p, q, allowance, armHachi)
  PROVE  Shorter(p, pos')
<1>1. CASE SellAnswered(p, q, allowance, armHachi)
  <2>1. PICK sig : \/ pos' = UnconfirmedSale(p, sig)
                   \/ pos' = BookedSale(p, q, armHachi)
                   \/ pos' = UnpaidSale(p, q, sig)
    BY <1>1 DEF SellAnswered
  <2> QED BY <2>1, FailuresShorten, BookedSaleShortens
<1>2. CASE SellRefused(p, q, allowance) \/ SellReplyLost(p, q, allowance)
  BY <1>2, FailuresShorten DEF SellRefused, SellReplyLost
<1>3. CASE SellThreshold(p, q, allowance) \/ SellSkipped(p, allowance)
  BY <1>3, FailuresShorten DEF SellThreshold, SellSkipped
<1> QED BY <1>1, <1>2, <1>3 DEF Sell

\* An attempt that is due ends the exit or leaves less of it.
LEMMA AttemptShortens ==
  ASSUME NEW p \in Position, p.retries < RetryMax, wallet \in 0..Qty, NEW allowance,
         NEW armHachi \in BOOLEAN, AttemptExit(p, allowance, armHachi)
  PROVE  Shorter(p, pos') \/ (pos' = p /\ p.drip /\ p.chunkWaiting)
<1>1. CASE MissingQty(p, allowance)
  <2>1. pos'.status = "EXIT_BLOCKED"
    BY <1>1 DEF MissingQty, ClearDrip, Position
  <2> QED BY <2>1 DEF Shorter, Exiting
<1>2. CASE ChunkNotDue(p, allowance)
  BY <1>2 DEF ChunkNotDue
<1>3. CASE SubmitSell(p, allowance, armHachi)
  <2>1. PICK want \in Wanted(p), read \in Reads(wallet) :
          LET short == read # NoRead /\ read < want
              q == IF short THEN read ELSE want
              p1 == IF short THEN Adjusted(p, q) ELSE p
          IN  IF q = 0
              THEN pos' = ReconcileExit(p1) /\ NoSwap(allowance)
              ELSE Sell(p1, q, allowance, armHachi)
    BY <1>3 DEF SubmitSell
  <2> DEFINE short == read # NoRead /\ read < want
             q == IF short THEN read ELSE want
             p1 == IF short THEN Adjusted(p, q) ELSE p
  <2>2. want \in 0..p.remaining /\ p.remaining \in 0..Qty
    BY <2>1, WantedBounded DEF Position
  <2>3. q \in 0..Qty
    BY <2>1, <2>2, QtyAssumption DEF Reads, NoRead
  <2>4. IF q = 0 THEN pos' = ReconcileExit(p1) /\ NoSwap(allowance)
                 ELSE Sell(p1, q, allowance, armHachi)
    BY <2>1
  <2> HIDE DEF short, q
  <2>5. /\ p1 \in Position /\ p1.drip = p.drip /\ p1.dripLeft = p.dripLeft
        /\ p1.retries = p.retries
    BY <2>3 DEF Adjusted, Position
  <2> HIDE DEF p1
  <2>6. Shorter(p1, pos')
    <3>1. CASE q = 0
      BY <2>4, <2>5, <3>1, FailuresShorten
    <3>2. CASE q # 0
      <4>1. q \in Nat \ {0}
        BY <2>3, <3>2, QtyAssumption
      <4> QED BY <2>4, <2>5, <3>2, <4>1, SellShortens
    <3> QED BY <3>1, <3>2
  <2> QED BY <2>5, <2>6 DEF Shorter, Rank
<1> QED BY <1>1, <1>2, <1>3 DEF AttemptExit

\* Between a start of the process and its crash no step lengthens an exit, and in live
\* mode every visit that finds it due shortens or ends it.
THEOREM ExitsConverge == Spec => ExitConverges
<1> DEFINE Step ==
             phase # "down" /\ phase' # "down" /\ Exiting(pos) /\ Exiting(pos') =>
               /\ Rank(pos') \in Nat /\ Rank(pos') <= Rank(pos)
               /\ Mark /\ mode.live /\ Due(pos) => Rank(pos') < Rank(pos)
<1>1. TypeOK /\ TypeOK' /\ [Next]_vars => [Step]_vars
  <2> SUFFICES ASSUME TypeOK, TypeOK', Next, phase # "down", phase' # "down",
                      Exiting(pos), Exiting(pos')
               PROVE  /\ Rank(pos') \in Nat /\ Rank(pos') <= Rank(pos)
                      /\ Mark /\ mode.live /\ Due(pos) => Rank(pos') < Rank(pos)
    OBVIOUS
  <2>1. /\ pos \in Position /\ pos' \in Position /\ wallet \in 0..Qty
        /\ Rank(pos) \in Nat /\ Rank(pos') \in Nat
    BY RankType DEF TypeOK
  <2>2. CASE Mark
    <3>1. CASE MarkPending
      <4>1. CASE pos.waiting
        BY <2>1, <3>1, <4>1 DEF MarkPending, Due
      <4>2. CASE AttemptExit(pos, plan, FALSE)
        <5>1. pos.retries < RetryMax
          BY <3>1 DEF MarkPending
        <5>2. Shorter(pos, pos') \/ (pos' = pos /\ ~Due(pos))
          BY <2>1, <4>2, <5>1, AttemptShortens DEF Due
        <5> QED BY <2>1, <5>2 DEF Shorter
      <4> QED BY <3>1, <4>1, <4>2 DEF MarkPending
    <3>2. CASE MarkExhausted
      <4>1. pos'.status = "EXIT_BLOCKED"
        BY <2>1, <3>2 DEF MarkExhausted, Position
      <4> QED BY <4>1 DEF Exiting
    <3>3. ~MarkBlocked /\ ~MarkUnconfirmedEntry /\ ~MarkIdle
      BY DEF MarkBlocked, MarkUnconfirmedEntry, MarkIdle, NothingToDo, Evaluated, Exiting
    <3>4. ~MarkHardExit /\ ~MarkSoftExit /\ ~MarkTakeProfit /\ ~MarkHachi
      BY DEF MarkHardExit, MarkSoftExit, MarkTakeProfit, MarkHachi, Evaluated, Exiting
    <3> QED BY <2>2, <3>1, <3>2, <3>3, <3>4 DEF Mark
  <2>3. ASSUME NEW expired \in BOOLEAN, BeginCycle(expired)
        PROVE  Rank(pos') = Rank(pos) /\ ~Mark
    <3>1. pos'.drip = pos.drip /\ pos'.dripLeft = pos.dripLeft /\ pos'.retries = pos.retries
      BY <2>1, <2>3 DEF BeginCycle, Position
    <3>2. ~Mark
      BY <2>3, MarkPhases DEF BeginCycle
    <3> QED BY <3>1, <3>2 DEF Rank
  <2>4. CASE Persist
    BY <2>1, <2>4, MarkPhases DEF Persist
  <2>5. ~Crash /\ ~Restart
    BY DEF Crash, Restart
  <2> QED BY <2>1, <2>2, <2>3, <2>4, <2>5 DEF Next
<1> QED BY <1>1, TypeCorrect, PTL DEF Spec, ExitConverges

-----------------------------------------------------------------------------
(***************************************************************************)
(* What no fault and no crash changes.                                     *)
(***************************************************************************)

\* Whatever is lost, misread or booked on Jupiter's word alone, what the books still hold
\* and what they were paid together never exceed what the entry bought: also after the
\* correction of an entry's quantity, and after a crash and its recovery.
THEOREM BooksWithinEntry == Spec => [](WithinEntry(pos) /\ WithinEntry(disk))
<1>1. Init => TypeInv
  BY TypeInit
<1>2. TypeInv /\ [Next]_vars => TypeInv'
  BY TypeStep
<1>3. TypeInv => WithinEntry(pos) /\ WithinEntry(disk)
  BY DEF TypeInv, GoodPosition
<1> QED BY <1>1, <1>2, <1>3, PTL DEF Spec

\* Some branch of _mark_positions is for this position.  A RECONCILE_PENDING without a
\* context is the state that none of them would touch.
Handled(p) == p.status = "RECONCILE_PENDING" => p.context \in {"entry", "exit"}

SomeBranch ==
  \/ pos.status = "EXIT_BLOCKED"
  \/ Exiting(pos) /\ pos.retries >= RetryMax
  \/ Exiting(pos) /\ pos.retries < RetryMax
  \/ pos.status = "RECONCILE_PENDING" /\ pos.context = "entry"
  \/ Evaluated
  \/ pos.status = "CLOSED"

HandledInv == TypeInv /\ Handled(pos) /\ Handled(disk)

LEMMA ResultsHandled ==
  ASSUME NEW p \in Position, NEW q \in 0..Qty, NEW sig, NEW armHachi \in BOOLEAN
  PROVE  /\ Handled(ReconcileExit(p)) /\ Handled(UnconfirmedSale(p, sig))
         /\ Handled(UnpaidSale(p, q, sig)) /\ Handled(FailedSale(p))
         /\ Handled(ThresholdFailure(p, q)) /\ Handled(SkippedSale(p))
         /\ Handled(BookedSale(p, q, armHachi))
<1>1. ReconcileExit(p).context = "exit"
  BY DEF Position, ReconcileExit, ClearDrip
<1>2. UnconfirmedSale(p, sig).context = "exit"
  BY DEF Position, UnconfirmedSale, ReconcileExit, ClearDrip
<1>3. UnpaidSale(p, q, sig).context = "exit"
  BY DEF Position, UnpaidSale, ReconcileExit, ClearDrip
<1>4. FailedSale(p).status = "EXIT_BLOCKED"
  BY DEF Position, FailedSale, ClearDrip
<1>5. ThresholdFailure(p, q).status = "EXIT_BLOCKED"
  BY DEF Position, ThresholdFailure, ClearDrip
<1>6. SkippedSale(p).status = "EXIT_PENDING"
  BY DEF Position, SkippedSale, ClearDrip
<1>7. BookedSale(p, q, armHachi).status \in {"EXIT_PENDING", "CLOSED", "PARTIAL"}
  BY DEF Position, BookedSale, ClearDrip
<1> QED BY <1>1, <1>2, <1>3, <1>4, <1>5, <1>6, <1>7 DEF Handled

LEMMA AttemptHandled ==
  ASSUME NEW p \in Position, Handled(p), wallet \in 0..Qty, NEW allowance,
         NEW armHachi \in BOOLEAN, AttemptExit(p, allowance, armHachi)
  PROVE  Handled(pos')
<1>1. CASE MissingQty(p, allowance)
  <2>1. pos'.status = "EXIT_BLOCKED"
    BY <1>1 DEF MissingQty, ClearDrip, Position
  <2> QED BY <2>1 DEF Handled
<1>2. CASE ChunkNotDue(p, allowance)
  BY <1>2 DEF ChunkNotDue
<1>3. CASE SubmitSell(p, allowance, armHachi)
  <2>1. PICK want \in Wanted(p), read \in Reads(wallet) :
          LET short == read # NoRead /\ read < want
              q == IF short THEN read ELSE want
              p1 == IF short THEN Adjusted(p, q) ELSE p
          IN  IF q = 0
              THEN pos' = ReconcileExit(p1) /\ NoSwap(allowance)
              ELSE Sell(p1, q, allowance, armHachi)
    BY <1>3 DEF SubmitSell
  <2> DEFINE short == read # NoRead /\ read < want
             q == IF short THEN read ELSE want
             p1 == IF short THEN Adjusted(p, q) ELSE p
  <2>2. want \in 0..p.remaining /\ p.remaining \in 0..Qty
    BY <2>1, WantedBounded DEF Position
  <2>3. q \in 0..Qty
    BY <2>1, <2>2, QtyAssumption DEF Reads, NoRead
  <2>4. IF q = 0 THEN pos' = ReconcileExit(p1) /\ NoSwap(allowance)
                 ELSE Sell(p1, q, allowance, armHachi)
    BY <2>1
  <2> HIDE DEF short, q
  <2>5. p1 \in Position
    BY <2>3 DEF Adjusted, Position
  <2> HIDE DEF p1
  <2>6. PICK sig : \/ pos' \in {ReconcileExit(p1), FailedSale(p1), SkippedSale(p1)}
                   \/ pos' = ThresholdFailure(p1, q)
                   \/ pos' = UnconfirmedSale(p1, sig)
                   \/ pos' = BookedSale(p1, q, armHachi)
                   \/ pos' = UnpaidSale(p1, q, sig)
    BY <2>4 DEF Sell, SellRefused, SellThreshold, SellSkipped, SellReplyLost, SellAnswered
  <2> QED BY <2>3, <2>5, <2>6, ResultsHandled
<1> QED BY <1>1, <1>2, <1>3 DEF AttemptExit

LEMMA StartHandled ==
  ASSUME NEW p, GoodPosition(p), wallet \in 0..Qty,
         NEW qty \in Int, NEW reason \in Reasons, NEW armHachi \in BOOLEAN,
         StartExit(p, qty, reason, armHachi)
  PROVE  Handled(pos')
<1>1. PICK q, r : /\ GoodPosition(r) /\ r.status = "EXIT_PENDING"
                  /\ AttemptExit(r, q, armHachi)
  BY StartPrepares
<1> QED BY <1>1, AttemptHandled DEF GoodPosition, Handled

LEMMA MarkHandled ==
  ASSUME HandledInv, Mark
  PROVE  Handled(pos')
<1>1. /\ GoodPosition(pos) /\ pos \in Position /\ wallet \in 0..Qty /\ Handled(pos)
      /\ pos.remaining \in Int /\ pos.remaining \in Nat /\ pos.tpDone \in 0..TpSteps
  BY QtyAssumption DEF HandledInv, TypeInv, TypeOK, GoodPosition, Position
<1>2. Reasons = {"none", "hard", "take_profit", "hachi_dripper", "threshold"}
  BY DEF Reasons
<1>3. CASE UNCHANGED <<pos, wallet, plan>>
  BY <1>1, <1>3
<1>4. CASE AttemptExit(pos, plan, FALSE)
  BY <1>1, <1>4, AttemptHandled
<1>5. CASE MarkBlocked \/ MarkPending \/ MarkIdle
  BY <1>3, <1>4, <1>5 DEF MarkBlocked, MarkPending, MarkIdle
<1>6. CASE MarkExhausted
  <2>1. pos'.status = "EXIT_BLOCKED"
    BY <1>1, <1>6 DEF MarkExhausted, Position
  <2> QED BY <2>1 DEF Handled
<1>7. CASE MarkUnconfirmedEntry
  <2>1. PICK read \in Reads(wallet) :
          IF read > 0
          THEN /\ pos' = [pos EXCEPT !.remaining = read, !.status = "OPEN", !.context = "none"]
               /\ UNCHANGED <<wallet, plan>>
          ELSE IF signal = "hard"
          THEN StartExit(pos, pos.remaining, "hard", FALSE)
          ELSE UNCHANGED <<pos, wallet, plan>>
    BY <1>7 DEF MarkUnconfirmedEntry
  <2>2. CASE read > 0
    <3>1. pos'.status = "OPEN"
      BY <1>1, <2>1, <2>2 DEF Position
    <3> QED BY <3>1 DEF Handled
  <2>3. CASE StartExit(pos, pos.remaining, "hard", FALSE)
    BY <1>1, <1>2, <2>3, StartHandled
  <2> QED BY <1>3, <2>1, <2>2, <2>3
<1>8. CASE MarkHardExit
  BY <1>1, <1>2, <1>8, StartHandled DEF MarkHardExit
<1>9. CASE MarkSoftExit
  <2>1. 50 \in 1..100
    OBVIOUS
  <2>2. Part(pos.remaining, 50) \in Int
    BY <1>1, <2>1, PartType
  <2> QED BY <1>1, <1>2, <1>9, <2>2, StartHandled DEF MarkSoftExit
<1>10. CASE MarkTakeProfit
  <2> DEFINE p == [pos EXCEPT !.tpDone = @ + 1]
  <2>1. p \in Position /\ p.remaining = pos.remaining /\ p.realized = pos.realized
        /\ p.status = pos.status /\ p.context = pos.context
    BY <1>1, <1>10, PercentAssumption DEF MarkTakeProfit, Position
  <2>2. StartExit(p, Part(pos.remaining, TpPct), "take_profit", FALSE)
    BY <1>10 DEF MarkTakeProfit
  <2> HIDE DEF p
  <2>3. GoodPosition(p)
    BY <1>1, <2>1 DEF GoodPosition, WithinEntry, EntryUnpaid
  <2>4. Part(pos.remaining, TpPct) \in Int
    BY <1>1, PartType, PercentAssumption
  <2> QED BY <1>1, <1>2, <2>2, <2>3, <2>4, StartHandled
<1>11. CASE MarkHachi
  <2>1. PICK pct \in ChunkPcts : StartExit(pos, Part(pos.remaining, pct), "hachi_dripper", TRUE)
    BY <1>11 DEF MarkHachi
  <2>2. Part(pos.remaining, pct) \in Int
    BY <1>1, PartType, PercentAssumption
  <2> QED BY <1>1, <1>2, <2>1, <2>2, StartHandled
<1> QED BY <1>5, <1>6, <1>7, <1>8, <1>9, <1>10, <1>11 DEF Mark

LEMMA RecoveredHandled ==
  ASSUME NEW p \in Position, Handled(p), NEW read, NEW txFailed \in BOOLEAN
  PROVE  Handled(Recovered(p, read, txFailed))
<1> DEFINE capped == [p EXCEPT !.remaining = Smaller(@, read)]
<1>1. capped.status = p.status /\ capped.context = p.context /\ Handled(capped)
  BY DEF Position, Handled
<1>2. ASSUME NEW s \in {"CLOSED", "EXIT_BLOCKED", "PARTIAL"}, NEW r, r.status = s
      PROVE  Handled(r)
  BY <1>2 DEF Handled
<1>3. /\ [capped EXCEPT !.status = "CLOSED", !.pendingQty = 0,
                        !.reason = "none", !.signature = "none"].status = "CLOSED"
      /\ [capped EXCEPT !.status = "EXIT_BLOCKED"].status = "EXIT_BLOCKED"
      /\ [capped EXCEPT !.status = "EXIT_BLOCKED", !.context = "none"].status = "EXIT_BLOCKED"
      /\ [capped EXCEPT !.status = "PARTIAL", !.context = "none"].status = "PARTIAL"
  BY DEF Position
<1> HIDE DEF capped
<1>4. Recovered(p, read, txFailed) \in
        { p, capped,
          [capped EXCEPT !.status = "CLOSED", !.pendingQty = 0,
                         !.reason = "none", !.signature = "none"],
          [capped EXCEPT !.status = "EXIT_BLOCKED"],
          [capped EXCEPT !.status = "EXIT_BLOCKED", !.context = "none"],
          [capped EXCEPT !.status = "PARTIAL", !.context = "none"] }
  BY DEF Recovered, capped
<1> QED BY <1>1, <1>2, <1>3, <1>4

\* The status machine has no dead end: in every order of faults, crashes and recoveries,
\* a visit finds the position in a state that one of its branches is written for.
THEOREM EveryStatusHandled == Spec => [](phase = "mark" => SomeBranch)
<1>1. Init => HandledInv
  <2>1. Init => Handled(pos) /\ Handled(disk)
    BY DEF Init, NewPosition, Handled
  <2> QED BY <2>1, TypeInit DEF HandledInv
<1>2. HandledInv /\ [Next]_vars => HandledInv'
  <2> SUFFICES ASSUME HandledInv, [Next]_vars
               PROVE  HandledInv'
    OBVIOUS
  <2>1. TypeInv'
    BY TypeStep DEF HandledInv
  <2>2. Handled(pos) /\ Handled(disk) /\ pos \in Position /\ disk \in Position
    BY DEF HandledInv, TypeInv, GoodPosition
  <2> SUFFICES Handled(pos') /\ Handled(disk')
    BY <2>1 DEF HandledInv, Handled
  <2>3. CASE Mark
    BY <2>2, <2>3, MarkHandled, MarkPhases
  <2>4. ASSUME NEW expired \in BOOLEAN, BeginCycle(expired)
        PROVE  Handled(pos') /\ Handled(disk')
    <3>1. pos'.status = pos.status /\ pos'.context = pos.context /\ disk' = disk
      BY <2>2, <2>4 DEF BeginCycle, Position
    <3> QED BY <2>2, <3>1 DEF Handled
  <2>5. CASE Persist
    BY <2>2, <2>5 DEF Persist
  <2>6. CASE Crash
    BY <2>2, <2>6 DEF Crash
  <2>7. CASE Restart
    <3>1. PICK read \in RecoveryReads(wallet), txFailed \in BOOLEAN :
            pos' = Recovered(disk, read, txFailed)
      BY <2>7 DEF Restart
    <3>2. disk' = disk
      BY <2>7 DEF Restart
    <3> QED BY <2>2, <3>1, <3>2, RecoveredHandled
  <2>8. CASE UNCHANGED vars
    BY <2>2, <2>8 DEF vars
  <2> QED BY <2>3, <2>4, <2>5, <2>6, <2>7, <2>8 DEF Next
<1>3. HandledInv => SomeBranch
  <2> SUFFICES ASSUME HandledInv
               PROVE  SomeBranch
    OBVIOUS
  <2>1. /\ pos.status \in Statuses /\ Handled(pos) /\ pos.retries \in 0..RetryCap
        /\ RetryMax \in Nat /\ RetryCap \in Nat
    BY RetryMaxAssumption DEF HandledInv, TypeInv, GoodPosition, Position, RetryCap
  <2>2. pos.retries >= RetryMax \/ pos.retries < RetryMax
    BY <2>1
  <2> QED BY <2>1, <2>2 DEF SomeBranch, Statuses, Handled, Exiting, Evaluated
<1> QED BY <1>1, <1>2, <1>3, PTL DEF Spec

\* Until the first crash a hard exit is sold whole, whatever drip came before it: the drip
\* that HardExitNotChunked finds in one is always left over from a crash.
HardExitsWhole == [][ crashes = 0 /\ MarkHardExit => ~pos'.drip ]_vars

\* Only the start of a take-profit exit sets up a drip: an attempt never does.
LEMMA NoDripAppears ==
  ASSUME NEW p \in Position, ~p.drip, wallet \in 0..Qty, NEW allowance,
         NEW armHachi \in BOOLEAN, AttemptExit(p, allowance, armHachi)
  PROVE  ~pos'.drip
<1>1. ASSUME NEW r \in Position, ~r.drip, NEW q, NEW sig
      PROVE  /\ ~ReconcileExit(r).drip /\ ~UnconfirmedSale(r, sig).drip
             /\ ~UnpaidSale(r, q, sig).drip /\ ~FailedSale(r).drip
             /\ ~ThresholdFailure(r, q).drip /\ ~SkippedSale(r).drip
  BY <1>1 DEF Position, ReconcileExit, UnconfirmedSale, UnpaidSale, FailedSale,
              ThresholdFailure, SkippedSale, ClearDrip
<1>2. ASSUME NEW r \in Position, ~r.drip, NEW q
      PROVE  ~BookedSale(r, q, armHachi).drip
  BY <1>2 DEF Position, BookedSale, ClearDrip
<1>3. CASE MissingQty(p, allowance) \/ ChunkNotDue(p, allowance)
  BY <1>3 DEF MissingQty, ChunkNotDue, ClearDrip, Position
<1>4. CASE SubmitSell(p, allowance, armHachi)
  <2>1. PICK want \in Wanted(p), read \in Reads(wallet) :
          LET short == read # NoRead /\ read < want
              q == IF short THEN read ELSE want
              p1 == IF short THEN Adjusted(p, q) ELSE p
          IN  IF q = 0
              THEN pos' = ReconcileExit(p1) /\ NoSwap(allowance)
              ELSE Sell(p1, q, allowance, armHachi)
    BY <1>4 DEF SubmitSell
  <2> DEFINE short == read # NoRead /\ read < want
             q == IF short THEN read ELSE want
             p1 == IF short THEN Adjusted(p, q) ELSE p
  <2>2. want \in 0..p.remaining /\ p.remaining \in 0..Qty
    BY <2>1, WantedBounded DEF Position
  <2>3. q \in 0..Qty
    BY <2>1, <2>2, QtyAssumption DEF Reads, NoRead
  <2>4. IF q = 0 THEN pos' = ReconcileExit(p1) /\ NoSwap(allowance)
                 ELSE Sell(p1, q, allowance, armHachi)
    BY <2>1
  <2> HIDE DEF short, q
  <2>5. p1 \in Position /\ ~p1.drip
    BY <2>3 DEF Adjusted, Position
  <2> HIDE DEF p1
  <2>6. PICK sig : \/ pos' \in {ReconcileExit(p1), FailedSale(p1), SkippedSale(p1)}
                   \/ pos' = ThresholdFailure(p1, q)
                   \/ pos' = UnconfirmedSale(p1, sig)
                   \/ pos' = BookedSale(p1, q, armHachi)
                   \/ pos' = UnpaidSale(p1, q, sig)
    BY <2>4 DEF Sell, SellRefused, SellThreshold, SellSkipped, SellReplyLost, SellAnswered
  <2> QED BY <1>1, <1>2, <2>5, <2>6
<1> QED BY <1>3, <1>4 DEF AttemptExit

\* Until the first crash the visit that starts a hard exit leaves no drip behind.
THEOREM HardExitsAreWhole == Spec => HardExitsWhole
<1>1. OrderlyInv /\ [Next]_vars => [ crashes = 0 /\ MarkHardExit => ~pos'.drip ]_vars
  <2> SUFFICES ASSUME OrderlyInv, crashes = 0, MarkHardExit
               PROVE  ~pos'.drip
    OBVIOUS
  <2> DEFINE q == Smaller(Larger(1, pos.remaining), pos.remaining)
             p3 == [[pos EXCEPT !.chunkWaiting = FALSE]
                      EXCEPT !.status = "EXIT_PENDING", !.reason = "hard", !.pendingQty = q]
  <2>1. pos \in Position /\ wallet \in 0..Qty /\ ~pos.drip
    BY DEF OrderlyInv, TypeInv, TypeOK, GoodPosition, Orderly, DripReady, MarkHardExit, Evaluated
  <2>2. q \in 0..Qty
    BY <2>1, QtyAssumption DEF Position, Smaller, Larger
  <2>3. AttemptExit(p3, q, FALSE)
    BY DEF MarkHardExit, StartExit
  <2> HIDE DEF q
  <2>4. p3 \in Position /\ ~p3.drip
    BY <2>1, <2>2 DEF Position, Statuses, Reasons
  <2> HIDE DEF p3
  <2> QED BY <2>1, <2>3, <2>4, NoDripAppears
<1> QED BY <1>1, OrderlyAlways, PTL DEF Spec, HardExitsWhole

-----------------------------------------------------------------------------
(***************************************************************************)
(* The ladder over crashes.  A step of the ladder is marked done by the    *)
(* visit that starts its exit, and saved with the cycle.  A crash between  *)
(* the two forgets the mark, and the step is started again.                *)
(***************************************************************************)

\* Steps marked done and crashes together never become fewer, so a crash undoes one mark at
\* most, and every start of a take-profit exit adds one (take_profit_steps_done,
\* _persist_cycle).  Counted are exits that are started, not sales: what an exit then
\* sells over its retries is NeverOverSell's matter.
TakeProfitsCounted ==
  [][ /\ pos'.tpDone + crashes' >= pos.tpDone + crashes
      /\ MarkTakeProfit => pos'.tpDone + crashes' > pos.tpDone + crashes ]_vars

\* The process is at most one step of the ladder ahead of its state file, and only between
\* a visit and the save.
StepsInv ==
  /\ TypeInv /\ FromDisk
  /\ phase # "save" => pos.tpDone = disk.tpDone
  /\ pos.tpDone \in {disk.tpDone, disk.tpDone + 1}

\* No attempt touches the steps of the ladder, whatever its result.
LEMMA AttemptKeepsSteps ==
  ASSUME NEW p \in Position, wallet \in 0..Qty, NEW allowance,
         NEW armHachi \in BOOLEAN, AttemptExit(p, allowance, armHachi)
  PROVE  pos'.tpDone = p.tpDone
<1>1. ASSUME NEW r \in Position, NEW q, NEW sig
      PROVE  /\ ReconcileExit(r).tpDone = r.tpDone /\ UnconfirmedSale(r, sig).tpDone = r.tpDone
             /\ UnpaidSale(r, q, sig).tpDone = r.tpDone /\ FailedSale(r).tpDone = r.tpDone
             /\ ThresholdFailure(r, q).tpDone = r.tpDone /\ SkippedSale(r).tpDone = r.tpDone
  BY DEF Position, ReconcileExit, UnconfirmedSale, UnpaidSale, FailedSale,
         ThresholdFailure, SkippedSale, ClearDrip
<1>2. ASSUME NEW r \in Position, NEW q
      PROVE  BookedSale(r, q, armHachi).tpDone = r.tpDone
  BY DEF Position, BookedSale, ClearDrip
<1>3. CASE MissingQty(p, allowance) \/ ChunkNotDue(p, allowance)
  BY <1>3 DEF MissingQty, ChunkNotDue, ClearDrip, Position
<1>4. CASE SubmitSell(p, allowance, armHachi)
  <2>1. PICK want \in Wanted(p), read \in Reads(wallet) :
          LET short == read # NoRead /\ read < want
              q == IF short THEN read ELSE want
              p1 == IF short THEN Adjusted(p, q) ELSE p
          IN  IF q = 0
              THEN pos' = ReconcileExit(p1) /\ NoSwap(allowance)
              ELSE Sell(p1, q, allowance, armHachi)
    BY <1>4 DEF SubmitSell
  <2> DEFINE short == read # NoRead /\ read < want
             q == IF short THEN read ELSE want
             p1 == IF short THEN Adjusted(p, q) ELSE p
  <2>2. want \in 0..p.remaining /\ p.remaining \in 0..Qty
    BY <2>1, WantedBounded DEF Position
  <2>3. q \in 0..Qty
    BY <2>1, <2>2, QtyAssumption DEF Reads, NoRead
  <2>4. IF q = 0 THEN pos' = ReconcileExit(p1) /\ NoSwap(allowance)
                 ELSE Sell(p1, q, allowance, armHachi)
    BY <2>1
  <2> HIDE DEF short, q
  <2>5. p1 \in Position /\ p1.tpDone = p.tpDone
    BY <2>3 DEF Adjusted, Position
  <2> HIDE DEF p1
  <2>6. PICK sig : \/ pos' \in {ReconcileExit(p1), FailedSale(p1), SkippedSale(p1)}
                   \/ pos' = ThresholdFailure(p1, q)
                   \/ pos' = UnconfirmedSale(p1, sig)
                   \/ pos' = BookedSale(p1, q, armHachi)
                   \/ pos' = UnpaidSale(p1, q, sig)
    BY <2>4 DEF Sell, SellRefused, SellThreshold, SellSkipped, SellReplyLost, SellAnswered
  <2> QED BY <1>1, <1>2, <2>5, <2>6
<1> QED BY <1>3, <1>4 DEF AttemptExit

\* Nor does the start of an exit.
LEMMA StartKeepsSteps ==
  ASSUME NEW p \in Position, wallet \in 0..Qty,
         NEW qty \in Int, NEW reason \in Reasons, NEW armHachi \in BOOLEAN,
         StartExit(p, qty, reason, armHachi)
  PROVE  pos'.tpDone = p.tpDone
<1> DEFINE q == Smaller(Larger(1, qty), p.remaining)
           p1 == IF reason = "hard" THEN [p EXCEPT !.chunkWaiting = FALSE] ELSE p
           p2 == IF mode.sell = "drip" /\ reason = "take_profit"
                 THEN [p1 EXCEPT !.drip = TRUE, !.dripLeft = q, !.chunkWaiting = FALSE]
                 ELSE p1
           p3 == [p2 EXCEPT !.status = "EXIT_PENDING", !.reason = reason, !.pendingQty = q]
<1>1. AttemptExit(p3, q, armHachi)
  BY DEF StartExit
<1>2. q \in 0..Qty
  BY QtyAssumption DEF Position, Smaller, Larger
<1> HIDE DEF q
<1>3. p1 \in Position /\ p1.tpDone = p.tpDone
  BY DEF Position
<1> HIDE DEF p1
<1>4. p2 \in Position /\ p2.tpDone = p.tpDone
  BY <1>2, <1>3 DEF Position
<1> HIDE DEF p2
<1>5. p3 \in Position /\ p3.tpDone = p.tpDone
  BY <1>2, <1>4 DEF Position, Statuses
<1> HIDE DEF p3
<1> QED BY <1>1, <1>5, AttemptKeepsSteps

\* A visit marks one step exactly when it starts a take-profit exit.
LEMMA MarkCountsSteps ==
  ASSUME TypeInv, Mark
  PROVE  pos'.tpDone = IF MarkTakeProfit THEN pos.tpDone + 1 ELSE pos.tpDone
<1>1. /\ pos \in Position /\ wallet \in 0..Qty
      /\ pos.remaining \in Int /\ pos.remaining \in Nat /\ pos.tpDone \in 0..TpSteps
  BY QtyAssumption DEF TypeInv, TypeOK, GoodPosition, Position
<1>2. "hard" \in Reasons /\ "take_profit" \in Reasons /\ "hachi_dripper" \in Reasons
  BY DEF Reasons
<1>3. ASSUME NEW pct \in 1..100 PROVE Part(pos.remaining, pct) \in Int
  BY <1>1, PartType
<1>4. CASE MarkTakeProfit
  <2> DEFINE p == [pos EXCEPT !.tpDone = @ + 1]
  <2>1. p \in Position /\ p.tpDone = pos.tpDone + 1
    BY <1>1, <1>4, PercentAssumption DEF MarkTakeProfit, Position
  <2>2. StartExit(p, Part(pos.remaining, TpPct), "take_profit", FALSE)
    BY <1>4 DEF MarkTakeProfit
  <2> HIDE DEF p
  <2> QED BY <1>1, <1>2, <1>3, <1>4, <2>1, <2>2, StartKeepsSteps, PercentAssumption
<1>5. ASSUME ~MarkTakeProfit
      PROVE  pos'.tpDone = pos.tpDone
  <2>1. CASE UNCHANGED pos
    BY <2>1
  <2>2. CASE AttemptExit(pos, plan, FALSE)
    BY <1>1, <2>2, AttemptKeepsSteps
  <2>3. CASE StartExit(pos, pos.remaining, "hard", FALSE)
    BY <1>1, <1>2, <2>3, StartKeepsSteps
  <2>4. CASE MarkBlocked \/ MarkPending \/ MarkIdle
    BY <2>1, <2>2, <2>4 DEF MarkBlocked, MarkPending, MarkIdle
  <2>5. CASE MarkExhausted
    BY <1>1, <2>5 DEF MarkExhausted, Position
  <2>6. CASE MarkUnconfirmedEntry
    <3>1. PICK read \in Reads(wallet) :
            \/ pos' = [pos EXCEPT !.remaining = read, !.status = "OPEN", !.context = "none"]
            \/ StartExit(pos, pos.remaining, "hard", FALSE)
            \/ UNCHANGED pos
      BY <2>6 DEF MarkUnconfirmedEntry
    <3>2. CASE pos' = [pos EXCEPT !.remaining = read, !.status = "OPEN", !.context = "none"]
      BY <1>1, <3>2 DEF Position
    <3> QED BY <2>1, <2>3, <3>1, <3>2
  <2>7. CASE MarkHardExit
    BY <2>3, <2>7 DEF MarkHardExit
  <2>8. CASE MarkSoftExit
    <3>1. 50 \in 1..100
      OBVIOUS
    <3> QED BY <1>1, <1>2, <1>3, <2>8, <3>1, StartKeepsSteps DEF MarkSoftExit
  <2>9. CASE MarkHachi
    <3>1. PICK pct \in ChunkPcts : StartExit(pos, Part(pos.remaining, pct), "hachi_dripper", TRUE)
      BY <2>9 DEF MarkHachi
    <3> QED BY <1>1, <1>2, <1>3, <3>1, StartKeepsSteps, PercentAssumption
  <2> QED BY <1>5, <2>4, <2>5, <2>6, <2>7, <2>8, <2>9 DEF Mark
<1> QED BY <1>4, <1>5

LEMMA RecoveredKeepsSteps ==
  ASSUME NEW p \in Position, NEW read, NEW txFailed
  PROVE  Recovered(p, read, txFailed).tpDone = p.tpDone
<1> DEFINE capped == [p EXCEPT !.remaining = Smaller(@, read)]
           results == { p, capped,
                        [capped EXCEPT !.status = "CLOSED", !.pendingQty = 0,
                                       !.reason = "none", !.signature = "none"],
                        [capped EXCEPT !.status = "EXIT_BLOCKED"],
                        [capped EXCEPT !.status = "EXIT_BLOCKED", !.context = "none"],
                        [capped EXCEPT !.status = "PARTIAL", !.context = "none"] }
<1>1. Recovered(p, read, txFailed) \in results
  BY DEF Recovered
<1>2. \A r \in results : r.tpDone = p.tpDone
  BY DEF Position
<1> QED BY <1>1, <1>2

\* What one step does to the steps of the ladder.
LEMMA StepsStep ==
  ASSUME StepsInv, [Next]_vars
  PROVE  /\ StepsInv'
         /\ pos'.tpDone + crashes' >= pos.tpDone + crashes
         /\ MarkTakeProfit => pos'.tpDone + crashes' > pos.tpDone + crashes
<1>1. /\ pos \in Position /\ disk \in Position /\ pos.tpDone \in Int /\ disk.tpDone \in Int
      /\ crashes \in Int
  <2>1. \A p \in Position : p.tpDone \in Int
    BY PercentAssumption DEF Position
  <2> QED BY <2>1, EnvironmentAssumption DEF StepsInv, TypeInv, TypeOK, GoodPosition
<1>2. TypeInv' /\ FromDisk'
  BY TypeStep, FromDiskStep DEF StepsInv
<1> DEFINE AsBefore == /\ pos'.tpDone = pos.tpDone /\ disk'.tpDone = disk.tpDone
                       /\ crashes' = crashes /\ ~MarkTakeProfit
<1>3. ASSUME AsBefore, phase # "save" \/ phase' = "save"
      PROVE  /\ StepsInv'
             /\ pos'.tpDone + crashes' >= pos.tpDone + crashes
             /\ MarkTakeProfit => pos'.tpDone + crashes' > pos.tpDone + crashes
  BY <1>1, <1>2, <1>3 DEF StepsInv
<1>4. MarkTakeProfit => Mark
  BY DEF Mark
<1>5. CASE Mark
  <2>1. phase = "mark" /\ phase' = "save" /\ disk' = disk /\ crashes' = crashes
    BY <1>5, MarkPhases
  <2>2. pos'.tpDone = IF MarkTakeProfit THEN pos.tpDone + 1 ELSE pos.tpDone
    BY <1>5, MarkCountsSteps DEF StepsInv
  <2>3. pos.tpDone = disk.tpDone
    BY <2>1 DEF StepsInv
  <2>4. pos'.tpDone \in {disk'.tpDone, disk'.tpDone + 1}
    BY <2>1, <2>2, <2>3
  <2> QED BY <1>1, <1>2, <2>1, <2>2, <2>4 DEF StepsInv
<1>6. ASSUME NEW expired \in BOOLEAN, BeginCycle(expired)
      PROVE  AsBefore /\ phase # "save"
  BY <1>1, <1>4, <1>6, MarkPhases DEF BeginCycle, Position
<1>7. CASE Persist
  <2>1. /\ pos' = pos /\ disk' = pos /\ crashes' = crashes /\ phase = "save"
    BY <1>7 DEF Persist
  <2>2. ~MarkTakeProfit
    BY <1>4, <2>1, MarkPhases
  <2> QED BY <1>1, <1>2, <2>1, <2>2 DEF StepsInv
<1>8. CASE Crash
  <2>1. pos' = disk /\ disk' = disk /\ crashes' = crashes + 1 /\ phase' = "down"
    BY <1>8 DEF Crash
  <2>2. ~MarkTakeProfit
    BY <1>4, <2>1, MarkPhases
  <2>3. pos.tpDone <= disk.tpDone + 1
    BY <1>1 DEF StepsInv
  <2> QED BY <1>1, <1>2, <2>1, <2>2, <2>3 DEF StepsInv
<1>9. CASE Restart
  <2>1. PICK read \in RecoveryReads(wallet), txFailed \in BOOLEAN :
          pos' = Recovered(disk, read, txFailed)
    BY <1>9 DEF Restart
  <2>2. phase = "down" /\ disk' = disk /\ crashes' = crashes
    BY <1>9 DEF Restart
  <2>3. pos'.tpDone = disk.tpDone
    BY <1>1, <2>1, RecoveredKeepsSteps
  <2>4. pos.tpDone = disk.tpDone /\ ~MarkTakeProfit
    BY <1>4, <2>2, MarkPhases DEF StepsInv
  <2> QED BY <1>3, <2>2, <2>3, <2>4
<1>10. CASE UNCHANGED vars
  <2>1. pos' = pos /\ disk' = disk /\ crashes' = crashes /\ phase' = phase
    BY <1>10 DEF vars
  <2>2. ~MarkTakeProfit
    BY <1>4, <2>1, MarkPhases
  <2> QED BY <1>1, <1>2, <2>1, <2>2 DEF StepsInv
<1> QED BY <1>3, <1>5, <1>6, <1>7, <1>8, <1>9, <1>10 DEF Next

\* A position starts at most TpSteps take-profit exits, and one more for each crash that
\* comes between a start and the save: whatever fails, and whatever the recovery finds.
THEOREM TakeProfitsBounded ==
  Spec => TakeProfitsCounted /\ [](pos.tpDone + crashes <= TpSteps + MaxCrashes)
<1>1. Init => StepsInv
  <2>1. Init => pos = disk /\ phase = "idle"
    BY DEF Init
  <2>2. TypeInv => pos.tpDone \in Int
    BY PercentAssumption DEF TypeInv, GoodPosition, Position
  <2> QED BY <2>1, <2>2, TypeInit DEF StepsInv, FromDisk
<1>2. StepsInv /\ [Next]_vars => StepsInv'
  BY StepsStep
<1>3. StepsInv /\ [Next]_vars =>
        [ /\ pos'.tpDone + crashes' >= pos.tpDone + crashes
          /\ MarkTakeProfit => pos'.tpDone + crashes' > pos.tpDone + crashes ]_vars
  BY StepsStep
<1>4. StepsInv => pos.tpDone + crashes <= TpSteps + MaxCrashes
  <2> SUFFICES ASSUME StepsInv PROVE pos.tpDone + crashes <= TpSteps + MaxCrashes
    OBVIOUS
  <2>1. pos.tpDone \in 0..TpSteps /\ crashes \in 0..MaxCrashes
    BY DEF StepsInv, TypeInv, TypeOK, GoodPosition, Position
  <2> QED BY <2>1, PercentAssumption, EnvironmentAssumption
<1> QED BY <1>1, <1>2, <1>3, <1>4, PTL DEF Spec, TakeProfitsCounted
=============================================================================
