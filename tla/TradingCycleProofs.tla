------------------------- MODULE TradingCycleProofs -------------------------
(***************************************************************************)
(* Proofs about TradingCycle, for every finite set of mints, every setting *)
(* of the limits and every set of faults, unless a theorem says otherwise. *)
(***************************************************************************)
EXTENDS TradingCycle, FiniteSetTheorems, TLAPS

-----------------------------------------------------------------------------
(* Arithmetic and slots *)

LEMMA DayType ==
  ASSUME NEW time \in Nat
  PROVE  Day(time) \in Nat
  BY TimeAssumption DEF Day

LEMMA NeverType ==
  ASSUME NEW time \in 0..MaxTime
  PROVE  Never \in Never..MaxTime /\ time \in Never..MaxTime
  BY TimeAssumption DEF Never

LEMMA OpenFinite ==
  ASSUME NEW p
  PROVE  IsFiniteSet(Open(p)) /\ Cardinality(Open(p)) \in Nat
<1>1. Open(p) \in SUBSET Mints
  BY DEF Open, In
<1> QED BY <1>1, MintsAssumption, FS_Subset, FS_CardinalityType

LEMMA MovesAreSlots ==
  ASSUME NEW s \in Slots
  PROVE  /\ VisitMoves(s) \subseteq Slots
         /\ FailedMoves(s) \subseteq Slots
         /\ RecoveryMoves(s) \subseteq Slots
         /\ "none" \notin FailedMoves(s)
         /\ s = "none" => VisitMoves(s) = {"none"} /\ RecoveryMoves(s) = {"none"}
  BY DEF Slots, VisitMoves, FailedMoves, RecoveryMoves

LEMMA NewPortfolioType ==
  ASSUME NEW time \in 0..MaxTime
  PROVE  NewPortfolio(time) \in Portfolio
<1>1. Day(time) \in Nat /\ Never \in Never..MaxTime /\ StartCash \in Int
  BY DayType, NeverType, MoneyAssumption, TimeAssumption
<1> QED BY <1>1 DEF NewPortfolio, Portfolio, Slots, Rails

LEMMA RolloverType ==
  ASSUME NEW p \in Portfolio, NEW time \in 0..MaxTime
  PROVE  /\ Rollover(p, time) \in Portfolio
         /\ Rollover(p, time).slot = p.slot /\ Rollover(p, time).cash = p.cash
         /\ Rollover(p, time).realized = p.realized
         /\ Rollover(p, time).failures = p.failures
         /\ Rollover(p, time).closedAt = p.closedAt
         /\ Rollover(p, time).opened \in {0, p.opened}
<1>1. Day(time) \in Nat
  BY DayType, TimeAssumption
<1> QED BY <1>1 DEF Rollover, Portfolio

LEMMA RailType ==
  ASSUME NEW p \in Portfolio, NEW stale
  PROVE  /\ Rail(p, stale) \in Rails
         /\ Rail(p, stale) = "none" =>
              /\ p.realized > -LossCap /\ p.failures < MaxFailures
              /\ ~(Cardinality(Exiting(p)) >= MaxExiting)
              /\ ~(Cardinality(Blocked(p)) >= MaxBlocked)
<1>1. p.realized \in Int /\ p.failures \in Int /\ LossCap \in Int /\ MaxFailures \in Int
  BY MoneyAssumption, LimitsAssumption DEF Portfolio
<1>2. CASE p.realized <= -LossCap
  <2>1. Rail(p, stale) = "loss"
    BY <1>1, <1>2 DEF Rail
  <2> QED BY <2>1 DEF Rails
<1>3. CASE p.realized > -LossCap /\ p.failures >= MaxFailures
  <2>1. Rail(p, stale) = "failures"
    BY <1>1, <1>3 DEF Rail
  <2> QED BY <2>1 DEF Rails
<1>4. CASE p.realized > -LossCap /\ p.failures < MaxFailures
  BY <1>1, <1>4 DEF Rail, Rails
<1> QED BY <1>1, <1>2, <1>3, <1>4

-----------------------------------------------------------------------------
(* What a step of the entries and a visit of a position do. *)

\* The portfolio after a buy of m.
Entered(m) ==
  /\ live /\ Eligible(m)
  /\ Open(pf') = Open(pf) \cup {m} /\ m \notin Open(pf)
  /\ pf'.cash = pf.cash - Size
  /\ pf'.opened = pf.opened + 1
  /\ pf'.failures <= pf.failures
  /\ todo' = IF Cardinality(Open(pf')) >= MaxOpen THEN {} ELSE todo \ {m}

NotEntered(m) ==
  /\ Open(pf') = Open(pf)
  /\ pf'.cash = pf.cash
  /\ pf'.opened = pf.opened
  /\ todo' = todo \ {m}
  /\ pf'.failures \in {pf.failures, pf.failures + 1}
  /\ ~live => sol' = sol

EntryEffect(m) ==
  /\ phase = "entries" /\ m \in todo
  /\ UNCHANGED <<saved, phase, live, now, crashes, closed, lost>>
  /\ pf' \in Portfolio /\ sol' \in Int
  /\ pf'.realized = pf.realized /\ pf'.closedAt = pf.closedAt /\ pf'.stop = pf.stop
  /\ Exiting(pf') = Exiting(pf) /\ Blocked(pf') = Blocked(pf)
  /\ Entered(m) \/ NotEntered(m)

LEMMA EntryStepEffect ==
  ASSUME TypeOK, NEW m \in Mints, EntryStep(m)
  PROVE  EntryEffect(m)
<1>1. /\ pf \in Portfolio /\ sol \in Int /\ sol - Size \in Int
      /\ pf.failures \in Nat /\ pf.failures + 1 \in Nat /\ pf.failures + 1 >= pf.failures
      /\ pf.failures >= pf.failures
      /\ pf.opened + 1 \in Nat /\ pf.cash - Size \in Int
  BY MoneyAssumption DEF TypeOK, Portfolio
<1>2. /\ phase = "entries" /\ m \in todo
      /\ UNCHANGED <<saved, phase, live, now, crashes, closed, lost>>
  BY DEF EntryStep, PassOver, BuySkipped, BuyFailed, BuySettled, BuyUnsettled, Candidate
<1>3. CASE PassOver(m) \/ BuySkipped(m)
  <2>1. UNCHANGED <<pf, sol>> /\ todo' = todo \ {m}
    BY <1>3 DEF PassOver, BuySkipped
  <2> QED BY <1>1, <1>2, <2>1 DEF EntryEffect, NotEntered
<1>4. CASE BuyFailed(m)
  <2>1. /\ pf' = [pf EXCEPT !.failures = @ + 1]
        /\ sol' \in {sol, sol - Size} /\ (~live => sol' = sol)
        /\ todo' = todo \ {m}
    BY <1>4 DEF BuyFailed
  <2>2. /\ pf' \in Portfolio /\ pf'.slot = pf.slot /\ pf'.cash = pf.cash
        /\ pf'.opened = pf.opened /\ pf'.realized = pf.realized
        /\ pf'.closedAt = pf.closedAt /\ pf'.failures = pf.failures + 1
        /\ pf'.stop = pf.stop
    BY <1>1, <2>1 DEF Portfolio
  <2>3. Open(pf') = Open(pf) /\ Exiting(pf') = Exiting(pf) /\ Blocked(pf') = Blocked(pf)
    BY <2>2 DEF Open, Exiting, Blocked, In
  <2> QED BY <1>1, <1>2, <2>1, <2>2, <2>3 DEF EntryEffect, NotEntered
<1>5. ASSUME NEW slot \in {"open", "unconfirmed"}, NEW failures \in {0, pf.failures},
             Enter(m, slot, failures), Eligible(m), live, sol' \in {sol, sol - Size}
      PROVE  EntryEffect(m)
  <2>1. /\ pf' = [pf EXCEPT !.slot[m] = slot, !.got[m] = 0, !.cash = @ - Size,
                            !.opened = @ + 1, !.failures = failures]
        /\ todo' = IF Cardinality(Open(pf')) >= MaxOpen THEN {} ELSE todo \ {m}
    BY <1>5 DEF Enter
  <2>2. /\ pf' \in Portfolio /\ pf'.slot = [pf.slot EXCEPT ![m] = slot]
        /\ pf'.cash = pf.cash - Size /\ pf'.opened = pf.opened + 1
        /\ pf'.realized = pf.realized /\ pf'.closedAt = pf.closedAt
        /\ pf'.stop = pf.stop /\ pf'.failures <= pf.failures
    <3>1. slot \in Slots /\ failures \in Nat /\ failures <= pf.failures
      BY <1>1, <1>5 DEF Slots
    <3>2. /\ pf' \in Portfolio /\ pf'.failures = failures
          /\ pf'.slot = [pf.slot EXCEPT ![m] = slot]
          /\ pf'.cash = pf.cash - Size /\ pf'.opened = pf.opened + 1
          /\ pf'.realized = pf.realized /\ pf'.closedAt = pf.closedAt
          /\ pf'.stop = pf.stop
      BY <1>1, <2>1, <3>1 DEF Portfolio
    <3> QED BY <3>1, <3>2
  <2>3. /\ Open(pf') = Open(pf) \cup {m} /\ m \notin Open(pf)
        /\ Exiting(pf') = Exiting(pf) /\ Blocked(pf') = Blocked(pf)
    <3>1. pf.slot \in [Mints -> Slots] /\ pf.slot[m] = "none"
      BY <1>1, <1>5 DEF Portfolio, Eligible
    <3>2. Open(pf') = Open(pf) \cup {m} /\ m \notin Open(pf)
      BY <1>5, <2>2, <3>1 DEF Open, In, Slots
    <3>3. Exiting(pf') = Exiting(pf) /\ Blocked(pf') = Blocked(pf)
      BY <1>5, <2>2, <3>1 DEF Exiting, Blocked, In
    <3> QED BY <3>2, <3>3
  <2> QED BY <1>1, <1>2, <1>5, <2>1, <2>2, <2>3 DEF EntryEffect, Entered
<1>6. CASE BuySettled(m)
  BY <1>5, <1>6 DEF BuySettled
<1>7. CASE BuyUnsettled(m)
  BY <1>5, <1>7 DEF BuyUnsettled
<1> QED BY <1>3, <1>4, <1>6, <1>7 DEF EntryStep

Stays ==
  /\ Open(pf') = Open(pf)
  /\ pf'.realized = pf.realized
  /\ pf'.closedAt = pf.closedAt
  /\ UNCHANGED <<closed, lost>>

\* A position that leaves the book can have lost no more than it cost.
Leaves(m) ==
  /\ m \in Open(pf) /\ Open(pf') = Open(pf) \ {m}
  /\ pf'.realized >= pf.realized - Size
  /\ pf'.closedAt = [pf.closedAt EXCEPT ![m] = now]
  /\ closed' = IF saved.slot[m] = "none" THEN closed ELSE [closed EXCEPT ![m] = now]
  /\ lost' \in Int

ExitEffect(m) ==
  /\ phase = "exits" /\ m \in todo /\ todo' = todo \ {m}
  /\ UNCHANGED <<saved, phase, live, now, crashes>>
  /\ pf' \in Portfolio /\ sol' \in Int
  /\ pf'.cash >= pf.cash
  /\ pf'.failures >= pf.failures
  /\ pf'.opened = pf.opened
  /\ ~live => sol' = sol /\ pf'.cash = pf.cash
  /\ Stays \/ Leaves(m)

LEMMA SlotChangeKeepsOpen ==
  ASSUME NEW p, NEW r, p.slot \in [Mints -> Slots],
         NEW m \in Mints, p.slot[m] # "none",
         NEW slot \in Slots \ {"none"}, r.slot = [p.slot EXCEPT ![m] = slot]
  PROVE  Open(r) = Open(p)
  BY DEF Open, In

LEMMA ExitStepEffect ==
  ASSUME TypeOK, NEW m \in Mints, ExitStep(m)
  PROVE  ExitEffect(m)
<1>1. /\ pf \in Portfolio /\ sol \in Int
      /\ pf.slot \in [Mints -> Slots] /\ pf.slot[m] \in Slots
      /\ pf.cash \in Int /\ pf.realized \in Int /\ pf.got[m] \in Nat
      /\ pf.failures \in Nat /\ pf.failures + 1 \in Nat /\ pf.failures + 1 >= pf.failures
      /\ pf.cash >= pf.cash /\ pf.failures >= pf.failures
      /\ now \in Never..MaxTime /\ lost \in Int
  BY NeverType DEF TypeOK, Portfolio
<1>2. /\ phase = "exits" /\ m \in todo /\ todo' = todo \ {m}
      /\ UNCHANGED <<saved, phase, live, now, crashes>>
  BY DEF ExitStep, VisitWithoutSale, SellFailed, SellPart, SellRest, SellUnpaid, Visit
<1>3. \A paid \in Proceeds :
        /\ paid \in Nat /\ sol + paid \in Int /\ pf.cash + paid \in Int
        /\ pf.cash + paid >= pf.cash /\ pf.got[m] + paid \in Nat
  <2>1. SUFFICES ASSUME NEW paid \in Proceeds
                 PROVE  /\ paid \in Nat /\ sol + paid \in Int /\ pf.cash + paid \in Int
                        /\ pf.cash + paid >= pf.cash /\ pf.got[m] + paid \in Nat
    OBVIOUS
  <2>2. paid \in Nat
    BY MoneyAssumption
  <2>3. pf.cash \in Int /\ sol \in Int /\ pf.got[m] \in Nat
    BY <1>1
  <2> QED BY <2>2, <2>3
<1>4. "open" \in Slots \ {"none"} /\ "exiting" \in Slots \ {"none"} /\ "none" \in Slots
  BY DEF Slots
<1>5. pf.slot[m] \in Selling => pf.slot[m] # "none"
  BY DEF Selling
<1>6. CASE VisitWithoutSale(m)
  <2>1. PICK slot \in VisitMoves(pf.slot[m]) \ {"none"} : pf' = [pf EXCEPT !.slot[m] = slot]
    BY <1>6 DEF VisitWithoutSale
  <2>2. slot \in Slots \ {"none"} /\ pf.slot[m] # "none"
    BY <1>1, <2>1, MovesAreSlots
  <2>3. /\ pf' \in Portfolio /\ pf'.slot = [pf.slot EXCEPT ![m] = slot]
        /\ pf'.cash = pf.cash /\ pf'.failures = pf.failures /\ pf'.opened = pf.opened
        /\ pf'.realized = pf.realized /\ pf'.closedAt = pf.closedAt
    BY <1>1, <2>1, <2>2 DEF Portfolio
  <2>4. Open(pf') = Open(pf)
    BY <1>1, <2>2, <2>3, SlotChangeKeepsOpen
  <2>5. UNCHANGED <<sol, closed, lost>>
    BY <1>6 DEF VisitWithoutSale
  <2> QED BY <1>1, <1>2, <2>3, <2>4, <2>5 DEF ExitEffect, Stays
<1>7. CASE SellFailed(m)
  <2>1. PICK slot \in FailedMoves(pf.slot[m]) :
          pf' = [pf EXCEPT !.slot[m] = slot, !.failures = @ + 1]
    BY <1>7 DEF SellFailed
  <2>2. slot \in Slots \ {"none"} /\ pf.slot[m] # "none"
    BY <1>1, <1>5, <1>7, <2>1, MovesAreSlots DEF SellFailed
  <2>3. /\ pf' \in Portfolio /\ pf'.slot = [pf.slot EXCEPT ![m] = slot]
        /\ pf'.cash = pf.cash /\ pf'.failures = pf.failures + 1 /\ pf'.opened = pf.opened
        /\ pf'.realized = pf.realized /\ pf'.closedAt = pf.closedAt
    BY <1>1, <2>1, <2>2 DEF Portfolio
  <2>4. Open(pf') = Open(pf)
    BY <1>1, <2>2, <2>3, SlotChangeKeepsOpen
  <2>5. sol' \in Int /\ (~live => sol' = sol) /\ UNCHANGED <<closed, lost>>
    BY <1>1, <1>3, <1>7 DEF SellFailed
  <2> QED BY <1>1, <1>2, <2>3, <2>4, <2>5 DEF ExitEffect, Stays
<1>8. CASE SellPart(m)
  <2>1. PICK paid \in Proceeds, slot \in {"open", "exiting"} :
          /\ sol' \in {sol, sol + paid}
          /\ pf' = [pf EXCEPT !.slot[m] = slot, !.got[m] = @ + paid, !.cash = @ + paid]
    BY <1>8 DEF SellPart, Paid
  <2>2. slot \in Slots \ {"none"} /\ pf.slot[m] # "none" /\ live /\ UNCHANGED <<closed, lost>>
    BY <1>4, <1>5, <1>8, <2>1 DEF SellPart
  <2>3. /\ pf' \in Portfolio /\ pf'.slot = [pf.slot EXCEPT ![m] = slot]
        /\ pf'.cash = pf.cash + paid /\ pf'.failures = pf.failures
        /\ pf'.opened = pf.opened
        /\ pf'.realized = pf.realized /\ pf'.closedAt = pf.closedAt
    BY <1>1, <1>3, <2>1, <2>2 DEF Portfolio
  <2>4. Open(pf') = Open(pf)
    BY <1>1, <2>2, <2>3, SlotChangeKeepsOpen
  <2> QED BY <1>1, <1>2, <1>3, <2>1, <2>2, <2>3, <2>4 DEF ExitEffect, Stays
<1>9. CASE SellRest(m)
  <2>1. PICK paid \in Proceeds :
          /\ sol' \in {sol, sol + paid}
          /\ pf' = [pf EXCEPT !.slot[m] = "none", !.got[m] = 0, !.cash = @ + paid,
                              !.realized = @ + (pf.got[m] + paid - Size), !.closedAt[m] = now]
          /\ lost' = lost - (pf.got[m] + paid - Size)
    BY <1>9 DEF SellRest, Paid
  <2>2. /\ pf.slot[m] # "none" /\ live
        /\ closed' = IF saved.slot[m] = "none" THEN closed ELSE [closed EXCEPT ![m] = now]
    BY <1>5, <1>9 DEF SellRest
  <2>3. /\ pf.got[m] + paid - Size \in Int
        /\ pf.realized + (pf.got[m] + paid - Size) \in Int
        /\ pf.realized + (pf.got[m] + paid - Size) >= pf.realized - Size
        /\ lost' \in Int
    BY <1>1, <1>3, <2>1, MoneyAssumption
  <2>4. /\ pf' \in Portfolio /\ pf'.slot = [pf.slot EXCEPT ![m] = "none"]
        /\ pf'.cash = pf.cash + paid /\ pf'.failures = pf.failures
        /\ pf'.opened = pf.opened
        /\ pf'.realized = pf.realized + (pf.got[m] + paid - Size)
        /\ pf'.closedAt = [pf.closedAt EXCEPT ![m] = now]
    BY <1>1, <1>3, <1>4, <2>1, <2>3 DEF Portfolio
  <2>5. m \in Open(pf) /\ Open(pf') = Open(pf) \ {m}
    BY <1>1, <2>2, <2>4 DEF Open, In
  <2> QED BY <1>1, <1>2, <1>3, <2>1, <2>2, <2>3, <2>4, <2>5 DEF ExitEffect, Leaves
<1>10. CASE SellUnpaid(m)
  <2>1. /\ pf' = [pf EXCEPT !.slot[m] = "exiting"] /\ sol' \in Int /\ live
        /\ UNCHANGED <<closed, lost>> /\ pf.slot[m] # "none"
    BY <1>3, <1>5, <1>10 DEF SellUnpaid
  <2>2. /\ pf' \in Portfolio /\ pf'.slot = [pf.slot EXCEPT ![m] = "exiting"]
        /\ pf'.cash = pf.cash /\ pf'.failures = pf.failures /\ pf'.opened = pf.opened
        /\ pf'.realized = pf.realized /\ pf'.closedAt = pf.closedAt
    BY <1>1, <1>4, <2>1 DEF Portfolio
  <2>3. Open(pf') = Open(pf)
    BY <1>1, <1>4, <2>1, <2>2, SlotChangeKeepsOpen
  <2> QED BY <1>1, <1>2, <2>1, <2>2, <2>3 DEF ExitEffect, Stays
<1> QED BY <1>6, <1>7, <1>8, <1>9, <1>10 DEF ExitStep

-----------------------------------------------------------------------------
(* The beginning of a cycle, the recovery, and type correctness. *)

BeginEffect ==
  /\ phase = "idle" /\ phase' \in {"entries", "exits"}
  /\ now' \in 0..MaxTime /\ now' >= now /\ todo' \subseteq Mints
  /\ UNCHANGED <<saved, sol, live, crashes, closed>>
  /\ pf' \in Portfolio /\ lost' \in Int
  /\ pf'.slot = pf.slot /\ pf'.cash = pf.cash /\ pf'.realized = pf.realized
  /\ pf'.failures = pf.failures /\ pf'.closedAt = pf.closedAt
  /\ pf'.opened \in {0, pf.opened}
  /\ phase' = "entries" =>
       /\ Cardinality(Open(pf')) < MaxOpen
       /\ pf'.opened < MaxDaily
       /\ pf'.stop = "none" /\ pf'.realized > -LossCap /\ pf'.failures < MaxFailures
       /\ ~(Cardinality(Exiting(pf')) >= MaxExiting)
       /\ ~(Cardinality(Blocked(pf')) >= MaxBlocked)

LEMMA BeginCycleEffect ==
  ASSUME TypeOK, BeginCycle
  PROVE  BeginEffect
<1>1. PICK candidates \in SUBSET Mints, stale \in BOOLEAN :
        LET p == Rollover(pf, now + 1)
            p1 == [p EXCEPT !.stop = Rail(p, stale)]
        IN  /\ pf' = p1
            /\ IF p1.stop = "none" /\ RoomForEntries(p1)
               THEN phase' = "entries" /\ todo' = candidates
               ELSE phase' = "exits" /\ todo' = Open(p1)
  BY DEF BeginCycle
<1> DEFINE p == Rollover(pf, now + 1)
           p1 == [p EXCEPT !.stop = Rail(p, stale)]
<1>2. now + 1 \in 0..MaxTime /\ now + 1 >= now /\ now' = now + 1
  BY TimeAssumption DEF TypeOK, BeginCycle
<1>3. /\ p \in Portfolio
      /\ p.slot = pf.slot /\ p.cash = pf.cash /\ p.realized = pf.realized
      /\ p.failures = pf.failures /\ p.closedAt = pf.closedAt
      /\ p.opened \in {0, pf.opened}
  BY <1>2, RolloverType DEF TypeOK
<1> HIDE DEF p
<1>4. /\ p1 \in Portfolio
      /\ p1.slot = p.slot /\ p1.cash = p.cash /\ p1.realized = p.realized
      /\ p1.failures = p.failures /\ p1.closedAt = p.closedAt /\ p1.opened = p.opened
      /\ p1.stop = Rail(p, stale)
  <2>1. Rail(p, stale) \in Rails
    BY <1>3, RailType
  <2> QED BY <1>3, <2>1 DEF Portfolio
<1>5. /\ pf' = p1
      /\ \/ phase' = "exits" /\ todo' = Open(p1)
         \/ /\ phase' = "entries" /\ todo' = candidates
            /\ p1.stop = "none" /\ RoomForEntries(p1)
  BY <1>1 DEF p
<1> HIDE DEF p1
<1>6. phase' = "entries" =>
        /\ Cardinality(Open(pf')) < MaxOpen /\ pf'.opened < MaxDaily
        /\ pf'.stop = "none" /\ pf'.realized > -LossCap /\ pf'.failures < MaxFailures
        /\ ~(Cardinality(Exiting(pf')) >= MaxExiting)
        /\ ~(Cardinality(Blocked(pf')) >= MaxBlocked)
  <2>1. Exiting(p1) = Exiting(p) /\ Blocked(p1) = Blocked(p)
    BY <1>4 DEF Exiting, Blocked, In
  <2> QED BY <1>3, <1>4, <1>5, <2>1, RailType DEF RoomForEntries
<1>7. todo' \subseteq Mints
  BY <1>5 DEF Open, In
<1>8. phase = "idle" /\ UNCHANGED <<saved, sol, live, crashes, closed>> /\ lost' \in Int
  BY DEF BeginCycle, TypeOK
<1> QED BY <1>2, <1>3, <1>4, <1>5, <1>6, <1>7, <1>8 DEF BeginEffect

LEMMA RecoveredEffect ==
  ASSUME NEW p \in Portfolio, NEW slot \in [Mints -> Slots], now' \in 0..MaxTime,
         \A m \in Mints : slot[m] \in RecoveryMoves(p.slot[m])
  PROVE  LET r == Recovered(p, slot)
         IN  /\ r \in Portfolio
             /\ r.cash = p.cash /\ r.realized = p.realized /\ r.failures = p.failures
             /\ r.opened = p.opened
             /\ Open(r) \subseteq Open(p)
             /\ \A m \in Mints \ Open(r) :
                  r.closedAt[m] = IF m \in Open(p) THEN now' ELSE p.closedAt[m]
<1> DEFINE gone == In(p, Slots \ {"none"}) \cap {m \in Mints : slot[m] = "none"}
           got == [m \in Mints |-> IF m \in gone THEN 0 ELSE p.got[m]]
           closedAt == [m \in Mints |-> IF m \in gone THEN now' ELSE p.closedAt[m]]
           r == Recovered(p, slot)
<1>1. got \in [Mints -> Nat] /\ closedAt \in [Mints -> Never..MaxTime]
  BY NeverType DEF Portfolio
<1>2. r = [p EXCEPT !.slot = slot, !.got = got, !.closedAt = closedAt]
  BY DEF Recovered, Portfolio
<1>3. \A m \in Mints : closedAt[m] = IF m \in gone THEN now' ELSE p.closedAt[m]
  OBVIOUS
<1> HIDE DEF r, got, closedAt
<1>4. /\ r \in Portfolio /\ r.slot = slot /\ r.closedAt = closedAt
      /\ r.cash = p.cash /\ r.realized = p.realized /\ r.failures = p.failures
      /\ r.opened = p.opened
  BY <1>1, <1>2 DEF Portfolio
<1>5. Open(r) \subseteq Open(p)
  <2>1. \A m \in Mints : p.slot[m] = "none" => slot[m] = "none"
    BY MovesAreSlots DEF Portfolio
  <2> QED BY <1>4, <2>1 DEF Open, In, Portfolio
<1>6. ASSUME NEW m \in Mints \ Open(r)
      PROVE  r.closedAt[m] = IF m \in Open(p) THEN now' ELSE p.closedAt[m]
  <2>1. slot[m] = "none"
    BY <1>4, <1>6 DEF Open, In
  <2> QED BY <1>3, <1>4, <2>1 DEF Open, In
<1> QED BY <1>4, <1>5, <1>6 DEF r

RestartEffect ==
  /\ phase = "down" /\ phase' \in {"save", "idle"}
  /\ now' \in 0..MaxTime /\ now' >= now
  /\ UNCHANGED <<sol, todo, crashes>> /\ live' \in Modes
  /\ pf' \in Portfolio /\ lost' \in Int
  /\ \/ /\ saved' = saved
        /\ pf'.cash = saved.cash /\ pf'.realized = saved.realized
        /\ pf'.failures = saved.failures /\ pf'.opened \in {0, saved.opened}
        /\ Open(pf') \subseteq Open(saved)
        /\ \A m \in Mints \ Open(pf') :
             pf'.closedAt[m] = IF m \in Open(saved) THEN now' ELSE saved.closedAt[m]
        /\ closed' = [m \in Mints |-> IF m \in Open(saved) /\ m \notin Open(pf') THEN now'
                                      ELSE closed[m]]
     \/ LoseFile

LEMMA RestartHasEffect ==
  ASSUME TypeOK, Restart
  PROVE  RestartEffect
<1>1. now' \in 0..MaxTime /\ now' >= now
  BY TimeAssumption DEF Restart, TypeOK
<1>2. saved \in Portfolio
  BY DEF TypeOK
<1>3. ASSUME NEW slot \in [Mints -> Slots],
             \A m \in Mints : slot[m] \in RecoveryMoves(saved.slot[m]),
             pf' = Recovered(Rollover(saved, now'), slot),
             closed' = [m \in Mints |-> IF saved.slot[m] # "none" /\ slot[m] = "none"
                                       THEN now' ELSE closed[m]]
      PROVE  /\ pf' \in Portfolio
             /\ pf'.cash = saved.cash /\ pf'.realized = saved.realized
             /\ pf'.failures = saved.failures /\ pf'.opened \in {0, saved.opened}
             /\ Open(pf') \subseteq Open(saved)
             /\ \A m \in Mints \ Open(pf') :
                  pf'.closedAt[m] = IF m \in Open(saved) THEN now' ELSE saved.closedAt[m]
             /\ closed' = [m \in Mints |-> IF m \in Open(saved) /\ m \notin Open(pf')
                                           THEN now' ELSE closed[m]]
  <2> DEFINE p == Rollover(saved, now')
  <2>1. /\ p \in Portfolio /\ p.slot = saved.slot /\ p.cash = saved.cash
        /\ p.realized = saved.realized /\ p.failures = saved.failures
        /\ p.closedAt = saved.closedAt /\ p.opened \in {0, saved.opened}
    BY <1>1, <1>2, RolloverType
  <2>2. pf' = Recovered(p, slot)
    BY <1>3
  <2> HIDE DEF p
  <2>3. Open(p) = Open(saved)
    BY <2>1 DEF Open, In
  <2>4. \A m \in Mints : slot[m] \in RecoveryMoves(p.slot[m])
    BY <1>3, <2>1
  <2>5. /\ pf' \in Portfolio
        /\ pf'.cash = saved.cash /\ pf'.realized = saved.realized
        /\ pf'.failures = saved.failures /\ pf'.opened \in {0, saved.opened}
        /\ Open(pf') \subseteq Open(saved)
        /\ \A m \in Mints \ Open(pf') :
             pf'.closedAt[m] = IF m \in Open(saved) THEN now' ELSE saved.closedAt[m]
    BY <1>1, <2>1, <2>2, <2>3, <2>4, RecoveredEffect
  <2>6. pf'.slot = slot
    BY <2>1, <2>2 DEF Recovered, Portfolio
  <2>7. \A m \in Mints : /\ saved.slot[m] # "none" <=> m \in Open(saved)
                         /\ slot[m] = "none" <=> m \notin Open(pf')
    BY <1>2, <1>3, <2>6 DEF Open, In, Portfolio
  <2>8. closed' = [m \in Mints |-> IF m \in Open(saved) /\ m \notin Open(pf')
                                  THEN now' ELSE closed[m]]
    BY <1>3, <2>7
  <2> QED BY <2>5, <2>8
<1>4. \/ /\ pf' \in Portfolio
         /\ saved' = saved
         /\ pf'.cash = saved.cash /\ pf'.realized = saved.realized
         /\ pf'.failures = saved.failures /\ pf'.opened \in {0, saved.opened}
         /\ Open(pf') \subseteq Open(saved)
         /\ \A m \in Mints \ Open(pf') :
              pf'.closedAt[m] = IF m \in Open(saved) THEN now' ELSE saved.closedAt[m]
         /\ closed' = [m \in Mints |-> IF m \in Open(saved) /\ m \notin Open(pf')
                                       THEN now' ELSE closed[m]]
      \/ pf' \in Portfolio /\ LoseFile
  BY <1>1, <1>3, NewPortfolioType DEF Restart, LoseFile
<1>5. /\ phase = "down" /\ phase' \in {"save", "idle"} /\ live' \in Modes
      /\ UNCHANGED <<sol, todo, crashes>> /\ lost' \in Int
  BY DEF Restart, TypeOK
<1> QED BY <1>1, <1>4, <1>5 DEF RestartEffect

\* Every step, by its effect.
LEMMA StepCases ==
  ASSUME TypeOK, [Next]_vars
  PROVE  \/ BeginEffect
         \/ \E m \in Mints : EntryEffect(m) \/ ExitEffect(m)
         \/ EndEntries \/ EndExits \/ Persist \/ Crash
         \/ RestartEffect
         \/ UNCHANGED vars
<1>1. CASE BeginCycle
  BY <1>1, BeginCycleEffect
<1>2. ASSUME NEW m \in Mints, EntryStep(m) \/ ExitStep(m)
      PROVE  EntryEffect(m) \/ ExitEffect(m)
  BY <1>2, EntryStepEffect, ExitStepEffect
<1>3. CASE Restart
  BY <1>3, RestartHasEffect
<1> QED BY <1>1, <1>2, <1>3 DEF Next

LEMMA TypeInit ==
  ASSUME Init
  PROVE  TypeOK
<1>1. /\ 0 \in 0..MaxTime /\ 0 \in 0..MaxCrashes /\ Never \in Never..MaxTime
      /\ StartCash \in Int
  BY NeverType, TimeAssumption, MoneyAssumption
<1>2. pf \in Portfolio /\ saved \in Portfolio
  BY <1>1, NewPortfolioType DEF Init
<1> QED BY <1>1, <1>2 DEF Init, TypeOK, Phases

LEMMA TypeStep ==
  ASSUME TypeOK, [Next]_vars
  PROVE  TypeOK'
<1>1. CASE BeginEffect
  BY <1>1 DEF BeginEffect, TypeOK, Phases
<1>2. ASSUME NEW m \in Mints, EntryEffect(m)
      PROVE  TypeOK'
  <2>1. todo' \subseteq Mints
    BY <1>2 DEF EntryEffect, Entered, NotEntered, TypeOK
  <2> QED BY <1>2, <2>1 DEF EntryEffect, TypeOK
<1>3. ASSUME NEW m \in Mints, ExitEffect(m)
      PROVE  TypeOK'
  <2>1. now \in Never..MaxTime
    BY NeverType DEF TypeOK
  <2>2. closed' \in [Mints -> Never..MaxTime] /\ lost' \in Int
    BY <1>3, <2>1 DEF ExitEffect, Stays, Leaves, TypeOK
  <2> QED BY <1>3, <2>2 DEF ExitEffect, TypeOK
<1>4. CASE EndEntries \/ EndExits \/ Persist
  BY <1>4 DEF EndEntries, EndExits, Persist, TypeOK, Phases, Open, In
<1>5. CASE Crash
  <2>1. crashes' \in 0..MaxCrashes
    BY <1>5, TimeAssumption DEF Crash, TypeOK
  <2> QED BY <1>5, <2>1 DEF Crash, TypeOK, Phases
<1>6. CASE RestartEffect
  <2>1. now' \in Never..MaxTime
    BY <1>6, NeverType DEF RestartEffect
  <2>2. closed' \in [Mints -> Never..MaxTime]
    BY <1>6, <2>1, NeverType DEF RestartEffect, LoseFile, TypeOK
  <2>3. pf' \in Portfolio /\ saved' \in Portfolio
    BY <1>6 DEF RestartEffect, LoseFile, TypeOK
  <2> QED BY <1>6, <2>2, <2>3 DEF RestartEffect, TypeOK, Phases
<1>7. CASE UNCHANGED vars
  BY <1>7 DEF vars, TypeOK
<1> QED BY <1>1, <1>2, <1>3, <1>4, <1>5, <1>6, <1>7, StepCases

\* Every reachable state has its type.
THEOREM TypeCorrect == Spec => []TypeOK
<1>1. Init => TypeOK
  BY TypeInit
<1>2. TypeOK /\ [Next]_vars => TypeOK'
  BY TypeStep
<1> QED BY <1>1, <1>2, PTL DEF Spec

-----------------------------------------------------------------------------
(***************************************************************************)
(* One pass of the entry loop.  While it has candidates left there is room *)
(* for one more: it starts with room, and ends itself when a buy has       *)
(* filled the book.  Each candidate it has visited may have added one      *)
(* failure to those it started with.                                       *)
(***************************************************************************)
Fails(p, visited) == p.failures < MaxFailures + Cardinality(visited)

EntriesInv ==
  /\ TypeOK
  /\ EntriesBounded
  /\ phase = "entries" /\ todo # {} => Cardinality(Open(pf)) < MaxOpen

LEMMA OpenShrinks ==
  ASSUME NEW p, NEW r, Open(r) \subseteq Open(p)
  PROVE  Cardinality(Open(r)) <= Cardinality(Open(p))
  BY OpenFinite, FS_Subset

LEMMA VisitedFinite ==
  ASSUME NEW left
  PROVE  IsFiniteSet(Mints \ left) /\ Cardinality(Mints \ left) \in Nat
  BY MintsAssumption, FS_Subset, FS_CardinalityType

LEMMA FailuresGrowByOne ==
  ASSUME pf \in Portfolio, pf' \in Portfolio, NEW m \in todo, todo \subseteq Mints,
         Fails(pf, Mints \ todo),
         \/ pf'.failures <= pf.failures /\ todo' \subseteq todo
         \/ pf'.failures \in {pf.failures, pf.failures + 1} /\ todo' = todo \ {m}
  PROVE  Fails(pf', Mints \ todo')
<1>1. /\ pf.failures \in Nat /\ pf'.failures \in Nat /\ MaxFailures \in Nat
      /\ Cardinality(Mints \ todo) \in Nat /\ Cardinality(Mints \ todo') \in Nat
  BY VisitedFinite, LimitsAssumption DEF Portfolio
<1>2. CASE pf'.failures <= pf.failures /\ todo' \subseteq todo
  <2>1. Mints \ todo \subseteq Mints \ todo'
    BY <1>2
  <2>2. Cardinality(Mints \ todo) <= Cardinality(Mints \ todo')
    BY <2>1, VisitedFinite, FS_Subset
  <2> QED BY <1>1, <1>2, <2>2 DEF Fails
<1>3. CASE pf'.failures \in {pf.failures, pf.failures + 1} /\ todo' = todo \ {m}
  <2>1. Mints \ todo' = (Mints \ todo) \cup {m} /\ m \notin Mints \ todo
    BY <1>3
  <2>2. Cardinality(Mints \ todo') = Cardinality(Mints \ todo) + 1
    BY <2>1, VisitedFinite, FS_AddElement
  <2> QED BY <1>1, <1>3, <2>2 DEF Fails
<1> QED BY <1>2, <1>3

LEMMA EntriesStep ==
  ASSUME EntriesInv, [Next]_vars
  PROVE  EntriesInv'
<1>1. TypeOK /\ TypeOK' /\ MaxOpen \in Nat /\ MaxFailures \in Nat
  BY TypeStep, LimitsAssumption DEF EntriesInv
<1>2. /\ Cardinality(Open(pf)) \in Nat /\ Cardinality(Open(saved)) \in Nat
      /\ Cardinality(Open(pf')) \in Nat /\ Cardinality(Open(saved')) \in Nat
  BY OpenFinite
<1>3. CASE BeginEffect
  <2>1. Open(pf') = Open(pf) /\ Open(saved') = Open(saved)
    BY <1>3 DEF BeginEffect, Open, In
  <2>2. phase' = "entries" => pf'.failures < MaxFailures + Cardinality(Mints \ todo')
    <3>1. /\ pf'.failures \in Nat /\ Cardinality(Mints \ todo') \in Nat
          /\ phase' = "entries" => pf'.failures < MaxFailures
      BY <1>3, VisitedFinite DEF BeginEffect, Portfolio
    <3> QED BY <1>1, <3>1
  <2> QED BY <1>1, <1>3, <2>1, <2>2 DEF BeginEffect, EntriesInv, EntriesBounded
<1>4. ASSUME NEW m \in Mints, EntryEffect(m)
      PROVE  EntriesInv'
  <2>1. phase = "entries" /\ m \in todo /\ todo \subseteq Mints /\ Fails(pf, Mints \ todo)
    BY <1>1, <1>4 DEF EntryEffect, EntriesInv, EntriesBounded, TypeOK, Fails
  <2>2. phase' = "entries" /\ saved' = saved /\ Cardinality(Open(saved)) <= MaxOpen
        /\ pf \in Portfolio /\ pf' \in Portfolio
    BY <1>1, <1>4 DEF EntryEffect, EntriesInv, EntriesBounded, TypeOK
  <2>3. Fails(pf', Mints \ todo')
    BY <1>4, <2>1, <2>2, FailuresGrowByOne DEF EntryEffect, Entered, NotEntered
  <2>4. CASE Entered(m)
    <3>1. Cardinality(Open(pf')) = Cardinality(Open(pf)) + 1
      BY <2>4, OpenFinite, FS_AddElement DEF Entered
    <3>2. Cardinality(Open(pf)) < MaxOpen
      BY <2>1 DEF EntriesInv
    <3>3. Cardinality(Open(pf')) <= MaxOpen
      BY <1>1, <1>2, <3>1, <3>2
    <3>4. todo' # {} => Cardinality(Open(pf')) < MaxOpen
      <4>1. Cardinality(Open(pf')) >= MaxOpen => todo' = {}
        BY <2>4 DEF Entered
      <4> QED BY <1>1, <1>2, <4>1
    <3> QED BY <1>1, <2>2, <2>3, <3>3, <3>4 DEF EntriesInv, EntriesBounded, Fails
  <2>5. CASE NotEntered(m)
    <3>1. Open(pf') = Open(pf) /\ Cardinality(Open(pf)) < MaxOpen
      BY <2>1, <2>5 DEF NotEntered, EntriesInv
    <3> QED BY <1>1, <1>2, <2>2, <2>3, <3>1 DEF EntriesInv, EntriesBounded, Fails
  <2> QED BY <1>4, <2>4, <2>5 DEF EntryEffect
<1>5. ASSUME NEW m \in Mints, ExitEffect(m)
      PROVE  EntriesInv'
  <2>1. Cardinality(Open(pf')) <= Cardinality(Open(pf))
    BY <1>5, OpenShrinks DEF ExitEffect, Stays, Leaves
  <2> QED BY <1>1, <1>2, <1>5, <2>1 DEF ExitEffect, EntriesInv, EntriesBounded
<1>6. CASE EndEntries \/ EndExits \/ Persist \/ Crash
  BY <1>1, <1>6 DEF EndEntries, EndExits, Persist, Crash, EntriesInv, EntriesBounded
<1>7. CASE RestartEffect
  <2>1. CASE saved' = saved /\ Open(pf') \subseteq Open(saved)
    <3>1. Cardinality(Open(pf')) <= Cardinality(Open(saved))
      BY <2>1, OpenShrinks
    <3> QED BY <1>1, <1>2, <1>7, <2>1, <3>1 DEF RestartEffect, EntriesInv, EntriesBounded
  <2>2. CASE saved' = pf' /\ pf' = NewPortfolio(now')
    <3>1. Open(pf') = {}
      BY <2>2 DEF NewPortfolio, Open, In
    <3> QED BY <1>1, <1>7, <2>2, <3>1, FS_EmptySet DEF RestartEffect, EntriesInv, EntriesBounded
  <2> QED BY <1>7, <2>1, <2>2 DEF RestartEffect, LoseFile
<1>8. CASE UNCHANGED vars
  BY <1>1, <1>8 DEF vars, EntriesInv, EntriesBounded
<1> QED BY <1>1, <1>3, <1>4, <1>5, <1>6, <1>7, <1>8, StepCases

LEMMA EmptyBook ==
  ASSUME Init
  PROVE  /\ Open(pf) = {} /\ Cardinality(Open(pf)) = 0 /\ saved = pf
         /\ pf.cash = StartCash /\ pf.realized = 0 /\ pf.opened = 0 /\ pf.failures = 0
<1>1. Open(pf) = {}
  BY DEF Init, NewPortfolio, Open, In
<1> QED BY <1>1, FS_EmptySet DEF Init, NewPortfolio

LEMMA EntriesAlways == Spec => []EntriesInv
<1>1. Init => EntriesInv
  BY TypeInit, EmptyBook, LimitsAssumption DEF EntriesInv, EntriesBounded, Init
<1>2. EntriesInv /\ [Next]_vars => EntriesInv'
  BY EntriesStep
<1> QED BY <1>1, <1>2, PTL DEF Spec

\* The limit of open positions holds in the process and in the state file, and a pass of
\* the entry loop fails at most once per candidate, for any set of candidates, crashes
\* and faults.
THEOREM EntriesAreBounded == Spec => []EntriesBounded
<1>1. EntriesInv => EntriesBounded
  BY DEF EntriesInv
<1> QED BY <1>1, EntriesAlways, PTL

(***************************************************************************)
(* The rails.  What _evaluate_safety found at the top of the cycle is      *)
(* still so at the last candidate: the loop changes neither the realized   *)
(* result nor the positions that exit or are blocked.  Only the failures   *)
(* may by then be past their rail, as EntriesBounded says.                 *)
(***************************************************************************)
BehindNoRail ==
  /\ pf.stop = "none"
  /\ pf.realized > -LossCap
  /\ ~(Cardinality(Exiting(pf)) >= MaxExiting)
  /\ ~(Cardinality(Blocked(pf)) >= MaxBlocked)

NoEntryBehindARail == phase = "entries" => BehindNoRail

\* No position is ever opened behind the loss rail or behind the rails on exits
\* (_evaluate_safety), whatever the entries before it have changed.
THEOREM RailsStopEntries == Spec => []NoEntryBehindARail
<1>1. Init => TypeOK /\ NoEntryBehindARail
  BY TypeInit DEF Init, NoEntryBehindARail
<1>2. TypeOK /\ NoEntryBehindARail /\ [Next]_vars => (TypeOK /\ NoEntryBehindARail)'
  <2> SUFFICES ASSUME TypeOK, NoEntryBehindARail, [Next]_vars, phase' = "entries"
               PROVE  BehindNoRail'
    BY TypeStep DEF NoEntryBehindARail
  <2>1. CASE BeginEffect
    BY <2>1 DEF BeginEffect, BehindNoRail
  <2>2. ASSUME NEW m \in Mints, EntryEffect(m)
        PROVE  BehindNoRail'
    BY <2>2 DEF EntryEffect, NoEntryBehindARail, BehindNoRail
  <2>3. CASE UNCHANGED vars
    BY <2>3 DEF vars, NoEntryBehindARail, BehindNoRail
  <2>4. ASSUME NEW m \in Mints, ExitEffect(m)
        PROVE  FALSE
    BY <2>4 DEF ExitEffect
  <2>5. ~EndEntries /\ ~EndExits /\ ~Persist /\ ~Crash /\ ~RestartEffect
    BY DEF EndEntries, EndExits, Persist, Crash, RestartEffect
  <2> QED BY <2>1, <2>2, <2>3, <2>4, <2>5, StepCases
<1> QED BY <1>1, <1>2, PTL DEF Spec

-----------------------------------------------------------------------------
(* Money: the reserve and the loss cap. *)

Floor == IF StartCash < Reserve THEN StartCash ELSE Reserve

ReserveInv == TypeOK /\ pf.cash >= Floor /\ saved.cash >= Floor

LEMMA ReserveStep ==
  ASSUME ReserveInv, [Next]_vars
  PROVE  ReserveInv'
<1>1. TypeOK' /\ pf \in Portfolio /\ saved \in Portfolio /\ pf' \in Portfolio
  BY TypeStep DEF ReserveInv, TypeOK
<1>2. /\ pf.cash \in Int /\ saved.cash \in Int /\ pf'.cash \in Int /\ Floor \in Int
      /\ Floor <= Reserve /\ Floor <= StartCash
  BY <1>1, MoneyAssumption DEF Portfolio, Floor
<1> SUFFICES pf'.cash >= Floor /\ saved'.cash >= Floor
  BY <1>1 DEF ReserveInv, Floor
<1>3. CASE BeginEffect
  BY <1>3 DEF BeginEffect, ReserveInv
<1>4. ASSUME NEW m \in Mints, EntryEffect(m)
      PROVE  pf'.cash >= Floor /\ saved'.cash >= Floor
  <2>1. CASE Entered(m)
    <3>1. pf'.cash >= Reserve
      BY <2>1 DEF Entered, Eligible, Affordable
    <3>2. pf'.cash >= Floor
      BY <1>2, <3>1, MoneyAssumption
    <3> QED BY <1>4, <3>2 DEF EntryEffect, ReserveInv
  <2>2. CASE NotEntered(m)
    BY <1>4, <2>2 DEF EntryEffect, NotEntered, ReserveInv
  <2> QED BY <1>4, <2>1, <2>2 DEF EntryEffect
<1>5. ASSUME NEW m \in Mints, ExitEffect(m)
      PROVE  pf'.cash >= Floor /\ saved'.cash >= Floor
  BY <1>2, <1>5 DEF ExitEffect, ReserveInv
<1>6. CASE EndEntries \/ EndExits \/ Persist \/ Crash
  BY <1>6 DEF EndEntries, EndExits, Persist, Crash, ReserveInv
<1>7. CASE RestartEffect
  <2>1. CASE saved' = saved /\ pf'.cash = saved.cash
    BY <2>1 DEF ReserveInv
  <2>2. CASE saved' = pf' /\ pf' = NewPortfolio(now')
    <3>1. pf'.cash = StartCash
      BY <2>2 DEF NewPortfolio
    <3> QED BY <1>2, <2>2, <3>1
  <2> QED BY <1>7, <2>1, <2>2 DEF RestartEffect, LoseFile
<1>8. CASE UNCHANGED vars
  BY <1>8 DEF vars, ReserveInv
<1> QED BY <1>3, <1>4, <1>5, <1>6, <1>7, <1>8, StepCases DEF ReserveInv

\* No entry, whatever is bought in one loop, takes the cash below the reserve.
THEOREM ReserveAlwaysKept == Spec => []ReserveKept
<1>1. Init => ReserveInv
  BY TypeInit, EmptyBook, MoneyAssumption DEF ReserveInv, Floor
<1>2. ReserveInv /\ [Next]_vars => ReserveInv'
  BY ReserveStep
<1>3. ReserveInv => ReserveKept
  BY DEF ReserveInv, ReserveKept, Floor
<1> QED BY <1>1, <1>2, <1>3, PTL DEF Spec

(***************************************************************************)
(* LossBounded is not inductive.  What is: the realized result, less what  *)
(* the open positions cost, stays above the bound.  A buy is made only     *)
(* above the cap, with at most MaxOpen positions after it; an exit         *)
(* realizes no more of a loss than the cost it removes; and the recovery   *)
(* removes positions without counting what they lost.                      *)
(***************************************************************************)
AtRisk(p) == Size * Cardinality(Open(p))

LossInv ==
  /\ EntriesInv
  /\ pf.realized - AtRisk(pf) > -LossCap - MaxOpen * Size
  /\ saved.realized - AtRisk(saved) > -LossCap - MaxOpen * Size
  /\ phase = "entries" => pf.realized > -LossCap

LEMMA CostGrows ==
  ASSUME NEW a \in Nat, NEW b \in Nat, a <= b
  PROVE  /\ Size * a \in Nat /\ Size * b \in Nat /\ Size * a <= Size * b
         /\ Size * (a + 1) = Size * a + Size
<1>1. b - a \in Nat /\ b = a + (b - a)
  OBVIOUS
<1>2. Size * (b - a) \in Nat /\ Size * b = Size * a + Size * (b - a)
  BY <1>1, MoneyAssumption
<1> QED BY <1>2, MoneyAssumption

LEMMA RiskShrinks ==
  ASSUME NEW p, NEW r, Open(r) \subseteq Open(p)
  PROVE  AtRisk(r) \in Nat /\ AtRisk(p) \in Nat /\ AtRisk(r) <= AtRisk(p)
  BY OpenFinite, OpenShrinks, CostGrows DEF AtRisk

LEMMA LossStep ==
  ASSUME LossInv, [Next]_vars
  PROVE  LossInv'
<1>1. /\ EntriesInv' /\ pf \in Portfolio /\ saved \in Portfolio /\ pf' \in Portfolio
      /\ TypeOK
  BY EntriesStep DEF LossInv, EntriesInv, TypeOK
<1> DEFINE Bound == -LossCap - MaxOpen * Size
           Fine(p) == p.realized - AtRisk(p) > Bound
<1>2. /\ pf.realized \in Int /\ saved.realized \in Int /\ pf'.realized \in Int
      /\ Bound \in Int /\ LossCap \in Int /\ Size \in Nat /\ MaxOpen * Size \in Int
      /\ MaxOpen \in Nat
  BY <1>1, MoneyAssumption, LimitsAssumption DEF Portfolio
<1>3. AtRisk(pf) \in Nat /\ AtRisk(saved) \in Nat /\ AtRisk(pf') \in Nat
  BY RiskShrinks
<1> SUFFICES /\ Fine(pf') /\ Fine(saved')
             /\ phase' = "entries" => pf'.realized > -LossCap
  BY <1>1 DEF LossInv, AtRisk, Open, In
<1>4. Fine(pf) /\ Fine(saved) /\ (phase = "entries" => pf.realized > -LossCap)
  BY DEF LossInv
<1>5. ASSUME NEW p, NEW r, p.realized \in Int, r.realized = p.realized,
             Open(r) \subseteq Open(p), Fine(p)
      PROVE  Fine(r)
  BY <1>2, <1>5, RiskShrinks
<1>6. CASE BeginEffect
  <2>1. pf'.realized = pf.realized /\ Open(pf') = Open(pf) /\ saved' = saved
    BY <1>6 DEF BeginEffect, Open, In
  <2> QED BY <1>2, <1>4, <1>5, <1>6, <2>1 DEF BeginEffect
<1>7. ASSUME NEW m \in Mints, EntryEffect(m)
      PROVE  Fine(pf') /\ pf'.realized > -LossCap /\ saved' = saved
  <2>1. pf.realized > -LossCap /\ pf'.realized = pf.realized /\ saved' = saved
    BY <1>4, <1>7 DEF EntryEffect
  <2>2. CASE NotEntered(m)
    BY <1>2, <1>4, <1>5, <2>1, <2>2 DEF NotEntered
  <2>3. CASE Entered(m)
    <3>1. Cardinality(Open(pf')) <= MaxOpen
      BY <1>1 DEF EntriesInv, EntriesBounded, Open, In
    <3>2. AtRisk(pf') <= MaxOpen * Size
      <4>1. Size * MaxOpen = MaxOpen * Size
        BY <1>2
      <4> QED BY <1>2, <3>1, <4>1, OpenFinite, CostGrows DEF AtRisk
    <3>3. Fine(pf')
      BY <1>2, <1>3, <2>1, <3>2
    <3> QED BY <2>1, <3>3
  <2> QED BY <1>7, <2>2, <2>3 DEF EntryEffect
<1>8. ASSUME NEW m \in Mints, ExitEffect(m)
      PROVE  Fine(pf') /\ saved' = saved /\ phase' # "entries"
  <2>1. saved' = saved /\ phase' # "entries"
    BY <1>8 DEF ExitEffect
  <2>2. CASE Stays
    BY <1>2, <1>4, <1>5, <2>1, <2>2 DEF Stays
  <2>3. CASE Leaves(m)
    <3>1. Open(pf) = Open(pf') \cup {m} /\ m \notin Open(pf')
      BY <2>3 DEF Leaves
    <3>2. Cardinality(Open(pf)) = Cardinality(Open(pf')) + 1
      BY <3>1, OpenFinite, FS_AddElement
    <3>3. AtRisk(pf) = AtRisk(pf') + Size
      BY <3>2, OpenFinite, CostGrows DEF AtRisk
    <3>4. pf'.realized >= pf.realized - Size
      BY <2>3 DEF Leaves
    <3>5. Fine(pf')
      BY <1>2, <1>3, <1>4, <3>3, <3>4
    <3> QED BY <2>1, <3>5
  <2> QED BY <1>8, <2>2, <2>3 DEF ExitEffect
<1>9. CASE EndEntries \/ EndExits \/ Persist \/ Crash
  BY <1>4, <1>9 DEF EndEntries, EndExits, Persist, Crash
<1>10. CASE RestartEffect
  <2>1. phase' # "entries"
    BY <1>10 DEF RestartEffect
  <2>2. CASE /\ saved' = saved /\ pf'.realized = saved.realized
             /\ Open(pf') \subseteq Open(saved)
    BY <1>2, <1>4, <1>5, <2>1, <2>2
  <2>3. CASE saved' = pf' /\ pf' = NewPortfolio(now')
    <3>1. Open(pf') = {} /\ pf'.realized = 0
      BY <2>3 DEF NewPortfolio, Open, In
    <3>2. AtRisk(pf') = 0
      BY <1>2, <3>1, FS_EmptySet DEF AtRisk
    <3>3. 0 > Bound
      <4>1. MaxOpen * Size >= 0
        BY <1>2
      <4> QED BY <1>2, <4>1, MoneyAssumption
    <3> QED BY <2>1, <2>3, <3>1, <3>2, <3>3
  <2> QED BY <1>10, <2>2, <2>3 DEF RestartEffect, LoseFile
<1>11. CASE UNCHANGED vars
  BY <1>4, <1>11 DEF vars
<1> QED BY <1>4, <1>6, <1>7, <1>8, <1>9, <1>10, <1>11, <1>1, StepCases

\* The loss the process has counted is bounded by the cap and one full book, over any
\* number of days, crashes and corrections.
THEOREM LossIsBounded == Spec => []LossBounded
<1>1. Init => LossInv
  <2> SUFFICES ASSUME Init PROVE LossInv
    OBVIOUS
  <2>1. EntriesInv
    BY TypeInit, EmptyBook, LimitsAssumption DEF EntriesInv, EntriesBounded, Init
  <2>2. AtRisk(pf) = 0 /\ MaxOpen * Size >= 0 /\ MaxOpen * Size \in Int
    BY EmptyBook, MoneyAssumption, LimitsAssumption DEF AtRisk
  <2>3. 0 - 0 > -LossCap - MaxOpen * Size
    BY <2>2, MoneyAssumption
  <2> QED BY <2>1, <2>2, <2>3, EmptyBook DEF LossInv, Init
<1>2. LossInv /\ [Next]_vars => LossInv'
  BY LossStep
<1>3. LossInv => LossBounded
  <2> SUFFICES ASSUME LossInv PROVE LossBounded
    OBVIOUS
  <2>1. pf.realized \in Int /\ AtRisk(pf) \in Nat /\ MaxOpen * Size \in Int /\ LossCap \in Int
    BY RiskShrinks, MoneyAssumption, LimitsAssumption DEF LossInv, EntriesInv, TypeOK, Portfolio
  <2> QED BY <2>1 DEF LossInv, LossBounded
<1> QED BY <1>1, <1>2, <1>3, PTL DEF Spec

-----------------------------------------------------------------------------
(***************************************************************************)
(* The day's count.  It is tested once, before the entries: each buy that  *)
(* raises it also fills a place of the book.                               *)
(***************************************************************************)
DayInv ==
  /\ EntriesInv
  /\ DailyOvershootBounded
  /\ saved.opened = 0 \/ saved.opened < MaxDaily + MaxOpen
  /\ phase = "entries" => pf.opened < MaxDaily + Cardinality(Open(pf))

LEMMA DayStep ==
  ASSUME DayInv, [Next]_vars
  PROVE  DayInv'
<1>1. EntriesInv' /\ TypeOK /\ pf \in Portfolio /\ pf' \in Portfolio
  BY EntriesStep DEF DayInv, EntriesInv, TypeOK
<1>2. /\ pf.opened \in Nat /\ pf'.opened \in Nat
      /\ MaxDaily \in Nat /\ MaxOpen \in Nat
      /\ Cardinality(Open(pf)) \in Nat /\ Cardinality(Open(pf')) \in Nat
      /\ Cardinality(Open(pf')) <= MaxOpen
  BY <1>1, OpenFinite, LimitsAssumption DEF Portfolio, EntriesInv, EntriesBounded
<1> SUFFICES /\ pf'.opened = 0 \/ pf'.opened < MaxDaily + MaxOpen
             /\ saved'.opened = 0 \/ saved'.opened < MaxDaily + MaxOpen
             /\ phase' = "entries" => pf'.opened < MaxDaily + Cardinality(Open(pf'))
  BY <1>1 DEF DayInv, DailyOvershootBounded, Open, In
<1>3. CASE BeginEffect
  <2>1. phase' = "entries" => pf'.opened < MaxDaily + Cardinality(Open(pf'))
    BY <1>2, <1>3 DEF BeginEffect
  <2> QED BY <1>3, <2>1 DEF BeginEffect, DayInv, DailyOvershootBounded
<1>4. ASSUME NEW m \in Mints, EntryEffect(m)
      PROVE  /\ pf'.opened < MaxDaily + MaxOpen /\ saved' = saved
             /\ pf'.opened < MaxDaily + Cardinality(Open(pf'))
  <2>1. pf.opened < MaxDaily + Cardinality(Open(pf)) /\ saved' = saved
    BY <1>4 DEF EntryEffect, DayInv
  <2>2. pf'.opened < MaxDaily + Cardinality(Open(pf'))
    <3>1. CASE Entered(m)
      <4>1. Cardinality(Open(pf')) = Cardinality(Open(pf)) + 1 /\ pf'.opened = pf.opened + 1
        BY <3>1, OpenFinite, FS_AddElement DEF Entered
      <4> QED BY <1>2, <2>1, <4>1
    <3>2. CASE NotEntered(m)
      BY <2>1, <3>2 DEF NotEntered
    <3> QED BY <1>4, <3>1, <3>2 DEF EntryEffect
  <2> QED BY <1>2, <2>1, <2>2
<1>5. ASSUME NEW m \in Mints, ExitEffect(m)
      PROVE  pf'.opened = pf.opened /\ saved' = saved /\ phase' # "entries"
  BY <1>5 DEF ExitEffect
<1>6. CASE EndEntries \/ EndExits \/ Persist \/ Crash
  BY <1>6 DEF EndEntries, EndExits, Persist, Crash, DayInv, DailyOvershootBounded
<1>7. CASE RestartEffect
  <2>1. pf' = NewPortfolio(now') => pf'.opened = 0
    BY DEF NewPortfolio
  <2> QED BY <1>7, <2>1 DEF RestartEffect, LoseFile, DayInv
<1>8. CASE UNCHANGED vars
  BY <1>8 DEF vars, DayInv, DailyOvershootBounded
<1> QED BY <1>3, <1>4, <1>5, <1>6, <1>7, <1>8, <1>1, StepCases DEF DayInv, DailyOvershootBounded

\* The positions opened in a day exceed the day's limit by less than a full book.
THEOREM OvershootIsBounded == Spec => []DailyOvershootBounded
<1>1. Init => DayInv
  <2> SUFFICES ASSUME Init PROVE DayInv
    OBVIOUS
  <2>1. EntriesInv
    BY TypeInit, EmptyBook, LimitsAssumption DEF EntriesInv, EntriesBounded, Init
  <2> QED BY <2>1, EmptyBook DEF DayInv, DailyOvershootBounded, Init
<1>2. DayInv /\ [Next]_vars => DayInv'
  BY DayStep
<1>3. DayInv => DailyOvershootBounded
  BY DEF DayInv
<1> QED BY <1>1, <1>2, <1>3, PTL DEF Spec

-----------------------------------------------------------------------------
(***************************************************************************)
(* The failure rail is a latch.  An idle process has the count of its      *)
(* state file, so entries begin only when the count of the file is below   *)
(* the limit; within a cycle the count of a process behind the rail never  *)
(* falls.                                                                  *)
(***************************************************************************)
LatchInv ==
  /\ TypeOK
  /\ phase = "idle" => pf.failures = saved.failures
  /\ phase = "entries" => saved.failures < MaxFailures
  /\ saved.failures >= MaxFailures => pf.failures >= MaxFailures

LEMMA LatchStep ==
  ASSUME LatchInv, [Next]_vars
  PROVE  /\ LatchInv'
         /\ saved.failures >= MaxFailures =>
              saved'.failures >= MaxFailures \/ (phase = "down" /\ LoseFile)
<1>1. TypeOK /\ TypeOK'
  BY TypeStep DEF LatchInv
<1>2. /\ pf.failures \in Int /\ saved.failures \in Int /\ pf'.failures \in Int
      /\ MaxFailures \in Int
  BY <1>1, LimitsAssumption DEF TypeOK, Portfolio
<1> SUFFICES /\ phase' = "idle" => pf'.failures = saved'.failures
             /\ phase' = "entries" => saved'.failures < MaxFailures
             /\ saved'.failures >= MaxFailures => pf'.failures >= MaxFailures
             /\ saved.failures >= MaxFailures =>
                  saved'.failures >= MaxFailures \/ (phase = "down" /\ LoseFile)
  BY <1>1 DEF LatchInv
<1>3. CASE BeginEffect
  BY <1>3 DEF BeginEffect, LatchInv
<1>4. ASSUME NEW m \in Mints, EntryEffect(m)
      PROVE  saved' = saved /\ phase' = "entries" /\ saved.failures < MaxFailures
  BY <1>4 DEF EntryEffect, LatchInv
<1>5. ASSUME NEW m \in Mints, ExitEffect(m)
      PROVE  saved' = saved /\ phase' = "exits" /\ pf'.failures >= pf.failures
  BY <1>5 DEF ExitEffect
<1>6. CASE EndEntries \/ EndExits \/ Persist \/ Crash
  BY <1>6 DEF EndEntries, EndExits, Persist, Crash, LatchInv
<1>7. CASE RestartEffect
  <2>1. /\ phase = "down" /\ phase' \in {"save", "idle"}
        /\ \/ saved' = saved /\ pf'.failures = saved.failures
           \/ LoseFile /\ saved' = pf'
    BY <1>7 DEF RestartEffect, LoseFile
  <2> QED BY <2>1
<1>8. CASE UNCHANGED vars
  BY <1>8 DEF vars, LatchInv
<1>9. CASE \E m \in Mints : EntryEffect(m) \/ ExitEffect(m)
  BY <1>2, <1>4, <1>5, <1>9 DEF LatchInv
<1> QED BY <1>1, <1>3, <1>6, <1>7, <1>8, <1>9, StepCases

\* Once the count of failures in the state file has reached its limit it stays there: no
\* restart clears it, only the loss of the file.
THEOREM FailureRailLatches == Spec => FailureLatch
<1>1. Init => LatchInv
  BY TypeInit DEF LatchInv, Init
<1>2. LatchInv /\ [Next]_vars => LatchInv'
  BY LatchStep
<1>3. LatchInv /\ [Next]_vars
        => [ saved.failures >= MaxFailures =>
               saved'.failures >= MaxFailures \/ (phase = "down" /\ LoseFile) ]_vars
  BY LatchStep
<1> QED BY <1>1, <1>2, <1>3, PTL DEF Spec, FailureLatch

-----------------------------------------------------------------------------
(***************************************************************************)
(* The cooldown.  A mint that is not in a book has, in that book, a        *)
(* closing time that is not older than its last one - in the process and   *)
(* in the state file, whichever a new process will start from.             *)
(***************************************************************************)
Remembers(p) == \A m \in Mints \ Open(p) : p.closedAt[m] >= closed[m]

CooldownInv ==
  /\ TypeOK
  /\ Remembers(pf) /\ Remembers(saved)
  /\ \A m \in Mints : closed[m] <= now

LEMMA CooldownStep ==
  ASSUME CooldownInv, [Next]_vars
  PROVE  /\ CooldownInv'
         /\ \A m \in Mints : Buys(m) => now - closed[m] >= Cooldown
<1>1. /\ TypeOK /\ TypeOK' /\ pf \in Portfolio /\ saved \in Portfolio /\ pf' \in Portfolio
      /\ now \in Int /\ closed \in [Mints -> Never..MaxTime] /\ Cooldown \in Int
  BY TypeStep, TimeAssumption DEF CooldownInv, TypeOK
<1>2. \A m \in Mints : /\ pf.closedAt[m] \in Int /\ saved.closedAt[m] \in Int
                       /\ closed[m] \in Int
  BY <1>1, TimeAssumption DEF Portfolio, Never
<1>a. \A m \in Mints : closed'[m] <= now'
  <2>0. now' \in Int /\ now' >= now
    BY <1>1, StepCases DEF BeginEffect, EntryEffect, ExitEffect, EndEntries, EndExits, Persist,
                           Crash, RestartEffect, vars, TypeOK
  <2>1. \A m \in Mints : closed'[m] \in {closed[m], now, now', Never}
    BY <1>1, StepCases DEF BeginEffect, EntryEffect, ExitEffect, Stays, Leaves, EndEntries,
                           EndExits, Persist, Crash, RestartEffect, LoseFile, vars
  <2>2. now' >= 0 /\ Never <= 0 /\ Never \in Int
    BY <1>1, TimeAssumption DEF TypeOK, Never
  <2> QED BY <1>1, <1>2, <2>0, <2>1, <2>2 DEF CooldownInv
<1> SUFFICES /\ Remembers(pf)' /\ Remembers(saved)'
             /\ \A m \in Mints : Buys(m) => now - closed[m] >= Cooldown
  BY <1>1, <1>a DEF CooldownInv
<1>3. Remembers(pf) /\ Remembers(saved)
  BY DEF CooldownInv
<1>4. ASSUME closed' = closed, pf'.closedAt = pf.closedAt, Open(pf) \subseteq Open(pf')
      PROVE  Remembers(pf)'
  BY <1>3, <1>4 DEF Remembers, Open, In
<1>5. ASSUME closed' = closed, saved' = saved
      PROVE  Remembers(saved)'
  BY <1>3, <1>5 DEF Remembers, Open, In
<1>6. ASSUME NEW m \in Mints, EntryEffect(m)
      PROVE  /\ Remembers(pf)' /\ Remembers(saved)'
             /\ \A n \in Mints : Buys(n) => now - closed[n] >= Cooldown
  <2>1. Remembers(pf)' /\ Remembers(saved)'
    BY <1>4, <1>5, <1>6 DEF EntryEffect, Entered, NotEntered
  <2>2. ASSUME NEW n \in Mints, Buys(n)
        PROVE  now - closed[n] >= Cooldown
    <3>1. n \notin Open(pf) /\ n \in Open(pf')
      BY <1>1, <2>2 DEF Buys, Open, In, Portfolio
    <3>2. Entered(m) /\ n = m
      BY <1>6, <3>1 DEF EntryEffect, Entered, NotEntered
    <3>3. ~CoolingDown(n)
      BY <3>2 DEF Entered, Eligible
    <3>4. pf.closedAt[n] >= closed[n]
      BY <1>3, <3>1 DEF Remembers
    <3>5. now - pf.closedAt[n] >= Cooldown
      BY <1>1, <1>2, <3>3 DEF CoolingDown
    <3> QED BY <1>1, <1>2, <3>4, <3>5
  <2> QED BY <2>1, <2>2
<1>7. ASSUME phase # "entries"
      PROVE  \A n \in Mints : Buys(n) => now - closed[n] >= Cooldown
  BY <1>7 DEF Buys
<1>8. ASSUME NEW m \in Mints, ExitEffect(m)
      PROVE  Remembers(pf)' /\ Remembers(saved)'
  <2>1. CASE Stays
    BY <1>4, <1>5, <1>8, <2>1 DEF ExitEffect, Stays
  <2>2. CASE Leaves(m)
    <3>1. /\ Open(pf') = Open(pf) \ {m} /\ saved' = saved
          /\ pf'.closedAt = [pf.closedAt EXCEPT ![m] = now]
          /\ closed' = IF saved.slot[m] = "none" THEN closed ELSE [closed EXCEPT ![m] = now]
      BY <1>8, <2>2 DEF ExitEffect, Leaves
    <3>2. \A n \in Mints : /\ pf'.closedAt[n] = IF n = m THEN now ELSE pf.closedAt[n]
                           /\ n # m => closed'[n] = closed[n]
      BY <1>1, <3>1 DEF Portfolio
    <3>3. closed'[m] <= now
      <4>1. closed[m] <= now
        BY DEF CooldownInv
      <4> QED BY <1>1, <3>1, <4>1
    <3>4. Remembers(pf)'
      BY <1>1, <1>3, <3>1, <3>2, <3>3 DEF Remembers, Open, In
    <3>5. saved.slot[m] = "none" => closed' = closed
      BY <3>1
    <3>6. Remembers(saved)'
      <4>1. \A n \in Mints \ Open(saved) : saved.slot[n] = "none"
        BY <1>1 DEF Portfolio, Open, In
      <4>2. \A n \in Mints \ Open(saved) : closed'[n] = closed[n]
        BY <3>2, <3>5, <4>1
      <4> QED BY <1>3, <3>1, <4>2 DEF Remembers, Open, In
    <3> QED BY <3>4, <3>6
  <2> QED BY <1>8, <2>1, <2>2 DEF ExitEffect
<1>9. CASE BeginEffect
  <2>1. Open(pf') = Open(pf)
    BY <1>9 DEF BeginEffect, Open, In
  <2> QED BY <1>4, <1>5, <1>7, <1>9, <2>1 DEF BeginEffect
<1>10. CASE EndEntries \/ EndExits \/ Persist \/ Crash
  <2>1. /\ closed' = closed
        /\ pf' \in {pf, saved} /\ saved' \in {saved, pf}
        /\ \A m \in Mints : ~Buys(m)
    BY <1>10 DEF EndEntries, EndExits, Persist, Crash, Buys
  <2>2. ASSUME NEW p, Remembers(p)
        PROVE  \A m \in Mints \ Open(p) : p.closedAt[m] >= closed'[m]
    BY <2>1, <2>2 DEF Remembers
  <2> QED BY <1>3, <2>1, <2>2 DEF Remembers, Open, In
<1>14. CASE RestartEffect /\ LoseFile
  <2>1. /\ closed' = [m \in Mints |-> Never] /\ saved' = pf' /\ phase # "entries"
        /\ pf'.closedAt = [m \in Mints |-> Never]
    BY <1>14 DEF RestartEffect, LoseFile, NewPortfolio
  <2>2. Never \in Int /\ Never >= Never
    BY TimeAssumption DEF Never
  <2> QED BY <1>7, <2>1, <2>2 DEF Remembers, Open, In
<1>11. CASE RestartEffect /\ ~LoseFile
  <2>1. /\ saved' = saved /\ Open(pf') \subseteq Open(saved) /\ phase # "entries"
        /\ \A m \in Mints \ Open(pf') :
             pf'.closedAt[m] = IF m \in Open(saved) THEN now' ELSE saved.closedAt[m]
        /\ closed' = [m \in Mints |-> IF m \in Open(saved) /\ m \notin Open(pf') THEN now'
                                      ELSE closed[m]]
        /\ now' \in Int
    BY <1>11 DEF RestartEffect
  <2>2. ASSUME NEW m \in Mints \ Open(pf')
        PROVE  pf'.closedAt[m] >= closed'[m]
    BY <1>3, <2>1, <2>2 DEF Remembers
  <2>3. ASSUME NEW m \in Mints \ Open(saved)
        PROVE  saved'.closedAt[m] >= closed'[m]
    BY <1>3, <2>1, <2>3 DEF Remembers
  <2> QED BY <1>7, <2>1, <2>2, <2>3 DEF Remembers, Open, In
<1>12. CASE UNCHANGED vars
  BY <1>3, <1>12 DEF vars, Remembers, Buys, Open, In
<1>13. CASE \E m \in Mints : EntryEffect(m) \/ ExitEffect(m)
  BY <1>6, <1>7, <1>8, <1>13 DEF ExitEffect
<1> QED BY <1>1, <1>9, <1>10, <1>11, <1>12, <1>13, <1>14, StepCases

\* A mint that has left a saved book is not bought before its cooldown is over, whoever
\* closed it - the loop or the recovery - and whatever crashed in between.
THEOREM CooldownAlwaysRespected == Spec => CooldownRespected
<1>1. Init => CooldownInv
  <2> SUFFICES ASSUME Init PROVE CooldownInv
    OBVIOUS
  <2>1. /\ pf.closedAt = [m \in Mints |-> Never] /\ saved = pf
        /\ closed = [m \in Mints |-> Never] /\ now = 0
    BY DEF Init, NewPortfolio
  <2>2. Never \in Int /\ Never <= 0 /\ Never >= Never
    BY TimeAssumption DEF Never
  <2> QED BY <2>1, <2>2, TypeInit DEF CooldownInv, Remembers
<1>2. CooldownInv /\ [Next]_vars => CooldownInv'
  BY CooldownStep
<1>3. CooldownInv /\ [Next]_vars
        => [ \A m \in Mints : Buys(m) => now - closed[m] >= Cooldown ]_vars
  BY CooldownStep
<1> QED BY <1>1, <1>2, <1>3, PTL DEF Spec, CooldownRespected

-----------------------------------------------------------------------------
(* Dry-run.  A process that may not trade has the cash of its state file. *)

DryInv == TypeOK /\ (~live => pf.cash = saved.cash)

LEMMA DryStep ==
  ASSUME DryInv, [Next]_vars
  PROVE  /\ DryInv'
         /\ phase # "down" /\ ~live => /\ pf'.cash = pf.cash /\ sol' = sol
                                       /\ Open(pf') \subseteq Open(pf) \cup Open(saved)
<1>1. TypeOK /\ TypeOK'
  BY TypeStep DEF DryInv
<1> SUFFICES /\ ~live' => pf'.cash = saved'.cash
             /\ phase # "down" /\ ~live => /\ pf'.cash = pf.cash /\ sol' = sol
                                           /\ Open(pf') \subseteq Open(pf) \cup Open(saved)
  BY <1>1 DEF DryInv
<1>2. CASE BeginEffect
  BY <1>2 DEF BeginEffect, DryInv, Open, In
<1>3. ASSUME NEW m \in Mints, EntryEffect(m)
      PROVE  /\ live' = live /\ saved' = saved
             /\ ~live => pf'.cash = pf.cash /\ sol' = sol /\ Open(pf') = Open(pf)
  BY <1>3 DEF EntryEffect, Entered, NotEntered
<1>4. ASSUME NEW m \in Mints, ExitEffect(m)
      PROVE  /\ live' = live /\ saved' = saved
             /\ ~live => pf'.cash = pf.cash /\ sol' = sol
             /\ Open(pf') \subseteq Open(pf)
  BY <1>4 DEF ExitEffect, Stays, Leaves
<1>5. CASE EndEntries \/ EndExits \/ Persist \/ Crash
  BY <1>5 DEF EndEntries, EndExits, Persist, Crash, DryInv
<1>6. CASE RestartEffect
  BY <1>6 DEF RestartEffect, LoseFile
<1>7. CASE UNCHANGED vars
  BY <1>7 DEF vars, DryInv
<1>8. CASE \E m \in Mints : EntryEffect(m) \/ ExitEffect(m)
  BY <1>3, <1>4, <1>8 DEF DryInv
<1> QED BY <1>1, <1>2, <1>5, <1>6, <1>7, <1>8, StepCases

\* Dry-run spends nothing and opens nothing, on any state file and with any faults.
THEOREM DryRunIsDry == Spec => DryRunSpendsNothing
<1>1. Init => DryInv
  BY TypeInit DEF DryInv, Init
<1>2. DryInv /\ [Next]_vars => DryInv'
  BY DryStep
<1>3. DryInv /\ [Next]_vars
        => [ phase # "down" /\ ~live => /\ pf'.cash = pf.cash /\ sol' = sol
                                        /\ Open(pf') \subseteq Open(pf) \cup Open(saved) ]_vars
  BY DryStep
<1> QED BY <1>1, <1>2, <1>3, PTL DEF Spec, DryRunSpendsNothing

-----------------------------------------------------------------------------
(* Cash.  As long as every answer arrives and is right, and no crash takes a *)
(* cycle back, each step that moves SOL books the same amount.               *)

Answered ==
  /\ {"lost_reply", "unlanded_reply", "no_proceeds", "unsettled"} \cap Faults = {}
  /\ MaxCrashes = 0

CashInv == TypeOK /\ CashExact /\ phase # "down"

LEMMA BuyBooksWhatItSpends ==
  ASSUME TypeOK, CashExact, Answered, NEW m \in Mints, EntryStep(m)
  PROVE  CashExact' /\ phase' # "down"
<1>1. pf \in Portfolio /\ sol \in Int /\ pf.cash \in Int /\ pf.cash = sol
  BY DEF TypeOK, Portfolio, CashExact
<1>2. phase' = "entries"
  BY DEF EntryStep, PassOver, BuySkipped, BuyFailed, BuySettled, BuyUnsettled, Candidate
<1>3. CASE PassOver(m) \/ BuySkipped(m)
  BY <1>2, <1>3 DEF PassOver, BuySkipped, CashExact
<1>4. CASE BuyFailed(m)
  <2>1. sol' = sol /\ pf' = [pf EXCEPT !.failures = @ + 1]
    BY <1>4 DEF BuyFailed, Answered
  <2> QED BY <1>1, <1>2, <2>1 DEF CashExact, Portfolio
<1>5. CASE BuySettled(m)
  <2>1. sol' = sol - Size /\ Enter(m, "open", 0)
    BY <1>5 DEF BuySettled, Answered
  <2>2. pf'.cash = pf.cash - Size
    BY <1>1, <2>1 DEF Enter, Portfolio
  <2> QED BY <1>1, <1>2, <2>1, <2>2 DEF CashExact
<1>6. ~BuyUnsettled(m)
  BY DEF BuyUnsettled, Answered
<1> QED BY <1>3, <1>4, <1>5, <1>6 DEF EntryStep

LEMMA SaleBooksWhatItPays ==
  ASSUME TypeOK, CashExact, Answered, NEW m \in Mints, ExitStep(m)
  PROVE  CashExact' /\ phase' # "down"
<1>1. pf \in Portfolio /\ sol \in Int /\ pf.cash \in Int /\ pf.cash = sol
  BY DEF TypeOK, Portfolio, CashExact
<1>2. phase' = "exits"
  BY DEF ExitStep, VisitWithoutSale, SellFailed, SellPart, SellRest, SellUnpaid, Visit
<1>3. CASE VisitWithoutSale(m)
  <2>1. sol' = sol /\ pf'.cash = pf.cash
    BY <1>1, <1>3 DEF VisitWithoutSale, Portfolio
  <2> QED BY <1>1, <1>2, <2>1 DEF CashExact
<1>4. CASE SellFailed(m)
  <2>1. sol' = sol
    BY <1>4 DEF SellFailed, Answered
  <2>2. pf'.cash = pf.cash
    BY <1>1, <1>4 DEF SellFailed, Portfolio
  <2> QED BY <1>1, <1>2, <2>1, <2>2 DEF CashExact
<1>5. CASE SellPart(m)
  <2>1. PICK paid \in Proceeds, slot \in {"open", "exiting"} :
          /\ sol' = sol + paid
          /\ pf' = [pf EXCEPT !.slot[m] = slot, !.got[m] = @ + paid, !.cash = @ + paid]
    BY <1>5 DEF SellPart, Paid, Answered
  <2>2. pf'.cash = pf.cash + paid
    BY <1>1, <2>1 DEF Portfolio
  <2> QED BY <1>1, <1>2, <2>1, <2>2 DEF CashExact
<1>6. CASE SellRest(m)
  <2>1. PICK paid \in Proceeds :
          /\ sol' = sol + paid
          /\ pf' = [pf EXCEPT !.slot[m] = "none", !.got[m] = 0, !.cash = @ + paid,
                              !.realized = @ + (pf.got[m] + paid - Size), !.closedAt[m] = now]
    BY <1>6 DEF SellRest, Paid, Answered
  <2>2. pf'.cash = pf.cash + paid
    BY <1>1, <2>1 DEF Portfolio
  <2> QED BY <1>1, <1>2, <2>1, <2>2 DEF CashExact
<1>7. ~SellUnpaid(m)
  BY DEF SellUnpaid, Answered
<1> QED BY <1>3, <1>4, <1>5, <1>6, <1>7 DEF ExitStep

LEMMA CashStep ==
  ASSUME CashInv, Answered, [Next]_vars
  PROVE  CashInv'
<1>1. TypeOK /\ TypeOK' /\ CashExact /\ phase # "down"
  BY TypeStep DEF CashInv
<1> SUFFICES CashExact' /\ phase' # "down"
  BY <1>1 DEF CashInv
<1>2. CASE BeginCycle
  BY <1>1, <1>2, BeginCycleEffect DEF BeginEffect, CashExact
<1>3. CASE \E m \in Mints : EntryStep(m) \/ ExitStep(m)
  BY <1>1, <1>3, BuyBooksWhatItSpends, SaleBooksWhatItPays
<1>4. CASE EndEntries \/ EndExits \/ Persist
  BY <1>1, <1>4 DEF EndEntries, EndExits, Persist, CashExact
<1>5. ~Crash
  BY <1>1 DEF Crash, Answered, TypeOK
<1>6. ~Restart
  BY <1>1 DEF Restart
<1>7. CASE UNCHANGED vars
  BY <1>1, <1>7 DEF vars, CashExact
<1> QED BY <1>2, <1>3, <1>4, <1>5, <1>6, <1>7 DEF Next

\* As long as every answer arrives and is right, cash_sol is the SOL in the wallet.
THEOREM CashIsExact ==
  ASSUME Answered
  PROVE  Spec => []CashExact
<1>1. Init => CashInv
  BY TypeInit DEF CashInv, CashExact, Init, NewPortfolio
<1>2. CashInv /\ [Next]_vars => CashInv'
  BY CashStep
<1>3. CashInv => CashExact
  BY DEF CashInv
<1> QED BY <1>1, <1>2, <1>3, PTL DEF Spec

\* What weakens CashIsExact to an inequality: proceeds that are unknown, a wallet read
\* that denies a sale, and a buy that is booked and never happens all leave cash_sol too
\* low.  An answer that is lost, a sale that never lands and a crash can leave it too high.
NothingLost ==
  /\ {"lost_reply", "unlanded_reply"} \cap Faults = {}
  /\ MaxCrashes = 0

\* The process never believes in more SOL than the wallet has: what it spends is there.
CashCovered == pf.cash <= sol

LEMMA BuyKeepsCover ==
  ASSUME TypeOK, CashCovered, NothingLost, NEW m \in Mints, EntryStep(m)
  PROVE  CashCovered' /\ phase' # "down"
<1>1. /\ pf \in Portfolio /\ sol \in Int /\ pf.cash \in Int /\ pf.cash <= sol
      /\ Size \in Int /\ Size >= 0
  BY MoneyAssumption DEF TypeOK, Portfolio, CashCovered
<1>2. phase' = "entries"
  BY DEF EntryStep, PassOver, BuySkipped, BuyFailed, BuySettled, BuyUnsettled, Candidate
<1>3. CASE PassOver(m) \/ BuySkipped(m)
  BY <1>2, <1>3 DEF PassOver, BuySkipped, CashCovered
<1>4. CASE BuyFailed(m)
  <2>1. sol' = sol /\ pf' = [pf EXCEPT !.failures = @ + 1]
    BY <1>4 DEF BuyFailed, NothingLost
  <2> QED BY <1>1, <1>2, <2>1 DEF CashCovered, Portfolio
<1>5. CASE BuySettled(m) \/ BuyUnsettled(m)
  <2>1. /\ sol' \in {sol, sol - Size}
        /\ \E slot, failures : Enter(m, slot, failures)
    BY <1>5 DEF BuySettled, BuyUnsettled, NothingLost
  <2>2. pf'.cash = pf.cash - Size
    BY <1>1, <2>1 DEF Enter, Portfolio
  <2> QED BY <1>1, <1>2, <2>1, <2>2 DEF CashCovered
<1> QED BY <1>3, <1>4, <1>5 DEF EntryStep

LEMMA SaleKeepsCover ==
  ASSUME TypeOK, CashCovered, NothingLost, NEW m \in Mints, ExitStep(m)
  PROVE  CashCovered' /\ phase' # "down"
<1>1. pf \in Portfolio /\ sol \in Int /\ pf.cash \in Int /\ pf.cash <= sol
  BY DEF TypeOK, Portfolio, CashCovered
<1>2. phase' = "exits"
  BY DEF ExitStep, VisitWithoutSale, SellFailed, SellPart, SellRest, SellUnpaid, Visit
<1>3. ASSUME NEW paid \in Nat, sol' = sol + paid, pf'.cash \in {pf.cash, pf.cash + paid}
      PROVE  CashCovered'
  BY <1>1, <1>3 DEF CashCovered
<1>4. Proceeds \subseteq Nat /\ 0 \in Nat /\ sol + 0 = sol
  BY <1>1, MoneyAssumption
<1>5. CASE VisitWithoutSale(m)
  <2>1. sol' = sol + 0 /\ pf'.cash = pf.cash
    BY <1>1, <1>4, <1>5 DEF VisitWithoutSale, Portfolio
  <2> QED BY <1>2, <1>3, <1>4, <2>1
<1>6. CASE SellFailed(m)
  <2>1. sol' = sol + 0
    BY <1>4, <1>6 DEF SellFailed, NothingLost
  <2>2. pf'.cash = pf.cash
    BY <1>1, <1>6 DEF SellFailed, Portfolio
  <2> QED BY <1>2, <1>3, <1>4, <2>1, <2>2
<1>7. CASE SellPart(m)
  <2>1. PICK paid \in Proceeds, slot \in {"open", "exiting"} :
          /\ sol' = sol + paid
          /\ pf' = [pf EXCEPT !.slot[m] = slot, !.got[m] = @ + paid, !.cash = @ + paid]
    BY <1>7 DEF SellPart, Paid, NothingLost
  <2>2. pf'.cash = pf.cash + paid
    BY <1>1, <2>1 DEF Portfolio
  <2> QED BY <1>2, <1>3, <1>4, <2>1, <2>2
<1>8. CASE SellRest(m)
  <2>1. PICK paid \in Proceeds :
          /\ sol' = sol + paid
          /\ pf' = [pf EXCEPT !.slot[m] = "none", !.got[m] = 0, !.cash = @ + paid,
                              !.realized = @ + (pf.got[m] + paid - Size), !.closedAt[m] = now]
    BY <1>8 DEF SellRest, Paid, NothingLost
  <2>2. pf'.cash = pf.cash + paid
    BY <1>1, <2>1 DEF Portfolio
  <2> QED BY <1>2, <1>3, <1>4, <2>1, <2>2
<1>9. CASE SellUnpaid(m)
  <2>1. PICK paid \in Proceeds : sol' = sol + paid
    BY <1>9 DEF SellUnpaid
  <2>2. pf'.cash = pf.cash
    BY <1>1, <1>9 DEF SellUnpaid, Portfolio
  <2> QED BY <1>2, <1>3, <1>4, <2>1, <2>2
<1> QED BY <1>5, <1>6, <1>7, <1>8, <1>9 DEF ExitStep

\* As long as no answer is lost, no sale is booked that never lands and nothing crashes,
\* cash_sol is never more than the SOL in the wallet.
THEOREM CashIsCovered ==
  ASSUME NothingLost
  PROVE  Spec => []CashCovered
<1> DEFINE CoverInv == TypeOK /\ CashCovered /\ phase # "down"
<1>1. Init => CoverInv
  BY TypeInit, MoneyAssumption DEF CashCovered, Init, NewPortfolio
<1>2. CoverInv /\ [Next]_vars => CoverInv'
  <2> SUFFICES ASSUME CoverInv, [Next]_vars
               PROVE  CashCovered' /\ phase' # "down"
    BY TypeStep
  <2>1. CASE BeginCycle
    BY <2>1, BeginCycleEffect DEF BeginEffect, CashCovered
  <2>2. CASE \E m \in Mints : EntryStep(m) \/ ExitStep(m)
    BY <2>2, BuyKeepsCover, SaleKeepsCover
  <2>3. CASE EndEntries \/ EndExits \/ Persist
    BY <2>3 DEF EndEntries, EndExits, Persist, CashCovered
  <2>4. ~Crash /\ ~Restart
    BY DEF Crash, Restart, NothingLost, TypeOK
  <2>5. CASE UNCHANGED vars
    BY <2>5 DEF vars, CashCovered
  <2> QED BY <2>1, <2>2, <2>3, <2>4, <2>5 DEF Next
<1>3. CoverInv => CashCovered
  OBVIOUS
<1> QED BY <1>1, <1>2, <1>3, PTL DEF Spec

-----------------------------------------------------------------------------
(***************************************************************************)
(* The interface to PositionExit.  What the cycle lets happen to one mint  *)
(* is what PositionExit is shown to do with a position (FollowsSlots): a   *)
(* visit moves it by VisitMoves, a recovery by RecoveryMoves, and only a   *)
(* buy brings one into the book.                                           *)
(***************************************************************************)
EntryMoves(s) == IF s = "none" THEN {"none", "open", "unconfirmed"} ELSE {s}

\* Every mint moves between slots only as ExitSlots says, unless the file is lost
\* (_maybe_open_positions, _mark_positions, run_startup_recovery).
KeepsToSlots ==
  [][ phase' # "down" => \A m \in Mints :
        /\ phase = "entries" => pf'.slot[m] \in EntryMoves(pf.slot[m])
        /\ phase = "exits" => pf'.slot[m] \in VisitMoves(pf.slot[m])
        /\ phase = "down" => pf'.slot[m] \in RecoveryMoves(saved.slot[m]) \/ LoseFile
        /\ phase \in {"idle", "save"} => pf'.slot[m] = pf.slot[m] ]_vars

LEMMA MovesOfASale ==
  ASSUME NEW s \in Slots
  PROVE  /\ s \in VisitMoves(s) /\ s \in EntryMoves(s) /\ s \in RecoveryMoves(s)
         /\ s \in Selling => /\ {"open", "exiting", "none"} \subseteq VisitMoves(s)
                             /\ FailedMoves(s) \subseteq VisitMoves(s)
  BY DEF Slots, VisitMoves, EntryMoves, RecoveryMoves, FailedMoves, Selling

\* A step that changes one slot, or none.
LEMMA OneSlotMoves ==
  ASSUME TypeOK, NEW m \in Mints, NEW n \in Mints, EntryStep(m) \/ ExitStep(m)
  PROVE  /\ EntryStep(m) => pf'.slot[n] \in EntryMoves(pf.slot[n])
         /\ ExitStep(m) => pf'.slot[n] \in VisitMoves(pf.slot[n])
<1>1. /\ pf \in Portfolio /\ pf.slot \in [Mints -> Slots]
      /\ pf.slot[m] \in Slots /\ pf.slot[n] \in Slots
  BY DEF TypeOK, Portfolio
<1>2. /\ pf.slot[n] \in EntryMoves(pf.slot[n]) /\ pf.slot[n] \in VisitMoves(pf.slot[n])
      /\ pf.slot[m] \in Selling =>
           /\ {"open", "exiting", "none"} \subseteq VisitMoves(pf.slot[m])
           /\ FailedMoves(pf.slot[m]) \subseteq VisitMoves(pf.slot[m])
  BY <1>1, MovesOfASale
<1>3. ~(EntryStep(m) /\ ExitStep(m))
  BY DEF EntryStep, PassOver, BuySkipped, BuyFailed, BuySettled, BuyUnsettled, Candidate,
         ExitStep, VisitWithoutSale, SellFailed, SellPart, SellRest, SellUnpaid, Visit
<1>4. CASE EntryStep(m)
  <2>1. CASE PassOver(m) \/ BuySkipped(m)
    BY <1>2, <1>3, <1>4, <2>1 DEF PassOver, BuySkipped
  <2>2. CASE BuyFailed(m)
    BY <1>1, <1>2, <1>3, <1>4, <2>2 DEF BuyFailed, Portfolio
  <2>3. CASE BuySettled(m) \/ BuyUnsettled(m)
    <3>1. PICK slot, failures : slot \in {"open", "unconfirmed"} /\ Enter(m, slot, failures)
      BY <2>3 DEF BuySettled, BuyUnsettled
    <3>2. pf'.slot = [pf.slot EXCEPT ![m] = slot] /\ pf.slot[m] = "none"
      BY <1>1, <2>3, <3>1 DEF Enter, Portfolio, BuySettled, BuyUnsettled, Eligible
    <3>3. pf'.slot[n] = IF n = m THEN slot ELSE pf.slot[n]
      BY <1>1, <3>2
    <3>4. pf'.slot[n] \in EntryMoves(pf.slot[n])
      BY <1>2, <3>1, <3>2, <3>3 DEF EntryMoves
    <3> QED BY <1>4, <1>3, <3>4
  <2> QED BY <1>4, <2>1, <2>2, <2>3 DEF EntryStep
<1>5. CASE ExitStep(m)
  <2>1. \E slot \in VisitMoves(pf.slot[m]) : pf'.slot = [pf.slot EXCEPT ![m] = slot]
    <3>1. CASE VisitWithoutSale(m)
      BY <1>1, <3>1 DEF VisitWithoutSale, Portfolio
    <3>2. CASE SellFailed(m)
      <4>1. PICK slot \in FailedMoves(pf.slot[m]) : pf'.slot = [pf.slot EXCEPT ![m] = slot]
        BY <1>1, <3>2 DEF SellFailed, Portfolio
      <4>2. slot \in VisitMoves(pf.slot[m])
        BY <1>2, <3>2, <4>1 DEF SellFailed
      <4> QED BY <4>1, <4>2
    <3>3. CASE SellPart(m) \/ SellRest(m) \/ SellUnpaid(m)
      <4>1. PICK slot \in {"open", "exiting", "none"} :
              pf'.slot = [pf.slot EXCEPT ![m] = slot]
        BY <1>1, <3>3 DEF SellPart, SellRest, SellUnpaid, Portfolio
      <4>2. slot \in VisitMoves(pf.slot[m])
        BY <1>2, <3>3, <4>1 DEF SellPart, SellRest, SellUnpaid
      <4> QED BY <4>1, <4>2
    <3> QED BY <1>5, <3>1, <3>2, <3>3 DEF ExitStep
  <2>2. PICK slot \in VisitMoves(pf.slot[m]) : pf'.slot = [pf.slot EXCEPT ![m] = slot]
    BY <2>1
  <2>3. pf'.slot[n] = IF n = m THEN slot ELSE pf.slot[n]
    BY <1>1, <2>2
  <2>4. pf'.slot[n] \in VisitMoves(pf.slot[n])
    BY <1>2, <2>2, <2>3
  <2> QED BY <1>5, <1>3, <2>4
<1> QED BY <1>4, <1>5

\* The cycle asks of a position only what PositionExit does with one.
THEOREM CycleKeepsToSlots == Spec => KeepsToSlots
<1> DEFINE Step == phase' # "down" => \A m \in Mints :
             /\ phase = "entries" => pf'.slot[m] \in EntryMoves(pf.slot[m])
             /\ phase = "exits" => pf'.slot[m] \in VisitMoves(pf.slot[m])
             /\ phase = "down" => pf'.slot[m] \in RecoveryMoves(saved.slot[m]) \/ LoseFile
             /\ phase \in {"idle", "save"} => pf'.slot[m] = pf.slot[m]
<1>1. TypeOK /\ [Next]_vars => [Step]_vars
  <2> SUFFICES ASSUME TypeOK, Next, phase' # "down", NEW n \in Mints
               PROVE  /\ phase = "entries" => pf'.slot[n] \in EntryMoves(pf.slot[n])
                      /\ phase = "exits" => pf'.slot[n] \in VisitMoves(pf.slot[n])
                      /\ phase = "down" =>
                           pf'.slot[n] \in RecoveryMoves(saved.slot[n]) \/ LoseFile
                      /\ phase \in {"idle", "save"} => pf'.slot[n] = pf.slot[n]
    OBVIOUS
  <2>1. /\ pf \in Portfolio /\ saved \in Portfolio
        /\ pf.slot[n] \in EntryMoves(pf.slot[n]) /\ pf.slot[n] \in VisitMoves(pf.slot[n])
    BY MovesOfASale DEF TypeOK, Portfolio
  <2>2. CASE BeginCycle
    BY <2>2, BeginCycleEffect DEF BeginEffect
  <2>3. ASSUME NEW m \in Mints, EntryStep(m)
        PROVE  phase = "entries" /\ pf'.slot[n] \in EntryMoves(pf.slot[n])
    BY <2>3, OneSlotMoves DEF EntryStep, PassOver, BuySkipped, BuyFailed, BuySettled,
                              BuyUnsettled, Candidate
  <2>4. ASSUME NEW m \in Mints, ExitStep(m)
        PROVE  phase = "exits" /\ pf'.slot[n] \in VisitMoves(pf.slot[n])
    BY <2>4, OneSlotMoves DEF ExitStep, VisitWithoutSale, SellFailed, SellPart, SellRest,
                              SellUnpaid, Visit
  <2>5. CASE EndEntries \/ EndExits \/ Persist
    BY <2>1, <2>5 DEF EndEntries, EndExits, Persist
  <2>6. ~Crash
    BY DEF Crash
  <2>7. CASE Restart
    <3>1. phase = "down" /\ now' \in 0..MaxTime
      BY <2>7, RestartHasEffect DEF RestartEffect
    <3>2. CASE LoseFile
      BY <3>1, <3>2
    <3>3. ASSUME NEW slot \in [Mints -> Slots],
                 \A m \in Mints : slot[m] \in RecoveryMoves(saved.slot[m]),
                 pf' = Recovered(Rollover(saved, now'), slot)
          PROVE  pf'.slot[n] \in RecoveryMoves(saved.slot[n])
      <4>1. Rollover(saved, now') \in Portfolio
        BY <2>1, <3>1, RolloverType
      <4>2. pf'.slot = slot
        BY <3>3, <4>1 DEF Recovered, Portfolio
      <4> QED BY <3>3, <4>2
    <3> QED BY <2>7, <3>1, <3>2, <3>3 DEF Restart
  <2> QED BY <2>2, <2>3, <2>4, <2>5, <2>6, <2>7 DEF Next
<1> QED BY <1>1, TypeCorrect, PTL DEF Spec, KeepsToSlots
=============================================================================
