--------------------------- MODULE ExitRulesProofs ---------------------------
(***************************************************************************)
(* Theorems about ExitRules, for any number of positions, any quotes and   *)
(* any thresholds: no rule is passed over when a position is held or sold  *)
(* only in part, and the time stop reaches unconfirmed entries.            *)
(***************************************************************************)
EXTENDS ExitRules, TLAPS

-----------------------------------------------------------------------------
(* The rules *)

\* The earliest of the rules that fire exists: "none" means that none fires.
LEMMA FirstRuleCase ==
  ASSUME NEW p, NEW suppressed, NEW thin
  PROVE  LET fires == Fires(p, suppressed, thin)
             first == FirstRule(p, suppressed, thin)
         IN \/ first = "none" /\ \A k \in 1..6 : ~fires[Order[k]]
            \/ \E k \in 1..6 : first = Order[k] /\ fires[Order[k]]
<1> DEFINE fires == Fires(p, suppressed, thin)
           firing == {k \in 1..6 : fires[Order[k]]}
<1>1. CASE firing = {}
  BY <1>1 DEF FirstRule
<1>2. CASE firing # {}
  <2>1. \E k \in firing : \A j \in firing : k <= j
    <3>1. firing \subseteq 1..6
      OBVIOUS
    <3> HIDE DEF firing
    <3>2. CASE 1 \in firing
      BY <3>1, <3>2
    <3>3. CASE 1 \notin firing /\ 2 \in firing
      BY <3>1, <3>3
    <3>4. CASE {1, 2} \cap firing = {} /\ 3 \in firing
      BY <3>1, <3>4
    <3>5. CASE {1, 2, 3} \cap firing = {} /\ 4 \in firing
      BY <3>1, <3>5
    <3>6. CASE {1, 2, 3, 4} \cap firing = {} /\ 5 \in firing
      BY <3>1, <3>6
    <3>7. CASE {1, 2, 3, 4, 5} \cap firing = {} /\ 6 \in firing
      BY <3>1, <3>7
    <3>8. PICK k \in 1..6 : k \in firing
      BY <1>2, <3>1
    <3> QED BY <3>8, <3>2, <3>3, <3>4, <3>5, <3>6, <3>7
  <2> DEFINE k == CHOOSE k \in firing : \A j \in firing : k <= j
  <2>2. k \in firing
    BY <2>1
  <2>3. FirstRule(p, suppressed, thin) = Order[k]
    BY <1>2 DEF FirstRule
  <2> QED BY <2>2, <2>3
<1> QED BY <1>1, <1>2

\* Of the six rules only the soft liquidity break does not sell everything.
LEMMA FirstRuleSells ==
  ASSUME NEW p, NEW suppressed, NEW thin, FirstRule(p, suppressed, thin) # "none"
  PROVE  FirstRule(p, suppressed, thin) \in FullExits \cup {"jsds_soft"}
<1>1. \A k \in 1..6 : Order[k] \in FullExits \cup {"jsds_soft"}
  BY DEF Order, FullExits
<1> QED BY <1>1, FirstRuleCase

\* The dangers that some rule is for, without the emergencies of Hachi.
NoDanger(p, suppressed) ==
  /\ ~HardBreak(p, suppressed) /\ ~SoftBreak(p, suppressed)
  /\ ~Stopped(p) /\ ~Trailed(p) /\ ~TimedOut(p)

\* When no rule fires the position is in none of their dangers.
LEMMA NoRuleNoDanger ==
  ASSUME NEW p, NEW suppressed \in BOOLEAN, NEW thin,
         FirstRule(p, suppressed, thin) = "none"
  PROVE  NoDanger(p, suppressed)
<1>1. \A k \in 1..6 : Order[k] # "none"
  BY DEF Order
<1>2. \A k \in 1..6 : ~Fires(p, suppressed, thin)[Order[k]]
  BY <1>1, FirstRuleCase
<1>3. /\ Order[2] = "jsds_hard" /\ Order[3] = "jsds_soft" /\ Order[4] = "stop_loss"
      /\ Order[5] = "trailing_stop" /\ Order[6] = "time_stop"
  BY DEF Order
<1> QED BY <1>2, <1>3 DEF Fires, NoDanger

-----------------------------------------------------------------------------
(* Type correctness *)

LEMMA MarksType ==
  /\ Marks \subseteq Nat \ {0} /\ 100 \in Marks /\ EntryMarks \subseteq Marks
  /\ \A q \in Quotes : q.mark \in Marks
<1>1. \A q \in Quotes : q.mark \in Nat \ {0}
  BY QuotesAssumption
<1>2. Quoted \subseteq Nat \ {0}
  BY <1>1 DEF Quoted
<1>3. \A q \in Quotes : q.mark \in Quoted
  BY DEF Quoted
<1> QED BY <1>2, <1>3, QuotesAssumption DEF Marks

LEMMA LargerType ==
  ASSUME NEW S, NEW a \in S, NEW b \in S
  PROVE  Larger(a, b) \in S
  BY DEF Larger

LEMMA NewPositionType ==
  ASSUME NEW s \in Slots
  PROVE  NewPosition(s) \in Position
  BY MarksType, StreaksAssumption DEF NewPosition, Position

LEMMA ValuationsType ==
  ASSUME NEW p \in Position, NEW q \in Valuations(p)
  PROVE  q \in Position /\ q.slot = p.slot
<1>1. ASSUME NEW r \in Quotes PROVE Valued(p, r) \in Position /\ Valued(p, r).slot = p.slot
  <2>1. Larger(p.peak, r.mark) \in Marks
    BY MarksType, LargerType DEF Position
  <2>2. 0 \in 0..StreakBreakSuppressed
    BY StreaksAssumption
  <2> QED BY <2>1, <2>2, MarksType DEF Valued, Position
<1>2. Missed(p) \in Position /\ Missed(p).slot = p.slot
  <2>1. Smaller(p.streak + 1, StreakBreakSuppressed) \in 0..StreakBreakSuppressed
    BY StreaksAssumption DEF Smaller, Position
  <2> QED BY <2>1 DEF Missed, Position
<1> QED BY <1>1, <1>2 DEF Valuations

LEMMA MovedType ==
  ASSUME NEW p \in Position, NEW slots \in SUBSET Slots, NEW q \in MovedTo(p, slots)
  PROVE  q \in Position /\ q.slot \in slots
<1>1. PICK s \in slots :
        q = IF s \in {"none", "blocked"} THEN NewPosition(s) ELSE [p EXCEPT !.slot = s]
  BY DEF MovedTo
<1>2. NewPosition(s) \in Position /\ NewPosition(s).slot = s
  BY <1>1, NewPositionType DEF NewPosition
<1>3. [p EXCEPT !.slot = s] \in Position /\ [p EXCEPT !.slot = s].slot = s
  BY <1>1 DEF Position
<1> QED BY <1>1, <1>2, <1>3

LEMMA VisitMovesType ==
  ASSUME NEW s \in Slots
  PROVE  VisitMoves(s) \subseteq Slots
  BY DEF VisitMoves, Slots

LEMMA OpenMoves ==
  /\ VisitMoves("open") \subseteq Slots
  /\ "unconfirmed" \notin VisitMoves("open")
  BY DEF VisitMoves, Slots

\* An exit leaves a position that is no unconfirmed entry.
LEMMA SoldType ==
  ASSUME NEW p \in Position, NEW q \in Sold(p)
  PROVE  q \in Position /\ q.slot # "unconfirmed"
<1>1. VisitMoves("open") \in SUBSET Slots
  BY OpenMoves
<1>2. q \in MovedTo(p, VisitMoves("open"))
  BY DEF Sold
<1>3. q \in Position /\ q.slot \in VisitMoves("open")
  BY <1>1, <1>2, MovedType
<1> QED BY <1>3, OpenMoves

LEMMA RememberType ==
  ASSUME NEW p \in Position
  PROVE  Remember(p) \in Position /\ Remember(p).slot = p.slot
  BY DEF Remember, Position

-----------------------------------------------------------------------------
(* The dangers of DangerSoldInFull *)

Safe(p, suppressed) ==
  /\ NoDanger(p, suppressed)
  /\ seller = "hachi" => ~Emergency(p)

Forgotten(q) == q.slot \in {"none", "blocked"}

\* What the dangers depend on.
SameMarks(p, q) ==
  /\ q.mark = p.mark /\ q.entry = p.entry /\ q.peak = p.peak /\ q.old = p.old
  /\ q.impact = p.impact /\ q.hops = p.hops /\ q.streak = p.streak

LEMMA SafeBySameMarks ==
  ASSUME NEW p \in Position, NEW q \in Position, SameMarks(p, q),
         NEW suppressed, Safe(p, suppressed)
  PROVE  Safe(q, suppressed)
  BY DEF SameMarks, Safe, NoDanger, HardBreak, SoftBreak, Stopped, Trailed, TimedOut,
         Emergency, Spared, PnlAtLeast, PnlAtMost

\* What a sale leaves of a position has the marks it had.
LEMMA SoldSameMarks ==
  ASSUME NEW p \in Position, NEW q \in Sold(p)
  PROVE  Forgotten(q) \/ SameMarks(p, q)
<1>1. PICK s \in VisitMoves("open") :
        q = IF s \in {"none", "blocked"} THEN NewPosition(s) ELSE [p EXCEPT !.slot = s]
  BY DEF Sold, MovedTo
<1>2. CASE s \in {"none", "blocked"}
  BY <1>1, <1>2 DEF NewPosition, Forgotten
<1>3. CASE s \notin {"none", "blocked"}
  BY <1>1, <1>3 DEF SameMarks, Position
<1> QED BY <1>2, <1>3

Holds == {"wait", "take_profit", "hachi_chunk"}

\* A decision and the position it leaves have their types, and the time stop has done its
\* work.
Typed(visit) ==
  /\ visit[1] \in Rules
  /\ visit[2] \in Position
  /\ visit[2].old => visit[2].slot # "unconfirmed"

\* They are in order: nothing is held in danger, and what is kept of p, the position as it
\* was judged, has its marks.
Fair(visit, p, suppressed) ==
  /\ Typed(visit)
  /\ visit[1] \in Holds =>
       Forgotten(visit[2]) \/ (SameMarks(p, visit[2]) /\ Safe(visit[2], suppressed))

LEMMA HachiFair ==
  ASSUME TypeOK, seller = "hachi",
         NEW p \in Position, p.slot = "open", NEW suppressed, NoDanger(p, suppressed),
         NEW visit \in Hachi(p)
  PROVE  Fair(visit, p, suppressed)
<1> DEFINE r == Remember(p)
<1>1. r \in Position /\ r.slot = "open" /\ SameMarks(p, r)
  BY RememberType DEF Remember, SameMarks, Position
<1> HIDE DEF r
<1>2. CASE Emergency(p) \/ (Deteriorated(p) /\ Collapsing(p))
  <2>1. PICK q \in Sold(r) :
          visit = <<IF Emergency(p) THEN "hachi_emergency" ELSE "hachi_collapse", q>>
    BY <1>2 DEF Hachi, r
  <2>2. visit[1] \in {"hachi_emergency", "hachi_collapse"} /\ visit[2] = q
    BY <2>1
  <2>3. q \in Position /\ q.slot # "unconfirmed"
    BY <1>1, SoldType
  <2> QED BY <2>2, <2>3 DEF Fair, Typed, Holds, Rules, FullExits
<1>3. CASE ~(Emergency(p) \/ (Deteriorated(p) /\ Collapsing(p)))
  <2>1. Safe(p, suppressed)
    BY <1>3 DEF Safe
  <2>2. Safe(r, suppressed)
    BY <1>1, <2>1, SafeBySameMarks
  <2>3. visit \in {<<"wait", r>>} \cup {<<"hachi_chunk", q>> : q \in Sold(r)}
    BY <1>3 DEF Hachi, Drip, r
  <2>4. CASE visit = <<"wait", r>>
    BY <1>1, <2>2, <2>4 DEF Fair, Typed, Rules
  <2>5. ASSUME NEW q \in Sold(r), visit = <<"hachi_chunk", q>>
        PROVE  Fair(visit, p, suppressed)
    <3>1. q \in Position /\ q.slot # "unconfirmed"
      BY <1>1, SoldType
    <3>2. Forgotten(q) \/ (SameMarks(p, q) /\ Safe(q, suppressed))
      <4>1. Forgotten(q) \/ SameMarks(r, q)
        BY <1>1, SoldSameMarks
      <4>2. SameMarks(r, q) => SameMarks(p, q)
        BY <1>1 DEF SameMarks
      <4> QED BY <1>1, <2>2, <3>1, <4>1, <4>2, SafeBySameMarks
    <3> QED BY <2>5, <3>1, <3>2 DEF Fair, Typed, Rules, PartExits
  <2> QED BY <2>3, <2>4, <2>5
<1> QED BY <1>2, <1>3

LEMMA LadderFair ==
  ASSUME TypeOK, seller # "hachi",
         NEW p \in Position, p.slot = "open", NEW suppressed, NoDanger(p, suppressed),
         NEW visit \in Ladder(p)
  PROVE  Fair(visit, p, suppressed)
<1> DEFINE due == {k \in DOMAIN TpTriggers \ p.done : PnlAtLeast(p, TpTriggers[k])}
<1>1. Safe(p, suppressed) /\ SameMarks(p, p)
  BY DEF Safe, SameMarks
<1>2. CASE due = {}
  <2>1. visit = <<"wait", p>>
    BY <1>2 DEF Ladder
  <2> QED BY <1>1, <2>1 DEF Fair, Typed, Rules
<1>3. CASE due # {}
  <2> DEFINE d(k) == [p EXCEPT !.done = @ \cup {k}]
  <2>1. PICK k \in due : visit \in {<<"take_profit", q>> : q \in Sold(d(k))}
    BY <1>3 DEF Ladder
  <2>2. d(k) \in Position /\ SameMarks(p, d(k))
    BY DEF Position, SameMarks
  <2>3. Safe(d(k), suppressed)
    BY <1>1, <2>2, SafeBySameMarks
  <2> HIDE DEF d
  <2>4. PICK q \in Sold(d(k)) : visit = <<"take_profit", q>>
    BY <2>1
  <2>5. q \in Position /\ q.slot # "unconfirmed"
    BY <2>2, SoldType
  <2>6. Forgotten(q) \/ (SameMarks(p, q) /\ Safe(q, suppressed))
    <3>1. Forgotten(q) \/ SameMarks(d(k), q)
      BY <2>2, SoldSameMarks
    <3>2. SameMarks(d(k), q) => SameMarks(p, q)
      BY <2>2 DEF SameMarks
    <3> QED BY <2>2, <2>3, <2>5, <3>1, <3>2, SafeBySameMarks
  <2> QED BY <2>4, <2>5, <2>6 DEF Fair, Typed, Rules, PartExits
<1> QED BY <1>2, <1>3

\* What the rules decide of an open position, once it is valued.
LEMMA DecisionsFair ==
  ASSUME TypeOK, NEW p \in Position, p.slot = "open",
         NEW suppressed \in BOOLEAN, NEW thin \in BOOLEAN,
         NEW visit \in Decisions(p, suppressed, thin)
  PROVE  Fair(visit, p, suppressed)
<1> DEFINE first == FirstRule(p, suppressed, thin)
<1>1. CASE first # "none"
  <2>1. PICK q \in Sold(p) : visit = <<first, q>>
    BY <1>1 DEF Decisions
  <2>2. first \in FullExits \cup {"jsds_soft"}
    BY <1>1, FirstRuleSells
  <2>3. q \in Position /\ q.slot # "unconfirmed"
    BY SoldType
  <2>4. visit[1] = first /\ visit[2] = q
    BY <2>1
  <2> HIDE DEF first
  <2> QED BY <2>2, <2>3, <2>4 DEF Fair, Typed, Holds, Rules, FullExits, PartExits
<1>2. CASE first = "none"
  <2>1. NoDanger(p, suppressed)
    BY <1>2, NoRuleNoDanger
  <2>2. CASE seller = "hachi"
    BY <1>2, <2>1, <2>2, HachiFair DEF Decisions
  <2>3. CASE seller # "hachi"
    BY <1>2, <2>1, <2>3, LadderFair DEF Decisions
  <2> QED BY <2>2, <2>3
<1> QED BY <1>1, <1>2

LEMMA RetriedFair ==
  ASSUME TypeOK, NEW p \in Position, p.slot # "unconfirmed", NEW visit \in Retried(p)
  PROVE  Typed(visit) /\ visit[1] \notin Holds
<1>1. PICK q \in MovedTo(p, VisitMoves(p.slot)) : visit = <<"skip", q>>
  BY DEF Retried
<1>2. p.slot \in Slots
  BY DEF Position
<1>3. VisitMoves(p.slot) \in SUBSET Slots /\ "unconfirmed" \notin VisitMoves(p.slot)
  BY <1>2 DEF VisitMoves, Slots
<1>4. q \in Position /\ q.slot # "unconfirmed"
  BY <1>3, MovedType
<1> QED BY <1>1, <1>4 DEF Typed, Holds, Rules

LEMMA UnconfirmedFair ==
  ASSUME TypeOK, NEW p \in Position, NEW visit \in Unconfirmed(p)
  PROVE  Typed(visit) /\ visit[1] \notin Holds
<1>1. ASSUME NEW e \in EntryMarks, visit = <<"skip", Confirmed(p, e)>>
      PROVE  Typed(visit) /\ visit[1] \notin Holds
  <2>1. Larger(p.peak, e) \in Marks /\ e \in Marks
    BY MarksType, LargerType DEF Position
  <2>2. Confirmed(p, e) \in Position /\ Confirmed(p, e).slot = "open"
    BY <2>1 DEF Confirmed, Position, Slots
  <2> QED BY <1>1, <2>2 DEF Typed, Holds, Rules
<1>2. ASSUME p.old, NEW q \in Sold(p), visit = <<"time_stop_unconfirmed", q>>
      PROVE  Typed(visit) /\ visit[1] \notin Holds
  BY <1>2, SoldType DEF Typed, Holds, Rules, FullExits
<1>3. ASSUME ~p.old, visit = <<"skip", p>>
      PROVE  Typed(visit) /\ visit[1] \notin Holds
  BY <1>3 DEF Typed, Holds, Rules
<1> QED BY <1>1, <1>2, <1>3 DEF Unconfirmed

\* Whether the liquidity rules are suppressed depends on the slots and the streaks only, so
\* it can be read off the book that the visit leaves.
LEMMA SuppressedAfter ==
  ASSUME TypeOK, NEW i \in 1..N, NEW p \in Position, p.slot = "open",
         NEW q \in Position, q.streak = p.streak
  PROVE  Suppressed([[book EXCEPT ![i] = q] EXCEPT ![i].slot = "open"])
           = Suppressed([book EXCEPT ![i] = p])
<1> DEFINE b == [book EXCEPT ![i] = p]
           c == [[book EXCEPT ![i] = q] EXCEPT ![i].slot = "open"]
           active(x) == {j \in 1..N : x[j].slot = "open"}
           missing(x) == {j \in active(x) : x[j].streak >= 1}
<1>1. \A j \in 1..N : c[j].slot = b[j].slot /\ c[j].streak = b[j].streak
  BY DEF TypeOK, Position
<1> HIDE DEF b, c
<1>2. active(c) = active(b)
  BY <1>1
<1>3. missing(c) = missing(b)
  BY <1>1
<1>4. Suppressed(b) = ( /\ Cardinality(active(b)) >= 2
                        /\ 10 * Cardinality(missing(b)) > 6 * Cardinality(active(b)) )
  BY DEF Suppressed
<1>5. Suppressed(c) = ( /\ Cardinality(active(c)) >= 2
                        /\ 10 * Cardinality(missing(c)) > 6 * Cardinality(active(c)) )
  BY DEF Suppressed
<1> HIDE DEF active, missing
<1>6. Suppressed(c) = Suppressed(b)
  BY <1>2, <1>3, <1>4, <1>5
<1> QED BY <1>6 DEF b, c

\* Whatever a visit decides is in order, under the suppression that the book it leaves
\* shows.
LEMMA VisitsFair ==
  ASSUME TypeOK, NEW i \in 1..N, NEW thin \in BOOLEAN, NEW visit \in Visits(i, thin)
  PROVE  /\ Typed(visit)
         /\ visit[1] \in Holds =>
              \/ Forgotten(visit[2])
              \/ Safe(visit[2], Suppressed([[book EXCEPT ![i] = visit[2]]
                                              EXCEPT ![i].slot = "open"]))
<1>1. book[i] \in Position
  BY DEF TypeOK
<1>2. CASE book[i].slot \in {"none", "blocked", "threshold"}
  BY <1>1, <1>2, RetriedFair DEF Visits
<1>3. CASE book[i].slot \notin {"none", "blocked", "threshold"}
  <2>1. PICK p \in Valuations(book[i]) :
          visit \in CASE p.slot = "open" ->
                           Decisions(p, Suppressed([book EXCEPT ![i] = p]), thin)
                      [] p.slot = "exiting" -> Retried(p)
                      [] p.slot = "unconfirmed" -> Unconfirmed(p)
    BY <1>3 DEF Visits
  <2>2. p \in Position /\ p.slot = book[i].slot
    BY <1>1, ValuationsType
  <2>3. p.slot \in {"open", "exiting", "unconfirmed"}
    BY <1>3, <2>2 DEF Position, Slots
  <2>4. CASE p.slot = "open"
    <3> DEFINE suppressed == Suppressed([book EXCEPT ![i] = p])
    <3>1. visit \in Decisions(p, suppressed, thin)
      BY <2>1, <2>4
    <3>2. suppressed \in BOOLEAN
      BY DEF Suppressed
    <3>3. Fair(visit, p, suppressed)
      BY <2>2, <2>4, <3>1, <3>2, DecisionsFair
    <3>4. SameMarks(p, visit[2]) =>
            Suppressed([[book EXCEPT ![i] = visit[2]] EXCEPT ![i].slot = "open"]) = suppressed
      BY <2>2, <2>4, <3>3, SuppressedAfter DEF Fair, Typed, SameMarks
    <3> QED BY <3>3, <3>4 DEF Fair
  <2>5. CASE p.slot = "exiting"
    BY <2>1, <2>2, <2>5, RetriedFair
  <2>6. CASE p.slot = "unconfirmed"
    BY <2>1, <2>2, <2>6, UnconfirmedFair
  <2> QED BY <2>3, <2>4, <2>5, <2>6
<1> QED BY <1>2, <1>3

-----------------------------------------------------------------------------
(* The theorems *)

\* DangerSoldInFull in the terms of this module.
Held ==
  cursor > 0 /\ rule \in Holds /\ ~Forgotten(book[cursor])
  => Safe(book[cursor], Suppressed([book EXCEPT ![cursor].slot = "open"]))

IInv == TypeOK /\ DangerSoldInFull /\ UnconfirmedTimesOut

LEMMA RulesInit == Init => IInv
<1> SUFFICES ASSUME Init PROVE IInv
  OBVIOUS
<1>1. NewPosition("none") \in Position
  BY NewPositionType DEF Slots
<1>2. TypeOK
  BY <1>1, SizeAssumption DEF Init, TypeOK, Rules
<1> QED BY <1>2 DEF Init, IInv, DangerSoldInFull, UnconfirmedTimesOut

LEMMA VisitStep ==
  ASSUME IInv, NEW i \in 1..N, Visit(i)
  PROVE  IInv'
<1> USE DEF IInv, TypeOK
<1>1. PICK thin \in BOOLEAN, visit \in UNION {Visits(i, t) : t \in BOOLEAN} :
        /\ visit \in Visits(i, thin)
        /\ rule' = visit[1]
        /\ book' = [book EXCEPT ![i] = visit[2]]
  BY DEF Visit
<1>2. /\ Typed(visit)
      /\ visit[1] \in Holds =>
           \/ Forgotten(visit[2])
           \/ Safe(visit[2], Suppressed([book' EXCEPT ![i].slot = "open"]))
  BY <1>1, VisitsFair
<1>3. cursor' = i /\ book'[i] = visit[2] /\ seller' = seller /\ entered' = entered
  BY <1>1 DEF Visit
<1>4. TypeOK'
  BY <1>1, <1>2, <1>3 DEF Typed, Visit
<1>5. DangerSoldInFull'
  <2>1. DangerSoldInFull' = Held'
    BY DEF DangerSoldInFull, Held, Holds, Forgotten, Safe, NoDanger
  <2>2. /\ book'[cursor'] = visit[2] /\ rule' = visit[1] /\ cursor' = i
        /\ [book' EXCEPT ![cursor'].slot = "open"] = [book' EXCEPT ![i].slot = "open"]
    BY <1>1, <1>3
  <2>3. Held'
    BY <1>2, <1>3, <2>2 DEF Held, Forgotten, Safe
  <2> QED BY <2>1, <2>3
<1>6. UnconfirmedTimesOut'
  BY <1>2, <1>3 DEF UnconfirmedTimesOut, Typed
<1> QED BY <1>4, <1>5, <1>6

LEMMA RulesStep ==
  ASSUME IInv, [Next]_vars
  PROVE  IInv'
<1>1. ASSUME NEW i \in 1..N, Visit(i)
      PROVE  IInv'
  BY <1>1, VisitStep
<1>2. ASSUME NEW i \in 1..N, Enter(i)
      PROVE  IInv'
  <2>1. PICK slot \in {"open", "unconfirmed"} : book' = [book EXCEPT ![i] = NewPosition(slot)]
    BY <1>2 DEF Enter
  <2>2. NewPosition(slot) \in Position
    BY NewPositionType DEF Slots
  <2> QED BY <1>2, <2>1, <2>2, SizeAssumption
        DEF IInv, TypeOK, Enter, DangerSoldInFull, UnconfirmedTimesOut
<1>3. ASSUME NEW i \in 1..N, Age(i)
      PROVE  IInv'
  <2>1. [book[i] EXCEPT !.old = TRUE] \in Position
    <3>1. book[i] \in Position
      BY DEF IInv, TypeOK
    <3> QED BY <3>1 DEF Position
  <2> QED BY <1>3, <2>1 DEF IInv, TypeOK, Age, DangerSoldInFull, UnconfirmedTimesOut
<1>4. CASE EndCycle
  BY <1>4 DEF IInv, TypeOK, EndCycle, DangerSoldInFull, UnconfirmedTimesOut, Rules
<1>5. CASE UNCHANGED vars
  BY <1>5 DEF vars, IInv, TypeOK, DangerSoldInFull, UnconfirmedTimesOut,
      Stopped, Trailed, TimedOut, Emergency
<1> QED BY <1>1, <1>2, <1>3, <1>4, <1>5 DEF Next

LEMMA RulesInvariant == Spec => []IInv
<1> QED BY RulesInit, RulesStep, PTL DEF Spec

\* Marks, streaks and slots keep their types: every quote and every move of a position
\* leaves a record the code could hold.
THEOREM RulesTyped == Spec => []TypeOK
<1>1. IInv => TypeOK
  BY DEF IInv
<1> QED BY <1>1, RulesInvariant, PTL

\* A position held, or sold only in part for a profit or a fair price, is past no stop
\* and no time limit, whatever the other positions of the book look like.
THEOREM NoRulePassedOver == Spec => []DangerSoldInFull
<1>1. IInv => DangerSoldInFull
  BY DEF IInv
<1> QED BY <1>1, RulesInvariant, PTL

\* An entry that is never confirmed is sold when its time is up.
THEOREM UnconfirmedSold == Spec => []UnconfirmedTimesOut
<1>1. IInv => UnconfirmedTimesOut
  BY DEF IInv
<1> QED BY <1>1, RulesInvariant, PTL

-----------------------------------------------------------------------------
(* The other direction: nothing is sold without a reason.                   *)

\* The thresholds as the code has them: the stop lies below the entry price, and so does the
\* floor of Hachi's neutral zone.  Its other thresholds may be anything.
LossesOnly == StopLoss > 0 /\ NeutralFloor <= 0

\* A position with no cause for alarm: at or above its entry price, not far below its peak,
\* young or well in profit, quoted recently enough, over a route no worse than it was.
Healthy(p, suppressed) ==
  /\ PnlAtLeast(p, 0)
  /\ 100 * p.mark > p.peak * (100 - Trail)
  /\ ~p.old \/ PnlAtLeast(p, KeepPct)
  /\ p.streak < (IF suppressed THEN StreakBreakSuppressed ELSE StreakBreak)
  /\ suppressed \/ p.impact < 4 \/ p.hops < 1

LEMMA LadderSteps ==
  ASSUME NEW p, NEW visit \in Ladder(p)
  PROVE  visit[1] \in {"wait", "take_profit"}
<1> DEFINE due == {k \in DOMAIN TpTriggers \ p.done : PnlAtLeast(p, TpTriggers[k])}
<1>1. CASE due = {}
  <2>1. visit = <<"wait", p>>
    BY <1>1 DEF Ladder
  <2> QED BY <2>1
<1>2. CASE due # {}
  <2> DEFINE d(k) == [p EXCEPT !.done = @ \cup {k}]
  <2>1. PICK k \in due : visit \in {<<"take_profit", q>> : q \in Sold(d(k))}
    BY <1>2 DEF Ladder
  <2> QED BY <2>1
<1> QED BY <1>1, <1>2

LEMMA HealthyNoRule ==
  ASSUME LossesOnly, NEW p \in Position, NEW suppressed \in BOOLEAN, Healthy(p, suppressed)
  PROVE  FirstRule(p, suppressed, FALSE) = "none"
<1>1. /\ p.mark \in Nat \ {0} /\ p.entry \in Nat \ {0} /\ p.peak \in Nat
      /\ p.impact \in Int /\ p.hops \in Int /\ p.streak \in Nat
  <2>1. \A q \in Quotes : q.impact \in Int /\ q.hops \in Int
    BY QuotesAssumption
  <2>2. /\ {q.impact : q \in Quotes} \subseteq Int /\ {q.hops : q \in Quotes} \subseteq Int
    BY <2>1
  <2>3. /\ p.mark \in Marks /\ p.peak \in Marks /\ p.entry \in EntryMarks \cup {100}
        /\ p.impact \in {q.impact : q \in Quotes} \cup {1}
        /\ p.hops \in {q.hops : q \in Quotes} \cup {0}
        /\ p.streak \in 0..StreakBreakSuppressed
    BY DEF Position
  <2>4. p.impact \in Int /\ p.hops \in Int
    BY <2>2, <2>3
  <2>5. p.mark \in Nat \ {0} /\ p.entry \in Nat \ {0} /\ p.peak \in Nat
    BY <2>3, MarksType
  <2> QED BY <2>3, <2>4, <2>5, StreaksAssumption
<1>2. ~Stopped(p)
  <2>1. 100 * p.mark >= p.entry * 100
    BY <1>1 DEF Healthy, PnlAtLeast
  <2>2. p.entry * (100 - StopLoss) < p.entry * 100
    BY <1>1, ThresholdsAssumption DEF LossesOnly
  <2> QED BY <1>1, <2>1, <2>2, ThresholdsAssumption DEF Stopped, PnlAtMost
<1>3. ~Trailed(p) /\ ~TimedOut(p)
  BY <1>1, ThresholdsAssumption DEF Healthy, Trailed, TimedOut
<1>4. ~HardBreak(p, suppressed) /\ ~SoftBreak(p, suppressed)
  BY <1>1, StreaksAssumption DEF Healthy, HardBreak, SoftBreak
<1>5. \A k \in 1..6 : ~Fires(p, suppressed, FALSE)[Order[k]]
  BY <1>2, <1>3, <1>4 DEF Fires, Order
<1> QED BY <1>5, FirstRuleCase

\* A position without cause for alarm is held, or sold in part at a profit or at a fair
\* price: no combination of the rules sells it in full as long as its pool keeps its depth,
\* also while the quotes of the other positions fail.
THEOREM HealthyIsHeld ==
  ASSUME LossesOnly, NEW p \in Position, NEW suppressed \in BOOLEAN, Healthy(p, suppressed),
         NEW visit \in Decisions(p, suppressed, FALSE)
  PROVE  visit[1] \in {"wait", "take_profit", "hachi_chunk"}
<1>1. visit \in (IF seller = "hachi" THEN Hachi(p) ELSE Ladder(p))
  BY HealthyNoRule DEF Decisions
<1>2. CASE seller = "hachi"
  <2>1. p.mark \in Nat \ {0} /\ p.entry \in Nat \ {0}
    BY MarksType DEF Position
  <2>2. 100 * p.mark >= p.entry * 100
    BY <2>1 DEF Healthy, PnlAtLeast
  <2>3. p.entry * (100 + NeutralFloor) <= p.entry * 100
    BY <2>1, ThresholdsAssumption DEF LossesOnly
  <2>4. ~Emergency(p) /\ ~Deteriorated(p)
    BY <2>1, <2>2, <2>3, ThresholdsAssumption DEF Emergency, Deteriorated, Spared, PnlAtLeast
  <2> QED BY <1>1, <1>2, <2>4 DEF Hachi, Drip
<1>3. CASE seller # "hachi"
  BY <1>1, <1>3, LadderSteps
<1> QED BY <1>2, <1>3

-----------------------------------------------------------------------------
(* The take-profit ladder                                                   *)

\* What a visit decided by r does to the steps done of a position it keeps.
Spent(before, r, after) ==
  \/ Forgotten(after)
  \/ r # "take_profit" /\ after.done = before.done
  \/ r = "take_profit" /\ \E k \in DOMAIN TpTriggers \ before.done :
                               after.done = before.done \cup {k}

\* Every take-profit decision strikes off one step of the ladder that was not struck off,
\* and nothing else touches them, whatever entry price a late settlement books: the steps
\* done are what PositionExit counts in tpDone.  This is about a process that does not
\* crash, and about decisions: what a crash gives back is in ExitPlanProofs
\* (TakeProfitsBounded), what the exits then sell is PositionExit's matter.
StepsStruckOnce ==
  [][ \A i \in 1..N : ~Forgotten(book[i]) =>
        Spent(book[i], IF cursor' = i /\ cursor # i THEN rule' ELSE "skip", book'[i]) ]_vars

LEMMA MovedDone ==
  ASSUME NEW p \in Position, NEW slots, NEW q \in MovedTo(p, slots)
  PROVE  Forgotten(q) \/ q.done = p.done
<1>1. PICK s \in slots :
        q = IF s \in {"none", "blocked"} THEN NewPosition(s) ELSE [p EXCEPT !.slot = s]
  BY DEF MovedTo
<1>2. CASE s \in {"none", "blocked"}
  BY <1>1, <1>2 DEF NewPosition, Forgotten
<1>3. CASE s \notin {"none", "blocked"}
  BY <1>1, <1>3 DEF Position
<1> QED BY <1>2, <1>3

LEMMA LadderSpends ==
  ASSUME NEW p \in Position, NEW visit \in Ladder(p)
  PROVE  Spent(p, visit[1], visit[2])
<1> DEFINE due == {k \in DOMAIN TpTriggers \ p.done : PnlAtLeast(p, TpTriggers[k])}
<1>1. CASE due = {}
  <2>1. visit = <<"wait", p>>
    BY <1>1 DEF Ladder
  <2> QED BY <2>1 DEF Spent
<1>2. CASE due # {}
  <2> DEFINE d(k) == [p EXCEPT !.done = @ \cup {k}]
  <2>1. PICK k \in due : visit \in {<<"take_profit", q>> : q \in Sold(d(k))}
    BY <1>2 DEF Ladder
  <2>2. d(k) \in Position /\ d(k).done = p.done \cup {k}
    BY DEF Position
  <2> HIDE DEF d
  <2>3. PICK q \in Sold(d(k)) : visit = <<"take_profit", q>>
    BY <2>1
  <2>4. Forgotten(q) \/ q.done = p.done \cup {k}
    BY <2>2, <2>3, MovedDone DEF Sold
  <2> QED BY <2>3, <2>4 DEF Spent
<1> QED BY <1>1, <1>2

LEMMA HachiSpends ==
  ASSUME NEW p \in Position, NEW visit \in Hachi(p)
  PROVE  Spent(p, visit[1], visit[2])
<1> DEFINE r == Remember(p)
<1>1. r \in Position /\ r.done = p.done
  BY RememberType DEF Remember, Position
<1>2. /\ visit[1] # "take_profit"
      /\ visit[2] = r \/ visit[2] \in Sold(r)
  BY DEF Hachi, Drip
<1>3. visit[2] \in Sold(r) => Forgotten(visit[2]) \/ visit[2].done = p.done
  <2> HIDE DEF r
  <2> QED BY <1>1, MovedDone DEF Sold
<1> QED BY <1>1, <1>2, <1>3 DEF Spent

LEMMA VisitSpends ==
  ASSUME TypeOK, NEW i \in 1..N, NEW thin \in BOOLEAN, NEW visit \in Visits(i, thin)
  PROVE  Spent(book[i], visit[1], visit[2])
<1>1. book[i] \in Position
  BY DEF TypeOK
<1>2. ASSUME NEW p \in Position, NEW v \in Retried(p)
      PROVE  Spent(p, v[1], v[2])
  <2>1. PICK q \in MovedTo(p, VisitMoves(p.slot)) : v = <<"skip", q>>
    BY <1>2 DEF Retried
  <2> QED BY <2>1, MovedDone DEF Spent
<1>3. CASE book[i].slot \in {"none", "blocked", "threshold"}
  BY <1>1, <1>2, <1>3 DEF Visits
<1>4. CASE book[i].slot \notin {"none", "blocked", "threshold"}
  <2>1. PICK p \in Valuations(book[i]) :
          visit \in CASE p.slot = "open" ->
                           Decisions(p, Suppressed([book EXCEPT ![i] = p]), thin)
                      [] p.slot = "exiting" -> Retried(p)
                      [] p.slot = "unconfirmed" -> Unconfirmed(p)
    BY <1>4 DEF Visits
  <2>2. p \in Position /\ p.slot = book[i].slot
    BY <1>1, ValuationsType
  <2>3. p.done = book[i].done
    BY <1>1 DEF Valuations, Valued, Missed, Position
  <2>4. Spent(p, visit[1], visit[2])
    <3>1. p.slot \in {"open", "exiting", "unconfirmed"}
      BY <1>4, <2>2 DEF Position, Slots
    <3>2. CASE p.slot = "open"
      <4> DEFINE first == FirstRule(p, Suppressed([book EXCEPT ![i] = p]), thin)
      <4>1. visit \in IF first # "none" THEN {<<first, q>> : q \in Sold(p)}
                      ELSE IF seller = "hachi" THEN Hachi(p) ELSE Ladder(p)
        BY <2>1, <3>2 DEF Decisions
      <4>2. first # "none" => first # "take_profit"
        BY FirstRuleSells DEF FullExits
      <4> HIDE DEF first
      <4>3. CASE first # "none"
        <5>1. PICK q \in Sold(p) : visit = <<first, q>>
          BY <4>1, <4>3
        <5>2. Forgotten(q) \/ q.done = p.done
          BY <2>2, <5>1, MovedDone DEF Sold
        <5> QED BY <4>2, <4>3, <5>1, <5>2 DEF Spent
      <4> QED BY <2>2, <4>1, <4>3, HachiSpends, LadderSpends
    <3>3. CASE p.slot = "exiting"
      BY <1>2, <2>1, <2>2, <3>3
    <3>4. CASE p.slot = "unconfirmed"
      <4>1. visit \in Unconfirmed(p)
        BY <2>1, <3>4
      <4>2. ASSUME NEW e \in EntryMarks, visit = <<"skip", Confirmed(p, e)>>
            PROVE  Spent(p, visit[1], visit[2])
        BY <2>2, <4>2 DEF Confirmed, Position, Spent
      <4>3. ASSUME NEW q \in Sold(p), visit = <<"time_stop_unconfirmed", q>>
            PROVE  Spent(p, visit[1], visit[2])
        BY <2>2, <4>3, MovedDone DEF Sold, Spent
      <4>4. ASSUME visit = <<"skip", p>>
            PROVE  Spent(p, visit[1], visit[2])
        BY <4>4 DEF Spent
      <4> QED BY <4>1, <4>2, <4>3, <4>4 DEF Unconfirmed
    <3> QED BY <3>1, <3>2, <3>3, <3>4
  <2> QED BY <2>3, <2>4 DEF Spent
<1> QED BY <1>3, <1>4

\* Places of the book that were never taken are empty.
UnopenedInv == IInv /\ \A i \in 1..N : i > entered => book[i].slot = "none"

LEMMA UnopenedAlways == Spec => []UnopenedInv
<1>1. Init => UnopenedInv
  BY RulesInit DEF Init, UnopenedInv, NewPosition
<1>2. UnopenedInv /\ [Next]_vars => UnopenedInv'
  <2> SUFFICES ASSUME UnopenedInv, [Next]_vars, NEW i \in 1..N, i > entered'
               PROVE  book'[i].slot = "none"
    BY RulesStep DEF UnopenedInv
  <2>1. TypeOK /\ entered \in Int /\ (i > entered => book[i].slot = "none")
    BY SizeAssumption DEF UnopenedInv, IInv, TypeOK
  <2>2. ASSUME NEW j \in 1..N, Visit(j)
        PROVE  book'[i].slot = "none"
    BY <2>1, <2>2 DEF Visit, TypeOK
  <2>3. ASSUME NEW j \in 1..N, Enter(j)
        PROVE  book'[i].slot = "none"
    BY <2>1, <2>3 DEF Enter, TypeOK
  <2>4. ASSUME NEW j \in 1..N, Age(j)
        PROVE  book'[i].slot = "none"
    BY <2>1, <2>4 DEF Age, TypeOK, Position
  <2>5. CASE EndCycle \/ UNCHANGED vars
    BY <2>1, <2>5 DEF EndCycle, vars
  <2> QED BY <2>2, <2>3, <2>4, <2>5 DEF Next
<1> QED BY <1>1, <1>2, PTL DEF Spec

\* No step of the ladder is decided twice by a process that does not crash.
THEOREM LadderStrikesOnce == Spec => StepsStruckOnce
<1> DEFINE Step == \A i \in 1..N : ~Forgotten(book[i]) =>
             Spent(book[i], IF cursor' = i /\ cursor # i THEN rule' ELSE "skip", book'[i])
<1>1. UnopenedInv /\ [Next]_vars => [Step]_vars
  <2> SUFFICES ASSUME UnopenedInv, TypeOK, Next, NEW i \in 1..N, ~Forgotten(book[i])
               PROVE  Spent(book[i], IF cursor' = i /\ cursor # i THEN rule' ELSE "skip", book'[i])
    BY DEF UnopenedInv, IInv
  <2>1. ASSUME NEW j \in 1..N, Visit(j)
        PROVE  Spent(book[i], IF cursor' = i /\ cursor # i THEN rule' ELSE "skip", book'[i])
    <3>1. PICK thin \in BOOLEAN, visit \in UNION {Visits(j, t) : t \in BOOLEAN} :
            /\ visit \in Visits(j, thin)
            /\ rule' = visit[1]
            /\ book' = [book EXCEPT ![j] = visit[2]]
      BY <2>1 DEF Visit
    <3>2. cursor' = j /\ cursor # j
      BY <2>1 DEF Visit, TypeOK
    <3>3. CASE i = j
      BY <3>1, <3>2, <3>3, VisitSpends DEF TypeOK
    <3>4. CASE i # j
      BY <3>1, <3>2, <3>4 DEF TypeOK, Spent
    <3> QED BY <3>3, <3>4
  <2>2. ASSUME NEW j \in 1..N, Enter(j)
        PROVE  cursor' = cursor /\ (Forgotten(book'[i]) \/ book'[i].done = book[i].done)
    BY <2>2, SizeAssumption DEF Enter, UnopenedInv, TypeOK, Forgotten
  <2>3. ASSUME NEW j \in 1..N, Age(j)
        PROVE  cursor' = cursor /\ book'[i].done = book[i].done
    <3>1. book[j] \in Position
      BY DEF TypeOK
    <3> QED BY <2>3, <3>1 DEF Age, TypeOK, Position
  <2>4. CASE EndCycle
    <3>1. cursor' # i /\ book'[i].done = book[i].done
      BY <2>4 DEF EndCycle
    <3> QED BY <3>1 DEF Spent
  <2> QED BY <2>1, <2>2, <2>3, <2>4 DEF Next, Spent
<1> QED BY <1>1, UnopenedAlways, PTL DEF Spec, StepsStruckOnce

-----------------------------------------------------------------------------
(***************************************************************************)
(* ExitRules and PositionExit speak of the same visits: what the rules     *)
(* decide is what PositionExit calls the signal, a rule moves a position   *)
(* only where the exit it asks for may lead, and it leaves none of these   *)
(* ends out.                                                               *)
(***************************************************************************)

\* The signal of PositionExit for which a rule stands.
Asks(r) ==
  CASE r \in FullExits -> "hard"
    [] r = "jsds_soft" -> "soft"
    [] r \in {"take_profit", "hachi_chunk"} -> "harvest"
    [] r \in {"wait", "skip"} -> "none"

KeepsToSlots ==
  [][ \A i \in 1..N : Visit(i) =>
        book'[i].slot \in SignalMoves(book[i].slot, Asks(rule')) ]_vars

\* An unconfirmed entry is left out: its confirmation does not depend on the rules.
EveryEndOpen ==
  \A i \in 1..N, thin \in BOOLEAN : book[i].slot # "unconfirmed" =>
    \A visit \in Visits(i, thin) :
      \A s \in SignalMoves(book[i].slot, Asks(visit[1])) :
        \E v \in Visits(i, thin) : v[1] = visit[1] /\ v[2].slot = s

\* A position can be moved to every slot asked for, and to no other.
LEMMA MovedEvery ==
  ASSUME NEW p \in Position, NEW slots \in SUBSET Slots, NEW s \in slots
  PROVE  \E q \in MovedTo(p, slots) : q.slot = s
<1> DEFINE q == IF s \in {"none", "blocked"} THEN NewPosition(s) ELSE [p EXCEPT !.slot = s]
<1>1. q \in MovedTo(p, slots)
  BY DEF MovedTo
<1>2. q.slot = s
  BY DEF NewPosition, Position
<1> QED BY <1>1, <1>2

LEMMA SoldEvery ==
  ASSUME NEW p \in Position
  PROVE  /\ \A q \in Sold(p) : q.slot \in VisitMoves("open")
         /\ \A s \in VisitMoves("open") : \E q \in Sold(p) : q.slot = s
  BY OpenMoves, MovedType, MovedEvery DEF Sold

LEMMA AsksToSell ==
  /\ \A r \in FullExits \cup PartExits : Asks(r) \in {"hard", "soft", "harvest"}
  /\ \A r \in FullExits : Asks(r) = "hard"
  /\ Asks("wait") = "none" /\ Asks("skip") = "none"
  BY DEF Asks, FullExits, PartExits

\* A rule that decides on an open position either waits, or sells with every end open.
Sells(visit, decided) ==
  /\ visit[1] \in FullExits \cup PartExits
  /\ visit[2].slot \in VisitMoves("open")
  /\ \A s \in VisitMoves("open") : \E v \in decided : v[1] = visit[1] /\ v[2].slot = s

LEMMA SoldSells ==
  ASSUME NEW p \in Position, NEW r \in FullExits \cup PartExits,
         NEW q \in Sold(p), NEW decided, \A x \in Sold(p) : <<r, x>> \in decided
  PROVE  Sells(<<r, q>>, decided)
<1>1. q.slot \in VisitMoves("open")
  BY SoldEvery
<1>2. ASSUME NEW s \in VisitMoves("open")
      PROVE  \E v \in decided : v[1] = r /\ v[2].slot = s
  <2>1. PICK x \in Sold(p) : x.slot = s
    BY SoldEvery
  <2>2. <<r, x>>[1] = r /\ <<r, x>>[2].slot = s
    BY <2>1
  <2> QED BY <2>2
<1> QED BY <1>1, <1>2 DEF Sells

LEMMA HachiSells ==
  ASSUME NEW p \in Position, p.slot = "open", NEW visit \in Hachi(p)
  PROVE  (visit[1] = "wait" /\ visit[2].slot = "open") \/ Sells(visit, Hachi(p))
<1> DEFINE r == Remember(p)
           full == IF Emergency(p) THEN "hachi_emergency" ELSE "hachi_collapse"
<1>1. r \in Position /\ r.slot = "open"
  BY RememberType
<1>2. full \in FullExits /\ "hachi_chunk" \in PartExits
  BY DEF FullExits, PartExits
<1>3. CASE Emergency(p) \/ (Deteriorated(p) /\ Collapsing(p))
  <2>1. Hachi(p) = {<<full, q>> : q \in Sold(r)}
    BY <1>3 DEF Hachi
  <2> HIDE DEF full, r
  <2>2. PICK q \in Sold(r) : visit = <<full, q>>
    BY <2>1
  <2>3. Sells(<<full, q>>, Hachi(p))
    BY <1>1, <1>2, <2>1, SoldSells
  <2> QED BY <2>2, <2>3
<1>4. CASE ~(Emergency(p) \/ (Deteriorated(p) /\ Collapsing(p)))
  <2>1. Hachi(p) = {<<"wait", r>>} \cup {<<"hachi_chunk", q>> : q \in Sold(r)}
    BY <1>4 DEF Hachi, Drip
  <2> HIDE DEF r
  <2>2. CASE visit = <<"wait", r>>
    BY <1>1, <2>2
  <2>3. ASSUME NEW q \in Sold(r), visit = <<"hachi_chunk", q>>
        PROVE  Sells(visit, Hachi(p))
    <3>1. Sells(<<"hachi_chunk", q>>, Hachi(p))
      BY <1>1, <1>2, <2>1, SoldSells
    <3> QED BY <2>3, <3>1
  <2> QED BY <2>1, <2>2, <2>3
<1> QED BY <1>3, <1>4

LEMMA LadderSells ==
  ASSUME NEW p \in Position, p.slot = "open", NEW visit \in Ladder(p)
  PROVE  (visit[1] = "wait" /\ visit[2].slot = "open") \/ Sells(visit, Ladder(p))
<1> DEFINE due == {k \in DOMAIN TpTriggers \ p.done : PnlAtLeast(p, TpTriggers[k])}
           first == {k \in due : \A j \in due : k <= j}
           d(k) == [p EXCEPT !.done = @ \cup {k}]
<1>1. CASE due = {}
  BY <1>1 DEF Ladder
<1>2. CASE due # {}
  <2>1. Ladder(p) = UNION {{<<"take_profit", q>> : q \in Sold(d(k))} : k \in first}
    BY <1>2 DEF Ladder
  <2>2. PICK k \in first : visit \in {<<"take_profit", q>> : q \in Sold(d(k))}
    BY <2>1
  <2>3. d(k) \in Position
    BY DEF Position
  <2>4. {<<"take_profit", q>> : q \in Sold(d(k))} \subseteq Ladder(p)
    BY <2>1
  <2> HIDE DEF d, first
  <2>5. PICK q \in Sold(d(k)) : visit = <<"take_profit", q>>
    BY <2>2
  <2>6. \A x \in Sold(d(k)) : <<"take_profit", x>> \in Ladder(p)
    BY <2>4
  <2>7. Sells(<<"take_profit", q>>, Ladder(p))
    BY <2>3, <2>6, SoldSells DEF PartExits
  <2> QED BY <2>5, <2>7
<1> QED BY <1>1, <1>2

LEMMA DecisionsSell ==
  ASSUME NEW p \in Position, p.slot = "open", NEW suppressed, NEW thin,
         NEW visit \in Decisions(p, suppressed, thin)
  PROVE  \/ visit[1] = "wait" /\ visit[2].slot = "open"
         \/ Sells(visit, Decisions(p, suppressed, thin))
<1> DEFINE first == FirstRule(p, suppressed, thin)
<1>1. Decisions(p, suppressed, thin) =
        IF first # "none" THEN {<<first, q>> : q \in Sold(p)}
        ELSE IF seller = "hachi" THEN Hachi(p) ELSE Ladder(p)
  BY DEF Decisions
<1>2. first # "none" => first \in FullExits \cup PartExits
  BY FirstRuleSells DEF PartExits
<1> HIDE DEF first
<1>3. CASE first # "none"
  <2>1. PICK q \in Sold(p) : visit = <<first, q>>
    BY <1>1, <1>3
  <2>2. Sells(<<first, q>>, Decisions(p, suppressed, thin))
    BY <1>1, <1>2, <1>3, SoldSells
  <2> QED BY <2>1, <2>2
<1>4. CASE first = "none" /\ seller = "hachi"
  BY <1>1, <1>4, HachiSells
<1>5. CASE first = "none" /\ seller # "hachi"
  BY <1>1, <1>5, LadderSells
<1> QED BY <1>3, <1>4, <1>5

\* A position that is in no rule's hands ends its visit wherever its slot allows.
LEMMA RetriedEvery ==
  ASSUME NEW p \in Position, p.slot \notin {"open", "unconfirmed"}
  PROVE  /\ \A visit \in Retried(p) :
              visit[1] = "skip" /\ visit[2].slot \in SignalMoves(p.slot, Asks(visit[1]))
         /\ \A s \in SignalMoves(p.slot, Asks("skip")) :
              \E v \in Retried(p) : v[1] = "skip" /\ v[2].slot = s
<1>1. p.slot \in Slots /\ VisitMoves(p.slot) \in SUBSET Slots
  BY VisitMovesType DEF Position
<1>2. SignalMoves(p.slot, Asks("skip")) = VisitMoves(p.slot)
  BY DEF SignalMoves
<1>3. ASSUME NEW visit \in Retried(p)
      PROVE  visit[1] = "skip" /\ visit[2].slot \in SignalMoves(p.slot, Asks(visit[1]))
  <2>1. PICK q \in MovedTo(p, VisitMoves(p.slot)) : visit = <<"skip", q>>
    BY DEF Retried
  <2> QED BY <1>1, <1>2, <2>1, MovedType
<1>4. ASSUME NEW s \in SignalMoves(p.slot, Asks("skip"))
      PROVE  \E v \in Retried(p) : v[1] = "skip" /\ v[2].slot = s
  <2>1. PICK q \in MovedTo(p, VisitMoves(p.slot)) : q.slot = s
    BY <1>1, <1>2, MovedEvery
  <2>2. <<"skip", q>> \in Retried(p) /\ <<"skip", q>>[1] = "skip" /\ <<"skip", q>>[2].slot = s
    BY <2>1 DEF Retried
  <2> QED BY <2>2
<1> QED BY <1>3, <1>4

LEMMA UnconfirmedMoves ==
  ASSUME NEW p \in Position, p.slot = "unconfirmed", NEW visit \in Unconfirmed(p)
  PROVE  visit[2].slot \in SignalMoves(p.slot, Asks(visit[1]))
<1>1. ASSUME NEW e \in EntryMarks, visit = <<"skip", Confirmed(p, e)>>
      PROVE  visit[2].slot \in SignalMoves(p.slot, Asks(visit[1]))
  <2>1. visit[2].slot = "open" /\ Asks(visit[1]) = "none"
    BY <1>1, AsksToSell DEF Confirmed, Position
  <2> QED BY <2>1 DEF SignalMoves
<1>2. ASSUME NEW q \in Sold(p), visit = <<"time_stop_unconfirmed", q>>
      PROVE  visit[2].slot \in SignalMoves(p.slot, Asks(visit[1]))
  <2>1. Asks(visit[1]) = "hard"
    BY <1>2, AsksToSell DEF FullExits
  <2>2. visit[2].slot \in VisitMoves("open")
    BY <1>2, SoldEvery
  <2> QED BY <2>1, <2>2 DEF SignalMoves
<1>3. CASE visit = <<"skip", p>>
  BY <1>3, AsksToSell DEF SignalMoves
<1> QED BY <1>1, <1>2, <1>3 DEF Unconfirmed

\* What one visit may decide, as the slots see it.
LEMMA VisitsKeepToSlots ==
  ASSUME TypeOK, NEW i \in 1..N, NEW thin \in BOOLEAN, NEW visit \in Visits(i, thin)
  PROVE  /\ visit[2].slot \in SignalMoves(book[i].slot, Asks(visit[1]))
         /\ book[i].slot # "unconfirmed" =>
              \A s \in SignalMoves(book[i].slot, Asks(visit[1])) :
                \E v \in Visits(i, thin) : v[1] = visit[1] /\ v[2].slot = s
<1>1. book[i] \in Position
  BY DEF TypeOK
<1>2. CASE book[i].slot \in {"none", "blocked", "threshold"}
  <2>1. Visits(i, thin) = Retried(book[i])
    BY <1>2 DEF Visits
  <2> QED BY <1>1, <1>2, <2>1, RetriedEvery
<1>3. CASE book[i].slot \notin {"none", "blocked", "threshold"}
  <2> DEFINE of(p) ==
        CASE p.slot = "open" -> Decisions(p, Suppressed([book EXCEPT ![i] = p]), thin)
          [] p.slot = "exiting" -> Retried(p)
          [] p.slot = "unconfirmed" -> Unconfirmed(p)
  <2>1. Visits(i, thin) = UNION {of(p) : p \in Valuations(book[i])}
    BY <1>3 DEF Visits
  <2>2. PICK p \in Valuations(book[i]) : visit \in of(p)
    BY <2>1
  <2>3. of(p) \subseteq Visits(i, thin)
    BY <2>1
  <2>4. p \in Position /\ p.slot = book[i].slot
    BY <1>1, ValuationsType
  <2>5. p.slot \in {"open", "exiting", "unconfirmed"}
    BY <1>3, <2>4 DEF Position, Slots
  <2>6. CASE p.slot = "open"
    <3> DEFINE decided == Decisions(p, Suppressed([book EXCEPT ![i] = p]), thin)
    <3>1. of(p) = decided
      BY <2>6
    <3>2. (visit[1] = "wait" /\ visit[2].slot = "open") \/ Sells(visit, decided)
      BY <2>2, <2>4, <2>6, <3>1, DecisionsSell
    <3> HIDE DEF of, decided
    <3>3. CASE visit[1] = "wait" /\ visit[2].slot = "open"
      <4>1. SignalMoves(book[i].slot, Asks(visit[1])) = {"open"}
        BY <2>4, <2>6, <3>3, AsksToSell DEF SignalMoves
      <4> QED BY <3>3, <4>1
    <3>4. CASE Sells(visit, decided)
      <4>1. Asks(visit[1]) # "none"
        BY <3>4, AsksToSell DEF Sells
      <4>2. SignalMoves(book[i].slot, Asks(visit[1])) = VisitMoves("open")
        BY <2>4, <2>6, <4>1 DEF SignalMoves
      <4> QED BY <2>3, <3>1, <3>4, <4>2 DEF Sells
    <3> QED BY <3>2, <3>3, <3>4
  <2>7. CASE p.slot = "exiting"
    <3>1. of(p) = Retried(p)
      BY <2>7
    <3> HIDE DEF of
    <3> QED BY <2>2, <2>3, <2>4, <2>7, <3>1, RetriedEvery
  <2>8. CASE p.slot = "unconfirmed"
    <3>1. visit \in Unconfirmed(p)
      BY <2>2, <2>8
    <3> QED BY <2>4, <2>8, <3>1, UnconfirmedMoves
  <2> QED BY <2>5, <2>6, <2>7, <2>8
<1> QED BY <1>2, <1>3

\* A rule moves a position only where PositionExit's FollowsSlots lets the exit it asks
\* for lead: without a rule that sells, an open position stays open, and only the time
\* stop sells an unconfirmed entry.
THEOREM RulesKeepToSlots == Spec => KeepsToSlots
<1> DEFINE Step == \A i \in 1..N : Visit(i) =>
                     book'[i].slot \in SignalMoves(book[i].slot, Asks(rule'))
<1>1. TypeOK => [Step]_vars
  <2> SUFFICES ASSUME TypeOK, NEW i \in 1..N, Visit(i)
               PROVE  book'[i].slot \in SignalMoves(book[i].slot, Asks(rule'))
    OBVIOUS
  <2>1. PICK thin \in BOOLEAN, visit \in UNION {Visits(i, t) : t \in BOOLEAN} :
          /\ visit \in Visits(i, thin)
          /\ rule' = visit[1]
          /\ book' = [book EXCEPT ![i] = visit[2]]
    BY DEF Visit
  <2>2. book'[i] = visit[2]
    BY <2>1 DEF TypeOK
  <2> QED BY <2>1, <2>2, VisitsKeepToSlots
<1>2. Spec => []TypeOK
  BY RulesTyped
<1> HIDE DEF Step
<1>3. Spec => [][Step]_vars
  BY <1>1, <1>2, PTL DEF Spec
<1> QED BY <1>3 DEF Step, KeepsToSlots

\* The other half: whatever the rules decide, every end that the exit they ask for may
\* have is one of the ends of the visit, so nothing PositionExit does is left out here.
THEOREM RulesAllowEveryEnd == Spec => []EveryEndOpen
<1>1. TypeOK => EveryEndOpen
  BY VisitsKeepToSlots DEF EveryEndOpen
<1> QED BY <1>1, RulesTyped, PTL
=============================================================================
