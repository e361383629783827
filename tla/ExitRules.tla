------------------------------ MODULE ExitRules ------------------------------
(***************************************************************************)
(* How _mark_positions values every open position in turn, and which rule  *)
(* then decides to sell it: the ordered rules of _evaluate_exit_rules, the *)
(* liquidity rule JSDS, which looks at the other positions too, and after  *)
(* them either the take-profit ladder or the Hachi dripper.                *)
(*                                                                         *)
(* Source: engine/trader.py (_mark_positions, _evaluate_jsds_liquidity,    *)
(* _evaluate_exit_rules, _run_hachi_dripper), engine/position_pricing.py,  *)
(* engine/hachi_brain.py.                                                  *)
(*                                                                         *)
(* How the exit a rule starts then goes is PositionExit's matter; here the *)
(* position moves between the slots of ExitSlots.  Prices are per token,   *)
(* in percent of the price at which the position was first booked; time is *)
(* reduced to "older than time_stop_minutes" and "the gate is over".       *)
(***************************************************************************)
EXTENDS Integers, FiniteSets, ExitSlots

CONSTANTS
  N,                     \* positions that may be opened
  Quotes,                \* sell quotes: mark, impact and hops against those at entry
  EntryMarks,            \* entry prices a late settlement may lead to
  Sellers,               \* "hachi" if hachi_dripper_enabled, else "ladder"
  StopLoss,              \* stop_loss_pct
  TrailArm, Trail,       \* trailing_arm_pct, trailing_stop_pct
  KeepPct,               \* profit from which the time stop spares a position (12)
  StreakBreak,           \* missed quotes in a row that break a position (3)
  StreakBreakSuppressed, \* the same while most positions miss theirs (5)
  TpTriggers,            \* take_profit_levels_pct
  HarvestMin,            \* hachi_profit_harvest_min_pct
  NeutralFloor,          \* hachi_neutral_floor_pct
  EmergencyPnl,          \* hachi_emergency_pnl_pct
  CollapseDrop           \* hachi_collapse_drop_pct

ASSUME SizeAssumption == N \in Nat
ASSUME QuotesAssumption ==
  /\ Quotes \subseteq [mark : Nat \ {0}, impact : Nat, hops : Int]
  /\ EntryMarks \subseteq Nat \ {0}
ASSUME SellersAssumption == Sellers \subseteq {"ladder", "hachi"}
ASSUME ThresholdsAssumption ==
  /\ StopLoss \in Nat /\ TrailArm \in Nat /\ Trail \in Nat /\ KeepPct \in Nat
  /\ HarvestMin \in Int /\ NeutralFloor \in Int /\ EmergencyPnl \in Int /\ CollapseDrop \in Nat
ASSUME StreaksAssumption ==
  /\ StreakBreak \in Nat \ {0} /\ StreakBreakSuppressed \in Nat \ {0}
  /\ StreakBreak <= StreakBreakSuppressed
ASSUME LadderAssumption == \A k \in DOMAIN TpTriggers : TpTriggers[k] \in Int

VARIABLES
  book,    \* open_positions, in the order in which they were opened
  entered, \* positions opened so far
  cursor,  \* last position visited in this cycle, 0 before the first
  rule,    \* what decided the last visit
  seller   \* who sells when no rule fires

vars == <<book, entered, cursor, rule, seller>>

FullExits ==
  { "liquidity_break", "jsds_hard", "stop_loss", "trailing_stop", "time_stop",
    "hachi_emergency", "hachi_collapse", "time_stop_unconfirmed" }
PartExits == {"jsds_soft", "take_profit", "hachi_chunk"}
Rules == FullExits \cup PartExits \cup {"wait", "skip"}

Quoted == {q.mark : q \in Quotes}
Marks == Quoted \cup EntryMarks \cup {100}

Position ==
  [ slot   : Slots,
    entry  : EntryMarks \cup {100},       \* entry_mark_sol_per_token
    mark   : Marks,                       \* last_mark_sol_per_token
    peak   : Marks,                       \* peak_mark_sol_per_token
    prev   : Marks \cup {0},              \* previous_mark_sol_per_token, 0 if none yet
    impact : {q.impact : q \in Quotes} \cup {1}, \* last_sell_impact_bps over the entry's
    hops   : {q.hops : q \in Quotes} \cup {0},   \* last_sell_route_hops less the entry's;
                                          \* if either baseline is None: 1 and 0
    streak : 0..StreakBreakSuppressed,    \* quote_miss_streak; more makes no difference
    old    : BOOLEAN,                     \* older than time_stop_minutes
    done   : SUBSET DOMAIN TpTriggers ]   \* take-profit steps done

\* _seed_sol_basis_on_open, _seed_jsds_entry_baseline: a position as it is opened.
NewPosition(slot) ==
  [ slot |-> slot, entry |-> 100, mark |-> 100, peak |-> 100, prev |-> 0,
    impact |-> 1, hops |-> 0, streak |-> 0, old |-> FALSE, done |-> {} ]

Larger(a, b) == IF a >= b THEN a ELSE b
Smaller(a, b) == IF a <= b THEN a ELSE b

\* pnl_pct >= x: the mark against the price at entry.
PnlAtLeast(p, x) == 100 * p.mark >= p.entry * (100 + x)
PnlAtMost(p, x) == 100 * p.mark <= p.entry * (100 + x)

-----------------------------------------------------------------------------
(* Valuation: one sell quote for all that is left.                          *)

\* The quote came back: marks, peak and route data follow it.
Valued(p, q) ==
  [p EXCEPT !.mark = q.mark, !.peak = Larger(p.peak, q.mark),
            !.impact = q.impact, !.hops = q.hops, !.streak = 0]

\* No quote: everything stays as the last one left it, and the miss is counted.
Missed(p) == [p EXCEPT !.streak = Smaller(p.streak + 1, StreakBreakSuppressed)]

Valuations(p) == {Valued(p, q) : q \in Quotes} \cup {Missed(p)}

-----------------------------------------------------------------------------
(* JSDS, the liquidity rule.                                                *)

\* Most open positions have missed their quote.  Positions visited later in the cycle
\* still show the streak of the cycle before, positions sold earlier in it are gone.
Suppressed(b) ==
  LET active == {i \in 1..N : b[i].slot = "open"}
      missing == {i \in active : b[i].streak >= 1}
  IN Cardinality(active) >= 2 /\ 10 * Cardinality(missing) > 6 * Cardinality(active)

HardBreak(p, suppressed) ==
  \/ p.streak >= (IF suppressed THEN StreakBreakSuppressed ELSE StreakBreak)
  \/ ~suppressed /\ p.impact >= 5 /\ p.hops >= 2

SoftBreak(p, suppressed) == ~suppressed /\ p.impact >= 4 /\ p.hops >= 1

-----------------------------------------------------------------------------
(* The rules, in the order in which they are tested.                        *)

Stopped(p) == PnlAtMost(p, -StopLoss)

\* Armed by the profit of this moment only: below it the stop is off again.
Trailed(p) == PnlAtLeast(p, TrailArm) /\ 100 * p.mark <= p.peak * (100 - Trail)

TimedOut(p) == p.old /\ ~PnlAtLeast(p, KeepPct)

Order ==
  <<"liquidity_break", "jsds_hard", "jsds_soft", "stop_loss", "trailing_stop", "time_stop">>

\* thin: the pool's depth in the market data is below liquidity_break_ratio of that at entry.
Fires(p, suppressed, thin) ==
  [ liquidity_break |-> thin,
    jsds_hard       |-> HardBreak(p, suppressed),
    jsds_soft       |-> SoftBreak(p, suppressed),
    stop_loss       |-> Stopped(p),
    trailing_stop   |-> Trailed(p),
    time_stop       |-> TimedOut(p) ]

\* The first rule that fires, or "none".
FirstRule(p, suppressed, thin) ==
  LET fires == Fires(p, suppressed, thin)
      firing == {k \in 1..6 : fires[Order[k]]}
  IN IF firing = {} THEN "none"
     ELSE Order[CHOOSE k \in firing : \A j \in firing : k <= j]

-----------------------------------------------------------------------------
(* The Hachi dripper: classify_pnl_zone, classify_momentum, select_urgency. *)

\* The zones of the profit are tested from the best to the worst, and nothing makes sure
\* that their thresholds have this order.
Spared(p) == PnlAtLeast(p, HarvestMin) \/ PnlAtLeast(p, NeutralFloor)
Deteriorated(p) == ~Spared(p) /\ PnlAtLeast(p, EmergencyPnl)
Emergency(p) == ~Spared(p) /\ ~PnlAtLeast(p, EmergencyPnl)

\* Against the mark of the last cycle in which the dripper ran.
Collapsing(p) == p.prev > 0 /\ 100 * p.mark <= p.prev * (100 - CollapseDrop)

Remember(p) == [p EXCEPT !.prev = p.mark]

\* Where the visit's exit leaves the position.  Of one that is closed, or blocked and so
\* never visited again, nothing else is kept.
MovedTo(p, slots) ==
  {IF s \in {"none", "blocked"} THEN NewPosition(s) ELSE [p EXCEPT !.slot = s] : s \in slots}

Sold(p) == MovedTo(p, VisitMoves("open"))

\* The dripper sells one chunk, or none: it waits between chunks (drip_next_chunk_at),
\* and no chunk may have a fair price.
Drip(p) ==
  {<<"wait", Remember(p)>>} \cup {<<"hachi_chunk", q>> : q \in Sold(Remember(p))}

\* The pairs of a decision and the position it leaves.  The wait between chunks does not
\* hold back the exits of everything.
Hachi(p) ==
  IF Emergency(p) \/ (Deteriorated(p) /\ Collapsing(p))
  THEN {<<IF Emergency(p) THEN "hachi_emergency" ELSE "hachi_collapse", q>> :
          q \in Sold(Remember(p))}
  ELSE Drip(p)

LadderMarksNext(p) == \* mutant: the step after the one that sold is marked done
  LET due == {k \in DOMAIN TpTriggers \ p.done : PnlAtLeast(p, TpTriggers[k])}
      first == {k \in due : \A j \in due : k <= j}
  IN IF due = {} THEN {<<"wait", p>>}
     ELSE UNION {{<<"take_profit", q>> : q \in Sold([p EXCEPT !.done = @ \cup {k + 1}])} :
                   k \in first}

\* The ladder: the first step not done whose trigger is reached.  What it sells leaves
\* the position other than OPEN, so no second step is tried.
Ladder(p) ==
  LET due == {k \in DOMAIN TpTriggers \ p.done : PnlAtLeast(p, TpTriggers[k])}
      first == {k \in due : \A j \in due : k <= j}
  IN IF due = {} THEN {<<"wait", p>>}
     ELSE UNION {{<<"take_profit", q>> : q \in Sold([p EXCEPT !.done = @ \cup {k}])} :
                   k \in first}

\* _evaluate_exit_rules.  Marks are never invalid here: a new position has those of its
\* entry, and a missed quote leaves them alone.
Decisions(p, suppressed, thin) ==
  LET first == FirstRule(p, suppressed, thin)
  IN IF first # "none" THEN {<<first, q>> : q \in Sold(p)}
     ELSE IF seller = "hachi" THEN Hachi(p) ELSE Ladder(p)

-----------------------------------------------------------------------------
(* One position visited.                                                    *)

\* _retry_entry_settlement_reconciliation: the wallet shows what was bought, and with it
\* the price at entry.
Confirmed(p, entry) ==
  [p EXCEPT !.slot = "open", !.entry = entry, !.peak = Larger(p.peak, entry)]

UnconfirmedKept(p) == \* mutant: the time stop does not reach unconfirmed entries
  {<<"skip", Confirmed(p, e)>> : e \in EntryMarks} \cup {<<"skip", p>>}

\* An unconfirmed entry: confirmed now, or still not; then the time stop may sell it.
Unconfirmed(p) ==
  {<<"skip", Confirmed(p, e)>> : e \in EntryMarks} \cup
  (IF p.old THEN {<<"time_stop_unconfirmed", q>> : q \in Sold(p)} ELSE {<<"skip", p>>})

\* A pending exit is tried again, whatever the rules would say now.
Retried(p) == {<<"skip", q>> : q \in MovedTo(p, VisitMoves(p.slot))}

VisitsJudgedBefore(i, thin) == \* mutant: the suppression is that of before the valuation
  IF book[i].slot \in {"none", "blocked", "threshold"} THEN Retried(book[i])
  ELSE UNION { CASE p.slot = "open" -> Decisions(p, Suppressed(book), thin)
                 [] p.slot = "exiting" -> Retried(p)
                 [] p.slot = "unconfirmed" -> Unconfirmed(p)
               : p \in Valuations(book[i]) }

\* What one visit may decide, and the position it leaves.  A blocked position is not even
\* valued.
Visits(i, thin) ==
  IF book[i].slot \in {"none", "blocked", "threshold"} THEN Retried(book[i])
  ELSE UNION { CASE p.slot = "open" ->
                      Decisions(p, Suppressed([book EXCEPT ![i] = p]), thin)
                 [] p.slot = "exiting" -> Retried(p)
                 [] p.slot = "unconfirmed" -> Unconfirmed(p)
               : p \in Valuations(book[i]) }

Visit(i) ==
  /\ i = cursor + 1 /\ i <= entered
  /\ cursor' = i
  /\ \E thin \in BOOLEAN : \E visit \in Visits(i, thin) :
       /\ rule' = visit[1]
       /\ book' = [book EXCEPT ![i] = visit[2]]
  /\ UNCHANGED <<entered, seller>>

-----------------------------------------------------------------------------
(* Between the visits of two cycles.                                        *)

\* _maybe_open_positions runs before _mark_positions and appends to open_positions.
Enter(i) ==
  /\ cursor = 0 /\ i = entered + 1
  /\ entered' = i
  /\ \E slot \in {"open", "unconfirmed"} : book' = [book EXCEPT ![i] = NewPosition(slot)]
  /\ UNCHANGED <<cursor, rule, seller>>

Age(i) ==
  /\ cursor = 0 /\ book[i].slot \notin {"none", "blocked"} /\ ~book[i].old
  /\ book' = [book EXCEPT ![i].old = TRUE]
  /\ UNCHANGED <<entered, cursor, rule, seller>>

EndCycle ==
  /\ cursor = entered
  /\ cursor' = 0 /\ rule' = "skip"
  /\ UNCHANGED <<book, entered, seller>>

Init ==
  /\ book = [i \in 1..N |-> NewPosition("none")]
  /\ entered = 0 /\ cursor = 0 /\ rule = "skip"
  /\ seller \in Sellers

Next ==
  \/ \E i \in 1..N : Visit(i) \/ Enter(i) \/ Age(i)
  \/ EndCycle

Spec == Init /\ [][Next]_vars

-----------------------------------------------------------------------------
(* What the rules promise.                                                  *)

\* Every variable has its type.
TypeOK ==
  /\ book \in [1..N -> Position]
  /\ entered \in 0..N /\ cursor \in 0..entered
  /\ rule \in Rules /\ seller \in Sellers

\* A visit that holds a position, or sells only a part of it for a profit or a fair
\* price, has seen it out of every danger: in no break of JSDS unless the book as it then
\* was suppressed it, above the stop loss, above the trailing floor, young or well in
\* profit, and for Hachi outside the emergency zone.  Only the soft liquidity
\* break, which is tested first, sells half of a position that the later rules would sell
\* whole.
DangerSoldInFull ==
  /\ cursor > 0 /\ rule \in {"wait", "take_profit", "hachi_chunk"}
  /\ book[cursor].slot \notin {"none", "blocked"}
  => LET p == book[cursor]
         suppressed == Suppressed([book EXCEPT ![cursor].slot = "open"])
     IN /\ ~HardBreak(p, suppressed) /\ ~SoftBreak(p, suppressed)
        /\ ~Stopped(p) /\ ~Trailed(p) /\ ~TimedOut(p)
        /\ seller = "hachi" => ~Emergency(p)

\* The time stop reaches entries that are never confirmed: when the visit of one older
\* than time_stop_minutes is over, it has been confirmed or its exit has been started
\* ("no position holds indefinitely", trader.py:334).
UnconfirmedTimesOut ==
  cursor > 0 /\ book[cursor].old => book[cursor].slot # "unconfirmed"
=============================================================================
