---------------------------- MODULE TradingCycle ----------------------------
(***************************************************************************)
(* The poll loop over the whole portfolio: day rollover, safety rails,     *)
(* entries, the visit of every position, the save, crashes and recovery.   *)
(*                                                                         *)
(* Source: engine/trader.py (run_cycle, _evaluate_safety,                  *)
(* _maybe_open_positions, _mark_positions, _persist_cycle), cli/main.py    *)
(* (the run loop), storage/state.py and storage/recovery.py.               *)
(*                                                                         *)
(* What happens to one position inside a visit or the recovery is modelled *)
(* by PositionExit; here it moves between the slots of ExitSlots.  What    *)
(* discovery returns is any set of candidates, and its data may be stale.  *)
(* SOL is counted in units: every buy spends Size, a sale pays a member of *)
(* Proceeds.                                                               *)
(***************************************************************************)
EXTENDS Integers, FiniteSets, ExitSlots

CONSTANTS
  Mints,        \* token mints that discovery may propose
  MaxOpen,      \* max_open_positions
  MaxDaily,     \* max_daily_new_positions
  Size,         \* min(base_position_size_sol, max_position_size_sol)
  Reserve,      \* cash_reserve_sol
  StartCash,    \* portfolio_start_sol
  LossCap,      \* daily_realized_loss_cap_sol
  MaxFailures,  \* max_consecutive_execution_failures
  MaxExiting,   \* unknown_exit_saturation_limit
  MaxBlocked,   \* max_exit_blocked_positions
  Cooldown,     \* cooldown_minutes_after_exit, in cycles
  DayLength,    \* cycles in a day
  Proceeds,     \* what a sale may pay
  Modes,        \* values of: live_trading_enabled and not dry_run
  Faults,       \* what can go wrong outside the process
  MaxTime,      \* bound on the clock
  MaxCrashes    \* bound on process crashes

FaultKinds ==
  { "refused",        \* a buy or a sale is refused
    "lost_reply",     \* /execute raised although the swap landed
    "unlanded_reply", \* /execute answered for a swap that never landed
    "no_proceeds",    \* a sale landed, what it paid is unknown or a wallet read denies it
    "unsettled",      \* executor.buy answers "unknown", which the entry loop handles and
                      \* today's executor.buy never gives (SwapCall)
    "stale",          \* market data older than stale_market_data_minutes
    "corrupt_state" } \* state.json cannot be read back

ASSUME MintsAssumption == IsFiniteSet(Mints)
ASSUME LimitsAssumption ==
  /\ MaxOpen \in Nat /\ MaxDaily \in Nat
  /\ MaxFailures \in Nat \ {0} /\ MaxBlocked \in Nat \ {0} /\ MaxExiting \in Nat
ASSUME MoneyAssumption ==
  /\ Size \in Nat /\ Reserve \in Nat /\ StartCash \in Nat
  /\ LossCap \in Nat \ {0}
  /\ Proceeds \subseteq Nat
ASSUME TimeAssumption ==
  /\ Cooldown \in Nat /\ DayLength \in Nat \ {0}
  /\ MaxTime \in Nat /\ MaxCrashes \in Nat
ASSUME EnvironmentAssumption ==
  /\ Modes \subseteq BOOLEAN
  /\ Faults \subseteq FaultKinds

VARIABLES
  pf,      \* the PortfolioState held by the process
  saved,   \* state.json
  sol,     \* SOL really in the trading wallet
  phase,   \* where the process is in its cycle
  todo,    \* mints the running loop (entries or exits) has still to visit
  live,    \* may the running process trade
  now,     \* the clock, in cycles
  crashes, \* crashes so far
  closed,  \* history: when each mint last left open_positions, if it was ever saved there
  lost     \* history: SOL lost in positions closed today

vars == <<pf, saved, sol, phase, todo, live, now, crashes, closed, lost>>

Never == -Cooldown
Day(time) == time \div DayLength
Rails == {"none", "loss", "failures", "stale", "exits", "blocked"}
Phases == {"idle", "entries", "exits", "save", "down"}

Portfolio ==
  [ cash     : Int,                        \* cash_sol
    realized : Int,                        \* total_realized_sol
    slot     : [Mints -> Slots],           \* open_positions, by status
    got      : [Mints -> Nat],             \* realized_sol of the position
    closedAt : [Mints -> Never..MaxTime],  \* cooldowns
    opened   : Nat,                        \* opened_today_count
    day      : Nat,                        \* opened_today_date
    failures : Nat,                        \* consecutive_execution_failures
    stop     : Rails ]                     \* safety_stop_reason, None as "none"

\* Also what a process starts with that finds no state file, or one it cannot read: the
\* file is moved away first.
NewPortfolio(time) ==
  [ cash |-> StartCash, realized |-> 0, slot |-> [m \in Mints |-> "none"],
    got |-> [m \in Mints |-> 0], closedAt |-> [m \in Mints |-> Never],
    opened |-> 0, day |-> Day(time), failures |-> 0, stop |-> "none" ]

In(p, slots) == {m \in Mints : p.slot[m] \in slots}
Open(p) == In(p, Slots \ {"none"})
Exiting(p) == In(p, {"exiting"})
Blocked(p) == In(p, {"blocked", "threshold"})

-----------------------------------------------------------------------------
(* A cycle begins: day rollover, discovery, safety rails.                   *)

\* _reset_daily_counters
Rollover(p, time) ==
  IF p.day # Day(time) THEN [p EXCEPT !.day = Day(time), !.opened = 0] ELSE p

RailWithoutLoss(p, stale) == \* mutant: the loss cap is not tested
  CASE p.failures >= MaxFailures -> "failures"
    [] p.failures < MaxFailures /\ stale -> "stale"
    [] OTHER -> IF Cardinality(Exiting(p)) >= MaxExiting THEN "exits"
                ELSE IF Cardinality(Blocked(p)) >= MaxBlocked THEN "blocked"
                ELSE "none"

RailWithoutFailures(p, stale) == \* mutant: failures in a row are not tested
  CASE p.realized <= -LossCap -> "loss"
    [] p.realized > -LossCap /\ stale -> "stale"
    [] OTHER -> IF Cardinality(Exiting(p)) >= MaxExiting THEN "exits"
                ELSE IF Cardinality(Blocked(p)) >= MaxBlocked THEN "blocked"
                ELSE "none"

\* _evaluate_safety: the rails in the order in which they are tested.
Rail(p, stale) ==
  CASE p.realized <= -LossCap -> "loss"
    [] p.realized > -LossCap /\ p.failures >= MaxFailures -> "failures"
    [] p.realized > -LossCap /\ p.failures < MaxFailures /\ stale -> "stale"
    [] OTHER -> IF Cardinality(Exiting(p)) >= MaxExiting THEN "exits"
                ELSE IF Cardinality(Blocked(p)) >= MaxBlocked THEN "blocked"
                ELSE "none"

RoomInTheBook(p) == Cardinality(Open(p)) < MaxOpen \* mutant: the day's count is not tested

\* The two returns at the top of _maybe_open_positions.
RoomForEntries(p) == Cardinality(Open(p)) < MaxOpen /\ p.opened < MaxDaily

BeginCycle ==
  /\ phase = "idle"
  /\ now < MaxTime
  /\ now' = now + 1
  /\ \E candidates \in SUBSET Mints, stale \in BOOLEAN :
       /\ stale => "stale" \in Faults
       /\ LET p == Rollover(pf, now + 1)
              p1 == [p EXCEPT !.stop = Rail(p, stale)]
          IN  /\ pf' = p1
              /\ IF p1.stop = "none" /\ RoomForEntries(p1)
                 THEN phase' = "entries" /\ todo' = candidates
                 ELSE phase' = "exits" /\ todo' = Open(p1)
  /\ lost' = IF Day(now + 1) # Day(now) THEN 0 ELSE lost
  /\ UNCHANGED <<saved, sol, live, crashes, closed>>

-----------------------------------------------------------------------------
(* _maybe_open_positions: one action per result of a candidate.             *)

CoolingDown(m) == now - pf.closedAt[m] < Cooldown

AffordableNow(p) == p.cash >= Reserve \* mutant: the price of the entry is left out

Affordable(p) == p.cash - Size >= Reserve

\* The checks of the loop that come before any request to Jupiter.
Eligible(m) ==
  /\ pf.slot[m] = "none"
  /\ ~CoolingDown(m)
  /\ Affordable(pf)

Candidate(m) ==
  /\ phase = "entries" /\ m \in todo
  /\ UNCHANGED <<saved, phase, live, now, crashes, closed, lost>>

\* Already open, cooling down, no cash, or turned down by a probe.
PassOver(m) ==
  /\ Candidate(m)
  /\ todo' = todo \ {m}
  /\ UNCHANGED <<pf, sol>>

\* Dry run: nothing but a counter.
BuySkipped(m) ==
  /\ Candidate(m)
  /\ Eligible(m) /\ ~live
  /\ todo' = todo \ {m}
  /\ UNCHANGED <<pf, sol>>

\* Refused, or /execute raised after the swap landed.
BuyFailed(m) ==
  /\ Candidate(m)
  /\ Eligible(m)
  /\ \/ "refused" \in Faults /\ sol' = sol
     \/ "lost_reply" \in Faults /\ live /\ sol' = sol - Size
  /\ pf' = [pf EXCEPT !.failures = @ + 1]
  /\ todo' = todo \ {m}

EnterAll(m, slot, failures) == \* mutant: the loop goes on with a full book
  /\ pf' = [pf EXCEPT !.slot[m] = slot, !.got[m] = 0, !.cash = @ - Size,
                      !.opened = @ + 1, !.failures = failures]
  /\ todo' = todo \ {m}

\* The position enters the book; the loop ends when the book is full.
Enter(m, slot, failures) ==
  /\ pf' = [pf EXCEPT !.slot[m] = slot, !.got[m] = 0, !.cash = @ - Size,
                      !.opened = @ + 1, !.failures = failures]
  /\ todo' = IF Cardinality(Open(pf')) >= MaxOpen THEN {} ELSE todo \ {m}

BuySettledInDryRun(m) == \* mutant: the dry-run gate is missing
  /\ Candidate(m)
  /\ Eligible(m)
  /\ \/ sol' = sol - Size
     \/ "unlanded_reply" \in Faults /\ sol' = sol
  /\ Enter(m, "open", 0)

BuySettled(m) ==
  /\ Candidate(m)
  /\ Eligible(m) /\ live
  /\ \/ sol' = sol - Size
     \/ "unlanded_reply" \in Faults /\ sol' = sol
  /\ Enter(m, "open", 0)

BuyUnsettled(m) ==
  /\ Candidate(m)
  /\ Eligible(m) /\ live
  /\ "unsettled" \in Faults
  /\ sol' \in {sol, sol - Size}
  /\ Enter(m, "unconfirmed", pf.failures)

EndEntries ==
  /\ phase = "entries" /\ todo = {}
  /\ phase' = "exits"
  /\ todo' = Open(pf)
  /\ UNCHANGED <<pf, saved, sol, live, now, crashes, closed, lost>>

-----------------------------------------------------------------------------
(* _mark_positions: one visit of each position in the book.                 *)

Visit(m) ==
  /\ phase = "exits" /\ m \in todo
  /\ todo' = todo \ {m}
  /\ UNCHANGED <<saved, phase, live, now, crashes>>

\* No sale: the position stays, waits, is found exhausted, or its attempt fails.
VisitWithoutSale(m) ==
  /\ Visit(m)
  /\ \E slot \in VisitMoves(pf.slot[m]) \ {"none"} : pf' = [pf EXCEPT !.slot[m] = slot]
  /\ UNCHANGED <<sol, closed, lost>>

Selling == {"open", "exiting", "threshold", "unconfirmed"}

\* What a booked sale pays.  Jupiter's word is enough for the books when a wallet read
\* fails, also for a swap that never landed.
Paid(paid) ==
  \/ sol' = sol + paid
  \/ "unlanded_reply" \in Faults /\ sol' = sol

\* The sale fails (also, under lost_reply, one that landed): one more failure in a row.
SellFailed(m) ==
  /\ Visit(m)
  /\ pf.slot[m] \in Selling
  /\ \/ "refused" \in Faults /\ sol' = sol
     \/ "lost_reply" \in Faults /\ live /\ \E paid \in Proceeds : sol' = sol + paid
  /\ \E slot \in FailedMoves(pf.slot[m]) :
       pf' = [pf EXCEPT !.slot[m] = slot, !.failures = @ + 1]
  /\ UNCHANGED <<closed, lost>>

SellPartUncredited(m) == \* mutant: cash is credited only when the position closes
  /\ Visit(m)
  /\ live
  /\ pf.slot[m] \in Selling
  /\ \E paid \in Proceeds, slot \in {"open", "exiting"} :
       /\ Paid(paid)
       /\ pf' = [pf EXCEPT !.slot[m] = slot, !.got[m] = @ + paid]
  /\ UNCHANGED <<closed, lost>>

\* Part of the position is sold and booked.
SellPart(m) ==
  /\ Visit(m)
  /\ live
  /\ pf.slot[m] \in Selling
  /\ \E paid \in Proceeds, slot \in {"open", "exiting"} :
       /\ Paid(paid)
       /\ pf' = [pf EXCEPT !.slot[m] = slot, !.got[m] = @ + paid, !.cash = @ + paid]
  /\ UNCHANGED <<closed, lost>>

SellRestUntil(m) == \* mutant: the end of the cooldown is stored, not its beginning
  /\ Visit(m)
  /\ live
  /\ pf.slot[m] \in Selling
  /\ \E paid \in Proceeds :
       LET result == pf.got[m] + paid - Size
       IN  /\ Paid(paid)
           /\ pf' = [pf EXCEPT !.slot[m] = "none", !.got[m] = 0, !.cash = @ + paid,
                               !.realized = @ + result, !.closedAt[m] = now + Cooldown]
           /\ lost' = lost - result
  /\ closed' = IF saved.slot[m] = "none" THEN closed ELSE [closed EXCEPT ![m] = now]

\* The rest is sold: the position leaves the book and its result is realized.  The history
\* does not count a position that no save has seen: a crash forgets its whole life.
SellRest(m) ==
  /\ Visit(m)
  /\ live
  /\ pf.slot[m] \in Selling
  /\ \E paid \in Proceeds :
       LET result == pf.got[m] + paid - Size
       IN  /\ Paid(paid)
           /\ pf' = [pf EXCEPT !.slot[m] = "none", !.got[m] = 0, !.cash = @ + paid,
                               !.realized = @ + result, !.closedAt[m] = now]
           /\ lost' = lost - result
  /\ closed' = IF saved.slot[m] = "none" THEN closed ELSE [closed EXCEPT ![m] = now]

\* The sale landed, what it paid is unknown and is not credited.
SellUnpaid(m) ==
  /\ Visit(m)
  /\ live /\ "no_proceeds" \in Faults
  /\ pf.slot[m] \in Selling
  /\ \E paid \in Proceeds : sol' = sol + paid
  /\ pf' = [pf EXCEPT !.slot[m] = "exiting"]
  /\ UNCHANGED <<closed, lost>>

EndExits ==
  /\ phase = "exits" /\ todo = {}
  /\ phase' = "save"
  /\ UNCHANGED <<pf, saved, sol, todo, live, now, crashes, closed, lost>>

-----------------------------------------------------------------------------
(* The save, crashes and the restart.                                       *)

\* _persist_cycle.  A save that fails raises, and the run loop dies: that is Crash.
Persist ==
  /\ phase = "save"
  /\ saved' = pf
  /\ phase' = "idle"
  /\ UNCHANGED <<pf, sol, todo, live, now, crashes, closed, lost>>

Crash ==
  /\ phase # "down"
  /\ crashes < MaxCrashes
  /\ crashes' = crashes + 1
  /\ phase' = "down"
  /\ pf' = saved
  /\ todo' = {}
  /\ UNCHANGED <<saved, sol, live, now, closed, lost>>

RecoveredWithoutCooldown(p, slot) == \* mutant: a closing by the recovery starts no cooldown
  LET gone == In(p, Slots \ {"none"}) \cap {m \in Mints : slot[m] = "none"}
  IN  [p EXCEPT !.slot = slot,
                !.got = [m \in Mints |-> IF m \in gone THEN 0 ELSE @[m]]]

\* run_startup_recovery: a position found sold is closed, with a cooldown but without
\* its result; the others keep, or change, their slot.
Recovered(p, slot) ==
  LET gone == In(p, Slots \ {"none"}) \cap {m \in Mints : slot[m] = "none"}
  IN  [p EXCEPT !.slot = slot,
                !.got = [m \in Mints |-> IF m \in gone THEN 0 ELSE @[m]],
                !.closedAt = [m \in Mints |-> IF m \in gone THEN now' ELSE @[m]]]

\* state.json cannot be read: it is moved away, and all it held is forgotten.
LoseFile ==
  /\ "corrupt_state" \in Faults
  /\ pf' = NewPortfolio(now')
  /\ saved' = pf'
  /\ closed' = [m \in Mints |-> Never]

\* load_portfolio, the day rollover, and the recovery, whose decisions are saved.
Restart ==
  /\ phase = "down"
  /\ now' \in {now, now + 1} /\ now' <= MaxTime
  /\ \/ \E slot \in [Mints -> Slots] :
          /\ \A m \in Mints : slot[m] \in RecoveryMoves(saved.slot[m])
          /\ pf' = Recovered(Rollover(saved, now'), slot)
          /\ saved' = saved
          /\ closed' = [m \in Mints |-> IF saved.slot[m] # "none" /\ slot[m] = "none"
                                        THEN now' ELSE closed[m]]
     \/ LoseFile
  /\ lost' = IF Day(now') # Day(now) THEN 0 ELSE lost
  /\ live' \in Modes
  /\ phase' \in {"save", "idle"}
  /\ phase' = "idle" => pf'.slot = saved'.slot
  /\ UNCHANGED <<sol, todo, crashes>>

-----------------------------------------------------------------------------

Init ==
  /\ now = 0
  /\ pf = NewPortfolio(now)
  /\ saved = pf
  /\ sol = StartCash
  /\ phase = "idle"
  /\ todo = {}
  /\ live \in Modes
  /\ crashes = 0
  /\ closed = [m \in Mints |-> Never]
  /\ lost = 0

EntryStep(m) ==
  \/ PassOver(m) \/ BuySkipped(m) \/ BuyFailed(m) \/ BuySettled(m) \/ BuyUnsettled(m)

ExitStep(m) ==
  \/ VisitWithoutSale(m) \/ SellFailed(m) \/ SellPart(m) \/ SellRest(m) \/ SellUnpaid(m)

Next ==
  \/ BeginCycle
  \/ \E m \in Mints : EntryStep(m) \/ ExitStep(m)
  \/ EndEntries
  \/ EndExits
  \/ Persist
  \/ Crash
  \/ Restart

Spec == Init /\ [][Next]_vars

-----------------------------------------------------------------------------
(* Properties *)

TypeOK ==
  /\ pf \in Portfolio
  /\ saved \in Portfolio
  /\ sol \in Int
  /\ phase \in Phases
  /\ todo \subseteq Mints
  /\ live \in Modes
  /\ now \in 0..MaxTime
  /\ crashes \in 0..MaxCrashes
  /\ closed \in [Mints -> Never..MaxTime]
  /\ lost \in Int

Buys(m) ==
  phase = "entries" /\ phase' = "entries" /\ pf.slot[m] = "none" /\ pf'.slot[m] # "none"

\* A pass of the entry loop stays within max_open_positions, in the process and in the
\* state file.  The failure rail does not stop it half way (_evaluate_safety comes before
\* it): the failures it may end with are those it may begin with and one per candidate.
EntriesBounded ==
  /\ Cardinality(Open(pf)) <= MaxOpen /\ Cardinality(Open(saved)) <= MaxOpen
  /\ phase = "entries" => pf.failures < MaxFailures + Cardinality(Mints \ todo)

\* Entries never take the cash below the reserve.
ReserveKept ==
  LET floor == IF StartCash < Reserve THEN StartCash ELSE Reserve
  IN  pf.cash >= floor /\ saved.cash >= floor

\* The day's count is tested once per cycle: it overshoots by less than a full book.
DailyOvershootBounded == pf.opened = 0 \/ pf.opened < MaxDaily + MaxOpen

\* What the process counts as lost is bounded: entries stop at the loss cap, and the
\* positions open at that time can each lose no more than they cost.
LossBounded == pf.realized > -LossCap - MaxOpen * Size

\* The failure rail is a latch: once it is in the state file it stays, since only a buy
\* resets the count and no buy is made behind the rail.  Not even a restart clears it,
\* only the loss of the file.
FailureLatch ==
  [][ saved.failures >= MaxFailures =>
        saved'.failures >= MaxFailures \/ (phase = "down" /\ LoseFile) ]_vars

\* A mint that left the book is not bought again before its cooldown is over, also
\* when the process crashed in between (cooldowns) - unless it was bought and sold in
\* one cycle that was never saved, or the file that held the cooldown was lost.
CooldownRespected ==
  [][ \A m \in Mints : Buys(m) => now - closed[m] >= Cooldown ]_vars

\* With no crash and every answer received, cash_sol is the SOL in the wallet.
CashExact == pf.cash = sol

\* A process in dry-run changes neither the cash nor the wallet and opens nothing, also
\* on a state file that live processes have left.  A crash of it loses no cash and can
\* only bring back what the file still has.
DryRunSpendsNothing ==
  [][ phase # "down" /\ ~live =>
        /\ pf'.cash = pf.cash /\ sol' = sol
        /\ Open(pf') \subseteq Open(pf) \cup Open(saved) ]_vars

-----------------------------------------------------------------------------
(* What the repository says of the cycle, and the code does not do.          *)

\* README.md: the safety rail DAILY_REALIZED_LOSS_CAP_SOL.  It stops the entries of a
\* day only for losses realized on that day.
LossCapIsDaily == pf.stop = "loss" => lost >= LossCap
=============================================================================
