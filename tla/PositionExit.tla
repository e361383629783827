---------------------------- MODULE PositionExit ----------------------------
(***************************************************************************)
(* The life of ONE position from the moment it is in the book until it is  *)
(* closed: exit signals, sell attempts, settlement, retries with backoff,  *)
(* the chunked ("drip") take-profit exit, the Hachi dripper, the per-cycle *)
(* save of state.json, process crashes, and the startup recovery.          *)
(*                                                                         *)
(* Source: engine/trader.py (_mark_positions, _evaluate_exit_rules,        *)
(* _start_exit, _attempt_exit and the retry helpers), execution/           *)
(* executor.py (sell and its settlement), storage/recovery.py.             *)
(*                                                                         *)
(* The program is single-threaded: a cycle visits the position once (phase *)
(* "mark"), then saves (phase "save"), then sleeps (phase "idle").  What   *)
(* is not under its control - the chain, the RPC node, Jupiter's answers,  *)
(* the market, crashes - is nondeterministic, limited to the kinds listed  *)
(* in Faults.  Quantities are atomic token units, and selling n units pays *)
(* n units of SOL.  A retry timer is one bit, set when the code stores a   *)
(* due time in the future; any cycle may find it expired.                  *)
(***************************************************************************)
EXTENDS Integers, FiniteSets, ExitSlots

CONSTANTS
  Qty,        \* tokens bought by the entry
  RetryMax,   \* MAX_EXIT_RETRIES
  TpSteps,    \* number of take-profit steps
  TpPct,      \* fraction of the remaining quantity a step sells, in percent
  ChunkPcts,  \* drip_chunk_pcts, in percent
  Modes,      \* settings a process may be started with, see AllModes
  Faults,     \* what can go wrong outside the process
  EntryKinds, \* how the position came into the book, see AllEntryKinds
  MaxCrashes  \* bound on process crashes

FaultKinds ==
  { "refused",        \* no usable sell quote, order build failed, execute error
    "threshold",      \* quote failed with CANNOT_COMPUTE_OTHER_AMOUNT_THRESHOLD
    "lost_reply",     \* /execute raised (timeout) although the swap landed
    "unlanded_reply", \* /execute answered with a signature, the swap never landed
    "no_proceeds",    \* neither Jupiter nor the RPC gives the SOL received
    "read_timeout",   \* a wallet read fails: None
    "read_lag",       \* the read after a sale still shows the old balance
    "read_error",     \* an RPC error body, which the code reads as balance 0
    "recovery_error" } \* the same during the startup recovery

AllEntryKinds ==
  { "confirmed",     \* the buy settled and landed
    "short",         \* the same, but fewer tokens landed than the answer said
    "unlanded",      \* the buy settled on Jupiter's word alone, and never landed
    "unconfirmed" }  \* the buy's settlement is unknown: RECONCILE_PENDING, context entry

\* live: live_trading_enabled and not dry_run.  sell: the take-profit ladder, the ladder
\* with drip_exit_enabled, or hachi_dripper_enabled.
AllModes == [live : BOOLEAN, sell : {"ladder", "drip", "hachi"}]

ASSUME QtyAssumption == Qty \in Nat \ {0}
ASSUME RetryMaxAssumption == RetryMax \in Nat \ {0}
ASSUME ModesAssumption == Modes \subseteq AllModes
ASSUME PercentAssumption ==
  /\ TpSteps \in Nat
  /\ TpPct \in 1..100
  /\ ChunkPcts \subseteq 1..100
ASSUME EnvironmentAssumption ==
  /\ Faults \subseteq FaultKinds
  /\ EntryKinds \subseteq AllEntryKinds
  /\ MaxCrashes \in Nat

VARIABLES
  pos,     \* the PositionState held by the process
  disk,    \* the same position in state.json
  wallet,  \* tokens really held on chain
  plan,    \* history: what the current exit may still sell, from its start
  signal,  \* what the market tells the exit rules in this cycle
  phase,   \* where the process is in its cycle
  mode,    \* the settings of the running process
  crashes  \* crashes so far

vars == <<pos, disk, wallet, plan, signal, phase, mode, crashes>>

\* exit_retry_count grows without bound when threshold failures and other failures
\* alternate.  It is only ever compared with RetryMax: one more stands for all more.
RetryCap == RetryMax + 1

Statuses ==
  {"OPEN", "PARTIAL", "EXIT_PENDING", "RECONCILE_PENDING", "EXIT_BLOCKED", "CLOSED"}
Signals == {"none", "harvest", "soft", "hard"}
Reasons == {"none", "hard", "take_profit", "hachi_dripper", "threshold"}

Position ==
  [ status       : Statuses,
    context      : {"none", "entry", "exit"},        \* reconcile_context
    remaining    : 0..Qty,                           \* remaining_qty_atomic
    realized     : 0..Qty,                           \* realized_sol
    pendingQty   : 0..Qty,                           \* pending_exit_qty_atomic, None as 0
    reason       : Reasons,                          \* pending_exit_reason
    signature    : {"none", "landed", "dropped"},    \* pending_exit_signature and its fate
    retries      : 0..RetryCap,                      \* exit_retry_count
    waiting      : BOOLEAN,                          \* next_exit_retry_at in the future
    drip         : BOOLEAN,                          \* drip_exit_active
    dripLeft     : 0..Qty,                           \* drip_qty_remaining_atomic, None as 0
    chunkWaiting : BOOLEAN,                          \* drip_next_chunk_at in the future
    tpDone       : 0..TpSteps ]                      \* take_profit_steps already done

Smaller(a, b) == IF a <= b THEN a ELSE b
Larger(a, b) == IF a >= b THEN a ELSE b
Distance(a, b) == IF a <= b THEN b - a ELSE a - b

Uncounted(retries) == retries \* mutant: the retry is not counted
Counted(retries) == Smaller(retries + 1, RetryCap)

\* max(1, int(remaining * pct)): the part of a quantity a step or a chunk asks for
Part(qty, pct) == Larger(1, (qty * pct) \div 100)

Exiting(p) ==
  \/ p.status = "EXIT_PENDING"
  \/ p.status = "RECONCILE_PENDING" /\ p.context = "exit"

ClearDrip(p) ==
  [p EXCEPT !.drip = FALSE, !.dripLeft = 0, !.chunkWaiting = FALSE]

-----------------------------------------------------------------------------
(* Wallet reads.  NoRead is the None of wallet_token_balance_atomic.        *)

NoRead == -1

Reads(balance) ==
  {balance}
    \cup (IF "read_timeout" \in Faults THEN {NoRead} ELSE {})
    \cup (IF "read_error" \in Faults THEN {0} ELSE {})

RecoveryReads(balance) ==
  {balance}
    \cup (IF "read_timeout" \in Faults THEN {NoRead} ELSE {})
    \cup (IF "recovery_error" \in Faults THEN {0} ELSE {})

\* The read that follows a sale may also come from a node that lags behind.
ReadsAfterSale(before, after) ==
  Reads(after) \cup (IF "read_lag" \in Faults THEN {before} ELSE {})

\* _settle_sell_after_execute: the wallet delta can only contradict Jupiter.
Tolerance(sold) == Larger(1, (sold * 2) \div 100)

ConfirmedByJupiter(sold, pre, post) == TRUE \* mutant: the wallet is not consulted

SettlementConfirmed(sold, pre, post) ==
  \/ post = NoRead
  \/ pre = NoRead
  \/ /\ post < pre
     /\ Distance(pre - post, sold) <= Tolerance(sold)

-----------------------------------------------------------------------------
(* The state a sell attempt for q tokens of p leaves behind, by its result. *)

ReconcileExitKeepsDrip(p) == \* mutant: the drip state is not cleared
  [p EXCEPT !.status = "RECONCILE_PENDING", !.context = "exit",
            !.retries = Counted(@), !.waiting = TRUE]

\* RECONCILE_PENDING in the exit context, one more retry, exponential backoff.
ReconcileExit(p) ==
  [ClearDrip(p) EXCEPT !.status = "RECONCILE_PENDING", !.context = "exit",
                       !.retries = Counted(@), !.waiting = TRUE]

BookedSaleClosesWithDrip(p, q, armHachi) == \* mutant: the end of a drip closes the position
  LET left == Larger(0, p.dripLeft - q)
      sold == [p EXCEPT !.remaining = Larger(0, @ - q), !.realized = @ + q,
                        !.retries = 0, !.waiting = FALSE, !.pendingQty = 0,
                        !.reason = "none", !.signature = "none", !.context = "none"]
  IN  IF sold.drip /\ left > 0
      THEN [sold EXCEPT !.dripLeft = left, !.chunkWaiting = TRUE, !.pendingQty = left,
                        !.reason = "take_profit", !.status = "EXIT_PENDING"]
      ELSE IF sold.remaining = 0 \/ sold.drip
      THEN [ClearDrip(sold) EXCEPT !.status = "CLOSED"]
      ELSE [sold EXCEPT !.status = "PARTIAL", !.chunkWaiting = @ \/ armHachi]

\* The sale settled and its proceeds are known.
BookedSale(p, q, armHachi) ==
  LET left == Larger(0, p.dripLeft - q)
      sold == [p EXCEPT !.remaining = Larger(0, @ - q), !.realized = @ + q,
                        !.retries = 0, !.waiting = FALSE, !.pendingQty = 0,
                        !.reason = "none", !.signature = "none", !.context = "none"]
      ended == IF sold.drip THEN ClearDrip(sold) ELSE sold
  IN  IF sold.drip /\ sold.remaining > 0 /\ left > 0
      THEN [sold EXCEPT !.dripLeft = left, !.chunkWaiting = TRUE, !.pendingQty = left,
                        !.reason = "take_profit", !.status = "EXIT_PENDING"]
      ELSE IF sold.remaining = 0
      THEN [ended EXCEPT !.status = "CLOSED"]
      ELSE [ended EXCEPT !.status = "PARTIAL", !.chunkWaiting = @ \/ armHachi]

\* The sale settled but nobody knows what it paid: cash is not credited and the
\* pending quantity is zeroed so that the next retry does not sell again.
UnpaidSale(p, q, sig) ==
  [ReconcileExit(p) EXCEPT !.remaining = Larger(0, @ - q), !.pendingQty = 0,
                           !.signature = sig]

UnconfirmedSale(p, sig) == [ReconcileExit(p) EXCEPT !.signature = sig]

FailedSaleMistyped(p) == \* mutant: a status no other handler knows
  [ClearDrip(p) EXCEPT !.status = "FAILED", !.retries = Counted(@), !.waiting = TRUE]

FailedSaleCredited(p) == \* mutant: the proceeds are credited before the sale is known
  [ClearDrip(p) EXCEPT !.status = "EXIT_BLOCKED", !.retries = Counted(@), !.waiting = TRUE,
                       !.realized = Smaller(Qty, @ + p.pendingQty)]

FailedSale(p) ==
  [ClearDrip(p) EXCEPT !.status = "EXIT_BLOCKED", !.retries = Counted(@), !.waiting = TRUE]

ThresholdFailure(p, q) ==
  [ClearDrip(p) EXCEPT !.status = "EXIT_BLOCKED", !.reason = "threshold",
                       !.pendingQty = q, !.waiting = TRUE]

SkippedSale(p) ==
  [ClearDrip(p) EXCEPT !.status = "EXIT_PENDING", !.signature = "none"]

-----------------------------------------------------------------------------
(* Sell results.  p is the position as _attempt_exit has left it when it    *)
(* calls executor.sell for q tokens; allowance is the exit's plan.          *)

\* q tokens leave the wallet (or none do); the history variable follows the chain.
Swap(landed, allowance) ==
  /\ wallet' = wallet - landed
  /\ plan' = allowance - landed

NoSwap(allowance) == Swap(0, allowance)

\* A swap of more than the wallet holds is always refused.
SellRefused(p, q, allowance) ==
  /\ "refused" \in Faults \/ q > wallet
  /\ pos' = FailedSale(p)
  /\ NoSwap(allowance)

SellThreshold(p, q, allowance) ==
  /\ "threshold" \in Faults
  /\ pos' = ThresholdFailure(p, q)
  /\ NoSwap(allowance)

SellSkipped(p, allowance) ==
  /\ ~mode.live
  /\ pos' = SkippedSale(p)
  /\ NoSwap(allowance)

\* sign_and_execute_v2 turns every exception into execute_failed, also the
\* timeout of a swap that lands.
SellReplyLost(p, q, allowance) ==
  /\ mode.live
  /\ "lost_reply" \in Faults
  /\ q <= wallet
  /\ pos' = FailedSale(p)
  /\ Swap(q, allowance)

SellAnsweredInDryRun(p, q, allowance, armHachi) == \* mutant: the dry-run gate is missing
  /\ q <= wallet
  /\ pos' = BookedSale(p, q, armHachi)
  /\ Swap(q, allowance)

\* /execute answered.  The settlement compares wallet reads with the answer.
SellAnswered(p, q, allowance, armHachi) ==
  /\ mode.live
  /\ \E landed \in {0, q} :
       /\ landed <= wallet
       /\ landed = 0 => "unlanded_reply" \in Faults
       /\ LET sig == IF landed = q THEN "landed" ELSE "dropped"
          IN  \E pre \in Reads(wallet),
                 post \in ReadsAfterSale(wallet, wallet - landed) :
                IF ~SettlementConfirmed(q, pre, post)
                THEN pos' = UnconfirmedSale(p, sig)
                ELSE \/ pos' = BookedSale(p, q, armHachi)
                     \/ /\ "no_proceeds" \in Faults
                        /\ pos' = UnpaidSale(p, q, sig)
       /\ Swap(landed, allowance)

Sell(p, q, allowance, armHachi) ==
  \/ SellRefused(p, q, allowance)
  \/ SellThreshold(p, q, allowance)
  \/ SellSkipped(p, allowance)
  \/ SellReplyLost(p, q, allowance)
  \/ SellAnswered(p, q, allowance, armHachi)

-----------------------------------------------------------------------------
(* _attempt_exit *)

WantedUncapped(p) == \* mutant: a chunk is not capped by what is left of the drip
  IF p.drip
  THEN {Part(p.remaining, pct) : pct \in ChunkPcts} \cup {Smaller(p.pendingQty, p.remaining)}
  ELSE {Smaller(p.pendingQty, p.remaining)}

\* select_drip_chunk: a share of the remaining quantity, never above the drip
\* target; without a usable quote the whole pending quantity is asked for.
Wanted(p) ==
  IF p.drip
  THEN LET cap == IF p.dripLeft > 0 THEN Smaller(p.remaining, p.dripLeft) ELSE p.remaining
       IN  {Smaller(Part(p.remaining, pct), cap) : pct \in ChunkPcts}
             \cup {Smaller(p.pendingQty, p.remaining)}
  ELSE {Smaller(p.pendingQty, p.remaining)}

\* The wallet read caps the request; a drip keeps its total in pendingQty.
Adjusted(p, q) == IF p.drip THEN p ELSE [p EXCEPT !.pendingQty = q]

MissingQty(p, allowance) ==
  /\ p.pendingQty = 0
  /\ pos' = [ClearDrip(p) EXCEPT !.status = "EXIT_BLOCKED"]
  /\ NoSwap(allowance)

ChunkNotDue(p, allowance) ==
  /\ p.pendingQty > 0
  /\ p.drip /\ p.chunkWaiting
  /\ pos' = p
  /\ NoSwap(allowance)

SubmitSell(p, allowance, armHachi) ==
  /\ p.pendingQty > 0
  /\ ~(p.drip /\ p.chunkWaiting)
  /\ \E want \in Wanted(p), read \in Reads(wallet) :
       LET short == read # NoRead /\ read < want
           q == IF short THEN read ELSE want
           p1 == IF short THEN Adjusted(p, q) ELSE p
       IN  IF q = 0
           THEN pos' = ReconcileExit(p1) /\ NoSwap(allowance)
           ELSE Sell(p1, q, allowance, armHachi)

AttemptExit(p, allowance, armHachi) ==
  \/ MissingQty(p, allowance)
  \/ ChunkNotDue(p, allowance)
  \/ SubmitSell(p, allowance, armHachi)

\* _start_exit, reached from OPEN, PARTIAL and an unconfirmed entry only.
StartExit(p, qty, reason, armHachi) ==
  LET q == Smaller(Larger(1, qty), p.remaining)
      hard == reason = "hard"
      p1 == IF hard THEN [p EXCEPT !.chunkWaiting = FALSE] ELSE p
      p2 == IF mode.sell = "drip" /\ reason = "take_profit"
            THEN [p1 EXCEPT !.drip = TRUE, !.dripLeft = q, !.chunkWaiting = FALSE]
            ELSE p1
  IN  AttemptExit([p2 EXCEPT !.status = "EXIT_PENDING", !.reason = reason,
                             !.pendingQty = q], q, armHachi)

-----------------------------------------------------------------------------
(* One visit of the position by _mark_positions, chosen by its status.      *)

Visit == phase = "mark" /\ phase' = "save" /\ UNCHANGED <<disk, signal, mode, crashes>>

MarkBlockedAlways == \* mutant: the reason of the block is not checked
  /\ Visit
  /\ pos.status = "EXIT_BLOCKED"
  /\ IF ~pos.waiting THEN AttemptExit(pos, plan, FALSE)
                     ELSE UNCHANGED <<pos, wallet, plan>>

\* A position in EXIT_BLOCKED is tried again only for a threshold failure.
MarkBlocked ==
  /\ Visit
  /\ pos.status = "EXIT_BLOCKED"
  /\ IF pos.reason = "threshold" /\ ~pos.waiting
     THEN AttemptExit(pos, plan, FALSE)
     ELSE UNCHANGED <<pos, wallet, plan>>

MarkExhausted ==
  /\ Visit
  /\ Exiting(pos)
  /\ pos.retries >= RetryMax
  /\ pos' = [pos EXCEPT !.status = "EXIT_BLOCKED", !.reason = "none", !.pendingQty = 0]
  /\ UNCHANGED <<wallet, plan>>

MarkPendingOnceMore == \* mutant: one retry more than MAX_EXIT_RETRIES
  /\ Visit
  /\ Exiting(pos)
  /\ pos.retries <= RetryMax
  /\ IF pos.waiting THEN UNCHANGED <<pos, wallet, plan>>
                    ELSE AttemptExit(pos, plan, FALSE)

MarkPending ==
  /\ Visit
  /\ Exiting(pos)
  /\ pos.retries < RetryMax
  /\ IF pos.waiting THEN UNCHANGED <<pos, wallet, plan>>
                    ELSE AttemptExit(pos, plan, FALSE)

\* _retry_entry_settlement_reconciliation, then the time stop.
MarkUnconfirmedEntry ==
  /\ Visit
  /\ pos.status = "RECONCILE_PENDING" /\ pos.context = "entry"
  /\ \E read \in Reads(wallet) :
       IF read > 0
       THEN /\ pos' = [pos EXCEPT !.remaining = read, !.status = "OPEN", !.context = "none"]
            /\ UNCHANGED <<wallet, plan>>
       ELSE IF signal = "hard"
       THEN StartExit(pos, pos.remaining, "hard", FALSE)
       ELSE UNCHANGED <<pos, wallet, plan>>

Evaluated == pos.status \in {"OPEN", "PARTIAL"}

\* Liquidity break, JSDS, stop loss, trailing stop, time stop, Hachi override.
MarkHardExit ==
  /\ Visit
  /\ Evaluated
  /\ signal = "hard"
  /\ StartExit(pos, pos.remaining, "hard", FALSE)

\* A soft liquidity break (_evaluate_jsds_liquidity) sells half, as a hard exit.
MarkSoftExit ==
  /\ Visit
  /\ Evaluated
  /\ signal = "soft"
  /\ StartExit(pos, Part(pos.remaining, 50), "hard", FALSE)

\* The take-profit ladder: the step is done whatever becomes of its sale.
MarkTakeProfit ==
  /\ Visit
  /\ Evaluated
  /\ signal = "harvest" /\ mode.sell # "hachi"
  /\ pos.tpDone < TpSteps
  /\ StartExit([pos EXCEPT !.tpDone = @ + 1], Part(pos.remaining, TpPct), "take_profit", FALSE)

\* The Hachi dripper: one chunk when its timing gate is open.
MarkHachi ==
  /\ Visit
  /\ Evaluated
  /\ signal = "harvest" /\ mode.sell = "hachi"
  /\ pos.remaining > 0 /\ ~pos.chunkWaiting
  /\ \E pct \in ChunkPcts :
       StartExit(pos, Part(pos.remaining, pct), "hachi_dripper", TRUE)

NothingToDo ==
  \/ pos.status = "CLOSED"
  \/ Evaluated /\ signal = "none"
  \/ Evaluated /\ signal = "harvest" /\ mode.sell # "hachi" /\ pos.tpDone = TpSteps
  \/ Evaluated /\ signal = "harvest" /\ mode.sell = "hachi"
       /\ (pos.remaining = 0 \/ pos.chunkWaiting)

MarkIdle ==
  /\ Visit
  /\ NothingToDo
  /\ UNCHANGED <<pos, wallet, plan>>

-----------------------------------------------------------------------------
(* The cycle, the save, crashes and the restart.                            *)

\* A new cycle: time has passed, so timers may have expired.
BeginCycle(expired) ==
  /\ phase = "idle"
  /\ phase' = "mark"
  /\ signal' \in Signals
  /\ pos' = IF expired THEN [pos EXCEPT !.waiting = FALSE, !.chunkWaiting = FALSE] ELSE pos
  /\ UNCHANGED <<disk, wallet, plan, mode, crashes>>

\* _persist_cycle: state.json is replaced atomically.
Persist ==
  /\ phase = "save"
  /\ disk' = pos
  /\ phase' = "idle"
  /\ signal' = "none"
  /\ UNCHANGED <<pos, wallet, plan, mode, crashes>>

Crash ==
  /\ phase # "down"
  /\ crashes < MaxCrashes
  /\ crashes' = crashes + 1
  /\ phase' = "down"
  /\ pos' = disk
  /\ signal' = "none"
  /\ UNCHANGED <<disk, wallet, plan, mode>>

RecoveredFromNoRead(p, read, txFailed) == \* mutant: a failed read is taken for an empty wallet
  IF read = NoRead /\ p.status # "CLOSED"
  THEN [p EXCEPT !.remaining = 0, !.status = "EXIT_BLOCKED"]
  ELSE p

RecoveredUncapped(p, read, txFailed) == \* mutant: closed without correcting the quantity
  IF read = 0 /\ p.status = "EXIT_PENDING"
  THEN [p EXCEPT !.status = "CLOSED", !.pendingQty = 0, !.reason = "none",
                 !.signature = "none"]
  ELSE p

\* run_startup_recovery for this position, given a wallet read and whether the
\* pending signature is reported as failed.
Recovered(p, read, txFailed) ==
  LET capped == [p EXCEPT !.remaining = Smaller(@, read)]
  IN  IF read = NoRead \/ p.status = "CLOSED" THEN p
      ELSE IF read = 0
      THEN CASE p.status = "EXIT_PENDING" ->
                  [capped EXCEPT !.status = "CLOSED", !.pendingQty = 0,
                                 !.reason = "none", !.signature = "none"]
             [] p.status = "RECONCILE_PENDING" -> capped
             [] OTHER -> [capped EXCEPT !.status = "EXIT_BLOCKED"]
      ELSE IF Exiting(p) /\ txFailed
      THEN [capped EXCEPT !.status = "EXIT_BLOCKED", !.context = "none"]
      ELSE IF Exiting(p) /\ read < p.remaining
      THEN [capped EXCEPT !.status = "PARTIAL", !.context = "none"]
      ELSE capped

\* load_portfolio and the recovery, under the settings of the new process; the result
\* is saved when the recovery made a decision.
Restart ==
  /\ phase = "down"
  /\ \E read \in RecoveryReads(wallet), txFailed \in BOOLEAN :
       /\ txFailed => disk.signature = "dropped"
       /\ pos' = Recovered(disk, read, txFailed)
  /\ mode' \in Modes
  /\ phase' = IF pos' = disk THEN "idle" ELSE "save"
  /\ UNCHANGED <<disk, wallet, plan, signal, crashes>>

-----------------------------------------------------------------------------

NewPosition(kind) ==
  [ status |-> IF kind = "unconfirmed" THEN "RECONCILE_PENDING" ELSE "OPEN",
    context |-> IF kind = "unconfirmed" THEN "entry" ELSE "none",
    remaining |-> Qty, realized |-> 0, pendingQty |-> 0, reason |-> "none",
    signature |-> "none", retries |-> 0, waiting |-> FALSE, drip |-> FALSE,
    dripLeft |-> 0, chunkWaiting |-> FALSE, tpDone |-> 0 ]

\* The entry has been saved.  What a buy books comes from Jupiter's answer, the order or
\* the quote, and a wallet that shows something else is only logged; entries of fewer
\* tokens than landed are left out.
Init ==
  /\ \E kind \in EntryKinds :
       /\ pos = NewPosition(kind)
       /\ wallet \in CASE kind = "confirmed" -> {Qty}
                      [] kind = "short" -> 1..(Qty - 1)
                      [] kind = "unlanded" -> {0}
                      [] kind = "unconfirmed" -> 0..Qty
  /\ disk = pos
  /\ plan = Qty
  /\ mode \in Modes
  /\ signal = "none"
  /\ phase = "idle"
  /\ crashes = 0

Mark ==
  \/ MarkBlocked
  \/ MarkExhausted
  \/ MarkPending
  \/ MarkUnconfirmedEntry
  \/ MarkHardExit
  \/ MarkSoftExit
  \/ MarkTakeProfit
  \/ MarkHachi
  \/ MarkIdle

Next ==
  \/ \E expired \in BOOLEAN : BeginCycle(expired)
  \/ Mark
  \/ Persist
  \/ Crash
  \/ Restart

Spec == Init /\ [][Next]_vars

\* The loop never stops by itself, an operator restarts it after a crash, and a
\* retry time that has been set is reached by some later cycle.
Fairness ==
  /\ SF_vars(BeginCycle(TRUE))
  /\ WF_vars(Mark)
  /\ WF_vars(Persist)
  /\ WF_vars(Restart)

FairSpec == Spec /\ Fairness
-----------------------------------------------------------------------------
(* Properties *)

TypeOK ==
  /\ pos \in Position
  /\ disk \in Position
  /\ wallet \in 0..Qty
  /\ plan \in Int
  /\ signal \in Signals
  /\ phase \in {"idle", "mark", "save", "down"}
  /\ mode \in Modes
  /\ crashes \in 0..MaxCrashes

\* The process, and the state file it would restart from, never believe in fewer
\* tokens than the wallet holds: no sale is booked that did not happen, across
\* lost answers, retries, crashes and recovery (_attempt_exit, run_startup_recovery).
BookCoversWallet == pos.remaining >= wallet /\ disk.remaining >= wallet

\* A position that is closed (and forgotten: it leaves open_positions) holds nothing.
ClosedMeansEmpty == pos.status = "CLOSED" => wallet = 0

\* SOL is credited only for tokens that left the wallet, and only once for each.
PaidOnlyForSold == pos.realized <= Qty - wallet /\ disk.realized <= Qty - wallet

\* One exit signal never sells more than the quantity it was started for, over all
\* the chunks, retries and restarts it takes.
NeverOverSell == plan >= 0

\* Until a crash, drip state never outlives the exit that started it (a later hard exit
\* would sell in chunks), and what is pending is exactly what is left of the drip, which
\* the position still has (_attempt_exit, the drip lifecycle).  A crash in the middle of a
\* drip breaks it: the recovery takes the exit back, or corrects the quantity of the
\* position, and leaves the drip as the state file had it.
DripPlanConsistent ==
  crashes = 0 /\ pos.drip =>
    /\ pos.status = "EXIT_PENDING"
    /\ pos.pendingQty = pos.dripLeft /\ pos.dripLeft \in 1..pos.remaining

\* Without crashes and without lost answers the books are exact: each token is either
\* still held or paid for.
ExactBooks == pos.remaining = wallet /\ pos.realized = Qty - wallet

\* Until a crash, an exit is tried without success at most RetryMax times, in whatever
\* order its attempts fail.  Threshold failures are exempt, by design: they are retried
\* in every cycle, and a failure of another kind then counts without a limit.  After a
\* crash the count of an exit that the recovery took back stays for the next one.
RetriesBounded ==
  [][ crashes' = 0 /\ pos'.retries > RetryMax =>
        pos.retries > RetryMax \/ pos.reason = "threshold" ]_vars

\* Every exit that was signalled comes to an end, sold or blocked, although answers are
\* lost, reads fail and the process crashes and is restarted - unless it is left in dry
\* run, where an exit waits for ever.
ExitResolves == <>[](mode.live) => (Exiting(pos) ~> ~Exiting(pos))

\* A process in dry-run, or with live trading off, changes neither the wallet nor what
\* is booked as paid, also when it found a live exit half done in the state file.
DryRunSellsNothing ==
  [][ phase # "down" /\ ~mode.live => wallet' = wallet /\ pos'.realized = pos.realized ]_vars

\* The part of the position that the rest of the trader sees.
Slot(p) ==
  CASE p.status = "CLOSED" -> "none"
    [] p.status \in {"OPEN", "PARTIAL"} -> "open"
    [] Exiting(p) -> "exiting"
    [] p.status = "EXIT_BLOCKED" /\ p.reason = "threshold" -> "threshold"
    [] p.status = "EXIT_BLOCKED" /\ p.reason # "threshold" -> "blocked"
    [] OTHER -> "unconfirmed"

\* A visit and a recovery move the position between slots only as TradingCycle and ExitRules
\* assume: a blocked position stays blocked, a closed one never comes back by itself, and
\* an open one moves only at the rules' request.
FollowsSlots ==
  [][ /\ Mark => Slot(pos') \in SignalMoves(Slot(pos), signal)
      /\ Restart => Slot(pos') \in RecoveryMoves(Slot(pos)) ]_vars

\* The exit machinery implements the abstract ledger.
Books(p) == [qty |-> p.remaining, paid |-> p.realized, closed |-> p.status = "CLOSED"]
Ledger == INSTANCE ExitLedger WITH held <- wallet, book <- Books(pos), saved <- Books(disk)
ImplementsLedger == Ledger!Spec

-----------------------------------------------------------------------------
(* What the repository says of the exits, and the code does not do.          *)

\* trader.py, _is_drip_eligible: "Only take-profit exits use drip by default; stop-loss
\* / time-stop / trailing-stop / liquidity exits are hard exits".  The visit that starts
\* a hard exit leaves no drip behind.
HardExitNotChunked ==
  [][ MarkHardExit => ~pos'.drip ]_vars
=============================================================================
