# creeper-dripper in TLA+

creeper-dripper is a Solana momentum trader: one process that, once per poll
interval, discovers tokens (Birdeye), buys a few of them (Jupiter Swap), watches
the positions it holds, and sells them by rules. Its state is a JSON file. This
directory models what that process does to positions and to money: which rule
decides to sell, how an exit runs through retries, lost answers, chunked sells,
crashes and recovery, what one swap call does request by request, how the poll
loop keeps its limits and its schedule, how it puts on disk what it did, and how
old the data is that entries run on. TLC checks the models on small instances,
TLAPS proves the main theorems for every value of the constants.

Source references have the form `trader.py:1050`; the paths are
`creeper_dripper/engine/trader.py`, `creeper_dripper/execution/executor.py`,
`creeper_dripper/execution/drip_chunker.py`, `creeper_dripper/storage/state.py`,
`creeper_dripper/storage/recovery.py`, `creeper_dripper/engine/discovery.py`,
`creeper_dripper/cache.py`, `creeper_dripper/engine/hachi_brain.py`,
`creeper_dripper/engine/position_pricing.py`, `creeper_dripper/clients/jupiter.py`,
`creeper_dripper/utils.py` and `creeper_dripper/cli/main.py`. PROJECT.json
maps every definition to the lines it models.

## Inventory

The program is single-threaded. Its interleavings are those of one process with
the chain, the RPC node, Jupiter's HTTP API, the clock, and its own crashes.

| Component | State it keeps | Operations | What makes it correct |
|---|---|---|---|
| Position exits (`trader.py`, `_mark_positions`, `_evaluate_exit_rules`, `_start_exit`, `_attempt_exit`, `_retry_*`; `executor.py`, `sell`, `_settle_sell_after_execute`; `drip_chunker.py`) | one `PositionState` per mint: status, remaining quantity, realized SOL, pending exit (quantity, reason, signature), retry count and due time, drip plan, take-profit steps done | visit of an open, pending, blocked or unconfirmed position; sell with six results; chunk; retry; give up | tokens are neither booked as sold when they were not, nor forgotten; SOL is credited once; an exit ends; an exit sells no more than it was started for |
| Startup recovery (`recovery.py`) | none of its own | per position: read the wallet, look up the pending signature, correct, close, block | never closes a position that holds tokens; closes with a cooldown |
| Poll loop and portfolio (`trader.py`, `run_cycle`, `_maybe_open_positions`, `_evaluate_safety`, `_persist_cycle`; `main.py`, `cmd_run`) | `PortfolioState`: cash, realized total, open positions, cooldowns, the day's count, failures in a row, safety stop | day rollover, rails, entries, visits, save | book limit, daily limit, cash reserve, loss cap, failure latch, cooldown |
| Swap call (`executor.py`, `buy` and `sell`; `jupiter.py`, `_get` and `_post`) | none between calls | quote, order, wallet read, sign, `/execute`, settlement; GETs are retried, the POST is not | one call swaps at most once and always returns; what it reports as refused never happens; what the wallet confirms is real; dry run spends nothing |
| Run loop and persistence (`main.py`, `cmd_run`; `_persist_cycle`; `state.py`, `utils.py`) | `STOP`, the schedule, the cycle count; `state.json`, `journal.jsonl`, `status.json` | load, recovery, cycle, sleep, signal, summary; atomic replace, append, archive of an unreadable file | a crash leaves the last complete save and costs at most one cycle; journal and state agree; a signal ends the run in order; cycles keep their schedule |
| Discovery and caches (`discovery.py`, `cache.py`, `_discover_with_cadence`) | candidate and route caches, the last discovery and its summary | seeds, prefilter, build, probe, score; cadence | candidates are recent; the timestamp is that of real data; stale data stops entries |
| Exit rules (`trader.py`, `hachi_brain.py`, `position_pricing.py`) | marks, peak and previous mark, quote miss streak, route data, take-profit steps done | valuation, then rules in a fixed order, then ladder or Hachi | no rule, wait or suppression hides a danger; an unconfirmed entry is not held for ever |
| Scoring, Birdeye client, configuration, wallet, CLI output, snapshot monitor | no state over time | computation and I/O | - |

Interactions: `run_cycle` calls discovery, the rails, `_maybe_open_positions` and then
`_mark_positions`; both loops call the executor, which calls Jupiter and reads
balances from the RPC node; `_persist_cycle` replaces `state.json` once, at the end of
the cycle, so everything a cycle did on chain is unsaved until then. `cmd_run` loads
the file and runs the recovery before the first cycle. The two loops share the
portfolio: cash, the book, and the failure count, which `_evaluate_safety` reads only
at the start of the next cycle.

What is hard in it: an answer from `/execute` may be lost although the swap landed, or
arrive for a swap that never lands; wallet reads fail, lag, or (an RPC error body) read
as zero; the process may die between a swap and the save; the drip plan, the pending
quantity and the remaining quantity are updated separately in many branches; the retry
count is incremented, kept or reset in different branches; limits are tested once and
consumed in a loop. The list with its lines is under "hazards" in PROJECT.json.

## Modules

| Module | What it is |
|---|---|
| `ExitSlots` | What the rest of the trader sees of a position, and the moves a visit (with and without knowing what the rules ask for) and a recovery may make. Shared by three models. |
| `PositionExit` | One position from its entry until it is closed: the whole exit machinery, the save, crashes and the recovery. |
| `ExitLedger` | Abstract specification of `PositionExit`: tokens held, books of the process, saved books; a sale is booked at most once and only if it happened. |
| `TradingCycle` | The poll loop over the portfolio. A position is reduced to its slot; its visits make the moves of `ExitSlots`. |
| `DiscoveryGate` | Where the candidates of a cycle come from: cadence, seeds, candidate cache, builds, probes, failures, and the stale-data rail. |
| `ExitRules` | Which rule decides to sell: valuation, JSDS, the ordered rules, ladder and Hachi, over several positions and many cycles. |
| `SwapCall` | One `executor.buy` or `executor.sell`, request by request, and the swap on its way. |
| `SwapPromise` | Abstract specification of `SwapCall`: what its callers may believe. |
| `RunLoop` | The process around the cycle: start, schedule, signals, saves, journals, crashes. |
| `MCPositionExit`, `MCTradingCycle`, `MCDiscoveryGate`, `MCExitRules`, `MCSwapCall`, `MCRunLoop` | Fault sets, modes, quotes and symmetry for TLC. |
| `PositionExitProofs`, `ExitPlanProofs`, `TradingCycleProofs`, `DiscoveryGateProofs`, `ExitRulesProofs`, `SwapCallProofs`, `RunLoopProofs` | Theorems and proofs. |

How the models fit together. `PositionExit` is shown (run ExitCrash, theorem
`SlotsFollowed`) to move a position between slots only as `SignalMoves` and
`RecoveryMoves` of `ExitSlots` allow, and `TradingCycle` and `ExitRules` let each visit
choose among those moves, so the exit is modelled once. That they keep to them is proved
too: `CycleKeepsToSlots` of the cycle, `RulesKeepToSlots` of the rules. `ExitRules` says
which exit a visit asks for, which `PositionExit` leaves open: `Asks` of
`ExitRulesProofs` gives each decision of the one the `signal` it is to the other, and
`RulesAllowEveryEnd` says that `ExitRules` leaves out no end `PositionExit` allows for
that signal. `TradingCycle` knows no signals and uses `VisitMoves`, which allows what
any of them allows. `SwapCall` implements `SwapPromise` (theorem `CallKeepsPromise`),
whose outcomes are the results of `Sell` in `PositionExit` and of the buys in
`TradingCycle`: refused (`SellRefused`, `SellThreshold`, `BuyFailed`), lost
(`SellReplyLost`, and `SellRefused` if the swap never lands), skipped (`SellSkipped`,
`BuySkipped`), success and unknown (`SellAnswered`, `BuySettled`, `BuyUnsettled`).
`DiscoveryGate` hands a cycle what `BeginCycle` of `TradingCycle` leaves open:
candidates, and whether the rail is closed. `RunLoop` takes a whole cycle as one pass of
decisions; what is in a decision is `TradingCycle`'s.

### PositionExit

`pos` is the `PositionState` in memory, `disk` the one in the file, `wallet` the tokens
really held, `plan` a history variable (what the current exit may still sell).
Quantities are atomic token units; selling `n` tokens pays `n` units of SOL, so that
proceeds and tokens can be compared. A due time is one bit, `waiting` for
`next_exit_retry_at` and `chunkWaiting` for `drip_next_chunk_at`, cleared by a
`BeginCycle` that finds it expired.

An entry (`AllEntryKinds`) is confirmed, or confirmed with fewer tokens in the wallet than
were booked, or booked and never landed, or unconfirmed with any balance: a buy is booked
on the amount of the reply, the order or the quote, and a wallet that disagrees is only
logged (`executor.py:550-563`). A buy that booked fewer tokens than landed is left out:
what the wallet then holds beyond the book is outside every property of the exits.

| Code | Model |
|---|---|
| `_mark_positions`, the status switch (269-347) | the actions of `Mark`, one per branch |
| `_retry_pending_exit` (1031-1040) | `MarkExhausted`, `MarkPending` |
| `_retry_blocked_exit_if_due` (1042-1048) | `MarkBlocked` |
| `_retry_entry_settlement_reconciliation` (992-1029) and the time stop after it | `MarkUnconfirmedEntry` |
| `_evaluate_exit_rules` (461-642), `_evaluate_jsds_liquidity` (349-459), `_run_hachi_dripper` (644-929) | `MarkHardExit`, `MarkSoftExit`, `MarkTakeProfit`, `MarkHachi`, `MarkIdle`: what fires is the cycle's `signal`, and `ExitRules` says when |
| `_start_exit` (931-990) | `StartExit` |
| `_attempt_exit` (1050-1372) | `AttemptExit`: missing quantity, chunk not due, request and wallet cap, zero balance, and `Sell` with its results |
| `executor.sell` (245-418), `sign_and_execute_v2` (747-774) | `SellRefused`, `SellThreshold`, `SellSkipped`, `SellReplyLost`, `SellAnswered` |
| `_settle_sell_after_execute` (636-683) | `SettlementConfirmed`, on reads from `Reads` and `ReadsAfterSale` |
| `select_drip_chunk` | `Wanted`: any configured chunk, capped, or the whole pending quantity when no chunk quotes |
| `_persist_cycle`, `run_startup_recovery` | `Persist`, `Crash`, `Restart` with `Recovered` |

The fault kinds of `Faults` name what the environment may do. A restart picks new
settings from `Modes`, because settings are read from the environment at process
start; an operator may restart a live trader dry. `RetryCap` stands for every retry
count above `MAX_EXIT_RETRIES`: the count is compared with that constant only.

A crash is an action between any two steps. A sale and its bookkeeping are one step in
the model; a crash between them is a crash just after the step, since memory is lost
and `disk` is unchanged either way.

### TradingCycle

`pf` is the `PortfolioState`, `saved` the file, `sol` the SOL really in the wallet.
`BeginCycle` is the day rollover, the discovery (any set of candidates, data possibly
stale), `_evaluate_safety` and the two early returns of `_maybe_open_positions`. Then
one action per candidate and result (`PassOver`, `BuySkipped`, `BuyFailed`,
`BuySettled`, `BuyUnsettled`), then one per position and result
(`VisitWithoutSale`, `SellFailed`, `SellPart`, `SellRest`, `SellUnpaid`), then
`Persist`. `Restart` loads the file, or starts a new portfolio when the file cannot be
read (it is archived), and applies the recovery to every position.

The loops visit mints in any order: dictionaries keep insertion order, which the model
does not track. Every buy spends `Size`; a sale pays a member of `Proceeds`; the SOL of
network fees is left out. `closed` and `lost` are history variables for two properties.

`BuyUnsettled` cannot happen with the executor as it is (`BuyAlwaysSettles` of
`SwapCall`), but the trader handles it and older state files hold such positions, so it
is a fault kind of its own. The check of missing decimals after a buy
(`trader.py:1595`) is unreachable, since discovery rejects candidates without decimals
(`discovery.py:161`), and is left out.

### DiscoveryGate

Every value the caches and the summary carry is reduced to its time. `time` is the
clock, `start` the time the cycle began (`now` in `run_cycle`), `cache` the candidate
cache with the anchor its TTL counts from, the time the data was made and whether it has
a timestamp, `last` the three `_last_discovery_*` fields, `offer` what the rest of the
cycle goes by. `fetched` and `last.data` are history, for the properties.

| Code | Model |
|---|---|
| `_discover_with_cadence` (200-223) | `BeginCached`, `BeginDiscovery`, and `last'` in `EndDiscovery` |
| `discover_candidates` (`discovery.py:66-434`) | `BeginDiscovery` (seeds and prefilter: any set, the empty one only when something failed), `BuildFromCache`, `Fetch`, `FetchFails`, `EndBuild`, `Probe`, `EndDiscovery` |
| the exception path of `run_cycle` (160-163), `_failed_discovery_summary` (225-255) | `Abort` |
| the fallback timestamp (164-170) | `Checked` |
| `TTLCache.get`, `set`, `touch_keys` | `Cached`, `Fetch`, `Touched` |
| the stale rail of `_evaluate_safety` (1745-1756) | `Stale` |

The clock ticks between any two steps, also inside a discovery, which may take minutes.
Which tokens pass the filters and the probes is open.

### ExitRules

`book` is `open_positions` in the order of its dictionary, `cursor` the position visited
last, so that JSDS sees what it sees in the code: streaks already updated in this cycle
for the positions before the cursor, old ones after it, and sold positions gone. Prices
are per token, in percent of the price at entry; route data is the impact as a multiple
of that at entry and the hops beyond it. Age is one bit.

| Code | Model |
|---|---|
| valuation in `_mark_positions` (284-326), `resolve_position_valuation` | `Valuations`: `Valued` by any quote, or `Missed` |
| `_evaluate_jsds_liquidity` (349-459) | `Suppressed`, `HardBreak`, `SoftBreak` |
| `_evaluate_exit_rules` (461-618) | `FirstRule` over `Order`, then `Hachi` or `Ladder` in `Decisions` |
| `classify_pnl_zone`, `classify_momentum`, `_URGENCY_TABLE` (`hachi_brain.py:54-130`) | `Spared`, `Deteriorated`, `Emergency` (the zones in the order of their tests), `Collapsing`, `Hachi`; the urgencies short of a full exit only choose the chunk, which is open (`Drip`) |
| unconfirmed entries (332-346, 992-1029) | `Unconfirmed`, `Confirmed` |
| what the exit then does | any move of `ExitSlots` (`Sold`, `Retried`) |

### SwapCall

`pc` is the request the call is at, `attempt` its failed attempts, `flight` and `moved`
what the chain does in its own time: a swap may land while `/execute` is waited for,
during the settlement, or after the call has returned. `quote`, `order` and `reply` are
the amounts named at each stage, which settlement prefers in reverse order. The reads
may fail or return an error body that counts as zero; `misread` remembers the latter.
The model is of one call; calls of one process never overlap.

| Code | Model |
|---|---|
| `JupiterClient._get` (`jupiter.py:53-75`) | `RequestRetried`, `RequestGivenUp`, `RequestRefused` |
| `buy` (`executor.py:100-243`), `sell` (245-418) | `QuoteAnswered` with the mode gate, `OrderAnswered`, `PreRead`, `Return` |
| `sign_and_execute_v2` (747-774), `_post` (`jupiter.py:77-88`) | `NotSigned`, `Execute`, `ExecuteAnswered`, `ExecuteFailed` |
| `_settle_buy_after_execute` (492-571), `_settle_sell_after_execute` (573-683) | `Settle`, `SettleBuy`, `SettleSell`, `Contradicted` |

### RunLoop

A decision is a number, a portfolio the set of decisions it contains. `fresh` is the
pass that runs (a cycle, or the recovery before the first), `file` what `state.json`
contains, `journal`, `runlog` and `status` what the other files tell. The save is three
steps (`BeginSave`, `Replace`, or a failure in between), the journals are written line
by line, and the process may die between any two. `wiped` and `cut` are history: what a
damaged file lost, and the passes that died between the state and the journal.

| Code | Model |
|---|---|
| `cmd_run` up to the loop (`main.py:201-288`) | `Start`, `Load`, `Recover`, `Install` |
| the loop (289-459) | `BeginCycle`, `Cycle`, `SleepOrStop`, `Wake`, `LeaveLoop` |
| `_handle_sigint` (89-91) | `Signal`, at any step once the handlers are installed |
| `_persist_cycle` (`trader.py:1666-1731`) | `BeginSave`, `Replace`, `SaveFails`, `AppendToJournal`, `AppendToRun`, `AppendFails`, `JournalDone`, `Status` |
| `load_portfolio` (`state.py:126-165`), also from `status`, `doctor`, `scan` and `quote` | `Load`, `OperatorLoads` |

`Kill` is the death of the process: SIGKILL, an error nobody catches, or a signal before
the handlers are installed. It is not a power failure: nothing calls `fsync`, so after one
the file system decides what is left.

## Runs

| Run | Question | Bounds |
|---|---|---|
| ExitCrash | With a drip or a dry run, all faults of `HonestFaults`, every kind of entry and one crash anywhere: do the books cover the wallet, is a closed position empty, is SOL credited once, does a drip keep to its plan and end with its exit, is dry run dry, are the retries bounded, is the abstract ledger implemented, are the slots followed, does every exit end? | 5 tokens, 2 retries, chunks of 25% and 50%, two take-profit steps of 60%, wallets of 0 to 5 tokens after the entry |
| ExitExact | With no lost answers, no wrong reads and no crash, in every way of selling: are the books equal to the chain after every step, and does an exit sell at most what it was started for? | 16 tokens, 5 retries (the real limit), all three ways of selling |
| CycleLimits | Are the book limit, the reserve, dry run, the failure latch and the cooldowns kept under every fault, and how far past its limit can one pass of the entry loop take the failure count? | 2 mints, book of 1, four cycles, one crash |
| CycleCash | Without faults that lose money: is the cash exact, how far does the daily limit overshoot, where do losses stop? | 3 mints, book of 2, daily limit 1, three cycles, a day change |
| ExitRules | Does a visit that holds, or sells only a part, ever pass over a danger, and does the time stop reach unconfirmed entries? | 2 positions, 3 quotes, a late settlement, both sellers, streak limits 1 and 2 |
| SwapCall | Does a call swap at most once, return, tell the truth when it has read the wallet, settle every buy, and keep the promise its callers rely on? | the real attempts (3; reads 2, 6 and 3), wallets with less, as much and more than the sale |
| RunLoop | Are saves atomic, do journal and state agree, does a run end in order, keep its schedule, and end at all? | 2 starts, 4 decisions in passes of up to 2, cycles shorter and longer than the interval, runs of 1, 2 and any number of cycles |
| DiscoveryAges | Whatever fails, and however long a discovery takes: is the timestamp that of data really fetched, are the candidates recent, and do entries run only when at least one token was known by fresh data? | 2 tokens, TTL 1, interval 2, limit 2, one probe, 6 ticks |
| ExitStaleDrip, ExitOversellLag, CycleLossCap, DiscoveryOutage | Four statements of the repository that the code does not keep, see below | smallest that shows it |

The bounds are chosen so that the interesting cases exist: 5 tokens, steps of 60% and two
chunk sizes give drips of three chunks, chunks capped by the plan, chunks of one token and
the quote fallback; 16 tokens is where the settlement tolerance (2%, at least one token)
separates a missing sale from a rounding difference for chunks of two tokens and more;
one crash suffices for everything that a crash disturbs, because the state after a
restart is again a state of a process whose memory equals its file. Three mints and a
book of two let the loop fill the book and turn one away; two mints and a book of one do
so with crashes and all faults. `MaxTime` is the bound on cycles; it stands for
`run --cycles N` (`main.py:455`), the only way the real loop ends by itself, and is why
the TradingCycle runs do not check deadlock. The PositionExit runs do: the exit
machinery can always take a step. Mints are symmetric.

ExitRules has two positions because suppression needs two (`DangerSoldInFull` breaks if it
is computed from the streaks of before the visit); its quotes are one beyond
every threshold and one between, and the streak limits (3 and 5 in the code) are scaled
down to 1 and 2, which keeps their order. There is no bound on its cycles: the state
space is finite. In SwapCall the amounts that quote, order and reply name agree and
disagree with the sale by more than the tolerance; a call ends, so deadlock is not
checked. In RunLoop passes of two decisions let a crash fall between two lines of a
journal, a cycle of 5 overruns the interval of 2 so that several late ones follow, and a
second start loads what the first has left. The bounds on its clock and starts are why
deadlock is not checked.

In DiscoveryAges the interval is longer than the TTL, but time also passes inside a
discovery, so that an entry of the cache may have expired at the next discovery or have
been kept alive by the touch at the end of the last one; 6 ticks hold three discoveries
with time passing inside them. Two tokens are enough for the first timestamp to hide the
age of the other. The bound on its clock is why deadlock is not checked.

`RetriesBounded` exempts exits that a threshold failure keeps alive: those are retried in
every cycle and without a limit, by design (`trader.py:1047`), and other failures that
follow let the count pass the limit. It holds until a crash only: an exit that the
recovery takes back leaves its count to the next one.

ExitOversellLag and ExitExact check the same property with and without lagging reads;
`ExitsKeepToTheirPlan` says under which faults it holds.

### Fairness

ExitCrash uses `FairSpec`, for `ExitResolves`. The loop of `cmd_run` never ends by
itself and each cycle runs to its save, so visits and saves are weakly fair. A restart
after a crash is weakly fair because a supervisor or an operator starts the process
again, and `MaxCrashes` bounds the crashes. A retry time is at most a bounded delay in
the future, and cycles go on, so cycles that find it expired come again and again:
`BeginCycle(TRUE)` is strongly fair. Nothing is assumed of Jupiter, of the RPC node, or
of the market: under the fairness assumed, every sale may fail for ever, and the exit
ends because the retries do. `ExitResolves` asks for it only of behaviours that are left
in live mode: a dry run skips pending exits for ever.

SwapCall: the process is weakly fair, because every HTTP request has a timeout
(`jupiter.py:57,82`, 20 s for the RPC) and every loop a count. The chain is not fair: a
swap may stay in flight for ever.

RunLoop: the process is weakly fair, because the calls a cycle makes all return and
`time.sleep` ends. Starts, signals, kills and damage are not.

## What is proved

All theorems hold for every quantity, retry limit, percentage, set of mints, limit and
amount that satisfies the named assumptions on the constants.

`PositionExitProofs`:

- `TypeCorrect`, `DryRunIsDry`, `SlotsFollowed`: with any faults.
- `DripPlanKept`, `RetriesAreBounded`: with any faults, until a crash (as the
  properties say).
- `BookAlwaysCoversWallet`, `ClosedIsEmpty`, `PaidOnlyOnce`, `LedgerImplemented`: under
  `HonestReads`: the recovery reads no RPC error body as a balance of zero, and if
  answers may come for swaps that never land then wallet reads do neither fail nor err.
  Both are needed. Without the first the recovery closes a position that holds tokens;
  without the second a sale that never happened is booked (`executor.py:656`).

The argument: `GoodPosition` strengthens the type (a position never pays out and holds
more than was bought; an entry that is still unconfirmed was not paid). `Effect` says
what an attempt does to the position and to the chain in one of three ways: nothing,
a sale on chain that is booked, a sale on chain that is not. `SellEffect`,
`AttemptEffect`, `StartEffect` and `MarkEffect` lift this from the sell results to the
whole visit, so the invariants are proved from `Effect` and `RecoveredEffect` and never
look into the handlers again. `SoundInv` adds that books cover the wallet, that what is
paid left the wallet, and that closed means empty, for the memory and for the file.
`FromDisk` (a process that is down holds what the file holds) is needed for the ledger:
a restart is then a `CorrectBook` or a stutter. `OrderlyInv` is the invariant of the
exits before any crash: a position with drip state is pending, has what is left of the
drip pending and still holds it (`DripReady`), and one that is not exiting has no pending
exit.

`ExitPlanProofs`, about the same module:

- `ExitsKeepToTheirPlan`: under `CurrentReads` (a read that comes is current, no crash,
  and no answer is lost where a threshold failure may have left its reason). Failing
  reads, answers for swaps that never land and unknown proceeds are allowed; a lag is not,
  and ExitOversellLag shows that it alone makes an exit sell too much.
- `BooksAreExact`: under `Exactly` (no answer is lost and no read is wrong, proceeds are
  known, entries are confirmed, no crash; if answers may come for swaps that never land,
  reads do not fail). Each fault it excludes makes books and chain differ.
- `BooksWithinEntry`, `EveryStatusHandled`: with any faults and any number of crashes.
- `HardExitsAreWhole`: with any faults, until the first crash. The chunked stop loss of
  ExitStaleDrip therefore needs a crash.
- `TakeProfitsBounded`: with any faults and crashes, a position starts at most `TpSteps`
  take-profit exits, and one more for each crash: a crash before the save forgets that a
  step was done. What an exit sells, with its retries, is not in it (`NeverOverSell`).
- `ExitsConverge`: `Rank` counts the attempts an exit has left, the chunks of a drip
  before the retries. No step lengthens it between a start and a crash, and the visit of
  a live exit that is due lowers it or ends the exit. A skipped sale of a dry run does
  not: that is why `ExitResolves` asks for live mode.

`PlanInv` adds to `OrderlyInv` that what is pending is within `plan`, also for a blocked
exit that a threshold failure keeps alive. `ExactInv` equates books and wallet: an attempt
either changes nothing or sells and books the same number, since `Exactly` leaves one
value to every read that comes. `HandledInv` keeps a context with every
RECONCILE_PENDING, in memory and in the file. `StepsInv` keeps the process at most one
step of the ladder ahead of its file, and only between a visit and the save.

`TradingCycleProofs`:

- `TypeCorrect`, `EntriesAreBounded`, `RailsStopEntries`, `ReserveAlwaysKept`,
  `OvershootIsBounded`, `LossIsBounded`, `DryRunIsDry`, `CycleKeepsToSlots`: with any
  faults, crashes and unreadable files.
- `FailureRailLatches`, `CooldownAlwaysRespected`: with any faults; a new portfolio that
  replaces an unreadable file forgets both, and the properties say so.
- `CashIsExact`: under `Answered` (no answer is lost or untrue, proceeds are known, buys
  are settled, no crash). `CashIsCovered`: under `NothingLost`, which allows unknown
  proceeds and unsettled buys: then the books may believe in less SOL than there is, not
  in more.

The argument: `EntryEffect`, `ExitEffect`, `BeginEffect` and `RestartEffect` say what
the groups of actions change. The invariants: `EntriesInv` (while the entry loop has
candidates left, the book has room, and the failures of the pass are no more than the
candidates it has done with); `ReserveInv`; `LossInv` (the realized total less the cost
of every open position stays above the bound, and entries run only above the cap: the
bound on the total itself is not inductive, since each open position may still lose what
it cost); `DayInv` (in the entry loop the day's count is below the limit plus the number
of positions open); `LatchInv` (memory and file agree while the process is idle, and
entries run only below the limit); `CooldownInv` (the process and the file remember
every closing the history remembers, or still have the position); `DryInv` (a dry
process has the file's cash).

Proved with `LossInv` only up to the model's view of losses: what the process counts. A
position that the recovery closes, or that is sold unpaid, never reaches
`total_realized_sol`.

`DiscoveryGateProofs`:

- `TypeCorrect`, `StampIsReal`, `OnlyRecentOffers`: with any faults.
- `SomeDataIsFresh`, `OutageStarvesEntries`: if every token comes with its timestamp. The
  second says what the finding of DiscoveryOutage does not cost: an outage opens the rail,
  but there is nothing to enter.

The argument: `StampInv` (the stamp of the running discovery, that of the last one and
the data in the cache are no later than the last fetch); `FreshInv` (a cached entry has
its timestamp, a discovery with candidates has a stamp, and the stamp is the age of a
token it built: the first timestamp counts, and a token is built once); `HandInv` (the
rail was tested with the timestamp the candidates came with).

`ExitRulesProofs`, for any number of positions, any quotes and thresholds:

- `RulesTyped`, `NoRulePassedOver`, `UnconfirmedSold`.
- `HealthyIsHeld`: the other direction, a position without cause for alarm is not sold
  whole. Under `LossesOnly`: the stop loss is below the entry price, and Hachi's neutral
  zone begins at or below it.
- `RulesKeepToSlots`, `RulesAllowEveryEnd`: the visits of `ExitRules` and those of
  `PositionExit` end alike, seen through the slots (of an unconfirmed entry only the first
  half: its confirmation is not a rule's).

The argument: a visit's decision is "wait", a chunk or a step only if no rule of `Order`
fired on the position as it was valued (`FirstRule` is then "none"), and what it keeps of
the position has the marks the rules have seen. `SuppressedAfter` reads the suppression
that was in force off the book the visit leaves, since it depends on slots and streaks
only. `LadderStrikesOnce` is a lemma about decisions: each take-profit decision strikes off
one step, which is what `PositionExit` counts in `tpDone`.

`SwapCallProofs`, for any amounts and attempts:

- `CallTyped`, `SwapsOnce`, `SettledSalesAreReal`, `BuysSettle`, `CallKeepsPromise`.
- `CallIsBounded`: `StepsLeft`, the requests and reads a call may still make, falls with
  every step of the process and is not touched by the chain.

The invariant says for each place of the call how many posts were sent and what the flight
may be (none before `/execute`, at most one after); that a read which was not wrong lies
between what the wallet held and what it holds once the swap has moved; and that a buy
past its quote has a quote. Then a settled sale whose balance fell has moved, since
nothing else takes tokens out.

`RunLoopProofs`, for any durations, batches and faults:

- `RunTyped`, `SavesAlwaysAtomic`, `JournalAlwaysFollows`, `OrderlyEnd`,
  `CyclesOnSchedule`.
- `PassIsBounded`: `StepsLeft` counts what is left of a pass, two steps for each line of
  the journals. It falls with every step of the process and grows only where a cycle
  begins, which STOP and the requested number of cycles forbid.

The invariant: `Books` (memory and file differ by the pass that is being saved, and by
nothing at any other place), `Journals` (the decisions of the run are in both journals,
but for those of the running pass), `Clock` (the schedule is the interval times the
cycles begun, and the clock has reached it whenever a cycle runs).

### Only model-checked

Liveness is beyond the prover: `ExitResolves`, `CallReturns` and `RunEnds`. What is proved
of them is the part without fairness (`ExitsConverge`, `CallIsBounded`, `PassIsBounded`):
a quantity that is bounded below falls with every step of the process and nothing else
raises it. That the process takes its steps is the fairness, and that an exit becomes due
again and again is `BeginCycle(TRUE)`. The four violations are counterexamples of TLC.

## Where the code and its documents disagree

With a run:

- A drip that a crash interrupted keeps `drip_exit_active` after the recovery, and the
  next stop loss is sold in chunks (ExitStaleDrip; `trader.py:979`, against the comment
  at `trader.py:1937`).
- A lagging balance read makes a landed chunk look unsettled, and the retry sells the
  whole pending quantity, beyond the drip's plan (ExitOversellLag; `trader.py:1306`,
  against `drip_chunker.py:24`).
- The "daily" loss cap reads a total that is never reset (CycleLossCap; `trader.py:1741`).
- An outage opens the stale-data rail instead of closing it (DiscoveryOutage;
  `trader.py:169`, against the comment at `trader.py:167`): `discover_candidates`
  swallows failed seed requests, and its summary without a timestamp replaces the last
  good one. Such a discovery offers no candidates itself, so no entry is made on old
  data; what is lost is the safe mode and the reason an operator would see.

Seen while modelling, without a run:

- A soft liquidity break is tested before the stop loss (`trader.py:518`, `:533`), and
  sells half of a position that the stop loss would sell whole; the rest is stopped a
  cycle later at the earliest.
- The trailing stop is armed by the profit of the moment, not once and for all: a fall
  from the peak to below `trailing_arm_pct` in one cycle disarms it (`trader.py:549`).
- Suppression counts the streaks as they are in the middle of the cycle: which of two
  positions breaks may depend on the order of the book, and a sale changes the ratio for
  the positions after it (`trader.py:358`). Quotes that fail for everybody for five cycles
  (an outage of Jupiter) break every position all the same.
- Route data stays as the last quote left it: a soft or hard route break can fire on a
  cycle without a quote (`trader.py:315`, `:396`), and so can a take-profit step on an old
  mark.
- Momentum is meant cycle over cycle (`trader.py:650`), but the previous mark is kept only
  when the dripper runs: not while an exit is pending, nor when an earlier rule fired.
- A Hachi chunk that succeeds only in a retry starts no wait before the next one.
- "No position holds indefinitely" (`trader.py:334`) is not so for a position at 12% profit
  or more, which the time stop spares (`trader.py:568`).
- The counts of an exit that the recovery took back, and a drip's remainder that the
  recovery made larger than the position, stay in the state (`recovery.py:44`).
- In dry run a pending exit from a live state file is skipped in every cycle, for ever.
- A buy is settled on the word of the reply, the order or the quote, whatever the wallet
  shows (`executor.py:550`), so the branch for unsettled buys is never taken.
- `getBalance` answers with an object (`{"context", "value"}`), which `int()` refuses
  (`executor.py:726`): the SOL difference that would stand in for missing proceeds is
  never available.
- A swap may land after `execute_failed` was returned; nothing looks for it but the wallet
  reads of later calls and the recovery.
- A signal during the sleep does not end it (Python resumes `time.sleep`), so a stop may
  take a whole poll interval (`utils.py:194`); late cycles are followed by cycles without
  a pause until the schedule is reached again (`main.py:458`); a signal before the
  handlers are installed kills the process in the middle of the recovery (`main.py:282`).
- A journal line that cannot be written ends the run, after the state was saved
  (`trader.py:1699`); the rest of the pass is never journalled.
- A pending drip is deaf to hard exits: an EXIT_PENDING position is only retried
  (`trader.py:327`), so the override at `trader.py:958` is never reached.
- A threshold failure after a lost answer sells again what has been sold, up to the
  wallet.
- EXIT_BLOCKED for another reason than a threshold failure is never left, also not by
  the time stop (`trader.py:1042`, against `trader.py:334`, "no position holds
  indefinitely").
- The wallet is said to be truth (`docs/ARCHITECTURE_LOCK.md:10`), but when it cannot be
  read Jupiter's answer is taken for it (`executor.py:656`).
- The daily limit is tested once, before the loop that consumes it (`trader.py:1377`);
  `OvershootIsBounded` says by how much it can be passed.
- Failures inside the entry loop do not stop it (`trader.py:1588`); `EntriesAreBounded` says
  how far the count can pass its limit.
- README.md:12 has exits before entries; the code runs entries first (`trader.py:183`).
- A token that stays listed is touched at the end of every discovery (`discovery.py:399`)
  and, if discoveries come more often than the TTL, never fetched again: its data ages
  until the stale rail closes, or, when another token was built first, unnoticed.
  `NotAllStale` is what is left of freshness.

## Not modelled

- Figures: prices, impacts and ratios are integers in percent; rounding of floats at a
  threshold is left out, as are the sizes that Hachi's urgencies choose. A missing baseline
  of JSDS (an impact or hop count of None) switches its route part off, as the route of
  the entry itself does: it is the quote with impact 1 and no further hops.
- Entries of which more landed than was booked (see PositionExit).
- Modelled as faults, but outside what the properties promise: a sale booked on Jupiter's
  word alone while the wallet cannot be read (`executor.py:656`), and an RPC error that the
  recovery takes for an empty wallet (`executor.py:926`). `BookCoversWallet` and the
  properties beside it hold without these two only (`HonestReads`).
- Modelled, but promised by nothing: what a fresh portfolio after an unreadable state file
  (`state.py:134`) has forgotten. `FailureLatch` and `CooldownRespected` except it, and the
  limits count the fresh book only. A hard exit that arrives during a pending drip
  (`trader.py:958`) waits for its end, which `ExitResolves` promises.
- Of discovery: the filters, scores and probes (their outcome is open), the route cache
  (it saves requests only), exceptions other than a build's or a probe's, and a
  timestamp that cannot be parsed (for the rail it counts as none, and it keeps the other
  tokens' from being used). These are stateless computations over market figures, or
  affect only the number of requests.
- Partial fills: the swaps are exact-input, and an answer is for the whole request.
- `build_swap_transaction` and `sign_and_send` (the older path of the executor, which the
  trader does not call), the simulation and failure artifacts around them.
- Scoring, the Birdeye client, configuration, key loading, logging: no state over time but
  the pause between two Birdeye requests.
- The output of `scan`, `doctor`, `status`, `quote` and the snapshot monitor, and the
  fields of the run's report files: they read and print.
- Two processes on one state file: no lock prevents it, both would trade and each would
  overwrite the other's saves; no document says that it may be done.
- A power failure (see RunLoop).

## Plan

Written, in this order: `ExitSlots`, `PositionExit`, `ExitLedger`, `TradingCycle`,
`DiscoveryGate`, `ExitRules`, `SwapPromise`, `SwapCall`, `RunLoop`, and their proofs.
What is left, in the order of its value:

1. Two calls in a row in `SwapCall`: a swap of the first that lands during the second.
2. One skeleton of save, crash and load, implemented by both `RunLoop` and `TradingCycle`.
3. The route cache of discovery, once something but the number of requests depends on it.
4. Entries of which more landed than was booked, and what the recovery leaves of them.
