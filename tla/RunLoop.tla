------------------------------ MODULE RunLoop ------------------------------
(***************************************************************************)
(* The process around the cycle: load, recovery, signal handlers, the poll *)
(* loop, and how a cycle is put on disk: state.json through a temporary    *)
(* file, then the journals line by line, then the status snapshot.         *)
(*                                                                         *)
(* Source: cli/main.py (cmd_run), engine/trader.py (run_startup_recovery,  *)
(* run_cycle, _persist_cycle), storage/state.py, utils.py                  *)
(* (atomic_write_json, append_jsonl, monotonic_sleep_until).               *)
(*                                                                         *)
(* What a cycle does is TradingCycle's; here it is the decisions it takes, *)
(* numbered in the order in which they are taken, and a portfolio is the   *)
(* set of decisions it contains.                                           *)
(***************************************************************************)
EXTENDS Integers

CONSTANTS
  Requests,     \* values of --cycles and --once, or Forever
  Poll,         \* poll_interval_seconds
  Durations,    \* how long a cycle may take
  MaxBatch,     \* bound on the decisions of one pass
  MaxDecisions, \* bound on all decisions
  MaxTime,      \* bound on the clock
  MaxStarts,    \* bound on the starts of the process
  Faults        \* what can go wrong

Forever == 0

FaultKinds ==
  { "kill",         \* the process dies: SIGKILL, an error nobody catches, a signal
                    \* before the handlers are installed
    "write_error",  \* the disk refuses a write
    "damage" }      \* state.json becomes unreadable while no process runs

ASSUME RequestsAssumption == Requests \subseteq Nat
ASSUME TimeAssumption ==
  Poll \in Nat /\ Durations \subseteq Nat /\ MaxTime \in Nat
ASSUME BoundsAssumption ==
  MaxBatch \in Nat /\ MaxDecisions \in Nat /\ MaxStarts \in Nat
ASSUME FaultsAssumption == Faults \subseteq FaultKinds

VARIABLES
  pc,        \* where the process is
  book,      \* its portfolio
  fresh,     \* decisions of the running pass: a cycle, or the recovery
  handled,   \* are the signal handlers installed
  stop,      \* STOP
  requested, \* requested_cycles, None as Forever
  cycles,    \* cycles begun
  now,       \* time since the loop was entered
  due,       \* next_run
  file,      \* portfolio in state.json; {} also if there is none
  whole,     \* can state.json be read
  journal,   \* decisions in journal.jsonl
  runlog,    \*   and in the journals of the runs
  status,    \* portfolio that status.json describes
  made,      \* decisions taken so far
  starts,    \* starts of the process so far
  loaded,    \* history: portfolio the process began with
  wiped,     \* history: decisions that were lost with a damaged file
  cut        \* history: decisions of passes cut short between state and journal

Process == <<pc, book, fresh, handled, stop, requested, cycles, now, due>>
Disk == <<file, whole, journal, runlog, status>>
History == <<made, starts, loaded, wiped, cut>>
vars == <<Process, Disk, History>>

Places ==
  { "down", "load", "recover", "loop", "cycle", "save", "write", "journal", "runlog",
    "status", "report", "sleep", "summary", "ended" }
Running == Places \ {"down", "ended"}
Larger(a, b) == IF a >= b THEN a ELSE b

GoTo(place) ==
  /\ pc' = place
  /\ UNCHANGED <<book, fresh, handled, stop, requested, cycles, now, due>>

\* The process is gone.  If it was writing the journal, the rest of it is never written.
Die ==
  /\ pc' = "down"
  /\ book' = {} /\ fresh' = {} /\ handled' = FALSE /\ stop' = FALSE
  /\ cut' = IF pc \in {"journal", "runlog"} THEN cut \cup fresh ELSE cut
  /\ UNCHANGED <<requested, cycles, now, due, Disk, made, starts, loaded, wiped>>

WriteError == "write_error" \in Faults

-----------------------------------------------------------------------------
(* Start: load, recovery, handlers.                                         *)

\* The clock and the counts are those of the new process.
Start ==
  /\ pc \in {"down", "ended"}
  /\ starts < MaxStarts
  /\ starts' = starts + 1
  /\ pc' = "load" /\ requested' \in Requests
  /\ book' = {} /\ fresh' = {} /\ loaded' = {}
  /\ handled' = FALSE /\ stop' = FALSE
  /\ cycles' = 0 /\ now' = 0 /\ due' = 0
  /\ UNCHANGED <<Disk, made, wiped, cut>>

\* load_portfolio: a file that cannot be read is moved away.
Load ==
  /\ pc = "load"
  /\ pc' = "recover"
  /\ book' = file /\ loaded' = file
  /\ whole' = TRUE
  /\ UNCHANGED <<fresh, handled, stop, requested, cycles, now, due>>
  /\ UNCHANGED <<file, journal, runlog, status, made, starts, wiped, cut>>

Decide(batch) ==
  /\ made + batch <= MaxDecisions
  /\ fresh' = (made + 1)..(made + batch)
  /\ book' = book \cup fresh'
  /\ made' = made + batch

\* signal.signal(...), and the loop begins.
Install ==
  /\ pc' = "loop" /\ handled' = TRUE
  /\ UNCHANGED <<stop, requested, cycles, now, due>>

\* engine.run_startup_recovery: what it corrects is saved, if it corrects anything.
Recover ==
  /\ pc = "recover"
  /\ \E batch \in 0..MaxBatch :
       /\ Decide(batch)
       /\ IF batch = 0 THEN Install
          ELSE pc' = "save" /\ UNCHANGED <<handled, stop, requested, cycles, now, due>>
  /\ UNCHANGED <<Disk, starts, loaded, wiped, cut>>

-----------------------------------------------------------------------------
(* The loop.                                                                *)

StopReadOnce == stop /\ cycles = 0 \* mutant: STOP is read when the loop is entered

\* The condition of the loop: while not STOP.
StopRead == stop

BeginCycle ==
  /\ pc = "loop" /\ ~StopRead
  /\ now <= MaxTime
  /\ pc' = "cycle" /\ cycles' = cycles + 1
  /\ fresh' = {}
  /\ UNCHANGED <<book, handled, stop, requested, now, due, Disk, History>>

\* run_cycle, but for _persist_cycle.
Cycle ==
  /\ pc = "cycle"
  /\ \E batch \in 0..MaxBatch : Decide(batch)
  /\ \E duration \in Durations : now' = now + duration
  /\ pc' = "save"
  /\ UNCHANGED <<handled, stop, requested, cycles, due, Disk, starts, loaded, wiped, cut>>

\* The requested cycles have been made.
Enough == requested # Forever /\ cycles >= requested

SleepOrStopLate == \* mutant: one cycle more than requested
  /\ pc = "report"
  /\ \/ /\ requested # Forever /\ cycles > requested
        /\ GoTo("summary")
     \/ /\ ~(requested # Forever /\ cycles > requested)
        /\ pc' = "sleep" /\ due' = due + Poll
        /\ UNCHANGED <<book, fresh, handled, stop, requested, cycles, now>>
  /\ UNCHANGED <<Disk, History>>

SleepWithoutSchedule == \* mutant: next_run is never moved on
  /\ pc = "report"
  /\ \/ Enough /\ GoTo("summary")
     \/ ~Enough /\ GoTo("sleep")
  /\ UNCHANGED <<Disk, History>>

\* The copies of the cycle's files are written; then the loop is left, or the next cycle
\* is due one interval after this one was, even if this one took longer.
SleepOrStop ==
  /\ pc = "report"
  /\ \/ Enough /\ GoTo("summary")
     \/ /\ ~Enough
        /\ pc' = "sleep" /\ due' = due + Poll
        /\ UNCHANGED <<book, fresh, handled, stop, requested, cycles, now>>
  /\ UNCHANGED <<Disk, History>>

\* monotonic_sleep_until: a signal does not wake it.
Wake ==
  /\ pc = "sleep"
  /\ pc' = "loop" /\ now' = Larger(now, due)
  /\ UNCHANGED <<book, fresh, handled, stop, requested, cycles, due, Disk, History>>

LeaveLoop ==
  /\ pc = "loop" /\ StopRead
  /\ GoTo("summary") /\ UNCHANGED <<Disk, History>>

\* summary.json is written, the process ends.
Summary == pc = "summary" /\ GoTo("ended") /\ UNCHANGED <<Disk, History>>

EndAtOnce == \* mutant: the handler leaves instead of setting STOP
  /\ handled /\ ~stop /\ pc \in Running
  /\ pc' = "ended" /\ stop' = TRUE
  /\ UNCHANGED <<book, fresh, handled, requested, cycles, now, due, Disk, History>>

\* _handle_sigint
Signal ==
  /\ handled /\ ~stop /\ pc \in Running
  /\ stop' = TRUE
  /\ UNCHANGED <<pc, book, fresh, handled, requested, cycles, now, due, Disk, History>>

-----------------------------------------------------------------------------
(* _persist_cycle                                                           *)

\* Decisions that are still to be journalled.
Unlogged == fresh \ journal

JournalFirst == \* mutant: the decisions are journalled before the state is saved
  /\ pc = "save" /\ GoTo("write") /\ journal' = journal \cup fresh
  /\ UNCHANGED <<file, whole, runlog, status, History>>

\* A temporary file is written beside state.json.
BeginSave == pc = "save" /\ GoTo("write") /\ UNCHANGED <<Disk, History>>

\* os.replace
Replace ==
  /\ pc = "write" /\ GoTo("journal")
  /\ file' = book /\ whole' = TRUE
  /\ UNCHANGED <<journal, runlog, status, History>>

SaveSwallowed == \* mutant: logged, as for status.json
  /\ WriteError /\ pc \in {"save", "write"}
  /\ GoTo("journal") /\ UNCHANGED <<Disk, History>>

\* The error is raised, and nobody catches it.
SaveFails == WriteError /\ pc \in {"save", "write"} /\ Die

\* The next decision is appended to the journal, and then to the journal of the run.
AppendToJournal ==
  /\ pc = "journal" /\ GoTo("runlog")
  /\ \E d \in Unlogged :
       /\ \A e \in Unlogged : d <= e
       /\ journal' = journal \cup {d}
  /\ UNCHANGED <<file, whole, runlog, status, History>>

AppendToRun ==
  /\ pc = "runlog" /\ GoTo("journal")
  /\ runlog' = runlog \cup (fresh \cap journal)
  /\ UNCHANGED <<file, whole, journal, status, History>>

AppendFails ==
  /\ WriteError
  /\ \/ pc = "journal" /\ Unlogged # {}
     \/ pc = "runlog"
  /\ Die

JournalDone ==
  /\ pc = "journal" /\ Unlogged = {}
  /\ GoTo("status") /\ UNCHANGED <<Disk, History>>

\* The status snapshot; if it cannot be written the old one stays.  Then the cycle is over,
\* or the recovery.
Status ==
  /\ pc = "status"
  /\ \/ status' = book
     \/ WriteError /\ status' = status
  /\ IF handled THEN GoTo("report") ELSE Install /\ UNCHANGED <<book, fresh>>
  /\ UNCHANGED <<file, whole, journal, runlog, History>>

\* A copy of the cycle's files, or the summary, cannot be written.
ReportFails == WriteError /\ pc \in {"report", "summary"} /\ Die

-----------------------------------------------------------------------------
(* Outside the process.                                                     *)

Kill == "kill" \in Faults /\ pc \in Running /\ Die

Damage ==
  /\ "damage" \in Faults /\ pc \in {"down", "ended"} /\ whole
  /\ whole' = FALSE /\ file' = {} /\ wiped' = wiped \cup file
  /\ UNCHANGED <<Process, journal, runlog, status, made, starts, loaded, cut>>

\* status, doctor and scan load the portfolio, at any time, and move away what they cannot
\* read.
OperatorLoads ==
  /\ ~whole
  /\ whole' = TRUE
  /\ UNCHANGED <<Process, file, journal, runlog, status, History>>

-----------------------------------------------------------------------------

Init ==
  /\ pc = "down" /\ requested \in Requests
  /\ book = {} /\ fresh = {} /\ handled = FALSE /\ stop = FALSE
  /\ cycles = 0 /\ now = 0 /\ due = 0
  /\ file = {} /\ whole = TRUE /\ journal = {} /\ runlog = {} /\ status = {}
  /\ made = 0 /\ starts = 0 /\ loaded = {} /\ wiped = {} /\ cut = {}

Persist ==
  \/ BeginSave \/ Replace \/ SaveFails
  \/ AppendToJournal \/ AppendToRun \/ AppendFails \/ JournalDone
  \/ Status

Run ==
  \/ Load \/ Recover
  \/ BeginCycle \/ Cycle \/ Persist \/ SleepOrStop \/ Wake
  \/ LeaveLoop \/ Summary \/ ReportFails

Next == Run \/ Start \/ Signal \/ Kill \/ Damage \/ OperatorLoads

\* A cycle comes to an end (every call it makes does) and so does a sleep.
Spec == Init /\ [][Next]_vars /\ WF_vars(Run)

-----------------------------------------------------------------------------
(* What the process owes its operator.                                      *)

\* Every variable has its type, and a run of so many cycles makes no more of them.
TypeOK ==
  /\ pc \in Places
  /\ handled \in BOOLEAN /\ stop \in BOOLEAN /\ whole \in BOOLEAN
  /\ requested \in Requests /\ cycles \in Nat
  /\ requested # Forever => cycles <= requested
  /\ now \in Nat /\ due \in Nat
  /\ made \in 0..MaxDecisions /\ starts \in 0..MaxStarts
  /\ book \subseteq 1..made /\ fresh \subseteq 1..made /\ file \subseteq 1..made
  /\ journal \subseteq 1..made /\ runlog \subseteq 1..made /\ status \subseteq 1..made
  /\ loaded \subseteq 1..made /\ wiped \subseteq 1..made /\ cut \subseteq 1..made

\* Whatever interrupts a save, state.json holds the portfolio before it or after it: a
\* command that loads it while the bot runs never moves it away, and a crash costs at most
\* the pass it interrupts.
SavesAreAtomic == pc \in Running \ {"load"} => whole /\ book \ fresh \subseteq file

\* The journal tells what state.json contains.  Neither it nor the status snapshot is ever
\* ahead, unless the file was damaged since; and a saved decision is missing in it only
\* while its pass is being saved, or if that was cut short.
JournalFollowsState ==
  /\ journal \cup runlog \cup status \subseteq file \cup wiped
  /\ file \subseteq journal \cup fresh \cup cut
  /\ pc \notin {"journal", "runlog"} => file \subseteq journal \cup cut

\* A run that ends by a signal or by the count of its cycles leaves everything it did on
\* disk, in the state and in the journal.
EndsInOrder ==
  pc = "ended" =>
    /\ stop \/ cycles = requested
    /\ book \subseteq file \cup wiped
    /\ book \ loaded \subseteq journal \cap runlog

\* On average a cycle takes no less than the poll interval, also when late cycles catch up.
OnSchedule == cycles > 0 => (cycles - 1) * Poll <= now

\* Once the handlers are installed, a run of a number of cycles ends, and so does any run
\* that has got a signal.
RunEnds ==
  handled /\ (stop \/ requested # Forever) ~> pc \in {"down", "ended"}
=============================================================================
