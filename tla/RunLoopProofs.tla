---------------------------- MODULE RunLoopProofs ----------------------------
(***************************************************************************)
(* What a run leaves on disk, and when its cycles begin, for any number of *)
(* cycles, decisions, starts and any poll interval.                        *)
(***************************************************************************)
EXTENDS RunLoop, FiniteSetTheorems, TLAPS

USE DEF Forever

-----------------------------------------------------------------------------
(* The inductive invariant, in three parts.                                 *)

\* TypeOK, truth values apart from numbers and sets.
FlagsTyped == handled \in BOOLEAN /\ stop \in BOOLEAN /\ whole \in BOOLEAN

CountsTyped ==
  /\ pc \in Places
  /\ requested \in Requests /\ cycles \in Nat
  /\ now \in Nat /\ due \in Nat
  /\ made \in 0..MaxDecisions /\ starts \in 0..MaxStarts

SetsTyped ==
  /\ book \subseteq 1..made /\ fresh \subseteq 1..made /\ file \subseteq 1..made
  /\ journal \subseteq 1..made /\ runlog \subseteq 1..made /\ status \subseteq 1..made
  /\ loaded \subseteq 1..made /\ wiped \subseteq 1..made /\ cut \subseteq 1..made

Saving == {"save", "write"}
Logging == {"journal", "runlog"}
Saved == {"status", "report", "sleep", "loop", "summary"}

\* Before the handlers are installed nothing is counted; after it the next cycle is due
\* at a multiple of the interval, and a run of a number of cycles has some left when it
\* comes to the loop.
Clock ==
  /\ pc \in Running /\ ~handled => cycles = 0 /\ now = 0 /\ due = 0
  /\ pc \in {"load", "recover"} => ~handled
  /\ pc \in {"loop", "cycle", "report", "sleep", "summary"} => handled
  /\ pc \in {"loop", "sleep"} => due = cycles * Poll
  /\ pc = "loop" => due <= now
  /\ handled /\ pc \in {"cycle", "report", "status"} \cup Saving \cup Logging =>
       cycles > 0 /\ due = (cycles - 1) * Poll /\ due <= now
  /\ requested # Forever => cycles <= requested
  /\ requested # Forever /\ pc \in {"loop", "sleep"} => cycles < requested
  /\ pc \in {"summary", "ended"} => stop \/ cycles = requested
  /\ OnSchedule

Readable == pc \in Running \ {"load"} => whole

\* The portfolio of the process and the one in state.json differ by the pass that is to be
\* saved, and by nothing at any other place.
Books ==
  /\ pc = "load" => fresh = {} /\ book = {}
  /\ pc = "down" => fresh = {}
  /\ pc \in {"recover", "cycle"} => fresh = {}
  /\ pc \in {"recover", "cycle"} \cup Logging \cup Saved => book = file
  /\ pc \in Saving => book = file \cup fresh
  /\ pc \in Logging => fresh \subseteq file
  /\ pc = "ended" => book \subseteq file \cup wiped
  /\ Readable

\* The decisions of the run are in both journals, but for those of the running pass.
Journals ==
  /\ pc \in Saving => fresh \cap journal = {}
  /\ pc = "journal" => fresh \cap journal \subseteq runlog
  /\ pc \in Saved \cup {"ended"} => fresh \subseteq journal \cap runlog
  /\ pc \notin {"down", "load"} => book \subseteq loaded \cup fresh \cup (journal \cap runlog)
  /\ JournalFollowsState

IInv == FlagsTyped /\ CountsTyped /\ SetsTyped /\ Clock /\ Books /\ Journals

LEMMA TypeOKParts ==
  IInv => TypeOK
BY DEF IInv, TypeOK, FlagsTyped, CountsTyped, SetsTyped, Clock

LEMMA IInvInit == Init => IInv
<1> SUFFICES ASSUME Init PROVE IInv
  OBVIOUS
<1>1. FlagsTyped
  BY DEF Init, FlagsTyped
<1>2. CountsTyped /\ SetsTyped
  BY BoundsAssumption, RequestsAssumption DEF Init, CountsTyped, SetsTyped, Places
<1>3. Clock
  BY RequestsAssumption, TimeAssumption DEF Init, Clock, OnSchedule, Running, Saving, Logging
<1>4. Books /\ Journals
  BY DEF Init, Books, Journals, Saving, Logging, Saved, Readable, Running,
     JournalFollowsState
<1> QED BY <1>1, <1>2, <1>3, <1>4 DEF IInv

-----------------------------------------------------------------------------
(* Every step keeps it.                                                     *)

\* Truth values.
LEMMA FlagsStep ==
  ASSUME FlagsTyped, Next
  PROVE  FlagsTyped'
<1> USE DEF FlagsTyped, GoTo, Install, Process, Disk, History
<1>1. ASSUME Die, pc \in Running
      PROVE  FlagsTyped'
  BY <1>1 DEF Die, Running
<1>2. CASE Load
  BY <1>2 DEF Load
<1>3. CASE Recover
  BY <1>3 DEF Recover
<1>4. CASE BeginCycle
  BY <1>4 DEF BeginCycle
<1>5. CASE Cycle
  BY <1>5 DEF Cycle
<1>6. CASE BeginSave
  BY <1>6 DEF BeginSave
<1>7. CASE Replace
  BY <1>7 DEF Replace
<1>8. CASE AppendToJournal
  BY <1>8 DEF AppendToJournal
<1>9. CASE AppendToRun
  BY <1>9 DEF AppendToRun
<1>10. CASE JournalDone
  BY <1>10 DEF JournalDone
<1>11. CASE Status
  BY <1>11 DEF Status
<1>12. CASE SleepOrStop
  BY <1>12 DEF SleepOrStop
<1>13. CASE Wake
  BY <1>13 DEF Wake
<1>14. CASE LeaveLoop
  BY <1>14 DEF LeaveLoop
<1>15. CASE Summary
  BY <1>15 DEF Summary
<1>16. CASE Start
  BY <1>16 DEF Start
<1>17. CASE Signal
  BY <1>17 DEF Signal
<1>18. CASE Damage
  BY <1>18 DEF Damage
<1>19. CASE OperatorLoads
  BY <1>19 DEF OperatorLoads
<1>20. CASE SaveFails \/ AppendFails \/ ReportFails \/ Kill
  BY <1>1, <1>20 DEF SaveFails, AppendFails, ReportFails, Kill, Running, Places
<1> QED BY <1>1, <1>2, <1>3, <1>4, <1>5, <1>6, <1>7, <1>8, <1>9, <1>10, <1>11, <1>12,
       <1>13, <1>14, <1>15, <1>16, <1>17, <1>18, <1>19, <1>20 DEF Next, Run, Persist

\* Counters.
LEMMA CountsStep ==
  ASSUME CountsTyped, Next
  PROVE  CountsTyped'
<1> USE DEF CountsTyped, Places, GoTo, Install, Decide, Larger, Process, Disk, History
<1>1. ASSUME Die, pc \in Running
      PROVE  CountsTyped'
  BY <1>1 DEF Die, Running
<1>2. CASE Load
  BY <1>2, RequestsAssumption, TimeAssumption, BoundsAssumption DEF Load
<1>3. CASE Recover
  BY <1>3, RequestsAssumption, TimeAssumption, BoundsAssumption DEF Recover
<1>4. CASE BeginCycle
  BY <1>4, RequestsAssumption, TimeAssumption, BoundsAssumption DEF BeginCycle
<1>5. CASE Cycle
  BY <1>5, RequestsAssumption, TimeAssumption, BoundsAssumption DEF Cycle
<1>6. CASE BeginSave
  BY <1>6, RequestsAssumption, TimeAssumption, BoundsAssumption DEF BeginSave
<1>7. CASE Replace
  BY <1>7, RequestsAssumption, TimeAssumption, BoundsAssumption DEF Replace
<1>8. CASE AppendToJournal
  BY <1>8, RequestsAssumption, TimeAssumption, BoundsAssumption DEF AppendToJournal
<1>9. CASE AppendToRun
  BY <1>9, RequestsAssumption, TimeAssumption, BoundsAssumption DEF AppendToRun
<1>10. CASE JournalDone
  BY <1>10, RequestsAssumption, TimeAssumption, BoundsAssumption DEF JournalDone
<1>11. CASE Status
  BY <1>11, RequestsAssumption, TimeAssumption, BoundsAssumption DEF Status
<1>12. CASE SleepOrStop
  BY <1>12, RequestsAssumption, TimeAssumption, BoundsAssumption DEF SleepOrStop
<1>13. CASE Wake
  BY <1>13, RequestsAssumption, TimeAssumption, BoundsAssumption DEF Wake
<1>14. CASE LeaveLoop
  BY <1>14, RequestsAssumption, TimeAssumption, BoundsAssumption DEF LeaveLoop
<1>15. CASE Summary
  BY <1>15, RequestsAssumption, TimeAssumption, BoundsAssumption DEF Summary
<1>16. CASE Start
  BY <1>16, RequestsAssumption, TimeAssumption, BoundsAssumption DEF Start
<1>17. CASE Signal
  BY <1>17, RequestsAssumption, TimeAssumption, BoundsAssumption DEF Signal
<1>18. CASE Damage
  BY <1>18, RequestsAssumption, TimeAssumption, BoundsAssumption DEF Damage
<1>19. CASE OperatorLoads
  BY <1>19, RequestsAssumption, TimeAssumption, BoundsAssumption DEF OperatorLoads
<1>20. CASE SaveFails \/ AppendFails \/ ReportFails \/ Kill
  BY <1>1, <1>20 DEF SaveFails, AppendFails, ReportFails, Kill, Running, Places
<1> QED BY <1>1, <1>2, <1>3, <1>4, <1>5, <1>6, <1>7, <1>8, <1>9, <1>10, <1>11, <1>12,
       <1>13, <1>14, <1>15, <1>16, <1>17, <1>18, <1>19, <1>20 DEF Next, Run, Persist

\* Sets of decisions.
LEMMA SetsStep ==
  ASSUME CountsTyped, SetsTyped, Next
  PROVE  SetsTyped'
<1> USE DEF CountsTyped, SetsTyped, GoTo, Install, Decide, Process, Disk, History,
            Unlogged
<1>1. ASSUME Die, pc \in Running
      PROVE  SetsTyped'
  BY <1>1 DEF Die, Running
<1>2. CASE Load
  BY <1>2, BoundsAssumption DEF Load
<1>3. CASE Recover
  BY <1>3, BoundsAssumption DEF Recover
<1>4. CASE BeginCycle
  BY <1>4, BoundsAssumption DEF BeginCycle
<1>5. CASE Cycle
  BY <1>5, BoundsAssumption DEF Cycle
<1>6. CASE BeginSave
  BY <1>6, BoundsAssumption DEF BeginSave
<1>7. CASE Replace
  BY <1>7, BoundsAssumption DEF Replace
<1>8. CASE AppendToJournal
  BY <1>8, BoundsAssumption DEF AppendToJournal
<1>9. CASE AppendToRun
  BY <1>9, BoundsAssumption DEF AppendToRun
<1>10. CASE JournalDone
  BY <1>10, BoundsAssumption DEF JournalDone
<1>11. CASE Status
  BY <1>11, BoundsAssumption DEF Status
<1>12. CASE SleepOrStop
  BY <1>12, BoundsAssumption DEF SleepOrStop
<1>13. CASE Wake
  BY <1>13, BoundsAssumption DEF Wake
<1>14. CASE LeaveLoop
  BY <1>14, BoundsAssumption DEF LeaveLoop
<1>15. CASE Summary
  BY <1>15, BoundsAssumption DEF Summary
<1>16. CASE Start
  BY <1>16, BoundsAssumption DEF Start
<1>17. CASE Signal
  BY <1>17, BoundsAssumption DEF Signal
<1>18. CASE Damage
  BY <1>18, BoundsAssumption DEF Damage
<1>19. CASE OperatorLoads
  BY <1>19, BoundsAssumption DEF OperatorLoads
<1>20. CASE SaveFails \/ AppendFails \/ ReportFails \/ Kill
  BY <1>1, <1>20 DEF SaveFails, AppendFails, ReportFails, Kill, Running, Places
<1> QED BY <1>1, <1>2, <1>3, <1>4, <1>5, <1>6, <1>7, <1>8, <1>9, <1>10, <1>11, <1>12,
       <1>13, <1>14, <1>15, <1>16, <1>17, <1>18, <1>19, <1>20 DEF Next, Run, Persist

\* The clock.
LEMMA ClockStep ==
  ASSUME CountsTyped, Clock, Next
  PROVE  Clock'
<1> USE DEF CountsTyped, Clock, OnSchedule, Running, Places, Saving, Logging, GoTo,
            Install, Enough, StopRead, Larger, Process, Disk, History
<1>1. ASSUME Die, pc \in Running
      PROVE  Clock'
  BY <1>1, TimeAssumption DEF Die, Running
<1>2. CASE Load
  BY <1>2, RequestsAssumption, TimeAssumption DEF Load
<1>3. CASE Recover
  BY <1>3, RequestsAssumption, TimeAssumption DEF Recover
<1>4. CASE BeginCycle
  BY <1>4, RequestsAssumption, TimeAssumption DEF BeginCycle
<1>5. CASE Cycle
  BY <1>5, RequestsAssumption, TimeAssumption DEF Cycle
<1>6. CASE BeginSave
  BY <1>6, RequestsAssumption, TimeAssumption DEF BeginSave
<1>7. CASE Replace
  BY <1>7, RequestsAssumption, TimeAssumption DEF Replace
<1>8. CASE AppendToJournal
  BY <1>8, RequestsAssumption, TimeAssumption DEF AppendToJournal
<1>9. CASE AppendToRun
  BY <1>9, RequestsAssumption, TimeAssumption DEF AppendToRun
<1>10. CASE JournalDone
  BY <1>10, RequestsAssumption, TimeAssumption DEF JournalDone
<1>11. CASE Status
  BY <1>11, RequestsAssumption, TimeAssumption DEF Status
<1>12. CASE SleepOrStop
  <2>1. cycles > 0 /\ due = (cycles - 1) * Poll /\ due <= now
    BY <1>12 DEF SleepOrStop
  <2>2. CASE Enough
    <3> HIDE DEF Clock, OnSchedule
    <3>1. pc' = "summary"
      BY <1>12, <2>2 DEF SleepOrStop
    <3>0. cycles = requested
      <4>1. requested # Forever => cycles <= requested
        BY DEF Clock
      <4> QED BY <2>2, <4>1, RequestsAssumption
    <3>2. UNCHANGED <<handled, stop, requested, cycles, now, due>>
      BY <1>12, <2>2 DEF SleepOrStop
    <3>3. (cycles - 1) * Poll <= now
      BY <2>1
    <3>4. Clock'
      <4>1. OnSchedule'
        BY <3>2, <3>3 DEF OnSchedule
      <4>2. handled
        BY <1>12 DEF SleepOrStop, Clock
      <4> QED BY <3>1, <3>0, <3>2, <4>1, <4>2 DEF Clock
    <3> QED BY <3>4
  <2>3. CASE ~Enough
    <3>1. pc' = "sleep" /\ due' = due + Poll
      BY <1>12, <2>3 DEF SleepOrStop
    <3>2. due' = cycles * Poll
      BY <2>1, <3>1, TimeAssumption
    <3>3. requested # Forever => cycles < requested
      BY <2>3, RequestsAssumption
    <3> QED BY <1>12, <2>1, <2>3, <3>1, <3>2, <3>3 DEF SleepOrStop
  <2> QED BY <2>2, <2>3
<1>13. CASE Wake
  BY <1>13, RequestsAssumption, TimeAssumption DEF Wake
<1>14. CASE LeaveLoop
  BY <1>14, RequestsAssumption, TimeAssumption DEF LeaveLoop
<1>15. CASE Summary
  BY <1>15, RequestsAssumption, TimeAssumption DEF Summary
<1>16. CASE Start
  BY <1>16, RequestsAssumption, TimeAssumption DEF Start
<1>17. CASE Signal
  BY <1>17, RequestsAssumption, TimeAssumption DEF Signal
<1>18. CASE Damage
  BY <1>18, RequestsAssumption, TimeAssumption DEF Damage
<1>19. CASE OperatorLoads
  BY <1>19, RequestsAssumption, TimeAssumption DEF OperatorLoads
<1>20. CASE SaveFails \/ AppendFails \/ ReportFails \/ Kill
  BY <1>1, <1>20 DEF SaveFails, AppendFails, ReportFails, Kill, Running, Places
<1> QED BY <1>1, <1>2, <1>3, <1>4, <1>5, <1>6, <1>7, <1>8, <1>9, <1>10, <1>11, <1>12,
       <1>13, <1>14, <1>15, <1>16, <1>17, <1>18, <1>19, <1>20 DEF Next, Run, Persist

\* The portfolios.
LEMMA BooksStep ==
  ASSUME CountsTyped, SetsTyped, Clock, Books, Next
  PROVE  Books'
<1> USE DEF CountsTyped, Clock, Books, Readable, Running, Places, Saving,
            Logging, Saved, GoTo, Install, Decide, Process, Disk, History
<1>1. ASSUME Die, pc \in Running
      PROVE  Books'
  BY <1>1 DEF Die, Running
<1>2. CASE Load
  BY <1>2 DEF Load
<1>3. CASE Recover
  BY <1>3 DEF Recover
<1>4. CASE BeginCycle
  BY <1>4 DEF BeginCycle
<1>5. CASE Cycle
  BY <1>5 DEF Cycle
<1>6. CASE BeginSave
  BY <1>6 DEF BeginSave
<1>7. CASE Replace
  BY <1>7 DEF Replace
<1>8. CASE AppendToJournal
  BY <1>8 DEF AppendToJournal
<1>9. CASE AppendToRun
  BY <1>9 DEF AppendToRun
<1>10. CASE JournalDone
  BY <1>10 DEF JournalDone
<1>11. CASE Status
  BY <1>11 DEF Status
<1>12. CASE SleepOrStop
  BY <1>12 DEF SleepOrStop
<1>13. CASE Wake
  BY <1>13 DEF Wake
<1>14. CASE LeaveLoop
  BY <1>14 DEF LeaveLoop
<1>15. CASE Summary
  BY <1>15 DEF Summary
<1>16. CASE Start
  BY <1>16 DEF Start
<1>17. CASE Signal
  BY <1>17 DEF Signal
<1>18. CASE Damage
  BY <1>18 DEF Damage
<1>19. CASE OperatorLoads
  BY <1>19 DEF OperatorLoads
<1>20. CASE SaveFails \/ AppendFails \/ ReportFails \/ Kill
  BY <1>1, <1>20 DEF SaveFails, AppendFails, ReportFails, Kill, Running, Places
<1> QED BY <1>1, <1>2, <1>3, <1>4, <1>5, <1>6, <1>7, <1>8, <1>9, <1>10, <1>11, <1>12,
       <1>13, <1>14, <1>15, <1>16, <1>17, <1>18, <1>19, <1>20 DEF Next, Run, Persist

\* The journals.
LEMMA JournalsStep ==
  ASSUME CountsTyped, SetsTyped, Clock, Books, Journals, Next
  PROVE  Journals'
<1> USE DEF CountsTyped, SetsTyped, Clock, Books, Journals, JournalFollowsState,
            Places, Saving, Logging, Saved, GoTo, Install, Decide, Unlogged,
            Process, Disk, History
<1>1. ASSUME Die, pc \in Running
      PROVE  Journals'
  BY <1>1 DEF Die, Running
<1>2. CASE Load
  BY <1>2 DEF Load
<1>3. CASE Recover
  BY <1>3 DEF Recover
<1>4. CASE BeginCycle
  BY <1>4 DEF BeginCycle
<1>5. CASE Cycle
  BY <1>5 DEF Cycle
<1>6. CASE BeginSave
  BY <1>6 DEF BeginSave
<1>7. CASE Replace
  BY <1>7 DEF Replace
<1>8. CASE AppendToJournal
  <2>1. PICK d \in fresh \ journal : journal' = journal \cup {d}
    BY <1>8 DEF AppendToJournal
  <2>2. pc = "journal" /\ pc' = "runlog"
    BY <1>8 DEF AppendToJournal
  <2>3. UNCHANGED <<book, fresh, handled, file, whole, runlog, status, loaded, wiped, cut>>
    BY <1>8 DEF AppendToJournal
  <2>4. d \in file
    BY <2>1, <2>2 DEF Unlogged
  <2> QED BY <2>1, <2>2, <2>3, <2>4
<1>9. CASE AppendToRun
  BY <1>9 DEF AppendToRun
<1>10. CASE JournalDone
  BY <1>10 DEF JournalDone
<1>11. CASE Status
  BY <1>11 DEF Status
<1>12. CASE SleepOrStop
  BY <1>12 DEF SleepOrStop
<1>13. CASE Wake
  BY <1>13 DEF Wake
<1>14. CASE LeaveLoop
  BY <1>14 DEF LeaveLoop
<1>15. CASE Summary
  BY <1>15 DEF Summary
<1>16. CASE Start
  BY <1>16 DEF Start
<1>17. CASE Signal
  BY <1>17 DEF Signal
<1>18. CASE Damage
  BY <1>18 DEF Damage
<1>19. CASE OperatorLoads
  BY <1>19 DEF OperatorLoads
<1>20. CASE SaveFails \/ AppendFails \/ ReportFails \/ Kill
  BY <1>1, <1>20 DEF SaveFails, AppendFails, ReportFails, Kill, Running, Places
<1> QED BY <1>1, <1>2, <1>3, <1>4, <1>5, <1>6, <1>7, <1>8, <1>9, <1>10, <1>11, <1>12,
       <1>13, <1>14, <1>15, <1>16, <1>17, <1>18, <1>19, <1>20 DEF Next, Run, Persist

LEMMA IInvAlways == Spec => []IInv
<1>1. IInv /\ Next => IInv'
  BY FlagsStep, CountsStep, SetsStep, ClockStep, BooksStep, JournalsStep DEF IInv
<1>2. IInv /\ UNCHANGED vars => IInv'
  BY DEF IInv, FlagsTyped, CountsTyped, SetsTyped, Clock, Books, Journals, OnSchedule,
     Readable, JournalFollowsState, vars, Process, Disk, History
<1> QED BY <1>1, <1>2, IInvInit, PTL DEF Spec

-----------------------------------------------------------------------------
(* The theorems.                                                            *)

\* Every variable of the run keeps its type, and a run makes no more cycles than it was
\* asked for.
THEOREM RunTyped == Spec => []TypeOK
BY IInvAlways, TypeOKParts, PTL

\* state.json can be read at any moment of a run, and lacks at most the running pass,
\* whatever interrupts a save.
THEOREM SavesAlwaysAtomic == Spec => []SavesAreAtomic
<1>1. IInv => SavesAreAtomic
  BY DEF IInv, SavesAreAtomic, Readable, CountsTyped, Places, Books, Running, Saving,
     Logging, Saved
<1> QED BY <1>1, IInvAlways, PTL

\* The journals and the status snapshot never tell of what state.json does not contain,
\* and of all that it contains, unless the process died between the two writes.
THEOREM JournalAlwaysFollows == Spec => []JournalFollowsState
BY IInvAlways, PTL DEF IInv, Journals

\* A run that ends in order has saved and journalled everything it did.
THEOREM OrderlyEnd == Spec => []EndsInOrder
<1>1. IInv => EndsInOrder
  BY DEF IInv, EndsInOrder, Clock, Books, Journals
<1> QED BY <1>1, IInvAlways, PTL

\* The cycles begun are no more than the poll interval allows, whatever cycles take.
THEOREM CyclesOnSchedule == Spec => []OnSchedule
BY IInvAlways, PTL DEF IInv, Clock

-----------------------------------------------------------------------------
(* How long a pass can take: what lies behind RunEnds, without the fairness *)
(* that makes the process go on.                                            *)

\* The steps a process has at most before it is through with its pass.
StepsLeft ==
  LET unlogged == 2 * Cardinality(Unlogged)
  IN CASE pc = "load"              -> 11 + 2 * MaxBatch
       [] pc = "recover"           -> 10 + 2 * MaxBatch
       [] pc = "cycle"             -> 9 + 2 * MaxBatch
       [] pc = "save"              -> 8 + unlogged
       [] pc \in {"write", "runlog"} -> 7 + unlogged
       [] pc = "journal"           -> 6 + unlogged
       [] pc = "status"            -> 5
       [] pc = "report"            -> 4
       [] pc = "sleep"             -> 3
       [] pc = "loop"              -> 2
       [] pc = "summary"           -> 1
       [] pc \in {"down", "ended"} -> 0

\* A step of the process that begins no cycle brings it nearer to the end of its pass, and
\* nothing from outside takes it further away, or takes the STOP back: with STOP set no
\* cycle begins, and a run of n cycles begins n (cmd_run, _handle_sigint, _persist_cycle).
CountsDown ==
  [][ (pc \in Running) =>
        \/ /\ pc = "loop" /\ pc' = "cycle" /\ cycles' = cycles + 1
           /\ ~stop
        \/ /\ cycles' = cycles
           /\ StepsLeft' <= StepsLeft
           /\ Run => StepsLeft' < StepsLeft
           /\ stop => stop' \/ pc' = "down" ]_vars

\* The decisions of a pass are bounded.
Batch == Cardinality(fresh) <= MaxBatch

LEMMA BatchSize ==
  ASSUME NEW n \in Nat, NEW batch \in 0..MaxBatch
  PROVE  /\ IsFiniteSet((n + 1)..(n + batch))
         /\ Cardinality((n + 1)..(n + batch)) <= MaxBatch
<1>1. batch \in Nat /\ batch <= MaxBatch
  BY BoundsAssumption
<1>2. /\ IsFiniteSet((n + 1)..(n + batch))
      /\ Cardinality((n + 1)..(n + batch)) =
           IF n + 1 > n + batch THEN 0 ELSE (n + batch) - (n + 1) + 1
  BY <1>1, FS_Interval
<1> QED BY <1>1, <1>2, BoundsAssumption

LEMMA UnloggedSize ==
  ASSUME CountsTyped, SetsTyped
  PROVE  /\ IsFiniteSet(fresh) /\ IsFiniteSet(Unlogged)
         /\ Cardinality(fresh) \in Nat /\ Cardinality(Unlogged) \in Nat
         /\ Cardinality(Unlogged) <= Cardinality(fresh)
<1>1. IsFiniteSet(1..made)
  BY FS_Interval, BoundsAssumption DEF CountsTyped
<1>2. IsFiniteSet(fresh)
  BY <1>1, FS_Subset DEF SetsTyped
<1>3. Unlogged \subseteq fresh
  BY DEF Unlogged
<1> QED BY <1>2, <1>3, FS_Subset, FS_CardinalityType

LEMMA BatchStep ==
  ASSUME CountsTyped, SetsTyped, Batch, [Next]_vars
  PROVE  Batch'
<1>1. Cardinality({}) = 0
  BY FS_EmptySet
<1>2. made \in Nat
  BY BoundsAssumption DEF CountsTyped
<1>3. CASE fresh' \in {{}, fresh}
  BY <1>1, <1>3, BoundsAssumption DEF Batch
<1>4. CASE Recover \/ Cycle
  <2>1. PICK batch \in 0..MaxBatch : Decide(batch)
    BY <1>4 DEF Recover, Cycle
  <2> QED BY <1>2, <2>1, BatchSize DEF Decide, Batch
<1> QED
  BY <1>3, <1>4
  DEF Next, Run, Persist, Load, BeginCycle, BeginSave, Replace, SaveFails, AppendToJournal, AppendToRun,
      AppendFails, JournalDone, Status, SleepOrStop, Wake, LeaveLoop, Summary, ReportFails,
      Start, Signal, Kill, Damage, OperatorLoads, Die, GoTo, Install, vars, Process

\* So are the steps of a process that still has so many of them to journal.
Sized ==
  /\ Cardinality(Unlogged) \in 0..MaxBatch
  /\ StepsLeft \in 0..(11 + 2 * MaxBatch)
  /\ pc \in Running => StepsLeft > 0

LEMMA SizedByBatch ==
  CountsTyped /\ SetsTyped /\ Batch => Sized
<1> SUFFICES ASSUME CountsTyped, SetsTyped, Batch PROVE Sized
  OBVIOUS
<1>1. Cardinality(Unlogged) \in 0..MaxBatch
  BY UnloggedSize, BoundsAssumption DEF Batch
<1>2. PICK u \in 0..MaxBatch : Cardinality(Unlogged) = u
  BY <1>1
<1>3. MaxBatch \in Nat /\ u \in Nat /\ u <= MaxBatch
  BY BoundsAssumption
<1>4. StepsLeft \in 0..(11 + 2 * MaxBatch) /\ (pc \in Running => StepsLeft > 0)
  <2>1. CASE pc \in {"load", "recover", "cycle"}
    <3>1. StepsLeft \in {11 + 2 * MaxBatch, 10 + 2 * MaxBatch, 9 + 2 * MaxBatch}
      BY <2>1 DEF StepsLeft
    <3> QED BY <1>3, <3>1
  <2>2. CASE pc \in {"save", "write", "journal", "runlog"}
    <3>1. StepsLeft \in {8 + 2 * u, 7 + 2 * u, 6 + 2 * u}
      BY <1>2, <2>2 DEF StepsLeft
    <3> QED BY <1>3, <3>1
  <2>3. CASE pc \in {"status", "report", "sleep", "loop", "summary"}
    <3>1. StepsLeft \in {5, 4, 3, 2, 1}
      BY <2>3 DEF StepsLeft
    <3> QED BY <1>3, <3>1
  <2>4. CASE pc \in {"down", "ended"}
    BY <1>3, <2>4 DEF StepsLeft, Running
  <2> QED BY <2>1, <2>2, <2>3, <2>4 DEF CountsTyped, Places
<1> QED BY <1>1, <1>4 DEF Sized

LEMMA RunStepsDown ==
  ASSUME CountsTyped, SetsTyped, Clock, Sized, Run,
         NEW u \in 0..MaxBatch, Cardinality(Unlogged) = u,
         NEW v \in 0..MaxBatch, Cardinality(Unlogged') = v
  PROVE  \/ /\ pc = "loop" /\ pc' = "cycle" /\ cycles' = cycles + 1 /\ ~stop
         \/ /\ cycles' = cycles /\ StepsLeft' < StepsLeft
            /\ stop => stop' \/ pc' = "down"
<1>1. /\ MaxBatch \in Nat /\ u \in Nat /\ v \in Nat /\ u <= MaxBatch /\ v <= MaxBatch
      /\ pc \in Running => StepsLeft > 0
  BY BoundsAssumption DEF Sized
<1>2. ASSUME Die, pc \in Running
      PROVE  cycles' = cycles /\ pc' = "down" /\ StepsLeft' < StepsLeft
  <2>1. pc' = "down" /\ cycles' = cycles
    BY <1>2 DEF Die
  <2>2. StepsLeft' = 0
    BY <2>1 DEF StepsLeft
  <2> QED BY <1>1, <1>2, <2>1, <2>2
<1>3. CASE Load
  <2>1. pc = "load" /\ pc' = "recover" /\ cycles' = cycles /\ stop' = stop
    BY <1>3 DEF Load
  <2> QED BY <1>1, <2>1 DEF StepsLeft
<1>4. CASE Recover
  <2>1. pc = "recover" /\ pc' \in {"save", "loop"} /\ cycles' = cycles /\ stop' = stop
    BY <1>4 DEF Recover, Install
  <2>2. StepsLeft = 10 + 2 * MaxBatch
    BY <2>1 DEF StepsLeft
  <2>3. StepsLeft' \in {8 + 2 * v, 2}
    BY <2>1 DEF StepsLeft
  <2> QED BY <1>1, <2>1, <2>2, <2>3
<1>5. CASE BeginCycle
  BY <1>5 DEF BeginCycle, StopRead
<1>6. CASE Cycle
  <2>1. pc = "cycle" /\ pc' = "save" /\ cycles' = cycles /\ stop' = stop
    BY <1>6 DEF Cycle
  <2>2. StepsLeft = 9 + 2 * MaxBatch /\ StepsLeft' = 8 + 2 * v
    BY <2>1 DEF StepsLeft
  <2> QED BY <1>1, <2>1, <2>2
<1>7. CASE BeginSave \/ Replace
  <2>1. /\ \/ pc = "save" /\ pc' = "write"
           \/ pc = "write" /\ pc' = "journal"
        /\ cycles' = cycles /\ stop' = stop /\ fresh' = fresh /\ journal' = journal
    BY <1>7 DEF BeginSave, Replace, GoTo, Disk
  <2>2. v = u
    BY <2>1 DEF Unlogged
  <2>3. \/ StepsLeft = 8 + 2 * u /\ StepsLeft' = 7 + 2 * v
        \/ StepsLeft = 7 + 2 * u /\ StepsLeft' = 6 + 2 * v
    BY <2>1 DEF StepsLeft
  <2> QED BY <1>1, <2>1, <2>2, <2>3
<1>8. CASE AppendToJournal
  <2>1. PICK d \in Unlogged : journal' = journal \cup {d}
    BY <1>8 DEF AppendToJournal
  <2>2. /\ pc = "journal" /\ pc' = "runlog"
        /\ cycles' = cycles /\ stop' = stop /\ fresh' = fresh
    BY <1>8 DEF AppendToJournal, GoTo
  <2>3. Unlogged' = Unlogged \ {d}
    BY <2>1, <2>2 DEF Unlogged
  <2>4. v = u - 1
    BY <2>1, <2>3, UnloggedSize, FS_RemoveElement
  <2>5. StepsLeft = 6 + 2 * u /\ StepsLeft' = 7 + 2 * v
    BY <2>2 DEF StepsLeft
  <2> QED BY <1>1, <2>2, <2>4, <2>5
<1>9. CASE AppendToRun
  <2>1. /\ pc = "runlog" /\ pc' = "journal"
        /\ cycles' = cycles /\ stop' = stop /\ fresh' = fresh /\ journal' = journal
    BY <1>9 DEF AppendToRun, GoTo
  <2>2. v = u
    BY <2>1 DEF Unlogged
  <2>3. StepsLeft = 7 + 2 * u /\ StepsLeft' = 6 + 2 * v
    BY <2>1 DEF StepsLeft
  <2> QED BY <1>1, <2>1, <2>2, <2>3
<1>10. CASE JournalDone
  <2>1. pc = "journal" /\ pc' = "status" /\ cycles' = cycles /\ stop' = stop
    BY <1>10 DEF JournalDone, GoTo
  <2>2. StepsLeft = 6 + 2 * u /\ StepsLeft' = 5
    BY <2>1 DEF StepsLeft
  <2> QED BY <1>1, <2>1, <2>2
<1>11. CASE Status \/ SleepOrStop \/ Wake \/ LeaveLoop \/ Summary
  <2>1. /\ \/ pc = "status" /\ pc' \in {"report", "loop"}
           \/ pc = "report" /\ pc' \in {"summary", "sleep"}
           \/ pc = "sleep" /\ pc' = "loop"
           \/ pc = "loop" /\ pc' = "summary"
           \/ pc = "summary" /\ pc' = "ended"
        /\ cycles' = cycles /\ stop' = stop
    BY <1>11 DEF Status, SleepOrStop, Wake, LeaveLoop, Summary, GoTo, Install
  <2> QED BY <2>1 DEF StepsLeft
<1>12. CASE SaveFails \/ AppendFails \/ ReportFails
  BY <1>2, <1>12 DEF SaveFails, AppendFails, ReportFails, Running, Places
<1> QED BY <1>3, <1>4, <1>5, <1>6, <1>7, <1>8, <1>9, <1>10, <1>11, <1>12 DEF Run, Persist

\* Every pass of a run is over after a bounded number of its steps: a signal is never
\* followed by a further cycle, and neither journals nor sleeps keep the process from its
\* end.
THEOREM PassIsBounded == Spec => [](StepsLeft \in 0..(11 + 2 * MaxBatch)) /\ CountsDown
<1> DEFINE Inv == IInv /\ Batch /\ Sized
           Step == (pc \in Running) =>
             \/ /\ pc = "loop" /\ pc' = "cycle" /\ cycles' = cycles + 1
                /\ ~stop
             \/ /\ cycles' = cycles
                /\ StepsLeft' <= StepsLeft
                /\ Run => StepsLeft' < StepsLeft
                /\ stop => stop' \/ pc' = "down"
<1>1. Init => Batch
  BY FS_EmptySet, BoundsAssumption DEF Init, Batch
<1>2. IInv /\ Batch /\ [Next]_vars => Batch'
  BY BatchStep DEF IInv
<1>3. IInv /\ Batch => Sized
  BY SizedByBatch DEF IInv
<1>4. Sized => StepsLeft \in 0..(11 + 2 * MaxBatch)
  BY DEF Sized
<1>5. Inv /\ Sized' /\ [Next]_vars => [Step]_vars
  <2> SUFFICES ASSUME Inv, Sized', Next, pc \in Running
               PROVE  Step
    OBVIOUS
  <2>1. CountsTyped /\ SetsTyped /\ Clock
    BY DEF IInv
  <2>2. /\ StepsLeft \in Nat /\ StepsLeft' \in Nat /\ StepsLeft > 0
        /\ Cardinality(Unlogged) \in 0..MaxBatch /\ Cardinality(Unlogged') \in 0..MaxBatch
    BY BoundsAssumption DEF Sized
  <2>3. CASE Run
    BY <2>1, <2>2, <2>3, RunStepsDown
  <2>4. CASE ~Run /\ (Signal \/ OperatorLoads)
    <3>1. /\ pc' = pc /\ cycles' = cycles /\ fresh' = fresh /\ journal' = journal
          /\ stop => stop'
      BY <2>4 DEF Signal, OperatorLoads, Process, Disk
    <3>2. StepsLeft' = StepsLeft
      BY <3>1 DEF StepsLeft, Unlogged
    <3> QED BY <2>2, <2>4, <3>1, <3>2
  <2>5. CASE ~Run /\ Kill
    <3>1. pc' = "down" /\ cycles' = cycles
      BY <2>5 DEF Kill, Die
    <3>2. StepsLeft' = 0
      BY <3>1 DEF StepsLeft
    <3> QED BY <2>2, <2>5, <3>1, <3>2
  <2>6. ~Start /\ ~Damage
    BY DEF Start, Damage, Running
  <2> QED BY <2>3, <2>4, <2>5, <2>6 DEF Next
<1> QED BY <1>1, <1>2, <1>3, <1>4, <1>5, IInvAlways, PTL DEF Spec, CountsDown
=============================================================================
