------------------------- MODULE DiscoveryGateProofs -------------------------
(***************************************************************************)
(* Theorems about DiscoveryGate, for every set of tokens and every length  *)
(* of the intervals: its timestamps are real, its offers recent, and the   *)
(* stale rail lets no discovery through whose data is all too old.         *)
(***************************************************************************)
EXTENDS DiscoveryGate, TLAPS

-----------------------------------------------------------------------------
(* Type correctness *)

LEMMA TimesType ==
  /\ Never \in Times /\ 0..MaxTime \subseteq Times /\ Times \subseteq Int
  /\ NoData \in [Tokens -> Times] /\ Vacant \in Entry
  BY TimeAssumption DEF Times, Never, NoData, Vacant, Entry

\* What the rail is handed has its type.
LEMMA HandType ==
  ASSUME NEW c \in SUBSET Tokens, NEW checked \in Times, NEW cycle
  PROVE  Hand(c, checked, cycle) \in [candidates : SUBSET Tokens, checked : Times, stale : BOOLEAN]
<1>1. Stale(checked, cycle) \in BOOLEAN
  BY DEF Stale
<1> QED BY <1>1 DEF Hand

LEMMA BuiltType ==
  ASSUME TypeOK, NEW t \in Tokens, NEW entry \in Entry, Built(t, entry)
  PROVE  /\ todo' \subseteq Tokens /\ passed' \subseteq Tokens
         /\ stamp' \in Times /\ used' \in [Tokens -> Times]
<1>1. entry.made \in Times
  BY DEF Entry
<1> QED BY <1>1 DEF TypeOK, Built

LEMMA TypeInit == Init => TypeOK
<1> SUFFICES ASSUME Init PROVE TypeOK
  OBVIOUS
<1>1. offer \in [candidates : SUBSET Tokens, checked : Times, stale : BOOLEAN]
  BY TimesType, HandType DEF Init
<1>2. 0 \in 0..MaxTime
  BY TimeAssumption
<1> QED BY <1>1, <1>2, TimesType DEF Init, TypeOK, Phases, Discovery

LEMMA TypeStep ==
  ASSUME TypeOK, [Next]_vars
  PROVE  TypeOK'
<1> USE DEF TypeOK, working
<1>1. CASE BeginCached
  <2>1. last.candidates \in SUBSET Tokens /\ last.stamp \in Times
    BY DEF Discovery
  <2>2. offer' \in [candidates : SUBSET Tokens, checked : Times, stale : BOOLEAN]
    BY <1>1, <2>1, HandType DEF BeginCached
  <2> QED BY <1>1, <2>2 DEF BeginCached, Phases
<1>2. CASE BeginDiscovery
  BY <1>2, TimesType DEF BeginDiscovery, Phases
<1>3. ASSUME NEW t \in Tokens, BuildFromCache(t)
      PROVE  TypeOK'
  <2>1. cache[t] \in Entry
    OBVIOUS
  <2> QED BY <1>3, <2>1, BuiltType DEF BuildFromCache
<1>4. ASSUME NEW t \in Tokens, Fetch(t)
      PROVE  TypeOK'
  <2>1. PICK stamped \in BOOLEAN :
          /\ cache' = [cache EXCEPT ![t] = [anchor |-> time, made |-> time, stamped |-> stamped]]
          /\ Built(t, [anchor |-> time, made |-> time, stamped |-> stamped])
    BY <1>4 DEF Fetch
  <2>2. time \in Times
    BY TimesType
  <2>3. [anchor |-> time, made |-> time, stamped |-> stamped] \in Entry
    BY <2>2 DEF Entry
  <2>4. /\ todo' \subseteq Tokens /\ passed' \subseteq Tokens
        /\ stamp' \in Times /\ used' \in [Tokens -> Times]
    BY <2>1, <2>3, BuiltType
  <2>5. cache' \in [Tokens -> Entry]
    BY <2>1, <2>3
  <2> QED BY <1>4, <2>2, <2>4, <2>5 DEF Fetch
<1>5. ASSUME NEW t \in Tokens, FetchFails(t)
      PROVE  TypeOK'
  BY <1>5, TimesType DEF FetchFails
<1>6. CASE EndBuild
  BY <1>6 DEF EndBuild, Phases
<1>7. ASSUME NEW t \in Tokens, Probe(t)
      PROVE  TypeOK'
  BY <1>7 DEF Probe
<1>8. ASSUME NEW t \in Tokens, Abort(t)
      PROVE  TypeOK'
  <2>1. last.stamp \in Times
    BY DEF Discovery
  <2>2. Checked(Never, last.stamp) \in Times
    BY <2>1, TimesType DEF Checked
  <2>3. offer' \in [candidates : SUBSET Tokens, checked : Times, stale : BOOLEAN]
    BY <1>8, <2>2, HandType DEF Abort
  <2> QED BY <1>8, <2>3 DEF Abort, Phases
<1>9. CASE EndDiscovery
  <2>1. start \in Times /\ time \in Times
    BY TimesType
  <2>2. cache' \in [Tokens -> Entry]
    BY <1>9, <2>1 DEF EndDiscovery, Touched, Entry
  <2>3. last' \in Discovery /\ last'.stamp = stamp
    BY <1>9, <2>1 DEF EndDiscovery, Discovery
  <2>4. Checked(stamp, last'.stamp) \in Times
    BY <2>3 DEF Checked
  <2>5. offer' \in [candidates : SUBSET Tokens, checked : Times, stale : BOOLEAN]
    BY <1>9, <2>4, HandType DEF EndDiscovery
  <2> QED BY <1>9, <2>2, <2>3, <2>5 DEF EndDiscovery, Phases
<1>10. CASE EndCycle
  BY <1>10 DEF EndCycle, Phases
<1>11. CASE Tick
  BY <1>11, TimeAssumption DEF Tick
<1>12. CASE UNCHANGED vars
  BY <1>12 DEF vars
<1> QED BY <1>1, <1>2, <1>3, <1>4, <1>5, <1>6, <1>7, <1>8, <1>9, <1>10, <1>11, <1>12
        DEF Next, BuildStep, ProbeStep

\* TypeOK holds in every reachable state.
THEOREM TypeCorrect == Spec => []TypeOK
<1> QED BY TypeInit, TypeStep, PTL DEF Spec

-----------------------------------------------------------------------------
(* Timestamps are those of fetched data.                                    *)

\* The stamps of the running and of the last discovery, and what they are taken from, are no
\* later than the last fetch.
StampInv ==
  /\ TypeOK
  /\ fetched <= time
  /\ stamp <= fetched /\ last.stamp <= fetched
  /\ \A t \in Tokens : cache[t].made <= fetched
  /\ StampNeverInvented

LEMMA StampStep ==
  ASSUME StampInv, [Next]_vars
  PROVE  StampInv'
<1>1. /\ TypeOK /\ TypeOK' /\ fetched <= time /\ stamp <= fetched /\ last.stamp <= fetched
      /\ \A t \in Tokens : cache[t].made <= fetched
      /\ offer.checked <= fetched
  BY TypeStep DEF StampInv, StampNeverInvented
<1>2. /\ fetched \in Int /\ time \in Int /\ stamp \in Int /\ last.stamp \in Int
      /\ offer.checked \in Int /\ Never <= fetched
      /\ \A t \in Tokens : cache[t].made \in Int
  BY <1>1, TimeAssumption DEF TypeOK, Times, Never, Entry, Discovery
<1> USE DEF working
<1>3. CASE BeginCached
  <2>1. offer'.checked = last.stamp
    BY <1>3 DEF BeginCached, Hand
  <2> QED BY <1>1, <1>3, <2>1 DEF BeginCached, StampInv, StampNeverInvented
<1>4. CASE BeginDiscovery
  BY <1>1, <1>2, <1>4 DEF BeginDiscovery, StampInv, StampNeverInvented
<1>5. ASSUME NEW t \in Tokens, BuildFromCache(t)
      PROVE  StampInv'
  <2>1. stamp' <= fetched
    BY <1>1, <1>5 DEF BuildFromCache, Built
  <2> QED BY <1>1, <1>5, <2>1 DEF BuildFromCache, StampInv, StampNeverInvented
<1>6. ASSUME NEW t \in Tokens, Fetch(t)
      PROVE  StampInv'
  <2>1. PICK stamped \in BOOLEAN :
          /\ cache' = [cache EXCEPT ![t] = [anchor |-> time, made |-> time, stamped |-> stamped]]
          /\ Built(t, [anchor |-> time, made |-> time, stamped |-> stamped])
    BY <1>6 DEF Fetch
  <2>2. fetched' = time /\ time' = time /\ last' = last /\ offer' = offer
    BY <1>6 DEF Fetch
  <2>3. stamp' \in {stamp, time}
    BY <2>1 DEF Built
  <2>4. stamp' <= fetched' /\ last'.stamp <= fetched' /\ offer'.checked <= fetched'
    BY <1>1, <1>2, <2>2, <2>3
  <2>5. \A u \in Tokens : cache'[u].made <= fetched'
    <3>1. SUFFICES ASSUME NEW u \in Tokens PROVE cache'[u].made <= fetched'
      OBVIOUS
    <3>2. cache'[u].made \in {cache[u].made, time}
      BY <1>1, <2>1 DEF TypeOK
    <3> QED BY <1>1, <1>2, <2>2, <3>2
  <2> QED BY <1>1, <1>2, <2>2, <2>4, <2>5 DEF StampInv, StampNeverInvented
<1>7. ASSUME NEW t \in Tokens, FetchFails(t)
      PROVE  StampInv'
  <2>1. \A u \in Tokens : cache'[u].made \in {cache[u].made, Never}
    BY <1>1, <1>7 DEF FetchFails, Vacant, TypeOK
  <2> QED BY <1>1, <1>2, <1>7, <2>1 DEF FetchFails, StampInv, StampNeverInvented
<1>8. CASE EndBuild
  BY <1>1, <1>8 DEF EndBuild, StampInv, StampNeverInvented
<1>9. ASSUME NEW t \in Tokens, Probe(t)
      PROVE  StampInv'
  BY <1>1, <1>9 DEF Probe, StampInv, StampNeverInvented
<1>10. ASSUME NEW t \in Tokens, Abort(t)
       PROVE  StampInv'
  <2>1. offer'.checked = last.stamp
    BY <1>10 DEF Abort, Hand, Checked
  <2> QED BY <1>1, <1>10, <2>1 DEF Abort, StampInv, StampNeverInvented
<1>11. CASE EndDiscovery
  <2>1. last'.stamp = stamp /\ offer'.checked = stamp
    BY <1>11 DEF EndDiscovery, Hand, Checked
  <2>2. \A u \in Tokens : cache'[u].made = cache[u].made
    BY <1>1, <1>11 DEF EndDiscovery, Touched, TypeOK, Entry
  <2> QED BY <1>1, <1>11, <2>1, <2>2 DEF EndDiscovery, StampInv, StampNeverInvented
<1>12. CASE EndCycle
  BY <1>1, <1>12 DEF EndCycle, StampInv, StampNeverInvented
<1>13. CASE Tick
  BY <1>1, <1>2, <1>13 DEF Tick, StampInv, StampNeverInvented
<1>14. CASE UNCHANGED vars
  BY <1>1, <1>14 DEF vars, StampInv, StampNeverInvented
<1> QED BY <1>3, <1>4, <1>5, <1>6, <1>7, <1>8, <1>9, <1>10, <1>11, <1>12, <1>13, <1>14
        DEF Next, BuildStep, ProbeStep

\* The timestamp the rail is tested with is never later than the last data fetched.
THEOREM StampIsReal == Spec => []StampNeverInvented
<1>1. Init => StampInv
  BY TypeInit, TimeAssumption
  DEF Init, StampInv, StampNeverInvented, Hand, Vacant, Never, NoData
<1>2. StampInv => StampNeverInvented
  BY DEF StampInv
<1> QED BY <1>1, <1>2, StampStep, PTL DEF Spec

-----------------------------------------------------------------------------
(* Offers are recent.                                                       *)

OffersInv == TypeOK /\ OffersAreRecent

LEMMA OffersStep ==
  ASSUME OffersInv, [Next]_vars
  PROVE  OffersInv'
<1>1. TypeOK /\ TypeOK' /\ OffersAreRecent
  BY TypeStep DEF OffersInv
<1> SUFFICES OffersAreRecent'
  BY <1>1 DEF OffersInv
<1>2. CASE BeginCached
  BY <1>2 DEF BeginCached, Recent, Hand, OffersAreRecent
<1>3. CASE BeginDiscovery
  BY <1>3 DEF BeginDiscovery, OffersAreRecent
<1>4. ASSUME NEW t \in Tokens, BuildStep(t)
      PROVE  OffersAreRecent'
  BY <1>4 DEF BuildStep, BuildFromCache, Fetch, FetchFails, OffersAreRecent
<1>5. CASE EndBuild
  BY <1>5 DEF EndBuild, OffersAreRecent
<1>6. ASSUME NEW t \in Tokens, ProbeStep(t)
      PROVE  OffersAreRecent'
  BY <1>6 DEF ProbeStep, Probe, Abort, Hand, OffersAreRecent
<1>7. CASE EndDiscovery
  <2>1. last'.at = start /\ start' = start /\ last'.candidates = offer'.candidates
    BY <1>7 DEF EndDiscovery, Hand
  <2>2. start - start < Interval
    BY <1>1, TimeAssumption DEF TypeOK
  <2> QED BY <2>1, <2>2 DEF OffersAreRecent
<1>8. CASE EndCycle
  BY <1>8 DEF EndCycle, OffersAreRecent
<1>9. CASE Tick
  BY <1>1, <1>9 DEF Tick, OffersAreRecent
<1>10. CASE UNCHANGED vars
  BY <1>1, <1>10 DEF vars, OffersAreRecent
<1> QED BY <1>2, <1>3, <1>4, <1>5, <1>6, <1>7, <1>8, <1>9, <1>10 DEF Next

\* Candidates are offered only within the interval of the discovery that found them.
THEOREM OnlyRecentOffers == Spec => []OffersAreRecent
<1>1. Init => OffersInv
  BY TypeInit DEF Init, OffersInv, OffersAreRecent
<1>2. OffersInv => OffersAreRecent
  BY DEF OffersInv
<1> QED BY <1>1, <1>2, OffersStep, PTL DEF Spec

-----------------------------------------------------------------------------
(* Some data is fresh.                                                      *)

\* A cached entry has its timestamp.
CacheStamped ==
  \A t \in Tokens : cache[t].anchor # Never => cache[t].stamped /\ cache[t].made # Never

\* A running discovery with candidates has a timestamp, that of a token it built; a token is
\* built once.
RunStamped ==
  phase \in {"build", "probe"} =>
    /\ found \subseteq passed
    /\ passed # {} => stamp # Never
    /\ stamp # Never => \E t \in Tokens : used[t] = stamp
    /\ phase = "build" => \A t \in todo : used[t] = Never
    /\ phase = "probe" => todo \subseteq passed

\* So has the last discovery.
LastStamped ==
  /\ last.candidates # {} => last.stamp # Never
  /\ last.stamp # Never => \E t \in Tokens : last.data[t] = last.stamp

FreshInv == TypeOK /\ CacheStamped /\ RunStamped /\ LastStamped /\ NotAllStale

\* A token that is built with a timestamp keeps the discovery stamped.
LEMMA BuiltStamped ==
  ASSUME TypeOK, RunStamped, phase = "build", phase' = phase, found' = found,
         NEW t \in todo, NEW entry \in Entry, entry.stamped, entry.made # Never,
         Built(t, entry)
  PROVE  RunStamped'
<1>1. /\ t \in Tokens /\ used[t] = Never
      /\ found \subseteq passed
      /\ passed # {} => stamp # Never
      /\ stamp # Never => \E u \in Tokens : used[u] = stamp
      /\ \A u \in todo : used[u] = Never
  BY DEF RunStamped, TypeOK
<1>2. /\ todo' = todo \ {t}
      /\ used' = [used EXCEPT ![t] = entry.made]
      /\ stamp' = IF stamp = Never /\ entry.stamped THEN entry.made ELSE stamp
      /\ passed' \in {passed, passed \cup {t}}
  BY DEF Built
<1>3. stamp' # Never
  BY <1>2
<1>4. \E u \in Tokens : used'[u] = stamp'
  <2>1. CASE stamp = Never
    <3>1. used'[t] = stamp'
      BY <1>1, <1>2, <2>1 DEF TypeOK
    <3> QED BY <1>1, <3>1
  <2>2. CASE stamp # Never
    <3>1. PICK u \in Tokens : used[u] = stamp
      BY <1>1, <2>2
    <3>2. used'[u] = stamp'
      BY <1>1, <1>2, <2>2, <3>1 DEF TypeOK
    <3> QED BY <3>2
  <2> QED BY <2>1, <2>2
<1>5. \A u \in todo' : used'[u] = Never
  BY <1>1, <1>2 DEF TypeOK
<1>6. found' \subseteq passed'
  BY <1>1, <1>2
<1> QED BY <1>3, <1>4, <1>5, <1>6 DEF RunStamped

LEMMA FreshStep ==
  ASSUME "no_stamp" \notin Faults, FreshInv, [Next]_vars
  PROVE  FreshInv'
<1>1. /\ TypeOK /\ CacheStamped /\ RunStamped /\ LastStamped /\ NotAllStale
      /\ TypeOK'
  BY TypeStep DEF FreshInv
<1> SUFFICES CacheStamped' /\ RunStamped' /\ LastStamped' /\ NotAllStale'
  BY <1>1 DEF FreshInv
<1> USE DEF working
<1>2. CASE BeginCached
  <2>1. CacheStamped' /\ LastStamped'
    BY <1>1, <1>2 DEF BeginCached, CacheStamped, LastStamped
  <2>2. RunStamped'
    BY <1>2 DEF BeginCached, RunStamped
  <2>3. ASSUME offer'.candidates # {}, ~offer'.stale
        PROVE  \E t \in Tokens : last'.data[t] # Never /\ start' - last'.data[t] <= StaleAfter
    <3>1. /\ last.candidates # {} /\ ~Stale(last.stamp, time)
          /\ last' = last /\ start' = time
      BY <1>2, <2>3 DEF BeginCached, Hand
    <3>2. PICK t \in Tokens : last.data[t] = last.stamp /\ last.stamp # Never
      BY <1>1, <3>1 DEF LastStamped
    <3>3. time - last.data[t] <= StaleAfter
      BY <1>1, <3>1, <3>2, TimeAssumption DEF Stale, TypeOK, Discovery, Times, Never
    <3> QED BY <3>1, <3>2, <3>3
  <2> QED BY <2>1, <2>2, <2>3 DEF NotAllStale
<1>3. CASE BeginDiscovery
  <2>1. CacheStamped' /\ LastStamped'
    BY <1>1, <1>3 DEF BeginDiscovery, CacheStamped, LastStamped
  <2>2. RunStamped'
    BY <1>1, <1>3 DEF BeginDiscovery, RunStamped, NoData, TypeOK
  <2> QED BY <1>3, <2>1, <2>2 DEF BeginDiscovery, NotAllStale
<1>4. ASSUME NEW t \in Tokens, BuildFromCache(t)
      PROVE  CacheStamped' /\ RunStamped' /\ LastStamped' /\ NotAllStale'
  <2>1. /\ phase = "build" /\ phase' = phase /\ found' = found /\ t \in todo
        /\ cache' = cache /\ last' = last /\ Built(t, cache[t])
        /\ cache[t].anchor # Never
    BY <1>4 DEF BuildFromCache, Cached
  <2>2. cache[t] \in Entry /\ cache[t].stamped /\ cache[t].made # Never
    BY <1>1, <2>1 DEF CacheStamped, TypeOK
  <2>3. RunStamped'
    BY <1>1, <2>1, <2>2, BuiltStamped
  <2> QED BY <1>1, <2>1, <2>3 DEF CacheStamped, LastStamped, NotAllStale
<1>5. ASSUME NEW t \in Tokens, Fetch(t)
      PROVE  CacheStamped' /\ RunStamped' /\ LastStamped' /\ NotAllStale'
  <2> DEFINE entry == [anchor |-> time, made |-> time, stamped |-> TRUE]
  <2>1. /\ phase = "build" /\ phase' = phase /\ found' = found /\ t \in todo
        /\ last' = last
        /\ cache' = [cache EXCEPT ![t] = entry] /\ Built(t, entry)
    BY <1>5 DEF Fetch
  <2>2. entry \in Entry /\ entry.stamped /\ entry.made # Never
    BY <1>1, TimeAssumption DEF TypeOK, Entry, Times, Never
  <2>3. RunStamped'
    <3> HIDE DEF entry
    <3> QED BY <1>1, <2>1, <2>2, BuiltStamped
  <2>4. CacheStamped'
    BY <1>1, <2>1, <2>2 DEF CacheStamped, TypeOK
  <2> QED BY <1>1, <2>1, <2>3, <2>4 DEF LastStamped, NotAllStale
<1>6. ASSUME NEW t \in Tokens, FetchFails(t)
      PROVE  CacheStamped' /\ RunStamped' /\ LastStamped' /\ NotAllStale'
  <2>1. CacheStamped'
    BY <1>1, <1>6 DEF FetchFails, CacheStamped, Vacant, TypeOK
  <2>2. RunStamped'
    BY <1>1, <1>6 DEF FetchFails, RunStamped
  <2> QED BY <1>1, <1>6, <2>1, <2>2 DEF FetchFails, LastStamped, NotAllStale
<1>7. CASE EndBuild
  <2>1. RunStamped'
    BY <1>1, <1>7 DEF EndBuild, RunStamped
  <2> QED BY <1>1, <1>7, <2>1 DEF EndBuild, CacheStamped, LastStamped, NotAllStale
<1>8. ASSUME NEW t \in Tokens, Probe(t)
      PROVE  CacheStamped' /\ RunStamped' /\ LastStamped' /\ NotAllStale'
  <2>1. RunStamped'
    BY <1>1, <1>8 DEF Probe, RunStamped
  <2> QED BY <1>1, <1>8, <2>1 DEF Probe, CacheStamped, LastStamped, NotAllStale
<1>9. ASSUME NEW t \in Tokens, Abort(t)
      PROVE  CacheStamped' /\ RunStamped' /\ LastStamped' /\ NotAllStale'
  <2>1. RunStamped'
    BY <1>9 DEF Abort, RunStamped
  <2>2. offer'.candidates = {}
    BY <1>9 DEF Abort, Hand
  <2> QED BY <1>1, <1>9, <2>1, <2>2 DEF Abort, CacheStamped, LastStamped, NotAllStale
<1>10. CASE EndDiscovery
  <2>1. /\ last'.at = start /\ last'.candidates = found /\ last'.stamp = stamp
        /\ last'.data = used /\ start' = start
        /\ offer'.candidates = found
        /\ offer'.stale = Stale(Checked(stamp, stamp), start)
    BY <1>10 DEF EndDiscovery, Hand
  <2>2. /\ found # {} => stamp # Never
        /\ stamp # Never => \E t \in Tokens : used[t] = stamp
    BY <1>1, <1>10 DEF EndDiscovery, RunStamped
  <2>3. CacheStamped'
    <3>1. \A t \in Tokens :
            /\ cache'[t].stamped = cache[t].stamped /\ cache'[t].made = cache[t].made
            /\ cache'[t].anchor # Never => cache[t].anchor # Never
      BY <1>1, <1>10 DEF EndDiscovery, Touched, TypeOK, Entry
    <3> QED BY <1>1, <3>1 DEF CacheStamped
  <2>4. RunStamped'
    BY <1>10 DEF EndDiscovery, RunStamped
  <2>5. LastStamped'
    BY <2>1, <2>2 DEF LastStamped
  <2>6. ASSUME offer'.candidates # {}, ~offer'.stale
        PROVE  \E t \in Tokens : last'.data[t] # Never /\ start' - last'.data[t] <= StaleAfter
    <3>1. stamp # Never /\ ~Stale(stamp, start)
      BY <2>1, <2>2, <2>6 DEF Checked
    <3>2. start - stamp <= StaleAfter
      BY <1>1, <3>1, TimeAssumption DEF Stale, TypeOK, Times, Never
    <3> QED BY <2>1, <2>2, <3>1, <3>2
  <2> QED BY <2>3, <2>4, <2>5, <2>6 DEF NotAllStale
<1>11. CASE EndCycle
  BY <1>1, <1>11 DEF EndCycle, CacheStamped, RunStamped, LastStamped, NotAllStale
<1>12. CASE Tick
  BY <1>1, <1>12 DEF Tick, CacheStamped, RunStamped, LastStamped, NotAllStale
<1>13. CASE UNCHANGED vars
  BY <1>1, <1>13 DEF vars, CacheStamped, RunStamped, LastStamped, NotAllStale
<1> QED BY <1>2, <1>3, <1>4, <1>5, <1>6, <1>7, <1>8, <1>9, <1>10, <1>11, <1>12, <1>13
        DEF Next, BuildStep, ProbeStep

\* If every token comes with its timestamp, entries run only on a discovery that knew at
\* least one token by data younger than the limit.
THEOREM SomeDataIsFresh ==
  ASSUME "no_stamp" \notin Faults
  PROVE  Spec => []NotAllStale
<1>1. Init => FreshInv
  BY TypeInit DEF Init, FreshInv, CacheStamped, RunStamped, LastStamped, NotAllStale, Vacant
<1>2. FreshInv /\ [Next]_vars => FreshInv'
  BY FreshStep
<1>3. FreshInv => NotAllStale
  BY DEF FreshInv
<1> QED BY <1>1, <1>2, <1>3, PTL DEF Spec

-----------------------------------------------------------------------------
(* An outage.  The rail may stay open (OutageStopsEntries is refuted), but  *)
(* then there is nothing to enter.                                          *)

\* run_cycle, _evaluate_safety: once Birdeye has answered nothing for longer than the limit
\* before the cycle, either the rail is closed or there are no candidates.
OutageOffersNothing ==
  phase = "entries" /\ start - fetched > StaleAfter => offer.candidates = {} \/ offer.stale

\* What entries go by: the rail follows from the timestamp, and candidates have one.
HandInv ==
  phase = "entries" =>
    /\ offer.stale = Stale(offer.checked, start)
    /\ offer.candidates # {} => offer.checked # Never

OutageInv == StampInv /\ FreshInv /\ HandInv

LEMMA HandEffect ==
  ASSUME NEW c, NEW checked, NEW cycle
  PROVE  /\ Hand(c, checked, cycle).candidates = c
         /\ Hand(c, checked, cycle).checked = checked
         /\ Hand(c, checked, cycle).stale = Stale(checked, cycle)
  BY DEF Hand

LEMMA HandStep ==
  ASSUME OutageInv, [Next]_vars
  PROVE  HandInv'
<1>1. RunStamped /\ LastStamped /\ HandInv
  BY DEF OutageInv, FreshInv
<1> USE DEF working
<1>2. CASE BeginCached
  <2>1. /\ offer' = Hand(last.candidates, last.stamp, time) /\ start' = time
        /\ last.candidates # {} => last.stamp # Never
    BY <1>1, <1>2 DEF BeginCached, LastStamped
  <2> QED BY <2>1, HandEffect DEF HandInv
<1>3. CASE BeginDiscovery
  BY <1>3 DEF BeginDiscovery, HandInv
<1>4. ASSUME NEW t \in Tokens, BuildStep(t)
      PROVE  HandInv'
  BY <1>4 DEF BuildStep, BuildFromCache, Fetch, FetchFails, HandInv
<1>5. CASE EndBuild
  BY <1>5 DEF EndBuild, HandInv
<1>6. ASSUME NEW t \in Tokens, Probe(t)
      PROVE  HandInv'
  BY <1>6 DEF Probe, HandInv
<1>7. ASSUME NEW t \in Tokens, Abort(t)
      PROVE  HandInv'
  <2>1. offer' = Hand({}, Checked(Never, last.stamp), start) /\ start' = start
    BY <1>7 DEF Abort
  <2> QED BY <2>1, HandEffect DEF HandInv
<1>8. CASE EndDiscovery
  <2>1. /\ offer' = Hand(found, Checked(stamp, last'.stamp), start)
        /\ last'.stamp = stamp /\ start' = start
    BY <1>8 DEF EndDiscovery
  <2>2. found # {} => stamp # Never
    BY <1>1, <1>8 DEF EndDiscovery, RunStamped
  <2>3. Checked(stamp, last'.stamp) = stamp
    BY <2>1 DEF Checked
  <2> QED BY <2>1, <2>2, <2>3, HandEffect DEF HandInv
<1>9. CASE EndCycle
  BY <1>9 DEF EndCycle, HandInv
<1>10. CASE Tick
  BY <1>1, <1>10 DEF Tick, HandInv
<1>11. CASE UNCHANGED vars
  BY <1>1, <1>11 DEF vars, HandInv
<1> QED BY <1>2, <1>3, <1>4, <1>5, <1>6, <1>7, <1>8, <1>9, <1>10, <1>11
        DEF Next, ProbeStep

\* If every token comes with its timestamp, an outage longer than the limit lets no position
\* be opened, whatever the caches still hold.
THEOREM OutageStarvesEntries ==
  ASSUME "no_stamp" \notin Faults
  PROVE  Spec => []OutageOffersNothing
<1>1. Init => OutageInv
  BY TypeInit, TimeAssumption
  DEF Init, OutageInv, StampInv, FreshInv, HandInv, StampNeverInvented, CacheStamped,
      RunStamped, LastStamped, NotAllStale, Hand, Vacant, Never, NoData
<1>2. OutageInv /\ [Next]_vars => OutageInv'
  BY StampStep, FreshStep, HandStep DEF OutageInv
<1>3. OutageInv => OutageOffersNothing
  <2> SUFFICES ASSUME OutageInv, phase = "entries", start - fetched > StaleAfter,
                      offer.candidates # {}
               PROVE  offer.stale
    BY DEF OutageOffersNothing
  <2>1. offer.stale = Stale(offer.checked, start) /\ offer.checked # Never
    BY DEF OutageInv, HandInv
  <2>2. /\ offer.checked <= fetched
        /\ offer.checked \in Int /\ fetched \in Int /\ start \in Int
    BY TimesType, TimeAssumption DEF OutageInv, StampInv, StampNeverInvented, TypeOK
  <2>3. start - offer.checked > StaleAfter
    BY <2>2, TimeAssumption
  <2> QED BY <2>1, <2>3 DEF Stale
<1> QED BY <1>1, <1>2, <1>3, PTL DEF Spec
=============================================================================
