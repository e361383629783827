---------------------------- MODULE DiscoveryGate ----------------------------
(***************************************************************************)
(* Where the candidates of a cycle come from, how old the data behind them *)
(* is, and whether the stale-data rail lets entries run on them.           *)
(*                                                                         *)
(* Source: engine/trader.py (run_cycle, _discover_with_cadence, the stale  *)
(* rail of _evaluate_safety), engine/discovery.py (discover_candidates),   *)
(* cache.py (TTLCache).                                                    *)
(*                                                                         *)
(* Time passes at any moment, also during a discovery.  The data of a      *)
(* token is as old as the request that fetched it; Birdeye may leave its   *)
(* timestamp (overview.updatedAt) out.  Which tokens pass the filters and  *)
(* the route probes is open, and so are the orders of the two loops.  The  *)
(* route cache only saves requests, and is left out.  Nothing here is      *)
(* saved: a restart is a new initial state.                                *)
(***************************************************************************)
EXTENDS Integers, FiniteSets

CONSTANTS
  Tokens,     \* tokens Birdeye may list
  Ttl,        \* candidate_cache_ttl_seconds
  Interval,   \* discovery_interval_seconds
  StaleAfter, \* stale_market_data_minutes
  TopN,       \* max_active_candidates
  Faults,     \* what can go wrong outside the process
  MaxTime     \* bound on the clock

FaultKinds ==
  { "no_seeds",      \* both seed requests fail, or no seed passes the prefilter
    "build_fails",   \* a request for a token's data fails
    "no_stamp",      \* a token's data comes without a timestamp
    "probe_raises" } \* a route probe fails with an error that is not caught

ASSUME TimeAssumption ==
  /\ Ttl \in Nat \ {0} /\ Interval \in Nat \ {0} /\ StaleAfter \in Nat \ {0}
  /\ MaxTime \in Nat
ASSUME DiscoveryAssumption == TopN \in Nat /\ Faults \subseteq FaultKinds

VARIABLES
  time,    \* the clock
  start,   \* when the current cycle began
  phase,   \* where the process is in its cycle
  todo,    \* seeds to build, or candidates to probe
  passed,  \* candidates that passed the filters before the probes
  found,   \* candidates accepted by the running discovery
  stamp,   \* market_data_checked_at of the running discovery
  used,    \* candidate_keys_used: how old is the data of each token built
  cache,   \* the candidate cache
  last,    \* _last_discovery_at, _last_discovery_candidates and _last_discovery_summary
  offer,   \* what the cycle goes by: candidates, timestamp, and whether the rail is closed
  fetched  \* history: when data was last fetched from Birdeye

working == <<todo, passed, found, stamp, used>>
vars == <<time, start, phase, working, cache, last, offer, fetched>>

Never == -1
Times == Never..MaxTime
Phases == {"idle", "build", "probe", "entries"}

Entry == [anchor : Times, made : Times, stamped : BOOLEAN]
Vacant == [anchor |-> Never, made |-> Never, stamped |-> FALSE]
NoData == [t \in Tokens |-> Never]
Discovery ==
  [at : Times, candidates : SUBSET Tokens, stamp : Times, data : [Tokens -> Times]]

\* _evaluate_safety: a cycle without any timestamp is not stopped.
Stale(checked, cycle) == checked # Never /\ cycle - checked > StaleAfter

CheckedNow(summary, fallback) == IF summary # Never THEN summary ELSE time \* mutant: now()

\* run_cycle: without a timestamp it falls back on that of the last discovery.
Checked(summary, fallback) == IF summary # Never THEN summary ELSE fallback

HandAge(candidates, checked, cycle) == \* mutant: the age stands for the timestamp
  [candidates |-> candidates, checked |-> cycle - checked, stale |-> Stale(checked, cycle)]

\* What the rest of the cycle is given.
Hand(candidates, checked, cycle) ==
  [candidates |-> candidates, checked |-> checked, stale |-> Stale(checked, cycle)]

-----------------------------------------------------------------------------
(* A cycle begins.                                                          *)

\* _discover_with_cadence: the last discovery is used again.
Recent == last.at # Never /\ time - last.at < Interval

BeginCached ==
  /\ phase = "idle"
  /\ Recent
  /\ start' = time
  /\ offer' = Hand(last.candidates, last.stamp, time)
  /\ phase' = "entries"
  /\ UNCHANGED <<time, cache, last, fetched, working>>

\* The seeds that pass _seed_prefilter.  A failed seed request is logged and swallowed.
BeginDiscovery ==
  /\ phase = "idle"
  /\ ~Recent
  /\ start' = time
  /\ todo' \in SUBSET Tokens
  /\ todo' = {} => "no_seeds" \in Faults
  /\ passed' = {} /\ found' = {} /\ stamp' = Never /\ used' = NoData
  /\ phase' = "build"
  /\ UNCHANGED <<time, cache, last, offer, fetched>>

-----------------------------------------------------------------------------
(* discover_candidates                                                      *)

\* TTLCache.get
Cached(t) == cache[t].anchor # Never /\ time - cache[t].anchor <= Ttl

BuiltByClock(t, entry) == \* mutant: cached data counts as data of now
  /\ todo' = todo \ {t}
  /\ used' = [used EXCEPT ![t] = entry.made]
  /\ stamp' = IF stamp = Never /\ entry.stamped THEN time ELSE stamp
  /\ passed' \in {passed, passed \cup {t}}

\* The first timestamp counts.  The token may fail the filters.
Built(t, entry) ==
  /\ todo' = todo \ {t}
  /\ used' = [used EXCEPT ![t] = entry.made]
  /\ stamp' = IF stamp = Never /\ entry.stamped THEN entry.made ELSE stamp
  /\ passed' \in {passed, passed \cup {t}}

BuildFromCache(t) ==
  /\ phase = "build" /\ t \in todo
  /\ Cached(t)
  /\ Built(t, cache[t])
  /\ UNCHANGED <<time, start, phase, found, cache, last, offer, fetched>>

Fetch(t) ==
  /\ phase = "build" /\ t \in todo
  /\ ~Cached(t)
  /\ \E stamped \in BOOLEAN :
       LET entry == [anchor |-> time, made |-> time, stamped |-> stamped]
       IN  /\ stamped \/ "no_stamp" \in Faults
           /\ cache' = [cache EXCEPT ![t] = entry]
           /\ Built(t, entry)
  /\ fetched' = time
  /\ UNCHANGED <<time, start, phase, found, last, offer>>

\* The expired entry is gone all the same.
FetchFails(t) ==
  /\ phase = "build" /\ t \in todo
  /\ ~Cached(t)
  /\ "build_fails" \in Faults
  /\ cache' = [cache EXCEPT ![t] = Vacant]
  /\ todo' = todo \ {t}
  /\ UNCHANGED <<time, start, phase, passed, found, stamp, used, last, offer, fetched>>

\* The best TopN are probed.
EndBuild ==
  /\ phase = "build" /\ todo = {}
  /\ todo' \in SUBSET passed
  /\ Cardinality(todo') <= TopN
  /\ Cardinality(todo') = TopN \/ todo' = passed
  /\ phase' = "probe"
  /\ UNCHANGED <<time, start, passed, found, stamp, used, cache, last, offer, fetched>>

\* The buy and the sell probe: the candidate is accepted or rejected.
Probe(t) ==
  /\ phase = "probe" /\ t \in todo
  /\ todo' = todo \ {t}
  /\ found' \in {found, found \cup {t}}
  /\ UNCHANGED <<time, start, phase, passed, stamp, used, cache, last, offer, fetched>>

AbortOffersLast(t) == \* mutant: a failed discovery offers what the last one found
  /\ phase = "probe" /\ t \in todo
  /\ "probe_raises" \in Faults
  /\ offer' = Hand(last.candidates, Checked(Never, last.stamp), start)
  /\ phase' = "entries"
  /\ UNCHANGED <<time, start, cache, last, fetched, working>>

\* The discovery raises: run_cycle goes on without candidates, and with the timestamp of the
\* last discovery.
Abort(t) ==
  /\ phase = "probe" /\ t \in todo
  /\ "probe_raises" \in Faults
  /\ offer' = Hand({}, Checked(Never, last.stamp), start)
  /\ phase' = "entries"
  /\ UNCHANGED <<time, start, cache, last, fetched, working>>

\* TTLCache.touch_keys
Touched == [t \in Tokens |->
  IF used[t] # Never /\ cache[t].anchor # Never THEN [cache[t] EXCEPT !.anchor = time]
                                                ELSE cache[t]]

\* The used entries are touched and the discovery becomes the last one, whatever it found:
\* a timestamp it does not have is no longer there to fall back on.
EndDiscovery ==
  /\ phase = "probe" /\ todo = {}
  /\ cache' = Touched
  /\ last' = [at |-> start, candidates |-> found, stamp |-> stamp, data |-> used]
  /\ offer' = Hand(found, Checked(stamp, last'.stamp), start)
  /\ phase' = "entries"
  /\ UNCHANGED <<time, start, fetched, working>>

\* The rest of the cycle.
EndCycle ==
  /\ phase = "entries"
  /\ phase' = "idle"
  /\ UNCHANGED <<time, start, cache, last, offer, fetched, working>>

Tick ==
  /\ time < MaxTime
  /\ time' = time + 1
  /\ UNCHANGED <<start, phase, cache, last, offer, fetched, working>>

-----------------------------------------------------------------------------

Init ==
  /\ time = 0 /\ start = 0
  /\ phase = "idle"
  /\ todo = {} /\ passed = {} /\ found = {} /\ stamp = Never /\ used = NoData
  /\ cache = [t \in Tokens |-> Vacant]
  /\ last = [at |-> Never, candidates |-> {}, stamp |-> Never, data |-> NoData]
  /\ offer = Hand({}, Never, 0)
  /\ fetched = Never

BuildStep(t) == BuildFromCache(t) \/ Fetch(t) \/ FetchFails(t)
ProbeStep(t) == Probe(t) \/ Abort(t)

Next ==
  \/ BeginCached
  \/ BeginDiscovery
  \/ \E t \in Tokens : BuildStep(t) \/ ProbeStep(t)
  \/ EndBuild
  \/ EndDiscovery
  \/ EndCycle
  \/ Tick

Spec == Init /\ [][Next]_vars

-----------------------------------------------------------------------------
(* Properties *)

TypeOK ==
  /\ time \in 0..MaxTime /\ start \in 0..MaxTime
  /\ phase \in Phases
  /\ todo \subseteq Tokens /\ passed \subseteq Tokens /\ found \subseteq Tokens
  /\ stamp \in Times
  /\ used \in [Tokens -> Times]
  /\ cache \in [Tokens -> Entry]
  /\ last \in Discovery
  /\ offer \in [candidates : SUBSET Tokens, checked : Times, stale : BOOLEAN]
  /\ fetched \in Times

\* trader.py, run_cycle: "Never substitute now() here: that would mask a discovery outage
\* as 'data is fresh'".  The timestamp the rail is tested with is that of data that has
\* really been fetched, in the discovery or before.
StampNeverInvented == offer.checked <= fetched

\* Candidates are offered only within the discovery interval of the discovery that found
\* them: never those of an older one, also when discoveries fail in between.
OffersAreRecent ==
  phase = "entries" /\ offer.candidates # {} =>
    /\ offer.candidates \subseteq last.candidates
    /\ start - last.at < Interval

\* If every token comes with its timestamp, entries run only on a discovery that knew at
\* least one token by data younger than the limit, however long the caches have kept the
\* others.
NotAllStale ==
  phase = "entries" /\ offer.candidates # {} /\ ~offer.stale =>
    \E t \in Tokens : last.data[t] # Never /\ start - last.data[t] <= StaleAfter

-----------------------------------------------------------------------------
(* What the repository says of the gate, and the code does not do.           *)

\* trader.py, run_cycle: "Discovery failed - use last known successful timestamp so
\* stale-data gate fires correctly".  After the limit without any data from Birdeye the
\* rail is closed.
OutageStopsEntries ==
  phase = "entries" /\ fetched # Never /\ start - fetched > StaleAfter => offer.stale
=============================================================================
