----------------------------- MODULE QueryWatch -----------------------------
(***************************************************************************)
(* Two watchers around an executor: N1Detector (query/n1detector.go) takes *)
(* the time of a statement, then the lock, and looks for bursts of one     *)
(* pattern; Profiler (core/profiler.go) keeps the last statements that     *)
(* ran.  Goroutines reach the lock in any order, also after others with    *)
(* later times.                                                            *)
(***************************************************************************)
EXTENDS Integers, Sequences, FiniteSets

CONSTANTS Routines, Patterns,
          Threshold, TimeWindow,        \* N1DetectorConfig
          CleanWindows, KeepWindows,    \* 10 and 2 in the code
          MaxQueries,                   \* ProfilerConfig
          Enabled,                      \* which of the watchers may be on together
          MaxClock, MaxStatements
ASSUME WatchAssumption ==
    /\ {Threshold, TimeWindow, CleanWindows, KeepWindows, MaxQueries} \subseteq Nat \ {0}
    /\ MaxClock \in Nat /\ MaxStatements \in Nat

VARIABLES
    clock,
    stamped,     \* routine -> [p, t] when it waits for the lock, [p] when it runs, or NoQuery
    queries,     \* d.queries: the places in entered of those it still has
    detections,  \* d.detections: pattern -> [count, first, last]
    lastClean,
    called,      \* patterns OnDetection was called for
    entered,     \* all that was recorded since Clear
    late,        \* ghost: a Record got the lock after one with a later time, or with a
                 \* time before the last cleaning
    stats,       \* p.stats: [n, slow]
    ended,       \* ghost: statements profiled since Clear
    alerts,      \* ghost: statements OnSlowQuery is to be called for, and was
    enabled      \* the watchers whose Enabled is set
watchVars == <<clock, stamped, queries, detections, lastClean, called, entered, late, stats, ended, alerts, enabled>>
detectorVars == <<queries, detections, lastClean, called, entered, late>>
profilerVars == <<stats, ended, alerts, enabled>>

NoQuery == [at |-> "idle"]
WatchInit ==
    /\ clock = 0 /\ stamped = [g \in Routines |-> NoQuery]
    /\ queries = {} /\ detections = <<>> /\ lastClean = 0 /\ called = {} /\ entered = <<>> /\ late = FALSE
    /\ stats = <<>> /\ ended = 0 /\ alerts = [due |-> {}, given |-> {}] /\ enabled \in Enabled

Tick == "detector" \in enabled /\ clock < MaxClock /\ clock' = clock + 1 /\ UNCHANGED <<stamped, detectorVars, profilerVars>>

\* Record of the detector takes the time before the lock.
Stamp(g, p) ==
    /\ stamped[g] = NoQuery /\ Len(entered) < MaxStatements /\ ended < MaxStatements
    /\ stamped' = [stamped EXCEPT ![g] = IF "detector" \in enabled THEN [at |-> "lock", p |-> p, t |-> clock]
                                         ELSE [at |-> "run"]]
    /\ UNCHANGED <<clock, detectorVars, profilerVars>>

\* Mutant: all queries go, the recent ones too.
MutCleanOldQueries(now) == {}
cleanOldQueries(now) == {i \in queries : entered[i].t > now - KeepWindows * TimeWindow}
Similar(list, places, p, now) == Cardinality({i \in places : list[i].t > now - TimeWindow /\ list[i].p = p})
\* Record under the lock: old queries go every now and then, the query is added,
\* and its pattern is counted in the window before its own time.
DetectorRecord(g) ==
    LET p == stamped[g].p
        now == stamped[g].t
        clean == now - lastClean > CleanWindows * TimeWindow
        kept == IF clean THEN cleanOldQueries(now) ELSE queries
        list == Append(entered, [p |-> p, t |-> now])
        count == Similar(list, kept \cup {Len(list)}, p, now)
        found == [count |-> count, first |-> IF p \in DOMAIN detections THEN detections[p].first ELSE now, last |-> now]
    IN  /\ stamped[g].at = "lock"
        /\ stamped' = [stamped EXCEPT ![g] = [at |-> "run"]]
        /\ queries' = kept \cup {Len(list)}
        /\ lastClean' = IF clean THEN now ELSE lastClean
        /\ detections' = IF count < Threshold THEN detections ELSE
              [q \in DOMAIN detections \cup {p} |-> IF q = p THEN found ELSE detections[q]]
        /\ called' = IF count = Threshold THEN called \cup {p} ELSE called
        /\ entered' = list
        /\ late' = (late \/ now < lastClean \/ \E i \in DOMAIN entered : entered[i].t > now)
        /\ UNCHANGED <<clock, profilerVars>>

\* The statement has run: Profiler.Record.  A full list loses its older half.
ProfilerRecord(g, slow) ==
    LET kept == IF Len(stats) >= MaxQueries THEN SubSeq(stats, Len(stats) \div 2 + 1, Len(stats)) ELSE stats
    IN  /\ stamped[g].at = "run"
        /\ IF "profiler" \in enabled THEN
              /\ stats' = Append(kept, [n |-> ended + 1, slow |-> slow])
              /\ ended' = ended + 1
              /\ alerts' = [alerts EXCEPT !.due = IF slow THEN @ \cup {ended + 1} ELSE @]
              /\ stamped' = [stamped EXCEPT ![g] = IF slow THEN [at |-> "alert", n |-> ended + 1] ELSE NoQuery]
           ELSE stamped' = [stamped EXCEPT ![g] = NoQuery] /\ UNCHANGED <<stats, ended, alerts>>
        /\ UNCHANGED <<clock, detectorVars, enabled>>
\* OnSlowQuery runs after the lock was given back.
OnSlowQuery(g) ==
    /\ stamped[g].at = "alert"
    /\ stamped' = [stamped EXCEPT ![g] = NoQuery]
    /\ alerts' = [due |-> alerts.due \ {stamped[g].n}, given |-> alerts.given \cup {stamped[g].n}]
    /\ UNCHANGED <<clock, detectorVars, stats, ended, enabled>>

\* Clear of the two; the detector keeps the time of its last cleaning.
DetectorClear ==
    /\ queries' = {} /\ detections' = <<>> /\ called' = {} /\ entered' = <<>> /\ late' = FALSE
    /\ entered # <<>>
    /\ UNCHANGED <<clock, stamped, lastClean, profilerVars>>
ProfilerClear ==
    /\ stats # <<>>
    /\ stats' = <<>> /\ ended' = 0 /\ alerts' = [due |-> {}, given |-> {}]
    /\ \A g \in Routines : stamped[g].at # "alert"      \* keeps the numbering of the ghost
    /\ UNCHANGED <<clock, stamped, detectorVars, enabled>>

WatchNext ==
    \/ Tick \/ DetectorClear \/ ProfilerClear
    \/ \E g \in Routines : DetectorRecord(g) \/ OnSlowQuery(g)
    \/ \E g \in Routines, p \in Patterns : Stamp(g, p)
    \/ \E g \in Routines, slow \in BOOLEAN : ProfilerRecord(g, slow)
WatchSpec == WatchInit /\ [][WatchNext]_watchVars

Of(list, p) == {i \in DOMAIN list : list[i].p = p}
Window(list, p, t) == {i \in Of(list, p) : list[i].t > t - TimeWindow /\ list[i].t <= t}
Burst(list, p) == \E i \in Of(list, p) : Cardinality(Window(list, p, list[i].t)) >= Threshold
\* As long as the records reach the lock in the order of their times, the detector
\* reports exactly the patterns that came Threshold times within a window, cleaning
\* or not, and calls OnDetection for each of them; out of order it may miss a call
\* but reports only patterns that came that often.  What it keeps is younger than
\* CleanWindows + KeepWindows windows.  The profiler keeps the newest statements,
\* without a gap, at least half of MaxQueries and, if that is not 1, never more,
\* and calls OnSlowQuery once for each slow one (n1detector.go, profiler.go).
WatchersExact ==
    /\ ~late => \A p \in Patterns : /\ p \in DOMAIN detections <=> Burst(entered, p)
                                    /\ p \in DOMAIN detections => p \in called
    /\ \A p \in DOMAIN detections : Cardinality(Of(entered, p)) >= Threshold
    /\ ~late => \A i \in queries :
          entered[Len(entered)].t - entered[i].t < (CleanWindows + KeepWindows) * TimeWindow
    /\ MaxQueries > 1 => Len(stats) <= MaxQueries
    /\ \A i \in DOMAIN stats : stats[i].n = ended - Len(stats) + i
    /\ Len(stats) >= MaxQueries \div 2 + 1 \/ Len(stats) = ended
    /\ \A i \in DOMAIN stats : stats[i].slow => (stats[i].n \in alerts.due \/ stats[i].n \in alerts.given)
    /\ alerts.due \cap alerts.given = {}
=============================================================================
