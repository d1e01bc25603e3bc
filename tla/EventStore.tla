----------------------------- MODULE EventStore -----------------------------
(***************************************************************************)
(* The event store of package eventsourcing (eventsourcing/event.go): the  *)
(* events table, the snapshots table and the repositories that load, raise *)
(* and save an aggregate.  One aggregate stream is modelled, that is, one  *)
(* (aggregate_id, aggregate_type): every statement of the code is keyed by *)
(* that pair.  Several writers, each with its own in-memory copy of the    *)
(* aggregate, share the tables; writers of one process also share its      *)
(* EventStore and therefore its mutex.  Every SQL statement is one step:   *)
(* the code opens no transaction, so other writers, driver errors and      *)
(* crashes may fall between any two of them.                               *)
(***************************************************************************)
EXTENDS Integers, Sequences

CONSTANTS
  Writers,          \* goroutines that hold an aggregate of the stream
  Stores,           \* processes, each with one EventStore
  StoreOf,          \* the process of each writer
  NoWriter,         \* the value of a free mutex
  EventTypes,       \* types of event the domain raises
  Handled,          \* types with a handler set by RegisterHandler
  SnapshotInterval, \* snapshotInterval of the SnapshotRepository
  AppliesOnRaise,   \* does the domain code apply the events it raises?
  MaxEvents         \* bound on the events raised in a behaviour

ASSUME WritersAssumption == NoWriter \notin Writers
ASSUME StoresAssumption == StoreOf \in [Writers -> Stores]
ASSUME HandledAssumption == Handled \subseteq EventTypes
\* The code divides by snapshotInterval unguarded: zero panics in Save.
ASSUME IntervalAssumption == SnapshotInterval \in Nat \ {0}
ASSUME AppliesAssumption == AppliesOnRaise \in BOOLEAN
ASSUME MaxEventsAssumption == MaxEvents \in Nat

VARIABLES
  events,    \* events table: version -> the row stored under it
  snapshot,  \* snapshots table: the row of the stream, or NoSnapshot
  mu,        \* es.mu of each store: the writer that holds it, or NoWriter
  pc,        \* where each writer is
  ver,       \* Version of each writer's aggregate
  unc,       \* uncommittedEvents of each writer's aggregate
  hist,      \* domain state: version -> effect applied to it
  idx,       \* position in the loop of Append
  nextId     \* number of events raised so far; gives each its identity

vars == <<events, snapshot, mu, pc, ver, unc, hist, idx, nextId>>

Ids == 0 .. MaxEvents
Event == [id : Ids, type : EventTypes, version : Nat]
Effect == [id : Ids, by : {"handler", "apply", "repeated"}]
NoSnapshot == [version |-> -1, state |-> << >>]

Locations == {"none", "replaySnap", "replayAll", "ready", "append", "snapshot"}

\* COALESCE(MAX(version), 0) over the rows of the stream.
GetLatestVersion ==
  IF DOMAIN events = {} THEN 0
  ELSE CHOOSE m \in DOMAIN events : \A v \in DOMAIN events : v <= m

\* What a load does to the aggregate with an event: the handler of its type if
\* there is one among those it looks at, otherwise Apply.
ReplayEffect(e, handlers) ==
  [id |-> e.id, by |-> IF e.type \in handlers THEN "handler" ELSE "apply"]

\* Version at which the in-memory aggregate left the stored stream.
Base(w) == ver[w] - Len(unc[w])

-----------------------------------------------------------------------------
Init ==
  /\ events = << >>
  /\ snapshot = NoSnapshot
  /\ mu = [s \in Stores |-> NoWriter]
  /\ pc = [w \in Writers |-> "none"]
  /\ ver = [w \in Writers |-> 0]
  /\ unc = [w \in Writers |-> << >>]
  /\ hist = [w \in Writers |-> << >>]
  /\ idx = [w \in Writers |-> 0]
  /\ nextId = 0

\* The aggregates of a set of writers are gone from memory.
Forget(W) ==
  /\ ver' = [w \in Writers |-> IF w \in W THEN 0 ELSE ver[w]]
  /\ unc' = [w \in Writers |-> IF w \in W THEN << >> ELSE unc[w]]
  /\ hist' = [w \in Writers |-> IF w \in W THEN << >> ELSE hist[w]]
  /\ idx' = [w \in Writers |-> IF w \in W THEN 0 ELSE idx[w]]

\* The application builds a new aggregate of the stream, at version 0.
NewAggregate(w) ==
  /\ pc[w] = "none"
  /\ pc' = [pc EXCEPT ![w] = "ready"]
  /\ ver' = [ver EXCEPT ![w] = 0]
  /\ unc' = [unc EXCEPT ![w] = << >>]
  /\ hist' = [hist EXCEPT ![w] = << >>]
  /\ UNCHANGED <<events, snapshot, mu, idx, nextId>>

\* No snapshot row, or any error reading it: AggregateRepository.Load takes
\* over with a fresh aggregate.
LoadWithoutSnapshot(w) ==
  /\ pc[w] \in {"none", "ready"}
  /\ pc' = [pc EXCEPT ![w] = "replayAll"]
  /\ ver' = [ver EXCEPT ![w] = 0]
  /\ unc' = [unc EXCEPT ![w] = << >>]
  /\ hist' = [hist EXCEPT ![w] = << >>]
  /\ UNCHANGED <<events, snapshot, mu, idx, nextId>>

\* Mutated form of LoadSnapshot: SetVersion is forgotten.
LoadSnapshotNoVersion(w) ==
  /\ pc[w] \in {"none", "ready"}
  /\ snapshot # NoSnapshot
  /\ pc' = [pc EXCEPT ![w] = "replaySnap"]
  /\ ver' = [ver EXCEPT ![w] = 0]
  /\ unc' = [unc EXCEPT ![w] = << >>]
  /\ hist' = [hist EXCEPT ![w] = snapshot.state]
  /\ UNCHANGED <<events, snapshot, mu, idx, nextId>>

\* SnapshotRepository.Load, first query: a snapshot row sets state and version.
LoadSnapshot(w) ==
  /\ pc[w] \in {"none", "ready"}
  /\ snapshot # NoSnapshot
  /\ pc' = [pc EXCEPT ![w] = "replaySnap"]
  /\ ver' = [ver EXCEPT ![w] = snapshot.version]
  /\ unc' = [unc EXCEPT ![w] = << >>]
  /\ hist' = [hist EXCEPT ![w] = snapshot.state]
  /\ UNCHANGED <<events, snapshot, mu, idx, nextId>>

\* LoadFromVersion: the rows above the aggregate's version, in version order,
\* each applied and followed by SetVersion.  A second application of an event
\* would show in the state.
Replay(w, handlers) ==
  LET rows == {v \in DOMAIN events : v > ver[w]}
  IN  /\ hist' = [hist EXCEPT ![w] =
                    [v \in DOMAIN hist[w] \cup rows |->
                       IF v \notin rows THEN hist[w][v]
                       ELSE IF v \in DOMAIN hist[w]
                         THEN [id |-> events[v].id, by |-> "repeated"]
                       ELSE ReplayEffect(events[v], handlers)]]
      /\ ver' = [ver EXCEPT ![w] = IF rows = {} THEN @ ELSE GetLatestVersion]
      /\ pc' = [pc EXCEPT ![w] = "ready"]
      /\ UNCHANGED <<events, snapshot, mu, unc, idx, nextId>>

\* SnapshotRepository.Load calls Apply whatever handlers are registered.
ReplayAfterSnapshot(w) == pc[w] = "replaySnap" /\ Replay(w, {})

\* AggregateRepository.Load looks for a handler first.
ReplayAll(w) == pc[w] = "replayAll" /\ Replay(w, Handled)

\* The second query or an event handler fails: Load returns the error and the
\* caller drops the half-built aggregate.
LoadFails(w) ==
  /\ pc[w] \in {"replaySnap", "replayAll"}
  /\ pc' = [pc EXCEPT ![w] = "none"]
  /\ Forget({w})
  /\ UNCHANGED <<events, snapshot, mu, nextId>>

\* RaiseEvent increments Version and queues the event.  It does not apply it:
\* whether the state follows is the domain code's business.
RaiseEvent(w, t) ==
  /\ pc[w] = "ready"
  /\ nextId < MaxEvents
  /\ LET e == [id |-> nextId, type |-> t, version |-> ver[w] + 1]
     IN  /\ unc' = [unc EXCEPT ![w] = Append(@, e)]
         /\ hist' = IF AppliesOnRaise
                    THEN [hist EXCEPT ![w] =
                            [v \in DOMAIN hist[w] \cup {e.version} |->
                               IF v = e.version THEN ReplayEffect(e, Handled)
                               ELSE hist[w][v]]]
                    ELSE hist
  /\ ver' = [ver EXCEPT ![w] = @ + 1]
  /\ nextId' = nextId + 1
  /\ UNCHANGED <<events, snapshot, mu, pc, idx>>

\* Save with nothing to append goes straight to the snapshot test.
SaveNothing(w) ==
  /\ pc[w] = "ready"
  /\ unc[w] = << >>
  /\ pc' = [pc EXCEPT ![w] = "snapshot"]
  /\ UNCHANGED <<events, snapshot, mu, ver, unc, hist, idx, nextId>>

\* Mutated form of SaveBegin: the loop starts one event late.
SaveBeginSkipsFirst(w) ==
  /\ pc[w] = "ready"
  /\ unc[w] # << >>
  /\ mu[StoreOf[w]] = NoWriter
  /\ mu' = [mu EXCEPT ![StoreOf[w]] = w]
  /\ pc' = [pc EXCEPT ![w] = "append"]
  /\ idx' = [idx EXCEPT ![w] = 2]
  /\ UNCHANGED <<events, snapshot, ver, unc, hist, nextId>>

\* Save calls Append, which takes es.mu and starts its loop.
SaveBegin(w) ==
  /\ pc[w] = "ready"
  /\ unc[w] # << >>
  /\ mu[StoreOf[w]] = NoWriter
  /\ mu' = [mu EXCEPT ![StoreOf[w]] = w]
  /\ pc' = [pc EXCEPT ![w] = "append"]
  /\ idx' = [idx EXCEPT ![w] = 1]
  /\ UNCHANGED <<events, snapshot, ver, unc, hist, nextId>>

\* Mutated form of Row: the store numbers the row itself.
RowRenumbered(w) == [unc[w][idx[w]] EXCEPT !.version = GetLatestVersion + 1]

\* The row the loop inserts next, and the table with it.
Row(w) == unc[w][idx[w]]
Inserted(e) ==
  [v \in DOMAIN events \cup {e.version} |-> IF v = e.version THEN e ELSE events[v]]

\* Append returns an error: the deferred Unlock runs, Save returns the error
\* and the aggregate keeps its version and all its uncommitted events.
AppendError(w) ==
  /\ mu' = [mu EXCEPT ![StoreOf[w]] = NoWriter]
  /\ pc' = [pc EXCEPT ![w] = "ready"]
  /\ idx' = [idx EXCEPT ![w] = 0]
  /\ UNCHANGED <<snapshot, ver, unc, hist, nextId>>

\* The INSERT succeeds: UNIQUE (aggregate_id, aggregate_type, version) holds.
InsertOk(w) ==
  /\ pc[w] = "append"
  /\ idx[w] <= Len(unc[w])
  /\ Row(w).version \notin DOMAIN events
  /\ events' = Inserted(Row(w))
  /\ idx' = [idx EXCEPT ![w] = @ + 1]
  /\ UNCHANGED <<snapshot, mu, pc, ver, unc, hist, nextId>>

\* The INSERT is refused, by the unique key or by any other driver error.
InsertFails(w) ==
  /\ pc[w] = "append"
  /\ idx[w] <= Len(unc[w])
  /\ UNCHANGED events
  /\ AppendError(w)

\* The INSERT is applied but its answer is lost: the driver reports an error.
InsertLostAck(w) ==
  /\ pc[w] = "append"
  /\ idx[w] <= Len(unc[w])
  /\ Row(w).version \notin DOMAIN events
  /\ events' = Inserted(Row(w))
  /\ AppendError(w)

\* The loop ends: unlock, ClearUncommittedEvents, on to the snapshot test.
AppendDone(w) ==
  /\ pc[w] = "append"
  /\ idx[w] > Len(unc[w])
  /\ mu' = [mu EXCEPT ![StoreOf[w]] = NoWriter]
  /\ unc' = [unc EXCEPT ![w] = << >>]
  /\ pc' = [pc EXCEPT ![w] = "snapshot"]
  /\ idx' = [idx EXCEPT ![w] = 0]
  /\ UNCHANGED <<events, snapshot, ver, hist, nextId>>

\* Version a multiple of the interval: the snapshot row is upserted.
SnapshotSave(w) ==
  /\ pc[w] = "snapshot"
  /\ ver[w] % SnapshotInterval = 0
  /\ snapshot' = [version |-> ver[w], state |-> hist[w]]
  /\ pc' = [pc EXCEPT ![w] = "ready"]
  /\ UNCHANGED <<events, mu, ver, unc, hist, idx, nextId>>

\* Not a multiple, or the upsert fails (Save then returns its error although
\* the events are stored).
SnapshotSkip(w) ==
  /\ pc[w] = "snapshot"
  /\ pc' = [pc EXCEPT ![w] = "ready"]
  /\ UNCHANGED <<events, snapshot, mu, ver, unc, hist, idx, nextId>>

\* A process dies: its writers, their aggregates and its mutex are gone.
Crash(s) ==
  LET dead == {w \in Writers : StoreOf[w] = s}
  IN  /\ pc' = [w \in Writers |-> IF w \in dead THEN "none" ELSE pc[w]]
      /\ mu' = [mu EXCEPT ![s] = NoWriter]
      /\ Forget(dead)
      /\ UNCHANGED <<events, snapshot, nextId>>

Load(w) ==
  \/ LoadSnapshot(w) \/ LoadWithoutSnapshot(w)
  \/ ReplayAfterSnapshot(w) \/ ReplayAll(w) \/ LoadFails(w)

SaveStep(w) ==
  \/ InsertOk(w) \/ InsertFails(w) \/ InsertLostAck(w) \/ AppendDone(w)
  \/ SnapshotSave(w) \/ SnapshotSkip(w)

WriterStep(w) ==
  \/ NewAggregate(w)
  \/ Load(w)
  \/ \E t \in EventTypes : RaiseEvent(w, t)
  \/ SaveNothing(w) \/ SaveBegin(w) \/ SaveStep(w)

Next ==
  \/ \E w \in Writers : WriterStep(w)
  \/ \E s \in Stores : Crash(s)

Spec == Init /\ [][Next]_vars

-----------------------------------------------------------------------------
\* The table read in version order is the log of the abstract specification.
Log == INSTANCE EventLog WITH Entry <- Event, log <- events

\* The store implements an append-only log: every step leaves the stream alone
\* or adds one row right after the last, never into a hole or past one.
ImplementsLog == Log!LogSpec

\* Types of the tables and of the aggregates in memory.
TypeOK ==
  /\ events = [v \in DOMAIN events |-> events[v]]
  /\ DOMAIN events \subseteq Nat \ {0}
  /\ \A v \in DOMAIN events : events[v] \in Event
  /\ snapshot = NoSnapshot \/ snapshot.version \in Nat
  /\ mu \in [Stores -> Writers \cup {NoWriter}]
  /\ pc \in [Writers -> Locations]
  /\ ver \in [Writers -> Nat]
  /\ \A w \in Writers : unc[w] \in Seq(Event) /\ idx[w] \in Nat
  /\ DOMAIN unc = Writers /\ DOMAIN idx = Writers /\ DOMAIN hist = Writers
  /\ nextId \in Ids

\* The stored stream has no holes: whatever writers race, fail half-way, retry
\* or crash, the stored versions are 1 to GetLatestVersion, so the optimistic
\* check on the next version (UNIQUE, line 79) is enough.
NoVersionGaps ==
  \A v \in DOMAIN events : \A u \in 1 .. v : u \in DOMAIN events

\* State h is what the stored events up to version n make, each applied once,
\* by its handler or by Apply.
IsReplay(h, n) ==
  /\ DOMAIN h = 1 .. n /\ 1 .. n \subseteq DOMAIN events
  /\ \A v \in 1 .. n : h[v].id = events[v].id /\ h[v].by # "repeated"

\* The aggregate a writer holds after a successful Load or Save is the replay
\* of the stored prefix up to its version: LoadFromVersion after a snapshot
\* read earlier (line 538) neither skips nor repeats an event.
AggregateIsReplay ==
  \A w \in Writers : pc[w] = "ready" /\ unc[w] = << >> => IsReplay(hist[w], ver[w])

\* A stored snapshot holds exactly the effects of the stored events up to its
\* version, so nothing is lost by loading only the rows above it, whichever
\* writer's upsert came last (line 421).
SnapshotIsReplay == snapshot # NoSnapshot => IsReplay(snapshot.state, snapshot.version)

\* What Load returns and what a snapshot holds is the replay of the stream, over
\* writers that race, snapshots that come late and processes that die between
\* Append and the snapshot (lines 321 to 343, 420 to 452, 525 to 576).
StateIsReplay == AggregateIsReplay /\ SnapshotIsReplay

\* An event is stored under one version only, however often Save is retried
\* after a failure that had stored part of the batch, or a lost answer.
NoEventStoredTwice ==
  \A u, v \in DOMAIN events : events[u].id = events[v].id => u = v

=============================================================================
