-------------------------- MODULE EventStoreProofs --------------------------
(***************************************************************************)
(* Theorems about EventStore for any number of writers, processes, events  *)
(* and any snapshot interval.                                              *)
(***************************************************************************)
EXTENDS EventStore, SequenceTheorems, TLAPS

\* The stored versions are 1 to some n.  The existence of n matters: the type
\* invariant alone admits an infinite table, which has no MAX(version).
StreamLength == \E n \in Nat : DOMAIN events = 1 .. n

\* What the queued events of an aggregate have to do with the table: they are
\* numbered from the version at which the aggregate left the stored stream,
\* and everything below that version is stored.
QueueOK ==
  \A w \in Writers :
    /\ Len(unc[w]) <= ver[w]
    /\ \A i \in 1 .. Len(unc[w]) : unc[w][i].version = Base(w) + i
    /\ 1 .. Base(w) \subseteq DOMAIN events
    /\ pc[w] \notin {"ready", "append"} => unc[w] = << >>

\* The rows that the loop of Append has passed are stored.
LoopOK ==
  \A w \in Writers :
    pc[w] = "append" =>
      /\ idx[w] \in 1 .. Len(unc[w]) + 1
      /\ 1 .. Base(w) + idx[w] - 1 \subseteq DOMAIN events

\* A snapshot is never ahead of the table.
SnapshotStored == snapshot # NoSnapshot => 1 .. snapshot.version \subseteq DOMAIN events

\* The inductive invariant behind NoVersionGaps.
StreamInv ==
  /\ TypeOK
  /\ StreamLength
  /\ QueueOK
  /\ LoopOK
  /\ SnapshotStored

-----------------------------------------------------------------------------
LEMMA InitStreamInv == Init => StreamInv
<1> SUFFICES ASSUME Init PROVE StreamInv
    OBVIOUS
<1>1. TypeOK
    BY StoresAssumption, MaxEventsAssumption
    DEF Init, TypeOK, NoSnapshot, Ids, Event, Locations
<1>2. StreamLength
    <2>1. DOMAIN events = 1 .. 0
        BY DEF Init
    <2> QED BY <2>1 DEF StreamLength
<1>3. QueueOK /\ LoopOK /\ SnapshotStored
    BY DEF Init, QueueOK, LoopOK, SnapshotStored, Base
<1> QED BY <1>1, <1>2, <1>3 DEF StreamInv

\* Of a stream 1 to n, COALESCE(MAX(version), 0) is n.
LEMMA LatestIsLength ==
  ASSUME NEW n \in Nat, DOMAIN events = 1 .. n
  PROVE  GetLatestVersion = n
<1>1. CASE n = 0
    BY <1>1 DEF GetLatestVersion
<1>2. CASE n # 0
    <2>1. n \in DOMAIN events /\ \A v \in DOMAIN events : v <= n
        BY <1>2
    <2>2. \A m \in DOMAIN events : (\A v \in DOMAIN events : v <= m) => m = n
        BY <2>1
    <2> QED BY <2>1, <2>2 DEF GetLatestVersion
<1> QED BY <1>1, <1>2

\* A number above a gapless stream that has everything below it is the next one.
LEMMA NextNumber ==
  ASSUME NEW n \in Nat, NEW r \in Nat \ {0}, 1 .. r - 1 \subseteq 1 .. n, r \notin 1 .. n
  PROVE  r - 1 = n
<1>1. r > n
    OBVIOUS
<1>2. r - 1 = 0 \/ r - 1 \in 1 .. n
    OBVIOUS
<1> QED BY <1>1, <1>2

\* The row that Append inserts is of the table's type and, when its version is
\* free, is the successor of the last one: this is where the unique key
\* works as the optimistic lock.
LEMMA InsertAtEnd ==
  ASSUME StreamInv, NEW w \in Writers, pc[w] = "append", idx[w] <= Len(unc[w]),
         Row(w).version \notin DOMAIN events
  PROVE  /\ Row(w) \in Event
         /\ Row(w).version = Base(w) + idx[w]
         /\ Row(w).version \in Nat \ {0}
         /\ DOMAIN events = 1 .. Row(w).version - 1
<1> USE DEF StreamInv, TypeOK, LoopOK
<1>1. unc[w] \in Seq(Event) /\ idx[w] \in 1 .. Len(unc[w]) /\ ver[w] \in Nat
    OBVIOUS
<1>2. Row(w) \in Event
    BY <1>1 DEF Row
<1>3. Row(w).version = Base(w) + idx[w] /\ Base(w) \in Nat
    BY <1>1 DEF Row, QueueOK, Base
<1>4. 1 .. Row(w).version - 1 \subseteq DOMAIN events
    BY <1>1, <1>3
<1>5. PICK n \in Nat : DOMAIN events = 1 .. n
    BY DEF StreamLength
<1>6. Row(w).version - 1 = n
    BY <1>1, <1>3, <1>4, <1>5, NextNumber
<1> QED BY <1>1, <1>2, <1>3, <1>5, <1>6

\* The table with one more row at its end.
LEMMA InsertedTable ==
  ASSUME StreamInv, NEW w \in Writers, pc[w] = "append", idx[w] <= Len(unc[w]),
         Row(w).version \notin DOMAIN events, events' = Inserted(Row(w))
  PROVE  /\ events' = [v \in DOMAIN events' |-> events'[v]]
         /\ DOMAIN events' = 1 .. Row(w).version
         /\ Row(w).version \in Nat \ {0}
         /\ Row(w).version = Base(w) + idx[w]
         /\ DOMAIN events \subseteq DOMAIN events'
         /\ \A v \in DOMAIN events : events'[v] = events[v]
         /\ \A v \in DOMAIN events' : events'[v] \in Event
         /\ StreamLength'
<1>1. /\ Row(w) \in Event
      /\ Row(w).version = Base(w) + idx[w]
      /\ Row(w).version \in Nat \ {0}
      /\ DOMAIN events = 1 .. Row(w).version - 1
    BY InsertAtEnd
<1>2. DOMAIN events' = DOMAIN events \cup {Row(w).version}
    BY DEF Inserted
<1>3. DOMAIN events' = 1 .. Row(w).version
    BY <1>1, <1>2
<1>4. StreamLength'
    BY <1>1, <1>3 DEF StreamLength
<1>5. \A v \in DOMAIN events : events'[v] = events[v]
    BY DEF Inserted
<1>6. \A v \in DOMAIN events' : events'[v] \in Event
    BY <1>1, <1>2, <1>5 DEF Inserted, StreamInv, TypeOK
<1> QED BY <1>1, <1>2, <1>3, <1>4, <1>5, <1>6 DEF Inserted

-----------------------------------------------------------------------------
\* Steps that write no row.  Each replaces the aggregates of some writers.
LEMMA LoadKeepsStream ==
  ASSUME StreamInv, NEW w \in Writers, NewAggregate(w) \/ Load(w)
  PROVE  StreamInv'
<1> USE DEF StreamInv, TypeOK, Locations
<1>1. ASSUME NewAggregate(w) \/ LoadWithoutSnapshot(w) PROVE StreamInv'
    <2>1. \E l \in {"ready", "replayAll"} : pc' = [pc EXCEPT ![w] = l]
        BY <1>1 DEF NewAggregate, LoadWithoutSnapshot
    <2>2. /\ ver' = [ver EXCEPT ![w] = 0]
          /\ unc' = [unc EXCEPT ![w] = << >>]
          /\ hist' = [hist EXCEPT ![w] = << >>]
          /\ UNCHANGED <<events, snapshot, mu, idx, nextId>>
        BY <1>1 DEF NewAggregate, LoadWithoutSnapshot
    <2>3. TypeOK'
        BY <2>1, <2>2
    <2>4. StreamLength' /\ SnapshotStored'
        BY <2>2 DEF StreamLength, SnapshotStored
    <2>5. QueueOK' /\ LoopOK'
        BY <2>1, <2>2 DEF QueueOK, LoopOK, Base
    <2> QED BY <2>3, <2>4, <2>5
<1>2. ASSUME LoadSnapshot(w) PROVE StreamInv'
    <2>1. snapshot.version \in Nat
        BY <1>2 DEF LoadSnapshot
    <2>2. TypeOK' /\ StreamLength' /\ SnapshotStored'
        BY <1>2, <2>1 DEF LoadSnapshot, StreamLength, SnapshotStored
    <2>3. QueueOK' /\ LoopOK'
        BY <1>2, <2>1 DEF LoadSnapshot, QueueOK, LoopOK, Base, SnapshotStored
    <2> QED BY <2>2, <2>3
<1>3. ASSUME ReplayAfterSnapshot(w) \/ ReplayAll(w) PROVE StreamInv'
    <2>1. PICK n \in Nat : DOMAIN events = 1 .. n
        BY DEF StreamLength
    <2>2. GetLatestVersion = n
        BY <2>1, LatestIsLength
    <2>3. /\ pc[w] \in {"replaySnap", "replayAll"}
          /\ ver' = [ver EXCEPT ![w] = ver'[w]]
          /\ ver'[w] = ver[w] \/ ver'[w] = n
          /\ pc' = [pc EXCEPT ![w] = "ready"]
          /\ DOMAIN hist' = Writers
          /\ UNCHANGED <<events, snapshot, mu, unc, idx, nextId>>
        BY <1>3, <2>2 DEF ReplayAfterSnapshot, ReplayAll, Replay
    <2>4. TypeOK' /\ StreamLength' /\ SnapshotStored'
        BY <2>3 DEF StreamLength, SnapshotStored
    <2>5. unc[w] = << >>
        BY <2>3 DEF QueueOK
    <2>6. QueueOK' /\ LoopOK'
        BY <2>1, <2>3, <2>5 DEF QueueOK, LoopOK, Base
    <2> QED BY <2>4, <2>6
<1>4. ASSUME LoadFails(w) PROVE StreamInv'
    <2>1. TypeOK' /\ StreamLength' /\ SnapshotStored'
        BY <1>4 DEF LoadFails, Forget, StreamLength, SnapshotStored
    <2>2. QueueOK' /\ LoopOK'
        BY <1>4 DEF LoadFails, Forget, QueueOK, LoopOK, Base
    <2> QED BY <2>1, <2>2
<1> QED BY <1>1, <1>2, <1>3, <1>4 DEF Load

\* The raised event takes the version after the last queued one.
LEMMA RaiseKeepsStream ==
  ASSUME StreamInv, NEW w \in Writers, NEW t \in EventTypes, RaiseEvent(w, t)
  PROVE  StreamInv'
<1> DEFINE e == [id |-> nextId, type |-> t, version |-> ver[w] + 1]
<1> USE DEF StreamInv, TypeOK, Locations
<1>1. e \in Event /\ nextId' \in Ids
    BY MaxEventsAssumption DEF RaiseEvent, Event, Ids
<1>2. /\ unc' = [unc EXCEPT ![w] = Append(unc[w], e)]
      /\ ver' = [ver EXCEPT ![w] = ver[w] + 1]
      /\ DOMAIN hist' = Writers
      /\ pc[w] = "ready"
      /\ UNCHANGED <<events, snapshot, mu, pc, idx>>
    BY DEF RaiseEvent
<1>3. /\ unc'[w] \in Seq(Event)
      /\ Len(unc'[w]) = Len(unc[w]) + 1
      /\ \A i \in 1 .. Len(unc[w]) : unc'[w][i] = unc[w][i]
      /\ unc'[w][Len(unc[w]) + 1] = e
    BY <1>1, <1>2
<1>4. TypeOK' /\ StreamLength' /\ SnapshotStored'
    BY <1>1, <1>2, <1>3 DEF StreamLength, SnapshotStored
<1>5. Base(w)' = Base(w) /\ ver'[w] = ver[w] + 1 /\ Base(w) \in Int
    BY <1>2, <1>3 DEF Base
<1>6. QueueOK'
    <2> SUFFICES ASSUME NEW x \in Writers
                 PROVE  /\ Len(unc'[x]) <= ver'[x]
                        /\ \A i \in 1 .. Len(unc'[x]) : unc'[x][i].version = Base(x)' + i
                        /\ 1 .. Base(x)' \subseteq DOMAIN events'
                        /\ pc'[x] \notin {"ready", "append"} => unc'[x] = << >>
        BY DEF QueueOK
    <2>1. CASE x # w
        BY <2>1, <1>2 DEF QueueOK, Base
    <2>2. CASE x = w
        <3>1. Len(unc'[w]) <= ver'[w] /\ 1 .. Base(w)' \subseteq DOMAIN events'
            BY <1>2, <1>3, <1>5 DEF QueueOK
        <3>2. e.version = Base(w) + (Len(unc[w]) + 1)
            BY DEF Base
        <3>3. \A i \in 1 .. Len(unc'[w]) : unc'[w][i].version = Base(w)' + i
            <4> TAKE i \in 1 .. Len(unc'[w])
            <4>1. CASE i = Len(unc[w]) + 1
                BY <4>1, <1>3, <1>5, <3>2
            <4>2. CASE i \in 1 .. Len(unc[w])
                <5>1. unc[w][i].version = Base(w) + i
                    BY <4>2 DEF QueueOK
                <5>2. unc'[w][i] = unc[w][i]
                    BY <4>2, <1>3
                <5> QED BY ONLY <5>1, <5>2, <1>5
            <4> QED BY <4>1, <4>2, <1>3
        <3> QED BY <2>2, <3>1, <3>3, <1>2
    <2> QED BY <2>1, <2>2
<1>7. LoopOK'
    <2> SUFFICES ASSUME NEW x \in Writers, pc'[x] = "append"
                 PROVE  /\ idx'[x] \in 1 .. Len(unc'[x]) + 1
                        /\ 1 .. Base(x)' + idx'[x] - 1 \subseteq DOMAIN events'
        BY DEF LoopOK
    <2>1. x # w
        BY <1>2
    <2> QED BY <2>1, <1>2 DEF LoopOK, Base
<1> QED BY <1>4, <1>6, <1>7

\* The steps of Save.
LEMMA SaveKeepsStream ==
  ASSUME StreamInv, NEW w \in Writers, SaveNothing(w) \/ SaveBegin(w) \/ SaveStep(w)
  PROVE  StreamInv'
<1> USE DEF StreamInv, TypeOK, Locations
<1>1. ASSUME SaveNothing(w) \/ SnapshotSkip(w) PROVE StreamInv'
    <2>1. CASE SaveNothing(w)
        <3>1. TypeOK' /\ StreamLength' /\ SnapshotStored'
            BY <2>1 DEF SaveNothing, StreamLength, SnapshotStored
        <3>2. QueueOK' /\ LoopOK'
            BY <2>1 DEF SaveNothing, QueueOK, LoopOK, Base
        <3> QED BY <3>1, <3>2
    <2>2. CASE SnapshotSkip(w)
        <3>1. TypeOK' /\ StreamLength' /\ SnapshotStored'
            BY <2>2 DEF SnapshotSkip, StreamLength, SnapshotStored
        <3>2. QueueOK' /\ LoopOK'
            BY <2>2 DEF SnapshotSkip, QueueOK, LoopOK, Base
        <3> QED BY <3>1, <3>2
    <2> QED BY <1>1, <2>1, <2>2
<1>2. ASSUME SaveBegin(w) PROVE StreamInv'
    <2>1. TypeOK' /\ StreamLength' /\ SnapshotStored'
        BY <1>2, StoresAssumption DEF SaveBegin, StreamLength, SnapshotStored
    <2>2. QueueOK' /\ LoopOK'
        BY <1>2 DEF SaveBegin, QueueOK, LoopOK, Base
    <2> QED BY <2>1, <2>2
<1>3. ASSUME InsertOk(w) PROVE StreamInv'
    <2>1. /\ pc[w] = "append" /\ idx[w] <= Len(unc[w])
          /\ Row(w).version \notin DOMAIN events /\ events' = Inserted(Row(w))
        BY <1>3 DEF InsertOk
    <2>2. /\ events' = [v \in DOMAIN events' |-> events'[v]]
          /\ DOMAIN events' = 1 .. Row(w).version
          /\ Row(w).version \in Nat \ {0}
          /\ Row(w).version = Base(w) + idx[w]
          /\ DOMAIN events \subseteq DOMAIN events'
          /\ \A v \in DOMAIN events' : events'[v] \in Event
          /\ StreamLength'
        BY <2>1, InsertedTable
    <2>3. TypeOK' /\ SnapshotStored'
        BY <1>3, <2>2 DEF InsertOk, SnapshotStored
    <2>6. /\ idx' = [idx EXCEPT ![w] = idx[w] + 1] /\ UNCHANGED <<pc, ver, unc>>
          /\ \A x \in Writers : Base(x)' = Base(x)
        BY <1>3 DEF InsertOk, Base
    <2>7. DOMAIN events \subseteq DOMAIN events'
        BY <2>2
    <2>4. QueueOK'
        <3>1. QueueOK
            OBVIOUS
        <3> QED BY ONLY <2>6, <2>7, <3>1 DEF QueueOK
    <2>5. LoopOK'
        <3> SUFFICES ASSUME NEW x \in Writers, pc'[x] = "append"
                     PROVE  /\ idx'[x] \in 1 .. Len(unc'[x]) + 1
                            /\ 1 .. Base(x)' + idx'[x] - 1 \subseteq DOMAIN events'
            BY DEF LoopOK
        <3>1. idx[x] \in 1 .. Len(unc[x]) + 1 /\ 1 .. Base(x) + idx[x] - 1 \subseteq DOMAIN events
            BY <2>6 DEF LoopOK
        <3>2. CASE x # w
            <4>1. idx'[x] = idx[x]
                BY <3>2, <2>6
            <4> QED BY ONLY <4>1, <3>1, <2>6, <2>7, x \in Writers
        <3>3. CASE x = w
            <4>1. idx'[w] = idx[w] + 1 /\ Base(w) \in Int /\ idx[w] \in Nat /\ Len(unc[w]) \in Nat
                BY <2>6 DEF Base
            <4> QED BY ONLY <4>1, <3>1, <3>3, <2>1, <2>2, <2>6, x \in Writers
        <3> QED BY <3>2, <3>3
    <2> QED BY <2>2, <2>3, <2>4, <2>5
<1>4. ASSUME InsertLostAck(w) PROVE StreamInv'
    <2>1. /\ pc[w] = "append" /\ idx[w] <= Len(unc[w])
          /\ Row(w).version \notin DOMAIN events /\ events' = Inserted(Row(w))
        BY <1>4 DEF InsertLostAck
    <2>2. /\ events' = [v \in DOMAIN events' |-> events'[v]]
          /\ DOMAIN events' = 1 .. Row(w).version
          /\ Row(w).version \in Nat \ {0}
          /\ DOMAIN events \subseteq DOMAIN events'
          /\ \A v \in DOMAIN events' : events'[v] \in Event
          /\ StreamLength'
        BY <2>1, InsertedTable
    <2>3. TypeOK'
        <3>1. /\ mu' \in [Stores -> Writers \cup {NoWriter}]
              /\ pc' \in [Writers -> Locations]
              /\ idx' = [idx EXCEPT ![w] = 0]
              /\ UNCHANGED <<snapshot, ver, unc, hist, nextId>>
            BY <1>4, StoresAssumption DEF InsertLostAck, AppendError
        <3> QED BY <3>1, <2>2
    <2>4. SnapshotStored'
        BY <1>4, <2>2 DEF InsertLostAck, AppendError, SnapshotStored
    <2>5. QueueOK' /\ LoopOK'
        BY <1>4, <2>2 DEF InsertLostAck, AppendError, QueueOK, LoopOK, Base
    <2> QED BY <2>2, <2>3, <2>4, <2>5
<1>5. ASSUME InsertFails(w) PROVE StreamInv'
    <2>1. TypeOK' /\ StreamLength' /\ SnapshotStored'
        BY <1>5, StoresAssumption
        DEF InsertFails, AppendError, StreamLength, SnapshotStored
    <2>2. QueueOK' /\ LoopOK'
        BY <1>5 DEF InsertFails, AppendError, QueueOK, LoopOK, Base
    <2> QED BY <2>1, <2>2
<1>6. ASSUME AppendDone(w) PROVE StreamInv'
    <2>1. TypeOK'
        <3>1. /\ mu' \in [Stores -> Writers \cup {NoWriter}]
              /\ pc' \in [Writers -> Locations]
              /\ idx' = [idx EXCEPT ![w] = 0]
              /\ unc' = [unc EXCEPT ![w] = << >>]
              /\ UNCHANGED <<events, snapshot, ver, hist, nextId>>
            BY <1>6, StoresAssumption DEF AppendDone
        <3> QED BY <3>1
    <2>4. StreamLength' /\ SnapshotStored'
        BY <1>6 DEF AppendDone, StreamLength, SnapshotStored
    <2>2. idx[w] = Len(unc[w]) + 1 /\ 1 .. ver[w] \subseteq DOMAIN events
        BY <1>6 DEF AppendDone, LoopOK, Base
    <2>3. QueueOK' /\ LoopOK'
        BY <1>6, <2>2 DEF AppendDone, QueueOK, LoopOK, Base
    <2> QED BY <2>1, <2>3, <2>4
<1>7. ASSUME SnapshotSave(w) PROVE StreamInv'
    <2>1. 1 .. ver[w] \subseteq DOMAIN events
        <3>1. unc[w] = << >> /\ ver[w] \in Nat /\ 1 .. Base(w) \subseteq DOMAIN events
            BY <1>7 DEF SnapshotSave, QueueOK
        <3> QED BY <3>1 DEF Base
    <2>2. TypeOK' /\ StreamLength' /\ SnapshotStored'
        BY <1>7, <2>1 DEF SnapshotSave, StreamLength, SnapshotStored
    <2>3. QueueOK' /\ LoopOK'
        BY <1>7 DEF SnapshotSave, QueueOK, LoopOK, Base
    <2> QED BY <2>2, <2>3
<1> QED BY <1>1, <1>2, <1>3, <1>4, <1>5, <1>6, <1>7 DEF SaveStep

\* A crash of a process loses memory only.
LEMMA CrashKeepsStream ==
  ASSUME StreamInv, NEW s \in Stores, Crash(s)
  PROVE  StreamInv'
<1> USE DEF StreamInv, TypeOK, Locations
<1>1. TypeOK' /\ StreamLength' /\ SnapshotStored'
    BY DEF Crash, Forget, StreamLength, SnapshotStored
<1>2. QueueOK' /\ LoopOK'
    BY DEF Crash, Forget, QueueOK, LoopOK, Base
<1> QED BY <1>1, <1>2

LEMMA StreamInvStep == StreamInv /\ [Next]_vars => StreamInv'
<1> SUFFICES ASSUME StreamInv, [Next]_vars PROVE StreamInv'
    OBVIOUS
<1>1. CASE UNCHANGED vars
    BY <1>1 DEF vars, StreamInv, TypeOK, StreamLength, QueueOK, LoopOK,
                SnapshotStored, Base
<1>2. ASSUME NEW w \in Writers, WriterStep(w) PROVE StreamInv'
    BY <1>2, LoadKeepsStream, RaiseKeepsStream, SaveKeepsStream DEF WriterStep
<1>3. ASSUME NEW s \in Stores, Crash(s) PROVE StreamInv'
    BY <1>3, CrashKeepsStream
<1> QED BY <1>1, <1>2, <1>3 DEF Next

LEMMA StreamInvHolds == Spec => []StreamInv
<1> QED BY InitStreamInv, StreamInvStep, PTL DEF Spec

-----------------------------------------------------------------------------
\* The types of the tables and of the aggregates in memory hold throughout.
THEOREM TypeCorrect == Spec => []TypeOK
<1>1. StreamInv => TypeOK
    BY DEF StreamInv
<1> QED BY <1>1, StreamInvHolds, PTL

\* The stored versions never have a hole, for any number of writers racing,
\* failing in the middle of Append, retrying and crashing.
THEOREM NoGaps == Spec => []NoVersionGaps
<1>1. StreamInv => NoVersionGaps
    BY DEF StreamInv, StreamLength, NoVersionGaps
<1> QED BY <1>1, StreamInvHolds, PTL

-----------------------------------------------------------------------------
\* What a step may do to the table: nothing, or one row after the last.
LEMMA TableStep ==
  ASSUME StreamInv, [Next]_vars
  PROVE  \/ events' = events
         \/ \E r \in Nat \ {0} :
              /\ DOMAIN events = 1 .. r - 1
              /\ DOMAIN events' = 1 .. r
              /\ \A v \in DOMAIN events : events'[v] = events[v]
              /\ \A v \in DOMAIN events' : events'[v] \in Event
<1>1. ASSUME NEW w \in Writers, InsertOk(w) \/ InsertLostAck(w)
      PROVE  \E r \in Nat \ {0} :
               /\ DOMAIN events = 1 .. r - 1
               /\ DOMAIN events' = 1 .. r
               /\ \A v \in DOMAIN events : events'[v] = events[v]
               /\ \A v \in DOMAIN events' : events'[v] \in Event
    <2>1. /\ pc[w] = "append" /\ idx[w] <= Len(unc[w])
          /\ Row(w).version \notin DOMAIN events /\ events' = Inserted(Row(w))
        BY <1>1 DEF InsertOk, InsertLostAck
    <2>2. DOMAIN events = 1 .. Row(w).version - 1
        BY <2>1, InsertAtEnd
    <2>3. /\ DOMAIN events' = 1 .. Row(w).version
          /\ Row(w).version \in Nat \ {0}
          /\ \A v \in DOMAIN events : events'[v] = events[v]
          /\ \A v \in DOMAIN events' : events'[v] \in Event
        BY <2>1, InsertedTable
    <2> QED BY <2>2, <2>3
<1>2. ASSUME NEW w \in Writers, NewAggregate(w) \/ Load(w) PROVE events' = events
    BY <1>2 DEF NewAggregate, Load, LoadSnapshot, LoadWithoutSnapshot,
                ReplayAfterSnapshot, ReplayAll, Replay, LoadFails
<1>3. ASSUME NEW w \in Writers, SaveNothing(w) \/ SaveBegin(w) \/ InsertFails(w)
                \/ AppendDone(w) \/ SnapshotSave(w) \/ SnapshotSkip(w)
      PROVE  events' = events
    BY <1>3 DEF SaveNothing, SaveBegin, InsertFails, AppendDone, SnapshotSave, SnapshotSkip
<1>4. ASSUME NEW w \in Writers, NEW t \in EventTypes, RaiseEvent(w, t)
      PROVE  events' = events
    BY <1>4 DEF RaiseEvent
<1>5. ASSUME NEW s \in Stores, Crash(s) PROVE events' = events
    BY <1>5 DEF Crash
<1>6. CASE UNCHANGED vars
    BY <1>6 DEF vars
<1> QED BY <1>1, <1>2, <1>3, <1>4, <1>5, <1>6 DEF Next, WriterStep, SaveStep

\* Of a table without holes, the abstract log's length is its last version.
LEMMA LogLength ==
  ASSUME NEW n \in Nat, DOMAIN events = 1 .. n, StreamInv
  PROVE  Len(events) = n
<1>1. events \in [1 .. n -> Event]
    BY DEF StreamInv, TypeOK
<1>2. events \in Seq(Event)
    BY <1>1, SeqDef
<1> QED BY <1>1, <1>2, LenProperties

\* The event store implements the append-only log: its initial table is the
\* empty log, and every step of any writer or crash leaves the log alone or
\* appends one entry at its end.
THEOREM StoreImplementsLog == Spec => ImplementsLog
<1>1. Init => Log!LogInit
    BY DEF Init, Log!LogInit
<1>2. StreamInv /\ [Next]_vars => [Log!LogAppend]_events
    <2> SUFFICES ASSUME StreamInv, [Next]_vars, events' # events
                 PROVE  Log!LogAppend
        OBVIOUS
    <2>1. PICK r \in Nat \ {0} :
            /\ DOMAIN events = 1 .. r - 1
            /\ DOMAIN events' = 1 .. r
            /\ \A v \in DOMAIN events : events'[v] = events[v]
            /\ \A v \in DOMAIN events' : events'[v] \in Event
        BY TableStep
    <2>2. Len(events) = r - 1
        BY <2>1, LogLength
    <2> QED BY <2>1, <2>2 DEF Log!LogAppend
<1> QED BY <1>1, <1>2, StreamInvHolds, PTL DEF Spec, ImplementsLog, Log!LogSpec

-----------------------------------------------------------------------------
\* The events in the queues of writers and in the table are told apart by their
\* identities: no two queued events share one, and a queued event that is
\* stored already (by an insert whose answer was lost, or before a failure
\* in the middle of the batch) is stored under its own version.
IdentityInv ==
  /\ \A v \in DOMAIN events : events[v].id < nextId
  /\ \A w \in Writers : \A i \in 1 .. Len(unc[w]) : unc[w][i].id < nextId
  /\ \A w, x \in Writers : \A i \in 1 .. Len(unc[w]) : \A j \in 1 .. Len(unc[x]) :
       unc[w][i].id = unc[x][j].id => w = x /\ i = j
  /\ \A w \in Writers : \A i \in 1 .. Len(unc[w]) : \A v \in DOMAIN events :
       events[v].id = unc[w][i].id => v = unc[w][i].version
  /\ NoEventStoredTwice

\* Steps that neither raise an event nor insert a row keep the table, and
\* every queue or drop it.
LEMMA QuietStep ==
  ASSUME StreamInv, [Next]_vars,
         \A w \in Writers : ~InsertOk(w) /\ ~InsertLostAck(w),
         \A w \in Writers, t \in EventTypes : ~RaiseEvent(w, t)
  PROVE  /\ events' = events /\ nextId' = nextId
         /\ \A x \in Writers : unc'[x] = unc[x] \/ unc'[x] = << >>
<1> USE DEF StreamInv, TypeOK
<1>1. ASSUME NEW w \in Writers, NewAggregate(w) \/ LoadSnapshot(w) \/ LoadWithoutSnapshot(w)
      PROVE  events' = events /\ nextId' = nextId /\ unc' = [unc EXCEPT ![w] = << >>]
    BY <1>1 DEF NewAggregate, LoadSnapshot, LoadWithoutSnapshot
<1>2. ASSUME NEW w \in Writers, ReplayAfterSnapshot(w) \/ ReplayAll(w)
      PROVE  UNCHANGED <<events, nextId, unc>>
    BY <1>2 DEF ReplayAfterSnapshot, ReplayAll, Replay
<1>3. ASSUME NEW w \in Writers, LoadFails(w)
      PROVE  /\ events' = events /\ nextId' = nextId
             /\ \A x \in Writers : unc'[x] = unc[x] \/ unc'[x] = << >>
    BY <1>3 DEF LoadFails, Forget
<1>4. ASSUME NEW w \in Writers, SaveNothing(w) \/ SaveBegin(w) \/ InsertFails(w)
                \/ SnapshotSave(w) \/ SnapshotSkip(w)
      PROVE  UNCHANGED <<events, nextId, unc>>
    BY <1>4 DEF SaveNothing, SaveBegin, InsertFails, AppendError, SnapshotSave, SnapshotSkip
<1>5. ASSUME NEW w \in Writers, AppendDone(w)
      PROVE  events' = events /\ nextId' = nextId /\ unc' = [unc EXCEPT ![w] = << >>]
    BY <1>5 DEF AppendDone
<1>6. ASSUME NEW s \in Stores, Crash(s)
      PROVE  /\ events' = events /\ nextId' = nextId
             /\ \A x \in Writers : unc'[x] = unc[x] \/ unc'[x] = << >>
    BY <1>6 DEF Crash, Forget
<1>7. CASE UNCHANGED vars
    BY <1>7 DEF vars
<1> QED BY <1>1, <1>2, <1>3, <1>4, <1>5, <1>6, <1>7
        DEF Next, WriterStep, Load, SaveStep

LEMMA IdentityStep ==
  ASSUME StreamInv, IdentityInv, [Next]_vars
  PROVE  IdentityInv'
<1> USE DEF StreamInv, TypeOK, Ids
<1>0. nextId \in Nat
    BY MaxEventsAssumption
<1>1. ASSUME NEW w \in Writers, NEW t \in EventTypes, RaiseEvent(w, t)
      PROVE  IdentityInv'
    <2> DEFINE e == [id |-> nextId, type |-> t, version |-> ver[w] + 1]
    <2>1. /\ unc' = [unc EXCEPT ![w] = Append(unc[w], e)]
          /\ events' = events /\ nextId' = nextId + 1
        BY <1>1 DEF RaiseEvent
    <2>2. /\ Len(unc'[w]) = Len(unc[w]) + 1
          /\ \A i \in 1 .. Len(unc[w]) : unc'[w][i] = unc[w][i]
          /\ unc'[w][Len(unc[w]) + 1] = e
        <3>1. e \in Event
            BY <1>1, MaxEventsAssumption DEF RaiseEvent, Event
        <3> QED BY <2>1, <3>1
    <2>3. \A x \in Writers : \A i \in 1 .. Len(unc'[x]) :
            \/ i \in 1 .. Len(unc[x]) /\ unc'[x][i] = unc[x][i]
            \/ x = w /\ i = Len(unc[w]) + 1 /\ unc'[x][i].id = nextId
        BY <2>1, <2>2
    <2>4. \A v \in DOMAIN events : events[v].id \in Nat
        BY DEF Event
    <2>5. \A x \in Writers : \A i \in 1 .. Len(unc[x]) : unc[x][i].id \in Nat
        <3> TAKE x \in Writers
        <3> TAKE i \in 1 .. Len(unc[x])
        <3>1. unc[x][i] \in Event
            OBVIOUS
        <3> QED BY <3>1 DEF Event
    <2> HIDE DEF e
    <2>6. /\ \A v \in DOMAIN events' : events'[v].id < nextId'
          /\ \A x \in Writers : \A i \in 1 .. Len(unc'[x]) : unc'[x][i].id < nextId'
        <3>1. nextId \in Nat /\ nextId' = nextId + 1 /\ events' = events
            BY <1>0, <2>1
        <3>2. \A v \in DOMAIN events : events[v].id < nextId
            BY DEF IdentityInv
        <3>3. \A x \in Writers : \A i \in 1 .. Len(unc[x]) : unc[x][i].id < nextId
            BY DEF IdentityInv
        <3>4. \A v \in DOMAIN events' : events'[v].id < nextId'
            BY ONLY <2>4, <3>1, <3>2
        <3>5. \A x \in Writers : \A i \in 1 .. Len(unc'[x]) : unc'[x][i].id < nextId'
            <4> TAKE x \in Writers
            <4> TAKE i \in 1 .. Len(unc'[x])
            <4>1. CASE i \in 1 .. Len(unc[x]) /\ unc'[x][i] = unc[x][i]
                <5>1. unc[x][i].id \in Nat /\ unc[x][i].id < nextId
                    BY <2>5, <3>3, <4>1, Zenon
                <5> QED BY ONLY <3>1, <4>1, <5>1
            <4>2. CASE unc'[x][i].id = nextId
                BY ONLY <3>1, <4>2
            <4> QED BY <2>3, <4>1, <4>2, Zenon
        <3> QED BY <3>4, <3>5, Zenon
    <2>7. \A y, x \in Writers : \A i \in 1 .. Len(unc'[y]) : \A j \in 1 .. Len(unc'[x]) :
            unc'[y][i].id = unc'[x][j].id => y = x /\ i = j
        <3>1. /\ \A x \in Writers : \A i \in 1 .. Len(unc[x]) : unc[x][i].id # nextId
              /\ \A y, x \in Writers : \A i \in 1 .. Len(unc[y]) : \A j \in 1 .. Len(unc[x]) :
                   unc[y][i].id = unc[x][j].id => y = x /\ i = j
            BY ONLY IdentityInv, <1>0, <2>5 DEF IdentityInv
        <3> TAKE y, x \in Writers
        <3> TAKE i \in 1 .. Len(unc'[y])
        <3> TAKE j \in 1 .. Len(unc'[x])
        <3>2. /\ \/ i \in 1 .. Len(unc[y]) /\ unc'[y][i] = unc[y][i]
                 \/ y = w /\ i = Len(unc[w]) + 1 /\ unc'[y][i].id = nextId
              /\ \/ j \in 1 .. Len(unc[x]) /\ unc'[x][j] = unc[x][j]
                 \/ x = w /\ j = Len(unc[w]) + 1 /\ unc'[x][j].id = nextId
            BY ONLY <2>3
        <3>3. CASE i \in 1 .. Len(unc[y]) /\ j \in 1 .. Len(unc[x])
                   /\ unc'[y][i] = unc[y][i] /\ unc'[x][j] = unc[x][j]
            BY ONLY <3>1, <3>3
        <3>4. CASE i \in 1 .. Len(unc[y]) /\ unc'[y][i] = unc[y][i] /\ unc'[x][j].id = nextId
            BY ONLY <3>1, <3>4
        <3>5. CASE j \in 1 .. Len(unc[x]) /\ unc'[x][j] = unc[x][j] /\ unc'[y][i].id = nextId
            BY ONLY <3>1, <3>5
        <3>6. CASE y = w /\ x = w /\ i = Len(unc[w]) + 1 /\ j = Len(unc[w]) + 1
            BY <3>6, Zenon
        <3> QED BY <3>2, <3>3, <3>4, <3>5, <3>6, Zenon
    <2>8. \A x \in Writers : \A i \in 1 .. Len(unc'[x]) : \A v \in DOMAIN events' :
            events'[v].id = unc'[x][i].id => v = unc'[x][i].version
        BY <1>0, <2>1, <2>3, <2>4, <2>5 DEF IdentityInv
    <2>9. NoEventStoredTwice'
        BY <2>1 DEF IdentityInv, NoEventStoredTwice
    <2> QED BY ONLY <2>6, <2>7, <2>8, <2>9 DEF IdentityInv
<1>2. ASSUME NEW w \in Writers, InsertOk(w) \/ InsertLostAck(w)
      PROVE  IdentityInv'
    <2>1. /\ pc[w] = "append" /\ idx[w] <= Len(unc[w])
          /\ Row(w).version \notin DOMAIN events /\ events' = Inserted(Row(w))
          /\ UNCHANGED <<unc, nextId>>
        BY <1>2 DEF InsertOk, InsertLostAck, AppendError
    <2>2. idx[w] \in 1 .. Len(unc[w]) /\ Row(w) = unc[w][idx[w]]
        BY <2>1 DEF LoopOK, Row
    <2>3. \A v \in DOMAIN events : events[v].id # Row(w).id
        BY <2>1, <2>2 DEF IdentityInv
    <2>4. \A v \in DOMAIN events' :
            (v \in DOMAIN events /\ events'[v] = events[v]) \/ (v = Row(w).version /\ events'[v] = Row(w))
        BY <2>1 DEF Inserted
    <2>5. NoEventStoredTwice'
        BY <2>3, <2>4 DEF IdentityInv, NoEventStoredTwice
    <2>6. \A v \in DOMAIN events' : events'[v].id < nextId'
        BY <2>1, <2>2, <2>4 DEF IdentityInv
    <2>7. \A x \in Writers : \A i \in 1 .. Len(unc'[x]) : \A v \in DOMAIN events' :
            events'[v].id = unc'[x][i].id => v = unc'[x][i].version
        BY <2>1, <2>2, <2>4 DEF IdentityInv
    <2> QED BY <2>1, <2>5, <2>6, <2>7 DEF IdentityInv
<1>3. CASE /\ \A w \in Writers : ~InsertOk(w) /\ ~InsertLostAck(w)
           /\ \A w \in Writers, t \in EventTypes : ~RaiseEvent(w, t)
    <2>1. /\ events' = events /\ nextId' = nextId
          /\ \A x \in Writers : unc'[x] = unc[x] \/ unc'[x] = << >>
        BY <1>3, QuietStep
    <2>2. \A x \in Writers : \A i \in 1 .. Len(unc'[x]) : i \in 1 .. Len(unc[x]) /\ unc'[x][i] = unc[x][i]
        <3> TAKE x \in Writers
        <3>1. CASE unc'[x] = << >>
            <4>1. Len(unc'[x]) = 0 /\ 1 .. 0 = {}
                BY <3>1
            <4> QED BY <4>1
        <3>2. CASE unc'[x] = unc[x]
            BY <3>2, Zenon
        <3> QED BY <2>1, <3>1, <3>2
    <2>3. /\ \A v \in DOMAIN events' : events'[v].id < nextId'
          /\ NoEventStoredTwice'
        BY <2>1, Zenon DEF IdentityInv, NoEventStoredTwice
    <2>4. \A x \in Writers : \A i \in 1 .. Len(unc'[x]) : unc'[x][i].id < nextId'
        BY ONLY IdentityInv, <2>1, <2>2 DEF IdentityInv
    <2>5. \A y, x \in Writers : \A i \in 1 .. Len(unc'[y]) : \A j \in 1 .. Len(unc'[x]) :
            unc'[y][i].id = unc'[x][j].id => y = x /\ i = j
        <3>1. \A y, x \in Writers : \A i \in 1 .. Len(unc[y]) : \A j \in 1 .. Len(unc[x]) :
                unc[y][i].id = unc[x][j].id => y = x /\ i = j
            BY ONLY IdentityInv DEF IdentityInv
        <3> TAKE y, x \in Writers
        <3> TAKE i \in 1 .. Len(unc'[y])
        <3> TAKE j \in 1 .. Len(unc'[x])
        <3>2. /\ i \in 1 .. Len(unc[y]) /\ unc'[y][i] = unc[y][i]
              /\ j \in 1 .. Len(unc[x]) /\ unc'[x][j] = unc[x][j]
            BY ONLY <2>2
        <3> QED BY ONLY <3>1, <3>2
    <2>6. \A x \in Writers : \A i \in 1 .. Len(unc'[x]) : \A v \in DOMAIN events' :
            events'[v].id = unc'[x][i].id => v = unc'[x][i].version
        BY ONLY IdentityInv, <2>1, <2>2 DEF IdentityInv
    <2> QED BY ONLY <2>3, <2>4, <2>5, <2>6 DEF IdentityInv
<1> QED BY <1>1, <1>2, <1>3

\* An event is stored under one version only, whoever races, and however often
\* Save is repeated after an error that left part of its batch in the table.
THEOREM StoredOnce == Spec => []NoEventStoredTwice
<1>1. Init => IdentityInv
    BY DEF Init, IdentityInv, NoEventStoredTwice
<1>2. IdentityInv => NoEventStoredTwice
    BY DEF IdentityInv
<1> QED BY <1>1, <1>2, IdentityStep, StreamInvHolds, PTL DEF Spec
-----------------------------------------------------------------------------
\* The state of one aggregate, effect by effect: up to the version at which it
\* left the stream the effects are those of the stored events, above it those
\* of its own queue, and the rows that Append has passed are that queue's.
EffectsOK(w) ==
  /\ DOMAIN hist[w] = 1 .. ver[w]
  /\ \A v \in 1 .. Base(w) : hist[w][v].id = events[v].id /\ hist[w][v].by # "repeated"
  /\ \A i \in 1 .. Len(unc[w]) :
       hist[w][Base(w) + i].id = unc[w][i].id /\ hist[w][Base(w) + i].by # "repeated"
  /\ pc[w] = "append" => \A i \in 1 .. idx[w] - 1 : events[Base(w) + i].id = unc[w][i].id

\* The inductive invariant behind StateIsReplay.
HistoryInv == SnapshotIsReplay /\ \A w \in Writers : EffectsOK(w)

\* Facts about one writer that the type and stream invariants give.
LEMMA WriterFacts ==
  ASSUME StreamInv, NEW w \in Writers
  PROVE  /\ unc[w] \in Seq(Event) /\ Len(unc[w]) \in Nat
         /\ ver[w] \in Nat /\ idx[w] \in Nat /\ Base(w) \in Nat
         /\ ver[w] = Base(w) + Len(unc[w])
         /\ 1 .. Base(w) \subseteq DOMAIN events
         /\ pc[w] = "append" => /\ idx[w] \in 1 .. Len(unc[w]) + 1
                                /\ 1 .. Base(w) + idx[w] - 1 \subseteq DOMAIN events
         /\ pc[w] \notin {"ready", "append"} => unc[w] = << >>
    BY DEF StreamInv, TypeOK, QueueOK, LoopOK, Base

\* An aggregate that a step leaves alone keeps its history: stored rows stay.
LEMMA KeptEffects ==
  ASSUME StreamInv, NEW x \in Writers, EffectsOK(x),
         ver'[x] = ver[x], unc'[x] = unc[x], hist'[x] = hist[x],
         pc'[x] = "append" => pc[x] = "append" /\ idx'[x] = idx[x],
         \A v \in DOMAIN events : v \in DOMAIN events' /\ events'[v] = events[v]
  PROVE  EffectsOK(x)'
<1>1. Base(x)' = Base(x)
    BY DEF Base
<1>2. /\ Base(x) \in Nat /\ 1 .. Base(x) \subseteq DOMAIN events
      /\ pc[x] = "append" => /\ idx[x] \in 1 .. Len(unc[x]) + 1
                             /\ 1 .. Base(x) + idx[x] - 1 \subseteq DOMAIN events
      /\ Len(unc[x]) \in Nat
    BY WriterFacts
<1>3. \A v \in 1 .. Base(x) : hist'[x][v].id = events'[v].id /\ hist'[x][v].by # "repeated"
    BY <1>2 DEF EffectsOK
<1>4. ASSUME pc'[x] = "append"
      PROVE  \A i \in 1 .. idx'[x] - 1 : events'[Base(x) + i].id = unc'[x][i].id
    <2> TAKE i \in 1 .. idx'[x] - 1
    <2>1. pc[x] = "append" /\ idx'[x] = idx[x] /\ i \in 1 .. idx[x] - 1
        BY <1>4
    <2>2. events[Base(x) + i].id = unc[x][i].id
        BY <2>1 DEF EffectsOK
    <2>3. Base(x) + i \in DOMAIN events
        BY ONLY <1>2, <2>1
    <2> QED BY <2>2, <2>3
<1> QED BY <1>1, <1>3, <1>4 DEF EffectsOK

\* An aggregate with an empty queue, not in Append, whose state is a replay.
LEMMA ReplayedEffects ==
  ASSUME NEW w \in Writers, ver'[w] \in Nat, unc'[w] = << >>, pc'[w] # "append",
         IsReplay(hist[w], ver[w])'
  PROVE  EffectsOK(w)'
<1>1. Base(w)' = ver'[w]
    BY DEF Base
<1> QED BY <1>1 DEF EffectsOK, IsReplay

\* With nothing queued, the effects are the replay of the stored prefix.
LEMMA EffectsAreReplay ==
  ASSUME StreamInv, NEW w \in Writers, EffectsOK(w), unc[w] = << >>
  PROVE  IsReplay(hist[w], ver[w])
<1>1. Base(w) = ver[w]
    BY WriterFacts
<1> QED BY <1>1, WriterFacts DEF EffectsOK, IsReplay

\* A replay stays one when the table only grows.
LEMMA KeptReplay ==
  ASSUME NEW h, NEW n, IsReplay(h, n),
         \A v \in DOMAIN events : v \in DOMAIN events' /\ events'[v] = events[v]
  PROVE  /\ DOMAIN h = 1 .. n /\ 1 .. n \subseteq DOMAIN events'
         /\ \A v \in 1 .. n : h[v].id = events'[v].id /\ h[v].by # "repeated"
    BY DEF IsReplay

\* Starting and loading: an empty aggregate, a copy of the snapshot, or the
\* stored rows above what the aggregate has.
LEMMA LoadKeepsHistory ==
  ASSUME StreamInv, HistoryInv, NEW w \in Writers, NewAggregate(w) \/ Load(w)
  PROVE  HistoryInv'
<1> USE DEF StreamInv, TypeOK
<1>1. events' = events /\ snapshot' = snapshot
    BY DEF NewAggregate, Load, LoadSnapshot, LoadWithoutSnapshot, ReplayAfterSnapshot,
           ReplayAll, Replay, LoadFails
<1>2. SnapshotIsReplay'
    BY <1>1 DEF HistoryInv, SnapshotIsReplay, IsReplay
<1>3. ASSUME NEW x \in Writers, x # w PROVE EffectsOK(x)'
    <2>1. /\ ver'[x] = ver[x] /\ unc'[x] = unc[x] /\ hist'[x] = hist[x]
          /\ pc'[x] = pc[x] /\ idx'[x] = idx[x]
        BY <1>3 DEF NewAggregate, Load, LoadSnapshot, LoadWithoutSnapshot,
                    ReplayAfterSnapshot, ReplayAll, Replay, LoadFails, Forget
    <2> QED BY <1>1, <2>1, KeptEffects DEF HistoryInv
<1>4. EffectsOK(w)'
    <2>1. CASE NewAggregate(w) \/ LoadWithoutSnapshot(w) \/ LoadFails(w)
        <3>1. ver'[w] = 0 /\ unc'[w] = << >> /\ hist'[w] = << >> /\ pc'[w] # "append"
            BY <2>1 DEF NewAggregate, LoadWithoutSnapshot, LoadFails, Forget
        <3>2. IsReplay(hist[w], ver[w])'
            BY <3>1 DEF IsReplay
        <3> QED BY <3>1, <3>2, ReplayedEffects
    <2>2. CASE LoadSnapshot(w)
        <3>1. /\ snapshot # NoSnapshot /\ pc'[w] = "replaySnap"
              /\ ver'[w] = snapshot.version /\ unc'[w] = << >> /\ hist'[w] = snapshot.state
            BY <2>2 DEF LoadSnapshot
        <3>2. IsReplay(hist[w], ver[w])'
            BY <1>1, <3>1 DEF IsReplay, HistoryInv, SnapshotIsReplay
        <3> QED BY <3>1, <3>2, ReplayedEffects
    <2>3. ASSUME NEW handlers, Replay(w, handlers), pc[w] \in {"replaySnap", "replayAll"}
          PROVE  EffectsOK(w)'
        <3> DEFINE rows == {v \in DOMAIN events : v > ver[w]}
        <3>1. PICK n \in Nat : DOMAIN events = 1 .. n
            BY DEF StreamLength
        <3>2. GetLatestVersion = n
            BY <3>1, LatestIsLength
        <3>3. unc[w] = << >> /\ ver[w] \in Nat /\ ver[w] <= n
            <4>1. unc[w] = << >> /\ ver[w] \in Nat /\ 1 .. Base(w) \subseteq 1 .. n /\ Base(w) = ver[w]
                BY <2>3, <3>1, WriterFacts
            <4> QED BY ONLY <4>1, <3>1
        <3>4. IsReplay(hist[w], ver[w])
            BY <3>3, EffectsAreReplay DEF HistoryInv
        <3>5. ver'[w] = n
            <4>1. ver'[w] = IF rows = {} THEN ver[w] ELSE n
                BY <2>3, <3>2 DEF Replay
            <4>2. rows = {} => ver[w] = n
                <5> SUFFICES ASSUME ver[w] < n PROVE n \in rows
                    BY <3>3
                <5> QED BY <3>1, <3>3
            <4> QED BY <4>1, <4>2
        <3>6. /\ pc'[w] = "ready" /\ unc'[w] = << >>
              /\ hist'[w] = [v \in DOMAIN hist[w] \cup rows |->
                               IF v \notin rows THEN hist[w][v]
                               ELSE IF v \in DOMAIN hist[w]
                                 THEN [id |-> events[v].id, by |-> "repeated"]
                               ELSE ReplayEffect(events[v], handlers)]
            BY <2>3, <3>3 DEF Replay
        <3>7. DOMAIN hist[w] = 1 .. ver[w] /\ rows = (ver[w] + 1) .. n
            BY <3>1, <3>3, <3>4 DEF IsReplay
        <3>8. DOMAIN hist'[w] = 1 .. n
            BY <3>3, <3>6, <3>7
        <3>9. ASSUME NEW v \in 1 .. n
              PROVE  hist'[w][v].id = events[v].id /\ hist'[w][v].by # "repeated"
            <4>1. CASE v \in 1 .. ver[w]
                <5>1. hist'[w][v] = hist[w][v]
                    BY <3>3, <3>6, <3>7, <4>1
                <5> QED BY <3>4, <4>1, <5>1 DEF IsReplay
            <4>2. CASE v \in rows /\ v \notin DOMAIN hist[w]
                <5>1. hist'[w][v] = ReplayEffect(events[v], handlers)
                    BY <3>6, <4>2
                <5> QED BY <5>1 DEF ReplayEffect
            <4> QED BY <3>3, <3>7, <4>1, <4>2
        <3>10. IsReplay(hist[w], ver[w])'
            BY <1>1, <3>1, <3>5, <3>8, <3>9 DEF IsReplay
        <3> QED BY <3>5, <3>6, <3>10, ReplayedEffects
    <2> QED BY <2>1, <2>2, <2>3 DEF Load, ReplayAfterSnapshot, ReplayAll
<1> QED BY <1>2, <1>3, <1>4 DEF HistoryInv

\* RaiseEvent, of a domain that applies what it raises, adds the effect of the
\* new event above those the aggregate has.
LEMMA RaiseKeepsHistory ==
  ASSUME StreamInv, HistoryInv, AppliesOnRaise,
         NEW w \in Writers, NEW t \in EventTypes, RaiseEvent(w, t)
  PROVE  HistoryInv'
<1> USE DEF StreamInv, TypeOK
<1> DEFINE e == [id |-> nextId, type |-> t, version |-> ver[w] + 1]
<1>1. /\ events' = events /\ snapshot' = snapshot
      /\ pc[w] = "ready" /\ pc' = pc
      /\ ver' = [ver EXCEPT ![w] = ver[w] + 1]
      /\ unc' = [unc EXCEPT ![w] = Append(unc[w], e)]
      /\ hist' = [hist EXCEPT ![w] = [v \in DOMAIN hist[w] \cup {ver[w] + 1} |->
                    IF v = ver[w] + 1 THEN ReplayEffect(e, Handled) ELSE hist[w][v]]]
      /\ idx' = idx
    BY DEF RaiseEvent
<1>2. SnapshotIsReplay'
    BY <1>1 DEF HistoryInv, SnapshotIsReplay, IsReplay
<1>3. ASSUME NEW x \in Writers, x # w PROVE EffectsOK(x)'
    <2>1. ver'[x] = ver[x] /\ unc'[x] = unc[x] /\ hist'[x] = hist[x]
        BY <1>1, <1>3
    <2> QED BY <1>1, <2>1, KeptEffects DEF HistoryInv
<1>4. EffectsOK(w)'
    <2>1. /\ unc[w] \in Seq(Event) /\ Len(unc[w]) \in Nat /\ Base(w) \in Nat
          /\ ver[w] = Base(w) + Len(unc[w])
        BY WriterFacts
    <2>2. e \in Event
        BY MaxEventsAssumption DEF RaiseEvent, Event, Ids
    <2>3. /\ Len(unc'[w]) = Len(unc[w]) + 1
          /\ \A i \in 1 .. Len(unc[w]) : unc'[w][i] = unc[w][i]
          /\ unc'[w][Len(unc[w]) + 1] = e
        BY <1>1, <2>1, <2>2
    <2>4. Base(w)' = Base(w) /\ ver'[w] = ver[w] + 1 /\ ver'[w] = Base(w) + Len(unc'[w])
        BY <1>1, <2>1, <2>3 DEF Base
    <2>5. /\ DOMAIN hist'[w] = DOMAIN hist[w] \cup {ver[w] + 1}
          /\ hist'[w][ver[w] + 1].id = nextId /\ hist'[w][ver[w] + 1].by # "repeated"
          /\ \A v \in DOMAIN hist[w] : v # ver[w] + 1 => hist'[w][v] = hist[w][v]
        BY <1>1 DEF ReplayEffect
    <2>6. DOMAIN hist[w] = 1 .. ver[w]
        BY DEF HistoryInv, EffectsOK
    <2>7. DOMAIN hist'[w] = 1 .. ver'[w]
        BY <2>1, <2>4, <2>5, <2>6
    <2>8. \A v \in 1 .. ver[w] : hist'[w][v] = hist[w][v]
        BY <2>1, <2>5, <2>6
    <2>9. ASSUME NEW v \in 1 .. Base(w)
          PROVE  hist'[w][v].id = events[v].id /\ hist'[w][v].by # "repeated"
        <3>1. v \in 1 .. ver[w]
            BY ONLY <2>1, <2>9
        <3> QED BY <2>8, <3>1 DEF HistoryInv, EffectsOK
    <2>10. ASSUME NEW i \in 1 .. Len(unc'[w])
           PROVE  /\ hist'[w][Base(w) + i].id = unc'[w][i].id
                  /\ hist'[w][Base(w) + i].by # "repeated"
        <3>1. CASE i \in 1 .. Len(unc[w])
            <4>1. Base(w) + i \in 1 .. ver[w]
                BY ONLY <2>1, <3>1
            <4> QED BY <2>3, <2>8, <3>1, <4>1 DEF HistoryInv, EffectsOK
        <3>2. CASE i = Len(unc[w]) + 1
            <4>1. Base(w) + i = ver[w] + 1
                BY ONLY <2>1, <3>2
            <4> QED BY <2>3, <2>5, <3>2, <4>1
        <3> QED BY ONLY <2>1, <2>3, <2>10, <3>1, <3>2
    <2> HIDE DEF e
    <2>11. events' = events /\ pc'[w] # "append"
        BY <1>1
    <2> QED BY ONLY <2>4, <2>7, <2>9, <2>10, <2>11 DEF EffectsOK
<1> QED BY <1>2, <1>3, <1>4 DEF HistoryInv

\* Saving: the row inserted is the queue's next, and when the loop has passed
\* the whole queue the stored rows are the aggregate's effects, which is what
\* the snapshot then keeps.
LEMMA SaveKeepsHistory ==
  ASSUME StreamInv, HistoryInv, NEW w \in Writers,
         SaveNothing(w) \/ SaveBegin(w) \/ SaveStep(w)
  PROVE  HistoryInv'
<1> USE DEF StreamInv, TypeOK
<1>1. ASSUME NEW x \in Writers, x # w
      PROVE  /\ ver'[x] = ver[x] /\ unc'[x] = unc[x] /\ hist'[x] = hist[x]
             /\ pc'[x] = pc[x] /\ idx'[x] = idx[x]
    BY <1>1 DEF SaveNothing, SaveBegin, SaveStep, InsertOk, InsertFails, InsertLostAck,
                AppendError, AppendDone, SnapshotSave, SnapshotSkip
<1>2. \A v \in DOMAIN events : v \in DOMAIN events' /\ events'[v] = events[v]
    BY DEF SaveNothing, SaveBegin, SaveStep, InsertOk, InsertFails, InsertLostAck,
           AppendError, AppendDone, SnapshotSave, SnapshotSkip, Inserted
<1>3. ASSUME NEW x \in Writers, x # w PROVE EffectsOK(x)'
    BY <1>1, <1>2, <1>3, KeptEffects DEF HistoryInv
<1>4. \/ snapshot' = snapshot
      \/ pc[w] = "snapshot" /\ snapshot' = [version |-> ver[w], state |-> hist[w]]
    BY DEF SaveNothing, SaveBegin, SaveStep, InsertOk, InsertFails, InsertLostAck,
           AppendError, AppendDone, SnapshotSave, SnapshotSkip
<1>5. SnapshotIsReplay'
    <2>1. CASE snapshot' = snapshot
        <3> SUFFICES ASSUME snapshot # NoSnapshot
                     PROVE  IsReplay(snapshot.state, snapshot.version)'
            BY <2>1 DEF SnapshotIsReplay
        <3>1. IsReplay(snapshot.state, snapshot.version)
            BY DEF HistoryInv, SnapshotIsReplay
        <3> QED BY <1>2, <2>1, <3>1, KeptReplay DEF IsReplay
    <2>2. CASE pc[w] = "snapshot" /\ snapshot' = [version |-> ver[w], state |-> hist[w]]
        <3>1. unc[w] = << >>
            BY <2>2, WriterFacts
        <3>2. IsReplay(hist[w], ver[w])
            BY <3>1, EffectsAreReplay DEF HistoryInv
        <3> QED BY <1>2, <2>2, <3>2, KeptReplay DEF SnapshotIsReplay, IsReplay
    <2> QED BY <1>4, <2>1, <2>2
<1>6. EffectsOK(w)'
    <2>1. CASE SaveNothing(w) \/ InsertFails(w) \/ SnapshotSave(w) \/ SnapshotSkip(w)
               \/ InsertLostAck(w)
        <3>1. ver'[w] = ver[w] /\ unc'[w] = unc[w] /\ hist'[w] = hist[w] /\ pc'[w] # "append"
            BY <2>1 DEF SaveNothing, InsertFails, InsertLostAck, AppendError,
                        SnapshotSave, SnapshotSkip
        <3> QED BY <1>2, <3>1, KeptEffects DEF HistoryInv
    <2>2. CASE SaveBegin(w)
        <3>1. ver' = ver /\ unc' = unc /\ hist' = hist /\ events' = events /\ idx'[w] = 1
            BY <2>2 DEF SaveBegin
        <3>2. Base(w)' = Base(w)
            BY <3>1 DEF Base
        <3> QED BY <3>1, <3>2 DEF HistoryInv, EffectsOK
    <2>3. CASE InsertOk(w)
        <3>1. /\ pc[w] = "append" /\ idx[w] <= Len(unc[w]) /\ idx'[w] = idx[w] + 1
              /\ Row(w).version \notin DOMAIN events /\ events' = Inserted(Row(w))
              /\ ver' = ver /\ unc' = unc /\ hist' = hist
            BY <2>3 DEF InsertOk
        <3>2. Base(w)' = Base(w)
            BY <3>1 DEF Base
        <3>3. Row(w).version = Base(w) + idx[w] /\ events'[Row(w).version] = Row(w)
            BY <3>1, InsertAtEnd DEF Inserted
        <3>4. /\ Base(w) \in Nat /\ idx[w] \in Nat
              /\ 1 .. Base(w) \subseteq DOMAIN events
              /\ 1 .. Base(w) + idx[w] - 1 \subseteq DOMAIN events
            BY <3>1, WriterFacts
        <3>5. \A v \in 1 .. Base(w) : hist'[w][v].id = events'[v].id /\ hist'[w][v].by # "repeated"
            BY <1>2, <3>1, <3>4 DEF HistoryInv, EffectsOK
        <3>6. ASSUME NEW i \in 1 .. idx'[w] - 1
              PROVE  events'[Base(w) + i].id = unc'[w][i].id
            <4>1. CASE i = idx[w]
                BY <3>1, <3>3, <4>1 DEF Row
            <4>2. CASE i \in 1 .. idx[w] - 1
                <5>1. Base(w) + i \in DOMAIN events
                    BY ONLY <3>4, <4>2
                <5>2. events[Base(w) + i].id = unc[w][i].id
                    BY <3>1, <4>2 DEF HistoryInv, EffectsOK
                <5> QED BY <1>2, <3>1, <5>1, <5>2
            <4> QED BY ONLY <3>1, <3>4, <3>6, <4>1, <4>2
        <3> QED BY <3>1, <3>2, <3>5, <3>6 DEF HistoryInv, EffectsOK
    <2>4. CASE AppendDone(w)
        <3>1. /\ pc[w] = "append" /\ idx[w] > Len(unc[w]) /\ pc'[w] = "snapshot"
              /\ events' = events /\ ver' = ver /\ hist' = hist /\ unc'[w] = << >>
            BY <2>4 DEF AppendDone
        <3>2. /\ ver[w] \in Nat /\ Base(w) \in Nat /\ Len(unc[w]) \in Nat
              /\ ver[w] = Base(w) + Len(unc[w])
              /\ idx[w] = Len(unc[w]) + 1
              /\ 1 .. Base(w) + idx[w] - 1 \subseteq DOMAIN events
            BY <3>1, WriterFacts
        <3>3. 1 .. ver[w] \subseteq DOMAIN events
            BY ONLY <3>2
        <3>4. ASSUME NEW v \in 1 .. ver[w]
              PROVE  hist[w][v].id = events[v].id /\ hist[w][v].by # "repeated"
            <4>1. CASE v \in 1 .. Base(w)
                BY <4>1 DEF HistoryInv, EffectsOK
            <4>2. CASE v \notin 1 .. Base(w)
                <5>1. /\ v - Base(w) \in 1 .. Len(unc[w]) /\ v - Base(w) \in 1 .. idx[w] - 1
                      /\ Base(w) + (v - Base(w)) = v
                    <6>1. /\ v \in Int /\ 1 <= v /\ v <= Base(w) + Len(unc[w])
                          /\ Base(w) \in Nat /\ Len(unc[w]) \in Nat
                          /\ idx[w] - 1 = Len(unc[w]) /\ v > Base(w)
                        BY ONLY <3>2, <3>4, <4>2
                    <6> QED BY ONLY <6>1
                <5>2. /\ hist[w][Base(w) + (v - Base(w))].id = unc[w][v - Base(w)].id
                      /\ hist[w][Base(w) + (v - Base(w))].by # "repeated"
                      /\ events[Base(w) + (v - Base(w))].id = unc[w][v - Base(w)].id
                    BY <3>1, <5>1 DEF HistoryInv, EffectsOK
                <5> QED BY ONLY <5>1, <5>2
            <4> QED BY <4>1, <4>2
        <3>5. IsReplay(hist[w], ver[w])'
            BY <3>1, <3>3, <3>4 DEF IsReplay, HistoryInv, EffectsOK
        <3> QED BY <3>1, <3>2, <3>5, ReplayedEffects
    <2> QED BY <2>1, <2>2, <2>3, <2>4 DEF SaveStep
<1> QED BY <1>3, <1>5, <1>6 DEF HistoryInv

\* A process that dies takes its aggregates with it; the tables, and with them
\* every other aggregate and the snapshot, are as they were.
LEMMA CrashKeepsHistory ==
  ASSUME StreamInv, HistoryInv, NEW s \in Stores, Crash(s)
  PROVE  HistoryInv'
<1>1. events' = events /\ snapshot' = snapshot
    BY DEF Crash
<1>2. SnapshotIsReplay'
    BY <1>1 DEF HistoryInv, SnapshotIsReplay, IsReplay
<1>3. ASSUME NEW x \in Writers PROVE EffectsOK(x)'
    <2>1. CASE StoreOf[x] = s
        <3>1. ver'[x] = 0 /\ unc'[x] = << >> /\ hist'[x] = << >> /\ pc'[x] = "none"
            BY <2>1 DEF Crash, Forget
        <3>2. IsReplay(hist[x], ver[x])'
            BY <3>1 DEF IsReplay
        <3> QED BY <3>1, <3>2, ReplayedEffects
    <2>2. CASE StoreOf[x] # s
        <3>1. /\ ver'[x] = ver[x] /\ unc'[x] = unc[x] /\ hist'[x] = hist[x]
              /\ pc'[x] = pc[x] /\ idx'[x] = idx[x]
            BY <2>2 DEF Crash, Forget
        <3> QED BY <1>1, <3>1, KeptEffects DEF HistoryInv
    <2> QED BY <2>1, <2>2
<1> QED BY <1>2, <1>3 DEF HistoryInv

LEMMA HistoryStep ==
  ASSUME StreamInv, HistoryInv, AppliesOnRaise, [Next]_vars
  PROVE  HistoryInv'
<1>1. CASE UNCHANGED vars
    BY <1>1 DEF vars, HistoryInv, SnapshotIsReplay, EffectsOK, IsReplay, Base
<1> QED BY <1>1, LoadKeepsHistory, RaiseKeepsHistory, SaveKeepsHistory, CrashKeepsHistory
        DEF Next, WriterStep

\* Of a domain that applies the events it raises (RaiseEvent does not do it),
\* every aggregate at rest and every stored snapshot is the replay of the
\* stored prefix up to its version, each event applied once.
THEOREM LoadedStateIsReplay ==
  ASSUME AppliesOnRaise
  PROVE  Spec => []StateIsReplay
<1>1. Init => HistoryInv
    BY DEF Init, HistoryInv, SnapshotIsReplay, EffectsOK, Base
<1>2. StreamInv /\ HistoryInv => StateIsReplay
    BY EffectsAreReplay DEF HistoryInv, StateIsReplay, AggregateIsReplay
<1>3. StreamInv /\ HistoryInv /\ [Next]_vars => HistoryInv'
    BY HistoryStep
<1> QED BY <1>1, <1>2, <1>3, StreamInvHolds, PTL DEF Spec
=============================================================================
