--------------------------- MODULE MigratorProofs ---------------------------
(***************************************************************************)
(* Theorems about Migrator for any number of runners, migrations and       *)
(* connections, with failures, lost answers and crashes, and with releases *)
(* that differ only by the migrations at the end.                          *)
(***************************************************************************)
EXTENDS Migrator, WellFoundedInduction, TLAPS

\* A release has registered every migration before its last one.
Releases ==
  \A r \in Runners : \A v \in Registered[r] : \A u \in Versions :
    u < v => u \in Registered[r]

\* Until Down is called runners call Up, and what a runner has registered and
\* no longer has to run is recorded: it was when the runner read the table, or
\* it did it itself.
UpProgress ==
  ~reverted => \A r \in Runners :
    /\ op[r] = "up"
    /\ todo[r] \subseteq Registered[r]
    /\ pc[r] \in {"begin", "run", "record"} => Registered[r] \ todo[r] \subseteq recorded
    /\ pc[r] = "record" => Current(r) \in schema

UpInv == TypeOK /\ RecordedPrefix /\ RecordedPresent /\ UpProgress

\* A set of versions that is not empty has a least element.
LEMMA LeastVersion ==
  ASSUME NEW T, T \subseteq Versions, T # {}
  PROVE  \E v \in T : \A u \in T : v <= u
<1>1. T \subseteq Nat
    BY VersionsAssumption
<1>2. \E x \in T : \A y \in T : ~ (<<y, x>> \in OpToRel(<, Nat))
    BY <1>1, NatLessThanWellFounded, WFMin
<1>3. PICK x \in T : \A y \in T : ~ (<<y, x>> \in OpToRel(<, Nat))
    BY <1>2
<1>4. \A y \in T : ~(y < x)
    BY <1>1, <1>3 DEF OpToRel
<1> QED BY <1>1, <1>4

\* The current migration of a runner is the first of those it has left.
LEMMA CurrentIsFirst ==
  ASSUME TypeOK, NEW r \in Runners, todo[r] # {}
  PROVE  /\ Current(r) \in todo[r]
         /\ \A u \in todo[r] : Current(r) <= u
  BY LeastVersion DEF TypeOK, Current

\* All migrations before the current one are recorded.
LEMMA BeforeCurrent ==
  ASSUME UpInv, Releases, ~reverted, NEW r \in Runners, pc[r] = "record"
  PROVE  /\ Current(r) \in Versions
         /\ Current(r) \in todo[r]
         /\ Current(r) \in schema
         /\ \A u \in Versions : u < Current(r) => u \in recorded
<1>1. todo[r] # {} /\ todo[r] \subseteq Versions
    BY DEF UpInv, TypeOK
<1>2. Current(r) \in todo[r] /\ \A u \in todo[r] : Current(r) <= u
    BY <1>1, CurrentIsFirst DEF UpInv
<1>3. ASSUME NEW u \in Versions, u < Current(r) PROVE u \in recorded
    <2>1. Current(r) \in Registered[r]
        BY <1>2 DEF UpInv, UpProgress
    <2>2. u \in Registered[r]
        BY <2>1, <1>3 DEF Releases
    <2>3. u \notin todo[r]
        <3>1. Current(r) \in Nat /\ u \in Nat
            BY <1>1, <1>2, VersionsAssumption
        <3> QED BY <1>2, <1>3, <3>1
    <2> QED BY <2>2, <2>3 DEF UpInv, UpProgress
<1> QED BY <1>1, <1>2, <1>3 DEF UpInv, UpProgress

\* Every step of a runner leaves the database and the runners in their types.
LEMMA TypeStep ==
  ASSUME TypeOK, NEW r \in Runners, Up(r) \/ Down(r) \/ Step(r) \/ CommitLostAck(r) \/ Crash(r)
  PROVE  TypeOK'
<1>1. CASE Up(r)
    BY <1>1 DEF Up, TypeOK
<1>2. CASE Down(r)
    <2>1. \E v \in Registered[r] \cap recorded : todo' = [todo EXCEPT ![r] = {v}]
        BY <1>2 DEF Down
    <2> QED BY <1>2, <2>1, RegisteredAssumption DEF Down, db, TypeOK
<1>3. CASE ReadApplied(r)
    BY <1>3, RegisteredAssumption DEF ReadApplied, Return, db, history, TypeOK
<1>4. CASE BeginTx(r)
    BY <1>4 DEF BeginTx, db, history, TypeOK
<1>5. CASE RunOk(r)
    <2>1. Current(r) \in Versions
        BY <1>5, CurrentIsFirst DEF RunOk, TypeOK
    <2> QED BY <1>5, <2>1 DEF RunOk, history, TypeOK
<1>6. CASE RunFails(r) \/ RecordFails(r) \/ Crash(r)
    BY <1>6 DEF RunFails, RecordFails, Crash, Return, db, TypeOK
<1>7. CASE RecordOk(r) \/ CommitLostAck(r)
    <2>1. Current(r) \in Versions
        BY <1>7, CurrentIsFirst DEF RecordOk, CommitLostAck, TypeOK
    <2>2. recorded' \subseteq Versions /\ UNCHANGED <<table, schema, op, reverted>> /\ clean' \in BOOLEAN
        BY <1>7, <2>1 DEF RecordOk, CommitLostAck, RecordRow, Return, history, TypeOK
    <2>3. \/ pc' = [pc EXCEPT ![r] = "idle"] /\ todo' = [todo EXCEPT ![r] = {}]
          \/ /\ pc' = [pc EXCEPT ![r] = "begin"]
             /\ todo' = [todo EXCEPT ![r] = todo[r] \ {Current(r)}]
             /\ todo[r] \ {Current(r)} # {}
        BY <1>7 DEF RecordOk, CommitLostAck, Return, TypeOK
    <2> QED BY <2>2, <2>3 DEF TypeOK
<1> QED BY <1>1, <1>2, <1>3, <1>4, <1>5, <1>6, <1>7 DEF Step

LEMMA TypeHolds == Spec => []TypeOK
<1>1. Init => TypeOK
    BY DEF Init, TypeOK
<1>2. TypeOK /\ UNCHANGED vars => TypeOK'
    BY DEF vars, db, history, TypeOK
<1>3. TypeOK /\ [Next]_vars => TypeOK'
    BY <1>2, TypeStep DEF Next
<1> QED BY <1>1, <1>3, PTL DEF Spec

LEMMA InitUpInv == Init => UpInv
  BY DEF Init, UpInv, TypeOK, RecordedPrefix, RecordedPresent, UpProgress

\* Up or Down returns: the runner has nothing left and no transaction.
LEMMA ReturnKeepsUpInv ==
  ASSUME UpInv, NEW r \in Runners, Return(r), UNCHANGED <<db, reverted>>, clean' \in BOOLEAN
  PROVE  UpInv'
<1> USE DEF UpInv, Return, db
<1>1. TypeOK'
    BY DEF TypeOK
<1>2. RecordedPrefix' /\ RecordedPresent'
    BY DEF RecordedPrefix, RecordedPresent
<1>3. UpProgress'
    BY DEF UpProgress, TypeOK, Current
<1> QED BY <1>1, <1>2, <1>3

LEMMA StepKeepsUpInv ==
  ASSUME UpInv, Releases, NEW r \in Runners,
         Up(r) \/ Down(r) \/ Step(r) \/ CommitLostAck(r) \/ Crash(r)
  PROVE  UpInv'
<1> USE DEF UpInv
<1>0. TypeOK'
    BY TypeStep
<1>1. CASE Up(r)
    <2>1. RecordedPrefix' /\ RecordedPresent'
        BY <1>1 DEF Up, RecordedPrefix, RecordedPresent
    <2>2. UpProgress'
        BY <1>1 DEF Up, UpProgress, TypeOK, Current
    <2> QED BY <1>0, <2>1, <2>2
<1>2. CASE Down(r)
    BY <1>0, <1>2 DEF Down, RecordedPrefix, RecordedPresent, UpProgress
<1>3. CASE ReadApplied(r)
    <2>1. CASE Registered[r] \ recorded = {}
        <3>1. clean' \in BOOLEAN
            BY <1>3, <2>1 DEF ReadApplied, history, TypeOK
        <3> QED BY <1>3, <2>1, <3>1, ReturnKeepsUpInv DEF ReadApplied, history
    <2>2. CASE Registered[r] \ recorded # {}
        <3>1. /\ todo' = [todo EXCEPT ![r] = Registered[r] \ recorded]
              /\ pc' = [pc EXCEPT ![r] = "begin"]
              /\ UNCHANGED <<table, recorded, schema, op, reverted, clean>>
            BY <1>3, <2>2 DEF ReadApplied, db, history
        <3>2. RecordedPrefix' /\ RecordedPresent'
            BY <3>1 DEF RecordedPrefix, RecordedPresent
        <3>3. UpProgress'
            BY <3>1 DEF UpProgress, TypeOK, Current
        <3> QED BY <1>0, <3>2, <3>3
    <2> QED BY <2>1, <2>2
<1>4. CASE BeginTx(r)
    <2>1. RecordedPrefix' /\ RecordedPresent'
        BY <1>4 DEF BeginTx, db, history, RecordedPrefix, RecordedPresent
    <2>2. UpProgress'
        BY <1>4 DEF BeginTx, db, history, UpProgress, TypeOK, Current
    <2> QED BY <1>0, <2>1, <2>2
<1>5. CASE RunOk(r)
    <2>3. /\ pc' = [pc EXCEPT ![r] = "record"]
          /\ UNCHANGED <<table, recorded, op, todo, reverted, clean>>
          /\ pc[r] = "run"
          /\ schema' \in {schema \cup {Current(r)}, schema \ {Current(r)}}
        BY <1>5 DEF RunOk, history
    <2>5. CASE reverted
        BY <2>3, <1>0, <2>5 DEF RecordedPrefix, RecordedPresent, UpProgress
    <2>6. CASE ~reverted
        <3>1. schema' = schema \cup {Current(r)}
            BY <1>5, <2>6 DEF RunOk, UpProgress
        <3>2. RecordedPrefix' /\ RecordedPresent'
            BY <2>3, <2>6, <3>1 DEF RecordedPrefix, RecordedPresent
        <3>3. UpProgress'
            BY <2>3, <2>6, <3>1 DEF UpProgress, TypeOK, Current
        <3> QED BY <1>0, <3>2, <3>3
    <2> QED BY <2>5, <2>6
<1>6. CASE RunFails(r) \/ RecordFails(r) \/ Crash(r)
    <2>1. Return(r) /\ UNCHANGED <<db, reverted>>
        BY <1>6 DEF RunFails, RecordFails, Crash
    <2>2. clean' \in BOOLEAN
        BY <1>6 DEF RunFails, RecordFails, Crash, TypeOK
    <2> QED BY <2>1, <2>2, ReturnKeepsUpInv
<1>7. CASE RecordOk(r) \/ CommitLostAck(r)
    <2>1. /\ pc[r] = "record"
          /\ UNCHANGED <<table, schema, op, reverted>>
          /\ clean' \in BOOLEAN
          /\ recorded' \in {recorded \cup {Current(r)}, recorded \ {Current(r)}}
        BY <1>7 DEF RecordOk, CommitLostAck, RecordRow, Return, history, TypeOK
    <2>2. Current(r) \in Versions /\ Current(r) \in todo[r]
        BY <2>1, CurrentIsFirst DEF TypeOK
    <2>3. \/ /\ pc' = [pc EXCEPT ![r] = "idle"] /\ todo' = [todo EXCEPT ![r] = {}]
          \/ /\ pc' = [pc EXCEPT ![r] = "begin"]
             /\ todo' = [todo EXCEPT ![r] = todo[r] \ {Current(r)}]
             /\ todo[r] \ {Current(r)} # {}
        BY <1>7 DEF RecordOk, CommitLostAck, Return, TypeOK
    <2>5. CASE reverted
        BY <2>1, <1>0, <2>5 DEF RecordedPrefix, RecordedPresent, UpProgress
    <2>6. CASE ~reverted
        <3>1. op[r] = "up" /\ recorded' = recorded \cup {Current(r)}
            BY <1>7, <2>6 DEF RecordOk, CommitLostAck, RecordRow, UpProgress
        <3>2. RecordedPrefix' /\ RecordedPresent'
            BY <2>1, <2>6, <3>1, BeforeCurrent DEF RecordedPrefix, RecordedPresent
        <3>3. ASSUME NEW x \in Runners
              PROVE  /\ op'[x] = "up"
                     /\ todo'[x] \subseteq Registered[x]
                     /\ pc'[x] \in {"begin", "run", "record"} =>
                          Registered[x] \ todo'[x] \subseteq recorded'
                     /\ pc'[x] = "record" => Current(x)' \in schema'
            <4>1. CASE x # r
                BY <4>1, <2>1, <2>3, <2>6, <3>1 DEF UpProgress, TypeOK, Current
            <4>2. CASE x = r
                BY <4>2, <2>1, <2>3, <2>6, <3>1 DEF UpProgress, TypeOK
            <4> QED BY <4>1, <4>2
        <3> QED BY <1>0, <3>2, <3>3 DEF UpProgress
    <2> QED BY <2>5, <2>6
<1> QED BY <1>1, <1>2, <1>3, <1>4, <1>5, <1>6, <1>7 DEF Step

LEMMA UpInvHolds ==
  ASSUME Releases
  PROVE  Spec => []UpInv
<1>1. UpInv /\ UNCHANGED vars => UpInv'
    BY DEF vars, db, history, UpInv, TypeOK, RecordedPrefix, RecordedPresent, UpProgress, Current
<1>2. UpInv /\ [Next]_vars => UpInv'
    BY <1>1, StepKeepsUpInv DEF Next
<1> QED BY InitUpInv, <1>2, PTL DEF Spec

-----------------------------------------------------------------------------
\* However many runners call Up at once, fail and crash, a migration is
\* recorded only when all before it are.
THEOREM AppliedInOrder ==
  ASSUME Releases
  PROVE  Spec => []RecordedPrefix
<1>1. UpInv => RecordedPrefix
    BY DEF UpInv
<1> QED BY <1>1, UpInvHolds, PTL

\* And it is recorded only when its Up function has run.
THEOREM AppliedWhenRecorded ==
  ASSUME Releases
  PROVE  Spec => []RecordedPresent
<1>1. UpInv => RecordedPresent
    BY DEF UpInv
<1> QED BY <1>1, UpInvHolds, PTL

\* Both together, for runMigration as it is: its Up runs before the row that
\* records it, and Up goes through the pending migrations in version order.
THEOREM RecordsCanBeTrusted ==
  ASSUME Releases
  PROVE  Spec => []RecordedInOrder
<1>1. RecordedPrefix /\ RecordedPresent => RecordedInOrder
    BY DEF RecordedInOrder
<1> QED BY <1>1, AppliedInOrder, AppliedWhenRecorded, PTL

-----------------------------------------------------------------------------
\* With no fault and one runner at a time, through Up and Down: the table and
\* the schema differ only while the runner stands between the migration and
\* its row, and what it has left to run is still to be recorded, or removed.
Alone(r) == \A x \in Runners : x # r => pc[x] = "idle"

AtWork(r) ==
  /\ Alone(r)
  /\ pc[r] = "read" => op[r] = "up"
  /\ op[r] = "up" => todo[r] \cap recorded = {}
  /\ op[r] = "down" => todo[r] \subseteq recorded
  /\ pc[r] \in {"read", "begin", "run"} => recorded = schema
  /\ pc[r] = "record" =>
       schema = IF op[r] = "up" THEN recorded \cup {Current(r)} ELSE recorded \ {Current(r)}

CleanInv ==
  /\ \A r \in Runners : pc[r] \in {"idle", "read"} => todo[r] = {}
  /\ clean => /\ NobodyAtWork => recorded = schema
              /\ \A r \in Runners : pc[r] # "idle" => AtWork(r)

\* A runner has nothing to run before it has read the table, nor after it is done.
LEMMA EmptyHanded ==
  ASSUME TypeOK, CleanInv, NEW r \in Runners,
         Up(r) \/ Down(r) \/ Step(r) \/ CommitLostAck(r) \/ Crash(r)
  PROVE  \A x \in Runners : pc'[x] \in {"idle", "read"} => todo'[x] = {}
<1> USE DEF TypeOK, CleanInv
<1>1. CASE Up(r) \/ Down(r) \/ BeginTx(r) \/ RunOk(r)
    BY <1>1 DEF Up, Down, BeginTx, RunOk
<1>2. CASE ReadApplied(r)
    BY <1>2 DEF ReadApplied, Return
<1>3. CASE RunFails(r) \/ RecordFails(r) \/ CommitLostAck(r) \/ Crash(r)
    BY <1>3 DEF RunFails, RecordFails, CommitLostAck, Crash, Return
<1>4. CASE RecordOk(r)
    BY <1>4 DEF RecordOk
<1> QED BY <1>1, <1>2, <1>3, <1>4 DEF Step

LEMMA CleanStep ==
  ASSUME TypeOK, CleanInv, NEW r \in Runners,
         Up(r) \/ Down(r) \/ Step(r) \/ CommitLostAck(r) \/ Crash(r)
  PROVE  CleanInv'
<1> SUFFICES ASSUME clean'
             PROVE  /\ NobodyAtWork' => recorded' = schema'
                    /\ \A x \in Runners : pc'[x] # "idle" => AtWork(x)'
    BY EmptyHanded DEF CleanInv
<1> USE DEF TypeOK, NobodyAtWork
<1>1. clean
    BY DEF Up, Down, Step, ReadApplied, BeginTx, RunOk, RunFails, RecordOk, RecordFails,
           CommitLostAck, Crash, Return, history
<1>2. /\ NobodyAtWork => recorded = schema
      /\ \A x \in Runners : pc[x] # "idle" => AtWork(x)
      /\ pc[r] \in {"idle", "read"} => todo[r] = {}
    BY <1>1 DEF CleanInv
\* Whatever the step, it is a step of the one runner at work.
<1>3. Alone(r)
    BY <1>1, <1>2 DEF Up, Down, Step, ReadApplied, BeginTx, RunOk, RunFails, RecordOk, RecordFails,
                      CommitLostAck, Crash, AtWork, Alone
<1>4. \A x \in Runners : x # r => pc'[x] = "idle"
    BY <1>3 DEF Up, Down, Step, ReadApplied, BeginTx, RunOk, RunFails, RecordOk, RecordFails,
                CommitLostAck, Crash, Return, Alone
\* So it is enough to look at that runner.
<1> SUFFICES /\ pc'[r] = "idle" => recorded' = schema'
             /\ pc'[r] # "idle" => AtWork(r)'
    BY <1>4
<1>5. Alone(r)'
    BY <1>4 DEF Alone
<1>6. CASE Up(r)
    <2>1. /\ recorded' = schema' /\ todo' = todo /\ todo[r] = {}
          /\ pc'[r] = "read" /\ op'[r] = "up"
        BY <1>2, <1>3, <1>6 DEF Up, Alone
    <2> QED BY <1>5, <2>1 DEF AtWork
<1>7. CASE Down(r)
    <2>1. recorded' = schema' /\ recorded' = recorded /\ pc'[r] = "begin" /\ op'[r] = "down"
        BY <1>2, <1>3, <1>7 DEF Down, Alone, db
    <2>2. todo'[r] \subseteq recorded
        BY <1>7 DEF Down
    <2> QED BY <1>5, <2>1, <2>2 DEF AtWork
<1>8. CASE ReadApplied(r)
    <2>1. recorded = schema /\ op[r] = "up" /\ UNCHANGED <<recorded, schema, op>>
        BY <1>2, <1>8 DEF ReadApplied, Return, db, AtWork
    <2>2. \/ pc'[r] = "idle"
          \/ pc'[r] = "begin" /\ todo'[r] = Registered[r] \ recorded
        BY <1>8 DEF ReadApplied, Return
    <2> QED BY <1>5, <2>1, <2>2 DEF AtWork
<1>9. CASE BeginTx(r)
    <2>1. AtWork(r) /\ pc[r] = "begin" /\ pc'[r] = "run" /\ UNCHANGED <<recorded, schema, op, todo>>
        BY <1>2, <1>9 DEF BeginTx, db
    <2> QED BY <1>5, <2>1 DEF AtWork
<1>10. CASE RunOk(r)
    <2>1. /\ AtWork(r) /\ pc[r] = "run" /\ pc'[r] = "record" /\ UNCHANGED <<recorded, op, todo>>
          /\ schema' = IF op[r] = "up" THEN schema \cup {Current(r)} ELSE schema \ {Current(r)}
        BY <1>2, <1>10 DEF RunOk
    <2>2. Current(r)' = Current(r)
        BY <2>1 DEF Current
    <2> QED BY <1>5, <2>1, <2>2 DEF AtWork
<1>11. CASE RunFails(r)
    BY <1>2, <1>11 DEF RunFails, Return, db, AtWork
<1>12. CASE RecordOk(r)
    <2>1. /\ AtWork(r) /\ pc[r] = "record" /\ UNCHANGED <<schema, op>>
          /\ todo'[r] = todo[r] \ {Current(r)} /\ pc'[r] \in {"idle", "begin"}
          /\ recorded' = IF op[r] = "up" THEN recorded \cup {Current(r)} ELSE recorded \ {Current(r)}
        BY <1>2, <1>12 DEF RecordOk, RecordRow
    <2>2. recorded' = schema'
        BY <2>1 DEF AtWork
    <2>3. /\ op'[r] = "up" => todo'[r] \cap recorded' = {}
          /\ op'[r] = "down" => todo'[r] \subseteq recorded'
        BY <2>1 DEF AtWork
    <2> QED BY <1>5, <2>1, <2>2, <2>3 DEF AtWork
<1> QED BY <1>6, <1>7, <1>8, <1>9, <1>10, <1>11, <1>12
        DEF Step, RecordFails, CommitLostAck, Crash

\* With one runner at a time and no fault, the control table lists what the
\* schema holds whenever nobody is at work: any sequence of Up and Down, whatever
\* releases the runners are on, and with migrations whose Down is nil.
THEOREM TableIsSchema == Spec => []TableTellsSchema
<1>1. Init => CleanInv
    BY DEF Init, CleanInv, NobodyAtWork
<1>2. CleanInv => TableTellsSchema
    BY DEF CleanInv, TableTellsSchema
<1>3. CleanInv /\ UNCHANGED vars => CleanInv'
    BY DEF vars, db, history, CleanInv, NobodyAtWork, AtWork, Alone, Current
<1>4. TypeOK /\ CleanInv /\ [Next]_vars => CleanInv'
    BY <1>3, CleanStep DEF Next
<1> QED BY <1>1, <1>2, <1>4, TypeHolds, PTL DEF Spec
=============================================================================
