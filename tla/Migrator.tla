------------------------------ MODULE Migrator ------------------------------
(***************************************************************************)
(* The migrator of package migrate (migrate/migrate.go): runners call Up   *)
(* and Down against one database.  The Up and Down functions of a          *)
(* migration run on m.db, outside the transaction that writes the control  *)
(* table, and take a second connection of the pool for it; nothing locks   *)
(* the control table between reading it and writing it.  A migration is    *)
(* taken to be DDL: its Up fails when its effect is there already, its     *)
(* Down when it is not.                                                    *)
(***************************************************************************)
EXTENDS Integers, FiniteSets

CONSTANTS
  Runners,     \* callers of Up and Down
  Versions,    \* versions of the migrations that exist
  Registered,  \* those each runner has registered: releases differ
  NoDown,      \* those whose Down is nil
  MaxConns     \* connections of the pool the runners share

\* Down looks for a version above 0, so others could never be reverted.
ASSUME VersionsAssumption == Versions \subseteq Nat \ {0} /\ IsFiniteSet(Versions)
ASSUME RegisteredAssumption == Registered \in [Runners -> SUBSET Versions]
ASSUME NoDownAssumption == NoDown \subseteq Versions
ASSUME ConnsAssumption == MaxConns \in Nat

VARIABLES
  table,     \* does the control table exist?
  recorded,  \* versions in the control table
  schema,    \* versions whose effect is in the database
  pc,        \* where each runner is
  op,        \* what it was called for
  todo,      \* versions it still has to run
  reverted,  \* history: has Down been called?
  clean      \* history: no fault so far, and never two runners at work at once?

db == <<table, recorded, schema>>
history == <<reverted, clean>>
vars == <<db, pc, op, todo, history>>

\* Connections held by open transactions.
InUse == Cardinality({r \in Runners : pc[r] \in {"run", "record"}})

\* Up runs the pending migrations in version order; Down has one to run.
Current(r) == CHOOSE v \in todo[r] : \A u \in todo[r] : v <= u

-----------------------------------------------------------------------------
Init ==
  /\ table = FALSE /\ recorded = {} /\ schema = {}
  /\ pc = [r \in Runners |-> "idle"]
  /\ op = [r \in Runners |-> "up"]
  /\ todo = [r \in Runners |-> {}]
  /\ reverted = FALSE /\ clean = TRUE

\* Up or Down returns.
Return(r) ==
  /\ pc' = [pc EXCEPT ![r] = "idle"]
  /\ todo' = [todo EXCEPT ![r] = {}]
  /\ UNCHANGED op

NobodyAtWork == \A r \in Runners : pc[r] = "idle"

\* Up: CREATE TABLE IF NOT EXISTS.
Up(r) ==
  /\ pc[r] = "idle"
  /\ table' = TRUE
  /\ pc' = [pc EXCEPT ![r] = "read"]
  /\ op' = [op EXCEPT ![r] = "up"]
  /\ clean' = (clean /\ NobodyAtWork)
  /\ UNCHANGED <<recorded, schema, todo, reverted>>

\* Up reads the control table once; the rest of the loop works on that.
ReadApplied(r) ==
  /\ pc[r] = "read"
  /\ LET pending == Registered[r] \ recorded
     IN  IF pending = {} THEN Return(r) /\ UNCHANGED <<db, history>>
         ELSE /\ todo' = [todo EXCEPT ![r] = pending]
              /\ pc' = [pc EXCEPT ![r] = "begin"]
              /\ UNCHANGED <<db, op, history>>

\* Down reads the control table and chooses the last applied migration that is
\* registered.  Without the table, or without such a row, it just returns.
Down(r) ==
  /\ pc[r] = "idle" /\ table
  /\ LET applied == Registered[r] \cap recorded
     IN  \E v \in applied :
           /\ \A u \in applied : v >= u
           /\ todo' = [todo EXCEPT ![r] = {v}]
  /\ pc' = [pc EXCEPT ![r] = "begin"]
  /\ op' = [op EXCEPT ![r] = "down"]
  /\ reverted' = TRUE
  /\ clean' = (clean /\ NobodyAtWork)
  /\ UNCHANGED db

\* runMigration: BeginTx takes a connection of the pool, or waits for one.
BeginTx(r) ==
  /\ pc[r] = "begin"
  /\ InUse < MaxConns
  /\ pc' = [pc EXCEPT ![r] = "run"]
  /\ UNCHANGED <<db, op, todo, history>>

\* migration.Up or migration.Down runs on another connection and commits.
RunOk(r) ==
  /\ pc[r] = "run"
  /\ InUse < MaxConns
  /\ LET v == Current(r)
     IN  \/ /\ op[r] = "up" /\ v \notin schema
            /\ schema' = schema \cup {v}
         \/ /\ op[r] = "down" /\ v \notin NoDown /\ v \in schema
            /\ schema' = schema \ {v}
  /\ pc' = [pc EXCEPT ![r] = "record"]
  /\ UNCHANGED <<table, recorded, op, todo, history>>

NilDown(r) == op[r] = "down" /\ Current(r) \in NoDown

\* Mutated form of RunFails: the migration is retried.
RunFailsRetries(r) ==
  /\ pc[r] = "run"
  /\ NilDown(r) \/ InUse < MaxConns
  /\ pc' = [pc EXCEPT ![r] = "begin"]
  /\ clean' = (clean /\ NilDown(r))
  /\ UNCHANGED <<db, op, todo, reverted>>

\* It fails: the effect is there already (or gone already), or a statement is
\* refused.  A nil Down fails before it needs a connection.
RunFails(r) ==
  /\ pc[r] = "run"
  /\ NilDown(r) \/ InUse < MaxConns
  /\ clean' = (clean /\ NilDown(r))
  /\ UNCHANGED <<db, reverted>>
  /\ Return(r)

\* Mutated form of RecordRow: the transaction is left to the deferred Rollback.
RecordRowRolledBack(r) == UNCHANGED recorded

\* The row of the current migration is written or removed.
RecordRow(r) ==
  recorded' = IF op[r] = "up" THEN recorded \cup {Current(r)} ELSE recorded \ {Current(r)}

\* The control table is updated and the transaction commits; Up goes on with
\* the next pending migration.
RecordOk(r) ==
  /\ pc[r] = "record"
  /\ op[r] = "up" => Current(r) \notin recorded
  /\ RecordRow(r)
  /\ todo' = [todo EXCEPT ![r] = @ \ {Current(r)}]
  /\ pc' = [pc EXCEPT ![r] = IF todo'[r] = {} THEN "idle" ELSE "begin"]
  /\ UNCHANGED <<table, schema, op, history>>

\* Mutated form of RecordFails: Up goes on after a failed migration.
RecordFailsGoesOn(r) ==
  /\ pc[r] = "record"
  /\ todo' = [todo EXCEPT ![r] = @ \ {Current(r)}]
  /\ pc' = [pc EXCEPT ![r] = IF todo'[r] = {} THEN "idle" ELSE "begin"]
  /\ clean' = FALSE
  /\ UNCHANGED <<db, op, reverted>>

\* The row is refused, by its primary key or another error, or the commit
\* fails: the deferred Rollback undoes the row and nothing else.
RecordFails(r) ==
  /\ pc[r] = "record"
  /\ clean' = FALSE
  /\ UNCHANGED <<db, reverted>>
  /\ Return(r)

\* The commit is done but its answer is lost.
CommitLostAck(r) ==
  /\ pc[r] = "record"
  /\ op[r] = "up" => Current(r) \notin recorded
  /\ RecordRow(r)
  /\ clean' = FALSE
  /\ UNCHANGED <<table, schema, reverted>>
  /\ Return(r)

\* The runner dies, or another statement of it fails: Up or Down ends here and
\* the open transaction is rolled back.
Crash(r) ==
  /\ pc[r] # "idle"
  /\ clean' = FALSE
  /\ UNCHANGED <<db, reverted>>
  /\ Return(r)

Step(r) ==
  \/ ReadApplied(r) \/ BeginTx(r) \/ RunOk(r) \/ RunFails(r)
  \/ RecordOk(r) \/ RecordFails(r)

Next == \E r \in Runners : Up(r) \/ Down(r) \/ Step(r) \/ CommitLostAck(r) \/ Crash(r)

Spec == Init /\ [][Next]_vars

\* A runner inside Up or Down goes on; callers need not call again, and nothing
\* makes a runner crash.
OpFairness == \A r \in Runners : WF_vars(Step(r))

-----------------------------------------------------------------------------
\* Types of the database and of the runners.
TypeOK ==
  /\ table \in BOOLEAN
  /\ recorded \subseteq Versions /\ schema \subseteq Versions
  /\ pc \in [Runners -> {"idle", "read", "begin", "run", "record"}]
  /\ op \in [Runners -> {"up", "down"}]
  /\ todo \in [Runners -> SUBSET Versions]
  /\ reverted \in BOOLEAN /\ clean \in BOOLEAN
  /\ \A r \in Runners : pc[r] \in {"begin", "run", "record"} => todo[r] # {}

\* Migrations are applied in version order (line 83): until Down is called,
\* one is recorded only when all before it are, whatever runners race, fail and
\* crash in Up.
RecordedPrefix ==
  ~reverted => \A v \in recorded : \A u \in Versions : u < v => u \in recorded

\* Until Down is called, a migration recorded as applied has been applied: the
\* row is written after its Up function has run (lines 193 and 213).
RecordedPresent == ~reverted => recorded \subseteq schema

\* What is recorded can be trusted: it is there, and nothing before it is missing,
\* whatever runners race, fail half-way, lose an answer or die in Up.
RecordedInOrder == RecordedPrefix /\ RecordedPresent

\* With one runner at a time and no fault, the table lists what the schema
\* holds whenever no runner is at work, through any sequence of Up and Down.
TableTellsSchema == clean /\ NobodyAtWork => recorded = schema

\* Up and Down return, with a connection more than there are runners.
OpReturns == \A r \in Runners : pc[r] # "idle" ~> pc[r] = "idle"
=============================================================================
