------------------------------ MODULE Records -------------------------------
(***************************************************************************)
(* Create, Update, Delete, ForceDelete, WithTx (core/db.go) and the batch  *)
(* operations (core/batch.go) on one table, called by several clients.  A  *)
(* model is its id, a value that stands for its other columns, and         *)
(* whether DeletedAt is set.  Every write of new data has a value of its   *)
(* own.  Hooks are the application's: each may fail.  A statement is one   *)
(* step.  The database is external: an open transaction writes in place,   *)
(* keeps what it replaced and locks it until it ends.                      *)
(***************************************************************************)
EXTENDS Integers, Sequences, FiniteSets

CONSTANTS
  Clients,
  BatchSize,   \* config.BatchSize
  Seeded,      \* rows 1 to Seeded are there at the start, with value 0
  MaxId, MaxModels, MaxCalls  \* bounds on ids, on the models of a call, on calls

\* BatchInsertWithConfig replaces a size that is not positive.
ASSUME BatchSizeAssumption == BatchSize \in Nat \ {0}
ASSUME SeededAssumption == Seeded \in 0 .. MaxId
ASSUME BoundsAssumption == MaxId \in Nat /\ MaxModels \in Nat /\ MaxCalls \in Nat

VARIABLES
  dialect,  \* "postgres", "mysql" or "sqlite"
  soft,     \* does the type of the models implement SoftDeletable?
  rows,     \* the table: id -> row, or NoRow
  auto,     \* where AUTO_INCREMENT stands (MySQL): the largest id stored so far
  held,     \* per client: the models it passes to the calls
  pc, op,   \* per client: place in a call, and which
  at,       \* per client: models of a batch dealt with so far
  tx,       \* per client: "none", "user" (in WithTx), "own" (of BatchUpdate)
  undo,     \* per client: what its transaction replaced
  aborted,  \* per client: has a statement of its transaction failed?
  calls, val,  \* numbers of calls and of values so far
  mine, undone, stored, asked  \* history: the values of each client's open
            \* transaction; values of transactions that failed; values inserted
            \* by the calls under way; ids whose deletion was asked for

table == <<dialect, soft, rows, auto>>
call == <<held, pc, op, at>>
txVars == <<tx, undo, aborted>>
history == <<mine, undone, stored, asked>>
vars == <<table, call, txVars, calls, val, history>>

Ids == 0 .. MaxId
NoRow == [val |-> -1, del |-> FALSE]

Inserts == {"create", "batchInsert"}
Updates == {"update", "batchUpdate"}
Deletes == {"delete", "forceDelete", "batchDelete", "batchDeleteByIDs"}

\* Rows of other clients' open transactions: a statement waits for them.
Locked(c) == UNION {DOMAIN undo[d] : d \in Clients \ {c}}

\* The row as a client sees it: others' open transactions are not seen.
Committed(c, i) ==
  IF i \in Locked(c)
  THEN undo[CHOOSE d \in Clients \ {c} : i \in DOMAIN undo[d]][i] ELSE rows[i]
Existing(c) == {i \in Ids : Committed(c, i) # NoRow}

\* The models the next statement of a call is about.
Window(c) ==
  LET size == CASE op[c] = "batchInsert" -> BatchSize
                [] op[c] = "batchUpdate" -> 1
                [] OTHER -> Len(held[c])
  IN  {k \in DOMAIN held[c] : k > at[c] /\ k <= at[c] + size}

Target(c) == {held[c][k].id : k \in Window(c)}

-----------------------------------------------------------------------------
Init ==
  /\ dialect \in {"postgres", "mysql", "sqlite"} /\ soft \in BOOLEAN
  /\ rows = [i \in Ids |-> IF i \in 1 .. Seeded THEN [val |-> 0, del |-> FALSE] ELSE NoRow]
  /\ auto = Seeded
  /\ held = [c \in Clients |-> << >>]
  /\ pc = [c \in Clients |-> "idle"]
  /\ op = [c \in Clients |-> "none"]
  /\ at = [c \in Clients |-> 0]
  /\ tx = [c \in Clients |-> "none"]
  /\ undo = [c \in Clients |-> << >>]
  /\ aborted = [c \in Clients |-> FALSE]
  /\ calls = 0 /\ val = 0
  /\ mine = [c \in Clients |-> {}]
  /\ undone = {} /\ stored = {} /\ asked = {}

\* A client reads rows with Find, which leaves soft-deleted ones out.
Fetch(c) ==
  /\ pc[c] = "idle" /\ calls < MaxCalls
  /\ \E n \in 1 .. MaxModels :
       \E ids \in [1 .. n -> {i \in Ids : Committed(c, i) # NoRow /\ ~Committed(c, i).del}] :
         /\ \A k \in 2 .. n : ids[k - 1] < ids[k]
         /\ held' = [held EXCEPT ![c] =
              [k \in 1 .. n |->
                 [id |-> ids[k], val |-> Committed(c, ids[k]).val, del |-> FALSE]]]
  /\ UNCHANGED <<table, pc, op, at, txVars, calls, val, history>>

\* A call begins.  BatchUpdate opens a transaction if it is not inside one.
Begin(c, o) ==
  /\ pc[c] = "idle" /\ calls < MaxCalls
  /\ calls' = calls + 1
  /\ pc' = [pc EXCEPT ![c] = "before"]
  /\ op' = [op EXCEPT ![c] = o]
  /\ at' = [at EXCEPT ![c] = 0]
  /\ tx' = [tx EXCEPT ![c] = IF o = "batchUpdate" /\ @ = "none" THEN "own" ELSE @]
  /\ UNCHANGED <<table, undo, aborted, stored>>

\* The values of new data: a fresh one for each model of the call.
Fresh(c, n) ==
  /\ val' = val + n
  /\ mine' = [mine EXCEPT ![c] = @ \cup (val + 1 .. val + n)]

\* Create, or BatchInsert, of new models; the application may leave their
\* ids zero or choose them, here in ascending order.
CallInsert(c, o) ==
  /\ \E n \in 1 .. (IF o = "create" THEN 1 ELSE MaxModels) :
       \E ids \in [1 .. n -> Ids] :
         /\ \A k \in 2 .. n : ids[k - 1] < ids[k] \/ ids[k - 1] + ids[k] = 0
         /\ Fresh(c, n)
         /\ held' = [held EXCEPT ![c] =
              [k \in 1 .. n |-> [id |-> ids[k], val |-> val + k, del |-> FALSE]]]
  /\ Begin(c, o)
  /\ UNCHANGED <<undone, asked>>

\* Update, or BatchUpdate, of models the client holds and has changed.
CallUpdate(c, o) ==
  /\ held[c] # << >> /\ (o = "update" => Len(held[c]) = 1)
  /\ Fresh(c, Len(held[c]))
  /\ held' = [held EXCEPT ![c] =
       [k \in DOMAIN @ |-> [@[k] EXCEPT !.val = val + k]]]
  /\ Begin(c, o)
  /\ UNCHANGED <<undone, asked>>

\* Delete, ForceDelete, BatchDelete or BatchDeleteByIDs of what it holds.  A
\* soft Delete sends what a failed transaction left in the model once more.
CallDelete(c, o) ==
  /\ held[c] # << >> /\ (o \in {"delete", "forceDelete"} => Len(held[c]) = 1)
  /\ asked' = asked \cup {held[c][k].id : k \in DOMAIN held[c]}
  /\ LET again == undone \cap {held[c][k].val : k \in DOMAIN held[c]}
     IN  mine' = [mine EXCEPT ![c] = @ \cup again] /\ undone' = undone \ again
  /\ Begin(c, o)
  /\ UNCHANGED <<held, val>>

-----------------------------------------------------------------------------
\* A statement replaces some rows; a transaction remembers what was there.
Write(c, new) ==
  /\ ~aborted[c]
  /\ DOMAIN new \cap Locked(c) = {}
  /\ rows' = [i \in Ids |-> IF i \in DOMAIN new THEN new[i] ELSE rows[i]]
  /\ undo' = IF tx[c] = "none" THEN undo ELSE
       [undo EXCEPT ![c] = [i \in DOMAIN @ \cup DOMAIN new |->
                              IF i \in DOMAIN @ THEN @[i] ELSE rows[i]]]
  /\ pc' = [pc EXCEPT ![c] = "after"]
  /\ UNCHANGED <<dialect, soft, op, at, tx, aborted, calls, val, mine, undone, asked>>

\* The key of a new row: the columns sent include the id, zero or not, and only
\* MySQL takes a zero for a request to number the row.
Key(c, k) ==
  IF dialect = "mysql" /\ held[c][k].id = 0
  THEN auto + Cardinality({l \in Window(c) : l <= k /\ held[c][l].id = 0})
  ELSE held[c][k].id

\* LastInsertId: MySQL's is the first number it gave or, if it gave none, the
\* last key; SQLite's is the last key.
LastInsertId(c) ==
  LET zeros == {k \in Window(c) : held[c][k].id = 0}
      last == CHOOSE k \in Window(c) : \A l \in Window(c) : l <= k
  IN  IF dialect = "mysql" /\ zeros # {} THEN auto + 1 ELSE Key(c, last)

\* Mutated form of SetIDs: the first id is one above LastInsertId.
SetIDsShifted(c) ==
  [k \in DOMAIN held[c] |->
    IF k \notin Window(c) THEN held[c][k]
    ELSE IF dialect = "postgres" \/ op[c] = "create"
      THEN [held[c][k] EXCEPT !.id = Key(c, k)]
    ELSE IF LastInsertId(c) > 0
      THEN [held[c][k] EXCEPT !.id = LastInsertId(c) + k - at[c]]
    ELSE held[c][k]]

\* The ids given to the models: those RETURNING answers with, in order, or
\* numbers counted up from LastInsertId.
SetIDs(c) ==
  [k \in DOMAIN held[c] |->
    IF k \notin Window(c) THEN held[c][k]
    ELSE IF dialect = "postgres" \/ op[c] = "create"
      THEN [held[c][k] EXCEPT !.id = Key(c, k)]
    ELSE IF LastInsertId(c) > 0
      THEN [held[c][k] EXCEPT !.id = LastInsertId(c) + k - at[c] - 1]
    ELSE held[c][k]]

\* The INSERT succeeds: its keys are new and distinct.
InsertRows(c) ==
  /\ LET keys == {Key(c, k) : k \in Window(c)}
     IN  /\ keys \subseteq {i \in Ids : rows[i] = NoRow}
         /\ Cardinality(keys) = Cardinality(Window(c))
         /\ Write(c, [i \in keys |->
              LET k == CHOOSE l \in Window(c) : Key(c, l) = i
              IN  [val |-> held[c][k].val, del |-> held[c][k].del]])
         /\ auto' = IF dialect # "mysql" THEN auto ELSE
              CHOOSE n \in keys \cup {auto} : \A m \in keys \cup {auto} : m <= n
  /\ stored' = stored \cup {held[c][k].val : k \in Window(c)}
  /\ held' = [held EXCEPT ![c] = SetIDs(c)]

\* Create: the hooks before it pass and the row is inserted.  It asks for
\* RETURNING, which MySQL refuses.
CreateRow(c) ==
  /\ pc[c] = "before" /\ op[c] = "create"
  /\ dialect # "mysql"
  /\ InsertRows(c)

\* insertBatch: the same for one batch, with one statement.
InsertBatch(c) ==
  /\ pc[c] = "before" /\ op[c] = "batchInsert"
  /\ InsertRows(c)

\* UPDATE ... WHERE id sends every column of the model.
SendColumns(c) ==
  /\ 0 \notin Target(c)
  /\ Write(c, [i \in Target(c) \cap Existing(c) |->
       LET k == CHOOSE l \in Window(c) : held[c][l].id = i
       IN  [val |-> held[c][k].val, del |-> held[c][k].del]])
  /\ UNCHANGED <<auto, held, stored>>

\* Update, called by the application or by a soft Delete, fails when no row
\* was affected.
UpdateRow(c) ==
  /\ \/ pc[c] = "before" /\ op[c] = "update"
     \/ pc[c] = "marked" /\ op[c] = "delete"
  /\ Target(c) \subseteq Existing(c)
  /\ SendColumns(c)

\* BatchUpdate does not look at the rows affected.
BatchUpdateRow(c) ==
  /\ pc[c] = "before" /\ op[c] = "batchUpdate"
  /\ SendColumns(c)

\* Soft deletion sets DeletedAt on the models before the statement runs; Delete
\* does it before it looks at the id, BatchDelete after.
Mark(c) ==
  /\ pc[c] = "before" /\ op[c] \in {"delete", "batchDelete"} /\ soft
  /\ op[c] = "batchDelete" => 0 \notin Target(c)
  /\ held' = [held EXCEPT ![c] = [k \in DOMAIN @ |-> [@[k] EXCEPT !.del = TRUE]]]
  /\ pc' = [pc EXCEPT ![c] = "marked"]
  /\ UNCHANGED <<table, op, at, txVars, calls, val, history>>

\* Mutated form of SoftDeleteRows: a placeholder too few in the WHERE clause.
SoftDeleteRowsShifted(c) ==
  /\ pc[c] = "marked" /\ op[c] = "batchDelete"
  /\ Write(c, [i \in {j \in Existing(c) : j - 1 \in Target(c)} |-> [rows[i] EXCEPT !.del = TRUE]])
  /\ UNCHANGED <<auto, held, stored>>

\* BatchDelete of soft-deletable models updates deleted_at alone.
SoftDeleteRows(c) ==
  /\ pc[c] = "marked" /\ op[c] = "batchDelete"
  /\ Target(c) \cap Existing(c) # {}
  /\ Write(c, [i \in Target(c) \cap Existing(c) |-> [rows[i] EXCEPT !.del = TRUE]])
  /\ UNCHANGED <<auto, held, stored>>

\* DELETE ... WHERE id IN fails when no row was affected.
RemoveRows(c) ==
  /\ Target(c) \cap Existing(c) # {}
  /\ Write(c, [i \in Target(c) \cap Existing(c) |-> NoRow])
  /\ UNCHANGED <<auto, held, stored>>

\* Delete of a model that is not soft-deletable.
DeleteRow(c) ==
  /\ pc[c] = "before" /\ op[c] = "delete" /\ ~soft
  /\ 0 \notin Target(c)
  /\ RemoveRows(c)

\* ForceDelete, of any model.
ForceDeleteRow(c) ==
  /\ pc[c] = "before" /\ op[c] = "forceDelete"
  /\ 0 \notin Target(c)
  /\ RemoveRows(c)

\* BatchDelete of models that are not soft-deletable.
BatchDeleteRows(c) ==
  /\ pc[c] = "before" /\ op[c] = "batchDelete" /\ ~soft
  /\ 0 \notin Target(c)
  /\ RemoveRows(c)

\* BatchDeleteByIDs: no hooks, no model to ask about soft deletion, any id.
DeleteByIDs(c) ==
  /\ pc[c] = "before" /\ op[c] = "batchDeleteByIDs"
  /\ RemoveRows(c)

-----------------------------------------------------------------------------
\* A transaction ends: its locks go.
EndTx(c) ==
  /\ tx' = [tx EXCEPT ![c] = "none"]
  /\ undo' = [undo EXCEPT ![c] = << >>]
  /\ aborted' = [aborted EXCEPT ![c] = FALSE]
  /\ mine' = [mine EXCEPT ![c] = {}]

\* Mutated form of Rollback: the transaction is committed on the error path.
RollbackCommits(c) ==
  /\ UNCHANGED rows
  /\ undone' = undone \cup mine[c]
  /\ EndTx(c)

\* Rollback: what it replaced is back.
Rollback(c) ==
  /\ rows' = [i \in Ids |-> IF i \in DOMAIN undo[c] THEN undo[c][i] ELSE rows[i]]
  /\ undone' = undone \cup mine[c]
  /\ EndTx(c)

\* Outside a transaction a call's values are no longer at stake once it ends.
Forget(c) ==
  mine' = [mine EXCEPT ![c] = IF tx[c] = "none" THEN {} ELSE @]

\* A call returns.
Return(c) ==
  /\ pc' = [pc EXCEPT ![c] = "idle"]
  /\ op' = [op EXCEPT ![c] = "none"]
  /\ at' = [at EXCEPT ![c] = 0]
  /\ stored' = IF op[c] \in Inserts
               THEN stored \ {held[c][k].val : k \in DOMAIN held[c]} ELSE stored
  /\ UNCHANGED <<dialect, soft, auto, held, calls, val, asked>>

\* A hook before or after the statement fails, or a check of the code does: a
\* zero id, or no row affected.
HookFails(c) ==
  /\ pc[c] \in {"before", "marked", "after"}
  /\ Return(c)
  /\ IF tx[c] = "own" THEN Rollback(c)
     ELSE Forget(c) /\ UNCHANGED <<rows, undone, txVars>>

\* The statement fails.  PostgreSQL then refuses the transaction's others.
StatementFails(c) ==
  /\ pc[c] \in {"before", "marked"}
  /\ Return(c)
  /\ IF tx[c] = "own" THEN Rollback(c)
     ELSE /\ aborted' = [aborted EXCEPT ![c] = tx[c] = "user" /\ dialect = "postgres"]
          /\ Forget(c) /\ UNCHANGED <<rows, undone, tx, undo>>

\* The models a call has dealt with after its statement.
Done(c) == at[c] + Cardinality(Window(c))

\* Has it others to deal with?
More(c) == Done(c) < Len(held[c])

\* The hooks after the statement pass: on with the rest of the batch ...
NextBatch(c) ==
  /\ pc[c] = "after" /\ More(c)
  /\ at' = [at EXCEPT ![c] = Done(c)]
  /\ pc' = [pc EXCEPT ![c] = "before"]
  /\ UNCHANGED <<table, held, op, txVars, calls, val, history>>

\* ... or the call returns nil; BatchUpdate commits its own transaction first.
Finish(c) ==
  /\ pc[c] = "after" /\ ~More(c)
  /\ IF tx[c] = "own"
     THEN pc' = [pc EXCEPT ![c] = "commit"] /\ UNCHANGED <<dialect, soft, held, op, at, auto, calls, val, stored, asked, mine>>
     ELSE Return(c) /\ Forget(c)
  /\ UNCHANGED <<rows, txVars, undone>>

\* WithTx begins a transaction ...
WithTx(c) ==
  /\ pc[c] = "idle" /\ tx[c] = "none" /\ calls < MaxCalls
  /\ tx' = [tx EXCEPT ![c] = "user"]
  /\ UNCHANGED <<table, call, undo, aborted, calls, val, history>>

\* ... its function returns nil ...
FnReturns(c) ==
  /\ pc[c] = "idle" /\ tx[c] = "user"
  /\ pc' = [pc EXCEPT ![c] = "commit"]
  /\ UNCHANGED <<table, held, op, at, txVars, calls, val, history>>

\* ... or an error, and the transaction is rolled back.
FnFails(c) ==
  /\ pc[c] = "idle" /\ tx[c] = "user"
  /\ Rollback(c)
  /\ UNCHANGED <<dialect, soft, auto, call, calls, val, stored, asked>>

\* The commit succeeds, though its answer may be lost.
Commit(c) ==
  /\ pc[c] = "commit" /\ ~aborted[c]
  /\ EndTx(c)
  /\ Return(c)
  /\ UNCHANGED <<rows, undone>>

\* The commit fails: the database has rolled back.
CommitFails(c) ==
  /\ pc[c] = "commit"
  /\ Return(c)
  /\ Rollback(c)

-----------------------------------------------------------------------------
Call(c) ==
  \/ \E o \in Inserts : CallInsert(c, o)
  \/ \E o \in Updates : CallUpdate(c, o)
  \/ \E o \in Deletes : CallDelete(c, o)

Step(c) ==
  \/ CreateRow(c) \/ InsertBatch(c) \/ UpdateRow(c) \/ BatchUpdateRow(c) \/ Mark(c)
  \/ SoftDeleteRows(c) \/ DeleteRow(c) \/ ForceDeleteRow(c) \/ BatchDeleteRows(c)
  \/ DeleteByIDs(c)
  \/ HookFails(c) \/ StatementFails(c) \/ NextBatch(c) \/ Finish(c)
  \/ Commit(c) \/ CommitFails(c)

Next ==
  \E c \in Clients :
    Fetch(c) \/ Call(c) \/ Step(c) \/ WithTx(c) \/ FnReturns(c) \/ FnFails(c)

Spec == Init /\ [][Next]_vars

-----------------------------------------------------------------------------
\* When a transaction fails, by an error of BatchUpdate, of the function given
\* to WithTx or of the commit, no row keeps a value it wrote (batch.go, lines
\* 274 to 283, db.go, lines 79 to 88).
UndoneLeavesNoTrace == \A i \in Ids : rows[i].val \notin undone

\* The answer to the statement tells the keys of its rows: RETURNING does, and so
\* does LastInsertId of one row or of rows that MySQL has numbered.  For the rest,
\* rows with ids of their own and SQLite's batches, it tells one key only.
IdsTold(c) ==
  \/ dialect = "postgres" \/ op[c] = "create"
  \/ \A k \in Window(c) : k = at[c] + 1
  \/ dialect = "mysql" /\ \A k \in Window(c) : held[c][k].id = 0

\* Where the answer to an INSERT tells the keys, the ids that the models are given
\* are those of the rows that hold their data.  BatchInsert has stored all of its
\* models when it returns nil, and otherwise those of its first batches, each
\* whole (db.go, line 167, batch.go, lines 66 to 81 and 181 to 207).
InsertsExact ==
  [][\A c \in Clients :
       /\ (CreateRow(c) \/ InsertBatch(c)) /\ IdsTold(c) =>
            \A k \in Window(c) :
              LET m == held'[c][k]
              IN  m.id \in Ids /\ rows'[m.id].val = m.val
       /\ op[c] = "batchInsert" /\ op'[c] # op[c] =>
            LET done == {k \in DOMAIN held[c] : held[c][k].val \in stored}
                n == Cardinality(done)
            IN  /\ done = 1 .. n
                /\ n = Len(held[c]) \/ n % BatchSize = 0
                /\ Finish(c) => n = Len(held[c])]_vars

\* A row is marked as deleted only if somebody asked for its deletion: nobody
\* else's Update or BatchDelete marks it (batch.go, lines 434 to 457).
MarkedOnRequest == \A i \in Ids : rows[i].del => i \in asked

\* "Expected user ID to be set after creation" (examples/testing/
\* repository_test.go, line 157): after Create has returned nil the model has
\* an id, with which it can be updated.
CreatedHasID ==
  [][\A c \in Clients : op[c] = "create" /\ Finish(c) => held[c][1].id # 0]_vars
=============================================================================
