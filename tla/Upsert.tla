------------------------------- MODULE Upsert -------------------------------
(***************************************************************************)
(* Upsert and BatchUpsert (core/upsert.go): one INSERT ... ON CONFLICT, or *)
(* ON DUPLICATE KEY, for a model, and one for each window of a batch, not  *)
(* in a transaction.  Every statement may fail, and another client changes *)
(* the table between them.  The table has the unique columns id and email. *)
(***************************************************************************)
EXTENDS Integers, Sequences, SequencesExt, FiniteSets

CONSTANTS UpIds,         \* ids of models: 0 for a new one
          Emails,
          UpBatch,       \* batchConfig.BatchSize
          MaxUpModels
ASSUME UpsertAssumption == /\ UpIds \subseteq Nat /\ UpBatch \in Nat \ {0} /\ MaxUpModels \in Nat

VARIABLES
    upForm,     \* "postgres", or the "?" dialects: "mysql" and "sqlite"
    people,     \* rows [id, email, name, made]
    upModels,   \* the models of the call: name i is the i-th model's
    upCfg,      \* UpsertConfig
    upOp,       \* "one" or "batch"
    upNext,     \* the first model of the next statement
    upDone      \* "running", "ok" or "error"
upVars == <<upForm, people, upModels, upCfg, upOp, upNext, upDone>>

Person(i, e, m, c) == [id |-> i, email |-> e, name |-> m, made |-> c]
\* Rows of before the call: one of them may be too old for UpdateWhere.
Old == {Person(1, "a", 0, 0), Person(1, "a", 0, -1), Person(2, "b", 0, 0)}
UpConfigs == [target : {"id", "email"}, cols : {{}, {"name"}}, doNothing : BOOLEAN, where : BOOLEAN]

UpInit ==
    /\ upForm \in {"postgres", "mysql", "sqlite"}
    /\ people \in {R \in SUBSET Old : \A r, s \in R : r.id = s.id => r = s}
    /\ upCfg \in UpConfigs
    /\ upOp \in {"one", "batch"}
    /\ \E len \in 1 .. (IF upOp = "one" THEN 1 ELSE MaxUpModels) :
          \E f \in [1..len -> UpIds \X Emails] :
             upModels = [i \in 1..len |-> Person(f[i][1], f[i][2], i, i)]
    /\ upNext = 1 /\ upDone = "running"

\* The columns set on a conflict: those named, or all but the keys of the
\* conflict, id and created_at.  The id is never among the default ones.
\* Mutant: created_at is updated too.
MutGetUpdateColumns == IF upCfg.cols # {} THEN upCfg.cols ELSE {"email", "name", "made"} \ {upCfg.target}
getUpdateColumns == IF upCfg.cols # {} THEN upCfg.cols ELSE {"email", "name"} \ {upCfg.target}

\* The window of the statement; a batch names the id column, but a model
\* without an id sends no value for it.
UpWindow == {i \in DOMAIN upModels : upNext <= i /\ i < upNext + (IF upOp = "one" THEN 1 ELSE UpBatch)}
executeBatchUpsert(models) == \A k \in DOMAIN models : models[k].id # 0

\* UpdateWhere, a condition on the stored row: it was made late enough.
UpdateWhere(r) == r.made >= 0

\* The database, row by row; acc is [ok, rows, touched].
Apply(acc, r, m) ==
    LET new == [c \in DOMAIN r |-> IF c \in getUpdateColumns THEN m[c] ELSE r[c]]
        clash == \E s \in acc.rows \ {r} : s.email = new.email
    IN  [ok |-> acc.ok /\ ~clash, rows |-> (acc.rows \ {r}) \cup {new}, touched |-> acc.touched \cup {new}]
Store(acc, m) == [acc EXCEPT !.rows = @ \cup {m}, !.touched = @ \cup {m}]
\* ON CONFLICT (target): other unique columns still refuse the row, no row is
\* changed twice, and the WHERE may leave it as it is.
OnConflict(acc, m) ==
    LET hit == {r \in acc.rows : r[upCfg.target] = m[upCfg.target]}
        other == {r \in acc.rows : r.id = m.id \/ r.email = m.email} \ hit
        r == CHOOSE s \in hit : TRUE
    IN  IF hit = {} THEN IF other = {} THEN Store(acc, m) ELSE [acc EXCEPT !.ok = FALSE]
        ELSE IF upCfg.doNothing THEN acc
        ELSE IF r \in acc.touched THEN [acc EXCEPT !.ok = FALSE]
        ELSE IF upCfg.where /\ upOp = "one" /\ ~UpdateWhere(r) THEN acc ELSE Apply(acc, r, m)
\* ON DUPLICATE KEY, or INSERT IGNORE: any unique column, the primary key first;
\* id 0 asks for the next one.
FreshId(R) == Max({r.id : r \in R} \cup {0}) + 1
OnDuplicate(acc, m) ==
    LET byId == {r \in acc.rows : r.id = m.id}
        hit == IF byId # {} THEN byId ELSE {r \in acc.rows : r.email = m.email}
    IN  IF hit = {} THEN Store(acc, IF m.id = 0 THEN [m EXCEPT !.id = FreshId(acc.rows)] ELSE m)
        ELSE IF upCfg.doNothing THEN acc ELSE Apply(acc, CHOOSE r \in hit : TRUE, m)

buildUpsertQuery(models, R) ==
    LET none == [ok |-> TRUE, rows |-> R, touched |-> {}]
    IN  CASE upForm = "postgres" -> FoldLeft(OnConflict, none, models)
          [] upForm = "mysql" -> FoldLeft(OnDuplicate, none, models)
          [] OTHER -> [none EXCEPT !.ok = FALSE]      \* SQLite knows neither form

\* LastInsertId is known on MySQL only: the id given to a new row; for a row that
\* was found the driver reports its id or nothing.
setID(R) ==
    LET mine == {r \in R : r.name = 1}
        given == {r \in mine : r.id \notin {p.id : p \in people}}
        With(S) == {[upModels EXCEPT ![1].id = r.id] : r \in S}
    IN  upModels' \in IF upModels[1].id = 0 /\ given # {} THEN With(given) ELSE {upModels} \cup With(mine)

\* One statement; it may also fail on the way.  A batch goes on with its next
\* window, and stops at the first error.
UpStatement(fails) ==
    LET models == [k \in 1 .. Cardinality(UpWindow) |-> upModels[upNext + k - 1]]
        result == buildUpsertQuery(models, people)
        ok == ~fails /\ (upOp = "batch" => executeBatchUpsert(models)) /\ result.ok
    IN  /\ upDone = "running"
        /\ people' = IF ok THEN result.rows ELSE people
        /\ upNext' = IF ok THEN upNext + Cardinality(UpWindow) ELSE upNext
        /\ upDone' = IF ~ok THEN "error" ELSE IF upNext' > Len(upModels) THEN "ok" ELSE "running"
        /\ IF ok /\ upOp = "one" /\ upForm = "mysql" THEN setID(result.rows) ELSE UNCHANGED upModels
        /\ UNCHANGED <<upForm, upCfg, upOp>>

\* Another client deletes a row between two statements.
UpElsewhere ==
    /\ upDone = "running" /\ upNext > 1
    /\ \E r \in people : people' = people \ {r}
    /\ UNCHANGED <<upForm, upModels, upCfg, upOp, upNext, upDone>>

UpNext == (\E fails \in BOOLEAN : UpStatement(fails)) \/ UpElsewhere
UpSpec == UpInit /\ [][UpNext]_upVars

\* Only the statement of one model for PostgreSQL has the WHERE: the batch and
\* both MySQL forms are built without it.
WhereIgnored == upCfg.where /\ ~upCfg.doNothing /\ (upOp = "batch" \/ upForm # "postgres")

\* What the statement has stored.  PostgreSQL: a row under the conflict key of
\* every model, with the columns to update as the model has them, or as it was
\* when DoNothing or UpdateWhere kept it.
StoredOnConflict ==
    \A i \in UpWindow :
       LET m == upModels[i]
           Of(R) == {r \in R : r[upCfg.target] = m[upCfg.target]}
       IN  /\ Of(people') # {}
           /\ \A r \in Of(people') :
                 \/ r \in people /\ (upCfg.doNothing \/ (upCfg.where /\ ~UpdateWhere(r)))
                 \/ \A c \in getUpdateColumns : r[c] = m[c]
                 \/ (upCfg.doNothing /\ \E j \in UpWindow : r = upModels[j])
           /\ upCfg.where /\ ~upCfg.doNothing => \A r \in Of(people) : UpdateWhere(r) \/ r \in people'
\* MySQL: the row with a model's id, or else with its email, has what that model
\* or a later one of the window says, unless DoNothing kept it; there is one
\* unless a later model gave the row another email.
StoredOnDuplicate ==
    \A i \in UpWindow :
       LET byId == {r \in people' : r.id = upModels[i].id}
           found == IF byId # {} THEN byId ELSE {r \in people' : r.email = upModels[i].email}
       IN  /\ upCfg.doNothing \/ \A r \in found : r.name >= upModels[i].name
           /\ found # {} \/ \E r \in people' : r.name > upModels[i].name

\* On PostgreSQL and MySQL, when the statement has a WHERE or needs none: an
\* Upsert or BatchUpsert that succeeds has stored every model of its window (see
\* above); rows it found keep their id and created_at, rows it did not name are
\* as they were, and both keys stay unique.  One that fails changes nothing, and
\* a batch that fails has stored exactly the windows before.  An id that Upsert
\* sets is its own row's (upsert.go).
UpsertExact ==
    [][upForm # "sqlite" /\ ~WhereIgnored /\ (upNext' # upNext \/ upDone' = "error") =>
       /\ \A r, s \in people' : r # s => r.id # s.id /\ r.email # s.email
       /\ upDone' = "error" => people' = people /\ upNext' = upNext
       /\ upDone' = "error" /\ upOp = "batch" => (upNext - 1) % UpBatch = 0
       /\ \A r \in people : \E s \in people' : s.id = r.id /\ s.made = r.made
       /\ \A r \in people : (\A i \in UpWindow : r.id # upModels[i].id /\ r.email # upModels[i].email) => r \in people'
       /\ upNext' # upNext => IF upForm = "postgres" THEN StoredOnConflict ELSE StoredOnDuplicate
       /\ upModels' # upModels => \E r \in people' : r.id = upModels'[1].id /\ r.name = 1
       ]_upVars

\* "UpdateWhere adiciona uma condição WHERE ao UPDATE" (upsert.go:24): on
\* PostgreSQL no statement changes a row that the condition keeps.
UpdateWhereHolds ==
    [][\A r \in people :
          upForm = "postgres" /\ upCfg.where /\ ~UpdateWhere(r) /\ upNext' # upNext => r \in people']_upVars
=============================================================================
