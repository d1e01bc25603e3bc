----------------------------- MODULE SchemaDiff -----------------------------
(***************************************************************************)
(* SchemaDiffer (migrate/diff.go) on PostgreSQL and AutoMigrate            *)
(* (migrate/auto.go): the catalog is read table by table, compared with    *)
(* the models, and the changes are run one after another, outside a        *)
(* transaction.  A statement may be refused, the round is then repeated    *)
(* from a new reading, and Down undoes what can be undone.                 *)
(***************************************************************************)
EXTENDS Integers, Sequences, FiniteSets, Functions

CONSTANTS
    Catalogs,     \* catalogs to start with, table -> [cols : column -> Col, refs : tables of its foreign keys]
    ModelSchemas, \* what the models may say, table -> columns
    Singular,     \* a table's name without the plural
    MaxRounds, MaxDrops
IsFunc(f) == f = [x \in DOMAIN f |-> f[x]]
IsSchema(m) == IsFunc(m) /\ \A t \in DOMAIN m : IsFunc(m[t])
IsCatalog(k) == IsFunc(k) /\ \A t \in DOMAIN k : k[t] = [cols |-> k[t].cols, refs |-> k[t].refs] /\ IsFunc(k[t].cols)
ASSUME SchemaAssumption ==
    /\ \A k \in Catalogs : IsCatalog(k)
    /\ \A m \in ModelSchemas : IsSchema(m)
    /\ MaxRounds \in Nat /\ MaxDrops \in Nat

VARIABLES
    catalog,    \* what the database has
    filled,     \* tables with rows
    models,     \* what GetSchemaFromModels returns: table -> columns
    spoken,     \* the models name their tables themselves (TableNamer)
    listed,     \* tables still to be read
    seen,       \* what GetCurrentSchema read so far
    todo,       \* changes still to be run
    working,    \* the table whose columns are being changed
    ran,        \* changes run, in order
    diffPc,     \* "auto", "list", "read", "run", "down", "done", "error"
    rounds, drops,
    origin      \* ghost: the catalog when it was listed
schemaVars == <<catalog, filled, models, spoken, listed, seen, todo, working, ran, diffPc, rounds, drops, origin>>

\* The catalog spells types its own way ("bigint" for BIGINT), so the texts of a
\* type that was read and of the same type in a model differ.  "none" is no default.
Col(type, null, default) == [type |-> type, null |-> null, default |-> default]
Spelled(c) == <<"catalog", c.type>>
goTypeToSQLType(c) == <<"model", c.type>>

One(f, c) == [x \in {f} |-> c]
Plus(f, g) == [x \in DOMAIN f \cup DOMAIN g |-> IF x \in DOMAIN g THEN g[x] ELSE f[x]]
SchemaInit ==
    /\ catalog \in Catalogs /\ models \in ModelSchemas
    /\ filled \in {{}, DOMAIN catalog}
    /\ listed = {} /\ seen = <<>> /\ todo = {} /\ working = "none" /\ ran = <<>>
    /\ \/ diffPc = "auto" /\ spoken \in BOOLEAN
       \/ diffPc = "list" /\ spoken = TRUE
    /\ rounds = 0 /\ drops = 0 /\ origin = catalog

\* AutoMigrate: CREATE TABLE IF NOT EXISTS for each model, under a name without
\* the plural of the differ unless the model names it; existing tables are left
\* as they are.  It stops at the first statement that fails.  Its id is a SERIAL,
\* which has a default, and no column takes NULL: isOptional compares the name of
\* a generic type, "Optional[string]", with "Optional".
getTableName(t) == IF spoken THEN t ELSE Singular[t]
isOptional(c) == FALSE
buildColumnDefinition(f, c) == Col(c.type, isOptional(c), IF f = "id" THEN "x" ELSE "none")
AutoMigrate(t, fails) ==
    /\ diffPc = "auto" /\ t \in DOMAIN models /\ getTableName(t) \notin listed
    /\ catalog' = IF fails \/ getTableName(t) \in DOMAIN catalog THEN catalog
                  ELSE Plus(catalog, One(getTableName(t), [cols |-> [f \in DOMAIN models[t] |-> buildColumnDefinition(f, models[t][f])],
                                                refs |-> {}]))
    /\ listed' = listed \cup {getTableName(t)}
    /\ diffPc' = IF fails THEN "error" ELSE diffPc
    /\ UNCHANGED <<filled, models, spoken, seen, todo, working, ran, rounds, drops, origin>>
AutoEnds ==
    /\ diffPc = "auto" /\ listed = {getTableName(t) : t \in DOMAIN models}
    /\ diffPc' = "list" /\ listed' = {}
    /\ UNCHANGED <<catalog, filled, models, spoken, seen, todo, working, ran, rounds, drops, origin>>

getTables ==
    /\ diffPc = "list" /\ rounds < MaxRounds
    /\ listed' = DOMAIN catalog /\ seen' = <<>> /\ ran' = <<>> /\ origin' = catalog
    /\ diffPc' = "read" /\ rounds' = rounds + 1
    /\ UNCHANGED <<catalog, filled, models, spoken, todo, working, drops>>
\* A table that has gone meanwhile is read as one without columns.
getTableSchema(t) ==
    /\ diffPc = "read" /\ t \in listed
    /\ seen' = Plus(seen, One(t, IF t \in DOMAIN catalog THEN catalog[t].cols ELSE <<>>))
    /\ listed' = listed \ {t}
    /\ UNCHANGED <<catalog, filled, models, spoken, todo, working, ran, diffPc, rounds, drops, origin>>
ReadError ==
    /\ diffPc \in {"read", "list"} /\ rounds < MaxRounds
    /\ diffPc' = "error"
    /\ UNCHANGED <<catalog, filled, models, spoken, listed, seen, todo, working, ran, rounds, drops, origin>>

\* The changes, and whether they have a ReverseSQL; of a table the column is "none".
Change(k, t, c, new) == [kind |-> k, table |-> t, col |-> c, new |-> new, reverse |-> k \in {"add_table", "add_column"}]
columnChanged(old, new) ==
    Spelled(old) # goTypeToSQLType(new) \/ old.null # new.null \/ old.default # new.default
\* Mutant: columns that only the database has are kept.
MutDiffColumns(t, cur, tgt) ==
    {Change("add_column", t, c, tgt[c]) : c \in DOMAIN tgt \ DOMAIN cur} \cup
    {Change("modify_column", t, c, tgt[c]) : c \in {d \in DOMAIN tgt \cap DOMAIN cur : columnChanged(cur[d], tgt[d])}}
diffColumns(t, cur, tgt) ==
    {Change("add_column", t, c, tgt[c]) : c \in DOMAIN tgt \ DOMAIN cur} \cup
    {Change("drop_column", t, c, cur[c]) : c \in DOMAIN cur \ DOMAIN tgt} \cup
    {Change("modify_column", t, c, tgt[c]) : c \in {d \in DOMAIN tgt \cap DOMAIN cur : columnChanged(cur[d], tgt[d])}}
Diff(cur, tgt) ==
    {Change("add_table", t, "none", tgt[t]) : t \in DOMAIN tgt \ DOMAIN cur} \cup
    {Change("drop_table", t, "none", cur[t]) : t \in DOMAIN cur \ DOMAIN tgt} \cup
    UNION {diffColumns(t, cur[t], tgt[t]) : t \in DOMAIN cur \cap DOMAIN tgt}
Compare ==
    /\ diffPc = "read" /\ listed = {}
    /\ todo' = Diff(seen, models) /\ working' = "none"
    /\ diffPc' = "run"
    /\ UNCHANGED <<catalog, filled, models, spoken, listed, seen, ran, rounds, drops, origin>>

\* The order of the list: new tables, dropped tables, then the tables of both,
\* one after another, with their new, dropped and modified columns.
Rank == [add_table |-> 1, drop_table |-> 2, add_column |-> 3, drop_column |-> 4, modify_column |-> 5]
First(c) ==
    /\ \A d \in todo : Rank[c.kind] <= 2 \/ Rank[d.kind] <= 2 => Rank[c.kind] <= Rank[d.kind]
    /\ \A d \in todo : d.table = c.table => Rank[c.kind] <= Rank[d.kind]
    /\ Rank[c.kind] > 2 /\ (\E d \in todo : d.table = working) => c.table = working

\* PostgreSQL: what refuses a change, and what it does.
SqlRefuses(c) ==
    CASE c.kind = "add_table" -> c.table \in DOMAIN catalog
      [] c.table \notin DOMAIN catalog -> TRUE
      [] c.kind = "drop_table" -> \E t \in DOMAIN catalog \ {c.table} : c.table \in catalog[t].refs
      [] c.kind = "add_column" -> c.col \in DOMAIN catalog[c.table].cols \/
                                  (c.table \in filled /\ ~c.new.null /\ c.new.default = "none")
      [] c.kind = "drop_column" -> c.col \notin DOMAIN catalog[c.table].cols
      [] OTHER -> c.col \notin DOMAIN catalog[c.table].cols \/
                  (catalog[c.table].cols[c.col].type = "text" /\ c.new.type = "int")
Without(f, x) == [y \in DOMAIN f \ {x} |-> f[y]]
SqlDoes(c) ==
    CASE c.kind = "add_table"     -> Plus(catalog, One(c.table, [cols |-> c.new, refs |-> {}]))
      [] c.kind = "drop_table"    -> Without(catalog, c.table)
      [] c.kind = "add_column"    -> [catalog EXCEPT ![c.table].cols = Plus(@, One(c.col, c.new))]
      [] c.kind = "drop_column"   -> [catalog EXCEPT ![c.table].cols = Without(@, c.col)]
      [] c.kind = "modify_column" -> [catalog EXCEPT ![c.table].cols[c.col].type = c.new.type]
RunChange(c, fails) ==
    /\ diffPc = "run" /\ c \in todo /\ First(c)
    /\ LET ok == ~fails /\ ~SqlRefuses(c) IN
          /\ catalog' = IF ok THEN SqlDoes(c) ELSE catalog
          /\ todo' = todo \ {c} /\ working' = c.table
          /\ ran' = IF ok THEN Append(ran, c) ELSE ran
          /\ filled' = filled \cap DOMAIN catalog'
          /\ diffPc' = IF ok THEN diffPc ELSE "list"
    /\ UNCHANGED <<models, spoken, listed, seen, rounds, drops, origin>>
RunEnds ==
    /\ diffPc = "run" /\ todo = {}
    /\ \E next \in {"done", "down", "list"} : diffPc' = next
    /\ UNCHANGED <<catalog, filled, models, spoken, listed, seen, todo, working, ran, rounds, drops, origin>>

\* GenerateMigration writes the Down part backwards, with a warning in the place
\* of a change that has no ReverseSQL.
GenerateMigration ==
    /\ diffPc = "down"
    /\ IF ran = <<>> THEN diffPc' = "done" /\ UNCHANGED <<catalog, ran>> ELSE
          LET c == ran[Len(ran)] IN
          /\ ran' = SubSeq(ran, 1, Len(ran) - 1)
          /\ catalog' = CASE c.kind = "add_table"  -> Without(catalog, c.table)
                          [] c.kind = "add_column" /\ c.table \in DOMAIN catalog ->
                               [catalog EXCEPT ![c.table].cols = Without(@, c.col)]
                          [] OTHER -> catalog
          /\ UNCHANGED diffPc
    /\ UNCHANGED <<filled, models, spoken, listed, seen, todo, working, rounds, drops, origin>>

\* Another client drops a table nobody refers to.
DropElsewhere(t) ==
    /\ diffPc \in {"read", "run"} /\ drops < MaxDrops
    /\ t \in DOMAIN catalog /\ \A u \in DOMAIN catalog \ {t} : t \notin catalog[u].refs
    /\ catalog' = Without(catalog, t) /\ drops' = drops + 1 /\ filled' = filled \ {t}
    /\ UNCHANGED <<models, spoken, listed, seen, todo, working, ran, diffPc, rounds, origin>>

SchemaNext ==
    \/ \E t \in DOMAIN models, fails \in BOOLEAN : AutoMigrate(t, fails)
    \/ AutoEnds \/ getTables \/ ReadError \/ Compare \/ RunEnds \/ GenerateMigration
    \/ \E t \in listed : getTableSchema(t)
    \/ \E c \in todo, fails \in BOOLEAN : RunChange(c, fails)
    \/ \E t \in DOMAIN catalog : DropElsewhere(t)
SchemaSpec == SchemaInit /\ [][SchemaNext]_schemaVars

\* A column of both sides after the change: the type of the model, everything
\* else as it was.
Kept(old, new) == [old EXCEPT !.type = new.type]
\* Whatever was refused before and in whatever order the changes come, when all
\* changes of a Diff have run and nobody else dropped a table, the database has the models' tables
\* with the models' columns: new ones as the models have them, old ones with the
\* models' type and their own nullability and default, which no change carries.
\* Down then takes away the new tables and columns again and leaves what was
\* dropped dropped and what was modified modified.  AutoMigrate alters no table
\* there is (diff.go, auto.go).
DiffReaches ==
    drops = 0 =>
    /\ diffPc \in {"done", "down"} /\ ran # <<>> /\ todo = {} /\ Len(ran) = Cardinality(Diff(seen, models)) =>
          /\ DOMAIN catalog = DOMAIN models
          /\ \A t \in DOMAIN models :
                catalog[t].cols = IF t \notin DOMAIN origin THEN models[t] ELSE
                   [c \in DOMAIN models[t] |-> IF c \in DOMAIN origin[t].cols THEN Kept(origin[t].cols[c], models[t][c])
                                               ELSE models[t][c]]
    /\ diffPc = "done" /\ ran = <<>> /\ rounds > 0 =>
          /\ DOMAIN catalog = DOMAIN models \cap DOMAIN origin
          /\ \A t \in DOMAIN catalog :
                catalog[t].cols = [c \in DOMAIN models[t] \cap DOMAIN origin[t].cols |-> Kept(origin[t].cols[c], models[t][c])]
    /\ diffPc = "auto" => \A t \in DOMAIN origin : catalog[t] = origin[t]
=============================================================================
