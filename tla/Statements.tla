---------------------------- MODULE Statements ----------------------------
(***************************************************************************)
(* The query builder at work: a caller chains calls on a builder           *)
(* (query/builder.go) and ends the chain with a statement: Find, First,    *)
(* Count, Update, Delete, ForceDelete, a dry run, an aggregation, or the   *)
(* same chain on the fast builders.  The text and arguments the code       *)
(* produces run against a table; asked keeps what the caller wanted, so    *)
(* that the rows found or changed can be compared with it.                 *)
(***************************************************************************)
EXTENDS SqlText

CONSTANTS
    Rows0,          \* the table: records [id, a, b, deleted_at, updated_at]
    Inputs(_, _),   \* what the n-th Where may be given, column a having a type
    Types,          \* the field types column a may have
    Dialects,       \* among {"postgres", "mysql", "sqlite"}
    MaxCalls,       \* bound: calls chained before the statement
    Now             \* the time that Update and Delete write

VARIABLES
    dialect, type,      \* the database, and the type of column a
    soft,               \* the model embeds SoftDeleteModel (and has updated_at)
    builder,            \* conditions, order, limit, offset, disableScopes, allowGlobal
    asked,              \* what was given to Where: [c, neg], neg when through Not
    calls,              \* calls chained so far
    rows,               \* the table's rows
    out                 \* the last statement's outcome

vars == <<dialect, type, soft, builder, asked, calls, rows, out>>

NoLimit == -1
NewBuilder == [conditions |-> <<>>, order |-> "none", limit |-> NoLimit, offset |-> 0,
               disableScopes |-> FALSE, allowGlobal |-> FALSE]
Nothing == [op |-> "none", err |-> FALSE, ids |-> {}, n |-> 0]

Init ==
    /\ dialect \in Dialects
    /\ type \in Types
    /\ soft \in BOOLEAN
    /\ builder = NewBuilder
    /\ asked = <<>>
    /\ calls = 0
    /\ rows = Rows0
    /\ out = Nothing
---------------------------------------------------------------------------
\* The chained calls.  Every one of them returns a changed clone.
Chain(b) ==
    /\ out = Nothing
    /\ calls < MaxCalls
    /\ calls' = calls + 1
    /\ builder' = b
    /\ UNCHANGED <<dialect, type, soft, rows, out>>

Where(w) ==
    /\ Chain([builder EXCEPT !.conditions = Append(@, IF w.neg THEN Not(w.c) ELSE w.c)])
    /\ asked' = Append(asked, w)

OrderBy(dir) ==
    /\ builder.order = "none"
    /\ Chain([builder EXCEPT !.order = dir])
    /\ UNCHANGED asked
Limit(n) ==
    /\ Chain([builder EXCEPT !.limit = n])
    /\ UNCHANGED asked
Offset(n) ==
    /\ Chain([builder EXCEPT !.offset = n])
    /\ UNCHANGED asked
AllowGlobal ==
    /\ Chain([builder EXCEPT !.allowGlobal = TRUE])
    /\ UNCHANGED asked

\* WithTrashed turns the scope off; OnlyTrashed also asks for removed rows.
WithTrashed ==
    /\ Chain([builder EXCEPT !.disableScopes = TRUE])
    /\ UNCHANGED asked
TrashedCondition == Condition(OptionalTimeField, "deleted_at", "IS NOT NULL", <<>>)
OnlyTrashed ==
    /\ Chain([builder EXCEPT !.disableScopes = TRUE,
                             !.conditions = Append(@, TrashedCondition)])
    /\ asked' = Append(asked, [c |-> TrashedCondition, neg |-> FALSE])
---------------------------------------------------------------------------
\* applySoftDeleteScope
Scoped(b) ==
    IF soft /\ ~b.disableScopes
    THEN [b EXCEPT !.conditions = Append(@, ScopeCondition)]
    ELSE b

\* A statement's text: WHERE is written as soon as there is a condition.
Statement(b, set, text) ==
    [text |-> Then(set, text), where |-> b.conditions # <<>>, limit |-> b.limit, offset |-> b.offset]
buildSelectQuery(b) ==
    Statement(b, NoText, buildWhereClauseFrom(dialect, soft, b.conditions, 1))
buildCountQuery(b) == buildSelectQuery([b EXCEPT !.limit = NoLimit, !.offset = 0])
buildDryRunSelectQuery(b) == buildSelectQuery(b)

\* What a result may be: LIMIT and OFFSET cut the rows in the order asked for,
\* and with no ORDER BY any rows of that number.
Page(S, b) ==
    LET left == IF Cardinality(S) > b.offset THEN Cardinality(S) - b.offset ELSE 0
        k == IF b.limit # NoLimit /\ b.limit < left THEN b.limit ELSE left
        before(r) == {q \in S : IF b.order = "desc" THEN q.id > r.id ELSE q.id < r.id}
        kept == {r \in S : Cardinality(before(r)) \in b.offset..(b.offset + k - 1)}
    IN  IF b.order = "none" THEN kSubset(k, S) ELSE {kept}

Ids(S) == {r.id : r \in S}
Ended(o) ==
    /\ out = Nothing
    /\ out' = o
    /\ UNCHANGED <<dialect, type, soft, builder, asked, calls>>
Outcome(op, S) == [op |-> op, err |-> FALSE, ids |-> Ids(S), n |-> Cardinality(S)]
Failed(op) == [op |-> op, err |-> TRUE, ids |-> {}, n |-> 0]

\* A reading statement s, paged as b says, on whatever the table holds.
Read(op, s, b) ==
    /\ UNCHANGED rows
    /\ \/ Refused(dialect, s) /\ Ended(Failed(op))
       \/ /\ ~Refused(dialect, s)
          /\ \E S \in Page(Selected(dialect, s, 0, rows), b) : Ended(Outcome(op, S))

Find == LET b == Scoped(builder) IN Read("Find", buildSelectQuery(b), b)

\* First is Limit(1).Find, and no row is an error.
First ==
    LET b == Scoped([builder EXCEPT !.limit = 1])
        s == buildSelectQuery(b)
    IN  /\ UNCHANGED rows
        /\ IF Refused(dialect, s) THEN Ended(Failed("First"))
           ELSE \E S \in Page(Selected(dialect, s, 0, rows), b) :
                   Ended(IF S = {} THEN Failed("First") ELSE Outcome("First", S))

Count ==
    LET b == Scoped(builder)
    IN  Read("Count", buildCountQuery(b), [b EXCEPT !.order = "asc", !.limit = NoLimit, !.offset = 0])

\* DryRun().Select() and ToSQL: the text is shown, nothing runs; n says whether
\* it is the text that Find would run.
DryRun ==
    /\ Ended([Nothing EXCEPT !.op = "DryRun",
              !.n = IF buildDryRunSelectQuery(builder) = buildSelectQuery(Scoped(builder))
                    THEN 1 ELSE 0])
    /\ UNCHANGED rows
---------------------------------------------------------------------------
\* guardGlobalMutation
guardGlobalMutation == builder.conditions # <<>> \/ builder.allowGlobal

\* withUpdatedAt: updated_at = now unless the caller assigns it.
withUpdatedAt(as) ==
    IF soft /\ \A i \in DOMAIN as : as[i].f # "updated_at"
    THEN Append(as, [f |-> "updated_at", v |-> Now])
    ELSE as

\* Mutant: the WHERE is numbered from 1 again.
MutBuildUpdateQuery(b, as) ==
    LET n == Len(as)
        set == Text(<<>>, Marks(1, n), [i \in 1..n |-> Arg(as[i].v)])
    IN  [Statement(b, set, buildWhereClauseFrom(dialect, soft, b.conditions, 1))
             EXCEPT !.limit = NoLimit, !.offset = 0]
\* SET takes the placeholders 1..n, the WHERE goes on from n + 1.
buildUpdateQuery(b, as) ==
    LET n == Len(as)
        set == Text(<<>>, Marks(1, n), [i \in 1..n |-> Arg(as[i].v)])
    IN  [Statement(b, set, buildWhereClauseFrom(dialect, soft, b.conditions, n + 1))
             EXCEPT !.limit = NoLimit, !.offset = 0]
buildDeleteQuery(b) == buildCountQuery(b)

\* execMutation of an UPDATE, whose SET values come through the placeholders too.
RunUpdate(op, as) ==
    LET b == Scoped(builder)
        all == withUpdatedAt(as)
        s == buildUpdateQuery(b, all)
        hit == Selected(dialect, s, Len(all), rows)
        value(f) == LET i == CHOOSE i \in DOMAIN all : all[i].f = f
                    IN  ValueAt(dialect, s.text.marks, s.text.args, i)
        Set(r) == [f \in DOMAIN r |-> IF \E i \in DOMAIN all : all[i].f = f THEN value(f) ELSE r[f]]
    IN  IF ~guardGlobalMutation \/ as = <<>> \/ Refused(dialect, s)
        THEN Ended(Failed(op)) /\ UNCHANGED rows
        ELSE /\ rows' = (rows \ hit) \cup {Set(r) : r \in hit}
             /\ Ended(Outcome(op, hit))

RunDelete(op) ==
    LET s == buildDeleteQuery(builder)
        hit == Selected(dialect, s, 0, rows)
    IN  IF ~guardGlobalMutation \/ Refused(dialect, s)
        THEN Ended(Failed(op)) /\ UNCHANGED rows
        ELSE rows' = rows \ hit /\ Ended(Outcome(op, hit))

Update(as)  == RunUpdate(IF as = <<>> THEN "UpdateNothing" ELSE "Update", as)
Delete      == IF soft THEN RunUpdate("Delete", <<[f |-> "deleted_at", v |-> Now]>>)
               ELSE RunDelete("Delete")
ForceDelete == RunDelete("ForceDelete")
---------------------------------------------------------------------------
\* The fast builders have no scopes and take LIMIT and OFFSET when above 0.
FastPage(b) == [b EXCEPT !.limit = IF @ > 0 THEN @ ELSE NoLimit]
Chainable == ~builder.disableScopes /\ ~builder.allowGlobal
FastFind ==
    LET b == FastPage(builder)
    IN  Chainable /\ Read("FastFind", Statement(b, NoText, fastWhere(b.conditions)), b)
FastFirst ==        \* an empty result is sql.ErrNoRows
    LET b == [builder EXCEPT !.limit = 1]
        s == Statement(b, NoText, fastWhere(b.conditions))
    IN  /\ Chainable /\ UNCHANGED rows
        /\ IF Refused(dialect, s) THEN Ended(Failed("FastFirst"))
           ELSE \E S \in Page(Selected(dialect, s, 0, rows), b) :
                   Ended(IF S = {} THEN Failed("FastFirst") ELSE Outcome("FastFirst", S))
FastCount ==
    LET b == [builder EXCEPT !.limit = NoLimit, !.offset = 0, !.order = "asc"]
    IN  Chainable /\ Read("FastCount", Statement(b, NoText, fastWhere(b.conditions)), b)
UltraFind ==
    LET b == FastPage(builder)
    IN  Chainable /\ Read("UltraFind", Statement(b, NoText, ultraWhere(b.conditions)), b)
UltraCount ==
    LET b == [builder EXCEPT !.limit = NoLimit, !.offset = 0, !.order = "asc"]
    IN  Chainable /\ Read("UltraCount", Statement(b, NoText, ultraWhere(b.conditions)), b)

\* PrepareSelectAll: column = placeholder, one for each column; Exec's args.
PrepareSelectAll(cols) ==
    WhereText([i \in DOMAIN cols |-> Condition(Int64Field, cols[i], "=", <<i>>)], 1)
PreparedExec(cols, args) ==
    LET t == PrepareSelectAll(cols)
        s == [text |-> [t EXCEPT !.args = [i \in DOMAIN args |-> Arg(args[i])]],
              where |-> cols # <<>>, limit |-> NoLimit, offset |-> 0]
    IN  /\ calls = 0
        /\ Read("Prepared", s, NewBuilder)
---------------------------------------------------------------------------
\* Mutant: the HAVING is numbered from 1 again.
MutBuildQuery(least) ==
    LET w == aggWhereClause(builder.conditions, 1)
        having == aggWhereClause(<<Condition(Int64Field, "n", ">=", <<least>>)>>, 1)
    IN  [Statement(builder, NoText, w) EXCEPT
            !.text = Text(w.parts, w.marks \o having.marks, w.args \o having.args),
            !.limit = NoLimit, !.offset = 0]
\* Aggregate() takes over the conditions and applies no scope.  With GROUP BY a
\* and HAVING COUNT(*) >= least, the groups are the values of column a.
buildQuery(least) ==
    LET w == aggWhereClause(builder.conditions, 1)
        having == aggWhereClause(<<Condition(Int64Field, "n", ">=", <<least>>)>>, Len(w.args) + 1)
    IN  [Statement(builder, NoText, w) EXCEPT
            !.text = Text(w.parts, w.marks \o having.marks, w.args \o having.args),
            !.limit = NoLimit, !.offset = 0]
Groups(S) == [v \in {r.a : r \in S} |-> Cardinality({r \in S : r.a = v})]
Folded(f, S) ==     \* COUNT skips NULLs; SUM and MAX are NULL over nothing
    LET vs == {r \in S : r.a # NULL} IN
    CASE f = "COUNT" -> Cardinality(vs)
      [] f = "SUM" -> IF vs = {} THEN NULL ELSE FoldSet(LAMBDA r, n : n + r.a, 0, vs)
      [] f = "MAX" -> IF vs = {} THEN NULL ELSE Max({r.a : r \in vs})
AggregateAll(least) ==
    LET q == buildQuery(least)
        S == Selected(dialect, q, 0, rows)
        bound == ValueAt(dialect, q.text.marks, q.text.args, Len(q.text.marks))
    IN  /\ UNCHANGED rows
        /\ IF Refused(dialect, q) THEN Ended(Failed("AggregateAll"))
           ELSE Ended([Nothing EXCEPT !.op = "AggregateAll", !.n = least,
                       !.ids = {<<v, Groups(S)[v]>> : v \in {x \in DOMAIN Groups(S) : Groups(S)[x] >= bound}}])
AggregateOne(f) ==
    LET s == [Statement(builder, NoText, aggWhereClause(builder.conditions, 1))
                EXCEPT !.limit = NoLimit, !.offset = 0]
    IN  /\ UNCHANGED rows
        /\ IF Refused(dialect, s) THEN Ended(Failed("AggregateOne"))
           ELSE Ended([Nothing EXCEPT !.op = "AggregateOne",
                       !.ids = {f}, !.n = Folded(f, Selected(dialect, s, 0, rows))])
---------------------------------------------------------------------------
Assignments == {<<>>, <<[f |-> "b", v |-> 2]>>,
                <<[f |-> "b", v |-> NULL], [f |-> "updated_at", v |-> 0]>>}
Next ==
    /\ out = Nothing        \* a chain ends with its statement
    /\ \/ \E w \in Inputs(type, calls + 1) : Where(w)
       \/ \E dir \in {"asc", "desc"} : OrderBy(dir)
       \/ \E n \in {0, 1} : Limit(n)
       \/ Offset(1)
       \/ AllowGlobal \/ WithTrashed \/ OnlyTrashed
       \/ Find \/ First \/ Count \/ DryRun
       \/ \E as \in Assignments : Update(as)
       \/ Delete \/ ForceDelete
       \/ FastFind \/ FastFirst \/ FastCount \/ UltraFind \/ UltraCount
       \/ \E cols \in {<<>>, <<"b">>, <<"b", "a">>}, args \in {<<1>>, <<1, 2>>} : PreparedExec(cols, args)
       \/ \E least \in {1, 2} : AggregateAll(least)
       \/ \E f \in {"COUNT", "SUM", "MAX"} : AggregateOne(f)

Spec == Init /\ [][Next]_vars
---------------------------------------------------------------------------
\* The reference: the rows of R on which everything asked for is true.
LiveU == IF soft THEN {u \in U : u.deleted_at = NULL} ELSE U
Wish(w, r) == IF w.neg THEN Not3(Meaning(w.c, r, LiveU)) ELSE Meaning(w.c, r, LiveU)
Matching(R) == {r \in R : \A i \in DOMAIN asked : Wish(asked[i], r) = "T"}
Live(R) == IF soft /\ ~builder.disableScopes THEN {r \in R : r.deleted_at = NULL} ELSE R

\* What the builder is able to say: no raw condition, no Not of an operator that
\* has no opposite there, no subquery that is not a *Subquery, and on
\* PostgreSQL none with two or more arguments; lists are not empty.
RECURSIVE Sayable(_)
Sayable(c) ==
    CASE c.k = "cond" -> c.list => c.vs # <<>>
      [] c.k = "group" -> c.cs # <<>> /\ \A i \in DOMAIN c.cs : c.cs[i].k \in {"cond", "group"} /\ Sayable(c.cs[i])
      [] c.k \in {"sub", "exists"} ->
            /\ c.q.built
            /\ c.q.correlated => c.q.corr \/ c.q.cs # <<>>
            /\ dialect = "postgres" => Len(ToSubquery(c.q, soft).text.args) < 2
      [] OTHER -> FALSE
Plain == \A i \in DOMAIN asked : Sayable(asked[i].c) /\ (asked[i].neg => asked[i].c.op \in DOMAIN Opposite)

\* What the fast builders are able to say: no subqueries, no groups on
\* PostgreSQL, and lists of the slice types they know (Ultra: no lists).
FastPlain(known) ==
    \A i \in DOMAIN asked :
       LET c == asked[i].c
           Leaf(x) == x.list => x.go \in known
       IN  /\ c.k \in {"cond", "group"}
           /\ c.k = "cond" => Leaf(c)
           /\ c.k = "group" => dialect # "postgres"
                               /\ \A j \in DOMAIN c.cs : c.cs[j].k = "cond" /\ Leaf(c.cs[j])
Pageable(b) == dialect = "postgres" \/ b.offset = 0 \/ b.limit # NoLimit

\* Find, First and Count answer with the rows the caller's conditions are true
\* of, removed rows hidden unless asked for, cut by LIMIT and OFFSET, and are
\* not refused by the database, whatever the dialect, the nesting of groups,
\* the negations and the subqueries among the conditions (builder.go Find).
ReadsWhatIsAsked ==
    (out.op \in {"Find", "First", "Count"} /\ Plain) =>
       LET want == Matching(Live(rows))
           b == CASE out.op = "Find" -> builder
                  [] out.op = "First" -> [builder EXCEPT !.limit = 1]
                  [] OTHER -> [builder EXCEPT !.limit = NoLimit, !.offset = 0, !.order = "asc"]
       IN  IF out.err THEN ~Pageable(b) \/ (out.op = "First" /\ Page(want, b) = {{}})
           ELSE \E S \in Page(want, b) : out.ids = Ids(S) /\ out.n = Cardinality(S)

\* The fast builders and the aggregations select the rows asked for, removed
\* ones included, wherever their own text can say it, and a HAVING keeps its own
\* argument whatever the WHERE before it took (aggregation.go buildQuery,
\* fast_builder.go and ultra_fast.go Where); the SQL that DryRun and ToSQL show
\* is the SQL that Find runs when no soft-delete scope applies (dryrun.go).
ShortcutsAgree ==
    LET want == Matching(rows) IN
    /\ (out.op = "DryRun" /\ (~soft \/ builder.disableScopes)) => out.n = 1
    /\ (out.op \in {"FastFind", "UltraFind"} /\ Plain
        /\ FastPlain(IF out.op = "FastFind" THEN FastKnownSlices ELSE {})) =>
          IF out.err THEN ~Pageable(FastPage(builder))
          ELSE \E S \in Page(want, FastPage(builder)) : out.ids = Ids(S)
    /\ (out.op \in {"FastCount", "UltraCount"} /\ Plain
        /\ FastPlain(IF out.op = "FastCount" THEN FastKnownSlices ELSE {})) =>
          ~out.err /\ out.n = Cardinality(want)
    /\ (out.op = "AggregateOne" /\ Plain /\ \A i \in DOMAIN asked : asked[i].c.k \in {"cond", "group"}) =>
          ~out.err /\ \A f \in out.ids : out.n = Folded(f, want)
    /\ (out.op = "AggregateAll" /\ Plain /\ \A i \in DOMAIN asked : asked[i].c.k \in {"cond", "group"}) =>
          ~out.err /\ out.ids = {<<v, Groups(want)[v]>> : v \in {x \in DOMAIN Groups(want) : Groups(want)[x] >= out.n}}

\* The outcome of a mutation that matches the rows R.
Mutated(R) ==
    /\ out'.err => rows' = rows /\ asked = <<>> /\ ~builder.allowGlobal
    /\ ~out'.err =>
          /\ asked # <<>> \/ builder.allowGlobal
          /\ out'.ids = Ids(R)
          /\ rows \ R \subseteq rows'
          /\ Cardinality(rows') = Cardinality(rows) - IF out'.op = "ForceDelete" \/ (out'.op = "Delete" /\ ~soft)
                                                     THEN Cardinality(R) ELSE 0
          /\ out'.op = "Update" =>
                \E v \in {2, NULL} : \A r \in R :
                   \E n \in rows' : /\ n.id = r.id /\ n.b = v /\ n.a = r.a /\ n.deleted_at = r.deleted_at
                                    /\ n.updated_at = IF v = 2 THEN (IF soft THEN Now ELSE r.updated_at) ELSE 0
MutationStep == out'.op \in {"Update", "Delete", "ForceDelete"} /\ out.op = "none"

\* Update, Delete and ForceDelete touch exactly the rows the caller's conditions
\* are true of (the removed ones only by ForceDelete or when asked for), write
\* the values assigned, and never run with no condition unless AllowGlobal was
\* called (mutation.go).
MutatesWhatIsAsked ==
    [][(MutationStep /\ Plain) =>
          Mutated(Matching(IF out'.op = "ForceDelete" \/ (out'.op = "Delete" /\ ~soft) THEN rows ELSE Live(rows)))]_vars

\* "Update aplica as atribuições a todos os registros que casam com o WHERE"
\* (mutation.go:31), also when the WHERE came from a JSON or full-text condition,
\* "que pode ser usada com Where" (json.go:118): no other row is changed.
MutatesOnlyMatching ==
    [][(MutationStep /\ \A i \in DOMAIN asked : asked[i].c.k \in {"cond", "group", "raw"} /\ ~asked[i].neg)
         => \A r \in rows \ rows' : r \in Matching(rows)]_vars
=============================================================================
