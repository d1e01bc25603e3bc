------------------------------ MODULE SqlText ------------------------------
(***************************************************************************)
(* The SQL the builders of package query write, and what a database makes  *)
(* of it.  Of the text is kept what decides its meaning: the shape of the  *)
(* clauses, the numbers of the placeholders in the order of the text       *)
(* ("marks") and the arguments sent along.  A PostgreSQL server binds the  *)
(* placeholder $n to argument n; MySQL and SQLite bind the n-th ? of the   *)
(* text to argument n.                                                     *)
(***************************************************************************)
EXTENDS Conditions, SequencesExt

CONSTANTS U          \* the rows of the table the subqueries select from

---------------------------------------------------------------------------
\* A piece of SQL: the conditions joined at its level, the marks, the args.
Text(parts, marks, args) == [parts |-> parts, marks |-> marks, args |-> args]
NoText == Text(<<>>, <<>>, <<>>)
Then(s, t) == Text(s.parts \o t.parts, s.marks \o t.marks, s.args \o t.args)
Marks(from, n) == [i \in 1..n |-> from + i - 1]

\* One argument, or a Go slice sent as if it were one.
Arg(v)      == [slice |-> FALSE, v |-> v]
SliceArg(l) == [slice |-> TRUE, v |-> l]

\* interfaceSlice spreads the slice types it knows and wraps anything else.
KnownSlices     == {"string", "int", "int64", "bool", "float64", "time"}
FastKnownSlices == {"string", "int", "int64"}
Spread(c, known) ==
    IF c.list /\ c.go \in known THEN [i \in DOMAIN c.vs |-> Arg(c.vs[i])]
    ELSE IF c.list THEN <<SliceArg(c.vs)>> ELSE <<Arg(c.vs[1])>>
interfaceSlice(c)     == Spread(c, KnownSlices)
fastInterfaceSlice(c) == Spread(c, FastKnownSlices)

Atom(c, n) == [k |-> "atom", f |-> c.f, op |-> c.op, n |-> n]
Blank      == [k |-> "blank", n |-> 0]     \* the "" of a BETWEEN without two values
Paren(o, t) == Text(<<[k |-> "paren", o |-> o, parts |-> t.parts, n |-> Len(t.marks)]>>,
                    t.marks, t.args)

\* One condition, its placeholders numbered from i; values is what the
\* caller's interfaceSlice made of its Value.
ConditionText(c, i, values) ==
    CASE c.op \in Nullness -> Text(<<Atom(c, 0)>>, <<>>, <<>>)
      [] c.op \in Lists -> Text(<<Atom(c, Len(values))>>, Marks(i, Len(values)), values)
      [] c.op \in Range2 -> IF Len(values) # 2 THEN Text(<<Blank>>, <<>>, <<>>)
                            ELSE Text(<<Atom(c, 2)>>, Marks(i, 2), values)
      [] OTHER -> Text(<<Atom(c, 1)>>, <<i>>, <<Arg(c.vs[1])>>)

buildCondition(c, i) == ConditionText(c, i, interfaceSlice(c))

\* A group: only conditions and groups are written, anything else is left out.
\* (argIndex has advanced by one per argument.)
RECURSIVE buildConditionGroup(_, _)
buildConditionGroup(g, i) ==
    FoldLeft(LAMBDA t, c :
                LET j == i + Len(t.args)
                IN  CASE c.k = "cond" -> Then(t, buildCondition(c, j))
                      [] c.k = "group" -> Then(t, Paren(c.o, buildConditionGroup(c, j)))
                      [] OTHER -> t,
             NoText, g.cs)

\* rewritePlaceholders: a ? stays; for PostgreSQL $n, ..., $1 are replaced, one
\* occurrence each, by numbers that count up from i.
FirstAt(marks, n) == CHOOSE k \in DOMAIN marks :
                        marks[k] = n /\ \A j \in 1..(k - 1) : marks[j] # n
rewritePlaceholders(d, marks, i, n) ==
    IF d # "postgres" THEN marks
    ELSE FoldLeft(LAMBDA ms, k : LET old == n + 1 - k
                                 IN  IF \E j \in DOMAIN ms : ms[j] = old
                                     THEN [ms EXCEPT ![FirstAt(ms, old)] = i + k - 1]
                                     ELSE ms,
                  marks, [k \in 1..n |-> k])

\* A subquery, SELECT a FROM u WHERE ...; a correlation is its first condition.
\* Build applies the soft-delete scope of the inner builder.
Correlation == [k |-> "corr", n |-> 0]
ScopeCondition == Condition(OptionalTimeField, "deleted_at", "IS NULL", <<>>)
InnerConditions(q, soft) == IF soft THEN Append(q.cs, ScopeCondition) ELSE q.cs
WhereText(cs, i) ==
    FoldLeft(LAMBDA t, c : Then(t, buildCondition(c, i + Len(t.args))), NoText, cs)
ToSubquery(q, soft) ==
    LET w == WhereText(InnerConditions(q, soft), 1)
    IN  [text |-> w, where |-> w.parts # <<>>]
\* CorrelatedSubqueryBuilder writes WHERE whether or not anything follows it.
CorrelatedToSubquery(q, soft) ==
    LET w == WhereText(InnerConditions(q, soft), 1)
    IN  [text |-> IF q.corr THEN Then(Text(<<Correlation>>, <<>>, <<>>), w) ELSE w, where |-> TRUE]

\* createSubqueryCondition and extractSubquery take a *Subquery; a builder that
\* was not turned into one becomes a Subquery with no SQL at all, whose parentheses stay empty.
buildSubqueryCondition(d, soft, c, i) ==
    LET s == IF c.q.correlated THEN CorrelatedToSubquery(c.q, soft) ELSE ToSubquery(c.q, soft)
        marks == rewritePlaceholders(d, s.text.marks, i, Len(s.text.args))
    IN  IF ~c.q.built THEN Text(<<Blank>>, <<>>, <<>>)
        ELSE Text(<<[k |-> c.k, c |-> c, where |-> s.where, parts |-> s.text.parts, n |-> Len(marks)]>>,
                  marks, s.text.args)

\* Mutant: the index is not carried from one condition to the next.
MutWhereClauseFrom(d, soft, cs, i) ==
    FoldLeft(LAMBDA t, c :
                CASE c.k = "cond" -> Then(t, buildCondition(c, i))
                  [] c.k = "group" -> Then(t, Paren(c.o, buildConditionGroup(c, i)))
                  [] c.k \in {"sub", "exists"} -> Then(t, buildSubqueryCondition(d, soft, c, i))
                  [] OTHER -> t,
             NoText, cs)
\* The WHERE of Builder: conditions, groups, subqueries and EXISTS; whatever
\* else was given to Where is not written.
buildWhereClauseFrom(d, soft, cs, i) ==
    FoldLeft(LAMBDA t, c :
                LET j == i + Len(t.args)
                IN  CASE c.k = "cond" -> Then(t, buildCondition(c, j))
                      [] c.k = "group" -> Then(t, Paren(c.o, buildConditionGroup(c, j)))
                      [] c.k \in {"sub", "exists"} -> Then(t, buildSubqueryCondition(d, soft, c, j))
                      [] OTHER -> t,
             NoText, cs)

\* The WHERE and HAVING of AggregateBuilder write conditions and groups only.
aggWhereClause(cs, i) ==
    FoldLeft(LAMBDA t, c :
                LET j == i + Len(t.args)
                IN  CASE c.k = "cond" -> Then(t, buildCondition(c, j))
                      [] c.k = "group" -> Then(t, Paren(c.o, buildConditionGroup(c, j)))
                      [] OTHER -> t,
             NoText, cs)

\* FastBuilder writes a condition when Where is called and numbers it from
\* len(b.args): inside a group every condition starts from the same number.
RECURSIVE fastConditionGroup(_, _)
fastConditionGroup(g, i) ==
    FoldLeft(LAMBDA t, c :
                CASE c.k = "cond" -> Then(t, ConditionText(c, i, fastInterfaceSlice(c)))
                  [] c.k = "group" -> Then(t, Paren(c.o, fastConditionGroup(c, i)))
                  [] OTHER -> t,
             NoText, g.cs)
fastWhere(cs) ==
    FoldLeft(LAMBDA t, c :
                LET i == Len(t.args) + 1
                IN  CASE c.k = "cond" -> Then(t, ConditionText(c, i, fastInterfaceSlice(c)))
                      [] c.k = "group" -> Then(t, Paren(c.o, fastConditionGroup(c, i)))
                      [] OTHER -> t,
             NoText, cs)

\* UltraFastBuilder knows no lists: IN and BETWEEN get one placeholder and the
\* whole slice as its argument.
buildCond(c, i) ==
    IF c.op \in Nullness THEN Text(<<Atom(c, 0)>>, <<>>, <<>>)
    ELSE Text(<<Atom(c, 1)>>, <<i>>, IF c.list THEN <<SliceArg(c.vs)>> ELSE <<Arg(c.vs[1])>>)
RECURSIVE buildCondGroup(_, _)
buildCondGroup(g, i) ==
    FoldLeft(LAMBDA t, c :
                CASE c.k = "cond" -> Then(t, buildCond(c, i))
                  [] c.k = "group" -> Then(t, Paren(c.o, buildCondGroup(c, i)))
                  [] OTHER -> t,
             NoText, g.cs)
ultraWhere(cs) ==
    FoldLeft(LAMBDA t, c :
                LET i == Len(t.args) + 1
                IN  CASE c.k = "cond" -> Then(t, buildCond(c, i))
                      [] c.k = "group" -> Then(t, Paren(c.o, buildCondGroup(c, i)))
                      [] OTHER -> t,
             NoText, cs)
---------------------------------------------------------------------------
\* The database's side.  The value at the k-th placeholder of the text.
ValueAt(d, marks, args, k) ==
    IF d = "postgres" THEN args[marks[k]].v ELSE args[k].v

\* Text the server (or the driver) refuses: an empty clause, (), IN () except on
\* SQLite, arguments that do not fit the placeholders, a slice as an argument.
RECURSIVE IllFormed(_, _)
IllFormed(d, parts) ==
    \/ parts = <<>>
    \/ \E i \in DOMAIN parts :
          LET p == parts[i] IN
          CASE p.k = "blank" -> TRUE
            [] p.k = "atom" -> \/ p.op \in Lists /\ p.n = 0 /\ d # "sqlite"
                               \/ p.op \in Range2 /\ p.n # 2
            [] p.k = "paren" -> IllFormed(d, p.parts)
            [] p.k \in {"sub", "exists"} -> p.where /\ IllFormed(d, p.parts)
            [] OTHER -> FALSE
Refused(d, s) ==
    \/ s.where /\ IllFormed(d, s.text.parts)
    \/ \E i \in DOMAIN s.text.args : s.text.args[i].slice
    \/ IF d = "postgres" THEN ToSet(s.text.marks) # 1..Len(s.text.args)
       ELSE Len(s.text.marks) # Len(s.text.args)
    \/ d # "postgres" /\ s.offset # 0 /\ s.limit = -1     \* OFFSET needs a LIMIT there

\* Whether a row passes the parts of a clause, whose placeholders take the
\* values vals from position off + 1 on; outer is the row around a subquery.
RECURSIVE Passes(_, _, _, _, _)
Passes(parts, vals, off, row, outer) ==
    LET at(i) == FoldLeft(LAMBDA n, p : n + p.n, off, SubSeq(parts, 1, i - 1))
        own(i) == SubSeq(vals, at(i) + 1, at(i) + parts[i].n)
        picked(i) == {u \in U : All3(Passes(parts[i].parts, vals, at(i), u, row)) = "T"}
        value(i) ==
            LET p == parts[i] IN
            CASE p.k = "atom" -> Holds(p.op, row[p.f], own(i))
              [] p.k = "corr" -> Compare("=", row.b, outer.b)
              [] p.k = "paren" -> LET S == Passes(p.parts, vals, at(i), row, outer)
                                  IN  IF p.o = "AND" THEN All3(S) ELSE Any3(S)
              [] p.k = "sub" -> Member(p.c.op, row[p.c.f], {u.a : u \in picked(i)})
              [] p.k = "exists" -> Truth((picked(i) # {}) # p.c.neg)
    IN  {value(i) : i \in DOMAIN parts}

\* The rows of a table that a statement's WHERE selects; skip is the number of
\* placeholders (of a SET) that stand before it.
Selected(d, s, skip, rows) ==
    LET vals == [k \in 1..Len(s.text.marks) |-> ValueAt(d, s.text.marks, s.text.args, k)]
    IN  IF ~s.where THEN rows
        ELSE {r \in rows : All3(Passes(s.text.parts, vals, skip, r, r)) = "T"}
=============================================================================
