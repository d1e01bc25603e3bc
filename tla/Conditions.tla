----------------------------- MODULE Conditions -----------------------------
(***************************************************************************)
(* What a caller may ask of a row: the conditions the typed fields of      *)
(* query/field.go construct, the groups, subqueries and raw conditions     *)
(* that Where also takes, and what each of them MEANS on a row under SQL's *)
(* three-valued logic.  Nothing here looks at SQL text: module SqlText     *)
(* builds the text the code builds, and Statements compares the two.       *)
(***************************************************************************)
EXTENDS Integers, Sequences, FiniteSets

CONSTANT NULL        \* the value of a column that has none

---------------------------------------------------------------------------
\* The operators of query/condition.go, by how many values they take.
Nullness == {"IS NULL", "IS NOT NULL"}
Equality == {"=", "!="}
Ordering == {">", ">=", "<", "<="}
Lists    == {"IN", "NOT IN"}
Pattern  == {"LIKE", "NOT LIKE"}
Range2   == {"BETWEEN"}

\* The operators each field type has a method for, and the Go type its lists
\* are slices of (the text builders know some slice types only).
StringField          == [go |-> "string",  ops |-> Equality \cup Lists \cup Nullness \cup Pattern]
IntField             == [go |-> "int",     ops |-> Equality \cup Ordering \cup Lists \cup Range2 \cup Nullness]
Int64Field           == [go |-> "int64",   ops |-> IntField.ops]
BoolField            == [go |-> "bool",    ops |-> Equality \cup Lists \cup Nullness]
Float64Field         == [go |-> "float64", ops |-> IntField.ops]
OptionalStringField  == [go |-> "string",  ops |-> StringField.ops]
OptionalIntField     == [go |-> "int",     ops |-> IntField.ops]
OptionalInt64Field   == [go |-> "int64",   ops |-> IntField.ops]
OptionalBoolField    == [go |-> "bool",    ops |-> BoolField.ops]
OptionalFloat64Field == [go |-> "float64", ops |-> IntField.ops]
TimeField            == [go |-> "time",    ops |-> IntField.ops]   \* After is >, OnOrBefore is <=, ...
OptionalTimeField    == [go |-> "time",    ops |-> IntField.ops]

FieldTypes == [string |-> StringField, int |-> IntField, int64 |-> Int64Field,
               bool |-> BoolField, float64 |-> Float64Field, time |-> TimeField,
               optional_string |-> OptionalStringField, optional_int |-> OptionalIntField,
               optional_int64 |-> OptionalInt64Field, optional_bool |-> OptionalBoolField,
               optional_float64 |-> OptionalFloat64Field, optional_time |-> OptionalTimeField]

\* Condition{Field, Operator, Value}: Value is nothing, one value or a slice.
Condition(type, f, op, vs) ==
    [k |-> "cond", f |-> f, op |-> op, vs |-> vs,
     list |-> op \in Lists \cup Range2, go |-> type.go]

\* Every condition a field of this type constructs for a column: one value per
\* comparison, the given lists, an interval that is not empty and one that is.
FieldConditions(type, f, v, lists) ==
    {Condition(type, f, op, <<>>) : op \in type.ops \cap Nullness}
    \cup {Condition(type, f, op, <<v>>) :
              op \in type.ops \ (Nullness \cup Lists \cup Range2)}
    \cup {Condition(type, f, op, l) : op \in type.ops \cap Lists, l \in lists}
    \cup {Condition(type, f, op, l) : op \in type.ops \cap Range2, l \in {<<0, v>>, <<v, 0>>}}

And(cs) == [k |-> "group", o |-> "AND", cs |-> cs]
Or(cs)  == [k |-> "group", o |-> "OR", cs |-> cs]

\* Not swaps the operators that have an opposite in its switch and returns
\* every other condition as it came.
Opposite == [o \in Equality \cup Nullness \cup Lists |->
                CASE o = "=" -> "!=" [] o = "!=" -> "="
                  [] o = "IS NULL" -> "IS NOT NULL" [] o = "IS NOT NULL" -> "IS NULL"
                  [] o = "IN" -> "NOT IN" [] o = "NOT IN" -> "IN"]
Not(c) == IF c.op \in DOMAIN Opposite THEN [c EXCEPT !.op = Opposite[@]] ELSE c

\* A subquery over the second table: its conditions, which builder makes it,
\* whether Correlate was called (with u.b = t.b), and whether the caller turned
\* the builder into a *Subquery before passing it on.
Subquery(cs, built)             == [cs |-> cs, correlated |-> FALSE, corr |-> FALSE, built |-> built]
CorrelatedSubquery(cs, corr)    == [cs |-> cs, correlated |-> TRUE, corr |-> corr, built |-> TRUE]
InSubquery(f, q)    == [k |-> "sub", f |-> f, op |-> "IN", q |-> q]
NotInSubquery(f, q) == [k |-> "sub", f |-> f, op |-> "NOT IN", q |-> q]
Exists(q)           == [k |-> "exists", neg |-> FALSE, q |-> q]
NotExists(q)        == [k |-> "exists", neg |-> TRUE, q |-> q]

\* The conditions of query/json.go and query/fulltext.go (Contains, HasKey,
\* Match, LikeSearch, ...): SQL of their own, here one test of one column.
RawCondition(f, v) == [k |-> "raw", f |-> f, v |-> v]
---------------------------------------------------------------------------
\* SQL's truth values: a comparison with NULL is unknown.
Truth(b) == IF b THEN "T" ELSE "F"
Not3(t)  == CASE t = "T" -> "F" [] t = "F" -> "T" [] OTHER -> "U"
All3(S)  == IF "F" \in S THEN "F" ELSE IF "U" \in S THEN "U" ELSE "T"
Any3(S)  == IF "T" \in S THEN "T" ELSE IF "U" \in S THEN "U" ELSE "F"

\* A pattern without wildcards matches the value it spells.
Compare(op, x, y) ==
    IF NULL \in {x, y} THEN "U"
    ELSE Truth(CASE op \in {"=", "LIKE"} -> x = y
                 [] op \in {"!=", "NOT LIKE"} -> x # y
                 [] op = ">" -> x > y
                 [] op = ">=" -> x >= y
                 [] op = "<" -> x < y
                 [] op = "<=" -> x <= y)

Member(op, x, S) ==
    LET t == Any3({Compare("=", x, y) : y \in S})
    IN  IF op = "IN" THEN t ELSE Not3(t)

Holds(op, x, vs) ==
    CASE op = "IS NULL" -> Truth(x = NULL)
      [] op = "IS NOT NULL" -> Truth(x # NULL)
      [] op \in Lists -> Member(op, x, {vs[i] : i \in DOMAIN vs})
      [] op = "BETWEEN" -> All3({Compare(">=", x, vs[1]), Compare("<=", x, vs[2])})
      [] OTHER -> Compare(op, x, vs[1])

\* What a condition means on a row, U being the rows of the second table.
RECURSIVE Meaning(_, _, _)
Meaning(c, row, U) ==
    LET Of(cs, r) == {Meaning(cs[i], r, {}) : i \in DOMAIN cs}
        Picked == {u \in U : All3(Of(c.q.cs, u) \cup
                                  IF c.q.corr THEN {Compare("=", u.b, row.b)} ELSE {}) = "T"}
    IN  CASE c.k = "cond" -> Holds(c.op, row[c.f], c.vs)
          [] c.k = "raw" -> Compare("=", row[c.f], c.v)
          [] c.k = "group" -> IF c.o = "AND" THEN All3(Of(c.cs, row)) ELSE Any3(Of(c.cs, row))
          [] c.k = "sub" -> Member(c.op, row[c.f], {u.a : u \in Picked})
          [] c.k = "exists" -> Truth((Picked # {}) # c.neg)
=============================================================================
