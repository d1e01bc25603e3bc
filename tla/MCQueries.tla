----------------------------- MODULE MCQueries -----------------------------
(***************************************************************************)
(* Package query: a statement on a table of five rows, one of them removed,*)
(* with NULLs and all values in column a; and four parts that share no     *)
(* state with it, derived builders, cursor pages, row readers and          *)
(* preloads.  A behaviour runs one of them; the others rest in a state in  *)
(* which they have finished.                                               *)
(***************************************************************************)
EXTENDS Statements, BuilderFamily, Pagination, RowReading, Preloading, TLC

MCRow(id, a, b, del) == [id |-> id, a |-> a, b |-> b, deleted_at |-> del, updated_at |-> 0]
MCRows == {MCRow(1, 0, 1, NULL), MCRow(2, 1, 2, NULL), MCRow(3, 2, 1, NULL),
           MCRow(4, NULL, 2, NULL), MCRow(5, 1, 1, 9)}
MCU    == {MCRow(1, 1, 1, NULL), MCRow(2, 2, 2, NULL), MCRow(3, 0, 1, 9)}

MCPlain(c) == [c |-> c, neg |-> FALSE]
MCb(op, v) == Condition(Int64Field, "b", op, <<v>>)
MCa(op, vs) == Condition(Int64Field, "a", op, vs)
MCSub1 == Subquery(<<MCb("=", 1)>>, TRUE)
MCSub2 == Subquery(<<MCb("=", 1), MCa("<=", <<2>>)>>, TRUE)

\* Every condition of the type first; then, on an int64 column, the rest.
MCTyped(t) == FieldConditions(FieldTypes[t], "a", 1, {<<>>, <<1>>, <<2, 0>>})
MCShapes == {And(<<MCa("=", <<1>>), MCb("=", 1)>>), Or(<<MCa("=", <<2>>), MCb("=", 2)>>),
             Or(<<MCb("=", 2), And(<<MCa(">", <<0>>), MCb("=", 1)>>)>>), And(<<>>),
             InSubquery("a", MCSub1), NotInSubquery("a", MCSub1), InSubquery("a", MCSub2),
             InSubquery("a", Subquery(<<>>, FALSE)),
             Exists(CorrelatedSubquery(<<MCa("=", <<2>>)>>, TRUE)), NotExists(MCSub1),
             Exists(CorrelatedSubquery(<<>>, FALSE)),
             Or(<<MCa("=", <<2>>), InSubquery("a", MCSub1)>>),
             RawCondition("a", 1)}
MCNegated == {MCa("=", <<1>>), MCa("IN", <<1, 2>>), MCa("IS NULL", <<>>), MCa(">", <<1>>)}
MCInputs(t, n) ==
    {MCPlain(c) : c \in (IF n = 1 THEN MCTyped(t) ELSE {MCb("=", 1)})
                        \cup IF t = "int64" THEN MCShapes ELSE {}}
    \cup IF t = "int64" THEN {[c |-> c, neg |-> TRUE] : c \in MCNegated} ELSE {}
MCTypes == DOMAIN FieldTypes
MCKey == 1 :> 1 @@ 2 :> 3 @@ 3 :> 4 @@ 4 :> 4 @@ 5 :> 9

VARIABLE part
mcVars == <<part, vars, familyVars, pageVars, readVars, preVars>>

StatementRest == dialect = "postgres" /\ type = "int64" /\ soft = FALSE /\ builder = NewBuilder
                 /\ asked = <<>> /\ calls = 0 /\ rows = {} /\ out = [Nothing EXCEPT !.op = "end"]
PageRest == present = {} /\ steady = {} /\ walk = "failed" /\ desc = FALSE
            /\ cursor = NoCursor /\ visited = <<>> /\ changes = 0
ReadRest == reader = EachReader /\ table = <<>> /\ pos = 0 /\ got = <<>> /\ errors = 0 /\ state = "closed"
PreRest  == /\ owners = [k \in Kinds |-> {}] /\ items = <<>> /\ links = {} /\ relation = "has_many"
            /\ named = TRUE /\ registered = TRUE /\ results = {} /\ wanted = {} /\ read = {}
            /\ whole = {} /\ broke = FALSE /\ loaded = <<>> /\ phase = "failed" /\ moves = 0

MCInit ==
    \/ part = "statements" /\ Init /\ FamilyInit /\ PageRest /\ ReadRest /\ PreRest
    \/ part = "family" /\ StatementRest /\ FamilyInit /\ PageRest /\ ReadRest /\ PreRest
    \/ part = "pages" /\ StatementRest /\ FamilyInit /\ PageInit /\ ReadRest /\ PreRest
    \/ part = "rows" /\ StatementRest /\ FamilyInit /\ PageRest /\ ReadInit /\ PreRest
    \/ part = "preloads" /\ StatementRest /\ FamilyInit /\ PageRest /\ ReadRest /\ PreInit

MCNext ==
    /\ UNCHANGED part
    /\ \/ part = "statements" /\ Next /\ UNCHANGED <<familyVars, pageVars, readVars, preVars>>
       \/ part = "family" /\ FamilyNext /\ UNCHANGED <<vars, pageVars, readVars, preVars>>
       \/ part = "pages" /\ PageNext /\ UNCHANGED <<vars, familyVars, readVars, preVars>>
       \/ part = "rows" /\ ReadNext /\ UNCHANGED <<vars, familyVars, pageVars, preVars>>
       \/ part = "preloads" /\ PreNext /\ UNCHANGED <<vars, familyVars, pageVars, readVars>>

MCSpec == MCInit /\ [][MCNext]_mcVars
=============================================================================
