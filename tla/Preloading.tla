---------------------------- MODULE Preloading ----------------------------
(***************************************************************************)
(* Find with Preload (query/preload.go): the rows are read first, then     *)
(* each relation is loaded with a query of its own and its rows are handed *)
(* out to the results in memory.  Other clients change the tables between  *)
(* the queries, and a query may break off in the middle of its rows.       *)
(***************************************************************************)
EXTENDS Integers, FiniteSets, FiniteSetsExt

CONSTANTS Owners, Items,      \* ids of the two tables
          Kinds,              \* tables a polymorphic item may belong to
          MaxMoves
ASSUME PreloadingAssumption ==
    /\ Owners \cup Items \subseteq Nat \ {0} /\ MaxMoves \in Nat

VARIABLES
    owners,     \* rows of each owner table: kind -> ids
    items,      \* item -> [kind, owner], owner 0 for none (foreign key or type and id)
    links,      \* the join table of a many-to-many relation
    relation,   \* the relation preloaded
    named,      \* the Go field of the foreign key is called toPascalCase(key)
    registered, \* RegisterModel was called for the model
    results,    \* what Find read: owner ids, or items with their key
    wanted,     \* kinds still to be queried (one query, or one for each type)
    read,       \* relation rows read so far: [of, row]
    whole,      \* the relation rows there were when they were queried (ghost)
    broke,      \* a query broke off
    loaded,     \* result -> set of rows assigned
    phase, moves
preVars == <<owners, items, links, relation, named, registered, results, wanted, read, whole, broke, loaded, phase, moves>>

\* The relation, seen from the rows Find returned.
ToMany == {"has_many", "many_to_many", "has_polymorphic"}
ToOne  == {"belongs_to", "polymorphic"}
Mine == CHOOSE k \in Kinds : TRUE      \* the table of the model being queried

PreInit ==
    /\ owners = [k \in Kinds |-> Owners]
    /\ items \in [Items -> [kind : Kinds, owner : Owners \cup {0}]]
    /\ links \in {{}, Owners \X Items, {l \in Owners \X Items : (l[1] + l[2]) % 2 = 0}}
    /\ relation \in ToMany \cup ToOne
    /\ links # {} => relation = "many_to_many"
    /\ named \in BOOLEAN /\ registered \in BOOLEAN
    /\ results = {} /\ wanted = {} /\ read = {} /\ whole = {} /\ broke = FALSE
    /\ loaded = <<>>
    /\ phase = "new" /\ moves = 0

\* The keys a to-one relation can ask for: above 0, each once, grouped by type.
KeyOf(i) == [kind |-> IF relation = "polymorphic" THEN items[i].kind ELSE Mine, owner |-> items[i].owner]
\* Find itself, and the registry lookup of executePreload: nothing registered is
\* an error, and so is an unknown relation; an empty result needs no preload.
FindRows ==
    /\ phase = "new"
    /\ LET found == IF relation \in ToMany THEN {[id |-> o, key |-> [kind |-> Mine, owner |-> o]] : o \in owners[Mine]}
                    ELSE {[id |-> i, key |-> KeyOf(i)] : i \in Items}
           asked == {f \in found : relation \in ToMany \/ (named /\ f.key.owner > 0)}
       IN  /\ results' = found
           /\ loaded' = [f \in found |-> {}]
           /\ wanted' = {f.key.kind : f \in asked}
           /\ phase' = IF found = {} THEN "done" ELSE IF ~registered THEN "failed"
                       ELSE IF asked = {} THEN "done" ELSE "query"
    /\ UNCHANGED <<owners, items, links, relation, named, registered, read, whole, broke, moves>>

RegisterModel ==
    /\ ~registered /\ phase = "new"
    /\ registered' = TRUE
    /\ UNCHANGED <<owners, items, links, relation, named, results, wanted, read, whole, broke, loaded, phase, moves>>

\* The rows each relation's query matches: [of |-> the key it goes to, row].
hasManyRows(k)     == {[of |-> [kind |-> k, owner |-> items[i].owner], row |-> i] :
                          i \in {j \in Items : \E f \in results : f.id = items[j].owner}}
belongsToRows(k)   == {[of |-> [kind |-> k, owner |-> o], row |-> o] :
                          o \in owners[k] \cap {f.key.owner : f \in results}}
manyToManyRows(k)  == {[of |-> [kind |-> k, owner |-> l[1]], row |-> l[2]] :
                          l \in {m \in links : \E f \in results : f.id = m[1]}}
\* Mutant: the rows of another table with the same id count too.
MutHasPolymorphicRows(k) ==
                      {[of |-> [kind |-> k, owner |-> items[i].owner], row |-> i] :
                          i \in {j \in Items : \E f \in results : f.id = items[j].owner}}
hasPolymorphicRows(k) ==
                      {[of |-> [kind |-> k, owner |-> items[i].owner], row |-> i] :
                          i \in {j \in Items : items[j].kind = k /\ \E f \in results : f.id = items[j].owner}}
polymorphicRows(k) == {[of |-> [kind |-> k, owner |-> o], row |-> o] :
                          o \in owners[k] \cap {f.key.owner : f \in {g \in results : g.key.kind = k}}}
RelationRows(k) ==
    CASE relation = "has_many" -> hasManyRows(k)
      [] relation = "belongs_to" -> belongsToRows(k)
      [] relation = "many_to_many" -> manyToManyRows(k)
      [] relation = "has_polymorphic" -> hasPolymorphicRows(k)
      [] relation = "polymorphic" -> polymorphicRows(k)

\* One query (for a polymorphic to-one, the next type of the map).  It may fail,
\* or break off after some rows: only many_to_many and the polymorphic has-many
\* look at rows.Err().  A foreign key field that is not found is an error of
\* has_many once there is a row, and skips the rows of has_polymorphic.
ChecksErr == relation \in {"many_to_many", "has_polymorphic"}
QueryRelation(k, some) ==
    /\ phase = "query" /\ k \in wanted
    /\ LET rows == RelationRows(k)
           cut == some # rows
           mine == IF relation = "has_polymorphic" /\ ~named THEN {} ELSE some
       IN  /\ some \subseteq rows
           /\ whole' = whole \cup rows
           /\ read' = read \cup mine
           /\ broke' = (broke \/ cut)
           /\ wanted' = wanted \ {k}
           /\ phase' = IF (cut /\ ChecksErr) \/ (relation = "has_many" /\ ~named /\ some # {}) THEN "failed"
                       ELSE IF wanted = {k} THEN "assign" ELSE phase
    /\ UNCHANGED <<owners, items, links, relation, named, registered, results, loaded, moves>>
QueryError ==
    /\ phase = "query"
    /\ phase' = "failed"
    /\ UNCHANGED <<owners, items, links, relation, named, registered, results, wanted, read, whole, broke, loaded, moves>>

\* The rows are grouped by their key and assigned to the results.
Assign ==
    /\ phase = "assign"
    /\ loaded' = [f \in results |-> {r.row : r \in {s \in read : s.of = f.key}}]
    /\ phase' = "done"
    /\ UNCHANGED <<owners, items, links, relation, named, registered, results, wanted, read, whole, broke, moves>>

\* Other clients: an item changes its owner, an owner is deleted.
Elsewhere ==
    /\ moves < MaxMoves /\ phase \in {"query", "assign"}
    /\ moves' = moves + 1
    /\ \/ /\ \E i \in Items, k \in Kinds, o \in Owners \cup {0} : items' = [items EXCEPT ![i] = [kind |-> k, owner |-> o]]
          /\ UNCHANGED owners
       \/ /\ \E k \in Kinds, o \in Owners : o \in owners[k] /\ owners' = [owners EXCEPT ![k] = @ \ {o}]
          /\ UNCHANGED items
    /\ UNCHANGED <<links, relation, named, registered, results, wanted, read, whole, broke, loaded, phase>>

PreNext ==
    \/ FindRows \/ RegisterModel
    \/ phase = "query" /\ \E k \in wanted : \E some \in SUBSET RelationRows(k) : QueryRelation(k, some)
    \/ QueryError \/ Assign \/ Elsewhere
PreSpec == PreInit /\ [][PreNext]_preVars

\* A Find with Preload that returns has given each result exactly the related
\* rows of its own key (and, for a polymorphic relation, of its own type) that
\* were there when the relation was queried: nobody's rows end up with somebody
\* else, however the tables changed in between; only a query cut off in a
\* relation that does not look at rows.Err(), or a key field with another name,
\* leaves rows out (preload.go).
PreloadsOwnRows ==
    phase = "done" =>
       /\ \A f \in results :
             /\ loaded[f] \subseteq {r.row : r \in {s \in whole : s.of = f.key}}
             /\ (named \/ relation = "many_to_many") /\ ~broke =>
                   loaded[f] = {r.row : r \in {s \in whole : s.of = f.key}}
             /\ relation = "has_polymorphic" /\ moves = 0 =>
                   \A i \in loaded[f] : items[i] = f.key
             /\ relation \in ToOne => Cardinality(loaded[f]) <= 1 /\ loaded[f] \subseteq {f.key.owner}
       /\ broke => ~ChecksErr
=============================================================================
