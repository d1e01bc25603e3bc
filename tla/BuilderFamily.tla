--------------------------- MODULE BuilderFamily ---------------------------
(***************************************************************************)
(* Builders that share a past.  Every method of Builder and of             *)
(* AggregateBuilder clones its receiver and appends to a slice of the      *)
(* clone; goroutines may do so to the same receiver at once.  Slices are   *)
(* modelled as Go has them: a backing array, a length and a capacity, and  *)
(* an append that writes in place when the capacity allows it.             *)
(***************************************************************************)
EXTENDS Integers, Sequences, SequencesExt

CONSTANTS Threads, MaxBuilders,   \* goroutines; bound on builders ever made
          Fields                  \* conditions, orderBy, selectCols, joins, ...
ASSUME BuilderFamilyAssumption ==
    "conditions" \in Fields /\ IsFiniteSet(Fields) /\ MaxBuilders \in Nat

VARIABLES
    arrays,    \* backing arrays, by number: a sequence as long as the capacity
    family,    \* builders made so far: field -> slice, and what kind it is
    chained,   \* per builder, field -> the values its chain of calls appended
    doing      \* per goroutine, the clone it has made and not yet appended to

familyVars == <<arrays, family, chained, doing>>

NilSlice == [arr |-> 0, len |-> 0]
Cap(s) == IF s.arr = 0 THEN 0 ELSE Len(arrays[s.arr])
Contents(s) == IF s.len = 0 THEN <<>> ELSE SubSeq(arrays[s.arr], 1, s.len)
Idle == [src |-> 0]

FamilyInit ==
    /\ arrays = <<>>
    /\ family = <<[kind |-> "builder", lists |-> [f \in Fields |-> NilSlice]]>>
    /\ chained = <<[f \in Fields |-> <<>>]>>
    /\ doing = [t \in Threads |-> Idle]

\* Mutant: the clone takes over the slice headers.
MutCopiedFields(b) == {}
\* clone: every slice that is not empty is copied to an array of its own length.
CopiedFields(b) == {f \in Fields : family[b].lists[f].len > 0}
CloneLists(b) ==
    LET fs == SetToSeq(CopiedFields(b))
        new == [i \in DOMAIN fs |-> Contents(family[b].lists[fs[i]])]
    IN  [arrays |-> arrays \o new,
         lists |-> [f \in Fields |->
                      IF f \in CopiedFields(b)
                      THEN [arr |-> Len(arrays) + (CHOOSE i \in DOMAIN fs : fs[i] = f),
                            len |-> family[b].lists[f].len]
                      ELSE family[b].lists[f]]]

\* A method is called on builder b: the clone exists, nothing is appended yet.
Clone(t, b, f) ==
    /\ doing[t] = Idle
    /\ LET c == CloneLists(b)
       IN  /\ arrays' = c.arrays
           /\ doing' = [doing EXCEPT ![t] =
                           [src |-> b, field |-> f, lists |-> c.lists]]
    /\ UNCHANGED <<family, chained>>

\* append: in place while the capacity lasts, else to an array twice as long.
Grown(s, v) ==
    IF s.len < Cap(s)
    THEN [arrays |-> [arrays EXCEPT ![s.arr][s.len + 1] = v],
          slice |-> [s EXCEPT !.len = @ + 1]]
    ELSE LET cap == IF s.len = 0 THEN 1 ELSE 2 * s.len
         IN  [arrays |-> Append(arrays, [i \in 1..cap |->
                            IF i <= s.len THEN arrays[s.arr][i] ELSE IF i = s.len + 1 THEN v ELSE 0]),
              slice |-> [arr |-> Len(arrays) + 1, len |-> s.len + 1]]

\* The method returns the clone: a new builder of the family.
Appended(t) ==
    /\ doing[t] # Idle
    /\ Len(family) < MaxBuilders
    /\ LET d == doing[t]
           v == Len(family)
           g == Grown(d.lists[d.field], v)
       IN  /\ arrays' = g.arrays
           /\ family' = Append(family, [kind |-> family[d.src].kind,
                                        lists |-> [d.lists EXCEPT ![d.field] = g.slice]])
           /\ chained' = Append(chained, [chained[d.src] EXCEPT ![d.field] = Append(@, v)])
    /\ doing' = [doing EXCEPT ![t] = Idle]

\* Aggregate() takes the conditions slice as it is; its own methods clone.
Aggregate(b) ==
    /\ family[b].kind = "builder"
    /\ Len(family) < MaxBuilders
    /\ family' = Append(family, [kind |-> "aggregate",
                                 lists |-> [f \in Fields |-> IF f = "conditions" THEN family[b].lists[f]
                                                             ELSE NilSlice]])
    /\ chained' = Append(chained, [f \in Fields |-> IF f = "conditions" THEN chained[b][f] ELSE <<>>])
    /\ UNCHANGED <<arrays, doing>>

FamilyNext ==
    \/ \E t \in Threads : \/ \E b \in 1..Len(family), f \in Fields : Clone(t, b, f)
                          \/ Appended(t)
    \/ \E b \in 1..Len(family) : Aggregate(b)

FamilySpec == FamilyInit /\ [][FamilyNext]_familyVars

\* However builders are derived from one another, by however many goroutines,
\* each holds what its own chain of calls appended, in order, and nothing of its
\* siblings: "IMUTÁVEL: Retorna um novo builder sem modificar o original"
\* (builder.go Where and the other methods, aggregation.go Aggregate).
BuildersKeepTheirCalls ==
    \A b \in 1..Len(family), f \in Fields : Contents(family[b].lists[f]) = chained[b][f]
=============================================================================
