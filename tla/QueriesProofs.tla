--------------------------- MODULE QueriesProofs ---------------------------
(***************************************************************************)
(* Theorems about derived builders, row readers, preloads, the watchers of *)
(* statements and cursor pages, for any number of goroutines, builders,    *)
(* rows and clients.                                                       *)
(***************************************************************************)
EXTENDS BuilderFamily, RowReading, Preloading, QueryWatch, Pagination, SequenceTheorems, FiniteSetTheorems, TLAPS

-----------------------------------------------------------------------------
\* A reader that goes on after a bad row tells the caller of it, and one that
\* tells of errors looks at rows.Err().
LEMMA ReaderKinds ==
  \A r \in Readers : /\ (r.goesOn => r.tells) /\ (r.tells => r.checksErr)
                     /\ r.partial = TRUE \/ r.partial = FALSE
BY DEF Readers, Reader, FindReader, EachReader, Each2Reader, FastFindReader, FastEachReader,
       FastEach2Reader, UltraFindReader, UltraEachReader, UltraEach2Reader, PreparedExecReader,
       AggregateAllReader

\* What was delivered lies below the place in the result; without a bad row it is
\* everything below it.
ReadInv ==
  /\ reader \in Readers /\ table \in Seq({"fine", "null", "hook"})
  /\ pos \in 0 .. Len(table) /\ errors \in Nat /\ got \in Seq(Nat)
  /\ state \in {"new", "open", "stopped", "left", "closed"}
  /\ \A i \in DOMAIN got :
       got[i] \in 1 .. pos /\ Good(table[got[i]]) /\ (i > 1 => got[i - 1] < got[i])
  /\ state # "closed" /\ (~reader.goesOn \/ errors = 0) => got = [i \in 1 .. pos |-> i]
  /\ state = "closed" /\ ~reader.goesOn => got = [i \in 1 .. Len(got) |-> i]
  /\ state = "closed" /\ errors = 0 /\ reader.tells => got = [i \in DOMAIN table |-> i]

\* A list of positions 1, 2, ..., is as long as the last of them.
LEMMA UpToLength ==
  ASSUME NEW s \in Seq(Nat), NEW n \in Nat, s = [i \in 1 .. n |-> i]
  PROVE  Len(s) = n /\ s = [i \in 1 .. Len(s) |-> i]
<1>1. DOMAIN s = 1 .. n /\ DOMAIN s = 1 .. Len(s) /\ Len(s) \in Nat
    OBVIOUS
<1>2. Len(s) = n
    BY <1>1
<1> QED BY <1>2

\* One more position at the end of such a list.
LEMMA OneMore ==
  ASSUME NEW s \in Seq(Nat), NEW n \in Nat, s = [i \in 1 .. n |-> i]
  PROVE  Append(s, n + 1) = [i \in 1 .. n + 1 |-> i]
<1>1. Len(s) = n
    BY UpToLength
<1> DEFINE t == Append(s, n + 1)
<1>2. t \in Seq(Nat) /\ Len(t) = n + 1 /\ t[n + 1] = n + 1 /\ \A i \in 1 .. n : t[i] = s[i]
    BY <1>1
<1>3. DOMAIN t = 1 .. n + 1 /\ \A i \in 1 .. n + 1 : t[i] = i
    BY <1>2
<1>4. t = [i \in DOMAIN t |-> t[i]]
    BY <1>2
<1> HIDE DEF t
<1>5. t = [i \in 1 .. n + 1 |-> i]
    BY <1>3, <1>4
<1> QED BY <1>5 DEF t

\* What is delivered stays good and in order when a later good row follows.
LEMMA InOrder ==
  ASSUME NEW s \in Seq(Nat), NEW n \in Nat, NEW G,
         \A i \in DOMAIN s : s[i] \in 1 .. n /\ s[i] \in G /\ (i > 1 => s[i - 1] < s[i]),
         n + 1 \in G,
         NEW t, t = Append(s, n + 1),
         NEW j \in DOMAIN t
  PROVE  t[j] \in 1 .. n + 1 /\ t[j] \in G /\ (j > 1 => t[j - 1] < t[j])
<1>1. /\ t \in Seq(Nat) /\ Len(t) = Len(s) + 1 /\ t[Len(s) + 1] = n + 1
      /\ \A i \in 1 .. Len(s) : t[i] = s[i]
      /\ Len(s) \in Nat /\ DOMAIN s = 1 .. Len(s) /\ DOMAIN t = 1 .. Len(s) + 1
    OBVIOUS
<1>2. CASE j \in 1 .. Len(s)
    <2>1. t[j] = s[j] /\ (j > 1 => j - 1 \in 1 .. Len(s))
        BY <1>1, <1>2
    <2>2. j > 1 => t[j - 1] = s[j - 1]
        BY <1>1, <2>1
    <2>3. s[j] \in 1 .. n /\ s[j] \in G /\ (j > 1 => s[j - 1] < s[j])
        BY <1>1, <1>2
    <2>4. j > 1 => t[j - 1] < t[j]
        BY <2>1, <2>2, <2>3
    <2>5. t[j] \in 1 .. n + 1 /\ t[j] \in G
        BY ONLY <2>1, <2>3, n \in Nat
    <2> QED BY ONLY <2>4, <2>5
<1>3. CASE j = Len(s) + 1
    <2>1. t[j] = n + 1 /\ n + 1 \in 1 .. n + 1
        BY <1>1, <1>3
    <2>2. ASSUME j > 1 PROVE t[j - 1] < t[j]
        <3>1. j - 1 = Len(s) /\ j - 1 \in 1 .. Len(s) /\ j - 1 \in DOMAIN s
            BY <1>1, <1>3, <2>2
        <3>2. t[j - 1] = s[j - 1]
            BY <1>1, <3>1
        <3>3. s[j - 1] \in 1 .. n
            BY <3>1
        <3> QED BY ONLY <2>1, <3>2, <3>3, n \in Nat
    <2> QED BY <2>1, <2>2
<1>4. j \in 1 .. Len(s) + 1 /\ Len(s) \in Nat
    BY <1>1
<1>5. j \in 1 .. Len(s) \/ j = Len(s) + 1
    BY ONLY <1>4
<1> QED BY <1>2, <1>3, <1>5

LEMMA ReadStep ==
  ASSUME ReadInv, [ReadNext]_readVars
  PROVE  ReadInv'
<1>1. CASE UNCHANGED readVars
    BY <1>1 DEF readVars, ReadInv, Good
<1>2. CASE QueryRuns \/ Leave
    BY <1>2 DEF QueryRuns, Leave, ReadInv, Good
\* The reader returns.
<1>3. ASSUME NEW n \in {0, 1}, NEW keep \in BOOLEAN, Return(n, keep), state # "closed",
             n = 0 => pos = Len(table) \/ ~reader.tells,
             keep \/ n = 1
      PROVE  ReadInv'
    <2>1. /\ reader' = reader /\ table' = table /\ pos' = pos /\ state' = "closed"
          /\ errors' = errors + (IF reader.tells THEN n ELSE 0)
          /\ got' = got \/ got' = << >>
          /\ keep => got' = got
        BY <1>3 DEF Return, Tell
    <2>2. \A i \in DOMAIN got :
            got[i] \in 1 .. pos /\ Good(table[got[i]]) /\ (i > 1 => got[i - 1] < got[i])
        BY DEF ReadInv
    <2>3. (\A i \in DOMAIN got :
            got[i] \in 1 .. pos /\ Good(table[got[i]]) /\ (i > 1 => got[i - 1] < got[i]))'
        BY <2>1, <2>2 DEF Good
    <2>4. /\ ~reader.goesOn \/ errors = 0 => got = [i \in 1 .. pos |-> i]
          /\ got \in Seq(Nat) /\ errors \in Nat /\ pos \in Nat /\ Len(table) \in Nat
          /\ table \in Seq({"fine", "null", "hook"})
        BY <1>3 DEF ReadInv
    <2>5. ~reader.goesOn => got' = [i \in 1 .. Len(got') |-> i]
        <3>1. CASE got' = << >>
            BY <3>1
        <3>2. CASE got' = got /\ ~reader.goesOn
            BY <2>4, <3>2, UpToLength
        <3> QED BY <2>1, <3>1, <3>2
    <2>6. errors' = 0 /\ reader.tells => got' = [i \in DOMAIN table |-> i]
        <3> SUFFICES ASSUME errors' = 0, reader.tells PROVE got' = [i \in DOMAIN table |-> i]
            OBVIOUS
        <3>1. n = 0 /\ errors = 0
            BY <1>3, <2>1, <2>4
        <3>2. got' = got /\ pos = Len(table)
            BY <1>3, <2>1, <3>1
        <3>3. DOMAIN table = 1 .. pos
            BY <2>4, <3>2
        <3> QED BY <2>4, <3>1, <3>2, <3>3
    <2>7. errors' \in Nat /\ got' \in Seq(Nat)
        <3>1. n \in Nat /\ (IF reader.tells THEN n ELSE 0) \in Nat
            BY <1>3
        <3>2. << >> \in Seq(Nat) /\ got \in Seq(Nat) /\ errors \in Nat
            BY <2>4
        <3>3. errors + (IF reader.tells THEN n ELSE 0) \in Nat
            BY ONLY <3>1, <3>2
        <3> QED BY ONLY <2>1, <3>2, <3>3
    <2>8. reader' \in Readers /\ pos' \in 0 .. Len(table') /\ table' \in Seq({"fine", "null", "hook"})
        BY <2>1 DEF ReadInv
    <2> QED BY <2>1, <2>3, <2>5, <2>6, <2>7, <2>8 DEF ReadInv
<1>4. CASE QueryFails
    <2>1. state # "closed" /\ 1 \in {0, 1} /\ 1 # 0
        BY <1>4 DEF QueryFails
    <2> QED BY <1>3, <1>4, <2>1, Zenon DEF QueryFails
<1>5. CASE End
    BY <1>3, <1>5 DEF End
<1>6. CASE ConnectionBreaks
    <2>1. reader \in Readers
        BY DEF ReadInv
    <2>2. reader.tells => reader.checksErr
        BY <2>1, ReaderKinds
    <2>3. reader.partial \in BOOLEAN
        BY <2>1, ReaderKinds
    <2>4. state # "closed"
        BY <1>6 DEF ConnectionBreaks
    <2>5. CASE reader.checksErr
        BY <1>3, <1>6, <2>3, <2>4, <2>5 DEF ConnectionBreaks
    <2>6. CASE ~reader.checksErr
        BY <1>3, <1>6, <2>2, <2>4, <2>6 DEF ConnectionBreaks
    <2> QED BY <2>5, <2>6
<1>7. ASSUME NEW stop \in BOOLEAN, Row(stop) PROVE ReadInv'
    <2>1. /\ pos + 1 \in 1 .. Len(table) /\ state = "open"
          /\ pos \in Nat /\ got \in Seq(Nat) /\ errors \in Nat
        BY <1>7 DEF Row, ReadInv
    <2>2. ASSUME Good(table[pos + 1]), pos' = pos + 1, got' = Append(got, pos + 1),
                 state' = (IF stop THEN "stopped" ELSE state), UNCHANGED <<reader, table, errors>>
          PROVE  ReadInv'
        <3> DEFINE G == {p \in Nat : Good(table[p])}
        <3>1. \A i \in DOMAIN got : got[i] \in 1 .. pos /\ got[i] \in G /\ (i > 1 => got[i - 1] < got[i])
            BY DEF ReadInv
        <3>2. pos + 1 \in G
            BY <2>1, <2>2
        <3> HIDE DEF G
        <3>3. \A i \in DOMAIN got' : got'[i] \in 1 .. pos + 1 /\ got'[i] \in G /\ (i > 1 => got'[i - 1] < got'[i])
            BY <2>1, <2>2, <3>1, <3>2, InOrder
        <3>4. (\A i \in DOMAIN got :
                got[i] \in 1 .. pos /\ Good(table[got[i]]) /\ (i > 1 => got[i - 1] < got[i]))'
            BY <2>2, <3>3 DEF G, Good
        <3>5. ~reader.goesOn \/ errors = 0 => got' = [i \in 1 .. pos' |-> i]
            <4>1. ~reader.goesOn \/ errors = 0 => got = [i \in 1 .. pos |-> i]
                BY <2>1 DEF ReadInv
            <4> QED BY <2>1, <2>2, <4>1, OneMore
        <3>6. got' \in Seq(Nat)
            BY <2>1, <2>2
        <3>7. /\ reader' \in Readers /\ table' \in Seq({"fine", "null", "hook"}) /\ errors' \in Nat
              /\ pos' \in 0 .. Len(table') /\ state' \in {"stopped", "open"}
            BY <2>1, <2>2 DEF ReadInv
        <3> QED BY <2>2, <3>4, <3>5, <3>6, <3>7 DEF ReadInv
    <2>3. ASSUME reader.goesOn, pos' = pos + 1, Tell(1),
                 state' = (IF stop THEN "stopped" ELSE state), UNCHANGED <<reader, table, got>>
          PROVE  ReadInv'
        <3>1. reader.tells
            BY <2>3, ReaderKinds DEF ReadInv
        <3>2. errors' = errors + 1
            BY <2>3, <3>1 DEF Tell
        <3>3. \A i \in DOMAIN got :
                got[i] \in 1 .. pos /\ Good(table[got[i]]) /\ (i > 1 => got[i - 1] < got[i])
            BY DEF ReadInv
        <3>4. (\A i \in DOMAIN got :
                got[i] \in 1 .. pos /\ Good(table[got[i]]) /\ (i > 1 => got[i - 1] < got[i]))'
            BY <2>1, <2>3, <3>3 DEF Good
        <3>5. errors' \in Nat /\ errors' # 0
            BY <2>1, <3>2
        <3>6. /\ reader' \in Readers /\ table' \in Seq({"fine", "null", "hook"}) /\ got' \in Seq(Nat)
              /\ pos' \in 0 .. Len(table') /\ state' \in {"stopped", "open"} /\ reader'.goesOn
            BY <2>1, <2>3 DEF ReadInv
        <3> QED BY <3>4, <3>5, <3>6 DEF ReadInv
    <2>4. CASE Return(1, FALSE)
        <3>1. state # "closed" /\ 1 \in {0, 1} /\ 1 # 0
            BY <2>1
        <3> QED BY <1>3, <2>4, <3>1, Zenon
    <2> QED BY <1>7, <2>2, <2>3, <2>4 DEF Row
<1> QED BY <1>1, <1>2, <1>4, <1>5, <1>6, <1>7 DEF ReadNext

\* A reader that tells of no error has delivered every row, and none delivers a
\* bad row, a row twice or rows out of order, for results of any length.
THEOREM RowsAreDelivered == ReadSpec => []NoRowLostSilently
<1>1. ReadInit => ReadInv
    <2> SUFFICES ASSUME ReadInit PROVE ReadInv
        OBVIOUS
    <2>1. table \in Seq({"fine", "null", "hook"})
        BY RowReadingAssumption, SeqDef DEF ReadInit
    <2>2. << >> = [i \in 1 .. 0 |-> i]
        OBVIOUS
    <2> QED BY <2>1, <2>2 DEF ReadInit, ReadInv
<1>2. ReadInv => NoRowLostSilently
    <2> SUFFICES ASSUME ReadInv, ~reader.goesOn PROVE got = [i \in 1 .. Len(got) |-> i]
        BY DEF ReadInv, NoRowLostSilently
    <2>1. CASE state # "closed"
        <3>1. got = [i \in 1 .. pos |-> i] /\ got \in Seq(Nat) /\ pos \in Nat
            BY <2>1 DEF ReadInv
        <3> QED BY <3>1, UpToLength
    <2> QED BY <2>1 DEF ReadInv
<1> QED BY <1>1, <1>2, ReadStep, PTL DEF ReadSpec

-----------------------------------------------------------------------------
\* What was read are rows there were, all of them if nothing broke off; each goes
\* to the key it belongs to.
ReadFrom ==
  /\ items \in [Items -> [kind : Kinds, owner : Owners \cup {0}]] /\ moves \in Nat
  /\ read \subseteq whole
  /\ phase = "new" => whole = {} /\ read = {} /\ ~broke
  /\ phase \in {"query", "assign"} =>
       /\ ~broke /\ (named \/ relation # "has_polymorphic") => read = whole
       /\ broke => ~ChecksErr
  /\ relation = "has_polymorphic" /\ moves = 0 => \A r \in read : items[r.row] = r.of
  /\ relation \in ToOne => \A r \in whole : r.row = r.of.owner

PreInv == ReadFrom /\ PreloadsOwnRows

\* The rows a query returns go to keys of its kind: those of a to-one relation to
\* the key they are found by, those of a polymorphic has-many to their own.
LEMMA RowsGoHome ==
  ASSUME ReadFrom, NEW k, NEW r \in RelationRows(k), relation \in ToMany \cup ToOne
  PROVE  /\ relation \in ToOne => r.row = r.of.owner
         /\ relation = "has_polymorphic" => items[r.row] = r.of
<1>1. CASE relation = "has_many" \/ relation = "many_to_many"
    BY <1>1 DEF ToOne
<1>2. CASE relation = "belongs_to"
    <2>1. r \in belongsToRows(k)
        BY <1>2 DEF RelationRows
    <2> QED BY <1>2, <2>1 DEF belongsToRows
<1>3. CASE relation = "polymorphic"
    <2>1. r \in polymorphicRows(k)
        BY <1>3 DEF RelationRows
    <2> QED BY <1>3, <2>1 DEF polymorphicRows
<1>4. CASE relation = "has_polymorphic"
    <2>1. r \in hasPolymorphicRows(k)
        BY <1>4 DEF RelationRows
    <2>2. PICK i \in Items : /\ items[i].kind = k
                             /\ r = [of |-> [kind |-> k, owner |-> items[i].owner], row |-> i]
        BY <2>1 DEF hasPolymorphicRows
    <2>3. items[i] = [kind |-> items[i].kind, owner |-> items[i].owner]
        BY DEF ReadFrom
    <2> QED BY <1>4, <2>2, <2>3 DEF ToOne
<1> QED BY <1>1, <1>2, <1>3, <1>4 DEF ToMany, ToOne

LEMMA PreStep ==
  ASSUME PreInv, relation \in ToMany \cup ToOne, [PreNext]_preVars
  PROVE  PreInv'
<1> USE DEF PreInv
<1>1. CASE UNCHANGED preVars
    BY <1>1 DEF preVars, ReadFrom, PreloadsOwnRows, ChecksErr
<1>2. CASE FindRows
    <2>1. whole = {} /\ read = {} /\ ~broke /\ phase = "new"
        BY <1>2 DEF FindRows, ReadFrom
    <2>2. PICK found : /\ results' = found /\ loaded' = [f \in found |-> {}]
                       /\ phase' \in {"done", "failed", "query"}
                       /\ UNCHANGED <<items, relation, named, read, whole, broke, moves>>
        BY <1>2 DEF FindRows
    <2>3. ReadFrom'
        BY <2>1, <2>2 DEF ReadFrom, ChecksErr
    <2>4. PreloadsOwnRows'
        <3>1. Cardinality({}) = 0
            BY FS_EmptySet
        <3>2. \A f \in results' : loaded'[f] = {}
            BY <2>2
        <3>3. \A f \in results' : {r.row : r \in {s \in whole' : s.of = f.key}} = {}
            BY <2>1, <2>2
        <3>4. ~broke'
            BY <2>1, <2>2
        <3> QED BY <3>1, <3>2, <3>3, <3>4 DEF PreloadsOwnRows
    <2> QED BY <2>3, <2>4
<1>3. CASE RegisterModel
    BY <1>3 DEF RegisterModel, ReadFrom, PreloadsOwnRows, ChecksErr
<1>4. ASSUME NEW k \in wanted, NEW some \in SUBSET RelationRows(k), QueryRelation(k, some)
      PROVE  PreInv'
    <2> DEFINE rows == RelationRows(k)
               mine == IF relation = "has_polymorphic" /\ ~named THEN {} ELSE some
    <2>1. /\ whole' = whole \cup rows /\ read' = read \cup mine /\ broke' = (broke \/ some # rows)
          /\ phase = "query" /\ phase' \in {"failed", "assign", "query"}
          /\ some # rows /\ ChecksErr => phase' = "failed"
          /\ UNCHANGED <<items, relation, named, moves>>
        BY <1>4 DEF QueryRelation
    <2>2. mine \subseteq rows
        OBVIOUS
    <2>3. \A r \in rows : /\ relation \in ToOne => r.row = r.of.owner
                          /\ relation = "has_polymorphic" => items[r.row] = r.of
        BY RowsGoHome DEF PreInv
    <2>4. some = rows /\ (named \/ relation # "has_polymorphic") => mine = rows
        OBVIOUS
    <2> HIDE DEF rows, mine
    <2>5. ReadFrom'
        <3>1. read' \subseteq whole'
            BY <2>1, <2>2 DEF ReadFrom
        <3>2. phase' \in {"query", "assign"} =>
                /\ ~broke' /\ (named' \/ relation' # "has_polymorphic") => read' = whole'
                /\ broke' => ~ChecksErr'
            BY <2>1, <2>4 DEF ReadFrom, ChecksErr
        <3>3. relation' = "has_polymorphic" /\ moves' = 0 => \A r \in read' : items'[r.row] = r.of
            BY <2>1, <2>2, <2>3 DEF ReadFrom
        <3>4. relation' \in ToOne => \A r \in whole' : r.row = r.of.owner
            BY <2>1, <2>3 DEF ReadFrom
        <3>5. items' \in [Items -> [kind : Kinds, owner : Owners \cup {0}]] /\ moves' \in Nat /\ phase' # "new"
            BY <2>1 DEF ReadFrom
        <3> QED BY <3>1, <3>2, <3>3, <3>4, <3>5 DEF ReadFrom
    <2>6. PreloadsOwnRows'
        BY <2>1 DEF PreloadsOwnRows
    <2> QED BY <2>5, <2>6
<1>5. CASE QueryError
    BY <1>5 DEF QueryError, ReadFrom, PreloadsOwnRows
<1>6. CASE Assign
    <2>1. /\ phase = "assign" /\ phase' = "done"
          /\ loaded' = [f \in results |-> {r.row : r \in {s \in read : s.of = f.key}}]
          /\ UNCHANGED <<items, relation, named, results, read, whole, broke, moves>>
        BY <1>6 DEF Assign
    <2>2. ReadFrom'
        BY <2>1 DEF ReadFrom
    <2>3. ASSUME NEW f \in results
          PROVE  LET assigned == {r.row : r \in {s \in read : s.of = f.key}}
                 IN  /\ loaded'[f] = assigned
                     /\ assigned \subseteq {r.row : r \in {s \in whole : s.of = f.key}}
                     /\ (named \/ relation = "many_to_many") /\ ~broke =>
                           assigned = {r.row : r \in {s \in whole : s.of = f.key}}
                     /\ relation = "has_polymorphic" /\ moves = 0 => \A i \in assigned : items[i] = f.key
                     /\ relation \in ToOne => Cardinality(assigned) <= 1 /\ assigned \subseteq {f.key.owner}
        <3> DEFINE assigned == {r.row : r \in {s \in read : s.of = f.key}}
        <3>1. loaded'[f] = assigned
            BY <2>1
        <3>2. assigned \subseteq {r.row : r \in {s \in whole : s.of = f.key}}
            BY DEF ReadFrom
        <3>3. (named \/ relation = "many_to_many") /\ ~broke => read = whole
            BY <2>1 DEF ReadFrom
        <3>4. relation = "has_polymorphic" /\ moves = 0 => \A i \in assigned : items[i] = f.key
            BY DEF ReadFrom
        <3>5. ASSUME relation \in ToOne PROVE Cardinality(assigned) <= 1 /\ assigned \subseteq {f.key.owner}
            <4>1. assigned \subseteq {f.key.owner}
                BY <3>5 DEF ReadFrom
            <4>2. /\ IsFiniteSet({f.key.owner}) /\ Cardinality({f.key.owner}) = 1
                BY FS_Singleton
            <4>3. Cardinality(assigned) <= Cardinality({f.key.owner})
                BY <4>1, <4>2, FS_Subset
            <4> QED BY <4>1, <4>2, <4>3
        <3> QED BY <3>1, <3>2, <3>3, <3>4, <3>5
    <2>4. broke => ~ChecksErr
        BY <2>1 DEF ReadFrom
    <2>5. PreloadsOwnRows'
        BY <2>1, <2>3, <2>4 DEF PreloadsOwnRows, ChecksErr
    <2> QED BY <2>2, <2>5
<1>7. CASE Elsewhere
    <2>1. /\ moves' = moves + 1 /\ phase \in {"query", "assign"}
          /\ items' \in [Items -> [kind : Kinds, owner : Owners \cup {0}]]
          /\ UNCHANGED <<relation, named, read, whole, broke, phase>>
        BY <1>7 DEF Elsewhere, ReadFrom
    <2>2. moves' \in Nat /\ moves' # 0
        BY <2>1 DEF ReadFrom
    <2>3. ReadFrom'
        BY <2>1, <2>2 DEF ReadFrom, ChecksErr
    <2>4. PreloadsOwnRows'
        BY <2>1 DEF PreloadsOwnRows
    <2> QED BY <2>3, <2>4
<1> QED BY <1>1, <1>2, <1>3, <1>4, <1>5, <1>6, <1>7 DEF PreNext

\* A Find with Preload that returns gave each result the rows of its own key and
\* nobody else's, for any number of rows, kinds and moves of other clients.
THEOREM PreloadsAreOwn == PreSpec => []PreloadsOwnRows
<1> DEFINE I == PreInv /\ relation \in ToMany \cup ToOne
<1>1. PreInit => I
    BY DEF PreInit, PreInv, ReadFrom, PreloadsOwnRows
<1>2. I /\ [PreNext]_preVars => I'
    <2> SUFFICES ASSUME I, [PreNext]_preVars PROVE I'
        OBVIOUS
    <2>1. relation' = relation
        BY DEF PreNext, preVars, FindRows, RegisterModel, QueryRelation, QueryError, Assign, Elsewhere
    <2> QED BY <2>1, PreStep
<1>3. I => PreloadsOwnRows
    BY DEF PreInv
<1> QED BY <1>1, <1>2, <1>3, PTL DEF PreSpec

-----------------------------------------------------------------------------
\* A slice shows a list of calls: it lies within its array, which has them in order.
Slices == [arr : Nat, len : Nat]
Shows(as, s, q) ==
  /\ s \in Slices /\ q \in Seq(Nat) /\ Len(q) = s.len
  /\ s.len = 0 => s.arr = 0
  /\ s.len > 0 => s.arr \in 1 .. Len(as) /\ s.len <= Len(as[s.arr])
  /\ \A i \in 1 .. s.len : as[s.arr][i] = q[i]
\* It is full: an append to it moves to another array.
Full(as, s) == s.len > 0 => Len(as[s.arr]) = s.len

\* Arrays are added and never written again.
Extends(bs, as) == Len(as) <= Len(bs) /\ \A i \in 1 .. Len(as) : bs[i] = as[i]

\* Every builder shows its calls, and every clone those of its receiver in slices
\* that are full.
FamilyType ==
  /\ arrays \in Seq(Seq(Nat))
  /\ family \in Seq([kind : {"builder", "aggregate"}, lists : [Fields -> Slices]])
  /\ chained \in Seq([Fields -> Seq(Nat)]) /\ Len(chained) = Len(family)
  /\ doing \in [Threads -> {Idle} \cup [src : Nat, field : Fields, lists : [Fields -> Slices]]]
FamilyInv ==
  /\ FamilyType
  /\ \A b \in 1 .. Len(family), f \in Fields : Shows(arrays, family[b].lists[f], chained[b][f])
  /\ \A t \in Threads : doing[t] # Idle =>
       /\ doing[t].src \in 1 .. Len(family)
       /\ \A f \in Fields : /\ Shows(arrays, doing[t].lists[f], chained[doing[t].src][f])
                            /\ Full(arrays, doing[t].lists[f])

\* The contents of a slice are the list it shows.
LEMMA ShownContents ==
  ASSUME NEW as \in Seq(Seq(Nat)), NEW s, NEW q, Shows(as, s, q)
  PROVE  (IF s.len = 0 THEN << >> ELSE SubSeq(as[s.arr], 1, s.len)) = q
<1>1. CASE s.len = 0
    <2>1. q = << >>
        BY <1>1, EmptySeq DEF Shows
    <2> QED BY <1>1, <2>1
<1>2. CASE s.len # 0
    <2> DEFINE a == as[s.arr]
    <2>1. s.len \in Nat /\ s.len > 0 /\ s.arr \in 1 .. Len(as) /\ s.len <= Len(a)
        <3>1. s.len \in Nat
            BY DEF Shows, Slices
        <3>2. s.len > 0
            BY <1>2, <3>1
        <3> QED BY <3>1, <3>2 DEF Shows
    <2>2. a \in Seq(Nat)
        BY <2>1, ElementOfSeq
    <2>3. \A i \in 1 .. s.len : a[i] = q[i]
        BY DEF Shows
    <2> HIDE DEF a
    <2>4. \A i \in 1 .. s.len : a[i] \in Nat
        BY <2>1, <2>2
    <2>5. /\ SubSeq(a, 1, s.len) \in Seq(Nat) /\ Len(SubSeq(a, 1, s.len)) = s.len
          /\ \A i \in 1 .. s.len : SubSeq(a, 1, s.len)[i] = a[i]
        BY <2>1, <2>4, SubSeqProperties
    <2>6. q \in Seq(Nat) /\ Len(q) = s.len
        BY DEF Shows
    <2>7. SubSeq(a, 1, s.len) = q
        BY <2>3, <2>5, <2>6, SeqEqual
    <2> QED BY <1>2, <2>7 DEF a
<1> QED BY <1>1, <1>2

\* A slice shows the same when arrays are added.
LEMMA ShownInMore ==
  ASSUME NEW as, NEW bs, Extends(bs, as), Len(as) \in Nat, Len(bs) \in Nat,
         NEW s, NEW q, Shows(as, s, q)
  PROVE  Shows(bs, s, q) /\ (Full(as, s) => Full(bs, s))
<1>1. CASE s.len = 0
    BY <1>1 DEF Shows, Full
<1>2. CASE s.len # 0
    <2>1. s.arr \in 1 .. Len(as) /\ bs[s.arr] = as[s.arr] /\ s.arr \in 1 .. Len(bs)
        <3>1. s.len \in Nat /\ s.len > 0
            BY <1>2 DEF Shows, Slices
        <3>2. s.arr \in 1 .. Len(as)
            BY <3>1 DEF Shows
        <3>3. Len(as) <= Len(bs) /\ bs[s.arr] = as[s.arr]
            BY <3>2 DEF Extends
        <3>4. s.arr \in 1 .. Len(bs)
            <4>1. \A m, n \in Nat : m <= n => 1 .. m \subseteq 1 .. n
                OBVIOUS
            <4> QED BY <3>2, <3>3, <4>1, Zenon
        <3> QED BY <3>2, <3>3, <3>4
    <2> QED BY <2>1 DEF Shows, Full
<1> QED BY <1>1, <1>2

\* A finite set written as a sequence shows every element.
LEMMA Enumerates ==
  ASSUME NEW S, IsFiniteSet(S)
  PROVE  /\ SetToSeq(S) \in [1 .. Cardinality(S) -> S] /\ Cardinality(S) \in Nat
         /\ \A x \in S : \E i \in 1 .. Cardinality(S) : SetToSeq(S)[i] = x
<1> DEFINE n == Cardinality(S)
<1>1. n \in Nat /\ \E g \in [1 .. n -> S] : IsInjective(g)
    BY FS_CardinalityType DEF ExistsBijection, Bijection, Injection
<1>2. SetToSeq(S) \in [1 .. n -> S] /\ IsInjective(SetToSeq(S))
    BY <1>1 DEF SetToSeq
<1>3. SetToSeq(S) \in Injection(1 .. n, S)
    BY <1>2 DEF Injection
<1>4. IsFiniteSet(1 .. n) /\ Cardinality(1 .. n) = n
    BY <1>1, FS_Interval
<1>5. SetToSeq(S) \in Surjection(1 .. n, S)
    BY <1>3, <1>4, FS_Injection
<1> QED BY <1>1, <1>2, <1>5 DEF Surjection

\* clone: the copies are full slices of arrays of their own, and show the same.
LEMMA CloneShows ==
  ASSUME FamilyType, NEW b \in 1 .. Len(family),
         \A f \in Fields : Shows(arrays, family[b].lists[f], chained[b][f])
  PROVE  LET c == CloneLists(b)
         IN  /\ c.arrays \in Seq(Seq(Nat)) /\ Extends(c.arrays, arrays)
             /\ c.lists \in [Fields -> Slices]
             /\ \A f \in Fields : /\ Shows(c.arrays, c.lists[f], chained[b][f])
                                  /\ Full(c.arrays, c.lists[f])
<1> DEFINE L == family[b].lists
           C == CopiedFields(b)
           fs == SetToSeq(C)
           n == Cardinality(C)
           new == [i \in DOMAIN fs |-> Contents(L[fs[i]])]
           at(f) == CHOOSE i \in DOMAIN fs : fs[i] = f
           bs == arrays \o new
           M == [f \in Fields |-> IF f \in C THEN [arr |-> Len(arrays) + at(f), len |-> L[f].len] ELSE L[f]]
<1>1. IsFiniteSet(C) /\ C \subseteq Fields
    BY BuilderFamilyAssumption, FS_Subset DEF CopiedFields
<1>2. /\ fs \in [1 .. n -> C] /\ n \in Nat /\ DOMAIN fs = 1 .. n
      /\ \A f \in C : \E i \in 1 .. n : fs[i] = f
    BY <1>1, Enumerates
<1>3. L \in [Fields -> Slices] /\ arrays \in Seq(Seq(Nat)) /\ Len(arrays) \in Nat
    <2>1. family[b] \in [kind : {"builder", "aggregate"}, lists : [Fields -> Slices]]
        BY ElementOfSeq DEF FamilyType
    <2> QED BY <2>1, LenProperties DEF FamilyType
<1>4. \A i \in 1 .. n : new[i] = chained[b][fs[i]] /\ chained[b][fs[i]] \in Seq(Nat)
    <2> TAKE i \in 1 .. n
    <2>1. fs[i] \in Fields
        BY <1>1, <1>2
    <2>2. Shows(arrays, L[fs[i]], chained[b][fs[i]])
        BY <2>1
    <2>3. Contents(L[fs[i]]) = chained[b][fs[i]]
        BY <1>3, <2>2, ShownContents DEF Contents
    <2>4. new[i] = Contents(L[fs[i]])
        BY <1>2
    <2>5. chained[b][fs[i]] \in Seq(Nat)
        BY ONLY <2>2 DEF Shows
    <2> QED BY ONLY <2>3, <2>4, <2>5
<1>5. new \in Seq(Seq(Nat)) /\ Len(new) = n
    <2>1. new \in [1 .. n -> Seq(Nat)]
        BY <1>2, <1>4
    <2> HIDE DEF new, n
    <2>2. new \in UNION {[1 .. m -> Seq(Nat)] : m \in Nat}
        BY <1>2, <2>1
    <2>3. new \in Seq(Seq(Nat)) /\ DOMAIN new = 1 .. n
        BY <2>1, <2>2, SeqDef
    <2> QED BY <1>2, <2>3, LenProperties
<1>6. \A f \in C : at(f) \in 1 .. n /\ fs[at(f)] = f
    BY <1>2
<1>7. CloneLists(b) = [arrays |-> bs, lists |-> M]
    BY DEF CloneLists
<1> HIDE DEF C, fs, n, new, at
<1>8. /\ bs \in Seq(Seq(Nat)) /\ Len(bs) = Len(arrays) + n
      /\ \A i \in 1 .. Len(arrays) : bs[i] = arrays[i]
      /\ \A i \in 1 .. n : bs[Len(arrays) + i] = new[i]
    <2> HIDE DEF bs, M, L
    <2>1. /\ bs \in Seq(Seq(Nat)) /\ Len(bs) = Len(arrays) + Len(new)
          /\ \A i \in 1 .. Len(arrays) + Len(new) :
               bs[i] = IF i <= Len(arrays) THEN arrays[i] ELSE new[i - Len(arrays)]
        BY <1>3, <1>5, ConcatProperties DEF bs
    <2>2. \A i \in 1 .. Len(arrays) : bs[i] = arrays[i]
        BY <1>2, <1>3, <1>5, <2>1
    <2>3. \A i \in 1 .. n : bs[Len(arrays) + i] = new[i]
        <3> TAKE i \in 1 .. n
        <3> DEFINE j == Len(arrays) + i
        <3>1. j \in 1 .. Len(arrays) + Len(new) /\ ~(j <= Len(arrays)) /\ j - Len(arrays) = i
            <4>1. \A k, l \in Nat : i \in 1 .. l => k + i \in 1 .. k + l /\ ~(k + i <= k) /\ (k + i) - k = i
                OBVIOUS
            <4> QED BY ONLY <1>2, <1>3, <1>5, <4>1, i \in 1 .. n
        <3> HIDE DEF j
        <3>2. bs[j] = new[i]
            BY <2>1, <3>1
        <3> QED BY <3>2 DEF j
    <2> QED BY <1>5, <2>1, <2>2, <2>3
<1> HIDE DEF bs
<1>9. Extends(bs, arrays)
    <2>1. Len(arrays) <= Len(bs)
        BY <1>2, <1>3, <1>8
    <2> QED BY <1>8, <2>1, Zenon DEF Extends
<1>10. M \in [Fields -> Slices]
    <2>1. \A f \in C : [arr |-> Len(arrays) + at(f), len |-> L[f].len] \in Slices
        <3> TAKE f \in C
        <3>1. Len(arrays) + at(f) \in Nat
            BY <1>2, <1>3, <1>6
        <3>2. L[f] \in Slices
            BY <1>1, <1>3
        <3> QED BY <3>1, <3>2 DEF Slices
    <2>2. \A f \in Fields : L[f] \in Slices
        BY <1>3
    <2> HIDE DEF L
    <2> QED BY <2>1, <2>2
<1>11. ASSUME NEW f \in Fields PROVE Shows(bs, M[f], chained[b][f]) /\ Full(bs, M[f])
    <2>1. Shows(arrays, L[f], chained[b][f])
        OBVIOUS
    <2>2. CASE f \in C
        <3>1. M[f].arr = Len(arrays) + at(f) /\ M[f].len = L[f].len /\ M[f] \in Slices
            BY <1>10, <2>2
        <3> HIDE DEF M
        <3>2. bs[M[f].arr] = chained[b][f]
            <4>1. PICK k : k = at(f)
                OBVIOUS
            <4>2. k \in 1 .. n /\ fs[k] = f
                BY <1>6, <2>2, <4>1
            <4>3. bs[Len(arrays) + k] = new[k] /\ new[k] = chained[b][fs[k]]
                BY ONLY <1>4, <1>8, <4>2
            <4> QED BY ONLY <3>1, <4>1, <4>2, <4>3
        <3>3. M[f].arr \in 1 .. Len(bs)
            <4>1. at(f) \in 1 .. n /\ Len(bs) = Len(arrays) + n /\ Len(arrays) \in Nat /\ n \in Nat
                BY <1>2, <1>3, <1>6, <1>8, <2>2
            <4> QED BY ONLY <3>1, <4>1
        <3>4. Len(chained[b][f]) = L[f].len /\ chained[b][f] \in Seq(Nat) /\ L[f].len \in Nat /\ L[f].len > 0
            BY <2>1, <2>2 DEF Shows, Slices, C, CopiedFields
        <3> QED BY <3>1, <3>2, <3>3, <3>4 DEF Shows, Full
    <2>3. CASE f \notin C
        <3>1. M[f] = L[f]
            BY <2>3
        <3>2. Shows(bs, M[f], chained[b][f])
            BY <1>3, <1>8, <1>9, <2>1, <3>1, ShownInMore
        <3>3. ~(M[f].len > 0)
            BY <2>3, <3>1 DEF C, CopiedFields
        <3> QED BY <3>2, <3>3 DEF Full
    <2> QED BY <2>2, <2>3
<1> HIDE DEF M
<1> QED BY <1>7, <1>8, <1>9, <1>10, <1>11

\* append to a full slice: the list with the value at its end, in a new array.
LEMMA GrownShows ==
  ASSUME arrays \in Seq(Seq(Nat)), NEW s, NEW q, NEW v \in Nat,
         Shows(arrays, s, q), Full(arrays, s)
  PROVE  LET g == Grown(s, v)
         IN  /\ g.arrays \in Seq(Seq(Nat)) /\ Extends(g.arrays, arrays)
             /\ Shows(g.arrays, g.slice, Append(q, v))
<1> DEFINE cap == IF s.len = 0 THEN 1 ELSE 2 * s.len
           a == [i \in 1 .. cap |-> IF i <= s.len THEN arrays[s.arr][i] ELSE IF i = s.len + 1 THEN v ELSE 0]
           bs == Append(arrays, a)
           r == [arr |-> Len(arrays) + 1, len |-> s.len + 1]
<1>1. s \in Slices /\ s.len \in Nat /\ s.arr \in Nat /\ q \in Seq(Nat) /\ Len(q) = s.len
    BY DEF Shows, Slices
<1>2. ~(s.len < Cap(s))
    <2>1. CASE s.len = 0
        BY <2>1 DEF Shows, Cap
    <2>2. CASE s.len # 0
        <3>1. s.len > 0
            BY <1>1, <2>2
        <3>2. s.arr \in 1 .. Len(arrays) /\ Len(arrays[s.arr]) = s.len
            BY <3>1 DEF Shows, Full
        <3>3. s.arr # 0 /\ Cap(s) = s.len
            BY <3>2 DEF Cap
        <3> QED BY <1>1, <3>3
    <2> QED BY <2>1, <2>2
<1>3. Grown(s, v) = [arrays |-> bs, slice |-> r]
    BY <1>2 DEF Grown
<1>4. cap \in Nat /\ s.len + 1 <= cap
    BY <1>1
<1>5. \A i \in 1 .. s.len : arrays[s.arr][i] = q[i] /\ q[i] \in Nat
    BY <1>1 DEF Shows
<1>6. a \in Seq(Nat) /\ Len(a) = cap
    <2>1. \A i \in 1 .. cap : (IF i <= s.len THEN arrays[s.arr][i] ELSE IF i = s.len + 1 THEN v ELSE 0) \in Nat
        <3> HIDE DEF cap
        <3> TAKE i \in 1 .. cap
        <3>1. CASE i <= s.len
            <4>1. i \in 1 .. s.len
                BY ONLY <1>1, <1>4, <3>1
            <4>2. arrays[s.arr][i] \in Nat
                BY ONLY <1>5, <4>1
            <4> QED BY ONLY <3>1, <4>2
        <3>2. CASE ~(i <= s.len)
            BY ONLY <3>2, v \in Nat
        <3> QED BY <3>1, <3>2, Zenon
    <2>2. a \in [1 .. cap -> Nat]
        BY <2>1, Zenon
    <2> HIDE DEF a, cap
    <2> QED BY <1>4, <2>2
<1>7. \A i \in 1 .. s.len + 1 : a[i] = Append(q, v)[i]
    <2> TAKE i \in 1 .. s.len + 1
    <2>1. i \in 1 .. cap
        BY <1>1, <1>4
    <2>2. CASE i <= s.len
        <3>1. a[i] = q[i]
            BY <1>5, <2>1, <2>2
        <3>2. Append(q, v)[i] = q[i]
            BY <1>1, <2>2
        <3> QED BY <3>1, <3>2
    <2>3. CASE i = s.len + 1
        <3>1. a[i] = v
            BY <1>1, <2>1, <2>3
        <3>2. Append(q, v)[i] = v
            BY <1>1, <2>3
        <3> QED BY <3>1, <3>2
    <2> QED BY <1>1, <2>2, <2>3
<1> HIDE DEF a, cap
<1>8. /\ bs \in Seq(Seq(Nat)) /\ Len(bs) = Len(arrays) + 1 /\ bs[Len(arrays) + 1] = a
      /\ \A i \in 1 .. Len(arrays) : bs[i] = arrays[i]
      /\ Len(arrays) \in Nat
    BY <1>6
<1> HIDE DEF bs
<1>9. Extends(bs, arrays)
    BY <1>8 DEF Extends
<1>10. Append(q, v) \in Seq(Nat) /\ Len(Append(q, v)) = s.len + 1
    BY <1>1
<1>11. Shows(bs, r, Append(q, v))
    <2>1. r \in Slices /\ r.len = s.len + 1 /\ r.arr = Len(arrays) + 1 /\ r.len > 0
        BY <1>1, <1>8 DEF Slices
    <2>2. bs[r.arr] = a /\ r.arr \in 1 .. Len(bs)
        BY <1>8, <2>1
    <2> HIDE DEF r
    <2> QED BY <1>4, <1>6, <1>7, <1>10, <2>1, <2>2 DEF Shows
<1> QED BY <1>3, <1>8, <1>9, <1>11

LEMMA FamilyStep ==
  ASSUME FamilyInv, [FamilyNext]_familyVars
  PROVE  FamilyInv'
<1>1. /\ arrays \in Seq(Seq(Nat)) /\ Len(arrays) \in Nat /\ Len(family) \in Nat
      /\ Len(chained) = Len(family)
      /\ \A b \in 1 .. Len(family) :
           /\ family[b] \in [kind : {"builder", "aggregate"}, lists : [Fields -> Slices]]
           /\ chained[b] \in [Fields -> Seq(Nat)]
    BY LenProperties, ElementOfSeq DEF FamilyInv, FamilyType
\* What was shown is shown still, when arrays are only added.
<1>2. ASSUME arrays' \in Seq(Seq(Nat)), Extends(arrays', arrays), NEW s, NEW q, Shows(arrays, s, q)
      PROVE  Shows(arrays', s, q) /\ (Full(arrays, s) => Full(arrays', s))
    <2>1. Len(arrays') \in Nat
        BY <1>2, LenProperties
    <2> QED BY <1>1, <1>2, <2>1, ShownInMore
<1>3. CASE UNCHANGED familyVars
    BY <1>3 DEF familyVars, FamilyInv, FamilyType
<1>4. ASSUME NEW t \in Threads, NEW b \in 1 .. Len(family), NEW f \in Fields, Clone(t, b, f)
      PROVE  FamilyInv'
    <2> DEFINE c == CloneLists(b)
    <2>1. /\ c.arrays \in Seq(Seq(Nat)) /\ Extends(c.arrays, arrays)
          /\ c.lists \in [Fields -> Slices]
          /\ \A g \in Fields : Shows(c.arrays, c.lists[g], chained[b][g]) /\ Full(c.arrays, c.lists[g])
        BY CloneShows DEF FamilyInv
    <2>2. /\ arrays' = c.arrays /\ UNCHANGED <<family, chained>>
          /\ doing' = [doing EXCEPT ![t] = [src |-> b, field |-> f, lists |-> c.lists]]
        BY <1>4 DEF Clone
    <2> HIDE DEF c
    <2>3. FamilyType'
        <3>1. [src |-> b, field |-> f, lists |-> c.lists] \in [src : Nat, field : Fields, lists : [Fields -> Slices]]
            BY <1>1, <2>1
        <3> QED BY <2>1, <2>2, <3>1 DEF FamilyInv, FamilyType
    <2>4. \A e \in 1 .. Len(family'), g \in Fields : Shows(arrays', family'[e].lists[g], chained'[e][g])
        BY <1>2, <2>1, <2>2 DEF FamilyInv
    <2>5. ASSUME NEW u \in Threads, doing'[u] # Idle
          PROVE  /\ doing'[u].src \in 1 .. Len(family')
                 /\ \A g \in Fields : /\ Shows(arrays', doing'[u].lists[g], chained'[doing'[u].src][g])
                                      /\ Full(arrays', doing'[u].lists[g])
        <3>1. CASE u = t
            <4>1. doing'[u] = [src |-> b, field |-> f, lists |-> c.lists]
                BY <2>2, <3>1 DEF FamilyInv, FamilyType
            <4> QED BY <2>1, <2>2, <4>1
        <3>2. CASE u # t
            <4>1. doing'[u] = doing[u]
                BY <2>2, <3>2 DEF FamilyInv, FamilyType
            <4>2. /\ doing[u].src \in 1 .. Len(family)
                  /\ \A g \in Fields : /\ Shows(arrays, doing[u].lists[g], chained[doing[u].src][g])
                                       /\ Full(arrays, doing[u].lists[g])
                BY <2>5, <4>1 DEF FamilyInv
            <4> QED BY <1>2, <2>1, <2>2, <4>1, <4>2
        <3> QED BY <3>1, <3>2
    <2> QED BY <2>3, <2>4, <2>5 DEF FamilyInv
\* A builder joins the family.
<1>5. ASSUME NEW k \in {"builder", "aggregate"}, NEW ls \in [Fields -> Slices], NEW qs \in [Fields -> Seq(Nat)],
             arrays' \in Seq(Seq(Nat)), Extends(arrays', arrays),
             family' = Append(family, [kind |-> k, lists |-> ls]), chained' = Append(chained, qs),
             \A g \in Fields : Shows(arrays', ls[g], qs[g]),
             doing' \in [Threads -> {Idle} \cup [src : Nat, field : Fields, lists : [Fields -> Slices]]],
             \A u \in Threads : doing'[u] = doing[u] \/ doing'[u] = Idle
      PROVE  FamilyInv'
    <2>1. /\ [kind |-> k, lists |-> ls] \in [kind : {"builder", "aggregate"}, lists : [Fields -> Slices]]
          /\ family \in Seq([kind : {"builder", "aggregate"}, lists : [Fields -> Slices]])
          /\ chained \in Seq([Fields -> Seq(Nat)])
        BY DEF FamilyInv, FamilyType
    <2>2. /\ family' \in Seq([kind : {"builder", "aggregate"}, lists : [Fields -> Slices]])
          /\ Len(family') = Len(family) + 1 /\ family'[Len(family) + 1] = [kind |-> k, lists |-> ls]
          /\ \A e \in 1 .. Len(family) : family'[e] = family[e]
        BY <1>5, <2>1, AppendProperties
    <2>3. /\ chained' \in Seq([Fields -> Seq(Nat)])
          /\ Len(chained') = Len(family) + 1 /\ chained'[Len(family) + 1] = qs
          /\ \A e \in 1 .. Len(family) : chained'[e] = chained[e]
        BY <1>1, <1>5, <2>1, AppendProperties
    <2>4. FamilyType'
        BY <1>5, <2>2, <2>3 DEF FamilyType
    <2>5. ASSUME NEW e \in 1 .. Len(family'), NEW g \in Fields
          PROVE  Shows(arrays', family'[e].lists[g], chained'[e][g])
        <3>1. CASE e \in 1 .. Len(family)
            <4>1. Shows(arrays, family[e].lists[g], chained[e][g])
                BY <3>1 DEF FamilyInv
            <4>2. Shows(arrays', family[e].lists[g], chained[e][g])
                BY <1>2, <1>5, <4>1
            <4> QED BY <2>2, <2>3, <3>1, <4>2
        <3>2. CASE e = Len(family) + 1
            BY <1>5, <2>2, <2>3, <3>2
        <3> QED BY <1>1, <2>2, <3>1, <3>2
    <2>6. ASSUME NEW u \in Threads, doing'[u] # Idle
          PROVE  /\ doing'[u].src \in 1 .. Len(family')
                 /\ \A g \in Fields : /\ Shows(arrays', doing'[u].lists[g], chained'[doing'[u].src][g])
                                      /\ Full(arrays', doing'[u].lists[g])
        <3>1. doing'[u] = doing[u]
            BY <1>5, <2>6
        <3>2. /\ doing[u].src \in 1 .. Len(family)
              /\ \A g \in Fields : /\ Shows(arrays, doing[u].lists[g], chained[doing[u].src][g])
                                   /\ Full(arrays, doing[u].lists[g])
            BY <2>6, <3>1 DEF FamilyInv
        <3>3. doing[u].src \in 1 .. Len(family') /\ chained'[doing[u].src] = chained[doing[u].src]
            BY <1>1, <2>2, <2>3, <3>2
        <3>4. \A g \in Fields : /\ Shows(arrays', doing[u].lists[g], chained[doing[u].src][g])
                                /\ Full(arrays', doing[u].lists[g])
            BY <1>2, <1>5, <3>2
        <3> QED BY <3>1, <3>3, <3>4
    <2> QED BY <2>4, <2>5, <2>6 DEF FamilyInv
<1>6. ASSUME NEW t \in Threads, Appended(t) PROVE FamilyInv'
    <2> DEFINE d == doing[t]
               v == Len(family)
               g == Grown(d.lists[d.field], v)
               ls == [d.lists EXCEPT ![d.field] = g.slice]
               qs == [chained[d.src] EXCEPT ![d.field] = Append(@, v)]
    <2>1. /\ d # Idle /\ arrays' = g.arrays
          /\ family' = Append(family, [kind |-> family[d.src].kind, lists |-> ls])
          /\ chained' = Append(chained, qs)
          /\ doing' = [doing EXCEPT ![t] = Idle]
        BY <1>6 DEF Appended
    <2>2. d \in [src : Nat, field : Fields, lists : [Fields -> Slices]]
        BY <2>1 DEF FamilyInv, FamilyType
    <2>3. /\ d.src \in 1 .. Len(family)
          /\ \A h \in Fields : Shows(arrays, d.lists[h], chained[d.src][h]) /\ Full(arrays, d.lists[h])
        BY <2>1 DEF FamilyInv
    <2>4. /\ g.arrays \in Seq(Seq(Nat)) /\ Extends(g.arrays, arrays)
          /\ Shows(g.arrays, g.slice, Append(chained[d.src][d.field], v))
        BY <1>1, <2>2, <2>3, GrownShows
    <2>5. chained[d.src] \in [Fields -> Seq(Nat)] /\ family[d.src].kind \in {"builder", "aggregate"}
        BY <1>1, <2>3
    <2> HIDE DEF d, g
    <2>6. /\ ls \in [Fields -> Slices] /\ qs \in [Fields -> Seq(Nat)]
          /\ ls[d.field] = g.slice /\ qs[d.field] = Append(chained[d.src][d.field], v)
          /\ \A h \in Fields \ {d.field} : ls[h] = d.lists[h] /\ qs[h] = chained[d.src][h]
        BY <1>1, <2>2, <2>4, <2>5 DEF Shows
    <2> HIDE DEF ls, qs
    <2>7. ASSUME NEW h \in Fields PROVE Shows(arrays', ls[h], qs[h])
        <3>1. CASE h = d.field
            BY <2>1, <2>4, <2>6, <3>1
        <3>2. CASE h # d.field
            BY <1>2, <2>1, <2>3, <2>4, <2>6, <3>2
        <3> QED BY <3>1, <3>2
    <2>8. /\ doing' \in [Threads -> {Idle} \cup [src : Nat, field : Fields, lists : [Fields -> Slices]]]
          /\ \A u \in Threads : doing'[u] = doing[u] \/ doing'[u] = Idle
        BY <2>1 DEF FamilyInv, FamilyType
    <2> QED BY <1>5, <2>1, <2>4, <2>5, <2>6, <2>7, <2>8
<1>7. ASSUME NEW b \in 1 .. Len(family), Aggregate(b) PROVE FamilyInv'
    <2> DEFINE ls == [f \in Fields |-> IF f = "conditions" THEN family[b].lists[f] ELSE NilSlice]
               qs == [f \in Fields |-> IF f = "conditions" THEN chained[b][f] ELSE << >>]
    <2>1. /\ family' = Append(family, [kind |-> "aggregate", lists |-> ls])
          /\ chained' = Append(chained, qs) /\ UNCHANGED <<arrays, doing>>
        BY <1>7 DEF Aggregate
    <2>2. NilSlice \in Slices /\ Shows(arrays, NilSlice, << >>)
        BY DEF NilSlice, Slices, Shows
    <2>3. ls \in [Fields -> Slices] /\ qs \in [Fields -> Seq(Nat)]
        BY <1>1, <2>2
    <2>4. \A f \in Fields : Shows(arrays, ls[f], qs[f])
        BY <2>2 DEF FamilyInv
    <2>5. Extends(arrays', arrays)
        BY <1>1, <2>1 DEF Extends
    <2> HIDE DEF ls, qs
    <2>6. /\ doing' \in [Threads -> {Idle} \cup [src : Nat, field : Fields, lists : [Fields -> Slices]]]
          /\ \A u \in Threads : doing'[u] = doing[u] \/ doing'[u] = Idle
        BY <2>1 DEF FamilyInv, FamilyType
    <2> QED BY <1>1, <1>5, <2>1, <2>3, <2>4, <2>5, <2>6
<1> QED BY <1>3, <1>4, <1>6, <1>7 DEF FamilyNext

\* Every builder of a family shows exactly the calls of its own chain, however
\* many goroutines derive builders from one another, and however often.
THEOREM BuildersAreImmutable == FamilySpec => []BuildersKeepTheirCalls
<1>1. FamilyInit => FamilyInv
    <2> SUFFICES ASSUME FamilyInit PROVE FamilyInv
        OBVIOUS
    <2>1. /\ arrays = << >> /\ doing = [t \in Threads |-> Idle]
          /\ family = <<[kind |-> "builder", lists |-> [f \in Fields |-> NilSlice]]>>
          /\ chained = <<[f \in Fields |-> << >>]>>
        BY DEF FamilyInit
    <2>2. NilSlice \in Slices /\ Shows(arrays, NilSlice, << >>) /\ << >> \in Seq(Nat)
        BY DEF NilSlice, Slices, Shows
    <2>3. FamilyType /\ Len(family) = 1
        BY <2>1, <2>2 DEF FamilyType
    <2>4. \A f \in Fields : family[1].lists[f] = NilSlice /\ chained[1][f] = << >>
        BY <2>1
    <2> QED BY <2>1, <2>2, <2>3, <2>4 DEF FamilyInv
<1>2. FamilyInv => BuildersKeepTheirCalls
    <2> SUFFICES ASSUME FamilyInv, NEW b \in 1 .. Len(family), NEW f \in Fields
                 PROVE  Contents(family[b].lists[f]) = chained[b][f]
        BY DEF BuildersKeepTheirCalls
    <2>1. Shows(arrays, family[b].lists[f], chained[b][f]) /\ arrays \in Seq(Seq(Nat))
        BY DEF FamilyInv, FamilyType
    <2> QED BY <2>1, ShownContents DEF Contents
<1> QED BY <1>1, <1>2, FamilyStep, PTL DEF FamilySpec

-----------------------------------------------------------------------------
\* What was recorded: patterns and times.
Recorded == [p : Patterns, t : Nat]
\* Of p, after the beginning of the window before t.
Since(list, p, t) == {i \in Of(list, p) : list[i].t > t - TimeWindow}
NoneAfter(list, t) == \A i \in 1 .. Len(list) : list[i].t <= t
CleanSpan == CleanWindows * TimeWindow
KeepSpan == KeepWindows * TimeWindow

\* The records came in the order of their times; the last one is at most CleanSpan
\* after the last cleaning, and what was dropped is what KeepSpan does not cover.
InTime(list, places, cleaned) ==
  /\ \A i, j \in 1 .. Len(list) : i < j => list[i].t <= list[j].t
  /\ Len(list) > 0 => cleaned <= list[Len(list)].t /\ list[Len(list)].t - cleaned <= CleanSpan
  /\ \A i \in 1 .. Len(list) : i \in places <=> list[i].t > cleaned - KeepSpan
\* Bursts were told of, also one that goes on at the next record.
Told(list, found, rung) ==
  /\ \A p \in Patterns : (p \in found <=> Burst(list, p)) /\ (p \in found => p \in rung)
  /\ \A p \in Patterns, t \in Nat :
        NoneAfter(list, t) /\ Cardinality(Since(list, p, t)) >= Threshold => p \in found
Places(list, places) == places \subseteq 1 .. Len(list)
\* A detection more, of a pattern counted often enough.
Grows(found, more, p, count) ==
  more \subseteq found \cup {p} /\ (p \in more \ found => ~(count < Threshold))
Often(list, found) == \A p \in found : Cardinality(Of(list, p)) >= Threshold

\* A record more.
Adds(list, p, now, new) ==
  list \in Seq(Recorded) /\ p \in Patterns /\ now \in Nat /\ new = Append(list, [p |-> p, t |-> now])
Added(list, p, now, new, n) ==
  /\ n \in Nat /\ now \in Nat /\ p \in Patterns
  /\ new \in Seq(Recorded) /\ Len(list) = n /\ Len(new) = n + 1
  /\ DOMAIN new = 1 .. n + 1 /\ DOMAIN list = 1 .. n
  /\ new[n + 1].p = p /\ new[n + 1].t = now
  /\ \A i \in 1 .. n : new[i] = list[i] /\ list[i].p \in Patterns /\ list[i].t \in Nat
  /\ \A i \in 1 .. n + 1 : i \in 1 .. n \/ i = n + 1
  /\ \A i \in 1 .. n : i \in 1 .. n + 1 /\ i # n + 1
  /\ n + 1 \in 1 .. n + 1
LEMMA RecordMore ==
  ASSUME NEW list, NEW p, NEW now, NEW new, Adds(list, p, now, new)
  PROVE  Added(list, p, now, new, Len(list))
<1> DEFINE n == Len(list)
<1>1. PICK one \in Recorded : one = [p |-> p, t |-> now]
    BY DEF Recorded, Adds
<1>2. one.p = p /\ one.t = now
    BY <1>1
<1>3. new = Append(list, one) /\ list \in Seq(Recorded)
    BY <1>1 DEF Adds
<1>4. /\ new \in Seq(Recorded) /\ n \in Nat /\ Len(new) = n + 1
      /\ DOMAIN new = 1 .. n + 1 /\ DOMAIN list = 1 .. n /\ new[n + 1] = one
      /\ \A i \in 1 .. n : new[i] = list[i] /\ list[i] \in Recorded
    BY <1>3
<1>5. n = Len(list)
    OBVIOUS
<1> HIDE DEF n
<1>6. /\ \A i \in 1 .. n + 1 : i \in 1 .. n \/ i = n + 1
      /\ \A i \in 1 .. n : i \in 1 .. n + 1 /\ i # n + 1
      /\ n + 1 \in 1 .. n + 1
    BY <1>4
<1> QED BY <1>2, <1>4, <1>5, <1>6 DEF Recorded, Adds, Added

LEMMA MoreOf ==
  ASSUME NEW list, NEW p, NEW now, NEW new, Adds(list, p, now, new)
  PROVE  /\ \A q : IsFiniteSet(Of(list, q)) /\ IsFiniteSet(Of(new, q))
         /\ \A q : Of(list, q) \subseteq Of(new, q)
         /\ \A q : q # p => Of(new, q) = Of(list, q)
         /\ Of(new, p) = Of(list, p) \cup {Len(list) + 1}
         /\ Len(list) + 1 \notin Of(list, p)
<1>1. PICK n : n = Len(list)
    OBVIOUS
<1>2. Added(list, p, now, new, n)
    BY ONLY <1>1, RecordMore, Adds(list, p, now, new), Zenon
<1> USE DEF Added
<1>3. ASSUME NEW q
      PROVE  IsFiniteSet(Of(list, q)) /\ IsFiniteSet(Of(new, q))
    <2>1. IsFiniteSet(1 .. n) /\ IsFiniteSet(1 .. n + 1)
        BY <1>2, FS_Interval
    <2>2. Of(list, q) \subseteq 1 .. n /\ Of(new, q) \subseteq 1 .. n + 1
        BY <1>2 DEF Of
    <2> QED BY <2>1, <2>2, FS_Subset
<1>4. \A q : Of(list, q) \subseteq Of(new, q)
    BY <1>2 DEF Of
<1>5. \A q : q # p => Of(new, q) = Of(list, q)
    BY <1>2 DEF Of
<1>6. Of(new, p) = Of(list, p) \cup {n + 1} /\ n + 1 \notin Of(list, p)
    BY <1>2 DEF Of
<1> QED BY <1>1, <1>3, <1>4, <1>5, <1>6

\* What came often has come often.
LEMMA OftenKept ==
  ASSUME NEW list, NEW p, NEW now, NEW new, Adds(list, p, now, new),
         NEW places, Places(list, places), NEW found, Often(list, found),
         NEW more, Grows(found, more, p, Similar(new, places \cup {Len(list) + 1}, p, now))
  PROVE  Often(new, more)
<1> SUFFICES ASSUME NEW q \in more
             PROVE  Cardinality(Of(new, q)) >= Threshold
    BY DEF Often
<1> USE DEF Places, Grows
<1>1. /\ IsFiniteSet(Of(list, q)) /\ IsFiniteSet(Of(new, q)) /\ Of(list, q) \subseteq Of(new, q)
    BY MoreOf
<1>2. Cardinality(Of(list, q)) \in Nat /\ Cardinality(Of(new, q)) \in Nat
      /\ Cardinality(Of(list, q)) <= Cardinality(Of(new, q)) /\ Threshold \in Nat
    BY <1>1, FS_CardinalityType, FS_Subset, WatchAssumption
<1>3. CASE q \in found
    BY <1>2, <1>3 DEF Often
<1>4. CASE q \notin found
    <2>1. PICK same : same = {i \in places \cup {Len(list) + 1} : new[i].t > now - TimeWindow /\ new[i].p = p}
        OBVIOUS
    <2>2. q = p /\ ~(Cardinality(same) < Threshold)
        BY <1>4, <2>1 DEF Similar
    <2>3. same \subseteq Of(new, q)
        <3>1. /\ DOMAIN new = 1 .. Len(list) + 1
              /\ \A i \in 1 .. Len(list) : i \in 1 .. Len(list) + 1
              /\ Len(list) + 1 \in 1 .. Len(list) + 1
            BY RecordMore DEF Added
        <3> QED BY <2>1, <2>2, <3>1 DEF Of
    <2>4. Cardinality(same) \in Nat /\ Cardinality(same) <= Cardinality(Of(new, q))
        BY <1>1, <2>3, FS_CardinalityType, FS_Subset
    <2> QED BY <1>2, <2>2, <2>4
<1> QED BY <1>3, <1>4

\* Spans of time.
LEMMA Spans == /\ CleanSpan \in Nat /\ KeepSpan \in Nat /\ KeepSpan >= TimeWindow
               /\ TimeWindow \in Nat \ {0} /\ Threshold \in Nat \ {0}
               /\ (CleanWindows + KeepWindows) * TimeWindow = CleanSpan + KeepSpan
<1>1. CleanWindows \in Nat /\ KeepWindows \in Nat /\ KeepWindows >= 1 /\ TimeWindow \in Nat \ {0}
      /\ Threshold \in Nat \ {0}
    BY WatchAssumption
<1> QED BY <1>1 DEF CleanSpan, KeepSpan

\* A record in time: what is dropped first is what KeepSpan does not cover any more.
LEMMA InTimeKept ==
  ASSUME NEW list, NEW p, NEW now, NEW new, Adds(list, p, now, new),
         NEW places \in SUBSET (1 .. Len(list)), NEW cleaned \in Nat,
         InTime(list, places, cleaned), NoneAfter(list, now), cleaned <= now,
         NEW kept, NEW next,
         IF now - cleaned > CleanSpan
         THEN kept = {i \in places : list[i].t > now - KeepSpan} /\ next = now
         ELSE kept = places /\ next = cleaned
  PROVE  InTime(new, kept \cup {Len(list) + 1}, next)
<1>1. PICK n : n = Len(list)
    OBVIOUS
<1>2. Added(list, p, now, new, n)
    BY ONLY <1>1, RecordMore, Adds(list, p, now, new), Zenon
<1> USE DEF Added
<1>3. CleanSpan \in Nat /\ KeepSpan \in Nat /\ KeepSpan >= 1
    BY Spans
<1>4. \A i, j \in 1 .. n + 1 : i < j => new[i].t <= new[j].t
    <2>1. \A i, j \in 1 .. n : i < j => new[i].t <= new[j].t
        BY <1>1, <1>2 DEF InTime
    <2>2. \A i \in 1 .. n : new[i].t <= new[n + 1].t
        BY <1>1, <1>2 DEF NoneAfter
    <2>3. \A i, j \in 1 .. n + 1 : i < j => i \in 1 .. n
        BY <1>2
    <2> QED BY <1>2, <2>1, <2>2, <2>3
<1>5. next <= now /\ now - next <= CleanSpan /\ cleaned <= next /\ next \in Nat
    BY <1>2, <1>3
<1>6. \A i \in 1 .. n : i \in kept <=> list[i].t > next - KeepSpan
    <2>1. \A i \in 1 .. n : i \in places <=> list[i].t > cleaned - KeepSpan
        BY <1>1 DEF InTime
    <2>2. CASE now - cleaned > CleanSpan
        <3>1. \A t \in Nat : t > now - KeepSpan => t > cleaned - KeepSpan
            BY <1>2, <1>3
        <3> QED BY <1>2, <2>1, <2>2, <3>1
    <2>3. CASE ~(now - cleaned > CleanSpan)
        BY <2>1, <2>3
    <2> QED BY <2>2, <2>3
<1>7. now > next - KeepSpan
    BY <1>2, <1>3, <1>5
<1>8. \A i \in 1 .. n + 1 : i \in kept \cup {n + 1} <=> new[i].t > next - KeepSpan
    BY <1>2, <1>6, <1>7
<1> QED BY <1>1, <1>2, <1>4, <1>5, <1>8 DEF InTime

\* The detector counts the whole window, though it dropped queries.
WindowCounted(list, new, kept, p, now) ==
  /\ Similar(new, kept \cup {Len(list) + 1}, p, now) = Cardinality(Since(new, p, now))
  /\ Since(new, p, now) = Since(list, p, now) \cup {Len(list) + 1}
  /\ Since(new, p, now) = Window(new, p, now)
LEMMA CountsWindow ==
  ASSUME NEW list, NEW p, NEW now, NEW new, Adds(list, p, now, new),
         NEW kept, Places(list, kept), NEW next \in Nat,
         InTime(new, kept \cup {Len(list) + 1}, next), NoneAfter(list, now), next <= now
  PROVE  WindowCounted(list, new, kept, p, now)
<1>1. PICK n : n = Len(list)
    OBVIOUS
<1>2. Added(list, p, now, new, n)
    BY ONLY <1>1, RecordMore, Adds(list, p, now, new), Zenon
<1> USE DEF Added
<1>3. KeepSpan \in Nat /\ TimeWindow \in Nat \ {0} /\ KeepSpan >= TimeWindow
    BY Spans
<1>4. \A i \in 1 .. n + 1 : new[i].t > now - TimeWindow => i \in kept \cup {n + 1}
    <2>1. \A i \in 1 .. n + 1 : new[i].t > next - KeepSpan => i \in kept \cup {n + 1}
        BY <1>1, <1>2 DEF InTime
    <2>2. \A i \in 1 .. n + 1 : new[i].t \in Nat
        BY <1>2
    <2> SUFFICES ASSUME NEW i \in 1 .. n + 1, new[i].t > now - TimeWindow
                 PROVE  new[i].t > next - KeepSpan
        BY <2>1
    <2>3. \A t \in Nat : t > now - TimeWindow => t > next - KeepSpan
        BY <1>2, <1>3
    <2> QED BY <2>2, <2>3
<1>5. {i \in kept \cup {n + 1} : new[i].t > now - TimeWindow /\ new[i].p = p} = Since(new, p, now)
    <2>1. kept \cup {n + 1} \subseteq 1 .. n + 1
        BY <1>1, <1>2 DEF Places
    <2> QED BY <1>2, <1>4, <2>1 DEF Since, Of
<1>6. Since(new, p, now) = Since(list, p, now) \cup {n + 1}
    <2>1. n + 1 \in Since(new, p, now)
        BY <1>2, <1>3 DEF Since, Of
    <2>2. \A i \in 1 .. n : i \in Since(new, p, now) <=> i \in Since(list, p, now)
        BY <1>2 DEF Since, Of
    <2>3. Since(new, p, now) \subseteq 1 .. n + 1 /\ Since(list, p, now) \subseteq 1 .. n
        BY <1>2 DEF Since, Of
    <2> QED BY <1>2, <2>1, <2>2, <2>3
<1>7. \A i \in 1 .. n + 1 : new[i].t <= now
    BY <1>1, <1>2 DEF NoneAfter
<1>8. Since(new, p, now) = Window(new, p, now)
    BY <1>2, <1>7 DEF Since, Window, Of
<1> QED BY <1>1, <1>5, <1>6, <1>8 DEF Similar, WindowCounted

\* Told of the bursts so far, the detector is told of those with the record added.
LEMMA ToldKept ==
  ASSUME NEW list, NEW p, NEW now, NEW new, Adds(list, p, now, new), NoneAfter(list, now),
         NEW kept, WindowCounted(list, new, kept, p, now),
         \A i, j \in 1 .. Len(new) : i < j => new[i].t <= new[j].t,
         NEW found, NEW rung, Told(list, found, rung), found \subseteq Patterns,
         NEW count, count = Cardinality(Since(new, p, now)),
         NEW more, more = (IF count < Threshold THEN found ELSE found \cup {p}),
         NEW also, also = (IF count = Threshold THEN rung \cup {p} ELSE rung)
  PROVE  Told(new, more, also)
<1>1. PICK n : n = Len(list)
    OBVIOUS
<1>2. Added(list, p, now, new, n)
    BY ONLY <1>1, RecordMore, Adds(list, p, now, new), Zenon
<1> USE DEF Added, WindowCounted
<1>3. Threshold \in Nat \ {0} /\ TimeWindow \in Nat \ {0}
    BY Spans
<1>4. \A q : IsFiniteSet(Of(list, q)) /\ IsFiniteSet(Of(new, q))
    BY MoreOf, Zenon
<1>5. \A q : q # p => Of(new, q) = Of(list, q)
    BY MoreOf
<1>6. Of(new, p) = Of(list, p) \cup {n + 1} /\ n + 1 \notin Of(list, p)
    BY <1>1, MoreOf, Zenon
<1>7. \A q, t : /\ IsFiniteSet(Since(list, q, t)) /\ IsFiniteSet(Since(new, q, t))
                /\ IsFiniteSet(Window(list, q, t)) /\ IsFiniteSet(Window(new, q, t))
    BY <1>4, FS_Subset DEF Since, Window
<1>8. count \in Nat
    BY <1>7, FS_CardinalityType
\* What was found can only be missed if it came once more.
<1>9. ASSUME count > Threshold
      PROVE  p \in found
    <2>1. n + 1 \notin Since(list, p, now)
        BY <1>6 DEF Since
    <2>2. Cardinality(Since(new, p, now)) = Cardinality(Since(list, p, now)) + 1
        BY <1>1, <1>7, <2>1, FS_AddElement
    <2>3. Cardinality(Since(list, p, now)) \in Nat
        BY <1>7, FS_CardinalityType
    <2>4. Cardinality(Since(list, p, now)) >= Threshold
        BY <1>3, <1>9, <2>2, <2>3
    <2> QED BY <1>2, <2>4 DEF Told
<1>10. \A q \in more : q \in Patterns /\ q \in also
    BY <1>2, <1>3, <1>8, <1>9 DEF Told
<1>11. ASSUME NEW q \in Patterns, NEW t \in Nat, NoneAfter(new, t),
              Cardinality(Since(new, q, t)) >= Threshold
       PROVE  q \in more
    <2>1. now <= t /\ NoneAfter(list, t)
        BY <1>1, <1>2, <1>11 DEF NoneAfter
    <2>2. CASE q = p
        <3>1. Since(new, p, t) \subseteq Since(new, p, now)
            <4>1. \A i \in Of(new, p) : new[i].t \in Nat
                BY <1>2 DEF Of
            <4>2. \A s \in Nat : s > t - TimeWindow => s > now - TimeWindow
                BY <1>2, <1>3, <1>11, <2>1
            <4> QED BY <4>1, <4>2 DEF Since
        <3>2. /\ Cardinality(Since(new, p, t)) \in Nat
              /\ Cardinality(Since(new, p, t)) <= count
            BY <1>7, <3>1, FS_Subset, FS_CardinalityType
        <3>3. ~(count < Threshold)
            BY <1>3, <1>8, <1>11, <2>2, <3>2
        <3> QED BY <2>2, <3>3
    <2>3. CASE q # p
        <3>1. Since(new, q, t) = Since(list, q, t)
            BY <1>2, <1>5, <2>3 DEF Since, Of
        <3> QED BY <1>11, <2>1, <3>1 DEF Told
    <2> QED BY <2>2, <2>3
<1>12. ASSUME NEW q \in Patterns
       PROVE  q \in more => Burst(new, q)
    <2>1. CASE q \in found
        <3>1. PICK i \in Of(list, q) : Cardinality(Window(list, q, list[i].t)) >= Threshold
            BY <2>1 DEF Told, Burst
        <3>2. i \in Of(new, q) /\ new[i].t = list[i].t
            BY <1>2 DEF Of
        <3>3. Window(list, q, list[i].t) \subseteq Window(new, q, new[i].t)
            BY <1>2, <3>2 DEF Window, Of
        <3>4. PICK old, all : old = Cardinality(Window(list, q, list[i].t))
                              /\ all = Cardinality(Window(new, q, new[i].t))
            OBVIOUS
        <3>5. old \in Nat /\ all \in Nat /\ old <= all
            BY <1>7, <3>3, <3>4, FS_Subset, FS_CardinalityType
        <3> QED BY <1>3, <3>1, <3>2, <3>4, <3>5 DEF Burst
    <2>2. CASE q \notin found
        <3> SUFFICES ASSUME q \in more PROVE Burst(new, q)
            OBVIOUS
        <3>1. q = p /\ ~(count < Threshold)
            BY <2>2
        <3>2. n + 1 \in Of(new, p) /\ new[n + 1].t = now
            BY <1>2 DEF Of
        <3>3. Cardinality(Window(new, p, now)) >= Threshold
            BY <1>3, <1>8, <3>1
        <3> QED BY <3>1, <3>2, <3>3 DEF Burst
    <2> QED BY <2>1, <2>2
<1>13. ASSUME NEW q \in Patterns, Burst(new, q)
       PROVE  q \in more
    <2>1. PICK i \in Of(new, q) : Cardinality(Window(new, q, new[i].t)) >= Threshold
        BY <1>13 DEF Burst
    <2>2. i \in 1 .. n + 1
        BY <1>2 DEF Of
    <2>3. CASE q = p /\ new[i].t = now
        <3>1. count >= Threshold
            BY <2>1, <2>3
        <3>2. ~(count < Threshold)
            BY <1>3, <1>8, <3>1
        <3> QED BY <2>3, <3>2
    <2>4. CASE ~(q = p /\ new[i].t = now)
        <3>1. i \in Of(list, q) /\ new[i].t = list[i].t
            BY <1>2, <1>5, <1>6, <2>2, <2>4 DEF Of
        <3>2. i \in 1 .. n /\ new[i].t \in Nat /\ new[i].t <= now
            BY <1>1, <1>2, <3>1 DEF Of, NoneAfter
        <3>3. n + 1 \notin Window(new, q, new[i].t)
            BY <1>2, <2>4, <3>2 DEF Window, Of
        <3>4. \A j \in Of(new, q) : j = n + 1 \/ (j \in Of(list, q) /\ new[j].t = list[j].t)
            BY <1>2 DEF Of
        <3>5. Of(list, q) \subseteq Of(new, q) /\ \A j \in Of(list, q) : new[j].t = list[j].t
            BY <1>2 DEF Of
        <3>6. Window(new, q, new[i].t) = Window(list, q, list[i].t)
            BY <3>1, <3>3, <3>4, <3>5 DEF Window
        <3>7. Burst(list, q)
            BY <2>1, <3>1, <3>6 DEF Burst
        <3> QED BY <3>7 DEF Told
    <2> QED BY <2>3, <2>4
<1> QED BY <1>10, <1>11, <1>12, <1>13 DEF Told

-----------------------------------------------------------------------------
\* The states of a routine, and the types.
Stamps == [at : {"lock"}, p : Patterns, t : Nat] \cup [at : {"run"}] \cup [at : {"alert"}, n : Nat]
            \cup {NoQuery}
DetectorInv ==
  /\ clock \in Nat /\ entered \in Seq(Recorded) /\ lastClean \in Nat
  /\ queries \in SUBSET (1 .. Len(entered)) /\ DOMAIN detections \subseteq Patterns
  /\ Often(entered, DOMAIN detections)
  /\ ~late => InTime(entered, queries, lastClean) /\ Told(entered, DOMAIN detections, called)
\* The profiler numbers what it keeps up to the last; with a MaxQueries of 1 it
\* keeps two.
StatValues == [n : Nat, slow : BOOLEAN]
Numbered(list, last) ==
  /\ Len(list) <= last /\ (Len(list) <= MaxQueries \/ (MaxQueries = 1 /\ Len(list) <= 2))
  /\ Len(list) >= MaxQueries \div 2 + 1 \/ Len(list) = last
  /\ \A i \in 1 .. Len(list) : list[i].n = last - Len(list) + i
ProfilerInv ==
  /\ stats \in Seq(StatValues) /\ ended \in Nat /\ Numbered(stats, ended)
  /\ alerts \in [due : SUBSET (1 .. ended), given : SUBSET (1 .. ended)]
  /\ \A i \in 1 .. Len(stats) : stats[i].slow => stats[i].n \in alerts.due \cup alerts.given
  /\ alerts.due \cap alerts.given = {}
RoutineInv ==
  /\ stamped \in [Routines -> Stamps]
  /\ \A g \in Routines : stamped[g].at = "alert" => stamped[g].n \in 1 .. ended
WatchInv == DetectorInv /\ ProfilerInv /\ RoutineInv

LEMMA StampKinds ==
  ASSUME NEW s \in Stamps
  PROVE  /\ s.at = "lock" => s.p \in Patterns /\ s.t \in Nat
         /\ s.at = "alert" => s.n \in Nat
         /\ NoQuery.at = "idle"
BY DEF Stamps, NoQuery

LEMMA NoBurst == ASSUME NEW found, found = {}, NEW rung PROVE Told(<<>>, found, rung) /\ Often(<<>>, found)
<1>1. \A p, t : Of(<<>>, p) = {} /\ Since(<<>>, p, t) = {}
    BY DEF Of, Since
<1>2. Cardinality({}) = 0 /\ Threshold >= 1
    BY FS_EmptySet, Spans
<1>3. \A p : ~Burst(<<>>, p)
    BY <1>1 DEF Burst
<1>4. \A p, t : ~(Cardinality(Since(<<>>, p, t)) >= Threshold)
    <2>1. ~(0 >= Threshold)
        BY <1>2, Spans
    <2> QED BY <1>1, <1>2, <2>1
<1> QED BY <1>3, <1>4 DEF Told, Often

LEMMA NothingInTime ==
  ASSUME NEW cleaned PROVE InTime(<<>>, {}, cleaned)
<1>1. Len(<<>>) = 0 /\ \A i \in 1 .. 0 : FALSE
    OBVIOUS
<1> QED BY <1>1 DEF InTime

LEMMA NothingNumbered == Numbered(<<>>, 0)
<1>1. Len(<<>>) = 0 /\ \A i \in 1 .. 0 : FALSE
    OBVIOUS
<1> QED BY <1>1, WatchAssumption DEF Numbered

LEMMA WatchStarts == WatchInit => WatchInv
<1> SUFFICES ASSUME WatchInit PROVE WatchInv
    OBVIOUS
<1>1. DOMAIN detections = {} /\ entered = <<>>
    BY DEF WatchInit
<1>2. DetectorInv
    <2>1. Told(entered, DOMAIN detections, called) /\ Often(entered, DOMAIN detections)
        BY <1>1, NoBurst
    <2>2. InTime(entered, queries, lastClean)
        BY <1>1, NothingInTime DEF WatchInit
    <2>3. entered \in Seq(Recorded) /\ queries \in SUBSET (1 .. Len(entered))
        BY <1>1 DEF WatchInit
    <2> QED BY <1>1, <2>1, <2>2, <2>3 DEF WatchInit, DetectorInv
<1>3. ProfilerInv
    <2>1. \A i \in 1 .. Len(stats) : FALSE
        BY DEF WatchInit
    <2> QED BY <2>1, NothingNumbered DEF WatchInit, ProfilerInv
<1>4. RoutineInv
    BY DEF WatchInit, RoutineInv, Stamps, NoQuery
<1> QED BY <1>2, <1>3, <1>4 DEF WatchInv

\* Under the lock of the detector.
LEMMA DetectorRecords ==
  ASSUME WatchInv, NEW g \in Routines, DetectorRecord(g)
  PROVE  WatchInv'
<1>1. PICK p, now : p = stamped[g].p /\ now = stamped[g].t
    OBVIOUS
<1>2. /\ entered \in Seq(Recorded) /\ lastClean \in Nat /\ queries \in SUBSET (1 .. Len(entered))
      /\ DOMAIN detections \subseteq Patterns /\ Often(entered, DOMAIN detections) /\ clock \in Nat
      /\ ~late => InTime(entered, queries, lastClean) /\ Told(entered, DOMAIN detections, called)
    BY DEF WatchInv, DetectorInv
<1>3. stamped[g].at = "lock" /\ p \in Patterns /\ now \in Nat
    BY <1>1, StampKinds DEF DetectorRecord, WatchInv, RoutineInv
<1>4. PICK kept, next :
        IF now - lastClean > CleanSpan
        THEN kept = {i \in queries : entered[i].t > now - KeepSpan} /\ next = now
        ELSE kept = queries /\ next = lastClean
    OBVIOUS
<1>5. kept = (IF now - lastClean > CleanWindows * TimeWindow THEN cleanOldQueries(now) ELSE queries)
      /\ next = (IF now - lastClean > CleanWindows * TimeWindow THEN now ELSE lastClean)
    BY <1>4 DEF CleanSpan, KeepSpan, cleanOldQueries
<1>6. PICK new : new = Append(entered, [p |-> p, t |-> now])
    OBVIOUS
<1>7. Adds(entered, p, now, new)
    BY <1>2, <1>3, <1>6 DEF Adds
<1>8. PICK n : n = Len(entered)
    OBVIOUS
<1>9. Added(entered, p, now, new, n)
    BY ONLY <1>7, <1>8, RecordMore, Zenon
<1>10. kept \in SUBSET (1 .. n)
    BY <1>2, <1>4, <1>8
<1>11. PICK count : count = Similar(new, kept \cup {n + 1}, p, now)
    OBVIOUS
<1>12. Len(new) = n + 1
    BY <1>9 DEF Added
<1>13. /\ entered' = new /\ queries' = kept \cup {n + 1} /\ lastClean' = next
       /\ DOMAIN detections' = (IF count < Threshold THEN DOMAIN detections ELSE DOMAIN detections \cup {p})
       /\ called' = (IF count = Threshold THEN called \cup {p} ELSE called)
       /\ late' = (late \/ now < lastClean \/ \E i \in DOMAIN entered : entered[i].t > now)
       /\ stamped' = [stamped EXCEPT ![g] = [at |-> "run"]]
       /\ UNCHANGED <<clock, stats, ended, alerts>>
    BY <1>1, <1>5, <1>6, <1>11, <1>12 DEF DetectorRecord, profilerVars
<1>14. Often(new, DOMAIN detections')
    <2>1. PICK more : more = DOMAIN detections'
        OBVIOUS
    <2>2. PICK found : found = DOMAIN detections
        OBVIOUS
    <2>3. Grows(found, more, p, Similar(new, kept \cup {Len(entered) + 1}, p, now))
        BY <1>8, <1>11, <1>13, <2>1, <2>2 DEF Grows
    <2>4. Often(entered, found) /\ Places(entered, kept)
        BY <1>2, <1>8, <1>10, <2>2 DEF Places
    <2>5. Often(new, more)
        BY ONLY <1>7, <2>3, <2>4, OftenKept, Zenon
    <2> QED BY <2>1, <2>5
<1>15. ASSUME ~late'
       PROVE  InTime(new, queries', next) /\ Told(new, DOMAIN detections', called')
    <2>1. ~late /\ lastClean <= now /\ NoneAfter(entered, now)
        <3>1. \A i \in 1 .. n : ~(entered[i].t > now) /\ entered[i].t \in Nat /\ DOMAIN entered = 1 .. n
            BY <1>9, <1>13, <1>15 DEF Added
        <3>2. \A i \in 1 .. n : entered[i].t <= now
            BY <1>3, <3>1
        <3>3. ~late /\ ~(now < lastClean)
            BY <1>13, <1>15
        <3>4. NoneAfter(entered, now)
            BY ONLY <1>8, <3>2 DEF NoneAfter
        <3> QED BY <1>2, <1>3, <3>3, <3>4
    <2>2. PICK old : old = lastClean
        OBVIOUS
    <2>3. PICK places : places = queries
        OBVIOUS
    <2>4. PICK list : list = entered
        OBVIOUS
    <2>5. /\ old \in Nat /\ InTime(list, places, old) /\ NoneAfter(list, now) /\ old <= now
          /\ Adds(list, p, now, new) /\ places \in SUBSET (1 .. Len(list)) /\ n = Len(list)
          /\ IF now - old > CleanSpan
             THEN kept = {i \in places : list[i].t > now - KeepSpan} /\ next = now
             ELSE kept = places /\ next = old
        BY <1>2, <1>4, <1>7, <1>8, <2>1, <2>2, <2>3, <2>4
    <2>6. InTime(new, kept \cup {Len(list) + 1}, next)
        BY ONLY <2>5, InTimeKept, Zenon
    <2>7. next \in Nat /\ next <= now
        BY <1>3, <2>5
    <2>8. Places(list, kept)
        BY <1>10, <2>5 DEF Places
    <2>9. Adds(list, p, now, new) /\ NoneAfter(list, now)
        BY <2>5
    <2>10. WindowCounted(list, new, kept, p, now)
        BY ONLY <2>6, <2>7, <2>8, <2>9, CountsWindow, Zenon
    <2>11. \A i, j \in 1 .. Len(new) : i < j => new[i].t <= new[j].t
        BY <2>6 DEF InTime
    <2>12. PICK found, rung, more, also : found = DOMAIN detections /\ rung = called
                                          /\ more = DOMAIN detections' /\ also = called'
        OBVIOUS
    <2>13. /\ Told(list, found, rung) /\ found \subseteq Patterns
           /\ count = Cardinality(Since(new, p, now))
           /\ more = (IF count < Threshold THEN found ELSE found \cup {p})
           /\ also = (IF count = Threshold THEN rung \cup {p} ELSE rung)
        BY <1>2, <1>11, <1>13, <2>1, <2>4, <2>5, <2>10, <2>12 DEF WindowCounted
    <2>14. Told(new, more, also)
        BY ONLY <2>5, <2>10, <2>11, <2>13, ToldKept
    <2> QED BY <1>13, <2>5, <2>6, <2>12, <2>14
<1>16. new \in Seq(Recorded) /\ next \in Nat /\ queries' \in SUBSET (1 .. Len(new))
    <2>1. n + 1 \in 1 .. n + 1 /\ \A i \in 1 .. n : i \in 1 .. n + 1
        BY <1>9 DEF Added
    <2> QED BY <1>2, <1>3, <1>4, <1>9, <1>10, <1>12, <1>13, <2>1 DEF Added
<1>17. DetectorInv'
    BY <1>2, <1>3, <1>13, <1>14, <1>15, <1>16 DEF DetectorInv
<1>18. ProfilerInv'
    BY <1>13 DEF WatchInv, ProfilerInv
<1>19. RoutineInv'
    BY <1>13 DEF WatchInv, RoutineInv, Stamps
<1> QED BY <1>17, <1>18, <1>19 DEF WatchInv

\* The statement has run.
Half(list) == IF Len(list) >= MaxQueries THEN SubSeq(list, Len(list) \div 2 + 1, Len(list)) ELSE list
Profiled(list, last, one, new) ==
  /\ new \in Seq(StatValues) /\ Numbered(new, last + 1)
  /\ \A i \in 1 .. Len(new) : new[i] = one \/ \E j \in 1 .. Len(list) : new[i] = list[j]

\* A full list loses its older half, and then it has room.
Filled(n, m, last) ==
  n <= last /\ (n <= m \/ (m = 1 /\ n <= 2)) /\ (n >= m \div 2 + 1 \/ n = last)
LEMMA HalfOf ==
  ASSUME NEW n \in Nat, NEW m \in Nat \ {0}, NEW last \in Nat, Filled(n, m, last),
         NEW h, h = (IF n >= m THEN n \div 2 ELSE 0)
  PROVE  h \in Nat /\ h <= n /\ Filled((n - h) + 1, m, last + 1)
<1> USE DEF Filled
<1>1. PICK a, b : a = n \div 2 /\ b = m \div 2
    OBVIOUS
<1>2. a \in Nat /\ 2 * a <= n /\ n <= 2 * a + 1
    BY <1>1
<1>3. b \in Nat /\ 2 * b <= m /\ m <= 2 * b + 1
    BY <1>1
<1>4. CASE n >= m
    <2>1. h = a /\ (n = m \/ (m = 1 /\ n = 2))
        BY <1>1, <1>4
    <2>2. n = m => a = b
        BY <1>1
    <2>3. n = 2 => a = 1
        BY <1>2
    <2> QED BY <1>1, <1>2, <1>3, <1>4, <2>1, <2>2, <2>3
<1>5. CASE ~(n >= m)
    <2>1. h = 0 /\ n < m /\ n + 1 <= m
        BY <1>5
    <2> QED BY <1>1, <1>3, <2>1
<1> QED BY <1>4, <1>5

Newer(list, n, h, kept, m) ==
  /\ kept \in Seq(StatValues) /\ Len(kept) = m
  /\ \A i \in 1 .. m : kept[i] = list[h + i] /\ h + i \in 1 .. n
LEMMA HalfKeeps ==
  ASSUME NEW list \in Seq(StatValues), NEW n \in Nat, n = Len(list), NEW h \in Nat, h <= n,
         h = (IF n >= MaxQueries THEN n \div 2 ELSE 0),
         NEW kept, kept = Half(list), NEW m, m = n - h
  PROVE  Newer(list, n, h, kept, m)
<1> USE DEF Newer
<1>1. m \in Nat /\ \A i \in 1 .. m : h + i \in 1 .. n
    OBVIOUS
<1>2. CASE n >= MaxQueries
    <2>1. kept = SubSeq(list, h + 1, n)
        BY <1>2 DEF Half
    <2>2. PICK first : first = h + 1
        OBVIOUS
    <2>3. first \in Int /\ n \in Int /\ \A i \in first .. n : list[i] \in StatValues
        BY <1>1, <2>2
    <2>4. SubSeq(list, first, n) \in Seq(StatValues)
        BY ONLY <2>3, SubSeqProperties
    <2>5. Len(SubSeq(list, first, n)) = IF first <= n THEN n - first + 1 ELSE 0
        BY ONLY <2>3, SubSeqProperties
    <2>6. \A i \in 1 .. n - first + 1 : SubSeq(list, first, n)[i] = list[first + i - 1]
        BY ONLY <2>3, SubSeqProperties
    <2>7. n - first + 1 = m /\ (first <= n \/ m = 0) /\ \A i \in 1 .. m : first + i - 1 = h + i
        BY <1>1, <2>2
    <2>8. kept = SubSeq(list, first, n)
        BY <2>1, <2>2
    <2>9. Len(kept) = m /\ \A i \in 1 .. m : kept[i] = list[first + i - 1]
        BY ONLY <1>1, <2>3, <2>7, <2>5, <2>6, <2>8
    <2> QED BY ONLY <1>1, <2>4, <2>7, <2>8, <2>9
<1>3. CASE ~(n >= MaxQueries)
    <2>1. kept = list /\ h = 0 /\ m = n
        BY <1>3 DEF Half
    <2> QED BY <1>1, <2>1
<1> QED BY <1>2, <1>3

LEMMA NumberedKept ==
  ASSUME NEW list \in Seq(StatValues), NEW last \in Nat, Numbered(list, last),
         NEW one \in StatValues, one.n = last + 1,
         NEW new, new = Append(Half(list), one)
  PROVE  Profiled(list, last, one, new)
<1>1. PICK n \in Nat : n = Len(list)
    OBVIOUS
<1>2. PICK h : h = (IF n >= MaxQueries THEN n \div 2 ELSE 0)
    OBVIOUS
<1>3. Filled(n, MaxQueries, last) /\ \A i \in 1 .. n : list[i].n = last - n + i
    BY <1>1 DEF Numbered, Filled
<1>4. PICK m : m = n - h
    OBVIOUS
<1>5. MaxQueries \in Nat \ {0}
    BY WatchAssumption
<1>6. h \in Nat /\ h <= n /\ Filled(m + 1, MaxQueries, last + 1)
    BY ONLY n \in Nat, <1>2, <1>3, <1>4, <1>5, last \in Nat, HalfOf, Zenon
<1>7. PICK kept : kept = Half(list)
    OBVIOUS
<1>8. Newer(list, n, h, kept, m)
    BY ONLY n \in Nat, list \in Seq(StatValues), <1>1, <1>2, <1>4, <1>6, <1>7, HalfKeeps, Zenon
<1>9. /\ kept \in Seq(StatValues) /\ Len(kept) = m
      /\ \A i \in 1 .. m : kept[i] = list[h + i] /\ h + i \in 1 .. n
    BY <1>8 DEF Newer
<1>10. m \in Nat
    BY <1>1, <1>4, <1>6
<1>11. new = Append(kept, one)
    BY <1>7
<1>12. /\ new \in Seq(StatValues) /\ Len(new) = m + 1 /\ new[m + 1] = one
       /\ \A i \in 1 .. m : new[i] = kept[i]
    BY ONLY <1>9, <1>10, <1>11, one \in StatValues
<1>13. \A i \in 1 .. m + 1 : i \in 1 .. m \/ i = m + 1
    BY <1>10
<1>14. \A i \in 1 .. m + 1 : new[i].n = (last + 1) - (m + 1) + i
    <2>1. \A i \in 1 .. m : list[h + i].n = last - n + (h + i)
        BY <1>3, <1>9
    <2>2. \A i \in 1 .. m : last - n + (h + i) = (last + 1) - (m + 1) + i
        BY ONLY <1>1, <1>4, <1>6, <1>10, last \in Nat
    <2>3. (last + 1) - (m + 1) + (m + 1) = last + 1
        BY <1>10
    <2>4. \A i \in 1 .. m : new[i].n = (last + 1) - (m + 1) + i
        <3> SUFFICES ASSUME NEW i \in 1 .. m
                     PROVE  new[i].n = (last + 1) - (m + 1) + i
            OBVIOUS
        <3>1. new[i] = list[h + i]
            BY ONLY <1>9, <1>12, i \in 1 .. m
        <3> QED BY ONLY <2>1, <2>2, <3>1, i \in 1 .. m
    <2>5. new[m + 1].n = (last + 1) - (m + 1) + (m + 1)
        BY ONLY <1>12, <2>3, one.n = last + 1
    <2> QED BY ONLY <1>13, <2>4, <2>5
<1>15. \A i \in 1 .. m + 1 : new[i] = one \/ \E j \in 1 .. n : new[i] = list[j]
    BY ONLY <1>9, <1>12, <1>13
<1> QED BY ONLY <1>1, <1>6, <1>12, <1>14, <1>15 DEF Numbered, Profiled, Filled

LEMMA ProfilerRecords ==
  ASSUME WatchInv, NEW g \in Routines, NEW slow \in BOOLEAN, ProfilerRecord(g, slow)
  PROVE  WatchInv'
<1>1. DetectorInv'
    BY DEF ProfilerRecord, detectorVars, WatchInv, DetectorInv
<1>2. CASE "profiler" \in enabled
    <2>1. PICK list, last : list = stats /\ last = ended
        OBVIOUS
    <2>2. PICK one : one = [n |-> last + 1, slow |-> slow]
        OBVIOUS
    <2>3. PICK new : new = Append(Half(list), one)
        OBVIOUS
    <2>4. list \in Seq(StatValues) /\ last \in Nat /\ Numbered(list, last)
        BY <2>1 DEF WatchInv, ProfilerInv
    <2>5. one \in StatValues /\ one.n = last + 1 /\ one.slow = slow
        BY <2>2, <2>4 DEF StatValues
    <2>6. Profiled(list, last, one, new)
        BY ONLY <2>3, <2>4, <2>5, NumberedKept, Zenon
    <2>7. /\ stats' = new /\ ended' = last + 1
          /\ alerts' = [alerts EXCEPT !.due = IF slow THEN @ \cup {last + 1} ELSE @]
          /\ stamped' = [stamped EXCEPT ![g] = IF slow THEN [at |-> "alert", n |-> last + 1] ELSE NoQuery]
        BY <1>2, <2>1, <2>2, <2>3 DEF ProfilerRecord, Half
    <2>8. /\ alerts \in [due : SUBSET (1 .. last), given : SUBSET (1 .. last)]
          /\ \A i \in 1 .. Len(list) : list[i].slow => list[i].n \in alerts.due \cup alerts.given
          /\ alerts.due \cap alerts.given = {}
        BY <2>1 DEF WatchInv, ProfilerInv
    <2>9. last + 1 \in 1 .. last + 1 /\ last + 1 \notin 1 .. last /\ \A i \in 1 .. last : i \in 1 .. last + 1
        BY <2>4
    <2>10. /\ alerts'.due = (IF slow THEN alerts.due \cup {last + 1} ELSE alerts.due)
           /\ alerts'.given = alerts.given
           /\ alerts' \in [due : SUBSET (1 .. last + 1), given : SUBSET (1 .. last + 1)]
        BY <2>7, <2>8, <2>9
    <2>11. ProfilerInv'
        <3>1. \A i \in 1 .. Len(new) : new[i].slow => new[i].n \in alerts'.due \cup alerts'.given
            BY <2>5, <2>6, <2>8, <2>9, <2>10 DEF Profiled
        <3>2. alerts'.due \cap alerts'.given = {}
            BY <2>8, <2>9, <2>10
        <3>3. ended' \in Nat /\ stats' \in Seq(StatValues) /\ Numbered(stats', ended')
            BY <2>4, <2>6, <2>7 DEF Profiled
        <3> QED BY <2>7, <2>10, <3>1, <3>2, <3>3 DEF ProfilerInv
    <2>12. RoutineInv'
        <3>1. stamped' \in [Routines -> Stamps]
            BY <2>4, <2>7 DEF WatchInv, RoutineInv, Stamps
        <3>2. ASSUME NEW r \in Routines, stamped'[r].at = "alert"
              PROVE  stamped'[r].n \in 1 .. last + 1
            <4>1. CASE r = g
                BY <2>7, <2>9, <3>2, <4>1 DEF WatchInv, RoutineInv, NoQuery
            <4>2. CASE r # g
                <5>1. stamped[r].at = "alert" /\ stamped'[r] = stamped[r]
                    BY <2>7, <3>2, <4>2 DEF WatchInv, RoutineInv
                <5> QED BY <2>1, <2>9, <5>1 DEF WatchInv, RoutineInv
            <4> QED BY <4>1, <4>2
        <3> QED BY <2>7, <3>1, <3>2 DEF RoutineInv
    <2> QED BY <1>1, <2>11, <2>12 DEF WatchInv
<1>3. CASE "profiler" \notin enabled
    <2>1. stamped' = [stamped EXCEPT ![g] = NoQuery] /\ UNCHANGED <<stats, ended, alerts>>
        BY <1>3 DEF ProfilerRecord
    <2>2. ProfilerInv' /\ RoutineInv'
        BY <2>1 DEF WatchInv, ProfilerInv, RoutineInv, Stamps, NoQuery
    <2> QED BY <1>1, <2>2 DEF WatchInv
<1> QED BY <1>2, <1>3

LEMMA SlowOnes ==
  ASSUME WatchInv, NEW g \in Routines, OnSlowQuery(g)
  PROVE  WatchInv'
<1>1. DetectorInv'
    BY DEF OnSlowQuery, detectorVars, WatchInv, DetectorInv
<1>2. PICK k : k = stamped[g].n
    OBVIOUS
<1>3. /\ k \in 1 .. ended /\ UNCHANGED <<stats, ended>>
      /\ alerts' = [due |-> alerts.due \ {k}, given |-> alerts.given \cup {k}]
      /\ stamped' = [stamped EXCEPT ![g] = NoQuery]
    BY <1>2 DEF OnSlowQuery, WatchInv, RoutineInv
<1>4. ProfilerInv'
    <2>1. alerts'.due = alerts.due \ {k} /\ alerts'.given = alerts.given \cup {k}
        BY <1>3
    <2>2. alerts \in [due : SUBSET (1 .. ended), given : SUBSET (1 .. ended)]
        BY DEF WatchInv, ProfilerInv
    <2>3. alerts' \in [due : SUBSET (1 .. ended), given : SUBSET (1 .. ended)]
        BY <1>3, <2>2
    <2>4. alerts'.due \cap alerts'.given = {}
        BY <2>1 DEF WatchInv, ProfilerInv
    <2> QED BY <1>3, <2>1, <2>3, <2>4 DEF WatchInv, ProfilerInv
<1>5. RoutineInv'
    BY <1>3 DEF WatchInv, RoutineInv, Stamps, NoQuery
<1> QED BY <1>1, <1>4, <1>5 DEF WatchInv

LEMMA Stamped ==
  ASSUME WatchInv, NEW g \in Routines, NEW p \in Patterns, Stamp(g, p)
  PROVE  WatchInv'
<1>1. PICK s : s = IF "detector" \in enabled THEN [at |-> "lock", p |-> p, t |-> clock] ELSE [at |-> "run"]
    OBVIOUS
<1>2. s \in Stamps /\ s.at # "alert"
    BY <1>1 DEF Stamps, WatchInv, DetectorInv
<1>3. stamped' = [stamped EXCEPT ![g] = s] /\ UNCHANGED <<clock, detectorVars, profilerVars>>
    BY <1>1 DEF Stamp
<1>4. DetectorInv' /\ ProfilerInv'
    BY <1>3 DEF WatchInv, DetectorInv, ProfilerInv, detectorVars, profilerVars
<1>5. RoutineInv'
    BY <1>2, <1>3 DEF WatchInv, RoutineInv, profilerVars
<1> QED BY <1>4, <1>5 DEF WatchInv

LEMMA Clears ==
  ASSUME WatchInv, DetectorClear \/ ProfilerClear
  PROVE  WatchInv'
<1>1. CASE DetectorClear
    <2>1. /\ entered' = <<>> /\ queries' = {} /\ DOMAIN detections' = {} /\ called' = {}
          /\ UNCHANGED <<clock, stamped, lastClean, profilerVars>>
        BY <1>1 DEF DetectorClear
    <2>2. InTime(entered', queries', lastClean')
        BY <2>1, NothingInTime
    <2>3. Told(entered', DOMAIN detections', called') /\ Often(entered', DOMAIN detections')
        BY <2>1, NoBurst
    <2>4. DetectorInv'
        BY <2>1, <2>2, <2>3 DEF WatchInv, DetectorInv
    <2> QED BY <2>1, <2>4 DEF WatchInv, ProfilerInv, RoutineInv, profilerVars
<1>2. CASE ProfilerClear
    <2>1. /\ stats' = <<>> /\ ended' = 0 /\ alerts' = [due |-> {}, given |-> {}]
          /\ UNCHANGED <<clock, stamped, detectorVars>>
          /\ \A g \in Routines : stamped[g].at # "alert"
        BY <1>2 DEF ProfilerClear
    <2>2. \A i \in 1 .. Len(stats') : FALSE
        BY <2>1
    <2>3. ProfilerInv'
        BY <2>1, <2>2, NothingNumbered DEF ProfilerInv
    <2> QED BY <2>1, <2>3 DEF WatchInv, DetectorInv, RoutineInv, detectorVars
<1> QED BY <1>1, <1>2

LEMMA ExactWatchers == WatchInv => WatchersExact
<1> SUFFICES ASSUME WatchInv PROVE WatchersExact
    OBVIOUS
<1>1. ~late => \A p \in Patterns : /\ p \in DOMAIN detections <=> Burst(entered, p)
                                   /\ p \in DOMAIN detections => p \in called
    BY DEF WatchInv, DetectorInv, Told
<1>2. \A p \in DOMAIN detections : Cardinality(Of(entered, p)) >= Threshold
    BY DEF WatchInv, DetectorInv, Often
<1>3. ASSUME ~late, NEW i \in queries
      PROVE  entered[Len(entered)].t - entered[i].t < (CleanWindows + KeepWindows) * TimeWindow
    <2>1. entered \in Seq(Recorded) /\ i \in 1 .. Len(entered) /\ lastClean \in Nat
          /\ InTime(entered, queries, lastClean)
        BY <1>3 DEF WatchInv, DetectorInv
    <2>2. PICK n \in Nat : n = Len(entered)
        BY <2>1
    <2>3. PICK a, b, cleaned : a = entered[i].t /\ b = entered[n].t /\ cleaned = lastClean
        OBVIOUS
    <2>4. n > 0 /\ n \in 1 .. n /\ i \in 1 .. n
        BY <2>1, <2>2
    <2>5. entered[i] \in Recorded /\ entered[n] \in Recorded
        BY <2>1, <2>2, <2>4
    <2>6. a \in Nat /\ b \in Nat /\ cleaned \in Nat
        BY <2>1, <2>3, <2>5 DEF Recorded
    <2>7. b - cleaned <= CleanSpan /\ a > cleaned - KeepSpan
        BY <2>1, <2>2, <2>3, <2>4 DEF InTime
    <2>8. b - a < CleanSpan + KeepSpan
        BY ONLY <2>6, <2>7, Spans
    <2> QED BY <2>2, <2>3, <2>8, Spans
<1>4. DOMAIN stats = 1 .. Len(stats) /\ Numbered(stats, ended)
    BY DEF WatchInv, ProfilerInv
<1>5. MaxQueries > 1 => Len(stats) <= MaxQueries
    BY <1>4 DEF Numbered
<1>6. /\ \A i \in DOMAIN stats : stats[i].n = ended - Len(stats) + i
      /\ Len(stats) >= MaxQueries \div 2 + 1 \/ Len(stats) = ended
    BY <1>4 DEF Numbered
<1>7. /\ \A i \in DOMAIN stats : stats[i].slow => (stats[i].n \in alerts.due \/ stats[i].n \in alerts.given)
      /\ alerts.due \cap alerts.given = {}
    BY <1>4 DEF WatchInv, ProfilerInv
<1> QED BY <1>1, <1>2, <1>3, <1>5, <1>6, <1>7 DEF WatchersExact

\* Whatever the goroutines, thresholds, windows and limits, the two watchers are
\* exact as far as their records come in order (n1detector.go Record and Clear,
\* profiler.go Record and Clear).
THEOREM WatchersExactHolds == WatchSpec => []WatchersExact
<1>1. WatchInv /\ [WatchNext]_watchVars => WatchInv'
    <2> SUFFICES ASSUME WatchInv, [WatchNext]_watchVars
                 PROVE  WatchInv'
        OBVIOUS
    <2>1. CASE UNCHANGED watchVars
        BY <2>1 DEF watchVars, WatchInv, DetectorInv, ProfilerInv, RoutineInv
    <2>2. CASE Tick
        BY <2>2 DEF Tick, detectorVars, profilerVars, WatchInv, DetectorInv, ProfilerInv, RoutineInv
    <2> QED BY <2>1, <2>2, DetectorRecords, ProfilerRecords, SlowOnes, Stamped, Clears DEF WatchNext
<1> QED BY WatchStarts, <1>1, ExactWatchers, PTL DEF WatchSpec

-----------------------------------------------------------------------------
\* Would a row of this key come beyond the cursor?
Ahead(key, up) == cursor = NoCursor \/ IF up THEN key > cursor ELSE key < cursor
Shown(i) == \E n \in DOMAIN visited : visited[n] = i
\* The direction in which a walk reads.
Upward == desc = (walk = "backward")

\* While a walk runs the distinct rows that it showed are those the cursor has
\* passed, and it showed all it passed that were there throughout.
PageTypes ==
  /\ present \subseteq PageIds /\ steady \subseteq present
  /\ visited \in Seq(PageIds) /\ cursor \in Nat \cup {NoCursor} /\ desc \in BOOLEAN
  /\ walk \in {"idle", "forward", "backward", "default", "ended", "cut", "failed"}
KeysInOrder ==
  \A m, n \in DOMAIN visited :
     (m < n /\ Distinct(visited[m]) /\ Distinct(visited[n])) =>
        IF desc THEN Key[visited[m]] > Key[visited[n]] ELSE Key[visited[m]] < Key[visited[n]]
PageInv ==
  /\ PageTypes /\ KeysInOrder
  /\ walk \in {"idle", "default"} => visited = << >> /\ cursor = NoCursor
  /\ Running =>
       /\ \A n \in DOMAIN visited : Distinct(visited[n]) => ~Ahead(Key[visited[n]], Upward)
       /\ \A i \in steady : Distinct(i) => Ahead(Key[i], Upward) \/ Shown(i)
  /\ walk = "ended" => \A i \in steady : Distinct(i) => Shown(i)

\* A row whose key the cursor can hold lies on the same side of a cursor that was
\* made of another key as of that key.
LEMMA CursorSides ==
  ASSUME NEW i \in PageIds, NEW j \in PageIds, Distinct(i)
  PROVE  /\ Decoded(Key[j]) \in Nat /\ Decoded(Key[j]) # NoCursor
         /\ Key[i] <= Key[j] <=> Key[i] <= Decoded(Key[j])
         /\ Key[i] < Key[j] => Key[i] <= Decoded(Key[j])
         /\ Key[i] >= Key[j] <=> Key[i] >= Decoded(Key[j])
         /\ i # j => Key[i] # Key[j]
<1>1. Key[i] \in Nat /\ Key[j] \in Nat /\ Exact \in Nat
    BY PaginationAssumption
<1>2. Key[i] < Exact - 1
    BY DEF Distinct
<1>3. i # j => Key[i] # Key[j]
    BY DEF Distinct
<1>4. CASE Key[j] < Exact
    BY <1>1, <1>2, <1>3, <1>4 DEF Decoded, NoCursor
<1>5. CASE ~(Key[j] < Exact)
    <2>1. Decoded(Key[j]) = 2 * (Key[j] \div 2)
        BY <1>5 DEF Decoded
    <2>2. Decoded(Key[j]) \in Nat /\ Decoded(Key[j]) >= Key[j] - 1 /\ Decoded(Key[j]) <= Key[j]
        BY <1>1, <2>1
    <2> QED BY <1>1, <1>2, <1>3, <1>5, <2>2 DEF NoCursor
<1> QED BY <1>4, <1>5

\* The rows of an answer that a page keeps.
Cut(found, limit) == IF Len(found) > limit THEN SubSeq(found, 1, limit) ELSE found

\* What one Fetch returns, whatever ties the database breaks: rows beyond the
\* cursor, in the order of the query, and none left out before the last of them.
LEMMA FoundRows ==
  ASSUME NEW S, IsFiniteSet(S), NEW up \in BOOLEAN, NEW limit \in Nat \ {0},
         NEW found \in Sorted(S, up, limit + 1)
  PROVE  LET page == Cut(found, limit) IN
         /\ page \in Seq(S)
         /\ \A m, n \in DOMAIN page : m < n => page[m] # page[n] /\ NotAfter(page[m], page[n], up)
         /\ ~(Len(found) > limit) => \A i \in S : \E n \in DOMAIN page : page[n] = i
         /\ page # << >> =>
              \A i \in S : (\E n \in DOMAIN page : page[n] = i) \/ NotAfter(page[Len(page)], i, up)
<1> DEFINE page == Cut(found, limit)
           size == IF Cardinality(S) < limit + 1 THEN Cardinality(S) ELSE limit + 1
<1>1. Cardinality(S) \in Nat /\ size \in Nat
    BY FS_CardinalityType
<1>2. /\ found \in [1 .. size -> S] /\ IsInjective(found)
      /\ \A m \in DOMAIN found :
            /\ \A n \in DOMAIN found : m < n => NotAfter(found[m], found[n], up)
            /\ \A y \in S \ Range(found) : NotAfter(found[m], y, up)
    BY DEF Sorted
<1> HIDE DEF size
<1>3. found \in Seq(S) /\ Len(found) = size /\ DOMAIN found = 1 .. size
    BY <1>1, <1>2
<1>4. /\ page \in Seq(S) /\ Len(page) \in Nat /\ DOMAIN page = 1 .. Len(page)
      /\ Len(page) = IF size > limit THEN limit ELSE size
      /\ \A n \in DOMAIN page : n \in DOMAIN found /\ page[n] = found[n]
    <2>1. CASE size > limit
        <3>1. page = SubSeq(found, 1, limit) /\ limit \in 1 .. size
            BY <1>1, <1>3, <2>1 DEF Cut
        <3>2. /\ page \in Seq(S) /\ Len(page) = limit
              /\ \A n \in 1 .. limit : page[n] = found[n]
            BY <1>3, <3>1
        <3> QED BY <1>3, <2>1, <3>1, <3>2
    <2>2. CASE ~(size > limit)
        BY <1>1, <1>3, <2>2 DEF Cut
    <2> QED BY <2>1, <2>2
<1> HIDE DEF page
<1>5. \A m, n \in DOMAIN page : m < n => page[m] # page[n] /\ NotAfter(page[m], page[n], up)
    BY <1>2, <1>3, <1>4 DEF IsInjective
<1>6. ASSUME ~(Len(found) > limit), NEW i \in S PROVE \E n \in DOMAIN page : page[n] = i
    <2>1. size = Cardinality(S)
        BY <1>1, <1>3, <1>6 DEF size
    <2>2. found \in Injection(1 .. size, S)
        BY <1>2 DEF Injection
    <2>3. Cardinality(1 .. size) = size
        BY <1>1, FS_Interval
    <2>4. found \in Surjection(1 .. size, S)
        BY <2>1, <2>2, <2>3, FS_Injection
    <2>5. page = found
        BY <1>6 DEF page, Cut
    <2> QED BY <1>3, <2>4, <2>5 DEF Surjection
<1>7. ASSUME page # << >>, NEW i \in S
      PROVE  (\E n \in DOMAIN page : page[n] = i) \/ NotAfter(page[Len(page)], i, up)
    <2>1. Len(page) \in DOMAIN page /\ Len(page) \in DOMAIN found /\ page[Len(page)] = found[Len(page)]
        BY <1>4, <1>7
    <2>2. CASE i \notin Range(found)
        BY <1>2, <2>1, <2>2
    <2>3. CASE i \in Range(found)
        <3>1. PICK n \in DOMAIN found : found[n] = i
            BY <2>3 DEF Range
        <3>2. CASE n \in DOMAIN page
            BY <1>4, <3>1, <3>2
        <3>3. CASE n \notin DOMAIN page
            <4>1. Len(page) < n
                BY <1>1, <1>3, <1>4, <3>3
            <4> QED BY <1>2, <2>1, <3>1, <4>1
        <3> QED BY <3>2, <3>3
    <2> QED BY <2>2, <2>3
<1> QED BY <1>4, <1>5, <1>6, <1>7 DEF page

\* The same of a page, which is turned round for Last; its far end is the row that
\* the next cursor is made of.
FarEnd(page, last) == IF last THEN Head(page) ELSE Last(page)
FarthestRow(page, S, up, e) ==
  /\ \E n \in DOMAIN page : page[n] = e
  /\ \A n \in DOMAIN page : NotAfter(page[n], e, up)
  /\ \A i \in S : (\E n \in DOMAIN page : page[n] = i) \/ NotAfter(e, i, up)
GoodPage(p, S, last, up) ==
  /\ p.items \in Seq(S)
  /\ \A m, n \in DOMAIN p.items : m < n =>
       p.items[m] # p.items[n] /\ NotAfter(p.items[m], p.items[n], ~desc)
  /\ ~p.hasMore => \A i \in S : \E n \in DOMAIN p.items : p.items[n] = i
  /\ p.items # << >> => FarthestRow(p.items, S, up, FarEnd(p.items, last))
LEMMA PageRows ==
  ASSUME PageTypes, NEW last \in BOOLEAN, NEW limit \in Nat \ {0}, NEW p \in Fetch(last, limit)
  PROVE  GoodPage(p, Beyond(desc = last), last, desc = last)
<1> DEFINE up == (desc = last)
           S == Beyond(up)
<1>1. PICK found \in Sorted(S, up, limit + 1) : p = PageOf(found, last, limit)
    BY DEF Fetch
<1> DEFINE page == Cut(found, limit)
<1>2. /\ p.items = IF last THEN Reverse(page) ELSE page
      /\ p.hasMore <=> Len(found) > limit
    BY <1>1 DEF PageOf, Cut
<1>3. S \subseteq PageIds /\ IsFiniteSet(S) /\ up \in BOOLEAN
    BY FS_Subset, PaginationAssumption DEF Beyond, PageTypes
<1>4. /\ page \in Seq(S)
      /\ \A m, n \in DOMAIN page : m < n => page[m] # page[n] /\ NotAfter(page[m], page[n], up)
      /\ ~(Len(found) > limit) => \A i \in S : \E n \in DOMAIN page : page[n] = i
      /\ page # << >> =>
           \A i \in S : (\E n \in DOMAIN page : page[n] = i) \/ NotAfter(page[Len(page)], i, up)
    <2> HIDE DEF S, up
    <2> QED BY <1>1, <1>3, FoundRows
<1> HIDE DEF page, S
<1>5. Len(page) \in Nat /\ DOMAIN page = 1 .. Len(page) /\ \A n \in DOMAIN page : page[n] \in PageIds
    BY <1>3, <1>4
<1>6. \A i \in PageIds : Key[i] \in Nat
    BY PaginationAssumption
<1>7. \A i, j \in PageIds : NotAfter(i, i, up) /\ (NotAfter(i, j, up) <=> NotAfter(j, i, ~up))
    BY <1>3, <1>6 DEF NotAfter
<1>8. CASE ~last
    <2>1. p.items = page /\ (~desc) = up
        BY <1>2, <1>8 DEF PageTypes
    <2>2. page # << >> => Len(page) \in DOMAIN page /\ FarEnd(page, last) = page[Len(page)]
        BY <1>5, <1>8 DEF FarEnd, Last
    <2>3. page # << >> => \A n \in DOMAIN page : NotAfter(page[n], FarEnd(page, last), up)
        <3> SUFFICES ASSUME page # << >>, NEW n \in DOMAIN page
                     PROVE  NotAfter(page[n], page[Len(page)], up)
            BY <2>2
        <3>1. n = Len(page) \/ (n < Len(page) /\ Len(page) \in DOMAIN page)
            BY <1>5
        <3> QED BY <1>4, <1>5, <1>7, <3>1
    <2> QED BY <1>2, <1>4, <2>1, <2>2, <2>3 DEF S, GoodPage, FarthestRow
<1>9. CASE last
    <2> DEFINE mirror(n) == (Len(page) - n) + 1
    <2>1. p.items = [n \in 1 .. Len(page) |-> page[mirror(n)]]
        BY <1>2, <1>9 DEF Reverse
    <2>2. \A n \in 1 .. Len(page) : mirror(n) \in 1 .. Len(page) /\ mirror(mirror(n)) = n
        BY <1>5
    <2>3. /\ DOMAIN p.items = DOMAIN page
          /\ \A n \in DOMAIN page : mirror(n) \in DOMAIN page /\ p.items[n] = page[mirror(n)]
                                     /\ p.items[mirror(n)] = page[n]
        BY <1>5, <2>1, <2>2
    <2>4. p.items \in Seq(S)
        <3>1. \A n \in 1 .. Len(page) : page[mirror(n)] \in S
            BY <1>4, <1>5, <2>2
        <3> QED BY <1>5, <2>1, <3>1
    <2>5. \A i : (\E n \in DOMAIN p.items : p.items[n] = i) <=> (\E n \in DOMAIN page : page[n] = i)
        BY <2>3
    <2>6. ~up = ~desc
        BY <1>9 DEF PageTypes
    <2>7. ASSUME NEW m \in DOMAIN p.items, NEW n \in DOMAIN p.items, m < n
          PROVE  p.items[m] # p.items[n] /\ NotAfter(p.items[m], p.items[n], ~desc)
        <3>1. mirror(n) < mirror(m)
            BY <1>5, <2>3, <2>7
        <3>2. /\ mirror(n) \in DOMAIN page /\ mirror(m) \in DOMAIN page
              /\ p.items[m] = page[mirror(m)] /\ p.items[n] = page[mirror(n)]
            BY <2>3, <2>7
        <3> HIDE DEF mirror
        <3>3. /\ page[mirror(n)] # page[mirror(m)]
              /\ NotAfter(page[mirror(n)], page[mirror(m)], up)
            BY <1>4, <3>1, <3>2
        <3> QED BY <1>5, <1>7, <2>6, <3>2, <3>3
    <2>8. ASSUME p.items # << >>
          PROVE  /\ Len(page) \in DOMAIN page /\ FarEnd(p.items, last) = page[Len(page)]
                 /\ page # << >>
        <3>1. Len(p.items) = Len(page)
            BY <1>5, <2>1
        <3>2. Len(page) # 0
            BY <2>4, <2>8, <3>1
        <3>3. 1 \in DOMAIN page /\ mirror(1) = Len(page)
            BY <1>5, <3>2
        <3>4. FarEnd(p.items, last) = p.items[1]
            BY <1>9, <2>4, <2>8 DEF FarEnd
        <3> QED BY <1>5, <2>3, <3>2, <3>3, <3>4
    <2>9. ASSUME p.items # << >>, NEW n \in DOMAIN p.items
          PROVE  NotAfter(p.items[n], FarEnd(p.items, last), up)
        <3>1. mirror(n) \in DOMAIN page /\ p.items[n] = page[mirror(n)]
            BY <2>3, <2>9
        <3>2. mirror(n) = Len(page) \/ mirror(n) < Len(page)
            BY <1>5, <3>1
        <3> HIDE DEF mirror
        <3> QED BY <1>4, <1>5, <1>7, <2>8, <2>9, <3>1, <3>2
    <2>10. ASSUME NEW i \in S, p.items # << >>
           PROVE  (\E n \in DOMAIN p.items : p.items[n] = i) \/ NotAfter(FarEnd(p.items, last), i, up)
        <3>1. (\E n \in DOMAIN page : page[n] = i) \/ NotAfter(page[Len(page)], i, up)
            BY <1>4, <2>8, <2>10
        <3> QED BY ONLY <2>5, <2>8, <2>10, <3>1
    <2>11. ~p.hasMore => \A i \in S : \E n \in DOMAIN p.items : p.items[n] = i
        BY <1>2, <1>4, <2>5
    <2>12. p.items # << >> => \E n \in DOMAIN p.items : p.items[n] = FarEnd(p.items, last)
        BY <2>5, <2>8
    <2> QED BY <2>4, <2>7, <2>9, <2>10, <2>11, <2>12 DEF S, GoodPage, FarthestRow
<1> QED BY <1>8, <1>9

\* Two lists one after the other: the members of u are those of s and of t, and two
\* in order are two of s, two of t, or one of each.
OneAfter(s, t, u) ==
  /\ \A i : (\E n \in DOMAIN u : u[n] = i) <=>
              (\E n \in DOMAIN s : s[n] = i) \/ (\E n \in DOMAIN t : t[n] = i)
  /\ \A m, n \in DOMAIN u : m < n =>
       \/ \E a, b \in DOMAIN s : a < b /\ u[m] = s[a] /\ u[n] = s[b]
       \/ \E a, b \in DOMAIN t : a < b /\ u[m] = t[a] /\ u[n] = t[b]
       \/ (\E a \in DOMAIN s : s[a] = u[m]) /\ (\E b \in DOMAIN t : t[b] = u[n])
LEMMA Joined ==
  ASSUME NEW S, NEW s \in Seq(S), NEW t \in Seq(S)
  PROVE  s \o t \in Seq(S) /\ OneAfter(s, t, s \o t)
<1> DEFINE u == s \o t
<1>1. /\ u \in Seq(S) /\ DOMAIN s = 1 .. Len(s) /\ DOMAIN t = 1 .. Len(t)
      /\ Len(s) \in Nat /\ Len(t) \in Nat /\ DOMAIN u = 1 .. Len(s) + Len(t)
      /\ \A n \in 1 .. Len(s) + Len(t) : u[n] = IF n <= Len(s) THEN s[n] ELSE t[n - Len(s)]
    BY ConcatProperties, LenProperties
<1> HIDE DEF u
<1>2. \A n \in DOMAIN s : n \in DOMAIN u /\ u[n] = s[n]
    BY <1>1
<1>3. ASSUME NEW n \in DOMAIN t PROVE n + Len(s) \in DOMAIN u /\ u[n + Len(s)] = t[n]
    <2>1. n + Len(s) \in 1 .. Len(s) + Len(t) /\ ~(n + Len(s) <= Len(s)) /\ n + Len(s) - Len(s) = n
        BY <1>1
    <2> QED BY <1>1, <2>1
<1>4. ASSUME NEW n \in DOMAIN u
      PROVE  \/ n \in DOMAIN s /\ u[n] = s[n]
             \/ n > Len(s) /\ n - Len(s) \in DOMAIN t /\ u[n] = t[n - Len(s)]
    BY <1>1
<1>5. \A i : (\E n \in DOMAIN u : u[n] = i) <=>
               (\E n \in DOMAIN s : s[n] = i) \/ (\E n \in DOMAIN t : t[n] = i)
    BY <1>2, <1>3, <1>4
<1>6. ASSUME NEW m \in DOMAIN u, NEW n \in DOMAIN u, m < n
      PROVE  \/ \E a, b \in DOMAIN s : a < b /\ u[m] = s[a] /\ u[n] = s[b]
             \/ \E a, b \in DOMAIN t : a < b /\ u[m] = t[a] /\ u[n] = t[b]
             \/ (\E a \in DOMAIN s : s[a] = u[m]) /\ (\E b \in DOMAIN t : t[b] = u[n])
    <2>1. CASE n \in DOMAIN s /\ u[n] = s[n]
        <3>1. m \in DOMAIN s /\ u[m] = s[m]
            BY <1>1, <1>4, <1>6, <2>1
        <3> QED BY <1>6, <2>1, <3>1
    <2>2. CASE n > Len(s) /\ n - Len(s) \in DOMAIN t /\ u[n] = t[n - Len(s)]
        <3>1. CASE m \in DOMAIN s /\ u[m] = s[m]
            BY <2>2, <3>1
        <3>2. CASE m > Len(s) /\ m - Len(s) \in DOMAIN t /\ u[m] = t[m - Len(s)]
            <4>1. m - Len(s) < n - Len(s)
                BY <1>1, <1>6
            <4> QED BY <2>2, <3>2, <4>1
        <3> QED BY <1>4, <3>1, <3>2
    <2> QED BY <1>4, <2>1, <2>2
<1> QED BY <1>1, <1>5, <1>6 DEF u, OneAfter

\* A page of a running walk.
LEMMA WalkStep ==
  ASSUME PageInv, NEW last \in BOOLEAN, walk = IF last THEN "backward" ELSE "forward",
         NEW p \in Fetch(last, PageSize),
         visited' = IF last THEN p.items \o visited ELSE visited \o p.items,
         walk' = IF p.hasMore THEN walk ELSE "ended",
         cursor' = IF p.items = << >> THEN cursor ELSE Decoded(Key[FarEnd(p.items, last)]),
         UNCHANGED <<present, steady, desc>>
  PROVE  PageInv'
<1> DEFINE up == (desc = last)
           page == p.items
           e == FarEnd(page, last)
           old(i) == \E n \in DOMAIN visited : visited[n] = i
           new(i) == \E n \in DOMAIN page : page[n] = i
<1>1. /\ PageTypes /\ KeysInOrder /\ up \in BOOLEAN /\ Upward = up /\ Running
      /\ \A n \in DOMAIN visited : Distinct(visited[n]) => ~Ahead(Key[visited[n]], up)
      /\ \A i \in steady : Distinct(i) => Ahead(Key[i], up) \/ Shown(i)
    BY DEF PageInv, Upward, Running, PageTypes
<1>2. /\ page \in Seq(Beyond(up))
      /\ \A m, n \in DOMAIN page : m < n => page[m] # page[n] /\ NotAfter(page[m], page[n], ~desc)
      /\ ~p.hasMore => \A i \in Beyond(up) : new(i)
      /\ page # << >> => /\ new(e)
                          /\ \A n \in DOMAIN page : NotAfter(page[n], e, up)
                          /\ \A i \in Beyond(up) : new(i) \/ NotAfter(e, i, up)
    <2>1. PageSize \in Nat \ {0}
        BY PaginationAssumption
    <2>2. GoodPage(p, Beyond(desc = last), last, desc = last)
        BY <1>1, <2>1, PageRows
    <2> QED BY ONLY <2>2 DEF GoodPage, FarthestRow
<1>3. \A i \in Beyond(up) : i \in PageIds /\ Ahead(Key[i], up)
    BY <1>1 DEF Beyond, Ahead, PageTypes
<1>4. \A i \in steady : Distinct(i) /\ ~Shown(i) => i \in Beyond(up)
    BY <1>1 DEF Beyond, Ahead, PageTypes
<1>5. \A i \in PageIds : Key[i] \in Nat
    BY PaginationAssumption
<1>6. \A n \in DOMAIN page : page[n] \in Beyond(up)
    BY <1>2
<1> HIDE DEF page, e
<1>7. /\ visited' \in Seq(PageIds)
      /\ IF last THEN OneAfter(page, visited, visited') ELSE OneAfter(visited, page, visited')
    <2>1. page \in Seq(PageIds) /\ visited \in Seq(PageIds)
        BY <1>1, <1>2, <1>3 DEF PageTypes
    <2>2. visited' = IF last THEN page \o visited ELSE visited \o page
        BY DEF page
    <2> QED BY <2>1, <2>2, Joined
<1>8. \A i : (\E n \in DOMAIN visited' : visited'[n] = i) <=> old(i) \/ new(i)
    BY ONLY <1>7 DEF OneAfter
<1>9. \A m, n \in DOMAIN visited' : m < n =>
          \/ \E a, b \in DOMAIN visited : a < b /\ visited'[m] = visited[a] /\ visited'[n] = visited[b]
          \/ \E a, b \in DOMAIN page : a < b /\ visited'[m] = page[a] /\ visited'[n] = page[b]
          \/ ~last /\ old(visited'[m]) /\ new(visited'[n])
          \/ last /\ new(visited'[m]) /\ old(visited'[n])
    <2> HIDE DEF old, new
    <2>1. CASE last
        BY ONLY <1>7, <2>1 DEF OneAfter, old, new
    <2>2. CASE ~last
        BY ONLY <1>7, <2>2 DEF OneAfter, old, new
    <2> QED BY <2>1, <2>2
<1>10. \A n \in DOMAIN visited' : visited'[n] \in PageIds
    BY ONLY <1>7
\* A shown row of its own key lies behind every row of the page.
<1>11. \A i, j : old(i) /\ new(j) /\ Distinct(i) => IF up THEN Key[i] < Key[j] ELSE Key[i] > Key[j]
    <2> SUFFICES ASSUME NEW a \in DOMAIN visited, NEW b \in DOMAIN page, Distinct(visited[a])
                 PROVE  IF up THEN Key[visited[a]] < Key[page[b]] ELSE Key[visited[a]] > Key[page[b]]
        OBVIOUS
    <2>1. visited[a] \in PageIds /\ page[b] \in PageIds /\ ~Ahead(Key[visited[a]], up) /\ Ahead(Key[page[b]], up)
        BY <1>1, <1>3, <1>6 DEF PageTypes
    <2>2. cursor \in Int /\ Key[visited[a]] \in Nat /\ Key[page[b]] \in Nat
        BY <1>1, <1>5, <2>1 DEF PageTypes, NoCursor
    <2> QED BY ONLY <2>1, <2>2 DEF Ahead
<1>12. KeysInOrder'
    <2> SUFFICES ASSUME NEW m \in DOMAIN visited', NEW n \in DOMAIN visited', m < n,
                        Distinct(visited'[m]), Distinct(visited'[n])
                 PROVE  IF desc THEN Key[visited'[m]] > Key[visited'[n]] ELSE Key[visited'[m]] < Key[visited'[n]]
        BY DEF KeysInOrder, Distinct
    <2>1. CASE \E a, b \in DOMAIN visited : a < b /\ visited'[m] = visited[a] /\ visited'[n] = visited[b]
        BY <1>1, <2>1 DEF KeysInOrder
    <2>2. CASE \E a, b \in DOMAIN page : a < b /\ visited'[m] = page[a] /\ visited'[n] = page[b]
        <3>1. PICK a, b \in DOMAIN page : a < b /\ visited'[m] = page[a] /\ visited'[n] = page[b]
            BY <2>2
        <3>2. page[a] # page[b] /\ NotAfter(page[a], page[b], ~desc) /\ page[a] \in PageIds /\ page[b] \in PageIds
            BY <1>2, <1>3, <1>6, <3>1 DEF page
        <3>3. Key[page[a]] # Key[page[b]] /\ Key[page[a]] \in Nat /\ Key[page[b]] \in Nat
            BY <1>5, <3>1, <3>2 DEF Distinct
        <3>4. desc \in BOOLEAN
            BY <1>1 DEF PageTypes
        <3> QED BY ONLY <3>1, <3>2, <3>3, <3>4 DEF NotAfter
    <2>3. CASE ~last /\ old(visited'[m]) /\ new(visited'[n])
        <3>1. up = ~desc
            BY <1>1, <2>3 DEF PageTypes
        <3> HIDE DEF old, new, up
        <3>2. IF up THEN Key[visited'[m]] < Key[visited'[n]] ELSE Key[visited'[m]] > Key[visited'[n]]
            BY <1>11, <2>3
        <3> QED BY <3>1, <3>2
    <2>4. CASE last /\ new(visited'[m]) /\ old(visited'[n])
        <3>1. up = desc
            BY <1>1, <2>4 DEF PageTypes
        <3> HIDE DEF old, new, up
        <3>2. IF up THEN Key[visited'[n]] < Key[visited'[m]] ELSE Key[visited'[n]] > Key[visited'[m]]
            BY <1>11, <2>4
        <3>3. visited'[m] \in PageIds /\ visited'[n] \in PageIds
            BY <1>10
        <3> QED BY <1>5, <3>1, <3>2, <3>3
    <2>5. \/ \E a, b \in DOMAIN visited : a < b /\ visited'[m] = visited[a] /\ visited'[n] = visited[b]
          \/ \E a, b \in DOMAIN page : a < b /\ visited'[m] = page[a] /\ visited'[n] = page[b]
          \/ ~last /\ old(visited'[m]) /\ new(visited'[n])
          \/ last /\ new(visited'[m]) /\ old(visited'[n])
        <3> HIDE DEF old, new
        <3>1. m \in DOMAIN visited' /\ n \in DOMAIN visited' /\ m < n
            OBVIOUS
        <3> QED BY ONLY <1>9, <3>1
    <2> QED BY <2>1, <2>2, <2>3, <2>4, <2>5
\* The new cursor passes the distinct rows shown, and no others.
<1>13. Running' => walk' = walk /\ Upward' = up
    BY <1>1 DEF Running, Upward
<1>14. \A i : Shown(i)' <=> Shown(i) \/ new(i)
    BY <1>8 DEF Shown
<1>15. ASSUME ~p.hasMore, NEW i \in steady, Distinct(i) PROVE Shown(i)'
    BY <1>2, <1>4, <1>14, <1>15 DEF page
<1>16. PageTypes' /\ walk' \notin {"idle", "default"}
    <2>1. cursor' \in Nat \cup {NoCursor}
        <3>1. CASE page # << >>
            <4>1. e \in PageIds
                BY <1>2, <1>3, <1>6, <3>1 DEF page, e
            <4>2. Decoded(Key[e]) \in Nat
                <5>1. Key[e] \in Nat
                    BY <1>5, <4>1
                <5> QED BY <5>1 DEF Decoded
            <4> QED BY <3>1, <4>2 DEF page, e
        <3> QED BY <1>1, <3>1 DEF page, PageTypes
    <2> QED BY <1>1, <1>7, <2>1 DEF PageTypes
<1>17. CASE page = << >>
    <2>1. visited' = visited /\ cursor' = cursor
        BY <1>1, <1>17 DEF page, PageTypes
    <2> QED BY <1>1, <1>12, <1>13, <1>14, <1>15, <1>16, <2>1 DEF PageInv, Ahead, Distinct
<1>18. CASE page # << >>
    <2>1. /\ e \in PageIds /\ Ahead(Key[e], up) /\ new(e) /\ cursor' = Decoded(Key[e])
          /\ \A i : new(i) => i \in PageIds /\ NotAfter(i, e, up)
          /\ \A i \in Beyond(up) : new(i) \/ NotAfter(e, i, up)
        BY <1>2, <1>3, <1>6, <1>18 DEF page, e
    <2>2. ASSUME NEW i, old(i) \/ new(i), Distinct(i) PROVE ~(Ahead(Key[i], up)')
        <3>1. i \in PageIds
            BY <1>1, <2>1, <2>2 DEF PageTypes
        <3>2. NotAfter(i, e, up)
            <4>1. CASE old(i)
                <5>1. Key[i] \in Nat /\ Key[e] \in Nat /\ new(e) /\ Distinct(i)
                    BY <1>5, <2>1, <2>2, <3>1
                <5> HIDE DEF old, new, up
                <5>2. IF up THEN Key[i] < Key[e] ELSE Key[i] > Key[e]
                    BY ONLY <1>11, <4>1, <5>1
                <5> QED BY ONLY <5>1, <5>2 DEF NotAfter
            <4> QED BY <2>1, <2>2, <4>1
        <3> QED BY <1>5, <2>1, <2>2, <3>1, <3>2, CursorSides DEF NotAfter, Ahead
    <2>3. ASSUME NEW i \in steady, Distinct(i), ~Shown(i), ~new(i) PROVE Ahead(Key[i], up)'
        <3>1. i \in PageIds /\ NotAfter(e, i, up) /\ i # e
            BY <1>3, <1>4, <2>1, <2>3
        <3>2. /\ Key[i] # Key[e] /\ Key[i] \in Nat /\ Key[e] \in Nat
              /\ Decoded(Key[e]) \in Nat
              /\ Key[i] <= Key[e] <=> Key[i] <= Decoded(Key[e])
              /\ Key[i] >= Key[e] <=> Key[i] >= Decoded(Key[e])
            BY <1>5, <2>1, <2>3, <3>1, CursorSides
        <3> QED BY <1>1, <2>1, <3>1, <3>2 DEF NotAfter, Ahead
    <2>4. ASSUME Running'
          PROVE  /\ \A n \in DOMAIN visited' : Distinct(visited'[n]) => ~(Ahead(Key[visited[n]], Upward)')
                 /\ \A i \in steady' : Distinct(i) => (Ahead(Key[i], Upward)') \/ Shown(i)'
        <3>1. Upward' = up /\ steady' = steady
            BY <1>13, <2>4
        <3>2. ASSUME NEW n \in DOMAIN visited', Distinct(visited'[n]) PROVE ~(Ahead(Key[visited[n]], Upward)')
            <4>1. old(visited'[n]) \/ new(visited'[n])
                BY <1>8
            <4> QED BY <2>2, <3>1, <3>2, <4>1 DEF Ahead
        <3>3. ASSUME NEW i \in steady', Distinct(i) PROVE (Ahead(Key[i], Upward)') \/ Shown(i)'
            BY <1>14, <2>3, <3>1, <3>3 DEF Ahead
        <3> QED BY <3>2, <3>3
    <2> QED BY <1>1, <1>12, <1>13, <1>14, <1>15, <1>16, <2>4 DEF PageInv, Distinct
<1> QED BY <1>17, <1>18

LEMMA PageStep ==
  ASSUME PageInv, [PageNext]_pageVars PROVE PageInv'
<1> USE DEF Running
<1>1. ASSUME UNCHANGED pageVars PROVE PageInv'
    BY <1>1 DEF pageVars, PageInv, PageTypes, KeysInOrder, Ahead, Shown, Upward, Distinct
<1>2. ASSUME NEW mode \in {"forward", "backward", "default"}, Begin(mode) PROVE PageInv'
    <2>1. visited' = << >> /\ cursor' = NoCursor
        BY <1>2 DEF PageInv, Begin
    <2>2. PageTypes' /\ KeysInOrder'
        BY <1>2, <2>1 DEF PageInv, Begin, PageTypes, KeysInOrder, NoCursor
    <2> QED BY <1>2, <2>1, <2>2 DEF PageInv, Begin, Ahead, Distinct
<1>3. ASSUME InvalidFetch PROVE PageInv'
    <2>1. PageTypes' /\ KeysInOrder'
        BY <1>3 DEF PageInv, InvalidFetch, PageTypes, KeysInOrder, Distinct
    <2> QED BY <1>3, <2>1 DEF PageInv, InvalidFetch
<1>4. ASSUME DefaultPage PROVE PageInv'
    <2>1. PICK p \in Fetch(FALSE, DefaultLimit) : visited' = p.items
        BY <1>4 DEF DefaultPage
    <2>2. PageTypes /\ DefaultLimit \in Nat \ {0} /\ desc \in BOOLEAN
        BY PaginationAssumption DEF PageInv, PageTypes
    <2>3. GoodPage(p, Beyond(desc = FALSE), FALSE, desc = FALSE)
        BY <2>2, PageRows
    <2>4. visited' \in Seq(PageIds)
        BY <2>1, <2>2, <2>3 DEF GoodPage, Beyond, PageTypes
    <2>5. PageTypes'
        BY <1>4, <2>2, <2>4 DEF DefaultPage, PageTypes
    <2>6. KeysInOrder'
        <3> SUFFICES ASSUME NEW m \in DOMAIN visited', NEW n \in DOMAIN visited', m < n,
                            Distinct(visited'[m]), Distinct(visited'[n])
                     PROVE  IF desc THEN Key[visited'[m]] > Key[visited'[n]]
                            ELSE Key[visited'[m]] < Key[visited'[n]]
            BY <1>4 DEF KeysInOrder, Distinct, DefaultPage
        <3>1. visited'[m] # visited'[n] /\ NotAfter(visited'[m], visited'[n], ~desc)
            BY <2>1, <2>3 DEF GoodPage
        <3>2. visited'[m] \in PageIds /\ visited'[n] \in PageIds
            BY <2>4
        <3>3. Key[visited'[m]] \in Nat /\ Key[visited'[n]] \in Nat /\ Key[visited'[m]] # Key[visited'[n]]
            BY <3>1, <3>2, PaginationAssumption DEF Distinct
        <3> QED BY ONLY <2>2, <3>1, <3>3 DEF NotAfter
    <2> QED BY <1>4, <2>5, <2>6 DEF DefaultPage, PageInv
<1>5. ASSUME NextPage PROVE PageInv'
    <2>1. PICK p \in Fetch(FALSE, PageSize) :
             /\ visited' = visited \o p.items
             /\ walk' = IF p.hasMore THEN walk ELSE "ended"
             /\ cursor' = IF p.items = << >> THEN cursor ELSE Decoded(Key[Last(p.items)])
        BY <1>5 DEF NextPage
    <2>2. walk = "forward" /\ UNCHANGED <<present, steady, desc>>
        BY <1>5 DEF NextPage
    <2> QED BY <2>1, <2>2, WalkStep DEF FarEnd
<1>6. ASSUME PreviousPage PROVE PageInv'
    <2>1. PICK p \in Fetch(TRUE, PageSize) :
             /\ visited' = p.items \o visited
             /\ walk' = IF p.hasMore THEN walk ELSE "ended"
             /\ cursor' = IF p.items = << >> THEN cursor ELSE Decoded(Key[Head(p.items)])
        BY <1>6 DEF PreviousPage
    <2>2. walk = "backward" /\ UNCHANGED <<present, steady, desc>>
        BY <1>6 DEF PreviousPage
    <2> QED BY <2>1, <2>2, WalkStep DEF FarEnd
<1>7. ASSUME Running, NEW i \in PageIds, InsertRow(i) \/ DeleteRow(i) PROVE PageInv'
    <2>1. /\ UNCHANGED <<walk, desc, cursor, visited>> /\ steady' = steady \ {i}
          /\ present' = present \cup {i} \/ present' = present \ {i}
        BY <1>7 DEF InsertRow, DeleteRow
    <2>2. PageTypes' /\ KeysInOrder'
        BY <2>1 DEF PageInv, PageTypes, KeysInOrder, Distinct
    <2> QED BY <1>7, <2>1, <2>2 DEF PageInv, Ahead, Upward, Shown, Distinct
<1> QED BY <1>1, <1>2, <1>3, <1>4, <1>5, <1>6, <1>7 DEF PageNext

\* No row of its own key twice, because the list is in strict order.
LEMMA ShownOnce ==
  ASSUME PageInv, NEW i \in PageIds, Distinct(i)
  PROVE  Times(i) \in {0, 1} /\ (Shown(i) => Times(i) = 1)
<1> DEFINE places == {n \in DOMAIN visited : visited[n] = i}
<1>1. \A n \in places : n \in Nat
    BY DEF PageInv, PageTypes
<1>2. \A m, n \in places : m = n
    <2> SUFFICES ASSUME NEW m \in places, NEW n \in places, m < n PROVE FALSE
        BY <1>1
    <2>1. IF desc THEN Key[i] > Key[i] ELSE Key[i] < Key[i]
        BY DEF PageInv, KeysInOrder
    <2>2. Key[i] \in Nat
        BY PaginationAssumption
    <2> QED BY <2>1, <2>2
<1>3. CASE places = {}
    BY <1>3, FS_EmptySet DEF Times, Shown
<1>4. CASE places # {}
    <2>1. PICK n \in places : TRUE
        BY <1>4
    <2>2. places = {n}
        BY <1>2, <2>1
    <2>3. Cardinality(places) = 1
        BY <2>2, FS_Singleton
    <2> QED BY <2>3 DEF Times
<1> QED BY <1>3, <1>4

\* However rows come and go between the pages, a walk shows no row of its own key
\* twice, keeps the order, and at its end has shown every such row that was there
\* throughout (query/cursor.go Fetch, for every table, key and page size).
THEOREM WalksAreExact == PageSpec => []WalkIsExact
<1>1. PageInit => PageInv
    BY DEF PageInit, PageInv, PageTypes, KeysInOrder, NoCursor, Running
<1>2. PageInv /\ [PageNext]_pageVars => PageInv'
    BY PageStep
<1>3. PageInv => WalkIsExact
    <2> SUFFICES ASSUME PageInv PROVE WalkIsExact
        OBVIOUS
    <2>1. \A i \in PageIds : Distinct(i) => Times(i) <= 1
        BY ShownOnce
    <2>2. walk = "ended" => \A i \in steady : Distinct(i) => Times(i) = 1
        BY ShownOnce DEF PageInv, PageTypes
    <2> QED BY <2>1, <2>2 DEF WalkIsExact, PageInv, KeysInOrder
<1> QED BY <1>1, <1>2, <1>3, PTL DEF PageSpec
=============================================================================
