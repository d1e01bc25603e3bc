-------------------------- MODULE QueryCacheProofs --------------------------
(***************************************************************************)
(* Theorems about QueryCache for any number of readers, writers, tables    *)
(* and queries, any size of the cache, any ttl and any bound on the runs.  *)
(***************************************************************************)
EXTENDS QueryCache, FiniteSetTheorems, SequenceTheorems, TLAPS

\* The keys left in the map when the first n names of order are evicted.
Left(n) == DOMAIN entries \ {order[i] : i \in 1 .. n}

CacheType == order \in Seq(Range(order)) /\ IsFiniteSet(DOMAIN entries)

\* The inductive invariant behind CacheBounded.
BoundInv == CacheType /\ KeysTracked /\ SizeExact

LEMMA RangeOfOrder ==
  ASSUME CacheType
  PROVE  Range(order) = {order[i] : i \in 1 .. Len(order)}
  BY DEF CacheType, Range

\* As every cached key is listed, the eviction loop of Set ends.
LEMMA TrackedLoopEnds ==
  ASSUME KeysTracked
  PROVE  LoopEnds
<1>1. DOMAIN entries \ Range(order) = {}
    BY DEF KeysTracked
<1> QED BY <1>1, FS_EmptySet, SizesAssumption DEF LoopEnds

\* A set of natural numbers that is not empty has a least element.
LEMMA LeastNatural ==
  ASSUME NEW T, T \subseteq Nat, T # {}
  PROVE  \E x \in T : \A y \in T : ~(y < x)
<1>1. \E x \in T : \A y \in T : ~ (<<y, x>> \in OpToRel(<, Nat))
    BY NatLessThanWellFounded, WFMin
<1>2. PICK x \in T : \A y \in T : ~ (<<y, x>> \in OpToRel(<, Nat))
    BY <1>1
<1>3. \A y \in T : ~(y < x)
    BY <1>2 DEF OpToRel
<1> QED BY <1>3

\* And it ends at the first point at which the map is below its bound.
LEMMA EvictionStops ==
  ASSUME CacheType, LoopEnds
  PROVE  /\ EvictCount \in 0 .. Len(order)
         /\ Cardinality(Left(EvictCount)) < MaxEntries
<1> DEFINE Enough(n) == Cardinality(Left(n)) < MaxEntries
           First(n) == \A m \in 0 .. n - 1 : Cardinality(Left(m)) >= MaxEntries
           T == {n \in 0 .. Len(order) : Enough(n)}
<1>1. Len(order) \in Nat
    BY DEF CacheType
<1>2. Enough(Len(order))
    <2>1. Left(Len(order)) = DOMAIN entries \ Range(order)
        BY RangeOfOrder DEF Left
    <2> QED BY <2>1 DEF LoopEnds
<1>3. \A n \in 0 .. Len(order) : Cardinality(Left(n)) \in Nat
    BY FS_Difference, FS_CardinalityType DEF CacheType, Left
<1>4. EvictCount = CHOOSE n \in 0 .. Len(order) : Enough(n) /\ First(n)
    BY DEF EvictCount, Left
<1>5. \A m \in 0 .. Len(order) : ~Enough(m) => Cardinality(Left(m)) >= MaxEntries
    BY <1>3, SizesAssumption
<1> HIDE DEF Enough
<1>6. T # {} /\ T \subseteq Nat
    BY <1>1, <1>2
<1>7. PICK x \in T : \A y \in T : ~(y < x)
    <2> HIDE DEF T
    <2> QED BY <1>6, LeastNatural
<1>8. First(x)
    <2> SUFFICES ASSUME NEW m \in 0 .. x - 1 PROVE Cardinality(Left(m)) >= MaxEntries
        OBVIOUS
    <2>1. m \in 0 .. Len(order) /\ m < x
        BY <1>1, <1>7
    <2> QED BY <1>5, <1>7, <2>1
<1> HIDE DEF First
<1>9. x \in 0 .. Len(order) /\ Enough(x) /\ First(x)
    BY <1>7, <1>8
<1>10. EvictCount \in 0 .. Len(order) /\ Enough(EvictCount)
    BY <1>4, <1>9
<1> QED BY <1>10 DEF Enough

\* What Set leaves: fewer keys than the bound, and the new one, all listed.
LEMMA SetKeepsBound ==
  ASSUME BoundInv, NEW k, NEW v, Set(k, v)
  PROVE  BoundInv'
<1> USE DEF BoundInv
<1> DEFINE n == EvictCount
           kept == Without(entries, Evicted)
<1>1. n \in 0 .. Len(order) /\ Cardinality(Left(n)) < MaxEntries
    BY EvictionStops DEF Set
<1>2. DOMAIN kept = Left(n)
    BY DEF Without, Restrict, Evicted, Left
<1>3. /\ DOMAIN entries' = Left(n) \cup {k}
      /\ order' = Append(SubSeq(order, n + 1, Len(order)), k)
      /\ size' = Cardinality(DOMAIN entries')
    BY <1>2 DEF Set
<1>4. IsFiniteSet(Left(n))
    BY FS_Difference DEF Left, CacheType
<1> HIDE DEF n, kept
<1>5. IsFiniteSet(DOMAIN entries') /\ Cardinality(DOMAIN entries') <= MaxEntries
    <2>1. Cardinality(Left(n)) \in Nat
        BY <1>4, FS_CardinalityType
    <2>2. /\ IsFiniteSet(Left(n) \cup {k})
          /\ Cardinality(Left(n) \cup {k}) <= Cardinality(Left(n)) + 1
        BY <1>4, <2>1, FS_AddElement
    <2>3. Cardinality(Left(n) \cup {k}) \in Nat
        BY <2>2, FS_CardinalityType
    <2> QED BY <1>1, <1>3, <2>1, <2>2, <2>3, SizesAssumption
<1> DEFINE rest == SubSeq(order, n + 1, Len(order))
<1>6. /\ rest \in Seq(Range(order)) /\ Len(rest) = Len(order) - n
      /\ \A i \in 1 .. Len(rest) : rest[i] = order[n + i]
    BY <1>1 DEF CacheType
<1>7. \A x \in Left(n) : \E i \in 1 .. Len(rest) : rest[i] = x
    <2> TAKE x \in Left(n)
    <2>1. PICK j \in 1 .. Len(order) : order[j] = x
        BY RangeOfOrder DEF KeysTracked, Left
    <2>2. j \notin 1 .. n
        BY <2>1 DEF Left
    <2>3. j - n \in 1 .. Len(rest) /\ n + (j - n) = j
        <3>1. Len(order) \in Nat
            BY DEF CacheType
        <3> QED BY ONLY <1>1, <1>6, <2>1, <2>2, <3>1
    <2>4. rest[j - n] = x
        BY <1>6, <2>1, <2>3
    <2> QED BY <2>3, <2>4
<1> HIDE DEF rest
<1>8. rest \in Seq(Range(order) \cup {k}) /\ order' = Append(rest, k)
    BY <1>3, <1>6, SeqMonotonic DEF rest
<1>9. /\ Len(order') = Len(rest) + 1 /\ order'[Len(rest) + 1] = k
      /\ \A i \in 1 .. Len(rest) : order'[i] = rest[i]
      /\ DOMAIN order' = 1 .. Len(rest) + 1 /\ Len(rest) \in Nat
    BY <1>8
<1>10. (order \in Seq(Range(order)))'
    BY <1>8, <1>9 DEF Range
<1>11. DOMAIN entries' \subseteq Range(order')
    <2> SUFFICES ASSUME NEW x \in Left(n) \cup {k}
                 PROVE  \E i \in 1 .. Len(rest) + 1 : order'[i] = x
        BY <1>3, <1>9 DEF Range
    <2>1. CASE x = k
        BY <1>9, <2>1
    <2>2. CASE x \in Left(n)
        <3>1. PICK i \in 1 .. Len(rest) : rest[i] = x
            BY <1>7, <2>2
        <3>2. order'[i] = x /\ i \in 1 .. Len(rest) + 1
            BY <1>9, <3>1
        <3> QED BY <3>2
    <2> QED BY <2>1, <2>2
<1> QED BY <1>3, <1>5, <1>10, <1>11 DEF CacheType, KeysTracked, SizeExact

\* Taking keys out of the map, with order left alone, keeps the invariant.
LEMMA RemovalKeepsBound ==
  ASSUME BoundInv, NEW S, entries' = Without(entries, S), UNCHANGED order,
         size' = Cardinality(DOMAIN entries')
  PROVE  BoundInv'
<1> USE DEF BoundInv
<1>1. DOMAIN entries' = DOMAIN entries \ S
    BY DEF Without, Restrict
<1>2. /\ IsFiniteSet(DOMAIN entries') /\ Cardinality(DOMAIN entries') \in Nat
      /\ Cardinality(DOMAIN entries) \in Nat
      /\ Cardinality(DOMAIN entries') <= Cardinality(DOMAIN entries)
    BY <1>1, FS_Subset, FS_CardinalityType DEF CacheType
<1> QED BY <1>1, <1>2, SizesAssumption DEF CacheType, KeysTracked, SizeExact

LEMMA BoundStep ==
  ASSUME BoundInv, [QueryNext]_queryVars
  PROVE  BoundInv'
<1>1. CASE UNCHANGED cacheVars
    BY <1>1 DEF cacheVars, BoundInv, CacheType, KeysTracked, SizeExact
<1>2. ASSUME NEW r \in Readers, ReaderStep(r)
      PROVE  BoundInv'
    <2>1. CASE Fill(r)
        BY <2>1, SetKeepsBound DEF Fill
    <2>2. CASE Expired(r)
        <3> DEFINE k == QueryCacheKey(asked[r])
        <3>1. Delete(k)
            BY <2>2 DEF Expired
        <3>2. CASE k \in DOMAIN entries
            BY <3>1, <3>2, RemovalKeepsBound DEF Delete
        <3>3. CASE k \notin DOMAIN entries
            <4>1. DOMAIN entries' = DOMAIN entries /\ size' = size /\ order' = order
                BY <3>1, <3>3 DEF Delete, Without, Restrict
            <4> QED BY <4>1 DEF BoundInv, CacheType, KeysTracked, SizeExact
        <3> QED BY <3>2, <3>3
    <2> QED BY <1>1, <1>2, <2>1, <2>2 DEF ReaderStep, Find, Hit, RunQuery, QueryFails
<1>3. ASSUME NEW w \in Updaters, UpdaterStep(w)
      PROVE  BoundInv'
    BY <1>1, <1>3, RemovalKeepsBound DEF UpdaterStep, Write, Invalidate, DeleteByPrefix
<1>4. CASE Clear
    <2>1. DOMAIN entries' = {} /\ order' = << >> /\ size' = 0
        BY <1>4 DEF Clear
    <2> QED BY <2>1, FS_EmptySet, SizesAssumption
            DEF BoundInv, CacheType, KeysTracked, SizeExact, Range
<1>5. CASE Tick \/ UNCHANGED queryVars
    BY <1>1, <1>5 DEF Tick, queryVars
<1> QED BY <1>2, <1>3, <1>4, <1>5 DEF QueryNext

LEMMA BoundInvHolds == QuerySpec => []BoundInv
<1>1. QueryInit => BoundInv
    <2> SUFFICES ASSUME QueryInit PROVE BoundInv
        OBVIOUS
    <2>1. DOMAIN entries = {} /\ order = << >> /\ size = 0
        BY DEF QueryInit
    <2> QED BY <2>1, FS_EmptySet, SizesAssumption
            DEF BoundInv, CacheType, KeysTracked, SizeExact, Range
<1> QED BY <1>1, BoundStep, PTL DEF QuerySpec

\* The cache never holds more than maxEntries, every key it holds is listed for
\* eviction, and Stats reports the number it holds: for any size of it.
THEOREM StaysInBounds == QuerySpec => []CacheBounded
<1>1. BoundInv => CacheBounded
    BY DEF BoundInv, CacheBounded
<1> QED BY <1>1, BoundInvHolds, PTL

\* The eviction loop of Set, which runs with the cache locked, always ends.
THEOREM SetReturns == QuerySpec => []LoopEnds
<1>1. BoundInv => LoopEnds
    BY TrackedLoopEnds DEF BoundInv
<1> QED BY <1>1, BoundInvHolds, PTL

-----------------------------------------------------------------------------
\* A reader between its query and Set holds what the database answered to its
\* own query.
ReadersFresh ==
  \A r \in Readers :
    /\ rpc[r] # "idle" => asked[r] \in Queries
    /\ rpc[r] = "fill" => got[r].query = asked[r]

\* A cached value that is outdated was so when it was set, or its table waits
\* for a writer to invalidate it.
EntriesFresh ==
  /\ db \in [Tables -> Nat]
  /\ wpc \in [Updaters -> Tables \cup {NoTable}]
  /\ \A k \in DOMAIN entries : k[1] \in Tables
  /\ InvalidationHolds

FreshInv == ReadersFresh /\ EntriesFresh

LEMMA ReadersStep ==
  ASSUME ReadersFresh, DOMAIN rpc = Readers, DOMAIN asked = Readers, DOMAIN got = Readers,
         [QueryNext]_queryVars
  PROVE  ReadersFresh'
<1> USE DEF ReadersFresh
<1>1. CASE UNCHANGED readerVars
    BY <1>1 DEF readerVars
<1>2. ASSUME NEW r \in Readers, ReaderStep(r) PROVE ReadersFresh'
    BY <1>2 DEF ReaderStep, Find, Hit, Expired, RunQuery, QueryFails, Fill, Rows
<1> QED BY <1>1, <1>2 DEF QueryNext, UpdaterStep, Write, Invalidate, Clear, Tick, queryVars

\* Taking keys out of the map while the tables stay as they are, with a writer
\* done only when every key of its table is out.
LEMMA RemovalKeepsFresh ==
  ASSUME EntriesFresh, NEW S, entries' = Without(entries, S), db' = db,
         wpc' \in [Updaters -> Tables \cup {NoTable}],
         \A w \in Updaters : wpc'[w] = wpc[w] \/ \A k \in DOMAIN entries : k[1] = wpc[w] => k \in S
  PROVE  EntriesFresh'
<1>1. /\ DOMAIN entries' = DOMAIN entries \ S
      /\ \A k \in DOMAIN entries' : entries'[k] = entries[k]
    BY DEF Without, Restrict
<1>2. InvalidationHolds'
    <2> SUFFICES ASSUME NEW k \in DOMAIN entries', entries'[k].value.ver < db[k[1]]
                 PROVE  entries'[k].late \/ \E w \in Updaters : wpc'[w] = k[1]
        BY DEF InvalidationHolds
    <2>1. entries[k].late \/ \E w \in Updaters : wpc[w] = k[1]
        BY <1>1 DEF EntriesFresh, InvalidationHolds
    <2> QED BY <1>1, <2>1
<1> QED BY <1>1, <1>2 DEF EntriesFresh

LEMMA EntriesStep ==
  ASSUME ReadersFresh, EntriesFresh, [QueryNext]_queryVars
  PROVE  EntriesFresh'
<1>1. CASE UNCHANGED <<entries, db, wpc>>
    BY <1>1 DEF EntriesFresh, InvalidationHolds
<1>2. ASSUME NEW r \in Readers, Fill(r) PROVE EntriesFresh'
    <2> DEFINE k == QueryCacheKey(asked[r])
               v == got[r]
               kept == Without(entries, Evicted)
    <2>1. /\ entries' = [x \in DOMAIN kept \cup {k} |->
               IF x = k THEN [value |-> v, expiresAt |-> now + TTL,
                              late |-> v.ver < db[v.query.table]]
               ELSE kept[x]]
          /\ db' = db /\ wpc' = wpc /\ rpc[r] = "fill"
        BY <1>2 DEF Fill, Set
    <2>2. v.query = asked[r] /\ asked[r] \in Queries
        BY <2>1 DEF ReadersFresh
    <2>3. k[1] = v.query.table /\ k[1] \in Tables
        BY <2>2, QueriesAssumption DEF QueryCacheKey
    <2>4. \A x \in DOMAIN kept : x \in DOMAIN entries /\ kept[x] = entries[x]
        BY DEF Without, Restrict
    <2> HIDE DEF k, v, kept
    <2>5. \A x \in DOMAIN entries' : x[1] \in Tables
        BY <2>1, <2>3, <2>4 DEF EntriesFresh
    <2>6. ASSUME NEW x \in DOMAIN entries', entries'[x].value.ver < db[x[1]]
          PROVE  entries'[x].late \/ \E w \in Updaters : wpc[w] = x[1]
        <3>1. CASE x = k
            <4>1. entries'[x].value = v /\ entries'[x].late = (v.ver < db[v.query.table])
                BY <2>1, <3>1
            <4> QED BY <2>3, <2>6, <3>1, <4>1
        <3>2. CASE x # k
            <4>1. x \in DOMAIN entries /\ entries'[x] = entries[x]
                BY <2>1, <2>4, <3>2
            <4> QED BY <2>6, <4>1 DEF EntriesFresh, InvalidationHolds
        <3> QED BY <3>1, <3>2
    <2> QED BY <2>1, <2>5, <2>6 DEF EntriesFresh, InvalidationHolds
<1>3. ASSUME NEW r \in Readers, Expired(r) PROVE EntriesFresh'
    BY <1>3, RemovalKeepsFresh DEF Expired, Delete, EntriesFresh
<1>4. ASSUME NEW w \in Updaters, NEW t \in Tables, Write(w, t) PROVE EntriesFresh'
    <2>1. /\ entries' = entries /\ wpc[w] = NoTable /\ wpc' = [wpc EXCEPT ![w] = t]
          /\ db' = [db EXCEPT ![t] = @ + 1]
        BY <1>4 DEF Write, cacheVars
    <2>2. ASSUME NEW k \in DOMAIN entries, entries[k].value.ver < db'[k[1]]
          PROVE  entries[k].late \/ \E x \in Updaters : wpc'[x] = k[1]
        <3>1. CASE k[1] = t
            BY <2>1, <3>1 DEF EntriesFresh
        <3>2. CASE k[1] # t
            <4>1. db'[k[1]] = db[k[1]]
                BY <2>1, <3>2 DEF EntriesFresh
            <4>2. entries[k].late \/ \E x \in Updaters : wpc[x] = k[1]
                BY <2>2, <4>1 DEF EntriesFresh, InvalidationHolds
            <4> QED BY <2>1, <4>2, NoTableAssumption DEF EntriesFresh
        <3> QED BY <3>1, <3>2
    <2> QED BY <2>1, <2>2 DEF EntriesFresh, InvalidationHolds
<1>5. ASSUME NEW w \in Updaters, Invalidate(w) PROVE EntriesFresh'
    <2> DEFINE S == {k \in DOMAIN entries : k[1] = wpc[w]}
    <2>1. /\ entries' = Without(entries, S) /\ db' = db
          /\ wpc' = [wpc EXCEPT ![w] = NoTable]
        BY <1>5 DEF Invalidate, DeleteByPrefix
    <2> QED BY <2>1, RemovalKeepsFresh DEF EntriesFresh
<1>6. CASE Clear
    BY <1>6 DEF Clear, EntriesFresh, InvalidationHolds
<1> QED BY <1>1, <1>2, <1>3, <1>4, <1>5, <1>6
        DEF QueryNext, ReaderStep, UpdaterStep, Find, Hit, RunQuery, QueryFails, Tick, cacheVars, queryVars

\* After a write and its invalidation nothing outdated is cached, but for what
\* a Find stores that had run its query before the write: for any number of
\* readers and writers on any tables, and through evictions and expiries.
THEOREM WritesInvalidate == QuerySpec => []InvalidationHolds
<1> DEFINE ReaderDomains == DOMAIN rpc = Readers /\ DOMAIN asked = Readers /\ DOMAIN got = Readers
<1>1. QueryInit => ReaderDomains /\ FreshInv
    BY DEF QueryInit, FreshInv, ReadersFresh, EntriesFresh, InvalidationHolds
<1>2. ReaderDomains /\ [QueryNext]_queryVars => ReaderDomains'
    BY DEF QueryNext, ReaderStep, UpdaterStep, Find, Hit, Expired, RunQuery, QueryFails, Fill,
           Write, Invalidate, Clear, Tick, readerVars, queryVars
<1>3. ReaderDomains /\ FreshInv /\ [QueryNext]_queryVars => FreshInv'
    BY ReadersStep, EntriesStep DEF FreshInv
<1>4. FreshInv => InvalidationHolds
    BY DEF FreshInv, EntriesFresh
<1> QED BY <1>1, <1>2, <1>3, <1>4, PTL DEF QuerySpec

-----------------------------------------------------------------------------
\* What a query and a set of rows have in common when the rows may answer it:
\* the rows are those of a query with the same key.
Answers(rows, q) == rows.query \in Queries /\ QueryCacheKey(rows.query) = QueryCacheKey(q)

\* Entries hold rows of a query of their own key, and so does what a reader
\* carries from Get, from the database or to its caller.
KeyInv ==
  /\ \A k \in DOMAIN entries : entries[k].value.query \in Queries
                               /\ QueryCacheKey(entries[k].value.query) = k
  /\ \A r \in Readers :
       /\ rpc[r] # "idle" => asked[r] \in Queries /\ answer[r] = Nothing
       /\ rpc[r] = "check" => Answers(got[r].value, asked[r])
       /\ rpc[r] = "fill" => Answers(got[r], asked[r])
       /\ answer[r] # Nothing => asked[r] \in Queries /\ Answers(answer[r], asked[r])

ReaderDomains ==
  DOMAIN rpc = Readers /\ DOMAIN asked = Readers /\ DOMAIN got = Readers /\ DOMAIN answer = Readers

LEMMA KeyStep ==
  ASSUME ReaderDomains, KeyInv, [QueryNext]_queryVars
  PROVE  KeyInv'
<1> DEFINE EntriesKeyed == \A k \in DOMAIN entries :
             entries[k].value.query \in Queries /\ QueryCacheKey(entries[k].value.query) = k
           ReaderKeyed(r) ==
             /\ rpc[r] # "idle" => asked[r] \in Queries /\ answer[r] = Nothing
             /\ rpc[r] = "check" => Answers(got[r].value, asked[r])
             /\ rpc[r] = "fill" => Answers(got[r], asked[r])
             /\ answer[r] # Nothing => asked[r] \in Queries /\ Answers(answer[r], asked[r])
<1>1. EntriesKeyed /\ \A r \in Readers : ReaderKeyed(r)
    BY DEF KeyInv
<1>2. ASSUME \A k \in DOMAIN entries' : k \in DOMAIN entries /\ entries'[k] = entries[k]
      PROVE  EntriesKeyed'
    BY <1>1, <1>2
<1>3. ASSUME NEW S, entries' = Without(entries, S)
      PROVE  EntriesKeyed'
    BY <1>2, <1>3 DEF Without, Restrict
<1>4. ASSUME NEW r \in Readers, ReaderStep(r)
      PROVE  EntriesKeyed' /\ \A x \in Readers : ReaderKeyed(x)'
    <2>1. \A x \in Readers : x # r => ReaderKeyed(x)'
        BY <1>1, <1>4 DEF ReaderDomains, ReaderStep, Find, Hit, Expired, RunQuery, QueryFails,
                          Fill, Answers
    <2>2. CASE Fill(r)
        <3> DEFINE k == QueryCacheKey(asked[r])
        <3>1. Answers(got[r], asked[r]) /\ asked[r] \in Queries
            BY <1>1, <2>2 DEF Fill
        <3>2. \A x \in DOMAIN entries' :
                \/ x = k /\ entries'[x].value = got[r]
                \/ x \in DOMAIN entries /\ entries'[x] = entries[x]
            BY <2>2 DEF Fill, Set, Without, Restrict
        <3>3. EntriesKeyed'
            BY <1>1, <3>1, <3>2 DEF Answers
        <3>4. ReaderKeyed(r)'
            BY <2>2, <3>1 DEF ReaderDomains, Fill, Answers
        <3> QED BY <2>1, <3>3, <3>4
    <2>3. ASSUME NEW q \in Queries, Find(r, q)
          PROVE  EntriesKeyed' /\ ReaderKeyed(r)'
        BY <1>1, <2>3 DEF ReaderDomains, Find, cacheVars, Answers
    <2>4. CASE Hit(r) \/ RunQuery(r) \/ QueryFails(r)
        BY <1>1, <2>1, <2>4 DEF ReaderDomains, Hit, RunQuery, QueryFails, Rows, cacheVars, Answers
    <2>5. CASE Expired(r)
        <3>1. EntriesKeyed'
            BY <1>3, <2>5 DEF Expired, Delete
        <3>2. ReaderKeyed(r)'
            BY <1>1, <2>5 DEF ReaderDomains, Expired
        <3> QED BY <2>1, <3>1, <3>2
    <2> QED BY <1>4, <2>1, <2>2, <2>3, <2>4, <2>5 DEF ReaderStep
<1>5. CASE UNCHANGED readerVars
    <2>1. \A r \in Readers : ReaderKeyed(r)'
        BY <1>1, <1>5 DEF readerVars, Answers
    <2>2. ASSUME NEW w \in Updaters, UpdaterStep(w) PROVE EntriesKeyed'
        BY <1>1, <1>3, <2>2 DEF UpdaterStep, Write, Invalidate, DeleteByPrefix, cacheVars
    <2>3. ASSUME Clear PROVE EntriesKeyed'
        <3>1. DOMAIN entries' = {}
            BY <2>3 DEF Clear
        <3> QED BY <3>1
    <2>4. ASSUME Tick \/ UNCHANGED queryVars PROVE EntriesKeyed'
        <3>1. entries' = entries
            BY <2>4 DEF Tick, queryVars, cacheVars
        <3> QED BY <1>1, <3>1
    <2> QED BY <1>4, <2>1, <2>2, <2>3, <2>4 DEF QueryNext, KeyInv
<1> QED BY <1>4, <1>5 DEF QueryNext, UpdaterStep, Write, Invalidate, Clear, Tick, queryVars, KeyInv

LEMMA KeyInvHolds == QuerySpec => []KeyInv
<1>1. QueryInit => ReaderDomains /\ KeyInv
    BY DEF QueryInit, ReaderDomains, KeyInv
<1>2. ReaderDomains /\ [QueryNext]_queryVars => ReaderDomains'
    BY DEF ReaderDomains, QueryNext, ReaderStep, UpdaterStep, Find, Hit, Expired, RunQuery, QueryFails,
           Fill, Write, Invalidate, Clear, Tick, readerVars, queryVars
<1> QED BY <1>1, <1>2, KeyStep, PTL DEF QuerySpec

\* Find returns rows of a query that has the key of the one it was asked for,
\* whatever is cached, evicted, expired or deleted between its steps.
SameKeyAnswer ==
  \A r \in Readers : rpc[r] = "idle" /\ answer[r] # Nothing => Answers(answer[r], asked[r])

THEOREM AnswersByKey == QuerySpec => []SameKeyAnswer
<1>1. KeyInv => SameKeyAnswer
    BY DEF KeyInv, SameKeyAnswer
<1> QED BY <1>1, KeyInvHolds, PTL
=============================================================================
