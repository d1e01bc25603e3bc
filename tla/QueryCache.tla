----------------------------- MODULE QueryCache -----------------------------
(***************************************************************************)
(* The in-memory query cache (cache/cache.go) under the CachedBuilder that *)
(* fills and reads it (query/cached_builder.go).  Readers run Find, whose  *)
(* Get, database query and Set are separate steps; writers change a table  *)
(* and then drop its entries with DeleteByPrefix, which the package leaves *)
(* to the application.  Of the statistics only Size is kept.               *)
(***************************************************************************)
EXTENDS Integers, Sequences, FiniteSets, Functions

CONSTANTS
  Readers, Updaters,   \* goroutines
  Tables,
  Queries,            \* [table, where, args, trashed]: args is a pair of numbers
                      \* in digits, trashed says whether WithTrashed was called
  MaxEntries,         \* maxEntries
  TTL,                \* ttl of every query
  MaxWrites, MaxTime, MaxOrder  \* bounds on writes, on the clock and on order

\* NewInMemoryCache replaces a size that is not positive.
ASSUME SizesAssumption ==
  /\ MaxEntries \in Nat \ {0}
  /\ TTL \in Nat /\ MaxWrites \in Nat /\ MaxTime \in Nat /\ MaxOrder \in Nat
ASSUME QueriesAssumption == \A q \in Queries : q.table \in Tables

VARIABLES
  entries,  \* c.entries: key -> [value, expiresAt, late]; late is history: was
            \* the value outdated when it was set?
  order,    \* c.order
  size,     \* c.stats.Size
  now,      \* the clock
  db,       \* per table, the number of writes it has seen
  rpc, asked, got, answer,   \* per reader: place in Find, query, what Get or
                             \* the database returned, what Find returned
  wpc       \* per writer: the table it must still invalidate, or NoTable

cacheVars == <<entries, order, size>>
readerVars == <<rpc, asked, got, answer>>
queryVars == <<cacheVars, now, db, readerVars, wpc>>

NoTable == "none"
ASSUME NoTableAssumption == NoTable \notin Tables
Nothing == [query |-> NoTable]   \* Get found no entry; Find has not returned yet

\* Mutated form of QueryCacheKey: only the first argument is hashed.
QueryCacheKeyOneArg(q) == <<q.table, q.where, q.args[1]>>

\* QueryCacheKey of the text buildSelectQuery gives: table and text (that of
\* the builder before Find adds the soft delete scope), then the arguments
\* written one after the other.  The 64 bits kept of the hash are taken to be
\* free of collisions.
QueryCacheKey(q) == <<q.table, q.where, q.args[1] \o q.args[2]>>

\* What the database answers now: it depends on the query that is run, scope
\* included, and on the writes so far.
Rows(q) == [query |-> q, ver |-> db[q.table]]

Without(f, S) == Restrict(f, DOMAIN f \ S)

-----------------------------------------------------------------------------
QueryInit ==
  /\ entries = << >> /\ order = << >> /\ size = 0
  /\ now = 0
  /\ db = [t \in Tables |-> 0]
  /\ rpc = [r \in Readers |-> "idle"]
  /\ asked = [r \in Readers |-> CHOOSE q \in Queries : TRUE]
  /\ got = [r \in Readers |-> Nothing]
  /\ answer = [r \in Readers |-> Nothing]
  /\ wpc = [w \in Updaters |-> NoTable]

\* Delete under the lock, if the key is there.
Delete(k) ==
  /\ entries' = Without(entries, {k})
  /\ size' = IF k \in DOMAIN entries THEN Cardinality(DOMAIN entries') ELSE size
  /\ UNCHANGED order

\* How many times the eviction loop of Set calls evictOldest: each call drops
\* the head of order and the entry of that name, if there is still one.
EvictCount ==
  CHOOSE n \in 0 .. Len(order) :
    /\ Cardinality(DOMAIN entries \ {order[i] : i \in 1 .. n}) < MaxEntries
    /\ \A m \in 0 .. n - 1 :
         Cardinality(DOMAIN entries \ {order[i] : i \in 1 .. m}) >= MaxEntries

\* The keys that evictOldest takes out of the map for that.
Evicted == DOMAIN entries \cap {order[i] : i \in 1 .. EvictCount}

\* The loop ends only if the names in order cover enough entries; evictOldest
\* does nothing once order is empty, and Set would then hold the lock for ever.
LoopEnds ==
  Cardinality(DOMAIN entries \ Range(order)) < MaxEntries

\* Mutated form of Set: a key is listed in order only when it was not cached.
SetListsNewKeys(k, v) ==
  /\ LoopEnds
  /\ LET kept == Without(entries, Evicted)
     IN  entries' = [x \in DOMAIN kept \cup {k} |->
           IF x = k THEN [value |-> v, expiresAt |-> now + TTL,
                          late |-> v.ver < db[v.query.table]]
           ELSE kept[x]]
  /\ order' = SubSeq(order, EvictCount + 1, Len(order))
                \o (IF k \in DOMAIN entries THEN << >> ELSE <<k>>)
  /\ size' = Cardinality(DOMAIN entries')

\* Set: evict, store, list the key at the end of order, all under the lock.
Set(k, v) ==
  /\ LoopEnds
  /\ LET kept == Without(entries, Evicted)
     IN  entries' = [x \in DOMAIN kept \cup {k} |->
           IF x = k THEN [value |-> v, expiresAt |-> now + TTL,
                          late |-> v.ver < db[v.query.table]]
           ELSE kept[x]]
  /\ order' = Append(SubSeq(order, EvictCount + 1, Len(order)), k)
  /\ size' = Cardinality(DOMAIN entries')

\* Find asks Get, which takes the entry under the read lock.
Find(r, q) ==
  /\ rpc[r] = "idle"
  /\ LET k == QueryCacheKey(q)
         found == k \in DOMAIN entries
     IN  /\ got' = [got EXCEPT ![r] = IF found THEN entries[k] ELSE Nothing]
         /\ rpc' = [rpc EXCEPT ![r] = IF found THEN "check" ELSE "miss"]
  /\ asked' = [asked EXCEPT ![r] = q]
  /\ answer' = [answer EXCEPT ![r] = Nothing]
  /\ UNCHANGED <<cacheVars, now, db, wpc>>

\* The entry has not expired: Get returns its value and so does Find.
Hit(r) ==
  /\ rpc[r] = "check"
  /\ now <= got[r].expiresAt
  /\ answer' = [answer EXCEPT ![r] = got[r].value]
  /\ got' = [got EXCEPT ![r] = Nothing]
  /\ rpc' = [rpc EXCEPT ![r] = "idle"]
  /\ UNCHANGED <<cacheVars, now, db, asked, wpc>>

\* The entry that was read has expired: Get deletes what is under the key now.
Expired(r) ==
  /\ rpc[r] = "check"
  /\ now > got[r].expiresAt
  /\ Delete(QueryCacheKey(asked[r]))
  /\ got' = [got EXCEPT ![r] = Nothing]
  /\ rpc' = [rpc EXCEPT ![r] = "miss"]
  /\ UNCHANGED <<now, db, asked, answer, wpc>>

\* A miss (or a Get that fails to decode): Find runs the query.
RunQuery(r) ==
  /\ rpc[r] = "miss"
  /\ got' = [got EXCEPT ![r] = Rows(asked[r])]
  /\ rpc' = [rpc EXCEPT ![r] = "fill"]
  /\ UNCHANGED <<cacheVars, now, db, asked, answer, wpc>>

\* The query fails: Find returns the error and caches nothing.
QueryFails(r) ==
  /\ rpc[r] = "miss"
  /\ rpc' = [rpc EXCEPT ![r] = "idle"]
  /\ UNCHANGED <<cacheVars, now, db, asked, got, answer, wpc>>

\* Find stores the rows and returns them.
Fill(r) ==
  /\ rpc[r] = "fill"
  /\ Len(order) < MaxOrder
  /\ Set(QueryCacheKey(asked[r]), got[r])
  /\ answer' = [answer EXCEPT ![r] = got[r]]
  /\ got' = [got EXCEPT ![r] = Nothing]
  /\ rpc' = [rpc EXCEPT ![r] = "idle"]
  /\ UNCHANGED <<now, db, asked, wpc>>

\* A writer changes a table ...
Write(w, t) ==
  /\ wpc[w] = NoTable
  /\ db[t] < MaxWrites
  /\ db' = [db EXCEPT ![t] = @ + 1]
  /\ wpc' = [wpc EXCEPT ![w] = t]
  /\ UNCHANGED <<cacheVars, now, readerVars>>

\* Mutated form of DeleteByPrefix: the loop ends after the first key.
DeleteByPrefixFirst(t) ==
  LET match == {k \in DOMAIN entries : k[1] = t}
      keys == IF match = {} THEN {} ELSE {CHOOSE k \in match : TRUE}
  IN  /\ entries' = Without(entries, keys)
      /\ size' = Cardinality(DOMAIN entries')
      /\ UNCHANGED order

\* DeleteByPrefix of TableCachePrefix: the keys of the table leave the map;
\* order is not touched.  The colon ends the table's name in the prefix.
DeleteByPrefix(t) ==
  LET keys == {k \in DOMAIN entries : k[1] = t}
  IN  /\ entries' = Without(entries, keys)
      /\ size' = Cardinality(DOMAIN entries')
      /\ UNCHANGED order

\* ... and then drops what is cached of it.
Invalidate(w) ==
  /\ wpc[w] # NoTable
  /\ DeleteByPrefix(wpc[w])
  /\ wpc' = [wpc EXCEPT ![w] = NoTable]
  /\ UNCHANGED <<now, db, readerVars>>

\* Clear, called by the application.
Clear ==
  /\ entries' = << >> /\ order' = << >> /\ size' = 0
  /\ UNCHANGED <<now, db, readerVars, wpc>>

Tick ==
  /\ now < MaxTime
  /\ now' = now + 1
  /\ UNCHANGED <<cacheVars, db, readerVars, wpc>>

ReaderStep(r) ==
  \/ \E q \in Queries : Find(r, q)
  \/ Hit(r) \/ Expired(r) \/ RunQuery(r) \/ QueryFails(r) \/ Fill(r)

UpdaterStep(w) == (\E t \in Tables : Write(w, t)) \/ Invalidate(w)

QueryNext ==
  \/ \E r \in Readers : ReaderStep(r)
  \/ \E w \in Updaters : UpdaterStep(w)
  \/ Clear \/ Tick

QuerySpec == QueryInit /\ [][QueryNext]_queryVars

-----------------------------------------------------------------------------
\* Every cached key is listed in order, in spite of entries that expire, are
\* deleted and are set again, so the eviction loop of Set (line 161) ends.
KeysTracked == DOMAIN entries \subseteq Range(order)

\* The cache never holds more than maxEntries, and Stats reports that number.
SizeExact ==
  /\ Cardinality(DOMAIN entries) <= MaxEntries
  /\ size = Cardinality(DOMAIN entries)

\* The cache stays within its bound for ever: every key it may have to evict is
\* listed, and the number it compares with the bound is the number it holds,
\* through expiry, deletion, Clear and sets of cached keys (lines 126 to 233).
CacheBounded == KeysTracked /\ SizeExact

\* Find returns the rows of the query that was asked for: "a key unique to a
\* query", made of table, text and arguments (cache.go, lines 76 and 77).
AnswersTheQuery ==
  \A r \in Readers :
    rpc[r] = "idle" /\ answer[r] # Nothing => answer[r].query = asked[r]

\* After a write and its invalidation nothing outdated is cached, except what
\* a Find stored that had run its query before the write.
InvalidationHolds ==
  \A k \in DOMAIN entries :
    entries[k].value.ver < db[k[1]] =>
      entries[k].late \/ \E w \in Updaters : wpc[w] = k[1]
=============================================================================
