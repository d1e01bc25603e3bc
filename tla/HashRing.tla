------------------------------ MODULE HashRing ------------------------------
(***************************************************************************)
(* The strategies of package sharding (sharding/sharding.go) that map a    *)
(* key to the index of a shard.  The hash fnv-1a is external: a point of   *)
(* the ring is given for every virtual node, a key comes with its hash.    *)
(***************************************************************************)
EXTENDS Integers, Sequences, FiniteSets

CONSTANT Replicas   \* virtual nodes of a shard

\* NewConsistentHashStrategy replaces a number that is not positive.
ASSUME ReplicasAssumption == Replicas \in Nat \ {0}

\* Go's remainder takes the sign of the dividend.
Rem(a, n) == IF a >= 0 THEN a % n ELSE -((-a) % n)

\* ModuloStrategy: a number by its value, anything else by its hash.
ModuloShard(key, n) == IF key.kind = "int" THEN Rem(key.val, n) ELSE key.hash % n

\* The points of the first n shards in the order Build appends them.
Appended(point, n) ==
  [k \in 1 .. n * Replicas |-> point[<<(k - 1) \div Replicas, (k - 1) % Replicas>>]]

\* sortRing: an element goes after those that are not greater.
Insert(sorted, p) ==
  LET i == Cardinality({k \in DOMAIN sorted : sorted[k] <= p})
  IN  SubSeq(sorted, 1, i) \o <<p>> \o SubSeq(sorted, i + 1, Len(sorted))

\* Build: the ring of the points, sorted ...
Ring(point, n) ==
  LET from[k \in 0 .. n * Replicas] ==
        IF k = 0 THEN << >> ELSE Insert(from[k - 1], Appended(point, n)[k])
  IN  from[n * Replicas]

\* ... and the shard of each: the last one that wrote it into the map.
Nodes(point, n) ==
  [p \in {point[v] : v \in (0 .. n - 1) \X (0 .. Replicas - 1)} |->
    CHOOSE i \in 0 .. n - 1 :
      /\ \E j \in 0 .. Replicas - 1 : point[<<i, j>>] = p
      /\ \A l \in 0 .. n - 1 : (\E j \in 0 .. Replicas - 1 : point[<<l, j>>] = p) => l <= i]

\* Mutated form of BinarySearch: an equal point is passed.
BinarySearchStrict(ring, hash) ==
  LET from[low \in 0 .. Len(ring), high \in -1 .. Len(ring) - 1] ==
        LET mid == (low + high) \div 2
        IN  IF low > high THEN low
            ELSE IF ring[mid + 1] <= hash THEN from[mid + 1, high] ELSE from[low, mid - 1]
  IN  from[0, Len(ring) - 1]

\* binarySearch, in Go's indices: the loop narrows low to high.
BinarySearch(ring, hash) ==
  LET from[low \in 0 .. Len(ring), high \in -1 .. Len(ring) - 1] ==
        LET mid == (low + high) \div 2
        IN  IF low > high THEN low
            ELSE IF ring[mid + 1] < hash THEN from[mid + 1, high] ELSE from[low, mid - 1]
  IN  from[0, Len(ring) - 1]

\* The place of a key on the ring, from the start again after the last point.
RingIndex(ring, hash) ==
  LET idx == BinarySearch(ring, hash)
  IN  IF idx >= Len(ring) THEN 0 ELSE idx

\* ConsistentHashStrategy.GetShard; without a ring it falls back to the modulo.
RingShard(ring, nodes, key, n) ==
  IF ring = << >> THEN ModuloShard(key, n)
  ELSE nodes[ring[RingIndex(ring, key.hash) + 1]]

-----------------------------------------------------------------------------
\* Where a hash goes once the ring is built for n shards.
Placed(point, hash, n) ==
  RingShard(Ring(point, n), Nodes(point, n), [kind |-> "string", hash |-> hash], n)

\* Reference definition: a hash belongs to the least point that is not below
\* it, or to the least of all.
Successor(points, hash) ==
  LET above == {p \in points : p >= hash}
      from == IF above = {} THEN points ELSE above
  IN  CHOOSE p \in from : \A q \in from : p <= q
=============================================================================
