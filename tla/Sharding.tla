------------------------------ MODULE Sharding ------------------------------
(***************************************************************************)
(* ShardManager (sharding/sharding.go) and ShardExecutor                   *)
(* (core/shard_executor.go): shards are opened one after another, a        *)
(* statement goes to the shard of its key or to the next in turn, and      *)
(* statements for all shards run in a goroutine each.  Every manager has a *)
(* strategy of its own.                                                    *)
(***************************************************************************)
EXTENDS HashRing

CONSTANTS
  MaxShards,   \* shards there are points for
  Space,       \* values of the hash
  IntKeys,     \* numbers used as keys
  Placements,  \* where the virtual nodes of the shards may lie
  MaxCalls     \* bound on statements without a key

ASSUME ShardsAssumption == MaxShards \in Nat \ {0} /\ MaxCalls \in Nat
ASSUME SpaceAssumption == Space \subseteq Nat /\ Space # {} /\ IntKeys \subseteq Int
ASSUME PlacementsAssumption ==
  /\ Placements # {}
  /\ Placements \subseteq [(0 .. MaxShards - 1) \X (0 .. Replicas - 1) -> Space]

None == -1
Panic == -2
Keys == [kind : {"int"}, val : IntKeys, hash : Space] \cup [kind : {"string"}, hash : Space]

VARIABLES
  strategy,   \* "modulo" or "ring"
  n,          \* number of DSNs
  point,      \* the hash of every virtual node
  ring, nodes,   \* of the ConsistentHashStrategy
  mgr,        \* NewShardManager "opening", then "ready", "failed" or "closed"
  at,         \* the shard NewShardManager opens next
  open,       \* shards whose sql.DB is open
  counter,    \* sm.counter
  dest,       \* the shard of the last statement, None or Panic
  sent,       \* history: statements without a key that each shard got
  fan,        \* per shard: goroutine of a call for all shards: "off", "run", "done"
  answers,    \* results and errors of that call, by place
  gave        \* history: what each shard answered to it

config == <<strategy, n, point>>
manager == <<ring, nodes, mgr, at, open>>
routing == <<counter, dest, sent>>
fanOut == <<fan, answers, gave>>
vars == <<config, manager, routing, fanOut>>

Shards == 0 .. n - 1

-----------------------------------------------------------------------------
Init ==
  /\ n \in 1 .. MaxShards
  /\ \/ strategy = "modulo" /\ point = CHOOSE p \in Placements : TRUE
     \/ strategy = "ring" /\ point \in Placements
  /\ ring = << >> /\ nodes = << >>
  /\ mgr = "opening" /\ at = 0 /\ open = {}
  /\ counter = 0 /\ dest = None
  /\ sent = [i \in Shards |-> 0]
  /\ fan = [i \in Shards |-> "off"]
  /\ answers = [i \in Shards |-> "none"]
  /\ gave = [i \in Shards |-> "none"]

\* A shard is opened and answers the ping.  After the last one the ring of a
\* ConsistentHashStrategy is built.
OpenShard ==
  /\ mgr = "opening"
  /\ open' = open \cup {at}
  /\ at' = at + 1
  /\ IF at + 1 < n THEN UNCHANGED <<mgr, ring, nodes>> ELSE
       /\ mgr' = "ready"
       /\ ring' = IF strategy = "ring" THEN Ring(point, n) ELSE ring
       /\ nodes' = IF strategy = "ring" THEN Nodes(point, n) ELSE nodes
  /\ UNCHANGED <<config, routing, fanOut>>

\* sql.Open or the ping fails: that shard and those before it are closed.
OpenFails ==
  /\ mgr = "opening"
  /\ mgr' = "failed"
  /\ \E opened \in BOOLEAN :
       open' = (IF opened THEN (open \cup {at}) \ {at} ELSE open) \ (0 .. at - 1)
  /\ UNCHANGED <<config, ring, nodes, at, routing, fanOut>>

\* An index outside of sm.shards panics.
GetShard(key) ==
  LET i == IF strategy = "ring" THEN RingShard(ring, nodes, key, n) ELSE ModuloShard(key, n)
  IN  IF i \in Shards THEN i ELSE Panic

\* A statement with a key, the extractor's or, failing that, the context's.
Keyed(key) ==
  /\ mgr \in {"ready", "closed"}
  /\ dest' = GetShard(key)
  /\ UNCHANGED <<config, manager, counter, sent, fanOut>>

\* The counter is incremented atomically, then reduced.
NextShard == (counter + 1) % n

\* A statement without a key goes to the next shard in turn.
Unkeyed ==
  /\ mgr \in {"ready", "closed"} /\ counter < MaxCalls
  /\ counter' = counter + 1
  /\ dest' = NextShard
  /\ sent' = [sent EXCEPT ![NextShard] = @ + 1]
  /\ UNCHANGED <<config, manager, fanOut>>

\* ExecOnAllShards and QueryAllShards start a goroutine for every shard ...
AllShards ==
  /\ mgr \in {"ready", "closed"} /\ \A i \in Shards : fan[i] = "off"
  /\ fan' = [i \in Shards |-> "run"]
  /\ UNCHANGED <<config, manager, routing, answers, gave>>

\* Mutated form of OnShard: the goroutine uses the shard the loop ended with.
OnShardCaptured(i) ==
  /\ fan[i] = "run"
  /\ \E a \in IF n - 1 \in open THEN {"ok", "err"} ELSE {"err"} :
       /\ gave' = [gave EXCEPT ![n - 1] = a]
       /\ answers' = [answers EXCEPT ![i] = a]
  /\ fan' = [fan EXCEPT ![i] = "done"]
  /\ UNCHANGED <<config, manager, routing>>

\* ... which runs the statement there, and the callback on its rows, and stores
\* the result or the error in its place.  A closed sql.DB refuses.
OnShard(i) ==
  /\ fan[i] = "run"
  /\ \E a \in IF i \in open THEN {"ok", "err"} ELSE {"err"} :
       /\ gave' = [gave EXCEPT ![i] = a]
       /\ answers' = [answers EXCEPT ![i] = a]
  /\ fan' = [fan EXCEPT ![i] = "done"]
  /\ UNCHANGED <<config, manager, routing>>

\* The call returns them when all are done.
AllReturned ==
  /\ \A i \in Shards : fan[i] = "done"
  /\ fan' = [i \in Shards |-> "off"]
  /\ answers' = [i \in Shards |-> "none"]
  /\ gave' = [i \in Shards |-> "none"]
  /\ UNCHANGED <<config, manager, routing>>

\* Close closes every shard, whichever fail.
Close ==
  /\ mgr = "ready"
  /\ mgr' = "closed"
  /\ open' = {}
  /\ UNCHANGED <<config, ring, nodes, at, routing, fanOut>>

Next ==
  \/ OpenShard \/ OpenFails \/ Unkeyed \/ AllShards \/ AllReturned \/ Close
  \/ \E key \in Keys : Keyed(key)
  \/ \E i \in Shards : OnShard(i)

Spec == Init /\ [][Next]_vars

-----------------------------------------------------------------------------
\* The binary search over the sorted ring, with its step back to the start,
\* finds the point that the definition of consistent hashing names, also where
\* virtual nodes coincide (GetShard and Build, lines 80 to 147).
LookupIsSuccessor ==
  ring # << >> =>
    \A h \in Space :
      ring[RingIndex(ring, h) + 1] = Successor({point[v] : v \in Shards \X (0 .. Replicas - 1)}, h)

\* "Minimises redistribution when shards are added" (line 60): with one more
\* shard a key stays where it was or goes to the new shard.
MovesOnlyToNew ==
  strategy = "ring" /\ mgr = "ready" /\ n < MaxShards =>
    \A h \in Space : Placed(point, h, n + 1) \in {Placed(point, h, n), n}

\* Both: keys find the shard the definition names, and keep it when one is added.
RingIsConsistent == LookupIsSuccessor /\ MovesOnlyToNew

\* A manager that could not be made, or was closed, leaves no database open,
\* whichever shard refused and at which of the two calls (lines 188 to 206, 275).
NoLeak == mgr \in {"failed", "closed"} => open = {}

\* Statements without a key are spread evenly: between two shards they differ
\* by one at most (line 261).
RoundRobinEven == \A i, j \in Shards : sent[i] - sent[j] <= 1

\* "One result per shard" (core/shard_executor.go, line 69): when the goroutines
\* are done each place holds what the shard of that index answered.
AnswersInPlace ==
  (\A i \in Shards : fan[i] = "done") => \A i \in Shards : gave[i] # "none" /\ answers[i] = gave[i]

\* The three together: whatever opens, fails, closes and ends in whatever order,
\* nothing stays open, statements are spread evenly, and every answer of a call
\* for all shards is the answer of its own shard.
ShardsServe == NoLeak /\ RoundRobinEven /\ AnswersInPlace
=============================================================================
