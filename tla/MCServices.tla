----------------------------- MODULE MCServices -----------------------------
(***************************************************************************)
(* Nine services around the builder that share no state: shards, read      *)
(* replicas, cloud adapters, upserts, schema changes, the watchers, the    *)
(* buses, tenants and subscriptions.  A behaviour runs one of them; the    *)
(* others rest.  Up to three shards of two virtual nodes each lie on a    *)
(* ring of three hashes; the two nodes of a shard are interchangeable, so  *)
(* the first is not above the second.  On SQLite, where an upsert always   *)
(* fails at its first statement, one model is enough.                      *)
(***************************************************************************)
EXTENDS Sharding, ReadReplicas, CloudAdapters, Upsert, SchemaDiff, QueryWatch,
        Buses, Tenancy, Subscriptions

CONSTANTS s1, s2, s3
VARIABLE part
mcVars == <<part, vars, replicaVars, cloudVars, upVars, schemaVars, watchVars, busVars, tenantVars, subVars>>

MCPlacements ==
  {p \in [(0 .. MaxShards - 1) \X (0 .. Replicas - 1) -> Space] :
    \A i \in 0 .. MaxShards - 1 : p[<<i, 0>>] <= p[<<i, 1>>]}
MCIntKeys == {-1, 4}

\* Two queries whose fields print alike, of three words each.
MCBusQueries == {<<<<"x", "y">>, <<"z">>>>, <<<<"x">>, <<"y", "z">>>>}

\* Two subscriptions on one channel and one on another.
MCChannelOf == [s \in Subs |-> IF s = s3 THEN "posts" ELSE "users"]

MCIdCol == Col("int", FALSE, "none")
MCNameCols == {Col(t, null, d) : t \in {"int", "text"}, null \in BOOLEAN, d \in {"none", "x"}}
MCCatalogs ==
  LET users == {One("users", [cols |-> Plus(One("id", MCIdCol), c), refs |-> {}]) :
                  c \in {<<>>, One("old", MCIdCol)} \cup {One("name", k) : k \in MCNameCols}}
      posts(r) == One("posts", [cols |-> One("id", MCIdCol), refs |-> r])
  IN  {Plus(u, p) : u \in {<<>>} \cup users, p \in {<<>>, posts({})}}
        \cup {Plus(u, posts({"users"})) : u \in users}
MCModelSchemas ==
  {Plus(u, p) :
     u \in {<<>>} \cup {One("users", Plus(One("id", MCIdCol), c)) :
              c \in {<<>>} \cup {One("name", k) : k \in {j \in MCNameCols : j.default = "none"}}},
     p \in {<<>>, One("posts", One("id", MCIdCol))}}
MCSingular == [users |-> "user", posts |-> "post"]

ShardRest ==
  /\ n = 1 /\ strategy = "modulo" /\ point = CHOOSE p \in Placements : TRUE
  /\ ring = <<>> /\ nodes = <<>> /\ mgr = "failed" /\ at = 0 /\ open = {} /\ counter = 0 /\ dest = None
  /\ sent = [i \in Shards |-> 0] /\ fan = [i \in Shards |-> "off"]
  /\ answers = [i \in Shards |-> "none"] /\ gave = [i \in Shards |-> "none"]
ReplicaRest ==
  /\ replicas = 0 /\ life = "over" /\ handles = {} /\ written = <<>> /\ applied = <<>>
  /\ turn = 0 /\ wraps = 0 /\ sentTo = <<>>
  /\ target = [u \in Users |-> Idle] /\ want = [u \in Users |-> NoStatement]
  /\ saw = [u \in Users |-> [mine |-> 0, refused |-> FALSE]]
CloudRest ==
  /\ adapter = [kind |-> "other", state |-> "failed", handles |-> {}] /\ value = 0
  /\ txPc = [c \in TxClients |-> "idle"] /\ txTry = [c \in TxClients |-> 0]
  /\ txRead = [c \in TxClients |-> 0] /\ txOpen = {}
  /\ txApplied = [c \in TxClients |-> 0] /\ txAsked = [c \in TxClients |-> 0]
UpRest ==
  /\ upForm = "sqlite" /\ people = {} /\ upModels = <<>> /\ upOp = "one" /\ upNext = 1
  /\ upCfg = [target |-> "id", cols |-> {}, doNothing |-> FALSE, where |-> FALSE]
  /\ upDone = "error"
SchemaRest ==
  /\ catalog = <<>> /\ filled = {} /\ models = <<>> /\ spoken = TRUE /\ listed = {} /\ seen = <<>>
  /\ todo = {} /\ working = "none" /\ ran = <<>> /\ diffPc = "error" /\ rounds = 0 /\ drops = 0 /\ origin = <<>>
WatchRest ==
  /\ clock = 0 /\ stamped = [g \in Routines |-> NoQuery] /\ queries = {} /\ detections = <<>>
  /\ lastClean = 0 /\ called = {} /\ entered = <<>> /\ late = FALSE
  /\ stats = <<>> /\ ended = 0 /\ alerts = [due |-> {}, given |-> {}] /\ enabled = {}

BusRest ==
  /\ busKind = "event" /\ handler = NoHandler /\ middleware = <<>> /\ fact = 0 /\ cached = <<>>
  /\ subscribed = [t \in Topics |-> <<>>] /\ busCall = [c \in Callers |-> NoCall] /\ busCalls = 0
TenantRest ==
  /\ tnCtx = [c \in TnClients |-> ""] /\ tnOwn = tnCtx /\ tnExtract = FALSE /\ tnStrategy = "column"
  /\ session = [k \in TnConns |-> FreshSession] /\ tnTx = [c \in TnClients |-> 0]
  /\ tnUndo = [c \in TnClients |-> FreshSession] /\ tnState = [c \in TnClients |-> "ok"]
  /\ tnSet = [c \in TnClients |-> {}] /\ schemas = {} /\ rls = {} /\ rlsNext = 1 /\ tnSaw = NothingRead
SubRest == SubInit

MCInit ==
  \/ part = "shards" /\ Init
       /\ ReplicaRest /\ CloudRest /\ UpRest /\ SchemaRest /\ WatchRest /\ BusRest /\ TenantRest /\ SubRest
  \/ part = "replicas" /\ ReplicaInit
       /\ ShardRest /\ CloudRest /\ UpRest /\ SchemaRest /\ WatchRest /\ BusRest /\ TenantRest /\ SubRest
  \/ part = "cloud" /\ CloudInit
       /\ ShardRest /\ ReplicaRest /\ UpRest /\ SchemaRest /\ WatchRest /\ BusRest /\ TenantRest /\ SubRest
  \/ part = "upsert" /\ UpInit /\ (upForm = "sqlite" => Len(upModels) = 1)
       /\ ShardRest /\ ReplicaRest /\ CloudRest /\ SchemaRest /\ WatchRest /\ BusRest /\ TenantRest /\ SubRest
  \/ part = "schema" /\ SchemaInit
       /\ ShardRest /\ ReplicaRest /\ CloudRest /\ UpRest /\ WatchRest /\ BusRest /\ TenantRest /\ SubRest
  \/ part = "watch" /\ WatchInit
       /\ ShardRest /\ ReplicaRest /\ CloudRest /\ UpRest /\ SchemaRest /\ BusRest /\ TenantRest /\ SubRest
  \/ part = "buses" /\ BusInit
       /\ ShardRest /\ ReplicaRest /\ CloudRest /\ UpRest /\ SchemaRest /\ WatchRest /\ TenantRest /\ SubRest
  \/ part = "tenants" /\ TenantInit
       /\ ShardRest /\ ReplicaRest /\ CloudRest /\ UpRest /\ SchemaRest /\ WatchRest /\ BusRest /\ SubRest
  \/ part = "subscriptions" /\ SubInit
       /\ ShardRest /\ ReplicaRest /\ CloudRest /\ UpRest /\ SchemaRest /\ WatchRest /\ BusRest /\ TenantRest

MCNext ==
  /\ UNCHANGED part
  /\ \/ part = "shards" /\ Next
          /\ UNCHANGED <<replicaVars, cloudVars, upVars, schemaVars, watchVars, busVars, tenantVars, subVars>>
     \/ part = "replicas" /\ ReplicaNext
          /\ UNCHANGED <<vars, cloudVars, upVars, schemaVars, watchVars, busVars, tenantVars, subVars>>
     \/ part = "cloud" /\ CloudNext
          /\ UNCHANGED <<vars, replicaVars, upVars, schemaVars, watchVars, busVars, tenantVars, subVars>>
     \/ part = "upsert" /\ UpNext
          /\ UNCHANGED <<vars, replicaVars, cloudVars, schemaVars, watchVars, busVars, tenantVars, subVars>>
     \/ part = "schema" /\ SchemaNext
          /\ UNCHANGED <<vars, replicaVars, cloudVars, upVars, watchVars, busVars, tenantVars, subVars>>
     \/ part = "watch" /\ WatchNext
          /\ UNCHANGED <<vars, replicaVars, cloudVars, upVars, schemaVars, busVars, tenantVars, subVars>>
     \/ part = "buses" /\ BusNext
          /\ UNCHANGED <<vars, replicaVars, cloudVars, upVars, schemaVars, watchVars, tenantVars, subVars>>
     \/ part = "tenants" /\ TenantNext
          /\ UNCHANGED <<vars, replicaVars, cloudVars, upVars, schemaVars, watchVars, busVars, subVars>>
     \/ part = "subscriptions" /\ SubNext
          /\ UNCHANGED <<vars, replicaVars, cloudVars, upVars, schemaVars, watchVars, busVars, tenantVars>>

MCSpec == MCInit /\ [][MCNext]_mcVars
=============================================================================
