--------------------------- MODULE ServicesProofs ---------------------------
(***************************************************************************)
(* Theorems about five services around the builder, each with any number   *)
(* of clients, shards, replicas or connections, and about the schema       *)
(* differ, for any catalogs and models.                                    *)
(***************************************************************************)
EXTENDS Sharding, ReadReplicas, CloudAdapters, Tenancy, ServerlessPool, SchemaDiff,
        SequenceTheorems, FiniteSetTheorems, TLAPS

LEMMA Remainder ==
  ASSUME NEW m \in Nat \ {0}, NEW q \in Nat, NEW r \in 0 .. m - 1
  PROVE  (m * q + r) % m = r
OBVIOUS

\* The remainder goes up by one or starts again.
LEMMA NextRemainder ==
  ASSUME NEW a \in Nat, NEW m \in Nat \ {0}
  PROVE  /\ a % m \in 0 .. m - 1
         /\ (a + 1) % m = IF (a % m) + 1 = m THEN 0 ELSE (a % m) + 1
<1> DEFINE q == a \div m
           r == a % m
<1>1. q \in Nat /\ r \in 0 .. m - 1 /\ a = m * q + r
    OBVIOUS
<1> HIDE DEF q, r
<1>2. CASE r + 1 < m
    <2>1. a + 1 = m * q + (r + 1) /\ r + 1 \in Nat
        BY <1>1
    <2>2. (a + 1) % m = r + 1
        BY ONLY <1>1, <1>2, <2>1, m \in Nat \ {0}, Remainder
    <2> QED BY <1>1, <1>2, <2>2 DEF r
<1>3. CASE r + 1 = m
    <2>1. a + 1 = m * (q + 1) + 0 /\ q + 1 \in Nat
        BY <1>1, <1>3
    <2>2. (m * (q + 1) + 0) % m = 0
        BY ONLY <2>1, 0 \in 0 .. m - 1, m \in Nat \ {0}, Remainder
    <2> QED BY <1>1, <1>3, <2>1, <2>2 DEF r
<1> QED BY <1>1, <1>2, <1>3

-----------------------------------------------------------------------------
\* While shards are opened those before the next are open.  The shards from the
\* second to the one the counter stands at got one statement more than the rest,
\* and a goroutine that is done has left its shard's answer in its place.
ShardInv ==
  /\ n \in Nat \ {0} /\ counter \in Nat /\ at \in Nat
  /\ mgr = "opening" => open = 0 .. at - 1
  /\ NoLeak
  /\ DOMAIN sent = Shards /\ DOMAIN fan = Shards
  /\ DOMAIN answers = Shards /\ DOMAIN gave = Shards
  /\ \E k \in Nat : \A i \in Shards :
       sent[i] = k + (IF 1 <= i /\ i <= counter % n THEN 1 ELSE 0)
  /\ \A i \in Shards : fan[i] = "done" => gave[i] # "none" /\ answers[i] = gave[i]

LEMMA ShardStep ==
  ASSUME ShardInv, [Next]_vars
  PROVE  ShardInv'
<1> USE DEF ShardInv, Shards, NoLeak
<1>1. CASE UNCHANGED vars
    BY <1>1 DEF vars, config, manager, routing, fanOut
<1>2. CASE OpenShard
    <2>1. UNCHANGED <<config, routing, fanOut>> /\ at' = at + 1 /\ open' = open \cup {at}
          /\ mgr = "opening" /\ mgr' \in {"opening", "ready"}
        BY <1>2 DEF OpenShard
    <2>2. open' = 0 .. at' - 1
        BY <2>1
    <2> QED BY <2>1, <2>2 DEF config, routing, fanOut
<1>3. CASE OpenFails
    <2>1. UNCHANGED <<config, at, routing, fanOut>> /\ mgr' = "failed" /\ open' = {}
        BY <1>3 DEF OpenFails
    <2> QED BY <2>1 DEF config, routing, fanOut
<1>4. CASE \E key \in Keys : Keyed(key)
    BY <1>4 DEF Keyed, config, manager, fanOut
<1>5. CASE Unkeyed
    <2> DEFINE r == counter % n
    <2>1. /\ r \in 0 .. n - 1 /\ NextShard = IF r + 1 = n THEN 0 ELSE r + 1
        BY NextRemainder DEF NextShard
    <2>2. /\ UNCHANGED <<config, manager, fanOut>> /\ counter' = counter + 1
          /\ sent' = [sent EXCEPT ![NextShard] = @ + 1]
        BY <1>5 DEF Unkeyed
    <2>3. n' = n /\ counter' % n' = NextShard
        BY <2>2 DEF NextShard, config
    <2>4. PICK k \in Nat : \A i \in Shards : sent[i] = k + (IF 1 <= i /\ i <= r THEN 1 ELSE 0)
        OBVIOUS
    <2> HIDE DEF r
    <2>5. \E j \in Nat : \A i \in Shards :
            sent'[i] = j + (IF 1 <= i /\ i <= NextShard THEN 1 ELSE 0)
        <3>1. CASE r + 1 = n
            <4>1. k + 1 \in Nat
                  /\ \A i \in Shards : sent'[i] = k + 1 + (IF 1 <= i /\ i <= NextShard THEN 1 ELSE 0)
                BY <2>1, <2>2, <2>4, <3>1
            <4> QED BY ONLY <4>1
        <3>2. CASE r + 1 # n
            <4>1. \A i \in Shards : sent'[i] = k + (IF 1 <= i /\ i <= NextShard THEN 1 ELSE 0)
                BY <2>1, <2>2, <2>4, <3>2
            <4> QED BY ONLY <4>1, k \in Nat
        <3> QED BY <3>1, <3>2
    <2>6. DOMAIN sent' = Shards' /\ counter' \in Nat
        BY <2>2, <2>3
    <2>7. NoLeak' /\ (mgr' = "opening" => open' = 0 .. at' - 1) /\ at' \in Nat
        BY <2>2 DEF manager
    <2>8. /\ DOMAIN fan' = Shards' /\ DOMAIN answers' = Shards' /\ DOMAIN gave' = Shards'
          /\ \A i \in Shards' : fan'[i] = "done" => gave'[i] # "none" /\ answers'[i] = gave'[i]
        BY <2>2, <2>3 DEF fanOut
    <2> QED BY <2>3, <2>5, <2>6, <2>7, <2>8
<1>6. CASE AllShards \/ AllReturned
    BY <1>6 DEF AllShards, AllReturned, config, manager, routing
<1>7. ASSUME NEW i \in Shards, OnShard(i) PROVE ShardInv'
    <2>1. UNCHANGED <<config, manager, routing>>
        BY <1>7 DEF OnShard
    <2>2. PICK a \in {"ok", "err"} : /\ gave' = [gave EXCEPT ![i] = a]
                                     /\ answers' = [answers EXCEPT ![i] = a]
                                     /\ fan' = [fan EXCEPT ![i] = "done"]
        BY <1>7 DEF OnShard
    <2>3. /\ n' = n /\ counter' = counter /\ at' = at /\ mgr' = mgr /\ open' = open /\ sent' = sent
          /\ Shards' = Shards /\ NoLeak'
        BY <2>1 DEF config, manager, routing, Shards, NoLeak
    <2>4. /\ DOMAIN fan' = Shards /\ DOMAIN answers' = Shards /\ DOMAIN gave' = Shards
          /\ \A s \in Shards : fan'[s] = "done" => gave'[s] # "none" /\ answers'[s] = gave'[s]
        BY <2>2
    <2> QED BY <2>3, <2>4
<1>8. CASE Close
    BY <1>8 DEF Close, config, routing, fanOut
<1> QED BY <1>1, <1>2, <1>3, <1>4, <1>5, <1>6, <1>7, <1>8 DEF Next

\* A manager that failed or was closed leaves nothing open, statements without
\* a key are spread to within one, and the answers of a call for all shards lie
\* in the places of their shards, for any number of shards.
THEOREM ServesAllShards == Spec => []ShardsServe
<1>1. Init => ShardInv
    <2> SUFFICES ASSUME Init PROVE ShardInv
        OBVIOUS
    <2>1. n \in Nat \ {0} /\ 0 % n = 0
        BY ShardsAssumption DEF Init
    <2>2. \A i \in Shards : sent[i] = 0 + (IF 1 <= i /\ i <= counter % n THEN 1 ELSE 0)
        BY <2>1 DEF Init, Shards
    <2> QED BY <2>1, <2>2 DEF Init, ShardInv, NoLeak, Shards
<1>2. ShardInv => ShardsServe
    BY DEF ShardInv, ShardsServe, RoundRobinEven, AnswersInPlace, Shards
<1> QED BY <1>1, <1>2, ShardStep, PTL DEF Spec

-----------------------------------------------------------------------------
\* Transactions have connections of their own, and what one has set is what its
\* session says: nobody else reaches the session before it ends.
SessionInv ==
  /\ DOMAIN tnTx = TnClients /\ DOMAIN tnSet = TnClients /\ DOMAIN session = TnConns
  /\ \A k \in TnConns : session[k] = [schema |-> session[k].schema, tenant |-> session[k].tenant]
  /\ \A c \in TnClients : tnTx[c] # 0 =>
       tnUndo[c] = [schema |-> tnUndo[c].schema, tenant |-> tnUndo[c].tenant]
  /\ DOMAIN tnUndo = TnClients
  /\ \A c \in TnClients : tnTx[c] \in TnConns \cup {0}
  /\ \A c, d \in TnClients : c # d /\ tnTx[c] # 0 => tnTx[c] # tnTx[d]
  /\ \A c \in TnClients : tnTx[c] = 0 => tnSet[c] = {}
  /\ \A c \in TnClients : "schema" \in tnSet[c] => session[tnTx[c]].schema = GetSchemaName(c)
  /\ \A c \in TnClients : "tenant" \in tnSet[c] => session[tnTx[c]].tenant = getTenantID(c)
  /\ schemas \subseteq Tenants

LEMMA TenancyFacts ==
  /\ TnConns \subseteq Nat /\ 0 \notin TnConns
  /\ "public" \notin Tenants
  /\ \A c \in TnClients : GetSchemaName(c) \in Tenants => GetSchemaName(c) = getTenantID(c)
  /\ \A c \in TnClients : getTenantID(c) \in Tenants => GetSchemaName(c) = getTenantID(c)
<1>1. TnConns \subseteq Nat \ {0}
    BY TenancyAssumption, Zenon
<1>2. "public" \notin Tenants /\ "" \notin Tenants
    BY TenancyAssumption, Zenon
<1>3. \A c \in TnClients : GetSchemaName(c) \in Tenants => GetSchemaName(c) = getTenantID(c)
    BY <1>2, Zenon DEF GetSchemaName
<1>4. \A c \in TnClients : getTenantID(c) \in Tenants => GetSchemaName(c) = getTenantID(c)
    BY <1>2, Zenon DEF GetSchemaName
<1>5. TnConns \subseteq Nat /\ 0 \notin TnConns
    BY <1>1
<1>6. "public" \notin Tenants
    BY <1>2, Zenon
<1> QED BY <1>3, <1>4, <1>5, <1>6, Zenon

LEMMA ConfigStays ==
  ASSUME UNCHANGED tnConfig
  PROVE  \A c \in TnClients :
           GetSchemaName(c)' = GetSchemaName(c) /\ getTenantID(c)' = getTenantID(c)
<1>1. tnCtx' = tnCtx /\ tnOwn' = tnOwn /\ (tnExtract' = tnExtract)
    BY Zenon DEF tnConfig
<1>2. \A c \in TnClients : getTenantID(c)' = getTenantID(c)
    BY <1>1, Zenon DEF getTenantID
<1> QED BY <1>2, Zenon DEF GetSchemaName

LEMMA SettingKeeps ==
  ASSUME SessionInv, NEW c \in TnClients, NEW k \in TnConns, NEW what \in {"schema", "tenant"},
         NEW fails \in BOOLEAN,
         Setting(c, k, what, IF what = "schema" THEN GetSchemaName(c) ELSE getTenantID(c), fails)
  PROVE  SessionInv'
<1> DEFINE read == IF what = "schema" THEN GetSchemaName(c) ELSE getTenantID(c)
<1>1. /\ UNCHANGED <<tnConfig, tnTx, tnUndo, schemas>> /\ On(c, k)
      /\ \/ UNCHANGED <<session, tnSet>>
         \/ /\ session' = [session EXCEPT ![k] = [@ EXCEPT ![what] = read]]
            /\ tnSet' = [tnSet EXCEPT ![c] = IF tnTx[c] # 0 THEN @ \cup {what} ELSE @]
    BY DEF Setting
<1> HIDE DEF read
<1>2. \A d \in TnClients : GetSchemaName(d)' = GetSchemaName(d) /\ getTenantID(d)' = getTenantID(d)
    BY <1>1, ConfigStays
<1>3. CASE UNCHANGED <<session, tnSet>>
    BY <1>1, <1>2, <1>3 DEF SessionInv
<1>4. CASE /\ session' = [session EXCEPT ![k] = [@ EXCEPT ![what] = read]]
           /\ tnSet' = [tnSet EXCEPT ![c] = IF tnTx[c] # 0 THEN @ \cup {what} ELSE @]
    <2>1. session[k] = [schema |-> session[k].schema, tenant |-> session[k].tenant]
        BY DEF SessionInv
    <2>2. session'[k] = [session[k] EXCEPT ![what] = read]
        BY <1>4 DEF SessionInv
    <2>3. /\ what = "schema" => session'[k] = [schema |-> read, tenant |-> session[k].tenant]
          /\ what = "tenant" => session'[k] = [schema |-> session[k].schema, tenant |-> read]
        BY ONLY <2>1, <2>2
    <2>4. DOMAIN session' = TnConns /\ \A l \in TnConns \ {k} : session'[l] = session[l]
        BY <1>4 DEF SessionInv
    <2>5. \A d \in TnClients \ {c} : tnSet'[d] = tnSet[d]
        BY <1>4 DEF SessionInv
    <2>6. tnSet'[c] = IF tnTx[c] # 0 THEN tnSet[c] \cup {what} ELSE tnSet[c]
        BY <1>4 DEF SessionInv
    <2>7. \A d \in TnClients \ {c} : tnTx[d] # k
        BY <1>1, TenancyFacts DEF On, Free, SessionInv
    <2>8. tnTx[c] # 0 => tnTx[c] = k
        BY <1>1 DEF On
    <2>9. \A d \in TnClients \ {c} :
            /\ "schema" \in tnSet'[d] => session'[tnTx'[d]].schema = GetSchemaName(d)
            /\ "tenant" \in tnSet'[d] => session'[tnTx'[d]].tenant = getTenantID(d)
        <3> TAKE d \in TnClients \ {c}
        <3>1. tnSet'[d] # {} => session'[tnTx[d]] = session[tnTx[d]]
            BY <2>4, <2>5, <2>7 DEF SessionInv
        <3> QED BY <1>1, <2>5, <3>1 DEF SessionInv
    <2>10. /\ "schema" \in tnSet'[c] => session'[tnTx'[c]].schema = GetSchemaName(c)
           /\ "tenant" \in tnSet'[c] => session'[tnTx'[c]].tenant = getTenantID(c)
        <3>1. CASE tnTx[c] = 0
            BY <2>6, <3>1 DEF SessionInv
        <3>2. CASE tnTx[c] # 0
            <4>1. /\ "schema" \in tnSet[c] => session[k].schema = GetSchemaName(c)
                  /\ "tenant" \in tnSet[c] => session[k].tenant = getTenantID(c)
                BY <2>8, <3>2 DEF SessionInv
            <4>2. tnTx'[c] = k /\ tnSet'[c] = tnSet[c] \cup {what}
                BY <1>1, <2>6, <2>8, <3>2
            <4>3. CASE what = "schema"
                BY <2>3, <4>1, <4>2, <4>3 DEF read
            <4>4. CASE what = "tenant"
                BY <2>3, <4>1, <4>2, <4>4 DEF read
            <4> QED BY <4>3, <4>4
        <3> QED BY <3>1, <3>2
    <2>11. \A l \in TnConns : session'[l] = [schema |-> session'[l].schema, tenant |-> session'[l].tenant]
        <3>1. session'[k] = [schema |-> session'[k].schema, tenant |-> session'[k].tenant]
            BY ONLY <2>3, what \in {"schema", "tenant"}
        <3> QED BY <2>4, <3>1 DEF SessionInv
    <2>12. DOMAIN tnSet' = TnClients /\ \A d \in TnClients : tnTx'[d] = 0 => tnSet'[d] = {}
        BY <1>1, <1>4 DEF SessionInv
    <2>13. /\ \A d \in TnClients : "schema" \in tnSet'[d] => session'[tnTx'[d]].schema = GetSchemaName(d)'
           /\ \A d \in TnClients : "tenant" \in tnSet'[d] => session'[tnTx'[d]].tenant = getTenantID(d)'
        BY <1>2, <2>9, <2>10
    <2> QED BY <1>1, <2>4, <2>11, <2>12, <2>13 DEF SessionInv
<1> QED BY <1>1, <1>3, <1>4 DEF read

\* Transactions begin and end; everything else leaves sessions alone.
LEMMA SessionStep ==
  ASSUME SessionInv, [TenantNext]_tenantVars
  PROVE  SessionInv'
<1>1. CASE UNCHANGED <<tnConfig, session, tnTx, tnUndo, tnSet>> /\ schemas' \subseteq Tenants
    BY <1>1, ConfigStays DEF SessionInv
<1>2. CASE UNCHANGED tenantVars
    BY <1>1, <1>2, Zenon DEF tenantVars, tnConfig, SessionInv
<1>3. ASSUME NEW c \in TnClients, TnBegin(c) PROVE SessionInv'
    <2>1. UNCHANGED <<tnConfig, session, schemas>> /\ tnTx[c] = 0
        BY <1>3, Zenon DEF TnBegin
    <2>2. PICK k \in Free : tnTx' = [tnTx EXCEPT ![c] = k] /\ tnUndo' = [tnUndo EXCEPT ![c] = session[k]]
        BY <1>3, Zenon DEF TnBegin
    <2>3. tnSet' = [tnSet EXCEPT ![c] = {}]
        BY <1>3, Zenon DEF TnBegin
    <2>4. /\ \A d \in TnClients \ {c} : tnTx'[d] = tnTx[d] /\ tnSet'[d] = tnSet[d] /\ tnUndo'[d] = tnUndo[d]
          /\ tnTx'[c] = k /\ tnSet'[c] = {} /\ tnUndo'[c] = session[k]
        BY <2>2, <2>3 DEF SessionInv
    <2>5. k \in TnConns /\ \A d \in TnClients : tnTx[d] # k
        BY DEF Free
    <2>6. \A d \in TnClients : GetSchemaName(d)' = GetSchemaName(d) /\ getTenantID(d)' = getTenantID(d)
        BY <2>1, ConfigStays
    <2>7. \A d, e \in TnClients : d # e /\ tnTx'[d] # 0 => tnTx'[d] # tnTx'[e]
        BY <2>4, <2>5 DEF SessionInv
    <2>8. \A d \in TnClients : /\ "schema" \in tnSet'[d] => session[tnTx'[d]].schema = GetSchemaName(d)
                               /\ "tenant" \in tnSet'[d] => session[tnTx'[d]].tenant = getTenantID(d)
        BY <2>4 DEF SessionInv
    <2>9. \A d \in TnClients : tnTx'[d] # 0 =>
            tnUndo'[d] = [schema |-> tnUndo'[d].schema, tenant |-> tnUndo'[d].tenant]
        BY <2>4, <2>5 DEF SessionInv
    <2>10. /\ DOMAIN tnTx' = TnClients /\ DOMAIN tnSet' = TnClients /\ DOMAIN tnUndo' = TnClients
           /\ \A d \in TnClients : tnTx'[d] \in TnConns \cup {0} /\ (tnTx'[d] = 0 => tnSet'[d] = {})
        BY <2>2, <2>3, <2>4, <2>5 DEF SessionInv
    <2> QED BY <2>1, <2>6, <2>7, <2>8, <2>9, <2>10 DEF SessionInv
<1>4. ASSUME NEW c \in TnClients, NEW commit \in BOOLEAN, TnEnd(c, commit) PROVE SessionInv'
    <2>1. /\ UNCHANGED <<tnConfig, tnUndo, schemas>> /\ tnTx[c] # 0
          /\ session' = session \/ session' = [session EXCEPT ![tnTx[c]] = tnUndo[c]]
          /\ tnTx' = [tnTx EXCEPT ![c] = 0] /\ tnSet' = [tnSet EXCEPT ![c] = {}]
        BY <1>4 DEF TnEnd
    <2>2. /\ \A d \in TnClients \ {c} : tnTx'[d] = tnTx[d] /\ tnSet'[d] = tnSet[d]
          /\ tnTx'[c] = 0 /\ tnSet'[c] = {}
        BY <2>1 DEF SessionInv
    <2>3. \A k \in TnConns : session'[k] = session[k] \/ (k = tnTx[c] /\ session'[k] = tnUndo[c])
        BY <2>1 DEF SessionInv
    <2>4. \A k \in TnConns : session'[k] = [schema |-> session'[k].schema, tenant |-> session'[k].tenant]
        BY <2>1, <2>3 DEF SessionInv
    <2>5. \A d \in TnClients : GetSchemaName(d)' = GetSchemaName(d) /\ getTenantID(d)' = getTenantID(d)
        BY <2>1, ConfigStays
    <2>6. \A d \in TnClients : /\ "schema" \in tnSet'[d] => session'[tnTx'[d]].schema = GetSchemaName(d)
                               /\ "tenant" \in tnSet'[d] => session'[tnTx'[d]].tenant = getTenantID(d)
        <3> TAKE d \in TnClients
        <3>1. CASE d = c
            BY <2>2, <3>1
        <3>2. CASE d # c
            <4>1. tnSet[d] # {} => session'[tnTx[d]] = session[tnTx[d]]
                BY <2>1, <2>3, <3>2 DEF SessionInv
            <4> QED BY <2>2, <3>2, <4>1 DEF SessionInv
        <3> QED BY <3>1, <3>2
    <2>7. /\ DOMAIN tnTx' = TnClients /\ DOMAIN tnSet' = TnClients /\ DOMAIN session' = TnConns
          /\ \A d \in TnClients : tnTx'[d] \in TnConns \cup {0} /\ (tnTx'[d] = 0 => tnSet'[d] = {})
          /\ \A d, e \in TnClients : d # e /\ tnTx'[d] # 0 => tnTx'[d] # tnTx'[e]
        BY <2>1, <2>2 DEF SessionInv
    <2>8. /\ DOMAIN tnUndo' = TnClients
          /\ \A d \in TnClients : tnTx'[d] # 0 =>
               tnUndo'[d] = [schema |-> tnUndo'[d].schema, tenant |-> tnUndo'[d].tenant]
        BY <2>1, <2>2 DEF SessionInv
    <2> QED BY <2>1, <2>4, <2>5, <2>6, <2>7, <2>8 DEF SessionInv
<1>5. ASSUME NEW c \in TnClients, NEW k \in TnConns, NEW fails \in BOOLEAN,
             SetSearchPath(c, k, fails) \/ SetTenantSession(c, k, fails)
      PROVE  SessionInv'
    <2>1. CASE SetSearchPath(c, k, fails)
        BY <2>1, SettingKeeps DEF SetSearchPath
    <2>2. CASE SetTenantSession(c, k, fails)
        BY <2>2, SettingKeeps DEF SetTenantSession
    <2> QED BY <1>5, <2>1, <2>2
<1>6. ASSUME NEW c \in TnClients, ApplyToQuery(c) \/ \E k \in TnConns : ReadSchema(c, k) \/ ReadShared(c, k)
      PROVE  SessionInv'
    BY <1>1, <1>6, Zenon DEF ApplyToQuery, ReadSchema, ReadShared, SessionInv
<1>7. ASSUME NEW t \in Tenants, CreateTenantSchema(t) \/ DropTenantSchema(t)
      PROVE  SessionInv'
    <2>1. /\ UNCHANGED <<tnConfig, session, tnTx, tnUndo, tnSet>>
          /\ schemas' = schemas \cup {t} \/ schemas' = schemas \ {t}
        BY <1>7, Zenon DEF CreateTenantSchema, DropTenantSchema
    <2> QED BY <1>1, <2>1 DEF SessionInv
<1>8. ASSUME NEW fails \in BOOLEAN, CreateRLSPolicy(fails) PROVE SessionInv'
    BY <1>1, <1>8, Zenon DEF CreateRLSPolicy, SessionInv
<1> QED BY <1>2, <1>3, <1>4, <1>5, <1>6, <1>7, <1>8, Zenon DEF TenantNext

LEMMA ReadsStep ==
  ASSUME SessionInv, TenantReadsOwn, [TenantNext]_tenantVars
  PROVE  TenantReadsOwn'
<1> DEFINE Own(c) == IF tnExtract THEN tnOwn[c] ELSE tnCtx[c]
\* What the property says of a read by c that saw this.
<1>1. \A c \in TnClients : Own(c) = getTenantID(c)
    BY Zenon DEF getTenantID
<1>2. CASE UNCHANGED <<tnConfig, tnSaw>>
    BY <1>2, Zenon DEF tnConfig, TenantReadsOwn
<1>3. ASSUME NEW c \in TnClients, NEW k \in TnConns, ReadSchema(c, k)
      PROVE  TenantReadsOwn'
    <2> DEFINE got == {IF session[k].schema \in schemas THEN session[k].schema ELSE "public"}
    <2>1. /\ UNCHANGED tnConfig /\ tnStrategy = "schema" /\ On(c, k)
          /\ tnSaw' = [client |-> c, safe |-> "schema" \in tnSet[c], had |-> schemas, got |-> got]
        BY <1>3, Zenon DEF ReadSchema
    <2>2. "schema" \in tnSet[c] => session[k].schema = GetSchemaName(c)
        BY <2>1 DEF On, SessionInv
    <2>3. "schema" \in tnSet[c] => got = {IF getTenantID(c) \in schemas THEN getTenantID(c) ELSE "public"}
        BY <2>2, TenancyFacts DEF SessionInv
    <2>4. tnSaw'.client = c /\ tnSaw'.safe = ("schema" \in tnSet[c]) /\ tnSaw'.had = schemas /\ tnSaw'.got = got
        BY <2>1
    <2>5. tnExtract' = tnExtract /\ tnOwn' = tnOwn /\ tnCtx' = tnCtx /\ tnStrategy' = "schema"
        BY <2>1, Zenon DEF tnConfig
    <2> QED BY <1>1, <2>3, <2>4, <2>5, Zenon DEF TenantReadsOwn
<1>4. ASSUME NEW c \in TnClients, NEW k \in TnConns, ReadShared(c, k)
      PROVE  TenantReadsOwn'
    <2> DEFINE forced == {"enabled", "forced"} \subseteq rls
               got == IF ~forced THEN Tenants
                      ELSE IF "policy" \in rls THEN {session[k].tenant} \cap Tenants ELSE {}
    <2>1. /\ UNCHANGED tnConfig /\ tnStrategy = "rls" /\ On(c, k)
          /\ tnSaw' = [client |-> c, safe |-> "tenant" \in tnSet[c] /\ forced, got |-> got]
        BY <1>4, Zenon DEF ReadShared
    <2>2. "tenant" \in tnSet[c] => session[k].tenant = getTenantID(c)
        BY <2>1 DEF On, SessionInv
    <2>3. "tenant" \in tnSet[c] /\ forced => got \subseteq {getTenantID(c)}
        BY <2>2
    <2>4. tnSaw'.client = c /\ tnSaw'.safe = ("tenant" \in tnSet[c] /\ forced) /\ tnSaw'.got = got
        BY <2>1
    <2>5. tnExtract' = tnExtract /\ tnOwn' = tnOwn /\ tnCtx' = tnCtx /\ tnStrategy' # "schema"
        BY <2>1 DEF tnConfig
    <2> HIDE DEF got, forced
    <2> QED BY <1>1, <2>3, <2>4, <2>5, Zenon DEF TenantReadsOwn
<1>5. ASSUME NEW c \in TnClients, ApplyToQuery(c)
      PROVE  TenantReadsOwn'
    <2>1. PICK got : tnSaw' = [client |-> c, safe |-> FALSE, got |-> got]
        BY <1>5, Zenon DEF ApplyToQuery
    <2>2. tnSaw'.safe = FALSE
        BY <2>1
    <2> QED BY <2>2, Zenon DEF TenantReadsOwn
<1>6. TenantNext \/ UNCHANGED tenantVars
    OBVIOUS
<1> QED BY <1>2, <1>3, <1>4, <1>5, <1>6, Zenon DEF TenantNext, tenantVars, tnConfig, TnBegin, TnEnd,
           SetSearchPath, SetTenantSession, Setting, CreateTenantSchema, DropTenantSchema, CreateRLSPolicy

\* Whatever other clients leave in the sessions of pooled connections, a
\* transaction that has set its tenant reads that tenant's data and no other's.
THEOREM TenantsReadTheirOwn == TenantSpec => []TenantReadsOwn
<1>1. TenantInit => SessionInv
    <2> SUFFICES ASSUME TenantInit PROVE SessionInv
        OBVIOUS
    <2>1. \A s, e : [schema |-> s, tenant |-> e] =
                     [schema |-> [schema |-> s, tenant |-> e].schema, tenant |-> [schema |-> s, tenant |-> e].tenant]
        OBVIOUS
    <2>2. FreshSession = [schema |-> FreshSession.schema, tenant |-> FreshSession.tenant]
        BY <2>1, Zenon DEF FreshSession
    <2>3. /\ session = [k \in TnConns |-> FreshSession] /\ tnTx = [c \in TnClients |-> 0]
          /\ tnUndo = [c \in TnClients |-> FreshSession] /\ tnSet = [c \in TnClients |-> {}] /\ schemas = {}
        BY Zenon DEF TenantInit
    <2> QED BY <2>2, <2>3 DEF SessionInv
<1>2. TenantInit => TenantReadsOwn
    <2>1. TenantInit => tnSaw = NothingRead
        BY Zenon DEF TenantInit
    <2>2. ~NothingRead.safe
        BY DEF NothingRead
    <2> QED BY <2>1, <2>2, Zenon DEF TenantReadsOwn
<1> QED BY <1>1, <1>2, SessionStep, ReadsStep, PTL DEF TenantSpec

-----------------------------------------------------------------------------
\* The adapter: its handles are open as far as its constructor has got.
AdapterInv ==
  /\ adapter = [kind |-> adapter.kind, state |-> adapter.state, handles |-> adapter.handles]
  /\ adapter.state \in {"opening", "ready", "failed", "closed"}
  /\ adapter.state = "opening" => \/ adapter.handles = {}
                                  \/ adapter.handles = {"writer"} /\ adapter.kind = "aurora"
  /\ adapter.state = "ready" => adapter.handles = Handles(adapter.kind)
  /\ adapter.state \in {"failed", "closed"} => adapter.handles = {}

\* A retry is owed to a commit of another client or to fn: an attempt that has
\* read the counter was preceded by as many retries as the counter and fn explain.
RetryInv ==
  /\ value \in Nat /\ value = Applied(TxClients)
  /\ txTry \in [TxClients -> Nat] /\ txRead \in [TxClients -> Nat] /\ txAsked \in [TxClients -> Nat]
  /\ txApplied \in [TxClients -> {0, 1}] /\ DOMAIN txPc = TxClients
  /\ \A c \in TxClients :
       /\ txPc[c] = "ok" => txApplied[c] = 1
       /\ txPc[c] \notin {"ok", "error"} => txApplied[c] = 0
       /\ txTry[c] <= maxRetries
       /\ txPc[c] \in {"idle", "begin", "fn", "commit"} => txTry[c] < maxRetries
       /\ txTry[c] <= Applied(TxClients \ {c}) + txAsked[c]
       /\ txPc[c] \in {"fn", "commit"} => txRead[c] <= value /\ txTry[c] <= txRead[c] + txAsked[c]
       /\ c \in txOpen <=> txPc[c] \in {"fn", "commit", "panicked"}

LEMMA AdapterStep ==
  ASSUME AdapterInv, [CloudNext]_cloudVars
  PROVE  AdapterInv'
<1>1. CASE adapter' = adapter
    BY <1>1 DEF AdapterInv, Handles
<1>2. ASSUME NEW fails \in BOOLEAN, NewAdapter(fails) PROVE AdapterInv'
    <2> DEFINE opened == adapter.handles \cup {IF adapter.handles = {} THEN "writer" ELSE "reader"}
    <2>1. /\ adapter.state = "opening"
          /\ adapter' = IF fails THEN [adapter EXCEPT !.state = "failed", !.handles = {}]
                        ELSE [adapter EXCEPT !.handles = opened,
                                !.state = IF opened = Handles(adapter.kind) THEN "ready" ELSE adapter.state]
        BY <1>2 DEF NewAdapter
    <2>2. CASE fails
        BY <2>1, <2>2 DEF AdapterInv
    <2>3. CASE ~fails
        <3>1. opened = {"writer"} \/ (opened = {"writer", "reader"} /\ adapter.kind = "aurora")
            BY <2>1 DEF AdapterInv
        <3>2. opened = Handles(adapter.kind) \/ (opened = {"writer"} /\ adapter.kind = "aurora")
            BY <3>1 DEF Handles
        <3> HIDE DEF opened
        <3>3. adapter' = [kind |-> adapter.kind, handles |-> opened,
                          state |-> IF opened = Handles(adapter.kind) THEN "ready" ELSE "opening"]
            BY <2>1, <2>3 DEF AdapterInv
        <3>4. /\ adapter'.kind = adapter.kind /\ adapter'.handles = opened
              /\ adapter'.state = IF opened = Handles(adapter.kind) THEN "ready" ELSE "opening"
            BY ONLY <3>3
        <3>5. adapter' = [kind |-> adapter'.kind, state |-> adapter'.state, handles |-> adapter'.handles]
            BY ONLY <3>3
        <3> QED BY <3>2, <3>4, <3>5 DEF AdapterInv, Handles
    <2> QED BY <2>2, <2>3
<1>3. CASE CloseAdapter
    BY <1>3 DEF CloseAdapter, AdapterInv
<1> QED BY <1>1, <1>2, <1>3 DEF CloudNext, cloudVars, Call, BeginTx, BeginFails, FnPanics, Fn, Commit

Count(f, S) == Cardinality({x \in S : f[x] > 0})

LEMMA CountSplit ==
  ASSUME NEW f, NEW c \in TxClients
  PROVE  /\ Count(f, TxClients) \in Nat /\ Count(f, TxClients \ {c}) \in Nat
         /\ Count(f, TxClients) = Count(f, TxClients \ {c}) + (IF f[c] > 0 THEN 1 ELSE 0)
<1> DEFINE S == {x \in TxClients : f[x] > 0}
           T == {x \in TxClients \ {c} : f[x] > 0}
<1>1. IsFiniteSet(TxClients)
    BY CloudAssumption
<1>2. S \subseteq TxClients /\ T \subseteq TxClients
    OBVIOUS
<1>3. IsFiniteSet(S) /\ IsFiniteSet(T)
    BY <1>1, <1>2, FS_Subset
<1>4. Cardinality(S) \in Nat /\ Cardinality(T) \in Nat
    BY <1>3, FS_CardinalityType
<1>5. Count(f, TxClients) = Cardinality(S) /\ Count(f, TxClients \ {c}) = Cardinality(T)
    BY DEF Count
<1>6. S = IF f[c] > 0 THEN T \cup {c} ELSE T
    OBVIOUS
<1>7. c \notin T
    OBVIOUS
<1> HIDE DEF S, T
<1>8. Cardinality(T \cup {c}) = Cardinality(T) + 1
    BY <1>3, <1>7, FS_AddElement
<1> QED BY <1>4, <1>5, <1>6, <1>8

\* The commits that had an effect, with and without those of one client.
LEMMA AppliedCounts ==
  \A S : Applied(S) = Count(txApplied, S) /\ Applied(S)' = Count(txApplied', S)
BY DEF Applied, Count

\* Commits have effects and retries; everything else goes on or gives up.
LEMMA RetryStep ==
  ASSUME RetryInv, [CloudNext]_cloudVars
  PROVE  RetryInv'
<1>1. CASE UNCHANGED txVars
    BY <1>1, Zenon DEF txVars, RetryInv, Applied
<1>2. ASSUME NEW c \in TxClients, Call(c) \/ BeginTx(c) \/ BeginFails(c) \/ FnPanics(c)
      PROVE  RetryInv'
    <2>1. UNCHANGED <<value, txTry, txApplied, txAsked>>
        BY <1>2 DEF Call, BeginTx, BeginFails, FnPanics
    <2>2. \A x \in TxClients : Applied(TxClients \ {x})' = Applied(TxClients \ {x})
        BY <2>1, Zenon DEF Applied
    <2>3. Applied(TxClients)' = Applied(TxClients)
        BY <2>1, Zenon DEF Applied
    <2>4. txApplied[c] = 0 /\ txTry[c] < maxRetries
        BY <1>2 DEF Call, BeginTx, BeginFails, FnPanics, RetryInv
    <2>5. txTry[c] <= value + txAsked[c]
        <3>1. Applied(TxClients \ {c}) = value
            BY <2>4, CountSplit, AppliedCounts DEF RetryInv
        <3> QED BY <3>1 DEF RetryInv
    <2>6. CASE Call(c)
        BY <2>1, <2>2, <2>3, <2>6 DEF Call, RetryInv
    <2>7. CASE BeginTx(c)
        BY <2>1, <2>2, <2>3, <2>5, <2>7 DEF BeginTx, RetryInv
    <2>8. CASE BeginFails(c)
        BY <2>1, <2>2, <2>3, <2>8 DEF BeginFails, RetryInv
    <2>9. CASE FnPanics(c)
        BY <2>1, <2>2, <2>3, <2>9 DEF FnPanics, RetryInv
    <2> QED BY <1>2, <2>6, <2>7, <2>8, <2>9
\* An attempt ends with an error: the loop goes on, returns or runs out.
<1>3. ASSUME NEW c \in TxClients, NEW e, Again(c, e), txPc[c] \in {"fn", "commit"},
             DOMAIN txTry' = TxClients, DOMAIN txPc' = TxClients
      PROVE  /\ \A x \in TxClients \ {c} : txPc'[x] = txPc[x] /\ txTry'[x] = txTry[x]
             /\ \/ txPc'[c] = "error" /\ txTry'[c] = txTry[c]
                \/ /\ e = "40001" /\ txTry'[c] = txTry[c] + 1
                   /\ \/ txPc'[c] = "begin" /\ txTry[c] + 1 < maxRetries
                      \/ txPc'[c] = "exhausted" /\ txTry[c] + 1 = maxRetries
             /\ txTry' \in [TxClients -> Nat]
    <2>1. txTry \in [TxClients -> Nat] /\ DOMAIN txPc = TxClients /\ txTry[c] < maxRetries
        BY <1>3 DEF RetryInv
    <2>2. maxRetries \in Nat
        BY CloudAssumption
    <2>3. CASE e = "40001"
        <3>1. /\ txTry' = [txTry EXCEPT ![c] = @ + 1]
              /\ txPc' = [txPc EXCEPT ![c] = IF txTry[c] + 1 < maxRetries THEN "begin" ELSE "exhausted"]
            BY <1>3, <2>3 DEF Again, isCockroachRetryError
        <3> QED BY <2>1, <2>2, <2>3, <3>1
    <2>4. CASE e # "40001"
        <3>1. txTry' = txTry /\ txPc' = [txPc EXCEPT ![c] = "error"]
            BY <1>3, <2>4 DEF Again, isCockroachRetryError
        <3> QED BY <2>1, <3>1
    <2> QED BY <2>3, <2>4
<1>4. ASSUME NEW c \in TxClients, NEW e \in {"nil", "error", "40001"}, Fn(c, e)
      PROVE  RetryInv'
    <2>1. UNCHANGED <<value, txRead, txApplied>> /\ txPc[c] = "fn"
        BY <1>4 DEF Fn
    <2>2. /\ \A x \in TxClients : Applied(TxClients \ {x})' = Applied(TxClients \ {x})
          /\ Applied(TxClients)' = Applied(TxClients)
        BY <2>1, Zenon DEF Applied
    <2>3. CASE e = "nil"
        <3>1. txPc' = [txPc EXCEPT ![c] = "commit"] /\ UNCHANGED <<txTry, txOpen, txAsked>>
            BY <1>4, <2>3 DEF Fn
        <3> QED BY <2>1, <2>2, <3>1 DEF RetryInv
    <2>4. CASE e # "nil"
        <3>1. /\ Again(c, e) /\ txOpen' = txOpen \ {c}
              /\ txAsked' = [txAsked EXCEPT ![c] = @ + (IF e = "40001" /\ txRead[c] = value THEN 1 ELSE 0)]
            BY <1>4, <2>4 DEF Fn
        <3>2. DOMAIN txTry' = TxClients /\ DOMAIN txPc' = TxClients
            BY <3>1 DEF Again, RetryInv
        <3>3. /\ txAsked' \in [TxClients -> Nat] /\ \A x \in TxClients \ {c} : txAsked'[x] = txAsked[x]
              /\ txAsked'[c] = txAsked[c] + (IF e = "40001" /\ txRead[c] = value THEN 1 ELSE 0)
            BY <3>1 DEF RetryInv
        <3>4. txApplied[c] = 0 /\ txRead[c] <= value /\ txTry[c] <= txRead[c] + txAsked[c]
            BY <2>1 DEF RetryInv
        <3>5. Applied(TxClients \ {c}) = value /\ value \in Nat
            BY <3>4, CountSplit, AppliedCounts DEF RetryInv
        <3>6. /\ txRead[c] \in Nat /\ txTry[c] \in Nat /\ txAsked[c] \in Nat /\ maxRetries \in Nat
              /\ txTry[c] < maxRetries
            BY <2>1, CloudAssumption DEF RetryInv
        <3>7. \/ txPc'[c] = "error" /\ txTry'[c] = txTry[c]
              \/ /\ e = "40001" /\ txTry'[c] = txTry[c] + 1
                 /\ \/ txPc'[c] = "begin" /\ txTry[c] + 1 < maxRetries
                    \/ txPc'[c] = "exhausted" /\ txTry[c] + 1 = maxRetries
            BY <1>3, <2>1, <3>1, <3>2
        <3>8. /\ txTry'[c] <= value + txAsked'[c] /\ txTry'[c] <= maxRetries
              /\ txPc'[c] \in {"begin", "error", "exhausted"}
              /\ txPc'[c] = "begin" => txTry'[c] < maxRetries
            BY ONLY <3>3, <3>4, <3>5, <3>6, <3>7
        <3>9. /\ \A x \in TxClients \ {c} : txPc'[x] = txPc[x] /\ txTry'[x] = txTry[x]
              /\ txTry' \in [TxClients -> Nat]
            BY <1>3, <2>1, <3>1, <3>2
        <3> QED BY <2>1, <2>2, <3>1, <3>2, <3>3, <3>4, <3>5, <3>8, <3>9 DEF RetryInv
    <2> QED BY <2>3, <2>4
<1>5. ASSUME NEW c \in TxClients, NEW e \in {"nil", "40001", "lost"}, NEW effect \in BOOLEAN,
             Commit(c, e, effect)
      PROVE  RetryInv'
    <2>1. /\ txPc[c] = "commit" /\ txOpen' = txOpen \ {c} /\ UNCHANGED <<txRead, txAsked>>
          /\ value' = IF effect THEN value + 1 ELSE value
          /\ txApplied' = [txApplied EXCEPT ![c] = @ + (IF effect THEN 1 ELSE 0)]
          /\ e = "nil" => effect
          /\ e = "40001" => ~effect /\ txRead[c] # value
        BY <1>5 DEF Commit
    <2>2. txApplied[c] = 0 /\ txRead[c] <= value /\ txTry[c] <= txRead[c] + txAsked[c]
        BY <2>1 DEF RetryInv
    <2>3. Applied(TxClients \ {c}) = value /\ value \in Nat
        BY <2>2, CountSplit, AppliedCounts DEF RetryInv
    <2>4. /\ txApplied' \in [TxClients -> {0, 1}] /\ txApplied'[c] = IF effect THEN 1 ELSE 0
          /\ \A x \in TxClients \ {c} : txApplied'[x] = txApplied[x]
        BY <2>1, <2>2 DEF RetryInv
    <2>5. Applied(TxClients \ {c})' = Applied(TxClients \ {c})
        <3>1. {x \in TxClients \ {c} : txApplied'[x] > 0} = {x \in TxClients \ {c} : txApplied[x] > 0}
            BY <2>4
        <3> QED BY <3>1, Zenon DEF Applied
    <2>6. Applied(TxClients)' = value'
        <3>1. Applied(TxClients)' = Applied(TxClients \ {c})' + (IF txApplied'[c] > 0 THEN 1 ELSE 0)
            BY CountSplit, AppliedCounts
        <3> QED BY <2>1, <2>3, <2>4, <2>5, <3>1
    <2>7. \A x \in TxClients \ {c} : Applied(TxClients \ {x})' >= Applied(TxClients \ {x})
        <3> TAKE x \in TxClients \ {c}
        <3>1. /\ Applied(TxClients)' = Applied(TxClients \ {x})' + (IF txApplied'[x] > 0 THEN 1 ELSE 0)
              /\ Applied(TxClients \ {x})' \in Nat
            BY CountSplit, AppliedCounts
        <3>2. /\ Applied(TxClients) = Applied(TxClients \ {x}) + (IF txApplied[x] > 0 THEN 1 ELSE 0)
              /\ Applied(TxClients \ {x}) \in Nat
            BY CountSplit, AppliedCounts
        <3>3. value = Applied(TxClients) /\ value' >= value /\ value \in Nat /\ txApplied'[x] = txApplied[x]
            BY <2>1, <2>3, <2>4 DEF RetryInv
        <3> QED BY ONLY <2>6, <3>1, <3>2, <3>3
    <2>8. DOMAIN txTry' = TxClients /\ DOMAIN txPc' = TxClients
        BY <1>5 DEF Commit, Again, RetryInv
    <2>9. \A x \in TxClients \ {c} : txPc'[x] = txPc[x] /\ txTry'[x] = txTry[x]
        BY <1>3, <1>5, <2>8 DEF Commit, RetryInv
    <2>10. /\ txTry' \in [TxClients -> Nat] /\ txTry'[c] <= maxRetries
           /\ txTry'[c] <= value + txAsked[c]
           /\ \/ txPc'[c] = "ok" /\ effect
              \/ txPc'[c] = "error"
              \/ txPc'[c] = "begin" /\ ~effect /\ txTry'[c] < maxRetries
              \/ txPc'[c] = "exhausted" /\ ~effect
        <3>1. CASE e = "nil"
            BY <1>5, <2>1, <2>2, <3>1 DEF Commit, RetryInv
        <3>2. CASE e # "nil"
            <4>1. Again(c, e)
                BY <1>5, <3>2 DEF Commit
            <4>2. /\ \/ txPc'[c] = "error" /\ txTry'[c] = txTry[c]
                     \/ /\ e = "40001" /\ txTry'[c] = txTry[c] + 1
                        /\ \/ txPc'[c] = "begin" /\ txTry[c] + 1 < maxRetries
                           \/ txPc'[c] = "exhausted" /\ txTry[c] + 1 = maxRetries
                  /\ txTry' \in [TxClients -> Nat]
                BY <1>3, <2>1, <2>8, <4>1
            <4>3. /\ txRead[c] \in Nat /\ txTry[c] \in Nat /\ txAsked[c] \in Nat /\ maxRetries \in Nat
                  /\ txTry[c] < maxRetries /\ value \in Nat
                BY <2>1, CloudAssumption DEF RetryInv
            <4> QED BY ONLY <2>1, <2>2, <4>2, <4>3
        <3> QED BY <3>1, <3>2
    <2>11. value' \in Nat /\ value' >= value
        BY <2>1, <2>3
    <2>12. \A x \in TxClients : txTry'[x] <= Applied(TxClients \ {x})' + txAsked'[x]
        <3>1. txTry'[c] <= Applied(TxClients \ {c})' + txAsked'[c]
            BY <2>1, <2>3, <2>5, <2>10
        <3>2. ASSUME NEW x \in TxClients \ {c} PROVE txTry'[x] <= Applied(TxClients \ {x})' + txAsked'[x]
            <4>1. Applied(TxClients \ {x})' \in Nat /\ Applied(TxClients \ {x}) \in Nat
                BY CountSplit, AppliedCounts
            <4> QED BY <2>1, <2>7, <2>9, <4>1 DEF RetryInv
        <3> QED BY <3>1, <3>2
    <2> QED BY <2>1, <2>2, <2>4, <2>6, <2>8, <2>9, <2>10, <2>11, <2>12 DEF RetryInv
<1>6. CloudNext => \/ UNCHANGED txVars
                   \/ \E c \in TxClients :
                        \/ Call(c) \/ BeginTx(c) \/ BeginFails(c) \/ FnPanics(c)
                        \/ \E e \in {"nil", "error", "40001"} : Fn(c, e)
                        \/ \E e \in {"nil", "40001", "lost"}, effect \in BOOLEAN : Commit(c, e, effect)
    BY Zenon DEF CloudNext, NewAdapter, CloseAdapter
<1>7. UNCHANGED cloudVars => UNCHANGED txVars
    BY DEF cloudVars, txVars
<1> QED BY <1>1, <1>2, <1>4, <1>5, <1>6, <1>7

\* A transaction run with retries has its effect once if it succeeds and at most
\* once otherwise, for any number of clients and retries.
THEOREM EffectOnce == CloudSpec => []CommitsOnce
<1>1. CloudInit => AdapterInv
    BY DEF CloudInit, AdapterInv
<1>2. CloudInit => RetryInv
    <2> SUFFICES ASSUME CloudInit PROVE RetryInv
        OBVIOUS
    <2>1. \A S \in {TxClients} \cup {TxClients \ {c} : c \in TxClients} : Applied(S) = 0
        <3> TAKE S \in {TxClients} \cup {TxClients \ {c} : c \in TxClients}
        <3>1. {c \in S : txApplied[c] > 0} = {}
            BY DEF CloudInit
        <3> QED BY <3>1, FS_EmptySet DEF Applied
    <2> QED BY <2>1, CloudAssumption DEF CloudInit, RetryInv
<1>3. AdapterInv /\ RetryInv => CommitsOnce
    BY DEF AdapterInv, RetryInv, CommitsOnce, Reader, Handles
<1> QED BY <1>1, <1>2, <1>3, AdapterStep, RetryStep, PTL DEF CloudSpec

-----------------------------------------------------------------------------
\* All databases are open while the executor is used, none when it is over.
LifeInv ==
  /\ life = "running" => handles = AllDatabases
  /\ life = "over" => handles = {}

LEMMA LifeStep == LifeInv /\ [ReplicaNext]_replicaVars => LifeInv'
<1> SUFFICES ASSUME LifeInv, [ReplicaNext]_replicaVars PROVE LifeInv'
    OBVIOUS
<1> USE DEF LifeInv, AllDatabases
<1>1. CASE OpenNext \/ OpenReplicaFails
    BY <1>1 DEF OpenNext, OpenReplicaFails
<1>2. CASE NewMultiExecutor \/ CloseCall
    BY <1>2 DEF NewMultiExecutor, CloseCall
<1>3. CASE CloseNext
    BY <1>3 DEF CloseNext
<1>4. CASE UNCHANGED databases
    BY <1>4 DEF databases
<1> QED BY <1>1, <1>2, <1>3, <1>4
        DEF ReplicaNext, ExecContext, Answer, QueryContext, Replicate, replicaVars

\* What a statement under way goes to is what its context asks for.
TargetInv ==
  /\ replicas \in Nat /\ written \in Seq(Users)
  /\ DOMAIN target = Users /\ DOMAIN want = Users /\ DOMAIN saw = Users
  /\ \A u \in Users : target[u] \in {Idle, Primary} \cup RepIds
  /\ \A u \in Users : target[u] # Idle =>
       (target[u] = Primary <=> (want[u].primary \/ replicas = 0))

\* Where the counter stands, and how far apart two replicas may be: those up to
\* it are one ahead in this round, and every start adds one at most.  Before the
\* first start the first replica lacks the statement the counter began at.
Ahead(r, s) ==
  IF r <= turn % replicas /\ turn % replicas < s THEN 1
  ELSE IF s <= turn % replicas /\ turn % replicas < r THEN -1 ELSE 0
Share(r) == sentTo[r] + (IF r = 0 /\ wraps = 0 THEN 1 ELSE 0)

SpreadInv ==
  /\ replicas \in Nat /\ turn \in 0 .. Wrap - 1 /\ wraps \in Nat
  /\ sentTo \in [RepIds -> Nat]
  /\ \A r, s \in RepIds : Share(r) - Share(s) <= wraps + Ahead(r, s)

LEMMA WrittenByAll ==
  ASSUME TargetInv, NEW u \in Users
  PROVE  WrittenIn(u, Len(written)) = Written(u)
<1>1. DOMAIN written = 1 .. Len(written)
    BY DEF TargetInv
<1> QED BY <1>1 DEF Written, WrittenIn

\* What the answer to a statement of u has to be.
Answered(u) ==
  target[u] # Idle /\ target'[u] = Idle /\ life = "running" =>
    /\ want[u].primary \/ replicas = 0 =>
          /\ ~saw'[u].refused /\ saw'[u].mine = Written(u)
          /\ want[u].insert => written' = Append(written, u)
    /\ ~want[u].insert => ~saw'[u].refused

LEMMA TargetStep ==
  ASSUME LifeInv, TargetInv, SpreadInv, [ReplicaNext]_replicaVars
  PROVE  TargetInv' /\ \A u \in Users : Answered(u)
<1> USE DEF TargetInv
<1>1. replicas' = replicas /\ RepIds' = RepIds
    BY Zenon DEF ReplicaNext, OpenNext, NewMultiExecutor, OpenReplicaFails, CloseCall, CloseNext,
           ExecContext, Answer, QueryContext, Replicate, databases, dispatching, replicaVars, RepIds
<1>2. CASE UNCHANGED <<written, target, want, saw>>
    BY <1>1, <1>2 DEF Answered
<1>3. ASSUME NEW u \in Users, ExecContext(u)
      PROVE  written' \in Seq(Users) /\ UNCHANGED <<target, want, saw>>
    BY <1>3 DEF ExecContext
<1>4. ASSUME NEW u \in Users, NEW insert \in BOOLEAN, NEW primary \in BOOLEAN,
             QueryContext(u, insert, primary)
      PROVE  TargetInv' /\ (\A v \in Users : target[v] # Idle => target'[v] = target[v])
    <2>1. /\ UNCHANGED <<written, saw>> /\ target[u] = Idle
          /\ want' = [want EXCEPT ![u] = [insert |-> insert, primary |-> primary]]
          /\ target' = [target EXCEPT ![u] = getReadDB(primary)]
        BY <1>4 DEF QueryContext
    <2>2. \/ getReadDB(primary) = Primary /\ (primary \/ replicas = 0)
          \/ getReadDB(primary) \in RepIds /\ ~primary /\ replicas # 0
        <3>1. ASSUME replicas # 0 PROVE nextReplica \in RepIds
            <4>1. turn + 1 \in Nat /\ Wrap \in Nat \ {0}
                BY ReadReplicasAssumption DEF SpreadInv
            <4>2. (turn + 1) % Wrap \in Nat
                BY ONLY <4>1, NextRemainder
            <4>3. replicas \in Nat \ {0}
                BY <3>1
            <4> QED BY ONLY <4>2, <4>3, NextRemainder DEF nextReplica, RepIds
        <3> QED BY <3>1 DEF getReadDB
    <2>3. want'[u].primary = primary /\ target'[u] = getReadDB(primary)
        BY <2>1
    <2>4. \A v \in Users \ {u} : want'[v] = want[v] /\ target'[v] = target[v]
        BY <2>1
    <2>5. Primary \notin RepIds /\ Idle \notin RepIds /\ Primary # Idle
        BY DEF Primary, Idle, RepIds
    <2> QED BY <1>1, <2>1, <2>2, <2>3, <2>4, <2>5
<1>5. ASSUME NEW u \in Users, Answer(u)
      PROVE  TargetInv' /\ \A v \in Users : Answered(v)
    <2> DEFINE k == IF target[u] = Primary THEN Len(written) ELSE applied[target[u]]
               refused == target[u] \notin handles \/ (want[u].insert /\ target[u] # Primary)
    <2>1. /\ target[u] # Idle /\ target' = [target EXCEPT ![u] = Idle]
          /\ want' = [want EXCEPT ![u] = NoStatement]
          /\ written' = IF want[u].insert /\ ~refused THEN Append(written, u) ELSE written
          /\ saw' = [saw EXCEPT ![u] = [mine |-> WrittenIn(u, k), refused |-> refused]]
        BY <1>5 DEF Answer
    <2>2. saw'[u].mine = WrittenIn(u, k) /\ saw'[u].refused = refused
        BY <2>1
    <2>3. target[u] = Primary => WrittenIn(u, k) = Written(u)
        BY WrittenByAll
    <2>4. DOMAIN target' = Users /\ DOMAIN want' = Users /\ DOMAIN saw' = Users /\ written' \in Seq(Users)
        BY <2>1
    <2>5. /\ target'[u] = Idle
          /\ \A v \in Users \ {u} : target'[v] = target[v] /\ want'[v] = want[v]
        BY <2>1
    <2>6. life = "running" => target[u] \in handles
        BY <2>1 DEF LifeInv, AllDatabases, RepIds, Primary
    <2>7. target[u] = Primary <=> (want[u].primary \/ replicas = 0)
        BY <2>1
    <2>8. Answered(u)
        BY <2>1, <2>2, <2>3, <2>6, <2>7 DEF Answered
    <2> HIDE DEF k, refused
    <2>9. TargetInv'
        BY <1>1, <2>4, <2>5
    <2> QED BY <2>5, <2>8, <2>9 DEF Answered
<1>6. ASSUME NEW r \in RepIds, Replicate(r) PROVE UNCHANGED <<written, target, want, saw>>
    BY <1>6 DEF Replicate
<1>7. OpenNext \/ NewMultiExecutor \/ OpenReplicaFails \/ CloseCall \/ CloseNext \/ UNCHANGED replicaVars
        => UNCHANGED <<written, target, want, saw>>
    BY DEF OpenNext, NewMultiExecutor, OpenReplicaFails, CloseCall, CloseNext, replicaVars
<1>8. ASSUME NEW u \in Users, ExecContext(u) PROVE TargetInv' /\ \A v \in Users : Answered(v)
    BY <1>1, <1>3, <1>8 DEF Answered
<1>9. ASSUME NEW u \in Users, NEW insert \in BOOLEAN, NEW primary \in BOOLEAN,
             QueryContext(u, insert, primary)
      PROVE  \A v \in Users : Answered(v)
    BY <1>4, <1>9 DEF Answered
<1> QED BY <1>2, <1>4, <1>5, <1>6, <1>7, <1>8, <1>9 DEF ReplicaNext

\* One statement more for the next replica, in this round or as its first.
LEMMA SpreadStep ==
  ASSUME SpreadInv, [ReplicaNext]_replicaVars
  PROVE  SpreadInv'
<1>1. CASE UNCHANGED <<replicas, turn, wraps, sentTo>>
    BY <1>1 DEF SpreadInv, Share, Ahead, RepIds
<1>2. ASSUME NEW u \in Users, NEW insert \in BOOLEAN, NEW primary \in BOOLEAN,
             QueryContext(u, insert, primary), getReadDB(primary) # Primary
      PROVE  SpreadInv'
    <2> DEFINE e == turn % replicas
               d == nextReplica
    <2>1. /\ replicas' = replicas /\ turn' = (turn + 1) % Wrap
          /\ wraps' = wraps + (IF turn' = 0 THEN 1 ELSE 0)
          /\ sentTo' = [sentTo EXCEPT ![d] = @ + 1]
          /\ replicas # 0
        BY <1>2 DEF QueryContext, getReadDB, databases
    <2>2. /\ replicas \in Nat \ {0} /\ Wrap \in Nat \ {0} /\ turn \in Nat /\ turn \in 0 .. Wrap - 1
          /\ wraps \in Nat /\ sentTo \in [RepIds -> Nat]
        BY <2>1, ReadReplicasAssumption DEF SpreadInv
    <2>3. turn' \in 0 .. Wrap - 1 /\ turn' = IF turn + 1 = Wrap THEN 0 ELSE turn + 1
        <3>1. turn % Wrap = turn
            BY <2>2
        <3>2. (turn + 1) % Wrap = IF (turn % Wrap) + 1 = Wrap THEN 0 ELSE (turn % Wrap) + 1
            BY ONLY <2>2, NextRemainder
        <3> QED BY ONLY <2>1, <2>2, <3>1, <3>2
    <2>4. e \in 0 .. replicas - 1 /\ (turn + 1) % replicas = IF e + 1 = replicas THEN 0 ELSE e + 1
        BY ONLY <2>2, NextRemainder
    <2>5. d = turn' % replicas
        BY <2>1 DEF nextReplica
    <2>6. 0 % replicas = 0
        BY ONLY <2>2, Remainder
    <2>7. d = IF turn + 1 = Wrap \/ e + 1 = replicas THEN 0 ELSE e + 1
        BY ONLY <2>3, <2>4, <2>5, <2>6
    <2> HIDE DEF e, d
    <2>8. /\ \A r \in RepIds : sentTo'[r] = sentTo[r] + (IF r = d THEN 1 ELSE 0)
          /\ sentTo' \in [RepIds -> Nat] /\ wraps' \in Nat
          /\ RepIds' = RepIds
        BY <2>1, <2>2, <2>4, <2>7 DEF RepIds
    <2>9. ASSUME NEW r \in RepIds, NEW s \in RepIds
          PROVE  Share(r)' - Share(s)' <= wraps' + Ahead(r, s)'
        <3>1. /\ r \in 0 .. replicas - 1 /\ s \in 0 .. replicas - 1
              /\ sentTo[r] \in Nat /\ sentTo[s] \in Nat
            BY <2>2 DEF RepIds
        <3>2. Ahead(r, s)' = IF r <= d /\ d < s THEN 1 ELSE IF s <= d /\ d < r THEN -1 ELSE 0
            BY <2>1, <2>5 DEF Ahead
        <3>3. Ahead(r, s) = IF r <= e /\ e < s THEN 1 ELSE IF s <= e /\ e < r THEN -1 ELSE 0
            BY DEF Ahead, e
        <3>4. Share(r) - Share(s) <= wraps + Ahead(r, s)
            BY DEF SpreadInv
        <3>5. /\ Share(r)' = sentTo[r] + (IF r = d THEN 1 ELSE 0) + (IF r = 0 /\ wraps' = 0 THEN 1 ELSE 0)
              /\ Share(s)' = sentTo[s] + (IF s = d THEN 1 ELSE 0) + (IF s = 0 /\ wraps' = 0 THEN 1 ELSE 0)
            BY <2>8 DEF Share
        <3>6. /\ Share(r) = sentTo[r] + (IF r = 0 /\ wraps = 0 THEN 1 ELSE 0)
              /\ Share(s) = sentTo[s] + (IF s = 0 /\ wraps = 0 THEN 1 ELSE 0)
            BY DEF Share
        <3>7. CASE turn + 1 = Wrap
            <4>1. wraps' = wraps + 1 /\ d = 0
                BY <2>1, <2>3, <2>7, <3>7
            <4> QED BY ONLY <2>2, <2>4, <3>1, <3>2, <3>3, <3>4, <3>5, <3>6, <4>1
        <3>8. CASE turn + 1 # Wrap
            <4>1. wraps' = wraps /\ d = IF e + 1 = replicas THEN 0 ELSE e + 1
                BY <2>1, <2>2, <2>3, <2>7, <3>8
            <4> QED BY ONLY <2>2, <2>4, <3>1, <3>2, <3>3, <3>4, <3>5, <3>6, <4>1
        <3> QED BY <3>7, <3>8
    <2> QED BY <2>1, <2>2, <2>3, <2>8, <2>9 DEF SpreadInv
<1>3. ASSUME NEW u \in Users, NEW insert \in BOOLEAN, NEW primary \in BOOLEAN,
             QueryContext(u, insert, primary), getReadDB(primary) = Primary
      PROVE  SpreadInv'
    BY <1>1, <1>3 DEF QueryContext, databases, dispatching
<1> QED BY <1>1, <1>2, <1>3
        DEF ReplicaNext, OpenNext, NewMultiExecutor, OpenReplicaFails, CloseCall, CloseNext,
            ExecContext, Answer, Replicate, databases, dispatching, replicaVars

Even == \A r, s \in RepIds : sentTo[r] - sentTo[s] <= 1 + wraps

LEMMA SpreadIsEven == SpreadInv => Even
<1> SUFFICES ASSUME SpreadInv, NEW r \in RepIds, NEW s \in RepIds
             PROVE  sentTo[r] - sentTo[s] <= 1 + wraps
    BY DEF Even
<1>1. /\ r \in Nat /\ s \in Nat /\ sentTo[r] \in Nat /\ sentTo[s] \in Nat /\ wraps \in Nat
      /\ replicas \in Nat \ {0} /\ turn \in Nat
    BY DEF SpreadInv, RepIds
<1>2. turn % replicas \in Nat
    BY ONLY <1>1, NextRemainder
<1>3. Share(r) - Share(s) <= wraps + Ahead(r, s)
    BY DEF SpreadInv
<1> QED BY <1>1, <1>2, <1>3 DEF Share, Ahead

\* Reads and writes that go to the primary see what their goroutine wrote and are
\* stored, no read is refused before Close, the replicas are used evenly, however
\* many they are, and nothing stays open.
THEOREM ReadsSeeOwnWrites == ReplicaSpec => ReadsOwnWrites
<1>1. ReplicaInit => TargetInv /\ LifeInv
    BY ReadReplicasAssumption DEF ReplicaInit, TargetInv, LifeInv
<1>2. ReplicaInit => SpreadInv
    <2> SUFFICES ASSUME ReplicaInit PROVE SpreadInv
        OBVIOUS
    <2>1. /\ replicas \in Nat /\ turn = 0 /\ wraps = 0 /\ Wrap \in Nat \ {0}
          /\ sentTo = [r \in RepIds |-> 0]
        BY ReadReplicasAssumption DEF ReplicaInit
    <2>2. ASSUME NEW r \in RepIds, NEW s \in RepIds
          PROVE  Share(r) - Share(s) <= wraps + Ahead(r, s)
        <3>1. r \in Nat /\ s \in Nat /\ replicas \in Nat \ {0}
            BY <2>1 DEF RepIds
        <3>2. turn % replicas = 0
            BY <2>1, <3>1, Remainder
        <3> QED BY <2>1, <3>1, <3>2 DEF Share, Ahead
    <2> QED BY <2>1, <2>2 DEF SpreadInv
<1>3. ASSUME LifeInv, TargetInv, SpreadInv, [ReplicaNext]_replicaVars
      PROVE  LifeInv' /\ TargetInv' /\ SpreadInv'
    BY <1>3, LifeStep, TargetStep, SpreadStep
<1>4. ASSUME LifeInv, LifeInv', TargetInv, SpreadInv, Even', [ReplicaNext]_replicaVars
      PROVE  [/\ \A u \in Users : target[u] # Idle /\ target'[u] = Idle /\ life = "running" =>
                   /\ want[u].primary \/ replicas = 0 =>
                         /\ ~saw'[u].refused /\ saw'[u].mine = Written(u)
                         /\ want[u].insert => written' = Append(written, u)
                   /\ ~want[u].insert => ~saw'[u].refused
              /\ life' = "over" => handles' = {}
              /\ \A r, s \in RepIds : sentTo'[r] - sentTo'[s] <= 1 + wraps']_replicaVars
    <2>1. RepIds' = RepIds
        BY <1>4, Zenon DEF ReplicaNext, OpenNext, NewMultiExecutor, OpenReplicaFails, CloseCall, CloseNext,
               ExecContext, Answer, QueryContext, Replicate, databases, dispatching, replicaVars, RepIds
    <2>2. \A r, s \in RepIds : sentTo'[r] - sentTo'[s] <= 1 + wraps'
        BY <1>4, <2>1 DEF Even
    <2>3. life' = "over" => handles' = {}
        BY <1>4 DEF LifeInv
    <2>4. \A u \in Users : Answered(u)
        BY <1>4, TargetStep
    <2> QED BY <2>2, <2>3, <2>4 DEF Answered
<1> QED BY <1>1, <1>2, <1>3, <1>4, SpreadIsEven, PTL DEF ReplicaSpec, ReadsOwnWrites

-----------------------------------------------------------------------------
\* Where the controllers and the loops are; one Start has one pair of loops, and
\* they begin after it.
Starting == {"start", "warmUp", "warming"}
PoolTypes ==
  /\ cpc \in [Controllers -> Starting \cup {"idle", "stop", "drain"}]
  /\ left \in [Controllers -> 0 .. WarmConnections]
  /\ hpc \in [Loops -> {"off", "wait", "count", "replace", "append"}]
  /\ hleft \in [Loops -> 0 .. WarmConnections]
  /\ starts \in Nat /\ warm \in Nat /\ warmStat \in Int
  /\ \A k \in Controllers : cpc[k] = "drain" => closed
  /\ \A l \in Loops : hpc[l] = "append" => hleft[l] > 0
OneStart ==
  /\ \A k \in Controllers : cpc[k] \in Starting =>
       /\ starts = 1
       /\ \A j \in Controllers : cpc[j] \in Starting => j = k
       /\ \A l \in Loops : hpc[l] = "off"
  /\ starts = 0 => \A l \in Loops : hpc[l] = "off"
  /\ \A l, m \in Loops : hpc[l] # "off" /\ hpc[m] # "off" => l = m

\* What warmUp and the health loop still owe is counted in the bound; clients
\* alone, before Start has the lock, never bring the list above WarmConnections.
Owing ==
  /\ \A k \in Controllers : cpc[k] = "warming" => warm + left[k] <= 2 * WarmConnections
  /\ \A l \in Loops : hpc[l] \in {"replace", "append"} => warm + hleft[l] <= 2 * WarmConnections
  /\ (starts = 0 \/ \E k \in Controllers : cpc[k] \in {"start", "warmUp"}) => warm <= WarmConnections
  /\ warm <= 2 * WarmConnections

StatInv == ~closed => warmStat = warm
PoolInv == PoolTypes /\ StatInv /\ (starts <= 1 => OneStart /\ Owing)

LEMMA PoolStarts == PoolInit => PoolInv
BY ConfigAssumption DEF PoolInit, PoolInv, PoolTypes, StatInv, OneStart, Owing, Loops, Starting

\* Start and Stop.
LEMMA ControlKeeps ==
  ASSUME PoolInv, NEW k \in Controllers,
         StartLoad(k) \/ StopLoad(k) \/ ControlStep(k)
  PROVE  PoolInv'
<1> USE ConfigAssumption DEF PoolInv, PoolTypes, StatInv, OneStart, Owing, Starting,
          pool, health, clients
<1>1. CASE StartLoad(k)
    BY <1>1 DEF StartLoad
<1>2. CASE StopLoad(k)
    BY <1>2 DEF StopLoad
<1>3. CASE StartStore(k)
    BY <1>3 DEF StartStore
<1>4. CASE WarmUp(k)
    BY <1>4 DEF WarmUp
<1>5. CASE WarmConn(k)
    <2>1. PICK healthy \in {0, 1} : warm' = warm + healthy /\ warmStat' = warmStat + healthy
        BY <1>5 DEF WarmConn
    <2>2. cpc[k] = "warming" /\ left[k] > 0 /\ left' = [left EXCEPT ![k] = @ - 1]
          /\ UNCHANGED <<closed, starts, cpc, hpc, hleft>>
        BY <1>5 DEF WarmConn
    <2>3. PoolTypes' /\ StatInv'
        BY <2>1, <2>2
    <2>4. ASSUME starts <= 1
          PROVE  OneStart' /\ Owing'
        <3>1. OneStart'
            BY <2>2, <2>4
        <3>2. warm' + left'[k] <= 2 * WarmConnections /\ warm' <= 2 * WarmConnections
            BY <2>1, <2>2, <2>4
        <3>3. starts = 1 /\ (\A j \in Controllers : cpc[j] \in Starting => j = k)
              /\ \A l \in Loops : hpc[l] = "off"
            BY <2>2, <2>4
        <3> QED BY <2>2, <3>1, <3>2, <3>3
    <2> QED BY <2>2, <2>3, <2>4
<1>6. CASE WarmFails(k)
    BY <1>6 DEF WarmFails
<1>7. CASE StartDone(k)
    BY <1>7 DEF StartDone
<1>8. CASE StopStore(k)
    BY <1>8 DEF StopStore
<1>9. CASE StopDrain(k)
    BY <1>9 DEF StopDrain
<1> QED BY <1>1, <1>2, <1>3, <1>4, <1>5, <1>6, <1>7, <1>8, <1>9 DEF ControlStep

\* The one health loop and the one scale-down loop.
LEMMA LoopsKeep ==
  ASSUME PoolInv, NEW l \in Loops,
         HealthPing(l) \/ HealthStep(l) \/ HealthExit(l) \/ ScaleDown(l) \/ ScaleExit(l)
  PROVE  PoolInv'
<1> USE ConfigAssumption DEF PoolInv, PoolTypes, StatInv, OneStart, Owing, Starting,
          pool, health, control, clients
<1>1. CASE HealthPing(l)
    <2>1. PICK healthy \in 0 .. warm : warm' = healthy /\ warmStat' = warmStat - (warm - healthy)
        BY <1>1 DEF HealthPing
    <2> QED BY <1>1, <2>1 DEF HealthPing
<1>2. CASE HealthCount(l)
    BY <1>2 DEF HealthCount
<1>3. CASE HealthConn(l)
    BY <1>3 DEF HealthConn
<1>4. CASE HealthConnFails(l)
    BY <1>4 DEF HealthConnFails
<1>5. CASE HealthAppend(l)
    BY <1>5 DEF HealthAppend
<1>6. CASE HealthDone(l)
    BY <1>6 DEF HealthDone
<1>7. CASE HealthExit(l)
    BY <1>7 DEF HealthExit
<1>8. CASE ScaleDown(l)
    BY <1>8 DEF ScaleDown
<1>9. CASE ScaleExit(l)
    BY <1>9 DEF ScaleExit
<1> QED BY <1>1, <1>2, <1>3, <1>4, <1>5, <1>6, <1>7, <1>8, <1>9 DEF HealthStep

\* Conn, ReleaseConn and statements: only ReleaseConn adds to the list, and only
\* below WarmConnections.
LEMMA ClientsKeep ==
  ASSUME PoolInv, NEW c \in Clients,
         \/ ConnWarm(c) \/ ConnCold(c) \/ PoolExecContext(c) \/ ExecRun(c) \/ ClientStep(c)
  PROVE  PoolInv'
<1> USE ConfigAssumption DEF PoolInv, PoolTypes, StatInv, OneStart, Owing, Starting,
          pool, health, control
<1>1. CASE ConnWarm(c)
    BY <1>1 DEF ConnWarm
<1>2. CASE ReleaseConn(c)
    <2>1. PICK keep \in {0, 1} : warm' = warm + keep /\ warmStat' = warmStat + keep
                                 /\ (keep = 1 => warm < WarmConnections)
        BY <1>2 DEF ReleaseConn
    <2> QED BY <1>2, <2>1 DEF ReleaseConn
<1>3. CASE UNCHANGED <<control, pool, health>>
    BY <1>3
<1> QED BY <1>1, <1>2, <1>3 DEF ClientStep, ConnCold, PoolExecContext, ExecRun,
             ColdOk, ColdFails, ExecDone

\* Until a second call of Start the list never holds more than WarmConnections
\* too many, though the health check counts under one lock and appends under
\* others, whatever the clients and the calls of Stop do meanwhile; and, until
\* Stop, Stats tells its length (Start, warmUp, checkHealth, ReleaseConn).
THEOREM WarmBoundedHolds == PoolSpec => [](starts <= 1 => WarmBounded)
<1>1. PoolInv /\ [PoolNext]_poolVars => PoolInv'
    <2>1. CASE UNCHANGED poolVars
        BY <2>1 DEF poolVars, PoolInv, PoolTypes, StatInv, OneStart, Owing, control, pool, health
    <2> QED BY <2>1, ControlKeeps, LoopsKeep, ClientsKeep DEF PoolNext
<1>2. PoolInv => (starts <= 1 => WarmBounded)
    BY DEF PoolInv, Owing, StatInv, WarmBounded
<1> QED BY PoolStarts, <1>1, <1>2, PTL DEF PoolSpec

-----------------------------------------------------------------------------
\* Is a change of kind k of column f of table t in S?
Has(S, k, t, f) == \E c \in S : c.kind = k /\ c.table = t /\ c.col = f

\* The catalog that the changes S of a Diff make of the one that was listed.
MadeCols(S, t) ==
  [f \in {g \in DOMAIN origin[t].cols : ~Has(S, "drop_column", t, g)}
         \cup {g \in DOMAIN models[t] : Has(S, "add_column", t, g)} |->
     IF f \notin DOMAIN origin[t].cols THEN models[t][f]
     ELSE IF Has(S, "modify_column", t, f) THEN Kept(origin[t].cols[f], models[t][f])
     ELSE origin[t].cols[f]]
Made(S) ==
  [t \in {u \in DOMAIN origin : ~Has(S, "drop_table", u, "none")}
         \cup {u \in DOMAIN models : Has(S, "add_table", u, "none")} |->
     IF t \in DOMAIN origin THEN [cols |-> MadeCols(S, t), refs |-> origin[t].refs]
     ELSE [cols |-> models[t], refs |-> {}]]

Wanted == Diff(seen, models)
Reversible == {"add_table", "add_column"}
Irreversible == {c \in Wanted : c.kind \notin Reversible}
AllRead == seen = [t \in DOMAIN origin |-> origin[t].cols]

\* A change is of one of five kinds, on a table or column where it makes sense,
\* and no two change the same thing in the same way; every table and column of
\* both sides is changed.
ColumnOfBoth(c) == c.table \in DOMAIN origin /\ c.table \in DOMAIN models
DiffForms(c) ==
  \/ /\ c.kind = "add_table" /\ c.table \in DOMAIN models \ DOMAIN origin /\ c.col = "none"
     /\ c = Change("add_table", c.table, "none", models[c.table])
  \/ /\ c.kind = "drop_table" /\ c.table \in DOMAIN origin \ DOMAIN models /\ c.col = "none"
     /\ c = Change("drop_table", c.table, "none", origin[c.table].cols)
  \/ /\ c.kind = "add_column" /\ ColumnOfBoth(c)
     /\ c.col \in DOMAIN models[c.table] \ DOMAIN origin[c.table].cols
     /\ c = Change("add_column", c.table, c.col, models[c.table][c.col])
  \/ /\ c.kind = "drop_column" /\ ColumnOfBoth(c)
     /\ c.col \in DOMAIN origin[c.table].cols \ DOMAIN models[c.table]
     /\ c = Change("drop_column", c.table, c.col, origin[c.table].cols[c.col])
  \/ /\ c.kind = "modify_column" /\ ColumnOfBoth(c)
     /\ c.col \in DOMAIN origin[c.table].cols \cap DOMAIN models[c.table]
     /\ c = Change("modify_column", c.table, c.col, models[c.table][c.col])

LEMMA WantedForms ==
  ASSUME AllRead
  PROVE  /\ \A c \in Wanted : DiffForms(c)
         /\ \A c, d \in Wanted : c.kind = d.kind /\ c.table = d.table /\ c.col = d.col => c = d
<1>1. DOMAIN seen = DOMAIN origin /\ \A t \in DOMAIN origin : seen[t] = origin[t].cols
    BY DEF AllRead
<1>2. ASSUME NEW c \in Wanted PROVE DiffForms(c)
    <2>1. CASE c \in {Change("add_table", t, "none", models[t]) : t \in DOMAIN models \ DOMAIN seen}
        BY <1>1, <2>1 DEF DiffForms, Change
    <2>2. CASE c \in {Change("drop_table", t, "none", seen[t]) : t \in DOMAIN seen \ DOMAIN models}
        BY <1>1, <2>2 DEF DiffForms, Change
    <2>3. CASE \E t \in DOMAIN seen \cap DOMAIN models : c \in diffColumns(t, seen[t], models[t])
        <3>1. PICK t \in DOMAIN seen \cap DOMAIN models : c \in diffColumns(t, seen[t], models[t])
            BY <2>3
        <3>2. t \in DOMAIN origin /\ t \in DOMAIN models /\ seen[t] = origin[t].cols
            BY <1>1, <3>1
        <3>3. CASE c \in {Change("add_column", t, f, models[t][f]) : f \in DOMAIN models[t] \ DOMAIN seen[t]}
            BY <3>2, <3>3 DEF DiffForms, Change, ColumnOfBoth
        <3>4. CASE c \in {Change("drop_column", t, f, seen[t][f]) : f \in DOMAIN seen[t] \ DOMAIN models[t]}
            BY <3>2, <3>4 DEF DiffForms, Change, ColumnOfBoth
        <3>5. CASE c \in {Change("modify_column", t, f, models[t][f]) :
                            f \in {d \in DOMAIN models[t] \cap DOMAIN seen[t] :
                                     columnChanged(seen[t][d], models[t][d])}}
            BY <3>2, <3>5 DEF DiffForms, Change, ColumnOfBoth
        <3> QED BY <3>1, <3>3, <3>4, <3>5 DEF diffColumns
    <2> QED BY <2>1, <2>2, <2>3 DEF Wanted, Diff
<1>3. ASSUME NEW c \in Wanted, NEW d \in Wanted, c.kind = d.kind, c.table = d.table, c.col = d.col
      PROVE  c = d
    <2>1. DiffForms(c) /\ DiffForms(d)
        BY <1>2
    <2> QED BY ONLY <1>3, <2>1 DEF DiffForms
<1> QED BY <1>2, <1>3

LEMMA WantedAll ==
  ASSUME AllRead
  PROVE  /\ \A t : Has(Wanted, "add_table", t, "none") <=> t \in DOMAIN models \ DOMAIN origin
         /\ \A t : Has(Wanted, "drop_table", t, "none") <=> t \in DOMAIN origin \ DOMAIN models
         /\ \A t \in DOMAIN origin \cap DOMAIN models : \A f :
              /\ Has(Wanted, "add_column", t, f) <=> f \in DOMAIN models[t] \ DOMAIN origin[t].cols
              /\ Has(Wanted, "drop_column", t, f) <=> f \in DOMAIN origin[t].cols \ DOMAIN models[t]
              /\ Has(Wanted, "modify_column", t, f) <=> f \in DOMAIN origin[t].cols \cap DOMAIN models[t]
<1>1. DOMAIN seen = DOMAIN origin /\ \A t \in DOMAIN origin : seen[t] = origin[t].cols
    BY DEF AllRead
<1>2. \A c \in Wanted : DiffForms(c)
    BY WantedForms
<1>3. ASSUME NEW t PROVE Has(Wanted, "add_table", t, "none") <=> t \in DOMAIN models \ DOMAIN origin
    <2>1. Has(Wanted, "add_table", t, "none") => t \in DOMAIN models \ DOMAIN origin
        BY <1>2 DEF Has, DiffForms
    <2>2. ASSUME t \in DOMAIN models \ DOMAIN origin PROVE Has(Wanted, "add_table", t, "none")
        <3>1. Change("add_table", t, "none", models[t]) \in Wanted
            BY <1>1, <2>2 DEF Wanted, Diff
        <3> QED BY <3>1 DEF Has, Change
    <2> QED BY <2>1, <2>2
<1>4. ASSUME NEW t PROVE Has(Wanted, "drop_table", t, "none") <=> t \in DOMAIN origin \ DOMAIN models
    <2>1. Has(Wanted, "drop_table", t, "none") => t \in DOMAIN origin \ DOMAIN models
        BY <1>2 DEF Has, DiffForms
    <2>2. ASSUME t \in DOMAIN origin \ DOMAIN models PROVE Has(Wanted, "drop_table", t, "none")
        <3>1. Change("drop_table", t, "none", seen[t]) \in Wanted
            BY <1>1, <2>2 DEF Wanted, Diff
        <3> QED BY <3>1 DEF Has, Change
    <2> QED BY <2>1, <2>2
<1>5. ASSUME NEW t \in DOMAIN origin \cap DOMAIN models, NEW f
      PROVE  /\ Has(Wanted, "add_column", t, f) <=> f \in DOMAIN models[t] \ DOMAIN origin[t].cols
             /\ Has(Wanted, "drop_column", t, f) <=> f \in DOMAIN origin[t].cols \ DOMAIN models[t]
             /\ Has(Wanted, "modify_column", t, f) <=> f \in DOMAIN origin[t].cols \cap DOMAIN models[t]
    <2>1. /\ Has(Wanted, "add_column", t, f) => f \in DOMAIN models[t] \ DOMAIN origin[t].cols
          /\ Has(Wanted, "drop_column", t, f) => f \in DOMAIN origin[t].cols \ DOMAIN models[t]
          /\ Has(Wanted, "modify_column", t, f) => f \in DOMAIN origin[t].cols \cap DOMAIN models[t]
        BY <1>2 DEF Has, DiffForms
    <2>2. diffColumns(t, seen[t], models[t]) \subseteq Wanted /\ seen[t] = origin[t].cols
        BY <1>1 DEF Wanted, Diff
    <2>3. ASSUME f \in DOMAIN models[t] \ DOMAIN origin[t].cols PROVE Has(Wanted, "add_column", t, f)
        <3>1. Change("add_column", t, f, models[t][f]) \in Wanted
            BY <2>2, <2>3 DEF diffColumns
        <3> QED BY <3>1 DEF Has, Change
    <2>4. ASSUME f \in DOMAIN origin[t].cols \ DOMAIN models[t] PROVE Has(Wanted, "drop_column", t, f)
        <3>1. Change("drop_column", t, f, seen[t][f]) \in Wanted
            BY <2>2, <2>4 DEF diffColumns
        <3> QED BY <3>1 DEF Has, Change
    <2>5. ASSUME f \in DOMAIN origin[t].cols \cap DOMAIN models[t] PROVE Has(Wanted, "modify_column", t, f)
        <3>1. columnChanged(seen[t][f], models[t][f])
            BY DEF columnChanged, Spelled, goTypeToSQLType
        <3>2. Change("modify_column", t, f, models[t][f]) \in Wanted
            BY <2>2, <2>5, <3>1 DEF diffColumns
        <3> QED BY <3>2 DEF Has, Change
    <2> QED BY <2>1, <2>3, <2>4, <2>5
<1> QED BY <1>3, <1>4, <1>5

\* Nothing run yet.
LEMMA AppliedNone ==
  ASSUME IsCatalog(origin) PROVE Made({}) = origin
<1>1. \A k, t, f : ~Has({}, k, t, f)
    BY DEF Has
<1>2. \A t \in DOMAIN origin : MadeCols({}, t) = origin[t].cols
    BY <1>1 DEF MadeCols, IsCatalog, IsFunc
<1>3. \A t \in DOMAIN origin : [cols |-> MadeCols({}, t), refs |-> origin[t].refs] = origin[t]
    BY <1>2 DEF IsCatalog
<1>4. Made({}) = [t \in DOMAIN origin |-> origin[t]]
    BY <1>1, <1>3 DEF Made
<1> QED BY <1>4 DEF IsCatalog, IsFunc

LEMMA MadeIsCatalog ==
  ASSUME IsCatalog(origin), IsSchema(models), NEW S PROVE IsCatalog(Made(S))
<1>1. IsFunc(Made(S))
    BY DEF Made, IsFunc
<1>2. ASSUME NEW t \in DOMAIN Made(S)
      PROVE  /\ Made(S)[t] = [cols |-> Made(S)[t].cols, refs |-> Made(S)[t].refs]
             /\ IsFunc(Made(S)[t].cols)
    <2>1. CASE t \in DOMAIN origin
        <3>1. IsFunc(MadeCols(S, t))
            BY DEF MadeCols, IsFunc
        <3>2. Made(S)[t] = [cols |-> MadeCols(S, t), refs |-> origin[t].refs]
            BY <2>1 DEF Made
        <3> QED BY <3>1, <3>2
    <2>2. CASE t \notin DOMAIN origin
        <3>1. t \in DOMAIN models /\ Made(S)[t] = [cols |-> models[t], refs |-> {}]
            BY <2>2 DEF Made
        <3> QED BY <3>1 DEF IsSchema
    <2> QED BY <2>1, <2>2
<1> QED BY <1>1, <1>2 DEF IsCatalog

\* One more change than those of S, and one less.
LEMMA HasMore ==
  ASSUME NEW S, NEW c
  PROVE  \A k, t, f : Has(S \cup {c}, k, t, f) <=> Has(S, k, t, f) \/ (c.kind = k /\ c.table = t /\ c.col = f)
BY DEF Has

LEMMA HasLess ==
  ASSUME AllRead, NEW S \in SUBSET Wanted, NEW c \in Wanted \ S
  PROVE  \A k, t, f : Has(S, k, t, f) <=>
           Has(S \cup {c}, k, t, f) /\ ~(c.kind = k /\ c.table = t /\ c.col = f)
BY WantedForms DEF Has

LEMMA NewCols ==
  ASSUME NEW k, IsFunc(k), NEW t \in DOMAIN k, NEW old, NEW refs, k[t] = [cols |-> old, refs |-> refs], NEW new
  PROVE  [k EXCEPT ![t].cols = new] = [u \in DOMAIN k |-> IF u = t THEN [cols |-> new, refs |-> refs] ELSE k[u]]
BY DEF IsFunc

\* What the database does with a change that it takes is what Made says.
LEMMA ChangeApplies ==
  ASSUME AllRead, IsCatalog(origin), IsSchema(models), NEW S \in SUBSET Wanted,
         NEW c \in Wanted \ S, catalog = Made(S), ~SqlRefuses(c)
  PROVE  SqlDoes(c) = Made(S \cup {c})
<1> DEFINE T == S \cup {c}
<1>1. DiffForms(c)
    BY WantedForms
<1>2. /\ \A k, t, f : Has(T, k, t, f) <=> Has(S, k, t, f) \/ (c.kind = k /\ c.table = t /\ c.col = f)
      /\ ~Has(S, c.kind, c.table, c.col)
    BY HasMore, HasLess
<1> HIDE DEF T
<1>3. ASSUME NEW t, t # c.table PROVE MadeCols(S, t) = MadeCols(T, t)
    BY <1>2, <1>3 DEF MadeCols
<1>4. CASE c.kind = "add_table"
    <2>1. /\ c.table \in DOMAIN models \ DOMAIN origin /\ c.new = models[c.table] /\ c.col = "none"
        BY <1>1, <1>4 DEF DiffForms, Change
    <2>2. SqlDoes(c) = Plus(catalog, One(c.table, [cols |-> c.new, refs |-> {}]))
        BY <1>4 DEF SqlDoes
    <2>3. \A t \in DOMAIN origin : MadeCols(S, t) = MadeCols(T, t)
        BY <1>3, <2>1
    <2>4. DOMAIN Made(T) = DOMAIN catalog \cup {c.table}
        BY <1>2, <1>4, <2>1 DEF Made
    <2>5. \A t \in DOMAIN Made(T) :
             Made(T)[t] = IF t = c.table THEN [cols |-> c.new, refs |-> {}] ELSE catalog[t]
        BY <1>2, <1>4, <2>1, <2>3 DEF Made
    <2>6. IsFunc(Made(T))
        BY DEF Made, IsFunc
    <2>7. Made(T) = [t \in DOMAIN catalog \cup {c.table} |->
                          IF t = c.table THEN [cols |-> c.new, refs |-> {}] ELSE catalog[t]]
        BY <2>4, <2>5, <2>6 DEF IsFunc
    <2>8. Plus(catalog, One(c.table, [cols |-> c.new, refs |-> {}])) =
            [t \in DOMAIN catalog \cup {c.table} |->
               IF t = c.table THEN [cols |-> c.new, refs |-> {}] ELSE catalog[t]]
        BY DEF Plus, One
    <2> QED BY <2>2, <2>7, <2>8 DEF T
<1>5. CASE c.kind = "drop_table"
    <2>1. /\ c.table \in DOMAIN origin \ DOMAIN models /\ c.col = "none"
        BY <1>1, <1>5 DEF DiffForms, Change
    <2>2. SqlDoes(c) = Without(catalog, c.table)
        BY <1>5 DEF SqlDoes
    <2>3. DOMAIN Made(T) = DOMAIN catalog \ {c.table}
        BY <1>2, <1>5, <2>1 DEF Made
    <2>4. \A t \in DOMAIN Made(T) : Made(T)[t] = catalog[t]
        BY <1>3, <2>3 DEF Made
    <2>5. IsFunc(Made(T))
        BY DEF Made, IsFunc
    <2> QED BY <2>2, <2>3, <2>4, <2>5 DEF Without, IsFunc, T
\* The other three leave all tables but one alone.
<1>6. CASE c.kind \in {"add_column", "drop_column", "modify_column"}
    <2> DEFINE t == c.table
    <2>1. t \in DOMAIN origin /\ t \in DOMAIN models /\ t \in DOMAIN catalog
        <3>1. t \in DOMAIN origin /\ t \in DOMAIN models
            BY <1>1, <1>6 DEF DiffForms, ColumnOfBoth
        <3>2. ~Has(S, "drop_table", t, "none")
            BY <3>1, WantedForms DEF Has, DiffForms
        <3> QED BY <3>1, <3>2 DEF Made
    <2>2. DOMAIN Made(T) = DOMAIN catalog
        BY <1>2, <1>6 DEF Made
    <2>3. catalog[t] = [cols |-> MadeCols(S, t), refs |-> origin[t].refs]
        BY <2>1 DEF Made
    <2>4. Made(T)[t] = [cols |-> MadeCols(T, t), refs |-> origin[t].refs]
        BY <2>1, <2>2 DEF Made
    <2>5. \A u \in DOMAIN catalog \ {t} : Made(T)[u] = catalog[u]
        BY <1>3, <2>2 DEF Made
    <2>6. IsFunc(Made(T)) /\ IsFunc(catalog)
        BY DEF Made, IsFunc
    <2>7. \A g : [catalog EXCEPT ![t].cols = g] =
                 [u \in DOMAIN catalog |-> IF u = t THEN [cols |-> g, refs |-> origin[t].refs] ELSE catalog[u]]
        BY <2>1, <2>3, <2>6, NewCols
    <2>8. SqlDoes(c) = [catalog EXCEPT ![t].cols = MadeCols(T, t)]
        <3>1. CASE c.kind = "add_column"
            <4>1. /\ c.col \in DOMAIN models[t] \ DOMAIN origin[t].cols /\ c.new = models[t][c.col]
                BY <1>1, <3>1 DEF DiffForms, Change
            <4>2. DOMAIN MadeCols(T, t) = DOMAIN MadeCols(S, t) \cup {c.col}
                BY <1>2, <3>1, <4>1 DEF MadeCols
            <4>3. \A f \in DOMAIN MadeCols(T, t) :
                     MadeCols(T, t)[f] = IF f = c.col THEN c.new ELSE MadeCols(S, t)[f]
                BY <1>2, <3>1, <4>1 DEF MadeCols
            <4>4. IsFunc(MadeCols(T, t))
                BY DEF MadeCols, IsFunc
            <4>5. MadeCols(T, t) = Plus(MadeCols(S, t), One(c.col, c.new))
                BY <4>2, <4>3, <4>4 DEF Plus, One, IsFunc
            <4> QED BY <2>3, <3>1, <4>5 DEF SqlDoes
        <3>2. CASE c.kind = "drop_column"
            <4>1. c.col \in DOMAIN origin[t].cols \ DOMAIN models[t]
                BY <1>1, <3>2 DEF DiffForms, Change
            <4>2. DOMAIN MadeCols(T, t) = DOMAIN MadeCols(S, t) \ {c.col}
                BY <1>2, <3>2, <4>1 DEF MadeCols
            <4>3. \A f \in DOMAIN MadeCols(T, t) : MadeCols(T, t)[f] = MadeCols(S, t)[f]
                BY <1>2, <3>2, <4>1 DEF MadeCols
            <4>4. IsFunc(MadeCols(T, t))
                BY DEF MadeCols, IsFunc
            <4>5. MadeCols(T, t) = Without(MadeCols(S, t), c.col)
                BY <4>2, <4>3, <4>4 DEF Without, IsFunc
            <4> QED BY <2>3, <3>2, <4>5 DEF SqlDoes
        <3>3. CASE c.kind = "modify_column"
            <4> DEFINE old == MadeCols(S, t)
            <4>1. /\ c.col \in DOMAIN origin[t].cols \cap DOMAIN models[t] /\ c.new = models[t][c.col]
                BY <1>1, <3>3 DEF DiffForms, Change
            <4>2. c.col \in DOMAIN old
                BY <2>1, <2>3, <3>3 DEF SqlRefuses
            <4>3. old[c.col] = origin[t].cols[c.col]
                BY <1>2, <3>3, <4>1, <4>2 DEF MadeCols
            <4>4. DOMAIN MadeCols(T, t) = DOMAIN old
                BY <1>2, <3>3 DEF MadeCols
            <4>5. \A f \in DOMAIN MadeCols(T, t) :
                     MadeCols(T, t)[f] = IF f = c.col THEN Kept(old[f], c.new) ELSE old[f]
                BY <1>2, <3>3, <4>1, <4>3 DEF MadeCols
            <4>6. IsFunc(MadeCols(T, t)) /\ IsFunc(old)
                BY DEF MadeCols, IsFunc
            <4> HIDE DEF old
            <4>7. MadeCols(T, t) = [old EXCEPT ![c.col] = [old[c.col] EXCEPT !.type = c.new.type]]
                BY <4>2, <4>4, <4>5, <4>6 DEF IsFunc, Kept
            <4>8. catalog[t].cols = old
                BY <2>3 DEF old
            <4>9. SqlDoes(c) = [catalog EXCEPT ![t].cols[c.col].type = c.new.type]
                BY <3>3 DEF SqlDoes
            <4> QED BY <4>7, <4>8, <4>9
        <3> QED BY <1>6, <3>1, <3>2, <3>3
    <2>9. SqlDoes(c) = [u \in DOMAIN catalog |->
                          IF u = t THEN [cols |-> MadeCols(T, t), refs |-> origin[t].refs] ELSE catalog[u]]
        BY <2>7, <2>8
    <2>10. Made(T) = [u \in DOMAIN catalog |->
                           IF u = t THEN [cols |-> MadeCols(T, t), refs |-> origin[t].refs] ELSE catalog[u]]
        BY ONLY <2>2, <2>4, <2>5, <2>6 DEF IsFunc
    <2> QED BY <2>9, <2>10 DEF T
<1> QED BY <1>1, <1>4, <1>5, <1>6 DEF DiffForms

\* Down takes a new table or column away again.
LEMMA ChangeUndone ==
  ASSUME AllRead, IsCatalog(origin), IsSchema(models), NEW S \in SUBSET Wanted,
         NEW c \in Wanted \ S, catalog = Made(S \cup {c})
  PROVE  /\ c.kind = "add_table" => Without(catalog, c.table) = Made(S)
         /\ c.kind = "add_column" =>
              /\ c.table \in DOMAIN catalog
              /\ [catalog EXCEPT ![c.table].cols = Without(@, c.col)] = Made(S)
<1> DEFINE T == S \cup {c}
           t == c.table
<1>1. DiffForms(c)
    BY WantedForms
<1>2. /\ \A k, u, f : Has(T, k, u, f) <=> Has(S, k, u, f) \/ (c.kind = k /\ c.table = u /\ c.col = f)
      /\ ~Has(S, c.kind, c.table, c.col)
    BY HasMore, HasLess
<1> HIDE DEF T
<1>3. ASSUME NEW u, u # c.table PROVE MadeCols(S, u) = MadeCols(T, u)
    BY <1>2, <1>3 DEF MadeCols
<1>4. catalog = Made(T)
    BY DEF T
<1>5. IsFunc(Made(S))
    BY DEF Made, IsFunc
<1>6. ASSUME c.kind = "add_table" PROVE Without(catalog, c.table) = Made(S)
    <2>1. t \in DOMAIN models \ DOMAIN origin /\ c.col = "none"
        BY <1>1, <1>6 DEF DiffForms, Change
    <2>2. DOMAIN Made(S) = DOMAIN catalog \ {t}
        BY <1>2, <1>4, <1>6, <2>1 DEF Made
    <2>3. \A u \in DOMAIN Made(S) : Made(S)[u] = catalog[u]
        <3> SUFFICES ASSUME NEW u \in DOMAIN Made(S) PROVE Made(S)[u] = catalog[u]
            OBVIOUS
        <3>1. u # c.table /\ u \in DOMAIN Made(T)
            BY <1>4, <2>2
        <3>2. MadeCols(S, u) = MadeCols(T, u)
            BY <1>3, <3>1
        <3> QED BY <1>4, <3>1, <3>2 DEF Made
    <2> QED BY <1>5, <2>2, <2>3 DEF Without, IsFunc
<1>7. ASSUME c.kind = "add_column"
      PROVE  t \in DOMAIN catalog /\ [catalog EXCEPT ![t].cols = Without(@, c.col)] = Made(S)
    <2>1. /\ t \in DOMAIN origin /\ t \in DOMAIN models
          /\ c.col \in DOMAIN models[t] \ DOMAIN origin[t].cols
        BY <1>1, <1>7 DEF DiffForms, ColumnOfBoth, Change
    <2>2. ~Has(T, "drop_table", t, "none")
        BY <2>1, WantedForms DEF Has, DiffForms, T
    <2>3. t \in DOMAIN catalog /\ catalog[t] = [cols |-> MadeCols(T, t), refs |-> origin[t].refs]
        BY <1>4, <2>1, <2>2 DEF Made
    <2>4. DOMAIN Made(S) = DOMAIN catalog
        BY <1>2, <1>4, <1>7 DEF Made
    <2>5. Made(S)[t] = [cols |-> MadeCols(S, t), refs |-> origin[t].refs]
        BY <2>1, <2>3, <2>4 DEF Made
    <2>6. \A u \in DOMAIN catalog \ {t} : Made(S)[u] = catalog[u]
        BY <1>3, <1>4, <2>4 DEF Made
    <2>7. IsFunc(catalog)
        BY <1>4 DEF Made, IsFunc
    <2>8. MadeCols(S, t) = Without(MadeCols(T, t), c.col)
        <3>1. DOMAIN MadeCols(S, t) = DOMAIN MadeCols(T, t) \ {c.col}
            BY <1>2, <1>7, <2>1 DEF MadeCols
        <3>2. \A f \in DOMAIN MadeCols(S, t) : MadeCols(S, t)[f] = MadeCols(T, t)[f]
            BY <1>2, <1>7, <2>1 DEF MadeCols
        <3>3. IsFunc(MadeCols(S, t))
            BY DEF MadeCols, IsFunc
        <3> QED BY <3>1, <3>2, <3>3 DEF Without, IsFunc
    <2>9. [catalog EXCEPT ![t].cols = Without(@, c.col)] =
             [u \in DOMAIN catalog |-> IF u = t THEN [cols |-> MadeCols(S, t), refs |-> origin[t].refs]
                                       ELSE catalog[u]]
        <3>1. \A g : [catalog EXCEPT ![t].cols = g] =
                     [u \in DOMAIN catalog |-> IF u = t THEN [cols |-> g, refs |-> origin[t].refs] ELSE catalog[u]]
            <4> DEFINE old == MadeCols(T, t)
                       refs == origin[t].refs
            <4>1. t \in DOMAIN catalog /\ catalog[t] = [cols |-> old, refs |-> refs]
                BY <2>3
            <4> HIDE DEF t, old, refs
            <4>2. ASSUME NEW g
                  PROVE  [catalog EXCEPT ![t].cols = g] =
                         [u \in DOMAIN catalog |-> IF u = t THEN [cols |-> g, refs |-> refs] ELSE catalog[u]]
                BY ONLY <2>7, <4>1 DEF IsFunc
            <4> QED BY <4>2 DEF refs
        <3>2. Without(catalog[t].cols, c.col) = MadeCols(S, t)
            BY <2>3, <2>8
        <3>3. [catalog EXCEPT ![t].cols = Without(@, c.col)] = [catalog EXCEPT ![t].cols = MadeCols(S, t)]
            BY <3>2
        <3> QED BY <3>1, <3>3
    <2>10. Made(S) = [u \in DOMAIN catalog |-> IF u = t THEN [cols |-> MadeCols(S, t), refs |-> origin[t].refs]
                                                 ELSE catalog[u]]
        BY ONLY <1>5, <2>4, <2>5, <2>6 DEF IsFunc
    <2> QED BY <2>3, <2>9, <2>10
<1> QED BY <1>6, <1>7

\* The list of changes run has each once.
LEMMA OneMoreRun ==
  ASSUME NEW W, NEW list \in Seq(W), IsInjective(list), NEW c \in W \ Range(list)
  PROVE  /\ Append(list, c) \in Seq(W) /\ IsInjective(Append(list, c))
         /\ Range(Append(list, c)) = Range(list) \cup {c}
<1> DEFINE more == Append(list, c)
<1>1. /\ more \in Seq(W) /\ Len(list) \in Nat /\ DOMAIN list = 1 .. Len(list)
      /\ DOMAIN more = 1 .. Len(list) + 1 /\ more[Len(list) + 1] = c
      /\ \A i \in 1 .. Len(list) : more[i] = list[i]
    OBVIOUS
<1> HIDE DEF more
<1>2. \A i \in DOMAIN more : i \in DOMAIN list \/ i = Len(list) + 1
    BY <1>1
<1>3. IsInjective(more)
    BY <1>1, <1>2 DEF IsInjective, Range
<1>4. Range(more) = Range(list) \cup {c}
    <2>1. \A i \in DOMAIN list : i \in DOMAIN more
        BY <1>1
    <2>2. Len(list) + 1 \in DOMAIN more
        BY <1>1
    <2> QED BY <1>1, <1>2, <2>1, <2>2 DEF Range
<1> QED BY <1>1, <1>3, <1>4 DEF more

LEMMA OneLessRun ==
  ASSUME NEW W, NEW list \in Seq(W), IsInjective(list), list # << >>
  PROVE  LET less == SubSeq(list, 1, Len(list) - 1)
         IN  /\ less \in Seq(W) /\ IsInjective(less) /\ Len(less) = Len(list) - 1
             /\ list[Len(list)] \in W \ Range(less)
             /\ Range(list) = Range(less) \cup {list[Len(list)]}
<1> DEFINE less == SubSeq(list, 1, Len(list) - 1)
<1>1. Len(list) \in Nat \ {0} /\ DOMAIN list = 1 .. Len(list)
    BY EmptySeq
<1>2. /\ less \in Seq(W) /\ Len(less) = Len(list) - 1 /\ DOMAIN less = 1 .. Len(list) - 1
      /\ \A i \in 1 .. Len(list) - 1 : less[i] = list[i]
    BY <1>1, SubSeqProperties
<1> HIDE DEF less
<1>3. \A i \in DOMAIN list : i \in DOMAIN less \/ i = Len(list)
    BY <1>1, <1>2
<1>4. \A i \in DOMAIN less : i \in DOMAIN list /\ i # Len(list)
    BY <1>1, <1>2
<1>5. Len(list) \in DOMAIN list
    BY <1>1
<1>6. IsInjective(less)
    BY <1>2, <1>4 DEF IsInjective
<1>7. list[Len(list)] \in W \ Range(less)
    BY <1>2, <1>4, <1>5 DEF IsInjective, Range
<1>8. Range(list) = Range(less) \cup {list[Len(list)]}
    BY <1>2, <1>3, <1>4, <1>5 DEF Range
<1> QED BY <1>2, <1>6, <1>7, <1>8 DEF less

\* A list with each once is all of a set exactly if it is as long.
LEMMA AllRun ==
  ASSUME NEW W, NEW list \in Seq(W), IsInjective(list)
  PROVE  /\ Range(list) = W => IsFiniteSet(W) /\ Cardinality(W) = Len(list)
         /\ IsFiniteSet(W) /\ Len(list) = Cardinality(W) => Range(list) = W
<1>1. Len(list) \in Nat /\ DOMAIN list = 1 .. Len(list) /\ list \in [1 .. Len(list) -> W]
    OBVIOUS
<1>2. IsFiniteSet(1 .. Len(list)) /\ Cardinality(1 .. Len(list)) = Len(list)
    <2>1. 1 \in Int /\ Len(list) \in Int
        BY <1>1
    <2>2. IsFiniteSet(1 .. Len(list)) /\ Cardinality(1 .. Len(list)) = IF 1 > Len(list) THEN 0 ELSE Len(list) - 1 + 1
        BY ONLY <2>1, FS_Interval
    <2> QED BY <1>1, <2>2
<1>3. list \in Injection(1 .. Len(list), W)
    BY <1>1 DEF Injection
<1>4. ASSUME Range(list) = W PROVE IsFiniteSet(W) /\ Cardinality(W) = Len(list)
    <2>1. list \in Surjection(1 .. Len(list), W)
        BY <1>1, <1>4 DEF Surjection, Range
    <2> QED BY <1>2, <1>3, <2>1, FS_Surjection
<1>5. ASSUME IsFiniteSet(W), Len(list) = Cardinality(W) PROVE Range(list) = W
    <2>1. list \in Surjection(1 .. Len(list), W)
        BY <1>2, <1>3, <1>5, FS_Injection
    <2> QED BY <1>1, <2>1 DEF Surjection, Range
<1> QED BY <1>4, <1>5

\* While nobody else drops a table the catalog is what the changes run so far make
\* of the one that was listed; on the way down, what is left of them and those that
\* cannot be undone.
ReadInv ==
  /\ catalog = origin /\ ran = << >> /\ listed \subseteq DOMAIN origin
  /\ seen = [t \in DOMAIN origin \ listed |-> origin[t].cols]
RanInv == AllRead /\ ran \in Seq(Wanted) /\ IsInjective(ran)
RunInv == todo \subseteq Wanted /\ Range(ran) = Wanted \ todo /\ catalog = Made(Range(ran))
DownInv ==
  /\ IsFiniteSet(Wanted) /\ (Range(ran) = Wanted \/ Len(ran) < Cardinality(Wanted))
  /\ \E S : S = Range(ran) \cup Irreversible /\ catalog = Made(S)
DiffInv ==
  /\ drops \in Nat /\ IsSchema(models)
  /\ drops = 0 =>
       /\ IsCatalog(catalog) /\ IsCatalog(origin)
       /\ diffPc = "auto" => \A t \in DOMAIN origin : t \in DOMAIN catalog /\ catalog[t] = origin[t]
       /\ diffPc = "read" => ReadInv
       /\ diffPc \in {"run", "down", "done"} => RanInv
       /\ diffPc = "run" => RunInv
       /\ diffPc \in {"down", "done"} => DownInv

LEMMA RanRange ==
  ASSUME RanInv PROVE Range(ran) \subseteq Wanted
BY DEF RanInv, Range

\* A step that runs nothing leaves what was wanted and what was made of it.
LEMMA SameChanges ==
  ASSUME UNCHANGED <<models, seen, origin>>
  PROVE  /\ Wanted' = Wanted /\ (AllRead' <=> AllRead) /\ Irreversible' = Irreversible
         /\ \A S : Made(S)' = Made(S)
BY DEF Wanted, AllRead, Irreversible, Made, MadeCols, Reversible

LEMMA AutoStep ==
  ASSUME DiffInv, NEW t \in DOMAIN models, NEW fails \in BOOLEAN, AutoMigrate(t, fails) PROVE DiffInv'
<1> DEFINE new == [cols |-> [f \in DOMAIN models[t] |-> buildColumnDefinition(f, models[t][f])], refs |-> {}]
<1>1. /\ diffPc = "auto" /\ diffPc' \in {"auto", "error"} /\ UNCHANGED <<models, drops, origin>>
      /\ catalog' = catalog \/ (getTableName(t) \notin DOMAIN catalog /\ catalog' = Plus(catalog, One(getTableName(t), new)))
    BY DEF AutoMigrate
<1>2. IsFunc(new.cols) /\ new = [cols |-> new.cols, refs |-> new.refs]
    BY DEF IsFunc
<1> HIDE DEF new
<1>3. ASSUME drops = 0
      PROVE  IsCatalog(catalog') /\ \A u \in DOMAIN origin : u \in DOMAIN catalog' /\ catalog'[u] = origin[u]
    <2>1. IsCatalog(catalog) /\ \A u \in DOMAIN origin : u \in DOMAIN catalog /\ catalog[u] = origin[u]
        BY <1>1, <1>3 DEF DiffInv
    <2>2. CASE getTableName(t) \notin DOMAIN catalog /\ catalog' = Plus(catalog, One(getTableName(t), new))
        <3>1. /\ DOMAIN catalog' = DOMAIN catalog \cup {getTableName(t)} /\ IsFunc(catalog')
              /\ catalog'[getTableName(t)] = new
              /\ \A u \in DOMAIN catalog : u # getTableName(t) /\ catalog'[u] = catalog[u]
            BY <2>2 DEF Plus, One, IsFunc
        <3> QED BY <1>2, <2>1, <3>1 DEF IsCatalog
    <2> QED BY <1>1, <2>1, <2>2
<1>4. drops' \in Nat /\ IsSchema(models')
    BY <1>1 DEF DiffInv
<1>5. drops = 0 => IsCatalog(origin)
    BY DEF DiffInv
<1> QED BY <1>1, <1>3, <1>4, <1>5 DEF DiffInv, IsCatalog

LEMMA ReadStep ==
  ASSUME DiffInv, getTables \/ (\E t \in listed : getTableSchema(t)) \/ Compare \/ ReadError \/ AutoEnds
  PROVE  DiffInv'
<1>1. CASE ReadError \/ AutoEnds
    <2>1. diffPc' \in {"error", "list"} /\ UNCHANGED <<catalog, models, drops, origin>>
        BY <1>1 DEF ReadError, AutoEnds
    <2> QED BY <2>1 DEF DiffInv, IsCatalog, IsSchema, IsFunc
<1>2. CASE getTables
    <2>1. /\ diffPc' = "read" /\ UNCHANGED <<catalog, models, drops>> /\ origin' = catalog
          /\ listed' = DOMAIN catalog /\ seen' = << >> /\ ran' = << >>
        BY <1>2 DEF getTables
    <2>2. ReadInv'
        BY <2>1 DEF ReadInv
    <2> QED BY <2>1, <2>2 DEF DiffInv, IsCatalog, IsSchema, IsFunc
<1>3. ASSUME NEW t \in listed, getTableSchema(t) PROVE DiffInv'
    <2>1. /\ diffPc = "read" /\ diffPc' = "read" /\ UNCHANGED <<catalog, models, drops, origin, ran>>
          /\ listed' = listed \ {t}
          /\ seen' = Plus(seen, One(t, IF t \in DOMAIN catalog THEN catalog[t].cols ELSE << >>))
        BY <1>3 DEF getTableSchema
    <2>2. ASSUME ReadInv PROVE ReadInv'
        <3>1. seen' = Plus(seen, One(t, origin[t].cols)) /\ t \in DOMAIN origin
            BY <2>1, <2>2 DEF ReadInv
        <3>2. DOMAIN seen = DOMAIN origin \ listed /\ \A u \in DOMAIN seen : seen[u] = origin[u].cols
            BY <2>2 DEF ReadInv
        <3>3. seen' = [u \in DOMAIN origin \ (listed \ {t}) |-> origin[u].cols]
            BY <2>2, <3>1, <3>2 DEF Plus, One, ReadInv
        <3> QED BY <2>1, <2>2, <3>3 DEF ReadInv
    <2> QED BY <2>1, <2>2 DEF DiffInv, IsCatalog, IsSchema, IsFunc
<1>4. CASE Compare
    <2>1. /\ diffPc = "read" /\ diffPc' = "run" /\ listed = {} /\ todo' = Wanted
          /\ UNCHANGED <<catalog, models, drops, origin, ran, seen>>
        BY <1>4 DEF Compare, Wanted
    <2>2. /\ Wanted' = Wanted /\ (AllRead' <=> AllRead) /\ \A S : Made(S)' = Made(S)
        BY <2>1, SameChanges
    <2>3. ASSUME ReadInv, IsCatalog(origin) PROVE RanInv' /\ RunInv'
        <3>1. AllRead /\ ran' = << >> /\ catalog' = origin
            BY <2>1, <2>3 DEF AllRead, ReadInv
        <3>2. Range(ran') = {} /\ IsInjective(ran') /\ ran' \in Seq(Wanted)
            BY <3>1 DEF Range, IsInjective
        <3>3. Made({})' = origin
            BY <2>2, <2>3, AppliedNone
        <3>4. Made(Range(ran))' = origin
            BY <3>2, <3>3 DEF Made, MadeCols
        <3> QED BY <2>1, <2>2, <3>1, <3>2, <3>4 DEF RanInv, RunInv
    <2> QED BY <2>1, <2>3 DEF DiffInv, IsCatalog, IsSchema, IsFunc
<1> QED BY <1>1, <1>2, <1>3, <1>4

LEMMA RunStep ==
  ASSUME DiffInv, NEW c \in todo, NEW fails \in BOOLEAN, RunChange(c, fails) PROVE DiffInv'
<1>1. /\ diffPc = "run" /\ UNCHANGED <<models, seen, drops, origin>> /\ todo' = todo \ {c}
      /\ \/ /\ ~SqlRefuses(c) /\ catalog' = SqlDoes(c) /\ ran' = Append(ran, c) /\ diffPc' = "run"
         \/ /\ catalog' = catalog /\ diffPc' = "list"
    BY DEF RunChange
<1>2. /\ Wanted' = Wanted /\ (AllRead' <=> AllRead) /\ \A S : Made(S)' = Made(S)
    BY <1>1, SameChanges
<1>3. drops' \in Nat /\ IsSchema(models')
    BY <1>1 DEF DiffInv
<1>4. ASSUME drops = 0, ~SqlRefuses(c), catalog' = SqlDoes(c), ran' = Append(ran, c), diffPc' = "run"
      PROVE  IsCatalog(catalog') /\ RanInv' /\ RunInv'
    <2>1. IsCatalog(origin) /\ RanInv /\ RunInv /\ IsSchema(models)
        BY <1>1, <1>4 DEF DiffInv
    <2>2. Range(ran) \in SUBSET Wanted /\ c \in Wanted \ Range(ran)
        BY <2>1 DEF RunInv
    <2>3. /\ Append(ran, c) \in Seq(Wanted) /\ IsInjective(Append(ran, c))
          /\ Range(Append(ran, c)) = Range(ran) \cup {c}
        BY <2>1, <2>2, OneMoreRun DEF RanInv
    <2>4. SqlDoes(c) = Made(Range(ran) \cup {c})
        BY <1>4, <2>1, <2>2, ChangeApplies DEF RanInv, RunInv
    <2>5. catalog' = Made(Range(ran'))
        BY <1>4, <2>3, <2>4
    <2>6. catalog' = Made(Range(ran))'
        BY <1>1, <2>5 DEF Made, MadeCols
    <2>7. RanInv'
        BY <1>2, <1>4, <2>1, <2>3 DEF RanInv
    <2>8. RunInv'
        BY <1>1, <1>2, <1>4, <2>1, <2>2, <2>3, <2>6 DEF RunInv
    <2> QED BY <2>1, <2>5, <2>7, <2>8, MadeIsCatalog
<1> QED BY <1>1, <1>3, <1>4 DEF DiffInv, IsCatalog, IsFunc

LEMMA EndStep ==
  ASSUME DiffInv, RunEnds PROVE DiffInv'
<1>1. /\ diffPc = "run" /\ todo = {} /\ diffPc' \in {"done", "down", "list"}
      /\ UNCHANGED <<catalog, models, seen, drops, origin, ran>>
    BY DEF RunEnds
<1>2. /\ Wanted' = Wanted /\ (AllRead' <=> AllRead) /\ Irreversible' = Irreversible
      /\ \A S : Made(S)' = Made(S)
    BY <1>1, SameChanges
<1>3. ASSUME drops = 0 PROVE RanInv' /\ DownInv'
    <2>1. RanInv /\ RunInv
        BY <1>1, <1>3 DEF DiffInv
    <2>2. Range(ran) = Wanted /\ Irreversible \subseteq Range(ran)
        BY <1>1, <2>1 DEF RunInv, Irreversible
    <2>3. IsFiniteSet(Wanted)
        BY <2>1, <2>2, AllRun DEF RanInv
    <2>4. Range(ran) \cup Irreversible = Range(ran)
        BY <2>2
    <2>5. catalog = Made(Range(ran) \cup Irreversible)
        BY <2>1, <2>4 DEF RunInv
    <2>6. \E S : S = Range(ran') \cup Irreversible' /\ catalog' = Made(S)'
        BY <1>1, <1>2, <2>5
    <2> QED BY <1>1, <1>2, <2>1, <2>2, <2>3, <2>6 DEF RanInv, DownInv
<1> QED BY <1>1, <1>3 DEF DiffInv, IsCatalog, IsSchema, IsFunc

LEMMA DownStep ==
  ASSUME DiffInv, GenerateMigration PROVE DiffInv'
<1> DEFINE c == ran[Len(ran)]
           less == SubSeq(ran, 1, Len(ran) - 1)
<1>1. diffPc = "down" /\ UNCHANGED <<models, seen, drops, origin>>
    BY DEF GenerateMigration
<1>2. /\ Wanted' = Wanted /\ (AllRead' <=> AllRead) /\ Irreversible' = Irreversible
      /\ \A S : Made(S)' = Made(S)
    BY <1>1, SameChanges
<1>3. drops' \in Nat /\ IsSchema(models')
    BY <1>1 DEF DiffInv
<1>4. CASE ran = << >>
    <2>1. diffPc' = "done" /\ UNCHANGED <<catalog, ran>>
        BY <1>4 DEF GenerateMigration
    <2>2. ASSUME drops = 0 PROVE RanInv' /\ DownInv'
        BY <1>1, <1>2, <2>1, <2>2 DEF DiffInv, RanInv, DownInv
    <2> QED BY <1>1, <1>3, <2>1, <2>2 DEF DiffInv, IsCatalog, IsFunc
<1>5. CASE ran # << >>
    <2>1. /\ diffPc' = "down" /\ ran' = less
          /\ catalog' = CASE c.kind = "add_table" -> Without(catalog, c.table)
                           [] c.kind = "add_column" /\ c.table \in DOMAIN catalog ->
                                [catalog EXCEPT ![c.table].cols = Without(@, c.col)]
                           [] OTHER -> catalog
        BY <1>1, <1>5 DEF GenerateMigration
    <2>2. ASSUME drops = 0 PROVE IsCatalog(catalog') /\ RanInv' /\ DownInv'
        <3>1. IsCatalog(origin) /\ IsSchema(models) /\ RanInv /\ DownInv
            BY <1>1, <2>2 DEF DiffInv
        <3>2. /\ less \in Seq(Wanted) /\ IsInjective(less) /\ Len(less) = Len(ran) - 1
              /\ c \in Wanted \ Range(less) /\ Range(ran) = Range(less) \cup {c}
            BY <1>5, <3>1, OneLessRun DEF RanInv
        <3> HIDE DEF c, less
        <3> DEFINE S == Range(less) \cup Irreversible
        <3>3. S \in SUBSET Wanted
            BY <3>2 DEF Range, Irreversible
        <3>4. catalog' = Made(S)
            <4>1. CASE c.kind \in Reversible
                <5>1. c \in Wanted \ S /\ Range(ran) \cup Irreversible = S \cup {c}
                    BY <3>2, <4>1 DEF Irreversible
                <5>2. catalog = Made(S \cup {c})
                    BY <3>1, <5>1 DEF DownInv
                <5> HIDE DEF S
                <5>3. /\ c.kind = "add_table" => Without(catalog, c.table) = Made(S)
                      /\ c.kind = "add_column" =>
                           /\ c.table \in DOMAIN catalog
                           /\ [catalog EXCEPT ![c.table].cols = Without(@, c.col)] = Made(S)
                    BY <3>1, <3>3, <5>1, <5>2, ChangeUndone DEF RanInv
                <5>4. CASE c.kind = "add_table"
                    BY <2>1, <5>3, <5>4
                <5>5. CASE c.kind = "add_column"
                    BY <2>1, <5>3, <5>5
                <5> QED BY <4>1, <5>4, <5>5 DEF Reversible
            <4>2. CASE c.kind \notin Reversible
                <5>1. Range(ran) \cup Irreversible = S
                    BY <3>2, <4>2 DEF Irreversible
                <5>2. catalog' = catalog
                    BY <2>1, <4>2 DEF Reversible
                <5> QED BY <3>1, <5>1, <5>2 DEF DownInv
            <4> QED BY <4>1, <4>2
        <3>5. \E U : U = Range(ran') \cup Irreversible' /\ catalog' = Made(U)'
            BY <1>2, <2>1, <3>4
        <3>6. Len(less) < Cardinality(Wanted)
            <4>1. Len(ran) \in Nat /\ Len(ran) <= Cardinality(Wanted)
                <5>1. Range(ran) = Wanted => Cardinality(Wanted) = Len(ran)
                    BY <3>1, AllRun DEF RanInv
                <5>2. Cardinality(Wanted) \in Nat /\ Len(ran) \in Nat
                    BY <3>1, FS_CardinalityType DEF DownInv, RanInv
                <5> QED BY <3>1, <5>1, <5>2 DEF DownInv
            <4>2. Cardinality(Wanted) \in Nat
                BY <3>1, FS_CardinalityType DEF DownInv
            <4> QED BY <3>2, <4>1, <4>2
        <3>7. RanInv'
            BY <1>2, <2>1, <3>1, <3>2 DEF RanInv
        <3>8. DownInv'
            BY <1>2, <2>1, <3>1, <3>5, <3>6 DEF DownInv
        <3>9. IsCatalog(catalog')
            BY <3>1, <3>4, MadeIsCatalog
        <3> QED BY <3>7, <3>8, <3>9
    <2>3. drops = 0 => IsCatalog(origin)
        BY DEF DiffInv
    <2>4. drops = 0 => IsCatalog(origin')
        BY <1>1, <2>3
    <2>5. drops' = drops /\ diffPc' = "down"
        BY <1>1, <2>1
    <2> HIDE DEF c, less
    <2> QED BY <1>3, <2>2, <2>4, <2>5 DEF DiffInv
<1> QED BY <1>4, <1>5

LEMMA DiffStep ==
  ASSUME DiffInv, [SchemaNext]_schemaVars PROVE DiffInv'
<1>1. CASE UNCHANGED schemaVars
    BY <1>1, SameChanges DEF schemaVars, DiffInv, ReadInv, RanInv, RunInv, DownInv, IsCatalog, IsSchema, IsFunc
<1>2. ASSUME NEW t \in DOMAIN catalog, DropElsewhere(t) PROVE DiffInv'
    BY <1>2 DEF DropElsewhere, DiffInv, IsSchema, IsFunc
<1> QED BY <1>1, <1>2, AutoStep, ReadStep, RunStep, EndStep, DownStep DEF SchemaNext

\* What the changes of a whole Diff make, and what is left when Down has run.
LEMMA MadeByAll ==
  ASSUME AllRead, IsSchema(models)
  PROVE  /\ DOMAIN Made(Wanted) = DOMAIN models
         /\ \A t \in DOMAIN models :
              Made(Wanted)[t].cols = IF t \notin DOMAIN origin THEN models[t] ELSE
                 [c \in DOMAIN models[t] |-> IF c \in DOMAIN origin[t].cols THEN Kept(origin[t].cols[c], models[t][c])
                                             ELSE models[t][c]]
<1>1. DOMAIN Made(Wanted) = DOMAIN models
    BY WantedAll DEF Made
<1>2. ASSUME NEW t \in DOMAIN models, t \notin DOMAIN origin PROVE Made(Wanted)[t].cols = models[t]
    BY <1>1, <1>2 DEF Made
<1>3. ASSUME NEW t \in DOMAIN models, t \in DOMAIN origin
      PROVE  Made(Wanted)[t].cols =
                [c \in DOMAIN models[t] |-> IF c \in DOMAIN origin[t].cols THEN Kept(origin[t].cols[c], models[t][c])
                                            ELSE models[t][c]]
    <2>1. Made(Wanted)[t].cols = MadeCols(Wanted, t)
        BY <1>1, <1>3 DEF Made
    <2>2. /\ \A f : Has(Wanted, "add_column", t, f) <=> f \in DOMAIN models[t] \ DOMAIN origin[t].cols
          /\ \A f : Has(Wanted, "drop_column", t, f) <=> f \in DOMAIN origin[t].cols \ DOMAIN models[t]
          /\ \A f : Has(Wanted, "modify_column", t, f) <=> f \in DOMAIN origin[t].cols \cap DOMAIN models[t]
        BY <1>3, WantedAll
    <2>3. DOMAIN MadeCols(Wanted, t) = DOMAIN models[t]
        BY <2>2 DEF MadeCols
    <2>4. \A f \in DOMAIN models[t] : MadeCols(Wanted, t)[f] =
             IF f \in DOMAIN origin[t].cols THEN Kept(origin[t].cols[f], models[t][f]) ELSE models[t][f]
        BY <2>2, <2>3 DEF MadeCols
    <2>5. IsFunc(MadeCols(Wanted, t))
        BY DEF MadeCols, IsFunc
    <2> QED BY <2>1, <2>3, <2>4, <2>5 DEF IsFunc
<1> QED BY <1>1, <1>2, <1>3

LEMMA LeftByDown ==
  ASSUME AllRead, IsSchema(models)
  PROVE  /\ DOMAIN Made(Irreversible) = DOMAIN models \cap DOMAIN origin
         /\ \A t \in DOMAIN models \cap DOMAIN origin :
              Made(Irreversible)[t].cols =
                 [c \in DOMAIN models[t] \cap DOMAIN origin[t].cols |-> Kept(origin[t].cols[c], models[t][c])]
<1>1. /\ \A k, t, f : k \in Reversible => ~Has(Irreversible, k, t, f)
      /\ \A k, t, f : k \notin Reversible => (Has(Irreversible, k, t, f) <=> Has(Wanted, k, t, f))
    BY DEF Has, Irreversible
<1>2. /\ \A t : ~Has(Irreversible, "add_table", t, "none")
      /\ \A t : Has(Irreversible, "drop_table", t, "none") <=> t \in DOMAIN origin \ DOMAIN models
    BY <1>1, WantedAll DEF Reversible
<1>3. DOMAIN Made(Irreversible) = DOMAIN models \cap DOMAIN origin
    BY <1>2 DEF Made
<1>4. ASSUME NEW t \in DOMAIN models \cap DOMAIN origin
      PROVE  Made(Irreversible)[t].cols =
                [c \in DOMAIN models[t] \cap DOMAIN origin[t].cols |-> Kept(origin[t].cols[c], models[t][c])]
    <2>1. Made(Irreversible)[t].cols = MadeCols(Irreversible, t)
        BY <1>3 DEF Made
    <2>2. /\ \A f : ~Has(Irreversible, "add_column", t, f)
          /\ \A f : Has(Irreversible, "drop_column", t, f) <=> f \in DOMAIN origin[t].cols \ DOMAIN models[t]
          /\ \A f : Has(Irreversible, "modify_column", t, f) <=> f \in DOMAIN origin[t].cols \cap DOMAIN models[t]
        BY <1>1, WantedAll DEF Reversible
    <2>3. DOMAIN MadeCols(Irreversible, t) = DOMAIN models[t] \cap DOMAIN origin[t].cols
        BY <2>2 DEF MadeCols
    <2>4. \A f \in DOMAIN models[t] \cap DOMAIN origin[t].cols :
             MadeCols(Irreversible, t)[f] = Kept(origin[t].cols[f], models[t][f])
        BY <2>2, <2>3 DEF MadeCols
    <2>5. IsFunc(MadeCols(Irreversible, t))
        BY DEF MadeCols, IsFunc
    <2> QED BY <2>1, <2>3, <2>4, <2>5 DEF IsFunc
<1> QED BY <1>3, <1>4

\* When all changes of a Diff have run, in whatever order and after whatever
\* failures, the database has the models' tables and columns, and Down takes away
\* what was new and no more (migrate/diff.go, for every catalog and all models).
THEOREM DiffsReach == SchemaSpec => []DiffReaches
<1>1. SchemaInit => DiffInv
    BY SchemaAssumption DEF SchemaInit, DiffInv
<1>2. DiffInv /\ [SchemaNext]_schemaVars => DiffInv'
    BY DiffStep
<1>3. DiffInv => DiffReaches
    <2> SUFFICES ASSUME DiffInv, drops = 0 PROVE DiffReaches
        BY DEF DiffReaches
    <2>1. diffPc \in {"done", "down"} => RanInv /\ DownInv
        BY DEF DiffInv
    <2>2. ASSUME diffPc \in {"done", "down"}, Len(ran) = Cardinality(Diff(seen, models))
          PROVE  catalog = Made(Wanted)
        <3>1. RanInv /\ DownInv
            BY <2>1, <2>2
        <3>2. Range(ran) = Wanted
            BY <2>2, <3>1, AllRun DEF RanInv, DownInv, Wanted
        <3>3. Range(ran) \cup Irreversible = Wanted
            BY <3>2 DEF Irreversible
        <3> QED BY <3>1, <3>3 DEF DownInv
    <2>3. ASSUME diffPc = "done", ran = << >> PROVE catalog = Made(Irreversible)
        <3>1. Range(ran) \cup Irreversible = Irreversible
            BY <2>3 DEF Range
        <3> QED BY <2>1, <2>3, <3>1 DEF DownInv
    <2>4. diffPc \in {"done", "down"} => AllRead /\ IsSchema(models)
        BY <2>1 DEF RanInv, DiffInv
    <2>5. ASSUME diffPc \in {"done", "down"}, ran # << >>, todo = {}, Len(ran) = Cardinality(Diff(seen, models))
          PROVE  /\ DOMAIN catalog = DOMAIN models
                 /\ \A t \in DOMAIN models :
                       catalog[t].cols = IF t \notin DOMAIN origin THEN models[t] ELSE
                          [c \in DOMAIN models[t] |-> IF c \in DOMAIN origin[t].cols THEN Kept(origin[t].cols[c], models[t][c])
                                                      ELSE models[t][c]]
        BY <2>2, <2>4, <2>5, MadeByAll
    <2>6. ASSUME diffPc = "done", ran = << >>
          PROVE  /\ DOMAIN catalog = DOMAIN models \cap DOMAIN origin
                 /\ \A t \in DOMAIN catalog :
                      catalog[t].cols = [c \in DOMAIN models[t] \cap DOMAIN origin[t].cols |->
                                           Kept(origin[t].cols[c], models[t][c])]
        BY <2>3, <2>4, <2>6, LeftByDown
    <2>7. diffPc = "auto" => \A t \in DOMAIN origin : catalog[t] = origin[t]
        BY DEF DiffInv
    <2> QED BY <2>5, <2>6, <2>7 DEF DiffReaches
<1> QED BY <1>1, <1>2, <1>3, PTL DEF SchemaSpec
=============================================================================
