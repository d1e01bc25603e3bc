------------------------------ MODULE Tenancy ------------------------------
(***************************************************************************)
(* Multi-tenancy on PostgreSQL (core/tenant.go): a schema for each tenant, *)
(* found through the search_path of the session, or shared tables with row *)
(* level security on a session variable.  Sessions belong to pooled        *)
(* connections and outlive the statement that set them; a transaction      *)
(* keeps its connection and takes its settings back when it is undone.     *)
(***************************************************************************)
EXTENDS Integers, Sequences, FiniteSets

CONSTANTS TnClients, TnConns, Tenants
ASSUME TenancyAssumption == TnConns \subseteq Nat \ {0} /\ {"", "public"} \cap Tenants = {}

VARIABLES
    tnCtx,      \* client -> tenant that WithTenant put into its context, or ""
    tnOwn,      \* client -> tenant that config.GetTenantFromContext finds, or ""
    tnExtract,  \* config.GetTenantFromContext is set
    tnStrategy, \* what the application uses: "column", "schema" or "rls"
    session,    \* connection -> [schema, tenant]
    tnTx,       \* client -> connection of its transaction, or 0
    tnUndo,     \* client -> the session when its transaction began
    tnState,    \* client -> "ok", "aborted"
    tnSet,      \* client -> what it set in this transaction: {"schema", "tenant"}
    schemas,    \* tenants that have a schema
    rls,        \* what CreateRLSPolicy has done: {"enabled", "forced", "policy"}
    rlsNext,    \* the statement of CreateRLSPolicy that comes next
    tnSaw       \* the last read: [client, safe, got, had]
tenantVars == <<tnCtx, tnOwn, tnExtract, tnStrategy, session, tnTx, tnUndo, tnState, tnSet, schemas, rls, rlsNext, tnSaw>>
tnConfig == <<tnCtx, tnOwn, tnExtract, tnStrategy>>

FreshSession == [schema |-> "public", tenant |-> ""]
NothingRead == [safe |-> FALSE]
TenantInit ==
    /\ tnCtx \in [TnClients -> Tenants \cup {""}] /\ tnOwn \in [TnClients -> Tenants \cup {""}]
    /\ \/ tnExtract = TRUE /\ \E t \in Tenants \cup {""} : tnCtx = [c \in TnClients |-> t]
       \/ tnExtract = FALSE /\ tnOwn = [c \in TnClients |-> ""]
    /\ tnStrategy \in {"column", "schema", "rls"}
    /\ session = [k \in TnConns |-> FreshSession]
    /\ tnTx = [c \in TnClients |-> 0] /\ tnUndo = [c \in TnClients |-> FreshSession]
    /\ tnState = [c \in TnClients |-> "ok"] /\ tnSet = [c \in TnClients |-> {}]
    /\ schemas = {} /\ rls = {} /\ rlsNext = 1 /\ tnSaw = NothingRead

Free == TnConns \ {tnTx[c] : c \in TnClients}
\* A statement of c: on the connection of its transaction, or on any free one.
On(c, k) == (tnTx[c] # 0 /\ k = tnTx[c]) \/ (tnTx[c] = 0 /\ k \in Free)
\* After an error a transaction refuses everything.
Fails(c) == tnState' = [tnState EXCEPT ![c] = IF tnTx[c] # 0 THEN "aborted" ELSE @]

TnBegin(c) ==
    /\ tnTx[c] = 0 /\ tnStrategy # "column"
    /\ \E k \in Free : tnTx' = [tnTx EXCEPT ![c] = k] /\ tnUndo' = [tnUndo EXCEPT ![c] = session[k]]
    /\ tnState' = [tnState EXCEPT ![c] = "ok"] /\ tnSet' = [tnSet EXCEPT ![c] = {}]
    /\ UNCHANGED <<tnConfig, session, schemas, rls, rlsNext, tnSaw>>
TnEnd(c, commit) ==
    /\ tnTx[c] # 0
    /\ session' = IF commit /\ tnState[c] = "ok" THEN session ELSE [session EXCEPT ![tnTx[c]] = tnUndo[c]]
    /\ tnTx' = [tnTx EXCEPT ![c] = 0] /\ tnSet' = [tnSet EXCEPT ![c] = {}]
    /\ tnState' = [tnState EXCEPT ![c] = "ok"]
    /\ UNCHANGED <<tnConfig, tnUndo, schemas, rls, rlsNext, tnSaw>>

\* Mutant: a tenant of WithTenant comes before the one GetTenantFromContext finds.
MutgetTenantID(c) == IF tnCtx[c] # "" THEN tnCtx[c] ELSE tnOwn[c]
getTenantID(c) == IF tnExtract THEN tnOwn[c] ELSE tnCtx[c]
GetSchemaName(c) == IF getTenantID(c) = "" THEN "public" ELSE getTenantID(c)

\* A SET that reaches the server, or not.
Setting(c, k, what, value, fails) ==
    /\ tnStrategy = [schema |-> "schema", tenant |-> "rls"][what]
    /\ On(c, k) /\ tnState[c] = "ok"
    /\ IF fails THEN Fails(c) /\ UNCHANGED <<session, tnSet>> ELSE
          /\ session' = [session EXCEPT ![k] = [@ EXCEPT ![what] = value]]
          /\ tnSet' = [tnSet EXCEPT ![c] = IF tnTx[c] # 0 THEN @ \cup {what} ELSE @]
          /\ UNCHANGED tnState
    /\ UNCHANGED <<tnConfig, tnTx, tnUndo, schemas, rls, rlsNext, tnSaw>>
SetSearchPath(c, k, fails) == Setting(c, k, "schema", GetSchemaName(c), fails)
SetTenantSession(c, k, fails) == Setting(c, k, "tenant", getTenantID(c), fails)
\* ApplyToQuery leaves the text alone and adds the tenant as an argument, for
\* which the text has no placeholder: a driver refuses the statement (PostgreSQL)
\* or passes over the argument and reads every row.
ApplyToQuery(c) ==
    /\ tnStrategy = "column"
    /\ \E got \in IF getTenantID(c) # "" THEN {{}, Tenants} ELSE {Tenants} :
          tnSaw' = [client |-> c, safe |-> FALSE, got |-> got]
    /\ UNCHANGED <<tnConfig, session, tnTx, tnUndo, tnState, tnSet, schemas, rls, rlsNext>>

\* A read of a table of the tenant's schema: search_path is "<schema>, public",
\* and a schema that does not exist is passed over.
ReadSchema(c, k) ==
    /\ tnStrategy = "schema" /\ On(c, k) /\ tnState[c] = "ok"
    /\ tnSaw' = [client |-> c, safe |-> "schema" \in tnSet[c], had |-> schemas,
                 got |-> {IF session[k].schema \in schemas THEN session[k].schema ELSE "public"}]
    /\ UNCHANGED <<tnConfig, session, tnTx, tnUndo, tnState, tnSet, schemas, rls, rlsNext>>
\* A read of a shared table by its owner: all rows until row level security is
\* forced, none until there is a policy, then those of the session's tenant
\* (without one the policy refuses the read).
ReadShared(c, k) ==
    /\ tnStrategy = "rls" /\ On(c, k) /\ tnState[c] = "ok"
    /\ tnSaw' = [client |-> c, safe |-> "tenant" \in tnSet[c] /\ {"enabled", "forced"} \subseteq rls,
                 got |-> IF ~({"enabled", "forced"} \subseteq rls) THEN Tenants
                         ELSE IF "policy" \in rls THEN {session[k].tenant} \cap Tenants ELSE {}]
    /\ UNCHANGED <<tnConfig, session, tnTx, tnUndo, tnState, tnSet, schemas, rls, rlsNext>>

CreateTenantSchema(t) ==
    /\ tnStrategy = "schema" /\ t \notin schemas /\ schemas' = schemas \cup {t}
    /\ UNCHANGED <<tnConfig, session, tnTx, tnUndo, tnState, tnSet, rls, rlsNext, tnSaw>>
DropTenantSchema(t) ==
    /\ tnStrategy = "schema" /\ t \in schemas /\ schemas' = schemas \ {t}
    /\ UNCHANGED <<tnConfig, session, tnTx, tnUndo, tnState, tnSet, rls, rlsNext, tnSaw>>
\* CreateRLSPolicy: three statements; it returns at the first that fails, and a
\* policy that is there already is one.
CreateRLSPolicy(fails) ==
    LET what == <<"enabled", "forced", "policy">>[rlsNext]
        error == fails \/ (what = "policy" /\ "policy" \in rls)
    IN  /\ tnStrategy = "rls"
        /\ rls' = IF error THEN rls ELSE rls \cup {what}
        /\ rlsNext' = IF error \/ rlsNext = 3 THEN 1 ELSE rlsNext + 1
        /\ UNCHANGED <<tnConfig, session, tnTx, tnUndo, tnState, tnSet, schemas, tnSaw>>

TenantNext ==
    \/ \E c \in TnClients : ApplyToQuery(c) \/ TnBegin(c) \/ \E commit \in BOOLEAN : TnEnd(c, commit)
    \/ \E c \in TnClients, k \in TnConns :
          \/ ReadSchema(c, k) \/ ReadShared(c, k)
          \/ \E fails \in BOOLEAN : SetSearchPath(c, k, fails) \/ SetTenantSession(c, k, fails)
    \/ \E t \in Tenants : CreateTenantSchema(t) \/ DropTenantSchema(t)
    \/ \E fails \in BOOLEAN : CreateRLSPolicy(fails)
TenantSpec == TenantInit /\ [][TenantNext]_tenantVars

\* With a tenant given, a transaction that has called SetSearchPath reads that
\* tenant's schema, or public when the schema does not exist, and one that has
\* called SetTenantSession reads none but its own tenant's rows once row level
\* security is forced, however far CreateRLSPolicy has got and whatever others
\* left in the session of the connection it was given (tenant.go).
TenantReadsOwn ==
    LET own == IF tnExtract THEN tnOwn[tnSaw.client] ELSE tnCtx[tnSaw.client]
    IN  tnSaw.safe /\ own # "" =>
          IF tnStrategy = "schema" THEN tnSaw.got = {IF own \in tnSaw.had THEN own ELSE "public"}
          ELSE tnSaw.got \subseteq {own}
=============================================================================
