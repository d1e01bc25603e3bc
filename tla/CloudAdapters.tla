--------------------------- MODULE CloudAdapters ---------------------------
(***************************************************************************)
(* The adapters of cloud/adapters.go: handles opened in order, closed when *)
(* a later one fails, and RunTransaction of CockroachDBAdapter, which runs *)
(* its function again when the database asks for a retry.  Each client     *)
(* adds one to a counter; the database is serializable, a commit may fail  *)
(* with or without effect, and the pool of connections is bounded.         *)
(***************************************************************************)
EXTENDS Integers, FiniteSets

CONSTANTS TxClients,
          maxRetries,      \* 10 in the code
          PoolConns,       \* configurePool
          MaxInjected      \* retry errors that fn brings about itself
ASSUME CloudAssumption ==
    /\ IsFiniteSet(TxClients) /\ maxRetries \in Nat \ {0} /\ PoolConns \in Nat \ {0} /\ MaxInjected \in Nat

VARIABLES
    adapter,   \* [kind, state, handles]
    value,     \* the counter in the database
    txPc,      \* client -> place in RunTransaction, or its result
    txTry,     \* client -> i
    txRead,    \* client -> the counter as its transaction read it
    txOpen,    \* transactions that hold a connection
    txApplied, \* ghost: commits of the client that had an effect
    txAsked    \* ghost: retry errors that did not come from a conflict
cloudVars == <<adapter, value, txPc, txTry, txRead, txOpen, txApplied, txAsked>>
txVars == <<value, txPc, txTry, txRead, txOpen, txApplied, txAsked>>

Handles(kind) == IF kind = "aurora" THEN {"writer", "reader"} ELSE {"writer"}
CloudInit ==
    /\ adapter \in [kind : {"aurora", "aurora_writer", "cockroach", "other"}, state : {"opening"}, handles : {{}}]
    /\ value = 0
    /\ txPc = [c \in TxClients |-> "idle"] /\ txTry = [c \in TxClients |-> 0]
    /\ txRead = [c \in TxClients |-> 0] /\ txOpen = {}
    /\ txApplied = [c \in TxClients |-> 0] /\ txAsked = [c \in TxClients |-> 0]

\* The constructors: the writer first, then the reader of an Aurora cluster that
\* has one; when the reader does not open, the writer is closed again.
NewAdapter(fails) ==
    /\ adapter.state = "opening"
    /\ LET next == IF adapter.handles = {} THEN "writer" ELSE "reader"
           opened == adapter.handles \cup {next}
       IN  adapter' = IF fails THEN [adapter EXCEPT !.state = "failed", !.handles = {}]
                      ELSE [adapter EXCEPT !.handles = opened,
                                           !.state = IF opened = Handles(adapter.kind) THEN "ready" ELSE @]
    /\ UNCHANGED txVars
\* Close closes every handle, whatever the first one answers.
CloseAdapter ==
    /\ adapter.state = "ready"
    /\ adapter' = [adapter EXCEPT !.state = "closed", !.handles = {}]
    /\ UNCHANGED txVars
Reader == IF "reader" \in adapter.handles THEN "reader" ELSE "writer"

Call(c) ==
    /\ adapter.kind = "cockroach" /\ adapter.state = "ready" /\ txPc[c] = "idle"
    /\ txPc' = [txPc EXCEPT ![c] = "begin"]
    /\ UNCHANGED <<adapter, value, txTry, txRead, txOpen, txApplied, txAsked>>

\* BeginTx waits for a connection; it fails when the adapter is closed, the
\* context ends or the server does not answer.
BeginTx(c) ==
    /\ txPc[c] = "begin" /\ adapter.state = "ready" /\ Cardinality(txOpen) < PoolConns
    /\ txPc' = [txPc EXCEPT ![c] = "fn"]
    /\ txOpen' = txOpen \cup {c}
    /\ txRead' = [txRead EXCEPT ![c] = value]
    /\ UNCHANGED <<adapter, value, txTry, txApplied, txAsked>>
BeginFails(c) ==
    /\ txPc[c] = "begin"
    /\ txPc' = [txPc EXCEPT ![c] = "error"]
    /\ UNCHANGED <<adapter, value, txTry, txRead, txOpen, txApplied, txAsked>>

\* Mutant: a commit without an answer is tried again.
MutIsCockroachRetryError(e) == e \in {"40001", "lost"}
isCockroachRetryError(e) == e = "40001"
\* The end of an attempt with error e: the loop goes on, or returns.
Again(c, e) ==
    IF ~isCockroachRetryError(e) THEN txPc' = [txPc EXCEPT ![c] = "error"] /\ UNCHANGED txTry
    ELSE /\ txTry' = [txTry EXCEPT ![c] = @ + 1]
         /\ txPc' = [txPc EXCEPT ![c] = IF txTry[c] + 1 < maxRetries THEN "begin" ELSE "exhausted"]

\* fn returns: nil, an error of its own, or one that asks for a retry, because
\* its transaction is in conflict or because its text says so.
Fn(c, e) ==
    /\ txPc[c] = "fn"
    /\ CASE e = "nil" -> txPc' = [txPc EXCEPT ![c] = "commit"] /\ UNCHANGED <<txTry, txOpen, txAsked>>
         [] e # "nil" -> /\ Again(c, e) /\ txOpen' = txOpen \ {c}
                         /\ txAsked' = [txAsked EXCEPT ![c] = @ + (IF e = "40001" /\ txRead[c] = value THEN 1 ELSE 0)]
    /\ txAsked'[c] <= MaxInjected
    /\ UNCHANGED <<adapter, value, txRead, txApplied>>
\* A panic in fn leaves RunTransaction without a rollback.
FnPanics(c) ==
    /\ txPc[c] = "fn"
    /\ txPc' = [txPc EXCEPT ![c] = "panicked"]
    /\ UNCHANGED <<adapter, value, txTry, txRead, txOpen, txApplied, txAsked>>

Commit(c, e, effect) ==
    /\ txPc[c] = "commit"
    /\ txOpen' = txOpen \ {c}
    /\ CASE e = "40001" -> ~effect /\ txRead[c] # value        \* another commit came first
         [] e = "nil"   -> effect
         [] e = "lost"  -> TRUE                               \* the answer, or the request
    /\ effect => txRead[c] = value
    /\ value' = IF effect THEN value + 1 ELSE value
    /\ txApplied' = [txApplied EXCEPT ![c] = @ + (IF effect THEN 1 ELSE 0)]
    /\ IF e = "nil" THEN txPc' = [txPc EXCEPT ![c] = "ok"] /\ UNCHANGED txTry ELSE Again(c, e)
    /\ UNCHANGED <<adapter, txRead, txAsked>>

CloudNext ==
    \/ \E fails \in BOOLEAN : NewAdapter(fails)
    \/ CloseAdapter
    \/ \E c \in TxClients :
          \/ Call(c) \/ BeginTx(c) \/ BeginFails(c) \/ FnPanics(c)
          \/ \E e \in {"nil", "error", "40001"} : Fn(c, e)
          \/ \E e \in {"nil", "40001", "lost"}, effect \in BOOLEAN : Commit(c, e, effect)
CloudSpec == CloudInit /\ [][CloudNext]_cloudVars

\* How many of these clients' transactions had an effect.
Applied(S) == Cardinality({c \in S : txApplied[c] > 0})
\* RunTransaction has its function's effect exactly once when it returns nil, at
\* most once when it returns an error, and then only if the commit got no answer;
\* it repeats only attempts without effect and, as every repetition is owed to
\* another client's commit or to fn itself, runs out of retries for nothing else.
\* No connection stays with a call that returned, nor a handle with an adapter
\* that failed to open or was closed; only a panic keeps one (adapters.go).
CommitsOnce ==
    /\ value = Applied(TxClients)
    /\ \A c \in TxClients :
          /\ txApplied[c] <= 1
          /\ txPc[c] = "ok" => txApplied[c] = 1
          /\ txPc[c] \notin {"ok", "error"} => txApplied[c] = 0
          /\ txTry[c] <= maxRetries /\ txTry[c] <= Applied(TxClients \ {c}) + txAsked[c]
          /\ c \in txOpen <=> txPc[c] \in {"fn", "commit", "panicked"}
    /\ adapter.state \in {"failed", "closed"} <=> adapter.handles = {} /\ adapter.state # "opening"
    /\ adapter.state = "ready" => Reader \in adapter.handles
=============================================================================
