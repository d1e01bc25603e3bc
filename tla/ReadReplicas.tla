---------------------------- MODULE ReadReplicas ----------------------------
(***************************************************************************)
(* OpenWithReplicas (genus.go) and MultiExecutor (core/multi_executor.go,  *)
(* core/context.go): statements of ExecContext go to the primary, those of *)
(* QueryContext and QueryRowContext to the next replica unless the context *)
(* says WithPrimary.  DB.Create sends its INSERT ... RETURNING with        *)
(* QueryRowContext.  The replicas follow the primary with a delay and      *)
(* refuse to write.                                                        *)
(***************************************************************************)
EXTENDS Integers, Sequences, FiniteSets, FiniteSetsExt

CONSTANTS Users,           \* goroutines
          ReplicaCounts,   \* how many replicas a deployment may have
          Wrap,            \* 2^64: where the counter starts again
          MaxWrites, MaxReads
ASSUME ReadReplicasAssumption ==
    /\ ReplicaCounts \subseteq Nat /\ Wrap \in Nat \ {0} /\ MaxWrites \in Nat /\ MaxReads \in Nat

VARIABLES
    replicas,   \* len(config.ReplicaDSNs), then len(m.replicas)
    life,       \* "opening", "undoing" (OpenWithReplicas fails), "running",
                \* "closing" (in Close) or "over"
    handles,    \* databases that are open
    written,    \* the primary's log: who wrote
    applied,    \* replica -> how much of the log it has
    turn,       \* m.counter
    wraps,      \* ghost: how often it started again
    target,     \* user -> where its statement goes, or "idle"
    want,       \* user -> [insert, primary]: what it is about
    sentTo,     \* ghost: replica -> statements
    saw         \* user -> how many of its own writes its last statement saw, and its error
databases == <<replicas, life, handles>>
dispatching == <<turn, wraps, sentTo>>
replicaVars == <<databases, written, applied, dispatching, target, want, saw>>

Primary == -1
Idle == -2
NoStatement == [insert |-> FALSE, primary |-> FALSE]
RepIds == 0 .. replicas - 1

ReplicaInit ==
    /\ replicas \in ReplicaCounts /\ life = "opening" /\ handles = {}
    /\ written = <<>> /\ applied = [r \in RepIds |-> 0]
    /\ turn = 0 /\ wraps = 0 /\ sentTo = [r \in RepIds |-> 0]
    /\ target = [u \in Users |-> Idle]
    /\ want = [u \in Users |-> NoStatement]
    /\ saw = [u \in Users |-> [mine |-> 0, refused |-> FALSE]]

\* OpenWithReplicas opens the primary and then one replica after the other;
\* the executor is made when all are open.
AllDatabases == Primary .. replicas - 1
OpenNext ==
    /\ life = "opening" /\ handles # AllDatabases
    /\ handles' = handles \cup {Min(AllDatabases \ handles)}
    /\ UNCHANGED <<replicas, life, written, applied, dispatching, target, want, saw>>
NewMultiExecutor ==
    /\ life = "opening" /\ handles = AllDatabases
    /\ life' = "running"
    /\ UNCHANGED <<replicas, handles, written, applied, dispatching, target, want, saw>>
\* One does not open: those that did are closed and the error is returned.
OpenReplicaFails ==
    /\ life = "opening" /\ handles # AllDatabases
    /\ life' = "undoing"
    /\ UNCHANGED <<replicas, handles, written, applied, dispatching, target, want, saw>>

\* Close, called while statements may be on their way.
CloseCall ==
    /\ life = "running"
    /\ life' = "closing"
    /\ UNCHANGED <<replicas, handles, written, applied, dispatching, target, want, saw>>
\* The primary and then each replica; an error of one does not keep the rest.
CloseNext ==
    /\ life \in {"undoing", "closing"}
    /\ IF handles = {} THEN life' = "over" /\ UNCHANGED handles
       ELSE handles' = handles \ {Min(handles)} /\ UNCHANGED life
    /\ UNCHANGED <<replicas, written, applied, dispatching, target, want, saw>>
InUse == life \in {"running", "closing"}

Written(u) == Cardinality({i \in DOMAIN written : written[i] = u})
\* How many of u's writes are among the first k.
WrittenIn(u, k) == Cardinality({i \in 1..k : written[i] = u})

\* ExecContext: always the primary, which refuses when it is closed.
ExecContext(u) ==
    /\ InUse /\ target[u] = Idle /\ Primary \in handles /\ Len(written) < MaxWrites
    /\ written' = Append(written, u)
    /\ UNCHANGED <<databases, applied, dispatching, target, want, saw>>

\* nextReplica: the counter is taken and raised in one step.
nextReplica == ((turn + 1) % Wrap) % replicas
\* Mutant: the context is not asked.
MutGetReadDB(primary) == IF replicas = 0 THEN Primary ELSE nextReplica
getReadDB(primary) == IF primary \/ replicas = 0 THEN Primary ELSE nextReplica
\* QueryContext and QueryRowContext choose their database, and then wait for it.
QueryContext(u, insert, primary) ==
    /\ InUse /\ target[u] = Idle
    /\ MapThenSumSet(LAMBDA r : sentTo[r], RepIds) < MaxReads
    /\ want' = [want EXCEPT ![u] = [insert |-> insert, primary |-> primary]]
    /\ target' = [target EXCEPT ![u] = getReadDB(primary)]
    /\ IF getReadDB(primary) = Primary THEN UNCHANGED dispatching ELSE
          /\ turn' = (turn + 1) % Wrap
          /\ wraps' = wraps + (IF turn' = 0 THEN 1 ELSE 0)
          /\ sentTo' = [sentTo EXCEPT ![getReadDB(primary)] = @ + 1]
    /\ UNCHANGED <<databases, written, applied, saw>>
\* The database that was chosen answers; closed, it refuses.
Answer(u) ==
    /\ target[u] # Idle
    /\ target' = [target EXCEPT ![u] = Idle]
    /\ want' = [want EXCEPT ![u] = NoStatement]
    /\ LET k == IF target[u] = Primary THEN Len(written) ELSE applied[target[u]]
           refused == target[u] \notin handles \/ (want[u].insert /\ target[u] # Primary)
       IN  /\ want[u].insert => Len(written) < MaxWrites
           /\ written' = IF want[u].insert /\ ~refused THEN Append(written, u) ELSE written
           /\ saw' = [saw EXCEPT ![u] = [mine |-> WrittenIn(u, k), refused |-> refused]]
    /\ UNCHANGED <<databases, applied, dispatching>>

Replicate(r) ==
    /\ applied[r] < Len(written)
    /\ applied' = [applied EXCEPT ![r] = @ + 1]
    /\ UNCHANGED <<databases, written, dispatching, target, want, saw>>

ReplicaNext ==
    \/ OpenNext \/ NewMultiExecutor \/ OpenReplicaFails \/ CloseCall \/ CloseNext
    \/ \E u \in Users : ExecContext(u) \/ Answer(u)
    \/ \E u \in Users, insert, primary \in BOOLEAN : QueryContext(u, insert, primary)
    \/ \E r \in RepIds : Replicate(r)
ReplicaSpec == ReplicaInit /\ [][ReplicaNext]_replicaVars

-----------------------------------------------------------------------------
\* Until Close, no read is refused; one WithPrimary, and every read where there
\* are no replicas, sees all that its goroutine wrote before, and a write sent
\* that way is stored.  (An INSERT ... RETURNING without WithPrimary goes to a
\* replica: WritesGoToPrimary.)  Reads are spread over the replicas to within
\* one, plus one for each time the counter started again.  When OpenWithReplicas
\* has failed, or Close has returned, nothing is left open (genus.go line 114,
\* multi_executor.go line 82, context.go).
ReadsOwnWrites ==
    [][/\ \A u \in Users : target[u] # Idle /\ target'[u] = Idle /\ life = "running" =>
            /\ want[u].primary \/ replicas = 0 =>
                  /\ ~saw'[u].refused /\ saw'[u].mine = Written(u)
                  /\ want[u].insert => written' = Append(written, u)
            /\ ~want[u].insert => ~saw'[u].refused
       /\ life' = "over" => handles' = {}
       /\ \A r, s \in RepIds : sentTo'[r] - sentTo'[s] <= 1 + wraps']_replicaVars

\* "Writes sempre vão para o primary" (multi_executor.go, line 10, and
\* genus.go, line 74): a statement that writes is sent to the primary.
WritesGoToPrimary == \A u \in Users : want[u].insert => target[u] = Primary
=============================================================================
