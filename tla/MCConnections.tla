--------------------------- MODULE MCConnections ---------------------------
(***************************************************************************)
(* Two users of the connections of a sql.DB that share no state: the pool  *)
(* for serverless databases and the migrator.  A behaviour runs one of     *)
(* them, the other stays in its initial state.                             *)
(***************************************************************************)
EXTENDS ServerlessPool, Migrator, TLC

CONSTANTS c1, c2, k1, r1, r2, r3

\* SetMaxIdleConns with a negative number: sql.DB keeps no idle connection, and
\* the scale-down loop may act.  With any other number it does not, so that
\* the behaviours of those pools are among these.
KeepsNoIdle == -1

\* A rolling deployment: one of the runners is still on the release before the
\* last migration.
TwoReleases == [r \in Runners |-> IF r = r1 THEN Versions \ {3} ELSE Versions]

VARIABLE part
mcVars == <<part, poolVars, vars>>

MCInit == part \in {"pool", "migrator"} /\ PoolInit /\ Init
MCNext ==
    /\ UNCHANGED part
    /\ \/ part = "pool" /\ PoolNext /\ UNCHANGED vars
       \/ part = "migrator" /\ Next /\ UNCHANGED poolVars
MCSpec == MCInit /\ [][MCNext]_mcVars /\ PoolFairness /\ OpFairness
=============================================================================
