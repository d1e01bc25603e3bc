------------------------------ MODULE MCStores ------------------------------
(***************************************************************************)
(* The event store and the cache of query results, which share no state: a *)
(* behaviour runs one of them, the other stays in its initial state.  Two  *)
(* processes append events; two writers share the store of the first one.  *)
(***************************************************************************)
EXTENDS EventStore, MCQueryCache

CONSTANTS w1, w2, w3, s1, s2

MCStoreOf == (w1 :> s1) @@ (w2 :> s1) @@ (w3 :> s2)

VARIABLE part
mcVars == <<part, vars, queryVars>>

MCInit == part \in {"events", "cache"} /\ Init /\ QueryInit
MCNext ==
    /\ UNCHANGED part
    /\ \/ part = "events" /\ Next /\ UNCHANGED queryVars
       \/ part = "cache" /\ QueryNext /\ UNCHANGED vars
MCSpec == MCInit /\ [][MCNext]_mcVars
=============================================================================
