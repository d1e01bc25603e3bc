------------------------------- MODULE Buses -------------------------------
(***************************************************************************)
(* CommandBus and QueryBus (cqrs/cqrs.go) and EventBus                     *)
(* (eventsourcing/event.go).  A call copies handler and middleware, or the *)
(* lists of event handlers, under the read lock and works with the copies  *)
(* after it; meanwhile others register, add middleware, subscribe and      *)
(* change what the handlers read.                                          *)
(***************************************************************************)
EXTENDS Integers, Sequences, FiniteSets, SequencesExt

CONSTANTS Callers,
          BusQueries,    \* what Ask is asked, queries of one name: the fields of a
                         \* struct, each the words of its text
          MaxRegistered, MaxMiddleware, MaxFacts, MaxBusCalls
ASSUME BusesAssumption ==
    /\ {MaxRegistered, MaxMiddleware, MaxFacts, MaxBusCalls} \subseteq Nat
    /\ BusQueries \subseteq Seq(Seq(STRING))

VARIABLES
    busKind,     \* "command", "query" or "event"
    handler,     \* bus.handlers of the one name: NoHandler or [type, no]
    middleware,  \* bus.middleware
    fact,        \* version of what handlers read
    cached,      \* the cache of CachingQueryMiddleware: text of a query -> result
    subscribed,  \* eb.handlers: "created" or "*" -> handlers
    busCall,     \* caller -> its call
    busCalls     \* number of calls made
busVars == <<busKind, handler, middleware, fact, cached, subscribed, busCall, busCalls>>

NoHandler == [type |-> "none", no |-> 0]
NoResult  == [type |-> "nil", of |-> <<>>, no |-> 0, fact |-> 0]
NoCall == [pc |-> "idle"]
Topics == {"created", "*"}
\* The one command.
Do == <<<<"do">>>>
\* fmt.Sprintf("query:%s:%v", name, query): %v prints the fields of a struct with
\* a blank between them, as there is between the words of one field.
QueryKey(q) == FlattenSeq(q)
BusInit ==
    /\ busKind \in {"command", "query", "event"}
    /\ handler = NoHandler /\ middleware = <<>> /\ fact = 0 /\ cached = <<>>
    /\ subscribed = [t \in Topics |-> <<>>]
    /\ busCall = [c \in Callers |-> NoCall] /\ busCalls = 0

\* Register and RegisterQuery put a handler, of this or of another type with the
\* same name, in the place of the one before.
RegisterHandler(type) ==
    /\ busKind # "event" /\ handler.no < MaxRegistered
    /\ handler' = [type |-> type, no |-> handler.no + 1]
    /\ UNCHANGED <<busKind, middleware, fact, cached, subscribed, busCall, busCalls>>
UseMiddleware(mw) ==
    /\ Len(middleware) < MaxMiddleware
    /\ mw \in (CASE busKind = "command" -> {"log", "validate"} [] busKind = "query" -> {"cache"} [] OTHER -> {})
    /\ middleware' = Append(middleware, mw)
    /\ UNCHANGED <<busKind, handler, fact, cached, subscribed, busCall, busCalls>>
SubscribeTo(t) ==
    /\ busKind = "event" /\ Len(subscribed["created"]) + Len(subscribed["*"]) < MaxRegistered
    /\ subscribed' = [subscribed EXCEPT ![t] = Append(@, <<t, Len(@) + 1>>)]
    /\ UNCHANGED <<busKind, handler, middleware, fact, cached, busCall, busCalls>>
\* What the handlers read changes.
NewFact ==
    /\ busKind = "query" /\ fact < MaxFacts
    /\ fact' = fact + 1
    /\ UNCHANGED <<busKind, handler, middleware, cached, subscribed, busCall, busCalls>>

Put(c, call) == busCall' = [busCall EXCEPT ![c] = call]
NewCall(c, call) ==
    /\ busCall[c].pc \in {"idle", "returned"} /\ busCalls < MaxBusCalls
    /\ busCalls' = busCalls + 1
    /\ Put(c, call)
    /\ UNCHANGED <<busKind, handler, middleware, fact, cached, subscribed>>
\* Dispatch and Ask: the copies, then the two errors before the chain is built.
\* The call asks for a result of type R; valid is what Validate will say.
Dispatch(c, q, R, valid) ==
    /\ \/ busKind = "query" /\ q \in BusQueries /\ valid
       \/ busKind = "command" /\ q = Do
    /\ NewCall(c, [pc |-> IF handler.type = R THEN "in" ELSE "returned",
                 q |-> q, R |-> R, valid |-> valid, h |-> handler, mws |-> middleware, at |-> 0,
                 missed |-> {}, ran |-> 0, logged |-> 0, res |-> NoResult,
                 err |-> handler.type # R, panic |-> FALSE, since |-> fact])

\* Inward, through the middleware in the order of Use.
Enter(c) ==
    LET call == busCall[c]
        k == call.at + 1
        hit == QueryKey(call.q) \in DOMAIN cached
    IN  /\ call.pc = "in" /\ call.at < Len(call.mws)
        /\ CASE call.mws[k] = "log" -> Put(c, [call EXCEPT !.at = k, !.logged = @ + 1])
             [] call.mws[k] = "validate" -> Put(c, IF call.valid THEN [call EXCEPT !.at = k]
                                                   ELSE [call EXCEPT !.pc = "out", !.err = TRUE])
             [] OTHER -> Put(c, IF hit THEN [call EXCEPT !.pc = "out", !.res = cached[QueryKey(call.q)]]
                                ELSE [call EXCEPT !.at = k, !.missed = @ \cup {k}])
        /\ UNCHANGED <<busKind, handler, middleware, fact, cached, subscribed, busCalls>>
Handle(c, fails) ==
    LET call == busCall[c] IN
    /\ call.pc = "in" /\ call.at = Len(call.mws)
    /\ Put(c, [call EXCEPT !.pc = "out", !.ran = @ + 1, !.err = fails,
                           !.res = IF fails THEN NoResult
                                   ELSE [type |-> call.h.type, of |-> call.q, no |-> call.h.no, fact |-> fact]])
    /\ UNCHANGED <<busKind, handler, middleware, fact, cached, subscribed, busCalls>>
\* Mutant: errors are cached too.
MutCacheSet(call) == call.at \in call.missed
\* CachingQueryMiddleware stores what next returned without an error.
CacheSet(call) == call.at \in call.missed /\ ~call.err
\* Outward again.
Leave(c) ==
    LET call == busCall[c]
        key == QueryKey(call.q)
    IN
    /\ call.pc = "out" /\ call.at > 0
    /\ Put(c, [call EXCEPT !.at = @ - 1, !.logged = IF call.mws[call.at] = "log" THEN @ - 1 ELSE @])
    /\ cached' = IF CacheSet(call)
                 THEN [k \in DOMAIN cached \cup {key} |-> IF k = key THEN call.res ELSE cached[k]]
                 ELSE cached
    /\ UNCHANGED <<busKind, handler, middleware, fact, subscribed, busCalls>>
\* Ask asserts the type of the result, which a cached one may not have.
Result(c) ==
    LET call == busCall[c] IN
    /\ call.pc = "out" /\ call.at = 0
    /\ Put(c, [call EXCEPT !.pc = "returned", !.panic = busKind = "query" /\ ~call.err /\ call.res.type # call.R])
    /\ UNCHANGED <<busKind, handler, middleware, fact, cached, subscribed, busCalls>>

\* PublishAll of two events; Publish takes a copy of the lists for each, those of
\* the event's type first, then "*", and the first error ends it all.
PublishAll(c) ==
    /\ busKind = "event"
    /\ NewCall(c, [pc |-> "publish", event |-> 1, list |-> <<>>, next |-> 0, err |-> FALSE, got |-> <<>>,
                 before |-> subscribed])
Publish(c) ==
    LET call == busCall[c] IN
    /\ call.pc = "publish"
    /\ Put(c, [call EXCEPT !.pc = "deliver", !.list = subscribed["created"] \o subscribed["*"], !.next = 1])
    /\ UNCHANGED <<busKind, handler, middleware, fact, cached, subscribed, busCalls>>
Deliver(c, fails) ==
    LET call == busCall[c] IN
    /\ call.pc = "deliver" /\ call.next <= Len(call.list)
    /\ Put(c, [call EXCEPT !.got = Append(@, <<call.event, call.list[call.next]>>), !.next = @ + 1,
                           !.err = fails, !.pc = IF fails THEN "returned" ELSE @])
    /\ UNCHANGED <<busKind, handler, middleware, fact, cached, subscribed, busCalls>>
Delivered(c) ==
    LET call == busCall[c] IN
    /\ call.pc = "deliver" /\ call.next > Len(call.list)
    /\ Put(c, [call EXCEPT !.pc = IF call.event = 2 THEN "returned" ELSE "publish", !.event = 2])
    /\ UNCHANGED <<busKind, handler, middleware, fact, cached, subscribed, busCalls>>

BusNext ==
    \/ \E type \in {"A", "B"} : RegisterHandler(type)
    \/ \E mw \in {"log", "validate", "cache"} : UseMiddleware(mw)
    \/ \E t \in Topics : SubscribeTo(t)
    \/ NewFact
    \/ \E c \in Callers :
          \/ \E q \in BusQueries \cup {Do}, R \in {"A", "B"}, valid \in BOOLEAN : Dispatch(c, q, R, valid)
          \/ Enter(c) \/ Leave(c) \/ Result(c) \/ PublishAll(c) \/ Publish(c) \/ Delivered(c)
          \/ \E fails \in BOOLEAN : Handle(c, fails) \/ Deliver(c, fails)
BusSpec == BusInit /\ [][BusNext]_busVars

Times(call, e, h) == Cardinality({i \in DOMAIN call.got : call.got[i] = <<e, h>>})
\* A command's handler runs once for a Dispatch that returns nil, and not at all
\* for one whose command a validator on the bus before it would refuse, however
\* many others use the bus; an Ask without an error answers its own query with
\* facts not older than the call, or has from the cache what was kept for a query
\* that prints as the same text, its own or another; it has a result of another
\* type (a panic) only after a handler of another type was replaced with its
\* answers still cached; every entry of LoggingMiddleware gets its end.
\* PublishAll reaches every handler subscribed before it once per event, in the
\* order of the events, unless a handler failed: then none after it (cqrs.go
\* Dispatch and Ask, event.go Publish and PublishAll).
BusesExact ==
    \A c \in Callers :
      LET call == busCall[c] IN
      /\ (call.pc = "returned" /\ busKind # "event") =>
           /\ call.ran <= 1 /\ call.logged = 0
           /\ busKind = "command" => (~call.err => call.ran = 1)
           /\ (~call.valid /\ \E k \in DOMAIN call.mws : call.mws[k] = "validate") => call.ran = 0 /\ call.err
           /\ (busKind = "query" /\ ~call.err) =>
                /\ QueryKey(call.res.of) = QueryKey(call.q)
                /\ call.ran = 1 => /\ call.res.of = call.q
                                   /\ call.res.fact >= call.since /\ call.res.no = call.h.no
                /\ call.ran = 0 => "cache" \in {call.mws[k] : k \in DOMAIN call.mws}
                /\ call.panic => call.ran = 0 /\ call.res.no # call.h.no
      /\ (call.pc = "returned" /\ busKind = "event") =>
           /\ \A e \in 1..2, t \in Topics : \A i \in DOMAIN call.before[t] :
                 Times(call, e, call.before[t][i]) <= 1 /\ (~call.err => Times(call, e, call.before[t][i]) = 1)
           /\ \A i, j \in DOMAIN call.got : i < j => call.got[i][1] <= call.got[j][1]
=============================================================================
