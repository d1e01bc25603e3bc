------------------------ MODULE SubscriptionsProofs -------------------------
(***************************************************************************)
(* Theorems about what is told to those who asked: Subscriptions, for any  *)
(* subscriptions and channels, and Buses, for any callers, queries and     *)
(* limits of what is registered.                                           *)
(***************************************************************************)
EXTENDS Subscriptions, Buses, FiniteSetTheorems, TLAPS

\* A Subscribe under way is heard, or an UNLISTEN has overtaken it.
PendingHeard ==
  \A s \in Subs : pc[s] = "listened" => ChannelOf[s] \in listening \/ s \in overtaken

\* What is active is entered, and Unsubscribe has not been called for it.
ActiveEntered == \A s \in Subs : active[s] => s \in subs /\ pc[s] = "live"

\* What was made before Close is not being made again.
BeforeMade == \A s \in before : pc[s] \in {"live", "unsub", "gone"}

SubInv ==
  /\ TypeOK
  /\ HeardUnlessOvertaken
  /\ PendingHeard
  /\ ListensForSomeone
  /\ ActiveEntered
  /\ BeforeMade
  /\ CloseCancels

USE ChannelOfAssumption

\* The invariant holds at the start.
LEMMA InitInv == SubInit => SubInv
BY DEF SubInit, SubInv, TypeOK, HeardUnlessOvertaken, PendingHeard, ListensForSomeone,
       ActiveEntered, BeforeMade, CloseCancels

\* Types are kept.
LEMMA TypeStep == SubInv /\ [SubNext]_subVars => TypeOK'
<1> SUFFICES ASSUME SubInv, [SubNext]_subVars PROVE TypeOK'
  OBVIOUS
<1> USE DEF SubInv, TypeOK
<1>1. ASSUME NEW s \in Subs, Listen(s) \/ ListenLostAck(s) PROVE TypeOK'
  BY <1>1 DEF Listen, ListenLostAck, history
<1>2. ASSUME NEW s \in Subs, Register(s) PROVE TypeOK'
  BY <1>2 DEF Register, history
<1>3. ASSUME NEW s \in Subs, PollExit(s) \/ Cancel(s) \/ Unsubscribe(s) PROVE TypeOK'
  BY <1>3 DEF PollExit, Cancel, Unsubscribe, history
<1>4. ASSUME NEW s \in Subs, Unregister(s) PROVE TypeOK'
  BY <1>4 DEF Unregister, Unlisten, OnChannel
<1>5. ASSUME NEW s \in Subs, UnlistenFails(s) PROVE TypeOK'
  BY <1>5 DEF UnlistenFails
<1>6. CASE CloseBegin
  BY <1>6 DEF CloseBegin
<1>7. CASE CloseSweep
  BY <1>7 DEF CloseSweep
<1>8. CASE UNCHANGED subVars
  BY <1>8 DEF subVars, history
<1>9. QED
  BY <1>1, <1>2, <1>3, <1>4, <1>5, <1>6, <1>7, <1>8 DEF SubNext

\* What is entered, or about to be, is heard.
LEMMA HeardStep == SubInv /\ [SubNext]_subVars => HeardUnlessOvertaken' /\ PendingHeard'
<1> SUFFICES ASSUME SubInv, [SubNext]_subVars PROVE HeardUnlessOvertaken' /\ PendingHeard'
  OBVIOUS
<1> USE DEF SubInv, TypeOK, HeardUnlessOvertaken, PendingHeard
<1>1. ASSUME NEW s \in Subs, Listen(s) \/ ListenLostAck(s)
      PROVE HeardUnlessOvertaken' /\ PendingHeard'
  BY <1>1 DEF Listen, ListenLostAck, history
<1>2. ASSUME NEW s \in Subs, Register(s) PROVE HeardUnlessOvertaken' /\ PendingHeard'
  BY <1>2 DEF Register, history
<1>3. ASSUME NEW s \in Subs, PollExit(s) \/ Cancel(s) \/ Unsubscribe(s)
      PROVE HeardUnlessOvertaken' /\ PendingHeard'
  BY <1>3 DEF PollExit, Cancel, Unsubscribe, history
<1>4. ASSUME NEW s \in Subs, Unregister(s) PROVE HeardUnlessOvertaken' /\ PendingHeard'
  <2>1. CASE LastOf(s)
    \* UNLISTEN: nobody else is entered, and those being made are overtaken.
    BY <1>4, <2>1 DEF Unregister, LastOf, Unlisten, OnChannel
  <2>2. CASE ~LastOf(s)
    BY <1>4, <2>2 DEF Unregister
  <2>3. QED
    BY <2>1, <2>2
<1>5. ASSUME NEW s \in Subs, UnlistenFails(s) PROVE HeardUnlessOvertaken' /\ PendingHeard'
  BY <1>5 DEF UnlistenFails
<1>6. CASE CloseBegin
  BY <1>6 DEF CloseBegin
<1>7. CASE CloseSweep
  BY <1>7 DEF CloseSweep
<1>8. CASE UNCHANGED subVars
  BY <1>8 DEF subVars, history
<1>9. QED
  BY <1>1, <1>2, <1>3, <1>4, <1>5, <1>6, <1>7, <1>8 DEF SubNext

\* The session listens for someone, or an error or Close left the channel on.
LEMMA ListensStep == SubInv /\ [SubNext]_subVars => ListensForSomeone'
<1> SUFFICES ASSUME SubInv, [SubNext]_subVars PROVE ListensForSomeone'
  OBVIOUS
<1> USE DEF SubInv, TypeOK, ListensForSomeone, OnChannel
<1>1. ASSUME NEW s \in Subs, Listen(s) \/ ListenLostAck(s) PROVE ListensForSomeone'
  BY <1>1 DEF Listen, ListenLostAck, history
<1>2. ASSUME NEW s \in Subs, Register(s) PROVE ListensForSomeone'
  BY <1>2 DEF Register, history
<1>3. ASSUME NEW s \in Subs, PollExit(s) \/ Cancel(s) \/ Unsubscribe(s)
      PROVE ListensForSomeone'
  BY <1>3 DEF PollExit, Cancel, Unsubscribe, history
<1>4. ASSUME NEW s \in Subs, Unregister(s) PROVE ListensForSomeone'
  <2>1. CASE LastOf(s)
    BY <1>4, <2>1 DEF Unregister, LastOf, Unlisten
  <2>2. CASE ~LastOf(s)
    \* Another subscription of the channel is entered and stays.
    <3>1. PICK t \in subs \cap OnChannel(ChannelOf[s]) : t # s
      BY <2>2 DEF LastOf
    <3>2. QED
      BY <1>4, <2>2, <3>1 DEF Unregister
  <2>3. QED
    BY <2>1, <2>2
<1>5. ASSUME NEW s \in Subs, UnlistenFails(s) PROVE ListensForSomeone'
  BY <1>5 DEF UnlistenFails
<1>6. CASE CloseBegin
  BY <1>6 DEF CloseBegin
<1>7. CASE CloseSweep
  BY <1>7 DEF CloseSweep
<1>8. CASE UNCHANGED subVars
  BY <1>8 DEF subVars, history
<1>9. QED
  BY <1>1, <1>2, <1>3, <1>4, <1>5, <1>6, <1>7, <1>8 DEF SubNext

\* Close finds every active subscription entered, and none comes back.
LEMMA CloseStep ==
  SubInv /\ [SubNext]_subVars => ActiveEntered' /\ BeforeMade' /\ CloseCancels'
<1> SUFFICES ASSUME SubInv, [SubNext]_subVars
             PROVE  ActiveEntered' /\ BeforeMade' /\ CloseCancels'
  OBVIOUS
<1> USE DEF SubInv, TypeOK, ActiveEntered, BeforeMade, CloseCancels
<1>1. ASSUME NEW s \in Subs, Listen(s) \/ ListenLostAck(s)
      PROVE ActiveEntered' /\ BeforeMade' /\ CloseCancels'
  BY <1>1 DEF Listen, ListenLostAck, history
<1>2. ASSUME NEW s \in Subs, Register(s)
      PROVE ActiveEntered' /\ BeforeMade' /\ CloseCancels'
  BY <1>2 DEF Register, history
<1>3. ASSUME NEW s \in Subs, PollExit(s) \/ Cancel(s) \/ Unsubscribe(s)
      PROVE ActiveEntered' /\ BeforeMade' /\ CloseCancels'
  BY <1>3 DEF PollExit, Cancel, Unsubscribe, history
<1>4. ASSUME NEW s \in Subs, Unregister(s) \/ UnlistenFails(s)
      PROVE ActiveEntered' /\ BeforeMade' /\ CloseCancels'
  BY <1>4 DEF Unregister, UnlistenFails
<1>5. CASE CloseBegin
  BY <1>5 DEF CloseBegin
<1>6. CASE CloseSweep
  BY <1>6 DEF CloseSweep
<1>7. CASE UNCHANGED subVars
  BY <1>7 DEF subVars, history
<1>8. QED
  BY <1>1, <1>2, <1>3, <1>4, <1>5, <1>6, <1>7 DEF SubNext

\* The invariant holds in every state.
THEOREM Invariance == SubSpec => []SubInv
<1>1. SubInv /\ [SubNext]_subVars => SubInv'
  BY TypeStep, HeardStep, ListensStep, CloseStep DEF SubInv
<1>2. QED
  BY InitInv, <1>1, PTL DEF SubSpec

\* The state keeps its types, and only subscriptions that were not unsubscribed
\* are entered in sm.subscriptions.
THEOREM TypeCorrect == SubSpec => []TypeOK
<1>1. SubInv => TypeOK
  BY DEF SubInv
<1>2. QED
  BY Invariance, <1>1, PTL

\* An Unsubscribe makes no other entered subscription deaf, except one whose
\* Subscribe was between its LISTEN and its entry.
THEOREM NoneDeaf == SubSpec => []HeardUnlessOvertaken
<1>1. SubInv => HeardUnlessOvertaken
  BY DEF SubInv
<1>2. QED
  BY Invariance, <1>1, PTL

\* UNLISTEN follows the last Unsubscribe of a channel, whatever races with it.
THEOREM NoIdleChannel == SubSpec => []ListensForSomeone
<1>1. SubInv => ListensForSomeone
  BY DEF SubInv
<1>2. QED
  BY Invariance, <1>1, PTL

\* When Close has returned, every subscription made before it is inactive.
THEOREM AllCancelled == SubSpec => []CloseCancels
<1>1. SubInv => CloseCancels
  BY DEF SubInv
<1>2. QED
  BY Invariance, <1>1, PTL

-----------------------------------------------------------------------------
\* The values of the buses.
ResultTypes == {"A", "B"}
Asked == BusQueries \cup {Do}
Handlers == [type : ResultTypes \cup {"none"}, no : Nat]
Answers == [type : ResultTypes, of : Asked, no : Nat, fact : Nat]
MiddlewareOf(kind) == CASE kind = "command" -> {"log", "validate"}
                        [] kind = "query" -> {"cache"} [] OTHER -> {}
AskCalls(kind) ==
  [pc : {"in", "out", "returned"}, q : Asked, R : ResultTypes, valid : BOOLEAN, h : Handlers,
   mws : Seq(MiddlewareOf(kind)), at : Nat, missed : SUBSET Nat, ran : {0, 1}, logged : Nat,
   res : Answers \cup {NoResult}, err : BOOLEAN, panic : BOOLEAN, since : Nat]

\* A Dispatch or an Ask: LoggingMiddleware has as many entries open as it is
\* inside of; a validator that refuses the command is never behind the call;
\* what comes out without an error is the handler's answer or a cached one.
Logs(mws, k) == {i \in 1 .. k : mws[i] = "log"}
AskInv(kind, now, call) ==
  /\ call.at <= Len(call.mws) /\ call.since <= now
  /\ call.logged = Cardinality(Logs(call.mws, call.at))
  /\ call.missed \subseteq {k \in 1 .. Len(call.mws) : call.mws[k] = "cache"}
  /\ call.h.type # call.R => call.pc = "returned" /\ call.err /\ call.ran = 0
  /\ call.pc = "in" => /\ call.ran = 0 /\ ~call.err
                       /\ ~call.valid => \A k \in 1 .. call.at : call.mws[k] # "validate"
  /\ call.pc = "returned" => call.at = 0
  /\ call.panic => call.pc = "returned" /\ call.res.type # call.R
  /\ call.pc # "in" =>
       /\ (~call.valid /\ \E k \in DOMAIN call.mws : call.mws[k] = "validate") =>
             call.ran = 0 /\ call.err
       /\ kind = "command" /\ ~call.err => call.ran = 1
       /\ kind = "query" /\ ~call.err =>
             /\ call.res \in Answers /\ QueryKey(call.res.of) = QueryKey(call.q)
             /\ call.ran = 1 => call.res.of = call.q /\ call.res.fact >= call.since /\ call.res.no = call.h.no
             /\ call.ran = 0 => \E k \in DOMAIN call.mws : call.mws[k] = "cache"
AskOk(kind, now, call) == call \in AskCalls(kind) /\ AskInv(kind, now, call)

\* A number of the registry stands for one handler, of one type.
Known(types, last, x) == x.no <= last /\ x.type = types[x.no]

LEMMA LogsCount ==
  ASSUME NEW mws, NEW k \in Nat
  PROVE  /\ Cardinality(Logs(mws, 0)) = 0
         /\ Cardinality(Logs(mws, k)) \in Nat
         /\ Cardinality(Logs(mws, k + 1)) =
              Cardinality(Logs(mws, k)) + (IF mws[k + 1] = "log" THEN 1 ELSE 0)
<1>1. Logs(mws, 0) = {}
    BY DEF Logs
<1>2. IsFiniteSet(Logs(mws, k))
    <2>1. IsFiniteSet(1 .. k)
        BY FS_Interval
    <2> QED BY <2>1, FS_Subset DEF Logs
<1>3. CASE mws[k + 1] = "log"
    <2>1. Logs(mws, k + 1) = Logs(mws, k) \cup {k + 1} /\ k + 1 \notin Logs(mws, k)
        BY <1>3 DEF Logs
    <2>2. Cardinality(Logs(mws, k + 1)) = Cardinality(Logs(mws, k)) + 1
        BY <1>2, <2>1, FS_AddElement
    <2> QED BY <1>1, <1>2, <1>3, <2>2, FS_EmptySet, FS_CardinalityType
<1>4. CASE mws[k + 1] # "log"
    <2>1. Logs(mws, k + 1) = Logs(mws, k)
        BY <1>4 DEF Logs
    <2> QED BY <1>1, <1>2, <1>4, <2>1, FS_EmptySet, FS_CardinalityType
<1> QED BY <1>3, <1>4

\* The steps of one call, from its record to its next one.
LEMMA AskEnters ==
  ASSUME NEW kind \in {"command", "query"}, NEW now \in Nat,
         NEW call, AskOk(kind, now, call),
         call.pc = "in", call.at < Len(call.mws),
         NEW k, k = call.at + 1
  PROVE  /\ call.mws[k] \in MiddlewareOf(kind)
         /\ call.mws[k] = "log" =>
              AskOk(kind, now, [call EXCEPT !.at = k, !.logged = @ + 1])
         /\ call.mws[k] = "validate" /\ call.valid =>
              AskOk(kind, now, [call EXCEPT !.at = k])
         /\ call.mws[k] = "validate" /\ ~call.valid =>
              AskOk(kind, now, [call EXCEPT !.pc = "out", !.err = TRUE])
         /\ call.mws[k] = "cache" =>
              AskOk(kind, now, [call EXCEPT !.at = k, !.missed = @ \cup {k}])
<1>0. call \in AskCalls(kind) /\ AskInv(kind, now, call)
    BY DEF AskOk
<1> USE <1>0
<1>1. k \in 1 .. Len(call.mws) /\ call.mws[k] \in MiddlewareOf(kind) /\ call.at \in Nat
      /\ k \in Nat /\ k <= Len(call.mws)
    BY DEF AskCalls
<1>2. /\ Cardinality(Logs(call.mws, call.at)) \in Nat
      /\ Cardinality(Logs(call.mws, k)) =
           Cardinality(Logs(call.mws, call.at)) + (IF call.mws[k] = "log" THEN 1 ELSE 0)
    BY <1>1, LogsCount
<1>3. \A i \in 1 .. k : i = k \/ i \in 1 .. call.at
    BY <1>1
<1>4. ASSUME call.mws[k] = "log"
      PROVE  AskOk(kind, now, [call EXCEPT !.at = k, !.logged = @ + 1])
    <2>0. PICK more \in Nat : more = call.logged + 1
        BY DEF AskCalls
    <2>1. [call EXCEPT !.at = k, !.logged = @ + 1] \in AskCalls(kind)
        <3>1. [call EXCEPT !.at = k, !.logged = more] \in AskCalls(kind)
            BY ONLY <1>1, more \in Nat, call \in AskCalls(kind) DEF AskCalls
        <3> QED BY <2>0, <3>1
    <2>2. call.logged + 1 = Cardinality(Logs(call.mws, k))
        BY <1>2, <1>4 DEF AskInv
    <2>3. AskInv(kind, now, [call EXCEPT !.at = k, !.logged = @ + 1])
        BY <1>1, <1>3, <1>4, <2>1, <2>2 DEF AskCalls, AskInv
    <2> QED BY <2>1, <2>3 DEF AskOk
<1>5. ASSUME call.mws[k] = "validate", call.valid
      PROVE  AskOk(kind, now, [call EXCEPT !.at = k])
    BY <1>1, <1>2, <1>3, <1>5 DEF AskCalls, AskInv, AskOk
<1>6. ASSUME call.mws[k] = "validate", ~call.valid
      PROVE  AskOk(kind, now, [call EXCEPT !.pc = "out", !.err = TRUE])
    <2>1. kind = "command"
        BY <1>1, <1>6 DEF MiddlewareOf
    <2> QED BY <2>1, <1>6 DEF AskCalls, AskInv, AskOk
<1>7. ASSUME call.mws[k] = "cache"
      PROVE  AskOk(kind, now, [call EXCEPT !.at = k, !.missed = @ \cup {k}])
    <2>1. [call EXCEPT !.at = k, !.missed = @ \cup {k}] \in AskCalls(kind)
        BY <1>1 DEF AskCalls
    <2>2. AskInv(kind, now, [call EXCEPT !.at = k, !.missed = @ \cup {k}])
        BY <1>1, <1>2, <1>3, <1>7 DEF AskCalls, AskInv
    <2> QED BY <2>1, <2>2 DEF AskOk
<1> QED BY <1>1, <1>4, <1>5, <1>6, <1>7

LEMMA AskHits ==
  ASSUME NEW kind \in {"command", "query"}, NEW now \in Nat,
         NEW call, AskOk(kind, now, call),
         call.pc = "in", NEW k \in DOMAIN call.mws, call.mws[k] = "cache",
         NEW res \in Answers, QueryKey(res.of) = QueryKey(call.q)
  PROVE  AskOk(kind, now, [call EXCEPT !.pc = "out", !.res = res])
<1>0. call \in AskCalls(kind) /\ AskInv(kind, now, call)
    BY DEF AskOk
<1> USE <1>0
<1> DEFINE new == [call EXCEPT !.pc = "out", !.res = res]
<1>1. kind = "query" /\ \A i \in DOMAIN call.mws : call.mws[i] = "cache"
    BY DEF MiddlewareOf, AskCalls
<1>2. new \in AskCalls(kind)
    BY DEF AskCalls
<1>3. /\ new.pc = "out" /\ new.res = res
      /\ new.mws = call.mws /\ new.at = call.at /\ new.logged = call.logged /\ new.ran = call.ran
      /\ new.missed = call.missed /\ new.err = call.err /\ new.since = call.since
      /\ new.q = call.q /\ new.h = call.h /\ new.R = call.R /\ new.valid = call.valid
      /\ new.panic = call.panic
    BY DEF AskCalls
<1> HIDE DEF new
<1>4. AskInv(kind, now, new)
    BY <1>1, <1>3 DEF AskInv
<1> QED BY <1>2, <1>4 DEF new, AskOk

LEMMA AskHandles ==
  ASSUME NEW kind \in {"command", "query"}, NEW now \in Nat,
         NEW call, AskOk(kind, now, call),
         call.pc = "in", call.at = Len(call.mws), NEW fails \in BOOLEAN, NEW res,
         IF fails THEN res = NoResult
         ELSE res = [type |-> call.h.type, of |-> call.q, no |-> call.h.no, fact |-> now]
  PROVE  AskOk(kind, now, [call EXCEPT !.pc = "out", !.ran = @ + 1, !.err = fails, !.res = res])
<1>0. call \in AskCalls(kind) /\ AskInv(kind, now, call)
    BY DEF AskOk
<1> USE <1>0
<1> DEFINE new == [call EXCEPT !.pc = "out", !.ran = @ + 1, !.err = fails, !.res = res]
<1>1. call.h.type = call.R /\ call.h.no \in Nat /\ call.ran = 0 /\ call.R \in ResultTypes
      /\ call.q \in Asked
    BY DEF AskInv, AskCalls, Handlers
<1>2. ~fails => res \in Answers /\ res.of = call.q /\ res.fact = now /\ res.no = call.h.no
                /\ res.type = call.h.type
    BY <1>1 DEF Answers
<1>3. res \in Answers \cup {NoResult}
    BY <1>2
<1>4. new \in AskCalls(kind)
    <2>1. new = [call EXCEPT !.pc = "out", !.ran = 1, !.err = fails, !.res = res]
        BY <1>1
    <2> QED BY <1>3, <2>1 DEF AskCalls
<1>5. /\ new.pc = "out" /\ new.res = res /\ new.ran = 1 /\ new.err = fails
      /\ new.mws = call.mws /\ new.at = call.at /\ new.logged = call.logged
      /\ new.missed = call.missed /\ new.since = call.since
      /\ new.q = call.q /\ new.h = call.h /\ new.R = call.R /\ new.valid = call.valid
      /\ new.panic = call.panic
    BY <1>1 DEF AskCalls
<1> HIDE DEF new
<1>6. ~new.valid => \A k \in DOMAIN call.mws : call.mws[k] # "validate"
    BY <1>5 DEF AskInv, AskCalls
<1>7. AskInv(kind, now, new)
    BY <1>1, <1>2, <1>5, <1>6 DEF AskInv, AskCalls
<1> QED BY <1>4, <1>7 DEF new, AskOk

LEMMA AskLeaves ==
  ASSUME NEW kind \in {"command", "query"}, NEW now \in Nat,
         NEW call, AskOk(kind, now, call),
         call.pc = "out", call.at > 0, NEW logged,
         logged = IF call.mws[call.at] = "log" THEN call.logged - 1 ELSE call.logged
  PROVE  AskOk(kind, now, [call EXCEPT !.at = @ - 1, !.logged = logged])
<1>0. call \in AskCalls(kind) /\ AskInv(kind, now, call)
    BY DEF AskOk
<1> USE <1>0
<1> DEFINE new == [call EXCEPT !.at = @ - 1, !.logged = logged]
           k == call.at - 1
<1>1. k \in Nat /\ call.at = k + 1
    BY DEF AskCalls
<1>2. logged = Cardinality(Logs(call.mws, k)) /\ logged \in Nat
    <2> HIDE DEF k
    <2>1. /\ Cardinality(Logs(call.mws, k)) \in Nat
          /\ Cardinality(Logs(call.mws, k + 1)) =
               Cardinality(Logs(call.mws, k)) + (IF call.mws[k + 1] = "log" THEN 1 ELSE 0)
        BY <1>1, LogsCount
    <2> QED BY <1>1, <2>1 DEF AskInv
<1>3. new \in AskCalls(kind)
    BY <1>1, <1>2 DEF AskCalls
<1>4. /\ new.at = k /\ new.logged = logged
      /\ new.pc = call.pc /\ new.res = call.res /\ new.ran = call.ran /\ new.err = call.err
      /\ new.mws = call.mws /\ new.missed = call.missed /\ new.since = call.since
      /\ new.q = call.q /\ new.h = call.h /\ new.R = call.R /\ new.valid = call.valid
      /\ new.panic = call.panic
    BY DEF AskCalls
<1> HIDE DEF new
<1>5. AskInv(kind, now, new)
    BY <1>1, <1>2, <1>4 DEF AskInv, AskCalls
<1> QED BY <1>3, <1>5 DEF new, AskOk

LEMMA AskReturns ==
  ASSUME NEW kind \in {"command", "query"}, NEW now \in Nat,
         NEW call, AskOk(kind, now, call),
         call.pc = "out", call.at = 0, NEW panic \in BOOLEAN,
         panic => kind = "query" /\ ~call.err /\ call.res.type # call.R
  PROVE  AskOk(kind, now, [call EXCEPT !.pc = "returned", !.panic = panic])
<1>0. call \in AskCalls(kind) /\ AskInv(kind, now, call)
    BY DEF AskOk
<1> USE <1>0
<1> DEFINE new == [call EXCEPT !.pc = "returned", !.panic = panic]
<1>1. new \in AskCalls(kind)
    BY DEF AskCalls
<1>2. /\ new.pc = "returned" /\ new.panic = panic
      /\ new.at = call.at /\ new.logged = call.logged
      /\ new.res = call.res /\ new.ran = call.ran /\ new.err = call.err
      /\ new.mws = call.mws /\ new.missed = call.missed /\ new.since = call.since
      /\ new.q = call.q /\ new.h = call.h /\ new.R = call.R /\ new.valid = call.valid
    BY DEF AskCalls
<1> HIDE DEF new
<1>3. AskInv(kind, now, new)
    BY <1>2 DEF AskInv, AskCalls
<1> QED BY <1>1, <1>3 DEF new, AskOk

\* A PublishAll: it got nothing twice and in the order of the events, it is
\* through with the handlers of before for every event behind it, and of the
\* event it is at it delivered what comes before next in the list.
Entries == Topics \X Nat
Subscribers == [Topics -> Seq(Entries)]
Publishings ==
  [pc : {"publish", "deliver", "returned"}, event : 1 .. 2, list : Seq(Entries), next : Nat,
   err : BOOLEAN, got : Seq((1 .. 2) \X Entries), before : Subscribers]
InPlace(lists) == \A t \in Topics : \A i \in 1 .. Len(lists[t]) : lists[t][i][1] = t /\ lists[t][i][2] = i
Distinct(s) == \A i, j \in 1 .. Len(s) : s[i] = s[j] => i = j
OnceEach(got) == \A i, j \in 1 .. Len(got) : got[i][1] = got[j][1] /\ got[i][2] = got[j][2] => i = j
Heard(got, e, h) == \E j \in 1 .. Len(got) : got[j][1] = e /\ got[j][2] = h
Reached(call, e) ==
  \A t \in Topics : \A i \in 1 .. Len(call.before[t]) : Heard(call.got, e, call.before[t][i])
AllIn(lists, list) ==
  \A t \in Topics : \A i \in 1 .. Len(lists[t]) : \E m \in 1 .. Len(list) : list[m] = lists[t][i]
PublishInv(lists, call) ==
  /\ \A t \in Topics : Len(call.before[t]) <= Len(lists[t])
                       /\ \A i \in 1 .. Len(call.before[t]) : call.before[t][i] = lists[t][i]
  /\ OnceEach(call.got)
  /\ \A i, j \in 1 .. Len(call.got) : i < j => call.got[i][1] <= call.got[j][1]
  /\ \A i \in 1 .. Len(call.got) : call.got[i][1] <= call.event
  /\ call.pc = "publish" => \A i \in 1 .. Len(call.got) : call.got[i][1] < call.event
  /\ call.pc # "returned" => ~call.err
  /\ call.event = 2 => Reached(call, 1)
  /\ call.pc = "returned" /\ ~call.err => Reached(call, 1) /\ Reached(call, 2)
  /\ call.pc = "deliver" =>
       /\ Distinct(call.list) /\ call.next \in 1 .. Len(call.list) + 1
       /\ \A i \in 1 .. Len(call.got) : call.got[i][1] = call.event =>
             \E m \in 1 .. call.next - 1 : call.got[i][2] = call.list[m]
       /\ \A m \in 1 .. call.next - 1 : Heard(call.got, call.event, call.list[m])
       /\ AllIn(call.before, call.list)

PublishOk(lists, call) == call \in Publishings /\ PublishInv(lists, call)

Both(lists) == lists["created"] \o lists["*"]
LEMMA BothLists ==
  ASSUME NEW lists \in Subscribers, InPlace(lists), NEW list, list = Both(lists)
  PROVE  list \in Seq(Entries) /\ Distinct(list) /\ AllIn(lists, list)
<1> DEFINE a == lists["created"]
           b == lists["*"]
<1>1. a \in Seq(Entries) /\ b \in Seq(Entries)
    BY DEF Subscribers, Topics
<1> DEFINE n == Len(a)
           m == Len(b)
<1>2. /\ \A i \in 1 .. n : a[i][1] = "created" /\ a[i][2] = i
      /\ \A i \in 1 .. m : b[i][1] = "*" /\ b[i][2] = i
    BY DEF InPlace, Topics
<1> HIDE DEF a, b
<1>3. list = a \o b /\ n \in Nat /\ m \in Nat
    BY <1>1 DEF a, b, Both
<1>4. /\ list \in Seq(Entries) /\ Len(list) = n + m
      /\ \A i \in 1 .. n : list[i] = a[i]
      /\ \A i \in n + 1 .. n + m : list[i] = b[i - n]
    BY <1>1, <1>3
<1> HIDE DEF n, m
<1>5. \A i \in 1 .. m : n + i \in n + 1 .. n + m /\ n + i \in 1 .. n + m /\ (n + i) - n = i
    BY <1>3
<1>6. \A i \in 1 .. n + m : i \in 1 .. n \/ (i \in n + 1 .. n + m /\ i - n \in 1 .. m)
    BY <1>3
<1>7. \A i \in 1 .. n : i \in 1 .. n + m
    BY <1>3
<1>8. \A i \in 1 .. n + m : /\ i \in 1 .. n => list[i][1] = "created" /\ list[i][2] = i
                            /\ i \notin 1 .. n => list[i][1] = "*" /\ list[i][2] = i - n
    <2> SUFFICES ASSUME NEW i \in 1 .. n + m
                 PROVE  /\ i \in 1 .. n => list[i][1] = "created" /\ list[i][2] = i
                        /\ i \notin 1 .. n => list[i][1] = "*" /\ list[i][2] = i - n
        OBVIOUS
    <2>1. CASE i \in 1 .. n
        BY <1>2, <1>4, <2>1
    <2>2. CASE i \notin 1 .. n
        <3>1. list[i] = b[i - n] /\ i - n \in 1 .. m
            BY <1>4, <1>6, <2>2
        <3> QED BY <1>2, <2>2, <3>1
    <2> QED BY <2>1, <2>2
<1>9. Distinct(list)
    <2> SUFFICES ASSUME NEW i \in 1 .. n + m, NEW j \in 1 .. n + m, list[i] = list[j]
                 PROVE  i = j
        BY <1>4 DEF Distinct
    <2>1. "created" # "*"
        OBVIOUS
    <2>2. i \in 1 .. n <=> j \in 1 .. n
        BY <1>8, <2>1
    <2>3. i = j \/ i - n = j - n
        BY <1>8, <2>2
    <2> QED BY <1>3, <2>3
<1>10. \A i \in 1 .. n : \E k \in 1 .. Len(list) : list[k] = a[i]
    BY <1>4, <1>7
<1>11. \A i \in 1 .. m : \E k \in 1 .. Len(list) : list[k] = b[i]
    BY <1>4, <1>5
<1>12. \A t \in Topics : \A i \in 1 .. Len(lists[t]) : \E k \in 1 .. Len(list) : list[k] = lists[t][i]
    <2> SUFFICES ASSUME NEW t \in {"created", "*"}
                 PROVE  \A i \in 1 .. Len(lists[t]) : \E k \in 1 .. Len(list) : list[k] = lists[t][i]
        BY DEF Topics
    <2>1. CASE t = "created"
        BY ONLY <1>10, <2>1 DEF a, n
    <2>2. CASE t = "*"
        BY ONLY <1>11, <2>2 DEF b, m
    <2> QED BY <2>1, <2>2
<1> QED BY <1>4, <1>9, <1>12 DEF AllIn

LEMMA Publishes ==
  ASSUME NEW lists \in Subscribers, InPlace(lists),
         NEW call, PublishOk(lists, call), call.pc = "publish",
         NEW list, list = Both(lists)
  PROVE  PublishOk(lists, [call EXCEPT !.pc = "deliver", !.list = list, !.next = 1])
<1>0. call \in Publishings /\ PublishInv(lists, call)
    BY DEF PublishOk
<1> USE <1>0
<1> DEFINE new == [call EXCEPT !.pc = "deliver", !.list = list, !.next = 1]
<1>1. list \in Seq(Entries) /\ Distinct(list) /\ AllIn(lists, list)
    BY BothLists, Zenon
<1>2. new \in Publishings
    BY <1>1 DEF Publishings
<1>3. /\ new.pc = "deliver" /\ new.list = list /\ new.next = 1 /\ new.event = call.event
      /\ new.err = call.err /\ new.got = call.got /\ new.before = call.before
    BY DEF Publishings
<1> HIDE DEF new
<1>4. AllIn(call.before, list)
    <2> SUFFICES ASSUME NEW t \in Topics, NEW i \in 1 .. Len(call.before[t])
                 PROVE  \E m \in 1 .. Len(list) : list[m] = call.before[t][i]
        BY DEF AllIn
    <2>1. Len(call.before[t]) \in Nat /\ Len(lists[t]) \in Nat
        BY DEF Publishings, Subscribers
    <2>2. Len(call.before[t]) <= Len(lists[t]) /\ call.before[t][i] = lists[t][i]
        BY DEF PublishInv
    <2>3. i \in 1 .. Len(lists[t])
        BY ONLY <2>1, <2>2, i \in 1 .. Len(call.before[t])
    <2> QED BY <1>1, <2>2, <2>3 DEF AllIn
<1>5. new.next \in 1 .. Len(list) + 1 /\ \A m \in 1 .. new.next - 1 : FALSE
    <2>1. Len(list) \in Nat
        BY <1>1
    <2> QED BY ONLY <1>3, <2>1
<1>6. \A i \in 1 .. Len(call.got) : call.got[i][1] # call.event
    <2>1. call.event \in 1 .. 2 /\ call.got \in Seq((1 .. 2) \X Entries)
        BY DEF Publishings
    <2>2. \A i \in 1 .. Len(call.got) : call.got[i][1] \in 1 .. 2
        BY <2>1
    <2> QED BY <2>1, <2>2 DEF PublishInv
<1>7. \A e : Reached(call, e) => Reached(new, e)
    BY <1>3 DEF Reached
<1>8. PublishInv(lists, new)
    <2>1. \A t \in Topics : Len(new.before[t]) <= Len(lists[t])
                           /\ \A i \in 1 .. Len(new.before[t]) : new.before[t][i] = lists[t][i]
        BY <1>3, Zenon DEF PublishInv
    <2>2. /\ OnceEach(new.got)
          /\ \A i, j \in 1 .. Len(new.got) : i < j => new.got[i][1] <= new.got[j][1]
          /\ \A i \in 1 .. Len(new.got) : new.got[i][1] <= new.event
        BY <1>3, Zenon DEF PublishInv
    <2>3. ~new.err /\ (new.event = 2 => Reached(new, 1))
        BY <1>3, <1>7 DEF PublishInv
    <2>4. \A i \in 1 .. Len(new.got) : new.got[i][1] # new.event
        BY <1>3, <1>6, Zenon
    <2>6. AllIn(new.before, new.list)
        BY <1>3, <1>4
    <2>7. Distinct(new.list) /\ new.next \in 1 .. Len(new.list) + 1
          /\ \A m \in 1 .. new.next - 1 : FALSE
        BY ONLY <1>1, <1>3, <1>5
    <2>5. new.pc # "publish" /\ new.pc # "returned"
        BY <1>3
    <2> QED BY ONLY <2>1, <2>2, <2>3, <2>4, <2>5, <2>6, <2>7 DEF PublishInv
<1> QED BY <1>2, <1>8 DEF PublishOk, new

LEMMA Delivers ==
  ASSUME NEW lists \in Subscribers,
         NEW call, PublishOk(lists, call), call.pc = "deliver",
         call.next <= Len(call.list), NEW fails \in BOOLEAN, NEW place \in {"deliver", "returned"},
         place = IF fails THEN "returned" ELSE "deliver"
  PROVE  PublishOk(lists, [call EXCEPT !.got = Append(@, <<call.event, call.list[call.next]>>),
                                      !.next = @ + 1, !.err = fails, !.pc = place])
<1>0. call \in Publishings /\ PublishInv(lists, call)
    BY DEF PublishOk
<1> USE <1>0
<1> DEFINE e == call.event
           h == call.list[call.next]
           one == <<e, h>>
           got == Append(call.got, one)
           next == call.next + 1
           new == [call EXCEPT !.got = got, !.next = next, !.err = fails, !.pc = place]
           n == Len(call.got)
<1>1. call.next \in 1 .. Len(call.list) /\ call.list \in Seq(Entries) /\ e \in 1 .. 2
      /\ call.got \in Seq((1 .. 2) \X Entries) /\ n \in Nat /\ Len(call.list) \in Nat
    BY DEF Publishings, PublishInv
<1>2. next \in Nat /\ next - 1 = call.next /\ next \in 1 .. Len(call.list) + 1
    BY <1>1
<1>3. h \in Entries
    BY <1>1
<1>4. one \in (1 .. 2) \X Entries /\ one[1] = e /\ one[2] = h
    BY <1>1, <1>3
<1> HIDE DEF one
<1>5. /\ got \in Seq((1 .. 2) \X Entries) /\ Len(got) = n + 1
      /\ got[n + 1] = one /\ \A i \in 1 .. n : got[i] = call.got[i]
    BY <1>1, <1>4
<1> HIDE DEF got, next
<1>6. new \in Publishings
    BY ONLY <1>2, <1>5, call \in Publishings, fails \in BOOLEAN, place \in {"deliver", "returned"} DEF Publishings
<1>7. /\ new.pc = place /\ new.list = call.list /\ new.next = next /\ new.event = e
      /\ new.err = fails /\ new.got = got /\ new.before = call.before
    BY DEF Publishings
<1> HIDE DEF new, n
<1>8. /\ \A i \in 1 .. n + 1 : i \in 1 .. n \/ i = n + 1
      /\ \A i \in 1 .. n : i \in 1 .. n + 1
      /\ n + 1 \in 1 .. n + 1
      /\ \A i, j \in 1 .. n + 1 : i < j => i \in 1 .. n
    BY <1>1
<1>9. /\ \A m \in 1 .. next - 1 : m \in 1 .. call.next - 1 \/ m = call.next
      /\ \A m \in 1 .. call.next - 1 : m \in 1 .. next - 1 /\ m # call.next /\ m \in 1 .. Len(call.list)
      /\ call.next \in 1 .. next - 1
    <2>1. \A k, l \in Nat : k \in 1 .. l =>
            /\ \A m \in 1 .. k : m \in 1 .. k - 1 \/ m = k
            /\ \A m \in 1 .. k - 1 : m \in 1 .. k /\ m # k /\ m \in 1 .. l
            /\ k \in 1 .. k
        OBVIOUS
    <2> QED BY ONLY <1>1, <1>2, <2>1
<1>10. /\ got[n + 1][1] = e /\ got[n + 1][2] = h
       /\ \A i \in 1 .. n : got[i][1] = call.got[i][1] /\ got[i][2] = call.got[i][2]
    BY <1>4, <1>5
<1>11. \A i \in 1 .. n : call.got[i][1] = e => call.got[i][2] # h
    <2> SUFFICES ASSUME NEW i \in 1 .. n, call.got[i][1] = e
                 PROVE  call.got[i][2] # h
        OBVIOUS
    <2>1. PICK m \in 1 .. call.next - 1 : call.got[i][2] = call.list[m]
        BY DEF PublishInv, n
    <2>2. call.list[m] # h
        BY <1>1, <1>9 DEF PublishInv, Distinct
    <2> QED BY <2>1, <2>2
<1>12. OnceEach(got)
    <2>1. \A i, j \in 1 .. n : got[i][1] = got[j][1] /\ got[i][2] = got[j][2] => i = j
        BY <1>10 DEF PublishInv, OnceEach, n
    <2> QED BY <1>5, <1>8, <1>10, <1>11, <2>1 DEF OnceEach
<1>13. \A i \in 1 .. n + 1 : got[i][1] <= e
    BY <1>1, <1>8, <1>10 DEF PublishInv, n
<1>14. \A i, j \in 1 .. n + 1 : i < j => got[i][1] <= got[j][1]
    <2>1. \A i, j \in 1 .. n : i < j => got[i][1] <= got[j][1]
        BY <1>10 DEF PublishInv, n
    <2> QED BY <1>8, <1>10, <1>13, <2>1
<1>15. \A f, x : Heard(call.got, f, x) => Heard(got, f, x)
    BY <1>5, <1>8, <1>10 DEF Heard, n
<1>16. Heard(got, e, h)
    BY <1>5, <1>8, <1>10 DEF Heard
<1>17. \A f : Reached(call, f) => Reached(new, f)
    BY <1>7, <1>15 DEF Reached
<1>18. \A i \in 1 .. n + 1 : got[i][1] = e => \E m \in 1 .. next - 1 : got[i][2] = call.list[m]
    <2>1. \A i \in 1 .. n : got[i][1] = e => \E m \in 1 .. call.next - 1 : got[i][2] = call.list[m]
        BY <1>10 DEF PublishInv, n
    <2> QED BY <1>8, <1>9, <1>10, <2>1
<1>19. \A m \in 1 .. next - 1 : Heard(got, e, call.list[m])
    BY <1>9, <1>15, <1>16 DEF PublishInv
<1>20. PublishInv(lists, new)
    BY <1>2, <1>5, <1>7, <1>12, <1>13, <1>14, <1>17, <1>18, <1>19 DEF PublishInv
<1> QED BY <1>6, <1>20 DEF PublishOk, new, got, one, next

LEMMA ListDone ==
  ASSUME NEW lists \in Subscribers,
         NEW call, PublishOk(lists, call), call.pc = "deliver",
         call.next > Len(call.list), NEW place \in {"publish", "returned"},
         place = IF call.event = 2 THEN "returned" ELSE "publish"
  PROVE  PublishOk(lists, [call EXCEPT !.pc = place, !.event = 2])
<1>0. call \in Publishings /\ PublishInv(lists, call)
    BY DEF PublishOk
<1> USE <1>0
<1> DEFINE new == [call EXCEPT !.pc = place, !.event = 2]
<1>1. new \in Publishings
    <2>1. 2 \in 1 .. 2
        OBVIOUS
    <2> QED BY <2>1 DEF Publishings
<1>2. /\ new.pc = place /\ new.list = call.list /\ new.next = call.next /\ new.event = 2
      /\ new.err = call.err /\ new.got = call.got /\ new.before = call.before
    BY DEF Publishings
<1> HIDE DEF new
<1>3. call.event \in 1 .. 2 /\ Len(call.list) \in Nat /\ call.next - 1 = Len(call.list)
    BY DEF PublishInv, Publishings
<1>4. Reached(call, call.event)
    <2>1. \A m \in 1 .. Len(call.list) : Heard(call.got, call.event, call.list[m])
        BY <1>3 DEF PublishInv
    <2>2. \A t \in Topics : \A i \in 1 .. Len(call.before[t]) :
             \E m \in 1 .. Len(call.list) : call.list[m] = call.before[t][i]
        BY Zenon DEF PublishInv, AllIn
    <2> QED BY <2>1, <2>2 DEF Reached, AllIn
<1>5. \A e : Reached(call, e) => Reached(new, e)
    BY <1>2 DEF Reached
<1>6. \A i \in 1 .. Len(call.got) : call.got[i][1] <= 2 /\ (call.event # 2 => call.got[i][1] < 2)
    <2>1. \A i \in 1 .. Len(call.got) : call.got[i][1] \in 1 .. 2
        <3>1. call.got \in Seq((1 .. 2) \X Entries)
            BY DEF Publishings
        <3> QED BY <3>1
    <2>2. \A i \in 1 .. Len(call.got) : call.got[i][1] <= call.event
        BY DEF PublishInv
    <2> QED BY <1>3, <2>1, <2>2
<1>7. PublishInv(lists, new)
    BY <1>2, <1>3, <1>4, <1>5, <1>6 DEF PublishInv
<1> QED BY <1>1, <1>7 DEF PublishOk, new

CallInv(kind, now, lists, call) ==
  call # NoCall => IF kind = "event" THEN PublishOk(lists, call) ELSE AskOk(kind, now, call)
\* What is known by number: the handlers that calls copied, and their answers.
CallNamed(types, last, call) ==
  call # NoCall => /\ Known(types, last, call.h)
                   /\ call.res \in Answers => Known(types, last, call.res)
Named(types) ==
  /\ Known(types, handler.no, handler)
  /\ \A q \in DOMAIN cached : Known(types, handler.no, cached[q])
  /\ busKind # "event" => \A c \in Callers : CallNamed(types, handler.no, busCall[c])
Registries == [Nat -> ResultTypes \cup {"none"}]

BusTypes ==
  /\ busKind \in {"command", "query", "event"} /\ handler \in Handlers
  /\ middleware \in Seq(MiddlewareOf(busKind)) /\ fact \in Nat
  /\ subscribed \in Subscribers /\ InPlace(subscribed)
CachedInv == \A k \in DOMAIN cached : cached[k] \in Answers /\ QueryKey(cached[k].of) = k
CallsInv ==
  /\ busCall \in [Callers -> AskCalls(busKind) \cup Publishings \cup {NoCall}]
  /\ \A c \in Callers : CallInv(busKind, fact, subscribed, busCall[c])
BusInv == BusTypes /\ CachedInv /\ CallsInv /\ \E types \in Registries : Named(types)

LEMMA BusStarts == BusInit => BusInv
<1> SUFFICES ASSUME BusInit PROVE BusInv
    OBVIOUS
<1>1. BusTypes /\ CachedInv
    BY DEF BusInit, BusTypes, CachedInv, Handlers, NoHandler, Subscribers, InPlace, Topics
<1>2. CallsInv
    BY DEF BusInit, CallsInv, CallInv
<1>3. [n \in Nat |-> "none"] \in Registries /\ Named([n \in Nat |-> "none"])
    <2>1. Known([n \in Nat |-> "none"], handler.no, handler)
        BY DEF BusInit, NoHandler, Known
    <2>2. DOMAIN cached = {}
        BY DEF BusInit
    <2>3. \A c \in Callers : busCall[c] = NoCall
        BY DEF BusInit
    <2> QED BY <2>1, <2>2, <2>3 DEF Named, CallNamed, Registries
<1> QED BY <1>1, <1>2, <1>3 DEF BusInv

\* A step of one call leaves the rest of the bus; a result it caches is
\* kept under the text of its query.
LEMMA AskStep ==
  ASSUME BusInv, busKind # "event", NEW c \in Callers,
         NEW new, AskOk(busKind, fact, new),
         UNCHANGED <<busKind, handler, middleware, fact, subscribed>>,
         busCall' = [busCall EXCEPT ![c] = new],
         \A types \in Registries : Named(types) => CallNamed(types, handler.no, new),
         \A k \in DOMAIN cached' :
           \/ k \in DOMAIN cached /\ cached'[k] = cached[k]
           \/ cached'[k] = new.res /\ new.res \in Answers /\ QueryKey(new.res.of) = k
  PROVE  BusInv'
<1>1. BusTypes'
    BY DEF BusInv, BusTypes
<1>2. CachedInv'
    BY DEF BusInv, CachedInv
<1>3. CallsInv'
    BY DEF BusInv, CallsInv, CallInv, AskOk, PublishOk
<1>4. PICK types \in Registries : Named(types)
    BY DEF BusInv
<1>5. \A d \in Callers : CallNamed(types, handler.no, busCall'[d])
    BY <1>4 DEF Named, BusInv, CallsInv
<1>6. \A q \in DOMAIN cached' : Known(types, handler.no, cached'[q])
    <2>1. new # NoCall
        BY DEF AskCalls, NoCall, AskOk
    <2> QED BY <1>4, <2>1 DEF Named, CallNamed
<1>7. Named(types)'
    BY <1>4, <1>5, <1>6 DEF Named
<1> QED BY <1>1, <1>2, <1>3, <1>4, <1>7 DEF BusInv

\* So does a step of a PublishAll.
LEMMA PublishStep ==
  ASSUME BusInv, busKind = "event", NEW c \in Callers,
         NEW new, PublishOk(subscribed, new),
         UNCHANGED <<busKind, handler, middleware, fact, subscribed, cached>>,
         busCall' = [busCall EXCEPT ![c] = new]
  PROVE  BusInv'
<1>1. BusTypes' /\ CachedInv'
    BY DEF BusInv, BusTypes, CachedInv
<1>2. CallsInv'
    BY DEF BusInv, CallsInv, CallInv, AskOk, PublishOk
<1>3. \A types \in Registries : Named(types) => Named(types)'
    BY DEF Named
<1> QED BY <1>1, <1>2, <1>3 DEF BusInv

\* The places of a call tell what it is.
LEMMA CallAt ==
  ASSUME BusInv, NEW c \in Callers
  PROVE  /\ busCall[c].pc \in {"in", "out"} => /\ busKind \in {"command", "query"}
                                               /\ AskOk(busKind, fact, busCall[c])
                                               /\ busCall[c] # NoCall
         /\ busCall[c].pc \in {"publish", "deliver"} => /\ busKind = "event"
                                                        /\ PublishOk(subscribed, busCall[c])
         /\ busCall[c].pc = "returned" =>
              /\ busKind # "event" => AskOk(busKind, fact, busCall[c])
              /\ busKind = "event" => PublishOk(subscribed, busCall[c])
              /\ busCall[c] # NoCall
<1>1. NoCall.pc = "idle"
    BY DEF NoCall
<1>2. CallInv(busKind, fact, subscribed, busCall[c]) /\ busKind \in {"command", "query", "event"}
    BY DEF BusInv, CallsInv, BusTypes
<1>3. /\ \A call \in Publishings : call.pc \in {"publish", "deliver", "returned"}
      /\ \A call \in AskCalls(busKind) : call.pc \in {"in", "out", "returned"}
    BY DEF Publishings, AskCalls
<1> QED BY <1>1, <1>2, <1>3 DEF CallInv, AskOk, PublishOk

\* The registry, the middleware, the lists and the facts change beside the calls.
LEMMA Registers ==
  ASSUME BusInv, NEW type \in ResultTypes, RegisterHandler(type)
  PROVE  BusInv'
<1>1. /\ handler' = [type |-> type, no |-> handler.no + 1] /\ busKind # "event"
      /\ UNCHANGED <<busKind, middleware, fact, cached, subscribed, busCall>>
      /\ handler.no \in Nat
    BY DEF RegisterHandler, BusInv, BusTypes, Handlers
<1>2. BusTypes' /\ CachedInv' /\ CallsInv'
    BY <1>1 DEF BusInv, BusTypes, CachedInv, CallsInv, Handlers
<1>3. PICK types \in Registries : Named(types)
    BY DEF BusInv
<1>4. PICK new \in Registries : new = [types EXCEPT ![handler.no + 1] = type]
    BY <1>1 DEF Registries
<1>5. ASSUME NEW x, x.no \in Nat, Known(types, handler.no, x)
      PROVE  Known(new, handler'.no, x)
    BY <1>1, <1>4, <1>5 DEF Known, Registries
<1>6. Known(new, handler'.no, handler')
    BY <1>1, <1>4 DEF Known, Registries
<1>7. \A q \in DOMAIN cached : Known(new, handler'.no, cached[q])
    BY <1>3, <1>5 DEF Named, BusInv, CachedInv, Answers
<1>8. \A c \in Callers : CallNamed(new, handler'.no, busCall[c])
    <2> SUFFICES ASSUME NEW c \in Callers, busCall[c] # NoCall
                 PROVE  /\ Known(new, handler'.no, busCall[c].h)
                        /\ busCall[c].res \in Answers => Known(new, handler'.no, busCall[c].res)
        BY DEF CallNamed
    <2>1. busCall[c].h.no \in Nat
        BY <1>1 DEF BusInv, CallsInv, CallInv, AskOk, AskCalls, Handlers
    <2>2. \A res \in Answers : res.no \in Nat
        BY DEF Answers
    <2> QED BY <1>1, <1>3, <1>5, <2>1, <2>2 DEF Named, CallNamed
<1>9. Named(new)'
    BY <1>1, <1>6, <1>7, <1>8 DEF Named
<1> QED BY <1>2, <1>9 DEF BusInv

LEMMA Uses ==
  ASSUME BusInv, NEW mw \in {"log", "validate", "cache"}, UseMiddleware(mw)
  PROVE  BusInv'
<1>1. mw \in MiddlewareOf(busKind) /\ middleware' = Append(middleware, mw)
      /\ UNCHANGED <<busKind, handler, fact, cached, subscribed, busCall>>
    BY DEF UseMiddleware, MiddlewareOf
<1>2. BusTypes' /\ CachedInv' /\ CallsInv'
    BY <1>1 DEF BusInv, BusTypes, CachedInv, CallsInv
<1>3. \A types \in Registries : Named(types) => Named(types)'
    BY <1>1 DEF Named
<1> QED BY <1>2, <1>3 DEF BusInv

LEMMA Subscribes ==
  ASSUME BusInv, NEW t \in Topics, SubscribeTo(t)
  PROVE  BusInv'
<1>1. subscribed \in Subscribers /\ InPlace(subscribed)
    BY DEF BusInv, BusTypes
<1>2. PICK old : old = subscribed[t]
    OBVIOUS
<1>3. PICK n \in Nat : n = Len(old)
    BY <1>1, <1>2 DEF Subscribers
<1>4. PICK one : one = <<t, n + 1>>
    OBVIOUS
<1>5. one \in Entries /\ one[1] = t /\ one[2] = n + 1 /\ old \in Seq(Entries)
    BY <1>1, <1>2, <1>4 DEF Entries, Subscribers
<1>6. /\ subscribed' = [subscribed EXCEPT ![t] = Append(old, one)] /\ busKind = "event"
      /\ UNCHANGED <<busKind, handler, middleware, fact, cached, busCall>>
    BY <1>2, <1>3, <1>4 DEF SubscribeTo
<1>7. PICK new : new = Append(old, one)
    OBVIOUS
<1>8. /\ new \in Seq(Entries) /\ Len(new) = n + 1 /\ new[n + 1] = one
      /\ \A i \in 1 .. n : new[i] = old[i]
    BY <1>3, <1>5, <1>7
<1>9. /\ subscribed' \in Subscribers /\ subscribed'[t] = new
      /\ \A u \in Topics : u # t => subscribed'[u] = subscribed[u]
    BY <1>1, <1>6, <1>7, <1>8 DEF Subscribers
<1>10. \A i \in 1 .. n + 1 : i \in 1 .. n \/ i = n + 1
    OBVIOUS
<1>11. ASSUME NEW u \in Topics
       PROVE  \A i \in 1 .. Len(subscribed'[u]) : subscribed'[u][i][1] = u /\ subscribed'[u][i][2] = i
    <2>1. CASE u = t
        <3>1. \A i \in 1 .. n : new[i][1] = t /\ new[i][2] = i
            BY <1>1, <1>2, <1>3, <1>8 DEF InPlace
        <3> QED BY <1>5, <1>8, <1>9, <1>10, <2>1, <3>1
    <2>2. CASE u # t
        BY <1>1, <1>9, <2>2 DEF InPlace
    <2> QED BY <2>1, <2>2
<1>12. BusTypes' /\ CachedInv'
    BY <1>6, <1>9, <1>11 DEF BusInv, BusTypes, CachedInv, InPlace
<1>13. ASSUME NEW c \in Callers, busCall[c] # NoCall
       PROVE  PublishOk(subscribed', busCall[c])
    <2>1. PICK call : call = busCall[c]
        OBVIOUS
    <2>2. call \in Publishings /\ PublishInv(subscribed, call)
        BY <1>6, <1>13, <2>1 DEF BusInv, CallsInv, CallInv, PublishOk
    <2>3. ASSUME NEW u \in Topics
          PROVE  /\ Len(call.before[u]) <= Len(subscribed'[u])
                 /\ \A i \in 1 .. Len(call.before[u]) : call.before[u][i] = subscribed'[u][i]
        <3>1. /\ Len(call.before[u]) <= Len(subscribed[u])
              /\ \A i \in 1 .. Len(call.before[u]) : call.before[u][i] = subscribed[u][i]
            BY <2>2 DEF PublishInv
        <3>2. CASE u = t
            <4>1. PICK m \in Nat : m = Len(call.before[t])
                BY <2>2 DEF Publishings, Subscribers
            <4>2. m <= n /\ \A i \in 1 .. m : call.before[t][i] = old[i]
                BY <1>2, <1>3, <3>1, <3>2, <4>1
            <4>3. m <= n + 1 /\ \A i \in 1 .. m : i \in 1 .. n
                BY <4>2
            <4>4. \A i \in 1 .. m : call.before[t][i] = new[i]
                BY <1>8, <4>2, <4>3
            <4> QED BY <1>8, <1>9, <3>2, <4>1, <4>3, <4>4
        <3> QED BY <1>9, <3>1, <3>2
    <2> QED BY <2>1, <2>2, <2>3 DEF PublishInv, PublishOk
<1>14. CallsInv'
    BY <1>6, <1>13 DEF BusInv, CallsInv, CallInv
<1>15. \A types \in Registries : Named(types) => Named(types)'
    BY <1>6 DEF Named
<1> QED BY <1>12, <1>14, <1>15 DEF BusInv

LEMMA FactsChange ==
  ASSUME BusInv, NewFact
  PROVE  BusInv'
<1>1. fact' = fact + 1 /\ UNCHANGED <<busKind, handler, middleware, cached, subscribed, busCall>>
      /\ fact \in Nat
    BY DEF NewFact, BusInv, BusTypes
<1>2. BusTypes' /\ CachedInv'
    BY <1>1 DEF BusInv, BusTypes, CachedInv
<1>3. \A call \in AskCalls(busKind) : AskInv(busKind, fact, call) => AskInv(busKind, fact + 1, call)
    <2> SUFFICES ASSUME NEW call \in AskCalls(busKind), AskInv(busKind, fact, call)
                 PROVE  AskInv(busKind, fact + 1, call)
        OBVIOUS
    <2>1. call.since <= fact + 1
        <3>1. call.since \in Nat /\ call.since <= fact
            BY DEF AskCalls, AskInv
        <3> QED BY ONLY <1>1, <3>1
    <2> QED BY <2>1 DEF AskInv
<1>4. CallsInv'
    BY <1>1, <1>3 DEF BusInv, CallsInv, CallInv, AskOk
<1>5. \A types \in Registries : Named(types) => Named(types)'
    BY <1>1 DEF Named
<1> QED BY <1>2, <1>4, <1>5 DEF BusInv

\* Dispatch and Ask.
LEMMA Dispatches ==
  ASSUME BusInv, NEW c \in Callers, NEW q \in Asked, NEW R \in ResultTypes, NEW valid \in BOOLEAN,
         Dispatch(c, q, R, valid)
  PROVE  BusInv'
<1> DEFINE new == [pc |-> IF handler.type = R THEN "in" ELSE "returned",
                   q |-> q, R |-> R, valid |-> valid, h |-> handler, mws |-> middleware, at |-> 0,
                   missed |-> {}, ran |-> 0, logged |-> 0, res |-> NoResult,
                   err |-> handler.type # R, panic |-> FALSE, since |-> fact]
<1>1. /\ busCall' = [busCall EXCEPT ![c] = new] /\ busKind # "event"
      /\ UNCHANGED <<busKind, handler, middleware, fact, cached, subscribed>>
    BY DEF Dispatch, NewCall, Put
<1>2. handler \in Handlers /\ middleware \in Seq(MiddlewareOf(busKind)) /\ fact \in Nat
    BY DEF BusInv, BusTypes
<1>3. new \in AskCalls(busKind)
    BY <1>2 DEF AskCalls
<1>4. /\ new.pc = (IF handler.type = R THEN "in" ELSE "returned") /\ new.R = R /\ new.h = handler
      /\ new.mws = middleware /\ new.at = 0 /\ new.missed = {} /\ new.ran = 0 /\ new.logged = 0
      /\ new.res = NoResult /\ new.err = (handler.type # R) /\ new.panic = FALSE /\ new.since = fact
    OBVIOUS
<1> HIDE DEF new
<1>5. Cardinality(Logs(middleware, 0)) = 0 /\ Len(middleware) \in Nat /\ \A k \in 1 .. 0 : FALSE
    BY <1>2, LogsCount
<1>6. AskInv(busKind, fact, new)
    <2>1. new.at <= Len(new.mws) /\ new.since <= fact /\ new.logged = Cardinality(Logs(new.mws, new.at))
        BY <1>2, <1>4, <1>5
    <2>2. new.missed \subseteq {k \in 1 .. Len(new.mws) : new.mws[k] = "cache"}
        BY <1>4
    <2>3. \A k \in 1 .. new.at : FALSE
        BY <1>4, <1>5
    <2>4. new.err = FALSE => new.pc = "in"
        BY <1>4
    <2>5. (new.h.type # new.R => new.pc = "returned" /\ new.err) /\ (new.pc = "in" => ~new.err)
          /\ (new.pc # "in" => new.err)
        BY <1>4
    <2> QED BY <1>4, <2>1, <2>2, <2>3, <2>5 DEF AskInv
<1>7. NoResult \notin Answers
    BY Zenon DEF NoResult, Answers, ResultTypes
<1>8. \A types \in Registries : Named(types) => CallNamed(types, handler.no, new)
    BY <1>4, <1>7 DEF Named, CallNamed
<1>9. AskOk(busKind, fact, new)
    BY <1>3, <1>6 DEF AskOk
<1> QED BY <1>1, <1>8, <1>9, AskStep

LEMMA Enters ==
  ASSUME BusInv, NEW c \in Callers, Enter(c)
  PROVE  BusInv'
<1>1. PICK call : call = busCall[c]
    OBVIOUS
<1>2. PICK k : k = call.at + 1
    OBVIOUS
<1>3. /\ busKind \in {"command", "query"} /\ AskOk(busKind, fact, call) /\ call # NoCall
      /\ call.pc = "in" /\ call.at < Len(call.mws) /\ fact \in Nat
      /\ UNCHANGED <<busKind, handler, middleware, fact, cached, subscribed>>
    BY <1>1, CallAt DEF Enter, BusInv, BusTypes
<1>4. ASSUME NEW new, AskOk(busKind, fact, new), Put(c, new), new.h = call.h,
             new.res = call.res \/ (\E q \in DOMAIN cached : new.res = cached[q])
      PROVE  BusInv'
    <2>1. \A types \in Registries : Named(types) => CallNamed(types, handler.no, new)
        BY <1>1, <1>3, <1>4 DEF Named, CallNamed
    <2> QED BY <1>3, <1>4, <2>1, AskStep DEF Put
<1>5. /\ call \in AskCalls(busKind)
      /\ k \in DOMAIN call.mws /\ call.mws[k] \in {"log", "validate", "cache"}
    <2>1. call \in AskCalls(busKind) /\ call.at \in Nat /\ call.mws \in Seq(MiddlewareOf(busKind))
        BY <1>3 DEF AskCalls, AskOk
    <2>2. k \in DOMAIN call.mws /\ call.mws[k] \in MiddlewareOf(busKind)
        BY <1>2, <1>3, <2>1
    <2> QED BY <1>3, <2>1, <2>2 DEF MiddlewareOf
<1>6. CASE call.mws[k] = "log"
    <2>1. PICK new : new = [call EXCEPT !.at = k, !.logged = @ + 1]
        OBVIOUS
    <2>2. AskOk(busKind, fact, new)
        BY ONLY <1>2, <1>3, <1>6, <2>1, AskEnters, Zenon
    <2>3. new.h = call.h /\ new.res = call.res
        BY <1>5, <2>1 DEF AskCalls
    <2>4. Put(c, new)
        BY <1>1, <1>2, <1>6, <2>1 DEF Enter
    <2> QED BY <1>4, <2>2, <2>3, <2>4
<1>7. CASE call.mws[k] = "validate" /\ call.valid
    <2>1. PICK new : new = [call EXCEPT !.at = k]
        OBVIOUS
    <2>2. AskOk(busKind, fact, new)
        BY ONLY <1>2, <1>3, <1>7, <2>1, AskEnters, Zenon
    <2>3. new.h = call.h /\ new.res = call.res
        BY <1>5, <2>1 DEF AskCalls
    <2>4. Put(c, new)
        BY <1>1, <1>2, <1>7, <2>1 DEF Enter
    <2> QED BY <1>4, <2>2, <2>3, <2>4
<1>8. CASE call.mws[k] = "validate" /\ ~call.valid
    <2>1. PICK new : new = [call EXCEPT !.pc = "out", !.err = TRUE]
        OBVIOUS
    <2>2. AskOk(busKind, fact, new)
        BY ONLY <1>2, <1>3, <1>8, <2>1, AskEnters, Zenon
    <2>3. new.h = call.h /\ new.res = call.res
        BY <1>5, <2>1 DEF AskCalls
    <2>4. Put(c, new)
        BY <1>1, <1>2, <1>8, <2>1 DEF Enter
    <2> QED BY <1>4, <2>2, <2>3, <2>4
<1>9. CASE call.mws[k] = "cache" /\ QueryKey(call.q) \in DOMAIN cached
    <2>1. PICK res : res = cached[QueryKey(call.q)]
        OBVIOUS
    <2>2. PICK new : new = [call EXCEPT !.pc = "out", !.res = res]
        OBVIOUS
    <2>3. res \in Answers /\ QueryKey(res.of) = QueryKey(call.q)
        BY <1>9, <2>1 DEF BusInv, CachedInv
    <2>4. AskOk(busKind, fact, new)
        BY ONLY <1>3, <1>5, <1>9, <2>2, <2>3, AskHits, Zenon
    <2>5. new.h = call.h /\ new.res = cached[QueryKey(call.q)]
        BY <1>5, <2>1, <2>2 DEF AskCalls
    <2>6. Put(c, new)
        BY <1>1, <1>2, <1>9, <2>1, <2>2 DEF Enter
    <2> QED BY <1>4, <1>9, <2>4, <2>5, <2>6
<1>10. CASE call.mws[k] = "cache" /\ QueryKey(call.q) \notin DOMAIN cached
    <2>1. PICK new : new = [call EXCEPT !.at = k, !.missed = @ \cup {k}]
        OBVIOUS
    <2>2. AskOk(busKind, fact, new)
        BY ONLY <1>2, <1>3, <1>10, <2>1, AskEnters, Zenon
    <2>3. new.h = call.h /\ new.res = call.res
        BY <1>5, <2>1 DEF AskCalls
    <2>4. Put(c, new)
        BY <1>1, <1>2, <1>10, <2>1 DEF Enter
    <2> QED BY <1>4, <2>2, <2>3, <2>4
<1> QED BY <1>5, <1>6, <1>7, <1>8, <1>9, <1>10

LEMMA Handles ==
  ASSUME BusInv, NEW c \in Callers, NEW fails \in BOOLEAN, Handle(c, fails)
  PROVE  BusInv'
<1>1. PICK call : call = busCall[c]
    OBVIOUS
<1>2. /\ busKind \in {"command", "query"} /\ AskOk(busKind, fact, call) /\ call # NoCall
      /\ call.pc = "in" /\ call.at = Len(call.mws) /\ fact \in Nat
      /\ UNCHANGED <<busKind, handler, middleware, fact, cached, subscribed>>
    BY <1>1, CallAt DEF Handle, BusInv, BusTypes
<1>3. PICK res : res = IF fails THEN NoResult
                       ELSE [type |-> call.h.type, of |-> call.q, no |-> call.h.no, fact |-> fact]
    OBVIOUS
<1>4. PICK new : new = [call EXCEPT !.pc = "out", !.ran = @ + 1, !.err = fails, !.res = res]
    OBVIOUS
<1>5. IF fails THEN res = NoResult
      ELSE res = [type |-> call.h.type, of |-> call.q, no |-> call.h.no, fact |-> fact]
    BY <1>3
<1>6. AskOk(busKind, fact, new)
    BY ONLY <1>2, <1>4, <1>5, fails \in BOOLEAN, AskHandles, Zenon
<1>7. new.h = call.h /\ new.res = res
    BY <1>2, <1>4 DEF AskCalls, AskOk
<1>8. Put(c, new)
    BY <1>1, <1>3, <1>4 DEF Handle
<1>9. res \in Answers => res.type = call.h.type /\ res.no = call.h.no
    <2>1. NoResult \notin Answers
        BY Zenon DEF NoResult, Answers, ResultTypes
    <2> QED BY <1>5, <2>1
<1>10. \A types \in Registries : Named(types) => CallNamed(types, handler.no, new)
    BY <1>1, <1>2, <1>7, <1>9 DEF Named, CallNamed, Known
<1> QED BY <1>2, <1>6, <1>8, <1>10, AskStep DEF Put

LEMMA Leaves ==
  ASSUME BusInv, NEW c \in Callers, Leave(c)
  PROVE  BusInv'
<1>1. PICK call : call = busCall[c]
    OBVIOUS
<1>2. /\ busKind \in {"command", "query"} /\ AskOk(busKind, fact, call) /\ call # NoCall
      /\ call.pc = "out" /\ call.at > 0 /\ fact \in Nat
      /\ UNCHANGED <<busKind, handler, middleware, fact, subscribed>>
    BY <1>1, CallAt DEF Leave, BusInv, BusTypes
<1>3. PICK logged : logged = IF call.mws[call.at] = "log" THEN call.logged - 1 ELSE call.logged
    OBVIOUS
<1>4. PICK new : new = [call EXCEPT !.at = @ - 1, !.logged = logged]
    OBVIOUS
<1>5. AskOk(busKind, fact, new)
    BY ONLY <1>2, <1>3, <1>4, AskLeaves, Zenon
<1>6. call \in AskCalls(busKind) /\ AskInv(busKind, fact, call)
    BY <1>2 DEF AskOk
<1>7. new.h = call.h /\ new.res = call.res
    BY <1>4, <1>6 DEF AskCalls
<1>8. Put(c, new)
    BY <1>1, <1>3, <1>4 DEF Leave
<1>9. ASSUME CacheSet(call)
      PROVE  call.res \in Answers /\ QueryKey(call.res.of) = QueryKey(call.q)
    <2>1. call.mws[call.at] = "cache" /\ ~call.err /\ call.mws[call.at] \in MiddlewareOf(busKind)
        BY <1>6, <1>9 DEF CacheSet, AskInv, AskCalls
    <2>2. busKind = "query"
        BY <1>2, <2>1 DEF MiddlewareOf
    <2> QED BY <1>2, <1>6, <2>1, <2>2 DEF AskInv
<1>10. cached' = IF CacheSet(call)
                 THEN [k \in DOMAIN cached \cup {QueryKey(call.q)} |->
                         IF k = QueryKey(call.q) THEN call.res ELSE cached[k]]
                 ELSE cached
    BY <1>1 DEF Leave
<1>11. \A k \in DOMAIN cached' :
          \/ k \in DOMAIN cached /\ cached'[k] = cached[k]
          \/ cached'[k] = new.res /\ new.res \in Answers /\ QueryKey(new.res.of) = k
    <2>1. CASE CacheSet(call)
        BY <1>7, <1>9, <1>10, <2>1
    <2>2. CASE ~CacheSet(call)
        BY <1>10, <2>2
    <2> QED BY <2>1, <2>2
<1>12. \A types \in Registries : Named(types) => CallNamed(types, handler.no, new)
    BY <1>1, <1>2, <1>7 DEF Named, CallNamed
<1> QED BY <1>2, <1>5, <1>8, <1>11, <1>12, AskStep DEF Put

LEMMA Returns ==
  ASSUME BusInv, NEW c \in Callers, Result(c)
  PROVE  BusInv'
<1>1. PICK call : call = busCall[c]
    OBVIOUS
<1>2. /\ busKind \in {"command", "query"} /\ AskOk(busKind, fact, call) /\ call # NoCall
      /\ call.pc = "out" /\ call.at = 0 /\ fact \in Nat
      /\ UNCHANGED <<busKind, handler, middleware, fact, cached, subscribed>>
    BY <1>1, CallAt DEF Result, BusInv, BusTypes
<1>3. PICK panic \in BOOLEAN : panic = (busKind = "query" /\ ~call.err /\ call.res.type # call.R)
    OBVIOUS
<1>4. PICK new : new = [call EXCEPT !.pc = "returned", !.panic = panic]
    OBVIOUS
<1>5. AskOk(busKind, fact, new)
    BY ONLY <1>2, <1>3, <1>4, AskReturns, Zenon
<1>6. new.h = call.h /\ new.res = call.res
    BY <1>2, <1>4 DEF AskCalls, AskOk
<1>7. Put(c, new)
    BY <1>1, <1>3, <1>4 DEF Result
<1>8. \A types \in Registries : Named(types) => CallNamed(types, handler.no, new)
    BY <1>1, <1>2, <1>6 DEF Named, CallNamed
<1> QED BY <1>2, <1>5, <1>7, <1>8, AskStep DEF Put

\* The steps of a PublishAll.
LEMMA PublishAlls ==
  ASSUME BusInv, NEW c \in Callers, PublishAll(c)
  PROVE  BusInv'
<1>1. PICK new : new = [pc |-> "publish", event |-> 1, list |-> <<>>, next |-> 0, err |-> FALSE,
                        got |-> <<>>, before |-> subscribed]
    OBVIOUS
<1>2. /\ busCall' = [busCall EXCEPT ![c] = new] /\ busKind = "event" /\ subscribed \in Subscribers
      /\ UNCHANGED <<busKind, handler, middleware, fact, cached, subscribed>>
    BY <1>1 DEF PublishAll, NewCall, Put, BusInv, BusTypes
<1>3. new \in Publishings
    BY <1>1, <1>2 DEF Publishings
<1>4. /\ new.pc = "publish" /\ new.event = 1 /\ new.got = <<>> /\ ~new.err
      /\ new.before = subscribed
    BY <1>1
<1>5. \A i \in 1 .. Len(new.got) : FALSE
    BY <1>4
<1>6. \A t \in Topics : Len(subscribed[t]) \in Nat
    BY <1>2 DEF Subscribers
<1>7. PublishInv(subscribed, new)
    BY <1>4, <1>5, <1>6 DEF PublishInv, OnceEach
<1>8. PublishOk(subscribed, new)
    BY <1>3, <1>7 DEF PublishOk
<1> QED BY <1>2, <1>8, PublishStep

LEMMA PublishesOne ==
  ASSUME BusInv, NEW c \in Callers, Publish(c)
  PROVE  BusInv'
<1>1. PICK call : call = busCall[c]
    OBVIOUS
<1>2. /\ busKind = "event" /\ PublishOk(subscribed, call) /\ call.pc = "publish"
      /\ subscribed \in Subscribers /\ InPlace(subscribed)
      /\ UNCHANGED <<busKind, handler, middleware, fact, cached, subscribed>>
    BY <1>1, CallAt DEF Publish, BusInv, BusTypes
<1>3. PICK list : list = Both(subscribed)
    OBVIOUS
<1>4. PICK new : new = [call EXCEPT !.pc = "deliver", !.list = list, !.next = 1]
    OBVIOUS
<1>5. PublishOk(subscribed, new)
    BY ONLY <1>2, <1>3, <1>4, Publishes, Zenon
<1>6. busCall' = [busCall EXCEPT ![c] = new]
    BY <1>1, <1>3, <1>4 DEF Publish, Put, Both
<1> QED BY <1>2, <1>5, <1>6, PublishStep

LEMMA DeliversOne ==
  ASSUME BusInv, NEW c \in Callers, NEW fails \in BOOLEAN, Deliver(c, fails)
  PROVE  BusInv'
<1>1. PICK call : call = busCall[c]
    OBVIOUS
<1>2. /\ busKind = "event" /\ PublishOk(subscribed, call) /\ call.pc = "deliver"
      /\ call.next <= Len(call.list) /\ subscribed \in Subscribers
      /\ UNCHANGED <<busKind, handler, middleware, fact, cached, subscribed>>
    BY <1>1, CallAt DEF Deliver, BusInv, BusTypes
<1>3. PICK place \in {"deliver", "returned"} : place = IF fails THEN "returned" ELSE "deliver"
    OBVIOUS
<1>4. PICK new : new = [call EXCEPT !.got = Append(@, <<call.event, call.list[call.next]>>),
                                    !.next = @ + 1, !.err = fails, !.pc = place]
    OBVIOUS
<1>5. PublishOk(subscribed, new)
    BY ONLY <1>2, <1>3, <1>4, fails \in BOOLEAN, Delivers, Zenon
<1>6. busCall' = [busCall EXCEPT ![c] = new]
    BY <1>1, <1>2, <1>3, <1>4 DEF Deliver, Put
<1> QED BY <1>2, <1>5, <1>6, PublishStep

LEMMA DeliversAll ==
  ASSUME BusInv, NEW c \in Callers, Delivered(c)
  PROVE  BusInv'
<1>1. PICK call : call = busCall[c]
    OBVIOUS
<1>2. /\ busKind = "event" /\ PublishOk(subscribed, call) /\ call.pc = "deliver"
      /\ call.next > Len(call.list) /\ subscribed \in Subscribers
      /\ UNCHANGED <<busKind, handler, middleware, fact, cached, subscribed>>
    BY <1>1, CallAt DEF Delivered, BusInv, BusTypes
<1>3. PICK place \in {"publish", "returned"} : place = IF call.event = 2 THEN "returned" ELSE "publish"
    OBVIOUS
<1>4. PICK new : new = [call EXCEPT !.pc = place, !.event = 2]
    OBVIOUS
<1>5. PublishOk(subscribed, new)
    BY ONLY <1>2, <1>3, <1>4, ListDone, Zenon
<1>6. busCall' = [busCall EXCEPT ![c] = new]
    BY <1>1, <1>3, <1>4 DEF Delivered, Put
<1> QED BY <1>2, <1>5, <1>6, PublishStep

LEMMA BusSteps == BusInv /\ [BusNext]_busVars => BusInv'
<1> SUFFICES ASSUME BusInv, [BusNext]_busVars
             PROVE  BusInv'
    OBVIOUS
<1>1. CASE UNCHANGED busVars
    BY <1>1 DEF BusInv, BusTypes, CachedInv, CallsInv, Named, busVars
<1>2. ASSUME NEW type \in {"A", "B"}, RegisterHandler(type) PROVE BusInv'
    BY <1>2, Registers DEF ResultTypes
<1>3. ASSUME NEW mw \in {"log", "validate", "cache"}, UseMiddleware(mw) PROVE BusInv'
    BY <1>3, Uses
<1>4. ASSUME NEW t \in Topics, SubscribeTo(t) PROVE BusInv'
    BY <1>4, Subscribes
<1>5. CASE NewFact
    BY <1>5, FactsChange
<1>6. ASSUME NEW c \in Callers, NEW q \in BusQueries \cup {Do}, NEW R \in {"A", "B"},
             NEW valid \in BOOLEAN, Dispatch(c, q, R, valid)
      PROVE  BusInv'
    BY <1>6, Dispatches DEF Asked, ResultTypes
<1>7. ASSUME NEW c \in Callers, Enter(c) \/ Leave(c) \/ Result(c) PROVE BusInv'
    BY <1>7, Enters, Leaves, Returns
<1>8. ASSUME NEW c \in Callers, PublishAll(c) \/ Publish(c) \/ Delivered(c) PROVE BusInv'
    BY <1>8, PublishAlls, PublishesOne, DeliversAll
<1>9. ASSUME NEW c \in Callers, NEW fails \in BOOLEAN, Handle(c, fails) \/ Deliver(c, fails)
      PROVE  BusInv'
    BY <1>9, Handles, DeliversOne
<1> QED BY <1>1, <1>2, <1>3, <1>4, <1>5, <1>6, <1>7, <1>8, <1>9 DEF BusNext

\* What was heard once counts once.
LEMMA HeardTimes ==
  ASSUME NEW call \in Publishings, OnceEach(call.got), NEW e, NEW h
  PROVE  Times(call, e, h) <= 1 /\ (Heard(call.got, e, h) => Times(call, e, h) = 1)
<1> DEFINE n == Len(call.got)
           at == {i \in DOMAIN call.got : call.got[i] = <<e, h>>}
<1>1. n \in Nat /\ DOMAIN call.got = 1 .. n /\ call.got \in Seq((1 .. 2) \X Entries)
    BY DEF Publishings
<1>2. \A i \in 1 .. n : call.got[i] = <<call.got[i][1], call.got[i][2]>>
    <2>1. \A i \in 1 .. n : call.got[i] \in (1 .. 2) \X Entries
        BY <1>1
    <2> QED BY <2>1
<1> HIDE DEF n
<1>3. \A i, j \in at : i = j
    BY <1>1 DEF OnceEach, n
<1>4. Heard(call.got, e, h) => \E i \in 1 .. n : i \in at
    BY <1>1, <1>2 DEF Heard, n
<1> HIDE DEF at
<1>5. CASE at = {}
    BY <1>4, <1>5, FS_EmptySet DEF Times, at
<1>6. CASE at # {}
    <2>1. PICK i : i \in at
        BY <1>6
    <2>2. at = {i}
        BY <1>3, <2>1
    <2>3. Cardinality(at) = 1
        BY <2>2, FS_Singleton
    <2> QED BY <2>3 DEF Times, at
<1> QED BY <1>5, <1>6

LEMMA ExactBuses == BusInv => BusesExact
<1> SUFFICES ASSUME BusInv, NEW c \in Callers, NEW call, call = busCall[c], call.pc = "returned"
             PROVE  /\ busKind # "event" =>
                        /\ call.ran <= 1 /\ call.logged = 0
                        /\ busKind = "command" => (~call.err => call.ran = 1)
                        /\ (~call.valid /\ \E k \in DOMAIN call.mws : call.mws[k] = "validate")
                             => call.ran = 0 /\ call.err
                        /\ (busKind = "query" /\ ~call.err) =>
                             /\ QueryKey(call.res.of) = QueryKey(call.q)
                             /\ call.ran = 1 => call.res.of = call.q /\ call.res.fact >= call.since /\ call.res.no = call.h.no
                             /\ call.ran = 0 => "cache" \in {call.mws[k] : k \in DOMAIN call.mws}
                             /\ call.panic => call.ran = 0 /\ call.res.no # call.h.no
                    /\ busKind = "event" =>
                        /\ \A e \in 1..2, t \in Topics : \A i \in DOMAIN call.before[t] :
                              /\ Times(call, e, call.before[t][i]) <= 1
                              /\ ~call.err => Times(call, e, call.before[t][i]) = 1
                        /\ \A i, j \in DOMAIN call.got : i < j => call.got[i][1] <= call.got[j][1]
    BY DEF BusesExact
<1>1. ASSUME busKind # "event"
      PROVE  /\ call.ran <= 1 /\ call.logged = 0
             /\ busKind = "command" => (~call.err => call.ran = 1)
             /\ (~call.valid /\ \E k \in DOMAIN call.mws : call.mws[k] = "validate")
                  => call.ran = 0 /\ call.err
             /\ (busKind = "query" /\ ~call.err) =>
                  /\ QueryKey(call.res.of) = QueryKey(call.q)
                  /\ call.ran = 1 => call.res.of = call.q /\ call.res.fact >= call.since /\ call.res.no = call.h.no
                  /\ call.ran = 0 => "cache" \in {call.mws[k] : k \in DOMAIN call.mws}
                  /\ call.panic => call.ran = 0 /\ call.res.no # call.h.no
    <2>1. call \in AskCalls(busKind) /\ AskInv(busKind, fact, call) /\ call # NoCall
        BY <1>1, CallAt DEF AskOk
    <2>2. call.ran \in {0, 1} /\ call.logged = 0
        BY <2>1, LogsCount DEF AskCalls, AskInv
    <2>3. ASSUME busKind = "query", ~call.err, call.panic
          PROVE  call.ran = 0 /\ call.res.no # call.h.no
        <3>1. PICK types \in Registries : Named(types)
            BY DEF BusInv
        <3>2. call.res.type = types[call.res.no] /\ call.h.type = types[call.h.no]
            BY <1>1, <2>1, <2>3, <3>1 DEF Named, CallNamed, Known, AskInv
        <3>3. call.h.type = call.R /\ call.res.type # call.R
            BY <2>1, <2>3 DEF AskInv
        <3>4. call.ran = 1 => call.res.no = call.h.no
            BY <2>1, <2>3 DEF AskInv
        <3>5. call.res.no # call.h.no
            BY <3>2, <3>3
        <3> QED BY <2>2, <3>4, <3>5
    <2> QED BY <2>1, <2>2, <2>3 DEF AskInv
<1>2. ASSUME busKind = "event"
      PROVE  /\ \A e \in 1..2, t \in Topics : \A i \in DOMAIN call.before[t] :
                   /\ Times(call, e, call.before[t][i]) <= 1
                   /\ ~call.err => Times(call, e, call.before[t][i]) = 1
             /\ \A i, j \in DOMAIN call.got : i < j => call.got[i][1] <= call.got[j][1]
    <2>1. call \in Publishings /\ PublishInv(subscribed, call)
        BY <1>2, CallAt DEF PublishOk
    <2>2. /\ DOMAIN call.got = 1 .. Len(call.got)
          /\ \A t \in Topics : DOMAIN call.before[t] = 1 .. Len(call.before[t])
        BY <2>1 DEF Publishings, Subscribers
    <2>3. OnceEach(call.got)
        BY <2>1 DEF PublishInv
    <2>4. \A i, j \in DOMAIN call.got : i < j => call.got[i][1] <= call.got[j][1]
        BY <2>1, <2>2 DEF PublishInv
    <2>5. ASSUME NEW e \in 1 .. 2, NEW t \in Topics, NEW i \in DOMAIN call.before[t]
          PROVE  /\ Times(call, e, call.before[t][i]) <= 1
                 /\ ~call.err => Times(call, e, call.before[t][i]) = 1
        <3>1. e = 1 \/ e = 2
            OBVIOUS
        <3>2. ~call.err => Heard(call.got, e, call.before[t][i])
            BY <2>1, <2>2, <3>1 DEF PublishInv, Reached
        <3> QED BY <2>1, <2>3, <3>2, HeardTimes
    <2> QED BY <2>4, <2>5
<1> QED BY <1>1, <1>2

\* Whatever the callers, queries and limits of the registry, calls are exact on
\* every bus while handlers, middleware and subscriptions change under them
\* (cqrs.go Dispatch and Ask, event.go Publish and PublishAll).
THEOREM BusesExactHolds == BusSpec => []BusesExact
<1>1. BusSpec => []BusInv
    BY BusStarts, BusSteps, PTL DEF BusSpec
<1> QED BY <1>1, ExactBuses, PTL
=============================================================================
