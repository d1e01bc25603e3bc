--------------------------- MODULE Subscriptions ---------------------------
(***************************************************************************)
(* The SubscriptionManager of package core (core/subscription.go).         *)
(* Subscribe sends LISTEN before it takes sm.mu to enter the subscription; *)
(* Unsubscribe removes it and sends UNLISTEN while it holds sm.mu.  LISTEN *)
(* needs no lock, so it may fall anywhere between them.  The database is   *)
(* external: one session, which hears the channels it listens to.  A       *)
(* statement that fails without effect changes nothing; one may also take  *)
(* effect and be reported as failed.  The polling goroutine delivers       *)
(* nothing (line 142), so handlers, and the filters that Watch puts around *)
(* them, are left out; a ChangeStream cancels its subscription when it is  *)
(* closed.                                                                 *)
(***************************************************************************)
EXTENDS Integers

CONSTANTS
  Channels,
  Subs,       \* the subscriptions made in a behaviour
  ChannelOf   \* their channels

ASSUME ChannelOfAssumption == ChannelOf \in [Subs -> Channels]

VARIABLES
  listening,  \* channels the session listens to
  subs,       \* sm.subscriptions: those entered under their channels
  active,     \* per subscription: active, and its context not cancelled
  pc,         \* per subscription: "new", "listened" (in Subscribe), "live",
              \* "unsub" (in Unsubscribe), "gone" (Unsubscribe has returned)
  poll,       \* per subscription: pollNotifications "off", "run" or "done"
  sm,         \* "open", "closing" (sm.ctx is cancelled), "closed"
  overtaken,  \* history: entered by a Subscribe that an UNLISTEN overtook
  left,       \* history: channels that an error, or Close, left on
  before      \* history: subscriptions made before the last Close began

history == <<overtaken, left, before>>
subVars == <<listening, subs, active, pc, poll, sm, history>>

OnChannel(c) == {s \in Subs : ChannelOf[s] = c}

-----------------------------------------------------------------------------
SubInit ==
  /\ listening = {} /\ subs = {}
  /\ active = [s \in Subs |-> FALSE]
  /\ pc = [s \in Subs |-> "new"]
  /\ poll = [s \in Subs |-> "off"]
  /\ sm = "open"
  /\ overtaken = {} /\ left = {} /\ before = {}

\* Subscribe sends LISTEN ...
Listen(s) ==
  /\ pc[s] = "new"
  /\ listening' = listening \cup {ChannelOf[s]}
  /\ pc' = [pc EXCEPT ![s] = "listened"]
  /\ UNCHANGED <<subs, active, poll, sm, history>>

\* ... and gives up on an error, though the session may listen by then ...
ListenLostAck(s) ==
  /\ pc[s] = "new"
  /\ listening' = listening \cup {ChannelOf[s]}
  /\ left' = left \cup {ChannelOf[s]}
  /\ UNCHANGED <<subs, active, pc, poll, sm, overtaken, before>>

\* ... or enters the subscription, starts its goroutine and returns, also if
\* the manager has been closed.
Register(s) ==
  /\ pc[s] = "listened"
  /\ subs' = subs \cup {s}
  /\ active' = [active EXCEPT ![s] = TRUE]
  /\ pc' = [pc EXCEPT ![s] = "live"]
  /\ poll' = [poll EXCEPT ![s] = "run"]
  /\ UNCHANGED <<listening, sm, history>>

\* The goroutine sees that its context, or the manager's, is done.
PollExit(s) ==
  /\ poll[s] = "run" /\ (~active[s] \/ sm # "open")
  /\ poll' = [poll EXCEPT ![s] = "done"]
  /\ UNCHANGED <<listening, subs, active, pc, sm, history>>

\* Cancel, by its holder or by the Close of its ChangeStream: it stays entered.
Cancel(s) ==
  /\ pc[s] = "live" /\ active[s]
  /\ active' = [active EXCEPT ![s] = FALSE]
  /\ UNCHANGED <<listening, subs, pc, poll, sm, history>>

\* Unsubscribe cancels first; it may be called again.
Unsubscribe(s) ==
  /\ pc[s] \in {"live", "gone"}
  /\ active' = [active EXCEPT ![s] = FALSE]
  /\ pc' = [pc EXCEPT ![s] = "unsub"]
  /\ UNCHANGED <<listening, subs, poll, sm, history>>

\* UNLISTEN takes effect, on subscriptions still being made too.
Unlisten(c) ==
  /\ listening' = listening \ {c}
  /\ left' = left \ {c}
  /\ overtaken' = overtaken \cup {t \in OnChannel(c) : pc[t] = "listened"}

\* Is a subscription the last one entered for its channel?
LastOf(s) == subs \cap OnChannel(ChannelOf[s]) \subseteq {s}

\* Mutated form of Unregister: nobody looks for others on the channel.
RemoveAlone(s) ==
  /\ pc[s] = "unsub"
  /\ pc' = [pc EXCEPT ![s] = "gone"]
  /\ subs' = subs \ {s}
  /\ Unlisten(ChannelOf[s])
  /\ UNCHANGED <<active, poll, sm, before>>

\* Mutated form of Unregister: UNLISTEN is forgotten.
RemoveSilent(s) ==
  /\ pc[s] = "unsub"
  /\ pc' = [pc EXCEPT ![s] = "gone"]
  /\ subs' = subs \ {s}
  /\ UNCHANGED <<listening, active, poll, sm, history>>

\* Then, under sm.mu, it removes the entry and, after the last of the channel,
\* sends UNLISTEN; if that took effect and was reported as failed, all is the same.
Unregister(s) ==
  /\ pc[s] = "unsub"
  /\ pc' = [pc EXCEPT ![s] = "gone"]
  /\ subs' = subs \ {s}
  /\ IF LastOf(s) THEN Unlisten(ChannelOf[s]) ELSE UNCHANGED <<listening, left, overtaken>>
  /\ UNCHANGED <<active, poll, sm, before>>

\* UNLISTEN fails: the entry is gone all the same.
UnlistenFails(s) ==
  /\ pc[s] = "unsub" /\ LastOf(s)
  /\ pc' = [pc EXCEPT ![s] = "gone"]
  /\ subs' = subs \ {s}
  /\ left' = left \cup (listening \cap {ChannelOf[s]})
  /\ UNCHANGED <<listening, active, poll, sm, overtaken, before>>

\* Close cancels the manager's context ...
CloseBegin ==
  /\ sm # "closing"
  /\ sm' = "closing"
  /\ before' = {s \in Subs : pc[s] \in {"live", "unsub", "gone"}}
  /\ UNCHANGED <<listening, subs, active, pc, poll, overtaken, left>>

\* Mutated form of CloseSweep: the entries are dropped and not cancelled.
CloseSweepDrops ==
  /\ sm = "closing"
  /\ sm' = "closed"
  /\ subs' = {}
  /\ left' = left \cup listening
  /\ UNCHANGED <<listening, active, pc, poll, overtaken, before>>

\* ... and then, under sm.mu, every entry, and drops them; it sends no UNLISTEN.
CloseSweep ==
  /\ sm = "closing"
  /\ sm' = "closed"
  /\ active' = [s \in Subs |-> active[s] /\ s \notin subs]
  /\ subs' = {}
  /\ left' = left \cup listening
  /\ UNCHANGED <<listening, pc, poll, overtaken, before>>

SubNext ==
  \/ \E s \in Subs :
       \/ Listen(s) \/ ListenLostAck(s) \/ Register(s) \/ PollExit(s) \/ Cancel(s)
       \/ Unsubscribe(s) \/ Unregister(s) \/ UnlistenFails(s)
  \/ CloseBegin \/ CloseSweep

SubSpec == SubInit /\ [][SubNext]_subVars

-----------------------------------------------------------------------------
\* Types, and only subscriptions that were not unsubscribed are entered.
TypeOK ==
  /\ listening \subseteq Channels /\ left \subseteq listening
  /\ subs \subseteq {s \in Subs : pc[s] \in {"live", "unsub"}}
  /\ active \in [Subs -> BOOLEAN]
  /\ pc \in [Subs -> {"new", "listened", "live", "unsub", "gone"}]
  /\ poll \in [Subs -> {"off", "run", "done"}]
  /\ sm \in {"open", "closing", "closed"}
  /\ overtaken \subseteq Subs /\ before \subseteq Subs

\* An Unsubscribe does not make another subscription deaf (line 164), except
\* one whose Subscribe had sent its LISTEN and was not entered yet.
HeardUnlessOvertaken ==
  \A s \in subs : ChannelOf[s] \in listening \/ s \in overtaken

\* "If there are no more subscriptions on this channel, UNLISTEN" (line 163):
\* unless a statement failed, or Close left it on, the session listens only to
\* channels of entered subscriptions and of calls of Subscribe under way.
ListensForSomeone ==
  \A c \in listening \ left : \E s \in OnChannel(c) : s \in subs \/ pc[s] = "listened"

\* "Close closes all subscriptions" (line 175): those made before the call are
\* inactive when it returns, whatever Unsubscribe and Subscribe race with it.
CloseCancels == sm = "closed" => \A s \in before : ~active[s]
=============================================================================
