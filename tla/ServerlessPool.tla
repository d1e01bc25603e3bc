--------------------------- MODULE ServerlessPool ---------------------------
(***************************************************************************)
(* ServerlessPool of package cloud (cloud/pool.go): a list of warm         *)
(* connections pinned from the sql.DB below it, filled by Start and the    *)
(* health check, used by Conn and ReleaseConn, trimmed by the scale-down   *)
(* loop and emptied by Stop.  Connections are interchangeable, so they are *)
(* counted.  The parts of an operation that run under p.mu are one step,   *)
(* except warmUp, which waits for connections while it holds p.mu.         *)
(* sql.DB is external: it lends at most MaxOpenConns connections and keeps *)
(* at most MaxIdleConns idle ones (none if that is not positive).          *)
(***************************************************************************)
EXTENDS Integers, FiniteSets

CONSTANTS
  Clients,          \* goroutines that use connections
  Controllers,      \* goroutines that call Start and Stop
  WarmConnections, MaxOpenConns, MaxIdleConns, MaxRetries,   \* config
  MaxStarts         \* bound on the calls of Start that get past its first test

ASSUME ConfigAssumption ==
  /\ WarmConnections \in Nat /\ MaxOpenConns \in Nat \ {0}
  /\ MaxIdleConns \in Int /\ MaxRetries \in Nat /\ MaxStarts \in Nat

VARIABLES
  running,   \* p.running
  closed,    \* is stopChan closed?
  panicked,  \* was it closed twice?
  starts,    \* calls of Start so far
  cpc, left, \* per controller: place in Start or Stop, connections left to warm
  warm,      \* len(p.warmConns)
  warmStat,  \* p.stats.WarmConnections
  hpc, hleft,\* per health loop: place, connections left to replace
  scaling,   \* per scale-down loop: is it alive?
  place, tries \* per client: where it is, retries of Conn

control == <<running, closed, panicked, starts, cpc, left>>
pool == <<warm, warmStat>>
health == <<hpc, hleft>>
clients == <<place, tries>>
poolVars == <<control, pool, health, scaling, clients>>

Loops == 1 .. MaxStarts     \* the loops of the n-th Start

\* p.mu is held across steps only by warmUp.
Unlocked == \A k \in Controllers : cpc[k] # "warming"

\* Connections that sql.DB has lent, and whether it can lend one more.
Lent == warm + Cardinality({l \in Loops : hpc[l] = "append"})
             + Cardinality({c \in Clients : place[c] \in {"held", "exec"}})
Available == Lent < MaxOpenConns

\* db.Stats().Idle > MaxIdleConns, for some number of idle connections.
TooManyIdle == \E idle \in 0 .. MaxOpenConns : idle > MaxIdleConns /\
                 idle <= (IF MaxIdleConns > 0 THEN MaxIdleConns ELSE 0)

-----------------------------------------------------------------------------
PoolInit ==
  /\ running = FALSE /\ closed = FALSE /\ panicked = FALSE
  /\ starts = 0
  /\ cpc = [k \in Controllers |-> "idle"]
  /\ left = [k \in Controllers |-> 0]
  /\ warm = 0 /\ warmStat = 0
  /\ hpc = [l \in Loops |-> "off"]
  /\ hleft = [l \in Loops |-> 0]
  /\ scaling = [l \in Loops |-> FALSE]
  /\ place = [c \in Clients |-> "out"]
  /\ tries = [c \in Clients |-> 0]

\* Start finds the pool stopped (if it runs, Start returns nil and changes
\* nothing); the test and the store that follows are not atomic.
StartLoad(k) ==
  /\ cpc[k] = "idle" /\ ~running
  /\ starts < MaxStarts
  /\ starts' = starts + 1
  /\ cpc' = [cpc EXCEPT ![k] = "start"]
  /\ UNCHANGED <<running, closed, panicked, left, pool, health, scaling, clients>>

\* running.Store(true), then warmUp takes p.mu.
StartStore(k) ==
  /\ cpc[k] = "start"
  /\ running' = TRUE
  /\ cpc' = [cpc EXCEPT ![k] = "warmUp"]
  /\ UNCHANGED <<closed, panicked, starts, left, pool, health, scaling, clients>>

WarmUp(k) ==
  /\ cpc[k] = "warmUp" /\ Unlocked
  /\ cpc' = [cpc EXCEPT ![k] = "warming"]
  /\ left' = [left EXCEPT ![k] = WarmConnections]
  /\ UNCHANGED <<running, closed, panicked, starts, pool, health, scaling, clients>>

\* One turn of warmUp's loop: a healthy connection is kept, another closed.
WarmConn(k) ==
  /\ cpc[k] = "warming" /\ left[k] > 0 /\ Available
  /\ left' = [left EXCEPT ![k] = @ - 1]
  /\ \E healthy \in {0, 1} : warm' = warm + healthy /\ warmStat' = warmStat + healthy
  /\ UNCHANGED <<running, closed, panicked, starts, cpc, health, scaling, clients>>

\* db.Conn fails or ColdStartTimeout passes: Start returns the error.
WarmFails(k) ==
  /\ cpc[k] = "warming" /\ left[k] > 0
  /\ cpc' = [cpc EXCEPT ![k] = "idle"]
  /\ UNCHANGED <<running, closed, panicked, starts, left, pool, health, scaling, clients>>

\* warmUp is done: Start spawns the two loops and returns nil.
StartDone(k) ==
  /\ cpc[k] = "warming" /\ left[k] = 0
  /\ \E l \in Loops :
       /\ hpc[l] = "off" /\ ~scaling[l]
       /\ \A m \in Loops : m < l => hpc[m] # "off" \/ scaling[m]
       /\ hpc' = [hpc EXCEPT ![l] = "wait"]
       /\ scaling' = [scaling EXCEPT ![l] = TRUE]
  /\ cpc' = [cpc EXCEPT ![k] = "idle"]
  /\ UNCHANGED <<running, closed, panicked, starts, left, pool, hleft, clients>>

\* Stop finds the pool running ...
StopLoad(k) ==
  /\ cpc[k] = "idle" /\ running
  /\ cpc' = [cpc EXCEPT ![k] = "stop"]
  /\ UNCHANGED <<running, closed, panicked, starts, left, pool, health, scaling, clients>>

\* ... and closes stopChan, which panics if it is closed already ...
StopStore(k) ==
  /\ cpc[k] = "stop"
  /\ running' = FALSE
  /\ closed' = TRUE
  /\ panicked' = (panicked \/ closed)
  /\ cpc' = [cpc EXCEPT ![k] = IF closed THEN "idle" ELSE "drain"]
  /\ UNCHANGED <<starts, left, pool, health, scaling, clients>>

\* ... and the warm connections.  The statistic keeps its value.
StopDrain(k) ==
  /\ cpc[k] = "drain" /\ Unlocked
  /\ warm' = 0
  /\ cpc' = [cpc EXCEPT ![k] = "idle"]
  /\ UNCHANGED <<running, closed, panicked, starts, left, warmStat, health, scaling, clients>>

-----------------------------------------------------------------------------
\* A tick of the health loop: the connections that do not answer are closed.
\* With stopChan closed and the ticker due, select takes either.
HealthPing(l) ==
  /\ hpc[l] = "wait" /\ Unlocked
  /\ \E healthy \in 0 .. warm :
       warm' = healthy /\ warmStat' = warmStat - (warm - healthy)
  /\ hpc' = [hpc EXCEPT ![l] = "count"]
  /\ UNCHANGED <<control, hleft, scaling, clients>>

\* Mutated form of HealthCount: as many are opened as are to be kept warm.
HealthCountAll(l) ==
  /\ hpc[l] = "count" /\ Unlocked
  /\ hleft' = [hleft EXCEPT ![l] = WarmConnections]
  /\ hpc' = [hpc EXCEPT ![l] = "replace"]
  /\ UNCHANGED <<control, pool, scaling, clients>>

\* The lock is released and taken again to count what is missing.
HealthCount(l) ==
  /\ hpc[l] = "count" /\ Unlocked
  /\ hleft' = [hleft EXCEPT ![l] = IF warm < WarmConnections THEN WarmConnections - warm ELSE 0]
  /\ hpc' = [hpc EXCEPT ![l] = "replace"]
  /\ UNCHANGED <<control, pool, scaling, clients>>

\* A connection is opened without the lock ...
HealthConn(l) ==
  /\ hpc[l] = "replace" /\ hleft[l] > 0 /\ Available
  /\ hpc' = [hpc EXCEPT ![l] = "append"]
  /\ UNCHANGED <<control, pool, hleft, scaling, clients>>

\* ... or is not, within HealthCheckTimeout, and the loop goes on ...
HealthConnFails(l) ==
  /\ hpc[l] = "replace" /\ hleft[l] > 0
  /\ hleft' = [hleft EXCEPT ![l] = @ - 1]
  /\ UNCHANGED <<control, pool, hpc, scaling, clients>>

\* ... and is added under the lock, without another look at the count.
HealthAppend(l) ==
  /\ hpc[l] = "append" /\ Unlocked
  /\ warm' = warm + 1 /\ warmStat' = warmStat + 1
  /\ hleft' = [hleft EXCEPT ![l] = @ - 1]
  /\ hpc' = [hpc EXCEPT ![l] = "replace"]
  /\ UNCHANGED <<control, scaling, clients>>

HealthDone(l) ==
  /\ hpc[l] = "replace" /\ hleft[l] = 0
  /\ hpc' = [hpc EXCEPT ![l] = "wait"]
  /\ UNCHANGED <<control, pool, hleft, scaling, clients>>

HealthExit(l) ==
  /\ hpc[l] = "wait" /\ closed
  /\ hpc' = [hpc EXCEPT ![l] = "off"]
  /\ UNCHANGED <<control, pool, hleft, scaling, clients>>

\* maybeScaleDown: extra warm connections are closed if sql.DB reports more
\* idle ones than MaxIdleConns, the number it was told to keep at most: for a
\* positive MaxIdleConns that never happens.
ScaleDown(l) ==
  /\ scaling[l] /\ Unlocked
  /\ TooManyIdle
  /\ warm > WarmConnections
  /\ warm' = WarmConnections
  /\ warmStat' = warmStat - (warm - warm')
  /\ UNCHANGED <<control, health, scaling, clients>>

ScaleExit(l) ==
  /\ scaling[l] /\ closed
  /\ scaling' = [scaling EXCEPT ![l] = FALSE]
  /\ UNCHANGED <<control, pool, health, clients>>

-----------------------------------------------------------------------------
\* Conn takes the last warm connection and pings it; a dead one is closed and
\* a cold start follows.
ConnWarm(c) ==
  /\ place[c] = "out" /\ Unlocked
  /\ warm > 0
  /\ warm' = warm - 1 /\ warmStat' = warmStat - 1
  /\ \E to \in {"held", "cold"} : place' = [place EXCEPT ![c] = to]
  /\ tries' = [tries EXCEPT ![c] = 0]
  /\ UNCHANGED <<control, health, scaling>>

\* No warm connection: cold start.
ConnCold(c) ==
  /\ place[c] = "out" /\ Unlocked
  /\ warm = 0
  /\ place' = [place EXCEPT ![c] = "cold"]
  /\ tries' = [tries EXCEPT ![c] = 0]
  /\ UNCHANGED <<control, pool, health, scaling>>

ColdOk(c) ==
  /\ place[c] = "cold" /\ Available
  /\ place' = [place EXCEPT ![c] = "held"]
  /\ UNCHANGED <<control, pool, health, scaling, tries>>

\* db.Conn fails: another attempt after a delay, or the error is returned.
ColdFails(c) ==
  /\ place[c] = "cold"
  /\ IF tries[c] < MaxRetries
     THEN tries' = [tries EXCEPT ![c] = @ + 1] /\ UNCHANGED place
     ELSE place' = [place EXCEPT ![c] = "out"] /\ UNCHANGED tries
  /\ UNCHANGED <<control, pool, health, scaling>>

\* Mutated form of ReleaseConn: the connection is always kept warm.
ReleaseConnKeeps(c) ==
  /\ place[c] = "held" /\ Unlocked
  /\ warm' = warm + 1 /\ warmStat' = warmStat + 1
  /\ place' = [place EXCEPT ![c] = "out"]
  /\ UNCHANGED <<control, health, scaling, tries>>

\* ReleaseConn keeps the connection warm if there is room, whether the pool
\* runs or not, and closes it otherwise.
ReleaseConn(c) ==
  /\ place[c] = "held" /\ Unlocked
  /\ LET keep == IF warm < WarmConnections THEN 1 ELSE 0
     IN  warm' = warm + keep /\ warmStat' = warmStat + keep
  /\ place' = [place EXCEPT ![c] = "out"]
  /\ UNCHANGED <<control, health, scaling, tries>>

\* ExecContext and its kin go to sql.DB, which makes them wait for a
\* connection that nobody holds or keeps warm.
PoolExecContext(c) ==
  /\ place[c] = "out"
  /\ place' = [place EXCEPT ![c] = "execWait"]
  /\ UNCHANGED <<control, pool, health, scaling, tries>>

ExecRun(c) ==
  /\ place[c] = "execWait" /\ Available
  /\ place' = [place EXCEPT ![c] = "exec"]
  /\ UNCHANGED <<control, pool, health, scaling, tries>>

ExecDone(c) ==
  /\ place[c] = "exec"
  /\ place' = [place EXCEPT ![c] = "out"]
  /\ UNCHANGED <<control, pool, health, scaling, tries>>

-----------------------------------------------------------------------------
ControlStep(k) ==
  \/ StartStore(k) \/ WarmUp(k) \/ WarmConn(k) \/ WarmFails(k) \/ StartDone(k)
  \/ StopStore(k) \/ StopDrain(k)

HealthStep(l) ==
  \/ HealthCount(l) \/ HealthConn(l) \/ HealthConnFails(l) \/ HealthAppend(l)
  \/ HealthDone(l)

ClientStep(c) ==
  \/ ColdOk(c) \/ ColdFails(c) \/ ReleaseConn(c) \/ ExecDone(c)

PoolNext ==
  \/ \E k \in Controllers : StartLoad(k) \/ StopLoad(k) \/ ControlStep(k)
  \/ \E l \in Loops : HealthPing(l) \/ HealthStep(l) \/ HealthExit(l)
                      \/ ScaleDown(l) \/ ScaleExit(l)
  \/ \E c \in Clients : ConnWarm(c) \/ ConnCold(c) \/ PoolExecContext(c) \/ ExecRun(c)
                        \/ ClientStep(c)

PoolSpec == PoolInit /\ [][PoolNext]_poolVars

\* What has begun goes on, clients give back what they hold, and sql.DB serves
\* those who wait in their order: a waiter that could be served again and again
\* is served.
PoolFairness ==
  /\ \A k \in Controllers : WF_poolVars(ControlStep(k))
  /\ \A l \in Loops : WF_poolVars(HealthStep(l))
  /\ \A c \in Clients : WF_poolVars(ClientStep(c)) /\ SF_poolVars(ExecRun(c))

\* The same, and the tickers of the two loops fire.
TickingSpec ==
  /\ PoolSpec /\ PoolFairness
  /\ \A l \in Loops : WF_poolVars(HealthPing(l)) /\ WF_poolVars(ScaleDown(l))

-----------------------------------------------------------------------------
\* The health check adds connections it counted as missing before others gave
\* theirs back (line 225), yet never more than WarmConnections too many; and,
\* until Stop, Stats reports the length of the list (lines 180 to 332).
WarmBounded == warm <= 2 * WarmConnections /\ (~closed => warmStat = warm)

\* A query on the sql.DB is not starved by connections that are only kept warm.
ExecServed == \A c \in Clients : place[c] = "execWait" ~> place[c] = "exec"

\* "Scale down automático" (CHANGELOG.md, line 229): a surplus of warm
\* connections does not last while the pool runs.
SurplusCloses == warm > WarmConnections ~> warm <= WarmConnections \/ closed
=============================================================================
