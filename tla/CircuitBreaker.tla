--------------------------- MODULE CircuitBreaker ---------------------------
(***************************************************************************)
(* The path circuits of the gateway's ChannelPoolService, as several       *)
(* gateway instances run it against one database.                          *)
(*                                                                         *)
(* The module is one scope, that is one (model identity, protocol): every  *)
(* lock, query and fallback decision of the code is confined to a scope,   *)
(* and Channel is the set of channels bound in it.  Each gateway keeps a   *)
(* copy of the scope's rows (routeHealth); the rows themselves are shared  *)
(* through channel_route_health; a MySQL named lock serialises circuit     *)
(* decisions.  An outcome is handled in several steps, one per await of    *)
(* recordSuccess and recordFailure, and everything else may run in         *)
(* between: other paths of the same gateway, other gateways, refresh,      *)
(* recover, a restart.  Outcomes of one path of one gateway are handled in *)
(* arrival order (withHealthWriteLock).                                    *)
(*                                                                         *)
(* All instances read one clock, which never steps back.  Bounds: MaxTime  *)
(* (the clock), MaxPending (outcomes waiting on one path of one gateway),  *)
(* Limit (how often each kind of environment step happens), Refreshing     *)
(* (who refreshes), one refresh at a time per gateway.                     *)
(***************************************************************************)
EXTENDS RouteHealth, Sequences

CONSTANTS
    Gateway,      \* gateway instances
    AutoGateway,  \* those with relay.autoCircuitBreakerEnabled
    Channel,      \* channels bound to the scope
    NoOwner,      \* the named lock is free
    Refreshing,   \* gateways whose refresh timer fires in the window modelled
    MaxTime,
    MaxPending,
    Limit         \* bounds on the steps of the environment, see EnvironmentStep

ASSUME GatewayAssumption == AutoGateway \subseteq Gateway /\ Refreshing \subseteq Gateway
ASSUME ChannelAssumption == Channel # {}
ASSUME OwnerAssumption == NoOwner \notin Gateway \X Channel

\* Requests that end; database errors, restarts and manual recoveries.
EnvironmentStep == {"outcome", "fault"}
ASSUME BoundAssumption ==
    /\ MaxTime \in Nat \ {0}
    /\ MaxPending \in Nat \ {0}
    /\ Limit \in [EnvironmentStep -> Nat]

VARIABLES
    now,         \* Date.now()
    db,          \* channel_route_health
    lock,        \* owner of the named lock circuitLockName(...)
    serving,     \* the instance has finished onModuleInit
    routeHealth, \* each instance's copy of the rows
    pending,     \* outcomes queued per path, the head being handled
    job,         \* how far the handling of the head has come
    refresh,     \* a refresh in progress
    recovering,  \* recover: paths changed in memory, not yet in the database
    spent        \* how much of each Limit is used

vars == <<now, db, lock, serving, routeHealth, pending, job, refresh, recovering,
          spent>>

Outcome == [kind : {"success", "failure"}, at : Nat]

\* "idle": the head waits for its turn; "success": kept, to be persisted;
\* "locked": named lock held; "decided": rows read and circuit decided, to be
\* persisted; "conservative": kept without a decision, to be persisted;
\* "done": persisted, to release the lock and keep the result.
JobPhase == {"idle", "success", "locked", "decided", "conservative", "done"}
Job == [phase : JobPhase, event : RouteHealthState, state : RouteHealthState]
NoJob == [phase |-> "idle", event |-> EmptyHealth, state |-> EmptyHealth]

\* "read": the rows are loaded; "clearing": circuits without a fallback are
\* being cleared in the database.
Refresh == [phase : {"idle", "read", "clearing"},
            rows : [Channel -> RouteHealthState], clears : SUBSET Channel]
NoRefresh == [phase |-> "idle", rows |-> [c \in Channel |-> EmptyHealth],
              clears |-> {}]

TypeOK ==
    /\ now \in Nat
    /\ db \in [Channel -> RouteHealthState]
    /\ lock \in (Gateway \X Channel) \cup {NoOwner}
    /\ serving \in [Gateway -> BOOLEAN]
    /\ routeHealth \in [Gateway -> [Channel -> RouteHealthState]]
    /\ pending \in [Gateway -> [Channel -> Seq(Outcome)]]
    /\ job \in [Gateway -> [Channel -> Job]]
    /\ refresh \in [Gateway -> Refresh]
    /\ recovering \in [Gateway -> SUBSET Channel]
    /\ spent \in [EnvironmentStep -> Nat]

\* Every instance has finished its first refresh over an empty table.
Init ==
    /\ now = 1
    /\ db = [c \in Channel |-> EmptyHealth]
    /\ lock = NoOwner
    /\ serving = [g \in Gateway |-> TRUE]
    /\ routeHealth = [g \in Gateway |-> [c \in Channel |-> EmptyHealth]]
    /\ pending = [g \in Gateway |-> [c \in Channel |-> <<>>]]
    /\ job = [g \in Gateway |-> [c \in Channel |-> NoJob]]
    /\ refresh = [g \in Gateway |-> NoRefresh]
    /\ recovering = [g \in Gateway |-> {}]
    /\ spent = [k \in EnvironmentStep |-> 0]

-----------------------------------------------------------------------------
(* What an instance sees.                                                  *)

\* The paths pick may return: bound, and not open in this instance's copy.
Routable(g) == {c \in Channel : ~IsOpen(routeHealth[g][c], now)}

HasHealthyFallback(c, rows, t) ==
    \E b \in Channel \ {c} : IsHealthyFallback(rows[b], t)

Outcome1(g, c) == pending[g][c][1]

\* The head of the queue may start: it is this path's turn.
MayStart(g, c, kind) ==
    /\ pending[g][c] # <<>>
    /\ job[g][c].phase = "idle"
    /\ Outcome1(g, c).kind = kind

SetPhase(g, c, phase) == job' = [job EXCEPT ![g][c].phase = phase]

\* The handling of the head ends and the next queued outcome gets its turn.
EndJob(g, c) ==
    /\ job' = [job EXCEPT ![g][c] = NoJob]
    /\ pending' = [pending EXCEPT ![g][c] = Tail(@)]

ReleaseIfHeld(g, c) == lock' = IF lock = <<g, c>> THEN NoOwner ELSE lock

Spend(k) == spent[k] < Limit[k] /\ spent' = [spent EXCEPT ![k] = @ + 1]

-----------------------------------------------------------------------------
(* Outcomes of requests.                                                   *)

Tick ==
    /\ now < MaxTime
    /\ now' = now + 1
    /\ UNCHANGED <<db, lock, serving, routeHealth, pending, job, refresh, recovering, spent>>

\* A request that had picked c ends now, however long ago it was picked.
Report(g, c, kind) ==
    /\ serving[g]
    /\ Len(pending[g][c]) < MaxPending
    /\ pending' = [pending EXCEPT ![g][c] = Append(@, [kind |-> kind, at |-> now])]
    /\ Spend("outcome")
    /\ UNCHANGED <<now, db, lock, serving, routeHealth, job, refresh, recovering>>

\* recordSuccess keeps the success in memory and starts the upsert.
RecordSuccess(g, c) ==
    /\ MayStart(g, c, "success")
    /\ LET at == Outcome1(g, c).at
       IN  /\ routeHealth' = [routeHealth EXCEPT ![g][c] = AfterSuccess(@, at)]
           /\ job' = [job EXCEPT ![g][c] =
                [NoJob EXCEPT !.phase = "success", !.event = SuccessEvent(at)]]
    /\ UNCHANGED <<now, db, lock, serving, pending, refresh, recovering, spent>>

PersistSuccess(g, c) ==
    /\ job[g][c].phase = "success"
    /\ db' = [db EXCEPT ![c] = PersistOutcome(@, job[g][c].event)]
    /\ EndJob(g, c)
    /\ UNCHANGED <<now, lock, serving, routeHealth, refresh, recovering, spent>>

\* The upsert throws; the executor only logs it.
PersistSuccessFails(g, c) ==
    /\ job[g][c].phase = "success"
    /\ EndJob(g, c)
    /\ Spend("fault")
    /\ UNCHANGED <<now, db, lock, serving, routeHealth, refresh, recovering>>

\* Faulty variant: the decision is not serialised.
AcquireNoLock(g, c) ==
    /\ MayStart(g, c, "failure")
    /\ SetPhase(g, c, "locked")
    /\ UNCHANGED <<now, db, lock, serving, routeHealth, pending, refresh, recovering, spent>>

\* GET_LOCK answers 1.
AcquireLock(g, c) ==
    /\ MayStart(g, c, "failure")
    /\ lock = NoOwner
    /\ lock' = <<g, c>>
    /\ SetPhase(g, c, "locked")
    /\ UNCHANGED <<now, db, serving, routeHealth, pending, refresh, recovering, spent>>

\* Under the lock: read the scope, count the failure, decide the circuit.
DecideFailure(g, c) ==
    /\ job[g][c].phase = "locked"
    /\ LET at == Outcome1(g, c).at
           mayOpen == g \in AutoGateway /\ HasHealthyFallback(c, db, now)
       IN  job' = [job EXCEPT ![g][c] =
                [phase |-> "decided",
                 event |-> FailureEvent(db[c], at, now, mayOpen),
                 state |-> AfterFailure(db[c], at, now, mayOpen)]]
    /\ UNCHANGED <<now, db, lock, serving, routeHealth, pending, refresh, recovering, spent>>

PersistFailure(g, c) ==
    /\ job[g][c].phase = "decided"
    /\ db' = [db EXCEPT ![c] = PersistOutcome(@, job[g][c].event)]
    /\ SetPhase(g, c, "done")
    /\ UNCHANGED <<now, lock, serving, routeHealth, pending, refresh, recovering, spent>>

\* GET_LOCK times out or fails; the read or the upsert fails under the lock,
\* which a lost connection loses: recordRouteFailureConservatively.
ConservativeJob(g, c) ==
    [NoJob EXCEPT !.phase = "conservative",
                  !.state = AfterConservativeFailure(
                                routeHealth[g][c], Outcome1(g, c).at)]

RecordConservatively(g, c) ==
    /\ MayStart(g, c, "failure") \/ job[g][c].phase \in {"locked", "decided"}
    /\ job' = [job EXCEPT ![g][c] = ConservativeJob(g, c)]
    /\ UNCHANGED lock \/ ReleaseIfHeld(g, c)
    /\ Spend("fault")
    /\ UNCHANGED <<now, db, serving, routeHealth, pending, refresh, recovering>>

\* The upsert is applied but the connection is lost before the answer.
PersistFailureUnanswered(g, c) ==
    /\ job[g][c].phase = "decided"
    /\ db' = [db EXCEPT ![c] = PersistOutcome(@, job[g][c].event)]
    /\ job' = [job EXCEPT ![g][c] = ConservativeJob(g, c)]
    /\ ReleaseIfHeld(g, c)
    /\ Spend("fault")
    /\ UNCHANGED <<now, serving, routeHealth, pending, refresh, recovering>>

PersistConservative(g, c) ==
    /\ job[g][c].phase = "conservative"
    /\ db' = [db EXCEPT ![c] = PersistConservativeFailure(@, job[g][c].state)]
    /\ SetPhase(g, c, "done")
    /\ UNCHANGED <<now, lock, serving, routeHealth, pending, refresh, recovering, spent>>

\* The conservative upsert fails too: only this instance knows the failure.
\* Counted with the fault that led here.
PersistConservativeFails(g, c) ==
    /\ job[g][c].phase = "conservative"
    /\ SetPhase(g, c, "done")
    /\ UNCHANGED <<now, db, lock, serving, routeHealth, pending, refresh, recovering, spent>>

\* The finally block releases the lock, then the kept row is installed.
FinishFailure(g, c) ==
    /\ job[g][c].phase = "done"
    /\ ReleaseIfHeld(g, c)
    /\ routeHealth' = [routeHealth EXCEPT ![g][c] = job[g][c].state]
    /\ EndJob(g, c)
    /\ UNCHANGED <<now, db, serving, refresh, recovering, spent>>

-----------------------------------------------------------------------------
(* refresh: every minute, and once before the instance serves.             *)

RefreshRead(g) ==
    /\ g \in Refreshing
    /\ refresh[g].phase = "idle"
    /\ refresh' = [refresh EXCEPT ![g].phase = "read", ![g].rows = db]
    /\ UNCHANGED <<now, db, lock, serving, routeHealth, pending, job, recovering, spent>>

\* Circuits the snapshot does not justify: all of them when the breaker is
\* off, else the open ones without a verified fallback.  Judging them at once
\* is judging them in turn, because a cleared circuit still has its errors and
\* is no fallback (OpenMeansThreshold).
Unjustified(g) ==
    LET rows == refresh[g].rows
    IN  IF g \in AutoGateway
        THEN {c \in Channel : IsOpen(rows[c], now) /\ ~HasHealthyFallback(c, rows, now)}
        ELSE {c \in Channel : rows[c].disabledUntil # 0}

RefreshJudge(g) ==
    /\ refresh[g].phase = "read"
    /\ LET clears == Unjustified(g)
       IN  refresh' = [refresh EXCEPT ![g] =
                [phase |-> "clearing",
                 rows |-> [c \in Channel |->
                              IF c \in clears
                              THEN [@.rows[c] EXCEPT !.disabledUntil = 0]
                              ELSE @.rows[c]],
                 clears |-> clears]]
    /\ UNCHANGED <<now, db, lock, serving, routeHealth, pending, job, recovering, spent>>

\* persistRouteCircuitClear, unconditional, one path at a time.
RefreshClear(g, c) ==
    /\ refresh[g].phase = "clearing"
    /\ c \in refresh[g].clears
    /\ db' = [db EXCEPT ![c].disabledUntil = 0]
    /\ refresh' = [refresh EXCEPT ![g].clears = @ \ {c}]
    /\ UNCHANGED <<now, lock, serving, routeHealth, pending, job, recovering, spent>>

\* Faulty variant: circuits the copy holds open survive the refresh.
RefreshInstallKeepingCircuits(g) ==
    /\ refresh[g].phase = "clearing"
    /\ refresh[g].clears = {}
    /\ routeHealth' = [routeHealth EXCEPT ![g] =
            [c \in Channel |-> [refresh[g].rows[c] EXCEPT !.disabledUntil =
                                    Later(@, routeHealth[g][c].disabledUntil)]]]
    /\ refresh' = [refresh EXCEPT ![g] = NoRefresh]
    /\ serving' = [serving EXCEPT ![g] = TRUE]
    /\ UNCHANGED <<now, db, lock, pending, job, recovering, spent>>

\* The snapshot replaces the copy, whatever the copy has learnt meanwhile.
RefreshInstall(g) ==
    /\ refresh[g].phase = "clearing"
    /\ refresh[g].clears = {}
    /\ routeHealth' = [routeHealth EXCEPT ![g] = refresh[g].rows]
    /\ refresh' = [refresh EXCEPT ![g] = NoRefresh]
    /\ serving' = [serving EXCEPT ![g] = TRUE]
    /\ UNCHANGED <<now, db, lock, pending, job, recovering, spent>>

\* A query of the refresh fails; the timer tries again.
RefreshFails(g) ==
    /\ refresh[g].phase = "read" \/ refresh[g].clears # {}
    /\ refresh' = [refresh EXCEPT ![g] = NoRefresh]
    /\ UNCHANGED <<now, db, lock, serving, routeHealth, pending, job, recovering, spent>>

-----------------------------------------------------------------------------
(* The administrator and the process.                                      *)

\* recover changes this instance's copy first; a path it does not know is
\* left alone.
Recover(g, c) ==
    /\ serving[g]
    /\ c \notin recovering[g]
    /\ routeHealth[g][c].lastOutcomeAt # 0
    /\ routeHealth' = [routeHealth EXCEPT ![g][c] = Recovered(@)]
    /\ recovering' = [recovering EXCEPT ![g] = @ \cup {c}]
    /\ Spend("fault")
    /\ UNCHANGED <<now, db, lock, serving, pending, job, refresh>>

RecoverPersist(g, c) ==
    /\ c \in recovering[g]
    /\ db' = [db EXCEPT ![c] = Recovered(@)]
    /\ recovering' = [recovering EXCEPT ![g] = @ \ {c}]
    /\ UNCHANGED <<now, lock, serving, routeHealth, pending, job, refresh, spent>>

RecoverFails(g, c) ==
    /\ c \in recovering[g]
    /\ recovering' = [recovering EXCEPT ![g] = @ \ {c}]
    /\ UNCHANGED <<now, db, lock, serving, routeHealth, pending, job, refresh, spent>>

\* The process dies: its copy, queues and jobs are gone, and MySQL frees a
\* named lock with the connection that held it.
Crash(g) ==
    /\ serving' = [serving EXCEPT ![g] = FALSE]
    /\ routeHealth' = [routeHealth EXCEPT ![g] = [c \in Channel |-> EmptyHealth]]
    /\ pending' = [pending EXCEPT ![g] = [c \in Channel |-> <<>>]]
    /\ job' = [job EXCEPT ![g] = [c \in Channel |-> NoJob]]
    /\ refresh' = [refresh EXCEPT ![g] = NoRefresh]
    /\ recovering' = [recovering EXCEPT ![g] = {}]
    /\ lock' = IF \E c \in Channel : lock = <<g, c>> THEN NoOwner ELSE lock
    /\ Spend("fault")
    /\ UNCHANGED <<now, db>>

-----------------------------------------------------------------------------
HandleFailure(g, c) ==
    \/ AcquireLock(g, c) \/ DecideFailure(g, c) \/ PersistFailure(g, c)
    \/ PersistFailureUnanswered(g, c) \/ RecordConservatively(g, c) \/ PersistConservative(g, c)
    \/ PersistConservativeFails(g, c) \/ FinishFailure(g, c)

HandleSuccess(g, c) ==
    RecordSuccess(g, c) \/ PersistSuccess(g, c) \/ PersistSuccessFails(g, c)

RefreshStep(g) ==
    \/ RefreshRead(g) \/ RefreshJudge(g) \/ RefreshInstall(g)
    \/ \E c \in Channel : RefreshClear(g, c)

DoRefresh(g) == RefreshStep(g) \/ RefreshFails(g)

DoRecover(g, c) == Recover(g, c) \/ RecoverPersist(g, c) \/ RecoverFails(g, c)

Next ==
    \/ Tick
    \/ \E g \in Gateway, c \in Channel :
          \/ \E kind \in {"success", "failure"} : Report(g, c, kind)
          \/ HandleSuccess(g, c)
          \/ HandleFailure(g, c)
          \/ DoRecover(g, c)
    \/ \E g \in Gateway : DoRefresh(g) \/ Crash(g)

Spec == Init /\ [][Next]_vars

\* The timer keeps firing and each query of a round is eventually answered;
\* the rounds do not fail for ever.
RefreshFairness ==
    \A g \in Refreshing : /\ WF_vars(RefreshStep(g))
                          /\ <>[][~RefreshFails(g)]_vars

FairSpec == Spec /\ RefreshFairness

-----------------------------------------------------------------------------
(* Properties.                                                             *)

\* Whatever the instances believe and however their steps interleave, the
\* shared rows never put every channel of a scope out of rotation: the test
\* "two instances with stale caches open at most one path", for any schedule.
NeverAllOpen == \E c \in Channel : ~IsOpen(db[c], now)

\* A path is marked open only on a full run of consecutive failures; recover,
\* refresh and late upserts never leave a marker without the count.
OpenMeansThreshold ==
    \A c \in Channel : db[c].disabledUntil # 0 => db[c].consecutiveErrors = Threshold

\* "lastOutcomeAt guards against a delayed persistence of an older success
\* resetting a newer failure from another process": the failure count goes
\* down only by a success at least as new as every stored failure, or by an
\* administrator's recover.
NewerFailureSurvives ==
    [][\A c \in Channel :
          db[c].consecutiveErrors # 0 /\ db'[c].consecutiveErrors = 0 =>
             \/ db'[c].lastSuccessAt >= db[c].lastFailureAt
             \/ \E g \in Gateway : c \in recovering[g] \ recovering'[g]]_vars

\* "A concurrent successful outcome with a newer timestamp remains
\* authoritative": the count goes up only by a failure that is not older than
\* the last stored success.  The conservative upsert breaks it: for an older
\* failure it sends the timestamps of the copy it kept, which win the race.
NewerSuccessSurvives ==
    [][\A c \in Channel :
          db'[c].consecutiveErrors > db[c].consecutiveErrors =>
             \E g \in Gateway : /\ job'[g][c] # job[g][c]
                                /\ Outcome1(g, c).at >= db[c].lastSuccessAt]_vars

\* A circuit is decided on the shared rows but picks are made on the copy, where
\* another path may still be open that the shared rows have closed: both are
\* then skipped.  An instance so left without a route gets one back from its
\* next refresh.
RouteReturns ==
    \A g \in Refreshing : serving[g] /\ Routable(g) = {} ~>
                            (~serving[g] \/ Routable(g) # {})

\* The shared rows implement the promise of CircuitScope.
OpenPaths == {c \in Channel : IsOpen(db[c], now)}
Scope == INSTANCE CircuitScope WITH open <- OpenPaths
ImplementsScope == Scope!Spec
=============================================================================
