--------------------------- MODULE RouteMonitoring ---------------------------
(* What the gateway says of its routes: the diagnosis beside the pool, and the *)
(* alerts on availability.                                                  *)
EXTENDS Integers, FiniteSets, FiniteSetsExt

-----------------------------------------------------------------------------
(* What the gateway tells its administrators about routing: why a binding is  *)
(* not routable, which circuits are open, how healthy a channel is, the       *)
(* labels of the pages, and the recovery they offer. One instance and one     *)
(* model; how several instances share a circuit is the matter of              *)
(* CircuitBreaker.                                                            *)
CONSTANTS
    Upstream,        \* the channels bound to the model
    Spoken,          \* [Upstream -> the protocols of the channel]
    OpenAt,          \* consecutive errors that open a circuit
    MaxFaultsAtOnce  \* things wrong in the configuration at a time

ASSUME DiagnosisAssumption ==
    /\ OpenAt \in Nat \ {0} /\ MaxFaultsAtOnce \in Nat
    /\ \A c \in Upstream : IsFiniteSet(Spoken[c]) /\ Spoken[c] # {}

VARIABLES
    faults,     \* pairs <<channel, what is wrong with it>> in the tables
    auto,      \* autoCircuitBreakerEnabled
    described, \* routingDiagnostics: the static status of each binding
    pool,      \* modelMap: the channels the model is routed to
    base,      \* channelHealthBase: the status of each channel
    paths,     \* routeHealth: errors in a row and whether the circuit is open
    summed,    \* channelErrors and channelStatus of each channel
    unscoped   \* history: channels whose last outcome fitted no binding

diagnosisVars == <<faults, auto, described, pool, base, paths, summed, unscoped>>

RoutePath == {q \in Upstream \X UNION {Spoken[c] : c \in Upstream} : q[2] \in Spoken[q[1]]}
PathsOf(c) == {<<c, p>> : p \in Spoken[c]}
Errors == 0..OpenAt
Sound == [errors |-> 0, open |-> FALSE]

BindingFaults ==
    {"model_disabled", "route_disabled", "channel_missing", "channel_disabled",
     "account_missing", "account_disabled", "credential_unreadable", "credential_empty"}
ChannelFaults == BindingFaults \ {"model_disabled", "route_disabled"}

DiagnosisTypeOK ==
    /\ faults \subseteq Upstream \X BindingFaults /\ auto \in BOOLEAN
    /\ described \in [Upstream -> BindingFaults \cup {"ready"}]
    /\ pool \subseteq Upstream
    /\ base \in [Upstream ->
                   {"ready", "channel_missing", "disabled", "credential_unreadable"}]
    /\ paths \in [RoutePath -> [errors : Errors, open : BOOLEAN]]
    /\ summed \in [Upstream -> [errors : Errors, open : BOOLEAN]]
    /\ unscoped \subseteq Upstream

-----------------------------------------------------------------------------
\* The checks of refresh in their order: the first that fails is the status.
Order == <<"model_disabled", "route_disabled", "channel_missing", "channel_disabled",
           "account_missing", "account_disabled", "credential_unreadable",
           "credential_empty">>
FirstFault(c, ws, kinds) ==
    LET found == {i \in DOMAIN Order : Order[i] \in kinds /\ <<c, Order[i]>> \in ws}
    IN IF found = {} THEN "ready" ELSE Order[Min(found)]

StaticStatus(c, ws) == FirstFault(c, ws, BindingFaults)
BaseStatus(c, ws) ==
    LET f == FirstFault(c, ws, ChannelFaults)
    IN CASE f \in {"ready", "channel_missing"} -> f
         [] f \in {"credential_unreadable", "credential_empty"} -> "credential_unreadable"
         [] OTHER -> "disabled"

\* hasHealthyFallbackForPathInMap: another routed channel with a sound path (every path
\* has succeeded before).
BaseFallsBack(path, inPool, ps) ==
    \E c \in inPool \ {path[1]} :
        path[2] \in Spoken[c] /\ ps[<<c, path[2]>>] = Sound

\* Faulty variant: the summary of a channel is that of its last outcome.
LastPathOnly(c, ps) ==
    LET p == CHOOSE q \in PathsOf(c) : TRUE IN ps[p]

\* The worst of the paths of a channel.
SummaryOf(c, ps) ==
    [errors |-> Max({ps[q].errors : q \in PathsOf(c)}),
     open |-> \E q \in PathsOf(c) : ps[q].open]

DiagnosisInit ==
    /\ faults = {} /\ auto \in BOOLEAN
    /\ described = [c \in Upstream |-> "ready"] /\ pool = Upstream
    /\ base = [c \in Upstream |-> "ready"]
    /\ paths = [q \in RoutePath |-> Sound]
    /\ summed = [c \in Upstream |-> Sound] /\ unscoped = {}

\* An administrator changes a table.
Configure(c, kind) ==
    /\ faults' = IF <<c, kind>> \in faults THEN faults \ {<<c, kind>>}
              ELSE faults \cup {<<c, kind>>}
    /\ Cardinality(faults') <= MaxFaultsAtOnce
    /\ UNCHANGED <<auto, described, pool, base, paths, summed, unscoped>>

\* refresh, every minute and after a change here: the tables are read, circuits without
\* a healthy fallback are closed, one after the other, the summary is made anew.
StaysOpen(q) == auto' /\ BaseFallsBack(q, pool', paths)
RefreshPool ==
    /\ described' = [c \in Upstream |-> StaticStatus(c, faults)]
    /\ pool' = {c \in Upstream : described'[c] = "ready"}
    /\ base' = [c \in Upstream |-> BaseStatus(c, faults)]
    /\ paths' = [q \in RoutePath |-> [paths[q] EXCEPT !.open = @ /\ StaysOpen(q)]]
    /\ summed' = [c \in Upstream |-> SummaryOf(c, paths')]
    /\ unscoped' = {}
    /\ UNCHANGED faults
RefreshTables == UNCHANGED auto /\ RefreshPool

\* The gateway is started with the other setting.
Restart == auto' = ~auto /\ RefreshPool

\* recordChannelSummary after an outcome of a path
Summed(c, ps) == summed' = [summed EXCEPT ![c] = SummaryOf(c, ps)] /\ unscoped' = unscoped \ {c}

RouteSucceeds(q) ==
    /\ q[1] \in pool
    /\ paths' = [paths EXCEPT ![q] = Sound]
    /\ Summed(q[1], paths')
    /\ UNCHANGED <<faults, auto, described, pool, base>>

Opens(q, errors) == auto /\ errors >= OpenAt /\ BaseFallsBack(q, pool, paths)
RouteFails(q) ==
    /\ q[1] \in pool
    /\ LET errors == Min({OpenAt, paths[q].errors + 1})
       IN paths' = [paths EXCEPT ![q].errors = errors,
                                 ![q].open = @ \/ Opens(q, errors)]
    /\ Summed(q[1], paths')
    /\ UNCHANGED <<faults, auto, described, pool, base>>

\* The outcome of a request whose binding is gone meanwhile counts for the channel alone.
LateOutcome(c, ok) ==
    /\ c \notin pool
    /\ summed' = [summed EXCEPT ![c].errors = IF ok THEN 0 ELSE Min({OpenAt, @ + 1}),
                                ![c].open = SummaryOf(c, paths).open]
    /\ unscoped' = unscoped \cup {c}
    /\ UNCHANGED <<faults, auto, described, pool, base, paths>>

\* disabledUntil passes: for the path and for the channel whose last open path it is.
CircuitExpires(q) ==
    /\ paths[q].open
    /\ paths' = [paths EXCEPT ![q].open = FALSE]
    /\ summed' = [summed EXCEPT ![q[1]].open = @ /\ SummaryOf(q[1], paths').open]
    /\ UNCHANGED <<faults, auto, described, pool, base, unscoped>>

\* Faulty variant: one path of the channel is recovered.
RecoverOne(c) ==
    /\ LET q == CHOOSE q \in PathsOf(c) : TRUE
       IN paths' = [paths EXCEPT ![q] = Sound]
    /\ summed' = [summed EXCEPT ![c] = Sound]
    /\ unscoped' = unscoped \ {c}
    /\ UNCHANGED <<faults, auto, described, pool, base>>

Recover(c) ==
    /\ paths' = [q \in RoutePath |-> IF q[1] = c THEN Sound ELSE paths[q]]
    /\ summed' = [summed EXCEPT ![c] = Sound]
    /\ unscoped' = unscoped \ {c}
    /\ UNCHANGED <<faults, auto, described, pool, base>>

DiagnosisNext ==
    \/ \E c \in Upstream :
          \/ \E kind \in BindingFaults : Configure(c, kind)
          \/ \E ok \in BOOLEAN : LateOutcome(c, ok)
          \/ Recover(c)
    \/ RefreshTables \/ Restart
    \/ \E q \in RoutePath : RouteSucceeds(q) \/ RouteFails(q) \/ CircuitExpires(q)

DiagnosisSpec == DiagnosisInit /\ [][DiagnosisNext]_diagnosisVars

-----------------------------------------------------------------------------
\* pick: the paths a request is sent on
Pickable == {q \in RoutePath : q[1] \in pool /\ ~paths[q].open}

\* Faulty variant: one open circuit takes the binding out.
AnyDisabled(c) == \E q \in PathsOf(c) : paths[q].open

\* describe
AllDisabled(c) == \A q \in PathsOf(c) : paths[q].open
BindingStatus(c) ==
    IF described[c] # "ready" THEN described[c]
    ELSE IF AllDisabled(c) THEN "temporarily_disabled" ELSE "available"

\* routingStatusType of the model page
AvailableBindings == {c \in Upstream : BindingStatus(c) = "available"}
RoutingTag ==
    CASE Upstream # {} /\ AvailableBindings = Upstream -> "success"
      [] AvailableBindings = {} -> "danger"
      [] OTHER -> "warning"

\* health and canRecover
HealthStatus(c) ==
    IF base[c] # "ready" THEN base[c]
    ELSE IF summed[c].open THEN "circuit_open"
    ELSE IF summed[c].errors > 0 THEN "degraded" ELSE "healthy"
CanRecover(c) == HealthStatus(c) \in {"degraded", "circuit_open"}

\* healthLabel of the page: degraded without the circuit breaker is still routed.
HealthLabel(c) ==
    IF HealthStatus(c) = "degraded" /\ ~auto THEN "degraded, still routed"
    ELSE HealthStatus(c)

\* The model page and the router agree: a binding called available is picked for some
\* protocol, one called temporarily disabled or anything else for none, and what the
\* list of models gives as routable is what may be routed once circuits close.
DiagnosisIsRouting ==
    /\ \A c \in Upstream :
          BindingStatus(c) = "available" <=> \E q \in PathsOf(c) : q \in Pickable
    /\ {c \in Upstream : BindingStatus(c) \in {"available", "temporarily_disabled"}} = pool
    /\ RoutingTag = "danger" <=> Pickable = {}

\* The channel page hides no path: what it shows of a channel is the worst of its paths,
\* after outcomes in any order, expiry, recovery and refresh; only the outcome of a
\* request that outlived its binding is counted apart, until the next refresh. A
\* channel labelled as still routed has no path out of the rotation.
WorstPathShown ==
    /\ \A c \in Upstream \ unscoped, q \in RoutePath :
          q[1] = c => /\ summed[c].errors >= paths[q].errors
                      /\ paths[q].open => summed[c].open
    /\ \A c \in Upstream \ unscoped :
          \E q \in PathsOf(c) : summed[c].errors = paths[q].errors
    /\ \A c \in Upstream : HealthLabel(c) = "degraded, still routed" /\ c \in pool
                              => PathsOf(c) \subseteq Pickable
    /\ \A c \in Upstream, q \in RoutePath :
          q[1] = c /\ base[c] = "ready" /\ paths[q].open => CanRecover(c)

-----------------------------------------------------------------------------
(***************************************************************************)
(* One alert of AvailabilityMonitoringService: every minute, and on        *)
(* request, an instance reads the counts of the last window and then, in a *)
(* transaction that locks the state of the alert, moves it.  Instances may *)
(* evaluate at once and one may be slow between its reading and its        *)
(* transaction.  The counts of one channel stand for a window.             *)
(***************************************************************************)
CONSTANTS
    Evaluator,    \* instances of the gateway
    Window,       \* counts a window may show: [successes, failures]
    Suppression,  \* 30 in the code, in minutes
    MaxMinute     \* bound on the minutes explored

ASSUME AlertAssumption == Suppression \in Nat /\ MaxMinute \in Nat

RecoveryWindows == 2
NoMinute == 0

VARIABLES
    minute,      \* the clock
    evaluation,  \* what each instance is evaluating
    alert,       \* row of availability_alert_states
    tally        \* history: [healthy: minutes counted since a failure, triggered: last event, late]

AlertVars == <<minute, evaluation, alert, tally>>

Minute == 1..MaxMinute
NoEvaluation == [at |-> NoMinute, verdict |-> "none", wasActive |-> FALSE]

AlertTypeOK ==
    /\ minute \in Minute
    /\ evaluation \in [Evaluator -> [at : Minute \cup {NoMinute}, wasActive : BOOLEAN,
                                     verdict : {"none", "finding", "recovery"}]]
    /\ alert \in [active : BOOLEAN, healthy : 0..(RecoveryWindows - 1), key : Minute \cup {NoMinute},
                  triggered : Minute \cup {NoMinute}]
    /\ tally \in [healthy : SUBSET Minute, triggered : Minute \cup {NoMinute}, late : BOOLEAN]

AlertInit ==
    /\ minute = 1
    /\ evaluation = [e \in Evaluator |-> NoEvaluation]
    /\ alert = [active |-> FALSE, healthy |-> 0, key |-> NoMinute, triggered |-> NoMinute]
    /\ tally = [healthy |-> {}, triggered |-> NoMinute, late |-> FALSE]

-----------------------------------------------------------------------------
(* availability-alert.policy.ts                                            *)

\* Percent of successes with two digits, times 100.
Rate(w) ==
    LET n == w.successes + w.failures
    IN  (20000 * w.successes + n) \div (2 * n)

Finding(w) == w.failures >= 3 /\ Rate(w) < 9500

\* An empty window, or one with any failure of the kind, proves nothing.
Recovery(w) == w.successes > 0 /\ w.failures = 0 /\ Rate(w) >= 9500

AlertVerdict(w) == IF Finding(w) THEN "finding" ELSE IF Recovery(w) THEN "recovery" ELSE "none"

-----------------------------------------------------------------------------
\* evaluate: one at a time in an instance.
ReadWindow(e, w) ==
    /\ evaluation[e] = NoEvaluation
    /\ evaluation' = [evaluation EXCEPT ![e] =
           [at |-> minute, verdict |-> AlertVerdict(w), wasActive |-> alert.active]]
    /\ UNCHANGED <<minute, alert, tally>>

Applied(e) ==
    /\ evaluation' = [evaluation EXCEPT ![e] = NoEvaluation]
    /\ UNCHANGED minute

\* Faulty variant: every evaluation counts, also a second one of the same minute.
AnyEvaluation(e) == TRUE

\* lastEvaluationKey: a second evaluation of the same minute is ignored.
NewEvaluation(e) == alert.key # evaluation[e].at

\* An instance that was overtaken by a later minute still counts.
Late(e) == alert.key > evaluation[e].at

\* Faulty variant: the time of the last event is taken from the last activation.
SuppressedByActivation(e) ==
    alert.triggered # NoMinute /\ evaluation[e].at = alert.triggered

Suppressed(e) ==
    alert.triggered # NoMinute /\ evaluation[e].at - alert.triggered < Suppression

TransitionFailure(e) ==
    /\ evaluation[e].verdict = "finding"
    /\ IF NewEvaluation(e)
       THEN LET triggers == ~alert.active /\ ~Suppressed(e)
            IN  /\ alert' = [active |-> TRUE, healthy |-> 0, key |-> evaluation[e].at,
                             triggered |-> IF triggers THEN evaluation[e].at ELSE alert.triggered]
                /\ tally' = [healthy |-> {}, late |-> tally.late \/ Late(e),
                             triggered |-> IF triggers THEN evaluation[e].at ELSE tally.triggered]
       ELSE UNCHANGED <<alert, tally>>
    /\ Applied(e)

\* Faulty variant: one window too many.
EnoughMore(healthy) == healthy > RecoveryWindows

Enough(healthy) == healthy >= RecoveryWindows

TransitionHealthy(e) ==
    /\ evaluation[e].verdict = "recovery" /\ evaluation[e].wasActive
    /\ IF alert.active /\ NewEvaluation(e)
       THEN LET recovers == Enough(alert.healthy + 1)
            IN  /\ alert' = [alert EXCEPT !.key = evaluation[e].at, !.active = ~recovers,
                                          !.healthy = IF recovers THEN 0 ELSE @ + 1]
                /\ tally' = [tally EXCEPT !.healthy = @ \cup {evaluation[e].at},
                                          !.late = @ \/ Late(e)]
       ELSE UNCHANGED <<alert, tally>>
    /\ Applied(e)

\* Nothing to do, or the evaluation failed, or the instance stopped.
EndEvaluation(e) ==
    /\ evaluation[e] # NoEvaluation
    /\ UNCHANGED <<alert, tally>>
    /\ Applied(e)

NextMinute ==
    /\ minute < MaxMinute
    /\ minute' = minute + 1
    /\ UNCHANGED <<evaluation, alert, tally>>

AlertNext ==
    \/ \E e \in Evaluator :
          \/ \E w \in Window : ReadWindow(e, w)
          \/ TransitionFailure(e)
          \/ TransitionHealthy(e)
          \/ EndEvaluation(e)
    \/ NextMinute

AlertSpec == AlertInit /\ [][AlertNext]_AlertVars

-----------------------------------------------------------------------------
\* An alert is over only after healthy evaluations of two minutes with no failure
\* found between them, however many instances evaluate the same minute.  Only an
\* evaluation overtaken by a later minute can make one minute count twice.
RecoversAfterTwoMinutes ==
    [][alert.active /\ ~alert'.active /\ ~tally'.late =>
        Cardinality(tally'.healthy) >= RecoveryWindows]_AlertVars

\* Operators hear of an alert that comes and goes at most once per suppression
\* time, though it may become active again meanwhile.
EventsSuppressed ==
    [][tally'.triggered # tally.triggered /\ tally.triggered # NoMinute /\ ~tally'.late =>
        tally'.triggered - tally.triggered >= Suppression]_AlertVars

\* Two instances that evaluate the same minutes raise one alert, and end it only after
\* two minutes that were good in a row.
AlertsHold == RecoversAfterTwoMinutes /\ EventsSuppressed
=============================================================================
