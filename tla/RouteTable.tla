------------------------------- MODULE RouteTable -------------------------------
(***************************************************************************)
(* The routes a gateway picks from: ChannelPoolService.refresh rebuilds    *)
(* them from the rows every minute and after every edit made in the same   *)
(* instance.  A refresh reads channels, models and accounts, then the      *)
(* bindings, and installs the result; refreshes of one instance overlap.   *)
(* One instance and one model; whether circuits let a route be picked is   *)
(* in CircuitBreaker.                                                      *)
(***************************************************************************)
EXTENDS Naturals

CONSTANTS
    Refresh,  \* refreshes that may be under way at once
    Channel,
    MaxEvent  \* edits and failed reads

VARIABLES
    rows,    \* channels: there, enabled; bound: the model_routes of the model
    table,   \* modelMap: the channels of the model
    refresh, \* refreshes under way
    events   \* history: edits and failed reads so far

RouteVars == <<rows, table, refresh, events>>

NoRefresh == [phase |-> "idle", enabled |-> {}, bound |-> {}]

RouteTypeOK ==
    /\ rows \in [there : SUBSET Channel, enabled : SUBSET Channel, bound : SUBSET Channel]
    /\ table \subseteq Channel
    /\ refresh \in [Refresh -> [phase : {"idle", "rows", "bindings", "install"},
                                enabled : SUBSET Channel, bound : SUBSET Channel]]
    /\ events \in 0..MaxEvent

RouteInit ==
    /\ rows = [there |-> Channel, enabled |-> Channel, bound |-> {}]
    /\ table = {}
    /\ refresh = [r \in Refresh |-> NoRefresh]
    /\ events = 0

-----------------------------------------------------------------------------
Becomes(r, state) == refresh' = [refresh EXCEPT ![r] = state]
Started == [NoRefresh EXCEPT !.phase = "rows"]

\* The timer of the instance; refreshes that still run do not hold it up.
Tick(r) ==
    /\ refresh[r].phase = "idle"
    /\ Becomes(r, Started)
    /\ UNCHANGED <<rows, table, events>>

\* channels, models and accounts; a channel counts when it and its account are on.
ReadRows(r) ==
    /\ refresh[r].phase = "rows"
    /\ Becomes(r, [refresh[r] EXCEPT !.phase = "bindings", !.enabled = rows.enabled])
    /\ UNCHANGED <<rows, table, events>>

\* ModelRouteStore.bindingsByModel
ReadBindings(r) ==
    /\ refresh[r].phase = "bindings"
    /\ Becomes(r, [refresh[r] EXCEPT !.phase = "install", !.bound = rows.bound])
    /\ UNCHANGED <<rows, table, events>>

\* Faulty variant: the last route is never taken away.
RoutesOfKeeping(state) ==
    IF state.bound \cap state.enabled = {} THEN table ELSE state.bound \cap state.enabled

\* Bindings whose channel is there, enabled, with an account that takes part.
RoutesOf(state) == state.bound \cap state.enabled

\* The maps are replaced after the awaits, whatever was installed in between.
Install(r) ==
    /\ refresh[r].phase = "install"
    /\ table' = RoutesOf(refresh[r])
    /\ Becomes(r, NoRefresh)
    /\ UNCHANGED <<rows, events>>

\* A read fails: the table stays, the next tick repairs it.
RefreshFails(r) ==
    /\ refresh[r].phase \in {"rows", "bindings"} /\ events < MaxEvent
    /\ events' = events + 1
    /\ Becomes(r, NoRefresh)
    /\ UNCHANGED <<rows, table>>

\* A handler saves rows and refreshes the pool of its own instance, this or another.
Edited(new) ==
    /\ events < MaxEvent
    /\ events' = events + 1
    /\ rows' = new
    /\ \/ UNCHANGED refresh
       \/ \E r \in Refresh : refresh[r].phase = "idle" /\ Becomes(r, Started)
    /\ UNCHANGED table

\* ChannelController.update, and an account put in or out of the routing.
SwitchChannel(c) ==
    /\ c \in rows.there
    /\ Edited([rows EXCEPT !.enabled = IF c \in @ THEN @ \ {c} ELSE @ \cup {c}])

\* modelNamesReferencingChannel, with the foreign key behind it: ON DELETE RESTRICT.
RemoveChannel(c) ==
    /\ c \in rows.there \ rows.bound
    /\ Edited([rows EXCEPT !.there = @ \ {c}, !.enabled = @ \ {c}])

CreateChannel(c) ==
    /\ c \notin rows.there
    /\ Edited([rows EXCEPT !.there = @ \cup {c}, !.enabled = @ \cup {c}])

\* ModelConfigController.create, update and remove: bindings to channels that exist.
BindModel(bound) ==
    /\ bound \subseteq rows.there /\ bound # rows.bound
    /\ Edited([rows EXCEPT !.bound = bound])

RouteNext ==
    \/ \E r \in Refresh :
          Tick(r) \/ ReadRows(r) \/ ReadBindings(r) \/ Install(r) \/ RefreshFails(r)
    \/ \E c \in Channel : SwitchChannel(c) \/ RemoveChannel(c) \/ CreateChannel(c)
    \/ \E bound \in SUBSET Channel : BindModel(bound)

RouteSpec ==
    /\ RouteInit /\ [][RouteNext]_RouteVars
    /\ WF_RouteVars(\E r \in Refresh : Tick(r))
    /\ \A r \in Refresh : WF_RouteVars(ReadRows(r) \/ ReadBindings(r) \/ Install(r))

-----------------------------------------------------------------------------
\* Once nothing is edited and nothing fails any more, the routes become those of
\* the rows and stay so: a refresh that read the rows before an edit and installs
\* them after it, an edit made through another instance, a refresh that failed are
\* all made good by the timer, routes taken away included.
EditsArrive == <>[](table = rows.bound \cap rows.enabled)
=============================================================================
