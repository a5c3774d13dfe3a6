---------------------------- MODULE ServiceGateway ----------------------------
(***************************************************************************)
(* ApplicationGateway in front of the services of one application: a call  *)
(* is resolved against the registry, authorised, and only then the         *)
(* registry is asked again which deployment takes it; in between operators *)
(* publish, switch and disable versions and deployers rewrite the list of  *)
(* deployments.  Every call leaves one observation, written by the bounded *)
(* queue of ServiceTelemetry.  An operation is a path of the application.  *)
(***************************************************************************)
EXTENDS Naturals, FiniteSets

CONSTANTS
    Call,
    Route,      \* per version of the service the paths of its operations
    Endpoint,   \* deployments
    Capacity    \* of the queue, 1024 in the code

ASSUME GatewayAssumption == Capacity \in Nat \ {0} /\ IsFiniteSet(Call)

Release == DOMAIN Route
Path == UNION {Route[v] : v \in Release}
Nowhere == "nowhere"
Inactive == 0

VARIABLES
    catalog,   \* ServiceRegistry.state: published versions, the active one, its binding
    declared,  \* the deployment file: versions each deployment declares
    call,
    governed,  \* history: paths some call was ever sent to a service at
    telemetry  \* the queue, with what became of its events

GatewayVars == <<catalog, declared, call, governed, telemetry>>

Unbound == [endpoint |-> Nowhere, digest |-> {}]
NewCall == [phase |-> "new", path |-> Nowhere, version |-> Inactive, to |-> Nowhere,
            overtaken |-> FALSE]

GatewayTypeOK ==
    /\ catalog \in [published : SUBSET Release, active : Release \cup {Inactive},
                    binding : [endpoint : Endpoint \cup {Nowhere}, digest : SUBSET Release]]
    /\ declared \in [Endpoint -> SUBSET Release]
    /\ call \in [Call ->
           [phase : {"new", "resolved", "direct", "sent", "done"}, path : Path \cup {Nowhere},
            version : Release \cup {Inactive}, to : Endpoint \cup {Nowhere, "upstream"},
            overtaken : BOOLEAN]]
    /\ governed \subseteq Path
    /\ telemetry \in [pending : 0..Capacity, stored : Nat, dropped : Nat]

GatewayInit ==
    /\ catalog = [published |-> {}, active |-> Inactive, binding |-> Unbound]
    /\ declared = [e \in Endpoint |-> {}]
    /\ call = [c \in Call |-> NewCall]
    /\ governed = {}
    /\ telemetry = [pending |-> 0, stored |-> 0, dropped |-> 0]

-----------------------------------------------------------------------------
(* Operators and deployers.                                                *)

\* Calls between their two looks at the registry are overtaken by a change.
Overtake ==
    call' = [c \in Call |-> [call[c] EXCEPT !.overtaken = @ \/ call[c].phase = "resolved"]]

PublishRelease(v) ==
    /\ v \notin catalog.published
    /\ catalog' = [catalog EXCEPT !.published = @ \cup {v}]
    /\ UNCHANGED <<declared, call, governed, telemetry>>

\* ServiceDeploymentCatalog.binding: the deployment declares the version.
Switch(v, e) ==
    /\ v \in catalog.published \cap declared[e]
    /\ catalog' = [catalog EXCEPT
           !.active = v, !.binding = [endpoint |-> e, digest |-> declared[e]]]
    /\ Overtake
    /\ UNCHANGED <<declared, governed, telemetry>>

SwitchOff ==
    /\ catalog.active # Inactive
    /\ catalog' = [catalog EXCEPT !.active = Inactive, !.binding = Unbound]
    /\ Overtake
    /\ UNCHANGED <<declared, governed, telemetry>>

Redeploy(e, versions) ==
    /\ declared[e] # versions
    /\ declared' = [declared EXCEPT ![e] = versions]
    /\ Overtake
    /\ UNCHANGED <<catalog, governed, telemetry>>

-----------------------------------------------------------------------------
(* A call.                                                                 *)

Found(path) == catalog.active # Inactive /\ path \in Route[catalog.active]

\* Faulty variant: only what is in use counts as claimed.
ClaimedNow(path) == Found(path)

\* Paths of older versions, too, belong to the service center for good.
Claimed(path) == \E v \in catalog.published : path \in Route[v]

\* Faulty variant: the queue takes one more than it holds.
ObservedUnbounded ==
    telemetry' = IF telemetry.pending <= Capacity
                 THEN [telemetry EXCEPT !.pending = @ + 1]
                 ELSE [telemetry EXCEPT !.dropped = @ + 1]

\* The last step of a call: its answer, whatever it is, leaves one observation,
\* dropped when the queue is full.
Observed ==
    telemetry' = IF telemetry.pending < Capacity
                 THEN [telemetry EXCEPT !.pending = @ + 1]
                 ELSE [telemetry EXCEPT !.dropped = @ + 1]

End(c) ==
    /\ call' = [call EXCEPT ![c] = [NewCall EXCEPT !.phase = "done"]]
    /\ Observed
    /\ UNCHANGED <<catalog, declared, governed>>

Resolve(c, path, allowUnregistered) ==
    /\ call[c].phase = "new"
    /\ Found(path) \/ (allowUnregistered /\ ~Claimed(path))
    /\ call' = [call EXCEPT ![c].phase = IF Found(path) THEN "resolved" ELSE "direct",
                            ![c].path = path,
                            ![c].version = IF Found(path) THEN catalog.active ELSE @]
    /\ UNCHANGED <<catalog, declared, governed, telemetry>>

\* No session, no such application, path or operation.
NotFound(c) == call[c].phase = "new" /\ End(c)

\* Not allowed for the user, the method or an upgrade, or without a token.
Forbidden(c) == call[c].phase \in {"resolved", "direct"} /\ End(c)

\* Faulty variant: the deployment is looked up, but not compared.
IntactUnchecked == catalog.binding.endpoint # Nowhere

\* ServiceDeploymentCatalog.resolve: the deployment is the one that was bound,
\* record for record, and still declares the active version.
Intact ==
    /\ catalog.binding.endpoint # Nowhere
    /\ declared[catalog.binding.endpoint] = catalog.binding.digest
    /\ catalog.active \in declared[catalog.binding.endpoint]

Send(c) ==
    /\ call[c].phase = "resolved"
    /\ catalog.active # Inactive
    /\ Intact
    /\ call' = [call EXCEPT ![c].phase = "sent", ![c].to = catalog.binding.endpoint]
    /\ governed' = governed \cup {call[c].path}
    /\ UNCHANGED <<catalog, declared, telemetry>>

\* 404 when it was switched off, 503 when the binding does not fit.
NoDeployment(c) ==
    /\ call[c].phase = "resolved"
    /\ catalog.active = Inactive \/ ~Intact
    /\ End(c)

SendUpstream(c) ==
    /\ call[c].phase = "direct"
    /\ call' = [call EXCEPT ![c].phase = "sent", ![c].to = "upstream"]
    /\ UNCHANGED <<catalog, declared, governed, telemetry>>

\* Complete, failed or cancelled by the client.
Answered(c) == call[c].phase = "sent" /\ End(c)

\* Faulty variant: a failed write is forgotten.
WriteEventSilently(failed) ==
    /\ telemetry.pending > 0
    /\ telemetry' = [telemetry EXCEPT !.pending = @ - 1,
                         !.stored = IF failed THEN @ ELSE @ + 1]
    /\ UNCHANGED <<catalog, declared, call, governed>>

\* The worker of the queue; a failed write is counted as dropped.
WriteEvent(failed) ==
    /\ telemetry.pending > 0
    /\ telemetry' = [telemetry EXCEPT !.pending = @ - 1,
                         !.stored = IF failed THEN @ ELSE @ + 1,
                         !.dropped = IF failed THEN @ + 1 ELSE @]
    /\ UNCHANGED <<catalog, declared, call, governed>>

GatewayNext ==
    \/ \E v \in Release : PublishRelease(v) \/ \E e \in Endpoint : Switch(v, e)
    \/ SwitchOff
    \/ \E e \in Endpoint, versions \in SUBSET Release : Redeploy(e, versions)
    \/ \E c \in Call :
          \/ \E path \in Path, allow \in BOOLEAN : Resolve(c, path, allow)
          \/ NotFound(c)
          \/ Forbidden(c)
          \/ Send(c)
          \/ NoDeployment(c)
          \/ SendUpstream(c)
          \/ Answered(c)
    \/ \E failed \in BOOLEAN : WriteEvent(failed)

GatewaySpec == GatewayInit /\ [][GatewayNext]_GatewayVars

-----------------------------------------------------------------------------
\* A call reaches a deployment that does not declare the version it was resolved
\* to only when the catalogue or the deployments changed between its two looks
\* at the registry: a binding gone stale never sends it there by itself.
MismatchOnlyWhenOvertaken ==
    [][\A c \in Call :
        /\ call[c].phase = "resolved" /\ call'[c].phase = "sent"
        /\ call[c].version \notin declared[call'[c].to]
        => call[c].overtaken]_GatewayVars

\* A path that was ever served by a service is never again forwarded past the
\* service center: switching off the version that had it, or switching to one
\* without it, does not bring the direct connection back.
GovernedForGood ==
    [][\A c \in Call :
        call[c].phase = "new" /\ call'[c].phase = "direct" =>
            call'[c].path \notin governed]_GatewayVars

\* Every call that ended left exactly one observation, which is waiting, stored
\* or counted as dropped.
EveryCallObserved ==
    Cardinality({c \in Call : call[c].phase = "done"})
        = telemetry.pending + telemetry.stored + telemetry.dropped

\* Calls stay under the catalogue: a path that was claimed stays so, a call is sent to
\* the wrong deployment only when it was overtaken, and every call is counted.
CallsAreGoverned == []EveryCallObserved /\ MismatchOnlyWhenOvertaken /\ GovernedForGood
=============================================================================
