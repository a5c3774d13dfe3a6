--------------------------- MODULE ServiceRegistry ---------------------------
(***************************************************************************)
(* The service centre of mg-platform-kernel: ServiceRegistry.java over     *)
(* PostgresServiceRegistryStorage.java, with several environments in one   *)
(* database.                                                               *)
(*                                                                         *)
(* Versions of services and their lifecycles are shared by all             *)
(* environments; each environment binds at most one version of a service   *)
(* to an endpoint.  Every change runs in one transaction that takes the    *)
(* global advisory lock first and then rereads the state, so a change is   *)
(* one action.  What is not serialised is the operator's page: it shows    *)
(* revisions read earlier, and what is submitted from it may be stale or   *)
(* sent twice.  Snapshots of an environment are exported at one time and   *)
(* imported into a new environment at another.                             *)
(*                                                                         *)
(* A version's manifest and contract never change (publishing other        *)
(* content under the same version is refused), so a version stands for its *)
(* content, and the checks of breaking changes, which an operator may      *)
(* confirm, are left out.  Bounds: MaxRevision (of a binding),             *)
(* MaxLifecycleRevision, LastDay.                                          *)
(***************************************************************************)
EXTENDS Naturals

CONSTANTS
    Environment,
    Operator,     \* administrators with a page open
    Publication,  \* pairs <<service, version>> that may be registered
    Endpoint,     \* deployed endpoints a binding may name
    Overlaps,     \* pairs of publications whose routes conflict
    SameRoute,    \* those with an identical normalised route
    LocalCatalog, \* catalogues of local JSON stores, ready to be imported
    Exporting,    \* environments whose catalogue is exported
    Absent, Disabled, NoEndpoint, NoForm, NoArchive,
    MaxRevision, MaxLifecycleRevision, LastDay

Service == {p[1] : p \in Publication}
Version == {p[2] : p \in Publication}

ASSUME PublicationAssumption == \A p \in Publication : p = <<p[1], p[2]>>
ASSUME MarkerAssumption == Absent \notin Version /\ Disabled \notin Version
ASSUME RouteAssumption ==
    /\ SameRoute \subseteq Overlaps
    /\ \A p, q \in Publication : <<p, q>> \in Overlaps => <<q, p>> \in Overlaps
    /\ \A p, q \in Publication : <<p, q>> \in Overlaps => p[1] # q[1]
ASSUME BoundAssumption ==
    MaxRevision \in Nat /\ MaxLifecycleRevision \in Nat /\ LastDay \in Nat \ {0}

\* A row of service_version_lifecycles; retireAfter 0 is no planned date.
Lifecycle ==
    [status : {"draft", "published", "deprecated", "retired"},
     revision : Nat, retireAfter : Nat]

\* A version without a row counts as published.
Historic == [status |-> "published", revision |-> 0, retireAfter |-> 0]
Draft == [status |-> "draft", revision |-> 0, retireAfter |-> 0]

\* The catalogue of one environment, as list, export and import see it.
Catalog ==
    [publications : SUBSET Publication,
     recorded : SUBSET Publication,
     lifecycles : [Publication -> Lifecycle],
     active : [Service -> Version \cup {Absent, Disabled}],
     bindings : [Service -> Endpoint \cup {NoEndpoint}],
     revisions : [Service -> Nat]]

ASSUME CatalogAssumption == LocalCatalog \subseteq Catalog

VARIABLES
    today,        \* the UTC date
    environments, \* service_environments: those that exist
    publications, \* service_publications
    recorded,     \* versions with a row in service_version_lifecycles
    lifecycles,   \* their lifecycle, Historic without a row
    active,       \* service_bindings.version; Absent is no row, Disabled null
    bindings,     \* service_bindings.endpoint_ref
    revisions,    \* service_bindings.revision
    form,         \* what each operator's page shows
    archive       \* the last exported catalogue

shared == <<publications, recorded, lifecycles>>
perEnvironment == <<active, bindings, revisions>>
vars == <<today, environments, shared, perEnvironment, form, archive>>

\* What a page shows of a version and of its service in an environment.  Only
\* the two revisions are sent back; the rest says what the operator believes.
Form ==
    [environment : Environment, publication : Publication,
     active : Version \cup {Absent, Disabled}, binding : Endpoint \cup {NoEndpoint},
     revision : Nat, lifecycle : Lifecycle]

TypeOK ==
    /\ today \in 1..LastDay
    /\ environments \subseteq Environment
    /\ publications \subseteq Publication
    /\ recorded \subseteq Publication
    /\ lifecycles \in [Publication -> Lifecycle]
    /\ active \in [Environment -> [Service -> Version \cup {Absent, Disabled}]]
    /\ bindings \in [Environment -> [Service -> Endpoint \cup {NoEndpoint}]]
    /\ revisions \in [Environment -> [Service -> Nat]]
    /\ form \in [Operator -> Form \cup {NoForm}]
    /\ archive \in Catalog \cup {NoArchive}

\* A database with the schema and no environment yet.
Init ==
    /\ today = 1
    /\ environments = {}
    /\ publications = {}
    /\ recorded = {}
    /\ lifecycles = [p \in Publication |-> Historic]
    /\ active = [e \in Environment |-> [s \in Service |-> Absent]]
    /\ bindings = [e \in Environment |-> [s \in Service |-> NoEndpoint]]
    /\ revisions = [e \in Environment |-> [s \in Service |-> 0]]
    /\ form = [o \in Operator |-> NoForm]
    /\ archive = NoArchive

-----------------------------------------------------------------------------
Unusable(lifecycle) == lifecycle.status \in {"draft", "retired"}

\* The environment routes calls to this version.
Uses(e, p) == active[e][p[1]] = p[2]

Users(p) == {e \in environments : Uses(e, p)}

\* requireState accepts what is stored: without it every request fails.
Loadable(e) ==
    /\ e \in environments
    /\ \A p \in Publication : Uses(e, p) => p \in publications /\ ~Unusable(lifecycles[p])
    /\ \A s \in Service : active[e][s] = Disabled => \E p \in publications : p[1] = s

\* Faulty variant: the conflict is looked for in the service's own versions.
NoConflictOwn(e, p, conflict) ==
    \A q \in Publication : Uses(e, q) /\ q[1] = p[1] => <<p, q>> \notin conflict

\* No other service in use shares a route with p.
NoConflict(e, p, conflict) ==
    \A q \in Publication : Uses(e, q) /\ q[1] # p[1] => <<p, q>> \notin conflict

NextRow(p, status, retireAfter) ==
    /\ lifecycles[p].revision < MaxLifecycleRevision
    /\ lifecycles' = [lifecycles EXCEPT ![p] =
            [status |-> status, revision |-> @.revision + 1, retireAfter |-> retireAfter]]
    /\ recorded' = recorded \cup {p}

\* One more revision of the service in the environment.
Rebind(e, s, version, endpoint) ==
    /\ revisions[e][s] < MaxRevision
    /\ revisions' = [revisions EXCEPT ![e][s] = @ + 1]
    /\ active' = [active EXCEPT ![e][s] = version]
    /\ bindings' = [bindings EXCEPT ![e][s] = endpoint]

-----------------------------------------------------------------------------
(* The operators.                                                          *)

NextDay ==
    /\ today < LastDay
    /\ today' = today + 1
    /\ UNCHANGED <<environments, shared, perEnvironment, form, archive>>

\* The page is loaded or reloaded.
Open(o, e, p) ==
    /\ Loadable(e)
    /\ p \in publications
    /\ form' = [form EXCEPT ![o] =
            [environment |-> e, publication |-> p,
             active |-> active[e][p[1]], binding |-> bindings[e][p[1]],
             revision |-> revisions[e][p[1]], lifecycle |-> lifecycles[p]]]
    /\ UNCHANGED <<today, environments, shared, perEnvironment, archive>>

\* publish: a new version starts as a draft.
Publish(e, p) ==
    /\ Loadable(e)
    /\ p \notin publications
    /\ NoConflict(e, p, SameRoute)
    /\ publications' = publications \cup {p}
    /\ recorded' = recorded \cup {p}
    /\ lifecycles' = [lifecycles EXCEPT ![p] = Draft]
    /\ UNCHANGED <<today, environments, perEnvironment, form, archive>>

\* Faulty variant: the revision the page shows is not compared.
CurrentIgnored(o) == TRUE

\* The revision the page shows is still the service's.
Current(o) ==
    revisions[form[o].environment][form[o].publication[1]] = form[o].revision

\* Only maintained versions gain a binding.
Bindable(p) == lifecycles[p].status \in {"draft", "published"}

\* activate with a version.  An identical binding is left alone.
Activate(o, endpoint) ==
    /\ form[o] # NoForm
    /\ LET e == form[o].environment
           p == form[o].publication
       IN  /\ Loadable(e)
           /\ Current(o)
           /\ NoConflict(e, p, Overlaps)
           /\ ~(Uses(e, p) /\ bindings[e][p[1]] = endpoint)
           /\ Bindable(p)
           /\ Rebind(e, p[1], p[2], endpoint)
           /\ IF lifecycles[p].status = "draft"
              THEN NextRow(p, "published", 0)
              ELSE UNCHANGED <<recorded, lifecycles>>
    /\ UNCHANGED <<today, environments, publications, form, archive>>

\* Faulty variant: the arguments are swapped.
DisableSwapped(o) ==
    /\ form[o] # NoForm
    /\ LET e == form[o].environment
           s == form[o].publication[1]
       IN  /\ Loadable(e)
           /\ Current(o)
           /\ active[e][s] # Disabled
           /\ Rebind(e, s, NoEndpoint, Disabled)
    /\ UNCHANGED <<today, environments, shared, form, archive>>

\* activate without a version.
Disable(o) ==
    /\ form[o] # NoForm
    /\ LET e == form[o].environment
           s == form[o].publication[1]
       IN  /\ Loadable(e)
           /\ Current(o)
           /\ active[e][s] # Disabled
           /\ Rebind(e, s, Disabled, NoEndpoint)
    /\ UNCHANGED <<today, environments, shared, form, archive>>

\* Faulty variant: retirement looks at the page's own environment only.
MayBecomeLocally(p, status) ==
    CASE status = "published"  -> lifecycles[p].status = "deprecated"
      [] status = "deprecated" -> lifecycles[p].status \in {"published", "deprecated"}
      [] status = "retired"    -> /\ lifecycles[p].status \in {"draft", "deprecated"}
                                  /\ lifecycles[p].retireAfter <= today

\* setLifecycle: what the new status asks of the old one.  Retirement looks at
\* the bindings of every environment, read under the same lock.
MayBecome(p, status) ==
    CASE status = "published"  -> lifecycles[p].status = "deprecated"
      [] status = "deprecated" -> lifecycles[p].status \in {"published", "deprecated"}
      [] status = "retired"    -> /\ lifecycles[p].status \in {"draft", "deprecated"}
                                  /\ lifecycles[p].retireAfter <= today
                                  /\ Users(p) = {}

SetLifecycle(o, status, retireAfter) ==
    /\ form[o] # NoForm
    /\ LET p == form[o].publication
       IN  /\ Loadable(form[o].environment)
           /\ lifecycles[p].revision = form[o].lifecycle.revision
           /\ retireAfter # 0 => status = "deprecated"
           /\ MayBecome(p, status)
           /\ NextRow(p, status, retireAfter)
    /\ UNCHANGED <<today, environments, publications, perEnvironment, form, archive>>

-----------------------------------------------------------------------------
(* Storage administration.                                                 *)

Export(e) ==
    /\ e \in Exporting
    /\ Loadable(e)
    /\ archive' = [publications |-> publications, recorded |-> recorded,
                   lifecycles |-> lifecycles, active |-> active[e],
                   bindings |-> bindings[e], revisions |-> revisions[e]]
    /\ UNCHANGED <<today, environments, shared, perEnvironment, form>>

\* The row, if any, that decides whether the imported binding of p is stale.
ImportedStatus(catalog, p) ==
    IF p \in catalog.recorded THEN catalog.lifecycles[p].status
    ELSE IF p \in recorded THEN lifecycles[p].status
    ELSE "published"

\* Faulty variant: only the imported row is looked at.
ImportAcceptedBlindly(catalog) ==
    \A p \in catalog.recorded \cap recorded : catalog.lifecycles[p] = lifecycles[p]

\* Rows of both sides agree, and no binding revives a version.
ImportAccepted(catalog) ==
    /\ \A p \in catalog.recorded \cap recorded : catalog.lifecycles[p] = lifecycles[p]
    /\ \A p \in Publication : catalog.active[p[1]] = p[2] =>
          /\ ImportedStatus(catalog, p) \notin {"draft", "retired"}
          /\ p \in recorded => lifecycles[p].status # "deprecated"

\* importState: only into an environment that does not exist yet.
Import(e, catalog) ==
    /\ e \notin environments
    /\ ImportAccepted(catalog)
    /\ environments' = environments \cup {e}
    /\ publications' = publications \cup catalog.publications
    /\ recorded' = recorded \cup catalog.recorded
    /\ lifecycles' = [p \in Publication |->
            IF p \in catalog.recorded THEN catalog.lifecycles[p] ELSE lifecycles[p]]
    /\ active' = [active EXCEPT ![e] = catalog.active]
    /\ bindings' = [bindings EXCEPT ![e] = catalog.bindings]
    /\ revisions' = [revisions EXCEPT ![e] = catalog.revisions]
    /\ UNCHANGED <<today, form, archive>>

Importable == LocalCatalog \cup ({archive} \ {NoArchive})

-----------------------------------------------------------------------------
Submit(o) ==
    \/ \E endpoint \in Endpoint : Activate(o, endpoint)
    \/ Disable(o)
    \/ \E status \in {"published", "deprecated", "retired"}, day \in 0..LastDay :
          SetLifecycle(o, status, day)

Next ==
    \/ NextDay
    \/ \E o \in Operator :
          \/ \E e \in Environment, p \in Publication : Open(o, e, p)
          \/ Submit(o)
    \/ \E e \in Environment :
          \/ \E p \in Publication : Publish(e, p)
          \/ Export(e)
          \/ \E catalog \in Importable : Import(e, catalog)

Spec == Init /\ [][Next]_vars

-----------------------------------------------------------------------------
(* Properties.                                                             *)

\* No environment routes calls to a version that is a draft or retired: what
\* every read of the catalogue insists on, and refuses to serve without.
ActiveUsable ==
    \A e \in Environment, p \in Publication : Uses(e, p) =>
        p \in publications /\ ~Unusable(lifecycles[p])

\* In an environment a path has one provider: services in use never share a
\* route, whoever activated them and wherever they came from.
RoutesDisjoint ==
    \A e \in Environment, p, q \in Publication :
        Uses(e, p) /\ Uses(e, q) => <<p, q>> \notin Overlaps

\* "The revision of an old page is still refused": a service is rebound, and a
\* lifecycle changed by hand, only by somebody whose page shows the very state
\* being replaced, however many pages are open and however late they are sent.
StalePagesRefused ==
    [][/\ \A e \in environments, s \in Service :
             <<active[e][s], bindings[e][s]>> # <<active'[e][s], bindings'[e][s]>> =>
                \E o \in Operator : /\ form[o] # NoForm
                                    /\ form[o].environment = e
                                    /\ form[o].publication[1] = s
                                    /\ form[o].active = active[e][s]
                                    /\ form[o].binding = bindings[e][s]
       /\ \A p \in publications :
             lifecycles'[p] # lifecycles[p] =>
                \/ lifecycles[p].status = "draft" /\ lifecycles'[p].status = "published"
                \/ \E o \in Operator : /\ form[o] # NoForm
                                       /\ form[o].publication = p
                                       /\ form[o].lifecycle = lifecycles[p]]_vars

\* Every version keeps the promise of VersionLifecycle in all environments at
\* once: retired is final and unused, and a deprecated version gains no user.
StatusOf(p) == IF p \in publications THEN lifecycles[p].status ELSE "unregistered"
Life(p) == INSTANCE VersionLifecycle WITH status <- StatusOf(p), users <- Users(p)
ImplementsLifecycle ==
    /\ \A p \in Publication : Life(p)!Init
    /\ [][\A p \in Publication : [Life(p)!Next]_<<StatusOf(p), Users(p)>>]_vars
=============================================================================
