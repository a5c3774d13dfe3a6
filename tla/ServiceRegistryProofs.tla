----------------------- MODULE ServiceRegistryProofs -----------------------
(***************************************************************************)
(* Proofs about ServiceRegistry, for any environments, operators, versions *)
(* and route conflicts.                                                    *)
(*                                                                         *)
(* Inv is what the tables, the pages and an exported catalogue owe to each *)
(* other; PagesInv adds that a page never shows a revision from the future *)
(* and shows what is there as long as the revision it shows is the one of  *)
(* the table.                                                              *)
(***************************************************************************)
EXTENDS ServiceRegistry, TLAPS

\* A catalogue binds only versions it contains.
Declared(catalog) ==
    \A p \in Publication : catalog.active[p[1]] = p[2] => p \in catalog.publications

\* A catalogue binds no two versions that share a route.
Disjoint(catalog) ==
    \A p, q \in Publication :
        catalog.active[p[1]] = p[2] /\ catalog.active[q[1]] = q[2] => <<p, q>> \notin Overlaps

\* The local catalogues come from stores that never changed a lifecycle.
LocalHistoric ==
    \A c \in LocalCatalog : c.recorded = {} /\ Declared(c) /\ Disjoint(c)

\* What the tables, the pages and the exported catalogue owe to each other.
Consistent ==
    /\ \A e \in Environment \ environments, s \in Service : active[e][s] = Absent
    /\ recorded \subseteq publications
    /\ \A p \in Publication \ recorded : lifecycles[p] = Historic
    /\ \A o \in Operator : form[o] # NoForm => form[o].publication \in publications
    /\ archive # NoArchive => /\ archive.publications \subseteq publications
                              /\ archive.recorded \subseteq recorded
                              /\ Declared(archive)
                              /\ Disjoint(archive)

\* The inductive invariant.
Inv == TypeOK /\ ActiveUsable /\ RoutesDisjoint /\ Consistent

LEMMA FormTyped ==
    ASSUME TypeOK, NEW o \in Operator, form[o] # NoForm
    PROVE  /\ form[o].environment \in Environment
           /\ form[o].publication \in Publication
           /\ form[o].publication[1] \in Service
           /\ form[o].publication[2] \in Version
<1>1. form[o] \in Form
  BY DEF TypeOK
<1> QED
  BY <1>1 DEF Form, Service, Version

\* Rebinding a service keeps the three columns of service_bindings typed.
LEMMA RebindTyped ==
    ASSUME TypeOK, NEW e \in Environment, NEW s \in Service,
           NEW version \in Version \cup {Absent, Disabled},
           NEW endpoint \in Endpoint \cup {NoEndpoint},
           Rebind(e, s, version, endpoint)
    PROVE  /\ active' \in [Environment -> [Service -> Version \cup {Absent, Disabled}]]
           /\ bindings' \in [Environment -> [Service -> Endpoint \cup {NoEndpoint}]]
           /\ revisions' \in [Environment -> [Service -> Nat]]
<1>1. active' = [active EXCEPT ![e][s] = version]
  BY DEF Rebind
<1>2. bindings' = [bindings EXCEPT ![e][s] = endpoint]
  BY DEF Rebind
<1>3. revisions' = [revisions EXCEPT ![e][s] = revisions[e][s] + 1]
  BY DEF Rebind
<1>4. revisions[e][s] + 1 \in Nat
  BY DEF TypeOK
<1>5. active' \in [Environment -> [Service -> Version \cup {Absent, Disabled}]]
  BY <1>1 DEF TypeOK
<1>6. bindings' \in [Environment -> [Service -> Endpoint \cup {NoEndpoint}]]
  BY <1>2 DEF TypeOK
<1>7. revisions' \in [Environment -> [Service -> Nat]]
  BY <1>3, <1>4 DEF TypeOK
<1> QED
  BY <1>5, <1>6, <1>7

\* A new lifecycle row is a row.
LEMMA NextRowTyped ==
    ASSUME TypeOK, NEW p \in Publication,
           NEW status \in {"draft", "published", "deprecated", "retired"},
           NEW retireAfter \in Nat, NextRow(p, status, retireAfter)
    PROVE  /\ lifecycles' \in [Publication -> Lifecycle]
           /\ lifecycles'[p].status = status
           /\ \A q \in Publication \ {p} : lifecycles'[q] = lifecycles[q]
           /\ recorded' = recorded \cup {p}
           /\ recorded' \subseteq Publication
<1> DEFINE row == [status |-> status, revision |-> lifecycles[p].revision + 1,
                   retireAfter |-> retireAfter]
<1>1. row \in Lifecycle /\ row.status = status
  BY DEF TypeOK, Lifecycle
<1>2. lifecycles' = [lifecycles EXCEPT ![p] = row]
  BY DEF NextRow
<1> HIDE DEF row
<1>3. /\ lifecycles' \in [Publication -> Lifecycle]
      /\ lifecycles'[p].status = status
      /\ \A q \in Publication \ {p} : lifecycles'[q] = lifecycles[q]
  BY <1>1, <1>2 DEF TypeOK
<1> QED
  BY <1>3 DEF NextRow, TypeOK

-----------------------------------------------------------------------------
(* Type correctness.                                                       *)

LEMMA TypeInit == Init => TypeOK
<1> SUFFICES ASSUME Init PROVE TypeOK
  OBVIOUS
<1>1. Historic \in Lifecycle
  BY DEF Historic, Lifecycle
<1> QED
  BY <1>1, BoundAssumption DEF Init, TypeOK

LEMMA TypeNext == TypeOK /\ [Next]_vars => TypeOK'
<1> SUFFICES ASSUME TypeOK, [Next]_vars PROVE TypeOK'
  OBVIOUS
<1>1. CASE NextDay
  BY <1>1, BoundAssumption DEF NextDay, TypeOK, shared, perEnvironment
<1>2. ASSUME NEW o \in Operator, NEW e \in Environment, NEW p \in Publication, Open(o, e, p)
      PROVE  TypeOK'
  <2> DEFINE page ==
        [environment |-> e, publication |-> p,
         active |-> active[e][p[1]], binding |-> bindings[e][p[1]],
         revision |-> revisions[e][p[1]], lifecycle |-> lifecycles[p]]
  <2>1. p[1] \in Service
    BY DEF Service
  <2>2. page \in Form
    BY <2>1 DEF Form, TypeOK
  <2>3. form' = [form EXCEPT ![o] = page]
    BY <1>2 DEF Open
  <2> HIDE DEF page
  <2>4. form' \in [Operator -> Form \cup {NoForm}]
    BY <2>2, <2>3 DEF TypeOK
  <2> QED
    BY <2>4, <1>2 DEF Open, TypeOK, shared, perEnvironment
<1>3. ASSUME NEW o \in Operator, NEW endpoint \in Endpoint, Activate(o, endpoint)
      PROVE  TypeOK'
  <2> DEFINE e == form[o].environment
             p == form[o].publication
  <2>1. e \in Environment /\ p \in Publication /\ p[1] \in Service /\ p[2] \in Version
    BY <1>3, FormTyped DEF Activate
  <2>2. Rebind(e, p[1], p[2], endpoint)
    BY <1>3 DEF Activate
  <2>3. NextRow(p, "published", 0) \/ UNCHANGED <<recorded, lifecycles>>
    BY <1>3 DEF Activate
  <2> HIDE DEF e, p
  <2>4. /\ active' \in [Environment -> [Service -> Version \cup {Absent, Disabled}]]
        /\ bindings' \in [Environment -> [Service -> Endpoint \cup {NoEndpoint}]]
        /\ revisions' \in [Environment -> [Service -> Nat]]
    BY <2>1, <2>2, RebindTyped
  <2>5. lifecycles' \in [Publication -> Lifecycle] /\ recorded' \subseteq Publication
    BY <2>1, <2>3, NextRowTyped DEF TypeOK
  <2> QED
    BY <2>4, <2>5, <1>3 DEF Activate, TypeOK
<1>4. ASSUME NEW o \in Operator, Disable(o)
      PROVE  TypeOK'
  <2> DEFINE e == form[o].environment
             s == form[o].publication[1]
  <2>1. e \in Environment /\ s \in Service
    BY <1>4, FormTyped DEF Disable
  <2>2. Rebind(e, s, Disabled, NoEndpoint)
    BY <1>4 DEF Disable
  <2> HIDE DEF e, s
  <2>3. /\ active' \in [Environment -> [Service -> Version \cup {Absent, Disabled}]]
        /\ bindings' \in [Environment -> [Service -> Endpoint \cup {NoEndpoint}]]
        /\ revisions' \in [Environment -> [Service -> Nat]]
    BY <2>1, <2>2, RebindTyped
  <2> QED
    BY <2>3, <1>4 DEF Disable, TypeOK, shared
<1>5. ASSUME NEW o \in Operator, NEW status \in {"published", "deprecated", "retired"},
             NEW day \in 0..LastDay, SetLifecycle(o, status, day)
      PROVE  TypeOK'
  <2> DEFINE p == form[o].publication
  <2>1. p \in Publication /\ day \in Nat
    BY <1>5, FormTyped, BoundAssumption DEF SetLifecycle
  <2>2. NextRow(p, status, day)
    BY <1>5 DEF SetLifecycle
  <2> HIDE DEF p
  <2>3. lifecycles' \in [Publication -> Lifecycle] /\ recorded' \subseteq Publication
    BY <2>1, <2>2, NextRowTyped
  <2> QED
    BY <2>3, <1>5 DEF SetLifecycle, TypeOK, perEnvironment
<1>6. ASSUME NEW e \in Environment, NEW p \in Publication, Publish(e, p)
      PROVE  TypeOK'
  <2>1. Draft \in Lifecycle
    BY DEF Draft, Lifecycle
  <2>2. lifecycles' \in [Publication -> Lifecycle]
    BY <1>6, <2>1 DEF Publish, TypeOK
  <2> QED
    BY <2>2, <1>6 DEF Publish, TypeOK, perEnvironment
<1>7. ASSUME NEW e \in Environment, Export(e)
      PROVE  TypeOK'
  <2> DEFINE catalog ==
        [publications |-> publications, recorded |-> recorded,
         lifecycles |-> lifecycles, active |-> active[e],
         bindings |-> bindings[e], revisions |-> revisions[e]]
  <2>1. catalog \in Catalog
    BY DEF Catalog, TypeOK
  <2>2. archive' = catalog
    BY <1>7 DEF Export
  <2> HIDE DEF catalog
  <2> QED
    BY <2>1, <2>2, <1>7 DEF Export, TypeOK, shared, perEnvironment
<1>8. ASSUME NEW e \in Environment, NEW catalog \in Importable, Import(e, catalog)
      PROVE  TypeOK'
  <2>1. catalog \in Catalog
    BY CatalogAssumption DEF Importable, TypeOK
  <2>2. /\ catalog.publications \subseteq Publication
        /\ catalog.recorded \subseteq Publication
        /\ catalog.lifecycles \in [Publication -> Lifecycle]
        /\ catalog.active \in [Service -> Version \cup {Absent, Disabled}]
        /\ catalog.bindings \in [Service -> Endpoint \cup {NoEndpoint}]
        /\ catalog.revisions \in [Service -> Nat]
    BY <2>1 DEF Catalog
  <2>3. lifecycles' \in [Publication -> Lifecycle]
    BY <2>2, <1>8 DEF Import, TypeOK
  <2>4. active' \in [Environment -> [Service -> Version \cup {Absent, Disabled}]]
    BY <2>2, <1>8 DEF Import, TypeOK
  <2>5. bindings' \in [Environment -> [Service -> Endpoint \cup {NoEndpoint}]]
    BY <2>2, <1>8 DEF Import, TypeOK
  <2>6. revisions' \in [Environment -> [Service -> Nat]]
    BY <2>2, <1>8 DEF Import, TypeOK
  <2> QED
    BY <2>2, <2>3, <2>4, <2>5, <2>6, <1>8 DEF Import, TypeOK
<1>9. CASE UNCHANGED vars
  BY <1>9 DEF vars, shared, perEnvironment, TypeOK
<1> QED
  BY <1>1, <1>2, <1>3, <1>4, <1>5, <1>6, <1>7, <1>8, <1>9 DEF Next, Submit

\* Every reachable state is well typed: rows of the registry's tables, pages
\* and exported catalogues.
THEOREM RegistryTypeCorrect == Spec => []TypeOK
<1> QED
  BY TypeInit, TypeNext, PTL DEF Spec

-----------------------------------------------------------------------------
(* Safety.                                                                 *)

\* Rebinding changes the binding of one service in one environment.
LEMMA RebindActive ==
    ASSUME TypeOK, NEW e \in Environment, NEW s \in Service,
           NEW version \in Version \cup {Absent, Disabled},
           NEW endpoint \in Endpoint \cup {NoEndpoint},
           Rebind(e, s, version, endpoint)
    PROVE  \A d \in Environment, r \in Service :
              active'[d][r] = IF d = e /\ r = s THEN version ELSE active[d][r]
<1>1. active' = [active EXCEPT ![e][s] = version]
  BY DEF Rebind
<1> QED
  BY <1>1 DEF TypeOK

\* An environment uses the version it was rebound to, and no other of the
\* service.
LEMMA RebindUses ==
    ASSUME TypeOK, NEW e \in Environment, NEW s \in Service,
           NEW version \in Version \cup {Absent, Disabled},
           NEW endpoint \in Endpoint \cup {NoEndpoint},
           Rebind(e, s, version, endpoint)
    PROVE  \A d \in Environment, q \in Publication :
              Uses(d, q)' <=> IF d = e /\ q[1] = s THEN q[2] = version ELSE Uses(d, q)
<1>1. \A q \in Publication : q[1] \in Service
  BY DEF Service
<1> QED
  BY <1>1, RebindActive DEF Uses

LEMMA PublicationEqual ==
    ASSUME NEW p \in Publication, NEW q \in Publication, p[1] = q[1], p[2] = q[2]
    PROVE  p = q
<1>1. p = <<p[1], p[2]>> /\ q = <<q[1], q[2]>>
  BY PublicationAssumption
<1> QED
  BY <1>1

LEMMA PublicationParts ==
    ASSUME NEW p \in Publication
    PROVE  /\ p[1] \in Service /\ p[2] \in Version
           /\ p[2] # Absent /\ p[2] # Disabled
<1> QED
  BY MarkerAssumption DEF Service, Version

LEMMA InvInit == Init => Inv
<1> SUFFICES ASSUME Init PROVE Inv
  OBVIOUS
<1>1. \A e \in Environment, p \in Publication : ~Uses(e, p)
  BY PublicationParts DEF Init, Uses
<1>2. ActiveUsable /\ RoutesDisjoint
  BY <1>1 DEF ActiveUsable, RoutesDisjoint
<1>3. Consistent
  BY DEF Init, Consistent
<1> QED
  BY <1>2, <1>3, TypeInit DEF Inv

\* What leaves the bindings and the versions alone keeps the safety
\* invariants.
LEMMA InvUnchanged ==
    ASSUME Inv, UNCHANGED <<publications, lifecycles, active>>
    PROVE  ActiveUsable' /\ RoutesDisjoint'
<1> QED
  BY DEF Inv, ActiveUsable, RoutesDisjoint, Uses, Unusable

LEMMA InvActivate ==
    ASSUME Inv, NEW o \in Operator, NEW endpoint \in Endpoint, Activate(o, endpoint)
    PROVE  ActiveUsable' /\ RoutesDisjoint' /\ Consistent'
<1> DEFINE e == form[o].environment
           p == form[o].publication
<1>1. TypeOK /\ ActiveUsable /\ RoutesDisjoint /\ Consistent
  BY DEF Inv
<1>2. e \in Environment /\ p \in Publication /\ p[1] \in Service /\ p[2] \in Version
  BY <1>1, FormTyped DEF Activate
<1>3. /\ Loadable(e) /\ NoConflict(e, p, Overlaps) /\ Bindable(p)
      /\ Rebind(e, p[1], p[2], endpoint)
      /\ IF lifecycles[p].status = "draft"
         THEN NextRow(p, "published", 0)
         ELSE UNCHANGED <<recorded, lifecycles>>
      /\ UNCHANGED <<today, environments, publications, form, archive>>
  BY DEF Activate
<1>4. p \in publications /\ e \in environments
  BY <1>1, <1>3 DEF Activate, Consistent, Loadable
<1> HIDE DEF e, p
<1>5. \A d \in Environment, q \in Publication :
         Uses(d, q)' <=> IF d = e /\ q[1] = p[1] THEN q[2] = p[2] ELSE Uses(d, q)
  BY <1>1, <1>2, <1>3, RebindUses
<1>6. \A d \in Environment, q \in Publication :
         Uses(d, q)' => Uses(d, q) \/ (d = e /\ q = p)
  BY <1>2, <1>5, PublicationEqual
<1>7. /\ \A q \in Publication \ {p} : lifecycles'[q] = lifecycles[q]
      /\ lifecycles'[p].status = "published"
      /\ recorded \subseteq recorded' /\ recorded' \subseteq recorded \cup {p}
      /\ \A q \in Publication \ recorded' : lifecycles'[q] = lifecycles[q]
  <2>1. CASE lifecycles[p].status = "draft"
    <3>1. NextRow(p, "published", 0)
      BY <1>3, <2>1
    <3> QED
      BY <3>1, <1>1, <1>2, NextRowTyped
  <2>2. CASE lifecycles[p].status # "draft"
    BY <2>2, <1>3 DEF Bindable
  <2> QED
    BY <2>1, <2>2
<1>8. ActiveUsable'
  BY <1>1, <1>3, <1>4, <1>6, <1>7 DEF ActiveUsable, Unusable
<1>9. RoutesDisjoint'
  <2> SUFFICES ASSUME NEW d \in Environment, NEW q \in Publication, NEW r \in Publication,
                      Uses(d, q)', Uses(d, r)'
               PROVE  <<q, r>> \notin Overlaps
    BY DEF RoutesDisjoint
  <2>1. CASE Uses(d, q) /\ Uses(d, r)
    BY <2>1, <1>1 DEF RoutesDisjoint
  <2>2. ASSUME NEW x \in Publication, Uses(d, x)', d = e, x # p
        PROVE  <<p, x>> \notin Overlaps
    <3>1. x[1] # p[1] /\ Uses(d, x)
      BY <2>2, <1>2, <1>5, PublicationEqual
    <3> QED
      BY <3>1, <2>2, <1>3 DEF NoConflict
  <2>3. <<p, p>> \notin Overlaps
    BY <1>2, RouteAssumption
  <2>4. \A x \in Publication : <<x, p>> \in Overlaps => <<p, x>> \in Overlaps
    BY <1>2, RouteAssumption
  <2> QED
    BY <2>1, <2>2, <2>3, <2>4, <1>2, <1>6
<1>10. Consistent'
  <2>1. \A d \in Environment \ environments', s \in Service : active'[d][s] = Absent
    BY <1>1, <1>2, <1>3, <1>4, RebindActive DEF Consistent
  <2>2. recorded' \subseteq publications'
    BY <1>1, <1>3, <1>4, <1>7 DEF Consistent
  <2>3. \A q \in Publication \ recorded' : lifecycles'[q] = Historic
    BY <1>1, <1>7 DEF Consistent
  <2> QED
    BY <2>1, <2>2, <2>3, <1>1, <1>3, <1>7 DEF Consistent, Declared, Disjoint
<1> QED
  BY <1>8, <1>9, <1>10

LEMMA InvDisable ==
    ASSUME Inv, NEW o \in Operator, Disable(o)
    PROVE  ActiveUsable' /\ RoutesDisjoint' /\ Consistent'
<1> DEFINE e == form[o].environment
           s == form[o].publication[1]
<1>1. TypeOK /\ ActiveUsable /\ RoutesDisjoint /\ Consistent
  BY DEF Inv
<1>2. e \in Environment /\ s \in Service /\ e \in environments
  BY <1>1, FormTyped DEF Disable, Loadable
<1>3. Rebind(e, s, Disabled, NoEndpoint)
  BY DEF Disable
<1>4. UNCHANGED <<environments, publications, recorded, lifecycles, form, archive>>
  BY DEF Disable, shared
<1> HIDE DEF e, s
<1>5. \A d \in Environment, q \in Publication : Uses(d, q)' => Uses(d, q)
  BY <1>1, <1>2, <1>3, RebindUses, PublicationParts
<1>6. ActiveUsable'
  BY <1>1, <1>4, <1>5 DEF ActiveUsable, Unusable
<1>7. RoutesDisjoint'
  BY <1>1, <1>5 DEF RoutesDisjoint
<1>8. \A d \in Environment \ environments', r \in Service : active'[d][r] = Absent
  BY <1>1, <1>2, <1>3, <1>4, RebindActive DEF Consistent
<1>9. Consistent'
  BY <1>8, <1>1, <1>4 DEF Consistent, Declared, Disjoint
<1> QED
  BY <1>6, <1>7, <1>9

LEMMA InvSetLifecycle ==
    ASSUME Inv, NEW o \in Operator, NEW status \in {"published", "deprecated", "retired"},
           NEW day \in 0..LastDay, SetLifecycle(o, status, day)
    PROVE  ActiveUsable' /\ RoutesDisjoint' /\ Consistent'
<1> DEFINE p == form[o].publication
<1>1. TypeOK /\ ActiveUsable /\ RoutesDisjoint /\ Consistent
  BY DEF Inv
<1>2. p \in Publication /\ p \in publications /\ day \in Nat
  BY <1>1, FormTyped, BoundAssumption DEF SetLifecycle, Consistent
<1>3. /\ MayBecome(p, status) /\ NextRow(p, status, day)
      /\ UNCHANGED <<today, environments, publications, active, form, archive>>
  BY DEF SetLifecycle, perEnvironment
<1> HIDE DEF p
<1>4. /\ lifecycles'[p].status = status
      /\ \A q \in Publication \ {p} : lifecycles'[q] = lifecycles[q]
      /\ recorded' = recorded \cup {p}
  BY <1>1, <1>2, <1>3, NextRowTyped
<1>5. \A d \in Environment, q \in Publication : Uses(d, q)' <=> Uses(d, q)
  BY <1>3 DEF Uses
\* A retired version has no user: an environment that does not exist has none
\* at all, and the guard looks at all the others.
<1>6. status = "retired" => \A d \in Environment : ~Uses(d, p)
  <2> SUFFICES ASSUME status = "retired", NEW d \in Environment PROVE ~Uses(d, p)
    OBVIOUS
  <2>1. Users(p) = {}
    BY <1>3 DEF MayBecome
  <2>2. CASE d \in environments
    BY <2>1, <2>2 DEF Users
  <2>3. CASE d \notin environments
    BY <2>3, <1>1, <1>2, PublicationParts DEF Consistent, Uses
  <2> QED
    BY <2>2, <2>3
<1>7. ActiveUsable'
  BY <1>1, <1>3, <1>4, <1>5, <1>6 DEF ActiveUsable, Unusable
<1>8. RoutesDisjoint'
  BY <1>1, <1>5 DEF RoutesDisjoint
<1>9. Consistent'
  BY <1>1, <1>2, <1>3, <1>4 DEF Consistent, Declared, Disjoint
<1> QED
  BY <1>7, <1>8, <1>9

LEMMA InvPublish ==
    ASSUME Inv, NEW e \in Environment, NEW p \in Publication, Publish(e, p)
    PROVE  ActiveUsable' /\ RoutesDisjoint' /\ Consistent'
<1>1. TypeOK /\ ActiveUsable /\ RoutesDisjoint /\ Consistent
  BY DEF Inv
<1>2. /\ p \notin publications /\ publications' = publications \cup {p}
      /\ recorded' = recorded \cup {p}
      /\ \A q \in Publication \ {p} : lifecycles'[q] = lifecycles[q]
      /\ UNCHANGED <<environments, active, form, archive>>
  BY <1>1 DEF Publish, perEnvironment, TypeOK
<1>3. \A d \in Environment, q \in Publication : Uses(d, q)' <=> Uses(d, q)
  BY <1>2 DEF Uses
<1>4. ActiveUsable'
  BY <1>1, <1>2, <1>3 DEF ActiveUsable, Unusable
<1>5. RoutesDisjoint'
  BY <1>1, <1>3 DEF RoutesDisjoint
<1>6. Consistent'
  BY <1>1, <1>2 DEF Consistent, Declared, Disjoint
<1> QED
  BY <1>4, <1>5, <1>6

LEMMA InvExport ==
    ASSUME Inv, NEW e \in Environment, Export(e)
    PROVE  Consistent'
<1>1. TypeOK /\ ActiveUsable /\ RoutesDisjoint /\ Consistent
  BY DEF Inv
<1>2. /\ archive'.publications = publications /\ archive'.recorded = recorded
      /\ archive'.active = active[e]
      /\ UNCHANGED <<environments, publications, recorded, lifecycles, active, form>>
  BY DEF Export, shared, perEnvironment
<1>3. Declared(archive') /\ Disjoint(archive')
  BY <1>1, <1>2 DEF Declared, Disjoint, ActiveUsable, RoutesDisjoint, Uses
<1> QED
  BY <1>1, <1>2, <1>3 DEF Consistent, Declared, Disjoint

\* An imported catalogue adds no lifecycle row the database does not have.
LEMMA ImportedKnown ==
    ASSUME LocalHistoric, Inv, NEW catalog \in Importable
    PROVE  /\ catalog \in Catalog
           /\ catalog.recorded \subseteq recorded
           /\ Declared(catalog) /\ Disjoint(catalog)
           /\ catalog \notin LocalCatalog => catalog.publications \subseteq publications
<1>1. TypeOK /\ Consistent
  BY DEF Inv
<1>2. CASE catalog \in LocalCatalog
  BY <1>2, CatalogAssumption DEF LocalHistoric
<1>3. CASE catalog = archive /\ archive # NoArchive
  BY <1>1, <1>3 DEF TypeOK, Consistent
<1> QED
  BY <1>2, <1>3 DEF Importable

LEMMA ImportKeepsRows ==
    ASSUME LocalHistoric, Inv, NEW e \in Environment, NEW catalog \in Importable,
           Import(e, catalog)
    PROVE  /\ lifecycles' = lifecycles
           /\ recorded' = recorded
           /\ \A p \in Publication : catalog.active[p[1]] = p[2] =>
                 lifecycles[p].status = "published"
<1>1. TypeOK /\ Consistent
  BY DEF Inv
<1>2. catalog.recorded \subseteq recorded
  BY ImportedKnown
<1>3. /\ ImportAccepted(catalog)
      /\ recorded' = recorded \cup catalog.recorded
      /\ lifecycles' = [p \in Publication |->
            IF p \in catalog.recorded THEN catalog.lifecycles[p] ELSE lifecycles[p]]
  BY DEF Import
<1>4. \A p \in catalog.recorded : catalog.lifecycles[p] = lifecycles[p]
  BY <1>2, <1>3 DEF ImportAccepted
<1>5. lifecycles' = lifecycles
  BY <1>1, <1>3, <1>4 DEF TypeOK
<1>6. ASSUME NEW p \in Publication, catalog.active[p[1]] = p[2]
      PROVE  lifecycles[p].status = "published"
  <2>1. /\ ImportedStatus(catalog, p) \notin {"draft", "retired"}
        /\ p \in recorded => lifecycles[p].status # "deprecated"
    BY <1>3, <1>6 DEF ImportAccepted
  <2>2. CASE p \in recorded
    <3>1. ImportedStatus(catalog, p) = lifecycles[p].status
      BY <2>2, <1>4 DEF ImportedStatus
    <3>2. lifecycles[p].status \in {"draft", "published", "deprecated", "retired"}
      BY <1>1 DEF TypeOK, Lifecycle
    <3> QED
      BY <2>1, <2>2, <3>1, <3>2
  <2>3. CASE p \notin recorded
    BY <2>3, <1>1 DEF Consistent, Historic
  <2> QED
    BY <2>2, <2>3
<1> QED
  BY <1>2, <1>3, <1>5, <1>6

LEMMA InvImport ==
    ASSUME LocalHistoric, Inv, NEW e \in Environment, NEW catalog \in Importable,
           Import(e, catalog)
    PROVE  ActiveUsable' /\ RoutesDisjoint' /\ Consistent'
<1>1. TypeOK /\ ActiveUsable /\ RoutesDisjoint /\ Consistent
  BY DEF Inv
<1>2. Declared(catalog) /\ Disjoint(catalog)
  BY ImportedKnown
<1>3. /\ lifecycles' = lifecycles /\ recorded' = recorded
      /\ \A p \in Publication : catalog.active[p[1]] = p[2] =>
            lifecycles[p].status = "published"
  BY ImportKeepsRows
<1>4. /\ e \notin environments /\ environments' = environments \cup {e}
      /\ publications' = publications \cup catalog.publications
      /\ active' = [active EXCEPT ![e] = catalog.active]
      /\ UNCHANGED <<form, archive>>
  BY DEF Import
<1>5. /\ active'[e] = catalog.active
      /\ \A d \in Environment \ {e} : active'[d] = active[d]
  BY <1>1, <1>4 DEF TypeOK
<1>6. \A d \in Environment, q \in Publication :
         Uses(d, q)' <=> IF d = e THEN catalog.active[q[1]] = q[2] ELSE Uses(d, q)
  BY <1>5 DEF Uses
<1>7. ActiveUsable'
  BY <1>1, <1>2, <1>3, <1>4, <1>6 DEF ActiveUsable, Declared, Unusable
<1>8. RoutesDisjoint'
  BY <1>1, <1>2, <1>6 DEF RoutesDisjoint, Disjoint
<1>9. Consistent'
  BY <1>1, <1>3, <1>4, <1>5 DEF Consistent, Declared, Disjoint
<1> QED
  BY <1>7, <1>8, <1>9

LEMMA InvNext ==
    ASSUME LocalHistoric, Inv, [Next]_vars
    PROVE  Inv'
<1>1. TypeOK'
  BY TypeNext DEF Inv
<1> SUFFICES ActiveUsable' /\ RoutesDisjoint' /\ Consistent'
  BY <1>1 DEF Inv
<1>2. CASE NextDay
  <2>1. Consistent'
    BY <1>2 DEF NextDay, shared, perEnvironment, Inv, Consistent, Declared, Disjoint
  <2> QED
    BY <1>2, <2>1, InvUnchanged DEF NextDay, shared, perEnvironment
<1>3. ASSUME NEW o \in Operator, NEW e \in Environment, NEW p \in Publication, Open(o, e, p)
      PROVE  ActiveUsable' /\ RoutesDisjoint' /\ Consistent'
  <2>1. \A x \in Operator : form'[x] # NoForm => form'[x].publication \in publications
    BY <1>3 DEF Open, Inv, TypeOK, Consistent
  <2>2. Consistent'
    BY <1>3, <2>1 DEF Open, shared, perEnvironment, Inv, Consistent, Declared, Disjoint
  <2> QED
    BY <1>3, <2>2, InvUnchanged DEF Open, shared, perEnvironment
<1>4. ASSUME NEW e \in Environment, Export(e)
      PROVE  ActiveUsable' /\ RoutesDisjoint' /\ Consistent'
  BY <1>4, InvExport, InvUnchanged DEF Export, shared, perEnvironment
<1>5. CASE UNCHANGED vars
  <2>1. Consistent'
    BY <1>5 DEF vars, shared, perEnvironment, Inv, Consistent, Declared, Disjoint
  <2> QED
    BY <1>5, <2>1, InvUnchanged DEF vars, shared, perEnvironment
<1> QED
  BY <1>2, <1>3, <1>4, <1>5, InvActivate, InvDisable, InvSetLifecycle, InvPublish, InvImport
     DEF Next, Submit

LEMMA InvHolds ==
    ASSUME LocalHistoric
    PROVE  Spec => []Inv
<1>1. Init => Inv
  BY InvInit
<1>2. Inv /\ [Next]_vars => Inv'
  BY InvNext
<1> QED
  BY <1>1, <1>2, PTL DEF Spec

\* As long as the local stores that are imported never changed a lifecycle of
\* their own, every environment only routes to maintained or deprecated
\* versions, so the state check of every read passes.
THEOREM ActiveAlwaysUsable ==
    ASSUME LocalHistoric
    PROVE  Spec => []ActiveUsable
<1>1. Inv => ActiveUsable
  BY DEF Inv
<1> QED
  BY <1>1, InvHolds, PTL

\* Under the same condition no environment ever has two providers of a route,
\* whatever is activated, imported and published in which order.
THEOREM RoutesStayDisjoint ==
    ASSUME LocalHistoric
    PROVE  Spec => []RoutesDisjoint
<1>1. Inv => RoutesDisjoint
  BY DEF Inv
<1> QED
  BY <1>1, InvHolds, PTL

-----------------------------------------------------------------------------
(* Refinement: the tables implement VersionLifecycle, version by version.  *)

\* The step, or the stutter, that a version's life takes.
Lives(p) == [Life(p)!Next]_<<StatusOf(p), Users(p)>>

LEMMA LivesStutter ==
    ASSUME NEW p \in Publication, StatusOf(p)' = StatusOf(p), Users(p)' = Users(p)
    PROVE  Lives(p)
<1> QED
  BY DEF Lives

\* The users of a version after its service was rebound in one environment.
LEMMA RebindUsers ==
    ASSUME TypeOK, NEW e \in Environment, NEW s \in Service, e \in environments,
           NEW version \in Version \cup {Absent, Disabled},
           NEW endpoint \in Endpoint \cup {NoEndpoint},
           Rebind(e, s, version, endpoint), UNCHANGED environments,
           NEW q \in Publication
    PROVE  Users(q)' = IF q[1] # s THEN Users(q)
                       ELSE IF q[2] = version THEN Users(q) \cup {e}
                       ELSE Users(q) \ {e}
<1>1. \A d \in Environment :
         Uses(d, q)' <=> IF d = e /\ q[1] = s THEN q[2] = version ELSE Uses(d, q)
  BY RebindUses
<1>2. environments \subseteq Environment
  BY DEF TypeOK
<1>3. Users(q)' = {d \in environments : Uses(d, q)'}
  BY DEF Users
<1>4. CASE q[1] # s
  BY <1>1, <1>2, <1>3, <1>4 DEF Users
<1>5. CASE q[1] = s /\ q[2] = version
  BY <1>1, <1>2, <1>3, <1>5 DEF Users
<1>6. CASE q[1] = s /\ q[2] # version
  BY <1>1, <1>2, <1>3, <1>6 DEF Users
<1> QED
  BY <1>4, <1>5, <1>6

LEMMA LivesActivate ==
    ASSUME Inv, NEW o \in Operator, NEW endpoint \in Endpoint, Activate(o, endpoint),
           NEW q \in Publication
    PROVE  Lives(q)
<1> DEFINE e == form[o].environment
           p == form[o].publication
<1>1. TypeOK /\ ActiveUsable /\ RoutesDisjoint /\ Consistent
  BY DEF Inv
<1>2. e \in Environment /\ p \in Publication /\ p[1] \in Service /\ p[2] \in Version
  BY <1>1, FormTyped DEF Activate
<1>3. /\ Loadable(e) /\ Bindable(p)
      /\ Rebind(e, p[1], p[2], endpoint)
      /\ IF lifecycles[p].status = "draft"
         THEN NextRow(p, "published", 0)
         ELSE UNCHANGED <<recorded, lifecycles>>
      /\ UNCHANGED <<environments, publications>>
  BY DEF Activate
<1>4. p \in publications /\ e \in environments
  BY <1>1, <1>3 DEF Activate, Consistent, Loadable
<1> HIDE DEF e, p
<1>5. Users(q)' = IF q[1] # p[1] THEN Users(q)
                  ELSE IF q[2] = p[2] THEN Users(q) \cup {e} ELSE Users(q) \ {e}
  BY <1>1, <1>2, <1>3, <1>4, RebindUsers
<1>6. /\ lifecycles'[p].status = "published"
      /\ \A x \in Publication \ {p} : lifecycles'[x] = lifecycles[x]
  <2>1. CASE lifecycles[p].status = "draft"
    <3>1. NextRow(p, "published", 0)
      BY <1>3, <2>1
    <3> QED
      BY <3>1, <1>1, <1>2, NextRowTyped
  <2>2. CASE lifecycles[p].status # "draft"
    BY <2>2, <1>3 DEF Bindable
  <2> QED
    BY <2>1, <2>2
<1>7. CASE q = p
  <2>1. Users(q)' = Users(q) \cup {e}
    BY <1>5, <1>7
  <2>2. StatusOf(q) \in {"draft", "published"} /\ StatusOf(q)' = "published"
    BY <1>3, <1>4, <1>6, <1>7 DEF StatusOf, Bindable
  <2>3. Life(q)!TakeUp(e)
    BY <2>1, <2>2 DEF Life!TakeUp
  <2> QED
    BY <1>2, <2>3 DEF Lives, Life!Next
<1>8. CASE q # p
  <2>1. StatusOf(q)' = StatusOf(q)
    BY <1>3, <1>6, <1>8 DEF StatusOf
  <2>2. CASE q[1] # p[1]
    BY <1>5, <2>1, <2>2, LivesStutter
  <2>3. CASE q[1] = p[1]
    <3>1. Users(q)' = Users(q) \ {e}
      BY <1>2, <1>5, <1>8, <2>3, PublicationEqual
    <3>2. Life(q)!Drop(e)
      BY <2>1, <3>1 DEF Life!Drop
    <3> QED
      BY <1>2, <3>2 DEF Lives, Life!Next
  <2> QED
    BY <2>2, <2>3
<1> QED
  BY <1>7, <1>8

LEMMA LivesDisable ==
    ASSUME Inv, NEW o \in Operator, Disable(o), NEW q \in Publication
    PROVE  Lives(q)
<1> DEFINE e == form[o].environment
           s == form[o].publication[1]
<1>1. TypeOK
  BY DEF Inv
<1>2. e \in Environment /\ s \in Service /\ e \in environments
  BY <1>1, FormTyped DEF Disable, Loadable
<1>3. Rebind(e, s, Disabled, NoEndpoint)
  BY DEF Disable
<1>4. UNCHANGED <<environments, publications, lifecycles>>
  BY DEF Disable, shared
<1> HIDE DEF e, s
<1>5. Users(q)' = IF q[1] # s THEN Users(q) ELSE Users(q) \ {e}
  BY <1>1, <1>2, <1>3, <1>4, RebindUsers, PublicationParts
<1>6. StatusOf(q)' = StatusOf(q)
  BY <1>4 DEF StatusOf
<1>7. CASE q[1] # s
  BY <1>5, <1>6, <1>7, LivesStutter
<1>8. CASE q[1] = s
  <2>1. Life(q)!Drop(e)
    BY <1>5, <1>6, <1>8 DEF Life!Drop
  <2> QED
    BY <1>2, <2>1 DEF Lives, Life!Next
<1> QED
  BY <1>7, <1>8

LEMMA LivesSetLifecycle ==
    ASSUME Inv, NEW o \in Operator, NEW status \in {"published", "deprecated", "retired"},
           NEW day \in 0..LastDay, SetLifecycle(o, status, day), NEW q \in Publication
    PROVE  Lives(q)
<1> DEFINE p == form[o].publication
<1>1. TypeOK /\ Consistent
  BY DEF Inv
<1>2. p \in Publication /\ p \in publications /\ day \in Nat
  BY <1>1, FormTyped, BoundAssumption DEF SetLifecycle, Consistent
<1>3. /\ MayBecome(p, status) /\ NextRow(p, status, day)
      /\ UNCHANGED <<environments, publications, active>>
  BY DEF SetLifecycle, perEnvironment
<1> HIDE DEF p
<1>4. /\ lifecycles'[p].status = status
      /\ \A x \in Publication \ {p} : lifecycles'[x] = lifecycles[x]
  BY <1>1, <1>2, <1>3, NextRowTyped
<1>5. Users(q)' = Users(q)
  BY <1>3 DEF Users, Uses
<1>6. CASE q # p
  <2>1. StatusOf(q)' = StatusOf(q)
    BY <1>3, <1>4, <1>6 DEF StatusOf
  <2> QED
    BY <1>5, <2>1, LivesStutter
<1>7. CASE q = p
  <2>1. StatusOf(q) = lifecycles[p].status /\ StatusOf(q)' = status
    BY <1>2, <1>3, <1>4, <1>7 DEF StatusOf
  <2>2. CASE status = "published"
    <3>1. Life(q)!Maintain
      BY <1>3, <1>5, <2>1, <2>2 DEF MayBecome, Life!Maintain
    <3> QED
      BY <3>1 DEF Lives, Life!Next
  <2>3. CASE status = "deprecated" /\ lifecycles[p].status = "deprecated"
    BY <1>5, <2>1, <2>3, LivesStutter
  <2>4. CASE status = "deprecated" /\ lifecycles[p].status # "deprecated"
    <3>1. Life(q)!Deprecate
      BY <1>3, <1>5, <2>1, <2>4 DEF MayBecome, Life!Deprecate
    <3> QED
      BY <3>1 DEF Lives, Life!Next
  <2>5. CASE status = "retired"
    <3>1. Life(q)!Retire
      BY <1>3, <1>5, <1>7, <2>1, <2>5 DEF MayBecome, Life!Retire
    <3> QED
      BY <3>1 DEF Lives, Life!Next
  <2> QED
    BY <2>2, <2>3, <2>4, <2>5
<1> QED
  BY <1>6, <1>7

LEMMA LivesPublish ==
    ASSUME Inv, NEW e \in Environment, NEW p \in Publication, Publish(e, p),
           NEW q \in Publication
    PROVE  Lives(q)
<1>1. /\ p \notin publications /\ publications' = publications \cup {p}
      /\ lifecycles'[p] = Draft
      /\ \A x \in Publication \ {p} : lifecycles'[x] = lifecycles[x]
      /\ UNCHANGED <<environments, active>>
  BY DEF Publish, perEnvironment, Inv, TypeOK
<1>2. Users(q)' = Users(q)
  BY <1>1 DEF Users, Uses
<1>3. CASE q = p
  <2>1. StatusOf(q) = "unregistered" /\ StatusOf(q)' = "draft"
    BY <1>1, <1>3 DEF StatusOf, Draft
  <2>2. Life(q)!Register
    BY <1>2, <2>1 DEF Life!Register
  <2> QED
    BY <2>2 DEF Lives, Life!Next
<1>4. CASE q # p
  <2>1. StatusOf(q)' = StatusOf(q)
    BY <1>1, <1>4 DEF StatusOf
  <2> QED
    BY <1>2, <2>1, LivesStutter
<1> QED
  BY <1>3, <1>4

LEMMA LivesImport ==
    ASSUME LocalHistoric, Inv, NEW e \in Environment, NEW catalog \in Importable,
           Import(e, catalog), NEW q \in Publication
    PROVE  Lives(q)
<1>1. TypeOK /\ Consistent
  BY DEF Inv
<1>2. /\ Declared(catalog)
      /\ lifecycles' = lifecycles
      /\ catalog.active[q[1]] = q[2] => lifecycles[q].status = "published"
  BY ImportedKnown, ImportKeepsRows
<1>3. /\ e \notin environments /\ environments' = environments \cup {e}
      /\ publications' = publications \cup catalog.publications
      /\ active'[e] = catalog.active
      /\ \A d \in Environment \ {e} : active'[d] = active[d]
  BY <1>1 DEF Import, TypeOK
<1>4. /\ catalog.active[q[1]] = q[2] => Users(q)' = Users(q) \cup {e}
      /\ catalog.active[q[1]] # q[2] => Users(q)' = Users(q)
  <2>1. \A d \in environments : Uses(d, q)' <=> Uses(d, q)
    BY <1>1, <1>3 DEF Uses, TypeOK
  <2>2. Uses(e, q)' <=> catalog.active[q[1]] = q[2]
    BY <1>3 DEF Uses
  <2>3. Users(q)' = {d \in environments \cup {e} : Uses(d, q)'}
    BY <1>3 DEF Users
  <2> QED
    BY <2>1, <2>2, <2>3 DEF Users
<1>5. q \notin publications => lifecycles[q].status = "published"
  BY <1>1 DEF Consistent, Historic
<1>6. CASE catalog.active[q[1]] = q[2] \/ (q \notin publications /\ q \in publications')
  <2>1. StatusOf(q) \in {"unregistered", "published"} /\ StatusOf(q)' = "published"
    BY <1>2, <1>3, <1>5, <1>6 DEF StatusOf, Declared
  <2>2. Life(q)!Adopt
    BY <1>4, <2>1 DEF Life!Adopt
  <2> QED
    BY <2>2 DEF Lives, Life!Next
<1>7. CASE ~(catalog.active[q[1]] = q[2] \/ (q \notin publications /\ q \in publications'))
  <2>1. StatusOf(q)' = StatusOf(q)
    BY <1>2, <1>3, <1>7 DEF StatusOf
  <2> QED
    BY <1>4, <1>7, <2>1, LivesStutter
<1> QED
  BY <1>6, <1>7

LEMMA LivesNext ==
    ASSUME LocalHistoric, Inv, [Next]_vars, NEW q \in Publication
    PROVE  Lives(q)
<1>1. CASE UNCHANGED <<environments, publications, lifecycles, active>>
  <2>1. StatusOf(q)' = StatusOf(q) /\ Users(q)' = Users(q)
    BY <1>1 DEF StatusOf, Users, Uses
  <2> QED
    BY <2>1, LivesStutter
<1>2. CASE NextDay
  BY <1>1, <1>2 DEF NextDay, shared, perEnvironment
<1>3. ASSUME NEW o \in Operator, NEW e \in Environment, NEW p \in Publication, Open(o, e, p)
      PROVE  Lives(q)
  BY <1>1, <1>3 DEF Open, shared, perEnvironment
<1>4. ASSUME NEW e \in Environment, Export(e)
      PROVE  Lives(q)
  BY <1>1, <1>4 DEF Export, shared, perEnvironment
<1>5. CASE UNCHANGED vars
  BY <1>1, <1>5 DEF vars, shared, perEnvironment
<1> QED
  BY <1>2, <1>3, <1>4, <1>5, LivesActivate, LivesDisable, LivesSetLifecycle,
     LivesPublish, LivesImport DEF Next, Submit

LEMMA LivesInit == Init => \A p \in Publication : Life(p)!Init
<1> SUFFICES ASSUME Init, NEW p \in Publication PROVE Life(p)!Init
  OBVIOUS
<1>1. StatusOf(p) = "unregistered" /\ Users(p) = {}
  BY DEF Init, StatusOf, Users
<1> QED
  BY <1>1 DEF Life!Init

\* Every version lives the life of VersionLifecycle: no environment gains a
\* deprecated or retired version, a version retires unused, and for good.
THEOREM VersionsImplementLifecycle ==
    ASSUME LocalHistoric
    PROVE  Spec => ImplementsLifecycle
<1>1. Inv /\ [Next]_vars =>
        [\A p \in Publication : [Life(p)!Next]_<<StatusOf(p), Users(p)>>]_vars
  BY LivesNext DEF Lives
<1> QED
  BY <1>1, LivesInit, InvHolds, PTL DEF Spec, ImplementsLifecycle

-----------------------------------------------------------------------------
(* Pages: what an operator sends back is compared with what is there.      *)

\* A page whose revisions are still those of the database shows what is there.
PageFits(o) ==
    form[o] # NoForm =>
        LET e == form[o].environment  p == form[o].publication IN
        /\ e \in environments
        /\ form[o].revision <= revisions[e][p[1]]
        /\ form[o].revision = revisions[e][p[1]] =>
              form[o].active = active[e][p[1]] /\ form[o].binding = bindings[e][p[1]]
        /\ form[o].lifecycle.revision <= lifecycles[p].revision
        /\ form[o].lifecycle.revision = lifecycles[p].revision => form[o].lifecycle = lifecycles[p]

PagesInv == Inv /\ \A o \in Operator : PageFits(o)

\* What is there keeps its revision only as long as it stays as it is.
RowsGrow ==
    /\ environments \subseteq environments'
    /\ \A e \in environments, s \in Service :
          /\ revisions[e][s] <= revisions'[e][s]
          /\ revisions'[e][s] = revisions[e][s] =>
                active'[e][s] = active[e][s] /\ bindings'[e][s] = bindings[e][s]
    /\ \A p \in publications :
          /\ lifecycles[p].revision <= lifecycles'[p].revision
          /\ lifecycles'[p].revision = lifecycles[p].revision => lifecycles'[p] = lifecycles[p]

\* A binding is replaced, a lifecycle changed by hand, from a page that shows it.
FromPages ==
    /\ \A e \in environments, s \in Service :
          <<active[e][s], bindings[e][s]>> # <<active'[e][s], bindings'[e][s]>> =>
             \E o \in Operator : /\ form[o] # NoForm
                                 /\ form[o].environment = e
                                 /\ form[o].publication[1] = s
                                 /\ form[o].active = active[e][s]
                                 /\ form[o].binding = bindings[e][s]
    /\ \A p \in publications :
          lifecycles'[p] # lifecycles[p] =>
             \/ lifecycles[p].status = "draft" /\ lifecycles'[p].status = "published"
             \/ \E o \in Operator : /\ form[o] # NoForm
                                    /\ form[o].publication = p
                                    /\ form[o].lifecycle = lifecycles[p]

LEMMA RowsStay ==
    ASSUME Inv, UNCHANGED <<environments, active, bindings, revisions>>,
           \A p \in publications : lifecycles'[p] = lifecycles[p]
    PROVE  RowsGrow /\ FromPages
<1>1. /\ \A e \in environments, s \in Service : revisions[e][s] \in Nat
      /\ \A p \in publications : lifecycles[p].revision \in Nat
  BY DEF Inv, TypeOK, Lifecycle
<1> QED
  BY <1>1 DEF RowsGrow, FromPages

\* Rebinding replaces one binding and counts it.
LEMMA RebindCounts ==
    ASSUME Inv, NEW e \in Environment, NEW s \in Service,
           NEW version \in Version \cup {Absent, Disabled},
           NEW endpoint \in Endpoint \cup {NoEndpoint},
           Rebind(e, s, version, endpoint)
    PROVE  \A d \in environments, r \in Service :
              /\ revisions[d][r] \in Nat
              /\ revisions'[d][r] = IF d = e /\ r = s THEN revisions[d][r] + 1
                                    ELSE revisions[d][r]
              /\ (d # e \/ r # s) => active'[d][r] = active[d][r] /\ bindings'[d][r] = bindings[d][r]
<1>1. /\ active' = [active EXCEPT ![e][s] = version]
      /\ bindings' = [bindings EXCEPT ![e][s] = endpoint]
      /\ revisions' = [revisions EXCEPT ![e][s] = revisions[e][s] + 1]
  BY DEF Rebind
<1>2. /\ active \in [Environment -> [Service -> Version \cup {Absent, Disabled}]]
      /\ bindings \in [Environment -> [Service -> Endpoint \cup {NoEndpoint}]]
      /\ revisions \in [Environment -> [Service -> Nat]]
      /\ environments \subseteq Environment
  BY DEF Inv, TypeOK
<1> SUFFICES ASSUME NEW d \in environments, NEW r \in Service
             PROVE  /\ revisions[d][r] \in Nat
                    /\ revisions'[d][r] = IF d = e /\ r = s THEN revisions[d][r] + 1
                                          ELSE revisions[d][r]
                    /\ (d # e \/ r # s) => active'[d][r] = active[d][r]
                    /\ (d # e \/ r # s) => bindings'[d][r] = bindings[d][r]
  OBVIOUS
<1>3. d \in Environment /\ revisions[d][r] \in Nat
  BY <1>2
<1>4. revisions'[d][r] = IF d = e /\ r = s THEN revisions[d][r] + 1 ELSE revisions[d][r]
  BY <1>1, <1>2, <1>3
<1>5. (d # e \/ r # s) => active'[d][r] = active[d][r]
  BY <1>1, <1>2, <1>3
<1>6. (d # e \/ r # s) => bindings'[d][r] = bindings[d][r]
  BY <1>1, <1>2, <1>3
<1> QED
  BY <1>3, <1>4, <1>5, <1>6

\* A service is rebound from a page that shows its binding.
LEMMA RebindFromPage ==
    ASSUME PagesInv, NEW o \in Operator, form[o] # NoForm, Current(o),
           NEW version \in Version \cup {Absent, Disabled},
           NEW endpoint \in Endpoint \cup {NoEndpoint},
           Rebind(form[o].environment, form[o].publication[1], version, endpoint),
           environments' = environments
    PROVE  /\ \A d \in environments, r \in Service :
                 /\ revisions[d][r] <= revisions'[d][r]
                 /\ revisions'[d][r] = revisions[d][r] =>
                       active'[d][r] = active[d][r] /\ bindings'[d][r] = bindings[d][r]
           /\ \A d \in environments, r \in Service :
                 <<active[d][r], bindings[d][r]>> # <<active'[d][r], bindings'[d][r]>> =>
                    \E x \in Operator : /\ form[x] # NoForm
                                        /\ form[x].environment = d
                                        /\ form[x].publication[1] = r
                                        /\ form[x].active = active[d][r]
                                        /\ form[x].binding = bindings[d][r]
<1> DEFINE e == form[o].environment
           s == form[o].publication[1]
<1>1. Inv /\ e \in Environment /\ s \in Service
  BY FormTyped DEF PagesInv, Inv
<1>2. form[o].active = active[e][s] /\ form[o].binding = bindings[e][s]
  BY DEF PagesInv, PageFits, Current
<1>3. form[o].environment = e /\ form[o].publication[1] = s
  OBVIOUS
<1>4. Rebind(e, s, version, endpoint)
  OBVIOUS
<1> HIDE DEF e, s
<1>5. \A d \in environments, r \in Service :
         /\ revisions[d][r] \in Nat
         /\ revisions'[d][r] = IF d = e /\ r = s THEN revisions[d][r] + 1 ELSE revisions[d][r]
         /\ (d # e \/ r # s) => active'[d][r] = active[d][r] /\ bindings'[d][r] = bindings[d][r]
  BY <1>1, <1>4, RebindCounts
<1> QED
  BY <1>2, <1>3, <1>5

\* One more lifecycle row counts.
LEMMA RowCounts ==
    ASSUME Inv, NEW p \in Publication, NEW status \in {"published", "deprecated", "retired"},
           NEW day \in Nat, NextRow(p, status, day)
    PROVE  \A q \in publications :
              /\ lifecycles[q].revision \in Nat
              /\ q # p => lifecycles'[q] = lifecycles[q]
              /\ q = p => /\ lifecycles'[q].revision = lifecycles[q].revision + 1
                          /\ lifecycles'[q].status = status
<1>1. lifecycles \in [Publication -> Lifecycle] /\ publications \subseteq Publication
  BY DEF Inv, TypeOK
<1>2. lifecycles' = [lifecycles EXCEPT ![p] =
         [status |-> status, revision |-> lifecycles[p].revision + 1, retireAfter |-> day]]
  BY DEF NextRow
<1> QED
  BY <1>1, <1>2 DEF Lifecycle

LEMMA ActivateRefused ==
    ASSUME PagesInv, NEW o \in Operator, NEW endpoint \in Endpoint, Activate(o, endpoint)
    PROVE  RowsGrow /\ FromPages
<1> DEFINE p == form[o].publication
<1>1. /\ form[o] # NoForm /\ Current(o) /\ Rebind(form[o].environment, p[1], p[2], endpoint)
      /\ IF lifecycles[p].status = "draft" THEN NextRow(p, "published", 0)
         ELSE UNCHANGED <<recorded, lifecycles>>
      /\ UNCHANGED <<environments, publications>>
  BY DEF Activate
<1>2. Inv /\ p \in Publication /\ p[2] \in Version
  BY <1>1, FormTyped DEF PagesInv, Inv
<1>3. /\ \A d \in environments, r \in Service :
            /\ revisions[d][r] <= revisions'[d][r]
            /\ revisions'[d][r] = revisions[d][r] =>
                  active'[d][r] = active[d][r] /\ bindings'[d][r] = bindings[d][r]
      /\ \A d \in environments, r \in Service :
            <<active[d][r], bindings[d][r]>> # <<active'[d][r], bindings'[d][r]>> =>
               \E x \in Operator : /\ form[x] # NoForm
                                   /\ form[x].environment = d
                                   /\ form[x].publication[1] = r
                                   /\ form[x].active = active[d][r]
                                   /\ form[x].binding = bindings[d][r]
  BY <1>1, <1>2, RebindFromPage
<1> HIDE DEF p
<1>4. \A q \in publications :
         /\ lifecycles[q].revision \in Nat
         /\ \/ lifecycles'[q] = lifecycles[q]
            \/ /\ lifecycles'[q].revision = lifecycles[q].revision + 1
               /\ lifecycles[q].status = "draft" /\ lifecycles'[q].status = "published"
  <2>1. CASE lifecycles[p].status = "draft"
    BY <1>1, <1>2, <2>1, RowCounts
  <2>2. CASE lifecycles[p].status # "draft"
    BY <1>1, <1>2, <2>2 DEF Inv, TypeOK, Lifecycle
  <2> QED
    BY <2>1, <2>2
<1> QED
  BY <1>1, <1>3, <1>4 DEF RowsGrow, FromPages

LEMMA DisableRefused ==
    ASSUME PagesInv, NEW o \in Operator, Disable(o)
    PROVE  RowsGrow /\ FromPages
<1>1. /\ form[o] # NoForm /\ Current(o)
      /\ Rebind(form[o].environment, form[o].publication[1], Disabled, NoEndpoint)
      /\ UNCHANGED <<environments, lifecycles>>
  BY DEF Disable, shared
<1>2. /\ \A d \in environments, r \in Service :
            /\ revisions[d][r] <= revisions'[d][r]
            /\ revisions'[d][r] = revisions[d][r] =>
                  active'[d][r] = active[d][r] /\ bindings'[d][r] = bindings[d][r]
      /\ \A d \in environments, r \in Service :
            <<active[d][r], bindings[d][r]>> # <<active'[d][r], bindings'[d][r]>> =>
               \E x \in Operator : /\ form[x] # NoForm
                                   /\ form[x].environment = d
                                   /\ form[x].publication[1] = r
                                   /\ form[x].active = active[d][r]
                                   /\ form[x].binding = bindings[d][r]
  BY <1>1, RebindFromPage
<1>3. \A q \in publications : lifecycles[q].revision \in Nat
  BY DEF PagesInv, Inv, TypeOK, Lifecycle
<1> QED
  BY <1>1, <1>2, <1>3 DEF RowsGrow, FromPages

LEMMA LifecycleRefused ==
    ASSUME PagesInv, NEW o \in Operator, NEW status \in {"published", "deprecated", "retired"},
           NEW day \in 0..LastDay, SetLifecycle(o, status, day)
    PROVE  RowsGrow /\ FromPages
<1> DEFINE p == form[o].publication
<1>1. /\ form[o] # NoForm /\ lifecycles[p].revision = form[o].lifecycle.revision
      /\ NextRow(p, status, day) /\ UNCHANGED <<environments, active, bindings, revisions>>
  BY DEF SetLifecycle, perEnvironment
<1>2. Inv /\ p \in Publication /\ day \in Nat
  BY <1>1, FormTyped, BoundAssumption DEF PagesInv, Inv
<1>3. form[o].lifecycle = lifecycles[p]
  BY <1>1 DEF PagesInv, PageFits
<1>4. form[o].publication = p
  OBVIOUS
<1> HIDE DEF p
<1>5. \A q \in publications :
         /\ lifecycles[q].revision \in Nat
         /\ q # p => lifecycles'[q] = lifecycles[q]
         /\ q = p => lifecycles'[q].revision = lifecycles[q].revision + 1
  BY <1>1, <1>2, RowCounts
<1>6. \A e \in environments, s \in Service : revisions[e][s] \in Nat
  BY <1>2 DEF Inv, TypeOK
<1> QED
  BY <1>1, <1>3, <1>4, <1>5, <1>6 DEF RowsGrow, FromPages

LEMMA ImportRefused ==
    ASSUME LocalHistoric, PagesInv, NEW e \in Environment, NEW catalog \in Importable,
           Import(e, catalog)
    PROVE  RowsGrow /\ FromPages
<1>1. Inv
  BY DEF PagesInv
<1>2. lifecycles' = lifecycles
  BY <1>1, ImportKeepsRows
<1>3. /\ e \notin environments /\ environments' = environments \cup {e}
      /\ active' = [active EXCEPT ![e] = catalog.active]
      /\ bindings' = [bindings EXCEPT ![e] = catalog.bindings]
      /\ revisions' = [revisions EXCEPT ![e] = catalog.revisions]
  BY DEF Import
<1>4. \A d \in environments : /\ active'[d] = active[d] /\ bindings'[d] = bindings[d]
                              /\ revisions'[d] = revisions[d]
  BY <1>1, <1>3 DEF Inv, TypeOK
<1>5. /\ \A d \in environments, s \in Service : revisions[d][s] \in Nat
      /\ \A p \in publications : lifecycles[p].revision \in Nat
  BY <1>1 DEF Inv, TypeOK, Lifecycle
<1> QED
  BY <1>2, <1>3, <1>4, <1>5 DEF RowsGrow, FromPages

\* A page that is not reloaded goes on to fit what is there.
LEMMA PagesFollow ==
    ASSUME PagesInv, RowsGrow, TypeOK', UNCHANGED form
    PROVE  \A o \in Operator : PageFits(o)'
<1> SUFFICES ASSUME NEW o \in Operator, form[o] # NoForm PROVE PageFits(o)'
  BY DEF PageFits
<1> DEFINE e == form[o].environment
           p == form[o].publication
           f == form[o]
<1>1. TypeOK /\ PageFits(o) /\ e \in Environment /\ p \in publications /\ p[1] \in Service
  BY FormTyped DEF PagesInv, Inv, Consistent
<1>2. /\ f.revision \in Nat /\ f.lifecycle \in Lifecycle /\ f.lifecycle.revision \in Nat
      /\ revisions[e][p[1]] \in Nat /\ lifecycles[p].revision \in Nat
  <2>1. f \in Form
    BY <1>1 DEF TypeOK
  <2> QED
    BY <1>1, <2>1 DEF TypeOK, Form, Lifecycle
<1> HIDE DEF e, p, f
<1>3. form'[o] = f /\ f.environment = e /\ f.publication = p /\ f = form[o]
  BY DEF e, p, f
<1>4. /\ e \in environments /\ f.revision <= revisions[e][p[1]]
      /\ f.revision = revisions[e][p[1]] =>
            f.active = active[e][p[1]] /\ f.binding = bindings[e][p[1]]
      /\ f.lifecycle.revision <= lifecycles[p].revision
      /\ f.lifecycle.revision = lifecycles[p].revision => f.lifecycle = lifecycles[p]
  BY <1>1, <1>3 DEF PageFits
<1>5. /\ e \in environments' /\ revisions[e][p[1]] <= revisions'[e][p[1]]
      /\ revisions'[e][p[1]] = revisions[e][p[1]] =>
            active'[e][p[1]] = active[e][p[1]] /\ bindings'[e][p[1]] = bindings[e][p[1]]
  BY <1>1, <1>4 DEF RowsGrow
<1>6. /\ lifecycles[p].revision <= lifecycles'[p].revision
      /\ lifecycles'[p].revision = lifecycles[p].revision => lifecycles'[p] = lifecycles[p]
  BY <1>1 DEF RowsGrow
<1>7. lifecycles'[p].revision \in Nat /\ revisions'[e][p[1]] \in Nat
  BY <1>1 DEF TypeOK, Lifecycle
<1>8. /\ f.revision <= revisions'[e][p[1]]
      /\ f.revision = revisions'[e][p[1]] =>
            f.active = active'[e][p[1]] /\ f.binding = bindings'[e][p[1]]
  BY <1>2, <1>4, <1>5, <1>7
<1>9. f.lifecycle.revision <= lifecycles'[p].revision
  BY <1>2, <1>4, <1>6, <1>7
<1>10. f.lifecycle.revision = lifecycles'[p].revision => f.lifecycle = lifecycles'[p]
  <2>1. SUFFICES ASSUME f.lifecycle.revision = lifecycles'[p].revision
                 PROVE  f.lifecycle = lifecycles'[p]
    OBVIOUS
  <2>2. lifecycles'[p].revision = lifecycles[p].revision
    BY <1>2, <1>4, <1>6, <1>7, <2>1
  <2> QED
    BY <1>4, <1>6, <2>1, <2>2
<1> QED
  BY <1>3, <1>5, <1>8, <1>9, <1>10 DEF PageFits

\* Who opens a page sees what is there.
LEMMA OpenFits ==
    ASSUME PagesInv, NEW o \in Operator, NEW e \in Environment, NEW p \in Publication,
           Open(o, e, p)
    PROVE  \A x \in Operator : PageFits(x)'
<1> DEFINE f == [environment |-> e, publication |-> p,
                 active |-> active[e][p[1]], binding |-> bindings[e][p[1]],
                 revision |-> revisions[e][p[1]], lifecycle |-> lifecycles[p]]
<1>1. /\ e \in environments /\ form' = [form EXCEPT ![o] = f]
      /\ UNCHANGED <<environments, active, bindings, revisions, lifecycles>>
  BY DEF Open, Loadable, shared, perEnvironment
<1>2. /\ f.environment = e /\ f.publication = p /\ f.active = active[e][p[1]]
      /\ f.binding = bindings[e][p[1]] /\ f.revision = revisions[e][p[1]]
      /\ f.lifecycle = lifecycles[p]
  OBVIOUS
<1>3. /\ TypeOK /\ p[1] \in Service /\ revisions[e][p[1]] \in Nat
      /\ lifecycles[p].revision \in Nat
  BY DEF PagesInv, Inv, TypeOK, Lifecycle, Service
<1> HIDE DEF f
<1>4. \A x \in Operator : form'[x] = IF x = o THEN f ELSE form[x]
  BY <1>1, <1>3 DEF TypeOK
<1>5. PageFits(o)'
  BY <1>1, <1>2, <1>3, <1>4 DEF PageFits
<1>6. \A x \in Operator \ {o} : PageFits(x)'
  BY <1>1, <1>4 DEF PagesInv, PageFits
<1> QED
  BY <1>5, <1>6

LEMMA PagesNext ==
    ASSUME LocalHistoric, PagesInv, [Next]_vars
    PROVE  PagesInv' /\ FromPages
<1>1. Inv /\ Inv'
  BY InvNext DEF PagesInv
<1>2. ASSUME RowsGrow /\ FromPages, UNCHANGED form PROVE PagesInv' /\ FromPages
  BY <1>1, <1>2, PagesFollow DEF PagesInv, Inv
<1>3. CASE NextDay
  <2>1. UNCHANGED <<environments, active, bindings, revisions, lifecycles, form>>
    BY <1>3 DEF NextDay, shared, perEnvironment
  <2> QED
    BY <1>1, <1>2, <2>1, RowsStay
<1>4. ASSUME NEW o \in Operator, NEW e \in Environment, NEW p \in Publication, Open(o, e, p)
      PROVE  PagesInv' /\ FromPages
  <2>1. UNCHANGED <<environments, active, bindings, revisions, lifecycles>>
    BY <1>4 DEF Open, shared, perEnvironment
  <2> QED
    BY <1>1, <1>4, <2>1, RowsStay, OpenFits DEF PagesInv
<1>5. ASSUME NEW o \in Operator, Submit(o) PROVE PagesInv' /\ FromPages
  <2>1. UNCHANGED form
    BY <1>5 DEF Submit, Activate, Disable, SetLifecycle
  <2> QED
    BY <1>2, <1>5, <2>1, ActivateRefused, DisableRefused, LifecycleRefused DEF Submit
<1>6. ASSUME NEW e \in Environment, NEW p \in Publication, Publish(e, p)
      PROVE  PagesInv' /\ FromPages
  <2>1. /\ p \notin publications /\ lifecycles' = [lifecycles EXCEPT ![p] = Draft]
        /\ UNCHANGED <<environments, active, bindings, revisions, form>>
    BY <1>6 DEF Publish, perEnvironment
  <2>2. \A q \in publications : lifecycles'[q] = lifecycles[q]
    BY <1>1, <2>1 DEF Inv, TypeOK
  <2> QED
    BY <1>1, <1>2, <2>1, <2>2, RowsStay
<1>7. ASSUME NEW e \in Environment, Export(e) PROVE PagesInv' /\ FromPages
  <2>1. UNCHANGED <<environments, active, bindings, revisions, lifecycles, form>>
    BY <1>7 DEF Export, shared, perEnvironment
  <2> QED
    BY <1>1, <1>2, <2>1, RowsStay
<1>8. ASSUME NEW e \in Environment, NEW catalog \in Importable, Import(e, catalog)
      PROVE  PagesInv' /\ FromPages
  <2>1. UNCHANGED form
    BY <1>8 DEF Import
  <2> QED
    BY <1>2, <1>8, <2>1, ImportRefused
<1>9. CASE UNCHANGED vars
  <2>1. UNCHANGED <<environments, active, bindings, revisions, lifecycles, form>>
    BY <1>9 DEF vars, shared, perEnvironment
  <2> QED
    BY <1>1, <1>2, <2>1, RowsStay
<1> QED
  BY <1>3, <1>4, <1>5, <1>6, <1>7, <1>8, <1>9 DEF Next

\* Under the same condition a stale page changes nothing: a binding is replaced, and a
\* lifecycle changed by hand, only from a page that shows what is replaced, however many
\* pages are open and however late or often they are sent.
THEOREM StalePagesChangeNothing ==
    ASSUME LocalHistoric
    PROVE  Spec => StalePagesRefused
<1>1. Init => PagesInv
  BY InvInit DEF Init, PagesInv, PageFits
<1>2. PagesInv /\ [Next]_vars => PagesInv'
  BY PagesNext
<1>3. PagesInv /\ [Next]_vars =>
        [/\ \A e \in environments, s \in Service :
               <<active[e][s], bindings[e][s]>> # <<active'[e][s], bindings'[e][s]>> =>
                  \E o \in Operator : /\ form[o] # NoForm
                                      /\ form[o].environment = e
                                      /\ form[o].publication[1] = s
                                      /\ form[o].active = active[e][s]
                                      /\ form[o].binding = bindings[e][s]
         /\ \A p \in publications :
               lifecycles'[p] # lifecycles[p] =>
                  \/ lifecycles[p].status = "draft" /\ lifecycles'[p].status = "published"
                  \/ \E o \in Operator : /\ form[o] # NoForm
                                         /\ form[o].publication = p
                                         /\ form[o].lifecycle = lifecycles[p]]_vars
  BY PagesNext DEF FromPages
<1> QED
  BY <1>1, <1>2, <1>3, PTL DEF Spec, StalePagesRefused
=============================================================================
