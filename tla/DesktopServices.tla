--------------------------- MODULE DesktopServices ---------------------------
(* The service registry of the desktop server: one service whose versions are  *)
(* registered, bound to a deployment in an environment, deprecated and retired.*)
(* Each process keeps the state of an environment in memory and changes it     *)
(* inside a transaction of the shared database, before that commits; calls are *)
(* resolved in memory and sent to the deployment the binding names, which the  *)
(* operators' file must still declare.                                         *)
EXTENDS Naturals, FiniteSets

CONSTANTS
    Process, Environment, ServiceVersion,
    Own,           \* the environment a process serves
    Manager,       \* processes through which administrators change every environment
    Serving,       \* processes that are called
    MaxSwitches, MaxDeploys

ASSUME DesktopServicesAssumption ==
    /\ Own \in [Process -> Environment] /\ Manager \subseteq Process
    /\ Serving \subseteq Process
    /\ MaxSwitches \in Nat /\ MaxDeploys \in Nat

VARIABLES
    db,          \* service_publications, service_version_lifecycles, service_bindings
    deployed,    \* SERVICE_DEPLOYMENTS_FILE: the deployment of each environment
    catalogRead, \* the deployments a process has read
    mem,         \* state of createServiceRegistry, per process and environment
    txn,         \* the transaction that holds pg_advisory_xact_lock
    handled,     \* the call a process handles: the version its path was found in
    sent,        \* the version and deployment its last call was sent to
    writes

servicesVars == <<db, deployed, catalogRead, mem, txn, handled, sent, writes>>

NoVersion == "none"
NoBinding == [version |-> NoVersion, digest |-> 0]
NoTransaction == [process |-> "nobody", environment |-> "nowhere"]
Statuses == {"absent", "draft", "published", "deprecated", "retired"}
Deployments == [digest : 1 .. MaxDeploys + 1, declares : SUBSET ServiceVersion]
States ==
    [lifecycle : [ServiceVersion -> Statuses], active : ServiceVersion \cup {NoVersion},
     revision : 0 .. MaxSwitches,
     binding : [version : ServiceVersion \cup {NoVersion}, digest : 0 .. MaxDeploys + 1]]

\* readState: one consistent snapshot, the lifecycles shared by all environments.
ReadState(e) ==
    [lifecycle |-> db.lifecycle, active |-> db.active[e],
     revision |-> db.revision[e], binding |-> db.binding[e]]

\* validateRegistrySnapshot: a state that fails it cannot be read back.
Readable(saved) ==
    saved.active # NoVersion => saved.lifecycle[saved.active] \in {"published", "deprecated"}

\* bindingFor: the deployment as it is known declares this version.
Bindable(v, deployment, digest) == deployment.digest = digest /\ v \in deployment.declares

InChange(p, e) == txn # NoTransaction /\ txn.process = p /\ txn.environment = e

\* Nothing is registered, or a version an import brought, which counts as published.
ServicesInit ==
    /\ \E status \in {"absent", "published"} :
         db = [lifecycle |-> [v \in ServiceVersion |-> status],
               active |-> [e \in Environment |-> NoVersion],
               revision |-> [e \in Environment |-> 0],
               binding |-> [e \in Environment |-> NoBinding]]
    /\ deployed = [e \in Environment |-> [digest |-> 1, declares |-> ServiceVersion]]
    /\ catalogRead = [p \in Process |-> deployed]
    /\ mem = [p \in Process |-> [e \in Environment |-> ReadState(e)]]
    /\ txn = NoTransaction
    /\ handled = [p \in Process |-> NoVersion]
    /\ sent = [p \in Process |-> [version |-> NoVersion, declares |-> {}]]
    /\ writes = 0

-----------------------------------------------------------------------------
(* The administrators' changes, inside the lock.                            *)

\* publish: a new version waits as a draft.
Published(saved) ==
    {[saved EXCEPT !.lifecycle[v] = "draft"] :
        v \in {v \in ServiceVersion : saved.lifecycle[v] = "absent"}}

\* activate, of a version the deployment declares; a draft is published by it.
Activated(saved, deployment) ==
    {[saved EXCEPT !.lifecycle[v] = "published", !.revision = @ + 1, !.active = v,
                   !.binding = [version |-> v, digest |-> deployment.digest]] :
        v \in {v \in deployment.declares : saved.lifecycle[v] \in {"draft", "published"}}}
    \ {[saved EXCEPT !.revision = @ + 1]}

\* Faulty variant: the binding of the version that is switched off is kept.
DisabledKept(saved) ==
    {[saved EXCEPT !.revision = @ + 1, !.active = NoVersion] :
        v \in {saved.active} \ {NoVersion}}

\* activate with no version: the binding goes with it.
Disabled(saved) ==
    {[saved EXCEPT !.revision = @ + 1, !.binding = NoBinding, !.active = NoVersion] :
        v \in {saved.active} \ {NoVersion}}

\* Faulty variant: only the environment at hand is asked who uses the version.
UsedHere(saved) == {saved.active}

\* The versions in use: the bindings of every environment, read under the lock.
Used(saved) == {db.active[e] : e \in Environment}

\* setLifecycle: deprecated, published again, or retired once nobody uses it.
Aged(saved) ==
    LET Having(statuses) == {v \in ServiceVersion : saved.lifecycle[v] \in statuses}
        Becomes(vs, status) == {[saved EXCEPT !.lifecycle[v] = status] : v \in vs}
    IN  Becomes(Having({"published"}), "deprecated")
          \cup Becomes(Having({"deprecated"}), "published")
          \cup Becomes(Having({"draft", "deprecated"}) \ Used(saved), "retired")

\* change: BEGIN, the lock, the state read and changed in memory; activate reads the
\* deployments again first.
ChangeState(p, e) ==
    /\ p \in Manager
    /\ txn = NoTransaction
    /\ writes < MaxSwitches
    /\ writes' = writes + 1
    /\ LET saved == ReadState(e)
       IN  /\ Readable(saved)
           /\ \E after \in Published(saved) \cup Disabled(saved) \cup Aged(saved)
                              \cup Activated(saved, deployed[e]) :
                 mem' = [mem EXCEPT ![p][e] = after]
           /\ txn' = [process |-> p, environment |-> e, previous |-> mem[p][e]]
    /\ catalogRead' = [catalogRead EXCEPT ![p] = deployed]
    /\ UNCHANGED <<db, deployed, handled, sent>>

\* insertChanges and COMMIT write what the transaction left in memory.
Stored ==
    LET after == mem[txn.process][txn.environment]
    IN  [db EXCEPT !.lifecycle = after.lifecycle,
                   !.active[txn.environment] = after.active,
                   !.revision[txn.environment] = after.revision,
                   !.binding[txn.environment] = after.binding]

CommitChange ==
    /\ txn # NoTransaction
    /\ db' = Stored
    /\ txn' = NoTransaction
    /\ UNCHANGED <<deployed, catalogRead, mem, handled, sent, writes>>

\* Faulty variant: what the failed change left in memory stays there.
AbortKeeping(applied) ==
    /\ txn # NoTransaction
    /\ db' = IF applied THEN Stored ELSE db
    /\ txn' = NoTransaction
    /\ UNCHANGED <<deployed, catalogRead, mem, handled, sent, writes>>

\* A statement fails, or COMMIT does, applied or not: memory is put back.
AbortChange(applied) ==
    /\ txn # NoTransaction
    /\ db' = IF applied THEN Stored ELSE db
    /\ mem' = [mem EXCEPT ![txn.process][txn.environment] = txn.previous]
    /\ txn' = NoTransaction
    /\ UNCHANGED <<deployed, catalogRead, handled, sent, writes>>

-----------------------------------------------------------------------------
(* Calls, and the operators' file.                                          *)

\* A request refreshes the state behind the changes of its process, or is content with
\* what was read less than a second ago or while the database is away.
Refresh(p, e) ==
    /\ p \in Manager \/ e = Own[p]
    /\ ~InChange(p, e)
    /\ Readable(ReadState(e))
    /\ mem' = [mem EXCEPT ![p][e] = ReadState(e)]
    /\ UNCHANGED <<db, deployed, catalogRead, txn, handled, sent, writes>>

\* resolve or invoke: the path is found in the version now active in memory.
FindVersion(p) ==
    /\ handled[p] = NoVersion
    /\ ~InChange(p, Own[p])
    /\ mem[p][Own[p]].active # NoVersion
    /\ catalogRead' = [catalogRead EXCEPT ![p] = deployed]
    /\ handled' = [handled EXCEPT ![p] = mem[p][Own[p]].active]
    /\ sent' = [sent EXCEPT ![p] = [version |-> NoVersion, declares |-> {}]]
    /\ UNCHANGED <<db, deployed, mem, txn, writes>>

\* Faulty variant: the deployment is taken by its name, whatever it is by now.
SendAnywhere(p) ==
    /\ handled[p] # NoVersion
    /\ handled' = [handled EXCEPT ![p] = NoVersion]
    /\ LET saved == mem[p][Own[p]]
           deployment == catalogRead[p][Own[p]]
       IN  sent' = IF saved.active # NoVersion /\ saved.binding.version = saved.active
                   THEN [sent EXCEPT ![p] = [version |-> saved.active,
                                             declares |-> deployment.declares]]
                   ELSE sent
    /\ UNCHANGED <<db, deployed, catalogRead, mem, txn, writes>>

\* Once the centre has answered, deployment() looks the binding up in memory and the
\* deployment in the file as it was read; the call is proxied there or answered 503.
SendCall(p) ==
    /\ handled[p] # NoVersion
    /\ handled' = [handled EXCEPT ![p] = NoVersion]
    /\ LET saved == mem[p][Own[p]]
           deployment == catalogRead[p][Own[p]]
       IN  sent' = IF /\ saved.active # NoVersion
                      /\ saved.binding.version = saved.active
                      /\ Bindable(saved.active, deployment, saved.binding.digest)
                   THEN [sent EXCEPT ![p] = [version |-> saved.active,
                                             declares |-> deployment.declares]]
                   ELSE sent
    /\ UNCHANGED <<db, deployed, catalogRead, mem, txn, writes>>

\* A deployment is replaced: another digest, and perhaps other versions.
Deploy(e) ==
    /\ \A f \in Environment : deployed[f].digest <= MaxDeploys
    /\ \E declares \in SUBSET ServiceVersion :
          deployed' = [deployed EXCEPT ![e] = [digest |-> deployed[e].digest + 1,
                                               declares |-> declares]]
    /\ UNCHANGED <<db, catalogRead, mem, txn, handled, sent, writes>>

ServicesNext ==
    \/ \E p \in Process, e \in Environment : ChangeState(p, e) \/ Refresh(p, e)
    \/ CommitChange
    \/ \E applied \in BOOLEAN : AbortChange(applied)
    \/ \E p \in Serving : FindVersion(p) \/ SendCall(p)
    \/ \E e \in Environment : Deploy(e)

-----------------------------------------------------------------------------
ServicesTypeOK ==
    /\ \A e \in Environment : ReadState(e) \in States
    /\ deployed \in [Environment -> Deployments]
    /\ catalogRead \in [Process -> [Environment -> Deployments]]
    /\ mem \in [Process -> [Environment -> States]]
    /\ handled \in [Process -> ServiceVersion \cup {NoVersion}]
    /\ writes \in 0 .. MaxSwitches

\* What an environment has active can be read back and is not retired or a draft,
\* whoever retires versions in another environment meanwhile.
ReadsBack == \A e \in Environment : Readable(ReadState(e))

\* The binding an environment stores belongs to the version it has active.
BoundAsActive == \A e \in Environment : db.binding[e].version = db.active[e]

\* Outside its own transaction a process never holds a switch the database does not: its
\* memory only lags behind.
MemoryOnlyLags ==
    \A p \in Process, e \in Environment :
        ~InChange(p, e) =>
            /\ mem[p][e].revision <= db.revision[e]
            /\ mem[p][e].revision = db.revision[e] =>
                  /\ mem[p][e].active = db.active[e]
                  /\ mem[p][e].binding = db.binding[e]

\* A call goes to a deployment that declared the version it is sent for.
SentWhereDeclared ==
    \A p \in Process : sent[p].version # NoVersion => sent[p].version \in sent[p].declares

\* What the registry of the desktop promises: states that can be read back, bindings
\* that fit, memory that never runs ahead, calls sent where the version is deployed.
ServicesHold == ReadsBack /\ BoundAsActive /\ MemoryOnlyLags /\ SentWhereDeclared
=============================================================================
