--------------------------- MODULE SupplierAccount ---------------------------
(* One supplier account of the gateway: its schedule and its row through the *)
(* synchronisations of several instances, and what one reading brings into it. *)
EXTENDS Integers, RouteMonitoring

-----------------------------------------------------------------------------
(***************************************************************************)
(* One supplier account of the gateway: synchronised on a schedule and by  *)
(* hand from several instances under a named database lock, while          *)
(* administrators replace its credential and switch it.  Every operation   *)
(* reads the row, may wait for the supplier, and saves the whole entity it *)
(* read: TypeORM writes each column that differs from the row by then.     *)
(***************************************************************************)
CONSTANTS
    Task,       \* 1..n: slots of operations under way
    Node,       \* instances of the gateway
    Credential  \* credentials 1..n the administrators may enter

ASSUME SupplierAssumption ==
    /\ Task \subseteq Nat \ {0} /\ Node # {}
    /\ Credential \subseteq Nat \ {0}

FreeTask == 0    \* beside the tasks
Leaked == -1
NoCredential == 0

VARIABLES
    supplierRow,  \* the row
    chosen,   \* history: what administrators asked for last, until saves overlap
    job,      \* operations under way
    syncing,  \* SupplierAccountSyncService.syncingAccountIds of each instance
    lock,     \* the named lock: free, of a task, or leaked into the connection pool
    trace     \* history: [overlapped, lost: the lock left its task, attempted: in this interval]

SupplierVars == <<supplierRow, chosen, job, syncing, lock, trace>>

Row == [credential : Credential \cup {NoCredential}, enabled : BOOLEAN, routing : BOOLEAN,
        due : BOOLEAN]
FirstRow == [credential |-> NoCredential, enabled |-> FALSE, routing |-> TRUE, due |-> TRUE]
SettingsChosen(row) == [credential |-> row.credential, enabled |-> row.enabled, routing |-> row.routing]
NoJob == [phase |-> "idle", node |-> CHOOSE n \in Node : TRUE, scheduled |-> FALSE,
          row |-> FirstRow, fresh |-> TRUE]

SupplierTypeOK ==
    /\ supplierRow \in Row
    /\ chosen \in [credential : Credential \cup {NoCredential}, enabled : BOOLEAN, routing : BOOLEAN]
    /\ job \in [Task -> [phase : {"idle", "lock", "read", "fetch", "release", "edit"}, node : Node,
                         scheduled : BOOLEAN, row : Row, fresh : BOOLEAN]]
    /\ syncing \subseteq Node
    /\ lock \in Task \cup {FreeTask, Leaked}
    /\ trace \in [overlapped : BOOLEAN, lost : BOOLEAN, attempted : BOOLEAN]

SupplierInit ==
    /\ supplierRow = FirstRow
    /\ chosen = SettingsChosen(FirstRow)
    /\ job = [t \in Task |-> NoJob]
    /\ syncing = {} /\ lock = FreeTask
    /\ trace = [overlapped |-> FALSE, lost |-> FALSE, attempted |-> FALSE]

-----------------------------------------------------------------------------
\* accountRepo.save of the entity t read; who read before it is no longer fresh.
Save(t, row, next, choices) ==
    /\ supplierRow' = row
    /\ job' = [u \in Task |->
           IF u = t THEN next
           ELSE [job[u] EXCEPT !.fresh = job[u].phase \notin {"fetch", "edit"}]]
    /\ trace' = [trace EXCEPT !.overlapped = @ \/ ~job[t].fresh,
                              !.attempted = @ \/ job[t].phase = "fetch"]
    /\ chosen' = IF trace'.overlapped THEN SettingsChosen(FirstRow) ELSE choices

\* An operation takes the first free slot.
FirstFree(t) == job[t].phase = "idle" /\ \A u \in Task : u < t => job[u].phase # "idle"

Goes(t, phase) == job' = [job EXCEPT ![t].phase = phase]

\* By hand, or by the minute's schedule for an enabled account that looks due; a
\* second one in the same instance is refused.
StartSync(t, n, scheduled) ==
    /\ FirstFree(t) /\ n \notin syncing
    /\ scheduled => supplierRow.enabled /\ supplierRow.credential # NoCredential /\ supplierRow.due
    /\ syncing' = syncing \cup {n}
    /\ job' = [job EXCEPT ![t] = [NoJob EXCEPT !.phase = "lock", !.node = n, !.scheduled = scheduled]]
    /\ UNCHANGED <<supplierRow, chosen, lock, trace>>

\* Faulty variant: the answer of GET_LOCK is not looked at.
AcquireLockUnseen(t) ==
    /\ job[t].phase = "lock"
    /\ lock' = IF lock = FreeTask THEN t ELSE lock
    /\ Goes(t, "read")
    /\ UNCHANGED <<supplierRow, chosen, syncing, trace>>

\* GET_LOCK(name, 0) on a connection of the pool: one that kept the lock gets it again.
AcquireSyncLock(t) ==
    /\ job[t].phase = "lock"
    /\ lock \in {FreeTask, Leaked}
    /\ lock' = IF lock = FreeTask THEN t ELSE lock
    /\ Goes(t, "read")
    /\ UNCHANGED <<supplierRow, chosen, syncing, trace>>

LockTaken(t) ==
    /\ job[t].phase = "lock"
    /\ lock # FreeTask
    /\ job' = [job EXCEPT ![t] = NoJob]
    /\ syncing' = syncing \ {job[t].node}
    /\ UNCHANGED <<supplierRow, chosen, lock, trace>>

\* Faulty variant: whether it is due was checked before the lock.
StillDueUnchecked(t) == TRUE

StillDue(t) == job[t].scheduled => supplierRow.due

\* Faulty variant: what is not due returns at once.
ReadAccountReturns(t) ==
    /\ job[t].phase = "read"
    /\ job' = [job EXCEPT ![t] = IF StillDue(t) /\ supplierRow.credential # NoCredential
                                 THEN [@ EXCEPT !.phase = "fetch", !.row = supplierRow, !.fresh = TRUE]
                                 ELSE NoJob]
    /\ UNCHANGED <<supplierRow, chosen, syncing, lock, trace>>

\* Under the lock the row is read again.
ReadAccount(t) ==
    /\ job[t].phase = "read"
    /\ job' = [job EXCEPT ![t] = IF StillDue(t) /\ supplierRow.credential # NoCredential
                                 THEN [@ EXCEPT !.phase = "fetch", !.row = supplierRow, !.fresh = TRUE]
                                 ELSE [@ EXCEPT !.phase = "release"]]
    /\ UNCHANGED <<supplierRow, chosen, syncing, lock, trace>>

\* applySuccess, or applyFailure for a credential that is refused or cannot be
\* decrypted and for a supplier that does not answer: balance and status, left
\* out here, and the time of the attempt.
SyncAnswered(t) ==
    /\ job[t].phase = "fetch"
    /\ Save(t, [job[t].row EXCEPT !.due = FALSE],
            [job[t] EXCEPT !.phase = "release", !.row = FirstRow, !.fresh = TRUE], chosen)
    /\ UNCHANGED <<syncing, lock>>

\* RELEASE_LOCK; unanswered, the connection goes back to the pool with the lock.
ReleaseLock(t, answered) ==
    /\ job[t].phase = "release"
    /\ lock' = IF lock # t THEN lock ELSE IF answered THEN FreeTask ELSE Leaked
    /\ job' = [job EXCEPT ![t] = NoJob]
    /\ syncing' = syncing \ {job[t].node}
    /\ trace' = [trace EXCEPT !.lost = @ \/ (lock = t /\ ~answered)]
    /\ UNCHANGED <<supplierRow, chosen>>

\* The database closes the connection that holds the lock: it is free, and the
\* task goes on.
LoseConnection ==
    /\ lock # FreeTask
    /\ lock' = FreeTask
    /\ trace' = [trace EXCEPT !.lost = TRUE]
    /\ UNCHANGED <<supplierRow, chosen, job, syncing>>

StopNode(n) ==
    /\ \E t \in Task : job[t].phase # "idle" /\ job[t].node = n
    /\ job' = [t \in Task |-> IF job[t].node = n THEN NoJob ELSE job[t]]
    /\ syncing' = syncing \ {n}
    /\ lock' = IF lock \in Task /\ job[lock].node = n THEN FreeTask ELSE lock
    /\ UNCHANGED <<supplierRow, chosen, trace>>

-----------------------------------------------------------------------------
(* Administrators: saveCredential and SupplierAccountDirectoryService.      *)

StartEdit(t) ==
    /\ FirstFree(t)
    /\ job' = [job EXCEPT ![t] = [NoJob EXCEPT !.phase = "edit", !.row = supplierRow]]
    /\ UNCHANGED <<supplierRow, chosen, syncing, lock, trace>>

SaveEdit(t, row, choices) ==
    /\ job[t].phase = "edit"
    /\ Save(t, row, NoJob, choices)
    /\ UNCHANGED <<syncing, lock>>

\* Faulty variant: a new credential switches the synchronisation on.
SaveCredentialEnabling(t, credential, enabled) ==
    /\ SaveEdit(t, [job[t].row EXCEPT !.credential = credential, !.enabled = TRUE, !.due = FALSE],
                [chosen EXCEPT !.credential = credential, !.enabled = enabled])

\* The supplier has accepted the credential.
SaveCredential(t, credential, enabled) ==
    /\ SaveEdit(t, [job[t].row EXCEPT !.credential = credential, !.enabled = enabled,
                                      !.due = FALSE],
                [chosen EXCEPT !.credential = credential, !.enabled = enabled])

\* Switched on only with a credential.
SaveEnabled(t, enabled) ==
    /\ enabled => job[t].row.credential # NoCredential
    /\ SaveEdit(t, [job[t].row EXCEPT !.enabled = enabled], [chosen EXCEPT !.enabled = enabled])

SaveRouting(t, routing) ==
    /\ routing # job[t].row.routing
    /\ SaveEdit(t, [job[t].row EXCEPT !.routing = routing], [chosen EXCEPT !.routing = routing])

\* The credential was refused, nothing was changed, or a check failed.
DropEdit(t) ==
    /\ job[t].phase = "edit"
    /\ job' = [job EXCEPT ![t] = NoJob]
    /\ UNCHANGED <<supplierRow, chosen, syncing, lock, trace>>

\* The interval has passed since lastAttemptAt, in the row and in every copy.
BecomeDue ==
    /\ ~supplierRow.due
    /\ supplierRow' = [supplierRow EXCEPT !.due = TRUE]
    /\ trace' = [trace EXCEPT !.attempted = FALSE]
    /\ job' = [t \in Task |-> IF job[t].phase \in {"fetch", "edit"}
                              THEN [job[t] EXCEPT !.row.due = TRUE] ELSE job[t]]
    /\ UNCHANGED <<chosen, syncing, lock>>

SupplierNext ==
    \/ \E t \in Task :
          \/ \E n \in Node, scheduled \in BOOLEAN : StartSync(t, n, scheduled)
          \/ AcquireSyncLock(t)
          \/ LockTaken(t)
          \/ ReadAccount(t)
          \/ SyncAnswered(t)
          \/ \E answered \in BOOLEAN : ReleaseLock(t, answered)
          \/ StartEdit(t)
          \/ \E credential \in Credential, enabled \in BOOLEAN :
                SaveCredential(t, credential, enabled)
          \/ \E enabled \in BOOLEAN : SaveEnabled(t, enabled)
          \/ \E routing \in BOOLEAN : SaveRouting(t, routing)
          \/ DropEdit(t)
    \/ LoseConnection
    \/ \E n \in Node : StopNode(n)
    \/ BecomeDue

SupplierSpec == SupplierInit /\ [][SupplierNext]_SupplierVars

-----------------------------------------------------------------------------
\* Two synchronisations of the account ask the supplier at the same time only
\* after the database took the lock from one of them, or a connection came back
\* with it.
OneSyncAtATime ==
    \A t, u \in Task :
        job[t].phase = "fetch" /\ job[u].phase = "fetch" /\ t # u =>
            trace.lost

\* The schedule asks the supplier at most once per interval, from however many
\* instances: not again after an attempt that was recorded, unless an operation
\* that had read the row before it wrote the old time back.
OncePerInterval ==
    [][\A t \in Task :
        job[t].phase = "read" /\ job'[t].phase = "fetch" /\ job[t].scheduled /\ trace.attempted
            => trace.overlapped]_SupplierVars

\* The row holds the credential and the switches an administrator asked for last.
\* Only operations that overlapped can bring an older choice back: a save that
\* was read before another save, a slow synchronisation among them.
ChoicesKept == ~trace.overlapped => SettingsChosen(supplierRow) = chosen

\* The lock is held only for a synchronisation under way: every end of one, early
\* ones included, gives it back, unless the statement that does is not answered.
LockIsReturned == lock \in Task => job[lock].phase \in {"read", "fetch", "release"}

\* Instances and administrators share one account: it is read by one at a time and once
\* per interval, and what an administrator chose stays.
SyncHolds == []OneSyncAtATime /\ []ChoicesKept /\ []LockIsReturned /\ OncePerInterval

-----------------------------------------------------------------------------
(* What a reading of the CCTQ account brings into its row: the endpoints answer or *)
(* fail each on its own, and the row keeps for each part the reading it comes from. *)
(* One operation runs at a time, as the synchronisation lock makes them; the races  *)
(* of readings with administrators are the subject of SupplierSync.                 *)
CONSTANTS
    DashboardToken, ApiKey, \* the credentials an administrator may enter, by kind
    Interval,               \* minutes between two scheduled readings
    MaxReadings, LastMinute \* bounds

ASSUME ReadingAssumption ==
    /\ Interval \in Nat /\ MaxReadings \in Nat /\ LastMinute \in Nat
    /\ DashboardToken \cap ApiKey = {} /\ "none" \notin DashboardToken \cup ApiKey

NoKey == "none"
NeverRead == -Interval
Parts == {"groups", "models", "subscriptions"}
Adapter(key) == IF key \in ApiKey THEN "cctq-api-key" ELSE "cctq"

VARIABLES
    supplier,   \* [key, adapter, enabled, readable, quota, part, status, error, attempt]: the row
    readings,   \* successful readings so far; the data of the n-th are written n, 0 is none
    minutes,    \* the clock
    asked,      \* the minute of the last call made with a stored credential
    proven,     \* the credentials the supplier has answered to
    half        \* an API key reading is stored, its models are still to be read

readingVars == <<supplier, readings, minutes, asked, proven, half>>

ReadingInit ==
    /\ supplier = [key |-> NoKey, adapter |-> "cctq", enabled |-> FALSE, readable |-> TRUE,
                   quota |-> 0, part |-> [p \in Parts |-> 0], status |-> "unconfigured",
                   error |-> "none", attempt |-> NeverRead]
    /\ readings = 0 /\ minutes = 0 /\ asked = NeverRead
    /\ proven = {} /\ half = FALSE

\* The error codes of a required endpoint, and what becomes of the row.
Failures == {"credential_invalid", "rate_limited", "upstream_unavailable", "timeout",
             "network_error", "sync_failed", "invalid_response"}
StatusAfter(code) == IF code = "credential_invalid" THEN code ELSE "stale"

\* The parts a successful reading may leave out. With a token each optional endpoint is
\* asked on its own and may fail or answer nonsense; with a key one endpoint is asked.
TokenMisses == SUBSET Parts
KeyMisses == {{}}
Missing(key) == IF key \in ApiKey THEN KeyMisses ELSE TokenMisses

\* Faulty variant: what an optional endpoint failed to bring is stored empty.
PartsAsRead(key, missing) ==
    [p \in Parts |-> IF p \in missing THEN 0
                     ELSE IF key \in DashboardToken THEN readings + 1
                     ELSE IF p = "models" THEN supplier.part[p] ELSE 0]
\* A part whose endpoint failed stays as it was. A key reads the quota alone: the
\* models stay, groups and subscriptions are those of an account, and go.
PartsAfter(key, missing) ==
    [p \in Parts |-> IF p \in missing THEN supplier.part[p]
                     ELSE IF key \in DashboardToken THEN readings + 1
                     ELSE IF p = "models" THEN supplier.part[p] ELSE 0]

\* Faulty variant: a reading that lacks a part is stored like a whole one.
NoWarning(missing) == "none"
Warning(missing) == IF missing = {} THEN "none" ELSE "optional_sync_failed"

ApplySuccess(key, enabled) ==
    /\ readings < MaxReadings
    /\ \E missing \in Missing(key) :
          supplier' = [key |-> key, adapter |-> Adapter(key), enabled |-> enabled,
                       readable |-> TRUE, quota |-> readings + 1,
                       part |-> PartsAfter(key, missing), status |-> "healthy",
                       error |-> Warning(missing), attempt |-> minutes]
    /\ readings' = readings + 1
    /\ proven' = proven \cup {key}
    /\ half' = (key \in ApiKey)
    /\ UNCHANGED minutes

\* Faulty variant: the credential is stored before the supplier has answered to it.
StoredUntried(key, enabled) ==
    /\ supplier' = [supplier EXCEPT !.key = key, !.adapter = Adapter(key), !.enabled = enabled,
                                    !.readable = TRUE]
    /\ half' = FALSE
    /\ UNCHANGED <<readings, minutes, proven>>
\* A new credential is tried before it is stored: refused, nothing changes.
TryCredential(key, enabled) == ApplySuccess(key, enabled)

SaveNewCredential ==
    /\ ~half
    /\ \E key \in DashboardToken \cup ApiKey, enabled \in BOOLEAN : TryCredential(key, enabled)
    /\ UNCHANGED asked

SaveSettings ==
    /\ ~half
    /\ \E enabled \in BOOLEAN :
          /\ enabled => supplier.key # NoKey
          /\ supplier' = [supplier EXCEPT !.enabled = enabled]
    /\ UNCHANGED <<readings, minutes, asked, proven, half>>

\* The secret the credentials are encrypted with changes: what is stored is lost.
SecretChanges ==
    /\ supplier.readable /\ supplier.key # NoKey
    /\ supplier' = [supplier EXCEPT !.readable = FALSE]
    /\ UNCHANGED <<readings, minutes, asked, proven, half>>

\* Faulty variant: only a reading that succeeds counts as an attempt.
FailureUnnoted(code) == [supplier EXCEPT !.status = StatusAfter(code), !.error = code]
FailureNoted(code) == [supplier EXCEPT !.status = StatusAfter(code), !.error = code, !.attempt = minutes]

FetchStored ==
    /\ supplier.readable
    /\ asked' = minutes
    /\ \/ ApplySuccess(supplier.key, supplier.enabled)
       \/ /\ \E code \in Failures : supplier' = FailureNoted(code)
          /\ UNCHANGED <<readings, minutes, proven, half>>

Undecryptable ==
    /\ ~supplier.readable
    /\ supplier' = [supplier EXCEPT !.status = "credential_invalid", !.error = "decrypt_failed",
                                    !.attempt = minutes]
    /\ UNCHANGED <<readings, minutes, asked, proven, half>>

Synchronize ==
    /\ ~half /\ supplier.key # NoKey
    /\ FetchStored \/ Undecryptable

IsSyncDue == minutes - supplier.attempt >= Interval
ScheduledSync ==
    /\ ~half /\ supplier.key # NoKey /\ supplier.enabled /\ IsSyncDue
    /\ FetchStored \/ Undecryptable

\* The models of an API key, read after its quota is stored.
SyncModelsBestEffort ==
    /\ half /\ half' = FALSE
    /\ \/ supplier' = [supplier EXCEPT !.part["models"] = readings]
       \/ supplier' = [supplier EXCEPT !.error = "models_failed"]
    /\ UNCHANGED <<readings, minutes, asked, proven>>

\* The gateway stops between the two.
StopsHalfWay ==
    /\ half /\ half' = FALSE
    /\ UNCHANGED <<supplier, readings, minutes, asked, proven>>

MinutePasses ==
    /\ minutes < LastMinute /\ minutes' = minutes + 1
    /\ UNCHANGED <<supplier, readings, asked, proven, half>>

ReadingNext ==
    \/ SaveNewCredential \/ SaveSettings \/ SecretChanges \/ Synchronize \/ ScheduledSync
    \/ SyncModelsBestEffort \/ StopsHalfWay \/ MinutePasses

ReadingSpec == ReadingInit /\ [][ReadingNext]_readingVars

ReadingTypeOK ==
    /\ supplier.key \in DashboardToken \cup ApiKey \cup {NoKey}
    /\ supplier.adapter \in {"cctq", "cctq-api-key"} /\ supplier.enabled \in BOOLEAN
    /\ supplier.quota \in 0..MaxReadings /\ supplier.part \in [Parts -> 0..MaxReadings]
    /\ supplier.status \in {"unconfigured", "healthy", "stale", "credential_invalid"}
    /\ supplier.attempt \in NeverRead..LastMinute
    /\ readings \in 0..MaxReadings /\ proven \subseteq DashboardToken \cup ApiKey

\* The stored credential has been answered to by the supplier: a mistyped one never
\* takes the place of one that worked.
CredentialProven == supplier.key # NoKey => supplier.key \in proven

\* An account that is shown healthy and without a warning shows one reading: its quota,
\* groups, models and subscriptions belong together, whatever failed before.
CleanMeansWhole ==
    supplier.key \in DashboardToken /\ supplier.status = "healthy" /\ supplier.error = "none" =>
        \A p \in Parts : supplier.part[p] = supplier.quota

\* What was read of an account is not lost to an endpoint that fails: while a token is
\* used a part that was there stays there, and the models survive a change to a key.
PartsKept ==
    [][\A p \in Parts :
          supplier.part[p] # 0 /\ (supplier'.key \in DashboardToken \/ p = "models") =>
              supplier'.part[p] # 0]_readingVars

\* However the calls end, the schedule leaves the supplier alone for the interval after
\* it was last asked.
NotHammered == [][ScheduledSync /\ supplier.readable => minutes - asked >= Interval]_readingVars

\* Readings that bring only a part leave an account that tells what it is made of.
ReadingHolds == []CredentialProven /\ []CleanMeansWhole /\ PartsKept /\ NotHammered

-----------------------------------------------------------------------------
\* The account and its readings, and the alerts on what is seen of the routes.
AdministrationSpec == SupplierSpec /\ ReadingSpec /\ AlertSpec

\* Administrators change what they asked to change of an account, and are told what was
\* seen: the readings of a supplier and the alerts on availability.
AdministrationHolds == SyncHolds /\ ReadingHolds /\ AlertsHold
=============================================================================
