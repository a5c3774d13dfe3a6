# Verification of mg-inside

TLA+ models, model-checking runs and machine-checked proofs for the parts of
this monorepo whose correctness depends on ordering, concurrency and failure.
The repository holds an AI gateway (`mg-token-one`), the platform kernel of a
web desktop (`mg-platform-kernel`, Java), the desktop itself, an identity centre
and the applications around them.

Contents: [the system](#the-system), [modules](#modules), [runs](#runs),
[fairness](#fairness), [findings](#findings), [proofs](#proofs),
[observations](#observations), [limits](#what-is-not-modelled), [plan](#plan).

## The system

### mg-token-one, the gateway

Several identical processes (NestJS) share one MySQL database and no other
channel. A controller calls `RelayService`, which admits the call, opens an
accounting context (`begin`, `reserve`), runs `RelayExecutor.execute`, which
calls `pick` and a transport in turn and reports each failure to the channel
pool, and finally settles the quota and writes the log row. Administrators work
on channels, models, groups, users and supplier accounts through Vue pages that
remember what they loaded.

| Part | State it keeps | What makes it hard | Modules |
|---|---|---|---|
| Channel pool: circuits | `channel_route_health`, a copy in each process, a MySQL named lock per (model, protocol) | outcomes of many processes interleave at each query, copies are stale, connections break between a write and its answer | `RouteHealth`, `CircuitBreaker`, `CircuitScope` |
| Channel pool: rotation | current weights per priority level, in one process | all requests turn the same weights, retries exclude and forget entries | `RoutePick`, `RouteRotation`, `RelayExecutor` |
| Channel pool: route table | routes in memory, refreshed every minute and after edits | refreshes overlap each other and the edits they are to show | `RouteTable` |
| Executor | channels tried and failed of one request | channels leave and return between attempts, the answer may have begun | `RelayExecutor` |
| Transports | the stream to one client | terminal event, end, error, watchdog and departure race; chunks are cut anywhere | `RelayStream` |
| Quota and accounting | `user_monthly_quotas`, a finalised flag per request | change of month, role and quota between two transactions, crashes, lost answers | `RelayQuota` |
| Admission, prices, logs | tariff, price list, quote of a request, log row | edits between the list of models, the call, its reservation and its charge | `ModelAdmission` |
| Users, groups, tokens | tables without references, caches per process | handlers read, wait and save the entities they read; a cache outlives the row | `GroupDirectory`, `TokenAccess`, `QuotaAdjustment` |
| Channels, models, diagnosis | rows, routes, a shadow column, dialogs of a page | loads and saves overlap, dialogs are opened while calls are under way | `RoutingPages`, `RouteMonitoring` |
| Supplier accounts, alerts | account rows, database locks, alert state | synchronised by several processes, readings that bring a part only | `SupplierAccount`, `RouteMonitoring` |
| Deployment scripts | a lock on the host, images, backups, the schema | a command fails, or its outcome is unknown, at any line; two operators | `ProductionRelease` |

### mg-platform-kernel, the platform, and mg-desktop-one, the desktop

| Part | State it keeps | What makes it hard | Modules |
|---|---|---|---|
| Service registry | publications and lifecycles shared by all environments, bindings and revisions of each | environments and operators act at once, pages are stale or sent twice, catalogues are imported long after their export | `ServiceRegistry`, `VersionLifecycle` |
| Snapshot and JSON storages, user files | the catalogue in memory and on disk, files of a user | the database is away, answers are lost, a write of a file fails or is cut | `PlatformStorage` |
| Switch of the storage | the JSON file, the database, the program that serves | a command of the script fails at any line, changes arrive meanwhile | `ProductionRelease` |
| Service gateway, telemetry | resolved call, deployments, a bounded queue | the registry is read twice while versions are switched | `ServiceGateway` |
| Desktop's own services | registry of versions in PostgreSQL and in memory of two processes | a read of one table may see the other one later | `DesktopServices` |
| Application onboarding | application row, task, login client | two systems changed in turn, each may fail; administrators edit the same row | `ApplicationOnboarding` |
| Contracts | JSON schemas | a recursive proof of inclusion that must not succeed wrongly | `SchemaInclusion` |
| Desktop in the browser | session, preferences, windows, dialogs | several tabs, late answers, frames that answer late or never | `Desktop` |

### Identity centre, files, expert database

| Part | State it keeps | What makes it hard | Modules |
|---|---|---|---|
| `mg-auth-one-identity` | sessions, factors, challenges, codes, unified tokens | proofs given before a change are used after it; one code asked for twice; tokens forgotten by a restart | `Identity`, `ExpertSignIn` |
| `mg-files-one` | a tree of rows with bytes on disk, office sessions | a crash between bytes and row, callbacks that come twice or late | `FilesAndOffice` |
| `mg-expert-database` | catalogue, templates, contents, an index built by workers, a page with drafts | concurrent edits of tree and contents, workers that stall, late answers in the page | `ResearchLibrary`, `ExpertSignIn` |
| Its release scripts | images, schema, patched pages | two operators, a command that fails at any line | `ExpertRelease` |

The remaining applications (`mg-resource-one`, `mg-service-one`,
`mg-app-manager-one`, `mg-office-one`, `mg-personal-one`, `mg-zentao-sso`,
`mg-security-one`) are browser pages without state of their own or documents.
`PROJECT.json` lists every component with its main sources and its status, and
every hazard with the line where it bites.

## Modules

```
RouteHealth  <-- CircuitBreaker --refines--> CircuitScope
                      ^-- MCCircuitBreaker, CircuitBreakerProofs
RoutePick    <-- RouteRotation
             <-- RelayExecutor <-- MCRelayExecutor, RelayExecutorProofs
RelayQuota   <-- MCRelayQuota (a violation), RelayQuotaProofs (with Sums)
ServiceRegistry --refines--> VersionLifecycle, one instance per version
             ^-- MCServiceRegistry, ServiceRegistryProofs
MCGateway      = RouteRotation, RelayStream, RouteTable, TokenAccess,
                 GroupDirectory                          ^-- GatewayProofs
MCPlatform     = PlatformStorage, ServiceGateway, ApplicationOnboarding,
                 SchemaInclusion, Identity, ProductionRelease (+ DesktopServices)
                                                         ^-- PlatformProofs
                 and FilesAndOffice
MCAdministration = RelayQuota, SupplierAccount, ModelAdmission (+ QuotaAdjustment),
                 RoutingPages (+ RouteMonitoring)        ^-- GatewayProofs
MCApplications = ExpertSignIn, ResearchLibrary, Desktop, ExpertRelease
                                                         ^-- ApplicationsProofs
```

Each module names the code of its definitions in a comment and in the `map` of
`PROJECT.json`. A module may hold several state machines that share nothing (a
component's halves); each has its own variables, `...Init`, `...Next` and
`...TypeOK`. One action is one stretch of code between two awaits, transactions
or commands; what a transaction does under a lock is one action.

### Requests of the gateway

`CircuitBreaker` is one scope, that is one (model identity, protocol): locks,
queries and fallback decisions of the code never leave it. It has the shared
rows `db`, the `lock`, each gateway's copy `routeHealth`, a queue of outcomes per
path (`withHealthWriteLock` handles them in order), and for the head of each
queue a `job` that says which await it has reached:

| Code | Actions |
|---|---|
| `recordSuccess` | `RecordSuccess`, `PersistSuccess`, `PersistSuccessFails` |
| `recordRouteFailure` | `AcquireLock`, `DecideFailure`, `PersistFailure`, `PersistFailureUnanswered`, `FinishFailure` |
| `recordRouteFailureConservatively` | `RecordConservatively`, `PersistConservative`, `PersistConservativeFails` |
| `refresh` | `RefreshRead`, `RefreshJudge`, `RefreshClear`, `RefreshInstall`, `RefreshFails` |
| `recover` | `Recover`, `RecoverPersist`, `RecoverFails` |
| process and clock | `Report`, `Crash`, `Tick` |

`CircuitScope` is the promise: paths leave the rotation one at a time, and only
while another stays in. `RoutePick` has `pick` as operators; `RouteRotation` turns
them undisturbed; `RelayExecutor` cuts each request's loop at its two awaits,
the upstream and `recordFailure`, and lets channels leave and return at any time.
A failed attempt may have sent the client its beginning, whatever the error: the
Messages transport reports `upstream_error` also after the stream had begun.
`RelayStream` is the answer of one upstream, a sequence of letters cut into
chunks anywhere, read on the side while it is passed on; watchdog, end, error
and departure settle it. `RouteTable` is the refresh that rebuilds the routes.

`RelayQuota` is one user over months: `Begin` and `Finish` read the month before
the lock is waited for, `Reserve` and `Settle` are the transactions under it,
`ReserveThrows`, `SettleFails` and `Crash` the failures. Money counts in units of
the sixth decimal to which the code rounds. `ModelAdmission` takes a call from the
list of models through its checks to its log row while tariffs change, and walks
the pages of the list; role and groups of a call are those of any reading a gateway
may still keep with the token. `TokenAccess` is the cache in front of a token.

### Administration of the gateway

`GroupDirectory` has the lists that tie groups, models and users together, edited
by handlers that save whole entities they read earlier. `QuotaAdjustment` is the
dialog and the transaction that change a user's packages, with the trail they
leave. `RoutingPages` holds the two pages for channels and models: lists, dialogs,
saves, tests, deletions, and the routes and the shadow column behind them; a value
carries for whom it was entered. `RouteMonitoring` has the diagnosis shown on both
pages against the router, and the alert state machine. `SupplierAccount` is an
account synchronised under a named lock, and the reading of one metered in parts.
The specifications that tie these parts together, `AdministrationSpec`, `CallerSpec`
and `RoutingSpec`, stand with their promises at the end of `SupplierAccount`,
`ModelAdmission` and `RoutingPages`: the run of `MCAdministration` checks them and
`GatewayProofs` proves them.

### Platform and desktop

`ServiceRegistry`: all environments over one database. A change takes the global
advisory lock and rereads the state inside its transaction, so it is one action.
`form` is what an operator's page shows, possibly long ago. `VersionLifecycle` is
the life of one version over all environments. `PlatformStorage`: the catalogue is
the number of the commit that wrote it; files of a user are written one by one
and may be cut. `ServiceGateway`: a call is resolved, checked, sent and observed
while operators publish and deployers rewrite. `ApplicationOnboarding`: the three
steps of a registration, each of which may lose its answer. `SchemaInclusion` is
the recursive comparison, judged by the values each schema accepts; its bounds are
the schemas it enumerates. `DesktopServices`: the registry of the desktop in front of its
tables. `Desktop`: session and tabs, preferences, windows with their dialogs.

### Identity and applications

`Identity` has the account with its sessions and factors, the machine token of the
kernel, and the unified token from its code to its revocation. `ExpertSignIn` has
the ration of guesses, which identity centre and expert database share, and the
company directory of the latter. `ResearchLibrary` has catalogue, index and page of the
expert database; the page awaits several answers at a time, and a session that ends or
a list of systems that comes takes its workspace away. `FilesAndOffice` has the tree of
files with its bytes and the office session, which hands one document to several windows,
each of which may load it after the others have left. `ProductionRelease` and `ExpertRelease` are the scripts, one
command at a time, each of which may fail, with what they leave behind.

## Runs

| Run | Question | Bounds |
|---|---|---|
| `circuit_races` | Do two gateways on two paths refine `CircuitScope`, do markers come with a full count, and do newer failures survive, under any interleaving? | four outcomes, one fault, threshold 1 |
| `circuit_refresh` | Do refreshes keep a shared route, and give an instance without one its route back? | two gateways, four outcomes, fair refresh |
| `circuit_late_failure` | (violation) Does a newer success survive an older failure? | two outcomes, one fault |
| `registry_lifecycle` | Is no draft or retired version in use, and does every version live the promised life, whatever is imported when? | two environments, two versions, one archive at a time, two lifecycle revisions, two days |
| `registry_pages` | Has a route one provider, and do stale or repeated pages change nothing? | two environments, two operators, two services that share a route |
| `registry_diverged` | (violation) Is no retired version in use if a local store retired a version itself? | two environments, one rebinding |
| `executor` | Does failover use every route that stayed, best first, stop after the first bytes, and do interleaved retries keep the shared weights bounded? | two requests, three tries, two channels of weights 2 and 1, and a reserve |
| `quota_rollover` | (violation) Does the ledger balance over a change of month? | two requests, two months |
| `gateway` | Five parts of the gateway: rotation, streams, route table, tokens, lists | every weight up to 5; streams of a text, of a usage event and of an error cut anywhere; two overlapping refreshes and three edits; two instances and four minutes; two administrators, two groups, three requests |
| `administration` | The monthly quota (is the ledger the sum of what its requests hold or cost within a month, and does it never rise above the quota?) and the eight parts of the administration | two requests, two months, prices 0 to 2, quotas 0 and 2, a user who becomes unlimited and limited again; two officers, nodes and tasks, two channels, models and names; counters as in `administration.cfg` |
| `platform` | The fourteen parts of `MCPlatform` | two of every actor that can race (instances, callers, operators, sessions, processes), two folders, files and office windows, counters of edits and faults as in `platform.cfg` |
| `applications` | The nine parts of `MCApplications` | two editors, workers, tabs, members, operators, indicators; two answers of the page under way; locks and versions as in `applications.cfg` |

The last four are umbrellas. Their module declares a variable `subject`, chosen
once, that names the part which runs; the others keep their first state. This
checks each part alone, from every one of its initial states, in one run. Where
the cfg says `VIEW Focus`, states are told apart by the subject and the variables
of its part, which is sound because no other variable changes and the initial
values of the others are fixed. A promise of an umbrella holds the properties of
several parts together: invariants by case on the subject, action and liveness
properties as they are, since an idle part only stutters.

The promises and their parts:

| Promise | Says |
|---|---|
| `ImplementsScope`, `NeverAllOpen`, `OpenMeansThreshold` | the shared rows always leave a path in rotation, and open one only on a full run of failures |
| `NewerFailureSurvives` | a count goes to zero only by a success as new as every stored failure, or by an administrator |
| `RouteReturns` | an instance that believes every route open gets one back from its next refresh |
| `ActiveUsable`, `ImplementsLifecycle`, `RoutesDisjoint`, `StalePagesRefused` | versions in use are published; each lives one life over all environments; a route has one provider; a page changes only what it shows |
| `PicksAreFair`, `NeverGivesUpEarly`, `NothingAfterHeaders` | the best level first with bounded weights; every route that stayed is tried; no second upstream after the first bytes |
| `BalancedWithinMonths`, `NeverRaisedAboveQuota` | the ledger is the sum of its requests while each keeps to its month and its kind of user; it never rises above the quota |
| `SharesAreExact` | `TurnIsExact`, `NeverOneAhead`, `NeverLeftBehind` |
| `StreamsHold` | `BytesPassThrough`, `SuccessIsComplete`, `UsageIsRead`, `SettledOnce`, `StreamsEnd` |
| `EditsArrive` | once edits and faults end, the routes become those of the rows |
| `AccessIsWithdrawn` | `RevocationBites` (the cache serves a withdrawn token its time and no longer), `CentreDecides` |
| `ListsAsAsked` | `GroupsAsAsked`, `EmptyWhenRemoved` |
| `StorageHolds` | `SnapshotsHold`, `CustomIsThere`: what is served was confirmed, never goes back, is written again; the wallpaper named is there |
| `ProofsAreSound` | a schema found compatible accepts every value of the old one |
| `CallsAreGoverned`, `OnboardingKeepsFaith` | governed paths stay governed, every call is observed; onboarding resumes anywhere and undoes no administrator |
| `AccountsHold` | `FactorsHold` (no access on a proof from before a change), `TokensEndInTime`, `RestartIsMadeGood` |
| `DeploymentsHold` | `NothingForgotten`, `ReleasesHold`, `ServicesHold`, `AcceptedIsClean`, `CliEndsWithStage`, `StreamsAreRead` |
| `RoutingHolds` | `DiagnosisIsRouting`, `WorstPathShown`, `RoutedStay`, `ValuesStayHome`, `RoutesAreSound`, `ShadowIsRoutes`, `PricesStayHome` |
| `AdmissionHolds` | `ListedIsAdmitted`, `WalkIsComplete`, `LogTellsStatus`, `ChargedAsQuoted`, `TrailAccounts` |
| `AdministrationHolds` | `OnlyWhatWasTyped`, `KeysAreKept`, `WorksMeansAll`, `SyncHolds`, `ReadingHolds`, `AlertsHold` |
| `TriesAreRationed`, `DirectoryHolds` | guesses are rationed; a member has one account and signs in once per scan |
| `CatalogHolds`, `IndexHolds`, `NothingOverwritten` | tree and contents fit under concurrent edits; an index that answers is whole and current; a draft ends knowingly and is never put under another indicator |
| `ContentHolds` | files, bytes and quota agree; what an office confirmed is in the file |
| `DesktopHolds` | `TabsHold`, `WindowsHold`, `OwnPreferencesOnly`, `StoredWhenSettled`, `ChoiceStays` |
| `ReleaseStands` | no release that accounts have outgrown, its schema and the assets of its pages there, no edit undone unseen |

Why the bounds are enough to be of interest: two processes suffice for every race
the code guards against, since each guard compares one process with one shared
row; two paths are the smallest scope with a fallback, so the last route is always
at stake; two months and two requests reach every combination of the months at
which one request starts and ends while another holds the ledger; a second
operator or tab is what a stale page needs. Edits and faults are counted so that
each property sees at least one edit inside each window it is about, and one fault
more than a single retry makes good. Every promise is also run against a faulty
variant of the code it is about (`mutants` in `PROJECT.json`; the variants stand in
the modules as definitions commented "Faulty variant"), and TLC finds it violated there; the named
parts of a promise were each tried against a variant of their own while it was built.

Bounds that shape behaviour, beside the counters: the page has two answers under way at
most and one save at a time; once a save's page was taken from under it (`Orphaned`), the page
only waits for that save or goes on navigating and editing; the templates are saved while
nothing else is asked for.

Deadlock is checked in `executor`. The other runs end when every bounded step is
spent, so they do not check it. Symmetry is used for interchangeable model values (in
`applications` the editors of the catalogue), not where liveness is checked, nor for channels that are numbered.

## Fairness

- `CircuitBreaker`, `RouteTable`: the refresh timer keeps firing (`setInterval`)
  and the queries of a round are answered; rounds do not fail for ever
  (`<>[][~RefreshFails]`). Failures are otherwise unrestricted.
- `RelayStream`: the watchdog fires (a Node timer) once the upstream is silent.
- `TokenAccess`: the directory is read again each minute and the copy applied.

Nothing else is assumed to happen: no request need end, no upstream answer, no
administrator act, no script go on.

## Findings

Three runs show where the code departs from what its comments, tests or documents
say; each is quoted in `PROJECT.json`.

1. `circuit_late_failure`: a failure that cannot take the lock and is older than a
   success this instance already knows is upserted with the time stamps of the
   kept copy, and counts after the newer success.
2. `quota_rollover`: `settle` computes the month again. A request over midnight of
   the last day leaves its whole estimate in the old month.
3. `registry_diverged`: an import compares a lifecycle only with an existing row;
   a version from before lifecycles has none, so a local store that retired it is
   imported while another environment uses it.

## Proofs

Eight modules hold theorems; tlapm checks every leaf with Z3, Zenon and, for
temporal steps, LS4. They hold for every value of the constants that satisfies
the assumptions named in the modules. TLC checked every inductive invariant on the
instances above before it was proved.

**Circuits** (`CircuitBreakerProofs`). `TypeCorrect`, `SomePathStaysIn`,
`MarkersAreEarned`, `RowsImplementScope`, `NewerFailuresSurvive`. `NeverAllOpen`
is not inductive: whether a write opens the last path depends on what its job read
several steps earlier. `IInv` adds that a job between its read and its write holds
the lock (`LockHeld`), that its decision to open still has another closed path
(`DecisionSafe`), that a success closes (`SuccessCloses`), and that a decision
carries the full count (`DecisionCounts`). Every other step leaves the markers
alone or closes paths (`StepEffect`), which is why one lock holder at a time is
enough. Refinement follows. A newer failure survives because no row, copy, snapshot or event
on its way knows a failure newer than its own last outcome (`OrderInv`), so a success
that wins against a row is as new as its last failure.

**Registry** (`ServiceRegistryProofs`). `RegistryTypeCorrect`;
`ActiveAlwaysUsable`, `RoutesStayDisjoint`, `VersionsImplementLifecycle` and
`StalePagesChangeNothing` under `LocalHistoric`: local JSON stores that are imported
have recorded no lifecycle, bind only versions they contain and bind no two that
share a route. `registry_diverged` shows that the first part is needed; the second
is what `requireState` checks of every catalogue it reads, the third what
`activate` keeps. `Consistent` says what tables, pages and an exported catalogue
owe to each other, which is what an import at any later time relies on.
`PagesInv` adds that a page never shows a revision from the future, and shows what
is there as long as its revision is the one of the table; revisions only grow
(`RowsGrow`).

**Quota** (`RelayQuotaProofs`, `Sums`). `QuotaTypeCorrect`, `QuotaNeverOverdrawn`,
and `QuotaBalanced` (`BalancedWithinMonths`): the ledger of a month is the sum of
what its requests hold or cost, while no request spans two months, and none was reserved of an
unlimited user and settled after an edit made him limited: it took nothing when it
was reserved, and its refund takes from what others paid. `exempt` marks such requests; no
hypothesis restricts the edits. `Sums` proves what `MapThenSumSet` does when one
summand changes, from a least counterexample over the naturals, since induction
theorems with an operator parameter are out of reach.

**Executor** (`RelayExecutorProofs`). `ExecutorTypes`, `SentOnce`, `TriesAreUsed`,
`PicksFair`. The bound of the weights is proved for any number of channels and
requests: a channel's current weight stays within the sum of the weights above,
and below by minus that sum for each other channel that retries may exclude. A
tighter bound of one turn below is false (weights 8, 1, 1 can owe one and a half).

**Gateway** (`GatewayProofs`). `RotationExact` by the invariant that currents and
counts determine each other and sum to zero; that a channel is never one request
behind is false from five channels on (weights 30, 37, 3, 1, 1), so the property
says one per other channel. `AccessEnds` (`RevocationBites`). `ListsFollow` by
`ListsInv`.

`AdministrationStands`. A supplier's account (`SyncInv`): at most one task holds the
named lock unless a connection died with it, and a task that read the row after the
last save still has the row (`FreshIsRow`); without these two a save could bring back
what an administrator changed. Its readings (`ReadingInv`): a half reading is of an
API key and not the first, and the time asked last is at most the attempt in the row,
at most the clock. Alerts (`AlertInv`): the minutes of history, as a finite set
none of which is after the last window counted, are as many as the row's counter
says, so a window evaluated twice cannot count twice.

`CallersAreTold`. `AdmissionInv` ties a call to what it has read: a list read since the
last edit of a model shows what is stored (`ListsAreCurrent`), and a refusal has a reason in
the stored models and in the reading of the user the call came with (`RefusalIsTrue`),
and at each stage what is held, spent and logged is
what was quoted (`Booked`). A walk has seen, of what was visible all the time, all up
to its cursor (`SeenSoFar`). `AdjustmentInv`: one officer at a time is past the lock,
and what it read as the state before is still what is stored (`LockedIsStored`), which
is why the trail of a month is a chain (`TrailAccounts`).

`RoutesAreTold`. `DiagnosisInv`: whatever changed last, the pool is what is described
as ready, and a channel's summary is the worst of its paths, save for channels whose
last outcome fitted no binding. `ChannelInv` and `ModelInv` say of every place a value
can lie in (row, list shown, list under way, dialog, request) for whom it was entered;
a new row's values name no one until the row has an id. A route
keeps its channel because the deletion looks for references again. `ModelInv` adds
that a request between transaction and write carries the very entity it will store, and that names, bindings and the shadow column agree in
the rows but where two saves crossed (`mixed`). That no two bindings of a model
go to one channel in the rows rests on the form giving every row a channel of its own
(`OnceListed`), through a sequence that holds each member of a set once (`SetInOrder`).

**Platform** (`PlatformProofs`). `SnapshotsAreKept` (`SnapshotInv`: file at most
what was confirmed, confirmed at most what was committed), `WallpaperIsThere`
(`UserStateInv`), `OnboardingStands` (`OnboardingInv`), `CallsStayGoverned`
(`GatewayInv`), `FactorsStand` and `AccountsStand` (`SecurityInv`, `MachineInv`,
`TokenFlowInv`), `DeploymentsStand` (`ServicesInv`, `ReleaseInv`, `AcceptanceInv`,
`SwitchInv`). Memory of the desktop server only lags because a transaction keeps
what it found and leaves what the database may take over (`Succeeds`): no version
another environment has active loses its status, and another active version comes
with a higher revision. Answers survive a rollback because from the stop of the
gateway until the marker nothing is approved that the copy a deployer would restore
has not (`CopyIsLast`): what runs then is on trial, the gateway brought back included. A stream that passed was completed because what its
decoder has open is what was heard since the last blank line (`DecodedFrom`).
`ReleaseAssumption` says that no deployer is named like a state of the lock or of the
gateway; `TimesAssumption` is the order of the time limits of the scripts.

**Applications** (`ApplicationsProofs`). `MembersSignInOnce` (`DirectoryInv`),
`GuessesAreRationed`, `ExpertReleaseStands` (`ReleaseInv`), `CatalogStands`
(`CatalogInv`), `IndexStands` (`IndexInv`), `NothingGoesUnseen` (`DeskInv`),
`DesktopStands` (`SessionInv`, `PrefsInv`, `ShellInv`). `ShellInv` is the longest:
the numbers of questions, of those who wait for them and of their replies tie a
reply to the question it answers, and a reply that would close a window was given
by a page that had given its content up; dialogs that turn unsaved after their turn are
carried along as `late`, and nothing else unsaved goes with a window that was asked.
`DeskInv` says of the page what each of its answers relies on: the latest workspace
awaited is the route's (`AskedFits`), a save that still has its page is of the draft shown
(`SavingFits`), and a changed draft is of what is shown, by somebody signed in, and known
to the page (`DraftFits`). `CatalogInv` says that a copy of a version under way
that was read under the settings of now is as deep as they allow and of their types
(`CopiesAsRead`).

**Model-checked only.** `RouteReturns`, `EditsArrive`, `AccessIsWithdrawn` (its
`CentreDecides`) and the `StreamsEnd` of `StreamsHold` are liveness.
`StreamsHold`, `ContentHolds` and `ProofsAreSound` rest on recursive operators
over sequences, trees and schemas. The umbrellas' `TypeOK` hold the `...TypeOK` of
their parts, those with recursive operators among them; those of the other parts
are in the proved invariants, or follow from them. The violated properties are false.

## Observations

What the code does besides its rules, met while modelling. The properties name these
cases in their comments and excuse exactly them; everything else must hold.

- Quota: an administrator's request takes nothing; if he is made a limited user before it
  is settled, the settlement refunds what nobody paid (`user.module.ts:224`).
- Admission: a gateway goes on with role and groups read with the token for up to a
  minute (`token-auth.middleware.ts:39`), the portal's list reads the row; within that
  minute a listed model may be refused. `ListedIsAdmitted` compares list and call of the
  same reading.
- Release: between the start of the old gateway by a rollback and the marker, up to a
  minute later, it serves everybody; if the connection breaks then, the recovery stops it
  and restores the database over its answers (`production_deploy_rollback.py:63-78`,
  `production_ssh.py:349-355`). Only what was answered outside a trial is `approved`.
- Catalogue: the copy of a version is read before the lock and compared with nothing under
  it (`catalog.service.ts:439-474`); if the settings were saved in between, nodes too deep
  and values of the old type come back (`CopyFits` excuses such a copy, no other).
- Office: a window that loads the document after the last other window closed the session
  edits a closed session; its last callback is taken for a repeated one and confirmed
  without being stored (`office.ts:64, 89-94, 103`). `ConfirmedIsInFile` excuses such windows
  (`again`).
- Desktop: a closing asks each window once. A dialog that turns unsaved after it was asked or
  passed over, or opens meanwhile, goes with its window (`App.vue:277-287`); an application
  withdrawn or moved (`:387-388`) and a window forced to close (`:289`) take theirs unasked.
- Page of the expert database: a 401 to any request ends the session and drops the draft
  (`client.ts:85`, `App.vue:647-653`); saved templates drop the workspace only after the list
  of systems came, whatever was begun meanwhile (`App.vue:66, 154`); the answer to a save whose
  page was taken away ends the next draft of the same indicator; a refresh
  asked for one indicator is shown on the next (`App.vue:428`). `DraftsEndKnowingly`
  excuses these and a section that others take out of the templates.
- Lists of the gateway, supplier accounts, shadow column: of two overlapping edits the later
  save writes back what the earlier one changed; the properties excuse what overlapped.

## What is not modelled

- Request rewriting, formats, token counts: data the properties do not tell apart.
- Clocks that step back or differ between processes: the code compares time stamps
  of different processes and assumes one clock.
- The databases' own failures beyond lost connections and unanswered statements:
  their transactions and locks are taken to work.
- Rows that agree in status, revision and date count as the same row of the
  registry (digests, reasons and actors are dropped); the operator's confirmation
  of breaking changes is always given; the JSON store's default publications at
  start are left out.
- The rotation over the keys of a channel, request counters and the health summary
  per channel in the circuits, and `recover` in the pages.
- Logout of the desktop, search and listings, statistics, the department tree, the
  OIDC provider and the exchange of its codes by the kernel, template imports and orderings.
- Everything with status `not_modelled` in `PROJECT.json`, for the reason given
  there.

## Plan

1. Done: requests of the gateway (circuits, rotation, executor, quota), registry,
   with all their safety properties proved.
2. Done: the umbrellas `MCGateway`, `MCAdministration`, `MCPlatform`, `MCApplications`, with their
   promises checked; each promise that is neither liveness nor over recursive
   operators is proved.
3. Next: the composition of executor and circuits for one gateway: a failure one
   request reports changes what the next attempt may pick.
4. Then the decoders of `RelayStream` and the tree of `FilesAndOffice` as recursive
   functions, so that what they keep from step to step can be proved as well.
5. Left aside: statistics, the OIDC provider, the department tree, presentation.
