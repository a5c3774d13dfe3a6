------------------------------ MODULE ExpertRelease ------------------------------
(* How a release of the expert database reaches its host: the deployment of a      *)
(* stage (mg-expert-database/scripts/remote-deploy-stage1.sh, which migrates),     *)
(* a package that is prepared now and activated later (mg-desktop-one/deploy/       *)
(* prepare-business-remote.py, activate-business-remote.py) and a patch of the     *)
(* pages alone (publish-ui-patch.py). One script runs at a time, as the operators   *)
(* work; each may end at any command. Releases and pages are numbered by age; page  *)
(* 0 is no page, API 0 a stopped one.                                              *)
EXTENDS Naturals

CONSTANT MaxEnvEdits    \* bound on the changes made to the environment by hand

VARIABLES
    env,        \* [edits, unified] of /etc/mg-expert-database/api.env
    link,       \* release that current points to
    api,        \* release whose code is running
    newest,     \* newest release whose code has run
    unit,       \* release whose service unit is installed
    schema,     \* release up to which the database is migrated
    page,       \* [index, assets] that is published
    package,    \* the prepared package: [state, link, env]
    tool        \* the script that runs: [name, step, edited]

expertVars == <<env, link, api, newest, unit, schema, page, package, tool>>

Base == 1       \* what runs at first
Packaged == 2   \* the release of the package
Staged == 3     \* the release of the stage
Patch == 4      \* the pages of the patch

NoTool == [name |-> "none", step |-> "none", edited |-> FALSE]
Page(n) == [index |-> n, assets |-> {n}]

ExpertInit ==
    /\ env = [edits |-> 0, unified |-> FALSE]
    /\ link = Base /\ api = Base /\ newest = Base /\ unit = Base /\ schema = Base
    /\ page = Page(Base)
    /\ package = [state |-> "none", link |-> Base, env |-> env]
    /\ tool = NoTool

Run(release) == api' = release /\ newest' = IF release > newest THEN release ELSE newest
Go(name, from, to) == tool.name = name /\ tool.step = from /\ tool' = [tool EXCEPT !.step = to]
Ends == tool' = NoTool

EditEnv ==
    /\ env.edits < MaxEnvEdits
    /\ env' = [env EXCEPT !.edits = @ + 1]
    /\ tool' = [tool EXCEPT !.edited = tool.name # "none"]
    /\ UNCHANGED <<link, api, newest, unit, schema, page, package>>

\* The host boots, or the service manager starts the service again.
HostRestarts ==
    /\ Run(link)
    /\ UNCHANGED <<env, link, unit, schema, page, package, tool>>

(* prepare-business-remote.py: copies what is there, and refuses a package that      *)
(* brings migrations.                                                               *)
Prepare ==
    /\ tool = NoTool /\ package.state = "none" /\ link < Packaged
    /\ package' = [state |-> "ready", link |-> link, env |-> env]
    /\ UNCHANGED <<env, link, api, newest, unit, schema, page, tool>>

\* Faulty variant: only the release is compared with the time of preparation.
SameReleaseOnly == link = package.link
\* The release and the environment are still those the package was prepared for.
AsPrepared == link = package.link /\ env = package.env

Activate ==
    /\ tool = NoTool /\ package.state = "ready" /\ AsPrepared /\ page.index # 0
    /\ tool' = [name |-> "activate", step |-> "copied", edited |-> FALSE]
    /\ package' = [package EXCEPT !.state = "started"]
    /\ UNCHANGED <<env, link, api, newest, unit, schema, page>>

ActivateStops ==
    /\ Go("activate", "copied", "stopped")
    /\ api' = 0
    /\ UNCHANGED <<env, link, newest, unit, schema, page, package>>

ActivateEnv ==
    /\ Go("activate", "stopped", "configured")
    /\ env' = [package.env EXCEPT !.unified = TRUE]
    /\ UNCHANGED <<link, api, newest, unit, schema, page, package>>

ActivateLink ==
    /\ Go("activate", "configured", "linked")
    /\ link' = Packaged
    /\ UNCHANGED <<env, api, newest, unit, schema, page, package>>

ActivateStarts ==
    /\ Go("activate", "linked", "healthy")
    /\ Run(Packaged)
    /\ UNCHANGED <<env, link, unit, schema, page, package>>

\* The old pages are moved away, the new ones to their place.
ActivateMovesOld ==
    /\ Go("activate", "healthy", "moved")
    /\ page' = [index |-> 0, assets |-> {}]
    /\ UNCHANGED <<env, link, api, newest, unit, schema, package>>

ActivateMovesNew ==
    /\ tool.name = "activate" /\ tool.step = "moved" /\ Ends
    /\ page' = Page(Packaged)
    /\ UNCHANGED <<env, link, api, newest, unit, schema, package>>

\* Whatever fails, the script ends there: nothing is put back.
ActivateFails ==
    /\ tool.name = "activate" /\ Ends
    /\ UNCHANGED <<env, link, api, newest, unit, schema, page, package>>

(* remote-deploy-stage1.sh *)
Stage ==
    /\ tool = NoTool /\ link < Staged /\ page.index # 0
    /\ tool' = [name |-> "stage", step |-> "saved", edited |-> FALSE]
    /\ UNCHANGED <<env, link, api, newest, unit, schema, page, package>>

StageMigrates ==
    /\ Go("stage", "saved", "migrated")
    /\ schema' = Staged
    /\ UNCHANGED <<env, link, api, newest, unit, page, package>>

\* Faulty variant: the unit is installed before the migrations ran, and they are skipped.
InstallsUnmigrated ==
    /\ Go("stage", "saved", "installed")
    /\ unit' = Staged
    /\ UNCHANGED <<env, link, api, newest, schema, page, package>>
StageInstalls ==
    /\ Go("stage", "migrated", "installed")
    /\ unit' = Staged
    /\ UNCHANGED <<env, link, api, newest, schema, page, package>>

StageSwitches ==
    /\ Go("stage", "installed", "switched")
    /\ link' = Staged
    /\ UNCHANGED <<env, api, newest, unit, schema, page, package>>

StageRestarts ==
    /\ Go("stage", "switched", "healthy")
    /\ Run(Staged)
    /\ UNCHANGED <<env, link, unit, schema, page, package>>

StageMovesOld ==
    /\ Go("stage", "healthy", "moved")
    /\ page' = [index |-> 0, assets |-> {}]
    /\ UNCHANGED <<env, link, api, newest, unit, schema, package>>

StageMovesNew ==
    /\ tool.name = "stage" /\ tool.step = "moved" /\ Ends
    /\ page' = Page(Staged)
    /\ UNCHANGED <<env, link, api, newest, unit, schema, package>>

Switched == tool.step \in {"switched", "healthy", "moved"}

\* Faulty variant: the release is put back, whatever has run.
PutBack ==
    /\ link' = Base /\ unit' = Base /\ Run(Base)
    /\ UNCHANGED <<page, schema>>

\* The trap on errors. After the switch the new release may have been used: the API is
\* stopped and stays that release. Before it the unit is put back, if it was installed,
\* and the release that current points to started again.
Rollback ==
    /\ IF Switched THEN api' = 0 /\ UNCHANGED <<newest, unit>>
       ELSE IF tool.step = "installed" THEN unit' = Base /\ Run(link)
       ELSE UNCHANGED <<api, newest, unit>>
    /\ UNCHANGED <<link, page, schema>>

StageFails ==
    /\ tool.name = "stage" /\ Ends
    /\ Rollback
    /\ UNCHANGED <<env, package>>

(* publish-ui-patch.py, the pages of the expert database *)
PatchBegins ==
    /\ tool = NoTool /\ page.index \notin {0, Patch}
    /\ tool' = [name |-> "patch", step |-> "assets", edited |-> FALSE]
    /\ UNCHANGED <<env, link, api, newest, unit, schema, page, package>>

\* Faulty variant: the first page is replaced before what it needs is there.
IndexFirst(step) == IF step = "assets" THEN [page EXCEPT !.index = Patch]
                    ELSE [page EXCEPT !.assets = @ \cup {Patch}]
\* Named assets are added, then the first page is replaced; the old ones stay.
Patched(step) == IF step = "assets" THEN [page EXCEPT !.assets = @ \cup {Patch}]
                 ELSE [page EXCEPT !.index = Patch]

PatchAssets ==
    /\ Go("patch", "assets", "index")
    /\ page' = Patched("assets")
    /\ UNCHANGED <<env, link, api, newest, unit, schema, package>>

PatchIndex ==
    /\ tool.name = "patch" /\ tool.step = "index" /\ Ends
    /\ page' = Patched("index")
    /\ UNCHANGED <<env, link, api, newest, unit, schema, package>>

PatchFails ==
    /\ tool.name = "patch" /\ Ends
    /\ UNCHANGED <<env, link, api, newest, unit, schema, page, package>>

ExpertNext ==
    \/ EditEnv \/ HostRestarts \/ Prepare
    \/ Activate \/ ActivateStops \/ ActivateEnv \/ ActivateLink \/ ActivateStarts
    \/ ActivateMovesOld \/ ActivateMovesNew \/ ActivateFails
    \/ Stage \/ StageMigrates \/ StageInstalls \/ StageSwitches \/ StageRestarts
    \/ StageMovesOld \/ StageMovesNew \/ StageFails
    \/ PatchBegins \/ PatchAssets \/ PatchIndex \/ PatchFails

ExpertSpec == ExpertInit /\ [][ExpertNext]_expertVars

Releases == {Base, Packaged, Staged}
ExpertTypeOK ==
    /\ env.edits \in 0..MaxEnvEdits /\ env.unified \in BOOLEAN
    /\ link \in Releases /\ api \in Releases \cup {0} /\ newest \in Releases
    /\ unit \in Releases /\ schema \in Releases
    /\ page.index \in 0..Patch /\ page.assets \subseteq 1..Patch
    /\ package.state \in {"none", "ready", "started"} /\ package.link \in Releases
    /\ tool.name \in {"none", "activate", "stage", "patch"} /\ tool.edited \in BOOLEAN

\* The API never runs code older than code that has run before it: a release that has
\* taken sign-ins in may have stored factors an older one does not ask for, so neither
\* a failed deployment nor a package prepared earlier brings the older one back.
NoGoingBack == api \in {0, newest}

\* The code that runs finds every migration it was written for.
SchemaIsThere == api = Staged => schema = Staged

\* A page that is published has the assets it names, while a patch is half published too.
PageHasItsAssets == page.index = 0 \/ page.index \in page.assets

\* A change made to the environment after a package was prepared is not undone by its
\* activation, unless it was made while the activation ran.
EditsKept == [][env'.edits < env.edits => tool.edited]_expertVars

\* Deployments, patches and activations of several operators leave a release that runs
\* on its schema with its pages, and never one that accounts have outgrown.
ReleaseStands == []NoGoingBack /\ []SchemaIsThere /\ []PageHasItsAssets /\ EditsKept
=============================================================================
