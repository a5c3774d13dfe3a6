-------------------------- MODULE ApplicationOnboarding --------------------------
(***************************************************************************)
(* One application in the catalogue of the desktop, from its registration  *)
(* to its login client.  ApplicationOnboarding.register writes the closed  *)
(* application with its task, asks the identity system for a client, and   *)
(* opens the application; each of the three may fail or lose its answer    *)
(* and is then retried, also by two clicks at once, while administrators   *)
(* edit the same row from pages opened before.                             *)
(***************************************************************************)
EXTENDS Naturals

CONSTANTS
    Form,        \* registrations as filled in: request id, author, callback
    Try,         \* calls of register and retry
    Page,        \* administration pages of the application
    MaxRevision  \* bound on the edits explored

\* A registration carries its request id.
ASSUME OnboardingAssumption ==
    /\ MaxRevision \in Nat \ {0}
    /\ \A f \in Form : DOMAIN f = {"request", "actor", "uris"} /\ f.request # "none"

NoForm == [request |-> "none", actor |-> "none", uris |-> "none"]
NoApp == [revision |-> 0, enabled |-> FALSE, ready |-> FALSE]
NoClient == [request |-> "none", uris |-> "none", edited |-> FALSE]

VARIABLES
    app,     \* the row of desktop_applications, revision 0 before it exists
    task,    \* the row of desktop_application_onboarding
    client,  \* the identity system's oidcClient
    try,     \* calls under way
    page     \* what each page shows

OnboardingVars == <<app, task, client, try, page>>

Author == {f.actor : f \in Form}
Application == [revision : 0..MaxRevision, enabled : BOOLEAN, ready : BOOLEAN]

OnboardingTypeOK ==
    /\ app \in Application
    /\ task \in [form : Form \cup {NoForm}, state : {"none", "pending", "active", "failed"}]
    /\ client \in [request : {f.request : f \in Form} \cup {"none"}, edited : BOOLEAN,
                   uris : {f.uris : f \in Form} \cup {"none", "other"}]
    /\ try \in [Try -> {"idle", "finish", "create", "open", "fail"}]
    /\ page \in [Page -> Application]

OnboardingInit ==
    /\ app = NoApp
    /\ task = [form |-> NoForm, state |-> "none"]
    /\ client = NoClient
    /\ try = [t \in Try |-> "idle"]
    /\ page = [p \in Page |-> NoApp]

-----------------------------------------------------------------------------
(* A registration.                                                         *)

Step(t, from, to) == try[t] = from /\ try' = [try EXCEPT ![t] = to]

\* Faulty variant: a changed form replaces the one the task was opened with.
PrepareAgain(t, form) ==
    /\ Step(t, "idle", "finish")
    /\ task.state # "active"
    /\ app' = IF app = NoApp THEN [NoApp EXCEPT !.revision = 1] ELSE app
    /\ task' = [form |-> form, state |-> "pending"]
    /\ UNCHANGED <<client, page>>

\* One transaction: the row, closed, and its task; or, when the same author
\* sends the same form again, just on to finish.  Anything else is a 409.
Prepare(t, form) ==
    /\ Step(t, "idle", "finish")
    /\ \/ /\ app = NoApp
          /\ app' = [NoApp EXCEPT !.revision = 1]
          /\ task' = [form |-> form, state |-> "pending"]
       \/ task.form = form /\ UNCHANGED <<app, task>>
    /\ UNCHANGED <<client, page>>

\* Retry, by the author of the task only.
Retry(t) ==
    /\ Step(t, "idle", "finish")
    /\ task.state # "none"
    /\ UNCHANGED <<app, task, client, page>>

\* finish reads the task; what is active is done.
ReadTask(t) ==
    /\ Step(t, "finish", IF task.state = "active" THEN "idle" ELSE "create")
    /\ UNCHANGED <<app, task, client, page>>

\* The identity system: created once per request, and the same client again for
\* the same request and callbacks.
SameClient == client.request = task.form.request /\ client.uris = task.form.uris

CreateClient(t, answered) ==
    /\ client = NoClient \/ SameClient
    /\ Step(t, "create", IF answered THEN "open" ELSE "fail")
    /\ client' = IF client = NoClient
                 THEN [request |-> task.form.request, uris |-> task.form.uris, edited |-> FALSE]
                 ELSE client
    /\ UNCHANGED <<app, task, page>>

\* Refused: other callbacks, no administrator any more, or no answer at all.
CreateRefused(t) ==
    /\ Step(t, "create", "fail")
    /\ UNCHANGED <<app, task, client, page>>

\* Faulty variant: the application is switched on whenever a call gets here.
OpenedAgain == [revision |-> app.revision + 1, enabled |-> TRUE, ready |-> TRUE]

\* Faulty variant: the revision stays.
OpenedUnseen ==
    IF app.ready THEN app ELSE [app EXCEPT !.enabled = TRUE, !.ready = TRUE]

\* UPDATE ... WHERE runtime_ready = false
Opened ==
    IF app.ready THEN app
    ELSE [revision |-> app.revision + 1, enabled |-> TRUE, ready |-> TRUE]

OpenApplication(t, answered) ==
    /\ app.ready \/ app.revision < MaxRevision
    /\ Step(t, "open", IF answered THEN "idle" ELSE "fail")
    /\ app' = Opened
    /\ task' = [task EXCEPT !.state = "active"]
    /\ UNCHANGED <<client, page>>

OpenFails(t) ==
    /\ Step(t, "open", "fail")
    /\ UNCHANGED <<app, task, client, page>>

\* Faulty variant: the task fails although another call has completed it.
FailedAnyway(t) ==
    /\ Step(t, "fail", "idle")
    /\ task' = [task EXCEPT !.state = "failed"]
    /\ UNCHANGED <<app, client, page>>

\* UPDATE ... WHERE state <> 'active'
MarkFailed(t) ==
    /\ Step(t, "fail", "idle")
    /\ task' = IF task.state = "active" THEN task ELSE [task EXCEPT !.state = "failed"]
    /\ UNCHANGED <<app, client, page>>

\* The process stops, or the last update fails as well.
Forget(t) ==
    /\ try[t] # "idle"
    /\ try' = [try EXCEPT ![t] = "idle"]
    /\ UNCHANGED <<app, task, client, page>>

-----------------------------------------------------------------------------
(* Administrators.                                                         *)

\* The plain registration of earlier releases: enabled, without an entry.
RegisterPlain ==
    /\ app = NoApp
    /\ app' = [revision |-> 1, enabled |-> TRUE, ready |-> FALSE]
    /\ UNCHANGED <<task, client, try, page>>

OpenPage(p) ==
    /\ app # NoApp
    /\ page' = [page EXCEPT ![p] = app]
    /\ UNCHANGED <<app, task, client, try>>

\* Under the lock of the row: the revision the page shows is still the row's.
Edit(p, change) ==
    /\ page[p] # NoApp
    /\ page[p].revision = app.revision
    /\ app.revision < MaxRevision
    /\ app' = [change EXCEPT !.revision = app.revision + 1]
    /\ page' = [page EXCEPT ![p] = NoApp]
    /\ UNCHANGED <<task, client, try>>

SetEnabled(p, enabled) == Edit(p, [app EXCEPT !.enabled = enabled])
UpdateMetadata(p) == Edit(p, app)
ConfigureRuntime(p) == Edit(p, [app EXCEPT !.ready = TRUE])

\* The SSO page replaces the callbacks of the client.
UpdateCallbacks ==
    /\ client # NoClient
    /\ client' = [client EXCEPT !.uris = "other", !.edited = TRUE]
    /\ UNCHANGED <<app, task, try, page>>

OnboardingNext ==
    \/ \E t \in Try :
          \/ \E form \in Form : Prepare(t, form)
          \/ Retry(t)
          \/ ReadTask(t)
          \/ \E answered \in BOOLEAN : CreateClient(t, answered) \/ OpenApplication(t, answered)
          \/ CreateRefused(t)
          \/ OpenFails(t)
          \/ MarkFailed(t)
          \/ Forget(t)
    \/ RegisterPlain
    \/ \E p \in Page :
          \/ OpenPage(p)
          \/ \E enabled \in BOOLEAN : SetEnabled(p, enabled)
          \/ UpdateMetadata(p)
          \/ ConfigureRuntime(p)
    \/ UpdateCallbacks

OnboardingSpec == OnboardingInit /\ [][OnboardingNext]_OnboardingVars

-----------------------------------------------------------------------------
\* What was completed stays completed: a call that fails late, after another one
\* opened the application or after its own answer was lost, does not turn the
\* task back, and there is a login client behind it.
ActiveForGood ==
    [][task.state = "active" => task'.state = "active" /\ client' # NoClient]_OnboardingVars

\* An application an administrator switched off is not switched on again by a
\* registration that is still being retried: only by an administrator.
SwitchedOffStaysOff ==
    [][~app.enabled /\ app'.enabled /\ app.ready => page' # page]_OnboardingVars

\* An edit replaces the row its page shows, although registrations open the
\* application meanwhile.
NoLostEdit ==
    [][\A p \in Page :
        page[p] # NoApp /\ page'[p] = NoApp => page[p] = app]_OnboardingVars

\* A registration that did not complete can be taken up again with the form it
\* was sent with, unless somebody changed the callbacks of its client by hand.
CanBeRetried ==
    task.state \in {"pending", "failed"} /\ client # NoClient => SameClient \/ client.edited

\* An onboarding goes on from wherever an answer was lost, and never undoes what an
\* administrator has decided since.
OnboardingKeepsFaith ==
    []CanBeRetried /\ ActiveForGood /\ SwitchedOffStaysOff /\ NoLostEdit
=============================================================================
