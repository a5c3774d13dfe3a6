--------------------------- MODULE ResearchLibrary ---------------------------
(* The expert database: the catalogue under concurrent editors, its semantic *)
(* index, and the page researchers write on.                                *)
EXTENDS Naturals, Sequences, FiniteSets

-----------------------------------------------------------------------------
(* The catalogue of an indicator system of mg-expert-database and the research *)
(* content of one indicator: catalog.service.ts and templates.service.ts. Two  *)
(* top-level indicators p and q, one second-level indicator c that is created, *)
(* moved, written and deleted, one copy of the version. A request first reads  *)
(* outside a transaction what it checks and then commits, mostly under the row *)
(* lock of the system.                                                         *)
CONSTANTS
    Editor,         \* concurrent requests
    MaxTemplate,    \* bound on saves of the template settings
    MaxEdits        \* bound on saves of the module

VARIABLES
    settings,   \* [maxLevel, revision] of the system row
    template,   \* [revision, type] of the second level: one type for both fields
    indicator,  \* Node -> "unborn", "live" or "gone"
    parent,     \* parent of c
    content,    \* research record of c
    history,    \* research revisions of c, oldest first
    copied,     \* the copied version: types of its values and "current", or "aged" when the
                \* settings were saved while it was being made; {} before
    catLock,    \* holder of the row lock across two steps of a transaction
    work        \* Editor -> the request in hand

catalogVars == <<settings, template, indicator, parent, content, history, copied, catLock, work>>

Node == {"p", "q", "c"}
Field == {"f1", "f2"}
Type == {"text", "number"}
Empty == [f \in Field |-> "empty"]
NoRecord == [record |-> FALSE, summary |-> FALSE, values |-> Empty, evidence |-> "empty", revision |-> 0]
Rest == [op |-> "rest"]
Free == catLock = "free"

InUse == {content.values[f] : f \in Field} \cup {content.evidence}
         \cup {history[i].values[f] : i \in DOMAIN history, f \in Field} \cup copied

Deeper(level) == level < 2 /\ (indicator["c"] = "live" \/ copied # {})

CatalogInit ==
    /\ settings = [maxLevel |-> 2, revision |-> 1]
    /\ template = [revision |-> 1, type |-> "text"]
    /\ indicator = [n \in Node |-> IF n = "c" THEN "unborn" ELSE "live"]
    /\ parent = "p" /\ content = NoRecord /\ history = <<>> /\ copied = {}
    /\ catLock = "free" /\ work = [e \in Editor |-> Rest]

Begin(e, request) == work[e] = Rest /\ work' = [work EXCEPT ![e] = request]
Finish(e) == work' = [work EXCEPT ![e] = Rest]
Drop(e) == Finish(e) /\ UNCHANGED <<settings, template, indicator, parent, content, history, copied, catLock>>
Looked == UNCHANGED <<settings, template, indicator, parent, history, copied, catLock>>

\* createNode, updateNode: the level and the parent are checked before the transaction.
AskNode(e) ==
    \E n \in {"p", "q"} :
        /\ indicator[n] = "live"
        /\ IF indicator["c"] = "unborn" THEN settings.maxLevel >= 2 ELSE indicator["c"] = "live" /\ parent # n
        /\ Begin(e, [op |-> IF indicator["c"] = "unborn" THEN "create" ELSE "move", under |-> n])
        /\ Looked /\ UNCHANGED content

\* A foreign key refuses a parent that has gone meanwhile, a unique key a second c.
\* Faulty variant: the depth is not looked at again under the lock.
CanCreateAsAsked(e) == indicator[work[e].under] = "live" /\ indicator["c"] = "unborn"
CanCreate(e) == settings.maxLevel >= 2 /\ indicator[work[e].under] = "live" /\ indicator["c"] = "unborn"

CreateNode(e) ==
    /\ work[e].op = "create" /\ Free
    /\ IF CanCreate(e)
       THEN /\ indicator' = [indicator EXCEPT !["c"] = "live"] /\ parent' = work[e].under /\ Finish(e)
            /\ UNCHANGED <<settings, template, content, history, copied, catLock>>
       ELSE Drop(e)

\* A move takes no lock, only the foreign key speaks.
MoveNode(e) ==
    /\ work[e].op = "move"
    /\ IF indicator["c"] = "live" /\ indicator[work[e].under] = "live"
       THEN /\ parent' = work[e].under /\ Finish(e)
            /\ UNCHANGED <<settings, template, indicator, content, history, copied, catLock>>
       ELSE Drop(e)

\* The page of the template settings is open with the revision it read.
OpenSettings(e) == Begin(e, [op |-> "settings", expected |-> settings.revision]) /\ Looked /\ UNCHANGED content

MayRetype(type) == type # template.type => InUse \cap Type = {}

SaveSettings(e, level, type) ==
    /\ work[e].op = "settings" /\ Free
    /\ IF /\ settings.revision = work[e].expected /\ settings.revision < MaxTemplate
          /\ ~Deeper(level) /\ MayRetype(type)
       THEN /\ settings' = [maxLevel |-> level, revision |-> settings.revision + 1]
            /\ template' = IF type = template.type THEN template
                           ELSE [revision |-> template.revision + 1, type |-> type]
            /\ Finish(e) /\ UNCHANGED <<indicator, parent, content, history, copied, catLock>>
       ELSE Drop(e)

\* ensureRecord: every look at an indicator makes its record.
EnsureRecord == content' = [content EXCEPT !.record = TRUE]

OpenWorkspace(e) ==
    /\ indicator["c"] = "live" /\ EnsureRecord /\ Looked
    /\ Begin(e, [op |-> "page", expected |-> content.revision, template |-> template.revision])

\* saveModule, createEvidence: template, record and module are read, the new value
\* is checked against that template and merged into the values read.
AskSave(e, f) ==
    /\ work[e].op = "page"
    /\ IF indicator["c"] = "live" /\ content.revision = work[e].expected
       THEN /\ work' = [work EXCEPT ![e] =
                 [op |-> "module", field |-> f, revision |-> content.revision, seen |-> template.revision,
                  template |-> @.template, type |-> template.type,
                  values |-> [content.values EXCEPT ![f] = template.type]]]
            /\ EnsureRecord /\ Looked
       ELSE Drop(e)

AskEvidence(e) ==
    /\ work[e].op = "page"
    /\ IF indicator["c"] = "live"
       THEN /\ work' = [work EXCEPT ![e] = [op |-> "evidence", seen |-> template.revision,
                                             template |-> @.template, type |-> template.type]]
            /\ EnsureRecord /\ Looked
       ELSE Drop(e)

\* assertCurrent, under the lock of the system.
\* Faulty variant: the revision is compared with the one read before the lock.
AssertOutside(e) == work[e].template = work[e].seen
AssertCurrent(e) == work[e].template = template.revision /\ work[e].seen = template.revision

\* persistModuleRevision: compare and set on the revision of the module.
\* Faulty variant: the update names the module only.
UnchangedById(e) == content.record
Unchanged(e) == content.record /\ content.revision = work[e].revision

SaveModule(e) ==
    /\ work[e].op = "module" /\ Free
    /\ IF AssertCurrent(e) /\ Unchanged(e) /\ content.revision < MaxEdits
       THEN /\ content' = [content EXCEPT !.values = work[e].values, !.revision = work[e].revision + 1]
            /\ history' = Append(history, [values |-> work[e].values, field |-> work[e].field])
            /\ Finish(e) /\ UNCHANGED <<settings, template, indicator, parent, copied, catLock>>
       ELSE Drop(e)

SaveEvidence(e) ==
    /\ work[e].op = "evidence" /\ Free
    /\ IF AssertCurrent(e) /\ content.record
       THEN /\ content' = [content EXCEPT !.evidence = work[e].type]
            /\ Finish(e) /\ Looked
       ELSE Drop(e)

DeleteEvidence(e) ==
    /\ work[e].op = "page" /\ content.evidence # "empty"
    /\ content' = [content EXCEPT !.evidence = "empty"] /\ Finish(e) /\ Looked

\* saveSummary: no lock and no revision, the last one to save wins.
AskSummary(e) == indicator["c"] = "live" /\ Begin(e, [op |-> "summary"]) /\ EnsureRecord /\ Looked
SaveSummary(e) ==
    /\ work[e].op = "summary"
    /\ IF content.record THEN content' = [content EXCEPT !.summary = TRUE] /\ Finish(e) /\ Looked
       ELSE Drop(e)

\* deleteNode: the checks and the delete are two statements under the lock.
\* Faulty variant: the row is read without being locked.
ReadSystem == Free /\ UNCHANGED catLock
LockSystem == Free /\ catLock' = "held"

AskDelete(e, n, confirmed) ==
    /\ LockSystem /\ indicator[n] = "live"
    /\ n # "c" /\ indicator["c"] = "live" => parent # n
    /\ n = "c" /\ content.record => confirmed
    /\ Begin(e, [op |-> "delete", node |-> n, confirmed |-> confirmed])
    /\ UNCHANGED <<settings, template, indicator, parent, content, history, copied>>

DeleteNode(e) ==
    /\ work[e].op = "delete" /\ catLock' = "free" /\ Finish(e)
    /\ LET n == work[e].node
           referred == n # "c" /\ indicator["c"] = "live" /\ parent = n IN
       IF referred THEN UNCHANGED <<indicator, content, history>>
       ELSE /\ indicator' = [indicator EXCEPT ![n] = "gone"]
            /\ content' = IF n = "c" THEN NoRecord ELSE content
            /\ history' = IF n = "c" THEN <<>> ELSE history
    /\ UNCHANGED <<settings, template, parent, copied>>

\* cloneVersion: the version is read before the lock is asked for, and under the lock
\* nothing is compared with it.
AskClone(e) ==
    /\ copied = {} /\ indicator["c"] = "live"
    /\ Begin(e, [op |-> "clone", types |-> InUse \cap Type, revision |-> settings.revision])
    /\ Looked /\ UNCHANGED content

CloneVersion(e) ==
    /\ work[e].op = "clone" /\ Free
    /\ IF copied = {}
       THEN /\ copied' = work[e].types \cup
                 {IF work[e].revision = settings.revision THEN "current" ELSE "aged"}
            /\ Finish(e)
            /\ UNCHANGED <<settings, template, indicator, parent, content, history, catLock>>
       ELSE Drop(e)

CatalogNext ==
    \E e \in Editor :
        \/ AskNode(e) \/ CreateNode(e) \/ MoveNode(e)
        \/ OpenSettings(e) \/ \E level \in 1..2, type \in Type : SaveSettings(e, level, type)
        \/ OpenWorkspace(e) \/ \E f \in Field : AskSave(e, f)
        \/ SaveModule(e) \/ AskEvidence(e) \/ SaveEvidence(e) \/ DeleteEvidence(e)
        \/ AskSummary(e) \/ SaveSummary(e)
        \/ \E n \in Node, confirmed \in BOOLEAN : AskDelete(e, n, confirmed)
        \/ DeleteNode(e) \/ AskClone(e) \/ CloneVersion(e)

CatalogSpec == CatalogInit /\ [][CatalogNext]_catalogVars

-----------------------------------------------------------------------------
CatalogTypeOK ==
    /\ settings \in [maxLevel : 1..2, revision : 1..MaxTemplate]
    /\ template \in [revision : 1..MaxTemplate, type : Type]
    /\ indicator \in [Node -> {"unborn", "live", "gone"}]
    /\ content.values \in [Field -> Type \cup {"empty"}] /\ content.revision = Len(history)
    /\ indicator["c"] # "live" => content.record = FALSE

\* No indicator lies deeper than the system allows, and its parent is there: the
\* depth checked before the transaction is checked again under the lock that a
\* change of the depth takes (catalog.service.ts:207, templates.service.ts:81).
TreeFits == indicator["c"] = "live" => settings.maxLevel >= 2 /\ indicator[parent] = "live"

\* A field in use keeps the type it was filled in with: a save that was checked
\* against an older template never lands (templates.service.ts:70, :99).
UsedFieldsKeepType ==
    /\ {content.values[f] : f \in Field} \cup {content.evidence} \subseteq {template.type, "empty"}
    /\ \A i \in DOMAIN history : \A f \in Field : history[i].values[f] \in {template.type, "empty"}

\* The copy of a version is held to both, as depth and types are counted over all
\* versions (templates.service.ts:81, 91), unless the settings were saved between the
\* reading of the version and the lock: under the lock nothing is compared, and nodes too
\* deep or values of the type of then come back (catalog.service.ts:439, 445-474).
CopyFits ==
    "current" \in copied => settings.maxLevel >= 2 /\ copied \cap Type \subseteq {template.type}

\* Each revision differs from the one before in the field its save was about:
\* nobody's field is written back by the save of somebody else.
NoFieldLost ==
    /\ \A i \in DOMAIN history : \A f \in Field \ {history[i].field} :
           history[i].values[f] = IF i = 1 THEN "empty" ELSE history[i - 1].values[f]
    /\ history # <<>> => content.values = history[Len(history)].values

\* Modules and evidence that were saved only go with a deletion that was confirmed.
\* (A summary takes no lock: it may be saved between the two statements and go.)
DeletedKnowingly ==
    \A e \in Editor : work[e].op = "delete" /\ work[e].node = "c" /\ ~work[e].confirmed
                      => history = <<>> /\ content.evidence = "empty"

\* Editors and administrators of the catalogue at once: the tree keeps the depth of its
\* system, contents the types of their template, and nobody's text goes unseen.
CatalogHolds == TreeFits /\ UsedFieldsKeepType /\ CopyFits /\ NoFieldLost /\ DeletedKnowingly

-----------------------------------------------------------------------------
(* The index of mg-expert-database's semantic library, semantic.service.ts: a  *)
(* build is queued with a snapshot of the content, claimed by the worker of    *)
(* one process, written in batches and published; a search compares the        *)
(* published fragments with the content before and after it asked the supplier.*)
(* The content is one fragment and its hash the number of its last edit.       *)
CONSTANTS
    Worker,         \* processes with a build timer
    Build,          \* builds, each queued once
    MaxSourceEdit,  \* bound on edits of the content
    Batches         \* batches a build is written in

ASSUME BatchesAssumption == Batches \in Nat

VARIABLES
    fragment,   \* number of the last edit of the content
    build,      \* Build -> [status, snapshot]
    active,     \* published build, or "none"
    chunks,     \* [build, batch, hash] rows
    worker,     \* Worker -> [job, step]; step counts batches written
    replyLost,  \* a publication was committed and its worker never heard
    query       \* the search in hand

indexVars == <<fragment, build, active, chunks, worker, replyLost, query>>

NoQuery == [step |-> "idle", asked |-> 0, build |-> "none", found |-> {}, answer |-> {}]
Waiting == [job |-> "none", step |-> 0]

IndexInit ==
    /\ fragment = 1 /\ build = [b \in Build |-> [status |-> "new", snapshot |-> 0]]
    /\ active = "none" /\ chunks = {} /\ replyLost = FALSE /\ query = NoQuery
    /\ worker = [w \in Worker |-> Waiting]

Running == {b \in Build : build[b].status = "running"}
RowsOf(b) == {c \in chunks : c.build = b}

EditContent ==
    /\ fragment < MaxSourceEdit /\ fragment' = fragment + 1
    /\ UNCHANGED <<build, active, chunks, worker, replyLost, query>>

Enqueue(b) ==
    /\ build[b].status = "new" /\ \A o \in Build : build[o].status \notin {"queued", "running"}
    /\ build' = [build EXCEPT ![b] = [status |-> "queued", snapshot |-> fragment]]
    /\ UNCHANGED <<fragment, active, chunks, worker, replyLost, query>>

\* remove: the library with its builds and fragments, never during a build.
RemoveLibrary ==
    /\ active # "none" /\ \A o \in Build : build[o].status \notin {"queued", "running"}
    /\ active' = "none" /\ chunks' = {} /\ replyLost' = FALSE
    /\ build' = [b \in Build |-> IF build[b].status = "new" THEN build[b] ELSE [status |-> "failed", snapshot |-> 0]]
    /\ UNCHANGED <<fragment, worker, query>>

\* tick, under the advisory lock: a build without a heartbeat for five minutes is
\* given up (any of them may have got there), then one queued build is claimed.
GiveUp(stale) == [b \in Build |-> IF b \in stale THEN [build[b] EXCEPT !.status = "failed"] ELSE build[b]]

ClaimJob(w, b) ==
    /\ worker[w] = Waiting
    /\ build[b].status = "queued"
    /\ build' = [GiveUp(Running) EXCEPT ![b].status = "running"]
    /\ worker' = [worker EXCEPT ![w] = [job |-> b, step |-> 0]]
    /\ UNCHANGED <<fragment, active, chunks, replyLost, query>>

TickOnly(w, b) ==
    /\ worker[w] = Waiting /\ b \in Running /\ build' = GiveUp({b})
    /\ UNCHANGED <<fragment, active, chunks, worker, replyLost, query>>

\* Faulty variant: whatever became of the build, its worker goes on.
AliveAnyway(b) == b \in Build
Alive(b) == build[b].status = "running"

\* One batch: the heartbeat and the rows of the batch in one transaction.
WriteBatch(w) ==
    LET b == worker[w].job IN
    /\ b # "none" /\ worker[w].step < Batches /\ Alive(b)
    /\ worker' = [worker EXCEPT ![w].step = @ + 1]
    /\ chunks' = chunks \cup {[build |-> b, batch |-> worker[w].step, hash |-> build[b].snapshot]}
    /\ UNCHANGED <<fragment, build, active, replyLost, query>>

\* The build becomes ready and active and the other fragments go.
Publish(w, heard) ==
    LET b == worker[w].job IN
    /\ b # "none" /\ worker[w].step = Batches /\ Alive(b)
    /\ build' = [build EXCEPT ![b].status = "ready"] /\ active' = b
    /\ chunks' = RowsOf(b)
    /\ IF heard THEN worker' = [worker EXCEPT ![w] = Waiting] /\ UNCHANGED replyLost
       ELSE replyLost' = TRUE /\ worker' = [worker EXCEPT ![w].step = Batches + 1]
    /\ UNCHANGED <<fragment, query>>

\* The catch: an error of the supplier, a lost right, a build given up meanwhile,
\* or a commit nobody answered.
Abandon(w) ==
    LET b == worker[w].job IN
    /\ b # "none"
    /\ build' = IF Alive(b) THEN [build EXCEPT ![b].status = "failed"] ELSE build
    /\ chunks' = chunks \ RowsOf(b)
    /\ worker' = [worker EXCEPT ![w] = Waiting]
    /\ UNCHANGED <<fragment, active, replyLost, query>>

\* The process goes down: its build stays where it was until somebody gives it up.
Crash(w) ==
    /\ worker[w] # Waiting /\ worker' = [worker EXCEPT ![w] = Waiting]
    /\ UNCHANGED <<fragment, build, active, chunks, replyLost, query>>

\* search
Ask ==
    /\ query.step = "idle" /\ active # "none"
    /\ query' = [NoQuery EXCEPT !.step = "asked", !.asked = fragment, !.build = active]
    /\ UNCHANGED <<fragment, build, active, chunks, worker, replyLost>>

Matches(hash) == {c \in RowsOf(query.build) : c.hash = hash}

Match ==
    /\ query.step = "asked"
    /\ query' = [query EXCEPT !.step = "matched", !.found = Matches(query.asked)]
    /\ UNCHANGED <<fragment, build, active, chunks, worker, replyLost>>

\* Faulty variant: what was found is handed out.
ValidThen(found) == found
\* The content is read again and what has changed is dropped.
StillValid(found) == {c \in found \cap chunks : c.hash = fragment}
Answer ==
    /\ query.step = "matched"
    /\ query' = [query EXCEPT !.step = "answered", !.answer = StillValid(query.found), !.asked = fragment]
    /\ UNCHANGED <<fragment, build, active, chunks, worker, replyLost>>

NextQuery ==
    /\ query.step = "answered" /\ query' = NoQuery
    /\ UNCHANGED <<fragment, build, active, chunks, worker, replyLost>>

IndexNext ==
    \/ EditContent \/ RemoveLibrary \/ \E b \in Build : Enqueue(b)
    \/ \E w \in Worker, b \in Build : ClaimJob(w, b) \/ TickOnly(w, b)
    \/ \E w \in Worker : WriteBatch(w) \/ Abandon(w) \/ Crash(w) \/ \E heard \in BOOLEAN : Publish(w, heard)
    \/ Ask \/ Match \/ Answer \/ NextQuery

IndexSpec == IndexInit /\ [][IndexNext]_indexVars

-----------------------------------------------------------------------------
IndexTypeOK ==
    /\ build \in [Build -> [status : {"new", "queued", "running", "ready", "failed"}, snapshot : 0..MaxSourceEdit]]
    /\ active \in Build \cup {"none"} /\ Cardinality(Running) <= 1
    /\ \A w \in Worker : worker[w].job \in Build \cup {"none"} /\ worker[w].step \in 0..Batches + 1

\* The published index is whole: a build its worker lost, to another process or to
\* five minutes of silence, is never published and takes nothing of the published
\* one with it (semantic.service.ts:131, :138, :144). The exception is a commit whose
\* answer got lost, after which the catch removes the fragments of the new index.
PublishedIsWhole ==
    active # "none" /\ ~replyLost =>
        /\ build[active].status = "ready"
        /\ RowsOf(active) = {[build |-> active, batch |-> i, hash |-> build[active].snapshot] : i \in 0..(Batches - 1)}

\* A search never hands out a fragment that had been changed before it was answered.
AnswersAreCurrent ==
    \A c \in query.answer : query.step = "answered" => c.hash >= query.asked

\* The index that answers is whole, and its answers are of the contents as they are.
IndexHolds == PublishedIsWhole /\ AnswersAreCurrent

-----------------------------------------------------------------------------
(* The page of the indicator database on which researchers work: the route, *)
(* the indicator it shows, the draft typed into it and its save, answers    *)
(* that come late, leaving the page and closing its window, while others    *)
(* save the same indicators. Answers are told to be overtaken by request    *)
(* numbers; the model keeps whether a request is still the latest.          *)
CONSTANTS
    Indicator,
    NoIndicator,
    MaxRevisionNo, \* revisions of a module of an indicator
    MaxAsked       \* answers under way, those overtaken included

ASSUME DeskAssumption == NoIndicator \notin Indicator

VARIABLES
    storedNo,   \* the revision of the module at the server
    place,    \* the route: the list of systems, or an indicator
    detail,   \* currentSystem and systemDetail are there
    shown,    \* workspace: the indicator and the revision of its module
    askedFor,    \* requests for the context, a workspace, or a workspace once more
    draft,    \* the form in ResearchWorkspace: where, changed, begun from which revision
    saving,   \* the save under way
    question, \* confirmLeaveWorkspace: where to, or "close"
    afterSave,    \* pendingRouteAfterSave
    window,   \* of the desktop: open, closing once saved, closed
    signedIn, \* currentUser of the page
    workspaceDirty, \* of the page: stays when an edited workspace is taken away
    crossed   \* history: a workspace was shown on another's page, or on one still loading

deskVars ==
    <<storedNo, place, detail, shown, askedFor, draft, saving, question, afterSave, window,
      signedIn, workspaceDirty, crossed>>

NoPlace == "nowhere"
Systems == "systems"
Places == Indicator \cup {Systems}
RevisionNo == 0..MaxRevisionNo
NothingShown == [node |-> NoIndicator, no |-> 0]
NoDraft == [node |-> NoIndicator, dirty |-> FALSE, no |-> 0]
NoSaving ==
    [stage |-> "none", node |-> NoIndicator, seen |-> 0, expected |-> 0, live |-> FALSE]

DeskTypeOK ==
    /\ storedNo \in [Indicator -> RevisionNo]
    /\ place \in Places /\ detail \in BOOLEAN
    /\ shown \in [node : Indicator \cup {NoIndicator}, no : RevisionNo]
    /\ \A q \in askedFor : /\ q.kind \in {"context", "reload", "workspace", "refresh", "systems"}
                        /\ q.node \in Indicator \cup {NoIndicator}
                        /\ q.latest \in BOOLEAN
    /\ draft \in [node : Indicator \cup {NoIndicator}, dirty : BOOLEAN, no : RevisionNo]
    /\ saving.stage \in {"none", "sent", "stored", "conflict", "failed"}
    /\ question \in Places \cup {NoPlace, "close"}
    /\ afterSave \in Places \cup {NoPlace}
    /\ window \in {"open", "closing", "closed"} /\ crossed \in BOOLEAN
    /\ signedIn \in BOOLEAN /\ workspaceDirty \in BOOLEAN

DeskInit ==
    /\ storedNo = [i \in Indicator |-> 0]
    /\ place = Systems /\ detail = FALSE
    /\ shown = NothingShown /\ askedFor = {}
    /\ draft = NoDraft /\ saving = NoSaving
    /\ question = NoPlace /\ afterSave = NoPlace
    /\ window = "open" /\ crossed = FALSE
    /\ signedIn = TRUE /\ workspaceDirty = FALSE

-----------------------------------------------------------------------------
\* The answer to an overtaken request for the context changes nothing: it is forgotten.
Overtaken(kinds) ==
    {q \in askedFor : q.kind \notin kinds} \cup
    {[q EXCEPT !.latest = FALSE] : q \in {r \in askedFor : r.kind = "workspace" /\ r.kind \in kinds}}
Request(kind, i) == [kind |-> kind, node |-> i, latest |-> TRUE]
RoomToAsk == Cardinality(askedFor) < MaxAsked

\* The route changes and syncFromRoute follows it: the list forgets the system, an
\* indicator waits for the context, or is asked for when the context is there.
GoTo(to) ==
    /\ place' = to
    /\ draft' = NoDraft
    /\ IF to = Systems
       THEN /\ detail' = FALSE /\ shown' = NothingShown
            /\ askedFor' = Overtaken({"context", "reload", "workspace"})
       ELSE IF ~detail
       THEN /\ shown' = NothingShown /\ UNCHANGED detail
            /\ askedFor' = Overtaken({"context", "reload"})
                           \cup {Request("context", NoIndicator)}
       ELSE /\ shown' = NothingShown /\ UNCHANGED detail
            /\ askedFor' = Overtaken({"context", "reload", "workspace"})
                           \cup {Request("workspace", to)}

\* The workspace is taken away: its form is gone, a save it sent is on its own. The page
\* keeps its word of a draft, but for a step that takes it back.
TakenAway ==
    /\ shown' = NothingShown /\ draft' = NoDraft
    /\ saving' = [saving EXCEPT !.live = FALSE]

\* cancelEdit of the form: a draft that was changed takes the word of the page back.
FormEnds ==
    /\ draft' = NoDraft
    /\ workspaceDirty' = (workspaceDirty /\ ~draft.dirty)

\* isWorkspaceDirty
Busy == saving.stage # "none" /\ saving.live
Unsaved == workspaceDirty \/ Busy
\* Bound: while a save whose page was taken away is under way no evidence changes, nobody
\* else saves, no templates do, the window is not closed and the session goes on.
Orphaned == saving.stage # "none" /\ ~saving.live

\* The guard of the router: while a save is under way the page stays, with a draft
\* it asks.
Navigate(to) ==
    /\ window = "open" /\ signedIn
    /\ question = NoPlace /\ to # place /\ ~Busy /\ RoomToAsk
    /\ IF Unsaved
       THEN question' = to /\ UNCHANGED <<place, detail, shown, askedFor, draft>>
       ELSE GoTo(to) /\ UNCHANGED question
    /\ UNCHANGED <<storedNo, saving, afterSave, window, signedIn, workspaceDirty, crossed>>

\* getVersionDetail is answered: the node of the route is selected, after a change
\* of the templates none is.
ContextArrives(q) ==
    /\ q \in askedFor /\ q.kind \in {"context", "reload"}
    /\ detail' = (detail \/ (q.latest /\ place \in Indicator))
    /\ IF q.kind = "context" /\ q.latest /\ place \in Indicator
       THEN /\ shown' = NothingShown /\ draft' = NoDraft
            /\ askedFor' = (Overtaken({"workspace"}) \ {q}) \cup {Request("workspace", place)}
       ELSE askedFor' = askedFor \ {q} /\ UNCHANGED <<shown, draft>>
    /\ UNCHANGED <<storedNo, place, saving, question, afterSave, window,
                     signedIn, workspaceDirty, crossed>>

\* What is shown changes: another indicator ends the edit, whatever is in it; its save,
\* if one is under way, goes on.
Show(i, no) ==
    /\ shown' = [node |-> i, no |-> no]
    /\ IF shown.node \notin {i, NoIndicator}
       THEN FormEnds /\ saving' = [saving EXCEPT !.live = FALSE]
       ELSE UNCHANGED <<draft, saving, workspaceDirty>>

\* Faulty variant: an answer is shown whenever it comes.
AnyWorkspaceArrives(q) ==
    /\ q \in askedFor /\ q.kind = "workspace"
    /\ askedFor' = askedFor \ {q}
    /\ Show(q.node, storedNo[q.node])
    /\ UNCHANGED <<storedNo, place, detail, question, afterSave, window, signedIn, crossed>>

\* selectNode: an answer that was overtaken is dropped.
WorkspaceArrives(q) ==
    /\ q \in askedFor /\ q.kind = "workspace"
    /\ askedFor' = askedFor \ {q}
    /\ IF q.latest THEN Show(q.node, storedNo[q.node])
       ELSE UNCHANGED <<shown, draft, saving, workspaceDirty>>
    /\ crossed' = (crossed \/ (q.latest /\ ~detail))
    /\ UNCHANGED <<storedNo, place, detail, question, afterSave, window, signedIn>>

\* refreshWorkspace has no request number.
RefreshArrives(q) ==
    /\ q \in askedFor /\ q.kind = "refresh"
    /\ askedFor' = askedFor \ {q}
    /\ Show(q.node, storedNo[q.node])
    /\ crossed' = (crossed \/ q.node # place \/ ~detail)
    /\ UNCHANGED <<storedNo, place, detail, question, afterSave, window, signedIn>>

\* A request fails, for another reason than the session: the page shows the error.
RequestFails(q) ==
    /\ q \in askedFor /\ q.kind # "systems" /\ askedFor' = askedFor \ {q}
    /\ detail' = IF q.kind \in {"context", "reload"} /\ q.latest THEN FALSE ELSE detail
    /\ UNCHANGED <<storedNo, place, shown, draft, saving, question, afterSave, window,
                     signedIn, workspaceDirty, crossed>>

\* expireSession: the page goes to the sign-in as it is, drafts included, and asks nobody.
\* A question on the screen stays; the route it was about is overtaken by this one.
Expired ==
    /\ signedIn' = FALSE /\ workspaceDirty' = FALSE
    /\ place' = Systems /\ detail' = FALSE /\ shown' = NothingShown /\ draft' = NoDraft
    /\ askedFor' = Overtaken({"context", "reload", "workspace"})
    /\ question' = IF question \in Places THEN Systems ELSE question

\* Some request of the page is answered 401.
SessionExpires ==
    /\ signedIn /\ ~Orphaned /\ Expired
    /\ saving' = [saving EXCEPT !.live = FALSE]
    /\ UNCHANGED <<storedNo, afterSave, window, crossed>>

\* The save is: nothing was stored.
SaveExpires ==
    /\ saving.stage = "sent" /\ saving' = NoSaving
    /\ Expired
    /\ window' = IF window = "closing" THEN "open" ELSE window
    /\ UNCHANGED <<storedNo, afterSave, crossed>>

\* Signed in again, on the list of the systems.
SignInAgain ==
    /\ window # "closed" /\ question = NoPlace /\ ~signedIn /\ signedIn' = TRUE
    /\ shown' = NothingShown /\ draft' = NoDraft /\ workspaceDirty' = FALSE
    /\ UNCHANGED <<storedNo, place, detail, askedFor, saving, question, afterSave, window,
                     crossed>>

\* Evidence is added, changed or removed, or the summary saved, beside a draft: the
\* workspace is read once more.
ChangeEvidence ==
    /\ window # "closed" /\ question = NoPlace /\ RoomToAsk /\ ~Orphaned
    /\ signedIn /\ shown.node \in Indicator /\ place = shown.node
    /\ askedFor' = askedFor \cup {Request("refresh", place)}
    /\ UNCHANGED <<storedNo, place, detail, shown, draft, saving,
                     question, afterSave, window, signedIn, workspaceDirty, crossed>>

\* loadSystems makes syncFromRoute run once more under the same route.
SyncAgain ==
    IF place \notin Indicator THEN Overtaken({"context", "reload"})
    ELSE IF ~detail
    THEN Overtaken({"context", "reload"}) \cup {Request("context", NoIndicator)}
    ELSE IF shown.node = NoIndicator
    THEN Overtaken({"context", "reload", "workspace"}) \cup {Request("workspace", place)}
    ELSE Overtaken({"context", "reload"})

\* The templates are saved: their dialog, which does not open beside a draft, closes at
\* once, and templatesSaved awaits the list of the systems (bound: no answer is awaited).
TemplatesSaved ==
    /\ window = "open" /\ signedIn /\ question = NoPlace /\ ~workspaceDirty
    /\ askedFor = {} /\ ~Orphaned
    /\ askedFor' = SyncAgain \cup {Request("systems", NoIndicator)}
    /\ IF place \in Indicator /\ ~detail THEN TakenAway ELSE UNCHANGED <<shown, draft, saving>>
    /\ UNCHANGED <<storedNo, place, detail, question, afterSave, window,
                     signedIn, workspaceDirty, crossed>>

\* The list is there, or failed: the context is read again, and the workspace goes,
\* with what was typed into it meanwhile. (A refresh follows an overtaken one; it is
\* like that of ChangeEvidence.)
ListArrives(q) ==
    /\ q \in askedFor /\ q.kind = "systems"
    /\ askedFor' = (SyncAgain \ {q})
                   \cup (IF detail THEN {Request("reload", NoIndicator)} ELSE {})
    /\ IF place \in Indicator THEN TakenAway ELSE UNCHANGED <<shown, draft, saving>>
    /\ UNCHANGED <<storedNo, place, detail, question, afterSave, window,
                     signedIn, workspaceDirty, crossed>>

-----------------------------------------------------------------------------
\* beginEdit: with the revision shown.
BeginEdit ==
    /\ window = "open" /\ signedIn /\ question = NoPlace /\ ~Busy
    /\ shown.node \in Indicator /\ place \in Indicator
    /\ draft.node = NoIndicator
    /\ draft' = [node |-> shown.node, dirty |-> FALSE, no |-> shown.no]
    /\ UNCHANGED <<storedNo, place, detail, shown, askedFor, saving,
                     question, afterSave, window, signedIn, workspaceDirty, crossed>>

DraftType ==
    /\ window = "open" /\ question = NoPlace /\ ~Busy
    /\ draft.node \in Indicator /\ ~draft.dirty
    /\ draft' = [draft EXCEPT !.dirty = TRUE] /\ workspaceDirty' = TRUE
    /\ UNCHANGED <<storedNo, place, detail, shown, askedFor, saving,
                     question, afterSave, window, signedIn, crossed>>

\* Faulty variant: the revision of the workspace at the time of the save.
ExpectedNow == shown.no

\* submitSave sends the revision the draft was begun from.
Expected == draft.no

Submitted ==
    [stage |-> "sent", node |-> draft.node, seen |-> draft.no, expected |-> Expected,
     live |-> TRUE]

Submit ==
    /\ window = "open" /\ question = NoPlace /\ saving.stage = "none"
    /\ draft.node \in Indicator
    /\ saving' = Submitted
    /\ UNCHANGED <<storedNo, place, detail, shown, askedFor, draft,
                     question, afterSave, window, signedIn, workspaceDirty, crossed>>

\* cancelEdit of the form
CancelEdit ==
    /\ window = "open" /\ question = NoPlace /\ ~Busy
    /\ draft.node \in Indicator /\ FormEnds
    /\ UNCHANGED <<storedNo, place, detail, shown, askedFor, saving,
                     question, afterSave, window, signedIn, crossed>>

\* The server compares the revision with its own.
ServerSaves ==
    /\ saving.stage = "sent"
    /\ IF storedNo[saving.node] = saving.expected
       THEN /\ storedNo[saving.node] < MaxRevisionNo
            /\ storedNo' = [storedNo EXCEPT ![saving.node] = @ + 1]
            /\ \E stage \in {"stored", "failed"} : saving' = [saving EXCEPT !.stage = stage]
       ELSE saving' = [saving EXCEPT !.stage = "conflict"] /\ UNCHANGED storedNo
    /\ UNCHANGED <<place, detail, shown, askedFor, draft, question, afterSave, window,
                     signedIn, workspaceDirty, crossed>>

\* saveModule on success: the edit ends, the window that waits closes, the route
\* that waits is taken; nothing of it when another indicator is shown by now.
SaveSucceeds ==
    /\ saving.stage = "stored" /\ saving' = NoSaving
    /\ IF shown.node # saving.node
       THEN UNCHANGED <<place, detail, shown, askedFor, draft, afterSave, window, workspaceDirty>>
       ELSE /\ afterSave' = NoPlace /\ workspaceDirty' = FALSE
            /\ IF afterSave # NoPlace THEN GoTo(afterSave)
               ELSE /\ shown' = [shown EXCEPT !.no = saving.expected + 1]
                    /\ draft' = NoDraft
                    /\ UNCHANGED <<place, detail, askedFor>>
            /\ window' = IF window = "closing" THEN "closed" ELSE window
    /\ UNCHANGED <<storedNo, question, signedIn, crossed>>

\* On another failure and on a conflict draft and page stay.
SaveFails ==
    /\ saving.stage \in {"failed", "conflict"} /\ saving' = NoSaving
    /\ afterSave' = IF shown.node = saving.node THEN NoPlace ELSE afterSave
    /\ window' = IF window = "closing" THEN "open" ELSE window
    /\ UNCHANGED <<storedNo, place, detail, shown, askedFor, draft, question,
                     signedIn, workspaceDirty, crossed>>

-----------------------------------------------------------------------------
\* onClose: refused while saving, asks with a draft.
AskClose ==
    /\ window = "open" /\ question = NoPlace /\ ~Busy /\ ~Orphaned
    /\ IF workspaceDirty THEN question' = "close" /\ UNCHANGED window
                         ELSE window' = "closed" /\ UNCHANGED question
    /\ UNCHANGED <<storedNo, place, detail, shown, askedFor, draft, saving, afterSave,
                     signedIn, workspaceDirty, crossed>>

\* Faulty variant: the window is closed when the save is sent.
AnswerSaveAndClose ==
    /\ question # NoPlace /\ question' = NoPlace
    /\ draft.node \in Indicator /\ saving.stage = "none" /\ saving' = Submitted
    /\ IF question = "close" THEN window' = "closed" /\ UNCHANGED afterSave
                             ELSE afterSave' = question /\ UNCHANGED window
    /\ UNCHANGED <<storedNo, place, detail, shown, askedFor, draft,
                     signedIn, workspaceDirty, crossed>>

AnswerSave ==
    /\ question # NoPlace /\ question' = NoPlace
    /\ IF draft.node = NoIndicator
       THEN /\ afterSave' = IF question = "close" THEN afterSave ELSE NoPlace
            /\ UNCHANGED <<saving, window>>
       ELSE /\ saving.stage = "none" /\ saving' = Submitted
            /\ IF question = "close" THEN window' = "closing" /\ UNCHANGED afterSave
                                     ELSE afterSave' = question /\ UNCHANGED window
    /\ UNCHANGED <<storedNo, place, detail, shown, askedFor, draft,
                     signedIn, workspaceDirty, crossed>>

AnswerDiscard ==
    /\ question # NoPlace /\ question' = NoPlace /\ workspaceDirty' = FALSE
    /\ IF question = "close"
       THEN /\ window' = "closed" /\ draft' = NoDraft
            /\ UNCHANGED <<place, detail, shown, askedFor>>
       ELSE GoTo(question) /\ UNCHANGED window
    /\ UNCHANGED <<storedNo, saving, afterSave, signedIn, crossed>>

AnswerStay ==
    /\ question # NoPlace /\ question' = NoPlace
    /\ UNCHANGED <<storedNo, place, detail, shown, askedFor, draft,
                     saving, afterSave, window, signedIn, workspaceDirty, crossed>>

\* After 25 seconds the window does not wait any longer and stays.
CloseTimesOut ==
    /\ window = "closing" /\ window' = "open"
    /\ UNCHANGED <<storedNo, place, detail, shown, askedFor, draft,
                     saving, question, afterSave, signedIn, workspaceDirty, crossed>>

\* Another researcher saves what is shown here (bound: the last revision is this page's).
OtherSaves(i) ==
    /\ i = shown.node /\ ~Orphaned /\ storedNo[i] + 1 < MaxRevisionNo
    /\ storedNo' = [storedNo EXCEPT ![i] = @ + 1]
    /\ UNCHANGED <<place, detail, shown, askedFor, draft, saving,
                     question, afterSave, window, signedIn, workspaceDirty, crossed>>

\* Nothing happens on a page whose window is closed.
DeskNext ==
    /\ window # "closed"
    /\ \/ \E to \in Places : Navigate(to)
       \/ \E q \in askedFor :
             \/ ContextArrives(q) \/ WorkspaceArrives(q) \/ RefreshArrives(q)
             \/ RequestFails(q) \/ ListArrives(q)
       \/ ChangeEvidence \/ TemplatesSaved
       \/ SessionExpires \/ SaveExpires \/ SignInAgain
       \/ BeginEdit \/ DraftType \/ Submit \/ CancelEdit
       \/ ServerSaves \/ SaveSucceeds \/ SaveFails
       \/ AskClose \/ AnswerSave \/ AnswerDiscard \/ AnswerStay \/ CloseTimesOut
       \/ \E i \in Indicator : OtherSaves(i)

DeskSpec == DeskInit /\ [][DeskNext]_deskVars

-----------------------------------------------------------------------------
\* The workspace of one indicator is never shown under the route of another, however
\* late its answer comes; the refresh after a change of evidence is the exception.
RightIndicator == ~crossed /\ place \in Indicator => shown.node \in {place, NoIndicator}

\* A save replaces the revision its draft was begun from and no other: what somebody
\* else saved in between was seen before it is written over, also when the workspace
\* was read again under the draft.
SeenBeforeReplaced ==
    [][saving.stage = "sent" /\ saving'.stage \in {"stored", "failed"} =>
          storedNo[saving.node] = saving.seen]_deskVars

\* A changed draft goes when it was stored or when it was given up; not with a route, a
\* late answer or the window. The code has five ways around it, and they are left out:
\* a refresh of another indicator; a session that ends under the page; the list of the
\* systems that templatesSaved awaits, and the workspace with it; the answer to a save
\* that was sent before one of these two took its page away, on the next draft of the
\* same indicator; and the sections of an indicator, which are not told apart: one that
\* another takes out of the templates ends its edit at the next refresh.
DraftsEndKnowingly ==
    [][draft.dirty /\ (~draft'.dirty \/ window' = "closed") /\ ~crossed' =>
          \/ saving.stage = "stored" /\ saving.node = draft.node
          \/ question # NoPlace /\ question' = NoPlace /\ saving' = saving
          \/ question = NoPlace /\ question' = NoPlace /\ window' = "open" /\ place' = place
             /\ shown' = shown /\ ~Busy
          \/ signedIn /\ ~signedIn'
          \/ \E q \in askedFor \ askedFor' : q.kind = "systems"]_deskVars

\* On the page researchers write on nothing goes unseen: neither what another saved nor
\* what was typed here, and it is never typed under the name of another indicator.
NothingOverwritten == []RightIndicator /\ SeenBeforeReplaced /\ DraftsEndKnowingly
=============================================================================
