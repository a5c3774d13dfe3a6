-------------------------- MODULE ProductionRelease --------------------------
(* What is deployed: the services of the desktop server, the release of the   *)
(* platform by two deployers, its acceptance by real calls, and the switch of *)
(* the catalogue to its database.                                             *)
EXTENDS DesktopServices, Sequences

-----------------------------------------------------------------------------
(* The release of mg-gateway to production, scripts/production-deploy.py: each  *)
(* deployer runs its remote commands in order over an SSH connection that may   *)
(* break; a failure rolls back from the backup, and whatever happened the lock  *)
(* is given back. Production is a set of parts, each of some release.           *)
CONSTANTS
    Deployer,   \* one release each
    MaxWrites   \* bound on the requests that change the database

\* Neither a lock nobody owns nor a gateway that is stopped is taken for a deployer.
ASSUME ReleaseAssumption ==
    MaxWrites \in Nat /\ {"free", "ownerless", "stopped"} \cap Deployer = {}

VARIABLES
    server,     \* [files, env, image, running, schema, writes]
    backup,     \* Deployer -> what its backup holds, the checksums included
    marker,     \* deployers whose rollback was verified
    remoteLock, \* deployer in the lock directory, "free", or "ownerless"
    deploy,     \* Deployer -> [step, may, held, cut]: command to run next, what may have
                \* changed, whether the lock was confirmed, whether the connection broke
                \* during the rollback
    approved    \* writes answered while a released gateway ran, none on trial

releaseVars == <<server, backup, marker, remoteLock, deploy, approved>>

Before == "old"
NoBackup == [ready |-> FALSE, sums |-> TRUE, files |-> Before, image |-> Before,
             schema |-> Before, writes |-> 0]

ReleaseInit ==
    /\ server = [files |-> Before, env |-> Before, image |-> Before, running |-> Before,
                 schema |-> Before, writes |-> 0]
    /\ backup = [d \in Deployer |-> NoBackup]
    /\ marker = {} /\ remoteLock = "free" /\ approved = 0
    /\ deploy = [d \in Deployer |-> [step |-> "preflight", may |-> {}, held |-> FALSE,
                                   cut |-> FALSE]]

At(d, step) == deploy[d].step = step
To(d, step) == deploy' = [deploy EXCEPT ![d].step = step]
Alone == UNCHANGED <<server, backup, marker, remoteLock, approved>>

\* A command that failed or whose answer was lost: roll back or only clean up.
Fail(d) == To(d, IF "files" \in deploy[d].may THEN "rollback" ELSE "release")

Healthy == server.running # "stopped"

Preflight(d) ==
    /\ At(d, "preflight") /\ Alone
    /\ IF Healthy /\ server.running = server.image THEN To(d, "lock") ELSE To(d, "over")

\* mkdir is the lock; the owner is written after it. The flag that says the lock
\* may be held is set before the command, the one that says it is held after it.
AcquireLock(d, heard) ==
    /\ At(d, "lock")
    /\ IF remoteLock = "free" /\ heard
       THEN remoteLock' = d /\ deploy' = [deploy EXCEPT ![d].step = "backup", ![d].held = TRUE]
       ELSE /\ To(d, "release")
            /\ remoteLock' \in IF remoteLock = "free" THEN {"free", d, "ownerless"} ELSE {remoteLock}
    /\ UNCHANGED <<server, backup, marker, approved>>

Copy(d) == [ready |-> TRUE, sums |-> TRUE, files |-> server.files, image |-> server.image,
            schema |-> server.schema, writes |-> server.writes]

MakeBackup(d) ==
    /\ At(d, "backup") /\ backup' = [backup EXCEPT ![d] = Copy(d)]
    /\ deploy' = [deploy EXCEPT ![d].step = "build", ![d].may = {"files"}]
    /\ UNCHANGED <<server, marker, remoteLock, approved>>

\* files and image are replaced one after the other; a failure leaves any prefix.
Build(d) ==
    /\ At(d, "build") /\ To(d, "freeze")
    /\ server' = [server EXCEPT !.files = d, !.env = d, !.image = d]
    /\ UNCHANGED <<backup, marker, remoteLock, approved>>

BuildFails(d) ==
    /\ At(d, "build") /\ Fail(d)
    /\ server' \in {server, [server EXCEPT !.files = d], [server EXCEPT !.files = d, !.env = d],
                    [server EXCEPT !.files = d, !.env = d, !.image = d]}
    /\ UNCHANGED <<backup, marker, remoteLock, approved>>

\* The gateway is stopped and the database is copied once more.
Stopped == [server EXCEPT !.running = "stopped"]
\* Faulty variant: the copy made while the gateway was running is kept.
EarlyBackup(d) == backup[d]
FinalBackup(d) == [backup[d] EXCEPT !.writes = server.writes, !.schema = server.schema]

MayMigrate(d) == [deploy EXCEPT ![d].step = "migrate", ![d].may = @ \cup {"database"}]
Freeze(d) ==
    /\ At(d, "freeze") /\ deploy' = MayMigrate(d)
    /\ server' = Stopped /\ backup' = [backup EXCEPT ![d] = FinalBackup(d)]
    /\ UNCHANGED <<marker, remoteLock, approved>>

\* It may break off anywhere, also between the new copy and its checksums.
FreezeFails(d) ==
    /\ At(d, "freeze") /\ Fail(d) /\ server' = Stopped
    /\ backup' \in {backup, [backup EXCEPT ![d] = FinalBackup(d)],
                    [backup EXCEPT ![d] = [FinalBackup(d) EXCEPT !.sums = FALSE]]}
    /\ UNCHANGED <<marker, remoteLock, approved>>

Migrate(d, done) ==
    /\ At(d, "migrate") /\ (IF done THEN To(d, "start") ELSE Fail(d))
    /\ server' \in {[server EXCEPT !.schema = d]} \cup (IF done THEN {} ELSE {server})
    /\ UNCHANGED <<backup, marker, remoteLock, approved>>

Start(d, done) ==
    /\ At(d, "start") /\ (IF done THEN To(d, "acceptance") ELSE Fail(d))
    /\ server' \in {[server EXCEPT !.running = server.image]} \cup (IF done THEN {} ELSE {server})
    /\ UNCHANGED <<backup, marker, remoteLock, approved>>

\* The acceptance of the public interface, with its own deadline.
Accept(d) ==
    /\ At(d, "acceptance") /\ To(d, "release") /\ approved' = server.writes
    /\ UNCHANGED <<server, backup, marker, remoteLock>>
AcceptFails(d) == At(d, "acceptance") /\ Fail(d) /\ Alone

\* A command before the first change breaks off.
BackupFails(d) == At(d, "backup") /\ Fail(d) /\ Alone

\* The rollback script: nothing without good checksums, nothing after its marker, else
\* every part in turn, the image last. The gateway of before is started then, and once it
\* is found healthy the marker is written.
Restored(d) ==
    LET b == backup[d] IN
    [files |-> b.files, env |-> b.files, image |-> b.image, running |-> b.image,
     schema |-> IF "database" \in deploy[d].may THEN b.schema ELSE server.schema,
     writes |-> IF "database" \in deploy[d].may THEN b.writes ELSE server.writes]

AlreadyBack(d) ==
    /\ At(d, "rollback") /\ backup[d].sums /\ d \in marker
    /\ To(d, "release") /\ Alone

BringBack(d) ==
    /\ At(d, "rollback") /\ backup[d].sums /\ d \notin marker
    /\ server' = Restored(d) /\ To(d, "verify")
    /\ UNCHANGED <<backup, marker, remoteLock, approved>>

VerifyBack(d) ==
    /\ At(d, "verify") /\ To(d, "release")
    /\ marker' = marker \cup {d} /\ approved' = server.writes
    /\ UNCHANGED <<server, backup, remoteLock>>

\* How far the script may have come before the gateway runs again.
PartlyBack(d) ==
    LET r == Restored(d)
        files == [Stopped EXCEPT !.files = r.files, !.env = r.env]
        data == [files EXCEPT !.schema = r.schema, !.writes = r.writes] IN
    {server} \cup IF backup[d].sums /\ d \notin marker
                  THEN {Stopped, files, data, [data EXCEPT !.image = r.image]} ELSE {}

\* The connection is lost, once: the script runs again from its beginning, unless its
\* marker was written by then.
RollbackCut(d) ==
    /\ ~deploy[d].cut
    /\ deploy' = [deploy EXCEPT ![d].step = "rollback", ![d].cut = TRUE]
    /\ \/ /\ At(d, "rollback") /\ server' \in PartlyBack(d)
          /\ UNCHANGED <<marker, approved>>
       \/ /\ At(d, "verify") /\ UNCHANGED <<server, marker, approved>>
       \/ /\ At(d, "verify") /\ marker' = marker \cup {d} /\ approved' = server.writes
          /\ UNCHANGED server
    /\ UNCHANGED <<backup, remoteLock>>

\* It fails for good: production is left with a part of what it does, or with a gateway
\* nobody found healthy.
RollbackFails(d) ==
    /\ \/ At(d, "rollback") /\ server' \in PartlyBack(d)
       \/ At(d, "verify") /\ UNCHANGED server
    /\ To(d, "release") /\ UNCHANGED <<backup, marker, remoteLock, approved>>

\* The lock goes back to its owner only, whatever the deployer believes.
\* Faulty variant: the directory is removed.
Removed(d) == remoteLock \in Deployer \cup {"ownerless"}
Owned(d) == remoteLock = d
GiveBack(d) ==
    /\ At(d, "release") /\ To(d, "over")
    /\ remoteLock' \in IF Owned(d) THEN {"free"} ELSE {remoteLock}
    /\ UNCHANGED <<server, backup, marker, approved>>

GiveBackFails(d) == At(d, "release") /\ To(d, "over") /\ Alone

\* A deployer that changed nothing runs the script again, with another token.
TryAgain(d) ==
    /\ At(d, "over") /\ deploy[d].may = {} /\ remoteLock # d /\ Alone
    /\ deploy' = [deploy EXCEPT ![d].step = "preflight", ![d].held = FALSE]

\* An operator looks after production: the directory of a lock is removed by hand
\* once nobody is deploying.
RemoveLock ==
    /\ remoteLock # "free" /\ \A d \in Deployer : At(d, "preflight") \/ At(d, "over")
    /\ remoteLock' = "free" /\ UNCHANGED <<server, backup, marker, deploy, approved>>

\* A request that writes. On trial are a gateway that is not accepted yet, and, once a
\* database may have to be restored, whatever runs until the rollback is verified.
OnTrial ==
    \E d \in Deployer :
        \/ At(d, "acceptance")
        \/ /\ At(d, "rollback") \/ At(d, "verify")
           /\ "database" \in deploy[d].may /\ d \notin marker
Write ==
    /\ Healthy /\ server.writes < MaxWrites /\ server' = [server EXCEPT !.writes = @ + 1]
    /\ approved' = IF OnTrial THEN approved ELSE approved + 1
    /\ UNCHANGED <<backup, marker, remoteLock, deploy>>

ReleaseNext ==
    \/ \E d \in Deployer :
          \/ Preflight(d) \/ \E heard \in BOOLEAN : AcquireLock(d, heard)
          \/ MakeBackup(d) \/ BackupFails(d) \/ Build(d) \/ BuildFails(d)
          \/ Freeze(d) \/ FreezeFails(d)
          \/ \E done \in BOOLEAN : Migrate(d, done) \/ Start(d, done)
          \/ Accept(d) \/ AcceptFails(d)
          \/ AlreadyBack(d) \/ BringBack(d) \/ VerifyBack(d) \/ RollbackCut(d) \/ RollbackFails(d)
          \/ GiveBack(d) \/ GiveBackFails(d) \/ TryAgain(d)
    \/ RemoveLock \/ Write

-----------------------------------------------------------------------------
Versions == Deployer \cup {Before}

ReleaseTypeOK ==
    /\ server.files \in Versions /\ server.env \in Versions /\ server.image \in Versions
    /\ server.running \in Versions \cup {"stopped"} /\ server.schema \in Versions
    /\ server.writes \in 0..MaxWrites /\ marker \subseteq Deployer
    /\ remoteLock \in Deployer \cup {"free", "ownerless"}

Changing(d) ==
    deploy[d].step \in {"build", "freeze", "migrate", "start", "acceptance", "rollback",
                       "verify"}

\* Two deployers never change production at the same time: one that was refused
\* the lock does not take it away from its holder when it cleans up
\* (production-deploy.py:451, production_deploy_lock.py:60).
OneReleaseAtATime ==
    \A d, o \in Deployer : Changing(d) /\ Changing(o) => d = o

\* What a released gateway has answered stays in the database, a rollback included: the
\* copy that is restored is the one made after the gateway stopped
\* (production-deploy.py:302). Excused is what the gateway on trial answers, and what the
\* one before it answers from its start by the rollback until the marker: it serves
\* everybody while it is watched for up to a minute (production_deploy_rollback.py:64),
\* and when the connection breaks in that time the script is run again
\* (production_ssh.py:349), stops it and restores the database over its answers.
AnswersSurvive == server.writes >= approved

\* Two operators never change production at once, and whatever fails on the way, what
\* a released gateway has answered stays.
ReleasesHold == OneReleaseAtATime /\ AnswersSurvive

-----------------------------------------------------------------------------
(* The acceptance of a release, scripts/production-codex-acceptance.py: with a  *)
(* token written to the production database it calls the gateway as its users   *)
(* would, reads a Responses stream and lets the Codex CLI work, then takes the  *)
(* token back over a connection that may break. The deployment script stops the *)
(* whole process when it takes too long.                                        *)
CONSTANTS
    Total,      \* ticks the acceptance may take before it starts no further stage
    Outer,      \* ticks after which the deployment script stops its process
    Lifetime,   \* ticks after which the gateway refuses the token
    CliLimit,   \* ticks the Codex CLI may take
    Silence,    \* ticks without a byte after which the stream is given up
    MaxLines, MaxCliLines  \* bounds

ASSUME TimesAssumption ==
    {Total, Outer, Lifetime, CliLimit, Silence} \subseteq Nat \ {0} /\ Total < Outer

VARIABLES
    tick, working,  \* the time; the facts about production that hold
    wire,           \* the SSH connection, as the stages that use it find it
    tokenRow,       \* "none", "written", or "late": the INSERT still on its way
    refusedFrom,    \* tick from which the gateway refuses the token
    part, partFrom, \* the stage, and when it began
    gained,         \* the facts the stages found to hold
    sse, cli,       \* the stream's decoder and reader; the CLI, its pipes and its reader
    outcome         \* [failed, uncleaned, said]

acceptanceVars == <<tick, working, wire, tokenRow, refusedFrom, part, partFrom, gained,
                    sse, cli, outcome>>

Fact == {"chat", "responses", "metadata", "codex", "schema", "admin", "endpoint", "static"}

NoStream == [heard |-> <<>>, name |-> FALSE, data |-> <<>>, events |-> 0, completed |-> FALSE,
             bad |-> FALSE, last |-> 0]
NoCli == [runs |-> "never", code |-> 0, out |-> FALSE, err |-> FALSE, queue |-> <<>>,
          ended |-> {}, completed |-> FALSE, failure |-> FALSE, wrote |-> <<>>]

AcceptanceInit ==
    /\ working \in {Fact} \cup {Fact \ {f} : f \in Fact}
    /\ tick = 0 /\ wire = "up" /\ tokenRow = "none" /\ refusedFrom = 0
    /\ part = "insert" /\ partFrom = 0 /\ gained = {}
    /\ sse = NoStream /\ cli = NoCli
    /\ outcome = [failed |-> FALSE, uncleaned |-> FALSE, said |-> "nothing"]

Stay == UNCHANGED <<tick, working>>
Enter(p) == part' = p /\ partFrom' = tick
InTime == tick < Total

\* An exception leaves the stage for the cleanup, which runs whatever happened.
Broken == /\ Enter("cleanup") /\ outcome' = [outcome EXCEPT !.failed = TRUE]
          /\ sse' = NoStream

\* The next stage, if the deadline leaves it any time.
Proceed(p) ==
    IF InTime THEN Enter(p) /\ UNCHANGED outcome
    ELSE Enter("cleanup") /\ outcome' = [outcome EXCEPT !.failed = TRUE]

\* ensure_connected: a connection found broken is opened anew, or the stage fails
\* when three attempts did not succeed.
ViaSsh == {"insert", "metadata", "schema", "admin", "cleanup"}
EnsureConnected ==
    /\ part \in ViaSsh /\ wire = "down" /\ Stay
    /\ \/ wire' = "up" /\ UNCHANGED <<part, partFrom, outcome, sse>>
       \/ part # "cleanup" /\ wire' = wire /\ Broken
       \/ /\ part = "cleanup" /\ Enter("over") /\ UNCHANGED <<wire, sse>>
          /\ outcome' = [outcome EXCEPT !.uncleaned = TRUE, !.said = "failed"]
    /\ UNCHANGED <<tokenRow, refusedFrom, gained, cli>>

CutWire ==
    /\ wire = "up" /\ part \in ViaSsh \cup {"again"} /\ wire' = "down"
    /\ UNCHANGED <<tick, working, tokenRow, refusedFrom, part, partFrom, gained, sse, cli,
                   outcome>>

\* The token is written with the end of its life in it. When the connection breaks
\* the statement was run, was not, or is run later by the command left behind.
InsertToken ==
    /\ part = "insert" /\ wire = "up" /\ Stay /\ refusedFrom' = tick + Lifetime
    /\ \/ InTime /\ tokenRow' = "written" /\ Proceed("chat") /\ UNCHANGED <<wire, sse>>
       \/ tokenRow' = tokenRow /\ Broken /\ UNCHANGED wire
       \/ InTime /\ tokenRow' \in {"none", "written", "late"} /\ wire' = "down" /\ Broken
    /\ UNCHANGED <<gained, cli>>

LateInsert ==
    /\ tokenRow = "late" /\ tokenRow' = "written"
    /\ UNCHANGED <<tick, working, wire, refusedFrom, part, partFrom, gained, sse, cli, outcome>>

TokenTaken == tokenRow = "written" /\ tick < refusedFrom

\* A request of the gateway: its status is kept, only a request without an answer fails.
CallChat ==
    /\ part = "chat" /\ Stay
    /\ \/ /\ gained' = gained \cup (IF TokenTaken /\ "chat" \in working THEN {"chat"} ELSE {})
          /\ Proceed("responses") /\ sse' = [NoStream EXCEPT !.last = tick]
       \/ Broken /\ UNCHANGED gained
    /\ UNCHANGED <<wire, tokenRow, refusedFrom, cli>>

-----------------------------------------------------------------------------
\* The stream, line by line: "event" names a completed response, the others are data
\* lines with an object of type completed or of another type, an object without a
\* type, the end mark, and data that is no object; "blank" ends an event.
StreamLine == {"event", "completed", "delta", "untyped", "mark", "noobject", "blank"}

\* SseDecoder._finish: the type of the object, or else the event's name.
Dispatch(s, tells(_, _)) ==
    LET kind == IF Len(s.data) = 1 THEN s.data[1] ELSE "noobject"
        wrong == kind = "noobject" \/ (kind = "untyped" /\ ~s.name)
        clear == [s EXCEPT !.name = FALSE, !.data = <<>>]
    IN IF s.data = <<>> THEN clear
       ELSE [clear EXCEPT !.events = @ + (IF wrong THEN 0 ELSE 1), !.bad = @ \/ wrong,
                          !.completed = @ \/ (~wrong /\ tells(kind, s.name))]

TypeFirst(kind, named) == kind = "completed" \/ (kind \in {"untyped", "mark"} /\ named)
NameFirst(kind, named) == kind = "completed" \/ named
\* Faulty variant: the event's name goes before the type of its object.
DispatchedByName(s) == Dispatch(s, NameFirst)
Dispatched(s) == Dispatch(s, TypeFirst)

FeedLine(s, line) ==
    CASE line = "blank" -> Dispatched(s)
      [] line = "event" -> [s EXCEPT !.name = TRUE]
      [] OTHER -> [s EXCEPT !.data = Append(@, line)]

StreamOffered == TokenTaken /\ "responses" \in working

\* A refused call, or a stream that is none, ends the stage.
RefuseStream ==
    /\ part = "responses" /\ ~StreamOffered /\ sse.heard = <<>> /\ Stay
    /\ \/ Proceed("anthropic") /\ sse' = NoStream
       \/ Broken
    /\ UNCHANGED <<wire, tokenRow, refusedFrom, gained, cli>>

ReadLine(line) ==
    /\ part = "responses" /\ StreamOffered /\ Len(sse.heard) < MaxLines
    /\ LET fed == FeedLine([sse EXCEPT !.heard = Append(@, line), !.last = tick], line)
       IN IF fed.bad THEN Broken ELSE sse' = fed /\ UNCHANGED <<part, partFrom, outcome>>
    /\ Stay /\ UNCHANGED <<wire, tokenRow, refusedFrom, gained, cli>>

\* The end of the stream finishes the last event; without a completed one it failed.
EndStream ==
    /\ part = "responses" /\ (sse.heard # <<>> \/ StreamOffered) /\ Stay
    /\ LET last == Dispatched(sse)
       IN IF last.bad \/ last.events = 0 \/ ~last.completed
          THEN Broken /\ UNCHANGED gained
          ELSE /\ gained' = gained \cup {"responses"} /\ sse' = NoStream /\ Proceed("anthropic")
    /\ UNCHANGED <<wire, tokenRow, refusedFrom, cli>>

\* A read without a byte, or the total time of the stage.
StreamTimesOut ==
    /\ part = "responses" /\ tick - sse.last >= Silence /\ Stay /\ Broken
    /\ UNCHANGED <<wire, tokenRow, refusedFrom, gained, cli>>

\* The Anthropic status is reported only; the two before it are judged after it.
CallAnthropic ==
    /\ part = "anthropic" /\ Stay
    /\ \/ {"chat", "responses"} \subseteq gained /\ Proceed("metadata") /\ UNCHANGED sse
       \/ Broken
    /\ UNCHANGED <<wire, tokenRow, refusedFrom, gained, cli>>

\* The checks over SSH and HTTP that find a fact or fail.
NextStage == [metadata |-> "cli", schema |-> "admin", admin |-> "endpoint",
              endpoint |-> "static"]
ShowFact(f) ==
    /\ part = f /\ (f \in ViaSsh => wire = "up") /\ Stay
    /\ \/ f \in working /\ gained' = gained \cup {f} /\ Proceed(NextStage[f]) /\ UNCHANGED sse
       \/ Broken /\ UNCHANGED gained
    /\ cli' = IF part' # "cli" THEN cli
              ELSE [NoCli EXCEPT !.runs = "running", !.out = TRUE, !.err = TRUE]
    /\ UNCHANGED <<wire, tokenRow, refusedFrom>>

\* The page of the accounts: every request of it asks the deadline again.
ShowPage ==
    /\ part = "static" /\ Stay
    /\ \/ "static" \in working /\ gained' = gained \cup {"static"} /\ Enter("cleanup")
          /\ UNCHANGED <<outcome, sse>>
       \/ Broken /\ UNCHANGED gained
    /\ UNCHANGED <<wire, tokenRow, refusedFrom, cli>>

-----------------------------------------------------------------------------
\* The CLI writes its events while two threads put them in a queue. It exits, and its
\* pipes end, in any order: a program it started may hold them open.
CliEvent == {"completed", "failed", "other", "noobject"}
CliSame == Stay /\ UNCHANGED <<wire, tokenRow, refusedFrom, gained, sse>>
CliWorks(next) ==
    part = "cli" /\ cli' = next /\ CliSame /\ UNCHANGED <<part, partFrom, outcome>>

CliWrites(e) ==
    /\ cli.out /\ cli.runs = "running" /\ Len(cli.wrote) < MaxCliLines
    /\ e = "completed" => "codex" \in working /\ TokenTaken
    /\ CliWorks([cli EXCEPT !.queue = Append(@, e), !.wrote = Append(@, e)])
CliClosesOut == cli.out /\ CliWorks([cli EXCEPT !.out = FALSE, !.queue = Append(@, "outEnd")])
CliClosesErr == cli.err /\ CliWorks([cli EXCEPT !.err = FALSE, !.queue = Append(@, "errEnd")])
CliExits(code) ==
    cli.runs = "running" /\ CliWorks([cli EXCEPT !.runs = "exited", !.code = code])

\* Faulty variant: the loop ends when the process has, whatever is still in the pipes.
CliLoopsWhileAlive == cli.runs = "running"
CliLoops == cli.ended # {"outEnd", "errEnd"} \/ cli.runs = "running"
\* Faulty variant: the CLI is given its full time whatever is left of the whole.
CliTimeFull == CliLimit
CliTime == IF Total - partFrom < CliLimit THEN Total - partFrom ELSE CliLimit
CliLate == tick - partFrom >= CliTime

\* terminate_process_tree: a running process is stopped with everything it started.
CliStopped ==
    /\ Broken
    /\ cli' = [NoCli EXCEPT !.runs = IF cli.runs = "never" THEN "never" ELSE "exited"]
    /\ Stay /\ UNCHANGED <<wire, tokenRow, refusedFrom, gained>>

TakeEvent ==
    /\ part = "cli" /\ CliLoops /\ ~CliLate /\ cli.queue # <<>>
    /\ LET e == Head(cli.queue)
           rest == [cli EXCEPT !.queue = Tail(@)]
       IN \/ /\ e \in {"outEnd", "errEnd"}
             /\ CliWorks([rest EXCEPT !.ended = @ \cup {e}])
          \/ /\ e \in {"completed", "failed", "other"}
             /\ CliWorks([rest EXCEPT !.completed = @ \/ e = "completed",
                                      !.failure = @ \/ e = "failed"])
          \/ e = "noobject" /\ CliStopped
CliTimesOut == part = "cli" /\ CliLoops /\ CliLate /\ CliStopped

CliAccepted == cli.code = 0 /\ ~cli.failure /\ cli.completed
JudgeCli ==
    /\ part = "cli" /\ ~CliLoops /\ Stay
    /\ IF CliAccepted THEN gained' = gained \cup {"codex"} /\ Proceed("schema") /\ UNCHANGED sse
       ELSE Broken /\ UNCHANGED gained
    /\ cli' = [NoCli EXCEPT !.runs = "exited"]
    /\ UNCHANGED <<wire, tokenRow, refusedFrom>>

-----------------------------------------------------------------------------
\* The token is deleted; the deletion is repeated once on a new connection when the
\* first was cut off. The acceptance fails when it could not be confirmed.
Verdict == IF outcome.failed THEN "failed" ELSE "passed"
Deleted == IF tokenRow = "written" THEN "none" ELSE tokenRow
DeleteToken ==
    /\ part \in {"cleanup", "again"} /\ wire = "up" /\ Stay
    /\ \/ /\ tokenRow' = Deleted
          /\ Enter("over") /\ outcome' = [outcome EXCEPT !.said = Verdict] /\ UNCHANGED wire
       \/ /\ wire' = "down" /\ tokenRow' \in {tokenRow, Deleted}
          /\ \/ part = "cleanup" /\ Enter("reconnect") /\ UNCHANGED outcome
             \/ /\ part = "again" /\ Enter("over")
                /\ outcome' = [outcome EXCEPT !.uncleaned = TRUE, !.said = "failed"]
       \/ /\ Enter("over") /\ UNCHANGED <<wire, tokenRow>>
          /\ outcome' = [outcome EXCEPT !.uncleaned = TRUE, !.said = "failed"]
    /\ UNCHANGED <<refusedFrom, gained, sse, cli>>

\* Faulty variant: a deletion cut off is neither repeated nor reported.
ReconnectOnly ==
    /\ part = "reconnect" /\ Stay /\ wire' = "up" /\ Enter("over")
    /\ outcome' = [outcome EXCEPT !.said = Verdict]
    /\ UNCHANGED <<tokenRow, refusedFrom, gained, sse, cli>>
Reconnect ==
    /\ part = "reconnect" /\ Stay
    /\ \/ wire' = "up" /\ Enter("again") /\ UNCHANGED outcome
       \/ /\ wire' = wire /\ Enter("over")
          /\ outcome' = [outcome EXCEPT !.uncleaned = TRUE, !.said = "failed"]
    /\ UNCHANGED <<tokenRow, refusedFrom, gained, sse, cli>>

\* A second connection that breaks is not found before it is used.
AgainCut ==
    /\ part = "again" /\ wire = "down" /\ Enter("over") /\ Stay
    /\ outcome' = [outcome EXCEPT !.uncleaned = TRUE, !.said = "failed"]
    /\ UNCHANGED <<wire, tokenRow, refusedFrom, gained, sse, cli>>

\* The time passes; the CLI and the stream are not waited for beyond their limits.
PassTime ==
    /\ part \notin {"over", "killed"} /\ tick < Outer
    /\ part = "cli" /\ CliLoops => ~CliLate
    /\ part = "responses" => tick - sse.last < Silence
    /\ tick' = tick + 1
    /\ UNCHANGED <<working, wire, tokenRow, refusedFrom, part, partFrom, gained, sse, cli,
                   outcome>>

\* run_codex_acceptance of the deployment: the process is stopped without a cleanup,
\* and the CLI runs in a process group of its own, which this does not reach.
KillAcceptance ==
    /\ tick >= Outer /\ part \notin {"over", "killed"}
    /\ part' = "killed" /\ partFrom' = tick /\ outcome' = [outcome EXCEPT !.said = "failed"]
    /\ UNCHANGED <<tick, working, wire, tokenRow, refusedFrom, gained, sse, cli>>

AcceptanceNext ==
    \/ EnsureConnected \/ CutWire \/ InsertToken \/ LateInsert \/ CallChat \/ RefuseStream
    \/ \E line \in StreamLine : ReadLine(line)
    \/ EndStream \/ StreamTimesOut \/ CallAnthropic \/ ShowPage
    \/ \E f \in DOMAIN NextStage : ShowFact(f)
    \/ \E e \in CliEvent : CliWrites(e)
    \/ \E code \in 0 .. 1 : CliExits(code)
    \/ CliClosesOut \/ CliClosesErr \/ TakeEvent \/ CliTimesOut \/ JudgeCli
    \/ DeleteToken \/ Reconnect \/ AgainCut \/ PassTime \/ KillAcceptance

-----------------------------------------------------------------------------
AcceptanceTypeOK ==
    /\ tick \in 0 .. Outer /\ working \subseteq Fact /\ gained \subseteq Fact
    /\ wire \in {"up", "down"}
    /\ tokenRow \in {"none", "written", "late"} /\ refusedFrom \in Nat /\ partFrom \in Nat
    /\ part \in Fact \cup {"insert", "anthropic", "cli", "cleanup", "reconnect", "again", "over",
                         "killed"}
    /\ sse.events \in Nat /\ Len(sse.heard) <= MaxLines
    /\ cli.runs \in {"never", "running", "exited"} /\ cli.code \in 0 .. 1
    /\ outcome.said \in {"nothing", "passed", "failed"}

\* A release is accepted only when every check found production as it should be and
\* the token is gone for good; a token left behind makes the acceptance fail, and is
\* left only by a cleanup that failed or a statement that was cut off.
AcceptedIsClean ==
    /\ outcome.said = "passed" => gained = Fact /\ working = Fact /\ tokenRow = "none"
    /\ part = "over" /\ tokenRow # "none" => outcome.uncleaned \/ gained = {}

\* However the acceptance ends, stopped from outside too, the CLI has ended with its
\* stage: its limit never reaches beyond the time of the whole.
CliEndsWithStage == part # "cli" => cli.runs # "running"

\* The blocks of a stream: the runs of lines between blank lines.
BlockEnds(h) == {i \in 1 .. Len(h) + 1 : i > Len(h) \/ h[i] = "blank"}
BlockOf(h, i) == {j \in 1 .. i - 1 : \A k \in j .. i - 1 : h[k] # "blank"}
DataOf(h, i) == {j \in BlockOf(h, i) : h[j] # "event"}
TellsCompleted(h, i) ==
    /\ Cardinality(DataOf(h, i)) = 1
    /\ \E j \in DataOf(h, i) :
         \/ h[j] = "completed"
         \/ h[j] \in {"untyped", "mark"} /\ \E k \in BlockOf(h, i) : h[k] = "event"

\* The stream passes only with an event that says the response is completed, by its
\* type or else its name; and the CLI only when nothing it wrote was left unread.
StreamsAreRead ==
    /\ [][part = "responses" /\ "responses" \in gained' =>
            \E i \in BlockEnds(sse.heard) : TellsCompleted(sse.heard, i)]_acceptanceVars
    /\ [][part = "cli" /\ "codex" \in gained' =>
            /\ cli.queue = <<>> /\ ~cli.out
            /\ \E i \in DOMAIN cli.wrote : cli.wrote[i] = "completed"
            /\ \A i \in DOMAIN cli.wrote :
                 cli.wrote[i] \in {"completed", "other"}]_acceptanceVars

-----------------------------------------------------------------------------
(* The first switch of the service catalogue from its JSON file to PostgreSQL  *)
(* and the way back: mg-desktop-one/deploy, release-service-storage.py and     *)
(* rollback-service-storage.py. A store is the number of changes it holds.     *)
CONSTANT MaxChanges    \* bound on changes of the catalogue

VARIABLES
    json,       \* changes in shared/desktop/services/registry.json
    database,   \* [rows, imported, up]: the changes it holds and held when imported
    desktop,    \* store the running program writes to, or "stopped"
    current,    \* program the link names
    script,     \* command the switch or the way back is at
    changes     \* changes the desktop has acknowledged for good

switchVars == <<json, database, desktop, current, script, changes>>

SwitchInit ==
    /\ json = 1 /\ changes = 1 /\ database = [rows |-> 0, imported |-> 0, up |-> TRUE]
    /\ desktop = "json" /\ current = "json" /\ script = "idle"

\* One change of the catalogue; with the database away the new program refuses it.
Change ==
    /\ changes < MaxChanges
    /\ \/ desktop = "json" /\ json' = json + 1 /\ UNCHANGED database
       \/ desktop = "database" /\ database.up /\ database' = [database EXCEPT !.rows = @ + 1] /\ UNCHANGED json
    \* What the old program takes in before the way back is complete is on trial.
    /\ changes' = IF script = "returning" THEN changes ELSE changes + 1
    /\ json < MaxChanges /\ database.rows < MaxChanges
    /\ UNCHANGED <<desktop, current, script>>

DatabaseFails ==
    /\ database' = [database EXCEPT !.up = ~@]
    /\ UNCHANGED <<json, desktop, current, script, changes>>

\* The release is prepared beside the running one; only then the desktop stops.
StopForSwitch ==
    /\ script = "idle" /\ current = "json" /\ desktop = "json" /\ database.up
    /\ desktop' = "stopped" /\ script' = "importing"
    /\ UNCHANGED <<json, database, current, changes>>

\* import into an empty database, or the same file once more, and verify.
Importable == database.up /\ (database.imported = 0 \/ (database.imported = json /\ database.rows = json))
Imported == [database EXCEPT !.rows = json, !.imported = json]
Import ==
    /\ script = "importing" /\ Importable
    /\ database' = Imported /\ script' = "starting"
    /\ UNCHANGED <<json, desktop, current, changes>>

ImportFails ==
    /\ script = "importing"
    /\ desktop' = "json" /\ script' = "idle"
    /\ database' \in {database} \cup (IF Importable THEN {Imported} ELSE {})
    /\ UNCHANGED <<json, current, changes>>

StartNew ==
    /\ script = "starting" /\ desktop = "stopped" /\ desktop' = "database"
    /\ UNCHANGED <<json, database, current, script, changes>>

SetLink ==
    /\ script = "starting" /\ desktop = "database"
    /\ current' = "database" /\ script' = "idle"
    /\ UNCHANGED <<json, database, desktop, changes>>

\* The new program, up or not, is given up and the database exported.
GiveUpNew ==
    /\ script = "starting" /\ desktop' = "stopped" /\ script' = "exporting"
    /\ UNCHANGED <<json, database, current, changes>>

\* Faulty variant: the file saved before the switch is put back.
ExportSaved == json
Exported == database.rows

ExportBack ==
    /\ script = "exporting" /\ database.up
    /\ json' = Exported /\ desktop' = "json" /\ script' = "idle"
    /\ UNCHANGED <<database, current, changes>>

\* Nothing to go back with: the new program stays, on its snapshot, and the link
\* still names the old one.
ExportFails ==
    /\ script = "exporting" /\ desktop' = "database" /\ script' = "idle"
    /\ UNCHANGED <<json, database, current, changes>>

\* The way back by hand, of the release the link names.
StopForReturn ==
    /\ script = "idle" /\ current = "database" /\ desktop = "database"
    /\ desktop' = "stopped" /\ script' = "return"
    /\ UNCHANGED <<json, database, current, changes>>

Return ==
    /\ script = "return" /\ database.up
    /\ json' = Exported /\ desktop' = "json" /\ script' = "returning"
    /\ UNCHANGED <<database, current, changes>>

Returned ==
    /\ script = "returning" /\ current' = "json" /\ script' = "idle" /\ changes' = json
    /\ UNCHANGED <<json, database, desktop>>

ReturnFails ==
    /\ script \in {"return", "returning"} /\ desktop' = "database" /\ script' = "idle"
    /\ UNCHANGED <<json, database, current, changes>>

SwitchNext ==
    \/ Change \/ DatabaseFails \/ StopForSwitch \/ Import \/ ImportFails \/ StartNew \/ SetLink
    \/ GiveUpNew \/ ExportBack \/ ExportFails \/ StopForReturn \/ Return \/ Returned \/ ReturnFails

-----------------------------------------------------------------------------
SwitchTypeOK ==
    /\ json \in 1..MaxChanges /\ database.rows \in 0..MaxChanges
    /\ desktop \in {"json", "database", "stopped"} /\ current \in {"json", "database"}

\* The store the desktop runs on holds every change it has acknowledged, whichever
\* command failed: a return brings the database's latest rows, never the file of
\* the time before the switch (release-service-storage.py:63).
NothingForgotten ==
    /\ desktop = "json" => json >= changes
    /\ desktop = "database" => database.rows >= changes

-----------------------------------------------------------------------------
ServicesSpec == ServicesInit /\ [][ServicesNext]_servicesVars
ReleaseSpec == ReleaseInit /\ [][ReleaseNext]_releaseVars
AcceptanceSpec == AcceptanceInit /\ [][AcceptanceNext]_acceptanceVars
SwitchSpec == SwitchInit /\ [][SwitchNext]_switchVars

DeploymentSpec == ServicesSpec /\ ReleaseSpec /\ AcceptanceSpec /\ SwitchSpec

\* Whatever fails while production is changed: the release in front, its answers and the
\* changes it took belong together, calls go where their version is deployed, and what an
\* acceptance passed was clean and read to its end.
DeploymentsHold ==
    /\ [](ServicesHold /\ ReleasesHold /\ NothingForgotten
            /\ AcceptedIsClean /\ CliEndsWithStage)
    /\ StreamsAreRead
=============================================================================
