--------------------------- MODULE PlatformStorage ---------------------------
(* What the platform kernel keeps in files and in its database: the catalogue *)
(* of services behind its snapshot, and the files of one user.              *)
EXTENDS Naturals, FiniteSets

-----------------------------------------------------------------------------
(***************************************************************************)
(* SnapshotServiceRegistryStorage between the registry of an instance and  *)
(* the database: a copy in memory that is good for a second, a copy on     *)
(* disk for a restart without the database, and ServiceRegistry.state, the *)
(* copy calls are answered from.  A catalogue is the number of the commit  *)
(* that wrote it, since each leaves another audit trail.  Every instance   *)
(* has a directory of its own.                                             *)
(***************************************************************************)
CONSTANTS
    Instance,
    MaxCommit  \* bound on the commits explored

ASSUME SnapshotAssumption == MaxCommit \in Nat \ {0}

None == 0
Catalogue == 1..MaxCommit

VARIABLES
    committed, \* what the database holds
    state,     \* ServiceRegistry.state, None while the instance is down
    storage,   \* the fields of the storage object
    disk,      \* the snapshot file, None before the first
    confirmed  \* history: newest catalogue the database confirmed to the instance

SnapshotVars == <<committed, state, storage, disk, confirmed>>

Fresh == [current |-> None, lastDigest |-> None, recent |-> FALSE, stale |-> FALSE]

SnapshotTypeOK ==
    /\ committed \in Catalogue
    /\ state \in [Instance -> Catalogue \cup {None}]
    /\ storage \in [Instance -> [current : Catalogue \cup {None}, recent : BOOLEAN,
                                 lastDigest : Catalogue \cup {None}, stale : BOOLEAN]]
    /\ disk \in [Instance -> Catalogue \cup {None}]
    /\ confirmed \in [Instance -> Catalogue \cup {None}]

SnapshotInit ==
    /\ committed = 1
    /\ state = [i \in Instance |-> None]
    /\ storage = [i \in Instance |-> Fresh]
    /\ disk = [i \in Instance |-> None]
    /\ confirmed = [i \in Instance |-> None]

-----------------------------------------------------------------------------
Running(i) == state[i] # None

\* Faulty variant: the digest is kept although the file was not written.
RememberedUnsaved(old, value, saved) ==
    [current |-> value, recent |-> TRUE, stale |-> FALSE, lastDigest |-> value]

\* The storage object with value in memory; saved: the file is as new.
Remembered(old, value, saved) ==
    [current |-> value, recent |-> TRUE, stale |-> FALSE,
     lastDigest |-> IF saved THEN value ELSE old.lastDigest]

\* The file is replaced by an atomic move, written only when the digest changed;
\* a failure is swallowed.
Remember(i, value) ==
    LET known == storage[i].lastDigest = value
    IN  \E written \in {FALSE} \cup (IF known THEN {} ELSE {TRUE}) :
            /\ disk' = IF written THEN [disk EXCEPT ![i] = value] ELSE disk
            /\ storage' = [storage EXCEPT ![i] = Remembered(@, value, known \/ written)]
            /\ confirmed' = [confirmed EXCEPT ![i] = value]

\* Faulty variant: the file goes before the memory.
FallbackToDisk(i) ==
    IF disk[i] # None THEN disk[i] ELSE storage[i].current

\* After a failed read: memory, then the file, whose digest counts as written.
Fallback(i) ==
    IF storage[i].current # None THEN storage[i].current ELSE disk[i]

\* Faulty variant: the answer is not marked as cached.
AfterFailedReadUntold(old, value) ==
    [old EXCEPT !.current = value, !.recent = TRUE]

AfterFailedRead(old, value) ==
    [current |-> value, recent |-> TRUE, stale |-> TRUE,
     lastDigest |-> IF old.current = None THEN value ELSE old.lastDigest]

-----------------------------------------------------------------------------
(* refresh(allowCache) and initialize: the registry takes what read gives. *)

ServeRecent(i) ==
    /\ storage[i].recent /\ storage[i].current # None
    /\ state' = [state EXCEPT ![i] = storage[i].current]
    /\ UNCHANGED <<committed, storage, disk, confirmed>>

ReadDatabase(i) ==
    /\ Remember(i, committed)
    /\ state' = [state EXCEPT ![i] = committed]
    /\ UNCHANGED committed

\* The database is away; calls go on with the last copy.
ReadCached(i) ==
    /\ Fallback(i) # None
    /\ storage[i].current = None \/ ~storage[i].recent
    /\ storage' = [storage EXCEPT ![i] = AfterFailedRead(@, Fallback(i))]
    /\ state' = [state EXCEPT ![i] = Fallback(i)]
    /\ UNCHANGED <<committed, disk, confirmed>>

\* The service center reads with allowCache = false and is refused.
ReadRefused(i) ==
    /\ Running(i)
    /\ storage' = [storage EXCEPT ![i].stale = TRUE, ![i].recent = TRUE]
    /\ UNCHANGED <<committed, state, disk, confirmed>>

\* A second passes since the last attempt.
Age(i) ==
    /\ storage[i].recent
    /\ storage' = [storage EXCEPT ![i].recent = FALSE]
    /\ UNCHANGED <<committed, state, disk, confirmed>>

-----------------------------------------------------------------------------
(* Writes: change in the registry around transaction in the storage.       *)

Commit(i) ==
    /\ Running(i)
    /\ committed < MaxCommit
    /\ committed' = committed + 1
    /\ Remember(i, committed')
    /\ state' = [state EXCEPT ![i] = committed']

\* 503, and nobody knows whether it was committed: the registry goes back to
\* the state before.
CommitUnanswered(i, kept) ==
    /\ Running(i)
    /\ committed < MaxCommit
    /\ committed' = IF kept THEN committed + 1 ELSE committed
    /\ storage' = [storage EXCEPT ![i].stale = TRUE, ![i].recent = TRUE]
    /\ UNCHANGED <<state, disk, confirmed>>

\* The process stops; the file stays.
Stop(i) ==
    /\ Running(i)
    /\ state' = [state EXCEPT ![i] = None]
    /\ storage' = [storage EXCEPT ![i] = Fresh]
    /\ UNCHANGED <<committed, disk, confirmed>>

SnapshotNext ==
    \E i \in Instance :
        \/ ServeRecent(i)
        \/ ReadDatabase(i)
        \/ ReadCached(i)
        \/ ReadRefused(i)
        \/ Age(i)
        \/ Commit(i)
        \/ \E kept \in BOOLEAN : CommitUnanswered(i, kept)
        \/ Stop(i)

SnapshotSpec == SnapshotInit /\ [][SnapshotNext]_SnapshotVars

-----------------------------------------------------------------------------
\* While an instance runs, its calls are answered from catalogues that only get
\* newer, through lost answers, outages and the fall back to the file; a write
\* it acknowledged is never forgotten.
NeverGoesBack ==
    [][\A i \in Instance :
        Running(i) /\ state'[i] # None => state'[i] >= state[i]]_SnapshotVars

\* An instance never answers from a catalogue the database did not confirm, and
\* falls behind the one it was confirmed only by a restart without the database
\* after a failed write of the file: then the file is older, and the answers
\* are marked as cached.
ServesConfirmed ==
    \A i \in Instance :
        Running(i) /\ state[i] # confirmed[i] =>
            /\ state[i] = disk[i] /\ disk[i] < confirmed[i]
            /\ storage[i].stale

\* A failed write of the file is never taken for done: as long as the file is not
\* what is in memory, its digest differs, and the next answer writes it again.
FailedWriteIsRepeated ==
    \A i \in Instance :
        /\ storage[i].lastDigest # None => storage[i].lastDigest = disk[i]
        /\ storage[i].current # None /\ storage[i].current # disk[i] =>
              storage[i].lastDigest # storage[i].current

\* Outages, lost answers and failed writes of the file included, an instance answers
\* from catalogues that were confirmed and never returns to an older one while it runs.
SnapshotsHold == []ServesConfirmed /\ []FailedWriteIsRepeated /\ NeverGoesBack

-----------------------------------------------------------------------------
(***************************************************************************)
(* The files UserState keeps for one user: wallpaper image and its         *)
(* description, preferences, external applications.  Every operation holds *)
(* the user's lock, so operations do not overlap; but one that writes      *)
(* several files can be cut between them by a crash or a full disk, and    *)
(* browser tabs send back preferences they read long ago.                  *)
(***************************************************************************)
CONSTANTS
    Image,     \* wallpapers; the version of one is the digest of its bytes
    External,  \* external applications
    MaxApplications,
    Tab

ASSUME UserStateAssumption == MaxApplications \in Nat \ {0}

NoImage == "none"

VARIABLES
    image,        \* wallpaper/<user>.img
    info,         \* version in wallpaper/<user>.json
    preferences,  \* preferences/<user>.json
    applications, \* applications/<user>.json: the external ones, and whether enabled
    tab,          \* preferences as shown by each tab
    cut           \* history: the last wallpaper operation was cut

UserStateVars == <<image, info, preferences, applications, tab, cut>>

Choice == {"dawn", "custom"}
Preferences == [wallpaper : Choice, version : Image \cup {NoImage}, pinned : SUBSET External]
NoPreferences == [wallpaper |-> "dawn", version |-> NoImage, pinned |-> {}]

UserStateTypeOK ==
    /\ image \in Image \cup {NoImage}
    /\ info \in Image \cup {NoImage}
    /\ preferences \in Preferences
    /\ \E added \in SUBSET External : applications \in [added -> BOOLEAN]
    /\ tab \in [Tab -> Preferences]
    /\ cut \in BOOLEAN

UserStateInit ==
    /\ image = NoImage /\ info = NoImage
    /\ preferences = NoPreferences
    /\ applications = [e \in {} |-> TRUE]
    /\ tab = [t \in Tab |-> NoPreferences]
    /\ cut = FALSE

-----------------------------------------------------------------------------
\* Faulty variant: a tab's choice of the custom wallpaper is believed.
WallpaperChoiceAsSent(choice, version) == choice

\* "custom" only while there is a wallpaper.
WallpaperChoice(choice, version) ==
    IF choice = "custom" /\ version # NoImage THEN "custom" ELSE "dawn"

\* What savePreferences writes for a request, with the files as they are.
Saved(request, version) ==
    [wallpaper |-> WallpaperChoice(request.wallpaper, version), version |-> version,
     pinned |-> request.pinned \cap DOMAIN applications]

\* Image, description and preferences are replaced one after the other; files
\* of them got written.
SaveWallpaper(new, files) ==
    /\ files \in 1..3
    /\ image' = new
    /\ info' = IF files >= 2 THEN new ELSE info
    /\ preferences' = IF files = 3
                      THEN Saved([preferences EXCEPT !.wallpaper = "custom"], new)
                      ELSE preferences
    /\ cut' = (files < 3)
    /\ UNCHANGED <<applications, tab>>

RemoveWallpaper(files) ==
    /\ files \in 1..3
    /\ image' = NoImage
    /\ info' = IF files >= 2 THEN NoImage ELSE info
    /\ preferences' = IF files = 3 /\ preferences.wallpaper = "custom"
                      THEN Saved([preferences EXCEPT !.wallpaper = "dawn"], NoImage)
                      ELSE preferences
    /\ cut' = (files < 3)
    /\ UNCHANGED <<applications, tab>>

LoadTab(t) ==
    /\ tab' = [tab EXCEPT ![t] = preferences]
    /\ UNCHANGED <<image, info, preferences, applications, cut>>

\* A tab sends all it shows, with a change of the user's.
SavePreferences(t, wallpaper, pinned) ==
    /\ preferences' = Saved([tab[t] EXCEPT !.wallpaper = wallpaper, !.pinned = pinned], info)
    /\ tab' = [tab EXCEPT ![t] = preferences']
    /\ UNCHANGED <<image, info, applications, cut>>

-----------------------------------------------------------------------------
(* External applications.                                                  *)

SaveApplication(e) ==
    /\ e \in DOMAIN applications \/ Cardinality(DOMAIN applications) < MaxApplications
    /\ applications' = [x \in DOMAIN applications \cup {e} |->
           IF x \in DOMAIN applications THEN applications[x] ELSE TRUE]
    /\ UNCHANGED <<image, info, preferences, tab, cut>>

SetApplicationEnabled(e, enabled) ==
    /\ e \in DOMAIN applications
    /\ applications' = [applications EXCEPT ![e] = enabled]
    /\ UNCHANGED <<image, info, preferences, tab, cut>>

RemoveApplication(e) ==
    /\ e \in DOMAIN applications
    /\ applications' = [x \in DOMAIN applications \ {e} |-> applications[x]]
    /\ UNCHANGED <<image, info, preferences, tab, cut>>

UserStateNext ==
    \/ \E files \in 1..3 : RemoveWallpaper(files) \/ \E new \in Image : SaveWallpaper(new, files)
    \/ \E t \in Tab :
          \/ LoadTab(t)
          \/ \E wallpaper \in Choice, pinned \in SUBSET External :
                SavePreferences(t, wallpaper, pinned)
    \/ \E e \in External :
          \/ SaveApplication(e)
          \/ RemoveApplication(e)
          \/ \E enabled \in BOOLEAN : SetApplicationEnabled(e, enabled)

UserStateSpec == UserStateInit /\ [][UserStateNext]_UserStateVars

-----------------------------------------------------------------------------
\* The preferences name the custom wallpaper only with the version of the image
\* that is there, whatever old tabs send back; an operation that was cut may
\* break this, and the next complete upload or removal repairs it.
CustomIsThere ==
    ~cut /\ preferences.wallpaper = "custom" =>
        info # NoImage /\ image = info /\ preferences.version = info

\* The registry in front of a database that comes and goes, and the files of a user.
StorageSpec == SnapshotSpec /\ UserStateSpec

\* What the platform serves was stored and belongs together, through outages and cuts.
StorageHolds == SnapshotsHold /\ []CustomIsThere
=============================================================================
