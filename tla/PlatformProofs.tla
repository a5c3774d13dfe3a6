--------------------------- MODULE PlatformProofs ---------------------------
(***************************************************************************)
(* Proofs about the platform kernel beside the service registry and about  *)
(* the identity centre: what an instance answers from and keeps for its    *)
(* users, where it sends calls, how applications are taken in, whom        *)
(* sessions and tokens let in, and how releases reach production.          *)
(***************************************************************************)
EXTENDS PlatformStorage, ServiceGateway, ApplicationOnboarding, Identity,
        ProductionRelease, FiniteSetTheorems, TLAPS

-----------------------------------------------------------------------------
(***************************************************************************)
(* The snapshots of the service catalogue                                  *)
(***************************************************************************)
\* The registry has taken over what the storage holds; what is on disk was confirmed, and
\* nothing is confirmed that was not committed.
CopiesAreOlder ==
    \A i \in Instance :
        /\ state[i] = storage[i].current
        /\ disk[i] <= confirmed[i] /\ confirmed[i] <= committed

SnapshotInv ==
    SnapshotTypeOK /\ CopiesAreOlder /\ ServesConfirmed /\ FailedWriteIsRepeated

\* What a successful read or write leaves, for the instance and for the others.
LEMMA Remembering ==
    ASSUME NEW i \in Instance, NEW value \in Catalogue, SnapshotInv, Remember(i, value),
           committed' \in Catalogue, committed <= value, value = committed',
           state' = [state EXCEPT ![i] = value]
    PROVE  SnapshotInv' /\ \A j \in Instance : state'[j] # None => state'[j] >= state[j]
<1> USE SnapshotAssumption DEF None, Catalogue
<1>1. PICK written \in BOOLEAN :
         /\ disk' = IF written THEN [disk EXCEPT ![i] = value] ELSE disk
         /\ storage' = [storage EXCEPT
              ![i] = Remembered(@, value, storage[i].lastDigest = value \/ written)]
         /\ confirmed' = [confirmed EXCEPT ![i] = value]
  BY DEF Remember
<1>2. PICK kept : kept = Remembered(storage[i], value, storage[i].lastDigest = value \/ written)
  OBVIOUS
<1>3. /\ kept \in [current : Catalogue \cup {None}, recent : BOOLEAN,
                   lastDigest : Catalogue \cup {None}, stale : BOOLEAN]
      /\ kept.current = value /\ ~kept.stale
      /\ kept.lastDigest = IF storage[i].lastDigest = value \/ written
                           THEN value ELSE storage[i].lastDigest
  BY <1>2 DEF Remembered, SnapshotInv, SnapshotTypeOK
<1>4. storage' = [storage EXCEPT ![i] = kept]
  BY <1>1, <1>2
<1>5. SnapshotTypeOK'
  BY <1>1, <1>3, <1>4 DEF SnapshotInv, SnapshotTypeOK
<1>6. \A j \in Instance :
         /\ state'[j] = storage'[j].current
         /\ disk'[j] <= confirmed'[j] /\ confirmed'[j] <= committed'
  BY <1>1, <1>3, <1>4 DEF SnapshotInv, SnapshotTypeOK, CopiesAreOlder
<1>7. ServesConfirmed'
  BY <1>1, <1>3, <1>4 DEF SnapshotInv, SnapshotTypeOK, ServesConfirmed, Running
<1>8. FailedWriteIsRepeated'
  BY <1>1, <1>3, <1>4 DEF SnapshotInv, SnapshotTypeOK, FailedWriteIsRepeated
<1>9. \A j \in Instance : state'[j] # None => state'[j] >= state[j]
  <2>1. state[i] <= committed
    BY DEF SnapshotInv, CopiesAreOlder, ServesConfirmed, SnapshotTypeOK, Running
  <2> QED
    BY <2>1 DEF SnapshotInv, SnapshotTypeOK
<1> QED
  BY <1>5, <1>6, <1>7, <1>8, <1>9 DEF SnapshotInv, CopiesAreOlder

LEMMA SnapshotStep ==
    ASSUME SnapshotInv, [SnapshotNext]_SnapshotVars
    PROVE  /\ SnapshotInv'
           /\ \A i \in Instance : Running(i) /\ state'[i] # None => state'[i] >= state[i]
<1> USE SnapshotAssumption DEF None, Catalogue
<1> DEFINE Forward == \A j \in Instance : state'[j] # None => state'[j] >= state[j]
<1>1. ASSUME NEW i \in Instance, ServeRecent(i) PROVE SnapshotInv' /\ Forward
  <2>1. state' = state
    BY <1>1 DEF ServeRecent, SnapshotInv, SnapshotTypeOK, CopiesAreOlder
  <2> QED
    BY <1>1, <2>1 DEF ServeRecent, SnapshotInv, SnapshotTypeOK, CopiesAreOlder,
       ServesConfirmed, FailedWriteIsRepeated, Running
<1>2. ASSUME NEW i \in Instance, ReadDatabase(i) PROVE SnapshotInv' /\ Forward
  <2>1. committed \in Catalogue /\ committed' = committed
    BY <1>2 DEF ReadDatabase, SnapshotInv, SnapshotTypeOK
  <2>2. PICK v : v = committed
    OBVIOUS
  <2>3. Remember(i, v) /\ state' = [state EXCEPT ![i] = v]
    BY <1>2, <2>2 DEF ReadDatabase
  <2>4. v \in Catalogue /\ committed <= v /\ v = committed' /\ committed' \in Catalogue
    BY <2>1, <2>2
  <2> QED
    BY <2>3, <2>4, Remembering
<1>3. ASSUME NEW i \in Instance, ReadCached(i) PROVE SnapshotInv' /\ Forward
  <2>1. PICK v : v = Fallback(i)
    OBVIOUS
  <2>2. PICK kept : kept = AfterFailedRead(storage[i], v)
    OBVIOUS
  <2>3. v \in Catalogue /\ v # None
    BY <1>3, <2>1 DEF ReadCached, Fallback, SnapshotInv, SnapshotTypeOK
  <2>4. /\ storage' = [storage EXCEPT ![i] = kept] /\ state' = [state EXCEPT ![i] = v]
        /\ UNCHANGED <<committed, disk, confirmed>>
    BY <1>3, <2>1, <2>2 DEF ReadCached
  <2>5. /\ kept \in [current : Catalogue \cup {None}, recent : BOOLEAN,
                     lastDigest : Catalogue \cup {None}, stale : BOOLEAN]
        /\ kept.current = v /\ kept.stale
        /\ kept.lastDigest = IF storage[i].current = None THEN v ELSE storage[i].lastDigest
    BY <2>2, <2>3 DEF AfterFailedRead, SnapshotInv, SnapshotTypeOK
  <2>6. /\ state[i] # None => v = state[i]
        /\ state[i] = None => v = disk[i]
        /\ state[i] = storage[i].current
    BY <2>1 DEF Fallback, SnapshotInv, CopiesAreOlder
  <2>7. SnapshotTypeOK'
    BY <2>3, <2>4, <2>5 DEF SnapshotInv, SnapshotTypeOK
  <2>8. CopiesAreOlder'
    BY <2>4, <2>5 DEF SnapshotInv, SnapshotTypeOK, CopiesAreOlder
  <2>9. ServesConfirmed'
    BY <2>3, <2>4, <2>5, <2>6 DEF SnapshotInv, SnapshotTypeOK, CopiesAreOlder,
       ServesConfirmed, Running
  <2>10. FailedWriteIsRepeated'
    BY <2>3, <2>4, <2>5, <2>6 DEF SnapshotInv, SnapshotTypeOK, FailedWriteIsRepeated
  <2> QED
    BY <2>4, <2>6, <2>7, <2>8, <2>9, <2>10 DEF SnapshotInv, SnapshotTypeOK
<1>4. ASSUME NEW i \in Instance,
             ReadRefused(i) \/ Age(i) \/ \E kept \in BOOLEAN : CommitUnanswered(i, kept)
      PROVE  SnapshotInv' /\ Forward
  <2>1. PICK recent \in BOOLEAN, stale \in BOOLEAN :
           /\ storage' = [storage EXCEPT ![i].stale = stale, ![i].recent = recent]
           /\ storage[i].stale => stale
    <3>1. CASE ReadRefused(i) \/ \E kept \in BOOLEAN : CommitUnanswered(i, kept)
      BY <3>1 DEF ReadRefused, CommitUnanswered
    <3>2. CASE Age(i)
      <4>1. storage[i] = [storage[i] EXCEPT !.stale = storage[i].stale]
        BY DEF SnapshotInv, SnapshotTypeOK
      <4>2. storage' = [storage EXCEPT ![i].stale = storage[i].stale, ![i].recent = FALSE]
        BY <3>2, <4>1 DEF Age, SnapshotInv, SnapshotTypeOK
      <4> QED
        BY <4>2 DEF SnapshotInv, SnapshotTypeOK
    <3> QED
      BY <1>4, <3>1, <3>2
  <2>2. /\ UNCHANGED <<state, disk, confirmed>>
        /\ committed' \in Catalogue /\ committed <= committed'
    BY <1>4 DEF ReadRefused, Age, CommitUnanswered, SnapshotInv, SnapshotTypeOK
  <2>3. \A j \in Instance :
           /\ storage'[j] \in [current : Catalogue \cup {None}, recent : BOOLEAN,
                               lastDigest : Catalogue \cup {None}, stale : BOOLEAN]
           /\ storage'[j].current = storage[j].current
           /\ storage'[j].lastDigest = storage[j].lastDigest
           /\ storage[j].stale => storage'[j].stale
    BY <2>1 DEF SnapshotInv, SnapshotTypeOK
  <2>4. SnapshotTypeOK'
    BY <2>1, <2>2, <2>3 DEF SnapshotInv, SnapshotTypeOK
  <2>5. CopiesAreOlder' /\ Forward
    BY <2>2, <2>3 DEF SnapshotInv, SnapshotTypeOK, CopiesAreOlder
  <2>6. ServesConfirmed' /\ FailedWriteIsRepeated'
    BY <2>2, <2>3 DEF SnapshotInv, ServesConfirmed, FailedWriteIsRepeated, Running
  <2> QED
    BY <2>4, <2>5, <2>6 DEF SnapshotInv
<1>5. ASSUME NEW i \in Instance, Commit(i) PROVE SnapshotInv' /\ Forward
  <2>1. committed' \in Catalogue /\ committed <= committed'
    BY <1>5 DEF Commit, SnapshotInv, SnapshotTypeOK
  <2>2. Remember(i, committed') /\ state' = [state EXCEPT ![i] = committed']
    BY <1>5 DEF Commit
  <2> QED
    BY <2>1, <2>2, Remembering
<1>6. ASSUME NEW i \in Instance, Stop(i) PROVE SnapshotInv' /\ Forward
  BY <1>6 DEF Stop, Fresh, SnapshotInv, SnapshotTypeOK, CopiesAreOlder, ServesConfirmed,
     FailedWriteIsRepeated, Running
<1>7. CASE UNCHANGED SnapshotVars
  BY <1>7 DEF SnapshotVars, SnapshotInv, SnapshotTypeOK, CopiesAreOlder, ServesConfirmed,
     FailedWriteIsRepeated, Running
<1>8. CASE SnapshotNext
  BY <1>1, <1>2, <1>3, <1>4, <1>5, <1>6, <1>8 DEF SnapshotNext
<1> QED
  BY <1>7, <1>8

\* Outages, lost answers and failed writes of the file included, an instance answers from
\* catalogues that were confirmed and never returns to an older one while it runs
\* (SnapshotServiceRegistryStorage.java).
THEOREM SnapshotsAreKept == SnapshotSpec => SnapshotsHold
<1>1. SnapshotInit => SnapshotInv
  BY SnapshotAssumption DEF SnapshotInit, SnapshotInv, SnapshotTypeOK, CopiesAreOlder,
     ServesConfirmed, FailedWriteIsRepeated, Running, Fresh, None, Catalogue
<1>2. SnapshotInv /\ [SnapshotNext]_SnapshotVars => SnapshotInv'
  BY SnapshotStep
<1>3. SnapshotInv /\ [SnapshotNext]_SnapshotVars =>
         [\A i \in Instance :
             Running(i) /\ state'[i] # None => state'[i] >= state[i]]_SnapshotVars
  BY SnapshotStep
<1>4. SnapshotInv => ServesConfirmed /\ FailedWriteIsRepeated
  BY DEF SnapshotInv
<1> QED
  BY <1>1, <1>2, <1>3, <1>4, PTL DEF SnapshotSpec, SnapshotsHold, NeverGoesBack

-----------------------------------------------------------------------------
(***************************************************************************)
(* The files of one user                                                   *)
(***************************************************************************)
\* Between operations that were not cut image and description belong together, whatever
\* the preferences name.
UserStateInv ==
    /\ UserStateTypeOK
    /\ ~cut => image = info
    /\ CustomIsThere

LEMMA SavedAsThere ==
    ASSUME NEW request \in Preferences, NEW version \in Image \cup {NoImage}
    PROVE  /\ Saved(request, version) \in Preferences
           /\ Saved(request, version).wallpaper = "custom" =>
                 version # NoImage /\ Saved(request, version).version = version
BY DEF Saved, WallpaperChoice, Preferences, Choice

LEMMA UserStateStep ==
    ASSUME UserStateInv, [UserStateNext]_UserStateVars PROVE UserStateInv'
<1>1. ASSUME NEW files \in 1..3, NEW new \in Image, SaveWallpaper(new, files)
      PROVE  UserStateInv'
  <2>1. PICK asked : asked = [preferences EXCEPT !.wallpaper = "custom"]
    OBVIOUS
  <2>2. asked \in Preferences
    BY <2>1 DEF UserStateInv, UserStateTypeOK, Preferences, Choice
  <2>3. PICK stored : stored = Saved(asked, new)
    OBVIOUS
  <2>4. stored \in Preferences /\ (stored.wallpaper = "custom" =>
           new # NoImage /\ stored.version = new)
    BY <2>2, <2>3, SavedAsThere
  <2>5. /\ image' = new /\ info' = IF files >= 2 THEN new ELSE info
        /\ preferences' = IF files = 3 THEN stored ELSE preferences
        /\ cut' = (files < 3) /\ UNCHANGED <<applications, tab>>
    BY <1>1, <2>1, <2>3 DEF SaveWallpaper
  <2>6. UserStateTypeOK'
    BY <2>4, <2>5 DEF UserStateInv, UserStateTypeOK
  <2>7. ~cut' => files = 3
    <3>1. CASE files < 3
      <4>1. cut' = (files < 3)
        BY <2>5
      <4> QED
        BY <3>1, <4>1, Zenon
    <3>2. files < 3 \/ files = 3
      OBVIOUS
    <3> QED
      BY <3>1, <3>2
  <2> QED
    BY <2>4, <2>5, <2>6, <2>7 DEF UserStateInv, CustomIsThere
<1>2. ASSUME NEW files \in 1..3, RemoveWallpaper(files) PROVE UserStateInv'
  <2>1. PICK asked : asked = [preferences EXCEPT !.wallpaper = "dawn"]
    OBVIOUS
  <2>2. asked \in Preferences
    BY <2>1 DEF UserStateInv, UserStateTypeOK, Preferences, Choice
  <2>3. PICK stored : stored = Saved(asked, NoImage)
    OBVIOUS
  <2>4. stored \in Preferences /\ stored.wallpaper # "custom"
    BY <2>2, <2>3, SavedAsThere
  <2>5. /\ image' = NoImage /\ info' = IF files >= 2 THEN NoImage ELSE info
        /\ preferences' = IF files = 3 /\ preferences.wallpaper = "custom"
                          THEN stored ELSE preferences
        /\ cut' = (files < 3) /\ UNCHANGED <<applications, tab>>
    BY <1>2, <2>1, <2>3 DEF RemoveWallpaper
  <2>6. UserStateTypeOK'
    BY <2>4, <2>5 DEF UserStateInv, UserStateTypeOK
  <2>7. ~cut' => files = 3
    <3>1. CASE files < 3
      <4>1. cut' = (files < 3)
        BY <2>5
      <4> QED
        BY <3>1, <4>1, Zenon
    <3>2. files < 3 \/ files = 3
      OBVIOUS
    <3> QED
      BY <3>1, <3>2
  <2> QED
    BY <2>4, <2>5, <2>6, <2>7 DEF UserStateInv, CustomIsThere
<1>3. ASSUME NEW t \in Tab, LoadTab(t) PROVE UserStateInv'
  BY <1>3 DEF LoadTab, UserStateInv, UserStateTypeOK, CustomIsThere
<1>4. ASSUME NEW t \in Tab, NEW wallpaper \in Choice, NEW pinned \in SUBSET External,
             SavePreferences(t, wallpaper, pinned)
      PROVE  UserStateInv'
  <2>1. PICK asked : asked = [tab[t] EXCEPT !.wallpaper = wallpaper, !.pinned = pinned]
    OBVIOUS
  <2>2. asked \in Preferences
    BY <2>1 DEF UserStateInv, UserStateTypeOK, Preferences
  <2>3. PICK stored : stored = Saved(asked, info)
    OBVIOUS
  <2>4. stored \in Preferences /\ (stored.wallpaper = "custom" =>
           info # NoImage /\ stored.version = info)
    BY <2>2, <2>3, SavedAsThere DEF UserStateInv, UserStateTypeOK
  <2>5. /\ preferences' = stored /\ tab' = [tab EXCEPT ![t] = stored]
        /\ UNCHANGED <<image, info, applications, cut>>
    BY <1>4, <2>1, <2>3 DEF SavePreferences
  <2>6. UserStateTypeOK'
    BY <2>4, <2>5 DEF UserStateInv, UserStateTypeOK
  <2> QED
    BY <2>4, <2>5, <2>6 DEF UserStateInv, CustomIsThere
<1>5. ASSUME NEW e \in External,
             \/ SaveApplication(e) \/ RemoveApplication(e)
             \/ \E enabled \in BOOLEAN : SetApplicationEnabled(e, enabled)
      PROVE  UserStateInv'
  <2>1. PICK added \in SUBSET External : applications \in [added -> BOOLEAN]
    BY DEF UserStateInv, UserStateTypeOK
  <2>2. \E more \in SUBSET External : applications' \in [more -> BOOLEAN]
    <3>1. CASE SaveApplication(e)
      <4>1. applications' \in [added \cup {e} -> BOOLEAN]
        BY <2>1, <3>1 DEF SaveApplication
      <4> QED
        BY <4>1
    <3>2. CASE RemoveApplication(e)
      <4>1. applications' \in [added \ {e} -> BOOLEAN]
        BY <2>1, <3>2 DEF RemoveApplication
      <4> QED
        BY <4>1
    <3>3. CASE \E enabled \in BOOLEAN : SetApplicationEnabled(e, enabled)
      <4>1. applications' \in [added -> BOOLEAN]
        BY <2>1, <3>3 DEF SetApplicationEnabled
      <4> QED
        BY <4>1
    <3> QED
      BY <1>5, <3>1, <3>2, <3>3
  <2>3. UNCHANGED <<image, info, preferences, tab, cut>>
    BY <1>5 DEF SaveApplication, RemoveApplication, SetApplicationEnabled
  <2> QED
    BY <2>2, <2>3 DEF UserStateInv, UserStateTypeOK, CustomIsThere
<1>6. CASE UNCHANGED UserStateVars
  BY <1>6 DEF UserStateVars, UserStateInv, UserStateTypeOK, CustomIsThere
<1>7. CASE UserStateNext
  BY <1>1, <1>2, <1>3, <1>4, <1>5, <1>7 DEF UserStateNext
<1> QED
  BY <1>6, <1>7

\* Whatever old tabs send back: preferences name the custom wallpaper with the version of
\* the image that is there, unless the last upload or removal was cut (UserState.java).
THEOREM WallpaperIsThere == UserStateSpec => []CustomIsThere
<1>1. ASSUME UserStateInit PROVE UserStateInv
  <2>1. [e \in {} |-> TRUE] \in [{} -> BOOLEAN]
    OBVIOUS
  <2>2. \E added \in SUBSET External : applications \in [added -> BOOLEAN]
    BY <1>1, <2>1 DEF UserStateInit
  <2>3. NoPreferences \in Preferences /\ NoPreferences.wallpaper = "dawn"
    BY DEF NoPreferences, Preferences, Choice
  <2> QED
    BY <1>1, <2>2, <2>3 DEF UserStateInit, UserStateInv, UserStateTypeOK, CustomIsThere
<1>2. UserStateInv /\ [UserStateNext]_UserStateVars => UserStateInv'
  BY UserStateStep
<1>3. UserStateInv => CustomIsThere
  BY DEF UserStateInv
<1> QED
  BY <1>1, <1>2, <1>3, PTL DEF UserStateSpec

\* What is served was confirmed and the wallpaper named is there
\* (SnapshotServiceRegistryStorage.java, UserState.java).
THEOREM StorageStands == StorageSpec => StorageHolds
<1> QED
  BY SnapshotsAreKept, WallpaperIsThere, PTL DEF StorageSpec, StorageHolds

-----------------------------------------------------------------------------
(***************************************************************************)
(* Taking an application in                                                *)
(***************************************************************************)
\* A task is opened with its form, its calls come after it, and a client is the one it
\* asked for.
TaskFits ==
    /\ task.state = "none" => task.form = NoForm
    /\ task.state # "none" => task.form \in Form /\ app # NoApp
    /\ \A t \in Try : try[t] # "idle" => task.state # "none"

ClientFits ==
    /\ client # NoClient => task.state # "none" /\ (SameClient \/ client.edited)
    /\ task.state = "active" => client # NoClient
    /\ \A t \in Try : try[t] = "open" => client # NoClient

\* What a page shows was the row, and still is if the revision is.
PagesWereRows ==
    \A p \in Page :
        /\ page[p].revision <= app.revision
        /\ page[p].revision = app.revision => page[p] = app

OnboardingInv == OnboardingTypeOK /\ TaskFits /\ ClientFits /\ PagesWereRows

\* What an edit or an opening does to the row: it is there, with a greater revision.
RowGrows ==
    /\ app' \in Application /\ app'.revision > app.revision

LEMMA FormsAreForms == NoForm \notin Form /\ \A f \in Form : f.request # "none"
BY OnboardingAssumption DEF NoForm

\* A call's own progress, where row, task, client and pages stay.
LEMMA CallMoves ==
    ASSUME OnboardingInv, UNCHANGED <<app, task, client, page>>,
           try' \in [Try -> {"idle", "finish", "create", "open", "fail"}],
           \A t \in Try : try'[t] # "idle" => task.state # "none",
           \A t \in Try : try'[t] = "open" => client # NoClient
    PROVE  OnboardingInv'
BY DEF OnboardingInv, OnboardingTypeOK, TaskFits, ClientFits, PagesWereRows, SameClient

LEMMA OnboardingStep == OnboardingInv /\ [OnboardingNext]_OnboardingVars => OnboardingInv'
<1> SUFFICES ASSUME OnboardingInv, [OnboardingNext]_OnboardingVars PROVE OnboardingInv'
  OBVIOUS
<1> USE OnboardingAssumption
<1>0. 1 \in 0..MaxRevision
  OBVIOUS
<1>1. ASSUME NEW t \in Try, NEW form \in Form, Prepare(t, form) PROVE OnboardingInv'
  <2>1. /\ try[t] = "idle" /\ try' = [try EXCEPT ![t] = "finish"]
        /\ UNCHANGED <<client, page>>
    BY <1>1 DEF Prepare, Step
  <2>2. CASE /\ app = NoApp /\ app' = [NoApp EXCEPT !.revision = 1]
             /\ task' = [form |-> form, state |-> "pending"]
    <3>1. client = NoClient
      BY <2>2 DEF OnboardingInv, TaskFits, ClientFits
    <3>0. app' = [revision |-> 1, enabled |-> FALSE, ready |-> FALSE]
      BY <2>2 DEF NoApp
    <3>1b. app' \in Application
      BY <1>0, <3>0 DEF Application
    <3>1c. app'.revision = 1 /\ NoApp.revision = 0
      BY <3>0 DEF NoApp
    <3>1d. app = NoApp
      BY <2>2
    <3>1e. app' # NoApp
      <4>1. 1 # 0
        OBVIOUS
      <4> QED
        BY <3>1c, <4>1, Zenon
    <3>2. app'.revision = 1 /\ app' \in Application /\ app' # NoApp /\ app.revision = 0
      BY <3>1b, <3>1c, <3>1d, <3>1e
    <3>3. OnboardingTypeOK'
      BY <2>1, <2>2, <3>2 DEF OnboardingInv, OnboardingTypeOK
    <3>4. TaskFits'
      BY <2>1, <2>2, <3>2 DEF OnboardingInv, OnboardingTypeOK, TaskFits
    <3>5. ClientFits'
      BY <2>1, <2>2, <3>1 DEF OnboardingInv, OnboardingTypeOK, ClientFits
    <3>6. PagesWereRows'
      BY <2>1, <3>2 DEF OnboardingInv, OnboardingTypeOK, Application, PagesWereRows
    <3> QED
      BY <3>3, <3>4, <3>5, <3>6 DEF OnboardingInv
  <2>3. CASE task.form = form /\ UNCHANGED <<app, task>>
    <3>1. task.state # "none"
      BY <2>3, FormsAreForms DEF OnboardingInv, TaskFits
    <3> QED
      BY <2>1, <2>3, <3>1, CallMoves DEF OnboardingInv, OnboardingTypeOK, TaskFits, ClientFits
  <2> QED
    BY <1>1, <2>2, <2>3 DEF Prepare
<1>2. ASSUME NEW t \in Try, Retry(t) \/ ReadTask(t) \/ CreateRefused(t) \/ OpenFails(t) \/ Forget(t)
      PROVE  OnboardingInv'
  <2>1. /\ \E to \in {"idle", "finish", "create", "fail"} : try' = [try EXCEPT ![t] = to]
        /\ UNCHANGED <<app, task, client, page>>
    BY <1>2 DEF Retry, ReadTask, CreateRefused, OpenFails, Forget, Step
  <2>2. task.state # "none"
    BY <1>2 DEF Retry, ReadTask, CreateRefused, OpenFails, Forget, Step, OnboardingInv, TaskFits
  <2> QED
    BY <2>1, <2>2, CallMoves DEF OnboardingInv, OnboardingTypeOK, TaskFits, ClientFits
<1>3. ASSUME NEW t \in Try, NEW answered \in BOOLEAN, CreateClient(t, answered)
      PROVE  OnboardingInv'
  <2>1. /\ try[t] = "create"
        /\ \E to \in {"open", "fail"} : try' = [try EXCEPT ![t] = to]
        /\ (client = NoClient \/ SameClient)
        /\ client' = IF client = NoClient
                     THEN [request |-> task.form.request, uris |-> task.form.uris,
                           edited |-> FALSE]
                     ELSE client
        /\ UNCHANGED <<app, task, page>>
    BY <1>3 DEF CreateClient, Step
  <2>2. task.state # "none" /\ task.form \in Form /\ task.form.request # "none"
    BY <2>1, FormsAreForms DEF OnboardingInv, TaskFits
  <2>3. /\ client' \in [request : {f.request : f \in Form} \cup {"none"}, edited : BOOLEAN,
                        uris : {f.uris : f \in Form} \cup {"none", "other"}]
        /\ client' # NoClient /\ (SameClient' \/ client'.edited)
    BY <2>1, <2>2 DEF OnboardingInv, OnboardingTypeOK, ClientFits, NoClient, SameClient
  <2>4. try' \in [Try -> {"idle", "finish", "create", "open", "fail"}]
    BY <2>1 DEF OnboardingInv, OnboardingTypeOK
  <2>5. OnboardingTypeOK'
    BY <2>1, <2>3, <2>4 DEF OnboardingInv, OnboardingTypeOK
  <2>6. TaskFits'
    BY <2>1, <2>2 DEF OnboardingInv, OnboardingTypeOK, TaskFits
  <2>7. ClientFits' /\ PagesWereRows'
    BY <2>1, <2>2, <2>3 DEF OnboardingInv, ClientFits, PagesWereRows
  <2> QED
    BY <2>5, <2>6, <2>7 DEF OnboardingInv
<1>4. ASSUME NEW t \in Try, NEW answered \in BOOLEAN, OpenApplication(t, answered)
      PROVE  OnboardingInv'
  <2>1. /\ (app.ready \/ app.revision < MaxRevision)
        /\ try[t] = "open"
        /\ \E to \in {"idle", "fail"} : try' = [try EXCEPT ![t] = to]
        /\ app' = Opened /\ task' = [task EXCEPT !.state = "active"]
        /\ UNCHANGED <<client, page>>
    BY <1>4 DEF OpenApplication, Step
  <2>2. app \in Application /\ (app' = app \/ RowGrows)
    BY <2>1 DEF Opened, OnboardingInv, OnboardingTypeOK, Application, RowGrows
  <2>3. client # NoClient /\ task.state # "none" /\ app # NoApp /\ task.form \in Form
    BY <2>1 DEF OnboardingInv, ClientFits, TaskFits
  <2>4. task'.state = "active" /\ task'.form = task.form /\ DOMAIN task' = DOMAIN task
    BY <2>1 DEF OnboardingInv, OnboardingTypeOK
  <2>5. app' # NoApp
    BY <2>2, <2>3 DEF RowGrows, OnboardingInv, OnboardingTypeOK, Application, NoApp
  <2>6. OnboardingTypeOK'
    BY <2>1, <2>2, <2>4 DEF RowGrows, OnboardingInv, OnboardingTypeOK
  <2>7. TaskFits'
    BY <2>1, <2>3, <2>4, <2>5 DEF OnboardingInv, OnboardingTypeOK, TaskFits
  <2>8. ClientFits'
    BY <2>1, <2>3, <2>4 DEF OnboardingInv, OnboardingTypeOK, ClientFits, SameClient
  <2>9. PagesWereRows'
    BY <2>1, <2>2 DEF RowGrows, OnboardingInv, OnboardingTypeOK, Application, PagesWereRows
  <2> QED
    BY <2>6, <2>7, <2>8, <2>9 DEF OnboardingInv
<1>5. ASSUME NEW t \in Try, MarkFailed(t) PROVE OnboardingInv'
  <2>1. /\ try[t] = "fail" /\ try' = [try EXCEPT ![t] = "idle"]
        /\ task' = IF task.state = "active" THEN task ELSE [task EXCEPT !.state = "failed"]
        /\ UNCHANGED <<app, client, page>>
    BY <1>5 DEF MarkFailed, Step
  <2>2. task.state # "none"
    BY <2>1 DEF OnboardingInv, TaskFits
  <2>3. /\ task'.form = task.form /\ DOMAIN task' = DOMAIN task
        /\ task'.state \in {"active", "failed"} /\ (task'.state = "active" => task.state = "active")
    BY <2>1 DEF OnboardingInv, OnboardingTypeOK
  <2>4. OnboardingTypeOK'
    BY <2>1, <2>3 DEF OnboardingInv, OnboardingTypeOK
  <2>5. TaskFits' /\ ClientFits'
    BY <2>1, <2>2, <2>3 DEF OnboardingInv, OnboardingTypeOK, TaskFits, ClientFits, SameClient
  <2> QED
    BY <2>1, <2>4, <2>5 DEF OnboardingInv, PagesWereRows
<1>6. CASE RegisterPlain
  <2>1. /\ app = NoApp /\ app' = [revision |-> 1, enabled |-> TRUE, ready |-> FALSE]
        /\ UNCHANGED <<task, client, try, page>>
    BY <1>6 DEF RegisterPlain
  <2>2. app'.revision = 1 /\ app' \in Application /\ app' # NoApp /\ app.revision = 0
    BY <2>1 DEF NoApp, Application
  <2>3. OnboardingTypeOK' /\ TaskFits' /\ ClientFits'
    BY <2>1, <2>2 DEF OnboardingInv, OnboardingTypeOK, TaskFits, ClientFits, SameClient
  <2>4. PagesWereRows'
    BY <2>1, <2>2 DEF OnboardingInv, OnboardingTypeOK, Application, PagesWereRows
  <2> QED
    BY <2>3, <2>4 DEF OnboardingInv
<1>7. ASSUME NEW p \in Page, OpenPage(p) PROVE OnboardingInv'
  <2>1. page' = [page EXCEPT ![p] = app] /\ UNCHANGED <<app, task, client, try>>
    BY <1>7 DEF OpenPage
  <2>2. OnboardingTypeOK' /\ PagesWereRows'
    BY <2>1 DEF OnboardingInv, OnboardingTypeOK, Application, PagesWereRows
  <2> QED
    BY <2>1, <2>2 DEF OnboardingInv, TaskFits, ClientFits, SameClient
<1>8. ASSUME NEW p \in Page, NEW change \in Application, Edit(p, change) PROVE OnboardingInv'
  <2>1. /\ app.revision < MaxRevision /\ page[p] # NoApp /\ page[p].revision = app.revision
        /\ app' = [change EXCEPT !.revision = app.revision + 1]
        /\ page' = [page EXCEPT ![p] = NoApp] /\ UNCHANGED <<task, client, try>>
    BY <1>8 DEF Edit
  <2>2. RowGrows /\ app'.revision > 0
    BY <2>1 DEF RowGrows, OnboardingInv, OnboardingTypeOK, Application
  <2>3. app' # NoApp /\ NoApp \in Application /\ NoApp.revision = 0
    BY <2>2 DEF NoApp, Application
  <2>4. OnboardingTypeOK' /\ TaskFits' /\ ClientFits'
    BY <2>1, <2>2, <2>3 DEF RowGrows, OnboardingInv, OnboardingTypeOK, TaskFits, ClientFits,
       SameClient
  <2>5. PagesWereRows'
    BY <2>1, <2>2, <2>3 DEF RowGrows, OnboardingInv, OnboardingTypeOK, Application,
       PagesWereRows
  <2> QED
    BY <2>4, <2>5 DEF OnboardingInv
<1>9. ASSUME NEW p \in Page,
             \/ \E enabled \in BOOLEAN : SetEnabled(p, enabled)
             \/ UpdateMetadata(p) \/ ConfigureRuntime(p)
      PROVE  OnboardingInv'
  <2>1. \E change \in Application : Edit(p, change)
    BY <1>9 DEF SetEnabled, UpdateMetadata, ConfigureRuntime, OnboardingInv, OnboardingTypeOK,
       Application
  <2> QED
    BY <2>1, <1>8
<1>10. CASE UpdateCallbacks
  <2>1. /\ client # NoClient /\ client' = [client EXCEPT !.uris = "other", !.edited = TRUE]
        /\ UNCHANGED <<app, task, try, page>>
    BY <1>10 DEF UpdateCallbacks
  <2>2. /\ client' \in [request : {f.request : f \in Form} \cup {"none"}, edited : BOOLEAN,
                        uris : {f.uris : f \in Form} \cup {"none", "other"}]
        /\ client'.edited /\ client' # NoClient
    BY <2>1 DEF OnboardingInv, OnboardingTypeOK, NoClient
  <2> QED
    BY <2>1, <2>2 DEF OnboardingInv, OnboardingTypeOK, TaskFits, ClientFits, PagesWereRows
<1>11. CASE UNCHANGED OnboardingVars
  BY <1>11 DEF OnboardingVars, OnboardingInv, OnboardingTypeOK, TaskFits, ClientFits,
     PagesWereRows, SameClient
<1>12. CASE OnboardingNext
  BY <1>1, <1>2, <1>3, <1>4, <1>5, <1>6, <1>7, <1>9, <1>10, <1>12 DEF OnboardingNext
<1> QED
  BY <1>11, <1>12

\* What an administrator decided or completed is not undone by a call that comes late.
LEMMA OnboardingKeeps ==
    ASSUME OnboardingInv, OnboardingNext
    PROVE  /\ task.state = "active" => task'.state = "active" /\ client' # NoClient
           /\ ~app.enabled /\ app'.enabled /\ app.ready => page' # page
           /\ \A p \in Page : page[p] # NoApp /\ page'[p] = NoApp => page[p] = app
<1>1. task.state = "active" => task'.state = "active"
  <2>1. task.state = "active" => app # NoApp
    BY DEF OnboardingInv, TaskFits
  <2> QED
    BY <2>1 DEF OnboardingNext, Prepare, Retry, ReadTask, CreateClient, CreateRefused,
       OpenApplication, OpenFails, MarkFailed, Forget, RegisterPlain, OpenPage, SetEnabled,
       UpdateMetadata, ConfigureRuntime, Edit, UpdateCallbacks, OnboardingInv, OnboardingTypeOK
<1>2. OnboardingInv'
  BY OnboardingStep
<1>3. task.state = "active" => client' # NoClient
  BY <1>1, <1>2 DEF OnboardingInv, ClientFits
<1>4. \/ UNCHANGED page
      \/ \E p \in Page : app # NoApp /\ page' = [page EXCEPT ![p] = app]
      \/ \E p \in Page : /\ page[p] # NoApp /\ page[p].revision = app.revision
                         /\ page' = [page EXCEPT ![p] = NoApp]
  BY DEF OnboardingNext, Prepare, Retry, ReadTask, CreateClient, CreateRefused,
     OpenApplication, OpenFails, MarkFailed, Forget, RegisterPlain, OpenPage, SetEnabled,
     UpdateMetadata, ConfigureRuntime, Edit, UpdateCallbacks
<1>5. \A p \in Page : page[p] # NoApp /\ page'[p] = NoApp => page[p] = app
  BY <1>4 DEF OnboardingInv, OnboardingTypeOK, PagesWereRows
<1>6. UNCHANGED page /\ app.ready => UNCHANGED app
  <2> SUFFICES ASSUME UNCHANGED page, app.ready PROVE app' = app
    OBVIOUS
  <2>1. ASSUME NEW p \in Page, NEW change, Edit(p, change) PROVE FALSE
    BY <2>1 DEF Edit, OnboardingInv, OnboardingTypeOK
  <2>2. app # NoApp
    BY DEF NoApp
  <2> QED
    BY <2>1, <2>2 DEF OnboardingNext, Prepare, Retry, ReadTask, CreateClient, CreateRefused,
       OpenApplication, Opened, OpenFails, MarkFailed, Forget, RegisterPlain, OpenPage,
       SetEnabled, UpdateMetadata, ConfigureRuntime, UpdateCallbacks
<1> QED
  BY <1>1, <1>3, <1>5, <1>6

\* An onboarding goes on from wherever an answer was lost, and never undoes what an
\* administrator has decided since (ApplicationOnboarding.java).
THEOREM OnboardingStands == OnboardingSpec => OnboardingKeepsFaith
<1>1. OnboardingInit => OnboardingInv
  BY OnboardingAssumption DEF OnboardingInit, OnboardingInv, OnboardingTypeOK, TaskFits,
     ClientFits, PagesWereRows, Application, NoApp, NoClient
<1>2. OnboardingInv /\ [OnboardingNext]_OnboardingVars => OnboardingInv'
  BY OnboardingStep
<1>3. OnboardingInv => CanBeRetried
  BY DEF OnboardingInv, ClientFits, CanBeRetried
<1>4. OnboardingInv /\ [OnboardingNext]_OnboardingVars =>
        /\ [task.state = "active" =>
               task'.state = "active" /\ client' # NoClient]_OnboardingVars
        /\ [~app.enabled /\ app'.enabled /\ app.ready => page' # page]_OnboardingVars
        /\ [\A p \in Page : page[p] # NoApp /\ page'[p] = NoApp =>
               page[p] = app]_OnboardingVars
  BY OnboardingKeeps
<1> QED
  BY <1>1, <1>2, <1>3, <1>4, PTL
     DEF OnboardingSpec, OnboardingKeepsFaith, ActiveForGood, SwitchedOffStaysOff, NoLostEdit

-----------------------------------------------------------------------------
(***************************************************************************)
(* Calls through the gateway of an application                             *)
(***************************************************************************)
Finished(calls) == {c \in Call : calls[c].phase = "done"}

\* What is in use was published, and so were the paths calls are on their way to or
\* were sent to; a call nothing overtook is on its way to what is in use.
ResolvedFits ==
    /\ catalog.active # Inactive => catalog.active \in catalog.published
    /\ \A path \in governed : Claimed(path)
    /\ \A c \in Call : call[c].phase = "resolved" =>
          /\ Claimed(call[c].path)
          /\ call[c].overtaken \/ call[c].version = catalog.active

GatewayInv == GatewayTypeOK /\ ResolvedFits /\ EveryCallObserved

CallType == [phase : {"new", "resolved", "direct", "sent", "done"}, path : Path \cup {Nowhere},
             version : Release \cup {Inactive}, to : Endpoint \cup {Nowhere, "upstream"},
             overtaken : BOOLEAN]

\* What one call does on its way, where it does not end: nothing is finished by it.
LEMMA OneCallMoves ==
    ASSUME GatewayInv, NEW c \in Call, NEW to \in CallType,
           call[c].phase # "done", to.phase # "done", call' = [call EXCEPT ![c] = to],
           UNCHANGED <<catalog, declared, telemetry>>,
           governed' \subseteq Path, \A path \in governed' : Claimed(path),
           to.phase = "resolved" =>
              Claimed(to.path) /\ (to.overtaken \/ to.version = catalog.active)
    PROVE  GatewayInv'
<1>1. GatewayTypeOK'
  BY DEF GatewayInv, GatewayTypeOK, CallType
<1>2. ResolvedFits'
  BY DEF GatewayInv, GatewayTypeOK, CallType, ResolvedFits, Claimed
<1>3. {x \in Call : call'[x].phase = "done"} = {x \in Call : call[x].phase = "done"}
  BY DEF GatewayInv, GatewayTypeOK
<1>4. EveryCallObserved'
  BY <1>3 DEF GatewayInv, EveryCallObserved
<1> QED
  BY <1>1, <1>2, <1>4 DEF GatewayInv

\* A call ends with one observation, kept or dropped.
LEMMA CallEnds ==
    ASSUME GatewayInv, NEW c \in Call, call[c].phase # "done", End(c)
    PROVE  GatewayInv'
<1> DEFINE done == {x \in Call : call[x].phase = "done"}
<1>1. PICK over : over = [NewCall EXCEPT !.phase = "done"]
  OBVIOUS
<1>2. over \in CallType /\ over.phase = "done"
  BY <1>1 DEF NewCall, CallType
<1>3. /\ call' = [call EXCEPT ![c] = over] /\ UNCHANGED <<catalog, declared, governed>>
      /\ telemetry' = IF telemetry.pending < Capacity
                      THEN [telemetry EXCEPT !.pending = @ + 1]
                      ELSE [telemetry EXCEPT !.dropped = @ + 1]
  BY <1>1 DEF End, Observed
<1>4. telemetry \in [pending : 0..Capacity, stored : Nat, dropped : Nat] /\ Capacity \in Nat
  BY GatewayAssumption DEF GatewayInv, GatewayTypeOK
<1>5. /\ telemetry' \in [pending : 0..Capacity, stored : Nat, dropped : Nat]
      /\ telemetry'.pending + telemetry'.stored + telemetry'.dropped
           = telemetry.pending + telemetry.stored + telemetry.dropped + 1
  BY <1>3, <1>4
<1>6. GatewayTypeOK'
  BY <1>2, <1>3, <1>5 DEF GatewayInv, GatewayTypeOK, CallType
<1>7. ResolvedFits'
  BY <1>2, <1>3 DEF GatewayInv, GatewayTypeOK, ResolvedFits, Claimed
<1>8. {x \in Call : call'[x].phase = "done"} = done \cup {c}
  BY <1>2, <1>3 DEF GatewayInv, GatewayTypeOK
<1>9. IsFiniteSet(done) /\ c \notin done
  BY GatewayAssumption, FS_Subset
<1>10. Cardinality(done \cup {c}) = Cardinality(done) + 1
  BY <1>9, FS_AddElement
<1>11. EveryCallObserved'
  BY <1>5, <1>8, <1>10 DEF GatewayInv, EveryCallObserved
<1> QED
  BY <1>6, <1>7, <1>11 DEF GatewayInv

\* Operators and deployers change what calls are on their way to, and overtake them.
LEMMA CatalogueChanges ==
    ASSUME GatewayInv, UNCHANGED <<governed, telemetry>>,
           Overtake \/ (UNCHANGED call /\ catalog'.active = catalog.active),
           catalog' \in [published : SUBSET Release, active : Release \cup {Inactive},
                 binding : [endpoint : Endpoint \cup {Nowhere}, digest : SUBSET Release]],
           declared' \in [Endpoint -> SUBSET Release],
           catalog.published \subseteq catalog'.published,
           catalog'.active # Inactive => catalog'.active \in catalog'.published
    PROVE  GatewayInv'
<1>1. /\ DOMAIN call' = Call
      /\ \A c \in Call :
           /\ call'[c] \in CallType /\ call'[c].phase = call[c].phase
           /\ call'[c].path = call[c].path /\ call'[c].version = call[c].version
  <2>1. CASE Overtake
    <3>1. call \in [Call -> CallType]
      BY DEF GatewayInv, GatewayTypeOK, CallType
    <3>2. ASSUME NEW c \in Call
          PROVE  /\ call'[c] \in CallType /\ call'[c].phase = call[c].phase
                 /\ call'[c].path = call[c].path /\ call'[c].version = call[c].version
      <4>1. PICK b : b = (call[c].overtaken \/ call[c].phase = "resolved")
        OBVIOUS
      <4>2. b \in BOOLEAN
        BY <4>1, Zenon
      <4>3. call'[c] = [call[c] EXCEPT !.overtaken = b]
        BY <2>1, <4>1, Zenon DEF Overtake
      <4> QED
        BY <3>1, <4>2, <4>3 DEF CallType
    <3> QED
      BY <2>1, <3>2 DEF Overtake
  <2>2. CASE UNCHANGED call
    BY <2>2 DEF GatewayInv, GatewayTypeOK, CallType
  <2> QED
    BY <2>1, <2>2
<1>2. \A c \in Call : call[c].phase = "resolved" =>
         call'[c].overtaken \/ call[c].version = catalog'.active
  <2>1. CASE Overtake
    <3> SUFFICES ASSUME NEW c \in Call, call[c].phase = "resolved" PROVE call'[c].overtaken
      OBVIOUS
    <3>1. call'[c] = [call[c] EXCEPT !.overtaken = @ \/ call[c].phase = "resolved"]
      BY <2>1 DEF Overtake
    <3>2. "overtaken" \in DOMAIN call[c]
      BY DEF GatewayInv, GatewayTypeOK
    <3>3. call'[c].overtaken = (call[c].overtaken \/ call[c].phase = "resolved")
      BY <3>1, <3>2, Zenon
    <3> QED
      BY <3>3, Zenon
  <2>2. CASE UNCHANGED call /\ catalog'.active = catalog.active
    BY <2>2 DEF GatewayInv, ResolvedFits
  <2> QED
    BY <2>1, <2>2
<1>3. \A path : Claimed(path) => Claimed(path)'
  BY DEF Claimed
<1>4. GatewayTypeOK'
  <2>1. call' \in [Call -> CallType]
    <3>1. call' = [c \in Call |-> call'[c]]
      BY <1>1 DEF Overtake, GatewayInv, GatewayTypeOK
    <3> QED
      BY <1>1, <3>1
  <2> QED
    BY <2>1 DEF GatewayInv, GatewayTypeOK, CallType
<1>5. ResolvedFits'
  BY <1>1, <1>2, <1>3 DEF GatewayInv, ResolvedFits
<1>6. {x \in Call : call'[x].phase = "done"} = {x \in Call : call[x].phase = "done"}
  BY <1>1
<1>7. EveryCallObserved'
  BY <1>6 DEF GatewayInv, EveryCallObserved
<1> QED
  BY <1>4, <1>5, <1>7 DEF GatewayInv

LEMMA GatewayStep == GatewayInv /\ [GatewayNext]_GatewayVars => GatewayInv'
<1> SUFFICES ASSUME GatewayInv, [GatewayNext]_GatewayVars PROVE GatewayInv'
  OBVIOUS
<1>1. /\ catalog \in [published : SUBSET Release, active : Release \cup {Inactive},
                binding : [endpoint : Endpoint \cup {Nowhere}, digest : SUBSET Release]]
      /\ declared \in [Endpoint -> SUBSET Release]
      /\ call \in [Call -> CallType] /\ governed \subseteq Path
      /\ catalog.active # Inactive => catalog.active \in catalog.published
  BY DEF GatewayInv, GatewayTypeOK, ResolvedFits, CallType
<1>2. ASSUME NEW v \in Release, PublishRelease(v) PROVE GatewayInv'
  <2>1. /\ catalog' \in [published : SUBSET Release, active : Release \cup {Inactive},
                 binding : [endpoint : Endpoint \cup {Nowhere}, digest : SUBSET Release]]
        /\ catalog'.active = catalog.active
        /\ catalog'.published = catalog.published \cup {v}
    BY <1>1, <1>2 DEF PublishRelease
  <2> QED
    BY <1>1, <1>2, <2>1, CatalogueChanges DEF PublishRelease
<1>3. ASSUME NEW v \in Release, NEW e \in Endpoint, Switch(v, e) PROVE GatewayInv'
  <2>1. /\ catalog' \in [published : SUBSET Release, active : Release \cup {Inactive},
                 binding : [endpoint : Endpoint \cup {Nowhere}, digest : SUBSET Release]]
        /\ catalog'.published = catalog.published
        /\ catalog'.active \in catalog.published
    BY <1>1, <1>3 DEF Switch
  <2> QED
    BY <1>1, <1>3, <2>1, CatalogueChanges DEF Switch
<1>4. CASE SwitchOff
  <2>1. /\ catalog' \in [published : SUBSET Release, active : Release \cup {Inactive},
                 binding : [endpoint : Endpoint \cup {Nowhere}, digest : SUBSET Release]]
        /\ catalog'.published = catalog.published /\ catalog'.active = Inactive
    BY <1>1, <1>4 DEF SwitchOff, Unbound
  <2> QED
    BY <1>1, <1>4, <2>1, CatalogueChanges DEF SwitchOff
<1>5. ASSUME NEW e \in Endpoint, NEW versions \in SUBSET Release, Redeploy(e, versions)
      PROVE  GatewayInv'
  <2>1. declared' \in [Endpoint -> SUBSET Release] /\ catalog' = catalog
    BY <1>1, <1>5 DEF Redeploy
  <2> QED
    BY <1>1, <1>5, <2>1, CatalogueChanges DEF Redeploy
<1>6. ASSUME NEW c \in Call, NEW path \in Path, NEW allow \in BOOLEAN, Resolve(c, path, allow)
      PROVE  GatewayInv'
  <2>1. PICK to : to = [call[c] EXCEPT !.phase = IF Found(path) THEN "resolved" ELSE "direct",
                           !.path = path, !.version = IF Found(path) THEN catalog.active ELSE @]
    OBVIOUS
  <2>2. /\ to \in CallType /\ to.path = path
        /\ to.phase = IF Found(path) THEN "resolved" ELSE "direct"
        /\ Found(path) => to.version = catalog.active
    <3>1. PICK p, v : /\ p = IF Found(path) THEN "resolved" ELSE "direct"
                      /\ v = IF Found(path) THEN catalog.active ELSE call[c].version
      OBVIOUS
    <3>2. p \in {"resolved", "direct"} /\ v \in Release \cup {Inactive}
      BY <1>1, <3>1 DEF CallType
    <3>3. to = [call[c] EXCEPT !.phase = p, !.path = path, !.version = v]
      BY <1>1, <2>1, <3>1 DEF CallType
    <3>4. call[c] \in CallType
      BY <1>1
    <3>5. to \in CallType /\ to.path = path /\ to.phase = p /\ to.version = v
      BY <3>2, <3>3, <3>4 DEF CallType
    <3> QED
      BY <3>1, <3>5
  <2>3. /\ call[c].phase = "new" /\ call' = [call EXCEPT ![c] = to]
        /\ UNCHANGED <<catalog, declared, governed, telemetry>>
    BY <1>1, <1>6, <2>1 DEF Resolve, CallType
  <2>4. Found(path) => Claimed(path)
    BY <1>1 DEF Found, Claimed
  <2>5. /\ to.phase # "done" /\ call[c].phase # "done"
        /\ to.phase = "resolved" => Claimed(to.path) /\ to.version = catalog.active
    BY <2>2, <2>3, <2>4
  <2>6. \A p \in governed' : Claimed(p)
    BY <2>3 DEF GatewayInv, ResolvedFits
  <2> QED
    BY <1>1, <2>2, <2>3, <2>5, <2>6, OneCallMoves
<1>7. ASSUME NEW c \in Call,
             NotFound(c) \/ Forbidden(c) \/ NoDeployment(c) \/ Answered(c)
      PROVE  GatewayInv'
  BY <1>7, CallEnds DEF NotFound, Forbidden, NoDeployment, Answered
<1>8. ASSUME NEW c \in Call, Send(c) \/ SendUpstream(c) PROVE GatewayInv'
  <2>1. PICK where \in Endpoint \cup {Nowhere, "upstream"} :
           call' = [call EXCEPT ![c].phase = "sent", ![c].to = where]
    BY <1>1, <1>8 DEF Send, SendUpstream
  <2>2. PICK to : to = [call[c] EXCEPT !.phase = "sent", !.to = where]
    OBVIOUS
  <2>3. to \in CallType /\ to.phase = "sent" /\ call' = [call EXCEPT ![c] = to]
    <3>1. call[c] \in CallType
      BY <1>1
    <3>2. to \in CallType /\ to.phase = "sent"
      BY <2>2, <3>1 DEF CallType
    <3>3. call' = [call EXCEPT ![c] = to]
      BY <1>1, <2>1, <2>2
    <3> QED
      BY <3>2, <3>3
  <2>4. /\ call[c].phase # "done" /\ UNCHANGED <<catalog, declared, telemetry>>
        /\ (governed' = governed \/
              (call[c].phase = "resolved" /\ governed' = governed \cup {call[c].path}))
    BY <1>8 DEF Send, SendUpstream
  <2>5. \A p \in governed' : Claimed(p)
    BY <2>4 DEF GatewayInv, ResolvedFits
  <2>6. governed' \subseteq Path
    BY <2>5, <1>1 DEF Claimed, Path
  <2> QED
    BY <2>3, <2>4, <2>5, <2>6, OneCallMoves
<1>9. ASSUME NEW failed \in BOOLEAN, WriteEvent(failed) PROVE GatewayInv'
  <2>1. telemetry \in [pending : 0..Capacity, stored : Nat, dropped : Nat] /\ Capacity \in Nat
    BY GatewayAssumption DEF GatewayInv, GatewayTypeOK
  <2>2. /\ telemetry' \in [pending : 0..Capacity, stored : Nat, dropped : Nat]
        /\ telemetry'.pending + telemetry'.stored + telemetry'.dropped
             = telemetry.pending + telemetry.stored + telemetry.dropped
    <3>1. CASE failed
      <4>1. /\ telemetry.pending > 0
            /\ telemetry' = [telemetry EXCEPT !.pending = @ - 1, !.dropped = @ + 1]
        BY <1>9, <2>1, <3>1 DEF WriteEvent
      <4>2. /\ telemetry'.pending = telemetry.pending - 1
            /\ telemetry'.dropped = telemetry.dropped + 1
            /\ telemetry'.stored = telemetry.stored
            /\ DOMAIN telemetry' = DOMAIN telemetry
        BY <2>1, <4>1
      <4>2a. /\ telemetry.pending - 1 \in 0..Capacity
             /\ telemetry.stored + 1 \in Nat /\ telemetry.dropped + 1 \in Nat
        <5>1. /\ telemetry.pending \in 0..Capacity
              /\ telemetry.stored \in Nat /\ telemetry.dropped \in Nat
          BY <2>1
        <5> QED
          BY <2>1, <4>1, <5>1
      <4>3. telemetry' \in [pending : 0..Capacity, stored : Nat, dropped : Nat]
        BY <2>1, <4>1, <4>2a
      <4> QED
        BY <2>1, <4>2, <4>3
    <3>2. CASE ~failed
      <4>1. /\ telemetry.pending > 0
            /\ telemetry' = [telemetry EXCEPT !.pending = @ - 1, !.stored = @ + 1]
        BY <1>9, <2>1, <3>2 DEF WriteEvent
      <4>2. /\ telemetry'.pending = telemetry.pending - 1
            /\ telemetry'.stored = telemetry.stored + 1
            /\ telemetry'.dropped = telemetry.dropped
            /\ DOMAIN telemetry' = DOMAIN telemetry
        BY <2>1, <4>1
      <4>2a. /\ telemetry.pending - 1 \in 0..Capacity
             /\ telemetry.stored + 1 \in Nat /\ telemetry.dropped + 1 \in Nat
        <5>1. /\ telemetry.pending \in 0..Capacity
              /\ telemetry.stored \in Nat /\ telemetry.dropped \in Nat
          BY <2>1
        <5> QED
          BY <2>1, <4>1, <5>1
      <4>3. telemetry' \in [pending : 0..Capacity, stored : Nat, dropped : Nat]
        BY <2>1, <4>1, <4>2a
      <4> QED
        BY <2>1, <4>2, <4>3
    <3> QED
      BY <3>1, <3>2
  <2>3. UNCHANGED <<catalog, declared, call, governed>>
    BY <1>9 DEF WriteEvent
  <2> QED
    BY <2>2, <2>3 DEF GatewayInv, GatewayTypeOK, ResolvedFits, Claimed, EveryCallObserved
<1>10. CASE UNCHANGED GatewayVars
  BY <1>10 DEF GatewayVars, GatewayInv, GatewayTypeOK, ResolvedFits, Claimed, EveryCallObserved
<1>11. CASE GatewayNext
  BY <1>2, <1>3, <1>4, <1>5, <1>6, <1>7, <1>8, <1>9, <1>11 DEF GatewayNext
<1> QED
  BY <1>10, <1>11

\* Where a call is sent: to what it was resolved to unless it was overtaken, and past the
\* services only at a path none of them ever took.
LEMMA CallsGoRight ==
    ASSUME GatewayInv, GatewayNext, NEW c \in Call
    PROVE  /\ (/\ call[c].phase = "resolved" /\ call'[c].phase = "sent"
               /\ call[c].version \notin declared[call'[c].to]
               => call[c].overtaken)
           /\ call[c].phase = "new" /\ call'[c].phase = "direct" =>
                 call'[c].path \notin governed
<1>1. /\ call \in [Call -> CallType]
      /\ catalog.binding.endpoint \in Endpoint \cup {Nowhere}
  BY DEF GatewayInv, GatewayTypeOK, CallType
<1>2. ASSUME call[c].phase = "resolved", call'[c].phase = "sent"
      PROVE  Send(c)
  <2>1. \A x \in Call : x # c /\ (call' = [call EXCEPT ![x] = call'[x]]) => call'[c] = call[c]
    BY <1>1
  <2>2. \A x \in Call : ~End(x)
    BY <1>1, <1>2 DEF End, NewCall
  <2>3. ~Overtake /\ call' # call
    BY <1>1, <1>2 DEF Overtake, CallType
  <2>4. \A x \in Call, path \in Path, allow \in BOOLEAN : ~Resolve(x, path, allow)
    BY <1>1, <1>2 DEF Resolve, CallType
  <2>5. \A x \in Call : ~SendUpstream(x)
    BY <1>1, <1>2 DEF SendUpstream, CallType
  <2>6. \A x \in Call : Send(x) => x = c
    BY <1>1, <1>2 DEF Send, CallType
  <2> QED
    BY <2>2, <2>3, <2>4, <2>5, <2>6 DEF GatewayNext, PublishRelease, Switch, SwitchOff,
       Redeploy, NotFound, Forbidden, NoDeployment, Answered, WriteEvent
<1>3. ASSUME call[c].phase = "new", call'[c].phase = "direct"
      PROVE  \E path \in Path : call'[c].path = path /\ ~Claimed(path)
  <2>2. \A x \in Call : ~End(x)
    BY <1>1, <1>3 DEF End, NewCall
  <2>3. ~Overtake /\ call' # call
    BY <1>1, <1>3 DEF Overtake, CallType
  <2>4. \A x \in Call : ~Send(x) /\ ~SendUpstream(x)
    BY <1>1, <1>3 DEF Send, SendUpstream, CallType
  <2>5. PICK x \in Call, path \in Path, allow \in BOOLEAN : Resolve(x, path, allow)
    BY <2>2, <2>3, <2>4 DEF GatewayNext, PublishRelease, Switch, SwitchOff,
       Redeploy, NotFound, Forbidden, NoDeployment, Answered, WriteEvent
  <2>6. x = c /\ ~Found(path) /\ call'[c].path = path
    BY <1>1, <1>3, <2>5 DEF Resolve, CallType
  <2> QED
    BY <2>5, <2>6 DEF Resolve
<1>4. ASSUME Send(c), ~call[c].overtaken PROVE call[c].version \in declared[call'[c].to]
  <2>1. call[c].version = catalog.active
    BY <1>4 DEF Send, GatewayInv, ResolvedFits
  <2>2. call'[c].to = catalog.binding.endpoint
    BY <1>1, <1>4 DEF Send, CallType
  <2> QED
    BY <1>4, <2>1, <2>2 DEF Send, Intact
<1>5. \A path \in governed : Claimed(path)
  BY DEF GatewayInv, ResolvedFits
<1> QED
  BY <1>2, <1>3, <1>4, <1>5

\* Calls stay under the catalogue: a path that was claimed stays so, a call is sent to the
\* wrong deployment only when it was overtaken, and every call is counted
\* (ApplicationGateway.java, ServiceTelemetry.java).
THEOREM CallsStayGoverned == GatewaySpec => CallsAreGoverned
<1>1. ASSUME GatewayInit PROVE GatewayInv
  <2>1. {c \in Call : call[c].phase = "done"} = {}
    BY <1>1 DEF GatewayInit, NewCall
  <2>2. EveryCallObserved
    <3>1. telemetry = [pending |-> 0, stored |-> 0, dropped |-> 0]
      BY <1>1 DEF GatewayInit
    <3>2. telemetry.pending + telemetry.stored + telemetry.dropped = 0
      BY <3>1
    <3>3. Cardinality({}) = 0
      BY FS_EmptySet
    <3> QED
      BY <2>1, <3>2, <3>3 DEF EveryCallObserved
  <2>3. GatewayTypeOK
    BY <1>1, GatewayAssumption DEF GatewayInit, GatewayTypeOK, NewCall, Unbound
  <2> QED
    BY <1>1, <2>2, <2>3 DEF GatewayInit, GatewayInv, ResolvedFits, NewCall
<1>2. GatewayInv /\ [GatewayNext]_GatewayVars => GatewayInv'
  BY GatewayStep
<1>3. GatewayInv => EveryCallObserved
  BY DEF GatewayInv
<1>4. GatewayInv /\ [GatewayNext]_GatewayVars =>
        /\ [\A c \in Call :
              /\ call[c].phase = "resolved" /\ call'[c].phase = "sent"
              /\ call[c].version \notin declared[call'[c].to]
              => call[c].overtaken]_GatewayVars
        /\ [\A c \in Call :
              call[c].phase = "new" /\ call'[c].phase = "direct" =>
                  call'[c].path \notin governed]_GatewayVars
  BY CallsGoRight
<1> QED
  BY <1>1, <1>2, <1>3, <1>4, PTL
     DEF GatewaySpec, CallsAreGoverned, MismatchOnlyWhenOvertaken, GovernedForGood

-----------------------------------------------------------------------------
(***************************************************************************)
(* The sessions of an account                                              *)
(***************************************************************************)
\* A session that is live works: whatever changes the account revokes or carries it.
LiveWorks == \A s \in Session : session[s].live => Usable(s)

\* A challenge never runs ahead of the account; one of its version that began at WeCom
\* is of a member that is bound.
ChallengeFits ==
    /\ challenge.version <= account.version
    /\ /\ challenge.purpose # "none" /\ challenge.version = account.version
       /\ challenge.first = "wecom"
       => account.wecom

SecurityInv ==
    /\ SecurityTypeOK /\ LiveWorks /\ ChallengeFits
    /\ FactorsStayBound /\ StrongSessions /\ NoStaleProof /\ UnboundIsOut

\* The invariant by its sessions: whoever is live works, was strongly let in, with a proof
\* of this version, and by an identity that is bound.
Sound(s) ==
    session[s].live =>
        /\ session[s].version = account.version /\ account.active /\ account.password
        /\ account.mfa => session[s].second \in account.methods \cup {"recovery"} \/ s = carrier
        /\ s = carrier \/ session[s].proof = account.version
        /\ session[s].first = "wecom" => account.wecom

LEMMA SoundSessions ==
    SecurityInv <=> /\ SecurityTypeOK /\ ChallengeFits /\ FactorsStayBound
                    /\ \A s \in Session : Sound(s)
BY DEF SecurityInv, LiveWorks, StrongSessions, NoStaleProof, UnboundIsOut, Sound, Usable

LEMMA NewSoundSessions ==
    SecurityInv' <=> /\ SecurityTypeOK' /\ ChallengeFits' /\ FactorsStayBound'
                     /\ \A s \in Session : Sound(s)'
BY DEF SecurityInv, LiveWorks, StrongSessions, NoStaleProof, UnboundIsOut, Sound, Usable

SessionType == [live : BOOLEAN, version : Version, first : {"local", "wecom"},
                second : Second, proof : Version]
ChallengeType == [purpose : {"none", "mfa", "setup"}, version : Version,
                  first : {"local", "wecom"}, second : Second]
GrantType == [Session -> [purpose : {"none", "manage"} \cup Factor, version : Version]]

LEMMA Constants ==
    /\ 0 \in Version /\ Version \subseteq Nat
    /\ NoPending \in ChallengeType /\ NoPending.purpose = "none" /\ NoPending.version = 0
    /\ Ended \in SessionType /\ ~Ended.live
    /\ [s \in Session |-> NoGrant] \in GrantType
<1>1. 0 \in Version /\ Version \subseteq Nat
  BY SecurityAssumption DEF Version
<1> QED
  BY <1>1 DEF NoPending, ChallengeType, Ended, SessionType, Second, NoGrant, GrantType

\* A step that opens no session and changes neither account nor carrier.
LEMMA FewerSessions ==
    ASSUME SecurityInv, UNCHANGED <<account, carrier>>,
           session' \in [Session -> SessionType],
           \A s \in Session : session'[s].live => session'[s] = session[s],
           challenge' = challenge \/ challenge' = NoPending,
           grant' \in GrantType, scan' \in BOOLEAN
    PROVE  SecurityInv'
<1>1. SecurityTypeOK'
  BY Constants DEF SecurityInv, SecurityTypeOK, SessionType, ChallengeType, GrantType
<1>2. ChallengeFits'
  <2>1. account.version \in Nat
    BY Constants DEF SecurityInv, SecurityTypeOK
  <2> QED
    BY <2>1, Constants DEF SecurityInv, ChallengeFits
<1>3. \A s \in Session : Sound(s)'
  BY SoundSessions DEF Sound
<1> QED
  BY <1>1, <1>2, <1>3, NewSoundSessions DEF SecurityInv, FactorsStayBound

\* A first factor shown, and the second if it is asked for, opens a session or a challenge.
LEMMA BeginsSession ==
    ASSUME SecurityInv, NEW first \in {"local", "wecom"}, NEW second \in Second,
           NEW proof, proof = account.version, account.active,
           first = "wecom" => account.wecom,
           account.mfa => second \in account.methods \cup {"none", "recovery"},
           BeginSession(first, second, proof),
           UNCHANGED <<account, carrier, grant>>, scan' \in BOOLEAN
    PROVE  SecurityInv'
<1>1. /\ account.version \in Version /\ challenge \in ChallengeType /\ grant \in GrantType
      /\ session \in [Session -> SessionType] /\ account.password \in BOOLEAN
  BY DEF SecurityInv, SecurityTypeOK, ChallengeType, GrantType, SessionType
<1>2. CASE (account.mfa /\ second = "none") \/ ~account.password
  <2>1. PICK purpose \in {"mfa", "setup"} :
           /\ challenge' = [purpose |-> purpose, version |-> account.version,
                            first |-> first, second |-> second]
           /\ session' = session
    BY <1>2 DEF BeginSession
  <2>2. /\ challenge' \in ChallengeType
        /\ challenge'.version = account.version /\ challenge'.first = first
    BY <1>1, <2>1 DEF ChallengeType
  <2>3. SecurityTypeOK'
    BY <2>1, <2>2 DEF SecurityInv, SecurityTypeOK, ChallengeType
  <2>4. ChallengeFits'
    <3>1. account.version \in Nat
      BY <1>1, Constants
    <3> QED
      BY <2>2, <3>1 DEF ChallengeFits
  <2>5. \A s \in Session : Sound(s)'
    BY <2>1, SoundSessions DEF Sound
  <2> QED
    BY <2>3, <2>4, <2>5, NewSoundSessions DEF SecurityInv, FactorsStayBound
<1>3. CASE ~((account.mfa /\ second = "none") \/ ~account.password)
  <2>1. PICK s \in Session :
           /\ ~session[s].live
           /\ session' = [session EXCEPT ![s] =
                            Issue(s, account.version, first, second, proof)]
           /\ challenge' = challenge \/ challenge' = NoPending
    BY <1>3 DEF BeginSession
  <2>2. PICK new : new = Issue(s, account.version, first, second, proof)
    OBVIOUS
  <2>3. /\ new \in SessionType /\ new.version = account.version /\ new.first = first
        /\ new.second = second /\ new.proof = account.version
    BY <1>1, <2>2 DEF Issue, SessionType
  <2>4. session' = [session EXCEPT ![s] = new]
    BY <2>1, <2>2
  <2>5. SecurityTypeOK'
    BY <1>1, <2>1, <2>3, <2>4, Constants
       DEF SecurityInv, SecurityTypeOK, SessionType, ChallengeType
  <2>6. ChallengeFits'
    <3>1. account.version \in Nat
      BY <1>1, Constants
    <3> QED
      BY <2>1, <3>1, Constants DEF SecurityInv, ChallengeFits
  <2>7. \A t \in Session : Sound(t)'
    <3>1. ASSUME NEW t \in Session, t # s PROVE Sound(t)'
      BY <1>1, <2>4, <3>1, SoundSessions DEF Sound
    <3>2. session'[s] = new
      BY <1>1, <2>4
    <3>3. account.password /\ (account.mfa => second \in account.methods \cup {"recovery"})
      BY <1>3
    <3>4. Sound(s)'
      BY <2>3, <3>2, <3>3 DEF Sound
    <3> QED
      BY <3>1, <3>4
  <2> QED
    BY <2>5, <2>6, <2>7, NewSoundSessions DEF SecurityInv, FactorsStayBound
<1> QED
  BY <1>2, <1>3

\* A change of the account lets in at most the session that made it.
LEMMA VersionRaised ==
    ASSUME SecurityInv, SecurityTypeOK', FactorsStayBound',
           account'.version = account.version + 1,
           challenge' = challenge \/ challenge' = NoPending,
           \A s \in Session : session'[s].live =>
              /\ s = carrier' /\ session'[s].version = account'.version
              /\ account'.active /\ account'.password
              /\ session'[s].first = "wecom" => account'.wecom
    PROVE  SecurityInv'
<1>1. account.version \in Nat /\ challenge.version \in Nat
  BY Constants DEF SecurityInv, SecurityTypeOK
<1>2. ChallengeFits'
  BY <1>1, Constants DEF SecurityInv, ChallengeFits
<1>3. \A s \in Session : Sound(s)'
  BY DEF Sound
<1> QED
  BY <1>2, <1>3, NewSoundSessions

\* The session that made a change is carried along, and the others are revoked.
LEMMA CarriedAlong ==
    ASSUME SecurityInv, NEW s \in Session, Usable(s), account.version < MaxVersion,
           session' = [Revoked({s}) EXCEPT ![s].version = account.version + 1]
    PROVE  /\ session' \in [Session -> SessionType]
           /\ \A t \in Session : session'[t].live => t = s
           /\ session'[s].version = account.version + 1
           /\ session'[s].first = session[s].first
           /\ account.version + 1 \in Version
<1>1. /\ account.version \in Version /\ session \in [Session -> SessionType]
      /\ account.version + 1 \in Version
  BY SecurityAssumption DEF SecurityInv, SecurityTypeOK, SessionType, Version
<1>2. PICK new : new = [session[s] EXCEPT !.version = account.version + 1]
  OBVIOUS
<1>3. new \in SessionType /\ new.version = account.version + 1 /\ new.first = session[s].first
  BY <1>1, <1>2 DEF SessionType
<1>4. Revoked({s}) = [t \in Session |-> IF t = s THEN session[s] ELSE Ended]
  BY DEF Revoked
<1>5. session' = [t \in Session |-> IF t = s THEN new ELSE Ended]
  BY <1>2, <1>4
<1> QED
  BY <1>1, <1>3, <1>5, Constants

LEMMA SecurityStep == SecurityInv /\ [SecurityNext]_SecurityVars => SecurityInv'
<1> SUFFICES ASSUME SecurityInv, [SecurityNext]_SecurityVars PROVE SecurityInv'
  OBVIOUS
<1>1. /\ account \in [active : BOOLEAN, version : Version, password : BOOLEAN, wecom : BOOLEAN,
                      mfa : BOOLEAN, methods : SUBSET Factor, bound : SUBSET Factor]
      /\ session \in [Session -> SessionType] /\ challenge \in ChallengeType
      /\ grant \in GrantType /\ scan \in BOOLEAN /\ Version \subseteq Nat
  BY Constants DEF SecurityInv, SecurityTypeOK, SessionType, ChallengeType, GrantType
<1>2. \A t \in Session : session[t].live => Usable(t)
  BY DEF SecurityInv, LiveWorks
<1>3. CASE Login
  <2>1. /\ account.active /\ BeginSession("local", "none", account.version)
        /\ UNCHANGED <<account, grant, scan, carrier>>
    BY <1>3 DEF Login
  <2>2. "none" \in Second
    BY DEF Second
  <2> QED
    BY <1>1, <2>1, <2>2, BeginsSession
<1>4. CASE Scan
  BY <1>1, <1>4, FewerSessions DEF Scan
<1>5. CASE Scanned
  <2>1. "none" \in Second
    BY DEF Second
  <2>2. CASE account.wecom /\ account.active
    BY <1>1, <1>5, <2>1, <2>2, BeginsSession DEF Scanned
  <2>3. CASE ~(account.wecom /\ account.active)
    BY <1>1, <1>5, <2>3, FewerSessions DEF Scanned
  <2> QED
    BY <2>2, <2>3
<1>6. ASSUME NEW m \in Factor \cup {"recovery"}, CompleteMfa(m) PROVE SecurityInv'
  <2>1. /\ challenge.version = account.version /\ account.active
        /\ challenge.purpose = "mfa" /\ m \in account.methods \cup {"recovery"}
        /\ BeginSession(challenge.first, m, challenge.version)
        /\ UNCHANGED <<account, grant, scan, carrier>>
    BY <1>6 DEF CompleteMfa, Valid
  <2>2. m \in Second /\ challenge.first \in {"local", "wecom"}
    BY <1>1 DEF Second, ChallengeType
  <2>3. challenge.first = "wecom" => account.wecom
    BY <2>1 DEF SecurityInv, ChallengeFits
  <2> QED
    BY <1>1, <2>1, <2>2, <2>3, BeginsSession
<1>7. ASSUME NEW s \in Session, CompleteSetup(s) PROVE SecurityInv'
  <2>1. PICK new : new = Issue(s, account.version + 1, challenge.first, challenge.second,
                              challenge.version)
    OBVIOUS
  <2>2. /\ challenge.purpose = "setup" /\ challenge.version = account.version /\ account.active
        /\ account.version < MaxVersion
        /\ account' = [account EXCEPT !.password = TRUE, !.version = @ + 1]
        /\ session' = [Revoked({}) EXCEPT ![s] = new]
        /\ challenge' = NoPending /\ carrier' = s /\ scan' = scan
        /\ grant' = [t \in Session |-> NoGrant]
    BY <1>7, <2>1 DEF CompleteSetup, Valid
  <2>3. account.version \in Version /\ account.version + 1 \in Version
    BY <1>1, <2>2, SecurityAssumption DEF Version
  <2>4. /\ new \in SessionType /\ new.version = account.version + 1
        /\ new.first = challenge.first
    BY <1>1, <2>1, <2>3 DEF Issue, SessionType, ChallengeType
  <2>5. session' = [t \in Session |-> IF t = s THEN new ELSE Ended]
    BY <2>2 DEF Revoked
  <2>6. /\ account'.version = account.version + 1 /\ account'.active /\ account'.password
        /\ account'.wecom = account.wecom /\ FactorsStayBound'
        /\ account' \in [active : BOOLEAN, version : Version, password : BOOLEAN,
              wecom : BOOLEAN, mfa : BOOLEAN, methods : SUBSET Factor, bound : SUBSET Factor]
    BY <1>1, <2>2, <2>3 DEF SecurityInv, FactorsStayBound
  <2>7. challenge.first = "wecom" => account.wecom
    BY <2>2 DEF SecurityInv, ChallengeFits
  <2>8. SecurityTypeOK'
    <3>1. session' \in [Session -> SessionType]
      BY <2>4, <2>5, Constants
    <3>2. challenge' \in ChallengeType /\ grant' \in GrantType
      BY <2>2, Constants
    <3> QED
      BY <1>1, <2>2, <2>6, <3>1, <3>2 DEF SecurityTypeOK, SessionType, ChallengeType, GrantType
  <2>9. \A t \in Session : session'[t].live => t = s
    BY <2>5, Constants
  <2>10. session'[s] = new
    BY <2>5
  <2> QED
    BY <2>2, <2>4, <2>6, <2>7, <2>8, <2>9, <2>10, VersionRaised
<1>8. ASSUME NEW s \in Session, Authorize(s) PROVE SecurityInv'
  <2>1. grant' \in GrantType
    BY <1>1, <1>8 DEF Authorize, GrantType
  <2> QED
    BY <1>1, <1>8, <2>1, FewerSessions DEF Authorize
<1>9. ASSUME NEW s \in Session, NEW m \in Factor, StartBinding(s, m) PROVE SecurityInv'
  <2>1. grant' \in GrantType
    BY <1>1, <1>9 DEF StartBinding, GrantType
  <2> QED
    BY <1>1, <1>9, <2>1, FewerSessions DEF StartBinding
<1>10. ASSUME NEW s \in Session, NEW new, Usable(s), Changed(s, new),
              new \in [active : BOOLEAN, version : Version, password : BOOLEAN,
                wecom : BOOLEAN, mfa : BOOLEAN, methods : SUBSET Factor, bound : SUBSET Factor],
              new.version = account.version, new.active = account.active,
              new.password = account.password, new.wecom = account.wecom,
              new.mfa => new.methods # {} /\ new.methods \subseteq new.bound
       PROVE  SecurityInv'
  <2>1. /\ account.version < MaxVersion /\ account' = [new EXCEPT !.version = @ + 1]
        /\ session' = [Revoked({s}) EXCEPT ![s].version = account.version + 1]
        /\ challenge' = NoPending /\ carrier' = s /\ scan' = scan
        /\ grant' = [t \in Session |-> NoGrant]
    BY <1>10 DEF Changed
  <2>2. /\ session' \in [Session -> SessionType]
        /\ \A t \in Session : session'[t].live => t = s
        /\ session'[s].version = account.version + 1
        /\ session'[s].first = session[s].first
        /\ account.version + 1 \in Version
    BY <1>10, <2>1, CarriedAlong
  <2>3. /\ account'.version = account.version + 1 /\ account'.active /\ account'.password
        /\ account'.wecom = account.wecom /\ FactorsStayBound'
        /\ account' \in [active : BOOLEAN, version : Version, password : BOOLEAN,
              wecom : BOOLEAN, mfa : BOOLEAN, methods : SUBSET Factor, bound : SUBSET Factor]
    BY <1>1, <1>10, <2>1, <2>2 DEF FactorsStayBound, Usable
  <2>4. session[s].first = "wecom" => account.wecom
    BY <1>10 DEF SecurityInv, UnboundIsOut
  <2>5. SecurityTypeOK'
    BY <1>1, <2>1, <2>2, <2>3, Constants
       DEF SecurityTypeOK, SessionType, ChallengeType, GrantType
  <2> QED
    BY <2>1, <2>2, <2>3, <2>4, <2>5, VersionRaised
<1>11. ASSUME NEW s \in Session, NEW m \in Factor, ConfirmBinding(s, m) PROVE SecurityInv'
  <2>1. CASE Changed(s, [account EXCEPT !.bound = @ \cup {m}])
    <3>1. Usable(s)
      BY <1>11 DEF ConfirmBinding, Granted
    <3>2. PICK new : new = [account EXCEPT !.bound = @ \cup {m}]
      OBVIOUS
    <3>3. /\ new \in [active : BOOLEAN, version : Version, password : BOOLEAN,
                wecom : BOOLEAN, mfa : BOOLEAN, methods : SUBSET Factor, bound : SUBSET Factor]
          /\ new.version = account.version /\ new.active = account.active
          /\ new.password = account.password /\ new.wecom = account.wecom
          /\ new.mfa => new.methods # {} /\ new.methods \subseteq new.bound
      BY <1>1, <3>2 DEF SecurityInv, FactorsStayBound
    <3> QED
      BY <1>10, <2>1, <3>1, <3>2, <3>3
  <2>2. CASE /\ grant' = [grant EXCEPT ![s] = NoGrant]
             /\ UNCHANGED <<account, session, challenge, scan, carrier>>
    <3>1. grant' \in GrantType
      BY <1>1, <2>2, Constants DEF NoGrant, GrantType
    <3> QED
      BY <1>1, <2>2, <3>1, FewerSessions
  <2> QED
    BY <1>11, <2>1, <2>2 DEF ConfirmBinding
<1>12. ASSUME NEW s \in Session, NEW m \in Factor, Unbind(s, m) PROVE SecurityInv'
  <2>1. /\ Usable(s) /\ ~(account.mfa /\ m \in account.methods)
        /\ Changed(s, [account EXCEPT !.bound = @ \ {m}])
    BY <1>12 DEF Unbind, Granted
  <2>2. PICK new : new = [account EXCEPT !.bound = @ \ {m}]
    OBVIOUS
  <2>3. /\ new \in [active : BOOLEAN, version : Version, password : BOOLEAN,
              wecom : BOOLEAN, mfa : BOOLEAN, methods : SUBSET Factor, bound : SUBSET Factor]
        /\ new.version = account.version /\ new.active = account.active
        /\ new.password = account.password /\ new.wecom = account.wecom
        /\ new.mfa => new.methods # {} /\ new.methods \subseteq new.bound
    BY <1>1, <2>1, <2>2 DEF SecurityInv, FactorsStayBound
  <2> QED
    BY <1>10, <2>1, <2>2, <2>3
<1>13. ASSUME NEW s \in Session, NEW methods \in SUBSET Factor, SetMfa(s, methods)
       PROVE  SecurityInv'
  <2>1. PICK on : on = (methods # {})
    OBVIOUS
  <2>2. PICK new : new = [account EXCEPT !.mfa = on, !.methods = methods]
    OBVIOUS
  <2>3. Usable(s) /\ methods \subseteq account.bound /\ Changed(s, new)
    BY <1>13, <2>1, <2>2 DEF SetMfa, Granted
  <2>4. on \in BOOLEAN /\ (on => methods # {})
    BY <2>1, Zenon
  <2>5. /\ new \in [active : BOOLEAN, version : Version, password : BOOLEAN,
              wecom : BOOLEAN, mfa : BOOLEAN, methods : SUBSET Factor, bound : SUBSET Factor]
        /\ new.version = account.version /\ new.active = account.active
        /\ new.password = account.password /\ new.wecom = account.wecom
        /\ new.mfa => new.methods # {} /\ new.methods \subseteq new.bound
    BY <1>1, <2>2, <2>3, <2>4
  <2> QED
    BY <1>10, <2>3, <2>5
<1>14. ASSUME NEW s \in Session, ChangePassword(s) PROVE SecurityInv'
  <2>1. /\ Usable(s) /\ account.version < MaxVersion
        /\ account' = [account EXCEPT !.version = @ + 1]
        /\ session' = [Revoked({s}) EXCEPT ![s].version = account.version + 1]
        /\ carrier' = s /\ UNCHANGED <<challenge, grant, scan>>
    BY <1>14 DEF ChangePassword
  <2>2. /\ session' \in [Session -> SessionType]
        /\ \A t \in Session : session'[t].live => t = s
        /\ session'[s].version = account.version + 1
        /\ session'[s].first = session[s].first
        /\ account.version + 1 \in Version
    BY <2>1, CarriedAlong
  <2>3. /\ account'.version = account.version + 1 /\ account'.active /\ account'.password
        /\ account'.wecom = account.wecom /\ FactorsStayBound'
        /\ account' \in [active : BOOLEAN, version : Version, password : BOOLEAN,
              wecom : BOOLEAN, mfa : BOOLEAN, methods : SUBSET Factor, bound : SUBSET Factor]
    BY <1>1, <2>1, <2>2 DEF SecurityInv, FactorsStayBound, Usable
  <2>4. session[s].first = "wecom" => account.wecom
    BY <2>1 DEF SecurityInv, UnboundIsOut
  <2>5. SecurityTypeOK'
    BY <1>1, <2>1, <2>2, <2>3 DEF SecurityTypeOK, SessionType, ChallengeType, GrantType
  <2> QED
    BY <2>1, <2>2, <2>3, <2>4, <2>5, VersionRaised
<1>15. CASE ResetPassword \/ UnbindWeCom
  <2>1. /\ account.version < MaxVersion
        /\ \/ account' = [account EXCEPT !.version = @ + 1, !.password = TRUE]
           \/ account' = [account EXCEPT !.wecom = FALSE, !.version = @ + 1]
        /\ session' = Revoked({}) /\ carrier' = Nobody /\ UNCHANGED <<challenge, grant, scan>>
    BY <1>15 DEF ResetPassword, UnbindWeCom
  <2>2. account.version \in Version /\ account.version + 1 \in Version
    BY <1>1, <2>1, SecurityAssumption DEF Version
  <2>3. /\ account'.version = account.version + 1 /\ FactorsStayBound'
        /\ account' \in [active : BOOLEAN, version : Version, password : BOOLEAN,
              wecom : BOOLEAN, mfa : BOOLEAN, methods : SUBSET Factor, bound : SUBSET Factor]
    BY <1>1, <2>1, <2>2 DEF SecurityInv, FactorsStayBound
  <2>4. session' = [t \in Session |-> Ended]
    BY <2>1 DEF Revoked
  <2>5. SecurityTypeOK'
    BY <1>1, <2>1, <2>3, <2>4, Constants
       DEF SecurityTypeOK, SessionType, ChallengeType, GrantType
  <2> QED
    BY <2>1, <2>3, <2>4, <2>5, Constants, VersionRaised
<1>16. CASE SetStatus \/ BindWeCom
  <2>1. /\ \/ /\ account' = [account EXCEPT !.active = ~@]
              /\ \A s \in Session : ~session'[s].live
           \/ account' = [account EXCEPT !.wecom = TRUE] /\ session' = session
        /\ session' \in [Session -> SessionType]
        /\ UNCHANGED <<challenge, grant, scan, carrier>>
    <3>1. CASE SetStatus
      <4>1. CASE account.active
        <5>1. session' = [t \in Session |-> Ended]
          BY <3>1, <4>1 DEF SetStatus, Revoked
        <5> QED
          BY <3>1, <5>1, Constants DEF SetStatus
      <4>2. CASE ~account.active
        <5>1. session' = session /\ \A s \in Session : ~session[s].live
          BY <1>2, <3>1, <4>2 DEF SetStatus, Usable
        <5> QED
          BY <1>1, <3>1, <5>1 DEF SetStatus
      <4> QED
        BY <4>1, <4>2
    <3>2. CASE BindWeCom
      BY <1>1, <3>2 DEF BindWeCom
    <3> QED
      BY <1>16, <3>1, <3>2
  <2>2. /\ account' \in [active : BOOLEAN, version : Version, password : BOOLEAN,
              wecom : BOOLEAN, mfa : BOOLEAN, methods : SUBSET Factor, bound : SUBSET Factor]
        /\ account'.version = account.version /\ FactorsStayBound'
        /\ account.wecom => account'.wecom
    BY <1>1, <2>1 DEF SecurityInv, FactorsStayBound
  <2>3. SecurityTypeOK'
    BY <2>1, <2>2 DEF SecurityInv, SecurityTypeOK, SessionType
  <2>4. ChallengeFits'
    BY <2>1, <2>2 DEF SecurityInv, ChallengeFits
  <2>5. \A s \in Session : Sound(s)'
    <3>1. CASE \A s \in Session : ~session'[s].live
      BY <3>1 DEF Sound
    <3>2. CASE account' = [account EXCEPT !.wecom = TRUE] /\ session' = session
      BY <1>1, <2>1, <3>2, SoundSessions DEF Sound
    <3> QED
      BY <2>1, <3>1, <3>2
  <2> QED
    BY <2>2, <2>3, <2>4, <2>5, NewSoundSessions
<1>17. CASE Expire
  <2>1. /\ grant' \in GrantType
        /\ session' \in [Session -> SessionType]
        /\ \A s \in Session : session'[s].live => session'[s] = session[s]
    <3>1. CASE UNCHANGED session
      <4>1. grant' = grant \/ \E s \in Session : grant' = [grant EXCEPT ![s] = NoGrant]
        BY <1>17 DEF Expire
      <4> QED
        BY <1>1, <3>1, <4>1, Constants DEF NoGrant, GrantType
    <3>2. CASE \E s \in Session : session' = Revoked(Session \ {s}) /\ grant' = grant
      BY <1>1, <3>2, Constants DEF Revoked
    <3> QED
      BY <1>17, <3>1, <3>2 DEF Expire
  <2>2. /\ challenge' = challenge \/ challenge' = NoPending
        /\ UNCHANGED <<account, scan, carrier>>
    BY <1>17 DEF Expire
  <2> QED
    BY <1>1, <2>1, <2>2, FewerSessions
<1>18. CASE UNCHANGED SecurityVars
  BY <1>1, <1>18, FewerSessions DEF SecurityVars
<1>19. CASE SecurityNext
  BY <1>3, <1>4, <1>5, <1>6, <1>7, <1>8, <1>9, <1>11, <1>12, <1>13, <1>14, <1>15, <1>16,
     <1>17, <1>19 DEF SecurityNext
<1> QED
  BY <1>18, <1>19

\* An account that requires a factor has one and is entered with it: by nobody with a
\* proof from before a change, nobody who was unbound, nobody switched off
\* (account-security.service.ts, sessions.service.ts).
THEOREM FactorsStand == SecuritySpec => FactorsHold
<1>1. ASSUME SecurityInit PROVE SecurityInv
  <2>1. SecurityTypeOK
    <3>1. account \in [active : BOOLEAN, version : Version, password : BOOLEAN,
             wecom : BOOLEAN, mfa : BOOLEAN, methods : SUBSET Factor, bound : SUBSET Factor]
      BY <1>1, Constants DEF SecurityInit
    <3>2. /\ session \in [Session -> SessionType] /\ challenge \in ChallengeType
          /\ grant \in GrantType
      BY <1>1, Constants DEF SecurityInit
    <3> QED
      BY <1>1, <3>1, <3>2
         DEF SecurityInit, SecurityTypeOK, SessionType, ChallengeType, GrantType
  <2>2. ChallengeFits /\ FactorsStayBound
    BY <1>1, Constants DEF SecurityInit, ChallengeFits, FactorsStayBound
  <2>3. \A s \in Session : Sound(s)
    BY <1>1, Constants DEF SecurityInit, Sound
  <2> QED
    BY <2>1, <2>2, <2>3, SoundSessions
<1>2. SecurityInv /\ [SecurityNext]_SecurityVars => SecurityInv'
  BY SecurityStep
<1>3. SecurityInv =>
        /\ FactorsStayBound /\ StrongSessions /\ NoStaleProof /\ UnboundIsOut
        /\ [\A s \in Session : session[s].live /\ ~Usable(s) => ~Usable(s)']_SecurityVars
  BY DEF SecurityInv, LiveWorks
<1> QED
  BY <1>1, <1>2, <1>3, PTL DEF SecuritySpec, FactorsHold, StaysOut

-----------------------------------------------------------------------------
(***************************************************************************)
(* The machine token                                                       *)
(***************************************************************************)
\* The token that is held, or about to be, is one the centre knows.
CurrentAlive ==
    /\ machine \in accepted \cup {NoToken}
    /\ \A c \in Caller : asking[c].phase = "minted" => asking[c].token \in accepted

\* Who fetches a token is alone in the monitor, and no token is held meanwhile.
MonitorFits ==
    \A c \in Caller :
        asking[c].phase \in {"minting", "minted"} => monitor = c /\ machine = NoToken

TokensFit ==
    \A c \in Caller :
        /\ asking[c].phase \in {"minted", "sent", "refused"} => asking[c].token # NoToken
        /\ asking[c].phase = "refused" => asking[c].attempt = 0
        /\ asking[c].since <= rotation

\* Of a call that started after the centre forgot: what it fetched itself is known; what
\* it was handed is, or is still the one that is held, or was dropped for a known one.
FirstAttempt(c) ==
    /\ asking[c].phase = "minted" => asking[c].token \in accepted
    /\ asking[c].phase = "sent" =>
          asking[c].token \in accepted \/ machine = asking[c].token \/ CurrentAlive
    /\ asking[c].phase = "refused" => machine = asking[c].token \/ CurrentAlive

SecondAttempt(c) ==
    /\ CurrentAlive
    /\ asking[c].phase \in {"minted", "sent"} => asking[c].token \in accepted

CallFits(c) ==
    asking[c].since = rotation /\ asking[c].phase # "idle" =>
        IF asking[c].attempt = 0 THEN FirstAttempt(c) ELSE SecondAttempt(c)

MachineInv ==
    /\ MachineTypeOK /\ MonitorFits /\ TokensFit /\ RestartIsMadeGood
    /\ \A c \in Caller : CallFits(c)

AskingType(n) ==
    [phase : {"idle", "token", "minting", "minted", "sent", "refused"},
     token : 0..n, attempt : {0, 1}, since : 0..MaxRotation]

\* A call at rest while the centre learns tokens and the held one changes for a known
\* one, or for none while nobody has one under way.
LEMMA CallAtRest ==
    ASSUME MachineInv, NEW c \in Caller,
           asking'[c] = asking[c], rotation' = rotation, accepted \subseteq accepted',
           CurrentAlive => CurrentAlive', machine' # machine => CurrentAlive'
    PROVE  CallFits(c)'
  BY DEF MachineInv, CallFits, FirstAttempt, SecondAttempt

LEMMA MachineStep == MachineInv /\ [MachineNext]_MachineVars => MachineInv'
<1> SUFFICES ASSUME MachineInv, [MachineNext]_MachineVars PROVE MachineInv'
  OBVIOUS
<1>1. /\ given \in 0..MaxToken /\ accepted \subseteq 1..given /\ rotation \in 0..MaxRotation
      /\ machine \in 0..given /\ monitor \in Caller \cup {Free} /\ Free \notin Caller
      /\ asking \in [Caller -> AskingType(given)] /\ gaveUp = FALSE
      /\ MaxToken \in Nat /\ MaxRotation \in Nat
  BY MachineAssumption DEF MachineInv, MachineTypeOK, AskingType, Free, RestartIsMadeGood
<1>2. /\ MonitorFits /\ TokensFit /\ \A c \in Caller : CallFits(c)
  BY DEF MachineInv
<1>3. \A c \in Caller : NoAsking \in AskingType(given)
  BY <1>1 DEF NoAsking, NoToken, AskingType
\* What a step of one call has to show.
<1>4. ASSUME NEW c \in Caller, NEW new \in AskingType(given),
             asking' = [asking EXCEPT ![c] = new], UNCHANGED <<given, accepted, rotation>>,
             machine' \in 0..given, monitor' \in Caller \cup {Free}, gaveUp' = FALSE,
             \A d \in Caller : asking'[d].phase \in {"minting", "minted"} =>
                 monitor' = d /\ machine' = NoToken,
             new.phase \in {"minted", "sent", "refused"} => new.token # NoToken,
             new.phase = "refused" => new.attempt = 0, new.since <= rotation,
             CurrentAlive => CurrentAlive', machine' # machine => CurrentAlive',
             CallFits(c)'
      PROVE  MachineInv'
  <2>1. /\ asking' \in [Caller -> AskingType(given)] /\ asking'[c] = new
        /\ \A d \in Caller : d # c => asking'[d] = asking[d]
    BY <1>1, <1>4
  <2>2. MachineTypeOK' /\ RestartIsMadeGood'
    BY <1>1, <1>4, <2>1 DEF MachineTypeOK, AskingType, RestartIsMadeGood
  <2>3. MonitorFits'
    BY <1>4 DEF MonitorFits
  <2>4. TokensFit'
    BY <1>2, <1>4, <2>1 DEF TokensFit
  <2>5. \A d \in Caller : CallFits(d)'
    <3>1. ASSUME NEW d \in Caller, d # c PROVE CallFits(d)'
      BY <1>4, <2>1, <3>1, CallAtRest
    <3> QED
      BY <1>4, <3>1
  <2> QED
    BY <2>2, <2>3, <2>4, <2>5 DEF MachineInv
<1>5. ASSUME NEW c \in Caller, Ask(c) PROVE MachineInv'
  <2> DEFINE new == [NoAsking EXCEPT !.phase = "token", !.since = rotation]
  <2>1. /\ new \in AskingType(given) /\ new.phase = "token" /\ new.attempt = 0
        /\ new.since = rotation
    <3>1. new \in AskingType(given)
      BY <1>1, <1>3 DEF AskingType
    <3>2. new.phase = "token" /\ new.attempt = 0 /\ new.since = rotation
      BY DEF NoAsking
    <3> QED
      BY <3>1, <3>2
  <2>2. /\ asking' = [asking EXCEPT ![c] = new]
        /\ UNCHANGED <<given, accepted, rotation, machine, monitor, gaveUp>>
    BY <1>5 DEF Ask
  <2> HIDE DEF new
  <2>3. /\ asking'[c] = new /\ \A d \in Caller : d # c => asking'[d] = asking[d]
        /\ \A d \in Caller : asking'[d].phase \in {"minting", "minted"} => asking'[d] = asking[d]
    BY <1>1, <2>1, <2>2
  <2>4. \A d \in Caller : asking'[d].phase \in {"minting", "minted"} =>
            monitor' = d /\ machine' = NoToken
    BY <1>2, <2>2, <2>3 DEF MonitorFits
  <2>5. CurrentAlive => CurrentAlive'
    BY <2>2, <2>3 DEF CurrentAlive
  <2>6. CallFits(c)'
    BY <2>1, <2>3 DEF CallFits, FirstAttempt
  <2> QED
    <3>1. /\ new.phase \notin {"minted", "sent", "refused"} /\ new.since <= rotation
          /\ machine' \in 0..given /\ monitor' \in Caller \cup {Free} /\ gaveUp' = FALSE
          /\ machine' = machine
      BY <1>1, <2>1, <2>2
    <3> QED
      BY <1>4, <2>1, <2>2, <2>4, <2>5, <2>6, <3>1
<1>6. ASSUME NEW c \in Caller, ServiceToken(c) PROVE MachineInv'
  <2>1. /\ asking[c].phase = "token" /\ monitor = Free /\ asking[c] \in AskingType(given)
        /\ UNCHANGED <<given, accepted, rotation, machine, gaveUp>>
    BY <1>1, <1>6 DEF ServiceToken
  <2>2. \A d \in Caller : asking[d].phase \notin {"minting", "minted"}
    BY <1>1, <1>2, <2>1 DEF MonitorFits
  <2>3. CASE machine # NoToken
    <3> DEFINE new == [asking[c] EXCEPT !.phase = "sent", !.token = machine]
    <3>1. /\ new \in AskingType(given) /\ new.phase = "sent" /\ new.token = machine
          /\ new.attempt = asking[c].attempt /\ new.since = asking[c].since
      BY <1>1, <2>1 DEF AskingType
    <3>2. asking' = [asking EXCEPT ![c] = new] /\ monitor' = monitor
      BY <1>1, <1>6, <2>3 DEF ServiceToken, AskingType
    <3> HIDE DEF new
    <3>3. /\ asking'[c] = new /\ \A d \in Caller : d # c => asking'[d] = asking[d]
      BY <1>1, <3>2
    <3>4. \A d \in Caller : asking'[d].phase \notin {"minting", "minted"}
      BY <2>2, <3>1, <3>3
    <3>5. CurrentAlive => CurrentAlive'
      BY <2>1, <3>4 DEF CurrentAlive
    <3>6. CallFits(c)'
      <4>1. CallFits(c)
        BY <1>2
      <4> QED
        BY <2>1, <2>3, <3>1, <3>3, <3>5, <4>1
           DEF CallFits, FirstAttempt, SecondAttempt, CurrentAlive
    <3>7. new.since <= rotation
      BY <1>2, <3>1 DEF TokensFit
    <3> QED
      BY <1>1, <1>4, <2>1, <2>3, <3>1, <3>2, <3>4, <3>5, <3>6, <3>7
  <2>4. CASE machine = NoToken
    <3> DEFINE new == [asking[c] EXCEPT !.phase = "minting"]
    <3>1. /\ new \in AskingType(given) /\ new.phase = "minting"
          /\ new.attempt = asking[c].attempt /\ new.since = asking[c].since
      BY <1>1, <2>1 DEF AskingType
    <3>2. asking' = [asking EXCEPT ![c] = new] /\ monitor' = c
      BY <1>1, <1>6, <2>4 DEF ServiceToken, AskingType
    <3> HIDE DEF new
    <3>3. /\ asking'[c] = new /\ \A d \in Caller : d # c => asking'[d] = asking[d]
      BY <1>1, <3>2
    <3>4. \A d \in Caller : asking'[d].phase \in {"minting", "minted"} =>
              monitor' = d /\ machine' = NoToken
      BY <2>1, <2>2, <2>4, <3>2, <3>3
    <3>5. CurrentAlive => CurrentAlive'
      BY <2>1, <2>2, <3>1, <3>3 DEF CurrentAlive
    <3>6. CallFits(c)'
      <4>1. CallFits(c)
        BY <1>2
      <4> QED
        BY <2>1, <3>1, <3>3, <3>5, <4>1 DEF CallFits, FirstAttempt, SecondAttempt
    <3>7. new.since <= rotation
      BY <1>2, <3>1 DEF TokensFit
    <3> QED
      BY <1>1, <1>4, <2>1, <3>1, <3>2, <3>4, <3>5, <3>6, <3>7
  <2> QED
    BY <2>3, <2>4
<1>7. ASSUME NEW c \in Caller, Mint(c) PROVE MachineInv'
  <2> DEFINE new == [asking[c] EXCEPT !.phase = "minted", !.token = given + 1]
  <2>1. /\ asking[c].phase = "minting" /\ given < MaxToken /\ given' = given + 1
        /\ accepted' = accepted \cup {given + 1} /\ asking[c] \in AskingType(given)
        /\ UNCHANGED <<rotation, machine, monitor, gaveUp>>
        /\ monitor = c /\ machine = NoToken
    BY <1>1, <1>2, <1>7 DEF Mint, MonitorFits
  <2>2. /\ new \in AskingType(given') /\ new.phase = "minted" /\ new.token = given'
        /\ new.attempt = asking[c].attempt /\ new.since = asking[c].since
    <3>1. asking[c] \in AskingType(given') /\ given + 1 \in 0..given'
      BY <1>1, <2>1 DEF AskingType
    <3>2. new \in AskingType(given')
      BY <3>1 DEF AskingType
    <3>3. /\ new.phase = "minted" /\ new.token = given + 1
          /\ new.attempt = asking[c].attempt /\ new.since = asking[c].since
      BY <3>1 DEF AskingType
    <3> QED
      BY <2>1, <3>2, <3>3
  <2>3. asking' = [asking EXCEPT ![c] = new]
    BY <1>1, <1>7, <2>1 DEF Mint, AskingType
  <2> HIDE DEF new
  <2>4. /\ asking'[c] = new /\ \A d \in Caller : d # c => asking'[d] = asking[d]
    BY <1>1, <2>3
  <2>5. /\ AskingType(given) \subseteq AskingType(given')
        /\ asking' \in [Caller -> AskingType(given')]
    <3>1. AskingType(given) \subseteq AskingType(given')
      BY <1>1, <2>1 DEF AskingType
    <3> QED
      BY <1>1, <2>2, <2>3, <3>1
  <2>6. MachineTypeOK' /\ RestartIsMadeGood'
    <3>1. given' \in 0..MaxToken /\ accepted' \subseteq 1..given' /\ machine' \in 0..given'
      BY <1>1, <2>1
    <3>2. gaveUp' = FALSE
      BY <1>1, <2>1
    <3> QED
      BY <1>1, <2>1, <2>5, <3>1, <3>2 DEF MachineTypeOK, AskingType, RestartIsMadeGood
  <2>7. MonitorFits'
    BY <1>2, <2>1, <2>4 DEF MonitorFits
  <2>8. TokensFit'
    BY <1>1, <1>2, <2>1, <2>2, <2>4 DEF TokensFit, NoToken
  <2>9. CurrentAlive => CurrentAlive'
    BY <2>1, <2>2, <2>4 DEF CurrentAlive
  <2>10. CallFits(c)'
    <3>1. CallFits(c)
      BY <1>2
    <3> QED
      BY <2>1, <2>2, <2>4, <2>9, <3>1 DEF CallFits, FirstAttempt, SecondAttempt
  <2>11. \A d \in Caller : CallFits(d)'
    <3>1. ASSUME NEW d \in Caller, d # c PROVE CallFits(d)'
      BY <2>1, <2>4, <2>9, <3>1, CallAtRest
    <3> QED
      BY <2>10, <3>1
  <2> QED
    BY <2>6, <2>7, <2>8, <2>11 DEF MachineInv
<1>8. ASSUME NEW c \in Caller, Minted(c) PROVE MachineInv'
  <2>1. /\ asking[c].phase = "minted" /\ monitor' = Free /\ asking[c] \in AskingType(given)
        /\ UNCHANGED <<given, accepted, rotation, gaveUp>>
        /\ monitor = c /\ machine = NoToken /\ asking[c].token # NoToken
        /\ asking[c].since <= rotation
    BY <1>1, <1>2, <1>8 DEF Minted, MonitorFits, TokensFit
  <2>2. \A d \in Caller : d # c => asking[d].phase \notin {"minting", "minted"}
    BY <1>2, <2>1 DEF MonitorFits
  <2>3. CASE machine' = asking[c].token /\ asking' = [asking EXCEPT ![c].phase = "sent"]
    <3> DEFINE new == [asking[c] EXCEPT !.phase = "sent"]
    <3>1. /\ new \in AskingType(given) /\ new.phase = "sent" /\ new.token = asking[c].token
          /\ new.attempt = asking[c].attempt /\ new.since = asking[c].since
      BY <1>1, <2>1 DEF AskingType
    <3>2. asking' = [asking EXCEPT ![c] = new] /\ machine' \in 0..given
      BY <1>1, <2>1, <2>3 DEF AskingType
    <3> HIDE DEF new
    <3>3. /\ asking'[c] = new /\ \A d \in Caller : d # c => asking'[d] = asking[d]
      BY <1>1, <3>2
    <3>4. \A d \in Caller : asking'[d].phase \notin {"minting", "minted"}
      BY <2>2, <3>1, <3>3
    <3>5. asking[c].token \in accepted => CurrentAlive'
      BY <2>1, <2>3, <3>4 DEF CurrentAlive
    <3>6. CurrentAlive => CurrentAlive'
      BY <2>1, <3>5 DEF CurrentAlive
    <3>7. CallFits(c)'
      <4>1. CallFits(c)
        BY <1>2
      <4> QED
        BY <2>1, <2>3, <3>1, <3>3, <3>5, <4>1 DEF CallFits, FirstAttempt, SecondAttempt
    <3>8. MachineTypeOK' /\ RestartIsMadeGood'
      <4>1. asking' \in [Caller -> AskingType(given)]
        BY <1>1, <3>1, <3>2
      <4> QED
        BY <1>1, <2>1, <3>2, <4>1 DEF MachineTypeOK, AskingType, RestartIsMadeGood
    <3>9. MonitorFits' /\ TokensFit'
      BY <1>2, <2>1, <3>1, <3>3, <3>4 DEF MonitorFits, TokensFit
    \* Of the others: one that was handed the token held before this one was fetched
    \* has no such token now, and what is held instead may be forgotten by then.
    <3>10. \A d \in Caller : CallFits(d)'
      <4>1. ASSUME NEW d \in Caller, d # c PROVE CallFits(d)'
        <5>1. CallFits(d) /\ TokensFit /\ asking'[d] = asking[d]
          BY <1>2, <3>3, <4>1
        <5> QED
          BY <2>1, <2>2, <3>6, <4>1, <5>1
             DEF CallFits, FirstAttempt, SecondAttempt, TokensFit
      <4> QED
        BY <3>7, <4>1
    <3> QED
      BY <3>8, <3>9, <3>10 DEF MachineInv
  <2>4. CASE asking' = [asking EXCEPT ![c] = NoAsking] /\ machine' = machine
    <3>1. /\ asking'[c] = NoAsking /\ \A d \in Caller : d # c => asking'[d] = asking[d]
          /\ NoAsking \in AskingType(given) /\ NoAsking.phase = "idle"
          /\ NoAsking.since <= rotation
      BY <1>1, <1>3, <2>4 DEF NoAsking
    <3>2. \A d \in Caller : asking'[d].phase \notin {"minting", "minted"}
      BY <2>2, <3>1
    <3>3. (CurrentAlive => CurrentAlive') /\ CallFits(c)'
      BY <2>1, <2>4, <3>1, <3>2 DEF CurrentAlive, CallFits
    <3>4. NoAsking.phase \notin {"minted", "sent", "refused"}
      BY <3>1
    <3> QED
      BY <1>1, <1>4, <2>1, <2>4, <3>1, <3>2, <3>3, <3>4
  <2> QED
    BY <1>8, <2>3, <2>4 DEF Minted
<1>9. ASSUME NEW c \in Caller, Answer(c) PROVE MachineInv'
  <2> DEFINE good == asking[c].token \in accepted
             new == IF ~good /\ asking[c].attempt = 0
                    THEN [asking[c] EXCEPT !.phase = "refused"] ELSE NoAsking
  <2>1. /\ asking[c].phase = "sent" /\ asking[c] \in AskingType(given)
        /\ UNCHANGED <<given, accepted, rotation, machine, monitor>>
        /\ asking[c].token # NoToken /\ asking[c].since <= rotation /\ CallFits(c)
    BY <1>1, <1>2, <1>9 DEF Answer, TokensFit
  <2>2. asking' = [asking EXCEPT ![c] = new]
    BY <1>1, <1>9 DEF Answer
  <2>3. gaveUp' = FALSE
    <3>1. ~(~good /\ asking[c].attempt = 1 /\ asking[c].since = rotation)
      BY <2>1 DEF CallFits, SecondAttempt
    <3> QED
      BY <1>1, <1>9, <3>1 DEF Answer
  <2>4. /\ new \in AskingType(given)
        /\ new.phase \in {"refused", "idle"}
        /\ new.phase = "refused" =>
              /\ ~good /\ new.attempt = 0 /\ asking[c].attempt = 0
              /\ new.token = asking[c].token /\ new.since = asking[c].since
        /\ new.since <= rotation
    <3>1. CASE ~good /\ asking[c].attempt = 0
      BY <1>1, <2>1, <3>1 DEF AskingType
    <3>2. CASE ~(~good /\ asking[c].attempt = 0)
      <4>1. new = NoAsking
        BY <3>2
      <4> QED
        BY <1>1, <1>3, <4>1 DEF NoAsking
    <3> QED
      BY <3>1, <3>2
  <2>5. good <=> asking[c].token \in accepted
    OBVIOUS
  <2> HIDE DEF new, good
  <2>6. /\ asking'[c] = new /\ \A d \in Caller : d # c => asking'[d] = asking[d]
        /\ \A d \in Caller : asking'[d].phase \in {"minting", "minted"} => asking'[d] = asking[d]
    BY <1>1, <2>2, <2>4
  <2>7. \A d \in Caller : asking'[d].phase \in {"minting", "minted"} =>
            monitor' = d /\ machine' = NoToken
    BY <1>2, <2>1, <2>6 DEF MonitorFits
  <2>8. CurrentAlive => CurrentAlive'
    BY <2>1, <2>6 DEF CurrentAlive
  <2>9. CallFits(c)'
    BY <2>1, <2>4, <2>5, <2>6, <2>8 DEF CallFits, FirstAttempt
  <2>10. new.phase \in {"minted", "sent", "refused"} => new.token # NoToken
    BY <2>1, <2>4
  <2> QED
    BY <1>1, <1>4, <2>1, <2>2, <2>3, <2>4, <2>7, <2>8, <2>9, <2>10
<1>10. ASSUME NEW c \in Caller, DropToken(c) PROVE MachineInv'
  <2> DEFINE new == [asking[c] EXCEPT !.phase = "token", !.attempt = 1]
  <2>1. /\ asking[c].phase = "refused" /\ monitor = Free /\ asking[c] \in AskingType(given)
        /\ machine' = IF machine = asking[c].token THEN NoToken ELSE machine
        /\ UNCHANGED <<given, accepted, rotation, monitor, gaveUp>>
        /\ asking[c].attempt = 0 /\ asking[c].since <= rotation /\ CallFits(c)
    BY <1>1, <1>2, <1>10 DEF DropToken, TokensFit
  <2>2. \A d \in Caller : asking[d].phase \notin {"minting", "minted"}
    BY <1>1, <1>2, <2>1 DEF MonitorFits
  <2>3. /\ new \in AskingType(given) /\ new.phase = "token" /\ new.attempt = 1
        /\ new.since = asking[c].since
    BY <1>1, <2>1 DEF AskingType
  <2>4. asking' = [asking EXCEPT ![c] = new]
    BY <1>1, <1>10, <2>1 DEF DropToken, AskingType
  <2> HIDE DEF new
  <2>5. /\ asking'[c] = new /\ \A d \in Caller : d # c => asking'[d] = asking[d]
    BY <1>1, <2>4
  <2>6. \A d \in Caller : asking'[d].phase \notin {"minting", "minted"}
    BY <2>2, <2>3, <2>5
  <2>7. /\ CurrentAlive \/ machine = asking[c].token => CurrentAlive'
        /\ machine' # machine => CurrentAlive'
    BY <2>1, <2>6 DEF CurrentAlive
  <2>8. CallFits(c)'
    BY <2>1, <2>3, <2>5, <2>7 DEF CallFits, FirstAttempt, SecondAttempt
  <2>9. machine' \in 0..given
    BY <1>1, <2>1 DEF NoToken
  <2> QED
    BY <1>1, <1>4, <2>1, <2>3, <2>4, <2>6, <2>7, <2>8, <2>9
<1>11. CASE MachineExpires
  <2>1. /\ machine # NoToken /\ machine' = NoToken
        /\ UNCHANGED <<given, accepted, rotation, monitor, asking, gaveUp>>
    BY <1>11 DEF MachineExpires
  <2>2. \A d \in Caller : asking[d].phase \notin {"minting", "minted"}
    BY <1>2, <2>1 DEF MonitorFits
  <2>3. CurrentAlive'
    BY <2>1, <2>2 DEF CurrentAlive
  <2>4. MachineTypeOK' /\ RestartIsMadeGood' /\ MonitorFits' /\ TokensFit'
    <3>1. gaveUp' = FALSE /\ machine' \in 0..given'
      BY <1>1, <2>1 DEF NoToken
    <3>2. MachineTypeOK' /\ RestartIsMadeGood'
      BY <1>1, <2>1, <3>1 DEF MachineTypeOK, AskingType, RestartIsMadeGood
    <3> QED
      BY <1>2, <2>1, <2>2, <3>2 DEF MonitorFits, TokensFit
  <2>5. \A d \in Caller : CallFits(d)'
    BY <2>1, <2>3, CallAtRest
  <2> QED
    BY <2>4, <2>5 DEF MachineInv
<1>12. CASE Rotate
  <2>1. /\ rotation < MaxRotation /\ rotation' = rotation + 1 /\ accepted' = {}
        /\ UNCHANGED <<given, machine, monitor, asking, gaveUp>>
    BY <1>12 DEF Rotate
  <2>2. MachineTypeOK' /\ RestartIsMadeGood' /\ MonitorFits'
    <3>1. gaveUp' = FALSE /\ rotation' \in 0..MaxRotation /\ accepted' \subseteq 1..given'
      BY <1>1, <2>1
    <3>2. MachineTypeOK' /\ RestartIsMadeGood'
      BY <1>1, <2>1, <3>1 DEF MachineTypeOK, AskingType, RestartIsMadeGood
    <3> QED
      BY <1>2, <2>1, <3>2 DEF MonitorFits
  <2>3. \A d \in Caller : asking[d].since \in 0..MaxRotation /\ asking[d].since <= rotation
    BY <1>1, <1>2 DEF AskingType, TokensFit
  <2>4. TokensFit' /\ \A d \in Caller : asking'[d].since # rotation'
    BY <1>1, <1>2, <2>1, <2>3 DEF TokensFit
  <2>5. \A d \in Caller : CallFits(d)'
    BY <2>4 DEF CallFits
  <2> QED
    BY <2>2, <2>4, <2>5 DEF MachineInv
<1>13. CASE UNCHANGED MachineVars
  <2>1. UNCHANGED <<given, accepted, rotation, machine, monitor, asking, gaveUp>>
    BY <1>13 DEF MachineVars
  <2>2. MachineTypeOK' /\ RestartIsMadeGood' /\ MonitorFits' /\ TokensFit'
    BY <1>2, <2>1 DEF MachineInv, MachineTypeOK, RestartIsMadeGood, MonitorFits, TokensFit
  <2>3. CurrentAlive' <=> CurrentAlive
    BY <2>1 DEF CurrentAlive
  <2>4. \A d \in Caller : CallFits(d)'
    BY <2>1, <2>3, CallAtRest
  <2> QED
    BY <2>2, <2>4 DEF MachineInv
<1> QED
  BY <1>5, <1>6, <1>7, <1>8, <1>9, <1>10, <1>11, <1>12, <1>13 DEF MachineNext

-----------------------------------------------------------------------------
(***************************************************************************)
(* The token of a sign-in                                                  *)
(***************************************************************************)
TokenFlowTypes ==
    /\ login.revoked \in BOOLEAN /\ login.expires \in Nat
    /\ DOMAIN login = {"revoked", "expires"}
    /\ DOMAIN loginCode = {"state", "until"}
    /\ redeem \in [Redeemer -> {"idle", "looked", "claimed"}]
    /\ handed \in Nat /\ hour \in Nat
    /\ renewal \in [Renewer ->
          [phase : {"idle", "inspected", "computed", "updated"}, until : Nat]]

\* Whoever claimed the code used it up, and is alone with it.
ClaimedAlone ==
    /\ \A a \in Redeemer : redeem[a] = "claimed" =>
          /\ loginCode.state = "used" /\ handed = 0
          /\ \A b \in Redeemer : redeem[b] = "claimed" => b = a
    /\ handed > 0 => loginCode.state = "used"

TokenFlowInv ==
    /\ TokenFlowTypes /\ ClaimedAlone /\ OneTokenPerCode
    /\ login.expires <= MaxAge
    /\ \A r \in Renewer : renewal[r].phase = "computed" => renewal[r].until <= MaxAge

LEMMA TokenFlowStep == TokenFlowInv /\ [TokenFlowNext]_TokenFlowVars =>
    /\ TokenFlowInv'
    /\ login.revoked \/ login.expires <= hour => login'.revoked \/ login'.expires <= hour'
    /\ login'.expires >= login.expires
<1> SUFFICES ASSUME TokenFlowInv, [TokenFlowNext]_TokenFlowVars
             PROVE  /\ TokenFlowInv'
                    /\ login.revoked \/ login.expires <= hour =>
                          login'.revoked \/ login'.expires <= hour'
                    /\ login'.expires >= login.expires
  OBVIOUS
<1> DEFINE Type == [phase : {"idle", "inspected", "computed", "updated"}, until : Nat]
<1>1. /\ login.revoked \in BOOLEAN /\ login.expires \in Nat /\ login.expires <= MaxAge
      /\ DOMAIN login = {"revoked", "expires"} /\ DOMAIN loginCode = {"state", "until"}
      /\ redeem \in [Redeemer -> {"idle", "looked", "claimed"}]
      /\ handed \in Nat /\ handed <= 1 /\ hour \in Nat /\ renewal \in [Renewer -> Type]
      /\ \A r \in Renewer : renewal[r].phase = "computed" => renewal[r].until <= MaxAge
      /\ TTL \in Nat /\ MaxAge \in Nat
  BY TokenFlowAssumption DEF TokenFlowInv, TokenFlowTypes, OneTokenPerCode
<1>2. ClaimedAlone
  BY DEF TokenFlowInv
\* The code's part and the session's part do not meet.
<1>3. ASSUME loginCode' = loginCode, redeem' = redeem, handed' = handed
      PROVE  ClaimedAlone' /\ OneTokenPerCode'
  BY <1>1, <1>2, <1>3 DEF ClaimedAlone, OneTokenPerCode
<1>4. ASSUME login' = login, hour' = hour
      PROVE  /\ login.revoked \/ login.expires <= hour =>
                  login'.revoked \/ login'.expires <= hour'
             /\ login'.expires >= login.expires /\ login'.expires <= MaxAge
  BY <1>1, <1>4
<1>5. CASE IssueCode
  <2>1. /\ loginCode.state = "none" /\ loginCode' = [state |-> "open", until |-> hour + 1]
        /\ UNCHANGED <<login, access, redeem, handed, renewal, revoking, hour>>
    BY <1>5 DEF IssueCode
  <2>2. ClaimedAlone' /\ OneTokenPerCode'
    BY <1>1, <1>2, <2>1 DEF ClaimedAlone, OneTokenPerCode
  <2>3. TokenFlowTypes'
    BY <1>1, <2>1 DEF TokenFlowTypes
  <2> QED
    BY <1>1, <1>4, <2>1, <2>2, <2>3 DEF TokenFlowInv
<1>6. ASSUME NEW a \in Redeemer, LookAtCode(a) \/ Claim(a) \/ HandToken(a)
      PROVE  /\ ClaimedAlone' /\ OneTokenPerCode' /\ TokenFlowTypes'
             /\ login' = login /\ hour' = hour /\ renewal' = renewal
  <2>1. /\ UNCHANGED <<login, access, renewal, revoking, hour>>
    BY <1>6 DEF LookAtCode, Claim, HandToken
  <2>2. CASE LookAtCode(a)
    <3>1. /\ redeem' = [redeem EXCEPT ![a] = "looked"] /\ UNCHANGED <<loginCode, handed>>
      BY <2>2 DEF LookAtCode
    <3>2. \A b \in Redeemer : redeem'[b] = "claimed" => redeem[b] = "claimed"
      BY <1>1, <3>1
    <3>3. ClaimedAlone' /\ OneTokenPerCode'
      BY <1>1, <1>2, <3>1, <3>2 DEF ClaimedAlone, OneTokenPerCode
    <3> QED
      BY <1>1, <2>1, <3>1, <3>3 DEF TokenFlowTypes
  <2>3. CASE Claim(a) /\ CodeGood
    <3>1. /\ loginCode.state = "open" /\ loginCode' = [loginCode EXCEPT !.state = "used"]
          /\ redeem' = [redeem EXCEPT ![a] = "claimed"] /\ handed' = handed
      BY <2>3 DEF Claim, CodeGood
    <3>2. /\ loginCode'.state = "used" /\ DOMAIN loginCode' = {"state", "until"}
          /\ handed = 0 /\ \A b \in Redeemer : redeem[b] # "claimed"
      BY <1>1, <1>2, <3>1 DEF ClaimedAlone
    <3>3. \A b \in Redeemer : redeem'[b] = "claimed" => b = a
      BY <1>1, <3>1, <3>2
    <3>4. ClaimedAlone' /\ OneTokenPerCode'
      BY <1>1, <3>1, <3>2, <3>3 DEF ClaimedAlone, OneTokenPerCode
    <3> QED
      BY <1>1, <2>1, <3>1, <3>2, <3>4 DEF TokenFlowTypes
  <2>4. CASE Claim(a) /\ ~CodeGood
    <3>1. /\ redeem' = [redeem EXCEPT ![a] = "idle"] /\ UNCHANGED <<loginCode, handed>>
      BY <2>4 DEF Claim
    <3>2. \A b \in Redeemer : redeem'[b] = "claimed" => redeem[b] = "claimed"
      BY <1>1, <3>1
    <3>3. ClaimedAlone' /\ OneTokenPerCode'
      BY <1>1, <1>2, <3>1, <3>2 DEF ClaimedAlone, OneTokenPerCode
    <3> QED
      BY <1>1, <2>1, <3>1, <3>3 DEF TokenFlowTypes
  <2>5. CASE HandToken(a)
    <3>1. /\ redeem[a] = "claimed" /\ handed' \in {handed, handed + 1}
          /\ redeem' = [redeem EXCEPT ![a] = "idle"] /\ loginCode' = loginCode
      BY <2>5 DEF HandToken
    <3>2. /\ loginCode.state = "used" /\ handed = 0
          /\ \A b \in Redeemer : redeem[b] = "claimed" => b = a
      BY <1>2, <3>1 DEF ClaimedAlone
    <3>3. \A b \in Redeemer : redeem'[b] # "claimed"
      BY <1>1, <3>1, <3>2
    <3>4. ClaimedAlone' /\ OneTokenPerCode' /\ handed' \in Nat
      BY <3>1, <3>2, <3>3 DEF ClaimedAlone, OneTokenPerCode
    <3> QED
      BY <1>1, <2>1, <3>1, <3>4 DEF TokenFlowTypes
  <2> QED
    BY <1>6, <2>1, <2>2, <2>3, <2>4, <2>5
<1>7. ASSUME NEW r \in Renewer, NEW new \in Type, renewal' = [renewal EXCEPT ![r] = new],
             new.phase = "computed" => new.until <= MaxAge
      PROVE  /\ renewal' \in [Renewer -> Type]
             /\ \A q \in Renewer :
                   renewal'[q].phase = "computed" => renewal'[q].until <= MaxAge
  BY <1>1, <1>7
<1>8. ASSUME NEW r \in Renewer, Renew(r) \/ WorkOutExpiry(r) \/ Extend(r) \/ RenewalAnswered(r)
      PROVE  /\ renewal' \in [Renewer -> Type]
             /\ \A q \in Renewer :
                   renewal'[q].phase = "computed" => renewal'[q].until <= MaxAge
             /\ UNCHANGED <<loginCode, redeem, handed, hour>>
  <2>1. UNCHANGED <<loginCode, redeem, handed, hour>>
    BY <1>8 DEF Renew, WorkOutExpiry, Extend, RenewalAnswered
  <2>2. /\ renewal[r] \in Type /\ NoRenewal \in Type /\ NoRenewal.phase = "idle"
    BY <1>1 DEF NoRenewal
  <2>3. CASE Renew(r)
    <3> DEFINE new == [renewal[r] EXCEPT !.phase = "inspected"]
    <3>1. new \in Type /\ new.phase = "inspected"
      BY <2>2
    <3>2. renewal' = [renewal EXCEPT ![r] = new]
      BY <1>1, <2>3 DEF Renew
    <3> HIDE DEF new
    <3> QED
      BY <1>7, <2>1, <3>1, <3>2
  <2>4. CASE WorkOutExpiry(r)
    <3> DEFINE until == Least(MaxAge, hour + TTL)
               new == IF until > hour THEN [phase |-> "computed", until |-> until]
                                      ELSE NoRenewal
    <3>1. until \in Nat /\ until <= MaxAge
      BY <1>1 DEF Least
    <3>2. renewal' = [renewal EXCEPT ![r] = new]
      BY <2>4 DEF WorkOutExpiry
    <3> HIDE DEF until
    <3>3. new \in Type /\ (new.phase = "computed" => new.until <= MaxAge)
      <4>1. CASE until > hour
        BY <3>1, <4>1
      <4>2. CASE ~(until > hour)
        BY <2>2, <4>2
      <4> QED
        BY <4>1, <4>2
    <3> HIDE DEF new
    <3> QED
      BY <1>7, <2>1, <3>2, <3>3
  <2>5. CASE Extend(r)
    <3> DEFINE new == [renewal[r] EXCEPT !.phase = "updated"]
    <3>1. new \in Type /\ new.phase = "updated"
      BY <2>2
    <3>2. renewal' = [renewal EXCEPT ![r] = new]
      BY <1>1, <2>5 DEF Extend
    <3> HIDE DEF new
    <3> QED
      BY <1>7, <2>1, <3>1, <3>2
  <2>6. CASE RenewalAnswered(r)
    <3>1. renewal' = [renewal EXCEPT ![r] = NoRenewal]
      BY <2>6 DEF RenewalAnswered
    <3> QED
      BY <1>7, <2>1, <2>2, <3>1
  <2> QED
    BY <1>8, <2>3, <2>4, <2>5, <2>6
<1>9. ASSUME NEW r \in Renewer, Extend(r)
      PROVE  /\ login'.revoked \in BOOLEAN /\ login'.expires \in Nat
             /\ DOMAIN login' = {"revoked", "expires"} /\ login'.expires <= MaxAge
             /\ login.revoked \/ login.expires <= hour =>
                   login'.revoked \/ login'.expires <= hour
             /\ login'.expires >= login.expires
  <2>1. renewal[r].phase = "computed" /\ renewal[r].until \in Nat
    BY <1>1, <1>9 DEF Extend
  <2>2. CASE ~login.revoked /\ hour < login.expires /\ login.expires < renewal[r].until
    <3>1. login' = [login EXCEPT !.expires = renewal[r].until]
      BY <1>9, <2>2 DEF Extend
    <3>2. /\ login'.revoked = login.revoked /\ login'.expires = renewal[r].until
          /\ DOMAIN login' = {"revoked", "expires"}
      BY <1>1, <3>1
    <3> QED
      BY <1>1, <2>1, <2>2, <3>2
  <2>3. CASE ~(~login.revoked /\ hour < login.expires /\ login.expires < renewal[r].until)
    <3>1. login' = login
      BY <1>9, <2>3 DEF Extend
    <3> QED
      BY <1>1, <3>1
  <2> QED
    BY <2>2, <2>3
<1>10. CASE \E a \in Redeemer : LookAtCode(a) \/ Claim(a) \/ HandToken(a)
  BY <1>1, <1>4, <1>6, <1>10 DEF TokenFlowInv
<1>11. ASSUME NEW r \in Renewer, Renew(r) \/ WorkOutExpiry(r) \/ Extend(r) \/ RenewalAnswered(r)
       PROVE  /\ TokenFlowInv'
              /\ login.revoked \/ login.expires <= hour =>
                    login'.revoked \/ login'.expires <= hour'
              /\ login'.expires >= login.expires
  <2>1. /\ renewal' \in [Renewer -> Type]
        /\ \A q \in Renewer : renewal'[q].phase = "computed" => renewal'[q].until <= MaxAge
        /\ UNCHANGED <<loginCode, redeem, handed, hour>>
    BY <1>8, <1>11
  <2>2. ClaimedAlone' /\ OneTokenPerCode'
    BY <1>3, <2>1
  <2>3. login' = login \/ Extend(r)
    BY <1>11 DEF Renew, WorkOutExpiry, RenewalAnswered
  <2>4. /\ login'.revoked \in BOOLEAN /\ login'.expires \in Nat
        /\ DOMAIN login' = {"revoked", "expires"} /\ login'.expires <= MaxAge
        /\ login.revoked \/ login.expires <= hour => login'.revoked \/ login'.expires <= hour'
        /\ login'.expires >= login.expires
    BY <1>1, <1>4, <1>9, <2>1, <2>3
  <2>5. TokenFlowTypes'
    BY <1>1, <2>1, <2>4 DEF TokenFlowTypes
  <2> QED
    BY <2>1, <2>2, <2>4, <2>5 DEF TokenFlowInv
<1>12. CASE Revoke
  <2>1. /\ login' = [login EXCEPT !.revoked = TRUE]
        /\ UNCHANGED <<access, loginCode, redeem, handed, renewal, hour>>
    BY <1>12 DEF Revoke
  <2>2. /\ login'.revoked = TRUE /\ login'.expires = login.expires
        /\ DOMAIN login' = {"revoked", "expires"}
    BY <1>1, <2>1
  <2>3. ClaimedAlone' /\ OneTokenPerCode' /\ TokenFlowTypes'
    BY <1>1, <1>3, <2>1, <2>2 DEF TokenFlowTypes
  <2> QED
    BY <1>1, <2>1, <2>2, <2>3 DEF TokenFlowInv
<1>13. CASE Hour
  <2>1. /\ hour' = hour + 1
        /\ UNCHANGED <<login, access, loginCode, redeem, handed, renewal, revoking>>
    BY <1>13 DEF Hour
  <2>2. ClaimedAlone' /\ OneTokenPerCode' /\ TokenFlowTypes'
    BY <1>1, <1>3, <2>1 DEF TokenFlowTypes
  <2> QED
    BY <1>1, <2>1, <2>2 DEF TokenFlowInv
<1>14. CASE AskToRevoke \/ GrantOrWithdraw \/ UNCHANGED TokenFlowVars
  <2>1. UNCHANGED <<login, loginCode, redeem, handed, renewal, hour>>
    BY <1>14 DEF AskToRevoke, GrantOrWithdraw, TokenFlowVars
  <2>2. ClaimedAlone' /\ OneTokenPerCode' /\ TokenFlowTypes'
    BY <1>1, <1>3, <2>1 DEF TokenFlowTypes
  <2> QED
    BY <1>1, <1>4, <2>1, <2>2 DEF TokenFlowInv
<1> QED
  BY <1>5, <1>10, <1>11, <1>12, <1>13, <1>14 DEF TokenFlowNext

\* An account of the identity centre, its sessions and the tokens made from them, and
\* the machine token the kernel asks about them with: all that is promised of them,
\* for any number of sessions, callers, codes and hours (sessions.service.ts,
\* unified-session.service.ts, IdentityClient.java).
THEOREM AccountsStand == IdentitySpec => AccountsHold
<1>1. MachineInit => MachineInv
  <2> SUFFICES ASSUME MachineInit PROVE MachineInv
    OBVIOUS
  <2>1. /\ given = 0 /\ accepted = {} /\ rotation = 0 /\ machine = 0 /\ monitor = Free
        /\ asking = [c \in Caller |-> NoAsking] /\ gaveUp = FALSE
        /\ NoAsking.phase = "idle" /\ NoAsking.since = 0
        /\ \A c \in Caller : NoAsking \in AskingType(0)
    BY MachineAssumption DEF MachineInit, NoAsking, NoToken, AskingType
  <2>2. MachineTypeOK
    <3>1. /\ given \in 0..MaxToken /\ accepted \subseteq 1..given /\ machine \in 0..given
          /\ rotation \in 0..MaxRotation
      BY <2>1, MachineAssumption
    <3>2. asking \in [Caller -> AskingType(given)]
      BY <2>1
    <3> QED
      BY <2>1, <3>1, <3>2 DEF MachineTypeOK, AskingType
  <2> QED
    BY <2>1, <2>2 DEF MachineInv, MonitorFits, TokensFit, RestartIsMadeGood, CallFits
<1>2. MachineInv /\ [MachineNext]_MachineVars => MachineInv'
  BY MachineStep
<1>3. MachineInv => RestartIsMadeGood
  BY DEF MachineInv
<1>4. TokenFlowInit => TokenFlowInv
  <2> SUFFICES ASSUME TokenFlowInit PROVE TokenFlowInv
    OBVIOUS
  <2>1. Least(TTL, MaxAge) \in Nat /\ Least(TTL, MaxAge) <= MaxAge
    BY TokenFlowAssumption DEF Least
  <2> QED
    BY <2>1 DEF TokenFlowInit, TokenFlowInv, TokenFlowTypes, ClaimedAlone, OneTokenPerCode,
                NoRenewal
<1>5. TokenFlowInv /\ [TokenFlowNext]_TokenFlowVars =>
        /\ TokenFlowInv'
        /\ [login.revoked \/ login.expires <= hour =>
              login'.revoked \/ login'.expires <= hour']_TokenFlowVars
        /\ [login'.expires >= login.expires /\ login'.expires <= MaxAge]_TokenFlowVars
  BY TokenFlowStep DEF TokenFlowInv
<1>6. TokenFlowInv => OneTokenPerCode
  BY DEF TokenFlowInv
<1> QED
  BY FactorsStand, <1>1, <1>2, <1>3, <1>4, <1>5, <1>6, PTL
     DEF IdentitySpec, AccountsHold, MachineSpec, TokenFlowSpec, TokensEndInTime,
         EndsForGood, NeverShortened

-----------------------------------------------------------------------------
(***************************************************************************)
(* The switch of the catalogue to its database, and the way back           *)
(***************************************************************************)
\* What the store holds that the next command starts a program on.
StoreAhead ==
    /\ script = "idle" => desktop # "stopped"
    /\ script = "importing" => desktop = "stopped" /\ json >= changes
    /\ script = "starting" => desktop # "json" /\ database.rows >= changes
    /\ script \in {"exporting", "return"} => desktop = "stopped" /\ database.rows >= changes
    /\ script = "returning" => desktop = "json" /\ database.rows >= changes

SwitchInv ==
    /\ json \in Nat /\ changes \in Nat
    /\ database \in [rows : Nat, imported : Nat, up : BOOLEAN]
    /\ desktop \in {"json", "database", "stopped"}
    /\ StoreAhead /\ NothingForgotten

LEMMA SwitchStep ==
    SwitchInv /\ [SwitchNext]_switchVars => SwitchInv'
<1> SUFFICES ASSUME SwitchInv, [SwitchNext]_switchVars PROVE SwitchInv'
  OBVIOUS
<1> USE DEF SwitchInv, StoreAhead, NothingForgotten
<1>1. CASE Change
  BY <1>1 DEF Change
<1>2. CASE DatabaseFails
  <2>1. database'.rows = database.rows /\ database' \in [rows : Nat, imported : Nat, up : BOOLEAN]
    BY <1>2 DEF DatabaseFails
  <2> QED
    BY <1>2, <2>1 DEF DatabaseFails
<1>3. CASE StopForSwitch \/ StopForReturn
  BY <1>3 DEF StopForSwitch, StopForReturn
<1>4. CASE Import \/ ImportFails
  <2>1. Imported \in [rows : Nat, imported : Nat, up : BOOLEAN] /\ Imported.rows = json
    BY DEF Imported
  <2> QED
    BY <1>4, <2>1 DEF Import, ImportFails
<1>5. CASE StartNew \/ SetLink \/ GiveUpNew
  BY <1>5 DEF StartNew, SetLink, GiveUpNew
<1>6. CASE ExportBack \/ ExportFails
  BY <1>6 DEF ExportBack, ExportFails, Exported
<1>7. CASE Return \/ Returned \/ ReturnFails
  BY <1>7 DEF Return, Returned, ReturnFails, Exported
<1>8. CASE UNCHANGED switchVars
  BY <1>8 DEF switchVars
<1> QED
  BY <1>1, <1>2, <1>3, <1>4, <1>5, <1>6, <1>7, <1>8 DEF SwitchNext

-----------------------------------------------------------------------------
(***************************************************************************)
(* The release of the platform by deployers                                *)
(***************************************************************************)
Steps == {"preflight", "lock", "backup", "build", "freeze", "migrate", "start",
          "acceptance", "rollback", "verify", "release", "over"}
Mays == SUBSET {"files", "database"}
Deploys == [step : Steps, may : Mays, held : BOOLEAN, cut : BOOLEAN]
Parts == Deployer \cup {Before, "stopped"}
Servers == [files : Parts, env : Parts, image : Parts, running : Parts, schema : Parts,
            writes : Nat]
Backups == [ready : BOOLEAN, sums : BOOLEAN, files : Parts, image : Parts, schema : Parts,
            writes : Nat]

ReleaseTypes ==
    /\ server \in Servers /\ backup \in [Deployer -> Backups]
    /\ deploy \in [Deployer -> Deploys]
    /\ approved \in Nat

\* From the backup on a deployer is in the lock.
HoldsLock ==
    \A d \in Deployer : At(d, "backup") \/ Changing(d) => remoteLock = d

\* What a deployer says may have changed: nothing before its backup is made, the files
\* until the gateway is stopped.
MayFits(d) ==
    /\ deploy[d].step \in {"preflight", "lock", "backup"} => deploy[d].may = {}
    /\ deploy[d].step \in {"build", "freeze"} => deploy[d].may = {"files"}

\* From the moment the gateway is stopped until the rollback is verified, the copy a
\* deployer would restore has all that is approved.
AtStake(d) ==
    \/ deploy[d].step \in {"migrate", "start", "acceptance"}
    \/ /\ deploy[d].step \in {"rollback", "verify"}
       /\ "database" \in deploy[d].may /\ d \notin marker
CopyIsLast(d) ==
    /\ deploy[d].step \in {"freeze", "migrate", "start"} => server.image = d
    /\ deploy[d].step \in {"migrate", "start"} => server.running = "stopped"
    /\ AtStake(d) => backup[d].writes >= approved

ReleaseInv ==
    /\ ReleaseTypes /\ HoldsLock /\ AnswersSurvive
    /\ \A d \in Deployer : MayFits(d) /\ CopyIsLast(d)

LEMMA HoldersAreAlone ==
    HoldsLock => OneReleaseAtATime
BY DEF HoldsLock, OneReleaseAtATime

\* The deployer in the lock takes a step: only what it says of itself can break.
LEMMA HolderSteps ==
    ASSUME ReleaseInv, NEW d \in Deployer, At(d, "backup") \/ Changing(d),
           ReleaseTypes', AnswersSurvive', UNCHANGED remoteLock, marker \subseteq marker',
           \A o \in Deployer \ {d} : deploy'[o] = deploy[o] /\ backup'[o] = backup[o],
           MayFits(d)', CopyIsLast(d)'
    PROVE  ReleaseInv'
<1>1. remoteLock = d /\ \A o \in Deployer \ {d} : ~At(o, "backup") /\ ~Changing(o)
  BY DEF ReleaseInv, HoldsLock
<1>2. HoldsLock'
  BY <1>1 DEF HoldsLock, At, Changing
<1>3. ASSUME NEW o \in Deployer \ {d} PROVE MayFits(o)' /\ CopyIsLast(o)'
  BY <1>1, <1>3 DEF ReleaseInv, MayFits, CopyIsLast, AtStake, At, Changing
<1> QED
  BY <1>2, <1>3 DEF ReleaseInv

\* A step that leaves production, the backups and the lock alone, of a deployer that is
\* not in the middle of a change afterwards.
LEMMA IdleSteps ==
    ASSUME ReleaseInv, NEW d \in Deployer,
           UNCHANGED <<server, backup, marker, approved>>, ReleaseTypes',
           \A o \in Deployer \ {d} : deploy'[o] = deploy[o],
           deploy'[d].step \in {"preflight", "lock", "release", "over"},
           deploy'[d].step \in {"preflight", "lock"} => deploy'[d].may = {},
           remoteLock' = remoteLock \/ remoteLock \notin Deployer \ {d}
    PROVE  ReleaseInv'
<1>1. HoldsLock'
  BY DEF ReleaseInv, HoldsLock, At, Changing
<1>2. MayFits(d)' /\ CopyIsLast(d)'
  BY DEF MayFits, CopyIsLast, AtStake, At
<1>3. ASSUME NEW o \in Deployer \ {d} PROVE MayFits(o)' /\ CopyIsLast(o)'
  BY <1>3 DEF ReleaseInv, MayFits, CopyIsLast, AtStake, At
<1>4. AnswersSurvive'
  BY DEF ReleaseInv, AnswersSurvive
<1> QED
  BY <1>1, <1>2, <1>3, <1>4 DEF ReleaseInv

\* Going to another step changes nothing else of a deployer.
LEMMA ToStep ==
    ASSUME ReleaseInv, NEW d \in Deployer, NEW step \in Steps, To(d, step)
    PROVE  /\ deploy' \in [Deployer -> Deploys]
           /\ deploy'[d].step = step /\ deploy'[d].may = deploy[d].may
           /\ \A o \in Deployer \ {d} : deploy'[o] = deploy[o]
BY DEF To, ReleaseInv, ReleaseTypes, Deploys

LEMMA FailStep ==
    ASSUME ReleaseInv, NEW d \in Deployer, Fail(d)
    PROVE  /\ deploy' \in [Deployer -> Deploys]
           /\ deploy'[d].step \in {"rollback", "release"} /\ deploy'[d].may = deploy[d].may
           /\ deploy[d].may = {} => deploy'[d].step = "release"
           /\ \A o \in Deployer \ {d} : deploy'[o] = deploy[o]
<1> DEFINE next == IF "files" \in deploy[d].may THEN "rollback" ELSE "release"
<1>1. next \in Steps /\ To(d, next)
  BY DEF Fail, Steps
<1> QED
  BY <1>1, ToStep

LEMMA ApproachesLock ==
    ASSUME ReleaseInv, NEW d \in Deployer,
           \/ Preflight(d) \/ GiveBack(d) \/ GiveBackFails(d) \/ TryAgain(d) \/ BackupFails(d)
    PROVE  ReleaseInv'
<1>1. deploy \in [Deployer -> Deploys]
  BY DEF ReleaseInv, ReleaseTypes
<1>2. CASE Preflight(d)
  <2>1. PICK step \in {"lock", "over"} : To(d, step)
    BY <1>2 DEF Preflight
  <2>2. step \in Steps /\ deploy[d].may = {}
    BY <1>2 DEF Steps, Preflight, At, ReleaseInv, MayFits
  <2>3. UNCHANGED <<server, backup, marker, remoteLock, approved>>
    BY <1>2 DEF Preflight, Alone
  <2>4. ReleaseTypes'
    BY <2>1, <2>2, <2>3, ToStep DEF ReleaseInv, ReleaseTypes
  <2> QED
    BY <2>1, <2>2, <2>3, <2>4, ToStep, IdleSteps
<1>3. CASE GiveBack(d) \/ GiveBackFails(d)
  <2>1. /\ To(d, "over") /\ "over" \in Steps
        /\ UNCHANGED <<server, backup, marker, approved>>
        /\ remoteLock' = remoteLock \/ remoteLock = d
    BY <1>3 DEF GiveBack, GiveBackFails, Steps, Alone, Owned
  <2>2. ReleaseTypes'
    BY <2>1, ToStep DEF ReleaseInv, ReleaseTypes
  <2> QED
    BY <2>1, <2>2, ToStep, IdleSteps
<1>4. CASE TryAgain(d)
  <2>1. /\ deploy[d].may = {} /\ UNCHANGED <<server, backup, marker, remoteLock, approved>>
        /\ deploy' = [deploy EXCEPT ![d].step = "preflight", ![d].held = FALSE]
        /\ "preflight" \in Steps
    BY <1>4 DEF TryAgain, Alone, Steps
  <2>2. /\ deploy' \in [Deployer -> Deploys]
        /\ deploy'[d].step = "preflight" /\ deploy'[d].may = {}
        /\ \A o \in Deployer \ {d} : deploy'[o] = deploy[o]
    BY <1>1, <2>1 DEF Deploys
  <2>3. ReleaseTypes'
    BY <2>1, <2>2 DEF ReleaseInv, ReleaseTypes
  <2> QED
    BY <2>1, <2>2, <2>3, IdleSteps
<1>5. CASE BackupFails(d)
  <2>1. /\ deploy[d].may = {} /\ Fail(d)
        /\ UNCHANGED <<server, backup, marker, remoteLock, approved>>
    BY <1>5 DEF BackupFails, Alone, At, ReleaseInv, MayFits
  <2>2. ReleaseTypes'
    BY <2>1, FailStep DEF ReleaseInv, ReleaseTypes
  <2> QED
    BY <2>1, <2>2, FailStep, IdleSteps
<1> QED
  BY <1>2, <1>3, <1>4, <1>5

LEMMA LockIsAsked ==
    ASSUME ReleaseInv, NEW d \in Deployer, NEW heard \in BOOLEAN, AcquireLock(d, heard)
    PROVE  ReleaseInv'
<1> USE ReleaseAssumption
<1>1. /\ deploy \in [Deployer -> Deploys]
      /\ deploy[d].may = {} /\ {"lock", "backup", "release"} \subseteq Steps
      /\ UNCHANGED <<server, backup, marker, approved>>
  BY DEF ReleaseInv, ReleaseTypes, AcquireLock, At, MayFits, Steps
<1>2. CASE remoteLock = "free" /\ heard
  <2>1. remoteLock' = d /\ deploy' = [deploy EXCEPT ![d].step = "backup", ![d].held = TRUE]
    BY <1>2 DEF AcquireLock
  <2>2. /\ deploy' \in [Deployer -> Deploys]
        /\ deploy'[d].step = "backup" /\ deploy'[d].may = {}
        /\ \A o \in Deployer \ {d} : deploy'[o] = deploy[o]
    BY <1>1, <2>1 DEF Deploys
  <2>3. \A o \in Deployer : ~At(o, "backup") /\ ~Changing(o)
    BY <1>2 DEF ReleaseInv, HoldsLock
  <2>4. HoldsLock'
    BY <2>1, <2>2, <2>3 DEF HoldsLock, At, Changing
  <2>5. ASSUME NEW o \in Deployer PROVE MayFits(o)' /\ CopyIsLast(o)'
    BY <1>1, <2>2, <2>5 DEF ReleaseInv, MayFits, CopyIsLast, AtStake, At
  <2>6. ReleaseTypes' /\ AnswersSurvive'
    BY <1>1, <2>2 DEF ReleaseInv, ReleaseTypes, AnswersSurvive
  <2> QED
    BY <2>4, <2>5, <2>6 DEF ReleaseInv
<1>3. CASE ~(remoteLock = "free" /\ heard)
  <2>1. To(d, "release") /\ (remoteLock' = remoteLock \/ remoteLock = "free")
    BY <1>3 DEF AcquireLock
  <2>2. ReleaseTypes'
    BY <1>1, <2>1, ToStep DEF ReleaseInv, ReleaseTypes
  <2> QED
    BY <1>1, <2>1, <2>2, ToStep, IdleSteps
<1> QED
  BY <1>2, <1>3

\* The backup is made, and files and image are replaced.
LEMMA Builds ==
    ASSUME ReleaseInv, NEW d \in Deployer, MakeBackup(d) \/ Build(d) \/ BuildFails(d)
    PROVE  ReleaseInv'
<1>1. /\ server \in Servers /\ backup \in [Deployer -> Backups] /\ approved \in Nat
      /\ deploy \in [Deployer -> Deploys]
      /\ d \in Parts /\ {"build", "freeze"} \subseteq Steps
      /\ AnswersSurvive /\ MayFits(d)
  BY DEF ReleaseInv, ReleaseTypes, Parts, Steps
<1>2. CASE MakeBackup(d)
  <2>1. /\ At(d, "backup") /\ backup' = [backup EXCEPT ![d] = Copy(d)]
        /\ deploy' = [deploy EXCEPT ![d].step = "build", ![d].may = {"files"}]
        /\ UNCHANGED <<server, marker, remoteLock, approved>>
    BY <1>2 DEF MakeBackup
  <2>2. Copy(d) \in Backups
    BY <1>1 DEF Copy, Servers, Backups
  <2>3. /\ deploy' \in [Deployer -> Deploys]
        /\ deploy'[d].step = "build" /\ deploy'[d].may = {"files"}
        /\ \A o \in Deployer \ {d} : deploy'[o] = deploy[o] /\ backup'[o] = backup[o]
        /\ backup' \in [Deployer -> Backups]
    BY <1>1, <2>1, <2>2 DEF Mays, Deploys
  <2>4. MayFits(d)' /\ CopyIsLast(d)'
    BY <2>3 DEF MayFits, CopyIsLast, AtStake, At
  <2>5. ReleaseTypes' /\ AnswersSurvive'
    BY <1>1, <2>1, <2>3 DEF ReleaseTypes, AnswersSurvive
  <2> QED
    BY <2>1, <2>3, <2>4, <2>5, HolderSteps
<1>3. CASE Build(d) \/ BuildFails(d)
  <2>1. /\ At(d, "build") /\ UNCHANGED <<backup, marker, remoteLock, approved>>
        /\ To(d, "freeze") \/ Fail(d)
    BY <1>3 DEF Build, BuildFails
  <2>2. deploy[d].may = {"files"} /\ Changing(d)
    BY <1>1, <2>1 DEF MayFits, At, Changing
  <2>3. /\ server' \in Servers /\ server'.writes = server.writes
        /\ Build(d) => server'.image = d
    BY <1>1, <1>3 DEF Build, BuildFails, Servers
  <2>4. /\ deploy' \in [Deployer -> Deploys]
        /\ deploy'[d].step \in {"freeze", "rollback", "release"}
        /\ deploy'[d].may = {"files"}
        /\ deploy'[d].step = "freeze" => Build(d)
        /\ \A o \in Deployer \ {d} : deploy'[o] = deploy[o]
    BY <1>1, <1>3, <2>1, <2>2, ToStep, FailStep DEF Build, BuildFails
  <2>5. MayFits(d)' /\ CopyIsLast(d)'
    BY <2>3, <2>4 DEF MayFits, CopyIsLast, AtStake, At
  <2>6. ReleaseTypes' /\ AnswersSurvive'
    BY <1>1, <2>1, <2>3, <2>4 DEF ReleaseTypes, AnswersSurvive
  <2> QED
    BY <2>1, <2>2, <2>4, <2>5, <2>6, HolderSteps
<1> QED
  BY <1>2, <1>3

\* The gateway is stopped, and what it had answered is copied.
LEMMA Freezes ==
    ASSUME ReleaseInv, NEW d \in Deployer, Freeze(d) \/ FreezeFails(d)
    PROVE  ReleaseInv'
<1>1. /\ server \in Servers /\ backup \in [Deployer -> Backups] /\ approved \in Nat
      /\ deploy \in [Deployer -> Deploys]
      /\ "stopped" \in Parts /\ "migrate" \in Steps
      /\ AnswersSurvive /\ MayFits(d) /\ CopyIsLast(d)
  BY DEF ReleaseInv, ReleaseTypes, Parts, Steps
<1>2. /\ At(d, "freeze") /\ Changing(d) /\ server' = Stopped
      /\ deploy[d].may = {"files"} /\ server.image = d
      /\ UNCHANGED <<marker, remoteLock, approved>>
  BY <1>1 DEF Freeze, FreezeFails, At, Changing, MayFits, CopyIsLast
<1>3. /\ server' \in Servers /\ server'.writes = server.writes
      /\ server'.image = server.image /\ server'.running = "stopped"
  BY <1>1, <1>2 DEF Stopped, Servers
<1>4. /\ FinalBackup(d) \in Backups /\ FinalBackup(d).writes = server.writes
      /\ [FinalBackup(d) EXCEPT !.sums = FALSE] \in Backups
  BY <1>1 DEF FinalBackup, Backups, Servers
<1>5. /\ backup' \in [Deployer -> Backups]
      /\ \A o \in Deployer \ {d} : backup'[o] = backup[o]
      /\ Freeze(d) => backup'[d].writes = server.writes
  BY <1>1, <1>4 DEF Freeze, FreezeFails
<1>6. /\ deploy' \in [Deployer -> Deploys]
      /\ \A o \in Deployer \ {d} : deploy'[o] = deploy[o]
      /\ \/ deploy'[d].step = "migrate" /\ Freeze(d)
         \/ deploy'[d].step \in {"rollback", "release"} /\ deploy'[d].may = {"files"}
  <2>1. CASE Freeze(d)
    <3>1. deploy' = [deploy EXCEPT ![d].step = "migrate", ![d].may = @ \cup {"database"}]
      BY <2>1 DEF Freeze, MayMigrate
    <3>2. deploy[d].may \cup {"database"} \in Mays
      BY <1>2 DEF Mays
    <3> QED
      BY <1>1, <2>1, <3>1, <3>2 DEF Deploys
  <2>2. CASE FreezeFails(d)
    BY <1>2, <2>2, FailStep DEF FreezeFails
  <2> QED
    BY <2>1, <2>2
<1>7. MayFits(d)' /\ CopyIsLast(d)'
  BY <1>1, <1>2, <1>3, <1>5, <1>6
     DEF MayFits, CopyIsLast, AtStake, At, AnswersSurvive, Servers
<1>8. ReleaseTypes' /\ AnswersSurvive'
  BY <1>1, <1>2, <1>3, <1>5, <1>6 DEF ReleaseTypes, AnswersSurvive
<1> QED
  BY <1>2, <1>5, <1>6, <1>7, <1>8, HolderSteps

\* The schema is changed and the new gateway started; either may fail halfway.
LEMMA Starts ==
    ASSUME ReleaseInv, NEW d \in Deployer, NEW done \in BOOLEAN,
           Migrate(d, done) \/ Start(d, done)
    PROVE  ReleaseInv'
<1>1. /\ server \in Servers /\ backup \in [Deployer -> Backups] /\ approved \in Nat
      /\ deploy \in [Deployer -> Deploys]
      /\ d \in Parts /\ {"start", "acceptance"} \subseteq Steps
      /\ AnswersSurvive /\ MayFits(d) /\ CopyIsLast(d)
  BY DEF ReleaseInv, ReleaseTypes, Parts, Steps
<1>2. /\ deploy[d].step \in {"migrate", "start"} /\ Changing(d)
      /\ server.image = d /\ server.running = "stopped" /\ backup[d].writes >= approved
      /\ UNCHANGED <<backup, marker, remoteLock, approved>>
  BY <1>1 DEF Migrate, Start, At, Changing, CopyIsLast, AtStake
<1>3. /\ server' \in Servers /\ server'.writes = server.writes
      /\ server'.image = d /\ server'.running \in {"stopped", d}
      /\ Migrate(d, done) => server'.running = "stopped"
  BY <1>1, <1>2 DEF Migrate, Start, Servers
<1>4. /\ deploy' \in [Deployer -> Deploys]
      /\ \A o \in Deployer \ {d} : deploy'[o] = deploy[o]
      /\ deploy'[d].step \in {"start", "acceptance", "rollback", "release"}
      /\ deploy'[d].step = "start" => Migrate(d, done)
  <2>1. CASE Migrate(d, done)
    BY <1>1, <2>1, ToStep, FailStep DEF Migrate
  <2>2. CASE Start(d, done)
    BY <1>1, <2>2, ToStep, FailStep DEF Start
  <2> QED
    BY <2>1, <2>2
<1>5. MayFits(d)' /\ CopyIsLast(d)'
  BY <1>2, <1>3, <1>4 DEF MayFits, CopyIsLast, AtStake, At
<1>6. ReleaseTypes' /\ AnswersSurvive'
  BY <1>1, <1>2, <1>3, <1>4 DEF ReleaseTypes, AnswersSurvive
<1> QED
  BY <1>2, <1>4, <1>5, <1>6, HolderSteps

\* The acceptance approves what has been answered, or leaves it on trial.
LEMMA Judges ==
    ASSUME ReleaseInv, NEW d \in Deployer, Accept(d) \/ AcceptFails(d)
    PROVE  ReleaseInv'
<1>1. /\ server \in Servers /\ backup \in [Deployer -> Backups] /\ approved \in Nat
      /\ "release" \in Steps /\ AnswersSurvive /\ CopyIsLast(d)
  BY DEF ReleaseInv, ReleaseTypes, Steps
<1>2. /\ At(d, "acceptance") /\ Changing(d)
      /\ backup[d].writes >= approved /\ UNCHANGED <<server, backup, marker, remoteLock>>
      /\ \/ To(d, "release") /\ approved' = server.writes
         \/ Fail(d) /\ approved' = approved
  BY <1>1 DEF Accept, AcceptFails, Alone, At, Changing, CopyIsLast, AtStake
<1>3. /\ deploy' \in [Deployer -> Deploys]
      /\ \A o \in Deployer \ {d} : deploy'[o] = deploy[o]
      /\ \/ deploy'[d].step = "release"
         \/ deploy'[d].step = "rollback" /\ approved' = approved
  BY <1>1, <1>2, ToStep, FailStep
<1>4. MayFits(d)' /\ CopyIsLast(d)'
  BY <1>2, <1>3 DEF MayFits, CopyIsLast, AtStake, At
<1>5. ReleaseTypes' /\ AnswersSurvive'
  BY <1>1, <1>2, <1>3 DEF ReleaseInv, ReleaseTypes, AnswersSurvive, Servers
<1> QED
  BY <1>2, <1>3, <1>4, <1>5, HolderSteps

\* What is restored has everything approved, and so has what a rollback that breaks off
\* leaves behind.
LEMMA RestoredIsEnough ==
    ASSUME ReleaseInv, NEW d \in Deployer, At(d, "rollback"), d \notin marker
    PROVE  Restored(d) \in Servers /\ Restored(d).writes >= approved
BY DEF ReleaseInv, ReleaseTypes, Restored, Servers, Backups, Parts, CopyIsLast, AtStake,
       At, AnswersSurvive

LEMMA PartIsEnough ==
    ASSUME ReleaseInv, NEW d \in Deployer, At(d, "rollback"), NEW s \in PartlyBack(d)
    PROVE  s \in Servers /\ s.writes >= approved
<1>1. server \in Servers /\ approved \in Nat /\ "stopped" \in Parts /\ server.writes >= approved
  BY DEF ReleaseInv, ReleaseTypes, AnswersSurvive, Parts
<1>2. CASE s # server
  <2>1. PICK r : r = Restored(d)
    OBVIOUS
  <2>2. d \notin marker
    BY <1>2 DEF PartlyBack
  <2>3. r \in Servers /\ r.writes >= approved
    BY <2>1, <2>2, RestoredIsEnough
  <2>4. \/ s = Stopped
        \/ s = [Stopped EXCEPT !.files = r.files, !.env = r.env]
        \/ s = [[Stopped EXCEPT !.files = r.files, !.env = r.env]
                   EXCEPT !.schema = r.schema, !.writes = r.writes]
        \/ s = [[[Stopped EXCEPT !.files = r.files, !.env = r.env]
                   EXCEPT !.schema = r.schema, !.writes = r.writes] EXCEPT !.image = r.image]
    BY <1>2, <2>1 DEF PartlyBack
  <2> QED
    BY <1>1, <2>3, <2>4 DEF Stopped, Servers
<1> QED
  BY <1>1, <1>2

\* The rollback brings everything back, is verified, or breaks off anywhere.
LEMMA RollsBack ==
    ASSUME ReleaseInv, NEW d \in Deployer,
           \/ AlreadyBack(d) \/ BringBack(d) \/ VerifyBack(d)
           \/ RollbackCut(d) \/ RollbackFails(d)
    PROVE  ReleaseInv'
<1>1. /\ server \in Servers /\ backup \in [Deployer -> Backups] /\ approved \in Nat
      /\ deploy \in [Deployer -> Deploys] /\ {"rollback", "verify", "release"} \subseteq Steps
      /\ AnswersSurvive /\ CopyIsLast(d)
  BY DEF ReleaseInv, ReleaseTypes, Steps
<1>2. /\ At(d, "rollback") \/ At(d, "verify")
      /\ Changing(d) /\ UNCHANGED <<backup, remoteLock>> /\ marker \subseteq marker'
  BY DEF AlreadyBack, BringBack, VerifyBack, RollbackCut, RollbackFails, At, Changing, Alone
<1>3. /\ server' \in Servers
      /\ \/ server'.writes >= approved /\ approved' = approved
         \/ server' = server /\ approved' = server.writes /\ d \in marker'
  <2>1. CASE UNCHANGED server
    BY <1>1, <2>1 DEF AlreadyBack, BringBack, VerifyBack, RollbackCut, RollbackFails, Alone,
                      AnswersSurvive
  <2>2. CASE BringBack(d)
    BY <2>2, RestoredIsEnough DEF BringBack
  <2>3. CASE server' \in PartlyBack(d) /\ At(d, "rollback") /\ approved' = approved
    BY <2>3, PartIsEnough
  <2> QED
    BY <2>1, <2>2, <2>3 DEF AlreadyBack, VerifyBack, RollbackCut, RollbackFails, Alone
<1>4. /\ deploy' \in [Deployer -> Deploys] /\ deploy'[d].may = deploy[d].may
      /\ \A o \in Deployer \ {d} : deploy'[o] = deploy[o]
      /\ \/ deploy'[d].step = "release"
         \/ /\ deploy'[d].step \in {"rollback", "verify"}
            /\ d \in marker' \/ approved' = approved
  <2>1. CASE AlreadyBack(d) \/ VerifyBack(d) \/ RollbackFails(d)
    BY <1>1, <2>1, ToStep DEF AlreadyBack, VerifyBack, RollbackFails
  <2>2. CASE BringBack(d)
    BY <1>1, <2>2, ToStep DEF BringBack
  <2>3. CASE RollbackCut(d)
    <3>1. deploy' = [deploy EXCEPT ![d].step = "rollback", ![d].cut = TRUE]
      BY <2>3 DEF RollbackCut
    <3>2. d \in marker' \/ approved' = approved
      BY <2>3 DEF RollbackCut
    <3> QED
      BY <1>1, <3>1, <3>2 DEF Deploys
  <2> QED
    BY <2>1, <2>2, <2>3
<1>5. MayFits(d)' /\ CopyIsLast(d)'
  BY <1>1, <1>2, <1>4 DEF MayFits, CopyIsLast, AtStake, At
<1>6. ReleaseTypes' /\ AnswersSurvive'
  BY <1>1, <1>2, <1>3, <1>4 DEF ReleaseTypes, AnswersSurvive, Servers
<1> QED
  BY <1>2, <1>4, <1>5, <1>6, HolderSteps

\* A request that writes is approved only when nobody's gateway is on trial.
LEMMA Writes ==
    ASSUME ReleaseInv, Write PROVE ReleaseInv'
<1>1. /\ server \in Servers /\ approved \in Nat /\ AnswersSurvive /\ HoldsLock
      /\ \A d \in Deployer : MayFits(d) /\ CopyIsLast(d)
      /\ UNCHANGED <<backup, marker, remoteLock, deploy>>
      /\ server.running # "stopped"
  BY DEF ReleaseInv, ReleaseTypes, Write, Healthy
<1>2. /\ server' \in Servers /\ server'.writes = server.writes + 1
      /\ server'.image = server.image /\ server'.running = server.running
  BY <1>1 DEF Write, Servers
<1>3. ASSUME NEW d \in Deployer, AtStake(d) PROVE approved' = approved
  <2>1. deploy[d].step \notin {"migrate", "start"}
    BY <1>1 DEF CopyIsLast
  <2>2. OnTrial
    BY <1>3, <2>1 DEF OnTrial, AtStake, At
  <2> QED
    BY <2>2 DEF Write
<1>4. approved' \in {approved, approved + 1}
  BY DEF Write
<1>5. ReleaseTypes' /\ AnswersSurvive' /\ HoldsLock'
  <2>1. server'.writes >= approved'
    BY <1>1, <1>2, <1>4 DEF AnswersSurvive, Servers
  <2> QED
    BY <1>1, <1>2, <1>4, <2>1
       DEF ReleaseInv, ReleaseTypes, AnswersSurvive, HoldsLock, At, Changing
<1>6. ASSUME NEW d \in Deployer PROVE MayFits(d)' /\ CopyIsLast(d)'
  BY <1>1, <1>2, <1>3, <1>6 DEF MayFits, CopyIsLast, AtStake, At
<1> QED
  BY <1>5, <1>6 DEF ReleaseInv

LEMMA ReleaseStep ==
    ReleaseInv /\ [ReleaseNext]_releaseVars => ReleaseInv'
<1> SUFFICES ASSUME ReleaseInv, [ReleaseNext]_releaseVars PROVE ReleaseInv'
  OBVIOUS
<1>1. CASE RemoveLock
  <2>1. /\ UNCHANGED <<server, backup, marker, deploy, approved>>
        /\ \A d \in Deployer : ~At(d, "backup") /\ ~Changing(d)
    BY <1>1 DEF RemoveLock, At, Changing
  <2>2. HoldsLock'
    BY <2>1 DEF HoldsLock, At, Changing
  <2> QED
    BY <2>1, <2>2 DEF ReleaseInv, ReleaseTypes, AnswersSurvive, MayFits, CopyIsLast,
                      AtStake, At
<1>2. CASE UNCHANGED releaseVars
  BY <1>2 DEF releaseVars, ReleaseInv, ReleaseTypes, AnswersSurvive, MayFits, CopyIsLast,
              AtStake, At, HoldsLock, Changing
<1> QED
  BY <1>1, <1>2, ApproachesLock, LockIsAsked, Builds, Freezes, Starts, Judges, RollsBack,
     Writes DEF ReleaseNext

-----------------------------------------------------------------------------
(***************************************************************************)
(* The service registry of the desktop server                              *)
(***************************************************************************)
Bindings == [version : ServiceVersion \cup {NoVersion}, digest : Nat]
Records ==
    [lifecycle : [ServiceVersion -> Statuses], active : ServiceVersion \cup {NoVersion},
     revision : Nat, binding : Bindings]
Stores ==
    [lifecycle : [ServiceVersion -> Statuses],
     active : [Environment -> ServiceVersion \cup {NoVersion}],
     revision : [Environment -> Nat], binding : [Environment -> Bindings]]
Deployed == [digest : Nat, declares : SUBSET ServiceVersion]
Changes == [process : Process, environment : Environment, previous : Records]

ServicesTypes ==
    /\ db \in Stores /\ mem \in [Process -> [Environment -> Records]]
    /\ deployed \in [Environment -> Deployed]
    /\ catalogRead \in [Process -> [Environment -> Deployed]]
    /\ handled \in [Process -> ServiceVersion \cup {NoVersion}]
    /\ txn = NoTransaction \/ (txn \in Changes /\ txn # NoTransaction)
    /\ DOMAIN sent = Process

\* A state of an environment that is not ahead of the database.
LagsBehind(saved, e) ==
    /\ saved.revision <= db.revision[e]
    /\ saved.revision = db.revision[e] =>
          saved.active = db.active[e] /\ saved.binding = db.binding[e]

\* A state of an environment the database may take over: it can be read back, leaves what
\* the other environments have active usable, and with another version it is a newer one.
Succeeds(saved, e) ==
    /\ Readable(saved) /\ saved.binding.version = saved.active
    /\ \A f \in Environment \ {e} :
          db.active[f] # NoVersion =>
             saved.lifecycle[db.active[f]] \in {"published", "deprecated"}
    /\ saved.revision >= db.revision[e]
    /\ saved.revision = db.revision[e] =>
          saved.active = db.active[e] /\ saved.binding = db.binding[e]

\* What the change at hand left in memory may be stored, what it keeps to put back is
\* not ahead.
ChangeFits ==
    txn # NoTransaction =>
        /\ Succeeds(mem[txn.process][txn.environment], txn.environment)
        /\ LagsBehind(txn.previous, txn.environment)

ServicesInv ==
    /\ ServicesTypes /\ ChangeFits /\ ReadsBack /\ BoundAsActive /\ SentWhereDeclared
    /\ \A p \in Process, e \in Environment : ~InChange(p, e) => LagsBehind(mem[p][e], e)

LEMMA LagIsPromised ==
    ServicesInv => ServicesHold
BY DEF ServicesInv, ServicesHold, MemoryOnlyLags, LagsBehind

LEMMA ServicesStart ==
    ServicesInit => ServicesInv
<1> SUFFICES ASSUME ServicesInit PROVE ServicesInv
  OBVIOUS
<1> USE DEF ServicesInit
<1>1. PICK status \in {"absent", "published"} :
         db = [lifecycle |-> [v \in ServiceVersion |-> status],
               active |-> [e \in Environment |-> NoVersion],
               revision |-> [e \in Environment |-> 0],
               binding |-> [e \in Environment |-> NoBinding]]
  OBVIOUS
<1>2. NoBinding \in Bindings /\ NoBinding.version = NoVersion
  BY DEF NoBinding, Bindings
<1>3. db \in Stores
  BY <1>1, <1>2 DEF Stores, Statuses
<1>4. \A e \in Environment :
         /\ ReadState(e) \in Records /\ Readable(ReadState(e))
         /\ LagsBehind(ReadState(e), e)
  BY <1>1, <1>2, <1>3 DEF ReadState, Records, Stores, Readable, LagsBehind
<1>5. deployed \in [Environment -> Deployed]
  BY DEF Deployed
<1>6. ServicesTypes
  BY <1>3, <1>4, <1>5 DEF ServicesTypes
<1>7. ReadsBack /\ BoundAsActive /\ SentWhereDeclared /\ ChangeFits
  BY <1>1, <1>2, <1>4 DEF ReadsBack, BoundAsActive, SentWhereDeclared, ChangeFits
<1> QED
  BY <1>4, <1>6, <1>7 DEF ServicesInv

\* The state read under the lock, and every change of it.
LEMMA ChangesSucceed ==
    ASSUME ServicesInv, NEW e \in Environment,
           NEW after \in Published(ReadState(e)) \cup Disabled(ReadState(e))
                           \cup Aged(ReadState(e)) \cup Activated(ReadState(e), deployed[e])
    PROVE  after \in Records /\ Succeeds(after, e)
<1>1. PICK saved : saved = ReadState(e)
  OBVIOUS
<1>2. /\ saved \in Records /\ Readable(saved) /\ saved.binding.version = saved.active
      /\ saved.revision = db.revision[e] /\ saved.active = db.active[e]
      /\ saved.binding = db.binding[e] /\ saved.lifecycle = db.lifecycle
  BY <1>1 DEF ServicesInv, ServicesTypes, Stores, Records, ReadState, ReadsBack, BoundAsActive
<1>3. \A f \in Environment : db.active[f] # NoVersion =>
         saved.lifecycle[db.active[f]] \in {"published", "deprecated"}
  BY <1>2 DEF ServicesInv, ReadsBack, Readable, ReadState
<1>4. \A f \in Environment : db.active[f] \in ServiceVersion \cup {NoVersion}
  BY DEF ServicesInv, ServicesTypes, Stores
<1>5. NoBinding \in Bindings /\ NoBinding.version = NoVersion
  BY DEF NoBinding, Bindings
<1>6. deployed[e] \in Deployed
  BY DEF ServicesInv, ServicesTypes
<1>7. ASSUME NEW v \in ServiceVersion, NEW status \in Statuses,
             after = [saved EXCEPT !.lifecycle[v] = status],
             saved.lifecycle[v] \in {"absent", "draft"}
               \/ status \in {"published", "deprecated"} \/ v \notin Used(saved)
      PROVE  after \in Records /\ Succeeds(after, e)
  <2>1. /\ after \in Records /\ after.active = saved.active
        /\ after.revision = saved.revision /\ after.binding = saved.binding
        /\ after.lifecycle = [saved.lifecycle EXCEPT ![v] = status]
    BY <1>2, <1>7 DEF Records
  <2>2. \A f \in Environment : db.active[f] # NoVersion =>
           after.lifecycle[db.active[f]] \in {"published", "deprecated"}
    BY <1>2, <1>3, <1>4, <1>7, <2>1 DEF Used, Records
  <2>3. Readable(after)
    BY <1>2, <2>1, <2>2 DEF Readable
  <2> QED
    BY <1>2, <2>1, <2>2, <2>3 DEF Succeeds, Records
<1>8. CASE after \in Published(saved)
  BY <1>7, <1>8 DEF Published, Statuses
<1>9. CASE after \in Aged(saved)
  <2>1. PICK v \in ServiceVersion, status \in {"deprecated", "published", "retired"} :
           /\ after = [saved EXCEPT !.lifecycle[v] = status]
           /\ status = "retired" => v \notin Used(saved)
    BY <1>9 DEF Aged
  <2> QED
    BY <1>7, <2>1 DEF Statuses
<1>10. CASE after \in Disabled(saved)
  <2>1. after = [saved EXCEPT !.revision = @ + 1, !.binding = NoBinding, !.active = NoVersion]
    BY <1>10 DEF Disabled
  <2>2. saved.revision + 1 \in Nat /\ saved.revision + 1 > db.revision[e]
    BY <1>2 DEF Records
  <2>3. /\ after \in Records /\ after.active = NoVersion /\ after.binding = NoBinding
        /\ after.revision = saved.revision + 1 /\ after.lifecycle = saved.lifecycle
    BY <1>2, <1>5, <2>1, <2>2 DEF Records
  <2>4. after.revision >= db.revision[e] /\ after.revision # db.revision[e]
    BY <1>2, <2>2, <2>3 DEF Records
  <2>5. Readable(after) /\ after.binding.version = after.active
    BY <1>5, <2>3 DEF Readable
  <2> QED
    BY <1>2, <1>3, <2>3, <2>4, <2>5 DEF Succeeds
<1>11. CASE after \in Activated(saved, deployed[e])
  <2>1. PICK v \in deployed[e].declares :
           after = [saved EXCEPT !.lifecycle[v] = "published", !.revision = @ + 1, !.active = v,
                       !.binding = [version |-> v, digest |-> deployed[e].digest]]
    BY <1>11 DEF Activated
  <2>2. v \in ServiceVersion /\ deployed[e].digest \in Nat
    BY <1>6 DEF Deployed
  <2>3. PICK bound : bound = [version |-> v, digest |-> deployed[e].digest]
    OBVIOUS
  <2>4. bound \in Bindings /\ bound.version = v
    BY <2>2, <2>3 DEF Bindings
  <2>5. saved.revision + 1 \in Nat /\ saved.revision + 1 > db.revision[e]
    BY <1>2 DEF Records
  <2>6. /\ after \in Records /\ after.active = v /\ after.binding = bound
        /\ after.revision = saved.revision + 1
        /\ after.lifecycle = [saved.lifecycle EXCEPT ![v] = "published"]
    BY <1>2, <2>1, <2>2, <2>3, <2>4, <2>5 DEF Records, Statuses
  <2>7. \A f \in Environment : db.active[f] # NoVersion =>
           after.lifecycle[db.active[f]] \in {"published", "deprecated"}
    BY <1>2, <1>3, <1>4, <2>2, <2>6 DEF Records
  <2>8. after.lifecycle[v] = "published"
    BY <1>2, <2>2, <2>6 DEF Records
  <2>9. after.revision >= db.revision[e] /\ after.revision # db.revision[e]
    BY <1>2, <2>5, <2>6 DEF Records
  <2>10. Readable(after) /\ after.binding.version = after.active
    BY <2>4, <2>6, <2>8 DEF Readable
  <2> QED
    BY <2>6, <2>7, <2>9, <2>10 DEF Succeeds
<1> QED
  BY <1>1, <1>8, <1>9, <1>10, <1>11

LEMMA ChangeBegins ==
    ASSUME ServicesInv, NEW p \in Process, NEW e \in Environment, ChangeState(p, e)
    PROVE  ServicesInv'
<1>1. PICK after \in Published(ReadState(e)) \cup Disabled(ReadState(e))
                       \cup Aged(ReadState(e)) \cup Activated(ReadState(e), deployed[e]) :
         mem' = [mem EXCEPT ![p][e] = after]
  BY DEF ChangeState
<1>2. after \in Records /\ Succeeds(after, e)
  BY <1>1, ChangesSucceed
<1>3. /\ txn = NoTransaction /\ UNCHANGED <<db, deployed, handled, sent>>
      /\ txn' = [process |-> p, environment |-> e, previous |-> mem[p][e]]
      /\ catalogRead' = [catalogRead EXCEPT ![p] = deployed]
  BY DEF ChangeState
<1>4. /\ mem' \in [Process -> [Environment -> Records]] /\ mem'[p][e] = after
      /\ \A q \in Process, f \in Environment : q # p \/ f # e => mem'[q][f] = mem[q][f]
  BY <1>1, <1>2 DEF ServicesInv, ServicesTypes
<1>5. txn' # NoTransaction
  <2>1. "previous" \in DOMAIN txn' /\ "previous" \notin DOMAIN NoTransaction
    BY <1>3 DEF NoTransaction
  <2> QED
    BY <2>1
<1>6. /\ txn' \in Changes /\ txn'.process = p /\ txn'.environment = e
      /\ txn'.previous = mem[p][e]
  BY <1>3 DEF Changes, ServicesInv, ServicesTypes
<1>7. ServicesTypes'
  BY <1>3, <1>4, <1>5, <1>6 DEF ServicesInv, ServicesTypes
<1>8. \A q \in Process, f \in Environment : LagsBehind(mem[q][f], f)
  BY <1>3 DEF ServicesInv, InChange
<1>9. ChangeFits'
  BY <1>2, <1>3, <1>4, <1>6, <1>8 DEF ChangeFits, Succeeds, LagsBehind
<1>10. \A q \in Process, f \in Environment : ~InChange(q, f)' => LagsBehind(mem[q][f], f)'
  BY <1>3, <1>4, <1>5, <1>6, <1>8 DEF InChange, LagsBehind
<1>11. ReadsBack' /\ BoundAsActive' /\ SentWhereDeclared'
  BY <1>3 DEF ServicesInv, ReadsBack, BoundAsActive, SentWhereDeclared, ReadState, Readable
<1> QED
  BY <1>7, <1>9, <1>10, <1>11 DEF ServicesInv

\* What the database is after a transaction: as before, or with the change taken over.
LEMMA StoresFit ==
    ASSUME ServicesInv, txn # NoTransaction, db' = Stored \/ db' = db
    PROVE  /\ db' \in Stores /\ ReadsBack' /\ BoundAsActive'
           /\ \A s \in Records, f \in Environment : LagsBehind(s, f) => LagsBehind(s, f)'
           /\ \A s \in Records, f \in Environment :
                 db' = Stored /\ f = txn.environment /\ s = mem[txn.process][f] =>
                    LagsBehind(s, f)'
<1>1. PICK e \in Environment, after \in Records :
         e = txn.environment /\ after = mem[txn.process][e]
  BY DEF ServicesInv, ServicesTypes, Changes
<1>2. Succeeds(after, e)
  BY <1>1 DEF ServicesInv, ChangeFits
<1>3. CASE db' = db
  <2>1. /\ db' \in Stores /\ ReadsBack' /\ BoundAsActive'
        /\ \A s \in Records, f \in Environment : LagsBehind(s, f) => LagsBehind(s, f)'
    BY <1>3
       DEF ServicesInv, ServicesTypes, ReadsBack, BoundAsActive, LagsBehind, ReadState, Readable
  <2>2. db' = Stored => LagsBehind(after, e)'
    <3> SUFFICES ASSUME db = Stored PROVE LagsBehind(after, e)'
      BY <1>3
    <3>1. Stored.revision[e] = after.revision /\ Stored.active[e] = after.active
          /\ Stored.binding[e] = after.binding
      BY <1>1 DEF Stored, ServicesInv, ServicesTypes, Stores
    <3> QED
      BY <1>3, <3>1 DEF LagsBehind, Records
  <2> QED
    BY <1>1, <2>1, <2>2
<1>4. CASE db' = Stored
  <2>1. /\ db' \in Stores /\ db'.lifecycle = after.lifecycle
        /\ db'.active = [db.active EXCEPT ![e] = after.active]
        /\ db'.revision = [db.revision EXCEPT ![e] = after.revision]
        /\ db'.binding = [db.binding EXCEPT ![e] = after.binding]
    BY <1>1, <1>4 DEF Stored, ServicesInv, ServicesTypes, Stores, Records
  <2>2. /\ db'.active[e] = after.active /\ db'.revision[e] = after.revision
        /\ db'.binding[e] = after.binding
        /\ \A f \in Environment \ {e} :
             /\ db'.active[f] = db.active[f] /\ db'.revision[f] = db.revision[f]
             /\ db'.binding[f] = db.binding[f]
    BY <2>1 DEF ServicesInv, ServicesTypes, Stores
  <2>3. ReadsBack' /\ BoundAsActive'
    BY <1>2, <2>1, <2>2
       DEF Succeeds, ServicesInv, ReadsBack, BoundAsActive, ReadState, Readable
  <2>4. ASSUME NEW s \in Records, NEW f \in Environment, LagsBehind(s, f)
        PROVE  LagsBehind(s, f)'
    <3>1. CASE f # e
      BY <2>2, <2>4, <3>1 DEF LagsBehind
    <3>2. CASE f = e
      <4>1. s.revision \in Nat /\ after.revision \in Nat /\ db.revision[e] \in Nat
        BY DEF Records, ServicesInv, ServicesTypes, Stores
      <4>2. s.revision <= db.revision[e] /\ db.revision[e] <= after.revision
        BY <1>2, <2>4, <3>2, <4>1 DEF LagsBehind, Succeeds
      <4>3. s.revision <= after.revision
        BY <4>1, <4>2
      <4>4. s.revision = after.revision =>
               s.revision = db.revision[e] /\ after.revision = db.revision[e]
        BY <4>1, <4>2
      <4> QED
        BY <1>2, <2>2, <2>4, <3>2, <4>3, <4>4 DEF LagsBehind, Succeeds
    <3> QED
      BY <3>1, <3>2
  <2>5. LagsBehind(after, e)'
    BY <2>2 DEF LagsBehind, Records
  <2> QED
    BY <1>1, <2>1, <2>3, <2>4, <2>5
<1> QED
  BY <1>3, <1>4

LEMMA ChangeIsStored ==
    ASSUME ServicesInv, CommitChange
    PROVE  ServicesInv'
<1> USE DEF CommitChange
<1>1. PICK p \in Process, e \in Environment :
         p = txn.process /\ e = txn.environment /\ mem[p][e] \in Records
  BY DEF ServicesInv, ServicesTypes, Changes
<1>2. /\ db' \in Stores /\ ReadsBack' /\ BoundAsActive'
      /\ \A s \in Records, f \in Environment : LagsBehind(s, f) => LagsBehind(s, f)'
      /\ \A s \in Records, f \in Environment :
            f = e /\ s = mem[p][f] => LagsBehind(s, f)'
  BY <1>1, StoresFit
<1>3. ServicesTypes' /\ ChangeFits' /\ SentWhereDeclared'
  BY <1>2 DEF ServicesInv, ServicesTypes, ChangeFits, SentWhereDeclared
<1>4. ASSUME NEW q \in Process, NEW f \in Environment
      PROVE  LagsBehind(mem[q][f], f)'
  <2>1. mem[q][f] \in Records /\ mem' = mem
    BY DEF ServicesInv, ServicesTypes
  <2>2. CASE q = p /\ f = e
    <3>1. PICK s \in Records : s = mem[q][f]
      BY <2>1
    <3> QED
      BY <1>2, <2>1, <2>2, <3>1 DEF LagsBehind
  <2>3. CASE ~(q = p /\ f = e)
    <3>1. LagsBehind(mem[q][f], f)
      BY <1>1, <2>3 DEF ServicesInv, InChange
    <3> QED
      BY <1>2, <2>1, <3>1 DEF LagsBehind
  <2> QED
    BY <2>2, <2>3
<1> QED
  BY <1>2, <1>3, <1>4 DEF ServicesInv

LEMMA ChangeIsUndone ==
    ASSUME ServicesInv, NEW applied \in BOOLEAN, AbortChange(applied)
    PROVE  ServicesInv'
<1> USE DEF AbortChange
<1>1. PICK p \in Process, e \in Environment :
         p = txn.process /\ e = txn.environment /\ txn.previous \in Records
  BY DEF ServicesInv, ServicesTypes, Changes
<1>2. /\ db' \in Stores /\ ReadsBack' /\ BoundAsActive'
      /\ \A s \in Records, f \in Environment : LagsBehind(s, f) => LagsBehind(s, f)'
  BY StoresFit
<1>3. /\ mem' \in [Process -> [Environment -> Records]] /\ mem'[p][e] = txn.previous
      /\ \A q \in Process, f \in Environment : q # p \/ f # e => mem'[q][f] = mem[q][f]
  BY <1>1 DEF ServicesInv, ServicesTypes
<1>4. ServicesTypes' /\ ChangeFits' /\ SentWhereDeclared'
  BY <1>2, <1>3 DEF ServicesInv, ServicesTypes, ChangeFits, SentWhereDeclared
<1>5. ASSUME NEW q \in Process, NEW f \in Environment
      PROVE  LagsBehind(mem[q][f], f)'
  <2>1. PICK s \in Records : s = mem'[q][f]
    BY <1>3
  <2>2. LagsBehind(s, f)
    BY <1>1, <1>3, <2>1 DEF ServicesInv, InChange, ChangeFits
  <2> QED
    BY <1>2, <2>1, <2>2 DEF LagsBehind
<1> QED
  BY <1>2, <1>4, <1>5 DEF ServicesInv

LEMMA StateIsRefreshed ==
    ASSUME ServicesInv, NEW p \in Process, NEW e \in Environment, Refresh(p, e)
    PROVE  ServicesInv'
<1> USE DEF Refresh
<1>1. ReadState(e) \in Records /\ LagsBehind(ReadState(e), e)
  BY DEF ServicesInv, ServicesTypes, Stores, ReadState, Records, LagsBehind
<1>2. /\ mem' \in [Process -> [Environment -> Records]] /\ mem'[p][e] = ReadState(e)
      /\ \A q \in Process, f \in Environment : q # p \/ f # e => mem'[q][f] = mem[q][f]
  BY <1>1 DEF ServicesInv, ServicesTypes
<1>3. ServicesTypes' /\ ReadsBack' /\ BoundAsActive' /\ SentWhereDeclared'
  BY <1>2
     DEF ServicesInv, ServicesTypes, ReadsBack, BoundAsActive, SentWhereDeclared, ReadState,
         Readable
<1>4. ChangeFits'
  <2>1. txn # NoTransaction =>
           /\ txn.process \in Process /\ txn.environment \in Environment
           /\ mem'[txn.process][txn.environment] = mem[txn.process][txn.environment]
    BY <1>2 DEF ServicesInv, ServicesTypes, Changes, InChange
  <2> QED
    BY <2>1 DEF ServicesInv, ChangeFits, Succeeds, LagsBehind
<1>5. \A q \in Process, f \in Environment : ~InChange(q, f)' => LagsBehind(mem[q][f], f)'
  BY <1>1, <1>2 DEF ServicesInv, InChange, LagsBehind
<1> QED
  BY <1>3, <1>4, <1>5 DEF ServicesInv

\* Calls, deployments and their catalogue leave the states of the environments alone.
LEMMA CallsLeaveStates ==
    ASSUME ServicesInv, UNCHANGED <<db, mem, txn>>, ServicesTypes', SentWhereDeclared'
    PROVE  ServicesInv'
BY DEF ServicesInv, ChangeFits, Succeeds, LagsBehind, ReadsBack, BoundAsActive, ReadState,
       Readable, InChange

LEMMA ServicesStep ==
    ServicesInv /\ [ServicesNext]_servicesVars => ServicesInv'
<1> SUFFICES ASSUME ServicesInv, [ServicesNext]_servicesVars PROVE ServicesInv'
  OBVIOUS
<1>1. ASSUME NEW p \in Process, NEW e \in Environment, ChangeState(p, e) \/ Refresh(p, e)
      PROVE  ServicesInv'
  BY <1>1, ChangeBegins, StateIsRefreshed
<1>2. CASE CommitChange \/ \E applied \in BOOLEAN : AbortChange(applied)
  BY <1>2, ChangeIsStored, ChangeIsUndone
<1>3. ASSUME NEW p \in Process, FindVersion(p) PROVE ServicesInv'
  <2>1. mem[p][Own[p]].active \in ServiceVersion \cup {NoVersion}
    <3>1. Own[p] \in Environment
      BY DesktopServicesAssumption
    <3>2. mem[p][Own[p]] \in Records
      BY <3>1 DEF ServicesInv, ServicesTypes
    <3> QED
      BY <3>2 DEF Records
  <2>2. ServicesTypes'
    BY <1>3, <2>1 DEF FindVersion, ServicesInv, ServicesTypes
  <2>3. SentWhereDeclared'
    BY <1>3 DEF FindVersion, ServicesInv, ServicesTypes, SentWhereDeclared
  <2> QED
    BY <1>3, <2>2, <2>3, CallsLeaveStates DEF FindVersion
<1>4. ASSUME NEW p \in Process, SendCall(p) PROVE ServicesInv'
  <2>1. ServicesTypes'
    BY <1>4 DEF SendCall, ServicesInv, ServicesTypes
  <2>2. SentWhereDeclared'
    BY <1>4 DEF SendCall, Bindable, ServicesInv, ServicesTypes, SentWhereDeclared
  <2> QED
    BY <1>4, <2>1, <2>2, CallsLeaveStates DEF SendCall
<1>5. ASSUME NEW e \in Environment, Deploy(e) PROVE ServicesInv'
  <2>1. ServicesTypes'
    BY <1>5 DEF Deploy, ServicesInv, ServicesTypes, Deployed
  <2> QED
    BY <1>5, <2>1, CallsLeaveStates DEF Deploy, ServicesInv, SentWhereDeclared
<1>6. CASE UNCHANGED servicesVars
  BY <1>6, CallsLeaveStates DEF servicesVars, ServicesInv, ServicesTypes, SentWhereDeclared
<1> QED
  BY <1>1, <1>2, <1>3, <1>4, <1>5, <1>6, DesktopServicesAssumption DEF ServicesNext

-----------------------------------------------------------------------------
(***************************************************************************)
(* The acceptance of a release                                             *)
(***************************************************************************)
PipeEnd == {"outEnd", "errEnd"}
Decoders == [heard : Seq(StreamLine), name : BOOLEAN, data : Seq(StreamLine),
             events : Nat, completed : BOOLEAN, bad : BOOLEAN, last : Nat]
Clis == [runs : {"never", "running", "exited"}, code : 0 .. 1, out : BOOLEAN,
         err : BOOLEAN, queue : Seq(CliEvent \cup PipeEnd), ended : SUBSET PipeEnd,
         completed : BOOLEAN, failure : BOOLEAN, wrote : Seq(CliEvent)]
Outcomes == [failed : BOOLEAN, uncleaned : BOOLEAN, said : {"nothing", "passed", "failed"}]

AcceptanceTypes ==
    /\ tick \in Nat /\ partFrom \in Nat
    /\ sse \in Decoders /\ cli \in Clis /\ outcome \in Outcomes

\* What is open of a stream is what was heard since the last blank line, and a completed
\* event was heard in a block of its own.
DecodedFrom(h, n, s) ==
    /\ s.name <=> \E k \in BlockOf(h, n + 1) : h[k] = "event"
    /\ Len(s.data) = Cardinality(DataOf(h, n + 1))
    /\ \A i \in DOMAIN s.data : \E j \in DataOf(h, n + 1) : s.data[i] = h[j]
    /\ s.completed => \E i \in 1 .. n : h[i] = "blank" /\ TellsCompleted(h, i)
Decoded(s) == DecodedFrom(s.heard, Len(s.heard), s)

LEMMA BlocksAreFinite ==
    ASSUME NEW h \in Seq(StreamLine), NEW i \in 1 .. Len(h) + 1
    PROVE  IsFiniteSet(DataOf(h, i)) /\ DataOf(h, i) \subseteq 1 .. i - 1
<1>1. DataOf(h, i) \subseteq 1 .. i - 1 /\ 1 \in Int /\ i - 1 \in Int
  BY DEF DataOf, BlockOf
<1>2. IsFiniteSet(1 .. i - 1)
  BY <1>1, FS_Interval
<1> QED
  BY <1>1, <1>2, FS_Subset

\* A line more: the blocks before it stay, and it ends a block or becomes part of it.
LEMMA BlocksStay ==
    ASSUME NEW h \in Seq(StreamLine), NEW line \in StreamLine, NEW i \in 1 .. Len(h) + 1
    PROVE  /\ BlockOf(Append(h, line), i) = BlockOf(h, i)
           /\ DataOf(Append(h, line), i) = DataOf(h, i)
<1> DEFINE more == Append(h, line)
<1>1. \A j \in 1 .. i - 1 : j \in 1 .. Len(h) /\ more[j] = h[j]
  OBVIOUS
<1>2. \A j \in 1 .. i - 1 : \A k \in j .. i - 1 : k \in 1 .. i - 1
  OBVIOUS
<1> HIDE DEF more
<1>3. BlockOf(more, i) = BlockOf(h, i)
  BY <1>1, <1>2 DEF BlockOf
<1>4. DataOf(more, i) = DataOf(h, i)
  BY <1>1, <1>3 DEF DataOf, BlockOf
<1> QED
  BY <1>3, <1>4 DEF more

LEMMA BlockGrows ==
    ASSUME NEW h \in Seq(StreamLine), NEW line \in StreamLine
    PROVE  BlockOf(Append(h, line), Len(h) + 2) =
              IF line = "blank" THEN {} ELSE BlockOf(h, Len(h) + 1) \cup {Len(h) + 1}
<1> DEFINE more == Append(h, line)
<1>1. /\ more \in Seq(StreamLine) /\ Len(more) = Len(h) + 1 /\ more[Len(h) + 1] = line
      /\ \A j \in 1 .. Len(h) : more[j] = h[j]
  OBVIOUS
<1> HIDE DEF more
<1>2. CASE line = "blank"
  BY <1>1, <1>2 DEF BlockOf, more
<1>3. CASE line # "blank"
  <2>1. BlockOf(more, Len(h) + 2) = BlockOf(h, Len(h) + 1) \cup {Len(h) + 1}
    BY <1>1, <1>3 DEF BlockOf
  <2> QED
    BY <1>3, <2>1 DEF more
<1> QED
  BY <1>2, <1>3

\* A block that tells of a completed response goes on telling it.
LEMMA TellingStays ==
    ASSUME NEW h \in Seq(StreamLine), NEW line \in StreamLine, NEW i \in 1 .. Len(h) + 1,
           TellsCompleted(h, i)
    PROVE  TellsCompleted(Append(h, line), i)
<1> DEFINE more == Append(h, line)
<1>1. BlockOf(more, i) = BlockOf(h, i) /\ DataOf(more, i) = DataOf(h, i)
  BY BlocksStay
<1>2. \A j \in 1 .. Len(h) : more[j] = h[j]
  OBVIOUS
<1>3. /\ BlockOf(h, i) \subseteq 1 .. Len(h) /\ DataOf(h, i) \subseteq 1 .. Len(h)
  BY DEF BlockOf, DataOf
<1> HIDE DEF more
<1>4. TellsCompleted(more, i)
  BY <1>1, <1>2, <1>3 DEF TellsCompleted
<1> QED
  BY <1>4 DEF more

LEMMA Dispatching ==
    ASSUME NEW s \in Decoders, NEW d, d = Dispatched(s)
    PROVE  /\ d \in Decoders /\ d.heard = s.heard /\ d.name = FALSE /\ d.data = <<>>
           /\ d.completed =>
                 s.completed \/ (Len(s.data) = 1 /\ TypeFirst(s.data[1], s.name))
<1> DEFINE kind == IF Len(s.data) = 1 THEN s.data[1] ELSE "noobject"
           wrong == kind = "noobject" \/ (kind = "untyped" /\ ~s.name)
           clear == [s EXCEPT !.name = FALSE, !.data = <<>>]
<1>1. clear \in Decoders /\ clear.heard = s.heard /\ clear.name = FALSE /\ clear.data = <<>>
      /\ clear.completed = s.completed
  <2>1. <<>> \in Seq(StreamLine)
    OBVIOUS
  <2> QED
    BY <2>1 DEF Decoders
<1>2. CASE s.data = <<>>
  BY <1>1, <1>2 DEF Dispatched, Dispatch
<1>3. CASE s.data # <<>>
  <2>1. PICK e, b, c :
           /\ e = clear.events + (IF wrong THEN 0 ELSE 1)
           /\ b = (clear.bad \/ wrong)
           /\ c = (clear.completed \/ (~wrong /\ TypeFirst(kind, s.name)))
    OBVIOUS
  <2>2. d = [clear EXCEPT !.events = e, !.bad = b, !.completed = c]
    BY <1>3, <2>1 DEF Dispatched, Dispatch
  <2>3. e \in Nat /\ b \in BOOLEAN /\ c \in BOOLEAN
    BY <1>1, <2>1 DEF Decoders
  <2>4. /\ d \in Decoders /\ d.heard = s.heard /\ d.name = FALSE /\ d.data = <<>>
        /\ d.completed = c
    BY <1>1, <2>2, <2>3 DEF Decoders
  <2>5. c => s.completed \/ (Len(s.data) = 1 /\ TypeFirst(s.data[1], s.name))
    BY <1>1, <2>1 DEF TypeFirst
  <2> QED
    BY <2>4, <2>5
<1> QED
  BY <1>2, <1>3

\* What the last block says after another line.
LEMMA LastBlock ==
    ASSUME NEW h \in Seq(StreamLine), NEW line \in StreamLine
    PROVE  /\ (\E k \in BlockOf(Append(h, line), Len(h) + 2) : Append(h, line)[k] = "event") <=>
                 /\ line # "blank"
                 /\ line = "event" \/ \E k \in BlockOf(h, Len(h) + 1) : h[k] = "event"
           /\ DataOf(Append(h, line), Len(h) + 2) =
                 IF line = "blank" THEN {}
                 ELSE IF line = "event" THEN DataOf(h, Len(h) + 1)
                 ELSE DataOf(h, Len(h) + 1) \cup {Len(h) + 1}
<1> DEFINE more == Append(h, line)
<1>1. more[Len(h) + 1] = line /\ \A j \in 1 .. Len(h) : more[j] = h[j]
  OBVIOUS
<1>2. BlockOf(more, Len(h) + 2) =
        IF line = "blank" THEN {} ELSE BlockOf(h, Len(h) + 1) \cup {Len(h) + 1}
  BY BlockGrows
<1>3. BlockOf(h, Len(h) + 1) \subseteq 1 .. Len(h)
  BY DEF BlockOf
<1> HIDE DEF more
<1>4. (\E k \in BlockOf(more, Len(h) + 2) : more[k] = "event") <=>
         /\ line # "blank"
         /\ line = "event" \/ \E k \in BlockOf(h, Len(h) + 1) : h[k] = "event"
  BY <1>1, <1>2, <1>3
<1>5. DataOf(more, Len(h) + 2) =
         IF line = "blank" THEN {}
         ELSE IF line = "event" THEN DataOf(h, Len(h) + 1)
         ELSE DataOf(h, Len(h) + 1) \cup {Len(h) + 1}
  BY <1>1, <1>2, <1>3 DEF DataOf
<1> QED
  BY <1>4, <1>5 DEF more

LEMMA Feeding ==
    ASSUME NEW s \in Decoders, Decoded(s), NEW line \in StreamLine, NEW now \in Nat, NEW fed,
           fed = FeedLine([s EXCEPT !.heard = Append(@, line), !.last = now], line)
    PROVE  fed \in Decoders /\ Decoded(fed) /\ fed.heard = Append(s.heard, line)
<1> DEFINE h == s.heard
           n == Len(h)
           more == Append(h, line)
           taken == [s EXCEPT !.heard = Append(@, line), !.last = now]
<1>1. h \in Seq(StreamLine) /\ n \in Nat /\ n + 1 \in Nat /\ s.data \in Seq(StreamLine)
  BY DEF Decoders
<1>2. /\ more \in Seq(StreamLine) /\ Len(more) = n + 1 /\ more[n + 1] = line
      /\ \A j \in 1 .. n : more[j] = h[j]
  BY <1>1
<1>3. /\ taken \in Decoders /\ taken.heard = more /\ taken.name = s.name
      /\ taken.data = s.data /\ taken.completed = s.completed
  BY <1>2 DEF Decoders
<1>4. PICK next : next = more
  OBVIOUS
<1>5. /\ (\E k \in BlockOf(next, n + 2) : next[k] = "event") <=>
            /\ line # "blank"
            /\ line = "event" \/ \E k \in BlockOf(h, n + 1) : h[k] = "event"
      /\ DataOf(next, n + 2) =
            IF line = "blank" THEN {}
            ELSE IF line = "event" THEN DataOf(h, n + 1) ELSE DataOf(h, n + 1) \cup {n + 1}
  <2> HIDE DEF h
  <2>1. /\ (\E k \in BlockOf(Append(h, line), n + 2) : Append(h, line)[k] = "event") <=>
              /\ line # "blank"
              /\ line = "event" \/ \E k \in BlockOf(h, n + 1) : h[k] = "event"
        /\ DataOf(Append(h, line), n + 2) =
              IF line = "blank" THEN {}
              ELSE IF line = "event" THEN DataOf(h, n + 1) ELSE DataOf(h, n + 1) \cup {n + 1}
    BY <1>1, LastBlock
  <2>2. next = Append(h, line)
    BY <1>4
  <2> QED
    BY <2>1, <2>2, Zenon
<1>6. /\ s.name <=> \E k \in BlockOf(h, n + 1) : h[k] = "event"
      /\ Len(s.data) = Cardinality(DataOf(h, n + 1))
      /\ \A i \in DOMAIN s.data : \E j \in DataOf(h, n + 1) : s.data[i] = h[j]
      /\ s.completed => \E i \in 1 .. n : h[i] = "blank" /\ TellsCompleted(h, i)
  BY DEF Decoded, DecodedFrom
<1>7. IsFiniteSet(DataOf(h, n + 1)) /\ DataOf(h, n + 1) \subseteq 1 .. n
  <2>1. n + 1 \in 1 .. Len(h) + 1 /\ n + 1 - 1 = n
    BY <1>1
  <2> QED
    BY <1>1, <2>1, BlocksAreFinite
<1>8. /\ next \in Seq(StreamLine) /\ Len(next) = n + 1 /\ next[n + 1] = line
      /\ \A j \in 1 .. n : next[j] = h[j]
  BY <1>2, <1>4
<1>9. s.completed => \E i \in 1 .. n + 1 : next[i] = "blank" /\ TellsCompleted(next, i)
  <2> SUFFICES ASSUME s.completed
               PROVE  \E i \in 1 .. n + 1 : next[i] = "blank" /\ TellsCompleted(next, i)
    OBVIOUS
  <2>1. PICK i \in 1 .. n : h[i] = "blank" /\ TellsCompleted(h, i)
    BY <1>6
  <2>2. i \in 1 .. Len(h) + 1 /\ i \in 1 .. n + 1
    BY <1>1, <2>1
  <2>3. TellsCompleted(next, i)
    BY <1>1, <1>4, <2>1, <2>2, TellingStays
  <2> QED
    BY <1>8, <2>1, <2>2, <2>3
<1> HIDE DEF h, n, more, taken
<1>13. ASSUME /\ fed \in Decoders /\ fed.heard = next
              /\ fed.name <=> \E k \in BlockOf(next, n + 2) : next[k] = "event"
              /\ Len(fed.data) = Cardinality(DataOf(next, n + 2))
              /\ \A i \in DOMAIN fed.data : \E j \in DataOf(next, n + 2) : fed.data[i] = next[j]
              /\ fed.completed =>
                    \E i \in 1 .. n + 1 : next[i] = "blank" /\ TellsCompleted(next, i)
       PROVE  fed \in Decoders /\ Decoded(fed) /\ fed.heard = Append(s.heard, line)
  <2>1. Len(next) = n + 1 /\ Len(next) + 1 = n + 2
    BY <1>1, <1>8
  <2>2. next = Append(s.heard, line)
    BY <1>4 DEF more, h
  <2>3. Decoded(fed)
    <3>1. n + 1 + 1 = n + 2
      BY <1>1
    <3>2. DecodedFrom(next, n + 1, fed)
      BY <1>13, <3>1 DEF DecodedFrom
    <3> QED
      BY <1>13, <2>1, <3>2 DEF Decoded
  <2> QED
    BY <1>13, <2>2, <2>3
<1>10. CASE line = "blank"
  <2>1. fed = Dispatched(taken)
    BY <1>10 DEF FeedLine, taken
  <2>2. /\ fed \in Decoders /\ fed.heard = next /\ fed.name = FALSE /\ fed.data = <<>>
        /\ fed.completed =>
              s.completed \/ (Len(s.data) = 1 /\ TypeFirst(s.data[1], s.name))
    BY <1>3, <1>4, <2>1, Dispatching
  <2>3. ASSUME Len(s.data) = 1, TypeFirst(s.data[1], s.name)
        PROVE  \E i \in 1 .. n + 1 : next[i] = "blank" /\ TellsCompleted(next, i)
    <3>1. /\ BlockOf(next, n + 1) = BlockOf(h, n + 1)
          /\ DataOf(next, n + 1) = DataOf(h, n + 1) /\ n + 1 \in 1 .. n + 1
      BY <1>1, <1>4, BlocksStay DEF more, n
    <3>2. PICK j \in DataOf(h, n + 1) : s.data[1] = h[j]
      <4>1. 1 \in DOMAIN s.data
        BY <1>1, <2>3
      <4> QED
        BY <1>6, <4>1
    <3>3. next[j] = s.data[1]
      BY <1>7, <1>8, <3>2
    <3>4. s.name => \E k \in BlockOf(next, n + 1) : next[k] = "event"
      <4>1. BlockOf(h, n + 1) \subseteq 1 .. n
        BY <1>1 DEF BlockOf
      <4> QED
        BY <1>6, <1>8, <3>1, <4>1
    <3>5. TellsCompleted(next, n + 1)
      BY <1>6, <2>3, <3>1, <3>2, <3>3, <3>4 DEF TellsCompleted, TypeFirst
    <3> QED
      BY <1>8, <1>10, <3>1, <3>5
  <2>4. fed.completed => \E i \in 1 .. n + 1 : next[i] = "blank" /\ TellsCompleted(next, i)
    BY <1>9, <2>2, <2>3
  <2>5. Len(fed.data) = Cardinality(DataOf(next, n + 2)) /\ DOMAIN fed.data = {}
    <3>1. DataOf(next, n + 2) = {}
      BY <1>5, <1>10
    <3>2. Len(fed.data) = 0 /\ DOMAIN fed.data = {}
      BY <2>2
    <3> QED
      BY <3>1, <3>2, FS_EmptySet
  <2>6. fed.name <=> \E k \in BlockOf(next, n + 2) : next[k] = "event"
    BY <1>5, <1>10, <2>2
  <2> QED
    BY <1>13, <2>2, <2>4, <2>5, <2>6
<1>11. CASE line = "event"
  <2>1. fed = [taken EXCEPT !.name = TRUE]
    BY <1>11 DEF FeedLine, taken
  <2>2. /\ fed \in Decoders /\ fed.heard = next /\ fed.name = TRUE /\ fed.data = s.data
        /\ fed.completed = s.completed
    BY <1>3, <1>4, <2>1 DEF Decoders
  <2>3. fed.name <=> \E k \in BlockOf(next, n + 2) : next[k] = "event"
    BY <1>5, <1>11, <2>2
  <2>4. DataOf(next, n + 2) = DataOf(h, n + 1)
    BY <1>5, <1>11
  <2>5. \A i \in DOMAIN fed.data : \E j \in DataOf(next, n + 2) : fed.data[i] = next[j]
    BY <1>6, <1>7, <1>8, <2>2, <2>4
  <2>6. Len(fed.data) = Cardinality(DataOf(next, n + 2))
    BY <1>6, <2>2, <2>4
  <2> QED
    BY <1>9, <1>13, <2>2, <2>3, <2>5, <2>6
<1>12. CASE line \notin {"blank", "event"}
  <2>0. PICK longer : longer = Append(s.data, line)
    OBVIOUS
  <2>1. fed = [taken EXCEPT !.data = longer]
    BY <1>3, <1>12, <2>0 DEF FeedLine, taken
  <2>2. /\ longer \in Seq(StreamLine)
        /\ Len(longer) = Len(s.data) + 1
        /\ \A i \in DOMAIN longer :
              IF i \in DOMAIN s.data THEN longer[i] = s.data[i]
              ELSE longer[i] = line
    BY <1>1, <2>0
  <2>3. /\ fed \in Decoders /\ fed.heard = next /\ fed.name = s.name
        /\ fed.data = longer /\ fed.completed = s.completed
    BY <1>3, <1>4, <2>1, <2>2 DEF Decoders
  <2>4. fed.name <=> \E k \in BlockOf(next, n + 2) : next[k] = "event"
    BY <1>5, <1>6, <1>12, <2>3
  <2>5. DataOf(next, n + 2) = DataOf(h, n + 1) \cup {n + 1}
    BY <1>5, <1>12
  <2>6. Len(fed.data) = Cardinality(DataOf(next, n + 2))
    <3>1. n + 1 \notin DataOf(h, n + 1)
      BY <1>1, <1>7
    <3> QED
      BY <1>6, <1>7, <2>2, <2>3, <2>5, <3>1, FS_AddElement
  <2>7. \A i \in DOMAIN fed.data : \E j \in DataOf(next, n + 2) : fed.data[i] = next[j]
    <3>1. ASSUME NEW i \in DOMAIN s.data
          PROVE  \E j \in DataOf(next, n + 2) : s.data[i] = next[j]
      BY <1>6, <1>7, <1>8, <2>5, <3>1
    <3>2. \E j \in DataOf(next, n + 2) : line = next[j]
      BY <1>8, <2>5
    <3>3. ASSUME NEW i \in DOMAIN longer
          PROVE  \E j \in DataOf(next, n + 2) : longer[i] = next[j]
      <4>1. CASE i \in DOMAIN s.data
        BY <2>2, <3>1, <4>1
      <4>2. CASE i \notin DOMAIN s.data
        BY <2>2, <3>2, <4>2
      <4> QED
        BY <4>1, <4>2
    <3> QED
      BY <2>3, <3>3
  <2> QED
    BY <1>9, <1>13, <2>3, <2>4, <2>6, <2>7
<1> QED
  BY <1>10, <1>11, <1>12

Ends == {"cleanup", "reconnect", "again", "over", "killed"}

\* What the stages before one have found, when it is reached.
GainedFits(p, found) ==
    /\ p \in {"insert", "chat"} => found = {}
    /\ p = "responses" => found \subseteq {"chat"}
    /\ p = "anthropic" => found \subseteq {"chat", "responses"}
    /\ p = "metadata" => found = {"chat", "responses"}
    /\ p = "cli" => found = {"chat", "responses", "metadata"}
    /\ p = "schema" => found = {"chat", "responses", "metadata", "codex"}
    /\ p = "admin" => found = Fact \ {"admin", "endpoint", "static"}
    /\ p = "endpoint" => found = Fact \ {"endpoint", "static"}
    /\ p = "static" => found = Fact \ {"static"}

\* The stages pass one after the other, and what ends without a failure has passed all.
Progress ==
    /\ gained \subseteq working /\ working \subseteq Fact /\ GainedFits(part, gained)
    /\ part \in {"cleanup", "reconnect", "again"} /\ ~outcome.failed => gained = Fact
    /\ outcome.said # "nothing" => part \in {"over", "killed"}
    /\ outcome.said = "passed" => part = "over"

\* A statement still on its way belongs to an acceptance that broke off at once.
TokenFits ==
    /\ tokenRow \in {"none", "written", "late"}
    /\ tokenRow = "late" => gained = {} /\ outcome.failed /\ part \in Ends

\* A program that runs is within its time, which ends before that of the whole.
CliInTime ==
    /\ part = "cli" => partFrom < Total /\ partFrom <= tick
    /\ part = "cli" /\ cli.runs = "running" => tick - partFrom <= CliTime

\* What the two threads put in the queue: the end of a pipe comes once and after all that
\* came through it, and every event is in the queue or was counted.
Piped(c) ==
    /\ "outEnd" \in c.ended =>
          ~c.out /\ \A i \in DOMAIN c.queue : c.queue[i] \notin CliEvent \cup {"outEnd"}
    /\ "errEnd" \in c.ended => ~c.err /\ \A i \in DOMAIN c.queue : c.queue[i] # "errEnd"
    /\ \A i \in DOMAIN c.queue : c.queue[i] = "outEnd" =>
          ~c.out /\ \A j \in DOMAIN c.queue : j > i => c.queue[j] \notin CliEvent \cup {"outEnd"}
    /\ \A i \in DOMAIN c.queue : c.queue[i] = "errEnd" =>
          ~c.err /\ \A j \in DOMAIN c.queue : j > i => c.queue[j] # "errEnd"
    /\ \A i \in DOMAIN c.wrote :
          \/ \E j \in DOMAIN c.queue : c.queue[j] = c.wrote[i]
          \/ c.wrote[i] = "other" \/ (c.wrote[i] = "completed" /\ c.completed)
          \/ c.wrote[i] = "failed" /\ c.failure
    /\ \A j \in DOMAIN c.queue : c.queue[j] = "completed" =>
          \E i \in DOMAIN c.wrote : c.wrote[i] = "completed"
    /\ c.completed => \E i \in DOMAIN c.wrote : c.wrote[i] = "completed"

CliFits ==
    /\ Piped(cli)
    /\ \A i \in DOMAIN cli.wrote : cli.wrote[i] = "completed" => "codex" \in working

StreamFits ==
    /\ Decoded(sse)
    /\ sse.heard # <<>> => "responses" \in working

AcceptanceInv ==
    /\ AcceptanceTypes /\ Progress /\ TokenFits /\ CliInTime /\ CliFits /\ StreamFits
    /\ AcceptedIsClean /\ CliEndsWithStage

LEMMA NoStreamFits ==
    /\ NoStream \in Decoders /\ NoStream.heard = <<>> /\ Decoded(NoStream)
    /\ \A now \in Nat :
          LET s == [NoStream EXCEPT !.last = now]
          IN  s \in Decoders /\ s.heard = <<>> /\ Decoded(s)
<1>1. /\ <<>> \in Seq(StreamLine) /\ Len(<<>>) = 0 /\ DOMAIN <<>> = {}
  OBVIOUS
<1>2. BlockOf(<<>>, 1) = {} /\ DataOf(<<>>, 1) = {}
  BY DEF BlockOf, DataOf
<1>3. ASSUME NEW s, s.heard = <<>>, s.name = FALSE, s.data = <<>>, s.completed = FALSE
      PROVE  Decoded(s)
  <2>1. DecodedFrom(<<>>, 0, s)
    BY <1>1, <1>2, <1>3, FS_EmptySet DEF DecodedFrom
  <2> QED
    BY <1>1, <1>3, <2>1 DEF Decoded
<1>4. /\ NoStream \in Decoders /\ NoStream.heard = <<>> /\ NoStream.name = FALSE
      /\ NoStream.data = <<>> /\ NoStream.completed = FALSE
  BY <1>1 DEF NoStream, Decoders
<1>5. ASSUME NEW now \in Nat
      PROVE  LET s == [NoStream EXCEPT !.last = now]
             IN  s \in Decoders /\ s.heard = <<>> /\ Decoded(s)
  <2>1. PICK s : s = [NoStream EXCEPT !.last = now]
    OBVIOUS
  <2>2. /\ s \in Decoders /\ s.heard = <<>> /\ s.name = FALSE
        /\ s.data = <<>> /\ s.completed = FALSE
    BY <1>1, <2>1 DEF NoStream, Decoders
  <2> QED
    BY <1>3, <2>1, <2>2
<1> QED
  BY <1>3, <1>4, <1>5

LEMMA NoCliFits ==
    ASSUME NEW c,
           \/ \E now \in {"never", "exited"} : c = [NoCli EXCEPT !.runs = now]
           \/ c = [NoCli EXCEPT !.runs = "running", !.out = TRUE, !.err = TRUE]
    PROVE  c \in Clis /\ Piped(c) /\ c.wrote = <<>>
<1>1. <<>> \in Seq(CliEvent) /\ <<>> \in Seq(CliEvent \cup PipeEnd) /\ DOMAIN <<>> = {}
  OBVIOUS
<1>2. /\ c \in Clis /\ c.wrote = <<>> /\ c.queue = <<>> /\ c.ended = {}
      /\ c.completed = FALSE
  <2>1. /\ NoCli \in Clis /\ NoCli.wrote = <<>> /\ NoCli.queue = <<>> /\ NoCli.ended = {}
        /\ NoCli.completed = FALSE
    BY <1>1 DEF NoCli, Clis
  <2>2. CASE \E now \in {"never", "exited"} : c = [NoCli EXCEPT !.runs = now]
    BY <2>1, <2>2 DEF Clis
  <2>3. CASE c = [NoCli EXCEPT !.runs = "running", !.out = TRUE, !.err = TRUE]
    BY <2>1, <2>3 DEF Clis
  <2> QED
    BY <2>2, <2>3
<1>3. Piped(c)
  BY <1>1, <1>2 DEF Piped
<1> QED
  BY <1>2, <1>3

\* What every step keeps of an acceptance that is not at its end.
LEMMA NotSaidYet ==
    ASSUME AcceptanceInv, part \notin {"over", "killed"}
    PROVE  outcome.said = "nothing" /\ outcome \in Outcomes
BY DEF AcceptanceInv, AcceptanceTypes, Progress

\* A stage that breaks off leaves for the cleanup, as failed.
LEMMA BreaksOff ==
    ASSUME AcceptanceInv, Broken, Stay, UNCHANGED gained, part \notin Ends,
           tokenRow' \in {"none", "written", "late"}, tokenRow' = "late" => gained = {},
           cli' \in Clis, CliFits', cli'.runs # "running"
    PROVE  AcceptanceInv'
<1>1. /\ part' = "cleanup" /\ partFrom' = tick /\ sse' = NoStream
      /\ outcome' = [outcome EXCEPT !.failed = TRUE]
      /\ UNCHANGED <<tick, working, gained>> /\ tick \in Nat
  BY DEF Broken, Enter, Stay, AcceptanceInv, AcceptanceTypes
<1>2. outcome' \in Outcomes /\ outcome'.failed = TRUE /\ outcome'.said = "nothing"
  BY <1>1, NotSaidYet DEF Ends, Outcomes
<1>3. AcceptanceTypes'
  BY <1>1, <1>2, NoStreamFits DEF AcceptanceTypes
<1>4. Progress'
  BY <1>1, <1>2 DEF AcceptanceInv, Progress, GainedFits
<1>5. TokenFits' /\ CliInTime' /\ CliEndsWithStage' /\ AcceptedIsClean'
  BY <1>1, <1>2 DEF TokenFits, Ends, CliInTime, CliEndsWithStage, AcceptedIsClean
<1>6. StreamFits'
  BY <1>1, NoStreamFits DEF StreamFits
<1> QED
  BY <1>3, <1>4, <1>5, <1>6 DEF AcceptanceInv

\* A stage that found what it looked for hands over to the next, if there is time.
LEMMA GoesOn ==
    ASSUME AcceptanceInv, part \notin Ends, Stay,
           NEW next, next \notin Ends, Proceed(next),
           gained' \subseteq working, GainedFits(next, gained'),
           tokenRow' \in {"none", "written"},
           sse' \in Decoders, StreamFits',
           cli' \in Clis, CliFits', cli'.runs = "running" => part' = "cli"
    PROVE  AcceptanceInv'
<1> USE TimesAssumption
<1>1. /\ partFrom' = tick /\ UNCHANGED <<tick, working>> /\ tick \in Nat
      /\ \/ part' = next /\ tick < Total /\ outcome' = outcome
         \/ part' = "cleanup" /\ outcome' = [outcome EXCEPT !.failed = TRUE]
  BY DEF Proceed, InTime, Enter, Stay, AcceptanceInv, AcceptanceTypes
<1>2. /\ outcome' \in Outcomes /\ outcome'.said = "nothing"
      /\ part' = "cleanup" => outcome'.failed = TRUE
  BY <1>1, NotSaidYet DEF Ends, Outcomes
<1>3. AcceptanceTypes'
  BY <1>1, <1>2 DEF AcceptanceTypes
<1>4. Progress'
  BY <1>1, <1>2 DEF AcceptanceInv, Progress, GainedFits, Ends
<1>5. CliInTime'
  <2> SUFFICES ASSUME part' = "cli" PROVE tick < Total /\ tick - tick <= CliTime'
    BY <1>1 DEF CliInTime
  <2>1. tick < Total /\ partFrom' = tick
    BY <1>1
  <2>2. CliTime' = (IF Total - partFrom' < CliLimit THEN Total - partFrom' ELSE CliLimit)
    BY DEF CliTime
  <2> QED
    BY <1>1, <2>1, <2>2
<1>6. TokenFits' /\ CliEndsWithStage' /\ AcceptedIsClean'
  BY <1>1, <1>2 DEF TokenFits, Ends, CliEndsWithStage, AcceptedIsClean
<1> QED
  BY <1>3, <1>4, <1>5, <1>6 DEF AcceptanceInv

LEMMA StageBreaks ==
    ASSUME AcceptanceInv, Broken, Stay, UNCHANGED <<gained, cli>>, part \notin Ends \cup {"cli"},
           tokenRow' = tokenRow \/ (tokenRow' \in {"none", "written", "late"} /\ gained = {})
    PROVE  AcceptanceInv'
<1>1. /\ tokenRow \in {"none", "written", "late"} /\ (tokenRow = "late" => gained = {})
      /\ cli \in Clis /\ CliFits /\ cli.runs # "running"
  BY DEF AcceptanceInv, AcceptanceTypes, TokenFits, CliEndsWithStage
<1>2. CliFits'
  BY <1>1 DEF CliFits, Stay
<1> QED
  BY <1>1, <1>2, BreaksOff

\* What a stage that is not the CLI's leaves as it is.
LEMMA StageKeeps ==
    ASSUME AcceptanceInv, part \notin Ends \cup {"cli"}, UNCHANGED <<working, tokenRow, cli>>
    PROVE  /\ tokenRow' \in {"none", "written"} /\ cli' \in Clis /\ CliFits'
           /\ cli'.runs # "running"
           /\ sse' = sse => sse' \in Decoders /\ StreamFits'
           /\ \/ sse' = NoStream
              \/ sse' = [NoStream EXCEPT !.last = tick]
              => sse' \in Decoders /\ StreamFits'
<1>1. tokenRow' \in {"none", "written"} /\ cli' \in Clis /\ CliFits' /\ cli'.runs # "running"
  BY DEF AcceptanceInv, AcceptanceTypes, TokenFits, CliEndsWithStage, CliFits
<1>2. sse' = sse => sse' \in Decoders /\ StreamFits'
  BY DEF AcceptanceInv, AcceptanceTypes, StreamFits
<1>3. ASSUME sse' = NoStream \/ sse' = [NoStream EXCEPT !.last = tick]
      PROVE  sse' \in Decoders /\ StreamFits'
  <2>1. tick \in Nat
    BY DEF AcceptanceInv, AcceptanceTypes
  <2>2. sse' \in Decoders /\ sse'.heard = <<>> /\ Decoded(sse')
    BY <1>3, <2>1, NoStreamFits
  <2> QED
    BY <2>2 DEF StreamFits
<1> QED
  BY <1>1, <1>2, <1>3

LEMMA Calls ==
    ASSUME AcceptanceInv, InsertToken \/ CallChat \/ RefuseStream \/ CallAnthropic
    PROVE  AcceptanceInv'
<1>1. /\ gained \subseteq working /\ GainedFits(part, gained)
      /\ cli \in Clis /\ CliFits /\ (cli.runs # "running" \/ part = "cli")
  BY DEF AcceptanceInv, AcceptanceTypes, Progress, CliEndsWithStage
<1>2. CASE InsertToken
  <2>1. part = "insert" /\ Stay /\ UNCHANGED <<gained, cli>> /\ gained = {}
    BY <1>1, <1>2 DEF InsertToken, GainedFits
  <2>2. CASE Broken
    BY <1>2, <2>1, <2>2, StageBreaks DEF InsertToken, Ends
  <2>3. CASE tokenRow' = "written" /\ Proceed("chat") /\ UNCHANGED sse
    <3>1. GainedFits("chat", gained') /\ gained' \subseteq working
      BY <2>1 DEF GainedFits
    <3>2. sse' \in Decoders /\ StreamFits' /\ cli' \in Clis /\ CliFits' /\ cli'.runs # "running"
      BY <1>1, <2>1, <2>3
         DEF AcceptanceInv, AcceptanceTypes, StreamFits, CliFits, Stay
    <3> QED
      BY <2>1, <2>3, <3>1, <3>2, GoesOn DEF Ends
  <2> QED
    BY <1>2, <2>2, <2>3 DEF InsertToken
<1>3. CASE CallChat
  <2>1. part = "chat" /\ Stay /\ UNCHANGED <<tokenRow, cli, working>> /\ gained = {}
    BY <1>1, <1>3 DEF CallChat, GainedFits, Stay
  <2>2. CASE Broken /\ UNCHANGED gained
    BY <2>1, <2>2, StageBreaks DEF Ends
  <2>3. CASE /\ gained' = gained \cup (IF TokenTaken /\ "chat" \in working THEN {"chat"} ELSE {})
             /\ Proceed("responses") /\ sse' = [NoStream EXCEPT !.last = tick]
    <3>1. GainedFits("responses", gained') /\ gained' \subseteq working
      BY <2>1, <2>3 DEF GainedFits
    <3> QED
      BY <2>1, <2>3, <3>1, StageKeeps, GoesOn DEF Ends
  <2> QED
    BY <1>3, <2>2, <2>3 DEF CallChat
<1>4. CASE RefuseStream
  <2>1. /\ part = "responses" /\ Stay /\ UNCHANGED <<tokenRow, cli, working, gained>>
        /\ gained \subseteq {"chat"}
    BY <1>1, <1>4 DEF RefuseStream, GainedFits, Stay
  <2>2. CASE Broken
    BY <2>1, <2>2, StageBreaks DEF Ends
  <2>3. CASE Proceed("anthropic") /\ sse' = NoStream
    <3>1. GainedFits("anthropic", gained') /\ gained' \subseteq working
      BY <1>1, <2>1 DEF GainedFits
    <3> QED
      BY <2>1, <2>3, <3>1, StageKeeps, GoesOn DEF Ends
  <2> QED
    BY <1>4, <2>2, <2>3 DEF RefuseStream
<1>5. CASE CallAnthropic
  <2>1. /\ part = "anthropic" /\ Stay /\ UNCHANGED <<tokenRow, cli, working, gained>>
        /\ gained \subseteq {"chat", "responses"}
    BY <1>1, <1>5 DEF CallAnthropic, GainedFits, Stay
  <2>2. CASE Broken
    BY <2>1, <2>2, StageBreaks DEF Ends
  <2>3. CASE {"chat", "responses"} \subseteq gained /\ Proceed("metadata") /\ UNCHANGED sse
    <3>1. GainedFits("metadata", gained') /\ gained' \subseteq working
      BY <1>1, <2>1, <2>3 DEF GainedFits
    <3> QED
      BY <2>1, <2>3, <3>1, StageKeeps, GoesOn DEF Ends
  <2> QED
    BY <1>5, <2>2, <2>3 DEF CallAnthropic
<1> QED
  BY <1>2, <1>3, <1>4, <1>5

\* The stream is read: what it told when it is taken for complete was in one block.
LEMMA StreamSteps ==
    ASSUME AcceptanceInv,
           (\E line \in StreamLine : ReadLine(line)) \/ EndStream \/ StreamTimesOut
    PROVE  /\ AcceptanceInv'
           /\ "responses" \in gained' =>
                 \E i \in BlockEnds(sse.heard) : TellsCompleted(sse.heard, i)
<1>1. /\ gained \subseteq working /\ part = "responses" /\ gained \subseteq {"chat"}
      /\ Stay /\ UNCHANGED <<wire, tokenRow, refusedFrom, cli, working>>
      /\ sse \in Decoders /\ Decoded(sse) /\ tick \in Nat
  BY DEF AcceptanceInv, AcceptanceTypes, Progress, GainedFits, ReadLine, EndStream,
         StreamTimesOut, Stay, StreamFits
<1>2. CASE Broken /\ UNCHANGED gained
  BY <1>1, <1>2, StageBreaks DEF Ends
<1>3. CASE /\ Dispatched(sse).completed /\ sse' = NoStream /\ Proceed("anthropic")
           /\ gained' = gained \cup {"responses"} /\ (sse.heard # <<>> \/ StreamOffered)
  <2>1. PICK last : last = Dispatched(sse)
    OBVIOUS
  <2>2. /\ last.completed /\ gained' = gained \cup {"responses"} /\ sse' = NoStream
        /\ Proceed("anthropic") /\ (sse.heard # <<>> \/ StreamOffered)
    BY <1>3, <2>1
  <2>3. sse.completed \/ (Len(sse.data) = 1 /\ TypeFirst(sse.data[1], sse.name))
    BY <1>1, <2>1, <2>2, Dispatching
  <2>4. PICK h, n : h = sse.heard /\ n = Len(h)
    OBVIOUS
  <2>5. DecodedFrom(h, n, sse) /\ h \in Seq(StreamLine) /\ n \in Nat /\ n + 1 \in Nat
        /\ sse.data \in Seq(StreamLine)
    BY <1>1, <2>4 DEF Decoded, Decoders
  <2>6. \E i \in BlockEnds(h) : TellsCompleted(h, i)
    <3>1. CASE sse.completed
      BY <2>4, <2>5, <3>1 DEF DecodedFrom, BlockEnds
    <3>2. CASE Len(sse.data) = 1 /\ TypeFirst(sse.data[1], sse.name)
      <4>1. Cardinality(DataOf(h, n + 1)) = 1 /\ 1 \in DOMAIN sse.data
        BY <2>5, <3>2 DEF DecodedFrom
      <4>2. PICK j \in DataOf(h, n + 1) : sse.data[1] = h[j]
        BY <2>5, <4>1 DEF DecodedFrom
      <4>3. sse.name => \E k \in BlockOf(h, n + 1) : h[k] = "event"
        BY <2>5 DEF DecodedFrom
      <4>4. TellsCompleted(h, n + 1)
        BY <3>2, <4>1, <4>2, <4>3 DEF TellsCompleted, TypeFirst
      <4>5. n + 1 \in BlockEnds(h)
        BY <2>4, <2>5 DEF BlockEnds
      <4> QED
        BY <4>4, <4>5
    <3> QED
      BY <2>3, <3>1, <3>2
  <2>7. "responses" \in working
    BY <2>2 DEF StreamOffered, AcceptanceInv, StreamFits
  <2>8. GainedFits("anthropic", gained') /\ gained' \subseteq working
    BY <1>1, <2>2, <2>7 DEF GainedFits
  <2>9. AcceptanceInv'
    BY <1>1, <2>2, <2>8, StageKeeps, GoesOn DEF Ends
  <2> QED
    BY <2>4, <2>6, <2>9
<1>4. ASSUME NEW line \in StreamLine, ReadLine(line), ~Broken
      PROVE  AcceptanceInv' /\ gained' = gained
  <2>1. PICK fed : fed = FeedLine([sse EXCEPT !.heard = Append(@, line), !.last = tick], line)
    OBVIOUS
  <2>2. /\ sse' = fed /\ StreamOffered
        /\ UNCHANGED <<part, partFrom, outcome, gained, tick, working, tokenRow, cli>>
    BY <1>4, <2>1 DEF ReadLine, Stay
  <2>3. fed \in Decoders /\ Decoded(fed)
    BY <1>1, <2>1, Feeding
  <2>4. AcceptanceTypes'
    BY <2>2, <2>3 DEF AcceptanceInv, AcceptanceTypes
  <2>5. StreamFits'
    BY <2>2, <2>3 DEF StreamFits, StreamOffered
  <2>6. Progress' /\ TokenFits' /\ AcceptedIsClean'
    BY <2>2 DEF AcceptanceInv, Progress, TokenFits, AcceptedIsClean
  <2>7. CliInTime' /\ CliFits' /\ CliEndsWithStage'
    BY <2>2 DEF AcceptanceInv, CliInTime, CliTime, CliFits, CliEndsWithStage
  <2> QED
    BY <2>2, <2>4, <2>5, <2>6, <2>7 DEF AcceptanceInv
<1>5. /\ (\E line \in StreamLine : ReadLine(line)) => UNCHANGED gained
      /\ StreamTimesOut => Broken /\ UNCHANGED gained
  BY DEF ReadLine, StreamTimesOut
<1>6. EndStream => \/ Broken /\ UNCHANGED gained
                   \/ /\ Dispatched(sse).completed /\ sse' = NoStream
                      /\ Proceed("anthropic") /\ gained' = gained \cup {"responses"}
                      /\ (sse.heard # <<>> \/ StreamOffered)
  BY DEF EndStream
<1>7. UNCHANGED gained => "responses" \notin gained'
  BY <1>1
<1> QED
  BY <1>2, <1>3, <1>4, <1>5, <1>6, <1>7

\* The checks of single facts, the last of them before the cleanup.
LEMMA Shows ==
    ASSUME AcceptanceInv, (\E f \in DOMAIN NextStage : ShowFact(f)) \/ ShowPage
    PROVE  AcceptanceInv'
<1>1. gained \subseteq working /\ GainedFits(part, gained) /\ working \subseteq Fact
  BY DEF AcceptanceInv, Progress
<1>2. CASE ShowPage
  <2>1. /\ part = "static" /\ Stay /\ UNCHANGED <<tokenRow, cli, working>>
    BY <1>2 DEF ShowPage, Stay
  <2>2. CASE Broken /\ UNCHANGED gained
    BY <2>1, <2>2, StageBreaks DEF Ends
  <2>3. CASE /\ "static" \in working /\ gained' = gained \cup {"static"} /\ Enter("cleanup")
             /\ UNCHANGED <<outcome, sse>>
    <3>1. /\ part' = "cleanup" /\ partFrom' = tick /\ UNCHANGED <<tick, working, outcome, sse>>
          /\ tick \in Nat /\ outcome.said = "nothing" /\ outcome \in Outcomes
      BY <2>1, <2>3, NotSaidYet DEF Enter, Stay, AcceptanceInv, AcceptanceTypes
    <3>2. gained' = Fact
      BY <1>1, <2>1, <2>3 DEF GainedFits, Fact
    <3>3. /\ tokenRow' \in {"none", "written"} /\ cli' \in Clis /\ CliFits'
          /\ cli'.runs # "running" /\ sse' \in Decoders /\ StreamFits'
      BY <2>1, <3>1, StageKeeps DEF Ends
    <3>4. AcceptanceTypes'
      BY <3>1, <3>3 DEF AcceptanceTypes
    <3>5. Progress'
      BY <1>1, <2>3, <3>1, <3>2 DEF Progress, GainedFits
    <3>6. TokenFits' /\ CliInTime' /\ CliEndsWithStage' /\ AcceptedIsClean'
      BY <3>1, <3>3 DEF TokenFits, CliInTime, CliEndsWithStage, AcceptedIsClean
    <3> QED
      BY <3>3, <3>4, <3>5, <3>6 DEF AcceptanceInv
  <2> QED
    BY <1>2, <2>2, <2>3 DEF ShowPage
<1>3. ASSUME NEW f \in DOMAIN NextStage, ShowFact(f)
      PROVE  AcceptanceInv'
  <2>1. /\ part = f /\ f \in {"metadata", "schema", "admin", "endpoint"} /\ Stay
        /\ UNCHANGED <<wire, tokenRow, refusedFrom, working>>
        /\ cli' = IF part' # "cli" THEN cli
                  ELSE [NoCli EXCEPT !.runs = "running", !.out = TRUE, !.err = TRUE]
    BY <1>3 DEF ShowFact, Stay, NextStage
  <2>2. CASE Broken /\ UNCHANGED gained
    <3>1. part' = "cleanup"
      BY <2>2 DEF Broken, Enter
    <3> QED
      BY <2>1, <2>2, <3>1, StageBreaks DEF Ends
  <2>3. CASE /\ f \in working /\ gained' = gained \cup {f} /\ Proceed(NextStage[f])
             /\ UNCHANGED sse
    <3>1. PICK next : next = NextStage[f]
      OBVIOUS
    <3>2. /\ next \in {"cli", "admin", "endpoint", "static"}
          /\ GainedFits(next, gained') /\ gained' \subseteq working
      <4>1. CASE f = "metadata"
        BY <1>1, <2>1, <2>3, <3>1, <4>1 DEF NextStage, GainedFits, Fact
      <4>2. CASE f = "schema"
        BY <1>1, <2>1, <2>3, <3>1, <4>2 DEF NextStage, GainedFits, Fact
      <4>3. CASE f = "admin"
        BY <1>1, <2>1, <2>3, <3>1, <4>3 DEF NextStage, GainedFits, Fact
      <4>4. CASE f = "endpoint"
        BY <1>1, <2>1, <2>3, <3>1, <4>4 DEF NextStage, GainedFits, Fact
      <4> QED
        BY <2>1, <4>1, <4>2, <4>3, <4>4
    <3>3. /\ tokenRow \in {"none", "written"} /\ cli \in Clis /\ CliFits
          /\ cli.runs # "running" /\ sse \in Decoders /\ StreamFits
      BY <2>1 DEF AcceptanceInv, AcceptanceTypes, TokenFits, Ends, CliEndsWithStage
    <3>4. sse' \in Decoders /\ StreamFits'
      BY <2>1, <2>3, <3>3 DEF StreamFits
    <3>5. cli' \in Clis /\ CliFits' /\ (cli'.runs = "running" => part' = "cli")
      <4>1. CASE part' # "cli"
        BY <2>1, <3>3, <4>1 DEF CliFits
      <4>2. CASE part' = "cli"
        <5>1. cli' \in Clis /\ Piped(cli') /\ cli'.wrote = <<>>
          BY <2>1, <4>2, NoCliFits
        <5>2. DOMAIN <<>> = {}
          OBVIOUS
        <5> QED
          BY <4>2, <5>1, <5>2 DEF CliFits
      <4> QED
        BY <4>1, <4>2
    <3>6. part \notin Ends /\ next \notin Ends /\ Proceed(next)
      BY <2>1, <2>3, <3>1, <3>2 DEF Ends
    <3> QED
      BY <2>1, <3>2, <3>3, <3>4, <3>5, <3>6, GoesOn
  <2> QED
    BY <1>3, <2>2, <2>3 DEF ShowFact
<1> QED
  BY <1>2, <1>3

\* What is in the queue after something more was put in, or the first was taken out.
LEMMA Queued ==
    ASSUME NEW S, NEW q \in Seq(S), NEW e \in S
    PROVE  /\ Append(q, e) \in Seq(S) /\ DOMAIN Append(q, e) = DOMAIN q \cup {Len(q) + 1}
           /\ DOMAIN q = 1 .. Len(q) /\ Len(q) \in Nat /\ Append(q, e)[Len(q) + 1] = e
           /\ \A i \in DOMAIN q : Append(q, e)[i] = q[i]
<1>1. /\ Append(q, e) \in Seq(S) /\ DOMAIN Append(q, e) = 1 .. Len(q) + 1
      /\ DOMAIN q = 1 .. Len(q) /\ Len(q) \in Nat /\ Append(q, e)[Len(q) + 1] = e
      /\ \A i \in 1 .. Len(q) : Append(q, e)[i] = q[i]
  OBVIOUS
<1> QED
  BY <1>1

LEMMA Dequeued ==
    ASSUME NEW S, NEW q \in Seq(S), q # <<>>
    PROVE  /\ Tail(q) \in Seq(S) /\ 1 \in DOMAIN q /\ q[1] = Head(q)
           /\ DOMAIN q \subseteq Nat
           /\ \A i \in DOMAIN Tail(q) : i + 1 \in DOMAIN q /\ Tail(q)[i] = q[i + 1]
           /\ \A i \in DOMAIN q : i # 1 => i - 1 \in DOMAIN Tail(q) /\ Tail(q)[i - 1] = q[i]
<1>1. /\ Tail(q) \in Seq(S) /\ DOMAIN Tail(q) = 1 .. Len(q) - 1
      /\ DOMAIN q = 1 .. Len(q) /\ Len(q) \in Nat /\ Len(q) > 0 /\ Head(q) = q[1]
      /\ \A i \in 1 .. Len(q) - 1 : Tail(q)[i] = q[i + 1]
  OBVIOUS
<1> QED
  BY <1>1

\* The program writes an event.
LEMMA EventPiped ==
    ASSUME NEW c \in Clis, Piped(c), c.out, NEW e \in CliEvent, NEW next,
           next = [c EXCEPT !.queue = Append(@, e), !.wrote = Append(@, e)]
    PROVE  next \in Clis /\ Piped(next)
<1> DEFINE Item == CliEvent \cup PipeEnd
<1>1. c.queue \in Seq(Item) /\ c.wrote \in Seq(CliEvent) /\ e \in Item
  BY DEF Clis
<1>2. PICK q, w : q = Append(c.queue, e) /\ w = Append(c.wrote, e)
  OBVIOUS
<1> HIDE DEF Item
<1>3. /\ q \in Seq(Item) /\ DOMAIN q = DOMAIN c.queue \cup {Len(c.queue) + 1}
      /\ DOMAIN c.queue = 1 .. Len(c.queue) /\ Len(c.queue) \in Nat
      /\ q[Len(c.queue) + 1] = e /\ \A i \in DOMAIN c.queue : q[i] = c.queue[i]
  BY <1>1, <1>2, Queued
<1>4. /\ w \in Seq(CliEvent) /\ DOMAIN w = DOMAIN c.wrote \cup {Len(c.wrote) + 1}
      /\ w[Len(c.wrote) + 1] = e /\ \A i \in DOMAIN c.wrote : w[i] = c.wrote[i]
  BY <1>1, <1>2, Queued
<1>5. /\ next \in Clis /\ next.queue = q /\ next.wrote = w /\ next.ended = c.ended
      /\ next.out = c.out /\ next.err = c.err /\ next.completed = c.completed
      /\ next.failure = c.failure
  BY <1>2, <1>3, <1>4 DEF Clis, Item
<1>6. e \notin PipeEnd
  BY DEF CliEvent, PipeEnd
<1>7. /\ "outEnd" \notin c.ended
      /\ \A i \in DOMAIN q : q[i] # "outEnd"
  BY <1>3, <1>6 DEF Piped, PipeEnd
<1>8. /\ "errEnd" \in c.ended => ~c.err /\ \A i \in DOMAIN q : q[i] # "errEnd"
      /\ \A i \in DOMAIN q : q[i] = "errEnd" =>
            ~c.err /\ \A j \in DOMAIN q : j > i => q[j] # "errEnd"
  BY <1>3, <1>6 DEF Piped, PipeEnd
<1>9. \A i \in DOMAIN w :
          \/ \E j \in DOMAIN q : q[j] = w[i]
          \/ w[i] = "other" \/ (w[i] = "completed" /\ c.completed)
          \/ w[i] = "failed" /\ c.failure
  <2>1. ASSUME NEW i \in DOMAIN c.wrote
        PROVE  \/ \E j \in DOMAIN q : q[j] = w[i]
               \/ w[i] = "other" \/ (w[i] = "completed" /\ c.completed)
               \/ w[i] = "failed" /\ c.failure
    BY <1>3, <1>4, <2>1 DEF Piped
  <2>2. \E j \in DOMAIN q : q[j] = w[Len(c.wrote) + 1]
    BY <1>3, <1>4
  <2> QED
    BY <1>4, <2>1, <2>2
<1>10. /\ \A j \in DOMAIN q : q[j] = "completed" => \E i \in DOMAIN w : w[i] = "completed"
       /\ c.completed => \E i \in DOMAIN w : w[i] = "completed"
  BY <1>3, <1>4 DEF Piped
<1>11. PICK d : d = next
  OBVIOUS
<1>12. /\ d.queue = q /\ d.wrote = w /\ d.ended = c.ended /\ d.out = c.out /\ d.err = c.err
       /\ d.completed = c.completed /\ d.failure = c.failure
  BY <1>5, <1>11
<1>13. Piped(d)
  BY <1>7, <1>8, <1>9, <1>10, <1>12 DEF Piped
<1> QED
  BY <1>5, <1>11, <1>13

\* A pipe ends.
LEMMA EndPiped ==
    ASSUME NEW c \in Clis, Piped(c), NEW next,
           \/ c.out /\ next = [c EXCEPT !.out = FALSE, !.queue = Append(@, "outEnd")]
           \/ c.err /\ next = [c EXCEPT !.err = FALSE, !.queue = Append(@, "errEnd")]
    PROVE  next \in Clis /\ Piped(next) /\ next.wrote = c.wrote /\ next.runs = c.runs
<1> DEFINE Item == CliEvent \cup PipeEnd
<1>1. PICK e \in PipeEnd :
         \/ e = "outEnd" /\ c.out /\ next = [c EXCEPT !.out = FALSE, !.queue = Append(@, e)]
         \/ e = "errEnd" /\ c.err /\ next = [c EXCEPT !.err = FALSE, !.queue = Append(@, e)]
  BY DEF PipeEnd
<1>2. c.queue \in Seq(Item) /\ e \in Item
  BY DEF Clis
<1>3. PICK q : q = Append(c.queue, e)
  OBVIOUS
<1> HIDE DEF Item
<1>4. /\ q \in Seq(Item) /\ DOMAIN q = DOMAIN c.queue \cup {Len(c.queue) + 1}
      /\ DOMAIN c.queue = 1 .. Len(c.queue) /\ Len(c.queue) \in Nat
      /\ q[Len(c.queue) + 1] = e /\ \A i \in DOMAIN c.queue : q[i] = c.queue[i]
  BY <1>2, <1>3, Queued
<1>5. /\ next \in Clis /\ next.queue = q /\ next.wrote = c.wrote /\ next.ended = c.ended
      /\ next.out = (IF e = "outEnd" THEN FALSE ELSE c.out)
      /\ next.err = (IF e = "errEnd" THEN FALSE ELSE c.err)
      /\ next.completed = c.completed /\ next.failure = c.failure /\ next.runs = c.runs
  BY <1>1, <1>3, <1>4 DEF Clis, Item
<1>6. e \notin CliEvent
  BY DEF CliEvent, PipeEnd
<1>7. /\ \A i \in DOMAIN c.wrote :
            \/ \E j \in DOMAIN q : q[j] = c.wrote[i]
            \/ c.wrote[i] = "other" \/ (c.wrote[i] = "completed" /\ c.completed)
            \/ c.wrote[i] = "failed" /\ c.failure
      /\ \A j \in DOMAIN q : q[j] = "completed" =>
            \E i \in DOMAIN c.wrote : c.wrote[i] = "completed"
      /\ c.completed => \E i \in DOMAIN c.wrote : c.wrote[i] = "completed"
  BY <1>4, <1>6 DEF Piped, CliEvent
<1>8. CASE e = "outEnd"
  <2>1. /\ "outEnd" \notin c.ended
        /\ \A i \in DOMAIN c.queue : c.queue[i] # "outEnd"
    BY <1>1, <1>8 DEF Piped
  <2>2. \A i \in DOMAIN q : q[i] = "outEnd" =>
            \A j \in DOMAIN q : j > i => q[j] \notin CliEvent \cup {"outEnd"}
    BY <1>4, <1>8, <2>1
  <2>3. /\ "errEnd" \in c.ended => ~c.err /\ \A i \in DOMAIN q : q[i] # "errEnd"
        /\ \A i \in DOMAIN q : q[i] = "errEnd" =>
              ~c.err /\ \A j \in DOMAIN q : j > i => q[j] # "errEnd"
    BY <1>4, <1>8 DEF Piped
  <2> QED
    BY <1>5, <1>7, <1>8, <2>1, <2>2, <2>3 DEF Piped
<1>9. CASE e = "errEnd"
  <2>1. /\ "errEnd" \notin c.ended
        /\ \A i \in DOMAIN c.queue : c.queue[i] # "errEnd"
    BY <1>1, <1>9 DEF Piped
  <2>2. \A i \in DOMAIN q : q[i] = "errEnd" =>
            \A j \in DOMAIN q : j > i => q[j] # "errEnd"
    BY <1>4, <1>9, <2>1
  <2>3. /\ "outEnd" \in c.ended =>
              ~c.out /\ \A i \in DOMAIN q : q[i] \notin CliEvent \cup {"outEnd"}
        /\ \A i \in DOMAIN q : q[i] = "outEnd" =>
              ~c.out /\ \A j \in DOMAIN q : j > i => q[j] \notin CliEvent \cup {"outEnd"}
    BY <1>4, <1>6, <1>9 DEF Piped
  <2> QED
    BY <1>5, <1>7, <1>9, <2>1, <2>2, <2>3 DEF Piped
<1> QED
  BY <1>8, <1>9 DEF PipeEnd

\* The loop takes the first of the queue.
Taken(c, e) ==
    IF e \in PipeEnd THEN [c EXCEPT !.queue = Tail(@), !.ended = @ \cup {e}]
    ELSE [c EXCEPT !.queue = Tail(@), !.completed = @ \/ e = "completed",
                   !.failure = @ \/ e = "failed"]

LEMMA TakenPiped ==
    ASSUME NEW c \in Clis, Piped(c), c.queue # <<>>, NEW e, e = Head(c.queue),
           e \in PipeEnd \cup {"completed", "failed", "other"}, NEW next, next = Taken(c, e)
    PROVE  next \in Clis /\ Piped(next) /\ next.wrote = c.wrote /\ next.runs = c.runs
<1> DEFINE Item == CliEvent \cup PipeEnd
<1>1. c.queue \in Seq(Item)
  BY DEF Clis
<1>2. PICK q, ended, completed, failure :
         /\ q = Tail(c.queue)
         /\ ended = (IF e \in PipeEnd THEN c.ended \cup {e} ELSE c.ended)
         /\ completed = (IF e \in PipeEnd THEN c.completed ELSE c.completed \/ e = "completed")
         /\ failure = (IF e \in PipeEnd THEN c.failure ELSE c.failure \/ e = "failed")
  OBVIOUS
<1> HIDE DEF Item
<1>3. /\ q \in Seq(Item) /\ 1 \in DOMAIN c.queue /\ c.queue[1] = e /\ DOMAIN c.queue \subseteq Nat
      /\ \A i \in DOMAIN q : i + 1 \in DOMAIN c.queue /\ q[i] = c.queue[i + 1]
      /\ \A i \in DOMAIN c.queue : i # 1 => i - 1 \in DOMAIN q /\ q[i - 1] = c.queue[i]
  BY <1>1, <1>2, Dequeued
<1>4. ended \in SUBSET PipeEnd /\ completed \in BOOLEAN /\ failure \in BOOLEAN
  BY <1>2 DEF Clis
<1>5. next = [c EXCEPT !.queue = q, !.ended = ended, !.completed = completed, !.failure = failure]
  <2>1. CASE e \in PipeEnd
    <3>1. ended = c.ended \cup {e} /\ completed = c.completed /\ failure = c.failure
      BY <1>2, <2>1
    <3>2. next = [c EXCEPT !.queue = q, !.ended = ended]
      BY <1>2, <2>1, <3>1 DEF PipeEnd, Taken
    <3> QED
      BY <3>1, <3>2 DEF Clis
  <2>2. CASE e \in {"completed", "failed", "other"}
    <3>1. /\ ended = c.ended /\ completed = (c.completed \/ e = "completed")
          /\ failure = (c.failure \/ e = "failed")
      BY <1>2, <2>2 DEF PipeEnd
    <3>2. next = [c EXCEPT !.queue = q, !.completed = completed, !.failure = failure]
      BY <1>2, <2>2, <3>1 DEF PipeEnd, Taken
    <3> QED
      BY <3>1, <3>2 DEF Clis
  <2> QED
    BY <2>1, <2>2
<1>6. /\ next \in Clis /\ next.queue = q /\ next.wrote = c.wrote /\ next.ended = ended
      /\ next.out = c.out /\ next.err = c.err /\ next.runs = c.runs
      /\ next.completed = completed /\ next.failure = failure
  BY <1>3, <1>4, <1>5 DEF Clis, Item
<1>7. /\ "outEnd" \in ended =>
            ~c.out /\ \A i \in DOMAIN q : q[i] \notin CliEvent \cup {"outEnd"}
      /\ "errEnd" \in ended => ~c.err /\ \A i \in DOMAIN q : q[i] # "errEnd"
  BY <1>2, <1>3 DEF Piped
<1>8. /\ \A i \in DOMAIN q : q[i] = "outEnd" =>
            ~c.out /\ \A j \in DOMAIN q : j > i => q[j] \notin CliEvent \cup {"outEnd"}
      /\ \A i \in DOMAIN q : q[i] = "errEnd" =>
            ~c.err /\ \A j \in DOMAIN q : j > i => q[j] # "errEnd"
  BY <1>3 DEF Piped
<1>9. \A i \in DOMAIN c.wrote :
          \/ \E j \in DOMAIN q : q[j] = c.wrote[i]
          \/ c.wrote[i] = "other" \/ (c.wrote[i] = "completed" /\ completed)
          \/ c.wrote[i] = "failed" /\ failure
  <2> SUFFICES ASSUME NEW i \in DOMAIN c.wrote
               PROVE  \/ \E j \in DOMAIN q : q[j] = c.wrote[i]
                      \/ c.wrote[i] = "other" \/ (c.wrote[i] = "completed" /\ completed)
                      \/ c.wrote[i] = "failed" /\ failure
    OBVIOUS
  <2>1. c.wrote[i] \in CliEvent
    BY DEF Clis
  <2>2. CASE c.wrote[i] = e
    BY <1>2, <2>1, <2>2 DEF CliEvent, PipeEnd
  <2>3. CASE c.wrote[i] # e
    <3>1. CASE \E j \in DOMAIN c.queue : c.queue[j] = c.wrote[i]
      <4>1. PICK j \in DOMAIN c.queue : c.queue[j] = c.wrote[i]
        BY <3>1
      <4>2. j # 1
        BY <1>3, <2>3, <4>1
      <4>3. j - 1 \in DOMAIN q /\ q[j - 1] = c.wrote[i]
        BY <1>3, <4>1, <4>2
      <4> QED
        BY <4>3
    <3>2. CASE ~ \E j \in DOMAIN c.queue : c.queue[j] = c.wrote[i]
      <4>1. \/ c.wrote[i] = "other" \/ (c.wrote[i] = "completed" /\ c.completed)
            \/ c.wrote[i] = "failed" /\ c.failure
        BY <3>2 DEF Piped
      <4>2. (c.completed => completed) /\ (c.failure => failure)
        BY <1>2 DEF Clis
      <4> QED
        BY <4>1, <4>2
    <3> QED
      BY <3>1, <3>2
  <2> QED
    BY <2>2, <2>3
<1>10. /\ \A j \in DOMAIN q : q[j] = "completed" =>
             \E i \in DOMAIN c.wrote : c.wrote[i] = "completed"
       /\ completed => \E i \in DOMAIN c.wrote : c.wrote[i] = "completed"
  <2>1. \A j \in DOMAIN c.queue : c.queue[j] = "completed" =>
           \E i \in DOMAIN c.wrote : c.wrote[i] = "completed"
    BY DEF Piped
  <2>2. \A j \in DOMAIN q : q[j] = "completed" =>
           \E i \in DOMAIN c.wrote : c.wrote[i] = "completed"
    BY <1>3, <2>1
  <2>3. ASSUME completed PROVE \E i \in DOMAIN c.wrote : c.wrote[i] = "completed"
    <3>1. c.completed \/ e = "completed"
      BY <1>2, <2>3
    <3> QED
      BY <1>3, <2>1, <3>1 DEF Piped
  <2> QED
    BY <2>2, <2>3
<1> QED
  BY <1>6, <1>7, <1>8, <1>9, <1>10 DEF Piped

\* The loop over the CLI goes on, with its program and its queue in another state.
LEMMA CliGoesOn ==
    ASSUME AcceptanceInv, NEW c \in Clis, CliWorks(c), Piped(c),
           \A i \in DOMAIN c.wrote : c.wrote[i] = "completed" => "codex" \in working,
           c.runs = "running" => cli.runs = "running"
    PROVE  AcceptanceInv' /\ UNCHANGED gained
<1>1. /\ part = "cli" /\ cli' = c
      /\ UNCHANGED <<tick, working, tokenRow, gained, sse, part, partFrom, outcome>>
  BY DEF CliWorks, CliSame, Stay
<1>2. AcceptanceTypes' /\ Progress' /\ TokenFits' /\ StreamFits' /\ AcceptedIsClean'
  BY <1>1 DEF AcceptanceInv, AcceptanceTypes, Progress, TokenFits, StreamFits, AcceptedIsClean
<1>3. CliInTime' /\ CliEndsWithStage'
  BY <1>1 DEF AcceptanceInv, CliInTime, CliTime, CliEndsWithStage
<1>4. CliFits'
  BY <1>1 DEF CliFits
<1> QED
  BY <1>1, <1>2, <1>3, <1>4 DEF AcceptanceInv

LEMMA CliStops ==
    ASSUME AcceptanceInv, part = "cli", CliStopped
    PROVE  AcceptanceInv' /\ UNCHANGED gained
<1>1. /\ Broken /\ Stay /\ UNCHANGED <<tokenRow, gained>>
      /\ cli' = [NoCli EXCEPT !.runs = IF cli.runs = "never" THEN "never" ELSE "exited"]
  BY DEF CliStopped
<1>2. PICK now \in {"never", "exited"} : cli' = [NoCli EXCEPT !.runs = now]
  BY <1>1
<1>3. cli' \in Clis /\ Piped(cli') /\ cli'.wrote = <<>>
  BY <1>2, NoCliFits
<1>4. cli'.runs # "running" /\ CliFits'
  <2>1. DOMAIN <<>> = {}
    OBVIOUS
  <2> QED
    BY <1>2, <1>3, <2>1 DEF CliFits, NoCli
<1>5. /\ tokenRow' \in {"none", "written", "late"}
      /\ tokenRow' = "late" => gained = {}
  BY <1>1 DEF AcceptanceInv, TokenFits
<1> QED
  BY <1>1, <1>3, <1>4, <1>5, BreaksOff DEF Ends

LEMMA CliSteps ==
    ASSUME AcceptanceInv,
           \/ \E e \in CliEvent : CliWrites(e)
           \/ CliClosesOut \/ CliClosesErr \/ \E code \in 0 .. 1 : CliExits(code)
           \/ TakeEvent \/ CliTimesOut
    PROVE  AcceptanceInv' /\ UNCHANGED gained
<1>1. /\ cli \in Clis /\ Piped(cli)
      /\ \A i \in DOMAIN cli.wrote : cli.wrote[i] = "completed" => "codex" \in working
  BY DEF AcceptanceInv, AcceptanceTypes, CliFits
<1>2. ASSUME NEW e \in CliEvent, CliWrites(e)
      PROVE  AcceptanceInv' /\ UNCHANGED gained
  <2>1. PICK c : c = [cli EXCEPT !.queue = Append(@, e), !.wrote = Append(@, e)]
    OBVIOUS
  <2>2. cli.out /\ CliWorks(c) /\ (e = "completed" => "codex" \in working)
    BY <1>2, <2>1 DEF CliWrites
  <2>3. c \in Clis /\ Piped(c)
    BY <1>1, <2>1, <2>2, EventPiped
  <2>4. c.runs = cli.runs /\ c.wrote = Append(cli.wrote, e) /\ cli.wrote \in Seq(CliEvent)
    BY <1>1, <2>1 DEF Clis
  <2>5. \A i \in DOMAIN c.wrote : c.wrote[i] = "completed" => "codex" \in working
    <3>1. /\ DOMAIN Append(cli.wrote, e) = DOMAIN cli.wrote \cup {Len(cli.wrote) + 1}
          /\ Append(cli.wrote, e)[Len(cli.wrote) + 1] = e
          /\ \A i \in DOMAIN cli.wrote : Append(cli.wrote, e)[i] = cli.wrote[i]
      BY <2>4, Queued
    <3>2. PICK w : w = Append(cli.wrote, e)
      OBVIOUS
    <3>3. \A i \in DOMAIN w : w[i] = "completed" => "codex" \in working
      BY <1>1, <2>2, <3>1, <3>2
    <3> QED
      BY <2>4, <3>2, <3>3
  <2> QED
    BY <2>2, <2>3, <2>4, <2>5, CliGoesOn
<1>3. CASE CliClosesOut \/ CliClosesErr
  <2>1. PICK c : /\ CliWorks(c)
                 /\ \/ cli.out /\ c = [cli EXCEPT !.out = FALSE, !.queue = Append(@, "outEnd")]
                    \/ cli.err /\ c = [cli EXCEPT !.err = FALSE, !.queue = Append(@, "errEnd")]
    BY <1>3 DEF CliClosesOut, CliClosesErr
  <2>2. c \in Clis /\ Piped(c) /\ c.wrote = cli.wrote /\ c.runs = cli.runs
    BY <1>1, <2>1, EndPiped
  <2> QED
    BY <1>1, <2>1, <2>2, CliGoesOn
<1>4. ASSUME NEW code \in 0 .. 1, CliExits(code)
      PROVE  AcceptanceInv' /\ UNCHANGED gained
  <2>1. PICK c : c = [cli EXCEPT !.runs = "exited", !.code = code]
    OBVIOUS
  <2>2. CliWorks(c)
    BY <1>4, <2>1 DEF CliExits
  <2>3. /\ c \in Clis /\ c.runs = "exited" /\ c.wrote = cli.wrote /\ c.queue = cli.queue
        /\ c.ended = cli.ended /\ c.out = cli.out /\ c.err = cli.err
        /\ c.completed = cli.completed /\ c.failure = cli.failure
    BY <1>1, <2>1 DEF Clis
  <2>4. Piped(c)
    BY <1>1, <2>3 DEF Piped
  <2> QED
    BY <1>1, <2>2, <2>3, <2>4, CliGoesOn
<1>5. CASE TakeEvent
  <2>1. PICK e : e = Head(cli.queue)
    OBVIOUS
  <2>2. part = "cli" /\ cli.queue # <<>>
    BY <1>5 DEF TakeEvent
  <2>3. CASE CliStopped
    BY <2>2, <2>3, CliStops
  <2>4. CASE ~CliStopped
    <3>1. PICK rest : rest = [cli EXCEPT !.queue = Tail(@)]
      OBVIOUS
    <3>2. rest.ended = cli.ended /\ rest.completed = cli.completed /\ rest.failure = cli.failure
      BY <1>1, <3>1 DEF Clis
    <3>3. \/ e \in PipeEnd /\ CliWorks([rest EXCEPT !.ended = @ \cup {e}])
          \/ /\ e \in {"completed", "failed", "other"}
             /\ CliWorks([rest EXCEPT !.completed = @ \/ e = "completed",
                                      !.failure = @ \/ e = "failed"])
      BY <1>5, <2>1, <2>4, <3>1 DEF TakeEvent, PipeEnd
    <3>4. PICK c : /\ CliWorks(c)
                   /\ \/ e \in PipeEnd /\ c = [rest EXCEPT !.ended = @ \cup {e}]
                      \/ /\ e \in {"completed", "failed", "other"}
                         /\ c = [rest EXCEPT !.completed = @ \/ e = "completed",
                                             !.failure = @ \/ e = "failed"]
      BY <3>3
    <3>5. c = Taken(cli, e) /\ e \in PipeEnd \cup {"completed", "failed", "other"}
      <4>1. CASE e \in PipeEnd
        BY <1>1, <3>1, <3>2, <3>4, <4>1 DEF Clis, Taken, PipeEnd
      <4>2. CASE e \notin PipeEnd
        BY <1>1, <3>1, <3>2, <3>4, <4>2 DEF Clis, Taken, PipeEnd
      <4> QED
        BY <4>1, <4>2
    <3>6. c \in Clis /\ Piped(c) /\ c.wrote = cli.wrote /\ c.runs = cli.runs
      BY <1>1, <2>1, <2>2, <3>5, TakenPiped
    <3> QED
      BY <1>1, <3>4, <3>6, CliGoesOn
  <2> QED
    BY <2>3, <2>4
<1>6. CASE CliTimesOut
  BY <1>6, CliStops DEF CliTimesOut
<1> QED
  BY <1>2, <1>3, <1>4, <1>5, <1>6

\* The CLI is judged when both pipes have ended and it has: then the queue is empty, and
\* all it wrote was counted.
LEMMA CliJudged ==
    ASSUME AcceptanceInv, JudgeCli
    PROVE  /\ AcceptanceInv'
           /\ "codex" \in gained' =>
                 /\ cli.queue = <<>> /\ ~cli.out
                 /\ \E i \in DOMAIN cli.wrote : cli.wrote[i] = "completed"
                 /\ \A i \in DOMAIN cli.wrote : cli.wrote[i] \in {"completed", "other"}
<1>1. /\ part = "cli" /\ ~CliLoops /\ Stay /\ UNCHANGED <<wire, tokenRow, refusedFrom>>
      /\ cli' = [NoCli EXCEPT !.runs = "exited"]
      /\ \/ /\ CliAccepted /\ gained' = gained \cup {"codex"} /\ Proceed("schema")
            /\ UNCHANGED sse
         \/ Broken /\ UNCHANGED gained
  BY DEF JudgeCli
<1>2. /\ gained = {"chat", "responses", "metadata"} /\ gained \subseteq working
      /\ cli \in Clis /\ Piped(cli) /\ tokenRow \in {"none", "written"}
      /\ \A i \in DOMAIN cli.wrote : cli.wrote[i] = "completed" => "codex" \in working
      /\ sse \in Decoders /\ StreamFits
  BY <1>1 DEF AcceptanceInv, AcceptanceTypes, Progress, GainedFits, CliFits, TokenFits, Ends
<1>3. cli' \in Clis /\ CliFits' /\ cli'.runs # "running"
  <2>1. cli' \in Clis /\ Piped(cli') /\ cli'.wrote = <<>>
    BY <1>1, NoCliFits
  <2>2. cli'.runs = "exited"
    BY <1>1 DEF NoCli
  <2>3. DOMAIN <<>> = {}
    OBVIOUS
  <2> QED
    BY <2>1, <2>2, <2>3 DEF CliFits
<1>4. CASE Broken /\ UNCHANGED gained
  BY <1>1, <1>2, <1>3, <1>4, BreaksOff DEF Ends
<1>5. CASE CliAccepted /\ gained' = gained \cup {"codex"} /\ Proceed("schema") /\ UNCHANGED sse
  <2>1. /\ cli.ended = PipeEnd /\ ~cli.failure /\ cli.completed
    BY <1>1, <1>5 DEF CliLoops, CliAccepted, PipeEnd
  <2>2. cli.queue = <<>> /\ ~cli.out
    <3>1. cli.queue \in Seq(CliEvent \cup PipeEnd)
      BY <1>2 DEF Clis
    <3>2. /\ ~cli.out
          /\ \A i \in DOMAIN cli.queue : /\ cli.queue[i] \notin CliEvent \cup {"outEnd"}
                                         /\ cli.queue[i] # "errEnd"
      BY <1>2, <2>1 DEF Piped, PipeEnd
    <3>3. \A i \in DOMAIN cli.queue : cli.queue[i] \in CliEvent \cup PipeEnd
      BY <3>1
    <3>4. DOMAIN cli.queue = {}
      BY <3>2, <3>3 DEF PipeEnd
    <3>5. Len(cli.queue) = 0
      <4>1. DOMAIN cli.queue = 1 .. Len(cli.queue) /\ Len(cli.queue) \in Nat
        BY <3>1
      <4>2. Len(cli.queue) # 0 => 1 \in DOMAIN cli.queue
        BY <4>1
      <4> QED
        BY <3>4, <4>2
    <3>6. cli.queue = <<>>
      BY <3>1, <3>5
    <3> QED
      BY <3>2, <3>6
  <2>3. /\ \E i \in DOMAIN cli.wrote : cli.wrote[i] = "completed"
        /\ \A i \in DOMAIN cli.wrote : cli.wrote[i] \in {"completed", "other"}
    <3>1. DOMAIN cli.queue = {}
      BY <2>2
    <3> QED
      BY <1>2, <2>1, <3>1 DEF Piped
  <2>4. "codex" \in working
    BY <1>2, <2>3
  <2>5. GainedFits("schema", gained') /\ gained' \subseteq working
    BY <1>2, <1>5, <2>4 DEF GainedFits
  <2>6. sse' \in Decoders /\ StreamFits'
    BY <1>1, <1>2, <1>5 DEF StreamFits, Stay
  <2>7. AcceptanceInv'
    BY <1>1, <1>2, <1>3, <1>5, <2>5, <2>6, GoesOn DEF Ends
  <2> QED
    BY <2>2, <2>3, <2>7
<1> QED
  BY <1>1, <1>4, <1>5

\* The stages after the facts: what may be found is found, and the facts stay.
LEMMA EndKeeps ==
    ASSUME AcceptanceInv, part \in {"cleanup", "reconnect", "again"},
           UNCHANGED <<tick, working, gained, sse, cli>>,
           part' \in {"cleanup", "reconnect", "again", "over"},
           partFrom' \in Nat, outcome' \in Outcomes,
           tokenRow' \in {"none", "written", "late"},
           tokenRow' = "late" => tokenRow = "late",
           outcome'.failed = outcome.failed,
           \/ part' # "over" /\ outcome'.said = "nothing"
           \/ /\ part' = "over" /\ outcome'.said = "failed"
              /\ outcome'.uncleaned
           \/ /\ part' = "over" /\ tokenRow' \in {"none", "late"}
              /\ outcome'.said = (IF outcome.failed THEN "failed" ELSE "passed")
    PROVE  AcceptanceInv'
<1>1. /\ gained \subseteq working /\ working \subseteq Fact
      /\ ~outcome.failed => gained = Fact
      /\ tokenRow' = "late" => gained = {} /\ outcome.failed
      /\ cli.runs # "running"
  BY DEF AcceptanceInv, Progress, TokenFits, CliEndsWithStage
<1>2. AcceptanceTypes'
  BY DEF AcceptanceInv, AcceptanceTypes
<1>3. Progress'
  BY <1>1 DEF Progress, GainedFits
<1>4. TokenFits'
  BY <1>1 DEF TokenFits, Ends
<1>5. AcceptedIsClean'
  BY <1>1 DEF AcceptedIsClean
<1>6. CliInTime' /\ CliEndsWithStage' /\ CliFits' /\ StreamFits'
  BY <1>1 DEF AcceptanceInv, CliInTime, CliEndsWithStage, CliFits, StreamFits
<1> QED
  BY <1>2, <1>3, <1>4, <1>5, <1>6 DEF AcceptanceInv

\* The token is taken back, or its fate is told as unknown.
LEMMA Cleans ==
    ASSUME AcceptanceInv, DeleteToken \/ Reconnect \/ AgainCut
    PROVE  AcceptanceInv'
<1>1. /\ part \in {"cleanup", "reconnect", "again"}
      /\ UNCHANGED <<tick, working, gained, sse, cli>>
      /\ outcome \in Outcomes /\ outcome.said = "nothing" /\ tick \in Nat /\ partFrom \in Nat
      /\ tokenRow \in {"none", "written", "late"}
  BY NotSaidYet DEF DeleteToken, Reconnect, AgainCut, Stay, AcceptanceInv, AcceptanceTypes,
                    TokenFits
<1>2. /\ tokenRow' \in {tokenRow, Deleted}
      /\ \/ part' \in {"reconnect", "again"} /\ outcome' = outcome
         \/ /\ part' = "over"
            /\ outcome' = [outcome EXCEPT !.uncleaned = TRUE, !.said = "failed"]
         \/ /\ part' = "over" /\ tokenRow' = Deleted
            /\ outcome' = [outcome EXCEPT !.said = Verdict]
      /\ partFrom' = tick
  BY DEF DeleteToken, Reconnect, AgainCut, Enter
<1>3. Deleted \in {"none", "late"} /\ (Deleted = "late" => tokenRow = "late")
  BY <1>1 DEF Deleted
<1>4. Verdict = (IF outcome.failed THEN "failed" ELSE "passed")
  BY DEF Verdict
<1>5. /\ outcome' \in Outcomes /\ outcome'.failed = outcome.failed
      /\ \/ part' # "over" /\ outcome'.said = "nothing"
         \/ part' = "over" /\ outcome'.said = "failed" /\ outcome'.uncleaned
         \/ /\ part' = "over" /\ tokenRow' \in {"none", "late"}
            /\ outcome'.said = (IF outcome.failed THEN "failed" ELSE "passed")
  BY <1>1, <1>2, <1>3, <1>4 DEF Outcomes
<1>6. part' \in {"cleanup", "reconnect", "again", "over"}
  BY <1>2
<1>7. tokenRow' \in {"none", "written", "late"} /\ (tokenRow' = "late" => tokenRow = "late")
  BY <1>1, <1>2, <1>3
<1> QED
  BY <1>1, <1>2, <1>5, <1>6, <1>7, EndKeeps

LEMMA Connects ==
    ASSUME AcceptanceInv, EnsureConnected PROVE AcceptanceInv'
<1>1. /\ part \in ViaSsh /\ Stay /\ UNCHANGED <<tokenRow, gained, cli, tick, working>>
      /\ outcome \in Outcomes /\ outcome.said = "nothing" /\ tick \in Nat /\ partFrom \in Nat
  BY NotSaidYet DEF EnsureConnected, Stay, ViaSsh, AcceptanceInv, AcceptanceTypes
<1>2. CASE UNCHANGED <<part, partFrom, outcome, sse>>
  BY <1>1, <1>2
     DEF AcceptanceInv, AcceptanceTypes, Progress, TokenFits, CliInTime, CliTime, CliFits,
         StreamFits, AcceptedIsClean, CliEndsWithStage
<1>3. CASE part # "cleanup" /\ Broken
  BY <1>1, <1>3, StageBreaks DEF ViaSsh, Ends
<1>4. CASE /\ part = "cleanup" /\ Enter("over") /\ UNCHANGED sse
           /\ outcome' = [outcome EXCEPT !.uncleaned = TRUE, !.said = "failed"]
  <2>1. /\ outcome' \in Outcomes /\ outcome'.failed = outcome.failed
        /\ outcome'.said = "failed" /\ outcome'.uncleaned
        /\ part' = "over" /\ partFrom' = tick
    BY <1>1, <1>4 DEF Outcomes, Enter
  <2>2. tokenRow' \in {"none", "written", "late"} /\ (tokenRow' = "late" => tokenRow = "late")
    BY <1>1 DEF AcceptanceInv, TokenFits
  <2> QED
    BY <1>1, <1>4, <2>1, <2>2, EndKeeps
<1> QED
  BY <1>2, <1>3, <1>4 DEF EnsureConnected

\* The statement left behind is run.
LEMMA RunsLate ==
    ASSUME AcceptanceInv, LateInsert PROVE AcceptanceInv'
<1>1. /\ tokenRow = "late" /\ tokenRow' = "written" /\ gained = {}
      /\ UNCHANGED <<tick, working, part, partFrom, gained, sse, cli, outcome>>
      /\ outcome.said # "passed"
  BY DEF LateInsert, AcceptanceInv, TokenFits, AcceptedIsClean
<1> QED
  BY <1>1
     DEF AcceptanceInv, AcceptanceTypes, Progress, TokenFits, CliInTime, CliTime, CliFits,
         StreamFits, AcceptedIsClean, CliEndsWithStage

\* The time passes, and the process is stopped when it is over: the CLI has ended then.
LEMMA TimePasses ==
    ASSUME AcceptanceInv, PassTime \/ KillAcceptance PROVE AcceptanceInv'
<1> USE TimesAssumption
<1>1. /\ tick \in Nat /\ partFrom \in Nat /\ outcome \in Outcomes /\ outcome.said = "nothing"
      /\ part \notin {"over", "killed"}
      /\ UNCHANGED <<working, tokenRow, gained, sse, cli>>
  BY NotSaidYet DEF PassTime, KillAcceptance, AcceptanceInv, AcceptanceTypes
<1>2. CASE PassTime
  <2>1. /\ tick' = tick + 1 /\ UNCHANGED <<part, partFrom, outcome>>
        /\ part = "cli" /\ cli.runs = "running" => ~CliLate
    BY <1>2 DEF PassTime, CliLoops
  <2>2. CliInTime'
    <3>1. part = "cli" => partFrom < Total /\ partFrom <= tick
      BY DEF AcceptanceInv, CliInTime
    <3>2. CliTime' = CliTime
      BY <2>1 DEF CliTime
    <3>3. part = "cli" => CliTime \in Nat
      BY <1>1, <3>1 DEF CliTime
    <3>4. part = "cli" /\ cli.runs = "running" => tick + 1 - partFrom <= CliTime
      BY <1>1, <2>1, <3>1, <3>3 DEF CliLate
    <3> QED
      BY <1>1, <2>1, <3>1, <3>2, <3>4 DEF CliInTime
  <2>3. AcceptanceTypes' /\ Progress' /\ TokenFits' /\ CliFits' /\ StreamFits'
    BY <1>1, <2>1
       DEF AcceptanceInv, AcceptanceTypes, Progress, TokenFits, CliFits, StreamFits
  <2>4. AcceptedIsClean' /\ CliEndsWithStage'
    BY <1>1, <2>1 DEF AcceptanceInv, AcceptedIsClean, CliEndsWithStage
  <2> QED
    BY <2>2, <2>3, <2>4 DEF AcceptanceInv
<1>3. CASE KillAcceptance
  <2>1. /\ tick >= Outer /\ part' = "killed" /\ partFrom' = tick /\ tick' = tick
        /\ outcome' = [outcome EXCEPT !.said = "failed"]
    BY <1>3 DEF KillAcceptance
  <2>2. cli.runs # "running"
    <3> SUFFICES ASSUME cli.runs = "running" PROVE FALSE
      OBVIOUS
    <3>1. part = "cli" /\ partFrom < Total /\ tick - partFrom <= CliTime
      BY DEF AcceptanceInv, CliEndsWithStage, CliInTime
    <3>2. Total \in Nat /\ Outer \in Nat /\ CliLimit \in Nat /\ Total < Outer
      BY TimesAssumption
    <3>3. tick \in Nat /\ partFrom \in Nat
      BY <1>1 DEF AcceptanceInv, AcceptanceTypes
    <3>4. CliTime \in Int /\ CliTime <= Total - partFrom
      BY <3>1, <3>2, <3>3 DEF CliTime
    <3> HIDE DEF CliTime
    <3> QED
      BY <2>1, <3>1, <3>2, <3>3, <3>4
  <2>3. /\ outcome' \in Outcomes /\ outcome'.said = "failed"
        /\ outcome'.failed = outcome.failed
    BY <1>1, <2>1 DEF Outcomes
  <2>4. AcceptanceTypes'
    BY <1>1, <2>1, <2>3 DEF AcceptanceInv, AcceptanceTypes
  <2>5. Progress' /\ TokenFits' /\ CliFits' /\ StreamFits'
    BY <1>1, <2>1, <2>3
       DEF AcceptanceInv, Progress, GainedFits, TokenFits, Ends, CliFits, StreamFits
  <2>6. CliInTime' /\ AcceptedIsClean' /\ CliEndsWithStage'
    BY <1>1, <2>1, <2>2, <2>3 DEF CliInTime, AcceptedIsClean, CliEndsWithStage
  <2> QED
    BY <2>4, <2>5, <2>6 DEF AcceptanceInv
<1> QED
  BY <1>2, <1>3

\* What the stream and the CLI have told when their stage finds its fact.
StreamTold ==
    part = "responses" /\ "responses" \in gained' =>
        \E i \in BlockEnds(sse.heard) : TellsCompleted(sse.heard, i)
CliTold ==
    part = "cli" /\ "codex" \in gained' =>
        /\ cli.queue = <<>> /\ ~cli.out
        /\ \E i \in DOMAIN cli.wrote : cli.wrote[i] = "completed"
        /\ \A i \in DOMAIN cli.wrote : cli.wrote[i] \in {"completed", "other"}

LEMMA AcceptanceStep ==
    AcceptanceInv /\ [AcceptanceNext]_acceptanceVars =>
        AcceptanceInv' /\ [StreamTold /\ CliTold]_acceptanceVars
<1> SUFFICES ASSUME AcceptanceInv, [AcceptanceNext]_acceptanceVars
             PROVE  AcceptanceInv' /\ [StreamTold /\ CliTold]_acceptanceVars
  OBVIOUS
<1>1. UNCHANGED gained => StreamTold /\ CliTold
  BY DEF AcceptanceInv, Progress, GainedFits, StreamTold, CliTold
<1>2. CASE InsertToken \/ CallChat \/ RefuseStream \/ CallAnthropic
  <2>1. UNCHANGED gained \/ part = "chat"
    BY <1>2 DEF InsertToken, CallChat, RefuseStream, CallAnthropic
  <2> QED
    BY <1>1, <1>2, <2>1, Calls DEF StreamTold, CliTold
<1>3. CASE (\E line \in StreamLine : ReadLine(line)) \/ EndStream \/ StreamTimesOut
  <2>1. part = "responses"
    BY <1>3 DEF ReadLine, EndStream, StreamTimesOut
  <2> QED
    BY <1>3, <2>1, StreamSteps DEF StreamTold, CliTold
<1>4. CASE (\E f \in DOMAIN NextStage : ShowFact(f)) \/ ShowPage
  <2>1. part \in {"metadata", "schema", "admin", "endpoint", "static"}
    BY <1>4 DEF ShowFact, ShowPage, NextStage
  <2> QED
    BY <1>4, <2>1, Shows DEF StreamTold, CliTold
<1>5. CASE \/ \E e \in CliEvent : CliWrites(e)
           \/ CliClosesOut \/ CliClosesErr \/ \E code \in 0 .. 1 : CliExits(code)
           \/ TakeEvent \/ CliTimesOut
  BY <1>1, <1>5, CliSteps
<1>6. CASE JudgeCli
  <2>1. part = "cli"
    BY <1>6 DEF JudgeCli
  <2> QED
    BY <1>6, <2>1, CliJudged DEF StreamTold, CliTold
<1>7. CASE DeleteToken \/ Reconnect \/ AgainCut \/ EnsureConnected \/ LateInsert
           \/ PassTime \/ KillAcceptance
  <2>1. UNCHANGED gained
    BY <1>7 DEF DeleteToken, Reconnect, AgainCut, EnsureConnected, LateInsert, PassTime,
                KillAcceptance
  <2> QED
    BY <1>1, <1>7, <2>1, Cleans, Connects, RunsLate, TimePasses
<1>8. CASE CutWire \/ UNCHANGED acceptanceVars
  <2>1. UNCHANGED <<tick, working, tokenRow, part, partFrom, gained, sse, cli, outcome>>
    BY <1>8 DEF CutWire, acceptanceVars
  <2>2. AcceptanceInv'
    BY <2>1
       DEF AcceptanceInv, AcceptanceTypes, Progress, TokenFits, CliInTime, CliTime, CliFits,
           StreamFits, AcceptedIsClean, CliEndsWithStage
  <2> QED
    BY <1>1, <2>1, <2>2
<1> QED
  BY <1>2, <1>3, <1>4, <1>5, <1>6, <1>7, <1>8 DEF AcceptanceNext

LEMMA AcceptanceStart ==
    AcceptanceInit => AcceptanceInv
<1> SUFFICES ASSUME AcceptanceInit PROVE AcceptanceInv
  OBVIOUS
<1>1. /\ tick = 0 /\ tokenRow = "none" /\ part = "insert" /\ partFrom = 0 /\ gained = {}
      /\ sse = NoStream /\ cli = NoCli /\ working \subseteq Fact
      /\ outcome = [failed |-> FALSE, uncleaned |-> FALSE, said |-> "nothing"]
  BY DEF AcceptanceInit
<1>2. outcome \in Outcomes /\ outcome.said = "nothing"
  BY <1>1 DEF Outcomes
<1>3. /\ cli \in Clis /\ Piped(cli) /\ cli.wrote = <<>> /\ cli.runs # "running"
  <2>1. cli = [NoCli EXCEPT !.runs = "never"] /\ NoCli.runs = "never"
    BY <1>1 DEF NoCli
  <2> QED
    BY <1>1, <2>1, NoCliFits
<1>4. CliFits
  <2>1. DOMAIN <<>> = {}
    OBVIOUS
  <2> QED
    BY <1>3, <2>1 DEF CliFits
<1>5. AcceptanceTypes /\ StreamFits
  BY <1>1, <1>2, <1>3, NoStreamFits DEF AcceptanceTypes, StreamFits
<1>6. Progress /\ TokenFits /\ CliInTime /\ AcceptedIsClean /\ CliEndsWithStage
  BY <1>1, <1>2, <1>3
     DEF Progress, GainedFits, TokenFits, CliInTime, AcceptedIsClean, CliEndsWithStage
<1> QED
  BY <1>4, <1>5, <1>6 DEF AcceptanceInv

-----------------------------------------------------------------------------
LEMMA SwitchStart ==
    SwitchInit => SwitchInv
<1> SUFFICES ASSUME SwitchInit PROVE SwitchInv
  OBVIOUS
<1> QED
  BY DEF SwitchInit, SwitchInv, StoreAhead, NothingForgotten

LEMMA ReleaseStart ==
    ReleaseInit => ReleaseInv
<1> SUFFICES ASSUME ReleaseInit PROVE ReleaseInv
  OBVIOUS
<1> USE DEF ReleaseInit
<1>1. server \in Servers /\ approved \in Nat /\ server.writes >= approved
  BY DEF Servers, Parts, Before
<1>2. NoBackup \in Backups
  BY DEF NoBackup, Backups, Parts, Before
<1>3. backup \in [Deployer -> Backups]
  BY <1>2
<1>4. deploy \in [Deployer -> Deploys]
  BY DEF Steps, Mays, Deploys
<1>5. HoldsLock /\ \A d \in Deployer : MayFits(d) /\ CopyIsLast(d)
  BY DEF HoldsLock, MayFits, CopyIsLast, AtStake, At, Changing
<1> QED
  BY <1>1, <1>3, <1>4, <1>5 DEF ReleaseInv, ReleaseTypes, AnswersSurvive

\* Production and its programs: whatever breaks off or times out, the calls go where
\* their version is deployed, a rollback keeps what was approved, wherever its connection
\* broke, a switch of storage forgets nothing, and what an acceptance passed was clean and
\* read to its end, for any deployers, processes, environments, versions and times
\* (production-deploy.py, production-codex-acceptance.py, service-registry.js).
THEOREM DeploymentsStand == DeploymentSpec => DeploymentsHold
<1>1. SwitchInv => NothingForgotten
  BY DEF SwitchInv
<1>2. ReleaseInv => ReleasesHold
  BY HoldersAreAlone DEF ReleaseInv, ReleasesHold
<1>3. AcceptanceInv => AcceptedIsClean /\ CliEndsWithStage
  BY DEF AcceptanceInv
<1>4. AcceptanceInv /\ [AcceptanceNext]_acceptanceVars =>
        /\ AcceptanceInv'
        /\ [part = "responses" /\ "responses" \in gained' =>
              \E i \in BlockEnds(sse.heard) : TellsCompleted(sse.heard, i)]_acceptanceVars
        /\ [part = "cli" /\ "codex" \in gained' =>
              /\ cli.queue = <<>> /\ ~cli.out
              /\ \E i \in DOMAIN cli.wrote : cli.wrote[i] = "completed"
              /\ \A i \in DOMAIN cli.wrote :
                   cli.wrote[i] \in {"completed", "other"}]_acceptanceVars
  BY AcceptanceStep DEF StreamTold, CliTold
<1> QED
  BY <1>1, <1>2, <1>3, <1>4, SwitchStart, SwitchStep, ReleaseStart, ReleaseStep,
     AcceptanceStart, ServicesStart, ServicesStep, LagIsPromised, PTL
     DEF DeploymentSpec, DeploymentsHold, SwitchSpec, ReleaseSpec, AcceptanceSpec,
         ServicesSpec, StreamsAreRead
=============================================================================
