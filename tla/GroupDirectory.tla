----------------------------- MODULE GroupDirectory -----------------------------
(***************************************************************************)
(* Who may use which model of the gateway: groups list the names of models *)
(* (Group.models, NULL in rows of the first release and of the groups made *)
(* at start), users list the names of groups.  Nothing but the handlers of *)
(* the administration ties the names to rows: each reads, waits, and saves *)
(* the entities it read; saving a row that is gone inserts it again.       *)
(***************************************************************************)
EXTENDS Naturals

CONSTANTS
    Admin,  \* 1..n: slots of requests of administrators under way
    Group,  \* names of groups, "default" among them
    Model,  \* rows of model_configs
    Name,   \* names of models
    MaxRequest

NoName == "none"

VARIABLES
    groups,  \* rows of groups, by name
    models,  \* rows of model_configs
    holder,  \* groupNames of a user, one group here
    work,    \* requests under way
    requests \* history: requests begun so far

DirectoryVars == <<groups, models, holder, work, requests>>

GroupRow == [here : BOOLEAN, listed : BOOLEAN, models : SUBSET Name]
NoGroup == [here |-> FALSE, listed |-> FALSE, models |-> {}]
ModelRow == [name : Name \cup {NoName}, tag : Group]
NoModel == [name |-> NoName, tag |-> "default"]

\* alone: no other request has been under way since it began.
NoWork == [phase |-> "idle", group |-> "default", row |-> NoGroup, model |-> NoModel, id |-> 0,
           was |-> NoName, want |-> {}, sync |-> FALSE, seen |-> [g \in Group |-> NoGroup],
           alone |-> FALSE]
Phases == {"idle", "group", "delete", "model", "read", "groups", "tag", "remove", "user"}

DirectoryTypeOK ==
    /\ groups \in [Group -> GroupRow]
    /\ models \in [Model -> ModelRow]
    /\ holder \in Group /\ requests \in 0..MaxRequest
    /\ \A a \in Admin :
          /\ DOMAIN work[a] = DOMAIN NoWork
          /\ work[a].phase \in Phases /\ work[a].row \in GroupRow /\ work[a].model \in ModelRow
          /\ work[a].want \subseteq Group /\ work[a].seen \in [Group -> GroupRow]

\* The groups of a new installation have NULL models (GroupPolicyBootstrapService),
\* those made since have lists; every model has been put into "default".
DirectoryInit ==
    /\ groups = [g \in Group |-> [here |-> TRUE, listed |-> g # "default", models |-> {}]]
    /\ \E names \in {f \in [Model -> Name] : \A i, j \in Model : f[i] = f[j] => i = j} :
          models = [i \in Model |-> [name |-> names[i], tag |-> "default"]]
    /\ holder = "default"
    /\ work = [a \in Admin |-> NoWork]
    /\ requests = 0

-----------------------------------------------------------------------------
Names(rows) == {rows[i].name : i \in Model} \ {NoName}

\* modelNamesForGroup: by the list, or by the tag of the models where there is none.
Members(g, row, rows) ==
    IF row.listed THEN row.models
    ELSE {rows[i].name : i \in {j \in Model : rows[j].name # NoName /\ rows[j].tag = g}}

\* groupNamesForModel, over the groups that exist.
Grants(i) ==
    {g \in Group : groups[g].here /\ models[i].name \in Members(g, groups[g], models)}

\* A request takes the first free slot.
Begin(a, w) ==
    /\ work[a].phase = "idle" /\ \A b \in Admin : b < a => work[b].phase # "idle"
    /\ requests < MaxRequest /\ requests' = requests + 1
    /\ work' = [b \in Admin |->
           IF b = a THEN [w EXCEPT !.alone = \A c \in Admin : work[c].phase = "idle"]
           ELSE [work[b] EXCEPT !.alone = FALSE]]

Go(a, w) == work' = [work EXCEPT ![a] = w] /\ UNCHANGED requests
Done(a) == Go(a, NoWork)

\* A check or a statement fails and the request ends with what it has saved.
GiveUp(a) ==
    /\ work[a].phase \in {"model", "read", "groups", "tag", "remove"}
    /\ Done(a)
    /\ UNCHANGED <<groups, models, holder>>

-----------------------------------------------------------------------------
(* GroupAdminController *)

\* create and update: the row and, where a list is sent, the models of that name
\* are read; without a list an update leaves the models alone.
StartGroup(a, g) ==
    /\ \E row \in [here : {TRUE}, listed : {TRUE}, models : SUBSET Names(models)]
                  \cup (IF groups[g].here THEN {groups[g]} ELSE {}) :
          Begin(a, [NoWork EXCEPT !.phase = "group", !.group = g, !.row = row])
    /\ UNCHANGED <<groups, models, holder>>

SaveGroup(a) ==
    /\ work[a].phase = "group"
    /\ groups' = [groups EXCEPT ![work[a].group] = work[a].row]
    /\ Done(a)
    /\ UNCHANGED <<models, holder>>

\* Faulty variant: the users are not asked.
RemovableUnasked(g) ==
    g # "default" /\ groups[g].here /\ Members(g, groups[g], models) = {}

\* Without models and users; their rows are read here, the group deleted later.
Removable(g) ==
    g # "default" /\ groups[g].here /\ Members(g, groups[g], models) = {} /\ g # holder

StartRemoval(a, g) ==
    /\ Removable(g)
    /\ Begin(a, [NoWork EXCEPT !.phase = "delete", !.group = g])
    /\ UNCHANGED <<groups, models, holder>>

DeleteGroup(a) ==
    /\ work[a].phase = "delete"
    /\ groups' = [groups EXCEPT ![work[a].group] = NoGroup]
    /\ Done(a)
    /\ UNCHANGED <<models, holder>>

\* UserAdminController: the groups exist when they are validated.
StartUser(a, g) ==
    /\ groups[g].here
    /\ Begin(a, [NoWork EXCEPT !.phase = "user", !.group = g])
    /\ UNCHANGED <<groups, models, holder>>

SaveUser(a) ==
    /\ work[a].phase = "user"
    /\ holder' = work[a].group
    /\ Done(a)
    /\ UNCHANGED <<groups, models>>

-----------------------------------------------------------------------------
(* ModelConfigController *)

\* create and update: the name is free or the model's own, sync is asked for by
\* groupNames.  A created model has its tag before its groups list it.
StartModel(a, i, name, wanted, sync) ==
    /\ \A j \in Model : models[j].name = name => j = i
    /\ ~sync => wanted = {}
    /\ models[i].name = NoName => sync /\ \A g \in wanted : groups[g].here
    /\ \E tag \in IF models[i].name # NoName THEN {models[i].tag}
                  ELSE IF wanted = {} THEN {"default"} ELSE wanted :
          Begin(a, [NoWork EXCEPT !.phase = "model", !.id = i, !.want = wanted, !.sync = sync,
                                  !.was = IF models[i].name = NoName THEN name ELSE models[i].name,
                                  !.model = [name |-> name, tag |-> tag]])
    /\ UNCHANGED <<groups, models, holder>>

\* ModelRouteStore.saveModel; the name is unique in the table.
SaveModel(a) ==
    /\ work[a].phase = "model"
    /\ \A j \in Model : models[j].name = work[a].model.name => j = work[a].id
    /\ models' = [models EXCEPT ![work[a].id] = work[a].model]
    /\ IF work[a].sync THEN Go(a, [work[a] EXCEPT !.phase = "read"]) ELSE Done(a)
    /\ UNCHANGED <<groups, holder>>

\* remove takes the model out of every group first.
StartModelRemoval(a, i) ==
    /\ models[i].name # NoName
    /\ Begin(a, [NoWork EXCEPT !.phase = "read", !.id = i, !.was = models[i].name, !.model = models[i]])
    /\ UNCHANGED <<groups, models, holder>>

\* syncModelGroups: the groups asked for exist.
ReadGroups(a) ==
    /\ work[a].phase = "read"
    /\ \A g \in work[a].want : groups[g].here
    /\ Go(a, [work[a] EXCEPT !.phase = "groups", !.seen = groups])
    /\ UNCHANGED <<groups, models, holder>>

\* Faulty variant: the old name of a renamed model stays.
SyncedKept(g, w, rows) ==
    LET members == Members(g, w.seen[g], rows)
    IN  IF (w.was \in members) = (g \in w.want) THEN w.seen[g]
        ELSE [w.seen[g] EXCEPT !.listed = TRUE,
                               !.models = IF g \in w.want THEN members \cup {w.model.name}
                                          ELSE members \ {w.was}]

\* The row of group g with the model under its new name, or without it.
Synced(g, w, rows) ==
    LET members == Members(g, w.seen[g], rows)
        rename == w.was \in members /\ w.was # w.model.name
    IN  IF (w.was \in members) = (g \in w.want) /\ ~rename THEN w.seen[g]
        ELSE [w.seen[g] EXCEPT !.listed = TRUE,
                               !.models = (members \ {w.was})
                                          \cup IF g \in w.want THEN {w.model.name} ELSE {}]

\* Only the groups that change are saved.
SaveGroups(a) ==
    /\ work[a].phase = "groups"
    /\ groups' = [g \in Group |->
           IF work[a].seen[g].here /\ Synced(g, work[a], models) # work[a].seen[g]
           THEN Synced(g, work[a], models) ELSE groups[g]]
    /\ Go(a, [work[a] EXCEPT !.phase = "tag", !.seen = NoWork.seen])
    /\ UNCHANGED <<models, holder>>

\* The model is saved again with the first group as its tag.
SaveTag(a) ==
    /\ work[a].phase = "tag"
    /\ \E tag \in IF work[a].want = {} THEN {"default"} ELSE work[a].want :
          models' = [models EXCEPT ![work[a].id] = [work[a].model EXCEPT !.tag = tag]]
    /\ IF work[a].sync THEN Done(a) ELSE Go(a, [work[a] EXCEPT !.phase = "remove"])
    /\ UNCHANGED <<groups, holder>>

RemoveModel(a) ==
    /\ work[a].phase = "remove"
    /\ models' = [models EXCEPT ![work[a].id] = NoModel]
    /\ Done(a)
    /\ UNCHANGED <<groups, holder>>

DirectoryNext ==
    \E a \in Admin :
        \/ \E g \in Group : StartGroup(a, g) \/ StartRemoval(a, g) \/ StartUser(a, g)
        \/ SaveGroup(a) \/ DeleteGroup(a)
        \/ \E i \in Model, name \in Name, wanted \in SUBSET Group, sync \in BOOLEAN :
              StartModel(a, i, name, wanted, sync)
        \/ \E i \in Model : StartModelRemoval(a, i)
        \/ SaveModel(a) \/ ReadGroups(a) \/ SaveGroups(a) \/ SaveTag(a) \/ RemoveModel(a)
        \/ SaveUser(a)
        \/ GiveUp(a)

DirectorySpec == DirectoryInit /\ [][DirectoryNext]_DirectoryVars

-----------------------------------------------------------------------------
\* A change of a model that no other request disturbed ends with the groups asked
\* for listing it, under its new name, and no other group listing the name it had,
\* whatever half-finished or crossing requests left in the lists before; a removed
\* one is in no list.  Of the groups with lists: a row of NULL models still goes
\* by the tag, the first group asked for, or "default" when none was.  And a name
\* the model takes over may already stand in a list it was not asked for.
GroupsAsAsked ==
    [][\A a \in Admin, g \in Group :
        LET w == work[a] IN
        w.alone /\ groups[g].here /\ groups[g].listed
            /\ \/ w.phase = "tag" /\ work'[a].phase \in {"idle", "remove"} /\ models' # models
               \/ w.phase = "remove" /\ models' # models
        => /\ g \in w.want => w.model.name \in groups[g].models
           /\ g \notin w.want => w.was \notin groups[g].models
           /\ w.was # w.model.name => w.was \notin groups[g].models]_DirectoryVars

\* A group removed by an undisturbed request leaves no user and no model behind
\* that names it: one made later under the name starts with neither.
EmptyWhenRemoved ==
    [][\A g \in Group :
        groups[g].here /\ ~groups'[g].here =>
            \/ g # holder /\ Members(g, groups[g], models) = {}
            \/ \E a \in Admin : work[a].phase = "delete" /\ work[a].group = g /\ ~work[a].alone
       ]_DirectoryVars

\* The lists that tie groups, models and users together end as the last request asked.
ListsAsAsked == GroupsAsAsked /\ EmptyWhenRemoved
=============================================================================
