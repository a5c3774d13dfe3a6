----------------------------- MODULE RoutingPages -----------------------------
(* The administration of channels and of models: the pages with their dialogs, *)
(* the controllers, and the transaction that writes a model with its routes. *)
EXTENDS Sequences, SequencesExt, RouteMonitoring

-----------------------------------------------------------------------------
(* The administration of upstream channels: the page Channels.vue with its list, *)
(* its one dialog and its calls, and the handlers of ChannelController. A handler *)
(* reads a row, waits, and saves the whole entity it read; a row that is gone by  *)
(* then is inserted again. Another administrator edits, removes and binds at the  *)
(* same time.                                                                     *)
CONSTANTS
    LastChannel,  \* ids of channels, in the order they are given out
    FirstChannels,\* how many there are at first
    ListLoad,     \* requests for the list that may be under way at once
    MaxListLoads, MaxChannelEdits, MaxPageCalls, MaxStranger
                  \* bounds: lists asked for, entries made in the form, calls of the page, one
                  \* at a time, and deeds of the other administrator

ASSUME ChannelPageAssumption ==
    LastChannel \in Nat \ {0} /\ FirstChannels \in 1..LastChannel

VARIABLES
    chan,      \* rows of channels
    routed,    \* channels a model_routes row refers to
    createdBy, \* history: the ids that came from a create dialog
    listed,    \* the rows the page shows
    loads,     \* requests for the list under way
    dialog,    \* visible, editing, editingId, and the form
    saveCall, removeCall, testCall,  \* calls of the page under way
    testVerdict,   \* what the page says of the channel it tested last
    deeds      \* history: [loads, edits, calls, stranger]

channelPageVars == <<chan, routed, createdBy, listed, loads, dialog, saveCall, removeCall,
                     testCall, testVerdict, deeds>>

ChannelId == 1..LastChannel
\* A value is known by the dialog it was typed in: that of a row, or the create dialog,
\* 0; the other administrator's by the row and a mark. keys "none": not typed.
Typed == [for : 0..LastChannel, fresh : BOOLEAN]
Old(c) == [for |-> c, fresh |-> FALSE]
New(c) == [for |-> c, fresh |-> TRUE]
NoKeys == [for |-> LastChannel + 1, fresh |-> FALSE]

Gone == [here |-> FALSE, url |-> Old(0), keys |-> NoKeys, valid |-> TRUE]
EmptyForm == [url |-> Old(0), keys |-> NoKeys, valid |-> TRUE, named |-> FALSE]
Closed == [open |-> FALSE, editing |-> FALSE, id |-> 0, form |-> EmptyForm]
NoSave == [phase |-> "idle", editing |-> FALSE, id |-> 0, form |-> EmptyForm, row |-> Gone,
           disturbed |-> FALSE]
NoRemoval == [phase |-> "idle", id |-> 1]
NoTest == [phase |-> "idle", id |-> 1, answers |-> {}]

ChannelPageInit ==
    /\ chan = [c \in ChannelId |->
                 IF c <= FirstChannels
                 THEN [here |-> TRUE, url |-> Old(c), keys |-> Old(c), valid |-> TRUE] ELSE Gone]
    /\ routed = {1} /\ createdBy = {} /\ listed = chan
    /\ loads = [l \in ListLoad |-> [phase |-> "idle", rows |-> chan]]
    /\ dialog = Closed /\ saveCall = NoSave /\ removeCall = NoRemoval /\ testCall = NoTest
    /\ testVerdict = "none"
    /\ deeds = [loads |-> 0, edits |-> 0, calls |-> 0, stranger |-> 0]

-----------------------------------------------------------------------------
\* load(): no request number; the answers come in any order and each is shown.
LoadStarted(l) == loads' = [loads EXCEPT ![l].phase = "asked"]
AskList(l) == loads[l].phase = "idle" /\ LoadStarted(l)

Reload ==
    /\ deeds.loads < MaxListLoads /\ deeds' = [deeds EXCEPT !.loads = @ + 1]
    /\ \E l \in ListLoad : AskList(l)
    /\ UNCHANGED <<chan, routed, createdBy, listed, dialog, saveCall, removeCall, testCall,
                   testVerdict>>

ReadList(l) ==
    /\ loads[l].phase = "asked"
    /\ loads' = [loads EXCEPT ![l] = [phase |-> "read", rows |-> chan]]
    /\ UNCHANGED <<chan, routed, createdBy, listed, dialog, saveCall, removeCall, testCall,
                   testVerdict, deeds>>

ShowList(l) ==
    /\ loads[l].phase = "read"
    /\ listed' = loads[l].rows /\ loads' = [loads EXCEPT ![l].phase = "idle"]
    /\ UNCHANGED <<chan, routed, createdBy, dialog, saveCall, removeCall, testCall,
                   testVerdict, deeds>>

-----------------------------------------------------------------------------
\* resetForm and openEdit fill every field; the field for the keys is always empty.
FormOf(c) == [url |-> listed[c].url, keys |-> NoKeys, valid |-> TRUE, named |-> TRUE]
\* Faulty variant: the keys typed before stay in their field.
FormOfKeepingKeys(c) == [FormOf(c) EXCEPT !.keys = dialog.form.keys]
Filled(c) == FormOf(c)

InDialog == UNCHANGED <<chan, routed, createdBy, listed, loads, saveCall, removeCall,
                        testCall,
                        testVerdict>>

OpenCreate == /\ ~dialog.open /\ InDialog /\ UNCHANGED deeds
              /\ dialog' = [Closed EXCEPT !.open = TRUE]
OpenEdit(c) == /\ ~dialog.open /\ listed[c].here /\ InDialog /\ UNCHANGED deeds
               /\ dialog' = [open |-> TRUE, editing |-> TRUE, id |-> c, form |-> Filled(c)]
\* The form keeps its values when the dialog is closed.
CloseDialog == /\ dialog.open /\ InDialog /\ UNCHANGED deeds
               /\ dialog' = [dialog EXCEPT !.open = FALSE]

EnterForm ==
    /\ dialog.open /\ deeds.edits < MaxChannelEdits /\ InDialog
    /\ deeds' = [deeds EXCEPT !.edits = @ + 1]
    /\ \/ \E valid \in BOOLEAN :
            dialog' = [dialog EXCEPT !.form.url = New(dialog.id), !.form.valid = valid,
                                     !.form.named = TRUE]
       \/ dialog' = [dialog EXCEPT !.form.keys = New(dialog.id)]

\* The page calls; what it says of the channel tested before goes away by itself.
CountCall == /\ deeds.calls < MaxPageCalls /\ deeds' = [deeds EXCEPT !.calls = @ + 1]
        /\ testVerdict' = "none" /\ {saveCall.phase, removeCall.phase, testCall.phase} = {"idle"}

\* save(): the button waits for the call before; the form and the id are taken when
\* it is pressed.
PressSave ==
    /\ dialog.open /\ dialog.form.named /\ CountCall
    /\ saveCall' = [NoSave EXCEPT !.phase = "sent", !.editing = dialog.editing,
                                  !.id = dialog.id, !.form = dialog.form]
    /\ UNCHANGED <<chan, routed, createdBy, listed, loads, dialog, removeCall, testCall>>

-----------------------------------------------------------------------------
\* What normalizeChannelBaseUrl, -Proxy, -Headers, -Priority, -Weight, -Status and
\* -Protocols refuse is refused before anything is saved.
AcceptedAll(form) == TRUE
Accepted(form) == form.valid

SaveStays == UNCHANGED <<routed, listed, loads, dialog, removeCall, testCall, testVerdict,
                         deeds>>

FindChannel ==
    /\ saveCall.phase = "sent" /\ SaveStays /\ UNCHANGED <<chan, createdBy>>
    /\ saveCall' =
         IF \/ saveCall.editing /\ ~chan[saveCall.id].here
            \/ ~saveCall.editing /\ saveCall.form.keys = NoKeys
            \/ ~Accepted(saveCall.form)
         THEN [saveCall EXCEPT !.phase = "refused"]
         ELSE [saveCall EXCEPT !.phase = "save", !.disturbed = FALSE,
                 !.row = IF saveCall.editing THEN chan[saveCall.id] ELSE Gone]

\* The fields of the call over those of the row; the keys only when there are any.
AppliedAlways(row, form) ==
    [here |-> TRUE, url |-> form.url, keys |-> form.keys, valid |-> form.valid]
WithForm(row, form) ==
    [here |-> TRUE, url |-> form.url, valid |-> form.valid,
     keys |-> IF form.keys = NoKeys THEN row.keys ELSE form.keys]

\* The id a new row gets: one that never was given.
FreshId == {c \in ChannelId : c > FirstChannels /\ c \notin createdBy}

StoreChannel ==
    /\ saveCall.phase = "save" /\ SaveStays
    /\ IF saveCall.editing
       THEN chan' = [chan EXCEPT ![saveCall.id] = WithForm(saveCall.row, saveCall.form)]
            /\ UNCHANGED createdBy
       ELSE \E c \in FreshId :
              /\ c - 1 \in createdBy \cup 1..FirstChannels
              /\ chan' = [chan EXCEPT ![c] = WithForm(Gone, saveCall.form)]
              /\ createdBy' = createdBy \cup {c}
    /\ saveCall' = [saveCall EXCEPT !.phase = "stored"]

\* The pool is refreshed and the answer comes, or is lost: then the page shows an error
\* over a saved row. A success closes whatever dialog is open.
SaveAnswered ==
    /\ saveCall.phase \in {"stored", "refused"} /\ saveCall' = NoSave
    /\ \/ /\ saveCall.phase = "stored" /\ \E l \in ListLoad : AskList(l)
          /\ dialog' = [dialog EXCEPT !.open = FALSE]
       \/ UNCHANGED <<dialog, loads>>
    /\ UNCHANGED <<chan, routed, createdBy, listed, removeCall, testCall, testVerdict, deeds>>

-----------------------------------------------------------------------------
\* remove(): confirmed for the row that is shown; a channel in use is refused, and
\* again by the foreign key of model_routes when a route came in between.
ConfirmRemoval(c) ==
    /\ listed[c].here /\ ~dialog.open /\ CountCall
    /\ removeCall' = [phase |-> "sent", id |-> c]
    /\ UNCHANGED <<chan, routed, createdBy, listed, loads, dialog, saveCall, testCall>>

FindReferences ==
    /\ removeCall.phase = "sent"
    /\ removeCall' = [removeCall EXCEPT
                        !.phase = IF removeCall.id \in routed THEN "refused" ELSE "delete"]
    /\ UNCHANGED <<chan, routed, createdBy, listed, loads, dialog, saveCall, testCall,
                   testVerdict, deeds>>

DeletableOnceChecked(c) == TRUE
Deletable(c) == c \notin routed

Disturb(c) == saveCall' = [saveCall EXCEPT !.disturbed = @ \/ (saveCall.id = c)]

DeleteChannel ==
    /\ removeCall.phase = "delete"
    /\ IF Deletable(removeCall.id)
       THEN /\ chan' = [chan EXCEPT ![removeCall.id] = Gone] /\ Disturb(removeCall.id)
            /\ removeCall' = [removeCall EXCEPT !.phase = "removed"]
       ELSE /\ removeCall' = [removeCall EXCEPT !.phase = "refused"]
            /\ UNCHANGED <<chan, saveCall>>
    /\ UNCHANGED <<routed, createdBy, listed, loads, dialog, testCall, testVerdict, deeds>>

RemovalAnswered ==
    /\ removeCall.phase \in {"removed", "refused"} /\ removeCall' = NoRemoval
    /\ \/ removeCall.phase = "removed" /\ \E l \in ListLoad : AskList(l)
       \/ UNCHANGED loads
    /\ UNCHANGED <<chan, routed, createdBy, listed, dialog, saveCall, testCall, testVerdict,
                   deeds>>

-----------------------------------------------------------------------------
\* test(): with the keys and an enabled route of the channel, one small call for each
\* of its protocols, two here.
PressTest(c) ==
    /\ listed[c].here /\ ~dialog.open /\ CountCall
    /\ testCall' = [NoTest EXCEPT !.phase = "sent", !.id = c]
    /\ UNCHANGED <<chan, routed, createdBy, listed, loads, dialog, saveCall, removeCall>>

ProbeChannel ==
    /\ testCall.phase = "sent"
    /\ IF ~chan[testCall.id].here \/ testCall.id \notin routed
       THEN testCall' = [testCall EXCEPT !.phase = "answered"]
       ELSE \E first, second \in {"fine", "error"} :
              testCall' = [testCall EXCEPT !.phase = "answered", !.answers = {first, second}]
    /\ UNCHANGED <<chan, routed, createdBy, listed, loads, dialog, saveCall, removeCall,
                   testVerdict, deeds>>

PassedOnce(answers) == "fine" \in answers
Passed(answers) == answers # {} /\ answers \subseteq {"fine"}
TestAnswered ==
    /\ testCall.phase = "answered" /\ testCall' = NoTest
    /\ testVerdict' = IF Passed(testCall.answers) THEN "works" ELSE "does not work"
    /\ UNCHANGED <<chan, routed, createdBy, listed, loads, dialog, saveCall, removeCall,
                   deeds>>

-----------------------------------------------------------------------------
Stranger ==
    /\ deeds.stranger < MaxStranger /\ deeds' = [deeds EXCEPT !.stranger = @ + 1]
    /\ UNCHANGED <<createdBy, listed, loads, dialog, removeCall, testCall, testVerdict>>

StrangerEdits(c) == /\ chan[c].here /\ Stranger /\ Disturb(c) /\ UNCHANGED routed
                    /\ chan' = [chan EXCEPT ![c].keys = New(c), ![c].url = Old(c)]
StrangerRemoves(c) == /\ chan[c].here /\ Deletable(c) /\ Stranger /\ Disturb(c)
                      /\ chan' = [chan EXCEPT ![c] = Gone] /\ UNCHANGED routed
StrangerBinds(c) == /\ chan[c].here /\ Stranger /\ UNCHANGED <<chan, saveCall>>
                    /\ routed' = IF c \in routed THEN routed \ {c} ELSE routed \cup {c}

ChannelPageNext ==
    \/ Reload
    \/ \E l \in ListLoad : ReadList(l) \/ ShowList(l)
    \/ OpenCreate \/ CloseDialog \/ EnterForm \/ PressSave
    \/ FindChannel \/ StoreChannel \/ SaveAnswered
    \/ FindReferences \/ DeleteChannel \/ RemovalAnswered \/ ProbeChannel \/ TestAnswered
    \/ \E c \in ChannelId :
         OpenEdit(c) \/ ConfirmRemoval(c) \/ PressTest(c)
         \/ StrangerEdits(c) \/ StrangerRemoves(c) \/ StrangerBinds(c)

ChannelPageSpec == ChannelPageInit /\ [][ChannelPageNext]_channelPageVars

ChannelPageTypeOK ==
    /\ \A c \in ChannelId : chan[c].here \in BOOLEAN /\ chan[c].url \in Typed
    /\ routed \subseteq ChannelId /\ createdBy \subseteq ChannelId /\ dialog.id \in 0..LastChannel
    /\ \A l \in ListLoad : loads[l].phase \in {"idle", "asked", "read"}
    /\ saveCall.phase \in {"idle", "sent", "save", "stored", "refused"}
    /\ removeCall.phase \in {"idle", "sent", "delete", "removed", "refused"}
    /\ testCall.phase \in {"idle", "sent", "answered"}

-----------------------------------------------------------------------------
\* What a channel holds was entered for it: an address or a key typed in the dialog of
\* one row, saved or not, never comes to be stored in another, whatever dialogs were
\* opened while calls were under way; and nothing refused is stored
\* (Channels.vue:392, 408, 421; channel.module.ts:159).
ValuesStayHome ==
    \A c \in ChannelId : chan[c].here =>
        /\ chan[c].valid
        /\ \A v \in {chan[c].url, chan[c].keys} : v.for = c \/ (v.for = 0 /\ c \in createdBy)

\* No route points to a channel that is gone, though the routes are looked up before the
\* channel is deleted and may be made in between (channel.module.ts:196).
RoutedStay == \A c \in routed : chan[c].here

\* A save with the field for the keys left empty keeps the keys, unless the row was
\* saved or removed by another between its reading and its writing
\* (Channels.vue:439, channel.module.ts:172).
KeysAreKept ==
    [][\A c \in ChannelId :
          chan[c].keys # chan'[c].keys /\ saveCall.phase = "save" /\ saveCall'.phase = "stored"
             => saveCall.form.keys = chan'[c].keys \/ saveCall.disturbed]_channelPageVars

\* The page says a channel works only when every protocol of it answered well
\* (channel.module.ts:242).
WorksMeansAll ==
    [][testVerdict' = "works" /\ testCall.phase = "answered" /\ testCall'.phase = "idle"
          => testCall.answers = {"fine"}]_channelPageVars

-----------------------------------------------------------------------------
(* The administration of models: the page Models.vue with its dialog and its       *)
(* editor of bindings, ModelConfigController, and the transaction of                *)
(* ModelRouteStore that writes a model with its routes. The routes are the          *)
(* authority; the column bindings is written along for an older image. A second     *)
(* administrator works through the same handlers.                                   *)
CONSTANTS
    LastModelId, FirstModels,  \* ids of models; how many there are at first
    ModelName,                 \* names; model i has the i-th at first
    Upstreams,                 \* 1..n: ids of channels
    MaxModelEdits, MaxModelCalls  \* bounds: entries in the form, calls of each administrator

ASSUME ModelPageAssumption ==
    /\ LastModelId \in Nat /\ FirstModels \in 0..LastModelId
    /\ IsFiniteSet(ModelName) /\ FirstModels <= Cardinality(ModelName)
    /\ IsFiniteSet(Upstreams) /\ Upstreams \subseteq Nat \ {0} /\ 1 \in Upstreams

VARIABLES
    modelRows,    \* rows of model_configs
    routes,    \* rows of model_routes, by model
    channels,  \* channels that exist
    made,      \* history: ids created
    modelPage,      \* the rows and the channels the page knows
    modelForm,      \* the dialog
    req,       \* the request of each administrator: 1 the page's, 2 the other's
    mixed,     \* history: models for which two transactions overlapped
    counts     \* history: [edits, calls]

modelPageVars == <<modelRows, routes, channels, made, modelPage, modelForm, req, mixed, counts>>

Id == 1..LastModelId
Slot == {1, 2}
\* Prices are known by the dialog they were entered in, 0 the one for a new model.
NoModelRow == [here |-> FALSE, name |-> "none", price |-> 0, shadow |-> {}]
ClosedForm == [open |-> FALSE, id |-> 0, name |-> "none", price |-> 0, binds |-> <<>>]
NoReq == [phase |-> "idle", id |-> 0, name |-> "none", price |-> 0, binds |-> {},
          entity |-> NoModelRow, snap |-> NoModelRow]

NameOf(i) == SetToSeq(ModelName)[i]
ModelPageInit ==
    /\ modelRows = [i \in Id |-> IF i > FirstModels THEN NoModelRow
                  ELSE [here |-> TRUE, name |-> NameOf(i), price |-> i,
                        shadow |-> {[to |-> 1, by |-> i]}]]
    /\ routes = [i \in Id |-> IF i > FirstModels THEN {} ELSE {[to |-> 1, by |-> i]}]
    /\ channels = Upstreams /\ made = {} /\ modelForm = ClosedForm
    /\ modelPage = [rows |-> modelRows, routes |-> routes, channels |-> channels]
    /\ req = [s \in Slot |-> NoReq] /\ mixed = {}
    /\ counts = [edits |-> 0, calls |-> [s \in Slot |-> 0]]

-----------------------------------------------------------------------------
Elsewhere == UNCHANGED <<modelRows, routes, channels, made, modelPage, req, mixed>>

\* The list with the routes of its rows; the channels are read when the page opens.
LoadModels ==
    /\ ~modelForm.open /\ modelPage' = [modelPage EXCEPT !.rows = modelRows, !.routes = routes]
    /\ UNCHANGED <<modelRows, routes, channels, made, modelForm, req, mixed, counts>>

OpenNew == /\ ~modelForm.open /\ Elsewhere /\ UNCHANGED counts
           /\ modelForm' = [ClosedForm EXCEPT !.open = TRUE]
\* openEdit fills every field from the row. Faulty variant: the bindings stay.
FormOfRow(i) ==
    [open |-> TRUE, id |-> i, name |-> modelPage.rows[i].name, price |-> modelPage.rows[i].price,
     binds |-> SetToSeq(modelPage.routes[i])]
FormKeepingBinds(i) == [FormOfRow(i) EXCEPT !.binds = modelForm.binds]
FormFor(i) == FormOfRow(i)
OpenModel(i) ==
    /\ ~modelForm.open /\ modelPage.rows[i].here /\ Elsewhere /\ UNCHANGED counts
    /\ modelForm' = FormFor(i)
Cancel == modelForm.open /\ modelForm' = [modelForm EXCEPT !.open = FALSE] /\ Elsewhere /\ UNCHANGED counts

Entered(new) == /\ modelForm.open /\ counts.edits < MaxModelEdits /\ Elsewhere /\ modelForm' = new
                /\ counts' = [counts EXCEPT !.edits = @ + 1]
TypeName(n) == Entered([modelForm EXCEPT !.name = n])
TypePrice == modelForm.id # modelForm.price /\ Entered([modelForm EXCEPT !.price = modelForm.id])

\* addBinding takes the first channel that is not bound yet; without one the row has none.
Bound == {modelForm.binds[k].to : k \in DOMAIN modelForm.binds}
FirstFreeChannel == IF modelPage.channels \subseteq Bound THEN 0
             ELSE CHOOSE c \in modelPage.channels \ Bound : \A d \in modelPage.channels \ Bound : c <= d
AddBinding == Entered([modelForm EXCEPT !.binds = Append(@, [to |-> FirstFreeChannel, by |-> modelForm.id])])

\* A channel that another row has cannot be chosen.
ChooseChannel(k, c) ==
    /\ c \notin Bound /\ c \in modelPage.channels
    /\ Entered([modelForm EXCEPT !.binds[k] = [to |-> c, by |-> modelForm.id]])
DropBinding(k) == Entered([modelForm EXCEPT !.binds = RemoveAt(@, k)])

\* save(): every row complete, no channel twice; the button waits for the call before.
Complete(b) == b.to # 0
Sendable == /\ modelForm.name # "none" /\ \A k \in DOMAIN modelForm.binds : Complete(modelForm.binds[k])
            /\ Cardinality(Bound) = Len(modelForm.binds)

Submit(s, r) == /\ req[s].phase = "idle" /\ counts.calls[s] < MaxModelCalls
               /\ req' = [req EXCEPT ![s] = r] /\ counts' = [counts EXCEPT !.calls[s] = @ + 1]
SaveRequest(id, name, price, binds) ==
    [NoReq EXCEPT !.phase = "find", !.id = id, !.name = name, !.price = price, !.binds = binds]

PressModelSave ==
    /\ modelForm.open /\ Sendable
    /\ Submit(1, SaveRequest(modelForm.id, modelForm.name, modelForm.price, ToSet(modelForm.binds)))
    /\ UNCHANGED <<modelRows, routes, channels, made, modelPage, modelForm, mixed>>

OtherSaves(i, n, bound) ==
    /\ modelRows[i].here
    /\ Submit(2, SaveRequest(i, n, i, {[to |-> c, by |-> i] : c \in bound}))
    /\ UNCHANGED <<modelRows, routes, channels, made, modelPage, modelForm, mixed>>

-----------------------------------------------------------------------------
Handling == UNCHANGED <<channels, modelPage, counts>>
MoveOn(s, r) == req' = [req EXCEPT ![s] = r]
ProceedTo(s, phase) == MoveOn(s, [req[s] EXCEPT !.phase = phase])
NameTaken(n, i) == \E j \in Id \ {i} : modelRows[j].here /\ modelRows[j].name = n

\* What a handler refuses: a model that is gone, a name another model has, a channel that
\* does not exist. What it read it goes on with.
FindRow(s) ==
    /\ req[s].phase = "find" /\ Handling /\ UNCHANGED <<modelRows, routes, made, modelForm, mixed>>
    /\ LET r == req[s]
           unknown == \E b \in r.binds : b.to \notin channels
       IN IF (r.id # 0 /\ ~modelRows[r.id].here) \/ NameTaken(r.name, r.id) \/ unknown
          THEN ProceedTo(s, "refused")
          ELSE MoveOn(s, [r EXCEPT !.phase = "begin",
                          !.entity = [here |-> TRUE, name |-> r.name, price |-> r.price,
                                      shadow |-> r.binds]])

\* The transaction begins: the entity is compared with the row it sees.
SeeRow(s) ==
    /\ req[s].phase = "begin" /\ Handling /\ UNCHANGED <<modelRows, routes, made, modelForm, mixed>>
    /\ MoveOn(s, [req[s] EXCEPT !.phase = "write",
                  !.snap = IF req[s].id = 0 THEN NoModelRow ELSE modelRows[req[s].id]])

\* The columns in which the entity differs from what was seen are written over the row as
\* it then is; a row that was not seen is inserted, one gone since stays gone.
Written(row, entity, snap) ==
    IF ~snap.here THEN entity
    ELSE IF ~row.here THEN row
    ELSE [here |-> TRUE, name |-> IF entity.name = snap.name THEN row.name ELSE entity.name,
          price |-> IF entity.price = snap.price THEN row.price ELSE entity.price,
          shadow |-> IF entity.shadow = snap.shadow THEN row.shadow ELSE entity.shadow]
\* Faulty variant: the column is left as it was.
WithoutShadow(row, entity, snap) ==
    [Written(row, entity, snap) EXCEPT !.shadow = IF row.here THEN row.shadow ELSE {}]
SavedRow(row, entity, snap) == Written(row, entity, snap)

FreshRow == {i \in Id : i > FirstModels /\ i \notin made /\ i - 1 \in made \cup 1..FirstModels}

\* The routes are written for what is there: model_routes refers to both rows, a name is
\* unique, and a transaction that fails leaves everything as it was.
Consistent(row, i, binds) ==
    /\ row.here \/ binds = {}
    /\ ~(row.here /\ NameTaken(row.name, i)) /\ {b.to : b \in binds} \subseteq channels
\* Faulty variant: without the unique name and the reference to the channel.
ConsistentAnyway(row, i, binds) == row.here \/ binds = {}
Commits(row, i, binds) == Consistent(row, i, binds)

WriteModel(s) ==
    /\ req[s].phase = "write" /\ Handling /\ UNCHANGED modelForm
    /\ \E i \in IF req[s].id = 0 THEN FreshRow ELSE {req[s].id} :
         LET new == SavedRow(modelRows[i], req[s].entity, req[s].snap)
         IN IF Commits(new, i, req[s].binds)
            THEN /\ modelRows' = [modelRows EXCEPT ![i] = new]
                 /\ routes' = [routes EXCEPT ![i] = req[s].binds]
                 /\ made' = IF req[s].id = 0 THEN made \cup {i} ELSE made
                 /\ mixed' = IF req[s].id # 0 /\ modelRows[i] # req[s].snap THEN mixed \cup {i}
                             ELSE mixed
                 /\ ProceedTo(s, "stored")
            ELSE ProceedTo(s, "refused") /\ UNCHANGED <<modelRows, routes, made, mixed>>

\* The groups are told and the pool refreshed; when that fails, or the answer is lost, the
\* page reports an error over a saved model. A success closes the dialog that is open.
AnswerModel(s) ==
    /\ req[s].phase \in {"stored", "refused"} /\ MoveOn(s, NoReq)
    /\ \/ /\ req[s].phase = "stored" /\ s = 1 /\ modelForm' = [modelForm EXCEPT !.open = FALSE]
          /\ modelPage' = [modelPage EXCEPT !.rows = modelRows, !.routes = routes]
       \/ UNCHANGED <<modelForm, modelPage>>
    /\ UNCHANGED <<modelRows, routes, channels, made, mixed, counts>>

\* removeModel: the routes and the model in one transaction.
RemoveModelRow(s, i) ==
    /\ IF s = 1 THEN modelPage.rows[i].here /\ ~modelForm.open ELSE modelRows[i].here
    /\ req[s].phase = "idle" /\ counts.calls[s] < MaxModelCalls
    /\ counts' = [counts EXCEPT !.calls[s] = @ + 1]
    /\ modelRows' = [modelRows EXCEPT ![i] = NoModelRow] /\ routes' = [routes EXCEPT ![i] = {}]
    /\ UNCHANGED <<channels, made, modelPage, modelForm, req, mixed>>

\* ChannelController.remove, refused while a route refers to the channel.
OtherRemovesChannel(c) ==
    /\ c \in channels /\ \A i \in Id : c \notin {b.to : b \in routes[i]}
    /\ counts.calls[2] < MaxModelCalls /\ counts' = [counts EXCEPT !.calls[2] = @ + 1]
    /\ channels' = channels \ {c}
    /\ UNCHANGED <<modelRows, routes, made, modelPage, modelForm, req, mixed>>

ModelPageNext ==
    \/ LoadModels \/ OpenNew \/ Cancel \/ TypePrice \/ AddBinding \/ PressModelSave
    \/ \E i \in Id : OpenModel(i)
    \/ \E n \in ModelName : TypeName(n)
    \/ \E k \in DOMAIN modelForm.binds : DropBinding(k) \/ \E c \in Upstreams : ChooseChannel(k, c)
    \/ \E i \in Id, n \in ModelName, bound \in SUBSET Upstreams : OtherSaves(i, n, bound)
    \/ \E s \in Slot : FindRow(s) \/ SeeRow(s) \/ WriteModel(s) \/ AnswerModel(s)
    \/ \E s \in Slot, i \in Id : RemoveModelRow(s, i)
    \/ \E c \in Upstreams : OtherRemovesChannel(c)

ModelPageSpec == ModelPageInit /\ [][ModelPageNext]_modelPageVars

ModelPageTypeOK ==
    /\ \A i \in Id : modelRows[i].here \in BOOLEAN /\ modelRows[i].name \in ModelName \cup {"none"}
    /\ channels \subseteq Upstreams /\ made \subseteq Id /\ mixed \subseteq Id
    /\ modelForm.id \in 0..LastModelId
    /\ \A s \in Slot : req[s].phase \in {"idle", "find", "begin", "write", "stored", "refused"}

-----------------------------------------------------------------------------
\* A channel is bound to a model once and exists, names are unique and a model that is
\* gone has no routes, though all this is looked up before the transaction begins
\* (model-config.module.ts:205, model-route.store.ts:49).
RoutesAreSound ==
    \A i \in Id :
        /\ \A b, c \in routes[i] : b.to = c.to => b = c
        /\ \A b \in routes[i] : b.to \in channels
        /\ routes[i] # {} => modelRows[i].here
        /\ modelRows[i].here => ~NameTaken(modelRows[i].name, i)

\* The column an older image would read says what the routes say, unless two saves of the
\* model overlapped (migration-add-model-routes.sql:2, model-route.store.ts:49).
ShadowIsRoutes == \A i \in Id \ mixed : modelRows[i].here => modelRows[i].shadow = routes[i]

\* What is stored of a model was entered for it, whatever other dialogs were opened
\* (Models.vue:435, 451, 477).
PricesStayHome ==
    \A i \in Id : modelRows[i].here =>
        \A v \in {modelRows[i].price} \cup {b.by : b \in routes[i]} : v = i \/ (v = 0 /\ i \in made)

-----------------------------------------------------------------------------
\* The two pages, and what the gateway says of the routes they make.
RoutingSpec == DiagnosisSpec /\ ChannelPageSpec /\ ModelPageSpec

\* The routes of the models: sound in their rows, made of what was entered for them, and
\* told by the diagnosis and the test of a channel as calls are routed.
RoutingHolds ==
    /\ [](DiagnosisIsRouting /\ WorstPathShown)
    /\ [](RoutedStay /\ ValuesStayHome)
    /\ [](RoutesAreSound /\ ShadowIsRoutes /\ PricesStayHome)
    /\ KeysAreKept /\ WorksMeansAll
=============================================================================
