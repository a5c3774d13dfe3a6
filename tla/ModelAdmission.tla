----------------------------- MODULE ModelAdmission -----------------------------
(* Which models a caller is shown and which it may call: the lists of           *)
(* relay.service.ts and of the portal, the checks of prepareContext, the price   *)
(* a request is quoted and charged, and what the request log says of its answer. *)
(* Rows, groups and the routing table change between any two reads.              *)
EXTENDS FiniteSetsExt, SequencesExt, QuotaAdjustment

CONSTANTS
    LastModel,     \* models are numbered in the order of their rows
    AskedModels,   \* the models that are called
    Team,          \* a group besides "default"
    TokenTag,      \* the group a token carries, or "none"
    MaxCallEdits, MaxWalkEdits, MaxTurns, MaxPages
                   \* bounds: edits besides calls and besides a walk, turns of the tariff, pages

ASSUME AdmissionAssumption ==
    /\ LastModel \in Nat \ {0} /\ AskedModels \subseteq 1..LastModel
    /\ Team # "none"
    /\ MaxCallEdits \in Nat /\ MaxWalkEdits \in Nat

VARIABLES
    shelf,      \* the model rows with their groups, and the protocols the pool routes
    member,     \* the row of the user: [role, groups]
    cards,      \* the readings of that row the gateways may hold with the token
    revision,   \* edits made
    tariff,     \* whether it is peak time, and how often it turned
    listing,    \* a list being made
    shown,      \* the last list: who showed it, what it promised, at which revision and
                \* for which reading of the user
    walk,       \* a client going through the pages of the Anthropic list
    relayCall,       \* the request
    spent,      \* what is booked on the user's quota
    logRow         \* the row of the request log

admissionVars == <<shelf, member, cards, revision, tariff, listing, shown, walk, relayCall,
                   spent, logRow>>

ModelNo == 1..LastModel
Interface == {"chat", "responses", "anthropic"}
FreshModel == [on |-> TRUE, supports |-> {"responses", "anthropic"}, vision |-> FALSE,
               groups |-> {"default"}, price |-> [off |-> 1, peak |-> 2], routed |-> Interface]
NoListing == [by |-> "nobody", rows |-> shelf, member |-> member, at |-> 0]
NoCall == [phase |-> "idle", model |-> 1, by |-> "chat", image |-> FALSE,
           read |-> FreshModel, member |-> [role |-> "user", groups |-> {}], quote |-> 0,
           held |-> 0, code |-> "none", given |-> 0, started |-> FALSE, sent |-> 0,
           kind |-> "none", at |-> 0, used |-> 0, unsettled |-> FALSE]
NoLogRow == [code |-> "none", status |-> 0, partial |-> FALSE, cost |-> 0]
NoWalk == [phase |-> "idle", limit |-> 1, cursor |-> 0, rows |-> shelf, as |-> member,
           seen |-> <<>>, always |-> {}, gone |-> FALSE, pages |-> 0]

AdmissionInit ==
    /\ shelf = [m \in ModelNo |-> FreshModel] /\ member = [role |-> "user", groups |-> {}]
    /\ cards = {member} /\ revision = 0 /\ tariff = [peak |-> FALSE, turns |-> 0]
    /\ listing = NoListing /\ shown = [by |-> "nobody", as |-> member, pairs |-> {}, at |-> 0]
    /\ walk = NoWalk /\ relayCall = NoCall /\ spent = 0 /\ logRow = NoLogRow

-----------------------------------------------------------------------------
\* canAccess: the groups of the user, "default" without any, and that of the token.
CanAccess(allowed, m, tag) ==
    \/ m.role = "admin"
    \/ allowed \cap ((IF m.groups = {} THEN {"default"} ELSE m.groups) \cup {tag}) # {}

AllModels(rows) == {m \in ModelNo : rows[m].on}
PortalVisible(rows, m) == {n \in AllModels(rows) : CanAccess(shelf[n].groups, m, "none")}
RelayVisible(rows, as) == {n \in AllModels(rows) : CanAccess(shelf[n].groups, as, TokenTag)}
Supported(r) == r.supports \cup {"chat"}

\* What a list promises: the protocol is supported and routed. Faulty variant: a route
\* is taken for the promise.
PromisedByRoute(rows, visible) ==
    {q \in visible \X Interface : q[2] \in shelf[q[1]].routed}
Promised(rows, visible) ==
    {q \in visible \X Interface :
        q[2] \in Supported(rows[q[1]]) /\ q[2] \in shelf[q[1]].routed}

\* The models, then the groups of each are read; the portal reads the user in between,
\* the relay takes the reading of the user kept with the token for up to a minute.
StartList(by) ==
    /\ listing.by = "nobody" /\ relayCall.phase = "idle"
    /\ \E as \in IF by = "portal" THEN {member} ELSE cards :
         listing' = [by |-> by, rows |-> shelf, member |-> as, at |-> revision]
    /\ UNCHANGED <<shelf, member, cards, revision, tariff, shown, walk, relayCall, spent, logRow>>

ReadMember ==
    /\ listing.by = "portal" /\ listing.member # member
    /\ listing' = [listing EXCEPT !.member = member]
    /\ UNCHANGED <<shelf, member, cards, revision, tariff, shown, walk, relayCall, spent, logRow>>

\* The portal's list says nothing of the routing: a user reads it with the table's answer.
FinishList ==
    /\ listing.by \in {"portal", "relay"}
    /\ shown' = [by |-> listing.by, at |-> listing.at, as |-> listing.member,
                 pairs |-> Promised(listing.rows,
                               IF listing.by = "portal"
                               THEN PortalVisible(listing.rows, listing.member)
                               ELSE RelayVisible(listing.rows, listing.member))]
    /\ listing' = NoListing
    /\ UNCHANGED <<shelf, member, cards, revision, tariff, walk, relayCall, spent, logRow>>

-----------------------------------------------------------------------------
\* listAnthropicModels: in the order of the rows, after the model the client names; a
\* name that is no longer listed is passed over.
AnthropicVisible(rows, as) == {m \in RelayVisible(rows, as) : "anthropic" \in rows[m].supports}
Increasing(s) == \A i, j \in DOMAIN s : i < j => s[i] < s[j]
Ordered(visible) ==
    CHOOSE s \in [1..Cardinality(visible) -> visible] : Range(s) = visible /\ Increasing(s)

After(visible, cursor) ==
    IF cursor \in visible THEN {m \in visible : m > cursor} ELSE visible
\* Faulty variant: the page begins with the model that was named.
AfterIncluding(visible, cursor) ==
    IF cursor \in visible THEN {m \in visible : m >= cursor} ELSE visible
PageFrom(visible, cursor) == After(visible, cursor)

PageLimit(requested) == Min({1000, Max({1, requested})})

\* A walk that asks from the start; no page has left a model out yet.
FreshWalk(limit) ==
    [NoWalk EXCEPT !.phase = "between", !.limit = limit, !.always = ModelNo]
StartWalk ==
    /\ walk.phase = "idle"
    /\ \E requested \in {0, 2, 5000} : walk' = FreshWalk(PageLimit(requested))
    /\ UNCHANGED <<shelf, member, cards, revision, tariff, listing, shown, relayCall, spent,
                   logRow>>

\* Each page is answered by some gateway, with the reading of the user it holds.
AskPage(as) ==
    /\ walk.phase = "between" /\ walk.pages < MaxPages
    /\ walk' = [walk EXCEPT !.phase = "rows", !.rows = shelf, !.as = as,
                            !.always = @ \cap AnthropicVisible(shelf, as)]
    /\ UNCHANGED <<shelf, member, cards, revision, tariff, listing, shown, relayCall, spent,
                   logRow>>

GetPage ==
    /\ walk.phase = "rows"
    /\ LET visible == AnthropicVisible(walk.rows, walk.as)
           rest == Ordered(PageFrom(visible, walk.cursor))
           pageRows == SubSeq(rest, 1, Min({walk.limit, Len(rest)}))
           more == Len(rest) > Len(pageRows)
       IN walk' = [walk EXCEPT !.phase = IF more THEN "between" ELSE "done",
                     !.seen = @ \o pageRows, !.pages = @ + 1, !.rows = shelf, !.as = member,
                     !.gone = @ \/ (walk.cursor # 0 /\ walk.cursor \notin visible),
                     !.cursor = IF pageRows = <<>> THEN 0 ELSE Last(pageRows)]
    /\ UNCHANGED <<shelf, member, cards, revision, tariff, listing, shown, relayCall, spent,
                   logRow>>

-----------------------------------------------------------------------------
\* quoteModelPrice: the tariff at the moment of the reservation.
Quoted(r) == IF tariff.peak THEN r.price.peak ELSE r.price.off

\* What a refusal of the gateway's own is answered with.
StatusOf(code) ==
    CASE code \in {"invalid_request_error", "vision_not_supported", "not_supported"} -> 400
      [] code = "forbidden" -> 403 [] code = "model_not_found" -> 404
      [] code = "quota_exceeded" -> 429 [] code = "no_channel" -> 503
      [] code = "no_anthropic_channel" -> 529 [] code = "upstream_error" -> 502
\* failureResponseStatus: the status handed over with the failure, or the known one.
LoggedStatusShort(code, httpStatus) ==
    IF httpStatus >= 100 THEN httpStatus
    ELSE IF code \in {"client_disconnected", "no_anthropic_channel"} THEN 0
    ELSE StatusOf(code)
LoggedStatus(code, httpStatus) ==
    IF httpStatus >= 100 THEN httpStatus
    ELSE IF code = "client_disconnected" THEN 0 ELSE StatusOf(code)
NoChannel(by) == IF by = "anthropic" THEN "no_anthropic_channel" ELSE "no_channel"

AnthropicErrorType(status, code) ==
    CASE code \in {"not_supported", "vision_not_supported"} \/ status = 400
            -> "invalid_request_error"
      [] status = 403 -> "permission_error" [] status = 404 -> "not_found_error"
      [] status = 429 -> "rate_limit_error" [] status = 529 -> "overloaded_error"
      [] OTHER -> "api_error"
ErrorType(by, status, code) ==
    IF by = "anthropic" THEN AnthropicErrorType(status, code) ELSE code

\* The role and the groups are those kept with the token, of any of its readings.
BeginCall(m, by, drawing, as) ==
    /\ relayCall.phase = "idle" /\ listing.by = "nobody"
    /\ relayCall' = [NoCall EXCEPT !.phase = "find", !.model = m, !.by = by, !.image = drawing,
                              !.member = as, !.at = revision]
    /\ UNCHANGED <<shelf, member, cards, revision, tariff, listing, shown, walk, spent, logRow>>

\* A request ends with its failure, which is first settled, then logged, then answered.
Fails(c, code, httpStatus) ==
    relayCall' = [c EXCEPT !.phase = "failing", !.code = code, !.given = httpStatus]
GoOn == UNCHANGED <<shelf, member, cards, revision, tariff, listing, shown, walk, spent, logRow>>

NameMissing == relayCall.phase = "find" /\ Fails(relayCall, "invalid_request_error", 0) /\ GoOn

FindModel ==
    /\ relayCall.phase = "find"
    /\ LET r == shelf[relayCall.model]
       IN IF ~r.on THEN Fails(relayCall, "model_not_found", 0)
          ELSE IF relayCall.by \notin Supported(r) THEN Fails(relayCall, "not_supported", 0)
          ELSE relayCall' = [relayCall EXCEPT !.phase = "groups", !.read = r]
    /\ GoOn

\* With the groups read the access and the routes are decided in one go, and the
\* price is quoted for the reservation.
AdmitCall ==
    /\ relayCall.phase = "groups"
    /\ LET r == shelf[relayCall.model]
       IN IF ~CanAccess(r.groups, relayCall.member, TokenTag)
          THEN Fails(relayCall, "forbidden", 0)
          ELSE IF relayCall.by \notin r.routed THEN Fails(relayCall, NoChannel(relayCall.by), 0)
          ELSE relayCall' = [relayCall EXCEPT !.phase = "reserve",
                                              !.quote = Quoted(relayCall.read)]
    /\ GoOn

ReserveQuota ==
    /\ relayCall.phase = "reserve"
    /\ \/ /\ spent' = spent + relayCall.quote
          /\ relayCall' = [relayCall EXCEPT !.phase = "held", !.held = relayCall.quote]
       \/ Fails(relayCall, "quota_exceeded", 0) /\ UNCHANGED spent
    /\ UNCHANGED <<shelf, member, cards, revision, tariff, listing, shown, walk, logRow>>

\* An image for a model that sees none, unless it is sent as a Responses request.
Execute ==
    /\ relayCall.phase = "held"
    /\ IF relayCall.image /\ ~relayCall.read.vision /\ relayCall.by # "responses"
       THEN Fails(relayCall, "vision_not_supported", 0)
       ELSE relayCall' = [relayCall EXCEPT !.phase = "executing"]
    /\ GoOn

\* What the executor reports. A failure after the answer began finds it under way.
Succeed == /\ relayCall.phase = "executing" /\ GoOn
           /\ \E used \in 1..2 :
                relayCall' = [relayCall EXCEPT !.phase = "settling", !.used = used, !.sent = 200]
RouteLost == /\ relayCall.phase = "executing" /\ GoOn
             /\ Fails(relayCall, NoChannel(relayCall.by), StatusOf(NoChannel(relayCall.by)))
\* The call ends with an error, before or after its answer began.
Interrupted(code, httpStatus) ==
    \E begun \in BOOLEAN :
        Fails([relayCall EXCEPT !.started = begun, !.sent = IF begun THEN 200 ELSE 0],
              code, httpStatus)
ClientLeaves == relayCall.phase = "executing" /\ GoOn /\ Interrupted("client_disconnected", 0)
UpstreamFails == /\ relayCall.phase = "executing" /\ GoOn
                 /\ \E status \in {0, 429} : Interrupted("upstream_error", status)

\* The charge is at the price that was quoted. Failing to book it is only logged.
ChargedNow(c) == c.used * Quoted(c.read)
Charged(c) == c.used * c.quote
SettleCall ==
    /\ relayCall.phase \in {"settling", "failing"}
    /\ LET cost == IF relayCall.phase = "failing" THEN 0 ELSE Charged(relayCall)
       IN /\ \/ /\ spent' = spent + cost - relayCall.held
                /\ relayCall' = [relayCall EXCEPT !.phase = "answering"]
             \/ /\ relayCall.held > 0 /\ UNCHANGED spent
                /\ relayCall' = [relayCall EXCEPT !.phase = "answering", !.unsettled = TRUE]
          /\ logRow' = [code |-> relayCall.code, cost |-> cost, partial |-> relayCall.started,
                     status |-> IF relayCall.code = "none" THEN 200
                                ELSE LoggedStatus(relayCall.code, relayCall.given)]
    /\ UNCHANGED <<shelf, member, cards, revision, tariff, listing, shown, walk>>

\* The error is sent when nothing was; a client that left is answered nothing.
CallAnswered ==
    /\ relayCall.phase = "answering"
    /\ relayCall' = IF relayCall.code \in {"none", "client_disconnected"} \/ relayCall.started
               THEN [relayCall EXCEPT !.phase = "done"]
               ELSE LET status == IF relayCall.given # 0 THEN relayCall.given
                                  ELSE StatusOf(relayCall.code)
                    IN [relayCall EXCEPT !.phase = "done", !.sent = status,
                                    !.kind = ErrorType(relayCall.by, status, relayCall.code)]
    /\ GoOn

-----------------------------------------------------------------------------
\* One client lists and calls, another walks the pages: the two do not meet.
Walking == walk.phase # "idle"
EditsMade == revision + Cardinality(cards) - 1
More == EditsMade < IF Walking THEN MaxWalkEdits ELSE MaxCallEdits

Edited(new) ==
    /\ More /\ revision' = revision + 1 /\ shelf' = new
    \* A page being made reads the groups after the rows.
    /\ walk' = IF walk.phase # "rows" THEN walk
               ELSE [walk EXCEPT !.always = @ \cap {m \in ModelNo :
                       CanAccess(new[m].groups, walk.as, TokenTag)}]
    /\ UNCHANGED <<member, cards, tariff, listing, shown, relayCall, spent, logRow>>

SwitchModel(m) == Edited([shelf EXCEPT ![m].on = ~@])
ChangeSupport(m, p) ==
    Edited([shelf EXCEPT ![m].supports = IF p \in @ THEN @ \ {p} ELSE @ \cup {p}])
ChangeGroups(m, g) ==
    Edited([shelf EXCEPT ![m].groups = IF g \in @ THEN @ \ {g} ELSE @ \cup {g}])
ChangeRoutes(m, p) ==
    Edited([shelf EXCEPT ![m].routed = IF p \in @ THEN @ \ {p} ELSE @ \cup {p}])
ChangePrice(m) == Edited([shelf EXCEPT ![m].price = [off |-> 3, peak |-> 3], ![m].vision = TRUE])

\* The row changes; a reading of it from before is used for up to a minute more.
ChangeMember(new) ==
    /\ More /\ new \notin cards /\ member' = new /\ cards' = cards \cup {new}
    /\ UNCHANGED <<shelf, revision, tariff, listing, shown, walk, relayCall, spent, logRow>>

TurnTariff ==
    /\ tariff.turns < MaxTurns /\ relayCall.phase # "idle"
    /\ tariff' = [peak |-> ~tariff.peak, turns |-> tariff.turns + 1]
    /\ UNCHANGED <<shelf, member, cards, revision, listing, shown, walk, relayCall, spent,
                   logRow>>

AdmissionNext ==
    \/ ~Walking /\ \E by \in {"portal", "relay"} : shown.by = "nobody" /\ StartList(by)
    \/ ReadMember \/ FinishList
    \/ shown.by = "nobody" /\ listing.by = "nobody" /\ relayCall.phase = "idle" /\ StartWalk
    \/ \E as \in cards : AskPage(as)
    \/ GetPage
    \/ \E m \in AskedModels, by \in Interface, drawing \in BOOLEAN, as \in cards :
         ~Walking /\ BeginCall(m, by, drawing, as)
    \/ NameMissing \/ FindModel \/ AdmitCall \/ ReserveQuota \/ Execute
    \/ Succeed \/ RouteLost \/ ClientLeaves \/ UpstreamFails \/ SettleCall \/ CallAnswered
    \/ \E m \in IF Walking THEN ModelNo ELSE AskedModels :
         \/ SwitchModel(m)
         \/ ~Walking /\ ChangePrice(m)
         \/ \E p \in {"responses", "anthropic"} : ChangeSupport(m, p)
         \/ \E g \in {"default", Team} : ChangeGroups(m, g)
         \/ \E p \in Interface : ~Walking /\ ChangeRoutes(m, p)
    \/ \E new \in {[role |-> "admin", groups |-> {}], [role |-> "user", groups |-> {Team}]} :
         ChangeMember(new)
    \/ TurnTariff

AdmissionSpec == AdmissionInit /\ [][AdmissionNext]_admissionVars

AdmissionTypeOK ==
    /\ \A m \in ModelNo : shelf[m].supports \cup shelf[m].routed \subseteq Interface
    /\ member.role \in {"user", "admin"} /\ member \in cards /\ spent \in 0..6
    /\ revision \in 0..Max({MaxCallEdits, MaxWalkEdits})
    /\ listing.by \in {"nobody", "portal", "relay"} /\ shown.pairs \subseteq ModelNo \X Interface
    /\ walk.phase \in {"idle", "between", "rows", "done"} /\ Range(walk.seen) \subseteq ModelNo
    /\ relayCall.phase \in {"idle", "find", "groups", "reserve", "held", "executing", "settling",
                       "failing", "answering", "done"}
    /\ logRow.status \in Nat

-----------------------------------------------------------------------------
\* What a list showed as supported and routed is not refused while no model was edited,
\* be it the relay's list or the portal's, except for a missing name or quota
\* (relay.service.ts:42, 383; model-config.module.ts:126). List and call have to know the
\* user by the same reading: the portal reads the row, while every gateway goes on with
\* what it read with the token for up to a minute (token-auth.middleware.ts:39), so that
\* within a minute of an edit of the user a listed model may be refused.
ListedIsAdmitted ==
    relayCall.code \in {"model_not_found", "not_supported", "forbidden", "no_channel",
                   "no_anthropic_channel"}
      /\ relayCall.given = 0 /\ shown.at = relayCall.at /\ relayCall.at = revision
      /\ shown.as = relayCall.member
        => <<relayCall.model, relayCall.by>> \notin shown.pairs

\* A walk through the pages, each asked after the last model of the one before and
\* answered by a gateway with its own reading of the user, shows exactly once each model
\* that was visible to every page, unless the model it went on from was withdrawn
\* (relay.service.ts:107).
WalkIsComplete ==
    walk.phase = "done" /\ ~walk.gone =>
        /\ walk.always \subseteq Range(walk.seen)
        /\ Increasing(walk.seen)

\* The log gives the status the client was answered, unless its answer had begun or it
\* had left (relay-accounting.ts:233, relay.service.ts:323).
LogTellsStatus ==
    relayCall.phase = "done" /\ relayCall.code # "client_disconnected" /\ ~logRow.partial
        => logRow.status = relayCall.sent

\* When a request is over the quota is charged what was used at the price it was quoted
\* for the reservation, whatever the tariff and the price list did since, and a failed
\* one nothing, unless the booking failed (relay-accounting.ts:87, 101).
ChargedAsQuoted ==
    relayCall.phase = "done" /\ ~relayCall.unsettled =>
        /\ spent = logRow.cost /\ (relayCall.code # "none" => logRow.cost = 0)
        /\ relayCall.code = "none" => logRow.cost = relayCall.used * relayCall.held

-----------------------------------------------------------------------------
\* Its calls, and the packages of quota they draw on.
CallerSpec == AdmissionSpec /\ AdjustmentSpec

\* What a caller is shown it may call, what it calls is logged and charged as told, and
\* each adjustment of its quota is one that was asked for and starts from where the one
\* before ended.
AdmissionHolds ==
    /\ [](ListedIsAdmitted /\ WalkIsComplete /\ LogTellsStatus /\ ChargedAsQuoted)
    /\ []TrailAccounts /\ OnlyWhatWasTyped
=============================================================================
