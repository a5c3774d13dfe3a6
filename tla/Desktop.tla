------------------------------- MODULE Desktop -------------------------------
(* The desktop in the browser: its session in several tabs, the preferences *)
(* it stores, and its windows.                                              *)
EXTENDS Naturals, Sequences, FiniteSets, SequencesExt

-----------------------------------------------------------------------------
(* Signing in to the desktop, renewing and signing out, from several tabs of one  *)
(* browser. The tabs share two cookies: a request carries them as they were when   *)
(* it was sent, an answer sets them when it arrives, and requests overtake each    *)
(* other. The identity centre keeps the sessions.                                  *)
CONSTANTS
    Tab, User,                 \* tabs of the browser, accounts that sign in from it
    MaxSessions, MaxSignIns    \* bounds

ASSUME SessionAssumption == MaxSessions \in Nat

None == 0
Session == 1..MaxSessions

VARIABLES
    browser,   \* [flow, token]: its cookies, a sign-in under way and a session
    tabs,      \* [started, user, csrf] of each: its own sign-in, and what its page shows
    pending,   \* the request of each tab
    sessions,  \* the user of each session of the centre, in the order they were made
    live,      \* the sessions that are not revoked
    renewal,   \* the session the server is renewing under each key
    signIns,   \* how many sign-ins were begun
    misspent,  \* a code was presented with the verifier of another sign-in
    acted      \* <<user shown, user acted for>> of every change a tab asked for

sessionVars == <<browser, tabs, pending, sessions, live, renewal, signIns, misspent, acted>>

Nobody == "nobody"
NothingAsked == [kind |-> "none", phase |-> "none", flow |-> None, token |-> None, csrf |-> None,
              state |-> None, user |-> Nobody, ok |-> FALSE]

SessionInit ==
    /\ browser = [flow |-> None, token |-> None]
    /\ tabs = [t \in Tab |-> [started |-> None, user |-> Nobody, csrf |-> None]]
    /\ pending = [t \in Tab |-> NothingAsked]
    /\ sessions = <<>> /\ live = {} /\ renewal = [k \in {None} \cup Session |-> None]
    /\ signIns = 0 /\ misspent = FALSE /\ acted = {}

UserOf(token) == sessions[token]
Atomic == <<sessions, live, renewal, signIns, misspent, acted>>

\* The request leaves with the cookies of this moment.
SendFrom(t, kind, csrf) ==
    /\ pending[t].kind = "none"
    /\ pending' = [pending EXCEPT ![t] = [NothingAsked EXCEPT
                      !.kind = kind, !.phase = "sent", !.token = browser.token, !.csrf = csrf]]
    /\ UNCHANGED <<browser, tabs, Atomic>>

\* The page loads the session; what it then changes, it changes with its token.
LoadSession(t) == SendFrom(t, "session", None)
Change(t) ==
    /\ tabs[t].user # Nobody
    /\ \E kind \in {"logout", "renew", "write"} : SendFrom(t, kind, tabs[t].csrf)

(* Signing in *)
\* The answer sets the cookie of this sign-in and leads to the centre.
AuthStart(t) ==
    /\ pending[t].kind = "none" /\ signIns < MaxSignIns
    /\ signIns' = signIns + 1
    /\ browser' = [browser EXCEPT !.flow = signIns']
    /\ tabs' = [tabs EXCEPT ![t].started = signIns']
    /\ UNCHANGED <<pending, sessions, live, renewal, misspent, acted>>

\* The centre sends the tab back with a code, to be redeemed with the verifier.
Authorize(t) ==
    /\ pending[t].kind = "none" /\ tabs[t].started # None
    /\ \E u \in User :
          pending' = [pending EXCEPT ![t] = [NothingAsked EXCEPT
                         !.kind = "callback", !.phase = "sent", !.flow = browser.flow,
                         !.state = tabs[t].started, !.user = u]]
    /\ tabs' = [tabs EXCEPT ![t].started = None]
    /\ UNCHANGED <<browser, Atomic>>

\* Ten minutes pass, and the cookie is no longer good.
FlowExpires ==
    /\ browser.flow # None /\ browser' = [browser EXCEPT !.flow = None]
    /\ UNCHANGED <<tabs, pending, Atomic>>

AnswerTo(t, ok) == pending' = [pending EXCEPT ![t].phase = "answered", ![t].ok = ok]

\* Faulty variant: any sign-in that is under way will do.
AnyFlow(r) == r.flow # None
FlowMatches(r) == r.flow # None /\ r.state = r.flow

AuthCallback(t) ==
    LET r == pending[t] IN
    /\ r.kind = "callback" /\ r.phase = "sent"
    /\ IF FlowMatches(r)
       THEN /\ Len(sessions) < MaxSessions
            /\ misspent' = (misspent \/ r.state # r.flow)
            /\ \/ /\ r.state = r.flow
                  /\ sessions' = Append(sessions, r.user)
                  /\ live' = live \cup {Len(sessions')}
                  /\ pending' = [pending EXCEPT ![t].phase = "answered", ![t].ok = TRUE,
                                                ![t].token = Len(sessions')]
               \/ AnswerTo(t, FALSE) /\ UNCHANGED <<sessions, live>>
       ELSE AnswerTo(t, FALSE) /\ UNCHANGED <<sessions, live, misspent>>
    /\ UNCHANGED <<browser, tabs, renewal, signIns, acted>>

(* The other requests *)
\* Faulty variant: the token of the page is not compared.
AnyPage(r) == TRUE
\* The token the page was given belongs to the session of the cookie.
Csrf(r) == r.csrf = r.token

\* The centre says whom the cookie stands for.
Introspect(t) ==
    LET r == pending[t] IN
    /\ r.kind \in {"session", "logout", "renew", "write"} /\ r.phase = "sent"
    /\ IF r.token \notin live THEN AnswerTo(t, FALSE)
       ELSE IF r.kind = "session" THEN AnswerTo(t, TRUE)
       ELSE IF Csrf(r) THEN pending' = [pending EXCEPT ![t].phase = "checked"]
       ELSE AnswerTo(t, FALSE)
    /\ UNCHANGED <<browser, tabs, Atomic>>

Done(t) == acted' = acted \cup {<<tabs[t].user, UserOf(pending[t].token)>>}

Logout(t) ==
    /\ pending[t].kind = "logout" /\ pending[t].phase = "checked"
    /\ live' = live \ {pending[t].token} /\ Done(t) /\ AnswerTo(t, TRUE)
    /\ UNCHANGED <<browser, tabs, sessions, renewal, signIns, misspent>>

\* Any other change: of the user's applications, notifications or services.
Write(t) ==
    /\ pending[t].kind = "write" /\ pending[t].phase = "checked"
    /\ Done(t) /\ AnswerTo(t, TRUE)
    /\ UNCHANGED <<browser, tabs, sessions, live, renewal, signIns, misspent>>

\* Faulty variant: whoever comes joins the renewal under way.
OneKey(token) == None
RenewalKey(token) == token

\* A renewal under way for the same token is joined.
Renew(t) ==
    LET r == pending[t]  key == RenewalKey(r.token) IN
    /\ r.kind = "renew" /\ r.phase = "checked"
    /\ renewal' = IF renewal[key] = None THEN [renewal EXCEPT ![key] = r.token] ELSE renewal
    /\ pending' = [pending EXCEPT ![t].phase = "renewing"]
    /\ UNCHANGED <<browser, tabs, sessions, live, signIns, misspent, acted>>

JoinedUnder(key) == {t \in Tab : pending[t].phase = "renewing" /\ RenewalKey(pending[t].token) = key}
Renewed(key) ==
    LET token == renewal[key] IN
    /\ token # None /\ renewal' = [renewal EXCEPT ![key] = None]
    /\ \E ok \in BOOLEAN :
          /\ ok => token \in live
          /\ pending' = [t \in Tab |->
                IF t \in JoinedUnder(key)
                THEN [pending[t] EXCEPT !.phase = "answered", !.ok = ok, !.state = token]
                ELSE pending[t]]
    /\ UNCHANGED <<browser, tabs, sessions, live, signIns, misspent, acted>>

(* What an answer sets when it arrives. *)
Arrives(t) ==
    LET r == pending[t] IN
    /\ r.phase = "answered"
    /\ pending' = [pending EXCEPT ![t] = NothingAsked]
    /\ browser' =
          CASE r.kind = "callback"      -> [flow |-> None,
                                            token |-> IF r.ok THEN r.token ELSE browser.token]
            [] r.kind = "logout" /\ r.ok -> [browser EXCEPT !.token = None]
            [] r.kind = "renew" /\ r.ok  -> [browser EXCEPT !.token = r.state]
            [] OTHER                    -> browser
    /\ tabs' = IF r.kind = "session"
              THEN [tabs EXCEPT ![t].user = IF r.ok THEN UserOf(r.token) ELSE Nobody,
                               ![t].csrf = IF r.ok THEN r.token ELSE None]
              ELSE IF r.kind \in {"callback", "logout"} /\ r.ok
              THEN [tabs EXCEPT ![t].user = Nobody, ![t].csrf = None] ELSE tabs
    /\ UNCHANGED Atomic

SessionNext ==
    \/ FlowExpires
    \/ \E t \in Tab :
          \/ LoadSession(t) \/ Change(t) \/ AuthStart(t) \/ Authorize(t) \/ AuthCallback(t)
          \/ Introspect(t) \/ Logout(t) \/ Write(t) \/ Renew(t) \/ Arrives(t)
    \/ \E key \in {None} \cup Session : Renewed(key)

SessionSpec == SessionInit /\ [][SessionNext]_sessionVars

SessionTypeOK ==
    /\ browser.flow \in 0..MaxSignIns /\ browser.token \in 0..MaxSessions
    /\ \A t \in Tab : tabs[t].user \in User \cup {Nobody} /\ tabs[t].csrf \in 0..MaxSessions
    /\ \A t \in Tab : pending[t].phase \in {"none", "sent", "checked", "renewing", "answered"}
    /\ live \subseteq 1..Len(sessions) /\ misspent \in BOOLEAN

\* A tab acts for the user it shows: whatever another tab has signed in to meanwhile
\* and in whatever order the answers set the cookies, a change is either made for the
\* user on the page or refused.
ActsAsShown == \A p \in acted : p[1] = p[2]

\* Sign-ins begun in several tabs share one cookie: at most they fail. A code is never
\* presented with the verifier of another page, which would spend it in vain.
NoCodeMisspent == ~misspent

\* Renewals that are joined give every tab its own token back.
RenewalKeepsToken ==
    \A t \in Tab : pending[t].kind = "renew" /\ pending[t].phase = "answered" /\ pending[t].ok =>
        pending[t].state = pending[t].token

\* The tabs of a browser share its cookies and never each other's user, code or token.
TabsHold == ActsAsShown /\ NoCodeMisspent /\ RenewalKeepsToken

-----------------------------------------------------------------------------
(* The preferences of the desktop, mg-desktop-one/apps/web/src/App.vue and the   *)
(* route of the desktop server: one tab of a browser in which accounts change,   *)
(* its copy in local storage, and the file the server keeps for every account.   *)
(* A choice is shown and cached at once and sent when the server can be reached.  *)
(* A call the tab has given up has been served by then, or never will be.         *)
CONSTANTS
    Account,    \* accounts that use this browser
    MaxChoice   \* bound on the choices made

ASSUME PrefsAssumption == IsFiniteSet(Account)

VARIABLES
    cookie,     \* account signed in to in the browser
    tab,        \* [account, prefs, pending, version] of the page
    cache,      \* account -> [prefs, pending] in local storage
    stored,     \* account -> preferences on the server
    put,        \* the save under way, or NoPut
    get,        \* the reading under way, or NoRead
    latest      \* account -> its last choice

prefsVars == <<cookie, tab, cache, stored, put, get, latest>>

Preset == [by |-> "nobody", number |-> 0]
NoPut == [state |-> "none", account |-> "nobody", cookie |-> "nobody", prefs |-> Preset, version |-> 0]
NoRead == [state |-> "none", account |-> "nobody", cookie |-> "nobody", prefs |-> Preset]
Unset == [prefs |-> Preset, pending |-> FALSE]

PrefsInit ==
    /\ cookie \in Account
    /\ tab = [account |-> cookie, prefs |-> Preset, pending |-> FALSE, version |-> 0]
    /\ cache = [a \in Account |-> Unset]
    /\ stored = [a \in Account |-> Preset] /\ latest = stored
    /\ put = NoPut /\ get = NoRead

NextNumber == 1 + CHOOSE n \in {latest[a].number : a \in Account} :
                     \A a \in Account : latest[a].number <= n

\* The watch on the preferences: pending, a new version, cached.
Choose ==
    LET choice == [by |-> tab.account, number |-> NextNumber] IN
    /\ NextNumber <= MaxChoice
    /\ tab' = [tab EXCEPT !.prefs = choice, !.pending = TRUE, !.version = @ + 1]
    /\ cache' = [cache EXCEPT ![tab.account] = [prefs |-> choice, pending |-> TRUE]]
    /\ latest' = [latest EXCEPT ![tab.account] = choice]
    /\ UNCHANGED <<cookie, stored, put, get>>

\* syncPreferences: one save at a time, in the name of the account of the tab.
SendPut ==
    /\ tab.pending /\ put = NoPut
    /\ put' = [state |-> "sent", account |-> tab.account, cookie |-> cookie,
               prefs |-> tab.prefs, version |-> tab.version]
    /\ UNCHANGED <<cookie, tab, cache, stored, get, latest>>

\* Faulty variant: the account the page was loaded for is not compared.
AnyAccount(call) == TRUE
\* X-Desktop-Account is the account of the cookie the call carries.
SameAccount(call) == call.account = call.cookie

ServePut ==
    /\ put.state = "sent"
    /\ IF SameAccount(put)
       THEN /\ stored' = [stored EXCEPT ![put.cookie] = put.prefs]
            /\ put' = [put EXCEPT !.state = "stored"]
       ELSE put' = [put EXCEPT !.state = "changed"] /\ UNCHANGED stored
    /\ UNCHANGED <<cookie, tab, cache, get, latest>>

\* Faulty variant: a save that was answered settles whatever is pending.
SettledAnyway == tab.pending
\* Nothing was chosen since the save was sent.
Settled == put.version = tab.version

PutAnswered ==
    /\ put.state = "stored"
    /\ put' = NoPut
    /\ IF Settled
       THEN /\ tab' = [tab EXCEPT !.pending = FALSE]
            /\ cache' = [cache EXCEPT ![tab.account] = [prefs |-> tab.prefs, pending |-> FALSE]]
       ELSE UNCHANGED <<tab, cache>>
    /\ UNCHANGED <<cookie, stored, get, latest>>

\* No answer in time, or the line is down: the choice stays pending.
PutFails ==
    /\ put.state \in {"sent", "stored"}
    /\ put' = NoPut
    /\ UNCHANGED <<cookie, tab, cache, stored, get, latest>>

\* refreshPreferences reads when nothing is pending.
Read ==
    /\ ~tab.pending /\ get = NoRead
    /\ get' = [NoRead EXCEPT !.state = "sent", !.account = tab.account, !.cookie = cookie]
    /\ UNCHANGED <<cookie, tab, cache, stored, put, latest>>

ServeGet ==
    /\ get.state = "sent"
    /\ get' = IF SameAccount(get) THEN [get EXCEPT !.state = "read", !.prefs = stored[get.cookie]]
              ELSE [get EXCEPT !.state = "changed"]
    /\ UNCHANGED <<cookie, tab, cache, stored, put, latest>>

\* Faulty variant: what was read is taken over even if something was chosen meanwhile.
TakesAll == TRUE
TakesReading == ~tab.pending

GetAnswered ==
    /\ get.state = "read"
    /\ get' = NoRead
    /\ IF TakesReading
       THEN /\ tab' = [tab EXCEPT !.prefs = get.prefs]
            /\ cache' = [cache EXCEPT ![tab.account] = [prefs |-> get.prefs, pending |-> FALSE]]
       ELSE UNCHANGED <<tab, cache>>
    /\ UNCHANGED <<cookie, stored, put, latest>>

GetFails ==
    /\ get.state \in {"sent", "read"}
    /\ get' = NoRead
    /\ UNCHANGED <<cookie, tab, cache, stored, put, latest>>

\* The page is loaded: the account of the cookie, with what local storage has of it. A
\* call under way ends as one that was given up.
LoadPage ==
    /\ tab' = [account |-> cookie, prefs |-> cache[cookie].prefs,
               pending |-> cache[cookie].pending, version |-> 0]
    /\ put' = NoPut /\ get' = NoRead
    /\ UNCHANGED <<cookie, cache, stored, latest>>

\* ACCOUNT_CHANGED, or the session that is checked is another account's: the page reloads.
AccountChanged ==
    /\ put.state = "changed" \/ get.state = "changed" \/ cookie # tab.account
    /\ LoadPage

\* Another tab signs in to another account.
SignInElsewhere(a) ==
    /\ a # cookie /\ cookie' = a
    /\ UNCHANGED <<tab, cache, stored, put, get, latest>>

PrefsNext ==
    \/ Choose \/ SendPut \/ ServePut \/ PutAnswered \/ PutFails
    \/ Read \/ ServeGet \/ GetAnswered \/ GetFails
    \/ LoadPage \/ AccountChanged \/ \E a \in Account : SignInElsewhere(a)

PrefsSpec == PrefsInit /\ [][PrefsNext]_prefsVars

Preference == [by : Account \cup {"nobody"}, number : 0..MaxChoice]
PrefsTypeOK ==
    /\ cookie \in Account
    /\ tab \in [account : Account, prefs : Preference, pending : BOOLEAN, version : 0..MaxChoice]
    /\ cache \in [Account -> [prefs : Preference, pending : BOOLEAN]]
    /\ stored \in [Account -> Preference] /\ latest \in [Account -> Preference]
    /\ put.state \in {"none", "sent", "stored", "changed"} /\ put.prefs \in Preference
    /\ get.state \in {"none", "sent", "read", "changed"} /\ get.prefs \in Preference

\* A page loaded for one account never stores its preferences as another's, nor shows
\* those of another, whoever has signed in in another tab meanwhile.
OwnPreferencesOnly ==
    /\ \A a \in Account : stored[a].by \in {a, "nobody"} /\ cache[a].prefs.by \in {a, "nobody"}
    /\ tab.prefs.by \in {tab.account, "nobody"}

\* What is not marked as pending any more is what the server has of the account, even
\* if it was chosen while an earlier choice was being saved.
StoredWhenSettled ==
    \A a \in Account : ~cache[a].pending => stored[a] = latest[a]

\* A choice that has not been stored is not replaced by what the server answers to a
\* reading that was asked for before.
ChoiceStays ==
    [][tab.pending /\ tab'.account = tab.account /\ tab'.prefs # tab.prefs
         => latest'[tab.account] = tab'.prefs]_prefsVars

-----------------------------------------------------------------------------
(* The windows of the desktop, mg-desktop-one/apps/web/src/App.vue, and the      *)
(* dialogs applications open through it (mg-platform/packages/frontend/           *)
(* desktop-sdk). A window with unsaved content is closed only after a question    *)
(* only one of which is up at a time; the question may be handed to the           *)
(* application, which answers a message when it likes. Windows are taken away     *)
(* unasked when their application is withdrawn, and loaded anew when it moves.    *)
(* "main" opens the dialogs: the dialog of a request is the window of that name.  *)
(* A window is not opened again.                                                  *)
CONSTANTS
    Dialog,            \* dialog requests of the page in "main"
    MaxDialogs,     \* dialogs open at once
    MaxPrompts,     \* bound on the questions
    MaxHandOvers    \* bound on the questions handed to an application

ASSUME ShellAssumption == IsFiniteSet(Dialog)

VARIABLES
    open,       \* windows on the desktop
    ready,      \* those whose page has announced itself
    unsaved,    \* those reported dirty or busy, gone ones included
    asking,     \* Dialog -> "new", "waiting", "answered" or "gone", as the page knows it
    opening,    \* requests on their way to the desktop
    results,    \* results on their way to the page
    prompt,     \* the question that is up, or NoPrompt; late: dialogs its closing has passed,
                \* or never met, that turned unsaved since
    prompts,    \* questions so far
    waiter,     \* window -> the handed question the desktop awaits an answer to
    handed,     \* questions handed over so far
    closing,    \* window -> the handed question its page is working on, or 0
    replies,    \* [window, id, allow] answers on their way
    agreed,     \* windows whose content was given up since they were last asked, for the
                \* closing under way
    lost        \* windows closed or reloaded with content nobody gave up

shellVars == <<open, ready, unsaved, asking, opening, results, prompt, prompts,
               waiter, handed, closing, replies, agreed, lost>>
dialogVars == <<asking, opening, results>>
handVars == <<waiter, handed, closing, replies>>

Windows == {"main", "other"} \cup Dialog
NoPrompt == [window |-> "none", number |-> 0, delegated |-> FALSE, goal |-> "none", rest |-> <<>>,
             late |-> {}]
NoWaiter == [id |-> 0, prompt |-> 0]

ShellInit ==
    /\ open = {"main", "other"} /\ ready = {} /\ unsaved = {}
    /\ asking = [r \in Dialog |-> "new"] /\ opening = {} /\ results = {}
    /\ prompt = NoPrompt /\ prompts = 0
    /\ waiter = [w \in Windows |-> NoWaiter] /\ handed = 0
    /\ closing = [w \in Windows |-> 0] /\ replies = {}
    /\ agreed = {} /\ lost = {}

Children(w) == IF w = "main" THEN open \cap Dialog ELSE {}

\* The bridge as a step has it before windows go.
Bridge == [prompt |-> prompt, agreed |-> agreed, waiter |-> waiter, replies |-> replies]

\* What goes with a set of windows: the page of "main" hears of its dialogs while it
\* is there; a question handed to a window that goes is shown again.
TakeAway(W, b) ==
    /\ open' = open \ W /\ ready' = ready \ W /\ agreed' = b.agreed \ W
    /\ results' = IF "main" \in open \ W THEN results \cup (W \cap open \cap Dialog) ELSE {}
    /\ waiter' = [w \in Windows |-> IF w \in W THEN NoWaiter ELSE b.waiter[w]]
    /\ closing' = [w \in Windows |-> IF w \in W THEN 0 ELSE closing[w]]
    /\ replies' = {r \in b.replies : r.window \notin W}
    /\ prompt' = IF \E w \in W : b.waiter[w] # NoWaiter /\ b.waiter[w].prompt = b.prompt.number
                 THEN [b.prompt EXCEPT !.delegated = FALSE] ELSE b.prompt
    /\ UNCHANGED asking

\* Faulty variant: the dialogs of a window stay behind.
RemoveAlone(w, b) == TakeAway({w}, b)
\* remove: the children of a window go with it.
RemoveWindow(w, b) == TakeAway({w} \cup Children(w), b)

\* The pages of windows are loaded anew: what they were doing is gone.
Reload(W, b) ==
    /\ ready' = ready \ W /\ agreed' = b.agreed
    /\ closing' = [w \in Windows |-> IF w \in W THEN 0 ELSE closing[w]]
    /\ replies' = {r \in b.replies : r.window \notin W}
    /\ asking' = IF "main" \notin W THEN asking
                  ELSE [r \in Dialog |-> IF asking[r] = "waiting" THEN "gone" ELSE asking[r]]
    /\ results' = IF "main" \in W THEN {} ELSE results
    /\ prompt' = b.prompt /\ waiter' = b.waiter
    /\ UNCHANGED open

\* What goes when the goal is reached: with a window that is closed the dialogs that are
\* there by now.
Going(goal, root) == {root} \cup IF goal = "close" THEN Children(root) ELSE {}

\* The window is closed, or reloaded.
Reached(goal, root, late, b) ==
    /\ lost' = lost \cup ((Going(goal, root) \cap unsaved \cap open) \ (b.agreed \cup late))
    /\ IF goal = "close" THEN RemoveWindow(root, b) ELSE Reload({root}, b)

\* Asks the windows of a queue in turn, those with unsaved content by a question, of
\* which one is up at a time; after the last one the goal is reached for it.
Proceed(queue, goal, late, b) ==
    LET asked == {i \in DOMAIN queue : queue[i] \in unsaved}
        i == Min(asked)
        root == Last(queue) IN
    \/ /\ asked # {} /\ b.prompt = NoPrompt /\ prompts < MaxPrompts
       /\ prompts' = prompts + 1
       /\ prompt' = [window |-> queue[i], number |-> prompts', delegated |-> FALSE, goal |-> goal,
                     rest |-> SubSeq(queue, i + 1, Len(queue)), late |-> late]
       /\ agreed' = b.agreed \ {queue[i]}
       /\ waiter' = b.waiter /\ replies' = b.replies
       /\ UNCHANGED <<open, ready, closing, results, asking, lost>>
    \/ /\ asked = {}
       /\ Reached(goal, root, late, b)
       /\ UNCHANGED prompts

\* Faulty variant: the dialogs of a window are not asked.
AskedAlone(w) == <<w>>
\* mayCloseFamily: the dialogs there are now, then the window.
Family(w) == Append(SetToSeq(Children(w)), w)

CloseWindow(w) ==
    /\ w \in open
    /\ IF prompt.window = w
       THEN /\ prompt' = [prompt EXCEPT !.delegated = FALSE]
            /\ UNCHANGED <<open, ready, prompts, waiter, closing, replies, agreed, lost, results, asking>>
       ELSE Proceed(Family(w), "close", {}, Bridge)
    /\ UNCHANGED <<unsaved, opening, handed>>

\* Trying again reloads the page.
RetryWindow(w) ==
    /\ w \in open
    /\ Proceed(<<w>>, "retry", {}, Bridge)
    /\ UNCHANGED <<unsaved, opening, handed>>

\* The user insists: the window goes, whatever is up.
ForceClose(w) ==
    /\ w \in open
    /\ RemoveWindow(w, Bridge)
    /\ UNCHANGED <<unsaved, opening, prompts, handed, lost>>

\* finishClose, and what the closing that asked does next. The last window of a queue is
\* the one to be closed, also when it is the one just asked.
FinishClose(allow, b) ==
    LET done == [b EXCEPT !.prompt = NoPrompt] IN
    \/ /\ allow /\ b.prompt.rest # <<>>
       /\ Proceed(b.prompt.rest, b.prompt.goal, b.prompt.late, done)
    \/ /\ allow /\ b.prompt.rest = <<>>
       /\ Reached(b.prompt.goal, b.prompt.window, b.prompt.late, done)
       /\ UNCHANGED prompts
    \/ /\ ~allow
       /\ prompt' = NoPrompt /\ agreed' = {} /\ waiter' = b.waiter /\ replies' = b.replies
       /\ UNCHANGED <<open, ready, prompts, closing, lost, results, asking>>

\* The user answers the question on the screen.
AnswerPrompt(allow) ==
    /\ prompt # NoPrompt /\ ~prompt.delegated
    /\ FinishClose(allow, [Bridge EXCEPT !.agreed = IF allow THEN @ \cup {prompt.window} ELSE @])
    /\ UNCHANGED <<unsaved, opening, handed>>

\* The user has the application deal with it; a page still at an earlier one refuses.
HandOver ==
    LET w == prompt.window
        n == handed + 1 IN
    /\ prompt # NoPrompt /\ ~prompt.delegated
    /\ w \in ready /\ waiter[w] = NoWaiter /\ handed < MaxHandOvers
    /\ handed' = n
    /\ prompt' = [prompt EXCEPT !.delegated = TRUE]
    /\ waiter' = [waiter EXCEPT ![w] = [id |-> n, prompt |-> prompt.number]]
    /\ closing' = [closing EXCEPT ![w] = IF @ = 0 THEN n ELSE @]
    /\ replies' = IF closing[w] = 0 THEN replies
                  ELSE replies \cup {[window |-> w, id |-> n, allow |-> FALSE]}
    /\ agreed' = agreed \ {w}
    /\ UNCHANGED <<open, ready, unsaved, dialogVars, prompts, lost>>

\* The window of the question is gone: there is nothing to hand over.
NobodyToHandTo ==
    /\ prompt # NoPrompt /\ ~prompt.delegated /\ prompt.window \notin open
    /\ prompt' = NoPrompt /\ agreed' = {}
    /\ UNCHANGED <<open, ready, unsaved, dialogVars, prompts, handVars, lost>>

\* The page has asked or saved, or wants to stay.
PageDecides(w, allow) ==
    /\ closing[w] # 0
    /\ closing' = [closing EXCEPT ![w] = 0]
    /\ replies' = replies \cup {[window |-> w, id |-> closing[w], allow |-> allow]}
    /\ agreed' = IF allow THEN agreed \cup {w} ELSE agreed
    /\ UNCHANGED <<open, ready, unsaved, dialogVars, prompt, prompts, waiter, handed, lost>>

\* Faulty variant: an answer counts for whichever question is up.
UpWhichever(n) == prompt # NoPrompt
\* handleCloseInApp goes on only if its question is still the one that is up.
StillUp(n) == prompt # NoPrompt /\ prompt.number = n

\* A handed question is answered: b has it taken from the waiters.
Resolved(n, allow, b) ==
    \/ /\ StillUp(n) /\ allow /\ FinishClose(TRUE, b)
    \/ /\ ~(StillUp(n) /\ allow)
       /\ prompt' = IF StillUp(n) THEN [prompt EXCEPT !.delegated = FALSE] ELSE prompt
       /\ waiter' = b.waiter /\ replies' = b.replies
       /\ UNCHANGED <<open, ready, prompts, closing, agreed, lost, results, asking>>

\* close-result; of a question nobody awaits any more it changes nothing.
CloseResult(r) ==
    LET left == [Bridge EXCEPT !.replies = @ \ {r}] IN
    /\ r \in replies
    /\ IF waiter[r.window].id = r.id
       THEN Resolved(waiter[r.window].prompt, r.allow, [left EXCEPT !.waiter[r.window] = NoWaiter])
       ELSE /\ replies' = left.replies
            /\ UNCHANGED <<open, ready, prompt, prompts, waiter, closing, agreed, lost, results, asking>>
    /\ UNCHANGED <<unsaved, opening, handed>>

\* The eight seconds are over.
CloseTimeout(w) ==
    /\ waiter[w] # NoWaiter
    /\ Resolved(waiter[w].prompt, FALSE, [Bridge EXCEPT !.waiter[w] = NoWaiter])
    /\ UNCHANGED <<unsaved, opening, handed>>

\* The page announces itself, with the state it is in.
PageReady(w) ==
    /\ w \in open \ ready
    /\ ready' = ready \cup {w} /\ unsaved' = unsaved \ {w}
    /\ UNCHANGED <<open, dialogVars, prompt, prompts, handVars, agreed, lost>>

\* The windows a closing has still to ask, the one being asked included.
Ahead(p) == {p.window} \cup {p.rest[i] : i \in DOMAIN p.rest}

\* The messages of a page arrive in their order. What is unsaved from now on, nobody has
\* given up yet.
DirtyChange(w) ==
    /\ w \in ready /\ \A r \in replies : r.window # w
    /\ IF w \in unsaved
       THEN unsaved' = unsaved \ {w} /\ UNCHANGED <<agreed, prompt>>
       ELSE /\ unsaved' = unsaved \cup {w} /\ agreed' = agreed \ {w}
            /\ prompt' = IF prompt = NoPrompt \/ w \notin Dialog \ Ahead(prompt) THEN prompt
                         ELSE [prompt EXCEPT !.late = @ \cup {w}]
    /\ UNCHANGED <<open, ready, dialogVars, prompts, handVars, lost>>

\* The page opens a dialog and awaits its result.
OpenDialog(r) ==
    /\ "main" \in ready /\ asking[r] = "new"
    /\ asking' = [asking EXCEPT ![r] = "waiting"]
    /\ opening' = opening \cup {r}
    /\ UNCHANGED <<open, ready, unsaved, results, prompt, prompts, handVars, agreed, lost>>

DialogsOpen == Cardinality(open \cap Dialog)
\* Faulty variant: a request that cannot be met is passed over.
PassedOver(r) == "main" \in open /\ UNCHANGED results
\* A request that cannot be met gets a result of its own.
DialogRefused(r) == "main" \in open /\ results' = results \cup {r}

\* The desktop opens the dialog, or refuses: it was not registered, or there are too many.
ReceiveOpen(r) ==
    /\ r \in opening
    /\ opening' = opening \ {r}
    /\ \/ /\ "main" \in open /\ DialogsOpen < MaxDialogs
          /\ open' = open \cup {r} /\ unsaved' = unsaved \ {r} /\ UNCHANGED results
       \/ DialogRefused(r) /\ UNCHANGED <<open, unsaved>>
       \/ "main" \notin open /\ UNCHANGED <<open, unsaved, results>>
    /\ UNCHANGED <<ready, asking, prompt, prompts, handVars, agreed, lost>>

\* dialog-complete, dialog-cancel: the page of the dialog is done.
DialogDone(r) ==
    /\ r \in ready
    /\ RemoveWindow(r, Bridge)
    /\ UNCHANGED <<unsaved, opening, prompts, handed, lost>>

DialogResult(r) ==
    /\ r \in results /\ results' = results \ {r}
    /\ asking' = [asking EXCEPT ![r] = IF @ = "waiting" THEN "answered" ELSE @]
    /\ UNCHANGED <<open, ready, unsaved, opening, prompt, prompts, handVars, agreed, lost>>

\* checkSession: an application is withdrawn, its windows are taken away.
Withdraw(w) ==
    /\ w \in open \ Dialog
    /\ RemoveWindow(w, Bridge)
    /\ UNCHANGED <<unsaved, opening, prompts, handed, lost>>

\* checkSession: the address of an application has changed, its windows and their dialogs
\* are loaded anew.
EntryMoves(w) ==
    /\ w \in open \ Dialog
    /\ Reload({w} \cup Children(w), Bridge)
    /\ UNCHANGED <<unsaved, opening, prompts, handed, lost>>

ShellNext ==
    \/ \E w \in Windows :
          \/ CloseWindow(w) \/ RetryWindow(w) \/ ForceClose(w) \/ Withdraw(w) \/ EntryMoves(w)
          \/ PageReady(w) \/ DirtyChange(w) \/ CloseTimeout(w)
    \/ \E w \in Windows, allow \in BOOLEAN : PageDecides(w, allow)
    \/ \E allow \in BOOLEAN : AnswerPrompt(allow)
    \/ HandOver \/ NobodyToHandTo
    \/ \E r \in replies : CloseResult(r)
    \/ \E r \in Dialog : OpenDialog(r) \/ ReceiveOpen(r) \/ DialogDone(r) \/ DialogResult(r)

ShellSpec == ShellInit /\ [][ShellNext]_shellVars

ShellTypeOK ==
    /\ open \subseteq Windows /\ ready \subseteq open /\ unsaved \subseteq Windows
    /\ asking \in [Dialog -> {"new", "waiting", "answered", "gone"}]
    /\ opening \subseteq Dialog /\ results \subseteq Dialog
    /\ prompt.window \in Windows \cup {"none"} /\ prompt.number \in 0..prompts
    /\ prompts \in 0..MaxPrompts /\ handed \in 0..MaxHandOvers
    /\ closing \in [Windows -> 0..handed]
    /\ \A w \in Windows : waiter[w].id \in 0..handed /\ waiter[w].prompt \in 0..prompts
    /\ prompt.late \subseteq Dialog /\ agreed \subseteq Windows /\ lost \subseteq Windows

\* A window is closed or reloaded with unsaved content, and a dialog goes with the window
\* that opened it, only if the user, or the application the question was handed to, has
\* given that content up since the window was asked: an answer that arrives late, when
\* the user has decided otherwise or is asked about another window, closes nothing.
\* A window is asked once in a closing: a dialog that turned unsaved after it was asked or
\* passed over as clean, or was opened meanwhile, goes unasked (App.vue:277-287; a handed
\* question leaves the desktop usable, :536). Such late dialogs are left out, and so is
\* what is not asked for at all: the windows, with their dialogs, of an application
\* withdrawn or moved (:387-388) and those of a window the user forces to close (:289).
NothingLostUnasked == lost = {}

\* A page that waits for the result of a dialog gets one: the request or the result is
\* on its way, or the dialog is there, whatever closes or is withdrawn meanwhile.
DialogsAnswered ==
    "main" \in open =>
        \A r \in Dialog : asking[r] = "waiting" => r \in opening \cup open \cup results

\* A dialog is never left on the desktop without the window that opened it.
NoOrphans == open \cap Dialog # {} => "main" \in open

\* Windows and dialogs go only with the word of their application, and together.
WindowsHold == NothingLostUnasked /\ DialogsAnswered /\ NoOrphans

-----------------------------------------------------------------------------
(* The three together: they share no variable.                             *)
DesktopSpec == SessionSpec /\ PrefsSpec /\ ShellSpec

\* The desktop a person works in: its session in several tabs, its preferences, which
\* no late reading puts back, and its windows.
DesktopHolds ==
    [](TabsHold /\ WindowsHold /\ OwnPreferencesOnly /\ StoredWhenSettled) /\ ChoiceStays
=============================================================================
