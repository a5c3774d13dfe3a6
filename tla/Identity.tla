------------------------------- MODULE Identity -------------------------------
(* The identity centre: the sessions of one account, and the tokens it gives out. *)
EXTENDS Naturals

-----------------------------------------------------------------------------
(***************************************************************************)
(* The sessions of one account at the identity centre and what is asked    *)
(* before one is opened or the account changed: first and second factors,  *)
(* grants, the version that every change of the account's security raises. *)
(* A transaction locks the user row (a WeCom one the advisory lock 741027) *)
(* and is one step; between them are the pages, the codes, the WeCom       *)
(* servers and the administrators.                                         *)
(***************************************************************************)
CONSTANTS
    Session,    \* places for sessions
    Factor,     \* second factors that can be bound
    MaxVersion  \* securityVersion

ASSUME SecurityAssumption == MaxVersion \in Nat

VARIABLES
    account,   \* the rows User, TotpCredential, VerifiedEmail, SecurityKey, WeComIdentity
    session,   \* AuthSession
    challenge, \* the unused AuthChallenge of purpose mfa or setup
    grant,     \* of each session: the unused manage_security or bind_* challenge
    scan,      \* WeComAuthService.complete between the servers of WeCom and the transaction
    carrier    \* history: the session that made the last change, and kept itself in

SecurityVars == <<account, session, challenge, grant, scan, carrier>>

Nobody == "nobody"
Second == Factor \cup {"none", "recovery"}
Version == 0..MaxVersion
Ended == [live |-> FALSE, version |-> 0, first |-> "local", second |-> "none", proof |-> 0]
NoPending == [purpose |-> "none", version |-> 0, first |-> "local", second |-> "none"]
NoGrant == [purpose |-> "none", version |-> 0]

SecurityTypeOK ==
    /\ account \in [active : BOOLEAN, version : Version, password : BOOLEAN, wecom : BOOLEAN,
                    mfa : BOOLEAN, methods : SUBSET Factor, bound : SUBSET Factor]
    /\ session \in [Session -> [live : BOOLEAN, version : Version, first : {"local", "wecom"},
                                second : Second, proof : Version]]
    /\ challenge \in [purpose : {"none", "mfa", "setup"}, version : Version,
                      first : {"local", "wecom"}, second : Second]
    /\ grant \in [Session -> [purpose : {"none", "manage"} \cup Factor, version : Version]]
    /\ scan \in BOOLEAN
    /\ carrier \in Session \cup {Nobody}

\* An account comes from an administrator, with a password, or from the directory
\* of WeCom, without.
SecurityInit ==
    /\ \E local \in BOOLEAN :
         account = [active |-> TRUE, version |-> 0, password |-> local, wecom |-> ~local,
                    mfa |-> FALSE, methods |-> {}, bound |-> {}]
    /\ session = [s \in Session |-> Ended]
    /\ challenge = NoPending
    /\ grant = [s \in Session |-> NoGrant]
    /\ scan = FALSE
    /\ carrier = Nobody

-----------------------------------------------------------------------------
\* authenticateToken, and the same tests wherever a session is asked for.
Usable(s) ==
    /\ session[s].live /\ session[s].version = account.version
    /\ account.active /\ account.password

\* A revoked session is never looked at again: its other fields are let go.
Revoked(keep) == [s \in Session |-> IF s \in keep THEN session[s] ELSE Ended]

\* Faulty variant: a challenge is good for its five minutes, whatever happens.
ValidUntilItExpires(c) == c.purpose # "none" /\ account.active

\* pending: of the account as it is now.
Valid(c) == c.purpose # "none" /\ account.active /\ c.version = account.version

\* issueSession, at the version given, for a first factor seen at version proof.
Issue(s, version, first, second, proof) ==
    [live |-> TRUE, version |-> version, first |-> first, second |-> second, proof |-> proof]

\* beginAuthentication: with the second factor on and not shown, or the account not
\* set up, a challenge takes the place of the one before; else a session.
BeginSession(first, second, proof) ==
    IF (account.mfa /\ second = "none") \/ ~account.password
    THEN /\ challenge' = [purpose |-> IF account.mfa /\ second = "none" THEN "mfa" ELSE "setup",
                          version |-> account.version, first |-> first, second |-> second]
         /\ UNCHANGED session
    ELSE \E s \in Session :
            /\ ~session[s].live
            /\ session' = [session EXCEPT ![s] = Issue(s, account.version, first, second, proof)]
            /\ challenge' = IF second = "none" THEN challenge ELSE NoPending

Login ==
    /\ account.active /\ account.password
    /\ BeginSession("local", "none", account.version)
    /\ UNCHANGED <<account, grant, scan, carrier>>

\* complete: the state is claimed, the member looked up at WeCom and here.
Scan ==
    /\ ~scan /\ account.wecom /\ account.active
    /\ scan' = TRUE
    /\ UNCHANGED <<account, session, challenge, grant, carrier>>

\* Faulty variant: what was read before the avatar was fetched still holds.
ScannedOnce ==
    /\ scan /\ scan' = FALSE
    /\ IF account.active
       THEN BeginSession("wecom", "none", account.version)
       ELSE UNCHANGED <<session, challenge>>
    /\ UNCHANGED <<account, grant, carrier>>

\* Under the lock the revocation, the binding and the user are read again.
Scanned ==
    /\ scan /\ scan' = FALSE
    /\ IF account.wecom /\ account.active
       THEN BeginSession("wecom", "none", account.version)
       ELSE UNCHANGED <<session, challenge>>
    /\ UNCHANGED <<account, grant, carrier>>

CompleteMfa(m) ==
    /\ challenge.purpose = "mfa" /\ Valid(challenge)
    /\ m \in account.methods \cup {"recovery"}
    /\ BeginSession(challenge.first, m, challenge.version)
    /\ UNCHANGED <<account, grant, scan, carrier>>

\* completeSetup: the first password, a new version, nothing else stays in.
CompleteSetup(s) ==
    /\ challenge.purpose = "setup" /\ Valid(challenge)
    /\ ~account.password /\ (account.mfa => challenge.second # "none")
    /\ account.version < MaxVersion
    /\ account' = [account EXCEPT !.password = TRUE, !.version = @ + 1]
    /\ session' = [Revoked({}) EXCEPT ![s] =
                     Issue(s, account.version + 1, challenge.first, challenge.second, challenge.version)]
    /\ challenge' = NoPending
    /\ grant' = [t \in Session |-> NoGrant]
    /\ carrier' = s
    /\ UNCHANGED scan

\* A challenge or a grant expires; a session does, or is logged out.
Expire ==
    /\ \/ challenge' = NoPending /\ UNCHANGED <<session, grant>>
       \/ \E s \in Session : grant' = [grant EXCEPT ![s] = NoGrant] /\ UNCHANGED <<session, challenge>>
       \/ \E s \in Session : session' = Revoked(Session \ {s}) /\ UNCHANGED <<challenge, grant>>
    /\ UNCHANGED <<account, scan, carrier>>

-----------------------------------------------------------------------------
\* authorize: the password, and a second factor when they are on (or the session
\* was just opened with a recovery code).
Authorize(s) ==
    /\ Usable(s)
    /\ grant' = [grant EXCEPT ![s] = [purpose |-> "manage", version |-> account.version]]
    /\ UNCHANGED <<account, session, challenge, scan, carrier>>

\* withGrant: the session and the grant as they are now, the grant is used up; what
\* throws afterwards takes that back.
Granted(s, purpose) ==
    /\ Usable(s)
    /\ grant[s].purpose = purpose /\ grant[s].version = account.version

StartBinding(s, m) ==
    /\ Granted(s, "manage") /\ m \notin account.bound
    /\ grant' = [grant EXCEPT ![s] = [purpose |-> m, version |-> account.version]]
    /\ UNCHANGED <<account, session, challenge, scan, carrier>>

\* Faulty variant: only the session at hand is brought to the new version.
ChangedInPlace(s, new) ==
    /\ account.version < MaxVersion
    /\ account' = [new EXCEPT !.version = @ + 1]
    /\ challenge' = NoPending
    /\ grant' = [t \in Session |-> NoGrant]
    /\ session' = [t \in Session |-> [session[t] EXCEPT !.version = account.version + 1]]
    /\ carrier' = s
    /\ UNCHANGED scan

\* changed: a new version, every challenge and grant used, every other session
\* revoked, this one carried along.
Changed(s, new) ==
    /\ account.version < MaxVersion
    /\ account' = [new EXCEPT !.version = @ + 1]
    /\ challenge' = NoPending
    /\ grant' = [t \in Session |-> NoGrant]
    /\ session' = [Revoked({s}) EXCEPT ![s].version = account.version + 1]
    /\ carrier' = s
    /\ UNCHANGED scan

\* confirmTotp, confirmEmail, confirmKey: a wrong answer uses the grant up as well.
ConfirmBinding(s, m) ==
    /\ Granted(s, m)
    /\ \/ Changed(s, [account EXCEPT !.bound = @ \cup {m}])
       \/ /\ grant' = [grant EXCEPT ![s] = NoGrant]
          /\ UNCHANGED <<account, session, challenge, scan, carrier>>

SetMfa(s, methods) ==
    /\ Granted(s, "manage")
    /\ methods \subseteq account.bound
    /\ Changed(s, [account EXCEPT !.mfa = methods # {}, !.methods = methods])

\* Faulty variant: removing a factor does not look at what it is used for.
UnbindBlindly(s, m) ==
    /\ Granted(s, "manage")
    /\ Changed(s, [account EXCEPT !.bound = @ \ {m}])

\* removeTotp, removeEmail, and removeKey of the last key.
Unbind(s, m) ==
    /\ Granted(s, "manage")
    /\ ~(account.mfa /\ m \in account.methods)
    /\ Changed(s, [account EXCEPT !.bound = @ \ {m}])

\* changePassword: needs a session that has shown a second factor that is on, and
\* leaves the challenges to their version.
ChangePassword(s) ==
    /\ Usable(s)
    /\ account.mfa => session[s].second \in account.methods \cup {"recovery"}
    /\ account.version < MaxVersion
    /\ account' = [account EXCEPT !.version = @ + 1]
    /\ session' = [Revoked({s}) EXCEPT ![s].version = account.version + 1]
    /\ carrier' = s
    /\ UNCHANGED <<challenge, grant, scan>>

-----------------------------------------------------------------------------
\* resetPassword by an administrator: version and sessions in one transaction.
ResetPassword ==
    /\ account.version < MaxVersion
    /\ account' = [account EXCEPT !.version = @ + 1, !.password = TRUE]
    /\ session' = Revoked({})
    /\ carrier' = Nobody
    /\ UNCHANGED <<challenge, grant, scan>>

\* Faulty variant: the status is enough to keep the sessions out.
SetStatusOnly ==
    /\ account' = [account EXCEPT !.active = ~@]
    /\ UNCHANGED <<session, challenge, grant, scan, carrier>>

\* updateUser: switching off revokes the sessions, the version stays.
SetStatus ==
    /\ account' = [account EXCEPT !.active = ~@]
    /\ session' = IF account.active THEN Revoked({}) ELSE session
    /\ UNCHANGED <<challenge, grant, scan, carrier>>

BindWeCom ==
    /\ ~account.wecom /\ account' = [account EXCEPT !.wecom = TRUE]
    /\ UNCHANGED <<session, challenge, grant, scan, carrier>>

UnbindWeCom ==
    /\ account.wecom /\ account.version < MaxVersion
    /\ account' = [account EXCEPT !.wecom = FALSE, !.version = @ + 1]
    /\ session' = Revoked({})
    /\ carrier' = Nobody
    /\ UNCHANGED <<challenge, grant, scan>>

SecurityNext ==
    \/ Login \/ Scan \/ Scanned
    \/ \E m \in Factor \cup {"recovery"} : CompleteMfa(m)
    \/ \E s \in Session :
          \/ CompleteSetup(s) \/ Authorize(s) \/ ChangePassword(s)
          \/ \E m \in Factor : StartBinding(s, m) \/ ConfirmBinding(s, m) \/ Unbind(s, m)
          \/ \E methods \in SUBSET Factor : SetMfa(s, methods)
    \/ ResetPassword \/ SetStatus \/ BindWeCom \/ UnbindWeCom
    \/ Expire

SecuritySpec == SecurityInit /\ [][SecurityNext]_SecurityVars

-----------------------------------------------------------------------------
\* With the second factor on there is one, and it can be shown: a factor in use is
\* never unbound, whatever two sessions with grants do to the same account.
FactorsStayBound == account.mfa => account.methods # {} /\ account.methods \subseteq account.bound

\* With the second factor on, every session that works has shown one that is on, or
\* a recovery code, unless it made the last change itself.
StrongSessions ==
    \A s \in Session :
        Usable(s) /\ account.mfa =>
            session[s].second \in account.methods \cup {"recovery"} \/ s = carrier

\* No session works on a first factor seen before the last change of the account's
\* security, with whatever challenge it was completed; only the session that made
\* the change goes on.
NoStaleProof ==
    \A s \in Session : Usable(s) /\ s # carrier => session[s].proof = account.version

\* No session opened through WeCom works once that identity is unbound, also
\* when its member was being looked up at the time.
UnboundIsOut ==
    \A s \in Session : Usable(s) /\ session[s].first = "wecom" => account.wecom

\* A session that stopped working never works again: switching the account off and
\* on again brings none back.
StaysOut == [][\A s \in Session : session[s].live /\ ~Usable(s) => ~Usable(s)']_SecurityVars

\* An account that requires a factor has one and is entered with it: by nobody with a
\* proof from before a change, nobody who was unbound, nobody switched off.
FactorsHold ==
    []FactorsStayBound /\ []StrongSessions /\ []NoStaleProof /\ []UnboundIsOut /\ StaysOut

-----------------------------------------------------------------------------
(* The tokens of the identity centre: the machine token the kernel asks with, *)
(* and the unified token a sign-in is exchanged for.                        *)
-----------------------------------------------------------------------------
(***************************************************************************)
(* The kernel speaks to the identity centre with a machine token, fetched  *)
(* when it is needed, held for a minute and dropped when it is refused.    *)
(* Calls overlap; the centre may forget the tokens it gave out.            *)
(***************************************************************************)
CONSTANTS
    Caller,     \* calls of IdentityClient.request
    MaxToken,    \* machine tokens given out, 1..MaxToken
    MaxRotation  \* how often the centre forgets

ASSUME MachineAssumption == MaxToken \in Nat /\ MaxRotation \in Nat /\ "free" \notin Caller

VARIABLES
    given,    \* the tokens the centre gave out, the last one
    accepted, \* those it still knows
    rotation, \* how often it forgot them
    machine,  \* IdentityClient.machineToken, NoToken for null
    monitor,  \* who is in the synchronized part of serviceToken, or Free
    asking,   \* a call: [phase, token, attempt, since: the rotation it started in]
    gaveUp    \* history: a call was refused twice though nothing was forgotten meanwhile

MachineVars == <<given, accepted, rotation, machine, monitor, asking, gaveUp>>

NoToken == 0
NoAsking == [phase |-> "idle", token |-> NoToken, attempt |-> 0, since |-> 0]
Free == "free"

MachineTypeOK ==
    /\ given \in 0..MaxToken
    /\ accepted \subseteq 1..given
    /\ rotation \in 0..MaxRotation
    /\ machine \in 0..given
    /\ monitor \in Caller \cup {Free}
    /\ asking \in [Caller -> [phase : {"idle", "token", "minting", "minted", "sent", "refused"},
                              token : 0..given, attempt : {0, 1}, since : 0..MaxRotation]]
    /\ gaveUp \in BOOLEAN

MachineInit ==
    /\ given = 0 /\ accepted = {} /\ rotation = 0
    /\ machine = NoToken /\ monitor = Free
    /\ asking = [c \in Caller |-> NoAsking]
    /\ gaveUp = FALSE

Ask(c) ==
    /\ asking[c].phase = "idle"
    /\ asking' = [asking EXCEPT ![c] = [NoAsking EXCEPT !.phase = "token", !.since = rotation]]
    /\ UNCHANGED <<given, accepted, rotation, machine, monitor, gaveUp>>

\* serviceToken: the one that is held, or a new one, asked for inside the monitor.
ServiceToken(c) ==
    /\ asking[c].phase = "token" /\ monitor = Free
    /\ IF machine # NoToken
       THEN /\ asking' = [asking EXCEPT ![c].phase = "sent", ![c].token = machine]
            /\ UNCHANGED monitor
       ELSE /\ asking' = [asking EXCEPT ![c].phase = "minting"]
            /\ monitor' = c
    /\ UNCHANGED <<given, accepted, rotation, machine, gaveUp>>

Mint(c) ==
    /\ asking[c].phase = "minting" /\ given < MaxToken
    /\ given' = given + 1
    /\ accepted' = accepted \cup {given + 1}
    /\ asking' = [asking EXCEPT ![c].phase = "minted", ![c].token = given + 1]
    /\ UNCHANGED <<rotation, machine, monitor, gaveUp>>

\* The answer arrives, or does not: 503 for this call.
Minted(c) ==
    /\ asking[c].phase = "minted"
    /\ monitor' = Free
    /\ \/ machine' = asking[c].token /\ asking' = [asking EXCEPT ![c].phase = "sent"]
       \/ asking' = [asking EXCEPT ![c] = NoAsking] /\ UNCHANGED machine
    /\ UNCHANGED <<given, accepted, rotation, gaveUp>>

\* The centre answers; only the first 401 is taken for a token it has forgotten.
Answer(c) ==
    LET good == asking[c].token \in accepted
    IN /\ asking[c].phase = "sent"
       /\ asking' = [asking EXCEPT ![c] =
                       IF ~good /\ @.attempt = 0 THEN [@ EXCEPT !.phase = "refused"] ELSE NoAsking]
       /\ gaveUp' = (gaveUp \/ (~good /\ asking[c].attempt = 1 /\ asking[c].since = rotation))
       /\ UNCHANGED <<given, accepted, rotation, machine, monitor>>

\* Faulty variant: a refused token is held until it expires.
DropTokenOnExpiryOnly(c) ==
    /\ asking[c].phase = "refused" /\ monitor = Free
    /\ asking' = [asking EXCEPT ![c].phase = "token", ![c].attempt = 1]
    /\ UNCHANGED <<given, accepted, rotation, machine, monitor, gaveUp>>

\* The token is dropped if it is still the one held; another call may have
\* fetched the next one already.
DropToken(c) ==
    /\ asking[c].phase = "refused" /\ monitor = Free
    /\ machine' = IF machine = asking[c].token THEN NoToken ELSE machine
    /\ asking' = [asking EXCEPT ![c].phase = "token", ![c].attempt = 1]
    /\ UNCHANGED <<given, accepted, rotation, monitor, gaveUp>>

MachineExpires ==
    /\ machine # NoToken /\ machine' = NoToken
    /\ UNCHANGED <<given, accepted, rotation, monitor, asking, gaveUp>>

Rotate ==
    /\ rotation < MaxRotation /\ rotation' = rotation + 1
    /\ accepted' = {}
    /\ UNCHANGED <<given, machine, monitor, asking, gaveUp>>

MachineNext ==
    \/ \E c \in Caller :
          Ask(c) \/ ServiceToken(c) \/ Mint(c) \/ Minted(c) \/ Answer(c) \/ DropToken(c)
    \/ MachineExpires \/ Rotate

MachineSpec == MachineInit /\ [][MachineNext]_MachineVars

\* A call that starts after the centre forgot its machine tokens gets through at the
\* second attempt, whatever the other calls fetch and drop at the same time.  (One
\* that was under way may not: it can be handed a token fetched before.)
RestartIsMadeGood == ~gaveUp

-----------------------------------------------------------------------------
(***************************************************************************)
(* The one token of a sign-in: the identity centre hands the desktop a     *)
(* code, the desktop exchanges it for the token of the centre's session,   *)
(* renews that and revokes it.  One session, one code; the calls overlap   *)
(* and every statement on the shared database is a step.                   *)
(***************************************************************************)
CONSTANTS
    Renewer,   \* calls of renew under way
    Redeemer,  \* calls of exchange with the one code
    TTL,       \* SESSION_TTL_HOURS
    MaxAge,    \* UNIFIED_SESSION_MAX_HOURS, of a session created at 0
    LastHour

ASSUME TokenFlowAssumption == TTL \in Nat /\ MaxAge \in Nat /\ LastHour \in Nat

VARIABLES
    login,    \* AuthSession: [revoked, expires]
    access,   \* applicationAccess of the user to the desktop
    loginCode,     \* OidcRecord UnifiedCode: [state, until]
    redeem,   \* where a call of exchange is
    handed,   \* history: how often a token was handed out for the code
    renewal,  \* a call of renew: [phase, until: the expiry it worked out]
    revoking, \* a call of revoke has found the session active
    hour

TokenFlowVars == <<login, access, loginCode, redeem, handed, renewal, revoking, hour>>

NoRenewal == [phase |-> "idle", until |-> 0]
Hours == 0..(LastHour + MaxAge)
Least(a, b) == IF a < b THEN a ELSE b

TokenFlowTypeOK ==
    /\ login \in [revoked : BOOLEAN, expires : Hours]
    /\ access \in BOOLEAN
    /\ loginCode \in [state : {"none", "open", "used"}, until : Hours]
    /\ redeem \in [Redeemer -> {"idle", "looked", "claimed"}]
    /\ handed \in Nat
    /\ renewal \in [Renewer -> [phase : {"idle", "inspected", "computed", "updated"}, until : Hours]]
    /\ revoking \in BOOLEAN
    /\ hour \in 0..LastHour

TokenFlowInit ==
    /\ login = [revoked |-> FALSE, expires |-> Least(TTL, MaxAge)]
    /\ access = TRUE
    /\ loginCode = [state |-> "none", until |-> 0]
    /\ redeem = [a \in Redeemer |-> "idle"]
    /\ handed = 0
    /\ renewal = [r \in Renewer |-> NoRenewal]
    /\ revoking = FALSE
    /\ hour = 0

-----------------------------------------------------------------------------
\* inspect: the session is in force and the user may use the desktop.
Inspected == ~login.revoked /\ login.expires > hour /\ access

\* authorize and issueCode: a code for the browser's session, good for a minute (here
\* until the hour ends).
IssueCode ==
    /\ loginCode.state = "none" /\ Inspected
    /\ loginCode' = [state |-> "open", until |-> hour + 1]
    /\ UNCHANGED <<login, access, redeem, handed, renewal, revoking, hour>>

CodeGood == loginCode.state = "open" /\ loginCode.until > hour

\* exchange: the code is looked at; client, address and verifier are its own.
LookAtCode(a) ==
    /\ redeem[a] = "idle" /\ CodeGood
    /\ redeem' = [redeem EXCEPT ![a] = "looked"]
    /\ UNCHANGED <<login, access, loginCode, handed, renewal, revoking, hour>>

\* Faulty variant: what was looked at is marked, whoever was first.
ClaimWhateverLooked(a) ==
    /\ redeem[a] = "looked"
    /\ loginCode' = [loginCode EXCEPT !.state = "used"]
    /\ redeem' = [redeem EXCEPT ![a] = "claimed"]
    /\ UNCHANGED <<login, access, handed, renewal, revoking, hour>>

\* updateMany where it is not consumed and not expired: one row for one caller.
Claim(a) ==
    /\ redeem[a] = "looked"
    /\ IF CodeGood
       THEN /\ loginCode' = [loginCode EXCEPT !.state = "used"]
            /\ redeem' = [redeem EXCEPT ![a] = "claimed"]
       ELSE /\ redeem' = [redeem EXCEPT ![a] = "idle"] /\ UNCHANGED loginCode
    /\ UNCHANGED <<login, access, handed, renewal, revoking, hour>>

\* The token is given only for a session that is still in force.
HandToken(a) ==
    /\ redeem[a] = "claimed"
    /\ handed' = IF Inspected THEN handed + 1 ELSE handed
    /\ redeem' = [redeem EXCEPT ![a] = "idle"]
    /\ UNCHANGED <<login, access, loginCode, renewal, revoking, hour>>

-----------------------------------------------------------------------------
Renew(r) ==
    /\ renewal[r].phase = "idle" /\ Inspected
    /\ renewal' = [renewal EXCEPT ![r].phase = "inspected"]
    /\ UNCHANGED <<login, access, loginCode, redeem, handed, revoking, hour>>

\* The new expiry: one lifetime from now, never past the session's greatest age.
WorkOutExpiry(r) ==
    LET until == Least(MaxAge, hour + TTL)
    IN /\ renewal[r].phase = "inspected"
       /\ renewal' = [renewal EXCEPT ![r] = IF until > hour THEN [phase |-> "computed", until |-> until]
                                                            ELSE NoRenewal]
       /\ UNCHANGED <<login, access, loginCode, redeem, handed, revoking, hour>>

\* Faulty variant: the row is written with no condition but the token.
ExtendAlways(r) ==
    /\ renewal[r].phase = "computed"
    /\ login' = [login EXCEPT !.expires = renewal[r].until]
    /\ renewal' = [renewal EXCEPT ![r].phase = "updated"]
    /\ UNCHANGED <<access, loginCode, redeem, handed, revoking, hour>>

\* Faulty variant: a session may be made longer whenever it is found shorter.
ExtendExpired(r) ==
    /\ renewal[r].phase = "computed"
    /\ login' = IF ~login.revoked /\ login.expires < renewal[r].until
                THEN [login EXCEPT !.expires = renewal[r].until] ELSE login
    /\ renewal' = [renewal EXCEPT ![r].phase = "updated"]
    /\ UNCHANGED <<access, loginCode, redeem, handed, revoking, hour>>

\* updateMany where it is not revoked, not expired and shorter.
Extend(r) ==
    /\ renewal[r].phase = "computed"
    /\ login' = IF ~login.revoked /\ hour < login.expires /\ login.expires < renewal[r].until
                THEN [login EXCEPT !.expires = renewal[r].until] ELSE login
    /\ renewal' = [renewal EXCEPT ![r].phase = "updated"]
    /\ UNCHANGED <<access, loginCode, redeem, handed, revoking, hour>>

\* inspect again: the answer is the session as it is now, or 401.
RenewalAnswered(r) ==
    /\ renewal[r].phase = "updated"
    /\ renewal' = [renewal EXCEPT ![r] = NoRenewal]
    /\ UNCHANGED <<login, access, loginCode, redeem, handed, revoking, hour>>

\* The route revoke: nothing is done for a session that inspect does not call
\* active, and the answer is the same.
AskToRevoke ==
    /\ ~revoking /\ Inspected
    /\ revoking' = TRUE
    /\ UNCHANGED <<login, access, loginCode, redeem, handed, renewal, hour>>

Revoke ==
    /\ revoking /\ revoking' = FALSE
    /\ login' = [login EXCEPT !.revoked = TRUE]
    /\ UNCHANGED <<access, loginCode, redeem, handed, renewal, hour>>

GrantOrWithdraw ==
    /\ access' = ~access
    /\ UNCHANGED <<login, loginCode, redeem, handed, renewal, revoking, hour>>

Hour ==
    /\ hour < LastHour /\ hour' = hour + 1
    /\ UNCHANGED <<login, access, loginCode, redeem, handed, renewal, revoking>>

TokenFlowNext ==
    \/ IssueCode
    \/ \E a \in Redeemer : LookAtCode(a) \/ Claim(a) \/ HandToken(a)
    \/ \E r \in Renewer : Renew(r) \/ WorkOutExpiry(r) \/ Extend(r) \/ RenewalAnswered(r)
    \/ AskToRevoke \/ Revoke \/ GrantOrWithdraw \/ Hour

TokenFlowSpec == TokenFlowInit /\ [][TokenFlowNext]_TokenFlowVars

-----------------------------------------------------------------------------
\* A code is worth one token, however often and however close together it comes back.
OneTokenPerCode == handed <= 1

\* A session that has ended, revoked or run out, is never brought back by a renewal
\* that was under way.
EndsForGood ==
    [][login.revoked \/ login.expires <= hour => login'.revoked \/ login'.expires <= hour']_TokenFlowVars

\* Of renewals that overlap the later expiry stays, and none passes the greatest age.
NeverShortened == [][login'.expires >= login.expires /\ login'.expires <= MaxAge]_TokenFlowVars

\* A code gives one token, and a token ends when its session does, not before it was
\* told and not after.
TokensEndInTime == []OneTokenPerCode /\ EndsForGood /\ NeverShortened

-----------------------------------------------------------------------------
(* The three together: they share no variable.                             *)
IdentitySpec == SecuritySpec /\ MachineSpec /\ TokenFlowSpec

\* An account of the identity centre, its sessions and the tokens made from them, and
\* the machine token the kernel asks about them with.
AccountsHold == FactorsHold /\ TokensEndInTime /\ []RestartIsMadeGood
=============================================================================
