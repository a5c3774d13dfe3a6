----------------------------- MODULE ExpertSignIn -----------------------------
(* Signing in: how often it can be tried in vain, and the members of the    *)
(* company directory.                                                       *)
EXTENDS Naturals, FiniteSetsExt

-----------------------------------------------------------------------------
(***************************************************************************)
(* How often an account can be guessed at.  A wrong password counts on the *)
(* user row and locks it; a wrong second factor counts on the challenge it *)
(* answers, a wrong re-authentication on a row of its own, and the rows    *)
(* created in the last Window are summed.  The identity centre and the     *)
(* expert database run the same code.  One account with the second factor  *)
(* on; every transaction holds the lock of the user row and is one step.   *)
(***************************************************************************)
CONSTANTS
    Limit,   \* failures >= 5
    Lock,    \* how long the account is locked, 15 minutes
    Window,  \* whose rows are counted, 15 minutes
    Life,    \* of a challenge, 5 minutes
    LastTime

ASSUME SignInAssumption ==
    /\ Limit \in Nat \ {0} /\ Lock \in Nat \ {0} /\ Life \in Nat \ {0}
    /\ Window \in Nat /\ LastTime \in Nat

VARIABLES
    signing,  \* the user row: [failed: failedLoginCount, lockedUntil: 0 for null]
    pendingAt, \* when the open mfa challenge was made, NoChallenge for none
    counted,  \* the sum of AuthChallenge.attempts over the rows created at each time
    guessed,  \* history: [code: wrong factors and re-authentications, password: wrong
              \*   passwords since the last right one], when they were tried
    minute

SignInVars == <<signing, pendingAt, counted, guessed, minute>>

Times == 0..LastTime
NoChallenge == LastTime + 1
Zero == [t \in Times |-> 0]

SignInTypeOK ==
    /\ signing \in [failed : 0..Limit, lockedUntil : 0..(LastTime + Lock)]
    /\ pendingAt \in 0..NoChallenge
    /\ counted \in [Times -> Nat]
    /\ guessed \in [code : [Times -> Nat], password : [Times -> Nat]]
    /\ minute \in Times

SignInInit ==
    /\ signing = [failed |-> 0, lockedUntil |-> 0]
    /\ pendingAt = NoChallenge
    /\ counted = Zero
    /\ guessed = [code |-> Zero, password |-> Zero]
    /\ minute = 0

Total(f, times) == MapThenSumSet(LAMBDA t : f[t], times \cap Times)

-----------------------------------------------------------------------------
Locked == signing.lockedUntil > minute

\* Faulty variant: the refusal is thrown inside the transaction, which rolls the
\* count back.
WrongPasswordRolledBack ==
    /\ ~Locked
    /\ guessed' = [guessed EXCEPT !.password[minute] = @ + 1]
    /\ UNCHANGED <<signing, pendingAt, counted, minute>>

\* Faulty variant: the count goes on after a lock that is over.
WrongPasswordCountedOn ==
    /\ ~Locked
    /\ signing' = [failed |-> signing.failed + 1,
                   lockedUntil |-> IF signing.failed + 1 >= Limit THEN minute + Lock ELSE 0]
    /\ guessed' = [guessed EXCEPT !.password[minute] = @ + 1]
    /\ UNCHANGED <<pendingAt, counted, minute>>

\* login with a wrong password: the count starts again after a lock that is over,
\* and the answer is an error only after the transaction.  A second login
\* of the account meets the row lock and is refused at once.
WrongPassword ==
    LET over == signing.lockedUntil # 0
        n    == (IF over THEN 0 ELSE signing.failed) + 1
    IN /\ ~Locked
       /\ signing' = [failed |-> n, lockedUntil |-> IF n >= Limit THEN minute + Lock ELSE 0]
       /\ guessed' = [guessed EXCEPT !.password[minute] = @ + 1]
       /\ UNCHANGED <<pendingAt, counted, minute>>

Unlocked == [failed |-> 0, lockedUntil |-> 0]

\* The right one: beginAuthentication marks the challenges before used and makes one.
RightPassword ==
    /\ ~Locked
    /\ signing' = Unlocked
    /\ pendingAt' = minute
    /\ guessed' = [guessed EXCEPT !.password = Zero]
    /\ UNCHANGED <<counted, minute>>

-----------------------------------------------------------------------------
\* pending: not used, not expired.
Pending == pendingAt # NoChallenge /\ minute < pendingAt + Life

\* Faulty variant: the attempts of the challenge at hand are all that counts.
FreeToTryThis == pendingAt # NoChallenge => counted[pendingAt] < Limit

\* failures: the attempts of the rows with createdAt greater than now - Window.
FreeToTry == Total(counted, {t \in Times : t + Window > minute}) < Limit

\* completeMfa with a code that is wrong or was used.
WrongCode ==
    /\ Pending /\ FreeToTry
    /\ counted' = [counted EXCEPT ![pendingAt] = @ + 1]
    /\ guessed' = [guessed EXCEPT !.code[minute] = @ + 1]
    /\ UNCHANGED <<signing, pendingAt, minute>>

RightCode ==
    /\ Pending /\ FreeToTry
    /\ pendingAt' = NoChallenge
    /\ UNCHANGED <<signing, counted, guessed, minute>>

\* AccountSecurityService.authorize and changePassword, of a session, with a wrong
\* password or factor.
WrongReauthentication ==
    /\ FreeToTry
    /\ counted' = [counted EXCEPT ![minute] = @ + 1]
    /\ guessed' = [guessed EXCEPT !.code[minute] = @ + 1]
    /\ UNCHANGED <<signing, pendingAt, minute>>

\* changePassword goes through: whoever changes it knew it.
NewPassword ==
    /\ FreeToTry
    /\ signing' = Unlocked
    /\ guessed' = [guessed EXCEPT !.password = Zero]
    /\ UNCHANGED <<pendingAt, counted, minute>>

Minute ==
    /\ minute < LastTime /\ minute' = minute + 1
    /\ UNCHANGED <<signing, pendingAt, counted, guessed>>

SignInNext ==
    \/ WrongPassword \/ RightPassword
    \/ WrongCode \/ RightCode \/ WrongReauthentication \/ NewPassword
    \/ Minute

SignInSpec == SignInInit /\ [][SignInNext]_SignInVars

-----------------------------------------------------------------------------
\* However many challenges are asked for and sessions take part: in any stretch of
\* Window - Life no more than Limit second factors and re-authentications are
\* tried in vain.  (A challenge counts from when it was made, so it is not Window.)
CodesAreRationed ==
    \A t \in Times : Total(guessed.code, t..(t + (Window - Life))) <= Limit

\* Between two right passwords, no more than Limit wrong ones in a stretch shorter
\* than a lock, however they are spread over the locks.
PasswordsAreRationed ==
    \A t \in Times : Total(guessed.password, t..(t + (Lock - 1))) <= Limit

\* Guessing is rationed, for passwords and for codes, however the tries are spread.
TriesAreRationed == CodesAreRationed /\ PasswordsAreRationed

-----------------------------------------------------------------------------
(* The members of the company directory in the expert database: synchronised by    *)
(* several instances, bound to accounts and unbound by administrators, and signed   *)
(* in with a scanned code. Every change of a binding runs in a transaction that     *)
(* takes one advisory lock; what the directory service answers is fetched before.   *)
CONSTANTS
    Member,         \* user ids of the directory
    Namesake,       \* the member whose id is the user name of an account made by hand
    Syncer,         \* instances of the server that synchronise
    Scan, Callback, \* sign-ins begun in a browser, requests that come back from one
    MaxBindings     \* bound on what administrators bind by hand

NoOne == <<>>
Own(member) == <<"made for", member>>   \* the account a synchronisation makes
ByHand == <<"made by hand">>

VARIABLES
    bound,      \* the account of each member
    revoked,    \* the members an administrator has unbound
    made,       \* how many accounts synchronisations have made for each member
    version,    \* security version of each account
    session,    \* sessions opened by scans: [account, member, scan, callback, version]
    reading,    \* the members each instance has read and not yet written
    scan,       \* state of each sign-in: new, started or claimed
    callback,   \* [scan, member] of each request under way
    bindings    \* how often an administrator has bound a member

directoryVars == <<bound, revoked, made, version, session, reading, scan, callback, bindings>>

Accounts == {Own(m) : m \in Member} \cup {ByHand}
NoRequest == [scan |-> "none", member |-> "none"]
NotRead == {}    \* a reading that brings nobody changes no binding

DirectoryInit ==
    /\ bound = [m \in Member |-> NoOne] /\ revoked = {} /\ made = [m \in Member |-> 0]
    /\ version = [a \in Accounts |-> 0] /\ session = {}
    /\ reading = [s \in Syncer |-> NotRead]
    /\ scan = [i \in Scan |-> "new"] /\ callback = [c \in Callback |-> NoRequest] /\ bindings = 0

(* The synchronisation. A second call joins the one under way in its instance.      *)
ReadDirectory(s) ==
    /\ reading[s] = NotRead
    /\ \E members \in SUBSET Member \ {{}} : reading' = [reading EXCEPT ![s] = members]
    /\ UNCHANGED <<bound, revoked, made, version, session, scan, callback, bindings>>

\* Faulty variant: a member that was unbound is treated as one never seen.
AdmitsUnbound(m) == bound[m] = NoOne /\ m # Namesake
\* Those an account is made for: not the namesake of an account of another source.
Admits(m) == bound[m] = NoOne /\ m \notin revoked /\ m # Namesake

\* Names and departments of the others are brought up to date.
WriteDirectory(s) ==
    /\ reading[s] # NotRead /\ reading' = [reading EXCEPT ![s] = NotRead]
    /\ LET new == {m \in reading[s] : Admits(m)} IN
          /\ bound' = [m \in Member |-> IF m \in new THEN Own(m) ELSE bound[m]]
          /\ made' = [m \in Member |-> IF m \in new THEN made[m] + 1 ELSE made[m]]
    /\ UNCHANGED <<revoked, version, session, scan, callback, bindings>>

SyncFails(s) ==
    /\ reading[s] # NotRead /\ reading' = [reading EXCEPT ![s] = NotRead]
    /\ UNCHANGED <<bound, revoked, made, version, session, scan, callback, bindings>>

(* The administrators *)
BindWeCom(account, m) ==
    /\ bindings < MaxBindings /\ bindings' = bindings + 1
    /\ account = ByHand \/ (made[m] > 0 /\ account = Own(m))
    /\ bound[m] \in {NoOne, account}
    /\ \A other \in Member \ {m} : bound[other] # account
    /\ bound' = [bound EXCEPT ![m] = account]
    /\ revoked' = revoked \ {m}
    /\ UNCHANGED <<made, version, session, reading, scan, callback>>

\* Faulty variant: the binding goes, what it was used for stays.
UnbindOnly(m) ==
    /\ bound[m] # NoOne
    /\ revoked' = revoked \cup {m}
    /\ bound' = [bound EXCEPT ![m] = NoOne]
    /\ UNCHANGED <<made, version, session, reading, scan, callback, bindings>>
UnbindWeCom(m) ==
    /\ bound[m] # NoOne
    /\ revoked' = revoked \cup {m}
    /\ bound' = [bound EXCEPT ![m] = NoOne]
    /\ version' = [version EXCEPT ![bound[m]] = @ + 1]
    /\ session' = {x \in session : x.account # bound[m]}
    /\ UNCHANGED <<made, reading, scan, callback, bindings>>

(* Signing in *)
Start(i) ==
    /\ scan[i] = "new" /\ scan' = [scan EXCEPT ![i] = "started"]
    /\ UNCHANGED <<bound, revoked, made, version, session, reading, callback, bindings>>

\* Faulty variant: the state is looked at and marked in two steps.
LookedAt(c, i) == callback[c] = NoRequest /\ scan[i] # "new"
\* The request comes back, the same one perhaps twice. One of them claims the state.
Claims(c, i) == callback[c] = NoRequest /\ scan[i] = "started"

Complete(c, i) ==
    /\ Claims(c, i)
    /\ scan' = [scan EXCEPT ![i] = "claimed"]
    /\ callback' = [callback EXCEPT ![c].scan = i]
    /\ UNCHANGED <<bound, revoked, made, version, session, reading, bindings>>

\* The directory service names the member; the token for it is renewed once if need be.
ExchangeIdentity(c) ==
    /\ callback[c].scan # "none" /\ callback[c].member = "none"
    /\ \E m \in Member : callback' = [callback EXCEPT ![c].member = m]
    /\ UNCHANGED <<bound, revoked, made, version, session, reading, scan, bindings>>

IdentityRefused(c) ==
    /\ callback[c].scan # "none"
    /\ callback' = [callback EXCEPT ![c] = NoRequest]
    /\ UNCHANGED <<bound, revoked, made, version, session, reading, scan, bindings>>

\* The account the member signs in to, read under the lock.
AccountOf(m) == IF m \in revoked THEN NoOne ELSE bound[m]

SignIn(c) ==
    LET m == callback[c].member  account == IF m = "none" THEN NoOne ELSE AccountOf(m) IN
    /\ account # NoOne
    /\ session' = session \cup {[account |-> account, member |-> m, scan |-> callback[c].scan,
                                 callback |-> c, version |-> version[account]]}
    /\ callback' = [callback EXCEPT ![c] = NoRequest]
    /\ UNCHANGED <<bound, revoked, made, version, reading, scan, bindings>>

DirectoryNext ==
    \/ \E s \in Syncer : ReadDirectory(s) \/ WriteDirectory(s) \/ SyncFails(s)
    \/ \E a \in Accounts, m \in Member : BindWeCom(a, m)
    \/ \E m \in Member : UnbindWeCom(m)
    \/ \E i \in Scan : Start(i)
    \/ \E c \in Callback, i \in Scan : Complete(c, i)
    \/ \E c \in Callback : ExchangeIdentity(c) \/ IdentityRefused(c) \/ SignIn(c)

DirectorySpec == DirectoryInit /\ [][DirectoryNext]_directoryVars

DirectoryTypeOK ==
    /\ bound \in [Member -> Accounts \cup {NoOne}] /\ revoked \subseteq Member
    /\ made \in [Member -> Nat] /\ version \in [Accounts -> Nat]
    /\ \A s \in Syncer : reading[s] \subseteq Member
    /\ scan \in [Scan -> {"new", "started", "claimed"}] /\ bindings \in 0..MaxBindings

\* However the synchronisations of the instances overlap with each other and with the
\* administrators, a member is given an account once: one that was unbound is not let
\* in again under a new account by the next synchronisation.
OneAccountEach == \A m \in Member : made[m] <= 1

\* Whoever is signed in through the directory is still bound to that account: a scan
\* that was under way when an administrator unbound the member ends without a session.
SignedInIsBound ==
    \A x \in session : x.version = version[x.account] => bound[x.member] = x.account

\* A scan opens at most one session, though its request comes back twice.
OneSessionPerScan ==
    \A x, y \in session : x.scan = y.scan => x = y

\* A member of the company has one account, and is signed in to it once per scan and
\* only while it is bound.
DirectoryHolds == OneAccountEach /\ SignedInIsBound /\ OneSessionPerScan
=============================================================================
