------------------------------- MODULE TokenAccess -------------------------------
(***************************************************************************)
(* Whether the gateway lets a caller in.  The owner of a token is switched *)
(* on and off at the identity centre; every instance copies the directory  *)
(* each minute and the profile of whoever signs in; a request with the     *)
(* token is admitted on the token and user rows, kept for a minute in the  *)
(* instance that read them.  One token, one user; an instance's clock      *)
(* stands for minutes.                                                     *)
(***************************************************************************)
EXTENDS Naturals

CONSTANTS
    Instance,   \* 1..n, alike: the first idle one synchronises next
    TTL,        \* cacheTtl
    MaxLookup,  \* longest time the two reads of a miss take together
    MaxTime,
    MaxSwitch   \* how often the centre switches the user, and syncs fail

ASSUME TokenAssumption ==
    TTL \in Nat /\ MaxLookup \in Nat /\ MaxTime \in Nat /\ MaxSwitch \in Nat

VARIABLES
    centre,  \* the user is active at the identity centre
    user,    \* the row: on as the directory says, gone or not
    token,   \* the token row is there
    cache,   \* TokenAuthMiddleware.cache of one instance: the entry of the token
    lookup,  \* a request that missed, in that instance
    sync,    \* IdentitySyncService of each instance
    signIn,  \* a JwtAuthGuard is between the answer of introspect and the row
    clock,
    past     \* history: [token, user: when each was last good, admitted: when a request was, switches]

TokenVars == <<centre, user, token, cache, lookup, sync, signIn, clock, past>>

Nothing == [held |-> FALSE, until |-> 0]
NoLookup == [phase |-> "idle", since |-> 0]
NoSync == [phase |-> "idle", active |-> FALSE]

TokenTypeOK ==
    /\ centre \in BOOLEAN /\ user \in BOOLEAN /\ token \in BOOLEAN
    /\ cache \in [held : BOOLEAN, until : 0..(MaxTime + TTL)]
    /\ lookup \in [phase : {"idle", "user"}, since : 0..MaxTime]
    /\ sync \in [Instance -> [phase : {"idle", "fetch", "apply"}, active : BOOLEAN]]
    /\ signIn \in BOOLEAN
    /\ clock \in 0..MaxTime
    /\ past \in [token : 0..MaxTime, user : 0..MaxTime, admitted : 0..MaxTime, switches : 0..MaxSwitch]

TokenInit ==
    /\ centre = TRUE /\ user = TRUE /\ token = TRUE
    /\ cache = Nothing
    /\ lookup = NoLookup
    /\ sync = [i \in Instance |-> NoSync]
    /\ signIn = FALSE
    /\ clock = 0
    /\ past = [token |-> 0, user |-> 0, admitted |-> 0, switches |-> 0]

-----------------------------------------------------------------------------
Admit == past' = [past EXCEPT !.admitted = clock]

\* Faulty variant: counted from the end of the minute.
EntryForLonger == [held |-> TRUE, until |-> clock + TTL + 1]
Entry == [held |-> TRUE, until |-> clock + TTL]

\* Faulty variant: an entry lives on while it is used.
HitSliding ==
    /\ lookup.phase = "idle"
    /\ cache.held /\ cache.until > clock
    /\ cache' = [cache EXCEPT !.until = clock + TTL]
    /\ Admit
    /\ UNCHANGED <<centre, user, token, lookup, sync, signIn, clock>>

\* use with an entry that has not expired: its status and expiry are looked at
\* again, here always good, the rows are not.
Hit ==
    /\ lookup.phase = "idle"
    /\ cache.held /\ cache.until > clock
    /\ Admit
    /\ UNCHANGED <<centre, user, token, cache, lookup, sync, signIn, clock>>

\* getCache drops an expired entry; the token row is read.  401 when it is gone.
Miss ==
    /\ lookup.phase = "idle"
    /\ ~(cache.held /\ cache.until > clock)
    /\ cache' = Nothing
    /\ lookup' = IF token THEN [phase |-> "user", since |-> clock] ELSE NoLookup
    /\ UNCHANGED <<centre, user, token, sync, signIn, clock, past>>

\* The user row is read: 401 when it is off, and nothing is kept.  What was read
\* is kept from now on, also while the token is being deleted.
ReadUser ==
    /\ lookup.phase = "user"
    /\ lookup' = NoLookup
    /\ \/ ~user /\ UNCHANGED <<cache, past>>
       \/ user /\ Admit /\ cache' = Entry
    /\ UNCHANGED <<centre, user, token, sync, signIn, clock>>

\* TokenAdminController.remove and TokenPortalController.remove, no cache is told;
\* and a token is never made again.
RemoveToken ==
    /\ token /\ token' = FALSE
    /\ past' = [past EXCEPT !.token = clock]
    /\ UNCHANGED <<centre, user, cache, lookup, sync, signIn, clock>>

-----------------------------------------------------------------------------
Switch ==
    /\ past.switches < MaxSwitch
    /\ centre' = ~centre
    /\ past' = [past EXCEPT !.switches = @ + 1]
    /\ UNCHANGED <<user, token, cache, lookup, sync, signIn, clock>>

\* Faulty variant: a user once switched off stays off.
ApplyStatusKept(active) ==
    /\ user' = (user /\ active)
    /\ past' = [past EXCEPT !.user = IF user /\ ~active THEN clock ELSE @]

\* applyIdentityUser: status and identityEnabled follow the profile.
Apply(active) ==
    /\ user' = active
    /\ past' = [past EXCEPT !.user = IF user /\ ~active THEN clock ELSE @]

\* IdentitySyncService.sync, every minute: the directory is fetched in pages ...
StartDirectory(i) ==
    /\ sync[i].phase = "idle" /\ \A j \in Instance : j < i => sync[j].phase # "idle"
    /\ sync' = [sync EXCEPT ![i].phase = "fetch"]
    /\ UNCHANGED <<centre, user, token, cache, lookup, signIn, clock, past>>

\* ... of one snapshot; a user that is not in it counts as switched off.
Fetch(i) ==
    /\ sync[i].phase = "fetch"
    /\ sync' = [sync EXCEPT ![i] = [phase |-> "apply", active |-> centre]]
    /\ UNCHANGED <<centre, user, token, cache, lookup, signIn, clock, past>>

\* ... and applied in one transaction.
ApplySync(i) ==
    /\ sync[i].phase = "apply"
    /\ Apply(sync[i].active)
    /\ sync' = [sync EXCEPT ![i] = NoSync]
    /\ UNCHANGED <<centre, token, cache, lookup, signIn, clock>>

\* The centre or the transaction fails; the next minute tries again.
SyncFails(i) ==
    /\ sync[i].phase # "idle" /\ past.switches < MaxSwitch
    /\ past' = [past EXCEPT !.switches = @ + 1]
    /\ sync' = [sync EXCEPT ![i] = NoSync]
    /\ UNCHANGED <<centre, user, token, cache, lookup, signIn, clock>>

\* JwtAuthGuard.canActivate: introspect said the session is active ...
Introspect ==
    /\ ~signIn /\ centre
    /\ signIn' = TRUE
    /\ UNCHANGED <<centre, user, token, cache, lookup, sync, clock, past>>

\* ... and the row follows, a transaction later.
Project ==
    /\ signIn
    /\ Apply(TRUE)
    /\ signIn' = FALSE
    /\ UNCHANGED <<centre, token, cache, lookup, sync, clock>>

Advance ==
    /\ clock < MaxTime
    /\ lookup.phase = "user" => clock < lookup.since + MaxLookup
    /\ clock' = clock + 1
    /\ UNCHANGED <<centre, user, token, cache, lookup, sync, signIn, past>>

TokenNext ==
    \/ \E i \in Instance :
          \/ StartDirectory(i) \/ Fetch(i) \/ ApplySync(i) \/ SyncFails(i)
    \/ Introspect \/ Project
    \/ Hit \/ Miss \/ ReadUser
    \/ RemoveToken \/ Switch \/ Advance

TokenSpec ==
    /\ TokenInit /\ [][TokenNext]_TokenVars
    /\ \A i \in Instance : WF_TokenVars(StartDirectory(i) \/ Fetch(i) \/ ApplySync(i))

-----------------------------------------------------------------------------
\* A deleted token and a user switched off in the gateway are served for one TTL
\* more, and for as long as the reads of a miss take, in whatever order the reads,
\* the deletion and the requests come; being used does not keep
\* an entry alive.
RevocationBites ==
    /\ ~token => past.admitted <= past.token + TTL + MaxLookup
    /\ ~user => past.admitted <= past.user + TTL + MaxLookup

\* The gateway ends with what the identity centre ends with: a directory fetched
\* before a change and applied after it, by any instance, and a sign-in that was
\* answered before, switch the user back only until the next synchronisation.
CentreDecides == <>[](user = centre)

\* What is taken away is gone: from the caches of the instances after their time, and
\* from the rows when the directory is next read.
AccessIsWithdrawn == []RevocationBites /\ CentreDecides
=============================================================================
