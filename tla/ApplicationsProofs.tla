-------------------------- MODULE ApplicationsProofs --------------------------
(***************************************************************************)
(* Proofs about the applications beside the platform: who is signed in     *)
(* through the company directory, how often an account can be guessed at,  *)
(* what becomes of a release of the expert database, what editors of its   *)
(* catalogue, its index and its pages find there, and what the desktop in  *)
(* the browser keeps apart.                                                *)
(***************************************************************************)
EXTENDS ExpertSignIn, ResearchLibrary, ExpertRelease, Desktop, SequenceTheorems, Sums

-----------------------------------------------------------------------------
(***************************************************************************)
(* The members of the company directory                                    *)
(***************************************************************************)
DirectoryTypes ==
    /\ bound \in [Member -> Accounts \cup {NoOne}]
    /\ made \in [Member -> Nat]
    /\ scan \in [Scan -> {"new", "started", "claimed"}]
    /\ callback \in [Callback -> [scan : Scan \cup {"none"}, member : Member \cup {"none"}]]

\* An account is made for a member that has none and was never unbound.
MadeOnce == \A m \in Member : made[m] <= 1 /\ (made[m] > 0 => m \in revoked \/ bound[m] # NoOne)

\* Whoever unbinds a member ends its sessions, and nobody binds over a binding.
SessionsAreBound ==
    \A x \in session :
        x.member \in Member /\ bound[x.member] = x.account /\ x.account # NoOne

\* A scan that was claimed is in the hands of one request, or was used for a session.
ClaimedOnce ==
    /\ \A c \in Callback :
          /\ callback[c].scan # "none" => scan[callback[c].scan] = "claimed"
          /\ callback[c].member # "none" => callback[c].scan # "none"
    /\ \A c, d \in Callback :
          callback[c].scan = callback[d].scan => c = d \/ callback[c].scan = "none"
    /\ \A x \in session :
          /\ x.scan \in Scan \ {"none"} /\ scan[x.scan] = "claimed"
          /\ \A c \in Callback : callback[c].scan # x.scan

DirectoryInv == DirectoryTypes /\ MadeOnce /\ SessionsAreBound /\ ClaimedOnce /\ OneSessionPerScan

LEMMA DirectoryStarts ==
    ASSUME DirectoryInit
    PROVE  DirectoryInv
<1>1. DirectoryTypes
  BY DEF DirectoryInit, DirectoryTypes, NoRequest
<1>2. MadeOnce /\ SessionsAreBound /\ OneSessionPerScan
  BY DEF DirectoryInit, MadeOnce, SessionsAreBound, OneSessionPerScan
<1>3. ClaimedOnce
  BY DEF DirectoryInit, ClaimedOnce, NoRequest
<1> QED
  BY <1>1, <1>2, <1>3 DEF DirectoryInv

\* What a step leaves alone it cannot spoil.
LEMMA RequestsAlone ==
    ASSUME DirectoryInv, UNCHANGED <<session, scan, callback>>
    PROVE  ClaimedOnce' /\ OneSessionPerScan'
BY DEF DirectoryInv, ClaimedOnce, OneSessionPerScan

LEMMA BindingsAlone ==
    ASSUME DirectoryInv, UNCHANGED <<bound, revoked, made>>
    PROVE  MadeOnce' /\ (UNCHANGED session => SessionsAreBound')
BY DEF DirectoryInv, MadeOnce, SessionsAreBound

LEMMA AccountsAreSome == NoOne \notin Accounts
<1>1. ByHand # NoOne
  <2>1. Len(ByHand) = 1 /\ Len(NoOne) = 0
    BY DEF ByHand, NoOne
  <2> QED
    BY <2>1
<1>2. \A m : Own(m) # NoOne
  <2>1. \A m : Len(Own(m)) = 2 /\ Len(NoOne) = 0
    BY DEF Own, NoOne
  <2> QED
    BY <2>1
<1> QED
  BY <1>1, <1>2 DEF Accounts

LEMMA WriteDirectoryKeeps ==
    ASSUME DirectoryInv, NEW s \in Syncer, WriteDirectory(s)
    PROVE  DirectoryInv'
<1> DEFINE new == {m \in reading[s] : Admits(m)}
<1>1. /\ bound' = [m \in Member |-> IF m \in new THEN Own(m) ELSE bound[m]]
      /\ made' = [m \in Member |-> IF m \in new THEN made[m] + 1 ELSE made[m]]
      /\ UNCHANGED <<revoked, session, scan, callback>>
  BY DEF WriteDirectory
<1>2. \A m \in Member : m \in new => bound[m] = NoOne /\ m \notin revoked
  BY DEF Admits
<1> HIDE DEF new
<1>3. \A m \in Member : Own(m) \in Accounts /\ Own(m) # NoOne
  BY AccountsAreSome DEF Accounts
<1>4. DirectoryTypes'
  BY <1>1, <1>3 DEF DirectoryInv, DirectoryTypes
<1>5. MadeOnce'
  <2>1. ASSUME NEW m \in Member, m \in new
        PROVE  made'[m] <= 1 /\ bound'[m] # NoOne
    BY <1>1, <1>2, <1>3, <2>1 DEF DirectoryInv, DirectoryTypes, MadeOnce
  <2>2. ASSUME NEW m \in Member, m \notin new
        PROVE  made'[m] = made[m] /\ bound'[m] = bound[m]
    BY <1>1, <2>2
  <2> QED
    BY <1>1, <2>1, <2>2 DEF DirectoryInv, MadeOnce
<1>6. SessionsAreBound'
  <2>1. SessionsAreBound /\ \A m \in Member : bound[m] \in Accounts \cup {NoOne}
    BY DEF DirectoryInv, DirectoryTypes
  <2>2. ASSUME NEW x \in session
        PROVE  x.member \in Member /\ bound'[x.member] = x.account /\ x.account # NoOne
    <3>1. x.member \in Member /\ bound[x.member] = x.account /\ x.account # NoOne
      BY <2>1 DEF SessionsAreBound
    <3> QED
      BY <3>1, <1>1, <1>2
  <2> QED
    BY <1>1, <2>2 DEF SessionsAreBound
<1> QED
  BY <1>1, <1>4, <1>5, <1>6, RequestsAlone DEF DirectoryInv

LEMMA BindWeComKeeps ==
    ASSUME DirectoryInv, NEW a \in Accounts, NEW m \in Member, BindWeCom(a, m)
    PROVE  DirectoryInv'
<1>1. /\ bound[m] \in {NoOne, a}
      /\ bound' = [bound EXCEPT ![m] = a] /\ revoked' = revoked \ {m}
      /\ UNCHANGED <<made, session, scan, callback>>
  BY DEF BindWeCom
<1>2. a # NoOne
  BY AccountsAreSome
<1>3. bound \in [Member -> Accounts \cup {NoOne}]
  BY DEF DirectoryInv, DirectoryTypes
<1>4. DirectoryTypes'
  BY <1>1, <1>3 DEF DirectoryInv, DirectoryTypes
<1>5. MadeOnce'
  BY <1>1, <1>2, <1>3 DEF DirectoryInv, MadeOnce
<1>6. SessionsAreBound'
  <2>1. ASSUME NEW x \in session
        PROVE  x.member \in Member /\ bound'[x.member] = x.account /\ x.account # NoOne
    <3>1. x.member \in Member /\ bound[x.member] = x.account /\ x.account # NoOne
      BY DEF DirectoryInv, SessionsAreBound
    <3> QED
      BY <3>1, <1>1, <1>3
  <2> QED
    BY <1>1, <2>1 DEF SessionsAreBound
<1> QED
  BY <1>1, <1>4, <1>5, <1>6, RequestsAlone DEF DirectoryInv

LEMMA UnbindWeComKeeps ==
    ASSUME DirectoryInv, NEW m \in Member, UnbindWeCom(m)
    PROVE  DirectoryInv'
<1>1. /\ revoked' = revoked \cup {m} /\ bound' = [bound EXCEPT ![m] = NoOne]
      /\ session' = {x \in session : x.account # bound[m]}
      /\ UNCHANGED <<made, scan, callback>>
  BY DEF UnbindWeCom
<1>2. bound \in [Member -> Accounts \cup {NoOne}]
  BY DEF DirectoryInv, DirectoryTypes
<1>3. DirectoryTypes'
  BY <1>1, <1>2 DEF DirectoryInv, DirectoryTypes
<1>4. MadeOnce'
  BY <1>1, <1>2 DEF DirectoryInv, MadeOnce
<1>5. SessionsAreBound'
  <2>1. ASSUME NEW x \in session'
        PROVE  x.member \in Member /\ bound'[x.member] = x.account /\ x.account # NoOne
    <3>1. x \in session /\ x.account # bound[m]
      BY <1>1
    <3>2. x.member \in Member /\ bound[x.member] = x.account /\ x.account # NoOne
      BY <3>1 DEF DirectoryInv, SessionsAreBound
    <3>3. x.member # m
      BY <3>1, <3>2
    <3> QED
      BY <3>2, <3>3, <1>1, <1>2
  <2> QED
    BY <2>1 DEF SessionsAreBound
<1>6. ClaimedOnce' /\ OneSessionPerScan'
  BY <1>1 DEF DirectoryInv, ClaimedOnce, OneSessionPerScan
<1> QED
  BY <1>3, <1>4, <1>5, <1>6 DEF DirectoryInv

LEMMA CompleteKeeps ==
    ASSUME DirectoryInv, NEW c \in Callback, NEW i \in Scan, Complete(c, i)
    PROVE  DirectoryInv'
<1>1. /\ callback[c] = NoRequest /\ scan[i] = "started"
      /\ scan' = [scan EXCEPT ![i] = "claimed"]
      /\ callback' = [callback EXCEPT ![c].scan = i]
      /\ UNCHANGED <<bound, revoked, made, session>>
  BY DEF Complete, Claims
<1>2. /\ scan \in [Scan -> {"new", "started", "claimed"}]
      /\ callback \in [Callback -> [scan : Scan \cup {"none"}, member : Member \cup {"none"}]]
  BY DEF DirectoryInv, DirectoryTypes
<1>3. /\ callback'[c].scan = i /\ callback'[c].member = "none"
      /\ \A d \in Callback : d # c => callback'[d] = callback[d]
  BY <1>1, <1>2 DEF NoRequest
<1>4. DirectoryTypes'
  BY <1>1, <1>2 DEF DirectoryInv, DirectoryTypes
<1>5. \A d \in Callback : callback[d].scan # "none" => scan[callback[d].scan] = "claimed"
  BY DEF DirectoryInv, ClaimedOnce
<1>6. \A d \in Callback : callback[d].scan = i => i = "none"
  BY <1>1, <1>5
<1>7. ASSUME NEW x \in session
      PROVE  /\ x.scan \in Scan \ {"none"} /\ scan'[x.scan] = "claimed"
             /\ \A d \in Callback : callback'[d].scan # x.scan
  <2>1. /\ x.scan \in Scan \ {"none"} /\ scan[x.scan] = "claimed"
        /\ \A d \in Callback : callback[d].scan # x.scan
    BY DEF DirectoryInv, ClaimedOnce
  <2>2. x.scan # i
    BY <1>1, <2>1
  <2> QED
    BY <1>1, <1>2, <1>3, <2>1, <2>2
<1>8. \A d \in Callback :
        /\ callback'[d].scan # "none" => scan'[callback'[d].scan] = "claimed"
        /\ callback'[d].member # "none" => callback'[d].scan # "none"
  <2>1. ASSUME NEW d \in Callback, d # c
        PROVE  /\ callback'[d].scan # "none" => scan'[callback'[d].scan] = "claimed"
               /\ callback'[d].member # "none" => callback'[d].scan # "none"
    <3>1. callback[d].scan # "none" => callback[d].scan \in Scan
      BY <1>2
    <3>2. callback[d].member # "none" => callback[d].scan # "none"
      BY DEF DirectoryInv, ClaimedOnce
    <3> QED
      BY <1>1, <1>2, <1>3, <1>5, <2>1, <3>1, <3>2
  <2> QED
    BY <1>1, <1>2, <1>3, <2>1
<1>9. \A d, e \in Callback :
        callback'[d].scan = callback'[e].scan => d = e \/ callback'[d].scan = "none"
  BY <1>3, <1>6 DEF DirectoryInv, ClaimedOnce
<1>10. ClaimedOnce'
  BY <1>1, <1>7, <1>8, <1>9 DEF ClaimedOnce
<1>11. OneSessionPerScan'
  BY <1>1 DEF DirectoryInv, OneSessionPerScan
<1> QED
  BY <1>1, <1>4, <1>10, <1>11, BindingsAlone DEF DirectoryInv

LEMMA ExchangeKeeps ==
    ASSUME DirectoryInv, NEW c \in Callback, ExchangeIdentity(c)
    PROVE  DirectoryInv'
<1>1. /\ callback[c].scan # "none"
      /\ UNCHANGED <<bound, revoked, made, session, scan>>
  BY DEF ExchangeIdentity
<1>2. PICK m \in Member : callback' = [callback EXCEPT ![c].member = m]
  BY DEF ExchangeIdentity
<1>3. callback \in [Callback -> [scan : Scan \cup {"none"}, member : Member \cup {"none"}]]
  BY DEF DirectoryInv, DirectoryTypes
<1>4. DirectoryTypes'
  BY <1>1, <1>2, <1>3 DEF DirectoryInv, DirectoryTypes
<1>5. /\ \A d \in Callback : callback'[d].scan = callback[d].scan
      /\ \A d \in Callback : d # c => callback'[d] = callback[d]
  BY <1>2, <1>3
<1>6. ClaimedOnce'
  BY <1>1, <1>5 DEF DirectoryInv, ClaimedOnce
<1>7. OneSessionPerScan'
  BY <1>1 DEF DirectoryInv, OneSessionPerScan
<1> QED
  BY <1>1, <1>4, <1>6, <1>7, BindingsAlone DEF DirectoryInv

\* A request that is over holds no scan.
LEMMA RequestOver ==
    ASSUME DirectoryInv, NEW c \in Callback,
           callback' = [callback EXCEPT ![c] = NoRequest], UNCHANGED scan
    PROVE  /\ callback' \in [Callback -> [scan : Scan \cup {"none"}, member : Member \cup {"none"}]]
           /\ callback'[c].scan = "none" /\ callback'[c].member = "none"
           /\ \A d \in Callback : d # c => callback'[d] = callback[d]
           /\ UNCHANGED session => ClaimedOnce'
<1>1. callback \in [Callback -> [scan : Scan \cup {"none"}, member : Member \cup {"none"}]]
  BY DEF DirectoryInv, DirectoryTypes
<1>2. NoRequest \in [scan : Scan \cup {"none"}, member : Member \cup {"none"}]
  BY DEF NoRequest
<1>3. callback' \in [Callback -> [scan : Scan \cup {"none"}, member : Member \cup {"none"}]]
  BY <1>1, <1>2
<1>4. /\ callback'[c].scan = "none" /\ callback'[c].member = "none"
      /\ \A d \in Callback : d # c => callback'[d] = callback[d]
  BY <1>1 DEF NoRequest
<1>5. ASSUME UNCHANGED session PROVE ClaimedOnce'
  <2>1. \A x \in session' :
          /\ x.scan \in Scan \ {"none"} /\ scan'[x.scan] = "claimed"
          /\ \A d \in Callback : callback'[d].scan # x.scan
    BY <1>4, <1>5 DEF DirectoryInv, ClaimedOnce
  <2> QED
    BY <1>4, <2>1 DEF DirectoryInv, ClaimedOnce
<1> QED
  BY <1>3, <1>4, <1>5

LEMMA RefusalKeeps ==
    ASSUME DirectoryInv, NEW c \in Callback, IdentityRefused(c)
    PROVE  DirectoryInv'
<1>1. /\ callback' = [callback EXCEPT ![c] = NoRequest]
      /\ UNCHANGED <<bound, revoked, made, session, scan>>
  BY DEF IdentityRefused
<1>2. ClaimedOnce' /\ DirectoryTypes'
  BY <1>1, RequestOver DEF DirectoryInv, DirectoryTypes
<1>3. OneSessionPerScan'
  BY <1>1 DEF DirectoryInv, OneSessionPerScan
<1> QED
  BY <1>1, <1>2, <1>3, BindingsAlone DEF DirectoryInv

LEMMA SignInKeeps ==
    ASSUME DirectoryInv, NEW c \in Callback, SignIn(c)
    PROVE  DirectoryInv'
<1> DEFINE m == callback[c].member
           i == callback[c].scan
           account == IF m = "none" THEN NoOne ELSE AccountOf(m)
<1>1. /\ account # NoOne
      /\ callback' = [callback EXCEPT ![c] = NoRequest]
      /\ UNCHANGED <<bound, revoked, made, scan>>
  BY DEF SignIn
<1>2. PICK x : /\ x.account = account /\ x.member = m /\ x.scan = i
               /\ session' = session \cup {x}
  BY DEF SignIn
<1>3. callback \in [Callback -> [scan : Scan \cup {"none"}, member : Member \cup {"none"}]]
  BY DEF DirectoryInv, DirectoryTypes
<1>4. m \in Member \ {"none"} /\ bound[m] = account
  BY <1>1, <1>3 DEF AccountOf
<1>5. i \in Scan \ {"none"} /\ scan[i] = "claimed"
  BY <1>3, <1>4 DEF DirectoryInv, ClaimedOnce
<1>6. /\ \A d \in Callback : callback[d].scan = i => d = c
      /\ \A y \in session : y.scan # i
  BY <1>5 DEF DirectoryInv, ClaimedOnce
<1>7. /\ callback' \in [Callback -> [scan : Scan \cup {"none"}, member : Member \cup {"none"}]]
      /\ callback'[c].scan = "none" /\ callback'[c].member = "none"
      /\ \A d \in Callback : d # c => callback'[d] = callback[d]
  BY <1>1, RequestOver
<1> HIDE DEF m, i, account
<1>8. DirectoryTypes' /\ MadeOnce'
  BY <1>1, <1>7, BindingsAlone DEF DirectoryInv, DirectoryTypes
<1>9. SessionsAreBound'
  BY <1>1, <1>2, <1>4 DEF DirectoryInv, SessionsAreBound
<1>10. OneSessionPerScan'
  BY <1>2, <1>6 DEF DirectoryInv, OneSessionPerScan
<1>11. ClaimedOnce'
  <2>1. ASSUME NEW y \in session'
        PROVE  /\ y.scan \in Scan \ {"none"} /\ scan'[y.scan] = "claimed"
               /\ \A d \in Callback : callback'[d].scan # y.scan
    <3>1. CASE y \in session
      BY <1>1, <1>7, <3>1 DEF DirectoryInv, ClaimedOnce
    <3>2. CASE y = x
      BY <1>1, <1>2, <1>5, <1>6, <1>7, <3>2
    <3> QED
      BY <1>2, <3>1, <3>2
  <2> QED
    BY <1>1, <1>7, <2>1 DEF DirectoryInv, ClaimedOnce
<1> QED
  BY <1>8, <1>9, <1>10, <1>11 DEF DirectoryInv

\* However the synchronisations, the administrators and the sign-ins overlap, a member
\* has one account, and is signed in to it once per scan and only while it is bound.
THEOREM MembersSignInOnce == DirectorySpec => []DirectoryHolds
<1>1. DirectoryInv => DirectoryHolds
  BY DEF DirectoryInv, DirectoryHolds, MadeOnce, OneAccountEach, SessionsAreBound, SignedInIsBound
<1>2. DirectoryInv /\ [DirectoryNext]_directoryVars => DirectoryInv'
  <2> SUFFICES ASSUME DirectoryInv, [DirectoryNext]_directoryVars PROVE DirectoryInv'
    OBVIOUS
  <2>1. ASSUME UNCHANGED <<bound, revoked, made, session, scan, callback>>
        PROVE  DirectoryInv'
    BY <2>1, RequestsAlone, BindingsAlone DEF DirectoryInv, DirectoryTypes
  <2>2. ASSUME NEW s \in Syncer, ReadDirectory(s) \/ SyncFails(s) PROVE DirectoryInv'
    BY <2>1, <2>2 DEF ReadDirectory, SyncFails
  <2>3. ASSUME NEW i \in Scan, Start(i) PROVE DirectoryInv'
    <3>1. /\ scan[i] = "new" /\ scan' = [scan EXCEPT ![i] = "started"]
          /\ UNCHANGED <<bound, revoked, made, session, callback>>
      BY <2>3 DEF Start
    <3>2. DirectoryTypes'
      BY <3>1 DEF DirectoryInv, DirectoryTypes
    <3>3. \A j \in Scan : scan[j] = "claimed" => scan'[j] = "claimed"
      BY <3>1 DEF DirectoryInv, DirectoryTypes
    <3>4. \A c \in Callback : callback[c].scan # "none" => callback[c].scan \in Scan
      BY DEF DirectoryInv, DirectoryTypes
    <3>5. ClaimedOnce'
      BY <3>1, <3>3, <3>4 DEF DirectoryInv, ClaimedOnce
    <3>6. OneSessionPerScan'
      BY <3>1 DEF DirectoryInv, OneSessionPerScan
    <3> QED
      BY <3>1, <3>2, <3>5, <3>6, BindingsAlone DEF DirectoryInv
  <2>4. CASE UNCHANGED directoryVars
    BY <2>1, <2>4 DEF directoryVars
  <2> QED
    BY <2>2, <2>3, <2>4, WriteDirectoryKeeps, BindWeComKeeps, UnbindWeComKeeps, CompleteKeeps,
       ExchangeKeeps, RefusalKeeps, SignInKeeps DEF DirectoryNext
<1> QED
  BY <1>1, <1>2, DirectoryStarts, PTL DEF DirectorySpec

-----------------------------------------------------------------------------
(***************************************************************************)
(* How often an account can be guessed at                                  *)
(***************************************************************************)
SignInTypes ==
    /\ signing.failed \in Nat /\ signing.lockedUntil \in Nat
    /\ DOMAIN signing = {"failed", "lockedUntil"}
    /\ pendingAt \in 0..NoChallenge /\ minute \in Times
    /\ counted \in [Times -> Nat]
    /\ DOMAIN guessed = {"code", "password"}
    /\ guessed.code \in [Times -> Nat] /\ guessed.password \in [Times -> Nat]

Stretch(t, length) == (t..(t + length)) \cap Times
From(t) == {u \in Times : u >= t}

\* A try is counted on a row that was made less than a Life before.
TriesAreCounted ==
    \A t \in Times : Sum(guessed.code, From(t)) <= Sum(counted, From(t - (Life - 1)))

\* With no lock set the count holds the tries that can share a stretch with the
\* next one; a lock that is set begins with the last try.
CountHolds ==
    /\ \A t \in Times : t > minute => guessed.password[t] = 0
    /\ signing.lockedUntil = 0 =>
          /\ signing.failed < Limit
          /\ \A t \in Times : t + (Lock - 1) >= minute =>
                Sum(guessed.password, Stretch(t, Lock - 1)) <= signing.failed
    /\ signing.lockedUntil # 0 =>
          \A t \in Times : t > signing.lockedUntil - Lock => guessed.password[t] = 0

SignInInv == SignInTypes /\ TriesAreCounted /\ CountHolds /\ TriesAreRationed

LEMMA TotalIsSum == \A f, times : Total(f, times) = Sum(f, times \cap Times)
BY DEF Total, Sum, MapThenSumSet, MapThenFoldSet

LEMMA SomeTimes ==
    ASSUME NEW S, S \subseteq Times
    PROVE  IsFiniteSet(S)
<1>1. IsFiniteSet(Times)
  BY SignInAssumption, FS_Interval DEF Times
<1> QED
  BY <1>1, FS_Subset

\* One try more, at time y.
LEMMA OneMore ==
    ASSUME NEW f \in [Times -> Nat], NEW g \in [Times -> Nat], NEW y \in Times,
           g[y] = f[y] + 1, \A x \in Times \ {y} : g[x] = f[x],
           NEW S, S \subseteq Times
    PROVE  /\ Sum(f, S) \in Nat /\ Sum(g, S) \in Nat
           /\ Sum(g, S) = Sum(f, S) + (IF y \in S THEN 1 ELSE 0)
<1>1. IsFiniteSet(S)
  BY SomeTimes
<1>2. /\ \A x \in S : f[x] \in Int /\ g[x] \in Int
      /\ \A x \in S : f[x] \in Int
      /\ \A x \in S : f[x] >= 0
      /\ \A x \in S \ {y} : f[x] = g[x]
      /\ y \in S => g[y] = f[y] + 1
  OBVIOUS
<1>3. Sum(f, S) \in Nat
  BY <1>1, <1>2, SumType
<1>4. CASE y \in S
  <2>1. Sum(g, S) = Sum(f, S) + g[y] - f[y]
    BY <1>1, <1>2, <1>4, SumChange
  <2> QED
    BY <1>2, <1>3, <1>4, <2>1
<1>5. CASE y \notin S
  <2>1. \A x \in S : f[x] \in Int /\ f[x] = g[x]
    BY <1>2, <1>5
  <2>2. Sum(f, S) = Sum(g, S)
    BY <1>1, <2>1, SumSame
  <2> QED
    BY <1>3, <1>5, <2>2
<1> QED
  BY <1>4, <1>5

LEMMA FewerTimes ==
    ASSUME NEW f \in [Times -> Nat], NEW R, NEW S, R \subseteq S, S \subseteq Times
    PROVE  Sum(f, R) \in Nat /\ Sum(f, S) \in Nat /\ Sum(f, R) <= Sum(f, S)
<1>1. IsFiniteSet(S) /\ IsFiniteSet(R) /\ IsFiniteSet(S \ R)
  BY SomeTimes
<1>2. /\ \A x \in S : f[x] \in Int
      /\ \A x \in R : f[x] \in Int
      /\ \A x \in R : f[x] >= 0
      /\ \A x \in S \ R : f[x] \in Int
      /\ \A x \in S \ R : f[x] >= 0
  OBVIOUS
<1>3. Sum(f, S) = Sum(f, R) + Sum(f, S \ R)
  BY <1>1, <1>2, SumSplit
<1>4. Sum(f, R) \in Int /\ Sum(f, R) >= 0
  BY <1>1, <1>2, SumType
<1>5. Sum(f, S \ R) \in Int /\ Sum(f, S \ R) >= 0
  BY <1>1, <1>2, SumType
<1> QED
  BY <1>3, <1>4, <1>5

LEMMA NoTries ==
    ASSUME NEW S, S \subseteq Times, NEW f, \A t \in S : f[t] = 0
    PROVE  Sum(f, S) = 0
BY SomeTimes, SumOfZeros

LEMMA RationIsSum ==
    ASSUME NEW f, NEW n
    PROVE  (\A t \in Times : Total(f, t..(t + n)) <= Limit)
           <=> \A t \in Times : Sum(f, Stretch(t, n)) <= Limit
BY TotalIsSum DEF Stretch

LEMMA RationsAreSums ==
    /\ CodesAreRationed <=>
          \A t \in Times : Sum(guessed.code, Stretch(t, Window - Life)) <= Limit
    /\ PasswordsAreRationed <=>
          \A t \in Times : Sum(guessed.password, Stretch(t, Lock - 1)) <= Limit
BY RationIsSum DEF CodesAreRationed, PasswordsAreRationed

LEMMA NewRationsAreSums ==
    /\ CodesAreRationed' <=>
          \A t \in Times : Sum(guessed'.code, Stretch(t, Window - Life)) <= Limit
    /\ PasswordsAreRationed' <=>
          \A t \in Times : Sum(guessed'.password, Stretch(t, Lock - 1)) <= Limit
BY RationIsSum DEF CodesAreRationed, PasswordsAreRationed

LEMMA SignInStarts ==
    ASSUME SignInInit
    PROVE  SignInInv
<1>1. SignInTypes
  BY SignInAssumption DEF SignInInit, SignInTypes, Zero, Times, NoChallenge
<1>2. \A S : S \subseteq Times => Sum(Zero, S) = 0
  <2>1. \A S : S \subseteq Times => \A t \in S : Zero[t] = 0
    BY DEF Zero
  <2> QED
    BY <2>1, NoTries
<1>3. guessed.code = Zero /\ guessed.password = Zero /\ counted = Zero
  BY DEF SignInInit
<1>4. \A t, n : Stretch(t, n) \subseteq Times /\ From(t) \subseteq Times
  BY DEF Stretch, From
<1>5. TriesAreCounted
  BY <1>2, <1>3, <1>4 DEF TriesAreCounted
<1>6. CountHolds
  <2>1. signing.failed = 0 /\ signing.lockedUntil = 0
    BY DEF SignInInit
  <2>2. \A t \in Times : Sum(guessed.password, Stretch(t, Lock - 1)) = 0
    BY <1>2, <1>3, <1>4
  <2>3. \A t \in Times : guessed.password[t] = 0
    BY <1>3 DEF Zero
  <2> QED
    BY <2>1, <2>2, <2>3, SignInAssumption DEF CountHolds
<1>7. TriesAreRationed
  BY <1>2, <1>3, <1>4, RationsAreSums, SignInAssumption DEF TriesAreRationed
<1> QED
  BY <1>1, <1>5, <1>6, <1>7 DEF SignInInv

\* Guesses at the code leave the passwords alone, and the other way round.
LEMMA PasswordsAlone ==
    ASSUME SignInInv, UNCHANGED <<signing, minute>>, guessed'.password = guessed.password
    PROVE  CountHolds' /\ PasswordsAreRationed'
<1>1. PasswordsAreRationed'
  BY RationsAreSums, NewRationsAreSums DEF SignInInv, TriesAreRationed
<1>2. CountHolds'
  BY DEF SignInInv, CountHolds
<1> QED
  BY <1>1, <1>2

LEMMA CodesAlone ==
    ASSUME SignInInv, UNCHANGED counted, guessed'.code = guessed.code
    PROVE  TriesAreCounted' /\ CodesAreRationed'
<1>1. TriesAreCounted'
  BY DEF SignInInv, TriesAreCounted
<1>2. CodesAreRationed'
  BY RationsAreSums, NewRationsAreSums DEF SignInInv, TriesAreRationed
<1> QED
  BY <1>1, <1>2

\* A code is tried in vain on a row made at p.
LEMMA CodeTried ==
    ASSUME SignInInv, FreeToTry, NEW p \in Times, p + Life > minute,
           counted' = [counted EXCEPT ![p] = @ + 1],
           guessed' = [guessed EXCEPT !.code[minute] = @ + 1],
           UNCHANGED <<signing, pendingAt, minute>>
    PROVE  SignInInv'
<1> DEFINE code == guessed.code
           newCode == guessed'.code
<1>1. /\ code \in [Times -> Nat] /\ counted \in [Times -> Nat] /\ minute \in Times
      /\ newCode = [code EXCEPT ![minute] = @ + 1]
      /\ guessed'.password = guessed.password
      /\ DOMAIN guessed' = {"code", "password"}
  BY DEF SignInInv, SignInTypes
<1>2. /\ newCode \in [Times -> Nat] /\ newCode[minute] = code[minute] + 1
      /\ \A x \in Times \ {minute} : newCode[x] = code[x]
  BY <1>1
<1>3. /\ counted' \in [Times -> Nat] /\ counted'[p] = counted[p] + 1
      /\ \A x \in Times \ {p} : counted'[x] = counted[x]
  BY <1>1
<1>4. SignInTypes'
  BY <1>1, <1>2, <1>3 DEF SignInInv, SignInTypes
<1> HIDE DEF code, newCode
<1>5. ASSUME NEW S, S \subseteq Times
      PROVE  /\ Sum(code, S) \in Nat /\ Sum(newCode, S) \in Nat
             /\ Sum(newCode, S) = Sum(code, S) + (IF minute \in S THEN 1 ELSE 0)
  <2>1. ASSUME NEW f, NEW g, f = code, g = newCode
        PROVE  /\ Sum(f, S) \in Nat /\ Sum(g, S) \in Nat
               /\ Sum(g, S) = Sum(f, S) + (IF minute \in S THEN 1 ELSE 0)
    <3>1. /\ f \in [Times -> Nat] /\ g \in [Times -> Nat]
          /\ g[minute] = f[minute] + 1 /\ \A x \in Times \ {minute} : g[x] = f[x]
      BY <1>1, <1>2, <2>1
    <3>2. minute \in Times /\ S \subseteq Times
      BY <1>1, <1>5
    <3> QED
      BY <3>1, <3>2, OneMore
  <2> QED
    BY <2>1
<1>6. ASSUME NEW S, S \subseteq Times
      PROVE  /\ Sum(counted, S) \in Nat /\ Sum(counted', S) \in Nat
             /\ Sum(counted', S) = Sum(counted, S) + (IF p \in S THEN 1 ELSE 0)
  <2>1. ASSUME NEW f, NEW g, f = counted, g = counted'
        PROVE  /\ Sum(f, S) \in Nat /\ Sum(g, S) \in Nat
               /\ Sum(g, S) = Sum(f, S) + (IF p \in S THEN 1 ELSE 0)
    <3>1. /\ f \in [Times -> Nat] /\ g \in [Times -> Nat]
          /\ g[p] = f[p] + 1 /\ \A x \in Times \ {p} : g[x] = f[x]
      BY <1>1, <1>3, <2>1
    <3> QED
      BY <1>6, <3>1, OneMore
  <2> QED
    BY <2>1
<1>7. \A t : From(t) \subseteq Times /\ \A n : Stretch(t, n) \subseteq Times
  BY DEF From, Stretch
<1>8. \A t \in Times : Sum(code, From(t)) <= Sum(counted, From(t - (Life - 1)))
  BY DEF SignInInv, TriesAreCounted, code
<1>9. TriesAreCounted'
  <2>1. ASSUME NEW t \in Times
        PROVE  Sum(newCode, From(t)) <= Sum(counted', From(t - (Life - 1)))
    <3>1. minute \in From(t) => p \in From(t - (Life - 1))
      <4>1. t \in Int /\ p \in Int /\ minute \in Int /\ Life \in Int
        BY <1>1, SignInAssumption DEF Times
      <4> QED
        BY <4>1 DEF From
    <3>2. /\ Sum(newCode, From(t)) = Sum(code, From(t)) + (IF minute \in From(t) THEN 1 ELSE 0)
          /\ Sum(code, From(t)) \in Nat
      BY <1>5, <1>7
    <3>3. /\ Sum(counted', From(t - (Life - 1))) =
               Sum(counted, From(t - (Life - 1))) + (IF p \in From(t - (Life - 1)) THEN 1 ELSE 0)
          /\ Sum(counted, From(t - (Life - 1))) \in Nat
      BY <1>6, <1>7
    <3> QED
      BY <1>8, <3>1, <3>2, <3>3
  <2> QED
    BY <2>1 DEF TriesAreCounted, newCode
<1>10. Sum(counted, {t \in Times : t + Window > minute}) < Limit
  <2>1. {t \in Times : t + Window > minute} \cap Times = {t \in Times : t + Window > minute}
    OBVIOUS
  <2> QED
    BY <2>1, TotalIsSum DEF FreeToTry
<1>11. CodesAreRationed'
  <2>1. ASSUME NEW t \in Times
        PROVE  Sum(newCode, Stretch(t, Window - Life)) <= Limit
    <3> DEFINE S == Stretch(t, Window - Life)
               Rows == {u \in Times : u + Window > minute}
    <3>1. /\ Sum(newCode, S) = Sum(code, S) + (IF minute \in S THEN 1 ELSE 0)
          /\ Sum(code, S) \in Nat
      BY <1>5, <1>7
    <3>2. CASE minute \notin S
      <4>1. Sum(code, S) <= Limit
        BY RationsAreSums DEF SignInInv, TriesAreRationed, code
      <4> QED
        BY <3>1, <3>2, <4>1
    <3>3. CASE minute \in S
      <4>1. S \subseteq From(t)
        BY SignInAssumption DEF Stretch, From, Times
      <4>2. From(t - (Life - 1)) \subseteq Rows
        <5>1. t \in Int /\ minute \in Int /\ Life \in Int /\ Window \in Int
          BY <1>1, SignInAssumption DEF Times
        <5>2. minute <= t + (Window - Life)
          BY <3>3, <5>1 DEF Stretch
        <5>3. ASSUME NEW u \in From(t - (Life - 1)) PROVE u \in Rows
          <6>1. u \in Times /\ u \in Int /\ u >= t - (Life - 1)
            BY <5>1, SignInAssumption DEF From, Times
          <6> QED
            BY <5>1, <5>2, <6>1
        <5> QED
          BY <5>3
      <4>3. Sum(code, S) <= Sum(code, From(t)) /\ Sum(code, From(t)) \in Nat
        BY <1>1, <1>7, <4>1, FewerTimes
      <4>4. /\ Sum(counted, From(t - (Life - 1))) \in Nat /\ Sum(counted, Rows) \in Nat
            /\ Sum(counted, From(t - (Life - 1))) <= Sum(counted, Rows)
        BY <1>1, <4>2, FewerTimes
      <4>5. Sum(code, S) < Limit
        BY <1>8, <1>10, <3>1, <4>3, <4>4, SignInAssumption
      <4> QED
        BY <3>1, <3>3, <4>5, SignInAssumption
    <3> QED
      BY <3>2, <3>3
  <2> QED
    BY <2>1, NewRationsAreSums DEF newCode
<1> QED
  BY <1>1, <1>4, <1>9, <1>11, PasswordsAlone DEF SignInInv, TriesAreRationed

\* Nothing is counted against the account, and nothing was tried.
LEMMA PasswordForgiven ==
    ASSUME SignInInv, signing' = Unlocked, guessed' = [guessed EXCEPT !.password = Zero],
           UNCHANGED <<counted, minute>>, pendingAt' \in {pendingAt, minute}
    PROVE  SignInInv'
<1>1. /\ guessed'.password = Zero /\ guessed'.code = guessed.code
      /\ signing'.failed = 0 /\ signing'.lockedUntil = 0
  BY DEF SignInInv, SignInTypes, Unlocked
<1>2. minute \in 0..NoChallenge
  BY SignInAssumption DEF SignInInv, SignInTypes, NoChallenge, Times
<1>3. SignInTypes'
  BY <1>1, <1>2, SignInAssumption DEF SignInInv, SignInTypes, Unlocked, Zero
<1>4. \A t \in Times : Sum(Zero, Stretch(t, Lock - 1)) = 0
  <2>1. \A t \in Times : /\ Stretch(t, Lock - 1) \subseteq Times
                         /\ \A u \in Stretch(t, Lock - 1) : Zero[u] = 0
    BY DEF Stretch, Zero
  <2> QED
    BY <2>1, NoTries
<1>5. CountHolds'
  BY <1>1, <1>4, SignInAssumption DEF CountHolds, Zero
<1>6. PasswordsAreRationed'
  BY <1>1, <1>4, NewRationsAreSums, SignInAssumption
<1> QED
  BY <1>1, <1>3, <1>5, <1>6, CodesAlone DEF SignInInv, TriesAreRationed

LEMMA PasswordTried ==
    ASSUME SignInInv, WrongPassword
    PROVE  SignInInv'
<1> DEFINE n == (IF signing.lockedUntil # 0 THEN 0 ELSE signing.failed) + 1
           password == guessed.password
           newPassword == guessed'.password
<1>1. /\ signing.lockedUntil <= minute
      /\ signing' = [failed |-> n, lockedUntil |-> IF n >= Limit THEN minute + Lock ELSE 0]
      /\ guessed' = [guessed EXCEPT !.password[minute] = @ + 1]
      /\ UNCHANGED <<pendingAt, counted, minute>>
  BY SignInAssumption DEF WrongPassword, Locked, SignInInv, SignInTypes, Times
<1>2. /\ password \in [Times -> Nat] /\ minute \in Times /\ minute \in Nat
      /\ newPassword = [password EXCEPT ![minute] = @ + 1]
      /\ guessed'.code = guessed.code
      /\ DOMAIN guessed' = {"code", "password"}
      /\ Lock \in Nat /\ Lock > 0 /\ Limit \in Nat /\ Limit > 0
      /\ signing.failed \in Nat /\ signing.lockedUntil \in Nat
  <2>1. /\ password \in [Times -> Nat] /\ minute \in Times
        /\ DOMAIN guessed = {"code", "password"}
        /\ signing.failed \in Nat /\ signing.lockedUntil \in Nat
    BY DEF SignInInv, SignInTypes
  <2>2. minute \in Nat /\ Lock \in Nat /\ Lock > 0 /\ Limit \in Nat /\ Limit > 0
    BY <2>1, SignInAssumption DEF Times
  <2>3. /\ newPassword = [password EXCEPT ![minute] = @ + 1]
        /\ guessed'.code = guessed.code /\ DOMAIN guessed' = {"code", "password"}
    BY <1>1, <2>1
  <2> QED
    BY <2>1, <2>2, <2>3
<1>3. /\ newPassword \in [Times -> Nat] /\ newPassword[minute] = password[minute] + 1
      /\ \A x \in Times \ {minute} : newPassword[x] = password[x]
  BY <1>2
<1>4. /\ n \in Nat /\ n > 0 /\ n <= Limit
      /\ signing'.failed = n
      /\ signing'.lockedUntil = IF n >= Limit THEN minute + Lock ELSE 0
  <2>1. signing.lockedUntil = 0 => signing.failed < Limit
    BY DEF SignInInv, CountHolds
  <2> QED
    BY <1>1, <1>2, <2>1
<1>5. \A t \in Times : t > minute => newPassword[t] = 0
  <2>1. \A t \in Times : t > minute => password[t] = 0
    BY DEF SignInInv, CountHolds
  <2> QED
    BY <1>2, <1>3, <2>1
<1>6. SignInTypes'
  BY <1>1, <1>2, <1>3, <1>4 DEF SignInInv, SignInTypes
<1>7. ASSUME NEW t \in Times, t + (Lock - 1) >= minute
      PROVE  Sum(password, Stretch(t, Lock - 1)) <= n - 1
  <2>1. CASE signing.lockedUntil = 0
    BY <1>2, <1>7, <2>1 DEF SignInInv, CountHolds
  <2>2. CASE signing.lockedUntil # 0
    <3>1. \A u \in Times : u > signing.lockedUntil - Lock => password[u] = 0
      BY <2>2 DEF SignInInv, CountHolds
    <3>2. t \in Int /\ t > signing.lockedUntil - Lock
      BY <1>1, <1>2, <1>7 DEF Times
    <3>3. \A u \in Stretch(t, Lock - 1) : u \in Times /\ u \in Int /\ u >= t
      BY <1>2, <3>2 DEF Stretch
    <3>4. /\ Stretch(t, Lock - 1) \subseteq Times
          /\ \A u \in Stretch(t, Lock - 1) : password[u] = 0
      BY <1>2, <3>1, <3>2, <3>3
    <3> HIDE DEF password
    <3>5. Sum(password, Stretch(t, Lock - 1)) = 0
      BY <3>4, NoTries
    <3> QED
      BY <2>2, <3>5
  <2> QED
    BY <2>1, <2>2
<1> HIDE DEF n, password, newPassword
<1>8. ASSUME NEW t \in Times
      PROVE  /\ Sum(password, Stretch(t, Lock - 1)) \in Nat
             /\ Sum(newPassword, Stretch(t, Lock - 1)) =
                  Sum(password, Stretch(t, Lock - 1))
                  + (IF minute \in Stretch(t, Lock - 1) THEN 1 ELSE 0)
             /\ minute \in Stretch(t, Lock - 1) => t + (Lock - 1) >= minute
  <2> DEFINE S == Stretch(t, Lock - 1)
  <2>1. S \subseteq Times
    BY DEF Stretch
  <2>2. ASSUME NEW f, NEW g, f = password, g = newPassword
        PROVE  /\ Sum(f, S) \in Nat
               /\ Sum(g, S) = Sum(f, S) + (IF minute \in S THEN 1 ELSE 0)
    <3>1. /\ f \in [Times -> Nat] /\ g \in [Times -> Nat]
          /\ g[minute] = f[minute] + 1 /\ \A x \in Times \ {minute} : g[x] = f[x]
      BY <1>2, <1>3, <2>2
    <3>2. minute \in Times
      BY <1>2
    <3> HIDE DEF S
    <3> QED
      BY <2>1, <3>1, <3>2, OneMore
  <2>3. minute \in S => t + (Lock - 1) >= minute
    <3>1. t \in Int
      BY DEF Times
    <3> QED
      BY <1>2, <3>1 DEF Stretch
  <2> QED
    BY <2>2, <2>3
<1>9. ASSUME NEW t \in Times, t + (Lock - 1) >= minute
      PROVE  Sum(newPassword, Stretch(t, Lock - 1)) <= n
  <2>1. Sum(password, Stretch(t, Lock - 1)) <= n - 1
    BY <1>7, <1>9
  <2> QED
    BY <1>4, <1>8, <2>1
<1>10. PasswordsAreRationed'
  <2>1. ASSUME NEW t \in Times
        PROVE  Sum(newPassword, Stretch(t, Lock - 1)) <= Limit
    <3>1. CASE minute \in Stretch(t, Lock - 1)
      <4>1. Sum(newPassword, Stretch(t, Lock - 1)) <= n
        BY <1>8, <1>9, <3>1
      <4>2. /\ Sum(password, Stretch(t, Lock - 1)) \in Nat
            /\ Sum(newPassword, Stretch(t, Lock - 1)) = Sum(password, Stretch(t, Lock - 1)) + 1
        BY <1>8, <3>1
      <4> QED
        BY <1>2, <1>4, <4>1, <4>2
    <3>2. CASE minute \notin Stretch(t, Lock - 1)
      <4>1. Sum(password, Stretch(t, Lock - 1)) <= Limit
        BY RationsAreSums DEF SignInInv, TriesAreRationed, password
      <4> QED
        BY <1>8, <3>2, <4>1
    <3> QED
      BY <3>1, <3>2
  <2> QED
    BY <2>1, NewRationsAreSums DEF newPassword
<1>11. CountHolds'
  <2>1. \A t \in Times : t > minute => newPassword[t] = 0
    BY <1>5
  <2>2. n < Limit \/ n = Limit
    BY <1>2, <1>4
  <2>3. CASE n < Limit
    <3>1. signing'.lockedUntil = 0 /\ signing'.failed < Limit
      BY <1>2, <1>4, <2>3
    <3> QED
      BY <1>1, <1>4, <1>5, <1>9, <3>1 DEF CountHolds, newPassword
  <2>4. CASE n = Limit
    <3>1. signing'.lockedUntil = minute + Lock
      BY <1>2, <1>4, <2>4
    <3>2. signing'.lockedUntil # 0 /\ signing'.lockedUntil - Lock = minute
      BY <1>2, <3>1
    <3> QED
      BY <1>1, <1>5, <3>2 DEF CountHolds, newPassword
  <2> QED
    BY <2>2, <2>3, <2>4
<1> QED
  BY <1>1, <1>2, <1>6, <1>10, <1>11, CodesAlone DEF SignInInv, TriesAreRationed

\* However a password and a code are guessed at, over however many challenges, sessions
\* and locks: no more than Limit tries in vain of either in a stretch of time.
THEOREM GuessesAreRationed == SignInSpec => []TriesAreRationed
<1>1. SignInInv /\ [SignInNext]_SignInVars => SignInInv'
  <2> SUFFICES ASSUME SignInInv, [SignInNext]_SignInVars PROVE SignInInv'
    OBVIOUS
  <2>1. SignInTypes
    BY DEF SignInInv
  <2>2. CASE WrongCode
    <3>1. pendingAt \in Times /\ pendingAt + Life > minute
      BY <2>1, <2>2, SignInAssumption DEF WrongCode, Pending, SignInTypes, NoChallenge, Times
    <3> QED
      BY <2>2, <3>1, CodeTried DEF WrongCode
  <2>3. CASE WrongReauthentication
    <3>1. minute \in Times /\ minute + Life > minute
      BY <2>1, SignInAssumption DEF SignInTypes, Times
    <3> QED
      BY <2>3, <3>1, CodeTried DEF WrongReauthentication
  <2>4. CASE RightCode
    <3>1. UNCHANGED <<signing, counted, guessed, minute>> /\ pendingAt' = NoChallenge
      BY <2>4 DEF RightCode
    <3>2. NoChallenge \in 0..NoChallenge
      BY SignInAssumption DEF NoChallenge
    <3>3. SignInTypes'
      BY <2>1, <3>1, <3>2 DEF SignInTypes
    <3> QED
      BY <3>1, <3>3, CodesAlone, PasswordsAlone DEF SignInInv, TriesAreRationed
  <2>5. CASE Minute
    <3>1. /\ UNCHANGED <<signing, pendingAt, counted, guessed>>
          /\ minute \in Int /\ minute' = minute + 1 /\ minute' \in Times
      BY <2>1, <2>5, SignInAssumption DEF Minute, SignInTypes, Times
    <3>2. SignInTypes'
      BY <2>1, <3>1 DEF SignInTypes
    <3>3. CountHolds'
      <4>1. ASSUME NEW t \in Times
            PROVE  /\ t > minute' => t > minute
                   /\ t + (Lock - 1) >= minute' => t + (Lock - 1) >= minute
        BY <3>1, SignInAssumption DEF Times
      <4> QED
        BY <3>1, <4>1 DEF SignInInv, CountHolds
    <3>4. PasswordsAreRationed'
      BY <3>1, RationsAreSums, NewRationsAreSums DEF SignInInv, TriesAreRationed
    <3> QED
      BY <3>1, <3>2, <3>3, <3>4, CodesAlone DEF SignInInv, TriesAreRationed
  <2>6. CASE UNCHANGED SignInVars
    <3>1. SignInTypes'
      BY <2>1, <2>6 DEF SignInTypes, SignInVars
    <3> QED
      BY <2>6, <3>1, CodesAlone, PasswordsAlone DEF SignInInv, TriesAreRationed, SignInVars
  <2>7. CASE RightPassword
    BY <2>7, PasswordForgiven DEF RightPassword
  <2>8. CASE NewPassword
    BY <2>8, PasswordForgiven DEF NewPassword
  <2> QED
    BY <2>2, <2>3, <2>4, <2>5, <2>6, <2>7, <2>8, PasswordTried DEF SignInNext
<1>2. SignInInv => TriesAreRationed
  BY DEF SignInInv
<1> QED
  BY <1>1, <1>2, SignInStarts, PTL DEF SignInSpec

-----------------------------------------------------------------------------
(***************************************************************************)
(* A release of the expert database                                        *)
(***************************************************************************)
Steps == {"none", "copied", "stopped", "configured", "linked", "healthy", "moved",
          "saved", "migrated", "installed", "switched", "assets", "index"}

Tools == [name : {"none", "activate", "stage", "patch"}, step : Steps, edited : BOOLEAN]

ReleaseTypes ==
    /\ link \in Releases /\ newest \in Releases
    /\ env \in [edits : Nat, unified : BOOLEAN] /\ package.env \in [edits : Nat,
       unified : BOOLEAN]
    /\ page \in [index : 0..Patch, assets : SUBSET (1..Patch)]
    /\ tool \in Tools
    /\ DOMAIN package = {"state", "link", "env"}

\* What has run is never newer than what current points to, which a restart runs.
RunsWhatIsLinked == newest <= link /\ api \in {0, newest}

\* How far an activation has come: before it writes the environment that is still the
\* one the package was prepared with, unless somebody changed it meanwhile.
Activating ==
    /\ package.state # "none" => package.link < Packaged
    /\ tool.name = "activate" =>
          /\ package.state = "started"
          /\ tool.step \in {"copied", "stopped", "configured", "linked", "healthy", "moved"}
          /\ tool.step \in {"copied", "stopped", "configured"} => link < Packaged
          /\ tool.step \in {"linked", "healthy", "moved"} => link = Packaged
          /\ tool.step \in {"copied", "stopped"} /\ ~tool.edited => env = package.env

\* How far a stage has come: its release is linked when the migrations have run.
Staging ==
    /\ link = Staged => schema = Staged
    /\ tool.name = "stage" =>
          /\ tool.step \in {"saved", "migrated", "installed", "switched", "healthy", "moved"}
          /\ tool.step # "saved" => schema = Staged
          /\ Switched => link = Staged

\* The first page of a patch is replaced when its assets are there.
Patching ==
    tool.name = "patch" =>
        /\ tool.step \in {"assets", "index"}
        /\ tool.step = "index" => Patch \in page.assets

ReleaseInv ==
    ReleaseTypes /\ RunsWhatIsLinked /\ Activating /\ Staging /\ Patching /\ PageHasItsAssets

LEMMA ReleaseStarts ==
    ASSUME ExpertInit
    PROVE  ReleaseInv
<1> USE DEF ExpertInit, Page, NoTool, Releases, Base, Packaged, Staged, Patch
<1>1. ReleaseTypes
  <2>1. page \in [index : 0..Patch, assets : SUBSET (1..Patch)]
    OBVIOUS
  <2>2. tool \in Tools
    BY DEF Steps, Tools
  <2> QED
    BY <2>1, <2>2 DEF ReleaseTypes
<1>2. tool.name = "none" /\ package.state = "none" /\ link = 1 /\ newest = 1 /\ api = 1
  OBVIOUS
<1>3. RunsWhatIsLinked /\ Activating /\ Staging /\ Patching
  BY <1>2 DEF RunsWhatIsLinked, Activating, Staging, Patching
<1>4. PageHasItsAssets
  <2>1. page.index = 1 /\ page.assets = {1}
    OBVIOUS
  <2> QED
    BY <2>1 DEF PageHasItsAssets
<1> QED
  BY <1>1, <1>3, <1>4 DEF ReleaseInv

\* What a script does to the note of how far it is.
LEMMA ToolMoves ==
    ASSUME ReleaseTypes, NEW name \in {"activate", "stage", "patch"}, NEW from, NEW to \in Steps,
           Go(name, from, to)
    PROVE  /\ tool.name = name /\ tool.step = from
           /\ tool'.name = name /\ tool'.step = to /\ tool'.edited = tool.edited
           /\ tool' \in Tools
BY DEF ReleaseTypes, Tools, Go

LEMMA ToolEnds ==
    ASSUME Ends
    PROVE  /\ tool'.name = "none"
           /\ tool' \in Tools
<1>1. /\ tool' = [name |-> "none", step |-> "none", edited |-> FALSE]
      /\ "none" \in Steps
  BY DEF Ends, NoTool, Steps
<1> QED
  BY <1>1 DEF Tools

LEMMA ReleaseKeeps ==
    ASSUME ReleaseInv, [ExpertNext]_expertVars
    PROVE  ReleaseInv'
<1> USE DEF Base, Packaged, Staged, Patch
<1>1. ReleaseTypes
  BY DEF ReleaseInv
<1>2. ASSUME EditEnv PROVE ReleaseInv'
  <2>1. /\ tool'.name = tool.name /\ tool'.step = tool.step
        /\ tool.name # "none" => tool'.edited
        /\ tool' \in Tools
    BY <1>1, <1>2 DEF EditEnv, ReleaseTypes, Tools
  <2>2. ReleaseTypes'
    BY <1>1, <1>2, <2>1 DEF EditEnv, ReleaseTypes, Releases
  <2>3. RunsWhatIsLinked' /\ Activating' /\ Staging'
    BY <1>1, <1>2, <2>1 DEF EditEnv, ReleaseInv, RunsWhatIsLinked, Activating, Staging, Switched,
       ReleaseTypes, Releases
  <2>4. Patching' /\ PageHasItsAssets'
    BY <1>1, <1>2, <2>1 DEF EditEnv, ReleaseInv, Patching, PageHasItsAssets, ReleaseTypes
  <2> QED
    BY <2>2, <2>3, <2>4 DEF ReleaseInv
<1>3. ASSUME HostRestarts PROVE ReleaseInv'
  <2>1. /\ tool' = tool
        /\ tool' \in Tools
    BY <1>1, <1>3 DEF HostRestarts, ReleaseTypes, Tools
  <2>2. ReleaseTypes'
    BY <1>1, <1>3, <2>1 DEF HostRestarts, ReleaseTypes, Releases, Run
  <2>3. RunsWhatIsLinked' /\ Activating' /\ Staging'
    BY <1>1, <1>3, <2>1 DEF HostRestarts, ReleaseInv, RunsWhatIsLinked, Activating, Staging,
       Switched,
       ReleaseTypes, Releases, Run
  <2>4. Patching' /\ PageHasItsAssets'
    BY <1>1, <1>3, <2>1 DEF HostRestarts, ReleaseInv, Patching, PageHasItsAssets, ReleaseTypes,
       Run
  <2> QED
    BY <2>2, <2>3, <2>4 DEF ReleaseInv
<1>4. ASSUME Prepare PROVE ReleaseInv'
  <2>1. /\ tool' = tool
        /\ tool' \in Tools
    BY <1>1, <1>4 DEF Prepare, ReleaseTypes, Tools
  <2>2. ReleaseTypes'
    BY <1>1, <1>4, <2>1 DEF Prepare, ReleaseTypes, Releases
  <2>3. RunsWhatIsLinked' /\ Activating' /\ Staging'
    BY <1>1, <1>4, <2>1 DEF Prepare, ReleaseInv, RunsWhatIsLinked, Activating, Staging, Switched,
       ReleaseTypes, Releases
  <2>4. Patching' /\ PageHasItsAssets'
    BY <1>1, <1>4, <2>1 DEF Prepare, ReleaseInv, Patching, PageHasItsAssets, ReleaseTypes
  <2> QED
    BY <2>2, <2>3, <2>4 DEF ReleaseInv
<1>5. ASSUME Activate PROVE ReleaseInv'
  <2>1. /\ tool.name = "none"
        /\ tool'.name = "activate" /\ tool'.step = "copied"
        /\ tool' \in Tools
    BY <1>5 DEF Activate, NoTool, Steps, Tools
  <2>2. ReleaseTypes'
    BY <1>1, <1>5, <2>1 DEF Activate, ReleaseTypes, Releases, AsPrepared
  <2>3. RunsWhatIsLinked' /\ Activating' /\ Staging'
    BY <1>1, <1>5, <2>1 DEF Activate, ReleaseInv, RunsWhatIsLinked, Activating, Staging, Switched,
       ReleaseTypes, Releases, AsPrepared
  <2>4. Patching' /\ PageHasItsAssets'
    BY <1>1, <1>5, <2>1 DEF Activate, ReleaseInv, Patching, PageHasItsAssets, ReleaseTypes,
       AsPrepared
  <2> QED
    BY <2>2, <2>3, <2>4 DEF ReleaseInv
<1>6. ASSUME ActivateStops PROVE ReleaseInv'
  <2>1. /\ tool.name = "activate" /\ tool.step = "copied"
        /\ tool'.name = "activate" /\ tool'.step = "stopped" /\ tool'.edited = tool.edited
        /\ tool' \in Tools
    BY <1>1, <1>6, ToolMoves DEF ActivateStops, Steps, Tools
  <2>2. ReleaseTypes'
    BY <1>1, <1>6, <2>1 DEF ActivateStops, ReleaseTypes, Releases
  <2>3. RunsWhatIsLinked' /\ Activating' /\ Staging'
    BY <1>1, <1>6, <2>1 DEF ActivateStops, ReleaseInv, RunsWhatIsLinked, Activating, Staging,
       Switched,
       ReleaseTypes, Releases
  <2>4. Patching' /\ PageHasItsAssets'
    BY <1>1, <1>6, <2>1 DEF ActivateStops, ReleaseInv, Patching, PageHasItsAssets, ReleaseTypes
  <2> QED
    BY <2>2, <2>3, <2>4 DEF ReleaseInv
<1>7. ASSUME ActivateEnv PROVE ReleaseInv'
  <2>1. /\ tool.name = "activate" /\ tool.step = "stopped"
        /\ tool'.name = "activate" /\ tool'.step = "configured" /\ tool'.edited = tool.edited
        /\ tool' \in Tools
    BY <1>1, <1>7, ToolMoves DEF ActivateEnv, Steps, Tools
  <2>2. ReleaseTypes'
    BY <1>1, <1>7, <2>1 DEF ActivateEnv, ReleaseTypes, Releases
  <2>3. RunsWhatIsLinked' /\ Activating' /\ Staging'
    BY <1>1, <1>7, <2>1 DEF ActivateEnv, ReleaseInv, RunsWhatIsLinked, Activating, Staging,
       Switched,
       ReleaseTypes, Releases
  <2>4. Patching' /\ PageHasItsAssets'
    BY <1>1, <1>7, <2>1 DEF ActivateEnv, ReleaseInv, Patching, PageHasItsAssets, ReleaseTypes
  <2> QED
    BY <2>2, <2>3, <2>4 DEF ReleaseInv
<1>8. ASSUME ActivateLink PROVE ReleaseInv'
  <2>1. /\ tool.name = "activate" /\ tool.step = "configured"
        /\ tool'.name = "activate" /\ tool'.step = "linked" /\ tool'.edited = tool.edited
        /\ tool' \in Tools
    BY <1>1, <1>8, ToolMoves DEF ActivateLink, Steps, Tools
  <2>2. ReleaseTypes'
    BY <1>1, <1>8, <2>1 DEF ActivateLink, ReleaseTypes, Releases
  <2>3. RunsWhatIsLinked' /\ Activating' /\ Staging'
    BY <1>1, <1>8, <2>1 DEF ActivateLink, ReleaseInv, RunsWhatIsLinked, Activating, Staging,
       Switched,
       ReleaseTypes, Releases
  <2>4. Patching' /\ PageHasItsAssets'
    BY <1>1, <1>8, <2>1 DEF ActivateLink, ReleaseInv, Patching, PageHasItsAssets, ReleaseTypes
  <2> QED
    BY <2>2, <2>3, <2>4 DEF ReleaseInv
<1>9. ASSUME ActivateStarts PROVE ReleaseInv'
  <2>1. /\ tool.name = "activate" /\ tool.step = "linked"
        /\ tool'.name = "activate" /\ tool'.step = "healthy" /\ tool'.edited = tool.edited
        /\ tool' \in Tools
    BY <1>1, <1>9, ToolMoves DEF ActivateStarts, Steps, Tools
  <2>2. ReleaseTypes'
    BY <1>1, <1>9, <2>1 DEF ActivateStarts, ReleaseTypes, Releases, Run
  <2>3. RunsWhatIsLinked' /\ Activating' /\ Staging'
    BY <1>1, <1>9, <2>1 DEF ActivateStarts, ReleaseInv, RunsWhatIsLinked, Activating, Staging,
       Switched,
       ReleaseTypes, Releases, Run
  <2>4. Patching' /\ PageHasItsAssets'
    BY <1>1, <1>9, <2>1 DEF ActivateStarts, ReleaseInv, Patching, PageHasItsAssets,
       ReleaseTypes, Run
  <2> QED
    BY <2>2, <2>3, <2>4 DEF ReleaseInv
<1>10. ASSUME ActivateMovesOld PROVE ReleaseInv'
  <2>1. /\ tool.name = "activate" /\ tool.step = "healthy"
        /\ tool'.name = "activate" /\ tool'.step = "moved" /\ tool'.edited = tool.edited
        /\ tool' \in Tools
    BY <1>1, <1>10, ToolMoves DEF ActivateMovesOld, Steps, Tools
  <2>2. ReleaseTypes'
    BY <1>1, <1>10, <2>1 DEF ActivateMovesOld, ReleaseTypes, Releases
  <2>3. RunsWhatIsLinked' /\ Activating' /\ Staging'
    BY <1>1, <1>10, <2>1 DEF ActivateMovesOld, ReleaseInv, RunsWhatIsLinked, Activating,
       Staging, Switched,
       ReleaseTypes, Releases
  <2>4. Patching' /\ PageHasItsAssets'
    BY <1>1, <1>10, <2>1 DEF ActivateMovesOld, ReleaseInv, Patching, PageHasItsAssets,
       ReleaseTypes
  <2> QED
    BY <2>2, <2>3, <2>4 DEF ReleaseInv
<1>11. ASSUME ActivateMovesNew PROVE ReleaseInv'
  <2>1. /\ tool'.name = "none"
        /\ tool' \in Tools
    BY <1>11, ToolEnds DEF ActivateMovesNew, Tools
  <2>2. ReleaseTypes'
    BY <1>1, <1>11, <2>1 DEF ActivateMovesNew, ReleaseTypes, Releases, Page
  <2>3. RunsWhatIsLinked' /\ Activating' /\ Staging'
    BY <1>1, <1>11, <2>1 DEF ActivateMovesNew, ReleaseInv, RunsWhatIsLinked, Activating,
       Staging, Switched,
       ReleaseTypes, Releases, Page
  <2>4. Patching' /\ PageHasItsAssets'
    BY <1>1, <1>11, <2>1 DEF ActivateMovesNew, ReleaseInv, Patching, PageHasItsAssets,
       ReleaseTypes, Page
  <2> QED
    BY <2>2, <2>3, <2>4 DEF ReleaseInv
<1>12. ASSUME ActivateFails PROVE ReleaseInv'
  <2>1. /\ tool'.name = "none"
        /\ tool' \in Tools
    BY <1>12, ToolEnds DEF ActivateFails, Tools
  <2>2. ReleaseTypes'
    BY <1>1, <1>12, <2>1 DEF ActivateFails, ReleaseTypes, Releases
  <2>3. RunsWhatIsLinked' /\ Activating' /\ Staging'
    BY <1>1, <1>12, <2>1 DEF ActivateFails, ReleaseInv, RunsWhatIsLinked, Activating, Staging,
       Switched,
       ReleaseTypes, Releases
  <2>4. Patching' /\ PageHasItsAssets'
    BY <1>1, <1>12, <2>1 DEF ActivateFails, ReleaseInv, Patching, PageHasItsAssets, ReleaseTypes
  <2> QED
    BY <2>2, <2>3, <2>4 DEF ReleaseInv
<1>13. ASSUME Stage PROVE ReleaseInv'
  <2>1. /\ tool.name = "none"
        /\ tool'.name = "stage" /\ tool'.step = "saved"
        /\ tool' \in Tools
    BY <1>13 DEF Stage, NoTool, Steps, Tools
  <2>2. ReleaseTypes'
    BY <1>1, <1>13, <2>1 DEF Stage, ReleaseTypes, Releases
  <2>3. RunsWhatIsLinked' /\ Activating' /\ Staging'
    BY <1>1, <1>13, <2>1 DEF Stage, ReleaseInv, RunsWhatIsLinked, Activating, Staging, Switched,
       ReleaseTypes, Releases
  <2>4. Patching' /\ PageHasItsAssets'
    BY <1>1, <1>13, <2>1 DEF Stage, ReleaseInv, Patching, PageHasItsAssets, ReleaseTypes
  <2> QED
    BY <2>2, <2>3, <2>4 DEF ReleaseInv
<1>14. ASSUME StageMigrates PROVE ReleaseInv'
  <2>1. /\ tool.name = "stage" /\ tool.step = "saved"
        /\ tool'.name = "stage" /\ tool'.step = "migrated" /\ tool'.edited = tool.edited
        /\ tool' \in Tools
    BY <1>1, <1>14, ToolMoves DEF StageMigrates, Steps, Tools
  <2>2. ReleaseTypes'
    BY <1>1, <1>14, <2>1 DEF StageMigrates, ReleaseTypes, Releases
  <2>3. RunsWhatIsLinked' /\ Activating' /\ Staging'
    BY <1>1, <1>14, <2>1 DEF StageMigrates, ReleaseInv, RunsWhatIsLinked, Activating, Staging,
       Switched,
       ReleaseTypes, Releases
  <2>4. Patching' /\ PageHasItsAssets'
    BY <1>1, <1>14, <2>1 DEF StageMigrates, ReleaseInv, Patching, PageHasItsAssets, ReleaseTypes
  <2> QED
    BY <2>2, <2>3, <2>4 DEF ReleaseInv
<1>15. ASSUME StageInstalls PROVE ReleaseInv'
  <2>1. /\ tool.name = "stage" /\ tool.step = "migrated"
        /\ tool'.name = "stage" /\ tool'.step = "installed" /\ tool'.edited = tool.edited
        /\ tool' \in Tools
    BY <1>1, <1>15, ToolMoves DEF StageInstalls, Steps, Tools
  <2>2. ReleaseTypes'
    BY <1>1, <1>15, <2>1 DEF StageInstalls, ReleaseTypes, Releases
  <2>3. RunsWhatIsLinked' /\ Activating' /\ Staging'
    BY <1>1, <1>15, <2>1 DEF StageInstalls, ReleaseInv, RunsWhatIsLinked, Activating, Staging,
       Switched,
       ReleaseTypes, Releases
  <2>4. Patching' /\ PageHasItsAssets'
    BY <1>1, <1>15, <2>1 DEF StageInstalls, ReleaseInv, Patching, PageHasItsAssets, ReleaseTypes
  <2> QED
    BY <2>2, <2>3, <2>4 DEF ReleaseInv
<1>16. ASSUME StageSwitches PROVE ReleaseInv'
  <2>1. /\ tool.name = "stage" /\ tool.step = "installed"
        /\ tool'.name = "stage" /\ tool'.step = "switched" /\ tool'.edited = tool.edited
        /\ tool' \in Tools
    BY <1>1, <1>16, ToolMoves DEF StageSwitches, Steps, Tools
  <2>2. ReleaseTypes'
    BY <1>1, <1>16, <2>1 DEF StageSwitches, ReleaseTypes, Releases
  <2>3. RunsWhatIsLinked' /\ Activating' /\ Staging'
    BY <1>1, <1>16, <2>1 DEF StageSwitches, ReleaseInv, RunsWhatIsLinked, Activating, Staging,
       Switched,
       ReleaseTypes, Releases
  <2>4. Patching' /\ PageHasItsAssets'
    BY <1>1, <1>16, <2>1 DEF StageSwitches, ReleaseInv, Patching, PageHasItsAssets, ReleaseTypes
  <2> QED
    BY <2>2, <2>3, <2>4 DEF ReleaseInv
<1>17. ASSUME StageRestarts PROVE ReleaseInv'
  <2>1. /\ tool.name = "stage" /\ tool.step = "switched"
        /\ tool'.name = "stage" /\ tool'.step = "healthy" /\ tool'.edited = tool.edited
        /\ tool' \in Tools
    BY <1>1, <1>17, ToolMoves DEF StageRestarts, Steps, Tools
  <2>2. ReleaseTypes'
    BY <1>1, <1>17, <2>1 DEF StageRestarts, ReleaseTypes, Releases, Run
  <2>3. RunsWhatIsLinked' /\ Activating' /\ Staging'
    BY <1>1, <1>17, <2>1 DEF StageRestarts, ReleaseInv, RunsWhatIsLinked, Activating, Staging,
       Switched,
       ReleaseTypes, Releases, Run
  <2>4. Patching' /\ PageHasItsAssets'
    BY <1>1, <1>17, <2>1 DEF StageRestarts, ReleaseInv, Patching, PageHasItsAssets,
       ReleaseTypes, Run
  <2> QED
    BY <2>2, <2>3, <2>4 DEF ReleaseInv
<1>18. ASSUME StageMovesOld PROVE ReleaseInv'
  <2>1. /\ tool.name = "stage" /\ tool.step = "healthy"
        /\ tool'.name = "stage" /\ tool'.step = "moved" /\ tool'.edited = tool.edited
        /\ tool' \in Tools
    BY <1>1, <1>18, ToolMoves DEF StageMovesOld, Steps, Tools
  <2>2. ReleaseTypes'
    BY <1>1, <1>18, <2>1 DEF StageMovesOld, ReleaseTypes, Releases
  <2>3. RunsWhatIsLinked' /\ Activating' /\ Staging'
    BY <1>1, <1>18, <2>1 DEF StageMovesOld, ReleaseInv, RunsWhatIsLinked, Activating, Staging,
       Switched,
       ReleaseTypes, Releases
  <2>4. Patching' /\ PageHasItsAssets'
    BY <1>1, <1>18, <2>1 DEF StageMovesOld, ReleaseInv, Patching, PageHasItsAssets, ReleaseTypes
  <2> QED
    BY <2>2, <2>3, <2>4 DEF ReleaseInv
<1>19. ASSUME StageMovesNew PROVE ReleaseInv'
  <2>1. /\ tool'.name = "none"
        /\ tool' \in Tools
    BY <1>19, ToolEnds DEF StageMovesNew, Tools
  <2>2. ReleaseTypes'
    BY <1>1, <1>19, <2>1 DEF StageMovesNew, ReleaseTypes, Releases, Page
  <2>3. RunsWhatIsLinked' /\ Activating' /\ Staging'
    BY <1>1, <1>19, <2>1 DEF StageMovesNew, ReleaseInv, RunsWhatIsLinked, Activating, Staging,
       Switched,
       ReleaseTypes, Releases, Page
  <2>4. Patching' /\ PageHasItsAssets'
    BY <1>1, <1>19, <2>1 DEF StageMovesNew, ReleaseInv, Patching, PageHasItsAssets,
       ReleaseTypes, Page
  <2> QED
    BY <2>2, <2>3, <2>4 DEF ReleaseInv
<1>20. ASSUME StageFails PROVE ReleaseInv'
  <2>1. /\ tool'.name = "none"
        /\ tool' \in Tools
    BY <1>20, ToolEnds DEF StageFails, Tools
  <2>2. ReleaseTypes'
    BY <1>1, <1>20, <2>1 DEF StageFails, ReleaseTypes, Releases, Rollback, Run
  <2>3. RunsWhatIsLinked' /\ Activating' /\ Staging'
    BY <1>1, <1>20, <2>1 DEF StageFails, ReleaseInv, RunsWhatIsLinked, Activating, Staging,
       Switched,
       ReleaseTypes, Releases, Rollback, Run
  <2>4. Patching' /\ PageHasItsAssets'
    BY <1>1, <1>20, <2>1 DEF StageFails, ReleaseInv, Patching, PageHasItsAssets, ReleaseTypes,
       Rollback, Run
  <2> QED
    BY <2>2, <2>3, <2>4 DEF ReleaseInv
<1>21. ASSUME PatchBegins PROVE ReleaseInv'
  <2>1. /\ tool.name = "none"
        /\ tool'.name = "patch" /\ tool'.step = "assets"
        /\ tool' \in Tools
    BY <1>21 DEF PatchBegins, NoTool, Steps, Tools
  <2>2. ReleaseTypes'
    BY <1>1, <1>21, <2>1 DEF PatchBegins, ReleaseTypes, Releases
  <2>3. RunsWhatIsLinked' /\ Activating' /\ Staging'
    BY <1>1, <1>21, <2>1 DEF PatchBegins, ReleaseInv, RunsWhatIsLinked, Activating, Staging,
       Switched,
       ReleaseTypes, Releases
  <2>4. Patching' /\ PageHasItsAssets'
    BY <1>1, <1>21, <2>1 DEF PatchBegins, ReleaseInv, Patching, PageHasItsAssets, ReleaseTypes
  <2> QED
    BY <2>2, <2>3, <2>4 DEF ReleaseInv
<1>22. ASSUME PatchAssets PROVE ReleaseInv'
  <2>1. /\ tool.name = "patch" /\ tool.step = "assets"
        /\ tool'.name = "patch" /\ tool'.step = "index" /\ tool'.edited = tool.edited
        /\ tool' \in Tools
    BY <1>1, <1>22, ToolMoves DEF PatchAssets, Steps, Tools
  <2>2. ReleaseTypes'
    BY <1>1, <1>22, <2>1 DEF PatchAssets, ReleaseTypes, Releases, Patched
  <2>3. RunsWhatIsLinked' /\ Activating' /\ Staging'
    BY <1>1, <1>22, <2>1 DEF PatchAssets, ReleaseInv, RunsWhatIsLinked, Activating, Staging,
       Switched,
       ReleaseTypes, Releases, Patched
  <2>4. Patching' /\ PageHasItsAssets'
    BY <1>1, <1>22, <2>1 DEF PatchAssets, ReleaseInv, Patching, PageHasItsAssets, ReleaseTypes,
       Patched
  <2> QED
    BY <2>2, <2>3, <2>4 DEF ReleaseInv
<1>23. ASSUME PatchIndex PROVE ReleaseInv'
  <2>1. /\ tool'.name = "none"
        /\ tool' \in Tools
    BY <1>23, ToolEnds DEF PatchIndex, Tools
  <2>2. ReleaseTypes'
    BY <1>1, <1>23, <2>1 DEF PatchIndex, ReleaseTypes, Releases, Patched
  <2>3. RunsWhatIsLinked' /\ Activating' /\ Staging'
    BY <1>1, <1>23, <2>1 DEF PatchIndex, ReleaseInv, RunsWhatIsLinked, Activating, Staging,
       Switched,
       ReleaseTypes, Releases, Patched
  <2>4. Patching' /\ PageHasItsAssets'
    BY <1>1, <1>23, <2>1 DEF PatchIndex, ReleaseInv, Patching, PageHasItsAssets, ReleaseTypes,
       Patched
  <2> QED
    BY <2>2, <2>3, <2>4 DEF ReleaseInv
<1>24. ASSUME PatchFails PROVE ReleaseInv'
  <2>1. /\ tool'.name = "none"
        /\ tool' \in Tools
    BY <1>24, ToolEnds DEF PatchFails, Tools
  <2>2. ReleaseTypes'
    BY <1>1, <1>24, <2>1 DEF PatchFails, ReleaseTypes, Releases
  <2>3. RunsWhatIsLinked' /\ Activating' /\ Staging'
    BY <1>1, <1>24, <2>1 DEF PatchFails, ReleaseInv, RunsWhatIsLinked, Activating, Staging,
       Switched,
       ReleaseTypes, Releases
  <2>4. Patching' /\ PageHasItsAssets'
    BY <1>1, <1>24, <2>1 DEF PatchFails, ReleaseInv, Patching, PageHasItsAssets, ReleaseTypes
  <2> QED
    BY <2>2, <2>3, <2>4 DEF ReleaseInv
<1>25. ASSUME UNCHANGED expertVars PROVE ReleaseInv'
  BY <1>25 DEF expertVars, ReleaseInv, RunsWhatIsLinked, Activating, Staging, Patching,
     PageHasItsAssets, Switched, ReleaseTypes
<1> QED
  BY <1>2, <1>3, <1>4, <1>5, <1>6, <1>7, <1>8, <1>9, <1>10, <1>11, <1>12, <1>13, <1>14, <1>15,
     <1>16, <1>17, <1>18, <1>19, <1>20, <1>21, <1>22, <1>23, <1>24, <1>25
     DEF ExpertNext

LEMMA ReleaseShows ==
    ASSUME ReleaseInv
    PROVE  NoGoingBack /\ SchemaIsThere /\ PageHasItsAssets
BY DEF ReleaseInv, ReleaseTypes, Releases, RunsWhatIsLinked, Staging, NoGoingBack, SchemaIsThere,
       Base, Packaged, Staged

LEMMA EditsStay ==
    ASSUME ReleaseInv, [ExpertNext]_expertVars
    PROVE  env'.edits < env.edits => tool.edited
<1>1. env \in [edits : Nat, unified : BOOLEAN] /\ package.env \in [edits : Nat, unified : BOOLEAN]
  BY DEF ReleaseInv, ReleaseTypes
<1>2. CASE ActivateEnv
  <2>1. tool.name = "activate" /\ tool.step = "stopped"
    BY <1>2 DEF ActivateEnv, Go
  <2>2. ~tool.edited => env = package.env
    BY <2>1 DEF ReleaseInv, Activating
  <2>3. env' = [package.env EXCEPT !.unified = TRUE]
    BY <1>2 DEF ActivateEnv
  <2>4. env'.edits = package.env.edits
    BY <1>1, <2>3
  <2> QED
    BY <1>1, <2>2, <2>4
<1>3. CASE EditEnv
  BY <1>1, <1>3 DEF EditEnv
<1>4. CASE UNCHANGED env
  BY <1>1, <1>4
<1>5. ActivateEnv \/ EditEnv \/ UNCHANGED env
  BY DEF ExpertNext, expertVars, HostRestarts, Prepare, Activate, ActivateStops, ActivateLink,
         ActivateStarts, ActivateMovesOld, ActivateMovesNew, ActivateFails, Stage, StageMigrates,
         StageInstalls, StageSwitches, StageRestarts, StageMovesOld, StageMovesNew, StageFails,
         PatchBegins, PatchAssets, PatchIndex, PatchFails
<1> QED
  BY <1>2, <1>3, <1>4, <1>5

\* Whatever stage, package or patch fails, and at whichever command: no older code comes
\* back to accounts that have used newer code, the code that runs finds its schema, a
\* published page its assets, and no change of the environment is undone unseen.
THEOREM ExpertReleaseStands == ExpertSpec => ReleaseStands
<1>1. ExpertSpec => []ReleaseInv
  BY ReleaseStarts, ReleaseKeeps, PTL DEF ExpertSpec
<1>2. ReleaseInv => NoGoingBack /\ SchemaIsThere /\ PageHasItsAssets
  BY ReleaseShows
<1>3. ReleaseInv /\ [ExpertNext]_expertVars
      => [env'.edits < env.edits => tool.edited]_expertVars
  BY EditsStay
<1>4. ExpertSpec => [][env'.edits < env.edits => tool.edited]_expertVars
  BY <1>1, <1>3, PTL DEF ExpertSpec
<1> QED
  BY <1>1, <1>2, <1>4, PTL DEF ReleaseStands, EditsKept

-----------------------------------------------------------------------------
(***************************************************************************)
(* The catalogue of the expert database                                    *)
(***************************************************************************)
Value == Type \cup {"empty"}
Values == [Field -> Value]

CatalogTypes ==
    /\ settings.maxLevel \in 1..2
    /\ template.revision \in Nat /\ template.type \in Type
    /\ indicator \in [Node -> {"unborn", "live", "gone"}] /\ parent \in Node
    /\ DOMAIN content = {"record", "summary", "values", "evidence", "revision"}
    /\ content.values \in Values /\ content.evidence \in Value /\ content.revision \in Nat
    /\ content.record \in BOOLEAN
    /\ history \in Seq([values : Values, field : Field])
    /\ DOMAIN work = Editor

\* An indicator is born once, and what is written about it goes with it.
RecordIsLive ==
    /\ content.record => indicator["c"] = "live"
    /\ ~content.record => content.values = Empty /\ content.evidence = "empty" /\ history = <<>>
    /\ content.revision = Len(history)
    /\ history = <<>> => content.values = Empty

\* A move or a creation names one of the two indicators above.
UnderOne ==
    \A e \in Editor : work[e].op \in {"create", "move"} => work[e].under \in {"p", "q"}

\* What a save is going to write, as it was checked: against the template of its
\* revision, and merged into the values of the revision it read.
SavesAsChecked ==
    \A e \in Editor :
        /\ work[e].op = "module" =>
              /\ work[e].field \in Field /\ work[e].values \in Values
              /\ work[e].revision \in Nat /\ work[e].seen \in Nat
              /\ work[e].seen <= template.revision
              /\ work[e].seen = template.revision =>
                    \A f \in Field : work[e].values[f] \in {template.type, "empty"}
              /\ indicator["c"] # "unborn"
              /\ indicator["c"] = "live" => content.record /\ work[e].revision <= content.revision
              /\ indicator["c"] = "live" /\ work[e].revision = content.revision =>
                    \A f \in Field \ {work[e].field} : work[e].values[f] = content.values[f]
        /\ work[e].op = "evidence" =>
              /\ work[e].type \in Type /\ work[e].seen \in Nat /\ work[e].seen <= template.revision
              /\ work[e].seen = template.revision => work[e].type = template.type

\* Whoever deletes holds the row of the system.
DeletesAlone ==
    /\ \A e \in Editor : work[e].op = "delete" => catLock = "held" /\ work[e].node \in Node
    /\ \A e, d \in Editor : work[e].op = "delete" /\ work[d].op = "delete" => e = d

\* A copy that was read under the settings of now is as deep as they allow and of their types.
CopiesAsRead ==
    /\ settings.revision \in Nat
    /\ \A e \in Editor : work[e].op = "clone" =>
          /\ work[e].types \subseteq Type
          /\ work[e].revision \in Nat /\ work[e].revision <= settings.revision
          /\ work[e].revision = settings.revision =>
                settings.maxLevel >= 2 /\ work[e].types \subseteq {template.type}

CatalogInv ==
    /\ CatalogTypes /\ RecordIsLive /\ UnderOne /\ SavesAsChecked /\ DeletesAlone
    /\ CopiesAsRead /\ CatalogHolds

LEMMA CatalogStarts ==
    ASSUME CatalogInit
    PROVE  CatalogInv
<1> USE DEF CatalogInit, NoRecord
<1>1. /\ content.values = Empty /\ content.evidence = "empty" /\ content.revision = 0
      /\ content.record = FALSE /\ history = <<>>
      /\ DOMAIN content = {"record", "summary", "values", "evidence", "revision"}
      /\ template.type = "text" /\ template.revision = 1 /\ settings.maxLevel = 2
      /\ settings.revision = 1 /\ copied = {}
      /\ parent = "p" /\ indicator["c"] = "unborn"
      /\ indicator \in [Node -> {"unborn", "live", "gone"}]
      /\ DOMAIN work = Editor
  BY DEF Node
<1>2. \A e \in Editor : work[e].op = "rest"
  BY DEF Rest
<1> HIDE DEF CatalogInit, NoRecord
<1>3. Empty \in Values /\ \A f \in Field : Empty[f] = "empty"
  BY DEF Empty, Values, Value
<1>4. history \in Seq([values : Values, field : Field]) /\ Len(history) = 0 /\ DOMAIN history = {}
  BY <1>1
<1>5. CatalogTypes
  <2>1. settings.maxLevel \in 1..2 /\ template.revision \in Nat /\ content.revision \in Nat
    BY <1>1
  <2>2. template.type \in Type /\ parent \in Node /\ content.evidence \in Value
    BY <1>1 DEF Value, Type, Node
  <2>3. content.record \in BOOLEAN
    BY <1>1, Zenon
  <2> QED
    BY <1>1, <1>3, <1>4, <2>1, <2>2, <2>3 DEF CatalogTypes
<1>6. RecordIsLive /\ UnderOne /\ SavesAsChecked /\ DeletesAlone /\ CopiesAsRead /\ CopyFits
  BY <1>1, <1>2, <1>4
     DEF RecordIsLive, UnderOne, SavesAsChecked, DeletesAlone, CopiesAsRead, CopyFits
<1>7. TreeFits /\ UsedFieldsKeepType /\ NoFieldLost /\ DeletedKnowingly
  BY <1>1, <1>2, <1>3, <1>4 DEF TreeFits, UsedFieldsKeepType, NoFieldLost, DeletedKnowingly
<1> QED
  BY <1>5, <1>6, <1>7 DEF CatalogInv, CatalogHolds

LEMMA WorkSet ==
    ASSUME CatalogInv, NEW e \in Editor, NEW r, work' = [work EXCEPT ![e] = r]
    PROVE  /\ work'[e] = r /\ DOMAIN work' = Editor
           /\ \A d \in Editor : d # e => work'[d] = work[d]
<1>1. DOMAIN work = Editor
  BY DEF CatalogInv, CatalogTypes
<1> QED
  BY <1>1

\* Whether somebody looked at it: the rest of what is written stays as it was.
LEMMA RecordMade ==
    ASSUME CatalogInv, content' = content \/ EnsureRecord
    PROVE  /\ content'.values = content.values /\ content'.evidence = content.evidence
           /\ content'.revision = content.revision
           /\ DOMAIN content' = {"record", "summary", "values", "evidence", "revision"}
           /\ content' = content \/ content'.record = TRUE
           /\ EnsureRecord => content'.record = TRUE
           /\ content'.record \in BOOLEAN
BY DEF CatalogInv, CatalogTypes, EnsureRecord

LEMMA WritingsAlone ==
    ASSUME CatalogInv, content'.values = content.values,
           content'.evidence \in {content.evidence, "empty"}, UNCHANGED <<template, history>>
    PROVE  UsedFieldsKeepType' /\ NoFieldLost'
<1>1. UsedFieldsKeepType /\ NoFieldLost
  BY DEF CatalogInv, CatalogHolds
<1>2. UsedFieldsKeepType'
  BY <1>1 DEF UsedFieldsKeepType
<1>3. NoFieldLost'
  BY <1>1 DEF NoFieldLost
<1> QED
  BY <1>2, <1>3

\* The copy and the settings it was read under stay as they are.
LEMMA CopyAlone ==
    ASSUME CatalogInv, NEW e \in Editor, NEW r, work' = [work EXCEPT ![e] = r], r.op # "clone",
           UNCHANGED <<settings, template, copied>>
    PROVE  CopiesAsRead' /\ CopyFits'
<1>1. /\ work'[e] = r /\ \A d \in Editor : d # e => work'[d] = work[d]
  BY WorkSet
<1>2. CopiesAsRead /\ CopyFits
  BY DEF CatalogInv, CatalogHolds
<1>3. CopiesAsRead'
  BY <1>1, <1>2 DEF CopiesAsRead
<1>4. CopyFits'
  BY <1>2 DEF CopyFits
<1> QED
  BY <1>3, <1>4

LEMMA RestIsNoCopy == Rest.op # "clone"
BY DEF Rest

\* A request that is made, dropped or over, and names nothing it would write.
LEMMA AskingKeeps ==
    ASSUME CatalogInv, NEW e \in Editor, NEW r,
           r.op \notin {"module", "evidence", "delete"},
           r.op \in {"create", "move"} => r.under \in {"p", "q"},
           r.op = "clone" =>
               /\ r.types \subseteq {template.type} /\ r.revision = settings.revision
               /\ settings.maxLevel >= 2,
           work' = [work EXCEPT ![e] = r],
           UNCHANGED <<settings, template, indicator, parent, history, copied, catLock>>,
           content' = content \/ (indicator["c"] = "live" /\ EnsureRecord)
    PROVE  CatalogInv'
<1>1. /\ work'[e] = r /\ DOMAIN work' = Editor
      /\ \A d \in Editor : d # e => work'[d] = work[d]
  BY WorkSet
<1>2. /\ content'.values = content.values /\ content'.evidence = content.evidence
      /\ content'.revision = content.revision
      /\ DOMAIN content' = {"record", "summary", "values", "evidence", "revision"}
      /\ content' = content \/ (indicator["c"] = "live" /\ content'.record = TRUE)
      /\ content'.record \in BOOLEAN
  BY RecordMade
<1>3. CatalogTypes'
  BY <1>1, <1>2 DEF CatalogInv, CatalogTypes
<1>4. RecordIsLive'
  BY <1>2 DEF CatalogInv, RecordIsLive
<1>5. UnderOne'
  BY <1>1 DEF CatalogInv, UnderOne
<1>6. SavesAsChecked'
  BY <1>1, <1>2 DEF CatalogInv, SavesAsChecked
<1>7. DeletesAlone'
  BY <1>1 DEF CatalogInv, DeletesAlone
<1>8. TreeFits' /\ DeletedKnowingly'
  BY <1>1, <1>2 DEF CatalogInv, CatalogHolds, TreeFits, DeletedKnowingly
<1>9. CopiesAsRead' /\ CopyFits'
  <2>1. CopiesAsRead /\ CopyFits /\ template.type \in Type
    BY DEF CatalogInv, CatalogHolds, CatalogTypes
  <2>2. CopiesAsRead'
    BY <1>1, <2>1 DEF CopiesAsRead
  <2>3. CopyFits'
    BY <2>1 DEF CopyFits
  <2> QED
    BY <2>2, <2>3
<1> QED
  BY <1>2, <1>3, <1>4, <1>5, <1>6, <1>7, <1>8, <1>9, WritingsAlone DEF CatalogInv, CatalogHolds

LEMMA DropKeeps ==
    ASSUME CatalogInv, NEW e \in Editor, Drop(e)
    PROVE  CatalogInv'
<1>1. /\ work' = [work EXCEPT ![e] = Rest] /\ content' = content
      /\ UNCHANGED <<settings, template, indicator, parent, history, copied, catLock>>
  BY DEF Drop, Finish
<1>2. Rest.op = "rest"
  BY DEF Rest
<1> HIDE DEF Rest
<1> QED
  BY <1>1, <1>2, AskingKeeps

LEMMA AsksKeep ==
    ASSUME CatalogInv, NEW e \in Editor,
           AskNode(e) \/ OpenSettings(e) \/ OpenWorkspace(e) \/ AskSummary(e) \/ AskClone(e)
    PROVE  CatalogInv'
<1>1. CASE AskNode(e)
  <2>1. PICK n \in {"p", "q"} :
           /\ work' = [work EXCEPT ![e] = [op |-> IF indicator["c"] = "unborn" THEN "create" ELSE "move",
                                           under |-> n]]
           /\ UNCHANGED <<settings, template, indicator, parent, history, copied, catLock, content>>
    BY <1>1 DEF AskNode, Begin, Looked
  <2> DEFINE r == [op |-> IF indicator["c"] = "unborn" THEN "create" ELSE "move", under |-> n]
  <2>2. r.op \notin {"module", "evidence", "delete", "clone"} /\ r.under \in {"p", "q"}
    OBVIOUS
  <2> HIDE DEF r
  <2> QED
    BY <2>1, <2>2, AskingKeeps DEF r
<1>2. CASE OpenSettings(e)
  <2> DEFINE r == [op |-> "settings", expected |-> settings.revision]
  <2>1. r.op = "settings"
    OBVIOUS
  <2>2. work' = [work EXCEPT ![e] = r]
    BY <1>2 DEF OpenSettings, Begin
  <2> HIDE DEF r
  <2> QED
    BY <1>2, <2>1, <2>2, AskingKeeps DEF OpenSettings, Looked
<1>3. CASE OpenWorkspace(e)
  <2> DEFINE r == [op |-> "page", expected |-> content.revision, template |-> template.revision]
  <2>1. r.op = "page"
    OBVIOUS
  <2>2. work' = [work EXCEPT ![e] = r]
    BY <1>3 DEF OpenWorkspace, Begin
  <2> HIDE DEF r
  <2> QED
    BY <1>3, <2>1, <2>2, AskingKeeps DEF OpenWorkspace, Looked
<1>4. CASE AskSummary(e)
  <2> DEFINE r == [op |-> "summary"]
  <2>1. r.op = "summary"
    OBVIOUS
  <2>2. work' = [work EXCEPT ![e] = r]
    BY <1>4 DEF AskSummary, Begin
  <2> HIDE DEF r
  <2> QED
    BY <1>4, <2>1, <2>2, AskingKeeps DEF AskSummary, Looked
<1>5. CASE AskClone(e)
  <2> DEFINE r == [op |-> "clone", types |-> InUse \cap Type, revision |-> settings.revision]
  <2>1. r.op = "clone" /\ r.types = InUse \cap Type /\ r.revision = settings.revision
    OBVIOUS
  <2>2. work' = [work EXCEPT ![e] = r]
    BY <1>5 DEF AskClone, Begin
  <2>3. settings.maxLevel >= 2
    BY <1>5 DEF AskClone, CatalogInv, CatalogHolds, TreeFits
  <2>4. InUse \cap Type \subseteq {template.type}
    <3>1. copied = {} /\ UsedFieldsKeepType /\ "empty" \notin Type
      BY <1>5 DEF AskClone, CatalogInv, CatalogHolds, Type
    <3> QED
      BY <3>1 DEF InUse, UsedFieldsKeepType
  <2> HIDE DEF r
  <2> QED
    BY <1>5, <2>1, <2>2, <2>3, <2>4, AskingKeeps DEF AskClone, Looked
<1> QED
  BY <1>1, <1>2, <1>3, <1>4, <1>5

\* A request is over: what it did to the tree is what matters.
LEMMA TreeKeeps ==
    ASSUME CatalogInv, NEW e \in Editor, Finish(e), UNCHANGED <<settings, template, content, history, catLock>>,
           indicator' \in [Node -> {"unborn", "live", "gone"}], parent' \in Node,
           indicator'["c"] = "unborn" => indicator["c"] = "unborn",
           indicator'["c"] = "live" => indicator["c"] \in {"unborn", "live"},
           content.record => indicator'["c"] = "live",
           TreeFits', CopiesAsRead', CopyFits'
    PROVE  CatalogInv'
<1>1. /\ work'[e] = Rest /\ DOMAIN work' = Editor
      /\ \A d \in Editor : d # e => work'[d] = work[d]
  BY WorkSet DEF Finish
<1>2. Rest.op = "rest"
  BY DEF Rest
<1> HIDE DEF Rest
<1>3. CatalogTypes' /\ RecordIsLive'
  BY <1>1 DEF CatalogInv, CatalogTypes, RecordIsLive
<1>4. UnderOne' /\ DeletesAlone' /\ DeletedKnowingly'
  BY <1>1, <1>2 DEF CatalogInv, UnderOne, DeletesAlone, CatalogHolds, DeletedKnowingly
<1>5. SavesAsChecked'
  BY <1>1, <1>2 DEF CatalogInv, SavesAsChecked
<1>6. UsedFieldsKeepType' /\ NoFieldLost'
  BY WritingsAlone
<1> QED
  BY <1>3, <1>4, <1>5, <1>6 DEF CatalogInv, CatalogHolds

LEMMA CreateKeeps ==
    ASSUME CatalogInv, NEW e \in Editor, CreateNode(e)
    PROVE  CatalogInv'
<1>1. CASE Drop(e)
  BY <1>1, DropKeeps
<1>2. CASE ~Drop(e)
  <2>1. /\ settings.maxLevel >= 2 /\ indicator[work[e].under] = "live" /\ indicator["c"] = "unborn"
        /\ indicator' = [indicator EXCEPT !["c"] = "live"] /\ parent' = work[e].under /\ Finish(e)
        /\ UNCHANGED <<settings, template, content, history, copied, catLock>>
        /\ work[e].op = "create"
    BY <1>2 DEF CreateNode, CanCreate
  <2>2. indicator \in [Node -> {"unborn", "live", "gone"}] /\ "c" \in Node
    BY DEF CatalogInv, CatalogTypes, Node
  <2>3. work[e].under \in {"p", "q"}
    BY <2>1 DEF CatalogInv, UnderOne
  <2>4. parent' \in Node /\ parent' # "c"
    BY <2>1, <2>3 DEF Node
  <2>5. indicator' \in [Node -> {"unborn", "live", "gone"}] /\ indicator'["c"] = "live"
    BY <2>1, <2>2
  <2>6. TreeFits'
    BY <2>1, <2>2, <2>4 DEF TreeFits
  <2>7. CopiesAsRead' /\ CopyFits'
    BY <2>1, CopyAlone, RestIsNoCopy DEF Finish
  <2> QED
    BY <2>1, <2>4, <2>5, <2>6, <2>7, TreeKeeps
<1> QED
  BY <1>1, <1>2

LEMMA MoveKeeps ==
    ASSUME CatalogInv, NEW e \in Editor, MoveNode(e)
    PROVE  CatalogInv'
<1>1. CASE Drop(e)
  BY <1>1, DropKeeps
<1>2. CASE ~Drop(e)
  <2>1. /\ indicator[work[e].under] = "live" /\ parent' = work[e].under /\ Finish(e)
        /\ UNCHANGED <<settings, template, indicator, content, history, copied, catLock>>
        /\ work[e].op = "move"
    BY <1>2 DEF MoveNode
  <2>2. work[e].under \in {"p", "q"}
    BY <2>1 DEF CatalogInv, UnderOne
  <2>3. parent' \in Node
    BY <2>1, <2>2 DEF Node
  <2>4. TreeFits'
    BY <2>1 DEF TreeFits, CatalogInv, CatalogHolds
  <2>5. content.record => indicator["c"] = "live"
    BY DEF CatalogInv, RecordIsLive
  <2>6. indicator \in [Node -> {"unborn", "live", "gone"}]
    BY DEF CatalogInv, CatalogTypes
  <2>7. CopiesAsRead' /\ CopyFits'
    BY <2>1, CopyAlone, RestIsNoCopy DEF Finish
  <2> QED
    BY <2>1, <2>3, <2>4, <2>5, <2>6, <2>7, TreeKeeps
<1> QED
  BY <1>1, <1>2

LEMMA CloneKeeps ==
    ASSUME CatalogInv, NEW e \in Editor, CloneVersion(e)
    PROVE  CatalogInv'
<1>1. CASE Drop(e)
  BY <1>1, DropKeeps
<1>2. CASE ~Drop(e)
  <2>1. /\ Finish(e) /\ UNCHANGED <<settings, template, indicator, parent, content, history, catLock>>
        /\ work[e].op = "clone"
        /\ copied' = work[e].types \cup
              {IF work[e].revision = settings.revision THEN "current" ELSE "aged"}
    BY <1>2 DEF CloneVersion
  <2>2. TreeFits'
    BY <2>1 DEF TreeFits, CatalogInv, CatalogHolds
  <2>3. content.record => indicator["c"] = "live"
    BY DEF CatalogInv, RecordIsLive
  <2>4. indicator \in [Node -> {"unborn", "live", "gone"}] /\ parent \in Node
    BY DEF CatalogInv, CatalogTypes
  <2>5. /\ work'[e] = Rest /\ \A d \in Editor : d # e => work'[d] = work[d]
    BY <2>1, WorkSet DEF Finish
  <2>6. CopiesAsRead
    BY DEF CatalogInv
  <2>7. CopiesAsRead'
    BY <2>1, <2>5, <2>6, RestIsNoCopy DEF CopiesAsRead
  <2>8. CopyFits'
    <3>1. "current" \notin Type /\ "current" # "aged"
      BY DEF Type
    <3> QED
      BY <2>1, <2>6, <3>1 DEF CopiesAsRead, CopyFits
  <2> QED
    BY <2>1, <2>2, <2>3, <2>4, <2>7, <2>8, TreeKeeps
<1> QED
  BY <1>1, <1>2

LEMMA EntriesTyped ==
    ASSUME NEW S, NEW q \in Seq(S)
    PROVE  \A i \in DOMAIN q : q[i] \in S
OBVIOUS

\* A type changes when nothing is filled in.
LEMMA SaveSettingsKeeps ==
    ASSUME CatalogInv, NEW e \in Editor, NEW level \in 1..2, NEW type \in Type,
           SaveSettings(e, level, type)
    PROVE  CatalogInv'
<1>1. CASE Drop(e)
  BY <1>1, DropKeeps
<1>2. CASE ~Drop(e)
  <2>1. /\ ~Deeper(level) /\ MayRetype(type)
        /\ settings' = [maxLevel |-> level, revision |-> settings.revision + 1]
        /\ template' = IF type = template.type THEN template
                       ELSE [revision |-> template.revision + 1, type |-> type]
        /\ Finish(e) /\ UNCHANGED <<indicator, parent, content, history, copied, catLock>>
    BY <1>2 DEF SaveSettings
  <2>2. /\ work'[e] = Rest /\ DOMAIN work' = Editor
        /\ \A d \in Editor : d # e => work'[d] = work[d]
    BY <2>1, WorkSet DEF Finish
  <2>3. Rest.op = "rest"
    BY DEF Rest
  <2> HIDE DEF Rest
  <2>4. template.revision \in Nat /\ template.type \in Type
    BY DEF CatalogInv, CatalogTypes
  <2>5. \/ template' = template
        \/ /\ template'.revision = template.revision + 1 /\ template'.type = type
           /\ InUse \cap Type = {}
    BY <2>1 DEF MayRetype
  <2>6. settings'.maxLevel = level
    BY <2>1
  <2>7. CatalogTypes' /\ RecordIsLive'
    <3>1. template'.revision \in Nat /\ template'.type \in Type
      BY <2>4, <2>5
    <3>2. CatalogTypes'
      BY <2>1, <2>2, <2>6, <3>1 DEF CatalogInv, CatalogTypes
    <3>3. RecordIsLive'
      BY <2>1 DEF CatalogInv, RecordIsLive
    <3> QED
      BY <3>2, <3>3
  <2>8. UnderOne' /\ DeletesAlone' /\ DeletedKnowingly'
    BY <2>1, <2>2, <2>3 DEF CatalogInv, UnderOne, DeletesAlone, CatalogHolds, DeletedKnowingly
  <2>9. SavesAsChecked'
    <3>1. ASSUME template' = template PROVE SavesAsChecked'
      BY <2>1, <2>2, <2>3, <3>1 DEF CatalogInv, SavesAsChecked
    <3>2. ASSUME template'.revision = template.revision + 1 PROVE SavesAsChecked'
      <4>1. \A d \in Editor : work[d].op \in {"module", "evidence"} =>
               work[d].seen \in Nat /\ work[d].seen <= template.revision
        BY DEF CatalogInv, SavesAsChecked
      <4>2. \A d \in Editor : work[d].op \in {"module", "evidence"} =>
               work[d].seen <= template'.revision /\ work[d].seen # template'.revision
        BY <2>4, <3>2, <4>1
      <4> QED
        BY <2>1, <2>2, <2>3, <4>2 DEF CatalogInv, SavesAsChecked
    <3> QED
      BY <2>5, <3>1, <3>2
  <2>10. TreeFits'
    BY <2>1, <2>6 DEF CatalogInv, CatalogHolds, TreeFits, Deeper
  <2>11. UsedFieldsKeepType' /\ NoFieldLost'
    <3>1. CASE template' = template
      BY <2>1, <3>1, WritingsAlone
    <3>2. CASE InUse \cap Type = {}
      <4>1. /\ content.values \in Values /\ content.evidence \in Value
            /\ history \in Seq([values : Values, field : Field])
        BY DEF CatalogInv, CatalogTypes
      <4>2. \A i \in DOMAIN history : history[i].values \in Values
        <5>1. \A i \in DOMAIN history : history[i] \in [values : Values, field : Field]
          BY <4>1, EntriesTyped
        <5> QED
          BY <5>1
      <4>3. ASSUME NEW v \in Value, v \in InUse PROVE v = "empty"
        BY <3>2, <4>3 DEF Value
      <4>4. \A f \in Field : content.values[f] = "empty"
        BY <4>1, <4>3 DEF InUse, Values
      <4>5. content.evidence = "empty"
        BY <4>1, <4>3 DEF InUse
      <4>6. \A i \in DOMAIN history : \A f \in Field : history[i].values[f] = "empty"
        BY <4>2, <4>3 DEF InUse, Values
      <4>7. UsedFieldsKeepType'
        BY <2>1, <4>4, <4>5, <4>6 DEF UsedFieldsKeepType
      <4>8. NoFieldLost'
        BY <2>1 DEF CatalogInv, CatalogHolds, NoFieldLost
      <4> QED
        BY <4>7, <4>8
    <3> QED
      BY <2>5, <3>1, <3>2
  <2>12. CopiesAsRead'
    <3>1. CopiesAsRead /\ settings'.revision = settings.revision + 1
      BY <2>1 DEF CatalogInv
    <3>2. \A d \in Editor : work[d].op = "clone" =>
             work[d].revision <= settings'.revision /\ work[d].revision # settings'.revision
      BY <3>1 DEF CopiesAsRead
    <3> QED
      BY <2>2, <2>3, <3>1, <3>2 DEF CopiesAsRead
  <2>13. CopyFits'
    <3>1. "current" \in copied => level >= 2
      BY <2>1 DEF Deeper
    <3>2. InUse \cap Type = {} => copied \cap Type = {}
      BY DEF InUse
    <3>3. CopyFits
      BY DEF CatalogInv, CatalogHolds
    <3> QED
      BY <2>1, <2>5, <2>6, <3>1, <3>2, <3>3 DEF CopyFits
  <2> QED
    BY <2>7, <2>8, <2>9, <2>10, <2>11, <2>12, <2>13 DEF CatalogInv, CatalogHolds
<1> QED
  BY <1>1, <1>2

LEMMA AskSaveKeeps ==
    ASSUME CatalogInv, NEW e \in Editor, NEW f \in Field, AskSave(e, f)
    PROVE  CatalogInv'
<1>1. CASE Drop(e)
  BY <1>1, DropKeeps
<1>2. CASE ~Drop(e)
  <2> DEFINE r == [op |-> "module", field |-> f, revision |-> content.revision,
                   seen |-> template.revision, template |-> work[e].template,
                   type |-> template.type, values |-> [content.values EXCEPT ![f] = template.type]]
  <2>1. /\ indicator["c"] = "live" /\ EnsureRecord
        /\ UNCHANGED <<settings, template, indicator, parent, history, copied, catLock>>
        /\ work' = [work EXCEPT ![e] = r]
    BY <1>2 DEF AskSave, Looked
  <2>2. /\ r.op = "module" /\ r.field = f /\ r.revision = content.revision
        /\ r.seen = template.revision
        /\ r.values = [content.values EXCEPT ![f] = template.type]
    OBVIOUS
  <2> HIDE DEF r
  <2>3. /\ work'[e] = r /\ DOMAIN work' = Editor
        /\ \A d \in Editor : d # e => work'[d] = work[d]
    BY <2>1, WorkSet
  <2>4. /\ content'.values = content.values /\ content'.evidence = content.evidence
        /\ content'.revision = content.revision
        /\ DOMAIN content' = {"record", "summary", "values", "evidence", "revision"}
        /\ content'.record = TRUE
    BY <2>1, RecordMade
  <2>5. /\ content.values \in Values /\ template.type \in Type /\ template.revision \in Nat
        /\ content.revision \in Nat
    BY DEF CatalogInv, CatalogTypes
  <2>6. /\ r.values \in Values /\ r.values[f] = template.type
        /\ \A g \in Field \ {f} : r.values[g] = content.values[g]
    BY <2>2, <2>5 DEF Values, Value
  <2>7. \A g \in Field : content.values[g] \in {template.type, "empty"}
    BY DEF CatalogInv, CatalogHolds, UsedFieldsKeepType
  <2>8. SavesAsChecked'
    <3>1. /\ r.field \in Field /\ r.values \in Values
          /\ r.revision \in Nat /\ r.seen \in Nat /\ r.seen <= template.revision
          /\ \A g \in Field : r.values[g] \in {template.type, "empty"}
          /\ r.revision <= content.revision
          /\ \A g \in Field \ {r.field} : r.values[g] = content.values[g]
      BY <2>2, <2>5, <2>6, <2>7
    <3>2. indicator["c"] = "live" /\ content'.record = TRUE /\ UNCHANGED <<indicator, template>>
      BY <2>1, <2>4
    <3>3. SavesAsChecked
      BY DEF CatalogInv
    <3>4. ASSUME NEW d \in Editor, work'[d].op = "module"
          PROVE  /\ work'[d].field \in Field /\ work'[d].values \in Values
                 /\ work'[d].revision \in Nat /\ work'[d].seen \in Nat
                 /\ work'[d].seen <= template.revision
                 /\ work'[d].seen = template.revision =>
                       \A g \in Field : work'[d].values[g] \in {template.type, "empty"}
                 /\ work'[d].revision <= content.revision
                 /\ work'[d].revision = content.revision =>
                       \A g \in Field \ {work'[d].field} : work'[d].values[g] = content.values[g]
      <4>1. CASE d = e
        BY <2>3, <3>1, <4>1
      <4>2. CASE d # e
        BY <2>3, <3>2, <3>3, <3>4, <4>2 DEF SavesAsChecked
      <4> QED
        BY <4>1, <4>2
    <3>5. ASSUME NEW d \in Editor, work'[d].op = "evidence"
          PROVE  /\ work'[d].type \in Type /\ work'[d].seen \in Nat
                 /\ work'[d].seen <= template.revision
                 /\ work'[d].seen = template.revision => work'[d].type = template.type
      BY <2>2, <2>3, <3>3, <3>5 DEF SavesAsChecked
    <3> QED
      BY <2>4, <3>2, <3>4, <3>5 DEF SavesAsChecked
  <2>9. CatalogTypes'
    BY <2>1, <2>3, <2>4 DEF CatalogInv, CatalogTypes
  <2>10. RecordIsLive'
    BY <2>1, <2>4 DEF CatalogInv, RecordIsLive
  <2>11. UnderOne' /\ DeletesAlone' /\ TreeFits' /\ DeletedKnowingly'
    BY <2>1, <2>2, <2>3, <2>4
       DEF CatalogInv, UnderOne, DeletesAlone, CatalogHolds, TreeFits, DeletedKnowingly
  <2>12. CopiesAsRead' /\ CopyFits'
    BY <2>1, <2>2, CopyAlone
  <2> QED
    BY <2>1, <2>4, <2>8, <2>9, <2>10, <2>11, <2>12, WritingsAlone DEF CatalogInv, CatalogHolds
<1> QED
  BY <1>1, <1>2

LEMMA AskEvidenceKeeps ==
    ASSUME CatalogInv, NEW e \in Editor, AskEvidence(e)
    PROVE  CatalogInv'
<1>1. CASE Drop(e)
  BY <1>1, DropKeeps
<1>2. CASE ~Drop(e)
  <2> DEFINE r == [op |-> "evidence", seen |-> template.revision,
                   template |-> work[e].template, type |-> template.type]
  <2>1. /\ indicator["c"] = "live" /\ EnsureRecord
        /\ UNCHANGED <<settings, template, indicator, parent, history, copied, catLock>>
        /\ work' = [work EXCEPT ![e] = r]
    BY <1>2 DEF AskEvidence, Looked
  <2>2. r.op = "evidence" /\ r.seen = template.revision /\ r.type = template.type
    OBVIOUS
  <2> HIDE DEF r
  <2>3. /\ work'[e] = r /\ DOMAIN work' = Editor
        /\ \A d \in Editor : d # e => work'[d] = work[d]
    BY <2>1, WorkSet
  <2>4. /\ content'.values = content.values /\ content'.evidence = content.evidence
        /\ content'.revision = content.revision
        /\ DOMAIN content' = {"record", "summary", "values", "evidence", "revision"}
        /\ content'.record = TRUE
    BY <2>1, RecordMade
  <2>5. template.type \in Type /\ template.revision \in Nat
    BY DEF CatalogInv, CatalogTypes
  <2>6. SavesAsChecked'
    BY <2>1, <2>2, <2>3, <2>4, <2>5 DEF CatalogInv, SavesAsChecked
  <2>7. CatalogTypes'
    BY <2>1, <2>3, <2>4 DEF CatalogInv, CatalogTypes
  <2>8. RecordIsLive'
    BY <2>1, <2>4 DEF CatalogInv, RecordIsLive
  <2>9. UnderOne' /\ DeletesAlone' /\ TreeFits' /\ DeletedKnowingly'
    BY <2>1, <2>2, <2>3, <2>4
       DEF CatalogInv, UnderOne, DeletesAlone, CatalogHolds, TreeFits, DeletedKnowingly
  <2>10. CopiesAsRead' /\ CopyFits'
    BY <2>1, <2>2, CopyAlone
  <2> QED
    BY <2>1, <2>4, <2>6, <2>7, <2>8, <2>9, <2>10, WritingsAlone DEF CatalogInv, CatalogHolds
<1> QED
  BY <1>1, <1>2

LEMMA OneEntryMore ==
    ASSUME NEW S, NEW q \in Seq(S), NEW x \in S
    PROVE  /\ Append(q, x) \in Seq(S) /\ Len(Append(q, x)) = Len(q) + 1
           /\ Append(q, x) # <<>>
           /\ DOMAIN Append(q, x) = DOMAIN q \cup {Len(q) + 1}
           /\ \A i \in DOMAIN q : Append(q, x)[i] = q[i] /\ i \in 1..Len(q)
           /\ Append(q, x)[Len(q) + 1] = x
           /\ q # <<>> <=> Len(q) >= 1
           /\ Len(q) \in Nat
<1>1. /\ Append(q, x) \in Seq(S) /\ Len(Append(q, x)) = Len(q) + 1
      /\ Len(q) \in Nat /\ DOMAIN q = 1..Len(q)
  OBVIOUS
<1>2. DOMAIN Append(q, x) = 1..(Len(q) + 1)
  BY <1>1
<1>3. /\ \A i \in 1..Len(q) : Append(q, x)[i] = q[i]
      /\ Append(q, x)[Len(q) + 1] = x
  OBVIOUS
<1>4. q # <<>> <=> Len(q) >= 1
  BY <1>1, EmptySeq
<1> QED
  BY <1>1, <1>2, <1>3, <1>4

LEMMA SaveModuleKeeps ==
    ASSUME CatalogInv, NEW e \in Editor, SaveModule(e)
    PROVE  CatalogInv'
<1>1. CASE Drop(e)
  BY <1>1, DropKeeps
<1>2. CASE ~Drop(e)
  <2> DEFINE r == work[e]
             entry == [values |-> r.values, field |-> r.field]
  <2>1. /\ r.op = "module" /\ catLock = "free"
        /\ r.seen = template.revision /\ content.record /\ content.revision = r.revision
        /\ content' = [content EXCEPT !.values = r.values, !.revision = r.revision + 1]
        /\ history' = Append(history, entry)
        /\ Finish(e) /\ UNCHANGED <<settings, template, indicator, parent, copied, catLock>>
    BY <1>2 DEF SaveModule, Free, AssertCurrent, Unchanged
  <2>2. /\ work'[e] = Rest /\ DOMAIN work' = Editor
        /\ \A d \in Editor : d # e => work'[d] = work[d]
    BY <2>1, WorkSet DEF Finish
  <2>3. Rest.op = "rest"
    BY DEF Rest
  <2>4. indicator["c"] = "live" /\ content.revision = Len(history)
    BY <2>1 DEF CatalogInv, RecordIsLive
  <2>5. /\ r.field \in Field /\ r.values \in Values
        /\ \A f \in Field : r.values[f] \in {template.type, "empty"}
        /\ \A f \in Field \ {r.field} : r.values[f] = content.values[f]
    BY <2>1, <2>4 DEF CatalogInv, SavesAsChecked
  <2>6. /\ content.revision \in Nat /\ content.evidence \in Value
        /\ history \in Seq([values : Values, field : Field])
    BY DEF CatalogInv, CatalogTypes
  <2>7. /\ content'.values = r.values /\ content'.revision = content.revision + 1
        /\ content'.evidence = content.evidence /\ content'.record = content.record
        /\ DOMAIN content' = {"record", "summary", "values", "evidence", "revision"}
    BY <2>1 DEF CatalogInv, CatalogTypes
  <2>8. entry \in [values : Values, field : Field] /\ entry.values = r.values /\ entry.field = r.field
    BY <2>5
  <2> HIDE DEF r, entry, Rest
  <2>9. /\ history' \in Seq([values : Values, field : Field]) /\ Len(history') = Len(history) + 1
        /\ history' # <<>>
        /\ DOMAIN history' = DOMAIN history \cup {Len(history) + 1}
        /\ \A i \in DOMAIN history : history'[i] = history[i] /\ i \in 1..Len(history)
        /\ history'[Len(history) + 1] = entry
        /\ history # <<>> <=> Len(history) >= 1
        /\ Len(history) \in Nat
    BY <2>1, <2>6, <2>8, OneEntryMore
  <2>10. CatalogTypes'
    <3>1. content'.revision \in Nat
      BY <2>6, <2>7
    <3>2. content'.record \in BOOLEAN
      BY <2>7 DEF CatalogInv, CatalogTypes
    <3> QED
      BY <2>1, <2>2, <2>5, <2>6, <2>7, <2>9, <3>1, <3>2 DEF CatalogInv, CatalogTypes
  <2>11. RecordIsLive'
    BY <2>1, <2>4, <2>7, <2>9 DEF RecordIsLive
  <2>12. UnderOne' /\ DeletesAlone' /\ TreeFits' /\ DeletedKnowingly'
    BY <2>1, <2>2, <2>3
       DEF CatalogInv, UnderOne, DeletesAlone, CatalogHolds, TreeFits, DeletedKnowingly
  <2>13. SavesAsChecked'
    <3>1. ASSUME NEW d \in Editor, work'[d].op = "module"
          PROVE  work'[d] = work[d] /\ work[d].revision < content'.revision /\ work[d].revision \in Nat
      <4>1. work'[d] = work[d]
        BY <2>2, <2>3, <3>1
      <4>2. work[d].revision \in Nat /\ work[d].revision <= content.revision
        BY <2>4, <3>1, <4>1 DEF CatalogInv, SavesAsChecked
      <4> QED
        BY <2>6, <2>7, <4>1, <4>2
    <3>2. \A d \in Editor : work'[d].op = "module" =>
             work'[d].revision <= content'.revision /\ work'[d].revision # content'.revision
      BY <2>6, <2>7, <3>1
    <3> QED
      BY <2>1, <2>2, <2>3, <2>7, <3>1, <3>2 DEF CatalogInv, SavesAsChecked
  <2>14. UsedFieldsKeepType'
    <3>1. \A i \in DOMAIN history : \A f \in Field : history[i].values[f] \in {template.type, "empty"}
      BY DEF CatalogInv, CatalogHolds, UsedFieldsKeepType
    <3>2. \A i \in DOMAIN history' : \A f \in Field : history'[i].values[f] \in {template.type, "empty"}
      BY <2>5, <2>8, <2>9, <3>1
    <3>3. content.evidence \in {template.type, "empty"}
      BY DEF CatalogInv, CatalogHolds, UsedFieldsKeepType
    <3> QED
      BY <2>1, <2>5, <2>7, <3>2, <3>3 DEF UsedFieldsKeepType
  <2>15. NoFieldLost'
    <3>1. \A i \in DOMAIN history : \A f \in Field \ {history[i].field} :
             history[i].values[f] = IF i = 1 THEN "empty" ELSE history[i - 1].values[f]
      BY DEF CatalogInv, CatalogHolds, NoFieldLost
    <3>2. \A i \in DOMAIN history : i # 1 => i - 1 \in DOMAIN history
      BY <2>6
    <3>3. ASSUME NEW i \in DOMAIN history, NEW f \in Field \ {history'[i].field}
          PROVE  history'[i].values[f] = IF i = 1 THEN "empty" ELSE history'[i - 1].values[f]
      BY <2>9, <3>1, <3>2
    <3>4. ASSUME NEW f \in Field \ {entry.field}
          PROVE  entry.values[f] = IF Len(history) + 1 = 1 THEN "empty"
                                   ELSE history'[Len(history)].values[f]
      <4>1. entry.values[f] = content.values[f]
        BY <2>5, <2>8
      <4>2. CASE Len(history) = 0
        <5>1. content.values = Empty
          BY <2>9, <4>2 DEF CatalogInv, RecordIsLive
        <5> QED
          BY <4>1, <4>2, <5>1 DEF Empty
      <4>3. CASE Len(history) # 0
        <5>1. history # <<>> /\ Len(history) \in DOMAIN history
          BY <2>6, <2>9, <4>3
        <5>2. content.values = history[Len(history)].values
          BY <5>1 DEF CatalogInv, CatalogHolds, NoFieldLost
        <5> QED
          BY <2>9, <4>1, <4>3, <5>1, <5>2
      <4> QED
        BY <4>2, <4>3
    <3>5. Len(history) + 1 - 1 = Len(history)
      BY <2>9
    <3>6. \A i \in DOMAIN history' : \A f \in Field \ {history'[i].field} :
             history'[i].values[f] = IF i = 1 THEN "empty" ELSE history'[i - 1].values[f]
      <4>1. ASSUME NEW i \in DOMAIN history', NEW f \in Field \ {history'[i].field}
            PROVE  history'[i].values[f] = IF i = 1 THEN "empty" ELSE history'[i - 1].values[f]
        <5>1. CASE i \in DOMAIN history
          BY <3>3, <5>1
        <5>2. CASE i = Len(history) + 1
          BY <2>9, <3>4, <3>5, <5>2
        <5> QED
          BY <2>9, <5>1, <5>2
      <4> QED
        BY <4>1
    <3>7. content'.values = history'[Len(history')].values
      BY <2>7, <2>8, <2>9
    <3> QED
      BY <3>6, <3>7 DEF NoFieldLost
  <2>16. CopiesAsRead' /\ CopyFits'
    BY <2>1, CopyAlone, RestIsNoCopy DEF Finish
  <2> QED
    BY <2>10, <2>11, <2>12, <2>13, <2>14, <2>15, <2>16 DEF CatalogInv, CatalogHolds
<1> QED
  BY <1>1, <1>2

\* Evidence and the summary are saved beside the module.
LEMMA BesideKeeps ==
    ASSUME CatalogInv, NEW e \in Editor, Finish(e),
           UNCHANGED <<settings, template, indicator, parent, history, copied, catLock>>,
           content'.values = content.values, content'.revision = content.revision,
           content'.record = content.record,
           DOMAIN content' = {"record", "summary", "values", "evidence", "revision"},
           \/ content'.evidence \in {content.evidence, "empty"}
           \/ content'.evidence = template.type /\ content.record /\ catLock = "free"
    PROVE  CatalogInv'
<1>1. /\ work'[e] = Rest /\ DOMAIN work' = Editor
      /\ \A d \in Editor : d # e => work'[d] = work[d]
  BY WorkSet DEF Finish
<1>2. Rest.op = "rest"
  BY DEF Rest
<1> HIDE DEF Rest
<1>3. template.type \in Type /\ content.evidence \in Value /\ content'.evidence \in Value
  BY DEF CatalogInv, CatalogTypes, Value
<1>4. CatalogTypes'
  <2>1. content'.record \in BOOLEAN
    BY DEF CatalogInv, CatalogTypes
  <2> QED
    BY <1>1, <1>3, <2>1 DEF CatalogInv, CatalogTypes
<1>5. ~content.record => content.evidence = "empty"
  BY DEF CatalogInv, RecordIsLive
<1>6. RecordIsLive'
  BY <1>5 DEF CatalogInv, RecordIsLive
<1>7. UnderOne' /\ DeletesAlone' /\ TreeFits'
  BY <1>1, <1>2 DEF CatalogInv, UnderOne, DeletesAlone, CatalogHolds, TreeFits
<1>8. DeletedKnowingly'
  <2>1. ASSUME NEW d \in Editor, work'[d].op = "delete", work'[d].node = "c", ~work'[d].confirmed
        PROVE  history = <<>> /\ content'.evidence = "empty"
    <3>1. work[d] = work'[d]
      BY <1>1, <1>2, <2>1
    <3>2. history = <<>> /\ content.evidence = "empty" /\ catLock = "held"
      BY <2>1, <3>1 DEF CatalogInv, CatalogHolds, DeletedKnowingly, DeletesAlone
    <3> QED
      BY <3>2
  <2> QED
    BY <2>1 DEF DeletedKnowingly
<1>9. SavesAsChecked'
  BY <1>1, <1>2 DEF CatalogInv, SavesAsChecked
<1>10. UsedFieldsKeepType'
  <2>1. content.evidence \in {template.type, "empty"}
    BY DEF CatalogInv, CatalogHolds, UsedFieldsKeepType
  <2>2. content'.evidence \in {template.type, "empty"}
    BY <2>1
  <2> QED
    BY <2>2 DEF CatalogInv, CatalogHolds, UsedFieldsKeepType
<1>11. NoFieldLost'
  BY DEF CatalogInv, CatalogHolds, NoFieldLost
<1>12. CopiesAsRead' /\ CopyFits'
  BY <1>2, CopyAlone DEF Finish
<1> QED
  BY <1>4, <1>6, <1>7, <1>8, <1>9, <1>10, <1>11, <1>12 DEF CatalogInv, CatalogHolds

LEMMA SaveEvidenceKeeps ==
    ASSUME CatalogInv, NEW e \in Editor, SaveEvidence(e)
    PROVE  CatalogInv'
<1>1. CASE Drop(e)
  BY <1>1, DropKeeps
<1>2. CASE ~Drop(e)
  <2>1. /\ work[e].op = "evidence" /\ catLock = "free"
        /\ work[e].seen = template.revision /\ content.record
        /\ content' = [content EXCEPT !.evidence = work[e].type] /\ Finish(e)
        /\ UNCHANGED <<settings, template, indicator, parent, history, copied, catLock>>
    BY <1>2 DEF SaveEvidence, Free, AssertCurrent, Looked
  <2>2. work[e].type = template.type
    BY <2>1 DEF CatalogInv, SavesAsChecked
  <2>3. /\ content'.values = content.values /\ content'.revision = content.revision
        /\ content'.record = content.record /\ content'.evidence = template.type
        /\ DOMAIN content' = {"record", "summary", "values", "evidence", "revision"}
    BY <2>1, <2>2 DEF CatalogInv, CatalogTypes
  <2> QED
    BY <2>1, <2>3, BesideKeeps
<1> QED
  BY <1>1, <1>2

LEMMA DeleteEvidenceKeeps ==
    ASSUME CatalogInv, NEW e \in Editor, DeleteEvidence(e)
    PROVE  CatalogInv'
<1>1. /\ content' = [content EXCEPT !.evidence = "empty"] /\ Finish(e)
      /\ UNCHANGED <<settings, template, indicator, parent, history, copied, catLock>>
  BY DEF DeleteEvidence, Looked
<1>2. /\ content'.values = content.values /\ content'.revision = content.revision
      /\ content'.record = content.record /\ content'.evidence = "empty"
      /\ DOMAIN content' = {"record", "summary", "values", "evidence", "revision"}
  BY <1>1 DEF CatalogInv, CatalogTypes
<1> QED
  BY <1>1, <1>2, BesideKeeps

LEMMA SaveSummaryKeeps ==
    ASSUME CatalogInv, NEW e \in Editor, SaveSummary(e)
    PROVE  CatalogInv'
<1>1. CASE Drop(e)
  BY <1>1, DropKeeps
<1>2. CASE ~Drop(e)
  <2>1. /\ content' = [content EXCEPT !.summary = TRUE] /\ Finish(e)
        /\ UNCHANGED <<settings, template, indicator, parent, history, copied, catLock>>
    BY <1>2 DEF SaveSummary, Looked
  <2>2. /\ content'.values = content.values /\ content'.revision = content.revision
        /\ content'.record = content.record /\ content'.evidence = content.evidence
        /\ DOMAIN content' = {"record", "summary", "values", "evidence", "revision"}
    BY <2>1 DEF CatalogInv, CatalogTypes
  <2> QED
    BY <2>1, <2>2, BesideKeeps
<1> QED
  BY <1>1, <1>2

LEMMA AskDeleteKeeps ==
    ASSUME CatalogInv, NEW e \in Editor, NEW n \in Node, NEW confirmed \in BOOLEAN,
           AskDelete(e, n, confirmed)
    PROVE  CatalogInv'
<1> DEFINE r == [op |-> "delete", node |-> n, confirmed |-> confirmed]
<1>1. /\ catLock = "free" /\ catLock' = "held"
      /\ n = "c" /\ content.record => confirmed
      /\ work' = [work EXCEPT ![e] = r]
      /\ UNCHANGED <<settings, template, indicator, parent, content, history, copied>>
  BY DEF AskDelete, LockSystem, Free, Begin
<1>2. r.op = "delete" /\ r.node = n /\ r.confirmed = confirmed
  OBVIOUS
<1> HIDE DEF r
<1>3. /\ work'[e] = r /\ DOMAIN work' = Editor
      /\ \A d \in Editor : d # e => work'[d] = work[d]
  BY <1>1, WorkSet
<1>4. \A d \in Editor : work[d].op # "delete"
  BY <1>1 DEF CatalogInv, DeletesAlone
<1>5. CatalogTypes' /\ RecordIsLive' /\ UnderOne' /\ TreeFits'
  BY <1>1, <1>2, <1>3
     DEF CatalogInv, CatalogTypes, RecordIsLive, UnderOne, CatalogHolds, TreeFits
<1>6. DeletesAlone'
  BY <1>1, <1>2, <1>3, <1>4 DEF DeletesAlone
<1>7. DeletedKnowingly'
  <2>1. ~content.record => history = <<>> /\ content.evidence = "empty"
    BY DEF CatalogInv, RecordIsLive
  <2> QED
    BY <1>1, <1>2, <1>3, <1>4, <2>1 DEF DeletedKnowingly
<1>8. SavesAsChecked'
  BY <1>1, <1>2, <1>3 DEF CatalogInv, SavesAsChecked
<1>9. UsedFieldsKeepType' /\ NoFieldLost'
  BY <1>1, WritingsAlone
<1>10. CopiesAsRead' /\ CopyFits'
  BY <1>1, <1>2, CopyAlone
<1> QED
  BY <1>5, <1>6, <1>7, <1>8, <1>9, <1>10 DEF CatalogInv, CatalogHolds

LEMMA DeleteNodeKeeps ==
    ASSUME CatalogInv, NEW e \in Editor, DeleteNode(e)
    PROVE  CatalogInv'
<1> DEFINE n == work[e].node
<1>1. /\ work[e].op = "delete" /\ catLock' = "free" /\ Finish(e)
      /\ UNCHANGED <<settings, template, parent, copied>>
  BY DEF DeleteNode
<1>2. /\ work'[e] = Rest /\ DOMAIN work' = Editor
      /\ \A d \in Editor : d # e => work'[d] = work[d]
  BY <1>1, WorkSet DEF Finish
<1>3. Rest.op = "rest"
  BY DEF Rest
<1> HIDE DEF Rest
<1>4. /\ n \in Node /\ indicator \in [Node -> {"unborn", "live", "gone"}] /\ "c" \in Node
  BY <1>1 DEF CatalogInv, CatalogTypes, DeletesAlone, Node
<1>5. \A d \in Editor : work'[d].op # "delete"
  BY <1>1, <1>2, <1>3 DEF CatalogInv, DeletesAlone
<1>6. DeletesAlone' /\ DeletedKnowingly' /\ UnderOne' /\ CopiesAsRead' /\ CopyFits'
  <2>1. DeletesAlone' /\ DeletedKnowingly' /\ UnderOne'
    BY <1>2, <1>3, <1>5 DEF CatalogInv, DeletesAlone, DeletedKnowingly, UnderOne
  <2> QED
    BY <1>1, <1>3, <2>1, CopyAlone DEF Finish
<1> SUFFICES CatalogTypes' /\ RecordIsLive' /\ SavesAsChecked' /\ TreeFits'
             /\ UsedFieldsKeepType' /\ NoFieldLost'
  BY <1>6 DEF CatalogInv, CatalogHolds
<1>7. CASE UNCHANGED <<indicator, content, history>>
  <2>1. CatalogTypes' /\ RecordIsLive' /\ TreeFits'
    BY <1>1, <1>2, <1>7 DEF CatalogInv, CatalogTypes, RecordIsLive, CatalogHolds, TreeFits
  <2>2. SavesAsChecked'
    BY <1>1, <1>2, <1>3, <1>7 DEF CatalogInv, SavesAsChecked
  <2> QED
    BY <1>1, <1>7, <2>1, <2>2, WritingsAlone
<1>8. CASE /\ n # "c" /\ ~(indicator["c"] = "live" /\ parent = n)
           /\ indicator' = [indicator EXCEPT ![n] = "gone"] /\ UNCHANGED <<content, history>>
  <2>1. indicator' \in [Node -> {"unborn", "live", "gone"}] /\ indicator'["c"] = indicator["c"]
    BY <1>4, <1>8
  <2>2. CatalogTypes' /\ RecordIsLive'
    BY <1>1, <1>2, <1>8, <2>1 DEF CatalogInv, CatalogTypes, RecordIsLive
  <2>3. SavesAsChecked'
    BY <1>1, <1>2, <1>3, <1>8, <2>1 DEF CatalogInv, SavesAsChecked
  <2>4. TreeFits'
    <3>1. parent \in Node
      BY DEF CatalogInv, CatalogTypes
    <3> QED
      BY <1>1, <1>4, <1>8, <2>1, <3>1 DEF CatalogInv, CatalogHolds, TreeFits
  <2> QED
    BY <1>1, <1>8, <2>2, <2>3, <2>4, WritingsAlone
<1>9. CASE n = "c" /\ indicator' = [indicator EXCEPT ![n] = "gone"] /\ content' = NoRecord /\ history' = <<>>
  <2>1. indicator' \in [Node -> {"unborn", "live", "gone"}] /\ indicator'["c"] = "gone"
    BY <1>4, <1>9
  <2>2. /\ content'.values = Empty /\ content'.evidence = "empty" /\ content'.revision = 0
        /\ content'.record = FALSE
        /\ DOMAIN content' = {"record", "summary", "values", "evidence", "revision"}
    BY <1>9 DEF NoRecord
  <2>3. Empty \in Values /\ "empty" \in Value /\ \A f \in Field : Empty[f] = "empty"
    BY DEF Empty, Values, Value
  <2>4. /\ history' \in Seq([values : Values, field : Field]) /\ Len(history') = 0
        /\ DOMAIN history' = {}
    BY <1>9
  <2>5. CatalogTypes'
    <3>1. content'.record \in BOOLEAN
      BY <2>2, Zenon
    <3>2. content'.revision \in Nat
      BY <2>2
    <3> QED
      BY <1>1, <1>2, <2>1, <2>2, <2>3, <2>4, <3>1, <3>2 DEF CatalogInv, CatalogTypes
  <2>6. RecordIsLive'
    BY <1>9, <2>2, <2>4 DEF RecordIsLive
  <2>7. SavesAsChecked'
    BY <1>1, <1>2, <1>3, <2>1 DEF CatalogInv, SavesAsChecked
  <2>8. TreeFits' /\ UsedFieldsKeepType' /\ NoFieldLost'
    BY <1>9, <2>1, <2>2, <2>3, <2>4 DEF TreeFits, UsedFieldsKeepType, NoFieldLost
  <2> QED
    BY <2>5, <2>6, <2>7, <2>8
<1> QED
  BY <1>7, <1>8, <1>9 DEF DeleteNode

\* However many researchers and administrators work on it at once: the tree keeps the
\* depth of its system, contents the types of their template, those of a copied version
\* included unless it was read before the settings were saved, and nobody's field is
\* written back or deleted unseen.
THEOREM CatalogStands == CatalogSpec => []CatalogHolds
<1>1. CatalogInv /\ [CatalogNext]_catalogVars => CatalogInv'
  <2> SUFFICES ASSUME CatalogInv, [CatalogNext]_catalogVars PROVE CatalogInv'
    OBVIOUS
  <2>1. CASE UNCHANGED catalogVars
    <3>1. CatalogTypes' /\ RecordIsLive'
      BY <2>1 DEF catalogVars, CatalogInv, CatalogTypes, RecordIsLive
    <3>2. UnderOne' /\ SavesAsChecked' /\ DeletesAlone'
      BY <2>1 DEF catalogVars, CatalogInv, UnderOne, SavesAsChecked, DeletesAlone
    <3>3. TreeFits' /\ DeletedKnowingly'
      BY <2>1 DEF catalogVars, CatalogInv, CatalogHolds, TreeFits, DeletedKnowingly
    <3>4. UsedFieldsKeepType' /\ NoFieldLost'
      BY <2>1, WritingsAlone DEF catalogVars
    <3>5. CopiesAsRead' /\ CopyFits'
      BY <2>1 DEF catalogVars, CatalogInv, CatalogHolds, CopiesAsRead, CopyFits
    <3> QED
      BY <3>1, <3>2, <3>3, <3>4, <3>5 DEF CatalogInv, CatalogHolds
  <2> QED
    BY <2>1, AsksKeep, CreateKeeps, MoveKeeps, CloneKeeps, SaveSettingsKeeps, AskSaveKeeps,
       AskEvidenceKeeps, SaveModuleKeeps, SaveEvidenceKeeps, DeleteEvidenceKeeps,
       SaveSummaryKeeps, AskDeleteKeeps, DeleteNodeKeeps DEF CatalogNext
<1>2. CatalogInv => CatalogHolds
  BY DEF CatalogInv
<1> QED
  BY <1>1, <1>2, CatalogStarts, PTL DEF CatalogSpec

-----------------------------------------------------------------------------
(***************************************************************************)
(* The index of the expert database                                        *)
(***************************************************************************)
Rows(b, snapshot, count) ==
    {[build |-> b, batch |-> i, hash |-> snapshot] : i \in 0..(count - 1)}

IndexTypes ==
    /\ build \in [Build -> [status : {"new", "queued", "running", "ready", "failed"}, snapshot : Nat]]
    /\ worker \in [Worker -> [job : Build \cup {"none"}, step : Nat]]
    /\ active \in Build \cup {"none"} /\ replyLost \in BOOLEAN /\ fragment \in Nat

\* One build at a time is asked for or under way, and one worker ever has it.
OneAtATime ==
    /\ \A a, b \in Build : build[a].status \in {"queued", "running"} /\ build[b].status \in {"queued", "running"}
                           => a = b
    /\ \A w, v \in Worker : worker[w].job = worker[v].job => w = v \/ worker[w].job = "none"
    /\ \A w \in Worker : worker[w].job # "none" => build[worker[w].job].status \notin {"new", "queued"}

\* What of a build is in the table.
RowsAsWritten ==
    /\ \A b \in Build : build[b].status \in {"new", "queued"} => RowsOf(b) = {}
    /\ \A w \in Worker :
          worker[w].job # "none" /\ build[worker[w].job].status = "running" =>
             /\ worker[w].step <= Batches
             /\ RowsOf(worker[w].job) =
                   Rows(worker[w].job, build[worker[w].job].snapshot, worker[w].step)

\* Nobody has the published build in hand any more, unless it was not told.
PublishedIsLeft ==
    active # "none" /\ ~replyLost =>
        /\ build[active].status = "ready"
        /\ RowsOf(active) = Rows(active, build[active].snapshot, Batches)
        /\ \A w \in Worker : worker[w].job # active

IndexInv ==
    IndexTypes /\ OneAtATime /\ RowsAsWritten /\ PublishedIsLeft /\ AnswersAreCurrent

LEMMA IndexStarts ==
    ASSUME IndexInit
    PROVE  IndexInv
<1> USE DEF IndexInit, Waiting
<1>1. /\ \A b \in Build : build[b].status = "new"
      /\ \A w \in Worker : worker[w].job = "none"
      /\ active = "none" /\ chunks = {} /\ query = NoQuery
      /\ build \in [Build -> [status : {"new", "queued", "running", "ready", "failed"}, snapshot : Nat]]
      /\ worker \in [Worker -> [job : Build \cup {"none"}, step : Nat]]
  OBVIOUS
<1>2. IndexTypes
  BY <1>1 DEF IndexTypes
<1> HIDE DEF IndexInit, Waiting
<1>3. OneAtATime /\ RowsAsWritten /\ PublishedIsLeft
  BY <1>1 DEF OneAtATime, RowsAsWritten, PublishedIsLeft, RowsOf
<1>4. AnswersAreCurrent
  BY <1>1 DEF AnswersAreCurrent, NoQuery
<1> QED
  BY <1>2, <1>3, <1>4 DEF IndexInv

LEMMA OneRowMore ==
    ASSUME NEW b, NEW snapshot, NEW count \in Nat
    PROVE  Rows(b, snapshot, count + 1) =
              Rows(b, snapshot, count) \cup {[build |-> b, batch |-> count, hash |-> snapshot]}
<1>1. 0..(count + 1 - 1) = 0..(count - 1) \cup {count}
  OBVIOUS
<1> QED
  BY <1>1 DEF Rows

\* What happens beside the builds and their rows.
LEMMA BuildsAlone ==
    ASSUME IndexInv, UNCHANGED <<build, active, chunks, worker, replyLost>>,
           fragment' \in Nat, AnswersAreCurrent'
    PROVE  IndexInv'
<1>1. \A b : RowsOf(b)' = RowsOf(b)
  BY DEF RowsOf
<1>2. IndexTypes' /\ OneAtATime'
  BY DEF IndexInv, IndexTypes, OneAtATime
<1>3. RowsAsWritten' /\ PublishedIsLeft'
  BY <1>1 DEF IndexInv, RowsAsWritten, PublishedIsLeft
<1> QED
  BY <1>2, <1>3 DEF IndexInv

LEMMA EnqueueKeeps ==
    ASSUME IndexInv, NEW b \in Build, Enqueue(b)
    PROVE  IndexInv'
<1>1. /\ build[b].status = "new"
      /\ \A o \in Build : build[o].status \notin {"queued", "running"}
      /\ build' = [build EXCEPT ![b] = [status |-> "queued", snapshot |-> fragment]]
      /\ UNCHANGED <<fragment, active, chunks, worker, replyLost, query>>
  BY DEF Enqueue
<1>2. IndexTypes
  BY DEF IndexInv
<1>3. /\ build'[b].status = "queued"
      /\ \A o \in Build : o # b => build'[o] = build[o]
      /\ build' \in [Build -> [status : {"new", "queued", "running", "ready", "failed"}, snapshot : Nat]]
  BY <1>1, <1>2 DEF IndexTypes
<1>4. \A o : RowsOf(o)' = RowsOf(o)
  BY <1>1 DEF RowsOf
<1>5. \A w \in Worker : worker[w].job # "none" => worker[w].job \in Build \ {b}
  BY <1>1, <1>2 DEF IndexInv, OneAtATime, IndexTypes
<1>6. IndexTypes'
  BY <1>1, <1>2, <1>3 DEF IndexTypes
<1>7. OneAtATime'
  BY <1>1, <1>3, <1>5 DEF IndexInv, OneAtATime
<1>8. RowsAsWritten'
  <2>1. ASSUME NEW w \in Worker, worker[w].job # "none", build'[worker[w].job].status = "running"
        PROVE  FALSE
    BY <1>1, <1>3, <1>5, <2>1
  <2> QED
    BY <1>1, <1>3, <1>4, <2>1 DEF IndexInv, RowsAsWritten
<1>9. PublishedIsLeft'
  <2>1. active # "none" /\ ~replyLost => active \in Build \ {b}
    BY <1>1, <1>2 DEF IndexInv, PublishedIsLeft, IndexTypes
  <2> QED
    BY <1>1, <1>3, <1>4, <2>1 DEF IndexInv, PublishedIsLeft
<1>10. AnswersAreCurrent'
  BY <1>1 DEF IndexInv, AnswersAreCurrent
<1> QED
  BY <1>6, <1>7, <1>8, <1>9, <1>10 DEF IndexInv

\* Builds that were open are given up, without their rows.
LEMMA GivenUp ==
    ASSUME IndexInv, NEW stale, stale \subseteq Running
    PROVE  /\ GiveUp(stale) \in [Build -> [status : {"new", "queued", "running", "ready", "failed"},
                                           snapshot : Nat]]
           /\ \A b \in Build : /\ GiveUp(stale)[b].snapshot = build[b].snapshot
                               /\ b \in stale => GiveUp(stale)[b].status = "failed"
                               /\ b \notin stale => GiveUp(stale)[b] = build[b]
<1>1. build \in [Build -> [status : {"new", "queued", "running", "ready", "failed"}, snapshot : Nat]]
  BY DEF IndexInv, IndexTypes
<1> QED
  BY <1>1 DEF GiveUp

LEMMA ClaimKeeps ==
    ASSUME IndexInv, NEW w \in Worker, NEW b \in Build, ClaimJob(w, b)
    PROVE  IndexInv'
<1> DEFINE given == GiveUp(Running)
<1>1. /\ worker[w] = Waiting /\ build[b].status = "queued"
      /\ build' = [given EXCEPT ![b].status = "running"]
      /\ worker' = [worker EXCEPT ![w] = [job |-> b, step |-> 0]]
      /\ UNCHANGED <<fragment, active, chunks, replyLost, query>>
  BY DEF ClaimJob
<1>2. IndexTypes
  BY DEF IndexInv
<1>3. Running = {}
  BY <1>1 DEF IndexInv, OneAtATime, Running
<1>4. /\ given \in [Build -> [status : {"new", "queued", "running", "ready", "failed"}, snapshot : Nat]]
      /\ \A o \in Build : given[o] = build[o]
  BY <1>3, GivenUp
<1> HIDE DEF given
<1>5. /\ build'[b].status = "running" /\ build'[b].snapshot = build[b].snapshot
      /\ \A o \in Build : o # b => build'[o] = build[o]
      /\ build' \in [Build -> [status : {"new", "queued", "running", "ready", "failed"}, snapshot : Nat]]
  BY <1>1, <1>4
<1>6. /\ worker'[w].job = b /\ worker'[w].step = 0
      /\ \A v \in Worker : v # w => worker'[v] = worker[v]
      /\ worker' \in [Worker -> [job : Build \cup {"none"}, step : Nat]]
  BY <1>1, <1>2 DEF IndexTypes
<1>7. \A o : RowsOf(o)' = RowsOf(o)
  BY <1>1 DEF RowsOf
<1>8. \A v \in Worker : worker[v].job # "none" => worker[v].job \in Build \ {b}
  BY <1>1, <1>2 DEF IndexInv, OneAtATime, IndexTypes
<1>9. IndexTypes'
  BY <1>1, <1>2, <1>5, <1>6 DEF IndexTypes
<1>10. OneAtATime'
  <2>1. \A o \in Build : o # b => build'[o].status \notin {"queued", "running"}
    BY <1>1, <1>5 DEF IndexInv, OneAtATime
  <2>2. \A v, u \in Worker : worker'[v].job = worker'[u].job => v = u \/ worker'[v].job = "none"
    BY <1>6, <1>8 DEF IndexInv, OneAtATime
  <2>3. \A v \in Worker : worker'[v].job # "none" => build'[worker'[v].job].status \notin {"new", "queued"}
    BY <1>5, <1>6, <1>8 DEF IndexInv, OneAtATime
  <2> QED
    BY <2>1, <2>2, <2>3 DEF OneAtATime
<1>11. RowsAsWritten'
  <2>1. \A o \in Build : build'[o].status \in {"new", "queued"} => RowsOf(o)' = {}
    BY <1>5, <1>7 DEF IndexInv, RowsAsWritten
  <2>2. ASSUME NEW v \in Worker, worker'[v].job # "none", build'[worker'[v].job].status = "running"
        PROVE  /\ worker'[v].step <= Batches
               /\ {c \in chunks' : c.build = worker'[v].job} =
                     Rows(worker'[v].job, build'[worker'[v].job].snapshot, worker'[v].step)
    <3>1. CASE v = w
      <4>1. RowsOf(b) = {} /\ Rows(b, build[b].snapshot, 0) = {}
        BY <1>1 DEF IndexInv, RowsAsWritten, Rows
      <4>2. {c \in chunks' : c.build = b} = {}
        BY <1>7, <4>1 DEF RowsOf
      <4>3. worker'[v].job = b /\ worker'[v].step = 0 /\ build'[b].snapshot = build[b].snapshot
        BY <1>5, <1>6, <3>1
      <4> QED
        BY <4>1, <4>2, <4>3, BatchesAssumption
    <3>2. CASE v # w
      <4>1. worker'[v] = worker[v] /\ worker[v].job \in Build \ {b}
        BY <1>6, <1>8, <2>2, <3>2
      <4>2. build[worker[v].job].status = "running"
        BY <1>5, <2>2, <4>1
      <4> QED
        BY <1>3, <4>1, <4>2 DEF Running
    <3> QED
      BY <3>1, <3>2
  <2> QED
    BY <2>1, <2>2 DEF RowsAsWritten, RowsOf
<1>12. PublishedIsLeft'
  <2>1. active # "none" /\ ~replyLost => active \in Build \ {b}
    BY <1>1, <1>2 DEF IndexInv, PublishedIsLeft, IndexTypes
  <2> QED
    BY <1>1, <1>5, <1>6, <1>7, <2>1 DEF IndexInv, PublishedIsLeft
<1>13. AnswersAreCurrent'
  BY <1>1 DEF IndexInv, AnswersAreCurrent
<1> QED
  BY <1>9, <1>10, <1>11, <1>12, <1>13 DEF IndexInv

LEMMA TickKeeps ==
    ASSUME IndexInv, NEW w \in Worker, NEW b \in Build, TickOnly(w, b)
    PROVE  IndexInv'
<1>1. /\ b \in Running /\ build' = GiveUp({b})
      /\ UNCHANGED <<fragment, active, chunks, worker, replyLost, query>>
  BY DEF TickOnly
<1>2. /\ build' \in [Build -> [status : {"new", "queued", "running", "ready", "failed"}, snapshot : Nat]]
      /\ build[b].status = "running" /\ build'[b].status = "failed"
      /\ \A o \in Build : build'[o].snapshot = build[o].snapshot
      /\ \A o \in Build : o # b => build'[o] = build[o]
  BY <1>1, GivenUp DEF Running
<1>3. \A o : RowsOf(o)' = RowsOf(o)
  BY <1>1 DEF RowsOf
<1>4. IndexTypes
  BY DEF IndexInv
<1>5. IndexTypes' /\ OneAtATime'
  BY <1>1, <1>2, <1>4 DEF IndexInv, IndexTypes, OneAtATime
<1>6. RowsAsWritten'
  <2>1. \A v \in Worker : worker[v].job # "none" => worker[v].job \in Build
    BY <1>4 DEF IndexTypes
  <2>2. \A o \in Build : build'[o].status \in {"new", "queued"} => RowsOf(o) = {}
    BY <1>2 DEF IndexInv, RowsAsWritten
  <2>3. \A v \in Worker :
           worker[v].job # "none" /\ build'[worker[v].job].status = "running" =>
              /\ worker[v].step <= Batches
              /\ RowsOf(worker[v].job) =
                    Rows(worker[v].job, build'[worker[v].job].snapshot, worker[v].step)
    BY <1>2, <2>1 DEF IndexInv, RowsAsWritten
  <2> QED
    BY <1>1, <2>2, <2>3 DEF RowsAsWritten, RowsOf
<1>7. PublishedIsLeft'
  <2>1. active # "none" /\ ~replyLost => active \in Build \ {b}
    BY <1>2, <1>4 DEF IndexInv, PublishedIsLeft, IndexTypes
  <2> QED
    BY <1>1, <1>2, <1>3, <2>1 DEF IndexInv, PublishedIsLeft
<1>8. AnswersAreCurrent'
  BY <1>1 DEF IndexInv, AnswersAreCurrent
<1> QED
  BY <1>5, <1>6, <1>7, <1>8 DEF IndexInv

LEMMA WriteBatchKeeps ==
    ASSUME IndexInv, NEW w \in Worker, WriteBatch(w)
    PROVE  IndexInv'
<1> PICK b : b = worker[w].job
  OBVIOUS
<1> PICK k : k = worker[w].step
  OBVIOUS
<1> PICK snapshot : snapshot = build[b].snapshot
  OBVIOUS
<1> DEFINE row == [build |-> b, batch |-> k, hash |-> snapshot]
<1>1. /\ b # "none" /\ k < Batches /\ build[b].status = "running"
      /\ worker' = [worker EXCEPT ![w].step = @ + 1]
      /\ chunks' = chunks \cup {row}
      /\ UNCHANGED <<fragment, build, active, replyLost, query>>
  BY DEF WriteBatch, Alive
<1>2. IndexTypes
  BY DEF IndexInv
<1>3. /\ worker' \in [Worker -> [job : Build \cup {"none"}, step : Nat]]
      /\ worker'[w].job = b /\ worker'[w].step = k + 1 /\ k \in Nat /\ b \in Build
      /\ \A v \in Worker : v # w => worker'[v] = worker[v]
      /\ \A v \in Worker : worker'[v].job = worker[v].job
  BY <1>1, <1>2 DEF IndexTypes
<1>4. row.build = b
  OBVIOUS
<1>5. /\ \A o : o # b => {c \in chunks' : c.build = o} = RowsOf(o)
      /\ {c \in chunks' : c.build = b} = RowsOf(b) \cup {row}
  BY <1>1, <1>4 DEF RowsOf
<1>6. RowsOf(b) = Rows(b, snapshot, k)
  BY <1>1 DEF IndexInv, RowsAsWritten
<1>7. {c \in chunks' : c.build = b} = Rows(b, snapshot, k + 1)
  BY <1>3, <1>5, <1>6, OneRowMore
<1> HIDE DEF row
<1>8. IndexTypes' /\ OneAtATime'
  BY <1>1, <1>2, <1>3 DEF IndexInv, IndexTypes, OneAtATime
<1>9. RowsAsWritten'
  <2>1. ASSUME NEW o \in Build, build[o].status \in {"new", "queued"}
        PROVE  {c \in chunks' : c.build = o} = {}
    BY <1>1, <1>5, <2>1 DEF IndexInv, RowsAsWritten
  <2>2. ASSUME NEW v \in Worker, worker'[v].job # "none", build[worker'[v].job].status = "running"
        PROVE  /\ worker'[v].step <= Batches
               /\ {c \in chunks' : c.build = worker'[v].job} =
                     Rows(worker'[v].job, build[worker'[v].job].snapshot, worker'[v].step)
    <3>1. CASE v = w
      BY <1>1, <1>3, <1>7, <3>1, BatchesAssumption
    <3>2. CASE v # w
      <4>1. worker'[v] = worker[v] /\ worker[v].job # b
        BY <1>3, <2>2, <3>2 DEF IndexInv, OneAtATime
      <4> QED
        BY <1>5, <2>2, <4>1 DEF IndexInv, RowsAsWritten
    <3> QED
      BY <3>1, <3>2
  <2> QED
    BY <1>1, <2>1, <2>2 DEF RowsAsWritten, RowsOf
<1>10. PublishedIsLeft'
  <2>1. active # "none" /\ ~replyLost => active # b
    BY <1>1 DEF IndexInv, PublishedIsLeft
  <2>2. \A o : o # b => RowsOf(o)' = RowsOf(o)
    BY <1>5 DEF RowsOf
  <2> QED
    BY <1>1, <1>3, <1>5, <2>1 DEF IndexInv, PublishedIsLeft, RowsOf
<1>11. AnswersAreCurrent'
  BY <1>1 DEF IndexInv, AnswersAreCurrent
<1> QED
  BY <1>8, <1>9, <1>10, <1>11 DEF IndexInv

LEMMA PublishKeeps ==
    ASSUME IndexInv, NEW w \in Worker, NEW heard \in BOOLEAN, Publish(w, heard)
    PROVE  IndexInv'
<1> PICK b : b = worker[w].job
  OBVIOUS
<1> PICK snapshot : snapshot = build[b].snapshot
  OBVIOUS
<1>1. /\ b # "none" /\ worker[w].step = Batches /\ build[b].status = "running"
      /\ build' = [build EXCEPT ![b].status = "ready"] /\ active' = b
      /\ chunks' = RowsOf(b)
      /\ \/ worker' = [worker EXCEPT ![w] = Waiting] /\ UNCHANGED replyLost
         \/ replyLost' = TRUE /\ worker' = [worker EXCEPT ![w].step = Batches + 1]
      /\ UNCHANGED <<fragment, query>>
  BY DEF Publish, Alive
<1>2. IndexTypes
  BY DEF IndexInv
<1>3. /\ b \in Build /\ build'[b].status = "ready" /\ build'[b].snapshot = snapshot
      /\ \A o \in Build : o # b => build'[o] = build[o]
      /\ build' \in [Build -> [status : {"new", "queued", "running", "ready", "failed"}, snapshot : Nat]]
  BY <1>1, <1>2 DEF IndexTypes
<1>4. /\ worker' \in [Worker -> [job : Build \cup {"none"}, step : Nat]]
      /\ \A v \in Worker : v # w => worker'[v] = worker[v]
      /\ \/ worker'[w].job = "none" /\ UNCHANGED replyLost
         \/ worker'[w].job = b /\ replyLost' = TRUE
  <2>1. CASE worker' = [worker EXCEPT ![w] = Waiting] /\ UNCHANGED replyLost
    BY <1>2, <2>1 DEF IndexTypes, Waiting
  <2>2. CASE replyLost' = TRUE /\ worker' = [worker EXCEPT ![w].step = Batches + 1]
    BY <1>2, <2>2, BatchesAssumption DEF IndexTypes
  <2> QED
    BY <1>1, <2>1, <2>2
<1>5. /\ \A o : o # b => {c \in chunks' : c.build = o} = {}
      /\ {c \in chunks' : c.build = b} = RowsOf(b)
  BY <1>1 DEF RowsOf
<1>6. RowsOf(b) = Rows(b, snapshot, Batches)
  BY <1>1 DEF IndexInv, RowsAsWritten
<1>7. \A v \in Worker : v # w => worker[v].job # b
  BY <1>1 DEF IndexInv, OneAtATime
<1>8. \A o \in Build : o # b => build[o].status \notin {"queued", "running"}
  BY <1>1, <1>3 DEF IndexInv, OneAtATime
<1>9. IndexTypes'
  <2>1. replyLost' \in BOOLEAN
    BY <1>1, <1>2 DEF IndexTypes
  <2> QED
    BY <1>1, <1>2, <1>3, <1>4, <2>1 DEF IndexTypes
<1>10. OneAtATime'
  <2>1. \A o \in Build : build'[o].status \notin {"queued", "running"}
    BY <1>3, <1>8
  <2>2. \A v, u \in Worker : worker'[v].job = worker'[u].job => v = u \/ worker'[v].job = "none"
    BY <1>4, <1>7 DEF IndexInv, OneAtATime
  <2>3. \A v \in Worker : worker'[v].job # "none" =>
           build'[worker'[v].job].status \notin {"new", "queued"}
    <3>1. \A v \in Worker : worker[v].job # "none" =>
             worker[v].job \in Build /\ build[worker[v].job].status \notin {"new", "queued"}
      BY <1>2 DEF IndexInv, OneAtATime, IndexTypes
    <3> QED
      BY <1>3, <1>4, <3>1
  <2> QED
    BY <2>1, <2>2, <2>3 DEF OneAtATime
<1>11. RowsAsWritten'
  <2>1. \A o \in Build : build'[o].status # "running" /\ (build'[o].status \in {"new", "queued"} => o # b)
    BY <1>3, <1>8
  <2>2. \A v \in Worker : worker'[v].job # "none" => worker'[v].job \in Build
    BY <1>4
  <2> QED
    BY <1>5, <2>1, <2>2 DEF RowsAsWritten, RowsOf
<1>12. PublishedIsLeft'
  <2>1. ASSUME ~replyLost' PROVE \A v \in Worker : worker'[v].job # b
    BY <1>1, <1>4, <1>7, <2>1
  <2> QED
    BY <1>1, <1>3, <1>5, <1>6, <2>1 DEF PublishedIsLeft, RowsOf
<1>13. AnswersAreCurrent'
  BY <1>1 DEF IndexInv, AnswersAreCurrent
<1> QED
  BY <1>9, <1>10, <1>11, <1>12, <1>13 DEF IndexInv

LEMMA AbandonKeeps ==
    ASSUME IndexInv, NEW w \in Worker, Abandon(w)
    PROVE  IndexInv'
<1> PICK b : b = worker[w].job
  OBVIOUS
<1>1. /\ b # "none"
      /\ build' = IF build[b].status = "running" THEN [build EXCEPT ![b].status = "failed"] ELSE build
      /\ chunks' = chunks \ RowsOf(b)
      /\ worker' = [worker EXCEPT ![w] = Waiting]
      /\ UNCHANGED <<fragment, active, replyLost, query>>
  BY DEF Abandon, Alive
<1>2. IndexTypes
  BY DEF IndexInv
<1>3. /\ b \in Build /\ build'[b].status \notin {"new", "queued", "running"}
      /\ \A o \in Build : build'[o].snapshot = build[o].snapshot
      /\ \A o \in Build : o # b => build'[o] = build[o]
      /\ build' \in [Build -> [status : {"new", "queued", "running", "ready", "failed"}, snapshot : Nat]]
  <2>1. b \in Build /\ build[b].status \notin {"new", "queued"}
    BY <1>1, <1>2 DEF IndexInv, OneAtATime, IndexTypes
  <2> QED
    BY <1>1, <1>2, <2>1 DEF IndexTypes
<1>4. /\ worker' \in [Worker -> [job : Build \cup {"none"}, step : Nat]]
      /\ worker'[w].job = "none"
      /\ \A v \in Worker : v # w => worker'[v] = worker[v]
  BY <1>1, <1>2 DEF IndexTypes, Waiting
<1>5. \A o : o # b => {c \in chunks' : c.build = o} = RowsOf(o)
  BY <1>1 DEF RowsOf
<1>6. \A v \in Worker : worker'[v].job # "none" =>
         worker'[v] = worker[v] /\ worker[v].job \in Build \ {b}
  BY <1>1, <1>2, <1>4 DEF IndexInv, OneAtATime, IndexTypes
<1>7. IndexTypes'
  BY <1>1, <1>2, <1>3, <1>4 DEF IndexTypes
<1>8. OneAtATime'
  <2>1. \A o, d \in Build : build'[o].status \in {"queued", "running"}
                            /\ build'[d].status \in {"queued", "running"} => o = d
    BY <1>3 DEF IndexInv, OneAtATime
  <2>2. \A v, u \in Worker : worker'[v].job = worker'[u].job => v = u \/ worker'[v].job = "none"
    BY <1>6 DEF IndexInv, OneAtATime
  <2>3. \A v \in Worker : worker'[v].job # "none" =>
           build'[worker'[v].job].status \notin {"new", "queued"}
    BY <1>3, <1>6 DEF IndexInv, OneAtATime
  <2> QED
    BY <2>1, <2>2, <2>3 DEF OneAtATime
<1>9. RowsAsWritten'
  <2>1. \A o \in Build : build'[o].status \in {"new", "queued"} => {c \in chunks' : c.build = o} = {}
    BY <1>3, <1>5 DEF IndexInv, RowsAsWritten
  <2>2. ASSUME NEW v \in Worker, worker'[v].job # "none", build'[worker'[v].job].status = "running"
        PROVE  /\ worker'[v].step <= Batches
               /\ {c \in chunks' : c.build = worker'[v].job} =
                     Rows(worker'[v].job, build'[worker'[v].job].snapshot, worker'[v].step)
    <3>1. worker'[v] = worker[v] /\ worker[v].job \in Build \ {b}
      BY <1>6, <2>2
    <3> QED
      BY <1>3, <1>5, <2>2, <3>1 DEF IndexInv, RowsAsWritten
  <2> QED
    BY <2>1, <2>2 DEF RowsAsWritten, RowsOf
<1>10. PublishedIsLeft'
  <2>1. ASSUME active # "none", ~replyLost
        PROVE  /\ build'[active].status = "ready"
               /\ {c \in chunks' : c.build = active} = Rows(active, build'[active].snapshot, Batches)
               /\ \A v \in Worker : worker'[v].job # active
    <3>1. active \in Build \ {b}
      BY <1>2, <2>1 DEF IndexInv, PublishedIsLeft, IndexTypes
    <3> QED
      BY <1>3, <1>4, <1>5, <2>1, <3>1 DEF IndexInv, PublishedIsLeft
  <2> QED
    BY <1>1, <2>1 DEF PublishedIsLeft, RowsOf
<1>11. AnswersAreCurrent'
  BY <1>1 DEF IndexInv, AnswersAreCurrent
<1> QED
  BY <1>7, <1>8, <1>9, <1>10, <1>11 DEF IndexInv

LEMMA CrashKeeps ==
    ASSUME IndexInv, NEW w \in Worker, Crash(w)
    PROVE  IndexInv'
<1>1. /\ worker' = [worker EXCEPT ![w] = Waiting]
      /\ UNCHANGED <<fragment, build, active, chunks, replyLost, query>>
  BY DEF Crash
<1>2. /\ worker' \in [Worker -> [job : Build \cup {"none"}, step : Nat]]
      /\ worker'[w].job = "none"
      /\ \A v \in Worker : v # w => worker'[v] = worker[v]
  BY <1>1 DEF IndexInv, IndexTypes, Waiting
<1>3. \A v \in Worker : worker'[v].job # "none" => worker'[v] = worker[v]
  BY <1>2
<1>4. IndexTypes' /\ OneAtATime'
  BY <1>1, <1>2, <1>3 DEF IndexInv, IndexTypes, OneAtATime
<1>5. RowsAsWritten'
  BY <1>1, <1>2, <1>3 DEF IndexInv, RowsAsWritten, RowsOf
<1>6. PublishedIsLeft'
  <2>1. active # "none" /\ ~replyLost => \A v \in Worker : worker'[v].job # active
    BY <1>2 DEF IndexInv, PublishedIsLeft
  <2> QED
    BY <1>1, <2>1 DEF IndexInv, PublishedIsLeft, RowsOf
<1>7. AnswersAreCurrent'
  BY <1>1 DEF IndexInv, AnswersAreCurrent
<1> QED
  BY <1>4, <1>5, <1>6, <1>7 DEF IndexInv

LEMMA RemoveKeeps ==
    ASSUME IndexInv, RemoveLibrary
    PROVE  IndexInv'
<1>1. /\ \A o \in Build : build[o].status \notin {"queued", "running"}
      /\ active' = "none" /\ chunks' = {} /\ replyLost' = FALSE
      /\ build' = [b \in Build |-> IF build[b].status = "new" THEN build[b]
                                   ELSE [status |-> "failed", snapshot |-> 0]]
      /\ UNCHANGED <<fragment, worker, query>>
  BY DEF RemoveLibrary
<1>2. IndexTypes
  BY DEF IndexInv
<1>3. /\ build' \in [Build -> [status : {"new", "queued", "running", "ready", "failed"}, snapshot : Nat]]
      /\ \A b \in Build : /\ build'[b].status \in {"new", "failed"}
                          /\ build'[b].status = "new" => build[b].status = "new"
  BY <1>1, <1>2 DEF IndexTypes
<1>4. IndexTypes'
  <2>1. replyLost' \in BOOLEAN
    BY <1>1, Zenon
  <2> QED
    BY <1>1, <1>2, <1>3, <2>1 DEF IndexTypes
<1>5. \A w \in Worker : worker[w].job # "none" =>
         worker[w].job \in Build /\ build'[worker[w].job].status = "failed"
  BY <1>2, <1>3 DEF IndexInv, OneAtATime, IndexTypes
<1>6. OneAtATime'
  BY <1>1, <1>3, <1>5 DEF IndexInv, OneAtATime
<1>7. RowsAsWritten' /\ PublishedIsLeft'
  BY <1>1, <1>5 DEF RowsAsWritten, PublishedIsLeft, RowsOf
<1>8. AnswersAreCurrent'
  BY <1>1 DEF IndexInv, AnswersAreCurrent
<1> QED
  BY <1>4, <1>6, <1>7, <1>8 DEF IndexInv

\* A published index is whole, whatever workers lose their builds, go down or hear too
\* late; and an answer is never older than the contents it was compared with.
THEOREM IndexStands == IndexSpec => []IndexHolds
<1>1. IndexInv /\ [IndexNext]_indexVars => IndexInv'
  <2> SUFFICES ASSUME IndexInv, [IndexNext]_indexVars PROVE IndexInv'
    OBVIOUS
  <2>1. fragment \in Nat /\ AnswersAreCurrent
    BY DEF IndexInv, IndexTypes
  <2>2. CASE EditContent
    BY <2>1, <2>2, BuildsAlone DEF EditContent, AnswersAreCurrent
  <2>3. CASE Ask
    <3>1. query'.step = "asked" /\ UNCHANGED <<fragment, build, active, chunks, worker, replyLost>>
      BY <2>3 DEF Ask, NoQuery
    <3>2. AnswersAreCurrent'
      BY <3>1 DEF AnswersAreCurrent
    <3> QED
      BY <2>1, <3>1, <3>2, BuildsAlone
  <2>4. CASE Match
    <3>1. /\ query.step = "asked"
          /\ query' = [query EXCEPT !.step = "matched", !.found = Matches(query.asked)]
          /\ UNCHANGED <<fragment, build, active, chunks, worker, replyLost>>
      BY <2>4 DEF Match
    <3>2. "step" \in DOMAIN query => query'.step = "matched"
      BY <3>1
    <3>3. AnswersAreCurrent'
      BY <3>1, <3>2 DEF AnswersAreCurrent
    <3> QED
      BY <2>1, <3>1, <3>3, BuildsAlone
  <2>5. CASE Answer
    <3>1. /\ query' = [query EXCEPT !.step = "answered", !.answer = StillValid(query.found), !.asked = fragment]
          /\ UNCHANGED <<fragment, build, active, chunks, worker, replyLost>>
      BY <2>5 DEF Answer
    <3>2. AnswersAreCurrent'
      BY <2>1, <3>1 DEF AnswersAreCurrent, StillValid
    <3> QED
      BY <2>1, <3>1, <3>2, BuildsAlone
  <2>6. CASE NextQuery
    <3>1. query'.step = "idle" /\ UNCHANGED <<fragment, build, active, chunks, worker, replyLost>>
      BY <2>6 DEF NextQuery, NoQuery
    <3>2. AnswersAreCurrent'
      BY <3>1 DEF AnswersAreCurrent
    <3> QED
      BY <2>1, <3>1, <3>2, BuildsAlone
  <2>7. CASE UNCHANGED indexVars
    BY <2>1, <2>7, BuildsAlone DEF indexVars, AnswersAreCurrent
  <2> QED
    BY <2>2, <2>3, <2>4, <2>5, <2>6, <2>7, EnqueueKeeps, ClaimKeeps, TickKeeps, WriteBatchKeeps,
       PublishKeeps, AbandonKeeps, CrashKeeps, RemoveKeeps DEF IndexNext
<1>2. IndexInv => IndexHolds
  BY DEF IndexInv, IndexHolds, PublishedIsLeft, PublishedIsWhole, Rows
<1> QED
  BY <1>1, <1>2, IndexStarts, PTL DEF IndexSpec
-----------------------------------------------------------------------------
(***************************************************************************)
(* The page researchers write on                                           *)
(***************************************************************************)
AskedType ==
    [kind : {"context", "reload", "workspace", "refresh", "systems"},
     node : Indicator \cup {NoIndicator}, latest : BOOLEAN]

ShownType == [node : Indicator \cup {NoIndicator}, no : Nat]
DraftKind == [node : Indicator \cup {NoIndicator}, dirty : BOOLEAN, no : Nat]
SavingType ==
    [stage : {"none", "sent", "stored", "conflict", "failed"},
     node : Indicator \cup {NoIndicator}, seen : Nat, expected : Nat, live : BOOLEAN]

DeskTypes ==
    /\ storedNo \in [Indicator -> Nat] /\ detail \in BOOLEAN /\ crossed \in BOOLEAN
    /\ signedIn \in BOOLEAN /\ workspaceDirty \in BOOLEAN
    /\ shown \in ShownType /\ draft \in DraftKind /\ saving \in SavingType
    /\ askedFor \subseteq AskedType
    /\ question \in Places \cup {NoPlace, "close"} /\ afterSave \in Places \cup {NoPlace}

\* The context is asked for once at a time, while it is not there, or again while it is;
\* the latest workspace asked for is the route's; a page that waits for its context
\* shows nothing.
AskedFits ==
    /\ \A q \in askedFor :
          /\ q.kind \in {"workspace", "refresh"} => q.node \in Indicator
          /\ q.kind = "workspace" /\ q.latest /\ detail => q.node = place
          /\ q.kind = "reload" => detail
          /\ q.kind = "context" =>
                /\ ~detail
                /\ ~crossed => shown.node = NoIndicator /\ draft.node = NoIndicator
    /\ \A q, r \in askedFor :
          q.kind \in {"context", "reload"} /\ r.kind \in {"context", "reload"} => q = r

\* A save sends what its draft was begun from, and keeps the page of that draft, unless
\* the page is taken away.
SavingFits ==
    /\ saving.seen = saving.expected
    /\ saving.stage # "none" =>
          /\ saving.node \in Indicator
          /\ saving.live => signedIn
          /\ ~crossed /\ saving.live => draft.node = saving.node /\ question = NoPlace

\* A draft is of what is shown; the page knows of a changed one.
DraftFits ==
    /\ draft.dirty => draft.node \in Indicator /\ workspaceDirty
    /\ ~crossed /\ draft.node # NoIndicator => draft.node = shown.node
    /\ draft.node # NoIndicator => signedIn

DeskInv ==
    /\ DeskTypes /\ AskedFits /\ SavingFits /\ DraftFits /\ RightIndicator

\* What the last property says of one step.
DraftEnds ==
    draft.dirty /\ (~draft'.dirty \/ window' = "closed") /\ ~crossed' =>
        \/ saving.stage = "stored" /\ saving.node = draft.node
        \/ question # NoPlace /\ question' = NoPlace /\ saving' = saving
        \/ question = NoPlace /\ question' = NoPlace /\ window' = "open" /\ place' = place
           /\ shown' = shown /\ ~Busy
        \/ signedIn /\ ~signedIn'
        \/ \E q \in askedFor \ askedFor' : q.kind = "systems"

LEMMA NothingThere ==
    /\ NothingShown \in ShownType /\ NothingShown.node = NoIndicator
    /\ NoDraft \in DraftKind /\ NoDraft.node = NoIndicator /\ NoDraft.dirty = FALSE
    /\ NoSaving \in SavingType /\ NoSaving.stage = "none" /\ NoSaving.seen = NoSaving.expected
    /\ NoIndicator \notin Indicator
BY DeskAssumption DEF NothingShown, ShownType, NoDraft, DraftKind, NoSaving, SavingType

LEMMA Requested ==
    ASSUME NEW i \in Indicator \cup {NoIndicator},
           NEW kind \in {"context", "reload", "workspace", "refresh", "systems"}
    PROVE  /\ Request(kind, i) \in AskedType /\ Request(kind, i).kind = kind
           /\ Request(kind, i).node = i
BY DEF Request, AskedType

\* What is overtaken goes, or is a workspace nobody waits for any more.
LEMMA Overtakes ==
    ASSUME DeskTypes, NEW kinds, NEW r \in Overtaken(kinds)
    PROVE  /\ r \in AskedType
           /\ r.kind \notin kinds => r \in askedFor
           /\ r.kind \in kinds => r.kind = "workspace" /\ r.latest = FALSE
           /\ \E q \in askedFor : q.kind = r.kind /\ q.node = r.node
<1>1. CASE r \in {q \in askedFor : q.kind \notin kinds}
  BY <1>1 DEF DeskTypes
<1>2. CASE \E q \in askedFor : q.kind = "workspace" /\ q.kind \in kinds
                               /\ r = [q EXCEPT !.latest = FALSE]
  <2>1. PICK q \in askedFor : /\ q.kind = "workspace" /\ q.kind \in kinds
                              /\ r = [q EXCEPT !.latest = FALSE]
    BY <1>2
  <2>2. q \in AskedType
    BY <2>1 DEF DeskTypes
  <2>3. r \in AskedType /\ r.kind = q.kind /\ r.node = q.node /\ r.latest = FALSE
    BY <2>1, <2>2 DEF AskedType
  <2> QED
    BY <2>1, <2>3
<1> QED
  BY <1>1, <1>2 DEF Overtaken

\* A new route: nothing is shown, and what was asked for the old one is overtaken.
LEMMA Goes ==
    ASSUME DeskInv, NEW to \in Places, GoTo(to)
    PROVE  /\ place' = to /\ draft' = NoDraft /\ shown' = NothingShown
           /\ detail' \in BOOLEAN /\ askedFor' \subseteq AskedType
           /\ AskedFits' /\ RightIndicator'
<1>1. DeskTypes /\ AskedFits
  BY DEF DeskInv
<1>2. place' = to /\ draft' = NoDraft /\ shown' = NothingShown
  BY DEF GoTo
<1>3. RightIndicator'
  BY <1>2, NothingThere DEF RightIndicator
<1>4. CASE to = Systems
  <2>1. detail' = FALSE /\ askedFor' = Overtaken({"context", "reload", "workspace"})
    BY <1>4 DEF GoTo
  <2>2. \A r \in askedFor' :
          /\ r \in AskedType /\ r.kind \notin {"context", "reload"}
          /\ r.kind \in {"workspace", "refresh"} => r.node \in Indicator
    BY <1>1, <2>1, Overtakes DEF AskedFits
  <2>3. AskedFits'
    BY <2>1, <2>2 DEF AskedFits
  <2> QED
    BY <1>2, <1>3, <2>1, <2>2, <2>3
<1>5. CASE to # Systems /\ ~detail
  <2>1. /\ detail' = FALSE
        /\ askedFor' = Overtaken({"context", "reload"}) \cup {Request("context", NoIndicator)}
    BY <1>1, <1>5 DEF GoTo, DeskTypes
  <2>2. /\ Request("context", NoIndicator) \in AskedType
        /\ Request("context", NoIndicator).kind = "context"
    BY Requested
  <2>3. \A r \in Overtaken({"context", "reload"}) :
          /\ r \in AskedType /\ r.kind \notin {"context", "reload"}
          /\ r.kind \in {"workspace", "refresh"} => r.node \in Indicator
    BY <1>1, Overtakes DEF AskedFits
  <2>4. AskedFits'
    BY <1>2, <2>1, <2>2, <2>3, NothingThere DEF AskedFits
  <2> QED
    BY <1>2, <1>3, <2>1, <2>2, <2>3, <2>4
<1>6. CASE to # Systems /\ detail
  <2>1. /\ detail' = TRUE /\ to \in Indicator
        /\ askedFor' = Overtaken({"context", "reload", "workspace"}) \cup {Request("workspace", to)}
    BY <1>1, <1>6 DEF GoTo, DeskTypes, Places
  <2>2. /\ Request("workspace", to) \in AskedType /\ Request("workspace", to).node = to
        /\ Request("workspace", to).kind = "workspace"
    BY <2>1, Requested
  <2>3. \A r \in Overtaken({"context", "reload", "workspace"}) :
          /\ r \in AskedType /\ r.kind \notin {"context", "reload"}
          /\ r.kind \in {"workspace", "refresh"} => r.node \in Indicator
          /\ r.kind = "workspace" => r.latest = FALSE
    <3>1. \A r \in Overtaken({"context", "reload", "workspace"}) :
            /\ r \in AskedType
            /\ r.kind \in {"context", "reload", "workspace"} =>
                  r.kind = "workspace" /\ r.latest = FALSE
            /\ \E q \in askedFor : q.kind = r.kind /\ q.node = r.node
      BY <1>1, Overtakes
    <3> QED
      BY <1>1, <3>1 DEF AskedFits
  <2>4. AskedFits'
    BY <1>2, <2>1, <2>2, <2>3 DEF AskedFits
  <2> QED
    BY <1>2, <1>3, <2>1, <2>2, <2>3, <2>4
<1> QED
  BY <1>1, <1>4, <1>5, <1>6 DEF DeskTypes

\* Another workspace: a page of the same indicator keeps its draft and its save.
LEMMA Shows ==
    ASSUME DeskInv, NEW i \in Indicator, Show(i, storedNo[i]), NEW q \in askedFor,
           askedFor' = askedFor \ {q}, crossed' \in BOOLEAN, crossed => crossed',
           ~crossed' => detail /\ i = place,
           UNCHANGED <<storedNo, place, detail, question, afterSave, signedIn>>
    PROVE  /\ DeskInv'
           /\ ~crossed' => draft' = draft
           /\ saving'.stage = saving.stage /\ saving'.expected = saving.expected
<1>1. DeskTypes /\ AskedFits /\ SavingFits /\ DraftFits /\ RightIndicator
  BY DEF DeskInv
<1>2. shown' = [node |-> i, no |-> storedNo[i]] /\ storedNo[i] \in Nat
  BY <1>1 DEF Show, DeskTypes
<1>3. shown' \in ShownType /\ shown'.node = i
  BY <1>2 DEF ShownType
<1>4. ~crossed' => shown.node \in {i, NoIndicator}
  BY <1>1 DEF RightIndicator
<1>5. /\ saving' \in SavingType /\ saving'.stage = saving.stage /\ saving'.node = saving.node
      /\ saving'.seen = saving.seen /\ saving'.expected = saving.expected
      /\ ~crossed' => saving' = saving
      /\ saving'.live => saving.live
  <2>1. CASE shown.node \notin {i, NoIndicator}
    <3>1. saving' = [saving EXCEPT !.live = FALSE] /\ crossed'
      BY <1>4, <2>1 DEF Show
    <3> QED
      BY <1>1, <3>1 DEF DeskTypes, SavingType
  <2>2. CASE shown.node \in {i, NoIndicator}
    BY <1>1, <2>2 DEF Show, DeskTypes
  <2> QED
    BY <2>1, <2>2
<1>6. /\ draft' \in DraftKind /\ (~crossed' => draft' = draft) /\ DraftFits'
      /\ workspaceDirty' \in BOOLEAN
  <2>1. CASE shown.node \notin {i, NoIndicator}
    <3>1. draft' = NoDraft /\ workspaceDirty' = (workspaceDirty /\ ~draft.dirty) /\ crossed'
      BY <1>4, <2>1 DEF Show, FormEnds
    <3> QED
      BY <3>1, NothingThere DEF DraftFits
  <2>2. CASE shown.node \in {i, NoIndicator}
    <3>1. UNCHANGED <<draft, workspaceDirty, signedIn>>
      BY <2>2 DEF Show
    <3>2. ~crossed' /\ draft.node # NoIndicator => draft.node = i
      BY <1>1, <2>2 DEF DraftFits
    <3> QED
      BY <1>1, <1>3, <3>1, <3>2 DEF DeskTypes, DraftFits
  <2> QED
    BY <2>1, <2>2
<1>7. DeskTypes'
  BY <1>1, <1>3, <1>5, <1>6 DEF DeskTypes
<1>8. AskedFits'
  BY <1>1, <1>6 DEF AskedFits
<1>9. SavingFits'
  BY <1>1, <1>5, <1>6 DEF SavingFits
<1>10. RightIndicator'
  BY <1>3 DEF RightIndicator
<1> QED
  BY <1>5, <1>6, <1>7, <1>8, <1>9, <1>10 DEF DeskInv

\* What is asked for when the list of the systems stirs the route.
LEMMA Syncs ==
    ASSUME DeskInv, NEW r \in SyncAgain
    PROVE  /\ r \in AskedType /\ r.kind # "reload"
           /\ r.kind \in {"workspace", "refresh"} => r.node \in Indicator
           /\ r.kind = "workspace" /\ r.latest /\ detail => r.node = place
           /\ r.kind = "context" =>
                 r = Request("context", NoIndicator) /\ place \in Indicator /\ ~detail
<1>1. DeskTypes /\ AskedFits
  BY DEF DeskInv
<1>2. ASSUME NEW kinds \in {{"context", "reload"}, {"context", "reload", "workspace"}},
             r \in Overtaken(kinds)
      PROVE  /\ r \in AskedType /\ r.kind \notin {"context", "reload"}
             /\ r.kind \in {"workspace", "refresh"} => r.node \in Indicator
             /\ r.kind = "workspace" /\ r.latest /\ detail => r.node = place
  BY <1>1, <1>2, Overtakes DEF AskedFits
<1>3. CASE \E kinds \in {{"context", "reload"}, {"context", "reload", "workspace"}} :
              r \in Overtaken(kinds)
  BY <1>2, <1>3
<1>4. CASE r = Request("context", NoIndicator) /\ place \in Indicator /\ ~detail
  BY <1>4, Requested
<1>5. CASE r = Request("workspace", place) /\ place \in Indicator
  BY <1>5, Requested
<1> QED
  BY <1>3, <1>4, <1>5 DEF SyncAgain

\* The session ends: nothing is shown, drafted or asked that counts.
LEMMA Expires ==
    ASSUME DeskInv, Expired, UNCHANGED <<storedNo, crossed>>, saving' \in SavingType,
           saving'.seen = saving'.expected,
           saving'.stage # "none" => saving'.node \in Indicator /\ ~saving'.live,
           afterSave' = afterSave
    PROVE  DeskInv'
<1>1. DeskTypes /\ AskedFits
  BY DEF DeskInv
<1>2. /\ signedIn' = FALSE /\ workspaceDirty' = FALSE /\ detail' = FALSE
      /\ shown' = NothingShown /\ draft' = NoDraft
      /\ askedFor' = Overtaken({"context", "reload", "workspace"})
      /\ question' \in Places \cup {NoPlace, "close"}
  BY <1>1 DEF Expired, DeskTypes, Places
<1>3. \A r \in askedFor' :
        /\ r \in AskedType /\ r.kind \notin {"context", "reload"}
        /\ r.kind \in {"workspace", "refresh"} => r.node \in Indicator
  BY <1>1, <1>2, Overtakes DEF AskedFits
<1>4. DeskTypes' /\ AskedFits'
  BY <1>1, <1>2, <1>3, NothingThere DEF DeskTypes, AskedFits
<1>5. SavingFits' /\ DraftFits' /\ RightIndicator'
  BY <1>2, NothingThere DEF SavingFits, DraftFits, RightIndicator
<1> QED
  BY <1>4, <1>5 DEF DeskInv

\* What was stored, or may have been, replaced what the draft was begun from.
SeenFirst ==
    saving.stage = "sent" /\ saving'.stage \in {"stored", "failed"} =>
        storedNo[saving.node] = saving.seen

LEMMA DeskStep ==
    ASSUME DeskInv, DeskNext
    PROVE  DeskInv' /\ SeenFirst /\ DraftEnds
<1>1. /\ storedNo \in [Indicator -> Nat] /\ detail \in BOOLEAN /\ crossed \in BOOLEAN
      /\ shown \in ShownType /\ draft \in DraftKind /\ saving \in SavingType
      /\ askedFor \subseteq AskedType /\ window # "closed" /\ NoIndicator \notin Indicator
      /\ question \in Places \cup {NoPlace, "close"} /\ afterSave \in Places \cup {NoPlace}
      /\ signedIn \in BOOLEAN /\ workspaceDirty \in BOOLEAN
  BY DeskAssumption DEF DeskInv, DeskTypes, DeskNext
<1>2. DeskTypes /\ AskedFits /\ SavingFits /\ DraftFits /\ RightIndicator
  BY DEF DeskInv
\* A step that leaves the page and what it asked for alone.
<1>3. ASSUME UNCHANGED <<place, detail, shown, askedFor, signedIn, workspaceDirty, crossed>>,
             saving' = saving,
             draft' = draft, storedNo' \in [Indicator -> Nat],
             question' = question \/ (question' \in Places \cup {NoPlace, "close"} /\ ~Busy),
             afterSave' \in Places \cup {NoPlace}
      PROVE  DeskInv'
  <2>1. DeskTypes' /\ AskedFits' /\ DraftFits' /\ RightIndicator'
    BY <1>1, <1>2, <1>3 DEF DeskTypes, AskedFits, DraftFits, RightIndicator
  <2>2. SavingFits'
    BY <1>2, <1>3 DEF SavingFits, Busy
  <2> QED
    BY <2>1, <2>2 DEF DeskInv
<1>4. ASSUME NEW to \in Places, Navigate(to) PROVE DeskInv' /\ SeenFirst /\ DraftEnds
  <2>1. /\ window = "open" /\ question = NoPlace /\ ~Busy
        /\ UNCHANGED <<storedNo, saving, afterSave, window, signedIn, workspaceDirty, crossed>>
    BY <1>4 DEF Navigate
  <2>2. saving.stage # "none" => ~saving.live
    BY <2>1 DEF Busy
  <2>3. CASE Unsaved
    <3>1. UNCHANGED <<place, detail, shown, askedFor, draft>> /\ question' = to
      BY <1>4, <2>3 DEF Navigate
    <3>2. DeskTypes' /\ AskedFits' /\ DraftFits' /\ RightIndicator'
      BY <1>2, <2>1, <3>1 DEF DeskTypes, AskedFits, DraftFits, RightIndicator
    <3>3. SavingFits'
      BY <1>2, <2>1, <2>2 DEF SavingFits
    <3> QED
      BY <1>1, <2>1, <3>1, <3>2, <3>3 DEF DeskInv, SeenFirst, DraftEnds
  <2>4. CASE ~Unsaved
    <3>1. GoTo(to) /\ question' = question /\ ~draft.dirty
      BY <1>2, <1>4, <2>4 DEF Navigate, Unsaved, DraftFits
    <3>2. /\ draft' = NoDraft /\ shown' = NothingShown /\ detail' \in BOOLEAN
          /\ askedFor' \subseteq AskedType /\ AskedFits' /\ RightIndicator'
      BY <3>1, Goes
    <3>3. DeskTypes' /\ DraftFits'
      BY <1>1, <2>1, <3>1, <3>2, NothingThere DEF DeskTypes, DraftFits
    <3>4. SavingFits'
      BY <1>2, <2>1, <2>2 DEF SavingFits
    <3> QED
      BY <2>1, <3>1, <3>2, <3>3, <3>4 DEF DeskInv, SeenFirst, DraftEnds
  <2> QED
    BY <2>3, <2>4
<1>5. ASSUME NEW q \in askedFor, ContextArrives(q) PROVE DeskInv' /\ SeenFirst /\ DraftEnds
  <2>1. /\ q.kind \in {"context", "reload"} /\ q \in AskedType
        /\ detail' = (detail \/ (q.latest /\ place \in Indicator))
        /\ UNCHANGED <<storedNo, place, saving, question, afterSave, window>>
        /\ UNCHANGED <<signedIn, workspaceDirty, crossed>>
    BY <1>1, <1>5 DEF ContextArrives
  <2>2. /\ detail' \in BOOLEAN /\ (detail' => detail \/ (q.latest /\ place \in Indicator))
        /\ (q.kind = "reload" => detail) /\ (detail => detail')
    BY <1>1, <1>2, <2>1 DEF AskedFits, AskedType
  <2>3. CASE q.kind = "context" /\ q.latest /\ place \in Indicator
    <3>1. /\ shown' = NothingShown /\ draft' = NoDraft
          /\ askedFor' = (Overtaken({"workspace"}) \ {q}) \cup {Request("workspace", place)}
      BY <1>5, <2>3 DEF ContextArrives
    <3>2. /\ Request("workspace", place) \in AskedType
          /\ Request("workspace", place).kind = "workspace"
          /\ Request("workspace", place).node = place
      BY <2>3, Requested
    <3>3. \A r \in Overtaken({"workspace"}) \ {q} :
            /\ r \in AskedType /\ r.kind \notin {"context", "reload"}
            /\ r.kind \in {"workspace", "refresh"} => r.node \in Indicator
            /\ r.kind = "workspace" => r.latest = FALSE
      BY <1>2, <2>3, Overtakes DEF AskedFits
    <3>4. AskedFits'
      BY <2>1, <2>3, <3>1, <3>2, <3>3 DEF AskedFits
    <3>5. DeskTypes' /\ DraftFits' /\ RightIndicator'
      BY <1>1, <2>1, <2>2, <3>1, <3>2, <3>3, NothingThere
         DEF DeskTypes, DraftFits, RightIndicator
    \* The page that waited has no draft, nor a save.
    <3>6. ~crossed => draft.node = NoIndicator
      BY <1>2, <2>3 DEF AskedFits
    <3>7. SavingFits'
      BY <1>1, <1>2, <2>1, <3>1, <3>6 DEF SavingFits
    <3>8. DraftEnds
      BY <1>1, <1>2, <2>1, <3>6 DEF DraftEnds, DraftFits
    <3> QED
      BY <2>1, <3>4, <3>5, <3>7, <3>8 DEF DeskInv, SeenFirst
  <2>4. CASE ~(q.kind = "context" /\ q.latest /\ place \in Indicator)
    <3>1. askedFor' = askedFor \ {q} /\ UNCHANGED <<shown, draft>>
      BY <1>5, <2>4 DEF ContextArrives
    <3>2. detail' <=> detail
      BY <2>1, <2>2, <2>4
    <3>3. AskedFits'
      BY <1>2, <2>1, <3>1, <3>2 DEF AskedFits
    <3>4. DeskTypes' /\ DraftFits' /\ RightIndicator' /\ SavingFits'
      BY <1>1, <1>2, <2>1, <2>2, <3>1 DEF DeskTypes, DraftFits, RightIndicator, SavingFits
    <3> QED
      BY <1>1, <2>1, <3>1, <3>3, <3>4 DEF DeskInv, SeenFirst, DraftEnds
  <2> QED
    BY <2>3, <2>4
<1>6. ASSUME NEW q \in askedFor, WorkspaceArrives(q) PROVE DeskInv' /\ SeenFirst /\ DraftEnds
  <2>1. /\ q.kind = "workspace" /\ q \in AskedType /\ q.node \in Indicator
        /\ askedFor' = askedFor \ {q} /\ crossed' = (crossed \/ (q.latest /\ ~detail))
        /\ UNCHANGED <<storedNo, place, detail, question, afterSave, window, signedIn>>
    BY <1>1, <1>2, <1>6 DEF WorkspaceArrives, AskedFits
  <2>2. /\ crossed' \in BOOLEAN /\ (crossed => crossed')
        /\ (~crossed' /\ q.latest => detail)
    BY <1>1, <2>1 DEF AskedType
  <2>3. CASE q.latest
    <3>1. Show(q.node, storedNo[q.node]) /\ (~crossed' => detail /\ q.node = place)
      BY <1>2, <1>6, <2>1, <2>2, <2>3 DEF WorkspaceArrives, AskedFits
    <3>2. /\ DeskInv' /\ (~crossed' => draft' = draft)
          /\ saving'.stage = saving.stage
      BY <2>1, <2>2, <3>1, Shows
    <3> QED
      BY <1>1, <2>1, <3>2 DEF SeenFirst, DraftEnds
  <2>4. CASE ~q.latest
    <3>1. UNCHANGED <<shown, draft, saving, workspaceDirty>>
      BY <1>6, <2>4 DEF WorkspaceArrives
    <3>2. crossed' <=> crossed
      BY <2>1, <2>4
    <3>3. AskedFits'
      BY <1>2, <2>1, <3>1, <3>2 DEF AskedFits
    <3>4. DeskTypes' /\ DraftFits' /\ RightIndicator' /\ SavingFits'
      BY <1>1, <1>2, <2>1, <2>2, <3>1, <3>2
         DEF DeskTypes, DraftFits, RightIndicator, SavingFits
    <3> QED
      BY <1>1, <2>1, <3>1, <3>3, <3>4 DEF DeskInv, SeenFirst, DraftEnds
  <2> QED
    BY <2>3, <2>4
<1>7. ASSUME NEW q \in askedFor, RefreshArrives(q) PROVE DeskInv' /\ SeenFirst /\ DraftEnds
  <2>1. /\ q.kind = "refresh" /\ q \in AskedType /\ q.node \in Indicator
        /\ askedFor' = askedFor \ {q} /\ crossed' = (crossed \/ q.node # place \/ ~detail)
        /\ Show(q.node, storedNo[q.node])
        /\ UNCHANGED <<storedNo, place, detail, question, afterSave, window, signedIn>>
    BY <1>1, <1>2, <1>7 DEF RefreshArrives, AskedFits
  <2>2. /\ crossed' \in BOOLEAN /\ (crossed => crossed')
        /\ (~crossed' => detail /\ q.node = place)
    BY <1>1, <2>1
  <2>3. /\ DeskInv' /\ (~crossed' => draft' = draft)
        /\ saving'.stage = saving.stage
    BY <2>1, <2>2, Shows
  <2> QED
    BY <1>1, <2>1, <2>3 DEF SeenFirst, DraftEnds
<1>8. ASSUME NEW q \in askedFor, RequestFails(q) PROVE DeskInv' /\ SeenFirst /\ DraftEnds
  <2>1. /\ askedFor' = askedFor \ {q}
        /\ UNCHANGED <<storedNo, place, shown, draft, saving, question, afterSave, window,
                       signedIn, workspaceDirty, crossed>>
    BY <1>8 DEF RequestFails
  <2>2. /\ detail' \in BOOLEAN /\ (detail' => detail)
        /\ q.kind \notin {"context", "reload"} => detail' = detail
    BY <1>1, <1>8 DEF RequestFails
  <2>3. AskedFits'
    BY <1>2, <2>1, <2>2 DEF AskedFits
  <2>4. DeskTypes' /\ DraftFits' /\ RightIndicator' /\ SavingFits'
    BY <1>1, <1>2, <2>1, <2>2 DEF DeskTypes, DraftFits, RightIndicator, SavingFits
  <2> QED
    BY <1>1, <2>1, <2>3, <2>4 DEF DeskInv, SeenFirst, DraftEnds
<1>9. CASE ChangeEvidence
  <2>1. /\ place \in Indicator /\ askedFor' = askedFor \cup {Request("refresh", place)}
        /\ UNCHANGED <<storedNo, place, detail, shown, draft, saving,
                       question, afterSave, window, signedIn, workspaceDirty, crossed>>
    BY <1>9 DEF ChangeEvidence
  <2>2. /\ Request("refresh", place) \in AskedType /\ Request("refresh", place).kind = "refresh"
        /\ Request("refresh", place).node = place
    BY <2>1, Requested
  <2>3. AskedFits'
    BY <1>2, <2>1, <2>2 DEF AskedFits
  <2>4. DeskTypes' /\ DraftFits' /\ RightIndicator' /\ SavingFits'
    BY <1>1, <1>2, <2>1, <2>2 DEF DeskTypes, DraftFits, RightIndicator, SavingFits
  <2> QED
    BY <1>1, <2>1, <2>3, <2>4 DEF DeskInv, SeenFirst, DraftEnds
\* The list of the systems: what is shown stays, or all of it goes.
<1>25. ASSUME askedFor' \subseteq AskedType, AskedFits',
              TakenAway \/ UNCHANGED <<shown, draft, saving>>,
              UNCHANGED <<storedNo, place, detail, question, afterSave, window,
                          signedIn, workspaceDirty, crossed>>
       PROVE  DeskInv' /\ SeenFirst
  <2>1. /\ shown' \in ShownType /\ draft' \in DraftKind /\ saving' \in SavingType
        /\ saving'.stage = saving.stage
        /\ DraftFits' /\ SavingFits' /\ RightIndicator'
    <3>1. CASE TakenAway
      <4>1. /\ shown' = NothingShown /\ draft' = NoDraft
            /\ saving' = [saving EXCEPT !.live = FALSE]
        BY <3>1 DEF TakenAway
      <4>2. /\ saving' \in SavingType /\ saving'.stage = saving.stage
            /\ saving'.node = saving.node /\ saving'.seen = saving.seen
            /\ saving'.expected = saving.expected /\ saving'.live = FALSE
        BY <1>1, <4>1 DEF SavingType
      <4> QED
        BY <1>2, <1>25, <4>1, <4>2, NothingThere DEF DraftFits, SavingFits, RightIndicator
    <3>2. CASE UNCHANGED <<shown, draft, saving>>
      BY <1>1, <1>2, <1>25, <3>2 DEF DraftFits, SavingFits, RightIndicator
    <3> QED
      BY <1>25, <3>1, <3>2
  <2>2. DeskTypes'
    BY <1>1, <1>25, <2>1 DEF DeskTypes
  <2> QED
    BY <1>25, <2>1, <2>2 DEF DeskInv, SeenFirst
<1>10. CASE TemplatesSaved
  <2>1. /\ ~workspaceDirty /\ askedFor' = SyncAgain \cup {Request("systems", NoIndicator)}
        /\ IF place \in Indicator /\ ~detail THEN TakenAway ELSE UNCHANGED <<shown, draft, saving>>
        /\ UNCHANGED <<storedNo, place, detail, question, afterSave, window,
                       signedIn, workspaceDirty, crossed>>
    BY <1>10 DEF TemplatesSaved
  <2>2. /\ Request("systems", NoIndicator) \in AskedType
        /\ Request("systems", NoIndicator).kind = "systems"
    BY Requested
  <2>3. askedFor' \subseteq AskedType
    BY <2>1, <2>2, Syncs
  <2>4. ASSUME NEW r \in askedFor', r.kind = "context"
        PROVE  /\ r = Request("context", NoIndicator) /\ ~detail
               /\ shown'.node = NoIndicator /\ draft'.node = NoIndicator
    BY <2>1, <2>2, <2>4, Syncs, NothingThere DEF TakenAway
  <2>5. AskedFits'
    <3>1. \A r \in askedFor' :
            /\ r.kind # "reload"
            /\ r.kind \in {"workspace", "refresh"} => r.node \in Indicator
            /\ r.kind = "workspace" /\ r.latest /\ detail => r.node = place
      BY <2>1, <2>2, Syncs
    <3> QED
      BY <2>1, <2>4, <3>1 DEF AskedFits
  <2>6. DraftEnds
    BY <1>2, <2>1 DEF DraftEnds, DraftFits
  <2>7. TakenAway \/ UNCHANGED <<shown, draft, saving>>
    BY <2>1
  <2> QED
    BY <1>25, <2>1, <2>3, <2>5, <2>6, <2>7
<1>26. ASSUME NEW q \in askedFor, ListArrives(q) PROVE DeskInv' /\ SeenFirst /\ DraftEnds
  <2>1. /\ q.kind = "systems"
        /\ askedFor' = (SyncAgain \ {q})
                       \cup (IF detail THEN {Request("reload", NoIndicator)} ELSE {})
        /\ IF place \in Indicator THEN TakenAway ELSE UNCHANGED <<shown, draft, saving>>
        /\ UNCHANGED <<storedNo, place, detail, question, afterSave, window,
                       signedIn, workspaceDirty, crossed>>
    BY <1>26 DEF ListArrives
  <2>2. /\ Request("reload", NoIndicator) \in AskedType
        /\ Request("reload", NoIndicator).kind = "reload"
    BY Requested
  <2>3. askedFor' \subseteq AskedType
    BY <2>1, <2>2, Syncs
  <2>4. ASSUME NEW r \in askedFor', r.kind = "context"
        PROVE  /\ r = Request("context", NoIndicator) /\ ~detail
               /\ shown'.node = NoIndicator /\ draft'.node = NoIndicator
    BY <2>1, <2>2, <2>4, Syncs, NothingThere DEF TakenAway
  <2>5. ASSUME NEW r \in askedFor', r.kind = "reload"
        PROVE  r = Request("reload", NoIndicator) /\ detail
    BY <2>1, <2>5, Syncs
  <2>6. AskedFits'
    <3>1. \A r \in askedFor' :
            /\ r.kind \in {"workspace", "refresh"} => r.node \in Indicator
            /\ r.kind = "workspace" /\ r.latest /\ detail => r.node = place
      BY <2>1, <2>2, Syncs
    <3> QED
      BY <2>1, <2>4, <2>5, <3>1 DEF AskedFits
  <2>7. DraftEnds
    <3>1. q \notin askedFor'
      BY <2>1, <2>2
    <3> QED
      BY <2>1, <3>1 DEF DraftEnds
  <2>8. TakenAway \/ UNCHANGED <<shown, draft, saving>>
    BY <2>1
  <2> QED
    BY <1>25, <2>1, <2>3, <2>6, <2>7, <2>8
<1>27. CASE SessionExpires
  <2>1. /\ signedIn /\ Expired /\ saving' = [saving EXCEPT !.live = FALSE]
        /\ UNCHANGED <<storedNo, afterSave, window, crossed>>
    BY <1>27 DEF SessionExpires
  <2>2. /\ saving' \in SavingType /\ saving'.stage = saving.stage /\ saving'.node = saving.node
        /\ saving'.seen = saving.seen /\ saving'.expected = saving.expected
        /\ saving'.live = FALSE
    BY <1>1, <2>1 DEF SavingType
  <2>3. DeskInv'
    BY <1>2, <2>1, <2>2, Expires DEF SavingFits
  <2>4. ~signedIn'
    BY <2>1 DEF Expired
  <2> QED
    BY <2>1, <2>2, <2>3, <2>4 DEF SeenFirst, DraftEnds
<1>28. CASE SaveExpires
  <2>1. /\ saving.stage = "sent" /\ saving' = NoSaving /\ Expired
        /\ UNCHANGED <<storedNo, afterSave, crossed>> /\ window' # "closed"
    BY <1>1, <1>28 DEF SaveExpires
  <2>2. DeskInv'
    BY <2>1, Expires, NothingThere
  <2>3. ~signedIn' /\ (draft.dirty => signedIn)
    BY <1>1, <1>2, <2>1 DEF Expired, DraftFits
  <2> QED
    BY <2>1, <2>2, <2>3, NothingThere DEF SeenFirst, DraftEnds
<1>29. CASE SignInAgain
  <2>1. /\ ~signedIn /\ signedIn' = TRUE /\ shown' = NothingShown /\ draft' = NoDraft
        /\ workspaceDirty' = FALSE
        /\ UNCHANGED <<storedNo, place, detail, askedFor, saving, question, afterSave, window,
                       crossed>>
    BY <1>29 DEF SignInAgain
  <2>2. saving.stage # "none" => ~saving.live
    BY <1>2, <2>1 DEF SavingFits
  <2>3. DeskTypes' /\ AskedFits' /\ DraftFits' /\ RightIndicator' /\ SavingFits'
    BY <1>1, <1>2, <2>1, <2>2, NothingThere
       DEF DeskTypes, AskedFits, DraftFits, RightIndicator, SavingFits
  <2>4. ~draft.dirty
    BY <1>1, <1>2, <2>1 DEF DraftFits
  <2> QED
    BY <2>1, <2>3, <2>4 DEF DeskInv, SeenFirst, DraftEnds
\* The draft alone changes, while nothing is saved.
<1>11. ASSUME UNCHANGED <<storedNo, place, detail, shown, askedFor, saving,
                          question, afterSave, window, signedIn, crossed>>,
              ~Busy, draft' \in DraftKind, workspaceDirty' \in BOOLEAN,
              draft'.dirty => draft'.node \in Indicator /\ workspaceDirty',
              draft'.node # NoIndicator => signedIn,
              draft'.node \in {draft.node, NoIndicator, shown.node}
       PROVE  DeskInv' /\ SeenFirst
  <2>1. saving.stage # "none" => ~saving.live
    BY <1>11 DEF Busy
  <2>2. SavingFits'
    BY <1>2, <1>11, <2>1 DEF SavingFits
  <2>3. DeskTypes' /\ AskedFits' /\ DraftFits' /\ RightIndicator'
    BY <1>1, <1>2, <1>11 DEF DeskTypes, AskedFits, DraftFits, RightIndicator
  <2> QED
    BY <1>11, <2>2, <2>3 DEF DeskInv, SeenFirst
<1>12. CASE BeginEdit
  <2>1. /\ ~Busy /\ shown.node \in Indicator /\ draft.node = NoIndicator
        /\ draft' = [node |-> shown.node, dirty |-> FALSE, no |-> shown.no]
        /\ signedIn
        /\ UNCHANGED <<storedNo, place, detail, shown, askedFor, saving,
                       question, afterSave, window, signedIn, workspaceDirty, crossed>>
    BY <1>12 DEF BeginEdit
  <2>2. draft' \in DraftKind /\ draft'.node = shown.node /\ draft'.dirty = FALSE
    BY <1>1, <2>1 DEF DraftKind, ShownType
  <2>3. DraftEnds
    BY <1>1, <1>2, <2>1 DEF DraftEnds, DraftFits
  <2> QED
    BY <1>1, <1>11, <2>1, <2>2, <2>3
<1>13. CASE DraftType
  <2>1. /\ ~Busy /\ draft.node \in Indicator /\ ~draft.dirty
        /\ draft' = [draft EXCEPT !.dirty = TRUE] /\ workspaceDirty' = TRUE
        /\ UNCHANGED <<storedNo, place, detail, shown, askedFor, saving,
                       question, afterSave, window, signedIn, crossed>>
    BY <1>13 DEF DraftType
  <2>2. draft' \in DraftKind /\ draft'.node = draft.node
    BY <1>1, <2>1 DEF DraftKind
  <2>3. signedIn
    BY <1>1, <1>2, <2>1 DEF DraftFits
  <2> QED
    BY <1>11, <2>1, <2>2, <2>3 DEF DraftEnds
<1>14. CASE CancelEdit
  <2>1. /\ window = "open" /\ question = NoPlace /\ ~Busy /\ draft' = NoDraft
        /\ workspaceDirty' = (workspaceDirty /\ ~draft.dirty)
        /\ UNCHANGED <<storedNo, place, detail, shown, askedFor, saving,
                       question, afterSave, window, signedIn, crossed>>
    BY <1>14 DEF CancelEdit, FormEnds
  <2>2. workspaceDirty' \in BOOLEAN
    BY <2>1
  <2>3. DraftEnds
    BY <2>1 DEF DraftEnds
  <2> QED
    BY <1>11, <2>1, <2>2, <2>3, NothingThere
\* A save is sent, with a question answered or without.
<1>15. ASSUME saving' = Submitted, saving.stage = "none", draft.node \in Indicator,
              question' = NoPlace, afterSave' \in Places \cup {NoPlace},
              UNCHANGED <<storedNo, place, detail, shown, askedFor, draft,
                          signedIn, workspaceDirty, crossed>>
       PROVE  DeskInv' /\ SeenFirst
  <2>1. /\ saving' \in SavingType /\ saving'.stage = "sent" /\ saving'.node = draft.node
        /\ saving'.seen = draft.no /\ saving'.expected = draft.no /\ saving'.live = TRUE
    BY <1>1, <1>15 DEF Submitted, Expected, SavingType, DraftKind
  <2>2. DeskTypes' /\ AskedFits' /\ DraftFits' /\ RightIndicator'
    BY <1>1, <1>2, <1>15, <2>1 DEF DeskTypes, AskedFits, DraftFits, RightIndicator
  <2>3. SavingFits'
    BY <1>1, <1>2, <1>15, <2>1 DEF SavingFits, DraftFits
  <2> QED
    BY <1>15, <2>2, <2>3 DEF DeskInv, SeenFirst
<1>16. CASE Submit
  <2>1. /\ window = "open" /\ question = NoPlace /\ saving.stage = "none"
        /\ draft.node \in Indicator /\ saving' = Submitted
        /\ UNCHANGED <<storedNo, place, detail, shown, askedFor, draft,
                       question, afterSave, window, signedIn, workspaceDirty, crossed>>
    BY <1>16 DEF Submit
  <2> QED
    BY <1>1, <1>15, <2>1 DEF DraftEnds
<1>17. CASE ServerSaves
  <2>1. /\ saving.stage = "sent"
        /\ UNCHANGED <<place, detail, shown, askedFor, draft, question, afterSave, window,
                       signedIn, workspaceDirty, crossed>>
    BY <1>17 DEF ServerSaves
  <2>2. saving.node \in Indicator /\ saving.seen = saving.expected
    BY <1>2, <2>1 DEF SavingFits
  <2>3. PICK stage \in {"stored", "failed", "conflict"} :
          /\ saving' = [saving EXCEPT !.stage = stage]
          /\ stage = "conflict" \/ storedNo[saving.node] = saving.expected
    BY <1>17 DEF ServerSaves
  <2>4. /\ saving' \in SavingType /\ saving'.stage = stage /\ saving'.node = saving.node
        /\ saving'.seen = saving.seen /\ saving'.expected = saving.expected
        /\ saving'.live = saving.live
    BY <1>1, <2>3 DEF SavingType
  <2>5. storedNo' \in [Indicator -> Nat]
    BY <1>1, <1>17, <2>2 DEF ServerSaves
  <2>6. DeskTypes' /\ AskedFits' /\ DraftFits' /\ RightIndicator'
    BY <1>1, <1>2, <2>1, <2>4, <2>5 DEF DeskTypes, AskedFits, DraftFits, RightIndicator
  <2>7. SavingFits'
    BY <1>2, <2>1, <2>4 DEF SavingFits
  <2> QED
    BY <1>1, <2>1, <2>2, <2>3, <2>4, <2>6, <2>7 DEF DeskInv, SeenFirst, DraftEnds
<1>18. CASE SaveSucceeds
  <2>1. /\ saving.stage = "stored" /\ saving' = NoSaving
        /\ UNCHANGED <<storedNo, question, signedIn, crossed>>
    BY <1>18 DEF SaveSucceeds
  <2>2. SavingFits' /\ SeenFirst
    BY <2>1, NothingThere DEF SavingFits, SeenFirst
  <2>3. ~crossed /\ draft.dirty => draft.node = shown.node
    BY <1>1, <1>2 DEF DraftFits
  <2>4. shown.node = saving.node => DraftEnds
    BY <2>1, <2>3 DEF DraftEnds
  <2>5. CASE shown.node # saving.node
    <3>1. UNCHANGED <<place, detail, shown, askedFor, draft, afterSave, window, workspaceDirty>>
      BY <1>18, <2>5 DEF SaveSucceeds
    <3>2. DeskTypes' /\ AskedFits' /\ DraftFits' /\ RightIndicator'
      BY <1>1, <1>2, <2>1, <3>1, NothingThere
         DEF DeskTypes, AskedFits, DraftFits, RightIndicator
    <3>3. DraftEnds
      BY <1>1, <3>1 DEF DraftEnds
    <3> QED
      BY <2>2, <3>2, <3>3 DEF DeskInv
  <2>6. CASE shown.node = saving.node /\ afterSave # NoPlace
    <3>1. /\ GoTo(afterSave) /\ afterSave \in Places /\ afterSave' = NoPlace
          /\ workspaceDirty' = FALSE
      BY <1>1, <1>18, <2>6 DEF SaveSucceeds
    <3>2. /\ draft' = NoDraft /\ shown' = NothingShown /\ detail' \in BOOLEAN
          /\ askedFor' \subseteq AskedType /\ AskedFits' /\ RightIndicator'
      BY <3>1, Goes
    <3>3. DeskTypes' /\ DraftFits'
      BY <1>1, <2>1, <3>1, <3>2, NothingThere DEF DeskTypes, DraftFits
    <3> QED
      BY <2>2, <2>4, <2>6, <3>2, <3>3 DEF DeskInv
  <2>7. CASE shown.node = saving.node /\ afterSave = NoPlace
    <3>1. /\ shown' = [shown EXCEPT !.no = saving.expected + 1] /\ draft' = NoDraft
          /\ afterSave' = NoPlace /\ workspaceDirty' = FALSE
          /\ UNCHANGED <<place, detail, askedFor>>
      BY <1>18, <2>7 DEF SaveSucceeds
    <3>2. shown' \in ShownType /\ shown'.node = shown.node
      BY <1>1, <3>1 DEF ShownType, SavingType
    <3>3. DeskTypes' /\ DraftFits' /\ RightIndicator'
      BY <1>1, <1>2, <2>1, <3>1, <3>2, NothingThere DEF DeskTypes, DraftFits, RightIndicator
    <3>4. AskedFits'
      BY <1>2, <2>1, <3>1, <3>2, NothingThere DEF AskedFits
    <3> QED
      BY <2>2, <2>4, <2>7, <3>3, <3>4 DEF DeskInv
  <2> QED
    BY <2>5, <2>6, <2>7
<1>19. CASE SaveFails
  <2>1. /\ saving.stage \in {"failed", "conflict"} /\ saving' = NoSaving
        /\ afterSave' \in {afterSave, NoPlace} /\ window' # "closed"
        /\ UNCHANGED <<storedNo, place, detail, shown, askedFor, draft, question,
                       signedIn, workspaceDirty, crossed>>
    BY <1>1, <1>19 DEF SaveFails
  <2>2. DeskTypes' /\ AskedFits' /\ DraftFits' /\ RightIndicator'
    BY <1>1, <1>2, <2>1, NothingThere DEF DeskTypes, AskedFits, DraftFits, RightIndicator
  <2>3. SavingFits' /\ SeenFirst /\ DraftEnds
    BY <2>1, NothingThere DEF SavingFits, SeenFirst, DraftEnds
  <2> QED
    BY <2>2, <2>3 DEF DeskInv
<1>20. CASE AskClose
  <2>1. /\ ~Busy /\ (workspaceDirty => window' = window)
        /\ question' = question \/ question' = "close"
        /\ UNCHANGED <<storedNo, place, detail, shown, askedFor, draft, saving, afterSave,
                       signedIn, workspaceDirty, crossed>>
    BY <1>20 DEF AskClose
  <2>2. DeskInv'
    BY <1>1, <1>3, <2>1
  <2> QED
    BY <1>1, <1>2, <2>1, <2>2 DEF SeenFirst, DraftEnds, DraftFits
<1>21. CASE AnswerSave
  <2>1. /\ question' = NoPlace
        /\ UNCHANGED <<storedNo, place, detail, shown, askedFor, draft,
                       signedIn, workspaceDirty, crossed>>
        /\ window' \in {window, "closing"} /\ afterSave' \in Places \cup {NoPlace}
    BY <1>1, <1>21 DEF AnswerSave
  <2>2. DraftEnds
    BY <1>1, <2>1 DEF DraftEnds
  <2>3. CASE draft.node = NoIndicator
    <3>1. saving' = saving
      BY <1>21, <2>3 DEF AnswerSave
    <3>2. SavingFits' /\ SeenFirst
      BY <1>2, <2>1, <3>1 DEF SavingFits, SeenFirst
    <3>3. DeskTypes' /\ AskedFits' /\ DraftFits' /\ RightIndicator'
      BY <1>1, <1>2, <2>1, <3>1 DEF DeskTypes, AskedFits, DraftFits, RightIndicator
    <3> QED
      BY <2>2, <3>2, <3>3 DEF DeskInv
  <2>4. CASE draft.node # NoIndicator
    <3>1. saving.stage = "none" /\ saving' = Submitted /\ draft.node \in Indicator
      BY <1>1, <1>21, <2>4 DEF AnswerSave, DraftKind
    <3> QED
      BY <1>15, <2>1, <2>2, <3>1
  <2> QED
    BY <2>3, <2>4
<1>22. CASE AnswerDiscard
  <2>1. /\ question # NoPlace /\ question' = NoPlace
        /\ workspaceDirty' = FALSE
        /\ UNCHANGED <<storedNo, saving, afterSave, signedIn, crossed>>
    BY <1>22 DEF AnswerDiscard
  <2>2. SeenFirst /\ DraftEnds
    BY <2>1 DEF SeenFirst, DraftEnds
  <2>3. SavingFits'
    BY <1>2, <2>1 DEF SavingFits
  <2>4. CASE question = "close"
    <3>1. draft' = NoDraft /\ UNCHANGED <<place, detail, shown, askedFor>>
      BY <1>22, <2>4 DEF AnswerDiscard
    <3>2. DeskTypes' /\ AskedFits' /\ DraftFits' /\ RightIndicator'
      BY <1>1, <1>2, <2>1, <3>1, NothingThere
         DEF DeskTypes, AskedFits, DraftFits, RightIndicator
    <3> QED
      BY <2>2, <2>3, <3>2 DEF DeskInv
  <2>5. CASE question # "close"
    <3>1. GoTo(question) /\ question \in Places
      BY <1>1, <1>22, <2>1, <2>5 DEF AnswerDiscard
    <3>2. /\ draft' = NoDraft /\ shown' = NothingShown /\ detail' \in BOOLEAN
          /\ askedFor' \subseteq AskedType /\ AskedFits' /\ RightIndicator'
      BY <3>1, Goes
    <3>3. DeskTypes' /\ DraftFits'
      BY <1>1, <2>1, <3>2, NothingThere DEF DeskTypes, DraftFits
    <3> QED
      BY <2>2, <2>3, <3>2, <3>3 DEF DeskInv
  <2> QED
    BY <2>4, <2>5
<1>23. CASE AnswerStay
  <2>1. /\ question' = NoPlace /\ UNCHANGED <<storedNo, place, detail, shown, askedFor, draft,
                                              saving, afterSave, window, signedIn,
                                              workspaceDirty, crossed>>
    BY <1>23 DEF AnswerStay
  <2>2. SavingFits'
    BY <1>2, <2>1 DEF SavingFits
  <2>3. DeskTypes' /\ AskedFits' /\ DraftFits' /\ RightIndicator'
    BY <1>1, <1>2, <2>1 DEF DeskTypes, AskedFits, DraftFits, RightIndicator
  <2> QED
    BY <1>1, <2>1, <2>2, <2>3 DEF DeskInv, SeenFirst, DraftEnds
<1>24. CASE CloseTimesOut \/ \E i \in Indicator : OtherSaves(i)
  <2>1. /\ UNCHANGED <<place, detail, shown, askedFor, draft, saving, question, afterSave,
                       signedIn, workspaceDirty, crossed>>
        /\ window' # "closed" /\ storedNo' \in [Indicator -> Nat]
    BY <1>1, <1>24 DEF CloseTimesOut, OtherSaves
  <2>2. DeskInv'
    BY <1>1, <1>3, <2>1
  <2> QED
    BY <2>1, <2>2 DEF SeenFirst, DraftEnds
<1> QED
  BY <1>4, <1>5, <1>6, <1>7, <1>8, <1>9, <1>10, <1>12, <1>13, <1>14, <1>16, <1>17, <1>18,
     <1>19, <1>20, <1>21, <1>22, <1>23, <1>24, <1>26, <1>27, <1>28, <1>29 DEF DeskNext

\* On the page researchers write on what another saved is not written over unseen, what
\* was typed is not lost but in the ways DraftsEndKnowingly names (a session that ends, the
\* templates saved), and it is never typed under the name of another indicator (App.vue,
\* ResearchWorkspace.vue).
THEOREM NothingGoesUnseen == DeskSpec => NothingOverwritten
<1>1. DeskInit => DeskInv
  <2> SUFFICES ASSUME DeskInit PROVE DeskInv
    OBVIOUS
  <2>1. DeskTypes
    BY NothingThere DEF DeskInit, DeskTypes, Places
  <2>2. AskedFits /\ SavingFits /\ DraftFits /\ RightIndicator
    BY NothingThere DEF DeskInit, AskedFits, SavingFits, DraftFits, RightIndicator
  <2> QED
    BY <2>1, <2>2 DEF DeskInv
<1>2. DeskInv /\ [DeskNext]_deskVars => DeskInv'
  <2> SUFFICES ASSUME DeskInv, UNCHANGED deskVars PROVE DeskInv'
    BY DeskStep
  <2> QED
    BY DEF deskVars, DeskInv, DeskTypes, AskedFits, SavingFits, DraftFits, RightIndicator
<1>3. DeskInv /\ [DeskNext]_deskVars =>
        /\ [saving.stage = "sent" /\ saving'.stage \in {"stored", "failed"} =>
              storedNo[saving.node] = saving.seen]_deskVars
        /\ [draft.dirty /\ (~draft'.dirty \/ window' = "closed") /\ ~crossed' =>
              \/ saving.stage = "stored" /\ saving.node = draft.node
              \/ question # NoPlace /\ question' = NoPlace /\ saving' = saving
              \/ question = NoPlace /\ question' = NoPlace /\ window' = "open" /\ place' = place
                 /\ shown' = shown /\ ~Busy
              \/ signedIn /\ ~signedIn'
              \/ \E q \in askedFor \ askedFor' : q.kind = "systems"]_deskVars
  BY DeskStep DEF SeenFirst, DraftEnds
<1>4. DeskInv => RightIndicator
  BY DEF DeskInv
<1> QED
  BY <1>1, <1>2, <1>3, <1>4, PTL
     DEF DeskSpec, NothingOverwritten, SeenBeforeReplaced, DraftsEndKnowingly

-----------------------------------------------------------------------------
(***************************************************************************)
(* The desktop: its session in several tabs                                *)
(***************************************************************************)
Token == {None} \cup Session
Kind == {"none", "session", "logout", "renew", "write", "callback"}
TabType == [started : Nat, user : User \cup {Nobody}, csrf : Token]
AskingType ==
    [kind : Kind, phase : {"none", "sent", "checked", "renewing", "answered"}, flow : Nat,
     token : Token, csrf : Token, state : Nat, user : User \cup {Nobody}, ok : BOOLEAN]

SessionTypes ==
    /\ browser \in [flow : Nat, token : Token] /\ signIns \in Nat
    /\ tabs \in [Tab -> TabType] /\ pending \in [Tab -> AskingType]
    /\ sessions \in Seq(User \cup {Nobody}) /\ Len(sessions) <= MaxSessions
    /\ live \subseteq 1..Len(sessions)
    /\ renewal \in [Token -> Token]

\* What a tab shows is a session of its user.
Shown(tb) == tb.user # Nobody => tb.csrf \in 1..Len(sessions) /\ sessions[tb.csrf] = tb.user

\* A change goes with the token of the page as the tab still shows it; past its check
\* the cookie of the request is of the same session.
ChangeFits(r, tb) ==
    /\ r.kind \in {"logout", "renew", "write"} => r.csrf = tb.csrf /\ tb.user # Nobody
    /\ r.phase \in {"checked", "renewing"} =>
          r.kind \in {"logout", "renew", "write"} /\ r.csrf = r.token
    /\ r.kind = "session" /\ r.phase = "answered" /\ r.ok => r.token \in 1..Len(sessions)
    /\ r.kind = "renew" /\ r.phase = "answered" /\ r.ok => r.state = r.token

SessionInv ==
    /\ SessionTypes
    /\ \A t \in Tab : Shown(tabs[t]) /\ ChangeFits(pending[t], tabs[t])
    /\ \A k \in Token : renewal[k] \in {None, k}
    /\ ActsAsShown /\ NoCodeMisspent

LEMMA NothingIsAsked ==
    /\ NothingAsked \in AskingType /\ NothingAsked.kind = "none" /\ NothingAsked.phase = "none"
    /\ NothingAsked.ok = FALSE /\ None \in Token /\ Token \subseteq Nat
BY SessionAssumption DEF NothingAsked, AskingType, Kind, Token, None, Session

LEMMA RenewalsMatch ==
    ASSUME SessionInv
    PROVE  RenewalKeepsToken
BY DEF SessionInv, ChangeFits, RenewalKeepsToken

\* One request goes on, the tabs and the sessions stay.
LEMMA OneRequest ==
    ASSUME SessionInv, NEW t \in Tab, NEW r \in AskingType, ChangeFits(r, tabs[t]),
           pending' = [pending EXCEPT ![t] = r],
           browser' \in [flow : Nat, token : Token], signIns' \in Nat,
           renewal' \in [Token -> Token], \A k \in Token : renewal'[k] \in {None, k},
           live' \subseteq live, ActsAsShown', NoCodeMisspent', UNCHANGED <<tabs, sessions>>
    PROVE  SessionInv'
<1>1. /\ tabs \in [Tab -> TabType] /\ pending \in [Tab -> AskingType]
      /\ SessionTypes
      /\ \A s \in Tab : Shown(tabs[s]) /\ ChangeFits(pending[s], tabs[s])
  BY DEF SessionInv, SessionTypes
<1>2. pending' \in [Tab -> AskingType] /\ \A s \in Tab : pending'[s] \in {pending[s], r}
  BY <1>1
<1>3. \A s \in Tab : pending'[s] = IF s = t THEN r ELSE pending[s]
  BY <1>1
<1>4. \A s \in Tab : Shown(tabs[s])' /\ ChangeFits(pending[s], tabs[s])'
  BY <1>1, <1>3 DEF Shown, ChangeFits
<1>5. SessionTypes'
  BY <1>1, <1>2 DEF SessionTypes
<1> QED
  BY <1>4, <1>5 DEF SessionInv

LEMMA SessionStep ==
    ASSUME SessionInv, SessionNext
    PROVE  SessionInv'
<1>1. /\ browser \in [flow : Nat, token : Token] /\ signIns \in Nat
      /\ tabs \in [Tab -> TabType] /\ pending \in [Tab -> AskingType]
      /\ sessions \in Seq(User \cup {Nobody}) /\ Len(sessions) <= MaxSessions
      /\ live \subseteq 1..Len(sessions) /\ renewal \in [Token -> Token]
      /\ \A s \in Tab : Shown(tabs[s]) /\ ChangeFits(pending[s], tabs[s])
      /\ \A k \in Token : renewal[k] \in {None, k}
      /\ ActsAsShown /\ NoCodeMisspent /\ SessionTypes
  BY DEF SessionInv, SessionTypes
<1>2. ASSUME NEW t \in Tab
      PROVE  /\ pending[t] \in AskingType /\ tabs[t] \in TabType
             /\ Shown(tabs[t]) /\ ChangeFits(pending[t], tabs[t])
  BY <1>1
\* A request and the tab it came from, when neither moves.
<1>3. ASSUME UNCHANGED <<tabs, pending, sessions, live, renewal, misspent, acted>>,
             browser' \in [flow : Nat, token : Token], signIns' \in Nat
      PROVE  SessionInv'
  BY <1>1, <1>3
     DEF SessionInv, SessionTypes, Shown, ChangeFits, ActsAsShown, NoCodeMisspent
<1>4. CASE FlowExpires
  <2>1. browser' = [browser EXCEPT !.flow = None]
        /\ UNCHANGED <<tabs, pending, sessions, live, renewal, signIns, misspent, acted>>
    BY <1>4 DEF FlowExpires, Atomic
  <2>2. browser' \in [flow : Nat, token : Token]
    BY <1>1, <2>1 DEF None
  <2> QED
    BY <1>1, <1>3, <2>1, <2>2
<1>5. ASSUME NEW t \in Tab, NEW kind \in Kind, NEW csrf \in Token, SendFrom(t, kind, csrf),
             kind \in {"logout", "renew", "write"} => csrf = tabs[t].csrf /\ tabs[t].user # Nobody
      PROVE  SessionInv'
  <2> DEFINE r == [NothingAsked EXCEPT !.kind = kind, !.phase = "sent",
                                      !.token = browser.token, !.csrf = csrf]
  <2>1. /\ pending' = [pending EXCEPT ![t] = r]
        /\ UNCHANGED <<browser, tabs, sessions, live, renewal, signIns, misspent, acted>>
    BY <1>5 DEF SendFrom, Atomic
  <2>2. r \in AskingType /\ r.kind = kind /\ r.phase = "sent" /\ r.csrf = csrf
    <3>1. NothingAsked \in AskingType /\ browser.token \in Token
      BY <1>1, NothingIsAsked
    <3> QED
      BY <3>1 DEF AskingType
  <2> HIDE DEF r
  <2>3. ChangeFits(r, tabs[t])
    BY <1>5, <2>2 DEF ChangeFits
  <2>4. ActsAsShown' /\ NoCodeMisspent'
    BY <1>1, <2>1 DEF ActsAsShown, NoCodeMisspent
  <2> QED
    BY <1>1, <2>1, <2>2, <2>3, <2>4, OneRequest
<1>6. ASSUME NEW t \in Tab, LoadSession(t) PROVE SessionInv'
  BY <1>5, <1>6, NothingIsAsked DEF LoadSession, Kind
<1>7. ASSUME NEW t \in Tab, Change(t) PROVE SessionInv'
  <2>1. tabs[t].csrf \in Token
    BY <1>2 DEF TabType
  <2> QED
    BY <1>5, <1>7, <2>1 DEF Change, Kind
\* A tab signs in: what it shows is what it showed.
<1>8. ASSUME NEW t \in Tab, NEW n \in Nat, tabs' = [tabs EXCEPT ![t].started = n],
             browser' \in [flow : Nat, token : Token], signIns' \in Nat,
             pending' \in [Tab -> AskingType],
             \A s \in Tab : \/ pending'[s] = pending[s]
                            \/ pending'[s].phase = "sent" /\ pending'[s].kind = "callback",
             UNCHANGED <<sessions, live, renewal, misspent, acted>>
      PROVE  SessionInv'
  <2>1. tabs' \in [Tab -> TabType]
    <3>1. [tabs[t] EXCEPT !.started = n] \in TabType
      BY <1>2 DEF TabType
    <3>2. tabs' = [tabs EXCEPT ![t] = [tabs[t] EXCEPT !.started = n]]
      BY <1>1, <1>8
    <3> QED
      BY <1>1, <3>1, <3>2
  <2>2. \A s \in Tab : tabs'[s].user = tabs[s].user /\ tabs'[s].csrf = tabs[s].csrf
    BY <1>1, <1>8 DEF TabType
  <2>3. \A s \in Tab : Shown(tabs[s])' /\ ChangeFits(pending[s], tabs[s])'
    BY <1>1, <1>8, <2>2 DEF Shown, ChangeFits
  <2>4. SessionTypes'
    BY <1>1, <1>8, <2>1 DEF SessionTypes
  <2> QED
    BY <1>1, <1>8, <2>3, <2>4 DEF SessionInv, ActsAsShown, NoCodeMisspent
<1>9. ASSUME NEW t \in Tab, AuthStart(t) PROVE SessionInv'
  <2>1. /\ signIns' = signIns + 1 /\ browser' = [browser EXCEPT !.flow = signIns']
        /\ tabs' = [tabs EXCEPT ![t].started = signIns']
        /\ UNCHANGED <<pending, sessions, live, renewal, misspent, acted>>
    BY <1>9 DEF AuthStart
  <2>2. signIns' \in Nat /\ browser' \in [flow : Nat, token : Token]
    BY <1>1, <2>1
  <2> QED
    BY <1>1, <1>8, <2>1, <2>2
<1>10. ASSUME NEW t \in Tab, Authorize(t) PROVE SessionInv'
  <2>1. PICK u \in User :
          pending' = [pending EXCEPT ![t] = [NothingAsked EXCEPT
                         !.kind = "callback", !.phase = "sent", !.flow = browser.flow,
                         !.state = tabs[t].started, !.user = u]]
    BY <1>10 DEF Authorize
  <2>2. /\ tabs' = [tabs EXCEPT ![t].started = None]
        /\ UNCHANGED <<browser, sessions, live, renewal, signIns, misspent, acted>>
    BY <1>10 DEF Authorize, Atomic
  <2> DEFINE r == [NothingAsked EXCEPT
                     !.kind = "callback", !.phase = "sent", !.flow = browser.flow,
                     !.state = tabs[t].started, !.user = u]
  <2>3. r \in AskingType /\ r.kind = "callback" /\ r.phase = "sent"
    <3>1. NothingAsked \in AskingType /\ browser.flow \in Nat /\ tabs[t].started \in Nat
      BY <1>1, <1>2, NothingIsAsked DEF TabType
    <3> QED
      BY <3>1 DEF AskingType, Kind
  <2> HIDE DEF r
  <2>4. pending' = [pending EXCEPT ![t] = r]
    BY <2>1 DEF r
  <2>5. /\ pending' \in [Tab -> AskingType]
        /\ \A s \in Tab : pending'[s] = pending[s] \/ pending'[s] = r
    BY <1>1, <2>3, <2>4
  <2>6. None \in Nat
    BY DEF None
  <2> QED
    BY <1>1, <1>8, <2>2, <2>3, <2>5, <2>6
\* An answer alone: what it says of a session is true.
<1>11. ASSUME NEW t \in Tab, NEW ok \in BOOLEAN, AnswerTo(t, ok),
              ok => (\/ pending[t].kind \in {"logout", "write", "callback"}
                     \/ pending[t].kind = "session" /\ pending[t].token \in live),
              live' \subseteq live, ActsAsShown', NoCodeMisspent',
              UNCHANGED <<browser, tabs, sessions, renewal, signIns>>
       PROVE  SessionInv'
  <2> DEFINE r == [pending[t] EXCEPT !.phase = "answered", !.ok = ok]
  <2>1. pending' = [pending EXCEPT ![t] = r]
    BY <1>1, <1>11 DEF AnswerTo
  <2>2. /\ r \in AskingType /\ r.phase = "answered" /\ r.ok = ok /\ r.kind = pending[t].kind
        /\ r.token = pending[t].token /\ r.csrf = pending[t].csrf
    BY <1>2 DEF AskingType
  <2> HIDE DEF r
  <2>3. ChangeFits(r, tabs[t])
    BY <1>1, <1>2, <1>11, <2>2 DEF ChangeFits
  <2> QED
    BY <1>1, <1>11, <2>1, <2>2, <2>3, OneRequest
<1>12. ASSUME NEW t \in Tab, AuthCallback(t) PROVE SessionInv'
  <2>1. /\ pending[t].kind = "callback" /\ pending[t].phase = "sent"
        /\ UNCHANGED <<browser, tabs, renewal, signIns, acted>>
    BY <1>12 DEF AuthCallback
  <2>2. ActsAsShown' /\ NoCodeMisspent'
    BY <1>1, <1>12, <2>1 DEF AuthCallback, FlowMatches, ActsAsShown, NoCodeMisspent
  <2>3. CASE AnswerTo(t, FALSE) /\ UNCHANGED <<sessions, live>>
    BY <1>11, <2>1, <2>2, <2>3
  <2>4. CASE ~(AnswerTo(t, FALSE) /\ UNCHANGED <<sessions, live>>)
    <3> DEFINE n == Len(sessions')
               r == [pending[t] EXCEPT !.phase = "answered", !.ok = TRUE, !.token = n]
    <3>1. /\ Len(sessions) < MaxSessions /\ sessions' = Append(sessions, pending[t].user)
          /\ live' = live \cup {n}
          /\ pending' = [pending EXCEPT ![t].phase = "answered", ![t].ok = TRUE,
                                        ![t].token = Len(sessions')]
      BY <1>12, <2>4 DEF AuthCallback
    <3>2. pending[t].user \in User \cup {Nobody}
      BY <1>2 DEF AskingType
    <3>3. /\ sessions' \in Seq(User \cup {Nobody}) /\ n = Len(sessions) + 1
          /\ \A i \in 1..Len(sessions) : sessions'[i] = sessions[i] /\ i \in 1..n
      BY <1>1, <3>1, <3>2
    <3>4. n \in Token /\ n <= MaxSessions /\ live' \subseteq 1..n
      BY <1>1, <3>1, <3>3, SessionAssumption DEF Token, Session
    <3> HIDE DEF n
    <3>5. r \in AskingType /\ r.phase = "answered" /\ r.kind = "callback"
      BY <1>2, <2>1, <3>4 DEF AskingType
    <3>6. pending' = [pending EXCEPT ![t] = r]
      BY <1>1, <3>1 DEF n
    <3> HIDE DEF r
    <3>7. \A s \in Tab : pending'[s] = pending[s] \/ pending'[s] = r
      BY <1>1, <3>6
    <3>8. \A s \in Tab : Shown(tabs[s])'
      BY <1>1, <2>1, <3>3 DEF Shown, n
    <3>9. \A s \in Tab : ChangeFits(pending[s], tabs[s])'
      <4>1. Len(sessions) \in Nat /\ 1..Len(sessions) \subseteq 1..Len(sessions')
        BY <1>1, <3>3 DEF n
      <4>2. \A s \in Tab : ChangeFits(pending[s], tabs[s]) /\ tabs'[s] = tabs[s]
        BY <1>1, <2>1
      <4> QED
        BY <3>5, <3>7, <4>1, <4>2 DEF ChangeFits
    <3>10. SessionTypes'
      BY <1>1, <2>1, <3>3, <3>4, <3>5, <3>6 DEF SessionTypes, n
    <3> QED
      BY <1>1, <2>1, <2>2, <3>8, <3>9, <3>10 DEF SessionInv
  <2> QED
    BY <2>3, <2>4
<1>13. ASSUME NEW t \in Tab, Introspect(t) PROVE SessionInv'
  <2>1. /\ pending[t].kind \in {"session", "logout", "renew", "write"}
        /\ UNCHANGED <<browser, tabs, sessions, live, renewal, signIns, misspent, acted>>
    BY <1>13 DEF Introspect, Atomic
  <2>2. ActsAsShown' /\ NoCodeMisspent'
    BY <1>1, <2>1 DEF ActsAsShown, NoCodeMisspent
  <2>3. CASE AnswerTo(t, FALSE)
    BY <1>11, <2>1, <2>2, <2>3
  <2>4. CASE AnswerTo(t, TRUE) /\ pending[t].kind = "session" /\ pending[t].token \in live
    BY <1>11, <2>1, <2>2, <2>4
  <2>5. CASE /\ pending[t].kind # "session" /\ Csrf(pending[t])
             /\ pending' = [pending EXCEPT ![t].phase = "checked"]
    <3> DEFINE r == [pending[t] EXCEPT !.phase = "checked"]
    <3>1. pending' = [pending EXCEPT ![t] = r]
      BY <1>1, <2>5
    <3>2. /\ r \in AskingType /\ r.phase = "checked" /\ r.kind = pending[t].kind
          /\ r.token = pending[t].token /\ r.csrf = pending[t].csrf
      BY <1>2 DEF AskingType
    <3> HIDE DEF r
    <3>3. ChangeFits(r, tabs[t])
      BY <1>2, <2>1, <2>5, <3>2 DEF ChangeFits, Csrf
    <3> QED
      BY <1>1, <2>1, <2>2, <3>1, <3>2, <3>3, OneRequest
  <2> QED
    BY <1>13, <2>3, <2>4, <2>5 DEF Introspect
\* What is done is done for the user the tab shows.
<1>14. ASSUME NEW t \in Tab, pending[t].phase = "checked", Done(t) PROVE ActsAsShown'
  <2>1. tabs[t].user = sessions[pending[t].token]
    BY <1>2, <1>14 DEF ChangeFits, Shown
  <2> QED
    BY <1>1, <1>14, <2>1 DEF Done, UserOf, ActsAsShown
<1>15. ASSUME NEW t \in Tab, Logout(t) \/ Write(t) PROVE SessionInv'
  <2>1. /\ pending[t].kind \in {"logout", "write"} /\ pending[t].phase = "checked"
        /\ Done(t) /\ AnswerTo(t, TRUE) /\ live' \subseteq live
        /\ UNCHANGED <<browser, tabs, sessions, renewal, signIns, misspent>>
    BY <1>15 DEF Logout, Write
  <2>2. NoCodeMisspent'
    BY <1>1, <2>1 DEF NoCodeMisspent
  <2> QED
    BY <1>11, <1>14, <2>1, <2>2
<1>16. ASSUME NEW t \in Tab, Renew(t) PROVE SessionInv'
  <2> DEFINE r == [pending[t] EXCEPT !.phase = "renewing"]
             key == pending[t].token
  <2>1. /\ pending[t].kind = "renew" /\ pending[t].phase = "checked"
        /\ renewal' = IF renewal[key] = None THEN [renewal EXCEPT ![key] = key] ELSE renewal
        /\ pending' = [pending EXCEPT ![t].phase = "renewing"]
        /\ UNCHANGED <<browser, tabs, sessions, live, signIns, misspent, acted>>
    BY <1>16 DEF Renew, RenewalKey
  <2>2. pending' = [pending EXCEPT ![t] = r]
    BY <1>1, <2>1
  <2>3. /\ r \in AskingType /\ r.phase = "renewing" /\ r.kind = "renew"
        /\ r.token = pending[t].token /\ r.csrf = pending[t].csrf
    BY <1>2, <2>1 DEF AskingType
  <2>4. key \in Token
    BY <1>2 DEF AskingType
  <2> HIDE DEF r, key
  <2>5. ChangeFits(r, tabs[t])
    BY <1>2, <2>1, <2>3 DEF ChangeFits
  <2>6. renewal' \in [Token -> Token] /\ \A k \in Token : renewal'[k] \in {None, k}
    BY <1>1, <2>1, <2>4
  <2>7. ActsAsShown' /\ NoCodeMisspent'
    BY <1>1, <2>1 DEF ActsAsShown, NoCodeMisspent
  <2> QED
    BY <1>1, <2>1, <2>2, <2>3, <2>5, <2>6, <2>7, OneRequest
<1>17. ASSUME NEW key \in Token, Renewed(key) PROVE SessionInv'
  <2> DEFINE token == renewal[key]
  <2>1. /\ token # None /\ renewal' = [renewal EXCEPT ![key] = None]
        /\ UNCHANGED <<browser, tabs, sessions, live, signIns, misspent, acted>>
    BY <1>17 DEF Renewed
  <2>2. PICK ok \in BOOLEAN :
          pending' = [t \in Tab |->
                IF t \in JoinedUnder(key)
                THEN [pending[t] EXCEPT !.phase = "answered", !.ok = ok, !.state = token]
                ELSE pending[t]]
    BY <1>17 DEF Renewed
  <2>3. token = key /\ token \in Nat /\ token \in Token
    BY <1>1, <2>1, NothingIsAsked
  <2> HIDE DEF token
  <2>4. ASSUME NEW s \in Tab
        PROVE  pending'[s] \in AskingType /\ ChangeFits(pending'[s], tabs[s])
    <3>1. CASE s \in JoinedUnder(key)
      <4>1. pending'[s] = [pending[s] EXCEPT !.phase = "answered", !.ok = ok, !.state = token]
        BY <2>2, <3>1
      <4>2. pending[s].phase = "renewing" /\ pending[s].token = key
        BY <3>1 DEF JoinedUnder, RenewalKey
      <4>3. /\ pending'[s] \in AskingType /\ pending'[s].phase = "answered"
            /\ pending'[s].kind = pending[s].kind /\ pending'[s].token = key
            /\ pending'[s].csrf = pending[s].csrf /\ pending'[s].state = token
        BY <1>2, <2>3, <4>1, <4>2 DEF AskingType
      <4> QED
        BY <1>2, <2>3, <4>2, <4>3 DEF ChangeFits
    <3>2. CASE s \notin JoinedUnder(key)
      BY <1>2, <2>2, <3>2
    <3> QED
      BY <3>1, <3>2
  <2>5. pending' \in [Tab -> AskingType]
    <3>1. DOMAIN pending' = Tab /\ pending' = [s \in Tab |-> pending'[s]]
      BY <2>2
    <3> QED
      BY <2>4, <3>1
  <2>6. renewal' \in [Token -> Token] /\ \A k \in Token : renewal'[k] \in {None, k}
    BY <1>1, <2>1, NothingIsAsked
  <2>7. SessionTypes'
    BY <1>1, <2>1, <2>5, <2>6 DEF SessionTypes
  <2>8. \A s \in Tab : Shown(tabs[s])' /\ ChangeFits(pending[s], tabs[s])'
    BY <1>1, <2>1, <2>4 DEF Shown, ChangeFits
  <2> QED
    BY <1>1, <2>1, <2>6, <2>7, <2>8 DEF SessionInv, ActsAsShown, NoCodeMisspent
<1>18. ASSUME NEW t \in Tab, Arrives(t) PROVE SessionInv'
  <2>1. /\ pending[t].phase = "answered" /\ pending' = [pending EXCEPT ![t] = NothingAsked]
        /\ UNCHANGED <<sessions, live, renewal, signIns, misspent, acted>>
    BY <1>18 DEF Arrives, Atomic
  <2>2. browser' \in [flow : Nat, token : Token]
    <3>1. pending[t].token \in Token /\ None \in Token /\ None \in Nat
      BY <1>2, NothingIsAsked DEF AskingType
    <3>2. pending[t].kind = "renew" /\ pending[t].ok => pending[t].state \in Token
      BY <1>2, <2>1, <3>1 DEF ChangeFits
    <3> QED
      BY <1>1, <1>18, <3>1, <3>2 DEF Arrives
  <2>3. PICK tb \in TabType :
          /\ tabs' = [tabs EXCEPT ![t] = tb] /\ Shown(tb)
    <3>1. CASE pending[t].kind = "session" /\ pending[t].ok
      <4> DEFINE tb == [tabs[t] EXCEPT !.user = sessions[pending[t].token],
                                       !.csrf = pending[t].token]
      <4>1. tabs' = [tabs EXCEPT ![t] = tb]
        BY <1>1, <1>18, <3>1 DEF Arrives, UserOf
      <4>2. pending[t].token \in 1..Len(sessions) /\ pending[t].token \in Token
        BY <1>2, <2>1, <3>1 DEF ChangeFits, AskingType
      <4>3. sessions[pending[t].token] \in User \cup {Nobody}
        BY <1>1, <4>2
      <4>4. /\ tb \in TabType /\ tb.user = sessions[pending[t].token]
            /\ tb.csrf = pending[t].token
        BY <1>2, <4>2, <4>3 DEF TabType
      <4> QED
        BY <4>1, <4>2, <4>4 DEF Shown
    <3>2. CASE \/ pending[t].kind = "session" /\ ~pending[t].ok
               \/ pending[t].kind \in {"callback", "logout"} /\ pending[t].ok
      <4> DEFINE tb == [tabs[t] EXCEPT !.user = Nobody, !.csrf = None]
      <4>1. tabs' = [tabs EXCEPT ![t] = tb]
        BY <1>1, <1>18, <3>2 DEF Arrives
      <4>2. tb \in TabType /\ tb.user = Nobody
        BY <1>2, NothingIsAsked DEF TabType
      <4> QED
        BY <4>1, <4>2 DEF Shown
    <3>3. CASE ~(\/ pending[t].kind = "session"
                 \/ pending[t].kind \in {"callback", "logout"} /\ pending[t].ok)
      <4>1. tabs' = tabs
        BY <1>18, <3>3 DEF Arrives
      <4>2. tabs' = [tabs EXCEPT ![t] = tabs[t]]
        BY <1>1, <4>1
      <4> QED
        BY <1>2, <4>2
    <3> QED
      BY <3>1, <3>2, <3>3
  <2>4. /\ tabs' \in [Tab -> TabType] /\ pending' \in [Tab -> AskingType]
        /\ \A s \in Tab : tabs'[s] = (IF s = t THEN tb ELSE tabs[s])
        /\ \A s \in Tab : pending'[s] = (IF s = t THEN NothingAsked ELSE pending[s])
    BY <1>1, <2>1, <2>3, NothingIsAsked
  <2>5. \A s \in Tab : Shown(tabs[s])'
    BY <1>1, <2>1, <2>3, <2>4 DEF Shown
  <2>6. \A s \in Tab : ChangeFits(pending[s], tabs[s])'
    BY <1>1, <2>1, <2>4, NothingIsAsked DEF ChangeFits
  <2>7. SessionTypes'
    BY <1>1, <2>1, <2>2, <2>4 DEF SessionTypes
  <2> QED
    BY <1>1, <2>1, <2>5, <2>6, <2>7 DEF SessionInv, ActsAsShown, NoCodeMisspent
<1> QED
  BY <1>4, <1>6, <1>7, <1>9, <1>10, <1>12, <1>13, <1>15, <1>16, <1>17, <1>18
     DEF SessionNext, Token

-----------------------------------------------------------------------------
(***************************************************************************)
(* The preferences of the desktop                                          *)
(***************************************************************************)
Chosen == [by : Account \cup {"nobody"}, number : Nat]
PageType == [account : Account, prefs : Chosen, pending : BOOLEAN, version : Nat]
CachedType == [prefs : Chosen, pending : BOOLEAN]
PutType ==
    [state : {"none", "sent", "stored", "changed"}, account : Account \cup {"nobody"},
     cookie : Account \cup {"nobody"}, prefs : Chosen, version : Nat]
GetType ==
    [state : {"none", "sent", "read", "changed"}, account : Account \cup {"nobody"},
     cookie : Account \cup {"nobody"}, prefs : Chosen]

PrefsTypes ==
    /\ cookie \in Account /\ tab \in PageType /\ cache \in [Account -> CachedType]
    /\ stored \in [Account -> Chosen] /\ latest \in [Account -> Chosen]
    /\ put \in PutType /\ get \in GetType

\* Local storage has what the page shows; a pending choice is the last one.
CacheFits ==
    /\ tab.prefs = cache[tab.account].prefs /\ tab.pending = cache[tab.account].pending
    /\ \A a \in Account : cache[a].pending => cache[a].prefs = latest[a]

\* The save under way is of this page's pending choice, or of one it has replaced.
PutFits ==
    put.state # "none" =>
        /\ put.account = tab.account /\ tab.pending /\ put.version <= tab.version
        /\ put.version = tab.version => put.prefs = tab.prefs
        /\ put.prefs.by \in {put.account, "nobody"} /\ put.cookie \in Account
        /\ put.state = "stored" => stored[put.account] = put.prefs

\* What was read is of the account the page was loaded for.
GetFits ==
    get.state # "none" =>
        /\ get.account = tab.account /\ get.cookie \in Account
        /\ get.state = "read" => get.prefs.by \in {get.account, "nobody"}

PrefsInv ==
    /\ PrefsTypes /\ CacheFits /\ PutFits /\ GetFits
    /\ OwnPreferencesOnly /\ StoredWhenSettled

Keeps == tab.pending /\ tab'.account = tab.account /\ tab'.prefs # tab.prefs
            => latest'[tab.account] = tab'.prefs

LEMMA NothingUnderWay ==
    /\ Preset \in Chosen /\ Preset.by = "nobody"
    /\ NoPut \in PutType /\ NoPut.state = "none" /\ NoRead \in GetType /\ NoRead.state = "none"
    /\ Unset \in CachedType /\ Unset.prefs = Preset /\ Unset.pending = FALSE
BY DEF Preset, Chosen, NoPut, PutType, NoRead, GetType, Unset, CachedType

\* A finite set of numbers has a greatest one and a least one.
Numbers == SUBSET Nat

LEMMA LeastNested ==
    ASSUME NEW S, IsFiniteSet(S), S # {}, NEW A, \A n \in S : A[n] \subseteq S
    PROVE  \E n \in S : \A m \in S : A[m] \subseteq A[n] => A[m] = A[n]
<1> DEFINE T == {A[n] : n \in S}
<1>1. T \subseteq SUBSET S /\ T # {}
  OBVIOUS
<1>2. \A s \in T : \E n \in S : s = A[n]
  OBVIOUS
<1>3. \A n \in S : A[n] \in T
  OBVIOUS
<1> HIDE DEF T
<1>4. \E s \in T : \A t \in T : t \subseteq s => t = s
  BY <1>1, LeastSubset
<1> QED
  BY <1>2, <1>3, <1>4

LEMMA Greatest ==
    ASSUME NEW S \in Numbers, IsFiniteSet(S), S # {}
    PROVE  \E n \in S : \A m \in S : m <= n
<1> DEFINE A == [n \in S |-> {m \in S : n <= m}]
<1>1. \A n \in S : A[n] \subseteq S
  OBVIOUS
<1>2. ASSUME NEW n \in S, NEW m \in S, n < m
      PROVE  A[m] \subseteq A[n] /\ n \notin A[m] /\ n \in A[n]
  <2>1. A[m] = {k \in S : m <= k} /\ A[n] = {k \in S : n <= k}
    OBVIOUS
  <2>2. n \in Int /\ m \in Int /\ \A k \in S : k \in Int
    BY DEF Numbers
  <2> HIDE DEF A
  <2>3. ASSUME NEW k \in A[m] PROVE k \in A[n]
    <3>1. k \in S /\ m <= k
      BY <2>1
    <3>2. n <= k
      BY <1>2, <2>2, <3>1
    <3> QED
      BY <2>1, <3>1, <3>2
  <2>4. n \notin A[m] /\ n \in A[n]
    BY <1>2, <2>1, <2>2
  <2> QED
    BY <2>3, <2>4
<1> HIDE DEF A
<1>3. \E n \in S : \A m \in S : A[m] \subseteq A[n] => A[m] = A[n]
  BY <1>1, LeastNested
<1>4. \A n, m \in S : m <= n \/ n < m
  BY DEF Numbers
<1> QED
  BY <1>2, <1>3, <1>4

LEMMA Least ==
    ASSUME NEW S \in Numbers, IsFiniteSet(S), S # {}
    PROVE  \E n \in S : \A m \in S : n <= m
<1> DEFINE A == [n \in S |-> {m \in S : m <= n}]
<1>1. \A n \in S : A[n] \subseteq S
  OBVIOUS
<1>2. ASSUME NEW n \in S, NEW m \in S, m < n
      PROVE  A[m] \subseteq A[n] /\ n \notin A[m] /\ n \in A[n]
  <2>1. A[m] = {k \in S : k <= m} /\ A[n] = {k \in S : k <= n}
    OBVIOUS
  <2>2. n \in Int /\ m \in Int /\ \A k \in S : k \in Int
    BY DEF Numbers
  <2> HIDE DEF A
  <2>3. ASSUME NEW k \in A[m] PROVE k \in A[n]
    <3>1. k \in S /\ k <= m
      BY <2>1
    <3>2. k <= n
      BY <1>2, <2>2, <3>1
    <3> QED
      BY <2>1, <3>1, <3>2
  <2>4. n \notin A[m] /\ n \in A[n]
    BY <1>2, <2>1, <2>2
  <2> QED
    BY <2>3, <2>4
<1> HIDE DEF A
<1>3. \E n \in S : \A m \in S : A[m] \subseteq A[n] => A[m] = A[n]
  BY <1>1, LeastNested
<1>4. \A n, m \in S : n <= m \/ m < n
  BY DEF Numbers
<1> QED
  BY <1>2, <1>3, <1>4

LEMMA NextIsNumber ==
    ASSUME PrefsTypes
    PROVE  NextNumber \in Nat
<1> DEFINE S == {latest[a].number : a \in Account}
<1>1. S \in Numbers /\ S # {}
  BY DEF PrefsTypes, Chosen, Numbers
<1>2. IsFiniteSet(S)
  <2> DEFINE f == [a \in Account |-> latest[a].number]
  <2>1. f \in Surjection(Account, S)
    BY DEF Surjection
  <2> HIDE DEF f, S
  <2> QED
    BY <2>1, PrefsAssumption, FS_Surjection
<1> HIDE DEF S
<1>3. \E n \in S : \A m \in S : m <= n
  BY <1>1, <1>2, Greatest
<1>4. \E n \in S : \A a \in Account : latest[a].number <= n
  BY <1>3 DEF S
<1> QED
  BY <1>1, <1>4 DEF NextNumber, S, Numbers

LEMMA ChooseKeeps ==
    ASSUME PrefsInv, Choose
    PROVE  PrefsInv' /\ Keeps
<1>1. PrefsTypes /\ CacheFits /\ PutFits /\ GetFits /\ OwnPreferencesOnly /\ StoredWhenSettled
  BY DEF PrefsInv
<1> DEFINE choice == [by |-> tab.account, number |-> NextNumber]
           a == tab.account
<1>2. a \in Account /\ tab \in PageType
  BY <1>1 DEF PrefsTypes, PageType
<1>3. choice \in Chosen /\ choice.by = a
  BY <1>1, <1>2, NextIsNumber DEF Chosen
<1>4. /\ tab' = [tab EXCEPT !.prefs = choice, !.pending = TRUE, !.version = @ + 1]
      /\ cache' = [cache EXCEPT ![a] = [prefs |-> choice, pending |-> TRUE]]
      /\ latest' = [latest EXCEPT ![a] = choice]
      /\ UNCHANGED <<cookie, stored, put, get>>
  BY DEF Choose
<1> HIDE DEF choice
<1>5. /\ tab' \in PageType /\ tab'.account = a /\ tab'.prefs = choice /\ tab'.pending = TRUE
      /\ tab'.version = tab.version + 1 /\ tab.version \in Nat
  <2> DEFINE n == tab.version + 1
  <2>1. tab.version \in Nat /\ n \in Nat
    BY <1>2 DEF PageType
  <2>2. tab' = [tab EXCEPT !.prefs = choice, !.pending = TRUE, !.version = n]
    BY <1>2, <1>4 DEF PageType
  <2> HIDE DEF n
  <2>3. /\ tab' \in PageType /\ tab'.account = tab.account /\ tab'.prefs = choice
        /\ tab'.pending = TRUE /\ tab'.version = n
    BY <1>2, <1>3, <2>1, <2>2 DEF PageType
  <2> QED
    BY <2>1, <2>3 DEF n
<1>6. [prefs |-> choice, pending |-> TRUE] \in CachedType
  BY <1>3 DEF CachedType
<1>7. PrefsTypes'
  BY <1>1, <1>2, <1>3, <1>4, <1>5, <1>6 DEF PrefsTypes
<1>8. /\ cache'[a].prefs = choice /\ cache'[a].pending = TRUE /\ latest'[a] = choice
      /\ \A b \in Account \ {a} : cache'[b] = cache[b] /\ latest'[b] = latest[b]
  BY <1>1, <1>2, <1>4 DEF PrefsTypes
<1> HIDE DEF a
<1>9. CacheFits'
  BY <1>1, <1>5, <1>8 DEF CacheFits
<1>10. PutFits'
  <2>1. put.state # "none" => put.version \in Nat
    BY <1>1 DEF PrefsTypes, PutType
  <2> QED
    BY <1>1, <1>4, <1>5, <2>1 DEF PutFits, a
<1>11. GetFits'
  BY <1>1, <1>4, <1>5 DEF GetFits, a
<1>12. OwnPreferencesOnly'
  BY <1>1, <1>3, <1>4, <1>5, <1>8 DEF OwnPreferencesOnly
<1>13. StoredWhenSettled'
  BY <1>1, <1>4, <1>8 DEF StoredWhenSettled
<1>14. Keeps
  BY <1>5, <1>8 DEF Keeps, a
<1> QED
  BY <1>7, <1>9, <1>10, <1>11, <1>12, <1>13, <1>14 DEF PrefsInv

\* The page shows something it has of its account, with nothing pending, while no save
\* is under way; or nothing of it changes.
LEMMA ShowsKeeps ==
    ASSUME PrefsInv, NEW p \in Chosen, p.by \in {tab.account, "nobody"},
           tab' = [tab EXCEPT !.prefs = p, !.pending = FALSE],
           cache' = [cache EXCEPT ![tab.account] = [prefs |-> p, pending |-> FALSE]],
           stored[tab.account] = latest[tab.account],
           put'.state = "none", put' \in PutType, get' = get \/ get' = NoRead,
           tab.pending => p = tab.prefs,
           UNCHANGED <<cookie, stored, latest>>
    PROVE  PrefsInv' /\ Keeps
<1> DEFINE a == tab.account
<1>1. PrefsTypes /\ CacheFits /\ GetFits /\ OwnPreferencesOnly /\ StoredWhenSettled
  BY DEF PrefsInv
<1>2. a \in Account /\ tab \in PageType
  BY <1>1 DEF PrefsTypes, PageType
<1>3. tab' \in PageType /\ tab'.account = a /\ tab'.prefs = p /\ tab'.pending = FALSE
  BY <1>2 DEF PageType
<1>4. [prefs |-> p, pending |-> FALSE] \in CachedType
  BY DEF CachedType
<1>5. /\ cache'[a].prefs = p /\ cache'[a].pending = FALSE
      /\ \A b \in Account \ {a} : cache'[b] = cache[b]
  BY <1>1, <1>2 DEF PrefsTypes
<1>6. PrefsTypes'
  BY <1>1, <1>2, <1>3, <1>4, NothingUnderWay DEF PrefsTypes
<1>7. GetFits'
  BY <1>1, <1>3, NothingUnderWay DEF GetFits
<1>8. stored[a] = latest[a] /\ p.by \in {a, "nobody"}
  OBVIOUS
<1>9. Keeps
  BY <1>3 DEF Keeps
<1> HIDE DEF a
<1>10. CacheFits' /\ PutFits'
  BY <1>1, <1>3, <1>5 DEF CacheFits, PutFits
<1>11. OwnPreferencesOnly' /\ StoredWhenSettled'
  BY <1>1, <1>3, <1>5, <1>8 DEF OwnPreferencesOnly, StoredWhenSettled
<1> QED
  BY <1>6, <1>7, <1>9, <1>10, <1>11 DEF PrefsInv

\* The page and its cache stay as they are.
LEMMA PageStays ==
    ASSUME PrefsInv, UNCHANGED <<tab, cache, latest>>, cookie' \in Account,
           stored' \in [Account -> Chosen], put' \in PutType, get' \in GetType,
           PutFits', GetFits',
           \A b \in Account : stored'[b] # stored[b] =>
                cache[b].pending /\ stored'[b].by \in {b, "nobody"}
    PROVE  PrefsInv' /\ Keeps
<1>1. PrefsTypes /\ CacheFits /\ OwnPreferencesOnly /\ StoredWhenSettled
  BY DEF PrefsInv
<1>2. PrefsTypes' /\ CacheFits'
  BY <1>1 DEF PrefsTypes, CacheFits
<1>3. OwnPreferencesOnly' /\ StoredWhenSettled' /\ Keeps
  BY <1>1 DEF OwnPreferencesOnly, StoredWhenSettled, Keeps
<1> QED
  BY <1>2, <1>3 DEF PrefsInv

LEMMA LoadKeeps ==
    ASSUME PrefsInv, LoadPage
    PROVE  PrefsInv' /\ Keeps
<1>1. PrefsTypes /\ CacheFits /\ OwnPreferencesOnly /\ StoredWhenSettled
  BY DEF PrefsInv
<1>2. /\ tab' = [account |-> cookie, prefs |-> cache[cookie].prefs,
                 pending |-> cache[cookie].pending, version |-> 0]
      /\ put' = NoPut /\ get' = NoRead
      /\ UNCHANGED <<cookie, cache, stored, latest>>
  BY DEF LoadPage
<1>3. cookie \in Account /\ cache[cookie] \in CachedType
  BY <1>1 DEF PrefsTypes
<1>4. /\ tab' \in PageType /\ tab'.account = cookie /\ tab'.prefs = cache[cookie].prefs
      /\ tab'.pending = cache[cookie].pending
  BY <1>2, <1>3 DEF PageType, CachedType
<1>5. PrefsTypes' /\ PutFits' /\ GetFits'
  BY <1>1, <1>2, <1>4, NothingUnderWay DEF PrefsTypes, PutFits, GetFits
<1>6. CacheFits' /\ OwnPreferencesOnly' /\ StoredWhenSettled'
  BY <1>1, <1>2, <1>3, <1>4 DEF CacheFits, OwnPreferencesOnly, StoredWhenSettled
<1>7. Keeps
  BY <1>1, <1>4 DEF Keeps, CacheFits
<1> QED
  BY <1>5, <1>6, <1>7 DEF PrefsInv

LEMMA PrefsStep ==
    ASSUME PrefsInv, PrefsNext
    PROVE  PrefsInv' /\ Keeps
<1>1. /\ cookie \in Account /\ tab \in PageType /\ cache \in [Account -> CachedType]
      /\ stored \in [Account -> Chosen] /\ latest \in [Account -> Chosen]
      /\ put \in PutType /\ get \in GetType
      /\ PrefsTypes /\ CacheFits /\ PutFits /\ GetFits
      /\ OwnPreferencesOnly /\ StoredWhenSettled
  BY DEF PrefsInv, PrefsTypes
<1>2. /\ tab.account \in Account /\ tab.prefs \in Chosen /\ tab.pending \in BOOLEAN
      /\ tab.version \in Nat /\ tab.prefs.by \in {tab.account, "nobody"}
  BY <1>1 DEF PageType, OwnPreferencesOnly
<1>3. CASE Choose
  BY <1>3, ChooseKeeps
<1>4. CASE SendPut
  <2>1. /\ tab.pending
        /\ put' = [state |-> "sent", account |-> tab.account, cookie |-> cookie,
                   prefs |-> tab.prefs, version |-> tab.version]
        /\ UNCHANGED <<cookie, tab, cache, stored, get, latest>>
    BY <1>4 DEF SendPut
  <2>2. /\ put' \in PutType /\ put'.state = "sent" /\ put'.account = tab.account
        /\ put'.cookie = cookie /\ put'.prefs = tab.prefs /\ put'.version = tab.version
    BY <1>1, <1>2, <2>1 DEF PutType
  <2>3. PutFits' /\ GetFits'
    BY <1>1, <1>2, <2>1, <2>2 DEF PutFits, GetFits
  <2> QED
    BY <1>1, <2>1, <2>2, <2>3, PageStays
<1>5. CASE ServePut
  <2>1. put.state = "sent" /\ UNCHANGED <<cookie, tab, cache, get, latest>>
    BY <1>5 DEF ServePut
  <2>2. /\ put.account = tab.account /\ tab.pending /\ put.version <= tab.version
        /\ put.version = tab.version => put.prefs = tab.prefs
        /\ put.prefs.by \in {put.account, "nobody"} /\ put.cookie \in Account
        /\ put.prefs \in Chosen /\ cache[tab.account].pending
    BY <1>1, <2>1 DEF PutFits, PutType, CacheFits
  <2>3. CASE put.account = put.cookie
    <3>1. /\ stored' = [stored EXCEPT ![put.cookie] = put.prefs]
          /\ put' = [put EXCEPT !.state = "stored"]
      BY <1>5, <2>3 DEF ServePut, SameAccount
    <3>2. /\ put' \in PutType /\ put'.state = "stored" /\ put'.account = put.account
          /\ put'.cookie = put.cookie /\ put'.prefs = put.prefs /\ put'.version = put.version
      BY <1>1, <3>1 DEF PutType
    <3>3. stored' \in [Account -> Chosen] /\ stored'[put.account] = put.prefs
      BY <1>1, <2>2, <2>3, <3>1
    <3>4. \A b \in Account \ {tab.account} : stored'[b] = stored[b]
      BY <1>1, <2>2, <2>3, <3>1
    <3>5. PutFits' /\ GetFits'
      BY <1>1, <2>1, <2>2, <3>2, <3>3 DEF PutFits, GetFits
    <3> QED
      BY <1>1, <2>1, <2>2, <3>2, <3>3, <3>4, <3>5, PageStays
  <2>4. CASE put.account # put.cookie
    <3>1. stored' = stored /\ put' = [put EXCEPT !.state = "changed"]
      BY <1>5, <2>4 DEF ServePut, SameAccount
    <3>2. /\ put' \in PutType /\ put'.state = "changed" /\ put'.account = put.account
          /\ put'.cookie = put.cookie /\ put'.prefs = put.prefs /\ put'.version = put.version
      BY <1>1, <3>1 DEF PutType
    <3>3. PutFits' /\ GetFits'
      BY <1>1, <2>1, <2>2, <3>2 DEF PutFits, GetFits
    <3> QED
      BY <1>1, <2>1, <3>1, <3>2, <3>3, PageStays
  <2> QED
    BY <2>3, <2>4
<1>6. CASE PutAnswered
  <2>1. /\ put.state = "stored" /\ put' = NoPut /\ UNCHANGED <<cookie, stored, get, latest>>
    BY <1>6 DEF PutAnswered
  <2>2. CASE Settled
    <3>1. /\ tab' = [tab EXCEPT !.pending = FALSE]
          /\ cache' = [cache EXCEPT ![tab.account] = [prefs |-> tab.prefs, pending |-> FALSE]]
      BY <1>6, <2>2 DEF PutAnswered
    <3>2. tab' = [tab EXCEPT !.prefs = tab.prefs, !.pending = FALSE]
      BY <1>1, <3>1 DEF PageType
    \* What was stored is the last choice of the account.
    <3>3. stored[tab.account] = latest[tab.account]
      BY <1>1, <1>2, <2>1, <2>2 DEF PutFits, CacheFits, Settled
    <3> QED
      BY <1>2, <2>1, <3>1, <3>2, <3>3, ShowsKeeps, NothingUnderWay
  <2>3. CASE ~Settled
    <3>1. UNCHANGED <<tab, cache>>
      BY <1>6, <2>3 DEF PutAnswered
    <3>2. PutFits' /\ GetFits'
      BY <1>1, <2>1, <3>1, NothingUnderWay DEF PutFits, GetFits
    <3> QED
      BY <1>1, <2>1, <3>1, <3>2, NothingUnderWay, PageStays
  <2> QED
    BY <2>2, <2>3
<1>7. CASE PutFails
  <2>1. put' = NoPut /\ UNCHANGED <<cookie, tab, cache, stored, get, latest>>
    BY <1>7 DEF PutFails
  <2>2. PutFits' /\ GetFits'
    BY <1>1, <2>1, NothingUnderWay DEF PutFits, GetFits
  <2> QED
    BY <1>1, <2>1, <2>2, NothingUnderWay, PageStays
<1>8. CASE Read
  <2>1. /\ get' = [NoRead EXCEPT !.state = "sent", !.account = tab.account, !.cookie = cookie]
        /\ UNCHANGED <<cookie, tab, cache, stored, put, latest>>
    BY <1>8 DEF Read
  <2>2. /\ get' \in GetType /\ get'.state = "sent" /\ get'.account = tab.account
        /\ get'.cookie = cookie
    BY <1>1, <1>2, <2>1, NothingUnderWay DEF GetType
  <2>3. PutFits' /\ GetFits'
    BY <1>1, <2>1, <2>2 DEF PutFits, GetFits
  <2> QED
    BY <1>1, <2>1, <2>2, <2>3, PageStays
<1>9. CASE ServeGet
  <2>1. get.state = "sent" /\ UNCHANGED <<cookie, tab, cache, stored, put, latest>>
    BY <1>9 DEF ServeGet
  <2>2. get.account = tab.account /\ get.cookie \in Account
    BY <1>1, <2>1 DEF GetFits
  <2>3. CASE get.account = get.cookie
    <3>1. get' = [get EXCEPT !.state = "read", !.prefs = stored[get.cookie]]
      BY <1>9, <2>3 DEF ServeGet, SameAccount
    <3>2. stored[get.cookie] \in Chosen /\ stored[get.cookie].by \in {get.cookie, "nobody"}
      BY <1>1, <2>2 DEF OwnPreferencesOnly
    <3>3. /\ get' \in GetType /\ get'.account = get.account /\ get'.cookie = get.cookie
          /\ get'.prefs = stored[get.cookie]
      BY <1>1, <3>1, <3>2 DEF GetType
    <3>4. PutFits' /\ GetFits'
      BY <1>1, <2>1, <2>2, <2>3, <3>2, <3>3 DEF PutFits, GetFits
    <3> QED
      BY <1>1, <2>1, <3>3, <3>4, PageStays
  <2>4. CASE get.account # get.cookie
    <3>1. get' = [get EXCEPT !.state = "changed"]
      BY <1>9, <2>4 DEF ServeGet, SameAccount
    <3>2. /\ get' \in GetType /\ get'.state = "changed" /\ get'.account = get.account
          /\ get'.cookie = get.cookie
      BY <1>1, <3>1 DEF GetType
    <3>3. PutFits' /\ GetFits'
      BY <1>1, <2>1, <2>2, <3>2 DEF PutFits, GetFits
    <3> QED
      BY <1>1, <2>1, <3>2, <3>3, PageStays
  <2> QED
    BY <2>3, <2>4
<1>10. CASE GetAnswered
  <2>1. /\ get.state = "read" /\ get' = NoRead /\ UNCHANGED <<cookie, stored, put, latest>>
    BY <1>10 DEF GetAnswered
  <2>2. CASE ~tab.pending
    <3>1. /\ tab' = [tab EXCEPT !.prefs = get.prefs]
          /\ cache' = [cache EXCEPT ![tab.account] = [prefs |-> get.prefs, pending |-> FALSE]]
      BY <1>10, <2>2 DEF GetAnswered, TakesReading
    <3>2. tab' = [tab EXCEPT !.prefs = get.prefs, !.pending = FALSE]
      BY <1>1, <1>2, <2>2, <3>1 DEF PageType
    <3>3. get.prefs \in Chosen /\ get.prefs.by \in {tab.account, "nobody"}
      BY <1>1, <2>1 DEF GetFits, GetType
    <3>4. put.state = "none" /\ stored[tab.account] = latest[tab.account]
      BY <1>1, <1>2, <2>2 DEF PutFits, CacheFits, StoredWhenSettled
    <3> QED
      BY <1>1, <2>1, <2>2, <3>1, <3>2, <3>3, <3>4, ShowsKeeps
  <2>3. CASE tab.pending
    <3>1. UNCHANGED <<tab, cache>>
      BY <1>10, <2>3 DEF GetAnswered, TakesReading
    <3>2. PutFits' /\ GetFits'
      BY <1>1, <2>1, <3>1, NothingUnderWay DEF PutFits, GetFits
    <3> QED
      BY <1>1, <2>1, <3>1, <3>2, NothingUnderWay, PageStays
  <2> QED
    BY <1>2, <2>2, <2>3
<1>11. CASE GetFails
  <2>1. get' = NoRead /\ UNCHANGED <<cookie, tab, cache, stored, put, latest>>
    BY <1>11 DEF GetFails
  <2>2. PutFits' /\ GetFits'
    BY <1>1, <2>1, NothingUnderWay DEF PutFits, GetFits
  <2> QED
    BY <1>1, <2>1, <2>2, NothingUnderWay, PageStays
<1>12. CASE LoadPage \/ AccountChanged
  BY <1>12, LoadKeeps DEF AccountChanged
<1>13. ASSUME NEW a \in Account, SignInElsewhere(a) PROVE PrefsInv' /\ Keeps
  <2>1. cookie' = a /\ UNCHANGED <<tab, cache, stored, put, get, latest>>
    BY <1>13 DEF SignInElsewhere
  <2>2. PutFits' /\ GetFits'
    BY <1>1, <2>1 DEF PutFits, GetFits
  <2> QED
    BY <1>1, <2>1, <2>2, PageStays
<1> QED
  BY <1>3, <1>4, <1>5, <1>6, <1>7, <1>8, <1>9, <1>10, <1>11, <1>12, <1>13 DEF PrefsNext

-----------------------------------------------------------------------------
(***************************************************************************)
(* The windows of the desktop and their dialogs                            *)
(***************************************************************************)
PromptType ==
    [window : Windows \cup {"none"}, number : Nat, delegated : BOOLEAN,
     goal : {"none", "close", "retry"}, rest : Seq(Windows),
     late : SUBSET Dialog]
WaiterType == [id : Nat, prompt : Nat]
ReplyType == [window : Windows, id : Nat, allow : BOOLEAN]
BridgeType ==
    [prompt : PromptType, agreed : SUBSET (Windows \cup {"none"}),
     waiter : [Windows -> WaiterType], replies : SUBSET ReplyType]

\* Questions and handed questions are numbered; the one that is up and the one its
\* window waits for are of the same window, and a reply that would close it was given
\* by a page that gave its content up.
WaiterFits(b, w) ==
    b.waiter[w] # NoWaiter =>
        /\ b.waiter[w].id \in 1..handed /\ b.waiter[w].prompt \in 1..prompts
        /\ b.waiter[w].prompt = b.prompt.number => b.prompt.window = w
ReplyFits(b, r) ==
    /\ r.id \in 1..handed
    /\ r.allow /\ r.id = b.waiter[r.window].id /\ b.waiter[r.window].prompt = b.prompt.number
          => r.window \in b.agreed

\* Whatever dialog of a window being closed is unsaved: it has been given up, is still to
\* be asked, or turned unsaved too late for that.
Root(p) == IF p.rest = <<>> THEN p.window ELSE Last(p.rest)
LateFits(b) ==
    b.prompt.goal = "close" /\ Root(b.prompt) = "main" =>
        \A d \in open \cap Dialog \cap unsaved :
            d \in b.agreed \cup b.prompt.late \cup Ahead(b.prompt)

BridgeFits(b) ==
    /\ b \in BridgeType /\ b.prompt.number <= prompts
    /\ b.prompt # NoPrompt => b.prompt.window \in Windows /\ b.prompt.number # 0
    /\ \A w \in Windows : WaiterFits(b, w)
    /\ \A r \in b.replies : ReplyFits(b, r)
    /\ LateFits(b)

CountsFit ==
    /\ prompts \in Nat /\ handed \in Nat
    /\ closing \in [Windows -> Nat] /\ \A w \in Windows : closing[w] <= handed

Asks == {"new", "waiting", "answered", "gone"}

ShellInv ==
    /\ BridgeFits(Bridge) /\ CountsFit /\ open \subseteq Windows
    /\ asking \in [Dialog -> Asks] /\ WindowsHold

LEMMA NothingUp ==
    /\ NoPrompt \in PromptType /\ NoPrompt.number = 0 /\ NoPrompt.window = "none"
    /\ NoPrompt.goal = "none"
    /\ NoWaiter \in WaiterType /\ NoWaiter.id = 0 /\ NoWaiter.prompt = 0
<1>1. <<>> \in Seq(Windows)
  OBVIOUS
<1> QED
  BY <1>1 DEF NoPrompt, PromptType, NoWaiter, WaiterType

\* The bridge as the state has it.
LEMMA TheBridge ==
    ASSUME ShellInv
    PROVE  /\ Bridge.prompt = prompt /\ Bridge.agreed = agreed /\ Bridge.waiter = waiter
           /\ Bridge.replies = replies /\ Bridge \in BridgeType
           /\ prompt \in PromptType /\ waiter \in [Windows -> WaiterType]
           /\ agreed \subseteq Windows \cup {"none"} /\ replies \subseteq ReplyType
           /\ prompt.number <= prompts
           /\ (prompt # NoPrompt => prompt.window \in Windows /\ prompt.number # 0)
           /\ \A w \in Windows : WaiterFits(Bridge, w)
           /\ \A r \in replies : ReplyFits(Bridge, r)
           /\ LateFits(Bridge)
<1>1. /\ Bridge.prompt = prompt /\ Bridge.agreed = agreed /\ Bridge.waiter = waiter
      /\ Bridge.replies = replies
  BY DEF Bridge
<1>2. BridgeFits(Bridge)
  BY DEF ShellInv
<1> QED
  BY <1>1, <1>2 DEF BridgeFits, BridgeType

\* A bridge with the fields of the next state is that of the next state.
LEMMA NextBridge ==
    ASSUME prompt' \in PromptType, agreed' \subseteq Windows \cup {"none"},
           waiter' \in [Windows -> WaiterType], replies' \subseteq ReplyType,
           prompt'.number <= prompts',
           prompt' # NoPrompt => prompt'.window \in Windows /\ prompt'.number # 0,
           \A w \in Windows : waiter'[w] # NoWaiter =>
               /\ waiter'[w].id \in 1..handed' /\ waiter'[w].prompt \in 1..prompts'
               /\ waiter'[w].prompt = prompt'.number => prompt'.window = w,
           \A r \in replies' :
               /\ r.id \in 1..handed'
               /\ r.allow /\ r.id = waiter'[r.window].id
                     /\ waiter'[r.window].prompt = prompt'.number => r.window \in agreed',
           LateFits(Bridge)'
    PROVE  BridgeFits(Bridge)'
<1>1. /\ Bridge'.prompt = prompt' /\ Bridge'.agreed = agreed' /\ Bridge'.waiter = waiter'
      /\ Bridge'.replies = replies' /\ Bridge' \in BridgeType
  BY DEF Bridge, BridgeType
<1> QED
  BY <1>1 DEF BridgeFits, WaiterFits, ReplyFits, Windows

\* The windows and dialogs stay.
LEMMA OnlyBridge ==
    ASSUME ShellInv, BridgeFits(Bridge)', CountsFit',
           UNCHANGED <<open, asking, opening, results, lost>>
    PROVE  ShellInv'
BY DEF ShellInv, WindowsHold, NothingLostUnasked, DialogsAnswered, NoOrphans, Windows

LEMMA RemovesFit ==
    ASSUME ShellInv, NEW w \in Windows, NEW b, BridgeFits(b), RemoveWindow(w, b),
           UNCHANGED <<unsaved, prompts, handed, lost, opening>>
    PROVE  ShellInv'
<1> DEFINE W == {w} \cup Children(w)
<1>1. /\ open \subseteq Windows /\ asking \in [Dialog -> Asks] /\ CountsFit
      /\ lost = {} /\ DialogsAnswered /\ NoOrphans
  BY DEF ShellInv, WindowsHold, NothingLostUnasked
<1>2. /\ open' = open \ W
      /\ results' = IF "main" \in open \ W THEN results \cup (W \cap open \cap Dialog) ELSE {}
      /\ waiter' = [x \in Windows |-> IF x \in W THEN NoWaiter ELSE b.waiter[x]]
      /\ closing' = [x \in Windows |-> IF x \in W THEN 0 ELSE closing[x]]
      /\ replies' = {r \in b.replies : r.window \notin W}
      /\ prompt' = IF \E x \in W : b.waiter[x] # NoWaiter /\ b.waiter[x].prompt = b.prompt.number
                   THEN [b.prompt EXCEPT !.delegated = FALSE] ELSE b.prompt
      /\ agreed' = b.agreed \ W /\ UNCHANGED asking
  BY DEF RemoveWindow, TakeAway
<1>3. /\ b.prompt \in PromptType /\ b.agreed \subseteq Windows \cup {"none"}
      /\ b.waiter \in [Windows -> WaiterType] /\ b.replies \subseteq ReplyType
      /\ b.prompt.number <= prompts
      /\ (b.prompt # NoPrompt => b.prompt.window \in Windows /\ b.prompt.number # 0)
      /\ \A x \in Windows : WaiterFits(b, x)
      /\ \A r \in b.replies : ReplyFits(b, r)
      /\ LateFits(b)
  BY DEF BridgeFits, BridgeType
<1>4. CountsFit'
  BY <1>1, <1>2 DEF CountsFit, Windows
<1>5. /\ prompt' \in PromptType /\ prompt'.number = b.prompt.number
      /\ prompt'.window = b.prompt.window /\ prompt'.goal = b.prompt.goal
      /\ prompt'.rest = b.prompt.rest /\ prompt'.late = b.prompt.late
  BY <1>2, <1>3 DEF PromptType
<1>6. prompt' # NoPrompt => prompt'.window \in Windows /\ prompt'.number # 0
  <2>1. NoPrompt.delegated = FALSE
    BY DEF NoPrompt
  <2>2. [NoPrompt EXCEPT !.delegated = NoPrompt.delegated] = NoPrompt
    BY NothingUp DEF PromptType
  <2>3. b.prompt = NoPrompt => [b.prompt EXCEPT !.delegated = FALSE] = NoPrompt
    BY <2>1, <2>2, Zenon
  <2> QED
    BY <1>2, <1>3, <1>5, <2>3
<1> HIDE DEF W
<1>7. waiter' \in [Windows -> WaiterType]
      /\ \A x \in Windows : waiter'[x] = IF x \in W THEN NoWaiter ELSE b.waiter[x]
  BY <1>2, <1>3, NothingUp
<1>8. \A x \in Windows : waiter'[x] # NoWaiter =>
          /\ waiter'[x].id \in 1..handed' /\ waiter'[x].prompt \in 1..prompts'
          /\ waiter'[x].prompt = prompt'.number => prompt'.window = x
  BY <1>3, <1>5, <1>7 DEF WaiterFits
<1>9. \A r \in replies' :
          /\ r \in ReplyType /\ r.id \in 1..handed'
          /\ r.allow /\ r.id = waiter'[r.window].id
                /\ waiter'[r.window].prompt = prompt'.number => r.window \in agreed'
  BY <1>2, <1>3, <1>5, <1>7 DEF ReplyFits, ReplyType
<1>10. BridgeFits(Bridge)'
  <2>1. /\ agreed' \subseteq Windows \cup {"none"} /\ replies' \subseteq ReplyType
        /\ prompt'.number <= prompts'
    BY <1>2, <1>3, <1>5, <1>9
  <2>2. Root(prompt') = Root(b.prompt) /\ Ahead(prompt') = Ahead(b.prompt)
    BY <1>5 DEF Root, Ahead
  <2>3. LateFits(Bridge)'
    <3>1. Bridge'.prompt = prompt' /\ Bridge'.agreed = agreed'
      BY DEF Bridge
    <3> QED
      BY <1>2, <1>3, <1>5, <2>2, <3>1 DEF LateFits
  <2> QED
    BY <1>5, <1>6, <1>7, <1>8, <1>9, <2>1, <2>3, NextBridge
<1>11. DialogsAnswered'
  <2>1. "main" \in open' => "main" \in open /\ results' = results \cup (W \cap open \cap Dialog)
    BY <1>2
  <2> QED
    BY <1>1, <1>2, <2>1 DEF DialogsAnswered
<1>12. NoOrphans'
  <2>1. CASE w = "main"
    <3>1. open \cap Dialog \subseteq W
      BY <2>1 DEF W, Children
    <3> QED
      BY <1>2, <3>1 DEF NoOrphans
  <2>2. CASE w # "main"
    <3>1. W = {w}
      BY <2>2 DEF W, Children
    <3> QED
      BY <1>1, <1>2, <2>2, <3>1 DEF NoOrphans
  <2> QED
    BY <2>1, <2>2
<1> QED
  BY <1>1, <1>2, <1>4, <1>10, <1>11, <1>12
     DEF ShellInv, WindowsHold, NothingLostUnasked, Windows

LEMMA ReloadsFit ==
    ASSUME ShellInv, NEW W \in SUBSET Windows, NEW b, BridgeFits(b), Reload(W, b),
           UNCHANGED <<unsaved, prompts, handed, lost, opening>>
    PROVE  ShellInv'
<1>1. /\ open \subseteq Windows /\ asking \in [Dialog -> Asks] /\ CountsFit
      /\ lost = {} /\ DialogsAnswered /\ NoOrphans
  BY DEF ShellInv, WindowsHold, NothingLostUnasked
<1>2. /\ closing' = [w \in Windows |-> IF w \in W THEN 0 ELSE closing[w]]
      /\ replies' = {r \in b.replies : r.window \notin W}
      /\ asking' = IF "main" \notin W THEN asking
                   ELSE [r \in Dialog |-> IF asking[r] = "waiting" THEN "gone" ELSE asking[r]]
      /\ results' = IF "main" \in W THEN {} ELSE results
      /\ prompt' = b.prompt /\ waiter' = b.waiter /\ agreed' = b.agreed
      /\ UNCHANGED open
  BY DEF Reload
<1>3. /\ b.prompt \in PromptType /\ b.agreed \subseteq Windows \cup {"none"}
      /\ b.waiter \in [Windows -> WaiterType] /\ b.replies \subseteq ReplyType
      /\ b.prompt.number <= prompts
      /\ (b.prompt # NoPrompt => b.prompt.window \in Windows /\ b.prompt.number # 0)
      /\ \A x \in Windows : WaiterFits(b, x)
      /\ \A r \in b.replies : ReplyFits(b, r)
      /\ LateFits(b)
  BY DEF BridgeFits, BridgeType
<1>4. CountsFit'
  BY <1>1, <1>2 DEF CountsFit, Windows
<1>5. BridgeFits(Bridge)'
  <2>1. replies' \subseteq b.replies /\ replies' \subseteq ReplyType
    BY <1>2, <1>3
  <2>2. \A x \in Windows : waiter'[x] # NoWaiter =>
          /\ waiter'[x].id \in 1..handed' /\ waiter'[x].prompt \in 1..prompts'
          /\ waiter'[x].prompt = prompt'.number => prompt'.window = x
    BY <1>2, <1>3 DEF WaiterFits
  <2>3. \A r \in replies' :
          /\ r.id \in 1..handed'
          /\ r.allow /\ r.id = waiter'[r.window].id
                /\ waiter'[r.window].prompt = prompt'.number => r.window \in agreed'
    BY <1>2, <1>3, <2>1 DEF ReplyFits
  <2>4. LateFits(Bridge)'
    <3>1. Bridge'.prompt = prompt' /\ Bridge'.agreed = agreed'
      BY DEF Bridge
    <3> QED
      BY <1>2, <1>3, <3>1 DEF LateFits
  <2> QED
    BY <1>2, <1>3, <2>1, <2>2, <2>3, <2>4, NextBridge
<1>6. asking' \in [Dialog -> Asks] /\ DialogsAnswered' /\ NoOrphans'
  BY <1>1, <1>2 DEF Asks, DialogsAnswered, NoOrphans
<1> QED
  BY <1>1, <1>2, <1>4, <1>5, <1>6 DEF ShellInv, WindowsHold, NothingLostUnasked, Windows

\* The goal is reached with nothing of the window in it that nobody gave up.
LEMMA ReachesFit ==
    ASSUME ShellInv, NEW goal, NEW root \in Windows, NEW late, NEW b, BridgeFits(b),
           Reached(goal, root, late, b),
           Going(goal, root) \cap unsaved \cap open \subseteq b.agreed \cup late,
           UNCHANGED <<unsaved, prompts, handed, opening>>
    PROVE  ShellInv'
<1>1. lost = {}
  BY DEF ShellInv, WindowsHold, NothingLostUnasked
<1>2. lost' = lost
  BY <1>1 DEF Reached
<1>3. CASE goal = "close"
  BY <1>2, <1>3, RemovesFit DEF Reached
<1>4. CASE goal # "close"
  <2>1. {root} \in SUBSET Windows
    OBVIOUS
  <2> QED
    BY <1>2, <1>4, <2>1, ReloadsFit DEF Reached
<1> QED
  BY <1>3, <1>4

LEMMA ProceedsFit ==
    ASSUME ShellInv, NEW goal \in {"none", "close", "retry"}, NEW late \in SUBSET Dialog,
           NEW b, BridgeFits(b),
           NEW queue \in Seq(Windows), queue # <<>>, Proceed(queue, goal, late, b),
           goal = "close" /\ Last(queue) = "main" =>
               \A d \in open \cap Dialog \cap unsaved :
                   d \in b.agreed \cup late \cup {queue[j] : j \in DOMAIN queue},
           UNCHANGED <<unsaved, handed, opening>>
    PROVE  ShellInv'
<1> DEFINE asked == {i \in DOMAIN queue : queue[i] \in unsaved}
           i == Min(asked)
<1>1. CountsFit /\ DOMAIN queue = 1..Len(queue) /\ Len(queue) \in Nat \ {0}
  BY DEF ShellInv
<1>2. CASE asked # {}
  <2>1. /\ b.prompt = NoPrompt /\ prompts' = prompts + 1
        /\ prompt' = [window |-> queue[i], number |-> prompts', delegated |-> FALSE,
                      goal |-> goal, rest |-> SubSeq(queue, i + 1, Len(queue)), late |-> late]
        /\ agreed' = b.agreed \ {queue[i]}
        /\ waiter' = b.waiter /\ replies' = b.replies
        /\ UNCHANGED <<open, closing, results, asking, lost>>
    BY <1>2 DEF Proceed
  <2>2. i \in 1..Len(queue) /\ \A j \in asked : i <= j
    <3>1. asked \in Numbers /\ asked \subseteq 1..Len(queue)
      BY <1>1 DEF Numbers
    <3>2. IsFiniteSet(asked)
      <4> HIDE DEF asked
      <4>1. IsFiniteSet(1..Len(queue))
        BY <1>1, FS_Interval
      <4> QED
        BY <3>1, <4>1, FS_Subset
    <3> HIDE DEF asked
    <3>3. \E n \in asked : \A m \in asked : n <= m
      BY <1>2, <3>1, <3>2, Least
    <3>4. i \in asked /\ \A j \in asked : i <= j
      BY <3>3 DEF Min
    <3> QED
      BY <3>1, <3>4
  <2>12. \A j \in DOMAIN queue : queue[j] \in unsaved => i <= j
    <3> HIDE DEF i
    <3> QED
      BY <2>2
  <2> HIDE DEF i, asked
  <2>3. queue[i] \in Windows
    BY <2>2
  <2>4. SubSeq(queue, i + 1, Len(queue)) \in Seq(Windows)
    <3>1. \A j \in (i + 1)..Len(queue) : queue[j] \in Windows
      BY <1>1, <2>2
    <3> QED
      BY <1>1, <2>2, <3>1, SubSeqProperties
  <2>5. /\ prompt' \in PromptType /\ prompt'.number = prompts + 1
        /\ prompt'.window = queue[i] /\ prompts \in Nat
    BY <1>1, <2>1, <2>3, <2>4 DEF PromptType, CountsFit
  <2>6. /\ b.agreed \subseteq Windows \cup {"none"}
        /\ b.waiter \in [Windows -> WaiterType] /\ b.replies \subseteq ReplyType
        /\ \A x \in Windows : WaiterFits(b, x)
        /\ \A r \in b.replies : ReplyFits(b, r)
    BY DEF BridgeFits, BridgeType
  \* No handed question is of the number the new one has.
  <2>7. \A x \in Windows : b.waiter[x].prompt # prompts + 1
    BY <2>5, <2>6, NothingUp DEF WaiterFits
  <2>8. \A x \in Windows : waiter'[x] # NoWaiter =>
          /\ waiter'[x].id \in 1..handed' /\ waiter'[x].prompt \in 1..prompts'
          /\ waiter'[x].prompt = prompt'.number => prompt'.window = x
    BY <2>1, <2>5, <2>6, <2>7 DEF WaiterFits
  <2>9. \A r \in replies' :
          /\ r.id \in 1..handed'
          /\ r.allow /\ r.id = waiter'[r.window].id
                /\ waiter'[r.window].prompt = prompt'.number => r.window \in agreed'
    BY <2>1, <2>5, <2>6, <2>7 DEF ReplyFits, ReplyType
  <2>13. LateFits(Bridge)'
    <3> DEFINE tail == SubSeq(queue, i + 1, Len(queue))
    <3>1. /\ Bridge'.prompt = prompt' /\ Bridge'.agreed = b.agreed \ {queue[i]}
          /\ prompt'.late = late /\ prompt'.goal = goal /\ prompt'.rest = tail
      BY <2>1 DEF Bridge
    <3>2. /\ i \in Nat /\ Len(queue) \in Nat /\ i <= Len(queue)
      BY <1>1, <2>2
    <3>3. Len(tail) = Len(queue) - i /\ \A j \in 1..(Len(queue) - i) : tail[j] = queue[i + j]
      <4>1. \A j \in (i + 1)..Len(queue) : queue[j] \in Windows
        BY <1>1, <3>2
      <4>2. /\ i + 1 \in 1..(Len(queue) + 1) /\ Len(queue) \in i..Len(queue)
        BY <1>1, <2>2
      <4>3. /\ Len(tail) = IF i + 1 <= Len(queue) THEN Len(queue) - (i + 1) + 1 ELSE 0
            /\ \A j \in 1..(Len(queue) - (i + 1) + 1) : tail[j] = queue[(i + 1) + j - 1]
        BY <3>2, <4>1, SubSeqProperties
      <4> HIDE DEF tail
      <4>4. Len(queue) - (i + 1) + 1 = Len(queue) - i
        BY <3>2
      <4>5. ASSUME NEW j \in 1..(Len(queue) - i) PROVE tail[j] = queue[i + j]
        <5>1. (i + 1) + j - 1 = i + j
          BY <3>2
        <5> QED
          BY <4>3, <4>4, <5>1
      <4>6. Len(tail) = Len(queue) - i
        BY <3>2, <4>3
      <4> QED
        BY <4>5, <4>6
    <3>4. tail \in Seq(Windows) /\ DOMAIN tail = 1..(Len(queue) - i)
      BY <2>4, <3>3
    <3> HIDE DEF tail
    <3>5. Root(prompt') = Last(queue)
      <4>1. CASE i = Len(queue)
        <5>1. tail = <<>>
          BY <3>2, <3>3, <3>4, <4>1, EmptySeq
        <5> QED
          BY <2>5, <3>1, <4>1, <5>1 DEF Root, Last
      <4>2. CASE i < Len(queue)
        <5>1. tail # <<>> /\ Len(queue) - i \in 1..(Len(queue) - i)
          BY <3>2, <3>3, <3>4, <4>2, EmptySeq
        <5>2. tail[Len(queue) - i] = queue[i + (Len(queue) - i)] /\ i + (Len(queue) - i) = Len(queue)
          BY <3>2, <3>3, <5>1
        <5> QED
          BY <3>1, <3>3, <5>1, <5>2 DEF Root, Last
      <4> QED
        BY <3>2, <4>1, <4>2
    <3>6. ASSUME NEW j \in DOMAIN queue, queue[j] \in unsaved PROVE queue[j] \in Ahead(prompt')
      <4>1. j \in 1..Len(queue) /\ i <= j
        BY <1>1, <2>12, <3>6
      <4>2. CASE j = i
        BY <2>5, <4>2 DEF Ahead
      <4>3. CASE j # i
        <5>1. j - i \in DOMAIN tail /\ i + (j - i) = j
          BY <3>2, <3>4, <4>1, <4>3
        <5>2. tail[j - i] = queue[j]
          BY <3>3, <3>4, <5>1
        <5> QED
          BY <3>1, <5>1, <5>2 DEF Ahead
      <4> QED
        BY <4>2, <4>3
    <3>7. queue[i] \in Ahead(prompt')
      BY <2>5 DEF Ahead
    <3>8. ASSUME goal = "close", Last(queue) = "main",
                 NEW d \in open \cap Dialog \cap unsaved
          PROVE  d \in agreed' \cup prompt'.late \cup Ahead(prompt')
      <4>1. d \in b.agreed \cup late \cup {queue[j] : j \in DOMAIN queue}
        BY <3>8
      <4>2. CASE d \in b.agreed /\ d # queue[i]
        BY <2>1, <4>2
      <4>3. CASE d = queue[i]
        BY <3>7, <4>3
      <4>4. CASE d \in late
        BY <3>1, <4>4
      <4>5. CASE d \in {queue[j] : j \in DOMAIN queue}
        <5>1. PICK j \in DOMAIN queue : d = queue[j]
          BY <4>5
        <5> QED
          BY <3>6, <5>1
      <4> QED
        BY <4>1, <4>2, <4>3, <4>4, <4>5
    <3>9. /\ Bridge'.prompt = prompt' /\ Bridge'.agreed = agreed'
          /\ UNCHANGED <<open, unsaved>>
      BY <2>1 DEF Bridge
    <3> QED
      BY <3>1, <3>5, <3>8, <3>9 DEF LateFits
  <2>10. BridgeFits(Bridge)'
    <3>1. /\ agreed' \subseteq Windows \cup {"none"} /\ prompt'.number <= prompts'
          /\ prompt'.window \in Windows /\ prompt'.number # 0
      BY <2>1, <2>3, <2>5, <2>6
    <3> QED
      BY <2>1, <2>5, <2>6, <2>8, <2>9, <2>13, <3>1, NextBridge
  <2>11. CountsFit'
    BY <1>1, <2>1 DEF CountsFit, Windows
  <2> QED
    BY <2>1, <2>10, <2>11, OnlyBridge
<1>3. CASE asked = {}
  <2> DEFINE root == Last(queue)
  <2>1. Reached(goal, root, late, b) /\ UNCHANGED prompts
    BY <1>3 DEF Proceed
  <2>2. root \in Windows /\ root \notin unsaved
    BY <1>1, <1>3 DEF Last
  <2>3. \A j \in DOMAIN queue : queue[j] \notin unsaved
    BY <1>3
  <2>4. Going(goal, root) \cap unsaved \cap open \subseteq b.agreed \cup late
    BY <2>2, <2>3 DEF Going, Children
  <2> HIDE DEF root, asked
  <2> QED
    BY <2>1, <2>2, <2>4, ReachesFit
<1> QED
  BY <1>2, <1>3

\* A bridge with nothing up any more, or with a handed question taken from its waiters.
LEMMA NothingUpFits ==
    ASSUME NEW b, BridgeFits(b), prompts \in Nat
    PROVE  /\ BridgeFits([b EXCEPT !.prompt = NoPrompt])
           /\ [b EXCEPT !.prompt = NoPrompt].agreed = b.agreed
<1> DEFINE d == [b EXCEPT !.prompt = NoPrompt]
<1>1. /\ b \in BridgeType /\ \A w \in Windows : WaiterFits(b, w)
      /\ \A r \in b.replies : ReplyFits(b, r) /\ r \in ReplyType
  BY DEF BridgeFits, BridgeType
<1>2. /\ d \in BridgeType /\ d.prompt = NoPrompt /\ d.waiter = b.waiter
      /\ d.replies = b.replies /\ d.agreed = b.agreed
  BY <1>1, NothingUp DEF BridgeType
<1> HIDE DEF d
<1>3. b.prompt.number <= prompts /\ b.prompt.number \in Nat
  BY <1>1 DEF BridgeFits, BridgeType, PromptType
<1>4. \A w \in Windows : WaiterFits(d, w) /\ (WaiterFits(d, w) => TRUE)
  BY <1>1, <1>2, NothingUp DEF WaiterFits
<1>5. \A w \in Windows : d.waiter[w].prompt = 0 => d.waiter[w].id = 0
  BY <1>4, NothingUp DEF WaiterFits
<1>6. \A r \in d.replies : ReplyFits(d, r)
  BY <1>1, <1>2, <1>5, NothingUp DEF ReplyFits, ReplyType
<1>7. 0 <= prompts
  OBVIOUS
<1>8. LateFits(d)
  BY <1>2, NothingUp DEF LateFits
<1> QED
  BY <1>2, <1>4, <1>6, <1>7, <1>8, NothingUp DEF BridgeFits, d

LEMMA TakenFits ==
    ASSUME NEW b, BridgeFits(b), NEW w \in Windows
    PROVE  LET d == [b EXCEPT !.waiter[w] = NoWaiter] IN
           /\ BridgeFits(d)
           /\ d.prompt = b.prompt /\ d.agreed = b.agreed /\ d.replies = b.replies
<1> DEFINE d == [b EXCEPT !.waiter[w] = NoWaiter]
<1>1. /\ b \in BridgeType /\ \A x \in Windows : WaiterFits(b, x)
      /\ \A r \in b.replies : ReplyFits(b, r) /\ r \in ReplyType
      /\ b.prompt.number <= prompts
      /\ (b.prompt # NoPrompt => b.prompt.window \in Windows /\ b.prompt.number # 0)
  BY DEF BridgeFits, BridgeType
<1>2. [b.waiter EXCEPT ![w] = NoWaiter] \in [Windows -> WaiterType]
  BY <1>1, NothingUp DEF BridgeType
<1>3. /\ d \in BridgeType /\ d.prompt = b.prompt /\ d.replies = b.replies
      /\ d.agreed = b.agreed /\ d.waiter = [b.waiter EXCEPT ![w] = NoWaiter]
  BY <1>1, <1>2 DEF BridgeType
<1> HIDE DEF d
<1>4. \A x \in Windows : d.waiter[x] = IF x = w THEN NoWaiter ELSE b.waiter[x]
  BY <1>1, <1>3 DEF BridgeType
<1>5. \A x \in Windows : WaiterFits(d, x)
  BY <1>1, <1>3, <1>4 DEF WaiterFits
<1>6. \A r \in d.replies : ReplyFits(d, r)
  BY <1>1, <1>3, <1>4, NothingUp DEF ReplyFits, ReplyType
<1>7. BridgeFits(d)
  BY <1>1, <1>3, <1>5, <1>6 DEF BridgeFits, LateFits
<1> QED
  BY <1>3, <1>7 DEF d

\* Answers alone are added or forgotten, or somebody gives a content up.
LEMMA BridgeGrows ==
    ASSUME NEW b, BridgeFits(b), NEW S, S \subseteq b.replies
    PROVE  LET d == [b EXCEPT !.replies = S] IN
           /\ BridgeFits(d)
           /\ d.prompt = b.prompt /\ d.agreed = b.agreed /\ d.replies = S
           /\ d.waiter = b.waiter
<1> DEFINE d == [b EXCEPT !.replies = S]
<1>1. b \in BridgeType
  BY DEF BridgeFits
<1>2. /\ d \in BridgeType /\ d.prompt = b.prompt /\ d.agreed = b.agreed /\ d.replies = S
      /\ d.waiter = b.waiter
  BY <1>1 DEF BridgeType
<1> HIDE DEF d
<1>3. BridgeFits(d)
  BY <1>2 DEF BridgeFits, WaiterFits, ReplyFits, LateFits
<1> QED
  BY <1>2, <1>3 DEF d

LEMMA AgreesFit ==
    ASSUME NEW b, BridgeFits(b), NEW w \in Windows \cup {"none"}
    PROVE  LET d == [b EXCEPT !.agreed = @ \cup {w}] IN
           /\ BridgeFits(d)
           /\ d.prompt = b.prompt /\ d.agreed = b.agreed \cup {w} /\ d.replies = b.replies
           /\ d.waiter = b.waiter
<1> DEFINE d == [b EXCEPT !.agreed = @ \cup {w}]
<1>1. b \in BridgeType
  BY DEF BridgeFits
<1>2. /\ d \in BridgeType /\ d.prompt = b.prompt /\ d.agreed = b.agreed \cup {w}
      /\ d.replies = b.replies /\ d.waiter = b.waiter
  BY <1>1 DEF BridgeType
<1> HIDE DEF d
<1>3. BridgeFits(d)
  BY <1>2 DEF BridgeFits, WaiterFits, ReplyFits, LateFits
<1> QED
  BY <1>2, <1>3 DEF d

\* The next bridge is one that fits, but for whether its question was handed over.
LEMMA BridgeIs ==
    ASSUME ShellInv, NEW b, BridgeFits(b), waiter' = b.waiter, replies' = b.replies,
           agreed' = b.agreed, prompt' \in {b.prompt, NoPrompt},
           open' \cap unsaved' \subseteq open \cap unsaved, UNCHANGED <<prompts, handed>>
    PROVE  BridgeFits(Bridge)'
<1> DEFINE d == IF prompt' = NoPrompt THEN [b EXCEPT !.prompt = NoPrompt] ELSE b
<1>1. /\ BridgeFits(d) /\ d.prompt = prompt' /\ d.waiter = waiter' /\ d.replies = replies'
      /\ d.agreed = agreed'
  <2>1. prompts \in Nat
    BY DEF ShellInv, CountsFit
  <2> QED
    BY <2>1, NothingUpFits DEF BridgeFits, BridgeType
<1> HIDE DEF d
<1>2. /\ prompt' \in PromptType /\ agreed' \subseteq Windows \cup {"none"}
      /\ waiter' \in [Windows -> WaiterType] /\ replies' \subseteq ReplyType
      /\ prompt'.number <= prompts'
      /\ (prompt' # NoPrompt => prompt'.window \in Windows /\ prompt'.number # 0)
      /\ \A w \in Windows : WaiterFits(d, w)
      /\ \A r \in replies' : ReplyFits(d, r)
      /\ LateFits(d)
  BY <1>1 DEF BridgeFits, BridgeType
<1>3. \A w \in Windows : waiter'[w] # NoWaiter =>
         /\ waiter'[w].id \in 1..handed' /\ waiter'[w].prompt \in 1..prompts'
         /\ waiter'[w].prompt = prompt'.number => prompt'.window = w
  BY <1>1, <1>2 DEF WaiterFits
<1>4. \A r \in replies' :
         /\ r.id \in 1..handed'
         /\ r.allow /\ r.id = waiter'[r.window].id
               /\ waiter'[r.window].prompt = prompt'.number => r.window \in agreed'
  BY <1>1, <1>2 DEF ReplyFits
<1>5. LateFits(Bridge)'
  <2>1. Bridge'.prompt = d.prompt /\ Bridge'.agreed = d.agreed
    BY <1>1 DEF Bridge
  <2> QED
    BY <1>2, <2>1 DEF LateFits
<1> QED
  BY <1>2, <1>3, <1>4, <1>5, NextBridge

\* When a closing is given up, so is what was given up for it.
LEMMA NobodyIsAsked ==
    ASSUME ShellInv, NEW b, BridgeFits(b), waiter' = b.waiter, replies' = b.replies,
           agreed' = {}, prompt' = NoPrompt, UNCHANGED <<prompts, handed>>
    PROVE  BridgeFits(Bridge)'
<1>1. /\ b.waiter \in [Windows -> WaiterType] /\ b.replies \subseteq ReplyType
      /\ \A w \in Windows : WaiterFits(b, w)
      /\ \A r \in b.replies : ReplyFits(b, r)
  BY DEF BridgeFits, BridgeType
<1>2. prompts \in Nat
  BY DEF ShellInv, CountsFit
<1>3. \A w \in Windows : waiter'[w].prompt = prompt'.number => waiter'[w] = NoWaiter
  BY <1>1, <1>2, NothingUp DEF WaiterFits
<1>4. \A w \in Windows : waiter'[w] # NoWaiter =>
         /\ waiter'[w].id \in 1..handed' /\ waiter'[w].prompt \in 1..prompts'
         /\ waiter'[w].prompt = prompt'.number => prompt'.window = w
  BY <1>1, <1>3 DEF WaiterFits
<1>5. \A r \in replies' :
         /\ r.id \in 1..handed'
         /\ r.allow /\ r.id = waiter'[r.window].id
               /\ waiter'[r.window].prompt = prompt'.number => r.window \in agreed'
  BY <1>1, <1>3, NothingUp DEF ReplyFits, ReplyType
<1>6. LateFits(Bridge)'
  <2>1. Bridge'.prompt = NoPrompt
    BY DEF Bridge
  <2> QED
    BY <2>1, NothingUp DEF LateFits
<1>7. prompt' \in PromptType /\ prompt'.number <= prompts'
  BY <1>2, NothingUp
<1> QED
  BY <1>1, <1>4, <1>5, <1>6, <1>7, NextBridge

\* Whether the question was handed over is of no matter to the bridge.
LEMMA HandingFits ==
    ASSUME NEW b, BridgeFits(b), NEW delegated \in BOOLEAN, b.prompt # NoPrompt \/ ~delegated
    PROVE  LET p == [b.prompt EXCEPT !.delegated = delegated]
               d == [b EXCEPT !.prompt = p] IN
           /\ BridgeFits(d)
           /\ d.prompt = p /\ d.agreed = b.agreed /\ d.replies = b.replies
           /\ d.waiter = b.waiter
<1> DEFINE p == [b.prompt EXCEPT !.delegated = delegated]
           d == [b EXCEPT !.prompt = p]
<1>1. b \in BridgeType /\ b.prompt \in PromptType
  BY DEF BridgeFits, BridgeType
<1>2. /\ p \in PromptType /\ p.number = b.prompt.number /\ p.window = b.prompt.window
      /\ p.goal = b.prompt.goal /\ p.rest = b.prompt.rest /\ p.late = b.prompt.late
  BY <1>1 DEF PromptType
<1>3. p # NoPrompt => b.prompt # NoPrompt
  <2>1. NoPrompt.delegated = FALSE
    BY DEF NoPrompt
  <2>2. [NoPrompt EXCEPT !.delegated = NoPrompt.delegated] = NoPrompt
    BY NothingUp DEF PromptType
  <2>3. b.prompt = NoPrompt => ~delegated
    OBVIOUS
  <2>4. b.prompt = NoPrompt => delegated = FALSE
    BY <2>3
  <2> QED
    BY <2>1, <2>2, <2>4, Zenon
<1> HIDE DEF p
<1>4. /\ d \in BridgeType /\ d.prompt = p /\ d.agreed = b.agreed /\ d.replies = b.replies
      /\ d.waiter = b.waiter
  BY <1>1, <1>2 DEF BridgeType
<1> HIDE DEF d
<1>5. BridgeFits(d)
  <2>1. Root(p) = Root(b.prompt) /\ Ahead(p) = Ahead(b.prompt)
    BY <1>2 DEF Root, Ahead
  <2>2. LateFits(d)
    BY <1>2, <1>4, <2>1 DEF BridgeFits, LateFits
  <2> QED
    BY <1>2, <1>3, <1>4, <2>2 DEF BridgeFits, WaiterFits, ReplyFits
<1> QED
  BY <1>4, <1>5 DEF d, p

\* A question ends: its window goes only with a content that was given up.
LEMMA FinishesFit ==
    ASSUME ShellInv, NEW allow \in BOOLEAN, NEW b, BridgeFits(b), FinishClose(allow, b),
           b.prompt # NoPrompt, allow => b.prompt.window \in b.agreed,
           UNCHANGED <<unsaved, handed, opening>>
    PROVE  ShellInv'
<1> DEFINE done == [b EXCEPT !.prompt = NoPrompt]
<1>1. BridgeFits(done) /\ done.agreed = b.agreed
  <2>1. prompts \in Nat
    BY DEF ShellInv, CountsFit
  <2> QED
    BY <2>1, NothingUpFits
<1>2. b.prompt \in PromptType /\ b.prompt.window \in Windows /\ LateFits(b)
  BY DEF BridgeFits, BridgeType
<1>3. b.prompt.rest \in Seq(Windows) /\ b.prompt.late \in SUBSET Dialog
  BY <1>2 DEF PromptType
<1>4. CASE allow /\ b.prompt.rest # <<>>
  <2>1. Proceed(b.prompt.rest, b.prompt.goal, b.prompt.late, done)
    BY <1>4 DEF FinishClose
  <2>2. b.prompt.goal \in {"none", "close", "retry"}
    BY <1>2 DEF PromptType
  <2> HIDE DEF done
  <2>3. b.prompt.goal = "close" /\ Last(b.prompt.rest) = "main" =>
           \A d \in open \cap Dialog \cap unsaved :
               d \in done.agreed \cup b.prompt.late
                       \cup {b.prompt.rest[j] : j \in DOMAIN b.prompt.rest}
    BY <1>1, <1>2, <1>4 DEF LateFits, Root, Ahead
  <2> QED
    BY <1>1, <1>3, <1>4, <2>1, <2>2, <2>3, ProceedsFit
<1>5. CASE allow /\ b.prompt.rest = <<>>
  <2>1. Reached(b.prompt.goal, b.prompt.window, b.prompt.late, done) /\ UNCHANGED prompts
    BY <1>5 DEF FinishClose
  <2> HIDE DEF done
  <2>2. Ahead(b.prompt) = {b.prompt.window} /\ Root(b.prompt) = b.prompt.window
    BY <1>5 DEF Ahead, Root
  <2>3. Going(b.prompt.goal, b.prompt.window) \cap unsaved \cap open
           \subseteq done.agreed \cup b.prompt.late
    BY <1>1, <1>2, <1>5, <2>2 DEF LateFits, Going, Children
  <2> QED
    BY <1>1, <1>2, <2>1, <2>3, ReachesFit
<1>6. CASE ~allow
  <2>1. /\ prompt' = NoPrompt /\ agreed' = {} /\ waiter' = b.waiter /\ replies' = b.replies
        /\ UNCHANGED <<open, prompts, closing, lost, results, asking>>
    BY <1>6 DEF FinishClose
  <2>2. BridgeFits(Bridge)'
    BY <2>1, NobodyIsAsked
  <2>3. CountsFit'
    BY <2>1 DEF ShellInv, CountsFit, Windows
  <2> QED
    BY <2>1, <2>2, <2>3, OnlyBridge
<1> QED
  BY <1>4, <1>5, <1>6

\* A handed question is answered, or nobody waits for it any longer.
LEMMA ResolvesFit ==
    ASSUME ShellInv, NEW n \in Nat \ {0}, NEW allow \in BOOLEAN, NEW b, BridgeFits(b),
           b.prompt = prompt, b.agreed = agreed, Resolved(n, allow, b),
           allow /\ prompt.number = n => prompt.window \in agreed,
           UNCHANGED <<unsaved, handed, opening>>
    PROVE  ShellInv'
<1>1. CASE StillUp(n) /\ allow
  <2>1. FinishClose(TRUE, b)
    BY <1>1 DEF Resolved
  <2> QED
    BY <1>1, <2>1, FinishesFit DEF StillUp
<1>2. CASE ~(StillUp(n) /\ allow)
  <2>1. /\ prompt' = IF StillUp(n) THEN [prompt EXCEPT !.delegated = FALSE] ELSE prompt
        /\ waiter' = b.waiter /\ replies' = b.replies
        /\ UNCHANGED <<open, prompts, closing, agreed, lost, results, asking>>
    BY <1>2 DEF Resolved
  <2> DEFINE d == [b EXCEPT !.prompt = [b.prompt EXCEPT !.delegated = FALSE]]
  <2>2. /\ BridgeFits(d) /\ d.prompt = [prompt EXCEPT !.delegated = FALSE]
        /\ d.waiter = b.waiter /\ d.replies = b.replies /\ d.agreed = agreed
    BY HandingFits
  <2> HIDE DEF d
  <2>3. BridgeFits(Bridge)'
    BY <2>1, <2>2, BridgeIs
  <2>4. CountsFit'
    BY <2>1 DEF ShellInv, CountsFit, Windows
  <2> QED
    BY <2>1, <2>3, <2>4, OnlyBridge
<1> QED
  BY <1>1, <1>2

\* A finite set in some order.
LEMMA SetInOrder ==
    ASSUME NEW S, IsFiniteSet(S)
    PROVE  SetToSeq(S) \in Seq(S) /\ \A x \in S : \E j \in DOMAIN SetToSeq(S) : SetToSeq(S)[j] = x
<1> DEFINE n == Cardinality(S)
<1>1. n \in Nat /\ Bijection(1..n, S) # {}
  BY FS_CardinalityType DEF ExistsBijection
<1> HIDE DEF n
<1>2. PICK f : f \in Bijection(1..n, S)
  BY <1>1
<1>3. f \in [1..n -> S] /\ IsInjective(f)
  BY <1>2 DEF Bijection, Injection
<1>4. (CHOOSE g \in [1..n -> S] : IsInjective(g)) \in [1..n -> S]
  BY <1>3
<1>5. SetToSeq(S) \in [1..n -> S]
  BY <1>4 DEF SetToSeq, n
<1>6. IsInjective(CHOOSE g \in [1..n -> S] : IsInjective(g))
  BY <1>3
<1>7. IsInjective(SetToSeq(S))
  BY <1>6 DEF SetToSeq, n
<1> DEFINE q == SetToSeq(S)
<1> HIDE DEF q
\* Were one left out, two places would hold the same one.
<1>8. ASSUME NEW x \in S, \A j \in 1..n : q[j] # x PROVE FALSE
  <2>1. q \in [1..n -> S \ {x}]
    BY <1>5, <1>8 DEF q
  <2>2. IsFiniteSet(S \ {x}) /\ Cardinality(S \ {x}) = n - 1
    BY FS_RemoveElement DEF n
  <2>3. IsFiniteSet(1..n) /\ Cardinality(1..n) = n
    BY <1>1, FS_Interval
  <2>4. \E i, j \in 1..n : i # j /\ q[i] = q[j]
    BY <1>1, <2>1, <2>2, <2>3, FS_PigeonHole
  <2> QED
    BY <1>5, <1>7, <2>4 DEF IsInjective, q
<1> QED
  BY <1>1, <1>5, <1>8 DEF q

LEMMA CloseFits ==
    ASSUME ShellInv, NEW w \in Windows, CloseWindow(w)
    PROVE  ShellInv'
<1>1. UNCHANGED <<unsaved, handed, opening>>
  BY DEF CloseWindow
<1>2. CASE prompt.window = w
  <2>1. /\ prompt' = [prompt EXCEPT !.delegated = FALSE]
        /\ UNCHANGED <<open, prompts, waiter, closing, replies, agreed, lost, results, asking>>
    BY <1>2 DEF CloseWindow
  <2> DEFINE d == [Bridge EXCEPT !.prompt = [Bridge.prompt EXCEPT !.delegated = FALSE]]
  <2>2. /\ BridgeFits(d) /\ d.prompt = [prompt EXCEPT !.delegated = FALSE]
        /\ d.waiter = waiter /\ d.replies = replies /\ d.agreed = agreed
    <3>1. /\ BridgeFits(Bridge) /\ Bridge.prompt = prompt /\ Bridge.agreed = agreed
          /\ Bridge.waiter = waiter /\ Bridge.replies = replies /\ FALSE \in BOOLEAN
      BY TheBridge DEF ShellInv
    <3> QED
      BY <3>1, HandingFits
  <2> HIDE DEF d
  <2>3. BridgeFits(Bridge)'
    BY <1>1, <2>1, <2>2, BridgeIs
  <2>4. CountsFit'
    BY <1>1, <2>1 DEF ShellInv, CountsFit, Windows
  <2> QED
    BY <1>1, <2>1, <2>3, <2>4, OnlyBridge
<1>3. CASE prompt.window # w
  <2> DEFINE queue == Append(SetToSeq(Children(w)), w)
  <2>1. Proceed(queue, "close", {}, Bridge)
    BY <1>3 DEF CloseWindow, Family
  <2>2. Children(w) \subseteq Windows /\ IsFiniteSet(Children(w))
    <3>1. Children(w) \subseteq Dialog
      BY DEF Children
    <3>2. IsFiniteSet(Children(w))
      BY <3>1, ShellAssumption, FS_Subset
    <3> QED
      BY <3>1, <3>2 DEF Windows
  <2>3. /\ SetToSeq(Children(w)) \in Seq(Children(w))
        /\ \A d \in Children(w) : \E j \in DOMAIN SetToSeq(Children(w)) : SetToSeq(Children(w))[j] = d
    BY <2>2, SetInOrder
  <2>4. SetToSeq(Children(w)) \in Seq(Windows)
    <3> DEFINE q == SetToSeq(Children(w))
    <3>1. q \in Seq(Children(w)) /\ Children(w) \subseteq Windows
      BY <2>2, <2>3
    <3> HIDE DEF q
    <3>2. Len(q) \in Nat /\ q \in [1..Len(q) -> Children(w)]
      BY <3>1
    <3>3. q \in [1..Len(q) -> Windows]
      BY <3>1, <3>2
    <3>4. q \in Seq(Windows)
      BY <3>2, <3>3
    <3> QED
      BY <3>4 DEF q
  <2>5. queue \in Seq(Windows) /\ queue # <<>>
    BY <2>4, AppendProperties
  <2>7. Last(queue) = w /\ \A d \in Children(w) : \E j \in DOMAIN queue : queue[j] = d
    <3> DEFINE q == SetToSeq(Children(w))
    <3>1. q \in Seq(Windows) /\ \A d \in Children(w) : \E j \in DOMAIN q : q[j] = d
      BY <2>3, <2>4
    <3> HIDE DEF q
    <3>2. /\ Last(Append(q, w)) = w
          /\ \A d \in Children(w) : \E j \in DOMAIN Append(q, w) : Append(q, w)[j] = d
      <4>1. /\ Len(Append(q, w)) = Len(q) + 1 /\ Append(q, w)[Len(q) + 1] = w
            /\ DOMAIN Append(q, w) = DOMAIN q \cup {Len(q) + 1}
            /\ \A j \in DOMAIN q : Append(q, w)[j] = q[j]
        BY <3>1, OneEntryMore
      <4> QED
        BY <3>1, <4>1 DEF Last
    <3> QED
      BY <3>2 DEF q
  <2>8. "close" = "close" /\ Last(queue) = "main" =>
           \A d \in open \cap Dialog \cap unsaved :
               d \in Bridge.agreed \cup {} \cup {queue[j] : j \in DOMAIN queue}
    <3>1. w = "main" => Children(w) = open \cap Dialog
      BY DEF Children
    <3> HIDE DEF queue
    <3> QED
      BY <2>7, <3>1
  <2> HIDE DEF queue
  <2>6. BridgeFits(Bridge)
    BY DEF ShellInv
  <2>9. {} \in SUBSET Dialog
    OBVIOUS
  <2> QED
    BY <1>1, <2>1, <2>5, <2>6, <2>8, <2>9, ProceedsFit
<1> QED
  BY <1>2, <1>3

LEMMA AnswerFits ==
    ASSUME ShellInv, NEW allow \in BOOLEAN, AnswerPrompt(allow)
    PROVE  ShellInv'
<1> DEFINE b == [Bridge EXCEPT !.agreed = IF allow THEN @ \cup {prompt.window} ELSE @]
<1>1. prompt # NoPrompt /\ FinishClose(allow, b) /\ UNCHANGED <<unsaved, handed, opening>>
  BY DEF AnswerPrompt
<1>2. BridgeFits(Bridge) /\ Bridge \in BridgeType /\ prompt.window \in Windows
  BY <1>1, TheBridge DEF ShellInv
<1>3. CASE allow
  <2> DEFINE d == [Bridge EXCEPT !.agreed = @ \cup {prompt.window}]
  <2>1. b = d
    BY <1>3
  <2>2. BridgeFits(d) /\ d.prompt = prompt /\ prompt.window \in d.agreed
    BY <1>2, AgreesFit, TheBridge
  <2> HIDE DEF b, d
  <2> QED
    BY <1>1, <2>1, <2>2, FinishesFit
<1>4. CASE ~allow
  <2>1. b = Bridge
    <3>1. b = [Bridge EXCEPT !.agreed = Bridge.agreed]
      BY <1>4
    <3>2. [Bridge EXCEPT !.agreed = Bridge.agreed] = Bridge
      BY <1>2 DEF BridgeType
    <3> QED
      BY <3>1, <3>2
  <2> HIDE DEF b
  <2> QED
    BY <1>1, <1>2, <1>4, <2>1, TheBridge, FinishesFit
<1> QED
  BY <1>3, <1>4

LEMMA HandOverFits ==
    ASSUME ShellInv, HandOver
    PROVE  ShellInv'
<1> DEFINE w == prompt.window
           n == handed + 1
<1>1. /\ prompt # NoPrompt /\ waiter[w] = NoWaiter
      /\ handed' = n /\ prompt' = [prompt EXCEPT !.delegated = TRUE]
      /\ waiter' = [waiter EXCEPT ![w] = [id |-> n, prompt |-> prompt.number]]
      /\ closing' = [closing EXCEPT ![w] = IF @ = 0 THEN n ELSE @]
      /\ replies' \subseteq replies \cup {[window |-> w, id |-> n, allow |-> FALSE]}
      /\ agreed' = agreed \ {w}
      /\ UNCHANGED <<open, unsaved, asking, opening, results, prompts, lost>>
  BY DEF HandOver, dialogVars
<1>2. CountsFit /\ handed \in Nat /\ prompts \in Nat
  BY DEF ShellInv, CountsFit
<1>3. /\ prompt \in PromptType /\ waiter \in [Windows -> WaiterType]
      /\ agreed \subseteq Windows \cup {"none"} /\ replies \subseteq ReplyType
      /\ prompt.number <= prompts /\ w \in Windows
      /\ \A x \in Windows : WaiterFits(Bridge, x)
      /\ \A r \in replies : ReplyFits(Bridge, r)
      /\ Bridge.prompt = prompt /\ Bridge.waiter = waiter /\ Bridge.agreed = agreed
      /\ LateFits(Bridge)
  BY <1>1, TheBridge
<1>4. /\ prompt' \in PromptType /\ prompt'.number = prompt.number /\ prompt'.window = w
      /\ prompt'.goal = prompt.goal /\ prompt'.rest = prompt.rest /\ prompt'.late = prompt.late
      /\ w = prompt.window /\ prompt.number \in Nat
  BY <1>1, <1>3 DEF PromptType
<1> DEFINE x == [id |-> n, prompt |-> prompt.number]
           a == [window |-> w, id |-> n, allow |-> FALSE]
<1>5. /\ x \in WaiterType /\ x.id = n /\ x.prompt = prompt.number
      /\ a \in ReplyType /\ a.id = n /\ a.window = w /\ a.allow = FALSE
  BY <1>2, <1>3, <1>4 DEF WaiterType, ReplyType
<1>6. /\ waiter' = [waiter EXCEPT ![w] = x] /\ replies' \subseteq replies \cup {a}
  BY <1>1
<1> HIDE DEF w, n, x, a
<1>7. waiter' \in [Windows -> WaiterType]
  BY <1>3, <1>5, <1>6
<1>8. \A y \in Windows : waiter'[y] = IF y = w THEN x ELSE waiter[y]
  BY <1>3, <1>6
\* The question that is up has a number.
<1>9. n \in 1..handed' /\ handed < n
  BY <1>1, <1>2 DEF n
<1>10. prompt.number \in 1..prompts
  <2>1. prompt.number # 0
    BY <1>1, TheBridge
  <2> QED
    BY <1>3, <1>4, <2>1
<1>11. \A y \in Windows : waiter'[y] # NoWaiter =>
          /\ waiter'[y].id \in 1..handed' /\ waiter'[y].prompt \in 1..prompts'
          /\ waiter'[y].prompt = prompt'.number => prompt'.window = y
  <2> SUFFICES ASSUME NEW y \in Windows, waiter'[y] # NoWaiter
               PROVE  /\ waiter'[y].id \in 1..handed' /\ waiter'[y].prompt \in 1..prompts'
                      /\ waiter'[y].prompt = prompt'.number => prompt'.window = y
    OBVIOUS
  <2>1. CASE y = w
    BY <1>1, <1>4, <1>5, <1>8, <1>9, <1>10, <2>1
  <2>2. CASE y # w
    <3>1. waiter'[y] = waiter[y]
      BY <1>8, <2>2
    <3> QED
      BY <1>1, <1>2, <1>3, <1>4, <1>9, <3>1 DEF WaiterFits
  <2> QED
    BY <2>1, <2>2
<1>12. \A r \in replies' :
          /\ r \in ReplyType /\ r.id \in 1..handed'
          /\ r.allow /\ r.id = waiter'[r.window].id
                /\ waiter'[r.window].prompt = prompt'.number => r.window \in agreed'
  <2> SUFFICES ASSUME NEW r \in replies'
               PROVE  /\ r \in ReplyType /\ r.id \in 1..handed'
                      /\ r.allow /\ r.id = waiter'[r.window].id
                            /\ waiter'[r.window].prompt = prompt'.number => r.window \in agreed'
    OBVIOUS
  <2>1. CASE r = a
    BY <1>5, <1>9, <2>1
  <2>2. CASE r \in replies
    <3>1. r \in ReplyType /\ r.window \in Windows /\ r.id \in 1..handed /\ r.id # n
      BY <1>2, <1>3, <1>9, <2>2 DEF ReplyFits, ReplyType
    <3>2. CASE r.window = w
      <4>1. waiter'[r.window].id = n
        BY <1>5, <1>8, <3>1, <3>2
      <4> QED
        BY <1>1, <1>2, <1>9, <3>1, <4>1 DEF n
    <3>3. CASE r.window # w
      <4>1. waiter'[r.window] = waiter[r.window]
        BY <1>8, <3>1, <3>3
      <4> QED
        BY <1>1, <1>2, <1>3, <1>4, <1>9, <2>2, <3>1, <4>1 DEF ReplyFits
    <3> QED
      BY <3>2, <3>3
  <2> QED
    BY <1>6, <2>1, <2>2
<1>13. BridgeFits(Bridge)'
  <2>1. /\ replies' \subseteq ReplyType /\ agreed' \subseteq Windows \cup {"none"}
        /\ prompt'.number <= prompts' /\ prompt'.window \in Windows /\ prompt'.number # 0
    BY <1>1, <1>3, <1>4, <1>10, <1>12
  <2>2. LateFits(Bridge)'
    <3>1. Bridge'.prompt = prompt' /\ Bridge'.agreed = agreed \ {w}
      BY <1>1 DEF Bridge
    <3>2. Root(prompt') = Root(prompt) /\ Ahead(prompt') = Ahead(prompt) /\ w \in Ahead(prompt)
      BY <1>4 DEF Root, Ahead
    <3> QED
      BY <1>1, <1>3, <1>4, <3>1, <3>2 DEF LateFits
  <2> QED
    BY <1>4, <1>7, <1>11, <1>12, <2>1, <2>2, NextBridge
<1>14. CountsFit'
  <2>1. \A y \in Windows : closing[y] <= handed'
    BY <1>1, <1>2 DEF CountsFit, n
  <2>2. closing' = [closing EXCEPT ![w] = IF closing[w] = 0 THEN n ELSE closing[w]]
    BY <1>1 DEF w, n
  <2> QED
    BY <1>1, <1>2, <1>3, <1>9, <2>1, <2>2 DEF CountsFit, Windows
<1> QED
  BY <1>1, <1>13, <1>14, OnlyBridge

LEMMA DecisionFits ==
    ASSUME ShellInv, NEW w \in Windows, NEW allow \in BOOLEAN, PageDecides(w, allow)
    PROVE  ShellInv'
<1> DEFINE a == [window |-> w, id |-> closing[w], allow |-> allow]
<1>1. /\ closing[w] # 0 /\ closing' = [closing EXCEPT ![w] = 0]
      /\ replies' = replies \cup {a}
      /\ agreed' = IF allow THEN agreed \cup {w} ELSE agreed
      /\ UNCHANGED <<open, unsaved, asking, opening, results, prompt, prompts, waiter, handed, lost>>
  BY DEF PageDecides, dialogVars
<1>2. CountsFit /\ handed \in Nat /\ prompts \in Nat /\ closing[w] \in 1..handed
  BY <1>1 DEF ShellInv, CountsFit
<1>3. a \in ReplyType /\ a.id \in 1..handed /\ a.window = w /\ a.allow = allow
  BY <1>2 DEF ReplyType
<1> HIDE DEF a
<1>4. /\ prompt \in PromptType /\ waiter \in [Windows -> WaiterType]
      /\ agreed \subseteq Windows \cup {"none"} /\ replies \subseteq ReplyType
      /\ prompt.number <= prompts
      /\ (prompt # NoPrompt => prompt.window \in Windows /\ prompt.number # 0)
      /\ \A x \in Windows : WaiterFits(Bridge, x)
      /\ \A r \in replies : ReplyFits(Bridge, r)
      /\ Bridge.prompt = prompt /\ Bridge.waiter = waiter /\ Bridge.agreed = agreed
      /\ LateFits(Bridge)
  BY TheBridge
<1>5. \A r \in replies' :
          /\ r \in ReplyType /\ r.id \in 1..handed'
          /\ r.allow /\ r.id = waiter'[r.window].id
                /\ waiter'[r.window].prompt = prompt'.number => r.window \in agreed'
  <2>1. agreed \subseteq agreed' /\ (allow => w \in agreed')
    BY <1>1
  <2> QED
    BY <1>1, <1>3, <1>4, <2>1 DEF ReplyFits
<1>6. BridgeFits(Bridge)'
  <2>1. /\ replies' \subseteq ReplyType /\ agreed' \subseteq Windows \cup {"none"}
        /\ prompt'.number <= prompts'
        /\ (prompt' # NoPrompt => prompt'.window \in Windows /\ prompt'.number # 0)
        /\ prompt' \in PromptType /\ waiter' \in [Windows -> WaiterType]
    BY <1>1, <1>4, <1>5
  <2>2. \A x \in Windows : waiter'[x] # NoWaiter =>
          /\ waiter'[x].id \in 1..handed' /\ waiter'[x].prompt \in 1..prompts'
          /\ waiter'[x].prompt = prompt'.number => prompt'.window = x
    BY <1>1, <1>4 DEF WaiterFits
  <2>3. LateFits(Bridge)'
    <3>1. Bridge'.prompt = prompt /\ Bridge'.agreed = agreed' /\ agreed \subseteq agreed'
      BY <1>1 DEF Bridge
    <3> QED
      BY <1>1, <1>4, <3>1 DEF LateFits
  <2> QED
    BY <1>5, <2>1, <2>2, <2>3, NextBridge
<1>7. CountsFit'
  BY <1>1, <1>2 DEF CountsFit, Windows
<1> QED
  BY <1>1, <1>6, <1>7, OnlyBridge

LEMMA CloseResultFits ==
    ASSUME ShellInv, NEW r \in replies, CloseResult(r)
    PROVE  ShellInv'
<1> DEFINE S == Bridge.replies \ {r}
           left == [Bridge EXCEPT !.replies = S]
           d == [left EXCEPT !.waiter[r.window] = NoWaiter]
<1>1. /\ IF waiter[r.window].id = r.id
         THEN Resolved(waiter[r.window].prompt, r.allow, d)
         ELSE /\ replies' = left.replies
              /\ UNCHANGED <<open, prompt, prompts, waiter, closing, agreed, lost, results, asking>>
      /\ UNCHANGED <<unsaved, handed, opening>>
  BY DEF CloseResult
<1>2. /\ BridgeFits(Bridge) /\ r \in ReplyType /\ ReplyFits(Bridge, r)
      /\ Bridge.prompt = prompt /\ Bridge.agreed = agreed /\ Bridge.waiter = waiter
      /\ waiter \in [Windows -> WaiterType]
      /\ \A w \in Windows : WaiterFits(Bridge, w)
  BY TheBridge DEF ShellInv
<1>3. r.window \in Windows /\ r.id \in Nat \ {0} /\ r.allow \in BOOLEAN
  BY <1>2 DEF ReplyType, ReplyFits
<1>4. /\ BridgeFits(left) /\ left.prompt = prompt /\ left.agreed = agreed
      /\ left.waiter = waiter
  <2>1. S \subseteq Bridge.replies
    OBVIOUS
  <2> HIDE DEF S
  <2> QED
    BY <1>2, <2>1, BridgeGrows
<1> HIDE DEF left
<1>5. BridgeFits(d) /\ d.prompt = prompt /\ d.agreed = agreed
  BY <1>3, <1>4, TakenFits
<1> HIDE DEF d
<1>6. CASE waiter[r.window].id = r.id
  <2> DEFINE n == waiter[r.window].prompt
  <2>1. waiter[r.window] # NoWaiter
    BY <1>3, <1>6, NothingUp
  <2>2. n \in Nat \ {0} /\ (n = prompt.number => prompt.window = r.window)
    <3>1. WaiterFits(Bridge, r.window) /\ waiter[r.window] \in WaiterType
      BY <1>2, <1>3
    <3> QED
      BY <1>2, <2>1, <3>1 DEF WaiterFits, WaiterType
  <2>3. r.allow /\ prompt.number = n => prompt.window \in agreed
    BY <1>2, <1>6, <2>2 DEF ReplyFits
  <2>4. Resolved(n, r.allow, d)
    BY <1>1, <1>6
  <2> HIDE DEF n
  <2> QED
    BY <1>1, <1>3, <1>5, <2>2, <2>3, <2>4, ResolvesFit
<1>7. CASE waiter[r.window].id # r.id
  <2>1. /\ replies' = left.replies
        /\ UNCHANGED <<open, prompt, prompts, waiter, closing, agreed, lost, results, asking>>
    BY <1>1, <1>7
  <2>2. BridgeFits(Bridge)'
    BY <1>1, <1>4, <2>1, BridgeIs
  <2>3. CountsFit'
    BY <1>1, <2>1 DEF ShellInv, CountsFit, Windows
  <2> QED
    BY <1>1, <2>1, <2>2, <2>3, OnlyBridge
<1> QED
  BY <1>6, <1>7

LEMMA TimeoutFits ==
    ASSUME ShellInv, NEW w \in Windows, CloseTimeout(w)
    PROVE  ShellInv'
<1> DEFINE d == [Bridge EXCEPT !.waiter[w] = NoWaiter]
           n == waiter[w].prompt
<1>1. waiter[w] # NoWaiter /\ Resolved(n, FALSE, d) /\ UNCHANGED <<unsaved, handed, opening>>
  BY DEF CloseTimeout
<1>2. /\ BridgeFits(Bridge) /\ Bridge.prompt = prompt /\ Bridge.agreed = agreed
      /\ Bridge.waiter = waiter /\ waiter \in [Windows -> WaiterType]
      /\ WaiterFits(Bridge, w)
  BY TheBridge DEF ShellInv
<1>3. BridgeFits(d) /\ d.prompt = prompt /\ d.agreed = agreed
  BY <1>2, TakenFits
<1>4. n \in Nat \ {0}
  <2>1. waiter[w] \in WaiterType
    BY <1>2
  <2> QED
    BY <1>1, <1>2, <2>1 DEF WaiterFits, WaiterType
<1> HIDE DEF d, n
<1> QED
  BY <1>1, <1>3, <1>4, ResolvesFit

\* Dialogs are asked for, opened and answered; the bridge stays as it is.
LEMMA DialogsFit ==
    ASSUME ShellInv, open' \subseteq Windows, asking' \in [Dialog -> Asks],
           DialogsAnswered', NoOrphans', open' \cap unsaved' \subseteq open \cap unsaved,
           UNCHANGED <<prompt, prompts, waiter, handed, closing, replies, agreed, lost>>
    PROVE  ShellInv'
<1>1. BridgeFits(Bridge)'
  <2>1. BridgeFits(Bridge)
    BY DEF ShellInv
  <2> QED
    BY <2>1, TheBridge, BridgeIs
<1>2. CountsFit'
  BY DEF ShellInv, CountsFit, Windows
<1> QED
  BY <1>1, <1>2 DEF ShellInv, WindowsHold, NothingLostUnasked, Windows

\* A page has unsaved content, or none any more. Nobody has given up what is new, and no
\* answer of the page is on its way.
LEMMA DirtyFits ==
    ASSUME ShellInv, NEW w \in Windows, DirtyChange(w)
    PROVE  ShellInv'
<1>1. /\ \A r \in replies : r.window # w
      /\ UNCHANGED <<open, asking, opening, results, prompts, waiter, handed, closing, replies, lost>>
  BY DEF DirtyChange, dialogVars, handVars
<1>2. DialogsAnswered' /\ NoOrphans' /\ open' \subseteq Windows /\ asking' \in [Dialog -> Asks]
  BY <1>1 DEF ShellInv, WindowsHold, DialogsAnswered, NoOrphans
<1>3. CASE unsaved' = unsaved \ {w} /\ UNCHANGED <<agreed, prompt>>
  BY <1>1, <1>2, <1>3, DialogsFit
<1>4. CASE /\ unsaved' = unsaved \cup {w} /\ agreed' = agreed \ {w}
           /\ prompt' = IF prompt = NoPrompt \/ w \notin Dialog \ Ahead(prompt) THEN prompt
                        ELSE [prompt EXCEPT !.late = @ \cup {w}]
  <2>1. /\ prompt \in PromptType /\ waiter \in [Windows -> WaiterType]
        /\ agreed \subseteq Windows \cup {"none"} /\ replies \subseteq ReplyType
        /\ prompt.number <= prompts
        /\ (prompt # NoPrompt => prompt.window \in Windows /\ prompt.number # 0)
        /\ \A x \in Windows : WaiterFits(Bridge, x)
        /\ \A r \in replies : ReplyFits(Bridge, r)
        /\ Bridge.prompt = prompt /\ Bridge.waiter = waiter /\ Bridge.agreed = agreed
        /\ LateFits(Bridge)
    BY TheBridge
  <2>2. /\ prompt' \in PromptType /\ prompt'.number = prompt.number /\ prompt'.rest = prompt.rest
        /\ prompt'.window = prompt.window /\ prompt'.goal = prompt.goal
        /\ prompt.late \subseteq prompt'.late
        /\ prompt = NoPrompt => prompt' = NoPrompt
        /\ prompt # NoPrompt /\ w \in Dialog => w \in prompt'.late \cup Ahead(prompt)
    BY <1>4, <2>1 DEF PromptType
  <2>3. \A x \in Windows : waiter'[x] # NoWaiter =>
          /\ waiter'[x].id \in 1..handed' /\ waiter'[x].prompt \in 1..prompts'
          /\ waiter'[x].prompt = prompt'.number => prompt'.window = x
    BY <1>1, <2>1, <2>2 DEF WaiterFits
  <2>4. \A r \in replies' :
          /\ r.id \in 1..handed'
          /\ r.allow /\ r.id = waiter'[r.window].id
                /\ waiter'[r.window].prompt = prompt'.number => r.window \in agreed'
    BY <1>1, <1>4, <2>1, <2>2 DEF ReplyFits
  <2>5. LateFits(Bridge)'
    <3>1. Bridge'.prompt = prompt' /\ Bridge'.agreed = agreed \ {w}
      BY <1>4 DEF Bridge
    <3>2. Root(prompt') = Root(prompt) /\ Ahead(prompt') = Ahead(prompt)
      BY <2>2 DEF Root, Ahead
    <3>3. prompt.goal = "close" => prompt # NoPrompt
      BY NothingUp
    <3> QED
      BY <1>1, <1>4, <2>1, <2>2, <3>1, <3>2, <3>3 DEF LateFits
  <2>6. BridgeFits(Bridge)'
    <3>1. /\ agreed' \subseteq Windows \cup {"none"} /\ prompt'.number <= prompts'
          /\ (prompt' # NoPrompt => prompt'.window \in Windows /\ prompt'.number # 0)
          /\ waiter' \in [Windows -> WaiterType] /\ replies' \subseteq ReplyType
      BY <1>1, <1>4, <2>1, <2>2
    <3> QED
      BY <2>2, <2>3, <2>4, <2>5, <3>1, NextBridge
  <2>7. CountsFit'
    BY <1>1 DEF ShellInv, CountsFit, Windows
  <2> QED
    BY <1>1, <2>6, <2>7, OnlyBridge
<1> QED
  BY <1>3, <1>4 DEF DirtyChange

LEMMA ShellStep ==
    ASSUME ShellInv, [ShellNext]_shellVars
    PROVE  ShellInv'
<1>1. /\ BridgeFits(Bridge) /\ Bridge.agreed = agreed /\ Bridge.prompt = prompt
      /\ Bridge.waiter = waiter /\ Bridge.replies = replies
  BY TheBridge DEF ShellInv
<1>2. /\ open \subseteq Windows /\ asking \in [Dialog -> Asks] /\ lost = {}
      /\ DialogsAnswered /\ NoOrphans
  BY DEF ShellInv, WindowsHold, NothingLostUnasked
<1>3. ASSUME NEW w \in Windows, RetryWindow(w) PROVE ShellInv'
  <2>1. /\ Proceed(<<w>>, "retry", {}, Bridge) /\ UNCHANGED <<unsaved, handed, opening>>
        /\ {} \in SUBSET Dialog /\ "retry" # "close"
        /\ <<w>> \in Seq(Windows) /\ <<w>> # <<>>
    BY <1>3 DEF RetryWindow
  <2> QED
    BY <1>1, <2>1, ProceedsFit
<1>4. ASSUME NEW w \in Windows, ForceClose(w) PROVE ShellInv'
  BY <1>1, <1>4, RemovesFit DEF ForceClose
<1>5. ASSUME NEW w \in Windows, Withdraw(w) PROVE ShellInv'
  BY <1>1, <1>5, RemovesFit DEF Withdraw
<1>13. ASSUME NEW w \in Windows, EntryMoves(w) PROVE ShellInv'
  <2>1. {w} \cup Children(w) \in SUBSET Windows
    BY DEF Children, Windows
  <2> QED
    BY <1>1, <1>13, <2>1, ReloadsFit DEF EntryMoves
<1>6. ASSUME NEW r \in Dialog, DialogDone(r) PROVE ShellInv'
  <2>1. r \in Windows
    BY DEF Windows
  <2> QED
    BY <1>1, <1>6, <2>1, RemovesFit DEF DialogDone
<1>7. ASSUME NobodyToHandTo PROVE ShellInv'
  <2>1. /\ prompt' = NoPrompt /\ agreed' = {}
        /\ UNCHANGED <<open, asking, opening, results, prompts, waiter, handed, closing, replies,
                       lost>>
    BY <1>7 DEF NobodyToHandTo, dialogVars, handVars
  <2>2. BridgeFits(Bridge)'
    BY <1>1, <2>1, NobodyIsAsked
  <2>3. CountsFit'
    BY <2>1 DEF ShellInv, CountsFit, Windows
  <2> QED
    BY <2>1, <2>2, <2>3, OnlyBridge
<1>8. ASSUME NEW w \in Windows, PageReady(w) PROVE ShellInv'
  <2>1. /\ unsaved' = unsaved \ {w}
        /\ UNCHANGED <<open, asking, opening, results, prompt, prompts, waiter, handed, closing,
                       replies, agreed, lost>>
    BY <1>8 DEF PageReady, dialogVars, handVars
  <2>2. DialogsAnswered' /\ NoOrphans'
    BY <1>2, <2>1 DEF DialogsAnswered, NoOrphans
  <2> QED
    BY <1>2, <2>1, <2>2, DialogsFit
<1>9. ASSUME NEW r \in Dialog, OpenDialog(r) PROVE ShellInv'
  <2>1. /\ asking' = [asking EXCEPT ![r] = "waiting"] /\ opening' = opening \cup {r}
        /\ UNCHANGED <<open, unsaved, results, prompt, prompts, waiter, handed, closing, replies,
                       agreed, lost>>
    BY <1>9 DEF OpenDialog, handVars
  <2>2. asking' \in [Dialog -> Asks]
    BY <1>2, <2>1 DEF Asks
  <2>3. DialogsAnswered' /\ NoOrphans'
    BY <1>2, <2>1 DEF DialogsAnswered, NoOrphans
  <2> QED
    BY <1>2, <2>1, <2>2, <2>3, DialogsFit
<1>10. ASSUME NEW r \in Dialog, ReceiveOpen(r) PROVE ShellInv'
  <2>1. /\ opening' = opening \ {r}
        /\ \/ /\ "main" \in open /\ open' = open \cup {r} /\ results' = results
              /\ unsaved' = unsaved \ {r}
           \/ /\ "main" \in open /\ results' = results \cup {r} /\ open' = open
              /\ unsaved' = unsaved
           \/ "main" \notin open /\ UNCHANGED <<open, unsaved, results>>
        /\ UNCHANGED <<asking, prompt, prompts, waiter, handed, closing, replies, agreed, lost>>
    BY <1>10 DEF ReceiveOpen, DialogRefused, handVars
  <2>2. DialogsAnswered' /\ NoOrphans' /\ open' \subseteq Windows
    BY <1>2, <2>1 DEF DialogsAnswered, NoOrphans, Windows
  <2> QED
    BY <1>2, <2>1, <2>2, DialogsFit
<1>11. ASSUME NEW r \in Dialog, DialogResult(r) PROVE ShellInv'
  <2>1. /\ results' = results \ {r}
        /\ asking' = [asking EXCEPT ![r] = IF asking[r] = "waiting" THEN "answered"
                                           ELSE asking[r]]
        /\ UNCHANGED <<open, unsaved, opening, prompt, prompts, waiter, handed, closing, replies,
                       agreed, lost>>
    BY <1>11 DEF DialogResult, handVars
  <2>2. asking' \in [Dialog -> Asks]
    BY <1>2, <2>1 DEF Asks
  <2>3. DialogsAnswered' /\ NoOrphans'
    BY <1>2, <2>1 DEF DialogsAnswered, NoOrphans
  <2> QED
    BY <1>2, <2>1, <2>2, <2>3, DialogsFit
<1>12. ASSUME UNCHANGED shellVars PROVE ShellInv'
  <2>1. UNCHANGED <<open, unsaved, asking, opening, results, prompt, prompts, waiter, handed,
                    closing, replies, agreed, lost>>
    BY <1>12 DEF shellVars
  <2>2. DialogsAnswered' /\ NoOrphans'
    BY <1>2, <2>1 DEF DialogsAnswered, NoOrphans
  <2> QED
    BY <1>2, <2>1, <2>2, DialogsFit
<1> QED
  BY <1>3, <1>4, <1>5, <1>6, <1>7, <1>8, <1>9, <1>10, <1>11, <1>12, <1>13, CloseFits, AnswerFits,
     HandOverFits, DecisionFits, CloseResultFits, TimeoutFits, DirtyFits DEF ShellNext

-----------------------------------------------------------------------------
\* DesktopHolds: the tabs of a browser share its cookies and never each other's user,
\* code or token; the preferences of an account are its own, are stored when they are
\* not marked as pending, and are not replaced by a late reading; and what is asked about
\* goes only with the word of its user or application, a dialog only with its window.
THEOREM DesktopStands == DesktopSpec => DesktopHolds
<1>1. SessionInit => SessionInv
  <2> SUFFICES ASSUME SessionInit PROVE SessionInv
    OBVIOUS
  <2>1. /\ browser = [flow |-> None, token |-> None]
        /\ tabs = [t \in Tab |-> [started |-> None, user |-> Nobody, csrf |-> None]]
        /\ pending = [t \in Tab |-> NothingAsked]
        /\ sessions = <<>> /\ live = {} /\ renewal = [k \in Token |-> None]
        /\ signIns = 0 /\ misspent = FALSE /\ acted = {}
    BY DEF SessionInit, Token
  <2>2. [started |-> None, user |-> Nobody, csrf |-> None] \in TabType
    BY NothingIsAsked DEF TabType
  <2>3. SessionTypes
    <3>1. sessions \in Seq(User \cup {Nobody}) /\ Len(sessions) = 0
      BY <2>1
    <3>2. Len(sessions) <= MaxSessions
      BY <3>1, SessionAssumption
    <3>3. browser \in [flow : Nat, token : Token]
      BY <2>1, NothingIsAsked
    <3> QED
      BY <2>1, <2>2, <3>1, <3>2, <3>3, NothingIsAsked DEF SessionTypes
  <2>4. \A t \in Tab : Shown(tabs[t]) /\ ChangeFits(pending[t], tabs[t])
    BY <2>1, NothingIsAsked DEF Shown, ChangeFits
  <2>5. ActsAsShown /\ NoCodeMisspent /\ \A k \in Token : renewal[k] \in {None, k}
    BY <2>1 DEF ActsAsShown, NoCodeMisspent
  <2> QED
    BY <2>3, <2>4, <2>5 DEF SessionInv
<1>2. SessionInv /\ [SessionNext]_sessionVars => SessionInv'
  <2> SUFFICES ASSUME SessionInv, UNCHANGED sessionVars PROVE SessionInv'
    BY SessionStep
  <2>1. UNCHANGED <<browser, tabs, pending, sessions, live, renewal, signIns, misspent, acted>>
    BY DEF sessionVars
  <2>2. SessionTypes'
    BY <2>1 DEF SessionInv, SessionTypes
  <2>3. \A t \in Tab : Shown(tabs[t])' /\ ChangeFits(pending[t], tabs[t])'
    BY <2>1 DEF SessionInv, Shown, ChangeFits
  <2> QED
    BY <2>1, <2>2, <2>3 DEF SessionInv, ActsAsShown, NoCodeMisspent
<1>3. PrefsInit => PrefsInv
  <2> SUFFICES ASSUME PrefsInit PROVE PrefsInv
    OBVIOUS
  <2>1. /\ cookie \in Account
        /\ tab = [account |-> cookie, prefs |-> Preset, pending |-> FALSE, version |-> 0]
        /\ cache = [a \in Account |-> Unset]
        /\ stored = [a \in Account |-> Preset] /\ latest = stored
        /\ put = NoPut /\ get = NoRead
    BY DEF PrefsInit
  <2>2. PrefsTypes
    <3>1. tab \in PageType
      BY <2>1, NothingUnderWay DEF PageType
    <3> QED
      BY <2>1, <3>1, NothingUnderWay DEF PrefsTypes
  <2>3. CacheFits /\ PutFits /\ GetFits
    BY <2>1, NothingUnderWay DEF CacheFits, PutFits, GetFits
  <2>4. OwnPreferencesOnly /\ StoredWhenSettled
    BY <2>1, NothingUnderWay DEF OwnPreferencesOnly, StoredWhenSettled
  <2> QED
    BY <2>2, <2>3, <2>4 DEF PrefsInv
<1>4. PrefsInv /\ [PrefsNext]_prefsVars => PrefsInv'
  <2> SUFFICES ASSUME PrefsInv, UNCHANGED prefsVars PROVE PrefsInv'
    BY PrefsStep
  <2> QED
    BY DEF prefsVars, PrefsInv, PrefsTypes, CacheFits, PutFits, GetFits, OwnPreferencesOnly,
           StoredWhenSettled
<1>5. PrefsInv /\ [PrefsNext]_prefsVars =>
        [tab.pending /\ tab'.account = tab.account /\ tab'.prefs # tab.prefs
            => latest'[tab.account] = tab'.prefs]_prefsVars
  BY PrefsStep DEF Keeps
<1>6. ShellInit => ShellInv
  <2> SUFFICES ASSUME ShellInit PROVE ShellInv
    OBVIOUS
  <2>1. /\ open = {"main", "other"} /\ asking = [r \in Dialog |-> "new"]
        /\ prompt = NoPrompt /\ prompts = 0 /\ waiter = [w \in Windows |-> NoWaiter]
        /\ handed = 0 /\ closing = [w \in Windows |-> 0] /\ replies = {}
        /\ agreed = {} /\ lost = {}
    BY DEF ShellInit
  <2>2. /\ Bridge.prompt = NoPrompt /\ Bridge.agreed = {} /\ Bridge.replies = {}
        /\ Bridge.waiter = [w \in Windows |-> NoWaiter]
    BY <2>1 DEF Bridge
  <2>3. Bridge \in BridgeType
    BY <2>1, NothingUp DEF Bridge, BridgeType
  <2>4. BridgeFits(Bridge)
    <3>1. LateFits(Bridge)
      BY <2>2, NothingUp DEF LateFits
    <3> QED
      BY <2>1, <2>2, <2>3, <3>1, NothingUp DEF BridgeFits, WaiterFits
  <2>5. CountsFit
    BY <2>1 DEF CountsFit
  <2>6. WindowsHold
    BY <2>1 DEF WindowsHold, NothingLostUnasked, DialogsAnswered, NoOrphans
  <2>7. open \subseteq Windows /\ asking \in [Dialog -> Asks]
    BY <2>1 DEF Windows, Asks
  <2> QED
    BY <2>4, <2>5, <2>6, <2>7 DEF ShellInv
<1>7. ShellInv /\ [ShellNext]_shellVars => ShellInv'
  BY ShellStep
<1>8. SessionInv /\ PrefsInv /\ ShellInv =>
        TabsHold /\ WindowsHold /\ OwnPreferencesOnly /\ StoredWhenSettled
  BY RenewalsMatch DEF SessionInv, TabsHold, PrefsInv, ShellInv
<1> QED
  BY <1>1, <1>2, <1>3, <1>4, <1>5, <1>6, <1>7, <1>8, PTL
     DEF DesktopSpec, SessionSpec, PrefsSpec, ShellSpec, DesktopHolds, ChoiceStays
=============================================================================
