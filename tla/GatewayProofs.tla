---------------------------- MODULE GatewayProofs ----------------------------
(***************************************************************************)
(* Proofs about the parts of the token gateway beside the health of its    *)
(* routes: the rotation of the routes, for any line of channels and any    *)
(* weights; how long a withdrawn token is served; the groups that list the *)
(* models; a supplier's account, its readings and the alerts; who may call *)
(* a model, what a call is charged, and the quota packages; the diagnosis  *)
(* of the routes and the two pages that edit channels and models.  Each    *)
(* part has an inductive invariant, a lemma per action, and one theorem.   *)
(***************************************************************************)
EXTENDS RouteRotation, TokenAccess, GroupDirectory, SupplierAccount, ModelAdmission,
        RoutingPages, SequenceTheorems, Sums

\* A current weight is what the channel is still owed of the turn.
RotationInv ==
    /\ weight \in [Line -> 1..MaxWeight]
    /\ weights \in [Line -> Int]
    /\ served \in [Line -> Nat]
    /\ Picks <= Total
    /\ \A c \in Line : weights[c] = -Ahead(c)
    /\ \A c \in Line : weights[c] > -Total

LEMMA TotalsAreSums ==
    Total = Sum(weight, Line) /\ Picks = Sum(served, Line)
BY DEF Total, TotalWeight, Picks, Sum, MapThenSumSet, MapThenFoldSet

LEMMA WholeLine ==
    LET priority == [c \in Line |-> 0]
    IN  Level(priority, Candidates(Line, {})) = Line
BY LineAssumption DEF Level, Candidates

\* The totals are amounts, and what is owed to some is owed by the others.
LEMMA TotalsTyped ==
    ASSUME RotationInv
    PROVE  /\ Total \in Nat /\ Total > 0 /\ Picks \in Nat
           /\ \A c \in Line : weight[c] \in Nat /\ weight[c] > 0
           /\ \A c \in Line : served[c] \in Nat /\ weights[c] \in Int
<1>1. \A c \in Line : weight[c] \in Int /\ weight[c] >= 1
  BY WeightAssumption DEF RotationInv
<1>2. \A c \in Line : served[c] \in Int /\ served[c] >= 0 /\ weights[c] \in Int
  BY DEF RotationInv
<1>3. Sum(weight, Line) \in Int /\ Sum(served, Line) \in Int /\ Sum(served, Line) >= 0
  BY <1>1, <1>2, LineAssumption, SumType
<1>4. PICK c : c \in Line
  BY LineAssumption
<1>5. weight[c] <= Sum(weight, Line)
  <2>1. \A x \in Line : weight[x] \in Int /\ weight[x] >= 0
    BY <1>1
  <2> QED
    BY <1>4, <2>1, LineAssumption, SumPart
<1> QED
  BY <1>1, <1>2, <1>3, <1>4, <1>5, TotalsAreSums

\* What is owed adds up to nothing.
LEMMA OwedIsBalanced ==
    ASSUME RotationInv
    PROVE  Sum(weights, Line) = 0
<1> DEFINE due == [c \in Line |-> Picks * weight[c]]
           paid == [c \in Line |-> served[c] * Total]
<1>1. /\ Total \in Nat /\ Picks \in Nat
      /\ \A c \in Line : weight[c] \in Nat /\ served[c] \in Nat
  BY TotalsTyped
<1>2. \A c \in Line : weights[c] = Picks * weight[c] - served[c] * Total
  <2>1. ASSUME NEW c \in Line PROVE Picks * weight[c] \in Int /\ served[c] * Total \in Int
    BY <1>1
  <2> QED
    BY <2>1 DEF RotationInv, Ahead
<1>3. Sum(due, Line) = Picks * Sum(weight, Line)
  <2>1. \A x \in Line : weight[x] \in Int /\ due[x] = Picks * weight[x]
    BY <1>1
  <2>2. Picks \in Int
    BY <1>1
  <2> HIDE DEF due
  <2> QED
    BY <2>1, <2>2, LineAssumption, SumOfMultiples
<1>4. Sum(paid, Line) = Total * Sum(served, Line)
  <2>1. \A x \in Line : served[x] \in Int /\ paid[x] = Total * served[x]
    BY <1>1
  <2>2. Total \in Int
    BY <1>1
  <2> HIDE DEF paid
  <2> QED
    BY <2>1, <2>2, LineAssumption, SumOfMultiples
<1>5. \A c \in Line : due[c] \in Int /\ paid[c] \in Int /\ weights[c] \in Int
                      /\ due[c] = weights[c] + paid[c]
  <2>1. ASSUME NEW c \in Line PROVE Picks * weight[c] \in Int /\ served[c] * Total \in Int
    BY <1>1
  <2> QED
    BY <1>2, <2>1
<1> HIDE DEF due, paid
<1>6. Sum(due, Line) = Sum(weights, Line) + Sum(paid, Line)
  BY <1>5, LineAssumption, SumOfSums
<1>7. Sum(weights, Line) \in Int
  BY <1>5, LineAssumption, SumType
<1>8. Picks * Total \in Int /\ Picks * Total = Total * Picks
  BY <1>1
<1> QED
  BY <1>3, <1>4, <1>6, <1>7, <1>8, TotalsAreSums

LEMMA OwedParts ==
    ASSUME NEW total \in Nat, total > 0, NEW k \in Int, total * k > -total
    PROVE  k >= 0
<1>1. k <= -1 => total * k <= -total
  OBVIOUS
<1> QED
  BY <1>1

\* After as many picks as the weights add up to, everybody had its share.
LEMMA TurnEnds ==
    ASSUME RotationInv
    PROVE  TurnIsExact
<1> SUFFICES ASSUME Picks = Total
             PROVE  served = weight /\ weights = [c \in Line |-> 0]
  BY DEF TurnIsExact
<1>1. /\ Total \in Nat /\ Total > 0
      /\ \A c \in Line : weight[c] \in Nat /\ served[c] \in Nat
  BY TotalsTyped
<1>2. ASSUME NEW c \in Line
      PROVE  weights[c] = Total * (weight[c] - served[c]) /\ served[c] <= weight[c]
  <2>1. weight[c] \in Nat /\ served[c] \in Nat /\ weights[c] \in Int
    BY <1>1 DEF RotationInv
  <2>2. weights[c] = Total * weight[c] - served[c] * Total
    <3>1. Total * weight[c] \in Int /\ served[c] * Total \in Int
      BY <1>1, <2>1
    <3> QED
      BY <3>1 DEF RotationInv, Ahead
  <2>3. Total * (weight[c] - served[c]) = Total * weight[c] - served[c] * Total
    BY <1>1, <2>1
  <2>4. weights[c] > -Total
    BY DEF RotationInv
  <2>5. weight[c] - served[c] >= 0
    BY <1>1, <2>1, <2>2, <2>3, <2>4, OwedParts
  <2> QED
    BY <2>1, <2>2, <2>3, <2>5
<1>3. Sum(served, Line) = Sum(weight, Line)
  BY TotalsAreSums
<1>4. \A c \in Line : served[c] = weight[c]
  <2>1. \A x \in Line : served[x] \in Int /\ weight[x] \in Int /\ served[x] <= weight[x]
    BY <1>1, <1>2
  <2>2. IsFiniteSet(Line)
    BY LineAssumption
  <2>3. ASSUME NEW f, NEW g, f = served, g = weight
        PROVE  \A x \in Line : f[x] = g[x]
    <3>1. \A x \in Line : f[x] \in Int /\ g[x] \in Int /\ f[x] <= g[x]
      BY <2>1, <2>3
    <3>2. Sum(f, Line) = Sum(g, Line)
      BY <1>3, <2>3
    <3> QED
      BY <2>2, <3>1, <3>2, SumEqual
  <2> QED
    BY <2>3
<1>5. \A c \in Line : weights[c] = 0
  BY <1>1, <1>2, <1>4
<1> QED
  BY <1>4, <1>5 DEF RotationInv

LEMMA SharesFollow ==
    ASSUME RotationInv
    PROVE  SharesAreExact
<1>1. /\ Total \in Nat /\ Total > 0 /\ Picks \in Nat
      /\ \A c \in Line : weights[c] \in Int
      /\ \A c \in Line : weight[c] \in Nat /\ served[c] \in Nat
  BY TotalsTyped
<1>2. ASSUME NEW c \in Line PROVE Ahead(c) \in Int
  <2>1. Picks * weight[c] \in Int /\ served[c] * Total \in Int
    BY <1>1
  <2> QED
    BY <2>1 DEF Ahead
<1>3. NeverOneAhead
  BY <1>1, <1>2 DEF NeverOneAhead, RotationInv
<1>4. ASSUME NEW c \in Line PROVE -Ahead(c) <= (Cardinality(Line) - 1) * Total
  <2>1. \A d \in Line : weights[d] >= -Total
    BY <1>1 DEF RotationInv
  <2>2. weights[c] <= 0 - (Cardinality(Line) - 1) * (-Total)
    <3>1. -Total \in Int
      BY <1>1
    <3>2. Sum(weights, Line) = 0
      BY OwedIsBalanced
    <3> QED
      BY <1>1, <2>1, <3>1, <3>2, LineAssumption, OneTakesTheRest
  <2>3. Cardinality(Line) - 1 \in Int
    BY LineAssumption, FS_CardinalityType
  <2>4. 0 - (Cardinality(Line) - 1) * (-Total) = (Cardinality(Line) - 1) * Total
    BY <1>1, <2>3
  <2> QED
    BY <2>2, <2>4 DEF RotationInv
<1> QED
  BY <1>3, <1>4, TurnEnds DEF SharesAreExact, NeverLeftBehind

LEMMA OwedAfterPick ==
    ASSUME NEW picks \in Int, NEW share \in Int, NEW had \in Int, NEW total \in Int
    PROVE  /\ -(had * total - (picks + 1) * share) = -(had * total - picks * share) + share
           /\ -((had + 1) * total - (picks + 1) * share)
                = -(had * total - picks * share) + share - total
<1>1. had * total \in Int /\ picks * share \in Int
  OBVIOUS
<1>2. (picks + 1) * share = picks * share + share
  OBVIOUS
<1>3. (had + 1) * total = had * total + total
  OBVIOUS
<1> QED
  BY <1>1, <1>2, <1>3

LEMMA RotationStarts == RotationInit => RotationInv
<1> SUFFICES ASSUME RotationInit PROVE RotationInv
  OBVIOUS
<1>1. /\ weight \in [Line -> 1..MaxWeight]
      /\ weights = [c \in Line |-> 0]
      /\ served = [c \in Line |-> 0]
  BY DEF RotationInit
<1>2. \A c \in Line : weight[c] \in Int /\ weight[c] >= 1
  BY <1>1, WeightAssumption
<1>3. \A x \in Line : served[x] = 0
  BY <1>1
<1>4. Picks = 0
  BY <1>3, LineAssumption, SumOfZeros, TotalsAreSums
<1>5. Total \in Int
  <2>1. \A x \in Line : weight[x] \in Int
    BY <1>2
  <2> QED
    BY <2>1, LineAssumption, SumType, TotalsAreSums
<1>6. Total > 0
  <2>1. \A x \in Line : weight[x] \in Int /\ weight[x] >= 0
    BY <1>2
  <2>2. PICK c : c \in Line
    BY LineAssumption
  <2>3. weight[c] <= Sum(weight, Line)
    BY <2>1, <2>2, LineAssumption, SumPart
  <2> QED
    BY <1>2, <1>5, <2>2, <2>3, TotalsAreSums
<1>7. ASSUME NEW c \in Line PROVE weights[c] = -Ahead(c)
  <2>1. 0 * Total = 0 /\ 0 * weight[c] = 0
    BY <1>2, <1>5
  <2> QED
    BY <1>1, <1>4, <2>1 DEF Ahead
<1> QED
  BY <1>1, <1>4, <1>5, <1>6, <1>7 DEF RotationInv

\* The picked channel was owed something of this request.
LEMMA PickedIsOwed ==
    ASSUME RotationInv, NEW raised, NEW s,
           \A c \in Line : raised[c] = weights[c] + weight[c],
           s = Selected(raised, Line)
    PROVE  s \in Line /\ raised[s] \in Int /\ raised[s] > 0
<1>1. /\ Total \in Nat /\ Total > 0
      /\ \A c \in Line : weight[c] \in Int /\ weights[c] \in Int /\ raised[c] \in Int
  BY TotalsTyped
<1>2. /\ IsFiniteSet(Line) /\ Line # {} /\ Line \subseteq Int
      /\ \A x \in Line : raised[x] \in Int
  BY <1>1, LineAssumption
<1>3. s \in Line /\ \A d \in Line : raised[d] <= raised[s]
  <2>1. s = Min({c \in Line : \A d \in Line : raised[d] <= raised[c]})
    BY DEF Selected
  <2> QED
    BY <1>2, <2>1, FirstOfLargest
<1>4. Sum(raised, Line) = Sum(weights, Line) + Sum(weight, Line)
  <2>1. \A x \in Line : /\ weights[x] \in Int /\ weight[x] \in Int
                         /\ raised[x] = weights[x] + weight[x]
    BY <1>1
  <2>2. ASSUME NEW f, NEW g, f = weights, g = weight
        PROVE  Sum(raised, Line) = Sum(f, Line) + Sum(g, Line)
    <3>1. \A x \in Line : f[x] \in Int /\ g[x] \in Int /\ raised[x] = f[x] + g[x]
      BY <2>1, <2>2
    <3> QED
      BY <1>2, <3>1, SumOfSums
  <2> QED
    BY <2>2
<1>5. Sum(raised, Line) > 0
  BY <1>1, <1>4, OwedIsBalanced, TotalsAreSums
<1>6. \E x \in Line : raised[x] > 0
  BY <1>2, <1>5, PositiveExists
<1> QED
  BY <1>1, <1>3, <1>6

LEMMA PickKeeps == RotationInv /\ PickNext => RotationInv'
<1> SUFFICES ASSUME RotationInv, PickNext PROVE RotationInv'
  OBVIOUS
<1> DEFINE priority == [c \in Line |-> 0]
           raised == Raised(weights, weight, priority, Line)
           s == Selected(raised, Line)
<1>1. /\ Picks < Total
      /\ weights' = Spent(raised, weight, Line)
      /\ served' = [served EXCEPT ![s] = @ + 1]
      /\ weight' = weight
  BY WholeLine DEF PickNext
<1>2. /\ Total \in Nat /\ Total > 0 /\ Picks \in Nat
      /\ \A c \in Line : weight[c] \in Nat /\ weight[c] > 0
      /\ \A c \in Line : served[c] \in Nat /\ weights[c] \in Int
  BY TotalsTyped
<1>3. /\ raised = [c \in Line |-> weights[c] + weight[c]]
      /\ \A c \in Line : raised[c] = weights[c] + weight[c]
  BY DEF Raised, RotationInv
<1> HIDE DEF raised
<1>4. s \in Line /\ raised[s] \in Int /\ raised[s] > 0
  BY <1>3, PickedIsOwed
<1>5. weights' = [raised EXCEPT ![s] = @ - Total]
  BY <1>1 DEF Spent, Total
<1> HIDE DEF s
<1>6. /\ weights' \in [Line -> Int]
      /\ weights'[s] = weights[s] + weight[s] - Total
      /\ \A c \in Line \ {s} : weights'[c] = weights[c] + weight[c]
  BY <1>2, <1>3, <1>4, <1>5
<1>7. /\ served' \in [Line -> Nat]
      /\ served'[s] = served[s] + 1
      /\ \A c \in Line \ {s} : served'[c] = served[c]
  BY <1>1, <1>2, <1>4 DEF RotationInv
<1>8. Total' = Total
  BY <1>1 DEF Total
<1>9. Picks' = Picks + 1
  <2>1. Picks' = Sum(served', Line)
    BY DEF Picks, Sum, MapThenSumSet, MapThenFoldSet
  <2>2. \A x \in Line : served[x] \in Int /\ served'[x] \in Int
    BY <1>2, <1>7
  <2>3. ASSUME NEW f, NEW g, f = served, g = served'
        PROVE  Sum(g, Line) = Sum(f, Line) + g[s] - f[s]
    <3>1. /\ \A x \in Line : f[x] \in Int /\ g[x] \in Int
          /\ \A x \in Line \ {s} : f[x] = g[x]
      BY <1>7, <2>2, <2>3
    <3>2. IsFiniteSet(Line)
      BY LineAssumption
    <3> QED
      BY <1>4, <3>1, <3>2, SumChange
  <2>4. Sum(served', Line) = Sum(served, Line) + served'[s] - served[s]
    BY <2>3
  <2>5. served[s] \in Nat
    BY <1>2, <1>4
  <2> QED
    BY <1>2, <1>7, <2>1, <2>4, <2>5, TotalsAreSums
<1>10. ASSUME NEW c \in Line PROVE weights'[c] = -Ahead(c)' /\ weights'[c] > -Total
  <2>1. /\ weights[c] = -(served[c] * Total - Picks * weight[c])
        /\ weights[c] > -Total
    BY DEF RotationInv, Ahead
  <2>2. Ahead(c)' = served'[c] * Total - (Picks + 1) * weight[c]
    BY <1>1, <1>8, <1>9 DEF Ahead
  <2>3. /\ weight[c] \in Int /\ served[c] \in Int /\ weights[c] \in Int /\ weight[c] > 0
        /\ Total \in Int /\ Picks \in Int
    BY <1>2
  <2> DEFINE share == weight[c]
             had == served[c]
             total == Total
             picks == Picks
  <2>6. /\ share \in Int /\ had \in Int /\ total \in Int /\ picks \in Int
        /\ -(had * total - picks * share) = weights[c]
        /\ Ahead(c)' = served'[c] * total - (picks + 1) * share
    BY <2>1, <2>2, <2>3
  <2> HIDE DEF share, had, total, picks
  <2>7. /\ -(had * total - (picks + 1) * share) = weights[c] + share
        /\ -((had + 1) * total - (picks + 1) * share) = weights[c] + share - total
    BY <2>6, OwedAfterPick
  <2>4. CASE c = s
    <3>1. -Ahead(c)' = weights[c] + weight[c] - Total
      BY <1>7, <2>4, <2>6, <2>7 DEF share, had, total
    <3> QED
      BY <1>3, <1>4, <1>6, <2>3, <2>4, <3>1
  <2>5. CASE c # s
    <3>1. -Ahead(c)' = weights[c] + weight[c]
      BY <1>7, <2>5, <2>6, <2>7 DEF share, had
    <3> QED
      BY <1>6, <2>1, <2>3, <2>5, <3>1
  <2> QED
    BY <2>4, <2>5
<1>11. Picks' <= Total'
  BY <1>1, <1>2, <1>8, <1>9
<1> QED
  BY <1>1, <1>6, <1>7, <1>8, <1>10, <1>11 DEF RotationInv

LEMMA TurnKeeps == RotationInv /\ NextTurn => RotationInv'
<1> SUFFICES ASSUME RotationInv, NextTurn PROVE RotationInv'
  OBVIOUS
<1>1. /\ Picks = Total
      /\ served' = [c \in Line |-> 0]
      /\ weight' = weight /\ weights' = weights
  BY DEF NextTurn
<1>2. weights = [c \in Line |-> 0]
  BY <1>1, TurnEnds DEF TurnIsExact
<1>3. /\ Total \in Nat /\ Total > 0
      /\ \A c \in Line : weight[c] \in Nat
  BY TotalsTyped
<1>4. Picks' = 0
  <2>1. Picks' = Sum(served', Line)
    BY DEF Picks, Sum, MapThenSumSet, MapThenFoldSet
  <2>2. ASSUME NEW f, f = served' PROVE Sum(f, Line) = 0
    <3>1. \A x \in Line : f[x] = 0
      BY <1>1, <2>2
    <3> QED
      BY <3>1, LineAssumption, SumOfZeros
  <2> QED
    BY <2>1, <2>2
<1>5. Total' = Total
  BY <1>1 DEF Total
<1>6. ASSUME NEW c \in Line PROVE weights'[c] = -Ahead(c)' /\ weights'[c] > -Total
  <2>1. 0 * Total = 0 /\ 0 * weight[c] = 0
    BY <1>3
  <2> QED
    BY <1>1, <1>2, <1>3, <1>4, <1>5, <2>1 DEF Ahead
<1> QED
  BY <1>1, <1>2, <1>3, <1>4, <1>5, <1>6 DEF RotationInv

\* Every channel gets its share: over a turn exactly as many picks as its weight, and at
\* any moment within one request too many and one per other channel too few
\* (channel-pool.service.ts, pick).
THEOREM RotationExact == RotationSpec => []SharesAreExact
<1>1. RotationInv /\ UNCHANGED RotationVars => RotationInv'
  <2> SUFFICES ASSUME RotationInv, UNCHANGED RotationVars PROVE RotationInv'
    OBVIOUS
  <2>1. weight' = weight /\ weights' = weights /\ served' = served
    BY DEF RotationVars
  <2>2. Total' = Total
    BY <2>1 DEF Total
  <2>3. Picks' = Picks
    BY <2>1 DEF Picks, MapThenSumSet, MapThenFoldSet
  <2>4. \A c \in Line : Ahead(c)' = Ahead(c)
    BY <2>1, <2>2, <2>3 DEF Ahead
  <2> QED
    BY <2>1, <2>2, <2>3, <2>4 DEF RotationInv
<1>2. RotationInv /\ [RotationNext]_RotationVars => RotationInv'
  BY <1>1, PickKeeps, TurnKeeps DEF RotationNext
<1> QED
  BY <1>2, RotationStarts, SharesFollow, PTL DEF RotationSpec

-----------------------------------------------------------------------------
(* TokenAccess *)

\* What is kept of a token is younger than the minute it may be kept, and what was
\* removed is known from reads made before.
AccessInv ==
    /\ clock \in Nat
    /\ past.admitted \in Nat /\ past.admitted <= clock
    /\ past.token \in Nat /\ past.token <= clock
    /\ past.user \in Nat /\ past.user <= clock
    /\ DOMAIN past = {"token", "user", "admitted", "switches"}
    /\ cache.until \in Nat /\ DOMAIN cache = {"held", "until"}
    /\ cache.held => cache.until <= clock + TTL
    /\ lookup.phase = "user" =>
           lookup.since \in Nat /\ lookup.since <= clock /\ clock <= lookup.since + MaxLookup
    /\ ~token => /\ past.admitted <= past.token + TTL + MaxLookup
                 /\ cache.held => cache.until <= past.token + TTL + MaxLookup
                 /\ lookup.phase = "user" => lookup.since <= past.token
    /\ ~user => /\ past.admitted <= past.user + TTL + MaxLookup
                /\ cache.held => cache.until <= past.user + TTL + MaxLookup

LEMMA AccessStarts == TokenInit => AccessInv
BY TokenAssumption DEF TokenInit, AccessInv, Nothing, NoLookup

LEMMA AccessKeeps == AccessInv /\ [TokenNext]_TokenVars => AccessInv'
<1> SUFFICES ASSUME AccessInv, [TokenNext]_TokenVars PROVE AccessInv'
  OBVIOUS
<1> USE TokenAssumption
<1>1. ASSUME NEW i \in Instance, StartDirectory(i) \/ Fetch(i) PROVE AccessInv'
  BY <1>1 DEF StartDirectory, Fetch, AccessInv
<1>2. ASSUME NEW active, Apply(active), UNCHANGED <<token, cache, lookup, clock>>
      PROVE  AccessInv'
  BY <1>2 DEF Apply, AccessInv
<1>3. ASSUME NEW i \in Instance, ApplySync(i) PROVE AccessInv'
  BY <1>2, <1>3 DEF ApplySync
<1>4. ASSUME NEW i \in Instance, SyncFails(i) PROVE AccessInv'
  BY <1>4 DEF SyncFails, AccessInv
<1>5. CASE Introspect
  BY <1>5 DEF Introspect, AccessInv
<1>6. CASE Project
  BY <1>2, <1>6 DEF Project
<1>7. CASE Hit
  BY <1>7 DEF Hit, Admit, AccessInv
<1>8. CASE Miss
  BY <1>8 DEF Miss, Nothing, NoLookup, AccessInv
<1>9. CASE ReadUser
  BY <1>9 DEF ReadUser, Admit, Entry, NoLookup, AccessInv
<1>10. CASE RemoveToken
  BY <1>10 DEF RemoveToken, AccessInv
<1>11. CASE Switch
  BY <1>11 DEF Switch, AccessInv
<1>12. CASE Advance
  BY <1>12 DEF Advance, AccessInv
<1>13. CASE UNCHANGED TokenVars
  BY <1>13 DEF TokenVars, AccessInv
<1> QED
  BY <1>1, <1>3, <1>4, <1>5, <1>6, <1>7, <1>8, <1>9, <1>10, <1>11, <1>12, <1>13
     DEF TokenNext

\* A deleted token and a user switched off are served for one minute of the cache more,
\* and for as long as the two reads of a miss take (token-auth.middleware.ts).
THEOREM AccessEnds == TokenSpec => []RevocationBites
<1>1. AccessInv => RevocationBites
  BY DEF AccessInv, RevocationBites
<1> QED
  BY <1>1, AccessStarts, AccessKeeps, PTL DEF TokenSpec

-----------------------------------------------------------------------------
(* GroupDirectory *)

\* The lists are as a request asked for.
AsAsked(w) ==
    \A g \in Group :
        groups[g].here /\ groups[g].listed =>
            /\ g \in w.want => w.model.name \in groups[g].models
            /\ g \notin w.want => w.was \notin groups[g].models
            /\ w.was # w.model.name => w.was \notin groups[g].models

\* What a request that nobody disturbed knows of the rows.
Knows(w) ==
    /\ w.phase = "delete" => w.group # holder /\ Members(w.group, groups[w.group], models) = {}
    /\ w.phase = "groups" => w.seen = groups
    /\ w.phase \in {"tag", "remove"} => AsAsked(w)

WorkFits(w) ==
    /\ DOMAIN w = DOMAIN NoWork
    /\ w.phase = "idle" => ~w.alone
    /\ w.phase = "group" => w.row.here /\ DOMAIN w.row = DOMAIN NoGroup
    /\ \A g \in Group : DOMAIN w.seen[g] = DOMAIN NoGroup

ListsInv ==
    /\ DOMAIN work = Admin /\ DOMAIN groups = Group
    /\ \A g \in Group : DOMAIN groups[g] = DOMAIN NoGroup
    /\ \A a \in Admin : WorkFits(work[a])
    /\ \A a \in Admin :
           work[a].alone => Knows(work[a]) /\ \A b \in Admin \ {a} : work[b].phase = "idle"

LEMMA ListsStart == DirectoryInit => ListsInv
<1> SUFFICES ASSUME DirectoryInit PROVE ListsInv
  OBVIOUS
<1>1. /\ groups = [g \in Group |-> [here |-> TRUE, listed |-> g # "default", models |-> {}]]
      /\ work = [a \in Admin |-> NoWork]
  BY DEF DirectoryInit
<1>2. WorkFits(NoWork) /\ ~NoWork.alone
  BY DEF WorkFits, NoWork
<1>3. \A g \in Group : DOMAIN groups[g] = DOMAIN NoGroup
  BY <1>1 DEF NoGroup
<1> QED
  BY <1>1, <1>2, <1>3 DEF ListsInv

\* A request begins.
LEMMA BeginKeeps ==
    ASSUME ListsInv, NEW a \in Admin, NEW w, Begin(a, w), WorkFits(w), w.phase # "idle",
           Knows(w), w.phase \notin {"groups", "tag", "remove"},
           UNCHANGED <<groups, models, holder>>
    PROVE  ListsInv'
<1> DEFINE new == [w EXCEPT !.alone = \A c \in Admin : work[c].phase = "idle"]
<1>1. /\ work' = [b \in Admin |-> IF b = a THEN new ELSE [work[b] EXCEPT !.alone = FALSE]]
      /\ groups' = groups /\ models' = models /\ holder' = holder
  BY DEF Begin
<1>2. /\ DOMAIN new = DOMAIN NoWork /\ new.phase = w.phase /\ new.group = w.group
      /\ new.row = w.row /\ new.seen = w.seen
      /\ new.alone <=> \A c \in Admin : work[c].phase = "idle"
  BY DEF WorkFits, NoWork
<1> HIDE DEF new
<1>3. WorkFits(new)
  BY <1>2 DEF WorkFits
<1>4. Knows(new)
  BY <1>2 DEF Knows
<1>5. ASSUME NEW b \in Admin, b # a
      PROVE  /\ WorkFits(work'[b]) /\ ~work'[b].alone
             /\ work'[b].phase = work[b].phase
  <2>1. work'[b] = [work[b] EXCEPT !.alone = FALSE] /\ WorkFits(work[b])
    BY <1>1, <1>5 DEF ListsInv
  <2>2. /\ DOMAIN work'[b] = DOMAIN NoWork /\ ~work'[b].alone
        /\ work'[b].phase = work[b].phase /\ work'[b].row = work[b].row
        /\ work'[b].seen = work[b].seen
    BY <2>1 DEF WorkFits, NoWork
  <2> QED
    BY <2>1, <2>2 DEF WorkFits
<1>6. work'[a] = new
  BY <1>1
<1>7. \A b \in Admin : WorkFits(work[b])'
  BY <1>3, <1>5, <1>6 DEF WorkFits
<1>8. ASSUME NEW b \in Admin, work'[b].alone
      PROVE  Knows(work[b])' /\ \A c \in Admin \ {b} : work'[c].phase = "idle"
  <2>1. b = a
    BY <1>5, <1>8
  <2>3. \A c \in Admin \ {a} : work'[c].phase = "idle"
    BY <1>2, <1>5, <1>6, <1>8, <2>1
  <2>4. Knows(work[a])'
    BY <1>1, <1>2, <1>4, <1>6, SMTT(20) DEF Knows, AsAsked, Members
  <2> QED
    BY <2>1, <2>3, <2>4
<1> QED
  BY <1>1, <1>7, <1>8 DEF ListsInv

\* A request goes on, or ends.
LEMMA GoKeeps ==
    ASSUME ListsInv, NEW a \in Admin, work[a].phase # "idle", NEW w,
           work' = [work EXCEPT ![a] = w],
           DOMAIN groups' = Group, \A g \in Group : DOMAIN groups'[g] = DOMAIN NoGroup,
           WorkFits(w), w.alone => work[a].alone, w.alone => Knows(w)'
    PROVE  ListsInv'
<1>1. work'[a] = w /\ \A b \in Admin \ {a} : work'[b] = work[b]
  BY DEF ListsInv
<1>2. \A b \in Admin : WorkFits(work'[b])
  BY <1>1 DEF ListsInv
<1>3. \A b \in Admin : WorkFits(work[b])'
  BY <1>2 DEF WorkFits
<1>4. ASSUME NEW b \in Admin, work'[b].alone
      PROVE  Knows(work[b])' /\ \A c \in Admin \ {b} : work'[c].phase = "idle"
  <2>1. b = a
    BY <1>1, <1>4 DEF ListsInv
  <2>2. Knows(w)' /\ \A c \in Admin \ {a} : work[c].phase = "idle"
    BY <1>1, <1>4, <2>1 DEF ListsInv
  <2>3. Knows(work[a])'
    BY <1>1, <2>2 DEF Knows, AsAsked
  <2> QED
    BY <1>1, <2>1, <2>2, <2>3
<1>5. DOMAIN work' = Admin
  BY DEF ListsInv
<1> QED
  BY <1>3, <1>4, <1>5 DEF ListsInv

LEMMA DoneKeeps ==
    ASSUME ListsInv, NEW a \in Admin, work[a].phase # "idle", Done(a),
           DOMAIN groups' = Group, \A g \in Group : DOMAIN groups'[g] = DOMAIN NoGroup
    PROVE  ListsInv'
<1>1. WorkFits(NoWork) /\ ~NoWork.alone
  BY DEF WorkFits, NoWork
<1>2. work' = [work EXCEPT ![a] = NoWork]
  BY DEF Done, Go
<1> QED
  BY <1>1, <1>2, GoKeeps

\* What saveGroups writes is what was asked, and keeps what is there.
LEMMA SyncedIsAsked ==
    ASSUME NEW g, NEW w, NEW rows, DOMAIN w.seen[g] = DOMAIN NoGroup
    PROVE  /\ DOMAIN Synced(g, w, rows) = DOMAIN NoGroup
           /\ Synced(g, w, rows).here = w.seen[g].here
           /\ Synced(g, w, rows).listed =>
                 /\ g \in w.want => w.model.name \in Synced(g, w, rows).models
                 /\ g \notin w.want => w.was \notin Synced(g, w, rows).models
                 /\ w.was # w.model.name => w.was \notin Synced(g, w, rows).models
<1> DEFINE members == Members(g, w.seen[g], rows)
           rename == w.was \in members /\ w.was # w.model.name
           row == Synced(g, w, rows)
<1>1. CASE ((w.was \in members) = (g \in w.want)) /\ ~rename
  <2>1. row = w.seen[g]
    BY <1>1 DEF Synced
  <2>2. row.listed => members = row.models
    BY <2>1 DEF Members
  <2> HIDE DEF row, members
  <2> QED
    BY <1>1, <2>1, <2>2 DEF row
<1>2. CASE ~(((w.was \in members) = (g \in w.want)) /\ ~rename)
  <2>1. row = [w.seen[g] EXCEPT !.listed = TRUE,
                   !.models = (members \ {w.was})
                              \cup IF g \in w.want THEN {w.model.name} ELSE {}]
    BY <1>2 DEF Synced
  <2>2. /\ DOMAIN row = DOMAIN NoGroup /\ row.here = w.seen[g].here
        /\ row.models = (members \ {w.was})
                          \cup IF g \in w.want THEN {w.model.name} ELSE {}
    BY <2>1 DEF NoGroup
  <2> HIDE DEF row, members
  <2> QED
    BY <1>2, <2>2 DEF row
<1> QED
  BY <1>1, <1>2

LEMMA ListsKeep == ListsInv /\ [DirectoryNext]_DirectoryVars => ListsInv'
<1> SUFFICES ASSUME ListsInv, [DirectoryNext]_DirectoryVars PROVE ListsInv'
  OBVIOUS
<1>1. /\ DOMAIN work = Admin /\ DOMAIN groups = Group
      /\ \A g \in Group : DOMAIN groups[g] = DOMAIN NoGroup
      /\ \A a \in Admin : WorkFits(work[a])
      /\ \A a \in Admin : work[a].alone => Knows(work[a])
  BY DEF ListsInv
<1>2. ASSUME NEW a \in Admin, NEW g \in Group, StartGroup(a, g) PROVE ListsInv'
  <2>1. PICK row \in [here : {TRUE}, listed : {TRUE}, models : SUBSET Names(models)]
                     \cup (IF groups[g].here THEN {groups[g]} ELSE {}) :
            Begin(a, [NoWork EXCEPT !.phase = "group", !.group = g, !.row = row])
    BY <1>2 DEF StartGroup
  <2> DEFINE w == [NoWork EXCEPT !.phase = "group", !.group = g, !.row = row]
  <2>2. row.here /\ DOMAIN row = DOMAIN NoGroup
    BY <1>1 DEF NoGroup
  <2>3. WorkFits(w) /\ w.phase = "group"
    BY <2>2 DEF WorkFits, NoWork
  <2>4. Begin(a, w)
    BY <2>1
  <2>5. UNCHANGED <<groups, models, holder>>
    BY <1>2 DEF StartGroup
  <2> HIDE DEF w
  <2>6. Knows(w)
    BY <2>3 DEF Knows
  <2> QED
    BY <2>3, <2>4, <2>5, <2>6, BeginKeeps
<1>3. ASSUME NEW a \in Admin, NEW g \in Group, StartRemoval(a, g) PROVE ListsInv'
  <2> DEFINE w == [NoWork EXCEPT !.phase = "delete", !.group = g]
  <2>1. Begin(a, w) /\ Removable(g) /\ UNCHANGED <<groups, models, holder>>
    BY <1>3 DEF StartRemoval
  <2>2. WorkFits(w) /\ w.phase = "delete" /\ w.group = g
    BY DEF WorkFits, NoWork
  <2> HIDE DEF w
  <2>3. Knows(w)
    BY <2>1, <2>2 DEF Knows, Removable
  <2> QED
    BY <2>1, <2>2, <2>3, BeginKeeps
<1>4. ASSUME NEW a \in Admin, NEW g \in Group, StartUser(a, g) PROVE ListsInv'
  <2> DEFINE w == [NoWork EXCEPT !.phase = "user", !.group = g]
  <2>1. Begin(a, w) /\ UNCHANGED <<groups, models, holder>>
    BY <1>4 DEF StartUser
  <2>2. WorkFits(w) /\ w.phase = "user"
    BY DEF WorkFits, NoWork
  <2> HIDE DEF w
  <2>3. Knows(w)
    BY <2>2 DEF Knows
  <2> QED
    BY <2>1, <2>2, <2>3, BeginKeeps
<1>5. ASSUME NEW a \in Admin, NEW i \in Model, NEW name, NEW wanted, NEW synced,
             StartModel(a, i, name, wanted, synced)
      PROVE  ListsInv'
  <2>1. PICK tag : Begin(a, [NoWork EXCEPT !.phase = "model", !.id = i, !.want = wanted,
                                 !.sync = synced,
                                 !.was = IF models[i].name = NoName THEN name ELSE models[i].name,
                                 !.model = [name |-> name, tag |-> tag]])
    BY <1>5 DEF StartModel
  <2> DEFINE w == [NoWork EXCEPT !.phase = "model", !.id = i, !.want = wanted, !.sync = synced,
                       !.was = IF models[i].name = NoName THEN name ELSE models[i].name,
                       !.model = [name |-> name, tag |-> tag]]
  <2>2. Begin(a, w)
    BY <2>1
  <2>3. UNCHANGED <<groups, models, holder>>
    BY <1>5 DEF StartModel
  <2>4. WorkFits(w) /\ w.phase = "model"
    BY DEF WorkFits, NoWork
  <2> HIDE DEF w
  <2>5. Knows(w)
    BY <2>4 DEF Knows
  <2> QED
    BY <2>2, <2>3, <2>4, <2>5, BeginKeeps
<1>6. ASSUME NEW a \in Admin, NEW i \in Model, StartModelRemoval(a, i) PROVE ListsInv'
  <2> DEFINE w == [NoWork EXCEPT !.phase = "read", !.id = i, !.was = models[i].name,
                       !.model = models[i]]
  <2>1. Begin(a, w) /\ UNCHANGED <<groups, models, holder>>
    BY <1>6 DEF StartModelRemoval
  <2>2. WorkFits(w) /\ w.phase = "read"
    BY DEF WorkFits, NoWork
  <2> HIDE DEF w
  <2>3. Knows(w)
    BY <2>2 DEF Knows
  <2> QED
    BY <2>1, <2>2, <2>3, BeginKeeps
<1>7. ASSUME NEW a \in Admin, SaveGroup(a) PROVE ListsInv'
  <2>1. /\ work[a].phase = "group" /\ Done(a)
        /\ groups' = [groups EXCEPT ![work[a].group] = work[a].row]
    BY <1>7 DEF SaveGroup
  <2>2. DOMAIN work[a].row = DOMAIN NoGroup
    BY <1>1, <2>1 DEF WorkFits
  <2>3. DOMAIN groups' = Group /\ \A g \in Group : DOMAIN groups'[g] = DOMAIN NoGroup
    BY <1>1, <2>1, <2>2
  <2>4. work[a].phase # "idle"
    BY <2>1
  <2> QED
    BY <2>1, <2>3, <2>4, DoneKeeps
<1>8. ASSUME NEW a \in Admin, DeleteGroup(a) PROVE ListsInv'
  <2>1. /\ work[a].phase # "idle" /\ Done(a)
        /\ groups' = [groups EXCEPT ![work[a].group] = NoGroup]
    BY <1>8 DEF DeleteGroup
  <2>2. DOMAIN groups' = Group /\ \A g \in Group : DOMAIN groups'[g] = DOMAIN NoGroup
    BY <1>1, <2>1
  <2> QED
    BY <2>1, <2>2, DoneKeeps
<1>9. ASSUME NEW a \in Admin, SaveUser(a) \/ GiveUp(a) \/ RemoveModel(a) PROVE ListsInv'
  <2>1. work[a].phase # "idle" /\ Done(a) /\ groups' = groups
    BY <1>9 DEF SaveUser, GiveUp, RemoveModel
  <2>2. DOMAIN groups' = Group /\ \A g \in Group : DOMAIN groups'[g] = DOMAIN NoGroup
    BY <1>1, <2>1
  <2> QED
    BY <2>1, <2>2, DoneKeeps
<1>10. ASSUME NEW a \in Admin, SaveModel(a) PROVE ListsInv'
  <2>1. work[a].phase = "model" /\ groups' = groups
    BY <1>10 DEF SaveModel
  <2>2. DOMAIN groups' = Group /\ \A g \in Group : DOMAIN groups'[g] = DOMAIN NoGroup
    BY <1>1, <2>1
  <2>3. work[a].phase # "idle"
    BY <2>1
  <2>4. CASE Done(a)
    BY <2>2, <2>3, <2>4, DoneKeeps
  <2>5. CASE Go(a, [work[a] EXCEPT !.phase = "read"])
    <3>5. PICK w : w = [work[a] EXCEPT !.phase = "read"]
      OBVIOUS
    <3>1. work' = [work EXCEPT ![a] = w]
      BY <2>5, <3>5 DEF Go
    <3>2. /\ DOMAIN w = DOMAIN NoWork /\ w.phase = "read" /\ w.alone = work[a].alone
          /\ w.seen = work[a].seen
      BY <1>1, <3>5 DEF WorkFits, NoWork
    <3>3. WorkFits(w)
      BY <1>1, <3>2 DEF WorkFits
    <3>4. Knows(w)'
      BY <3>2 DEF Knows
    <3> QED
      BY <2>2, <2>3, <3>1, <3>2, <3>3, <3>4, GoKeeps
  <2> QED
    BY <1>10, <2>4, <2>5 DEF SaveModel
<1>11. ASSUME NEW a \in Admin, ReadGroups(a) PROVE ListsInv'
  <2>6. PICK w : w = [work[a] EXCEPT !.phase = "groups", !.seen = groups]
    OBVIOUS
  <2>1. /\ work[a].phase # "idle" /\ groups' = groups
        /\ work' = [work EXCEPT ![a] = w]
    BY <1>11, <2>6 DEF ReadGroups, Go
  <2>2. /\ DOMAIN w = DOMAIN NoWork /\ w.phase = "groups" /\ w.alone = work[a].alone
        /\ w.seen = groups
    BY <1>1, <2>6 DEF WorkFits, NoWork
  <2>3. WorkFits(w)
    BY <1>1, <2>2 DEF WorkFits
  <2>4. Knows(w)'
    BY <2>1, <2>2 DEF Knows
  <2>5. DOMAIN groups' = Group /\ \A g \in Group : DOMAIN groups'[g] = DOMAIN NoGroup
    BY <1>1, <2>1
  <2> QED
    BY <2>1, <2>2, <2>3, <2>4, <2>5, GoKeeps
<1>12. ASSUME NEW a \in Admin, SaveGroups(a) PROVE ListsInv'
  <2>9. PICK w : w = [work[a] EXCEPT !.phase = "tag", !.seen = NoWork.seen]
    OBVIOUS
  <2>1. /\ work[a].phase = "groups" /\ work[a].phase # "idle"
        /\ groups' = [g \in Group |->
               IF work[a].seen[g].here /\ Synced(g, work[a], models) # work[a].seen[g]
               THEN Synced(g, work[a], models) ELSE groups[g]]
        /\ work' = [work EXCEPT ![a] = w]
    BY <1>12, <2>9 DEF SaveGroups, Go
  <2>2. /\ DOMAIN w = DOMAIN NoWork /\ w.phase = "tag" /\ w.alone = work[a].alone
        /\ w.seen = NoWork.seen /\ w.was = work[a].was /\ w.want = work[a].want
        /\ w.model = work[a].model
    BY <1>1, <2>9 DEF WorkFits, NoWork
  <2>3. \A g \in Group : DOMAIN work[a].seen[g] = DOMAIN NoGroup
    BY <1>1 DEF WorkFits
  <2>4. \A g \in Group : DOMAIN groups'[g] = DOMAIN NoGroup
    BY <1>1, <2>1, <2>3, SyncedIsAsked
  <2>5. WorkFits(w)
    <3>1. \A g \in Group : DOMAIN NoWork.seen[g] = DOMAIN NoGroup
      BY DEF NoWork
    <3> QED
      BY <2>2, <3>1 DEF WorkFits
  <2>6. ASSUME work[a].alone PROVE AsAsked(w)'
    <3>1. work[a].seen = groups
      BY <1>1, <2>1, <2>6 DEF Knows
    <3>2. ASSUME NEW g \in Group, groups'[g].here, groups'[g].listed
          PROVE  /\ g \in w.want => w.model.name \in groups'[g].models
                 /\ g \notin w.want => w.was \notin groups'[g].models
                 /\ w.was # w.model.name => w.was \notin groups'[g].models
      <4>1. groups[g].here /\ groups'[g] = Synced(g, work[a], models)
        BY <2>1, <2>3, <3>1, <3>2, SyncedIsAsked
      <4> QED
        BY <2>2, <2>3, <3>2, <4>1, SyncedIsAsked
    <3> QED
      BY <3>2 DEF AsAsked
  <2>7. w.alone => Knows(w)'
    BY <2>2, <2>6 DEF Knows
  <2>8. DOMAIN groups' = Group
    BY <2>1
  <2> QED
    BY <2>1, <2>2, <2>4, <2>5, <2>7, <2>8, GoKeeps
<1>13. ASSUME NEW a \in Admin, SaveTag(a) PROVE ListsInv'
  <2>1. work[a].phase = "tag" /\ groups' = groups
    BY <1>13 DEF SaveTag
  <2>2. DOMAIN groups' = Group /\ \A g \in Group : DOMAIN groups'[g] = DOMAIN NoGroup
    BY <1>1, <2>1
  <2>3. work[a].phase # "idle"
    BY <2>1
  <2>4. CASE Done(a)
    BY <2>2, <2>3, <2>4, DoneKeeps
  <2>5. CASE Go(a, [work[a] EXCEPT !.phase = "remove"])
    <3>5. PICK w : w = [work[a] EXCEPT !.phase = "remove"]
      OBVIOUS
    <3>1. work' = [work EXCEPT ![a] = w]
      BY <2>5, <3>5 DEF Go
    <3>2. /\ DOMAIN w = DOMAIN NoWork /\ w.phase = "remove" /\ w.alone = work[a].alone
          /\ w.seen = work[a].seen /\ w.was = work[a].was /\ w.want = work[a].want
          /\ w.model = work[a].model
      BY <1>1, <3>5 DEF WorkFits, NoWork
    <3>3. WorkFits(w)
      BY <1>1, <3>2 DEF WorkFits
    <3>4. ASSUME w.alone PROVE Knows(w)'
      <4>1. AsAsked(work[a])
        BY <1>1, <2>1, <3>2, <3>4 DEF Knows
      <4>2. AsAsked(w)'
        BY <2>1, <3>2, <4>1 DEF AsAsked
      <4> QED
        BY <3>2, <4>2 DEF Knows
    <3> QED
      BY <2>2, <2>3, <3>1, <3>2, <3>3, <3>4, GoKeeps
  <2> QED
    BY <1>13, <2>4, <2>5 DEF SaveTag
<1>14. CASE UNCHANGED DirectoryVars
  <2>1. groups' = groups /\ models' = models /\ holder' = holder /\ work' = work
    BY <1>14 DEF DirectoryVars
  <2>2. \A a \in Admin : WorkFits(work[a])' /\ (work[a].alone => Knows(work[a])')
    BY <1>1, <2>1 DEF WorkFits, Knows, AsAsked, Members
  <2> QED
    BY <1>1, <2>1, <2>2 DEF ListsInv
<1> QED
  BY <1>2, <1>3, <1>4, <1>5, <1>6, <1>7, <1>8, <1>9, <1>10, <1>11, <1>12, <1>13, <1>14
     DEF DirectoryNext

\* A change of a model that no other request disturbed ends with the lists as asked, and
\* a group removed by such a request leaves no user and no model behind that names it
\* (model-group.service.ts, group-admin.controller.ts).
THEOREM ListsFollow == DirectorySpec => ListsAsAsked
<1>1. ASSUME ListsInv, NEW a \in Admin, NEW g \in Group,
             work[a].alone, groups[g].here, groups[g].listed,
             work[a].phase \in {"tag", "remove"}
      PROVE  /\ g \in work[a].want => work[a].model.name \in groups[g].models
             /\ g \notin work[a].want => work[a].was \notin groups[g].models
             /\ work[a].was # work[a].model.name => work[a].was \notin groups[g].models
  BY <1>1 DEF ListsInv, Knows, AsAsked
<1>2. ListsInv => [\A a \in Admin, g \in Group :
        LET w == work[a] IN
        w.alone /\ groups[g].here /\ groups[g].listed
            /\ \/ w.phase = "tag" /\ work'[a].phase \in {"idle", "remove"} /\ models' # models
               \/ w.phase = "remove" /\ models' # models
        => /\ g \in w.want => w.model.name \in groups[g].models
           /\ g \notin w.want => w.was \notin groups[g].models
           /\ w.was # w.model.name => w.was \notin groups[g].models]_DirectoryVars
  BY <1>1
<1>3. ASSUME ListsInv, [DirectoryNext]_DirectoryVars, NEW g \in Group,
             groups[g].here, ~groups'[g].here
      PROVE  \/ g # holder /\ Members(g, groups[g], models) = {}
             \/ \E a \in Admin : work[a].phase = "delete" /\ work[a].group = g /\ ~work[a].alone
  <2>1. /\ DOMAIN groups = Group
        /\ \A a \in Admin : WorkFits(work[a])
        /\ \A a \in Admin : work[a].alone => Knows(work[a])
    BY <1>3 DEF ListsInv
  <2>0. groups' # groups /\ DirectoryNext
    BY <1>3 DEF DirectoryVars
  <2>2. PICK a \in Admin : SaveGroup(a) \/ DeleteGroup(a) \/ SaveGroups(a)
    <3>1. \A a \in Admin, g2 \in Group :
             StartGroup(a, g2) \/ StartRemoval(a, g2) \/ StartUser(a, g2) => groups' = groups
      BY DEF StartGroup, StartRemoval, StartUser
    <3>2. \A a \in Admin, i \in Model, name \in Name, wanted \in SUBSET Group,
             synced \in BOOLEAN :
             StartModel(a, i, name, wanted, synced) => groups' = groups
      BY DEF StartModel
    <3>3. \A a \in Admin, i \in Model : StartModelRemoval(a, i) => groups' = groups
      BY DEF StartModelRemoval
    <3>4. \A a \in Admin :
             (\/ SaveModel(a) \/ ReadGroups(a) \/ SaveTag(a) \/ RemoveModel(a)
              \/ SaveUser(a) \/ GiveUp(a)) => groups' = groups
      BY DEF SaveModel, ReadGroups, SaveTag, RemoveModel, SaveUser, GiveUp
    <3> QED
      BY <2>0, <3>1, <3>2, <3>3, <3>4 DEF DirectoryNext
  <2>3. CASE SaveGroup(a)
    BY <1>3, <2>1, <2>3 DEF SaveGroup, WorkFits
  <2>4. CASE SaveGroups(a)
    <3>1. DOMAIN work[a].seen[g] = DOMAIN NoGroup
      BY <2>1 DEF WorkFits
    <3>2. Synced(g, work[a], models).here = work[a].seen[g].here
      BY <3>1, SyncedIsAsked
    <3> QED
      BY <1>3, <2>4, <3>2 DEF SaveGroups
  <2>5. CASE DeleteGroup(a)
    <3>1. work[a].phase = "delete" /\ work[a].group = g
      BY <1>3, <2>1, <2>5 DEF DeleteGroup
    <3> QED
      BY <2>1, <3>1 DEF Knows
  <2> QED
    BY <2>2, <2>3, <2>4, <2>5
<1>4. ListsInv /\ [DirectoryNext]_DirectoryVars =>
        [\A g \in Group :
            groups[g].here /\ ~groups'[g].here =>
                \/ g # holder /\ Members(g, groups[g], models) = {}
                \/ \E a \in Admin :
                       work[a].phase = "delete" /\ work[a].group = g /\ ~work[a].alone
        ]_DirectoryVars
  BY <1>3
<1> QED
  BY <1>2, <1>4, ListsStart, ListsKeep, PTL
     DEF DirectorySpec, ListsAsAsked, GroupsAsAsked, EmptyWhenRemoved

-----------------------------------------------------------------------------
(* A supplier account: whoever holds the lock reads, and whoever reads alone    *)
(* writes the row it read.                                                      *)
HoldsSync(j) == j.phase \in {"read", "fetch", "release"}
HoldsRow(j) == j.phase \in {"fetch", "edit"}

OneHoldsLock ==
    /\ lock = Leaked => trace.lost
    /\ lock \in Task => HoldsSync(job[lock])
    /\ ~trace.lost => \A t \in Task : HoldsSync(job[t]) => lock = t
FreshIsRow ==
    \A t \in Task : job[t].fresh /\ HoldsRow(job[t]) => job[t].row = supplierRow
AttemptIsNoted == trace.attempted /\ ~trace.overlapped => ~supplierRow.due

SyncInv ==
    /\ SupplierTypeOK
    /\ OneHoldsLock /\ FreshIsRow /\ AttemptIsNoted /\ ChoicesKept

LEMMA NoJobFits ==
    NoJob \in [phase : {"idle", "lock", "read", "fetch", "release", "edit"}, node : Node,
               scheduled : BOOLEAN, row : Row, fresh : BOOLEAN]
<1>1. (CHOOSE n \in Node : TRUE) \in Node
  BY SupplierAssumption
<1>2. FirstRow \in Row
  BY DEF FirstRow, Row, NoCredential
<1> QED
  BY <1>1, <1>2 DEF NoJob

LEMMA SyncStart ==
    ASSUME SupplierInit PROVE SyncInv
<1>1. FirstRow \in Row /\ SettingsChosen(FirstRow) \in
        [credential : Credential \cup {NoCredential}, enabled : BOOLEAN, routing : BOOLEAN]
  BY DEF FirstRow, Row, SettingsChosen, NoCredential
<1>2. SupplierTypeOK
  BY <1>1, NoJobFits DEF SupplierInit, SupplierTypeOK
<1>3. \A t \in Task : job[t].phase = "idle"
  BY DEF SupplierInit, NoJob
<1>4. FreeTask \notin Task
  BY SupplierAssumption DEF FreeTask
<1> QED
  BY <1>2, <1>3, <1>4
     DEF SupplierInit, SyncInv, OneHoldsLock, FreshIsRow, AttemptIsNoted, ChoicesKept,
         HoldsSync, HoldsRow, FreeTask, Leaked

\* What an operation that reads or ends does to the jobs: one record of its own.
LEMMA JobTyped ==
    ASSUME SupplierTypeOK, NEW t \in Task
    PROVE  /\ job[t].phase \in {"idle", "lock", "read", "fetch", "release", "edit"}
           /\ job[t].node \in Node /\ job[t].scheduled \in BOOLEAN
           /\ job[t].row \in Row /\ job[t].fresh \in BOOLEAN
           /\ job \in [Task -> [phase : {"idle", "lock", "read", "fetch", "release", "edit"},
                                node : Node, scheduled : BOOLEAN, row : Row, fresh : BOOLEAN]]
BY DEF SupplierTypeOK

\* A job that neither holds the lock nor the row before and after.
Stands(j, k) ==
    /\ HoldsSync(k) => HoldsSync(j)
    /\ HoldsRow(k) /\ k.fresh => HoldsRow(j) /\ j.fresh /\ k.row = j.row

LEMMA SyncStands ==
    ASSUME SyncInv, NEW t \in Task,
           UNCHANGED <<supplierRow, chosen, lock, trace>>,
           SupplierTypeOK',
           \A u \in Task \ {t} : job'[u] = job[u],
           Stands(job[t], job'[t]), lock = t => HoldsSync(job'[t])
    PROVE  SyncInv'
BY DEF SyncInv, OneHoldsLock, FreshIsRow, AttemptIsNoted, ChoicesKept, Stands,
       HoldsSync, HoldsRow

Begins == \E t \in Task :
    \/ \E n \in Node, scheduled \in BOOLEAN : StartSync(t, n, scheduled)
    \/ LockTaken(t) \/ StartEdit(t) \/ DropEdit(t)

LEMMA StartSyncKeeps ==
    ASSUME SyncInv, NEW t \in Task, NEW n \in Node, NEW scheduled \in BOOLEAN,
           StartSync(t, n, scheduled)
    PROVE  SyncInv'
<1> DEFINE k == [NoJob EXCEPT !.phase = "lock", !.node = n, !.scheduled = scheduled]
<1>1. /\ job[t].phase = "idle" /\ job' = [job EXCEPT ![t] = k]
      /\ UNCHANGED <<supplierRow, chosen, lock, trace>>
      /\ syncing' = syncing \cup {n}
  BY DEF StartSync, FirstFree
<1>2. k \in [phase : {"idle", "lock", "read", "fetch", "release", "edit"}, node : Node,
             scheduled : BOOLEAN, row : Row, fresh : BOOLEAN] /\ k.phase = "lock"
  BY NoJobFits
<1> HIDE DEF k
<1>3. SupplierTypeOK'
  BY <1>1, <1>2 DEF SyncInv, SupplierTypeOK
<1>4. job'[t] = k /\ \A u \in Task \ {t} : job'[u] = job[u]
  BY <1>1 DEF SyncInv, SupplierTypeOK
<1>5. lock # t
  BY <1>1 DEF SyncInv, OneHoldsLock, HoldsSync
<1> QED
  BY <1>1, <1>2, <1>3, <1>4, <1>5, SyncStands DEF Stands, HoldsSync, HoldsRow

LEMMA EndsKeeps ==
    ASSUME SyncInv, NEW t \in Task, LockTaken(t) \/ DropEdit(t)
    PROVE  SyncInv'
<1>1. /\ job[t].phase \in {"lock", "edit"} /\ job' = [job EXCEPT ![t] = NoJob]
      /\ UNCHANGED <<supplierRow, chosen, lock, trace>>
      /\ syncing' \subseteq syncing
  BY DEF LockTaken, DropEdit
<1>3. SupplierTypeOK'
  BY <1>1, NoJobFits DEF SyncInv, SupplierTypeOK
<1>4. job'[t] = NoJob /\ \A u \in Task \ {t} : job'[u] = job[u]
  BY <1>1 DEF SyncInv, SupplierTypeOK
<1>5. lock # t /\ NoJob.phase = "idle"
  BY <1>1 DEF SyncInv, OneHoldsLock, HoldsSync, NoJob
<1> QED
  BY <1>1, <1>3, <1>4, <1>5, SyncStands DEF Stands, HoldsSync, HoldsRow

LEMMA StartEditKeeps ==
    ASSUME SyncInv, NEW t \in Task, StartEdit(t)
    PROVE  SyncInv'
<1> DEFINE k == [NoJob EXCEPT !.phase = "edit", !.row = supplierRow]
<1>1. /\ job[t].phase = "idle" /\ job' = [job EXCEPT ![t] = k]
      /\ UNCHANGED <<supplierRow, chosen, lock, syncing, trace>>
  BY DEF StartEdit, FirstFree
<1>2. supplierRow \in Row
  BY DEF SyncInv, SupplierTypeOK
<1>3. k \in [phase : {"idle", "lock", "read", "fetch", "release", "edit"}, node : Node,
             scheduled : BOOLEAN, row : Row, fresh : BOOLEAN]
      /\ k.phase = "edit" /\ k.row = supplierRow
  BY <1>2, NoJobFits
<1> HIDE DEF k
<1>4. SupplierTypeOK'
  BY <1>1, <1>3 DEF SyncInv, SupplierTypeOK
<1>5. job'[t] = k /\ \A u \in Task \ {t} : job'[u] = job[u]
  BY <1>1 DEF SyncInv, SupplierTypeOK
<1>6. lock # t
  BY <1>1 DEF SyncInv, OneHoldsLock, HoldsSync
<1> QED
  BY <1>1, <1>3, <1>4, <1>5, <1>6
     DEF SyncInv, OneHoldsLock, FreshIsRow, AttemptIsNoted, ChoicesKept, HoldsSync, HoldsRow

LEMMA AcquireKeeps ==
    ASSUME SyncInv, NEW t \in Task, AcquireSyncLock(t)
    PROVE  SyncInv'
<1>1. /\ job[t].phase = "lock" /\ lock \in {FreeTask, Leaked}
      /\ lock' = (IF lock = FreeTask THEN t ELSE lock)
      /\ job' = [job EXCEPT ![t].phase = "read"]
      /\ UNCHANGED <<supplierRow, chosen, syncing, trace>>
  BY DEF AcquireSyncLock, Goes
<1>2. /\ job'[t] = [job[t] EXCEPT !.phase = "read"]
      /\ \A u \in Task \ {t} : job'[u] = job[u]
  BY <1>1 DEF SyncInv, SupplierTypeOK
<1>3. SupplierTypeOK'
  BY <1>1 DEF SyncInv, SupplierTypeOK
<1>4. job'[t].phase = "read"
  BY <1>2, JobTyped DEF SyncInv
<1>5. FreeTask \notin Task /\ Leaked \notin Task /\ FreeTask # Leaked
  BY SupplierAssumption DEF FreeTask, Leaked
<1> QED
  BY <1>1, <1>2, <1>3, <1>4, <1>5
     DEF SyncInv, OneHoldsLock, FreshIsRow, AttemptIsNoted, ChoicesKept, HoldsSync, HoldsRow

LEMMA ReadKeeps ==
    ASSUME SyncInv, NEW t \in Task, ReadAccount(t)
    PROVE  SyncInv'
<1> DEFINE k == job'[t]
<1>1. /\ job[t].phase = "read"
      /\ UNCHANGED <<supplierRow, chosen, syncing, lock, trace>>
  BY DEF ReadAccount
<1>2. /\ \/ k = [job[t] EXCEPT !.phase = "fetch", !.row = supplierRow, !.fresh = TRUE]
         \/ k = [job[t] EXCEPT !.phase = "release"]
      /\ \A u \in Task \ {t} : job'[u] = job[u]
      /\ job' = [job EXCEPT ![t] = k]
  BY DEF ReadAccount, SyncInv, SupplierTypeOK
<1>3. /\ k \in [phase : {"idle", "lock", "read", "fetch", "release", "edit"}, node : Node,
                scheduled : BOOLEAN, row : Row, fresh : BOOLEAN]
      /\ k.phase \in {"fetch", "release"}
      /\ k.phase = "fetch" => k.row = supplierRow
  <2>1. supplierRow \in Row
    BY DEF SyncInv, SupplierTypeOK
  <2>2. job[t] \in [phase : {"idle", "lock", "read", "fetch", "release", "edit"},
                    node : Node, scheduled : BOOLEAN, row : Row, fresh : BOOLEAN]
    BY DEF SyncInv, SupplierTypeOK
  <2> HIDE DEF k
  <2> QED
    BY <1>2, <2>1, <2>2
<1> HIDE DEF k
<1>4. SupplierTypeOK'
  BY <1>1, <1>2, <1>3 DEF SyncInv, SupplierTypeOK
<1>5. job'[t] = k
  BY DEF k
<1> QED
  BY <1>1, <1>2, <1>3, <1>4, <1>5
     DEF SyncInv, OneHoldsLock, FreshIsRow, AttemptIsNoted, ChoicesKept, HoldsSync, HoldsRow

\* A save: the others that have read the row are no longer fresh.
LEMMA SaveKeeps ==
    ASSUME SyncInv, NEW t \in Task, NEW row \in Row, NEW next, NEW choices,
           Save(t, row, next, choices), HoldsRow(job[t]),
           UNCHANGED <<syncing, lock>>,
           next \in [phase : {"idle", "lock", "read", "fetch", "release", "edit"}, node : Node,
                     scheduled : BOOLEAN, row : Row, fresh : BOOLEAN],
           next.phase = (IF job[t].phase = "fetch" THEN "release" ELSE "idle"),
           choices \in [credential : Credential \cup {NoCredential}, enabled : BOOLEAN,
                        routing : BOOLEAN],
           job[t].row = supplierRow /\ chosen = SettingsChosen(supplierRow)
              => choices = SettingsChosen(row),
           row.due => job[t].row.due /\ job[t].phase = "edit"
    PROVE  SyncInv'
<1>1. /\ supplierRow' = row
      /\ \A u \in Task : job'[u] = IF u = t THEN next
              ELSE [job[u] EXCEPT !.fresh = job[u].phase \notin {"fetch", "edit"}]
      /\ trace' = [trace EXCEPT !.overlapped = @ \/ ~job[t].fresh,
                                !.attempted = @ \/ job[t].phase = "fetch"]
      /\ chosen' = (IF trace'.overlapped THEN SettingsChosen(FirstRow) ELSE choices)
      /\ job' = [u \in Task |-> job'[u]]
  BY DEF Save
<1>2. /\ trace \in [overlapped : BOOLEAN, lost : BOOLEAN, attempted : BOOLEAN]
      /\ job[t].fresh \in BOOLEAN
  BY JobTyped DEF SyncInv, SupplierTypeOK
<1>3. /\ trace' \in [overlapped : BOOLEAN, lost : BOOLEAN, attempted : BOOLEAN]
      /\ trace'.overlapped <=> (trace.overlapped \/ ~job[t].fresh)
      /\ trace'.attempted <=> (trace.attempted \/ job[t].phase = "fetch")
      /\ trace'.lost <=> trace.lost
  BY <1>1, <1>2
<1>4. \A u \in Task \ {t} :
         /\ job'[u] \in [phase : {"idle", "lock", "read", "fetch", "release", "edit"},
                         node : Node, scheduled : BOOLEAN, row : Row, fresh : BOOLEAN]
         /\ job'[u].phase = job[u].phase
         /\ HoldsRow(job'[u]) => ~job'[u].fresh
  <2> TAKE u \in Task \ {t}
  <2>1. job[u] \in [phase : {"idle", "lock", "read", "fetch", "release", "edit"},
                    node : Node, scheduled : BOOLEAN, row : Row, fresh : BOOLEAN]
    BY DEF SyncInv, SupplierTypeOK
  <2>2. job'[u] = [job[u] EXCEPT !.fresh = job[u].phase \notin {"fetch", "edit"}]
    BY <1>1
  <2> QED
    BY <2>1, <2>2 DEF HoldsRow
<1>5. job'[t] = next /\ job' = [u \in Task |-> job'[u]]
  BY <1>1
<1>6. SettingsChosen(FirstRow) \in
        [credential : Credential \cup {NoCredential}, enabled : BOOLEAN, routing : BOOLEAN]
  BY DEF SettingsChosen, FirstRow, NoCredential
<1>7. SupplierTypeOK'
  BY <1>1, <1>3, <1>4, <1>5, <1>6 DEF SyncInv, SupplierTypeOK
<1>8. OneHoldsLock'
  BY <1>3, <1>4, <1>5 DEF SyncInv, OneHoldsLock, HoldsSync, HoldsRow
<1>9. FreshIsRow'
  BY <1>4, <1>5 DEF FreshIsRow, HoldsRow
<1>10. AttemptIsNoted'
  BY <1>1, <1>3 DEF SyncInv, AttemptIsNoted, FreshIsRow, HoldsRow
<1>11. ChoicesKept'
  BY <1>1, <1>3 DEF SyncInv, ChoicesKept, FreshIsRow, HoldsRow
<1> QED
  BY <1>7, <1>8, <1>9, <1>10, <1>11 DEF SyncInv

LEMMA AnswerKeeps ==
    ASSUME SyncInv, NEW t \in Task, SyncAnswered(t)
    PROVE  SyncInv'
<1> DEFINE row == [job[t].row EXCEPT !.due = FALSE]
           next == [job[t] EXCEPT !.phase = "release", !.row = FirstRow, !.fresh = TRUE]
<1>1. job[t].phase = "fetch" /\ Save(t, row, next, chosen) /\ UNCHANGED <<syncing, lock>>
  BY DEF SyncAnswered
<1>2. row \in Row /\ row.due = FALSE /\ SettingsChosen(row) = SettingsChosen(job[t].row)
  BY JobTyped DEF SyncInv, Row, SettingsChosen
<1>3. FirstRow \in Row
  BY DEF FirstRow, Row, NoCredential
<1>4. /\ next \in [phase : {"idle", "lock", "read", "fetch", "release", "edit"}, node : Node,
                   scheduled : BOOLEAN, row : Row, fresh : BOOLEAN]
      /\ next.phase = "release"
  BY <1>3, JobTyped DEF SyncInv
<1>5. chosen \in [credential : Credential \cup {NoCredential}, enabled : BOOLEAN,
                  routing : BOOLEAN]
  BY DEF SyncInv, SupplierTypeOK
<1>6. HoldsRow(job[t])
  BY <1>1 DEF HoldsRow
<1> HIDE DEF row, next
<1> QED
  BY <1>1, <1>2, <1>4, <1>5, <1>6, SaveKeeps

Edits(t) ==
    \/ \E credential \in Credential, enabled \in BOOLEAN :
          SaveCredential(t, credential, enabled)
    \/ \E enabled \in BOOLEAN : SaveEnabled(t, enabled)
    \/ \E routing \in BOOLEAN : SaveRouting(t, routing)

LEMMA SaveEditKeeps ==
    ASSUME SyncInv, NEW t \in Task, NEW row \in Row, NEW choices,
           SaveEdit(t, row, choices),
           choices \in [credential : Credential \cup {NoCredential}, enabled : BOOLEAN,
                        routing : BOOLEAN],
           job[t].row = supplierRow /\ chosen = SettingsChosen(supplierRow)
              => choices = SettingsChosen(row),
           row.due => job[t].row.due
    PROVE  SyncInv'
<1>1. job[t].phase = "edit" /\ Save(t, row, NoJob, choices) /\ UNCHANGED <<syncing, lock>>
  BY DEF SaveEdit
<1>2. HoldsRow(job[t]) /\ NoJob.phase = "idle"
  BY <1>1 DEF HoldsRow, NoJob
<1> QED
  BY <1>1, <1>2, NoJobFits, SaveKeeps

LEMMA EditsKeep ==
    ASSUME SyncInv, NEW t \in Task, Edits(t)
    PROVE  SyncInv'
<1>1. job[t].row \in Row
  BY JobTyped DEF SyncInv
<1>2. chosen \in [credential : Credential \cup {NoCredential}, enabled : BOOLEAN,
                  routing : BOOLEAN]
  BY DEF SyncInv, SupplierTypeOK
<1>3. ASSUME NEW credential \in Credential, NEW enabled \in BOOLEAN,
             SaveCredential(t, credential, enabled)
      PROVE  SyncInv'
  <2> DEFINE row == [job[t].row EXCEPT !.credential = credential, !.enabled = enabled,
                                       !.due = FALSE]
             choices == [chosen EXCEPT !.credential = credential, !.enabled = enabled]
  <2>1. SaveEdit(t, row, choices)
    BY <1>3 DEF SaveCredential
  <2>2. row \in Row /\ row.due = FALSE
    BY <1>1 DEF Row
  <2>3. choices \in [credential : Credential \cup {NoCredential}, enabled : BOOLEAN,
                     routing : BOOLEAN]
    BY <1>2
  <2>4. chosen = SettingsChosen(job[t].row) => choices = SettingsChosen(row)
    <3>1. /\ row.credential = credential /\ row.enabled = enabled
          /\ row.routing = job[t].row.routing
      BY <1>1 DEF Row
    <3>2. choices.routing = chosen.routing /\ choices.credential = credential
          /\ choices.enabled = enabled
      BY <1>2
    <3> HIDE DEF row, choices
    <3>3. choices = [credential |-> choices.credential, enabled |-> choices.enabled,
                     routing |-> choices.routing]
      BY <2>3
    <3>4. SettingsChosen(job[t].row).routing = job[t].row.routing
      BY DEF SettingsChosen
    <3> QED
      BY <3>1, <3>2, <3>3, <3>4 DEF SettingsChosen
  <2> HIDE DEF row, choices
  <2> QED
    BY <2>1, <2>2, <2>3, <2>4, SaveEditKeeps
<1>4. ASSUME NEW enabled \in BOOLEAN, SaveEnabled(t, enabled)
      PROVE  SyncInv'
  <2> DEFINE row == [job[t].row EXCEPT !.enabled = enabled]
             choices == [chosen EXCEPT !.enabled = enabled]
  <2>1. SaveEdit(t, row, choices)
    BY <1>4 DEF SaveEnabled
  <2>2. row \in Row /\ row.due = job[t].row.due
    BY <1>1 DEF Row
  <2>3. choices \in [credential : Credential \cup {NoCredential}, enabled : BOOLEAN,
                     routing : BOOLEAN]
    BY <1>2
  <2>4. chosen = SettingsChosen(job[t].row) => choices = SettingsChosen(row)
    BY <1>1, <1>2 DEF SettingsChosen, Row
  <2> HIDE DEF row, choices
  <2> QED
    BY <2>1, <2>2, <2>3, <2>4, SaveEditKeeps
<1>5. ASSUME NEW routing \in BOOLEAN, SaveRouting(t, routing)
      PROVE  SyncInv'
  <2> DEFINE row == [job[t].row EXCEPT !.routing = routing]
             choices == [chosen EXCEPT !.routing = routing]
  <2>1. SaveEdit(t, row, choices)
    BY <1>5 DEF SaveRouting
  <2>2. row \in Row /\ row.due = job[t].row.due
    BY <1>1 DEF Row
  <2>3. choices \in [credential : Credential \cup {NoCredential}, enabled : BOOLEAN,
                     routing : BOOLEAN]
    BY <1>2
  <2>4. chosen = SettingsChosen(job[t].row) => choices = SettingsChosen(row)
    BY <1>1, <1>2 DEF SettingsChosen, Row
  <2> HIDE DEF row, choices
  <2> QED
    BY <2>1, <2>2, <2>3, <2>4, SaveEditKeeps
<1> QED
  BY <1>3, <1>4, <1>5 DEF Edits

LEMMA ReleaseKeeps ==
    ASSUME SyncInv, NEW t \in Task, NEW answered \in BOOLEAN, ReleaseLock(t, answered)
    PROVE  SyncInv'
<1>1. /\ job[t].phase = "release" /\ job' = [job EXCEPT ![t] = NoJob]
      /\ lock' = (IF lock # t THEN lock ELSE IF answered THEN FreeTask ELSE Leaked)
      /\ syncing' \subseteq syncing
      /\ trace' = [trace EXCEPT !.lost = @ \/ (lock = t /\ ~answered)]
      /\ UNCHANGED <<supplierRow, chosen>>
  BY DEF ReleaseLock
<1>2. job'[t] = NoJob /\ NoJob.phase = "idle" /\ \A u \in Task \ {t} : job'[u] = job[u]
  BY <1>1 DEF SyncInv, SupplierTypeOK, NoJob
<1>3. trace \in [overlapped : BOOLEAN, lost : BOOLEAN, attempted : BOOLEAN]
  BY DEF SyncInv, SupplierTypeOK
<1>4. /\ trace' \in [overlapped : BOOLEAN, lost : BOOLEAN, attempted : BOOLEAN]
      /\ trace'.overlapped = trace.overlapped /\ trace'.attempted = trace.attempted
      /\ trace'.lost <=> (trace.lost \/ (lock = t /\ ~answered))
  BY <1>1, <1>3
<1>5. lock' \in Task \cup {FreeTask, Leaked}
  BY <1>1 DEF SyncInv, SupplierTypeOK
<1>6. SupplierTypeOK'
  BY <1>1, <1>4, <1>5, NoJobFits DEF SyncInv, SupplierTypeOK
<1>7. FreeTask \notin Task /\ Leaked \notin Task /\ FreeTask # Leaked
  BY SupplierAssumption DEF FreeTask, Leaked
<1> QED
  BY <1>1, <1>2, <1>4, <1>6, <1>7
     DEF SyncInv, OneHoldsLock, FreshIsRow, AttemptIsNoted, ChoicesKept, HoldsSync, HoldsRow

LEMMA LoseKeeps ==
    ASSUME SyncInv, LoseConnection
    PROVE  SyncInv'
<1>1. /\ lock' = FreeTask /\ trace' = [trace EXCEPT !.lost = TRUE]
      /\ UNCHANGED <<supplierRow, chosen, job, syncing>>
  BY DEF LoseConnection
<1>2. trace \in [overlapped : BOOLEAN, lost : BOOLEAN, attempted : BOOLEAN]
  BY DEF SyncInv, SupplierTypeOK
<1>3. /\ trace' \in [overlapped : BOOLEAN, lost : BOOLEAN, attempted : BOOLEAN]
      /\ trace'.overlapped = trace.overlapped /\ trace'.attempted = trace.attempted
      /\ trace'.lost
  BY <1>1, <1>2
<1>4. FreeTask \notin Task /\ FreeTask # Leaked
  BY SupplierAssumption DEF FreeTask, Leaked
<1> QED
  BY <1>1, <1>3, <1>4
     DEF SyncInv, SupplierTypeOK, OneHoldsLock, FreshIsRow, AttemptIsNoted, ChoicesKept,
         HoldsSync, HoldsRow

LEMMA StopKeeps ==
    ASSUME SyncInv, NEW n \in Node, StopNode(n)
    PROVE  SyncInv'
<1>1. /\ job' = [t \in Task |-> IF job[t].node = n THEN NoJob ELSE job[t]]
      /\ syncing' \subseteq syncing
      /\ lock' = (IF lock \in Task /\ job[lock].node = n THEN FreeTask ELSE lock)
      /\ UNCHANGED <<supplierRow, chosen, trace>>
  BY DEF StopNode
<1>2. \A t \in Task : job'[t] = IF job[t].node = n THEN NoJob ELSE job[t]
  BY <1>1
<1>3. NoJob.phase = "idle"
  BY DEF NoJob
<1>4. SupplierTypeOK'
  BY <1>1, NoJobFits DEF SyncInv, SupplierTypeOK
<1>5. FreeTask \notin Task /\ FreeTask # Leaked
  BY SupplierAssumption DEF FreeTask, Leaked
<1>6. OneHoldsLock'
  BY <1>1, <1>2, <1>3, <1>5 DEF SyncInv, OneHoldsLock, HoldsSync
<1>7. FreshIsRow'
  BY <1>1, <1>2, <1>3 DEF SyncInv, FreshIsRow, HoldsRow
<1> QED
  BY <1>1, <1>4, <1>6, <1>7 DEF SyncInv, AttemptIsNoted, ChoicesKept

LEMMA DueKeeps ==
    ASSUME SyncInv, BecomeDue
    PROVE  SyncInv'
<1>1. /\ supplierRow' = [supplierRow EXCEPT !.due = TRUE]
      /\ trace' = [trace EXCEPT !.attempted = FALSE]
      /\ job' = [t \in Task |-> IF job[t].phase \in {"fetch", "edit"}
                                THEN [job[t] EXCEPT !.row.due = TRUE] ELSE job[t]]
      /\ UNCHANGED <<chosen, syncing, lock>>
  BY DEF BecomeDue
<1>2. /\ trace \in [overlapped : BOOLEAN, lost : BOOLEAN, attempted : BOOLEAN]
      /\ supplierRow \in Row
  BY DEF SyncInv, SupplierTypeOK
<1>3. /\ trace' \in [overlapped : BOOLEAN, lost : BOOLEAN, attempted : BOOLEAN]
      /\ trace'.overlapped = trace.overlapped /\ trace'.lost = trace.lost
      /\ ~trace'.attempted
  BY <1>1, <1>2
<1>4. supplierRow' \in Row /\ SettingsChosen(supplierRow') = SettingsChosen(supplierRow)
  BY <1>1, <1>2 DEF Row, SettingsChosen
<1>5. ASSUME NEW t \in Task
      PROVE  /\ job'[t] \in [phase : {"idle", "lock", "read", "fetch", "release", "edit"},
                             node : Node, scheduled : BOOLEAN, row : Row, fresh : BOOLEAN]
             /\ job'[t].phase = job[t].phase /\ job'[t].fresh = job[t].fresh
             /\ HoldsRow(job[t]) => job'[t].row = [job[t].row EXCEPT !.due = TRUE]
  <2>1. /\ job[t].row \in Row
        /\ job[t] \in [phase : {"idle", "lock", "read", "fetch", "release", "edit"},
                       node : Node, scheduled : BOOLEAN, row : Row, fresh : BOOLEAN]
    BY JobTyped DEF SyncInv, SupplierTypeOK
  <2>2. [job[t].row EXCEPT !.due = TRUE] \in Row
    BY <2>1 DEF Row
  <2>3. job'[t] = IF job[t].phase \in {"fetch", "edit"}
                  THEN [job[t] EXCEPT !.row = [job[t].row EXCEPT !.due = TRUE]] ELSE job[t]
    BY <1>1
  <2> QED
    BY <2>1, <2>2, <2>3 DEF HoldsRow
<1>6. job' = [t \in Task |-> job'[t]]
  BY <1>1
<1>7. SupplierTypeOK'
  BY <1>1, <1>3, <1>4, <1>5, <1>6 DEF SyncInv, SupplierTypeOK
<1>8. OneHoldsLock'
  BY <1>1, <1>3, <1>5 DEF SyncInv, OneHoldsLock, HoldsSync
<1>9. FreshIsRow'
  BY <1>1, <1>5 DEF SyncInv, FreshIsRow, HoldsRow
<1> QED
  BY <1>1, <1>3, <1>4, <1>7, <1>8, <1>9 DEF SyncInv, AttemptIsNoted, ChoicesKept

LEMMA SyncStep ==
    SyncInv /\ [SupplierNext]_SupplierVars => SyncInv'
<1> SUFFICES ASSUME SyncInv, [SupplierNext]_SupplierVars PROVE SyncInv'
  OBVIOUS
<1>1. CASE UNCHANGED SupplierVars
  <2>1. UNCHANGED supplierRow /\ UNCHANGED chosen /\ UNCHANGED job /\ UNCHANGED syncing
        /\ UNCHANGED lock /\ UNCHANGED trace
    BY <1>1 DEF SupplierVars
  <2> QED
    BY <2>1 DEF SyncInv, SupplierTypeOK, OneHoldsLock, FreshIsRow, AttemptIsNoted,
                ChoicesKept
<1>2. CASE SupplierNext
  BY <1>2, StartSyncKeeps, AcquireKeeps, EndsKeeps, ReadKeeps, AnswerKeeps, ReleaseKeeps,
     StartEditKeeps, EditsKeep, LoseKeeps, StopKeeps, DueKeeps
     DEF SupplierNext, Edits
<1> QED
  BY <1>1, <1>2

-----------------------------------------------------------------------------
(* Its readings: what is stored was answered to, and tells what it is made of.  *)
Suppliers ==
    [key : DashboardToken \cup ApiKey \cup {NoKey},
     adapter : {"cctq", "cctq-api-key"}, enabled : BOOLEAN,
     readable : BOOLEAN, quota : Nat, part : [Parts -> Nat],
     status : {"unconfigured", "healthy", "stale", "credential_invalid"},
     error : Failures \cup {"none", "optional_sync_failed",
                            "decrypt_failed", "models_failed"},
     attempt : Int]

ReadingInv ==
    /\ supplier \in Suppliers
    /\ readings \in Nat /\ minutes \in Nat /\ asked \in Int /\ half \in BOOLEAN
    /\ half => supplier.key \in ApiKey /\ readings > 0
    /\ asked <= supplier.attempt /\ supplier.attempt <= minutes
    /\ CredentialProven /\ CleanMeansWhole

LEMMA ReadingStart ==
    ASSUME ReadingInit PROVE ReadingInv
<1>1. [p \in Parts |-> 0] \in [Parts -> Nat]
  OBVIOUS
<1>2. NeverRead \in Int /\ NeverRead <= 0
  BY ReadingAssumption DEF NeverRead
<1>3. supplier \in Suppliers
  BY <1>1, <1>2 DEF ReadingInit, Suppliers
<1>4. supplier.attempt = NeverRead /\ asked = NeverRead /\ minutes = 0 /\ readings = 0
      /\ half = FALSE /\ supplier.key = NoKey /\ supplier.status = "unconfigured"
  BY DEF ReadingInit
<1>5. CredentialProven /\ CleanMeansWhole
  BY <1>4 DEF CredentialProven, CleanMeansWhole
<1>6. readings \in Nat /\ minutes \in Nat /\ asked \in Int /\ half \in BOOLEAN /\ ~half
  BY <1>2, <1>4
<1>7. asked <= supplier.attempt /\ supplier.attempt <= minutes
  BY <1>2, <1>4
<1> QED
  BY <1>3, <1>5, <1>6, <1>7 DEF ReadingInv

\* A part that was there stays there.
KeepsParts ==
    \A p \in Parts :
        supplier.part[p] # 0 /\ (supplier'.key \in DashboardToken \/ p = "models")
            => supplier'.part[p] # 0

LEMMA PartsTyped ==
    ASSUME ReadingInv, NEW key \in DashboardToken \cup ApiKey, NEW missing \in Missing(key)
    PROVE  /\ PartsAfter(key, missing) \in [Parts -> Nat]
           /\ key \in DashboardToken /\ missing = {} =>
                 \A p \in Parts : PartsAfter(key, missing)[p] = readings + 1
           /\ \A p \in Parts :
                 supplier.part[p] # 0 /\ (key \in DashboardToken \/ p = "models") =>
                    PartsAfter(key, missing)[p] # 0
<1>1. supplier.part \in [Parts -> Nat] /\ readings \in Nat
  BY DEF ReadingInv, Suppliers
<1>2. readings + 1 \in Nat /\ readings + 1 # 0
  BY <1>1
<1> QED
  BY <1>1, <1>2 DEF PartsAfter

LEMMA SuccessKeeps ==
    ASSUME ReadingInv, NEW key \in DashboardToken \cup ApiKey, NEW enabled \in BOOLEAN,
           ApplySuccess(key, enabled), asked' \in {asked, minutes}
    PROVE  ReadingInv' /\ KeepsParts
<1>1. PICK missing \in Missing(key) :
          supplier' = [key |-> key, adapter |-> Adapter(key), enabled |-> enabled,
                       readable |-> TRUE, quota |-> readings + 1,
                       part |-> PartsAfter(key, missing), status |-> "healthy",
                       error |-> Warning(missing), attempt |-> minutes]
  BY DEF ApplySuccess
<1>2. /\ readings' = readings + 1 /\ proven' = proven \cup {key}
      /\ half' = (key \in ApiKey) /\ minutes' = minutes
  BY DEF ApplySuccess
<1>3. /\ readings \in Nat /\ minutes \in Nat /\ asked \in Int
      /\ asked <= supplier.attempt /\ supplier.attempt <= minutes /\ supplier.attempt \in Int
  BY DEF ReadingInv, Suppliers
<1>4. readings + 1 \in Nat /\ readings + 1 > 0 /\ asked <= minutes
  BY <1>3
<1>5. /\ PartsAfter(key, missing) \in [Parts -> Nat]
      /\ key \in DashboardToken /\ missing = {} =>
            \A p \in Parts : PartsAfter(key, missing)[p] = readings + 1
      /\ \A p \in Parts :
            supplier.part[p] # 0 /\ (key \in DashboardToken \/ p = "models") =>
               PartsAfter(key, missing)[p] # 0
  BY PartsTyped
<1>6. Adapter(key) \in {"cctq", "cctq-api-key"}
  BY DEF Adapter
<1>7. Warning(missing) \in {"none", "optional_sync_failed"}
      /\ (Warning(missing) = "none" => missing = {})
  BY DEF Warning
<1>8. supplier' \in Suppliers
  BY <1>1, <1>3, <1>4, <1>5, <1>6, <1>7 DEF Suppliers
<1>9. /\ supplier'.key = key /\ supplier'.error = Warning(missing)
      /\ supplier'.part = PartsAfter(key, missing) /\ supplier'.quota = readings + 1
      /\ supplier'.attempt = minutes
  BY <1>1
<1>10. CredentialProven'
  BY <1>2, <1>9 DEF CredentialProven
<1>11. CleanMeansWhole'
  BY <1>5, <1>7, <1>9 DEF CleanMeansWhole
<1>12. half' => supplier'.key \in ApiKey /\ readings' > 0
  BY <1>2, <1>4, <1>9
<1>13. asked' <= supplier'.attempt /\ supplier'.attempt <= minutes'
  BY <1>2, <1>3, <1>4, <1>9
<1>14. half' \in BOOLEAN /\ readings' \in Nat /\ minutes' \in Nat /\ asked' \in Int
  BY <1>2, <1>3, <1>4
<1>15. KeepsParts
  BY <1>5, <1>9 DEF KeepsParts
<1> QED
  BY <1>8, <1>10, <1>11, <1>12, <1>13, <1>14, <1>15 DEF ReadingInv, Suppliers

\* What changes neither the key nor the parts and takes no credit for a failure.
LEMMA RowKeeps ==
    ASSUME ReadingInv, supplier' \in Suppliers,
           supplier'.key = supplier.key, supplier'.part = supplier.part,
           supplier'.quota = supplier.quota,
           supplier'.status = "healthy" /\ supplier'.error = "none" =>
              supplier.status = "healthy" /\ supplier.error = "none",
           half' \in BOOLEAN, half' => half, UNCHANGED <<readings, proven>>,
           minutes' \in Nat, minutes <= minutes',
           supplier'.attempt \in {supplier.attempt, minutes},
           asked' = asked \/ (asked' = minutes /\ supplier'.attempt = minutes)
    PROVE  ReadingInv' /\ KeepsParts
<1>1. /\ readings \in Nat /\ minutes \in Nat /\ asked \in Int
      /\ asked <= supplier.attempt /\ supplier.attempt <= minutes /\ supplier.attempt \in Int
  BY DEF ReadingInv, Suppliers
<1>2. asked' \in Int /\ asked' <= supplier'.attempt /\ supplier'.attempt <= minutes'
  BY <1>1
<1>3. CredentialProven' /\ CleanMeansWhole' /\ KeepsParts
  BY DEF ReadingInv, CredentialProven, CleanMeansWhole, KeepsParts
<1>4. half' \in BOOLEAN /\ (half' => supplier'.key \in ApiKey /\ readings' > 0)
  BY DEF ReadingInv
<1> QED
  BY <1>1, <1>2, <1>3, <1>4 DEF ReadingInv, Suppliers

LEMMA FetchKeeps ==
    ASSUME ReadingInv, supplier.key # NoKey, FetchStored \/ Undecryptable
    PROVE  ReadingInv' /\ KeepsParts
<1>1. /\ supplier \in Suppliers /\ minutes \in Nat /\ minutes \in Int /\ half \in BOOLEAN
      /\ supplier.key \in DashboardToken \cup ApiKey /\ supplier.enabled \in BOOLEAN
  BY DEF ReadingInv, Suppliers
<1>2. CASE FetchStored /\ ApplySuccess(supplier.key, supplier.enabled)
  BY <1>1, <1>2, SuccessKeeps DEF FetchStored
<1>3. ASSUME FetchStored, NEW code \in Failures, supplier' = FailureNoted(code),
             UNCHANGED <<readings, minutes, proven, half>>
      PROVE  ReadingInv' /\ KeepsParts
  <2>1. StatusAfter(code) \in {"stale", "credential_invalid"}
    BY DEF StatusAfter
  <2>2. supplier' = [supplier EXCEPT !.status = StatusAfter(code), !.error = code,
                                     !.attempt = minutes]
    BY <1>3 DEF FailureNoted
  <2>3. supplier' \in Suppliers /\ supplier'.status # "healthy"
    <3>1. supplier' \in Suppliers
      BY <1>1, <2>1, <2>2 DEF Suppliers
    <3>2. supplier'.status = StatusAfter(code)
      BY <1>1, <2>2 DEF Suppliers
    <3> QED
      BY <2>1, <3>1, <3>2
  <2>4. /\ supplier'.key = supplier.key /\ supplier'.part = supplier.part
        /\ supplier'.quota = supplier.quota /\ supplier'.attempt = minutes
    BY <1>1, <2>2 DEF Suppliers
  <2>5. asked' = minutes /\ minutes <= minutes' /\ minutes' \in Nat
    BY <1>1, <1>3 DEF FetchStored
  <2>6. half' \in BOOLEAN /\ (half' => half)
    BY <1>1, <1>3
  <2> QED
    BY <1>3, <2>3, <2>4, <2>5, <2>6, RowKeeps
<1>4. CASE Undecryptable
  <2>1. supplier' = [supplier EXCEPT !.status = "credential_invalid",
                                     !.error = "decrypt_failed", !.attempt = minutes]
        /\ UNCHANGED <<readings, minutes, asked, proven, half>>
    BY <1>4 DEF Undecryptable
  <2>2. supplier' \in Suppliers /\ supplier'.status # "healthy"
    <3>1. supplier' \in Suppliers
      BY <1>1, <2>1 DEF Suppliers
    <3>2. supplier'.status = "credential_invalid"
      BY <1>1, <2>1 DEF Suppliers
    <3> QED
      BY <3>1, <3>2
  <2>3. /\ supplier'.key = supplier.key /\ supplier'.part = supplier.part
        /\ supplier'.quota = supplier.quota /\ supplier'.attempt = minutes
    BY <1>1, <2>1 DEF Suppliers
  <2>4. minutes <= minutes' /\ minutes' \in Nat
    BY <1>1, <2>1
  <2>5. half' \in BOOLEAN /\ (half' => half)
    BY <1>1, <2>1
  <2> QED
    BY <2>1, <2>2, <2>3, <2>4, <2>5, RowKeeps
<1> QED
  BY <1>2, <1>3, <1>4 DEF FetchStored

LEMMA SettingsKeep ==
    ASSUME ReadingInv, SaveSettings \/ SecretChanges
    PROVE  ReadingInv' /\ KeepsParts
<1>1. supplier \in Suppliers /\ minutes \in Nat /\ half \in BOOLEAN
  BY DEF ReadingInv, Suppliers
<1>2. \E v \in BOOLEAN : \/ supplier' = [supplier EXCEPT !.enabled = v]
                         \/ supplier' = [supplier EXCEPT !.readable = v]
  BY DEF SaveSettings, SecretChanges
<1>3. UNCHANGED <<readings, minutes, asked, proven, half>>
  BY DEF SaveSettings, SecretChanges
<1>4. /\ supplier' \in Suppliers /\ supplier'.status = supplier.status
      /\ supplier'.error = supplier.error
      /\ supplier'.key = supplier.key /\ supplier'.part = supplier.part
      /\ supplier'.quota = supplier.quota /\ supplier'.attempt = supplier.attempt
  BY <1>1, <1>2 DEF Suppliers
<1>5. minutes <= minutes' /\ minutes' \in Nat
  BY <1>1, <1>3
<1>6. half' \in BOOLEAN /\ (half' => half)
  BY <1>1, <1>3
<1> QED
  BY <1>3, <1>4, <1>5, <1>6, RowKeeps

LEMMA ModelsKeep ==
    ASSUME ReadingInv, SyncModelsBestEffort
    PROVE  ReadingInv' /\ KeepsParts
<1>1. /\ supplier \in Suppliers /\ minutes \in Nat /\ readings \in Nat
      /\ half /\ half' = FALSE /\ asked \in Int /\ UNCHANGED <<readings, minutes, asked, proven>>
  BY DEF ReadingInv, Suppliers, SyncModelsBestEffort
<1>2. supplier.key \in ApiKey /\ readings > 0 /\ supplier.key \notin DashboardToken
  BY <1>1, ReadingAssumption DEF ReadingInv
<1>3. CASE supplier' = [supplier EXCEPT !.part["models"] = readings]
  <2>1. /\ supplier' \in Suppliers /\ supplier'.key = supplier.key
        /\ supplier'.attempt = supplier.attempt
    BY <1>1, <1>3 DEF Suppliers
  <2>2. supplier.part \in [Parts -> Nat]
        /\ supplier'.part = [supplier.part EXCEPT !["models"] = readings]
    BY <1>1, <1>3 DEF Suppliers
  <2>3. KeepsParts
    BY <1>2, <2>1, <2>2 DEF KeepsParts, Parts
  <2>4. CredentialProven' /\ CleanMeansWhole'
    BY <1>1, <1>2, <2>1 DEF ReadingInv, CredentialProven, CleanMeansWhole
  <2>5. /\ half' \in BOOLEAN /\ ~half' /\ readings' \in Nat /\ minutes' \in Nat
        /\ asked' \in Int
    BY <1>1
  <2>6. asked' <= supplier'.attempt /\ supplier'.attempt <= minutes'
    BY <1>1, <2>1 DEF ReadingInv
  <2> QED
    BY <2>1, <2>3, <2>4, <2>5, <2>6 DEF ReadingInv
<1>4. CASE supplier' = [supplier EXCEPT !.error = "models_failed"]
  <2>1. /\ supplier' \in Suppliers /\ supplier'.error # "none"
        /\ supplier'.key = supplier.key /\ supplier'.part = supplier.part
        /\ supplier'.quota = supplier.quota /\ supplier'.attempt = supplier.attempt
    BY <1>1, <1>4 DEF Suppliers
  <2>2. minutes <= minutes' /\ minutes' \in Nat
    BY <1>1
  <2>3. half' \in BOOLEAN /\ (half' => half)
    BY <1>1
  <2> QED
    BY <1>1, <2>1, <2>2, <2>3, RowKeeps
<1> QED
  BY <1>3, <1>4 DEF SyncModelsBestEffort

LEMMA ReadingStep ==
    ReadingInv /\ [ReadingNext]_readingVars =>
        ReadingInv' /\ (KeepsParts \/ UNCHANGED readingVars)
<1> SUFFICES ASSUME ReadingInv, [ReadingNext]_readingVars
             PROVE  ReadingInv' /\ (KeepsParts \/ UNCHANGED readingVars)
  OBVIOUS
<1>1. CASE UNCHANGED readingVars
  <2>1. UNCHANGED supplier /\ UNCHANGED readings /\ UNCHANGED minutes /\ UNCHANGED asked
        /\ UNCHANGED proven /\ UNCHANGED half
    BY <1>1 DEF readingVars
  <2> QED
    BY <1>1, <2>1 DEF ReadingInv, CredentialProven, CleanMeansWhole
<1>2. CASE SaveNewCredential
  BY <1>2, SuccessKeeps DEF SaveNewCredential, TryCredential
<1>3. CASE SaveSettings \/ SecretChanges
  BY <1>3, SettingsKeep
<1>4. CASE Synchronize \/ ScheduledSync
  BY <1>4, FetchKeeps DEF Synchronize, ScheduledSync
<1>5. CASE SyncModelsBestEffort
  BY <1>5, ModelsKeep
<1>6. CASE StopsHalfWay \/ MinutePasses
  <2>1. /\ UNCHANGED <<supplier, readings, asked, proven>>
        /\ minutes' \in {minutes, minutes + 1}
    BY <1>6 DEF StopsHalfWay, MinutePasses
  <2>2. minutes <= minutes' /\ minutes' \in Nat
    BY <2>1 DEF ReadingInv
  <2>3. half \in BOOLEAN /\ ((half /\ half' = FALSE) \/ half' = half)
    BY <1>6 DEF StopsHalfWay, MinutePasses, ReadingInv
  <2>4. half' \in BOOLEAN /\ (half' => half)
    <3>1. CASE half /\ half' = FALSE
      BY <3>1
    <3>2. CASE half' = half
      BY <2>3, <3>2
    <3> QED
      BY <2>3, <3>1, <3>2
  <2>5. supplier' \in Suppliers
    BY <2>1 DEF ReadingInv
  <2> QED
    BY <2>1, <2>2, <2>4, <2>5, RowKeeps
<1> QED
  BY <1>1, <1>2, <1>3, <1>4, <1>5, <1>6 DEF ReadingNext

LEMMA NotHammeredStep ==
    ReadingInv => (ScheduledSync /\ supplier.readable => minutes - asked >= Interval)
BY ReadingAssumption DEF ReadingInv, Suppliers, ScheduledSync, IsSyncDue

-----------------------------------------------------------------------------
(* The alerts: what is counted as healthy are different minutes since a failure. *)
AlertInv ==
    /\ minute \in Nat
    /\ \A e \in Evaluator : evaluation[e].at \in Nat
    /\ evaluation = [e \in Evaluator |-> evaluation[e]]
    /\ alert \in [active : BOOLEAN, healthy : Nat, key : Nat, triggered : Nat]
    /\ tally \in [healthy : SUBSET Nat, triggered : Nat, late : BOOLEAN]
    /\ IsFiniteSet(tally.healthy)
    /\ tally.triggered = alert.triggered
    /\ ~tally.late =>
          /\ \A m \in tally.healthy : m <= alert.key
          /\ alert.active => Cardinality(tally.healthy) = alert.healthy

LEMMA AlertStart ==
    ASSUME AlertInit PROVE AlertInv
BY FS_EmptySet DEF AlertInit, AlertInv, NoEvaluation, NoMinute

\* What a transition tells: no recovery too early, no event too soon.
AlertTold ==
    /\ alert.active /\ ~alert'.active /\ ~tally'.late =>
          Cardinality(tally'.healthy) >= RecoveryWindows
    /\ tally'.triggered # tally.triggered /\ tally.triggered # NoMinute /\ ~tally'.late =>
          tally'.triggered - tally.triggered >= Suppression

LEMMA FailureKeeps ==
    ASSUME AlertInv, NEW e \in Evaluator, TransitionFailure(e)
    PROVE  AlertInv' /\ AlertTold
<1> DEFINE at == evaluation[e].at
           triggers == ~alert.active /\ ~Suppressed(e)
           last == IF triggers THEN at ELSE alert.triggered
<1>1. /\ evaluation' = [evaluation EXCEPT ![e] = NoEvaluation] /\ minute' = minute
      /\ at \in Nat
  BY DEF TransitionFailure, Applied, AlertInv
<1>2. /\ \A d \in Evaluator : evaluation'[d].at \in Nat
      /\ evaluation' = [d \in Evaluator |-> evaluation'[d]]
  BY <1>1 DEF AlertInv, NoEvaluation, NoMinute
<1>3. CASE UNCHANGED <<alert, tally>>
  <2>1. UNCHANGED alert /\ UNCHANGED tally
    BY <1>3
  <2> QED
    BY <1>1, <1>2, <2>1 DEF AlertInv, AlertTold
<1>4. CASE ~UNCHANGED <<alert, tally>>
  <2>1. /\ alert' = [active |-> TRUE, healthy |-> 0, key |-> at, triggered |-> last]
        /\ tally' = [healthy |-> {}, late |-> tally.late \/ Late(e), triggered |-> last]
    BY <1>4 DEF TransitionFailure, AlertInv
  <2>2. last \in Nat /\ (tally.late \/ Late(e)) \in BOOLEAN
    BY <1>1 DEF AlertInv
  <2>3. /\ alert' \in [active : BOOLEAN, healthy : Nat, key : Nat, triggered : Nat]
        /\ tally' \in [healthy : SUBSET Nat, triggered : Nat, late : BOOLEAN]
        /\ alert'.active /\ alert'.healthy = 0 /\ tally'.healthy = {}
        /\ tally'.triggered = last /\ alert'.triggered = last
    BY <1>1, <2>1, <2>2
  <2>4. last # tally.triggered /\ tally.triggered # NoMinute =>
           last - tally.triggered >= Suppression
    BY <1>1, AlertAssumption DEF AlertInv, Suppressed
  <2> HIDE DEF last
  <2> QED
    BY <1>1, <1>2, <2>3, <2>4, FS_EmptySet DEF AlertInv, AlertTold
<1> QED
  BY <1>3, <1>4

LEMMA HealthyKeeps ==
    ASSUME AlertInv, NEW e \in Evaluator, TransitionHealthy(e)
    PROVE  AlertInv' /\ AlertTold
<1> DEFINE at == evaluation[e].at
           recovers == Enough(alert.healthy + 1)
<1>1. /\ evaluation' = [evaluation EXCEPT ![e] = NoEvaluation] /\ minute' = minute
      /\ at \in Nat
  BY DEF TransitionHealthy, Applied, AlertInv
<1>2. /\ \A d \in Evaluator : evaluation'[d].at \in Nat
      /\ evaluation' = [d \in Evaluator |-> evaluation'[d]]
  BY <1>1 DEF AlertInv, NoEvaluation, NoMinute
<1>3. CASE UNCHANGED <<alert, tally>>
  <2>1. UNCHANGED alert /\ UNCHANGED tally
    BY <1>3
  <2> QED
    BY <1>1, <1>2, <2>1 DEF AlertInv, AlertTold
<1>4. CASE ~UNCHANGED <<alert, tally>>
  <2>1. /\ alert.active /\ NewEvaluation(e)
        /\ alert' = [alert EXCEPT !.key = at, !.active = ~recovers,
                                  !.healthy = IF recovers THEN 0 ELSE @ + 1]
        /\ tally' = [tally EXCEPT !.healthy = @ \cup {at}, !.late = @ \/ Late(e)]
    BY <1>4 DEF TransitionHealthy
  <2>2. /\ alert.healthy \in Nat /\ alert.key \in Nat /\ alert.triggered \in Nat
        /\ alert.healthy + 1 \in Nat /\ tally.late \in BOOLEAN
        /\ tally.healthy \subseteq Nat /\ IsFiniteSet(tally.healthy)
        /\ tally.triggered = alert.triggered
    BY DEF AlertInv
  <2>3. /\ alert'.active <=> ~recovers
        /\ alert'.healthy = (IF recovers THEN 0 ELSE alert.healthy + 1)
        /\ alert'.key = at /\ alert'.triggered = alert.triggered
        /\ alert' \in [active : BOOLEAN, healthy : Nat, key : Nat, triggered : Nat]
    BY <1>1, <2>1, <2>2 DEF AlertInv
  <2>4. /\ tally'.healthy = tally.healthy \cup {at} /\ tally'.triggered = tally.triggered
        /\ tally'.late <=> (tally.late \/ Late(e))
        /\ tally' \in [healthy : SUBSET Nat, triggered : Nat, late : BOOLEAN]
    BY <1>1, <2>1, <2>2 DEF AlertInv
  <2>5. IsFiniteSet(tally'.healthy)
    <3>1. IsFiniteSet(tally.healthy)
      BY <2>2
    <3>2. IsFiniteSet(tally.healthy \cup {at})
      BY <3>1, FS_AddElement
    <3> QED
      BY <2>4, <3>2
  <2>6. ASSUME ~tally'.late
        PROVE  /\ \A m \in tally'.healthy : m <= at
               /\ Cardinality(tally'.healthy) = alert.healthy + 1
    <3>1. /\ ~tally.late /\ ~(alert.key > at) /\ alert.key # at
      BY <2>1, <2>4, <2>6 DEF Late, NewEvaluation
    <3>2. alert.key < at
      BY <1>1, <2>2, <3>1
    <3>3. /\ \A m \in tally.healthy : m <= alert.key
          /\ Cardinality(tally.healthy) = alert.healthy
      BY <2>1, <3>1 DEF AlertInv
    <3>4. \A m \in tally.healthy : m < at
      BY <1>1, <2>2, <3>2, <3>3
    <3>5. at \notin tally.healthy
      BY <1>1, <3>4
    <3>6. Cardinality(tally.healthy \cup {at}) = Cardinality(tally.healthy) + 1
      BY <2>2, <3>5, FS_AddElement
    <3> QED
      BY <1>1, <2>2, <2>4, <3>3, <3>4, <3>6
  <2>7. recovers => alert.healthy + 1 >= RecoveryWindows
    BY DEF Enough
  <2> HIDE DEF recovers, at
  <2>8. AlertInv'
    BY <1>1, <1>2, <2>2, <2>3, <2>4, <2>5, <2>6 DEF AlertInv
  <2> QED
    BY <2>2, <2>3, <2>4, <2>6, <2>7, <2>8 DEF AlertTold
<1> QED
  BY <1>3, <1>4

LEMMA AlertStep ==
    AlertInv /\ [AlertNext]_AlertVars => AlertInv' /\ AlertTold
<1> SUFFICES ASSUME AlertInv, [AlertNext]_AlertVars PROVE AlertInv' /\ AlertTold
  OBVIOUS
<1>1. CASE UNCHANGED AlertVars
  <2>1. UNCHANGED minute /\ UNCHANGED evaluation /\ UNCHANGED alert /\ UNCHANGED tally
    BY <1>1 DEF AlertVars
  <2> QED
    BY <2>1 DEF AlertInv, AlertTold
<1>2. ASSUME NEW e \in Evaluator, NEW w \in Window, ReadWindow(e, w)
      PROVE  AlertInv' /\ AlertTold
  <2>1. /\ UNCHANGED minute /\ UNCHANGED alert /\ UNCHANGED tally
        /\ evaluation' = [evaluation EXCEPT ![e] =
             [at |-> minute, verdict |-> AlertVerdict(w), wasActive |-> alert.active]]
    BY <1>2 DEF ReadWindow
  <2>2. /\ \A d \in Evaluator : evaluation'[d].at \in Nat
        /\ evaluation' = [d \in Evaluator |-> evaluation'[d]]
    BY <2>1 DEF AlertInv
  <2> QED
    BY <2>1, <2>2 DEF AlertInv, AlertTold
<1>3. ASSUME NEW e \in Evaluator, EndEvaluation(e)
      PROVE  AlertInv' /\ AlertTold
  <2>1. /\ UNCHANGED minute /\ UNCHANGED alert /\ UNCHANGED tally
        /\ evaluation' = [evaluation EXCEPT ![e] = NoEvaluation]
    BY <1>3 DEF EndEvaluation, Applied
  <2>2. /\ \A d \in Evaluator : evaluation'[d].at \in Nat
        /\ evaluation' = [d \in Evaluator |-> evaluation'[d]]
    BY <2>1 DEF AlertInv, NoEvaluation, NoMinute
  <2> QED
    BY <2>1, <2>2 DEF AlertInv, AlertTold
<1>4. CASE NextMinute
  <2>1. minute' = minute + 1 /\ UNCHANGED evaluation /\ UNCHANGED alert /\ UNCHANGED tally
    BY <1>4 DEF NextMinute
  <2> QED
    BY <2>1 DEF AlertInv, AlertTold
<1> QED
  BY <1>1, <1>2, <1>3, <1>4, FailureKeeps, HealthyKeeps DEF AlertNext

-----------------------------------------------------------------------------
\* Whatever instances, administrators and suppliers do at once: an account is read by one
\* at a time and once per interval, what an administrator chose of it stays, a reading
\* that brings a part leaves an account that says so, and an alert comes once and ends
\* after two good minutes (supplier-account.service.ts, supplier-account-sync.service.ts,
\* availability-monitoring.service.ts).
THEOREM AdministrationStands == AdministrationSpec => AdministrationHolds
<1>1. SyncInv => OneSyncAtATime /\ ChoicesKept /\ LockIsReturned
  BY DEF SyncInv, OneHoldsLock, OneSyncAtATime, LockIsReturned, HoldsSync
<1>2. ASSUME SyncInv, [SupplierNext]_SupplierVars, NEW t \in Task,
             job[t].phase = "read", job'[t].phase = "fetch", job[t].scheduled,
             trace.attempted
      PROVE  trace.overlapped
  <2>1. job[t].phase # job'[t].phase
    BY <1>2
  <2>2. SupplierNext
    BY <1>2, <2>1 DEF SupplierVars
  <2>3. ReadAccount(t)
    <3>1. job \in [Task -> [phase : {"idle", "lock", "read", "fetch", "release", "edit"},
                            node : Node, scheduled : BOOLEAN, row : Row, fresh : BOOLEAN]]
      BY <1>2 DEF SyncInv, SupplierTypeOK
    <3>2. NoJob.phase = "idle"
      BY DEF NoJob
    <3>3. ASSUME NEW u \in Task, NEW row, NEW next, NEW choices, Save(u, row, next, choices),
                 next.phase # "fetch"
          PROVE  FALSE
      <4>1. job'[t] = IF t = u THEN next
                      ELSE [job[t] EXCEPT !.fresh = job[t].phase \notin {"fetch", "edit"}]
        BY <3>3 DEF Save
      <4>2. [job[t] EXCEPT !.fresh = job[t].phase \notin {"fetch", "edit"}].phase
               = job[t].phase
        BY <3>1
      <4> QED
        BY <1>2, <3>3, <4>1, <4>2
    <3>4. ~\E u \in Task : SyncAnswered(u)
      <4> SUFFICES ASSUME NEW u \in Task, SyncAnswered(u) PROVE FALSE
        OBVIOUS
      <4>1. [job[u] EXCEPT !.phase = "release", !.row = FirstRow, !.fresh = TRUE].phase
               = "release"
        BY <3>1
      <4> QED
        BY <3>3, <4>1 DEF SyncAnswered
    <3>5. ~\E u \in Task : Edits(u)
      BY <3>2, <3>3 DEF Edits, SaveCredential, SaveEnabled, SaveRouting, SaveEdit
    <3>6. ASSUME NEW u \in Task, NEW k, job' = [job EXCEPT ![u] = k],
                 k.phase # "fetch"
          PROVE  FALSE
      BY <1>2, <3>1, <3>6
    <3>7. ~\E u \in Task : LockTaken(u) \/ DropEdit(u)
                           \/ \E answered \in BOOLEAN : ReleaseLock(u, answered)
      BY <3>2, <3>6 DEF LockTaken, DropEdit, ReleaseLock
    <3>8. ~\E u \in Task, n \in Node, scheduled \in BOOLEAN : StartSync(u, n, scheduled)
      <4> SUFFICES ASSUME NEW u \in Task, NEW n \in Node, NEW scheduled \in BOOLEAN,
                          StartSync(u, n, scheduled)
                   PROVE  FALSE
        OBVIOUS
      <4>1. [NoJob EXCEPT !.phase = "lock", !.node = n, !.scheduled = scheduled].phase
              = "lock"
        BY DEF NoJob
      <4> QED
        BY <3>6, <4>1 DEF StartSync
    <3>9. ~\E u \in Task : StartEdit(u)
      <4> SUFFICES ASSUME NEW u \in Task, StartEdit(u) PROVE FALSE
        OBVIOUS
      <4>1. [NoJob EXCEPT !.phase = "edit", !.row = supplierRow].phase = "edit"
        BY DEF NoJob
      <4> QED
        BY <3>6, <4>1 DEF StartEdit
    <3>10. ~\E u \in Task : AcquireSyncLock(u)
      <4> SUFFICES ASSUME NEW u \in Task, AcquireSyncLock(u) PROVE FALSE
        OBVIOUS
      <4>1. job' = [job EXCEPT ![u] = [job[u] EXCEPT !.phase = "read"]]
        BY DEF AcquireSyncLock, Goes
      <4>2. [job[u] EXCEPT !.phase = "read"].phase = "read"
        BY <3>1
      <4> QED
        BY <3>6, <4>1, <4>2
    <3>11. ~LoseConnection
      BY <2>1 DEF LoseConnection
    <3>12. ~\E n \in Node : StopNode(n)
      BY <1>2, <3>2 DEF StopNode
    <3>13. ~BecomeDue
      <4> SUFFICES ASSUME BecomeDue PROVE FALSE
        OBVIOUS
      <4>1. job'[t] = job[t]
        BY <1>2 DEF BecomeDue
      <4> QED
        BY <2>1, <4>1
    <3>14. \A u \in Task : u # t => ~ReadAccount(u)
      BY <2>1, <3>1 DEF ReadAccount
    <3> QED
      BY <2>2, <3>4, <3>5, <3>7, <3>8, <3>9, <3>10, <3>11, <3>12, <3>13, <3>14
         DEF SupplierNext, Edits
  <2>4. supplierRow.due
    <3>1. ~StillDue(t) => job'[t] = [job[t] EXCEPT !.phase = "release"]
      BY <1>2, <2>3 DEF ReadAccount, SyncInv, SupplierTypeOK
    <3>2. [job[t] EXCEPT !.phase = "release"].phase = "release"
      BY <1>2 DEF SyncInv, SupplierTypeOK
    <3> QED
      BY <1>2, <3>1, <3>2 DEF StillDue
  <2> QED
    BY <1>2, <2>4 DEF SyncInv, AttemptIsNoted
<1>3. SyncInv /\ [SupplierNext]_SupplierVars =>
        [\A t \in Task :
            job[t].phase = "read" /\ job'[t].phase = "fetch" /\ job[t].scheduled
               /\ trace.attempted => trace.overlapped]_SupplierVars
  BY <1>2
<1>4. ReadingInv => CredentialProven /\ CleanMeansWhole
  BY DEF ReadingInv
<1>5. ReadingInv /\ [ReadingNext]_readingVars =>
        /\ [\A p \in Parts :
              supplier.part[p] # 0 /\ (supplier'.key \in DashboardToken \/ p = "models") =>
                  supplier'.part[p] # 0]_readingVars
        /\ [ScheduledSync /\ supplier.readable => minutes - asked >= Interval]_readingVars
  BY ReadingStep, NotHammeredStep DEF KeepsParts
<1>6. AlertInv /\ [AlertNext]_AlertVars =>
        /\ [alert.active /\ ~alert'.active /\ ~tally'.late =>
              Cardinality(tally'.healthy) >= RecoveryWindows]_AlertVars
        /\ [tally'.triggered # tally.triggered /\ tally.triggered # NoMinute
              /\ ~tally'.late =>
              tally'.triggered - tally.triggered >= Suppression]_AlertVars
  BY AlertStep DEF AlertTold
<1>7. ReadingInv /\ [ReadingNext]_readingVars => ReadingInv'
  BY ReadingStep
<1>8. AlertInv /\ [AlertNext]_AlertVars => AlertInv'
  BY AlertStep
<1> QED
  BY <1>1, <1>3, <1>4, <1>5, <1>6, <1>7, <1>8, SyncStart, SyncStep, ReadingStart,
     AlertStart, PTL
     DEF AdministrationSpec, AdministrationHolds, SyncHolds, ReadingHolds, AlertsHold,
         SupplierSpec, ReadingSpec, AlertSpec, OncePerInterval, PartsKept, NotHammered,
         RecoversAfterTwoMinutes, EventsSuppressed

-----------------------------------------------------------------------------
(* The packages of quota: who holds the rows has read what is stored.           *)
Update(u) ==
    /\ u.stage \in {"none", "queued", "locked"} /\ u.reason \in BOOLEAN
    /\ u.asked \in Packages /\ u.before \in Packages /\ u.period \in Month
TrailRow == [period : Month, before : Packages, after : Packages]
OneLocks ==
    \A a, b \in Officer : update[a].stage = "locked" /\ update[b].stage = "locked" => a = b
LockedIsStored ==
    \A a \in Officer :
        update[a].stage = "locked" => update[a].before = InMonth(update[a].period)

AdjustmentInv ==
    /\ packages \in [fixed : Package, temporary : [Month -> Package]]
    /\ month \in Month /\ seen \in [Officer -> Packages]
    /\ trail \in Seq(TrailRow)
    /\ DOMAIN update = Officer /\ \A a \in Officer : Update(update[a])
    /\ OneLocks /\ LockedIsStored /\ TrailAccounts

LEMMA BlankFits == Blank \in Packages /\ Update(Away) /\ Away.stage = "none"
<1>1. Blank \in Packages
  BY AdjustmentAssumption DEF Blank, Packages
<1>2. 1 \in Month
  BY AdjustmentAssumption DEF Month
<1> QED
  BY <1>1, <1>2 DEF Update, Away

LEMMA InMonthFits ==
    ASSUME packages \in [fixed : Package, temporary : [Month -> Package]], NEW m \in Month
    PROVE  InMonth(m) \in Packages
BY DEF InMonth, Packages

\* A set of numbers that is finite has a greatest one.
LEMMA GreatestExists ==
    ASSUME NEW S \in SUBSET Int, IsFiniteSet(S), S # {}
    PROVE  \E n \in S : \A m \in S : m <= n
<1> DEFINE f == [x \in S |-> x]
<1>1. \A x \in S : f[x] \in Int /\ f[x] = x
  OBVIOUS
<1> HIDE DEF f
<1>2. \E n \in S : \A x \in S : f[x] <= f[n]
  BY <1>1, LargestExists
<1> QED
  BY <1>1, <1>2

\* What n rows leave stored of a month, after one more row than those.
LEMMA TemporaryGrows ==
    ASSUME NEW rows, NEW n \in Nat, NEW m
    PROVE  TemporaryAfter(rows, n + 1, m)
             = IF rows[n + 1].period = m THEN rows[n + 1].after.temporary
               ELSE TemporaryAfter(rows, n, m)
<1> DEFINE S == OfMonth(rows, n + 1, m)
           T == OfMonth(rows, n, m)
           last == LastOfMonth(rows, n + 1, m)
<1>1. 1..(n + 1) = 1..n \cup {n + 1} /\ n + 1 \in Int /\ \A i \in 1..n : i \in Int /\ i < n + 1
  OBVIOUS
<1>2. CASE rows[n + 1].period = m
  <2>1. n + 1 \in S /\ \A j \in S : j \in Int /\ j <= n + 1
    BY <1>1, <1>2 DEF OfMonth
  <2>2. last \in S /\ \A j \in S : j <= last
    <3>1. \E i \in S : \A j \in S : j <= i
      BY <2>1
    <3>2. last = CHOOSE i \in S : \A j \in S : j <= i
      BY DEF LastOfMonth
    <3> HIDE DEF S, last
    <3> QED
      BY <3>1, <3>2
  <2>3. last = n + 1
    <3> HIDE DEF S, last
    <3> QED
      BY <1>1, <2>1, <2>2
  <2>4. S # {}
    BY <2>1
  <2> QED
    BY <1>2, <2>3, <2>4 DEF TemporaryAfter
<1>3. CASE rows[n + 1].period # m
  <2>1. S = T
    BY <1>1, <1>3 DEF OfMonth
  <2>2. LastOfMonth(rows, n + 1, m) = LastOfMonth(rows, n, m)
    BY <2>1 DEF LastOfMonth
  <2> QED
    BY <1>3, <2>1, <2>2 DEF TemporaryAfter
<1> QED
  BY <1>2, <1>3

\* The rows up to the n-th are all that counts for it.
LEMMA TemporaryAgrees ==
    ASSUME NEW n \in Nat, NEW rows, NEW more, NEW m, \A i \in 1..n : more[i] = rows[i]
    PROVE  /\ TemporaryAfter(more, n, m) = TemporaryAfter(rows, n, m)
           /\ FixedAfter(more, n) = FixedAfter(rows, n)
<1>1. OfMonth(more, n, m) = OfMonth(rows, n, m)
  BY DEF OfMonth
<1>2. CASE OfMonth(rows, n, m) = {}
  BY <1>1, <1>2 DEF TemporaryAfter, FixedAfter
<1>3. CASE OfMonth(rows, n, m) # {}
  <2> DEFINE S == OfMonth(rows, n, m)
             last == LastOfMonth(rows, n, m)
  <2>2. IsFiniteSet(S)
    <3>1. S \in SUBSET (1..n)
      BY DEF OfMonth
    <3>2. IsFiniteSet(1..n)
      BY FS_Interval
    <3> HIDE DEF S
    <3> QED
      BY <3>1, <3>2, FS_Subset
  <2>1. S \in SUBSET Int /\ S \subseteq 1..n
    BY DEF OfMonth
  <2>3. \E i \in S : \A j \in S : j <= i
    <3> HIDE DEF S
    <3> QED
      BY <1>3, <2>1, <2>2, GreatestExists DEF S
  <2>4. last \in S
    <3>1. last = CHOOSE i \in S : \A j \in S : j <= i
      BY DEF LastOfMonth
    <3> HIDE DEF S, last
    <3> QED
      BY <2>3, <3>1
  <2>5. more[last] = rows[last]
    BY <2>1, <2>4
  <2>6. TemporaryAfter(more, n, m) = more[last].after.temporary
        /\ TemporaryAfter(rows, n, m) = rows[last].after.temporary
    BY <1>1, <1>3 DEF TemporaryAfter, LastOfMonth
  <2>7. FixedAfter(more, n) = FixedAfter(rows, n)
    BY DEF FixedAfter
  <2> QED
    BY <2>5, <2>6, <2>7
<1> QED
  BY <1>2, <1>3

\* One row more, that starts from what is stored and ends at what is stored then.
LEMMA TrailGrows ==
    ASSUME TrailAccounts, trail \in Seq(TrailRow), NEW row \in TrailRow,
           packages \in [fixed : Package, temporary : [Month -> Package]],
           row.before = InMonth(row.period),
           trail' = Append(trail, row),
           packages' = [packages EXCEPT !.fixed = row.after.fixed,
                                        !.temporary[row.period] = row.after.temporary]
    PROVE  TrailAccounts'
<1> DEFINE n == Len(trail)
<1>1. /\ n \in Nat /\ DOMAIN trail = 1..n /\ DOMAIN trail' = 1..(n + 1) /\ Len(trail') = n + 1
      /\ \A i \in 1..n : trail'[i] = trail[i]
      /\ trail'[n + 1] = row
  OBVIOUS
<1>2. \A i \in 1..(n + 1) : i \in 1..n \/ i = n + 1
  BY <1>1
<1>3. ASSUME NEW i \in 0..n, NEW m
      PROVE  /\ TemporaryAfter(trail', i, m) = TemporaryAfter(trail, i, m)
             /\ FixedAfter(trail', i) = FixedAfter(trail, i)
  <2>1. i \in Nat /\ \A k \in 1..i : trail'[k] = trail[k]
    BY <1>1
  <2>2. ASSUME NEW rows, NEW more, \A k \in 1..i : more[k] = rows[k]
        PROVE  /\ TemporaryAfter(more, i, m) = TemporaryAfter(rows, i, m)
               /\ FixedAfter(more, i) = FixedAfter(rows, i)
    <3> HIDE DEF n
    <3> QED
      BY <2>1, <2>2, TemporaryAgrees
  <2> QED
    BY <2>1, <2>2
<1>4. ASSUME NEW i \in 1..n
      PROVE  trail'[i].before =
               [fixed |-> FixedAfter(trail', i - 1),
                temporary |-> TemporaryAfter(trail', i - 1, trail'[i].period)]
  <2>1. i - 1 \in 0..n
    BY <1>1
  <2> QED
    BY <1>1, <1>3, <2>1 DEF TrailAccounts
<1>5. trail'[n + 1].before =
        [fixed |-> FixedAfter(trail', n), temporary |-> TemporaryAfter(trail', n, row.period)]
  <2>1. n \in 0..n /\ row.period \in Month
    BY <1>1 DEF TrailRow
  <2>2. FixedAfter(trail', n) = packages.fixed
        /\ TemporaryAfter(trail', n, row.period) = packages.temporary[row.period]
    BY <1>3, <2>1 DEF TrailAccounts
  <2> QED
    BY <1>1, <2>2 DEF InMonth
<1>6. n + 1 - 1 = n /\ n + 1 # 0
  BY <1>1
<1>7. \A i \in DOMAIN trail' :
          trail'[i].before =
             [fixed |-> FixedAfter(trail', i - 1),
              temporary |-> TemporaryAfter(trail', i - 1, trail'[i].period)]
  BY <1>1, <1>2, <1>4, <1>5, <1>6
<1>8. packages'.fixed = FixedAfter(trail', Len(trail'))
  BY <1>1, <1>6 DEF FixedAfter
<1>9. ASSUME NEW m \in Month
      PROVE  packages'.temporary[m] = TemporaryAfter(trail', Len(trail'), m)
  <2>1. TemporaryAfter(trail', n + 1, m) =
          IF row.period = m THEN row.after.temporary ELSE TemporaryAfter(trail', n, m)
    <3>1. \A rows : TemporaryAfter(rows, n + 1, m)
             = IF rows[n + 1].period = m THEN rows[n + 1].after.temporary
               ELSE TemporaryAfter(rows, n, m)
      BY <1>1, TemporaryGrows
    <3> QED
      BY <1>1, <3>1
  <2>2. TemporaryAfter(trail', n, m) = packages.temporary[m]
    BY <1>1, <1>3 DEF TrailAccounts
  <2>3. packages'.temporary[m] =
          IF row.period = m THEN row.after.temporary ELSE packages.temporary[m]
    OBVIOUS
  <2> QED
    BY <1>1, <2>1, <2>2, <2>3
<1> HIDE DEF n
<1> QED
  BY <1>7, <1>8, <1>9 DEF TrailAccounts

LEMMA AdjustmentStart ==
    ASSUME AdjustmentInit PROVE AdjustmentInv
<1>1. /\ packages = [fixed |-> 0, temporary |-> [m \in Month |-> 0]]
      /\ trail = <<>> /\ month = 1
      /\ seen = [a \in Officer |-> Blank] /\ update = [a \in Officer |-> Away]
  BY DEF AdjustmentInit
<1>2. <<>> \in Seq(TrailRow) /\ DOMAIN <<>> = {} /\ Len(<<>>) = 0
  OBVIOUS
<1>3. packages \in [fixed : Package, temporary : [Month -> Package]] /\ month \in Month
  BY <1>1, AdjustmentAssumption DEF Month
<1>4. TrailAccounts
  <2>1. \A m \in Month : TemporaryAfter(<<>>, 0, m) = 0
    BY DEF TemporaryAfter, OfMonth
  <2>2. FixedAfter(<<>>, 0) = 0
    BY DEF FixedAfter
  <2> QED
    BY <1>1, <1>2, <2>1, <2>2 DEF TrailAccounts
<1>5. OneLocks /\ LockedIsStored
  BY <1>1, BlankFits DEF OneLocks, LockedIsStored
<1> QED
  BY <1>1, <1>2, <1>3, <1>4, <1>5, BlankFits DEF AdjustmentInv

\* A page moves, and what is stored stays.
LEMMA PageMoves ==
    ASSUME AdjustmentInv, NEW a \in Officer, NEW u, Update(u),
           update' = [update EXCEPT ![a] = u],
           u.stage = "locked" => /\ \A b \in Officer : update[b].stage # "locked"
                                 /\ u.before = InMonth(u.period),
           UNCHANGED <<packages, trail, month, seen>>
    PROVE  AdjustmentInv'
<1>1. /\ DOMAIN update' = Officer /\ update'[a] = u
      /\ \A b \in Officer \ {a} : update'[b] = update[b]
  BY DEF AdjustmentInv
<1>2. \A m : InMonth(m)' = InMonth(m)
  BY DEF InMonth
<1>3. OneLocks' /\ LockedIsStored'
  BY <1>1, <1>2 DEF AdjustmentInv, OneLocks, LockedIsStored
<1>4. TrailAccounts'
  BY DEF AdjustmentInv, TrailAccounts
<1> QED
  BY <1>1, <1>3, <1>4 DEF AdjustmentInv

\* What is typed changes nothing unless it is asked for: only a page that holds the rows.
LEMMA StoreKeeps ==
    ASSUME AdjustmentInv, NEW a \in Officer, StoreUpdate(a)
    PROVE  /\ AdjustmentInv'
           /\ update[a].asked = update[a].before => UNCHANGED <<packages, trail>>
<1> DEFINE u == update[a]
           row == [period |-> u.period, before |-> u.before, after |-> u.asked]
<1>1. /\ u.stage = "locked" /\ UNCHANGED month /\ UNCHANGED seen
      /\ packages' = [packages EXCEPT !.fixed = u.asked.fixed,
                                      !.temporary[u.period] = u.asked.temporary]
      /\ trail' = (IF u.asked = u.before THEN trail ELSE Append(trail, row))
      /\ update' = [update EXCEPT ![a] = Away]
  BY DEF StoreUpdate, Store, Recorded
<1>2. /\ Update(u) /\ u.before = InMonth(u.period)
      /\ packages \in [fixed : Package, temporary : [Month -> Package]]
      /\ trail \in Seq(TrailRow) /\ TrailAccounts
  BY <1>1 DEF AdjustmentInv, LockedIsStored
<1>3. /\ u.period \in Month /\ u.asked \in Packages /\ u.before \in Packages
      /\ row \in TrailRow /\ row.before = u.before /\ row.period = u.period
      /\ row.after = u.asked
  BY <1>2 DEF Update, TrailRow
<1>4. packages' \in [fixed : Package, temporary : [Month -> Package]]
  BY <1>1, <1>2, <1>3 DEF Packages
<1>5. /\ DOMAIN update' = Officer /\ update'[a] = Away
      /\ \A b \in Officer \ {a} : update'[b] = update[b]
  BY <1>1 DEF AdjustmentInv
<1>6. \A b \in Officer : update'[b].stage # "locked"
  BY <1>1, <1>5, BlankFits DEF AdjustmentInv, OneLocks
<1>7. \A b \in Officer : Update(update'[b])
  BY <1>5, BlankFits DEF AdjustmentInv
<1>8. u.asked = u.before => packages' = packages
  <2> SUFFICES ASSUME u.asked = u.before PROVE packages' = packages
    OBVIOUS
  <2>1. u.asked.fixed = packages.fixed /\ u.asked.temporary = packages.temporary[u.period]
    BY <1>2 DEF InMonth
  <2>2. packages' = [packages EXCEPT !.fixed = packages.fixed,
                                     !.temporary[u.period] = packages.temporary[u.period]]
    BY <1>1, <2>1
  <2> HIDE DEF u
  <2>3. [packages.temporary EXCEPT ![u.period] = packages.temporary[u.period]]
           = packages.temporary
    BY <1>2
  <2> QED
    BY <1>2, <2>2, <2>3
<1> HIDE DEF u, row
<1>9. TrailAccounts' /\ trail' \in Seq(TrailRow)
  <2>1. CASE u.asked = u.before
    BY <1>1, <1>2, <1>8, <2>1 DEF TrailAccounts
  <2>2. CASE u.asked # u.before
    <3>1. trail' = Append(trail, row)
      BY <1>1, <2>2
    <3>2. row.before = InMonth(row.period)
      BY <1>2, <1>3
    <3>3. packages' = [packages EXCEPT !.fixed = row.after.fixed,
                                       !.temporary[row.period] = row.after.temporary]
      BY <1>1, <1>3
    <3>4. TrailAccounts'
      BY <1>2, <1>3, <3>1, <3>2, <3>3, TrailGrows
    <3>5. trail' \in Seq(TrailRow)
      BY <1>2, <1>3, <3>1
    <3> QED
      BY <3>4, <3>5
  <2> QED
    BY <2>1, <2>2
<1>10. AdjustmentInv'
  BY <1>1, <1>4, <1>5, <1>6, <1>7, <1>9 DEF AdjustmentInv, OneLocks, LockedIsStored
<1> QED
  BY <1>1, <1>8, <1>10 DEF u

LEMMA CreateKeeps ==
    ASSUME AdjustmentInv, CreateUser
    PROVE  AdjustmentInv'
<1>1. PICK p \in Packages :
        /\ packages' = [packages EXCEPT !.fixed = p.fixed, !.temporary[month] = p.temporary]
        /\ trail' = <<[period |-> month, before |-> Blank, after |-> p]>>
  BY DEF CreateUser
<1>2. /\ trail = <<>> /\ packages.fixed = 0 /\ \A m \in Month : packages.temporary[m] = 0
      /\ \A a \in Officer : update[a] = Away
      /\ UNCHANGED month /\ UNCHANGED seen /\ UNCHANGED update
  BY DEF CreateUser
<1> DEFINE row == [period |-> month, before |-> Blank, after |-> p]
<1>3. month \in Month /\ Blank \in Packages
  BY BlankFits DEF AdjustmentInv
<1>4. row \in TrailRow /\ row.before = Blank /\ row.period = month /\ row.after = p
  BY <1>3 DEF TrailRow
<1>5. InMonth(month) = Blank
  BY <1>2, <1>3 DEF InMonth, Blank
<1> HIDE DEF row
<1>6. trail' = Append(trail, row)
  <2>1. Append(<<>>, row) = <<row>>
    OBVIOUS
  <2> QED
    BY <1>1, <1>2, <2>1 DEF row
<1>7. TrailAccounts'
  <2>1. /\ trail \in Seq(TrailRow) /\ TrailAccounts
        /\ packages \in [fixed : Package, temporary : [Month -> Package]]
    BY DEF AdjustmentInv
  <2> QED
    BY <1>1, <1>4, <1>5, <1>6, <2>1, TrailGrows
<1>8. trail' \in Seq(TrailRow)
  BY <1>4, <1>6 DEF AdjustmentInv
<1>9. packages' \in [fixed : Package, temporary : [Month -> Package]]
  BY <1>1, <1>3 DEF AdjustmentInv, Packages
<1>10. OneLocks' /\ LockedIsStored'
  BY <1>2, BlankFits DEF OneLocks, LockedIsStored
<1> QED
  BY <1>2, <1>7, <1>8, <1>9, <1>10 DEF AdjustmentInv

LEMMA AdjustmentStep ==
    AdjustmentInv /\ [AdjustmentNext]_adjustmentVars => AdjustmentInv'
<1> SUFFICES ASSUME AdjustmentInv, [AdjustmentNext]_adjustmentVars PROVE AdjustmentInv'
  OBVIOUS
<1>1. /\ packages \in [fixed : Package, temporary : [Month -> Package]]
      /\ month \in Month /\ DOMAIN update = Officer
      /\ \A a \in Officer : Update(update[a])
  BY DEF AdjustmentInv
<1>2. CASE UNCHANGED adjustmentVars
  <2>1. UNCHANGED packages /\ UNCHANGED trail /\ UNCHANGED month /\ UNCHANGED seen
        /\ UNCHANGED update
    BY <1>2 DEF adjustmentVars
  <2> QED
    BY <2>1 DEF AdjustmentInv, OneLocks, LockedIsStored, TrailAccounts, InMonth
<1>3. ASSUME NEW a \in Officer, LoadUsers(a) PROVE AdjustmentInv'
  <2>1. /\ seen' = [seen EXCEPT ![a] = InMonth(month)]
        /\ UNCHANGED packages /\ UNCHANGED trail /\ UNCHANGED month /\ UNCHANGED update
    BY <1>3 DEF LoadUsers
  <2>2. seen' \in [Officer -> Packages]
    BY <1>1, <2>1, InMonthFits DEF AdjustmentInv
  <2> QED
    BY <2>1, <2>2 DEF AdjustmentInv, OneLocks, LockedIsStored, TrailAccounts, InMonth
<1>4. ASSUME NEW a \in Officer, SaveForm(a) PROVE AdjustmentInv'
  <2>1. PICK form \in Packages :
          update' = [update EXCEPT ![a] = [stage |-> "queued", asked |-> form,
                       reason |-> form # Original(a), period |-> month, before |-> Blank]]
    BY <1>4 DEF SaveForm
  <2> DEFINE u == [stage |-> "queued", asked |-> form,
                   reason |-> form # Original(a), period |-> month, before |-> Blank]
  <2>2. Update(u) /\ u.stage # "locked"
    BY <1>1, BlankFits DEF Update
  <2>3. UNCHANGED <<packages, trail, month, seen>>
    BY <1>4 DEF SaveForm
  <2> HIDE DEF u
  <2> QED
    BY <2>1, <2>2, <2>3, PageMoves DEF u
<1>5. ASSUME NEW a \in Officer, LockRows(a) PROVE AdjustmentInv'
  <2> DEFINE u == [update[a] EXCEPT !.stage = "locked",
                                    !.before = InMonth(update[a].period)]
  <2>1. /\ update' = [update EXCEPT ![a] = u]
        /\ \A b \in Officer : update[b].stage # "locked"
        /\ UNCHANGED <<packages, trail, month, seen>>
    BY <1>5 DEF LockRows
  <2>2. InMonth(update[a].period) \in Packages
    BY <1>1, InMonthFits DEF Update
  <2>3. Update(u) /\ u.before = InMonth(u.period)
    BY <1>1, <2>2 DEF Update
  <2> HIDE DEF u
  <2> QED
    BY <2>1, <2>3, PageMoves
<1>6. ASSUME NEW a \in Officer, RefuseUpdate(a) PROVE AdjustmentInv'
  <2>1. update' = [update EXCEPT ![a] = Away] /\ UNCHANGED <<packages, trail, month, seen>>
    BY <1>6 DEF RefuseUpdate
  <2> QED
    BY <2>1, BlankFits, PageMoves
<1>7. CASE MonthEnds
  <2>1. /\ month < LastMonth /\ month' = month + 1
        /\ UNCHANGED packages /\ UNCHANGED trail /\ UNCHANGED seen /\ UNCHANGED update
    BY <1>7 DEF MonthEnds
  <2>2. month' \in Month
    BY <1>1, <2>1, AdjustmentAssumption DEF Month
  <2> QED
    BY <2>1, <2>2 DEF AdjustmentInv, OneLocks, LockedIsStored, TrailAccounts, InMonth
<1> QED
  BY <1>2, <1>3, <1>4, <1>5, <1>6, <1>7, StoreKeeps, CreateKeeps DEF AdjustmentNext

\* A page that was typed no other package leaves all packages as they are.
LEMMA UntypedKeeps ==
    ASSUME AdjustmentInv, [AdjustmentNext]_adjustmentVars, NEW a \in Officer,
           update[a].stage = "locked", ~update[a].reason, update'[a] # update[a]
    PROVE  UNCHANGED <<packages, trail>>
<1>0. DOMAIN update = Officer
  BY DEF AdjustmentInv
<1>1. CASE StoreUpdate(a)
  BY <1>1, StoreKeeps DEF StoreUpdate
<1>2. CASE RefuseUpdate(a)
  BY <1>2 DEF RefuseUpdate
<1>3. \A b \in Officer : LoadUsers(b) => update' = update
  BY DEF LoadUsers
<1>4. \A b \in Officer \ {a} : SaveForm(b) \/ LockRows(b) \/ StoreUpdate(b)
                                 \/ RefuseUpdate(b) => update'[a] = update[a]
  BY <1>0 DEF SaveForm, LockRows, StoreUpdate, Store, RefuseUpdate
<1>5. ~SaveForm(a) /\ ~LockRows(a)
  BY DEF SaveForm, LockRows
<1>6. CreateUser \/ MonthEnds \/ UNCHANGED adjustmentVars => update' = update
  BY DEF CreateUser, MonthEnds, adjustmentVars
<1> QED
  BY <1>1, <1>2, <1>3, <1>4, <1>5, <1>6 DEF AdjustmentNext

-----------------------------------------------------------------------------
(* What is shown and what is called: while nothing is edited the lists, the     *)
(* checks of a request and the rows agree.                                      *)
Shelved == [on : BOOLEAN, supports : SUBSET Interface, vision : BOOLEAN,
            groups : SUBSET {"default", Team}, price : [off : Nat, peak : Nat],
            routed : SUBSET Interface]
Shelves == [ModelNo -> Shelved]
MemberRows == [role : {"user", "admin"}, groups : SUBSET {Team}]
Codes == {"none", "invalid_request_error", "vision_not_supported", "not_supported",
          "forbidden", "model_not_found", "quota_exceeded", "no_channel",
          "no_anthropic_channel", "upstream_error", "client_disconnected"}
Kinds == Codes \cup {"permission_error", "not_found_error", "rate_limit_error",
                    "overloaded_error", "api_error"}
Unbooked == {"idle", "find", "groups", "reserve"}
Charging == {"held", "executing", "settling"}
Over == {"answering", "done"}
Calls == [phase : Unbooked \cup Charging \cup {"failing"} \cup Over,
          model : ModelNo, by : Interface, image : BOOLEAN, read : Shelved,
          member : MemberRows, quote : Nat, held : Nat, code : Codes, given : Nat,
          started : BOOLEAN, sent : Nat, kind : Kinds, at : Nat, used : Nat,
          unsettled : BOOLEAN]

\* The pairs a request would find supported, routed and allowed.
Callable(as) ==
    {q \in ModelNo \X Interface :
        /\ shelf[q[1]].on /\ q[2] \in Supported(shelf[q[1]]) /\ q[2] \in shelf[q[1]].routed
        /\ CanAccess(shelf[q[1]].groups, as, TokenTag)}
Refusals == {"model_not_found", "not_supported", "forbidden", "no_channel",
             "no_anthropic_channel"}

ListsAreCurrent ==
    /\ listing.by \in {"nobody", "portal", "relay"} /\ listing.at \in Nat
    /\ listing.rows \in Shelves /\ listing.member \in MemberRows
    /\ listing = [by |-> listing.by, rows |-> listing.rows, member |-> listing.member,
                  at |-> listing.at]
    /\ listing.at <= revision
    /\ listing.by # "nobody" /\ listing.at = revision => listing.rows = shelf
    /\ shown.at \in Nat /\ shown.at <= revision
    /\ shown.at = revision => shown.pairs \subseteq Callable(shown.as)

RefusalIsTrue(c) ==
    c.code \in Refusals /\ c.given = 0 /\ c.at = revision =>
        <<c.model, c.by>> \notin Callable(c.member)

Booked(c, s, l) ==
    /\ c.phase \in Unbooked => c.held = 0
    /\ c.phase \notin Over => s = c.held /\ ~c.unsettled
    /\ c.phase \in Unbooked \cup Charging => c.code = "none"
    /\ c.phase \in Charging => c.held = c.quote
    /\ c.phase \in {"settling"} \cup Over /\ c.code = "none" => c.sent = 200
    /\ c.phase = "failing" => c.code # "none"
    /\ c.given = 0 \/ c.given >= 100
    /\ c.phase \in Over =>
          /\ l.partial = c.started
          /\ l.status = IF c.code = "none" THEN 200 ELSE LoggedStatus(c.code, c.given)
          /\ l.cost = IF c.code = "none" THEN c.used * c.held ELSE 0
          /\ ~c.unsettled => s = l.cost
    /\ c.phase = "done" /\ c.code # "client_disconnected" /\ ~c.started => l.status = c.sent

CallFits(c, s, l) ==
    /\ c \in Calls /\ c.at <= revision
    /\ RefusalIsTrue(c) /\ Booked(c, s, l)

Walks == [phase : {"idle", "between", "rows", "done"}, limit : Nat \ {0}, cursor : Nat,
          rows : Shelves, as : MemberRows, seen : Seq(ModelNo), always : SUBSET ModelNo,
          gone : BOOLEAN, pages : Nat]
SeenSoFar(w) ==
    ~w.gone =>
        /\ Increasing(w.seen)
        /\ w.phase \in {"between", "rows"} =>
              /\ \A i \in DOMAIN w.seen : w.seen[i] <= w.cursor
              /\ \A m \in w.always : m <= w.cursor => m \in Range(w.seen)
        /\ w.phase = "done" => w.always \subseteq Range(w.seen)
WalkFits ==
    /\ walk \in Walks /\ SeenSoFar(walk)
    /\ walk.phase = "rows" => walk.always \subseteq AnthropicVisible(walk.rows, walk.as)

AdmissionInv ==
    /\ shelf \in Shelves /\ member \in MemberRows /\ cards \subseteq MemberRows
    /\ revision \in Nat /\ spent \in Int
    /\ ListsAreCurrent /\ WalkFits /\ CallFits(relayCall, spent, logRow)

LEMMA AdmissionHolding ==
    ASSUME AdmissionInv
    PROVE  ListedIsAdmitted /\ WalkIsComplete /\ LogTellsStatus /\ ChargedAsQuoted
<1>1. ListedIsAdmitted
  BY DEF AdmissionInv, CallFits, ListsAreCurrent, RefusalIsTrue, Refusals, ListedIsAdmitted
<1>2. WalkIsComplete
  BY DEF AdmissionInv, WalkFits, SeenSoFar, WalkIsComplete
<1>3. LogTellsStatus
  BY DEF AdmissionInv, CallFits, Calls, Booked, LogTellsStatus, Over
<1>4. ChargedAsQuoted
  BY DEF AdmissionInv, CallFits, Calls, Booked, ChargedAsQuoted, Over
<1> QED
  BY <1>1, <1>2, <1>3, <1>4

LEMMA FreshFits == FreshModel \in Shelved /\ 1 \in ModelNo
BY AdmissionAssumption DEF FreshModel, Shelved, Interface, ModelNo

LEMMA EmptyCallFits == NoCall \in Calls
<1> DEFINE nobody == [role |-> "user", groups |-> {}]
<1>1. nobody \in MemberRows
  BY DEF MemberRows
<1>2. "idle" \in Unbooked /\ "chat" \in Interface /\ "none" \in Codes /\ "none" \in Kinds
       /\ FALSE \in BOOLEAN /\ 0 \in Nat
  BY DEF Unbooked, Interface, Codes, Kinds
<1>3. NoCall = [phase |-> "idle", model |-> 1, by |-> "chat", image |-> FALSE,
           read |-> FreshModel, member |-> nobody, quote |-> 0,
           held |-> 0, code |-> "none", given |-> 0, started |-> FALSE, sent |-> 0,
           kind |-> "none", at |-> 0, used |-> 0, unsettled |-> FALSE]
  BY DEF NoCall
<1> HIDE DEF nobody
<1> QED
  BY FreshFits, <1>1, <1>2, <1>3 DEF Calls

LEMMA EmptyWalkFits ==
    ASSUME shelf \in Shelves, member \in MemberRows
    PROVE  NoWalk \in Walks /\ NoWalk.phase = "idle" /\ NoWalk.seen = <<>> /\ NoWalk.cursor = 0
<1>1. <<>> \in Seq(ModelNo)
  OBVIOUS
<1> QED
  BY <1>1 DEF NoWalk, Walks

LEMMA AdmissionStart ==
    ASSUME AdmissionInit PROVE AdmissionInv
<1>1. /\ shelf = [m \in ModelNo |-> FreshModel] /\ member = [role |-> "user", groups |-> {}]
      /\ cards = {member} /\ revision = 0 /\ listing = NoListing
      /\ shown = [by |-> "nobody", as |-> member, pairs |-> {}, at |-> 0]
      /\ walk = NoWalk /\ relayCall = NoCall /\ spent = 0 /\ logRow = NoLogRow
  BY DEF AdmissionInit
<1>2. shelf \in Shelves /\ member \in MemberRows
  BY <1>1, FreshFits DEF Shelves, MemberRows
<1>3. ListsAreCurrent
  BY <1>1, <1>2 DEF ListsAreCurrent, NoListing
<1>4. <<>> \in Seq(ModelNo) /\ DOMAIN <<>> = {}
  OBVIOUS
<1>5. NoWalk \in Walks /\ NoWalk.phase = "idle" /\ NoWalk.seen = <<>>
  BY <1>2, EmptyWalkFits
<1>6. WalkFits
  BY <1>1, <1>4, <1>5 DEF WalkFits, SeenSoFar, Increasing
<1>7. NoCall \in Calls
  BY EmptyCallFits
<1>8. CallFits(NoCall, 0, logRow)
  BY <1>1, <1>7
     DEF CallFits, RefusalIsTrue, Booked, NoCall, Refusals, Unbooked,
         Charging, Over
<1> QED
  BY <1>1, <1>2, <1>3, <1>6, <1>8 DEF AdmissionInv

\* Only the request moves.
LEMMA CallMoves ==
    ASSUME AdmissionInv,
           UNCHANGED <<shelf, member, cards, revision, tariff, listing, shown, walk>>,
           CallFits(relayCall', spent', logRow'), spent' \in Int
    PROVE  AdmissionInv'
<1>1. /\ shelf' = shelf /\ member' = member /\ cards' = cards /\ revision' = revision
      /\ listing' = listing /\ shown' = shown /\ walk' = walk
  OBVIOUS
<1>2. /\ \A as : Callable(as)' = Callable(as)
      /\ \A rows, as : AnthropicVisible(rows, as)' = AnthropicVisible(rows, as)
  BY <1>1 DEF Callable, AnthropicVisible, RelayVisible
<1>3. CallFits(relayCall, spent, logRow)'
  BY <1>1, <1>2 DEF CallFits, RefusalIsTrue
<1>4. ListsAreCurrent'
  BY <1>1, <1>2 DEF AdmissionInv, ListsAreCurrent
<1>5. WalkFits'
  BY <1>1, <1>2 DEF AdmissionInv, WalkFits
<1> QED
  BY <1>1, <1>3, <1>4, <1>5 DEF AdmissionInv

\* A request that goes on without being refused, charged or answered.
LEMMA CallGoesOn ==
    ASSUME AdmissionInv, GoOn, relayCall' \in Calls,
           relayCall.phase \in Unbooked \cup Charging,
           relayCall'.phase \in Unbooked \cup Charging \cup {"failing"},
           relayCall'.at = relayCall.at, relayCall'.member = relayCall.member,
           relayCall.phase # "idle", ~relayCall'.unsettled,
           relayCall'.held = relayCall.held,
           relayCall'.phase \in Charging => /\ relayCall'.quote = relayCall.quote
                                            /\ relayCall.phase \in Charging,
           relayCall'.phase \in Unbooked => relayCall.phase \in Unbooked,
           relayCall'.phase = "failing" <=> relayCall'.code # "none",
           relayCall'.phase = "settling" => relayCall'.sent = 200,
           relayCall'.given = 0 \/ relayCall'.given >= 100,
           RefusalIsTrue(relayCall')
    PROVE  AdmissionInv'
<1>1. UNCHANGED <<shelf, member, cards, revision, tariff, listing, shown, walk>>
      /\ spent' = spent /\ logRow' = logRow
  BY DEF GoOn
<1>2. CallFits(relayCall, spent, logRow) /\ spent \in Int
  BY DEF AdmissionInv
<1>3. Booked(relayCall', spent', logRow')
  BY <1>1, <1>2 DEF CallFits, Booked, Unbooked, Charging, Over
<1>4. relayCall'.at <= revision
  BY <1>2 DEF CallFits
<1> QED
  BY <1>1, <1>2, <1>3, <1>4, CallMoves DEF CallFits

\* A failure before anything was charged or after: what it says of the model is true.
LEMMA FailureFits ==
    ASSUME AdmissionInv, GoOn, NEW code \in Codes \ {"none"}, NEW status \in Nat,
           relayCall.phase \in Unbooked \cup Charging, relayCall.phase # "idle",
           Fails(relayCall, code, status),
           status = 0 \/ status >= 100,
           code \in Refusals /\ status = 0 /\ relayCall.at = revision =>
              <<relayCall.model, relayCall.by>> \notin Callable(relayCall.member)
    PROVE  AdmissionInv'
<1>1. relayCall \in Calls /\ Booked(relayCall, spent, logRow)
  BY DEF AdmissionInv, CallFits
<1>2. relayCall' = [relayCall EXCEPT !.phase = "failing", !.code = code, !.given = status]
  BY DEF Fails
<1>3. relayCall' \in Calls
  BY <1>1, <1>2 DEF Calls
<1>4. /\ relayCall'.phase = "failing" /\ relayCall'.code = code /\ relayCall'.given = status
      /\ relayCall'.at = relayCall.at /\ relayCall'.member = relayCall.member
      /\ relayCall'.held = relayCall.held /\ relayCall'.unsettled = relayCall.unsettled
      /\ relayCall'.model = relayCall.model /\ relayCall'.by = relayCall.by
  BY <1>1, <1>2 DEF Calls
<1>5. ~relayCall.unsettled
  BY <1>1 DEF Booked, Unbooked, Charging, Over
<1>6. RefusalIsTrue(relayCall')
  BY <1>4 DEF RefusalIsTrue
<1>7. "failing" \notin Unbooked \cup Charging
  BY DEF Unbooked, Charging
<1> QED
  BY <1>3, <1>4, <1>5, <1>6, <1>7, CallGoesOn

LEMMA FindKeeps ==
    ASSUME AdmissionInv, NameMissing \/ FindModel
    PROVE  AdmissionInv'
<1>1. /\ relayCall \in Calls /\ relayCall.phase = "find" /\ GoOn
      /\ shelf \in Shelves /\ Booked(relayCall, spent, logRow)
  BY DEF AdmissionInv, CallFits, NameMissing, FindModel
<1>2. relayCall.phase \in Unbooked \cup Charging /\ relayCall.phase # "idle"
  BY <1>1 DEF Unbooked
<1> DEFINE r == shelf[relayCall.model]
<1>3. CASE Fails(relayCall, "invalid_request_error", 0)
  BY <1>1, <1>2, <1>3, FailureFits DEF Codes, Refusals
<1>4. CASE ~r.on /\ Fails(relayCall, "model_not_found", 0)
  BY <1>1, <1>2, <1>4, FailureFits DEF Codes, Callable
<1>5. CASE relayCall.by \notin Supported(r) /\ Fails(relayCall, "not_supported", 0)
  BY <1>1, <1>2, <1>5, FailureFits DEF Codes, Callable
<1>6. CASE relayCall' = [relayCall EXCEPT !.phase = "groups", !.read = r]
  <2>1. r \in Shelved
    BY <1>1 DEF Shelves, Calls
  <2> HIDE DEF r
  <2>2. relayCall' \in Calls
    BY <1>1, <1>6, <2>1 DEF Calls, Unbooked
  <2>3. /\ relayCall'.phase = "groups" /\ relayCall'.code = relayCall.code
        /\ relayCall'.at = relayCall.at /\ relayCall'.member = relayCall.member
        /\ relayCall'.held = relayCall.held /\ relayCall'.unsettled = relayCall.unsettled
        /\ relayCall'.given = relayCall.given
    BY <1>1, <1>6 DEF Calls
  <2>4. relayCall.code = "none" /\ ~relayCall.unsettled
        /\ (relayCall.given = 0 \/ relayCall.given >= 100)
    BY <1>1 DEF Booked, Unbooked, Over
  <2>5. RefusalIsTrue(relayCall')
    BY <2>3, <2>4 DEF RefusalIsTrue, Refusals
  <2>6. "groups" \in Unbooked /\ "groups" \notin Charging /\ relayCall.phase \in Unbooked
    BY <1>1 DEF Unbooked, Charging
  <2> QED
    BY <1>1, <1>2, <2>2, <2>3, <2>4, <2>5, <2>6, CallGoesOn
<1> QED
  BY <1>3, <1>4, <1>5, <1>6 DEF NameMissing, FindModel

LEMMA QuoteFits ==
    ASSUME NEW r \in Shelved PROVE Quoted(r) \in Nat
BY DEF Quoted, Shelved

LEMMA NoChannelFits ==
    ASSUME NEW by
    PROVE  /\ NoChannel(by) \in Codes \ {"none"} /\ NoChannel(by) \in Refusals
           /\ StatusOf(NoChannel(by)) \in Nat /\ StatusOf(NoChannel(by)) >= 100
BY DEF NoChannel, Codes, Refusals, StatusOf

LEMMA AdmitKeeps ==
    ASSUME AdmissionInv, AdmitCall
    PROVE  AdmissionInv'
<1>1. /\ relayCall \in Calls /\ relayCall.phase = "groups" /\ GoOn
      /\ shelf \in Shelves /\ Booked(relayCall, spent, logRow)
  BY DEF AdmissionInv, CallFits, AdmitCall
<1>2. relayCall.phase \in Unbooked \cup Charging /\ relayCall.phase # "idle"
  BY <1>1 DEF Unbooked
<1> DEFINE r == shelf[relayCall.model]
<1>3. CASE ~CanAccess(r.groups, relayCall.member, TokenTag) /\ Fails(relayCall, "forbidden", 0)
  BY <1>1, <1>2, <1>3, FailureFits DEF Codes, Callable
<1>4. CASE relayCall.by \notin r.routed /\ Fails(relayCall, NoChannel(relayCall.by), 0)
  BY <1>1, <1>2, <1>4, NoChannelFits, FailureFits DEF Callable
<1>5. CASE relayCall' = [relayCall EXCEPT !.phase = "reserve", !.quote = Quoted(relayCall.read)]
  <2>1. Quoted(relayCall.read) \in Nat
    BY <1>1, QuoteFits DEF Calls
  <2>2. relayCall' \in Calls
    BY <1>1, <1>5, <2>1 DEF Calls, Unbooked
  <2>3. /\ relayCall'.phase = "reserve" /\ relayCall'.code = relayCall.code
        /\ relayCall'.at = relayCall.at /\ relayCall'.member = relayCall.member
        /\ relayCall'.held = relayCall.held /\ relayCall'.unsettled = relayCall.unsettled
        /\ relayCall'.given = relayCall.given
    BY <1>1, <1>5 DEF Calls
  <2>4. relayCall.code = "none" /\ ~relayCall.unsettled
        /\ (relayCall.given = 0 \/ relayCall.given >= 100)
    BY <1>1 DEF Booked, Unbooked, Over
  <2>5. RefusalIsTrue(relayCall')
    BY <2>3, <2>4 DEF RefusalIsTrue, Refusals
  <2>6. "reserve" \in Unbooked /\ "reserve" \notin Charging /\ relayCall.phase \in Unbooked
    BY <1>1 DEF Unbooked, Charging
  <2> QED
    BY <1>1, <1>2, <2>2, <2>3, <2>4, <2>5, <2>6, CallGoesOn
<1> QED
  BY <1>3, <1>4, <1>5 DEF AdmitCall

LEMMA ReserveKeeps ==
    ASSUME AdmissionInv, ReserveQuota
    PROVE  AdmissionInv'
<1>1. /\ relayCall \in Calls /\ relayCall.phase = "reserve" /\ spent \in Int
      /\ Booked(relayCall, spent, logRow)
      /\ relayCall.at <= revision
      /\ UNCHANGED <<shelf, member, cards, revision, tariff, listing, shown,
                     walk>> /\ logRow' = logRow
  BY DEF AdmissionInv, CallFits, ReserveQuota
<1>2. relayCall.phase \in Unbooked \cup Charging /\ relayCall.phase # "idle"
  BY <1>1 DEF Unbooked
<1>3. CASE Fails(relayCall, "quota_exceeded", 0) /\ UNCHANGED spent
  BY <1>1, <1>2, <1>3, FailureFits DEF Codes, Refusals, GoOn
<1>4. CASE /\ spent' = spent + relayCall.quote
           /\ relayCall' = [relayCall EXCEPT !.phase = "held", !.held = relayCall.quote]
  <2>1. relayCall.quote \in Nat
    BY <1>1 DEF Calls
  <2>2. relayCall' \in Calls
    BY <1>1, <1>4, <2>1 DEF Calls, Charging
  <2>3. /\ relayCall'.phase = "held" /\ relayCall'.code = relayCall.code
        /\ relayCall'.at = relayCall.at /\ relayCall'.member = relayCall.member
        /\ relayCall'.held = relayCall.quote /\ relayCall'.quote = relayCall.quote
        /\ relayCall'.unsettled = relayCall.unsettled /\ relayCall'.given = relayCall.given
        /\ relayCall'.started = relayCall.started
    BY <1>1, <1>4 DEF Calls
  <2>4. /\ relayCall.code = "none" /\ ~relayCall.unsettled /\ spent = 0
        /\ (relayCall.given = 0 \/ relayCall.given >= 100)
    BY <1>1 DEF Booked, Unbooked, Over
  <2>5. spent' = relayCall'.held /\ spent' \in Int
    BY <1>4, <2>1, <2>3, <2>4
  <2>6. Booked(relayCall', spent', logRow')
    BY <2>3, <2>4, <2>5 DEF Booked, Unbooked, Charging, Over
  <2>7. RefusalIsTrue(relayCall') /\ relayCall'.at <= revision
    BY <1>1, <1>2, <2>3, <2>4 DEF RefusalIsTrue, Refusals
  <2> QED
    BY <1>1, <2>2, <2>5, <2>6, <2>7, CallMoves DEF CallFits
<1> QED
  BY <1>3, <1>4 DEF ReserveQuota

LEMMA ExecuteKeeps ==
    ASSUME AdmissionInv, Execute
    PROVE  AdmissionInv'
<1>1. /\ relayCall \in Calls /\ relayCall.phase = "held" /\ GoOn
      /\ Booked(relayCall, spent, logRow)
  BY DEF AdmissionInv, CallFits, Execute
<1>2. relayCall.phase \in Unbooked \cup Charging /\ relayCall.phase # "idle"
      /\ relayCall.phase \in Charging
  BY <1>1 DEF Charging
<1>3. CASE Fails(relayCall, "vision_not_supported", 0)
  BY <1>1, <1>2, <1>3, FailureFits DEF Codes, Refusals
<1>4. CASE relayCall' = [relayCall EXCEPT !.phase = "executing"]
  <2>1. relayCall' \in Calls
    BY <1>1, <1>4 DEF Calls, Charging
  <2>2. /\ relayCall'.phase = "executing" /\ relayCall'.code = relayCall.code
        /\ relayCall'.at = relayCall.at /\ relayCall'.member = relayCall.member
        /\ relayCall'.held = relayCall.held /\ relayCall'.quote = relayCall.quote
        /\ relayCall'.unsettled = relayCall.unsettled /\ relayCall'.given = relayCall.given
    BY <1>1, <1>4 DEF Calls
  <2>3. relayCall.code = "none" /\ ~relayCall.unsettled
        /\ (relayCall.given = 0 \/ relayCall.given >= 100)
    BY <1>1 DEF Booked, Charging, Over
  <2>4. RefusalIsTrue(relayCall')
    BY <2>2, <2>3 DEF RefusalIsTrue, Refusals
  <2>5. "executing" \in Charging /\ "executing" \notin Unbooked
    BY DEF Unbooked, Charging
  <2> QED
    BY <1>1, <1>2, <2>1, <2>2, <2>3, <2>4, <2>5, CallGoesOn
<1> QED
  BY <1>3, <1>4 DEF Execute

LEMMA SucceedKeeps ==
    ASSUME AdmissionInv, Succeed
    PROVE  AdmissionInv'
<1>1. /\ relayCall \in Calls /\ relayCall.phase = "executing" /\ GoOn
      /\ Booked(relayCall, spent, logRow)
  BY DEF AdmissionInv, CallFits, Succeed
<1>2. relayCall.phase \in Unbooked \cup Charging /\ relayCall.phase # "idle"
      /\ relayCall.phase \in Charging
  BY <1>1 DEF Charging
<1>3. PICK used \in 1..2 :
        relayCall' = [relayCall EXCEPT !.phase = "settling", !.used = used, !.sent = 200]
  BY DEF Succeed
<1>4. used \in Nat /\ 200 \in Nat
      /\ "settling" \in Unbooked \cup Charging \cup {"failing"} \cup Over
  BY DEF Charging
<1>5. relayCall' \in Calls
  <2> DEFINE first == [relayCall EXCEPT !.phase = "settling"]
             second == [first EXCEPT !.used = used]
  <2>1. first \in Calls
    BY <1>1, <1>4 DEF Calls
  <2>2. relayCall' = [second EXCEPT !.sent = 200]
    BY <1>3
  <2> HIDE DEF first
  <2>3. second \in Calls
    BY <1>4, <2>1 DEF Calls
  <2> HIDE DEF second
  <2> QED
    BY <1>4, <2>2, <2>3 DEF Calls
<1>6. /\ relayCall'.phase = "settling" /\ relayCall'.code = relayCall.code
      /\ relayCall'.at = relayCall.at /\ relayCall'.member = relayCall.member
      /\ relayCall'.held = relayCall.held /\ relayCall'.quote = relayCall.quote
      /\ relayCall'.unsettled = relayCall.unsettled /\ relayCall'.given = relayCall.given
      /\ relayCall'.sent = 200
  BY <1>1, <1>3 DEF Calls
<1>7. relayCall.code = "none" /\ ~relayCall.unsettled
      /\ (relayCall.given = 0 \/ relayCall.given >= 100)
  BY <1>1 DEF Booked, Charging, Over
<1>8. RefusalIsTrue(relayCall')
  BY <1>6, <1>7 DEF RefusalIsTrue, Refusals
<1>9. "settling" \in Charging /\ "settling" \notin Unbooked
  BY DEF Unbooked, Charging
<1> QED
  BY <1>1, <1>2, <1>5, <1>6, <1>7, <1>8, <1>9, CallGoesOn

LEMMA RouteLostKeeps ==
    ASSUME AdmissionInv, RouteLost
    PROVE  AdmissionInv'
<1> DEFINE code == NoChannel(relayCall.by)
<1>1. /\ relayCall.phase = "executing" /\ GoOn
      /\ Fails(relayCall, code, StatusOf(code))
  BY DEF RouteLost
<1>2. relayCall.phase \in Unbooked \cup Charging /\ relayCall.phase # "idle"
  BY <1>1 DEF Charging
<1>3. code \in Codes \ {"none"} /\ StatusOf(code) \in Nat /\ StatusOf(code) >= 100
      /\ StatusOf(code) # 0
  BY NoChannelFits
<1> HIDE DEF code
<1> QED
  BY <1>1, <1>2, <1>3, FailureFits

\* The request as the failure finds it, with its answer begun or not.
LEMMA LeavingKeeps ==
    ASSUME AdmissionInv, ClientLeaves \/ UpstreamFails
    PROVE  AdmissionInv'
<1>1. /\ relayCall \in Calls /\ relayCall.phase = "executing" /\ GoOn
      /\ Booked(relayCall, spent, logRow)
  BY DEF AdmissionInv, CallFits, ClientLeaves, UpstreamFails
<1>2. relayCall.phase \in Unbooked \cup Charging /\ relayCall.phase # "idle"
      /\ relayCall.phase \in Charging
  BY <1>1 DEF Charging
<1>11. \E code \in {"client_disconnected", "upstream_error"}, status \in {0, 429} :
         Interrupted(code, status)
  BY DEF ClientLeaves, UpstreamFails
<1>12. PICK code \in {"client_disconnected", "upstream_error"}, status \in {0, 429} :
         Interrupted(code, status)
  BY <1>11
<1>3. PICK begun \in BOOLEAN :
        Fails([relayCall EXCEPT !.started = begun, !.sent = IF begun THEN 200 ELSE 0],
              code, status)
  BY <1>12 DEF Interrupted
<1> DEFINE sent == IF begun THEN 200 ELSE 0
<1>4. sent \in Nat /\ code \in Codes \ {"none"} /\ code \notin Refusals /\ status \in Nat
      /\ (status = 0 \/ status >= 100)
  BY DEF Codes, Refusals
<1>5. relayCall' = [[relayCall EXCEPT !.started = begun, !.sent = sent]
                       EXCEPT !.phase = "failing", !.code = code, !.given = status]
  BY <1>3 DEF Fails
<1> HIDE DEF sent
<1>6. relayCall' \in Calls
  BY <1>1, <1>4, <1>5 DEF Calls
<1>7. /\ relayCall'.phase = "failing" /\ relayCall'.code = code
      /\ relayCall'.at = relayCall.at /\ relayCall'.member = relayCall.member
      /\ relayCall'.held = relayCall.held /\ relayCall'.unsettled = relayCall.unsettled
      /\ relayCall'.given = status
  BY <1>1, <1>5 DEF Calls
<1>8. ~relayCall.unsettled
  BY <1>1 DEF Booked, Charging, Over
<1>9. RefusalIsTrue(relayCall')
  BY <1>4, <1>7 DEF RefusalIsTrue
<1>10. "failing" \notin Unbooked \cup Charging
  BY DEF Unbooked, Charging
<1> QED
  BY <1>1, <1>2, <1>4, <1>6, <1>7, <1>8, <1>9, <1>10, CallGoesOn

LEMMA SettleKeeps ==
    ASSUME AdmissionInv, SettleCall
    PROVE  AdmissionInv'
<1> DEFINE cost == IF relayCall.phase = "failing" THEN 0 ELSE Charged(relayCall)
<1>1. /\ relayCall \in Calls /\ relayCall.phase \in {"settling", "failing"} /\ spent \in Int
      /\ Booked(relayCall, spent, logRow)
      /\ RefusalIsTrue(relayCall) /\ relayCall.at <= revision
      /\ UNCHANGED <<shelf, member, cards, revision, tariff, listing, shown, walk>>
  BY DEF AdmissionInv, CallFits, SettleCall
<1>2. /\ relayCall.used \in Nat /\ relayCall.quote \in Nat /\ relayCall.held \in Nat
      /\ relayCall.unsettled \in BOOLEAN
  BY <1>1 DEF Calls
<1>3. relayCall.used * relayCall.quote \in Nat
  BY <1>2
<1>4. cost \in Nat
  BY <1>3 DEF Charged
<1>5. /\ spent = relayCall.held /\ ~relayCall.unsettled
      /\ relayCall.phase = "settling" => /\ relayCall.code = "none" /\ relayCall.sent = 200
                                         /\ relayCall.held = relayCall.quote
      /\ relayCall.phase = "failing" => relayCall.code # "none"
      /\ (relayCall.given = 0 \/ relayCall.given >= 100)
  BY <1>1 DEF Booked, Unbooked, Charging, Over
<1>6. cost = IF relayCall.code = "none" THEN relayCall.used * relayCall.held ELSE 0
  BY <1>1, <1>5 DEF Charged
<1>7. logRow' = [code |-> relayCall.code, cost |-> cost, partial |-> relayCall.started,
                 status |-> IF relayCall.code = "none" THEN 200
                            ELSE LoggedStatus(relayCall.code, relayCall.given)]
      /\ \/ /\ spent' = spent + cost - relayCall.held
            /\ relayCall' = [relayCall EXCEPT !.phase = "answering"]
         \/ /\ UNCHANGED spent
            /\ relayCall' = [relayCall EXCEPT !.phase = "answering", !.unsettled = TRUE]
  BY DEF SettleCall
<1> HIDE DEF cost
<1>13. "answering" \in Over /\ TRUE \in BOOLEAN
  BY DEF Over
<1>8. relayCall' \in Calls /\ spent' \in Int
  <2>1. CASE /\ spent' = spent + cost - relayCall.held
             /\ relayCall' = [relayCall EXCEPT !.phase = "answering"]
    BY <1>1, <1>2, <1>4, <1>13, <2>1 DEF Calls
  <2>2. CASE /\ spent' = spent
             /\ relayCall' = [relayCall EXCEPT !.phase = "answering", !.unsettled = TRUE]
    BY <1>1, <1>13, <2>2 DEF Calls
  <2> QED
    BY <1>7, <2>1, <2>2
<1>9. /\ relayCall'.phase = "answering" /\ relayCall'.code = relayCall.code
      /\ relayCall'.at = relayCall.at /\ relayCall'.member = relayCall.member
      /\ relayCall'.model = relayCall.model /\ relayCall'.by = relayCall.by
      /\ relayCall'.held = relayCall.held /\ relayCall'.used = relayCall.used
      /\ relayCall'.given = relayCall.given /\ relayCall'.started = relayCall.started
      /\ relayCall'.sent = relayCall.sent
  BY <1>1, <1>7 DEF Calls
<1>14. ~relayCall'.unsettled => spent' = cost
  <2>1. CASE /\ spent' = spent + cost - relayCall.held
             /\ relayCall' = [relayCall EXCEPT !.phase = "answering"]
    BY <1>1, <1>2, <1>4, <1>5, <2>1
  <2>2. CASE /\ spent' = spent
             /\ relayCall' = [relayCall EXCEPT !.phase = "answering", !.unsettled = TRUE]
    BY <1>1, <2>2 DEF Calls
  <2> QED
    BY <1>7, <2>1, <2>2
<1>10. /\ logRow'.code = relayCall.code /\ logRow'.cost = cost
       /\ logRow'.partial = relayCall.started
       /\ logRow'.status = IF relayCall.code = "none" THEN 200
                           ELSE LoggedStatus(relayCall.code, relayCall.given)
  BY <1>7
<1>11. Booked(relayCall', spent', logRow')
  BY <1>1, <1>5, <1>6, <1>9, <1>10, <1>14 DEF Booked, Unbooked, Charging, Over
<1>12. RefusalIsTrue(relayCall') /\ relayCall'.at <= revision
  BY <1>1, <1>9 DEF RefusalIsTrue
<1> QED
  BY <1>1, <1>8, <1>11, <1>12, CallMoves DEF CallFits

LEMMA StatusFits ==
    ASSUME NEW code \in Codes \ {"none", "client_disconnected"},
           NEW given \in Nat, given = 0 \/ given >= 100
    PROVE  /\ LoggedStatus(code, given) = IF given # 0 THEN given ELSE StatusOf(code)
           /\ StatusOf(code) \in Nat
<1>1. StatusOf(code) \in Nat
  BY DEF StatusOf, Codes
<1> QED
  BY <1>1 DEF LoggedStatus

LEMMA AnsweredKeeps ==
    ASSUME AdmissionInv, CallAnswered
    PROVE  AdmissionInv'
<1>1. /\ relayCall \in Calls /\ relayCall.phase = "answering" /\ spent \in Int
      /\ Booked(relayCall, spent, logRow)
      /\ RefusalIsTrue(relayCall) /\ relayCall.at <= revision
      /\ UNCHANGED <<shelf, member, cards, revision, tariff, listing, shown, walk>>
      /\ spent' = spent /\ logRow' = logRow
  BY DEF AdmissionInv, CallFits, CallAnswered, GoOn
<1> DEFINE status == IF relayCall.given # 0 THEN relayCall.given ELSE StatusOf(relayCall.code)
<1>2. /\ relayCall.code \in Codes /\ relayCall.given \in Nat
      /\ (relayCall.given = 0 \/ relayCall.given >= 100)
      /\ logRow.partial = relayCall.started
      /\ logRow.status = IF relayCall.code = "none" THEN 200
                          ELSE LoggedStatus(relayCall.code, relayCall.given)
      /\ logRow.cost = IF relayCall.code = "none" THEN relayCall.used * relayCall.held ELSE 0
      /\ ~relayCall.unsettled => spent = logRow.cost
      /\ relayCall.code = "none" => relayCall.sent = 200
  BY <1>1 DEF Calls, Booked, Over
<1>3. CASE /\ relayCall.code \in {"none", "client_disconnected"} \/ relayCall.started
           /\ relayCall' = [relayCall EXCEPT !.phase = "done"]
  <2>1. relayCall' \in Calls
    BY <1>1, <1>3 DEF Calls, Over
  <2>2. /\ relayCall'.phase = "done" /\ relayCall'.code = relayCall.code
        /\ relayCall'.at = relayCall.at /\ relayCall'.member = relayCall.member
        /\ relayCall'.model = relayCall.model /\ relayCall'.by = relayCall.by
        /\ relayCall'.held = relayCall.held /\ relayCall'.used = relayCall.used
        /\ relayCall'.given = relayCall.given /\ relayCall'.started = relayCall.started
        /\ relayCall'.sent = relayCall.sent /\ relayCall'.unsettled = relayCall.unsettled
    BY <1>1, <1>3 DEF Calls
  <2>3. Booked(relayCall', spent', logRow')
    BY <1>1, <1>2, <1>3, <2>2 DEF Booked, Unbooked, Charging, Over
  <2>4. RefusalIsTrue(relayCall') /\ relayCall'.at <= revision
    BY <1>1, <2>2 DEF RefusalIsTrue
  <2> QED
    BY <1>1, <2>1, <2>3, <2>4, CallMoves DEF CallFits
<1>4. CASE /\ ~(relayCall.code \in {"none", "client_disconnected"} \/ relayCall.started)
           /\ relayCall' = [relayCall EXCEPT !.phase = "done", !.sent = status,
                                !.kind = ErrorType(relayCall.by, status, relayCall.code)]
  <2>1. relayCall.code \in Codes \ {"none", "client_disconnected"} /\ ~relayCall.started
    BY <1>2, <1>4
  <2>2. status = LoggedStatus(relayCall.code, relayCall.given) /\ status \in Nat
    BY <1>2, <2>1, StatusFits
  <2> DEFINE type == ErrorType(relayCall.by, status, relayCall.code)
  <2>3. type \in Kinds
    <3>1. AnthropicErrorType(status, relayCall.code) \in Kinds
      BY DEF AnthropicErrorType, Kinds, Codes
    <3> QED
      BY <1>2, <3>1 DEF ErrorType, Kinds
  <2>4. relayCall' = [relayCall EXCEPT !.phase = "done", !.sent = status, !.kind = type]
    BY <1>4
  <2> HIDE DEF status, type
  <2>5. relayCall' \in Calls
    BY <1>1, <2>2, <2>3, <2>4 DEF Calls, Over
  <2>6. /\ relayCall'.phase = "done" /\ relayCall'.code = relayCall.code
        /\ relayCall'.at = relayCall.at /\ relayCall'.member = relayCall.member
        /\ relayCall'.model = relayCall.model /\ relayCall'.by = relayCall.by
        /\ relayCall'.held = relayCall.held /\ relayCall'.used = relayCall.used
        /\ relayCall'.given = relayCall.given /\ relayCall'.started = relayCall.started
        /\ relayCall'.sent = status /\ relayCall'.unsettled = relayCall.unsettled
    BY <1>1, <2>4 DEF Calls
  <2>7. Booked(relayCall', spent', logRow')
    BY <1>1, <1>2, <2>1, <2>2, <2>6 DEF Booked, Unbooked, Charging, Over
  <2>8. RefusalIsTrue(relayCall') /\ relayCall'.at <= revision
    BY <1>1, <2>6 DEF RefusalIsTrue
  <2> QED
    BY <1>1, <2>5, <2>7, <2>8, CallMoves DEF CallFits
<1> QED
  BY <1>3, <1>4 DEF CallAnswered

LEMMA BeginCallKeeps ==
    ASSUME AdmissionInv, NEW m \in AskedModels, NEW by \in Interface,
           NEW drawing \in BOOLEAN, NEW as \in cards, BeginCall(m, by, drawing, as)
    PROVE  AdmissionInv'
<1>1. /\ relayCall \in Calls /\ relayCall.phase = "idle" /\ spent \in Int /\ revision \in Nat
      /\ Booked(relayCall, spent, logRow) /\ as \in MemberRows
      /\ UNCHANGED <<shelf, member, cards, revision, tariff, listing, shown, walk>>
      /\ spent' = spent /\ logRow' = logRow
  BY DEF AdmissionInv, CallFits, BeginCall
<1>2. /\ relayCall' = [NoCall EXCEPT !.phase = "find", !.model = m, !.by = by,
                              !.image = drawing, !.member = as, !.at = revision]
      /\ m \in ModelNo /\ "find" \in Unbooked
  BY AdmissionAssumption DEF BeginCall, ModelNo, Unbooked
<1>3. NoCall \in Calls
  BY EmptyCallFits
<1>4. relayCall' \in Calls
  BY <1>1, <1>2, <1>3 DEF Calls
<1>5. /\ relayCall'.phase = "find" /\ relayCall'.member = as /\ relayCall'.at = revision
      /\ relayCall'.code = "none" /\ relayCall'.held = 0 /\ ~relayCall'.unsettled
      /\ relayCall'.given = 0
  BY <1>2, <1>3 DEF Calls, NoCall
<1>6. spent = 0
  BY <1>1 DEF Booked, Unbooked, Over
<1>7. Booked(relayCall', spent', logRow')
  BY <1>1, <1>5, <1>6 DEF Booked, Unbooked, Charging, Over
<1>8. RefusalIsTrue(relayCall') /\ relayCall'.at <= revision
  BY <1>1, <1>5 DEF RefusalIsTrue, Refusals
<1> QED
  BY <1>1, <1>4, <1>7, <1>8, CallMoves DEF CallFits

-----------------------------------------------------------------------------
\* Only a list moves.
LEMMA ListMoves ==
    ASSUME AdmissionInv, ListsAreCurrent',
           UNCHANGED <<shelf, member, cards, revision, tariff, walk, relayCall, spent, logRow>>
    PROVE  AdmissionInv'
<1>1. /\ shelf' = shelf /\ member' = member /\ cards' = cards /\ revision' = revision
      /\ walk' = walk /\ relayCall' = relayCall /\ spent' = spent /\ logRow' = logRow
  OBVIOUS
<1>2. /\ \A as : Callable(as)' = Callable(as)
      /\ \A rows, as : AnthropicVisible(rows, as)' = AnthropicVisible(rows, as)
  BY <1>1 DEF Callable, AnthropicVisible, RelayVisible
<1>3. CallFits(relayCall, spent, logRow)'
  BY <1>1, <1>2 DEF AdmissionInv, CallFits, RefusalIsTrue
<1>4. WalkFits'
  BY <1>1, <1>2 DEF AdmissionInv, WalkFits
<1> QED
  BY <1>1, <1>3, <1>4 DEF AdmissionInv

LEMMA StartListKeeps ==
    ASSUME AdmissionInv, NEW by \in {"portal", "relay"}, StartList(by)
    PROVE  AdmissionInv'
<1>1. /\ shelf' = shelf /\ member' = member /\ cards' = cards /\ revision' = revision
      /\ shown' = shown
      /\ UNCHANGED <<shelf, member, cards, revision, tariff, walk, relayCall, spent, logRow>>
  BY DEF StartList
<1>2. shelf \in Shelves /\ revision \in Nat /\ ListsAreCurrent
  BY DEF AdmissionInv
<1>5. PICK card \in MemberRows :
         listing' = [by |-> by, rows |-> shelf, member |-> card, at |-> revision]
  BY DEF StartList, AdmissionInv
<1>3. \A as : Callable(as)' = Callable(as)
  BY <1>1 DEF Callable
<1>4. ListsAreCurrent'
  BY <1>1, <1>2, <1>3, <1>5 DEF ListsAreCurrent
<1> QED
  BY <1>1, <1>4, ListMoves

LEMMA ReadMemberKeeps ==
    ASSUME AdmissionInv, ReadMember
    PROVE  AdmissionInv'
<1>1. /\ shelf' = shelf /\ member' = member /\ cards' = cards /\ revision' = revision
      /\ shown' = shown /\ listing' = [listing EXCEPT !.member = member]
      /\ UNCHANGED <<shelf, member, cards, revision, tariff, walk, relayCall, spent, logRow>>
  BY DEF ReadMember
<1>2. shelf \in Shelves /\ member \in MemberRows /\ revision \in Nat /\ ListsAreCurrent
  BY DEF AdmissionInv
<1>3. listing = [by |-> listing.by, rows |-> listing.rows, member |-> listing.member,
                 at |-> listing.at]
  BY <1>2 DEF ListsAreCurrent
<1>4. listing' = [by |-> listing.by, rows |-> listing.rows, member |-> member,
                  at |-> listing.at]
  BY <1>1, <1>3
<1>5. \A as : Callable(as)' = Callable(as)
  BY <1>1 DEF Callable
<1>6. ListsAreCurrent'
  BY <1>1, <1>2, <1>4, <1>5 DEF ListsAreCurrent
<1> QED
  BY <1>1, <1>6, ListMoves

\* What a list shows of the present rows can be called by whom it was shown to.
LEMMA PromisesHold ==
    ASSUME shelf \in Shelves, NEW visible, NEW as,
           visible = PortalVisible(shelf, as) \/ visible = RelayVisible(shelf, as)
    PROVE  Promised(shelf, visible) \subseteq Callable(as)
<1>1. \A n \in ModelNo : shelf[n].groups \subseteq {"default", Team}
  BY DEF Shelves, Shelved
<1>2. "none" \notin {"default", Team}
  BY AdmissionAssumption
<1>3. ASSUME NEW n \in ModelNo, CanAccess(shelf[n].groups, as, "none")
      PROVE  CanAccess(shelf[n].groups, as, TokenTag)
  BY <1>1, <1>2, <1>3 DEF CanAccess
<1>4. \A n \in visible : /\ n \in ModelNo /\ shelf[n].on
                         /\ CanAccess(shelf[n].groups, as, TokenTag)
  BY <1>3 DEF PortalVisible, RelayVisible, AllModels
<1> QED
  BY <1>4 DEF Promised, Callable

LEMMA FinishListKeeps ==
    ASSUME AdmissionInv, FinishList
    PROVE  AdmissionInv'
<1> DEFINE visible == IF listing.by = "portal" THEN PortalVisible(listing.rows, listing.member)
                      ELSE RelayVisible(listing.rows, listing.member)
           pairs == Promised(listing.rows, visible)
<1>1. /\ shelf' = shelf /\ member' = member /\ cards' = cards /\ revision' = revision
      /\ listing' = NoListing /\ listing.by \in {"portal", "relay"}
      /\ shown' = [by |-> listing.by, at |-> listing.at, as |-> listing.member,
                   pairs |-> pairs]
      /\ UNCHANGED <<shelf, member, cards, revision, tariff, walk, relayCall, spent, logRow>>
  BY DEF FinishList
<1>2. shelf \in Shelves /\ member \in MemberRows /\ revision \in Nat /\ ListsAreCurrent
  BY DEF AdmissionInv
<1>3. ASSUME listing.at = revision PROVE pairs \subseteq Callable(listing.member)
  <2>1. listing.rows = shelf
    BY <1>1, <1>2, <1>3 DEF ListsAreCurrent
  <2>2. \/ visible = PortalVisible(shelf, listing.member)
        \/ visible = RelayVisible(shelf, listing.member)
    BY <2>1
  <2> HIDE DEF visible
  <2> QED
    BY <1>2, <2>1, <2>2, PromisesHold
<1> HIDE DEF pairs, visible
<1>4. \A as : Callable(as)' = Callable(as)
  BY <1>1 DEF Callable
<1>5. listing' = [by |-> "nobody", rows |-> shelf, member |-> member, at |-> 0]
  BY <1>1 DEF NoListing
<1>6. shown'.at = listing.at /\ shown'.as = listing.member /\ shown'.pairs = pairs
  BY <1>1
<1>7. ListsAreCurrent'
  BY <1>1, <1>2, <1>3, <1>4, <1>5, <1>6 DEF ListsAreCurrent
<1> QED
  BY <1>1, <1>7, ListMoves

-----------------------------------------------------------------------------
\* An edit of a model leaves nothing that was read current, and a page that is being made
\* what it still may show.
LEMMA EditedKeeps ==
    ASSUME AdmissionInv, NEW new \in Shelves, Edited(new)
    PROVE  AdmissionInv'
<1> DEFINE open == {m \in ModelNo : CanAccess(new[m].groups, walk.as, TokenTag)}
           left == IF walk.phase # "rows" THEN walk.always ELSE walk.always \cap open
<1>1. /\ revision' = revision + 1 /\ shelf' = new /\ member' = member /\ cards' = cards
      /\ listing' = listing /\ shown' = shown
      /\ relayCall' = relayCall /\ spent' = spent /\ logRow' = logRow
      /\ walk' = IF walk.phase # "rows" THEN walk ELSE [walk EXCEPT !.always = left]
  BY DEF Edited
<1>2. /\ revision \in Nat /\ spent \in Int /\ ListsAreCurrent /\ WalkFits
      /\ CallFits(relayCall, spent, logRow) /\ member \in MemberRows
      /\ cards \subseteq MemberRows
  BY DEF AdmissionInv
<1>3. revision' \in Nat /\ \A n \in Nat : n <= revision => n <= revision' /\ n # revision'
  BY <1>1, <1>2
<1>4. ListsAreCurrent'
  BY <1>1, <1>2, <1>3 DEF ListsAreCurrent
<1>5. CallFits(relayCall, spent, logRow)'
  <2>1. relayCall \in Calls /\ relayCall.at \in Nat
    BY <1>2 DEF CallFits, Calls
  <2> QED
    BY <1>1, <1>2, <1>3, <2>1 DEF CallFits, RefusalIsTrue, Booked
<1>6. WalkFits'
  <2>1. walk \in Walks /\ left \subseteq ModelNo /\ left \subseteq walk.always
    BY <1>2 DEF WalkFits, Walks
  <2>2. /\ walk' \in Walks /\ walk'.phase = walk.phase /\ walk'.seen = walk.seen
        /\ walk'.cursor = walk.cursor /\ walk'.gone = walk.gone /\ walk'.always = left
        /\ walk'.rows = walk.rows /\ walk'.as = walk.as
    BY <1>1, <2>1 DEF Walks
  <2>3. SeenSoFar(walk)'
    BY <1>2, <2>1, <2>2 DEF WalkFits, SeenSoFar
  <2>4. walk.phase = "rows" =>
          /\ left \subseteq AnthropicVisible(walk.rows, walk.as)
          /\ left \subseteq open
    BY <1>2 DEF WalkFits
  <2> HIDE DEF left
  <2>5. walk'.phase = "rows" => walk'.always \subseteq AnthropicVisible(walk.rows, walk.as)'
    BY <1>1, <2>2, <2>4 DEF AnthropicVisible, RelayVisible, AllModels
  <2> QED
    BY <2>2, <2>3, <2>5 DEF WalkFits
<1> QED
  BY <1>1, <1>2, <1>3, <1>4, <1>5, <1>6 DEF AdmissionInv

LEMMA RowEditsFit ==
    ASSUME shelf \in Shelves, NEW m \in ModelNo
    PROVE  /\ [shelf EXCEPT ![m].on = ~@] \in Shelves
           /\ \A p \in Interface :
                 /\ [shelf EXCEPT ![m].supports =
                       IF p \in @ THEN @ \ {p} ELSE @ \cup {p}] \in Shelves
                 /\ [shelf EXCEPT ![m].routed =
                       IF p \in @ THEN @ \ {p} ELSE @ \cup {p}] \in Shelves
           /\ \A g \in {"default", Team} :
                 [shelf EXCEPT ![m].groups = IF g \in @ THEN @ \ {g} ELSE @ \cup {g}] \in Shelves
           /\ [shelf EXCEPT ![m].price = [off |-> 3, peak |-> 3], ![m].vision = TRUE] \in Shelves
<1>1. shelf[m] \in Shelved
  BY DEF Shelves
<1>2. ASSUME NEW row \in Shelved PROVE [shelf EXCEPT ![m] = row] \in Shelves
  BY DEF Shelves
<1>3. [shelf EXCEPT ![m].on = ~@] \in Shelves
  <2>1. [shelf[m] EXCEPT !.on = ~@] \in Shelved
    BY <1>1 DEF Shelved
  <2> QED
    BY <1>2, <2>1
<1>4. ASSUME NEW p \in Interface
      PROVE  [shelf EXCEPT ![m].supports = IF p \in @ THEN @ \ {p} ELSE @ \cup {p}] \in Shelves
  <2>1. [shelf[m] EXCEPT !.supports = IF p \in @ THEN @ \ {p} ELSE @ \cup {p}] \in Shelved
    BY <1>1 DEF Shelved
  <2> QED
    BY <1>2, <2>1
<1>5. ASSUME NEW p \in Interface
      PROVE  [shelf EXCEPT ![m].routed = IF p \in @ THEN @ \ {p} ELSE @ \cup {p}] \in Shelves
  <2>1. [shelf[m] EXCEPT !.routed = IF p \in @ THEN @ \ {p} ELSE @ \cup {p}] \in Shelved
    BY <1>1 DEF Shelved
  <2> QED
    BY <1>2, <2>1
<1>6. ASSUME NEW g \in {"default", Team}
      PROVE  [shelf EXCEPT ![m].groups = IF g \in @ THEN @ \ {g} ELSE @ \cup {g}] \in Shelves
  <2>1. [shelf[m] EXCEPT !.groups = IF g \in @ THEN @ \ {g} ELSE @ \cup {g}] \in Shelved
    BY <1>1 DEF Shelved
  <2> QED
    BY <1>2, <2>1
<1>7. [shelf EXCEPT ![m].price = [off |-> 3, peak |-> 3], ![m].vision = TRUE] \in Shelves
  <2>1. [shelf[m] EXCEPT !.price = [off |-> 3, peak |-> 3]] \in Shelved
    BY <1>1 DEF Shelved
  <2> DEFINE priced == [shelf EXCEPT ![m].price = [off |-> 3, peak |-> 3]]
  <2>2. priced \in Shelves
    BY <1>2, <2>1
  <2> HIDE DEF priced
  <2>3. [priced[m] EXCEPT !.vision = TRUE] \in Shelved
    BY <2>2 DEF Shelves, Shelved
  <2>4. [priced EXCEPT ![m].vision = TRUE] \in Shelves
    BY <2>2, <2>3 DEF Shelves
  <2> QED
    BY <2>4 DEF priced
<1> QED
  BY <1>3, <1>4, <1>5, <1>6, <1>7

LEMMA RowEditKeeps ==
    ASSUME AdmissionInv, NEW m \in ModelNo,
           \/ SwitchModel(m) \/ ChangePrice(m)
           \/ \E p \in {"responses", "anthropic"} : ChangeSupport(m, p)
           \/ \E g \in {"default", Team} : ChangeGroups(m, g)
           \/ \E p \in Interface : ChangeRoutes(m, p)
    PROVE  AdmissionInv'
<1>1. shelf \in Shelves
  BY DEF AdmissionInv
<1>2. PICK new \in Shelves : Edited(new)
  <2>1. CASE SwitchModel(m)
    BY <1>1, <2>1, RowEditsFit DEF SwitchModel
  <2>2. CASE ChangePrice(m)
    BY <1>1, <2>2, RowEditsFit DEF ChangePrice
  <2>3. CASE \E p \in {"responses", "anthropic"} : ChangeSupport(m, p)
    <3>1. PICK p \in {"responses", "anthropic"} : ChangeSupport(m, p)
      BY <2>3
    <3>2. p \in Interface
      BY DEF Interface
    <3> QED
      BY <1>1, <3>1, <3>2, RowEditsFit DEF ChangeSupport
  <2>4. CASE \E g \in {"default", Team} : ChangeGroups(m, g)
    BY <1>1, <2>4, RowEditsFit DEF ChangeGroups
  <2>5. CASE \E p \in Interface : ChangeRoutes(m, p)
    BY <1>1, <2>5, RowEditsFit DEF ChangeRoutes
  <2> QED
    BY <2>1, <2>2, <2>3, <2>4, <2>5
<1> QED
  BY <1>2, EditedKeeps

LEMMA MemberKeeps ==
    ASSUME AdmissionInv, NEW new \in MemberRows, ChangeMember(new)
    PROVE  AdmissionInv'
<1>1. /\ shelf' = shelf /\ revision' = revision /\ listing' = listing
      /\ shown' = shown /\ walk' = walk
      /\ relayCall' = relayCall /\ spent' = spent
      /\ logRow' = logRow /\ member' = new /\ cards' = cards \cup {new}
  BY DEF ChangeMember
<1>2. /\ \A as : Callable(as)' = Callable(as)
      /\ \A rows, as : AnthropicVisible(rows, as)' = AnthropicVisible(rows, as)
  BY <1>1 DEF Callable, AnthropicVisible, RelayVisible
<1>3. CallFits(relayCall, spent, logRow)'
  BY <1>1, <1>2 DEF AdmissionInv, CallFits, RefusalIsTrue
<1>4. ListsAreCurrent' /\ WalkFits'
  BY <1>1, <1>2 DEF AdmissionInv, ListsAreCurrent, WalkFits
<1> QED
  BY <1>1, <1>3, <1>4 DEF AdmissionInv

LEMMA TariffKeeps ==
    ASSUME AdmissionInv, TurnTariff
    PROVE  AdmissionInv'
<1>1. /\ shelf' = shelf /\ member' = member /\ cards' = cards /\ revision' = revision
      /\ listing' = listing /\ shown' = shown /\ walk' = walk
      /\ relayCall' = relayCall /\ spent' = spent
      /\ logRow' = logRow
  BY DEF TurnTariff
<1>2. /\ \A as : Callable(as)' = Callable(as)
      /\ \A rows, as : AnthropicVisible(rows, as)' = AnthropicVisible(rows, as)
  BY <1>1 DEF Callable, AnthropicVisible, RelayVisible
<1>3. CallFits(relayCall, spent, logRow)'
  BY <1>1, <1>2 DEF AdmissionInv, CallFits, RefusalIsTrue
<1>4. ListsAreCurrent' /\ WalkFits'
  BY <1>1, <1>2 DEF AdmissionInv, ListsAreCurrent, WalkFits
<1> QED
  BY <1>1, <1>3, <1>4 DEF AdmissionInv

-----------------------------------------------------------------------------
LEMMA SmallerOfTwo ==
    ASSUME NEW a \in Int, NEW b \in Int
    PROVE  Min({a, b}) = IF a <= b THEN a ELSE b
<1>1. \E n \in {a, b} : \A m \in {a, b} : n <= m
  OBVIOUS
<1>2. Min({a, b}) \in {a, b} /\ \A m \in {a, b} : Min({a, b}) <= m
  BY <1>1 DEF Min
<1> QED
  BY <1>2

LEMMA LargerOfTwo ==
    ASSUME NEW a \in Int, NEW b \in Int
    PROVE  Max({a, b}) = IF a >= b THEN a ELSE b
<1>1. \E n \in {a, b} : \A m \in {a, b} : n >= m
  OBVIOUS
<1>2. Max({a, b}) \in {a, b} /\ \A m \in {a, b} : Max({a, b}) >= m
  BY <1>1 DEF Max
<1> QED
  BY <1>2

\* The client's wish for a page of a length, held to what is sensible.
LEMMA PageLimitFits ==
    ASSUME NEW requested \in Int PROVE PageLimit(requested) \in Nat \ {0}
<1>1. Max({1, requested}) = IF 1 >= requested THEN 1 ELSE requested
  BY LargerOfTwo
<1>2. Max({1, requested}) \in Int /\ Max({1, requested}) >= 1 /\ 1000 \in Int
  BY <1>1
<1> DEFINE larger == Max({1, requested})
<1> HIDE DEF larger
<1>3. Min({1000, larger}) = IF 1000 <= larger THEN 1000 ELSE larger
  BY <1>2, SmallerOfTwo DEF larger
<1> QED
  BY <1>2, <1>3 DEF PageLimit, larger

\* The members of a set of numbers can be put in their order.
InOrder(s, S) == s \in [1..Cardinality(S) -> S] /\ Range(s) = S /\ Increasing(s)
LEMMA OrderExists ==
    ASSUME NEW S, IsFiniteSet(S)
    PROVE  S \subseteq Int => \E s : InOrder(s, S)
<1> DEFINE Wrong == {R \in SUBSET S : ~\E s : InOrder(s, R)}
<1>14. ASSUME Wrong # {} PROVE \E R \in Wrong : \A t \in Wrong : t \subseteq R => t = R
  <2>1. Wrong \subseteq SUBSET S
    OBVIOUS
  <2> HIDE DEF Wrong
  <2> QED
    BY <1>14, <2>1, LeastSubset
<1>15. ASSUME NEW R \in SUBSET S PROVE IsFiniteSet(R) /\ Cardinality(R) \in Nat
  BY FS_Subset, FS_CardinalityType
<1>1. SUFFICES ASSUME S \subseteq Int, Wrong # {} PROVE FALSE
  OBVIOUS
<1>2. PICK R \in Wrong : \A t \in Wrong : t \subseteq R => t = R
  BY <1>1, <1>14
<1>3. R \in SUBSET Int /\ IsFiniteSet(R) /\ Cardinality(R) \in Nat
  <2>1. R \in SUBSET S
    BY <1>2
  <2> HIDE DEF Wrong
  <2> QED
    BY <1>1, <1>15, <2>1
<1>4. R # {}
  <2> SUFFICES ASSUME R = {} PROVE FALSE
    OBVIOUS
  <2>1. Cardinality(R) = 0 /\ 1..0 = {}
    BY FS_EmptySet
  <2> DEFINE s == [i \in 1..0 |-> 0]
  <2>2. InOrder(s, R)
    BY <2>1 DEF InOrder, Range, Increasing
  <2> QED
    BY <1>2, <2>2
<1>5. PICK n \in R : \A m \in R : m <= n
  BY <1>3, <1>4, GreatestExists
<1> DEFINE T == R \ {n}
<1>6. T \in SUBSET S /\ T # R /\ T \subseteq R
  BY <1>2
<1>7. PICK r : InOrder(r, T)
  BY <1>2, <1>6
<1>8. Cardinality(T) = Cardinality(R) - 1 /\ Cardinality(R) - 1 \in Nat
  <2>1. Cardinality(T) = Cardinality(R) - 1 /\ IsFiniteSet(T)
    BY <1>3, <1>5, FS_RemoveElement
  <2> QED
    BY <2>1, FS_CardinalityType
<1> DEFINE k == Cardinality(R)
           s == [i \in 1..k |-> IF i = k THEN n ELSE r[i]]
<1>9. k \in Nat \ {0} /\ DOMAIN r = 1..(k - 1) /\ \A i \in 1..(k - 1) : r[i] \in T
  <2>1. r \in [1..(k - 1) -> T]
    BY <1>7, <1>8 DEF InOrder
  <2>2. k \in Nat /\ k - 1 \in Nat
    BY <1>3, <1>8
  <2> HIDE DEF k, T
  <2> QED
    BY <2>1, <2>2
<1>10. \A i \in 1..k : i \in 1..(k - 1) \/ i = k
  BY <1>9
<1>11. s \in [1..k -> R]
  BY <1>5, <1>9, <1>10
<1>12. Range(s) = R
  <2>1. Range(r) = T
    BY <1>7 DEF InOrder
  <2>2. \A x \in T : \E i \in 1..(k - 1) : r[i] = x
    BY <1>9, <2>1 DEF Range
  <2>3. \A i \in 1..(k - 1) : i \in 1..k /\ i # k
    BY <1>9
  <2>4. k \in 1..k
    BY <1>9
  <2>5. \A x \in R : \E i \in 1..k : s[i] = x
    BY <2>2, <2>3, <2>4
  <2> QED
    BY <1>11, <2>5 DEF Range
<1>13. Increasing(s)
  <2> SUFFICES ASSUME NEW i \in 1..k, NEW j \in 1..k, i < j PROVE s[i] < s[j]
    BY DEF Increasing
  <2>1. i \in 1..(k - 1) /\ s[i] = r[i] /\ r[i] \in T
    BY <1>9
  <2>2. CASE j = k
    <3>1. s[j] = n /\ r[i] <= n /\ r[i] # n
      BY <1>5, <2>1, <2>2
    <3>2. r[i] \in Int /\ n \in Int
      BY <1>3, <1>5, <2>1
    <3> HIDE DEF s, T
    <3> QED
      BY <2>1, <3>1, <3>2
  <2>3. CASE j \in 1..(k - 1)
    <3>1. s[j] = r[j]
      BY <1>9, <2>3
    <3>2. i \in DOMAIN r /\ j \in DOMAIN r /\ i < j /\ Increasing(r)
      BY <1>7, <1>9, <2>1, <2>3 DEF InOrder
    <3>3. r[i] < r[j]
      BY <3>2 DEF Increasing
    <3> HIDE DEF s, T
    <3> QED
      BY <2>1, <3>1, <3>3
  <2> QED
    BY <1>10, <2>2, <2>3
<1> HIDE DEF s
<1> QED
  BY <1>2, <1>11, <1>12, <1>13 DEF InOrder

LEMMA OrderedFits ==
    ASSUME NEW S \in SUBSET ModelNo
    PROVE  /\ Ordered(S) \in Seq(ModelNo) /\ Range(Ordered(S)) = S /\ Increasing(Ordered(S))
<1>1. IsFiniteSet(ModelNo)
  BY AdmissionAssumption, FS_Interval DEF ModelNo
<1>2. IsFiniteSet(S) /\ S \in SUBSET Int
  <2>1. ModelNo \subseteq Int
    BY DEF ModelNo
  <2> QED
    BY <1>1, <2>1, FS_Subset
<1>3. InOrder(Ordered(S), S)
  BY <1>2, OrderExists DEF Ordered, InOrder
<1>4. Cardinality(S) \in Nat
  BY <1>2, FS_CardinalityType
<1>5. Ordered(S) \in Seq(ModelNo)
  BY <1>3, <1>4, SeqDef DEF InOrder
<1> QED
  BY <1>3, <1>5 DEF InOrder

LEMMA WalkMoves ==
    ASSUME AdmissionInv, WalkFits',
           UNCHANGED <<shelf, member, cards, revision, tariff, listing, shown, relayCall,
                       spent, logRow>>
    PROVE  AdmissionInv'
<1>1. /\ shelf' = shelf /\ member' = member /\ cards' = cards /\ revision' = revision
      /\ listing' = listing /\ shown' = shown
      /\ relayCall' = relayCall /\ spent' = spent /\ logRow' = logRow
  OBVIOUS
<1>2. \A as : Callable(as)' = Callable(as)
  BY <1>1 DEF Callable
<1>3. CallFits(relayCall, spent, logRow)'
  BY <1>1, <1>2 DEF AdmissionInv, CallFits, RefusalIsTrue
<1>4. ListsAreCurrent'
  BY <1>1, <1>2 DEF AdmissionInv, ListsAreCurrent
<1> QED
  BY <1>1, <1>3, <1>4 DEF AdmissionInv

LEMMA StartWalkKeeps ==
    ASSUME AdmissionInv, StartWalk
    PROVE  AdmissionInv'
<1>12. PICK requested \in {0, 2, 5000} : walk' = FreshWalk(PageLimit(requested))
  BY DEF StartWalk
<1> DEFINE limit == PageLimit(requested)
<1>3. limit \in Nat \ {0}
  BY <1>12, PageLimitFits
<1> HIDE DEF limit
<1> DEFINE visible == ModelNo
<1>2. /\ shelf' = shelf /\ member' = member /\ shelf \in Shelves /\ member \in MemberRows
      /\ UNCHANGED <<shelf, member, cards, revision, tariff, listing, shown, relayCall, spent,
                     logRow>>
  BY DEF AdmissionInv, StartWalk
<1>4. visible \in SUBSET ModelNo
  OBVIOUS
<1>5. <<>> \in Seq(ModelNo) /\ DOMAIN <<>> = {}
  OBVIOUS
<1> HIDE DEF visible
<1>6. NoWalk \in Walks /\ NoWalk.seen = <<>> /\ NoWalk.cursor = 0
  BY <1>2, EmptyWalkFits
<1>13. walk' = [NoWalk EXCEPT !.phase = "between", !.limit = limit, !.always = visible]
  BY <1>12 DEF FreshWalk, limit, visible
<1>14. NoWalk \in Walks /\ "between" \in {"idle", "between", "rows", "done"}
  BY <1>6
<1>7. walk' \in Walks
  <2>1. ASSUME NEW w \in Walks PROVE [w EXCEPT !.phase = "between"] \in Walks
    BY DEF Walks
  <2>2. ASSUME NEW w \in Walks PROVE [w EXCEPT !.limit = limit] \in Walks
    BY <1>3 DEF Walks
  <2>3. ASSUME NEW w \in Walks PROVE [w EXCEPT !.always = visible] \in Walks
    BY <1>4 DEF Walks
  <2> DEFINE begun == [NoWalk EXCEPT !.phase = "between"]
             limited == [begun EXCEPT !.limit = limit]
  <2>4. begun \in Walks
    BY <1>14, <2>1
  <2> HIDE DEF begun
  <2>5. limited \in Walks
    BY <2>2, <2>4
  <2> HIDE DEF limited
  <2>6. [limited EXCEPT !.always = visible] \in Walks
    BY <2>3, <2>5
  <2> QED
    BY <1>13, <2>6 DEF limited, begun
<1>8. /\ walk'.phase = "between" /\ walk'.seen = <<>> /\ walk'.always = visible
      /\ walk'.cursor = 0
  BY <1>6, <1>13 DEF Walks
<1>9. \A m \in ModelNo : ~(m <= 0)
  BY DEF ModelNo
<1>10. SeenSoFar(walk')
  BY <1>4, <1>5, <1>8, <1>9 DEF SeenSoFar, Increasing
<1>11. WalkFits'
  BY <1>4, <1>7, <1>8, <1>10 DEF WalkFits, SeenSoFar
<1> QED
  BY <1>2, <1>11, WalkMoves

LEMMA AskPageKeeps ==
    ASSUME AdmissionInv, NEW as \in cards, AskPage(as)
    PROVE  AdmissionInv'
<1> DEFINE left == walk.always \cap AnthropicVisible(shelf, as)
<1>1. /\ walk' = [walk EXCEPT !.phase = "rows", !.rows = shelf, !.as = as, !.always = left]
      /\ walk.phase = "between" /\ shelf \in Shelves /\ as \in MemberRows
      /\ UNCHANGED <<shelf, member, cards, revision, tariff, listing, shown, relayCall, spent,
                     logRow>>
  BY DEF AdmissionInv, AskPage
<1>2. walk \in Walks /\ SeenSoFar(walk)
  BY <1>1 DEF AdmissionInv, WalkFits
<1>3. \A rows, who : AnthropicVisible(rows, who)' = AnthropicVisible(rows, who)
  BY <1>1 DEF AnthropicVisible, RelayVisible
<1>4. left \subseteq walk.always /\ left \subseteq AnthropicVisible(shelf, as)
  OBVIOUS
<1> HIDE DEF left
<1>5. walk' \in Walks
  BY <1>1, <1>2, <1>4 DEF Walks
<1>6. /\ walk'.phase = "rows" /\ walk'.seen = walk.seen /\ walk'.always = left
      /\ walk'.cursor = walk.cursor /\ walk'.gone = walk.gone /\ walk'.rows = shelf
      /\ walk'.as = as
  BY <1>1, <1>2 DEF Walks
<1>7. SeenSoFar(walk')
  BY <1>1, <1>2, <1>4, <1>6 DEF SeenSoFar
<1>8. WalkFits'
  BY <1>1, <1>3, <1>4, <1>5, <1>6, <1>7 DEF WalkFits, SeenSoFar
<1> QED
  BY <1>1, <1>8, WalkMoves

UpTo(s, n) == \A i \in DOMAIN s : s[i] <= n
Beyond(s, n) == \A i \in DOMAIN s : n < s[i]

\* One page more, of models that come after those seen, keeps what was seen in order.
Paged(old, rest, k, page) ==
    /\ Increasing(old \o page)
    /\ Range(old \o page) = Range(old) \cup {rest[i] : i \in 1..k}
    /\ k > 0 => UpTo(old \o page, rest[k])

LEMMA ListPageFits ==
    ASSUME NEW old \in Seq(ModelNo), NEW rest \in Seq(ModelNo), NEW k \in 0..Len(rest),
           NEW cursor \in Nat, Increasing(old), Increasing(rest),
           UpTo(old, cursor), Beyond(rest, cursor),
           NEW page, page = SubSeq(rest, 1, k)
    PROVE  Paged(old, rest, k, page)
<1>1. page \in Seq(ModelNo) /\ Len(page) = k /\ \A i \in 1..k : page[i] = rest[i]
  OBVIOUS
<1> DEFINE n == Len(old)
           all == old \o page
<1>2. /\ n \in Nat /\ k \in Nat /\ all \in Seq(ModelNo) /\ DOMAIN all = 1..(n + k)
      /\ DOMAIN old = 1..n /\ DOMAIN rest = 1..Len(rest) /\ 1..k \subseteq 1..Len(rest)
      /\ \A i \in 1..n : all[i] = old[i]
      /\ \A i \in 1..k : all[n + i] = rest[i]
  BY <1>1
<1>3. \A i \in 1..(n + k) : i \in 1..n \/ (i - n \in 1..k /\ all[i] = rest[i - n])
  <2> SUFFICES ASSUME NEW i \in 1..(n + k), i \notin 1..n
               PROVE  i - n \in 1..k /\ all[i] = rest[i - n]
    OBVIOUS
  <2>1. i - n \in 1..k /\ i = n + (i - n)
    BY <1>2
  <2> HIDE DEF all, n
  <2> QED
    BY <1>2, <2>1
<1>4. /\ \A i \in 1..n : old[i] \in Nat /\ old[i] <= cursor
      /\ \A i \in 1..k : rest[i] \in Nat /\ cursor < rest[i]
      /\ \A i, j \in 1..n : i < j => old[i] < old[j]
      /\ \A i, j \in 1..k : i < j => rest[i] < rest[j]
  <2>1. \A m \in ModelNo : m \in Nat
    BY DEF ModelNo
  <2>2. \A i \in 1..n : i \in DOMAIN old /\ old[i] \in ModelNo
    BY <1>2
  <2>3. \A i \in 1..k : i \in DOMAIN rest /\ rest[i] \in ModelNo
    BY <1>2
  <2>4. \A i, j \in 1..n : i < j => old[i] < old[j]
    BY <2>2 DEF Increasing
  <2>5. \A i, j \in 1..k : i < j => rest[i] < rest[j]
    BY <2>3 DEF Increasing
  <2> QED
    BY <2>1, <2>2, <2>3, <2>4, <2>5 DEF UpTo, Beyond
<1>5. \A i \in 1..n : i \in 1..(n + k)
  BY <1>2
<1>6. \A i \in 1..k : n + i \in 1..(n + k)
  BY <1>2
<1> HIDE DEF all, n
<1>7. Increasing(all)
  <2> SUFFICES ASSUME NEW i \in 1..(n + k), NEW j \in 1..(n + k), i < j PROVE all[i] < all[j]
    BY <1>2 DEF Increasing
  <2>1. CASE j \in 1..n
    <3>1. i \in 1..n
      BY <1>2, <2>1
    <3> QED
      BY <1>2, <1>4, <2>1, <3>1
  <2>2. CASE i \in 1..n /\ j \notin 1..n
    <3>1. j - n \in 1..k /\ all[j] = rest[j - n] /\ all[i] = old[i]
      BY <1>2, <1>3, <2>2
    <3> DEFINE q == j - n
    <3>2. q \in 1..k /\ all[j] = rest[q]
      BY <3>1
    <3> HIDE DEF q
    <3>3. old[i] \in Nat /\ old[i] <= cursor /\ rest[q] \in Nat /\ cursor < rest[q]
      BY <1>4, <2>2, <3>2
    <3> QED
      BY <3>1, <3>2, <3>3
  <2>3. CASE i \notin 1..n /\ j \notin 1..n
    <3>1. /\ j - n \in 1..k /\ all[j] = rest[j - n] /\ i - n \in 1..k /\ all[i] = rest[i - n]
          /\ i - n < j - n
      BY <1>2, <1>3, <2>3
    <3> DEFINE q == j - n
               p == i - n
    <3>2. q \in 1..k /\ all[j] = rest[q] /\ p \in 1..k /\ all[i] = rest[p] /\ p < q
      BY <3>1
    <3> HIDE DEF q, p
    <3> QED
      BY <1>4, <3>2
  <2> QED
    BY <2>1, <2>2, <2>3
<1>8. Range(all) = Range(old) \cup {rest[i] : i \in 1..k}
  <2>1. ASSUME NEW x \in Range(all) PROVE x \in Range(old) \cup {rest[i] : i \in 1..k}
    <3>1. PICK i \in 1..(n + k) : x = all[i]
      BY <1>2, <2>1 DEF Range
    <3>2. CASE i \in 1..n
      BY <1>2, <3>1, <3>2 DEF Range
    <3>3. CASE i \notin 1..n
      BY <1>3, <3>1, <3>3
    <3> QED
      BY <3>2, <3>3
  <2>2. ASSUME NEW x \in Range(old) PROVE x \in Range(all)
    BY <1>2, <1>5, <2>2 DEF Range
  <2>3. ASSUME NEW i \in 1..k PROVE rest[i] \in Range(all)
    BY <1>2, <1>6, <2>3 DEF Range
  <2> QED
    BY <2>1, <2>2, <2>3
<1>9. ASSUME k > 0, NEW i \in 1..(n + k) PROVE all[i] <= rest[k]
  <2>1. k \in 1..k /\ rest[k] \in Nat /\ cursor < rest[k]
    BY <1>2, <1>4, <1>9
  <2>2. CASE i \in 1..n
    <3>1. all[i] = old[i] /\ old[i] \in Nat /\ old[i] <= cursor
      BY <1>2, <1>4, <2>2
    <3> QED
      BY <2>1, <3>1
  <2>3. CASE i \notin 1..n
    <3> DEFINE p == i - n
    <3>1. p \in 1..k /\ all[i] = rest[p]
      BY <1>3, <2>3
    <3> HIDE DEF p
    <3>2. rest[p] \in Nat /\ (p < k => rest[p] < rest[k]) /\ (p = k \/ p < k)
      BY <1>2, <1>4, <2>1, <3>1
    <3> QED
      BY <2>1, <3>1, <3>2
  <2> QED
    BY <2>2, <2>3
<1> QED
  BY <1>2, <1>7, <1>8, <1>9 DEF all, UpTo, Paged

LEMMA GetPageKeeps ==
    ASSUME AdmissionInv, GetPage
    PROVE  AdmissionInv'
<1> DEFINE visible == AnthropicVisible(walk.rows, walk.as)
           rest == Ordered(PageFrom(visible, walk.cursor))
           k == Min({walk.limit, Len(rest)})
           page == SubSeq(rest, 1, k)
           more == Len(rest) > Len(page)
           gone == walk.gone \/ (walk.cursor # 0 /\ walk.cursor \notin visible)
           cursor == IF page = <<>> THEN 0 ELSE Last(page)
<1>1. /\ walk' = [walk EXCEPT !.phase = IF more THEN "between" ELSE "done",
                     !.seen = @ \o page, !.pages = @ + 1, !.rows = shelf, !.as = member,
                     !.gone = gone, !.cursor = cursor]
      /\ walk.phase = "rows"
      /\ UNCHANGED <<shelf, member, cards, revision, tariff, listing, shown, relayCall, spent,
                     logRow>>
  BY DEF GetPage
<1>2. /\ walk \in Walks /\ SeenSoFar(walk) /\ walk.always \subseteq visible
      /\ shelf \in Shelves /\ member \in MemberRows
  BY <1>1 DEF AdmissionInv, WalkFits
<1>3. shelf' = shelf /\ \A rows, as : AnthropicVisible(rows, as)' = AnthropicVisible(rows, as)
  BY <1>1 DEF AnthropicVisible, RelayVisible
<1>4. visible \in SUBSET ModelNo
  BY DEF AnthropicVisible, RelayVisible, AllModels
<1> HIDE DEF visible
<1> DEFINE R == PageFrom(visible, walk.cursor)
<1>5. R \in SUBSET ModelNo
  BY <1>4 DEF PageFrom, After
<1> HIDE DEF R
<1>6. rest \in Seq(ModelNo) /\ Range(rest) = R /\ Increasing(rest)
  BY <1>5, OrderedFits DEF R
<1> HIDE DEF rest
<1>7. /\ walk.limit \in Nat \ {0} /\ walk.cursor \in Nat /\ walk.seen \in Seq(ModelNo)
      /\ walk.gone \in BOOLEAN /\ walk.pages \in Nat /\ walk.always \in SUBSET ModelNo
  BY <1>2 DEF Walks
<1>8. /\ Len(rest) \in Nat /\ k = IF walk.limit <= Len(rest) THEN walk.limit ELSE Len(rest)
  <2>1. Len(rest) \in Nat
    BY <1>6
  <2> QED
    BY <1>7, <2>1, SmallerOfTwo
<1> HIDE DEF k
<1>9. k \in 0..Len(rest) /\ (k < Len(rest) => k > 0)
  BY <1>7, <1>8
<1>10. page \in Seq(ModelNo) /\ Len(page) = k /\ \A i \in 1..k : page[i] = rest[i]
  BY <1>6, <1>9
<1>11. /\ more <=> k < Len(rest)
       /\ k = 0 => cursor = 0
       /\ k > 0 => cursor = rest[k] /\ rest[k] \in ModelNo
  <2>1. more <=> k < Len(rest)
    BY <1>8, <1>9, <1>10
  <2>2. page = <<>> <=> k = 0
    BY <1>9, <1>10
  <2>3. k > 0 => Last(page) = rest[k] /\ rest[k] \in ModelNo
    BY <1>6, <1>9, <1>10 DEF Last
  <2> QED
    BY <1>9, <2>1, <2>2, <2>3
<1>12. cursor \in Nat
  BY <1>9, <1>11 DEF ModelNo
<1>13. walk.seen \o page \in Seq(ModelNo)
  BY <1>7, <1>10
<1>14. gone \in BOOLEAN /\ walk.pages + 1 \in Nat
  BY <1>7
<1> HIDE DEF page, more, gone, cursor
<1> DEFINE phase == IF more THEN "between" ELSE "done"
           pages == walk.pages + 1
           seenThen == walk.seen \o page
<1>15. phase \in {"idle", "between", "rows", "done"}
  OBVIOUS
<1>16. walk' = [walk EXCEPT !.phase = phase, !.seen = seenThen, !.pages = pages, !.rows = shelf,
                     !.as = member, !.gone = gone, !.cursor = cursor]
  BY <1>1, <1>2 DEF Walks
<1> HIDE DEF phase, pages, seenThen
<1>17. walk' \in Walks
  <2>1. seenThen \in Seq(ModelNo) /\ pages \in Nat
    BY <1>13, <1>14 DEF seenThen, pages
  <2> QED
    BY <1>2, <1>12, <1>14, <1>15, <1>16, <2>1 DEF Walks
<1>18. /\ walk'.phase = phase /\ walk'.seen = seenThen /\ walk'.gone = gone
       /\ walk'.cursor = cursor /\ walk'.always = walk.always /\ walk'.rows = shelf
  BY <1>2, <1>16 DEF Walks
<1>19. SeenSoFar(walk')
  <2> SUFFICES ASSUME ~gone
      PROVE  /\ Increasing(seenThen)
             /\ phase \in {"between", "rows"} =>
                   /\ \A i \in DOMAIN seenThen : seenThen[i] <= cursor
                   /\ \A m \in walk.always : m <= cursor => m \in Range(seenThen)
             /\ phase = "done" => walk.always \subseteq Range(seenThen)
    BY <1>18 DEF SeenSoFar
  <2>1. /\ Increasing(walk.seen) /\ \A i \in DOMAIN walk.seen : walk.seen[i] <= walk.cursor
        /\ \A m \in walk.always : m <= walk.cursor => m \in Range(walk.seen)
        /\ walk.cursor = 0 \/ walk.cursor \in visible
    BY <1>1, <1>2, <1>7 DEF SeenSoFar, gone
  <2>2. R = {m \in visible : m > walk.cursor}
    <3>1. \A m \in visible : m \in Nat /\ m > 0
      BY <1>4 DEF ModelNo
    <3>2. R = IF walk.cursor \in visible THEN {m \in visible : m > walk.cursor} ELSE visible
      BY DEF R, PageFrom, After
    <3>3. CASE walk.cursor \in visible
      BY <3>2, <3>3
    <3>4. CASE walk.cursor \notin visible
      <4>1. walk.cursor = 0 /\ R = visible
        BY <2>1, <3>2, <3>4
      <4> QED
        BY <3>1, <4>1
    <3> QED
      BY <3>3, <3>4
  <2>3. \A i \in DOMAIN rest : walk.cursor < rest[i]
    <3> SUFFICES ASSUME NEW i \in DOMAIN rest PROVE walk.cursor < rest[i]
      OBVIOUS
    <3>1. rest[i] \in R
      BY <1>6 DEF Range
    <3>2. rest[i] \in ModelNo /\ rest[i] > walk.cursor
      BY <1>4, <2>2, <3>1
    <3> QED
      BY <1>7, <3>2 DEF ModelNo
  <2>4. /\ Increasing(seenThen)
        /\ Range(seenThen) = Range(walk.seen) \cup {rest[i] : i \in 1..k}
        /\ k > 0 => \A i \in DOMAIN seenThen : seenThen[i] <= rest[k]
    <3> DEFINE old == walk.seen
               from == walk.cursor
    <3>1. old \in Seq(ModelNo) /\ from \in Nat /\ Increasing(old)
          /\ UpTo(old, from) /\ Beyond(rest, from)
      BY <1>7, <2>1, <2>3 DEF UpTo, Beyond
    <3>2. page = SubSeq(rest, 1, k) /\ seenThen = old \o page
      BY DEF page, seenThen
    <3> HIDE DEF old, from
    <3>3. rest \in Seq(ModelNo) /\ Increasing(rest) /\ k \in 0..Len(rest)
      BY <1>6, <1>9
    <3>4. Paged(old, rest, k, page)
      BY <3>1, <3>2, <3>3, ListPageFits
    <3> QED
      BY <3>2, <3>4 DEF old, UpTo, Paged
  <2>5. ASSUME NEW m \in walk.always
        PROVE  m \in Range(walk.seen) \/ \E j \in 1..Len(rest) : m = rest[j]
    <3>1. m \in visible /\ m \in ModelNo
      BY <1>2, <1>7
    <3>2. CASE m <= walk.cursor
      BY <2>1, <3>2
    <3>3. CASE m > walk.cursor
      BY <1>6, <2>2, <3>1, <3>3 DEF Range
    <3> QED
      BY <1>7, <3>1, <3>2, <3>3 DEF ModelNo
  <2>6. CASE more
    <3>1. k \in 1..Len(rest) /\ k > 0 /\ cursor = rest[k] /\ phase = "between"
      BY <1>8, <1>9, <1>11, <2>6 DEF phase
    <3>2. ASSUME NEW m \in walk.always, m <= cursor PROVE m \in Range(seenThen)
      <4>1. CASE m \in Range(walk.seen)
        BY <2>4, <4>1
      <4>2. CASE \E j \in 1..Len(rest) : m = rest[j]
        <5>1. PICK j \in 1..Len(rest) : m = rest[j]
          BY <4>2
        <5>5. j \in DOMAIN rest /\ k \in DOMAIN rest /\ rest[j] \in ModelNo
              /\ rest[k] \in ModelNo
          BY <1>6, <3>1
        <5>2. j \in DOMAIN rest /\ k \in DOMAIN rest /\ rest[j] \in Nat /\ rest[k] \in Nat
          BY <5>5 DEF ModelNo
        <5>3. ~(k < j)
          BY <1>6, <3>1, <3>2, <5>1, <5>2 DEF Increasing
        <5>4. j \in 1..k
          BY <1>9, <5>3
        <5> QED
          BY <2>4, <5>1, <5>4
      <4> QED
        BY <2>5, <3>2, <4>1, <4>2
    <3> QED
      BY <2>4, <3>1, <3>2
  <2>7. CASE ~more
    <3>1. k = Len(rest) /\ phase = "done"
      BY <1>8, <1>9, <1>11, <2>7 DEF phase
    <3> QED
      BY <2>4, <2>5, <3>1
  <2> QED
    BY <2>6, <2>7
<1>20. WalkFits'
  <2>1. phase # "idle" /\ phase # "rows"
    BY DEF phase
  <2> QED
    BY <1>2, <1>3, <1>17, <1>18, <1>19, <2>1 DEF WalkFits, SeenSoFar
<1> QED
  BY <1>1, <1>20, WalkMoves

-----------------------------------------------------------------------------
LEMMA AdmissionStep ==
    ASSUME AdmissionInv, AdmissionNext
    PROVE  AdmissionInv'
<1>1. CASE \E by \in {"portal", "relay"} : shown.by = "nobody" /\ StartList(by)
  BY <1>1, StartListKeeps
<1>2. CASE \E m \in AskedModels, by \in Interface, drawing \in BOOLEAN, as \in cards :
             ~Walking /\ BeginCall(m, by, drawing, as)
  BY <1>2, BeginCallKeeps
<1>3. CASE \E m \in IF Walking THEN ModelNo ELSE AskedModels :
             \/ SwitchModel(m)
             \/ ~Walking /\ ChangePrice(m)
             \/ \E p \in {"responses", "anthropic"} : ChangeSupport(m, p)
             \/ \E g \in {"default", Team} : ChangeGroups(m, g)
             \/ \E p \in Interface : ~Walking /\ ChangeRoutes(m, p)
  <2>1. PICK m \in IF Walking THEN ModelNo ELSE AskedModels :
             \/ SwitchModel(m)
             \/ ~Walking /\ ChangePrice(m)
             \/ \E p \in {"responses", "anthropic"} : ChangeSupport(m, p)
             \/ \E g \in {"default", Team} : ChangeGroups(m, g)
             \/ \E p \in Interface : ~Walking /\ ChangeRoutes(m, p)
    BY <1>3
  <2>2. m \in ModelNo
    BY AdmissionAssumption DEF ModelNo
  <2>3. (\E p \in Interface : ~Walking /\ ChangeRoutes(m, p))
           => \E p \in Interface : ChangeRoutes(m, p)
    OBVIOUS
  <2> QED
    BY <2>1, <2>2, <2>3, RowEditKeeps
<1>4. CASE \E new \in {[role |-> "admin", groups |-> {}], [role |-> "user", groups |-> {Team}]} :
             ChangeMember(new)
  <2>1. PICK new \in {[role |-> "admin", groups |-> {}], [role |-> "user", groups |-> {Team}]} :
             ChangeMember(new)
    BY <1>4
  <2>2. new \in MemberRows
    BY DEF MemberRows
  <2> QED
    BY <2>1, <2>2, MemberKeeps
<1>5. CASE ReadMember \/ FinishList \/ StartWalk \/ (\E as \in cards : AskPage(as)) \/ GetPage
           \/ TurnTariff
  BY <1>5, ReadMemberKeeps, FinishListKeeps, StartWalkKeeps, AskPageKeeps, GetPageKeeps,
     TariffKeeps
<1>6. CASE NameMissing \/ FindModel \/ AdmitCall \/ ReserveQuota \/ Execute \/ Succeed
           \/ RouteLost \/ ClientLeaves \/ UpstreamFails \/ SettleCall \/ CallAnswered
  BY <1>6, FindKeeps, AdmitKeeps, ReserveKeeps, ExecuteKeeps, SucceedKeeps, RouteLostKeeps,
     LeavingKeeps, SettleKeeps, AnsweredKeeps
<1> QED
  BY <1>1, <1>2, <1>3, <1>4, <1>5, <1>6 DEF AdmissionNext

LEMMA AdmissionStays ==
    ASSUME AdmissionInv, UNCHANGED admissionVars
    PROVE  AdmissionInv'
<1>1. /\ relayCall' = relayCall /\ spent' = spent /\ logRow' = logRow
      /\ UNCHANGED <<shelf, member, cards, revision, tariff, listing, shown, walk>>
  BY DEF admissionVars
<1> QED
  BY <1>1, CallMoves DEF AdmissionInv

-----------------------------------------------------------------------------
\* A model that was listed as callable is not refused to a user known by the same reading
\* while no model is edited; a walk through the pages of models misses none that was
\* visible to each page, whatever reading it was made with; a call is logged with the
\* status it was answered and charged as it was quoted; and the trail of a user's quota
\* accounts for every package that is stored, which a form nobody typed into leaves alone:
\* for any models and edits of them, officers, packages and months (relay.service.ts:42,
\* 107, relay-accounting.ts:87, users.module.ts).
THEOREM CallersAreTold == CallerSpec => AdmissionHolds
<1>1. AdmissionInv /\ [AdmissionNext]_admissionVars => AdmissionInv'
  BY AdmissionStep, AdmissionStays
<1>2. AdmissionInv => ListedIsAdmitted /\ WalkIsComplete /\ LogTellsStatus /\ ChargedAsQuoted
  BY AdmissionHolding
<1>3. AdjustmentInv => TrailAccounts
  BY DEF AdjustmentInv
<1>4. AdjustmentInv /\ [AdjustmentNext]_adjustmentVars =>
        [\A a \in Officer :
            update[a].stage = "locked" /\ ~update[a].reason /\ update'[a] # update[a]
               => UNCHANGED <<packages, trail>>]_adjustmentVars
  BY UntypedKeeps
<1> QED
  BY <1>1, <1>2, <1>3, <1>4, AdmissionStart, AdjustmentStart, AdjustmentStep, PTL
     DEF CallerSpec, AdmissionSpec, AdjustmentSpec, AdmissionHolds, OnlyWhatWasTyped

-----------------------------------------------------------------------------
(* The diagnosis beside the pool: what is said of a channel is what its paths    *)
(* make of it, whatever of it changed last.                                      *)
WorstOf(c, ps, s) ==
    /\ \A q \in PathsOf(c) : ps[q].errors <= s.errors
    /\ \E q \in PathsOf(c) : ps[q].errors = s.errors
DiagnosisInv ==
    /\ described \in [Upstream -> BindingFaults \cup {"ready"}]
    /\ pool = {c \in Upstream : described[c] = "ready"}
    /\ base \in [Upstream -> {"ready", "channel_missing", "disabled", "credential_unreadable"}]
    /\ paths \in [RoutePath -> [errors : Nat, open : BOOLEAN]]
    /\ summed \in [Upstream -> [errors : Nat, open : BOOLEAN]]
    /\ auto \in BOOLEAN
    /\ \A q \in RoutePath : paths[q].open => auto /\ summed[q[1]].open
    /\ \A c \in Upstream \ unscoped : WorstOf(c, paths, summed[c])

LEMMA LeastExists ==
    ASSUME NEW S \in SUBSET Int, IsFiniteSet(S), S # {}
    PROVE  \E n \in S : \A m \in S : n <= m
<1> DEFINE f == [x \in S |-> 0 - x]
<1>1. \A x \in S : x \in Int /\ f[x] \in Int /\ f[x] = 0 - x
  OBVIOUS
<1> HIDE DEF f
<1>2. \E n \in S : \A x \in S : f[x] <= f[n]
  BY <1>1, LargestExists
<1> QED
  BY <1>1, <1>2

LEMMA PathsFit ==
    ASSUME NEW c \in Upstream
    PROVE  /\ PathsOf(c) \subseteq RoutePath /\ PathsOf(c) # {} /\ IsFiniteSet(PathsOf(c))
           /\ \A q \in RoutePath : q \in PathsOf(c) <=> q[1] = c
<1>1. IsFiniteSet(Spoken[c]) /\ Spoken[c] # {}
  BY DiagnosisAssumption
<1>2. PathsOf(c) # {} /\ PathsOf(c) \subseteq RoutePath
  <2>1. PathsOf(c) # {}
    BY <1>1 DEF PathsOf
  <2>2. ASSUME NEW p \in Spoken[c] PROVE <<c, p>> \in RoutePath
    <3>1. p \in UNION {Spoken[d] : d \in Upstream}
      BY <2>2
    <3>2. <<c, p>> \in Upstream \X UNION {Spoken[d] : d \in Upstream}
      BY <3>1
    <3> QED
      BY <3>2 DEF RoutePath
  <2> QED
    BY <2>1, <2>2 DEF PathsOf
<1>3. IsFiniteSet(PathsOf(c))
  <2> DEFINE f == [p \in Spoken[c] |-> <<c, p>>]
  <2>1. f \in Surjection(Spoken[c], PathsOf(c))
    BY DEF Surjection, PathsOf
  <2> QED
    BY <1>1, <2>1, FS_Surjection
<1>4. ASSUME NEW q \in RoutePath PROVE q \in PathsOf(c) <=> q[1] = c
  <2>1. q = <<q[1], q[2]>> /\ q[2] \in Spoken[q[1]]
    BY DEF RoutePath
  <2>2. q \in PathsOf(c) => q[1] = c
    BY DEF PathsOf
  <2>3. q[1] = c => q \in PathsOf(c)
    BY <2>1 DEF PathsOf
  <2> QED
    BY <2>2, <2>3
<1> QED
  BY <1>2, <1>3, <1>4

LEMMA PathHasChannel ==
    ASSUME NEW q \in RoutePath PROVE q[1] \in Upstream /\ q \in PathsOf(q[1])
<1>1. q[1] \in Upstream
  BY DEF RoutePath
<1> QED
  BY <1>1, PathsFit

\* The summary of a channel is the worst of its paths.
LEMMA SummaryFits ==
    ASSUME NEW c \in Upstream, NEW ps, \A q \in RoutePath : ps[q].errors \in Nat
    PROVE  /\ SummaryOf(c, ps) \in [errors : Nat, open : BOOLEAN]
           /\ WorstOf(c, ps, SummaryOf(c, ps))
           /\ SummaryOf(c, ps).open <=> \E q \in PathsOf(c) : ps[q].open
<1> DEFINE values == {ps[q].errors : q \in PathsOf(c)}
           worst == Max(values)
           open == \E q \in PathsOf(c) : ps[q].open
<1>1. PathsOf(c) \subseteq RoutePath /\ PathsOf(c) # {} /\ IsFiniteSet(PathsOf(c))
  BY PathsFit
<1>2. values \subseteq Nat /\ values # {} /\ \A q \in PathsOf(c) : ps[q].errors \in values
  BY <1>1
<1>3. IsFiniteSet(values)
  <2> DEFINE f == [q \in PathsOf(c) |-> ps[q].errors]
  <2>1. f \in Surjection(PathsOf(c), values)
    BY DEF Surjection
  <2> HIDE DEF f, values
  <2> QED
    BY <1>1, <2>1, FS_Surjection
<1>4. \E n \in values : \A m \in values : m <= n
  <2> HIDE DEF values
  <2>1. values \in SUBSET Int
    BY <1>2
  <2> QED
    BY <1>2, <1>3, <2>1, GreatestExists
<1>5. worst \in values /\ \A m \in values : m <= worst
  <2>1. worst = CHOOSE x \in values : \A y \in values : x >= y
    BY DEF Max
  <2> HIDE DEF worst, values
  <2>2. \E n \in values : \A m \in values : n >= m
    BY <1>2, <1>4
  <2>3. worst \in values /\ \A m \in values : worst >= m
    BY <2>1, <2>2
  <2> QED
    BY <1>2, <2>3
<1>6. SummaryOf(c, ps) = [errors |-> worst, open |-> open]
  BY DEF SummaryOf
<1>7. \E q \in PathsOf(c) : ps[q].errors = worst
  <2> HIDE DEF worst
  <2> QED
    BY <1>5
<1>8. worst \in Nat /\ open \in BOOLEAN
  BY <1>2, <1>5
<1> HIDE DEF worst, open
<1>9. SummaryOf(c, ps).errors = worst /\ SummaryOf(c, ps).open = open
  BY <1>6
<1>10. WorstOf(c, ps, SummaryOf(c, ps))
  BY <1>2, <1>5, <1>7, <1>9 DEF WorstOf
<1>11. SummaryOf(c, ps).open <=> open
  BY <1>8, <1>9
<1> QED
  BY <1>6, <1>8, <1>10, <1>11 DEF open

LEMMA FirstFaultFits ==
    ASSUME NEW c, NEW ws, NEW kinds
    PROVE  FirstFault(c, ws, kinds) \in kinds \cup {"ready"}
<1> DEFINE found == {i \in DOMAIN Order : Order[i] \in kinds /\ <<c, Order[i]>> \in ws}
<1>1. FirstFault(c, ws, kinds) = IF found = {} THEN "ready" ELSE Order[Min(found)]
  BY DEF FirstFault
<1>3. IsFiniteSet(1..8)
  <2>1. 1 \in Int /\ 8 \in Int
    OBVIOUS
  <2> QED
    BY <2>1, FS_Interval
<1>2. ASSUME found # {} PROVE Order[Min(found)] \in kinds
  <2>1. DOMAIN Order = 1..8
    BY DEF Order
  <2>2. found \subseteq Nat /\ \A i \in found : Order[i] \in kinds
    BY <2>1
  <2>6. IsFiniteSet(found)
    <3>1. found \subseteq 1..8
      BY <2>1
    <3> QED
      BY <1>3, <3>1, FS_Subset
  <2> HIDE DEF found
  <2>3. \E n \in found : \A m \in found : n <= m
    <3>1. found \in SUBSET Int /\ IsFiniteSet(found)
      BY <2>2, <2>6
    <3> QED
      BY <1>2, <3>1, LeastExists
  <2>4. Min(found) = CHOOSE x \in found : \A y \in found : x <= y
    BY DEF Min
  <2>5. Min(found) \in found
    BY <2>3, <2>4
  <2> QED
    BY <2>2, <2>5
<1> QED
  BY <1>1, <1>2

LEMMA DiagnosisHolding ==
    ASSUME DiagnosisInv PROVE DiagnosisIsRouting /\ WorstPathShown
<1>1. ASSUME NEW c \in Upstream
      PROVE  BindingStatus(c) = "available" <=> \E q \in PathsOf(c) : q \in Pickable
  <2>1. described[c] # "available" /\ (c \in pool <=> described[c] = "ready")
    BY DEF DiagnosisInv, BindingFaults
  <2>2. \A q \in PathsOf(c) : q \in RoutePath /\ q[1] = c
    BY PathsFit
  <2>3. BindingStatus(c) = "available" <=> c \in pool /\ ~AllDisabled(c)
    BY <2>1 DEF BindingStatus
  <2>4. \A q \in PathsOf(c) : q \in Pickable <=> c \in pool /\ ~paths[q].open
    BY <2>2 DEF Pickable
  <2> QED
    BY <2>3, <2>4 DEF AllDisabled
<1>2. {c \in Upstream : BindingStatus(c) \in {"available", "temporarily_disabled"}} = pool
  <2>1. ASSUME NEW c \in Upstream
        PROVE  BindingStatus(c) \in {"available", "temporarily_disabled"} <=> c \in pool
    BY DEF DiagnosisInv, BindingFaults, BindingStatus
  <2>2. pool \subseteq Upstream
    BY DEF DiagnosisInv
  <2> QED
    BY <2>1, <2>2
<1>3. RoutingTag = "danger" <=> Pickable = {}
  <2>1. RoutingTag = "danger" <=> AvailableBindings = {}
    BY DEF RoutingTag
  <2>2. ASSUME AvailableBindings = {}, NEW q \in Pickable PROVE FALSE
    <3>1. q \in RoutePath /\ q[1] \in Upstream /\ q \in PathsOf(q[1])
      BY <2>2, PathHasChannel DEF Pickable
    <3> QED
      BY <1>1, <2>2, <3>1 DEF AvailableBindings
  <2>3. ASSUME Pickable = {} PROVE AvailableBindings = {}
    BY <1>1, <2>3 DEF AvailableBindings
  <2> QED
    BY <2>1, <2>2, <2>3
<1>4. DiagnosisIsRouting
  BY <1>1, <1>2, <1>3 DEF DiagnosisIsRouting
<1>5. ASSUME NEW c \in Upstream \ unscoped, NEW q \in RoutePath, q[1] = c
      PROVE  summed[c].errors >= paths[q].errors /\ (paths[q].open => summed[c].open)
  <2>1. q \in PathsOf(c) /\ WorstOf(c, paths, summed[c])
    BY <1>5, PathsFit DEF DiagnosisInv
  <2>2. paths[q].errors <= summed[c].errors
    BY <2>1 DEF WorstOf
  <2>3. paths[q].errors \in Nat /\ summed[c].errors \in Nat
    BY DEF DiagnosisInv
  <2> QED
    BY <1>5, <2>2, <2>3 DEF DiagnosisInv
<1>6. ASSUME NEW c \in Upstream \ unscoped
      PROVE  \E q \in PathsOf(c) : summed[c].errors = paths[q].errors
  BY DEF DiagnosisInv, WorstOf
<1>7. ASSUME NEW c \in Upstream, HealthLabel(c) = "degraded, still routed", c \in pool
      PROVE  PathsOf(c) \subseteq Pickable
  <2>1. ~auto
    <3>1. HealthStatus(c) # "degraded, still routed"
      BY DEF HealthStatus, DiagnosisInv
    <3> QED
      BY <1>7, <3>1 DEF HealthLabel
  <2>2. \A q \in PathsOf(c) : q \in RoutePath /\ q[1] = c
    BY PathsFit
  <2> QED
    BY <1>7, <2>1, <2>2 DEF DiagnosisInv, Pickable
<1>8. ASSUME NEW c \in Upstream, NEW q \in RoutePath, q[1] = c, base[c] = "ready", paths[q].open
      PROVE  CanRecover(c)
  BY <1>8 DEF DiagnosisInv, CanRecover, HealthStatus
<1>9. WorstPathShown
  BY <1>5, <1>6, <1>7, <1>8 DEF WorstPathShown
<1> QED
  BY <1>4, <1>9

LEMMA DiagnosisStart ==
    ASSUME DiagnosisInit PROVE DiagnosisInv
<1>1. /\ described = [c \in Upstream |-> "ready"] /\ pool = Upstream /\ auto \in BOOLEAN
      /\ base = [c \in Upstream |-> "ready"]
      /\ paths = [q \in RoutePath |-> Sound]
      /\ summed = [c \in Upstream |-> Sound] /\ unscoped = {}
  BY DEF DiagnosisInit
<1>2. Sound \in [errors : Nat, open : BOOLEAN] /\ Sound.errors = 0 /\ ~Sound.open
  BY DEF Sound
<1>3. \A q \in RoutePath : paths[q] = Sound
  BY <1>1
<1>4. \A c \in Upstream : WorstOf(c, paths, summed[c])
  <2> TAKE c \in Upstream
  <2>1. summed[c] = Sound /\ PathsOf(c) # {} /\ PathsOf(c) \subseteq RoutePath
    BY <1>1, PathsFit
  <2> QED
    BY <1>2, <1>3, <2>1 DEF WorstOf
<1> QED
  BY <1>1, <1>2, <1>3, <1>4 DEF DiagnosisInv

\* One refresh: the summaries are made anew of the paths that are left open.
LEMMA RefreshPoolKeeps ==
    ASSUME DiagnosisInv, RefreshPool, auto' \in BOOLEAN
    PROVE  DiagnosisInv'
<1>1. /\ described' = [c \in Upstream |-> StaticStatus(c, faults)]
      /\ pool' = {c \in Upstream : described'[c] = "ready"}
      /\ base' = [c \in Upstream |-> BaseStatus(c, faults)]
      /\ paths' = [q \in RoutePath |-> [paths[q] EXCEPT !.open = @ /\ StaysOpen(q)]]
      /\ summed' = [c \in Upstream |-> SummaryOf(c, paths')]
  BY DEF RefreshPool
<1>2. described' \in [Upstream -> BindingFaults \cup {"ready"}]
  BY <1>1, FirstFaultFits DEF StaticStatus
<1>3. base' \in [Upstream -> {"ready", "channel_missing", "disabled", "credential_unreadable"}]
  BY <1>1 DEF BaseStatus
<1>4. ASSUME NEW q \in RoutePath
      PROVE  /\ paths'[q] \in [errors : Nat, open : BOOLEAN]
             /\ paths'[q].open => auto'
  <2>1. paths[q] \in [errors : Nat, open : BOOLEAN]
    BY DEF DiagnosisInv
  <2>2. paths'[q] = [errors |-> paths[q].errors, open |-> paths[q].open /\ StaysOpen(q)]
    BY <1>1, <2>1
  <2>3. StaysOpen(q) => auto'
    BY DEF StaysOpen
  <2>4. (paths[q].open /\ StaysOpen(q)) \in BOOLEAN
    BY <2>1
  <2> QED
    BY <2>1, <2>2, <2>3, <2>4
<1>5. paths' \in [RoutePath -> [errors : Nat, open : BOOLEAN]]
  BY <1>1, <1>4
<1> DEFINE ps == paths'
<1>6. \A q \in RoutePath : ps[q].errors \in Nat
  BY <1>4
<1>7. \A c \in Upstream : summed'[c] = SummaryOf(c, ps)
  BY <1>1
<1> HIDE DEF ps
<1>8. ASSUME NEW c \in Upstream
      PROVE  /\ summed'[c] \in [errors : Nat, open : BOOLEAN]
             /\ WorstOf(c, ps, summed'[c])
             /\ \A q \in PathsOf(c) : ps[q].open => summed'[c].open
  <2>1. /\ SummaryOf(c, ps) \in [errors : Nat, open : BOOLEAN]
        /\ WorstOf(c, ps, SummaryOf(c, ps))
        /\ SummaryOf(c, ps).open <=> \E q \in PathsOf(c) : ps[q].open
    BY <1>6, SummaryFits
  <2> QED
    BY <1>7, <2>1
<1>9. summed' \in [Upstream -> [errors : Nat, open : BOOLEAN]]
  <2>1. \A c \in Upstream : summed'[c] \in [errors : Nat, open : BOOLEAN]
    BY <1>8
  <2> QED
    BY <1>1, <2>1
<1>10. \A q \in RoutePath : paths'[q].open => auto' /\ summed'[q[1]].open
  <2> TAKE q \in RoutePath
  <2>1. q[1] \in Upstream /\ q \in PathsOf(q[1])
    BY PathHasChannel
  <2> QED
    BY <1>4, <1>8, <2>1 DEF ps
<1>11. \A c \in Upstream : WorstOf(c, paths', summed'[c])
  BY <1>8 DEF ps
<1> QED
  BY <1>1, <1>2, <1>3, <1>5, <1>9, <1>10, <1>11 DEF DiagnosisInv

\* Only the tables are edited.
LEMMA ConfigureKeeps ==
    ASSUME DiagnosisInv, UNCHANGED <<auto, described, pool, base, paths, summed, unscoped>>
    PROVE  DiagnosisInv'
BY DEF DiagnosisInv, WorstOf

\* An outcome of one path, after which its channel is summed up again.
LEMMA OutcomeKeeps ==
    ASSUME DiagnosisInv, NEW q \in RoutePath, NEW path \in [errors : Nat, open : BOOLEAN],
           paths' = [paths EXCEPT ![q] = path], path.open => auto,
           Summed(q[1], paths'), UNCHANGED <<faults, auto, described, pool, base>>
    PROVE  DiagnosisInv'
<1> DEFINE c == q[1]
           ps == paths'
<1>1. /\ c \in Upstream /\ PathsOf(c) \subseteq RoutePath
      /\ \A p \in RoutePath : p \in PathsOf(c) <=> p[1] = c
  BY PathHasChannel, PathsFit
<1>2. /\ paths \in [RoutePath -> [errors : Nat, open : BOOLEAN]]
      /\ summed \in [Upstream -> [errors : Nat, open : BOOLEAN]]
  BY DEF DiagnosisInv
<1>3. /\ ps \in [RoutePath -> [errors : Nat, open : BOOLEAN]]
      /\ ps[q] = path /\ \A p \in RoutePath : p # q => ps[p] = paths[p]
  BY <1>2
<1>4. summed' = [summed EXCEPT ![c] = SummaryOf(c, ps)] /\ unscoped' = unscoped \ {c}
  BY DEF Summed
<1> HIDE DEF c, ps
<1>5. \A p \in RoutePath : ps[p].errors \in Nat
  BY <1>3
<1>6. /\ SummaryOf(c, ps) \in [errors : Nat, open : BOOLEAN]
      /\ WorstOf(c, ps, SummaryOf(c, ps))
      /\ SummaryOf(c, ps).open <=> \E p \in PathsOf(c) : ps[p].open
  BY <1>1, <1>5, SummaryFits
<1>7. /\ summed' \in [Upstream -> [errors : Nat, open : BOOLEAN]]
      /\ summed'[c] = SummaryOf(c, ps) /\ \A d \in Upstream : d # c => summed'[d] = summed[d]
  BY <1>1, <1>2, <1>4, <1>6
<1>8. ASSUME NEW p \in RoutePath, ps[p].open PROVE auto /\ summed'[p[1]].open
  <2>1. p[1] \in Upstream /\ q[1] = c
    BY PathHasChannel DEF c
  <2>2. auto
    BY <1>3, <1>8 DEF DiagnosisInv
  <2>3. CASE p[1] = c
    BY <1>1, <1>6, <1>7, <1>8, <2>2, <2>3
  <2>4. CASE p[1] # c
    BY <1>3, <1>7, <1>8, <2>1, <2>2, <2>4 DEF DiagnosisInv
  <2> QED
    BY <2>3, <2>4
<1>9. ASSUME NEW d \in Upstream \ unscoped' PROVE WorstOf(d, ps, summed'[d])
  <2>1. CASE d = c
    BY <1>6, <1>7, <2>1
  <2>2. CASE d # c
    <3>1. d \in Upstream \ unscoped
      BY <1>4, <2>2
    <3>2. \A p \in PathsOf(d) : p \in RoutePath /\ p[1] = d
      BY PathsFit
    <3>3. \A p \in PathsOf(d) : ps[p] = paths[p]
      BY <1>3, <2>2, <3>2 DEF c
    <3> QED
      BY <1>7, <2>2, <3>1, <3>3 DEF DiagnosisInv, WorstOf
  <2> QED
    BY <2>1, <2>2
<1> QED
  BY <1>3, <1>7, <1>8, <1>9 DEF DiagnosisInv, ps

LEMMA SucceedsKeeps ==
    ASSUME DiagnosisInv, NEW q \in RoutePath, RouteSucceeds(q)
    PROVE  DiagnosisInv'
<1>1. Sound \in [errors : Nat, open : BOOLEAN] /\ ~Sound.open
  BY DEF Sound
<1> QED
  BY <1>1, OutcomeKeeps DEF RouteSucceeds

LEMMA FailsKeeps ==
    ASSUME DiagnosisInv, NEW q \in RoutePath, RouteFails(q)
    PROVE  DiagnosisInv'
<1> DEFINE errors == Min({OpenAt, paths[q].errors + 1})
           open == paths[q].open \/ Opens(q, errors)
           path == [errors |-> errors, open |-> open]
<1>1. paths \in [RoutePath -> [errors : Nat, open : BOOLEAN]]
      /\ (paths[q].open => auto) /\ auto \in BOOLEAN
  BY DEF DiagnosisInv
<1>2. errors \in Nat
  <2> DEFINE more == paths[q].errors + 1
  <2>1. more \in Nat /\ OpenAt \in Nat
    BY <1>1, DiagnosisAssumption
  <2> HIDE DEF more
  <2>2. Min({OpenAt, more}) = IF OpenAt <= more THEN OpenAt ELSE more
    BY <2>1, SmallerOfTwo
  <2> QED
    BY <2>1, <2>2 DEF more
<1>3. paths' = [paths EXCEPT ![q].errors = errors, ![q].open = @ \/ Opens(q, errors)]
      /\ Summed(q[1], paths') /\ UNCHANGED <<faults, auto, described, pool, base>>
  BY DEF RouteFails
<1> HIDE DEF errors
<1>4. open \in BOOLEAN /\ (open => auto)
  BY <1>1 DEF Opens
<1>5. paths' = [paths EXCEPT ![q] = path]
  <2> DEFINE mid == [paths EXCEPT ![q].errors = errors]
  <2>1. mid[q] = [errors |-> errors, open |-> paths[q].open]
        /\ mid \in [RoutePath -> [errors : Nat, open : BOOLEAN]]
    BY <1>1, <1>2
  <2>2. paths' = [mid EXCEPT ![q].open = @ \/ Opens(q, errors)]
    BY <1>3
  <2>3. mid[q].open = paths[q].open
    BY <2>1
  <2>4. \A x : [mid EXCEPT ![q] = x] = [paths EXCEPT ![q] = x]
    BY <1>1
  <2> HIDE DEF mid
  <2>5. paths' = [mid EXCEPT ![q] = path]
    <3>1. mid[q].open \/ Opens(q, errors) <=> open
      BY <2>3
    <3> HIDE DEF open
    <3>2. [mid[q] EXCEPT !.open = mid[q].open \/ Opens(q, errors)] = path
      BY <1>4, <2>1, <3>1
    <3>3. paths' = [mid EXCEPT ![q] = [mid[q] EXCEPT !.open = mid[q].open
                                                               \/ Opens(q, errors)]]
      BY <2>2
    <3> HIDE DEF path
    <3> QED
      BY <3>2, <3>3
  <2> QED
    BY <2>4, <2>5
<1> HIDE DEF open
<1>6. path \in [errors : Nat, open : BOOLEAN] /\ (path.open => auto)
  BY <1>2, <1>4
<1> HIDE DEF path
<1> QED
  BY <1>3, <1>5, <1>6, OutcomeKeeps

LEMMA LateKeeps ==
    ASSUME DiagnosisInv, NEW c \in Upstream, NEW ok \in BOOLEAN, LateOutcome(c, ok)
    PROVE  DiagnosisInv'
<1> DEFINE errors == IF ok THEN 0 ELSE Min({OpenAt, summed[c].errors + 1})
           open == SummaryOf(c, paths).open
           late == [errors |-> errors, open |-> open]
<1>1. /\ paths \in [RoutePath -> [errors : Nat, open : BOOLEAN]]
      /\ summed \in [Upstream -> [errors : Nat, open : BOOLEAN]]
  BY DEF DiagnosisInv
<1>2. errors \in Nat
  <2> DEFINE more == summed[c].errors + 1
  <2>1. more \in Nat /\ OpenAt \in Nat
    BY <1>1, DiagnosisAssumption
  <2> HIDE DEF more
  <2>2. Min({OpenAt, more}) = IF OpenAt <= more THEN OpenAt ELSE more
    BY <2>1, SmallerOfTwo
  <2> QED
    BY <2>1, <2>2 DEF more
<1>3. open \in BOOLEAN /\ \A q \in PathsOf(c) : paths[q].open => open
  <2>1. \A q \in RoutePath : paths[q].errors \in Nat
    BY <1>1
  <2>2. /\ SummaryOf(c, paths) \in [errors : Nat, open : BOOLEAN]
        /\ SummaryOf(c, paths).open <=> \E q \in PathsOf(c) : paths[q].open
    BY <2>1, SummaryFits
  <2> QED
    BY <2>2
<1>4. /\ summed' = [summed EXCEPT ![c].errors = IF ok THEN 0 ELSE Min({OpenAt, @ + 1}),
                                 ![c].open = open]
      /\ unscoped' = unscoped \cup {c} /\ paths' = paths /\ auto' = auto
      /\ described' = described /\ pool' = pool /\ base' = base
  BY DEF LateOutcome
<1>5. summed' = [summed EXCEPT ![c].errors = errors, ![c].open = open]
  BY <1>4
<1> HIDE DEF errors, open
<1>6. /\ summed' \in [Upstream -> [errors : Nat, open : BOOLEAN]] /\ summed'[c].open = open
      /\ \A d \in Upstream : d # c => summed'[d] = summed[d]
  BY <1>1, <1>2, <1>3, <1>5
<1>7. ASSUME NEW q \in RoutePath, paths[q].open PROVE auto /\ summed'[q[1]].open
  <2>1. q[1] \in Upstream /\ q \in PathsOf(q[1])
    BY PathHasChannel
  <2>2. auto /\ summed[q[1]].open
    BY <1>7 DEF DiagnosisInv
  <2>3. CASE q[1] = c
    BY <1>3, <1>6, <1>7, <2>1, <2>2, <2>3
  <2>4. CASE q[1] # c
    BY <1>6, <2>1, <2>2, <2>4
  <2> QED
    BY <2>3, <2>4
<1>8. \A d \in Upstream \ unscoped' : WorstOf(d, paths, summed'[d])
  BY <1>4, <1>6 DEF DiagnosisInv
<1>9. \A d \in Upstream \ unscoped' : WorstOf(d, paths', summed'[d])
  BY <1>4, <1>8
<1>10. \A q \in RoutePath : paths'[q].open => auto' /\ summed'[q[1]].open
  BY <1>4, <1>7
<1>11. /\ described' \in [Upstream -> BindingFaults \cup {"ready"}]
       /\ pool' = {d \in Upstream : described'[d] = "ready"}
       /\ base' \in [Upstream -> {"ready", "channel_missing", "disabled",
                                 "credential_unreadable"}]
       /\ paths' \in [RoutePath -> [errors : Nat, open : BOOLEAN]] /\ auto' \in BOOLEAN
  BY <1>4 DEF DiagnosisInv
<1> QED
  BY <1>6, <1>9, <1>10, <1>11 DEF DiagnosisInv, WorstOf

LEMMA ExpiresKeeps ==
    ASSUME DiagnosisInv, NEW q \in RoutePath, CircuitExpires(q)
    PROVE  DiagnosisInv'
<1> DEFINE c == q[1]
           open == summed[c].open /\ SummaryOf(c, paths').open
           ps == paths'
<1>1. /\ paths \in [RoutePath -> [errors : Nat, open : BOOLEAN]]
      /\ summed \in [Upstream -> [errors : Nat, open : BOOLEAN]]
  BY DEF DiagnosisInv
<1>2. /\ paths' = [paths EXCEPT ![q].open = FALSE]
      /\ summed' = [summed EXCEPT ![c].open = open]
      /\ unscoped' = unscoped /\ auto' = auto
      /\ described' = described /\ pool' = pool /\ base' = base
  BY DEF CircuitExpires
<1>3. c \in Upstream /\ \A p \in RoutePath : p \in PathsOf(c) <=> p[1] = c
  BY PathHasChannel, PathsFit
<1>4. /\ ps \in [RoutePath -> [errors : Nat, open : BOOLEAN]]
      /\ \A p \in RoutePath : ps[p].errors = paths[p].errors /\ (ps[p].open => paths[p].open)
  BY <1>1, <1>2
<1> HIDE DEF ps, c
<1>5. /\ SummaryOf(c, ps) \in [errors : Nat, open : BOOLEAN]
      /\ SummaryOf(c, ps).open <=> \E p \in PathsOf(c) : ps[p].open
  <2>1. \A p \in RoutePath : ps[p].errors \in Nat
    BY <1>4
  <2> QED
    BY <1>3, <2>1, SummaryFits
<1>6. open \in BOOLEAN /\ (open <=> summed[c].open /\ \E p \in PathsOf(c) : ps[p].open)
  <2>1. summed[c].open \in BOOLEAN
    BY <1>1, <1>3
  <2> QED
    BY <1>5, <2>1 DEF ps
<1> HIDE DEF open
<1>7. /\ summed' \in [Upstream -> [errors : Nat, open : BOOLEAN]] /\ summed'[c].open = open
      /\ \A d \in Upstream : summed'[d].errors = summed[d].errors
      /\ \A d \in Upstream : d # c => summed'[d] = summed[d]
  BY <1>1, <1>2, <1>3, <1>6
<1>8. ASSUME NEW p \in RoutePath, ps[p].open PROVE auto /\ summed'[p[1]].open
  <2>1. p[1] \in Upstream /\ auto /\ summed[p[1]].open
    BY <1>4, <1>8, PathHasChannel DEF DiagnosisInv
  <2>2. CASE p[1] = c
    BY <1>3, <1>6, <1>7, <1>8, <2>1, <2>2
  <2>3. CASE p[1] # c
    BY <1>7, <2>1, <2>3
  <2> QED
    BY <2>2, <2>3
<1>9. ASSUME NEW d \in Upstream \ unscoped' PROVE WorstOf(d, ps, summed'[d])
  <2>1. WorstOf(d, paths, summed[d]) /\ PathsOf(d) \subseteq RoutePath
    BY <1>2, PathsFit DEF DiagnosisInv
  <2> QED
    BY <1>4, <1>7, <2>1 DEF WorstOf
<1> QED
  BY <1>2, <1>4, <1>7, <1>8, <1>9 DEF DiagnosisInv, ps

LEMMA RecoverKeeps ==
    ASSUME DiagnosisInv, NEW c \in Upstream, Recover(c)
    PROVE  DiagnosisInv'
<1>1. /\ paths \in [RoutePath -> [errors : Nat, open : BOOLEAN]]
      /\ summed \in [Upstream -> [errors : Nat, open : BOOLEAN]]
  BY DEF DiagnosisInv
<1>2. /\ paths' = [q \in RoutePath |-> IF q[1] = c THEN Sound ELSE paths[q]]
      /\ summed' = [summed EXCEPT ![c] = Sound]
      /\ unscoped' = unscoped \ {c} /\ auto' = auto
      /\ described' = described /\ pool' = pool /\ base' = base
  BY DEF Recover
<1>3. Sound \in [errors : Nat, open : BOOLEAN] /\ Sound.errors = 0 /\ ~Sound.open
  BY DEF Sound
<1>4. /\ paths' \in [RoutePath -> [errors : Nat, open : BOOLEAN]]
      /\ summed' \in [Upstream -> [errors : Nat, open : BOOLEAN]]
  BY <1>1, <1>2, <1>3
<1>5. ASSUME NEW q \in RoutePath, paths'[q].open PROVE auto /\ summed'[q[1]].open
  <2>1. q[1] # c /\ paths[q].open /\ q[1] \in Upstream
    BY <1>2, <1>3, <1>5, PathHasChannel
  <2> QED
    BY <1>1, <1>2, <2>1 DEF DiagnosisInv
<1>6. ASSUME NEW d \in Upstream \ unscoped' PROVE WorstOf(d, paths', summed'[d])
  <2>1. PathsOf(d) # {} /\ \A q \in PathsOf(d) : q \in RoutePath /\ q[1] = d
    BY PathsFit
  <2>2. CASE d = c
    <3>1. \A q \in PathsOf(d) : paths'[q] = Sound
      BY <1>2, <2>1, <2>2
    <3>2. summed'[d] = Sound
      BY <1>1, <1>2, <2>2
    <3> QED
      BY <1>3, <2>1, <3>1, <3>2 DEF WorstOf
  <2>3. CASE d # c
    <3>1. \A q \in PathsOf(d) : paths'[q] = paths[q]
      BY <1>2, <2>1, <2>3
    <3>2. summed'[d] = summed[d] /\ d \in Upstream \ unscoped
      BY <1>1, <1>2, <2>3
    <3> QED
      BY <3>1, <3>2 DEF DiagnosisInv, WorstOf
  <2> QED
    BY <2>2, <2>3
<1> QED
  BY <1>2, <1>4, <1>5, <1>6 DEF DiagnosisInv

LEMMA DiagnosisStep ==
    ASSUME DiagnosisInv, [DiagnosisNext]_diagnosisVars PROVE DiagnosisInv'
<1>1. auto \in BOOLEAN
  BY DEF DiagnosisInv
<1>2. CASE \E c \in Upstream : \E kind \in BindingFaults : Configure(c, kind)
  BY <1>2, ConfigureKeeps DEF Configure
<1>3. CASE \E c \in Upstream : \E ok \in BOOLEAN : LateOutcome(c, ok)
  BY <1>3, LateKeeps
<1>4. CASE \E c \in Upstream : Recover(c)
  BY <1>4, RecoverKeeps
<1>5. CASE RefreshTables \/ Restart
  <2>1. RefreshPool /\ auto' \in BOOLEAN
    BY <1>1, <1>5 DEF RefreshTables, Restart
  <2> QED
    BY <2>1, RefreshPoolKeeps
<1>6. CASE \E q \in RoutePath : RouteSucceeds(q) \/ RouteFails(q) \/ CircuitExpires(q)
  BY <1>6, SucceedsKeeps, FailsKeeps, ExpiresKeeps
<1>7. CASE UNCHANGED diagnosisVars
  BY <1>7, ConfigureKeeps DEF diagnosisVars
<1> QED
  BY <1>2, <1>3, <1>4, <1>5, <1>6, <1>7 DEF DiagnosisNext

-----------------------------------------------------------------------------
(* The page of the channels: every value on it is known to belong to the row it  *)
(* was typed for, wherever it lies.                                              *)
Keyed == Typed \cup {NoKeys}
ChannelRow == [here : BOOLEAN, url : Typed, keys : Keyed, valid : BOOLEAN]
ChannelRows == [ChannelId -> ChannelRow]
ChannelForm == [url : Typed, keys : Keyed, valid : BOOLEAN, named : BOOLEAN]
Dialogs == [open : BOOLEAN, editing : BOOLEAN, id : 0..LastChannel, form : ChannelForm]
SaveCalls == [phase : {"idle", "sent", "save", "stored", "refused"}, editing : BOOLEAN,
              id : 0..LastChannel, form : ChannelForm, row : ChannelRow, disturbed : BOOLEAN]

AtHome(v, c, created) == v.for = c \/ (v.for = 0 /\ c \in created)
RowAtHome(row, c, created) ==
    row.here => row.valid /\ AtHome(row.url, c, created) /\ AtHome(row.keys, c, created)
RowsAtHome(rows, created) == \A c \in ChannelId : RowAtHome(rows[c], c, created)
FormAtHome(form, c, created) ==
    AtHome(form.url, c, created) /\ (form.keys = NoKeys \/ AtHome(form.keys, c, created))

DialogFits(d, created) ==
    d \in Dialogs /\ (d.editing <=> d.id # 0) /\ FormAtHome(d.form, d.id, created)
SaveFits(s, rows, created) ==
    /\ s \in SaveCalls /\ (s.editing <=> s.id # 0) /\ FormAtHome(s.form, s.id, created)
    /\ s.phase = "save" =>
          /\ s.form.valid
          /\ ~s.editing => s.form.keys # NoKeys
          /\ s.editing => s.row.here /\ RowAtHome(s.row, s.id, created)
          /\ s.editing /\ ~s.disturbed => s.row = rows[s.id]

ListsAtHome(created) ==
    /\ listed \in ChannelRows /\ RowsAtHome(listed, created)
    /\ loads \in [ListLoad -> [phase : {"idle", "asked", "read"}, rows : ChannelRows]]
    /\ \A l \in ListLoad : RowsAtHome(loads[l].rows, created)

ChannelInv ==
    /\ chan \in ChannelRows /\ RowsAtHome(chan, createdBy)
    /\ routed \subseteq ChannelId /\ \A c \in routed : chan[c].here
    /\ ListsAtHome(createdBy)
    /\ DialogFits(dialog, createdBy)
    /\ SaveFits(saveCall, chan, createdBy)

KeysHeld ==
    \A c \in ChannelId :
        chan[c].keys # chan'[c].keys /\ saveCall.phase = "save" /\ saveCall'.phase = "stored"
           => saveCall.form.keys = chan'[c].keys \/ saveCall.disturbed

LEMMA ChannelNumbers ==
    /\ LastChannel \in Nat /\ FirstChannels \in Nat
    /\ \A c \in ChannelId : c \in Nat /\ c # 0 /\ c \in 0..LastChannel /\ c # LastChannel + 1
    /\ 1 \in ChannelId /\ 1 <= FirstChannels /\ 0 \in 0..LastChannel
    /\ \A c \in 0..LastChannel : c # 0 => c \in ChannelId
BY ChannelPageAssumption DEF ChannelId

LEMMA TypedFits ==
    /\ \A c \in 0..LastChannel : /\ Old(c) \in Typed /\ Old(c).for = c
                                 /\ New(c) \in Typed /\ New(c).for = c
    /\ NoKeys \in Keyed /\ NoKeys.for = LastChannel + 1 /\ NoKeys \notin Typed
    /\ Typed \subseteq Keyed
<1>1. /\ \A c \in 0..LastChannel : /\ Old(c) \in Typed /\ Old(c).for = c
                                   /\ New(c) \in Typed /\ New(c).for = c
  BY DEF Old, New, Typed
<1>2. NoKeys.for = LastChannel + 1
  BY DEF NoKeys
<1>3. LastChannel + 1 \notin 0..LastChannel
  BY ChannelNumbers
<1>4. NoKeys \notin Typed
  BY <1>2, <1>3 DEF Typed
<1> QED
  BY <1>1, <1>2, <1>4 DEF Keyed

LEMMA ChannelsHolding ==
    ASSUME ChannelInv PROVE RoutedStay /\ ValuesStayHome
<1>1. RoutedStay
  BY DEF ChannelInv, RoutedStay
<1>2. ValuesStayHome
  BY DEF ChannelInv, RowsAtHome, RowAtHome, AtHome, ValuesStayHome
<1> QED
  BY <1>1, <1>2

LEMMA GoneFits ==
    /\ Gone \in ChannelRow /\ ~Gone.here
    /\ \A c, created : RowAtHome(Gone, c, created)
<1>1. Gone \in ChannelRow /\ ~Gone.here
  BY TypedFits, ChannelNumbers DEF Gone, ChannelRow
<1> QED
  BY <1>1 DEF RowAtHome

LEMMA EmptyFormFits ==
    EmptyForm \in ChannelForm /\ \A created : FormAtHome(EmptyForm, 0, created)
<1>1. EmptyForm \in ChannelForm /\ EmptyForm.url = Old(0) /\ EmptyForm.keys = NoKeys
  BY TypedFits, ChannelNumbers DEF EmptyForm, ChannelForm
<1>2. Old(0).for = 0
  BY TypedFits, ChannelNumbers
<1> QED
  BY <1>1, <1>2 DEF FormAtHome, AtHome

LEMMA NoSaveFits ==
    \A rows, created : SaveFits(NoSave, rows, created)
<1>1. NoSave \in SaveCalls
  BY GoneFits, EmptyFormFits, ChannelNumbers DEF NoSave, SaveCalls
<1>2. NoSave.phase = "idle" /\ ~NoSave.editing /\ NoSave.id = 0 /\ NoSave.form = EmptyForm
  BY DEF NoSave
<1> QED
  BY <1>1, <1>2, EmptyFormFits DEF SaveFits

LEMMA ClosedFits ==
    \A created : DialogFits(Closed, created)
<1>1. Closed \in Dialogs
  BY EmptyFormFits, ChannelNumbers DEF Closed, Dialogs
<1>2. ~Closed.editing /\ Closed.id = 0 /\ Closed.form = EmptyForm
  BY DEF Closed
<1> QED
  BY <1>1, <1>2, EmptyFormFits DEF DialogFits

LEMMA ChannelStart ==
    ASSUME ChannelPageInit PROVE ChannelInv
<1>1. /\ chan = [c \in ChannelId |->
                   IF c <= FirstChannels
                   THEN [here |-> TRUE, url |-> Old(c), keys |-> Old(c), valid |-> TRUE]
                   ELSE Gone]
      /\ routed = {1} /\ createdBy = {} /\ listed = chan
      /\ loads = [l \in ListLoad |-> [phase |-> "idle", rows |-> chan]]
      /\ dialog = Closed /\ saveCall = NoSave
  BY DEF ChannelPageInit
<1>2. ASSUME NEW c \in ChannelId
      PROVE  chan[c] \in ChannelRow /\ RowAtHome(chan[c], c, {})
  <2>1. CASE c <= FirstChannels
    <3>1. Old(c) \in Typed /\ Old(c).for = c /\ Old(c) \in Keyed
      BY TypedFits, ChannelNumbers
    <3>2. chan[c] = [here |-> TRUE, url |-> Old(c), keys |-> Old(c), valid |-> TRUE]
      BY <1>1, <2>1
    <3> QED
      BY <3>1, <3>2 DEF ChannelRow, RowAtHome, AtHome
  <2>2. CASE ~(c <= FirstChannels)
    BY <1>1, <2>2, GoneFits
  <2> QED
    BY <2>1, <2>2
<1>3. chan \in ChannelRows
  BY <1>1, <1>2 DEF ChannelRows
<1>4. RowsAtHome(chan, createdBy)
  BY <1>1, <1>2 DEF RowsAtHome
<1>5. ListsAtHome(createdBy)
  BY <1>1, <1>3, <1>4 DEF ListsAtHome
<1>6. routed \subseteq ChannelId /\ \A c \in routed : chan[c].here
  BY <1>1, ChannelNumbers
<1> QED
  BY <1>1, <1>3, <1>4, <1>5, <1>6, ClosedFits, NoSaveFits DEF ChannelInv

\* A value that is at home stays there.
LEMMA HomeStays ==
    ASSUME NEW created, NEW more, created \subseteq more
    PROVE  /\ \A rows : RowsAtHome(rows, created) => RowsAtHome(rows, more)
           /\ \A d : DialogFits(d, created) => DialogFits(d, more)
           /\ \A s, rows : SaveFits(s, rows, created) => SaveFits(s, rows, more)
<1>1. \A v, c : AtHome(v, c, created) => AtHome(v, c, more)
  BY DEF AtHome
<1>2. \A row, c : RowAtHome(row, c, created) => RowAtHome(row, c, more)
  BY <1>1 DEF RowAtHome
<1>3. \A form, c : FormAtHome(form, c, created) => FormAtHome(form, c, more)
  BY <1>1 DEF FormAtHome
<1>4. \A rows : RowsAtHome(rows, created) => RowsAtHome(rows, more)
  BY <1>2 DEF RowsAtHome
<1>5. \A d : DialogFits(d, created) => DialogFits(d, more)
  BY <1>3 DEF DialogFits
<1>6. \A s, rows : SaveFits(s, rows, created) => SaveFits(s, rows, more)
  BY <1>2, <1>3 DEF SaveFits
<1> QED
  BY <1>4, <1>5, <1>6

-----------------------------------------------------------------------------
\* The lists and the dialog move, and at most a call is taken from the dialog.
LEMMA ChannelPageMoves ==
    ASSUME ChannelInv, UNCHANGED <<chan, routed, createdBy>>,
           ListsAtHome(createdBy)', DialogFits(dialog', createdBy),
           SaveFits(saveCall', chan, createdBy)
    PROVE  ChannelInv'
<1>1. chan' = chan /\ routed' = routed /\ createdBy' = createdBy
  OBVIOUS
<1> QED
  BY <1>1 DEF ChannelInv

LEMMA AskListKeeps ==
    ASSUME ChannelInv, NEW l \in ListLoad, AskList(l), UNCHANGED <<chan, createdBy, listed>>
    PROVE  ListsAtHome(createdBy)'
<1>1. loads \in [ListLoad -> [phase : {"idle", "asked", "read"}, rows : ChannelRows]]
      /\ ListsAtHome(createdBy)
  BY DEF ChannelInv, ListsAtHome
<1>2. loads' = [loads EXCEPT ![l].phase = "asked"]
  BY DEF AskList, LoadStarted
<1>3. loads' \in [ListLoad -> [phase : {"idle", "asked", "read"}, rows : ChannelRows]]
      /\ \A k \in ListLoad : loads'[k].rows = loads[k].rows
  BY <1>1, <1>2
<1> QED
  BY <1>1, <1>3 DEF ListsAtHome

LEMMA ListsStay ==
    ASSUME ChannelInv, UNCHANGED <<createdBy, listed, loads>>
    PROVE  ListsAtHome(createdBy)'
BY DEF ChannelInv, ListsAtHome

LEMMA ReadsKeep ==
    ASSUME ChannelInv,
           Reload \/ \E l \in ListLoad : ReadList(l) \/ ShowList(l)
    PROVE  ChannelInv'
<1>1. /\ UNCHANGED <<chan, routed, createdBy>> /\ dialog' = dialog /\ saveCall' = saveCall
  BY DEF Reload, ReadList, ShowList
<1>2. ListsAtHome(createdBy) /\ chan \in ChannelRows /\ RowsAtHome(chan, createdBy)
      /\ DialogFits(dialog, createdBy) /\ SaveFits(saveCall, chan, createdBy)
  BY DEF ChannelInv
<1>3. ListsAtHome(createdBy)'
  <2>1. CASE Reload
    BY <1>1, <2>1, AskListKeeps DEF Reload
  <2>2. ASSUME NEW l \in ListLoad, ReadList(l) PROVE ListsAtHome(createdBy)'
    <3>1. loads' = [loads EXCEPT ![l] = [phase |-> "read", rows |-> chan]] /\ listed' = listed
      BY <2>2 DEF ReadList
    <3> QED
      BY <1>1, <1>2, <3>1 DEF ListsAtHome
  <2>3. ASSUME NEW l \in ListLoad, ShowList(l) PROVE ListsAtHome(createdBy)'
    <3>1. loads' = [loads EXCEPT ![l].phase = "idle"] /\ listed' = loads[l].rows
      BY <2>3 DEF ShowList
    <3>2. loads' \in [ListLoad -> [phase : {"idle", "asked", "read"}, rows : ChannelRows]]
          /\ \A k \in ListLoad : loads'[k].rows = loads[k].rows
      BY <1>2, <3>1 DEF ListsAtHome
    <3> QED
      BY <1>1, <1>2, <3>1, <3>2 DEF ListsAtHome
  <2> QED
    BY <2>1, <2>2, <2>3
<1> QED
  BY <1>1, <1>2, <1>3, ChannelPageMoves

-----------------------------------------------------------------------------
LEMMA ListedRows ==
    ASSUME ChannelInv, NEW c \in ChannelId
    PROVE  /\ listed[c] \in ChannelRow /\ RowAtHome(listed[c], c, createdBy)
           /\ chan[c] \in ChannelRow /\ RowAtHome(chan[c], c, createdBy)
BY DEF ChannelInv, ListsAtHome, ChannelRows, RowsAtHome

LEMMA DialogParts ==
    ASSUME NEW d, NEW created, DialogFits(d, created)
    PROVE  /\ d \in Dialogs /\ d.open \in BOOLEAN /\ d.editing \in BOOLEAN
           /\ d.id \in 0..LastChannel /\ d.form \in ChannelForm
           /\ d.editing <=> d.id # 0
           /\ FormAtHome(d.form, d.id, created)
BY DEF DialogFits, Dialogs

LEMMA OpenEditKeeps ==
    ASSUME ChannelInv, NEW c \in ChannelId, OpenEdit(c)
    PROVE  ChannelInv'
<1>1. /\ UNCHANGED <<chan, routed, createdBy, listed, loads>> /\ saveCall' = saveCall
      /\ listed[c].here
      /\ dialog' = [open |-> TRUE, editing |-> TRUE, id |-> c, form |-> FormOf(c)]
  BY DEF OpenEdit, InDialog, Filled
<1>2. /\ listed[c] \in ChannelRow /\ RowAtHome(listed[c], c, createdBy)
  BY ListedRows
<1>3. /\ listed[c].url \in Typed /\ AtHome(listed[c].url, c, createdBy)
  BY <1>1, <1>2 DEF ChannelRow, RowAtHome
<1>4. FormOf(c) \in ChannelForm
  BY <1>3, TypedFits DEF FormOf, ChannelForm
<1>5. FormAtHome(FormOf(c), c, createdBy)
  BY <1>3 DEF FormOf, FormAtHome
<1>6. dialog' \in Dialogs
  BY <1>1, <1>4, ChannelNumbers DEF Dialogs
<1>7. DialogFits(dialog', createdBy)
  BY <1>1, <1>5, <1>6, ChannelNumbers DEF DialogFits
<1>8. SaveFits(saveCall', chan, createdBy)
  BY <1>1 DEF ChannelInv
<1> QED
  BY <1>1, <1>7, <1>8, ChannelPageMoves, ListsStay

LEMMA OpenCloseKeep ==
    ASSUME ChannelInv, OpenCreate \/ CloseDialog
    PROVE  ChannelInv'
<1>1. /\ UNCHANGED <<chan, routed, createdBy, listed, loads>> /\ saveCall' = saveCall
      /\ \/ dialog' = [Closed EXCEPT !.open = TRUE]
         \/ dialog' = [dialog EXCEPT !.open = FALSE]
  BY DEF OpenCreate, CloseDialog, InDialog
<1>2. DialogFits(dialog, createdBy) /\ SaveFits(saveCall, chan, createdBy)
  BY DEF ChannelInv
<1>3. ASSUME NEW d, NEW open \in BOOLEAN, DialogFits(d, createdBy)
      PROVE  DialogFits([d EXCEPT !.open = open], createdBy)
  <2>1. [d EXCEPT !.open = open] \in Dialogs
    BY <1>3, DialogParts DEF Dialogs
  <2>2. /\ [d EXCEPT !.open = open].editing = d.editing /\ [d EXCEPT !.open = open].id = d.id
        /\ [d EXCEPT !.open = open].form = d.form
    BY <1>3, DialogParts DEF Dialogs
  <2> QED
    BY <1>3, <2>1, <2>2 DEF DialogFits
<1>4. DialogFits(dialog', createdBy)
  BY <1>1, <1>2, <1>3, ClosedFits
<1>5. SaveFits(saveCall', chan, createdBy)
  BY <1>1, <1>2
<1> QED
  BY <1>1, <1>4, <1>5, ChannelPageMoves, ListsStay

LEMMA EnterFormKeeps ==
    ASSUME ChannelInv, EnterForm
    PROVE  ChannelInv'
<1>1. /\ UNCHANGED <<chan, routed, createdBy, listed, loads>> /\ saveCall' = saveCall
      /\ \/ \E valid \in BOOLEAN :
              dialog' = [dialog EXCEPT !.form.url = New(dialog.id), !.form.valid = valid,
                                       !.form.named = TRUE]
         \/ dialog' = [dialog EXCEPT !.form.keys = New(dialog.id)]
  BY DEF EnterForm, InDialog
<1>2. DialogFits(dialog, createdBy) /\ SaveFits(saveCall, chan, createdBy)
  BY DEF ChannelInv
<1>3. /\ dialog \in Dialogs /\ dialog.id \in 0..LastChannel /\ dialog.form \in ChannelForm
      /\ dialog.editing <=> dialog.id # 0
      /\ FormAtHome(dialog.form, dialog.id, createdBy)
  BY <1>2, DialogParts
<1>4. /\ New(dialog.id) \in Typed /\ New(dialog.id) \in Keyed
      /\ AtHome(New(dialog.id), dialog.id, createdBy)
  BY <1>3, TypedFits DEF AtHome
<1>5. ASSUME NEW valid \in BOOLEAN,
             dialog' = [dialog EXCEPT !.form.url = New(dialog.id), !.form.valid = valid,
                                      !.form.named = TRUE]
      PROVE  DialogFits(dialog', createdBy)
  <2>1. dialog' \in Dialogs
    BY <1>3, <1>4, <1>5 DEF Dialogs, ChannelForm
  <2>2. /\ dialog'.editing = dialog.editing /\ dialog'.id = dialog.id
        /\ dialog'.form.url = New(dialog.id) /\ dialog'.form.keys = dialog.form.keys
    BY <1>3, <1>5 DEF Dialogs, ChannelForm
  <2>3. FormAtHome(dialog'.form, dialog'.id, createdBy)
    BY <1>3, <1>4, <2>2 DEF FormAtHome
  <2> QED
    BY <1>3, <2>1, <2>2, <2>3 DEF DialogFits
<1>6. ASSUME dialog' = [dialog EXCEPT !.form.keys = New(dialog.id)]
      PROVE  DialogFits(dialog', createdBy)
  <2>1. dialog' \in Dialogs
    BY <1>3, <1>4, <1>6 DEF Dialogs, ChannelForm
  <2>2. /\ dialog'.editing = dialog.editing /\ dialog'.id = dialog.id
        /\ dialog'.form.keys = New(dialog.id) /\ dialog'.form.url = dialog.form.url
    BY <1>3, <1>6 DEF Dialogs, ChannelForm
  <2>3. FormAtHome(dialog'.form, dialog'.id, createdBy)
    BY <1>3, <1>4, <2>2 DEF FormAtHome
  <2> QED
    BY <1>3, <2>1, <2>2, <2>3 DEF DialogFits
<1>7. DialogFits(dialog', createdBy)
  BY <1>1, <1>5, <1>6
<1>8. SaveFits(saveCall', chan, createdBy)
  BY <1>1, <1>2
<1> QED
  BY <1>1, <1>7, <1>8, ChannelPageMoves, ListsStay

LEMMA PressSaveKeeps ==
    ASSUME ChannelInv, PressSave
    PROVE  ChannelInv'
<1>1. /\ UNCHANGED <<chan, routed, createdBy, listed, loads>> /\ dialog' = dialog
      /\ saveCall' = [NoSave EXCEPT !.phase = "sent", !.editing = dialog.editing,
                                    !.id = dialog.id, !.form = dialog.form]
  BY DEF PressSave
<1>2. DialogFits(dialog, createdBy)
  BY DEF ChannelInv
<1>3. /\ dialog \in Dialogs /\ dialog.editing \in BOOLEAN
      /\ dialog.id \in 0..LastChannel /\ dialog.form \in ChannelForm
      /\ dialog.editing <=> dialog.id # 0
      /\ FormAtHome(dialog.form, dialog.id, createdBy)
  BY <1>2, DialogParts
<1>4. NoSave \in SaveCalls
  BY NoSaveFits DEF SaveFits
<1>5. saveCall' \in SaveCalls
  BY <1>1, <1>3, <1>4 DEF SaveCalls
<1>6. /\ saveCall'.phase = "sent" /\ saveCall'.editing = dialog.editing
      /\ saveCall'.id = dialog.id /\ saveCall'.form = dialog.form
  BY <1>1, <1>4 DEF SaveCalls
<1>7. SaveFits(saveCall', chan, createdBy)
  BY <1>3, <1>5, <1>6 DEF SaveFits
<1> QED
  BY <1>1, <1>2, <1>7, ChannelPageMoves, ListsStay

LEMMA FindChannelKeeps ==
    ASSUME ChannelInv, FindChannel
    PROVE  ChannelInv'
<1>1. /\ UNCHANGED <<chan, routed, createdBy, listed, loads>> /\ dialog' = dialog
      /\ saveCall' =
           IF \/ saveCall.editing /\ ~chan[saveCall.id].here
              \/ ~saveCall.editing /\ saveCall.form.keys = NoKeys
              \/ ~saveCall.form.valid
           THEN [saveCall EXCEPT !.phase = "refused"]
           ELSE [saveCall EXCEPT !.phase = "save", !.disturbed = FALSE,
                   !.row = IF saveCall.editing THEN chan[saveCall.id] ELSE Gone]
  BY DEF FindChannel, SaveStays, Accepted
<1>2. DialogFits(dialog, createdBy) /\ SaveFits(saveCall, chan, createdBy)
  BY DEF ChannelInv
<1>3. /\ saveCall \in SaveCalls /\ saveCall.editing \in BOOLEAN
      /\ saveCall.editing <=> saveCall.id # 0
      /\ saveCall.id \in 0..LastChannel
      /\ FormAtHome(saveCall.form, saveCall.id, createdBy)
  BY <1>2 DEF SaveFits, SaveCalls
<1>4. CASE saveCall' = [saveCall EXCEPT !.phase = "refused"]
  <2>1. saveCall' \in SaveCalls
    BY <1>3, <1>4 DEF SaveCalls
  <2>2. /\ saveCall'.phase = "refused" /\ saveCall'.editing = saveCall.editing
        /\ saveCall'.id = saveCall.id /\ saveCall'.form = saveCall.form
    BY <1>3, <1>4 DEF SaveCalls
  <2>3. SaveFits(saveCall', chan, createdBy)
    BY <1>3, <2>1, <2>2 DEF SaveFits
  <2> QED
    BY <1>1, <1>2, <2>3, ChannelPageMoves, ListsStay
<1>5. ASSUME saveCall' = [saveCall EXCEPT !.phase = "save", !.disturbed = FALSE,
                   !.row = IF saveCall.editing THEN chan[saveCall.id] ELSE Gone],
             saveCall.editing => chan[saveCall.id].here,
             ~saveCall.editing => saveCall.form.keys # NoKeys,
             saveCall.form.valid
      PROVE  ChannelInv'
  <2>1. saveCall.editing => /\ chan[saveCall.id] \in ChannelRow
                            /\ RowAtHome(chan[saveCall.id], saveCall.id, createdBy)
    BY <1>3, ListedRows, ChannelNumbers
  <2>2. saveCall' \in SaveCalls
    BY <1>3, <1>5, <2>1, GoneFits DEF SaveCalls
  <2>3. /\ saveCall'.phase = "save" /\ saveCall'.editing = saveCall.editing
        /\ saveCall'.id = saveCall.id /\ saveCall'.form = saveCall.form
        /\ saveCall.editing => saveCall'.row = chan[saveCall.id]
    BY <1>3, <1>5 DEF SaveCalls
  <2>4. SaveFits(saveCall', chan, createdBy)
    BY <1>3, <1>5, <2>1, <2>2, <2>3 DEF SaveFits
  <2> QED
    BY <1>1, <1>2, <2>4, ChannelPageMoves, ListsStay
<1> QED
  BY <1>1, <1>4, <1>5

\* The row that is stored is at home: its values come from the form and from the row read.
LEMMA StoredRow ==
    ASSUME NEW row, NEW form, NEW c, NEW created,
           row \in ChannelRow, form \in ChannelForm, form.valid,
           \/ form.keys # NoKeys
           \/ row.here /\ RowAtHome(row, c, created),
           FormAtHome(form, c, created)
    PROVE  /\ WithForm(row, form) \in ChannelRow /\ WithForm(row, form).here
           /\ RowAtHome(WithForm(row, form), c, created)
           /\ form.keys = NoKeys => WithForm(row, form).keys = row.keys
           /\ form.keys # NoKeys => WithForm(row, form).keys = form.keys
<1>1. /\ WithForm(row, form).here /\ WithForm(row, form).url = form.url
      /\ WithForm(row, form).valid = form.valid
      /\ WithForm(row, form).keys = IF form.keys = NoKeys THEN row.keys ELSE form.keys
  BY DEF WithForm
<1>2. WithForm(row, form) \in ChannelRow
  BY DEF WithForm, ChannelRow, ChannelForm
<1>3. RowAtHome(WithForm(row, form), c, created)
  BY <1>1 DEF RowAtHome, FormAtHome
<1> QED
  BY <1>1, <1>2, <1>3

LEMMA StoreChannelKeeps ==
    ASSUME ChannelInv, StoreChannel
    PROVE  ChannelInv'
<1>1. /\ saveCall.phase = "save"
      /\ UNCHANGED <<routed, listed, loads>> /\ dialog' = dialog
      /\ saveCall' = [saveCall EXCEPT !.phase = "stored"]
  BY DEF StoreChannel, SaveStays
<1>2. /\ chan \in ChannelRows /\ RowsAtHome(chan, createdBy)
      /\ routed \subseteq ChannelId /\ \A c \in routed : chan[c].here
      /\ ListsAtHome(createdBy) /\ DialogFits(dialog, createdBy)
      /\ SaveFits(saveCall, chan, createdBy)
  BY DEF ChannelInv
<1>3. /\ saveCall \in SaveCalls /\ saveCall.editing \in BOOLEAN
      /\ saveCall.editing <=> saveCall.id # 0
      /\ saveCall.id \in 0..LastChannel /\ saveCall.form \in ChannelForm
      /\ saveCall.row \in ChannelRow
      /\ FormAtHome(saveCall.form, saveCall.id, createdBy)
      /\ saveCall.form.valid
      /\ ~saveCall.editing => saveCall.form.keys # NoKeys
      /\ saveCall.editing => saveCall.row.here /\ RowAtHome(saveCall.row, saveCall.id, createdBy)
  BY <1>1, <1>2 DEF SaveFits, SaveCalls
<1>4. /\ saveCall' \in SaveCalls
      /\ saveCall'.phase = "stored" /\ saveCall'.editing = saveCall.editing
      /\ saveCall'.id = saveCall.id /\ saveCall'.form = saveCall.form
  BY <1>1, <1>3 DEF SaveCalls
<1>5. \A rows, created : FormAtHome(saveCall.form, saveCall.id, created)
                            => SaveFits(saveCall', rows, created)
  BY <1>3, <1>4 DEF SaveFits
<1>6. CASE saveCall.editing
  <2>1. saveCall.id \in ChannelId
    BY <1>3, <1>6, ChannelNumbers
  <2>2. createdBy' = createdBy
        /\ chan' = [chan EXCEPT ![saveCall.id] = WithForm(saveCall.row, saveCall.form)]
    BY <1>6 DEF StoreChannel
  <2> DEFINE new == WithForm(saveCall.row, saveCall.form)
  <2>3. new \in ChannelRow /\ new.here /\ RowAtHome(new, saveCall.id, createdBy)
    BY <1>3, <1>6, StoredRow
  <2> HIDE DEF new
  <2>4. chan' \in ChannelRows
        /\ \A c \in ChannelId : chan'[c] = IF c = saveCall.id THEN new ELSE chan[c]
    BY <1>2, <2>1, <2>2, <2>3 DEF ChannelRows, new
  <2>5. RowsAtHome(chan', createdBy)
    BY <1>2, <2>3, <2>4 DEF RowsAtHome
  <2>6. \A c \in routed : chan'[c].here
    BY <1>2, <2>3, <2>4
  <2> QED
    BY <1>1, <1>2, <1>3, <1>5, <2>2, <2>4, <2>5, <2>6 DEF ChannelInv, ListsAtHome
<1>7. CASE ~saveCall.editing
  <2>1. PICK n \in FreshId :
           /\ chan' = [chan EXCEPT ![n] = WithForm(Gone, saveCall.form)]
           /\ createdBy' = createdBy \cup {n}
    BY <1>7 DEF StoreChannel
  <2>2. n \in ChannelId
    BY DEF FreshId
  <2> DEFINE new == WithForm(Gone, saveCall.form)
             more == createdBy \cup {n}
  <2>3. FormAtHome(saveCall.form, n, more)
    BY <1>3, <1>7, TypedFits, ChannelNumbers, <2>2 DEF FormAtHome, AtHome
  <2>4. new \in ChannelRow /\ new.here /\ RowAtHome(new, n, more)
    BY <1>3, <1>7, <2>3, GoneFits, StoredRow
  <2>5. createdBy \subseteq more /\ createdBy' = more
    BY <2>1
  <2>6. chan' = [chan EXCEPT ![n] = new]
    BY <2>1
  <2> HIDE DEF new, more
  <2>7. chan' \in ChannelRows /\ \A c \in ChannelId : chan'[c] = IF c = n THEN new ELSE chan[c]
    BY <1>2, <2>2, <2>4, <2>6 DEF ChannelRows
  <2>8. RowsAtHome(chan, more) /\ RowsAtHome(listed, more)
        /\ DialogFits(dialog, more) /\ SaveFits(saveCall, chan, more)
        /\ \A l \in ListLoad : RowsAtHome(loads[l].rows, more)
    BY <1>2, <2>5, HomeStays DEF ListsAtHome
  <2>9. RowsAtHome(chan', more)
    BY <2>4, <2>7, <2>8 DEF RowsAtHome
  <2>10. \A c \in routed : chan'[c].here
    BY <1>2, <2>4, <2>7
  <2>11. FormAtHome(saveCall.form, saveCall.id, more)
    BY <2>8 DEF SaveFits
  <2>12. SaveFits(saveCall', chan', more)
    BY <1>5, <2>11
  <2>13. ListsAtHome(createdBy)'
    BY <1>1, <1>2, <2>5, <2>8 DEF ListsAtHome
  <2> QED
    BY <1>1, <1>2, <2>5, <2>7, <2>8, <2>9, <2>10, <2>12, <2>13 DEF ChannelInv
<1> QED
  BY <1>6, <1>7

LEMMA SaveAnsweredKeeps ==
    ASSUME ChannelInv, SaveAnswered
    PROVE  ChannelInv'
<1>1. /\ UNCHANGED <<chan, routed, createdBy, listed>> /\ saveCall' = NoSave
      /\ \/ (\E l \in ListLoad : AskList(l)) /\ dialog' = [dialog EXCEPT !.open = FALSE]
         \/ UNCHANGED <<dialog, loads>>
  BY DEF SaveAnswered
<1>2. DialogFits(dialog, createdBy)
  BY DEF ChannelInv
<1>3. DialogFits([dialog EXCEPT !.open = FALSE], createdBy)
  <2>1. [dialog EXCEPT !.open = FALSE] \in Dialogs
    BY <1>2, DialogParts DEF Dialogs
  <2>2. /\ [dialog EXCEPT !.open = FALSE].editing = dialog.editing
        /\ [dialog EXCEPT !.open = FALSE].id = dialog.id
        /\ [dialog EXCEPT !.open = FALSE].form = dialog.form
    BY <1>2, DialogParts DEF Dialogs
  <2> QED
    BY <1>2, <2>1, <2>2 DEF DialogFits
<1>4. DialogFits(dialog', createdBy)
  BY <1>1, <1>2, <1>3
<1>5. SaveFits(saveCall', chan, createdBy)
  BY <1>1, NoSaveFits
<1>6. ListsAtHome(createdBy)'
  BY <1>1, ListsStay, AskListKeeps
<1> QED
  BY <1>1, <1>4, <1>5, <1>6, ChannelPageMoves

-----------------------------------------------------------------------------
\* Steps that leave the rows and the form alone.
LEMMA OtherCallsKeep ==
    ASSUME ChannelInv,
           \/ \E c \in ChannelId : ConfirmRemoval(c) \/ PressTest(c)
           \/ FindReferences \/ RemovalAnswered \/ ProbeChannel \/ TestAnswered
    PROVE  ChannelInv'
<1>1. /\ UNCHANGED <<chan, routed, createdBy, listed>> /\ dialog' = dialog
      /\ saveCall' = saveCall
      /\ UNCHANGED loads \/ \E l \in ListLoad : AskList(l)
  BY DEF ConfirmRemoval, PressTest, FindReferences, RemovalAnswered, ProbeChannel, TestAnswered
<1>2. DialogFits(dialog', createdBy) /\ SaveFits(saveCall', chan, createdBy)
  BY <1>1 DEF ChannelInv
<1>3. ListsAtHome(createdBy)'
  BY <1>1, ListsStay, AskListKeeps
<1> QED
  BY <1>1, <1>2, <1>3, ChannelPageMoves

\* A row changes under a save that may have read it: the save is marked.
LEMMA RowChanges ==
    ASSUME ChannelInv, NEW c \in ChannelId, NEW row \in ChannelRow,
           RowAtHome(row, c, createdBy), c \in routed => row.here,
           chan' = [chan EXCEPT ![c] = row], Disturb(c),
           UNCHANGED <<routed, createdBy, listed, loads, dialog>>
    PROVE  ChannelInv'
<1>1. /\ chan \in ChannelRows /\ RowsAtHome(chan, createdBy)
      /\ routed \subseteq ChannelId /\ \A d \in routed : chan[d].here
      /\ ListsAtHome(createdBy) /\ DialogFits(dialog, createdBy)
      /\ SaveFits(saveCall, chan, createdBy)
  BY DEF ChannelInv
<1>2. chan' \in ChannelRows /\ \A d \in ChannelId : chan'[d] = IF d = c THEN row ELSE chan[d]
  BY <1>1 DEF ChannelRows
<1>3. RowsAtHome(chan', createdBy)
  BY <1>1, <1>2 DEF RowsAtHome
<1>4. \A d \in routed : chan'[d].here
  BY <1>1, <1>2
<1>5. saveCall \in SaveCalls
  BY <1>1 DEF SaveFits
<1>6. saveCall' \in SaveCalls
  BY <1>5 DEF Disturb, SaveCalls
<1>7. /\ saveCall'.phase = saveCall.phase /\ saveCall'.editing = saveCall.editing
      /\ saveCall'.id = saveCall.id /\ saveCall'.form = saveCall.form
      /\ saveCall'.row = saveCall.row
      /\ saveCall'.disturbed = (saveCall.disturbed \/ saveCall.id = c)
  BY <1>5 DEF Disturb, SaveCalls
<1>8. ~saveCall'.disturbed => ~saveCall.disturbed /\ saveCall.id # c
  BY <1>5, <1>7 DEF SaveCalls
<1>9. saveCall.editing => saveCall.id \in ChannelId
  BY <1>1, ChannelNumbers DEF SaveFits, SaveCalls
<1>10. SaveFits(saveCall', chan', createdBy)
  BY <1>1, <1>2, <1>6, <1>7, <1>8, <1>9 DEF SaveFits
<1>11. /\ routed' = routed /\ createdBy' = createdBy /\ listed' = listed /\ loads' = loads
       /\ dialog' = dialog
  OBVIOUS
<1> QED
  BY <1>1, <1>2, <1>3, <1>4, <1>10, <1>11 DEF ChannelInv, ListsAtHome

LEMMA DeleteChannelKeeps ==
    ASSUME ChannelInv, removeCall.id \in ChannelId, DeleteChannel
    PROVE  ChannelInv'
<1>1. UNCHANGED <<routed, createdBy, listed, loads, dialog>>
  BY DEF DeleteChannel
<1>2. CASE removeCall.id \notin routed
  <2>1. chan' = [chan EXCEPT ![removeCall.id] = Gone] /\ Disturb(removeCall.id)
    BY <1>2 DEF DeleteChannel, Deletable
  <2> QED
    BY <1>1, <1>2, <2>1, GoneFits, RowChanges
<1>3. CASE removeCall.id \in routed
  <2>1. UNCHANGED <<chan, saveCall>>
    BY <1>3 DEF DeleteChannel, Deletable
  <2>2. DialogFits(dialog', createdBy) /\ SaveFits(saveCall', chan, createdBy)
    BY <1>1, <2>1 DEF ChannelInv
  <2> QED
    BY <1>1, <2>1, <2>2, ChannelPageMoves, ListsStay
<1> QED
  BY <1>2, <1>3

LEMMA StrangerKeeps ==
    ASSUME ChannelInv, NEW c \in ChannelId,
           StrangerEdits(c) \/ StrangerRemoves(c) \/ StrangerBinds(c)
    PROVE  ChannelInv'
<1>1. UNCHANGED <<createdBy, listed, loads, dialog>>
  BY DEF StrangerEdits, StrangerRemoves, StrangerBinds, Stranger
<1>2. CASE StrangerEdits(c)
  <2>1. /\ chan[c].here /\ Disturb(c) /\ UNCHANGED routed
        /\ chan' = [chan EXCEPT ![c].keys = New(c), ![c].url = Old(c)]
    BY <1>2 DEF StrangerEdits
  <2>2. chan \in ChannelRows /\ chan[c] \in ChannelRow /\ RowAtHome(chan[c], c, createdBy)
    BY ListedRows DEF ChannelInv
  <2> DEFINE row == [chan[c] EXCEPT !.keys = New(c), !.url = Old(c)]
  <2>3. /\ New(c) \in Keyed /\ Old(c) \in Typed /\ AtHome(New(c), c, createdBy)
        /\ AtHome(Old(c), c, createdBy)
    BY TypedFits, ChannelNumbers DEF AtHome
  <2>4. row \in ChannelRow
    BY <2>2, <2>3 DEF ChannelRow
  <2>5. row.here = chan[c].here /\ row.valid = chan[c].valid /\ row.url = Old(c)
        /\ row.keys = New(c)
    BY <2>2 DEF ChannelRow
  <2>6. RowAtHome(row, c, createdBy)
    BY <2>1, <2>2, <2>3, <2>5 DEF RowAtHome
  <2>7. chan' = [chan EXCEPT ![c] = row]
    BY <2>1, <2>2 DEF ChannelRows
  <2>8. row.here
    BY <2>1, <2>5
  <2> HIDE DEF row
  <2> QED
    BY <1>1, <2>1, <2>4, <2>6, <2>7, <2>8, RowChanges
<1>3. CASE StrangerRemoves(c)
  <2>1. /\ c \notin routed /\ Disturb(c) /\ UNCHANGED routed
        /\ chan' = [chan EXCEPT ![c] = Gone]
    BY <1>3 DEF StrangerRemoves, Deletable
  <2> QED
    BY <1>1, <2>1, GoneFits, RowChanges
<1>4. CASE StrangerBinds(c)
  <2>1. /\ chan' = chan /\ saveCall' = saveCall /\ chan[c].here
        /\ routed' = IF c \in routed THEN routed \ {c} ELSE routed \cup {c}
    BY <1>4 DEF StrangerBinds
  <2>2. routed' \subseteq ChannelId /\ \A d \in routed' : chan'[d].here
    BY <2>1 DEF ChannelInv
  <2>3. createdBy' = createdBy /\ listed' = listed /\ loads' = loads /\ dialog' = dialog
    BY <1>1
  <2> QED
    BY <2>1, <2>2, <2>3 DEF ChannelInv, ListsAtHome
<1> QED
  BY <1>2, <1>3, <1>4

-----------------------------------------------------------------------------
Removing == removeCall \in [phase : {"idle", "sent", "delete", "removed", "refused"},
                            id : ChannelId]

LEMMA RemovingStart ==
    ASSUME ChannelPageInit PROVE Removing
BY ChannelNumbers DEF ChannelPageInit, NoRemoval, Removing

LEMMA RemovingStep ==
    ASSUME Removing, [ChannelPageNext]_channelPageVars PROVE Removing'
<1>1. ASSUME NEW c \in ChannelId, ConfirmRemoval(c) PROVE Removing'
  BY <1>1 DEF ConfirmRemoval, Removing
<1>2. ASSUME FindReferences PROVE Removing'
  BY <1>2 DEF FindReferences, Removing
<1>3. ASSUME DeleteChannel PROVE Removing'
  <2>1. removeCall' = [removeCall EXCEPT !.phase = "removed"]
        \/ removeCall' = [removeCall EXCEPT !.phase = "refused"]
    BY <1>3 DEF DeleteChannel
  <2> QED
    BY <2>1 DEF Removing
<1>4. ASSUME RemovalAnswered PROVE Removing'
  BY <1>4, ChannelNumbers DEF RemovalAnswered, NoRemoval, Removing
<1>5. ASSUME UNCHANGED removeCall PROVE Removing'
  BY <1>5 DEF Removing
<1>6. CASE \/ Reload \/ \E l \in ListLoad : ReadList(l) \/ ShowList(l)
           \/ OpenCreate \/ CloseDialog \/ EnterForm \/ PressSave
           \/ FindChannel \/ StoreChannel \/ SaveAnswered \/ ProbeChannel \/ TestAnswered
  BY <1>5, <1>6 DEF Reload, ReadList, ShowList, OpenCreate, CloseDialog, EnterForm, PressSave,
     InDialog, FindChannel, StoreChannel, SaveStays, SaveAnswered, ProbeChannel, TestAnswered
<1>7. ASSUME NEW c \in ChannelId,
             OpenEdit(c) \/ PressTest(c) \/ StrangerEdits(c) \/ StrangerRemoves(c)
                \/ StrangerBinds(c)
      PROVE  Removing'
  BY <1>5, <1>7 DEF OpenEdit, InDialog, PressTest, StrangerEdits, StrangerRemoves,
     StrangerBinds, Stranger
<1>8. CASE UNCHANGED channelPageVars
  BY <1>5, <1>8 DEF channelPageVars
<1> QED
  BY <1>1, <1>2, <1>3, <1>4, <1>6, <1>7, <1>8 DEF ChannelPageNext

LEMMA ChannelStays ==
    ASSUME ChannelInv, UNCHANGED channelPageVars PROVE ChannelInv'
<1>1. /\ UNCHANGED <<chan, routed, createdBy, listed, loads>> /\ dialog' = dialog
      /\ saveCall' = saveCall
  BY DEF channelPageVars
<1>2. DialogFits(dialog', createdBy) /\ SaveFits(saveCall', chan, createdBy)
  BY <1>1 DEF ChannelInv
<1> QED
  BY <1>1, <1>2, ListsStay, ChannelPageMoves

LEMMA ChannelStep ==
    ASSUME ChannelInv, Removing, [ChannelPageNext]_channelPageVars PROVE ChannelInv'
<1>1. removeCall.id \in ChannelId
  BY DEF Removing
<1> QED
  BY <1>1, ReadsKeep, OpenCloseKeep, EnterFormKeeps, PressSaveKeeps, FindChannelKeeps,
     StoreChannelKeeps, SaveAnsweredKeeps, OtherCallsKeep, DeleteChannelKeeps, OpenEditKeeps,
     StrangerKeeps, ChannelStays DEF ChannelPageNext

-----------------------------------------------------------------------------
\* Only the write of a save takes it from "save" to "stored", and the keys it writes are
\* those of its form or those of the row it read.
LEMMA OnlyStores ==
    ASSUME [ChannelPageNext]_channelPageVars,
           saveCall.phase = "save", saveCall'.phase = "stored", ChannelInv
    PROVE  StoreChannel
<1>1. saveCall \in SaveCalls
  BY DEF ChannelInv, SaveFits
<1>2. saveCall' # saveCall /\ saveCall'.phase # saveCall.phase
  OBVIOUS
<1>3. ASSUME NEW c, Disturb(c) PROVE FALSE
  <2>1. saveCall'.phase = saveCall.phase
    BY <1>1, <1>3 DEF Disturb, SaveCalls
  <2> QED
    BY <1>2, <2>1
<1>4. ~(UNCHANGED channelPageVars)
  BY <1>2 DEF channelPageVars
<1>5. ~Reload /\ ~(\E l \in ListLoad : ReadList(l) \/ ShowList(l))
  BY <1>2 DEF Reload, ReadList, ShowList
<1>6. ~OpenCreate /\ ~CloseDialog /\ ~EnterForm
  BY <1>2 DEF OpenCreate, CloseDialog, EnterForm, InDialog
<1>7. ~PressSave
  BY DEF PressSave, CountCall
<1>8. ~FindChannel /\ ~SaveAnswered
  BY DEF FindChannel, SaveAnswered
<1>9. ~FindReferences /\ ~RemovalAnswered /\ ~ProbeChannel /\ ~TestAnswered
  BY <1>2 DEF FindReferences, RemovalAnswered, ProbeChannel, TestAnswered
<1>10. ~DeleteChannel
  BY <1>2, <1>3 DEF DeleteChannel
<1>11. ASSUME NEW c \in ChannelId,
             OpenEdit(c) \/ ConfirmRemoval(c) \/ PressTest(c) \/ StrangerBinds(c)
       PROVE FALSE
  BY <1>2, <1>11 DEF OpenEdit, InDialog, ConfirmRemoval, PressTest, StrangerBinds
<1>12. ASSUME NEW c \in ChannelId, StrangerEdits(c) \/ StrangerRemoves(c)
       PROVE FALSE
  BY <1>3, <1>12 DEF StrangerEdits, StrangerRemoves
<1> QED
  BY <1>4, <1>5, <1>6, <1>7, <1>8, <1>9, <1>10, <1>11, <1>12 DEF ChannelPageNext

LEMMA KeysHold ==
    ASSUME ChannelInv, [ChannelPageNext]_channelPageVars PROVE KeysHeld
<1> SUFFICES ASSUME NEW c \in ChannelId, chan[c].keys # chan'[c].keys,
                    saveCall.phase = "save", saveCall'.phase = "stored"
             PROVE  saveCall.form.keys = chan'[c].keys \/ saveCall.disturbed
  BY DEF KeysHeld
<1>1. StoreChannel
  BY OnlyStores
<1>2. /\ chan \in ChannelRows /\ saveCall \in SaveCalls /\ saveCall.editing \in BOOLEAN
      /\ saveCall.id \in 0..LastChannel /\ saveCall.form \in ChannelForm
      /\ ~saveCall.editing => saveCall.form.keys # NoKeys
      /\ saveCall.editing /\ ~saveCall.disturbed => saveCall.row = chan[saveCall.id]
  BY DEF ChannelInv, SaveFits, SaveCalls
<1>3. CASE saveCall.editing
  <2>1. chan' = [chan EXCEPT ![saveCall.id] = WithForm(saveCall.row, saveCall.form)]
    BY <1>1, <1>3 DEF StoreChannel
  <2>2. c = saveCall.id
    BY <1>2, <2>1 DEF ChannelRows
  <2>3. chan'[c] = WithForm(saveCall.row, saveCall.form)
    BY <1>2, <2>1, <2>2 DEF ChannelRows
  <2>4. chan'[c].keys = IF saveCall.form.keys = NoKeys THEN saveCall.row.keys
                        ELSE saveCall.form.keys
    BY <2>3 DEF WithForm
  <2> QED
    BY <1>2, <1>3, <2>2, <2>4
<1>4. CASE ~saveCall.editing
  <2>1. PICK n \in FreshId : chan' = [chan EXCEPT ![n] = WithForm(Gone, saveCall.form)]
    BY <1>1, <1>4 DEF StoreChannel
  <2>2. c = n
    BY <1>2, <2>1 DEF ChannelRows
  <2>3. chan'[c] = WithForm(Gone, saveCall.form)
    BY <1>2, <2>1, <2>2 DEF ChannelRows
  <2> QED
    BY <1>2, <1>4, <2>3 DEF WithForm
<1> QED
  BY <1>2, <1>3, <1>4

\* The verdict "works" is only given by the answer to a test, whose calls all went well.
WorksHeld ==
    testVerdict' = "works" /\ testCall.phase = "answered" /\ testCall'.phase = "idle"
       => testCall.answers = {"fine"}

LEMMA WorksHold ==
    ASSUME [ChannelPageNext]_channelPageVars PROVE WorksHeld
<1> SUFFICES ASSUME testVerdict' = "works", testCall.phase = "answered",
                    testCall'.phase = "idle"
             PROVE  testCall.answers = {"fine"}
  BY DEF WorksHeld
<1>1. testCall' # testCall
  OBVIOUS
<1>2. TestAnswered
  <2>1. ~(UNCHANGED channelPageVars)
    BY <1>1 DEF channelPageVars
  <2>2. ~Reload /\ ~(\E l \in ListLoad : ReadList(l) \/ ShowList(l))
    BY <1>1 DEF Reload, ReadList, ShowList
  <2>3. ~OpenCreate /\ ~CloseDialog /\ ~EnterForm /\ ~PressSave
    BY <1>1 DEF OpenCreate, CloseDialog, EnterForm, InDialog, PressSave
  <2>4. ~FindChannel /\ ~StoreChannel /\ ~SaveAnswered
    BY <1>1 DEF FindChannel, StoreChannel, SaveStays, SaveAnswered
  <2>5. ~FindReferences /\ ~RemovalAnswered /\ ~DeleteChannel
    BY <1>1 DEF FindReferences, RemovalAnswered, DeleteChannel
  <2>6. ~ProbeChannel
    BY DEF ProbeChannel
  <2>7. ASSUME NEW c \in ChannelId, OpenEdit(c) \/ ConfirmRemoval(c) PROVE FALSE
    BY <1>1, <2>7 DEF OpenEdit, InDialog, ConfirmRemoval
  <2>8. ASSUME NEW c \in ChannelId, PressTest(c) PROVE FALSE
    BY <2>8 DEF PressTest, CountCall
  <2>9. ASSUME NEW c \in ChannelId,
               StrangerEdits(c) \/ StrangerRemoves(c) \/ StrangerBinds(c) PROVE FALSE
    BY <1>1, <2>9 DEF StrangerEdits, StrangerRemoves, StrangerBinds, Stranger
  <2> QED
    BY <2>1, <2>2, <2>3, <2>4, <2>5, <2>6, <2>7, <2>8, <2>9 DEF ChannelPageNext
<1>3. Passed(testCall.answers)
  BY <1>2 DEF TestAnswered
<1> QED
  BY <1>3 DEF Passed

-----------------------------------------------------------------------------
(* The page of the models: every binding and every price belongs to the model it *)
(* was entered for, and no two bindings of a model go to one channel.             *)
Binding == [to : Upstreams \cup {0}, by : 0..LastModelId]
ModelRecord == [here : BOOLEAN, name : ModelName \cup {"none"}, price : 0..LastModelId,
             shadow : SUBSET Binding]
ModelRows == [Id -> ModelRecord]
RoutesOf == [Id -> SUBSET Binding]
ModelForms == [open : BOOLEAN, id : 0..LastModelId, name : ModelName \cup {"none"},
               price : 0..LastModelId, binds : Seq(Binding)]
ModelPages == [rows : ModelRows, routes : RoutesOf, channels : SUBSET Upstreams]
Requests == [phase : {"idle", "find", "begin", "write", "stored", "refused"},
             id : 0..LastModelId, name : ModelName \cup {"none"}, price : 0..LastModelId,
             binds : SUBSET Binding, entity : ModelRecord, snap : ModelRecord]

For(v, i, created) == v = i \/ (v = 0 /\ i \in created)
AllFor(binds, i, created) == \A b \in binds : For(b.by, i, created)
Once(binds) == \A b, c \in binds : b.to = c.to => b = c
OnceListed(s) == \A j, k \in DOMAIN s : s[j].to = s[k].to /\ s[j].to # 0 => j = k

KnownFits(rows, bound, created) ==
    /\ rows \in ModelRows /\ bound \in RoutesOf
    /\ \A i \in Id : /\ rows[i].here => For(rows[i].price, i, created)
                     /\ AllFor(bound[i], i, created) /\ Once(bound[i])
ShownFits(page, created) ==
    page \in ModelPages /\ KnownFits(page.rows, page.routes, created)
FormFits(form, created) ==
    /\ form \in ModelForms /\ For(form.price, form.id, created)
    /\ \A k \in DOMAIN form.binds : For(form.binds[k].by, form.id, created)
    /\ OnceListed(form.binds)
RequestFits(r, created) ==
    /\ r \in Requests
    /\ For(r.price, r.id, created) /\ AllFor(r.binds, r.id, created) /\ Once(r.binds)
    /\ r.phase \in {"begin", "write"} =>
          /\ r.entity.here /\ r.entity.price = r.price /\ r.entity.shadow = r.binds
    /\ r.phase = "write" /\ r.id = 0 => ~r.snap.here

Distinct(rows) ==
    \A i, j \in Id : rows[i].here /\ rows[j].here /\ rows[i].name = rows[j].name => i = j
Bindable(rows, bound, there) ==
    \A i \in Id : /\ bound[i] # {} => rows[i].here
                  /\ \A b \in bound[i] : b.to \in there
Mirrored(rows, bound, confused) ==
    \A i \in Id \ confused : rows[i].here => rows[i].shadow = bound[i]

ModelInv ==
    /\ channels \subseteq Upstreams /\ made \subseteq Id
    /\ KnownFits(modelRows, routes, made)
    /\ Distinct(modelRows) /\ Bindable(modelRows, routes, channels)
    /\ Mirrored(modelRows, routes, mixed)
    /\ ShownFits(modelPage, made) /\ FormFits(modelForm, made)
    /\ req \in [Slot -> Requests] /\ \A s \in Slot : RequestFits(req[s], made)

KeysOfModels ==
    /\ LastModelId \in Nat /\ FirstModels \in Nat /\ FirstModels <= LastModelId
    /\ 0 \in 0..LastModelId /\ \A i \in Id : i \in 0..LastModelId /\ i \in Nat /\ i # 0
    /\ \A i \in 0..LastModelId : i # 0 => i \in Id

LEMMA ModelNumbers == KeysOfModels
BY ModelPageAssumption DEF Id, KeysOfModels

\* A finite set in some order, each member once.
LEMMA SetInOrder ==
    ASSUME NEW S, IsFiniteSet(S)
    PROVE  /\ SetToSeq(S) \in [1..Cardinality(S) -> S] /\ Cardinality(S) \in Nat
           /\ \A j, k \in 1..Cardinality(S) : SetToSeq(S)[j] = SetToSeq(S)[k] => j = k
<1> DEFINE n == Cardinality(S)
<1>1. n \in Nat /\ Bijection(1..n, S) # {}
  BY FS_CardinalityType DEF ExistsBijection
<1> HIDE DEF n
<1>2. PICK f : f \in Bijection(1..n, S)
  BY <1>1
<1>3. f \in [1..n -> S] /\ IsInjective(f)
  BY <1>2 DEF Bijection, Injection
<1> DEFINE g == CHOOSE h \in [1..n -> S] : IsInjective(h)
<1>4. g \in [1..n -> S] /\ IsInjective(g)
  BY <1>3
<1>5. SetToSeq(S) = g
  BY DEF SetToSeq, n
<1> HIDE DEF g
<1>6. SetToSeq(S) \in [1..n -> S] /\ IsInjective(SetToSeq(S))
  BY <1>4, <1>5
<1>7. \A j, k \in 1..n : SetToSeq(S)[j] = SetToSeq(S)[k] => j = k
  BY <1>6 DEF IsInjective
<1> QED
  BY <1>1, <1>6, <1>7 DEF n

LEMMA BindingsFinite == IsFiniteSet(Binding)
<1> DEFINE A == Upstreams \cup {0}
           B == 0..LastModelId
           f == [q \in A \X B |-> [to |-> q[1], by |-> q[2]]]
<1>1. IsFiniteSet(A)
  BY ModelPageAssumption, FS_AddElement
<1>2. IsFiniteSet(B)
  BY ModelPageAssumption, FS_Interval
<1>3. IsFiniteSet(A \X B)
  BY <1>1, <1>2, FS_Product
<1> HIDE DEF A, B
<1>4. Binding = [to : A, by : B]
  BY DEF Binding, A, B
<1>5. \A q \in A \X B : f[q] \in Binding
  BY <1>4
<1>6. ASSUME NEW b \in Binding PROVE \E q \in A \X B : f[q] = b
  <2>1. b.to \in A /\ b.by \in B /\ b = [to |-> b.to, by |-> b.by]
    BY <1>4
  <2>2. <<b.to, b.by>> \in A \X B
    BY <2>1
  <2>3. f[<<b.to, b.by>>] = b
    BY <2>1, <2>2
  <2> QED
    BY <2>2, <2>3
<1>7. f \in [A \X B -> Binding]
  BY <1>5
<1> HIDE DEF f
<1>8. f \in Surjection(A \X B, Binding)
  BY <1>6, <1>7 DEF Surjection
<1> QED
  BY <1>3, <1>8, FS_Surjection

LEMMA NamesDiffer ==
    /\ \A i \in 1..FirstModels : NameOf(i) \in ModelName
    /\ \A i, j \in 1..FirstModels : NameOf(i) = NameOf(j) => i = j
<1> DEFINE n == Cardinality(ModelName)
           q == SetToSeq(ModelName)
<1>1. q \in [1..n -> ModelName] /\ n \in Nat /\ \A j, k \in 1..n : q[j] = q[k] => j = k
  BY ModelPageAssumption, SetInOrder
<1>2. 1..FirstModels \subseteq 1..n
  BY ModelPageAssumption, <1>1
<1>3. \A i : NameOf(i) = q[i]
  BY DEF NameOf
<1> HIDE DEF n, q
<1> QED
  BY <1>1, <1>2, <1>3

LEMMA NoModelFits ==
    /\ NoModelRow \in ModelRecord /\ ~NoModelRow.here /\ ClosedForm \in ModelForms
    /\ NoReq \in Requests
    /\ \A created : FormFits(ClosedForm, created) /\ RequestFits(NoReq, created)
<1>1. NoModelRow \in ModelRecord /\ ~NoModelRow.here
  BY ModelNumbers DEF NoModelRow, ModelRecord, KeysOfModels
<1>2. NoReq \in Requests
  BY <1>1, ModelNumbers DEF NoReq, Requests, KeysOfModels
<1>3. <<>> \in Seq(Binding)
  OBVIOUS
<1>4. DOMAIN <<>> = {}
  OBVIOUS
<1>5. ClosedForm \in ModelForms
  BY <1>3, ModelNumbers DEF ClosedForm, ModelForms, KeysOfModels
<1>6. ClosedForm.binds = <<>> /\ ClosedForm.price = 0 /\ ClosedForm.id = 0
  BY DEF ClosedForm
<1>7. NoReq.phase = "idle" /\ NoReq.id = 0 /\ NoReq.price = 0 /\ NoReq.binds = {}
  BY DEF NoReq
<1>8. \A created : FormFits(ClosedForm, created)
  BY <1>4, <1>5, <1>6 DEF FormFits, For, OnceListed
<1>9. \A created : RequestFits(NoReq, created)
  BY <1>2, <1>7 DEF RequestFits, For, AllFor, Once
<1> QED
  BY <1>1, <1>2, <1>5, <1>8, <1>9

LEMMA ModelStart ==
    ASSUME ModelPageInit PROVE ModelInv
<1>1. /\ modelRows = [i \in Id |-> IF i > FirstModels THEN NoModelRow
                       ELSE [here |-> TRUE, name |-> NameOf(i), price |-> i,
                             shadow |-> {[to |-> 1, by |-> i]}]]
      /\ routes = [i \in Id |-> IF i > FirstModels THEN {} ELSE {[to |-> 1, by |-> i]}]
      /\ channels = Upstreams /\ made = {} /\ modelForm = ClosedForm
      /\ modelPage = [rows |-> modelRows, routes |-> routes, channels |-> channels]
      /\ req = [s \in Slot |-> NoReq] /\ mixed = {}
  BY DEF ModelPageInit
<1>2. ASSUME NEW i \in Id
      PROVE  /\ modelRows[i] \in ModelRecord /\ routes[i] \in SUBSET Binding
             /\ modelRows[i].here => For(modelRows[i].price, i, {})
             /\ AllFor(routes[i], i, {}) /\ Once(routes[i])
             /\ routes[i] # {} => modelRows[i].here
             /\ \A b \in routes[i] : b.to \in channels
             /\ modelRows[i].here => modelRows[i].shadow = routes[i]
             /\ modelRows[i].here => i \in 1..FirstModels /\ modelRows[i].name = NameOf(i)
  <2>1. CASE i > FirstModels
    <3>1. modelRows[i] = NoModelRow /\ routes[i] = {}
      BY <1>1, <2>1
    <3> QED
      BY <3>1, NoModelFits DEF AllFor, Once
  <2>2. CASE ~(i > FirstModels)
    <3> DEFINE b == [to |-> 1, by |-> i]
    <3>1. modelRows[i] = [here |-> TRUE, name |-> NameOf(i), price |-> i, shadow |-> {b}]
          /\ routes[i] = {b}
      BY <1>1, <2>2
    <3>2. i \in 1..FirstModels /\ i \in 0..LastModelId
      BY <2>2, ModelNumbers DEF KeysOfModels
    <3>3. b \in Binding /\ b.by = i /\ b.to = 1 /\ 1 \in channels
      BY <1>1, <3>2, ModelPageAssumption DEF Binding
    <3> HIDE DEF b
    <3>4. modelRows[i] \in ModelRecord
      BY <3>1, <3>2, <3>3, NamesDiffer DEF ModelRecord
    <3> QED
      BY <3>1, <3>2, <3>3, <3>4 DEF For, AllFor, Once
  <2> QED
    BY <2>1, <2>2
<1>3. modelRows \in ModelRows /\ routes \in RoutesOf
  BY <1>1, <1>2 DEF ModelRows, RoutesOf
<1>4. KnownFits(modelRows, routes, made)
  BY <1>1, <1>2, <1>3 DEF KnownFits
<1>5. Distinct(modelRows)
  BY <1>2, NamesDiffer DEF Distinct
<1>6. Bindable(modelRows, routes, channels) /\ Mirrored(modelRows, routes, mixed)
  BY <1>2 DEF Bindable, Mirrored
<1>7. modelPage \in ModelPages
  BY <1>1, <1>3 DEF ModelPages
<1>8. ShownFits(modelPage, made)
  BY <1>1, <1>4, <1>7 DEF ShownFits
<1>9. FormFits(modelForm, made)
  BY <1>1, NoModelFits
<1>10. req \in [Slot -> Requests] /\ \A s \in Slot : RequestFits(req[s], made)
  BY <1>1, NoModelFits
<1>11. channels \subseteq Upstreams /\ made \subseteq Id
  BY <1>1
<1> QED
  BY <1>4, <1>5, <1>6, <1>8, <1>9, <1>10, <1>11 DEF ModelInv

LEMMA ModelsHolding ==
    ASSUME ModelInv PROVE RoutesAreSound /\ ShadowIsRoutes /\ PricesStayHome
<1>1. ASSUME NEW i \in Id
      PROVE  /\ \A b, c \in routes[i] : b.to = c.to => b = c
             /\ \A b \in routes[i] : b.to \in channels
             /\ routes[i] # {} => modelRows[i].here
             /\ modelRows[i].here => ~NameTaken(modelRows[i].name, i)
  <2>1. Once(routes[i]) /\ Bindable(modelRows, routes, channels) /\ Distinct(modelRows)
    BY DEF ModelInv, KnownFits
  <2>2. modelRows[i].here => ~NameTaken(modelRows[i].name, i)
    BY <2>1 DEF NameTaken, Distinct
  <2> QED
    BY <2>1, <2>2 DEF Once, Bindable
<1>2. ShadowIsRoutes
  BY DEF ModelInv, Mirrored, ShadowIsRoutes
<1>3. ASSUME NEW i \in Id, modelRows[i].here,
             NEW v \in {modelRows[i].price} \cup {b.by : b \in routes[i]}
      PROVE  v = i \/ (v = 0 /\ i \in made)
  BY <1>3 DEF ModelInv, KnownFits, AllFor, For
<1> QED
  BY <1>1, <1>2, <1>3 DEF RoutesAreSound, PricesStayHome

-----------------------------------------------------------------------------
\* What was entered for a model stays so.
LEMMA EnteredStays ==
    ASSUME NEW created, NEW more, created \subseteq more
    PROVE  /\ \A rows, bound : KnownFits(rows, bound, created) => KnownFits(rows, bound, more)
           /\ \A page : ShownFits(page, created) => ShownFits(page, more)
           /\ \A form : FormFits(form, created) => FormFits(form, more)
           /\ \A r : RequestFits(r, created) => RequestFits(r, more)
<1>1. \A v, i : For(v, i, created) => For(v, i, more)
  BY DEF For
<1>2. \A binds, i : AllFor(binds, i, created) => AllFor(binds, i, more)
  BY <1>1 DEF AllFor
<1>3. \A rows, bound : KnownFits(rows, bound, created) => KnownFits(rows, bound, more)
  BY <1>1, <1>2 DEF KnownFits
<1>4. \A page : ShownFits(page, created) => ShownFits(page, more)
  BY <1>3 DEF ShownFits
<1>5. \A form : FormFits(form, created) => FormFits(form, more)
  BY <1>1 DEF FormFits
<1>6. \A r : RequestFits(r, created) => RequestFits(r, more)
  BY <1>1, <1>2 DEF RequestFits
<1> QED
  BY <1>3, <1>4, <1>5, <1>6

\* Nothing is stored: the page, the form or a request moves.
LEMMA FormMoves ==
    ASSUME ModelInv, UNCHANGED <<modelRows, routes, channels, made, req, mixed>>,
           ShownFits(modelPage', made), FormFits(modelForm', made)
    PROVE  ModelInv'
<1>1. /\ modelRows' = modelRows /\ routes' = routes /\ channels' = channels
      /\ made' = made /\ req' = req /\ mixed' = mixed
  OBVIOUS
<1> QED
  BY <1>1 DEF ModelInv

LEMMA RequestMoves ==
    ASSUME ModelInv, UNCHANGED <<modelRows, routes, channels, made, mixed>>,
           ShownFits(modelPage', made), FormFits(modelForm', made),
           NEW s \in Slot, NEW r, req' = [req EXCEPT ![s] = r], RequestFits(r, made)
    PROVE  ModelInv'
<1>1. /\ modelRows' = modelRows /\ routes' = routes /\ channels' = channels
      /\ made' = made /\ mixed' = mixed
  OBVIOUS
<1>2. r \in Requests
  BY DEF RequestFits
<1>3. req \in [Slot -> Requests] /\ \A t \in Slot : RequestFits(req[t], made)
  BY DEF ModelInv
<1>4. req' \in [Slot -> Requests] /\ \A t \in Slot : RequestFits(req'[t], made)
  BY <1>2, <1>3
<1> QED
  BY <1>1, <1>4 DEF ModelInv

-----------------------------------------------------------------------------
LEMMA PageParts ==
    ASSUME ModelInv
    PROVE  /\ KnownFits(modelRows, routes, made)
           /\ modelPage \in ModelPages /\ ShownFits(modelPage, made)
           /\ modelPage.rows \in ModelRows /\ modelPage.routes \in RoutesOf
           /\ modelPage.channels \subseteq Upstreams
           /\ KnownFits(modelPage.rows, modelPage.routes, made)
BY DEF ModelInv, ShownFits, ModelPages

LEMMA FormParts ==
    ASSUME ModelInv
    PROVE  /\ FormFits(modelForm, made) /\ modelForm \in ModelForms
           /\ modelForm.open \in BOOLEAN /\ modelForm.id \in 0..LastModelId
           /\ modelForm.name \in ModelName \cup {"none"}
           /\ modelForm.price \in 0..LastModelId /\ For(modelForm.price, modelForm.id, made)
           /\ modelForm.binds \in Seq(Binding)
           /\ \A k \in DOMAIN modelForm.binds : For(modelForm.binds[k].by, modelForm.id, made)
           /\ OnceListed(modelForm.binds)
BY DEF ModelInv, FormFits, ModelForms

\* The page shows the rows as they are.
LEMMA PageShown ==
    ASSUME ModelInv, modelPage' = [modelPage EXCEPT !.rows = modelRows, !.routes = routes]
    PROVE  ShownFits(modelPage', made)
<1>1. /\ modelPage \in ModelPages /\ KnownFits(modelRows, routes, made)
      /\ modelRows \in ModelRows /\ routes \in RoutesOf
  BY PageParts DEF KnownFits
<1>2. modelPage' \in ModelPages
  BY <1>1 DEF ModelPages
<1>3. modelPage'.rows = modelRows /\ modelPage'.routes = routes
  BY <1>1 DEF ModelPages
<1> QED
  BY <1>1, <1>2, <1>3 DEF ShownFits

LEMMA FormClosed ==
    ASSUME NEW form, NEW created, FormFits(form, created), NEW open \in BOOLEAN
    PROVE  FormFits([form EXCEPT !.open = open], created)
<1>1. form \in ModelForms
  BY DEF FormFits
<1>2. [form EXCEPT !.open = open] \in ModelForms
  BY <1>1 DEF ModelForms
<1>3. /\ [form EXCEPT !.open = open].id = form.id
      /\ [form EXCEPT !.open = open].price = form.price
      /\ [form EXCEPT !.open = open].binds = form.binds
  BY <1>1 DEF ModelForms
<1> QED
  BY <1>2, <1>3 DEF FormFits

LEMMA LoadKeeps ==
    ASSUME ModelInv, LoadModels PROVE ModelInv'
<1>1. /\ modelPage' = [modelPage EXCEPT !.rows = modelRows, !.routes = routes]
      /\ UNCHANGED <<modelRows, routes, channels, made, req, mixed>> /\ modelForm' = modelForm
  BY DEF LoadModels
<1>2. ShownFits(modelPage', made) /\ FormFits(modelForm', made)
  BY <1>1, PageShown, FormParts
<1> QED
  BY <1>1, <1>2, FormMoves

\* The form alone.
LEMMA OnlyForm ==
    ASSUME ModelInv, Elsewhere, FormFits(modelForm', made) PROVE ModelInv'
<1>1. UNCHANGED <<modelRows, routes, channels, made, req, mixed>> /\ modelPage' = modelPage
  BY DEF Elsewhere
<1>2. ShownFits(modelPage', made)
  BY <1>1, PageParts
<1> QED
  BY <1>1, <1>2, FormMoves

LEMMA OpenNewKeeps ==
    ASSUME ModelInv, OpenNew \/ Cancel PROVE ModelInv'
<1>1. /\ Elsewhere
      /\ \/ modelForm' = [ClosedForm EXCEPT !.open = TRUE]
         \/ modelForm' = [modelForm EXCEPT !.open = FALSE]
  BY DEF OpenNew, Cancel
<1>2. FormFits(ClosedForm, made) /\ FormFits(modelForm, made)
  BY FormParts, NoModelFits
<1>3. /\ FormFits([ClosedForm EXCEPT !.open = TRUE], made)
      /\ FormFits([modelForm EXCEPT !.open = FALSE], made)
  BY <1>2, FormClosed
<1> QED
  BY <1>1, <1>3, OnlyForm

LEMMA OpenModelKeeps ==
    ASSUME ModelInv, NEW i \in Id, OpenModel(i) PROVE ModelInv'
<1>1. /\ Elsewhere /\ modelPage.rows[i].here /\ modelForm' = FormOfRow(i)
  BY DEF OpenModel, FormFor
<1>2. /\ modelPage.rows[i] \in ModelRecord /\ modelPage.routes[i] \in SUBSET Binding
      /\ For(modelPage.rows[i].price, i, made)
      /\ AllFor(modelPage.routes[i], i, made) /\ Once(modelPage.routes[i])
  BY <1>1, PageParts DEF KnownFits, ModelRows, RoutesOf
<1> DEFINE S == modelPage.routes[i]
           n == Cardinality(S)
           q == SetToSeq(S)
<1>3. IsFiniteSet(S)
  BY <1>2, BindingsFinite, FS_Subset
<1>4. q \in [1..n -> S] /\ n \in Nat /\ \A j, k \in 1..n : q[j] = q[k] => j = k
  BY <1>3, SetInOrder
<1>5. modelForm' = [open |-> TRUE, id |-> i, name |-> modelPage.rows[i].name,
                    price |-> modelPage.rows[i].price, binds |-> q]
  BY <1>1 DEF FormOfRow
<1>6. S \subseteq Binding /\ AllFor(S, i, made) /\ Once(S)
  BY <1>2
<1> HIDE DEF n, q, S
<1>7. q \in Seq(Binding) /\ DOMAIN q = 1..n
  BY <1>4, <1>6
<1>8. \A k \in DOMAIN q : For(q[k].by, i, made)
  BY <1>4, <1>6, <1>7 DEF AllFor
<1>9. OnceListed(q)
  BY <1>4, <1>6, <1>7 DEF OnceListed, Once
<1>10. /\ modelPage.rows[i].name \in ModelName \cup {"none"}
       /\ modelPage.rows[i].price \in 0..LastModelId
  BY <1>2 DEF ModelRecord
<1>11. modelForm' \in ModelForms
  BY <1>5, <1>7, <1>10, ModelNumbers DEF ModelForms, KeysOfModels
<1>12. modelForm'.id = i /\ modelForm'.price = modelPage.rows[i].price /\ modelForm'.binds = q
  BY <1>5
<1>13. FormFits(modelForm', made)
  BY <1>2, <1>8, <1>9, <1>11, <1>12 DEF FormFits
<1> QED
  BY <1>1, <1>13, OnlyForm

LEMMA TypeNameKeeps ==
    ASSUME ModelInv, (\E n \in ModelName : TypeName(n)) \/ TypePrice PROVE ModelInv'
<1>1. FormFits(modelForm, made) /\ modelForm \in ModelForms
  BY FormParts
<1>2. ASSUME NEW n \in ModelName, TypeName(n) PROVE ModelInv'
  <2>1. modelForm' = [modelForm EXCEPT !.name = n] /\ Elsewhere
    BY <1>2 DEF TypeName, Entered
  <2>2. modelForm' \in ModelForms
    BY <1>1, <2>1 DEF ModelForms
  <2>3. /\ modelForm'.id = modelForm.id /\ modelForm'.price = modelForm.price
        /\ modelForm'.binds = modelForm.binds
    BY <1>1, <2>1 DEF ModelForms
  <2>4. FormFits(modelForm', made)
    BY <1>1, <2>2, <2>3 DEF FormFits
  <2> QED
    BY <2>1, <2>4, OnlyForm
<1>3. ASSUME TypePrice PROVE ModelInv'
  <2>1. modelForm' = [modelForm EXCEPT !.price = modelForm.id] /\ Elsewhere
    BY <1>3 DEF TypePrice, Entered
  <2>2. modelForm' \in ModelForms
    BY <1>1, <2>1 DEF ModelForms
  <2>3. /\ modelForm'.id = modelForm.id /\ modelForm'.price = modelForm.id
        /\ modelForm'.binds = modelForm.binds
    BY <1>1, <2>1 DEF ModelForms
  <2>4. FormFits(modelForm', made)
    BY <1>1, <2>2, <2>3 DEF FormFits, For
  <2> QED
    BY <2>1, <2>4, OnlyForm
<1> QED
  BY <1>2, <1>3

\* The rows of the form change to others that fit.
LEMMA BindsEntered ==
    ASSUME ModelInv, NEW q \in Seq(Binding),
           Entered([modelForm EXCEPT !.binds = q]),
           \A k \in DOMAIN q : For(q[k].by, modelForm.id, made), OnceListed(q)
    PROVE  ModelInv'
<1>1. modelForm' = [modelForm EXCEPT !.binds = q] /\ Elsewhere
  BY DEF Entered
<1>2. modelForm \in ModelForms /\ For(modelForm.price, modelForm.id, made)
  BY FormParts
<1>3. modelForm' \in ModelForms
  BY <1>1, <1>2 DEF ModelForms
<1>4. /\ modelForm'.id = modelForm.id /\ modelForm'.price = modelForm.price
      /\ modelForm'.binds = q
  BY <1>1, <1>2 DEF ModelForms
<1>5. FormFits(modelForm', made)
  BY <1>2, <1>3, <1>4 DEF FormFits
<1> QED
  BY <1>1, <1>5, OnlyForm

LEMMA FreeChannelFits ==
    ASSUME ModelInv
    PROVE  /\ FirstFreeChannel \in Upstreams \cup {0}
           /\ FirstFreeChannel # 0 => FirstFreeChannel \notin Bound
<1> DEFINE S == modelPage.channels \ Bound
<1>1. modelPage.channels \subseteq Upstreams
  BY PageParts
<1>2. S \in SUBSET Upstreams
  BY <1>1
<1>3. CASE modelPage.channels \subseteq Bound
  BY <1>3 DEF FirstFreeChannel
<1>4. CASE ~(modelPage.channels \subseteq Bound)
  <2>1. IsFiniteSet(S)
    BY <1>2, ModelPageAssumption, FS_Subset
  <2>2. S # {}
    BY <1>4
  <2> HIDE DEF S
  <2>3. S \in SUBSET Int
    BY <1>2, ModelPageAssumption
  <2>4. \E n \in S : \A m \in S : n <= m
    BY <2>1, <2>2, <2>3, LeastExists
  <2>5. FirstFreeChannel = CHOOSE n \in S : \A m \in S : n <= m
    BY <1>4 DEF FirstFreeChannel, S
  <2>6. FirstFreeChannel \in S
    BY <2>4, <2>5
  <2> QED
    BY <1>2, <2>6 DEF S
<1> QED
  BY <1>3, <1>4

LEMMA BoundIs ==
    \A k \in DOMAIN modelForm.binds : modelForm.binds[k].to \in Bound
BY DEF Bound

LEMMA AddBindingKeeps ==
    ASSUME ModelInv, AddBinding PROVE ModelInv'
<1> DEFINE b == [to |-> FirstFreeChannel, by |-> modelForm.id]
           s == modelForm.binds
           q == Append(s, b)
<1>1. /\ s \in Seq(Binding) /\ modelForm.id \in 0..LastModelId
      /\ \A k \in DOMAIN s : For(s[k].by, modelForm.id, made)
      /\ OnceListed(s)
  BY FormParts
<1>2. b \in Binding /\ b.by = modelForm.id /\ b.to = FirstFreeChannel
  BY <1>1, FreeChannelFits DEF Binding
<1>3. \A k \in DOMAIN s : s[k].to \in Bound
  BY BoundIs
<1>4. Entered([modelForm EXCEPT !.binds = q])
  <2>1. [modelForm EXCEPT !.binds = Append(@, b)] = [modelForm EXCEPT !.binds = q]
    BY FormParts DEF ModelForms
  <2> QED
    BY <2>1 DEF AddBinding
<1> HIDE DEF b, s
<1>5. q \in Seq(Binding) /\ Len(q) = Len(s) + 1 /\ Len(s) \in Nat
      /\ (\A k \in 1..Len(s) : q[k] = s[k]) /\ q[Len(s) + 1] = b
  BY <1>1, <1>2, AppendProperties, LenProperties
<1> HIDE DEF q
<1>6. DOMAIN q = 1..(Len(s) + 1) /\ DOMAIN s = 1..Len(s)
  BY <1>1, <1>5
<1>7. \A k \in DOMAIN q : For(q[k].by, modelForm.id, made)
  BY <1>1, <1>2, <1>5, <1>6 DEF For
<1>8. OnceListed(q)
  <2> SUFFICES ASSUME NEW j \in DOMAIN q, NEW k \in DOMAIN q, q[j].to = q[k].to, q[j].to # 0
               PROVE  j = k
    BY DEF OnceListed
  <2>1. CASE j \in DOMAIN s /\ k \in DOMAIN s
    BY <1>1, <1>5, <1>6, <2>1 DEF OnceListed
  <2>2. CASE j \in DOMAIN s /\ k \notin DOMAIN s
    <3>1. q[k] = b /\ q[j] = s[j]
      BY <1>5, <1>6, <2>2
    <3> QED
      BY <1>2, <1>3, <2>2, <3>1, FreeChannelFits
  <2>3. CASE j \notin DOMAIN s /\ k \in DOMAIN s
    <3>1. q[j] = b /\ q[k] = s[k]
      BY <1>5, <1>6, <2>3
    <3> QED
      BY <1>2, <1>3, <2>3, <3>1, FreeChannelFits
  <2>4. CASE j \notin DOMAIN s /\ k \notin DOMAIN s
    BY <1>5, <1>6, <2>4
  <2> QED
    BY <2>1, <2>2, <2>3, <2>4
<1> QED
  BY <1>4, <1>5, <1>7, <1>8, BindsEntered

LEMMA ChooseKeeps ==
    ASSUME ModelInv, NEW k \in DOMAIN modelForm.binds, NEW c \in Upstreams, ChooseChannel(k, c)
    PROVE  ModelInv'
<1> DEFINE b == [to |-> c, by |-> modelForm.id]
           s == modelForm.binds
           q == [s EXCEPT ![k] = b]
<1>1. /\ s \in Seq(Binding) /\ modelForm.id \in 0..LastModelId
      /\ \A j \in DOMAIN s : For(s[j].by, modelForm.id, made)
      /\ OnceListed(s) /\ k \in DOMAIN s
  BY FormParts
<1>2. b \in Binding /\ b.by = modelForm.id /\ b.to = c
  BY <1>1 DEF Binding
<1>3. (\A j \in DOMAIN s : s[j].to \in Bound) /\ c \notin Bound
  BY BoundIs DEF ChooseChannel
<1>4. Entered([modelForm EXCEPT !.binds = q])
  <2>1. [modelForm EXCEPT !.binds[k] = b] = [modelForm EXCEPT !.binds = q]
    BY FormParts DEF ModelForms
  <2> QED
    BY <2>1 DEF ChooseChannel
<1> HIDE DEF b, s
<1>5. DOMAIN s = 1..Len(s) /\ Len(s) \in Nat
  BY <1>1
<1>6. k \in 1..Len(s)
  BY <1>1, <1>5
<1>7. /\ q \in Seq(Binding) /\ Len(q) = Len(s)
      /\ \A j \in 1..Len(s) : q[j] = IF j = k THEN b ELSE s[j]
  BY <1>1, <1>2, <1>6, ExceptSeq
<1> HIDE DEF q
<1>8. DOMAIN q = 1..Len(s)
  BY <1>7
<1>9. \A j \in DOMAIN q : For(q[j].by, modelForm.id, made)
  BY <1>1, <1>2, <1>5, <1>7, <1>8 DEF For
<1>10. OnceListed(q)
  <2> SUFFICES ASSUME NEW j \in DOMAIN q, NEW l \in DOMAIN q, q[j].to = q[l].to, q[j].to # 0
               PROVE  j = l
    BY DEF OnceListed
  <2>1. CASE j # k /\ l # k
    BY <1>1, <1>5, <1>7, <1>8, <2>1 DEF OnceListed
  <2>2. CASE j = k /\ l # k
    BY <1>2, <1>3, <1>5, <1>7, <1>8, <2>2
  <2>3. CASE j # k /\ l = k
    BY <1>2, <1>3, <1>5, <1>7, <1>8, <2>3
  <2> QED
    BY <2>1, <2>2, <2>3
<1> QED
  BY <1>4, <1>7, <1>9, <1>10, BindsEntered

\* A sequence without one of its members.
LEMMA TakenOut ==
    ASSUME NEW S, NEW s \in Seq(S), NEW k \in DOMAIN s
    PROVE  /\ RemoveAt(s, k) \in Seq(S)
           /\ \A j \in DOMAIN RemoveAt(s, k) :
                 /\ (IF j < k THEN j ELSE j + 1) \in DOMAIN s
                 /\ RemoveAt(s, k)[j] = s[IF j < k THEN j ELSE j + 1]
<1>1. DOMAIN s = 1..Len(s) /\ Len(s) \in Nat /\ k \in 1..Len(s)
  OBVIOUS
<1> DEFINE a == SubSeq(s, 1, k - 1)
           z == SubSeq(s, k + 1, Len(s))
<1>2. /\ a \in Seq(S) /\ Len(a) = k - 1 /\ \A i \in 1..(k - 1) : a[i] = s[i]
  <2>1. k - 1 \in Int /\ 1 \in Int /\ \A i \in 1..(k - 1) : s[i] \in S
    BY <1>1, ElementOfSeq
  <2>2. /\ a \in Seq(S) /\ Len(a) = (IF 1 <= k - 1 THEN k - 1 - 1 + 1 ELSE 0)
        /\ \A i \in 1..(k - 1 - 1 + 1) : a[i] = s[1 + i - 1]
    BY <2>1, SubSeqProperties
  <2> QED
    BY <1>1, <2>2
<1>3. /\ z \in Seq(S) /\ Len(z) = Len(s) - k /\ \A i \in 1..(Len(s) - k) : z[i] = s[k + i]
  <2>1. k + 1 \in Int /\ Len(s) \in Int /\ \A i \in (k + 1)..Len(s) : s[i] \in S
    BY <1>1, ElementOfSeq
  <2>2. /\ z \in Seq(S)
        /\ Len(z) = (IF k + 1 <= Len(s) THEN Len(s) - (k + 1) + 1 ELSE 0)
        /\ \A i \in 1..(Len(s) - (k + 1) + 1) : z[i] = s[k + 1 + i - 1]
    BY <2>1, SubSeqProperties
  <2> QED
    BY <1>1, <2>2
<1> HIDE DEF a, z
<1>4. RemoveAt(s, k) = a \o z
  BY DEF RemoveAt, a, z
<1>5. /\ a \o z \in Seq(S) /\ Len(a \o z) = Len(a) + Len(z)
      /\ \A i \in 1..(Len(a) + Len(z)) : (a \o z)[i] = IF i <= Len(a) THEN a[i] ELSE z[i - Len(a)]
  BY <1>2, <1>3, ConcatProperties
<1> DEFINE w == a \o z
<1>6. DOMAIN w = 1..(Len(s) - 1)
  <2>1. w \in Seq(S) /\ Len(w) = Len(a) + Len(z)
    BY <1>5
  <2> HIDE DEF w
  <2>2. DOMAIN w = 1..Len(w)
    BY <2>1
  <2>3. Len(w) = Len(s) - 1
    BY <1>1, <1>2, <1>3, <2>1
  <2> QED
    BY <2>2, <2>3
<1>7. ASSUME NEW j \in 1..(Len(s) - 1)
      PROVE  /\ (IF j < k THEN j ELSE j + 1) \in DOMAIN s
             /\ (a \o z)[j] = s[IF j < k THEN j ELSE j + 1]
  <2>1. CASE j < k
    BY <1>1, <1>2, <1>3, <1>5, <2>1
  <2>2. CASE ~(j < k)
    <3>1. (a \o z)[j] = z[j - (k - 1)] /\ j - (k - 1) \in 1..(Len(s) - k)
      BY <1>1, <1>2, <1>3, <1>5, <2>2
    <3>2. z[j - (k - 1)] = s[k + (j - (k - 1))] /\ k + (j - (k - 1)) = j + 1
      BY <1>1, <1>3, <3>1
    <3> QED
      BY <1>1, <2>2, <3>1, <3>2
  <2> QED
    BY <2>1, <2>2
<1> QED
  BY <1>4, <1>5, <1>6, <1>7 DEF w

LEMMA DropKeeps ==
    ASSUME ModelInv, NEW k \in DOMAIN modelForm.binds, DropBinding(k)
    PROVE  ModelInv'
<1> DEFINE s == modelForm.binds
           q == RemoveAt(s, k)
<1>1. /\ s \in Seq(Binding)
      /\ \A j \in DOMAIN s : For(s[j].by, modelForm.id, made)
      /\ OnceListed(s) /\ k \in DOMAIN s
  BY FormParts
<1>2. Entered([modelForm EXCEPT !.binds = q])
  <2>1. [modelForm EXCEPT !.binds = RemoveAt(@, k)] = [modelForm EXCEPT !.binds = q]
    BY FormParts DEF ModelForms
  <2> QED
    BY <2>1 DEF DropBinding
<1> HIDE DEF s
<1>3. /\ q \in Seq(Binding)
      /\ \A j \in DOMAIN q : /\ (IF j < k THEN j ELSE j + 1) \in DOMAIN s
                             /\ q[j] = s[IF j < k THEN j ELSE j + 1]
  BY <1>1, TakenOut
<1> HIDE DEF q
<1>4. \A j \in DOMAIN q : For(q[j].by, modelForm.id, made)
  BY <1>1, <1>3
<1>5. DOMAIN q = 1..Len(q) /\ Len(q) \in Nat /\ k \in Nat
  BY <1>1, <1>3
<1>6. OnceListed(q)
  <2> SUFFICES ASSUME NEW j \in DOMAIN q, NEW l \in DOMAIN q, q[j].to = q[l].to, q[j].to # 0
               PROVE  j = l
    BY DEF OnceListed
  <2>1. (IF j < k THEN j ELSE j + 1) = (IF l < k THEN l ELSE l + 1)
    BY <1>1, <1>3 DEF OnceListed
  <2> QED
    BY <1>5, <2>1
<1> QED
  BY <1>2, <1>3, <1>4, <1>6, BindsEntered

-----------------------------------------------------------------------------
LEMMA AskedFits ==
    ASSUME NEW created, NEW id \in 0..LastModelId, NEW name \in ModelName \cup {"none"},
           NEW price \in 0..LastModelId, NEW binds \in SUBSET Binding,
           For(price, id, created), AllFor(binds, id, created), Once(binds)
    PROVE  RequestFits(SaveRequest(id, name, price, binds), created)
<1> DEFINE r == SaveRequest(id, name, price, binds)
<1>1. NoReq \in Requests
  BY NoModelFits
<1>2. r \in Requests
  BY <1>1 DEF SaveRequest, Requests
<1>3. r.phase = "find" /\ r.id = id /\ r.price = price /\ r.binds = binds
  BY <1>1 DEF SaveRequest, Requests
<1> HIDE DEF r
<1>4. RequestFits(r, created)
  BY <1>2, <1>3 DEF RequestFits
<1> QED
  BY <1>4 DEF r

LEMMA PressKeeps ==
    ASSUME ModelInv, PressModelSave PROVE ModelInv'
<1> DEFINE s == modelForm.binds
           r == SaveRequest(modelForm.id, modelForm.name, modelForm.price, ToSet(modelForm.binds))
<1>1. /\ UNCHANGED <<modelRows, routes, channels, made, mixed>>
      /\ modelPage' = modelPage /\ modelForm' = modelForm
      /\ req' = [req EXCEPT ![1] = r]
      /\ \A k \in DOMAIN s : s[k].to # 0
  BY DEF PressModelSave, Submit, Sendable, Complete
<1>2. /\ s \in Seq(Binding) /\ modelForm.id \in 0..LastModelId
      /\ modelForm.name \in ModelName \cup {"none"} /\ modelForm.price \in 0..LastModelId
      /\ For(modelForm.price, modelForm.id, made)
      /\ \A j \in DOMAIN s : For(s[j].by, modelForm.id, made)
      /\ OnceListed(s) /\ FormFits(modelForm, made) /\ ShownFits(modelPage, made)
  BY FormParts, PageParts
<1>3. ToSet(s) = {s[j] : j \in DOMAIN s}
  BY DEF ToSet
<1>4. \A j \in DOMAIN s : s[j] \in Binding
  BY <1>2, ElementOfSeq
<1> DEFINE S == ToSet(s)
<1>5. S \in SUBSET Binding
  BY <1>3, <1>4
<1>6. AllFor(S, modelForm.id, made)
  BY <1>2, <1>3 DEF AllFor
<1>7. Once(S)
  BY <1>1, <1>2, <1>3 DEF Once, OnceListed
<1>8. RequestFits(r, made)
  BY <1>2, <1>5, <1>6, <1>7, AskedFits
<1>9. ShownFits(modelPage', made) /\ FormFits(modelForm', made) /\ 1 \in Slot
  BY <1>1, <1>2 DEF Slot
<1> HIDE DEF r
<1> QED
  BY <1>1, <1>8, <1>9, RequestMoves

LEMMA OtherSavesKeep ==
    ASSUME ModelInv, NEW i \in Id, NEW n \in ModelName, NEW bound \in SUBSET Upstreams,
           OtherSaves(i, n, bound)
    PROVE  ModelInv'
<1> DEFINE S == {[to |-> c, by |-> i] : c \in bound}
           r == SaveRequest(i, n, i, S)
<1>1. /\ UNCHANGED <<modelRows, routes, channels, made, mixed>>
      /\ modelPage' = modelPage /\ modelForm' = modelForm
      /\ req' = [req EXCEPT ![2] = r]
  BY DEF OtherSaves, Submit
<1>2. i \in 0..LastModelId
  BY ModelNumbers DEF KeysOfModels
<1>3. S \in SUBSET Binding /\ AllFor(S, i, made) /\ Once(S)
  BY <1>2 DEF Binding, AllFor, For, Once
<1> HIDE DEF S
<1>4. For(i, i, made)
  BY DEF For
<1>5. RequestFits(r, made)
  BY <1>2, <1>3, <1>4, AskedFits
<1>6. ShownFits(modelPage', made) /\ FormFits(modelForm', made) /\ 2 \in Slot
  BY <1>1, FormParts, PageParts DEF Slot
<1> HIDE DEF r
<1> QED
  BY <1>1, <1>5, <1>6, RequestMoves

LEMMA RequestParts ==
    ASSUME ModelInv, NEW s \in Slot
    PROVE  /\ RequestFits(req[s], made) /\ req[s] \in Requests
           /\ req[s].id \in 0..LastModelId /\ req[s].name \in ModelName \cup {"none"}
           /\ req[s].price \in 0..LastModelId /\ req[s].binds \in SUBSET Binding
           /\ req[s].entity \in ModelRecord /\ req[s].snap \in ModelRecord
           /\ For(req[s].price, req[s].id, made)
           /\ AllFor(req[s].binds, req[s].id, made) /\ Once(req[s].binds)
<1>1. RequestFits(req[s], made)
  BY DEF ModelInv
<1> QED
  BY <1>1 DEF RequestFits, Requests

\* A request that only goes on to its end.
LEMMA EndFits ==
    ASSUME NEW r, NEW created, RequestFits(r, created), NEW phase \in {"stored", "refused"}
    PROVE  RequestFits([r EXCEPT !.phase = phase], created)
<1>1. r \in Requests
  BY DEF RequestFits
<1>2. [r EXCEPT !.phase = phase] \in Requests
  BY <1>1 DEF Requests
<1>3. /\ [r EXCEPT !.phase = phase].phase = phase /\ [r EXCEPT !.phase = phase].id = r.id
      /\ [r EXCEPT !.phase = phase].price = r.price /\ [r EXCEPT !.phase = phase].binds = r.binds
  BY <1>1 DEF Requests
<1> QED
  BY <1>2, <1>3 DEF RequestFits

LEMMA HandlingKeeps ==
    ASSUME ModelInv, UNCHANGED <<modelPage, modelForm>>
    PROVE  ShownFits(modelPage', made) /\ FormFits(modelForm', made)
<1>1. modelPage' = modelPage /\ modelForm' = modelForm
  OBVIOUS
<1> QED
  BY <1>1, PageParts, FormParts

LEMMA FindRowKeeps ==
    ASSUME ModelInv, NEW s \in Slot, FindRow(s) PROVE ModelInv'
<1> DEFINE row == [here |-> TRUE, name |-> req[s].name, price |-> req[s].price,
                   shadow |-> req[s].binds]
           r == [req[s] EXCEPT !.phase = "begin", !.entity = row]
<1>1. /\ UNCHANGED <<modelRows, routes, channels, made, mixed>>
      /\ UNCHANGED <<modelPage, modelForm>>
      /\ \/ req' = [req EXCEPT ![s] = [req[s] EXCEPT !.phase = "refused"]]
         \/ req' = [req EXCEPT ![s] = r]
  BY DEF FindRow, Handling, ProceedTo, MoveOn
<1>2. ShownFits(modelPage', made) /\ FormFits(modelForm', made)
  BY <1>1, HandlingKeeps
<1>3. RequestFits([req[s] EXCEPT !.phase = "refused"], made)
  BY RequestParts, EndFits
<1>4. RequestFits(r, made)
  <2>1. row \in ModelRecord
    BY RequestParts DEF ModelRecord
  <2>2. row.here /\ row.price = req[s].price /\ row.shadow = req[s].binds
    OBVIOUS
  <2> HIDE DEF row
  <2>3. r \in Requests
    BY <2>1, RequestParts DEF Requests
  <2>4. /\ r.phase = "begin" /\ r.id = req[s].id /\ r.price = req[s].price
        /\ r.binds = req[s].binds /\ r.entity = row
    BY RequestParts DEF Requests
  <2> HIDE DEF r
  <2> QED
    BY <2>2, <2>3, <2>4, RequestParts DEF RequestFits
<1> HIDE DEF r
<1>5. CASE req' = [req EXCEPT ![s] = r]
  BY <1>1, <1>2, <1>4, <1>5, RequestMoves
<1>6. CASE req' = [req EXCEPT ![s] = [req[s] EXCEPT !.phase = "refused"]]
  BY <1>1, <1>2, <1>3, <1>6, RequestMoves
<1> QED
  BY <1>1, <1>5, <1>6

LEMMA SeeRowKeeps ==
    ASSUME ModelInv, NEW s \in Slot, SeeRow(s) PROVE ModelInv'
<1> DEFINE row == IF req[s].id = 0 THEN NoModelRow ELSE modelRows[req[s].id]
           r == [req[s] EXCEPT !.phase = "write", !.snap = row]
<1>1. /\ UNCHANGED <<modelRows, routes, channels, made, mixed>>
      /\ UNCHANGED <<modelPage, modelForm>>
      /\ req[s].phase = "begin"
      /\ req' = [req EXCEPT ![s] = r]
  BY DEF SeeRow, Handling, MoveOn
<1>2. ShownFits(modelPage', made) /\ FormFits(modelForm', made)
  BY <1>1, HandlingKeeps
<1>3. RequestFits(r, made)
  <2>1. row \in ModelRecord
    <3>1. CASE req[s].id = 0
      BY <3>1, NoModelFits
    <3>2. CASE req[s].id # 0
      BY <3>2, RequestParts, PageParts, ModelNumbers DEF KnownFits, ModelRows, KeysOfModels
    <3> QED
      BY <3>1, <3>2
  <2>2. req[s].id = 0 => ~row.here
    BY NoModelFits
  <2> HIDE DEF row
  <2>3. r \in Requests
    BY <2>1, RequestParts DEF Requests
  <2>4. /\ r.phase = "write" /\ r.id = req[s].id /\ r.price = req[s].price
        /\ r.binds = req[s].binds /\ r.entity = req[s].entity /\ r.snap = row
    BY RequestParts DEF Requests
  <2> HIDE DEF r
  <2> QED
    BY <1>1, <2>2, <2>3, <2>4, RequestParts DEF RequestFits
<1> HIDE DEF r
<1> QED
  BY <1>1, <1>2, <1>3, RequestMoves

LEMMA AnswerModelKeeps ==
    ASSUME ModelInv, NEW s \in Slot, AnswerModel(s) PROVE ModelInv'
<1>1. /\ UNCHANGED <<modelRows, routes, channels, made, mixed>>
      /\ req' = [req EXCEPT ![s] = NoReq]
      /\ \/ /\ modelForm' = [modelForm EXCEPT !.open = FALSE]
            /\ modelPage' = [modelPage EXCEPT !.rows = modelRows, !.routes = routes]
         \/ UNCHANGED <<modelForm, modelPage>>
  BY DEF AnswerModel, MoveOn
<1>2. ShownFits(modelPage', made)
  BY <1>1, PageShown, PageParts
<1>3. FormFits([modelForm EXCEPT !.open = FALSE], made)
  BY FormParts, FormClosed
<1>4. FormFits(modelForm', made)
  BY <1>1, <1>3, FormParts
<1>5. RequestFits(NoReq, made)
  BY NoModelFits
<1> QED
  BY <1>1, <1>2, <1>4, <1>5, RequestMoves

-----------------------------------------------------------------------------
\* One row with its routes is written: what must be true of the two for all that is kept.
LEMMA RowWritten ==
    ASSUME ModelInv, NEW i \in Id, NEW row \in ModelRecord, NEW binds \in SUBSET Binding,
           NEW more, NEW confused, made \subseteq more, more \subseteq Id,
           mixed \subseteq confused,
           modelRows' = [modelRows EXCEPT ![i] = row], routes' = [routes EXCEPT ![i] = binds],
           made' = more, mixed' = confused,
           UNCHANGED <<channels, modelPage, modelForm>>,
           row.here => For(row.price, i, more), AllFor(binds, i, more), Once(binds),
           binds # {} => row.here, \A b \in binds : b.to \in channels,
           row.here => ~NameTaken(row.name, i),
           row.here /\ i \notin confused => row.shadow = binds,
           req' \in [Slot -> Requests], \A s \in Slot : RequestFits(req'[s], more)
    PROVE  ModelInv'
<1>1. /\ channels \subseteq Upstreams /\ KnownFits(modelRows, routes, more)
      /\ Distinct(modelRows) /\ Bindable(modelRows, routes, channels)
      /\ Mirrored(modelRows, routes, mixed)
      /\ ShownFits(modelPage, more) /\ FormFits(modelForm, more)
  BY EnteredStays DEF ModelInv
<1>2. modelRows \in ModelRows /\ routes \in RoutesOf
  BY <1>1 DEF KnownFits
<1>3. /\ modelRows' \in ModelRows /\ routes' \in RoutesOf
      /\ \A j \in Id : /\ modelRows'[j] = IF j = i THEN row ELSE modelRows[j]
                       /\ routes'[j] = IF j = i THEN binds ELSE routes[j]
  BY <1>2 DEF ModelRows, RoutesOf
<1>4. KnownFits(modelRows', routes', more)
  BY <1>1, <1>3 DEF KnownFits
<1>5. Distinct(modelRows')
  <2> SUFFICES ASSUME NEW j \in Id, NEW k \in Id, modelRows'[j].here, modelRows'[k].here,
                      modelRows'[j].name = modelRows'[k].name
               PROVE  j = k
    BY DEF Distinct
  <2>1. CASE j # i /\ k # i
    BY <1>1, <1>3, <2>1 DEF Distinct
  <2>2. CASE j = i /\ k # i
    BY <1>3, <2>2 DEF NameTaken
  <2>3. CASE j # i /\ k = i
    BY <1>3, <2>3 DEF NameTaken
  <2> QED
    BY <2>1, <2>2, <2>3
<1>6. Bindable(modelRows', routes', channels)
  BY <1>1, <1>3 DEF Bindable
<1>7. Mirrored(modelRows', routes', confused)
  BY <1>1, <1>3 DEF Mirrored
<1>8. channels' = channels /\ modelPage' = modelPage /\ modelForm' = modelForm
      /\ made' = more /\ mixed' = confused
  OBVIOUS
<1> QED
  BY <1>1, <1>4, <1>5, <1>6, <1>7, <1>8 DEF ModelInv

\* What the transaction writes over the row as it then is.
LEMMA WrittenFits ==
    ASSUME NEW row \in ModelRecord, NEW entity \in ModelRecord, NEW snap \in ModelRecord, NEW i,
           NEW created, entity.here, For(entity.price, i, created),
           row.here => For(row.price, i, created)
    PROVE  /\ Written(row, entity, snap) \in ModelRecord
           /\ Written(row, entity, snap).here => For(Written(row, entity, snap).price, i, created)
           /\ Written(row, entity, snap).here /\ (snap.here => row = snap)
                 => Written(row, entity, snap).shadow = entity.shadow
<1>1. CASE ~snap.here
  BY <1>1 DEF Written
<1>2. CASE snap.here /\ ~row.here
  <2>1. Written(row, entity, snap) = row
    BY <1>2 DEF Written
  <2> QED
    BY <1>2, <2>1
<1>3. CASE snap.here /\ row.here
  <2> DEFINE new ==
        [here |-> TRUE, name |-> IF entity.name = snap.name THEN row.name ELSE entity.name,
         price |-> IF entity.price = snap.price THEN row.price ELSE entity.price,
         shadow |-> IF entity.shadow = snap.shadow THEN row.shadow ELSE entity.shadow]
  <2>1. Written(row, entity, snap) = new
    BY <1>3 DEF Written
  <2>2. new \in ModelRecord
    BY DEF ModelRecord
  <2>3. For(new.price, i, created)
    BY <1>3
  <2>4. row = snap => new.shadow = entity.shadow
    OBVIOUS
  <2> HIDE DEF new
  <2> QED
    BY <1>3, <2>1, <2>2, <2>3, <2>4
<1> QED
  BY <1>1, <1>2, <1>3

LEMMA WriteKeeps ==
    ASSUME ModelInv, NEW s \in Slot, WriteModel(s) PROVE ModelInv'
<1> DEFINE r == req[s]
<1>1. /\ r.phase = "write" /\ UNCHANGED <<channels, modelPage>> /\ modelForm' = modelForm
  BY DEF WriteModel, Handling
<1>2. /\ RequestFits(r, made) /\ r \in Requests /\ r.id \in 0..LastModelId
      /\ r.binds \in SUBSET Binding /\ r.entity \in ModelRecord /\ r.snap \in ModelRecord
      /\ For(r.price, r.id, made) /\ AllFor(r.binds, r.id, made) /\ Once(r.binds)
  BY RequestParts
<1>3. /\ r.entity.here /\ r.entity.price = r.price /\ r.entity.shadow = r.binds
      /\ r.id = 0 => ~r.snap.here
  BY <1>1, <1>2 DEF RequestFits
<1>4. PICK i \in IF r.id = 0 THEN FreshRow ELSE {r.id} :
        LET new == Written(modelRows[i], r.entity, r.snap)
        IN IF Consistent(new, i, r.binds)
           THEN /\ modelRows' = [modelRows EXCEPT ![i] = new]
                /\ routes' = [routes EXCEPT ![i] = r.binds]
                /\ made' = IF r.id = 0 THEN made \cup {i} ELSE made
                /\ mixed' = IF r.id # 0 /\ modelRows[i] # r.snap THEN mixed \cup {i} ELSE mixed
                /\ req' = [req EXCEPT ![s] = [r EXCEPT !.phase = "stored"]]
           ELSE /\ req' = [req EXCEPT ![s] = [r EXCEPT !.phase = "refused"]]
                /\ UNCHANGED <<modelRows, routes, made, mixed>>
  BY DEF WriteModel, SavedRow, Commits, ProceedTo, MoveOn
<1>5. i \in Id
  BY <1>2, ModelNumbers DEF KeysOfModels, FreshRow
<1> DEFINE new == Written(modelRows[i], r.entity, r.snap)
           more == IF r.id = 0 THEN made \cup {i} ELSE made
           confused == IF r.id # 0 /\ modelRows[i] # r.snap THEN mixed \cup {i} ELSE mixed
           done == [r EXCEPT !.phase = "stored"]
<1>6. CASE Consistent(new, i, r.binds)
  <2>1. /\ modelRows' = [modelRows EXCEPT ![i] = new] /\ routes' = [routes EXCEPT ![i] = r.binds]
        /\ made' = more /\ mixed' = confused /\ req' = [req EXCEPT ![s] = done]
    BY <1>4, <1>6
  <2>2. made \subseteq more /\ more \subseteq Id /\ mixed \subseteq confused
    BY <1>5 DEF ModelInv
  <2>3. For(r.price, i, more) /\ AllFor(r.binds, i, more)
    <3>1. CASE r.id = 0
      BY <1>2, <3>1, ModelNumbers DEF For, AllFor
    <3>2. CASE r.id # 0
      BY <1>2, <1>4, <3>2
    <3> QED
      BY <3>1, <3>2
  <2>4. modelRows[i] \in ModelRecord /\ (modelRows[i].here => For(modelRows[i].price, i, more))
    BY <1>5, <2>2, PageParts, EnteredStays DEF KnownFits, ModelRows
  <2>5. (r.snap.here /\ i \notin confused) => modelRows[i] = r.snap
    BY <1>3
  <2>6. /\ new \in ModelRecord /\ (new.here => For(new.price, i, more))
        /\ new.here /\ (r.snap.here => modelRows[i] = r.snap) => new.shadow = r.entity.shadow
    BY <1>2, <1>3, <2>3, <2>4, WrittenFits
  <2>8. /\ req \in [Slot -> Requests] /\ \A t \in Slot : RequestFits(req[t], more)
    BY <2>2, EnteredStays DEF ModelInv
  <2>9. RequestFits(done, more)
    BY <2>8, EndFits
  <2>10. done \in Requests
    BY <2>9 DEF RequestFits
  <2>11. req' \in [Slot -> Requests] /\ \A t \in Slot : RequestFits(req'[t], more)
    BY <2>1, <2>8, <2>9, <2>10
  <2>12. UNCHANGED <<channels, modelPage, modelForm>>
    BY <1>1
  <2>13. new.here /\ i \notin confused => new.shadow = r.binds
    BY <1>3, <2>5, <2>6
  <2>14. /\ r.binds # {} => new.here
         /\ \A b \in r.binds : b.to \in channels
         /\ new.here => ~NameTaken(new.name, i)
    BY <1>6 DEF Consistent
  <2> HIDE DEF new, more, confused, done
  <2> QED
    BY <1>2, <1>5, <2>1, <2>2, <2>3, <2>6, <2>11, <2>12, <2>13, <2>14, RowWritten
<1>7. CASE ~Consistent(new, i, r.binds)
  <2>1. /\ req' = [req EXCEPT ![s] = [r EXCEPT !.phase = "refused"]]
        /\ UNCHANGED <<modelRows, routes, made, mixed>>
    BY <1>4, <1>7
  <2>2. RequestFits([r EXCEPT !.phase = "refused"], made)
    BY <1>2, EndFits
  <2>3. ShownFits(modelPage', made) /\ FormFits(modelForm', made)
    BY <1>1, HandlingKeeps
  <2>4. UNCHANGED <<modelRows, routes, channels, made, mixed>>
    BY <1>1, <2>1
  <2> QED
    BY <2>1, <2>2, <2>3, <2>4, RequestMoves
<1> QED
  BY <1>6, <1>7

LEMMA RemoveKeeps ==
    ASSUME ModelInv, NEW s \in Slot, NEW i \in Id, RemoveModelRow(s, i) PROVE ModelInv'
<1>1. /\ modelRows' = [modelRows EXCEPT ![i] = NoModelRow] /\ routes' = [routes EXCEPT ![i] = {}]
      /\ UNCHANGED <<channels, modelPage, modelForm>> /\ made' = made /\ mixed' = mixed
      /\ req' = req
  BY DEF RemoveModelRow
<1>2. NoModelRow \in ModelRecord /\ ~NoModelRow.here
  BY NoModelFits
<1>3. {} \in SUBSET Binding /\ AllFor({}, i, made) /\ Once({})
  BY DEF AllFor, Once
<1>4. /\ made \subseteq Id /\ req' \in [Slot -> Requests]
      /\ \A t \in Slot : RequestFits(req'[t], made)
  BY <1>1 DEF ModelInv
<1> QED
  BY <1>1, <1>2, <1>3, <1>4, RowWritten

LEMMA ChannelGoes ==
    ASSUME ModelInv, NEW c \in Upstreams, OtherRemovesChannel(c) PROVE ModelInv'
<1>1. /\ channels' = channels \ {c} /\ \A i \in Id : c \notin {b.to : b \in routes[i]}
      /\ modelRows' = modelRows /\ routes' = routes /\ made' = made /\ modelPage' = modelPage
      /\ modelForm' = modelForm /\ req' = req /\ mixed' = mixed
  BY DEF OtherRemovesChannel
<1>2. Bindable(modelRows, routes, channels) /\ channels \subseteq Upstreams
  BY DEF ModelInv
<1>3. Bindable(modelRows, routes, channels')
  BY <1>1, <1>2 DEF Bindable
<1>4. channels' \subseteq Upstreams
  BY <1>1, <1>2
<1> QED
  BY <1>1, <1>3, <1>4 DEF ModelInv

LEMMA ModelStays ==
    ASSUME ModelInv, UNCHANGED modelPageVars PROVE ModelInv'
<1>1. /\ modelRows' = modelRows /\ routes' = routes /\ channels' = channels
      /\ made' = made /\ modelPage' = modelPage /\ modelForm' = modelForm
      /\ req' = req /\ mixed' = mixed
  BY DEF modelPageVars
<1> QED
  BY <1>1 DEF ModelInv

LEMMA ModelStep ==
    ASSUME ModelInv, [ModelPageNext]_modelPageVars PROVE ModelInv'
BY LoadKeeps, OpenNewKeeps, OpenModelKeeps, TypeNameKeeps, AddBindingKeeps, ChooseKeeps,
   DropKeeps, PressKeeps, OtherSavesKeep, FindRowKeeps, SeeRowKeeps, WriteKeeps, AnswerModelKeeps,
   RemoveKeeps, ChannelGoes, ModelStays DEF ModelPageNext

-----------------------------------------------------------------------------
\* What an administrator is told of a route is what requests meet; no route leads to a
\* channel that is gone or twice to one; an address, a key, a price or a binding typed in
\* one dialog is never stored in another row, and the keys of a channel outlive a save
\* that typed none; the column for the older image says what the routes say: for any
\* channels, protocols, models and names, and any number of calls under way, lost or
\* overtaken (model-route.store.ts:49, channel.module.ts:159, 172, 196, Models.vue:381).
THEOREM RoutesAreTold == RoutingSpec => RoutingHolds
<1>1. DiagnosisInv => DiagnosisIsRouting /\ WorstPathShown
  BY DiagnosisHolding
<1>2. DiagnosisInv /\ [DiagnosisNext]_diagnosisVars => DiagnosisInv'
  BY DiagnosisStep
<1>3. ChannelInv => RoutedStay /\ ValuesStayHome
  BY ChannelsHolding
<1>4. ChannelInv /\ Removing /\ [ChannelPageNext]_channelPageVars => ChannelInv' /\ Removing'
  BY ChannelStep, RemovingStep
<1>5. ChannelInv /\ [ChannelPageNext]_channelPageVars =>
        /\ [\A c \in ChannelId :
              chan[c].keys # chan'[c].keys /\ saveCall.phase = "save"
                 /\ saveCall'.phase = "stored"
                   => saveCall.form.keys = chan'[c].keys \/ saveCall.disturbed]_channelPageVars
        /\ [testVerdict' = "works" /\ testCall.phase = "answered" /\ testCall'.phase = "idle"
              => testCall.answers = {"fine"}]_channelPageVars
  BY KeysHold, WorksHold DEF KeysHeld, WorksHeld
<1>6. ModelInv => RoutesAreSound /\ ShadowIsRoutes /\ PricesStayHome
  BY ModelsHolding
<1>7. ModelInv /\ [ModelPageNext]_modelPageVars => ModelInv'
  BY ModelStep
<1> QED
  BY <1>1, <1>2, <1>3, <1>4, <1>5, <1>6, <1>7, DiagnosisStart, ChannelStart, RemovingStart,
     ModelStart, PTL
     DEF RoutingSpec, RoutingHolds, DiagnosisSpec, ChannelPageSpec, ModelPageSpec,
         KeysAreKept, WorksMeansAll
=============================================================================
