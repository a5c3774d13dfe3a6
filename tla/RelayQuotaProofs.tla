-------------------------- MODULE RelayQuotaProofs --------------------------
(***************************************************************************)
(* Proofs about RelayQuota, for any set of requests, prices and quotas and *)
(* any number of months.                                                   *)
(***************************************************************************)
EXTENDS RelayQuota, Sums

\* What a settlement leaves is money, and it is more than before only within
\* the quota.
LEMMA SettledUsageBound ==
    ASSUME NEW quota \in Nat, NEW used \in Nat, NEW delta \in Int
    PROVE  /\ SettledUsage(quota, used, delta) \in Nat
           /\ SettledUsage(quota, used, delta) > used =>
                 SettledUsage(quota, used, delta) <= quota
<1> QED
  BY DEF SettledUsage, Overdraws

LEMMA QuotaIsMoney ==
    ASSUME QuotaTypeOK, NEW p \in Period
    PROVE  MonthlyQuota(p) \in Nat
<1>1. baseQuota \in Nat /\ temporary[p] \in Nat
  BY MoneyAssumption DEF QuotaTypeOK
<1> QED
  BY <1>1 DEF MonthlyQuota

LEMMA RequestTyped ==
    ASSUME QuotaTypeOK, NEW r \in Request
    PROVE  /\ request[r] \in RequestState
           /\ request[r].period \in Period /\ request[r].charged \in Period
           /\ request[r].estimate \in Price /\ request[r].estimate \in Nat
           /\ request[r].actual \in Price /\ request[r].actual \in Nat
           /\ request[r].counted \in Price
           /\ request[r].exempt \in {"no", "reserved", "lapsed"}
<1>1. request[r] \in RequestState
  BY DEF QuotaTypeOK
<1> QED
  BY <1>1, MoneyAssumption DEF RequestState

\* A request's new context is typed when its parts are.
LEMMA RequestUpdate ==
    ASSUME QuotaTypeOK, NEW r \in Request, NEW next \in RequestState,
           request' = [request EXCEPT ![r] = next]
    PROVE  request' \in [Request -> RequestState]
<1> QED
  BY DEF QuotaTypeOK

\* A charge is money of its month, and stays within the quota.
LEMMA ChargeBound ==
    ASSUME QuotaTypeOK, NEW r \in Request, Fits(r), Charge(r)
    PROVE  /\ ledger' \in [Period -> Nat]
           /\ \A p \in Period : ledger'[p] > ledger[p] => ledger'[p] <= MonthlyQuota(p)
<1> DEFINE m == request[r].period
           estimate == request[r].estimate
<1>1. m \in Period /\ estimate \in Nat /\ ledger[m] \in Nat /\ MonthlyQuota(m) \in Nat
  BY RequestTyped, QuotaIsMoney DEF QuotaTypeOK
<1>2. ledger' = [ledger EXCEPT ![m] = ledger[m] + estimate]
  BY DEF Charge
<1>3. estimate <= 0 \/ ledger[m] + estimate <= MonthlyQuota(m)
  BY DEF Fits, AllowsReservation
<1> HIDE DEF m, estimate
<1>4. ledger[m] + estimate \in Nat
  BY <1>1
<1>5. ledger' \in [Period -> Nat]
  BY <1>1, <1>2, <1>4 DEF QuotaTypeOK
<1>6. /\ ledger'[m] = ledger[m] + estimate
      /\ \A p \in Period \ {m} : ledger'[p] = ledger[p]
  BY <1>1, <1>2 DEF QuotaTypeOK
<1>7. ASSUME NEW p \in Period, ledger'[p] > ledger[p]
      PROVE  ledger'[p] <= MonthlyQuota(p)
  <2>1. ledger[p] \in Nat
    BY DEF QuotaTypeOK
  <2>2. p = m
    BY <1>6, <1>7, <2>1
  <2> QED
    BY <1>1, <1>3, <1>6, <1>7, <2>2
<1> QED
  BY <1>5, <1>7

\* So is a settlement.
LEMMA SettleBound ==
    ASSUME QuotaTypeOK, NEW r \in Request, NEW delta \in Int,
           ledger' = [ledger EXCEPT ![request[r].period] =
               SettledUsage(MonthlyQuota(request[r].period), ledger[request[r].period], delta)]
    PROVE  /\ ledger' \in [Period -> Nat]
           /\ \A p \in Period : ledger'[p] > ledger[p] => ledger'[p] <= MonthlyQuota(p)
<1> DEFINE m == request[r].period
           settled == SettledUsage(MonthlyQuota(m), ledger[m], delta)
<1>1. m \in Period /\ ledger[m] \in Nat /\ MonthlyQuota(m) \in Nat
  BY RequestTyped, QuotaIsMoney DEF QuotaTypeOK
<1>2. settled \in Nat /\ (settled > ledger[m] => settled <= MonthlyQuota(m))
  BY <1>1, SettledUsageBound
<1>3. ledger' = [ledger EXCEPT ![m] = settled]
  OBVIOUS
<1> HIDE DEF m, settled
<1>4. ledger' \in [Period -> Nat]
  BY <1>1, <1>2, <1>3 DEF QuotaTypeOK
<1>5. /\ ledger'[m] = settled
      /\ \A p \in Period \ {m} : ledger'[p] = ledger[p]
  BY <1>1, <1>3 DEF QuotaTypeOK
<1>6. ASSUME NEW p \in Period, ledger'[p] > ledger[p]
      PROVE  ledger'[p] <= MonthlyQuota(p)
  <2>1. ledger[p] \in Nat
    BY DEF QuotaTypeOK
  <2>2. p = m
    BY <1>5, <1>6, <2>1
  <2> QED
    BY <1>2, <1>5, <1>6, <2>2
<1> QED
  BY <1>4, <1>6

-----------------------------------------------------------------------------
LEMMA TypeInit == QuotaInit => QuotaTypeOK
<1> SUFFICES ASSUME QuotaInit PROVE QuotaTypeOK
  OBVIOUS
<1>1. 1 \in Period
  BY PeriodAssumption DEF Period
<1>2. NewRequest \in RequestState
  BY <1>1, MoneyAssumption DEF NewRequest, RequestState
<1> QED
  BY <1>1, <1>2, MoneyAssumption DEF QuotaInit, QuotaTypeOK

\* Every step keeps the types and raises a month only within its quota.
LEMMA StepSafe ==
    ASSUME QuotaTypeOK, [QuotaNext]_quotaVars
    PROVE  /\ QuotaTypeOK'
           /\ \A p \in Period : ledger'[p] > ledger[p] => ledger'[p] <= MonthlyQuota(p)
<1> DEFINE Within == \A p \in Period : ledger'[p] > ledger[p] => ledger'[p] <= MonthlyQuota(p)
<1>0. ledger' = ledger => Within /\ ledger' \in [Period -> Nat]
  <2>1. \A p \in Period : ledger[p] \in Nat
    BY DEF QuotaTypeOK
  <2> QED
    BY <2>1 DEF QuotaTypeOK
<1> HIDE DEF Within
<1>1. ASSUME NEW r \in Request, Reject(r) \/ SettleFails(r)
      PROVE  QuotaTypeOK' /\ Within
  <2> DEFINE next == [request[r] EXCEPT !.phase = "done"]
  <2>1. next \in RequestState
    BY RequestTyped DEF RequestState
  <2>2. request' = [request EXCEPT ![r] = next]
    BY <1>1 DEF Reject, SettleFails
  <2> HIDE DEF next
  <2>3. request' \in [Request -> RequestState]
    BY <2>1, <2>2, RequestUpdate
  <2> QED
    BY <1>0, <1>1, <2>3 DEF Reject, SettleFails, QuotaTypeOK, account
<1>2. ASSUME NEW r \in Request, NEW estimate \in Price, Begin(r, estimate)
      PROVE  QuotaTypeOK' /\ Within
  <2> DEFINE next == [request[r] EXCEPT
                !.phase = IF estimate <= 0 THEN "open" ELSE "reserving",
                !.period = thisMonth, !.charged = thisMonth, !.estimate = estimate]
  <2>1. thisMonth \in Period
    BY DEF QuotaTypeOK
  <2>2. next \in RequestState
    BY <2>1, RequestTyped DEF RequestState
  <2>3. request' = [request EXCEPT ![r] = next]
    BY <1>2 DEF Begin
  <2> HIDE DEF next
  <2>4. request' \in [Request -> RequestState]
    BY <2>2, <2>3, RequestUpdate
  <2> QED
    BY <1>0, <1>2, <2>4 DEF Begin, QuotaTypeOK, account
<1>3. ASSUME NEW r \in Request, Reserve(r) \/ ReserveThrows(r)
      PROVE  QuotaTypeOK' /\ Within
  <2>1. UNCHANGED <<thisMonth, role, baseQuota, temporary>>
    BY <1>3 DEF Reserve, ReserveThrows, account
  <2>2. ASSUME NEW phase \in {"open", "lost"}, Fits(r), Charge(r),
               request' = [request EXCEPT ![r].phase = phase,
                                          ![r].counted = request[r].estimate]
        PROVE  QuotaTypeOK' /\ Within
    <3> DEFINE next == [request[r] EXCEPT !.phase = phase, !.counted = request[r].estimate]
    <3>1. next \in RequestState
      BY RequestTyped DEF RequestState
    <3>2. request' = [request EXCEPT ![r] = next]
      BY <2>2
    <3> HIDE DEF next
    <3>3. request' \in [Request -> RequestState]
      BY <3>1, <3>2, RequestUpdate
    <3>4. Within /\ ledger' \in [Period -> Nat]
      BY <2>2, ChargeBound DEF Within
    <3> QED
      BY <2>1, <3>3, <3>4 DEF QuotaTypeOK
  <2>3. ASSUME NEW phase \in {"open", "done", "lost"}, ledger' = ledger,
               NEW exempt \in {request[r].exempt, "reserved"},
               request' = [request EXCEPT ![r].phase = phase, ![r].exempt = exempt]
        PROVE  QuotaTypeOK' /\ Within
    <3> DEFINE next == [request[r] EXCEPT !.phase = phase, !.exempt = exempt]
    <3>1. next \in RequestState
      BY RequestTyped DEF RequestState
    <3>2. request' = [request EXCEPT ![r] = next]
      BY <2>3
    <3> HIDE DEF next
    <3>3. request' \in [Request -> RequestState]
      BY <3>1, <3>2, RequestUpdate
    <3> QED
      BY <1>0, <2>1, <2>3, <3>3 DEF QuotaTypeOK
  <2>4. ASSUME NEW phase \in {"done", "lost"}, ledger' = ledger,
               request' = [request EXCEPT ![r].phase = phase]
        PROVE  QuotaTypeOK' /\ Within
    <3>1. request' = [request EXCEPT ![r].phase = phase, ![r].exempt = request[r].exempt]
      BY <2>4 DEF QuotaTypeOK, RequestState
    <3> QED
      BY <2>3, <2>4, <3>1
  <2> QED
    BY <1>3, <2>2, <2>3, <2>4 DEF Reserve, ReserveThrows
<1>4. ASSUME NEW r \in Request, NEW actual \in Price, Finish(r, actual)
      PROVE  QuotaTypeOK' /\ Within
  <2> DEFINE next == [request[r] EXCEPT
                !.phase = IF actual = request[r].estimate THEN "done" ELSE "settling",
                !.period = thisMonth, !.actual = actual]
  <2>1. thisMonth \in Period
    BY DEF QuotaTypeOK
  <2>2. next \in RequestState
    BY <2>1, RequestTyped DEF RequestState
  <2>3. request' = [request EXCEPT ![r] = next]
    BY <1>4 DEF Finish
  <2> HIDE DEF next
  <2>4. request' \in [Request -> RequestState]
    BY <2>2, <2>3, RequestUpdate
  <2> QED
    BY <1>0, <1>4, <2>4 DEF Finish, QuotaTypeOK, account
<1>5. ASSUME NEW r \in Request, Settle(r)
      PROVE  QuotaTypeOK' /\ Within
  <2> DEFINE m == request[r].period
             delta == request[r].actual - request[r].estimate
  <2>1. m \in Period /\ delta \in Int
    BY RequestTyped
  <2>2. CASE role = "unlimited" /\ ledger' = ledger
                /\ request' = [request EXCEPT ![r].phase = "done"]
    <3>1. [request[r] EXCEPT !.phase = "done"] \in RequestState
      BY RequestTyped DEF RequestState
    <3>2. request' \in [Request -> RequestState]
      BY <2>2, <3>1, RequestUpdate
    <3> QED
      BY <1>0, <1>5, <2>2, <3>2 DEF Settle, QuotaTypeOK, account
  <2>3. CASE /\ ledger' = [ledger EXCEPT ![m] = SettledUsage(MonthlyQuota(m), ledger[m], delta)]
             /\ request' = [request EXCEPT
                   ![r].phase = "done",
                   ![r].charged = IF request[r].counted = 0 THEN m ELSE @,
                   ![r].counted = IF Overdraws(MonthlyQuota(m), ledger[m], delta)
                                  THEN @ ELSE request[r].actual,
                   ![r].exempt = IF @ = "reserved" THEN "lapsed" ELSE @]
    <3> DEFINE next == [request[r] EXCEPT
                  !.phase = "done",
                  !.charged = IF request[r].counted = 0 THEN m ELSE request[r].charged,
                  !.counted = IF Overdraws(MonthlyQuota(m), ledger[m], delta)
                              THEN request[r].counted ELSE request[r].actual,
                  !.exempt = IF request[r].exempt = "reserved" THEN "lapsed"
                             ELSE request[r].exempt]
    <3>1. next \in RequestState
      BY <2>1, RequestTyped DEF RequestState
    <3>2. request' = [request EXCEPT ![r] = next]
      BY <2>3
    <3> HIDE DEF next
    <3>3. request' \in [Request -> RequestState]
      BY <3>1, <3>2, RequestUpdate
    <3>4. Within /\ ledger' \in [Period -> Nat]
      BY <2>1, <2>3, SettleBound DEF Within
    <3> QED
      BY <1>5, <3>3, <3>4 DEF Settle, QuotaTypeOK, account
  <2> QED
    BY <1>5, <2>2, <2>3 DEF Settle
<1>6. ASSUME NEW served \in SUBSET Request, Crash(served)
      PROVE  QuotaTypeOK' /\ Within
  <2>1. \A r \in Request : [request[r] EXCEPT !.phase = "lost"] \in RequestState
    BY RequestTyped DEF RequestState
  <2>2. request' \in [Request -> RequestState]
    BY <1>6, <2>1 DEF Crash, QuotaTypeOK
  <2> QED
    BY <1>0, <1>6, <2>2 DEF Crash, QuotaTypeOK, account
<1>7. CASE NextMonth
  BY <1>0, <1>7, PeriodAssumption DEF NextMonth, QuotaTypeOK, account, Period
<1>8. ASSUME NEW change \in RoleChange, ChangeRole(change[1], change[2])
      PROVE  QuotaTypeOK' /\ Within
  <2>1. change[2] \in {"limited", "unlimited"}
    BY RoleAssumption
  <2> QED
    BY <1>0, <1>8, <2>1 DEF ChangeRole, QuotaTypeOK
<1>9. ASSUME NEW quota \in Quota, ChangeBase(quota)
      PROVE  QuotaTypeOK' /\ Within
  BY <1>0, <1>9 DEF ChangeBase, QuotaTypeOK
<1>10. ASSUME NEW p \in Period, NEW quota \in Quota, SetTemporary(p, quota)
       PROVE  QuotaTypeOK' /\ Within
  BY <1>0, <1>10 DEF SetTemporary, QuotaTypeOK
<1>11. CASE UNCHANGED quotaVars
  BY <1>0, <1>11 DEF quotaVars, account, QuotaTypeOK
<1> QED
  BY <1>1, <1>2, <1>3, <1>4, <1>5, <1>6, <1>7, <1>8, <1>9, <1>10, <1>11 DEF QuotaNext, Within

\* Every ledger is a non-negative amount in every reachable state: no order of
\* refunds, months and role changes takes it below zero.
THEOREM QuotaTypeCorrect == QuotaSpec => []QuotaTypeOK
<1>1. QuotaTypeOK /\ [QuotaNext]_quotaVars => QuotaTypeOK'
  BY StepSafe
<1> QED
  BY <1>1, TypeInit, PTL DEF QuotaSpec

\* For any number of requests, months, crashes and quota changes, a step never
\* raises the ledger above the quota in force.
THEOREM QuotaNeverOverdrawn == QuotaSpec => NeverRaisedAboveQuota
<1>1. QuotaTypeOK /\ [QuotaNext]_quotaVars =>
        [\A p \in Period : ledger'[p] > ledger[p] => ledger'[p] <= MonthlyQuota(p)]_quotaVars
  BY StepSafe
<1> QED
  BY <1>1, QuotaTypeCorrect, PTL DEF QuotaSpec, NeverRaisedAboveQuota

-----------------------------------------------------------------------------
(* The balance.  A request whose settlement falls into another month than  *)
(* its reservation leaves both months wrong, and one that gives back what  *)
(* was not charged leaves its month wrong; until there is one, every       *)
(* month's ledger is the sum of what its requests hold.                    *)

\* A request that took nothing from the month it began in can still be settled
\* rightly in the next one.
Astray(r) ==
    \/ request[r].exempt = "lapsed"
    \/ /\ request[r].period # request[r].charged
       /\ ~(request[r].phase \in {"settling", "lost"} /\ request[r].counted = 0)

\* What a request holds of its month while it is open: its whole estimate, unless
\* the user was unlimited when it was reserved.
HoldsEstimate(r) ==
    /\ request[r].phase \in {"new", "reserving"} => request[r].counted = 0
    /\ request[r].phase \in {"new", "reserving", "open"} =>
          request[r].period = request[r].charged
    /\ request[r].phase \in {"new", "reserving"} => request[r].exempt = "no"
    /\ request[r].phase # "done" => request[r].exempt # "lapsed"
    /\ request[r].phase \in {"open", "settling"} /\ request[r].exempt = "no" =>
          request[r].counted = request[r].estimate

BalanceInv ==
    /\ \A r \in Request : HoldsEstimate(r)
    /\ (\A r \in Request : ~Astray(r)) => LedgerBalanced

LEMMA BalanceIsSum ==
    LedgerBalanced <=> \A p \in Period : ledger[p] = Sum(Booked(p), Request)
BY DEF LedgerBalanced, Sum, MapThenSumSet, MapThenFoldSet

LEMMA BookedTyped ==
    ASSUME QuotaTypeOK, NEW p \in Period, NEW r \in Request
    PROVE  Booked(p)[r] \in Int /\ Booked(p)[r] >= 0
<1>1. request[r].counted \in Nat
  BY RequestTyped, MoneyAssumption
<1> QED
  BY <1>1 DEF Booked

\* Nobody holds more of a month than its ledger.
LEMMA HeldWithinLedger ==
    ASSUME QuotaTypeOK, LedgerBalanced, NEW r \in Request
    PROVE  request[r].counted <= ledger[request[r].charged]
<1> DEFINE p == request[r].charged
           f == Booked(p)
<1>1. p \in Period
  BY RequestTyped
<1>2. \A x \in Request : f[x] \in Int /\ f[x] >= 0
  BY <1>1, BookedTyped
<1>3. ledger[p] = Sum(f, Request)
  BY <1>1, BalanceIsSum
<1>4. f[r] = request[r].counted
  BY DEF Booked
<1> HIDE DEF f
<1>5. f[r] <= Sum(f, Request)
  BY <1>2, RequestAssumption, SumPart
<1> QED
  BY <1>3, <1>4, <1>5

\* A step that changes one request, and the ledgers by what it changes there.
LEMMA OneRequestMoves ==
    ASSUME QuotaTypeOK, QuotaTypeOK', LedgerBalanced, NEW r \in Request,
           \A s \in Request \ {r} : request'[s] = request[s],
           \A p \in Period : ledger'[p] = ledger[p] + Booked(p)'[r] - Booked(p)[r]
    PROVE  LedgerBalanced'
<1> SUFFICES ASSUME NEW p \in Period PROVE ledger'[p] = Sum(Booked(p)', Request)
  BY DEF LedgerBalanced, Sum, MapThenSumSet, MapThenFoldSet
<1> DEFINE f == Booked(p)
           g == Booked(p)'
<1>1. \A x \in Request : f[x] \in Int
  BY BookedTyped
<1>2. \A x \in Request : g[x] \in Int
  <2>1. \A x \in Request : request'[x].counted \in Nat
    BY MoneyAssumption DEF QuotaTypeOK, RequestState
  <2> QED
    BY <2>1 DEF Booked
<1>3. \A x \in Request \ {r} : f[x] = g[x]
  BY DEF Booked
<1>4. ledger[p] = Sum(f, Request)
  BY BalanceIsSum
<1> HIDE DEF f, g
<1>5. Sum(g, Request) = Sum(f, Request) + g[r] - f[r]
  BY <1>1, <1>2, <1>3, RequestAssumption, SumChange
<1>6. ledger'[p] = ledger[p] + g[r] - f[r]
  BY DEF f, g
<1> QED
  BY <1>4, <1>5, <1>6 DEF g

\* A step that leaves what is held, and the ledgers.
LEMMA NothingMoves ==
    ASSUME QuotaTypeOK, QuotaTypeOK', LedgerBalanced, ledger' = ledger,
           \A s \in Request : /\ request'[s].counted = request[s].counted
                              /\ request'[s].charged = request[s].charged
    PROVE  LedgerBalanced'
<1> SUFFICES ASSUME NEW p \in Period PROVE ledger'[p] = Sum(Booked(p)', Request)
  BY DEF LedgerBalanced, Sum, MapThenSumSet, MapThenFoldSet
<1>1. Booked(p)' = Booked(p)
  BY DEF Booked
<1> QED
  BY <1>1, BalanceIsSum

\* A settlement in the month of the reservation, or of a request that reserved
\* nothing, moves the ledger by what the request is settled at: no refund is
\* clamped at zero, for the ledger holds at least what is given back.
LEMMA SettlesRightly ==
    ASSUME QuotaTypeOK, BalanceInv, NEW r \in Request, Settle(r), role = "limited",
           LedgerBalanced, ~Astray(r), ~Astray(r)'
    PROVE  \A p \in Period : ledger'[p] = ledger[p] + Booked(p)'[r] - Booked(p)[r]
<1> DEFINE m == request[r].period
           estimate == request[r].estimate
           actual == request[r].actual
           counted == request[r].counted
           charged == request[r].charged
           dropped == Overdraws(MonthlyQuota(m), ledger[m], actual - estimate)
           left == IF dropped THEN counted ELSE actual
<1>1. /\ m \in Period /\ charged \in Period /\ MonthlyQuota(m) \in Nat
      /\ estimate \in Nat /\ actual \in Nat /\ counted \in Nat
      /\ \A p \in Period : ledger[p] \in Nat
  BY RequestTyped, QuotaIsMoney, MoneyAssumption DEF QuotaTypeOK
<1>2. counted = estimate
  <2>1. request[r].exempt # "reserved"
    BY DEF Settle, Astray, QuotaTypeOK, RequestState
  <2>2. request[r].exempt = "no"
    BY <2>1, RequestTyped DEF Astray
  <2> QED
    BY <2>2 DEF Settle, BalanceInv, HoldsEstimate
<1>3. m = charged \/ counted = 0
  BY DEF Settle, Astray
<1>4. counted <= ledger[charged]
  BY HeldWithinLedger
<1>5. SettledUsage(MonthlyQuota(m), ledger[m], actual - estimate) = ledger[m] + left - counted
  <2>1. counted <= ledger[m]
    BY <1>1, <1>3, <1>4
  <2>2. ledger[m] + (actual - estimate) >= 0
    BY <1>1, <1>2, <2>1
  <2> HIDE DEF m, estimate, actual, counted
  <2> QED
    BY <1>1, <1>2, <2>2 DEF SettledUsage
<1>6. ledger' = [ledger EXCEPT ![m] =
                    SettledUsage(MonthlyQuota(m), ledger[m], actual - estimate)]
  BY DEF Settle
<1>7. /\ request'[r].charged = IF counted = 0 THEN m ELSE charged
      /\ request'[r].counted = left
  BY RequestTyped DEF Settle, QuotaTypeOK, RequestState
<1>8. request'[r].charged = m
  BY <1>3, <1>7
<1>9. ASSUME NEW p \in Period
      PROVE  /\ Booked(p)'[r] = IF p = m THEN left ELSE 0
             /\ Booked(p)[r] = IF p = m THEN counted ELSE 0
  <2>1. Booked(p)'[r] = IF p = m THEN left ELSE 0
    BY <1>7, <1>8 DEF Booked
  <2>2. Booked(p)[r] = IF p = charged THEN counted ELSE 0
    BY DEF Booked
  <2> QED
    BY <1>3, <2>1, <2>2
<1> HIDE DEF m, estimate, actual, counted, charged, dropped
<1>10. left \in Nat
  BY <1>1
<1>11. ledger \in [Period -> Nat]
  BY DEF QuotaTypeOK
<1> HIDE DEF left
<1> TAKE p \in Period
<1>12. ledger'[p] = IF p = m THEN ledger[m] + left - counted ELSE ledger[p]
  BY <1>1, <1>5, <1>6, <1>11
<1> QED
  BY <1>1, <1>9, <1>10, <1>12

\* Once astray, a request stays so.
LEMMA AstrayStays ==
    ASSUME QuotaTypeOK, [QuotaNext]_quotaVars, BalanceInv, NEW r \in Request, Astray(r)
    PROVE  Astray(r)'
<1>1. request \in [Request -> RequestState] /\ thisMonth \in Period
  BY DEF QuotaTypeOK
<1>2. request[r].phase \in {"settling", "done", "lost"}
  BY <1>1 DEF Astray, BalanceInv, HoldsEstimate, RequestState
<1>3. CASE request' = request
  BY <1>3 DEF Astray
<1>4. ASSUME Settle(r) \/ SettleFails(r) PROVE Astray(r)'
  BY <1>1, <1>2, <1>4 DEF Settle, SettleFails, Astray, RequestState
<1>5. ASSUME NEW served \in SUBSET Request, Crash(served) PROVE Astray(r)'
  BY <1>1, <1>2, <1>5 DEF Crash, Astray, RequestState
<1>6. ASSUME NEW s \in Request, s # r,
             \/ Reject(s) \/ \E estimate \in Price : Begin(s, estimate)
             \/ Reserve(s) \/ ReserveThrows(s)
             \/ \E actual \in Price : Finish(s, actual)
             \/ Settle(s) \/ SettleFails(s)
      PROVE  Astray(r)'
  <2>1. request'[r] = request[r]
    BY <1>1, <1>6 DEF Reject, Begin, Reserve, ReserveThrows, Finish, Settle, SettleFails
  <2> QED
    BY <2>1 DEF Astray
<1> QED
  BY <1>2, <1>3, <1>4, <1>5, <1>6 DEF QuotaNext, quotaVars, Reject, Begin, Reserve, ReserveThrows,
     Finish, NextMonth, ChangeRole, ChangeBase, SetTemporary

LEMMA ReservesRightly ==
    ASSUME QuotaTypeOK, BalanceInv, NEW r \in Request, request[r].phase = "reserving",
           Charge(r), request'[r].counted = request[r].estimate,
           request'[r].charged = request[r].charged
    PROVE  \A p \in Period : ledger'[p] = ledger[p] + Booked(p)'[r] - Booked(p)[r]
<1> DEFINE m == request[r].period
           estimate == request[r].estimate
<1>1. /\ m \in Period /\ estimate \in Nat /\ ledger \in [Period -> Nat]
  BY RequestTyped DEF QuotaTypeOK
<1>2. request[r].charged = m /\ request[r].counted = 0
  BY DEF BalanceInv, HoldsEstimate
<1>3. ASSUME NEW p \in Period
      PROVE  Booked(p)'[r] = (IF p = m THEN estimate ELSE 0) /\ Booked(p)[r] = 0
  BY <1>2 DEF Booked
<1>4. ledger' = [ledger EXCEPT ![m] = ledger[m] + estimate]
  BY DEF Charge
<1> HIDE DEF m, estimate
<1> TAKE p \in Period
<1>5. ledger'[p] = IF p = m THEN ledger[m] + estimate ELSE ledger[p]
  BY <1>1, <1>4
<1> QED
  BY <1>1, <1>3, <1>5

\* What a step does to the contexts of the requests, whichever it is.
LEMMA EstimatesHeld ==
    ASSUME QuotaTypeOK, [QuotaNext]_quotaVars, BalanceInv,
           NEW r \in Request
    PROVE  HoldsEstimate(r)'
<1>1. /\ request \in [Request -> RequestState] /\ thisMonth \in Period
      /\ role \in {"limited", "unlimited"}
  BY DEF QuotaTypeOK
<1>2. HoldsEstimate(r)
  BY DEF BalanceInv
<1>3. CASE request'[r] = request[r]
  BY <1>2, <1>3 DEF HoldsEstimate
<1>4. CASE Reject(r) \/ SettleFails(r)
  BY <1>1, <1>4 DEF Reject, SettleFails, HoldsEstimate, RequestState
<1>5. ASSUME NEW estimate \in Price, Begin(r, estimate) PROVE HoldsEstimate(r)'
  <2>1. estimate \in Nat
    BY MoneyAssumption
  <2>2. /\ request'[r].phase = IF estimate <= 0 THEN "open" ELSE "reserving"
        /\ request'[r].period = thisMonth /\ request'[r].charged = thisMonth
        /\ request'[r].estimate = estimate /\ request'[r].counted = request[r].counted
        /\ request'[r].exempt = request[r].exempt
    BY <1>1, <1>5 DEF Begin, RequestState
  <2>3. request[r].counted = 0 /\ request[r].exempt = "no"
    BY <1>2, <1>5 DEF Begin, HoldsEstimate
  <2> QED
    BY <2>1, <2>2, <2>3 DEF HoldsEstimate
<1>6. CASE Reserve(r) \/ ReserveThrows(r)
  <2>1. request[r].period = request[r].charged
    BY <1>2, <1>6 DEF Reserve, ReserveThrows, HoldsEstimate
  <2>2. /\ request'[r].period = request[r].period /\ request'[r].charged = request[r].charged
        /\ request'[r].estimate = request[r].estimate
        /\ request'[r].phase \in {"open", "done", "lost"}
        /\ request'[r].exempt \in {request[r].exempt, "reserved"}
        /\ request'[r].phase = "open" /\ request'[r].exempt = "no" =>
              request'[r].counted = request[r].estimate
    BY <1>1, <1>2, <1>6 DEF Reserve, ReserveThrows, RequestState, HoldsEstimate
  <2>3. request[r].exempt = "no"
    BY <1>2, <1>6 DEF Reserve, ReserveThrows, HoldsEstimate
  <2> QED
    BY <2>1, <2>2, <2>3 DEF HoldsEstimate
<1>7. ASSUME NEW actual \in Price, Finish(r, actual) PROVE HoldsEstimate(r)'
  <2>1. /\ request'[r].phase \in {"done", "settling"}
        /\ request'[r].estimate = request[r].estimate
        /\ request'[r].counted = request[r].counted
        /\ request'[r].exempt = request[r].exempt
    BY <1>1, <1>7 DEF Finish, RequestState
  <2> QED
    BY <1>2, <1>7, <2>1 DEF Finish, HoldsEstimate
<1>8. CASE Settle(r)
  BY <1>1, <1>8 DEF Settle, HoldsEstimate, RequestState
<1>9. ASSUME NEW served \in SUBSET Request, Crash(served), r \in served
       PROVE  HoldsEstimate(r)'
  BY <1>1, <1>2, <1>9 DEF Crash, HoldsEstimate, RequestState
<1>10. ASSUME NEW s \in Request, s # r,
              \/ Reject(s) \/ \E estimate \in Price : Begin(s, estimate)
              \/ Reserve(s) \/ ReserveThrows(s)
              \/ \E actual \in Price : Finish(s, actual)
              \/ Settle(s) \/ SettleFails(s)
       PROVE  request'[r] = request[r]
  BY <1>1, <1>10 DEF Reject, Begin, Reserve, ReserveThrows, Finish, Settle, SettleFails
<1>11. ASSUME NEW served \in SUBSET Request, Crash(served), r \notin served
       PROVE  request'[r] = request[r]
  BY <1>11 DEF Crash
<1> QED
  BY <1>3, <1>4, <1>5, <1>6, <1>7, <1>8, <1>9, <1>10, <1>11
     DEF QuotaNext, quotaVars, NextMonth, ChangeRole, ChangeBase, SetTemporary

\* While nobody is astray after a step, the step kept the balance.
LEMMA BalanceKept ==
    ASSUME QuotaTypeOK, QuotaTypeOK', [QuotaNext]_quotaVars, BalanceInv, LedgerBalanced,
           \A r \in Request : ~Astray(r) /\ ~Astray(r)'
    PROVE  LedgerBalanced'
<1>1. request \in [Request -> RequestState]
  BY DEF QuotaTypeOK
<1>2. ASSUME NEW r \in Request, Reserve(r) \/ ReserveThrows(r)
      PROVE  LedgerBalanced'
  <2>1. \A s \in Request \ {r} : request'[s] = request[s]
    BY <1>1, <1>2 DEF Reserve, ReserveThrows
  <2>2. CASE ledger' = ledger /\ request'[r].counted = request[r].counted
             /\ request'[r].charged = request[r].charged
    BY <2>1, <2>2, NothingMoves
  <2>3. CASE Charge(r) /\ request'[r].counted = request[r].estimate
             /\ request'[r].charged = request[r].charged
    <3>1. request[r].phase = "reserving"
      BY <1>2 DEF Reserve, ReserveThrows
    <3> QED
      BY <2>1, <2>3, <3>1, ReservesRightly, OneRequestMoves
  <2> QED
    BY <1>1, <1>2, <2>2, <2>3 DEF Reserve, ReserveThrows, RequestState
<1>3. ASSUME NEW r \in Request, Settle(r)
      PROVE  LedgerBalanced'
  <2>1. \A s \in Request \ {r} : request'[s] = request[s]
    BY <1>1, <1>3 DEF Settle
  <2>2. CASE role = "limited"
    BY <1>3, <2>1, <2>2, SettlesRightly, OneRequestMoves
  <2>3. CASE role = "unlimited"
    <3>1. /\ ledger' = ledger /\ request'[r].counted = request[r].counted
          /\ request'[r].charged = request[r].charged
      BY <1>1, <1>3, <2>3 DEF Settle, RequestState
    <3> QED
      BY <2>1, <3>1, NothingMoves
  <2> QED
    BY <1>3, <2>2, <2>3 DEF Settle
<1>4. ASSUME NEW r \in Request, NEW estimate \in Price, Begin(r, estimate)
      PROVE  LedgerBalanced'
  <2>1. \A s \in Request \ {r} : request'[s] = request[s]
    BY <1>1, <1>4 DEF Begin
  <2>2. request[r].counted = 0 /\ request'[r].counted = 0
    BY <1>1, <1>4 DEF Begin, BalanceInv, HoldsEstimate, RequestState
  <2>3. \A p \in Period : Booked(p)[r] = 0 /\ Booked(p)'[r] = 0
    BY <2>2 DEF Booked
  <2>4. \A p \in Period : ledger'[p] = ledger[p] + Booked(p)'[r] - Booked(p)[r]
    <3>1. ledger' = ledger /\ \A p \in Period : ledger[p] \in Nat
      BY <1>4 DEF Begin, QuotaTypeOK
    <3> QED
      BY <2>3, <3>1
  <2> QED
    BY <2>1, <2>4, OneRequestMoves
<1>5. ASSUME NEW r \in Request,
             Reject(r) \/ SettleFails(r) \/ \E actual \in Price : Finish(r, actual)
      PROVE  LedgerBalanced'
  <2>1. CASE Reject(r) \/ SettleFails(r)
    <3>1. \A s \in Request : /\ request'[s].counted = request[s].counted
                             /\ request'[s].charged = request[s].charged
      BY <1>1, <2>1 DEF Reject, SettleFails, RequestState
    <3> QED
      BY <2>1, <3>1, NothingMoves DEF Reject, SettleFails
  <2>2. ASSUME NEW actual \in Price, Finish(r, actual) PROVE LedgerBalanced'
    <3>1. \A s \in Request : /\ request'[s].counted = request[s].counted
                             /\ request'[s].charged = request[s].charged
      BY <1>1, <2>2 DEF Finish, RequestState
    <3> QED
      BY <2>2, <3>1, NothingMoves DEF Finish
  <2> QED
    BY <1>5, <2>1, <2>2
<1>6. ASSUME NEW served \in SUBSET Request, Crash(served)
      PROVE  LedgerBalanced'
  <2>1. \A s \in Request : /\ request'[s].counted = request[s].counted
                           /\ request'[s].charged = request[s].charged
    BY <1>1, <1>6 DEF Crash, RequestState
  <2> QED
    BY <1>6, <2>1, NothingMoves DEF Crash
<1>7. CASE UNCHANGED <<ledger, request>>
  BY <1>7, NothingMoves
<1> QED
  BY <1>2, <1>3, <1>4, <1>5, <1>6, <1>7
     DEF QuotaNext, quotaVars, NextMonth, ChangeRole, ChangeBase, SetTemporary

LEMMA BalanceInit == QuotaInit => BalanceInv
<1> SUFFICES ASSUME QuotaInit PROVE BalanceInv
  OBVIOUS
<1>1. \A r \in Request : HoldsEstimate(r)
  BY DEF QuotaInit, NewRequest, HoldsEstimate
<1>2. ASSUME NEW p \in Period PROVE ledger[p] = Sum(Booked(p), Request)
  <2>1. Booked(p) = [r \in Request |-> 0] /\ ledger[p] = 0
    BY DEF QuotaInit, NewRequest, Booked
  <2>2. Sum(Booked(p), Request) = 0
    BY <2>1, RequestAssumption, SumOfZeros
  <2> QED
    BY <2>1, <2>2
<1> QED
  BY <1>1, <1>2, BalanceIsSum DEF BalanceInv

\* For any number of requests, of months and of crashes and whatever becomes of the
\* user's role: every month's ledger is the sum of what its requests hold or were
\* settled at, until a request spans two months, or is settled of a limited user
\* after it was reserved of an unlimited one.
THEOREM QuotaBalanced == QuotaSpec => []BalancedWithinMonths
<1>1. QuotaTypeOK /\ BalanceInv /\ [QuotaNext]_quotaVars => BalanceInv'
  <2> SUFFICES ASSUME QuotaTypeOK, BalanceInv, [QuotaNext]_quotaVars PROVE BalanceInv'
    OBVIOUS
  <2>1. QuotaTypeOK' /\ \A r \in Request : HoldsEstimate(r)'
    BY StepSafe, EstimatesHeld
  <2>2. ASSUME \A r \in Request : ~Astray(r)' PROVE LedgerBalanced'
    <3>1. \A r \in Request : ~Astray(r)
      BY <2>2, AstrayStays
    <3> QED
      BY <2>1, <2>2, <3>1, BalanceKept DEF BalanceInv
  <2> QED
    BY <2>1, <2>2 DEF BalanceInv
<1>2. BalanceInv => BalancedWithinMonths
  BY DEF BalanceInv, Astray, BalancedWithinMonths
<1> QED
  BY <1>1, <1>2, BalanceInit, QuotaTypeCorrect, PTL DEF QuotaSpec
=============================================================================
