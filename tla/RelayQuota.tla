------------------------------ MODULE RelayQuota ------------------------------
(***************************************************************************)
(* The monthly quota of one user of mg-token-one: quota.service.ts and     *)
(* monthly-quota-policy.ts, called by relay-accounting.ts around every     *)
(* relayed request, and the adjustments administrators make meanwhile      *)
(* (user.module.ts, group.module.ts).                                      *)
(*                                                                         *)
(* A request reserves an estimate before it is forwarded and settles the   *)
(* difference to the actual price afterwards.  Each of the two is one      *)
(* transaction under the row lock of the user, so one action; but the      *)
(* month it works on is read before the lock is waited for, and the user's *)
(* role and quota are those at the time of the lock.  Processes stop with  *)
(* requests open, and a transaction may fail or commit unanswered.         *)
(*                                                                         *)
(* Money counts in units of the ledger's sixth decimal.  Bound:            *)
(* LastPeriod, months.                                                     *)
(***************************************************************************)
EXTENDS Integers, FiniteSets, FiniteSetsExt

CONSTANTS
    Request,
    Price,       \* estimates and actual prices of requests
    Quota,       \* group and fixed quotas, and temporary ones
    RoleChange,  \* pairs <<from, to>> of "limited" and "unlimited" made meanwhile
    LastPeriod

ASSUME MoneyAssumption == Price \subseteq Nat /\ 0 \in Price /\ Quota \subseteq Nat /\ 0 \in Quota
ASSUME RoleAssumption == RoleChange \subseteq {"limited", "unlimited"} \X {"limited", "unlimited"}
ASSUME RequestAssumption == IsFiniteSet(Request)
ASSUME PeriodAssumption == LastPeriod \in Nat \ {0}

Period == 1..LastPeriod

\* A request's context.  period is the month its current transaction works on;
\* charged and counted say where and what its reservation left in the ledger;
\* exempt tells that it was reserved of an unlimited user, who was charged
\* nothing ("reserved"), and settled of one who is limited by then ("lapsed").
RequestState ==
    [phase : {"new", "reserving", "open", "settling", "done", "lost"},
     period : Period, estimate : Price, actual : Price,
     charged : Period, counted : Price,
     exempt : {"no", "reserved", "lapsed"}]

NewRequest ==
    [phase |-> "new", period |-> 1, estimate |-> 0, actual |-> 0, charged |-> 1,
     counted |-> 0, exempt |-> "no"]

VARIABLES
    thisMonth, \* the month in Shanghai
    role,      \* "unlimited" for administrators and for deleted users
    baseQuota, \* quota of the user's groups plus the fixed quota
    temporary, \* user_monthly_quotas.temporaryMonthlyQuota of each month
    ledger,    \* user_monthly_quotas.quotaUsed of each month
    request

account == <<role, baseQuota, temporary>>
quotaVars == <<thisMonth, account, ledger, request>>

QuotaTypeOK ==
    /\ thisMonth \in Period
    /\ role \in {"limited", "unlimited"}
    /\ baseQuota \in Quota
    /\ temporary \in [Period -> Quota]
    /\ ledger \in [Period -> Nat]
    /\ request \in [Request -> RequestState]

QuotaInit ==
    /\ thisMonth = 1
    /\ role \in {"limited", "unlimited"}
    /\ baseQuota \in Quota
    /\ temporary = [p \in Period |-> 0]
    /\ ledger = [p \in Period |-> 0]
    /\ request = [r \in Request |-> NewRequest]

-----------------------------------------------------------------------------
(* Policy.                                                                 *)

\* composeMonthlyQuota
MonthlyQuota(p) == baseQuota + temporary[p]

AllowsReservation(quota, used, estimate) == estimate <= 0 \/ used + estimate <= quota

\* More than the quota is never charged: the excess of a request that cost
\* more than its estimate is dropped.
Overdraws(quota, used, delta) == delta > 0 /\ used + delta > quota

\* Faulty variant: a settlement may overdraw the quota.
SettledUncapped(quota, used, delta) == IF used + delta < 0 THEN 0 ELSE used + delta

\* Faulty variant: a refund may exceed what the month holds.
SettledBelowZero(quota, used, delta) ==
    IF Overdraws(quota, used, delta) THEN used ELSE used + delta

SettledUsage(quota, used, delta) ==
    IF Overdraws(quota, used, delta) THEN used
    ELSE IF used + delta < 0 THEN 0 ELSE used + delta

-----------------------------------------------------------------------------
(* A request.                                                              *)

\* Refused before the quota is looked at, and finalised without settlement.
Reject(r) ==
    /\ request[r].phase = "new"
    /\ request' = [request EXCEPT ![r].phase = "done"]
    /\ UNCHANGED <<thisMonth, account, ledger>>

\* reserve: nothing to reserve is allowed at once; otherwise the transaction
\* reads the month and waits for the user's row.
Begin(r, estimate) ==
    /\ request[r].phase = "new"
    /\ request' = [request EXCEPT
            ![r].phase = IF estimate <= 0 THEN "open" ELSE "reserving",
            ![r].period = thisMonth, ![r].charged = thisMonth, ![r].estimate = estimate]
    /\ UNCHANGED <<thisMonth, account, ledger>>

\* preCheck, once its transaction has the user's row: there is room.
Fits(r) ==
    AllowsReservation(MonthlyQuota(request[r].period), ledger[request[r].period],
                      request[r].estimate)

Charge(r) == ledger' = [ledger EXCEPT ![request[r].period] = @ + request[r].estimate]

\* Faulty variant: a refused request counts as reserved, and its failure gives
\* back what was never taken.
ReserveFirst(r) ==
    /\ request[r].phase = "reserving"
    /\ IF role = "limited" /\ Fits(r)
       THEN /\ Charge(r)
            /\ request' = [request EXCEPT ![r].phase = "open",
                                         ![r].counted = request[r].estimate]
       ELSE /\ request' = [request EXCEPT
                    ![r].phase = "open",
                    ![r].exempt = IF role = "unlimited" THEN "reserved" ELSE @]
            /\ UNCHANGED ledger
    /\ UNCHANGED <<thisMonth, account>>

\* The answer of preCheck: charged, free of charge, or refused and finalised.
Reserve(r) ==
    /\ request[r].phase = "reserving"
    /\ \/ /\ role = "limited" /\ Fits(r)
          /\ Charge(r)
          /\ request' = [request EXCEPT ![r].phase = "open",
                                       ![r].counted = request[r].estimate]
       \/ /\ role = "unlimited"
          /\ request' = [request EXCEPT ![r].phase = "open", ![r].exempt = "reserved"]
          /\ UNCHANGED ledger
       \/ /\ role = "limited" /\ ~Fits(r)
          /\ request' = [request EXCEPT ![r].phase = "done"]
          /\ UNCHANGED ledger
    /\ UNCHANGED <<thisMonth, account>>

\* The transaction throws, and nothing catches it to finalise the request: it
\* was rolled back, or it was committed and the answer is lost.
ReserveThrows(r) ==
    /\ request[r].phase = "reserving"
    /\ \/ /\ request' = [request EXCEPT ![r].phase = "lost"]
          /\ UNCHANGED ledger
       \/ /\ role = "limited" /\ Fits(r)
          /\ Charge(r)
          /\ request' = [request EXCEPT ![r].phase = "lost",
                                       ![r].counted = request[r].estimate]
    /\ UNCHANGED <<thisMonth, account>>

\* The executor returns: succeed with a price, or fail with the price 0.  Only a
\* difference needs a transaction, which reads the month again.
Finish(r, actual) ==
    /\ request[r].phase = "open"
    /\ request' = [request EXCEPT
            ![r].phase = IF actual = request[r].estimate THEN "done" ELSE "settling",
            ![r].period = thisMonth, ![r].actual = actual]
    /\ UNCHANGED <<thisMonth, account, ledger>>

\* settle.  The request's part of the ledger becomes its actual price, unless
\* the excess was dropped.  Nothing remembers that an unlimited user's estimate
\* was never charged: of one who is limited by now it is given back all the same.
Settle(r) ==
    /\ request[r].phase = "settling"
    /\ LET p == request[r].period
           delta == request[r].actual - request[r].estimate
           dropped == Overdraws(MonthlyQuota(p), ledger[p], delta)
       IN  \/ /\ role = "unlimited"
              /\ request' = [request EXCEPT ![r].phase = "done"]
              /\ UNCHANGED ledger
           \/ /\ role = "limited"
              /\ ledger' = [ledger EXCEPT ![p] = SettledUsage(MonthlyQuota(p), @, delta)]
              /\ request' = [request EXCEPT
                      ![r].phase = "done",
                      ![r].charged = IF request[r].counted = 0 THEN p ELSE @,
                      ![r].counted = IF dropped THEN @ ELSE request[r].actual,
                      ![r].exempt = IF @ = "reserved" THEN "lapsed" ELSE @]
    /\ UNCHANGED <<thisMonth, account>>

\* The settlement is rolled back; the error is logged and swallowed.
SettleFails(r) ==
    /\ request[r].phase = "settling"
    /\ request' = [request EXCEPT ![r].phase = "done"]
    /\ UNCHANGED <<thisMonth, account, ledger>>

-----------------------------------------------------------------------------
(* Around the requests.                                                    *)

\* A process stops with the requests it serves.
Crash(served) ==
    /\ served # {}
    /\ \A r \in served : request[r].phase \in {"reserving", "open", "settling"}
    /\ request' = [r \in Request |->
            IF r \in served THEN [request[r] EXCEPT !.phase = "lost"] ELSE request[r]]
    /\ UNCHANGED <<thisMonth, account, ledger>>

NextMonth ==
    /\ thisMonth < LastPeriod
    /\ thisMonth' = thisMonth + 1
    /\ UNCHANGED <<account, ledger, request>>

ChangeRole(from, to) ==
    /\ role = from
    /\ role' = to
    /\ UNCHANGED <<thisMonth, baseQuota, temporary, ledger, request>>

ChangeBase(quota) ==
    /\ baseQuota' = quota
    /\ UNCHANGED <<thisMonth, role, temporary, ledger, request>>

\* The administrator's transaction, too, works on the month read before it.
SetTemporary(p, quota) ==
    /\ p <= thisMonth
    /\ temporary' = [temporary EXCEPT ![p] = quota]
    /\ UNCHANGED <<thisMonth, role, baseQuota, ledger, request>>

QuotaNext ==
    \/ \E r \in Request :
          \/ Reject(r)
          \/ \E estimate \in Price : Begin(r, estimate)
          \/ Reserve(r)
          \/ ReserveThrows(r)
          \/ \E actual \in Price : Finish(r, actual)
          \/ Settle(r)
          \/ SettleFails(r)
    \/ \E served \in SUBSET Request : Crash(served)
    \/ NextMonth
    \/ \E change \in RoleChange : ChangeRole(change[1], change[2])
    \/ \E quota \in Quota : ChangeBase(quota)
    \/ \E p \in Period, quota \in Quota : SetTemporary(p, quota)

QuotaSpec == QuotaInit /\ [][QuotaNext]_quotaVars

-----------------------------------------------------------------------------
(* Properties.                                                             *)

\* What each request holds of a month's ledger, or was settled at.
Booked(p) ==
    [r \in Request |-> IF request[r].charged = p THEN request[r].counted ELSE 0]

\* "What was confirmed or reserved this month": every month's ledger is the sum
\* of what its requests hold or were settled at, through concurrent requests,
\* crashes, failed settlements and quota changes; no refund is clamped away.
LedgerBalanced ==
    \A p \in Period : ledger[p] = MapThenSumSet(LAMBDA r : Booked(p)[r], Request)

\* The same while every request is reserved and settled within one month, which
\* quota_rollover shows to be needed, and none was reserved of an administrator
\* and settled after an edit made a limited user of him (user.module.ts:224): the
\* refund of such a request takes from the ledger what nobody charged.
BalancedWithinMonths ==
    (\A r \in Request : /\ request[r].period = request[r].charged
                        /\ request[r].exempt # "lapsed") => LedgerBalanced

\* Reserving and settling never break through the quota in force: the ledger
\* may be above a quota that was lowered, but it does not rise there.
NeverRaisedAboveQuota ==
    [][\A p \in Period : ledger'[p] > ledger[p] => ledger'[p] <= MonthlyQuota(p)]_quotaVars
=============================================================================
