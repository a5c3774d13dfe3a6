-------------------------- MODULE QuotaAdjustment --------------------------
(* The quota packages of one user as administrators adjust them: the fixed  *)
(* one of every month and the one of this month, the pages on which they    *)
(* are read and typed, the transaction that stores them and the trail of    *)
(* adjustments it leaves. Pages stay open while others save and the month   *)
(* ends.                                                                    *)
EXTENDS Naturals, Sequences

CONSTANTS
    Officer,        \* pages of administrators
    Package,        \* sizes of a package
    LastMonth,
    MaxAdjustments  \* rows of the trail

ASSUME AdjustmentAssumption ==
    /\ Package \subseteq Nat /\ 0 \in Package
    /\ LastMonth \in Nat \ {0} /\ MaxAdjustments \in Nat

VARIABLES
    packages, \* User.fixedMonthlyQuota, temporaryMonthlyQuota of each month's ledger
    trail,    \* user_quota_adjustments
    month,    \* periodFor(now)
    seen,     \* the row of the user in the list of each page
    update    \* of each page: its request at the server

adjustmentVars == <<packages, trail, month, seen, update>>

Month == 1..LastMonth
Packages == [fixed : Package, temporary : Package]
Blank == [fixed |-> 0, temporary |-> 0]
Away == [stage |-> "none", asked |-> Blank, reason |-> FALSE, period |-> 1, before |-> Blank]

AdjustmentTypeOK ==
    /\ packages \in [fixed : Package, temporary : [Month -> Package]]
    /\ month \in Month /\ seen \in [Officer -> Packages]
    /\ \A a \in Officer :
          /\ update[a].stage \in {"none", "queued", "locked"}
          /\ update[a].asked \in Packages /\ update[a].before \in Packages
          /\ update[a].period \in 1..month

\* A user without packages, before anybody looked.
AdjustmentInit ==
    /\ packages = [fixed |-> 0, temporary |-> [m \in Month |-> 0]]
    /\ trail = <<>> /\ month = 1
    /\ seen = [a \in Officer |-> Blank]
    /\ update = [a \in Officer |-> Away]

InMonth(m) == [fixed |-> packages.fixed, temporary |-> packages.temporary[m]]

-----------------------------------------------------------------------------
\* load and list: the packages of the month in which the list is read, when the page
\* is opened and some time after a save is answered.
LoadUsers(a) ==
    /\ update[a].stage = "none"
    /\ seen' = [seen EXCEPT ![a] = InMonth(month)]
    /\ UNCHANGED <<packages, trail, month, update>>

\* openEdit: the form starts from the row shown, and is compared with it.
Original(a) == seen[a]

\* save: both packages are always sent, the reason with a changed one only, which
\* cannot be sent without; the month is the one in which the request arrives.
SaveForm(a) ==
    /\ update[a].stage = "none"
    /\ \E form \in Packages :
          update' = [update EXCEPT ![a] = [stage |-> "queued", asked |-> form,
                       reason |-> form # Original(a), period |-> month, before |-> Blank]]
    /\ UNCHANGED <<packages, trail, month, seen>>

-----------------------------------------------------------------------------
\* Faulty variant: the rows are read without a lock.
ReadUnlocked(a) ==
    /\ update[a].stage = "queued"
    /\ update' = [update EXCEPT ![a].stage = "locked",
                               ![a].before = InMonth(update[a].period)]
    /\ UNCHANGED <<packages, trail, month, seen>>

\* The transaction reads the user and the ledger of the month FOR UPDATE.
LockRows(a) ==
    /\ update[a].stage = "queued"
    /\ \A b \in Officer : update[b].stage # "locked"
    /\ update' = [update EXCEPT ![a].stage = "locked",
                               ![a].before = InMonth(update[a].period)]
    /\ UNCHANGED <<packages, trail, month, seen>>

\* saveQuotaAdjustment, when something changes.
Recorded(u) ==
    IF u.asked = u.before THEN trail
    ELSE Append(trail, [period |-> u.period, before |-> u.before, after |-> u.asked])

Store(a) ==
    LET u == update[a] IN
    /\ packages' = [packages EXCEPT !.fixed = u.asked.fixed,
                                    !.temporary[u.period] = u.asked.temporary]
    /\ trail' = Recorded(u)
    /\ update' = [update EXCEPT ![a] = Away]
    /\ UNCHANGED <<month, seen>>

\* Faulty variant: whether there is a reason is left to the page.
StoreUnasked(a) ==
    /\ update[a].stage = "locked" /\ Len(trail) < MaxAdjustments
    /\ Store(a)

\* A change against the rows as they are needs a reason, whatever the page thought
\* it changed; with it the rows and the trail are committed together.
StoreUpdate(a) ==
    /\ update[a].stage = "locked" /\ Len(trail) < MaxAdjustments
    /\ update[a].asked = update[a].before \/ update[a].reason
    /\ Store(a)

RefuseUpdate(a) ==
    /\ update[a].stage = "locked"
    /\ update[a].asked # update[a].before /\ ~update[a].reason
    /\ update' = [update EXCEPT ![a] = Away]
    /\ UNCHANGED <<packages, trail, month, seen>>

\* create, where accounts are not the identity centre's: first packages need a reason.
CreateUser ==
    /\ trail = <<>> /\ packages.fixed = 0 /\ \A m \in Month : packages.temporary[m] = 0
    /\ \A a \in Officer : update[a] = Away
    /\ \E p \in Packages \ {Blank} :
          /\ packages' = [packages EXCEPT !.fixed = p.fixed, !.temporary[month] = p.temporary]
          /\ trail' = <<[period |-> month, before |-> Blank, after |-> p]>>
    /\ UNCHANGED <<month, seen, update>>

MonthEnds ==
    /\ month < LastMonth /\ month' = month + 1
    /\ UNCHANGED <<packages, trail, seen, update>>

AdjustmentNext ==
    \/ \E a \in Officer :
          \/ LoadUsers(a) \/ SaveForm(a) \/ LockRows(a)
          \/ StoreUpdate(a) \/ RefuseUpdate(a)
    \/ CreateUser \/ MonthEnds

AdjustmentSpec == AdjustmentInit /\ [][AdjustmentNext]_adjustmentVars

-----------------------------------------------------------------------------
\* What the first n rows leave stored: the fixed package, and the temporary one of m.
FixedAfter(rows, n) == IF n = 0 THEN 0 ELSE rows[n].after.fixed
OfMonth(rows, n, m) == {i \in 1..n : rows[i].period = m}
LastOfMonth(rows, n, m) ==
    CHOOSE i \in OfMonth(rows, n, m) : \A j \in OfMonth(rows, n, m) : j <= i
TemporaryAfter(rows, n, m) ==
    IF OfMonth(rows, n, m) = {} THEN 0 ELSE rows[LastOfMonth(rows, n, m)].after.temporary

\* The trail accounts for every package: each row starts from where the one before it
\* ended, the fixed package over all months, the temporary one within its month, and
\* the last rows end at what is stored, whoever saved at the same time.
TrailAccounts ==
    /\ \A i \in DOMAIN trail :
          trail[i].before = [fixed |-> FixedAfter(trail, i - 1),
                             temporary |-> TemporaryAfter(trail, i - 1, trail[i].period)]
    /\ packages.fixed = FixedAfter(trail, Len(trail))
    /\ \A m \in Month : packages.temporary[m] = TemporaryAfter(trail, Len(trail), m)

\* A form nobody typed another package into changes none: not when the row it was
\* opened from is old, nor when the month has ended and the package was the old one's.
OnlyWhatWasTyped ==
    [][\A a \in Officer :
          update[a].stage = "locked" /\ ~update[a].reason /\ update'[a] # update[a]
             => UNCHANGED <<packages, trail>>]_adjustmentVars
=============================================================================
