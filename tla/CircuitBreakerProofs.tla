------------------------ MODULE CircuitBreakerProofs ------------------------
(***************************************************************************)
(* Proofs about CircuitBreaker, for any set of gateways and channels, any  *)
(* threshold and any bounds.                                               *)
(*                                                                         *)
(* That the shared rows never put every path out of rotation is not        *)
(* inductive: it needs that a failure between its read and its upsert      *)
(* still holds the named lock (LockHeld), and that what such a failure     *)
(* saw of the other paths is still true when it writes (DecisionSafe),     *)
(* which holds because nobody else may write an open marker meanwhile.     *)
(* That a delayed success resets no newer failure needs that nothing an    *)
(* instance or the table knows is newer than its last outcome (OrderInv).  *)
(***************************************************************************)
EXTENDS CircuitBreaker, TLAPS

\* While the head of a queue is handled it stays in the queue.
QueueOK ==
    \A g \in Gateway, c \in Channel :
        job[g][c].phase # "idle" => pending[g][c] # <<>>

\* The rows were read under the lock, and the lock is still held.
LockHeld ==
    \A g \in Gateway, c \in Channel :
        job[g][c].phase \in {"locked", "decided"} => lock = <<g, c>>

\* A decision to open a circuit, or to keep it open, leaves another path in.
DecisionSafe ==
    \A g \in Gateway, c \in Channel :
        /\ job[g][c].phase = "decided"
        /\ IsOpen(job[g][c].event, now)
        => \E b \in Channel \ {c} : ~IsOpen(db[b], now)

\* A success on its way to the database closes the circuit.
SuccessCloses ==
    \A g \in Gateway, c \in Channel :
        job[g][c].phase = "success" => job[g][c].event.disabledUntil = 0

\* A decision on its way to the database carries the count it is based on.
DecisionCounts ==
    \A g \in Gateway, c \in Channel :
        /\ job[g][c].phase = "decided"
        /\ job[g][c].event.disabledUntil # 0
        => job[g][c].event.consecutiveErrors = Threshold

JobInv == LockHeld /\ DecisionSafe /\ SuccessCloses /\ DecisionCounts

IInv == TypeOK /\ QueueOK /\ JobInv /\ NeverAllOpen /\ OpenMeansThreshold

-----------------------------------------------------------------------------
(* The row functions stay within their types.                              *)

LEMMA EmptyHealthType == EmptyHealth \in RouteHealthState
  BY ThresholdAssumption DEF EmptyHealth, RouteHealthState

LEMMA OneMoreType ==
  ASSUME NEW n \in 0..Threshold
  PROVE  OneMore(n) \in 0..Threshold
  BY ThresholdAssumption DEF OneMore

LEMMA RowFunctionTypes ==
  ASSUME NEW h \in RouteHealthState, NEW e \in RouteHealthState,
         NEW t \in Nat, NEW n \in Nat, NEW m \in BOOLEAN
  PROVE  /\ AfterSuccess(h, t) \in RouteHealthState
         /\ SuccessEvent(t) \in RouteHealthState
         /\ FailureEvent(h, t, n, m) \in RouteHealthState
         /\ AfterFailure(h, t, n, m) \in RouteHealthState
         /\ AfterConservativeFailure(h, t) \in RouteHealthState
         /\ PersistOutcome(h, e) \in RouteHealthState
         /\ PersistConservativeFailure(h, e) \in RouteHealthState
  <1> USE ThresholdAssumption, DisableForAssumption
  <1>0. /\ h.consecutiveErrors \in 0..Threshold /\ e.consecutiveErrors \in 0..Threshold
        /\ OneMore(h.consecutiveErrors) \in 0..Threshold /\ 0 \in 0..Threshold
    BY OneMoreType DEF RouteHealthState
  <1>1. AfterSuccess(h, t) \in RouteHealthState
    BY <1>0 DEF AfterSuccess, RouteHealthState
  <1>2. SuccessEvent(t) \in RouteHealthState
    BY EmptyHealthType DEF SuccessEvent, RouteHealthState
  <1>3. DecidedCircuit(h, t, n, m) \in Nat
    BY DEF DecidedCircuit, RouteHealthState
  <1>4. FailureEvent(h, t, n, m) \in RouteHealthState
    BY <1>0, <1>3, EmptyHealthType DEF FailureEvent, RouteHealthState
  <1>5. AfterFailure(h, t, n, m) \in RouteHealthState
    BY <1>4 DEF AfterFailure, RouteHealthState
  <1>6. AfterConservativeFailure(h, t) \in RouteHealthState
    BY <1>0 DEF AfterConservativeFailure, RouteHealthState
  <1>7. PersistOutcome(h, e) \in RouteHealthState
    BY <1>0 DEF PersistOutcome, Later, RouteHealthState
  <1>8. PersistConservativeFailure(h, e) \in RouteHealthState
    BY <1>0 DEF PersistConservativeFailure, Later, RouteHealthState
  <1>9. QED BY <1>1, <1>2, <1>4, <1>5, <1>6, <1>7, <1>8

LEMMA ClearedTypes ==
  ASSUME NEW h \in RouteHealthState
  PROVE  /\ Recovered(h) \in RouteHealthState
         /\ [h EXCEPT !.disabledUntil = 0] \in RouteHealthState
  <1>1. 0 \in 0..Threshold
    BY ThresholdAssumption
  <1>2. QED BY <1>1 DEF Recovered, RouteHealthState

-----------------------------------------------------------------------------
(* Types.                                                                  *)

LEMMA NoJobType == NoJob \in Job
  BY EmptyHealthType DEF NoJob, Job, JobPhase

LEMMA NoRefreshType == NoRefresh \in Refresh
  BY EmptyHealthType DEF NoRefresh, Refresh

LEMMA InitTypes == Init => TypeOK /\ QueueOK
  BY EmptyHealthType, NoJobType, NoRefreshType
  DEF Init, TypeOK, QueueOK, NoJob

\* The outcome being handled, and the queue once it is handled.
LEMMA HeadTypes ==
  ASSUME TypeOK, NEW g \in Gateway, NEW c \in Channel, pending[g][c] # <<>>
  PROVE  /\ Outcome1(g, c).at \in Nat
         /\ Tail(pending[g][c]) \in Seq(Outcome)
  <1>1. pending[g][c] \in Seq(Outcome)
    BY DEF TypeOK
  <1>2. pending[g][c][1] \in Outcome
    BY <1>1
  <1>3. QED
    BY <1>1, <1>2 DEF Outcome1, Outcome

\* A job and a queue of one path may change together as long as the job has
\* its type and the queue is not empty while the job runs.
LEMMA PathTypes ==
  ASSUME TypeOK, QueueOK, NEW g \in Gateway, NEW c \in Channel,
         NEW j \in Job, NEW q \in Seq(Outcome),
         j.phase # "idle" => q # <<>>,
         job' = [job EXCEPT ![g][c] = j],
         pending' = [pending EXCEPT ![g][c] = q]
  PROVE  /\ job' \in [Gateway -> [Channel -> Job]]
         /\ pending' \in [Gateway -> [Channel -> Seq(Outcome)]]
         /\ QueueOK'
  BY DEF TypeOK, QueueOK

\* A step that gives the job of a queued outcome a new value.
LEMMA JobTypes ==
  ASSUME TypeOK, QueueOK, NEW g \in Gateway, NEW c \in Channel, NEW j \in Job,
         pending[g][c] # <<>>, UNCHANGED pending,
         job' = [job EXCEPT ![g][c] = j]
  PROVE  job' \in [Gateway -> [Channel -> Job]] /\ QueueOK'
  BY DEF TypeOK, QueueOK

LEMMA SetPhaseTypes ==
  ASSUME TypeOK, QueueOK, NEW g \in Gateway, NEW c \in Channel,
         NEW phase \in JobPhase, pending[g][c] # <<>>, UNCHANGED pending,
         SetPhase(g, c, phase)
  PROVE  job' \in [Gateway -> [Channel -> Job]] /\ QueueOK'
  <1>0. job[g][c] \in Job
    BY DEF TypeOK
  <1>1. [job[g][c] EXCEPT !.phase = phase] \in Job
    BY <1>0 DEF Job
  <1>2. job' = [job EXCEPT ![g][c] = [job[g][c] EXCEPT !.phase = phase]]
    BY DEF SetPhase, TypeOK
  <1>3. QED BY <1>1, <1>2, JobTypes

LEMMA SpendType ==
  ASSUME TypeOK, NEW k \in EnvironmentStep, Spend(k)
  PROVE  spent' \in [EnvironmentStep -> Nat]
  BY BoundAssumption DEF TypeOK, Spend

LEMMA EndJobTypes ==
  ASSUME TypeOK, QueueOK, NEW g \in Gateway, NEW c \in Channel,
         pending[g][c] # <<>>, EndJob(g, c)
  PROVE  /\ job' \in [Gateway -> [Channel -> Job]]
         /\ pending' \in [Gateway -> [Channel -> Seq(Outcome)]]
         /\ QueueOK'
  BY HeadTypes, NoJobType, PathTypes DEF EndJob, NoJob, TypeOK

LEMMA ConservativeJobType ==
  ASSUME TypeOK, NEW g \in Gateway, NEW c \in Channel, pending[g][c] # <<>>
  PROVE  ConservativeJob(g, c) \in Job
  <1>1. Outcome1(g, c).at \in Nat
    BY HeadTypes
  <1>2. routeHealth[g][c] \in RouteHealthState
    BY DEF TypeOK
  <1>3. AfterConservativeFailure(routeHealth[g][c], Outcome1(g, c).at) \in RouteHealthState
    BY <1>1, <1>2, EmptyHealthType, RowFunctionTypes
  <1>4. QED
    BY <1>3, EmptyHealthType DEF ConservativeJob, NoJob, Job, JobPhase

\* Every step keeps the types, and keeps the outcome being handled queued.
LEMMA StepTypes ==
  TypeOK /\ QueueOK /\ [Next]_vars => TypeOK' /\ QueueOK'
  <1> SUFFICES ASSUME TypeOK, QueueOK, [Next]_vars PROVE TypeOK' /\ QueueOK'
    OBVIOUS
  <1>a. CASE Tick
    BY <1>a DEF Tick, TypeOK, QueueOK
  <1>b. ASSUME NEW g \in Gateway, NEW c \in Channel,
               NEW kind \in {"success", "failure"}, Report(g, c, kind)
        PROVE  TypeOK' /\ QueueOK'
    <2>1. [kind |-> kind, at |-> now] \in Outcome
      BY DEF TypeOK, Outcome
    <2> DEFINE q == Append(pending[g][c], [kind |-> kind, at |-> now])
    <2>0. pending[g][c] \in Seq(Outcome)
      BY DEF TypeOK
    <2>2. q \in Seq(Outcome) /\ q # <<>>
      BY <2>0, <2>1
    <2>3. spent' \in [EnvironmentStep -> Nat]
      BY <1>b, SpendType DEF Report, EnvironmentStep
    <2>4. QED BY <1>b, <2>2, <2>3 DEF Report, TypeOK, QueueOK
  <1>1. ASSUME NEW g \in Gateway, NEW c \in Channel, RecordSuccess(g, c)
        PROVE  TypeOK' /\ QueueOK'
    <2>1. /\ pending[g][c] # <<>> /\ UNCHANGED pending
          /\ Outcome1(g, c).at \in Nat /\ routeHealth[g][c] \in RouteHealthState
      BY <1>1, HeadTypes DEF RecordSuccess, MayStart, TypeOK
    <2>2. /\ AfterSuccess(routeHealth[g][c], Outcome1(g, c).at) \in RouteHealthState
          /\ SuccessEvent(Outcome1(g, c).at) \in RouteHealthState
      BY <2>1, EmptyHealthType, RowFunctionTypes
    <2>3. [NoJob EXCEPT !.phase = "success",
                        !.event = SuccessEvent(Outcome1(g, c).at)] \in Job
      BY <2>2, EmptyHealthType DEF NoJob, Job, JobPhase
    <2>4. job' \in [Gateway -> [Channel -> Job]] /\ QueueOK'
      BY <1>1, <2>1, <2>3, JobTypes DEF RecordSuccess
    <2>5. QED BY <1>1, <2>2, <2>4 DEF RecordSuccess, TypeOK
  <1>2. ASSUME NEW g \in Gateway, NEW c \in Channel, PersistSuccess(g, c)
        PROVE  TypeOK' /\ QueueOK'
    <2>1. pending[g][c] # <<>> /\ job[g][c] \in Job /\ db[c] \in RouteHealthState
      BY <1>2 DEF PersistSuccess, TypeOK, QueueOK
    <2>2. PersistOutcome(db[c], job[g][c].event) \in RouteHealthState
      BY <2>1, RowFunctionTypes DEF Job
    <2>3. QED BY <1>2, <2>1, <2>2, EndJobTypes DEF PersistSuccess, TypeOK
  <1>3. ASSUME NEW g \in Gateway, NEW c \in Channel, PersistSuccessFails(g, c)
        PROVE  TypeOK' /\ QueueOK'
    <2>1. pending[g][c] # <<>>
      BY <1>3 DEF PersistSuccessFails, QueueOK
    <2>2. spent' \in [EnvironmentStep -> Nat]
      BY <1>3, SpendType DEF PersistSuccessFails, EnvironmentStep
    <2>3. QED BY <2>2, <1>3, <2>1, EndJobTypes DEF PersistSuccessFails, TypeOK
  <1>4. ASSUME NEW g \in Gateway, NEW c \in Channel, AcquireLock(g, c)
        PROVE  TypeOK' /\ QueueOK'
    <2>1. pending[g][c] # <<>> /\ UNCHANGED pending
      BY <1>4 DEF AcquireLock, MayStart
    <2>2. job' \in [Gateway -> [Channel -> Job]] /\ QueueOK'
      BY <1>4, <2>1, SetPhaseTypes DEF AcquireLock, JobPhase
    <2>3. QED BY <1>4, <2>2 DEF AcquireLock, TypeOK
  <1>5. ASSUME NEW g \in Gateway, NEW c \in Channel, DecideFailure(g, c)
        PROVE  TypeOK' /\ QueueOK'
    <2> DEFINE at == Outcome1(g, c).at
               mayOpen == g \in AutoGateway /\ HasHealthyFallback(c, db, now)
               j == [phase |-> "decided",
                     event |-> FailureEvent(db[c], at, now, mayOpen),
                     state |-> AfterFailure(db[c], at, now, mayOpen)]
    <2>1. pending[g][c] # <<>> /\ UNCHANGED pending
      BY <1>5 DEF DecideFailure, QueueOK
    <2>2. at \in Nat /\ now \in Nat /\ db[c] \in RouteHealthState /\ mayOpen \in BOOLEAN
      BY <2>1, HeadTypes DEF TypeOK
    <2> HIDE DEF at, mayOpen
    <2>3. j \in Job
      BY <2>2, EmptyHealthType, RowFunctionTypes DEF Job, JobPhase
    <2>4. job' = [job EXCEPT ![g][c] = j]
      BY <1>5 DEF DecideFailure, at, mayOpen
    <2> HIDE DEF j
    <2>5. job' \in [Gateway -> [Channel -> Job]] /\ QueueOK'
      BY <2>1, <2>3, <2>4, JobTypes
    <2>6. QED BY <1>5, <2>5 DEF DecideFailure, TypeOK
  <1>6. ASSUME NEW g \in Gateway, NEW c \in Channel, PersistFailure(g, c)
        PROVE  TypeOK' /\ QueueOK'
    <2>1. pending[g][c] # <<>> /\ job[g][c] \in Job /\ db[c] \in RouteHealthState
      BY <1>6 DEF PersistFailure, TypeOK, QueueOK
    <2>2. PersistOutcome(db[c], job[g][c].event) \in RouteHealthState
      BY <2>1, RowFunctionTypes DEF Job
    <2>3. job' \in [Gateway -> [Channel -> Job]] /\ QueueOK'
      BY <1>6, <2>1, SetPhaseTypes DEF PersistFailure, JobPhase
    <2>4. QED BY <1>6, <2>2, <2>3 DEF PersistFailure, TypeOK
  <1>7. ASSUME NEW g \in Gateway, NEW c \in Channel, PersistFailureUnanswered(g, c)
        PROVE  TypeOK' /\ QueueOK'
    <2>1. pending[g][c] # <<>> /\ job[g][c] \in Job /\ db[c] \in RouteHealthState
      BY <1>7 DEF PersistFailureUnanswered, TypeOK, QueueOK
    <2>2. PersistOutcome(db[c], job[g][c].event) \in RouteHealthState
      BY <2>1, RowFunctionTypes DEF Job
    <2>3. job' \in [Gateway -> [Channel -> Job]] /\ QueueOK'
      BY <1>7, <2>1, ConservativeJobType, JobTypes DEF PersistFailureUnanswered
    <2>4. spent' \in [EnvironmentStep -> Nat]
      BY <1>7, SpendType DEF PersistFailureUnanswered, EnvironmentStep
    <2>5. QED BY <2>4, <1>7, <2>2, <2>3
              DEF PersistFailureUnanswered, ReleaseIfHeld, TypeOK
  <1>8. ASSUME NEW g \in Gateway, NEW c \in Channel, RecordConservatively(g, c)
        PROVE  TypeOK' /\ QueueOK'
    <2>1. pending[g][c] # <<>> /\ UNCHANGED pending
      BY <1>8 DEF RecordConservatively, MayStart, QueueOK
    <2>2. job' \in [Gateway -> [Channel -> Job]] /\ QueueOK'
      BY <1>8, <2>1, ConservativeJobType, JobTypes DEF RecordConservatively
    <2>3. spent' \in [EnvironmentStep -> Nat]
      BY <1>8, SpendType DEF RecordConservatively, EnvironmentStep
    <2>4. QED BY <2>3, <1>8, <2>2 DEF RecordConservatively, ReleaseIfHeld, TypeOK
  <1>9. ASSUME NEW g \in Gateway, NEW c \in Channel, PersistConservative(g, c)
        PROVE  TypeOK' /\ QueueOK'
    <2>1. pending[g][c] # <<>> /\ job[g][c] \in Job /\ db[c] \in RouteHealthState
      BY <1>9 DEF PersistConservative, TypeOK, QueueOK
    <2>2. PersistConservativeFailure(db[c], job[g][c].state) \in RouteHealthState
      BY <2>1, RowFunctionTypes DEF Job
    <2>3. job' \in [Gateway -> [Channel -> Job]] /\ QueueOK'
      BY <1>9, <2>1, SetPhaseTypes DEF PersistConservative, JobPhase
    <2>4. QED BY <1>9, <2>2, <2>3 DEF PersistConservative, TypeOK
  <1>10. ASSUME NEW g \in Gateway, NEW c \in Channel, PersistConservativeFails(g, c)
        PROVE  TypeOK' /\ QueueOK'
    <2>1. pending[g][c] # <<>> /\ UNCHANGED pending
      BY <1>10 DEF PersistConservativeFails, QueueOK
    <2>2. job' \in [Gateway -> [Channel -> Job]] /\ QueueOK'
      BY <1>10, <2>1, SetPhaseTypes DEF PersistConservativeFails, JobPhase
    <2>3. spent' \in [EnvironmentStep -> Nat]
      BY <1>10 DEF PersistConservativeFails, TypeOK
    <2>4. QED BY <2>3, <1>10, <2>2 DEF PersistConservativeFails, TypeOK
  <1>11. ASSUME NEW g \in Gateway, NEW c \in Channel, FinishFailure(g, c)
        PROVE  TypeOK' /\ QueueOK'
    <2>1. pending[g][c] # <<>> /\ job[g][c] \in Job
      BY <1>11 DEF FinishFailure, TypeOK, QueueOK
    <2>2. job[g][c].state \in RouteHealthState
      BY <2>1 DEF Job
    <2>3. QED BY <1>11, <2>1, <2>2, EndJobTypes
              DEF FinishFailure, ReleaseIfHeld, TypeOK
  <1>12. ASSUME NEW g \in Gateway, NEW c \in Channel, Recover(g, c)
        PROVE  TypeOK' /\ QueueOK'
    <2>1. Recovered(routeHealth[g][c]) \in RouteHealthState
      BY ClearedTypes DEF TypeOK
    <2>2. spent' \in [EnvironmentStep -> Nat]
      BY <1>12, SpendType DEF Recover, EnvironmentStep
    <2>3. QED BY <2>2, <1>12, <2>1 DEF Recover, TypeOK, QueueOK
  <1>13. ASSUME NEW g \in Gateway, NEW c \in Channel, RecoverPersist(g, c)
        PROVE  TypeOK' /\ QueueOK'
    <2>1. Recovered(db[c]) \in RouteHealthState
      BY ClearedTypes DEF TypeOK
    <2>2. QED BY <1>13, <2>1 DEF RecoverPersist, TypeOK, QueueOK
  <1>14. ASSUME NEW g \in Gateway, NEW c \in Channel, RecoverFails(g, c)
        PROVE  TypeOK' /\ QueueOK'
    BY <1>14 DEF RecoverFails, TypeOK, QueueOK
  <1>15. ASSUME NEW g \in Gateway, NEW c \in Channel, RefreshClear(g, c)
        PROVE  TypeOK' /\ QueueOK'
    <2>1. [db[c] EXCEPT !.disabledUntil = 0] \in RouteHealthState
      BY ClearedTypes DEF TypeOK
    <2>2. db' \in [Channel -> RouteHealthState]
      BY <1>15, <2>1 DEF RefreshClear, TypeOK
    <2>3. refresh' \in [Gateway -> Refresh]
      <3>1. refresh[g] \in Refresh
        BY DEF TypeOK
      <3>2. [refresh[g] EXCEPT !.clears = @ \ {c}] \in Refresh
        BY <3>1 DEF Refresh
      <3>3. refresh' = [refresh EXCEPT ![g] = [refresh[g] EXCEPT !.clears = @ \ {c}]]
        BY <1>15 DEF RefreshClear, TypeOK
      <3>4. QED BY <3>2, <3>3 DEF TypeOK
    <2>4. QED BY <1>15, <2>2, <2>3 DEF RefreshClear, TypeOK, QueueOK
  <1>16. ASSUME NEW g \in Gateway, RefreshRead(g)
        PROVE  TypeOK' /\ QueueOK'
    <2>1. refresh' \in [Gateway -> Refresh]
      <3>1. refresh[g] \in Refresh /\ db \in [Channel -> RouteHealthState]
        BY DEF TypeOK
      <3>2. [refresh[g] EXCEPT !.phase = "read", !.rows = db] \in Refresh
        BY <3>1 DEF Refresh
      <3>3. refresh' = [refresh EXCEPT ![g] =
                          [refresh[g] EXCEPT !.phase = "read", !.rows = db]]
        BY <1>16 DEF RefreshRead, TypeOK
      <3>4. QED BY <3>2, <3>3 DEF TypeOK
    <2>2. QED BY <1>16, <2>1 DEF RefreshRead, TypeOK, QueueOK
  <1>17. ASSUME NEW g \in Gateway, RefreshJudge(g)
        PROVE  TypeOK' /\ QueueOK'
    <2> DEFINE rows == [c \in Channel |->
                          IF c \in Unjustified(g)
                          THEN [refresh[g].rows[c] EXCEPT !.disabledUntil = 0]
                          ELSE refresh[g].rows[c]]
    <2>1. \A c \in Channel : refresh[g].rows[c] \in RouteHealthState
      BY DEF TypeOK, Refresh
    <2>2. rows \in [Channel -> RouteHealthState]
      BY <2>1, ClearedTypes
    <2>3. Unjustified(g) \in SUBSET Channel
      BY DEF Unjustified
    <2>4. [phase |-> "clearing", rows |-> rows, clears |-> Unjustified(g)] \in Refresh
      BY <2>2, <2>3 DEF Refresh
    <2>5. refresh' = [refresh EXCEPT ![g] =
            [phase |-> "clearing", rows |-> rows, clears |-> Unjustified(g)]]
      BY <1>17 DEF RefreshJudge
    <2>6. refresh' \in [Gateway -> Refresh]
      BY <2>4, <2>5 DEF TypeOK
    <2>7. QED BY <1>17, <2>6 DEF RefreshJudge, TypeOK, QueueOK
  <1>18. ASSUME NEW g \in Gateway, RefreshInstall(g)
        PROVE  TypeOK' /\ QueueOK'
    <2>1. refresh[g].rows \in [Channel -> RouteHealthState]
      BY DEF TypeOK, Refresh
    <2>2. QED BY <1>18, <2>1, NoRefreshType DEF RefreshInstall, TypeOK, QueueOK
  <1>19. ASSUME NEW g \in Gateway, RefreshFails(g)
        PROVE  TypeOK' /\ QueueOK'
    <2>1. spent' \in [EnvironmentStep -> Nat]
      BY <1>19 DEF RefreshFails, TypeOK
    <2>2. refresh' \in [Gateway -> Refresh]
      BY <1>19, NoRefreshType DEF RefreshFails, TypeOK
    <2>3. QED BY <1>19, <2>1, <2>2 DEF RefreshFails, TypeOK, QueueOK
  <1>20. ASSUME NEW g \in Gateway, Crash(g)
        PROVE  TypeOK' /\ QueueOK'
    <2>1. spent' \in [EnvironmentStep -> Nat]
      BY <1>20, SpendType DEF Crash, EnvironmentStep
    <2>2. /\ refresh' \in [Gateway -> Refresh]
          /\ routeHealth' \in [Gateway -> [Channel -> RouteHealthState]]
      BY <1>20, NoRefreshType, EmptyHealthType DEF Crash, TypeOK
    <2>3. /\ job' \in [Gateway -> [Channel -> Job]]
          /\ pending' \in [Gateway -> [Channel -> Seq(Outcome)]]
      BY <1>20, NoJobType DEF Crash, TypeOK
    <2>4. QueueOK'
      BY <1>20 DEF Crash, TypeOK, QueueOK, NoJob
    <2>5. lock' \in (Gateway \X Channel) \cup {NoOwner}
      BY <1>20 DEF Crash, TypeOK
    <2>6. serving' \in [Gateway -> BOOLEAN] /\ recovering' \in [Gateway -> SUBSET Channel]
      BY <1>20 DEF Crash, TypeOK
    <2>7. QED BY <1>20, <2>1, <2>2, <2>3, <2>4, <2>5, <2>6 DEF Crash, TypeOK
  <1>z. CASE UNCHANGED vars
    BY <1>z DEF vars, TypeOK, QueueOK
  <1> QED
    BY <1>a, <1>b, <1>1, <1>2, <1>3, <1>4, <1>5, <1>6, <1>7, <1>8, <1>9, <1>10, <1>11, <1>12, <1>13, <1>14, <1>15, <1>16, <1>17, <1>18, <1>19, <1>20, <1>z
    DEF Next, HandleSuccess, HandleFailure, DoRecover, DoRefresh, RefreshStep

-----------------------------------------------------------------------------
(* The effect of a step on the shared rows.                                *)

\* Upserts that carry no open marker never open a path.
LEMMA ClosingWrites ==
  ASSUME NEW h \in RouteHealthState, NEW e \in RouteHealthState, NEW n \in Nat
  PROVE  /\ e.disabledUntil = 0 /\ IsOpen(PersistOutcome(h, e), n) => IsOpen(h, n)
         /\ IsOpen(PersistConservativeFailure(h, e), n) => IsOpen(h, n)
         /\ ~IsOpen(Recovered(h), n)
         /\ ~IsOpen([h EXCEPT !.disabledUntil = 0], n)
  BY DEF IsOpen, PersistOutcome, PersistConservativeFailure, Recovered,
         RouteHealthState

\* A failure decided at time n opens its path, or keeps it open, only if it
\* was open or another path is a verified fallback.
LEMMA DecidedOpen ==
  ASSUME NEW h \in RouteHealthState, NEW t \in Nat, NEW n \in Nat,
         NEW m \in BOOLEAN, IsOpen(FailureEvent(h, t, n, m), n)
  PROVE  IsOpen(h, n) \/ m
  BY DEF IsOpen, FailureEvent, EmptyHealth, DecidedCircuit, RouteHealthState

\* It carries an open marker only with a full count.
LEMMA DecidedCount ==
  ASSUME NEW h \in RouteHealthState, NEW t \in Nat, NEW n \in Nat,
         NEW m \in BOOLEAN,
         h.disabledUntil # 0 => h.consecutiveErrors = Threshold,
         FailureEvent(h, t, n, m).disabledUntil # 0
  PROVE  FailureEvent(h, t, n, m).consecutiveErrors = Threshold
  BY ThresholdAssumption
  DEF FailureEvent, EmptyHealth, DecidedCircuit, OneMore, RouteHealthState

\* A step that writes no decision only closes paths.
OnlyCloses == \A b \in Channel : IsOpen(db'[b], now') => IsOpen(db[b], now)

\* The upsert of the decision of gateway g on channel c.
WritesDecision(g, c) ==
    /\ job[g][c].phase = "decided"
    /\ db' = [db EXCEPT ![c] = PersistOutcome(@, job[g][c].event)]
    /\ now' = now

LEMMA StepEffect ==
  ASSUME TypeOK, SuccessCloses, [Next]_vars
  PROVE  OnlyCloses \/ \E g \in Gateway, c \in Channel : WritesDecision(g, c)
  <1>0. /\ now \in Nat
        /\ \A b \in Channel : db[b] \in RouteHealthState
        /\ \A g \in Gateway, c \in Channel : job[g][c] \in Job
    BY DEF TypeOK
  <1>1. CASE Tick
    BY <1>0, <1>1 DEF Tick, OnlyCloses, IsOpen, RouteHealthState
  <1>2. CASE UNCHANGED <<now, db>>
    BY <1>2 DEF OnlyCloses
  <1>3. ASSUME NEW g \in Gateway, NEW c \in Channel,
               PersistSuccess(g, c) \/ PersistConservative(g, c)
                 \/ RecoverPersist(g, c) \/ RefreshClear(g, c)
        PROVE  OnlyCloses
    <2>1. /\ job[g][c].event \in RouteHealthState
          /\ job[g][c].state \in RouteHealthState
      BY <1>0 DEF Job
    <2>2. now' = now /\ \A b \in Channel \ {c} : db'[b] = db[b]
      BY <1>3 DEF PersistSuccess, PersistConservative, RecoverPersist,
                  RefreshClear, TypeOK
    <2>3. CASE PersistSuccess(g, c)
      <3>1. db'[c] = PersistOutcome(db[c], job[g][c].event)
        BY <2>3 DEF PersistSuccess, TypeOK
      <3>2. job[g][c].event.disabledUntil = 0
        BY <2>3 DEF PersistSuccess, SuccessCloses
      <3>3. IsOpen(db'[c], now) => IsOpen(db[c], now)
        BY <1>0, <2>1, <3>1, <3>2, ClosingWrites, ZenonT(30)
      <3>4. QED BY <2>2, <3>3 DEF OnlyCloses
    <2>4. CASE PersistConservative(g, c)
      <3>1. db'[c] = PersistConservativeFailure(db[c], job[g][c].state)
        BY <2>4 DEF PersistConservative, TypeOK
      <3>2. IsOpen(db'[c], now) => IsOpen(db[c], now)
        BY <1>0, <2>1, <3>1, ClosingWrites
      <3>3. QED BY <2>2, <3>2 DEF OnlyCloses
    <2>5. CASE RecoverPersist(g, c)
      <3>1. db'[c] = Recovered(db[c])
        BY <2>5 DEF RecoverPersist, TypeOK
      <3>2. QED BY <1>0, <2>1, <2>2, <3>1, ClosingWrites DEF OnlyCloses
    <2>6. CASE RefreshClear(g, c)
      <3>1. db'[c] = [db[c] EXCEPT !.disabledUntil = 0]
        BY <2>6 DEF RefreshClear, TypeOK
      <3>2. QED BY <1>0, <2>1, <2>2, <3>1, ClosingWrites DEF OnlyCloses
    <2>7. QED BY <1>3, <2>3, <2>4, <2>5, <2>6
  <1>4. ASSUME NEW g \in Gateway, NEW c \in Channel,
               PersistFailure(g, c) \/ PersistFailureUnanswered(g, c)
        PROVE  WritesDecision(g, c)
    BY <1>4 DEF PersistFailure, PersistFailureUnanswered, WritesDecision
  <1>5. CASE Next
    <2>1. ASSUME NEW g \in Gateway, NEW c \in Channel,
                 \/ \E kind \in {"success", "failure"} : Report(g, c, kind)
                 \/ HandleSuccess(g, c) \/ HandleFailure(g, c) \/ DoRecover(g, c)
          PROVE  \/ UNCHANGED <<now, db>>
                 \/ PersistSuccess(g, c) \/ PersistConservative(g, c)
                 \/ RecoverPersist(g, c)
                 \/ PersistFailure(g, c) \/ PersistFailureUnanswered(g, c)
      BY <2>1 DEF HandleSuccess, HandleFailure, DoRecover, Report, RecordSuccess,
           PersistSuccessFails, AcquireLock, DecideFailure, RecordConservatively,
           PersistConservativeFails, FinishFailure, Recover, RecoverFails
    <2>2. ASSUME NEW g \in Gateway, DoRefresh(g) \/ Crash(g)
          PROVE  UNCHANGED <<now, db>> \/ \E c \in Channel : RefreshClear(g, c)
      BY <2>2 DEF DoRefresh, RefreshStep, RefreshRead, RefreshJudge,
           RefreshInstall, RefreshFails, Crash
    <2>3. QED BY <1>1, <1>2, <1>3, <1>4, <1>5, <2>1, <2>2 DEF Next
  <1>6. CASE UNCHANGED vars
    BY <1>2, <1>6 DEF vars
  <1>7. QED BY <1>5, <1>6

\* The promise survives every step.
LEMMA StepNeverAllOpen ==
  ASSUME IInv, [Next]_vars
  PROVE  NeverAllOpen'
  <1>1. CASE OnlyCloses
    BY <1>1 DEF IInv, OnlyCloses, NeverAllOpen
  <1>2. ASSUME NEW g \in Gateway, NEW c \in Channel, WritesDecision(g, c)
        PROVE  NeverAllOpen'
    <2>1. /\ now' = now /\ \A b \in Channel \ {c} : db'[b] = db[b]
          /\ db'[c] = PersistOutcome(db[c], job[g][c].event)
      BY <1>2 DEF WritesDecision, IInv, TypeOK
    <2>2. CASE IsOpen(job[g][c].event, now)
      <3>1. PICK b \in Channel \ {c} : ~IsOpen(db[b], now)
        BY <1>2, <2>2 DEF IInv, JobInv, DecisionSafe, WritesDecision
      <3>2. QED BY <2>1, <3>1 DEF NeverAllOpen
    <2>3. CASE ~IsOpen(job[g][c].event, now)
      <3>1. IsOpen(db'[c], now) => IsOpen(db[c], now)
        BY <2>1, <2>3 DEF PersistOutcome, IsOpen
      <3>2. QED BY <2>1, <3>1 DEF IInv, NeverAllOpen
    <2>4. QED BY <2>2, <2>3
  <1>3. QED BY <1>1, <1>2, StepEffect DEF IInv, JobInv

\* Markers stay backed by a full count.
LEMMA StepOpenMeansThreshold ==
  ASSUME IInv, [Next]_vars
  PROVE  OpenMeansThreshold'
  <1> USE DEF OpenMeansThreshold
  <1>0. /\ OpenMeansThreshold /\ SuccessCloses /\ DecisionCounts /\ TypeOK
        /\ \A b \in Channel : db[b] \in RouteHealthState
        /\ \A g \in Gateway, c \in Channel : job[g][c] \in Job
    BY DEF IInv, JobInv, TypeOK
  <1>1. CASE UNCHANGED db
    BY <1>0, <1>1
  <1>2. ASSUME NEW g \in Gateway, NEW c \in Channel,
               job[g][c].phase \in {"success", "decided"},
               db' = [db EXCEPT ![c] = PersistOutcome(@, job[g][c].event)]
        PROVE  OpenMeansThreshold'
    <2>1. /\ \A b \in Channel \ {c} : db'[b] = db[b]
          /\ db'[c] = PersistOutcome(db[c], job[g][c].event)
      BY <1>2, <1>0 DEF TypeOK
    <2>2. job[g][c].event.disabledUntil # 0
            => job[g][c].event.consecutiveErrors = Threshold
      BY <1>0, <1>2 DEF SuccessCloses, DecisionCounts
    <2>3. db'[c].disabledUntil # 0 => db'[c].consecutiveErrors = Threshold
      BY <1>0, <2>1, <2>2 DEF PersistOutcome
    <2>4. QED BY <1>0, <2>1, <2>3
  <1>3. ASSUME NEW g \in Gateway, NEW c \in Channel, PersistConservative(g, c)
        PROVE  OpenMeansThreshold'
    <2>1. /\ \A b \in Channel \ {c} : db'[b] = db[b]
          /\ db'[c] = PersistConservativeFailure(db[c], job[g][c].state)
      BY <1>3, <1>0 DEF PersistConservative, TypeOK
    <2>2. db'[c].disabledUntil # 0 => db'[c].consecutiveErrors = Threshold
      BY <1>0, <2>1 DEF PersistConservativeFailure, RouteHealthState
    <2>3. QED BY <1>0, <2>1, <2>2
  <1>4. ASSUME NEW g \in Gateway, NEW c \in Channel,
               RecoverPersist(g, c) \/ RefreshClear(g, c)
        PROVE  OpenMeansThreshold'
    <2>1. /\ \A b \in Channel \ {c} : db'[b] = db[b]
          /\ \/ db'[c] = Recovered(db[c])
             \/ db'[c] = [db[c] EXCEPT !.disabledUntil = 0]
      BY <1>4, <1>0 DEF RecoverPersist, RefreshClear, TypeOK
    <2>2. db'[c].disabledUntil = 0
      BY <1>0, <2>1 DEF Recovered, RouteHealthState
    <2>3. QED BY <1>0, <2>1, <2>2
  <1>5. CASE Next
    <2>1. ASSUME NEW g \in Gateway, NEW c \in Channel,
                 \/ \E kind \in {"success", "failure"} : Report(g, c, kind)
                 \/ HandleSuccess(g, c) \/ HandleFailure(g, c) \/ DoRecover(g, c)
          PROVE  \/ UNCHANGED db
                 \/ /\ job[g][c].phase \in {"success", "decided"}
                    /\ db' = [db EXCEPT ![c] = PersistOutcome(@, job[g][c].event)]
                 \/ PersistConservative(g, c)
                 \/ RecoverPersist(g, c)
      BY <2>1 DEF HandleSuccess, HandleFailure, DoRecover, Report, RecordSuccess,
           PersistSuccess, PersistSuccessFails, AcquireLock, DecideFailure,
           PersistFailure, PersistFailureUnanswered, RecordConservatively,
           PersistConservativeFails, FinishFailure, Recover, RecoverFails
    <2>2. ASSUME NEW g \in Gateway, DoRefresh(g) \/ Crash(g)
          PROVE  UNCHANGED db \/ \E c \in Channel : RefreshClear(g, c)
      BY <2>2 DEF DoRefresh, RefreshStep, RefreshRead, RefreshJudge,
           RefreshInstall, RefreshFails, Crash
    <2>3. CASE Tick
      BY <1>1, <2>3 DEF Tick
    <2>4. QED BY <1>1, <1>2, <1>3, <1>4, <1>5, <2>1, <2>2, <2>3 DEF Next
  <1>6. CASE UNCHANGED vars
    BY <1>1, <1>6 DEF vars
  <1>7. QED BY <1>5, <1>6

-----------------------------------------------------------------------------
(* The effect of a step on the jobs and on the lock.                       *)

LEMMA JobEffect ==
  ASSUME TypeOK, [Next]_vars, NEW h \in Gateway, NEW d \in Channel
  PROVE  \/ job'[h][d] = job[h][d]
         \/ job'[h][d].phase \in {"idle", "conservative", "done"}
         \/ RecordSuccess(h, d) \/ AcquireLock(h, d) \/ DecideFailure(h, d)
  <1> DEFINE Goal == \/ job'[h][d] = job[h][d]
                     \/ job'[h][d].phase \in {"idle", "conservative", "done"}
                     \/ RecordSuccess(h, d) \/ AcquireLock(h, d) \/ DecideFailure(h, d)
  <1>1. ASSUME NEW g \in Gateway, NEW c \in Channel, NEW j,
               job' = [job EXCEPT ![g][c] = j],
               \/ j.phase \in {"idle", "conservative", "done"}
               \/ RecordSuccess(g, c) \/ AcquireLock(g, c) \/ DecideFailure(g, c)
        PROVE  Goal
    <2>1. CASE g = h /\ c = d
      BY <1>1, <2>1 DEF TypeOK
    <2>2. CASE ~(g = h /\ c = d)
      BY <1>1, <2>2 DEF TypeOK
    <2>3. QED BY <2>1, <2>2
  <1>2. ASSUME NEW g \in Gateway, NEW c \in Channel, HandleSuccess(g, c)
        PROVE  Goal
    <2>1. NoJob.phase = "idle"
      BY DEF NoJob
    <2>2. CASE RecordSuccess(g, c)
      <3> DEFINE j == [NoJob EXCEPT !.phase = "success",
                                    !.event = SuccessEvent(Outcome1(g, c).at)]
      <3>1. job' = [job EXCEPT ![g][c] = j]
        BY <2>2 DEF RecordSuccess
      <3>2. QED BY <1>1, <2>2, <3>1
    <2>3. CASE PersistSuccess(g, c) \/ PersistSuccessFails(g, c)
      BY <1>1, <2>1, <2>3 DEF PersistSuccess, PersistSuccessFails, EndJob
    <2>4. QED BY <1>2, <2>2, <2>3 DEF HandleSuccess
  <1>3. ASSUME NEW g \in Gateway, NEW c \in Channel, HandleFailure(g, c)
        PROVE  Goal
    <2>0. \A phase : SetPhase(g, c, phase) =>
            job' = [job EXCEPT ![g][c] = [job[g][c] EXCEPT !.phase = phase]]
      BY DEF SetPhase, TypeOK
    <2>1. \A phase : [job[g][c] EXCEPT !.phase = phase].phase = phase
      BY DEF TypeOK, Job
    <2>2. CASE AcquireLock(g, c)
      BY <1>1, <2>0, <2>2 DEF AcquireLock
    <2>3. CASE DecideFailure(g, c)
      BY <1>1, <2>3 DEF DecideFailure
    <2>4. CASE \/ PersistFailure(g, c) \/ PersistConservative(g, c)
              \/ PersistConservativeFails(g, c)
      <3>1. SetPhase(g, c, "done")
        BY <2>4 DEF PersistFailure, PersistConservative, PersistConservativeFails
      <3> DEFINE j == [job[g][c] EXCEPT !.phase = "done"]
      <3>2. job' = [job EXCEPT ![g][c] = j] /\ j.phase = "done"
        BY <2>0, <2>1, <3>1
      <3> HIDE DEF j
      <3>3. QED BY <1>1, <3>2
    <2>5. CASE PersistFailureUnanswered(g, c) \/ RecordConservatively(g, c)
      <3>1. job' = [job EXCEPT ![g][c] = ConservativeJob(g, c)]
        BY <2>5 DEF PersistFailureUnanswered, RecordConservatively
      <3>2. ConservativeJob(g, c).phase = "conservative"
        BY DEF ConservativeJob, NoJob
      <3>3. QED BY <1>1, <3>1, <3>2
    <2>6. CASE FinishFailure(g, c)
      <3>1. NoJob.phase = "idle"
        BY DEF NoJob
      <3>2. QED BY <1>1, <2>6, <3>1 DEF FinishFailure, EndJob
    <2>7. QED BY <1>3, <2>2, <2>3, <2>4, <2>5, <2>6 DEF HandleFailure
  <1>4. ASSUME NEW g \in Gateway, Crash(g)
        PROVE  Goal
    BY <1>4 DEF Crash, TypeOK, NoJob
  <1>5. CASE UNCHANGED job
    BY <1>5
  <1>6. ASSUME NEW g \in Gateway, NEW c \in Channel,
               \/ \E kind \in {"success", "failure"} : Report(g, c, kind)
               \/ DoRecover(g, c)
        PROVE  UNCHANGED job
    BY <1>6 DEF Report, DoRecover, Recover, RecoverPersist, RecoverFails
  <1>7. ASSUME NEW g \in Gateway, DoRefresh(g)
        PROVE  UNCHANGED job
    BY <1>7 DEF DoRefresh, RefreshStep, RefreshRead, RefreshJudge,
                RefreshInstall, RefreshClear, RefreshFails
  <1>8. CASE Tick \/ UNCHANGED vars
    BY <1>5, <1>8 DEF Tick, vars
  <1>9. QED BY <1>2, <1>3, <1>4, <1>5, <1>6, <1>7, <1>8 DEF Next

LEMMA LockEffect ==
  ASSUME TypeOK, [Next]_vars
  PROVE  \/ lock' = lock
         \/ lock = NoOwner
         \/ \E g \in Gateway, c \in Channel :
               lock = <<g, c>> /\ job'[g][c].phase \notin {"locked", "decided"}
  <1> DEFINE Goal ==
        \/ lock' = lock
        \/ lock = NoOwner
        \/ \E g \in Gateway, c \in Channel :
              lock = <<g, c>> /\ job'[g][c].phase \notin {"locked", "decided"}
  <1>1. ASSUME NEW g \in Gateway, NEW c \in Channel,
               \/ PersistFailureUnanswered(g, c) \/ RecordConservatively(g, c)
               \/ FinishFailure(g, c)
        PROVE  Goal
    <2>1. job'[g][c].phase \notin {"locked", "decided"}
      <3>1. job'[g][c] \in {ConservativeJob(g, c), NoJob}
        BY <1>1 DEF PersistFailureUnanswered, RecordConservatively,
                    FinishFailure, EndJob, TypeOK
      <3>2. /\ ConservativeJob(g, c).phase = "conservative"
            /\ NoJob.phase = "idle"
        BY DEF ConservativeJob, NoJob
      <3>3. QED BY <3>1, <3>2
    <2>2. lock' = lock \/ lock = <<g, c>>
      BY <1>1 DEF PersistFailureUnanswered, RecordConservatively, FinishFailure,
                  ReleaseIfHeld
    <2>3. QED BY <2>1, <2>2
  <1>2. ASSUME NEW g \in Gateway, Crash(g)
        PROVE  Goal
    BY <1>2 DEF Crash, TypeOK, NoJob
  <1>3. ASSUME NEW g \in Gateway, NEW c \in Channel,
               \/ \E kind \in {"success", "failure"} : Report(g, c, kind)
               \/ HandleSuccess(g, c) \/ HandleFailure(g, c) \/ DoRecover(g, c)
        PROVE  Goal
    <2>1. \/ lock' = lock \/ lock = NoOwner
          \/ PersistFailureUnanswered(g, c) \/ RecordConservatively(g, c)
          \/ FinishFailure(g, c)
      BY <1>3 DEF HandleSuccess, HandleFailure, DoRecover, Report, RecordSuccess,
           PersistSuccess, PersistSuccessFails, AcquireLock, DecideFailure,
           PersistFailure, PersistConservative, PersistConservativeFails,
           Recover, RecoverPersist, RecoverFails
    <2>2. QED BY <1>1, <2>1
  <1>4. ASSUME NEW g \in Gateway, DoRefresh(g)
        PROVE  lock' = lock
    BY <1>4 DEF DoRefresh, RefreshStep, RefreshRead, RefreshJudge,
                RefreshInstall, RefreshClear, RefreshFails
  <1>5. CASE Tick \/ UNCHANGED vars
    BY <1>5 DEF Tick, vars
  <1>6. QED BY <1>2, <1>3, <1>4, <1>5 DEF Next

-----------------------------------------------------------------------------
(* The strengthening is inductive.                                         *)

LEMMA StepLockHeld ==
  ASSUME TypeOK, LockHeld, [Next]_vars
  PROVE  LockHeld'
  <1> SUFFICES ASSUME NEW h \in Gateway, NEW d \in Channel,
                      job'[h][d].phase \in {"locked", "decided"}
               PROVE  lock' = <<h, d>>
    BY DEF LockHeld
  <1>1. CASE AcquireLock(h, d)
    BY <1>1 DEF AcquireLock
  <1>2. CASE DecideFailure(h, d)
    BY <1>2 DEF DecideFailure, LockHeld
  <1>3. CASE RecordSuccess(h, d)
    <2>1. job'[h][d].phase = "success"
      BY <1>3 DEF RecordSuccess, NoJob, TypeOK
    <2>2. QED BY <2>1
  <1>4. CASE job'[h][d] = job[h][d]
    <2>1. lock = <<h, d>>
      BY <1>4 DEF LockHeld
    <2>2. lock # NoOwner
      BY <2>1, OwnerAssumption
    <2>3. QED BY <2>1, <2>2, LockEffect
  <1>5. QED BY <1>1, <1>2, <1>3, <1>4, JobEffect

LEMMA ClockSteps ==
  ASSUME [Next]_vars
  PROVE  now' = now \/ now' = now + 1
  <1>1. ASSUME NEW g \in Gateway, NEW c \in Channel,
               \/ \E kind \in {"success", "failure"} : Report(g, c, kind)
               \/ HandleSuccess(g, c) \/ HandleFailure(g, c) \/ DoRecover(g, c)
        PROVE  now' = now
    BY <1>1 DEF HandleSuccess, HandleFailure, DoRecover, Report, RecordSuccess,
         PersistSuccess, PersistSuccessFails, AcquireLock, DecideFailure,
         PersistFailure, PersistFailureUnanswered, RecordConservatively,
         PersistConservative, PersistConservativeFails, FinishFailure,
         Recover, RecoverPersist, RecoverFails
  <1>2. ASSUME NEW g \in Gateway, DoRefresh(g) \/ Crash(g)
        PROVE  now' = now
    BY <1>2 DEF DoRefresh, RefreshStep, RefreshRead, RefreshJudge,
                RefreshInstall, RefreshClear, RefreshFails, Crash
  <1>3. CASE Tick \/ UNCHANGED vars
    BY <1>3 DEF Tick, vars
  <1>4. QED BY <1>1, <1>2, <1>3 DEF Next

\* What a decision is based on, at the moment it is taken.
LEMMA DecisionBasis ==
  ASSUME TypeOK, NeverAllOpen, OpenMeansThreshold,
         NEW g \in Gateway, NEW c \in Channel, QueueOK, DecideFailure(g, c)
  PROVE  /\ IsOpen(job'[g][c].event, now) =>
               \E b \in Channel \ {c} : ~IsOpen(db[b], now)
         /\ job'[g][c].event.disabledUntil # 0 =>
               job'[g][c].event.consecutiveErrors = Threshold
         /\ job'[g][c].phase = "decided"
  <1> DEFINE at == Outcome1(g, c).at
             mayOpen == g \in AutoGateway /\ HasHealthyFallback(c, db, now)
             e == FailureEvent(db[c], at, now, mayOpen)
  <1>1. pending[g][c] # <<>>
    BY DEF DecideFailure, QueueOK
  <1>2. at \in Nat /\ now \in Nat /\ db[c] \in RouteHealthState /\ mayOpen \in BOOLEAN
    BY <1>1, HeadTypes DEF TypeOK
  <1>3. job'[g][c].event = e /\ job'[g][c].phase = "decided"
    BY DEF DecideFailure, TypeOK
  <1>4. mayOpen => \E b \in Channel \ {c} : ~IsOpen(db[b], now)
    BY DEF HasHealthyFallback, IsHealthyFallback
  <1>5. IsOpen(db[c], now) => \E b \in Channel \ {c} : ~IsOpen(db[b], now)
    BY DEF NeverAllOpen
  <1>6. db[c].disabledUntil # 0 => db[c].consecutiveErrors = Threshold
    BY DEF OpenMeansThreshold
  <1> HIDE DEF at, mayOpen
  <1>7. IsOpen(e, now) => IsOpen(db[c], now) \/ mayOpen
    BY <1>2, DecidedOpen
  <1>8. e.disabledUntil # 0 => e.consecutiveErrors = Threshold
    BY <1>2, <1>6, DecidedCount
  <1> HIDE DEF e
  <1>9. QED BY <1>3, <1>4, <1>5, <1>7, <1>8

LEMMA StepJobInv ==
  ASSUME IInv, [Next]_vars
  PROVE  JobInv'
  <1> USE DEF IInv, JobInv
  <1>0. LockHeld'
    BY StepLockHeld
  <1>1. SuccessCloses'
    <2> SUFFICES ASSUME NEW h \in Gateway, NEW d \in Channel,
                        job'[h][d].phase = "success"
                 PROVE  job'[h][d].event.disabledUntil = 0
      BY DEF SuccessCloses
    <2>1. CASE job'[h][d] = job[h][d]
      BY <2>1 DEF SuccessCloses
    <2>2. CASE RecordSuccess(h, d)
      BY <2>2 DEF RecordSuccess, SuccessEvent, NoJob, EmptyHealth, TypeOK
    <2>3. CASE AcquireLock(h, d) \/ DecideFailure(h, d)
      <3>1. job'[h][d].phase \in {"locked", "decided"}
        BY <2>3 DEF AcquireLock, DecideFailure, SetPhase, TypeOK, Job
      <3>2. QED BY <3>1
    <2>4. QED BY <2>1, <2>2, <2>3, JobEffect
  <1>2. ASSUME NEW h \in Gateway, NEW d \in Channel,
               job'[h][d].phase = "decided"
        PROVE  \/ DecideFailure(h, d)
               \/ job'[h][d] = job[h][d]
    <2>1. CASE RecordSuccess(h, d)
      <3>1. job'[h][d].phase = "success"
        BY <2>1 DEF RecordSuccess, NoJob, TypeOK
      <3>2. QED BY <1>2, <3>1
    <2>2. CASE AcquireLock(h, d)
      <3>1. job'[h][d].phase = "locked"
        BY <2>2 DEF AcquireLock, SetPhase, TypeOK, Job
      <3>2. QED BY <1>2, <3>1
    <2>3. QED BY <1>2, <2>1, <2>2, JobEffect
  <1>3. DecisionCounts'
    BY <1>2, DecisionBasis DEF DecisionCounts
  <1>4. DecisionSafe'
    <2> SUFFICES ASSUME NEW h \in Gateway, NEW d \in Channel,
                        job'[h][d].phase = "decided",
                        IsOpen(job'[h][d].event, now')
                 PROVE  \E b \in Channel \ {d} : ~IsOpen(db'[b], now')
      BY DEF DecisionSafe
    <2>1. CASE DecideFailure(h, d)
      <3>1. now' = now /\ db' = db
        BY <2>1 DEF DecideFailure
      <3>2. QED BY <2>1, <3>1, DecisionBasis
    <2>2. CASE job'[h][d] = job[h][d]
      <3>1. now' >= now /\ now \in Nat /\ now' \in Nat
        <4>1. now' = now \/ now' = now + 1
          BY ClockSteps
        <4>2. QED BY <4>1 DEF TypeOK
      <3>2. job[h][d].event.disabledUntil \in Nat
        BY DEF TypeOK, Job, RouteHealthState
      <3>3. IsOpen(job[h][d].event, now)
        BY <2>2, <3>1, <3>2 DEF IsOpen
      <3>4. PICK b \in Channel \ {d} : ~IsOpen(db[b], now)
        BY <2>2, <3>3 DEF DecisionSafe
      <3>5. CASE OnlyCloses
        BY <3>4, <3>5 DEF OnlyCloses
      <3>6. ASSUME NEW g \in Gateway, NEW c \in Channel, WritesDecision(g, c)
            PROVE  db'[b] = db[b] /\ now' = now
        <4>1. lock = <<g, c>> /\ lock = <<h, d>>
          BY <2>2, <3>6 DEF WritesDecision, LockHeld
        <4>2. c # b
          BY <4>1
        <4>3. QED BY <3>6, <4>2 DEF WritesDecision, TypeOK
      <3>7. QED BY <3>4, <3>5, <3>6, StepEffect
    <2>3. QED BY <1>2, <2>1, <2>2
  <1>5. QED BY <1>0, <1>1, <1>3, <1>4

-----------------------------------------------------------------------------
(* The results.                                                            *)

LEMMA InitIInv == Init => IInv
  <1> SUFFICES ASSUME Init PROVE IInv
    OBVIOUS
  <1>1. TypeOK /\ QueueOK
    BY InitTypes
  <1>2. \A g \in Gateway, c \in Channel : job[g][c].phase = "idle"
    BY DEF Init, NoJob
  <1>3. JobInv
    BY <1>2 DEF JobInv, LockHeld, DecisionSafe, SuccessCloses, DecisionCounts
  <1>4. \A c \in Channel : db[c].disabledUntil = 0 /\ ~IsOpen(db[c], now)
    BY DEF Init, EmptyHealth, IsOpen
  <1>5. NeverAllOpen /\ OpenMeansThreshold
    BY <1>4, ChannelAssumption DEF NeverAllOpen, OpenMeansThreshold
  <1>6. QED BY <1>1, <1>3, <1>5 DEF IInv

LEMMA Inductive == Spec => []IInv
  <1>1. IInv /\ [Next]_vars => IInv'
    BY StepTypes, StepJobInv, StepNeverAllOpen, StepOpenMeansThreshold DEF IInv
  <1>2. QED BY <1>1, InitIInv, PTL DEF Spec

\* Every variable keeps its type, in every interleaving.
THEOREM TypeCorrect == Spec => []TypeOK
  <1>1. IInv => TypeOK
    BY DEF IInv
  <1>2. QED BY <1>1, Inductive, PTL

\* For any number of instances and channels, whatever fails and however stale
\* the copies are, channel_route_health never has every path of a scope open.
THEOREM SomePathStaysIn == Spec => []NeverAllOpen
  <1>1. IInv => NeverAllOpen
    BY DEF IInv
  <1>2. QED BY <1>1, Inductive, PTL

\* A stored open marker always comes with a full run of failures.
THEOREM MarkersAreEarned == Spec => []OpenMeansThreshold
  <1>1. IInv => OpenMeansThreshold
    BY DEF IInv
  <1>2. QED BY <1>1, Inductive, PTL

\* The shared rows implement the abstract promise: paths leave the rotation
\* one at a time, never the last one.
THEOREM RowsImplementScope == Spec => ImplementsScope
  <1>1. Init => Scope!Init
    BY DEF Init, EmptyHealth, IsOpen, OpenPaths, Scope!Init
  <1>2. ASSUME IInv, IInv', [Next]_vars
        PROVE  [Scope!Next]_OpenPaths
    <2> USE DEF Scope!Next, Scope!OpenPath, Scope!ClosePaths, OpenPaths
    <2>1. ASSUME OpenPaths' \subseteq OpenPaths
          PROVE  Scope!Next
      <3>1. OpenPaths' = OpenPaths \ (OpenPaths \ OpenPaths')
        BY <2>1
      <3>2. OpenPaths \ OpenPaths' \in SUBSET OpenPaths
        OBVIOUS
      <3>3. Scope!ClosePaths(OpenPaths \ OpenPaths')
        BY <3>1
      <3>4. QED BY <3>2, <3>3
    <2>2. CASE OnlyCloses
      BY <2>1, <2>2 DEF OnlyCloses
    <2>3. ASSUME NEW g \in Gateway, NEW c \in Channel, WritesDecision(g, c)
          PROVE  Scope!Next
      <3>1. now' = now /\ \A b \in Channel \ {c} : db'[b] = db[b]
        BY <2>3 DEF WritesDecision, IInv, TypeOK
      <3>2. CASE c \in OpenPaths \/ c \notin OpenPaths'
        BY <2>1, <3>1, <3>2
      <3>3. CASE c \notin OpenPaths /\ c \in OpenPaths'
        <4>1. OpenPaths' = OpenPaths \cup {c}
          BY <3>1, <3>3
        <4>2. OpenPaths' # Channel
          <5>1. NeverAllOpen'
            BY <1>2 DEF IInv
          <5>2. QED BY <5>1 DEF NeverAllOpen
        <4>3. QED BY <3>3, <4>1, <4>2
      <3>4. QED BY <3>2, <3>3
    <2>4. QED BY <1>2, <2>2, <2>3, StepEffect DEF IInv, JobInv
  <1>3. QED BY <1>1, <1>2, Inductive, PTL DEF Spec, ImplementsScope, Scope!Spec

-----------------------------------------------------------------------------
(* A newer failure survives.  A success resets the count of a row only if  *)
(* it is as new as the last outcome of the row; that it then is as new as  *)
(* the last failure needs that no row, copy, snapshot or event on its way  *)
(* knows a failure that is newer than its last outcome.                    *)

Ordered(h) == h.lastFailureAt <= h.lastOutcomeAt

\* An event on its way to the rows: a success is its last outcome, and the
\* decision of a failure counts at least that failure.
OrderedJob(j) ==
    /\ Ordered(j.event) /\ Ordered(j.state)
    /\ j.phase = "success" => j.event.lastSuccessAt = j.event.lastOutcomeAt
    /\ j.phase = "decided" => j.event.consecutiveErrors # 0

OrderInv ==
    /\ \A c \in Channel : Ordered(db[c])
    /\ \A g \in Gateway, c \in Channel :
          /\ Ordered(routeHealth[g][c])
          /\ Ordered(refresh[g].rows[c])
          /\ OrderedJob(job[g][c])

LEMMA OrderedFunctions ==
  ASSUME NEW h \in RouteHealthState, NEW t \in Nat, NEW n \in Nat,
         NEW m \in BOOLEAN, Ordered(h)
  PROVE  /\ Ordered(EmptyHealth)
         /\ Ordered(AfterSuccess(h, t))
         /\ Ordered(SuccessEvent(t))
         /\ Ordered(FailureEvent(h, t, n, m))
         /\ Ordered(AfterFailure(h, t, n, m))
         /\ Ordered(AfterConservativeFailure(h, t))
         /\ Ordered(Recovered(h))
         /\ Ordered([h EXCEPT !.disabledUntil = 0])
  <1> USE DEF Ordered, RouteHealthState
  <1>1. Ordered(EmptyHealth)
    BY DEF EmptyHealth
  <1>2. Ordered(AfterSuccess(h, t))
    BY DEF AfterSuccess, OlderOutcome
  <1>3. Ordered(SuccessEvent(t))
    BY DEF SuccessEvent, EmptyHealth
  <1>4. Ordered(FailureEvent(h, t, n, m))
    BY DEF FailureEvent, EmptyHealth
  <1>5. Ordered(AfterFailure(h, t, n, m))
    BY <1>4 DEF AfterFailure, FailureEvent, EmptyHealth
  <1>6. Ordered(AfterConservativeFailure(h, t))
    BY DEF AfterConservativeFailure
  <1>7. Ordered(Recovered(h)) /\ Ordered([h EXCEPT !.disabledUntil = 0])
    BY DEF Recovered
  <1> QED
    BY <1>1, <1>2, <1>3, <1>4, <1>5, <1>6, <1>7

LEMMA OrderedUpserts ==
  ASSUME NEW h \in RouteHealthState, NEW e \in RouteHealthState, Ordered(h), Ordered(e)
  PROVE  /\ Ordered(PersistOutcome(h, e))
         /\ Ordered(PersistConservativeFailure(h, e))
  BY DEF Ordered, RouteHealthState, PersistOutcome, PersistConservativeFailure, Later

\* What a step does to the shared rows, and which upsert does it.
LEMMA RowsEffect ==
  ASSUME TypeOK, [Next]_vars
  PROVE  \/ UNCHANGED db
         \/ \E g \in Gateway, c \in Channel :
               /\ job[g][c].phase \in {"success", "decided"}
               /\ db' = [db EXCEPT ![c] = PersistOutcome(@, job[g][c].event)]
         \/ \E g \in Gateway, c \in Channel :
               db' = [db EXCEPT ![c] = PersistConservativeFailure(@, job[g][c].state)]
         \/ \E g \in Gateway, c \in Channel :
               /\ c \in recovering[g] \ recovering'[g]
               /\ db' = [db EXCEPT ![c] = Recovered(@)]
         \/ \E c \in Channel : db' = [db EXCEPT ![c].disabledUntil = 0]
  <1>1. ASSUME NEW g \in Gateway, NEW c \in Channel,
               \/ \E kind \in {"success", "failure"} : Report(g, c, kind)
               \/ HandleSuccess(g, c) \/ HandleFailure(g, c) \/ DoRecover(g, c)
        PROVE  \/ UNCHANGED db
               \/ /\ job[g][c].phase \in {"success", "decided"}
                  /\ db' = [db EXCEPT ![c] = PersistOutcome(@, job[g][c].event)]
               \/ PersistConservative(g, c)
               \/ RecoverPersist(g, c)
    BY <1>1 DEF HandleSuccess, HandleFailure, DoRecover, Report, RecordSuccess,
         PersistSuccess, PersistSuccessFails, AcquireLock, DecideFailure,
         PersistFailure, PersistFailureUnanswered, RecordConservatively,
         PersistConservativeFails, FinishFailure, Recover, RecoverFails
  <1>2. ASSUME NEW g \in Gateway, NEW c \in Channel, RecoverPersist(g, c)
        PROVE  /\ c \in recovering[g] \ recovering'[g]
               /\ db' = [db EXCEPT ![c] = Recovered(@)]
    BY <1>2 DEF RecoverPersist, TypeOK
  <1>3. ASSUME NEW g \in Gateway, DoRefresh(g) \/ Crash(g)
        PROVE  UNCHANGED db \/ \E c \in Channel : db' = [db EXCEPT ![c].disabledUntil = 0]
    BY <1>3 DEF DoRefresh, RefreshStep, RefreshRead, RefreshJudge,
         RefreshInstall, RefreshFails, RefreshClear, Crash
  <1>4. CASE Tick \/ UNCHANGED vars
    BY <1>4 DEF Tick, vars
  <1> QED
    BY <1>1, <1>2, <1>3, <1>4 DEF Next, PersistConservative

LEMMA RowsOrdered ==
  ASSUME TypeOK, OrderInv, [Next]_vars
  PROVE  \A c \in Channel : Ordered(db'[c])
  <1>1. /\ \A c \in Channel : db[c] \in RouteHealthState /\ Ordered(db[c])
        /\ db \in [Channel -> RouteHealthState]
    BY DEF TypeOK, OrderInv
  <1>2. \A g \in Gateway, c \in Channel :
           /\ job[g][c].event \in RouteHealthState /\ Ordered(job[g][c].event)
           /\ job[g][c].state \in RouteHealthState /\ Ordered(job[g][c].state)
    BY DEF TypeOK, Job, OrderInv, OrderedJob
  <1>3. ASSUME NEW c \in Channel, NEW r, db' = [db EXCEPT ![c] = r], Ordered(r)
        PROVE  \A b \in Channel : Ordered(db'[b])
    BY <1>1, <1>3
  <1>4. ASSUME NEW g \in Gateway, NEW c \in Channel
        PROVE  /\ Ordered(PersistOutcome(db[c], job[g][c].event))
               /\ Ordered(PersistConservativeFailure(db[c], job[g][c].state))
    BY <1>1, <1>2, OrderedUpserts
  <1>5. ASSUME NEW c \in Channel
        PROVE  /\ Ordered(Recovered(db[c]))
               /\ Ordered([db[c] EXCEPT !.disabledUntil = 0])
    <2>1. 0 \in Nat /\ TRUE \in BOOLEAN
      OBVIOUS
    <2> QED
      BY <1>1, <2>1, OrderedFunctions
  <1> QED
    BY <1>1, <1>3, <1>4, <1>5, RowsEffect

LEMMA CopiesOrdered ==
  ASSUME TypeOK, QueueOK, OrderInv, [Next]_vars
  PROVE  \A g \in Gateway, c \in Channel : Ordered(routeHealth'[g][c])
  <1>1. /\ routeHealth \in [Gateway -> [Channel -> RouteHealthState]]
        /\ \A g \in Gateway, c \in Channel :
              /\ routeHealth[g][c] \in RouteHealthState
              /\ Ordered(routeHealth[g][c])
              /\ Ordered(refresh[g].rows[c])
              /\ Ordered(job[g][c].state)
    BY DEF TypeOK, OrderInv, OrderedJob
  <1>2. 0 \in Nat /\ TRUE \in BOOLEAN
    OBVIOUS
  <1>3. ASSUME NEW g \in Gateway, NEW c \in Channel, NEW r, Ordered(r),
               routeHealth' = [routeHealth EXCEPT ![g][c] = r]
        PROVE  \A h \in Gateway, b \in Channel : Ordered(routeHealth'[h][b])
    BY <1>1, <1>3
  <1>4. ASSUME NEW g \in Gateway, NEW c \in Channel, RecordSuccess(g, c)
        PROVE  \A h \in Gateway, b \in Channel : Ordered(routeHealth'[h][b])
    <2>1. Outcome1(g, c).at \in Nat
      BY <1>4, HeadTypes DEF RecordSuccess, MayStart
    <2>2. Ordered(AfterSuccess(routeHealth[g][c], Outcome1(g, c).at))
      BY <1>1, <1>2, <2>1, OrderedFunctions
    <2> QED
      BY <1>3, <1>4, <2>2 DEF RecordSuccess
  <1>5. ASSUME NEW g \in Gateway, NEW c \in Channel, FinishFailure(g, c)
        PROVE  \A h \in Gateway, b \in Channel : Ordered(routeHealth'[h][b])
    BY <1>1, <1>3, <1>5 DEF FinishFailure
  <1>6. ASSUME NEW g \in Gateway, NEW c \in Channel, Recover(g, c)
        PROVE  \A h \in Gateway, b \in Channel : Ordered(routeHealth'[h][b])
    <2>1. Ordered(Recovered(routeHealth[g][c]))
      BY <1>1, <1>2, OrderedFunctions
    <2> QED
      BY <1>3, <1>6, <2>1 DEF Recover
  <1>7. ASSUME NEW g \in Gateway, RefreshInstall(g)
        PROVE  \A h \in Gateway, b \in Channel : Ordered(routeHealth'[h][b])
    BY <1>1, <1>7 DEF RefreshInstall
  <1>8. ASSUME NEW g \in Gateway, Crash(g)
        PROVE  \A h \in Gateway, b \in Channel : Ordered(routeHealth'[h][b])
    <2>1. Ordered(EmptyHealth)
      BY DEF Ordered, EmptyHealth
    <2> QED
      BY <1>1, <1>8, <2>1 DEF Crash
  <1>9. CASE UNCHANGED routeHealth
    BY <1>1, <1>9
  <1>10. ASSUME NEW g \in Gateway, NEW c \in Channel,
                \/ \E kind \in {"success", "failure"} : Report(g, c, kind)
                \/ HandleSuccess(g, c) \/ HandleFailure(g, c) \/ DoRecover(g, c)
         PROVE  \/ UNCHANGED routeHealth
                \/ RecordSuccess(g, c) \/ FinishFailure(g, c) \/ Recover(g, c)
    BY <1>10 DEF HandleSuccess, HandleFailure, DoRecover, Report,
         PersistSuccess, PersistSuccessFails, AcquireLock, DecideFailure,
         PersistFailure, PersistFailureUnanswered, RecordConservatively,
         PersistConservative, PersistConservativeFails, RecoverPersist, RecoverFails
  <1>11. ASSUME NEW g \in Gateway, DoRefresh(g)
         PROVE  UNCHANGED routeHealth \/ RefreshInstall(g)
    BY <1>11 DEF DoRefresh, RefreshStep, RefreshRead, RefreshJudge, RefreshClear,
         RefreshFails
  <1>12. CASE Tick \/ UNCHANGED vars
    BY <1>9, <1>12 DEF Tick, vars
  <1> QED
    BY <1>4, <1>5, <1>6, <1>7, <1>8, <1>9, <1>10, <1>11, <1>12 DEF Next

LEMMA SnapshotsOrdered ==
  ASSUME TypeOK, OrderInv, [Next]_vars
  PROVE  \A g \in Gateway, c \in Channel : Ordered(refresh'[g].rows[c])
  <1>1. /\ refresh \in [Gateway -> Refresh]
        /\ \A g \in Gateway, c \in Channel :
              /\ refresh[g].rows[c] \in RouteHealthState
              /\ Ordered(refresh[g].rows[c])
        /\ \A c \in Channel : Ordered(db[c])
    BY DEF TypeOK, Refresh, OrderInv
  <1>2. ASSUME NEW g \in Gateway, NEW r, \A c \in Channel : Ordered(r.rows[c]),
               refresh' = [refresh EXCEPT ![g] = r]
        PROVE  \A h \in Gateway, c \in Channel : Ordered(refresh'[h].rows[c])
    BY <1>1, <1>2
  <1>3. \A c \in Channel : Ordered(NoRefresh.rows[c])
    BY DEF NoRefresh, Ordered, EmptyHealth
  <1>4. ASSUME NEW g \in Gateway, RefreshRead(g)
        PROVE  \A h \in Gateway, c \in Channel : Ordered(refresh'[h].rows[c])
    <2> DEFINE r == [refresh[g] EXCEPT !.phase = "read", !.rows = db]
    <2>1. refresh' = [refresh EXCEPT ![g] = r] /\ r.rows = db
      BY <1>1, <1>4 DEF RefreshRead, Refresh
    <2> HIDE DEF r
    <2> QED
      BY <1>1, <1>2, <2>1
  <1>5. ASSUME NEW g \in Gateway, RefreshJudge(g)
        PROVE  \A h \in Gateway, c \in Channel : Ordered(refresh'[h].rows[c])
    <2> DEFINE clears == Unjustified(g)
               rows == [c \in Channel |->
                          IF c \in clears THEN [refresh[g].rows[c] EXCEPT !.disabledUntil = 0]
                          ELSE refresh[g].rows[c]]
               r == [phase |-> "clearing", rows |-> rows, clears |-> clears]
    <2>1. refresh' = [refresh EXCEPT ![g] = r] /\ r.rows = rows
      BY <1>1, <1>5 DEF RefreshJudge
    <2>2. ASSUME NEW c \in Channel PROVE Ordered(rows[c])
      <3>1. 0 \in Nat /\ TRUE \in BOOLEAN
        OBVIOUS
      <3>2. Ordered([refresh[g].rows[c] EXCEPT !.disabledUntil = 0])
        BY <1>1, <3>1, OrderedFunctions
      <3> QED
        BY <1>1, <3>2
    <2> HIDE DEF r, rows
    <2> QED
      BY <1>2, <2>1, <2>2
  <1>6. ASSUME NEW g \in Gateway, NEW c \in Channel, RefreshClear(g, c)
        PROVE  \A h \in Gateway, b \in Channel : Ordered(refresh'[h].rows[b])
    <2> DEFINE r == [refresh[g] EXCEPT !.clears = @ \ {c}]
    <2>1. refresh' = [refresh EXCEPT ![g] = r] /\ r.rows = refresh[g].rows
      BY <1>1, <1>6 DEF RefreshClear, Refresh
    <2> HIDE DEF r
    <2> QED
      BY <1>1, <1>2, <2>1
  <1>7. ASSUME NEW g \in Gateway, RefreshInstall(g) \/ RefreshFails(g) \/ Crash(g)
        PROVE  \A h \in Gateway, c \in Channel : Ordered(refresh'[h].rows[c])
    BY <1>2, <1>3, <1>7 DEF RefreshInstall, RefreshFails, Crash
  <1>8. CASE UNCHANGED refresh
    BY <1>1, <1>8
  <1>9. ASSUME NEW g \in Gateway, NEW c \in Channel,
               \/ \E kind \in {"success", "failure"} : Report(g, c, kind)
               \/ HandleSuccess(g, c) \/ HandleFailure(g, c) \/ DoRecover(g, c)
        PROVE  UNCHANGED refresh
    BY <1>9 DEF HandleSuccess, HandleFailure, DoRecover, Report, RecordSuccess,
         PersistSuccess, PersistSuccessFails, AcquireLock, DecideFailure,
         PersistFailure, PersistFailureUnanswered, RecordConservatively,
         PersistConservative, PersistConservativeFails, FinishFailure,
         Recover, RecoverPersist, RecoverFails
  <1>10. CASE Tick \/ UNCHANGED vars
    BY <1>8, <1>10 DEF Tick, vars
  <1> QED
    BY <1>4, <1>5, <1>6, <1>7, <1>8, <1>9, <1>10 DEF Next, DoRefresh, RefreshStep

LEMMA JobsOrdered ==
  ASSUME TypeOK, QueueOK, OrderInv, [Next]_vars
  PROVE  \A g \in Gateway, c \in Channel : OrderedJob(job'[g][c])
  <1>1. /\ job \in [Gateway -> [Channel -> Job]]
        /\ \A g \in Gateway, c \in Channel : job[g][c] \in Job /\ OrderedJob(job[g][c])
        /\ \A c \in Channel : db[c] \in RouteHealthState /\ Ordered(db[c])
        /\ \A g \in Gateway, c \in Channel :
              routeHealth[g][c] \in RouteHealthState /\ Ordered(routeHealth[g][c])
        /\ now \in Nat
    BY DEF TypeOK, OrderInv
  <1>2. 0 \in Nat /\ TRUE \in BOOLEAN
    OBVIOUS
  <1>3. ASSUME NEW g \in Gateway, NEW c \in Channel, NEW j, OrderedJob(j),
               job' = [job EXCEPT ![g][c] = j]
        PROVE  \A h \in Gateway, b \in Channel : OrderedJob(job'[h][b])
    BY <1>1, <1>3
  <1>4. OrderedJob(NoJob)
    BY DEF OrderedJob, NoJob, Ordered, EmptyHealth
  <1>5. ASSUME NEW g \in Gateway, NEW c \in Channel, RecordSuccess(g, c)
        PROVE  \A h \in Gateway, b \in Channel : OrderedJob(job'[h][b])
    <2> DEFINE t == Outcome1(g, c).at
               j == [NoJob EXCEPT !.phase = "success", !.event = SuccessEvent(t)]
    <2>1. t \in Nat
      BY <1>5, HeadTypes DEF RecordSuccess, MayStart
    <2>2. Ordered(SuccessEvent(t)) /\ Ordered(EmptyHealth)
      BY <1>1, <1>2, <2>1, OrderedFunctions
    <2>3. SuccessEvent(t).lastSuccessAt = SuccessEvent(t).lastOutcomeAt
      BY DEF SuccessEvent, EmptyHealth
    <2>4. j.phase = "success" /\ j.event = SuccessEvent(t) /\ j.state = EmptyHealth
      BY DEF NoJob
    <2>5. job' = [job EXCEPT ![g][c] = j]
      BY <1>5 DEF RecordSuccess
    <2> HIDE DEF j, t
    <2>6. OrderedJob(j)
      BY <2>2, <2>3, <2>4 DEF OrderedJob
    <2> QED
      BY <1>3, <2>5, <2>6
  <1>6. ASSUME NEW g \in Gateway, NEW c \in Channel, NEW phase,
               phase \in {"locked", "done"}, SetPhase(g, c, phase)
        PROVE  \A h \in Gateway, b \in Channel : OrderedJob(job'[h][b])
    <2> DEFINE j == [job[g][c] EXCEPT !.phase = phase]
    <2>1. job' = [job EXCEPT ![g][c] = j]
      BY <1>1, <1>6 DEF SetPhase
    <2>2. j.phase = phase /\ j.event = job[g][c].event /\ j.state = job[g][c].state
      BY <1>1 DEF Job
    <2> HIDE DEF j
    <2>3. OrderedJob(j)
      BY <1>1, <1>6, <2>2 DEF OrderedJob
    <2> QED
      BY <1>3, <2>1, <2>3
  <1>7. ASSUME NEW g \in Gateway, NEW c \in Channel, DecideFailure(g, c)
        PROVE  \A h \in Gateway, b \in Channel : OrderedJob(job'[h][b])
    <2> DEFINE t == Outcome1(g, c).at
               m == g \in AutoGateway /\ HasHealthyFallback(c, db, now)
               j == [phase |-> "decided", event |-> FailureEvent(db[c], t, now, m),
                     state |-> AfterFailure(db[c], t, now, m)]
    <2>1. t \in Nat
      <3>1. pending[g][c] # <<>>
        BY <1>7 DEF DecideFailure, QueueOK
      <3> QED
        BY <3>1, HeadTypes
    <2>2. m \in BOOLEAN
      BY DEF HasHealthyFallback
    <2>3. job' = [job EXCEPT ![g][c] = j]
      BY <1>7 DEF DecideFailure
    <2>4. j.phase = "decided" /\ j.event = FailureEvent(db[c], t, now, m)
          /\ j.state = AfterFailure(db[c], t, now, m)
      OBVIOUS
    <2> HIDE DEF j, m, t
    <2>5. Ordered(FailureEvent(db[c], t, now, m)) /\ Ordered(AfterFailure(db[c], t, now, m))
      BY <1>1, <2>1, <2>2, OrderedFunctions
    <2>6. FailureEvent(db[c], t, now, m).consecutiveErrors # 0
      BY <1>1, ThresholdAssumption DEF FailureEvent, EmptyHealth, OneMore, RouteHealthState
    <2>7. OrderedJob(j)
      BY <2>4, <2>5, <2>6 DEF OrderedJob
    <2> QED
      BY <1>3, <2>3, <2>7
  <1>8. ASSUME NEW g \in Gateway, NEW c \in Channel,
               job' = [job EXCEPT ![g][c] = ConservativeJob(g, c)],
               MayStart(g, c, "failure") \/ job[g][c].phase \in {"locked", "decided"}
        PROVE  \A h \in Gateway, b \in Channel : OrderedJob(job'[h][b])
    <2> DEFINE t == Outcome1(g, c).at
    <2>1. t \in Nat
      <3>1. pending[g][c] # <<>>
        BY <1>8 DEF MayStart, QueueOK
      <3> QED
        BY <3>1, HeadTypes
    <2>2. /\ ConservativeJob(g, c).phase = "conservative"
          /\ ConservativeJob(g, c).event = EmptyHealth
          /\ ConservativeJob(g, c).state = AfterConservativeFailure(routeHealth[g][c], t)
      BY DEF ConservativeJob, NoJob
    <2> HIDE DEF t
    <2>3. Ordered(EmptyHealth) /\ Ordered(AfterConservativeFailure(routeHealth[g][c], t))
      BY <1>1, <1>2, <2>1, OrderedFunctions
    <2>4. OrderedJob(ConservativeJob(g, c))
      BY <2>2, <2>3 DEF OrderedJob
    <2> QED
      BY <1>3, <1>8, <2>4
  <1>9. ASSUME NEW g \in Gateway, NEW c \in Channel, EndJob(g, c)
        PROVE  \A h \in Gateway, b \in Channel : OrderedJob(job'[h][b])
    BY <1>3, <1>4, <1>9 DEF EndJob
  <1>10. ASSUME NEW g \in Gateway, Crash(g)
         PROVE  \A h \in Gateway, b \in Channel : OrderedJob(job'[h][b])
    BY <1>1, <1>4, <1>10 DEF Crash
  <1>11. CASE UNCHANGED job
    BY <1>1, <1>11
  <1>12. ASSUME NEW g \in Gateway, NEW c \in Channel,
                \/ \E kind \in {"success", "failure"} : Report(g, c, kind)
                \/ HandleSuccess(g, c) \/ DoRecover(g, c)
         PROVE  UNCHANGED job \/ RecordSuccess(g, c) \/ EndJob(g, c)
    BY <1>12 DEF HandleSuccess, DoRecover, Report, PersistSuccess, PersistSuccessFails,
         Recover, RecoverPersist, RecoverFails
  <1>13. ASSUME NEW g \in Gateway, NEW c \in Channel, HandleFailure(g, c)
         PROVE  \A h \in Gateway, b \in Channel : OrderedJob(job'[h][b])
    <2>1. CASE AcquireLock(g, c)
      BY <1>6, <2>1 DEF AcquireLock
    <2>2. CASE DecideFailure(g, c)
      BY <1>7, <2>2
    <2>3. CASE PersistFailure(g, c) \/ PersistConservative(g, c)
                 \/ PersistConservativeFails(g, c)
      BY <1>6, <2>3 DEF PersistFailure, PersistConservative, PersistConservativeFails
    <2>4. CASE PersistFailureUnanswered(g, c) \/ RecordConservatively(g, c)
      BY <1>8, <2>4 DEF PersistFailureUnanswered, RecordConservatively
    <2>5. CASE FinishFailure(g, c)
      BY <1>9, <2>5 DEF FinishFailure
    <2> QED
      BY <1>13, <2>1, <2>2, <2>3, <2>4, <2>5 DEF HandleFailure
  <1>14. ASSUME NEW g \in Gateway, DoRefresh(g)
         PROVE  UNCHANGED job
    BY <1>14 DEF DoRefresh, RefreshStep, RefreshRead, RefreshJudge, RefreshInstall,
         RefreshClear, RefreshFails
  <1>15. CASE Tick \/ UNCHANGED vars
    BY <1>11, <1>15 DEF Tick, vars
  <1> QED
    BY <1>5, <1>9, <1>10, <1>11, <1>12, <1>13, <1>14, <1>15 DEF Next

LEMMA InitOrder == Init => OrderInv
  BY DEF Init, OrderInv, OrderedJob, Ordered, EmptyHealth, NoJob, NoRefresh

LEMMA OrderKept == Spec => [](IInv /\ OrderInv)
  <1>1. ASSUME IInv, OrderInv, [Next]_vars PROVE OrderInv'
    <2>1. TypeOK /\ QueueOK
      BY <1>1 DEF IInv
    <2> QED
      BY <1>1, <2>1, RowsOrdered, CopiesOrdered, SnapshotsOrdered, JobsOrdered
      DEF OrderInv
  <1> QED
    BY <1>1, InitOrder, Inductive, PTL DEF Spec

\* A delayed success never resets a newer failure: whatever the instances know
\* and in whatever order their upserts arrive, a count goes down to zero only by
\* a success at least as new as every stored failure, or by an administrator.
THEOREM NewerFailuresSurvive == Spec => NewerFailureSurvives
  <1>1. ASSUME IInv, OrderInv, [Next]_vars,
               NEW c \in Channel, db[c].consecutiveErrors # 0, db'[c].consecutiveErrors = 0
        PROVE  \/ db'[c].lastSuccessAt >= db[c].lastFailureAt
               \/ \E g \in Gateway : c \in recovering[g] \ recovering'[g]
    <2> DEFINE Goal == \/ db'[c].lastSuccessAt >= db[c].lastFailureAt
                       \/ \E g \in Gateway : c \in recovering[g] \ recovering'[g]
    <2>1. /\ TypeOK /\ db \in [Channel -> RouteHealthState]
          /\ db[c] \in RouteHealthState /\ Ordered(db[c])
      BY <1>1 DEF IInv, TypeOK, OrderInv
    <2>2. \A g \in Gateway : job[g][c] \in Job /\ OrderedJob(job[g][c])
      BY <1>1 DEF IInv, TypeOK, OrderInv
    <2>3. ASSUME NEW g \in Gateway, job[g][c].phase \in {"success", "decided"},
                 db'[c] = PersistOutcome(db[c], job[g][c].event)
          PROVE  Goal
      <3> DEFINE e == job[g][c].event
      <3>1. /\ e \in RouteHealthState /\ Ordered(e)
            /\ e.lastSuccessAt = e.lastOutcomeAt \/ e.consecutiveErrors # 0
        BY <2>2, <2>3 DEF Job, OrderedJob
      <3> HIDE DEF e
      <3>2. db'[c] = PersistOutcome(db[c], e)
        BY <2>3 DEF e
      <3>3. db'[c].lastSuccessAt >= db[c].lastFailureAt
        BY <1>1, <2>1, <3>1, <3>2 DEF PersistOutcome, Later, Ordered, RouteHealthState
      <3> QED
        BY <3>3
    <2>4. ASSUME NEW g \in Gateway,
                 db'[c] = PersistConservativeFailure(db[c], job[g][c].state)
          PROVE  FALSE
      BY <1>1, <2>1, <2>4, ThresholdAssumption
      DEF PersistConservativeFailure, OneMore, RouteHealthState
    <2>5. ASSUME db'[c] = [db[c] EXCEPT !.disabledUntil = 0] PROVE FALSE
      BY <1>1, <2>1, <2>5 DEF RouteHealthState
    <2>6. CASE UNCHANGED db
      BY <1>1, <2>6
    <2>7. ASSUME NEW b \in Channel, NEW r, db' = [db EXCEPT ![b] = r]
          PROVE  b = c /\ db'[c] = r
      BY <1>1, <2>1, <2>7
    <2> QED
      BY <2>1, <2>3, <2>4, <2>5, <2>6, <2>7, <1>1, RowsEffect
  <1>2. ASSUME IInv, OrderInv, [Next]_vars
        PROVE  [\A c \in Channel :
                  db[c].consecutiveErrors # 0 /\ db'[c].consecutiveErrors = 0 =>
                     \/ db'[c].lastSuccessAt >= db[c].lastFailureAt
                     \/ \E g \in Gateway : c \in recovering[g] \ recovering'[g]]_vars
    BY <1>1, <1>2
  <1> QED
    BY <1>2, OrderKept, PTL DEF Spec, NewerFailureSurvives

=============================================================================
