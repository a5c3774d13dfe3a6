---------------------------- MODULE RouteHealth ----------------------------
(***************************************************************************)
(* One row of channel_route_health and the pure functions that             *)
(* ChannelPoolService (channel-pool.service.ts) computes on it.            *)
(*                                                                         *)
(* A row is the health of one path: a channel serving one model identity   *)
(* over one protocol.  Timestamps are clock values; 0 stands for SQL NULL, *)
(* and a row that does not exist yet is EmptyHealth, because the INSERT    *)
(* branch of every upsert writes what the UPDATE branch writes to an empty *)
(* row.  consecutiveErrors is only ever compared with 0 and with the       *)
(* threshold, so it saturates there.  totalRequests, failedRequests and    *)
(* the per-channel display summary take no part in any routing decision    *)
(* and are left out.                                                       *)
(***************************************************************************)
EXTENDS Naturals

CONSTANTS
    Threshold,   \* consecutive failures that may open a circuit (3 in the code)
    DisableFor   \* config.relay.channelDisableSeconds, in clock units

ASSUME ThresholdAssumption == Threshold \in Nat \ {0}
ASSUME DisableForAssumption == DisableFor \in Nat \ {0}

RouteHealthState ==
    [consecutiveErrors : 0..Threshold, disabledUntil : Nat,
     lastSuccessAt : Nat, lastFailureAt : Nat, lastOutcomeAt : Nat]

EmptyHealth ==
    [consecutiveErrors |-> 0, disabledUntil |-> 0,
     lastSuccessAt |-> 0, lastFailureAt |-> 0, lastOutcomeAt |-> 0]

Later(a, b) == IF a >= b THEN a ELSE b

\* Faulty variant: a failure is counted twice.
OneMoreTwice(errors) == errors + 2

OneMore(errors) == IF errors < Threshold THEN errors + 1 ELSE errors

\* The path is out of rotation at time t.
IsOpen(health, t) == health.disabledUntil > t

\* The outcome reported at time t happened before the last one the row knows.
OlderOutcome(health, t) == health.lastOutcomeAt > t

\* What a success at time t makes of the row this instance holds.
AfterSuccess(health, t) ==
    IF OlderOutcome(health, t)
    THEN health
    ELSE [health EXCEPT !.consecutiveErrors = 0, !.disabledUntil = 0,
                        !.lastSuccessAt = t, !.lastOutcomeAt = t]

\* The values a success at time t hands to the upsert.
SuccessEvent(t) ==
    [EmptyHealth EXCEPT !.lastSuccessAt = t, !.lastOutcomeAt = t]

\* Faulty variant: any route that is known at all counts as a fallback.
IsKnownFallback(health, t) == health.lastOutcomeAt # 0

\* A verified fallback: it has succeeded, not failed since, and is in rotation.
IsHealthyFallback(health, t) ==
    /\ health.lastSuccessAt # 0
    /\ health.lastSuccessAt >= health.lastFailureAt
    /\ health.consecutiveErrors = 0
    /\ ~IsOpen(health, t)

\* The circuit a locked failure at time t writes, decided at time now on the
\* row it read and on whether another binding is a verified fallback.
DecidedCircuit(health, t, now, mayOpen) ==
    IF OlderOutcome(health, t) \/ IsOpen(health, now)
    THEN health.disabledUntil
    ELSE IF mayOpen /\ OneMore(health.consecutiveErrors) >= Threshold
         THEN now + DisableFor
         ELSE 0

\* The values a locked failure hands to the upsert.
FailureEvent(health, t, now, mayOpen) ==
    [EmptyHealth EXCEPT
        !.consecutiveErrors = OneMore(health.consecutiveErrors),
        !.disabledUntil = DecidedCircuit(health, t, now, mayOpen),
        !.lastFailureAt = t, !.lastOutcomeAt = t]

\* The row the instance keeps after a locked failure.
AfterFailure(health, t, now, mayOpen) ==
    IF OlderOutcome(health, t)
    THEN health
    ELSE [FailureEvent(health, t, now, mayOpen)
            EXCEPT !.lastSuccessAt = health.lastSuccessAt]

\* The row the instance keeps after a failure it could not check against the
\* shared state: no circuit is opened and its own one is closed.
AfterConservativeFailure(health, t) ==
    IF OlderOutcome(health, t)
    THEN [health EXCEPT !.disabledUntil = 0]
    ELSE [health EXCEPT !.consecutiveErrors = OneMore(@), !.disabledUntil = 0,
                        !.lastFailureAt = t, !.lastOutcomeAt = t]

\* Faulty variant: the last writer wins, whatever it reports on.
PersistOutcomeBlindly(row, event) ==
    [event EXCEPT !.lastSuccessAt = Later(@, row.lastSuccessAt),
                  !.lastFailureAt = Later(@, row.lastFailureAt)]

\* The upsert: the newest outcome decides the count and the circuit, the two
\* timestamps are merged independently.
PersistOutcome(row, event) ==
    LET wins == row.lastOutcomeAt <= event.lastOutcomeAt
    IN  [consecutiveErrors |->
            IF wins THEN event.consecutiveErrors ELSE row.consecutiveErrors,
         disabledUntil |->
            IF wins THEN event.disabledUntil ELSE row.disabledUntil,
         lastSuccessAt |-> Later(row.lastSuccessAt, event.lastSuccessAt),
         lastFailureAt |-> Later(row.lastFailureAt, event.lastFailureAt),
         lastOutcomeAt |-> Later(row.lastOutcomeAt, event.lastOutcomeAt)]

\* The upsert of a failure that could not take the lock.  It counts on the
\* stored row, never on this instance's copy; its timestamps are those of the
\* copy it kept, which for an older outcome are the copy's own.
PersistConservativeFailure(row, kept) ==
    LET wins == row.lastOutcomeAt <= kept.lastOutcomeAt
    IN  [row EXCEPT
            !.consecutiveErrors = IF wins THEN OneMore(@) ELSE @,
            !.disabledUntil = IF wins THEN 0 ELSE @,
            !.lastFailureAt = Later(@, kept.lastFailureAt),
            !.lastOutcomeAt = Later(@, kept.lastOutcomeAt)]

\* Faulty variant: recovery resets the count and forgets the marker.
RecoveredCountOnly(health) == [health EXCEPT !.consecutiveErrors = 0]

\* What the administrator's recover does to a row, in memory and in SQL.
Recovered(health) ==
    [health EXCEPT !.consecutiveErrors = 0, !.disabledUntil = 0]
=============================================================================
