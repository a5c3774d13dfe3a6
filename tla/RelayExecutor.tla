---------------------------- MODULE RelayExecutor ----------------------------
(***************************************************************************)
(* RelayExecutor.execute (relay-executor.ts): relayed requests of one      *)
(* model and protocol in one gateway, each trying up to MaxTries channels, *)
(* all of them turning the same rotation (ChannelPoolService.pick) and     *)
(* interleaved at the awaits of the upstream and of recordFailure.         *)
(*                                                                         *)
(* Circuits, refreshes and administrators take channels out of the         *)
(* rotation and put them back at any time: Leave and Return stand for the  *)
(* steps of CircuitBreaker.  What is recorded of an outcome is modelled    *)
(* there as well; here a reported failure is only waited for.              *)
(***************************************************************************)
EXTENDS RoutePick, FiniteSets, Sequences, Functions

CONSTANTS
    Request,
    Channel,   \* numbers, in the order of the bindings
    Weight,    \* of each channel, its configured weight
    Priority,
    MaxTries   \* config.relay.maxTries

ASSUME ChannelAssumption ==
    /\ Channel \subseteq Nat /\ IsFiniteSet(Channel)
    /\ Weight \in [Channel -> Nat \ {0}]
    /\ Priority \in [Channel -> Int]
ASSUME TriesAssumption == MaxTries \in Nat \ {0}

VARIABLES
    available, \* the channels pick does not skip
    weights,   \* bindingWeights
    run        \* what each execute holds across its awaits

vars == <<available, weights, run>>

\* A "refusal" is an upstream_error with a status that is the request's fault.
Results == {"none", "success", "refusal", "no_channel", "upstream_error",
            "transport_error", "client_abort"}

\* tried is the channels picked, in order: attemptedChannelIds are its
\* members, the last one is being tried, and its length counts the attempts.
NoRun == [phase |-> "ended", tried |-> <<>>, failed |-> {}, headers |-> FALSE,
          error |-> "none", result |-> "none", stayed |-> {}]

RunOK(state) ==
    /\ DOMAIN state = DOMAIN NoRun
    /\ state.phase \in {"forwarding", "recording", "ended"}
    /\ state.tried \in Seq(Channel) /\ Len(state.tried) <= MaxTries
    /\ state.failed \subseteq Range(state.tried) \* failedChannelIds
    /\ state.headers \in BOOLEAN                 \* res.headersSent
    /\ state.error \in Results                   \* of the last attempt
    /\ state.result \in Results
    /\ state.stayed \subseteq Channel  \* history: in the rotation ever since

Init ==
    /\ available = Channel
    /\ weights = [c \in Channel |-> 0]
    /\ run = [r \in Request |-> NoRun]

-----------------------------------------------------------------------------
Picked(state) == state.tried[Len(state.tried)]

\* execute returns; its own sets are gone.
End(r, state, result) ==
    /\ run' = [run EXCEPT ![r] =
                  [NoRun EXCEPT !.headers = state.headers, !.result = result]]
    /\ UNCHANGED weights

\* pick, and the call of forward that follows it without an await.
Forward(r, state) ==
    LET list == Level(Priority, Candidates(available, Range(state.tried)))
        raised == Raised(weights, Weight, Priority, list)
        picked == Selected(raised, list)
    IN  /\ weights' = Spent(raised, Weight, list)
        /\ run' = [run EXCEPT ![r] =
                      [state EXCEPT !.phase = "forwarding",
                                    !.tried = Append(@, picked),
                                    !.error = "none"]]

\* One turn of the loop.
Try(r, state) ==
    \/ available = {} /\ End(r, state, "no_channel")
    \/ available # {} /\ Forward(r, state)

\* Faulty variant: the retry does not look at what the client has been sent.
ContinueAnyway(r, state) ==
    IF Len(state.tried) = MaxTries
    THEN End(r, state, state.error)
    ELSE Try(r, state)

\* Faulty variant: the last attempt is counted wrong.
ContinueOnceMore(r, state) ==
    IF state.headers \/ Len(state.tried) > MaxTries
    THEN End(r, state, state.error)
    ELSE Try(r, state)

\* After a failure that may be retried and that has been recorded.
Continue(r, state) ==
    IF state.headers \/ Len(state.tried) = MaxTries
    THEN End(r, state, state.error)
    ELSE Try(r, state)

-----------------------------------------------------------------------------
Start(r) ==
    /\ run[r].phase = "ended"
    /\ Try(r, [NoRun EXCEPT !.stayed = available])
    /\ UNCHANGED available

Succeed(r) ==
    /\ run[r].phase = "forwarding"
    /\ End(r, [run[r] EXCEPT !.headers = TRUE], "success")
    /\ UNCHANGED available

\* A status that is the request's own fault: neither recorded nor retried.
Refused(r) ==
    /\ run[r].phase = "forwarding"
    /\ End(r, run[r], "refusal")
    /\ UNCHANGED available

\* The client may leave before or after it was sent anything.
Abort(r) ==
    /\ run[r].phase = "forwarding"
    /\ \E headers \in BOOLEAN :
           End(r, [run[r] EXCEPT !.headers = headers], "client_abort")
    /\ UNCHANGED available

\* An answer that is the channel's fault, or none at all.  A stream may have
\* sent the client its beginning before it breaks, and the Messages stream also
\* before it ends with an event that says the upstream failed.
Failures(r) ==
    {[run[r] EXCEPT !.error = end.error, !.headers = end.headers] :
         end \in [error : {"upstream_error", "transport_error"}, headers : BOOLEAN]}

\* The first failure of a channel in this request is recorded and waited for.
Fail(r) ==
    /\ run[r].phase = "forwarding"
    /\ \E state \in Failures(r) :
           \/ /\ Picked(state) \in state.failed
              /\ Continue(r, state)
           \/ /\ Picked(state) \notin state.failed
              /\ run' = [run EXCEPT ![r] =
                            [state EXCEPT !.phase = "recording",
                                          !.failed = @ \union {Picked(state)}]]
              /\ UNCHANGED weights
    /\ UNCHANGED available

\* recordFailure returned or threw: recordFailureSafely goes on either way.
Recorded(r) ==
    /\ run[r].phase = "recording"
    /\ Continue(r, run[r])
    /\ UNCHANGED available

\* A channel is disabled, removed or its circuit opened.
Leave(c) ==
    /\ c \in available
    /\ available' = available \ {c}
    /\ run' = [r \in Request |-> [run[r] EXCEPT !.stayed = @ \ {c}]]
    /\ UNCHANGED weights

Return(c) ==
    /\ c \notin available
    /\ available' = available \union {c}
    /\ UNCHANGED <<weights, run>>

Next ==
    \/ \E r \in Request :
           Start(r) \/ Succeed(r) \/ Refused(r) \/ Abort(r) \/ Fail(r) \/ Recorded(r)
    \/ \E c \in Channel : Leave(c) \/ Return(c)

Spec == Init /\ [][Next]_vars

-----------------------------------------------------------------------------
TypeOK ==
    /\ available \subseteq Channel
    /\ weights \in [Channel -> Int]
    /\ \A r \in Request : RunOK(run[r])

\* A request ends with an error that another channel might have made good
\* only when it tried as often as it may, without trying one channel twice
\* while another one waited in the rotation all the time, or when no channel
\* was there all the time.  The channels that come and go while it waits and
\* the requests that turn the rotation in between cost it no attempt.
GivesUp(r) ==
    /\ run[r].phase # "ended" /\ run'[r].phase = "ended" /\ ~run'[r].headers
    /\ run'[r].result \in {"no_channel", "upstream_error", "transport_error"}

NeverGivesUpEarly ==
    [][\A r \in Request :
           GivesUp(r) =>
               \/ run[r].stayed = {}
               \/ /\ Len(run[r].tried) = MaxTries
                  /\ \/ run[r].stayed \subseteq Range(run[r].tried)
                     \/ IsInjective(run[r].tried)]_vars

\* A channel is tried only after every channel of a higher priority that was
\* in the rotation all the time (the failover order of the bindings).
BestFirst ==
    \A r \in Request :
        \A c \in Range(run[r].tried), d \in run[r].stayed :
            Priority[d] > Priority[c] => d \in Range(run[r].tried)

\* What the requests exclude and forget in the weights they share adds up to
\* no drift: no current weight leaves the range of as many turns as there are
\* channels.  (One turn is not enough for every set of weights: of three
\* channels that weigh 8, 1 and 1 one may come to owe 1.5 turns.)
WeightsBounded ==
    LET range == Cardinality(Channel) * TotalWeight(Weight, Channel)
    IN  \A c \in Channel : -range <= weights[c] /\ weights[c] <= range

\* Requests that retry side by side take the best channels first and leave the shared
\* weights in order.
PicksAreFair == BestFirst /\ WeightsBounded

\* Once the client was sent something no other channel is called: the answer
\* of a second one would be appended to the beginning of the first.
NothingAfterHeaders ==
    [][\A r \in Request :
           Len(run'[r].tried) > Len(run[r].tried) => ~run'[r].headers]_vars
=============================================================================
