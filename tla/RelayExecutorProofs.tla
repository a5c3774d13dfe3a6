------------------------- MODULE RelayExecutorProofs -------------------------
(***************************************************************************)
(* Proofs about the relayed requests, for any number of requests, channels *)
(* and attempts and any weights and priorities: what one request picks and *)
(* when it gives up, and that the weights they all turn stay bounded.      *)
(***************************************************************************)
EXTENDS RelayExecutor, Sums

\* No channel is tried twice while another one waited all the time.
FreshFirst(state) ==
    state.stayed \subseteq Range(state.tried) \/ IsInjective(state.tried)

Best(state) ==
    \A c \in Range(state.tried), d \in state.stayed :
        Priority[d] > Priority[c] => d \in Range(state.tried)

RunInv(state) ==
    /\ RunOK(state)
    /\ state.phase # "ended" => state.tried # <<>>
    /\ state.stayed \subseteq available
    /\ FreshFirst(state)
    /\ Best(state)

ExecutorInv == TypeOK /\ DOMAIN run = Request /\ \A r \in Request : RunInv(run[r])

Retryable == {"no_channel", "upstream_error", "transport_error"}

\* A request may give up now.
MayGiveUp(r) ==
    \/ run[r].stayed = {}
    \/ Len(run[r].tried) = MaxTries /\ FreshFirst(run[r])

\* What becomes of the record of a request in one of its steps.
StepFine(r, next) ==
    /\ Len(next.tried) > Len(run[r].tried) => ~next.headers
    /\ \/ run[r].phase = "ended" \/ next.phase # "ended" \/ next.headers
       \/ next.result \notin Retryable
       \/ MayGiveUp(r)

LEMMA NoRunIsFine == RunInv(NoRun)
BY TriesAssumption
   DEF RunInv, RunOK, NoRun, FreshFirst, Best, Range, Results

\* What execute tries the next channel with.
MayTry(state) ==
    /\ RunOK(state) /\ Len(state.tried) < MaxTries
    /\ state.stayed \subseteq available
    /\ FreshFirst(state) /\ Best(state)

LEMMA AppendRange ==
    ASSUME NEW S, NEW q \in Seq(S), NEW e \in S
    PROVE  /\ Append(q, e) \in Seq(S) /\ Len(Append(q, e)) = Len(q) + 1
           /\ Range(Append(q, e)) = Range(q) \union {e}
           /\ IsInjective(q) /\ e \notin Range(q) => IsInjective(Append(q, e))
<1>1. Append(q, e) \in Seq(S) /\ Len(Append(q, e)) = Len(q) + 1 /\ Len(q) \in Nat
  OBVIOUS
<1>2. /\ \A i \in 1..Len(q) : Append(q, e)[i] = q[i]
      /\ Append(q, e)[Len(q) + 1] = e
  OBVIOUS
<1>3. DOMAIN q = 1..Len(q) /\ DOMAIN Append(q, e) = 1..(Len(q) + 1)
  BY <1>1
<1>4. 1..(Len(q) + 1) = 1..Len(q) \union {Len(q) + 1}
  BY <1>1
<1>5. Range(Append(q, e)) = Range(q) \union {e}
  BY <1>2, <1>3, <1>4 DEF Range
<1>6. ASSUME IsInjective(q), e \notin Range(q) PROVE IsInjective(Append(q, e))
  BY <1>1, <1>2, <1>3, <1>4, <1>6 DEF IsInjective, Range
<1> QED
  BY <1>1, <1>5, <1>6

LEMMA SeqTyped ==
    ASSUME NEW S, NEW q \in Seq(S)
    PROVE  Range(q) \subseteq S
BY DEF Range

\* The line of a pick: some of the available channels, of one priority.
LEMMA LineOfPick ==
    ASSUME TypeOK, available # {}, NEW tried,
           NEW list, list = Level(Priority, Candidates(available, tried))
    PROVE  /\ list \subseteq available /\ list # {}
           /\ available \subseteq tried \/ list \cap tried = {}
           /\ \A c \in list, d \in available \ tried : Priority[d] <= Priority[c]
           /\ \A c, d \in list : Priority[c] = Priority[d]
<1> DEFINE candidates == Candidates(available, tried)
<1>1. /\ candidates \subseteq available /\ candidates # {}
      /\ available \subseteq tried \/ candidates = available \ tried
  BY DEF Candidates
<1>2. IsFiniteSet(candidates) /\ candidates \subseteq Channel
  BY <1>1, ChannelAssumption, FS_Subset DEF TypeOK
<1>3. \A c \in candidates : Priority[c] \in Int
  BY <1>2, ChannelAssumption
<1> HIDE DEF candidates
<1>4. PICK m \in candidates : \A d \in candidates : Priority[d] <= Priority[m]
  BY <1>1, <1>2, <1>3, LargestExists
<1>5. list = {c \in candidates : \A d \in candidates : Priority[d] <= Priority[c]}
  BY DEF Level, candidates
<1>6. m \in list
  BY <1>4, <1>5
<1>7. \A c \in list, d \in candidates : Priority[d] <= Priority[c]
  BY <1>5
<1>8. \A c, d \in list : Priority[c] = Priority[d]
  BY <1>3, <1>5
<1> QED
  BY <1>1, <1>5, <1>6, <1>7, <1>8

\* The selected channel is one of the list, and none has a larger current weight.
LEMMA SelectedIsLargest ==
    ASSUME NEW list, IsFiniteSet(list), list # {}, list \subseteq Int,
           NEW raised, \A x \in list : raised[x] \in Int,
           NEW picked, picked = Selected(raised, list)
    PROVE  picked \in list /\ \A d \in list : raised[d] <= raised[picked]
<1>1. picked = Min({c \in list : \A d \in list : raised[d] <= raised[c]})
  BY DEF Selected
<1> QED
  BY <1>1, FirstOfLargest

\* What a pick does to the current weights of the channels.
LEMMA PickOfLine ==
    ASSUME TypeOK, NEW list, list \subseteq Channel, list # {},
           NEW raised, raised = Raised(weights, Weight, Priority, list),
           NEW picked, picked = Selected(raised, list),
           NEW total, total = TotalWeight(Weight, list)
    PROVE  /\ picked \in list /\ total \in Nat
           /\ raised \in [Channel -> Int]
           /\ \A c \in list : raised[c] = weights[c] + Weight[c] /\ raised[c] <= raised[picked]
           /\ Spent(raised, Weight, list) \in [Channel -> Int]
           /\ Spent(raised, Weight, list) = [raised EXCEPT ![picked] = @ - total]
<1>1. weights \in [Channel -> Int] /\ \A c \in Channel : Weight[c] \in Nat
  BY ChannelAssumption DEF TypeOK
<1>2. raised \in [Channel -> Int] /\ \A c \in list : raised[c] = weights[c] + Weight[c]
  BY <1>1 DEF Raised
<1>3. IsFiniteSet(list) /\ list \subseteq Int
  <2>1. IsFiniteSet(Channel) /\ Channel \subseteq Int
    BY ChannelAssumption
  <2> QED
    BY <2>1, FS_Subset
<1>4. \A x \in list : raised[x] \in Int
  BY <1>2
<1>5. picked \in list /\ \A d \in list : raised[d] <= raised[picked]
  BY <1>3, <1>4, SelectedIsLargest
<1>6. total = Sum(Weight, list)
  BY DEF TotalWeight, Sum, MapThenSumSet, MapThenFoldSet
<1>7. \A x \in list : Weight[x] \in Int /\ Weight[x] >= 0
  BY <1>1
<1>8. total \in Nat
  <2>1. \A x \in list : Weight[x] \in Int
    BY <1>7
  <2>2. Sum(Weight, list) \in Int /\ Sum(Weight, list) >= 0
    BY <1>3, <1>7, <2>1, SumType
  <2> QED
    BY <1>6, <2>2
<1>9. Spent(raised, Weight, list) = [raised EXCEPT ![picked] = @ - total]
  BY DEF Spent
<1> QED
  BY <1>2, <1>5, <1>8, <1>9

LEMMA ForwardFits ==
    ASSUME TypeOK, available # {}, NEW r \in Request, NEW state, MayTry(state),
           Forward(r, state)
    PROVE  /\ weights' \in [Channel -> Int]
           /\ \E next : /\ run' = [run EXCEPT ![r] = next]
                        /\ RunInv(next)
                        /\ next.headers = state.headers /\ next.phase = "forwarding"
<1> DEFINE list == Level(Priority, Candidates(available, Range(state.tried)))
           raised == Raised(weights, Weight, Priority, list)
           picked == Selected(raised, list)
           next == [state EXCEPT !.phase = "forwarding", !.tried = Append(@, picked),
                                 !.error = "none"]
<1>1. weights' = Spent(raised, Weight, list) /\ run' = [run EXCEPT ![r] = next]
  BY DEF Forward
<1>2. /\ list \subseteq available /\ list # {}
      /\ available \subseteq Range(state.tried) \/ list \cap Range(state.tried) = {}
      /\ \A c \in list, d \in available \ Range(state.tried) : Priority[d] <= Priority[c]
  BY LineOfPick
<1>3. list \subseteq Channel
  BY <1>2 DEF TypeOK
<1> HIDE DEF list
<1>4. picked \in list /\ weights' \in [Channel -> Int]
  <2>1. raised = Raised(weights, Weight, Priority, list) /\ picked = Selected(raised, list)
    OBVIOUS
  <2> HIDE DEF raised, picked
  <2> QED
    BY <1>1, <1>2, <1>3, <2>1, PickOfLine
<1> HIDE DEF picked
<1>5. /\ DOMAIN state = DOMAIN NoRun
      /\ state.tried \in Seq(Channel) /\ Len(state.tried) < MaxTries
      /\ state.failed \subseteq Range(state.tried)
      /\ state.headers \in BOOLEAN /\ state.result \in Results
      /\ state.stayed \subseteq Channel /\ state.stayed \subseteq available
      /\ FreshFirst(state) /\ Best(state)
  BY DEF MayTry, RunOK
<1> DEFINE after == Append(state.tried, picked)
<1>6. /\ after \in Seq(Channel) /\ Len(after) = Len(state.tried) + 1
      /\ Range(after) = Range(state.tried) \union {picked}
      /\ IsInjective(state.tried) /\ picked \notin Range(state.tried) => IsInjective(after)
  BY <1>3, <1>4, <1>5, AppendRange
<1>7. /\ next.phase = "forwarding" /\ next.tried = after /\ next.error = "none"
      /\ next.failed = state.failed /\ next.headers = state.headers
      /\ next.result = state.result /\ next.stayed = state.stayed
      /\ DOMAIN next = DOMAIN NoRun
  BY <1>5 DEF NoRun
<1> HIDE DEF next, after
<1>8. Len(after) <= MaxTries /\ after # <<>>
  BY <1>5, <1>6, TriesAssumption
<1>9. RunOK(next)
  BY <1>5, <1>6, <1>7, <1>8 DEF RunOK, Results
<1>10. FreshFirst(next)
  BY <1>2, <1>4, <1>5, <1>6, <1>7 DEF FreshFirst
<1>11. Best(next)
  <2> SUFFICES ASSUME NEW c \in Range(after), NEW d \in state.stayed,
                      Priority[d] > Priority[c]
               PROVE  d \in Range(after)
    BY <1>7 DEF Best
  <2>1. Priority[c] \in Int /\ Priority[d] \in Int
    BY <1>5, <1>6, ChannelAssumption, SeqTyped
  <2> QED
    BY <1>2, <1>4, <1>5, <1>6, <2>1 DEF Best
<1> QED
  BY <1>1, <1>4, <1>5, <1>7, <1>8, <1>9, <1>10, <1>11 DEF RunInv

LEMMA EndFits ==
    ASSUME TypeOK, NEW r \in Request, NEW state, state.headers \in BOOLEAN,
           RunInv(run[r]), NEW result \in Results, End(r, state, result),
           state.headers \/ result \notin Retryable \/ MayGiveUp(r)
    PROVE  /\ weights' \in [Channel -> Int]
           /\ \E next : run' = [run EXCEPT ![r] = next] /\ RunInv(next) /\ StepFine(r, next)
<1> DEFINE next == [NoRun EXCEPT !.headers = state.headers, !.result = result]
<1>1. /\ DOMAIN next = DOMAIN NoRun /\ next.phase = "ended" /\ next.tried = <<>>
      /\ next.failed = {} /\ next.headers = state.headers /\ next.error = "none"
      /\ next.result = result /\ next.stayed = {}
  BY DEF NoRun
<1>2. run' = [run EXCEPT ![r] = next] /\ weights' = weights
  BY DEF End
<1> HIDE DEF next
<1>3. RunInv(next)
  BY <1>1, TriesAssumption DEF RunInv, RunOK, FreshFirst, Best, Range, Results
<1>4. StepFine(r, next)
  <2>1. Len(run[r].tried) \in Nat /\ Len(next.tried) = 0
    BY <1>1 DEF RunInv, RunOK
  <2> QED
    BY <1>1, <2>1 DEF StepFine
<1> QED
  BY <1>2, <1>3, <1>4 DEF TypeOK

LEMMA TryFits ==
    ASSUME TypeOK, NEW r \in Request, NEW state, MayTry(state), Try(r, state),
           RunInv(run[r]), ~state.headers
    PROVE  /\ weights' \in [Channel -> Int]
           /\ \E next : run' = [run EXCEPT ![r] = next] /\ RunInv(next) /\ StepFine(r, next)
<1>1. CASE available = {} /\ End(r, state, "no_channel")
  <2>1. state.headers \in BOOLEAN /\ "no_channel" \in Results
    BY DEF MayTry, RunOK, Results
  <2>2. MayGiveUp(r)
    BY <1>1 DEF MayGiveUp, RunInv
  <2> QED
    BY <1>1, <2>1, <2>2, EndFits
<1>2. CASE available # {} /\ Forward(r, state)
  <2>1. /\ weights' \in [Channel -> Int]
        /\ \E next : /\ run' = [run EXCEPT ![r] = next]
                     /\ RunInv(next)
                     /\ next.headers = state.headers /\ next.phase = "forwarding"
    BY <1>2, ForwardFits
  <2> QED
    BY <2>1 DEF StepFine
<1> QED
  BY <1>1, <1>2 DEF Try

\* What a failed attempt leaves: the record that Continue is called with.
Failed(r, state) ==
    RunOK(state) /\ state.tried = run[r].tried /\ state.stayed = run[r].stayed

LEMMA ContinueFits ==
    ASSUME TypeOK, NEW r \in Request, RunInv(run[r]), NEW state, Failed(r, state),
           Continue(r, state)
    PROVE  /\ weights' \in [Channel -> Int]
           /\ \E next : run' = [run EXCEPT ![r] = next] /\ RunInv(next) /\ StepFine(r, next)
<1>1. CASE /\ state.headers \/ Len(state.tried) = MaxTries
           /\ End(r, state, state.error)
  <2>1. state.headers \in BOOLEAN /\ state.error \in Results
    BY DEF Failed, RunOK
  <2>2. state.headers \/ MayGiveUp(r)
    BY <1>1 DEF MayGiveUp, Failed, RunInv
  <2> QED
    BY <1>1, <2>1, <2>2, EndFits
<1>2. CASE ~state.headers /\ Len(state.tried) # MaxTries /\ Try(r, state)
  <2>1. Len(state.tried) < MaxTries
    <3>1. state.tried \in Seq(Channel) /\ Len(state.tried) <= MaxTries
      BY DEF Failed, RunOK
    <3> QED
      BY <1>2, <3>1, TriesAssumption
  <2>2. MayTry(state)
    BY <2>1 DEF MayTry, Failed, RunInv, FreshFirst, Best
  <2> QED
    BY <1>2, <2>2, TryFits
<1> QED
  BY <1>1, <1>2 DEF Continue

LEMMA FailureFits ==
    ASSUME NEW r \in Request, RunInv(run[r]), run[r].phase = "forwarding",
           NEW state \in Failures(r)
    PROVE  Failed(r, state) /\ Picked(state) \in Range(state.tried)
<1>1. /\ RunOK(run[r]) /\ run[r].tried # <<>>
  BY DEF RunInv
<1>2. /\ DOMAIN state = DOMAIN run[r] /\ state.phase = "forwarding"
      /\ state.tried = run[r].tried /\ state.failed = run[r].failed
      /\ state.result = run[r].result /\ state.stayed = run[r].stayed
      /\ state.headers \in BOOLEAN
      /\ state.error \in {"upstream_error", "transport_error"}
  <2>1. PICK end \in [error : {"upstream_error", "transport_error"}, headers : BOOLEAN] :
            state = [run[r] EXCEPT !.error = end.error, !.headers = end.headers]
    BY DEF Failures
  <2>2. DOMAIN run[r] = {"phase", "tried", "failed", "headers", "error", "result", "stayed"}
    BY <1>1 DEF RunOK, NoRun
  <2>3. DOMAIN state = DOMAIN run[r]
    BY <2>1
  <2>4. state.error = end.error /\ state.headers = end.headers
    BY <2>1, <2>2
  <2>5. /\ state.phase = run[r].phase /\ state.tried = run[r].tried
        /\ state.failed = run[r].failed /\ state.result = run[r].result
        /\ state.stayed = run[r].stayed
    BY <2>1, <2>2
  <2> QED
    BY <2>3, <2>4, <2>5
<1>3. Failed(r, state)
  BY <1>1, <1>2 DEF Failed, RunOK, Results
<1>4. Picked(state) \in Range(state.tried)
  <2>1. state.tried \in Seq(Channel) /\ state.tried # <<>>
    BY <1>1, <1>2 DEF RunOK
  <2>2. Len(state.tried) \in DOMAIN state.tried
    BY <2>1
  <2> QED
    BY <2>2 DEF Picked, Range
<1> QED
  BY <1>3, <1>4

\* What a request does in one step, seen from its record.
LEMMA StepOfRequest ==
    ASSUME ExecutorInv, NEW r \in Request,
           Start(r) \/ Succeed(r) \/ Refused(r) \/ Abort(r) \/ Fail(r) \/ Recorded(r)
    PROVE  /\ available' = available
           /\ weights' \in [Channel -> Int]
           /\ \E next : run' = [run EXCEPT ![r] = next] /\ RunInv(next) /\ StepFine(r, next)
<1>1. TypeOK /\ RunInv(run[r]) /\ RunOK(run[r])
  BY DEF ExecutorInv, RunInv
<1>2. CASE Start(r)
  <2> DEFINE state == [NoRun EXCEPT !.stayed = available]
  <2>1. /\ DOMAIN state = DOMAIN NoRun /\ state.phase = "ended" /\ state.tried = <<>>
        /\ state.failed = {} /\ state.headers = FALSE /\ state.error = "none"
        /\ state.result = "none" /\ state.stayed = available
    BY DEF NoRun
  <2>2. Try(r, state) /\ available' = available
    BY <1>2 DEF Start
  <2> HIDE DEF state
  <2>3. /\ Range(state.tried) = {} /\ IsInjective(state.tried)
        /\ state.tried \in Seq(Channel) /\ Len(state.tried) = 0
    BY <2>1 DEF Range, IsInjective
  <2>5. RunOK(state)
    <3>1. /\ state.phase \in {"forwarding", "recording", "ended"}
          /\ state.error \in Results /\ state.result \in Results
      BY <2>1 DEF Results
    <3>2. state.headers \in BOOLEAN
      BY <2>1
    <3>3. Len(state.tried) <= MaxTries /\ state.failed \subseteq Range(state.tried)
      BY <2>1, <2>3, TriesAssumption
    <3>4. state.stayed \subseteq Channel
      BY <1>1, <2>1 DEF TypeOK
    <3>5. state.tried \in Seq(Channel) /\ DOMAIN state = DOMAIN NoRun
      BY <2>1, <2>3
    <3> HIDE DEF Results
    <3> QED
      BY <3>1, <3>2, <3>3, <3>4, <3>5 DEF RunOK
  <2>6. FreshFirst(state) /\ Best(state)
    BY <2>3 DEF FreshFirst, Best
  <2>7. Len(state.tried) < MaxTries /\ state.stayed \subseteq available
    BY <2>1, <2>3, TriesAssumption
  <2>4. MayTry(state)
    BY <2>5, <2>6, <2>7 DEF MayTry
  <2>8. ~state.headers
    BY <2>1
  <2> QED
    BY <1>1, <2>2, <2>4, <2>8, TryFits
<1>3. CASE Succeed(r)
  <2> DEFINE state == [run[r] EXCEPT !.headers = TRUE]
  <2>1. End(r, state, "success") /\ available' = available
    BY <1>3 DEF Succeed
  <2>2. state.headers \in BOOLEAN /\ "success" \in Results \ Retryable
    BY <1>1 DEF RunOK, NoRun, Results, Retryable
  <2> HIDE DEF state
  <2> QED
    BY <1>1, <2>1, <2>2, EndFits
<1>4. CASE Refused(r)
  <2>1. End(r, run[r], "refusal") /\ available' = available
    BY <1>4 DEF Refused
  <2>2. run[r].headers \in BOOLEAN /\ "refusal" \in Results \ Retryable
    BY <1>1 DEF RunOK, Results, Retryable
  <2> QED
    BY <1>1, <2>1, <2>2, EndFits
<1>5. CASE Abort(r)
  <2>1. PICK headers \in BOOLEAN :
            End(r, [run[r] EXCEPT !.headers = headers], "client_abort")
    BY <1>5 DEF Abort
  <2> DEFINE state == [run[r] EXCEPT !.headers = headers]
  <2>2. state.headers \in BOOLEAN /\ "client_abort" \in Results \ Retryable
    BY <1>1 DEF RunOK, NoRun, Results, Retryable
  <2>3. available' = available
    BY <1>5 DEF Abort
  <2>4. End(r, state, "client_abort")
    BY <2>1
  <2> HIDE DEF state
  <2> QED
    BY <1>1, <2>2, <2>3, <2>4, EndFits
<1>6. CASE Fail(r)
  <2>1. available' = available /\ run[r].phase = "forwarding"
    BY <1>6 DEF Fail
  <2>2. PICK state \in Failures(r) :
            \/ Continue(r, state)
            \/ /\ run' = [run EXCEPT ![r] = [state EXCEPT !.phase = "recording",
                                              !.failed = @ \union {Picked(state)}]]
               /\ UNCHANGED weights
    BY <1>6 DEF Fail
  <2>3. Failed(r, state) /\ Picked(state) \in Range(state.tried)
    BY <1>1, <2>1, FailureFits
  <2>4. CASE Continue(r, state)
    BY <1>1, <2>1, <2>3, <2>4, ContinueFits
  <2>5. CASE run' = [run EXCEPT ![r] = [state EXCEPT !.phase = "recording",
                                            !.failed = @ \union {Picked(state)}]]
             /\ UNCHANGED weights
    <3> DEFINE next == [state EXCEPT !.phase = "recording",
                                     !.failed = @ \union {Picked(state)}]
    <3>1. RunOK(state)
      BY <2>3 DEF Failed
    <3>2. /\ DOMAIN next = DOMAIN NoRun /\ next.phase = "recording"
          /\ next.tried = state.tried /\ next.failed = state.failed \union {Picked(state)}
          /\ next.headers = state.headers /\ next.error = state.error
          /\ next.result = state.result /\ next.stayed = state.stayed
      BY <3>1 DEF RunOK, NoRun
    <3> HIDE DEF next
    <3>3. RunOK(next)
      BY <2>3, <3>1, <3>2 DEF RunOK
    <3>4. RunInv(next)
      BY <1>1, <2>1, <2>3, <3>2, <3>3 DEF RunInv, Failed, FreshFirst, Best
    <3>5. run' = [run EXCEPT ![r] = next] /\ weights' = weights
      BY <2>5 DEF next
    <3>6. StepFine(r, next)
      <4>1. next.tried = run[r].tried /\ Len(run[r].tried) \in Nat
        BY <1>1, <2>3, <3>2 DEF Failed, RunOK
      <4> QED
        BY <3>2, <4>1 DEF StepFine
    <3> QED
      BY <1>1, <2>1, <3>4, <3>5, <3>6 DEF TypeOK
  <2> QED
    BY <2>2, <2>4, <2>5
<1>7. CASE Recorded(r)
  <2>1. Continue(r, run[r]) /\ available' = available /\ run[r].phase = "recording"
    BY <1>7 DEF Recorded
  <2> QED
    BY <1>1, <2>1, ContinueFits DEF Failed
<1> QED
  BY <1>2, <1>3, <1>4, <1>5, <1>6, <1>7

LEMMA ExecutorStarts == Init => ExecutorInv
<1> SUFFICES ASSUME Init PROVE ExecutorInv
  OBVIOUS
<1>1. available = Channel /\ weights = [c \in Channel |-> 0] /\ run = [r \in Request |-> NoRun]
  BY DEF Init
<1>2. \A r \in Request : RunInv(run[r]) /\ RunOK(run[r])
  BY <1>1, NoRunIsFine DEF RunInv
<1> QED
  BY <1>1, <1>2 DEF ExecutorInv, TypeOK

LEMMA ExecutorKeeps == ExecutorInv /\ [Next]_vars => ExecutorInv'
<1> SUFFICES ASSUME ExecutorInv, [Next]_vars PROVE ExecutorInv'
  OBVIOUS
<1>1. /\ available \subseteq Channel /\ weights \in [Channel -> Int]
      /\ DOMAIN run = Request
      /\ \A r \in Request : RunInv(run[r]) /\ RunOK(run[r])
  BY DEF ExecutorInv, TypeOK
<1>2. ASSUME NEW r \in Request,
             Start(r) \/ Succeed(r) \/ Refused(r) \/ Abort(r) \/ Fail(r) \/ Recorded(r)
      PROVE  ExecutorInv'
  <2>1. /\ available' = available
        /\ weights' \in [Channel -> Int]
        /\ \E next : run' = [run EXCEPT ![r] = next] /\ RunInv(next) /\ StepFine(r, next)
    BY <1>2, StepOfRequest
  <2>2. PICK next : run' = [run EXCEPT ![r] = next] /\ RunInv(next)
    BY <2>1
  <2>3. \A q \in Request : RunInv(run'[q])
    BY <1>1, <2>2
  <2>4. \A q \in Request : RunInv(run[q])' /\ RunOK(run[q])'
    BY <2>1, <2>3 DEF RunInv, RunOK, FreshFirst, Best
  <2> QED
    BY <1>1, <2>1, <2>2, <2>4 DEF ExecutorInv, TypeOK
<1>3. ASSUME NEW c \in Channel, Leave(c) PROVE ExecutorInv'
  <2>1. /\ available' = available \ {c} /\ weights' = weights
        /\ run' = [r \in Request |-> [run[r] EXCEPT !.stayed = @ \ {c}]]
    BY <1>3 DEF Leave
  <2>2. ASSUME NEW r \in Request PROVE RunInv(run[r])' /\ RunOK(run[r])'
    <3> DEFINE next == [run[r] EXCEPT !.stayed = @ \ {c}]
    <3>1. RunInv(run[r]) /\ RunOK(run[r])
      BY <1>1
    <3>2. /\ DOMAIN next = DOMAIN NoRun /\ next.phase = run[r].phase
          /\ next.tried = run[r].tried /\ next.failed = run[r].failed
          /\ next.headers = run[r].headers /\ next.error = run[r].error
          /\ next.result = run[r].result /\ next.stayed = run[r].stayed \ {c}
      BY <3>1 DEF RunOK, NoRun
    <3>3. run'[r] = next
      BY <2>1
    <3> HIDE DEF next
    <3>4. RunOK(next)
      BY <3>1, <3>2 DEF RunOK
    <3>5. FreshFirst(next) /\ Best(next)
      BY <3>1, <3>2 DEF RunInv, FreshFirst, Best
    <3> QED
      BY <2>1, <3>1, <3>2, <3>3, <3>4, <3>5 DEF RunInv, RunOK, FreshFirst, Best
  <2> QED
    BY <1>1, <2>1, <2>2 DEF ExecutorInv, TypeOK
<1>4. ASSUME NEW c \in Channel, Return(c) PROVE ExecutorInv'
  <2>1. available' = available \union {c} /\ weights' = weights /\ run' = run
    BY <1>4 DEF Return
  <2>2. \A r \in Request : RunInv(run[r])' /\ RunOK(run[r])'
    BY <1>1, <2>1 DEF RunInv, RunOK, FreshFirst, Best
  <2> QED
    BY <1>1, <2>1, <2>2 DEF ExecutorInv, TypeOK
<1>5. CASE UNCHANGED vars
  <2>1. available' = available /\ weights' = weights /\ run' = run
    BY <1>5 DEF vars
  <2>2. \A r \in Request : RunInv(run[r])' /\ RunOK(run[r])'
    BY <1>1, <2>1 DEF RunInv, RunOK, FreshFirst, Best
  <2> QED
    BY <1>1, <2>1, <2>2 DEF ExecutorInv, TypeOK
<1> QED
  BY <1>2, <1>3, <1>4, <1>5 DEF Next

\* Every value of every variable stays of its type.
THEOREM ExecutorTypes == Spec => []TypeOK
<1>1. ExecutorInv => TypeOK
  BY DEF ExecutorInv
<1> QED
  BY <1>1, ExecutorStarts, ExecutorKeeps, PTL DEF Spec

\* What one step may do to the record of any request.
LEMMA RecordsMove ==
    ASSUME ExecutorInv, [Next]_vars, NEW q \in Request
    PROVE  \/ StepFine(q, run'[q])
           \/ run'[q].phase = run[q].phase /\ run'[q].tried = run[q].tried
<1>1. DOMAIN run = Request /\ RunOK(run[q])
  BY DEF ExecutorInv, TypeOK
<1>2. ASSUME NEW r \in Request,
             Start(r) \/ Succeed(r) \/ Refused(r) \/ Abort(r) \/ Fail(r) \/ Recorded(r)
      PROVE  StepFine(q, run'[q]) \/ run'[q] = run[q]
  <2>1. \E next : run' = [run EXCEPT ![r] = next] /\ RunInv(next) /\ StepFine(r, next)
    BY <1>2, StepOfRequest
  <2> QED
    BY <1>1, <2>1
<1>3. ASSUME NEW c \in Channel, Leave(c)
      PROVE  run'[q].phase = run[q].phase /\ run'[q].tried = run[q].tried
  BY <1>1, <1>3 DEF Leave, RunOK, NoRun
<1>4. ASSUME NEW c \in Channel, Return(c) PROVE run' = run
  BY <1>4 DEF Return
<1>5. CASE UNCHANGED vars
  BY <1>5 DEF vars
<1> QED
  BY <1>2, <1>3, <1>4, <1>5 DEF Next

\* Once the client was sent something no other channel is called (relay-executor.ts,
\* the check of res.headersSent in the loop).
THEOREM SentOnce == Spec => NothingAfterHeaders
<1>1. ASSUME ExecutorInv, [Next]_vars, NEW r \in Request,
             Len(run'[r].tried) > Len(run[r].tried)
      PROVE  ~run'[r].headers
  <2>1. Len(run[r].tried) \in Nat
    BY <1>1 DEF ExecutorInv, RunInv, RunOK
  <2> QED
    BY <1>1, <2>1, RecordsMove DEF StepFine
<1>2. ExecutorInv /\ [Next]_vars =>
          [\A r \in Request :
               Len(run'[r].tried) > Len(run[r].tried) => ~run'[r].headers]_vars
  BY <1>1
<1> QED
  BY <1>2, ExecutorStarts, ExecutorKeeps, PTL DEF Spec, NothingAfterHeaders

\* A request gives up only after as many attempts as it has, no channel tried twice while
\* another one waited, or when no channel was there all the time (relay-executor.ts,
\* execute).
THEOREM TriesAreUsed == Spec => NeverGivesUpEarly
<1>1. ASSUME ExecutorInv, [Next]_vars, NEW r \in Request, GivesUp(r)
      PROVE  \/ run[r].stayed = {}
             \/ /\ Len(run[r].tried) = MaxTries
                /\ \/ run[r].stayed \subseteq Range(run[r].tried)
                   \/ IsInjective(run[r].tried)
  BY <1>1, RecordsMove DEF StepFine, GivesUp, Retryable, MayGiveUp, FreshFirst
<1>2. ExecutorInv /\ [Next]_vars =>
          [\A r \in Request :
               GivesUp(r) =>
                   \/ run[r].stayed = {}
                   \/ /\ Len(run[r].tried) = MaxTries
                      /\ \/ run[r].stayed \subseteq Range(run[r].tried)
                         \/ IsInjective(run[r].tried)]_vars
  BY <1>1
<1> QED
  BY <1>2, ExecutorStarts, ExecutorKeeps, PTL DEF Spec, NeverGivesUpEarly

-----------------------------------------------------------------------------
\* The arithmetic of the bounds: as many turns as there are channels above, and below
\* the more, the more channels are looked at, each one adding a turn less than the last.
Low(k, n, turn) == turn * (k * (2 * n - k + 1))

LEMMA AmountTimes ==
    ASSUME NEW a \in Int, NEW b \in Int, a >= 0, b >= 0
    PROVE  a * b >= 0
OBVIOUS

LEMMA HighStep ==
    ASSUME NEW n \in Nat, NEW k \in Nat, k <= n, NEW turn \in Nat,
           NEW sum \in Int, NEW top \in Int,
           sum <= k * top, top + sum <= n * turn + turn
    PROVE  sum <= n * turn
<1> SUFFICES ASSUME sum >= n * turn + 1 PROVE FALSE
  BY n * turn \in Int
<1>1. n * turn \in Nat /\ k * turn \in Nat /\ k * top \in Int /\ k * sum \in Int
  OBVIOUS
<1>2. k * (n * turn + turn - (top + sum)) >= 0
  BY <1>1, AmountTimes
<1>3. k * (n * turn + turn - (top + sum)) = k * (n * turn) + k * turn - k * top - k * sum
  BY <1>1
<1>4. k * (sum - n * turn) >= 0
  BY <1>1, AmountTimes
<1>5. k * (sum - n * turn) = k * sum - k * (n * turn)
  BY <1>1
<1>6. turn * (n - k) >= 0 /\ turn * (n - k) = n * turn - k * turn
  BY AmountTimes
<1>7. k * (n * turn) \in Int
  BY <1>1
<1> QED
  BY <1>1, <1>2, <1>3, <1>4, <1>5, <1>6, <1>7

LEMMA LowOne ==
    ASSUME NEW n \in Nat, NEW k \in Nat, NEW turn \in Nat
    PROVE  /\ Low(k, n, turn) \in Int
           /\ Low(k, n, turn) = Low(k - 1, n, turn) + 2 * ((n - k) * turn) + 2 * turn
<1>1. /\ k * (2 * n - k + 1) \in Int
      /\ k * (2 * n - k + 1) = (k - 1) * (2 * n - (k - 1) + 1) + 2 * (n - k) + 2
  OBVIOUS
<1>2. ASSUME NEW a \in Int, NEW b \in Int PROVE turn * (a + 2 * b + 2) = turn * a + 2 * (b * turn) + 2 * turn
  OBVIOUS
<1>3. (k - 1) * (2 * n - (k - 1) + 1) \in Int /\ n - k \in Int
  OBVIOUS
<1> QED
  BY <1>1, <1>2, <1>3 DEF Low

LEMMA LowMore ==
    ASSUME NEW n \in Nat, NEW k \in Nat, NEW m \in Nat, k <= m, m <= n, NEW turn \in Nat
    PROVE  /\ Low(k, n, turn) <= Low(m, n, turn)
           /\ Low(m, n, turn) <= Low(k, n, turn) + 2 * ((m - k) * ((n - k) * turn))
<1>1. m * (2 * n - m + 1) - k * (2 * n - k + 1) = (m - k) * (2 * n + 1 - m - k)
  OBVIOUS
<1>2. (m - k) * (2 * n + 1 - m - k) >= 0
  BY AmountTimes
<1>3. (m - k) * (2 * (n - k)) - (m - k) * (2 * n + 1 - m - k) = (m - k) * (m - k - 1)
  OBVIOUS
<1>4. (m - k) * (m - k - 1) >= 0
  <2>1. CASE m = k
    BY <2>1
  <2>2. CASE m > k
    BY <2>2, AmountTimes
  <2> QED
    BY <2>1, <2>2
<1> DEFINE a == m * (2 * n - m + 1)
           b == k * (2 * n - k + 1)
           c == (m - k) * (n - k)
<1>5. a \in Int /\ b \in Int /\ c \in Int
  OBVIOUS
<1>6. b <= a /\ a <= b + 2 * c
  BY <1>1, <1>2, <1>3, <1>4
<1>7. Low(m, n, turn) = turn * a /\ Low(k, n, turn) = turn * b
  BY DEF Low
<1>8. 2 * ((m - k) * ((n - k) * turn)) = turn * (2 * c)
  OBVIOUS
<1> HIDE DEF a, b, c
<1>9. turn * (a - b) >= 0 /\ turn * (b + 2 * c - a) >= 0
  BY <1>5, <1>6, AmountTimes
<1>10. /\ turn * (a - b) = turn * a - turn * b
       /\ turn * (b + 2 * c - a) = turn * b + turn * (2 * c) - turn * a
       /\ turn * a \in Int /\ turn * b \in Int /\ turn * (2 * c) \in Int
  BY <1>5
<1> QED
  BY <1>7, <1>8, <1>9, <1>10

-----------------------------------------------------------------------------
\* What the current weights of some channels of one priority may add up to.
SameLevel(part) == \A c, d \in part : Priority[c] = Priority[d]

Within(w) ==
    LET n == Cardinality(Channel)
        turn == Sum(Weight, Channel)
    IN  \A part \in SUBSET Channel :
            SameLevel(part) =>
                /\ Sum(w, part) <= n * turn
                /\ -2 * Sum(w, part) <= Low(Cardinality(part), n, turn)

LEMMA PartTypes ==
    ASSUME NEW part, part \subseteq Channel
    PROVE  /\ IsFiniteSet(part) /\ Cardinality(part) \in Nat
           /\ Cardinality(part) <= Cardinality(Channel) /\ Cardinality(Channel) \in Nat
           /\ \A f \in [Channel -> Int] : Sum(f, part) \in Int
<1>1. IsFiniteSet(Channel)
  BY ChannelAssumption
<1>2. /\ IsFiniteSet(part) /\ Cardinality(part) \in Nat
      /\ Cardinality(part) <= Cardinality(Channel) /\ Cardinality(Channel) \in Nat
  BY <1>1, FS_Subset, FS_CardinalityType
<1>3. ASSUME NEW f \in [Channel -> Int] PROVE Sum(f, part) \in Int
  <2>1. \A x \in part : f[x] \in Int
    OBVIOUS
  <2> QED
    BY <1>2, <2>1, SumType
<1> QED
  BY <1>2, <1>3

LEMMA TurnTypes ==
    /\ Weight \in [Channel -> Int] /\ \A x \in Channel : Weight[x] >= 0
    /\ \A part \in SUBSET Channel :
           \A some \in SUBSET part :
               /\ Sum(Weight, some) \in Nat /\ Sum(Weight, part) \in Nat
               /\ Sum(Weight, some) <= Sum(Weight, part)
<1>1. Weight \in [Channel -> Int] /\ \A x \in Channel : Weight[x] >= 0
  BY ChannelAssumption
<1>2. ASSUME NEW part \in SUBSET Channel
      PROVE  Sum(Weight, part) \in Nat
  <2>1. /\ \A x \in part : Weight[x] \in Int
        /\ \A x \in part : Weight[x] >= 0
    BY <1>1
  <2>2. IsFiniteSet(part)
    BY PartTypes
  <2>3. Sum(Weight, part) \in Int /\ Sum(Weight, part) >= 0
    BY <2>1, <2>2, SumType
  <2> QED
    BY <2>3
<1>3. ASSUME NEW part \in SUBSET Channel, NEW some \in SUBSET part
      PROVE  Sum(Weight, some) <= Sum(Weight, part)
  <2>1. IsFiniteSet(part) /\ \A x \in part : Weight[x] \in Int
    BY <1>1, PartTypes
  <2>2. Sum(Weight, part) = Sum(Weight, some) + Sum(Weight, part \ some)
    BY <2>1, SumSplit
  <2>3. some \in SUBSET Channel /\ part \ some \in SUBSET Channel
    OBVIOUS
  <2>4. Sum(Weight, some) \in Nat /\ Sum(Weight, part \ some) \in Nat
    BY <1>2, <2>3
  <2> QED
    BY <2>2, <2>4
<1> QED
  BY <1>1, <1>2, <1>3

\* The step of a pick, of which w are the current weights before.
PickStep(w, list, raised, s, after) ==
    /\ w \in [Channel -> Int] /\ raised \in [Channel -> Int] /\ after \in [Channel -> Int]
    /\ list \subseteq Channel /\ SameLevel(list) /\ s \in list
    /\ \A x \in list : raised[x] = w[x] + Weight[x] /\ raised[x] <= raised[s]
    /\ after[s] = raised[s] - Sum(Weight, list)
    /\ \A x \in list \ {s} : after[x] = raised[x]
    /\ \A x \in Channel \ list :
           after[x] = IF \E d \in list : Priority[d] = Priority[x] THEN 0 ELSE w[x]

\* What some channels of the line gain, and what is known of them before.
LEMMA PartOfLine ==
    ASSUME NEW w, NEW list, NEW raised, NEW s, NEW after, Within(w),
           PickStep(w, list, raised, s, after), NEW part, part \subseteq list
    PROVE  /\ Sum(raised, part) = Sum(w, part) + Sum(Weight, part)
           /\ Sum(w, part) \in Int /\ Sum(raised, part) \in Int /\ Sum(after, part) \in Int
           /\ Sum(w, part) <= Cardinality(Channel) * Sum(Weight, Channel)
           /\ -2 * Sum(w, part)
                 <= Low(Cardinality(part), Cardinality(Channel), Sum(Weight, Channel))
<1>1. part \subseteq Channel /\ SameLevel(part)
  BY DEF PickStep, SameLevel
<1>2. IsFiniteSet(part)
  BY <1>1, PartTypes
<1>3. \A x \in part : /\ w[x] \in Int /\ Weight[x] \in Int
                      /\ raised[x] = w[x] + Weight[x]
  BY <1>1, TurnTypes DEF PickStep
<1>4. Sum(raised, part) = Sum(w, part) + Sum(Weight, part)
  BY <1>2, <1>3, SumOfSums
<1>5. Sum(w, part) \in Int /\ Sum(raised, part) \in Int /\ Sum(after, part) \in Int
  BY <1>1, PartTypes DEF PickStep
<1> QED
  BY <1>1, <1>4, <1>5 DEF Within

\* Channels of the line that were not picked: they gained, the picked one had more.
LEMMA OthersStayWithin ==
    ASSUME NEW w, NEW list, NEW raised, NEW s, NEW after, Within(w),
           PickStep(w, list, raised, s, after),
           NEW part, part \subseteq list, s \notin part
    PROVE  /\ Sum(after, part) <= Cardinality(Channel) * Sum(Weight, Channel)
           /\ -2 * Sum(after, part)
                 <= Low(Cardinality(part), Cardinality(Channel), Sum(Weight, Channel))
<1> DEFINE n == Cardinality(Channel)
           turn == Sum(Weight, Channel)
           both == part \union {s}
<1>1. /\ list \subseteq Channel /\ s \in list /\ part \subseteq Channel
      /\ both \subseteq list /\ both \subseteq Channel
      /\ raised \in [Channel -> Int]
  BY DEF PickStep
<1>2. /\ IsFiniteSet(part) /\ IsFiniteSet(both)
      /\ Cardinality(part) \in Nat /\ n \in Nat /\ Cardinality(part) <= n
  BY <1>1, PartTypes
<1>3. /\ Sum(Weight, part) \in Nat /\ Sum(Weight, both) \in Nat /\ turn \in Nat
      /\ Sum(Weight, both) <= turn
  BY <1>1, TurnTypes
<1>4. Sum(after, part) = Sum(raised, part)
  <2>1. \A x \in part : after[x] \in Int /\ after[x] = raised[x]
    BY <1>1 DEF PickStep
  <2> QED
    BY <1>2, <2>1, SumSame
<1>5. /\ Sum(raised, part) = Sum(w, part) + Sum(Weight, part)
      /\ Sum(w, part) \in Int /\ Sum(raised, part) \in Int
      /\ -2 * Sum(w, part) <= Low(Cardinality(part), n, turn)
  BY PartOfLine
<1>6. /\ Sum(raised, both) = Sum(w, both) + Sum(Weight, both)
      /\ Sum(w, both) \in Int /\ Sum(w, both) <= n * turn
  BY <1>1, PartOfLine
<1>7. Sum(raised, both) = raised[s] + Sum(raised, part)
  <2>1. /\ \A x \in both : raised[x] \in Int
        /\ s \in both
    BY <1>1
  <2>2. both \ {s} = part
    OBVIOUS
  <2> HIDE DEF both
  <2>3. Sum(raised, both) = raised[s] + Sum(raised, both \ {s})
    BY <1>2, <2>1, SumTake
  <2> QED
    BY <2>2, <2>3, Zenon
<1>8. raised[s] \in Int
  BY <1>1
<1>9. Sum(raised, part) <= Cardinality(part) * raised[s]
  <2>1. \A x \in part : raised[x] \in Int /\ raised[x] <= raised[s]
    BY <1>1 DEF PickStep
  <2> QED
    BY <1>2, <1>8, <2>1, SumLimit
<1> HIDE DEF n, turn, both
<1>10. raised[s] + Sum(raised, part) <= n * turn + turn
  <2>1. n * turn \in Int
    BY <1>2, <1>3
  <2> QED
    BY <1>3, <1>5, <1>6, <1>7, <1>8, <2>1
<1>11. Sum(raised, part) <= n * turn
  BY <1>2, <1>3, <1>5, <1>8, <1>9, <1>10, HighStep
<1>12. Low(Cardinality(part), n, turn) \in Int
  BY <1>2, <1>3, LowOne
<1> QED
  BY <1>3, <1>4, <1>5, <1>11, <1>12 DEF n, turn

\* Channels with the picked one: it paid at least what they gained, and owes no more than
\* the others of the line are owed.
LEMMA PickedStaysWithin ==
    ASSUME NEW w, NEW list, NEW raised, NEW s, NEW after, Within(w),
           PickStep(w, list, raised, s, after),
           NEW part, part \subseteq list, s \in part
    PROVE  /\ Sum(after, part) <= Cardinality(Channel) * Sum(Weight, Channel)
           /\ -2 * Sum(after, part)
                 <= Low(Cardinality(part), Cardinality(Channel), Sum(Weight, Channel))
<1> DEFINE n == Cardinality(Channel)
           turn == Sum(Weight, Channel)
           k == Cardinality(part)
           m == Cardinality(list)
           rest == list \ part
           less == part \ {s}
           gap == (n - k) * turn
           total == Sum(Weight, list)
<1>1. /\ list \subseteq Channel /\ s \in list /\ part \subseteq Channel
      /\ rest \subseteq Channel /\ less \subseteq list /\ less \subseteq Channel
      /\ raised \in [Channel -> Int] /\ after \in [Channel -> Int]
  BY DEF PickStep
<1>2. /\ IsFiniteSet(part) /\ IsFiniteSet(list) /\ IsFiniteSet(rest) /\ IsFiniteSet(less)
      /\ k \in Nat /\ m \in Nat /\ n \in Nat /\ k <= n /\ m <= n
  BY <1>1, PartTypes
<1>3. k <= m /\ Cardinality(rest) = m - k /\ Cardinality(less) = k - 1
  <2>1. k <= m
    BY <1>2, FS_Subset
  <2>2. Cardinality(less) = k - 1
    BY <1>2, FS_RemoveElement
  <2>3. Cardinality(rest) = m - k
    <3>1. list \cap part = part
      OBVIOUS
    <3>2. Cardinality(list \cap part) = k
      BY <3>1, Zenon
    <3>3. Cardinality(list \ part) = Cardinality(list) - Cardinality(list \cap part)
      BY <1>2, FS_Difference
    <3> QED
      BY <3>2, <3>3
  <2> QED
    BY <2>1, <2>2, <2>3
<1>4. /\ Sum(Weight, part) \in Nat /\ Sum(Weight, less) \in Nat /\ total \in Nat
      /\ turn \in Nat /\ Sum(Weight, part) <= total /\ total <= turn
  BY <1>1, TurnTypes
<1>5. raised[s] \in Int /\ gap \in Int /\ n * turn \in Int
  BY <1>1, <1>2, <1>4
<1>6. Sum(after, part) = Sum(raised, part) - total
  <2>1. \A x \in part : raised[x] \in Int /\ after[x] \in Int
    BY <1>1
  <2>5. \A x \in part \ {s} : raised[x] = after[x]
    BY <1>1 DEF PickStep
  <2>2. Sum(after, part) = Sum(raised, part) + after[s] - raised[s]
    <3>1. IsFiniteSet(part)
      BY <1>2
    <3> HIDE DEF n, turn, k, m, rest, less, gap, total
    <3> QED
      BY <3>1, <2>1, <2>5, SumChange
  <2>3. after[s] = raised[s] - total
    BY DEF PickStep
  <2>4. Sum(raised, part) \in Int
    BY PartOfLine
  <2> HIDE DEF total
  <2> QED
    BY <1>4, <1>5, <2>2, <2>3, <2>4
<1>7. /\ Sum(raised, part) = Sum(w, part) + Sum(Weight, part)
      /\ Sum(w, part) \in Int /\ Sum(raised, part) \in Int
      /\ Sum(w, part) <= n * turn
  BY PartOfLine
<1>8. Sum(after, part) <= n * turn
  BY <1>4, <1>5, <1>6, <1>7
<1>9. CASE raised[s] >= -gap
  <2>1. Sum(raised, part) = raised[s] + Sum(raised, less)
    <3>1. \A x \in part : raised[x] \in Int
      BY <1>1
    <3> QED
      BY <1>2, <3>1, SumTake
  <2>2. /\ Sum(raised, less) = Sum(w, less) + Sum(Weight, less)
        /\ Sum(w, less) \in Int
        /\ -2 * Sum(w, less) <= Low(Cardinality(less), n, turn)
    BY <1>1, PartOfLine
  <2>3. -2 * Sum(w, less) <= Low(k - 1, n, turn)
    BY <1>3, <2>2
  <2>4. /\ Low(k, n, turn) \in Int
        /\ Low(k, n, turn) = Low(k - 1, n, turn) + 2 * gap + 2 * turn
    BY <1>2, <1>4, LowOne
  <2> DEFINE a == Low(k, n, turn)
             b == Low(k - 1, n, turn)
  <2>5. b \in Int
    BY <1>2, <1>4 DEF Low
  <2> HIDE DEF a, b, n, turn, k, gap, total, less
  <2>6. -2 * Sum(after, part) <= a
    BY <1>4, <1>5, <1>6, <1>7, <1>9, <2>1, <2>2, <2>3, <2>4, <2>5 DEF a, b
  <2> QED
    BY <1>8, <2>6 DEF a, n, turn, k
<1>10. CASE raised[s] < -gap
  <2>1. Sum(raised, list) = Sum(raised, part) + Sum(raised, rest)
    <3>1. \A x \in list : raised[x] \in Int
      BY <1>1
    <3> QED
      BY <1>2, <3>1, SumSplit
  <2>2. /\ Sum(raised, list) = Sum(w, list) + total
        /\ Sum(w, list) \in Int /\ Sum(raised, list) \in Int
        /\ -2 * Sum(w, list) <= Low(m, n, turn)
    BY <1>1, PartOfLine
  <2>3. Sum(raised, rest) <= Cardinality(rest) * (-gap) /\ Sum(raised, rest) \in Int
    <3>1. \A x \in rest : raised[x] \in Int /\ raised[x] <= -gap
      <4>1. ASSUME NEW x \in rest PROVE raised[x] \in Int /\ raised[x] <= raised[s]
        BY <1>1 DEF PickStep
      <4> HIDE DEF gap, rest
      <4> QED
        BY <1>5, <1>10, <4>1
    <3>2. -gap \in Int
      BY <1>5
    <3> HIDE DEF gap, rest
    <3>3. Sum(raised, rest) <= Cardinality(rest) * (-gap)
      BY <1>2, <3>1, <3>2, SumLimit
    <3>4. Sum(raised, rest) \in Int
      BY <1>1, PartTypes
    <3> QED
      BY <3>3, <3>4
  <2>4. Low(m, n, turn) <= Low(k, n, turn) + 2 * ((m - k) * gap)
    BY <1>2, <1>3, <1>4, LowMore
  <2>5. Low(m, n, turn) \in Int /\ Low(k, n, turn) \in Int
    BY <1>2, <1>4, LowOne
  <2>6. (m - k) * (-gap) = -((m - k) * gap) /\ (m - k) * gap \in Int
    BY <1>2, <1>5
  <2> DEFINE a == Low(k, n, turn)
             b == Low(m, n, turn)
             c == (m - k) * gap
  <2> HIDE DEF rest, gap, n, turn, k, m, total
  <2>7. /\ a \in Int /\ b \in Int /\ c \in Int /\ b <= a + 2 * c
        /\ -2 * Sum(w, list) <= b
        /\ Sum(raised, rest) <= -c
    BY <1>3, <2>2, <2>3, <2>4, <2>5, <2>6
  <2> HIDE DEF a, b, c
  <2>8. -2 * Sum(after, part) <= a
    BY <1>4, <1>6, <1>7, <2>1, <2>2, <2>3, <2>7
  <2> QED
    BY <1>8, <2>8 DEF a, n, turn, k
<1> QED
  BY <1>5, <1>9, <1>10

LEMMA WithinKept ==
    ASSUME NEW w, NEW list, NEW raised, NEW s, NEW after, Within(w),
           PickStep(w, list, raised, s, after)
    PROVE  Within(after)
<1> DEFINE n == Cardinality(Channel)
           turn == Sum(Weight, Channel)
<1> SUFFICES ASSUME NEW all \in SUBSET Channel, SameLevel(all)
             PROVE  /\ Sum(after, all) <= n * turn
                    /\ -2 * Sum(after, all) <= Low(Cardinality(all), n, turn)
  BY DEF Within
<1> DEFINE part == all \cap list
           rest == all \ part
<1>1. /\ part \subseteq list /\ part \subseteq Channel /\ part \subseteq all
      /\ rest \subseteq Channel
      /\ w \in [Channel -> Int] /\ after \in [Channel -> Int]
  BY DEF PickStep
<1>2. /\ IsFiniteSet(all) /\ IsFiniteSet(part) /\ IsFiniteSet(rest)
      /\ Cardinality(all) \in Nat /\ Cardinality(part) \in Nat /\ n \in Nat
      /\ Cardinality(all) <= n
  BY <1>1, PartTypes
<1>3. turn \in Nat
  BY TurnTypes
<1>4. CASE \A x \in all : after[x] = w[x]
  <2>1. \A x \in all : after[x] \in Int /\ after[x] = w[x]
    BY <1>1, <1>4
  <2>2. Sum(after, all) = Sum(w, all)
    BY <1>2, <2>1, SumSame
  <2> QED
    BY <2>2 DEF Within
<1>5. CASE \A x \in rest : after[x] = 0
  <2>1. Sum(after, all) = Sum(after, part) + Sum(after, rest)
    <3>1. \A x \in all : after[x] \in Int
      BY <1>1
    <3> HIDE DEF part
    <3> QED
      BY <1>1, <1>2, <3>1, SumSplit
  <2>2. Sum(after, rest) = 0
    <3> HIDE DEF rest
    <3> QED
      BY <1>2, <1>5, SumOfZeros
  <2>3. Sum(after, part) \in Int
    BY <1>1, PartTypes
  <2>4. /\ Sum(after, part) <= n * turn
        /\ -2 * Sum(after, part) <= Low(Cardinality(part), n, turn)
    BY <1>1, OthersStayWithin, PickedStaysWithin
  <2>5. Cardinality(part) <= Cardinality(all)
    BY <1>1, <1>2, FS_Subset
  <2>6. Low(Cardinality(part), n, turn) <= Low(Cardinality(all), n, turn)
    BY <1>2, <1>3, <2>5, LowMore
  <2>7. Low(Cardinality(part), n, turn) \in Int /\ Low(Cardinality(all), n, turn) \in Int
    BY <1>2, <1>3, LowOne
  <2> HIDE DEF part, rest, n, turn
  <2> QED
    BY <2>1, <2>2, <2>3, <2>4, <2>6, <2>7
<1>6. \/ \A x \in all : after[x] = w[x]
      \/ \A x \in rest : after[x] = 0
  <2>1. CASE \E x \in all, d \in list : Priority[d] = Priority[x]
    <3>1. PICK x \in all, d \in list : Priority[d] = Priority[x]
      BY <2>1
    <3>2. \A y \in rest : Priority[d] = Priority[y]
      BY <3>1 DEF SameLevel
    <3> QED
      BY <3>2 DEF PickStep
  <2>2. CASE ~\E x \in all, d \in list : Priority[d] = Priority[x]
    BY <2>2 DEF PickStep
  <2> QED
    BY <2>1, <2>2
<1> QED
  BY <1>4, <1>5, <1>6

LEMMA ForwardWithin ==
    ASSUME TypeOK, available # {}, NEW r \in Request, NEW state, Forward(r, state),
           Within(weights)
    PROVE  Within(weights')
<1> DEFINE list == Level(Priority, Candidates(available, Range(state.tried)))
           raised == Raised(weights, Weight, Priority, list)
           picked == Selected(raised, list)
           total == TotalWeight(Weight, list)
           after == Spent(raised, Weight, list)
<1>1. weights' = after
  BY DEF Forward
<1>2. list \subseteq available /\ list # {} /\ SameLevel(list)
  BY LineOfPick DEF SameLevel
<1>3. list \subseteq Channel /\ weights \in [Channel -> Int]
  BY <1>2 DEF TypeOK
<1> HIDE DEF list
<1>4. \A c \in Channel \ list :
          raised[c] = IF \E d \in list : Priority[d] = Priority[c] THEN 0 ELSE weights[c]
  BY <1>3 DEF Raised
<1>5. total = Sum(Weight, list)
  BY DEF TotalWeight, Sum, MapThenSumSet, MapThenFoldSet
<1>6. /\ picked \in list /\ raised \in [Channel -> Int] /\ after \in [Channel -> Int]
      /\ \A c \in list : raised[c] = weights[c] + Weight[c] /\ raised[c] <= raised[picked]
      /\ after = [raised EXCEPT ![picked] = @ - total]
  <2>1. /\ raised = Raised(weights, Weight, Priority, list)
        /\ picked = Selected(raised, list)
        /\ total = TotalWeight(Weight, list)
        /\ after = Spent(raised, Weight, list)
    OBVIOUS
  <2> HIDE DEF raised, picked, total, after
  <2> QED
    BY <1>2, <1>3, <2>1, PickOfLine
<1> HIDE DEF raised, picked, total, after
<1>7. PickStep(weights, list, raised, picked, after)
  BY <1>2, <1>3, <1>4, <1>5, <1>6 DEF PickStep
<1> QED
  BY <1>1, <1>7, WithinKept

LEMMA WeightsMove ==
    ASSUME TypeOK, [Next]_vars
    PROVE  \/ weights' = weights
           \/ available # {} /\ \E r \in Request : \E state : Forward(r, state)
<1>1. ASSUME NEW r, NEW state, NEW result, End(r, state, result) PROVE weights' = weights
  BY <1>1 DEF End
<1>2. ASSUME NEW r \in Request, NEW state, Try(r, state)
      PROVE  \/ weights' = weights
             \/ available # {} /\ Forward(r, state)
  BY <1>1, <1>2 DEF Try
<1>3. ASSUME NEW r \in Request, NEW state, Continue(r, state)
      PROVE  \/ weights' = weights
             \/ available # {} /\ Forward(r, state)
  BY <1>1, <1>2, <1>3 DEF Continue
<1>4. ASSUME NEW r \in Request,
             Start(r) \/ Succeed(r) \/ Refused(r) \/ Abort(r) \/ Fail(r) \/ Recorded(r)
      PROVE  \/ weights' = weights
             \/ available # {} /\ \E state : Forward(r, state)
  <2>1. CASE Start(r)
    BY <1>2, <2>1 DEF Start
  <2>2. CASE Succeed(r)
    BY <1>1, <2>2 DEF Succeed
  <2>3. CASE Refused(r)
    BY <1>1, <2>3 DEF Refused
  <2>4. CASE Abort(r)
    BY <1>1, <2>4 DEF Abort
  <2>5. CASE Fail(r)
    BY <1>3, <2>5 DEF Fail
  <2>6. CASE Recorded(r)
    BY <1>3, <2>6 DEF Recorded
  <2> QED
    BY <1>4, <2>1, <2>2, <2>3, <2>4, <2>5, <2>6
<1>5. ASSUME NEW c \in Channel, Leave(c) \/ Return(c) PROVE weights' = weights
  BY <1>5 DEF Leave, Return
<1>6. CASE UNCHANGED vars
  BY <1>6 DEF vars
<1> QED
  BY <1>4, <1>5, <1>6 DEF Next

LEMMA WeightsStartWithin == Init => Within(weights)
<1> SUFFICES ASSUME Init, NEW part \in SUBSET Channel
             PROVE  LET n == Cardinality(Channel)
                        turn == Sum(Weight, Channel)
                    IN  /\ Sum(weights, part) <= n * turn
                        /\ -2 * Sum(weights, part) <= Low(Cardinality(part), n, turn)
  BY DEF Within
<1>1. IsFiniteSet(part) /\ Cardinality(part) \in Nat /\ Cardinality(Channel) \in Nat
  BY PartTypes
<1>2. Sum(weights, part) = 0
  <2>1. \A x \in part : weights[x] = 0
    BY DEF Init
  <2> QED
    BY <1>1, <2>1, SumOfZeros
<1>3. Sum(Weight, Channel) \in Nat
  BY TurnTypes
<1>4. Cardinality(Channel) * Sum(Weight, Channel) >= 0
  BY <1>1, <1>3, AmountTimes
<1>5. Low(0, Cardinality(Channel), Sum(Weight, Channel)) = 0
  BY <1>1, <1>3 DEF Low
<1>6. Low(Cardinality(part), Cardinality(Channel), Sum(Weight, Channel)) >= 0
  <2>1. Cardinality(part) <= Cardinality(Channel)
    BY PartTypes
  <2> QED
    BY <1>1, <1>3, <1>5, <2>1, LowMore
<1> QED
  BY <1>2, <1>4, <1>6

LEMMA WithinIsBounded ==
    ASSUME TypeOK, Within(weights)
    PROVE  WeightsBounded
<1> DEFINE n == Cardinality(Channel)
           turn == Sum(Weight, Channel)
<1>1. TotalWeight(Weight, Channel) = turn
  BY DEF TotalWeight, Sum, MapThenSumSet, MapThenFoldSet
<1>2. n \in Nat /\ turn \in Nat /\ n * turn \in Int
  BY PartTypes, TurnTypes
<1>3. ASSUME NEW c \in Channel PROVE -(n * turn) <= weights[c] /\ weights[c] <= n * turn
  <2>1. weights[c] \in Int
    BY DEF TypeOK
  <2>2. IsFiniteSet({c}) /\ Cardinality({c}) = 1
    BY FS_Singleton
  <2>3. Sum(weights, {c}) = weights[c]
    <3>1. \A x \in {c} : weights[x] \in Int
      BY <2>1
    <3>2. Sum(weights, {c}) = weights[c] + Sum(weights, {c} \ {c})
      BY <2>2, <3>1, SumTake
    <3>3. {c} \ {c} = {}
      OBVIOUS
    <3>4. Sum(weights, {}) = 0
      BY FS_EmptySet, SumStep
    <3>5. Sum(weights, {c} \ {c}) = 0
      BY <3>3, <3>4, Zenon
    <3> QED
      BY <2>1, <3>2, <3>5
  <2>4. SameLevel({c}) /\ {c} \in SUBSET Channel
    BY DEF SameLevel
  <2>5. weights[c] <= n * turn /\ -2 * weights[c] <= Low(1, n, turn)
    BY <2>2, <2>3, <2>4 DEF Within
  <2>6. Low(1, n, turn) = 2 * (n * turn)
    BY <1>2 DEF Low
  <2> HIDE DEF n, turn
  <2> QED
    BY <1>2, <2>1, <2>5, <2>6
<1> QED
  BY <1>1, <1>3 DEF WeightsBounded

\* Requests that retry side by side take the best channels first, and what they exclude
\* and forget in the weights they share adds up to no drift (channel-pool.service.ts,
\* pick).
THEOREM PicksFair == Spec => []PicksAreFair
<1>1. Init => ExecutorInv /\ Within(weights)
  BY ExecutorStarts, WeightsStartWithin
<1>2. ASSUME ExecutorInv, Within(weights), [Next]_vars
      PROVE  ExecutorInv' /\ Within(weights)'
  <2>1. TypeOK
    BY <1>2 DEF ExecutorInv
  <2>2. CASE weights' = weights
    <3>1. Within(weights)' = Within(weights)
      BY <2>2 DEF Within
    <3> QED
      BY <1>2, <3>1, ExecutorKeeps
  <2>3. CASE available # {} /\ \E r \in Request : \E state : Forward(r, state)
    <3>1. Within(weights')
      BY <1>2, <2>1, <2>3, ForwardWithin
    <3> QED
      BY <1>2, <3>1, ExecutorKeeps
  <2> QED
    BY <1>2, <2>1, <2>2, <2>3, WeightsMove
<1>3. ExecutorInv /\ Within(weights) => PicksAreFair
  <2> SUFFICES ASSUME ExecutorInv, Within(weights) PROVE PicksAreFair
    OBVIOUS
  <2>1. TypeOK /\ BestFirst
    BY DEF ExecutorInv, RunInv, BestFirst, Best
  <2> QED
    BY <2>1, WithinIsBounded DEF PicksAreFair
<1> QED
  BY <1>1, <1>2, <1>3, PTL DEF Spec
=============================================================================
