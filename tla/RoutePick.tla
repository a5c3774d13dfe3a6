------------------------------ MODULE RoutePick ------------------------------
(***************************************************************************)
(* ChannelPoolService.pick: the smooth weighted rotation over the channels *)
(* of one model and protocol (channel-pool.service.ts).                    *)
(*                                                                         *)
(* The current weights are kept per priority level; a channel has one      *)
(* priority, so one function of the channels holds them all, 0 standing    *)
(* for no entry.  Channels are numbered in the order of the bindings.  The *)
(* rotation over the keys of a channel is left out.                        *)
(***************************************************************************)
EXTENDS Integers, FiniteSetsExt

\* Faulty variant: an excluded channel stays a candidate.
CandidatesAll(available, attempted) == available

\* Channels not tried yet, or any when all were.
Candidates(available, attempted) ==
    IF available \ attempted # {} THEN available \ attempted ELSE available

\* Faulty variant: the priorities are not looked at.
LevelAny(priority, candidates) == candidates

\* The candidates of the highest priority present.
Level(priority, candidates) ==
    {c \in candidates : \A d \in candidates : priority[d] <= priority[c]}

TotalWeight(weight, list) == MapThenSumSet(LAMBDA c : weight[c], list)

\* Everybody in the list gains its weight; the entries of others of the same
\* priority are forgotten.
Raised(weights, weight, priority, list) ==
    [c \in DOMAIN weights |->
        IF c \in list THEN weights[c] + weight[c]
        ELSE IF \E d \in list : priority[d] = priority[c] THEN 0
        ELSE weights[c]]

\* The first channel of the list with the largest current weight.
Selected(raised, list) ==
    Min({c \in list : \A d \in list : raised[d] <= raised[c]})

\* Faulty variant: the selected channel pays its own weight only.
SpentOwn(raised, weight, list) ==
    [raised EXCEPT ![Selected(raised, list)] = @ - weight[Selected(raised, list)]]

\* The selected channel pays what the others gained.
Spent(raised, weight, list) ==
    [raised EXCEPT ![Selected(raised, list)] = @ - TotalWeight(weight, list)]
=============================================================================
