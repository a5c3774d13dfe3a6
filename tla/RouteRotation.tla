---------------------------- MODULE RouteRotation ----------------------------
(***************************************************************************)
(* The rotation while no channel fails and none enters or leaves: picks of *)
(* one priority level with any weights.  One turn is as many picks as the  *)
(* weights add up to.                                                      *)
(***************************************************************************)
EXTENDS RoutePick, FiniteSets

CONSTANTS
    Line,      \* channels of one level
    MaxWeight

ASSUME LineAssumption == Line \subseteq Nat /\ Line # {} /\ IsFiniteSet(Line)
ASSUME WeightAssumption == MaxWeight \in Nat \ {0}

VARIABLES
    weight,  \* the configured weights
    weights, \* the current ones, bindingWeights
    served   \* picks of each channel in this turn

RotationVars == <<weight, weights, served>>

RotationInit ==
    /\ weight \in [Line -> 1..MaxWeight]
    /\ weights = [c \in Line |-> 0]
    /\ served = [c \in Line |-> 0]

Total == TotalWeight(weight, Line)
Picks == MapThenSumSet(LAMBDA c : served[c], Line)

PickNext ==
    LET priority == [c \in Line |-> 0]
        list == Level(priority, Candidates(Line, {}))
        raised == Raised(weights, weight, priority, list)
    IN  /\ Picks < Total
        /\ weights' = Spent(raised, weight, list)
        /\ served' = [served EXCEPT ![Selected(raised, list)] = @ + 1]
        /\ UNCHANGED weight

NextTurn ==
    /\ Picks = Total
    /\ served' = [c \in Line |-> 0]
    /\ UNCHANGED <<weight, weights>>

RotationNext == PickNext \/ NextTurn

RotationSpec == RotationInit /\ [][RotationNext]_RotationVars

-----------------------------------------------------------------------------
\* After a whole turn every channel was picked exactly as often as its weight,
\* and the next turn starts from scratch.
TurnIsExact ==
    Picks = Total => served = weight /\ weights = [c \in Line |-> 0]

\* How far a channel is ahead of its share of the picks of this turn, in parts of a
\* request (Total of them are one).
Ahead(c) == served[c] * Total - Picks * weight[c]

\* Within a turn no channel is a whole request ahead of its share.
NeverOneAhead == \A c \in Line : Ahead(c) < Total

\* Nor does one wait for ever: it is behind by less than there are others in the line.
\* (By more than one request it may be: five channels with the weights 30, 37, 3, 1
\* and 1 leave the first behind by 1.07 requests.)
NeverLeftBehind == \A c \in Line : -Ahead(c) <= (Cardinality(Line) - 1) * Total

\* Every channel gets its share, over a turn exactly and at any moment within one request
\* too many.
SharesAreExact == TurnIsExact /\ NeverOneAhead /\ NeverLeftBehind
=============================================================================
