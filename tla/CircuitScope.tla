---------------------------- MODULE CircuitScope ----------------------------
(***************************************************************************)
(* What the circuit breaker promises for one (model, protocol) scope: a    *)
(* path leaves the rotation alone, and only while another one stays in.    *)
(* Paths return at any time, several at once (their time is up).           *)
(***************************************************************************)
CONSTANT Channel

VARIABLE open  \* paths out of rotation

TypeOK == open \subseteq Channel

Init == open = {}

OpenPath(c) ==
    /\ c \notin open
    /\ open' = open \cup {c}
    /\ open' # Channel

ClosePaths(S) == open' = open \ S

Next ==
    \/ \E c \in Channel : OpenPath(c)
    \/ \E S \in SUBSET open : ClosePaths(S)

Spec == Init /\ [][Next]_open
=============================================================================
