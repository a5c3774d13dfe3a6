--------------------------- MODULE MCRelayExecutor ---------------------------
EXTENDS RelayExecutor, TLC

Uneven == [c \in Channel |-> IF c = 1 THEN 2 ELSE 1] \* the first counts twice
WithReserve == [c \in Channel |-> IF c = 3 THEN 1 ELSE 5]

Symmetry == Permutations(Request)
=============================================================================
