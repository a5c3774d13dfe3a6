-------------------------- MODULE MCCircuitBreaker --------------------------
(* Model values and symmetry for checking CircuitBreaker.                  *)
EXTENDS CircuitBreaker, TLC

CONSTANTS g1, g2, c1, c2, MaxOutcomes, MaxFaults

TwoGateways == {g1, g2}
OneGateway == {g1}
TwoChannels == {c1, c2}
ChannelSymmetry == Permutations(TwoChannels)
FullSymmetry == Permutations(TwoGateways) \cup Permutations(TwoChannels)
Limits == [outcome |-> MaxOutcomes, fault |-> MaxFaults]
=============================================================================
