--------------------------- MODULE MCRelayQuota ---------------------------
(* Two requests of one user, cheap ones and dear ones, and a quota that    *)
(* holds two cheap ones or one dear one.                                   *)
EXTENDS RelayQuota, TLC

CONSTANTS r1, r2

TwoRequests == {r1, r2}
Prices == {0, 1, 2}
Quotas == {0, 2}
NoChange == {}
Symmetry == Permutations(TwoRequests)
=============================================================================
