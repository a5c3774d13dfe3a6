------------------------- MODULE MCServiceRegistry -------------------------
(* Two versions of one service, or two services that share a route.        *)
EXTENDS ServiceRegistry, TLC

CONSTANTS staging, production, s1, s2, v1, v2, a, b, alice, bob

Environments == {staging, production}
OneOperator == {alice}
TwoOperators == {alice, bob}
OneEndpoint == {a}
TwoEndpoints == {a, b}
OneService == {<<s1, v1>>, <<s1, v2>>}
Takeover == {<<s1, v1>>, <<s2, v1>>}
Taken == {<<<<s1, v1>>, <<s2, v1>>>>, <<<<s2, v1>>, <<s1, v1>>>>}
NoConflicts == {}

\* A bootstrapped JSON store: s1@v1 in use, no lifecycle row.
Bootstrapped ==
    [publications |-> {<<s1, v1>>}, recorded |-> {},
     lifecycles |-> [p \in Publication |-> Historic],
     active |-> [s \in Service |-> IF s = s1 THEN v1 ELSE Absent],
     bindings |-> [s \in Service |-> NoEndpoint],
     revisions |-> [s \in Service |-> 0]]

\* The same store after its operator replaced, deprecated and retired v1.
Retiring ==
    [Bootstrapped EXCEPT
        !.recorded = {<<s1, v1>>},
        !.lifecycles[<<s1, v1>>] =
            [status |-> "retired", revision |-> 2, retireAfter |-> 0],
        !.active[s1] = Disabled,
        !.revisions[s1] = 1]

Fresh == {Bootstrapped}
Diverged == {Bootstrapped, Retiring}
Symmetry == Permutations(Environments) \cup Permutations(TwoOperators)
=============================================================================
