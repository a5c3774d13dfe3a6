-------------------------- MODULE VersionLifecycle --------------------------
(***************************************************************************)
(* What the service centre promises about one service version across all   *)
(* environments (service-lifecycle.md): its life is one way, environments  *)
(* take it up only while it is maintained, and it retires unused.          *)
(***************************************************************************)
CONSTANT Environment

VARIABLES
    status,  \* where the version is in its life
    users    \* environments that route calls to it

TypeOK ==
    /\ status \in {"unregistered", "draft", "published", "deprecated", "retired"}
    /\ users \subseteq Environment

Init == status = "unregistered" /\ users = {}

Register == status = "unregistered" /\ status' = "draft" /\ UNCHANGED users

\* A version from before lifecycles arrives as published.
Adopt ==
    /\ status \in {"unregistered", "published"}
    /\ status' = "published"
    /\ users' = users \/ \E e \in Environment : users' = users \cup {e}

TakeUp(e) ==
    /\ status \in {"draft", "published"}
    /\ status' = "published"
    /\ users' = users \cup {e}

Drop(e) == users' = users \ {e} /\ UNCHANGED status

Deprecate == status = "published" /\ status' = "deprecated" /\ UNCHANGED users

Maintain == status = "deprecated" /\ status' = "published" /\ UNCHANGED users

Retire ==
    /\ status \in {"draft", "deprecated"}
    /\ users = {}
    /\ status' = "retired"
    /\ UNCHANGED users

Next ==
    \/ Register \/ Adopt \/ Deprecate \/ Maintain \/ Retire
    \/ \E e \in Environment : TakeUp(e) \/ Drop(e)

Spec == Init /\ [][Next]_<<status, users>>
=============================================================================
