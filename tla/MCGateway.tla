-------------------------------- MODULE MCGateway --------------------------------
(* Parts of the token gateway beside route circuits, quota and retries, each      *)
(* checked alone: subject names the part that runs, the others keep their first   *)
(* state.                                                                         *)
EXTENDS RelayStream, RouteRotation, RouteTable, TokenAccess, GroupDirectory, TLC

VARIABLE subject

Subjects == {"stream", "rotation", "routes", "token", "groups"}

\* Answers of an upstream: complete, ended by [DONE], with an error event, cut in
\* the usage without a newline, and cut after the usage.
Wires == {<<"d", "x", "X", "n", "n", "d", "t", "T", "n", "n", "d", "x">>,
          <<"d", "f", "F", "n", "n", "n">>,
          <<"n", "d", "t", "T", "n", "d", "x", "X", "n", "n", "d", "e", "E", "n", "n">>,
          <<"d", "t", "T">>,
          <<"d", "t", "n", "n", "d", "x", "X", "n", "n">>}
Lines == 1..4

GatewayVars == <<StreamVars, RotationVars, RouteVars, TokenVars, DirectoryVars, subject>>

Init ==
    /\ subject \in Subjects
    /\ StreamInit /\ RotationInit /\ RouteInit /\ TokenInit /\ DirectoryInit
    /\ models[1].name = "m"
    /\ subject # "stream" => request.protocol = "chat" /\ request.stream
    /\ subject # "rotation" => \A c \in Line : weight[c] = 1

Only(part, step, others) == subject = part /\ step /\ UNCHANGED <<others, subject>>

RunStream(step) == Only("stream", step, <<RotationVars, RouteVars, TokenVars, DirectoryVars>>)
RunRotation(step) == Only("rotation", step, <<StreamVars, RouteVars, TokenVars, DirectoryVars>>)
RunRoutes(step) == Only("routes", step, <<StreamVars, RotationVars, TokenVars, DirectoryVars>>)
RunToken(step) == Only("token", step, <<StreamVars, RotationVars, RouteVars, DirectoryVars>>)
RunGroups(step) == Only("groups", step, <<StreamVars, RotationVars, RouteVars, TokenVars>>)

Next ==
    \/ RunStream(StreamNext)
    \/ RunRotation(RotationNext)
    \/ RunRoutes(RouteNext)
    \/ RunToken(TokenNext)
    \/ RunGroups(DirectoryNext)

\* The fairness of the parts; as one part runs only, actions of two parts share
\* a condition.
Spec ==
    /\ Init /\ [][Next]_GatewayVars
    /\ WF_GatewayVars(RunStream(WatchdogFires) \/ RunRoutes(\E r \in Refresh : Tick(r)))
    /\ \A k \in 1..2 :
          WF_GatewayVars(\/ RunRoutes(ReadRows(k) \/ ReadBindings(k) \/ Install(k))
                         \/ RunToken(StartDirectory(k) \/ Fetch(k) \/ ApplySync(k)))

\* Every part keeps its variables in their types: one record per operation under
\* way, in one of its phases, and rows with values their columns take.
TypeOK == StreamTypeOK /\ RouteTypeOK /\ TokenTypeOK /\ DirectoryTypeOK
=============================================================================
