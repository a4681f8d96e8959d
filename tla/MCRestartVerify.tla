-------------------------- MODULE MCRestartVerify --------------------------
(***************************************************************************)
(* RestartVerify for TLC: a Deployment web with two pod names, another     *)
(* whose name begins like it, and a bare pod; or a StatefulSet.            *)
(***************************************************************************)
EXTENDS RestartVerify

Deployments == {<<"web", "7d", "a">>, <<"web", "7d", "b">>,
                <<"web", "api", "5c", "a">>, <<"job">>}
DeploymentOf == [n \in Deployments |->
                   CASE Len(n) = 3 -> "web" [] Len(n) = 4 -> "web-api" [] OTHER -> "bare"]

StatefulPods == {<<"db", "0">>, <<"db", "1">>}
StatefulSetOf == [n \in StatefulPods |-> "db"]

MCStates == {"ok", "oom", "backoff"}
MCStable == {"db"}

\* The names are as the theorems of RestartVerifyProofs suppose them, but that a
\* StatefulSet uses its names again.
ASSUME NamesAssumption == /\ PrefixTellsController /\ ControllerTellsPrefix
                          /\ Names = Deployments => NamesUsedOnce
=============================================================================
