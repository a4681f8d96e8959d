---------------------------- MODULE MCAgentGraph ----------------------------
(***************************************************************************)
(* AgentGraph for TLC.  Runs of the graph share nothing but the clock, so  *)
(* one thread shows everything two would; the namespaces are one of each   *)
(* kind the two lists of the configuration can tell apart.                 *)
(***************************************************************************)
EXTENDS AgentGraph

MCNamespaces == {"eval", "default", "kube-system"}
MCWriteNamespaces == {"eval", "default"}
MCExecuteNamespaces == {"eval", "kube-system"}
=============================================================================
