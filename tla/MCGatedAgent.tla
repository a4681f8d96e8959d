---------------------------- MODULE MCGatedAgent ----------------------------
(***************************************************************************)
(* GatedAgent for TLC.  Runs share nothing but the clock and a crash, so   *)
(* one thread_id shows what two would; the namespaces are one of each kind *)
(* the two lists of the configuration tell apart.                          *)
(***************************************************************************)
EXTENDS GatedAgent

MCNamespaces == {"eval", "default", "kube-system"}
MCWriteNamespaces == {"eval", "default"}
MCExecuteNamespaces == {"eval", "kube-system"}
=============================================================================
