------------------------------ MODULE MCRuntime ------------------------------
(***************************************************************************)
(* Runtime for TLC.  Runs are independent of each other but for a crash,   *)
(* which takes them all; one thread_id and one key show what the registry  *)
(* can do to a run, two clients what they can do to each other.            *)
(***************************************************************************)
EXTENDS Runtime

MCKeys == {"crashloop/ns/pod"}
=============================================================================
