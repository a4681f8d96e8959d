------------------------------ MODULE MCWatcher ------------------------------
(***************************************************************************)
(* Watcher for TLC: one pod, in the namespace of the eval harness or not. *)
(***************************************************************************)
EXTENDS Watcher

Pod(ns, n) == [namespace |-> ns, name |-> n]

OnePod == {Pod("eval", "a")}
OutOfEval == {Pod("default", "a")}

MCEval == {"eval"}
MCDefault == {"default"}

EveryState == {"absent", "ok", "oom", "backoff", "nopull", "pending"}
Pend == {"ok", "pending"}

MCDebounce == [crashloop |-> 2, oom |-> 2, pending_unschedulable |-> 3]
=============================================================================
