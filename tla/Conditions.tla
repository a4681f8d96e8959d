----------------------------- MODULE Conditions -----------------------------
(***************************************************************************)
(* What the agent makes of a listed pod (eval/runner.py's helpers and      *)
(* classify of agent/watcher.py): used by the sweep of the watcher, and by *)
(* the check before and after a deletion.                                  *)
(***************************************************************************)
Triggers == {"crashloop", "oom", "pending_unschedulable"}

\* oom: a container was OOM-killed.  backoff, nopull: one waits for a failure
\* reason, the pod Running or still Pending.  pending: Pending for no such
\* reason.
AllPodStates == {"absent", "ok", "oom", "backoff", "nopull", "pending"}

PendingPhase == {"nopull", "pending"}

EvalNamespace == "eval"     \* runner.NAMESPACE

\* Looks in the namespace of the harness, for any of the names; unscheduled are
\* the pods that FailedScheduling events are about.
failed_scheduling(names, unscheduled) ==
    \E q \in unscheduled : q.namespace = EvalNamespace /\ q.name \in names

\* Mutant: the pod's own reason instead of a trigger id.
ClassifyByReason(s, names, unscheduled) ==
    IF s \in {"backoff", "nopull"} THEN "CrashLoopBackOff" ELSE "none"

\* A pod listed in state s among pods of which names were Pending.
classify(s, names, unscheduled) ==
    IF s = "oom" THEN "oom"
    ELSE IF s \in {"backoff", "nopull"} THEN "crashloop"
    ELSE IF s = "pending" /\ failed_scheduling(names, unscheduled)
         THEN "pending_unschedulable"
    ELSE "none"

=============================================================================
