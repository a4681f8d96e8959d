--------------------------- MODULE RestartVerify ---------------------------
(***************************************************************************)
(* An approved restart against the pods it is about: act re-verifies the   *)
(* condition, reads the pod and deletes it, verify looks again, and all    *)
(* the while pods fail, recover, go and are replaced, and calls fail.      *)
(* AgentGraph leaves open what these calls answer; here they are computed  *)
(* from the pods of the trigger's namespace, as make_condition_check and   *)
(* LiveActuator compute them.                                              *)
(***************************************************************************)
EXTENDS Naturals, Sequences, Conditions

CONSTANTS Names,            \* pod names, as the sequences of their segments
          Controller,       \* Controller[n]: the owner of the pod named n, or Bare
          Bare,             \* no ownerReference
          Stable,           \* owners whose replacements keep the name: StatefulSets
          PodStates,        \* the states pods go through
          MaxLives,         \* bound: pods one name may have, one after the other
          MaxListFailures   \* bound: list calls that fail

ASSUME RestartAssumption == /\ \A n \in Names : n # <<>>
                            /\ DOMAIN Controller = Names
                            /\ "absent" \notin PodStates
                            /\ PodStates \subseteq AllPodStates
                            /\ MaxLives \in Nat
                            /\ MaxListFailures \in Nat

VARIABLES pods,      \* pods[n]: the pod named n, now
          pc,        \* where the run is
          trigger,   \* the pod and the failure the run is about
          outcome,
          failures,  \* list calls that have failed
          shown,     \* history: the workload showed the failure since the approval
          deleted,   \* history: the pod the run deleted
          verdict    \* history: what verify could see, and what was the case

vars == <<pods, pc, trigger, outcome, failures, shown, deleted, verdict>>
run == <<pc, trigger, outcome, failures, deleted, verdict>>

-----------------------------------------------------------------------------
(* Pods.  One that is being deleted stays, Terminating, with the status it *)
(* had.  A name is used again only by a StatefulSet.                       *)

Absent == [status |-> "absent", leaving |-> FALSE, life |-> 0]
Pod(status, life) == [status |-> status, leaving |-> FALSE, life |-> life]

Exists(n) == pods[n].status # "absent"

\* Which pod: a name and its incarnation.
Id(n) == [name |-> n, life |-> pods[n].life]
NoPod == [name |-> <<>>, life |-> 0]

shows(status, id) == classify(status, {}, {}) = id

\* The failure of the trigger, in any pod of its controller but the deleted one.
Failing(ps) ==
    \E n \in Names : /\ Controller[n] = Controller[trigger.pod]
                     /\ [name |-> n, life |-> ps[n].life] # deleted
                     /\ shows(ps[n].status, trigger.trigger_id)

Init == /\ \E n \in Names, s \in {s \in PodStates : classify(s, {}, {}) # "none"} :
             /\ pods = [m \in Names |-> IF m = n THEN Pod(s, 1) ELSE Absent]
             /\ trigger = [pod |-> n, trigger_id |-> classify(s, {}, {})]
        /\ pc = "gate" /\ outcome = "none" /\ failures = 0
        /\ shown = FALSE /\ deleted = NoPod
        /\ verdict = [listed |-> FALSE, failing |-> FALSE]

\* The pods become ps while the run stays where it is.
Become(ps) == /\ pods' = ps
              /\ shown' = (shown \/ (pc # "gate" /\ Failing(ps)))
              /\ UNCHANGED run

pod_changes(n, s) ==
    /\ Exists(n) /\ pods[n].status # s
    /\ Become([pods EXCEPT ![n].status = s])

\* Deleted by somebody else: an eviction, a rollout, a scale-down.
pod_leaves(n) == /\ Exists(n) /\ ~pods[n].leaving
                 /\ Become([pods EXCEPT ![n].leaving = TRUE])

pod_goes(n) == /\ pods[n].leaving
               /\ Become([pods EXCEPT ![n].status = "absent", ![n].leaving = FALSE])

\* The controller replaces a pod, or scales up.
pod_comes(n, s) ==
    /\ Controller[n] # Bare
    /\ ~Exists(n)
    /\ pods[n].life < IF Controller[n] \in Stable THEN MaxLives ELSE 1
    /\ Become([pods EXCEPT ![n] = Pod(s, pods[n].life + 1)])

-----------------------------------------------------------------------------
(* make_condition_check.                                                   *)

\* name.rsplit("-", 2)[0]
prefix(n) == SubSeq(n, 1, IF Len(n) > 2 THEN Len(n) - 2 ELSE 1)

\* What the check takes for granted of names: pods of one prefix are of one
\* controller, and those of one controller are of one prefix.
PrefixTellsController ==
    \A m, n \in Names : prefix(m) = prefix(n) => Controller[m] = Controller[n]
ControllerTellsPrefix ==
    \A m, n \in Names : Controller[m] = Controller[n] /\ Controller[m] # Bare
                          => prefix(m) = prefix(n)

\* ... and the exclusion of the deleted pod by its name: no name comes back.
NamesUsedOnce == \A n \in Names : Controller[n] \notin Stable

\* Mutant: verify looks at the deleted pod as well.
ExcludingNobody(exclude) ==
    \E n \in Names : /\ Exists(n)
                     /\ prefix(n) = prefix(trigger.pod)
                     /\ shows(pods[n].status, trigger.trigger_id)

any_failing(exclude) ==
    \E n \in Names \ exclude : /\ Exists(n)
                               /\ prefix(n) = prefix(trigger.pod)
                               /\ shows(pods[n].status, trigger.trigger_id)

\* Mutant: without a list, the condition is taken to hold.
ConditionUnknownHolds(exclude, listed, holds) ==
    \/ /\ listed /\ holds = any_failing(exclude)
       /\ UNCHANGED failures
    \/ /\ ~listed /\ holds
       /\ failures < MaxListFailures
       /\ failures' = failures + 1

\* The list call answers, and the condition holds or not; or it fails, and the
\* condition is taken not to hold.
condition_check(exclude, listed, holds) ==
    \/ /\ listed /\ holds = any_failing(exclude)
       /\ UNCHANGED failures
    \/ /\ ~listed /\ ~holds
       /\ failures < MaxListFailures
       /\ failures' = failures + 1

-----------------------------------------------------------------------------
(* The run.                                                                *)

\* The human approves in time: act begins.
approve == /\ pc = "gate"
           /\ pc' = "act"
           /\ shown' = Failing(pods)
           /\ UNCHANGED <<pods, trigger, outcome, failures, deleted, verdict>>

Close(o) == pc' = "closed" /\ outcome' = o

act_check(listed, holds) ==
    /\ pc = "act"
    /\ condition_check({}, listed, holds)
    /\ IF holds THEN pc' = "read" /\ UNCHANGED outcome ELSE Close("stale")
    /\ UNCHANGED <<pods, trigger, shown, deleted, verdict>>

refuses(n) == ~Exists(n) \/ Controller[n] = Bare

\* restart_pod, the read: the pod may be deleted; or it is gone, or has no owner,
\* or the call fails, which is taken for a pod that is gone.
restart_read ==
    /\ pc = "read"
    /\ \/ ~refuses(trigger.pod) /\ pc' = "delete" /\ UNCHANGED outcome
       \/ Close("error")
    /\ UNCHANGED <<pods, trigger, failures, shown, deleted, verdict>>

\* restart_pod, the delete, by name: of a pod already Terminating it changes
\* nothing; without one, or when the call fails, carried out or not, it raises,
\* out of the graph.
restart_delete ==
    /\ pc = "delete"
    /\ \/ /\ Exists(trigger.pod)
          /\ pc' \in {"verify", "raised"}
          /\ pods' = [pods EXCEPT ![trigger.pod].leaving = TRUE]
          /\ deleted' = Id(trigger.pod)
       \/ /\ pc' = "raised"
          /\ UNCHANGED <<pods, deleted>>
    /\ UNCHANGED <<trigger, outcome, failures, shown, verdict>>

\* Mutant: the outcome SPEC.md:138 and DESIGN.md:67 also name.
VerifyWorsened(listed, holds) ==
    /\ pc = "verify"
    /\ condition_check({trigger.pod}, listed, holds)
    /\ Close(IF holds THEN "worsened" ELSE "resolved")
    /\ verdict' = [listed |-> listed, failing |-> Failing(pods)]
    /\ UNCHANGED <<pods, trigger, shown, deleted>>

verify(listed, holds) ==
    /\ pc = "verify"
    /\ condition_check({trigger.pod}, listed, holds)
    /\ Close(IF holds THEN "persists" ELSE "resolved")
    /\ verdict' = [listed |-> listed, failing |-> Failing(pods)]
    /\ UNCHANGED <<pods, trigger, shown, deleted>>

Next == \/ approve
        \/ \E listed, holds \in BOOLEAN : act_check(listed, holds) \/ verify(listed, holds)
        \/ restart_read \/ restart_delete
        \/ \E n \in Names, s \in PodStates : pod_changes(n, s) \/ pod_comes(n, s)
        \/ \E n \in Names : pod_leaves(n) \/ pod_goes(n)

Spec == Init /\ [][Next]_vars

-----------------------------------------------------------------------------
(* What an approved restart promises.                                      *)

\* Every variable holds a value of its kind.
TypeOK == /\ pods \in [Names -> [status : PodStates \cup {"absent"},
                                 leaving : BOOLEAN, life : Nat]]
          /\ pc \in {"gate", "act", "read", "delete", "verify", "closed", "raised"}
          /\ trigger \in [pod : Names, trigger_id : Triggers]
          /\ outcome \in {"none", "stale", "error", "persists", "resolved"}
          /\ failures \in 0..MaxListFailures
          /\ shown \in BOOLEAN
          /\ deleted \in [name : Names, life : Nat] \cup {NoPod}
          /\ verdict \in [listed : BOOLEAN, failing : BOOLEAN]

\* A workload that has recovered is left alone: a pod is deleted only if, at some
\* moment since the approval, a pod of its controller showed the failure the
\* proposal was about, however the list calls fare.
HealthyIsSpared == deleted # NoPod => shown

\* When verify has seen the pods, its outcome is what is the case: the failure
\* persists in some pod of the workload that was not deleted, or in none.  The
\* deleted pod's Terminating remains do not count, nor do other workloads.
VerdictIsTrue ==
    outcome \in {"persists", "resolved"} /\ verdict.listed =>
        (outcome = "persists" <=> verdict.failing)

-----------------------------------------------------------------------------
(* What the documents say and the check does not do.                       *)

\* SPEC.md:137: if the condition persists after the fix, escalate.  The pod that
\* was deleted is excluded by name, and in a StatefulSet so is its replacement.
FailedFixEscalates == outcome = "resolved" => ~verdict.failing

=============================================================================
