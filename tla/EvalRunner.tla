----------------------------- MODULE EvalRunner -----------------------------
(***************************************************************************)
(* eval/runner.py: scenario after scenario it clears leftovers, applies    *)
(* the setup manifest, waits for the failure, writes the evidence down and *)
(* tears down.  kubectl and API calls fail, the user interrupts or kills   *)
(* it, and the next invocation meets what the last one left.               *)
(***************************************************************************)
EXTENDS Naturals, FiniteSets

CONSTANTS Scenarios,      \* scenario ids; each labels a Deployment and its pods
          MaxInvocations  \* bound: times the runner is started

ASSUME RunnerAssumption == MaxInvocations \in Nat

VARIABLES pc,          \* where run_scenario is; "idle" when no runner runs
          invocation,  \* how many times it was started; names the run directory
          scenario,    \* the scenario at hand
          left,        \* selected scenarios still to run
          asked,       \* the selected scenarios
          deployment,  \* deployment[s]: the invocation that made it, 0 for none
          pods,        \* pods of the scenarios, Terminating ones too
          met,         \* wait_for_failure's answer
          snapshots,   \* the state.json of each scenario in the run directory
          exit,        \* how the runner ended
          raising,     \* an exception or Ctrl-C is on its way out
          witnessed,   \* history: scenarios seen failing when the wait was over
          spoiled      \* history: kubectl failed, or was interrupted, in a finally

vars == <<pc, invocation, scenario, left, asked, deployment, pods, met, snapshots,
          exit, raising, witnessed, spoiled>>
cluster == <<deployment, pods>>
request == <<invocation, asked>>
report == <<met, snapshots, witnessed>>

-----------------------------------------------------------------------------
None == [run |-> 0, leaving |-> FALSE]
NoSnapshot == [written |-> FALSE, met |-> FALSE]

Init == /\ pc = "idle" /\ invocation = 0 /\ scenario \in Scenarios
        /\ left = {} /\ asked = {}
        /\ deployment = [s \in Scenarios |-> None] /\ pods = {}
        /\ met = FALSE /\ snapshots = [s \in Scenarios |-> NoSnapshot]
        /\ exit = "none" /\ raising = FALSE
        /\ witnessed = {} /\ spoiled = FALSE

\* Mutant: --scenario runs everything.
MainRunsAll(selected) ==
    /\ pc = "idle" /\ invocation < MaxInvocations
    /\ invocation' = invocation + 1
    /\ asked' = selected /\ left' = Scenarios
    /\ snapshots' = [s \in Scenarios |-> NoSnapshot] /\ met' = FALSE
    /\ exit' = "none" /\ raising' = FALSE /\ witnessed' = {} /\ spoiled' = FALSE
    /\ pc' = "next"
    /\ UNCHANGED <<scenario, cluster>>

\* python -m eval.runner --scenario s | --all
main(selected) ==
    /\ pc = "idle" /\ invocation < MaxInvocations
    /\ invocation' = invocation + 1
    /\ asked' = selected /\ left' = selected
    /\ snapshots' = [s \in Scenarios |-> NoSnapshot] /\ met' = FALSE
    /\ exit' = "none" /\ raising' = FALSE /\ witnessed' = {} /\ spoiled' = FALSE
    /\ pc' = "next"
    /\ UNCHANGED <<scenario, cluster>>

next_scenario(s) ==
    /\ pc = "next" /\ s \in left
    /\ scenario' = s /\ left' = left \ {s}
    /\ pc' = "clear"
    /\ UNCHANGED <<request, cluster, report, exit, raising, spoiled>>

\* Mutant: scenarios that never failed are not reported.
FinishComplete == /\ pc = "next" /\ left = {}
                  /\ exit' = "complete"
                  /\ pc' = "idle"
                  /\ UNCHANGED <<request, scenario, left, cluster, report, raising,
                                 spoiled>>

finish == /\ pc = "next" /\ left = {}
          /\ exit' = IF \A s \in asked : snapshots[s].met THEN "complete" ELSE "timed_out"
          /\ pc' = "idle"
          /\ UNCHANGED <<request, scenario, left, cluster, report, raising, spoiled>>

-----------------------------------------------------------------------------
(* run_scenario.                                                           *)

\* kubectl delete deployment,pod -l eval-scenario=s --wait=false, which nobody
\* checks the result of.
kubectl_delete(s, works) ==
    IF works
    THEN /\ deployment' = IF deployment[s] = None THEN deployment
                          ELSE [deployment EXCEPT ![s].leaving = TRUE]
         /\ pods' = {IF p.scenario = s THEN [p EXCEPT !.leaving = TRUE] ELSE p : p \in pods}
    ELSE UNCHANGED cluster

clear(works) ==
    /\ pc = "clear"
    /\ kubectl_delete(scenario, works)
    /\ pc' = "wait_gone"
    /\ UNCHANGED <<request, scenario, left, report, exit, raising, spoiled>>

\* Mutants: the deadline ends the wait like an empty list; there is no deadline.
WaitGoneFallsThrough ==
    /\ pc = "wait_gone"
    /\ pc' = "apply"
    /\ UNCHANGED <<request, scenario, left, cluster, report, exit, raising, spoiled>>
WaitGoneForever ==
    /\ pc = "wait_gone"
    /\ deployment[scenario] = None
    /\ pc' = "apply"
    /\ UNCHANGED <<request, scenario, left, cluster, report, exit, raising, spoiled>>

\* Waits for the Deployment, not for its pods, to be gone; at the deadline
\* raises, outside the try.
wait_for_scenario_gone ==
    /\ pc = "wait_gone"
    /\ \/ /\ deployment[scenario] = None
          /\ pc' = "apply"
          /\ UNCHANGED exit
       \/ /\ deployment[scenario] # None
          /\ pc' = "idle"
          /\ exit' = "raised"
    /\ UNCHANGED <<request, scenario, left, cluster, report, raising, spoiled>>

\* Creates the Deployment, or raises: because there is one already, or in a call
\* that the API server may have carried out.
apply_setup(raises) ==
    /\ pc = "apply"
    /\ deployment[scenario] # None => raises
    /\ \/ /\ deployment[scenario] = None
          /\ deployment' = [deployment EXCEPT ![scenario] =
                              [run |-> invocation, leaving |-> FALSE]]
       \/ raises /\ UNCHANGED deployment
    /\ raising' = raises
    /\ pc' = IF raises THEN "teardown" ELSE "wait_failure"
    /\ UNCHANGED <<request, scenario, left, pods, report, exit, spoiled>>

condition_met == \E p \in pods : p.scenario = scenario /\ p.failing

\* Polls until the condition is met, or the time is over.
wait_for_failure ==
    /\ pc = "wait_failure"
    /\ \/ /\ condition_met
          /\ met' = TRUE
          /\ witnessed' = witnessed \cup {scenario}
       \/ /\ met' = FALSE
          /\ UNCHANGED witnessed
    /\ pc' = "capture"
    /\ UNCHANGED <<request, scenario, left, cluster, snapshots, exit, raising, spoiled>>

\* The debounce wait, capture_snapshot, and state.json.
capture ==
    /\ pc = "capture"
    /\ snapshots' = [snapshots EXCEPT ![scenario] = [written |-> TRUE, met |-> met]]
    /\ pc' = "teardown"
    /\ UNCHANGED <<request, scenario, left, cluster, met, exit, raising, witnessed,
                   spoiled>>

\* The finally block; an exception goes on from here.
teardown(works) ==
    /\ pc = "teardown"
    /\ kubectl_delete(scenario, works)
    /\ spoiled' = (spoiled \/ ~works)
    /\ IF raising THEN pc' = "idle" /\ exit' = "raised"
                  ELSE pc' = "next" /\ UNCHANGED exit
    /\ UNCHANGED <<request, scenario, left, report, raising>>

\* Mutant: the try begins after the wait.
InTryLate == {"capture"}

InTry == {"apply", "wait_failure", "capture"}

\* An API call raises, or the user types Ctrl-C: inside the try the finally is
\* next, outside it, and in the finally itself, the runner ends here.
raises ==
    /\ pc # "idle"
    /\ IF pc \in InTry
       THEN pc' = "teardown" /\ raising' = TRUE /\ UNCHANGED <<exit, spoiled>>
       ELSE /\ pc' = "idle" /\ exit' = "raised"
            /\ spoiled' = (spoiled \/ pc = "teardown")
            /\ UNCHANGED raising
    /\ UNCHANGED <<request, scenario, left, cluster, report>>

kill == /\ pc # "idle"
        /\ pc' = "idle" /\ exit' = "killed"
        /\ UNCHANGED <<request, scenario, left, cluster, report, raising, spoiled>>

-----------------------------------------------------------------------------
(* The cluster.                                                            *)

runner == <<pc, request, scenario, left, report, exit, raising, spoiled>>

deployment_goes(s) == /\ deployment[s].leaving
                      /\ deployment' = [deployment EXCEPT ![s] = None]
                      /\ UNCHANGED <<runner, pods>>

pod_comes(s) ==
    /\ deployment[s] # None /\ ~deployment[s].leaving
    /\ ~\E p \in pods : p.scenario = s /\ p.run = deployment[s].run
    /\ pods' = pods \cup {[scenario |-> s, run |-> deployment[s].run,
                           failing |-> FALSE, leaving |-> FALSE]}
    /\ UNCHANGED <<runner, deployment>>

Becomes(p, q) == pods' = (pods \ {p}) \cup q /\ UNCHANGED <<runner, deployment>>

pod_fails(p) == ~p.failing /\ Becomes(p, {[p EXCEPT !.failing = TRUE]})

\* Garbage collection, once its Deployment is gone.
pod_leaves(p) == /\ deployment[p.scenario].run # p.run /\ ~p.leaving
                 /\ Becomes(p, {[p EXCEPT !.leaving = TRUE]})

pod_goes(p) == p.leaving /\ Becomes(p, {})

-----------------------------------------------------------------------------
Run == \/ \E s \in Scenarios : next_scenario(s)
       \/ finish \/ \E works \in BOOLEAN : clear(works) \/ teardown(works)
       \/ wait_for_scenario_gone \/ \E r \in BOOLEAN : apply_setup(r)
       \/ wait_for_failure \/ capture

Next == \/ main(Scenarios) \/ \E s \in Scenarios : main({s})
        \/ Run \/ raises \/ kill
        \/ \E s \in Scenarios : deployment_goes(s) \/ pod_comes(s)
        \/ \E p \in pods : pod_fails(p) \/ pod_leaves(p) \/ pod_goes(p)

Spec == Init /\ [][Next]_vars

\* A runner that is not killed goes on; its calls answer or raise.  Nothing has
\* to raise, and the cluster owes nothing: leftovers may stay, pods never fail.
FairSpec == Spec /\ WF_vars(Run)

-----------------------------------------------------------------------------
(* What the runner promises.                                               *)

\* Every variable holds a value of its kind.
TypeOK == /\ pc \in {"idle", "next", "clear", "wait_gone", "apply", "wait_failure",
                     "capture", "teardown"}
          /\ invocation \in 0..MaxInvocations
          /\ scenario \in Scenarios /\ left \subseteq asked /\ asked \subseteq Scenarios
          /\ deployment \in [Scenarios -> [run : 0..MaxInvocations, leaving : BOOLEAN]]
          /\ pods \subseteq [scenario : Scenarios, run : 1..MaxInvocations,
                             failing : BOOLEAN, leaving : BOOLEAN]
          /\ snapshots \in [Scenarios -> [written : BOOLEAN, met : BOOLEAN]]
          /\ exit \in {"none", "complete", "timed_out", "raised", "killed"}
          /\ witnessed \subseteq asked
          /\ {met, raising, spoiled} \subseteq BOOLEAN

\* Setup never meets the Deployment of an earlier run, however that one ended and
\* whether or not its remains could be deleted (runner.py:63).
NoConflict == pc = "apply" => deployment[scenario] = None

\* However a run ends short of a kill, with an exception or Ctrl-C at any point,
\* it leaves no Deployment of its own behind, unless the very kubectl of the
\* finally block fails or is interrupted (runner.py:5).
CleansUp ==
    pc = "idle" /\ exit \in {"complete", "timed_out", "raised"} /\ ~spoiled =>
        \A s \in Scenarios : deployment[s].run = invocation => deployment[s].leaving

\* The exit status tells what the run directory holds: complete means that every
\* selected scenario was written down and was seen to fail, timed out that every
\* one was written down and some was not seen to fail.
ReportIsTrue ==
    exit \in {"complete", "timed_out"} =>
        /\ \A s \in asked : snapshots[s].written /\ (snapshots[s].met <=> s \in witnessed)
        /\ exit = "complete" <=> asked = witnessed

\* The runner ends, even if leftovers never clear and no failure ever comes.
RunnerEnds == pc # "idle" ~> pc = "idle"

=============================================================================
