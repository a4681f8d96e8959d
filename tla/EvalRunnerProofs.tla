-------------------------- MODULE EvalRunnerProofs --------------------------
(***************************************************************************)
(* Proofs about EvalRunner, for any scenarios and any number of            *)
(* invocations.                                                            *)
(***************************************************************************)
EXTENDS EvalRunner, TLAPS

Deployments == [run : 0..MaxInvocations, leaving : BOOLEAN]
PodRecords == [scenario : Scenarios, run : 1..MaxInvocations,
               failing : BOOLEAN, leaving : BOOLEAN]
Snapshots == [written : BOOLEAN, met : BOOLEAN]

\* Inside run_scenario.
Working == {"clear", "wait_gone", "apply", "wait_failure", "capture", "teardown"}

\* The scenario at hand is one of those asked for, and has been taken off the list.
ScenarioInv == pc \in Working => scenario \in asked \ left

\* A run of the runner has a number, and while it lasts no exit status; its number is
\* larger than that of whatever it finds.
RunInv == /\ pc # "idle" => invocation \in 1..MaxInvocations /\ exit = "none"
          /\ exit # "none" => invocation # 0
          /\ \A s \in Scenarios : deployment[s].run <= invocation

-----------------------------------------------------------------------------
(* Types.                                                                  *)

\* kubectl delete makes deployments and pods of deployments and pods.
LEMMA DeleteType ==
    ASSUME TypeOK, NEW s \in Scenarios, NEW works \in BOOLEAN, kubectl_delete(s, works)
    PROVE  deployment' \in [Scenarios -> Deployments] /\ pods' \subseteq PodRecords
  <1>1. CASE works
    <2>1. [deployment EXCEPT ![s].leaving = TRUE] \in [Scenarios -> Deployments]
      BY DEF TypeOK, Deployments
    <2>2. \A p \in pods : [p EXCEPT !.leaving = TRUE] \in PodRecords /\ p \in PodRecords
      BY DEF TypeOK, PodRecords
    <2>3. deployment' \in [Scenarios -> Deployments]
      BY <1>1, <2>1 DEF kubectl_delete, TypeOK, Deployments
    <2>4. pods' = {IF p.scenario = s THEN [p EXCEPT !.leaving = TRUE] ELSE p : p \in pods}
      BY <1>1 DEF kubectl_delete
    <2> QED
      BY <2>2, <2>3, <2>4
  <1>2. CASE ~works
    BY <1>2 DEF kubectl_delete, cluster, TypeOK, Deployments, PodRecords
  <1> QED
    BY <1>1, <1>2

\* Pods come with the number of their Deployment, which is of some invocation.
LEMMA PodComesType ==
    ASSUME TypeOK, NEW s \in Scenarios, pod_comes(s)
    PROVE  pods' \subseteq PodRecords
  <1>1. deployment[s] \in Deployments
    BY DEF TypeOK, Deployments
  <1>2. deployment[s].run # 0
    BY <1>1 DEF pod_comes, None, Deployments
  <1>3. [scenario |-> s, run |-> deployment[s].run, failing |-> FALSE, leaving |-> FALSE]
          \in PodRecords
    BY <1>1, <1>2, RunnerAssumption DEF Deployments, PodRecords
  <1> QED
    BY <1>3 DEF pod_comes, TypeOK, PodRecords

\* A pod that changes is still one.
LEMMA BecomesType ==
    ASSUME TypeOK, NEW p \in pods, pod_fails(p) \/ pod_leaves(p) \/ pod_goes(p)
    PROVE  pods' \subseteq PodRecords
  <1>1. p \in PodRecords
    BY DEF TypeOK, PodRecords
  <1>2. [p EXCEPT !.failing = TRUE] \in PodRecords /\ [p EXCEPT !.leaving = TRUE] \in PodRecords
    BY <1>1 DEF PodRecords
  <1> QED
    BY <1>2 DEF pod_fails, pod_leaves, pod_goes, Becomes, TypeOK, PodRecords

\* The cluster's own steps touch nothing of the runner's.
LEMMA ClusterSteps ==
    ASSUME \/ \E s \in Scenarios : deployment_goes(s) \/ pod_comes(s)
           \/ \E p \in pods : pod_fails(p) \/ pod_leaves(p) \/ pod_goes(p)
    PROVE  UNCHANGED runner
  BY DEF deployment_goes, pod_comes, pod_fails, pod_leaves, pod_goes, Becomes

\* Spec => [](TypeOK /\ ScenarioInv /\ RunInv), inductive only together: it is of the
\* scenario at hand that things are written down.
LEMMA Basics == Spec => [](TypeOK /\ ScenarioInv /\ RunInv)
  <1> DEFINE TInv == TypeOK /\ ScenarioInv /\ RunInv
  <1>1. Init => TInv
    <2> SUFFICES ASSUME Init PROVE TInv
      OBVIOUS
    <2>1. deployment \in [Scenarios -> Deployments] /\ 0 \in 0..MaxInvocations
      BY RunnerAssumption DEF Init, None, Deployments
    <2>2. snapshots \in [Scenarios -> Snapshots]
      BY DEF Init, NoSnapshot, Snapshots
    <2>3. {met, raising, spoiled} \subseteq BOOLEAN
      BY DEF Init
    <2>4. ScenarioInv /\ RunInv
      BY DEF Init, None, ScenarioInv, RunInv, Working
    <2> QED
      BY <2>1, <2>2, <2>3, <2>4 DEF Init, TypeOK, Deployments, Snapshots
  <1>2. TInv /\ [Next]_vars => TInv'
    <2> SUFFICES ASSUME TInv, [Next]_vars PROVE TInv'
      OBVIOUS
    <2> USE RunnerAssumption DEF ScenarioInv, RunInv, Working
    <2>0. pc # "idle" => invocation # 0
      OBVIOUS
    <2>1. ASSUME NEW selected \in SUBSET Scenarios, main(selected)
          PROVE  TInv'
      <3>1. snapshots' \in [Scenarios -> Snapshots]
        BY <2>1 DEF main, NoSnapshot, Snapshots
      <3>2. invocation' \in 1..MaxInvocations /\ invocation' = invocation + 1
        BY <2>1 DEF main, TypeOK
      <3>3. {met', raising', spoiled'} \subseteq BOOLEAN
        BY <2>1 DEF main
      <3>4. ScenarioInv' /\ RunInv'
        BY <2>1, <3>2 DEF main, cluster, TypeOK
      <3> QED
        BY <2>1, <3>1, <3>2, <3>3, <3>4 DEF main, cluster, TypeOK, Snapshots
    <2>2. ASSUME NEW s \in Scenarios, next_scenario(s)
          PROVE  TInv'
      BY <2>2 DEF next_scenario, request, cluster, report, TypeOK
    <2>3. CASE finish
      BY <2>3 DEF finish, request, cluster, report, TypeOK
    <2>4. ASSUME NEW works \in BOOLEAN, clear(works) \/ teardown(works)
          PROVE  TInv'
      <3>1. deployment' \in [Scenarios -> Deployments] /\ pods' \subseteq PodRecords
        BY <2>4, DeleteType DEF clear, teardown, TypeOK
      <3>2. \A s \in Scenarios : deployment'[s].run = deployment[s].run
        BY <2>4 DEF clear, teardown, kubectl_delete, cluster, TypeOK
      <3> QED
        BY <2>0, <2>4, <3>1, <3>2 DEF clear, teardown, request, report, TypeOK,
           Deployments, PodRecords
    <2>5. CASE wait_for_scenario_gone
      BY <2>5 DEF wait_for_scenario_gone, request, cluster, report, TypeOK
    <2>6. ASSUME NEW r \in BOOLEAN, apply_setup(r)
          PROVE  TInv'
      <3>1. [run |-> invocation, leaving |-> FALSE] \in Deployments
        BY DEF TypeOK, Deployments
      <3>2. deployment' \in [Scenarios -> Deployments]
        BY <2>6, <3>1 DEF apply_setup, TypeOK, Deployments
      <3>3. \A s \in Scenarios : deployment'[s].run <= invocation
        BY <2>6 DEF apply_setup, TypeOK
      <3> QED
        BY <2>6, <3>2, <3>3 DEF apply_setup, request, report, TypeOK, Deployments
    <2>7. CASE wait_for_failure
      BY <2>7 DEF wait_for_failure, request, cluster, TypeOK
    <2>8. CASE capture
      <3>1. [written |-> TRUE, met |-> met] \in Snapshots
        BY DEF TypeOK, Snapshots
      <3>2. snapshots' \in [Scenarios -> Snapshots]
        BY <2>8, <3>1 DEF capture, TypeOK, Snapshots
      <3> QED
        BY <2>8, <3>2 DEF capture, request, cluster, TypeOK, Snapshots
    <2>9. CASE raises \/ kill
      BY <2>0, <2>9 DEF raises, kill, InTry, request, cluster, report, TypeOK
    <2>10. ASSUME NEW s \in Scenarios, deployment_goes(s)
           PROVE  TInv'
      <3>1. None \in Deployments
        BY DEF None, Deployments
      <3>2. deployment' \in [Scenarios -> Deployments]
        BY <2>10, <3>1 DEF deployment_goes, TypeOK, Deployments
      <3>3. \A u \in Scenarios : deployment'[u].run <= invocation
        BY <2>10 DEF deployment_goes, None, TypeOK
      <3> QED
        BY <2>10, <3>2, <3>3 DEF deployment_goes, runner, request, report, TypeOK, Deployments
    <2>11. ASSUME pods' \subseteq PodRecords, UNCHANGED <<runner, deployment>>
           PROVE  TInv'
      BY <2>11 DEF runner, request, report, TypeOK, PodRecords
    <2>12. ASSUME NEW s \in Scenarios, pod_comes(s)
           PROVE  TInv'
      BY <2>11, <2>12, PodComesType DEF pod_comes
    <2>13. ASSUME NEW p \in pods, pod_fails(p) \/ pod_leaves(p) \/ pod_goes(p)
           PROVE  TInv'
      BY <2>11, <2>13, BecomesType DEF pod_fails, pod_leaves, pod_goes, Becomes
    <2>14. CASE UNCHANGED vars
      BY <2>14 DEF vars, TypeOK
    <2> QED
      BY <2>1, <2>2, <2>3, <2>4, <2>5, <2>6, <2>7, <2>8, <2>9, <2>10, <2>12, <2>13,
         <2>14 DEF Next, Run
  <1> QED
    BY <1>1, <1>2, PTL DEF Spec

\* Spec => []TypeOK: what the runner keeps and what it finds in the cluster are of
\* their kinds.
THEOREM RunnerTypeCorrect == Spec => []TypeOK
  BY Basics, PTL

-----------------------------------------------------------------------------
(* Setup meets nothing.                                                    *)

\* Spec => []NoConflict: from the end of the wait to the creation nobody else makes a
\* Deployment for the scenario.
THEOREM NeverConflicts == Spec => []NoConflict
  <1>1. Init => NoConflict
    BY DEF Init, NoConflict
  <1>2. TypeOK /\ NoConflict /\ [Next]_vars => NoConflict'
    <2> SUFFICES ASSUME TypeOK, NoConflict, [Next]_vars PROVE NoConflict'
      OBVIOUS
    <2> USE DEF NoConflict
    <2>1. ASSUME NEW selected \in SUBSET Scenarios, main(selected)
          PROVE  NoConflict'
      BY <2>1 DEF main
    <2>2. CASE (\E s \in Scenarios : next_scenario(s)) \/ finish \/ raises \/ kill
      BY <2>2 DEF next_scenario, finish, raises, kill, InTry
    <2>3. ASSUME NEW works \in BOOLEAN, clear(works) \/ teardown(works)
          PROVE  NoConflict'
      BY <2>3 DEF clear, teardown
    <2>4. CASE wait_for_scenario_gone
      BY <2>4 DEF wait_for_scenario_gone, cluster
    <2>5. CASE (\E r \in BOOLEAN : apply_setup(r)) \/ wait_for_failure \/ capture
      BY <2>5 DEF apply_setup, wait_for_failure, capture
    <2>6. ASSUME NEW s \in Scenarios, deployment_goes(s)
          PROVE  NoConflict'
      BY <2>6 DEF deployment_goes, runner, TypeOK
    <2>7. CASE \/ \E s \in Scenarios : pod_comes(s)
               \/ \E p \in pods : pod_fails(p) \/ pod_leaves(p) \/ pod_goes(p)
      BY <2>7, ClusterSteps DEF pod_comes, pod_fails, pod_leaves, pod_goes, Becomes, runner
    <2>8. CASE UNCHANGED vars
      BY <2>8 DEF vars
    <2> QED
      BY <2>1, <2>2, <2>3, <2>4, <2>5, <2>6, <2>7, <2>8 DEF Next, Run
  <1> QED
    BY <1>1, <1>2, RunnerTypeCorrect, PTL DEF Spec

-----------------------------------------------------------------------------
(* It cleans up.                                                           *)

\* A Deployment of this invocation that nobody is deleting.
Mine(s) == deployment[s].run = invocation /\ ~deployment[s].leaving

\* There is one only for the scenario at hand, from its creation to the finally
\* block, unless that failed or the runner was killed.
Undisturbed == ~spoiled /\ invocation # 0 /\ (pc = "idle" => exit # "killed")
Exposed == {"wait_failure", "capture", "teardown"}
CleanInv == Undisturbed => \A s \in Scenarios : Mine(s) => s = scenario /\ pc \in Exposed

\* Spec => []CleansUp: an exception or Ctrl-C, wherever it comes, leaves no Deployment
\* of the run behind, if kubectl works in the finally block.
THEOREM AlwaysCleansUp == Spec => []CleansUp
  <1>1. Init => CleanInv
    BY DEF Init, Undisturbed, CleanInv
  <1>2. TypeOK /\ ScenarioInv /\ RunInv /\ NoConflict /\ CleanInv /\ [Next]_vars => CleanInv'
    <2> SUFFICES ASSUME TypeOK, ScenarioInv, RunInv, NoConflict, CleanInv, [Next]_vars
                 PROVE  CleanInv'
      OBVIOUS
    <2> USE DEF Undisturbed, Exposed
    <2>1. ASSUME NEW selected \in SUBSET Scenarios, main(selected)
          PROVE  CleanInv'
      <3>1. \A s \in Scenarios : deployment[s].run # invocation + 1
        BY DEF RunInv, TypeOK
      <3> QED
        BY <2>1, <3>1 DEF main, cluster, CleanInv, Mine
    <2>2. ASSUME UNCHANGED <<deployment, invocation, spoiled>>, pc # "idle",
                 pc \in Exposed => UNCHANGED scenario /\ pc' \in Exposed
          PROVE  CleanInv'
      BY <2>2 DEF CleanInv, Mine
    <2>3. CASE \/ \E s \in Scenarios : next_scenario(s)
               \/ finish \/ wait_for_scenario_gone \/ wait_for_failure \/ capture
      <3>1. UNCHANGED <<deployment, invocation, spoiled>> /\ pc # "idle"
        BY <2>3 DEF next_scenario, finish, wait_for_scenario_gone, wait_for_failure,
           capture, request, cluster
      <3>2. pc \in Exposed => UNCHANGED scenario /\ pc' \in Exposed
        BY <2>3 DEF next_scenario, finish, wait_for_scenario_gone, wait_for_failure,
           capture
      <3> QED
        BY <2>2, <3>1, <3>2
    <2>4. ASSUME NEW works \in BOOLEAN, clear(works)
          PROVE  CleanInv'
      <3>1. \A s \in Scenarios : deployment'[s].run = deployment[s].run
                                 /\ (deployment[s].leaving => deployment'[s].leaving)
        BY <2>4 DEF clear, kubectl_delete, cluster, TypeOK
      <3> QED
        BY <2>4, <3>1 DEF clear, request, CleanInv, Mine
    <2>5. ASSUME NEW works \in BOOLEAN, teardown(works)
          PROVE  CleanInv'
      <3>1. \A s \in Scenarios : deployment'[s].run = deployment[s].run
                                 /\ (deployment[s].leaving => deployment'[s].leaving)
        BY <2>5 DEF teardown, kubectl_delete, cluster, TypeOK
      <3>2. works => ~Mine(scenario)'
        BY <2>5 DEF teardown, kubectl_delete, request, None, Mine, RunInv, TypeOK
      <3> QED
        BY <2>5, <3>1, <3>2 DEF teardown, request, CleanInv, Mine
    <2>6. ASSUME NEW r \in BOOLEAN, apply_setup(r)
          PROVE  CleanInv'
      <3>1. \A s \in Scenarios \ {scenario} : deployment'[s] = deployment[s]
        BY <2>6 DEF apply_setup, TypeOK
      <3> QED
        BY <2>6, <3>1 DEF apply_setup, request, CleanInv, Mine
    <2>7. CASE raises
      <3>1. CASE pc \in InTry
        BY <2>7, <3>1 DEF raises, InTry, request, cluster, NoConflict, CleanInv, Mine
      <3>2. CASE pc \notin InTry
        BY <2>7, <3>2 DEF raises, InTry, request, cluster, CleanInv, Mine
      <3> QED
        BY <3>1, <3>2
    <2>8. CASE kill
      BY <2>8 DEF kill, CleanInv
    <2>9. ASSUME NEW s \in Scenarios, deployment_goes(s)
          PROVE  CleanInv'
      <3>1. UNCHANGED runner /\ \A u \in Scenarios \ {s} : deployment'[u] = deployment[u]
        BY <2>9 DEF deployment_goes, TypeOK
      <3>2. deployment'[s].run = 0
        BY <2>9 DEF deployment_goes, None, TypeOK
      <3> QED
        BY <3>1, <3>2 DEF runner, request, CleanInv, Mine
    <2>10. CASE \/ \E s \in Scenarios : pod_comes(s)
                \/ \E p \in pods : pod_fails(p) \/ pod_leaves(p) \/ pod_goes(p)
      BY <2>10 DEF pod_comes, pod_fails, pod_leaves, pod_goes, Becomes, runner, request,
         CleanInv, Mine
    <2>11. CASE UNCHANGED vars
      BY <2>11 DEF vars, CleanInv, Mine
    <2> QED
      BY <2>1, <2>3, <2>4, <2>5, <2>6, <2>7, <2>8, <2>9, <2>10, <2>11 DEF Next, Run
  <1>3. RunInv /\ CleanInv => CleansUp
    BY DEF Undisturbed, CleanInv, Exposed, Mine, CleansUp, RunInv
  <1> QED
    BY <1>1, <1>2, <1>3, Basics, NeverConflicts, PTL DEF Spec

-----------------------------------------------------------------------------
(* The report.                                                             *)

\* Written down, and as a failure exactly if it was seen to fail.
Reported(s) == snapshots[s].written /\ (snapshots[s].met <=> s \in witnessed)

\* What is known of the scenarios asked for: those behind the runner are reported,
\* of those before it nothing is known, and the one at hand is between the two.
ReportInv ==
    /\ pc # "idle" => \A s \in asked \ left :
                        Reported(s) \/ (pc \in Working /\ s = scenario)
    /\ pc # "idle" => left \cap witnessed = {}
    /\ pc \in {"clear", "wait_gone", "apply", "wait_failure"} => scenario \notin witnessed
    /\ pc = "capture" => (met <=> scenario \in witnessed)
    /\ pc = "teardown" /\ ~raising => Reported(scenario)
    /\ ReportIsTrue

\* Spec => []ReportIsTrue: the exit status of a run that came to its end says what is
\* in its directory, of all scenarios that were selected and of no others.
THEOREM ReportsAreTrue == Spec => []ReportIsTrue
  <1>1. Init => ReportInv
    BY DEF Init, ReportInv, ReportIsTrue
  <1>2. TypeOK /\ ScenarioInv /\ RunInv /\ ReportInv /\ [Next]_vars => ReportInv'
    <2> SUFFICES ASSUME TypeOK, ScenarioInv, RunInv, ReportInv, [Next]_vars
                 PROVE  ReportInv'
      OBVIOUS
    <2>1. ASSUME NEW selected \in SUBSET Scenarios, main(selected)
          PROVE  ReportInv'
      BY <2>1 DEF main, ReportInv, ReportIsTrue
    <2>2. ASSUME NEW s \in Scenarios, next_scenario(s)
          PROVE  ReportInv'
      BY <2>2 DEF next_scenario, request, report, Working, RunInv, TypeOK, ReportInv,
         Reported, ReportIsTrue
    <2>3. CASE finish
      <3>1. \A s \in asked : Reported(s)
        BY <2>3 DEF finish, Working, ReportInv
      <3>2. exit' = "complete" <=> asked = witnessed
        BY <2>3, <3>1 DEF finish, Reported, TypeOK
      <3> QED
        BY <2>3, <3>1, <3>2 DEF finish, request, report, ReportInv, Reported, ReportIsTrue
    <2>4. ASSUME NEW works \in BOOLEAN, clear(works)
          PROVE  ReportInv'
      BY <2>4 DEF clear, request, report, Working, RunInv, ReportInv, Reported, ReportIsTrue
    <2>5. ASSUME NEW works \in BOOLEAN, teardown(works)
          PROVE  ReportInv'
      BY <2>5 DEF teardown, request, report, Working, RunInv, ReportInv, Reported,
         ReportIsTrue
    <2>6. CASE wait_for_scenario_gone
      BY <2>6 DEF wait_for_scenario_gone, request, report, Working, RunInv, ReportInv,
         Reported, ReportIsTrue
    <2>7. ASSUME NEW r \in BOOLEAN, apply_setup(r)
          PROVE  ReportInv'
      BY <2>7 DEF apply_setup, request, report, Working, RunInv, ReportInv, Reported,
         ReportIsTrue
    <2>8. CASE wait_for_failure
      <3>1. scenario \in asked \ left /\ exit = "none"
        BY <2>8 DEF wait_for_failure, ScenarioInv, Working, RunInv
      <3>2. met' <=> scenario \in witnessed'
        BY <2>8 DEF wait_for_failure, ReportInv
      <3>3. \A s \in Scenarios \ {scenario} : s \in witnessed' <=> s \in witnessed
        BY <2>8 DEF wait_for_failure
      <3>4. \A s \in asked \ left : s = scenario \/ Reported(s)'
        BY <2>8, <3>3 DEF wait_for_failure, ReportInv, Reported, TypeOK
      <3>5. left' \cap witnessed' = {}
        BY <2>8, <3>1 DEF wait_for_failure, ReportInv
      <3> QED
        BY <2>8, <3>1, <3>2, <3>4, <3>5 DEF wait_for_failure, request, Working, ReportInv,
           ReportIsTrue
    <2>9. CASE capture
      <3>1. scenario \in asked \ left /\ exit = "none"
        BY <2>9 DEF capture, ScenarioInv, Working, RunInv
      <3>2. Reported(scenario)'
        BY <2>9 DEF capture, ReportInv, Reported, TypeOK
      <3>3. \A s \in asked \ left : s = scenario \/ Reported(s)'
        BY <2>9 DEF capture, ReportInv, Reported, TypeOK
      <3> QED
        BY <2>9, <3>1, <3>2, <3>3 DEF capture, request, Working, ReportInv, ReportIsTrue
    <2>10. CASE raises \/ kill
      BY <2>10 DEF raises, kill, InTry, request, report, Working, RunInv, ReportInv,
         Reported, ReportIsTrue
    <2>11. ASSUME UNCHANGED runner
           PROVE  ReportInv'
      BY <2>11 DEF runner, request, report, ReportInv, Reported, ReportIsTrue
    <2>12. CASE UNCHANGED vars
      BY <2>11, <2>12 DEF vars, runner, request, report
    <2> QED
      BY <2>1, <2>2, <2>3, <2>4, <2>5, <2>6, <2>7, <2>8, <2>9, <2>10, <2>11, <2>12,
         ClusterSteps DEF Next, Run
  <1>3. ReportInv => ReportIsTrue
    BY DEF ReportInv
  <1> QED
    BY <1>1, <1>2, <1>3, Basics, PTL DEF Spec

=============================================================================
