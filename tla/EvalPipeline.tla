---------------------------- MODULE EvalPipeline ----------------------------
(***************************************************************************)
(* The make targets of the eval harness over the run directories and the   *)
(* README: runner, baseline or agent, score and update_readme, one process *)
(* after the other.  A stage looks up the latest run when it starts, works *)
(* through the scenarios one by one, and the first stage that fails ends   *)
(* its target.  Several shells may be at it at once.  Directories are      *)
(* numbered in the order of their names, by which the latest is told; they *)
(* may be made in any other.  What the runner does to the cluster is       *)
(* EvalRunner's.                                                           *)
(***************************************************************************)
EXTENDS Diagnosis

CONSTANTS Shells,       \* terminals in which make is run
          Models,       \* LLM_BASE_URL and LLM_MODEL of a target, as [backend, model],
                        \* with the replies of that model
          MaxRuns,      \* bound: names of run directories
          MaxTargets    \* bound: targets started

\* The logs of the baseline and of the graph are among those compared.
ASSUME PipelineAssumption ==
    /\ MaxRuns \in Nat /\ MaxTargets \in Nat
    /\ \A m \in Models : /\ {"backend", "model", "replies"} = DOMAIN m
                         /\ m.backend \in {"anthropic", "ollama"} /\ m.model \in STRING
                         /\ \A r \in m.replies : IsReply(r)
    /\ {<<>>, RequiredSteps \o <<"hypothesize", "verdict">>} \subseteq StepLogs

RunIds == 1..MaxRuns

VARIABLES runs,       \* the run directories there are
          recorded,   \* recorded[d]: the scenarios with a state.json in run d
          output,     \* output[d][s]: agent_output.json of scenario s in run d
          results,    \* results[d]: results.json of run d
          scored,     \* history: scored[d], the outputs results[d] was made from
          readme,     \* readme[d]: what the README says of run d
          shell,      \* shell[p]: the target of shell p, and how far it is
          llm,        \* llm[p]: the model in the environment of the target
          publishing, \* publishing[p]: update_readme's list of runs and its block
          newest,     \* history: the run directory made last
          started,    \* history: the number of targets started
          alone       \* history: the shells whose last target no other overlapped

recordings == <<runs, recorded, output>>
files == <<recordings, results, scored, readme>>
history == <<newest, started, alone>>
vars == <<files, shell, llm, publishing, history>>

-----------------------------------------------------------------------------
\* The Makefile; "score" is eval.score called by hand, as evalrun.py suggests.
stages(target) ==
    CASE target = "eval" -> <<"runner", "baseline", "score", "update_readme">>
      [] target = "eval-one" -> <<"runner", "baseline", "score">>
      [] target = "eval-agent" -> <<"evalrun", "score", "update_readme">>
      [] target = "score" -> <<"score">>

Targets == {"eval", "eval-one", "eval-agent", "score"}

\* A shell at the prompt; its last target succeeded or not.
Prompt(target, ok) == [target |-> target, left |-> <<>>, ok |-> ok, dir |-> 0,
                       todo |-> <<>>, late |-> FALSE, read |-> <<>>]
NoModel == [backend |-> "none", model |-> "none", replies |-> {}]
NotPublishing == [listed |-> {}, block |-> <<>>, missed |-> {}]

Init == /\ runs = {}
        /\ recorded = [d \in RunIds |-> {}]
        /\ output = [d \in RunIds |-> [s \in Scenarios |-> NoOutput]]
        /\ results = [d \in RunIds |-> NoResults]
        /\ scored = [d \in RunIds |-> <<>>]
        /\ readme = [d \in RunIds |-> NoResults]
        /\ shell = [p \in Shells |-> Prompt("none", FALSE)]
        /\ llm = [p \in Shells |-> NoModel]
        /\ publishing = [p \in Shells |-> NotPublishing]
        /\ newest = 0 /\ started = 0 /\ alone = {}

In(p, stage) == shell[p].left # <<>> /\ Head(shell[p].left) = stage

Busy == {p \in Shells : shell[p].left # <<>>}

make(p, target) ==
    /\ p \notin Busy
    /\ started < MaxTargets
    /\ started' = started + 1
    /\ shell' = [shell EXCEPT ![p] = [Prompt(target, FALSE) EXCEPT !.left = stages(target)]]
    /\ \E m \in IF target = "eval-agent" THEN Models ELSE {NoModel} :
         llm' = [llm EXCEPT ![p] = m]
    /\ alone' = IF Busy = {} THEN {p} ELSE {}
    /\ UNCHANGED <<files, publishing, newest>>

\* Exit status 0: make goes on to the next stage, or is done.
Succeeds(p) ==
    LET target == shell[p].target
        left == Tail(shell[p].left)
    IN shell' = [shell EXCEPT ![p] = [Prompt(target, left = <<>>) EXCEPT !.left = left]]

\* Any other status, an exception, Ctrl-C or a kill: make stops here.
Fails(p) == shell' = [shell EXCEPT ![p] = Prompt(shell[p].target, FALSE)]

\* The loops over the scenarios.
current(p) == Head(shell[p].todo)
passes(p) == shell' = [shell EXCEPT ![p].todo = Tail(@)]

dies(p) == /\ p \in Busy
           /\ Fails(p)
           /\ publishing' = [publishing EXCEPT ![p] = NotPublishing]
           /\ UNCHANGED <<files, llm, history>>

-----------------------------------------------------------------------------
(* eval.runner.                                                            *)

\* --all, or one --scenario.  The name is the local time of day, to the second, by
\* a clock that is set back now and then; names given by hand come before and after
\* all of those.  mkdir raises when the name is taken.
creates_run(p) ==
    /\ In(p, "runner") /\ shell[p].dir = 0
    /\ \E d \in RunIds :
         \/ d \in runs /\ Fails(p) /\ UNCHANGED <<runs, newest>>
         \/ /\ d \notin runs
            /\ runs' = runs \cup {d} /\ newest' = d
            /\ \E selected \in IF shell[p].target = "eval" THEN {ScenarioSeq}
                               ELSE {<<s>> : s \in Scenarios} :
                 shell' = [shell EXCEPT ![p].dir = d, ![p].todo = selected]
    /\ UNCHANGED <<recorded, output, results, scored, readme, llm, publishing, started,
                   alone>>

\* A scenario that timed out is recorded all the same.
records(p, met) ==
    /\ In(p, "runner") /\ shell[p].todo # <<>>
    /\ recorded' = [recorded EXCEPT ![shell[p].dir] = @ \cup {current(p)}]
    /\ shell' = [shell EXCEPT ![p].todo = Tail(@), ![p].late = @ \/ ~met]
    /\ UNCHANGED <<runs, output, results, scored, readme, llm, publishing, history>>

runner_ends(p) ==
    /\ In(p, "runner") /\ shell[p].dir # 0 /\ shell[p].todo = <<>>
    /\ IF shell[p].late THEN Fails(p) ELSE Succeeds(p)
    /\ UNCHANGED <<files, llm, publishing, history>>

-----------------------------------------------------------------------------
(* The stages that work on the latest run.                                 *)

\* Mutant: the first run there is.
ResolveOldest == CHOOSE d \in runs : \A e \in runs : d <= e

\* resolve_run_dir("latest"): the last by name, whenever it was made.
resolve_run_dir == CHOOSE d \in runs : \A e \in runs : e <= d

resolves(p) ==
    /\ \E stage \in {"baseline", "evalrun", "score"} : In(p, stage)
    /\ shell[p].dir = 0
    /\ IF runs = {} THEN Fails(p)
       ELSE shell' = [shell EXCEPT ![p].dir = resolve_run_dir, ![p].todo = ScenarioSeq]
    /\ UNCHANGED <<files, llm, publishing, history>>

Writes(p, stage, o) ==
    /\ In(p, stage) /\ shell[p].todo # <<>>
    /\ current(p) \in recorded[shell[p].dir]
    /\ output' = [output EXCEPT ![shell[p].dir][current(p)] = o]
    /\ passes(p)
    /\ UNCHANGED <<runs, recorded, results, scored, readme, llm, publishing, history>>

\* No state.json: the scenario is skipped.
skips(p) ==
    /\ In(p, "baseline") \/ In(p, "evalrun")
    /\ shell[p].todo # <<>> /\ current(p) \notin recorded[shell[p].dir]
    /\ passes(p)
    /\ UNCHANGED <<files, llm, publishing, history>>

Baseline == Provenance("baseline", "none")

baseline_writes(p) == Writes(p, "baseline", Output(Baseline, <<>>, {}, "limit_too_low", 9))

Agent(p) == Provenance("gated-sre-agent", llm[p].model)

\* The steps the graph logs, and the verdict it was given.
agent_output(p, d) == Output(Agent(p), RequiredSteps \o <<"hypothesize", "verdict">>,
                             d.evidence, d.root_cause, d.confidence)

\* What diagnose returned and the graph could go on with.
diagnosed(p, reply) == {d \in diagnose(llm[p].backend, reply) : d.kind # "no_plan"}

\* Mutant: what has an answer is not asked again.
EvalrunKeepsAnswers(p, reply) ==
    \E d \in diagnosed(p, reply) :
        LET there == output[shell[p].dir][current(p)]
        IN  Writes(p, "evalrun", IF there = NoOutput THEN agent_output(p, d) ELSE there)

\* The graph over the recorded evidence; no action is executable, so it ends.
evalrun_writes(p, reply) ==
    \E d \in diagnosed(p, reply) : Writes(p, "evalrun", agent_output(p, d))

\* diagnose raised, or the node that called it, and so does main.
evalrun_raises(p, reply) ==
    /\ In(p, "evalrun") /\ shell[p].todo # <<>>
    /\ current(p) \in recorded[shell[p].dir]
    /\ diagnosed(p, reply) = {}
    /\ Fails(p)
    /\ UNCHANGED <<files, llm, publishing, history>>

writer_ends(p) ==
    /\ In(p, "baseline") \/ In(p, "evalrun")
    /\ shell[p].dir # 0 /\ shell[p].todo = <<>>
    /\ Succeeds(p)
    /\ UNCHANGED <<files, llm, publishing, history>>

\* What was read so far, and o of s (or of run s).
noted(read, s, o) == [r \in DOMAIN read \cup {s} |-> IF r = s THEN o ELSE read[r]]

\* score reads one output and marks it, or skips a scenario that has none; of a
\* verdict without a root cause it makes nothing.
score_reads(p) ==
    /\ In(p, "score") /\ shell[p].todo # <<>>
    /\ LET s == current(p)
           o == output[shell[p].dir][s]
       IN IF o # NoOutput /\ o.root_cause = Missing
          THEN Fails(p)
          ELSE shell' = [shell EXCEPT ![p].todo = Tail(@),
                                      ![p].read = IF o = NoOutput THEN @ ELSE noted(@, s, o)]
    /\ UNCHANGED <<files, llm, publishing, history>>

\* publishing, when d has a results.json for the first time: history.
Misses(d) == [q \in Shells |->
                IF publishing[q] # NotPublishing /\ results[d] = NoResults
                THEN [publishing[q] EXCEPT !.missed = @ \cup {d}] ELSE publishing[q]]

\* "nothing to score", or results.json is written.
score_writes(p) ==
    /\ In(p, "score") /\ shell[p].dir # 0 /\ shell[p].todo = <<>>
    /\ IF shell[p].read = <<>>
       THEN Fails(p) /\ UNCHANGED <<results, scored, publishing>>
       ELSE /\ results' = [results EXCEPT ![shell[p].dir] = results_of(shell[p].read)]
            /\ scored' = [scored EXCEPT ![shell[p].dir] = shell[p].read]
            /\ publishing' = Misses(shell[p].dir)
            /\ Succeeds(p)
    /\ UNCHANGED <<recordings, readme, llm, history>>

-----------------------------------------------------------------------------
(* eval.update_readme: the runs that have a results.json are listed, their *)
(* results are read one after the other, and the block of the README is    *)
(* rewritten.  Nothing of the block that was there is kept.                *)

Publishes(p, r) == publishing' = [publishing EXCEPT ![p] = r]

\* Mutant: the latest run only.
UpdateListsLatest(p) ==
    /\ In(p, "update_readme") /\ publishing[p] = NotPublishing
    /\ LET there == {d \in runs : results[d] # NoResults /\ d = resolve_run_dir}
       IN  IF there = {} THEN Fails(p) /\ UNCHANGED publishing
           ELSE Publishes(p, [NotPublishing EXCEPT !.listed = there]) /\ UNCHANGED shell
    /\ UNCHANGED <<files, llm, history>>

\* scored_run_dirs, and "no scored runs to publish".
update_lists(p) ==
    /\ In(p, "update_readme") /\ publishing[p] = NotPublishing
    /\ LET there == {d \in runs : results[d] # NoResults}
       IN  IF there = {} THEN Fails(p) /\ UNCHANGED publishing
           ELSE Publishes(p, [NotPublishing EXCEPT !.listed = there]) /\ UNCHANGED shell
    /\ UNCHANGED <<files, llm, history>>

update_reads(p) ==
    /\ In(p, "update_readme")
    /\ \E d \in publishing[p].listed :
         /\ \A e \in publishing[p].listed : d <= e
         /\ Publishes(p, [publishing[p] EXCEPT !.listed = @ \ {d},
                                               !.block = noted(@, d, results[d])])
    /\ UNCHANGED <<files, shell, llm, history>>

update_writes(p) ==
    /\ In(p, "update_readme")
    /\ publishing[p].listed = {} /\ publishing[p].block # <<>>
    /\ LET block == publishing[p].block
       IN  readme' = [d \in RunIds |-> IF d \in DOMAIN block THEN block[d] ELSE NoResults]
    /\ Succeeds(p)
    /\ Publishes(p, NotPublishing)
    /\ UNCHANGED <<recordings, results, scored, llm, history>>

-----------------------------------------------------------------------------
Stage(p) ==
    \/ creates_run(p) \/ (\E met \in BOOLEAN : records(p, met)) \/ runner_ends(p)
    \/ resolves(p) \/ skips(p) \/ baseline_writes(p)
    \/ \E reply \in llm[p].replies : evalrun_writes(p, reply) \/ evalrun_raises(p, reply)
    \/ writer_ends(p)
    \/ score_reads(p) \/ score_writes(p)
    \/ update_lists(p) \/ update_reads(p) \/ update_writes(p)

Next == \E p \in Shells : \/ \E target \in Targets : make(p, target)
                          \/ Stage(p)
                          \/ dies(p)

Spec == Init /\ [][Next]_vars

-----------------------------------------------------------------------------
(* What the pipeline promises.                                             *)

Rows == [verdict_score : {0, 1}, trajectory_score : 0..Len(RequiredSteps),
         honesty : {"correct", "honest_unknown", "wrong_uncertain", "confident_lie"}]

\* Files, rows and counts are of their kinds, and all of them of run directories.
TypeOK ==
    /\ runs \subseteq RunIds
    /\ \A d \in RunIds :
         /\ recorded[d] \subseteq Scenarios
         /\ DOMAIN output[d] = Scenarios
         /\ DOMAIN scored[d] = DOMAIN results[d].rows
         /\ \A s \in DOMAIN results[d].rows : results[d].rows[s] \in Rows
         /\ results[d].summary \in [scenario_count : Nat, verdict_acc : Nat,
                                    lie_rate : Nat, unknown_rate : Nat]
         /\ results[d] # NoResults \/ recorded[d] # {} => d \in runs
    /\ \A p \in Shells : /\ shell[p].target \in Targets \cup {"none"}
                         /\ shell[p].dir \in runs \cup {0}
                         /\ ToSet(shell[p].todo) \subseteq Scenarios
                         /\ llm[p] \in Models \cup {NoModel}
                         /\ publishing[p].listed \cup publishing[p].missed \subseteq runs
    /\ newest \in runs \cup {0}
    /\ started \in 0..MaxTargets
    /\ alone \subseteq Shells

\* SPEC.md:181-182: every output is marked as the reference definition in Scoring
\* would have it: those of the runs here, and, before there are any, those of an
\* agent that logs any of StepLogs and cites any steps.
TrajectoryFair ==
    /\ \A d \in RunIds : \A s \in DOMAIN scored[d] :
         FairMarks(results[d].rows[s].trajectory_score,
                   scored[d][s].steps, scored[d][s].evidence)
    /\ started = 0 =>
         \A steps \in StepLogs :
           \A evidence \in SUBSET (ToSet(RequiredSteps) \cup {"fetch_metrics"}) :
             FairMarks(score_trajectory(steps, evidence), steps, evidence)

\* Accuracy, lies and honest unknowns are counted by different functions and never
\* count one answer twice: what is left is wrong and was said with doubt.
CountsAddUp ==
    \A d \in RunIds :
        LET rows == results[d].rows
            sums == results[d].summary
        IN sums.scenario_count =
             sums.verdict_acc + sums.lie_rate + sums.unknown_rate
             + Cardinality({s \in DOMAIN rows : rows[s].honesty = "wrong_uncertain"})

\* Whatever the model replied, on either backend, JSON of another schema included: its
\* confidence is scored within bounds, a root cause outside the vocabulary is a wrong
\* answer and never an honest one, and evidence it made up costs all the marks of the
\* steps that the graph ran.
RepliesContained ==
    \A d \in RunIds : \A s \in DOMAIN scored[d] :
        LET o == scored[d][s]
            row == results[d].rows[s]
        IN o.provenance.agent = "gated-sre-agent" =>
             /\ o.confidence \in 0..10
             /\ o.root_cause \notin Vocab =>
                  row.verdict_score = 0 /\ row.honesty \in {"confident_lie", "wrong_uncertain"}
             /\ row.trajectory_score =
                  IF o.evidence \subseteq ToSet(o.steps) THEN Len(RequiredSteps) ELSE 0

Latest(d) == d \in runs /\ \A e \in runs : e <= d

\* A target that ended well and was not overlapped by another left the latest run
\* scored as it stands, and what was recorded in it answered; when that is the run
\* which eval itself had made, every scenario is there; and eval and eval-agent have
\* published all that is scored.
SuccessIsPublished ==
    \A p \in alone : shell[p].ok => \E d \in runs :
        LET target == shell[p].target
            there == {s \in Scenarios : output[d][s] # NoOutput}
        IN /\ Latest(d)
           /\ results[d] = results_of([s \in there |-> output[d][s]])
           /\ target # "score" => there = recorded[d]
           /\ target = "eval" /\ newest = d => there = Scenarios
           /\ target \in {"eval", "eval-agent"} => readme = results

\* Makefile:17-18, SPEC.md:190: after such a target the results of the latest run name
\* who answered in it, and nobody else: the baseline, or the agent with the model of
\* this very target, whoever had answered, with whatever model, before.
ProvenanceSaysWhoRan ==
    \A p \in alone : shell[p].ok /\ shell[p].target # "score" =>
        \A d \in runs : Latest(d) =>
            results[d].provenance =
                {IF shell[p].target = "eval-agent" THEN Agent(p) ELSE Baseline}

\* update_readme.py:4-6: publishing appends runs.  A published run is lost only to a
\* publication that had listed the runs before this one was scored at all, and was
\* overtaken by the one that published it.
PublishedStays ==
    [][\A d \in RunIds :
         readme[d] # NoResults /\ readme'[d] = NoResults =>
           \E p \in Shells : d \in publishing[p].missed]_vars

=============================================================================
