# Verification of gated-sre-agent

TLA+ models of the gated SRE agent (`src/agent`, `src/eval`), model-checked with
TLC; all safety properties the passing runs check are also proved with TLAPS. `src/...:n` below is a line of the
repository; everything is translated from the code, and where a document says
otherwise the difference is listed under [Findings](#findings).

## The system

One process (`agent/main.py`) holds three things that share memory:

| Part | State it keeps | Operations | Talks to |
|---|---|---|---|
| Trigger watcher, `watcher.py` | `last_fired` per dedup key; where it is in its sweep | `scan_once`, `classify`, `_fire` | lists pods and events; asks the registry `has_active_run`, calls `start_run` |
| Run registry, `runtime.py` | `runs[thread_id]`: status, proposal, outcome; one lock | `start_run`, `resume`, `has_active_run`, `_invoke` in a daemon thread per call | calls `graph.invoke`, then the notifier |
| Agent graph, `graph.py` | the checkpointed `AgentState` of each run (SQLite) | observer, diagnostician, gate, act, verify, finalize and three conditional edges | evidence tools, LLM, condition check, actuator, audit file |

and, around them,

| Part | State | What it does |
|---|---|---|
| HTTP API, `api.py` | none | lists paused proposals, takes decisions (200, or 409 when the run is not paused) |
| Panel, `panel.html` | `decided`, `lastPending` in the browser | polls proposals, posts decisions, hides what it has decided |
| Notifier, `notify.py` | none | one best-effort webhook post per event, outside the lock |
| Condition check, `watcher.py:77` | none | "does the trigger's failure still hold?", before the deletion and after it |
| Actuator, `tools.py:139` | none | reads the pod, refuses a bare one, deletes it |
| Evidence tools, `tools.py` | none | reads of the cluster, turned into text |
| LLM client, `llm.py` | none | two HTTP backends; makes a diagnosis of whatever the model replies |
| Eval runner, `eval/runner.py` | the Deployments it applied | seeds scenarios one by one, waits, snapshots, cleans up |
| Eval pipeline, the Makefile, `eval/*`, `agent/evalrun.py` | files under `eval/runs`, the README's table | runner, then baseline or agent, then score, then update_readme; each stage finds the latest run anew |

What is hard about it:

- **Interleaving.** The watcher thread, a daemon thread per invocation and the
  API's thread pool meet in `Runtime.runs`. The lock covers each access; the
  checks and the actions that rest on them (`has_active_run` ... `start_run`,
  paused ... `Command(resume=...)`, status filed ... notification sent) are
  separate critical sections.
- **Staleness.** A human answers minutes or days after a proposal was made;
  the cluster, the expiry and the run itself may all have moved on.
- **Partial failure.** Every node that calls out may raise, including after the
  deletion took effect; then nothing after that node happens.
- **Restart.** The registry and the debounce table are lost, the checkpoints are
  not, and nobody resumes them.
- **Time.** The one-hour expiry is a comparison in `act`, not a timer.
- **The page.** Polls start every five seconds whether or not the last one has
  its answers; lists, statuses and the answers to posts overtake each other, and
  a post without an answer may have been taken.
- **Files.** `latest` is looked up by every stage, and is the last directory by name
  rather than by age; targets may end between any two stages, and nothing stops a
  second shell from reading and rewriting the same files.

Correctness, part by part: the *graph* deletes at most one pod per run, only on
an in-time approval of the proposal in hand, only in scope, and records
truthfully what it did; the *registry* never has two threads in one run, takes
one decision per proposal and shows each run as it is; the *watcher* keeps at
most one run per key, respects the debounce window, and does not lose a failure
that persists; the *condition check* does not call a fix good that did not help;
*scoring* gives the score its rules say, whatever a model replied; the *page* says
nothing untrue and offers what waits for a decision; a *make target* that succeeds has
scored and published the latest run, under the name of who answered in it.

## Modules

| Module | Models | State and actions |
|---|---|---|
| `ApprovalGate` | the promise of SPEC.md §1 and §5: nothing is deleted without an approval of the waiting proposal, once, and there is no way back to planning after it | `phase` and number of deletions per run |
| `AgentGraph` | `graph.py`, `config.executable`, the refusals of `LiveActuator`, `audit.py` | `node[t]` is the next node LangGraph would run, `state[t]` the checkpoint; one action per node, named as in the code. `act` has three (`act`, `act_check`, `act_restart`) because it calls out twice and anything can happen, time included, before each answer. `raises` is an exception out of any node that calls out |
| `AgentGraphProofs`, `RuntimeProofs`, `GatedAgentProofs`, `ApprovalPanelProofs`, `WatcherProofs`, `RestartVerifyProofs`, `EvalRunnerProofs`, `EvalPipelineProofs` | | the theorems about the module each is named for, `Scoring` and `Diagnosis` with `EvalPipeline` |
| `RunService` | what the API shows of a run and all a client may rely on | `state`, `proposals`, `answered` per run; a run starts once, proposes, is answered once per proposal, ends for good, and is forgotten when the process dies |
| `Runtime` | `runtime.py`, `api.py`, `notify.py`, a client of the API | `runs` is the registry; `workers[t]` the threads inside `_invoke`, each at one of three places: started, inside `graph.invoke`, about to notify. One action per critical section |
| `GatedAgent` | the process: `AgentGraph` inside `Runtime` | each action is a `Runtime` action together with what the graph does in it |
| `ApprovalPanel` | `panel.html`, one browser tab over `RunService` | `lastPending`, `decided`, `renderKey` as in the page, `cards` what is drawn; `polls` and `posts` are the requests under way, each at the await it has come to. One action per stretch of code between two awaits, one for what the server does with the request, one for its loss |
| `Conditions` | `classify` and the condition helpers of `eval/runner.py` | no state: which failure a pod shows, from its status and the events |
| `Watcher` | `watcher.py`'s thread | `pc`, `todo`, `listed`, `firing` are the thread's position in `run`/`scan_once`/`_fire`; the cluster and its events change underneath, runs end, calls fail, the process restarts |
| `RestartVerify` | `make_condition_check` and `LiveActuator` against the pods of a namespace | `pods[n]` is the pod of that name and its incarnation; one action per call of the run (check, read, delete, verify), one per thing that happens to a pod in between. It computes the answers `AgentGraph` leaves open |
| `EvalRunner` | `eval/runner.py`: `main`, `run_scenario` | `pc` is the place in `run_scenario`; Deployments and pods of every scenario; exceptions and Ctrl-C at every place, kills, the next invocation |
| `Scoring` | `eval/score.py` | no state: the three scores, the counts, the provenance as operators, and `FairMarks`, the reference definition the trajectory score is compared with |
| `Diagnosis` | `llm.py` | no state: what each backend makes of a reply: JSON with a number for its confidence, whatever else is in it or missing, a refusal, garbage, or an error of the call |
| `EvalPipeline` | the Makefile's targets, `common.py`, `baseline.py`, `evalrun.py`, `score.py`, the publishing part of `update_readme.py` | `runs`, `recorded`, `output`, `results`, `readme` are the directories and files; a run is numbered by the place of its name in the order of names, and is made in any order; `shell[p]` is the stage a terminal is in and how far, `publishing[p]` what its `update_readme` has listed and read; one action per scenario of each stage's loop, one to list the scored runs, one per `results.json` read, one to rewrite the README |

How they are put together:

- `AgentGraph` implements `ApprovalGate`, and `Runtime` implements `RunService`, each
  by INSTANCE with a refinement mapping.
- `GatedAgent` EXTENDS `AgentGraph` and instantiates `Runtime`; both refinements are
  checked of it, so of the process as it runs. `ApprovalPanel` EXTENDS `RunService`:
  the page is checked against what every server that implements it may do.
- `Watcher` and `RestartVerify` share `Conditions`; `EvalPipeline` EXTENDS
  `Diagnosis`, which EXTENDS `Scoring`.

`MCAgentGraph`, `MCRuntime`, `MCGatedAgent`, `MCApprovalPanel`, `MCWatcher`,
`MCRestartVerify`, `MCEvalRunner` and `MCEvalPipeline` give these modules their
constants for TLC. Definitions under a comment "Mutant" are plausible mistakes in
the definition after them; nothing but that comment uses them, and putting one in
place of the definition breaks the property it was written for.

Abstractions common to all: texts (evidence, hypotheses, reasons, reports) are
left out; what a call out answers is a choice among everything the code
distinguishes, an exception included; time is a counter, and only comparisons
with the expiry and the debounce windows look at it.

## Runs

| Run | Checks | Bounds, and why they suffice |
|---|---|---|
| `agent` | `GatedAgent`: of the graph `RestartsApproved`, `NoRetry`, `RestartsInScope`, `OutcomeTruthful`, `AuditMatchesProposal`, `ImplementsGate`; of the registry `OneInvoker`, `DecidedOnce`, `NotifiedOnce`, `ImplementsService`; of both `RegistryAgrees`, `RestartsDecided`, `NothingUnregistered`, `RunningEnds` | one run (runs share the clock and the lock, and no action of one reads another's record but the watcher's question, checked in `watcher`); two proposals, so an answer can be one late and a field can survive a cycle; expiry after one tick of three, so a decision is in time, late, or late again; one client that repeats a post whose answer was lost, which to the server is the same as two; crashes at any point. Namespaces: one in both lists, one in each of the two only |
| `restart_audit` | violation of `EveryRestartAudited` | `AgentGraph` alone, one run, three proposals, five ticks |
| `stale_decision` | violation of `DecisionFitsProposal` | `Runtime` alone, one client, two proposals: its own repeated post is enough |
| `panel` | `ApprovalPanel`: `PageIsTrue`, `WaitingResolves`, `UndecidedIsShown` | one thread (the page keeps threads apart but for the loop over `decided`, which asks in turn); two overlapping polls, so one can overtake another at each await; two clicks, so an answer can meet a newer decision; two proposals; other surfaces deciding, restarts and reloads at any point |
| `panel_hides` | violation of `FreshProposalShown` | as `panel`, with one click |
| `watcher` | `Watcher`: `OneActiveRun`, `DebounceHolds`, `PersistentFailureFires` | one pod of six states (keys of different pods share nothing but the sweep), windows of two and three ticks, one restart |
| `watcher_dies` | violation of `KeepsWatching` | as `watcher`, without restarts |
| `unschedulable_missed` | violation of `UnschedulableFires` | a pod in `default` |
| `restart` | `RestartVerify`: `HealthyIsSpared`, `VerdictIsTrue` | four names: two of the triggering Deployment, one of a Deployment whose name begins like it, a bare one; three states; one failed list, so before the deletion or after it; the read and the delete may fail |
| `restart_statefulset` | violation of `FailedFixEscalates` | two names of a StatefulSet, two incarnations of each |
| `eval_runner` | `EvalRunner`: `NoConflict`, `CleansUp`, `ReportIsTrue`, `RunnerEnds` | two scenarios, so the second follows the first's teardown; two invocations, so one meets what the last left |
| `pipeline` | `EvalPipeline`: `TrajectoryFair`, `CountsAddUp`, `RepliesContained`, `SuccessIsPublished`, `ProvenanceSaysWhoRan`, `PublishedStays` | two shells (alike, so taken up to symmetry) and three targets, so one can be undisturbed after two that overlapped; two names for run directories, used in either order, so the latest can be older than the one just made, and a run can be half done; two models, one on either backend: one makes up a root cause and evidence with a confidence of 9.5, or is cut off and raises, the other is cut off and becomes an honest unknown. The trajectory score on every order of every subset of the required steps, and logs with foreign and repeated steps, with honest and fabricated evidence |

Every run's `TypeOK` is checked beside the properties. `CHECK_DEADLOCK FALSE` is
set where the system really stops: a closed run, a runner or a target nobody
starts again, names that are used up.

### What the properties say

*Graph.* A deletion needs an approval of the proposal in hand, given before it
expired (`RestartsApproved`: the stale branch goes back to the observer and the
gate, and neither an old decision nor an old outcome may carry over), happens at
most once and is never followed by another proposal (`NoRetry`), and only where
the executable list and the write list both allow it (`RestartsInScope`). An
audit record is of the last investigation and of the answer to its own proposal
(`AuditMatchesProposal`), and whatever a run that reached its end has recorded says
that the fix was executed and verified exactly when a pod was deleted
(`OutcomeTruthful`: a refused, failed or stale restart is never told as one). Neither
says how many records there should be; see the first finding.

*Registry.* Two threads are never inside one run (`OneInvoker`), one proposal is
decided at most once whatever clients repeat (`DecidedOnce`), each event is
announced at most once (`NotifiedOnce`), and a client sees what `RunService`
says (`ImplementsService`): each proposal a new one, one answer each, an end that
is final. *Process.* What the registry shows is where the graph stands
(`RegistryAgrees`), behind each deletion stands a decision the API accepted
(`RestartsDecided`), after a crash nothing moves that is not registered
(`NothingUnregistered`), and a run shown as running comes to a stop that the
registry shows (`RunningEnds`; a stale branch that did not pass the gate would loop).

*Panel.* Whatever overtakes what, the page awaits, reports and offers only what is
so (`PageIsTrue`): it awaits an outcome only after an accepted decision of its own,
shows an outcome only of a run that has it, and buttons only for a proposal that
was made. A decided run that ends is shown as ended (`WaitingResolves`), and an
undecided proposal is offered again and again, although clicks and typing draw
behind the poll's back (`UndecidedIsShown`).

*Watcher.* At most one active run per key even though the question and the start
are separate critical sections (`OneActiveRun` - the one watcher thread is why), the
whole window between two runs of a key (`DebounceHolds`), and a failure that
persists always has a run again (`PersistentFailureFires`), which needs that a
suppressed firing does not refresh the window. `DebounceHolds` is about `waited`, the
time since a run of the key was last started, which is kept beside the code's own
`last_fired` (`idle`) from what happens to `active` and which no action reads: a start
that did not set `last_fired` would break it.

*Restart.* A workload that has not shown the failure since the approval is left alone
(`HealthyIsSpared`); what verify reports is what was the case (`VerdictIsTrue`). Which
pod is deleted is not among the properties: the call is by name, and what bears the
name by then may have recovered after the check, or may be a StatefulSet's
replacement (see the limits below).

*Eval.* Setup never meets a leftover Deployment, however the last invocation ended
(`NoConflict`); a run cleans up after itself (`CleansUp`) and its exit status is true
(`ReportIsTrue`); it ends even when the cluster never obliges (`RunnerEnds`). Full
trajectory marks mean every step in order and honest evidence (`TrajectoryFair`,
against a reference definition by embeddings), the counts partition the answers
(`CountsAddUp`). Nothing but the confidence of a model's reply is looked at, so JSON of
another schema passes as a diagnosis: its confidence is scored within bounds, a root
cause outside the vocabulary earns nothing and is never taken for honesty, and made-up
evidence costs all the marks of the steps that ran (`RepliesContained`). A target that
succeeds undisturbed leaves the latest run answered, scored as it stands and published
(`SuccessIsPublished`), and its results name the agent and the model of this target
and no other, whoever had answered there before (`ProvenanceSaysWhoRan`). A published
run is lost only to an update of the README that had listed the runs before this one
was first scored and wrote after the one that published it (`PublishedStays`).

### Fairness

- `agent`: weak fairness of the worker threads only. A node is a synchronous call in
  a thread of its own; it returns or raises. The LLM call (`llm.py:156`) and the
  webhook have timeouts; the Kubernetes client sets none, so that its calls come
  back is an assumption. Nothing is assumed of clients, the watcher, crashes.
- `panel`: weak fairness of `setInterval` and of the minute in the render key, strong
  fairness of a list, a question and an answer to it getting through, i.e. of
  requests that are repeated for ever some are answered. Nobody need click, decide
  elsewhere or reload, and runs need do nothing.
- `watcher`: weak fairness of the thread and of time; strong fairness of a
  successful list per namespace, i.e. the API server does not refuse for ever.
  Runs need not end, pods need not change.
- `eval_runner`: weak fairness of the runner's steps, which excludes nothing:
  exceptions and kills may happen at any point and need not, leftovers may stay,
  pods need never fail.

## Proofs

Everything below holds for any number of runs, pods, keys, clients, requests,
scenarios and shells, and for any bounds. What is assumed of the constants is:

- `GraphAssumption`, `PanelAssumption`, `RunnerAssumption`: bounds are natural
  numbers, `TTL` too, and at least one proposal is possible. The registry needs none.
- `WatcherAssumption`: a pod has a namespace and a name, debounce windows are numbers
  of ticks.
- `RestartAssumption`: a pod has a name and a controller, or is bare. The theorems
  that need more of names say so: `PrefixTellsController` (pods of one prefix are of
  one controller), `ControllerTellsPrefix` (the converse), `NamesUsedOnce` (a pod that
  is replaced gets a new name; `VerdictsAreTrue` alone needs it). They hold of the pods
  of Deployments, whose names end in a template hash and a random suffix; the last one
  fails for StatefulSets, and the run `restart_statefulset` shows what then becomes of
  the verdict. The module that checks `restart` asserts all three of its names.
- `ScoringAssumption`, `PipelineAssumption`: scenario ids and steps are strings,
  `unknown` is in the vocabulary and is nobody's known root cause (`vocab.yaml`, the
  scenario files), the logs the marks are compared on include those of the baseline
  and of the graph. A model is a backend, a name and the replies it may give: each is
  JSON with any string for its root cause, or none, any strings for evidence and any
  integer for its confidence, or such JSON without a plan, or a refusal, garbage, an
  error.

| Module | Theorem | States |
|---|---|---|
| `AgentGraphProofs` | `TypeCorrect` | `Spec => []TypeOK` |
| | `RestartsAreApproved` | `Spec => []RestartsApproved` |
| | `NeverRetries` | `Spec => []NoRetry` |
| | `RestartsStayInScope` | `Spec => []RestartsInScope` |
| | `OutcomesAreTruthful` | `Spec => []OutcomeTruthful` |
| | `AuditsMatchProposals` | `Spec => []AuditMatchesProposal` |
| | `GraphImplementsGate` | `Spec => ImplementsGate`, i.e. `ApprovalGate`'s specification under the refinement mapping |
| `RuntimeProofs` | `RegistryTypeCorrect` | `Spec => []TypeOK` |
| | `OneInvokerAlways`, `DecidedOnceAlways`, `NotifiedOnceAlways` | the three invariants of the registry, whatever the graph returns |
| | `RegistryImplementsService` | `Spec => ImplementsService`, i.e. `RunService`'s specification under the refinement mapping |
| `GatedAgentProofs` | `AgentIsGraph` | `AgentSpec => Spec`: all of `AgentGraphProofs` holds of the process |
| | `AgentIsRegistry` | `AgentSpec => R!Spec` |
| | `RegistryAgreesAlways`, `RestartsAreDecided`, `NothingMovesUnregistered` | the properties that take both |
| | `AgentRegistryTypeCorrect`, `AgentOneInvoker`, `AgentDecidedOnce`, `AgentNotifiedOnce`, `AgentImplementsService` | the registry's theorems, of the process |
| `ApprovalPanelProofs` | `PanelTypeCorrect` | `Spec => []TypeOK` |
| | `PageIsAlwaysTrue` | `Spec => []PageIsTrue` |
| `WatcherProofs` | `WatcherTypeCorrect`, `OneActiveRunAlways` | `Spec => []TypeOK`, `Spec => []OneActiveRun` |
| | `DebounceAlwaysHolds` | `Spec => DebounceHolds`, an action property, by `Spec => [](waited = idle)` |
| `RestartVerifyProofs` | `RestartTypeCorrect` | `Spec => []TypeOK` |
| | `DeletesByName` | what is deleted bears the triggering name and has an owner, whatever the names are |
| | `HealthyAreSpared` | `PrefixTellsController` implies `Spec => []HealthyIsSpared` |
| | `VerdictsAreTrue` | all three imply `Spec => []VerdictIsTrue` |
| `EvalRunnerProofs` | `RunnerTypeCorrect`, `NeverConflicts`, `AlwaysCleansUp`, `ReportsAreTrue` | `TypeOK`, `NoConflict`, `CleansUp`, `ReportIsTrue`, always |
| `EvalPipelineProofs` | `TrajectoryIsFair` | `score_trajectory` satisfies `FairMarks` for every log in `StepLogs` and all evidence |
| | `PipelineTypeCorrect`, `MarksAreFair`, `CountsAlwaysAddUp`, `RepliesAreContained` | `TypeOK`, `TrajectoryFair`, `CountsAddUp`, `RepliesContained`, always |
| | `SuccessAlwaysPublished`, `ProvenanceAlwaysSaysWhoRan` | `Spec => []SuccessIsPublished`, `Spec => []ProvenanceSaysWhoRan` |
| | `PublishedAlwaysStays` | `Spec => PublishedStays`, an action property |

*The graph.* None of the properties is inductive by itself. That a deletion was
approved is a fact about several fields set at different nodes: before `act_restart`
one must know that the decision in the checkpoint is an approval of the proposal in
it and that the expiry was looked at since. The inductive invariant `IInv` is
`TypeOK` and, for each run, a conjunction by place: what is known on the way to the
deletion (`WriteInv`), at the gate (`GateInv`), of the history of deletions
(`RecordInv`) and of a finished run (`EndInv`). The properties follow from it by
propositional steps; its preservation has one step per action. The refinement proof
maps each action to a step of `ApprovalGate` or to a stutter and uses `IInv` for the
guards of the abstract steps.

*The registry.* A thread may file a result because its run is running, and a run is
running because exactly one thread is on its way through the graph: `WorkerInv` says
so, with the names that keep threads apart. `DecisionInv` says which proposals have
had their decision by the run's status, `EventInv` which events can have been
brought about by now, delivered or about to be, so that a new one clashes with none.
A thread_id that was not drawn has left no trace (`FreshInv`), which is why a crash
can forget a run and nothing can start it again.

*The process.* That it is a registry is by the shape of its actions. That it is a
graph needs the registry: only a run that has a key enters, and only one that is
running. `JoinInv` ties the two together by counting proposals on both sides: they
are equal from a decision to the next diagnosis, and the graph is one ahead from the
gate until the registry has filed the interrupt. `RestartsAreDecided` follows from
the graph's `RestartsAreApproved` and from `JoinInv`, by which every answer the graph
was given is a decision the registry accepted.

*The page.* A list, a status or an answer under way is true of an earlier moment,
so `TruthInv` says of each what can no longer become false: a list names proposals
that were made, a status `done` or `failed` is that of a run that ended (or that the
process has forgotten since), a 200 is of a decision the service took. What is noted
in `decided` and drawn in `cards` comes from those only. `TruthStays` carries all of it
over any step of the runs, since these go onward only (`Onward`); what a step of the
page itself changes is then looked at action by action.

*The watcher.* `OneActiveRun` is inductive only with what the thread knows between its
two critical sections (`AnswerInv`: nobody else adds a run while it is at `debounce`).
The action property speaks of the history `waited`, the guard of `start_run` reads
`last_fired`: `RemembersInv` says that the two agree, i.e. that every start of a run is
remembered, nothing else is, and a restart of the process forgets both.

*The restart.* `PlaceInv` says what is settled at each place of the run. `ShownInv`
(before the deletion the workload has been seen to fail) gives `HealthyIsSpared` and
needs that the check's prefix takes in no other controller's pods. `VerdictIsTrue` needs
all three assumptions on names: `LifeInv` (the pod of the triggering name is still its
first) rests on `NamesUsedOnce` and makes "excluded by name" mean "the deleted pod is
excluded"; a StatefulSet breaks it.

*The runner.* A Deployment that is there is of this or an earlier invocation
(`RunInv`), and one of this invocation is of the scenario at hand, at a place the
`finally` block still covers (`CleanInv`). `ReportInv` follows `met` from the wait to the
snapshot, so that the exit status speaks of every selected scenario.

*The pipeline.* The scores are about operators, so the larger part is lemmas on them.
`score_trajectory` is a fold over the four required steps; `OnePass` unrolls it, and
`PassTracks` gives for its result a witness, the positions it found. It is an embedding,
hence never more than the longest part in order; and it is greedy: it stays at or
before any complete embedding (`PassIsGreedy`) and passes no step that is there
(`PassMissesAll`), which settles full and no marks. `ResultsOK` says what a results.json
is for any outputs whatever, by a partition of the scenarios into four.With that,
marks, counts and replies follow from the kinds of things (`Types`, by which an output
in the agent's name is of the graph's log and of a verdict that came through `clamped`,
and `ShellInv`) and from `FilesInv`: results are those of the outputs they were made
from.

`PublishedStays` is about two updates at once. `PublishingInv` says of an update under
way that every run that is scored by now is still to be read, or is in its block, or
was scored too late for its list (`missed`); when it writes, what was published and is
not in the block is of the third kind.

`SuccessIsPublished` and `ProvenanceSaysWhoRan` need to know, at each stage of a target
nobody overlapped, what the stages before did: `AloneInv`, by stage (`Going`) and at
the end (`Ended`). It says that nobody else is at work, that the target's directory is
the last by name, which scenarios the loop is past, what was answered for them and by
whom; `UpdatesInv` says how far its update of the README is, and `OutputsInv` (only
what was recorded is answered) gives that something was recorded at all.

Only model-checked: liveness, which the provers do not reach: `RunningEnds`,
`WaitingResolves`, `UndecidedIsShown`, `PersistentFailureFires`, `RunnerEnds`. That
`FairMarks` holds of logs of any length is proved; TLC compares the logs of
`MCEvalPipeline`, and computes the reference definition on them.

## Findings

Six runs end in a violation, each of a statement the repository makes:

1. `restart_audit`: when the restart call, `verify` or the audit write raises after
   the pod was deleted, the run is marked failed (`runtime.py:58-66`) and `finalize`
   never runs. DESIGN.md:134 wants "one record per run transition with the §6
   `audit_log.contents` fields. The audit write happens in `close`/`escalate` and at the
   gate decision — not best-effort logging, a node responsibility", SPEC.md:140 "every
   proposal + decision + outcome logged". The code writes one record per run, in
   `finalize` (`graph.py:126-140`), and none at a transition or at the decision. The run
   shows where that hurts most; the same disagreement leaves a decision that was
   discarded as stale, and every run that fails, without any record.
2. `stale_decision`: a decision names the run, not the proposal (`api.py:65`). A
   repeated or late post is accepted for the run's next proposal, which nobody
   has looked at. DESIGN.md:165 promises a 409 for what is already decided.
3. `watcher_dies`: `classify` reads events outside the `try` (`watcher.py:49`); an
   exception ends the thread while the API goes on serving. DESIGN.md:81: "it must
   keep watching".
4. `unschedulable_missed`: events are looked up in the constant namespace `eval`
   (`eval/runner.py:105`), so elsewhere `pending_unschedulable` never fires
   (SPEC.md:55-58).
5. `restart_statefulset`: `verify` excludes the deleted pod by its name
   (`graph.py:123`, `watcher.py:96`), which in a StatefulSet is its replacement's
   name, so a fix that failed is closed as resolved (SPEC.md:137-138).
6. `panel_hides`: the page leaves out every thread in `decided` and never takes one
   out (`panel.html:147`), so the fresh proposal of a run whose approval was found
   stale, or of one whose decision met a 409, is never offered in that tab.
   DESIGN.md:187: "one `thread_id` can emit a second `proposal` event; render the
   latest". `UndecidedIsShown` is what holds instead.

Limits of the code that no property counts against it, because nothing promises
otherwise or the promise is about wording:

- A decision that was discarded as stale is in no record of its own; the record is
  of the last one (part of finding 1).
- The condition check, the read and the deletion are three calls, and the deletion is
  by name alone (`tools.py:145-154`, no uid or resourceVersion). A pod that recovers
  between them is deleted all the same, and where a StatefulSet has replaced the
  triggering pod under its name, so is the replacement. `HealthyIsSpared` promises only
  that the failure was seen since the approval; `DeletesByName` is what can be proved.
- The debounce table is forgotten when the process restarts (DESIGN.md:80 accepts it);
  `DebounceHolds` speaks of one process.
- Nothing acts on an unanswered proposal: it waits for ever, and its key does not
  fire again (SPEC.md:133 speaks of an expiry; the code compares, it has no timer).
- A condition check whose list call fails answers False: before the deletion that
  discards a valid approval, after it the run is closed as resolved without
  anyone having looked. `VerdictIsTrue` therefore speaks of a verify that got a list.
- Notifications may arrive out of order; nobody is promised an order.
- The workload is recognised by the name up to its last two segments. For a
  StatefulSet or DaemonSet with a hyphenated name that cuts into the name itself and
  may take in siblings; the instances checked have none.
- After a restart of the process the page goes on waiting for an outcome that will
  not come (`panel.html:165` takes a 404 for no answer), until it is reloaded;
  `WaitingResolves` excepts that.
- A 409 to a second click replaces an outcome the page already showed by "gone",
  and every answer but 401 and 409 counts as delivered (`panel.html:86`).
- An expired proposal cannot be decided in the panel and nothing else closes it;
  the decision endpoint still accepts it, and `act` discards an approval as stale.
- A thread that could not be started (`runtime.py:46`) would leave its run running.
- `latest` is the last directory by name (`common.py:35-38`), not the one made last. A
  run named by hand, as the published `20260713-qwen7b`, sorts after every
  `20260713-HHMMSS`, and the names the runner gives are of local time
  (`runner.py:292`), which can be set back: `make eval` may then answer, score and
  publish another run than the one it has just recorded. `SuccessIsPublished` speaks of
  the last by name, and of the run made only where the two are the same.
- Two shells may take each other's run for `latest`; `SuccessIsPublished` and
  `ProvenanceSaysWhoRan` speak of targets nothing overlapped.
- Of two updates of the README at once the later write may be of an older list and take
  out a run the other has published, or put older results of a run back
  (`update_readme.py:95-104`). That contradicts "re-running the pipeline appends runs
  rather than replacing the published one" (`update_readme.py:4-6`) and "every scored
  run is published" (README.md:19); the next update puts it right. No run shows it as
  a violation; `PublishedStays` says exactly when it can happen.
- The backends look at nothing in a model's JSON but `verdict.confidence`
  (`llm.py:137, 159, 166-168`). That it keeps to the schema is left to the decoder
  (`llm.py:142`, DESIGN.md §10): a foreign root cause passes and is scored as wrong, one
  that is missing lets `score` fail with a KeyError, one without hypotheses or an
  action raises in the graph.
- Results scored after an agent failed midway are of that agent and of whoever
  answered before it, and name both.
- Pods of one scenario that are still terminating can satisfy the next
  invocation's wait: the runner waits for the Deployment to be gone, not its pods.
- Ctrl-C or a failing `kubectl` in the `finally` block leaves the Deployment
  (`CleansUp` excepts exactly that; the next invocation clears it, `NoConflict`).
- The greedy search of the trajectory score can stay below the longest part that
  is in order: steps 2, 3, 4, 1 get one mark of four. `TrajectoryFair` promises the
  upper bound and both ends.
- `evalrun.py` says that every run closes as a draft; with
  `AGENT_TEST_EXECUTE_NAMESPACES` containing `eval` it would pause at the gate.

## Not modelled

- What evidence tools read and the text they make of it: pure I/O. The graph's
  control depends on them only through answers and exceptions, both left open.
- The prompt and the two HTTP calls of the LLM client; what becomes of a reply is in
  `Diagnosis`. In `AgentGraph` the diagnosis is any that the schema allows.
- Which token belongs to which tier, `/healthz`, serving the page: no state. The 401
  of a decision is in `ApprovalPanel`.
- Layout, wording and labels of the page, and the buttons disabled for an expired
  proposal or an empty name: nobody has to press a button that is enabled.
- The markers, the tables and `--runs` of `update_readme.py`, rounding, flags and the
  expected fix in `score.py`: text and arithmetic nothing is promised about.
- Files half written: a listing of a directory and the writing of one file are taken
  as one step each, and a process that dies does so between two of them. The prompt's
  version in a provenance: a constant of the code.
- In the run `pipeline`, but not in the module or the theorems: a reply without a plan
  or without a root cause, and foreign JSON on the Ollama backend.
- LangGraph, SQLite, FastAPI and Kubernetes, except for what the code relies on:
  a checkpoint after every node, an interrupt that waits, calls that answer or
  raise, pods that change.
- Memory: the debounce table and the registry grow for as long as the process
  lives.

## Plan

Done, in this order: `AgentGraph` with `ApprovalGate` and its proofs, `Runtime`,
`GatedAgent`, `Watcher` with `Conditions`, `RestartVerify`, `EvalRunner`, `Scoring`;
then `RunService` with the refinement of the registry, `ApprovalPanel`, `Diagnosis`,
`EvalPipeline`, and the refinements and registry properties of the whole process.

A further module, if the code grows there: `Watcher` over `Runtime`, with two keys of
one pod. Today they meet only in the deletion, where `RestartVerify` lets the pod go
or be replaced before any call.

Then the proofs: `WatcherProofs`, `RestartVerifyProofs`, `EvalRunnerProofs`,
`ApprovalPanelProofs`, `EvalPipelineProofs`. Every safety property of a passing run is
now the statement of a theorem; what is left to proofs is to follow the code as it
changes.

## Running

    tlc -workers 2 -config agent.cfg MCGatedAgent.tla
    tlapm GatedAgentProofs.tla

`PROJECT.json` lists each run with its module and configuration, each
definition with the lines it models, the hazards and the properties they
motivate.
