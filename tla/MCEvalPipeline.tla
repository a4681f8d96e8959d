--------------------------- MODULE MCEvalPipeline ---------------------------
(***************************************************************************)
(* EvalPipeline for TLC: two scenarios, two runs, two models, one of which *)
(* makes up a root cause and evidence with more than full confidence.      *)
(* score_trajectory is compared on every order of every subset of the      *)
(* required steps, and on a few logs with other steps or repetitions.      *)
(***************************************************************************)
EXTENDS EvalPipeline

MCScenarioSeq == <<"oom_leak_sim", "oom_limit_too_low">>
MCKnown == [s \in ToSet(MCScenarioSeq) |->
              IF s = "oom_leak_sim" THEN "memory_leak" ELSE "limit_too_low"]
MCVocab == {"memory_leak", "limit_too_low", "unknown"}
MCStepLogs ==
    {q \in UNION {[1..n -> ToSet(RequiredSteps)] : n \in 0..Len(RequiredSteps)} :
       Cardinality(ToSet(q)) = Len(q)}
    \cup {RequiredSteps \o <<"hypothesize", "verdict">>,
          <<"fetch_events">> \o RequiredSteps,
          RequiredSteps \o <<"fetch_pod_logs">>,
          <<"fetch_resources", "fetch_pod_logs", "fetch_pod_logs", "fetch_resources">>}

\* One makes up what it says, or is cut off and raises; the other is cut off.
MCModels == {[backend |-> "anthropic", model |-> "claude",
              replies |-> {[kind |-> "json", root_cause |-> "cosmic_rays",
                            confidence |-> 95, evidence |-> {"fetch_metrics"}],
                           Reply("garbage")}],
             [backend |-> "ollama", model |-> "qwen", replies |-> {Reply("garbage")}]}

\* The shells are alike, and no property of the run is one of liveness.
MCSymmetry == Permutations(Shells)
=============================================================================
