----------------------------- MODULE Diagnosis -----------------------------
(***************************************************************************)
(* agent/llm.py: what the two backends make of a model's reply.  A reply   *)
(* is "json", an object whose verdict has a number for its confidence; or  *)
(* that without hypotheses or an action to propose ("no_plan"); "garbage", *)
(* cut short or without such a verdict; or a refusal; or none at all, the  *)
(* call raised ("error").  The schema is the decoder's to enforce: here    *)
(* nothing else of it is looked at, so that the root cause, the evidence   *)
(* and the action may be any terms, or missing.  A result is a set of at   *)
(* most one diagnosis: empty where the function raises.                    *)
(***************************************************************************)
EXTENDS Scoring

\* What has a numeric verdict.confidence; a root cause may be Missing.
Verdicts == [kind : {"json", "no_plan"}, root_cause : STRING, confidence : Int,
             evidence : SUBSET STRING]

Reply(kind) == [kind |-> kind, root_cause |-> Missing, confidence |-> 0, evidence |-> {}]

IsReply(r) == r \in Verdicts \/ r \in {Reply("refusal"), Reply("garbage"), Reply("error")}

-----------------------------------------------------------------------------
\* Mutant: the confidence is bounded on one side only.
ClampedBelow(r) == [r EXCEPT !.confidence = IF @ < 0 THEN 0 ELSE @]

\* min(1.0, max(0.0, confidence)).
clamped(r) == [r EXCEPT !.confidence = IF @ < 0 THEN 0 ELSE IF @ > 10 THEN 10 ELSE @]

unknown == [Reply("json") EXCEPT !.root_cause = "unknown"]

diagnose_anthropic(r) ==
    CASE r.kind = "refusal" -> {unknown}
      [] r.kind \in {"json", "no_plan"} -> {clamped(r)}
      [] OTHER -> {}

\* Here a refusal is text like any other, and no JSON.
diagnose_ollama(r) ==
    CASE r.kind \in {"refusal", "garbage"} -> {unknown}
      [] r.kind \in {"json", "no_plan"} -> {clamped(r)}
      [] OTHER -> {}

\* The backend is "ollama" when LLM_BASE_URL is set.
diagnose(backend, r) ==
    IF backend = "ollama" THEN diagnose_ollama(r) ELSE diagnose_anthropic(r)

=============================================================================
