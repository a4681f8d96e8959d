----------------------------- MODULE AgentGraph -----------------------------
(***************************************************************************)
(* The agent graph of agent/graph.py: observer -> diagnostician -> gate -> *)
(* act -> verify -> finalize, one run per thread_id, each node returning a *)
(* partial update of the run's AgentState.  What the nodes call (cluster   *)
(* reads, the LLM, the actuator, the audit file) answers with any value it *)
(* can answer with, or raises; the human answers whenever, or never.       *)
(***************************************************************************)
EXTENDS Integers, Sequences, FiniteSets

CONSTANTS Threads,            \* thread_ids of the runs
          Namespaces,         \* namespaces a trigger can name
          WriteNamespaces,    \* config.namespaces_write
          ExecuteNamespaces,  \* config.execute_override_namespaces
          TTL,                \* PROPOSAL_TTL_SECONDS, in clock ticks
          MaxTime,            \* bound: the clock stops there
          MaxProposals        \* bound: proposals one run may make

ASSUME GraphAssumption == /\ TTL \in Nat
                          /\ MaxTime \in Nat
                          /\ MaxProposals \in Nat \ {0}

VARIABLES node,       \* node[t]: the node run t executes next
          state,      \* state[t]: the checkpointed AgentState of run t
          now,        \* the wall clock
          audit,      \* audit[t]: the records of run t in the audit file
          proposals,  \* history: number of diagnoses run t has made
          answers,    \* history: the human decisions run t received
          restarts    \* history: the pod deletions run t performed

vars == <<node, state, now, audit, proposals, answers, restarts>>
history == <<proposals, answers, restarts>>

-----------------------------------------------------------------------------
(* The vocabulary of the code.                                             *)

RequiredSteps == <<"fetch_pod_logs", "fetch_events", "fetch_recent_changes",
                   "fetch_resources">>
PlanSteps == <<"hypothesize", "verdict">>
StepIds == {"fetch_pod_logs", "fetch_events", "fetch_recent_changes",
            "fetch_resources", "hypothesize", "verdict"}

\* The action_ids the diagnostician's response schema admits.
FixActions == {"restart_pod", "rollback_deployment", "bump_resources", "none"}
Implemented == {"restart_pod"}
DraftOnly == {"restart_pod", "rollback_deployment", "bump_resources"}

\* Mutant: the tier is not looked at.
ExecutableWhenImplemented(action, namespace) == action \in Implemented

executable(action, namespace) ==
    /\ action \in Implemented
    /\ action \in DraftOnly => namespace \in ExecuteNamespaces

Outcomes == {"resolved", "persists", "denied", "expired", "stale", "draft", "error"}

NodeNames == {"start", "observer", "diagnostician", "close_draft", "gate",
              "interrupt", "act", "act_check", "act_restart", "verify",
              "finalize", "end", "raised"}

\* Nodes that call out of the process, where an exception leaves the graph.
MayRaise == {"observer", "diagnostician", "act_check", "act_restart",
             "verify", "finalize"}

Stopped == {"end", "raised"}

EmptyState == [namespace |-> "none", steps |-> <<>>, proposed_fix |-> "none",
               proposal_expires_at |-> 0, decision |-> "none",
               execution |-> "none", outcome |-> "none"]

Init == /\ node = [t \in Threads |-> "start"]
        /\ state = [t \in Threads |-> EmptyState]
        /\ now = 0
        /\ audit = [t \in Threads |-> <<>>]
        /\ proposals = [t \in Threads |-> 0]
        /\ answers = [t \in Threads |-> {}]
        /\ restarts = [t \in Threads |-> <<>>]

-----------------------------------------------------------------------------
(* The nodes.                                                              *)

\* Run t goes to node n having returned the update that makes its state s.
Return(t, n, s) == /\ node' = [node EXCEPT ![t] = n]
                   /\ state' = [state EXCEPT ![t] = s]

At(t, n) == node[t] = n

invoke(t, namespace) ==
    /\ At(t, "start")
    /\ Return(t, "observer", [state[t] EXCEPT !.namespace = namespace])
    /\ UNCHANGED <<now, audit, history>>

\* Mutants: the re-entry after a stale approval leaves a per-cycle field alone.
ObservedKeepsOutcome(s) == [s EXCEPT !.steps = RequiredSteps, !.decision = "none",
                                     !.execution = "none"]
ObservedKeepsDecision(s) == [s EXCEPT !.steps = RequiredSteps, !.execution = "none",
                                      !.outcome = "none"]

observed(s) == [s EXCEPT !.steps = RequiredSteps, !.decision = "none",
                         !.execution = "none", !.outcome = "none"]

observer(t) ==
    /\ At(t, "observer")
    /\ Return(t, "diagnostician", observed(state[t]))
    /\ UNCHANGED <<now, audit, history>>

\* Mutant: the edge of an executable fix leads past the gate.
RoutePastGate(s) == IF executable(s.proposed_fix, s.namespace)
                    THEN "act" ELSE "close_draft"

route_proposal(s) == IF executable(s.proposed_fix, s.namespace)
                     THEN "gate" ELSE "close_draft"

diagnostician(t, fix) ==
    /\ At(t, "diagnostician")
    /\ LET s == [state[t] EXCEPT !.steps = @ \o PlanSteps,
                                 !.proposed_fix = fix,
                                 !.proposal_expires_at = now + TTL]
       IN  Return(t, route_proposal(s), s)
    /\ proposals' = [proposals EXCEPT ![t] = @ + 1]
    /\ UNCHANGED <<now, audit, answers, restarts>>

close_draft(t) ==
    /\ At(t, "close_draft")
    /\ Return(t, "finalize", [state[t] EXCEPT !.outcome = "draft"])
    /\ UNCHANGED <<now, audit, history>>

\* interrupt(): invoke returns to its caller with the proposal.
gate(t) ==
    /\ At(t, "gate")
    /\ node' = [node EXCEPT ![t] = "interrupt"]
    /\ UNCHANGED <<state, now, audit, history>>

\* The gate body replays on resume, and this time interrupt() returns.
resume(t, approve) ==
    /\ At(t, "interrupt")
    /\ Return(t, "act", [state[t] EXCEPT !.decision =
                           IF approve THEN "approved" ELSE "denied"])
    /\ answers' = [answers EXCEPT ![t] = @ \cup
                     {[proposal |-> proposals[t], approve |-> approve, at |-> now]}]
    /\ UNCHANGED <<now, audit, proposals, restarts>>

\* Mutants: a finished act is not verified; a stale approval is tried again.
RouteUnverified(s) == IF s.outcome = "stale" THEN "observer" ELSE "finalize"
RouteStaleToAct(s) == IF s.outcome = "stale" THEN "act"
                      ELSE IF s.outcome # "none" THEN "finalize" ELSE "verify"

route_act(s) == IF s.outcome = "stale" THEN "observer"
                ELSE IF s.outcome # "none" THEN "finalize" ELSE "verify"

\* act returns; the conditional edge reads the state the return produced.
ActReturns(t, s) == Return(t, route_act(s), s)

\* Mutant: any decision is taken for an approval.
DeniedIfUndecided(t) == state[t].decision = "none"

denied(t) == state[t].decision # "approved"
expired(t) == now > state[t].proposal_expires_at

\* act, up to its first call out of the process.
act(t) ==
    /\ At(t, "act")
    /\ \/ /\ denied(t)
          /\ ActReturns(t, [state[t] EXCEPT !.outcome = "denied"])
       \/ /\ ~denied(t) /\ expired(t)
          /\ ActReturns(t, [state[t] EXCEPT !.outcome = "expired"])
       \/ /\ ~denied(t) /\ ~expired(t)
          /\ node' = [node EXCEPT ![t] = "act_check"]
          /\ UNCHANGED state
    /\ UNCHANGED <<now, audit, history>>

\* act, condition_check answered; the write allowlist comes after it.
act_check(t, holds) ==
    /\ At(t, "act_check")
    /\ \/ /\ ~holds
          /\ proposals[t] < MaxProposals
          /\ ActReturns(t, [state[t] EXCEPT !.outcome = "stale"])
       \/ /\ holds /\ state[t].namespace \notin WriteNamespaces
          /\ ActReturns(t, [state[t] EXCEPT !.outcome = "error",
                                            !.execution = "failed"])
       \/ /\ holds /\ state[t].namespace \in WriteNamespaces
          /\ node' = [node EXCEPT ![t] = "act_restart"]
          /\ UNCHANGED state
    /\ UNCHANGED <<now, audit, history>>

\* act, actuator.restart_pod: refused (pod gone, or no owner), or deleted; the
\* delete call may also raise after the API server has carried it out.
act_restart(t) ==
    /\ At(t, "act_restart")
    /\ \/ /\ ActReturns(t, [state[t] EXCEPT !.outcome = "error",
                                            !.execution = "failed"])
          /\ UNCHANGED restarts
       \/ /\ \/ ActReturns(t, [state[t] EXCEPT !.execution = "executed"])
             \/ Return(t, "raised", state[t])
          /\ restarts' = [restarts EXCEPT ![t] = Append(@,
                            [proposal |-> proposals[t],
                             expires |-> state[t].proposal_expires_at])]
    /\ UNCHANGED <<now, audit, proposals, answers>>

\* Mutant: the outcome SPEC.md:138 and DESIGN.md:67 also name.
VerifyWorsened(t, persists) ==
    /\ At(t, "verify")
    /\ Return(t, "finalize", [state[t] EXCEPT !.outcome =
                                IF persists THEN "worsened" ELSE "resolved"])
    /\ UNCHANGED <<now, audit, history>>

verify(t, persists) ==
    /\ At(t, "verify")
    /\ Return(t, "finalize", [state[t] EXCEPT !.outcome =
                                IF persists THEN "persists" ELSE "resolved"])
    /\ UNCHANGED <<now, audit, history>>

AuditRecord(t, outcome) ==
    [trajectory |-> state[t].steps, proposal |-> state[t].proposed_fix,
     human_decision |-> state[t].decision, execution_result |-> state[t].execution,
     outcome |-> outcome]

finalize(t) ==
    /\ At(t, "finalize")
    /\ LET outcome == IF state[t].outcome = "none" THEN "error" ELSE state[t].outcome
       IN  /\ audit' = [audit EXCEPT ![t] = Append(@, AuditRecord(t, outcome))]
           /\ Return(t, "end", [state[t] EXCEPT !.outcome = outcome])
    /\ UNCHANGED <<now, history>>

\* Any node that calls out may raise: the run stops where it is, nothing the
\* node computed is kept, and finalize never runs.
raises(t) ==
    /\ node[t] \in MayRaise
    /\ node' = [node EXCEPT ![t] = "raised"]
    /\ UNCHANGED <<state, now, audit, history>>

Tick == /\ now < MaxTime
        /\ now' = now + 1
        /\ UNCHANGED <<node, state, audit, history>>

-----------------------------------------------------------------------------
(* Specification.  Step is what a thread inside graph.invoke does.         *)

Step(t) == \/ observer(t)
           \/ \E fix \in FixActions : diagnostician(t, fix)
           \/ close_draft(t) \/ gate(t) \/ act(t)
           \/ \E holds \in BOOLEAN : act_check(t, holds)
           \/ act_restart(t)
           \/ \E persists \in BOOLEAN : verify(t, persists)
           \/ finalize(t) \/ raises(t)

Next == \/ \E t \in Threads, namespace \in Namespaces : invoke(t, namespace)
        \/ \E t \in Threads, approve \in BOOLEAN : resume(t, approve)
        \/ \E t \in Threads : Step(t)
        \/ Tick

Spec == Init /\ [][Next]_vars

-----------------------------------------------------------------------------
(* What the graph promises.                                                *)

AgentStates == [namespace : Namespaces \cup {"none"}, steps : Seq(StepIds),
                proposed_fix : FixActions, proposal_expires_at : Nat,
                decision : {"none", "approved", "denied"},
                execution : {"none", "executed", "failed"},
                outcome : Outcomes \cup {"none"}]
AuditRecords == [trajectory : Seq(StepIds), proposal : FixActions,
                 human_decision : {"none", "approved", "denied"},
                 execution_result : {"none", "executed", "failed"},
                 outcome : Outcomes]
Answers == [proposal : Nat, approve : BOOLEAN, at : Nat]
Restarts == [proposal : Nat, expires : Nat]

\* Every variable, and every field of AgentState, holds a value of its kind; in
\* particular outcome is one of the seven that state.py lists.
TypeOK == /\ node \in [Threads -> NodeNames]
          /\ state \in [Threads -> AgentStates]
          /\ now \in Nat
          /\ audit \in [Threads -> Seq(AuditRecords)]
          /\ proposals \in [Threads -> Nat]
          /\ answers \in [Threads -> SUBSET Answers]
          /\ restarts \in [Threads -> Seq(Restarts)]

\* A pod is deleted only on a human approval of the very proposal the deletion
\* acts on, given before that proposal expired: an approval of an earlier
\* proposal, discarded as stale, never licenses a later deletion.
RestartsApproved ==
    \A t \in Threads : \A i \in 1..Len(restarts[t]) :
        \E a \in answers[t] : /\ a.proposal = restarts[t][i].proposal
                              /\ a.approve
                              /\ a.at <= restarts[t][i].expires

\* One run deletes at most one pod, and once it has, it never proposes again:
\* the loop back to observer is for stale approvals only, never for a retry.
NoRetry ==
    \A t \in Threads :
        /\ Len(restarts[t]) <= 1
        /\ restarts[t] # <<>> => restarts[t][1].proposal = proposals[t]

\* A pod is deleted only in a namespace that is both in the write allowlist and
\* open to draft-only actions: where no namespace is, nothing is ever deleted.
RestartsInScope ==
    \A t \in Threads : restarts[t] # <<>> =>
        state[t].namespace \in WriteNamespaces \cap ExecuteNamespaces

\* A run that reaches the end has left a record, and whatever it has recorded says
\* that the fix was executed, and that it was verified, exactly when a pod was
\* deleted: a refused, failed, denied, expired or stale fix is never told as one.
OutcomeTruthful ==
    \A t \in Threads : node[t] = "end" =>
        /\ audit[t] # <<>>
        /\ \A i \in 1..Len(audit[t]) :
             /\ audit[t][i].execution_result = "executed" <=> restarts[t] # <<>>
             /\ audit[t][i].outcome \in {"resolved", "persists"} <=> restarts[t] # <<>>

\* An audit record describes one investigation, the last: its trajectory is the
\* required one, run once, and its human decision is the one given to that
\* proposal, never one left over from a proposal the run went back on.
AuditMatchesProposal ==
    \A t \in Threads : \A i \in 1..Len(audit[t]) :
        /\ audit[t][i].trajectory = RequiredSteps \o PlanSteps
        /\ audit[t][i].human_decision # "none" =>
             \E a \in answers[t] :
                /\ a.proposal = proposals[t]
                /\ a.approve = (audit[t][i].human_decision = "approved")

-----------------------------------------------------------------------------
(* The graph implements the approval gate.                                 *)

PhaseOf(t) ==
    IF node[t] = "start" THEN "idle"
    ELSE IF node[t] \in {"observer", "diagnostician", "close_draft", "gate"}
         THEN "planning"
    ELSE IF node[t] = "interrupt" THEN "awaiting"
    ELSE IF node[t] = "act"
         THEN IF state[t].decision = "approved" THEN "approved" ELSE "refused"
    ELSE IF node[t] \in {"act_check", "act_restart"} THEN "approved"
    ELSE IF node[t] = "verify" THEN "restarted"
    ELSE IF node[t] = "finalize"
         THEN IF state[t].outcome = "draft" THEN "planning"
              ELSE IF state[t].outcome = "denied" THEN "refused"
              ELSE IF state[t].outcome \in {"expired", "error"} THEN "approved"
              ELSE "restarted"
    ELSE IF node[t] = "end" THEN "closed" ELSE "failed"

Gate == INSTANCE ApprovalGate WITH
            phase <- [t \in Threads |-> PhaseOf(t)],
            restarts <- [t \in Threads |-> Len(restarts[t])]

\* Every behaviour of the graph is a behaviour of ApprovalGate.
ImplementsGate == Gate!Spec

-----------------------------------------------------------------------------
(* What the documents say and the graph does not do.                       *)

\* SPEC.md:163: the audit log holds the execution result.  A run that raises
\* after the deletion stops without a record of it.
EveryRestartAudited ==
    \A t \in Threads : node[t] \in Stopped /\ restarts[t] # <<>> => audit[t] # <<>>

=============================================================================
