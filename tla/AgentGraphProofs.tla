-------------------------- MODULE AgentGraphProofs --------------------------
(***************************************************************************)
(* Proofs about AgentGraph: for every set of threads, every configuration  *)
(* of namespaces, every TTL, and with no bound on time or proposals that   *)
(* matters, the safety invariants hold and the graph implements            *)
(* ApprovalGate.  The argument is the usual one: RunInv says what is true  *)
(* of a run at each node, is inductive together with TypeOK, and implies   *)
(* each of the invariants.                                                 *)
(***************************************************************************)
EXTENDS AgentGraph, TLAPS

Planning == {"diagnostician", "close_draft", "gate", "interrupt"}
PastGate == {"act", "act_check", "act_restart", "verify"}
Gated == {"gate", "interrupt"} \cup PastGate
BeforeWrite == {"start", "observer", "act", "act_check", "act_restart"} \cup Planning

Approved(t, time) ==
    \E a \in answers[t] : a.proposal = proposals[t] /\ a.approve /\ a.at <= time

\* The decision in the state is an answer to the current proposal.
DecisionIsCurrent(t) ==
    \E a \in answers[t] : /\ a.proposal = proposals[t]
                          /\ a.approve = (state[t].decision = "approved")

\* Nothing is deleted before verify; what was deleted was approved, in scope,
\* and acted on the latest proposal.
WriteInv(t) ==
    /\ node[t] \in BeforeWrite => restarts[t] = <<>>
    /\ node[t] = "verify" => restarts[t] # <<>>
    /\ restarts[t] # <<>> =>
         /\ Len(restarts[t]) = 1
         /\ restarts[t][1].proposal = proposals[t]
         /\ Approved(t, restarts[t][1].expires)
         /\ state[t].namespace \in WriteNamespaces \cap ExecuteNamespaces

\* What the gate and the pre-flight have established by the time act writes.
GateInv(t) ==
    /\ node[t] \in Gated => state[t].namespace \in ExecuteNamespaces
    /\ node[t] \in Planning => state[t].decision = "none"
    /\ node[t] = "act" /\ state[t].decision = "approved" => Approved(t, now)
    /\ node[t] \in {"act_check", "act_restart"} =>
         Approved(t, state[t].proposal_expires_at)
    /\ node[t] = "act_restart" => state[t].namespace \in WriteNamespaces

\* What the record will say is what happened.
RecordInv(t) ==
    /\ node[t] \in Planning \cup PastGate => state[t].outcome = "none"
    /\ node[t] = "finalize" =>
         /\ state[t].outcome \in Outcomes \ {"stale"}
         /\ state[t].outcome \in {"resolved", "persists"} <=> restarts[t] # <<>>
         /\ state[t].execution = "executed" <=> restarts[t] # <<>>
    /\ node[t] \notin {"verify", "finalize", "end", "raised"} =>
         state[t].execution = "none"
    /\ node[t] = "verify" => state[t].execution = "executed"
    /\ node[t] = "diagnostician" => state[t].steps = RequiredSteps
    /\ node[t] \in {"close_draft", "finalize"} \cup Gated =>
         state[t].steps = RequiredSteps \o PlanSteps
    /\ node[t] \in PastGate \cup {"finalize"} /\ state[t].decision # "none" =>
         DecisionIsCurrent(t)
    /\ node[t] # "end" => audit[t] = <<>>

\* What it does say.
EndInv(t) ==
    node[t] = "end" =>
      LET record == audit[t][1]
      IN  /\ Len(audit[t]) = 1
          /\ record.outcome \in {"resolved", "persists"} <=> restarts[t] # <<>>
          /\ record.execution_result = "executed" <=> restarts[t] # <<>>
          /\ record.trajectory = RequiredSteps \o PlanSteps
          /\ record.human_decision # "none" =>
               \E a \in answers[t] :
                 /\ a.proposal = proposals[t]
                 /\ a.approve = (record.human_decision = "approved")

RunInv(t) == WriteInv(t) /\ GateInv(t) /\ RecordInv(t) /\ EndInv(t)

IInv == TypeOK /\ \A t \in Threads : RunInv(t)

-----------------------------------------------------------------------------
(* Type correctness.                                                       *)

\* The trajectories are sequences of step ids.
LEMMA StepsType == RequiredSteps \in Seq(StepIds) /\ PlanSteps \in Seq(StepIds)
  BY DEF RequiredSteps, PlanSteps, StepIds

\* A node's return keeps node and state well typed.
LEMMA ReturnType ==
    ASSUME TypeOK, NEW t \in Threads, NEW n \in NodeNames, NEW s \in AgentStates,
           Return(t, n, s)
    PROVE  /\ node' \in [Threads -> NodeNames]
           /\ state' \in [Threads -> AgentStates]
  BY DEF TypeOK, Return

\* So does the return of act, wherever its conditional edge leads.
LEMMA ActReturnsType ==
    ASSUME TypeOK, NEW t \in Threads, NEW s \in AgentStates, ActReturns(t, s)
    PROVE  /\ node' \in [Threads -> NodeNames]
           /\ state' \in [Threads -> AgentStates]
  <1>1. route_act(s) \in NodeNames
    BY DEF route_act, NodeNames
  <1> QED
    BY <1>1, ReturnType DEF ActReturns

\* Spec => []TypeOK: every variable and every field of AgentState keeps to its
\* kind, the outcome to the seven of agent/state.py:27.
THEOREM TypeCorrect == Spec => []TypeOK
  <1>1. Init => TypeOK
    BY DEF Init, TypeOK, EmptyState, AgentStates, NodeNames, Outcomes, FixActions
  <1>2. TypeOK /\ [Next]_vars => TypeOK'
    <2> SUFFICES ASSUME TypeOK, [Next]_vars PROVE TypeOK'
      OBVIOUS
    <2> USE DEF TypeOK
    <2>1. ASSUME NEW t \in Threads, NEW ns \in Namespaces, invoke(t, ns)
          PROVE  TypeOK'
      <3>1. [state[t] EXCEPT !.namespace = ns] \in AgentStates
        BY DEF AgentStates
      <3> QED
        BY <2>1, <3>1, ReturnType DEF invoke, history, NodeNames
    <2>2. ASSUME NEW t \in Threads, NEW approve \in BOOLEAN, resume(t, approve)
          PROVE  TypeOK'
      <3>1. [state[t] EXCEPT !.decision = IF approve THEN "approved" ELSE "denied"]
              \in AgentStates
        BY DEF AgentStates
      <3>2. [proposal |-> proposals[t], approve |-> approve, at |-> now] \in Answers
        BY DEF Answers
      <3>3. answers' \in [Threads -> SUBSET Answers]
        BY <2>2, <3>2 DEF resume
      <3> QED
        BY <2>2, <3>1, <3>3, ReturnType DEF resume, NodeNames
    <2>3. ASSUME NEW t \in Threads, observer(t)
          PROVE  TypeOK'
      <3>1. observed(state[t]) \in AgentStates
        BY StepsType DEF observed, AgentStates
      <3> QED
        BY <2>3, <3>1, ReturnType DEF observer, history, NodeNames
    <2>4. ASSUME NEW t \in Threads, NEW fix \in FixActions, diagnostician(t, fix)
          PROVE  TypeOK'
      <3> DEFINE s == [state[t] EXCEPT !.steps = @ \o PlanSteps,
                                       !.proposed_fix = fix,
                                       !.proposal_expires_at = now + TTL]
      <3>0. now + TTL \in Nat
        BY GraphAssumption
      <3>1. state[t].steps \o PlanSteps \in Seq(StepIds)
        BY StepsType DEF AgentStates
      <3>2. s \in AgentStates
        BY <3>1, <3>0 DEF AgentStates
      <3>3. route_proposal(s) \in NodeNames
        BY DEF route_proposal, NodeNames
      <3>4. Return(t, route_proposal(s), s)
        BY <2>4 DEF diagnostician
      <3> HIDE DEF s
      <3> QED
        BY <2>4, <3>2, <3>3, <3>4, ReturnType DEF diagnostician
    <2>5. ASSUME NEW t \in Threads, close_draft(t)
          PROVE  TypeOK'
      <3>1. [state[t] EXCEPT !.outcome = "draft"] \in AgentStates
        BY DEF AgentStates, Outcomes
      <3> QED
        BY <2>5, <3>1, ReturnType DEF close_draft, history, NodeNames
    <2>6. ASSUME NEW t \in Threads, gate(t)
          PROVE  TypeOK'
      BY <2>6 DEF gate, history, NodeNames
    <2>7. ASSUME NEW t \in Threads, act(t)
          PROVE  TypeOK'
      <3>1. /\ [state[t] EXCEPT !.outcome = "denied"] \in AgentStates
            /\ [state[t] EXCEPT !.outcome = "expired"] \in AgentStates
        BY DEF AgentStates, Outcomes
      <3>2. /\ node' \in [Threads -> NodeNames]
            /\ state' \in [Threads -> AgentStates]
        BY <2>7, <3>1, ActReturnsType DEF act, NodeNames
      <3> QED
        BY <2>7, <3>2 DEF act, history
    <2>8. ASSUME NEW t \in Threads, NEW holds \in BOOLEAN, act_check(t, holds)
          PROVE  TypeOK'
      <3>1. /\ [state[t] EXCEPT !.outcome = "stale"] \in AgentStates
            /\ [state[t] EXCEPT !.outcome = "error", !.execution = "failed"]
                 \in AgentStates
        BY DEF AgentStates, Outcomes
      <3>2. /\ node' \in [Threads -> NodeNames]
            /\ state' \in [Threads -> AgentStates]
        BY <2>8, <3>1, ActReturnsType DEF act_check, NodeNames
      <3> QED
        BY <2>8, <3>2 DEF act_check, history
    <2>9. ASSUME NEW t \in Threads, act_restart(t)
          PROVE  TypeOK'
      <3>1. /\ [state[t] EXCEPT !.outcome = "error", !.execution = "failed"]
                 \in AgentStates
            /\ [state[t] EXCEPT !.execution = "executed"] \in AgentStates
            /\ state[t] \in AgentStates
        BY DEF AgentStates, Outcomes
      <3>2. /\ node' \in [Threads -> NodeNames]
            /\ state' \in [Threads -> AgentStates]
        BY <2>9, <3>1, ActReturnsType, ReturnType DEF act_restart, NodeNames
      <3>3. [proposal |-> proposals[t], expires |-> state[t].proposal_expires_at]
              \in Restarts
        BY DEF Restarts, AgentStates
      <3>4. restarts' \in [Threads -> Seq(Restarts)]
        <4> DEFINE r == [proposal |-> proposals[t],
                         expires |-> state[t].proposal_expires_at]
        <4>1. restarts' = restarts \/ restarts' = [restarts EXCEPT ![t] = Append(@, r)]
          BY <2>9 DEF act_restart
        <4>2. r \in Restarts
          BY <3>3
        <4> HIDE DEF r
        <4>3. Append(restarts[t], r) \in Seq(Restarts)
          BY <4>2
        <4> QED
          BY <4>1, <4>3
      <3>5. UNCHANGED <<now, audit, proposals, answers>>
        BY <2>9 DEF act_restart
      <3> QED
        BY <3>2, <3>4, <3>5
    <2>10. ASSUME NEW t \in Threads, NEW persists \in BOOLEAN, verify(t, persists)
           PROVE  TypeOK'
      <3>1. [state[t] EXCEPT !.outcome = IF persists THEN "persists" ELSE "resolved"]
              \in AgentStates
        BY DEF AgentStates, Outcomes
      <3> QED
        BY <2>10, <3>1, ReturnType DEF verify, history, NodeNames
    <2>11. ASSUME NEW t \in Threads, finalize(t)
           PROVE  TypeOK'
      <3> DEFINE outcome == IF state[t].outcome = "none" THEN "error"
                            ELSE state[t].outcome
      <3>1. outcome \in Outcomes
        BY DEF AgentStates, Outcomes
      <3>2. [state[t] EXCEPT !.outcome = outcome] \in AgentStates
        BY <3>1 DEF AgentStates
      <3>3. AuditRecord(t, outcome) \in AuditRecords
        BY <3>1 DEF AuditRecord, AuditRecords, AgentStates
      <3>4. /\ audit' = [audit EXCEPT ![t] = Append(@, AuditRecord(t, outcome))]
            /\ Return(t, "end", [state[t] EXCEPT !.outcome = outcome])
            /\ UNCHANGED <<now, history>>
        BY <2>11 DEF finalize
      <3> HIDE DEF outcome
      <3>5. audit' \in [Threads -> Seq(AuditRecords)]
        BY <3>3, <3>4
      <3> QED
        BY <3>2, <3>4, <3>5, ReturnType DEF history, NodeNames
    <2>12. ASSUME NEW t \in Threads, raises(t)
           PROVE  TypeOK'
      BY <2>12 DEF raises, history, NodeNames
    <2>13. CASE Tick
      BY <2>13 DEF Tick, history
    <2>14. CASE UNCHANGED vars
      BY <2>14 DEF vars
    <2> QED
      BY <2>1, <2>2, <2>3, <2>4, <2>5, <2>6, <2>7, <2>8, <2>9, <2>10, <2>11,
         <2>12, <2>13, <2>14 DEF Next, Step
  <1> QED
    BY <1>1, <1>2, PTL DEF Spec

-----------------------------------------------------------------------------
(* RunInv is inductive.                                                    *)

\* A run that a step leaves alone keeps its invariant, however late it gets.
LEMMA FrameKeeps ==
    ASSUME TypeOK, NEW u \in Threads, RunInv(u),
           node'[u] = node[u], state'[u] = state[u], audit'[u] = audit[u],
           proposals'[u] = proposals[u], answers'[u] = answers[u],
           restarts'[u] = restarts[u], now' \in Nat, now <= now'
    PROVE  RunInv(u)'
  <1>1. ASSUME Approved(u, now) PROVE Approved(u, now)'
    <2>1. \A a \in answers[u] : a.at \in Nat
      BY DEF TypeOK, Answers
    <2> QED
      BY <1>1, <2>1 DEF Approved, TypeOK
  <1>2. WriteInv(u)'
    BY DEF RunInv, WriteInv, Approved
  <1>3. GateInv(u)'
    <2>1. node[u] = "act" /\ state[u].decision = "approved" => Approved(u, now)'
      BY <1>1 DEF RunInv, GateInv
    <2> QED
      BY <2>1 DEF RunInv, GateInv, Approved
  <1>4. RecordInv(u)'
    BY DEF RunInv, RecordInv, DecisionIsCurrent
  <1>5. EndInv(u)'
    BY DEF RunInv, EndInv
  <1> QED
    BY <1>2, <1>3, <1>4, <1>5 DEF RunInv

\* A step of one run leaves every other run alone.
LEMMA OneRunSteps ==
    ASSUME TypeOK, NEW t \in Threads, NEW u \in Threads, u # t,
           \/ \E ns \in Namespaces : invoke(t, ns)
           \/ \E approve \in BOOLEAN : resume(t, approve)
           \/ Step(t)
    PROVE  /\ node'[u] = node[u] /\ state'[u] = state[u]
           /\ audit'[u] = audit[u] /\ proposals'[u] = proposals[u]
           /\ answers'[u] = answers[u] /\ restarts'[u] = restarts[u]
           /\ now' = now
  BY DEF TypeOK, Step, invoke, resume, observer, diagnostician, close_draft, gate,
         act, act_check, act_restart, verify, finalize, raises, Return,
         ActReturns, history

\* Where act's update takes the run; an error to the end of it.
LEMMA ActReturnsTo ==
    ASSUME TypeOK, NEW t \in Threads, NEW s, ActReturns(t, s)
    PROVE  state'[t] = s /\ node'[t] = route_act(s)
  BY DEF TypeOK, ActReturns, Return

LEMMA ErrorReturnsTo ==
    ASSUME TypeOK, NEW t \in Threads,
           ActReturns(t, [state[t] EXCEPT !.outcome = "error", !.execution = "failed"])
    PROVE  node'[t] = "finalize" /\ state'[t].outcome = "error"
  <1> DEFINE s == [state[t] EXCEPT !.outcome = "error", !.execution = "failed"]
  <1>1. s.outcome = "error"
    BY DEF TypeOK, AgentStates
  <1>2. ActReturns(t, s)
    OBVIOUS
  <1> HIDE DEF s
  <1> QED
    BY <1>1, <1>2, ActReturnsTo DEF route_act

\* A refusal by act ends the run without a restart, and its record says so.
LEMMA RefusalKeeps ==
    ASSUME TypeOK, NEW t \in Threads, RunInv(t),
           node[t] \in {"act", "act_check", "act_restart"},
           NEW outcome \in {"denied", "expired", "error"}, NEW s \in AgentStates,
           s.outcome = outcome, s.namespace = state[t].namespace,
           s.steps = state[t].steps, s.decision = state[t].decision,
           s.execution # "executed",
           ActReturns(t, s), UNCHANGED <<now, audit, history>>
    PROVE  RunInv(t)'
  <1> USE DEF Planning, PastGate, Gated, BeforeWrite, RunInv, history
  <1>1. node'[t] = "finalize" /\ state'[t] = s
    BY ActReturnsTo DEF route_act
  <1>2. restarts[t] = <<>> /\ audit[t] = <<>>
    BY DEF WriteInv, RecordInv
  <1>3. WriteInv(t)' /\ GateInv(t)' /\ EndInv(t)'
    BY <1>1, <1>2 DEF WriteInv, GateInv, EndInv
  <1>4. RecordInv(t)'
    BY <1>1, <1>2 DEF RecordInv, DecisionIsCurrent, Outcomes
  <1> QED
    BY <1>3, <1>4

\* A run's own step keeps its invariant: what the node found true on entry is
\* what its successor needs.
LEMMA RunKeeps ==
    ASSUME TypeOK, NEW t \in Threads, RunInv(t),
           \/ \E ns \in Namespaces : invoke(t, ns)
           \/ \E approve \in BOOLEAN : resume(t, approve)
           \/ Step(t)
    PROVE  RunInv(t)'
  <1> USE DEF At, Planning, PastGate, Gated, BeforeWrite, RunInv
  <1>0. /\ state[t] \in AgentStates /\ node[t] \in NodeNames /\ now \in Nat
        /\ \A a \in answers[t] : a \in Answers
    BY DEF TypeOK
  <1>1. ASSUME NEW ns \in Namespaces, invoke(t, ns)
        PROVE  RunInv(t)'
    <2>1. /\ node[t] = "start" /\ node'[t] = "observer"
          /\ state'[t].execution = state[t].execution
          /\ UNCHANGED <<audit, proposals, answers, restarts>>
      BY <1>1 DEF invoke, Return, TypeOK, AgentStates, history
    <2>2. WriteInv(t)'
      BY <2>1, <1>0 DEF WriteInv, Approved, AgentStates
    <2>3. GateInv(t)'
      BY <2>1, <1>0 DEF WriteInv, GateInv, AgentStates
    <2>4. RecordInv(t)'
      BY <2>1 DEF RecordInv
    <2>5. EndInv(t)'
      BY <2>1 DEF EndInv
    <2> QED
      BY <2>2, <2>3, <2>4, <2>5
  <1>2. ASSUME observer(t)
        PROVE  RunInv(t)'
    <2>1. /\ node[t] = "observer" /\ node'[t] = "diagnostician"
          /\ state'[t].steps = RequiredSteps /\ state'[t].decision = "none"
          /\ state'[t].outcome = "none" /\ state'[t].namespace = state[t].namespace
          /\ state'[t].execution = "none"
          /\ UNCHANGED <<audit, proposals, answers, restarts>>
      BY <1>2 DEF observer, observed, Return, TypeOK, AgentStates, history
    <2>2. WriteInv(t)'
      BY <2>1, <1>0 DEF WriteInv, Approved, AgentStates
    <2>3. GateInv(t)'
      BY <2>1, <1>0 DEF WriteInv, GateInv, AgentStates
    <2>4. RecordInv(t)'
      BY <2>1 DEF RecordInv
    <2>5. EndInv(t)'
      BY <2>1 DEF EndInv
    <2> QED
      BY <2>2, <2>3, <2>4, <2>5
  <1>3. ASSUME NEW fix \in FixActions, diagnostician(t, fix)
        PROVE  RunInv(t)'
    <2>1. /\ node[t] = "diagnostician" /\ node'[t] \in {"gate", "close_draft"}
          /\ node'[t] = "gate" => state[t].namespace \in ExecuteNamespaces
          /\ state'[t].steps = state[t].steps \o PlanSteps
          /\ state'[t].decision = state[t].decision
          /\ state'[t].outcome = state[t].outcome
          /\ state'[t].namespace = state[t].namespace
          /\ state'[t].execution = state[t].execution
          /\ UNCHANGED <<audit, answers, restarts>>
      BY <1>3 DEF diagnostician, route_proposal, executable, Implemented, DraftOnly,
             Return, TypeOK, AgentStates
    <2>2. WriteInv(t)'
      BY <2>1, <1>0 DEF WriteInv, Approved, AgentStates
    <2>3. GateInv(t)'
      BY <2>1, <1>0 DEF WriteInv, GateInv, AgentStates
    <2>4. RecordInv(t)'
      BY <2>1 DEF RecordInv
    <2>5. EndInv(t)'
      BY <2>1 DEF EndInv
    <2> QED
      BY <2>2, <2>3, <2>4, <2>5
  <1>4. ASSUME close_draft(t)
        PROVE  RunInv(t)'
    <2>1. /\ node[t] = "close_draft" /\ node'[t] = "finalize"
          /\ state'[t] = [state[t] EXCEPT !.outcome = "draft"]
          /\ UNCHANGED <<audit, proposals, answers, restarts>>
      BY <1>4 DEF close_draft, Return, TypeOK, history
    <2>2. WriteInv(t)'
      BY <2>1, <1>0 DEF WriteInv, Approved, AgentStates
    <2>3. GateInv(t)'
      BY <2>1, <1>0 DEF WriteInv, GateInv, AgentStates
    <2>4. RecordInv(t)'
      BY <2>1, <1>0 DEF WriteInv, GateInv, RecordInv, Outcomes, AgentStates
    <2>5. EndInv(t)'
      BY <2>1 DEF EndInv
    <2> QED
      BY <2>2, <2>3, <2>4, <2>5
  <1>5. ASSUME gate(t)
        PROVE  RunInv(t)'
    <2>1. /\ node[t] = "gate" /\ node'[t] = "interrupt" /\ state' = state
          /\ UNCHANGED <<audit, proposals, answers, restarts>>
      BY <1>5 DEF gate, TypeOK, history
    <2>2. WriteInv(t)'
      BY <2>1, <1>0 DEF WriteInv, Approved, AgentStates
    <2>3. GateInv(t)'
      BY <2>1, <1>0 DEF WriteInv, GateInv, AgentStates
    <2>4. RecordInv(t)'
      BY <2>1 DEF RecordInv
    <2>5. EndInv(t)'
      BY <2>1 DEF EndInv
    <2> QED
      BY <2>2, <2>3, <2>4, <2>5
  <1>6. ASSUME NEW approve \in BOOLEAN, resume(t, approve)
        PROVE  RunInv(t)'
    <2>1. /\ node[t] = "interrupt" /\ node'[t] = "act" /\ restarts' = restarts
          /\ state'[t] = [state[t] EXCEPT !.decision =
                          IF approve THEN "approved" ELSE "denied"]
          /\ [proposal |-> proposals[t], approve |-> approve, at |-> now] \in answers'[t]
          /\ UNCHANGED <<audit, proposals, now>>
      BY <1>6 DEF resume, Return, TypeOK
    <2>2. WriteInv(t)'
      BY <2>1, <1>0 DEF WriteInv, Approved, AgentStates
    <2>3. GateInv(t)'
      BY <2>1, <1>0 DEF WriteInv, GateInv, Approved, AgentStates
    <2>4. RecordInv(t)'
      BY <2>1, <1>0 DEF RecordInv, DecisionIsCurrent, AgentStates
    <2>5. EndInv(t)'
      BY <2>1 DEF EndInv
    <2> QED
      BY <2>2, <2>3, <2>4, <2>5
  <1>7. ASSUME act(t)
        PROVE  RunInv(t)'
    <2>1. node[t] = "act" /\ UNCHANGED <<now, audit, history>>
      BY <1>7 DEF act
    <2>2. ASSUME NEW outcome \in {"denied", "expired"},
                 ActReturns(t, [state[t] EXCEPT !.outcome = outcome])
          PROVE  RunInv(t)'
      <3>1. [state[t] EXCEPT !.outcome = outcome] \in AgentStates
        BY <1>0 DEF AgentStates, Outcomes
      <3>2. state[t].execution = "none"
        BY <2>1 DEF RecordInv
      <3> QED
        BY <1>0, <2>1, <2>2, <3>1, <3>2, RefusalKeeps DEF AgentStates
    <2>3. ASSUME ~denied(t), ~expired(t), node' = [node EXCEPT ![t] = "act_check"],
                 UNCHANGED state
          PROVE  RunInv(t)'
      <3>1. node'[t] = "act_check" /\ Approved(t, now)
        BY <1>0, <2>1, <2>3 DEF TypeOK, GateInv, denied
      <3>2. Approved(t, state[t].proposal_expires_at)
        BY <1>0, <2>3, <3>1 DEF Approved, expired, Answers, AgentStates
      <3>3. WriteInv(t)' /\ EndInv(t)'
        BY <2>1, <2>3, <3>1 DEF WriteInv, EndInv, history
      <3>4. GateInv(t)'
        BY <2>1, <2>3, <3>1, <3>2 DEF GateInv, Approved, history
      <3>5. RecordInv(t)'
        BY <2>1, <2>3, <3>1 DEF RecordInv, DecisionIsCurrent, history
      <3> QED
        BY <3>3, <3>4, <3>5
    <2> QED
      BY <1>7, <2>2, <2>3 DEF act
  <1>8. ASSUME NEW holds \in BOOLEAN, act_check(t, holds)
        PROVE  RunInv(t)'
    <2>1. node[t] = "act_check" /\ UNCHANGED <<now, audit, history>>
      BY <1>8 DEF act_check
    <2>2. ASSUME ActReturns(t, [state[t] EXCEPT !.outcome = "stale"])
          PROVE  RunInv(t)'
      <3>1. node'[t] = "observer" /\ state'[t].execution = state[t].execution
        BY <1>0, <2>2, ActReturnsTo DEF route_act, AgentStates
      <3> QED
        BY <2>1, <3>1 DEF WriteInv, GateInv, RecordInv, EndInv, history
    <2>3. ASSUME ActReturns(t, [state[t] EXCEPT !.outcome = "error",
                                                !.execution = "failed"])
          PROVE  RunInv(t)'
      <3>1. [state[t] EXCEPT !.outcome = "error", !.execution = "failed"]
              \in AgentStates
        BY <1>0 DEF AgentStates, Outcomes
      <3> QED
        BY <1>0, <2>1, <2>3, <3>1, RefusalKeeps DEF AgentStates
    <2>4. ASSUME state[t].namespace \in WriteNamespaces,
                 node' = [node EXCEPT ![t] = "act_restart"], UNCHANGED state
          PROVE  RunInv(t)'
      <3>1. node'[t] = "act_restart"
        BY <2>4 DEF TypeOK
      <3>2. WriteInv(t)' /\ EndInv(t)'
        BY <2>1, <2>4, <3>1 DEF WriteInv, EndInv, history
      <3>3. GateInv(t)'
        BY <2>1, <2>4, <3>1 DEF GateInv, Approved, history
      <3>4. RecordInv(t)'
        BY <2>1, <2>4, <3>1 DEF RecordInv, DecisionIsCurrent, history
      <3> QED
        BY <3>2, <3>3, <3>4
    <2> QED
      BY <1>8, <2>2, <2>3, <2>4 DEF act_check
  <1>9. ASSUME act_restart(t)
        PROVE  RunInv(t)'
    <2>1. node[t] = "act_restart" /\ UNCHANGED <<now, audit, proposals, answers>>
      BY <1>9 DEF act_restart
    <2>2. ASSUME ActReturns(t, [state[t] EXCEPT !.outcome = "error",
                                                !.execution = "failed"]),
                 UNCHANGED restarts
          PROVE  RunInv(t)'
      <3>1. [state[t] EXCEPT !.outcome = "error", !.execution = "failed"]
              \in AgentStates
        BY <1>0 DEF AgentStates, Outcomes
      <3> QED
        BY <1>0, <2>1, <2>2, <3>1, RefusalKeeps DEF AgentStates, history
    <2> DEFINE r == [proposal |-> proposals[t],
                     expires |-> state[t].proposal_expires_at]
    <2>3. ASSUME \/ ActReturns(t, [state[t] EXCEPT !.execution = "executed"])
                 \/ Return(t, "raised", state[t]),
                 restarts' = [restarts EXCEPT ![t] = Append(@, r)]
          PROVE  RunInv(t)'
      <3>1. restarts[t] = <<>> /\ audit[t] = <<>> /\ state[t].outcome = "none"
        BY <2>1 DEF WriteInv, RecordInv
      <3>2. Len(restarts'[t]) = 1 /\ restarts'[t][1] = r /\ restarts'[t] # <<>>
        BY <2>3, <3>1 DEF TypeOK
      <3>3. node'[t] \in {"verify", "raised"}
        <4>1. CASE ActReturns(t, [state[t] EXCEPT !.execution = "executed"])
          BY <1>0, <3>1, <4>1, ActReturnsTo DEF route_act, AgentStates
        <4>2. CASE Return(t, "raised", state[t])
          BY <4>2 DEF Return, TypeOK
        <4> QED
          BY <2>3, <4>1, <4>2
      <3>4. /\ state'[t].namespace = state[t].namespace
            /\ state'[t].steps = state[t].steps
            /\ state'[t].decision = state[t].decision
            /\ state'[t].outcome = "none"
            /\ node'[t] = "verify" => state'[t].execution = "executed"
        <4>1. CASE ActReturns(t, [state[t] EXCEPT !.execution = "executed"])
          BY <1>0, <3>1, <4>1, ActReturnsTo DEF AgentStates
        <4>2. CASE Return(t, "raised", state[t])
          BY <3>1, <4>2 DEF Return, TypeOK
        <4> QED
          BY <2>3, <4>1, <4>2
      <3>5. /\ r.proposal = proposals'[t]
            /\ \E a \in answers'[t] :
                 a.proposal = proposals'[t] /\ a.approve /\ a.at <= r.expires
        BY <2>1 DEF GateInv, Approved
      <3>6. state[t].namespace \in WriteNamespaces \cap ExecuteNamespaces
        BY <2>1 DEF GateInv
      <3> HIDE DEF r
      <3>7. WriteInv(t)'
        BY <3>2, <3>3, <3>4, <3>5, <3>6 DEF WriteInv, Approved
      <3>8. GateInv(t)' /\ EndInv(t)'
        BY <3>3, <3>4, <3>6 DEF GateInv, EndInv
      <3>9. RecordInv(t)'
        BY <2>1, <3>1, <3>3, <3>4 DEF RecordInv, DecisionIsCurrent
      <3> QED
        BY <3>7, <3>8, <3>9
    <2> QED
      BY <1>9, <2>2, <2>3 DEF act_restart
  <1>10. ASSUME NEW persists \in BOOLEAN, verify(t, persists)
        PROVE  RunInv(t)'
    <2>1. /\ node[t] = "verify" /\ node'[t] = "finalize"
          /\ state'[t] = [state[t] EXCEPT !.outcome =
                          IF persists THEN "persists" ELSE "resolved"]
          /\ UNCHANGED <<audit, proposals, answers, restarts>>
      BY <1>10 DEF verify, Return, TypeOK, history
    <2>2. WriteInv(t)'
      BY <2>1, <1>0 DEF WriteInv, Approved, AgentStates
    <2>3. GateInv(t)'
      BY <2>1, <1>0 DEF WriteInv, GateInv, AgentStates
    <2>4. RecordInv(t)'
      BY <2>1, <1>0 DEF WriteInv, RecordInv, DecisionIsCurrent, Outcomes, AgentStates
    <2>5. EndInv(t)'
      BY <2>1 DEF EndInv
    <2> QED
      BY <2>2, <2>3, <2>4, <2>5
  <1>11. ASSUME finalize(t)
        PROVE  RunInv(t)'
    <2>1. /\ node[t] = "finalize" /\ node'[t] = "end"
          /\ state'[t].namespace = state[t].namespace
          /\ audit'[t] = <<AuditRecord(t, state[t].outcome)>>
          /\ UNCHANGED <<now, proposals, answers, restarts>>
      BY <1>11 DEF finalize, Return, TypeOK, AgentStates, RecordInv, Outcomes, history
    <2>2. WriteInv(t)'
      BY <2>1, <1>0 DEF WriteInv, Approved, AgentStates
    <2>3. GateInv(t)'
      BY <2>1, <1>0 DEF WriteInv, GateInv, AgentStates
    <2>4. RecordInv(t)'
      BY <2>1 DEF RecordInv
    <2>5. EndInv(t)'
      BY <2>1 DEF RecordInv, EndInv, AuditRecord, DecisionIsCurrent
    <2> QED
      BY <2>2, <2>3, <2>4, <2>5
  <1>12. ASSUME raises(t)
        PROVE  RunInv(t)'
    <2>1. /\ node[t] \in MayRaise /\ node'[t] = "raised" /\ state' = state
          /\ UNCHANGED <<audit, proposals, answers, restarts>>
      BY <1>12 DEF raises, TypeOK, history
    <2>2. WriteInv(t)'
      BY <2>1, <1>0 DEF WriteInv, Approved, AgentStates
    <2>3. GateInv(t)'
      BY <2>1, <1>0 DEF WriteInv, GateInv, AgentStates
    <2>4. RecordInv(t)'
      BY <2>1 DEF RecordInv, MayRaise
    <2>5. EndInv(t)'
      BY <2>1 DEF EndInv
    <2> QED
      BY <2>2, <2>3, <2>4, <2>5
  <1> QED
    BY <1>1, <1>2, <1>3, <1>4, <1>5, <1>6, <1>7, <1>8, <1>9, <1>10, <1>11, <1>12
    DEF Step

\* IInv is an invariant of the graph.
LEMMA Inductive == Spec => []IInv
  <1>1. Init => IInv
    <2> SUFFICES ASSUME Init PROVE IInv
      OBVIOUS
    <2>1. TypeOK
      BY DEF Init, TypeOK, EmptyState, AgentStates, NodeNames, Outcomes, FixActions
    <2>2. ASSUME NEW t \in Threads PROVE RunInv(t)
      BY <2>2 DEF Init, RunInv, WriteInv, GateInv, RecordInv, EndInv, EmptyState,
                  Planning, PastGate, Gated
    <2> QED
      BY <2>1, <2>2 DEF IInv
  <1>2. IInv /\ TypeOK' /\ [Next]_vars => IInv'
    <2> SUFFICES ASSUME IInv, TypeOK', [Next]_vars, NEW u \in Threads
                 PROVE  RunInv(u)'
      BY DEF IInv
    <2>1. TypeOK /\ RunInv(u) /\ now \in Nat /\ now' \in Nat
      BY DEF IInv, TypeOK
    <2>2. ASSUME NEW t \in Threads,
                 \/ \E ns \in Namespaces : invoke(t, ns)
                 \/ \E approve \in BOOLEAN : resume(t, approve)
                 \/ Step(t)
          PROVE  RunInv(u)'
      <3>1. CASE t = u
        BY <2>1, <2>2, <3>1, RunKeeps
      <3>2. CASE t # u
        BY <2>1, <2>2, <3>2, OneRunSteps, FrameKeeps
      <3> QED
        BY <3>1, <3>2
    <2>3. CASE Tick \/ UNCHANGED vars
      BY <2>1, <2>3, FrameKeeps DEF Tick, vars, history
    <2> QED
      BY <2>2, <2>3 DEF Next
  <1> QED
    BY <1>1, <1>2, TypeCorrect, PTL DEF Spec

-----------------------------------------------------------------------------
(* The safety invariants.                                                  *)

\* Spec => []RestartsApproved: agent/graph.py deletes a pod only on a human's
\* approval of the proposal in hand, given before that proposal expired.
THEOREM RestartsAreApproved == Spec => []RestartsApproved
  <1>1. IInv => RestartsApproved
    BY DEF IInv, RunInv, WriteInv, Approved, RestartsApproved
  <1> QED
    BY <1>1, Inductive, PTL

\* Spec => []NoRetry: one run deletes at most one pod and never proposes again
\* after it has, which is SPEC.md:138-139's "never retry".
THEOREM NeverRetries == Spec => []NoRetry
  <1>1. IInv => NoRetry
    <2> SUFFICES ASSUME IInv, NEW t \in Threads
                 PROVE  /\ Len(restarts[t]) <= 1
                        /\ restarts[t] # <<>> => restarts[t][1].proposal = proposals[t]
      BY DEF NoRetry
    <2>1. CASE restarts[t] = <<>>
      BY <2>1
    <2>2. CASE restarts[t] # <<>>
      <3>1. WriteInv(t)
        BY DEF IInv, RunInv
      <3>2. Len(restarts[t]) = 1 /\ restarts[t][1].proposal = proposals[t]
        BY <2>2, <3>1 DEF WriteInv
      <3> QED
        BY <3>2
    <2> QED
      BY <2>1, <2>2
  <1> QED
    BY <1>1, Inductive, PTL

\* Spec => []RestartsInScope: both namespace lists stand before the deletion.
THEOREM RestartsStayInScope == Spec => []RestartsInScope
  <1>1. IInv => RestartsInScope
    BY DEF IInv, RunInv, WriteInv, RestartsInScope
  <1> QED
    BY <1>1, Inductive, PTL

\* Spec => []OutcomeTruthful: what a finished run recorded claims an executed and
\* verified fix exactly when a pod was deleted.
THEOREM OutcomesAreTruthful == Spec => []OutcomeTruthful
  <1>1. IInv => OutcomeTruthful
    BY DEF IInv, RunInv, EndInv, OutcomeTruthful
  <1> QED
    BY <1>1, Inductive, PTL

\* Spec => []AuditMatchesProposal: what the record shows is the last
\* investigation and the answer to its own proposal.
THEOREM AuditsMatchProposals == Spec => []AuditMatchesProposal
  <1>1. IInv => AuditMatchesProposal
    <2> SUFFICES ASSUME IInv, NEW t \in Threads, NEW i \in 1..Len(audit[t])
                 PROVE  /\ audit[t][i].trajectory = RequiredSteps \o PlanSteps
                        /\ audit[t][i].human_decision # "none" =>
                             \E a \in answers[t] :
                               /\ a.proposal = proposals[t]
                               /\ a.approve = (audit[t][i].human_decision = "approved")
      BY DEF AuditMatchesProposal
    <2>1. node[t] = "end" /\ Len(audit[t]) = 1
      BY DEF IInv, RunInv, RecordInv, EndInv
    <2>2. i = 1
      BY <2>1
    <2> QED
      BY <2>1, <2>2 DEF IInv, RunInv, EndInv
  <1> QED
    BY <1>1, Inductive, PTL

-----------------------------------------------------------------------------
(* The graph implements the approval gate.                                 *)

OwnStep(t) == \/ \E ns \in Namespaces : invoke(t, ns)
              \/ \E approve \in BOOLEAN : resume(t, approve)
              \/ Step(t)

\* A step of run t moves the phase of t alone.
LEMMA PhaseMoves ==
    ASSUME TypeOK, NEW t \in Threads, OwnStep(t), NEW from, PhaseOf(t) \in from
    PROVE  Gate!Move(t, from, PhaseOf(t)')
  <1>1. \A u \in Threads : u # t => PhaseOf(u)' = PhaseOf(u)
    BY OneRunSteps DEF OwnStep, PhaseOf
  <1> QED
    BY <1>1 DEF Gate!Move

\* What each action is to the gate; a stutter where the phase stays.
LEMMA StepMaps ==
    ASSUME IInv, NEW t \in Threads, OwnStep(t)
    PROVE  [Gate!Next]_(Gate!vars)
  <1>0. /\ TypeOK /\ RunInv(t)
        /\ state[t] \in AgentStates /\ node[t] \in NodeNames
    BY DEF IInv, TypeOK
  <1>a. ASSUME NEW from, NEW to, PhaseOf(t) \in from, PhaseOf(t)' = to,
               UNCHANGED restarts
        PROVE  Gate!Quietly(t, from, to)
    BY <1>0, <1>a, PhaseMoves DEF Gate!Quietly
  <1>b. ASSUME PhaseOf(t)' = PhaseOf(t), UNCHANGED restarts
        PROVE  UNCHANGED Gate!vars
    <2>1. \A u \in Threads : u # t => PhaseOf(u)' = PhaseOf(u)
      BY <1>0, OneRunSteps DEF OwnStep, PhaseOf
    <2> QED
      BY <1>b, <2>1 DEF Gate!vars
  <1> USE DEF Gate!Next
  <1>1. ASSUME NEW ns \in Namespaces, invoke(t, ns)
        PROVE  Gate!Trigger(t)
    <2>1. PhaseOf(t) = "idle" /\ PhaseOf(t)' = "planning" /\ UNCHANGED restarts
      BY <1>0, <1>1 DEF invoke, At, Return, PhaseOf, TypeOK, history
    <2> QED
      BY <1>a, <2>1 DEF Gate!Trigger
  <1>2. ASSUME observer(t)
        PROVE  UNCHANGED Gate!vars
    BY <1>0, <1>2, <1>b DEF observer, At, Return, PhaseOf, TypeOK, history
  <1>3. ASSUME NEW fix \in FixActions, diagnostician(t, fix)
        PROVE  UNCHANGED Gate!vars
    BY <1>0, <1>3, <1>b DEF diagnostician, At, Return, route_proposal, PhaseOf, TypeOK
  <1>4. ASSUME close_draft(t)
        PROVE  UNCHANGED Gate!vars
    BY <1>0, <1>4, <1>b DEF close_draft, At, Return, PhaseOf, TypeOK, AgentStates,
                            history
  <1>5. ASSUME gate(t)
        PROVE  Gate!Propose(t)
    <2>1. PhaseOf(t) = "planning" /\ PhaseOf(t)' = "awaiting" /\ UNCHANGED restarts
      BY <1>0, <1>5 DEF gate, At, PhaseOf, TypeOK, history
    <2> QED
      BY <1>a, <2>1 DEF Gate!Propose
  <1>6. ASSUME NEW approve \in BOOLEAN, resume(t, approve)
        PROVE  Gate!Approve(t) \/ Gate!Refuse(t)
    <2>1. /\ PhaseOf(t) = "awaiting"
          /\ PhaseOf(t)' = IF approve THEN "approved" ELSE "refused"
          /\ UNCHANGED restarts
      BY <1>0, <1>6 DEF resume, At, Return, PhaseOf, TypeOK, AgentStates
    <2> QED
      BY <1>a, <2>1 DEF Gate!Approve, Gate!Refuse
  <1>7. ASSUME act(t)
        PROVE  UNCHANGED Gate!vars
    <2>1. node[t] = "act" /\ UNCHANGED restarts
      BY <1>7 DEF act, At, history
    <2>2. ASSUME NEW outcome \in {"denied", "expired"},
                 ActReturns(t, [state[t] EXCEPT !.outcome = outcome])
          PROVE  node'[t] = "finalize" /\ state'[t].outcome = outcome
      BY <1>0, <2>2, ActReturnsTo DEF route_act, AgentStates
    <2>3. PhaseOf(t)' = PhaseOf(t)
      BY <1>0, <1>7, <2>1, <2>2 DEF act, PhaseOf, denied, TypeOK
    <2> QED
      BY <1>b, <2>1, <2>3
  <1>8. ASSUME NEW holds \in BOOLEAN, act_check(t, holds)
        PROVE  Gate!Discard(t) \/ UNCHANGED Gate!vars
    <2>1. node[t] = "act_check" /\ PhaseOf(t) = "approved" /\ UNCHANGED restarts
      BY <1>8 DEF act_check, At, PhaseOf, history
    <2>2. ASSUME ActReturns(t, [state[t] EXCEPT !.outcome = "stale"])
          PROVE  PhaseOf(t)' = "planning"
      BY <1>0, <2>2, ActReturnsTo DEF route_act, AgentStates, PhaseOf
    <2>3. ASSUME ActReturns(t, [state[t] EXCEPT !.outcome = "error",
                                                !.execution = "failed"])
          PROVE  PhaseOf(t)' = "approved"
      <3>1. node'[t] = "finalize" /\ state'[t].outcome = "error"
        BY <1>0, <2>3, ErrorReturnsTo
      <3> QED
        BY <3>1 DEF PhaseOf
    <2>4. ASSUME node' = [node EXCEPT ![t] = "act_restart"]
          PROVE  PhaseOf(t)' = "approved"
      BY <1>0, <2>4 DEF TypeOK, PhaseOf
    <2> QED
      BY <1>8, <1>a, <1>b, <2>1, <2>2, <2>3, <2>4 DEF act_check, Gate!Discard
  <1>9. ASSUME act_restart(t)
        PROVE  Gate!Restart(t) \/ UNCHANGED Gate!vars
    <2>1. node[t] = "act_restart" /\ PhaseOf(t) = "approved"
      BY <1>9 DEF act_restart, At, PhaseOf
    <2>2. ASSUME ActReturns(t, [state[t] EXCEPT !.outcome = "error",
                                                !.execution = "failed"])
          PROVE  PhaseOf(t)' = "approved"
      <3>1. node'[t] = "finalize" /\ state'[t].outcome = "error"
        BY <1>0, <2>2, ErrorReturnsTo
      <3> QED
        BY <3>1 DEF PhaseOf
    <2>3. ASSUME NEW r, restarts' = [restarts EXCEPT ![t] = Append(@, r)],
                 \/ ActReturns(t, [state[t] EXCEPT !.execution = "executed"])
                 \/ Return(t, "raised", state[t])
          PROVE  Gate!Restart(t)
      <3>a. [u \in Threads |-> Len(restarts[u])]' =
              [[u \in Threads |-> Len(restarts[u])] EXCEPT ![t] = @ + 1]
        <4>1. restarts[t] \in Seq(Restarts) /\ restarts \in [Threads -> Seq(Restarts)]
          BY <1>0 DEF TypeOK
        <4>2. restarts'[t] = Append(restarts[t], r)
          BY <2>3, <4>1
        <4>3. Len(restarts'[t]) = Len(restarts[t]) + 1
          BY <4>1, <4>2
        <4>4. \A u \in Threads : u # t => restarts'[u] = restarts[u]
          BY <2>3, <4>1
        <4> QED
          BY <4>3, <4>4
      <3>1. state[t].outcome = "none"
        BY <1>0, <2>1 DEF RunInv, RecordInv, PastGate
      <3>2. CASE ActReturns(t, [state[t] EXCEPT !.execution = "executed"])
        <4>1. PhaseOf(t)' = "restarted"
          BY <1>0, <3>1, <3>2, ActReturnsTo DEF route_act, AgentStates, PhaseOf
        <4>2. Gate!Move(t, {"approved"}, "restarted")
          BY <1>0, <2>1, <4>1, PhaseMoves
        <4> QED
          BY <3>a, <4>2 DEF Gate!Restart
      <3>3. CASE Return(t, "raised", state[t])
        <4>1. PhaseOf(t)' = "failed"
          BY <1>0, <3>3 DEF Return, TypeOK, PhaseOf
        <4>2. Gate!Move(t, {"approved"}, "failed")
          BY <1>0, <2>1, <4>1, PhaseMoves
        <4> QED
          BY <3>a, <4>2 DEF Gate!Restart
      <3> QED
        BY <2>3, <3>2, <3>3
    <2> QED
      BY <1>9, <1>b, <2>1, <2>2, <2>3 DEF act_restart
  <1>10. ASSUME NEW persists \in BOOLEAN, verify(t, persists)
         PROVE  UNCHANGED Gate!vars
    BY <1>0, <1>10, <1>b DEF verify, At, Return, PhaseOf, TypeOK, AgentStates, history
  <1>11. ASSUME finalize(t)
         PROVE  Gate!Close(t)
    <2>1. /\ PhaseOf(t) \in {"planning", "refused", "approved", "restarted"}
          /\ PhaseOf(t)' = "closed" /\ UNCHANGED restarts
      BY <1>0, <1>11 DEF finalize, At, Return, PhaseOf, TypeOK, history
    <2> QED
      BY <1>a, <2>1 DEF Gate!Close
  <1>12. ASSUME raises(t)
         PROVE  Gate!Fail(t)
    <2>1. /\ PhaseOf(t) \in {"planning", "refused", "approved", "restarted"}
          /\ PhaseOf(t)' = "failed" /\ UNCHANGED restarts
      BY <1>0, <1>12 DEF raises, MayRaise, PhaseOf, TypeOK, history
    <2> QED
      BY <1>a, <2>1 DEF Gate!Fail
  <1> QED
    BY <1>1, <1>2, <1>3, <1>4, <1>5, <1>6, <1>7, <1>8, <1>9, <1>10, <1>11, <1>12
    DEF OwnStep, Step

\* Spec => ImplementsGate: every behaviour of the graph is one of ApprovalGate.
THEOREM GraphImplementsGate == Spec => ImplementsGate
  <1>1. Init => Gate!Init
    BY DEF Init, Gate!Init, PhaseOf
  <1>2. IInv /\ [Next]_vars => [Gate!Next]_(Gate!vars)
    <2> SUFFICES ASSUME IInv, [Next]_vars PROVE [Gate!Next]_(Gate!vars)
      OBVIOUS
    <2>1. ASSUME NEW t \in Threads, OwnStep(t) PROVE [Gate!Next]_(Gate!vars)
      BY <2>1, StepMaps
    <2>2. CASE Tick \/ UNCHANGED vars
      BY <2>2 DEF Tick, vars, history, Gate!vars, PhaseOf
    <2> QED
      BY <2>1, <2>2 DEF Next, OwnStep
  <1> QED
    BY <1>1, <1>2, Inductive, PTL DEF Spec, Gate!Spec, ImplementsGate
=============================================================================
