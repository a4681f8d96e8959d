-------------------------- MODULE GatedAgentProofs --------------------------
(***************************************************************************)
(* Proofs about GatedAgent: the process is a graph and a registry at once, *)
(* so what AgentGraphProofs and RuntimeProofs prove of each holds of it;   *)
(* and a joint invariant says how the two go together.                     *)
(***************************************************************************)
EXTENDS GatedAgent, AgentGraphProofs

\* The theorems about the registry, a trigger being known by its namespace.
RP == INSTANCE RuntimeProofs WITH Keys <- Namespaces

-----------------------------------------------------------------------------
(* The process is a registry.                                              *)

\* AgentSpec => R!Spec: every step of the process is one of the registry or leaves
\* the registry alone.
THEOREM AgentIsRegistry == AgentSpec => R!Spec
  <1>1. AgentInit => R!Init
    BY DEF AgentInit
  <1>2. [AgentNext]_agent => [R!Next]_(R!vars)
    <2> SUFFICES ASSUME [AgentNext]_agent PROVE [R!Next]_(R!vars)
      OBVIOUS
    <2>1. ASSUME NEW t \in Threads, NEW namespace \in Namespaces, StartRun(t, namespace)
          PROVE  R!Next
      BY <2>1 DEF StartRun, R!Next
    <2>2. ASSUME NEW t \in Threads, NEW w \in workers[t], Enter(t, w) \/ Back(t, w)
          PROVE  R!Next
      BY <2>2 DEF Enter, Back, R!Next, R!Invoke
    <2>3. ASSUME NEW t \in Threads, NEW w \in workers[t], NEW arrives \in BOOLEAN,
                 Notify(t, w, arrives)
          PROVE  R!Next
      BY <2>3 DEF Notify, R!Next
    <2>4. ASSUME NEW c \in Clients, NEW t \in Threads, NEW approve \in BOOLEAN,
                 NEW answered \in BOOLEAN, Decide(c, t, approve, answered)
          PROVE  R!Next
      BY <2>4 DEF Decide, R!Next
    <2>5. ASSUME NEW c \in Clients,
                 List(c) \/ \E t \in Threads : DecideGone(c, t)
          PROVE  R!Next
      BY <2>5 DEF List, DecideGone, R!Next
    <2>6. CASE Crash
      BY <2>6 DEF Crash, R!Next
    <2>7. ASSUME UNCHANGED registry
          PROVE  UNCHANGED R!vars
      BY <2>7 DEF registry, R!vars
    <2>8. ASSUME NEW t \in Threads, NEW w \in workers[t], Work(t, w)
          PROVE  UNCHANGED R!vars
      BY <2>7, <2>8 DEF Work
    <2>9. CASE Time \/ UNCHANGED agent
      BY <2>7, <2>9 DEF Time, agent
    <2> QED
      BY <2>1, <2>2, <2>3, <2>4, <2>5, <2>6, <2>8, <2>9 DEF AgentNext, Run
  <1> QED
    BY <1>1, <1>2, PTL DEF AgentSpec, R!Spec

\* The theorems about the registry are about the registry of the process.
LEMMA SameRegistry == R!Spec => RP!Spec
  <1>1. R!Init => RP!Init
    BY DEF R!Init, RP!Init, R!Absent, RP!Absent
  <1>2. R!Next => RP!Next
    BY DEF R!Next, RP!Next, R!start_run, RP!start_run, R!Spawn, RP!Spawn, R!NoEvent,
           RP!NoEvent, R!Event, RP!Event, R!Invoke, RP!Invoke, R!enters, RP!enters,
           R!Moves, RP!Moves, R!returns_interrupt, RP!returns_interrupt,
           R!returns_result, RP!returns_result, R!raises, RP!raises, R!notifies,
           RP!notifies, R!list_proposals, RP!list_proposals, R!shown, RP!shown,
           R!decide, RP!decide, R!resume, RP!resume, R!resumable, RP!resumable,
           R!Answered, RP!Answered, R!decide_gone, RP!decide_gone, R!crash, RP!crash,
           R!Absent, RP!Absent
  <1>3. [R!Next]_(R!vars) => [RP!Next]_(RP!vars)
    BY <1>2 DEF R!vars, RP!vars
  <1> QED
    BY <1>1, <1>3, PTL DEF R!Spec, RP!Spec

\* What the registry keeps, whatever the graph does.
RegistryInv(t) ==
    /\ runs[t] \in R!Runs /\ workers[t] \subseteq R!Workers
    /\ \A v, w \in workers[t] : v.at # "notifying" /\ w.at # "notifying" => v = w
    /\ \A w \in workers[t] : w.at # "notifying" => runs[t].status = "running"
    /\ runs[t].status = "running" => runs[t].key \in Namespaces
    /\ runs[t].status = "paused" => runs[t].proposal = interrupts[t]
    /\ spawned[t] = 0 => /\ runs[t].status = "absent" /\ workers[t] = {}
                         /\ interrupts[t] = 0 /\ accepted[t] = {}

RegistryKept == R!TypeOK /\ \A t \in Threads : RegistryInv(t)

LEMMA RegistryKeeps == AgentSpec => []RegistryKept
  <1>1. RP!IInv /\ RP!KeysKnown => RegistryKept
    <2> SUFFICES ASSUME RP!IInv, RP!KeysKnown PROVE RegistryKept
      OBVIOUS
    <2>1. R!TypeOK
      BY DEF RP!IInv, RP!TypeOK, RP!Runs, RP!Workers, RP!Events, RP!Decisions,
             R!TypeOK, R!Runs, R!Workers, R!Events, R!Decisions
    <2>2. ASSUME NEW t \in Threads PROVE RegistryInv(t)
      <3>1. RP!RunInv(t)
        BY DEF RP!IInv
      <3>2. RP!Absent.status = "absent"
        BY DEF RP!Absent
      <3>3. runs[t] \in R!Runs /\ workers[t] \subseteq R!Workers
        BY <2>1 DEF R!TypeOK
      <3>4. /\ \A v, w \in workers[t] : v.at # "notifying" /\ w.at # "notifying" => v = w
            /\ \A w \in workers[t] : w.at # "notifying" => runs[t].status = "running"
        BY <3>1 DEF RP!RunInv, RP!WorkerInv, RP!Busy
      <3>5. runs[t].status = "running" => runs[t].key \in Namespaces
        BY <3>2 DEF RP!KeysKnown
      <3>6. runs[t].status = "paused" => runs[t].proposal = interrupts[t]
        BY <3>1 DEF RP!RunInv, RP!DecisionInv
      <3>7. spawned[t] = 0 => /\ runs[t].status = "absent" /\ workers[t] = {}
                              /\ interrupts[t] = 0 /\ accepted[t] = {}
        BY <3>1, <3>2 DEF RP!RunInv, RP!FreshInv
      <3> QED
        BY <3>3, <3>4, <3>5, <3>6, <3>7 DEF RegistryInv
    <2> QED
      BY <2>1, <2>2 DEF RegistryKept
  <1> QED
    BY <1>1, AgentIsRegistry, SameRegistry, RP!Inductive, RP!KeysAreKnown, PTL

-----------------------------------------------------------------------------
(* The process is a graph.                                                 *)

\* AgentSpec => Spec: every step of the process is one of the graph or leaves the
\* graph alone, so every theorem of AgentGraphProofs holds of the process.
THEOREM AgentIsGraph == AgentSpec => Spec
  <1>1. AgentInit => Init
    BY DEF AgentInit
  <1>2. RegistryKept /\ [AgentNext]_agent => [Next]_vars
    <2> SUFFICES ASSUME RegistryKept, [AgentNext]_agent PROVE [Next]_vars
      OBVIOUS
    <2>1. ASSUME NEW t \in Threads, NEW w \in workers[t], Enter(t, w)
          PROVE  Next
      <3>1. runs[t].key \in Namespaces
        BY <2>1 DEF RegistryKept, RegistryInv, Enter, R!enters
      <3>2. TRUE \in BOOLEAN /\ FALSE \in BOOLEAN
        OBVIOUS
      <3> QED
        BY <2>1, <3>1, <3>2 DEF Enter, Next
    <2>2. ASSUME NEW t \in Threads, NEW w \in workers[t], Work(t, w)
          PROVE  Next
      BY <2>2 DEF Work, Next
    <2>3. CASE Time
      BY <2>3 DEF Time, Next
    <2>4. ASSUME \/ \E t \in Threads, namespace \in Namespaces : StartRun(t, namespace)
                 \/ \E t \in Threads : \E w \in workers[t] : Back(t, w)
                 \/ \E t \in Threads, arrives \in BOOLEAN : \E w \in workers[t] :
                      Notify(t, w, arrives)
                 \/ \E c \in Clients : List(c)
                 \/ \E c \in Clients, t \in Threads, approve, answered \in BOOLEAN :
                      Decide(c, t, approve, answered)
                 \/ \E c \in Clients, t \in Threads : DecideGone(c, t)
                 \/ Crash
          PROVE  UNCHANGED vars
      BY <2>4 DEF StartRun, Back, Notify, List, Decide, DecideGone, Crash
    <2>5. CASE UNCHANGED agent
      BY <2>5 DEF agent
    <2> QED
      BY <2>1, <2>2, <2>3, <2>4, <2>5 DEF AgentNext, Run
  <1> QED
    BY <1>1, <1>2, RegistryKeeps, PTL DEF AgentSpec, Spec

-----------------------------------------------------------------------------
(* How the two go together.                                                *)

\* Between a decision and the next proposal.
Between == {"observer", "diagnostician", "act", "act_check", "act_restart", "verify"}

\* A decision about proposal n of t, accepted from a client.
Accepted(t, n, approve) ==
    \E d \in accepted[t] : d.applied = n /\ d.approve = approve

\* A thread on its way to the graph brings what the graph waits for: the trigger,
\* or the decision about the proposal in hand.
HandOver(t, w) ==
    /\ w.payload = "start" => node[t] = "start" /\ proposals[t] = interrupts[t]
    /\ w.payload # "start" =>
         /\ node[t] = "interrupt" /\ proposals[t] = interrupts[t]
         /\ Accepted(t, proposals[t], w.payload = "approve")

\* In the graph, the proposal in hand is the next to be returned from the gate on.
Inside(t) ==
    /\ node[t] # "start"
    /\ node[t] \in Between => proposals[t] = interrupts[t]
    /\ node[t] \in {"gate", "interrupt"} => proposals[t] = interrupts[t] + 1

JoinInv(t) ==
    /\ spawned[t] = 0 => node[t] = "start" /\ proposals[t] = 0
    /\ \A w \in workers[t] : /\ w.at = "spawned" => HandOver(t, w)
                             /\ w.at = "invoking" => Inside(t)
    /\ runs[t].status = "paused" => node[t] = "interrupt" /\ proposals[t] = interrupts[t]
    /\ runs[t].status = "done" => node[t] = "end"
    /\ runs[t].status = "failed" => node[t] = "raised"
    /\ \A a \in answers[t] : Accepted(t, a.proposal, a.approve)

\* A run that a step of the process does not touch keeps its invariant.
LEMMA JoinFrame ==
    ASSUME NEW u \in Threads, JoinInv(u),
           runs'[u] = runs[u], workers'[u] \subseteq workers[u],
           spawned'[u] = spawned[u], interrupts'[u] = interrupts[u],
           accepted'[u] = accepted[u], node'[u] = node[u],
           proposals'[u] = proposals[u], answers'[u] = answers[u]
    PROVE  JoinInv(u)'
  BY DEF JoinInv, HandOver, Inside, Accepted

\* Where a step inside the graph takes a run.
LEMMA StepEffect ==
    ASSUME TypeOK, NEW t \in Threads, Step(t)
    PROVE  /\ answers'[t] = answers[t]
           /\ \/ /\ node[t] = "diagnostician" /\ node'[t] \in {"gate", "close_draft"}
                 /\ proposals'[t] = proposals[t] + 1
              \/ /\ node[t] = "gate" /\ node'[t] = "interrupt"
                 /\ proposals'[t] = proposals[t]
              \/ /\ node[t] \in Between /\ node'[t] \in Between
                 /\ proposals'[t] = proposals[t]
              \/ /\ node'[t] \in {"finalize", "end", "raised"}
                 /\ proposals'[t] = proposals[t]
  <1> USE DEF Between
  <1>1. CASE observer(t)
    BY <1>1 DEF observer, At, Return, TypeOK, history
  <1>2. CASE \E fix \in FixActions : diagnostician(t, fix)
    BY <1>2 DEF diagnostician, route_proposal, At, Return, TypeOK
  <1>3. CASE close_draft(t) \/ gate(t) \/ finalize(t) \/ raises(t)
    BY <1>3 DEF close_draft, gate, finalize, raises, At, Return, TypeOK, history
  <1>4. CASE \E persists \in BOOLEAN : verify(t, persists)
    BY <1>4 DEF verify, At, Return, TypeOK, history
  <1>5. ASSUME NEW s, ActReturns(t, s)
        PROVE  node'[t] \in Between \cup {"finalize"}
    BY <1>5, ActReturnsTo DEF route_act
  <1>6. CASE act(t)
    BY <1>5, <1>6 DEF act, At, TypeOK, history
  <1>7. CASE \E holds \in BOOLEAN : act_check(t, holds)
    BY <1>5, <1>7 DEF act_check, At, TypeOK, history
  <1>8. CASE act_restart(t)
    BY <1>5, <1>8 DEF act_restart, At, Return, TypeOK
  <1> QED
    BY <1>1, <1>2, <1>3, <1>4, <1>6, <1>7, <1>8 DEF Step

\* The thread that moves on in the registry, under its old payload.
LEMMA WorkerMoves ==
    ASSUME R!TypeOK, NEW t \in Threads, NEW w \in workers[t], NEW place, NEW event,
           R!Moves(t, w, place, event)
    PROVE  /\ \E v : /\ v.at = place
                     /\ workers'[t] = (workers[t] \ {w}) \cup {v}
           /\ \A u \in Threads \ {t} : workers'[u] = workers[u]
  <1> DEFINE v == [w EXCEPT !.at = place, !.event = event]
  <1>1. w \in R!Workers
    BY DEF R!TypeOK
  <1>2. v.at = place
    BY <1>1 DEF R!Workers
  <1>3. /\ workers'[t] = (workers[t] \ {w}) \cup {v}
        /\ \A u \in Threads \ {t} : workers'[u] = workers[u]
    BY DEF R!Moves, R!TypeOK
  <1> HIDE DEF v
  <1> QED
    BY <1>2, <1>3

\* The trigger, or the decision, is handed to the graph.
LEMMA EnterJoins ==
    ASSUME TypeOK, RegistryKept, NEW t \in Threads, JoinInv(t), NEW w \in workers[t],
           Enter(t, w)
    PROVE  JoinInv(t)'
  <1>1. /\ R!TypeOK /\ RegistryInv(t) /\ w.at = "spawned" /\ HandOver(t, w)
        /\ runs[t].status = "running"
    BY DEF RegistryKept, RegistryInv, JoinInv, Enter, R!enters
  <1>2. PICK v : v.at = "invoking" /\ workers'[t] = (workers[t] \ {w}) \cup {v}
    BY <1>1, WorkerMoves DEF Enter, R!enters
  <1>3. /\ runs' = runs /\ spawned' = spawned /\ interrupts' = interrupts
        /\ accepted' = accepted
    BY DEF Enter, R!enters
  <1>4. \A x \in workers'[t] : x = v \/ (x \in workers[t] /\ x.at = "notifying")
    BY <1>1, <1>2 DEF RegistryInv
  <1>5. node'[t] \in {"observer", "act"} /\ proposals'[t] = proposals[t]
    BY DEF Enter, invoke, resume, Return, TypeOK, history
  <1>6. Inside(t)'
    BY <1>1, <1>3, <1>5 DEF Inside, HandOver, Between
  <1>7. \A a \in answers'[t] : Accepted(t, a.proposal, a.approve)
    <2>1. CASE w.payload = "start" /\ invoke(t, runs[t].key)
      BY <2>1 DEF invoke, history, JoinInv
    <2>2. ASSUME NEW approve \in BOOLEAN, w.payload # "start", resume(t, approve),
                 approve = (w.payload = "approve")
          PROVE  \A a \in answers'[t] : Accepted(t, a.proposal, a.approve)
      <3> DEFINE answer == [proposal |-> proposals[t], approve |-> approve, at |-> now]
      <3>1. answers'[t] = answers[t] \cup {answer}
        BY <2>2 DEF resume, TypeOK
      <3>2. answer.proposal = proposals[t] /\ answer.approve = approve
        OBVIOUS
      <3>3. Accepted(t, proposals[t], approve)
        BY <1>1, <2>2 DEF HandOver
      <3> HIDE DEF answer
      <3> QED
        BY <3>1, <3>2, <3>3 DEF JoinInv
    <2> QED
      BY <2>1, <2>2 DEF Enter
  <1>8. spawned[t] # 0
    BY <1>1 DEF RegistryInv
  <1> QED
    BY <1>1, <1>2, <1>3, <1>4, <1>6, <1>7, <1>8 DEF JoinInv, Accepted

\* A step inside the graph.
LEMMA WorkJoins ==
    ASSUME TypeOK, RegistryKept, NEW t \in Threads, JoinInv(t), NEW w \in workers[t],
           Work(t, w)
    PROVE  JoinInv(t)'
  <1>1. /\ RegistryInv(t) /\ w.at = "invoking" /\ Inside(t) /\ Step(t)
        /\ runs[t].status = "running" /\ spawned[t] # 0
        /\ proposals[t] \in Nat /\ interrupts[t] \in Nat
    BY DEF RegistryKept, RegistryInv, JoinInv, Work, TypeOK, R!TypeOK
  <1>2. /\ runs' = runs /\ workers' = workers /\ spawned' = spawned
        /\ interrupts' = interrupts /\ accepted' = accepted
    BY DEF Work, registry
  <1>3. Inside(t)'
    BY <1>1, <1>2, StepEffect DEF Inside, Between
  <1>4. \A x \in workers[t] : x.at \in {"spawned", "invoking"} => x = w
    BY <1>1 DEF RegistryInv
  <1>5. answers'[t] = answers[t]
    BY <1>1, StepEffect
  <1> QED
    BY <1>1, <1>2, <1>3, <1>4, <1>5 DEF JoinInv, Accepted

\* graph.invoke comes back, and the registry files what it returned.
LEMMA BackJoins ==
    ASSUME TypeOK, RegistryKept, NEW t \in Threads, JoinInv(t), NEW w \in workers[t],
           Back(t, w)
    PROVE  JoinInv(t)'
  <1>1. /\ R!TypeOK /\ RegistryInv(t) /\ w.at = "invoking" /\ Inside(t)
        /\ spawned[t] # 0 /\ interrupts[t] \in Nat
    BY DEF RegistryKept, RegistryInv, JoinInv, Back, R!returns_interrupt,
           R!returns_result, R!raises, R!TypeOK
  <1>2. /\ node' = node /\ proposals' = proposals /\ answers' = answers
        /\ spawned' = spawned /\ accepted' = accepted
    BY DEF Back, vars, history, R!returns_interrupt, R!returns_result, R!raises
  <1>3. PICK v : v.at = "notifying" /\ workers'[t] = (workers[t] \ {w}) \cup {v}
    BY <1>1, WorkerMoves DEF Back, R!returns_interrupt, R!returns_result, R!raises
  <1>4. \A x \in workers'[t] : x.at \notin {"spawned", "invoking"}
    BY <1>1, <1>3 DEF RegistryInv
  <1>5. \/ /\ node[t] = "interrupt" /\ runs'[t].status = "paused"
           /\ interrupts'[t] = interrupts[t] + 1
        \/ node[t] = "end" /\ runs'[t].status = "done"
        \/ node[t] = "raised" /\ runs'[t].status = "failed"
    BY <1>1 DEF Back, At, R!returns_interrupt, R!returns_result, R!raises, R!TypeOK,
                R!Runs
  <1>6. runs'[t].status = "paused" =>
          node'[t] = "interrupt" /\ proposals'[t] = interrupts'[t]
    BY <1>1, <1>2, <1>5 DEF Inside
  <1> QED
    BY <1>1, <1>2, <1>4, <1>5, <1>6 DEF JoinInv, Accepted

\* The registry starts a run: the graph has not seen its thread_id.
LEMMA StartJoins ==
    ASSUME TypeOK, RegistryKept, NEW t \in Threads, JoinInv(t),
           NEW namespace \in Namespaces, StartRun(t, namespace)
    PROVE  JoinInv(t)'
  <1> DEFINE n == [id |-> spawned[t] + 1, payload |-> "start", at |-> "spawned",
                   event |-> R!NoEvent]
  <1>1. /\ R!TypeOK /\ spawned[t] = 0 /\ workers[t] = {} /\ interrupts[t] = 0
        /\ accepted[t] = {} /\ node[t] = "start" /\ proposals[t] = 0
        /\ answers[t] = {}
    BY DEF RegistryKept, RegistryInv, JoinInv, StartRun, R!start_run, Accepted
  <1>2. /\ node' = node /\ proposals' = proposals /\ answers' = answers
        /\ interrupts' = interrupts /\ accepted' = accepted
    BY DEF StartRun, R!start_run, vars, history
  <1>3. /\ workers'[t] = {n} /\ spawned'[t] = 1 /\ runs'[t].status = "running"
    BY <1>1 DEF StartRun, R!start_run, R!Spawn, R!TypeOK
  <1>4. n.payload = "start" /\ n.at = "spawned"
    OBVIOUS
  <1> HIDE DEF n
  <1> QED
    BY <1>1, <1>2, <1>3, <1>4 DEF JoinInv, HandOver

\* A decision is accepted while the graph waits for one.
LEMMA DecideJoins ==
    ASSUME TypeOK, RegistryKept, NEW c \in Clients, NEW t \in Threads, JoinInv(t),
           NEW approve \in BOOLEAN, NEW answered \in BOOLEAN,
           Decide(c, t, approve, answered)
    PROVE  JoinInv(t)'
  <1>1. /\ R!TypeOK /\ RegistryInv(t) /\ runs[t].status = "paused"
        /\ node[t] = "interrupt" /\ proposals[t] = interrupts[t]
        /\ runs[t].proposal = interrupts[t] /\ spawned[t] \in Nat
    BY DEF RegistryKept, RegistryInv, JoinInv, Decide, R!decide, R!resume,
           R!resumable, R!TypeOK
  <1>2. /\ node' = node /\ proposals' = proposals /\ answers' = answers
        /\ interrupts' = interrupts
    BY DEF Decide, R!decide, vars, history
  <1>3. PICK n : /\ n.payload = (IF approve THEN "approve" ELSE "deny") /\ n.at = "spawned"
                 /\ workers'[t] = workers[t] \cup {n}
    <2> DEFINE n == [id |-> spawned[t] + 1, at |-> "spawned", event |-> R!NoEvent,
                     payload |-> IF approve THEN "approve" ELSE "deny"]
    <2>1. workers'[t] = workers[t] \cup {n}
      BY <1>1 DEF Decide, R!decide, R!resume, R!Spawn, R!TypeOK
    <2> QED
      BY <2>1
  <1>4. PICK d : /\ d.applied = interrupts[t] /\ d.approve = approve
                 /\ accepted'[t] = accepted[t] \cup {d}
    <2> DEFINE d == [id |-> spawned[t] + 1, meant |-> seen[c][t],
                     applied |-> runs[t].proposal, approve |-> approve]
    <2>1. accepted'[t] = accepted[t] \cup {d}
      BY <1>1 DEF Decide, R!decide, R!TypeOK
    <2> QED
      BY <1>1, <2>1
  <1>5. \A x \in workers[t] : x.at \notin {"spawned", "invoking"}
    BY <1>1 DEF RegistryInv
  <1>6. spawned'[t] # 0 /\ runs'[t].status = "running"
    BY <1>1 DEF Decide, R!decide, R!resume, R!Spawn, R!TypeOK, R!Runs
  <1>7. HandOver(t, n)'
    <2>1. n.payload # "start" /\ (n.payload = "approve") = approve
      BY <1>3
    <2>2. Accepted(t, proposals[t], approve)'
      BY <1>1, <1>2, <1>4 DEF Accepted
    <2> QED
      BY <1>1, <1>2, <2>1, <2>2 DEF HandOver
  <1>8. \A a \in answers'[t] : Accepted(t, a.proposal, a.approve)'
    BY <1>2, <1>4 DEF JoinInv, Accepted
  <1> QED
    BY <1>3, <1>5, <1>6, <1>7, <1>8 DEF JoinInv

\* A step about one run leaves the others alone, in the registry and in the graph.
LEMMA OthersJoin ==
    ASSUME TypeOK, RegistryKept, NEW t \in Threads, NEW u \in Threads, u # t,
           JoinInv(u),
           \/ \E namespace \in Namespaces : StartRun(t, namespace)
           \/ \E w \in workers[t] : Enter(t, w) \/ Work(t, w) \/ Back(t, w)
           \/ \E c \in Clients, approve, answered \in BOOLEAN :
                Decide(c, t, approve, answered)
    PROVE  JoinInv(u)'
  <1>1. /\ R!TypeOK /\ \A w \in workers[t] : Enter(t, w) => runs[t].key \in Namespaces
    BY DEF RegistryKept, RegistryInv, Enter, R!enters
  <1>2. /\ runs'[u] = runs[u] /\ workers'[u] = workers[u] /\ spawned'[u] = spawned[u]
        /\ interrupts'[u] = interrupts[u] /\ accepted'[u] = accepted[u]
    BY <1>1 DEF R!TypeOK, StartRun, R!start_run, R!Spawn, Enter, R!enters, R!Moves,
                Work, registry, Back, R!returns_interrupt, R!returns_result, R!raises,
                Decide, R!decide, R!resume
  <1>3. /\ node'[u] = node[u] /\ proposals'[u] = proposals[u] /\ answers'[u] = answers[u]
    <2>1. CASE \E w \in workers[t] : Enter(t, w)
      BY <2>1 DEF Enter, invoke, resume, Return, TypeOK, history
    <2>2. CASE Step(t)
      BY <2>2, OneRunSteps
    <2>3. CASE UNCHANGED vars
      BY <2>3 DEF vars, history
    <2> QED
      BY <2>1, <2>2, <2>3 DEF StartRun, Work, Back, Decide
  <1> QED
    BY <1>2, <1>3, JoinFrame

Joined == \A t \in Threads : JoinInv(t)

\* The graph's invariant holds of the process.
LEMMA GraphKeeps == AgentSpec => [](TypeOK /\ IInv)
  BY AgentIsGraph, TypeCorrect, Inductive, PTL

LEMMA JoinKeeps == AgentSpec => []Joined
  <1>1. AgentInit => Joined
    BY DEF AgentInit, Init, R!Init, R!Absent, Joined, JoinInv
  <1>2. TypeOK /\ RegistryKept /\ Joined /\ [AgentNext]_agent => Joined'
    <2> SUFFICES ASSUME TypeOK, RegistryKept, Joined, [AgentNext]_agent,
                        NEW u \in Threads
                 PROVE  JoinInv(u)'
      BY DEF Joined
    <2>0. \A t \in Threads : JoinInv(t)
      BY DEF Joined
    <2>1. ASSUME NEW t \in Threads, NEW namespace \in Namespaces, StartRun(t, namespace)
          PROVE  JoinInv(u)'
      <3>1. JoinInv(t)'
        BY <2>0, <2>1, StartJoins
      <3> QED
        BY <2>0, <2>1, <3>1, OthersJoin
    <2>2. ASSUME NEW t \in Threads, NEW w \in workers[t],
                 Enter(t, w) \/ Work(t, w) \/ Back(t, w)
          PROVE  JoinInv(u)'
      <3>1. JoinInv(t)'
        BY <2>0, <2>2, EnterJoins, WorkJoins, BackJoins
      <3> QED
        BY <2>0, <2>2, <3>1, OthersJoin
    <2>3. ASSUME NEW c \in Clients, NEW t \in Threads, NEW approve \in BOOLEAN,
                 NEW answered \in BOOLEAN, Decide(c, t, approve, answered)
          PROVE  JoinInv(u)'
      <3>1. JoinInv(t)'
        BY <2>0, <2>3, DecideJoins
      <3> QED
        BY <2>0, <2>3, <3>1, OthersJoin
    <2>4. ASSUME NEW t \in Threads, NEW arrives \in BOOLEAN, NEW w \in workers[t],
                 Notify(t, w, arrives)
          PROVE  JoinInv(u)'
      <3>1. workers'[u] \subseteq workers[u]
        BY <2>4 DEF RegistryKept, R!TypeOK, Notify, R!notifies
      <3> QED
        BY <2>0, <2>4, <3>1, JoinFrame DEF Notify, R!notifies, vars, history
    <2>5. CASE Crash
      <3>1. runs'[u].status = "absent" /\ workers'[u] = {}
        BY <2>5 DEF Crash, R!crash, R!Absent
      <3>2. /\ spawned' = spawned /\ accepted' = accepted /\ node' = node
            /\ proposals' = proposals /\ answers' = answers
        BY <2>5 DEF Crash, R!crash, vars, history
      <3> QED
        BY <2>0, <3>1, <3>2 DEF JoinInv, Accepted
    <2>6. CASE \/ \E c \in Clients : List(c)
               \/ \E c \in Clients, t \in Threads : DecideGone(c, t)
               \/ Time \/ UNCHANGED agent
      BY <2>0, <2>6, JoinFrame
      DEF List, R!list_proposals, DecideGone, R!decide_gone, Time, Tick, agent,
          registry, vars, history
    <2> QED
      BY <2>1, <2>2, <2>3, <2>4, <2>5, <2>6 DEF AgentNext, Run
  <1> QED
    BY <1>1, <1>2, GraphKeeps, RegistryKeeps, PTL DEF AgentSpec

-----------------------------------------------------------------------------
(* What the process promises.                                              *)

\* AgentSpec => []RegistryAgrees: what the API shows of a run is where the graph
\* stands, and a decision reaches a graph that waits for it.
THEOREM RegistryAgreesAlways == AgentSpec => []RegistryAgrees
  <1>1. IInv /\ RegistryKept /\ Joined => RegistryAgrees
    <2> SUFFICES ASSUME IInv, RegistryKept, Joined, NEW t \in Threads
                 PROVE  /\ runs[t].status = "paused" =>
                             At(t, "interrupt") /\ runs[t].proposal = proposals[t]
                        /\ runs[t].status = "done" => At(t, "end") /\ Len(audit[t]) = 1
                        /\ runs[t].status = "failed" => At(t, "raised")
                        /\ \A w \in workers[t] : w.at = "spawned" =>
                             node[t] = IF w.payload = "start" THEN "start" ELSE "interrupt"
      BY DEF RegistryAgrees
    <2>1. JoinInv(t) /\ RegistryInv(t)
      BY DEF Joined, RegistryKept
    <2>2. node[t] = "end" => Len(audit[t]) = 1
      BY DEF IInv, RunInv, EndInv
    <2> QED
      BY <2>1, <2>2 DEF JoinInv, RegistryInv, HandOver, At
  <1> QED
    BY <1>1, GraphKeeps, RegistryKeeps, JoinKeeps, PTL

\* AgentSpec => []RestartsDecided: nothing is deleted but on an approval that the
\* decision endpoint accepted while that proposal waited.
THEOREM RestartsAreDecided == AgentSpec => []RestartsDecided
  <1>1. RestartsApproved /\ Joined => RestartsDecided
    <2> SUFFICES ASSUME RestartsApproved, Joined, NEW t \in Threads,
                        NEW i \in 1..Len(restarts[t])
                 PROVE  \E d \in accepted[t] :
                          d.applied = restarts[t][i].proposal /\ d.approve
      BY DEF RestartsDecided
    <2>1. PICK a \in answers[t] : a.proposal = restarts[t][i].proposal /\ a.approve
      BY DEF RestartsApproved
    <2>2. Accepted(t, a.proposal, a.approve)
      BY DEF Joined, JoinInv
    <2> QED
      BY <2>1, <2>2 DEF Accepted
  <1> QED
    BY <1>1, AgentIsGraph, RestartsAreApproved, JoinKeeps, PTL

\* AgentSpec => NothingUnregistered: the graph of a run moves only while the
\* registry has the run as running.
THEOREM NothingMovesUnregistered == AgentSpec => NothingUnregistered
  <1>1. TypeOK /\ RegistryKept /\ [AgentNext]_agent =>
          [\A t \in Threads : node'[t] # node[t] => runs[t].status = "running"]_agent
    <2> SUFFICES ASSUME TypeOK, RegistryKept, AgentNext, NEW u \in Threads,
                        node'[u] # node[u]
                 PROVE  runs[u].status = "running"
      OBVIOUS
    <2>1. ASSUME NEW t \in Threads, NEW w \in workers[t], Enter(t, w)
          PROVE  runs[u].status = "running"
      <3>1. t = u
        BY <2>1 DEF Enter, invoke, resume, Return, TypeOK
      <3> QED
        BY <2>1, <3>1 DEF RegistryKept, RegistryInv, Enter, R!enters
    <2>2. ASSUME NEW t \in Threads, NEW w \in workers[t], Work(t, w)
          PROVE  runs[u].status = "running"
      <3>1. t = u
        BY <2>2, OneRunSteps DEF Work
      <3> QED
        BY <2>2, <3>1 DEF RegistryKept, RegistryInv, Work
    <2>3. ASSUME UNCHANGED node
          PROVE  FALSE
      BY <2>3
    <2> QED
      BY <2>1, <2>2, <2>3
      DEF AgentNext, Run, StartRun, Back, Notify, List, Decide, DecideGone, Crash,
          Time, Tick, vars
  <1> QED
    BY <1>1, GraphKeeps, RegistryKeeps, PTL DEF AgentSpec, NothingUnregistered

\* AgentSpec => []RegistryTypeOK: the registry's variables keep to their kinds.
THEOREM AgentRegistryTypeCorrect == AgentSpec => []RegistryTypeOK
  <1>1. RegistryKept => RegistryTypeOK
    BY DEF RegistryKept, RegistryTypeOK
  <1> QED
    BY <1>1, RegistryKeeps, PTL

\* AgentSpec => []OneInvoker: in the process too, one thread at most is in a run.
THEOREM AgentOneInvoker == AgentSpec => []OneInvoker
  <1>1. RP!OneInvoker => OneInvoker
    BY DEF OneInvoker, R!OneInvoker, RP!OneInvoker, R!Busy, RP!Busy
  <1> QED
    BY <1>1, AgentIsRegistry, SameRegistry, RP!OneInvokerAlways, PTL

\* AgentSpec => []DecidedOnce: and one proposal takes one decision.
THEOREM AgentDecidedOnce == AgentSpec => []DecidedOnce
  <1>1. RP!DecidedOnce => DecidedOnce
    BY DEF DecidedOnce, R!DecidedOnce, RP!DecidedOnce
  <1> QED
    BY <1>1, AgentIsRegistry, SameRegistry, RP!DecidedOnceAlways, PTL

\* AgentSpec => []NotifiedOnce: and the webhook hears of nothing twice.
THEOREM AgentNotifiedOnce == AgentSpec => []NotifiedOnce
  <1>1. RP!NotifiedOnce => NotifiedOnce
    BY DEF NotifiedOnce, R!NotifiedOnce, RP!NotifiedOnce, R!Clash, RP!Clash,
           R!IsEnd, RP!IsEnd
  <1> QED
    BY <1>1, AgentIsRegistry, SameRegistry, RP!NotifiedOnceAlways, PTL

\* AgentSpec => ImplementsService: and clients of the process see RunService.
THEOREM AgentImplementsService == AgentSpec => ImplementsService
  <1>1. RP!Service!ServiceSpec => R!Service!ServiceSpec
    <2>1. RP!Service!ServiceInit => R!Service!ServiceInit
      BY DEF RP!Service!ServiceInit, R!Service!ServiceInit, RP!Absent, R!Absent
    <2>2. RP!Service!ServiceNext => R!Service!ServiceNext
      BY DEF RP!Service!ServiceNext, R!Service!ServiceNext, RP!Service!starts,
             R!Service!starts, RP!Service!proposes, R!Service!proposes,
             RP!Service!answers, R!Service!answers, RP!Service!takes_decision,
             R!Service!takes_decision, RP!Service!ends, R!Service!ends,
             RP!Service!forgets, R!Service!forgets, RP!Absent, R!Absent
    <2>3. [RP!Service!ServiceNext]_(RP!Service!service)
            => [R!Service!ServiceNext]_(R!Service!service)
      BY <2>2 DEF RP!Service!service, R!Service!service, RP!Absent, R!Absent
    <2> QED
      BY <2>1, <2>3, PTL DEF RP!Service!ServiceSpec, R!Service!ServiceSpec
  <1> QED
    BY <1>1, AgentIsRegistry, SameRegistry, RP!RegistryImplementsService, PTL
    DEF ImplementsService, R!ImplementsService, RP!ImplementsService

=============================================================================
