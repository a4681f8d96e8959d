----------------------------- MODULE GatedAgent -----------------------------
(***************************************************************************)
(* The agent process: AgentGraph run by the worker threads of Runtime.     *)
(* Every action is one of the registry together with what the graph does   *)
(* in it.  A worker enters graph.invoke, takes the run from node to node,  *)
(* and comes back when the graph waits at the gate, has ended or raised;   *)
(* a crash takes registry and workers and leaves the checkpoint where it   *)
(* was, for nobody to resume.                                              *)
(***************************************************************************)
EXTENDS AgentGraph

CONSTANT Clients            \* holders of the act-tier token

VARIABLES runs, workers, spawned, interrupts, accepted, seen, delivered

\* A trigger is known by the namespace it is in.
R == INSTANCE Runtime WITH Keys <- Namespaces

registry == <<runs, workers, spawned, interrupts, accepted, seen, delivered>>
agent == <<vars, registry>>

AgentInit == Init /\ R!Init

-----------------------------------------------------------------------------
StartRun(t, namespace) == R!start_run(t, namespace) /\ UNCHANGED vars

\* Mutant: the decision is not looked into.
EnterApproving(t, w) ==
    /\ R!enters(t, w)
    /\ \/ w.payload = "start" /\ invoke(t, runs[t].key)
       \/ w.payload # "start" /\ resume(t, TRUE)

\* graph.invoke with the trigger, or with Command(resume=decision).
Enter(t, w) ==
    /\ R!enters(t, w)
    /\ \/ w.payload = "start" /\ invoke(t, runs[t].key)
       \/ w.payload = "approve" /\ resume(t, TRUE)
       \/ w.payload = "deny" /\ resume(t, FALSE)

\* Inside graph.invoke.
Work(t, w) == w.at = "invoking" /\ Step(t) /\ UNCHANGED registry

\* graph.invoke comes back.
Back(t, w) == /\ \/ At(t, "interrupt") /\ R!returns_interrupt(t, w)
                 \/ At(t, "end") /\ R!returns_result(t, w)
                 \/ At(t, "raised") /\ R!raises(t, w)
              /\ UNCHANGED vars

Notify(t, w, arrives) == R!notifies(t, w, arrives) /\ UNCHANGED vars

List(c) == R!list_proposals(c) /\ UNCHANGED vars

Decide(c, t, approve, answered) ==
    R!decide(c, t, approve, answered) /\ UNCHANGED vars

DecideGone(c, t) == R!decide_gone(c, t) /\ UNCHANGED vars

Crash == R!crash /\ UNCHANGED vars

Time == Tick /\ UNCHANGED registry

\* A worker thread, up to its notification.
Run(t) == \E w \in workers[t] : Enter(t, w) \/ Work(t, w) \/ Back(t, w)

AgentNext ==
    \/ \E t \in Threads, namespace \in Namespaces : StartRun(t, namespace)
    \/ \E t \in Threads : Run(t)
    \/ \E t \in Threads, arrives \in BOOLEAN : \E w \in workers[t] : Notify(t, w, arrives)
    \/ \E c \in Clients : List(c)
    \/ \E c \in Clients, t \in Threads, approve, answered \in BOOLEAN :
         Decide(c, t, approve, answered)
    \/ \E c \in Clients, t \in Threads : DecideGone(c, t)
    \/ Crash
    \/ Time

AgentSpec == AgentInit /\ [][AgentNext]_agent

\* A worker thread that can run does; clients, webhook and clock owe nothing.
AgentFairSpec == AgentSpec /\ \A t \in Threads : WF_agent(Run(t))

-----------------------------------------------------------------------------
(* What the registry promises (module Runtime), of this process.           *)

\* Every variable of the registry holds values of its kind.
RegistryTypeOK == R!TypeOK

\* A graph run is never entered by two threads at once (Runtime!OneInvoker).
OneInvoker == R!OneInvoker

\* One proposal takes one decision (Runtime!DecidedOnce).
DecidedOnce == R!DecidedOnce

\* The webhook hears of nothing twice (Runtime!NotifiedOnce).
NotifiedOnce == R!NotifiedOnce

\* Clients of the process see RunService (Runtime!ImplementsService).
ImplementsService == R!ImplementsService

-----------------------------------------------------------------------------
(* What the process promises.                                              *)

\* The registry's view of a run is the graph's: it is shown as paused exactly
\* when the graph waits for a decision on the proposal shown, and as done or
\* failed only when the graph has ended or raised.  A resumed run is handed to
\* a graph that waits, never to one that has moved on.
RegistryAgrees ==
    \A t \in Threads :
        /\ runs[t].status = "paused" =>
             At(t, "interrupt") /\ runs[t].proposal = proposals[t]
        /\ runs[t].status = "done" => At(t, "end") /\ Len(audit[t]) = 1
        /\ runs[t].status = "failed" => At(t, "raised")
        /\ \A w \in workers[t] : w.at = "spawned" =>
             node[t] = IF w.payload = "start" THEN "start" ELSE "interrupt"

\* Behind every deletion stands a decision: the API accepted an approval from a
\* client while that very proposal waited, and the graph was given it as such.
RestartsDecided ==
    \A t \in Threads : \A i \in 1..Len(restarts[t]) :
        \E d \in accepted[t] : d.applied = restarts[t][i].proposal /\ d.approve

\* A run moves in the graph only while the registry has it running: nothing is
\* deleted, proposed or recorded for a run that is paused, finished or forgotten.
NothingUnregistered ==
    [][\A t \in Threads : node'[t] # node[t] => runs[t].status = "running"]_agent

\* Whatever starts or is resumed comes to a stop the registry shows: paused,
\* done or failed, unless the process crashes first.
RunningEnds ==
    \A t \in Threads : runs[t].status = "running" ~> runs[t].status # "running"

=============================================================================
