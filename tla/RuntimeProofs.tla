---------------------------- MODULE RuntimeProofs ----------------------------
(***************************************************************************)
(* Proofs about Runtime: for any threads, keys and clients and any bound   *)
(* on proposals, the registry keeps what it promises and implements        *)
(* RunService.  RunInv says what is true of one run between two critical   *)
(* sections; each action touches one run, the crash apart.                 *)
(***************************************************************************)
EXTENDS Runtime, TLAPS

\* A thread_id that was not drawn yet has left no trace.
FreshInv(t) ==
    /\ spawned[t] = 0 => /\ runs[t] = Absent /\ workers[t] = {}
                         /\ interrupts[t] = 0 /\ accepted[t] = {}
                         /\ delivered[t] = <<>>
    /\ runs[t].status = "absent" => runs[t] = Absent

\* Threads of one run have names of their own, and a run that is running is
\* so because of exactly one of them.
WorkerInv(t) ==
    /\ \A w \in workers[t] : w.id <= spawned[t]
    /\ \A v, w \in workers[t] : v.id = w.id => v = w
    /\ \A v, w \in Busy(t) : v = w
    /\ runs[t].status = "running" <=> Busy(t) # {}

\* Proposal n of t has had its decision.
Settled(t, n) == \E d \in accepted[t] : d.applied = n

DecisionInv(t) ==
    /\ \A d \in accepted[t] : d.applied \in 1..interrupts[t]
    /\ \A d, e \in accepted[t] : d.applied = e.applied => d = e
    /\ runs[t].status = "running" => \A n \in 1..interrupts[t] : Settled(t, n)
    /\ runs[t].status = "paused" =>
         /\ runs[t].proposal = interrupts[t]
         /\ interrupts[t] > 0
         /\ ~Settled(t, interrupts[t])
         /\ \A n \in 1..(interrupts[t] - 1) : Settled(t, n)

\* An event that a run in this status may have brought about by its n-th proposal.
Due(n, status, e) ==
    \/ e.event = "proposal" /\ e.proposal \in 1..n
    \/ IsEnd(e) /\ status \notin Live

Notifying(t) == {w \in workers[t] : w.at = "notifying"}

EventInv(t) ==
    /\ \A w \in Busy(t) : w.event = NoEvent
    /\ \A w \in Notifying(t) : Due(interrupts[t], runs[t].status, w.event)
    /\ \A i \in 1..Len(delivered[t]) : Due(interrupts[t], runs[t].status, delivered[t][i])
    /\ \A v, w \in Notifying(t) : Clash(v.event, w.event) => v = w
    /\ \A i, j \in 1..Len(delivered[t]) : Clash(delivered[t][i], delivered[t][j]) => i = j
    /\ \A w \in Notifying(t), i \in 1..Len(delivered[t]) :
         ~Clash(w.event, delivered[t][i])

RunInv(t) == FreshInv(t) /\ WorkerInv(t) /\ DecisionInv(t) /\ EventInv(t)

IInv == TypeOK /\ \A t \in Threads : RunInv(t)

-----------------------------------------------------------------------------
(* Type correctness.                                                       *)

\* A new thread is of the kind of the others.
LEMMA SpawnType ==
    ASSUME TypeOK, NEW t \in Threads, NEW payload \in {"start", "approve", "deny"},
           Spawn(t, payload)
    PROVE  workers' \in [Threads -> SUBSET Workers] /\ spawned' \in [Threads -> Nat]
  <1>1. [id |-> spawned[t] + 1, payload |-> payload, at |-> "spawned",
         event |-> NoEvent] \in Workers
    BY DEF TypeOK, Workers, Events, NoEvent, Event
  <1> QED
    BY <1>1 DEF TypeOK, Spawn

\* So is one that has moved on.
LEMMA MovesType ==
    ASSUME TypeOK, NEW t \in Threads, NEW w \in workers[t],
           NEW place \in {"invoking", "notifying"}, NEW event \in Events,
           Moves(t, w, place, event)
    PROVE  workers' \in [Threads -> SUBSET Workers]
  <1>1. w \in Workers
    BY DEF TypeOK
  <1>2. [w EXCEPT !.at = place, !.event = event] \in Workers
    BY <1>1 DEF Workers
  <1> QED
    BY <1>2 DEF TypeOK, Moves

\* Events are of their kinds.
LEMMA EventType ==
    /\ NoEvent \in Events
    /\ Event("outcome", 0) \in Events /\ Event("run_failed", 0) \in Events
    /\ \A n \in Nat : Event("proposal", n) \in Events
  BY DEF NoEvent, Event, Events

\* Spec => []TypeOK: registry, worker threads and histories keep to their kinds.
THEOREM RegistryTypeCorrect == Spec => []TypeOK
  <1>1. Init => TypeOK
    BY DEF Init, TypeOK, Absent, Runs
  <1>2. TypeOK /\ [Next]_vars => TypeOK'
    <2> SUFFICES ASSUME TypeOK, [Next]_vars PROVE TypeOK'
      OBVIOUS
    <2>1. ASSUME NEW t \in Threads, NEW key \in Keys, start_run(t, key)
          PROVE  TypeOK'
      <3>1. [status |-> "running", key |-> key, proposal |-> 0] \in Runs
        BY DEF Runs
      <3>2. runs' \in [Threads -> Runs]
        BY <2>1, <3>1 DEF start_run, TypeOK
      <3> QED
        BY <2>1, <3>2, SpawnType DEF start_run, TypeOK
    <2>2. ASSUME NEW t \in Threads, NEW w \in workers[t], enters(t, w)
          PROVE  TypeOK'
      <3>1. workers' \in [Threads -> SUBSET Workers]
        BY <2>2, MovesType, EventType DEF enters
      <3> QED
        BY <2>2, <3>1 DEF enters, TypeOK
    <2>3. ASSUME NEW t \in Threads, NEW w \in workers[t], returns_interrupt(t, w)
          PROVE  TypeOK'
      <3>1. interrupts[t] + 1 \in Nat
        BY DEF TypeOK
      <3>2. workers' \in [Threads -> SUBSET Workers]
        BY <2>3, <3>1, MovesType, EventType DEF returns_interrupt
      <3>3. [runs[t] EXCEPT !.status = "paused", !.proposal = interrupts[t] + 1] \in Runs
        BY <3>1 DEF TypeOK, Runs
      <3>4. runs' = [runs EXCEPT ![t] = [runs[t] EXCEPT !.status = "paused",
                                                        !.proposal = interrupts[t] + 1]]
        BY <2>3 DEF returns_interrupt, TypeOK, Runs
      <3>5. runs' \in [Threads -> Runs] /\ interrupts' \in [Threads -> Nat]
        BY <2>3, <3>1, <3>3, <3>4 DEF returns_interrupt, TypeOK
      <3> QED
        BY <2>3, <3>2, <3>5 DEF returns_interrupt, TypeOK
    <2>4. ASSUME NEW t \in Threads, NEW w \in workers[t], returns_result(t, w)
          PROVE  TypeOK'
      <3>1. workers' \in [Threads -> SUBSET Workers]
        BY <2>4, MovesType, EventType DEF returns_result
      <3>2. [runs[t] EXCEPT !.status = "done", !.proposal = 0] \in Runs
        BY DEF TypeOK, Runs
      <3>3. runs' = [runs EXCEPT ![t] = [runs[t] EXCEPT !.status = "done",
                                                        !.proposal = 0]]
        BY <2>4 DEF returns_result, TypeOK, Runs
      <3>4. runs' \in [Threads -> Runs]
        BY <3>2, <3>3 DEF TypeOK
      <3> QED
        BY <2>4, <3>1, <3>4 DEF returns_result, TypeOK
    <2>5. ASSUME NEW t \in Threads, NEW w \in workers[t], raises(t, w)
          PROVE  TypeOK'
      <3>1. workers' \in [Threads -> SUBSET Workers]
        BY <2>5, MovesType, EventType DEF raises
      <3>2. runs' \in [Threads -> Runs]
        BY <2>5 DEF raises, TypeOK, Runs
      <3> QED
        BY <2>5, <3>1, <3>2 DEF raises, TypeOK
    <2>6. ASSUME NEW t \in Threads, NEW w \in workers[t], NEW arrives \in BOOLEAN,
                 notifies(t, w, arrives)
          PROVE  TypeOK'
      <3>1. w.event \in Events
        BY DEF TypeOK, Workers
      <3>2. delivered' \in [Threads -> Seq(Events)]
        BY <2>6, <3>1 DEF notifies, TypeOK
      <3> QED
        BY <2>6, <3>2 DEF notifies, TypeOK
    <2>7. ASSUME NEW c \in Clients, list_proposals(c)
          PROVE  TypeOK'
      <3>1. [t \in Threads |-> shown(t)] \in [Threads -> Nat]
        BY DEF shown, TypeOK, Runs
      <3> QED
        BY <2>7, <3>1 DEF list_proposals, TypeOK
    <2>8. ASSUME NEW c \in Clients, NEW t \in Threads, NEW answered,
                 Answered(c, t, answered)
          PROVE  seen' \in [Clients -> [Threads -> Nat]]
      BY <2>8 DEF Answered, TypeOK
    <2>9. ASSUME NEW c \in Clients, NEW t \in Threads, NEW approve \in BOOLEAN,
                 NEW answered \in BOOLEAN, decide(c, t, approve, answered)
          PROVE  TypeOK'
      <3>1. workers' \in [Threads -> SUBSET Workers] /\ spawned' \in [Threads -> Nat]
        BY <2>9, SpawnType DEF decide, resume
      <3>2. runs' \in [Threads -> Runs]
        BY <2>9 DEF decide, resume, TypeOK, Runs
      <3>3. [id |-> spawned[t] + 1, meant |-> seen[c][t],
             applied |-> runs[t].proposal, approve |-> approve] \in Decisions
        BY DEF TypeOK, Runs, Decisions
      <3>4. accepted' \in [Threads -> SUBSET Decisions]
        BY <2>9, <3>3 DEF decide, TypeOK
      <3> QED
        BY <2>8, <2>9, <3>1, <3>2, <3>4 DEF decide, TypeOK
    <2>10. ASSUME NEW c \in Clients, NEW t \in Threads, decide_gone(c, t)
           PROVE  TypeOK'
      BY <2>8, <2>10 DEF decide_gone, TypeOK
    <2>11. CASE crash
      <3>1. Absent \in Runs
        BY DEF Absent, Runs
      <3> QED
        BY <2>11, <3>1 DEF crash, TypeOK
    <2>12. CASE UNCHANGED vars
      BY <2>12 DEF vars, TypeOK
    <2> QED
      BY <2>1, <2>2, <2>3, <2>4, <2>5, <2>6, <2>7, <2>9, <2>10, <2>11, <2>12
      DEF Next, Invoke
  <1> QED
    BY <1>1, <1>2, PTL DEF Spec

-----------------------------------------------------------------------------
(* RunInv is inductive.                                                    *)

\* Names of threads are distinct, and none is above the count that gives them.
NamesInv(t) ==
    /\ \A w \in workers[t] : w.id <= spawned[t]
    /\ \A v, w \in workers[t] : v.id = w.id => v = w

\* A run that an action does not touch keeps its invariant.
LEMMA FrameKeeps ==
    ASSUME NEW u \in Threads, RunInv(u),
           runs'[u] = runs[u], workers'[u] = workers[u], spawned'[u] = spawned[u],
           interrupts'[u] = interrupts[u], accepted'[u] = accepted[u],
           delivered'[u] = delivered[u]
    PROVE  RunInv(u)'
  <1>1. FreshInv(u)'
    BY DEF RunInv, FreshInv
  <1>2. WorkerInv(u)'
    BY DEF RunInv, WorkerInv, Busy
  <1>3. DecisionInv(u)'
    BY DEF RunInv, DecisionInv, Settled
  <1>4. EventInv(u)'
    BY DEF RunInv, EventInv, Busy, Notifying, Due
  <1> QED
    BY <1>1, <1>2, <1>3, <1>4 DEF RunInv

\* Starting a thread: one more on its way to the graph, with a name of its own.
LEMMA SpawnEffect ==
    ASSUME TypeOK, NEW t \in Threads, RunInv(t), NEW payload, Spawn(t, payload)
    PROVE  /\ spawned'[t] = spawned[t] + 1
           /\ NamesInv(t)'
           /\ \E n \in workers'[t] : n.event = NoEvent /\ Busy(t)' = Busy(t) \cup {n}
           /\ Notifying(t)' = Notifying(t)
           /\ \A u \in Threads \ {t} :
                workers'[u] = workers[u] /\ spawned'[u] = spawned[u]
  <1> DEFINE n == [id |-> spawned[t] + 1, payload |-> payload,
                   at |-> "spawned", event |-> NoEvent]
  <1>1. /\ spawned'[t] = spawned[t] + 1
        /\ workers'[t] = workers[t] \cup {n}
        /\ \A u \in Threads \ {t} : workers'[u] = workers[u] /\ spawned'[u] = spawned[u]
    BY DEF Spawn, TypeOK
  <1>2. n.id = spawned[t] + 1 /\ n.at = "spawned" /\ n.event = NoEvent
    OBVIOUS
  <1>3. /\ spawned[t] \in Nat
        /\ \A w \in workers[t] : w.id \in Nat /\ w.id <= spawned[t]
        /\ \A v, w \in workers[t] : v.id = w.id => v = w
    BY DEF TypeOK, Workers, RunInv, WorkerInv
  <1> HIDE DEF n
  <1>4. NamesInv(t)'
    BY <1>1, <1>2, <1>3 DEF NamesInv
  <1>5. Busy(t)' = Busy(t) \cup {n} /\ Notifying(t)' = Notifying(t)
    BY <1>1, <1>2 DEF Busy, Notifying
  <1> QED
    BY <1>1, <1>2, <1>4, <1>5

\* A thread moves on under its name.
LEMMA MovesEffect ==
    ASSUME TypeOK, NEW t \in Threads, RunInv(t), NEW w \in workers[t],
           NEW place \in {"invoking", "notifying"}, NEW event \in Events,
           Moves(t, w, place, event), UNCHANGED spawned
    PROVE  /\ NamesInv(t)'
           /\ \E v \in workers'[t] :
                /\ v.at = place /\ v.event = event
                /\ workers'[t] = (workers[t] \ {w}) \cup {v}
           /\ \A u \in Threads \ {t} : workers'[u] = workers[u]
  <1> DEFINE v == [w EXCEPT !.at = place, !.event = event]
  <1>1. w \in Workers
    BY DEF TypeOK
  <1>2. v.id = w.id /\ v.at = place /\ v.event = event
    BY <1>1 DEF Workers
  <1>3. /\ workers'[t] = (workers[t] \ {w}) \cup {v}
        /\ \A u \in Threads \ {t} : workers'[u] = workers[u]
    BY DEF Moves, TypeOK
  <1>4. /\ \A x \in workers[t] : x.id <= spawned[t]
        /\ \A x, y \in workers[t] : x.id = y.id => x = y
    BY DEF RunInv, WorkerInv
  <1> HIDE DEF v
  <1>5. NamesInv(t)'
    BY <1>2, <1>3, <1>4 DEF NamesInv
  <1> QED
    BY <1>2, <1>3, <1>5

\* start_run: the registry gets a run that knows of nothing yet.
LEMMA StartKeeps ==
    ASSUME IInv, NEW t \in Threads, NEW key, start_run(t, key)
    PROVE  RunInv(t)'
  <1>0. TypeOK /\ RunInv(t) /\ FreshInv(t) /\ spawned[t] = 0
    BY DEF IInv, RunInv, start_run
  <1>1. /\ workers[t] = {} /\ interrupts'[t] = 0 /\ accepted'[t] = {}
        /\ delivered'[t] = <<>> /\ runs'[t].status = "running"
    BY <1>0 DEF FreshInv, start_run, TypeOK
  <1>2. /\ spawned'[t] = 1 /\ NamesInv(t)'
        /\ \E n \in workers'[t] : n.event = NoEvent /\ Busy(t)' = Busy(t) \cup {n}
        /\ Notifying(t)' = Notifying(t)
    BY <1>0, SpawnEffect DEF start_run
  <1>3. Busy(t) = {} /\ Notifying(t) = {}
    BY <1>1 DEF Busy, Notifying
  <1>4. FreshInv(t)'
    BY <1>1, <1>2 DEF FreshInv
  <1>5. WorkerInv(t)'
    BY <1>1, <1>2, <1>3 DEF WorkerInv, NamesInv
  <1>6. DecisionInv(t)'
    BY <1>1 DEF DecisionInv
  <1>7. EventInv(t)'
    BY <1>1, <1>2, <1>3 DEF EventInv
  <1> QED
    BY <1>4, <1>5, <1>6, <1>7 DEF RunInv

\* enters: the one thread on its way to the graph is in it.
LEMMA EntersKeeps ==
    ASSUME IInv, NEW t \in Threads, NEW w \in workers[t], enters(t, w)
    PROVE  RunInv(t)'
  <1>0. TypeOK /\ RunInv(t) /\ w.at = "spawned"
    BY DEF IInv, enters
  <1>1. NamesInv(t)'
    BY <1>0, MovesEffect, EventType DEF enters
  <1>2. PICK v \in workers'[t] : /\ v.at = "invoking" /\ v.event = NoEvent
                                 /\ workers'[t] = (workers[t] \ {w}) \cup {v}
    BY <1>0, MovesEffect, EventType DEF enters
  <1>3. /\ Busy(t)' = (Busy(t) \ {w}) \cup {v} /\ Notifying(t)' = Notifying(t)
        /\ w \in Busy(t)
    BY <1>0, <1>2 DEF Busy, Notifying
  <1>4. FreshInv(t)'
    BY <1>0 DEF enters, RunInv, FreshInv
  <1>5. WorkerInv(t)'
    BY <1>0, <1>1, <1>3 DEF enters, RunInv, WorkerInv, NamesInv
  <1>6. DecisionInv(t)'
    BY <1>0 DEF enters, RunInv, DecisionInv, Settled
  <1>7. EventInv(t)'
    BY <1>0, <1>2, <1>3 DEF enters, RunInv, EventInv, Due
  <1> QED
    BY <1>4, <1>5, <1>6, <1>7 DEF RunInv

\* graph.invoke comes back: nobody is on the way to the graph any more, and what
\* is about to be notified clashes with nothing before it.
LEMMA BackKeeps ==
    ASSUME TypeOK, NEW t \in Threads, RunInv(t), NEW w \in workers[t],
           w.at = "invoking", NEW event \in Events,
           Moves(t, w, "notifying", event), UNCHANGED <<spawned, delivered>>,
           interrupts'[t] >= interrupts[t], interrupts'[t] \in Nat,
           runs'[t].status \notin {"absent", "running"},
           Due(interrupts'[t], runs'[t].status, event),
           \A e : Due(interrupts[t], runs[t].status, e) =>
                    Due(interrupts'[t], runs'[t].status, e) /\ ~Clash(event, e)
    PROVE  FreshInv(t)' /\ WorkerInv(t)' /\ EventInv(t)'
  <1>1. NamesInv(t)'
    BY MovesEffect
  <1>2. PICK v \in workers'[t] : /\ v.at = "notifying" /\ v.event = event
                                 /\ workers'[t] = (workers[t] \ {w}) \cup {v}
    BY MovesEffect
  <1>3. Busy(t) = {w}
    BY DEF RunInv, WorkerInv, Busy
  <1>4. Busy(t)' = {} /\ Notifying(t)' = Notifying(t) \cup {v}
    BY <1>2, <1>3 DEF Busy, Notifying
  <1>5. FreshInv(t)'
    <2>1. spawned[t] # 0
      BY DEF RunInv, FreshInv
    <2> QED
      BY <2>1 DEF FreshInv
  <1>6. WorkerInv(t)'
    BY <1>1, <1>4 DEF WorkerInv, NamesInv
  <1>7. EventInv(t)'
    <2>1. /\ \A x \in Notifying(t)' :
               x = v \/ (x \in Notifying(t) /\ Due(interrupts[t], runs[t].status, x.event))
          /\ \A i \in 1..Len(delivered[t]) : Due(interrupts[t], runs[t].status, delivered[t][i])
      BY <1>4 DEF RunInv, EventInv
    <2>2. /\ \A x \in Notifying(t)' : Due(interrupts'[t], runs'[t].status, x.event)
          /\ \A i \in 1..Len(delivered'[t]) : Due(interrupts'[t], runs'[t].status, delivered'[t][i])
      BY <1>2, <2>1
    <2>3. \A x, y \in Notifying(t)' : Clash(x.event, y.event) => x = y
      <3>1. \A e, f : Clash(e, f) <=> Clash(f, e)
        BY DEF Clash
      <3> QED
        BY <1>2, <2>1, <3>1 DEF RunInv, EventInv
    <2>4. \A x \in Notifying(t)', i \in 1..Len(delivered'[t]) :
            ~Clash(x.event, delivered'[t][i])
      BY <1>2, <2>1 DEF RunInv, EventInv
    <2>5. \A i, j \in 1..Len(delivered'[t]) :
            Clash(delivered'[t][i], delivered'[t][j]) => i = j
      BY DEF RunInv, EventInv
    <2> QED
      BY <1>4, <2>2, <2>3, <2>4, <2>5 DEF EventInv
  <1> QED
    BY <1>5, <1>6, <1>7

\* Whoever is in the graph is so of a running run.
LEMMA InvokingRuns ==
    ASSUME NEW t \in Threads, RunInv(t), NEW w \in workers[t], w.at # "notifying"
    PROVE  runs[t].status = "running"
  BY DEF RunInv, WorkerInv, Busy

\* A proposal: it is a new one, and waits for its decision.
LEMMA InterruptKeeps ==
    ASSUME IInv, NEW t \in Threads, NEW w \in workers[t], returns_interrupt(t, w)
    PROVE  RunInv(t)'
  <1> DEFINE n == interrupts[t] + 1
  <1>0. /\ TypeOK /\ RunInv(t) /\ w.at = "invoking" /\ interrupts[t] \in Nat
        /\ runs[t].status = "running"
    BY InvokingRuns DEF IInv, returns_interrupt, TypeOK
  <1>1. /\ interrupts'[t] = n /\ runs'[t].status = "paused" /\ runs'[t].proposal = n
        /\ accepted' = accepted
    BY <1>0 DEF returns_interrupt, TypeOK, Runs
  <1>2. FreshInv(t)' /\ WorkerInv(t)' /\ EventInv(t)'
    <2>1. Event("proposal", n) \in Events
      BY <1>0, EventType
    <2>2. Event("proposal", n).event = "proposal" /\ Event("proposal", n).proposal = n
      BY DEF Event
    <2>3. Due(interrupts'[t], runs'[t].status, Event("proposal", n))
      BY <1>0, <1>1, <2>2 DEF Due
    <2>4. ASSUME NEW e, Due(interrupts[t], runs[t].status, e)
          PROVE  Due(interrupts'[t], runs'[t].status, e) /\ ~Clash(Event("proposal", n), e)
      <3>1. e.event = "proposal" /\ e.proposal \in 1..interrupts[t]
        BY <1>0, <2>4 DEF Due, Live
      <3> QED
        BY <1>0, <1>1, <2>2, <3>1 DEF Due, Clash, IsEnd
    <2>5. /\ interrupts'[t] >= interrupts[t] /\ interrupts'[t] \in Nat
          /\ runs'[t].status \notin {"absent", "running"}
      BY <1>0, <1>1
    <2>6. /\ Moves(t, w, "notifying", Event("proposal", n))
          /\ UNCHANGED <<spawned, delivered>>
      BY DEF returns_interrupt
    <2> HIDE DEF n
    <2> QED
      BY <1>0, <2>1, <2>3, <2>4, <2>5, <2>6, BackKeeps
  <1>3. DecisionInv(t)'
    BY <1>0, <1>1 DEF RunInv, DecisionInv, Settled
  <1> QED
    BY <1>2, <1>3 DEF RunInv

\* An end: the first of its run, since the run was running.
LEMMA EndKeeps ==
    ASSUME IInv, NEW t \in Threads, NEW w \in workers[t], w.at = "invoking",
           NEW event \in {Event("outcome", 0), Event("run_failed", 0)},
           Moves(t, w, "notifying", event),
           runs'[t].status \in {"done", "failed"},
           UNCHANGED <<spawned, interrupts, accepted, delivered>>
    PROVE  RunInv(t)'
  <1>0. /\ TypeOK /\ RunInv(t) /\ interrupts[t] \in Nat
        /\ runs[t].status = "running" /\ IsEnd(event) /\ event \in Events
    BY InvokingRuns, EventType DEF IInv, TypeOK, IsEnd, Event
  <1>1. FreshInv(t)' /\ WorkerInv(t)' /\ EventInv(t)'
    <2>1. Due(interrupts'[t], runs'[t].status, event)
      BY <1>0 DEF Due, Live
    <2>2. ASSUME NEW e, Due(interrupts[t], runs[t].status, e)
          PROVE  Due(interrupts'[t], runs'[t].status, e) /\ ~Clash(event, e)
      <3>1. e.event = "proposal" /\ e.proposal \in 1..interrupts[t]
        BY <1>0, <2>2 DEF Due, Live
      <3> QED
        BY <1>0, <3>1 DEF Due, Clash, IsEnd
    <2> QED
      BY <1>0, <2>1, <2>2, BackKeeps
  <1>2. DecisionInv(t)'
    BY <1>0 DEF RunInv, DecisionInv, Settled
  <1> QED
    BY <1>1, <1>2 DEF RunInv

\* notify: the event goes from the thread to the webhook, or is lost.
LEMMA NotifiesKeeps ==
    ASSUME IInv, NEW t \in Threads, NEW w \in workers[t], NEW arrives \in BOOLEAN,
           notifies(t, w, arrives)
    PROVE  RunInv(t)'
  <1>0. TypeOK /\ RunInv(t) /\ w \in Notifying(t)
    BY DEF IInv, notifies, Notifying
  <1>1. workers'[t] = workers[t] \ {w}
    BY <1>0 DEF notifies, TypeOK
  <1>2. Busy(t)' = Busy(t) /\ Notifying(t)' = Notifying(t) \ {w}
    BY <1>0, <1>1 DEF Busy, Notifying
  <1>3. FreshInv(t)'
    BY <1>0 DEF notifies, RunInv, FreshInv
  <1>4. WorkerInv(t)'
    BY <1>0, <1>1, <1>2 DEF notifies, RunInv, WorkerInv
  <1>5. DecisionInv(t)'
    BY <1>0 DEF notifies, RunInv, DecisionInv, Settled
  <1>6. EventInv(t)'
    <2>1. CASE ~arrives
      BY <1>0, <1>2, <2>1 DEF notifies, RunInv, EventInv, Due
    <2>2. CASE arrives
      <3> DEFINE old == delivered[t]
                 new == delivered'[t]
      <3>1. /\ old \in Seq(Events) /\ w.event \in Events
            /\ new = Append(old, w.event)
        BY <1>0, <2>2 DEF notifies, TypeOK, Workers
      <3>2. /\ Len(new) = Len(old) + 1 /\ new[Len(new)] = w.event
            /\ \A i \in 1..Len(new) : i = Len(new) \/ (i \in 1..Len(old) /\ new[i] = old[i])
        BY <3>1
      <3>3. /\ Due(interrupts[t], runs[t].status, w.event)
            /\ \A i \in 1..Len(old) : Due(interrupts[t], runs[t].status, old[i])
            /\ \A e : Due(interrupts[t], runs[t].status, e) => Due(interrupts'[t], runs'[t].status, e)
            /\ \A x \in Notifying(t) : Due(interrupts[t], runs[t].status, x.event)
        BY <1>0 DEF notifies, RunInv, EventInv, Due
      <3>4. /\ \A i \in 1..Len(old) : ~Clash(w.event, old[i]) /\ ~Clash(old[i], w.event)
            /\ \A x \in Notifying(t) \ {w} : ~Clash(x.event, w.event)
        BY <1>0 DEF RunInv, EventInv, Clash
      <3>5. /\ \A i, j \in 1..Len(old) : Clash(old[i], old[j]) => i = j
            /\ \A x, y \in Notifying(t) : Clash(x.event, y.event) => x = y
            /\ \A x \in Notifying(t), i \in 1..Len(old) : ~Clash(x.event, old[i])
            /\ \A x \in Busy(t) : x.event = NoEvent
        BY <1>0 DEF RunInv, EventInv
      <3> HIDE DEF old, new
      <3>6. \A i \in 1..Len(new) : Due(interrupts'[t], runs'[t].status, new[i])
        BY <3>2, <3>3
      <3>7. \A i, j \in 1..Len(new) : Clash(new[i], new[j]) => i = j
        BY <3>2, <3>4, <3>5
      <3>8. \A x \in Notifying(t) \ {w}, i \in 1..Len(new) : ~Clash(x.event, new[i])
        BY <3>2, <3>4, <3>5
      <3> QED
        BY <1>2, <3>3, <3>5, <3>6, <3>7, <3>8 DEF EventInv, new
    <2> QED
      BY <2>1, <2>2
  <1> QED
    BY <1>3, <1>4, <1>5, <1>6 DEF RunInv

\* A decision that is accepted settles the proposal that waits, and only that.
LEMMA DecideKeeps ==
    ASSUME IInv, NEW c \in Clients, NEW t \in Threads, NEW approve \in BOOLEAN,
           NEW answered \in BOOLEAN, decide(c, t, approve, answered)
    PROVE  RunInv(t)'
  <1> DEFINE d == [id |-> spawned[t] + 1, meant |-> seen[c][t],
                   applied |-> runs[t].proposal, approve |-> approve]
  <1>0. TypeOK /\ RunInv(t) /\ runs[t].status = "paused"
    BY DEF IInv, decide, resume, resumable
  <1>1. /\ interrupts' = interrupts /\ delivered' = delivered
        /\ runs'[t].status = "running" /\ accepted'[t] = accepted[t] \cup {d}
        /\ d.applied = interrupts[t] /\ interrupts[t] \in Nat \ {0}
    BY <1>0 DEF decide, resume, TypeOK, Runs, RunInv, DecisionInv
  <1>2. /\ spawned'[t] = spawned[t] + 1 /\ NamesInv(t)'
        /\ Notifying(t)' = Notifying(t)
    BY <1>0, SpawnEffect DEF decide, resume
  <1>3. PICK n \in workers'[t] : n.event = NoEvent /\ Busy(t)' = Busy(t) \cup {n}
    BY <1>0, SpawnEffect DEF decide, resume
  <1>4. Busy(t) = {}
    BY <1>0 DEF RunInv, WorkerInv
  <1> HIDE DEF d
  <1>5. FreshInv(t)'
    BY <1>0, <1>1, <1>2 DEF FreshInv, TypeOK
  <1>6. WorkerInv(t)'
    BY <1>1, <1>2, <1>3, <1>4 DEF WorkerInv, NamesInv
  <1>7. DecisionInv(t)'
    <2>1. /\ \A e \in accepted[t] : e.applied \in 1..interrupts[t]
          /\ \A e, f \in accepted[t] : e.applied = f.applied => e = f
          /\ \A e \in accepted[t] : e.applied # interrupts[t]
          /\ \A i \in 1..(interrupts[t] - 1) : \E e \in accepted[t] : e.applied = i
      BY <1>0 DEF RunInv, DecisionInv, Settled
    <2>2. \A i \in 1..interrupts[t] : \E e \in accepted'[t] : e.applied = i
      <3> SUFFICES ASSUME NEW i \in 1..interrupts[t]
                   PROVE  \E e \in accepted'[t] : e.applied = i
        OBVIOUS
      <3>1. i = interrupts[t] \/ i \in 1..(interrupts[t] - 1)
        BY <1>1
      <3> QED
        BY <1>1, <2>1, <3>1
    <2> QED
      BY <1>1, <2>1, <2>2 DEF DecisionInv, Settled
  <1>8. EventInv(t)'
    <2>1. \A e : Due(interrupts[t], runs[t].status, e) <=>
                   Due(interrupts'[t], runs'[t].status, e)
      BY <1>0, <1>1 DEF Due, Live
    <2> QED
      BY <1>0, <1>1, <1>2, <1>3, <1>4, <2>1 DEF RunInv, EventInv
  <1> QED
    BY <1>5, <1>6, <1>7, <1>8 DEF RunInv

\* A crash leaves of a run what the outside world knows of it.
LEMMA CrashKeeps ==
    ASSUME IInv, NEW t \in Threads, crash
    PROVE  RunInv(t)'
  <1>0. TypeOK /\ RunInv(t)
    BY DEF IInv
  <1>1. runs'[t] = Absent /\ Absent.status = "absent" /\ workers'[t] = {}
    BY DEF crash, Absent
  <1>2. Busy(t)' = {} /\ Notifying(t)' = {}
    BY <1>1 DEF Busy, Notifying
  <1>3. FreshInv(t)'
    BY <1>0, <1>1 DEF crash, RunInv, FreshInv
  <1>4. WorkerInv(t)'
    BY <1>1, <1>2 DEF WorkerInv
  <1>5. DecisionInv(t)'
    BY <1>0, <1>1 DEF crash, RunInv, DecisionInv
  <1>6. EventInv(t)'
    BY <1>0, <1>1, <1>2 DEF crash, RunInv, EventInv, Due, Live
  <1> QED
    BY <1>3, <1>4, <1>5, <1>6 DEF RunInv

\* The registry's part of an action concerns one run.
LEMMA OthersKeep ==
    ASSUME IInv, NEW t \in Threads, NEW u \in Threads \ {t},
           \/ \E key : start_run(t, key)
           \/ \E w \in workers[t] :
                Invoke(t, w) \/ \E arrives \in BOOLEAN : notifies(t, w, arrives)
           \/ \E c \in Clients, approve, answered \in BOOLEAN :
                decide(c, t, approve, answered)
    PROVE  RunInv(u)'
  <1>1. /\ runs'[u] = runs[u] /\ workers'[u] = workers[u] /\ spawned'[u] = spawned[u]
        /\ interrupts'[u] = interrupts[u] /\ accepted'[u] = accepted[u]
        /\ delivered'[u] = delivered[u]
    BY DEF IInv, TypeOK, start_run, Spawn, Invoke, enters, Moves, returns_interrupt,
           returns_result, raises, notifies, decide, resume
  <1> QED
    BY <1>1, FrameKeeps DEF IInv

\* IInv holds of every reachable state.
LEMMA Inductive == Spec => []IInv
  <1>1. Init /\ TypeOK => IInv
    <2> SUFFICES ASSUME Init, NEW t \in Threads PROVE RunInv(t)
      BY DEF IInv
    <2>1. /\ runs[t] = Absent /\ Absent.status = "absent" /\ workers[t] = {}
          /\ spawned[t] = 0 /\ interrupts[t] = 0 /\ accepted[t] = {}
          /\ delivered[t] = <<>>
      BY DEF Init, Absent
    <2> QED
      BY <2>1 DEF RunInv, FreshInv, WorkerInv, DecisionInv, EventInv, Busy, Notifying
  <1>2. IInv /\ TypeOK' /\ [Next]_vars => IInv'
    <2> SUFFICES ASSUME IInv, [Next]_vars, NEW u \in Threads PROVE RunInv(u)'
      BY DEF IInv
    <2>1. ASSUME NEW t \in Threads, NEW key \in Keys, start_run(t, key)
          PROVE  RunInv(u)'
      BY <2>1, StartKeeps, OthersKeep
    <2>2. ASSUME NEW t \in Threads, NEW w \in workers[t], Invoke(t, w)
          PROVE  RunInv(u)'
      <3>1. CASE enters(t, w)
        BY <2>2, <3>1, EntersKeeps, OthersKeep
      <3>2. CASE returns_interrupt(t, w)
        BY <2>2, <3>2, InterruptKeeps, OthersKeep
      <3>3. CASE returns_result(t, w)
        <4>1. runs'[t].status = "done"
          BY <3>3 DEF returns_result, IInv, TypeOK, Runs
        <4>2. RunInv(t)'
          BY <3>3, <4>1, EndKeeps DEF returns_result
        <4> QED
          BY <2>2, <4>2, OthersKeep
      <3>4. CASE raises(t, w)
        <4>1. runs'[t].status = "failed"
          BY <3>4 DEF raises, IInv, TypeOK, Runs
        <4>2. RunInv(t)'
          BY <3>4, <4>1, EndKeeps DEF raises
        <4> QED
          BY <2>2, <4>2, OthersKeep
      <3> QED
        BY <2>2, <3>1, <3>2, <3>3, <3>4 DEF Invoke
    <2>3. ASSUME NEW t \in Threads, NEW w \in workers[t], NEW arrives \in BOOLEAN,
                 notifies(t, w, arrives)
          PROVE  RunInv(u)'
      BY <2>3, NotifiesKeeps, OthersKeep
    <2>4. ASSUME NEW c \in Clients, NEW t \in Threads, NEW approve \in BOOLEAN,
                 NEW answered \in BOOLEAN, decide(c, t, approve, answered)
          PROVE  RunInv(u)'
      BY <2>4, DecideKeeps, OthersKeep
    <2>5. CASE crash
      BY <2>5, CrashKeeps
    <2>6. CASE \/ \E c \in Clients : list_proposals(c)
               \/ \E c \in Clients, t \in Threads : decide_gone(c, t)
               \/ UNCHANGED vars
      BY <2>6, FrameKeeps DEF list_proposals, decide_gone, vars, IInv
    <2> QED
      BY <2>1, <2>2, <2>3, <2>4, <2>5, <2>6 DEF Next
  <1> QED
    BY <1>1, <1>2, RegistryTypeCorrect, PTL DEF Spec

\* Every run of the registry was started for one of the keys.
KeysKnown == \A t \in Threads : runs[t] = Absent \/ runs[t].key \in Keys

LEMMA KeysAreKnown == Spec => []KeysKnown
  <1>1. Init => KeysKnown
    BY DEF Init, KeysKnown
  <1>2. IInv /\ KeysKnown /\ [Next]_vars => KeysKnown'
    <2> SUFFICES ASSUME IInv, KeysKnown, [Next]_vars PROVE KeysKnown'
      OBVIOUS
    <2>0. TypeOK /\ Absent.status = "absent"
      BY DEF IInv, Absent
    <2>1. ASSUME NEW t \in Threads, runs[t].status # "absent",
                 \A u \in Threads : runs'[u] = runs[u] \/ (u = t /\ runs'[u].key = runs[u].key)
          PROVE  KeysKnown'
      BY <2>0, <2>1 DEF KeysKnown
    <2>2. ASSUME NEW t \in Threads, NEW key \in Keys, start_run(t, key)
          PROVE  KeysKnown'
      BY <2>0, <2>2 DEF start_run, KeysKnown, TypeOK
    <2>3. ASSUME NEW t \in Threads, NEW w \in workers[t],
                 returns_interrupt(t, w) \/ returns_result(t, w) \/ raises(t, w)
          PROVE  KeysKnown'
      <3>1. runs[t].status = "running"
        BY <2>3, InvokingRuns DEF returns_interrupt, returns_result, raises, IInv
      <3>2. \A u \in Threads : runs'[u] = runs[u] \/ (u = t /\ runs'[u].key = runs[u].key)
        BY <2>0, <2>3 DEF returns_interrupt, returns_result, raises, TypeOK, Runs
      <3> QED
        BY <2>1, <3>1, <3>2
    <2>4. ASSUME NEW c \in Clients, NEW t \in Threads, NEW approve \in BOOLEAN,
                 NEW answered \in BOOLEAN, decide(c, t, approve, answered)
          PROVE  KeysKnown'
      BY <2>0, <2>1, <2>4 DEF decide, resume, resumable, TypeOK, Runs
    <2>5. CASE crash
      BY <2>5 DEF crash, KeysKnown
    <2>6. ASSUME UNCHANGED runs
          PROVE  KeysKnown'
      BY <2>6 DEF KeysKnown
    <2>7. ASSUME NEW t \in Threads, NEW w \in workers[t],
                 enters(t, w) \/ \E arrives \in BOOLEAN : notifies(t, w, arrives)
          PROVE  KeysKnown'
      BY <2>6, <2>7 DEF enters, notifies
    <2>8. CASE \/ \E c \in Clients : list_proposals(c)
               \/ \E c \in Clients, t \in Threads : decide_gone(c, t)
               \/ UNCHANGED vars
      BY <2>6, <2>8 DEF list_proposals, decide_gone, vars
    <2> QED
      BY <2>2, <2>3, <2>4, <2>5, <2>7, <2>8 DEF Next, Invoke
  <1> QED
    BY <1>1, <1>2, Inductive, PTL DEF Spec

-----------------------------------------------------------------------------
(* What the registry promises.                                             *)

\* Spec => []OneInvoker: runtime.py never has two threads in the graph of one run.
THEOREM OneInvokerAlways == Spec => []OneInvoker
  <1>1. IInv => OneInvoker
    BY DEF IInv, RunInv, WorkerInv, OneInvoker
  <1> QED
    BY <1>1, Inductive, PTL

\* Spec => []DecidedOnce: one proposal takes one decision, whatever clients repeat.
THEOREM DecidedOnceAlways == Spec => []DecidedOnce
  <1>1. IInv => DecidedOnce
    <2> SUFFICES ASSUME IInv, NEW t \in Threads
                 PROVE  /\ \A d, e \in accepted[t] : d.applied = e.applied => d = e
                        /\ runs[t].status = "paused" =>
                             {d.applied : d \in accepted[t]} = 1..(runs[t].proposal - 1)
      BY DEF DecidedOnce
    <2>1. DecisionInv(t) /\ interrupts[t] \in Nat
      BY DEF IInv, RunInv, TypeOK
    <2>2. ASSUME runs[t].status = "paused"
          PROVE  {d.applied : d \in accepted[t]} = 1..(runs[t].proposal - 1)
      <3>1. /\ runs[t].proposal = interrupts[t]
            /\ \A d \in accepted[t] : d.applied \in 1..interrupts[t]
            /\ \A d \in accepted[t] : d.applied # interrupts[t]
            /\ \A n \in 1..(interrupts[t] - 1) : \E d \in accepted[t] : d.applied = n
        BY <2>1, <2>2 DEF DecisionInv, Settled
      <3>2. \A d \in accepted[t] : d.applied \in 1..(interrupts[t] - 1)
        BY <2>1, <3>1
      <3> QED
        BY <3>1, <3>2
    <2> QED
      BY <2>1, <2>2 DEF DecisionInv
  <1> QED
    BY <1>1, Inductive, PTL

\* Spec => []NotifiedOnce: no event reaches the webhook of notify.py twice.
THEOREM NotifiedOnceAlways == Spec => []NotifiedOnce
  <1>1. IInv => NotifiedOnce
    <2> SUFFICES ASSUME IInv, NEW t \in Threads
                 PROVE  /\ \A i, j \in 1..Len(delivered[t]) :
                             Clash(delivered[t][i], delivered[t][j]) => i = j
                        /\ \A w \in workers[t], i \in 1..Len(delivered[t]) :
                             ~Clash(w.event, delivered[t][i])
      BY DEF NotifiedOnce
    <2>1. EventInv(t)
      BY DEF IInv, RunInv
    <2>2. \A w \in workers[t] : w \in Busy(t) \/ w \in Notifying(t)
      BY DEF Busy, Notifying
    <2>3. \A i \in 1..Len(delivered[t]) : ~Clash(NoEvent, delivered[t][i])
      BY <2>1 DEF EventInv, Due, Clash, IsEnd, NoEvent, Event
    <2> QED
      BY <2>1, <2>2, <2>3 DEF EventInv
  <1> QED
    BY <1>1, Inductive, PTL

-----------------------------------------------------------------------------
(* The registry implements RunService.                                     *)

\* The status of run t as RunService has it.
StateOf(t) == IF runs[t] # Absent THEN runs[t].status
              ELSE IF spawned[t] = 0 THEN "new" ELSE "forgotten"

\* What becomes of the three functions when an action touches run t only.
LEMMA ServiceMoves ==
    ASSUME TypeOK, NEW t \in Threads,
           \A u \in Threads \ {t} : runs'[u] = runs[u] /\ spawned'[u] = spawned[u]
    PROVE  [u \in Threads |-> StateOf(u)]' =
             [[u \in Threads |-> StateOf(u)] EXCEPT ![t] = StateOf(t)']
  BY DEF StateOf

\* A run in the registry is there as its status says.
LEMMA Registered ==
    ASSUME IInv, NEW t \in Threads
    PROVE  /\ runs[t].status # "absent" => runs[t] # Absent
           /\ runs[t].status \in {"running", "paused", "done", "failed"} =>
                StateOf(t) = runs[t].status
           /\ spawned[t] = 0 <=> StateOf(t) = "new"
  <1>1. Absent.status = "absent"
    BY DEF Absent
  <1>2. runs[t].status \in {"absent", "running", "paused", "done", "failed"}
    BY DEF IInv, TypeOK, Runs
  <1>3. FreshInv(t)
    BY DEF IInv, RunInv
  <1> QED
    BY <1>1, <1>2, <1>3 DEF StateOf, FreshInv

\* Spec => ImplementsService: what clients may rely on holds of runtime.py.
THEOREM RegistryImplementsService == Spec => ImplementsService
  <1>1. Init => Service!ServiceInit
    BY DEF Init, Service!ServiceInit
  <1>2. IInv /\ IInv' /\ [Next]_vars => [Service!ServiceNext]_(Service!service)
    <2> SUFFICES ASSUME IInv, IInv', [Next]_vars
                 PROVE  [Service!ServiceNext]_(Service!service)
      OBVIOUS
    <2> DEFINE states == [u \in Threads |-> StateOf(u)]
               answered == [u \in Threads |-> {d.applied : d \in accepted[u]}]
    <2>0. TypeOK /\ Absent.status = "absent"
      BY DEF IInv, Absent
    <2>1. ASSUME NEW t \in Threads, NEW key \in Keys, start_run(t, key)
          PROVE  Service!starts(t)
      <3>1. StateOf(t) = "new"
        BY <2>1, Registered DEF start_run
      <3>2. runs'[t].status = "running"
        BY <2>0, <2>1 DEF start_run, TypeOK
      <3>3. StateOf(t)' = "running"
        BY <2>0, <3>2 DEF StateOf
      <3>4. \A u \in Threads \ {t} : runs'[u] = runs[u] /\ spawned'[u] = spawned[u]
        BY <2>0, <2>1 DEF start_run, Spawn, TypeOK
      <3>5. states' = [states EXCEPT ![t] = "running"]
        BY <2>0, <3>3, <3>4, ServiceMoves
      <3>6. UNCHANGED <<interrupts, accepted>>
        BY <2>1 DEF start_run
      <3> QED
        BY <3>1, <3>5, <3>6 DEF Service!starts, StateOf
    <2>2. ASSUME NEW t \in Threads, NEW w \in workers[t], returns_interrupt(t, w)
          PROVE  Service!proposes(t)
      <3>1. StateOf(t) = "running"
        BY <2>2, InvokingRuns, Registered DEF returns_interrupt, IInv
      <3>2. runs'[t].status = "paused"
        BY <2>0, <2>2 DEF returns_interrupt, TypeOK, Runs
      <3>3. StateOf(t)' = "paused"
        BY <2>0, <3>2 DEF StateOf
      <3>4. \A u \in Threads \ {t} : runs'[u] = runs[u] /\ spawned'[u] = spawned[u]
        BY <2>0, <2>2 DEF returns_interrupt, TypeOK
      <3>5. states' = [states EXCEPT ![t] = "paused"]
        BY <2>0, <3>3, <3>4, ServiceMoves
      <3> QED
        BY <2>2, <3>1, <3>5 DEF Service!proposes, StateOf, returns_interrupt
    <2>3. ASSUME NEW t \in Threads, NEW w \in workers[t],
                 returns_result(t, w) \/ raises(t, w)
          PROVE  Service!ends(t)
      <3>1. StateOf(t) = "running"
        BY <2>3, InvokingRuns, Registered DEF returns_result, raises, IInv
      <3>2. runs'[t].status \in {"done", "failed"}
        BY <2>0, <2>3 DEF returns_result, raises, TypeOK, Runs
      <3>3. StateOf(t)' \in {"done", "failed"}
        BY <2>0, <3>2 DEF StateOf
      <3>4. \A u \in Threads \ {t} : runs'[u] = runs[u] /\ spawned'[u] = spawned[u]
        BY <2>0, <2>3 DEF returns_result, raises, TypeOK
      <3>5. states' = [states EXCEPT ![t] = StateOf(t)']
        BY <2>0, <3>4, ServiceMoves
      <3>6. UNCHANGED <<interrupts, accepted>>
        BY <2>3 DEF returns_result, raises
      <3> QED
        BY <3>1, <3>3, <3>5, <3>6 DEF Service!ends, StateOf
    <2>4. ASSUME NEW c \in Clients, NEW t \in Threads, NEW approve \in BOOLEAN,
                 NEW posted \in BOOLEAN, decide(c, t, approve, posted)
          PROVE  Service!answers(t)
      <3>1. runs[t].status = "paused" /\ StateOf(t) = "paused"
        BY <2>4, Registered DEF decide, resume, resumable
      <3>2. runs'[t].status = "running"
        BY <2>0, <2>4 DEF decide, resume, TypeOK, Runs
      <3>3. StateOf(t)' = "running"
        BY <2>0, <3>2 DEF StateOf
      <3>4. \A u \in Threads \ {t} : runs'[u] = runs[u] /\ spawned'[u] = spawned[u]
        BY <2>0, <2>4 DEF decide, resume, Spawn, TypeOK
      <3>5. states' = [states EXCEPT ![t] = "running"]
        BY <2>0, <3>3, <3>4, ServiceMoves
      <3>6. runs[t].proposal = interrupts[t]
        BY <3>1 DEF IInv, RunInv, DecisionInv
      <3>7. answered' = [answered EXCEPT ![t] = @ \cup {interrupts[t]}]
        <4> DEFINE d == [id |-> spawned[t] + 1, meant |-> seen[c][t],
                         applied |-> runs[t].proposal, approve |-> approve]
        <4>1. accepted' = [accepted EXCEPT ![t] = @ \cup {d}] /\ d.applied = interrupts[t]
          BY <2>4, <3>6 DEF decide
        <4>2. accepted \in [Threads -> SUBSET Decisions]
          BY <2>0 DEF TypeOK
        <4> HIDE DEF d
        <4>3. /\ accepted'[t] = accepted[t] \cup {d}
              /\ \A u \in Threads \ {t} : accepted'[u] = accepted[u]
          BY <4>1, <4>2
        <4>4. {e.applied : e \in accepted'[t]} =
                {e.applied : e \in accepted[t]} \cup {interrupts[t]}
          BY <4>1, <4>3
        <4>5. \A u \in Threads \ {t} :
                {e.applied : e \in accepted'[u]} = {e.applied : e \in accepted[u]}
          BY <4>3
        <4> QED
          BY <4>4, <4>5
      <3>8. UNCHANGED interrupts
        BY <2>4 DEF decide
      <3> QED
        BY <3>1, <3>5, <3>7, <3>8 DEF Service!answers, Service!takes_decision, StateOf
    <2>5. CASE crash
      <3>1. \A u \in Threads :
              StateOf(u)' = IF StateOf(u) = "new" THEN "new" ELSE "forgotten"
        <4> SUFFICES ASSUME NEW u \in Threads
                     PROVE  StateOf(u)' = IF StateOf(u) = "new" THEN "new" ELSE "forgotten"
          OBVIOUS
        <4>1. runs'[u] = Absent /\ spawned' = spawned
          BY <2>5 DEF crash
        <4> QED
          BY <4>1, Registered DEF StateOf
      <3>2. states' = [u \in Threads |-> IF states[u] = "new" THEN "new" ELSE "forgotten"]
        BY <3>1
      <3>3. UNCHANGED <<interrupts, accepted>>
        BY <2>5 DEF crash
      <3>4. UNCHANGED <<interrupts, answered>>
        BY <3>3
      <3> QED
        BY <3>2, <3>4 DEF Service!ServiceNext, Service!forgets, StateOf
    <2>6. ASSUME UNCHANGED <<runs, spawned, interrupts, accepted>>
          PROVE  UNCHANGED Service!service
      BY <2>6 DEF Service!service
    <2>7. ASSUME NEW t \in Threads, NEW w \in workers[t],
                 enters(t, w) \/ \E arrives \in BOOLEAN : notifies(t, w, arrives)
          PROVE  UNCHANGED Service!service
      BY <2>6, <2>7 DEF enters, notifies
    <2>8. CASE \/ \E c \in Clients : list_proposals(c)
               \/ \E c \in Clients, t \in Threads : decide_gone(c, t)
               \/ UNCHANGED vars
      BY <2>6, <2>8 DEF list_proposals, decide_gone, vars
    <2> QED
      BY <2>1, <2>2, <2>3, <2>4, <2>5, <2>7, <2>8 DEF Next, Invoke, Service!ServiceNext
  <1> QED
    BY <1>1, <1>2, Inductive, PTL DEF Spec, Service!ServiceSpec, ImplementsService

=============================================================================
