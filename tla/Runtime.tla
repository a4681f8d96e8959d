------------------------------- MODULE Runtime -------------------------------
(***************************************************************************)
(* The run registry of agent/runtime.py and the API of agent/api.py over   *)
(* it.  start_run and resume each start a daemon thread that calls         *)
(* graph.invoke, files what it returned under the lock, and notifies after *)
(* the lock is released.  What the graph returns is left open here; module *)
(* GatedAgent puts AgentGraph in its place.  Clients list proposals, hold  *)
(* on to what they have seen, and post decisions; an answer to a post may  *)
(* be lost and the post repeated.  The process may crash at any time.      *)
(***************************************************************************)
EXTENDS Naturals, Sequences

CONSTANTS Threads,       \* thread_ids that can be drawn
          Keys,          \* dedup_keys of the triggers
          Clients,       \* holders of the act-tier token
          MaxProposals   \* bound: interrupts one run may return

VARIABLES runs,        \* the registry: runs[t], or Absent when t is not in it
          workers,     \* workers[t]: the threads inside _invoke for t
          spawned,     \* spawned[t]: threads ever started for t, which names them
          interrupts,  \* history: proposals the graph has returned for t
          accepted,    \* history: accepted[t], the decisions answered with 200
          seen,        \* seen[c][t]: the proposal of t client c holds, 0 for none
          delivered    \* delivered[t]: the events the webhook received, in order

vars == <<runs, workers, spawned, interrupts, accepted, seen, delivered>>

-----------------------------------------------------------------------------
Absent == [status |-> "absent", key |-> "none", proposal |-> 0]

Live == {"running", "paused"}

\* Which events there are; a proposal carries its number, the others 0.
Event(kind, n) == [event |-> kind, proposal |-> n]
NoEvent == Event("none", 0)

Init == /\ runs = [t \in Threads |-> Absent]
        /\ workers = [t \in Threads |-> {}]
        /\ spawned = [t \in Threads |-> 0]
        /\ interrupts = [t \in Threads |-> 0]
        /\ accepted = [t \in Threads |-> {}]
        /\ seen = [c \in Clients |-> [t \in Threads |-> 0]]
        /\ delivered = [t \in Threads |-> <<>>]

-----------------------------------------------------------------------------
(* The registry.                                                           *)

\* threading.Thread(target=self._invoke, ...).start()
Spawn(t, payload) ==
    /\ workers' = [workers EXCEPT ![t] = @ \cup
                     {[id |-> spawned[t] + 1, payload |-> payload,
                       at |-> "spawned", event |-> NoEvent]}]
    /\ spawned' = [spawned EXCEPT ![t] = @ + 1]

\* The thread_id is a uuid: one that no run has had.
start_run(t, key) ==
    /\ spawned[t] = 0
    /\ runs' = [runs EXCEPT ![t] = [status |-> "running", key |-> key,
                                    proposal |-> 0]]
    /\ Spawn(t, "start")
    /\ UNCHANGED <<interrupts, accepted, seen, delivered>>

\* Mutants: a run that is not paused can be resumed too.
ResumableWhenLive(t) == runs[t].status \in Live
ResumableUnlessRunning(t) == runs[t].status # "running"

resumable(t) == runs[t].status = "paused"

\* Mutant: the status is left for the worker to change.
ResumeLeavesStatus(t, payload) ==
    /\ resumable(t)
    /\ Spawn(t, payload)
    /\ UNCHANGED runs

\* A decision is taken of a paused run only, and the run stops being paused in
\* the same critical section.
resume(t, payload) ==
    /\ resumable(t)
    /\ runs' = [runs EXCEPT ![t].status = "running"]
    /\ Spawn(t, payload)

\* A worker moves on, from one place in _invoke to the next.
Moves(t, w, place, event) ==
    workers' = [workers EXCEPT ![t] =
                  (@ \ {w}) \cup {[w EXCEPT !.at = place, !.event = event]}]

enters(t, w) ==
    /\ w.at = "spawned"
    /\ Moves(t, w, "invoking", NoEvent)
    /\ UNCHANGED <<runs, spawned, interrupts, accepted, seen, delivered>>

\* graph.invoke returned with __interrupt__: the next proposal.
returns_interrupt(t, w) ==
    /\ w.at = "invoking"
    /\ interrupts[t] < MaxProposals
    /\ interrupts' = [interrupts EXCEPT ![t] = @ + 1]
    /\ runs' = [runs EXCEPT ![t].status = "paused",
                            ![t].proposal = interrupts[t] + 1]
    /\ Moves(t, w, "notifying", Event("proposal", interrupts[t] + 1))
    /\ UNCHANGED <<spawned, accepted, seen, delivered>>

returns_result(t, w) ==
    /\ w.at = "invoking"
    /\ runs' = [runs EXCEPT ![t].status = "done", ![t].proposal = 0]
    /\ Moves(t, w, "notifying", Event("outcome", 0))
    /\ UNCHANGED <<spawned, interrupts, accepted, seen, delivered>>

\* Mutant: the status the panel shows for such a run.
RaisesAsError(t, w) ==
    /\ w.at = "invoking"
    /\ runs' = [runs EXCEPT ![t].status = "error"]
    /\ Moves(t, w, "notifying", Event("run_failed", 0))
    /\ UNCHANGED <<spawned, interrupts, accepted, seen, delivered>>

\* Mutant: the exception leaves the worker, and its run running.
RaisesUncaught(t, w) ==
    /\ w.at = "invoking"
    /\ workers' = [workers EXCEPT ![t] = @ \ {w}]
    /\ UNCHANGED <<runs, spawned, interrupts, accepted, seen, delivered>>

\* The except branch: the proposal of a failed run stays in its record.
raises(t, w) ==
    /\ w.at = "invoking"
    /\ runs' = [runs EXCEPT ![t].status = "failed"]
    /\ Moves(t, w, "notifying", Event("run_failed", 0))
    /\ UNCHANGED <<spawned, interrupts, accepted, seen, delivered>>

\* Mutant: a webhook call that timed out after the receiver took it is repeated.
NotifiesAgain(t, w, arrives) ==
    /\ w.at = "notifying"
    /\ arrives
    /\ delivered' = [delivered EXCEPT ![t] = Append(@, w.event)]
    /\ \/ workers' = [workers EXCEPT ![t] = @ \ {w}]
       \/ UNCHANGED workers
    /\ UNCHANGED <<runs, spawned, interrupts, accepted, seen>>

\* notify, outside the lock and best effort: the webhook gets the event or not.
notifies(t, w, arrives) ==
    /\ w.at = "notifying"
    /\ workers' = [workers EXCEPT ![t] = @ \ {w}]
    /\ delivered' = IF arrives
                    THEN [delivered EXCEPT ![t] = Append(@, w.event)]
                    ELSE delivered
    /\ UNCHANGED <<runs, spawned, interrupts, accepted, seen>>

-----------------------------------------------------------------------------
(* The API, as its clients use it.                                         *)

\* What GET /proposals shows of run t.
shown(t) == IF runs[t].status = "paused" THEN runs[t].proposal ELSE 0

list_proposals(c) ==
    /\ seen' = [seen EXCEPT ![c] = [t \in Threads |-> shown(t)]]
    /\ UNCHANGED <<runs, workers, spawned, interrupts, accepted, delivered>>

\* The client forgets a proposal once it has an answer, 200 or 409; without
\* one ("agent unreachable") it may post again.
Answered(c, t, answered) ==
    seen' = IF answered THEN [seen EXCEPT ![c][t] = 0] ELSE seen

decide(c, t, approve, answered) ==
    /\ seen[c][t] # 0
    /\ resume(t, IF approve THEN "approve" ELSE "deny")
    /\ accepted' = [accepted EXCEPT ![t] = @ \cup
                      {[id |-> spawned[t] + 1, meant |-> seen[c][t],
                        applied |-> runs[t].proposal, approve |-> approve]}]
    /\ Answered(c, t, answered)
    /\ UNCHANGED <<interrupts, delivered>>

\* 409: run is not paused at the gate.
decide_gone(c, t) ==
    /\ seen[c][t] # 0
    /\ ~resumable(t)
    /\ Answered(c, t, TRUE)
    /\ UNCHANGED <<runs, workers, spawned, interrupts, accepted, delivered>>

\* The process dies and starts again: registry and daemon threads are gone.
crash ==
    /\ \E t \in Threads : runs[t] # Absent
    /\ runs' = [t \in Threads |-> Absent]
    /\ workers' = [t \in Threads |-> {}]
    /\ UNCHANGED <<spawned, interrupts, accepted, seen, delivered>>

-----------------------------------------------------------------------------
Invoke(t, w) == \/ enters(t, w)
                \/ returns_interrupt(t, w) \/ returns_result(t, w) \/ raises(t, w)

Next == \/ \E t \in Threads, key \in Keys : start_run(t, key)
        \/ \E t \in Threads : \E w \in workers[t] :
             Invoke(t, w) \/ \E arrives \in BOOLEAN : notifies(t, w, arrives)
        \/ \E c \in Clients : list_proposals(c)
        \/ \E c \in Clients, t \in Threads, approve, answered \in BOOLEAN :
             decide(c, t, approve, answered)
        \/ \E c \in Clients, t \in Threads : decide_gone(c, t)
        \/ crash

Spec == Init /\ [][Next]_vars

-----------------------------------------------------------------------------
(* What the registry promises.                                             *)

Runs == [status : {"absent", "running", "paused", "done", "failed"},
         key : Keys \cup {"none"}, proposal : Nat]
Events == [event : {"none", "proposal", "outcome", "run_failed"}, proposal : Nat]
Workers == [id : Nat, payload : {"start", "approve", "deny"},
            at : {"spawned", "invoking", "notifying"}, event : Events]
Decisions == [id : Nat, meant : Nat, applied : Nat, approve : BOOLEAN]

\* Every variable holds values of its kind.
TypeOK == /\ runs \in [Threads -> Runs]
          /\ workers \in [Threads -> SUBSET Workers]
          /\ spawned \in [Threads -> Nat]
          /\ interrupts \in [Threads -> Nat]
          /\ accepted \in [Threads -> SUBSET Decisions]
          /\ seen \in [Clients -> [Threads -> Nat]]
          /\ delivered \in [Threads -> Seq(Events)]

Busy(t) == {w \in workers[t] : w.at # "notifying"}

\* The graph of a run is never entered twice at once, whoever decides at the
\* same time: a run is running exactly while one thread is on its way through
\* graph.invoke, and no thread is when it is paused, done, failed or unknown.
OneInvoker ==
    \A t \in Threads :
        /\ \A v, w \in Busy(t) : v = w
        /\ runs[t].status = "running" <=> Busy(t) # {}

\* One proposal takes one decision, from all clients and retries together; and
\* the proposals before the one that waits have all had theirs.
DecidedOnce ==
    \A t \in Threads :
        /\ \A d, e \in accepted[t] : d.applied = e.applied => d = e
        /\ runs[t].status = "paused" =>
             {d.applied : d \in accepted[t]} = 1..(runs[t].proposal - 1)

\* Two events of which a run has at most one.
IsEnd(e) == e.event \in {"outcome", "run_failed"}
Clash(e, f) == e = f \/ (IsEnd(e) /\ IsEnd(f))

\* The webhook hears of each proposal, and of the end of a run, at most once.
NotifiedOnce ==
    \A t \in Threads :
        /\ \A i, j \in 1..Len(delivered[t]) :
             Clash(delivered[t][i], delivered[t][j]) => i = j
        /\ \A w \in workers[t], i \in 1..Len(delivered[t]) :
             ~Clash(w.event, delivered[t][i])

\* What a client may rely on holds of every run, through every race of clients,
\* lost answer and crash: the registry implements RunService.  A run leaves the
\* gate by one answer to the proposal it shows, each proposal is a new one, and
\* a run that is done or failed stays so until the process dies.
Service == INSTANCE RunService WITH
             state <- [t \in Threads |->
                         IF runs[t] # Absent THEN runs[t].status
                         ELSE IF spawned[t] = 0 THEN "new" ELSE "forgotten"],
             proposals <- interrupts,
             answered <- [t \in Threads |-> {d.applied : d \in accepted[t]}]

ImplementsService == Service!ServiceSpec

-----------------------------------------------------------------------------
(* What the documents say and the registry does not do.                    *)

\* DESIGN.md:165: 409 if already decided.  A decision names the run, not the
\* proposal, so one made about a proposal already decided is accepted for the
\* proposal that followed it.
DecisionFitsProposal ==
    \A t \in Threads : \A d \in accepted[t] : d.meant = d.applied

=============================================================================
