------------------------------- MODULE Watcher -------------------------------
(***************************************************************************)
(* The trigger watcher of agent/watcher.py: sweep after sweep it lists the *)
(* pods of every watched namespace, classifies each as it was listed, and  *)
(* starts a run for a failure unless one is active for the same dedup key  *)
(* or the key fired within the debounce window.  The cluster goes on       *)
(* changing under the sweep, runs end (or wait for ever) on their own, and *)
(* calls to the API server fail.                                           *)
(***************************************************************************)
EXTENDS Naturals, FiniteSets, Conditions

CONSTANTS Pods,        \* [namespace, name] of the pods there may be
          Watched,     \* config.namespaces_watched
          PodStates,   \* the pod states the cluster goes through
          Debounce,    \* DEBOUNCE_SECONDS, in clock ticks, by trigger id
          MaxCrashes   \* bound: restarts of the agent process

ASSUME WatcherAssumption == /\ \A p \in Pods : {"namespace", "name"} = DOMAIN p
                            /\ PodStates \subseteq AllPodStates
                            /\ Debounce \in [Triggers -> Nat]
                            /\ MaxCrashes \in Nat

VARIABLES cluster,      \* cluster[p]: what pod p is like now
          unscheduled,  \* pods a FailedScheduling event of their namespace names
          pc,           \* where the watcher thread is; "dead" when it is gone
          todo,         \* namespaces the sweep has still to list
          listed,       \* the listed pods still to classify, as they were listed
          pending,      \* names of the listed pods that were Pending
          firing,       \* the dedup key _fire is working on
          idle,         \* idle[k]: time since last_fired[k], up to the window
          active,       \* active[k]: runs of k that are running or paused
          crashes,
          waited        \* waited[k]: time since a run of k was last started, up to
                        \* the window: history, which no action of the code reads


vars == <<cluster, unscheduled, pc, todo, listed, pending, firing, idle, active,
          crashes, waited>>
environment == <<cluster, unscheduled, crashes>>
sweep == <<todo, listed, pending>>

Keys == [trigger : Triggers, pod : Pods]
NoKey == [trigger |-> "none", pod |-> "none"]

\* last_fired.get(key, -debounce): a key that never fired is past its window.
NeverFired == [k \in Keys |-> Debounce[k.trigger]]

Init == /\ cluster = [p \in Pods |-> IF "ok" \in PodStates THEN "ok" ELSE "absent"]
        /\ unscheduled = {}
        /\ pc = "list" /\ todo = Watched /\ listed = <<>> /\ pending = {}
        /\ firing = NoKey
        /\ idle = NeverFired
        /\ active = [k \in Keys |-> 0]
        /\ crashes = 0
        /\ waited = NeverFired

-----------------------------------------------------------------------------
(* scan_once and _fire.                                                    *)

\* The sweep is over: sleep(poll_seconds), and again.
next_sweep == /\ pc = "list" /\ todo = {}
              /\ todo' = Watched
              /\ UNCHANGED <<environment, pc, listed, pending, firing, idle, active>>

list_pods(ns) ==
    /\ pc = "list" /\ ns \in todo
    /\ todo' = todo \ {ns}
    /\ LET there == {p \in Pods : p.namespace = ns /\ cluster[p] # "absent"}
       IN  /\ listed' = [p \in there |-> cluster[p]]
           /\ pending' = {p.name : p \in {q \in there : cluster[q] \in PendingPhase}}
    /\ pc' = "classify"
    /\ UNCHANGED <<environment, firing, idle, active>>

\* The list call failed: the namespace is skipped until the next sweep.
list_fails(ns) ==
    /\ pc = "list" /\ ns \in todo
    /\ todo' = todo \ {ns}
    /\ UNCHANGED <<environment, pc, listed, pending, firing, idle, active>>

classify_pod(p) ==
    /\ pc = "classify" /\ p \in DOMAIN listed
    /\ listed' = [q \in DOMAIN listed \ {p} |-> listed[q]]
    /\ LET trigger == classify(listed[p], pending, unscheduled)
       IN  IF trigger = "none"
           THEN UNCHANGED <<pc, firing>>
           ELSE pc' = "fire" /\ firing' = [trigger |-> trigger, pod |-> p]
    /\ UNCHANGED <<environment, todo, pending, idle, active>>

\* list_namespaced_event raises, and nothing up to run() catches it.
classify_raises(p) ==
    /\ pc = "classify" /\ p \in DOMAIN listed /\ listed[p] = "pending"
    /\ pc' = "dead"
    /\ UNCHANGED <<environment, sweep, firing, idle, active>>

namespace_done == /\ pc = "classify" /\ DOMAIN listed = {}
                  /\ pc' = "list"
                  /\ UNCHANGED <<environment, sweep, firing, idle, active>>

\* Mutant: one run is not yet too many.
HasSeveralRuns(k) == active[k] > 1

has_active_run(k) == active[k] > 0

\* _fire up to the answer of has_active_run, which takes the registry's lock.
fire == /\ pc = "fire"
        /\ IF has_active_run(firing)
           THEN pc' = "classify" /\ firing' = NoKey
           ELSE pc' = "debounce" /\ UNCHANGED firing
        /\ UNCHANGED <<environment, sweep, idle, active>>

debounced(k) == idle[k] < Debounce[k.trigger]

\* Mutant: last_fired is set before the window is looked at.
StartRunRefreshes ==
    /\ pc = "debounce"
    /\ idle' = [idle EXCEPT ![firing] = 0]
    /\ IF debounced(firing)
       THEN UNCHANGED active
       ELSE active' = [active EXCEPT ![firing] = @ + 1]
    /\ pc' = "classify" /\ firing' = NoKey
    /\ UNCHANGED <<environment, sweep>>

\* Mutant: the run is started and last_fired is not set.
StartRunForgets ==
    /\ pc = "debounce"
    /\ IF debounced(firing)
       THEN UNCHANGED active
       ELSE active' = [active EXCEPT ![firing] = @ + 1]
    /\ pc' = "classify" /\ firing' = NoKey
    /\ UNCHANGED <<environment, sweep, idle>>

\* The rest of _fire: debounce, last_fired, start_run.
start_run ==
    /\ pc = "debounce"
    /\ IF debounced(firing)
       THEN UNCHANGED <<idle, active>>
       ELSE /\ idle' = [idle EXCEPT ![firing] = 0]
            /\ active' = [active EXCEPT ![firing] = @ + 1]
    /\ pc' = "classify" /\ firing' = NoKey
    /\ UNCHANGED <<environment, sweep>>

-----------------------------------------------------------------------------
(* Everything else.                                                        *)

\* A run of k is done or failed.
run_ends(k) == /\ active[k] > 0
               /\ active' = [active EXCEPT ![k] = @ - 1]
               /\ UNCHANGED <<environment, sweep, pc, firing, idle, waited>>

pod_changes(p, s) ==
    /\ cluster[p] # s
    /\ cluster' = [cluster EXCEPT ![p] = s]
    /\ UNCHANGED <<unscheduled, pc, sweep, firing, idle, active, crashes, waited>>

\* The scheduler complains of a pending pod; the event outlives the complaint.
event_appears(p) ==
    /\ cluster[p] = "pending" /\ p \notin unscheduled
    /\ unscheduled' = unscheduled \cup {p}
    /\ UNCHANGED <<cluster, pc, sweep, firing, idle, active, crashes, waited>>

event_expires(p) ==
    /\ p \in unscheduled
    /\ unscheduled' = unscheduled \ {p}
    /\ UNCHANGED <<cluster, pc, sweep, firing, idle, active, crashes, waited>>

Later(clock, k) == IF clock[k] < Debounce[k.trigger] THEN clock[k] + 1 ELSE clock[k]

\* Time passes where it makes a difference: until every window is over.
Tick == /\ \E k \in Keys : debounced(k) \/ waited[k] < Debounce[k.trigger]
        /\ idle' = [k \in Keys |-> Later(idle, k)]
        /\ waited' = [k \in Keys |-> Later(waited, k)]
        /\ UNCHANGED <<environment, pc, sweep, firing, active>>

\* The process restarts: debounce and registry start empty.
crash == /\ crashes < MaxCrashes
         /\ crashes' = crashes + 1
         /\ pc' = "list" /\ todo' = Watched /\ listed' = <<>> /\ pending' = {}
         /\ firing' = NoKey
         /\ idle' = NeverFired /\ waited' = NeverFired
         /\ active' = [k \in Keys |-> 0]
         /\ UNCHANGED <<cluster, unscheduled>>

\* The history of the watcher's own steps: a run was started, whoever remembers it.
Watches == waited' = [k \in Keys |-> IF active'[k] > active[k] THEN 0 ELSE waited[k]]

Scan == \/ next_sweep \/ \E ns \in Watched : list_pods(ns) \/ list_fails(ns)
        \/ \E p \in Pods : classify_pod(p) \/ classify_raises(p)
        \/ namespace_done \/ fire \/ start_run

Next == \/ Scan /\ Watches
        \/ \E k \in Keys : run_ends(k)
        \/ \E p \in Pods, s \in PodStates : pod_changes(p, s)
        \/ \E p \in Pods : event_appears(p) \/ event_expires(p)
        \/ Tick \/ crash

Spec == Init /\ [][Next]_vars

\* The watcher thread runs and time passes; the API server does not refuse to
\* list a namespace for ever.  Runs need not end, nor the cluster change.
FairSpec == Spec /\ WF_vars(Scan /\ Watches) /\ WF_vars(Tick)
                 /\ \A ns \in Watched : SF_vars(list_pods(ns) /\ Watches)

-----------------------------------------------------------------------------
(* What the watcher promises.                                              *)

\* Every variable holds a value of its kind.
TypeOK == /\ cluster \in [Pods -> AllPodStates]
          /\ unscheduled \subseteq Pods
          /\ pc \in {"list", "classify", "fire", "debounce", "dead"}
          /\ todo \subseteq Watched
          /\ DOMAIN listed \subseteq Pods
          /\ \A p \in DOMAIN listed : listed[p] \in AllPodStates
          /\ pending \subseteq {p.name : p \in Pods}
          /\ firing \in Keys \cup {NoKey}
          /\ idle \in [Keys -> Nat]
          /\ waited \in [Keys -> Nat]
          /\ active \in [Keys -> Nat]
          /\ crashes \in 0..MaxCrashes

\* At most one active run per dedup key, for all that _fire asks the registry in
\* one critical section and adds to it in another.
OneActiveRun == \A k \in Keys : active[k] <= 1

\* Between two runs of one key, while the process lives, the whole debounce window
\* of its trigger passes, whether or not the first run is still active.
DebounceHolds ==
    [][\A k \in Keys : active'[k] > active[k] => waited[k] >= Debounce[k.trigger]]_vars

\* A watched pod that stays OOM-killed, or stays in a failure backoff, always has
\* a run again: while the watcher lives nothing but a run already active keeps a
\* new one from being started.
PersistentFailureFires ==
    \A p \in {q \in Pods : q.namespace \in Watched} :
        \A failure \in {[state |-> "oom", trigger |-> "oom"],
                        [state |-> "backoff", trigger |-> "crashloop"],
                        [state |-> "nopull", trigger |-> "crashloop"]} :
            <>[](cluster[p] = failure.state /\ pc # "dead") =>
                []<>(active[[trigger |-> failure.trigger, pod |-> p]] > 0)

-----------------------------------------------------------------------------
(* What the documents say and the watcher does not do.                     *)

\* DESIGN.md:81: it must keep watching while runs are paused.  An exception in
\* classify ends the thread, and nothing restarts it.
KeepsWatching == []<>(pc = "list")

\* SPEC.md:55: the condition is a Pending pod with a FailedScheduling event.  The
\* events are looked up in the namespace "eval", so elsewhere it never holds.
UnschedulableFires ==
    \A p \in {q \in Pods : q.namespace \in Watched} :
        <>[](cluster[p] = "pending" /\ p \in unscheduled /\ pc # "dead") =>
            []<>(active[[trigger |-> "pending_unschedulable", pod |-> p]] > 0)

=============================================================================
