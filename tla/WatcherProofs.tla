--------------------------- MODULE WatcherProofs ---------------------------
(***************************************************************************)
(* Proofs about Watcher, for any pods, namespaces, windows and number of   *)
(* restarts.                                                               *)
(***************************************************************************)
EXTENDS Watcher, TLAPS

-----------------------------------------------------------------------------
(* Helpers.                                                                *)

\* classify gives a trigger id or none.
LEMMA ClassifyType ==
    ASSUME NEW s, NEW names, NEW events
    PROVE  classify(s, names, events) \in Triggers \cup {"none"}
  BY DEF classify, Triggers

\* A dedup key has a window, and it is a number of ticks.
LEMMA WindowType == \A k \in Keys : Debounce[k.trigger] \in Nat
  BY WatcherAssumption DEF Keys

\* What a step does to the history: a run started, time passes, the process restarts.
NextWaits == \/ waited' = [k \in Keys |-> IF active'[k] > active[k] THEN 0 ELSE waited[k]]
             \/ waited' = [k \in Keys |-> Later(waited, k)]
             \/ waited' = NeverFired
             \/ waited' = waited

\* Every step does one of these.
LEMMA NextForm == [Next]_vars => NextWaits
  BY DEF Next, NextWaits, Watches, run_ends, pod_changes, event_appears, event_expires,
     Tick, crash, vars

\* They keep the history a number of ticks.
LEMMA NextWaited ==
    ASSUME TypeOK, [Next]_vars
    PROVE  NextWaits /\ waited' \in [Keys -> Nat]
  <1>1. NextWaits
    BY NextForm
  <1>2. NeverFired \in [Keys -> Nat]
    BY WindowType DEF NeverFired
  <1>3. waited \in [Keys -> Nat]
    BY DEF TypeOK
  <1>4. \A k \in Keys : Later(waited, k) \in Nat
    BY <1>3 DEF Later
  <1> QED
    BY <1>1, <1>2, <1>3, <1>4 DEF NextWaits

-----------------------------------------------------------------------------
(* Types.                                                                  *)

\* Spec => []TypeOK: every variable of the watcher and of its surroundings keeps to
\* its kind.
THEOREM WatcherTypeCorrect == Spec => []TypeOK
  <1>1. Init => TypeOK
    <2> SUFFICES ASSUME Init PROVE TypeOK
      OBVIOUS
    <2>1. NeverFired \in [Keys -> Nat]
      BY WindowType DEF NeverFired
    <2>2. cluster \in [Pods -> AllPodStates]
      BY DEF Init, AllPodStates
    <2> QED
      BY <2>1, <2>2, WatcherAssumption DEF Init, TypeOK
  <1>2. TypeOK /\ [Next]_vars => TypeOK'
    <2> SUFFICES ASSUME TypeOK, [Next]_vars PROVE TypeOK'
      OBVIOUS
    <2>w. waited' \in [Keys -> Nat]
      BY NextWaited DEF NextWaits, TypeOK
    <2> USE <2>w
    <2>1. CASE next_sweep
      BY <2>1 DEF next_sweep, environment, TypeOK
    <2>2. ASSUME NEW ns \in Watched, list_pods(ns)
          PROVE  TypeOK'
      <3>1. DOMAIN listed' \subseteq Pods
        BY <2>2 DEF list_pods
      <3>2. \A p \in DOMAIN listed' : listed'[p] \in AllPodStates
        BY <2>2 DEF list_pods, TypeOK
      <3>3. pending' \subseteq {p.name : p \in Pods}
        BY <2>2 DEF list_pods
      <3> QED
        BY <2>2, <3>1, <3>2, <3>3 DEF list_pods, environment, TypeOK
    <2>3. ASSUME NEW ns \in Watched, list_fails(ns)
          PROVE  TypeOK'
      BY <2>3 DEF list_fails, environment, TypeOK
    <2>4. ASSUME NEW p \in Pods, classify_pod(p)
          PROVE  TypeOK'
      <3> DEFINE trigger == classify(listed[p], pending, unscheduled)
      <3>1. trigger # "none" => [trigger |-> trigger, pod |-> p] \in Keys
        BY ClassifyType DEF Keys
      <3>2. /\ pc' \in {"classify", "fire"}
            /\ firing' \in Keys \cup {NoKey}
        BY <2>4, <3>1 DEF classify_pod, TypeOK
      <3>3. /\ DOMAIN listed' \subseteq Pods
            /\ \A q \in DOMAIN listed' : listed'[q] \in AllPodStates
        BY <2>4 DEF classify_pod, TypeOK
      <3> QED
        BY <2>4, <3>2, <3>3 DEF classify_pod, environment, TypeOK
    <2>5. ASSUME NEW p \in Pods, classify_raises(p)
          PROVE  TypeOK'
      BY <2>5 DEF classify_raises, environment, sweep, TypeOK
    <2>6. CASE namespace_done \/ fire
      BY <2>6 DEF namespace_done, fire, environment, sweep, TypeOK
    <2>7. CASE start_run
      BY <2>7 DEF start_run, environment, sweep, TypeOK
    <2>8. ASSUME NEW k \in Keys, run_ends(k)
          PROVE  TypeOK'
      BY <2>8 DEF run_ends, environment, sweep, TypeOK
    <2>9. ASSUME NEW p \in Pods, NEW s \in PodStates, pod_changes(p, s)
          PROVE  TypeOK'
      BY <2>9, WatcherAssumption DEF pod_changes, sweep, TypeOK
    <2>10. ASSUME NEW p \in Pods, event_appears(p) \/ event_expires(p)
           PROVE  TypeOK'
      BY <2>10 DEF event_appears, event_expires, sweep, TypeOK
    <2>11. CASE Tick
      <3>1. \A k \in Keys : Later(idle, k) \in Nat
        BY DEF Later, TypeOK
      <3> QED
        BY <2>11, <3>1 DEF Tick, environment, sweep, TypeOK
    <2>12. CASE crash
      <3>1. NeverFired \in [Keys -> Nat]
        BY WindowType DEF NeverFired
      <3> QED
        BY <2>12, <3>1, WatcherAssumption DEF crash, TypeOK
    <2>13. CASE UNCHANGED vars
      BY <2>13 DEF vars, TypeOK
    <2> QED
      BY <2>1, <2>2, <2>3, <2>4, <2>5, <2>6, <2>7, <2>8, <2>9, <2>10, <2>11, <2>12,
         <2>13 DEF Next, Scan
  <1> QED
    BY <1>1, <1>2, PTL DEF Spec

-----------------------------------------------------------------------------
(* The inductive invariant.                                                *)

\* A key has been asked for by the time _fire works on it.
FireInv == pc \in {"fire", "debounce"} => firing \in Keys

\* What has_active_run answered is still so when start_run acts on it: nobody else
\* adds runs, and those there are only end.
AnswerInv == pc = "debounce" => active[firing] = 0

\* The time since a run of k started is looked at up to the window only.
WindowInv == \A k \in Keys : idle[k] <= Debounce[k.trigger]

\* last_fired remembers every run this process started, and when.
RemembersInv == waited = idle

\* Inductive given TypeOK.
IInv == FireInv /\ AnswerInv /\ WindowInv /\ OneActiveRun /\ RemembersInv

\* Only start_run adds a run, and only of the key it works on.
LEMMA OnlyStartAdds ==
    ASSUME TypeOK, [Next]_vars, NEW k \in Keys, active'[k] > active[k]
    PROVE  start_run /\ ~debounced(firing) /\ k = firing
  <1>1. active # active'
    BY DEF TypeOK
  <1>2. ~ \E j \in Keys : run_ends(j)
    BY DEF run_ends, TypeOK
  <1>3. ~ crash
    BY DEF crash, TypeOK
  <1>4. start_run
    BY <1>1, <1>2, <1>3 DEF Next, Scan, next_sweep, list_pods, list_fails, classify_pod,
       classify_raises, namespace_done, fire, pod_changes, event_appears, event_expires,
       Tick, vars
  <1> QED
    BY <1>4 DEF start_run, TypeOK

\* Whoever adds no run leaves the history alone.
LEMMA NothingStarted ==
    ASSUME TypeOK, Watches, UNCHANGED active
    PROVE  waited' = waited
  BY DEF Watches, TypeOK

\* start_run is the only step to set last_fired, and sets it when it starts a run.
LEMMA StartRemembers ==
    ASSUME TypeOK, FireInv, RemembersInv, start_run, Watches
    PROVE  RemembersInv'
  <1>1. firing \in Keys
    BY DEF start_run, FireInv
  <1>2. \A k \in Keys : active[k] \in Nat
    BY DEF TypeOK
  <1>3. CASE debounced(firing)
    BY <1>3, NothingStarted DEF start_run, RemembersInv
  <1>4. CASE ~debounced(firing)
    <2>1. /\ active' = [active EXCEPT ![firing] = @ + 1]
          /\ idle' = [idle EXCEPT ![firing] = 0]
      BY <1>4 DEF start_run
    <2>2. \A k \in Keys : active'[k] > active[k] <=> k = firing
      BY <2>1, <1>1, <1>2 DEF TypeOK
    <2>3. \A k \in Keys : waited'[k] = idle'[k]
      BY <2>1, <2>2, <1>1 DEF Watches, RemembersInv, TypeOK
    <2>4. waited' = [k \in Keys |-> waited'[k]] /\ idle' = [k \in Keys |-> idle'[k]]
      BY <2>1 DEF Watches, TypeOK
    <2> QED
      BY <2>3, <2>4 DEF RemembersInv
  <1> QED
    BY <1>3, <1>4

\* Spec => []IInv.  The environment and the sweep leave alone what the invariant is
\* about; fire and start_run are the two halves of starting a run.
LEMMA WatcherInductive == Spec => []IInv
  <1>1. Init => IInv
    BY WindowType DEF Init, NeverFired, IInv, FireInv, AnswerInv, WindowInv, OneActiveRun,
       RemembersInv
  <1>2. TypeOK /\ IInv /\ [Next]_vars => IInv'
    <2> SUFFICES ASSUME TypeOK, IInv, [Next]_vars PROVE IInv'
      OBVIOUS
    <2> USE DEF IInv, FireInv, AnswerInv, WindowInv, OneActiveRun
    <2>1. ASSUME Watches,
                 next_sweep \/ \E ns \in Watched : list_pods(ns) \/ list_fails(ns)
          PROVE  IInv'
      BY <2>1, NothingStarted DEF next_sweep, list_pods, list_fails, RemembersInv
    <2>2. ASSUME Watches, NEW p \in Pods, classify_pod(p)
          PROVE  IInv'
      BY <2>2, ClassifyType, NothingStarted DEF classify_pod, Keys, RemembersInv
    <2>3. ASSUME Watches, namespace_done \/ \E p \in Pods : classify_raises(p)
          PROVE  IInv'
      BY <2>3, NothingStarted DEF namespace_done, classify_raises, RemembersInv
    <2>4. ASSUME Watches, fire
          PROVE  IInv'
      <3>1. pc' = "debounce" => active[firing] = 0
        BY <2>4 DEF fire, has_active_run, TypeOK
      <3>2. RemembersInv'
        BY <2>4, NothingStarted DEF fire, RemembersInv
      <3> QED
        BY <2>4, <3>1, <3>2 DEF fire
    <2>5. ASSUME Watches, start_run
          PROVE  IInv'
      <3>1. firing \in Keys /\ active[firing] = 0
        BY <2>5 DEF start_run
      <3>2. OneActiveRun'
        BY <2>5, <3>1 DEF start_run, TypeOK
      <3>3. WindowInv'
        BY <2>5, <3>1, WindowType DEF start_run, TypeOK
      <3>4. RemembersInv'
        BY <2>5, StartRemembers
      <3> QED
        BY <2>5, <3>2, <3>3, <3>4 DEF start_run
    <2>6. ASSUME NEW k \in Keys, run_ends(k)
          PROVE  IInv'
      BY <2>6 DEF run_ends, RemembersInv, TypeOK
    <2>7. ASSUME NEW p \in Pods,
                 \/ \E s \in PodStates : pod_changes(p, s)
                 \/ event_appears(p) \/ event_expires(p)
          PROVE  IInv'
      BY <2>7 DEF pod_changes, event_appears, event_expires, RemembersInv
    <2>8. CASE Tick
      <3>1. WindowInv'
        BY <2>8, WindowType DEF Tick, Later, TypeOK
      <3>2. RemembersInv'
        BY <2>8 DEF Tick, Later, RemembersInv
      <3> QED
        BY <2>8, <3>1, <3>2 DEF Tick
    <2>9. CASE crash
      BY <2>9, WindowType DEF crash, NeverFired, RemembersInv
    <2>10. CASE UNCHANGED vars
      BY <2>10 DEF vars, RemembersInv
    <2> QED
      BY <2>1, <2>2, <2>3, <2>4, <2>5, <2>6, <2>7, <2>8, <2>9, <2>10 DEF Next, Scan
  <1> QED
    BY <1>1, <1>2, WatcherTypeCorrect, PTL DEF Spec

-----------------------------------------------------------------------------
(* What the watcher promises.                                              *)

\* Spec => []OneActiveRun: two critical sections of the registry's lock, and still
\* never two active runs of one dedup key.
THEOREM OneActiveRunAlways == Spec => []OneActiveRun
  <1>1. IInv => OneActiveRun
    BY DEF IInv
  <1> QED
    BY <1>1, WatcherInductive, PTL

\* Spec => DebounceHolds: when a run of a key is started, the whole window of its
\* trigger has passed since the last one this process started.  The guard of start_run
\* reads last_fired; that it tells the time since the last run is RemembersInv.
THEOREM DebounceAlwaysHolds == Spec => DebounceHolds
  <1>1. TypeOK /\ IInv /\ [Next]_vars =>
          [\A k \in Keys : active'[k] > active[k] => waited[k] >= Debounce[k.trigger]]_vars
    <2> SUFFICES ASSUME TypeOK, IInv, [Next]_vars,
                        NEW k \in Keys, active'[k] > active[k]
                 PROVE  waited[k] >= Debounce[k.trigger]
      OBVIOUS
    <2>1. ~debounced(k)
      BY OnlyStartAdds
    <2>2. waited[k] = idle[k]
      BY DEF IInv, RemembersInv
    <2> QED
      BY <2>1, <2>2, WindowType DEF debounced, TypeOK
  <1> QED
    BY <1>1, WatcherTypeCorrect, WatcherInductive, PTL DEF Spec, DebounceHolds

=============================================================================
