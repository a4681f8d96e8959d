------------------------ MODULE RestartVerifyProofs ------------------------
(***************************************************************************)
(* Proofs about RestartVerify, for any pods, controllers and bounds.  Two  *)
(* of the three safety properties rest on what the check supposes of the   *)
(* names of pods, and say so.                                              *)
(***************************************************************************)
EXTENDS RestartVerify, TLAPS

-----------------------------------------------------------------------------
(* Helpers.                                                                *)

\* classify gives a trigger id or none.
LEMMA ClassifyType ==
    ASSUME NEW s
    PROVE  classify(s, {}, {}) \in Triggers \cup {"none"}
  BY DEF classify, Triggers, failed_scheduling

\* A pod that is not there shows no failure.
LEMMA AbsentShowsNothing ==
    ASSUME NEW id \in Triggers
    PROVE  ~shows("absent", id)
  BY DEF shows, classify, Triggers

\* No pod is NoPod.
LEMMA PodsHaveNames ==
    ASSUME NEW n \in Names, NEW life
    PROVE  [name |-> n, life |-> life] # NoPod
  BY RestartAssumption DEF NoPod

PodRecords == [status : PodStates \cup {"absent"}, leaving : BOOLEAN, life : Nat]

-----------------------------------------------------------------------------
(* Types.                                                                  *)

\* Spec => []TypeOK: pods, run and histories keep to their kinds, among the outcomes
\* no other than the four that verify and act can give.
THEOREM RestartTypeCorrect == Spec => []TypeOK
  <1>1. Init => TypeOK
    <2> SUFFICES ASSUME Init PROVE TypeOK
      OBVIOUS
    <2>1. PICK n \in Names, s \in {s \in PodStates : classify(s, {}, {}) # "none"} :
             /\ pods = [m \in Names |-> IF m = n THEN Pod(s, 1) ELSE Absent]
             /\ trigger = [pod |-> n, trigger_id |-> classify(s, {}, {})]
      BY DEF Init
    <2>2. Pod(s, 1) \in PodRecords /\ Absent \in PodRecords
      BY DEF Pod, Absent, PodRecords
    <2>3. pods \in [Names -> PodRecords]
      BY <2>1, <2>2
    <2>4. trigger \in [pod : Names, trigger_id : Triggers]
      BY <2>1, ClassifyType
    <2>5. /\ pc = "gate" /\ outcome = "none" /\ failures = 0 /\ shown = FALSE
          /\ deleted = NoPod /\ verdict = [listed |-> FALSE, failing |-> FALSE]
      BY DEF Init
    <2>6. verdict \in [listed : BOOLEAN, failing : BOOLEAN]
      BY <2>5
    <2>7. failures \in 0..MaxListFailures
      BY <2>5, RestartAssumption
    <2> QED
      BY <2>3, <2>4, <2>5, <2>6, <2>7 DEF TypeOK, PodRecords
  <1>2. TypeOK /\ [Next]_vars => TypeOK'
    <2> SUFFICES ASSUME TypeOK, [Next]_vars PROVE TypeOK'
      OBVIOUS
    <2>1. CASE approve
      BY <2>1 DEF approve, TypeOK, Failing
    <2>2. ASSUME NEW listed \in BOOLEAN, NEW holds \in BOOLEAN, act_check(listed, holds)
          PROVE  TypeOK'
      <3>1. failures' \in 0..MaxListFailures
        BY <2>2, RestartAssumption DEF act_check, condition_check, TypeOK
      <3> QED
        BY <2>2, <3>1 DEF act_check, Close, TypeOK
    <2>3. ASSUME NEW listed \in BOOLEAN, NEW holds \in BOOLEAN, verify(listed, holds)
          PROVE  TypeOK'
      <3>1. failures' \in 0..MaxListFailures
        BY <2>3, RestartAssumption DEF verify, condition_check, TypeOK
      <3> QED
        BY <2>3, <3>1 DEF verify, Close, TypeOK, Failing
    <2>4. CASE restart_read
      BY <2>4 DEF restart_read, Close, TypeOK
    <2>5. CASE restart_delete
      <3>1. CASE UNCHANGED <<pods, deleted>>
        BY <2>5, <3>1 DEF restart_delete, TypeOK
      <3>2. CASE /\ pods' = [pods EXCEPT ![trigger.pod].leaving = TRUE]
                 /\ deleted' = Id(trigger.pod)
        <4>1. trigger.pod \in Names
          BY DEF TypeOK
        <4>2. pods' \in [Names -> PodRecords]
          BY <3>2, <4>1 DEF TypeOK, PodRecords
        <4>3. deleted' \in [name : Names, life : Nat]
          BY <3>2, <4>1 DEF TypeOK, Id
        <4> QED
          BY <2>5, <4>2, <4>3 DEF restart_delete, TypeOK, PodRecords
      <3> QED
        BY <2>5, <3>1, <3>2 DEF restart_delete
    <2>6. ASSUME NEW ps \in [Names -> PodRecords], Become(ps)
          PROVE  TypeOK'
      BY <2>6 DEF Become, run, TypeOK, PodRecords, Failing
    <2>7. ASSUME NEW n \in Names, NEW s \in PodStates, pod_changes(n, s)
          PROVE  TypeOK'
      <3>1. [pods EXCEPT ![n].status = s] \in [Names -> PodRecords]
        BY DEF TypeOK, PodRecords
      <3> QED
        BY <2>6, <2>7, <3>1 DEF pod_changes
    <2>8. ASSUME NEW n \in Names, NEW s \in PodStates, pod_comes(n, s)
          PROVE  TypeOK'
      <3>1. [pods EXCEPT ![n] = Pod(s, pods[n].life + 1)] \in [Names -> PodRecords]
        BY DEF TypeOK, PodRecords, Pod
      <3> QED
        BY <2>6, <2>8, <3>1 DEF pod_comes
    <2>9. ASSUME NEW n \in Names, pod_leaves(n)
          PROVE  TypeOK'
      <3>1. [pods EXCEPT ![n].leaving = TRUE] \in [Names -> PodRecords]
        BY DEF TypeOK, PodRecords
      <3> QED
        BY <2>6, <2>9, <3>1 DEF pod_leaves
    <2>10. ASSUME NEW n \in Names, pod_goes(n)
           PROVE  TypeOK'
      <3>1. [pods EXCEPT ![n].status = "absent", ![n].leaving = FALSE]
              \in [Names -> PodRecords]
        BY DEF TypeOK, PodRecords
      <3> QED
        BY <2>6, <2>10, <3>1 DEF pod_goes
    <2>11. CASE UNCHANGED vars
      BY <2>11 DEF vars, TypeOK
    <2> QED
      BY <2>1, <2>2, <2>3, <2>4, <2>5, <2>7, <2>8, <2>9, <2>10, <2>11 DEF Next
  <1> QED
    BY <1>1, <1>2, PTL DEF Spec

-----------------------------------------------------------------------------
(* Where the run is tells what it has done.                                *)

\* Before the delete call nothing is deleted; what is deleted has the name of the
\* trigger, and by then restart_pod has seen an owner; only verify closes a run with
\* an outcome of verify.
PlaceInv ==
    /\ pc \in {"gate", "act", "read", "delete"} => deleted = NoPod
    /\ pc \in {"delete", "verify"} => Controller[trigger.pod] # Bare
    /\ pc = "verify" => deleted # NoPod
    /\ deleted # NoPod => deleted.name = trigger.pod /\ Controller[trigger.pod] # Bare
    /\ pc # "closed" => outcome = "none"

\* Spec => []PlaceInv.
LEMMA Places == Spec => []PlaceInv
  <1>1. Init => PlaceInv
    BY DEF Init, PlaceInv
  <1>2. TypeOK /\ PlaceInv /\ [Next]_vars => PlaceInv'
    <2> SUFFICES ASSUME TypeOK, PlaceInv, [Next]_vars PROVE PlaceInv'
      OBVIOUS
    <2>1. CASE approve
      BY <2>1 DEF approve, PlaceInv
    <2>2. ASSUME NEW listed \in BOOLEAN, NEW holds \in BOOLEAN,
                 act_check(listed, holds) \/ verify(listed, holds)
          PROVE  PlaceInv'
      BY <2>2 DEF act_check, verify, Close, PlaceInv
    <2>3. CASE restart_read
      BY <2>3 DEF restart_read, refuses, Close, PlaceInv
    <2>4. CASE restart_delete
      <3>1. trigger.pod \in Names
        BY DEF TypeOK
      <3>2. Id(trigger.pod) # NoPod /\ Id(trigger.pod).name = trigger.pod
        BY <3>1, PodsHaveNames DEF Id
      <3> QED
        BY <2>4, <3>2 DEF restart_delete, PlaceInv
    <2>5. ASSUME UNCHANGED run
          PROVE  PlaceInv'
      BY <2>5 DEF run, PlaceInv
    <2>6. ASSUME NEW n \in Names,
                 \/ \E s \in PodStates : pod_changes(n, s) \/ pod_comes(n, s)
                 \/ pod_leaves(n) \/ pod_goes(n)
          PROVE  UNCHANGED run
      BY <2>6 DEF pod_changes, pod_comes, pod_leaves, pod_goes, Become
    <2>7. CASE UNCHANGED vars
      BY <2>5, <2>7 DEF vars, run
    <2> QED
      BY <2>1, <2>2, <2>3, <2>4, <2>5, <2>6, <2>7 DEF Next
  <1> QED
    BY <1>1, <1>2, RestartTypeCorrect, PTL DEF Spec

\* Spec => [](...), a StatefulSet's pods included: what is deleted has the name in
\* the trigger, and an owner to replace it.
THEOREM DeletesByName ==
    Spec => [](deleted # NoPod => /\ deleted.name = trigger.pod
                                  /\ Controller[deleted.name] # Bare)
  <1>1. PlaceInv => (deleted # NoPod => /\ deleted.name = trigger.pod
                                        /\ Controller[deleted.name] # Bare)
    BY DEF PlaceInv
  <1> QED
    BY <1>1, Places, PTL

-----------------------------------------------------------------------------
(* A healthy workload is left alone.                                       *)

\* What the check before the deletion answers, by the controllers.
LEMMA CheckSeesWorkload ==
    ASSUME PrefixTellsController, TypeOK, deleted = NoPod, any_failing({})
    PROVE  Failing(pods)
  <1>1. PICK n \in Names : /\ prefix(n) = prefix(trigger.pod)
                           /\ shows(pods[n].status, trigger.trigger_id)
    BY DEF any_failing
  <1>2. Controller[n] = Controller[trigger.pod]
    BY <1>1 DEF PrefixTellsController, TypeOK
  <1>3. [name |-> n, life |-> pods[n].life] # deleted
    BY PodsHaveNames
  <1> QED
    BY <1>1, <1>2, <1>3 DEF Failing

\* The failure is recorded when it is there, and the run gets past act by it only.
ShownInv == /\ pc = "act" /\ Failing(pods) => shown
            /\ pc \in {"read", "delete", "verify"} => shown
            /\ deleted # NoPod => shown

\* Spec => []HealthyIsSpared, for names by which pods can be told apart: between the
\* approval and the deletion some pod of the workload showed the failure.  The check
\* is of an earlier moment than the deletion, and no check at all deletes nothing.
THEOREM HealthyAreSpared ==
    ASSUME PrefixTellsController PROVE Spec => []HealthyIsSpared
  <1>1. Init => ShownInv
    BY DEF Init, ShownInv
  <1>2. TypeOK /\ PlaceInv /\ ShownInv /\ [Next]_vars => ShownInv'
    <2> SUFFICES ASSUME TypeOK, PlaceInv, ShownInv, [Next]_vars PROVE ShownInv'
      OBVIOUS
    <2>1. CASE approve
      BY <2>1 DEF approve, PlaceInv, ShownInv, Failing
    <2>2. ASSUME NEW listed \in BOOLEAN, NEW holds \in BOOLEAN, act_check(listed, holds)
          PROVE  ShownInv'
      <3>1. holds => shown
        BY <2>2, CheckSeesWorkload DEF act_check, condition_check, PlaceInv, ShownInv
      <3> QED
        BY <2>2, <3>1 DEF act_check, Close, PlaceInv, ShownInv
    <2>3. ASSUME NEW listed \in BOOLEAN, NEW holds \in BOOLEAN, verify(listed, holds)
          PROVE  ShownInv'
      BY <2>3 DEF verify, Close, ShownInv
    <2>4. CASE restart_read \/ restart_delete
      BY <2>4 DEF restart_read, restart_delete, Close, ShownInv
    <2>5. ASSUME NEW ps, Become(ps)
          PROVE  ShownInv'
      <3>1. pc' = pc /\ deleted' = deleted /\ Failing(pods)' = Failing(ps)
        BY <2>5 DEF Become, run, Failing
      <3>2. shown => shown'
        BY <2>5 DEF Become
      <3>3. pc = "act" /\ Failing(ps) => shown'
        BY <2>5 DEF Become
      <3> QED
        BY <3>1, <3>2, <3>3 DEF ShownInv
    <2>6. ASSUME NEW n \in Names,
                 \/ \E s \in PodStates : pod_changes(n, s) \/ pod_comes(n, s)
                 \/ pod_leaves(n) \/ pod_goes(n)
          PROVE  ShownInv'
      BY <2>5, <2>6 DEF pod_changes, pod_comes, pod_leaves, pod_goes
    <2>7. CASE UNCHANGED vars
      BY <2>7 DEF vars, ShownInv, Failing
    <2> QED
      BY <2>1, <2>2, <2>3, <2>4, <2>6, <2>7 DEF Next
  <1>3. ShownInv => HealthyIsSpared
    BY DEF ShownInv, HealthyIsSpared
  <1> QED
    BY <1>1, <1>2, <1>3, RestartTypeCorrect, Places, PTL DEF Spec

-----------------------------------------------------------------------------
(* Where names are used once, the name of the trigger means its pod.       *)

\* A name that is used once always means the first pod that had it.
LifeInv == /\ pods[trigger.pod].life = 1
           /\ deleted # NoPod => deleted = [name |-> trigger.pod, life |-> 1]

\* Spec => []LifeInv, unless a StatefulSet gives names again.
LEMMA Lives == ASSUME NamesUsedOnce PROVE Spec => []LifeInv
  <1>1. Init => LifeInv
    BY DEF Init, Pod, LifeInv
  <1>2. TypeOK /\ LifeInv /\ [Next]_vars => LifeInv'
    <2> SUFFICES ASSUME TypeOK, LifeInv, [Next]_vars PROVE LifeInv'
      OBVIOUS
    <2>1. CASE approve \/ restart_read
      BY <2>1 DEF approve, restart_read, LifeInv
    <2>2. ASSUME NEW listed \in BOOLEAN, NEW holds \in BOOLEAN,
                 act_check(listed, holds) \/ verify(listed, holds)
          PROVE  LifeInv'
      BY <2>2 DEF act_check, verify, LifeInv
    <2>3. CASE restart_delete
      <3>1. UNCHANGED trigger /\ pods'[trigger.pod].life = 1
        BY <2>3 DEF restart_delete, LifeInv, TypeOK
      <3>2. deleted' = deleted \/ deleted' = [name |-> trigger.pod, life |-> 1]
        BY <2>3 DEF restart_delete, LifeInv, Id
      <3> QED
        BY <3>1, <3>2 DEF LifeInv
    <2>4. ASSUME NEW ps, Become(ps), ps[trigger.pod].life = 1
          PROVE  LifeInv'
      BY <2>4 DEF Become, run, LifeInv
    <2>5. ASSUME NEW n \in Names, NEW s \in PodStates, pod_comes(n, s)
          PROVE  LifeInv'
      <3>1. n # trigger.pod
        BY <2>5 DEF pod_comes, NamesUsedOnce, LifeInv
      <3>2. [pods EXCEPT ![n] = Pod(s, pods[n].life + 1)][trigger.pod].life = 1
        BY <3>1 DEF LifeInv, TypeOK
      <3> QED
        BY <2>4, <2>5, <3>2 DEF pod_comes
    <2>6. ASSUME NEW n \in Names, NEW s \in PodStates, pod_changes(n, s)
          PROVE  LifeInv'
      <3>1. [pods EXCEPT ![n].status = s][trigger.pod].life = 1
        BY DEF LifeInv, TypeOK
      <3> QED
        BY <2>4, <2>6, <3>1 DEF pod_changes
    <2>7. ASSUME NEW n \in Names, pod_leaves(n)
          PROVE  LifeInv'
      <3>1. [pods EXCEPT ![n].leaving = TRUE][trigger.pod].life = 1
        BY DEF LifeInv, TypeOK
      <3> QED
        BY <2>4, <2>7, <3>1 DEF pod_leaves
    <2>8. ASSUME NEW n \in Names, pod_goes(n)
          PROVE  LifeInv'
      <3>1. [pods EXCEPT ![n].status = "absent", ![n].leaving = FALSE][trigger.pod].life = 1
        BY DEF LifeInv, TypeOK
      <3> QED
        BY <2>4, <2>8, <3>1 DEF pod_goes
    <2>9. CASE UNCHANGED vars
      BY <2>9 DEF vars, LifeInv
    <2> QED
      BY <2>1, <2>2, <2>3, <2>5, <2>6, <2>7, <2>8, <2>9 DEF Next
  <1> QED
    BY <1>1, <1>2, RestartTypeCorrect, PTL DEF Spec

-----------------------------------------------------------------------------
(* The verdict.                                                            *)

\* The check after the deletion and the workload without the deleted pod.
LEMMA VerifySeesWorkload ==
    ASSUME PrefixTellsController, ControllerTellsPrefix, TypeOK, PlaceInv, LifeInv,
           pc = "verify"
    PROVE  any_failing({trigger.pod}) <=> Failing(pods)
  <1>1. deleted = [name |-> trigger.pod, life |-> 1] /\ pods[trigger.pod].life = 1
    BY DEF PlaceInv, LifeInv
  <1>2. Controller[trigger.pod] # Bare /\ trigger.pod \in Names
        /\ trigger.trigger_id \in Triggers
    BY DEF PlaceInv, TypeOK
  <1>3. \A n \in Names : prefix(n) = prefix(trigger.pod)
                           <=> Controller[n] = Controller[trigger.pod]
    BY <1>2 DEF PrefixTellsController, ControllerTellsPrefix
  <1>4. \A n \in Names : [name |-> n, life |-> pods[n].life] # deleted
                           <=> n # trigger.pod
    BY <1>1
  <1>5. \A n \in Names : shows(pods[n].status, trigger.trigger_id) => Exists(n)
    BY <1>2, AbsentShowsNothing DEF Exists
  <1> QED
    BY <1>3, <1>4, <1>5 DEF any_failing, Failing

\* Spec => []VerdictIsTrue, where prefixes and controllers go together and names are
\* used once: a run is closed as what is the case, if the pods could be listed.
THEOREM VerdictsAreTrue ==
    ASSUME PrefixTellsController, ControllerTellsPrefix, NamesUsedOnce
    PROVE  Spec => []VerdictIsTrue
  <1>1. Init => VerdictIsTrue
    BY DEF Init, VerdictIsTrue
  <1>2. TypeOK /\ PlaceInv /\ LifeInv /\ VerdictIsTrue /\ [Next]_vars => VerdictIsTrue'
    <2> SUFFICES ASSUME TypeOK, PlaceInv, LifeInv, VerdictIsTrue, [Next]_vars
                 PROVE  VerdictIsTrue'
      OBVIOUS
    <2>1. ASSUME NEW listed \in BOOLEAN, NEW holds \in BOOLEAN, verify(listed, holds)
          PROVE  VerdictIsTrue'
      <3>1. listed => (holds <=> Failing(pods))
        BY <2>1, VerifySeesWorkload DEF verify, condition_check
      <3>2. verdict' = [listed |-> listed, failing |-> Failing(pods)]
        BY <2>1 DEF verify
      <3>3. outcome' = IF holds THEN "persists" ELSE "resolved"
        BY <2>1 DEF verify, Close
      <3> QED
        BY <3>1, <3>2, <3>3 DEF VerdictIsTrue
    <2>2. ASSUME NEW listed \in BOOLEAN, NEW holds \in BOOLEAN, act_check(listed, holds)
          PROVE  VerdictIsTrue'
      BY <2>2 DEF act_check, Close, VerdictIsTrue
    <2>3. CASE restart_read
      BY <2>3 DEF restart_read, Close, VerdictIsTrue
    <2>4. CASE approve \/ restart_delete
      BY <2>4 DEF approve, restart_delete, VerdictIsTrue
    <2>5. ASSUME NEW n \in Names,
                 \/ \E s \in PodStates : pod_changes(n, s) \/ pod_comes(n, s)
                 \/ pod_leaves(n) \/ pod_goes(n)
          PROVE  VerdictIsTrue'
      BY <2>5 DEF pod_changes, pod_comes, pod_leaves, pod_goes, Become, run, VerdictIsTrue
    <2>6. CASE UNCHANGED vars
      BY <2>6 DEF vars, VerdictIsTrue
    <2> QED
      BY <2>1, <2>2, <2>3, <2>4, <2>5, <2>6 DEF Next
  <1> QED
    BY <1>1, <1>2, RestartTypeCorrect, Places, Lives, PTL DEF Spec

=============================================================================
