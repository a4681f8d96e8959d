---------------------------- MODULE ApprovalGate ----------------------------
(***************************************************************************)
(* What the agent promises about one incident, whatever the nodes of its   *)
(* graph do: it plans freely, crosses from Plan to Act only on a human's   *)
(* approval of the proposal that is waiting, spends that approval on at    *)
(* most one restart, and never goes back to planning after a restart       *)
(* (SPEC 1 and 5: "never retry without a fresh approval").  AgentGraph     *)
(* implements this specification.                                          *)
(***************************************************************************)
EXTENDS Naturals

CONSTANT Threads            \* thread_ids: one run per trigger firing

VARIABLES phase,            \* where each run stands with respect to the gate
          restarts          \* how many pods each run has deleted

vars == <<phase, restarts>>

Phases == {"idle", "planning", "awaiting", "approved", "refused",
           "restarted", "closed", "failed"}

Init == /\ phase = [t \in Threads |-> "idle"]
        /\ restarts = [t \in Threads |-> 0]

Move(t, from, to) == /\ phase[t] \in from
                     /\ phase' = [phase EXCEPT ![t] = to]

Quietly(t, from, to) == Move(t, from, to) /\ UNCHANGED restarts

Trigger(t) == Quietly(t, {"idle"}, "planning")
Propose(t) == Quietly(t, {"planning"}, "awaiting")
Approve(t) == Quietly(t, {"awaiting"}, "approved")
Refuse(t)  == Quietly(t, {"awaiting"}, "refused")

\* The cluster moved on: the approval is discarded, a fresh proposal is due.
Discard(t) == Quietly(t, {"approved"}, "planning")

\* The one gated write; the run may fail in the very call that performs it.
Restart(t) == /\ \E to \in {"restarted", "failed"} : Move(t, {"approved"}, to)
              /\ restarts' = [restarts EXCEPT ![t] = @ + 1]

\* A terminal outcome, recorded; or an exception, which leaves no record.
Close(t) == Quietly(t, {"planning", "refused", "approved", "restarted"}, "closed")
Fail(t)  == Quietly(t, {"planning", "refused", "approved", "restarted"}, "failed")

Next == \E t \in Threads :
          \/ Trigger(t) \/ Propose(t) \/ Approve(t) \/ Refuse(t)
          \/ Discard(t) \/ Restart(t) \/ Close(t) \/ Fail(t)

Spec == Init /\ [][Next]_vars
=============================================================================
