----------------------------- MODULE RunService -----------------------------
(***************************************************************************)
(* What the API of the agent shows of a run, and all a client may rely on: *)
(* a run starts once, stops at the gate with a proposal it has not made    *)
(* before, leaves the gate by one answer only, and once it has ended stays *)
(* ended, until the process dies and forgets it.  Runtime implements it;   *)
(* ApprovalPanel is a client of it.                                        *)
(***************************************************************************)
EXTENDS Naturals

CONSTANTS Threads,       \* thread_ids that can be drawn
          MaxProposals   \* bound: proposals one run makes

VARIABLES state,       \* state[t]: the run's status, "new" and "forgotten" being a 404
          proposals,   \* proposals[t]: how many proposals t has made
          answered     \* answered[t]: those of them a decision was accepted for

service == <<state, proposals, answered>>

States == {"new", "running", "paused", "done", "failed", "forgotten"}

ServiceInit == /\ state = [t \in Threads |-> "new"]
               /\ proposals = [t \in Threads |-> 0]
               /\ answered = [t \in Threads |-> {}]

starts(t) == /\ state[t] = "new"
             /\ state' = [state EXCEPT ![t] = "running"]
             /\ UNCHANGED <<proposals, answered>>

proposes(t) == /\ state[t] = "running"
               /\ proposals[t] < MaxProposals
               /\ state' = [state EXCEPT ![t] = "paused"]
               /\ proposals' = [proposals EXCEPT ![t] = @ + 1]
               /\ UNCHANGED answered

\* The decision endpoint, and what makes it answer 200 rather than 409.
takes_decision(t) == state[t] = "paused"

answers(t) == /\ takes_decision(t)
              /\ state' = [state EXCEPT ![t] = "running"]
              /\ answered' = [answered EXCEPT ![t] = @ \cup {proposals[t]}]
              /\ UNCHANGED proposals

ends(t) == /\ state[t] = "running"
           /\ \E last \in {"done", "failed"} : state' = [state EXCEPT ![t] = last]
           /\ UNCHANGED <<proposals, answered>>

\* The process restarts: every run it had is unknown from now on.
forgets == /\ state' = [t \in Threads |-> IF state[t] = "new" THEN "new" ELSE "forgotten"]
           /\ UNCHANGED <<proposals, answered>>

ServiceNext == \/ \E t \in Threads : starts(t) \/ proposes(t) \/ answers(t) \/ ends(t)
               \/ forgets

ServiceSpec == ServiceInit /\ [][ServiceNext]_service

\* What GET /proposals holds for t, 0 for nothing.
Listed(t) == IF state[t] = "paused" THEN proposals[t] ELSE 0

=============================================================================
