------------------------ MODULE ApprovalPanelProofs ------------------------
(***************************************************************************)
(* Proofs about ApprovalPanel, for any threads, polls, clicks and          *)
(* proposals: whichever answers overtake which, the page says what is so.  *)
(***************************************************************************)
EXTENDS ApprovalPanel, TLAPS

Numbers == 0..MaxProposals
Cards == [proposal : Numbers, enabled : BOOLEAN]
PollRecords == [at : {"idle", "listed", "asks", "told"}, pending : [Threads -> Numbers],
                asked : SUBSET Threads, thread : Threads \cup {"none"},
                told : States \cup {"none"}]
Statuses == {200, 401, 409}
Answers == Statuses \cup {0}
PostRecords == [at : {"none", "sent", "adrift", "answered", "over"},
                thread : Threads \cup {"none"}, answer : Answers]

\* TypeOK, and the requests as whole records.
Types == /\ state \in [Threads -> States]
         /\ proposals \in [Threads -> Numbers]
         /\ answered \in [Threads -> SUBSET (1..MaxProposals)]
         /\ lastPending \in [Threads -> Numbers]
         /\ decided \in [Threads -> Outcomes]
         /\ cards \in [Threads -> Cards]
         /\ polls \in [Polls -> PollRecords]
         /\ posts \in [1..MaxClicks -> PostRecords]
         /\ accepted \in [Threads -> BOOLEAN]

\* Requests are about threads, an answer that waits to be read is one of three, and
\* a run that waits for a decision has proposed something.
PollOK(poll) == poll.at \in {"asks", "told"} => poll.thread \in Threads
PostOK(post) == /\ post.at \in {"sent", "adrift", "answered"} => post.thread \in Threads
                /\ post.at = "answered" => post.answer \in Statuses
RequestInv ==
    /\ \A p \in Polls : PollOK(polls[p])
    /\ \A k \in 1..MaxClicks : PostOK(posts[k])
    /\ \A t \in Threads : state[t] = "paused" => proposals[t] # 0

-----------------------------------------------------------------------------
(* Types.                                                                  *)

\* Values that the page starts from.
LEMMA EmptyTypes ==
    /\ NoCard \in Cards /\ NoPoll \in PollRecords /\ NoPost \in PostRecords
    /\ Over \in PostRecords
    /\ EmptyPage.pending \in [Threads -> Numbers]
    /\ EmptyPage.decided \in [Threads -> Outcomes]
  <1>1. 0 \in Numbers
    BY PanelAssumption DEF Numbers
  <1> QED
    BY <1>1 DEF NoCard, Cards, NoPoll, PollRecords, NoPost, PostRecords, Over, Answers, EmptyPage,
       Outcomes

\* The drawing makes cards of what was listed.
LEMMA DrawnType ==
    ASSUME NEW pending \in [Threads -> Numbers], NEW outcomes \in [Threads -> Outcomes]
    PROVE  drawn(pending, outcomes) \in [Threads -> Cards]
  BY EmptyTypes DEF drawn, Cards

\* What a status says is an outcome.
LEMMA OutcomeType ==
    ASSUME NEW said, NEW before \in Outcomes
    PROVE  outcome(said, before) \in Outcomes
  BY DEF outcome, Outcomes

\* A poll that goes on is a poll, about a thread that waits, or none.
LEMMA GoesOnType ==
    ASSUME Types, NEW p \in Polls, NEW pending \in [Threads -> Numbers],
           NEW outcomes \in [Threads -> Outcomes], NEW asked \in SUBSET Threads,
           goes_on(p, pending, outcomes, asked)
    PROVE  /\ lastPending' = pending /\ decided' = outcomes
           /\ polls' \in [Polls -> PollRecords] /\ cards' \in [Threads -> Cards]
           /\ \A q \in Polls \ {p} : polls'[q] = polls[q]
           /\ \/ polls'[p] = NoPoll
              \/ /\ polls'[p].at = "asks" /\ polls'[p].thread \in Threads
                 /\ outcomes[polls'[p].thread] = "waiting"
                 /\ polls'[p].pending = [t \in Threads |-> 0]
           /\ cards' = cards \/ cards' = drawn(pending, outcomes)
  <1> DEFINE rest == to_ask(p, outcomes) \ asked
             asks(t) == [NoPoll EXCEPT !.at = "asks", !.thread = t,
                                       !.asked = polls[p].asked \cup asked]
  <1>1. CASE rest = {}
    <2>1. polls' = [polls EXCEPT ![p] = NoPoll] /\ render(pending, outcomes)
      BY <1>1 DEF goes_on
    <2>2. cards' = cards \/ cards' = drawn(pending, outcomes)
      BY <2>1 DEF render
    <2>3. cards' \in [Threads -> Cards]
      BY <2>2, DrawnType DEF Types
    <2>4. polls' \in [Polls -> PollRecords]
      BY <2>1, EmptyTypes DEF Types
    <2> QED
      BY <2>1, <2>2, <2>3, <2>4 DEF goes_on, Types
  <1>2. CASE rest # {}
    <2>1. PICK t \in rest : polls' = [polls EXCEPT ![p] = asks(t)]
      BY <1>2 DEF goes_on
    <2>2. t \in Threads /\ outcomes[t] = "waiting"
      BY DEF to_ask
    <2>3. polls[p].asked \in SUBSET Threads
      BY DEF Types, PollRecords
    <2>4. asks(t) \in PollRecords
      BY <2>2, <2>3, EmptyTypes DEF PollRecords
    <2>5. asks(t).at = "asks" /\ asks(t).thread = t /\ asks(t).pending = [u \in Threads |-> 0]
      BY DEF NoPoll
    <2>6. cards' = cards
      BY <1>2 DEF goes_on
    <2> QED
      BY <2>1, <2>2, <2>4, <2>5, <2>6 DEF goes_on, Types
  <1> QED
    BY <1>1, <1>2

\* A post that is answered, or adrift and over.
LEMMA AnsweredType ==
    ASSUME Types, NEW k \in 1..MaxClicks, NEW answer \in Statuses,
           Answered(k, answer)
    PROVE  \/ posts' = [posts EXCEPT ![k] = Over]
           \/ posts' = [posts EXCEPT ![k] =
                          [posts[k] EXCEPT !.at = "answered", !.answer = answer]]
  BY DEF Answered, Types

\* Values that a request may come to.
LEMMA RequestValues ==
    /\ PollOK(NoPoll) /\ PostOK(Over) /\ PostOK(NoPost)
    /\ \A post \in PostRecords :
         /\ [post EXCEPT !.at = "adrift"] \in PostRecords
         /\ post.at = "sent" /\ PostOK(post) => PostOK([post EXCEPT !.at = "adrift"])
  BY DEF PollOK, PostOK, NoPoll, NoPost, Over, PostRecords

\* An answer is one of those there are.
LEMMA AnswerValues ==
    ASSUME NEW post \in PostRecords, NEW answer \in Statuses, post.thread \in Threads
    PROVE  /\ [post EXCEPT !.at = "answered", !.answer = answer] \in PostRecords
           /\ PostOK([post EXCEPT !.at = "answered", !.answer = answer])
  <1>1. answer \in Answers
    BY DEF Answers
  <1>2. [post EXCEPT !.at = "answered", !.answer = answer] \in PostRecords
    BY <1>1 DEF PostRecords
  <1>3. /\ [post EXCEPT !.at = "answered", !.answer = answer].thread = post.thread
        /\ [post EXCEPT !.at = "answered", !.answer = answer].answer = answer
    BY DEF PostRecords
  <1> QED
    BY <1>2, <1>3 DEF PostOK

\* One poll becomes another.
LEMMA PollBecomes ==
    ASSUME Types, RequestInv, NEW p \in Polls, NEW r \in PollRecords, PollOK(r),
           polls' = [polls EXCEPT ![p] = r]
    PROVE  polls' \in [Polls -> PollRecords] /\ \A q \in Polls : PollOK(polls'[q])
  BY DEF Types, RequestInv

\* The same of posts.
LEMMA PostBecomes ==
    ASSUME Types, RequestInv, NEW k \in 1..MaxClicks, NEW r \in PostRecords, PostOK(r),
           posts' = [posts EXCEPT ![k] = r]
    PROVE  /\ posts' \in [1..MaxClicks -> PostRecords]
           /\ \A j \in 1..MaxClicks : PostOK(posts'[j])
  BY DEF Types, RequestInv

\* The service takes its steps within its types.
LEMMA ServiceType ==
    ASSUME Types, RequestInv, ServiceNext
    PROVE  /\ state' \in [Threads -> States] /\ proposals' \in [Threads -> Numbers]
           /\ answered' \in [Threads -> SUBSET (1..MaxProposals)]
           /\ \A t \in Threads : state'[t] = "paused" => proposals'[t] # 0
  <1> USE DEF Types, RequestInv
  <1>1. ASSUME NEW t \in Threads, starts(t) \/ ends(t)
        PROVE  /\ state' \in [Threads -> States] /\ UNCHANGED <<proposals, answered>>
               /\ \A u \in Threads : state'[u] = "paused" => state[u] = "paused"
    BY <1>1 DEF starts, ends, States
  <1>2. ASSUME NEW t \in Threads, proposes(t)
        PROVE  /\ state' \in [Threads -> States] /\ proposals' \in [Threads -> Numbers]
               /\ UNCHANGED answered
               /\ \A u \in Threads : state'[u] = "paused" => proposals'[u] # 0
    BY <1>2, PanelAssumption DEF proposes, States, Numbers
  <1>3. ASSUME NEW t \in Threads, answers(t)
        PROVE  /\ state' \in [Threads -> States] /\ UNCHANGED proposals
               /\ answered' \in [Threads -> SUBSET (1..MaxProposals)]
               /\ \A u \in Threads : state'[u] = "paused" => state[u] = "paused"
    <2>1. proposals[t] \in 1..MaxProposals
      BY <1>3, PanelAssumption DEF answers, takes_decision, Numbers
    <2> QED
      BY <1>3, <2>1 DEF answers, States
  <1>4. CASE forgets
    BY <1>4 DEF forgets, States
  <1> QED
    BY <1>1, <1>2, <1>3, <1>4 DEF ServiceNext

\* Spec => [](Types /\ RequestInv).
LEMMA Basics == Spec => [](Types /\ RequestInv)
  <1>1. Init => Types /\ RequestInv
    <2> SUFFICES ASSUME Init PROVE Types /\ RequestInv
      OBVIOUS
    <2>1. /\ state \in [Threads -> States] /\ proposals \in [Threads -> Numbers]
          /\ answered \in [Threads -> SUBSET (1..MaxProposals)]
      BY PanelAssumption DEF Init, ServiceInit, States, Numbers
    <2>2. /\ lastPending \in [Threads -> Numbers] /\ decided \in [Threads -> Outcomes]
          /\ cards \in [Threads -> Cards] /\ polls \in [Polls -> PollRecords]
          /\ posts \in [1..MaxClicks -> PostRecords] /\ accepted \in [Threads -> BOOLEAN]
      BY EmptyTypes DEF Init
    <2> QED
      BY <2>1, <2>2, RequestValues DEF Init, ServiceInit, Types, RequestInv
  <1>2. Types /\ RequestInv /\ [Next]_vars => (Types /\ RequestInv)'
    <2> SUFFICES ASSUME Types, RequestInv, [Next]_vars PROVE (Types /\ RequestInv)'
      OBVIOUS
    <2>1. CASE Elsewhere
      BY <2>1, ServiceType DEF Elsewhere, page, requests, Types, RequestInv
    <2>2. ASSUME NEW p \in Polls, poll_starts(p)
          PROVE  (Types /\ RequestInv)'
      <3> DEFINE listed == [t \in Threads |-> Listed(t)]
      <3>1. listed \in [Threads -> Numbers]
        BY PanelAssumption DEF Listed, Types, Numbers
      <3>2. polls[p] \in PollRecords
        BY DEF Types
      <3>3. [polls[p] EXCEPT !.at = "listed", !.pending = listed] \in PollRecords
        BY <3>1, <3>2 DEF PollRecords
      <3>4. polls' = [polls EXCEPT ![p] =
                        [polls[p] EXCEPT !.at = "listed", !.pending = listed]]
        BY <2>2 DEF poll_starts, Types
      <3>5. PollOK([polls[p] EXCEPT !.at = "listed", !.pending = listed])
        BY <3>2 DEF PollOK, PollRecords
      <3> QED
        BY <2>2, <3>3, <3>4, <3>5, PollBecomes DEF poll_starts, service, page, Types, RequestInv
    <2>3. ASSUME NEW p \in Polls, poll_fails(p)
          PROVE  (Types /\ RequestInv)'
      BY <2>3, EmptyTypes, RequestValues, PollBecomes DEF poll_fails, service, page, Types,
         RequestInv
    <2>4. ASSUME NEW p \in Polls, NEW pending \in [Threads -> Numbers],
                 NEW outcomes \in [Threads -> Outcomes], NEW asked \in SUBSET Threads,
                 goes_on(p, pending, outcomes, asked), UNCHANGED <<service, posts, accepted>>
          PROVE  (Types /\ RequestInv)'
      <3>1. \A q \in Polls : PollOK(polls'[q])
        BY <2>4, GoesOnType, RequestValues DEF RequestInv, PollOK
      <3> QED
        BY <2>4, <3>1, GoesOnType DEF service, Types, RequestInv
    <2>5. ASSUME NEW p \in Polls, poll_lists(p)
          PROVE  (Types /\ RequestInv)'
      <3>1. polls[p].pending \in [Threads -> Numbers] /\ decided \in [Threads -> Outcomes]
        BY DEF Types, PollRecords
      <3>2. goes_on(p, polls[p].pending, decided, {}) /\ UNCHANGED <<service, posts, accepted>>
        BY <2>5 DEF poll_lists
      <3> QED
        BY <2>4, <3>1, <3>2
    <2>6. ASSUME NEW p \in Polls, poll_asks(p)
          PROVE  (Types /\ RequestInv)'
      <3>1. polls[p] \in PollRecords /\ polls[p].thread \in Threads
        BY <2>6 DEF poll_asks, Types, RequestInv, PollOK
      <3>2. state[polls[p].thread] \in States \cup {"none"}
        BY <3>1 DEF Types
      <3>3. [polls[p] EXCEPT !.at = "told", !.told = state[polls[p].thread]] \in PollRecords
        BY <3>1, <3>2 DEF PollRecords
      <3>4. polls' = [polls EXCEPT ![p] =
                   [polls[p] EXCEPT !.at = "told", !.told = state[polls[p].thread]]]
        BY <2>6 DEF poll_asks, Types
      <3>5. PollOK([polls[p] EXCEPT !.at = "told", !.told = state[polls[p].thread]])
        BY <3>1 DEF PollOK, PollRecords
      <3> QED
        BY <2>6, <3>3, <3>4, <3>5, PollBecomes DEF poll_asks, service, page, Types, RequestInv
    <2>7. ASSUME NEW p \in Polls, poll_told(p)
          PROVE  (Types /\ RequestInv)'
      <3> DEFINE t == polls[p].thread
                 outcomes == [decided EXCEPT ![t] = outcome(polls[p].told, @)]
      <3>1. {t} \in SUBSET Threads
        BY <2>7 DEF poll_told, RequestInv, PollOK
      <3>2. outcomes \in [Threads -> Outcomes] /\ lastPending \in [Threads -> Numbers]
        BY <3>1, OutcomeType DEF Types
      <3>3. goes_on(p, lastPending, outcomes, {t}) /\ UNCHANGED <<service, posts, accepted>>
        BY <2>7 DEF poll_told
      <3> HIDE DEF t, outcomes
      <3> QED
        BY <2>4, <3>1, <3>2, <3>3
    <2>8. ASSUME NEW p \in Polls, poll_untold(p)
          PROVE  (Types /\ RequestInv)'
      <3>1. {polls[p].thread} \in SUBSET Threads
        BY <2>8 DEF poll_untold, RequestInv, PollOK
      <3>2. /\ goes_on(p, lastPending, decided, {polls[p].thread})
            /\ UNCHANGED <<service, posts, accepted>>
        BY <2>8 DEF poll_untold
      <3> QED
        BY <2>4, <3>1, <3>2 DEF Types
    <2>9. CASE minute_changes
      BY <2>9 DEF minute_changes, service, requests, Types, RequestInv
    <2>10. ASSUME NEW t \in Threads, click(t)
           PROVE  (Types /\ RequestInv)'
      <3>1. PICK k \in 1..MaxClicks :
              posts' = [posts EXCEPT ![k] = [at |-> "sent", thread |-> t, answer |-> 0]]
        BY <2>10 DEF click
      <3>2. [at |-> "sent", thread |-> t, answer |-> 0] \in PostRecords
        BY DEF PostRecords, Answers
      <3>3. PostOK([at |-> "sent", thread |-> t, answer |-> 0])
        BY DEF PostOK
      <3>4. cards' \in [Threads -> Cards]
        BY <2>10 DEF click, Types, Cards
      <3> QED
        BY <2>10, <3>1, <3>2, <3>3, <3>4, PostBecomes DEF click, service, Types, RequestInv
    <2>11. ASSUME NEW k \in 1..MaxClicks, NEW answer \in Statuses,
                  Answered(k, answer), Unserved(k)
           PROVE  /\ posts' \in [1..MaxClicks -> PostRecords]
                  /\ \A j \in 1..MaxClicks : PostOK(posts'[j])
      <3> DEFINE after == [posts[k] EXCEPT !.at = "answered", !.answer = answer]
      <3>1. posts[k] \in PostRecords /\ posts[k].thread \in Threads
        BY <2>11 DEF Unserved, Types, RequestInv, PostOK
      <3>2. after \in PostRecords /\ PostOK(after)
        BY <3>1, AnswerValues
      <3>3. posts' = [posts EXCEPT ![k] = Over] \/ posts' = [posts EXCEPT ![k] = after]
        BY <2>11, AnsweredType
      <3> HIDE DEF after
      <3> QED
        BY <3>2, <3>3, EmptyTypes, RequestValues, PostBecomes
    <2>12. ASSUME NEW k \in 1..MaxClicks, serve_accepted(k)
           PROVE  (Types /\ RequestInv)'
      <3>1. posts[k].thread \in Threads
        BY <2>12 DEF serve_accepted, Unserved, RequestInv, PostOK
      <3>2. ServiceNext
        BY <2>12, <3>1 DEF serve_accepted, ServiceNext
      <3>3. accepted' \in [Threads -> BOOLEAN]
        BY <2>12 DEF serve_accepted, Types
      <3> QED
        BY <2>11, <2>12, <3>2, <3>3, ServiceType DEF serve_accepted, Statuses, page, Types, RequestInv
    <2>13. ASSUME NEW k \in 1..MaxClicks, serve_gone(k) \/ serve_unauthorized(k)
           PROVE  (Types /\ RequestInv)'
      BY <2>11, <2>13 DEF serve_gone, serve_unauthorized, Statuses, service, page, Types, RequestInv
    <2>14. ASSUME NEW k \in 1..MaxClicks, post_unreachable(k)
           PROVE  (Types /\ RequestInv)'
      <3>1. posts[k] \in PostRecords
        BY DEF Types
      <3>2. \/ posts' = [posts EXCEPT ![k] = Over]
            \/ /\ posts[k].at = "sent"
               /\ posts' = [posts EXCEPT ![k] = [posts[k] EXCEPT !.at = "adrift"]]
        BY <2>14 DEF post_unreachable, Types
      <3>3. PostOK(posts[k])
        BY DEF RequestInv
      <3>4. /\ posts' \in [1..MaxClicks -> PostRecords]
            /\ \A j \in 1..MaxClicks : PostOK(posts'[j])
        BY <3>1, <3>2, <3>3, EmptyTypes, RequestValues, PostBecomes
      <3> QED
        BY <2>14, <3>4 DEF post_unreachable, service, page, Types, RequestInv
    <2>15. ASSUME NEW k \in 1..MaxClicks, post_answered(k)
           PROVE  (Types /\ RequestInv)'
      <3>1. decided' \in [Threads -> Outcomes]
        BY <2>15 DEF post_answered, says, Types, Outcomes
      <3>2. cards' \in [Threads -> Cards]
        BY <2>15, <3>1, DrawnType DEF post_answered, Types
      <3> QED
        BY <2>15, <3>1, <3>2, EmptyTypes, RequestValues, PostBecomes DEF post_answered, service,
           Types, RequestInv
    <2>16. CASE name_input
      <3>1. cards' \in [Threads -> Cards]
        BY <2>16, DrawnType DEF name_input, Types
      <3> QED
        BY <2>16, <3>1 DEF name_input, service, requests, Types, RequestInv
    <2>17. CASE reload
      <3>1. \A k \in 1..MaxClicks : posts'[k] \in PostRecords /\ PostOK(posts'[k])
        <4> SUFFICES ASSUME NEW k \in 1..MaxClicks
                     PROVE  posts'[k] \in PostRecords /\ PostOK(posts'[k])
          OBVIOUS
        <4>1. posts[k] \in PostRecords /\ PostOK(posts[k])
          BY DEF Types, RequestInv
        <4>2. CASE posts[k].at = "sent"
          BY <2>17, <4>1, <4>2, RequestValues DEF reload
        <4>3. CASE posts[k].at = "answered"
          BY <2>17, <4>1, <4>3, EmptyTypes, RequestValues DEF reload
        <4>4. CASE posts[k].at \notin {"sent", "answered"}
          BY <2>17, <4>1, <4>4 DEF reload
        <4> QED
          BY <4>2, <4>3, <4>4
      <3>2. posts' \in [1..MaxClicks -> PostRecords]
        BY <2>17, <3>1 DEF reload
      <3>3. /\ polls' \in [Polls -> PollRecords] /\ cards' \in [Threads -> Cards]
            /\ \A p \in Polls : PollOK(polls'[p])
        BY <2>17, EmptyTypes, RequestValues DEF reload
      <3> QED
        BY <2>17, <3>1, <3>2, <3>3, EmptyTypes DEF reload, service, Types, RequestInv
    <2>18. CASE UNCHANGED vars
      BY <2>18 DEF vars, service, page, requests, Types, RequestInv
    <2> QED
      BY <2>1, <2>2, <2>3, <2>5, <2>6, <2>7, <2>8, <2>9, <2>10, <2>12, <2>13, <2>14, <2>15,
         <2>16, <2>17, <2>18 DEF Next, Poll, Post
  <1> QED
    BY <1>1, <1>2, PTL DEF Spec

\* Spec => []TypeOK: the service, the page and its requests keep to their kinds.
THEOREM PanelTypeCorrect == Spec => []TypeOK
  <1>1. Types => TypeOK
    BY DEF Types, TypeOK, Numbers, Cards, PollRecords, PostRecords, Answers, Statuses
  <1> QED
    BY <1>1, Basics, PTL

-----------------------------------------------------------------------------
(* What is so, and stays so.                                               *)

\* A decision was accepted for t, or the process has restarted since.
Gone(t) == answered[t] # {} \/ state[t] = "forgotten"
Came(t, last) == state[t] \in {last, "forgotten"}

\* A run that has proposed something and does not wait has had an answer.
RunInv(t) == /\ state[t] = "new" => proposals[t] = 0
             /\ state[t] \in {"running", "done", "failed"} /\ proposals[t] # 0
                  => answered[t] # {}

\* What was true of a run when the server said so still is when the page hears it.
Onward(t) == /\ proposals[t] <= proposals'[t]
             /\ Gone(t) => Gone(t)'
             /\ Came(t, "done") => Came(t, "done")'
             /\ Came(t, "failed") => Came(t, "failed")'

\* Every step of the service leads onward.
LEMMA ServiceOnward ==
    ASSUME Types, [ServiceNext]_service, \A t \in Threads : RunInv(t)
    PROVE  \A t \in Threads : Onward(t) /\ RunInv(t)'
  <1> SUFFICES ASSUME NEW u \in Threads PROVE Onward(u) /\ RunInv(u)'
    OBVIOUS
  <1> USE DEF Types, Numbers, Onward, RunInv, Gone, Came
  <1>1. ASSUME NEW t \in Threads, starts(t) \/ ends(t)
        PROVE  Onward(u) /\ RunInv(u)'
    BY <1>1 DEF starts, ends
  <1>2. ASSUME NEW t \in Threads, proposes(t)
        PROVE  Onward(u) /\ RunInv(u)'
    BY <1>2 DEF proposes
  <1>3. ASSUME NEW t \in Threads, answers(t)
        PROVE  Onward(u) /\ RunInv(u)'
    <2>1. answered'[u] = IF u = t THEN answered[u] \cup {proposals[u]} ELSE answered[u]
      BY <1>3 DEF answers
    <2>2. answered[u] # {} \/ u = t => answered'[u] # {}
      BY <2>1
    <2>3. state'[u] = (IF u = t THEN "running" ELSE state[u]) /\ UNCHANGED proposals
      BY <1>3 DEF answers
    <2>4. state[t] = "paused"
      BY <1>3 DEF answers, takes_decision
    <2> QED
      BY <2>2, <2>3, <2>4
  <1>4. CASE forgets
    BY <1>4 DEF forgets
  <1>5. CASE UNCHANGED service
    BY <1>5 DEF service
  <1> QED
    BY <1>1, <1>2, <1>3, <1>4, <1>5 DEF ServiceNext

\* What is noted of a thread, and the buttons of its card, are as they may be.
TrueOutcome(t, o) == /\ o = "waiting" => accepted[t]
                     /\ o = "gone" => Gone(t)
                     /\ o = "done" => Came(t, "done")
                     /\ o = "error" => Came(t, "failed")
TrueCard(t, card, o) == card.enabled => o = "none" /\ card.proposal \in 1..proposals[t]

\* What is on its way to the page, too: lists of earlier proposals, the status of a
\* thread that has been decided on, and the answer to a decision.
TruePoll(poll) ==
    /\ \A t \in Threads : poll.pending[t] <= proposals[t]
    /\ poll.at \in {"asks", "told"} => decided[poll.thread] # "none"
    /\ poll.at = "told" /\ poll.told = "done" => Came(poll.thread, "done")
    /\ poll.at = "told" /\ poll.told = "failed" => Came(poll.thread, "failed")
TruePost(post) ==
    /\ post.at \in {"sent", "adrift", "answered"} => proposals[post.thread] # 0
    /\ post.at = "answered" /\ post.answer = 200 => accepted[post.thread]
    /\ post.at = "answered" /\ post.answer = 409 => Gone(post.thread)

TruthInv ==
    /\ \A t \in Threads : /\ RunInv(t)
                          /\ lastPending[t] <= proposals[t]
                          /\ TrueOutcome(t, decided[t])
                          /\ TrueCard(t, cards[t], decided[t])
    /\ \A p \in Polls : TruePoll(polls[p])
    /\ \A k \in 1..MaxClicks : TruePost(posts[k])

\* What is left alone stays true while the runs go onward and no thread is taken
\* out of decided.
LEMMA TruthStays ==
    ASSUME Types, Types', RequestInv, TruthInv, \A t \in Threads : Onward(t),
           \A t \in Threads : accepted[t] => accepted'[t],
           \A t \in Threads : decided[t] # "none" => decided'[t] # "none"
    PROVE  /\ \A t \in Threads : lastPending'[t] = lastPending[t]
                                   => lastPending'[t] <= proposals'[t]
           /\ \A t \in Threads : decided'[t] = decided[t] => TrueOutcome(t, decided[t])'
           /\ \A t \in Threads : cards'[t] = cards[t] /\ decided'[t] = decided[t]
                                   => TrueCard(t, cards[t], decided[t])'
           /\ \A p \in Polls : polls'[p] = polls[p] => TruePoll(polls[p])'
           /\ \A k \in 1..MaxClicks : posts'[k] = posts[k] => TruePost(posts[k])'
  <1>1. \A t \in Threads : lastPending'[t] = lastPending[t] => lastPending'[t] <= proposals'[t]
    BY DEF TruthInv, Onward, Types, Numbers
  <1>2. \A t \in Threads : decided'[t] = decided[t] => TrueOutcome(t, decided[t])'
    BY DEF TruthInv, TrueOutcome, Onward
  <1>3. \A t \in Threads : cards'[t] = cards[t] /\ decided'[t] = decided[t]
                             => TrueCard(t, cards[t], decided[t])'
    BY DEF TruthInv, TrueCard, Onward, Types, Numbers, Cards
  <1>4. ASSUME NEW p \in Polls, polls'[p] = polls[p]
        PROVE  TruePoll(polls[p])'
    <2>1. \A t \in Threads : polls[p].pending[t] <= proposals'[t]
      BY DEF TruthInv, TruePoll, Onward, Types, Numbers, PollRecords
    <2>2. polls[p].at \in {"asks", "told"} => polls[p].thread \in Threads
      BY DEF RequestInv, PollOK
    <2> QED
      BY <1>4, <2>1, <2>2 DEF TruthInv, TruePoll, Onward
  <1>5. ASSUME NEW k \in 1..MaxClicks, posts'[k] = posts[k]
        PROVE  TruePost(posts[k])'
    <2>1. posts[k].at \in {"sent", "adrift", "answered"} => posts[k].thread \in Threads
      BY DEF RequestInv, PostOK
    <2>2. \A t \in Threads : proposals[t] # 0 => proposals'[t] # 0
      BY DEF Onward, Types, Numbers
    <2> QED
      BY <1>5, <2>1, <2>2 DEF TruthInv, TruePost, Onward
  <1> QED
    BY <1>1, <1>2, <1>3, <1>4, <1>5

\* The cards are true when they are drawn.
LEMMA DrawnTrue ==
    ASSUME NEW pending \in [Threads -> Numbers], NEW outcomes \in [Threads -> Outcomes],
           \A t \in Threads : pending[t] <= proposals[t]
    PROVE  \A t \in Threads : TrueCard(t, drawn(pending, outcomes)[t], outcomes[t])
  BY DEF drawn, TrueCard, NoCard, Numbers

\* News that a poll may bring: proposals that were made, outcomes that are so, and
\* nothing new of a thread that may have buttons.
TrueNews(pending, outcomes) ==
    \A t \in Threads : /\ pending[t] <= proposals[t]
                       /\ TrueOutcome(t, outcomes[t])
                       /\ decided[t] = outcomes[t] \/ "none" \notin {decided[t], outcomes[t]}

\* A poll that goes on notes outcomes that are so; what it does not draw is still true,
\* because it has news only of threads that have no buttons any more.
LEMMA GoesOnTrue ==
    ASSUME Types, Types', RequestInv, TruthInv, NEW p \in Polls,
           NEW outcomes \in [Threads -> Outcomes], NEW asked \in SUBSET Threads,
           NEW pending \in [Threads -> Numbers],
           TrueNews(pending, outcomes),
           goes_on(p, pending, outcomes, asked), UNCHANGED <<service, posts, accepted>>
    PROVE  TruthInv'
  <1>1. /\ \A t \in Threads : Onward(t) /\ RunInv(t)'
        /\ UNCHANGED <<state, proposals, answered, accepted>>
    BY ServiceOnward DEF service, TruthInv
  <1>2. /\ lastPending' = pending /\ decided' = outcomes
        /\ \A q \in Polls \ {p} : polls'[q] = polls[q]
        /\ \/ polls'[p] = NoPoll
           \/ /\ polls'[p].at = "asks" /\ polls'[p].thread \in Threads
              /\ outcomes[polls'[p].thread] = "waiting"
              /\ polls'[p].pending = [t \in Threads |-> 0]
        /\ cards' = cards \/ cards' = drawn(pending, outcomes)
    BY GoesOnType
  <1>3. /\ \A q \in Polls \ {p} : TruePoll(polls[q])'
        /\ \A k \in 1..MaxClicks : TruePost(posts[k])'
    BY <1>1, <1>2, TruthStays DEF TrueNews
  <1>4. TruePoll(polls[p])'
    BY <1>1, <1>2 DEF TruePoll, NoPoll, TrueNews, Types, Numbers
  <1>5. \A t \in Threads : lastPending'[t] <= proposals'[t] /\ TrueOutcome(t, decided[t])'
    BY <1>1, <1>2 DEF TrueNews, TrueOutcome, Gone, Came
  <1>6. \A t \in Threads : TrueCard(t, cards[t], decided[t])'
    <2>1. CASE cards' = drawn(pending, outcomes)
      BY <1>1, <1>2, <2>1, DrawnTrue DEF TrueNews, TrueCard
    <2>2. CASE cards' = cards
      BY <1>1, <1>2, <2>2 DEF TruthInv, TrueCard, TrueNews
    <2> QED
      BY <1>2, <2>1, <2>2
  <1> QED
    BY <1>1, <1>3, <1>4, <1>5, <1>6 DEF TruthInv

\* Spec => []PageIsTrue: what the page says and offers is so, or was when the process
\* last knew of the run, in whatever order polls, posts and clicks cross each other.
THEOREM PageIsAlwaysTrue == Spec => []PageIsTrue
  <1>1. Init => TruthInv
    <2> SUFFICES ASSUME Init PROVE TruthInv
      OBVIOUS
    <2>1. \A t \in Threads : /\ RunInv(t) /\ lastPending[t] <= proposals[t]
                             /\ TrueOutcome(t, decided[t])
                             /\ TrueCard(t, cards[t], decided[t])
      <3> TAKE t \in Threads
      <3>1. state[t] = "new" /\ proposals[t] = 0 /\ lastPending[t] = 0
        BY DEF Init, ServiceInit, EmptyPage
      <3>2. decided[t] = "none"
        BY DEF Init, EmptyPage
      <3>3. cards[t] = NoCard
        BY DEF Init
      <3>4. ~NoCard.enabled
        BY DEF NoCard
      <3>5. RunInv(t)
        BY <3>1 DEF RunInv
      <3>6. TrueOutcome(t, decided[t])
        BY <3>2 DEF TrueOutcome
      <3>7. TrueCard(t, cards[t], decided[t])
        BY <3>3, <3>4 DEF TrueCard
      <3> QED
        BY <3>1, <3>5, <3>6, <3>7
    <2>2. \A p \in Polls : TruePoll(polls[p])
      BY DEF Init, ServiceInit, NoPoll, TruePoll
    <2>3. \A k \in 1..MaxClicks : TruePost(posts[k])
      BY DEF Init, NoPost, TruePost
    <2> QED
      BY <2>1, <2>2, <2>3 DEF TruthInv
  <1>2. Types /\ RequestInv /\ Types' /\ TruthInv /\ [Next]_vars => TruthInv'
    <2> SUFFICES ASSUME Types, RequestInv, Types', TruthInv, [Next]_vars PROVE TruthInv'
      OBVIOUS
    <2>1. CASE Elsewhere
      BY <2>1, ServiceOnward, TruthStays DEF Elsewhere, page, requests, TruthInv
    <2>2. ASSUME UNCHANGED service
          PROVE  /\ \A t \in Threads : Onward(t) /\ RunInv(t)'
                 /\ UNCHANGED <<state, proposals, answered>>
      BY <2>2, ServiceOnward DEF service, TruthInv
    <2>3. ASSUME NEW p \in Polls, poll_starts(p) \/ poll_fails(p) \/ poll_asks(p)
          PROVE  TruthInv'
      <3>1. /\ UNCHANGED <<service, page, posts, accepted>>
            /\ \A q \in Polls \ {p} : polls'[q] = polls[q]
        BY <2>3 DEF poll_starts, poll_fails, poll_asks, Types
      <3>2. TruePoll(polls[p])
        BY DEF TruthInv
      <3>3. TruePoll(polls[p])'
        <4>1. CASE poll_starts(p)
          <5> DEFINE listed == [t \in Threads |-> Listed(t)]
          <5>0. polls' = [polls EXCEPT ![p] =
                            [polls[p] EXCEPT !.at = "listed", !.pending = listed]]
            BY <4>1 DEF poll_starts, Types
          <5>1. polls'[p].at = "listed" /\ polls'[p].pending = listed
            <6>1. polls[p] \in PollRecords
              BY DEF Types
            <6>2. polls'[p] = [polls[p] EXCEPT !.at = "listed", !.pending = listed]
              BY <5>0 DEF Types
            <6> HIDE DEF listed
            <6> QED
              BY <6>1, <6>2 DEF PollRecords
          <5>2. \A t \in Threads : Listed(t) <= proposals[t]
            BY DEF Listed, Types, Numbers
          <5> QED
            BY <2>2, <3>1, <5>1, <5>2 DEF TruePoll
        <4>2. CASE poll_fails(p)
          BY <2>2, <3>1, <4>2 DEF poll_fails, TruePoll, NoPoll, Types, Numbers
        <4>3. CASE poll_asks(p)
          <5>1. /\ polls'[p].at = "told" /\ polls'[p].thread = polls[p].thread
                /\ polls'[p].told = state[polls[p].thread]
                /\ polls'[p].pending = polls[p].pending /\ polls[p].at = "asks"
            BY <4>3 DEF poll_asks, Types, PollRecords
          <5> QED
            BY <2>2, <3>1, <3>2, <5>1 DEF TruePoll, Came, page
        <4> QED
          BY <2>3, <4>1, <4>2, <4>3
      <3> QED
        BY <2>2, <3>1, <3>3, TruthStays DEF page, TruthInv
    <2>4. ASSUME NEW p \in Polls, poll_lists(p)
          PROVE  TruthInv'
      <3>1. /\ polls[p].pending \in [Threads -> Numbers] /\ decided \in [Threads -> Outcomes]
            /\ {} \in SUBSET Threads
        BY DEF Types, PollRecords
      <3>3. TrueNews(polls[p].pending, decided)
        BY DEF TrueNews, TruthInv, TruePoll
      <3>2. goes_on(p, polls[p].pending, decided, {}) /\ UNCHANGED <<service, posts, accepted>>
        BY <2>4 DEF poll_lists
      <3> QED
        BY <3>1, <3>2, <3>3, GoesOnTrue
    <2>5. /\ TrueNews(lastPending, decided)
          /\ lastPending \in [Threads -> Numbers] /\ decided \in [Threads -> Outcomes]
          /\ \A t \in Threads : lastPending[t] <= proposals[t]
          /\ \A t \in Threads : TrueOutcome(t, decided[t])
      BY DEF Types, TruthInv, TrueNews
    <2>6. ASSUME NEW p \in Polls, poll_told(p)
          PROVE  TruthInv'
      <3> DEFINE t == polls[p].thread
                 outcomes == [decided EXCEPT ![t] = outcome(polls[p].told, @)]
      <3>1. polls[p].at = "told" /\ TruePoll(polls[p]) /\ t \in Threads
        BY <2>6 DEF poll_told, TruthInv, RequestInv, PollOK
      <3>2. outcomes \in [Threads -> Outcomes] /\ outcomes[t] = outcome(polls[p].told, decided[t])
        BY <3>1, OutcomeType DEF Types
      <3>3. decided[t] # "none" /\ outcomes[t] # "none" /\ TrueOutcome(t, outcomes[t])
        <4>1. decided[t] # "none" /\ TrueOutcome(t, decided[t])
          BY <2>5, <3>1 DEF TruePoll
        <4> HIDE DEF outcomes
        <4> QED
          BY <3>1, <3>2, <4>1 DEF outcome, TruePoll, TrueOutcome
      <3>4. \A u \in Threads \ {t} : outcomes[u] = decided[u]
        BY DEF Types
      <3>5. goes_on(p, lastPending, outcomes, {t}) /\ UNCHANGED <<service, posts, accepted>>
        BY <2>6 DEF poll_told
      <3>6. {t} \in SUBSET Threads
        BY <3>1
      <3> HIDE DEF t, outcomes
      <3> QED
        <4>1. \A u \in Threads : TrueOutcome(u, outcomes[u])
          BY <2>5, <3>3, <3>4
        <4>2. TrueNews(lastPending, outcomes)
          BY <2>5, <3>3, <3>4, <4>1 DEF TrueNews
        <4> QED
          BY <2>5, <3>2, <3>5, <3>6, <4>2, GoesOnTrue
    <2>7. ASSUME NEW p \in Polls, poll_untold(p)
          PROVE  TruthInv'
      <3>1. {polls[p].thread} \in SUBSET Threads
        BY <2>7 DEF poll_untold, RequestInv, PollOK
      <3>2. /\ goes_on(p, lastPending, decided, {polls[p].thread})
            /\ UNCHANGED <<service, posts, accepted>>
        BY <2>7 DEF poll_untold
      <3> QED
        BY <2>5, <3>1, <3>2, GoesOnTrue
    <2>8. CASE minute_changes
      BY <2>2, <2>8, TruthStays DEF minute_changes, requests, TruthInv
    <2>9. ASSUME NEW t \in Threads, click(t)
          PROVE  TruthInv'
      <3>1. PICK k \in 1..MaxClicks :
              posts' = [posts EXCEPT ![k] = [at |-> "sent", thread |-> t, answer |-> 0]]
        BY <2>9 DEF click
      <3>2. /\ UNCHANGED <<service, lastPending, decided, polls, accepted>>
            /\ cards[t].enabled
            /\ \A u \in Threads : cards'[u].enabled => cards'[u] = cards[u]
        BY <2>9 DEF click, Types, Cards
      <3>3. proposals[t] # 0
        <4>1. TrueCard(t, cards[t], decided[t])
          BY DEF TruthInv
        <4>2. cards[t].proposal \in 1..proposals[t] /\ proposals[t] \in Numbers
          BY <3>2, <4>1 DEF TrueCard, Types
        <4> QED
          BY <4>2 DEF Numbers
      <3>4. TruePost(posts[k])' /\ \A j \in (1..MaxClicks) \ {k} : posts'[j] = posts[j]
        BY <2>2, <3>1, <3>2, <3>3 DEF TruePost, Types
      <3>5. \A u \in Threads : TrueCard(u, cards[u], decided[u])'
        BY <2>2, <3>2 DEF TruthInv, TrueCard
      <3> QED
        BY <2>2, <3>2, <3>4, <3>5, TruthStays DEF TruthInv
    <2>10. ASSUME NEW k \in 1..MaxClicks, Unserved(k), UNCHANGED <<page, polls>>,
                  NEW answer \in Statuses, Answered(k, answer),
                  \A t \in Threads : Onward(t) /\ RunInv(t)',
                  \A t \in Threads : accepted[t] => accepted'[t],
                  answer = 200 => accepted'[posts[k].thread],
                  answer = 409 => Gone(posts[k].thread)
           PROVE  TruthInv'
      <3>1. posts[k].thread \in Threads /\ proposals[posts[k].thread] # 0
        BY <2>10 DEF Unserved, RequestInv, PostOK, TruthInv, TruePost
      <3>2. proposals'[posts[k].thread] # 0 /\ (answer = 409 => Gone(posts[k].thread)')
        <4>1. Onward(posts[k].thread)
          BY <2>10, <3>1
        <4>2. /\ proposals[posts[k].thread] \in Numbers
              /\ proposals'[posts[k].thread] \in Numbers
          BY <3>1 DEF Types
        <4> QED
          BY <2>10, <3>1, <4>1, <4>2, PanelAssumption DEF Onward, Numbers
      <3>3. posts' = [posts EXCEPT ![k] = Over]
            \/ posts' = [posts EXCEPT ![k] = [posts[k] EXCEPT !.at = "answered",
                                                              !.answer = answer]]
        BY <2>10, AnsweredType
      <3>4. \A j \in (1..MaxClicks) \ {k} : posts'[j] = posts[j]
        BY <3>3 DEF Types
      <3>5. \/ posts'[k] = Over
            \/ posts'[k].thread = posts[k].thread /\ posts'[k].answer = answer
        <4>1. posts[k] \in PostRecords
          BY DEF Types
        <4>2. \/ posts'[k] = Over
              \/ posts'[k] = [posts[k] EXCEPT !.at = "answered", !.answer = answer]
          BY <3>3 DEF Types
        <4> QED
          BY <4>1, <4>2 DEF PostRecords
      <3>6. TruePost(posts[k])'
        BY <2>10, <3>2, <3>5 DEF TruePost, Over, NoPost
      <3> QED
        BY <2>10, <3>4, <3>6, TruthStays DEF page, TruthInv
    <2>11. ASSUME NEW k \in 1..MaxClicks, serve_accepted(k)
           PROVE  TruthInv'
      <3>1. posts[k].thread \in Threads
        BY <2>11 DEF serve_accepted, Unserved, RequestInv, PostOK
      <3>2. \A t \in Threads : Onward(t) /\ RunInv(t)'
        BY <2>11, <3>1, ServiceOnward DEF serve_accepted, ServiceNext, TruthInv
      <3>3. accepted'[posts[k].thread] /\ \A t \in Threads : accepted[t] => accepted'[t]
        BY <2>11, <3>1 DEF serve_accepted, Types
      <3>4. 200 \in Statuses /\ Unserved(k) /\ Answered(k, 200) /\ UNCHANGED <<page, polls>>
        BY <2>11 DEF serve_accepted, Statuses
      <3> QED
        BY <2>10, <3>2, <3>3, <3>4
    <2>12. ASSUME NEW k \in 1..MaxClicks, serve_gone(k)
           PROVE  TruthInv'
      <3>1. /\ UNCHANGED <<service, accepted>> /\ ~takes_decision(posts[k].thread)
            /\ 409 \in Statuses /\ Unserved(k) /\ Answered(k, 409) /\ UNCHANGED <<page, polls>>
        BY <2>12 DEF serve_gone, Statuses
      <3>2. posts[k].thread \in Threads /\ proposals[posts[k].thread] # 0
        BY <3>1 DEF Unserved, RequestInv, PostOK, TruthInv, TruePost
      <3>3. Gone(posts[k].thread)
        BY <3>1, <3>2 DEF takes_decision, TruthInv, RunInv, Gone, Types, States
      <3> QED
        BY <2>2, <2>10, <3>1, <3>3
    <2>13. ASSUME NEW k \in 1..MaxClicks, serve_unauthorized(k)
           PROVE  TruthInv'
      <3>1. /\ UNCHANGED <<service, accepted>>
            /\ 401 \in Statuses /\ Unserved(k) /\ Answered(k, 401) /\ UNCHANGED <<page, polls>>
        BY <2>13 DEF serve_unauthorized, Statuses
      <3> QED
        BY <2>2, <2>10, <3>1
    <2>14. ASSUME NEW k \in 1..MaxClicks, post_unreachable(k)
           PROVE  TruthInv'
      <3>1. /\ UNCHANGED <<service, page, polls, accepted>>
            /\ \A j \in (1..MaxClicks) \ {k} : posts'[j] = posts[j]
            /\ \/ posts'[k] = Over
               \/ /\ posts[k].at = "sent" /\ posts'[k].at = "adrift"
                  /\ posts'[k].thread = posts[k].thread
        BY <2>14 DEF post_unreachable, Types, PostRecords
      <3>2. TruePost(posts[k])'
        BY <2>2, <3>1 DEF TruthInv, TruePost, Over, NoPost
      <3> QED
        BY <2>2, <3>1, <3>2, TruthStays DEF page, TruthInv
    <2>15. ASSUME NEW k \in 1..MaxClicks, post_answered(k)
           PROVE  TruthInv'
      <3>1. /\ UNCHANGED <<service, lastPending, polls, accepted>> /\ posts'[k] = Over
            /\ \A j \in (1..MaxClicks) \ {k} : posts'[j] = posts[j]
            /\ posts[k].at = "answered" /\ cards' = drawn(lastPending, decided')
        BY <2>15 DEF post_answered, Types
      <3>2. posts[k].thread \in Threads /\ posts[k].answer \in Statuses /\ TruePost(posts[k])
        BY <3>1 DEF RequestInv, PostOK, TruthInv
      <3>3. \/ decided' = decided
            \/ /\ decided' = [decided EXCEPT ![posts[k].thread] = says(posts[k].answer)]
               /\ posts[k].answer \in {200, 409}
        BY <2>15, <3>2 DEF post_answered, Statuses
      <3>4. \A t \in Threads : \/ decided'[t] = decided[t]
                               \/ decided'[t] # "none" /\ TrueOutcome(t, decided'[t])
        BY <3>1, <3>2, <3>3 DEF says, TruePost, TrueOutcome, Types
      <3>5. \A t \in Threads : TrueOutcome(t, decided[t])'
        BY <2>2, <2>5, <3>1, <3>4 DEF TrueOutcome, Gone, Came
      <3>6. decided' \in [Threads -> Outcomes]
        BY DEF Types
      <3>7. \A t \in Threads : TrueCard(t, cards[t], decided[t])'
        BY <2>2, <2>5, <3>1, <3>6, DrawnTrue DEF TrueCard
      <3>8. TruePost(posts[k])'
        BY <3>1 DEF TruePost, Over, NoPost
      <3> QED
        BY <2>2, <3>1, <3>4, <3>5, <3>7, <3>8, TruthStays DEF TruthInv
    <2>16. CASE name_input
      <3>1. /\ UNCHANGED <<service, lastPending, decided, polls, posts, accepted>>
            /\ cards' = drawn(lastPending, decided)
        BY <2>16 DEF name_input, requests
      <3>2. \A t \in Threads : TrueCard(t, cards[t], decided[t])'
        BY <2>2, <2>5, <3>1, DrawnTrue DEF TrueCard
      <3> QED
        BY <2>2, <3>1, <3>2, TruthStays DEF TruthInv
    <2>17. CASE reload
      <3>1. UNCHANGED <<service, accepted>>
        BY <2>17 DEF reload
      <3>2. \A t \in Threads : /\ lastPending'[t] <= proposals'[t]
                               /\ TrueOutcome(t, decided[t])' /\ TrueCard(t, cards[t], decided[t])'
        BY <2>2, <2>17, <3>1 DEF reload, EmptyPage, NoCard, TrueOutcome, TrueCard, Types, Numbers
      <3>3. \A p \in Polls : TruePoll(polls[p])'
        BY <2>2, <2>17, <3>1 DEF reload, NoPoll, TruePoll, Types, Numbers
      <3>4. ASSUME NEW k \in 1..MaxClicks
            PROVE  TruePost(posts[k])'
        <4>1. \/ posts'[k] = Over
              \/ /\ posts[k].at = "sent" /\ posts'[k].at = "adrift"
                 /\ posts'[k].thread = posts[k].thread
              \/ posts'[k] = posts[k]
          <5>1. posts[k] \in PostRecords
            BY DEF Types
          <5>2. CASE posts[k].at = "sent"
            BY <2>17, <5>1, <5>2 DEF reload, PostRecords
          <5>3. CASE posts[k].at = "answered"
            BY <2>17, <5>3 DEF reload
          <5>4. CASE posts[k].at \notin {"sent", "answered"}
            BY <2>17, <5>4 DEF reload
          <5> QED
            BY <5>2, <5>3, <5>4
        <4> QED
          BY <2>2, <3>1, <4>1 DEF TruthInv, TruePost, Over, NoPost, Gone
      <3> QED
        BY <2>2, <3>1, <3>2, <3>3, <3>4 DEF TruthInv
    <2>18. CASE UNCHANGED vars
      BY <2>2, <2>18, TruthStays DEF vars, page, requests, TruthInv
    <2> QED
      BY <2>1, <2>3, <2>4, <2>6, <2>7, <2>8, <2>9, <2>11, <2>12, <2>13, <2>14, <2>15,
         <2>16, <2>17, <2>18 DEF Next, Poll, Post
  <1>3. TruthInv => PageIsTrue
    BY DEF TruthInv, TrueOutcome, TrueCard, Gone, Came, PageIsTrue
  <1> QED
    BY <1>1, <1>2, <1>3, Basics, PTL DEF Spec

=============================================================================
