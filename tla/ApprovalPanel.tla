--------------------------- MODULE ApprovalPanel ---------------------------
(***************************************************************************)
(* The approval panel (agent/panel.html): one browser tab over RunService, *)
(* which other surfaces use too.  Between two awaits the page's code runs  *)
(* undisturbed; while one waits, anything may happen: another poll starts, *)
(* a click posts a decision, an answer overtakes another or never arrives. *)
(* Tokens are right unless a post is answered 401; a proposal that expired *)
(* or a name not given only disables buttons nobody has to press.          *)
(***************************************************************************)
EXTENDS RunService

CONSTANTS Polls,       \* bound: polls that may be under way at once
          MaxClicks    \* bound: decisions posted by this tab

ASSUME PanelAssumption == MaxClicks \in Nat /\ MaxProposals \in Nat

VARIABLES lastPending,   \* lastPending[t]: the proposal last listed for t, 0 for none
          decided,       \* decided[t]: what the map of that name says of t
          renderKey,     \* the key of the last poll that drew, NoKey when outdated
          cards,         \* cards[t]: the card of t with its buttons, NoCard for none
          polls,         \* polls[p]: where poll p waits, and what it will be told
          posts,         \* posts[k]: the k-th decision posted
          accepted       \* history: accepted[t], one of them was answered with 200

page == <<lastPending, decided, renderKey, cards>>
requests == <<polls, posts, accepted>>
vars == <<service, page, requests>>

-----------------------------------------------------------------------------
NoKey == <<>>
NoCard == [proposal |-> 0, enabled |-> FALSE]
NoPoll == [at |-> "idle", pending |-> [t \in Threads |-> 0], asked |-> {},
           thread |-> "none", told |-> "none"]
NoPost == [at |-> "none", thread |-> "none", answer |-> 0]
Over == [NoPost EXCEPT !.at = "over"]

EmptyPage == [pending |-> [t \in Threads |-> 0], decided |-> [t \in Threads |-> "none"]]

Init == /\ ServiceInit
        /\ lastPending = EmptyPage.pending
        /\ decided = EmptyPage.decided
        /\ renderKey = NoKey
        /\ cards = [t \in Threads |-> NoCard]
        /\ polls = [p \in Polls |-> NoPoll]
        /\ posts = [k \in 1..MaxClicks |-> NoPost]
        /\ accepted = [t \in Threads |-> FALSE]

\* refresh: a card, its buttons enabled, for each thread listed and not decided.
drawn(pending, outcomes) ==
    [t \in Threads |->
       IF pending[t] # 0 /\ outcomes[t] = "none"
       THEN [proposal |-> pending[t], enabled |-> TRUE] ELSE NoCard]

-----------------------------------------------------------------------------
(* poll.                                                                   *)

\* Mutant: only threads the server still lists are asked about.
ToAskListed(p, outcomes) ==
    {t \in Threads : outcomes[t] = "waiting" /\ lastPending[t] # 0} \ polls[p].asked

\* The entries the loop over decided still has to ask the server about.
to_ask(p, outcomes) == {t \in Threads : outcomes[t] = "waiting"} \ polls[p].asked

\* The end of poll: draw, if the data or the minute changed since a poll drew.
render(pending, outcomes) ==
    IF renderKey = <<pending, outcomes>>
    THEN UNCHANGED <<renderKey, cards>>
    ELSE renderKey' = <<pending, outcomes>> /\ cards' = drawn(pending, outcomes)

\* The loop of poll p goes on to its next await, or p ends with the drawing.
goes_on(p, pending, outcomes, asked) ==
    LET rest == to_ask(p, outcomes) \ asked
    IN /\ lastPending' = pending
       /\ decided' = outcomes
       /\ IF rest = {}
          THEN polls' = [polls EXCEPT ![p] = NoPoll] /\ render(pending, outcomes)
          ELSE /\ \E t \in rest :
                    polls' = [polls EXCEPT ![p] = [NoPoll EXCEPT !.at = "asks",
                                 !.thread = t, !.asked = polls[p].asked \cup asked]]
               /\ UNCHANGED <<renderKey, cards>>

\* setInterval: a poll starts whether or not the earlier ones have ended.  The
\* server lists what it has then, the page gets to know later.
poll_starts(p) ==
    /\ polls[p].at = "idle"
    /\ polls' = [polls EXCEPT ![p].at = "listed",
                              ![p].pending = [t \in Threads |-> Listed(t)]]
    /\ UNCHANGED <<service, page, posts, accepted>>

\* "agent unreachable".
poll_fails(p) ==
    /\ polls[p].at = "listed"
    /\ polls' = [polls EXCEPT ![p] = NoPoll]
    /\ UNCHANGED <<service, page, posts, accepted>>

poll_lists(p) ==
    /\ polls[p].at = "listed"
    /\ goes_on(p, polls[p].pending, decided, {})
    /\ UNCHANGED <<service, posts, accepted>>

\* GET /runs/{thread_id} reaches the server.
poll_asks(p) ==
    /\ polls[p].at = "asks"
    /\ polls' = [polls EXCEPT ![p].at = "told", ![p].told = state[polls[p].thread]]
    /\ UNCHANGED <<service, page, posts, accepted>>

\* Mutant: the status is taken for the outcome.
OutcomeIsStatus(said, before) == said

\* What a status says of a decided thread; a run that is not over, or that the
\* server knows nothing of, says nothing.
outcome(said, before) ==
    CASE said = "done" -> "done" [] said = "failed" -> "error" [] OTHER -> before

\* The answer about one thread arrives.
poll_told(p) ==
    /\ polls[p].at = "told"
    /\ LET t == polls[p].thread
       IN goes_on(p, lastPending,
                  [decided EXCEPT ![t] = outcome(polls[p].told, @)], {t})
    /\ UNCHANGED <<service, posts, accepted>>

\* There is no answer: the loop takes the next thread.
poll_untold(p) ==
    /\ polls[p].at \in {"asks", "told"}
    /\ goes_on(p, lastPending, decided, {polls[p].thread})
    /\ UNCHANGED <<service, posts, accepted>>

\* Mutant: the key is of the data only.
MinuteUnnoticed == renderKey # NoKey /\ UNCHANGED vars

\* The key contains the minute, for the expiry labels: the one noted is outdated.
minute_changes ==
    /\ renderKey # NoKey
    /\ renderKey' = NoKey
    /\ UNCHANGED <<service, lastPending, decided, cards, requests>>

-----------------------------------------------------------------------------
(* decide.                                                                 *)

\* A click: the buttons of the card go, and the decision is posted.
click(t) ==
    /\ cards[t].enabled
    /\ \E k \in 1..MaxClicks :
         /\ posts[k].at = "none" /\ \A j \in 1..(k - 1) : posts[j].at # "none"
         /\ posts' = [posts EXCEPT ![k] = [at |-> "sent", thread |-> t, answer |-> 0]]
    /\ cards' = [cards EXCEPT ![t].enabled = FALSE]
    /\ UNCHANGED <<service, lastPending, decided, renderKey, polls, accepted>>

\* The server answers; nobody waits for the answer to an adrift post.
Answered(k, answer) ==
    posts' = [posts EXCEPT ![k] = IF @.at = "adrift" THEN Over
                                  ELSE [@ EXCEPT !.at = "answered", !.answer = answer]]

Unserved(k) == posts[k].at \in {"sent", "adrift"}

\* The decision endpoint: 200, or 409 when the run is not paused (any more).
serve_accepted(k) ==
    /\ Unserved(k)
    /\ answers(posts[k].thread)
    /\ accepted' = [accepted EXCEPT ![posts[k].thread] = TRUE]
    /\ Answered(k, 200)
    /\ UNCHANGED <<page, polls>>

serve_gone(k) ==
    /\ Unserved(k)
    /\ ~takes_decision(posts[k].thread)
    /\ Answered(k, 409)
    /\ UNCHANGED <<service, page, polls, accepted>>

serve_unauthorized(k) ==
    /\ Unserved(k)
    /\ Answered(k, 401)
    /\ UNCHANGED <<service, page, polls, accepted>>

\* fetch rejects: the request or its answer was lost.  Nothing is drawn, and a
\* request that was not may still reach the server.
post_unreachable(k) ==
    /\ posts[k].at \in {"sent", "answered"}
    /\ posts' = [posts EXCEPT ![k] = IF @.at = "sent" THEN [@ EXCEPT !.at = "adrift"]
                                     ELSE Over]
    /\ UNCHANGED <<service, page, polls, accepted>>

\* Mutant: whatever the answer, the decision was delivered.
SaysWaiting(answer) == "waiting"

\* What decide notes of the thread, by the status of the answer.
says(answer) == IF answer = 409 THEN "gone" ELSE "waiting"

\* The answer arrives: it is noted (a 401 is not), and the page drawn again.
post_answered(k) ==
    /\ posts[k].at = "answered"
    /\ posts' = [posts EXCEPT ![k] = Over]
    /\ decided' = IF posts[k].answer = 401 THEN decided
                  ELSE [decided EXCEPT ![posts[k].thread] = says(posts[k].answer)]
    /\ cards' = drawn(lastPending, decided')
    /\ UNCHANGED <<service, lastPending, renderKey, polls, accepted>>

\* Typing in the name field draws the cards again, those just clicked too.
name_input ==
    /\ cards' = drawn(lastPending, decided)
    /\ UNCHANGED <<service, lastPending, decided, renderKey, requests>>

\* The page is loaded anew and knows nothing; posts under way are on their own.
reload ==
    /\ lastPending' = EmptyPage.pending
    /\ decided' = EmptyPage.decided
    /\ renderKey' = NoKey
    /\ cards' = [t \in Threads |-> NoCard]
    /\ polls' = [p \in Polls |-> NoPoll]
    /\ posts' = [k \in 1..MaxClicks |->
                   CASE posts[k].at = "sent" -> [posts[k] EXCEPT !.at = "adrift"]
                     [] posts[k].at = "answered" -> Over
                     [] OTHER -> posts[k]]
    /\ UNCHANGED <<service, accepted>>

-----------------------------------------------------------------------------
\* The run goes on by itself, or another surface decides it.
Elsewhere == ServiceNext /\ UNCHANGED <<page, requests>>

Poll(p) == \/ poll_starts(p) \/ poll_fails(p) \/ poll_lists(p)
           \/ poll_asks(p) \/ poll_told(p) \/ poll_untold(p)

Post(k) == \/ serve_accepted(k) \/ serve_gone(k) \/ serve_unauthorized(k)
           \/ post_unreachable(k) \/ post_answered(k)

Next == \/ Elsewhere
        \/ \E p \in Polls : Poll(p)
        \/ minute_changes
        \/ \E t \in Threads : click(t)
        \/ \E k \in 1..MaxClicks : Post(k)
        \/ name_input
        \/ reload

Spec == Init /\ [][Next]_vars

\* The timer and the clock go on, and of the requests sent again and again some
\* are answered.  Nobody has to click, decide elsewhere, or reload the page, and
\* a run has to do nothing.
FairSpec == /\ Spec
            /\ WF_vars(minute_changes)
            /\ WF_vars(\E p \in Polls : poll_starts(p))
            /\ SF_vars(\E p \in Polls : poll_lists(p))
            /\ SF_vars(\E p \in Polls : poll_asks(p))
            /\ SF_vars(\E p \in Polls : poll_told(p))

-----------------------------------------------------------------------------
(* What the panel promises.                                                *)

Outcomes == {"none", "waiting", "gone", "done", "error"}

\* Every variable holds values of its kind.
TypeOK ==
    /\ state \in [Threads -> States]
    /\ proposals \in [Threads -> 0..MaxProposals]
    /\ answered \in [Threads -> SUBSET (1..MaxProposals)]
    /\ lastPending \in [Threads -> 0..MaxProposals]
    /\ decided \in [Threads -> Outcomes]
    /\ cards \in [Threads -> [proposal : 0..MaxProposals, enabled : BOOLEAN]]
    /\ \A p \in Polls :
         /\ polls[p].at \in {"idle", "listed", "asks", "told"}
         /\ polls[p].told \in States \cup {"none"}
    /\ \A k \in 1..MaxClicks :
         /\ posts[k].at \in {"none", "sent", "adrift", "answered", "over"}
         /\ posts[k].answer \in {0, 200, 401, 409}

\* The page never says what is not so, whichever answers overtook which: it
\* awaits an outcome only where a decision posted here was accepted, calls a
\* decision gone only where another was accepted or the process restarted, shows
\* an outcome only of a run that has that outcome, and offers buttons only for a
\* proposal that was really made, of a run it has not had an answer for.
PageIsTrue ==
    \A t \in Threads :
        /\ decided[t] = "waiting" => accepted[t]
        /\ decided[t] = "gone" => answered[t] # {} \/ state[t] = "forgotten"
        /\ decided[t] = "done" => state[t] \in {"done", "forgotten"}
        /\ decided[t] = "error" => state[t] \in {"failed", "forgotten"}
        /\ cards[t].enabled =>
             decided[t] = "none" /\ cards[t].proposal \in 1..proposals[t]

\* A decided run that has ended is shown with its outcome some time, unless the
\* process restarts first and knows of no such run.
WaitingResolves ==
    \A t \in Threads :
        decided[t] = "waiting" /\ state[t] \in {"done", "failed"}
          ~> decided[t] # "waiting" \/ state[t] = "forgotten"

Offered(t) == cards[t] = [proposal |-> proposals[t], enabled |-> TRUE]

\* A proposal that waits, of a run this page has had no answer about, is offered
\* for decision again and again: lost and late lists do not hide it, and buttons
\* that a lost post left disabled come back.
UndecidedIsShown ==
    \A t \in Threads :
        <>[](state[t] = "paused" /\ decided[t] = "none") => []<>Offered(t)

-----------------------------------------------------------------------------
(* What the documents say and the panel does not do.                       *)

\* DESIGN.md:187: one thread_id can emit a second proposal; render the latest.
\* The page never takes a thread out of decided, so it hides what is proposed
\* for one after the decision was found stale.
FreshProposalShown ==
    \A t \in Threads : <>[](state[t] = "paused") => []<>Offered(t)

=============================================================================
