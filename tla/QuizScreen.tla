----------------------------- MODULE QuizScreen -----------------------------
(***************************************************************************)
(* The quiz page in a browser with script: one person picks, answers, goes  *)
(* on and follows links while navigations are under way.  The router keeps  *)
(* what loader and action returned, the DOM keeps the radio that is         *)
(* checked, and the loader runs again after every action.  Which question   *)
(* it returns is up to the selection; what a POST did to the attempts is    *)
(* known only from its reply, and a navigation that is replaced never sees  *)
(* its own.                                                                 *)
(***************************************************************************)
EXTENDS Integers, Sequences, SequencesExt

CONSTANTS
  Questions,   \* ids of live questions
  Positions,   \* places of a question's choices on the page
  None,
  MaxPosts     \* answers sent in all

ASSUME ScreenAssumption ==
  /\ None \notin Questions
  /\ MaxPosts \in Nat

VARIABLES
  shown,      \* question of useLoaderData
  previous,   \* previousQuestionId in the address
  picked,     \* choice whose radio is checked, or None
  result,     \* useActionData
  nav,        \* navigation under way
  busy,       \* isSubmitting as last rendered
  screen,     \* page or error boundary
  posts,      \* answers sent and what became of them
  clicked,    \* choices the person has clicked, each while it was shown
  verdicts,   \* verdicts shown for the question since it arrived
  left        \* question judged before the last "next", None if a page came otherwise

vars == <<shown, previous, picked, result, nav, busy, screen, posts, clicked, verdicts, left>>

NoResult == [kind |-> "none", choice |-> None]

Idle == [kind |-> "idle", post |-> 0, exclude |-> None, judged |-> None]

\* previous_question_id is left out unless nothing else is there (GetQuestion).
Offered(exclude) == IF Questions \subseteq {exclude} THEN Questions ELSE Questions \ {exclude}

Init ==
  /\ shown \in Questions
  /\ previous = None
  /\ picked = None
  /\ result = NoResult
  /\ nav = Idle
  /\ busy = FALSE
  /\ screen = "page"
  /\ posts = <<>>
  /\ clicked = {}
  /\ verdicts = 0
  /\ left = None

----------------------------------------------------------------------------
(* The person *)

\* Mutant of Answered: disabled={isSubmitting} only.
NeverAnswered == FALSE

Answered == result.kind = "ok"

FormEnabled == screen = "page" /\ ~busy /\ ~Answered

Pick(at) ==
  /\ FormEnabled
  /\ picked' = [of |-> shown, at |-> at]
  /\ clicked' = clicked \cup {picked'}
  /\ UNCHANGED <<shown, previous, result, nav, busy, screen, posts, verdicts, left>>

\* The form is posted as the DOM has it.  What was under way is dropped, a
\* POST whose "disabled" is not rendered yet as well.
Submit ==
  /\ FormEnabled /\ Len(posts) < MaxPosts
  /\ posts' = Append(posts, [question |-> shown, choice |-> picked, outcome |-> "none", recorded |-> FALSE])
  /\ nav' = [Idle EXCEPT !.kind = "submitting", !.post = Len(posts')]
  /\ UNCHANGED <<shown, previous, picked, result, busy, screen, clicked, verdicts, left>>

\* The form below a verdict.
GoOn ==
  /\ screen = "page" /\ Answered
  /\ nav' = [Idle EXCEPT !.kind = "loading", !.exclude = shown, !.judged = result.choice.of]
  /\ UNCHANGED <<shown, previous, picked, result, busy, screen, posts, clicked, verdicts, left>>

\* The link in the header, or the one of the error boundary.
FollowLink ==
  /\ nav' = [Idle EXCEPT !.kind = "loading"]
  /\ UNCHANGED <<shown, previous, picked, result, busy, screen, posts, clicked, verdicts, left>>

----------------------------------------------------------------------------
(* The router *)

\* React renders what a click began before a reply can arrive.
Rendered == busy = (nav.kind = "submitting")

Render ==
  /\ ~Rendered
  /\ busy' = (nav.kind = "submitting")
  /\ UNCHANGED <<shown, previous, picked, result, nav, screen, posts, clicked, verdicts, left>>

\* The action's data is there at once, the loader is asked again with the
\* address as it is.
TakeResult(kind, choice) ==
  /\ result' = [kind |-> kind, choice |-> choice]
  /\ nav' = [Idle EXCEPT !.kind = "reloading", !.exclude = previous]
  /\ verdicts' = IF kind = "ok" THEN verdicts + 1 ELSE verdicts
  /\ UNCHANGED screen

\* The loader or the action threw a Response.
ShowError ==
  /\ screen' = "error"
  /\ nav' = Idle
  /\ picked' = None

TakeReply ==
  /\ Rendered /\ nav.kind = "submitting"
  /\ LET post == posts[nav.post]
     IN  \/ /\ post.outcome \in {"ok", "failed"}
            /\ TakeResult(post.outcome, post.choice)
            /\ UNCHANGED picked
         \/ /\ post.outcome = "refused"
            /\ result' = NoResult
            /\ ShowError
            /\ UNCHANGED verdicts
  /\ busy' = FALSE
  /\ UNCHANGED <<shown, previous, posts, clicked, left>>

\* Mutant of Rechecked: key={index}, the radios stay from one question to the next.
RecheckedByPosition(question, choice) ==
  IF choice = None \/ picked = None THEN choice ELSE [of |-> question, at |-> picked.at]

\* Radios are keyed by choice: those of the same question stay as they are,
\* new ones begin with defaultChecked.
Rechecked(question, choice) ==
  IF question = shown /\ screen = "page" THEN picked
  ELSE IF choice # None /\ choice.of = question THEN choice
  ELSE None

Arrive(question) ==
  /\ Rendered /\ nav.kind \in {"loading", "reloading"}
  /\ question \in Offered(nav.exclude)
  /\ result' = IF nav.kind = "reloading" THEN result ELSE NoResult
  /\ picked' = Rechecked(question, result'.choice)
  /\ shown' = question
  /\ previous' = nav.exclude
  /\ left' = nav.judged
  /\ screen' = "page"
  /\ verdicts' = 0
  /\ nav' = Idle
  /\ UNCHANGED <<busy, posts, clicked>>

LoadFails ==
  /\ Rendered /\ nav.kind \in {"loading", "reloading"}
  /\ ShowError
  /\ previous' = nav.exclude
  /\ result' = IF nav.kind = "reloading" THEN result ELSE NoResult
  /\ UNCHANGED <<shown, busy, posts, clicked, verdicts, left>>

----------------------------------------------------------------------------
(* The server, whoever still waits for it *)

\* The action: refused by a check that throws, failed with a message, after
\* the attempt was recorded or before, or judged.
Serve(i) ==
  /\ posts[i].outcome = "none"
  /\ \E outcome \in {"ok", "failed", "refused"}, recorded \in BOOLEAN :
       /\ recorded => posts[i].choice # None /\ outcome # "refused"
       /\ outcome = "ok" => recorded
       /\ posts' = [posts EXCEPT ![i].outcome = outcome, ![i].recorded = recorded]
  /\ UNCHANGED <<shown, previous, picked, result, nav, busy, screen, clicked, verdicts, left>>

Next ==
  \/ \E at \in Positions : Pick(at)
  \/ Submit \/ GoOn \/ FollowLink
  \/ Render \/ TakeReply \/ LoadFails
  \/ \E question \in Questions : Arrive(question)
  \/ \E i \in DOMAIN posts : Serve(i)

Spec == Init /\ [][Next]_vars

----------------------------------------------------------------------------
(* Properties *)

\* What is recorded is an answer to the question it was clicked for: never a
\* choice that was left checked when another question took the place of its
\* own, and never the question of one render with the choice of another
\* (the hidden questionId, the keyed radios, defaultChecked).
AnswersAreMeant ==
  \A i \in DOMAIN posts : posts[i].recorded =>
    posts[i].choice.of = posts[i].question /\ posts[i].choice \in clicked

\* However often the person clicks, and whatever is replaced, fails or is
\* reloaded in between, one verdict at most is given for a question until it
\* is loaded again (disabled={isSubmitting || answered}).
OneVerdictPerShowing == verdicts <= 1

\* "WHEN 次の問題へ進む操作を実行したとき THEN システム SHALL 別の4択問題を表示する":
\* what follows a verdict is not the question it was about.
AnotherQuestionFollows ==
  (screen = "page" /\ Questions # {left}) => shown # left
=============================================================================
