-------------------------- MODULE QuizScreenProofs --------------------------
(***************************************************************************)
(* What is recorded was meant, and a question gets one verdict while it is  *)
(* shown: for any number of questions, choices and answers.                 *)
(***************************************************************************)
EXTENDS QuizScreen, TLAPS

Radios == [of : Questions, at : Positions]

Answers ==
  [question : Questions, choice : Radios \cup {None},
   outcome : {"none", "ok", "failed", "refused"}, recorded : BOOLEAN]

\* A choice in hand is one the person has clicked.
Clicked(choice) == choice # None => choice \in clicked

\* The radio that is checked belongs to the question on the page.
FormFits ==
  /\ shown \in Questions
  /\ clicked \subseteq Radios
  /\ picked \in Radios \cup {None} /\ Clicked(picked)
  /\ picked # None => picked.of = shown
  /\ Clicked(result.choice)

PostFits(post) ==
  /\ Clicked(post.choice)
  /\ post.choice # None => post.choice.of = post.question
  /\ post.recorded => post.choice # None

PostsFit ==
  /\ posts \in Seq(Answers)
  /\ \A i \in DOMAIN posts : PostFits(posts[i])
  /\ nav.kind = "submitting" => nav.post \in DOMAIN posts

\* While a post is waited for there is no verdict yet, and once there is one the
\* form stays closed until something else is loaded.
VerdictFits ==
  /\ verdicts \in {0, 1}
  /\ nav.kind = "submitting" => verdicts = 0
  /\ verdicts = 1 => Answered \/ screen = "error"

ScreenInv == FormFits /\ PostsFit /\ VerdictFits

----------------------------------------------------------------------------
LEMMA InitFits == Init => ScreenInv
BY DEF Init, ScreenInv, FormFits, PostsFit, PostFits, VerdictFits, Clicked, NoResult, Idle

\* A click checks a radio of the question that is shown (quiz.tsx, the form).
LEMMA PickKeeps ==
  ASSUME ScreenInv, NEW at \in Positions, Pick(at)
  PROVE  ScreenInv'
<1>1. /\ picked' = [of |-> shown, at |-> at]
      /\ clicked' = clicked \cup {picked'}
      /\ UNCHANGED <<shown, previous, result, nav, busy, screen, posts, verdicts, left>>
  BY DEF Pick
<1>2. picked' \in Radios /\ picked'.of = shown
  BY <1>1 DEF ScreenInv, FormFits, Radios
<1>3. FormFits'
  BY <1>1, <1>2 DEF ScreenInv, FormFits, Clicked
<1>4. PostsFit'
  BY <1>1 DEF ScreenInv, PostsFit, PostFits, Clicked
<1>5. VerdictFits'
  BY <1>1 DEF ScreenInv, VerdictFits, Answered
<1> QED
  BY <1>3, <1>4, <1>5 DEF ScreenInv

\* What is posted is the question that is shown with its own radio.
LEMMA SubmitKeeps ==
  ASSUME ScreenInv, Submit
  PROVE  ScreenInv'
<1> DEFINE new == [question |-> shown, choice |-> picked, outcome |-> "none", recorded |-> FALSE]
<1>1. /\ posts' = Append(posts, new)
      /\ nav' = [Idle EXCEPT !.kind = "submitting", !.post = Len(posts')]
      /\ UNCHANGED <<shown, previous, picked, result, busy, screen, clicked, verdicts, left>>
  BY DEF Submit
<1>2. new \in Answers
  BY DEF ScreenInv, FormFits, Answers
<1>3. /\ posts' \in Seq(Answers) /\ DOMAIN posts' = 1 .. Len(posts) + 1
      /\ Len(posts') = Len(posts) + 1 /\ Len(posts) \in Nat
      /\ \A i \in 1 .. Len(posts) : posts'[i] = posts[i]
      /\ posts'[Len(posts) + 1] = new
  BY <1>1, <1>2 DEF ScreenInv, PostsFit
<1> HIDE DEF new
<1>4. FormFits'
  BY <1>1 DEF ScreenInv, FormFits, Clicked
<1>5. nav'.kind = "submitting" /\ nav'.post \in DOMAIN posts'
  BY <1>1, <1>3 DEF Idle
<1>6. ASSUME NEW i \in DOMAIN posts'
      PROVE  PostFits(posts[i])'
  <2>1. CASE i \in 1 .. Len(posts)
    BY <1>1, <1>3, <2>1 DEF ScreenInv, PostsFit, PostFits, Clicked
  <2>2. CASE i = Len(posts) + 1
    <3>1. posts'[i] = new
      BY <1>3, <2>2
    <3>2. new.choice = picked /\ new.question = shown /\ ~new.recorded
      BY DEF new
    <3> QED
      BY <1>1, <3>1, <3>2 DEF ScreenInv, FormFits, PostFits, Clicked
  <2> QED
    BY <1>3, <2>1, <2>2
<1>7. PostsFit'
  BY <1>3, <1>5, <1>6 DEF PostsFit
<1>8. VerdictFits'
  BY <1>1 DEF Submit, FormEnabled, ScreenInv, VerdictFits, Answered
<1> QED
  BY <1>4, <1>7, <1>8 DEF ScreenInv

\* Steps that leave form, posts and verdict alone and wait for no post.
LEMMA NavigationKeeps ==
  ASSUME ScreenInv, GoOn \/ FollowLink \/ Render
  PROVE  ScreenInv'
<1>1. /\ UNCHANGED <<shown, picked, result, screen, posts, clicked, verdicts>>
      /\ nav' = nav \/ nav'.kind = "loading"
  BY DEF GoOn, FollowLink, Render, Idle
<1> QED
  BY <1>1 DEF ScreenInv, FormFits, PostsFit, PostFits, VerdictFits, Clicked, Answered

\* A reply brings a choice that was posted, and the first verdict.
LEMMA TakeReplyKeeps ==
  ASSUME ScreenInv, TakeReply
  PROVE  ScreenInv'
<1> DEFINE post == posts[nav.post]
<1>1. /\ nav.kind = "submitting" /\ UNCHANGED <<shown, posts, clicked>>
  BY DEF TakeReply
<1>2. Clicked(post.choice) /\ verdicts = 0
  BY <1>1 DEF ScreenInv, PostsFit, PostFits, VerdictFits
<1>3. CASE /\ post.outcome \in {"ok", "failed"}
           /\ TakeResult(post.outcome, post.choice)
           /\ UNCHANGED picked
  <2>1. result'.choice = post.choice /\ result'.kind = post.outcome /\ nav'.kind = "reloading"
    BY <1>3 DEF TakeResult, Idle
  <2>2. FormFits'
    BY <1>1, <1>2, <1>3, <2>1 DEF ScreenInv, FormFits, Clicked
  <2>3. PostsFit'
    BY <1>1, <2>1 DEF ScreenInv, PostsFit, PostFits, Clicked
  <2>4. VerdictFits'
    BY <1>2, <1>3, <2>1 DEF TakeResult, VerdictFits, Answered
  <2> QED
    BY <2>2, <2>3, <2>4 DEF ScreenInv
<1>4. CASE result' = NoResult /\ ShowError /\ UNCHANGED verdicts
  <2>1. result'.choice = None /\ picked' = None /\ nav'.kind = "idle" /\ screen' = "error"
    BY <1>4 DEF ShowError, Idle, NoResult
  <2>2. FormFits'
    BY <1>1, <2>1 DEF ScreenInv, FormFits, Clicked
  <2>3. PostsFit'
    BY <1>1, <2>1 DEF ScreenInv, PostsFit, PostFits, Clicked
  <2>4. VerdictFits'
    BY <1>2, <1>4, <2>1 DEF VerdictFits
  <2> QED
    BY <2>2, <2>3, <2>4 DEF ScreenInv
<1> QED
  BY <1>3, <1>4 DEF TakeReply

\* Another question brings its own radios; a default is checked only where it is
\* one of them (key, defaultChecked).
LEMMA ArriveKeeps ==
  ASSUME ScreenInv, NEW question \in Questions, Arrive(question)
  PROVE  ScreenInv'
<1>1. /\ result' = result \/ result' = NoResult
      /\ picked' = Rechecked(question, result'.choice)
      /\ shown' = question /\ nav' = Idle /\ verdicts' = 0
      /\ UNCHANGED <<posts, clicked>>
  BY DEF Arrive
<1>2. result'.choice = result.choice \/ result'.choice = None
  BY <1>1 DEF NoResult
<1>3. \/ picked' = picked /\ question = shown
      \/ picked' = result'.choice /\ picked' # None /\ picked'.of = question
      \/ picked' = None
  BY <1>1 DEF Rechecked
<1>4. FormFits'
  BY <1>1, <1>2, <1>3 DEF ScreenInv, FormFits, Clicked
<1>5. PostsFit'
  BY <1>1 DEF ScreenInv, PostsFit, PostFits, Clicked, Idle
<1>6. VerdictFits'
  BY <1>1 DEF VerdictFits
<1> QED
  BY <1>4, <1>5, <1>6 DEF ScreenInv

LEMMA LoadFailsKeeps ==
  ASSUME ScreenInv, LoadFails
  PROVE  ScreenInv'
<1>1. /\ result' = result \/ result' = NoResult
      /\ picked' = None /\ nav' = Idle /\ screen' = "error"
      /\ UNCHANGED <<shown, posts, clicked, verdicts>>
  BY DEF LoadFails, ShowError
<1>2. result'.choice = result.choice \/ result'.choice = None
  BY <1>1 DEF NoResult
<1>3. FormFits'
  BY <1>1, <1>2 DEF ScreenInv, FormFits, Clicked
<1>4. PostsFit'
  BY <1>1 DEF ScreenInv, PostsFit, PostFits, Clicked, Idle
<1>5. VerdictFits'
  BY <1>1 DEF ScreenInv, VerdictFits, Idle
<1> QED
  BY <1>3, <1>4, <1>5 DEF ScreenInv

\* The server writes into a post what became of it, and records no empty one.
LEMMA ServeKeeps ==
  ASSUME ScreenInv, NEW n \in DOMAIN posts, Serve(n)
  PROVE  ScreenInv'
<1>1. PICK outcome \in {"ok", "failed", "refused"}, recorded \in BOOLEAN :
        /\ recorded => posts[n].choice # None
        /\ posts' = [posts EXCEPT ![n].outcome = outcome, ![n].recorded = recorded]
  BY DEF Serve
<1>2. UNCHANGED <<shown, picked, result, nav, screen, clicked, verdicts>>
  BY DEF Serve
<1>3. posts \in Seq(Answers)
  BY DEF ScreenInv, PostsFit
<1>4. /\ Len(posts) \in Nat /\ DOMAIN posts = 1 .. Len(posts) /\ posts[n] \in Answers
      /\ posts = [i \in 1 .. Len(posts) |-> posts[i]] /\ \A i \in 1 .. Len(posts) : posts[i] \in Answers
  BY <1>3
<1>5. /\ DOMAIN posts' = 1 .. Len(posts) /\ posts' = [i \in 1 .. Len(posts) |-> posts'[i]]
      /\ \A i \in 1 .. Len(posts) : i # n => posts'[i] = posts[i]
  BY <1>1, <1>4
<1>6. posts'[n] = [posts[n] EXCEPT !.outcome = outcome, !.recorded = recorded]
  BY <1>1, <1>4
<1>7. /\ posts'[n] \in Answers /\ posts'[n].choice = posts[n].choice
      /\ posts'[n].question = posts[n].question /\ posts'[n].recorded = recorded
  BY <1>4, <1>6 DEF Answers
<1>8. posts' \in [1 .. Len(posts) -> Answers]
  BY <1>4, <1>5, <1>7
<1>9. posts' \in Seq(Answers)
  BY <1>4, <1>8
<1>10. ASSUME NEW i \in DOMAIN posts' PROVE PostFits(posts[i])'
  <2>1. CASE i = n
    BY <1>1, <1>2, <1>7, <2>1 DEF ScreenInv, PostsFit, PostFits, Clicked
  <2>2. CASE i # n
    BY <1>2, <1>4, <1>5, <2>2 DEF ScreenInv, PostsFit, PostFits, Clicked
  <2> QED
    BY <2>1, <2>2
<1>11. PostsFit'
  BY <1>2, <1>4, <1>5, <1>9, <1>10 DEF ScreenInv, PostsFit
<1>12. FormFits' /\ VerdictFits'
  BY <1>2 DEF ScreenInv, FormFits, VerdictFits, Clicked, Answered
<1> QED
  BY <1>11, <1>12 DEF ScreenInv

LEMMA NextFits == ScreenInv /\ [Next]_vars => ScreenInv'
<1> SUFFICES ASSUME ScreenInv, [Next]_vars PROVE ScreenInv'
  OBVIOUS
<1>1. CASE \E at \in Positions : Pick(at)
  BY <1>1, PickKeeps
<1>2. CASE Submit
  BY <1>2, SubmitKeeps
<1>3. CASE GoOn \/ FollowLink \/ Render
  BY <1>3, NavigationKeeps
<1>4. CASE TakeReply
  BY <1>4, TakeReplyKeeps
<1>5. CASE \E question \in Questions : Arrive(question)
  BY <1>5, ArriveKeeps
<1>6. CASE LoadFails
  BY <1>6, LoadFailsKeeps
<1>7. CASE \E i \in DOMAIN posts : Serve(i)
  BY <1>7, ServeKeeps
<1>8. CASE UNCHANGED vars
  BY <1>8 DEF vars, ScreenInv, FormFits, PostsFit, PostFits, VerdictFits, Clicked, Answered
<1> QED
  BY <1>1, <1>2, <1>3, <1>4, <1>5, <1>6, <1>7, <1>8 DEF Next

LEMMA AlwaysFits == Spec => []ScreenInv
BY InitFits, NextFits, PTL DEF Spec

(* What is recorded is an answer the person clicked for the question it is
   recorded for, whatever was loaded, replaced or posted twice (quiz.tsx). *)
THEOREM RecordedAnswersAreMeant == Spec => []AnswersAreMeant
<1>1. ScreenInv => AnswersAreMeant
  BY DEF ScreenInv, PostsFit, PostFits, AnswersAreMeant, Clicked
<1> QED
  BY <1>1, AlwaysFits, PTL

(* A question gets one verdict at most while it is shown, however often the
   person clicks (disabled={isSubmitting || answered}). *)
THEOREM OneVerdictOnly == Spec => []OneVerdictPerShowing
<1>1. ScreenInv => OneVerdictPerShowing
  BY DEF ScreenInv, VerdictFits, OneVerdictPerShowing
<1> QED
  BY <1>1, AlwaysFits, PTL
=============================================================================
