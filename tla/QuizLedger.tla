----------------------------- MODULE QuizLedger -----------------------------
(***************************************************************************)
(* What the store promises, with no statements, locks or requests in it: a  *)
(* ledger of questions and of judged answers.  An answer is judged and      *)
(* recorded in one step, against the text it was given to; a question can   *)
(* be edited by its author as long as nobody has answered it, and hidden    *)
(* for good.  QuizStore is shown to implement it, its tables read as the    *)
(* variables of this module.                                                *)
(***************************************************************************)
EXTENDS Naturals

CONSTANTS Calls, QuestionIds, Authors, Players, NumChoices, NoChoice,
          StoredBy, System

VARIABLES text,     \* state, author and version of each question
          correct,  \* its correct choice
          history   \* judged answers, at most one per call

vars == <<text, correct, history>>

Choice(q, v) == [question : {q}, version : {v}, ordinal : 0 .. NumChoices - 1]

Init ==
  /\ text = [q \in QuestionIds |->
       IF q \in DOMAIN StoredBy
       THEN [state |-> "live", author |-> StoredBy[q], version |-> 0]
       ELSE [state |-> "absent", author |-> System, version |-> 0]]
  /\ correct = [q \in QuestionIds |->
       IF q \in DOMAIN StoredBy
       THEN [question |-> q, version |-> 0, ordinal |-> 0]
       ELSE NoChoice]
  /\ history = {}

\* An answer names a choice of the current text; a hidden question may still be
\* answered by somebody who has it on the screen.
Judge(c) ==
  /\ \A a \in history : a.call # c
  /\ \E u \in Players, q \in QuestionIds :
       /\ text[q].state # "absent"
       /\ \E x \in Choice(q, text[q].version) :
            history' = history \cup
              {[call |-> c, user |-> u, question |-> q, choice |-> x,
                isCorrect |-> x = correct[q]]}
  /\ UNCHANGED <<text, correct>>

Publish(q) ==
  /\ text[q].state = "absent"
  /\ \E u \in Authors, x \in Choice(q, 0) :
       /\ text' = [text EXCEPT ![q] = [state |-> "live", author |-> u, version |-> 0]]
       /\ correct' = [correct EXCEPT ![q] = x]
  /\ UNCHANGED history

Edit(q) ==
  /\ text[q].state = "live"
  /\ \A a \in history : a.question # q
  /\ \E x \in Choice(q, text[q].version + 1) :
       /\ text' = [text EXCEPT ![q].version = @ + 1]
       /\ correct' = [correct EXCEPT ![q] = x]
  /\ UNCHANGED history

Hide(q) ==
  /\ text[q].state = "live"
  /\ text' = [text EXCEPT ![q].state = "deleted"]
  /\ UNCHANGED <<correct, history>>

Next ==
  \/ \E c \in Calls : Judge(c)
  \/ \E q \in QuestionIds : Publish(q) \/ Edit(q) \/ Hide(q)

Spec == Init /\ [][Next]_vars
=============================================================================
