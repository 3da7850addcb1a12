--------------------------- MODULE QuizSelection ---------------------------
(***************************************************************************)
(* quiz.GetQuestion: which question a player gets next.  The candidates are *)
(* listed in up to three queries and the chosen one is read in a last one,  *)
(* while questions are created and deleted; when nothing stored is left,    *)
(* the set compiled into the backend steps in.                              *)
(*                                                                          *)
(* The hash of the request id is a number like any other: a call draws its  *)
(* pick from Seeds.                                                         *)
(***************************************************************************)
EXTENDS Naturals, Sequences, SequencesExt

CONSTANTS
  Calls,             \* the GetQuestion calls of a player, one after the other
  SystemIds,         \* ids of seeded questions
  UserIds,           \* ids of questions people write
  DefaultQuestions,  \* ids of the compiled-in set, as a sequence
  StoredFirst,       \* ids stored at the start, newest first
  Seeds,             \* hashes of request ids
  NoQuestion

Ids == SystemIds \cup UserIds

Defaults == ToSet(DefaultQuestions)

ASSUME SelectionAssumption ==
  /\ SystemIds \cap UserIds = {}
  /\ DefaultQuestions \in Seq(SystemIds)
  /\ StoredFirst \in Seq(Ids)
  /\ Seeds \subseteq Nat /\ Seeds # {}
  /\ NoQuestion \notin Ids

VARIABLES
  stored,    \* ids in the questions table, newest first
  deleted,   \* ids with deleted_at set
  pc,        \* the query each call is about to run
  previous,  \* previous_question_id of each call
  seed,      \* hash of its request id
  userIds,   \* answer of its first query
  answer,    \* the question it returned
  steady     \* for the properties: ids live ever since the call started

table == <<stored, deleted>>
vars == <<table, pc, previous, seed, userIds, answer, steady>>

----------------------------------------------------------------------------
(* Queries *)

LiveIds(allowed) == {q \in ToSet(stored) \cap allowed : q \notin deleted}

\* The elements of a list that are in S, in their order.
Kept(list, S) ==
  LET kept[i \in 0 .. Len(list)] ==
        IF i = 0 THEN <<>>
        ELSE IF list[i] \in S THEN Append(kept[i - 1], list[i]) ELSE kept[i - 1]
  IN  kept[Len(list)]

Candidates(allowed, excluded) == Kept(stored, LiveIds(allowed) \ {excluded})

\* The seed, modulo the number of candidates, counted from the first.
PickDeterministically(n, ids) == ids[(n % Len(ids)) + 1]

SelectDefaultQuestion(n, excluded) ==
  LET others == Kept(DefaultQuestions, Defaults \ {excluded})
  IN  PickDeterministically(n, IF others = <<>> THEN DefaultQuestions ELSE others)

\* Without a question by a user only the seeded ones are candidates.
Pool(c) == IF userIds[c] = <<>> THEN SystemIds ELSE Ids

Goto(c, phase) == pc' = [pc EXCEPT ![c] = phase]

Return(c, q) ==
  /\ answer' = [answer EXCEPT ![c] = q]
  /\ Goto(c, "done")

\* The call ends with an error of its argument or of a query, other than
\* NOT_FOUND.
Fail(c) ==
  /\ answer' = [answer EXCEPT ![c] = NoQuestion]
  /\ Goto(c, "failed")

\* With nothing compiled in the call ends with NOT_FOUND: there is no question.
Fallback(c) ==
  Return(c, IF DefaultQuestions = <<>> THEN NoQuestion
            ELSE SelectDefaultQuestion(seed[c], previous[c]))

----------------------------------------------------------------------------
(* The call *)

Init ==
  /\ stored = StoredFirst
  /\ deleted = {}
  /\ pc = [c \in Calls |-> "idle"]
  /\ previous = [c \in Calls |-> NoQuestion]
  /\ seed = [c \in Calls |-> 0]
  /\ userIds = [c \in Calls |-> <<>>]
  /\ answer = [c \in Calls |-> NoQuestion]
  /\ steady = [c \in Calls |-> {}]

\* The player has just answered some question, or is new.  A previous id that
\* is not a UUID is refused at once.
Start(c) ==
  /\ pc[c] = "idle"
  /\ \/ /\ \E p \in ToSet(stored) \cup Defaults \cup {NoQuestion}, n \in Seeds :
             /\ previous' = [previous EXCEPT ![c] = p]
             /\ seed' = [seed EXCEPT ![c] = n]
        /\ steady' = [steady EXCEPT ![c] = LiveIds(Ids)]
        /\ Goto(c, "listUser")
        /\ UNCHANGED answer
     \/ Fail(c) /\ UNCHANGED <<previous, seed, steady>>
  /\ UNCHANGED <<table, userIds>>

ListUserQuestions(c) ==
  /\ pc[c] = "listUser"
  /\ \/ /\ userIds' = [userIds EXCEPT ![c] = Candidates(UserIds, previous[c])]
        /\ Goto(c, "list")
        /\ UNCHANGED answer
     \/ Fail(c) /\ UNCHANGED userIds
  /\ UNCHANGED <<table, previous, seed, steady>>

\* Mutant of ListCandidates: the question just answered is not left out.
ListWithPrevious(c) ==
  LET found == Candidates(Pool(c), NoQuestion) IN
  /\ pc[c] = "list"
  /\ \/ /\ found # <<>>
        /\ answer' = [answer EXCEPT ![c] = PickDeterministically(seed[c], found)]
        /\ Goto(c, "read")
     \/ found = <<>> /\ Fallback(c)
     \/ Fail(c)
  /\ UNCHANGED <<table, previous, seed, userIds, steady>>

ListCandidates(c) ==
  LET found == Candidates(Pool(c), previous[c]) IN
  /\ pc[c] = "list"
  /\ \/ /\ found # <<>>
        /\ answer' = [answer EXCEPT ![c] = PickDeterministically(seed[c], found)]
        /\ Goto(c, "read")
     \/ /\ found = <<>> /\ previous[c] # NoQuestion
        /\ Goto(c, "relist")
        /\ UNCHANGED answer
     \/ /\ found = <<>> /\ previous[c] = NoQuestion
        /\ Fallback(c)
     \/ Fail(c)
  /\ UNCHANGED <<table, previous, seed, userIds, steady>>

\* Nothing but the previous question: list again without leaving it out.
RelistCandidates(c) ==
  LET found == Candidates(Pool(c), NoQuestion) IN
  /\ pc[c] = "relist"
  /\ \/ /\ found # <<>>
        /\ answer' = [answer EXCEPT ![c] = PickDeterministically(seed[c], found)]
        /\ Goto(c, "read")
     \/ found = <<>> /\ Fallback(c)
     \/ Fail(c)
  /\ UNCHANGED <<table, previous, seed, userIds, steady>>

\* Mutant of GetQuizQuestion: the NOT_FOUND of a question deleted meanwhile is
\* handed on.
GetQuizQuestionOrFail(c) ==
  /\ pc[c] = "read"
  /\ \/ answer[c] \notin deleted /\ Return(c, answer[c])
     \/ answer[c] \in deleted /\ Return(c, NoQuestion)
     \/ Fail(c)
  /\ UNCHANGED <<table, previous, seed, userIds, steady>>

\* Mutant of GetQuizQuestion: deleted_at is not tested again.
GetQuizQuestionAnyway(c) ==
  /\ pc[c] = "read"
  /\ Return(c, answer[c]) \/ Fail(c)
  /\ UNCHANGED <<table, previous, seed, userIds, steady>>

\* NOT_FOUND brings in the compiled-in set, any other error ends the call.
GetQuizQuestion(c) ==
  /\ pc[c] = "read"
  /\ \/ answer[c] \notin deleted /\ Return(c, answer[c])
     \/ answer[c] \in deleted /\ Fallback(c)
     \/ Fail(c)
  /\ UNCHANGED <<table, previous, seed, userIds, steady>>

----------------------------------------------------------------------------
(* The others *)

\* Another call commits a new question.  created_at is when its transaction
\* began, so it may list below questions that were committed before it.
Publish(q) ==
  /\ q \notin ToSet(stored)
  /\ \E place \in 1 .. Len(stored) + 1 : stored' = InsertAt(stored, place, q)
  /\ UNCHANGED <<deleted, pc, previous, seed, userIds, answer, steady>>

SoftDelete(q) ==
  /\ q \in LiveIds(Ids)
  /\ deleted' = deleted \cup {q}
  /\ steady' = [c \in Calls |-> steady[c] \ {q}]
  /\ UNCHANGED <<stored, pc, previous, seed, userIds, answer>>

Serve(c) ==
  \/ ListUserQuestions(c) \/ ListCandidates(c) \/ RelistCandidates(c) \/ GetQuizQuestion(c)

Next ==
  \/ \E c \in Calls : Start(c) \/ Serve(c)
  \/ \E q \in UserIds : Publish(q)
  \/ \E q \in Ids : SoftDelete(q)

Spec == Init /\ [][Next]_vars

----------------------------------------------------------------------------
(* Properties *)

Answered(c) == pc[c] = "done"

\* A player is not asked the same question twice in a row while there was, all
\* through the call, another one: whatever is created or deleted between the
\* queries.
NoNeedlessRepeat ==
  \A c \in Calls : Answered(c) /\ answer[c] = previous[c] => steady[c] \subseteq {previous[c]}

\* A call whose queries succeed has a question to show as long as a set is
\* compiled in: lists that empty and a pick deleted meanwhile do not end it with
\* NOT_FOUND.
AlwaysAQuestion ==
  \A c \in Calls : Answered(c) /\ Defaults # {} => answer[c] # NoQuestion

\* A question of the tables is only served if it was live when it was read; a
\* deleted or unstored one comes from the compiled-in set alone.
DeletedQuestionsAreNotServed ==
  [][\A c \in Calls : pc[c] # "done" /\ pc'[c] = "done" /\ answer'[c] \notin Defaults \cup {NoQuestion} =>
       answer'[c] \in LiveIds(Ids)]_vars
=============================================================================
