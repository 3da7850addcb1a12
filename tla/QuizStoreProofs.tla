-------------------------- MODULE QuizStoreProofs --------------------------
(* Proofs about QuizStore and about MyPage, which extends it, for every value
   of their constants: any number of calls, questions, users, choices and
   connections, with and without cuts and database failures, and any number of
   visits to the page.  The first part knows nothing of MyPage; in the second,
   the invariant of the store holds in the composition, and what a visit has
   been given follows from it and from the order of the times of the rows. *)
EXTENDS MyPage, FiniteSetTheorems, TLAPS

USE ConstantsAssumption, SentinelsAssumption

----------------------------------------------------------------------------
(* What the helpers do *)

PhaseSet == {"idle", "readKey", "belongs", "ensureUser", "insertAttempt",
  "readAuthor", "begin", "insertQuestion", "updateRow", "deleteChoices",
  "insertChoices", "commit", "readRow", "readChoices", "done"}

(* The phases are the statements an outage can hit, "idle" and "done". *)
LEMMA PhasesAre == Phases = PhaseSet
BY DEF Phases, PhaseSet, OutageCode

(* A failing statement is reported under one of the codes. *)
LEMMA OutageCodes == \A p \in DOMAIN OutageCode : OutageCode[p] \in Codes \ {"OK", "none"}
BY DEF OutageCode, Codes

(* The rows one transaction inserts are its question's, of its version. *)
LEMMA BatchIs ==
  ASSUME NEW q \in QuestionIds, NEW v \in Nat
  PROVE  /\ Batch(q, v) \subseteq Choice
         /\ \A x \in Choice : x \in Batch(q, v) <=> x.question = q /\ x.version = v
BY DEF Batch, Choice

(* An answer finishes its call; its client has the status or nothing. *)
LEMMA AnswerEffect ==
  ASSUME TypeOK, NEW c \in Calls, NEW code \in Codes, Answer(c, code)
  PROVE  /\ pc' \in [Calls -> Phases] /\ pc'[c] = "done"
         /\ reply' \in [Calls -> Codes] /\ reply'[c] \in {code, "Lost"}
         /\ \A d \in Calls \ {c} : pc'[d] = pc[d] /\ reply'[d] = reply[d]
BY PhasesAre DEF TypeOK, Answer, Goto, Delivery, Codes, PhaseSet

(* A call that goes on to its next statement disturbs no other call. *)
LEMMA ContinueEffect ==
  ASSUME TypeOK, NEW c \in Calls, NEW phase \in Phases, Continue(c, phase)
  PROVE  /\ pc' \in [Calls -> Phases] /\ pc'[c] = phase
         /\ reply' = reply
         /\ \A d \in Calls \ {c} : pc'[d] = pc[d]
BY DEF TypeOK, Continue, Goto

(* Ending a transaction frees the row locks of its call and no other. *)
LEMMA ReleaseEffect ==
  ASSUME TypeOK, NEW c \in Calls, Release(c)
  PROVE  /\ rowLock' \in [QuestionIds -> Calls \cup {NoCall}]
         /\ \A q \in QuestionIds :
              /\ rowLock[q] = c => rowLock'[q] = NoCall
              /\ rowLock[q] # c => rowLock'[q] = rowLock[q]
BY DEF TypeOK, Release

----------------------------------------------------------------------------
(* The initial states *)

(* The tables as migrated and nobody calling: nothing to be wrong about yet. *)
LEMMA InitEstablishes == Init => IndInv
<1> SUFFICES ASSUME Init PROVE IndInv
  OBVIOUS
<1>1. TypeOK
  BY PhasesAre DEF Init, TypeOK, Row, Authors, Choice, Ordinals, DefaultKey, NoRequest, Request,
         RequestSet, PhaseSet, Codes
<1>2. ContentIsOneVersion
  <2> SUFFICES ASSUME NEW q \in QuestionIds
               PROVE  IF questions[q].state = "absent"
                      THEN ChoicesOf(q) = {} /\ answerKey[q] = NoChoice
                      ELSE /\ ChoicesOf(q) = Batch(q, questions[q].version)
                           /\ answerKey[q] \in ChoicesOf(q)
    BY DEF ContentIsOneVersion
  <2>1. \A x \in choices : x \in Choice /\ x.question \in DOMAIN StoredBy /\ x.version = 0
    BY DEF Init, Choice
  <2>2. \A x \in Choice : x.question \in DOMAIN StoredBy /\ x.version = 0 => x \in choices
    BY DEF Init, Choice
  <2>3. CASE q \in DOMAIN StoredBy
    <3>1. ChoicesOf(q) = Batch(q, 0)
      BY <2>1, <2>2, <2>3, BatchIs DEF ChoicesOf
    <3>2. answerKey[q] = DefaultKey(q) /\ DefaultKey(q) \in Batch(q, 0)
      BY <2>3 DEF Init, DefaultKey, Batch, Ordinals
    <3> QED
      BY <2>3, <3>1, <3>2 DEF Init
  <2>4. CASE q \notin DOMAIN StoredBy
    BY <2>1, <2>4 DEF Init, ChoicesOf
  <2> QED
    BY <2>3, <2>4
<1>3. StoredVerdictsStand /\ AttemptsComeLast /\ UnusedIdsAreNew
  BY DEF Init, StoredVerdictsStand, AttemptsComeLast, UnusedIdsAreNew
<1>4. AnswersAreJudgedByTheirVersion /\ KeysAreDated
  BY DEF Init, AnswersAreJudgedByTheirVersion, KeysAreDated, IsJudgedByItsVersion, KeyIsDated,
         NoRequest, Request
<1>5. RequestsFit
  BY DEF Init, RequestsFit, RequestFits, RpcsAt, NoRequest, Request
<1>6. LocksFit /\ EditsAreAllowed
  BY DEF Init, LocksFit, EditsAreAllowed, Editing
<1> QED
  BY <1>1, <1>2, <1>3, <1>4, <1>5, <1>6 DEF IndInv

----------------------------------------------------------------------------
(* Frames *)

(* A step that leaves what another call has been asked, has read and stands at,
   and the questions and keys, leaves what is known of that call. *)
LEMMA OthersKeep ==
  ASSUME IndInv, NEW d \in Calls,
         UNCHANGED <<questions, answerKey>>,
         pc'[d] = pc[d], req'[d] = req[d], key'[d] = key[d], reply'[d] = reply[d]
  PROVE  RequestFits(d)' /\ KeyIsDated(d)' /\ IsJudgedByItsVersion(d)'
<1>1. RequestFits(d) /\ KeyIsDated(d) /\ IsJudgedByItsVersion(d)
  BY DEF IndInv, RequestsFit, KeysAreDated, AnswersAreJudgedByTheirVersion
<1>2. RequestFits(d)'
  BY <1>1 DEF RequestFits
<1>3. KeyIsDated(d)'
  BY <1>1 DEF KeyIsDated
<1>4. IsJudgedByItsVersion(d)'
  BY <1>1 DEF IsJudgedByItsVersion
<1> QED
  BY <1>2, <1>3, <1>4

(* A statement of one call that writes none of the questions, choices, keys and
   attempts keeps what is said of the tables and of the other calls; what has
   to be shown is what it does to its own call and to the locks. *)
LEMMA StatementFrame ==
  ASSUME IndInv, NEW c \in Calls,
         UNCHANGED <<questions, choices, answerKey, attempts>>,
         pc[c] # "done",
         \A d \in Calls \ {c} : /\ pc'[d] = pc[d] /\ req'[d] = req[d]
                                /\ key'[d] = key[d] /\ reply'[d] = reply[d],
         TypeOK', LocksFit', EditsAreAllowed',
         RequestFits(c)', KeyIsDated(c)', IsJudgedByItsVersion(c)'
  PROVE  IndInv'
<1>1. ContentIsOneVersion'
  BY DEF IndInv, ContentIsOneVersion, ChoicesOf, Batch
<1>2. StoredVerdictsStand'
  BY DEF IndInv, StoredVerdictsStand, ChoicesOf
<1>3. AttemptsComeLast' /\ UnusedIdsAreNew'
  BY DEF IndInv, AttemptsComeLast, UnusedIdsAreNew, TypeOK, Attempt
<1>4. RequestsFit' /\ KeysAreDated' /\ AnswersAreJudgedByTheirVersion'
  BY OthersKeep DEF RequestsFit, KeysAreDated, AnswersAreJudgedByTheirVersion
<1> QED
  BY <1>1, <1>2, <1>3, <1>4 DEF IndInv

(* Outside a transaction the locks are not disturbed either. *)
LEMMA LocksFrame ==
  ASSUME IndInv, NEW c \in Calls,
         UNCHANGED <<questions, attempts, rowLock>>,
         pc[c] \notin Editing, pc'[c] \notin Editing,
         \A d \in Calls \ {c} : pc'[d] = pc[d] /\ req'[d] = req[d]
  PROVE  LocksFit' /\ EditsAreAllowed'
<1>1. LocksFit'
  BY DEF IndInv, LocksFit, TypeOK
<1>2. EditsAreAllowed'
  BY DEF IndInv, EditsAreAllowed, Live
<1> QED
  BY <1>1, <1>2

(* A call that is finished, with its locks released, leaves the locks of the
   others as they were. *)
LEMMA ReleaseFrame ==
  ASSUME IndInv, NEW c \in Calls, Release(c),
         UNCHANGED <<questions, attempts>>, pc'[c] = "done",
         \A d \in Calls \ {c} : pc'[d] = pc[d] /\ req'[d] = req[d]
  PROVE  LocksFit' /\ EditsAreAllowed'
<1>0. TypeOK
  BY DEF IndInv
<1>1. LocksFit'
  BY <1>0, ReleaseEffect DEF IndInv, LocksFit, TypeOK, Editing
<1>2. EditsAreAllowed'
  BY DEF IndInv, EditsAreAllowed, Live, Editing
<1> QED
  BY <1>1, <1>2
----------------------------------------------------------------------------
(* Statements outside a transaction *)

(* The requests an RPC may come with, and the statement it starts with. *)
Startable(r, p) ==
  /\ r \in RequestSet
  /\ \/ r.rpc = "SubmitAnswer" /\ p = "readKey" /\ r.question \in QuestionIds
        /\ r.choice \in Published
     \/ r.rpc = "CreateQuestion" /\ p = "ensureUser" /\ r.user \in Users
     \/ r.rpc = "UpdateQuestion" /\ p = "readAuthor" /\ r.user \in Users
        /\ r.question \in QuestionIds
     \/ r.rpc \in {"GetQuestion", "GetMyQuestion"} /\ p = "readRow"
        /\ r.question \in QuestionIds

(* A choice somebody was shown is a choice, of a version that exists. *)
LEMMA PublishedIsDated ==
  ASSUME TypeOK, NEW x \in Published
  PROVE  x \in Choice /\ x.version <= questions[x.question].version
<1>1. PICK q \in QuestionIds : \E v \in 0 .. questions[q].version : x \in Batch(q, v)
  BY DEF Published, TypeOK, Row
<1>2. PICK v \in 0 .. questions[q].version : x \in Batch(q, v)
  BY <1>1
<1>3. v \in Nat /\ v <= questions[q].version
  BY DEF TypeOK, Row
<1> QED
  BY <1>2, <1>3, BatchIs

(* Starting a call records its request and nothing else. *)
LEMMA RequestKeeps ==
  ASSUME IndInv, NEW c \in Calls, NEW r, NEW p, Startable(r, p), Start(c, r, p)
  PROVE  IndInv'
<1>1. pc[c] = "idle" /\ p \in {"readKey", "ensureUser", "readAuthor", "readRow"}
  BY DEF Start, Startable
<1>2. UNCHANGED <<tables, rowLock, local, reply>>
  BY DEF Start, Continue
<1>3. pc' = [pc EXCEPT ![c] = p] /\ req' = [req EXCEPT ![c] = r]
  BY DEF Start, Continue, Goto
<1>4. TypeOK'
  BY <1>1, <1>2, <1>3, PhasesAre DEF IndInv, TypeOK, PhaseSet, Startable, tables, local
<1>5. /\ pc'[c] = p /\ req'[c] = r
      /\ \A d \in Calls \ {c} : pc'[d] = pc[d] /\ req'[d] = req[d]
  BY <1>3 DEF IndInv, TypeOK
<1>6. LocksFit' /\ EditsAreAllowed'
  BY <1>1, <1>2, <1>5, LocksFrame DEF Editing, tables
<1>7. reply'[c] = "none"
  BY <1>1, <1>2 DEF IndInv, RequestsFit, RequestFits
<1>8. RequestFits(c)'
  BY <1>1, <1>5, <1>7, PublishedIsDated DEF IndInv, RequestFits, Startable, RpcsAt
<1>9. KeyIsDated(c)'
  BY <1>1, <1>2, <1>5, <1>7, PublishedIsDated DEF IndInv, KeyIsDated, Startable, tables
<1>10. IsJudgedByItsVersion(c)'
  BY <1>7 DEF IsJudgedByItsVersion
<1> QED
  BY <1>1, <1>2, <1>4, <1>5, <1>6, <1>8, <1>9, <1>10, StatementFrame DEF tables, local

(* Starting a call, of any kind. *)
LEMMA StartKeeps ==
  ASSUME IndInv, NEW c \in Calls, ClientStep(c)
  PROVE  IndInv'
<1> USE DEF Startable, Request, RequestSet, Rpcs, Ordinals
<1>0. 0 \in Ordinals
  OBVIOUS
<1>1. CASE StartSubmitAnswer(c)
  <2>1. PICK u \in Users \cup {Anonymous}, q \in QuestionIds, x \in Published :
          Start(c, Request("SubmitAnswer", u, q, x, 0), "readKey")
    BY <1>1 DEF StartSubmitAnswer
  <2>2. Startable(Request("SubmitAnswer", u, q, x, 0), "readKey")
    BY <1>0, PublishedIsDated DEF IndInv
  <2> QED
    BY <2>1, <2>2, RequestKeeps
<1>2. CASE StartCreateQuestion(c)
  <2>1. PICK u \in Users, o \in Ordinals :
          Start(c, Request("CreateQuestion", u, NoQuestion, NoChoice, o), "ensureUser")
    BY <1>2 DEF StartCreateQuestion
  <2> QED
    BY <2>1, RequestKeeps
<1>3. CASE StartUpdateQuestion(c)
  <2>1. PICK u \in Users, q \in QuestionIds, o \in Ordinals :
          Start(c, Request("UpdateQuestion", u, q, NoChoice, o), "readAuthor")
    BY <1>3 DEF StartUpdateQuestion
  <2> QED
    BY <2>1, RequestKeeps
<1>4. CASE StartGetQuestion(c)
  <2>1. PICK q \in QuestionIds :
          Start(c, Request("GetQuestion", Anonymous, q, NoChoice, 0), "readRow")
    BY <1>4 DEF StartGetQuestion
  <2> QED
    BY <1>0, <2>1, RequestKeeps
<1>5. CASE StartGetMyQuestion(c)
  <2>1. PICK u \in Users, q \in QuestionIds :
          Start(c, Request("GetMyQuestion", u, q, NoChoice, 0), "readRow")
    BY <1>5 DEF StartGetMyQuestion
  <2> QED
    BY <1>0, <2>1, RequestKeeps
<1> QED
  BY <1>1, <1>2, <1>3, <1>4, <1>5 DEF ClientStep

(* SubmitAnswer's first statement: the answer key. *)
LEMMA ReadKeyForAnswerKeeps ==
  ASSUME IndInv, NEW c \in Calls, ReadKeyForAnswer(c)
  PROVE  IndInv'
<1> DEFINE q == req[c].question
<1>0. TypeOK /\ RequestFits(c) /\ KeyIsDated(c) /\ ContentIsOneVersion
  BY DEF IndInv, RequestsFit, KeysAreDated
<1>1. /\ pc[c] = "readKey" /\ req[c].rpc = "SubmitAnswer" /\ q \in QuestionIds
      /\ reply[c] = "none"
      /\ UNCHANGED <<tables, rowLock, req, prompt, rows>>
  BY <1>0 DEF ReadKeyForAnswer, Query, RequestFits
<1>2. questions[q].state # "absent" <=> answerKey[q] # NoChoice
  BY <1>0, <1>1 DEF ContentIsOneVersion, ChoicesOf, TypeOK
<1>3. CASE /\ answerKey[q] # NoChoice
           /\ key' = [key EXCEPT ![c] = answerKey[q]]
           /\ Continue(c, "belongs")
  <2>1. /\ pc' \in [Calls -> Phases] /\ pc'[c] = "belongs" /\ reply' = reply
        /\ \A d \in Calls \ {c} : pc'[d] = pc[d]
    BY <1>0, <1>3, PhasesAre, ContinueEffect DEF PhaseSet
  <2>2. TypeOK'
    BY <1>0, <1>1, <1>3, <2>1 DEF TypeOK, tables
  <2>3. LocksFit' /\ EditsAreAllowed'
    BY <1>1, <2>1, LocksFrame DEF Editing, tables
  <2>4. RequestFits(c)'
    BY <1>0, <1>1, <2>1 DEF RequestFits, RpcsAt
  <2>5. answerKey[q].question = q /\ answerKey[q].version = questions[q].version /\ answerKey[q] \in Choice
    BY <1>0, <1>1, <1>2, <1>3, BatchIs DEF ContentIsOneVersion, ChoicesOf, TypeOK, Row
  <2>6. key'[c] = answerKey[q] /\ \A d \in Calls \ {c} : key'[d] = key[d]
    BY <1>0, <1>3 DEF TypeOK
  <2>7. KeyIsDated(c)'
    BY <1>0, <1>1, <1>2, <1>3, <2>1, <2>5, <2>6 DEF KeyIsDated, tables, TypeOK, Row
  <2>8. IsJudgedByItsVersion(c)'
    BY <1>1, <2>1 DEF IsJudgedByItsVersion
  <2> QED
    BY <1>1, <2>1, <2>2, <2>3, <2>4, <2>6, <2>7, <2>8, StatementFrame DEF tables
<1>4. CASE /\ answerKey[q] = NoChoice
           /\ \/ key' = [key EXCEPT ![c] = DefaultKey(q)] /\ q \in DefaultQuestions /\ Answer(c, "OK")
              \/ UNCHANGED key /\ Answer(c, "NotFound")
  <2>1. /\ pc' \in [Calls -> Phases] /\ pc'[c] = "done"
        /\ reply' \in [Calls -> Codes]
        /\ reply'[c] = "OK" => q \in DefaultQuestions
        /\ \A d \in Calls \ {c} : pc'[d] = pc[d] /\ reply'[d] = reply[d]
    BY <1>0, <1>4, AnswerEffect DEF Codes
  <2>2. /\ key' \in [Calls -> Choice \cup {NoChoice}]
        /\ \A d \in Calls \ {c} : key'[d] = key[d]
    BY <1>0, <1>1, <1>4 DEF TypeOK, DefaultKey, Choice, Ordinals
  <2>3. TypeOK'
    BY <1>0, <1>1, <2>1, <2>2 DEF TypeOK, tables
  <2>4. LocksFit' /\ EditsAreAllowed'
    BY <1>1, <2>1, LocksFrame DEF Editing, tables
  <2>5. RequestFits(c)'
    BY <1>0, <1>1, <2>1 DEF RequestFits, RpcsAt, Rpcs
  <2>6. KeyIsDated(c)'
    BY <1>0, <1>1, <2>1 DEF KeyIsDated, tables
  <2>7. IsJudgedByItsVersion(c)'
    BY <1>1, <1>2, <1>4, <2>1 DEF IsJudgedByItsVersion, tables
  <2> QED
    BY <1>1, <2>1, <2>2, <2>3, <2>4, <2>5, <2>6, <2>7, StatementFrame DEF tables
<1> QED
  BY <1>3, <1>4 DEF ReadKeyForAnswer

(* SubmitAnswer's second statement: the choice is one of the question. *)
LEMMA ChoiceBelongsKeeps ==
  ASSUME IndInv, NEW c \in Calls, ChoiceBelongsToQuestion(c)
  PROVE  IndInv'
<1> DEFINE q == req[c].question
           x == req[c].choice
<1>0. TypeOK /\ RequestFits(c) /\ KeyIsDated(c) /\ ContentIsOneVersion
  BY DEF IndInv, RequestsFit, KeysAreDated
<1>1. /\ pc[c] = "belongs" /\ req[c].rpc = "SubmitAnswer" /\ q \in QuestionIds
      /\ reply[c] = "none"
      /\ UNCHANGED <<tables, rowLock, req, local>>
  BY <1>0 DEF ChoiceBelongsToQuestion, Query, RequestFits, RpcsAt
<1>2. x \in ChoicesOf(q) => x.question = q /\ x.version = key[c].version
  <2> SUFFICES ASSUME x \in ChoicesOf(q)
               PROVE  x.question = q /\ x.version = key[c].version
    OBVIOUS
  <2>1. questions[q].state # "absent" /\ questions[q].version \in Nat
    BY <1>0, <1>1 DEF KeyIsDated, TypeOK, Row
  <2>2. x \in Choice /\ x.question = q /\ x.version = questions[q].version
    BY <1>0, <1>1, <2>1, BatchIs DEF ContentIsOneVersion, ChoicesOf, TypeOK
  <2>3. /\ key[c].version \in Nat /\ key[c].version <= questions[q].version
        /\ x.version <= key[c].version
    BY <1>0, <1>1, <2>2 DEF KeyIsDated, Choice
  <2> QED
    BY <2>1, <2>2, <2>3
<1>3. /\ pc' \in [Calls -> Phases] /\ pc'[c] \in {"done", "ensureUser"}
      /\ reply' \in [Calls -> Codes]
      /\ reply'[c] = "OK" => x \in ChoicesOf(q)
      /\ pc'[c] = "ensureUser" => /\ x \in ChoicesOf(q) /\ req[c].user # Anonymous
                                  /\ reply'[c] = "none"
      /\ \A d \in Calls \ {c} : pc'[d] = pc[d] /\ reply'[d] = reply[d]
  BY <1>0, <1>1, PhasesAre, AnswerEffect, ContinueEffect
     DEF ChoiceBelongsToQuestion, Codes, PhaseSet, TypeOK
<1>4. TypeOK'
  BY <1>0, <1>1, <1>3 DEF TypeOK, tables, local
<1>5. LocksFit' /\ EditsAreAllowed'
  BY <1>1, <1>3, LocksFrame DEF Editing, tables
<1>6. RequestFits(c)'
  BY <1>0, <1>1, <1>3 DEF RequestFits, RpcsAt, Rpcs, TypeOK, RequestSet
<1>7. KeyIsDated(c)'
  BY <1>0, <1>1, <1>2, <1>3 DEF KeyIsDated, tables, local
<1>8. IsJudgedByItsVersion(c)'
  BY <1>0, <1>1, <1>2, <1>3 DEF IsJudgedByItsVersion, KeyIsDated, tables, local
<1> QED
  BY <1>1, <1>3, <1>4, <1>5, <1>6, <1>7, <1>8, StatementFrame DEF tables, local

(* The user row is there before the row that refers to it. *)
LEMMA EnsureUserExistsKeeps ==
  ASSUME IndInv, NEW c \in Calls, EnsureUserExists(c)
  PROVE  IndInv'
<1>0. TypeOK /\ RequestFits(c) /\ KeyIsDated(c)
  BY DEF IndInv, RequestsFit, KeysAreDated
<1>1. /\ pc[c] = "ensureUser" /\ reply[c] = "none"
      /\ req[c].rpc \in {"SubmitAnswer", "CreateQuestion", "UpdateQuestion"}
      /\ req[c].user \in Users
      /\ UNCHANGED <<questions, choices, answerKey, attempts, rowLock, req, local>>
      /\ users' = users \cup {req[c].user}
  BY <1>0 DEF EnsureUserExists, Query, RequestFits, RpcsAt
<1>2. /\ pc' \in [Calls -> Phases] /\ pc'[c] = AfterEnsureUser[req[c].rpc]
      /\ reply' = reply
      /\ \A d \in Calls \ {c} : pc'[d] = pc[d]
  BY <1>0, <1>1, PhasesAre, ContinueEffect DEF EnsureUserExists, AfterEnsureUser, PhaseSet
<1>3. TypeOK'
  BY <1>0, <1>1, <1>2 DEF TypeOK, local, Authors
<1>4. LocksFit' /\ EditsAreAllowed'
  BY <1>1, <1>2, LocksFrame DEF Editing, AfterEnsureUser
<1>5. RequestFits(c)'
  BY <1>0, <1>1, <1>2 DEF RequestFits, RpcsAt, AfterEnsureUser
<1>6. KeyIsDated(c)'
  BY <1>0, <1>1, <1>2 DEF KeyIsDated, local, AfterEnsureUser
<1>7. IsJudgedByItsVersion(c)'
  BY <1>1, <1>2 DEF IsJudgedByItsVersion
<1> QED
  BY <1>1, <1>2, <1>3, <1>4, <1>5, <1>6, <1>7, StatementFrame DEF local

(* UpdateQuestion's first statement: the author. *)
LEMMA GetQuestionAuthorKeeps ==
  ASSUME IndInv, NEW c \in Calls, GetQuestionAuthor(c)
  PROVE  IndInv'
<1>0. TypeOK /\ RequestFits(c)
  BY DEF IndInv, RequestsFit
<1>1. /\ pc[c] = "readAuthor" /\ req[c].rpc = "UpdateQuestion"
      /\ UNCHANGED <<tables, rowLock, req, local>>
  BY <1>0 DEF GetQuestionAuthor, Query, RequestFits, RpcsAt
<1>2. /\ pc' \in [Calls -> Phases] /\ pc'[c] \in {"done", "ensureUser"}
      /\ reply' \in [Calls -> Codes]
      /\ pc'[c] = "ensureUser" => reply' = reply
      /\ \A d \in Calls \ {c} : pc'[d] = pc[d] /\ reply'[d] = reply[d]
  BY <1>0, <1>1, PhasesAre, AnswerEffect, ContinueEffect
     DEF GetQuestionAuthor, Codes, PhaseSet, TypeOK
<1>3. TypeOK'
  BY <1>0, <1>1, <1>2 DEF TypeOK, tables, local
<1>4. LocksFit' /\ EditsAreAllowed'
  BY <1>1, <1>2, LocksFrame DEF Editing, tables
<1>5. RequestFits(c)'
  BY <1>0, <1>1, <1>2 DEF RequestFits, RpcsAt, Rpcs
<1>6. KeyIsDated(c)' /\ IsJudgedByItsVersion(c)'
  BY <1>1 DEF KeyIsDated, IsJudgedByItsVersion
<1> QED
  BY <1>1, <1>2, <1>3, <1>4, <1>5, <1>6, StatementFrame DEF tables, local

(* BEGIN takes a connection and nothing else. *)
LEMMA BeginKeeps ==
  ASSUME IndInv, NEW c \in Calls, Begin(c)
  PROVE  IndInv'
<1>0. TypeOK /\ RequestFits(c)
  BY DEF IndInv, RequestsFit
<1>1. /\ pc[c] = "begin" /\ req[c].rpc \in {"CreateQuestion", "UpdateQuestion"}
      /\ UNCHANGED <<tables, rowLock, req, local>>
  BY <1>0 DEF Begin, Query, RequestFits, RpcsAt
<1>2. /\ pc' \in [Calls -> Phases] /\ reply' = reply
      /\ pc'[c] = IF req[c].rpc = "CreateQuestion" THEN "insertQuestion" ELSE "updateRow"
      /\ \A d \in Calls \ {c} : pc'[d] = pc[d]
  BY <1>0, <1>1, PhasesAre, ContinueEffect DEF Begin, PhaseSet
<1>3. TypeOK'
  BY <1>0, <1>1, <1>2 DEF TypeOK, tables, local
<1>4. LocksFit' /\ EditsAreAllowed'
  BY <1>1, <1>2, LocksFrame DEF Editing, tables
<1>5. RequestFits(c)'
  BY <1>0, <1>1, <1>2 DEF RequestFits, RpcsAt
<1>6. KeyIsDated(c)' /\ IsJudgedByItsVersion(c)'
  BY <1>1 DEF KeyIsDated, IsJudgedByItsVersion
<1> QED
  BY <1>1, <1>2, <1>3, <1>4, <1>5, <1>6, StatementFrame DEF tables, local

(* The three statements that read a page: none of them writes a table. *)
LEMMA PageReadKeeps ==
  ASSUME IndInv, NEW c \in Calls, ReadRow(c) \/ ListChoices(c) \/ ReadKeyForEdit(c)
  PROVE  IndInv'
<1>0. TypeOK /\ RequestFits(c) /\ ContentIsOneVersion
  BY DEF IndInv, RequestsFit
<1>1. /\ pc[c] \in {"readRow", "readChoices", "readKey"}
      /\ req[c].rpc \in {"GetQuestion", "GetMyQuestion"} /\ req[c].question \in QuestionIds
      /\ UNCHANGED <<tables, rowLock, req>>
  BY <1>0 DEF ReadRow, ListChoices, ReadKeyForEdit, Query, RequestFits, RpcsAt
<1>2. /\ pc' \in [Calls -> Phases]
      /\ reply' \in [Calls -> Codes]
      /\ \/ pc'[c] = "done"
         \/ pc'[c] = "readChoices" /\ reply' = reply
         \/ pc'[c] = "readKey" /\ reply' = reply /\ req[c].rpc = "GetMyQuestion"
      /\ \A d \in Calls \ {c} : pc'[d] = pc[d] /\ reply'[d] = reply[d]
  <2>1. CASE ReadRow(c)
    BY <1>0, <2>1, PhasesAre, AnswerEffect, ContinueEffect DEF ReadRow, Codes, PhaseSet, TypeOK
  <2>2. CASE ListChoices(c)
    BY <1>0, <2>2, PhasesAre, AnswerEffect, ContinueEffect DEF ListChoices, Codes, PhaseSet, TypeOK
  <2>3. CASE ReadKeyForEdit(c)
    BY <1>0, <2>3, AnswerEffect DEF ReadKeyForEdit, Codes
  <2> QED
    BY <2>1, <2>2, <2>3
<1>3. /\ key' \in [Calls -> Choice \cup {NoChoice}] /\ prompt' \in [Calls -> Nat]
      /\ rows' \in [Calls -> SUBSET Choice]
      /\ \A d \in Calls \ {c} : key'[d] = key[d]
  <2>1. CASE ReadRow(c)
    <3>1. \A d \in DefaultQuestions : Batch(d, 0) \subseteq Choice
      BY BatchIs
    <3>2. key' = key
      BY <2>1 DEF ReadRow
    <3>3. \/ UNCHANGED rows
          \/ \E d \in DefaultQuestions : rows' = [rows EXCEPT ![c] = Batch(d, 0)]
      BY <2>1 DEF ReadRow
    <3>4. UNCHANGED prompt \/ prompt' = [prompt EXCEPT ![c] = questions[req[c].question].version]
      BY <2>1 DEF ReadRow
    <3>5. questions[req[c].question].version \in Nat
      BY <1>0, <1>1 DEF TypeOK, Row
    <3>6. rows' \in [Calls -> SUBSET Choice]
      BY <1>0, <3>1, <3>3 DEF TypeOK
    <3> QED
      BY <1>0, <3>2, <3>4, <3>5, <3>6 DEF TypeOK
  <2>2. CASE ListChoices(c)
    BY <1>0, <1>1, <2>2 DEF ListChoices, ChoicesOf, TypeOK
  <2>3. CASE ReadKeyForEdit(c)
    BY <1>0, <1>1, <2>3 DEF ReadKeyForEdit, TypeOK
  <2> QED
    BY <2>1, <2>2, <2>3
<1>4. TypeOK'
  BY <1>0, <1>1, <1>2, <1>3 DEF TypeOK, tables
<1>5. LocksFit' /\ EditsAreAllowed'
  BY <1>1, <1>2, LocksFrame DEF Editing, tables
<1>6. RequestFits(c)'
  BY <1>0, <1>1, <1>2 DEF RequestFits, RpcsAt, Rpcs
<1>7. KeyIsDated(c)' /\ IsJudgedByItsVersion(c)'
  BY <1>1 DEF KeyIsDated, IsJudgedByItsVersion
<1> QED
  BY <1>1, <1>2, <1>3, <1>4, <1>5, <1>6, <1>7, StatementFrame DEF tables

----------------------------------------------------------------------------
(* Transactions *)

(* The id a creation draws is nobody's, so its row is the creator's to fill. *)
LEMMA InsertQuestionKeeps ==
  ASSUME IndInv, NEW c \in Calls, InsertQuestion(c)
  PROVE  IndInv'
<1>0. TypeOK /\ RequestFits(c) /\ LocksFit /\ EditsAreAllowed /\ ContentIsOneVersion /\ StoredVerdictsStand
  BY DEF IndInv, RequestsFit
<1>1. PICK q \in QuestionIds :
        /\ questions[q].state = "absent" /\ q \notin DefaultQuestions /\ rowLock[q] = NoCall
        /\ rowLock' = [rowLock EXCEPT ![q] = c]
        /\ req' = [req EXCEPT ![c].question = q]
  BY DEF InsertQuestion
<1>2. /\ pc[c] = "insertQuestion" /\ req[c].rpc = "CreateQuestion"
      /\ UNCHANGED <<tables, local>>
  BY <1>0 DEF InsertQuestion, RequestFits, RpcsAt
<1>3. /\ pc' \in [Calls -> Phases] /\ pc'[c] = "insertChoices" /\ reply' = reply
      /\ \A d \in Calls \ {c} : pc'[d] = pc[d]
  BY <1>0, PhasesAre, ContinueEffect DEF InsertQuestion, PhaseSet
<1>4. /\ req' \in [Calls -> RequestSet]
      /\ req'[c].rpc = req[c].rpc /\ req'[c].user = req[c].user /\ req'[c].question = q
      /\ \A d \in Calls \ {c} : req'[d] = req[d]
  <2>1. req[c] \in RequestSet /\ req \in [Calls -> RequestSet]
    BY <1>0 DEF TypeOK
  <2>2. [req[c] EXCEPT !.question = q] \in RequestSet
    BY <2>1 DEF RequestSet
  <2>3. /\ req' = [req EXCEPT ![c] = [req[c] EXCEPT !.question = q]]
        /\ [req[c] EXCEPT !.question = q].rpc = req[c].rpc
        /\ [req[c] EXCEPT !.question = q].user = req[c].user
        /\ [req[c] EXCEPT !.question = q].question = q
    BY <1>1, <2>1 DEF RequestSet
  <2> QED
    BY <2>1, <2>2, <2>3
<1>5. TypeOK'
  BY <1>0, <1>1, <1>2, <1>3, <1>4 DEF TypeOK, tables, local
<1>6. LocksFit'
  BY <1>0, <1>1, <1>2, <1>3, <1>4 DEF LocksFit, Editing, TypeOK
<1>7. \A a \in attempts : a.question # q
  BY <1>0, <1>1 DEF ContentIsOneVersion, StoredVerdictsStand
<1>8. EditsAreAllowed'
  BY <1>0, <1>1, <1>2, <1>3, <1>4, <1>7 DEF EditsAreAllowed, Editing, tables, Live
<1>9. RequestFits(c)'
  BY <1>0, <1>2, <1>3, <1>4 DEF RequestFits, RpcsAt
<1>10. KeyIsDated(c)' /\ IsJudgedByItsVersion(c)'
  BY <1>2, <1>4 DEF KeyIsDated, IsJudgedByItsVersion
<1> QED
  BY <1>2, <1>3, <1>4, <1>5, <1>6, <1>8, <1>9, <1>10, StatementFrame DEF tables, local

(* What a call that is not judging an answer does to its own part when it is
   answered or cut off in any way: it is done and has a status. *)
LEMMA FinishKeeps ==
  ASSUME IndInv, NEW c \in Calls,
         UNCHANGED <<tables, req, local>>, Release(c), pc[c] \notin {"idle", "done"},
         pc' \in [Calls -> Phases], pc'[c] = "done",
         reply' \in [Calls -> Codes], reply'[c] # "OK",
         \A d \in Calls \ {c} : pc'[d] = pc[d] /\ reply'[d] = reply[d]
  PROVE  IndInv'
<1>0. TypeOK /\ RequestFits(c) /\ KeyIsDated(c)
  BY DEF IndInv, RequestsFit, KeysAreDated
<1>1. TypeOK'
  BY <1>0, ReleaseEffect DEF TypeOK, tables, local
<1>2. LocksFit' /\ EditsAreAllowed'
  BY ReleaseFrame DEF tables
<1>3. RequestFits(c)'
  BY <1>0, PhasesAre DEF RequestFits, RpcsAt, Rpcs, PhaseSet, TypeOK
<1>4. KeyIsDated(c)' /\ IsJudgedByItsVersion(c)'
  BY <1>0 DEF KeyIsDated, IsJudgedByItsVersion, tables, local
<1> QED
  BY <1>1, <1>2, <1>3, <1>4, StatementFrame DEF tables, local

(* UPDATE questions: the row lock, or a question that is no longer there. *)
LEMMA UpdateRowKeeps ==
  ASSUME IndInv, NEW c \in Calls, UpdateRow(c)
  PROVE  IndInv'
<1> DEFINE q == req[c].question
<1>0. TypeOK /\ RequestFits(c) /\ LocksFit /\ EditsAreAllowed
  BY DEF IndInv, RequestsFit
<1>1. /\ pc[c] = "updateRow" /\ req[c].rpc = "UpdateQuestion" /\ q \in QuestionIds
      /\ rowLock[q] = NoCall
  BY <1>0 DEF UpdateRow, RequestFits, RpcsAt
<1>2. CASE /\ Live(q) /\ questions[q].author = req[c].user
           /\ rowLock' = [rowLock EXCEPT ![q] = c]
           /\ Continue(c, "deleteChoices")
           /\ UNCHANGED <<tables, req, local>>
  <2>1. /\ pc' \in [Calls -> Phases] /\ pc'[c] = "deleteChoices" /\ reply' = reply
        /\ \A d \in Calls \ {c} : pc'[d] = pc[d]
    BY <1>0, <1>2, PhasesAre, ContinueEffect DEF PhaseSet
  <2>2. TypeOK'
    BY <1>0, <1>1, <1>2, <2>1 DEF TypeOK, tables, local
  <2>3. LocksFit'
    BY <1>0, <1>1, <1>2, <2>1 DEF LocksFit, Editing, TypeOK
  <2>4. EditsAreAllowed'
    BY <1>0, <1>1, <1>2, <2>1 DEF EditsAreAllowed, Editing, tables, Live
  <2>5. RequestFits(c)'
    BY <1>0, <1>1, <1>2, <2>1 DEF RequestFits, RpcsAt
  <2>6. KeyIsDated(c)' /\ IsJudgedByItsVersion(c)'
    BY <1>1, <1>2 DEF KeyIsDated, IsJudgedByItsVersion
  <2> QED
    BY <1>1, <1>2, <2>1, <2>2, <2>3, <2>4, <2>5, <2>6, StatementFrame DEF tables, local
<1>3. CASE Rollback(c, "NotFound")
  BY <1>0, <1>1, <1>3, AnswerEffect, FinishKeeps DEF Rollback, Codes, TypeOK
<1> QED
  BY <1>2, <1>3 DEF UpdateRow

(* DELETE FROM choices: nothing is visible yet, but no attempt is in the way
   and none can get in the way before the COMMIT. *)
LEMMA DeleteChoicesKeeps ==
  ASSUME IndInv, NEW c \in Calls, DeleteChoices(c)
  PROVE  IndInv'
<1> DEFINE q == req[c].question
<1>0. TypeOK /\ RequestFits(c) /\ LocksFit /\ EditsAreAllowed /\ StoredVerdictsStand
  BY DEF IndInv, RequestsFit
<1>1. /\ pc[c] = "deleteChoices" /\ req[c].rpc = "UpdateQuestion" /\ q \in QuestionIds
  BY <1>0 DEF DeleteChoices, RequestFits, RpcsAt
<1>2. CASE /\ \A a \in attempts : a.choice \notin ChoicesOf(q)
           /\ Continue(c, "insertChoices")
           /\ UNCHANGED <<tables, rowLock, req, local>>
  <2>1. /\ pc' \in [Calls -> Phases] /\ pc'[c] = "insertChoices" /\ reply' = reply
        /\ \A d \in Calls \ {c} : pc'[d] = pc[d]
    BY <1>0, <1>2, PhasesAre, ContinueEffect DEF PhaseSet
  <2>2. TypeOK'
    BY <1>0, <1>1, <1>2, <2>1 DEF TypeOK, tables, local
  <2>3. LocksFit'
    BY <1>0, <1>1, <1>2, <2>1 DEF LocksFit, Editing, TypeOK
  <2>4. \A a \in attempts : a.question # q
    BY <1>0, <1>2 DEF StoredVerdictsStand
  <2>5. EditsAreAllowed'
    BY <1>0, <1>1, <1>2, <2>1, <2>4 DEF EditsAreAllowed, Editing, tables, Live
  <2>6. RequestFits(c)'
    BY <1>0, <1>1, <1>2, <2>1 DEF RequestFits, RpcsAt
  <2>7. KeyIsDated(c)' /\ IsJudgedByItsVersion(c)'
    BY <1>1, <1>2 DEF KeyIsDated, IsJudgedByItsVersion
  <2> QED
    BY <1>1, <1>2, <2>1, <2>2, <2>3, <2>5, <2>6, <2>7, StatementFrame DEF tables, local
<1>3. CASE Rollback(c, "Internal")
  BY <1>0, <1>1, <1>3, AnswerEffect, FinishKeeps DEF Rollback, Codes, TypeOK
<1> QED
  BY <1>2, <1>3 DEF DeleteChoices

(* The INSERTs stay inside their transaction. *)
LEMMA InsertChoicesKeeps ==
  ASSUME IndInv, NEW c \in Calls, InsertChoicesAndAnswerKey(c)
  PROVE  IndInv'
<1>0. TypeOK /\ RequestFits(c) /\ LocksFit /\ EditsAreAllowed
  BY DEF IndInv, RequestsFit
<1>1. /\ pc[c] = "insertChoices" /\ req[c].rpc \in {"CreateQuestion", "UpdateQuestion"}
      /\ UNCHANGED <<tables, rowLock, req, local>>
  BY <1>0 DEF InsertChoicesAndAnswerKey, RequestFits, RpcsAt
<1>2. /\ pc' \in [Calls -> Phases] /\ pc'[c] = "commit" /\ reply' = reply
      /\ \A d \in Calls \ {c} : pc'[d] = pc[d]
  BY <1>0, PhasesAre, ContinueEffect DEF InsertChoicesAndAnswerKey, PhaseSet
<1>3. TypeOK'
  BY <1>0, <1>1, <1>2 DEF TypeOK, tables, local
<1>4. LocksFit'
  BY <1>0, <1>1, <1>2 DEF LocksFit, Editing, TypeOK
<1>5. EditsAreAllowed'
  BY <1>0, <1>1, <1>2 DEF EditsAreAllowed, Editing, tables, Live
<1>6. RequestFits(c)'
  BY <1>0, <1>1, <1>2 DEF RequestFits, RpcsAt
<1>7. KeyIsDated(c)' /\ IsJudgedByItsVersion(c)'
  BY <1>1 DEF KeyIsDated, IsJudgedByItsVersion
<1> QED
  BY <1>1, <1>2, <1>3, <1>4, <1>5, <1>6, <1>7, StatementFrame DEF tables, local

(* COMMIT: the whole new version replaces the whole old one. *)
LEMMA CommitKeeps ==
  ASSUME IndInv, NEW c \in Calls, Commit(c)
  PROVE  IndInv'
<1>0. /\ TypeOK /\ RequestFits(c) /\ LocksFit /\ EditsAreAllowed /\ ContentIsOneVersion
      /\ StoredVerdictsStand /\ AttemptsComeLast
  BY DEF IndInv, RequestsFit
<1>q. PICK q \in QuestionIds : q = req[c].question /\ rowLock[q] = c
  BY <1>0 DEF Commit, LocksFit, Editing
<1>v. PICK v \in Nat : v = StagedVersion(c)
  BY <1>0, <1>q DEF StagedVersion, TypeOK, Row
<1>1. /\ pc[c] = "commit" /\ req[c].rpc \in {"CreateQuestion", "UpdateQuestion"}
      /\ req[c].user \in Users /\ reply[c] = "none"
      /\ Release(c)
      /\ questions' = [questions EXCEPT ![q] =
           [state |-> "live", author |-> req[c].user, version |-> v]]
      /\ choices' = (choices \ ChoicesOf(q)) \cup StagedChoices(c)
      /\ answerKey' = [answerKey EXCEPT ![q] = StagedKey(c)]
      /\ UNCHANGED <<users, attempts, req, local>>
  BY <1>0, <1>q, <1>v DEF Commit, RequestFits, RpcsAt
<1>2. /\ \A a \in attempts : a.question # q
      /\ req[c].rpc = "CreateQuestion" => questions[q].state = "absent" /\ q \notin DefaultQuestions
      /\ req[c].rpc = "UpdateQuestion" => questions[q].state = "live"
  BY <1>0, <1>1, <1>q DEF EditsAreAllowed, Editing, Live
<1>3. /\ questions[q].state # "absent" => v = questions[q].version + 1
      /\ questions[q].state = "absent" => v = 0 /\ q \notin DefaultQuestions
  BY <1>0, <1>1, <1>2, <1>q, <1>v DEF StagedVersion, TypeOK, Row
<1>4. StagedKey(c) \in Batch(q, v) /\ StagedKey(c).version = v
  BY <1>0, <1>q, <1>v DEF StagedKey, Batch, TypeOK, RequestSet
<1>5. /\ pc' \in [Calls -> Phases] /\ pc'[c] = "done"
      /\ reply' \in [Calls -> Codes]
      /\ \A d \in Calls \ {c} : pc'[d] = pc[d] /\ reply'[d] = reply[d]
  BY <1>0, AnswerEffect DEF Commit, Codes
<1>6. /\ questions'[q] = [state |-> "live", author |-> req[c].user, version |-> v]
      /\ answerKey'[q] = StagedKey(c)
      /\ \A r \in QuestionIds \ {q} : questions'[r] = questions[r] /\ answerKey'[r] = answerKey[r]
  BY <1>0, <1>1, <1>2 DEF TypeOK
<1>7. TypeOK'
  <2>1. users' \subseteq Authors /\ questions' \in [QuestionIds -> Row]
    BY <1>0, <1>1, <1>3 DEF TypeOK, Row, Authors
  <2>2. choices' \subseteq Choice /\ answerKey' \in [QuestionIds -> Choice \cup {NoChoice}]
    BY <1>0, <1>1, <1>4, <1>q, <1>v, BatchIs DEF TypeOK, StagedChoices
  <2> QED
    BY <1>0, <1>1, <1>5, <2>1, <2>2, ReleaseEffect DEF TypeOK, local
<1>8. /\ ChoicesOf(q)' = Batch(q, v)
      /\ \A r \in QuestionIds \ {q} : ChoicesOf(r)' = ChoicesOf(r)
  <2>1. \A x \in choices' : IF x.question = q THEN x \in Batch(q, v) ELSE x \in choices
    BY <1>1, <1>q, <1>v, BatchIs DEF StagedChoices, ChoicesOf
  <2>2. \A x \in choices : x.question # q => x \in choices'
    BY <1>1 DEF ChoicesOf
  <2>3. \A x \in Batch(q, v) : x \in choices' /\ x.question = q
    BY <1>1, <1>q, <1>v, BatchIs DEF StagedChoices
  <2> QED
    BY <2>1, <2>2, <2>3 DEF ChoicesOf
<1>9. ContentIsOneVersion'
  <2> SUFFICES ASSUME NEW r \in QuestionIds
               PROVE  IF questions'[r].state = "absent"
                      THEN ChoicesOf(r)' = {} /\ answerKey'[r] = NoChoice
                      ELSE /\ ChoicesOf(r)' = Batch(r, questions'[r].version)
                           /\ answerKey'[r] \in ChoicesOf(r)'
    BY DEF ContentIsOneVersion, Batch
  <2> QED
    BY <1>0, <1>4, <1>6, <1>8 DEF ContentIsOneVersion
<1>10. StoredVerdictsStand'
  BY <1>0, <1>1, <1>2, <1>6, <1>8 DEF StoredVerdictsStand, TypeOK, Attempt
<1>11. AttemptsComeLast'
  BY <1>0, <1>1, <1>5 DEF AttemptsComeLast, TypeOK, Attempt
<1>12. LocksFit'
  BY <1>0, <1>1, <1>5, ReleaseEffect DEF LocksFit, TypeOK, Editing
<1>13. EditsAreAllowed'
  <2> SUFFICES ASSUME NEW d \in Calls, pc'[d] \in Editing
               PROVE  /\ req[d].rpc = "CreateQuestion" =>
                           questions'[req[d].question].state = "absent" /\ req[d].question \notin DefaultQuestions
                      /\ req[d].rpc = "UpdateQuestion" =>
                           /\ questions'[req[d].question].state = "live"
                           /\ questions'[req[d].question].author = req[d].user
                      /\ pc'[d] # "deleteChoices" => \A a \in attempts : a.question # req[d].question
    BY <1>1 DEF EditsAreAllowed, Live
  <2>1. d # c /\ pc[d] \in Editing
    BY <1>5 DEF Editing
  <2>2. req[d].question \in QuestionIds \ {q}
    BY <1>0, <1>q, <2>1 DEF LocksFit
  <2> QED
    BY <1>0, <1>5, <1>6, <2>1, <2>2 DEF EditsAreAllowed, Live
<1>14. RequestsFit'
  BY <1>0, <1>1, <1>5 DEF IndInv, RequestsFit, RequestFits, RpcsAt, Rpcs
<1>15. KeysAreDated'
  <2> SUFFICES ASSUME NEW d \in Calls, req[d].rpc = "SubmitAnswer"
               PROVE  KeyIsDated(d)'
    BY <1>1 DEF KeysAreDated, KeyIsDated
  <2>1. d # c /\ KeyIsDated(d) /\ RequestFits(d)
    BY <1>1 DEF IndInv, KeysAreDated, RequestsFit
  <2>2. \A r \in QuestionIds : questions[r].version \in Nat /\ questions'[r].version \in Nat
    BY <1>0, <1>7 DEF TypeOK, Row
  <2>3. \A r \in QuestionIds :
          /\ questions[r].version <= questions'[r].version
          /\ questions'[r].state = "absent" => questions[r].state = "absent"
          /\ questions[r].state # "absent" =>
               \/ questions[r].version < questions'[r].version
               \/ questions'[r] = questions[r] /\ answerKey'[r] = answerKey[r]
    BY <1>0, <1>3, <1>6, <2>2 DEF UnusedIdsAreNew, IndInv
  <2>4. req[d].choice \in Choice /\ req[d].choice.question \in QuestionIds
        /\ req[d].question \in QuestionIds
    BY <2>1 DEF RequestFits, Choice
  <2>5. UNCHANGED <<req[d], key[d], pc[d], reply[d]>>
    BY <1>1, <1>5, <2>1 DEF local
  <2>6. key[d] \in Choice => key[d].version \in Nat
    BY DEF Choice
  <2>7. req[d].choice.version \in Nat
    BY <2>4 DEF Choice
  <2>8. req[d].choice.version <= questions'[req[d].choice.question].version
    BY <2>1, <2>2, <2>3, <2>4, <2>7 DEF KeyIsDated
  <2>9. ASSUME pc[d] \in {"belongs", "ensureUser", "insertAttempt"}
        PROVE  /\ questions'[req[d].question].state # "absent"
               /\ key[d].version <= questions'[req[d].question].version
               /\ key[d].version = questions'[req[d].question].version =>
                    key[d] = answerKey'[req[d].question]
    <3>1. /\ questions[req[d].question].state # "absent"
          /\ key[d].version \in Nat
          /\ key[d].version <= questions[req[d].question].version
          /\ key[d].version = questions[req[d].question].version => key[d] = answerKey[req[d].question]
      BY <2>1, <2>6, <2>9 DEF KeyIsDated
    <3> QED
      BY <2>2, <2>3, <2>4, <3>1
  <2> QED
    BY <2>1, <2>3, <2>4, <2>5, <2>8, <2>9 DEF KeyIsDated
<1>16. AnswersAreJudgedByTheirVersion'
  <2> SUFFICES ASSUME NEW d \in Calls, req[d].rpc = "SubmitAnswer", reply'[d] = "OK",
                      questions'[req[d].question].state # "absent"
               PROVE  /\ key[d].question = req[d].choice.question
                      /\ key[d].version = req[d].choice.version
    BY <1>1 DEF AnswersAreJudgedByTheirVersion, IsJudgedByItsVersion, local
  <2>1. d # c /\ reply[d] = "OK" /\ KeyIsDated(d) /\ RequestFits(d) /\ IsJudgedByItsVersion(d)
    BY <1>1, <1>5 DEF IndInv, KeysAreDated, RequestsFit, AnswersAreJudgedByTheirVersion
  <2>2. questions[req[d].question].state # "absent"
    BY <1>3, <1>6, <2>1 DEF KeyIsDated, RequestFits
  <2> QED
    BY <2>1, <2>2 DEF IsJudgedByItsVersion
<1>17. UnusedIdsAreNew'
  BY <1>6 DEF IndInv, UnusedIdsAreNew
<1> QED
  BY <1>7, <1>9, <1>10, <1>11, <1>12, <1>13, <1>14, <1>15, <1>16, <1>17 DEF IndInv

----------------------------------------------------------------------------
(* Attempts, the environment and the whole *)

(* The attempt a call inserts is judged by the current key: its foreign key
   holds only if no edit was committed since the key was read, and none that
   is under way may touch the row it locks. *)
LEMMA CreateAttemptKeeps ==
  ASSUME IndInv, NEW c \in Calls, CreateAttempt(c)
  PROVE  IndInv'
<1>0. /\ TypeOK /\ RequestFits(c) /\ KeyIsDated(c) /\ LocksFit /\ EditsAreAllowed
      /\ ContentIsOneVersion /\ StoredVerdictsStand /\ AttemptsComeLast
  BY DEF IndInv, RequestsFit, KeysAreDated
<1>q. PICK q \in QuestionIds : q = req[c].question
  BY <1>0 DEF CreateAttempt, Query, RequestFits, RpcsAt
<1>x. PICK x \in Choice : x = req[c].choice
  BY <1>0 DEF CreateAttempt, Query, RequestFits, RpcsAt
<1>1. /\ pc[c] = "insertAttempt" /\ req[c].rpc = "SubmitAnswer" /\ reply[c] = "none"
      /\ req[c].user \in Users
      /\ ~ ChoicesLocked(q)
      /\ UNCHANGED <<users, questions, choices, answerKey, rowLock, req, local>>
  BY <1>0, <1>q DEF CreateAttempt, Query, RequestFits, RpcsAt
<1>2. /\ questions[q].state # "absent" /\ x.question = q /\ x.version = key[c].version
      /\ key[c] \in Choice /\ key[c].question = q
      /\ key[c].version = questions[q].version => key[c] = answerKey[q]
  BY <1>0, <1>1, <1>q, <1>x DEF KeyIsDated
<1>3. ChoicesOf(q) = Batch(q, questions[q].version) /\ questions[q].version \in Nat
  BY <1>0, <1>2 DEF ContentIsOneVersion, TypeOK, Row
<1> DEFINE a == [call |-> c, user |-> req[c].user, question |-> q, choice |-> x,
                 isCorrect |-> IsCorrect(c)]
<1>4. \/ x \in ChoicesOf(q) /\ attempts' = attempts \cup {a} /\ Answer(c, "OK")
      \/ x \notin ChoicesOf(q) /\ attempts' = attempts /\ Answer(c, "InvalidArgument")
  BY <1>q, <1>x DEF CreateAttempt
<1>5. x \in ChoicesOf(q) => (IsCorrect(c) <=> x = answerKey[q])
  BY <1>2, <1>3, <1>x, BatchIs DEF IsCorrect
<1>6. /\ pc' \in [Calls -> Phases] /\ pc'[c] = "done"
      /\ reply' \in [Calls -> Codes]
      /\ \A d \in Calls \ {c} : pc'[d] = pc[d] /\ reply'[d] = reply[d]
  BY <1>0, <1>4, AnswerEffect DEF Codes
<1>7. a \in Attempt /\ a.call = c /\ a.question = q /\ a.choice = x /\ a.isCorrect = IsCorrect(c)
  BY <1>1 DEF Attempt, IsCorrect
<1>8. TypeOK'
  BY <1>0, <1>1, <1>4, <1>6, <1>7 DEF TypeOK, local
<1>9. ContentIsOneVersion'
  BY <1>0, <1>1 DEF ContentIsOneVersion, ChoicesOf, Batch
<1>10. StoredVerdictsStand'
  BY <1>0, <1>1, <1>4, <1>5, <1>7 DEF StoredVerdictsStand, ChoicesOf
<1>11. LocksFit'
  BY <1>0, <1>1, <1>6 DEF LocksFit, TypeOK, Editing
<1>12. EditsAreAllowed'
  <2>1. \A d \in Calls : pc[d] \in Editing /\ pc[d] # "deleteChoices" => req[d].question # q
    BY <1>0, <1>1 DEF ChoicesLocked, LocksFit, Editing
  <2> QED
    BY <1>0, <1>1, <1>4, <1>6, <1>7, <2>1 DEF EditsAreAllowed, Editing, Live
<1>13. RequestFits(c)'
  BY <1>0, <1>1, <1>6 DEF RequestFits, RpcsAt, Rpcs
<1>14. KeyIsDated(c)'
  BY <1>0, <1>1, <1>2, <1>6, <1>q DEF KeyIsDated, local
<1>15. IsJudgedByItsVersion(c)'
  BY <1>1, <1>2, <1>q, <1>x DEF IsJudgedByItsVersion, local
<1>16. RequestsFit' /\ KeysAreDated' /\ AnswersAreJudgedByTheirVersion'
  BY <1>1, <1>6, <1>13, <1>14, <1>15, OthersKeep
     DEF RequestsFit, KeysAreDated, AnswersAreJudgedByTheirVersion, local
<1>17. AttemptsComeLast'
  BY <1>0, <1>4, <1>6, <1>7 DEF AttemptsComeLast, TypeOK, Attempt
<1>18. UnusedIdsAreNew'
  BY <1>1 DEF IndInv, UnusedIdsAreNew
<1> QED
  BY <1>8, <1>9, <1>10, <1>11, <1>12, <1>16, <1>17, <1>18 DEF IndInv

(* A question is hidden under everything that is going on. *)
LEMMA SoftDeleteKeeps ==
  ASSUME IndInv, NEW q \in QuestionIds, SoftDelete(q)
  PROVE  IndInv'
<1>0. TypeOK /\ LocksFit /\ EditsAreAllowed /\ ContentIsOneVersion
  BY DEF IndInv
<1>1. /\ questions[q].state = "live" /\ rowLock[q] = NoCall
      /\ questions' = [questions EXCEPT ![q].state = "deleted"]
      /\ UNCHANGED <<users, choices, answerKey, attempts, rowLock, pc, req, local, reply>>
  BY DEF SoftDelete, Live
<1>2. /\ questions'[q].state = "deleted" /\ questions'[q].version = questions[q].version
      /\ \A r \in QuestionIds \ {q} : questions'[r] = questions[r]
  BY <1>0, <1>1 DEF TypeOK, Row
<1>3. \A r \in QuestionIds : /\ questions'[r].version = questions[r].version
                             /\ questions'[r].state = "absent" <=> questions[r].state = "absent"
  BY <1>1, <1>2
<1>4. TypeOK'
  BY <1>0, <1>1 DEF TypeOK, Row, local
<1>5. ContentIsOneVersion'
  BY <1>0, <1>1, <1>3 DEF ContentIsOneVersion, ChoicesOf, Batch
<1>6. StoredVerdictsStand' /\ AttemptsComeLast' /\ UnusedIdsAreNew' /\ LocksFit'
  BY <1>1, <1>3 DEF IndInv, StoredVerdictsStand, AttemptsComeLast, UnusedIdsAreNew, LocksFit, ChoicesOf
<1>7. EditsAreAllowed'
  <2>1. \A d \in Calls : pc[d] \in Editing => req[d].question \in QuestionIds \ {q}
    BY <1>0, <1>1 DEF LocksFit
  <2> QED
    BY <1>0, <1>1, <1>2, <2>1 DEF EditsAreAllowed, Live
<1>8. RequestsFit'
  BY <1>1 DEF IndInv, RequestsFit, RequestFits
<1>9. ASSUME NEW d \in Calls PROVE KeyIsDated(d)' /\ IsJudgedByItsVersion(d)'
  <2>1. RequestFits(d) /\ KeyIsDated(d) /\ IsJudgedByItsVersion(d)
    BY DEF IndInv, RequestsFit, KeysAreDated, AnswersAreJudgedByTheirVersion
  <2>2. req[d].rpc = "SubmitAnswer" => req[d].question \in QuestionIds /\ req[d].choice.question \in QuestionIds
    BY <2>1 DEF RequestFits, Choice
  <2>3. KeyIsDated(d)'
    BY <1>1, <1>3, <2>1, <2>2 DEF KeyIsDated, local
  <2>4. IsJudgedByItsVersion(d)'
    BY <1>1, <1>3, <2>1, <2>2 DEF IsJudgedByItsVersion, local
  <2> QED
    BY <2>3, <2>4
<1> QED
  BY <1>4, <1>5, <1>6, <1>7, <1>8, <1>9 DEF IndInv, KeysAreDated, AnswersAreJudgedByTheirVersion

(* A call that is cut off or meets an outage rolls back. *)
LEMMA LossKeeps ==
  ASSUME IndInv, NEW c \in Calls, Cut(c) \/ StatementFails(c)
  PROVE  IndInv'
<1>0. TypeOK
  BY DEF IndInv
<1>1. CASE Cut(c)
  BY <1>0, <1>1, PhasesAre, FinishKeeps DEF Cut, Goto, TypeOK, PhaseSet, Codes
<1>2. CASE StatementFails(c)
  <2>1. OutageCode[pc[c]] \in Codes \ {"OK", "none"}
    BY <1>2, OutageCodes DEF StatementFails
  <2>2. pc[c] \notin {"idle", "done"}
    BY <1>2 DEF StatementFails, OutageCode
  <2>3. pc' \in [Calls -> Phases] /\ pc'[c] = "done" /\ \A d \in Calls \ {c} : pc'[d] = pc[d]
    BY <1>0, <1>2, PhasesAre DEF StatementFails, Goto, TypeOK, PhaseSet
  <2>4. /\ reply' \in [Calls -> Codes] /\ reply'[c] # "OK"
        /\ \A d \in Calls \ {c} : reply'[d] = reply[d]
    BY <1>0, <1>2, <2>1 DEF StatementFails, TypeOK
  <2> QED
    BY <1>2, <2>2, <2>3, <2>4, FinishKeeps DEF StatementFails
<1> QED
  BY <1>1, <1>2

(* Every step keeps the invariant. *)
LEMMA NextKeeps == IndInv /\ [Next]_vars => IndInv'
<1> SUFFICES ASSUME IndInv, [Next]_vars PROVE IndInv'
  OBVIOUS
<1>1. CASE UNCHANGED vars
  BY <1>1 DEF vars, tables, local, IndInv, TypeOK, ContentIsOneVersion, StoredVerdictsStand,
     AnswersAreJudgedByTheirVersion, IsJudgedByItsVersion, RequestsFit, RequestFits, LocksFit,
     EditsAreAllowed, KeysAreDated, KeyIsDated, UnusedIdsAreNew, AttemptsComeLast,
     ChoicesOf, Batch, Live
<1>2. ASSUME NEW c \in Calls, ClientStep(c) PROVE IndInv'
  BY <1>2, StartKeeps
<1>3. ASSUME NEW c \in Calls, ServerStep(c) PROVE IndInv'
  BY <1>3, ReadKeyForAnswerKeeps, ChoiceBelongsKeeps, EnsureUserExistsKeeps, CreateAttemptKeeps,
     GetQuestionAuthorKeeps, BeginKeeps, InsertQuestionKeeps, UpdateRowKeeps, DeleteChoicesKeeps,
     InsertChoicesKeeps, CommitKeeps, PageReadKeeps DEF ServerStep
<1>4. ASSUME NEW c \in Calls, Cut(c) \/ StatementFails(c) PROVE IndInv'
  BY <1>4, LossKeeps
<1>5. ASSUME NEW q \in QuestionIds, SoftDelete(q) PROVE IndInv'
  BY <1>5, SoftDeleteKeeps
<1> QED
  BY <1>1, <1>2, <1>3, <1>4, <1>5 DEF Next

----------------------------------------------------------------------------
(* The theorems *)

(* The strengthened invariant holds in every reachable state. *)
THEOREM InductiveInvariant == Spec => []IndInv
BY InitEstablishes, NextKeeps, PTL DEF Spec

(* Every variable stays within its type. *)
THEOREM TypesHold == Spec => []TypeOK
<1>1. IndInv => TypeOK
  BY DEF IndInv
<1> QED
  BY <1>1, InductiveInvariant, PTL

(* CreateQuestion and UpdateQuestion: what is committed of a question is always
   one whole version with its key, so the deferred trigger has nothing to
   reject and no reader finds a question without a key. *)
THEOREM CommittedContentIsWhole == Spec => []ContentIsOneVersion
<1>1. IndInv => ContentIsOneVersion
  BY DEF IndInv
<1> QED
  BY <1>1, InductiveInvariant, PTL

(* SubmitAnswer: what attempts says of an answer agrees with the answer key at
   all times, whatever edits run between its four statements. *)
THEOREM VerdictsStand == Spec => []StoredVerdictsStand
<1>1. IndInv => StoredVerdictsStand
  BY DEF IndInv
<1> QED
  BY <1>1, InductiveInvariant, PTL

(* SubmitAnswer: a verdict, recorded or not, is by the key of the version the
   answered choice belongs to. *)
THEOREM VerdictsFitTheVersion == Spec => []AnswersAreJudgedByTheirVersion
<1>1. IndInv => AnswersAreJudgedByTheirVersion
  BY DEF IndInv
<1> QED
  BY <1>1, InductiveInvariant, PTL

----------------------------------------------------------------------------
(* Steps: what may change a question, and the ledger *)

(* Only a COMMIT and a soft delete change what is stored of the questions, only
   the last statement of SubmitAnswer the attempts. *)
LEMMA WhatChangesTheTables ==
  ASSUME [Next]_vars
  PROVE  \/ UNCHANGED <<questions, choices, answerKey, attempts>>
         \/ \E c \in Calls : CreateAttempt(c) \/ Commit(c)
         \/ \E q \in QuestionIds : SoftDelete(q)
<1>1. CASE UNCHANGED vars
  BY <1>1 DEF vars, tables
<1>2. ASSUME NEW c \in Calls, ClientStep(c) PROVE UNCHANGED tables
  BY <1>2 DEF ClientStep, StartSubmitAnswer, StartCreateQuestion, StartUpdateQuestion,
     StartGetQuestion, StartGetMyQuestion, Start
<1>3. ASSUME NEW c \in Calls, ServerStep(c), ~ CreateAttempt(c), ~ Commit(c)
      PROVE  UNCHANGED <<questions, choices, answerKey, attempts>>
  BY <1>3 DEF ServerStep, ReadKeyForAnswer, ChoiceBelongsToQuestion, EnsureUserExists,
     GetQuestionAuthor, Begin, InsertQuestion, UpdateRow, DeleteChoices, Rollback,
     InsertChoicesAndAnswerKey, ReadRow, ListChoices, ReadKeyForEdit, tables
<1>4. ASSUME NEW c \in Calls, Cut(c) \/ StatementFails(c) PROVE UNCHANGED tables
  BY <1>4 DEF Cut, StatementFails
<1> QED
  BY <1>1, <1>2, <1>3, <1>4 DEF Next, tables

(* What a COMMIT leaves in the tables. *)
LEMMA CommitEffect ==
  ASSUME IndInv, NEW c \in Calls, Commit(c)
  PROVE  \E q \in QuestionIds, v \in Nat : \E x \in Batch(q, v) :
           /\ questions' = [questions EXCEPT ![q] =
                [state |-> "live", author |-> req[c].user, version |-> v]]
           /\ answerKey' = [answerKey EXCEPT ![q] = x]
           /\ \A r \in QuestionIds \ {q} : ChoicesOf(r)' = ChoicesOf(r)
           /\ attempts' = attempts /\ \A a \in attempts : a.question # q
           /\ \/ questions[q].state = "absent" /\ v = 0
              \/ /\ questions[q].state = "live" /\ v = questions[q].version + 1
                 /\ questions[q].author = req[c].user
           /\ req[c].user \in Users
<1>0. TypeOK /\ RequestFits(c) /\ LocksFit /\ EditsAreAllowed
  BY DEF IndInv, RequestsFit
<1>q. PICK q \in QuestionIds : q = req[c].question
  BY <1>0 DEF Commit, LocksFit, Editing
<1>v. PICK v \in Nat : v = StagedVersion(c)
  BY <1>0, <1>q DEF StagedVersion, TypeOK, Row
<1>1. StagedKey(c) \in Batch(q, v)
  BY <1>0, <1>q, <1>v DEF StagedKey, Batch, TypeOK, RequestSet
<1>2. /\ req[c].rpc \in {"CreateQuestion", "UpdateQuestion"} /\ req[c].user \in Users
      /\ \A a \in attempts : a.question # q
  BY <1>0, <1>q DEF Commit, RequestFits, RpcsAt, EditsAreAllowed, Editing
<1>3. \/ questions[q].state = "absent" /\ v = 0
      \/ /\ questions[q].state = "live" /\ v = questions[q].version + 1
         /\ questions[q].author = req[c].user
  BY <1>0, <1>2, <1>q, <1>v DEF Commit, EditsAreAllowed, Editing, Live, StagedVersion
<1>4. \A r \in QuestionIds \ {q} : ChoicesOf(r)' = ChoicesOf(r)
  <2>1. choices' = (choices \ ChoicesOf(q)) \cup Batch(q, v)
    BY <1>q, <1>v DEF Commit, StagedChoices
  <2>2. \A x \in Batch(q, v) : x.question = q
    BY BatchIs
  <2> QED
    BY <2>1, <2>2 DEF ChoicesOf
<1> QED
  BY <1>1, <1>2, <1>3, <1>4, <1>q, <1>v DEF Commit

(* UpdateQuestion and the foreign key of attempts: once somebody has answered a
   question, no step changes its text or its key. *)
THEOREM AnsweredStaysFrozen == Spec => AnsweredQuestionsAreFrozen
<1> DEFINE Frozen == \A q \in QuestionIds : (\E a \in attempts : a.question = q) =>
                       /\ questions'[q].version = questions[q].version
                       /\ answerKey'[q] = answerKey[q]
                       /\ ChoicesOf(q)' = ChoicesOf(q)
<1>1. ASSUME IndInv, [Next]_vars PROVE Frozen
  <2>0. TypeOK
    BY <1>1 DEF IndInv
  <2>1. CASE UNCHANGED <<questions, choices, answerKey, attempts>>
    BY <2>1 DEF ChoicesOf
  <2>2. ASSUME NEW c \in Calls, CreateAttempt(c) PROVE Frozen
    BY <2>2 DEF CreateAttempt, ChoicesOf
  <2>3. ASSUME NEW c \in Calls, Commit(c) PROVE Frozen
    BY <1>1, <2>0, <2>3, CommitEffect DEF TypeOK
  <2>4. ASSUME NEW r \in QuestionIds, SoftDelete(r) PROVE Frozen
    BY <2>0, <2>4 DEF SoftDelete, TypeOK, Row, ChoicesOf
  <2> QED
    BY <1>1, <2>1, <2>2, <2>3, <2>4, WhatChangesTheTables
<1>2. IndInv /\ [Next]_vars => [Frozen]_vars
  BY <1>1
<1> QED
  BY <1>2, InductiveInvariant, PTL DEF Spec, AnsweredQuestionsAreFrozen

(* UpdateQuestion checks deleted_at again under the row lock: no step edits a
   soft-deleted question or brings it back. *)
THEOREM DeletedStaysDeleted == Spec => DeletedQuestionsStay
<1> DEFINE Stays == \A q \in QuestionIds : questions[q].state = "deleted" =>
                      questions'[q] = questions[q] /\ answerKey'[q] = answerKey[q]
<1>1. ASSUME IndInv, [Next]_vars PROVE Stays
  <2>0. TypeOK
    BY <1>1 DEF IndInv
  <2>1. CASE UNCHANGED <<questions, choices, answerKey, attempts>>
    BY <2>1
  <2>2. ASSUME NEW c \in Calls, CreateAttempt(c) PROVE Stays
    BY <2>2 DEF CreateAttempt
  <2>3. ASSUME NEW c \in Calls, Commit(c) PROVE Stays
    BY <1>1, <2>0, <2>3, CommitEffect DEF TypeOK
  <2>4. ASSUME NEW r \in QuestionIds, SoftDelete(r) PROVE Stays
    BY <2>0, <2>4 DEF SoftDelete, TypeOK, Row, Live
  <2> QED
    BY <1>1, <2>1, <2>2, <2>3, <2>4, WhatChangesTheTables
<1>2. IndInv /\ [Next]_vars => [Stays]_vars
  BY <1>1
<1> QED
  BY <1>2, InductiveInvariant, PTL DEF Spec, DeletedQuestionsStay

(* A step of the store is one of the ledger: an attempt is a judgement, a COMMIT
   publishes or edits, a soft delete hides, every other statement is a stutter. *)
LEMMA StepOfTheLedger ==
  ASSUME IndInv, [Next]_vars
  PROVE  [Ledger!Next]_(Ledger!vars)
<1>0. /\ TypeOK /\ ContentIsOneVersion /\ AttemptsComeLast /\ RequestsFit /\ KeysAreDated
  BY DEF IndInv
<1>1. CASE UNCHANGED <<questions, choices, answerKey, attempts>>
  BY <1>1 DEF Ledger!vars
<1>2. ASSUME NEW c \in Calls, CreateAttempt(c) PROVE [Ledger!Next]_(Ledger!vars)
  <2>1. RequestFits(c) /\ KeyIsDated(c)
    BY <1>0 DEF RequestsFit, KeysAreDated
  <2>q. PICK q \in QuestionIds : q = req[c].question
    BY <1>2, <2>1 DEF CreateAttempt, Query, RequestFits, RpcsAt
  <2>x. PICK x : x = req[c].choice
    OBVIOUS
  <2>2. /\ pc[c] = "insertAttempt" /\ req[c].user \in Users /\ questions[q].state # "absent"
        /\ key[c].version <= questions[q].version
        /\ key[c].version = questions[q].version => key[c] = answerKey[q]
        /\ x.question = q /\ x.version = key[c].version
    BY <1>2, <2>1, <2>q, <2>x DEF CreateAttempt, Query, RequestFits, KeyIsDated, RpcsAt
  <2>3. UNCHANGED <<questions, answerKey>>
    BY <1>2 DEF CreateAttempt
  <2>4. CASE attempts' = attempts
    BY <2>3, <2>4 DEF Ledger!vars
  <2>5. CASE /\ x \in ChoicesOf(q)
             /\ attempts' = attempts \cup
                  {[call |-> c, user |-> req[c].user, question |-> q, choice |-> x,
                    isCorrect |-> IsCorrect(c)]}
    <3>1. x \in Batch(q, questions[q].version) /\ questions[q].version \in Nat
      BY <1>0, <2>2, <2>5 DEF ContentIsOneVersion, TypeOK, Row
    <3>2. x \in Ledger!Choice(q, questions[q].version)
      BY <3>1 DEF Ledger!Choice, Batch, Ordinals
    <3>v. PICK v \in Nat : v = questions[q].version
      BY <3>1
    <3>b. x \in Choice /\ x.version = v
      BY <3>1, <3>v, BatchIs
    <3>3. key[c] = answerKey[q]
      BY <2>2, <3>b, <3>v
    <3>4. IsCorrect(c) = (x = answerKey[q])
      BY <2>x, <3>3, Zenon DEF IsCorrect
    <3>5. \A a \in attempts : a.call # c
      BY <1>0, <2>2 DEF AttemptsComeLast
    <3>a. attempts' = attempts \cup
            {[call |-> c, user |-> req[c].user, question |-> q, choice |-> x,
              isCorrect |-> (x = answerKey[q])]}
      BY <2>5, <3>4, Zenon
    <3>6. Ledger!Judge(c)
      BY <2>2, <2>3, <3>2, <3>5, <3>a DEF Ledger!Judge
    <3> QED
      BY <3>6 DEF Ledger!Next
  <2> QED
    BY <1>2, <2>4, <2>5, <2>q, <2>x DEF CreateAttempt
<1>3. ASSUME NEW c \in Calls, Commit(c) PROVE [Ledger!Next]_(Ledger!vars)
  <2>1. PICK q \in QuestionIds, v \in Nat : \E x \in Batch(q, v) :
          /\ questions' = [questions EXCEPT ![q] =
               [state |-> "live", author |-> req[c].user, version |-> v]]
          /\ answerKey' = [answerKey EXCEPT ![q] = x]
          /\ attempts' = attempts /\ \A a \in attempts : a.question # q
          /\ \/ questions[q].state = "absent" /\ v = 0
             \/ /\ questions[q].state = "live" /\ v = questions[q].version + 1
                /\ questions[q].author = req[c].user
          /\ req[c].user \in Users
    BY <1>3, CommitEffect
  <2>2. Batch(q, v) = Ledger!Choice(q, v)
    BY DEF Batch, Ledger!Choice, Ordinals
  <2>3. CASE questions[q].state = "absent" /\ v = 0
    <3>1. Ledger!Publish(q)
      BY <2>1, <2>2, <2>3 DEF Ledger!Publish, Authors
    <3> QED
      BY <3>1 DEF Ledger!Next
  <2>4. CASE /\ questions[q].state = "live" /\ v = questions[q].version + 1
             /\ questions[q].author = req[c].user
    <3>1. [state |-> "live", author |-> req[c].user, version |-> v]
            = [questions[q] EXCEPT !.version = @ + 1]
      BY <1>0, <2>4 DEF TypeOK, Row
    <3>2. questions' = [questions EXCEPT ![q].version = @ + 1]
      BY <1>0, <2>1, <3>1 DEF TypeOK
    <3>3. Ledger!Edit(q)
      BY <2>1, <2>2, <2>4, <3>2 DEF Ledger!Edit
    <3> QED
      BY <3>3 DEF Ledger!Next
  <2> QED
    BY <2>1, <2>3, <2>4
<1>4. ASSUME NEW q \in QuestionIds, SoftDelete(q) PROVE [Ledger!Next]_(Ledger!vars)
  BY <1>4 DEF SoftDelete, Live, Ledger!Hide, Ledger!Next
<1> QED
  BY <1>1, <1>2, <1>3, <1>4, WhatChangesTheTables

LEMMA InitOfTheLedger == Init => Ledger!Init
BY DEF Init, Ledger!Init, DefaultKey

(* The tables under all the calls, locks and transactions are the ledger, in
   which a question is published, edited or hidden and an answer judged at once. *)
THEOREM StoreImplementsLedger == Spec => ImplementsLedger
<1>1. IndInv /\ [Next]_vars => [Ledger!Next]_(Ledger!vars)
  BY StepOfTheLedger
<1> QED
  BY <1>1, InitOfTheLedger, InductiveInvariant, PTL DEF Spec, ImplementsLedger, Ledger!Spec

----------------------------------------------------------------------------
(* What clients are told stays true: recorded answers are kept and pages never
   mix texts backwards in time. *)

Reading == {"GetQuestion", "GetMyQuestion"}

\* The property of one call.
IsKept(c) ==
  LET r == req[c] IN
  /\ r.rpc = "SubmitAnswer" /\ reply[c] = "OK" /\ r.user # Anonymous
  /\ questions[r.question].state # "absent"
  => \E a \in attempts : /\ a.call = c /\ a.user = r.user /\ a.choice = r.choice
                         /\ a.isCorrect <=> r.choice = key[c]

GoesForward(c) ==
  req[c].rpc \in Reading /\ reply[c] = "OK" =>
    \E d \in QuestionIds :
      /\ \E v \in {x.version : x \in rows[c]} : rows[c] = Batch(d, v) /\ prompt[c] <= v
      /\ req[c].rpc = "GetMyQuestion" =>
           key[c].question = d /\ \A x \in rows[c] : x.version <= key[c].version

\* What a page in the making has read: nothing, the row, or one whole version of
\* the choices too, none newer than the question is now.
PageFits(c) ==
  LET q == req[c].question IN
  /\ pc[c] \in {"idle", "readRow"} => prompt[c] = 0
  /\ req[c].rpc \in Reading =>
       /\ pc[c] \in {"readChoices", "readKey"} =>
            questions[q].state # "absent" /\ prompt[c] <= questions[q].version
       /\ pc[c] = "readKey" =>
            \E v \in {x.version : x \in rows[c]} :
              rows[c] = Batch(q, v) /\ prompt[c] <= v /\ v <= questions[q].version

Stands(c) == IsKept(c) /\ GoesForward(c) /\ PageFits(c)

RepliesStand == \A c \in Calls : Stands(c)

----------------------------------------------------------------------------
(* Frames *)

\* What the tables only ever do.
TablesGrow ==
  /\ attempts \subseteq attempts'
  /\ \A q \in QuestionIds :
       /\ questions[q].state # "absent" => questions'[q].state # "absent"
       /\ questions[q].state = "absent" /\ q \in DefaultQuestions => questions'[q].state = "absent"
       /\ questions[q].version <= questions'[q].version

LEMMA TablesOnlyGrow ==
  ASSUME IndInv, [Next]_vars
  PROVE  TablesGrow
<1>0. TypeOK
  BY DEF IndInv
<1>1. CASE UNCHANGED <<questions, choices, answerKey, attempts>>
  BY <1>0, <1>1 DEF TablesGrow, TypeOK, Row
<1>2. ASSUME NEW c \in Calls, CreateAttempt(c) PROVE TablesGrow
  BY <1>0, <1>2 DEF CreateAttempt, TablesGrow, TypeOK, Row
<1>3. ASSUME NEW c \in Calls, Commit(c) PROVE TablesGrow
  <2>1. PICK q \in QuestionIds, v \in Nat :
          /\ questions' = [questions EXCEPT ![q] =
               [state |-> "live", author |-> req[c].user, version |-> v]]
          /\ attempts' = attempts
          /\ \/ questions[q].state = "absent" /\ v = 0
             \/ questions[q].state = "live" /\ v = questions[q].version + 1
    BY <1>3, CommitEffect
  <2>2. req[c].question \in QuestionIds /\ questions'[req[c].question].state = "live"
    BY <1>0, <1>3 DEF Commit, IndInv, LocksFit, Editing, TypeOK
  <2>3. questions[q].state = "absent" => q \notin DefaultQuestions
    <3>1. SUFFICES ASSUME questions[q].state = "absent" PROVE q \notin DefaultQuestions
      OBVIOUS
    <3>2. q = req[c].question
      BY <1>0, <1>3, <2>1, <2>2, <3>1 DEF Commit, TypeOK, Row
    <3>3. req[c].rpc = "CreateQuestion"
      BY <1>3, <3>1, <3>2 DEF Commit, IndInv, RequestsFit, RequestFits, RpcsAt, EditsAreAllowed,
         Editing, Live
    <3> QED
      BY <1>3, <3>2, <3>3 DEF Commit, IndInv, EditsAreAllowed, Editing
  <2>4. questions[q].state = "absent" => questions[q].version = 0
    BY DEF IndInv, UnusedIdsAreNew
  <2> QED
    BY <1>0, <2>1, <2>3, <2>4 DEF TablesGrow, TypeOK, Row
<1>4. ASSUME NEW q \in QuestionIds, SoftDelete(q) PROVE TablesGrow
  BY <1>0, <1>4 DEF SoftDelete, Live, TablesGrow, TypeOK, Row
<1> QED
  BY <1>1, <1>2, <1>3, <1>4, WhatChangesTheTables

(* What a call was told or has read stays true while others go on. *)
LEMMA OthersStand ==
  ASSUME IndInv, TablesGrow, TypeOK', NEW d \in Calls, Stands(d),
         pc'[d] = pc[d], req'[d] = req[d], key'[d] = key[d], prompt'[d] = prompt[d],
         rows'[d] = rows[d], reply'[d] = reply[d]
  PROVE  Stands(d)'
<1>1. RequestFits(d) /\ KeyIsDated(d) /\ TypeOK
  BY DEF IndInv, RequestsFit, KeysAreDated
<1>2. IsKept(d)'
  <2>1. req[d].rpc = "SubmitAnswer" /\ reply[d] = "OK" /\ questions[req[d].question].state = "absent"
          => questions'[req[d].question].state = "absent"
    BY <1>1 DEF RequestFits, KeyIsDated, TablesGrow
  <2> QED
    BY <2>1 DEF Stands, IsKept, TablesGrow
<1>3. GoesForward(d)'
  BY DEF Stands, GoesForward
<1>4. PageFits(d)'
  <2> DEFINE q == req[d].question
  <2>1. CASE req[d].rpc \notin Reading
    BY <2>1 DEF Stands, PageFits
  <2>2. CASE req[d].rpc \in Reading
    <3>1. q \in QuestionIds
      BY <1>1, <2>2 DEF RequestFits, Reading
    <3>2. /\ questions[q].version \in Nat /\ questions'[q].version \in Nat
          /\ questions[q].version <= questions'[q].version
          /\ questions[q].state # "absent" => questions'[q].state # "absent"
      BY <1>1, <3>1 DEF TypeOK, Row, TablesGrow
    <3>3. prompt[d] \in Nat /\ \A x \in rows[d] : x.version \in Nat
      BY <1>1 DEF TypeOK, Choice
    <3> HIDE DEF q
    <3>4. \A v \in {x.version : x \in rows[d]} :
            v <= questions[q].version => v <= questions'[q].version
      BY <3>2, <3>3
    <3>5. prompt[d] <= questions[q].version => prompt[d] <= questions'[q].version
      BY <3>2, <3>3
    <3> QED
      BY <2>2, <3>2, <3>4, <3>5 DEF Stands, PageFits, q
  <2> QED
    BY <2>1, <2>2
<1> QED
  BY <1>2, <1>3, <1>4 DEF Stands

(* A step of one call leaves what the others have been asked, told and read. *)
LEMMA OneCallMoves ==
  ASSUME TypeOK, NEW c \in Calls,
         ClientStep(c) \/ ServerStep(c) \/ Cut(c) \/ StatementFails(c),
         NEW d \in Calls \ {c}
  PROVE  /\ pc'[d] = pc[d] /\ req'[d] = req[d] /\ key'[d] = key[d] /\ prompt'[d] = prompt[d]
         /\ rows'[d] = rows[d] /\ reply'[d] = reply[d]
<1> DEFINE Left == /\ pc'[d] = pc[d] /\ req'[d] = req[d] /\ key'[d] = key[d]
                   /\ prompt'[d] = prompt[d] /\ rows'[d] = rows[d] /\ reply'[d] = reply[d]
<1>1. ASSUME NEW code, Answer(c, code) PROVE pc'[d] = pc[d] /\ reply'[d] = reply[d]
  BY <1>1 DEF Answer, Goto, TypeOK
<1>2. ASSUME NEW phase, Continue(c, phase) PROVE pc'[d] = pc[d] /\ reply'[d] = reply[d]
  BY <1>2 DEF Continue, Goto, TypeOK
<1>3. CASE ClientStep(c)
  <2>1. PICK r, p : Start(c, r, p)
    BY <1>3 DEF ClientStep, StartSubmitAnswer, StartCreateQuestion, StartUpdateQuestion,
       StartGetQuestion, StartGetMyQuestion
  <2> QED
    BY <1>2, <2>1 DEF Start, local, TypeOK
<1>4. CASE Cut(c) \/ StatementFails(c)
  BY <1>4 DEF Cut, StatementFails, Goto, local, TypeOK
<1>5. CASE ReadKeyForAnswer(c) \/ ReadKeyForEdit(c)
  BY <1>1, <1>2, <1>5 DEF ReadKeyForAnswer, ReadKeyForEdit, TypeOK
<1>6. CASE ReadRow(c) \/ ListChoices(c)
  BY <1>1, <1>2, <1>6 DEF ReadRow, ListChoices, TypeOK
<1>7. CASE ChoiceBelongsToQuestion(c) \/ EnsureUserExists(c) \/ CreateAttempt(c)
           \/ GetQuestionAuthor(c) \/ Begin(c) \/ InsertChoicesAndAnswerKey(c) \/ Commit(c)
  BY <1>1, <1>2, <1>7 DEF ChoiceBelongsToQuestion, EnsureUserExists, CreateAttempt,
     GetQuestionAuthor, Begin, InsertChoicesAndAnswerKey, Commit, local
<1>8. CASE UpdateRow(c) \/ DeleteChoices(c)
  BY <1>1, <1>2, <1>8 DEF UpdateRow, DeleteChoices, Rollback, local
<1>9. CASE InsertQuestion(c)
  BY <1>2, <1>9 DEF InsertQuestion, local, TypeOK
<1> QED
  BY <1>3, <1>4, <1>5, <1>6, <1>7, <1>8, <1>9 DEF ServerStep

----------------------------------------------------------------------------
(* The call that moves *)

(* A call of another kind, or one whose client is told anything but success,
   has nothing to stand by. *)
LEMMA NothingToStandBy ==
  ASSUME NEW c \in Calls,
         \/ req'[c].rpc \in {"CreateQuestion", "UpdateQuestion"} /\ pc'[c] \notin {"idle", "readRow"}
         \/ reply'[c] # "OK" /\ pc'[c] \in {"done", "belongs", "ensureUser", "insertAttempt"}
         \/ reply'[c] # "OK" /\ pc'[c] = "readKey" /\ req'[c].rpc = "SubmitAnswer"
  PROVE  Stands(c)'
BY DEF Stands, IsKept, GoesForward, PageFits, Reading

LEMMA StartStands ==
  ASSUME IndInv, NEW c \in Calls, Stands(c), ClientStep(c)
  PROVE  Stands(c)'
<1>0. TypeOK /\ RequestFits(c)
  BY DEF IndInv, RequestsFit
<1>1. ASSUME NEW r, NEW p, Start(c, r, p), p # "idle",
             \/ r.rpc \in {"CreateQuestion", "UpdateQuestion"} /\ p # "readRow"
             \/ r.rpc = "SubmitAnswer" /\ p = "readKey"
             \/ p = "readRow"
      PROVE  Stands(c)'
  <2>1. /\ pc[c] = "idle" /\ pc'[c] = p /\ req'[c] = r /\ reply' = reply /\ prompt' = prompt
    BY <1>0, <1>1 DEF Start, Continue, Goto, TypeOK, local
  <2>2. reply[c] = "none" /\ prompt[c] = 0
    BY <1>0, <2>1 DEF RequestFits, Stands, PageFits
  <2>3. IsKept(c)' /\ GoesForward(c)'
    BY <2>1, <2>2 DEF IsKept, GoesForward
  <2>4. PageFits(c)'
    BY <1>1, <2>1, <2>2 DEF PageFits, Reading
  <2> QED
    BY <2>3, <2>4 DEF Stands
<1> QED
  BY <1>1 DEF ClientStep, StartSubmitAnswer, StartCreateQuestion, StartUpdateQuestion,
     StartGetQuestion, StartGetMyQuestion, Request

LEMMA LossStands ==
  ASSUME IndInv, NEW c \in Calls, Cut(c) \/ StatementFails(c)
  PROVE  Stands(c)'
<1>1. TypeOK
  BY DEF IndInv
<1>2. pc'[c] = "done" /\ reply'[c] # "OK"
  BY <1>1, OutageCodes DEF Cut, StatementFails, Goto, TypeOK
<1> QED
  BY <1>2, NothingToStandBy

(* SubmitAnswer: success without a row is said only to a player without an
   account, or of a question that is not stored. *)
LEMMA AnsweringStands ==
  ASSUME IndInv, NEW c \in Calls, req[c].rpc = "SubmitAnswer",
         ReadKeyForAnswer(c) \/ ChoiceBelongsToQuestion(c) \/ EnsureUserExists(c) \/ CreateAttempt(c)
  PROVE  Stands(c)'
<1>0. TypeOK /\ RequestFits(c)
  BY DEF IndInv, RequestsFit
<1>1. req' = req
  BY DEF ReadKeyForAnswer, ChoiceBelongsToQuestion, EnsureUserExists, CreateAttempt
<1>2. pc[c] # "done" /\ reply[c] = "none"
  BY <1>0 DEF RequestFits, ReadKeyForAnswer, ChoiceBelongsToQuestion, EnsureUserExists,
     CreateAttempt, Query
<1>3. ASSUME NEW code \in Codes, Answer(c, code), code = "OK" => IsKept(c)'
      PROVE  Stands(c)'
  <2>1. pc'[c] = "done" /\ reply'[c] \in {code, "Lost"}
    BY <1>0, <1>3, AnswerEffect
  <2>2. CASE reply'[c] # "OK"
    BY <2>1, <2>2, NothingToStandBy
  <2>3. CASE reply'[c] = "OK"
    BY <1>1, <1>3, <2>1, <2>3 DEF Stands, GoesForward, PageFits, Reading
  <2> QED
    BY <2>2, <2>3
<1>4. ASSUME NEW p \in {"belongs", "ensureUser", "insertAttempt"}, Continue(c, p)
      PROVE  Stands(c)'
  <2>1. pc'[c] = p /\ reply'[c] = "none"
    BY <1>0, <1>2, <1>4 DEF Continue, Goto, TypeOK
  <2> QED
    BY <2>1, NothingToStandBy
<1>5. CASE ReadKeyForAnswer(c)
  <2>1. answerKey[req[c].question] = NoChoice => IsKept(c)'
    <3>1. req[c].question \in QuestionIds
      BY <1>0 DEF RequestFits
    <3>2. answerKey[req[c].question] = NoChoice => questions[req[c].question].state = "absent"
      BY <1>0, <3>1, SentinelsAssumption DEF IndInv, ContentIsOneVersion, ChoicesOf, TypeOK
    <3> QED
      BY <1>1, <1>5, <3>2 DEF ReadKeyForAnswer, tables, IsKept
  <2> QED
    BY <1>3, <1>4, <1>5, <2>1 DEF ReadKeyForAnswer, Codes
<1>6. CASE ChoiceBelongsToQuestion(c)
  <2>1. req[c].user = Anonymous => IsKept(c)'
    BY <1>1 DEF IsKept
  <2> QED
    BY <1>3, <1>4, <1>6, <2>1 DEF ChoiceBelongsToQuestion, Codes
<1>7. CASE EnsureUserExists(c)
  BY <1>4, <1>7 DEF EnsureUserExists, AfterEnsureUser
<1>8. CASE CreateAttempt(c)
  <2>1. ASSUME attempts' = attempts \cup
                 {[call |-> c, user |-> req[c].user, question |-> req[c].question,
                   choice |-> req[c].choice, isCorrect |-> IsCorrect(c)]}
        PROVE  IsKept(c)'
    <3> DEFINE a == [call |-> c, user |-> req[c].user, question |-> req[c].question,
                     choice |-> req[c].choice, isCorrect |-> IsCorrect(c)]
    <3>1. a \in attempts' /\ a.call = c /\ a.user = req[c].user /\ a.choice = req[c].choice
      BY <2>1
    <3>2. a.isCorrect <=> req[c].choice = key[c]
      BY DEF IsCorrect
    <3>3. key' = key
      BY <1>8 DEF CreateAttempt, local
    <3> HIDE DEF a
    <3> QED
      BY <1>1, <3>1, <3>2, <3>3 DEF IsKept
  <2> QED
    BY <1>3, <1>8, <2>1 DEF CreateAttempt, Codes
<1> QED
  BY <1>5, <1>6, <1>7, <1>8

\* The rows of one transaction have its version, and there is one.
LEMMA OneVersion ==
  ASSUME NEW q \in QuestionIds, NEW v \in Nat
  PROVE  {x.version : x \in Batch(q, v)} = {v}
<1>1. [question |-> q, version |-> v, ordinal |-> 0] \in Batch(q, v)
  BY ConstantsAssumption DEF Batch, Ordinals
<1>2. \A x \in Batch(q, v) : x.version = v
  BY DEF Batch
<1> QED
  BY <1>1, <1>2

(* GetQuestion and GetMyQuestion: every statement reads what is committed then,
   which is one version and no older than what was read before. *)
LEMMA ReadRowStands ==
  ASSUME IndInv, NEW c \in Calls, Stands(c), ReadRow(c)
  PROVE  Stands(c)'
<1> DEFINE q == req[c].question
<1>0. TypeOK /\ RequestFits(c)
  BY DEF IndInv, RequestsFit
<1>1. /\ pc[c] = "readRow" /\ req[c].rpc \in Reading /\ reply[c] = "none" /\ prompt[c] = 0
      /\ q \in QuestionIds /\ req' = req /\ questions' = questions
  BY <1>0 DEF ReadRow, Query, RequestFits, RpcsAt, Reading, Stands, PageFits, tables
<1>2. CASE Live(q) /\ prompt' = [prompt EXCEPT ![c] = questions[q].version] /\ Continue(c, "readChoices")
  <2>1. pc'[c] = "readChoices" /\ reply'[c] = "none" /\ prompt'[c] = questions[q].version
    BY <1>0, <1>1, <1>2 DEF Continue, Goto, TypeOK
  <2>2. questions[q].state = "live" /\ questions[q].version \in Nat
    BY <1>0, <1>1, <1>2 DEF Live, TypeOK, Row
  <2>3. PageFits(c)'
    BY <1>1, <2>1, <2>2 DEF PageFits
  <2> QED
    BY <1>1, <2>1, <2>3 DEF Stands, IsKept, GoesForward
<1>3. CASE Answer(c, "NotFound")
  <2>1. pc'[c] = "done" /\ reply'[c] # "OK"
    BY <1>0, <1>3, AnswerEffect DEF Codes
  <2> QED
    BY <2>1, NothingToStandBy
<1>4. ASSUME NEW d \in DefaultQuestions, rows' = [rows EXCEPT ![c] = Batch(d, 0)],
             Answer(c, "OK"), prompt' = prompt, req[c].rpc = "GetQuestion"
      PROVE  Stands(c)'
  <2>1. d \in QuestionIds
    BY ConstantsAssumption
  <2>2. rows'[c] = Batch(d, 0) /\ prompt'[c] = 0
    BY <1>0, <1>1, <1>4 DEF TypeOK
  <2>3. 0 \in {x.version : x \in rows'[c]}
    BY <2>1, <2>2, OneVersion
  <2>4. GoesForward(c)'
    BY <1>1, <1>4, <2>1, <2>2, <2>3 DEF GoesForward
  <2>5. pc'[c] = "done"
    BY <1>0, <1>4, AnswerEffect DEF Codes
  <2> QED
    BY <1>1, <1>4, <2>4, <2>5 DEF Stands, IsKept, PageFits
<1> QED
  BY <1>2, <1>3, <1>4 DEF ReadRow

LEMMA ListChoicesStands ==
  ASSUME IndInv, NEW c \in Calls, Stands(c), ListChoices(c)
  PROVE  Stands(c)'
<1> DEFINE q == req[c].question
           v == questions[q].version
<1>0. TypeOK /\ RequestFits(c)
  BY DEF IndInv, RequestsFit
<1>1. /\ pc[c] = "readChoices" /\ req[c].rpc \in Reading /\ reply[c] = "none"
      /\ q \in QuestionIds /\ req' = req /\ questions' = questions /\ prompt' = prompt
      /\ questions[q].state # "absent" /\ prompt[c] <= v
  <2>1. /\ pc[c] = "readChoices" /\ req' = req /\ questions' = questions /\ prompt' = prompt
    BY DEF ListChoices, Query, tables
  <2>2. req[c].rpc \in Reading /\ reply[c] = "none" /\ q \in QuestionIds
    BY <1>0, <2>1 DEF RequestFits, RpcsAt, Reading
  <2>3. questions[q].state # "absent" /\ prompt[c] <= v
    BY <2>1, <2>2 DEF Stands, PageFits
  <2> QED
    BY <2>1, <2>2, <2>3
<1>2. v \in Nat
  BY <1>0, <1>1 DEF TypeOK, Row
<1>3. rows'[c] = Batch(q, v)
  BY <1>0, <1>1 DEF ListChoices, IndInv, ContentIsOneVersion, TypeOK
<1>4. v \in {x.version : x \in rows'[c]}
  <2>1. {x.version : x \in Batch(q, v)} = {v}
    BY <1>1, <1>2, OneVersion
  <2> QED
    BY <1>3, <2>1
<1>5. CASE req[c].rpc = "GetQuestion" /\ Answer(c, "OK")
  <2>1. GoesForward(c)'
    BY <1>1, <1>3, <1>4, <1>5 DEF GoesForward
  <2>2. pc'[c] = "done"
    BY <1>0, <1>5, AnswerEffect DEF Codes
  <2> QED
    BY <1>1, <1>5, <2>1, <2>2 DEF Stands, IsKept, PageFits
<1>6. CASE req[c].rpc = "GetMyQuestion" /\ Continue(c, "readKey")
  <2>1. pc'[c] = "readKey" /\ reply'[c] = "none"
    BY <1>0, <1>1, <1>6 DEF Continue, Goto, TypeOK
  <2>2. v <= v
    BY <1>2
  <2>3. PageFits(c)'
    BY <1>1, <1>3, <1>4, <2>1, <2>2 DEF PageFits
  <2> QED
    BY <1>1, <2>1, <2>3 DEF Stands, IsKept, GoesForward
<1> QED
  BY <1>5, <1>6 DEF ListChoices

LEMMA ReadKeyForEditStands ==
  ASSUME IndInv, NEW c \in Calls, Stands(c), ReadKeyForEdit(c)
  PROVE  Stands(c)'
<1> DEFINE q == req[c].question
           v == questions[q].version
<1>0. TypeOK /\ RequestFits(c)
  BY DEF IndInv, RequestsFit
<1>1. /\ pc[c] = "readKey" /\ req[c].rpc = "GetMyQuestion"
      /\ q \in QuestionIds /\ req' = req /\ questions' = questions
      /\ prompt' = prompt /\ rows' = rows
      /\ questions[q].state # "absent"
  BY <1>0 DEF ReadKeyForEdit, Query, RequestFits, Reading, Stands, PageFits, tables
<1>2. PICK w \in {x.version : x \in rows[c]} : rows[c] = Batch(q, w) /\ prompt[c] <= w /\ w <= v
  BY <1>1 DEF Stands, PageFits, Reading
<1>3. key'[c] \in Batch(q, v)
  <2>1. answerKey[q] \in Batch(q, v)
    BY <1>1 DEF IndInv, ContentIsOneVersion
  <2> QED
    BY <1>0, <2>1 DEF ReadKeyForEdit, TypeOK
<1>4. key'[c].question = q /\ key'[c].version = v
  BY <1>3 DEF Batch
<1>5. \A x \in rows[c] : x.version = w
  BY <1>2 DEF Batch
<1>6. GoesForward(c)'
  BY <1>1, <1>2, <1>4, <1>5 DEF GoesForward
<1>7. pc'[c] = "done"
  BY <1>0, AnswerEffect DEF ReadKeyForEdit, Codes
<1> QED
  BY <1>1, <1>6, <1>7 DEF Stands, IsKept, PageFits

(* CreateQuestion and UpdateQuestion tell nobody an answer or a page. *)
LEMMA WritingStands ==
  ASSUME IndInv, NEW c \in Calls, ServerStep(c), req[c].rpc \in {"CreateQuestion", "UpdateQuestion"}
  PROVE  Stands(c)'
<1>0. TypeOK /\ RequestFits(c)
  BY DEF IndInv, RequestsFit
<1>1. req'[c].rpc = req[c].rpc
  <2>1. CASE InsertQuestion(c)
    BY <1>0, <2>1 DEF InsertQuestion, TypeOK, RequestSet
  <2>2. CASE ~InsertQuestion(c)
    BY <2>2 DEF ServerStep, ReadKeyForAnswer, ChoiceBelongsToQuestion, EnsureUserExists,
       CreateAttempt, GetQuestionAuthor, Begin, UpdateRow, DeleteChoices, Rollback,
       InsertChoicesAndAnswerKey, Commit, ReadRow, ListChoices, ReadKeyForEdit
  <2> QED
    BY <2>1, <2>2
<1>2. \/ \E code : Answer(c, code)
      \/ \E p : Continue(c, p) /\ p \notin {"idle", "readRow"}
  BY <1>0 DEF RequestFits, RpcsAt, ServerStep, ReadKeyForAnswer, ChoiceBelongsToQuestion,
     EnsureUserExists, AfterEnsureUser, CreateAttempt, GetQuestionAuthor, Begin, InsertQuestion,
     UpdateRow, DeleteChoices, Rollback, InsertChoicesAndAnswerKey, Commit, ReadRow, ListChoices,
     ReadKeyForEdit, Query
<1>3. pc'[c] \notin {"idle", "readRow"}
  BY <1>0, <1>2 DEF Answer, Continue, Goto, TypeOK
<1> QED
  BY <1>1, <1>3, NothingToStandBy

LEMMA NextStands ==
  ASSUME IndInv, RepliesStand, [Next]_vars
  PROVE  RepliesStand'
<1>0. TypeOK /\ TypeOK' /\ TablesGrow /\ RequestsFit
  BY NextKeeps, TablesOnlyGrow DEF IndInv
<1>1. CASE UNCHANGED vars
  BY <1>1 DEF vars, tables, local, RepliesStand, Stands, IsKept, GoesForward, PageFits
<1>2. ASSUME NEW c \in Calls, ClientStep(c) \/ ServerStep(c) \/ Cut(c) \/ StatementFails(c)
      PROVE  RepliesStand'
  <2>1. Stands(c)'
    <3>1. Stands(c) /\ RequestFits(c)
      BY <1>0 DEF RepliesStand, RequestsFit
    <3>2. CASE ClientStep(c)
      BY <3>1, <3>2, StartStands
    <3>3. CASE Cut(c) \/ StatementFails(c)
      BY <3>3, LossStands
    <3>4. CASE ServerStep(c)
      <4>1. CASE req[c].rpc \in {"CreateQuestion", "UpdateQuestion"}
        BY <3>4, <4>1, WritingStands
      <4>2. CASE req[c].rpc = "SubmitAnswer"
        <5>1. ReadKeyForAnswer(c) \/ ChoiceBelongsToQuestion(c) \/ EnsureUserExists(c) \/ CreateAttempt(c)
          BY <3>1, <3>4, <4>2 DEF ServerStep, RequestFits, RpcsAt, GetQuestionAuthor, Begin,
             InsertQuestion, UpdateRow, DeleteChoices, InsertChoicesAndAnswerKey, Commit, ReadRow,
             ListChoices, ReadKeyForEdit, Query
        <5> QED
          BY <4>2, <5>1, AnsweringStands
      <4>3. CASE req[c].rpc \in Reading
        <5>1. ReadRow(c) \/ ListChoices(c) \/ ReadKeyForEdit(c)
          BY <3>1, <3>4, <4>3 DEF ServerStep, RequestFits, RpcsAt, ReadKeyForAnswer,
             ChoiceBelongsToQuestion, EnsureUserExists, CreateAttempt, GetQuestionAuthor, Begin,
             InsertQuestion, UpdateRow, DeleteChoices, InsertChoicesAndAnswerKey, Commit, Query, Reading
        <5> QED
          BY <3>1, <5>1, ReadRowStands, ListChoicesStands, ReadKeyForEditStands
      <4>4. req[c].rpc # "none"
        BY <3>1, <3>4 DEF ServerStep, RequestFits, RpcsAt, ReadKeyForAnswer,
           ChoiceBelongsToQuestion, EnsureUserExists, CreateAttempt, GetQuestionAuthor, Begin,
           InsertQuestion, UpdateRow, DeleteChoices, InsertChoicesAndAnswerKey, Commit, ReadRow,
           ListChoices, ReadKeyForEdit, Query
      <4> QED
        BY <1>0, <4>1, <4>2, <4>3, <4>4 DEF TypeOK, RequestSet, Rpcs, Reading
    <3> QED
      BY <1>2, <3>2, <3>3, <3>4
  <2>2. ASSUME NEW d \in Calls \ {c} PROVE Stands(d)'
    <3>1. Stands(d)
      BY DEF RepliesStand
    <3> QED
      BY <1>0, <1>2, <3>1, OneCallMoves, OthersStand
  <2> QED
    BY <2>1, <2>2 DEF RepliesStand
<1>3. ASSUME NEW q \in QuestionIds, SoftDelete(q) PROVE RepliesStand'
  <2> SUFFICES ASSUME NEW d \in Calls PROVE Stands(d)'
    BY DEF RepliesStand
  <2>1. Stands(d) /\ UNCHANGED <<pc, req, key, prompt, rows, reply>>
    BY <1>3 DEF RepliesStand, SoftDelete, local
  <2> QED
    BY <1>0, <2>1, OthersStand
<1> QED
  BY <1>1, <1>2, <1>3 DEF Next

LEMMA AlwaysStand == Spec => []RepliesStand
<1>1. Init => RepliesStand
  BY DEF Init, RepliesStand, Stands, IsKept, GoesForward, PageFits, NoRequest, Request, Reading
<1>2. IndInv /\ RepliesStand /\ [Next]_vars => RepliesStand'
  BY NextStands
<1> QED
  BY <1>1, <1>2, InductiveInvariant, PTL DEF Spec

----------------------------------------------------------------------------
(* The theorems *)

(* SubmitAnswer: whoever was told a verdict on a stored question while logged in
   has it in the history, as it was told, from then on. *)
THEOREM AnswersAreKept == Spec => []AcknowledgedAnswersAreKept
<1>1. RepliesStand => AcknowledgedAnswersAreKept
  BY DEF RepliesStand, Stands, IsKept, AcknowledgedAnswersAreKept
<1> QED
  BY <1>1, AlwaysStand, PTL

(* GetQuestion and GetMyQuestion: a page read in several statements shows one
   version of the choices, no older than the prompt and no newer than the key. *)
THEOREM PagesGoForward == Spec => []PagesDoNotGoBack
<1>1. RepliesStand => PagesDoNotGoBack
  BY DEF RepliesStand, Stands, GoesForward, PagesDoNotGoBack, Reading
<1> QED
  BY <1>1, AlwaysStand, PTL

----------------------------------------------------------------------------
(* Second part: the My Page *)

HIDE SentinelsAssumption
HIDE ConstantsAssumption

(* No step of the page touches what the store's invariant speaks of. *)
LEMMA PageStepsLeaveTheStore ==
  ASSUME NEW l \in Loads, Open(l) \/ LoaderStep(l) \/ LoadFails(l)
  PROVE  UNCHANGED vars
BY DEF Open, LoaderStep, LoadFails, ListMyAttempts, GetMyStats, ListMyQuestions, Show, Got

(* A step of the composition is one of the store, or leaves it alone. *)
LEMMA StepOfTheStore == [PageNext]_allVars => [Next]_vars
BY PageStepsLeaveTheStore DEF PageNext, allVars

(* The store stays consistent, whatever pages are loaded meanwhile. *)
THEOREM StoreStaysConsistent == PageSpec => []IndInv
<1>1. PageInit => IndInv
  BY InitEstablishes DEF PageInit
<1>2. IndInv /\ [PageNext]_allVars => IndInv'
  BY NextKeeps, StepOfTheStore
<1> QED
  BY <1>1, <1>2, PTL DEF PageSpec

(* Reading the page beside the calls does not make the store less of a ledger. *)
THEOREM PagesLeaveTheLedger == PageSpec => ImplementsLedger
<1>1. IndInv /\ [PageNext]_allVars => [Ledger!Next]_(Ledger!vars)
  BY StepOfTheLedger, StepOfTheStore
<1>2. PageInit => Ledger!Init
  BY InitOfTheLedger DEF PageInit
<1> QED
  BY <1>1, <1>2, StoreStaysConsistent, PTL DEF PageSpec, ImplementsLedger, Ledger!Spec

----------------------------------------------------------------------------
(* The history *)

(* The prompt a question has now is the one its recorded answers were given to:
   the row of the chosen choice is still there, and the rows that are there
   are of the question's version. *)
LEMMA AnswersAreToTheCurrentText ==
  ASSUME IndInv, NEW a \in attempts
  PROVE  questions[a.question].version = a.choice.version
<1>1. /\ a.question \in QuestionIds /\ a.choice \in ChoicesOf(a.question)
  BY DEF IndInv, TypeOK, Attempt, StoredVerdictsStand
<1>2. ChoicesOf(a.question) = Batch(a.question, questions[a.question].version)
  BY <1>1 DEF IndInv, ContentIsOneVersion
<1>3. questions[a.question].version \in Nat
  BY <1>1 DEF IndInv, TypeOK, Row
<1> QED
  BY <1>1, <1>2, <1>3 DEF Batch

(* The rows a visit is given show the text their answers were given to. *)
LEMMA GivenRowsFit ==
  ASSUME IndInv, NEW L \in SUBSET attempts, NEW r \in WithPrompt(L)
  PROVE  r.version = r.attempt.choice.version
BY AnswersAreToTheCurrentText DEF WithPrompt

Fields == DOMAIN NoPage

(* What a visit is made of, and that one nobody has opened has no answers. *)
VisitsFit ==
  /\ DOMAIN page = Loads /\ DOMAIN asked = Loads
  /\ \A l \in Loads : /\ DOMAIN page[l] = Fields
                      /\ page[l].at = "none" => page[l].got = {}

(* Answers are only ever added, so what had been given when a visit began is
   still there when its statistics are counted. *)
AskedIsKept == \A l \in Loads : asked[l].attempts \subseteq attempts

PageInv == VisitsFit /\ AskedIsKept /\ HistoryShowsWhatWasAnswered /\ StatsAreOfOneMoment

(* The fields by name. *)
LEMMA FieldsAre ==
  Fields = {"at", "user", "got", "attempts", "total", "correct", "questions"}
BY DEF Fields, NoPage

(* Only CreateAttempt changes the attempts, and it adds one. *)
LEMMA AttemptsGrow == [Next]_vars => attempts \subseteq attempts'
<1> SUFFICES ASSUME [Next]_vars PROVE attempts \subseteq attempts'
  OBVIOUS
<1>1. CASE UNCHANGED attempts
  BY <1>1
<1>2. ASSUME NEW c \in Calls, CreateAttempt(c) PROVE attempts \subseteq attempts'
  BY <1>2 DEF CreateAttempt
<1>3. ASSUME NEW c \in Calls, Commit(c) PROVE UNCHANGED attempts
  BY <1>3 DEF Commit
<1>4. ASSUME NEW q \in QuestionIds, SoftDelete(q) PROVE UNCHANGED attempts
  BY <1>4 DEF SoftDelete
<1> QED
  BY <1>1, <1>2, <1>3, <1>4, WhatChangesTheTables

(* Statistics of one moment stay so while answers are added. *)
LEMMA StatsStay ==
  ASSUME AskedIsKept, StatsAreOfOneMoment, NEW l \in Loads, "stats" \in page[l].got,
         attempts \subseteq attempts',
         page'[l].user = page[l].user, page'[l].total = page[l].total,
         page'[l].correct = page[l].correct, asked'[l] = asked[l]
  PROVE  LET before == AttemptsOf(page'[l].user, asked'[l].attempts) IN
         \E new \in SUBSET (AttemptsOf(page'[l].user, attempts') \ before) :
           /\ page'[l].total = Cardinality(before \cup new)
           /\ page'[l].correct = Cardinality(Right(before \cup new))
<1> DEFINE before == AttemptsOf(page[l].user, asked[l].attempts)
<1>1. PICK new \in SUBSET (AttemptsOf(page[l].user, attempts) \ before) :
        /\ page[l].total = Cardinality(before \cup new)
        /\ page[l].correct = Cardinality(Right(before \cup new))
  BY DEF StatsAreOfOneMoment
<1>2. new \in SUBSET (AttemptsOf(page[l].user, attempts') \ before)
  BY <1>1 DEF AttemptsOf
<1> QED
  BY <1>1, <1>2

(* A step that leaves the visits alone keeps what was said of them. *)
LEMMA StoreStepKeeps ==
  ASSUME PageInv, [Next]_vars, UNCHANGED pageVars
  PROVE  PageInv'
<1>1. attempts \subseteq attempts' /\ page' = page /\ asked' = asked
  BY AttemptsGrow DEF pageVars
<1>2. VisitsFit' /\ AskedIsKept' /\ HistoryShowsWhatWasAnswered'
  BY <1>1 DEF PageInv, VisitsFit, AskedIsKept, HistoryShowsWhatWasAnswered
<1>3. StatsAreOfOneMoment'
  <2> SUFFICES ASSUME NEW l \in Loads, "stats" \in page[l].got
               PROVE  \E new \in SUBSET (AttemptsOf(page'[l].user, attempts')
                                          \ AttemptsOf(page'[l].user, asked'[l].attempts)) :
                        /\ page'[l].total =
                             Cardinality(AttemptsOf(page'[l].user, asked'[l].attempts) \cup new)
                        /\ page'[l].correct =
                             Cardinality(Right(AttemptsOf(page'[l].user, asked'[l].attempts) \cup new))
    BY <1>1 DEF StatsAreOfOneMoment
  <2> QED
    BY <1>1, StatsStay DEF PageInv
<1> QED
  BY <1>2, <1>3 DEF PageInv

(* What a step of one visit has to show: the other visits are as they were. *)
StatsFit(p, then) ==
  LET before == AttemptsOf(p.user, then.attempts) IN
  \E new \in SUBSET (AttemptsOf(p.user, attempts) \ before) :
    /\ p.total = Cardinality(before \cup new)
    /\ p.correct = Cardinality(Right(before \cup new))

VisitFits(p, then) ==
  /\ DOMAIN p = Fields
  /\ p.at = "none" => p.got = {}
  /\ then.attempts \subseteq attempts
  /\ \A r \in p.attempts : r.version = r.attempt.choice.version
  /\ "stats" \in p.got => StatsFit(p, then)

(* The invariant is that every visit fits. *)
LEMMA PageInvIs ==
  PageInv <=> /\ DOMAIN page = Loads /\ DOMAIN asked = Loads
              /\ \A l \in Loads : VisitFits(page[l], asked[l])
BY DEF PageInv, VisitsFit, AskedIsKept, HistoryShowsWhatWasAnswered, StatsAreOfOneMoment,
       VisitFits, StatsFit

(* One visit goes on, the others do not, and the store does not either. *)
LEMMA VisitStep ==
  ASSUME PageInv, NEW l \in Loads, NEW p, NEW then,
         page' = [page EXCEPT ![l] = p], UNCHANGED vars,
         (asked' = asked /\ then = asked[l]) \/ asked' = [asked EXCEPT ![l] = then],
         VisitFits(p, then)
  PROVE  PageInv'
<1>1. /\ DOMAIN page = Loads /\ DOMAIN asked = Loads
      /\ \A m \in Loads : VisitFits(page[m], asked[m])
  BY PageInvIs
<1>2. attempts' = attempts
  BY DEF vars, tables
<1>3. /\ DOMAIN page' = Loads /\ page'[l] = p
      /\ \A m \in Loads \ {l} : page'[m] = page[m]
  BY <1>1
<1>4. /\ DOMAIN asked' = Loads /\ asked'[l] = then
      /\ \A m \in Loads \ {l} : asked'[m] = asked[m]
  <2>1. CASE asked' = asked /\ then = asked[l]
    BY <1>1, <2>1
  <2>2. CASE asked' = [asked EXCEPT ![l] = then]
    BY <1>1, <2>2
  <2> QED
    BY <2>1, <2>2
<1>5. ASSUME NEW m \in Loads PROVE VisitFits(page[m], asked[m])'
  <2>1. CASE m = l
    BY <1>2, <1>3, <1>4, <2>1 DEF VisitFits, StatsFit
  <2>2. CASE m # l
    <3>1. VisitFits(page[m], asked[m]) /\ page'[m] = page[m] /\ asked'[m] = asked[m]
      BY <1>1, <1>3, <1>4, <2>2
    <3> QED
      BY <1>2, <3>1 DEF VisitFits, StatsFit
  <2> QED
    BY <2>1, <2>2
<1> QED
  BY <1>3, <1>4, <1>5 DEF PageInv, VisitsFit, AskedIsKept, HistoryShowsWhatWasAnswered,
                    StatsAreOfOneMoment, VisitFits, StatsFit

(* Opening the page: nothing has been answered. *)
LEMMA OpenKeeps ==
  ASSUME PageInv, NEW l \in Loads, Open(l)
  PROVE  PageInv'
<1>1. PICK u \in Users : page' = [page EXCEPT ![l].at = "loading", ![l].user = u]
  BY DEF Open
<1> DEFINE p == [page[l] EXCEPT !.at = "loading", !.user = u]
           then == [attempts |-> attempts, questions |-> questions]
<1>2. VisitFits(page[l], asked[l]) /\ page[l].at = "none" /\ DOMAIN page = Loads
  BY PageInvIs DEF Open
<1>3. /\ DOMAIN p = Fields /\ p.at = "loading"
      /\ p.got = page[l].got /\ p.attempts = page[l].attempts
  BY <1>2, FieldsAre DEF VisitFits
<1>4. VisitFits(p, then)
  BY <1>2, <1>3 DEF VisitFits
<1>5. page' = [page EXCEPT ![l] = p]
  BY <1>1
<1>6. asked' = [asked EXCEPT ![l] = then] /\ UNCHANGED vars
  BY DEF Open
<1> QED
  BY <1>4, <1>5, <1>6, VisitStep

(* The history arrives. *)
LEMMA ListMyAttemptsKeeps ==
  ASSUME IndInv, PageInv, NEW l \in Loads, ListMyAttempts(l)
  PROVE  PageInv'
<1>1. PICK L \in SUBSET AttemptsOf(page[l].user, attempts) :
        Got(l, "attempts", [page[l] EXCEPT !.attempts = WithPrompt(L)])
  BY DEF ListMyAttempts
<1> DEFINE p == [[page[l] EXCEPT !.attempts = WithPrompt(L)] EXCEPT !.got = @ \cup {"attempts"}]
<1>2. VisitFits(page[l], asked[l]) /\ page[l].at = "loading" /\ DOMAIN page = Loads
  BY PageInvIs DEF ListMyAttempts, Asks
<1>3. /\ DOMAIN p = Fields /\ p.at = page[l].at /\ p.user = page[l].user
      /\ p.total = page[l].total /\ p.correct = page[l].correct
      /\ p.got = page[l].got \cup {"attempts"} /\ p.attempts = WithPrompt(L)
  BY <1>2, FieldsAre DEF VisitFits
<1>4. \A r \in WithPrompt(L) : r.version = r.attempt.choice.version
  BY GivenRowsFit DEF AttemptsOf
<1>5. VisitFits(p, asked[l])
  BY <1>2, <1>3, <1>4 DEF VisitFits, StatsFit
<1>6. page' = [page EXCEPT ![l] = p] /\ UNCHANGED <<vars, asked>>
  BY <1>1 DEF Got
<1> QED
  BY <1>5, <1>6, VisitStep

(* The statistics arrive: all of what the player has been recorded with, hence
   what there was when the visit began and what has come since. *)
LEMMA GetMyStatsKeeps ==
  ASSUME PageInv, NEW l \in Loads, GetMyStats(l)
  PROVE  PageInv'
<1> DEFINE R == AttemptsOf(page[l].user, attempts)
           before == AttemptsOf(page[l].user, asked[l].attempts)
           p == [[page[l] EXCEPT !.total = Cardinality(R), !.correct = Cardinality(Right(R))]
                   EXCEPT !.got = @ \cup {"stats"}]
<1>1. page' = [page EXCEPT ![l] = p] /\ UNCHANGED <<vars, asked>>
  BY DEF GetMyStats, Got
<1>2. VisitFits(page[l], asked[l]) /\ page[l].at = "loading"
  BY PageInvIs DEF GetMyStats, Asks
<1>3. /\ DOMAIN p = Fields /\ p.at = page[l].at /\ p.user = page[l].user
      /\ p.total = Cardinality(R) /\ p.correct = Cardinality(Right(R))
      /\ p.attempts = page[l].attempts
  BY <1>2, FieldsAre DEF VisitFits
<1>4. before \cup (R \ before) = R /\ R \ before \in SUBSET (R \ before)
  BY <1>2 DEF VisitFits, AttemptsOf
<1>5. StatsFit(p, asked[l])
  BY <1>3, <1>4 DEF StatsFit
<1>6. VisitFits(p, asked[l])
  BY <1>2, <1>3, <1>5 DEF VisitFits
<1> QED
  BY <1>1, <1>6, VisitStep

(* The list of questions arrives. *)
LEMMA ListMyQuestionsKeeps ==
  ASSUME PageInv, NEW l \in Loads, ListMyQuestions(l)
  PROVE  PageInv'
<1>1. PICK Q : Got(l, "questions", [page[l] EXCEPT !.questions = Q])
  BY DEF ListMyQuestions
<1> DEFINE p == [[page[l] EXCEPT !.questions = Q] EXCEPT !.got = @ \cup {"questions"}]
<1>2. VisitFits(page[l], asked[l]) /\ page[l].at = "loading"
  BY PageInvIs DEF ListMyQuestions, Asks
<1>3. /\ DOMAIN p = Fields /\ p.at = page[l].at /\ p.user = page[l].user
      /\ p.total = page[l].total /\ p.correct = page[l].correct
      /\ p.got = page[l].got \cup {"questions"} /\ p.attempts = page[l].attempts
  BY <1>2, FieldsAre DEF VisitFits
<1>4. VisitFits(p, asked[l])
  BY <1>2, <1>3 DEF VisitFits, StatsFit
<1>5. page' = [page EXCEPT ![l] = p] /\ UNCHANGED <<vars, asked>>
  BY <1>1 DEF Got
<1> QED
  BY <1>4, <1>5, VisitStep

(* The page is shown, with what has arrived. *)
LEMMA ShowKeeps ==
  ASSUME PageInv, NEW l \in Loads, Show(l)
  PROVE  PageInv'
<1> DEFINE p == [page[l] EXCEPT !.at = "shown"]
<1>1. page' = [page EXCEPT ![l] = p] /\ UNCHANGED <<vars, asked>>
  BY DEF Show
<1>2. VisitFits(page[l], asked[l])
  BY PageInvIs
<1>3. /\ DOMAIN p = Fields /\ p.at = "shown" /\ p.user = page[l].user
      /\ p.total = page[l].total /\ p.correct = page[l].correct
      /\ p.got = page[l].got /\ p.attempts = page[l].attempts
  BY <1>2, FieldsAre DEF VisitFits
<1>4. VisitFits(p, asked[l])
  BY <1>2, <1>3 DEF VisitFits, StatsFit
<1> QED
  BY <1>1, <1>4, VisitStep

(* An error page shows nothing. *)
LEMMA LoadFailsKeeps ==
  ASSUME PageInv, NEW l \in Loads, LoadFails(l)
  PROVE  PageInv'
<1> DEFINE p == [NoPage EXCEPT !.at = "error"]
           then == [attempts |-> {}, questions |-> {}]
<1>1. /\ page' = [page EXCEPT ![l] = p] /\ asked' = [asked EXCEPT ![l] = then]
      /\ UNCHANGED vars
  BY DEF LoadFails
<1>2. DOMAIN p = Fields /\ p.at = "error" /\ p.got = {} /\ p.attempts = {}
  BY DEF Fields, NoPage
<1>3. VisitFits(p, then)
  BY <1>2 DEF VisitFits
<1> QED
  BY <1>1, <1>3, VisitStep

----------------------------------------------------------------------------
(* The lists: what is said of the times and of the rows *)

Started == {c \in Calls : startedAt[c] # 0}

BeforeStart ==
  {"idle", "readKey", "belongs", "readAuthor", "ensureUser", "readRow", "readChoices"}

(* A call is dated once, before it inserts, and each later than all before it. *)
ClockFits ==
  /\ startedAt \in [Calls -> Nat] /\ updatedAt \in [QuestionIds -> Nat]
  /\ IsFiniteSet(Started)
  /\ \A c \in Calls : startedAt[c] <= Cardinality(Started)
  /\ \A c, d \in Started : startedAt[c] = startedAt[d] => c = d
  /\ \A c \in Calls : pc[c] \in BeforeStart => startedAt[c] = 0
  /\ \A c \in Calls : pc[c] = "insertAttempt" => c \in Started
  /\ \A q \in QuestionIds : updatedAt[q] <= Cardinality(Started)

Stored == {q \in QuestionIds : questions[q].state # "absent"}

(* The tables have finitely many rows, an attempt is of a call that was dated,
   and no call has two. *)
RowsFit ==
  /\ IsFiniteSet(attempts) /\ IsFiniteSet(Stored)
  /\ \A a \in attempts : a.call \in Started
  /\ \A a, b \in attempts : a.call = b.call => a = b

(* What may become of a row of the questions. *)
RowGoesOn(r, s) ==
  /\ r.version <= s.version
  /\ r.state # "absent" => s.state # "absent" /\ s.author = r.author
  /\ r.state = "deleted" => s.state = "deleted"

(* The state of a visit, by what has arrived. *)
StateFits(p) ==
  /\ p.at \in {"none", "loading", "shown", "error"}
  /\ p.got \subseteq Parts
  /\ p.at \in {"none", "error"} => p.got = {}
  /\ p.at = "shown" => p.got = Parts
  /\ p.total \in Nat /\ p.correct \in 0 .. p.total

HistoryFits(p, then) ==
  /\ p.attempts \subseteq [attempt : attempts, version : Nat]
  /\ Cardinality(p.attempts) <= Limit
  /\ "attempts" \in p.got =>
       LET listed == {r.attempt : r \in p.attempts} IN
       \A a \in AttemptsOf(p.user, then.attempts) \ listed :
         /\ Cardinality(listed) = Limit
         /\ \A b \in listed : startedAt[b.call] > startedAt[a.call]

RowsGoOn(p, then) ==
  p.at \in {"loading", "shown"} =>
    /\ then.questions \in [QuestionIds -> Row]
    /\ \A q \in QuestionIds : RowGoesOn(then.questions[q], questions[q])

ListFits(p, then) ==
  /\ p.questions \subseteq [question : QuestionIds, version : Nat, at : Nat]
  /\ Cardinality(p.questions) <= Limit
  /\ "questions" \in p.got =>
       /\ \A r \in p.questions :
            /\ questions[r.question].state # "absent"
            /\ questions[r.question].author = p.user
            /\ then.questions[r.question].state # "deleted"
            /\ then.questions[r.question].version <= r.version
            /\ r.version <= questions[r.question].version
       /\ \A q \in MyQuestions(p.user) :
            then.questions[q] = questions[q] /\ (\A r \in p.questions : r.question # q) =>
              Cardinality(p.questions) = Limit /\ \A r \in p.questions : r.at >= updatedAt[q]

ListsFit(p, then) ==
  StateFits(p) /\ HistoryFits(p, then) /\ RowsGoOn(p, then) /\ ListFits(p, then)

ListsInv == ClockFits /\ RowsFit /\ \A l \in Loads : ListsFit(page[l], asked[l])

----------------------------------------------------------------------------
(* The times *)

(* The call that gets its user row is the one that starts its INSERT or its
   transaction. *)
LEMMA WhereACallGoes ==
  ASSUME TypeOK, NEW c \in Calls,
         ClientStep(c) \/ ServerStep(c) \/ Cut(c) \/ StatementFails(c), ~ EnsureUserExists(c)
  PROVE  /\ pc'[c] \notin {"insertAttempt", "begin"}
         /\ pc'[c] \in BeforeStart => pc[c] \in BeforeStart
<1>1. ASSUME NEW code, Answer(c, code) PROVE pc'[c] = "done"
  BY <1>1 DEF Answer, Goto, TypeOK
<1>2. ASSUME NEW phase, Continue(c, phase) PROVE pc'[c] = phase
  BY <1>2 DEF Continue, Goto, TypeOK
<1>3. CASE ClientStep(c)
  <2>1. PICK r, p : Start(c, r, p) /\ p \in {"readKey", "ensureUser", "readAuthor", "readRow"}
    BY <1>3 DEF ClientStep, StartSubmitAnswer, StartCreateQuestion, StartUpdateQuestion,
       StartGetQuestion, StartGetMyQuestion
  <2>2. pc[c] = "idle" /\ pc'[c] = p
    BY <1>2, <2>1 DEF Start
  <2> QED
    BY <2>1, <2>2 DEF BeforeStart
<1>4. CASE Cut(c) \/ StatementFails(c)
  BY <1>4 DEF Cut, StatementFails, Goto, TypeOK, BeforeStart
<1>5. CASE ReadKeyForAnswer(c) \/ ReadKeyForEdit(c)
  BY <1>1, <1>2, <1>5 DEF ReadKeyForAnswer, ReadKeyForEdit, Query, BeforeStart
<1>6. CASE ReadRow(c) \/ ListChoices(c)
  BY <1>1, <1>2, <1>6 DEF ReadRow, ListChoices, Query, BeforeStart
<1>7. CASE ChoiceBelongsToQuestion(c) \/ CreateAttempt(c) \/ GetQuestionAuthor(c)
  BY <1>1, <1>2, <1>7 DEF ChoiceBelongsToQuestion, CreateAttempt, GetQuestionAuthor, Query,
     BeforeStart
<1>8. CASE Begin(c) \/ InsertQuestion(c) \/ InsertChoicesAndAnswerKey(c) \/ Commit(c)
  BY <1>1, <1>2, <1>8 DEF Begin, InsertQuestion, InsertChoicesAndAnswerKey, Commit, BeforeStart
<1>9. CASE UpdateRow(c) \/ DeleteChoices(c)
  BY <1>1, <1>2, <1>9 DEF UpdateRow, DeleteChoices, Rollback, BeforeStart
<1> QED
  BY <1>3, <1>4, <1>5, <1>6, <1>7, <1>8, <1>9 DEF ServerStep

(* At most one call starts in a step, and it had not been dated. *)
LEMMA AtMostOneStarts ==
  ASSUME IndInv, [Next]_vars
  PROVE  \/ \A c \in Calls : /\ ~ Starts(c)
                             /\ pc'[c] \in BeforeStart => pc[c] \in BeforeStart
                             /\ pc'[c] = "insertAttempt" => pc[c] = "insertAttempt"
         \/ \E c \in Calls : /\ pc[c] = "ensureUser" /\ Starts(c) /\ UNCHANGED questions
                             /\ \A d \in Calls \ {c} : pc'[d] = pc[d]
<1>0. TypeOK
  BY DEF IndInv
<1>1. CASE \A c \in Calls : pc'[c] = pc[c]
  BY <1>1 DEF Starts
<1>2. ASSUME NEW q \in QuestionIds, SoftDelete(q) PROVE pc' = pc
  BY <1>2 DEF SoftDelete
<1>3. ASSUME NEW c \in Calls, ClientStep(c) \/ ServerStep(c) \/ Cut(c) \/ StatementFails(c)
      PROVE  \A d \in Calls \ {c} : pc'[d] = pc[d]
  BY <1>0, <1>3, OneCallMoves
<1>4. ASSUME NEW c \in Calls, EnsureUserExists(c)
      PROVE  pc[c] = "ensureUser" /\ Starts(c) /\ UNCHANGED questions
  <2>1. pc[c] = "ensureUser" /\ Continue(c, AfterEnsureUser[req[c].rpc]) /\ UNCHANGED questions
    BY <1>4 DEF EnsureUserExists, Query
  <2>2. req[c].rpc \in {"SubmitAnswer", "CreateQuestion", "UpdateQuestion"}
    BY <2>1 DEF IndInv, RequestsFit, RequestFits, RpcsAt
  <2>3. AfterEnsureUser[req[c].rpc] \in {"insertAttempt", "begin"}
    BY <2>2 DEF AfterEnsureUser
  <2>4. pc'[c] \in {"insertAttempt", "begin"}
    BY <1>0, <2>1, <2>3 DEF Continue, Goto, TypeOK
  <2> QED
    BY <2>1, <2>4 DEF Starts
<1>5. ASSUME NEW c \in Calls, EnsureUserExists(c)
      PROVE  \A d \in Calls \ {c} : pc'[d] = pc[d]
  BY <1>3, <1>5 DEF ServerStep
<1>6. ASSUME NEW c \in Calls, ClientStep(c) \/ ServerStep(c) \/ Cut(c) \/ StatementFails(c),
             ~ EnsureUserExists(c), NEW d \in Calls
      PROVE  /\ ~ Starts(d)
             /\ pc'[d] \in BeforeStart => pc[d] \in BeforeStart
             /\ pc'[d] = "insertAttempt" => pc[d] = "insertAttempt"
  <2>1. CASE d = c
    BY <1>0, <1>6, <2>1, WhereACallGoes DEF Starts
  <2>2. CASE d # c
    BY <1>3, <1>6, <2>2 DEF Starts
  <2> QED
    BY <2>1, <2>2
<1>7. CASE UNCHANGED vars
  BY <1>1, <1>7 DEF vars
<1> QED
  BY <1>1, <1>2, <1>4, <1>5, <1>6, <1>7 DEF Next

(* The dates that have been given stay, and those that come are later. *)
LEMMA ClockKeeps ==
  ASSUME IndInv, ClockFits, Next, SetTimes
  PROVE  /\ ClockFits' /\ Started \subseteq Started'
         /\ \A c \in Started : startedAt'[c] = startedAt[c]
<1> DEFINE n == Cardinality(Started)
<1>1. n \in Nat /\ Now = n + 1
  BY FS_CardinalityType DEF ClockFits, Now, Started
<1>2. TypeOK /\ rowLock \in [QuestionIds -> Calls \cup {NoCall}]
  BY DEF IndInv, TypeOK
<1>3. /\ startedAt' = [c \in Calls |-> IF Starts(c) THEN Now ELSE startedAt[c]]
      /\ updatedAt' = [q \in QuestionIds |->
           IF questions'[q] # questions[q] /\ rowLock[q] \in Calls
           THEN startedAt[rowLock[q]] ELSE updatedAt[q]]
  BY DEF SetTimes
<1>4. updatedAt' \in [QuestionIds -> Nat] /\ \A q \in QuestionIds : updatedAt'[q] <= n
  BY <1>3 DEF ClockFits
<1> HIDE DEF n
<1>5. CASE \A c \in Calls : /\ ~ Starts(c)
                            /\ pc'[c] \in BeforeStart => pc[c] \in BeforeStart
                            /\ pc'[c] = "insertAttempt" => pc[c] = "insertAttempt"
  <2>1. startedAt' = startedAt
    BY <1>3, <1>5 DEF ClockFits
  <2>2. Started' = Started
    BY <2>1 DEF Started
  <2> QED
    BY <1>4, <1>5, <2>1, <2>2 DEF ClockFits, n
<1>6. ASSUME NEW c \in Calls, pc[c] = "ensureUser", Starts(c), UNCHANGED questions,
             \A d \in Calls \ {c} : pc'[d] = pc[d]
      PROVE  /\ ClockFits' /\ Started \subseteq Started'
             /\ \A d \in Started : startedAt'[d] = startedAt[d]
  <2>1. startedAt[c] = 0 /\ c \notin Started
    BY <1>6 DEF ClockFits, BeforeStart, Started
  <2>2. \A d \in Calls \ {c} : ~ Starts(d)
    BY <1>6 DEF Starts
  <2>3. /\ startedAt' \in [Calls -> Nat] /\ startedAt'[c] = n + 1
        /\ \A d \in Calls \ {c} : startedAt'[d] = startedAt[d]
    BY <1>1, <1>3, <1>6, <2>2 DEF ClockFits
  <2>4. Started' = Started \cup {c}
    BY <1>1, <2>1, <2>3 DEF Started
  <2>5. IsFiniteSet(Started') /\ Cardinality(Started') = n + 1
    BY <2>1, <2>4, FS_AddElement DEF ClockFits, n
  <2>6. \A d \in Calls \ {c} : startedAt'[d] \in Nat /\ startedAt'[d] <= n
    BY <2>3 DEF ClockFits, n
  <2>7. \A d \in Calls : startedAt'[d] <= Cardinality(Started')
    BY <1>1, <2>3, <2>5, <2>6
  <2>8. \A d, e \in Started' : startedAt'[d] = startedAt'[e] => d = e
    <3> SUFFICES ASSUME NEW d \in Started', NEW e \in Started', startedAt'[d] = startedAt'[e]
                 PROVE  d = e
      OBVIOUS
    <3>1. CASE d = c \/ e = c
      BY <1>1, <2>3, <2>6, <3>1 DEF Started
    <3>2. CASE d # c /\ e # c
      BY <2>3, <2>4, <3>2 DEF ClockFits, Started
    <3> QED
      BY <3>1, <3>2
  <2>9. pc'[c] \in {"insertAttempt", "begin"}
    BY <1>6 DEF Starts
  <2>10. \A d \in Calls : /\ pc'[d] \in BeforeStart => startedAt'[d] = 0
                          /\ pc'[d] = "insertAttempt" => d \in Started'
    BY <1>6, <2>3, <2>4, <2>9 DEF ClockFits, BeforeStart
  <2>11. \A q \in QuestionIds : updatedAt'[q] <= Cardinality(Started')
    BY <1>1, <1>4, <2>5
  <2>12. ClockFits'
    BY <1>4, <2>3, <2>5, <2>7, <2>8, <2>10, <2>11 DEF ClockFits
  <2> QED
    BY <2>1, <2>3, <2>4, <2>12 DEF Started
<1> QED
  BY <1>5, <1>6, AtMostOneStarts

----------------------------------------------------------------------------
(* The rows *)

LEMMA RowsKeep ==
  ASSUME IndInv, ClockFits, RowsFit, [Next]_vars, Started \subseteq Started'
  PROVE  RowsFit'
<1>0. TypeOK
  BY DEF IndInv
<1>1. CASE UNCHANGED <<questions, choices, answerKey, attempts>>
  BY <1>1 DEF RowsFit, Stored
<1>2. ASSUME NEW c \in Calls, CreateAttempt(c) PROVE RowsFit'
  <2>1. Stored' = Stored /\ pc[c] = "insertAttempt"
    BY <1>2 DEF CreateAttempt, Query, Stored
  <2>2. CASE UNCHANGED attempts
    BY <2>1, <2>2 DEF RowsFit
  <2>3. CASE \E a : a.call = c /\ attempts' = attempts \cup {a}
    <3>1. PICK a : a.call = c /\ attempts' = attempts \cup {a}
      BY <2>3
    <3>2. IsFiniteSet(attempts')
      BY <3>1, FS_AddElement DEF RowsFit
    <3>3. c \in Started /\ \A b \in attempts : b.call # c
      BY <2>1 DEF ClockFits, IndInv, AttemptsComeLast
    <3> QED
      BY <2>1, <3>1, <3>2, <3>3 DEF RowsFit
  <2>4. UNCHANGED attempts \/ \E a : a.call = c /\ attempts' = attempts \cup {a}
    <3> DEFINE a == [call |-> c, user |-> req[c].user, question |-> req[c].question,
                     choice |-> req[c].choice, isCorrect |-> IsCorrect(c)]
    <3>1. UNCHANGED attempts \/ attempts' = attempts \cup {a}
      BY <1>2 DEF CreateAttempt
    <3>2. a.call = c
      OBVIOUS
    <3> HIDE DEF a
    <3> QED
      BY <3>1, <3>2
  <2> QED
    BY <2>2, <2>3, <2>4
<1>3. ASSUME NEW c \in Calls, Commit(c) PROVE RowsFit'
  <2>1. PICK q \in QuestionIds, v \in Nat :
          /\ questions' = [questions EXCEPT ![q] =
               [state |-> "live", author |-> req[c].user, version |-> v]]
          /\ attempts' = attempts
    BY <1>3, CommitEffect
  <2>2. Stored' = Stored \cup {q}
    BY <1>0, <2>1 DEF Stored, TypeOK
  <2>3. IsFiniteSet(Stored')
    BY <2>2, FS_AddElement DEF RowsFit
  <2> QED
    BY <2>1, <2>3 DEF RowsFit
<1>4. ASSUME NEW q \in QuestionIds, SoftDelete(q) PROVE RowsFit'
  <2>1. Stored' = Stored /\ attempts' = attempts
    BY <1>0, <1>4 DEF SoftDelete, Live, Stored, TypeOK, Row
  <2> QED
    BY <2>1 DEF RowsFit
<1> QED
  BY <1>1, <1>2, <1>3, <1>4, WhatChangesTheTables

(* A row keeps its author, grows in version and stays deleted once it is. *)
LEMMA RowsOnlyGoOn ==
  ASSUME IndInv, [Next]_vars, NEW q \in QuestionIds
  PROVE  RowGoesOn(questions[q], questions'[q])
<1>0. TypeOK /\ questions[q] \in Row
  BY DEF IndInv, TypeOK
<1>1. CASE questions'[q] = questions[q]
  BY <1>0, <1>1 DEF RowGoesOn, Row
<1>2. ASSUME NEW c \in Calls, CreateAttempt(c) PROVE questions' = questions
  BY <1>2 DEF CreateAttempt
<1>3. ASSUME NEW c \in Calls, Commit(c) PROVE RowGoesOn(questions[q], questions'[q])
  <2>1. PICK r \in QuestionIds, v \in Nat :
          /\ questions' = [questions EXCEPT ![r] =
               [state |-> "live", author |-> req[c].user, version |-> v]]
          /\ \/ questions[r].state = "absent" /\ v = 0
             \/ /\ questions[r].state = "live" /\ v = questions[r].version + 1
                /\ questions[r].author = req[c].user
    BY <1>3, CommitEffect
  <2>2. CASE r # q
    BY <1>0, <1>1, <2>1, <2>2 DEF TypeOK
  <2>3. CASE r = q
    <3>1. questions'[q] = [state |-> "live", author |-> req[c].user, version |-> v]
      BY <1>0, <2>1, <2>3 DEF TypeOK
    <3>2. questions[q].state = "absent" => questions[q].version = 0
      BY DEF IndInv, UnusedIdsAreNew
    <3> QED
      BY <1>0, <2>1, <2>3, <3>1, <3>2 DEF RowGoesOn, Row
  <2> QED
    BY <2>2, <2>3
<1>4. ASSUME NEW r \in QuestionIds, SoftDelete(r)
      PROVE  RowGoesOn(questions[q], questions'[q])
  BY <1>0, <1>4 DEF SoftDelete, Live, RowGoesOn, TypeOK, Row
<1> QED
  BY <1>1, <1>2, <1>3, <1>4, WhatChangesTheTables

(* Going on is an order, so a row that is as it was has not changed between. *)
LEMMA GoingOnIsAnOrder ==
  ASSUME NEW r \in Row, NEW s \in Row, NEW w \in Row, RowGoesOn(r, s), RowGoesOn(s, w)
  PROVE  RowGoesOn(r, w) /\ (r = w /\ r.state = "live" => r = s)
<1>1. RowGoesOn(r, w)
  BY DEF RowGoesOn, Row
<1>2. ASSUME r = w, r.state = "live" PROVE r = s
  <2>1. s.version = r.version /\ s.author = r.author /\ s.state = "live"
    BY <1>2 DEF RowGoesOn, Row
  <2> QED
    BY <1>2, <2>1 DEF Row
<1> QED
  BY <1>1, <1>2

----------------------------------------------------------------------------
(* What LIMIT returns *)

LEMMA LimitIs == Limit \in 1 .. 100
BY PageAssumption DEF Limit, NormalizePageSize

(* The rows that are left out are no later, and there are only if the limit is
   reached. *)
LEMMA LatestAre ==
  ASSUME NEW R, IsFiniteSet(R), NEW time, NEW L, IsLatest(L, R, time)
  PROVE  /\ L \subseteq R /\ IsFiniteSet(L) /\ Cardinality(L) <= Limit
         /\ \A y \in R \ L : Cardinality(L) = Limit /\ \A x \in L : time[y] <= time[x]
<1>1. L \subseteq R /\ Cardinality(L) = IF Cardinality(R) < Limit THEN Cardinality(R) ELSE Limit
  BY DEF IsLatest
<1>2. /\ IsFiniteSet(L) /\ Cardinality(L) \in Nat /\ Cardinality(R) \in Nat
      /\ Cardinality(R) = Cardinality(L) => R = L
  BY <1>1, FS_Subset, FS_CardinalityType
<1>3. Cardinality(L) <= Limit
  BY <1>1, <1>2, LimitIs
<1>4. ASSUME NEW y \in R \ L PROVE Cardinality(L) = Limit
  BY <1>1, <1>2, <1>4
<1> QED
  BY <1>1, <1>2, <1>3, <1>4 DEF IsLatest

(* A list has as many entries as rows, at most, and as many if they differ. *)
LEMMA EntriesCount ==
  ASSUME NEW S, IsFiniteSet(S), NEW f, f = [x \in S |-> f[x]]
  PROVE  LET T == {f[x] : x \in S} IN
         /\ IsFiniteSet(T) /\ Cardinality(T) <= Cardinality(S)
         /\ (\A x, y \in S : f[x] = f[y] => x = y) => Cardinality(T) = Cardinality(S)
<1> DEFINE T == {f[x] : x \in S}
<1>1. f \in Surjection(S, T)
  BY DEF Surjection
<1>2. (\A x, y \in S : f[x] = f[y] => x = y) => f \in Injection(S, T)
  BY DEF Injection, IsInjective
<1> HIDE DEF T
<1>3. /\ IsFiniteSet(T) /\ Cardinality(T) <= Cardinality(S)
      /\ Cardinality(T) = Cardinality(S) <=> f \in Injection(S, T)
  BY <1>1, FS_Surjection
<1> QED
  BY <1>2, <1>3 DEF T

----------------------------------------------------------------------------
(* The visits *)

(* What has been given stays right while the calls go on. *)
LEMMA ListsStay ==
  ASSUME IndInv, PageInv, ClockFits, RowsFit, TypeOK', [Next]_vars, SetTimes,
         ClockFits', Started \subseteq Started', \A c \in Started : startedAt'[c] = startedAt[c],
         NEW l \in Loads, ListsFit(page[l], asked[l])
  PROVE  ListsFit(page[l], asked[l])'
<1> DEFINE p == page[l]
           then == asked[l]
<1>0. page' = page /\ asked' = asked /\ attempts \subseteq attempts' /\ then.attempts \subseteq attempts
  BY AttemptsGrow DEF SetTimes, pageVars, PageInv, AskedIsKept
<1>1. StateFits(p)'
  BY <1>0 DEF ListsFit, StateFits
<1>2. HistoryFits(p, then)'
  <2>1. /\ p.attempts \subseteq [attempt : attempts, version : Nat]
        /\ Cardinality(p.attempts) <= Limit
    BY DEF ListsFit, HistoryFits
  <2> DEFINE listed == {r.attempt : r \in p.attempts}
  <2>2. \A r \in p.attempts : r.attempt \in attempts /\ r \in [attempt : attempts', version : Nat]
    BY <1>0, <2>1
  <2>3. \A a \in attempts : startedAt'[a.call] = startedAt[a.call]
    BY DEF RowsFit
  <2>4. ASSUME "attempts" \in p.got, NEW a \in AttemptsOf(p.user, then.attempts) \ listed
        PROVE  /\ Cardinality(listed) = Limit
               /\ \A b \in listed : startedAt'[b.call] > startedAt'[a.call]
    <3>1. /\ Cardinality(listed) = Limit
          /\ \A b \in listed : startedAt[b.call] > startedAt[a.call]
      BY <2>4 DEF ListsFit, HistoryFits
    <3>2. a \in attempts /\ listed \subseteq attempts
      BY <1>0, <2>2 DEF AttemptsOf
    <3> QED
      BY <2>3, <3>1, <3>2
  <2> QED
    BY <1>0, <2>1, <2>2, <2>4 DEF HistoryFits, AttemptsOf, Limit
<1>3. questions \in [QuestionIds -> Row] /\ questions' \in [QuestionIds -> Row]
  BY DEF IndInv, TypeOK
<1>4. \A q \in QuestionIds : RowGoesOn(questions[q], questions'[q])
  BY RowsOnlyGoOn
<1>5. RowsGoOn(p, then)'
  <2> SUFFICES ASSUME p.at \in {"loading", "shown"}
               PROVE  /\ then.questions \in [QuestionIds -> Row]
                      /\ \A q \in QuestionIds : RowGoesOn(then.questions[q], questions'[q])
    BY <1>0 DEF RowsGoOn, RowGoesOn
  <2>1. /\ then.questions \in [QuestionIds -> Row]
        /\ \A q \in QuestionIds : RowGoesOn(then.questions[q], questions[q])
    BY DEF ListsFit, RowsGoOn
  <2> QED
    BY <1>3, <1>4, <2>1, GoingOnIsAnOrder
<1>6. ListFits(p, then)'
  <2>1. /\ p.questions \subseteq [question : QuestionIds, version : Nat, at : Nat]
        /\ Cardinality(p.questions) <= Limit
    BY DEF ListsFit, ListFits
  <2>2. ASSUME "questions" \in p.got
        PROVE  p.at \in {"loading", "shown"}
    BY <2>2 DEF ListsFit, StateFits
  <2>3. ASSUME "questions" \in p.got, NEW r \in p.questions
        PROVE  /\ questions'[r.question].state # "absent"
               /\ questions'[r.question].author = p.user
               /\ then.questions[r.question].state # "deleted"
               /\ then.questions[r.question].version <= r.version
               /\ r.version <= questions'[r.question].version
    <3>1. /\ questions[r.question].state # "absent"
          /\ questions[r.question].author = p.user
          /\ then.questions[r.question].state # "deleted"
          /\ then.questions[r.question].version <= r.version
          /\ r.version <= questions[r.question].version
      BY <2>3 DEF ListsFit, ListFits
    <3>2. r.question \in QuestionIds /\ r.version \in Nat
      BY <2>1, <2>3
    <3>3. RowGoesOn(questions[r.question], questions'[r.question])
      BY <1>4, <3>2
    <3>4. /\ questions[r.question].version \in Nat /\ questions'[r.question].version \in Nat
      BY <1>3, <3>2 DEF Row
    <3> QED
      BY <3>1, <3>2, <3>3, <3>4 DEF RowGoesOn
  <2>4. ASSUME "questions" \in p.got, NEW q \in QuestionIds,
               questions'[q].state = "live", questions'[q].author = p.user,
               then.questions[q] = questions'[q], \A r \in p.questions : r.question # q
        PROVE  Cardinality(p.questions) = Limit /\ \A r \in p.questions : r.at >= updatedAt'[q]
    <3>1. then.questions[q] \in Row /\ RowGoesOn(then.questions[q], questions[q])
      BY <2>2, <2>4 DEF ListsFit, RowsGoOn
    <3>2. then.questions[q] = questions[q]
      BY <1>3, <1>4, <2>4, <3>1, GoingOnIsAnOrder
    <3>3. q \in MyQuestions(p.user)
      BY <2>4, <3>2 DEF MyQuestions, Live
    <3>4. updatedAt'[q] = updatedAt[q]
      BY <2>4, <3>2 DEF SetTimes
    <3> QED
      BY <2>4, <3>2, <3>3, <3>4 DEF ListsFit, ListFits
  <2> QED
    BY <1>0, <2>1, <2>3, <2>4 DEF ListFits, MyQuestions, Live, Limit
<1> QED
  BY <1>1, <1>2, <1>5, <1>6 DEF ListsFit

(* A step of one visit, of which only that visit has to be looked at. *)
LEMMA OneVisit ==
  ASSUME PageInv, ListsInv, NEW l \in Loads, NEW p, NEW then,
         page' = [page EXCEPT ![l] = p], UNCHANGED <<vars, startedAt, updatedAt>>,
         (asked' = asked /\ then = asked[l]) \/ asked' = [asked EXCEPT ![l] = then],
         ListsFit(p, then)
  PROVE  ListsInv'
<1>1. DOMAIN page = Loads /\ DOMAIN asked = Loads
  BY DEF PageInv, VisitsFit
<1>2. /\ page'[l] = p /\ asked'[l] = then
      /\ \A m \in Loads \ {l} : page'[m] = page[m] /\ asked'[m] = asked[m]
  BY <1>1
<1>3. UNCHANGED <<questions, attempts, pc>>
  BY DEF vars, tables
<1>4. ASSUME NEW m \in Loads PROVE ListsFit(page'[m], asked'[m])
  <2>1. CASE m = l
    BY <1>2, <2>1
  <2>2. CASE m # l
    <3>1. ListsFit(page[m], asked[m]) /\ page'[m] = page[m] /\ asked'[m] = asked[m]
      BY <1>2, <2>2 DEF ListsInv
    <3> QED
      BY <3>1
  <2> QED
    BY <2>1, <2>2
<1>5. ASSUME NEW m \in Loads, ListsFit(page'[m], asked'[m])
      PROVE  ListsFit(page[m], asked[m])'
  BY <1>3, <1>5 DEF ListsFit, StateFits, HistoryFits, RowsGoOn, ListFits, AttemptsOf, MyQuestions,
                    Live, Limit, RowGoesOn
<1>6. ClockFits' /\ RowsFit'
  BY <1>3 DEF ListsInv, ClockFits, RowsFit, Started, Stored
<1> QED
  BY <1>4, <1>5, <1>6 DEF ListsInv

LEMMA OpenLists ==
  ASSUME IndInv, PageInv, ListsInv, NEW l \in Loads, Open(l)
  PROVE  ListsInv'
<1>1. PICK u \in Users : page' = [page EXCEPT ![l].at = "loading", ![l].user = u]
  BY DEF Open
<1> DEFINE p == [page[l] EXCEPT !.at = "loading", !.user = u]
           then == [attempts |-> attempts, questions |-> questions]
<1>2. ListsFit(page[l], asked[l]) /\ DOMAIN page[l] = Fields /\ page[l].at = "none"
  BY DEF ListsInv, PageInv, VisitsFit, Open
<1>3. /\ p.at = "loading" /\ p.got = page[l].got /\ p.attempts = page[l].attempts
      /\ p.total = page[l].total /\ p.correct = page[l].correct /\ p.questions = page[l].questions
  BY <1>2, FieldsAre
<1>4. page[l].got = {}
  BY <1>2 DEF ListsFit, StateFits
<1>5. then.questions = questions /\ questions \in [QuestionIds -> Row]
  BY DEF IndInv, TypeOK
<1> HIDE DEF p, then
<1>6. StateFits(p) /\ HistoryFits(p, then) /\ ListFits(p, then)
  BY <1>2, <1>3, <1>4 DEF ListsFit, StateFits, HistoryFits, ListFits
<1>7. RowsGoOn(p, then)
  BY <1>5 DEF RowsGoOn, RowGoesOn, Row
<1>8. page' = [page EXCEPT ![l] = p]
  BY <1>1 DEF p
<1>9. asked' = [asked EXCEPT ![l] = then] /\ UNCHANGED <<vars, startedAt, updatedAt>>
  BY DEF Open, then
<1> QED
  BY <1>6, <1>7, <1>8, <1>9, OneVisit DEF ListsFit

(* The history arrives: what it leaves out is older, since no two answers were
   dated alike. *)
LEMMA ListMyAttemptsLists ==
  ASSUME IndInv, PageInv, ListsInv, NEW l \in Loads, ListMyAttempts(l)
  PROVE  ListsInv'
<1> DEFINE R == AttemptsOf(page[l].user, attempts)
<1>1. PICK L \in SUBSET R :
        /\ IsLatest(L, R, Times(R))
        /\ Got(l, "attempts", [page[l] EXCEPT !.attempts = WithPrompt(L)])
  BY DEF ListMyAttempts
<1> DEFINE p == [[page[l] EXCEPT !.attempts = WithPrompt(L)] EXCEPT !.got = @ \cup {"attempts"}]
<1>2. /\ ListsFit(page[l], asked[l]) /\ DOMAIN page[l] = Fields /\ page[l].at = "loading"
      /\ asked[l].attempts \subseteq attempts
  BY DEF ListsInv, PageInv, VisitsFit, AskedIsKept, ListMyAttempts, Asks
<1>3. /\ p.at = page[l].at /\ p.got = page[l].got \cup {"attempts"} /\ p.user = page[l].user
      /\ p.attempts = WithPrompt(L)
      /\ p.total = page[l].total /\ p.correct = page[l].correct /\ p.questions = page[l].questions
  BY <1>2, FieldsAre
<1>4. page' = [page EXCEPT ![l] = p] /\ UNCHANGED <<vars, startedAt, updatedAt, asked>>
  BY <1>1 DEF Got
<1> HIDE DEF p
<1>5. R \subseteq attempts /\ IsFiniteSet(R)
  BY FS_Subset DEF ListsInv, RowsFit, AttemptsOf
<1>6. /\ L \subseteq R /\ IsFiniteSet(L) /\ Cardinality(L) <= Limit
      /\ \A a \in R \ L : Cardinality(L) = Limit /\ \A b \in L : Times(R)[a] <= Times(R)[b]
  BY <1>1, <1>5, LatestAre
<1>7. {r.attempt : r \in WithPrompt(L)} = L
  <2> DEFINE row(a) == [attempt |-> a, version |-> questions[a.question].version]
  <2>1. WithPrompt(L) = {row(a) : a \in L} /\ \A a \in L : row(a).attempt = a
    BY DEF WithPrompt
  <2> HIDE DEF row
  <2> QED
    BY <2>1
<1>8. Cardinality(WithPrompt(L)) <= Limit
  <2> DEFINE f == [a \in L |-> [attempt |-> a, version |-> questions[a.question].version]]
  <2>1. WithPrompt(L) = {f[a] : a \in L}
    BY DEF WithPrompt
  <2>2. f = [a \in L |-> f[a]]
    OBVIOUS
  <2> HIDE DEF f
  <2>3. IsFiniteSet(WithPrompt(L)) /\ Cardinality(WithPrompt(L)) <= Cardinality(L)
    BY <1>6, <2>1, <2>2, EntriesCount
  <2> QED
    BY <1>6, <2>3, LimitIs, FS_CardinalityType
<1>9. WithPrompt(L) \subseteq [attempt : attempts, version : Nat]
  BY <1>5, <1>6 DEF WithPrompt, IndInv, TypeOK, Attempt, Row
<1>10. ASSUME NEW a \in AttemptsOf(p.user, asked[l].attempts) \ L
       PROVE  /\ Cardinality(L) = Limit
              /\ \A b \in L : startedAt[b.call] > startedAt[a.call]
  <2>1. a \in R \ L
    BY <1>2, <1>3, <1>10 DEF AttemptsOf
  <2>2. ASSUME NEW b \in L PROVE startedAt[b.call] > startedAt[a.call]
    <3>1. Times(R)[a] <= Times(R)[b] /\ a \in R /\ b \in R /\ a # b
      BY <1>6, <2>1
    <3>2. startedAt[a.call] <= startedAt[b.call]
      BY <3>1 DEF Times
    <3>3. a.call \in Started /\ b.call \in Started /\ a.call # b.call
      BY <1>5, <3>1 DEF ListsInv, RowsFit
    <3>4. startedAt[a.call] # startedAt[b.call]
      BY <3>3 DEF ListsInv, ClockFits
    <3>5. startedAt[a.call] \in Nat /\ startedAt[b.call] \in Nat
      BY <3>3 DEF ListsInv, ClockFits, Started
    <3> QED
      BY <3>2, <3>4, <3>5
  <2> QED
    BY <1>6, <2>1, <2>2
<1>11. HistoryFits(p, asked[l])
  BY <1>3, <1>7, <1>8, <1>9, <1>10 DEF HistoryFits
<1>12. StateFits(p) /\ ListFits(p, asked[l]) /\ RowsGoOn(p, asked[l])
  BY <1>2, <1>3 DEF ListsFit, StateFits, ListFits, RowsGoOn, Parts
<1> QED
  BY <1>4, <1>11, <1>12, OneVisit DEF ListsFit

(* The statistics arrive: at most all answers are right. *)
LEMMA GetMyStatsLists ==
  ASSUME IndInv, PageInv, ListsInv, NEW l \in Loads, GetMyStats(l)
  PROVE  ListsInv'
<1> DEFINE R == AttemptsOf(page[l].user, attempts)
           p == [[page[l] EXCEPT !.total = Cardinality(R), !.correct = Cardinality(Right(R))]
                   EXCEPT !.got = @ \cup {"stats"}]
<1>1. page' = [page EXCEPT ![l] = p] /\ UNCHANGED <<vars, startedAt, updatedAt, asked>>
  BY DEF GetMyStats, Got
<1>2. ListsFit(page[l], asked[l]) /\ DOMAIN page[l] = Fields /\ page[l].at = "loading"
  BY DEF ListsInv, PageInv, VisitsFit, GetMyStats, Asks
<1>3. /\ p.at = page[l].at /\ p.got = page[l].got \cup {"stats"} /\ p.user = page[l].user
      /\ p.attempts = page[l].attempts /\ p.questions = page[l].questions
      /\ p.total = Cardinality(R) /\ p.correct = Cardinality(Right(R))
  BY <1>2, FieldsAre
<1> HIDE DEF p
<1>4. IsFiniteSet(R) /\ Right(R) \in SUBSET R
  BY FS_Subset DEF ListsInv, RowsFit, AttemptsOf, Right
<1>5. /\ Cardinality(R) \in Nat /\ Cardinality(Right(R)) \in Nat
      /\ Cardinality(Right(R)) <= Cardinality(R)
  BY <1>4, FS_Subset, FS_CardinalityType
<1>6. StateFits(p)
  BY <1>2, <1>3, <1>5 DEF ListsFit, StateFits, Parts
<1>7. HistoryFits(p, asked[l]) /\ ListFits(p, asked[l]) /\ RowsGoOn(p, asked[l])
  BY <1>2, <1>3 DEF ListsFit, HistoryFits, ListFits, RowsGoOn
<1> QED
  BY <1>1, <1>6, <1>7, OneVisit DEF ListsFit

(* The list of questions arrives. *)
LEMMA ListMyQuestionsLists ==
  ASSUME IndInv, PageInv, ListsInv, NEW l \in Loads, ListMyQuestions(l)
  PROVE  ListsInv'
<1> DEFINE R == MyQuestions(page[l].user)
           entry(q) == [question |-> q, version |-> questions[q].version, at |-> updatedAt[q]]
<1>1. PICK L \in SUBSET R :
        /\ IsLatest(L, R, updatedAt)
        /\ Got(l, "questions", [page[l] EXCEPT !.questions = {entry(q) : q \in L}])
  BY DEF ListMyQuestions
<1> DEFINE listed == {entry(q) : q \in L}
           p == [[page[l] EXCEPT !.questions = listed] EXCEPT !.got = @ \cup {"questions"}]
<1>2. ListsFit(page[l], asked[l]) /\ DOMAIN page[l] = Fields /\ page[l].at = "loading"
  BY DEF ListsInv, PageInv, VisitsFit, ListMyQuestions, Asks
<1>3. /\ p.at = page[l].at /\ p.got = page[l].got \cup {"questions"} /\ p.user = page[l].user
      /\ p.attempts = page[l].attempts /\ p.questions = listed
      /\ p.total = page[l].total /\ p.correct = page[l].correct
  BY <1>2, FieldsAre
<1>4. page' = [page EXCEPT ![l] = p] /\ UNCHANGED <<vars, startedAt, updatedAt, asked>>
  BY <1>1 DEF Got
<1>5. /\ \A q \in QuestionIds : questions[q] \in Row /\ updatedAt[q] \in Nat
      /\ R \subseteq QuestionIds /\ R \in SUBSET Stored
  BY DEF IndInv, TypeOK, ListsInv, ClockFits, MyQuestions, Live, Stored
<1>6. IsFiniteSet(R)
  BY <1>5, FS_Subset DEF ListsInv, RowsFit
<1>7. /\ L \subseteq R /\ IsFiniteSet(L) /\ Cardinality(L) <= Limit
      /\ \A q \in R \ L : Cardinality(L) = Limit /\ \A x \in L : updatedAt[q] <= updatedAt[x]
  BY <1>1, <1>6, LatestAre
<1>8. Cardinality(listed) = Cardinality(L)
  <2> DEFINE f == [q \in L |-> entry(q)]
  <2>1. listed = {f[q] : q \in L} /\ f = [q \in L |-> f[q]]
    OBVIOUS
  <2>2. \A x, y \in L : f[x] = f[y] => x = y
    OBVIOUS
  <2> HIDE DEF f, listed
  <2> QED
    BY <1>7, <2>1, <2>2, EntriesCount
<1>9. listed \subseteq [question : QuestionIds, version : Nat, at : Nat]
  BY <1>5, <1>7 DEF Row
<1>10. \A r \in listed : \E q \in L : /\ r.question = q /\ r.version = questions[q].version
                                      /\ r.at = updatedAt[q]
  OBVIOUS
<1>11. \A q \in L : \E r \in listed : r.question = q
  <2>1. \A q \in L : entry(q) \in listed /\ entry(q).question = q
    OBVIOUS
  <2> HIDE DEF entry, listed
  <2> QED
    BY <2>1
<1> HIDE DEF listed, p
<1>12. \A q \in QuestionIds : RowGoesOn(asked[l].questions[q], questions[q])
  BY <1>2 DEF ListsFit, RowsGoOn
<1>13. ASSUME NEW r \in listed
       PROVE  /\ questions[r.question].state # "absent"
              /\ questions[r.question].author = p.user
              /\ asked[l].questions[r.question].state # "deleted"
              /\ asked[l].questions[r.question].version <= r.version
              /\ r.version <= questions[r.question].version
  <2>1. PICK q \in L : r.question = q /\ r.version = questions[q].version
    BY <1>10, <1>13
  <2>2. q \in QuestionIds /\ questions[q].state = "live" /\ questions[q].author = p.user
    BY <1>3, <1>7 DEF MyQuestions, Live
  <2>3. RowGoesOn(asked[l].questions[q], questions[q]) /\ questions[q].version \in Nat
    BY <1>5, <1>12, <2>2 DEF Row
  <2> QED
    BY <2>1, <2>2, <2>3 DEF RowGoesOn
<1>14. ASSUME NEW q \in MyQuestions(p.user), \A r \in listed : r.question # q
       PROVE  Cardinality(listed) = Limit /\ \A r \in listed : r.at >= updatedAt[q]
  <2>1. q \in R \ L
    BY <1>3, <1>11, <1>14
  <2>2. ASSUME NEW r \in listed PROVE r.at >= updatedAt[q]
    <3>1. PICK x \in L : r.at = updatedAt[x]
      BY <1>10, <2>2
    <3> QED
      BY <1>5, <1>7, <2>1, <3>1
  <2> QED
    BY <1>7, <1>8, <2>1, <2>2
<1>15. ListFits(p, asked[l])
  BY <1>3, <1>7, <1>8, <1>9, <1>13, <1>14 DEF ListFits
<1>16. StateFits(p) /\ HistoryFits(p, asked[l]) /\ RowsGoOn(p, asked[l])
  BY <1>2, <1>3 DEF ListsFit, StateFits, HistoryFits, RowsGoOn, Parts
<1> QED
  BY <1>4, <1>15, <1>16, OneVisit DEF ListsFit

LEMMA ShowLists ==
  ASSUME PageInv, ListsInv, NEW l \in Loads, Show(l)
  PROVE  ListsInv'
<1> DEFINE p == [page[l] EXCEPT !.at = "shown"]
<1>1. page' = [page EXCEPT ![l] = p] /\ UNCHANGED <<vars, startedAt, updatedAt, asked>>
  BY DEF Show
<1>2. /\ ListsFit(page[l], asked[l]) /\ DOMAIN page[l] = Fields
      /\ page[l].at = "loading" /\ page[l].got = Parts
  BY DEF ListsInv, PageInv, VisitsFit, Show
<1>3. /\ p.at = "shown" /\ p.got = page[l].got /\ p.user = page[l].user
      /\ p.attempts = page[l].attempts /\ p.questions = page[l].questions
      /\ p.total = page[l].total /\ p.correct = page[l].correct
  BY <1>2, FieldsAre
<1> HIDE DEF p
<1>4. ListsFit(p, asked[l])
  BY <1>2, <1>3 DEF ListsFit, StateFits, HistoryFits, ListFits, RowsGoOn
<1> QED
  BY <1>1, <1>4, OneVisit

\* What a visit without answers has to fit.
LEMMA NothingFits ==
  ASSUME NEW p, NEW then, p.at \in {"none", "error"}, p.got = {}, p.attempts = {},
         p.questions = {}, p.total = 0, p.correct = 0
  PROVE  ListsFit(p, then)
<1>1. Cardinality({}) <= Limit
  BY LimitIs, FS_EmptySet
<1> QED
  BY <1>1 DEF ListsFit, StateFits, HistoryFits, ListFits, RowsGoOn

LEMMA LoadFailsLists ==
  ASSUME PageInv, ListsInv, NEW l \in Loads, LoadFails(l)
  PROVE  ListsInv'
<1> DEFINE p == [NoPage EXCEPT !.at = "error"]
           then == [attempts |-> {}, questions |-> {}]
<1>1. /\ page' = [page EXCEPT ![l] = p] /\ asked' = [asked EXCEPT ![l] = then]
      /\ UNCHANGED <<vars, startedAt, updatedAt>>
  BY DEF LoadFails
<1>2. /\ p.at = "error" /\ p.got = {} /\ p.attempts = {} /\ p.questions = {}
      /\ p.total = 0 /\ p.correct = 0
  BY DEF NoPage
<1> HIDE DEF p, then
<1>3. ListsFit(p, then)
  BY <1>2, NothingFits
<1> QED
  BY <1>1, <1>3, OneVisit

LEMMA InitLists == PageInit => ListsInv
<1> SUFFICES ASSUME PageInit PROVE ListsInv
  OBVIOUS
<1>1. Started = {} /\ IsFiniteSet({}) /\ Cardinality({}) = 0
  BY FS_EmptySet DEF PageInit, Started
<1>2. ClockFits
  <2>1. /\ startedAt = [c \in Calls |-> 0] /\ updatedAt = [q \in QuestionIds |-> 0]
        /\ \A c \in Calls : pc[c] = "idle"
    BY DEF PageInit, Init
  <2>2. IsFiniteSet(Started) /\ Cardinality(Started) = 0
    BY <1>1
  <2> QED
    BY <1>1, <2>1, <2>2 DEF ClockFits
<1>3. Stored = DOMAIN StoredBy /\ attempts = {}
  <2>1. \A q \in QuestionIds :
          questions[q].state = IF q \in DOMAIN StoredBy THEN "live" ELSE "absent"
    BY DEF PageInit, Init
  <2>2. DOMAIN StoredBy \subseteq QuestionIds /\ attempts = {}
    BY ConstantsAssumption DEF PageInit, Init
  <2> QED
    BY <2>1, <2>2 DEF Stored
<1>4. RowsFit
  BY <1>1, <1>3, PageAssumption DEF RowsFit
<1>5. ASSUME NEW l \in Loads PROVE ListsFit(page[l], asked[l])
  <2>1. /\ page[l].at = "none" /\ page[l].got = {} /\ page[l].attempts = {}
        /\ page[l].questions = {} /\ page[l].total = 0 /\ page[l].correct = 0
    BY DEF PageInit, NoPage
  <2> QED
    BY <2>1, NothingFits
<1> QED
  BY <1>2, <1>4, <1>5 DEF ListsInv

LEMMA NextLists == IndInv /\ IndInv' /\ PageInv /\ ListsInv /\ [PageNext]_allVars => ListsInv'
<1> SUFFICES ASSUME IndInv, IndInv', PageInv, ListsInv, [PageNext]_allVars PROVE ListsInv'
  OBVIOUS
<1>1. CASE Next /\ SetTimes
  <2>1. /\ ClockFits' /\ Started \subseteq Started'
        /\ \A c \in Started : startedAt'[c] = startedAt[c]
    BY <1>1, ClockKeeps DEF ListsInv
  <2>2. RowsFit'
    BY <1>1, <2>1, RowsKeep DEF ListsInv
  <2>3. TypeOK'
    BY DEF IndInv
  <2>4. \A l \in Loads : ListsFit(page[l], asked[l])'
    BY <1>1, <2>1, <2>3, ListsStay DEF ListsInv
  <2> QED
    BY <2>1, <2>2, <2>4 DEF ListsInv
<1>2. ASSUME NEW l \in Loads, Open(l) \/ LoaderStep(l) \/ LoadFails(l) PROVE ListsInv'
  BY <1>2, OpenLists, ListMyAttemptsLists, GetMyStatsLists, ListMyQuestionsLists, ShowLists,
     LoadFailsLists DEF LoaderStep
<1>3. CASE UNCHANGED allVars
  <2>1. /\ UNCHANGED <<startedAt, updatedAt, page, asked>>
        /\ UNCHANGED <<questions, attempts, pc>>
    BY <1>3 DEF allVars, pageVars, vars, tables
  <2>2. ClockFits' /\ RowsFit'
    BY <2>1 DEF ListsInv, ClockFits, RowsFit, Started, Stored
  <2>3. ASSUME NEW l \in Loads PROVE ListsFit(page[l], asked[l])'
    <3>1. ListsFit(page[l], asked[l])
      BY DEF ListsInv
    <3> QED
      BY <2>1, <3>1 DEF ListsFit, StateFits, HistoryFits, RowsGoOn, ListFits, AttemptsOf,
                        MyQuestions, Live, Limit, RowGoesOn
  <2> QED
    BY <2>2, <2>3 DEF ListsInv
<1> QED
  BY <1>1, <1>2, <1>3 DEF PageNext

----------------------------------------------------------------------------
(* The theorems *)

(* Before the first visit there is nothing to be wrong about. *)
LEMMA PageInitEstablishes == PageInit => PageInv
BY DEF PageInit, PageInv, VisitsFit, AskedIsKept, HistoryShowsWhatWasAnswered,
       StatsAreOfOneMoment, Fields, NoPage

(* Every step keeps both invariants. *)
LEMMA PageNextKeeps == IndInv /\ PageInv /\ [PageNext]_allVars => PageInv'
<1> SUFFICES ASSUME IndInv, PageInv, [PageNext]_allVars PROVE PageInv'
  OBVIOUS
<1>1. CASE UNCHANGED allVars
  BY <1>1, StoreStepKeeps DEF allVars
<1>2. CASE Next /\ SetTimes
  BY <1>2, StoreStepKeeps DEF SetTimes
<1>3. ASSUME NEW l \in Loads, Open(l) \/ LoaderStep(l) \/ LoadFails(l) PROVE PageInv'
  BY <1>3, OpenKeeps, ListMyAttemptsKeeps, GetMyStatsKeeps, ListMyQuestionsKeeps, ShowKeeps,
     LoadFailsKeeps DEF LoaderStep
<1> QED
  BY <1>1, <1>2, <1>3 DEF PageNext

(* What a visit has been given is right, and stays right while calls go on. *)
THEOREM PagesStayRight == PageSpec => []PageInv
<1> QED
  BY PageInitEstablishes, PageNextKeeps, StoreStaysConsistent, PTL DEF PageSpec

(* The history never puts a text next to an answer that was given to another,
   although it joins the questions as they are when the page is loaded. *)
THEOREM HistoryStaysRight == PageSpec => []HistoryShowsWhatWasAnswered
<1>1. PageInv => HistoryShowsWhatWasAnswered
  BY DEF PageInv
<1> QED
  BY <1>1, PagesStayRight, PTL

(* The statistics are those of one moment of the visit, however many answers
   are recorded between its three queries. *)
THEOREM StatsStayOfOneMoment == PageSpec => []StatsAreOfOneMoment
<1>1. PageInv => StatsAreOfOneMoment
  BY DEF PageInv
<1> QED
  BY <1>1, PagesStayRight, PTL

(* The lists of a visit stay right as well: times are given in order, and rows
   go on in one direction only. *)
THEOREM ListsStayRight == PageSpec => []ListsInv
<1> QED
  BY InitLists, NextLists, PagesStayRight, StoreStaysConsistent, PTL DEF PageSpec

(* Every answer that had been given when the page was opened is in the history,
   unless the page is full of later ones (ListMyAttempts, soft deletion). *)
THEOREM HistoryStaysComplete == PageSpec => []HistoryIsComplete
<1>1. ListsInv => HistoryIsComplete
  BY DEF ListsInv, ListsFit, HistoryFits, HistoryIsComplete
<1> QED
  BY <1>1, ListsStayRight, PTL

(* No question on the list was deleted, and no text on it replaced, before the
   page was opened; one that is as it was then is on it unless the page is full
   of others that are no older (ListMyQuestions). *)
THEOREM QuestionListStaysFresh == PageSpec => []QuestionListIsFresh
<1>1. ASSUME IndInv, ListsInv PROVE QuestionListIsFresh
  <2> SUFFICES ASSUME NEW l \in Loads, "questions" \in page[l].got
               PROVE  /\ \A r \in page[l].questions :
                           /\ questions[r.question].author = page[l].user
                           /\ asked[l].questions[r.question].state # "deleted"
                           /\ r.version \in asked[l].questions[r.question].version
                                              .. questions[r.question].version
                      /\ \A q \in MyQuestions(page[l].user) :
                           asked[l].questions[q] = questions[q]
                             /\ (\A r \in page[l].questions : r.question # q) =>
                             /\ Cardinality(page[l].questions) = Limit
                             /\ \A r \in page[l].questions : r.at >= updatedAt[q]
    BY DEF QuestionListIsFresh
  <2>1. ListFits(page[l], asked[l]) /\ RowsGoOn(page[l], asked[l]) /\ StateFits(page[l])
    BY <1>1 DEF ListsInv, ListsFit
  <2>2. ASSUME NEW r \in page[l].questions
        PROVE  r.version \in asked[l].questions[r.question].version
                               .. questions[r.question].version
    <3>1. r.question \in QuestionIds /\ r.version \in Nat
      BY <2>1, <2>2 DEF ListFits
    <3>2. page[l].at \in {"loading", "shown"}
      BY <2>1 DEF StateFits
    <3>3. asked[l].questions[r.question] \in Row /\ questions[r.question] \in Row
      BY <1>1, <2>1, <3>1, <3>2 DEF RowsGoOn, IndInv, TypeOK
    <3>4. /\ asked[l].questions[r.question].version <= r.version
          /\ r.version <= questions[r.question].version
      BY <2>1, <2>2 DEF ListFits
    <3> QED
      BY <3>1, <3>3, <3>4 DEF Row
  <2> QED
    BY <2>1, <2>2 DEF ListFits
<1> QED
  BY <1>1, ListsStayRight, StoreStaysConsistent, PTL

(* What a visit has been given is within its type, no list is longer than its
   limit, and the page is shown with all three parts only (NormalizePageSize,
   Promise.all in me.tsx), in a behaviour of finitely many calls. *)
THEOREM PageTypesHold == ASSUME IsFiniteSet(Calls) PROVE PageSpec => []PageTypeOK
<1>1. ASSUME ListsInv PROVE PageTypeOK
  <2>1. /\ Cardinality(Started) \in Nat /\ Cardinality(Calls) \in Nat
        /\ Cardinality(Started) <= Cardinality(Calls)
    <3>1. Started \in SUBSET Calls
      BY DEF Started
    <3> QED
      BY <3>1, FS_Subset, FS_CardinalityType
  <2>2. /\ startedAt \in [Calls -> 0 .. Cardinality(Calls)]
        /\ updatedAt \in [QuestionIds -> 0 .. Cardinality(Calls)]
    <3>1. \A c \in Calls : startedAt[c] \in 0 .. Cardinality(Calls)
      BY <1>1, <2>1 DEF ListsInv, ClockFits
    <3>2. \A q \in QuestionIds : updatedAt[q] \in 0 .. Cardinality(Calls)
      BY <1>1, <2>1 DEF ListsInv, ClockFits
    <3> QED
      BY <1>1, <3>1, <3>2 DEF ListsInv, ClockFits
  <2>3. ASSUME NEW l \in Loads
        PROVE  /\ page[l].at \in {"none", "loading", "shown", "error"}
               /\ page[l].got \subseteq Parts
               /\ page[l].at = "shown" <=> page[l].at # "loading" /\ page[l].got = Parts
               /\ page[l].attempts \subseteq [attempt : attempts, version : Nat]
               /\ page[l].questions \subseteq [question : QuestionIds, version : Nat, at : Nat]
               /\ Cardinality(page[l].attempts) <= Limit /\ Cardinality(page[l].questions) <= Limit
               /\ page[l].correct \in 0 .. page[l].total
    BY <1>1 DEF ListsInv, ListsFit, StateFits, HistoryFits, ListFits, Parts
  <2> QED
    BY <2>2, <2>3 DEF PageTypeOK
<1> QED
  BY <1>1, ListsStayRight, PTL
=============================================================================
