----------------------------- MODULE QuizStore -----------------------------
(***************************************************************************)
(* The Go backend's calls over its Postgres tables, one SQL statement per   *)
(* step.  Several calls run at once (one goroutine per gRPC request); the   *)
(* database runs them in READ COMMITTED: a statement outside a transaction  *)
(* sees what is committed, and what an open transaction has done stays      *)
(* invisible until its COMMIT.                                              *)
(*                                                                          *)
(* Covered: quiz.SubmitAnswer, the read half of quiz.GetQuestion (how the   *)
(* question is picked is in QuizSelection), question.CreateQuestion,        *)
(* UpdateQuestion, GetMyQuestion, the repositories and constraints under    *)
(* them, the connection pool, calls cut off by their deadline, a client     *)
(* that goes away or a crash, and database failures.                        *)
(*                                                                          *)
(* The text of a question is abstracted to a version: the prompt, the       *)
(* choices and the answer key that one transaction writes share a version,  *)
(* so a reader that mixes two edits is visible.                             *)
(***************************************************************************)
EXTENDS Naturals, FiniteSets

CONSTANTS
  Calls,             \* the RPC invocations of a behaviour; a retry is another call
  QuestionIds,       \* ids the questions table may come to hold
  Users,             \* OIDC subjects of people who can log in
  System,            \* author of the seeded questions
  Anonymous,         \* the absent x-user-id of a player who is not logged in
  StoredBy,          \* who wrote each question the tables hold at the start
  DefaultQuestions,  \* ids of the question set compiled into the backend
  NumChoices,        \* choices per question (4 in the code)
  PoolSize,          \* connections of the pgx pool
  CallsMayBeCut,     \* whether deadlines, disconnects and crashes are explored
  DatabaseMayFail,   \* whether a statement may fail because the database is down
  NoCall, NoQuestion, NoChoice

Authors == Users \cup {System}

Ordinals == 0 .. NumChoices - 1

\* A row of the choices table.  An id is never reused, so the question, the
\* version that inserted the row and its ordinal identify it.
Choice == [question : QuestionIds, version : Nat, ordinal : Ordinals]

ASSUME ConstantsAssumption ==
  /\ NumChoices \in Nat \ {0}
  /\ PoolSize \in Nat \ {0}
  /\ CallsMayBeCut \in BOOLEAN
  /\ DatabaseMayFail \in BOOLEAN
  /\ DOMAIN StoredBy \subseteq QuestionIds
  /\ \A q \in DOMAIN StoredBy : StoredBy[q] \in Authors
  /\ DefaultQuestions \subseteq QuestionIds

ASSUME SentinelsAssumption ==
  /\ NoCall \notin Calls
  /\ NoQuestion \notin QuestionIds
  /\ NoChoice \notin Choice
  /\ Anonymous \notin Authors
  /\ System \notin Users

VARIABLES
  users,      \* ids in the users table
  questions,  \* questions table: state of the row, author, version of the text
  choices,    \* rows of the choices table
  answerKey,  \* answer_keys: the correct choice of each question
  attempts,   \* rows of the attempts table
  rowLock,    \* call whose open transaction holds the row lock of a question
  pc,         \* the statement each call is about to execute
  req,        \* what each call was asked
  key,        \* correct choice a call has read
  prompt,     \* version of the prompt a call has read
  rows,       \* choice rows a call has read
  reply       \* status each client received

tables == <<users, questions, choices, answerKey, attempts>>
local == <<key, prompt, rows>>
vars == <<tables, rowLock, pc, req, local, reply>>

----------------------------------------------------------------------------
(* Tables and statements *)

Batch(q, v) == [question : {q}, version : {v}, ordinal : Ordinals]

ChoicesOf(q) == {x \in choices : x.question = q}

Live(q) == questions[q].state = "live"

DefaultKey(q) == [question |-> q, version |-> 0, ordinal |-> 0]

\* Every choice a client can have been shown.
Published ==
  LET versions(q) == IF questions[q].state = "absent"
                     THEN IF q \in DefaultQuestions THEN {0} ELSE {}
                     ELSE 0 .. questions[q].version
  IN  UNION {UNION {Batch(q, v) : v \in versions(q)} : q \in QuestionIds}

\* Phases in which a call has a transaction open, hence a connection in use.
InTransaction ==
  {"updateRow", "insertQuestion", "deleteChoices", "insertChoices", "commit"}

FreeConnection ==
  Cardinality({c \in Calls : pc[c] \in InTransaction}) < PoolSize

\* Mutant of ChoicesLocked: the membership check takes no lock.
NothingLocked(q) == FALSE

\* The choice rows of q are being replaced by an open transaction.
ChoicesLocked(q) ==
  \E c \in Calls : rowLock[q] = c /\ pc[c] \in {"insertChoices", "commit"}

Codes == {"none", "OK", "InvalidArgument", "NotFound", "PermissionDenied",
          "Internal", "Lost"}

Rpcs == {"SubmitAnswer", "GetQuestion", "CreateQuestion", "UpdateQuestion",
         "GetMyQuestion"}

----------------------------------------------------------------------------
(* Control *)

Goto(c, phase) == pc' = [pc EXCEPT ![c] = phase]

\* The outcomes a client may see of a call whose last statement has run.
Delivery(code) == {code} \cup (IF CallsMayBeCut THEN {"Lost"} ELSE {})

Answer(c, code) ==
  /\ Goto(c, "done")
  /\ \E seen \in Delivery(code) : reply' = [reply EXCEPT ![c] = seen]

Continue(c, phase) == Goto(c, phase) /\ UNCHANGED reply

Release(c) ==
  rowLock' = [q \in QuestionIds |-> IF rowLock[q] = c THEN NoCall ELSE rowLock[q]]

Rollback(c, code) ==
  /\ Release(c)
  /\ Answer(c, code)
  /\ UNCHANGED <<tables, req, local>>

\* A statement outside a transaction takes a connection for its own duration.
Query(c, phase) == pc[c] = phase /\ FreeConnection

Start(c, request, phase) ==
  /\ pc[c] = "idle"
  /\ req' = [req EXCEPT ![c] = request]
  /\ Continue(c, phase)
  /\ UNCHANGED <<tables, rowLock, local>>

Request(rpc, u, q, x, o) ==
  [rpc |-> rpc, user |-> u, question |-> q, choice |-> x, correct |-> o]

NoRequest == Request("none", Anonymous, NoQuestion, NoChoice, 0)

Init ==
  /\ users = {System} \cup {StoredBy[q] : q \in DOMAIN StoredBy}
  /\ questions = [q \in QuestionIds |->
       IF q \in DOMAIN StoredBy
       THEN [state |-> "live", author |-> StoredBy[q], version |-> 0]
       ELSE [state |-> "absent", author |-> System, version |-> 0]]
  /\ choices = [question : DOMAIN StoredBy, version : {0}, ordinal : Ordinals]
  /\ answerKey = [q \in QuestionIds |->
       IF q \in DOMAIN StoredBy THEN DefaultKey(q) ELSE NoChoice]
  /\ attempts = {}
  /\ rowLock = [q \in QuestionIds |-> NoCall]
  /\ pc = [c \in Calls |-> "idle"]
  /\ req = [c \in Calls |-> NoRequest]
  /\ key = [c \in Calls |-> NoChoice]
  /\ prompt = [c \in Calls |-> 0]
  /\ rows = [c \in Calls |-> {}]
  /\ reply = [c \in Calls |-> "none"]

----------------------------------------------------------------------------
(* SubmitAnswer: key, membership, user row, attempt row; four statements in
   no transaction. *)

StartSubmitAnswer(c) ==
  \E u \in Users \cup {Anonymous}, q \in QuestionIds, x \in Published :
    Start(c, Request("SubmitAnswer", u, q, x, 0), "readKey")

ReadKeyForAnswer(c) ==
  LET q == req[c].question IN
  /\ Query(c, "readKey") /\ req[c].rpc = "SubmitAnswer"
  /\ \/ /\ answerKey[q] # NoChoice
        /\ key' = [key EXCEPT ![c] = answerKey[q]]
        /\ Continue(c, "belongs")
     \/ /\ answerKey[q] = NoChoice /\ q \in DefaultQuestions
        /\ key' = [key EXCEPT ![c] = DefaultKey(q)]   \* nothing is stored
        /\ Answer(c, "OK")
     \/ /\ answerKey[q] = NoChoice /\ q \notin DefaultQuestions
        /\ Answer(c, "NotFound")
        /\ UNCHANGED key
  /\ UNCHANGED <<tables, rowLock, req, prompt, rows>>

\* Mutant of ChoiceBelongsToQuestion: the chosen id is trusted.
BelongsUnchecked(c) ==
  /\ Query(c, "belongs")
  /\ \/ req[c].user = Anonymous /\ Answer(c, "OK")
     \/ req[c].user # Anonymous /\ Continue(c, "ensureUser")
  /\ UNCHANGED <<tables, rowLock, req, local>>

ChoiceBelongsToQuestion(c) ==
  /\ Query(c, "belongs")
  /\ \/ /\ req[c].choice \notin ChoicesOf(req[c].question)
        /\ Answer(c, "InvalidArgument")
     \/ /\ req[c].choice \in ChoicesOf(req[c].question)
        /\ req[c].user = Anonymous
        /\ Answer(c, "OK")
     \/ /\ req[c].choice \in ChoicesOf(req[c].question)
        /\ req[c].user # Anonymous
        /\ Continue(c, "ensureUser")
  /\ UNCHANGED <<tables, rowLock, req, local>>

AfterEnsureUser == [SubmitAnswer |-> "insertAttempt",
                    CreateQuestion |-> "begin", UpdateQuestion |-> "begin"]

EnsureUserExists(c) ==
  /\ Query(c, "ensureUser")
  /\ users' = users \cup {req[c].user}
  /\ Continue(c, AfterEnsureUser[req[c].rpc])
  /\ UNCHANGED <<questions, choices, answerKey, attempts, rowLock, req, local>>

\* The verdict is formed from the key read two statements earlier.
IsCorrect(c) == req[c].choice = key[c]

\* Mutant of CreateAttempt: no foreign key from the attempt to the choice.
AttemptWithoutForeignKey(c) ==
  LET r == req[c] IN
  /\ Query(c, "insertAttempt")
  /\ attempts' = attempts \cup
       {[call |-> c, user |-> r.user, question |-> r.question,
         choice |-> r.choice, isCorrect |-> IsCorrect(c)]}
  /\ Answer(c, "OK")
  /\ UNCHANGED <<users, questions, choices, answerKey, rowLock, req, local>>

\* The composite foreign key locks the chosen row FOR KEY SHARE: the INSERT
\* waits for a transaction that is replacing it, and fails if it is gone.
CreateAttempt(c) ==
  LET r == req[c] IN
  /\ Query(c, "insertAttempt")
  /\ ~ ChoicesLocked(r.question)
  /\ \/ /\ r.choice \in ChoicesOf(r.question)
        /\ attempts' = attempts \cup
             {[call |-> c, user |-> r.user, question |-> r.question,
               choice |-> r.choice, isCorrect |-> IsCorrect(c)]}
        /\ Answer(c, "OK")
     \/ /\ r.choice \notin ChoicesOf(r.question)
        /\ Answer(c, "InvalidArgument")
        /\ UNCHANGED attempts
  /\ UNCHANGED <<users, questions, choices, answerKey, rowLock, req, local>>

----------------------------------------------------------------------------
(* CreateQuestion and UpdateQuestion *)

\* Bound of the model: an unused id is left for every creation under way.
IdsSuffice ==
  Cardinality({c \in Calls : req[c].rpc = "CreateQuestion" /\ req[c].question = NoQuestion
                               /\ pc[c] # "done"})
    < Cardinality({q \in QuestionIds \ DefaultQuestions :
                     questions[q].state = "absent" /\ rowLock[q] = NoCall})

StartCreateQuestion(c) ==
  /\ IdsSuffice
  /\ \E u \in Users, o \in Ordinals :
       Start(c, Request("CreateQuestion", u, NoQuestion, NoChoice, o), "ensureUser")

StartUpdateQuestion(c) ==
  \E u \in Users, q \in QuestionIds, o \in Ordinals :
    Start(c, Request("UpdateQuestion", u, q, NoChoice, o), "readAuthor")

GetQuestionAuthor(c) ==
  LET row == questions[req[c].question] IN
  /\ Query(c, "readAuthor")
  /\ \/ row.state # "live" /\ Answer(c, "NotFound")
     \/ row.state = "live" /\ row.author # req[c].user /\ Answer(c, "PermissionDenied")
     \/ row.state = "live" /\ row.author = req[c].user /\ Continue(c, "ensureUser")
  /\ UNCHANGED <<tables, rowLock, req, local>>

Begin(c) ==
  /\ Query(c, "begin")
  /\ Continue(c, IF req[c].rpc = "CreateQuestion" THEN "insertQuestion" ELSE "updateRow")
  /\ UNCHANGED <<tables, rowLock, req, local>>

\* gen_random_uuid() picks an id no row and no open transaction has.
InsertQuestion(c) ==
  /\ pc[c] = "insertQuestion"
  /\ \E q \in QuestionIds :
       /\ questions[q].state = "absent" /\ q \notin DefaultQuestions
       /\ rowLock[q] = NoCall
       /\ rowLock' = [rowLock EXCEPT ![q] = c]
       /\ req' = [req EXCEPT ![c].question = q]
  /\ Continue(c, "insertChoices")
  /\ UNCHANGED <<tables, local>>

\* Mutant of UpdateRow: WHERE does not test deleted_at again.
UpdateRowOfDeleted(c) ==
  LET q == req[c].question IN
  /\ pc[c] = "updateRow"
  /\ rowLock[q] = NoCall
  /\ questions[q].author = req[c].user
  /\ rowLock' = [rowLock EXCEPT ![q] = c]
  /\ Continue(c, "deleteChoices")
  /\ UNCHANGED <<tables, req, local>>

\* Mutant of UpdateRow: the UPDATE runs on the pool, outside the transaction.
UpdateRowOutsideTransaction(c) ==
  LET q == req[c].question IN
  /\ pc[c] = "updateRow"
  /\ rowLock[q] = NoCall
  /\ Live(q) /\ questions[q].author = req[c].user
  /\ questions' = [questions EXCEPT ![q].version = @ + 1]
  /\ rowLock' = [rowLock EXCEPT ![q] = c]
  /\ Continue(c, "deleteChoices")
  /\ UNCHANGED <<users, choices, answerKey, attempts, req, local>>

\* UPDATE waits for the row lock and then evaluates its WHERE on the committed
\* row: the author and the soft delete are checked again here.
UpdateRow(c) ==
  LET q == req[c].question IN
  /\ pc[c] = "updateRow"
  /\ rowLock[q] = NoCall
  /\ \/ /\ Live(q) /\ questions[q].author = req[c].user
        /\ rowLock' = [rowLock EXCEPT ![q] = c]
        /\ Continue(c, "deleteChoices")
        /\ UNCHANGED <<tables, req, local>>
     \/ /\ ~ (Live(q) /\ questions[q].author = req[c].user)
        /\ Rollback(c, "NotFound")

\* Mutant of DeleteChoices: the foreign key of attempts does not restrict it.
DeleteUnrestricted(c) ==
  /\ pc[c] = "deleteChoices"
  /\ Continue(c, "insertChoices")
  /\ UNCHANGED <<tables, rowLock, req, local>>

\* Mutant of DeleteChoices: the foreign key of attempts cascades.
DeleteCascades(c) ==
  /\ pc[c] = "deleteChoices"
  /\ attempts' = {a \in attempts : a.choice \notin ChoicesOf(req[c].question)}
  /\ Continue(c, "insertChoices")
  /\ UNCHANGED <<users, questions, choices, answerKey, rowLock, req, local>>

\* ON DELETE RESTRICT: an attempt that names one of the rows makes it fail.
DeleteChoices(c) ==
  LET q == req[c].question IN
  /\ pc[c] = "deleteChoices"
  /\ \/ /\ \A a \in attempts : a.choice \notin ChoicesOf(q)
        /\ Continue(c, "insertChoices")
        /\ UNCHANGED <<tables, rowLock, req, local>>
     \/ /\ \E a \in attempts : a.choice \in ChoicesOf(q)
        /\ Rollback(c, "Internal")

\* The rows a transaction inserts; they stay its own until Commit.
StagedVersion(c) ==
  IF req[c].rpc = "CreateQuestion" THEN 0 ELSE questions[req[c].question].version + 1

StagedChoices(c) == Batch(req[c].question, StagedVersion(c))

StagedKey(c) ==
  [question |-> req[c].question, version |-> StagedVersion(c), ordinal |-> req[c].correct]

\* Mutant of InsertChoicesAndAnswerKey: the INSERTs run on the pool.
InsertChoicesOnPool(c) ==
  /\ Query(c, "insertChoices")
  /\ Continue(c, "commit")
  /\ UNCHANGED <<tables, rowLock, req, local>>

InsertChoicesAndAnswerKey(c) ==
  /\ pc[c] = "insertChoices"
  /\ Continue(c, "commit")
  /\ UNCHANGED <<tables, rowLock, req, local>>

Commit(c) ==
  LET q == req[c].question IN
  /\ pc[c] = "commit"
  /\ questions' = [questions EXCEPT ![q] =
       [state |-> "live", author |-> req[c].user, version |-> StagedVersion(c)]]
  /\ choices' = (choices \ ChoicesOf(q)) \cup StagedChoices(c)
  /\ answerKey' = [answerKey EXCEPT ![q] = StagedKey(c)]
  /\ Release(c)
  /\ Answer(c, "OK")
  /\ UNCHANGED <<users, attempts, req, local>>

----------------------------------------------------------------------------
(* GetQuestion and GetMyQuestion: the row, the choices and, for the author,
   the key, in separate statements. *)

StartGetQuestion(c) ==
  \E q \in QuestionIds :
    /\ Live(q)
    /\ Start(c, Request("GetQuestion", Anonymous, q, NoChoice, 0), "readRow")

StartGetMyQuestion(c) ==
  \E u \in Users, q \in QuestionIds :
    Start(c, Request("GetMyQuestion", u, q, NoChoice, 0), "readRow")

ReadRow(c) ==
  LET q == req[c].question
      found == Live(q) /\ (req[c].rpc = "GetMyQuestion" => questions[q].author = req[c].user)
  IN
  /\ Query(c, "readRow")
  /\ \/ /\ found
        /\ prompt' = [prompt EXCEPT ![c] = questions[q].version]
        /\ Continue(c, "readChoices")
        /\ UNCHANGED rows
     \/ /\ ~ found
        /\ req[c].rpc = "GetQuestion" => DefaultQuestions = {}
        /\ Answer(c, "NotFound")
        /\ UNCHANGED <<prompt, rows>>
     \/ /\ ~ found /\ req[c].rpc = "GetQuestion"      \* the compiled-in set
        /\ \E d \in DefaultQuestions : rows' = [rows EXCEPT ![c] = Batch(d, 0)]
        /\ Answer(c, "OK")
        /\ UNCHANGED prompt
  /\ UNCHANGED <<tables, rowLock, req, key>>

ListChoices(c) ==
  /\ Query(c, "readChoices")
  /\ rows' = [rows EXCEPT ![c] = ChoicesOf(req[c].question)]
  /\ \/ req[c].rpc = "GetQuestion" /\ Answer(c, "OK")
     \/ req[c].rpc = "GetMyQuestion" /\ Continue(c, "readKey")
  /\ UNCHANGED <<tables, rowLock, req, key, prompt>>

\* Mutant of ReadKeyForEdit: the key goes with the row that was read first.
KeyReadWithTheRow(c) ==
  /\ Query(c, "readKey") /\ req[c].rpc = "GetMyQuestion"
  /\ key' = [key EXCEPT ![c] = [DefaultKey(req[c].question) EXCEPT !.version = prompt[c]]]
  /\ Answer(c, "OK")
  /\ UNCHANGED <<tables, rowLock, req, prompt, rows>>

\* The key of a question whose row was found is there: keys are only replaced.
ReadKeyForEdit(c) ==
  /\ Query(c, "readKey") /\ req[c].rpc = "GetMyQuestion"
  /\ key' = [key EXCEPT ![c] = answerKey[req[c].question]]
  /\ Answer(c, "OK")
  /\ UNCHANGED <<tables, rowLock, req, prompt, rows>>

----------------------------------------------------------------------------
(* The environment *)

\* An operator soft-deletes a question with SQL; no RPC does.
SoftDelete(q) ==
  /\ Live(q) /\ rowLock[q] = NoCall
  /\ questions' = [questions EXCEPT ![q].state = "deleted"]
  /\ UNCHANGED <<users, choices, answerKey, attempts, rowLock, pc, req, local, reply>>

\* The deadline passes, the client leaves or the backend dies between two
\* statements: the server rolls back and nobody reads a result.
Cut(c) ==
  /\ CallsMayBeCut
  /\ pc[c] \notin {"idle", "done"}
  /\ Release(c)
  /\ Goto(c, "done")
  /\ reply' = [reply EXCEPT ![c] = "Lost"]
  /\ UNCHANGED <<tables, req, local>>

\* The status the code gives a failing statement.
OutageCode == [
  readKey |-> "InvalidArgument",       belongs |-> "InvalidArgument",
  ensureUser |-> "Internal",           insertAttempt |-> "InvalidArgument",
  readAuthor |-> "InvalidArgument",    begin |-> "Internal",
  insertQuestion |-> "InvalidArgument", updateRow |-> "InvalidArgument",
  deleteChoices |-> "Internal",        insertChoices |-> "InvalidArgument",
  commit |-> "Internal",               readRow |-> "InvalidArgument",
  readChoices |-> "Internal"]

StatementFails(c) ==
  /\ DatabaseMayFail
  /\ pc[c] \in DOMAIN OutageCode
  /\ Release(c)
  /\ Goto(c, "done")
  /\ reply' = [reply EXCEPT ![c] = OutageCode[pc[c]]]
  /\ UNCHANGED <<tables, req, local>>

----------------------------------------------------------------------------
(* The whole *)

ClientStep(c) ==
  \/ StartSubmitAnswer(c) \/ StartCreateQuestion(c) \/ StartUpdateQuestion(c)
  \/ StartGetQuestion(c) \/ StartGetMyQuestion(c)

ServerStep(c) ==
  \/ ReadKeyForAnswer(c) \/ ChoiceBelongsToQuestion(c) \/ EnsureUserExists(c)
  \/ CreateAttempt(c)
  \/ GetQuestionAuthor(c) \/ Begin(c) \/ InsertQuestion(c) \/ UpdateRow(c)
  \/ DeleteChoices(c) \/ InsertChoicesAndAnswerKey(c) \/ Commit(c)
  \/ ReadRow(c) \/ ListChoices(c) \/ ReadKeyForEdit(c)

Next ==
  \/ \E c \in Calls : ClientStep(c) \/ ServerStep(c) \/ Cut(c) \/ StatementFails(c)
  \/ \E q \in QuestionIds : SoftDelete(q)

\* A goroutine is scheduled and a statement whose locks are free completes.
\* Nobody has to start a call, and no deadline has to fire.
Fairness == \A c \in Calls : WF_vars(ServerStep(c))

Spec == Init /\ [][Next]_vars /\ Fairness

----------------------------------------------------------------------------
(* Properties *)

Row == [state : {"absent", "live", "deleted"}, author : Authors, version : Nat]

RequestSet ==
  [rpc : Rpcs \cup {"none"}, user : Users \cup {Anonymous},
   question : QuestionIds \cup {NoQuestion}, choice : Choice \cup {NoChoice},
   correct : Ordinals]

Attempt == [call : Calls, user : Users, question : QuestionIds,
            choice : Choice, isCorrect : BOOLEAN]

Phases == DOMAIN OutageCode \cup {"idle", "done"}

\* Every variable stays within its type.
TypeOK ==
  /\ users \subseteq Authors
  /\ questions \in [QuestionIds -> Row]
  /\ choices \subseteq Choice
  /\ answerKey \in [QuestionIds -> Choice \cup {NoChoice}]
  /\ attempts \subseteq Attempt
  /\ rowLock \in [QuestionIds -> Calls \cup {NoCall}]
  /\ pc \in [Calls -> Phases]
  /\ req \in [Calls -> RequestSet]
  /\ key \in [Calls -> Choice \cup {NoChoice}]
  /\ prompt \in [Calls -> Nat]
  /\ rows \in [Calls -> SUBSET Choice]
  /\ reply \in [Calls -> Codes]

\* What is committed of a question was written by one transaction: its prompt,
\* exactly its full set of choices and an answer key among them.  So the
\* deferred trigger that counts the choices never has an edit to reject.
ContentIsOneVersion ==
  \A q \in QuestionIds :
    IF questions[q].state = "absent"
    THEN ChoicesOf(q) = {} /\ answerKey[q] = NoChoice
    ELSE /\ ChoicesOf(q) = Batch(q, questions[q].version)
         /\ answerKey[q] \in ChoicesOf(q)

\* A stored verdict is never contradicted: the choice it names is still there
\* and is the answer key exactly if the attempt was recorded as correct,
\* although key, membership and INSERT are three statements in no transaction.
StoredVerdictsStand ==
  \A a \in attempts :
    /\ a.choice \in ChoicesOf(a.question)
    /\ a.isCorrect <=> a.choice = answerKey[a.question]

\* A player who was told a verdict on a stored question and was logged in has
\* it in the history, with that verdict, from then on.
AcknowledgedAnswersAreKept ==
  \A c \in Calls :
    LET r == req[c] IN
    /\ r.rpc = "SubmitAnswer" /\ reply[c] = "OK" /\ r.user # Anonymous
    /\ questions[r.question].state # "absent"
    => \E a \in attempts : /\ a.call = c /\ a.user = r.user /\ a.choice = r.choice
                           /\ a.isCorrect <=> r.choice = key[c]

\* An answer is judged by the key of the very version it was given to, for
\* players without an account too: an edit between the statements of
\* SubmitAnswer cannot turn a right answer into a wrong one.
IsJudgedByItsVersion(c) ==
  /\ req[c].rpc = "SubmitAnswer" /\ reply[c] = "OK"
  /\ questions[req[c].question].state # "absent"
  => /\ key[c].question = req[c].choice.question
     /\ key[c].version = req[c].choice.version

AnswersAreJudgedByTheirVersion == \A c \in Calls : IsJudgedByItsVersion(c)

\* A page read in several statements never goes back in time: the choices are
\* one whole version, no older than the prompt, and the key is no older than
\* the choices.
PagesDoNotGoBack ==
  \A c \in Calls :
    req[c].rpc \in {"GetQuestion", "GetMyQuestion"} /\ reply[c] = "OK" =>
      \E d \in QuestionIds :
        /\ \E v \in {x.version : x \in rows[c]} : rows[c] = Batch(d, v) /\ prompt[c] <= v
        /\ req[c].rpc = "GetMyQuestion" =>
             key[c].question = d /\ \A x \in rows[c] : x.version <= key[c].version

\* Once somebody has answered a question, its text and its key stay.
AnsweredQuestionsAreFrozen ==
  [][\A q \in QuestionIds : (\E a \in attempts : a.question = q) =>
       /\ questions'[q].version = questions[q].version
       /\ answerKey'[q] = answerKey[q]
       /\ ChoicesOf(q)' = ChoicesOf(q)]_vars

\* A soft-deleted question is not edited or brought back, by the edits that had
\* passed the first check before the deletion either.
DeletedQuestionsStay ==
  [][\A q \in QuestionIds : questions[q].state = "deleted" =>
       questions'[q] = questions[q] /\ answerKey'[q] = answerKey[q]]_vars

\* The tables behave as the ledger of questions and answers in QuizLedger.
Ledger == INSTANCE QuizLedger WITH
  text <- questions, correct <- answerKey, history <- attempts, Players <- Users

ImplementsLedger == Ledger!Spec

----------------------------------------------------------------------------
(* The inductive invariant QuizStoreProofs proves.  The properties above speak
   of what is committed or answered; these conjuncts say what a call in between
   two statements still knows. *)

Editing == {"deleteChoices", "insertChoices", "commit"}

RpcsAt == [
  idle |-> {"none"},                 readKey |-> {"SubmitAnswer", "GetMyQuestion"},
  belongs |-> {"SubmitAnswer"},      insertAttempt |-> {"SubmitAnswer"},
  ensureUser |-> {"SubmitAnswer", "CreateQuestion", "UpdateQuestion"},
  readAuthor |-> {"UpdateQuestion"}, begin |-> {"CreateQuestion", "UpdateQuestion"},
  insertQuestion |-> {"CreateQuestion"}, updateRow |-> {"UpdateQuestion"},
  deleteChoices |-> {"UpdateQuestion"},
  insertChoices |-> {"CreateQuestion", "UpdateQuestion"},
  commit |-> {"CreateQuestion", "UpdateQuestion"},
  readRow |-> {"GetQuestion", "GetMyQuestion"},
  readChoices |-> {"GetQuestion", "GetMyQuestion"},
  done |-> Rpcs]

\* A call is only ever at a statement of its own RPC, with the arguments and
\* the login that RPC needs.
RequestFits(c) ==
  LET r == req[c] IN
  /\ r.rpc \in RpcsAt[pc[c]]
  /\ pc[c] # "done" => reply[c] = "none"
  /\ r.rpc = "SubmitAnswer" => /\ r.question \in QuestionIds
                               /\ r.choice \in Choice
                               /\ pc[c] \in {"ensureUser", "insertAttempt"} => r.user \in Users
  /\ r.rpc \in {"CreateQuestion", "UpdateQuestion"} => r.user \in Users
  /\ r.rpc \in {"UpdateQuestion", "GetQuestion", "GetMyQuestion"} => r.question \in QuestionIds

RequestsFit == \A c \in Calls : RequestFits(c)

\* A row lock belongs to the one call that is editing the question.
LocksFit ==
  /\ \A q \in QuestionIds : rowLock[q] # NoCall =>
       pc[rowLock[q]] \in Editing /\ req[rowLock[q]].question = q
  /\ \A c \in Calls : pc[c] \in Editing =>
       req[c].question \in QuestionIds /\ rowLock[req[c].question] = c

\* What a transaction has established of its question holds until it commits.
EditsAreAllowed ==
  \A c \in Calls : pc[c] \in Editing =>
    LET q == req[c].question IN
    /\ req[c].rpc = "CreateQuestion" =>
         questions[q].state = "absent" /\ q \notin DefaultQuestions
    /\ req[c].rpc = "UpdateQuestion" => Live(q) /\ questions[q].author = req[c].user
    /\ pc[c] # "deleteChoices" => \A a \in attempts : a.question # q

\* A key read some statements ago is the current one if no edit was committed
\* since, and was current when the chosen version already existed.
KeyIsDated(c) ==
  req[c].rpc = "SubmitAnswer" =>
    LET q == req[c].question
        x == req[c].choice
    IN
    /\ x.version <= questions[x.question].version
    /\ pc[c] \in {"belongs", "ensureUser", "insertAttempt"} =>
         /\ questions[q].state # "absent"
         /\ key[c] \in Choice /\ key[c].question = q
         /\ key[c].version <= questions[q].version
         /\ key[c].version = questions[q].version => key[c] = answerKey[q]
         /\ x.question = q => x.version <= key[c].version
    /\ pc[c] \in {"ensureUser", "insertAttempt"} =>
         x.question = q /\ x.version = key[c].version
    /\ reply[c] = "OK" /\ questions[q].state = "absent" => q \in DefaultQuestions

KeysAreDated == \A c \in Calls : KeyIsDated(c)

\* An id that no row has yet is at version 0.
UnusedIdsAreNew == \A q \in QuestionIds : questions[q].state = "absent" => questions[q].version = 0

\* An attempt was inserted by the last statement of its call.
AttemptsComeLast == \A a \in attempts : pc[a.call] = "done"

\* All of it, checked as an invariant before it is proved to be one.
IndInv ==
  /\ TypeOK
  /\ ContentIsOneVersion
  /\ StoredVerdictsStand
  /\ AnswersAreJudgedByTheirVersion
  /\ RequestsFit
  /\ LocksFit
  /\ EditsAreAllowed
  /\ KeysAreDated
  /\ UnusedIdsAreNew
  /\ AttemptsComeLast
=============================================================================
