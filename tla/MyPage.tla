------------------------------- MODULE MyPage -------------------------------
(***************************************************************************)
(* The My Page over the store: its loader makes three concurrent calls (the *)
(* player's latest answers, statistics, latest questions), each one query   *)
(* of its own, while the calls of QuizStore go on.  The page needs all      *)
(* three answers; the first failure makes it an error page.                 *)
(*                                                                          *)
(* answered_at and updated_at are NOW(), which Postgres fixes when an       *)
(* INSERT outside a transaction, or a transaction, begins: rows may become  *)
(* visible in another order than their times.                               *)
(***************************************************************************)
EXTENDS QuizStore, Integers

CONSTANTS
  Loads,        \* the visits to the My Page of a behaviour
  ListPageSize  \* the page size the loader asks for (20 in the code)

\* The tables the migrations leave have finitely many rows.
ASSUME PageAssumption ==
  /\ ListPageSize \in Int
  /\ IsFiniteSet(DOMAIN StoredBy)

Parts == {"attempts", "stats", "questions"}

VARIABLES
  startedAt,  \* NOW() of each call's INSERT or transaction, 0 before it
  updatedAt,  \* questions.updated_at
  page,       \* each visit: its state, whose it is, what has been answered
  asked       \* for the properties: the tables as they were when it began

pageVars == <<page, asked>>
allVars == <<vars, startedAt, updatedAt, pageVars>>

NoPage == [at |-> "none", user |-> Anonymous, got |-> {}, attempts |-> {},
           total |-> 0, correct |-> 0, questions |-> {}]

PageInit ==
  /\ Init
  /\ startedAt = [c \in Calls |-> 0]
  /\ updatedAt = [q \in QuestionIds |-> 0]
  /\ page = [l \in Loads |-> NoPage]
  /\ asked = [l \in Loads |-> [attempts |-> {}, questions |-> {}]]

----------------------------------------------------------------------------
(* Times *)

Now == 1 + Cardinality({c \in Calls : startedAt[c] # 0})

\* The INSERT or the transaction is about to start.  What it dates may still
\* wait for as long as it likes, so dating it here covers every later start.
Starts(c) == pc[c] # pc'[c] /\ pc'[c] \in {"insertAttempt", "begin"}

\* The trigger dates a row when its transaction, which holds the lock, began.
SetTimes ==
  /\ startedAt' = [c \in Calls |-> IF Starts(c) THEN Now ELSE startedAt[c]]
  /\ updatedAt' = [q \in QuestionIds |->
       IF questions'[q] # questions[q] /\ rowLock[q] \in Calls
       THEN startedAt[rowLock[q]] ELSE updatedAt[q]]
  /\ UNCHANGED pageVars

----------------------------------------------------------------------------
(* The loader and its three calls *)

NormalizePageSize(n) == IF n <= 0 THEN 20 ELSE IF n > 100 THEN 100 ELSE n

Limit == NormalizePageSize(ListPageSize)

\* L is what ORDER BY time DESC LIMIT n may return of the rows R.
IsLatest(L, R, time) ==
  /\ L \subseteq R
  /\ Cardinality(L) = IF Cardinality(R) < Limit THEN Cardinality(R) ELSE Limit
  /\ \A x \in L, y \in R \ L : time[y] <= time[x]

AttemptsOf(u, rel) == {a \in rel : a.user = u}

Open(l) ==
  /\ page[l].at = "none"
  /\ \E u \in Users : page' = [page EXCEPT ![l].at = "loading", ![l].user = u]
  /\ asked' = [asked EXCEPT ![l] = [attempts |-> attempts, questions |-> questions]]
  /\ UNCHANGED <<vars, startedAt, updatedAt>>

Asks(l, part) == page[l].at = "loading" /\ part \notin page[l].got /\ FreeConnection

Got(l, part, p) ==
  /\ page' = [page EXCEPT ![l] = [p EXCEPT !.got = @ \cup {part}]]
  /\ UNCHANGED <<vars, startedAt, updatedAt, asked>>

\* Each row comes with the prompt its question has at that moment.
WithPrompt(L) == {[attempt |-> a, version |-> questions[a.question].version] : a \in L}

Times(R) == [a \in R |-> startedAt[a.call]]

\* Mutant of ListMyAttempts: no LIMIT.
ListAllMyAttempts(l) ==
  /\ Asks(l, "attempts")
  /\ Got(l, "attempts",
         [page[l] EXCEPT !.attempts = WithPrompt(AttemptsOf(page[l].user, attempts))])

\* Mutant of ListMyAttempts: the JOIN leaves out deleted questions.
ListAttemptsAtLiveQuestions(l) ==
  LET R == {a \in AttemptsOf(page[l].user, attempts) : Live(a.question)} IN
  /\ Asks(l, "attempts")
  /\ \E L \in SUBSET R :
       /\ IsLatest(L, R, Times(R))
       /\ Got(l, "attempts", [page[l] EXCEPT !.attempts = WithPrompt(L)])

ListMyAttempts(l) ==
  LET R == AttemptsOf(page[l].user, attempts) IN
  /\ Asks(l, "attempts")
  /\ \E L \in SUBSET R :
       /\ IsLatest(L, R, Times(R))
       /\ Got(l, "attempts", [page[l] EXCEPT !.attempts = WithPrompt(L)])

Right(R) == {a \in R : a.isCorrect}

\* Mutant of GetMyStats: two queries, the correct ones when the page was opened.
GetMyStatsInTwo(l) ==
  /\ Asks(l, "stats")
  /\ Got(l, "stats", [page[l] EXCEPT
       !.total = Cardinality(AttemptsOf(page[l].user, attempts)),
       !.correct = Cardinality(Right(AttemptsOf(page[l].user, asked[l].attempts)))])

\* COUNT and SUM of one query: one moment for both.
GetMyStats(l) ==
  LET R == AttemptsOf(page[l].user, attempts) IN
  /\ Asks(l, "stats")
  /\ Got(l, "stats", [page[l] EXCEPT !.total = Cardinality(R), !.correct = Cardinality(Right(R))])

MyQuestions(u) == {q \in QuestionIds : Live(q) /\ questions[q].author = u}

\* Mutant of ListMyQuestions: oldest first.
ListMyOldestQuestions(l) ==
  LET R == MyQuestions(page[l].user) IN
  /\ Asks(l, "questions")
  /\ \E L \in SUBSET R :
       /\ IsLatest(L, R, [q \in R |-> Now - updatedAt[q]])
       /\ Got(l, "questions", [page[l] EXCEPT !.questions =
            {[question |-> q, version |-> questions[q].version, at |-> updatedAt[q]] : q \in L}])

ListMyQuestions(l) ==
  LET R == MyQuestions(page[l].user) IN
  /\ Asks(l, "questions")
  /\ \E L \in SUBSET R :
       /\ IsLatest(L, R, updatedAt)
       /\ Got(l, "questions", [page[l] EXCEPT !.questions =
            {[question |-> q, version |-> questions[q].version, at |-> updatedAt[q]] : q \in L}])

\* Promise.all: all three, or the first failure (of the database, or of the
\* deadline) and an error page.
Show(l) ==
  /\ page[l].at = "loading" /\ page[l].got = Parts
  /\ page' = [page EXCEPT ![l].at = "shown"]
  /\ UNCHANGED <<vars, startedAt, updatedAt, asked>>

LoadFails(l) ==
  /\ page[l].at = "loading" /\ page[l].got # Parts
  /\ page' = [page EXCEPT ![l] = [NoPage EXCEPT !.at = "error"]]
  /\ asked' = [asked EXCEPT ![l] = [attempts |-> {}, questions |-> {}]]
  /\ UNCHANGED <<vars, startedAt, updatedAt>>

----------------------------------------------------------------------------
(* The whole *)

LoaderStep(l) == ListMyAttempts(l) \/ GetMyStats(l) \/ ListMyQuestions(l) \/ Show(l)

PageNext ==
  \/ Next /\ SetTimes
  \/ \E l \in Loads : Open(l) \/ LoaderStep(l) \/ LoadFails(l)

\* As in QuizStore, and for the calls of a loader that is running; nobody has
\* to open the page.
PageFairness ==
  /\ \A c \in Calls : WF_allVars(ServerStep(c) /\ SetTimes)
  /\ \A l \in Loads : WF_allVars(LoaderStep(l))

PageSpec == PageInit /\ [][PageNext]_allVars /\ PageFairness

----------------------------------------------------------------------------
(* Properties *)

\* What was answered is within its type, no list is longer than its limit, and
\* an error page shows nothing.
PageTypeOK ==
  /\ startedAt \in [Calls -> 0 .. Cardinality(Calls)]
  /\ updatedAt \in [QuestionIds -> 0 .. Cardinality(Calls)]
  /\ \A l \in Loads :
       /\ page[l].at \in {"none", "loading", "shown", "error"}
       /\ page[l].got \subseteq Parts
       /\ page[l].at = "shown" <=> page[l].at # "loading" /\ page[l].got = Parts
       /\ page[l].attempts \subseteq [attempt : attempts, version : Nat]
       /\ page[l].questions \subseteq [question : QuestionIds, version : Nat, at : Nat]
       /\ Cardinality(page[l].attempts) <= Limit /\ Cardinality(page[l].questions) <= Limit
       /\ page[l].correct \in 0 .. page[l].total

\* design.md:187: soft deletion keeps history and accuracy consistent.  So
\* every answer the player had given when the page was opened is in the
\* history, its question deleted or not, unless later ones fill the page.
HistoryIsComplete ==
  \A l \in Loads : "attempts" \in page[l].got =>
    LET listed == {r.attempt : r \in page[l].attempts} IN
    \A a \in AttemptsOf(page[l].user, asked[l].attempts) \ listed :
      /\ Cardinality(listed) = Limit
      /\ \A b \in listed : startedAt[b.call] > startedAt[a.call]

\* The text next to an answer is the text it was given to, whatever is edited:
\* the query joins the question as it is now, and what makes that right is that
\* attempts restrict the edit.
HistoryShowsWhatWasAnswered ==
  \A l \in Loads : \A r \in page[l].attempts : r.version = r.attempt.choice.version

\* The statistics are those of one moment since the page was opened, so the
\* accuracy is never above one and never of answers half counted.
StatsAreOfOneMoment ==
  \A l \in Loads : "stats" \in page[l].got =>
    LET before == AttemptsOf(page[l].user, asked[l].attempts) IN
    \E new \in SUBSET (AttemptsOf(page[l].user, attempts) \ before) :
      /\ page[l].total = Cardinality(before \cup new)
      /\ page[l].correct = Cardinality(Right(before \cup new))

\* The list of questions has no text that was replaced, and no question that
\* was deleted, before the page was opened; and a question that is as it was
\* then is on it unless others that are no older fill the page.
QuestionListIsFresh ==
  \A l \in Loads : "questions" \in page[l].got =>
    LET u == page[l].user
        listed == page[l].questions
        then(q) == asked[l].questions[q]
    IN  /\ \A r \in listed : /\ questions[r.question].author = u
                             /\ then(r.question).state # "deleted"
                             /\ r.version \in then(r.question).version .. questions[r.question].version
        /\ \A q \in MyQuestions(u) :
             then(q) = questions[q] /\ (\A r \in listed : r.question # q) =>
               Cardinality(listed) = Limit /\ \A r \in listed : r.at >= updatedAt[q]

\* Every visit ends in a page, of either kind, and every call is answered,
\* although the three calls of a visit compete for connections with calls that
\* keep theirs for a whole transaction and wait for each other's rows.
NobodyWaitsForever ==
  <>[](/\ \A l \in Loads : page[l].at # "loading"
       /\ \A c \in Calls : pc[c] \in {"idle", "done"})
=============================================================================
