# A verification project for history-quiz

TLA+ modules, TLC configurations and TLAPS proofs about the program in `src/`
(paths below are relative to the repository). `PROJECT.json` lists every run with
what it shows, the source lines of every definition, the mutant that each property
catches, the findings and the hazards.

## 1. The system

```
Browser -- cookie, forms --> Remix BFF -- gRPC, 3 s deadline, no retry --> Go backend -- pgx pool --> Postgres
   |          (one signed session cookie)
   +-- redirects --> OIDC provider (Authentik) <-- discovery, keys, code exchange -- Remix BFF

GitHub Actions -- deploy_production_fly.sh --> psql migrations, fly deploy backend, fly deploy client
```

| part | state it keeps | operations | interacts by | what is hard | correct when |
|---|---|---|---|---|---|
| Content store (`backend/internal/{usecase,infrastructure/postgres}`, `db/migrations`) | tables users, questions, choices, answer_keys, attempts; row locks; pool | SubmitAnswer, CreateQuestion, UpdateQuestion, GetMyQuestion, the read of GetQuestion | SQL; shared tables | reads in separate statements, edits between them, foreign keys, deadline or crash in a transaction | verdicts stand, content is of one version, answered questions do not change |
| Question selection (`usecase/quiz/service.go`) | none; compiled-in set | GetQuestion | three list queries and a read | lists that change in between, nothing left | no needless repeat, a question unless a query fails, no deleted one |
| My Page (`attempt_repository.go`, `usecase/user`, `me.tsx`) | none | GetMyStats, ListMyAttempts, ListMyQuestions | one query each; three at once in `me.tsx`, over the tables of the store | not one snapshot, times that are not the order of commits | each is of one moment, nothing is missing but what newer rows push off |
| Draft rules (`usecase/question/service.go`, `schemas/question.ts`) | none | validateDraft, the zod schema, normalizePageSize | pure | boundaries; two implementations | what one lets through the other accepts |
| Session, CSRF, login (`session.server.ts`, `csrf.server.ts`, `login.tsx`, `auth.callback.tsx`, `oidc.server.ts`) | one cookie: user, token, pending login | form loaders and actions, login, callback, logout | cookie snapshots and Set-Cookie; OIDC redirects | tabs overlap, replies cross or get lost, the cookie runs out | logins are not mixed up, forms stay good until logout or expiry, sessions change on purpose |
| OIDC caches and token checks (`oidc.server.ts`) | discovery and key set, 60 s | lookup, exchange, judging a token | HTTP | fetches overlap and overwrite each other, keys rotate | what a lookup finds is recent, a sound token is refused only by a recent change |
| BFF gRPC client, error table, body limit (`client.server.ts`, `grpc-error.server.ts`, `request-size.server.ts`) | channel | invokeUnary, normalizeGrpcHttpError | gRPC | deadline against a late commit, three calls at once | the status fits what was done |
| gRPC transport, interceptors (`transport/grpc`) | none | metadata, auth by method, access lines | context | rules that exist on both sides | only quiz calls go without a user, the lines of both sides match |
| Page shell (`entry.server.tsx`) | one render | shell ready, shell error, abort | callbacks and a timer | callbacks in any order | every request is answered and logged |
| Quiz page (`quiz.tsx`) | loader data, action data, navigation, checked radio | pick, submit, go on | Remix router | the loader runs again after an answer, navigations replace each other | recorded answers were meant, one verdict per showing |
| Metrics (`observability/*.go`, `observability.server.ts`) | counters and sample window per method | record, snapshot, report | mutex | handlers and reporter together, window full | a report is of one moment |
| Migrations and deploy (`scripts/*.sh`, `deploy-fly.yml`) | schema, releases that serve, queued run | push, dispatch, migrate, deploy | concurrency group | failure between steps, repetition, replaced runs, runs in another order than pushes | schema of a release, backend has its schema; while no run comes after a newer one, client not ahead and main served in the end |
| Other screens, generated code, terraform | none of their own | | | | |

The hazards these bring are in `PROJECT.json`, each with its line and the properties
that would notice.

## 2. Plan

Done in this order, the most important first:

1. `QuizStore` with `QuizLedger` as its abstract specification, and `QuizStoreProofs`.
2. `QuizSelection`: how GetQuestion picks, over the same table of questions.
3. `BrowserSession`: login, CSRF token and cookie.
4. `Rollout`: migrations and deploy.
5. `LatencyWindow`: metrics.
6. `MyPage`: one visit to the My Page, composed with `QuizStore`, proved in `QuizStoreProofs`.
7. `OidcKeys`: the two caches against a provider that rotates its keys, and `OidcKeysProofs`.
8. `RequestPath`: route checks, calls, gate, replies, page shell and log lines of one request,
   with the two implementations of the draft rules.
9. `QuizScreen`: the quiz page in the browser.
10. `RolloutProofs`, `QuizScreenProofs`, `RequestPathProofs`, `BrowserSessionProofs`, and what
    clients of the store were told.
11. `QuizSelectionProofs`, `LatencyWindowProofs`, the order of times in `MyPage` and the log lines
    of `RequestPath`: with them every safety property of the runs is proved.

Next: abstract specifications of `QuizSelection` and `LatencyWindow` in the manner of
`QuizLedger`, with proofs that the modules implement them.

## 3. Modules

| module | models |
|---|---|
| `QuizStore` | the SQL statements of the five calls, one action each but for the five inserts that follow the DELETE of choices; the tables; locks; pool; cuts and outages |
| `QuizLedger` | what the store promises: a question is published, edited or hidden and an answer judged in one step |
| `MCQuizStore` | model values, initial tables and symmetry for TLC |
| `QuizStoreProofs` | the inductive invariant and the theorems; what clients were told; in its second part, the same store under `MyPage`, and what a visit is given |
| `MyPage`, `MCMyPage` | the loader of the My Page and its three queries, composed with the calls of `QuizStore` |
| `QuizSelection`, `MCQuizSelection` | the queries of GetQuestion and the choice among candidates |
| `QuizSelectionProofs` | no needless repeat, a question unless a query fails, none that is deleted |
| `BrowserSession`, `MCBrowserSession` | one browser: cookie jar, tabs, requests and replies in flight, the routes |
| `BrowserSessionProofs` | logins stay apart; forms and sessions while requests take turns |
| `Rollout` | workflow runs and their queue, migration files, backend, client |
| `RolloutProofs` | the schema, the two releases that serve, and migrations before backends |
| `LatencyWindow`, `MCLatencyWindow` | collector and reporter |
| `LatencyWindowProofs` | sorting and ranks, the window of samples, reports of one moment |
| `OidcKeys`, `MCOidcKeys` | the caches of `oidc.server.ts`, the logins that use them, the provider |
| `OidcKeysProofs` | the inductive invariant over caches and logins, and what it gives |
| `RequestPath`, `MCRequestPath` | one request of any route from its checks to its reply and log lines |
| `RequestPathProofs` | status and effect, the checks of both sides, the gRPC lines and the line of a page |
| `QuizScreen`, `MCQuizScreen` | `quiz.tsx` in a browser: person, router, form, server |
| `QuizScreenProofs` | answers are meant, one verdict per showing |

Definitions called "Mutant of X" are X with a bug somebody could have written. No
specification uses them; each shows that some property would catch that bug.

### QuizStore

A call is a gRPC invocation. `pc[c]` names the statement it runs next, `req[c]` what it
was asked, `key`, `prompt` and `rows` what it has read so far, `reply[c]` the status its
client got.

* A statement outside a transaction is atomic, sees what is committed (READ COMMITTED)
  and needs a free connection while it runs (`Query`). A transaction (`withTx`) keeps one
  from `Begin` to `Commit` or `Rollback`; its writes stay its own (`StagedChoices`,
  `StagedKey`) until `Commit` puts them into the tables at once. The four INSERTs of choices and
  the upsert of the key (`question_repository.go:371-410`) are one action, `InsertChoicesAndAnswerKey`:
  nobody sees one of them without the others, and a cut between two of them is the cut before them.
* Locks: UPDATE takes the row (`rowLock`); a foreign key check on a choice that an open
  transaction has deleted waits for it (`ChoicesLocked`). Attempts restrict the DELETE of
  choices (`DeleteChoices`).
* The text of a question is its `version`: prompt, choices and key written by one
  transaction share it, so mixing two is visible. Choice ids are never reused.
* `Cut` is a deadline, a client that leaves or a crash between two statements.
  `Delivery` may lose the reply of a call that did finish, which covers an unknown COMMIT.
  A retry is another call.
* `StatementFails` is a failing database, with the status the code gives each statement.
  `DatabaseMayFail` allows it; QuizStoreWide explores it.
* `SoftDelete` is an operator's SQL: no RPC deletes, all of them test `deleted_at`.

Left out: the texts and field messages, UUID syntax (ids are valid), and, here, timestamps
(see MyPage). The deferred trigger that counts choices is not an action: what it
would reject is what `ContentIsOneVersion` says cannot happen.

### MyPage

Extends `QuizStore` and steps with it: a step of a call is `Next /\ SetTimes`. What it adds to
the store is `answered_at` and `updated_at`: both are NOW(), fixed when the INSERT or the
transaction starts (`Starts`), so a row may appear later than rows with later times, and of two
saves of one question the one that began first may be the last to commit. `page[l].got` are the
calls of `Promise.all` that have answered; `IsLatest` is ORDER BY ... LIMIT, free among equal
times. `asked` is a history variable: the tables when the visit began. `PageAssumption` takes the
questions stored at the start to be finitely many, as a table is: a LIMIT of an infinite set need
not exist.

### QuizSelection

`stored` is the table ordered by `created_at DESC`. A call runs up to four queries
(`listUser`, `list`, `relist`, `read`); questions are published and deleted between any two.
The lists of candidates are filtered in order (`Kept`). Any query may fail and end the call with an
error (`Fail`), as may a previous id that is no UUID; only the NOT_FOUND of the read is not an error
but brings in the compiled-in set.
The SHA-256 of the request id is an arbitrary number (`Seeds`), its use modulo the number of
candidates is the code's. `steady` records which questions were live all through a call.

### BrowserSession

A request carries the jar as it was when it left; the server computes its reply from that
alone; `Receive` replaces the jar. So everything that goes wrong between tabs is in the order
of `Send`, `Handle` and `Receive`. `Lose` drops a request or reply, and the person may try again.
State, nonce and PKCE verifier of one login are one number; the provider takes a code once, for
its verifier (`Exchange`). Signatures, discovery and keys succeed or fail as a whole here; their
own steps are `OidcKeys`. `Expire` is the browser that drops the cookie seven days after it was last
set (`session.server.ts:15,63`). A page load does not renew it once the session has a token
(`:139-142`), so time is left out and it may happen whenever there is a cookie. `ended` and
`crossed` are history variables: the tokens of sessions that were logged out or expired, and whether
a request left, or the cookie expired, while a request was under way. Left out is the 400 of a post to
`/login` with another intent than logout, which changes nothing.

### Rollout

One environment, staging: pushes deploy. A release is a push to main that touches one of the paths the
workflow watches. A run begins with the job that resolves its flags (`starting`), which
`deploy-fly.yml:64` puts in no concurrency group, so runs come to the group (`Enqueue`) in any
order; there one is under way, one waits, and whoever comes replaces the one that waits. `Dispatch`
is a run by hand at any ref with migrations ticked or not, or an earlier run done again. `Stop` ends
a run between any two steps, `Abandon` before it comes to the group. `overtaken` and `failed` are
history variables: some run came to the group after a newer one; the releases a run of which
failed. Production runs the same script and is only started by hand, so its behaviours are among
these, with every push abandoned.

A file is applied statement by statement in one transaction (`open`), `schema` is what is committed.
`Bare` are the files that cannot run twice: `init.sql` is one, by its CREATE TRIGGER and ADD
CONSTRAINT. Secrets, Authentik and the content of the checks are left out: they change nothing that
is modelled.

### LatencyWindow

Recording is split at its writes so that the mutex matters; the copy is one step because the
reporter holds the mutex during all of it. `Sortings` are the orders a sort may leave, `Rank`
is the code's. `WindowAssumption` takes the handlers to be finitely many. `log` is a history
variable with the calls in the order in which they got the lock. The metrics of the BFF
(`observability.server.ts`) are the same algorithm on one thread: its behaviours are those in
which `Lock`, `Count` and `Sample` follow each other at once.

### OidcKeys

`cache[d]` is `discoveryCache` or `jwksCache`, `login[l]` a login under way. A lookup is three
steps, as the code is between its awaits: clock and cache are read (`Lookup`, `started` is its
`now`), the provider answers (`Answer`), the answer arrives and is stored under the time the
lookup began (`Arrive`, `ExpiresAt`). So fetches overlap and the slower overwrites the faster.
The time to live is counted in ticks; `readAt`, `joinedAt` and `leftAt` are history variables.
Of the discovery document only the issuer is kept: it is what a login compares with. A key
stands for its pair and its kid; whether a token names its kid, and whether subject, audience
and nonce are right, is free; the claims are tested in the code's order (subject, issuer, audience,
expiry, nonce), and the first that is wrong refuses the token. `Restart` empties both maps and loses the requests under way.

### RequestPath

Requests share nothing between route check and reply but the channel, so there is one of any kind:
its route, whether a user is in the session, what is posted, what `Content-Length` says. `Refusal`
has the checks of a route in their order and the status of each; `Call` sends one call, or the
three of `me.tsx` (`grpcLog` keeps the lines of each side for each method); `Gate` and `Handle` go
on in the backend even when the caller has given up; `Settle` is the callback of a call, and
`failure` the one `Promise.all` rejects with. `Handle` gives any status the use cases can give
(`toStatusError`), and an INTERNAL may follow a COMMIT that took place. An OK has saved what a user
posted, except an answer to a question that is compiled in and not stored, which is judged and not kept
(`KeepsNothing`; `submitDefaultAnswer`, `usecase/quiz/service.go:109-115,149-160`). Texts are of four kinds:
the trim of JavaScript and Go's TrimSpace disagree on U+0085 and U+FEFF. A document is rendered
after its data: `ShellReady`, `ShellError`, `RenderError` are the callbacks of
`renderToPipeableStream`, and a shell that fails is rendered once more by Remix, as the error
page. Every gRPC line has the id of its call; the access line of a document draws an id of its own
(`LineId`), because no route hands its headers on (`entry.server.tsx:57-63`). Forms are taken to be posted by script: their replies are data, not documents.

### QuizScreen

`shown` and `result` are useLoaderData and useActionData, `nav` the navigation under way, `picked`
the radio that is checked in the DOM. A new navigation replaces the old one, whose POST the server
may serve nevertheless (`Serve`). After an action the loader runs again with the address
as it is (`TakeResult`, then `Arrive` or `LoadFails`). `busy` is `isSubmitting` as last rendered: it lags
behind `nav` by a `Render`, so a second click may come first. Radios are keyed by choice, `Rechecked`
is what React does with them. Two assumptions are about React and Remix, not this code: a
click's navigation is rendered before a reply to it arrives (`Rendered`), and a page with script.

## 4. Runs

### Bounds and why they are enough

| run | instance | why |
|---|---|---|
| QuizStore | 3 calls, 1 question, 1 user, 2 choices, pool 3, cuts | every hazard needs at most a reader or answerer and two writers on one question; choices only have to differ |
| QuizStoreWide | 2 calls, seeded, user and unused id, 2 users, cuts, failing statements | other users, creation, the compiled-in set, outages; also the inductive invariant |
| MyPage | 1 visit, 2 calls, 1 question and an unused id, 2 choices, pool 2, lists of 1 | an answer before and one during the visit, an answer and an edit, a creation and an edit in either order; lists of one row are pushed off by the second; two transactions leave the visit no connection |
| QuizSelection | 2 seeded and 2 user questions, one call, 3 seeds | lists of 0 to 4 candidates, previous one of them or none |
| BrowserSession | 2 tabs, 2 accounts, 2 tokens, 2 logins | two people, a logout or an expiry between them, two sessions, any two requests overlap |
| Rollout | 3 releases, files in 1 and 3, the first bare, 2 statements, 2 runs resolving flags at once, by hand with and without migrations | a release without a file between two with one, failures in a file, two runs that come to the group in either order while one is under way and one waits |
| LatencyWindow | 2 handlers, 2 methods, window 3, 4 calls, 60th percentile | the window shifts once, three parties want one lock; with 95 per cent ranks below the maximum begin at 20 samples, with 60 at 3 |
| OidcKeys | 2 logins, 2 keys, 1 move, time to live 2, 3 readings of the clock | two fetches of one document overlap and arrive in either order, an entry runs out, a key is listed, signs and the old one is dropped |
| RequestPath | all six routes, 22 forms | each form has one thing wrong at most; every text of a kind, both ends of the ordinals, 4, 5 and 6 texts, an answer to a compiled-in question |
| QuizScreen, QuizScreenNext | 3 questions of 2 choices, 2 posts | one excluded, one loaded, one to come instead; the second post is the double click |

Symmetry is used for calls, for tabs and accounts, for logins and for the questions of the quiz
page, and never in a run with a liveness property. Deadlock checking is off because every model
may stop: all calls are answered, all bounds used up.

### What holds

* The store: `ContentIsOneVersion`, `StoredVerdictsStand`, `AnswersAreJudgedByTheirVersion`,
  `PagesDoNotGoBack`, `AcknowledgedAnswersAreKept`, `AnsweredQuestionsAreFrozen`,
  `DeletedQuestionsStay`, and the tables implement `QuizLedger`. SubmitAnswer is safe without a
  transaction: an edit that could disturb it replaces the choices, and then either the membership
  check or the foreign key of the attempt refuses it.
* My Page: `HistoryIsComplete`, `HistoryShowsWhatWasAnswered`, `StatsAreOfOneMoment`,
  `QuestionListIsFresh`, and `NobodyWaitsForever`: every visit and every call of the store ends, whatever
  is locked and however small the pool. The history joins the question as it is now, and still shows
  what was answered, because attempts restrict edits. The three parts of a page are not of one
  moment together: an answer may be in the statistics and not in the history, or the reverse.
* Selection: `NoNeedlessRepeat`, `DeletedQuestionsAreNotServed`, and `AlwaysAQuestion` for every call
  none of whose queries fails. The first needs
  a second compiled-in question: with one alone, a question that is deleted between the list and
  the read is replaced by the previous one although others are live. The code has three.
* Session: with any overlap, `LoginsAreNotMixedUp` and the exclusive use of the cookie by a
  user or by a login (`TypeOK`); until a request leaves, or the cookie expires, while a request is
  under way (`crossed`), `FormsStayWithTheirAccount`, `FormsStayGood` (until a logout or the
  expiry of the cookie) and `SessionsChangeOnPurpose` (by a login, a logout or that expiry).
  Overlap does break the last two.
* Rollout: `SchemaIsOfARelease` wherever runs stop and in whatever order they come;
  `MigrationsComeFirst` for every run that migrates. As long as no run comes to the group after a newer
  one (`~overtaken`): `ClientIsNotAhead`, and `MainIsServed`, that main is what serves when nothing is
  under way, unless a run of it failed. After an overtaking neither holds: the backend of the older run
  serves under the newer client until its own client is deployed, and then the older release serves.
* Metrics: `ReportsAreOfOneMoment` (counters, window and percentile), `CallsAreRecorded`.
* OIDC: `LookupsAreRecent`, `LoginsAreJudgedByRecentKeys`. An answer that arrives late does not
  make an entry live longer, because its time to live counts from before the fetch; so the
  wrong order of two arrivals costs freshness within the time to live only.
* A request: `StatusTellsTheTruth` (200 is only said of what was saved, but for answers to compiled-in
  questions that are not stored), `GatesAgree` (but for U+0085), `LogsTellWhatHappened` (the ids of gRPC
  lines and of replies without a page, the status of a page's line), `RequestsAreAnswered`.
* The quiz page: `AnswersAreMeant`, `OneVerdictPerShowing`.

### What does not (each a finding in `PROJECT.json`)

| run | what the code does |
|---|---|
| BrowserSessionUndone | a page load that overlaps a login takes it back |
| QuizScreenNext | after the reload that follows an answer, "next" may bring the answered question again |

Disagreements that were met but have no run, because the model only repeats what one reads, or a
theorem says it already:

* A question somebody has answered can no longer be edited: attempts restrict the DELETE of its
  choices (`question_repository.go:217`, `init.sql:87`), the edit ends in INTERNAL.
  `docs/requirements.md:88` lets authors edit. The theorem AnsweredStaysFrozen is the other side of it.
* The edit form is read in three statements (`question_repository.go:242`); loaded during a
  save it may lack its correct choice, and `questions.$id.edit.tsx:74-77` throws.
* A single question by a user, just answered, is not served again: `nonSystemIDs` leaves it out and is
  empty, so the retry lists the seeded questions only (`usecase/quiz/service.go:56,67-69`), finds none and the
  compiled-in set steps in. The comment at `:65` promises that one question is returned then, and
  `docs/requirements.md:50` keeps the compiled-in set for when nothing is stored.
* `toStatusError` drops the field violations of the backend (`quiz_service.go:88-105`), which
  `apperror.go` collects and the routes' `fieldErrors` look for.
* Of two pushes the older one may come to the group last, because flags are resolved outside it
  (`deploy-fly.yml:64,119`): it is deployed last and stays, while `deploy-fly.yml:117` and
  `docs/Phase2/production-operations.md:217-218` have every push to main deployed. `MainIsServed`
  without `~overtaken` shows it.
* The access line of a document draws an id of its own, for no route exports headers
  (`entry.server.tsx:57-63`), so it cannot be found by the id of its calls, as
  `docs/Phase2/observability.md:89-91` has it.
* The verdict on an answer to a compiled-in question that is not stored is not kept, logged in or not
  (`usecase/quiz/service.go:149-160`), so it is missing from the history and the statistics that
  `docs/requirements.md:68` promises on the My Page; nothing tells the person.
* CANCELLED has no row in the table of statuses and becomes 500; `docs/tech.md:190` says it is only logged.
* `docs/tech.md:152` has the backend reject duplicate choices; neither implementation does.
* A text of nothing but U+0085 passes the form and is refused by the backend, without the field it is about.
* `entry.server.tsx:51` promises one access line per request; a shell that fails leaves two.
* A double click before the button is disabled records two attempts, as does a player who
  posts again after a timeout (`attempt_repository.go:27`): an attempt has no key to recognise a repetition by.
* Two saves of one question: the later one wins without notice (`question_repository.go:192`).

* A failing database is reported as the caller's fault: any error of GetCorrectChoiceID but
  "no rows" becomes INVALID_ARGUMENT (`question_repository.go:124`, `OutageCode`), while
  `docs/design.md:213-214` says 500 or 503.
* Of two tabs opened at once in a fresh browser one form is refused with 403: both loads draw a
  token (`session.server.ts:144`). `docs/Phase2/csrf-rollout.md:5` keeps 403 for tokens that are
  missing or forged. `FormsStayGood` without `~crossed` shows it. A form older than the cookie's seven
  days is refused with 403 as well.
* Every run with migrations applies all files again (`apply_db_migrations.sh:27`), and
  `init.sql` cannot run twice (CREATE TRIGGER at :31, ADD CONSTRAINT at :61), so the second one
  fails. `docs/Phase2/migration-operations.md:26` gives that script for adding a file to an existing
  database.
* A push without migrations deploys a backend whose migration was in the run before, which
  failed or was replaced (`deploy-fly.yml:93`). `MigrationsComeFirst` without `run.migrate` shows it.
* Request counts are since the start (`collector.go:73`), not of the period as
  `docs/Phase2/observability.md:64` says.

### Fairness

`QuizStore` and `MyPage`: weak fairness of the server's steps of each call. A goroutine that can
run does, and a statement whose locks are free completes; a lock that is waited for is only held
by calls that can go on, so weak fairness is enough although others may overtake for a while
(every call is one-shot, so nobody overtakes for ever). Nothing makes clients call, deadlines fire
or operators delete. In `MyPage` also weak fairness of the calls of a loader that runs; nothing
makes anybody open the page or a call fail. `LatencyWindow`: weak fairness of the steps under the
lock and strong fairness of taking it, which Go's mutex gives by its starvation mode.
`RequestPath`: weak fairness of the steps the event loop owes once they are due, and of the two
timers, the deadline of a call and the abort of a render; none of the backend, the network or the
renderer, so it is the timers alone that `RequestsAreAnswered` rests on. The other modules assume
none: nothing is claimed to happen.

## 5. Proofs

`QuizStoreProofs` proves, for any number of calls, questions, users, choices and
connections, with cuts and outages allowed or not:

| theorem | statement |
|---|---|
| InductiveInvariant | `Spec => []IndInv` |
| TypesHold | `Spec => []TypeOK` |
| CommittedContentIsWhole | `Spec => []ContentIsOneVersion` |
| VerdictsStand | `Spec => []StoredVerdictsStand` |
| VerdictsFitTheVersion | `Spec => []AnswersAreJudgedByTheirVersion` |
| AnsweredStaysFrozen | `Spec => AnsweredQuestionsAreFrozen` |
| DeletedStaysDeleted | `Spec => DeletedQuestionsStay` |
| StoreImplementsLedger | `Spec => ImplementsLedger` |

and, in what clients were told:

| theorem | statement |
|---|---|
| AnswersAreKept | `Spec => []AcknowledgedAnswersAreKept` |
| PagesGoForward | `Spec => []PagesDoNotGoBack` |

They rest on `ConstantsAssumption` (sizes positive, what is stored at the start has an
author) and `SentinelsAssumption` (the model values for "none" are not members), nothing else.

`StoredVerdictsStand` is not inductive. To keep it, `CreateAttempt` needs to know that the key
read two statements earlier is still the current one if the chosen row still exists:
`KeysAreDated` dates the key a call holds by the version it belongs to. To keep that, a
`Commit` must be the only step that changes a version, one call at a time (`LocksFit`), to a
question nobody has answered (`EditsAreAllowed`), each call at a statement of its own RPC
(`RequestsFit`). An attempt names a call that is done (`AttemptsComeLast`), so a call is judged
once in the ledger; an id that has no row yet starts at version 0 (`UnusedIdsAreNew`), so creation
is the ledger's `Publish`. `IndInv` is checked by TLC in the run QuizStoreWide before it is
proved.

The proof has a lemma per action. What the actions have in common is proved once: what stays with
the other calls (`OthersKeep`), a statement that writes no table (`StatementFrame`, `LocksFrame`),
the end of a call (`ReleaseFrame`, `FinishKeeps`), a request of published content
(`PublishedIsDated`, `RequestKeeps`). The action properties and the refinement use `IndInv` as the
invariant of the step: only `CreateAttempt`, `Commit` and `SoftDelete` move the ledger, all others
stutter.

What clients were told rests on `IndInv` and a second invariant. `RepliesStand` says it of one
call at a time, together with what a page in the making has read (`PageFits`: nothing, the row, or
one version of the choices too, none newer than the question is now). For the other calls it is
enough that tables only grow (`TablesGrow`): attempts are added, versions go up, and a compiled-in
question that is not stored stays so, because no creation gets its id. For the call that moves,
`ContentIsOneVersion` makes every statement read one whole version.

The second part of the module proves of the composition with `MyPage`, for any number of visits
besides and any page size:

| theorem | statement |
|---|---|
| StoreStaysConsistent | `PageSpec => []IndInv` |
| PagesLeaveTheLedger | `PageSpec => ImplementsLedger` |
| PagesStayRight | `PageSpec => []PageInv`, the invariant of the visits |
| HistoryStaysRight | `PageSpec => []HistoryShowsWhatWasAnswered` |
| StatsStayOfOneMoment | `PageSpec => []StatsAreOfOneMoment` |
| HistoryStaysComplete | `PageSpec => []HistoryIsComplete` |
| QuestionListStaysFresh | `PageSpec => []QuestionListIsFresh` |
| ListsStayRight | `PageSpec => []ListsInv`, the invariant of times and lists |
| PageTypesHold | `ASSUME IsFiniteSet(Calls) PROVE PageSpec => []PageTypeOK` |

A step of the composition is a step of the store or leaves it alone (`StepOfTheStore`), so
`IndInv` and the refinement (`StepOfTheLedger`) carry over. By `IndInv` an answered question has
the choices of its current version only, and the chosen row is one of them: the prompt the query
joins is the one the answer was given to (`AnswersAreToTheCurrentText`). The statistics need that
answers are only ever added (`AttemptsGrow`), so those there were when the visit began are among
those counted (`AskedIsKept`).

The two lists are a matter of times. `ListsInv` says that no two calls are given one time and
that none is later than now (`ClockFits`), that the tables are finite and a call has one attempt
(`RowsFit`), and what each visit was given (`ListsFit`). A row only goes on: an attempt stays,
a question goes from absent to live to deleted and its version up (`RowGoesOn`), so a row that
was there when the visit began is there at the query, and what pushes it off the list is
no older (`LatestAre`). A LIMIT of a finite table exists and takes as many rows as there are up to
it (`LimitIs`). PageTypeOK bounds times by the number of calls, hence the hypothesis of
PageTypesHold; nothing else needs the calls to be finitely many.

`BrowserSessionProofs`, for any number of tabs, people, tokens and logins:

| theorem | statement |
|---|---|
| TypesHold | `Spec => []TypeOK` |
| LoginsStayApart | `Spec => LoginsAreNotMixedUp` |
| FormsKeepTheirAccount | `Spec => []FormsStayWithTheirAccount` |
| FormsAreGood | `Spec => []FormsStayGood` |
| ChangesAreOnPurpose | `Spec => SessionsChangeOnPurpose` |

`SessionInv` relates a reply to the request it answers (`Follows`: the cookie keeps user and
token, gets its first token, lets a stranger in, or ends; `Shows`: a form of that session, or
the verdict on the form that was posted). That holds however requests cross. While they take
turns (`TurnsFit`), the request under way carries the cookie that is still in the jar, every
form shown is of the session in the jar or of one that was logged out or expired, and a token that is on
its way is on no form yet; once requests cross, none of the three holds, which is where the
run BrowserSessionUndone finds its violation. A cookie of somebody logged in has no
pending login, so a callback never replaces one user by another.

`OidcKeysProofs`, for any number of logins, keys and documents and any time to live:

| theorem | statement |
|---|---|
| TypesHold | `Spec => []TypeOK` |
| LookupsFindRecentEntries | `Spec => []LookupsAreRecent` |
| JudgedByRecentKeys | `Spec => LoginsAreJudgedByRecentKeys` |

`IInv` dates every value by the moment the provider was read: a cache entry, an answer on its
way back and the list a login judges by were published then, the last of them less than a time to
live before the login looked (`CacheFits`, `LoginsFit`), and the provider's record of when
keys joined and left is in order (`ProviderFits`). The clock is in
every conjunct, so a step of time alone is the longest case (`StillFits`).

`RolloutProofs`, for any number of releases, migration files and statements:

| theorem | statement |
|---|---|
| TypesHold | `Spec => []TypeOK` |
| SchemaStaysOfARelease | `Spec => []SchemaIsOfARelease` |
| ClientStaysBehind | `Spec => []ClientIsNotAhead` |
| BackendsFindTheirSchema | `Spec => []MigrationsComeFirst` |
| MainComesToServe | `Spec => []MainIsServed` |

`RolloutInv` orders the releases in the system as long as no run comes after a newer one,
`client <= backend <= run <= queued` (`ReleasesFit`), and says where main is until it serves: a run of
it resolves its flags, waits or is under way, or one of them failed (`HeadIsComing`; a run
that takes the place of another is not older, and there is none newer than main). It says too that the files a migrating run has left behind it are applied and that
none is left once it deploys (`FilesFit`). The next file is the least one, which exists by
well-founded induction on the numbers (`MinIsFirst`).

`QuizSelectionProofs`, for any number of calls, questions and seeds:

| theorem | statement |
|---|---|
| RepeatsAreNeeded | `ASSUME SeveralDefaults PROVE Spec => []NoNeedlessRepeat` |
| QuestionsNeverRunOut | `Spec => []AlwaysAQuestion` |
| DeletedStayUnserved | `Spec => DeletedQuestionsAreNotServed` |

`SeveralDefaults` says that whichever question was the last one, the compiled-in set has another;
it has three, and section 4 says what happens with one. `SelectionInv` says of each query what an
empty list so far means: whatever was live all through the call is the previous question
(`CallFits`). That a list of candidates has exactly the live rows (`CandidatesAre`) is proved by
induction over the length of the list, as a set of numbers (`CountingUp`).

`LatencyWindowProofs`, for any number of handlers, methods and calls, any window and percentile:

| theorem | statement |
|---|---|
| TypesHold | `Spec => []TypeOK` |
| ReportsDescribeOneMoment | `Spec => []ReportsAreOfOneMoment` |

`WindowInv` relates counters and windows to the log. While a handler has the lock the log is one
call ahead: of the counters at its first statement, of the window until it gives the lock back
(`Counted`, `Sampled`, `StateFits`); with the lock free neither is behind, so what the reporter
copies is a prefix of the log and stays one (`CopyFits`, `ReportsStay`). A window is a rising list
of indexes of the log that leaves out only older calls, and those only when it is full
(`TakenFrom`); `AppendSample` keeps it so (`WindowMoves`), and these are the newest calls
(`WindowIsRecent`). The percentile needs that samples can be sorted (`SortingExists`: each more
finds its place) and that the sample at a rank has that many up to it and fewer below it
(`PercentileIs`, `RankIs`).

`RequestPathProofs`, resting on `FormsAssumption` alone:

| theorem | statement |
|---|---|
| StatusIsTrue | `Spec => []StatusTellsTheTruth` |
| BothSidesAgree | `Spec => []GatesAgree` |
| LogsAreTrue | `Spec => []LogsTellWhatHappened` |

`PathInv` says what calls there are at each step of a request (`CallsFit`, `StepFits`), and of its
reply: 200 needs every call done, and saved where it `Saves`, and a status from 300 to 499 that the call that writes
was not made or was refused before it wrote (`ReplyFits`). A route that writes makes no
other call (`RoutesCallMethods`). `LogInv` adds that each side's lines about a call follow from
where the call is (`LogsFollowCalls`), that all calls of a request, and its reply unless that is a
page, carry one id (`IdsAgree`), and that a document is logged with the status it was sent with (`PageLogged`).

`QuizScreenProofs`, for any number of questions, choices and posts:

| theorem | statement |
|---|---|
| RecordedAnswersAreMeant | `Spec => []AnswersAreMeant` |
| OneVerdictOnly | `Spec => []OneVerdictPerShowing` |

`ScreenInv` ties the form to what is shown (`FormFits`), each post under way to what was clicked
(`PostsFit`) and the verdict on the page to the question it was given for (`VerdictFits`).

Model-checked only: liveness under fairness (`NobodyWaitsForever`, `CallsAreRecorded`,
`RequestsAreAnswered`), because its proof needs ENABLED and the leads-to rules that the prover
does not have. Every other property of the passing runs is a theorem.

## 6. Not modelled

Rendering and wording; the values of timestamps but for their order; UUID and form syntax; gRPC
and HTTP framing; signature algorithms; forms posted without script; the markup of the screens
other than the quiz page; wiring and process start (`main.go`); Cloudflare, terraform and Authentik
themselves; generated code. The provider's own promises are not: it may answer anything. That
one `fetch` to it ends is assumed nowhere, because the code gives it no deadline.
