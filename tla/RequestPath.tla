---------------------------- MODULE RequestPath ----------------------------
(***************************************************************************)
(* One request on its way: through the checks of a Remix route, out as one  *)
(* gRPC call or three at once, through the gate and the handler of the      *)
(* backend, back as a status and a page, with the log lines it leaves.      *)
(*                                                                          *)
(* Requests share no state on this way, so there is one.  Forms are posted  *)
(* by script, pages are documents or data.  An id is named after who drew   *)
(* it: the request, one of its calls, or the access line of a page.         *)
(***************************************************************************)
EXTENDS Integers, Sequences, SequencesExt

CONSTANTS
  Forms        \* what can be posted: [texts, ordinal, long, compiled], see Texts

Routes == {"quiz", "answer", "create", "editor", "save", "me"}

Posts == {"answer", "create", "save"}

\* Mutant of Protected: the editor forgets requireAuthenticatedUser.
ProtectedForgotten == {"create", "save", "me"}

Protected == {"create", "editor", "save", "me"}

MethodsOf(route) ==
  CASE route = "quiz"   -> {"GetQuestion"}
    [] route = "answer" -> {"SubmitAnswer"}
    [] route = "create" -> {"CreateQuestion"}
    [] route = "editor" -> {"GetMyQuestion"}
    [] route = "save"   -> {"UpdateQuestion"}
    [] route = "me"     -> {"ListMyAttempts", "GetMyStats", "ListMyQuestions"}

Methods == UNION {MethodsOf(route) : route \in Routes}

Drafting == {"CreateQuestion", "UpdateQuestion"}

Writing == Drafting \cup {"SubmitAnswer"}

AllowAnonymous == {"GetQuestion", "SubmitAnswer"}

\* nel is U+0085, which Go takes for a space, bom is U+FEFF, which JavaScript does.
Texts == {"text", "blank", "nel", "bom"}

\* The texts of a draft are its prompt and its choices, those of an answer are
\* the ids of question and choice; the question may be one that is compiled in
\* and not stored.
ASSUME FormsAssumption ==
  \A form \in Forms : /\ form.texts \in Seq(Texts) /\ form.texts # <<>>
                      /\ form.ordinal \in Int
                      /\ form.long \in BOOLEAN /\ form.compiled \in BOOLEAN

VARIABLES
  request,   \* what has arrived
  step,      \* where the route is with it
  calls,     \* per method: what the route and the backend know of the call
  failure,   \* code of the first call that failed
  pending,   \* what is being rendered
  reply,     \* status and x-request-id sent
  grpcLog,   \* grpc_client_access and grpc_access lines of each call
  httpLog    \* id and status of http_access lines

vars == <<request, step, calls, failure, pending, reply, grpcLog, httpLog>>

Requests ==
  [route : Routes, user : BOOLEAN, document : BOOLEAN, named : BOOLEAN, token : BOOLEAN,
   length : {"none", "ok", "over", "bad"}, form : Forms]

\* Documents are read, forms are posted; only what is looked at varies.
Plausible(q) ==
  /\ q.route \in Posts => ~q.document
  /\ q.route \notin Posts => q.token /\ q.length = "none" /\ q.form = CHOOSE f \in Forms : TRUE
  /\ q.route \notin {"editor", "save"} => q.named
  /\ q.route = "answer" <=> (q.route \in Posts /\ Len(q.form.texts) = 2)

NoCall == [bff |-> "none", backend |-> "none", id |-> "none", outcome |-> "none", changed |-> FALSE]

Sides == {"bff", "backend"}

NoReply == [status |-> 0, id |-> "none"]

Init ==
  /\ request \in {q \in Requests : Plausible(q)}
  /\ step = "arrived"
  /\ calls = [m \in Methods |-> NoCall]
  /\ failure = "none"
  /\ pending = NoReply /\ reply = NoReply
  /\ grpcLog = [by \in Sides |-> [m \in Methods |-> <<>>]]
  /\ httpLog = <<>>

----------------------------------------------------------------------------
(* The reply *)

\* A code without a status of its own counts as UNKNOWN.
HttpStatus(code) ==
  CASE code = "OK" -> 200
    [] code \in {"INVALID_ARGUMENT", "OUT_OF_RANGE"} -> 400
    [] code = "UNAUTHENTICATED" -> 401
    [] code = "PERMISSION_DENIED" -> 403
    [] code = "NOT_FOUND" -> 404
    [] code \in {"ABORTED", "ALREADY_EXISTS", "FAILED_PRECONDITION"} -> 409
    [] code = "RESOURCE_EXHAUSTED" -> 429
    [] code = "UNIMPLEMENTED" -> 501
    [] code = "UNAVAILABLE" -> 503
    [] code = "DEADLINE_EXCEEDED" -> 504
    [] OTHER -> 500

\* Mutant of Status: a time-out is blamed on the client.
StatusOfTimeout(code) == IF code = "DEADLINE_EXCEEDED" THEN 408 ELSE HttpStatus(code)

Status(code) == HttpStatus(code)

\* Data goes out as it is, and so does a redirect; a page is rendered first.
Conclude(status, id) ==
  IF request.document /\ status # 302
  THEN /\ step' = "rendering"
       /\ pending' = [status |-> status, id |-> id]
       /\ UNCHANGED reply
  ELSE /\ step' = "replied"
       /\ reply' = [status |-> status, id |-> id]
       /\ UNCHANGED pending

----------------------------------------------------------------------------
(* The checks of the route *)

BlankForTrim == {"blank", "bom"}
BlankForTrimSpace == {"blank", "nel"}

DraftAccepted(form) ==
  Len(form.texts) = 5 /\ form.ordinal \in 0 .. 3 /\ ~form.long

FormAccepted(form) ==
  /\ ToSet(form.texts) \cap BlankForTrim = {}
  /\ request.route = "answer" \/ DraftAccepted(form)

\* What the request itself brings, before anything is sent.
OwnId == IF request.route = "quiz" THEN "none" ELSE "request"

LengthRefusal == CASE request.length = "bad" -> 400 [] request.length = "over" -> 413 [] OTHER -> 0

PostRefusal ==
  IF LengthRefusal # 0 THEN LengthRefusal
  ELSE IF ~request.token THEN 403
  ELSE IF ~request.named \/ ~FormAccepted(request.form) THEN 400
  ELSE 0

\* The status a route refuses a request with, in the order of its checks.
Refusal ==
  IF request.route \in Protected /\ ~request.user THEN 302
  ELSE IF request.route \in Posts THEN PostRefusal
  ELSE IF ~request.named THEN 400
  ELSE 0

Refuse ==
  /\ step = "arrived" /\ Refusal # 0
  /\ Conclude(Refusal, IF Refusal = 302 \/ request.route \notin Posts THEN "none" ELSE "request")
  /\ UNCHANGED <<request, calls, failure, grpcLog, httpLog>>

\* Mutant of CallId: the loader does not pass its id on.
CallIdFresh(m) == m

\* A call draws an id of its own where the route brings none.
CallId(m) == IF request.route = "quiz" THEN m ELSE "request"

\* All calls of the route leave at once.
Call ==
  /\ step = "arrived" /\ Refusal = 0
  /\ calls' = [m \in Methods |->
       IF m \in MethodsOf(request.route)
       THEN [NoCall EXCEPT !.bff = "waiting", !.id = CallId(m)] ELSE calls[m]]
  /\ step' = "calling"
  /\ UNCHANGED <<request, failure, pending, reply, grpcLog, httpLog>>

\* No client could be made: nothing is sent, and nothing known of an id but
\* what the route drew.
CannotCall ==
  /\ step = "arrived" /\ Refusal = 0
  /\ Conclude(Status("UNKNOWN"), OwnId)
  /\ UNCHANGED <<request, calls, failure, grpcLog, httpLog>>

----------------------------------------------------------------------------
(* The backend *)

WriteLine(by, m, code) ==
  grpcLog' = [grpcLog EXCEPT ![by][m] = Append(@, [id |-> calls[m].id, code |-> code])]

Finish(m, code, changed) ==
  /\ calls' = [calls EXCEPT ![m].backend = "ended", ![m].outcome = code, ![m].changed = changed]
  /\ WriteLine("backend", m, code)

\* The call reaches the interceptors, even when its caller has given up.
Gate(m) ==
  /\ calls[m].bff # "none" /\ calls[m].backend = "none"
  /\ IF m \in AllowAnonymous \/ request.user
     THEN /\ calls' = [calls EXCEPT ![m].backend = "running"]
          /\ UNCHANGED grpcLog
     ELSE Finish(m, "UNAUTHENTICATED", FALSE)
  /\ UNCHANGED <<request, step, failure, pending, reply, httpLog>>

ValidateDraft(form) ==
  /\ Len(form.texts) = 5
  /\ ToSet(form.texts) \cap BlankForTrimSpace = {}
  /\ form.ordinal \in 0 .. 3

\* An answer to a question that is compiled in is judged and not kept, for
\* the table has nothing it could refer to.
KeepsNothing(m) == m = "SubmitAnswer" /\ request.form.compiled

Saves(m) == m \in Writing /\ request.user /\ ~KeepsNothing(m)

\* What a handler can answer, and whether it has saved something then: an
\* error of the database may be one of a commit that took place.
Handle(m) ==
  /\ calls[m].backend = "running"
  /\ IF m \in Drafting /\ ~ValidateDraft(request.form)
     THEN Finish(m, "INVALID_ARGUMENT", FALSE)
     ELSE \/ Finish(m, "OK", Saves(m))
          \/ \E code \in {"INVALID_ARGUMENT", "NOT_FOUND", "PERMISSION_DENIED"} :
               Finish(m, code, FALSE)
          \/ \E changed \in {FALSE, Saves(m)} : Finish(m, "INTERNAL", changed)
  /\ UNCHANGED <<request, step, failure, pending, reply, httpLog>>

----------------------------------------------------------------------------
(* The answers *)

\* The callback of the call: one line, and the first failure is the one that
\* Promise.all reports.
Settle(m, code) ==
  /\ calls[m].bff = "waiting"
  /\ calls' = [calls EXCEPT ![m].bff = code]
  /\ WriteLine("bff", m, code)
  /\ failure' = IF failure = "none" /\ code # "OK" THEN code ELSE failure
  /\ UNCHANGED <<request, step, pending, reply, httpLog>>

Answer(m) == calls[m].backend = "ended" /\ Settle(m, calls[m].outcome)

Break(m) == \E code \in {"UNAVAILABLE", "CANCELLED"} : Settle(m, code)

\* Mutant of Deadline: calls are made without one.
DeadlineForgotten(m) == FALSE /\ Settle(m, "DEADLINE_EXCEEDED")

Deadline(m) == Settle(m, "DEADLINE_EXCEEDED")

Sent == {m \in Methods : calls[m].bff # "none"}

SentId == CHOOSE id \in {calls[m].id : m \in Sent} : TRUE

\* The route answers at the first failure, or when all went well.
Fail == failure # "none" /\ Conclude(Status(failure), SentId)

AllArrived == \A m \in Sent : calls[m].bff = "OK"

Succeed == AllArrived /\ Conclude(Status("OK"), SentId)

\* An answer that lacks what the page needs is an error of the route's own.
Lack ==
  /\ AllArrived /\ request.route \notin {"me", "answer"}
  /\ Conclude(Status("UNKNOWN"), OwnId)

Respond ==
  /\ step = "calling"
  /\ Fail \/ Succeed \/ Lack
  /\ UNCHANGED <<request, calls, failure, grpcLog, httpLog>>

----------------------------------------------------------------------------
(* The page *)

\* The routes export no headers, so neither the document nor its access line has
\* the id of theirs (browsers send none): the line draws its own.
LineId == IF httpLog = <<>> THEN "page" ELSE "error page"

LogHttpAccess(status) == httpLog' = Append(httpLog, [id |-> LineId, status |-> status])

SendDocument(status) ==
  /\ step' = "replied"
  /\ reply' = [status |-> status, id |-> "none"]
  /\ LogHttpAccess(status)
  /\ UNCHANGED <<request, calls, failure, pending, grpcLog>>

\* A part below the shell fails to render before the shell is ready.
RenderError ==
  /\ step = "rendering"
  /\ pending' = [pending EXCEPT !.status = 500]
  /\ UNCHANGED <<request, step, calls, failure, reply, grpcLog, httpLog>>

ShellReady == step = "rendering" /\ SendDocument(pending.status)

\* The shell itself fails, or is not ready when the timer aborts it: Remix
\* renders once more, the error page, and gives up when that fails too.
ShellError ==
  /\ step = "rendering"
  /\ \/ httpLog # <<>> /\ SendDocument(500)
     \/ /\ httpLog = <<>>
        /\ LogHttpAccess(500)
        /\ pending' = [pending EXCEPT !.status = 500]
        /\ UNCHANGED <<request, step, calls, failure, reply, grpcLog>>

----------------------------------------------------------------------------
Next ==
  \/ Refuse \/ Call \/ CannotCall
  \/ \E m \in Methods : Gate(m) \/ Handle(m) \/ Answer(m) \/ Break(m) \/ Deadline(m)
  \/ Respond
  \/ RenderError \/ ShellReady \/ ShellError

\* The event loop runs what is due, and the two timers of the path, the
\* deadline of a call and the abort of a render, go off.  The backend owes
\* nothing.
Fairness ==
  /\ WF_vars(Refuse \/ Call \/ CannotCall) /\ WF_vars(Respond) /\ WF_vars(ShellError)
  /\ \A m \in Methods : WF_vars(Deadline(m))

Spec == Init /\ [][Next]_vars /\ Fairness

----------------------------------------------------------------------------
(* Properties *)

\* 200 is only said when the backend has done all that was asked, and has
\* saved what a person who is logged in posted, unless it answers a question
\* that is compiled in and not stored (submitDefaultAnswer); a status that blames the
\* request is never said of one that had, or will still have, an effect
\* (mapGrpcCodeToHttpStatus, the routes' replies).
StatusTellsTheTruth ==
  LET said == IF step = "rendering" THEN pending.status ELSE reply.status
  IN  /\ said = 200 =>
           \A m \in MethodsOf(request.route) :
             /\ calls[m].outcome = "OK"
             /\ m \in Writing /\ request.user => calls[m].changed \/ KeepsNothing(m)
      /\ said \in 300 .. 499 => \A m \in Methods : ~calls[m].changed

\* The checks of the BFF and those of the backend agree: what a route lets
\* through is not refused as anonymous nor for its draft, but for a text of
\* nothing but U+0085 (requireAuthenticatedUser and allowAnonymous,
\* createQuestionFormSchema and validateDraft).
GatesAgree ==
  \A m \in Sent :
    /\ calls[m].outcome # "UNAUTHENTICATED"
    /\ m \in Drafting => ValidateDraft(request.form) \/ "nel" \in ToSet(request.form.texts)

LinesOf(by, m) == ToSet(grpcLog[by][m])

\* A call leaves one line in the BFF when it settles and one in the backend
\* when it ends there, all gRPC lines of a request carry one id, which is that
\* of a reply without a page, and the lines of a call differ only where the BFF
\* never got the answer.  A page leaves an access line with the status it was
\* sent with, and a second one only where that is the 500 of a shell that
\* failed twice or of its error page (observeGrpcCall, logAccess,
\* logHttpAccessOnce).
LogsTellWhatHappened ==
  /\ \A m \in Methods :
       /\ Len(grpcLog["bff"][m]) = IF m \in Sent /\ calls[m].bff # "waiting" THEN 1 ELSE 0
       /\ Len(grpcLog["backend"][m]) = IF calls[m].backend = "ended" THEN 1 ELSE 0
  /\ \A by, side \in Sides, m, n \in Methods :
       \A line \in LinesOf(by, m), other \in LinesOf(side, n) :
         line.id = other.id /\ (reply.id # "none" => line.id = reply.id)
  /\ \A m \in Methods : \A here \in LinesOf("bff", m), there \in LinesOf("backend", m) :
       here.code # there.code => here.code \in {"UNAVAILABLE", "CANCELLED", "DEADLINE_EXCEEDED"}
  /\ (step = "replied" /\ request.document /\ reply.status # 302) =>
       httpLog # <<>> /\ \A line \in ToSet(httpLog) : line.status = reply.status
  /\ httpLog # <<>> => step \in {"rendering", "replied"} /\ (Len(httpLog) > 1 => reply.status = 500)

\* Every request is answered, whatever the backend and the renderer do.
RequestsAreAnswered == step = "arrived" ~> step = "replied"
=============================================================================
