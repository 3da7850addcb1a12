------------------------- MODULE RequestPathProofs -------------------------
(***************************************************************************)
(* For whatever may be posted: the status fits what was done, the checks of *)
(* both sides agree, and the log lines tell what happened.                  *)
(***************************************************************************)
EXTENDS RequestPath, TLAPS

Refusals == {"INVALID_ARGUMENT", "NOT_FOUND", "PERMISSION_DENIED"}

\* What a handler that was reached answers, and what a call is cut off with.
Outcomes == {"OK", "INTERNAL"} \cup Refusals

Cuts == {"UNAVAILABLE", "CANCELLED", "DEADLINE_EXCEEDED"}

Ids == {"none", "request"} \cup Methods

CallRecords ==
  [bff : {"none", "waiting"} \cup Outcomes \cup Cuts, backend : {"none", "running", "ended"},
   id : Ids, outcome : {"none"} \cup Outcomes, changed : BOOLEAN]

\* What a call knows of its own: sent only by a route that let the request
\* through, ended once, and its effect is told by its outcome.
CallFits(m, c) ==
  /\ c.bff # "none" => m \in MethodsOf(request.route) /\ Refusal = 0
  /\ c.backend # "none" => c.bff # "none"
  /\ c.backend # "ended" => c.outcome = "none" /\ ~c.changed
  /\ c.backend = "ended" => c.outcome \in Outcomes
  /\ c.bff \in Outcomes => c.outcome = c.bff
  /\ c.outcome = "OK" => (c.changed <=> Saves(m))
  /\ c.outcome \in Refusals => ~c.changed
  /\ c.changed => m \in Writing

CallsFit ==
  /\ request \in Requests
  /\ calls \in [Methods -> CallRecords]
  /\ \A m \in Methods : CallFits(m, calls[m])

StepFits ==
  /\ step \in {"arrived", "calling", "rendering", "replied"}
  /\ step = "arrived" => \A m \in Methods : calls[m].bff = "none"
  /\ step = "calling" => \A m \in MethodsOf(request.route) : calls[m].bff # "none"
  /\ failure # "none" =>
       /\ failure \in (Outcomes \cup Cuts) \ {"OK"}
       /\ \E m \in Methods : calls[m].bff = failure

Said == IF step = "rendering" THEN pending.status ELSE reply.status

\* A reply that blames the request was given when its write, if there was one,
\* had been refused.
ReplyFits ==
  /\ pending \in [status : Nat, id : Ids] /\ reply \in [status : Nat, id : Ids]
  /\ step \in {"arrived", "calling"} => reply.status = 0
  /\ Said = 200 => \A m \in MethodsOf(request.route) : calls[m].outcome = "OK"
  /\ Said \in 300 .. 499 =>
       \A m \in Writing : calls[m].bff # "none" => calls[m].outcome \in Refusals

PathInv == CallsFit /\ StepFits /\ ReplyFits

\* The lines of a call are written when it is settled on that side, with the id
\* it was sent with.
LinesFor(by, c) ==
  IF by = "bff"
  THEN IF c.bff \in {"none", "waiting"} THEN <<>> ELSE <<[id |-> c.id, code |-> c.bff]>>
  ELSE IF c.backend = "ended" THEN <<[id |-> c.id, code |-> c.outcome]>> ELSE <<>>

LogsFollowCalls == grpcLog = [by \in Sides |-> [m \in Methods |-> LinesFor(by, calls[m])]]

\* The calls of a request carry one id, and so does what is said of them.
IdsAgree ==
  /\ \A m \in Sent : calls[m].id = CallId(m)
  /\ step \in {"arrived", "calling"} => pending.id = "none" /\ reply.id = "none"
  /\ \A m \in Sent : {pending.id, reply.id} \subseteq {"none", calls[m].id}

Line(id, status) == [id |-> id, status |-> status]

\* The line of a page is written as it is sent; one of a shell that failed is
\* there before it.
PageLogged ==
  /\ step \in {"arrived", "calling"} => httpLog = <<>>
  /\ step = "rendering" =>
       /\ request.document
       /\ httpLog = <<>> \/ (httpLog = <<Line("page", 500)>> /\ pending.status = 500)
  /\ step = "replied" =>
       \/ httpLog = <<>> /\ (~request.document \/ reply.status = 302)
       \/ httpLog = <<Line("page", reply.status)>>
       \/ httpLog = <<Line("page", 500), Line("error page", 500)>> /\ reply.status = 500

LogInv == LogsFollowCalls /\ IdsAgree /\ PageLogged

----------------------------------------------------------------------------
(* Routes, checks and statuses *)

LEMMA RoutesCallMethods ==
  /\ Writing \subseteq Methods
  /\ \A route \in Routes : MethodsOf(route) \subseteq Methods
  /\ \A route \in Routes : \A m \in Writing \cap MethodsOf(route) : MethodsOf(route) = {m}
<1>1. \A route \in Routes : MethodsOf(route) \subseteq Methods
  BY DEF Methods
<1>2. Writing \subseteq Methods
  <2>1. "SubmitAnswer" \in MethodsOf("answer") /\ "CreateQuestion" \in MethodsOf("create")
        /\ "UpdateQuestion" \in MethodsOf("save")
    BY DEF MethodsOf
  <2> QED
    BY <1>1, <2>1 DEF Routes, Writing, Drafting
<1>3. \A route \in Routes : \A m \in Writing \cap MethodsOf(route) : MethodsOf(route) = {m}
  BY DEF Routes, Writing, Drafting, MethodsOf
<1> QED
  BY <1>1, <1>2, <1>3

\* Calls that need a user are only made for one.
LEMMA ProtectedCallsHaveAUser ==
  ASSUME request \in Requests, Refusal = 0, NEW m \in MethodsOf(request.route)
  PROVE  m \in AllowAnonymous \/ request.user
<1>1. request.route \in Routes
  BY DEF Requests
<1>2. request.user \/ request.route \notin Protected
  BY DEF Refusal
<1> QED
  BY <1>1, <1>2 DEF Protected, Routes, MethodsOf, AllowAnonymous

LEMMA StatusOfFailure ==
  ASSUME NEW code \in (Outcomes \cup Cuts) \ {"OK"}
  PROVE  /\ Status(code) \in Nat /\ Status(code) # 200
         /\ Status(code) \in 300 .. 499 => code \in Refusals
BY DEF Status, HttpStatus, Outcomes, Cuts, Refusals

LEMMA RefusalBlames == Refusal \in {0, 302, 400, 403, 413}
BY DEF Refusal, PostRefusal, LengthRefusal

LEMMA InitFits == Init => PathInv
<1> SUFFICES ASSUME Init PROVE PathInv
  OBVIOUS
<1>1. request \in Requests /\ NoCall \in CallRecords
  BY DEF Init, NoCall, CallRecords, Ids
<1>2. CallsFit
  BY <1>1 DEF Init, CallsFit, CallFits, NoCall, Outcomes, Refusals
<1>3. StepFits
  BY DEF Init, StepFits, NoCall
<1>4. ReplyFits
  BY DEF Init, ReplyFits, Said, NoReply, Ids
<1> QED
  BY <1>2, <1>3, <1>4 DEF PathInv

----------------------------------------------------------------------------
(* The route *)

\* What is said is what the route concludes with, rendered or not.
LEMMA ConcludeSays ==
  ASSUME PathInv, NEW status \in Nat, NEW id \in Ids, Conclude(status, id),
         step \in {"arrived", "calling"}, UNCHANGED <<request, calls, failure>>,
         status = 200 => \A m \in MethodsOf(request.route) : calls[m].outcome = "OK",
         status \in 300 .. 499 =>
           \A m \in Writing : calls[m].bff # "none" => calls[m].outcome \in Refusals
  PROVE  PathInv'
<1>1. /\ step' \in {"rendering", "replied"} /\ Said' = status
      /\ pending' \in [status : Nat, id : Ids] /\ reply' \in [status : Nat, id : Ids]
  BY DEF Conclude, Said, PathInv, ReplyFits
<1>2. CallsFit'
  BY DEF PathInv, CallsFit, CallFits, Saves, KeepsNothing, Refusal, PostRefusal,
         LengthRefusal, FormAccepted, DraftAccepted
<1>3. StepFits'
  BY <1>1 DEF PathInv, StepFits
<1>4. ReplyFits'
  BY <1>1 DEF ReplyFits
<1> QED
  BY <1>2, <1>3, <1>4 DEF PathInv

LEMMA RefuseKeeps ==
  ASSUME PathInv, Refuse
  PROVE  PathInv'
<1>1. \A m \in Writing : calls[m].bff = "none"
  BY RoutesCallMethods DEF Refuse, PathInv, StepFits
<1>2. Refusal \in Nat /\ Refusal # 200
  BY RefusalBlames
<1> DEFINE id == IF Refusal = 302 \/ request.route \notin Posts THEN "none" ELSE "request"
<1>3. id \in Ids
  BY DEF Ids
<1>4. Conclude(Refusal, id) /\ step = "arrived" /\ UNCHANGED <<request, calls, failure>>
  BY DEF Refuse
<1> QED
  BY <1>1, <1>2, <1>3, <1>4, ConcludeSays

LEMMA CannotCallKeeps ==
  ASSUME PathInv, CannotCall
  PROVE  PathInv'
<1>1. Status("UNKNOWN") = 500 /\ OwnId \in Ids
  BY DEF Status, HttpStatus, OwnId, Ids
<1> QED
  BY <1>1, ConcludeSays DEF CannotCall

LEMMA CallKeeps ==
  ASSUME PathInv, Call
  PROVE  PathInv'
<1> DEFINE sent(m) == [NoCall EXCEPT !.bff = "waiting", !.id = CallId(m)]
<1>1. /\ step = "arrived" /\ Refusal = 0 /\ step' = "calling"
      /\ UNCHANGED <<request, failure, pending, reply>>
      /\ calls' = [m \in Methods |-> IF m \in MethodsOf(request.route) THEN sent(m) ELSE calls[m]]
  BY DEF Call
<1>2. ASSUME NEW m \in Methods
      PROVE  sent(m) \in CallRecords /\ sent(m).bff = "waiting" /\ sent(m).backend = "none"
             /\ sent(m).outcome = "none" /\ ~sent(m).changed
  BY DEF NoCall, CallId, CallRecords, Ids
<1> HIDE DEF sent
<1>3. \A m \in Methods : calls[m].bff = "none"
  BY <1>1 DEF PathInv, StepFits
<1>4. request.route \in Routes /\ MethodsOf(request.route) \subseteq Methods
  BY RoutesCallMethods DEF PathInv, CallsFit, Requests
<1>5. calls' \in [Methods -> CallRecords]
  BY <1>1, <1>2 DEF PathInv, CallsFit
<1>6. ASSUME NEW m \in Methods PROVE CallFits(m, calls[m])'
  <2>1. CASE m \in MethodsOf(request.route)
    <3>1. calls'[m] = sent(m)
      BY <1>1, <2>1
    <3>2. Refusal' = 0 /\ request' = request
      BY <1>1 DEF Refusal, PostRefusal, LengthRefusal, FormAccepted, DraftAccepted
    <3> QED
      BY <1>2, <2>1, <3>1, <3>2 DEF CallFits, Outcomes, Refusals
  <2>2. CASE m \notin MethodsOf(request.route)
    <3>1. calls'[m] = calls[m] /\ calls[m].bff = "none" /\ request' = request
      BY <1>1, <1>3, <2>2
    <3> QED
      BY <3>1 DEF PathInv, CallsFit, CallFits
  <2> QED
    BY <2>1, <2>2
<1>7. CallsFit'
  BY <1>1, <1>5, <1>6 DEF PathInv, CallsFit
<1>8. \A m \in MethodsOf(request.route) : calls'[m].bff # "none"
  BY <1>1, <1>2, <1>4
<1>9. failure = "none"
  BY <1>3 DEF PathInv, StepFits, Outcomes, Cuts, Refusals
<1>10. StepFits'
  BY <1>1, <1>8, <1>9 DEF StepFits
<1>11. ReplyFits'
  BY <1>1 DEF PathInv, ReplyFits, Said
<1> QED
  BY <1>7, <1>10, <1>11 DEF PathInv

LEMMA RespondKeeps ==
  ASSUME PathInv, Respond
  PROVE  PathInv'
<1>1. step = "calling" /\ UNCHANGED <<request, calls, failure>>
  BY DEF Respond
<1>2. request.route \in Routes /\ MethodsOf(request.route) \subseteq Methods
  BY RoutesCallMethods DEF PathInv, CallsFit, Requests
<1>3. \A m \in MethodsOf(request.route) : calls[m].bff # "none"
  BY <1>1 DEF PathInv, StepFits
<1>4. SentId \in Ids /\ OwnId \in Ids
  <2>1. PICK m \in MethodsOf(request.route) : TRUE
    BY <1>2 DEF Routes, MethodsOf
  <2>2. m \in Sent
    BY <1>2, <1>3, <2>1 DEF Sent
  <2>3. \A n \in Sent : calls[n].id \in Ids
    BY DEF Sent, PathInv, CallsFit, CallRecords
  <2>4. SentId \in {calls[n].id : n \in Sent}
    BY <2>2 DEF SentId
  <2> QED
    BY <2>3, <2>4 DEF OwnId, Ids
<1>5. CASE Fail
  <2>1. PICK m \in Methods : calls[m].bff = failure /\ failure \in (Outcomes \cup Cuts) \ {"OK"}
    BY <1>5 DEF Fail, PathInv, StepFits
  <2>2. Status(failure) \in Nat /\ Status(failure) # 200
    BY <2>1, StatusOfFailure
  <2>3. ASSUME Status(failure) \in 300 .. 499, NEW n \in Writing, calls[n].bff # "none"
        PROVE  calls[n].outcome \in Refusals
    <3>1. failure \in Refusals
      BY <2>1, <2>3, StatusOfFailure
    <3>2. m \in MethodsOf(request.route) /\ n \in MethodsOf(request.route)
      BY <2>1, <2>3, RoutesCallMethods DEF PathInv, CallsFit, CallFits, Outcomes, Cuts, Refusals
    <3>3. m = n
      BY <1>2, <2>3, <3>2, RoutesCallMethods
    <3> QED
      BY <2>1, <3>1, <3>3 DEF PathInv, CallsFit, CallFits, Outcomes
  <2> QED
    BY <1>1, <1>4, <1>5, <2>2, <2>3, ConcludeSays DEF Fail
<1>6. CASE Succeed
  <2>1. Status("OK") = 200
    BY DEF Status, HttpStatus
  <2>2. \A m \in MethodsOf(request.route) : calls[m].outcome = "OK"
    BY <1>2, <1>3, <1>6 DEF Succeed, AllArrived, Sent, PathInv, CallsFit, CallFits, Outcomes
  <2> QED
    BY <1>1, <1>4, <1>6, <2>1, <2>2, ConcludeSays DEF Succeed
<1>7. CASE Lack
  <2>1. Status("UNKNOWN") = 500
    BY DEF Status, HttpStatus
  <2> QED
    BY <1>1, <1>4, <1>7, <2>1, ConcludeSays DEF Lack
<1> QED
  BY <1>5, <1>6, <1>7 DEF Respond

----------------------------------------------------------------------------
(* The calls *)

\* A step of one call that only adds to what is known of it.
LEMMA OneCallKeeps ==
  ASSUME PathInv, NEW m \in Methods, NEW c \in CallRecords,
         calls' = [calls EXCEPT ![m] = c],
         UNCHANGED <<request, step, pending, reply>>,
         CallFits(m, c), calls[m].bff # "none", c.bff # "none",
         calls[m].outcome # "none" => c.outcome = calls[m].outcome,
         calls[m].bff # "waiting" => c.bff = calls[m].bff,
         \/ failure' = failure
         \/ failure' = c.bff /\ c.bff \in (Outcomes \cup Cuts) \ {"OK"}
  PROVE  PathInv'
<1>1. /\ calls' \in [Methods -> CallRecords] /\ calls'[m] = c
      /\ \A n \in Methods : n # m => calls'[n] = calls[n]
  BY DEF PathInv, CallsFit
<1>2. Refusal' = Refusal
  BY DEF Refusal, PostRefusal, LengthRefusal, FormAccepted, DraftAccepted
<1>3. ASSUME NEW n \in Methods PROVE CallFits(n, calls[n])'
  BY <1>1, <1>2 DEF PathInv, CallsFit, CallFits, Saves, KeepsNothing
<1>4. CallsFit'
  BY <1>1, <1>3 DEF PathInv, CallsFit
<1>5. request.route \in Routes /\ MethodsOf(request.route) \subseteq Methods /\ Writing \subseteq Methods
  BY RoutesCallMethods DEF PathInv, CallsFit, Requests
<1>6. StepFits'
  BY <1>1, <1>5 DEF PathInv, StepFits, Outcomes, Cuts, Refusals
<1>7. Said' = Said
  BY DEF Said
<1>8. ReplyFits'
  BY <1>1, <1>5, <1>7 DEF PathInv, ReplyFits, Refusals
<1> QED
  BY <1>4, <1>6, <1>8 DEF PathInv

\* An outcome is written once, by the gate or by the handler.
LEMMA FinishKeeps ==
  ASSUME PathInv, NEW m \in Methods, NEW code \in Outcomes, NEW changed \in BOOLEAN,
         Finish(m, code, changed), calls[m].bff # "none", calls[m].backend # "ended",
         UNCHANGED <<request, step, failure, pending, reply>>,
         code = "OK" => (changed <=> Saves(m)),
         code \in Refusals => ~changed,
         changed => m \in Writing
  PROVE  PathInv'
<1> DEFINE c == [calls[m] EXCEPT !.backend = "ended", !.outcome = code, !.changed = changed]
<1>1. calls[m] \in CallRecords /\ CallFits(m, calls[m])
  BY DEF PathInv, CallsFit
<1>2. /\ c \in CallRecords /\ c.bff = calls[m].bff /\ c.backend = "ended"
      /\ c.outcome = code /\ c.changed = changed
  BY <1>1 DEF CallRecords
<1>3. calls' = [calls EXCEPT ![m] = c]
  BY <1>1 DEF Finish, PathInv, CallsFit
<1> HIDE DEF c
<1>4. CallFits(m, c)
  BY <1>1, <1>2 DEF CallFits, Outcomes, Refusals
<1> QED
  BY <1>1, <1>2, <1>3, <1>4, OneCallKeeps DEF CallFits

LEMMA GateKeeps ==
  ASSUME PathInv, NEW m \in Methods, Gate(m)
  PROVE  PathInv'
<1>1. /\ calls[m].bff # "none" /\ calls[m].backend = "none"
      /\ UNCHANGED <<request, step, failure, pending, reply>>
  BY DEF Gate
<1>2. /\ calls[m] \in CallRecords /\ CallFits(m, calls[m])
      /\ request \in Requests /\ calls \in [Methods -> CallRecords]
  BY DEF PathInv, CallsFit
<1>3. m \in AllowAnonymous \/ request.user
  BY <1>1, <1>2, ProtectedCallsHaveAUser DEF CallFits
<1> DEFINE c == [calls[m] EXCEPT !.backend = "running"]
<1>4. calls' = [calls EXCEPT ![m] = c]
  BY <1>2, <1>3 DEF Gate
<1>5. /\ c \in CallRecords /\ c.bff = calls[m].bff /\ c.backend = "running"
      /\ c.outcome = calls[m].outcome /\ c.changed = calls[m].changed
  BY <1>2 DEF CallRecords
<1> HIDE DEF c
<1>6. CallFits(m, c)
  BY <1>1, <1>2, <1>5 DEF CallFits
<1> QED
  BY <1>1, <1>4, <1>5, <1>6, OneCallKeeps

LEMMA HandleKeeps ==
  ASSUME PathInv, NEW m \in Methods, Handle(m)
  PROVE  PathInv'
<1>1. /\ calls[m].backend = "running"
      /\ UNCHANGED <<request, step, failure, pending, reply>>
  BY DEF Handle
<1>2. calls[m].bff # "none" /\ Saves(m) \in BOOLEAN /\ (Saves(m) => m \in Writing)
  BY <1>1 DEF PathInv, CallsFit, CallFits, Saves
<1>3. \/ \E code \in Refusals : Finish(m, code, FALSE)
      \/ Finish(m, "OK", Saves(m))
      \/ \E changed \in {FALSE, Saves(m)} : Finish(m, "INTERNAL", changed)
  BY DEF Handle, Refusals
<1>4. CASE \E code \in Refusals : Finish(m, code, FALSE)
  BY <1>1, <1>2, <1>4, FinishKeeps DEF Outcomes, Refusals
<1>5. CASE Finish(m, "OK", Saves(m))
  BY <1>1, <1>2, <1>5, FinishKeeps DEF Outcomes, Refusals
<1>6. CASE \E changed \in {FALSE, Saves(m)} : Finish(m, "INTERNAL", changed)
  BY <1>1, <1>2, <1>6, FinishKeeps DEF Outcomes, Refusals
<1> QED
  BY <1>3, <1>4, <1>5, <1>6

\* A call settles once, with the outcome or because it was cut off.
LEMMA SettleKeeps ==
  ASSUME PathInv, NEW m \in Methods, Answer(m) \/ Break(m) \/ Deadline(m)
  PROVE  PathInv'
<1>1. calls[m] \in CallRecords /\ CallFits(m, calls[m]) /\ calls \in [Methods -> CallRecords]
  BY DEF PathInv, CallsFit
<1>2. PICK code :
        /\ Settle(m, code)
        /\ code \in Cuts \/ (code = calls[m].outcome /\ calls[m].backend = "ended")
  BY DEF Answer, Break, Deadline, Cuts
<1>3. /\ calls[m].bff = "waiting" /\ calls' = [calls EXCEPT ![m].bff = code]
      /\ failure' = IF failure = "none" /\ code # "OK" THEN code ELSE failure
      /\ UNCHANGED <<request, step, pending, reply>>
  BY <1>2 DEF Settle
<1>4. code \in Outcomes \cup Cuts /\ (code \in Outcomes => code = calls[m].outcome)
  BY <1>1, <1>2 DEF CallFits, Outcomes, Cuts, Refusals
<1> DEFINE c == [calls[m] EXCEPT !.bff = code]
<1>5. calls' = [calls EXCEPT ![m] = c]
  BY <1>1, <1>3
<1>6. /\ c \in CallRecords /\ c.bff = code /\ c.backend = calls[m].backend
      /\ c.outcome = calls[m].outcome /\ c.changed = calls[m].changed
  BY <1>1, <1>4 DEF CallRecords
<1> HIDE DEF c
<1>7. code # "none" /\ CallFits(m, c)
  BY <1>1, <1>3, <1>4, <1>6 DEF CallFits, Outcomes, Cuts, Refusals
<1> QED
  BY <1>1, <1>3, <1>4, <1>5, <1>6, <1>7, OneCallKeeps

----------------------------------------------------------------------------
(* The page, and all together *)

\* A page that fails to render blames nobody and promises nothing.
LEMMA RenderKeeps ==
  ASSUME PathInv, RenderError \/ ShellReady \/ ShellError
  PROVE  PathInv'
<1>1. step = "rendering" /\ UNCHANGED <<request, calls, failure>>
  BY DEF RenderError, ShellReady, ShellError, SendDocument
<1>2. pending \in [status : Nat, id : Ids] /\ reply \in [status : Nat, id : Ids]
  BY DEF PathInv, ReplyFits
<1>3. /\ step' \in {"rendering", "replied"} /\ Said' \in {Said, 500}
      /\ pending' \in [status : Nat, id : Ids] /\ reply' \in [status : Nat, id : Ids]
  BY <1>1, <1>2 DEF RenderError, ShellReady, ShellError, SendDocument, Said, Ids
<1>4. CallsFit'
  BY <1>1 DEF PathInv, CallsFit, CallFits, Saves, KeepsNothing, Refusal, PostRefusal,
              LengthRefusal, FormAccepted, DraftAccepted
<1>5. StepFits'
  BY <1>1, <1>3 DEF PathInv, StepFits
<1>6. ReplyFits'
  BY <1>1, <1>3 DEF PathInv, ReplyFits
<1> QED
  BY <1>4, <1>5, <1>6 DEF PathInv

LEMMA NextFits == PathInv /\ [Next]_vars => PathInv'
<1> SUFFICES ASSUME PathInv, [Next]_vars PROVE PathInv'
  OBVIOUS
<1>1. CASE Refuse
  BY <1>1, RefuseKeeps
<1>2. CASE Call
  BY <1>2, CallKeeps
<1>3. CASE CannotCall
  BY <1>3, CannotCallKeeps
<1>4. CASE \E m \in Methods : Gate(m)
  BY <1>4, GateKeeps
<1>5. CASE \E m \in Methods : Handle(m)
  BY <1>5, HandleKeeps
<1>6. CASE \E m \in Methods : Answer(m) \/ Break(m) \/ Deadline(m)
  BY <1>6, SettleKeeps
<1>7. CASE Respond
  BY <1>7, RespondKeeps
<1>8. CASE RenderError \/ ShellReady \/ ShellError
  BY <1>8, RenderKeeps
<1>9. CASE UNCHANGED vars
  BY <1>9 DEF vars, PathInv, CallsFit, CallFits, Saves, KeepsNothing, StepFits, ReplyFits,
              Said, Refusal, PostRefusal, LengthRefusal, FormAccepted, DraftAccepted
<1> QED
  BY <1>1, <1>2, <1>3, <1>4, <1>5, <1>6, <1>7, <1>8, <1>9 DEF Next

LEMMA AlwaysFits == Spec => []PathInv
BY InitFits, NextFits, PTL DEF Spec

(* 200 is only said of what was done, and saved but for answers to compiled-in
   questions; a status that blames the request only of one without an effect, now or later (grpc-error.server.ts, the routes). *)
THEOREM StatusIsTrue == Spec => []StatusTellsTheTruth
<1>1. ASSUME PathInv PROVE StatusTellsTheTruth
  <2>1. \A m \in MethodsOf(request.route) : m \in Methods
    BY <1>1, RoutesCallMethods DEF PathInv, CallsFit, Requests
  <2>2. \A m \in Methods : CallFits(m, calls[m])
    BY <1>1 DEF PathInv, CallsFit
  <2>3. Said = 200 =>
          \A m \in MethodsOf(request.route) :
            /\ calls[m].outcome = "OK"
            /\ m \in Writing /\ request.user => calls[m].changed \/ KeepsNothing(m)
    BY <1>1, <2>1, <2>2 DEF PathInv, ReplyFits, CallFits, Saves
  <2>4. ASSUME Said \in 300 .. 499, NEW m \in Methods PROVE ~calls[m].changed
    <3>1. CASE calls[m].bff = "none" \/ m \notin Writing
      BY <2>2, <3>1 DEF CallFits
    <3>2. CASE calls[m].bff # "none" /\ m \in Writing
      BY <1>1, <2>2, <2>4, <3>2 DEF PathInv, ReplyFits, CallFits
    <3> QED
      BY <3>1, <3>2
  <2> QED
    BY <2>3, <2>4 DEF StatusTellsTheTruth, Said
<1> QED
  BY <1>1, AlwaysFits, PTL

(* What a route lets through the backend takes for complete, and for the request
   of somebody who may make it (schemas/question.ts and validateDraft,
   requireAuthenticatedUser and allowAnonymous). *)
THEOREM BothSidesAgree == Spec => []GatesAgree
<1>1. ASSUME PathInv, NEW m \in Sent, m \in Drafting
      PROVE  ValidateDraft(request.form) \/ "nel" \in ToSet(request.form.texts)
  <2>1. m \in MethodsOf(request.route) /\ Refusal = 0 /\ request \in Requests
    BY <1>1 DEF Sent, PathInv, CallsFit, CallFits
  <2>2. request.route \in {"create", "save"}
    BY <1>1, <2>1 DEF Requests, Routes, MethodsOf, Drafting
  <2>3. PostRefusal = 0
    BY <2>1, <2>2 DEF Refusal, Posts
  <2>4. FormAccepted(request.form)
    BY <2>3 DEF PostRefusal
  <2>5. DraftAccepted(request.form) /\ ToSet(request.form.texts) \cap BlankForTrim = {}
    BY <2>2, <2>4 DEF FormAccepted
  <2> QED
    BY <2>5 DEF DraftAccepted, ValidateDraft, BlankForTrim, BlankForTrimSpace
<1>2. ASSUME PathInv, NEW m \in Sent PROVE calls[m].outcome # "UNAUTHENTICATED"
  BY <1>2 DEF Sent, PathInv, CallsFit, CallRecords, Outcomes, Refusals
<1>3. PathInv => GatesAgree
  BY <1>1, <1>2 DEF GatesAgree
<1> QED
  BY <1>3, AlwaysFits, PTL

----------------------------------------------------------------------------
(* The log *)

LEMMA InitLogs == Init => LogInv
<1> SUFFICES ASSUME Init PROVE LogInv
  OBVIOUS
<1>1. \A m \in Methods : calls[m] = NoCall
  BY DEF Init
<1>2. \A by \in Sides : LinesFor(by, NoCall) = <<>>
  BY DEF LinesFor, NoCall
<1>3. LogsFollowCalls
  BY <1>1, <1>2 DEF LogsFollowCalls, Init
<1>4. Sent = {}
  BY <1>1 DEF Sent, NoCall
<1> QED
  BY <1>3, <1>4 DEF LogInv, IdsAgree, PageLogged, Init, NoReply

\* What is said for a route, with no id or that of its calls.
LEMMA ConcludeLogs ==
  ASSUME LogInv, NEW status, NEW id, Conclude(status, id), step \in {"arrived", "calling"},
         UNCHANGED <<request, calls, grpcLog, httpLog>>,
         \A m \in Sent : id \in {"none", calls[m].id}
  PROVE  LogInv'
<1>1. LogsFollowCalls'
  BY DEF LogInv, LogsFollowCalls
<1>2. Sent' = Sent /\ \A m \in Sent : CallId(m)' = CallId(m)
  BY DEF Sent, CallId
<1>3. \/ /\ step' = "rendering" /\ request.document
         /\ pending' = [status |-> status, id |-> id] /\ reply' = reply
      \/ /\ step' = "replied" /\ (~request.document \/ status = 302)
         /\ reply' = [status |-> status, id |-> id] /\ pending' = pending
  BY DEF Conclude
<1>4. IdsAgree'
  BY <1>2, <1>3 DEF LogInv, IdsAgree
<1>5. PageLogged'
  <2>1. httpLog' = <<>> /\ step' \in {"rendering", "replied"}
    BY <1>3 DEF LogInv, PageLogged
  <2>2. step' = "replied" => ~request.document \/ reply'.status = 302
    BY <1>3
  <2>3. step' = "rendering" => request'.document
    BY <1>3
  <2> QED
    BY <2>1, <2>2, <2>3 DEF PageLogged
<1> QED
  BY <1>1, <1>4, <1>5 DEF LogInv

LEMMA RefuseLogs ==
  ASSUME PathInv, LogInv, Refuse \/ CannotCall
  PROVE  LogInv'
<1>1. step = "arrived" /\ UNCHANGED <<request, calls, grpcLog, httpLog>>
  BY DEF Refuse, CannotCall
<1>2. Sent = {}
  BY <1>1 DEF Sent, PathInv, StepFits
<1>3. PICK status, id : Conclude(status, id)
  BY DEF Refuse, CannotCall
<1> QED
  BY <1>1, <1>2, <1>3, ConcludeLogs

\* The calls of one request carry one id: those of a request that brings it
\* carry its own, and the quiz, which brings none, makes a single call.
LEMMA CallsShareAnId ==
  ASSUME PathInv, LogInv
  PROVE  /\ \A m, n \in Sent : calls[m].id = calls[n].id
         /\ \A m \in Sent : OwnId \in {"none", calls[m].id}
<1>1. \A m \in Sent : m \in MethodsOf(request.route) /\ calls[m].id = CallId(m)
  BY DEF Sent, PathInv, CallsFit, CallFits, LogInv, IdsAgree
<1> QED
  BY <1>1 DEF CallId, OwnId, MethodsOf

LEMMA RespondLogs ==
  ASSUME PathInv, LogInv, Respond
  PROVE  LogInv'
<1>1. step = "calling" /\ UNCHANGED <<request, calls, grpcLog, httpLog>>
  BY DEF Respond
<1>2. \A m \in Sent : SentId = calls[m].id
  <2> SUFFICES ASSUME NEW m \in Sent PROVE SentId = calls[m].id
    OBVIOUS
  <2>1. {calls[n].id : n \in Sent} = {calls[m].id}
    BY CallsShareAnId
  <2> QED
    BY <2>1 DEF SentId
<1>3. PICK status, id : Conclude(status, id) /\ id \in {SentId, OwnId}
  BY DEF Respond, Fail, Succeed, Lack
<1>4. \A m \in Sent : id \in {"none", calls[m].id}
  BY <1>2, <1>3, CallsShareAnId
<1> QED
  BY <1>1, <1>3, <1>4, ConcludeLogs

LEMMA CallLogs ==
  ASSUME PathInv, LogInv, Call
  PROVE  LogInv'
<1> DEFINE sent(m) == [NoCall EXCEPT !.bff = "waiting", !.id = CallId(m)]
<1>1. /\ step = "arrived" /\ step' = "calling"
      /\ UNCHANGED <<request, pending, reply, grpcLog, httpLog>>
      /\ calls' = [m \in Methods |-> IF m \in MethodsOf(request.route) THEN sent(m) ELSE calls[m]]
  BY DEF Call
<1>2. \A m \in Methods :
        /\ sent(m).bff = "waiting" /\ sent(m).backend = "none" /\ sent(m).id = CallId(m)
  BY DEF NoCall
<1> HIDE DEF sent
<1>3. \A m \in Methods :
        calls[m] \in CallRecords /\ calls[m].bff = "none" /\ calls[m].backend = "none"
  BY <1>1 DEF PathInv, StepFits, CallsFit, CallFits
<1>4. \A by \in Sides, m \in Methods : LinesFor(by, calls'[m]) = LinesFor(by, calls[m])
  BY <1>1, <1>2, <1>3 DEF LinesFor
<1>5. LogsFollowCalls'
  BY <1>1, <1>4 DEF LogInv, LogsFollowCalls
<1>6. \A m \in Methods : CallId(m)' = CallId(m)
  BY <1>1 DEF CallId
<1>7. \A m \in Sent' : m \in Methods /\ calls'[m].id = CallId(m)'
  BY <1>1, <1>2, <1>3, <1>6 DEF Sent
<1>8. pending'.id = "none" /\ reply'.id = "none"
  BY <1>1 DEF LogInv, IdsAgree
<1>9. IdsAgree'
  BY <1>7, <1>8 DEF IdsAgree
<1>10. PageLogged'
  BY <1>1 DEF LogInv, PageLogged
<1> QED
  BY <1>5, <1>9, <1>10 DEF LogInv

\* A step of one call, with the lines it has then.
LEMMA OneCallLogs ==
  ASSUME PathInv, LogInv, NEW m \in Methods, NEW c,
         calls' = [calls EXCEPT ![m] = c],
         UNCHANGED <<request, step, pending, reply, httpLog>>,
         c.id = calls[m].id, calls[m].bff # "none", c.bff # "none",
         LogsFollowCalls'
  PROVE  LogInv'
<1>1. /\ calls'[m] = c /\ \A n \in Methods : n # m => calls'[n] = calls[n]
  BY DEF PathInv, CallsFit
<1>2. Sent' = Sent /\ \A n \in Sent : calls'[n].id = calls[n].id /\ CallId(n)' = CallId(n)
  BY <1>1 DEF Sent, CallId
<1>3. IdsAgree'
  BY <1>2 DEF LogInv, IdsAgree
<1>4. PageLogged'
  BY DEF LogInv, PageLogged, Line
<1> QED
  BY <1>3, <1>4 DEF LogInv

\* A line that is written where there was none is the only one of its call.
LEMMA LineIsWritten ==
  ASSUME LogsFollowCalls, NEW m \in Methods, NEW side \in Sides, NEW code,
         WriteLine(side, m, code), LinesFor(side, calls[m]) = <<>>
  PROVE  /\ \A by \in Sides, n \in Methods :
              grpcLog'[by][n] = IF by = side /\ n = m THEN <<[id |-> calls[m].id, code |-> code]>>
                                ELSE grpcLog[by][n]
         /\ grpcLog' = [by \in Sides |-> [n \in Methods |-> grpcLog'[by][n]]]
<1> DEFINE line == [id |-> calls[m].id, code |-> code]
<1>1. grpcLog' = [grpcLog EXCEPT ![side][m] = Append(@, line)]
  BY DEF WriteLine
<1>2. grpcLog[side][m] = <<>>
  BY DEF LogsFollowCalls
<1> HIDE DEF line
<1>3. Append(<<>>, line) = <<line>>
  OBVIOUS
<1>4. grpcLog' = [grpcLog EXCEPT ![side][m] = <<line>>]
  BY <1>1, <1>2, <1>3
<1>5. grpcLog = [by \in Sides |-> [n \in Methods |-> grpcLog[by][n]]]
  BY DEF LogsFollowCalls
<1>6. grpcLog' = [by \in Sides |-> [n \in Methods |->
                   IF by = side /\ n = m THEN <<line>> ELSE grpcLog[by][n]]]
  BY <1>4, <1>5
<1> QED
  BY <1>6 DEF line

LEMMA FinishLogs ==
  ASSUME PathInv, LogInv, NEW m \in Methods, NEW code, NEW changed, Finish(m, code, changed),
         calls[m].bff # "none", calls[m].backend # "ended",
         UNCHANGED <<request, step, pending, reply, httpLog>>
  PROVE  LogInv'
<1> DEFINE c == [calls[m] EXCEPT !.backend = "ended", !.outcome = code, !.changed = changed]
<1>1. calls[m] \in CallRecords
  BY DEF PathInv, CallsFit
<1>2. /\ c.bff = calls[m].bff /\ c.backend = "ended" /\ c.id = calls[m].id /\ c.outcome = code
  BY <1>1 DEF CallRecords
<1>3. calls' = [calls EXCEPT ![m] = c] /\ WriteLine("backend", m, code)
  BY <1>1 DEF Finish, PathInv, CallsFit
<1> HIDE DEF c
<1>4. LinesFor("backend", calls[m]) = <<>> /\ "backend" \in Sides
  BY DEF LinesFor, Sides
<1>5. /\ LinesFor("backend", c) = <<[id |-> calls[m].id, code |-> code]>>
      /\ LinesFor("bff", c) = LinesFor("bff", calls[m])
  BY <1>2 DEF LinesFor
<1>6. LogsFollowCalls
  BY DEF LogInv
<1>7. \A by \in Sides, n \in Methods : grpcLog[by][n] = LinesFor(by, calls[n])
  BY <1>6 DEF LogsFollowCalls
<1>8. /\ \A by \in Sides, n \in Methods :
           grpcLog'[by][n] = IF by = "backend" /\ n = m
                             THEN <<[id |-> calls[m].id, code |-> code]>> ELSE grpcLog[by][n]
      /\ grpcLog' = [by \in Sides |-> [n \in Methods |-> grpcLog'[by][n]]]
  BY <1>3, <1>4, <1>6, LineIsWritten
<1>9. calls'[m] = c /\ \A n \in Methods : n # m => calls'[n] = calls[n]
  BY <1>3 DEF PathInv, CallsFit
<1>10. \A by \in Sides, n \in Methods : grpcLog'[by][n] = LinesFor(by, calls'[n])
  BY <1>5, <1>7, <1>8, <1>9 DEF Sides
<1>11. LogsFollowCalls'
  BY <1>8, <1>10 DEF LogsFollowCalls
<1> QED
  BY <1>2, <1>3, <1>11, OneCallLogs

LEMMA GateLogs ==
  ASSUME PathInv, LogInv, NEW m \in Methods, Gate(m)
  PROVE  LogInv'
<1>1. /\ calls[m].bff # "none" /\ calls[m].backend = "none"
      /\ UNCHANGED <<request, step, failure, pending, reply, httpLog>>
  BY DEF Gate
<1>2. CASE Finish(m, "UNAUTHENTICATED", FALSE)
  BY <1>1, <1>2, FinishLogs
<1>3. CASE calls' = [calls EXCEPT ![m].backend = "running"] /\ UNCHANGED grpcLog
  <2> DEFINE c == [calls[m] EXCEPT !.backend = "running"]
  <2>1. calls[m] \in CallRecords /\ calls' = [calls EXCEPT ![m] = c]
    BY <1>3 DEF PathInv, CallsFit
  <2>2. c.bff = calls[m].bff /\ c.backend = "running" /\ c.id = calls[m].id
    BY <2>1 DEF CallRecords
  <2> HIDE DEF c
  <2>3. \A by \in Sides : LinesFor(by, c) = LinesFor(by, calls[m])
    BY <1>1, <2>2 DEF LinesFor
  <2>4. \A by \in Sides, n \in Methods : grpcLog[by][n] = LinesFor(by, calls[n])
    BY DEF LogInv, LogsFollowCalls
  <2>5. grpcLog = [by \in Sides |-> [n \in Methods |-> grpcLog[by][n]]]
    BY DEF LogInv, LogsFollowCalls
  <2>6. calls'[m] = c /\ \A n \in Methods : n # m => calls'[n] = calls[n]
    BY <2>1 DEF PathInv, CallsFit
  <2>7. \A by \in Sides, n \in Methods : grpcLog[by][n] = LinesFor(by, calls'[n])
    BY <2>3, <2>4, <2>6
  <2>8. LogsFollowCalls'
    BY <1>3, <2>5, <2>7 DEF LogsFollowCalls
  <2> QED
    BY <1>1, <2>1, <2>2, <2>8, OneCallLogs
<1> QED
  BY <1>2, <1>3 DEF Gate

LEMMA HandleLogs ==
  ASSUME PathInv, LogInv, NEW m \in Methods, Handle(m)
  PROVE  LogInv'
<1>1. /\ calls[m].backend = "running"
      /\ UNCHANGED <<request, step, failure, pending, reply, httpLog>>
  BY DEF Handle
<1>2. calls[m].bff # "none"
  BY <1>1 DEF PathInv, CallsFit, CallFits
<1>3. PICK code, changed : Finish(m, code, changed)
  BY DEF Handle
<1> QED
  BY <1>1, <1>2, <1>3, FinishLogs

LEMMA SettleLogs ==
  ASSUME PathInv, LogInv, NEW m \in Methods, Answer(m) \/ Break(m) \/ Deadline(m)
  PROVE  LogInv'
<1>1. calls[m] \in CallRecords /\ CallFits(m, calls[m]) /\ calls \in [Methods -> CallRecords]
  BY DEF PathInv, CallsFit
<1>2. PICK code :
        /\ Settle(m, code)
        /\ code \in Cuts \/ (code = calls[m].outcome /\ calls[m].backend = "ended")
  BY DEF Answer, Break, Deadline, Cuts
<1>3. /\ calls[m].bff = "waiting" /\ calls' = [calls EXCEPT ![m].bff = code]
      /\ WriteLine("bff", m, code)
      /\ UNCHANGED <<request, step, pending, reply, httpLog>>
  BY <1>2 DEF Settle
<1>4. code \notin {"none", "waiting"}
  BY <1>1, <1>2 DEF CallFits, Outcomes, Cuts, Refusals
<1> DEFINE c == [calls[m] EXCEPT !.bff = code]
<1>5. /\ calls' = [calls EXCEPT ![m] = c]
      /\ c.bff = code /\ c.backend = calls[m].backend /\ c.id = calls[m].id
      /\ c.outcome = calls[m].outcome
  BY <1>1, <1>3 DEF CallRecords
<1> HIDE DEF c
<1>6. LinesFor("bff", calls[m]) = <<>> /\ "bff" \in Sides
  BY <1>3 DEF LinesFor, Sides
<1>7. /\ LinesFor("bff", c) = <<[id |-> calls[m].id, code |-> code]>>
      /\ LinesFor("backend", c) = LinesFor("backend", calls[m])
  BY <1>4, <1>5 DEF LinesFor
<1>8. LogsFollowCalls /\ \A by \in Sides, n \in Methods : grpcLog[by][n] = LinesFor(by, calls[n])
  BY DEF LogInv, LogsFollowCalls
<1>9. /\ \A by \in Sides, n \in Methods :
           grpcLog'[by][n] = IF by = "bff" /\ n = m
                             THEN <<[id |-> calls[m].id, code |-> code]>> ELSE grpcLog[by][n]
      /\ grpcLog' = [by \in Sides |-> [n \in Methods |-> grpcLog'[by][n]]]
  BY <1>3, <1>6, <1>8, LineIsWritten
<1>10. calls'[m] = c /\ \A n \in Methods : n # m => calls'[n] = calls[n]
  BY <1>1, <1>5
<1>11. \A by \in Sides, n \in Methods : grpcLog'[by][n] = LinesFor(by, calls'[n])
  BY <1>7, <1>8, <1>9, <1>10 DEF Sides
<1>12. LogsFollowCalls'
  BY <1>9, <1>11 DEF LogsFollowCalls
<1> QED
  BY <1>3, <1>4, <1>5, <1>12, OneCallLogs

LEMMA SequencesOfOneAndTwo ==
  /\ ToSet(<<>>) = {} /\ Len(<<>>) = 0
  /\ \A a : ToSet(<<a>>) = {a} /\ Len(<<a>>) = 1 /\ <<a>> # <<>>
  /\ \A a, b : ToSet(<<a, b>>) = {a, b} /\ <<a, b>> # <<>>
<1>1. ToSet(<<>>) = {} /\ Len(<<>>) = 0
  BY DEF ToSet
<1>2. \A a : ToSet(<<a>>) = {a} /\ Len(<<a>>) = 1 /\ <<a>> # <<>>
  BY DEF ToSet
<1>3. \A a, b : ToSet(<<a, b>>) = {a, b} /\ <<a, b>> # <<>>
  BY DEF ToSet
<1> QED
  BY <1>1, <1>2, <1>3

LEMMA AppendToOne ==
  ASSUME NEW a, NEW b
  PROVE  Append(<<>>, a) = <<a>> /\ Append(<<a>>, b) = <<a, b>>
<1>1. Append(<<>>, a) = <<a>>
  OBVIOUS
<1> DEFINE both == Append(<<a>>, b)
<1>2. <<a>> \in Seq({a, b}) /\ Len(<<a>>) = 1 /\ <<a>>[1] = a
  OBVIOUS
<1>3. both \in Seq({a, b}) /\ Len(both) = 2 /\ both[1] = a /\ both[2] = b
  BY <1>2
<1> HIDE DEF both
<1>4. both = <<a, b>>
  BY <1>3
<1> QED
  BY <1>1, <1>4 DEF both

LEMMA RenderLogs ==
  ASSUME PathInv, LogInv, RenderError \/ ShellReady \/ ShellError
  PROVE  LogInv'
<1>1. step = "rendering" /\ UNCHANGED <<request, calls, grpcLog>>
  BY DEF RenderError, ShellReady, ShellError, SendDocument
<1>2. LogsFollowCalls'
  BY <1>1 DEF LogInv, LogsFollowCalls
<1>3. Sent' = Sent /\ \A m \in Sent : CallId(m)' = CallId(m) /\ calls'[m] = calls[m]
  BY <1>1 DEF Sent, CallId
<1>4. pending \in [status : Nat, id : Ids]
  BY DEF PathInv, ReplyFits
<1>5. /\ request.document
      /\ httpLog = <<>> \/ (httpLog = <<Line("page", 500)>> /\ pending.status = 500)
  BY <1>1 DEF LogInv, PageLogged
<1>6. CASE \E status : SendDocument(status) /\ (status = pending.status \/ (status = 500 /\ httpLog # <<>>))
  <2>1. PICK status : /\ SendDocument(status)
                      /\ status = pending.status \/ (status = 500 /\ httpLog # <<>>)
    BY <1>6
  <2>2. /\ step' = "replied" /\ reply' = [status |-> status, id |-> "none"]
        /\ httpLog' = Append(httpLog, Line(LineId, status)) /\ pending' = pending
    BY <2>1 DEF SendDocument, LogHttpAccess, Line
  <2>3. \/ httpLog' = <<Line("page", status)>>
        \/ httpLog' = <<Line("page", 500), Line("error page", 500)>> /\ status = 500
    <3>1. Append(<<>>, Line("page", status)) = <<Line("page", status)>>
      BY AppendToOne
    <3>2. Append(<<Line("page", 500)>>, Line("error page", 500))
            = <<Line("page", 500), Line("error page", 500)>>
      <4> DEFINE first == Line("page", 500)
                 second == Line("error page", 500)
      <4> HIDE DEF first, second
      <4>1. Append(<<first>>, second) = <<first, second>>
        BY AppendToOne
      <4> QED
        BY <4>1 DEF first, second
    <3>3. CASE httpLog = <<>>
      BY <2>2, <3>1, <3>3 DEF LineId
    <3>4. CASE httpLog = <<Line("page", 500)>> /\ pending.status = 500
      <4>1. status = 500
        BY <2>1, <3>4
      <4>2. LineId = "error page"
        BY <3>4, SequencesOfOneAndTwo DEF LineId
      <4> QED
        BY <2>2, <3>2, <3>4, <4>1, <4>2
    <3> QED
      BY <1>5, <3>3, <3>4
  <2>4. PageLogged'
    BY <2>2, <2>3 DEF PageLogged
  <2>5. IdsAgree'
    BY <1>3, <2>2 DEF LogInv, IdsAgree
  <2> QED
    BY <1>2, <2>4, <2>5 DEF LogInv
<1>7. CASE /\ step' = step /\ reply' = reply /\ pending' = [pending EXCEPT !.status = 500]
           /\ httpLog' = httpLog \/ (httpLog = <<>> /\ LogHttpAccess(500))
  <2>1. pending'.status = 500 /\ pending'.id = pending.id
    BY <1>4, <1>7
  <2>2. httpLog' = httpLog \/ httpLog' = <<Line("page", 500)>>
    <3>1. Append(<<>>, Line("page", 500)) = <<Line("page", 500)>>
      BY AppendToOne
    <3> QED
      BY <1>7, <3>1 DEF LogHttpAccess, LineId, Line
  <2>3. PageLogged'
    BY <1>1, <1>5, <1>7, <2>1, <2>2 DEF PageLogged
  <2>4. IdsAgree'
    BY <1>1, <1>3, <1>7, <2>1 DEF LogInv, IdsAgree
  <2> QED
    BY <1>2, <2>3, <2>4 DEF LogInv
<1> QED
  BY <1>6, <1>7 DEF RenderError, ShellReady, ShellError

LEMMA NextLogs == PathInv /\ LogInv /\ [Next]_vars => LogInv'
<1> SUFFICES ASSUME PathInv, LogInv, [Next]_vars PROVE LogInv'
  OBVIOUS
<1>1. CASE Refuse \/ CannotCall
  BY <1>1, RefuseLogs
<1>2. CASE Call
  BY <1>2, CallLogs
<1>3. CASE \E m \in Methods : Gate(m)
  BY <1>3, GateLogs
<1>4. CASE \E m \in Methods : Handle(m)
  BY <1>4, HandleLogs
<1>5. CASE \E m \in Methods : Answer(m) \/ Break(m) \/ Deadline(m)
  BY <1>5, SettleLogs
<1>6. CASE Respond
  BY <1>6, RespondLogs
<1>7. CASE RenderError \/ ShellReady \/ ShellError
  BY <1>7, RenderLogs
<1>8. CASE UNCHANGED vars
  <2>1. LogsFollowCalls' /\ IdsAgree'
    BY <1>8 DEF vars, LogInv, LogsFollowCalls, IdsAgree, Sent, CallId
  <2>2. /\ step' = step /\ request' = request /\ pending' = pending /\ reply' = reply
        /\ httpLog' = httpLog /\ PageLogged
    BY <1>8 DEF vars, LogInv
  <2>3. PageLogged'
    BY <2>2 DEF PageLogged
  <2> QED
    BY <2>1, <2>3 DEF LogInv
<1> QED
  BY <1>1, <1>2, <1>3, <1>4, <1>5, <1>6, <1>7, <1>8 DEF Next

(* Each call has one gRPC line per side, written when it is settled there, those of a
   request and a reply without a page carry one id, they differ only where the answer was
   cut off, and a page has a line with the status that was sent (observeGrpcCall, logAccess,
   logHttpAccessOnce). *)
THEOREM LogsAreTrue == Spec => []LogsTellWhatHappened
<1>1. ASSUME PathInv, LogInv PROVE LogsTellWhatHappened
  <2>1. \A by \in Sides, m \in Methods : grpcLog[by][m] = LinesFor(by, calls[m])
    BY <1>1 DEF LogInv, LogsFollowCalls
  <2>2. "bff" \in Sides /\ "backend" \in Sides
    BY DEF Sides
  <2>3. \A m \in Methods : CallFits(m, calls[m]) /\ calls[m] \in CallRecords
    BY <1>1 DEF PathInv, CallsFit
  <2>4. ASSUME NEW m \in Methods
        PROVE  /\ Len(grpcLog["bff"][m]) = IF m \in Sent /\ calls[m].bff # "waiting" THEN 1 ELSE 0
               /\ Len(grpcLog["backend"][m]) = IF calls[m].backend = "ended" THEN 1 ELSE 0
    BY <2>1, <2>2, SequencesOfOneAndTwo DEF LinesFor, Sent
  <2>5. ASSUME NEW by \in Sides, NEW m \in Methods, NEW line \in LinesOf(by, m)
        PROVE  m \in Sent /\ line.id = calls[m].id
    <3>1. \/ by = "bff" /\ calls[m].bff \notin {"none", "waiting"}
             /\ grpcLog[by][m] = <<[id |-> calls[m].id, code |-> calls[m].bff]>>
          \/ by = "backend" /\ calls[m].backend = "ended"
             /\ grpcLog[by][m] = <<[id |-> calls[m].id, code |-> calls[m].outcome]>>
      <4>1. line \in ToSet(LinesFor(by, calls[m]))
        BY <2>1 DEF LinesOf
      <4>2. LinesFor(by, calls[m]) # <<>>
        BY <4>1, SequencesOfOneAndTwo
      <4> QED
        BY <2>1, <4>2 DEF LinesFor, Sides
    <3>2. line.id = calls[m].id
      <4>1. CASE grpcLog[by][m] = <<[id |-> calls[m].id, code |-> calls[m].bff]>>
        <5>1. ToSet(grpcLog[by][m]) = {[id |-> calls[m].id, code |-> calls[m].bff]}
          BY <4>1, SequencesOfOneAndTwo
        <5> QED
          BY <5>1 DEF LinesOf
      <4>2. CASE grpcLog[by][m] = <<[id |-> calls[m].id, code |-> calls[m].outcome]>>
        <5>1. ToSet(grpcLog[by][m]) = {[id |-> calls[m].id, code |-> calls[m].outcome]}
          BY <4>2, SequencesOfOneAndTwo
        <5> QED
          BY <5>1 DEF LinesOf
      <4> QED
        BY <3>1, <4>1, <4>2
    <3> QED
      BY <2>3, <3>1, <3>2 DEF Sent, CallFits
  <2>6. ASSUME NEW by \in Sides, NEW side \in Sides, NEW m \in Methods, NEW n \in Methods,
               NEW line \in LinesOf(by, m), NEW other \in LinesOf(side, n)
        PROVE  line.id = other.id /\ (reply.id # "none" => line.id = reply.id)
    <3>1. m \in Sent /\ n \in Sent /\ line.id = calls[m].id /\ other.id = calls[n].id
      BY <2>5
    <3> QED
      BY <1>1, <3>1, CallsShareAnId DEF LogInv, IdsAgree
  <2>7. ASSUME NEW m \in Methods, NEW here \in LinesOf("bff", m),
               NEW there \in LinesOf("backend", m), here.code # there.code
        PROVE  here.code \in {"UNAVAILABLE", "CANCELLED", "DEADLINE_EXCEEDED"}
    <3>1. here.code = calls[m].bff /\ there.code = calls[m].outcome
          /\ calls[m].bff \notin {"none", "waiting"}
      <4>1. here \in ToSet(LinesFor("bff", calls[m])) /\ there \in ToSet(LinesFor("backend", calls[m]))
        BY <2>1, <2>2 DEF LinesOf
      <4>2. LinesFor("bff", calls[m]) # <<>> /\ LinesFor("backend", calls[m]) # <<>>
        BY <4>1, SequencesOfOneAndTwo
      <4>3. /\ calls[m].bff \notin {"none", "waiting"}
            /\ LinesFor("bff", calls[m]) = <<[id |-> calls[m].id, code |-> calls[m].bff]>>
            /\ LinesFor("backend", calls[m]) = <<[id |-> calls[m].id, code |-> calls[m].outcome]>>
        BY <4>2 DEF LinesFor
      <4>4. /\ here = [id |-> calls[m].id, code |-> calls[m].bff]
            /\ there = [id |-> calls[m].id, code |-> calls[m].outcome]
        BY <4>1, <4>3, SequencesOfOneAndTwo
      <4> QED
        BY <4>3, <4>4
    <3> QED
      BY <2>3, <2>7, <3>1 DEF CallFits, CallRecords, Cuts
  <2>8. ASSUME step = "replied", request.document, reply.status # 302
        PROVE  httpLog # <<>> /\ \A line \in ToSet(httpLog) : line.status = reply.status
    <3>1. CASE httpLog = <<Line("page", reply.status)>>
      <4>1. ToSet(httpLog) = {Line("page", reply.status)} /\ httpLog # <<>>
        BY <3>1, SequencesOfOneAndTwo
      <4> QED
        BY <4>1 DEF Line
    <3>2. CASE httpLog = <<Line("page", 500), Line("error page", 500)>> /\ reply.status = 500
      <4> DEFINE first == Line("page", 500)
                 second == Line("error page", 500)
      <4>1. httpLog = <<first, second>> /\ first.status = 500 /\ second.status = 500
        BY <3>2 DEF Line
      <4> HIDE DEF first, second
      <4>2. ToSet(httpLog) = {first, second} /\ httpLog # <<>>
        BY <4>1, SequencesOfOneAndTwo
      <4> QED
        BY <3>2, <4>1, <4>2
    <3> QED
      BY <1>1, <2>8, <3>1, <3>2 DEF LogInv, PageLogged
  <2>9. httpLog # <<>> => step \in {"rendering", "replied"} /\ (Len(httpLog) > 1 => reply.status = 500)
    <3>1. Len(httpLog) > 1 =>
            /\ httpLog # <<Line("page", 500)>> /\ httpLog # <<Line("page", reply.status)>>
            /\ httpLog # <<>>
      BY SequencesOfOneAndTwo
    <3> QED
      BY <1>1, <3>1 DEF LogInv, PageLogged, PathInv, StepFits
  <2> QED
    BY <2>4, <2>6, <2>7, <2>8, <2>9 DEF LogsTellWhatHappened
<1> QED
  BY <1>1, AlwaysFits, InitLogs, NextLogs, PTL DEF Spec
=============================================================================
