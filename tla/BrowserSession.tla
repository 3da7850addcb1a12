--------------------------- MODULE BrowserSession ---------------------------
(***************************************************************************)
(* The login of one browser.  The whole session (user, CSRF token and the   *)
(* login under way) is one signed cookie: the server keeps nothing, a       *)
(* request carries the cookie as it was when it left, and a reply that sets *)
(* it replaces all of it.  Several tabs share the jar.                      *)
(*                                                                          *)
(* Signatures hold and random values do not collide: tokens and logins      *)
(* (state, nonce and verifier together) are numbered as they are drawn.     *)
(***************************************************************************)
EXTENDS Naturals, FiniteSets

CONSTANTS
  Tabs,
  Accounts,            \* people known to the identity provider
  Nobody,
  MaxTokens,           \* bound on CSRF tokens drawn
  MaxLogins            \* bound on logins begun

ASSUME SessionAssumption ==
  /\ Nobody \notin Accounts
  /\ "unset" \notin Accounts \cup {Nobody}
  /\ MaxTokens \in Nat /\ MaxLogins \in Nat

Nothing == 0   \* no token, no login

Cookies == [user : Accounts \cup {Nobody}, csrf : 0 .. MaxTokens, login : 0 .. MaxLogins]

EmptyCookie == [user |-> Nobody, csrf |-> Nothing, login |-> Nothing]

Unset == [EmptyCookie EXCEPT !.user = "unset"]   \* a reply without Set-Cookie

\* What a tab shows: a form with its token and the user it was made for, the
\* provider's page or its redirect back with a login, and who signed in there.
Pages ==
  [at : {"blank", "form", "logoutForm", "provider", "returned", "accepted", "refused"},
   user : Accounts \cup {Nobody}, token : 0 .. MaxTokens, login : 0 .. MaxLogins]

Page(at, user, token, login) == [at |-> at, user |-> user, token |-> token, login |-> login]

Blank == Page("blank", Nobody, Nothing, Nothing)

NoRequest == [to |-> "none", cookie |-> EmptyCookie]
NoReply == [setCookie |-> Unset, page |-> Blank, ready |-> FALSE]

VARIABLES
  jar,      \* the browser's session cookie
  page,     \* what each tab shows
  sent,     \* the request each tab has under way, with the cookie it carries
  reply,    \* the reply on its way back
  tokens,   \* how many CSRF tokens were drawn
  logins,   \* how many logins were begun
  redeemed, \* logins whose code the provider has exchanged
  ended,    \* for the properties: tokens of sessions logged out or expired
  crossed   \* for the properties: some request left, or the cookie expired,
            \* while a request was under way

vars == <<jar, page, sent, reply, tokens, logins, redeemed, ended, crossed>>

Init ==
  /\ jar = EmptyCookie
  /\ page = [t \in Tabs |-> Blank]
  /\ sent = [t \in Tabs |-> NoRequest]
  /\ reply = [t \in Tabs |-> NoReply]
  /\ tokens = 0 /\ logins = 0
  /\ redeemed = {} /\ ended = {} /\ crossed = FALSE

----------------------------------------------------------------------------
(* The browser *)

Idle(t) == sent[t] = NoRequest

UnderWay == \E t \in Tabs : ~Idle(t)

Send(t, route) ==
  /\ Idle(t)
  /\ crossed' = (crossed \/ UnderWay)
  /\ sent' = [sent EXCEPT ![t] = [to |-> route, cookie |-> jar]]
  /\ UNCHANGED <<jar, page, reply, tokens, logins, redeemed, ended>>

\* The pages anyone may open at any time: /quiz, one that needs a login, /login.
Open(t) == page[t].at \notin {"provider", "returned"} /\ \E r \in {"quiz", "edit", "login"} : Send(t, r)

Follow(t) == page[t].at = "returned" /\ Send(t, "callback")

Post(t) ==
  \/ page[t].at = "form" /\ \E r \in {"postQuiz", "postEdit"} : Send(t, r)
  \/ page[t].at = "logoutForm" /\ Send(t, "postLogout")

\* Set-Cookie replaces the jar, whatever happened to it since the request left.
Receive(t) ==
  /\ reply[t].ready
  /\ jar' = IF reply[t].setCookie = Unset THEN jar ELSE reply[t].setCookie
  /\ page' = [page EXCEPT ![t] = IF reply[t].page.at = "accepted" THEN @ ELSE reply[t].page]
  /\ sent' = [sent EXCEPT ![t] = NoRequest]
  /\ reply' = [reply EXCEPT ![t] = NoReply]
  /\ UNCHANGED <<tokens, logins, redeemed, ended, crossed>>

\* The request or its reply is lost; the person gives up, or goes back to try
\* the same page once more.
Lose(t) ==
  /\ ~Idle(t)
  /\ \E p \in {Blank, page[t]} : page' = [page EXCEPT ![t] = p]
  /\ sent' = [sent EXCEPT ![t] = NoRequest]
  /\ reply' = [reply EXCEPT ![t] = NoReply]
  /\ UNCHANGED <<jar, tokens, logins, redeemed, ended, crossed>>

\* The browser drops the cookie seven days after it was last set, and only a
\* reply that changes the session sets it again: when that is, is left open.
Expire ==
  /\ jar # EmptyCookie
  /\ jar' = EmptyCookie
  /\ ended' = ended \cup ({jar.csrf} \ {Nothing})
  /\ crossed' = (crossed \/ UnderWay)
  /\ UNCHANGED <<page, sent, reply, tokens, logins, redeemed>>

\* The provider: somebody signs in, or cancels.
SignIn(t) ==
  /\ page[t].at = "provider"
  /\ \E u \in Accounts \cup {Nobody} :
       page' = [page EXCEPT ![t] = Page("returned", u, Nothing, @.login)]
  /\ UNCHANGED <<jar, sent, reply, tokens, logins, redeemed, ended, crossed>>

----------------------------------------------------------------------------
(* The server: a function of the cookie the request carried *)

Serves(t, routes) == sent[t].to \in routes /\ ~reply[t].ready

Respond(t, cookie, p) ==
  /\ reply' = [reply EXCEPT ![t] = [setCookie |-> cookie, page |-> p, ready |-> TRUE]]
  /\ UNCHANGED <<jar, page, sent, crossed>>

\* Mutant of EnsureSessionCsrfToken: every form gets a token of its own.
FreshTokenForEveryForm(t, at) ==
  LET k == sent[t].cookie IN
  /\ tokens < MaxTokens
  /\ tokens' = tokens + 1
  /\ Respond(t, [k EXCEPT !.csrf = tokens'], Page(at, k.user, tokens', Nothing))

\* Mutant of EnsureSessionCsrfToken: the token starts a session of its own.
NewSessionForToken(t, at) ==
  LET k == sent[t].cookie IN
  \/ /\ k.csrf # Nothing
     /\ Respond(t, Unset, Page(at, k.user, k.csrf, Nothing))
     /\ UNCHANGED tokens
  \/ /\ k.csrf = Nothing /\ tokens < MaxTokens
     /\ tokens' = tokens + 1
     /\ Respond(t, [EmptyCookie EXCEPT !.csrf = tokens'], Page(at, k.user, tokens', Nothing))

\* A token for the form, drawn and saved unless the session has one.
EnsureSessionCsrfToken(t, at) ==
  LET k == sent[t].cookie IN
  \/ /\ k.csrf # Nothing
     /\ Respond(t, Unset, Page(at, k.user, k.csrf, Nothing))
     /\ UNCHANGED tokens
  \/ /\ k.csrf = Nothing /\ tokens < MaxTokens
     /\ tokens' = tokens + 1
     /\ Respond(t, [k EXCEPT !.csrf = tokens'], Page(at, k.user, tokens', Nothing))

ErrorPage(t) == Respond(t, Unset, Blank) /\ UNCHANGED tokens

\* The loader of /quiz.  A backend error makes it an error page, without the
\* cookie of a token just drawn.
QuizLoader(t) ==
  /\ Serves(t, {"quiz"})
  /\ EnsureSessionCsrfToken(t, "form") \/ ErrorPage(t)
  /\ UNCHANGED <<logins, redeemed, ended>>

\* Strangers are sent to /login.
RequireAuthenticatedUser(t) == sent[t].cookie.user # Nobody

SendToLogin(t) == ~RequireAuthenticatedUser(t) /\ Respond(t, Unset, Blank)

\* The loader of the edit page; that of the page for new questions is the same
\* without the call that may fail.
EditorLoader(t) ==
  /\ Serves(t, {"edit"})
  /\ \/ SendToLogin(t) /\ UNCHANGED tokens
     \/ RequireAuthenticatedUser(t) /\ (EnsureSessionCsrfToken(t, "form") \/ ErrorPage(t))
  /\ UNCHANGED <<logins, redeemed, ended>>

SetPendingLogin(k, login) == [k EXCEPT !.login = login]

BeginLogin(t) ==
  /\ logins < MaxLogins
  /\ logins' = logins + 1
  /\ Respond(t, SetPendingLogin(sent[t].cookie, logins'),
             Page("provider", Nobody, Nothing, logins'))

\* The loader of /login: the provider for strangers (an error page if it is
\* down), for others the logout form, or a redirect to where they were going,
\* which drops the cookie.
LoginLoader(t) ==
  /\ Serves(t, {"login"})
  /\ \/ sent[t].cookie.user = Nobody /\ BeginLogin(t) /\ UNCHANGED tokens
     \/ sent[t].cookie.user # Nobody /\ EnsureSessionCsrfToken(t, "logoutForm") /\ UNCHANGED logins
     \/ Respond(t, Unset, Blank) /\ UNCHANGED <<tokens, logins>>
  /\ UNCHANGED <<redeemed, ended>>

\* Mutant of CreateUserSession: the pending login stays.
UserSessionWithLogin(k, u) == [k EXCEPT !.user = u]

ClearPendingLogin(k) == [k EXCEPT !.login = Nothing]

CreateUserSession(k, u) == [ClearPendingLogin(k) EXCEPT !.user = u]

\* The token endpoint takes a code once, and with the verifier of its login only.
Exchange(t, login) ==
  /\ login = page[t].login
  /\ login \notin redeemed
  /\ redeemed' = redeemed \cup {login}

\* The subject of an ID token that is signed and has the nonce of the login.
Subject(t, login) == IF login = page[t].login THEN page[t].user ELSE Nobody

FailLogin(t) == Respond(t, ClearPendingLogin(sent[t].cookie), Blank)

\* Mutant of CallbackLoader: any code will do.
CallbackUnchecked(t) ==
  /\ Serves(t, {"callback"})
  /\ page[t].user # Nobody
  /\ Respond(t, CreateUserSession(sent[t].cookie, page[t].user), Blank)
  /\ UNCHANGED <<tokens, logins, redeemed, ended>>

\* The loader of /auth/callback.  A cancelled login, a session without a login
\* or with another one (state), and every failure of the provider, after it took
\* the code too, forget the login under way.
CallbackLoader(t) ==
  LET k == sent[t].cookie
      cancelled == page[t].user = Nobody
      pending == k.login # Nothing /\ k.login = page[t].login
  IN
  /\ Serves(t, {"callback"})
  /\ \/ /\ ~cancelled /\ pending /\ Exchange(t, k.login)
        /\ \/ Respond(t, CreateUserSession(k, Subject(t, k.login)), Blank)
           \/ FailLogin(t)
     \/ FailLogin(t) /\ UNCHANGED redeemed
  /\ UNCHANGED <<tokens, logins, ended>>

VerifyCsrfToken(t) ==
  sent[t].cookie.csrf # Nothing /\ sent[t].cookie.csrf = page[t].token

\* A refused post is a 403; an accepted one is done in the name of the user in
\* the cookie, whatever the backend answers.
Judge(t) ==
  Respond(t, Unset, Page(IF VerifyCsrfToken(t) THEN "accepted" ELSE "refused",
                         sent[t].cookie.user, page[t].token, Nothing))

QuizAction(t) ==
  /\ Serves(t, {"postQuiz"})
  /\ Judge(t)
  /\ UNCHANGED <<tokens, logins, redeemed, ended>>

EditorAction(t) ==
  /\ Serves(t, {"postEdit"})
  /\ \/ SendToLogin(t)
     \/ RequireAuthenticatedUser(t) /\ Judge(t)
  /\ UNCHANGED <<tokens, logins, redeemed, ended>>

\* Mutant of DestroySession: logging out only forgets the user.
ForgetUser(k) == [k EXCEPT !.user = Nobody]

DestroySession(k) == EmptyCookie

\* The action of /login logs out.  (The 400 for another intent than the one its
\* form has is left out.)
LogoutAction(t) ==
  LET k == sent[t].cookie IN
  /\ Serves(t, {"postLogout"})
  /\ \/ /\ VerifyCsrfToken(t)
        /\ ended' = ended \cup {k.csrf}
        /\ Respond(t, DestroySession(k), Blank)
     \/ /\ ~VerifyCsrfToken(t)
        /\ Respond(t, Unset, Page("refused", k.user, page[t].token, Nothing))
        /\ UNCHANGED ended
  /\ UNCHANGED <<tokens, logins, redeemed>>

Handle(t) ==
  \/ QuizLoader(t) \/ EditorLoader(t) \/ LoginLoader(t) \/ CallbackLoader(t)
  \/ QuizAction(t) \/ EditorAction(t) \/ LogoutAction(t)

Next ==
  \/ \E t \in Tabs :
       Open(t) \/ Follow(t) \/ Post(t) \/ Receive(t) \/ Lose(t) \/ SignIn(t) \/ Handle(t)
  \/ Expire

Spec == Init /\ [][Next]_vars

----------------------------------------------------------------------------
(* Properties *)

\* Every variable stays within its type, and a session is of somebody logged in
\* or of somebody logging in, never both.
TypeOK ==
  /\ jar \in Cookies
  /\ page \in [Tabs -> Pages]
  /\ \A t \in Tabs : sent[t].cookie \in Cookies /\ reply[t].page \in Pages
  /\ \A k \in {jar} \cup {sent[t].cookie : t \in Tabs} \cup {reply[t].setCookie : t \in Tabs} :
       k.user \in Accounts => k.login = Nothing
  /\ tokens \in 0 .. MaxTokens /\ logins \in 0 .. MaxLogins
  /\ redeemed \subseteq 1 .. logins /\ ended \subseteq 1 .. tokens

\* A reply never logs in anybody but the one who signed in for the very login
\* the cookie of the callback was waiting for, and each login counts once,
\* however many tabs are logging in and however replies cross.
LoginsAreNotMixedUp ==
  [][\A t \in Tabs : reply'[t].ready /\ ~reply[t].ready /\ sent[t].to = "callback"
                       /\ reply'[t].setCookie.user \in Accounts \ {sent[t].cookie.user} =>
       /\ reply'[t].setCookie.user = page[t].user
       /\ page[t].login = sent[t].cookie.login
       /\ sent[t].cookie.login \in redeemed' \ redeemed]_vars

\* Posts of a form made for one person are never done in the name of another,
\* while requests take turns: the token a logout throws away is what tells an
\* old form from a new one.
FormsStayWithTheirAccount ==
  ~crossed => \A t \in Tabs : reply[t].page.at = "accepted" /\ page[t].user # Nobody =>
    reply[t].page.user = page[t].user

\* csrf-rollout.md:5 and :6: tokens are per session and a post is refused when
\* its token is missing or forged.  So a form the server made is only refused
\* once its session is logged out or its cookie has expired, while requests take
\* turns: no login, failed login or later form takes its token away.
FormsStayGood ==
  ~crossed => \A t \in Tabs : reply[t].page.at = "refused" => page[t].token \in ended

\* What turns the user of the jar into another one is the reply to a login or a
\* logout, or the browser that drops the cookie.
OnPurpose == jar'.user # jar.user =>
  \/ \E t \in Tabs : sent[t].to \in {"callback", "postLogout"} /\ Idle(t)'
  \/ jar' = EmptyCookie /\ UNCHANGED sent

\* login.tsx:67: logging out destroys the session.  So the user in the jar only
\* changes by a login, a logout or the expiry of the cookie, and one who is gone
\* does not come back by itself, while requests take turns.
SessionsChangeOnPurpose == [][~crossed => OnPurpose]_vars

\* docs/tasks.md:189: a session persists.  So until its cookie expires nothing
\* else changes the user, whatever other tabs are doing.
SessionsPersist == [][OnPurpose]_vars
=============================================================================
