----------------------- MODULE BrowserSessionProofs -----------------------
(***************************************************************************)
(* Logins and forms of one browser, for any number of tabs, people, tokens  *)
(* and logins.  Requests that take turns carry the cookie of the jar, so    *)
(* what the server concludes from it is still true when the reply is back.  *)
(***************************************************************************)
EXTENDS BrowserSession, TLAPS

Routes == {"none", "quiz", "edit", "login", "callback", "postQuiz", "postEdit", "postLogout"}

Requests == [to : Routes, cookie : Cookies]

Replies == [setCookie : Cookies \cup {Unset}, page : Pages, ready : BOOLEAN]

Typed ==
  /\ jar \in Cookies
  /\ page \in [Tabs -> Pages]
  /\ sent \in [Tabs -> Requests]
  /\ reply \in [Tabs -> Replies]
  /\ tokens \in 0 .. MaxTokens /\ logins \in 0 .. MaxLogins
  /\ redeemed \subseteq 1 .. logins /\ ended \subseteq 1 .. tokens
  /\ crossed \in BOOLEAN

\* A cookie holds what was drawn, and no login once somebody is logged in.
Fits(k) ==
  /\ k.csrf <= tokens /\ k.login <= logins
  /\ k.user \in Accounts => k.login = Nothing

CookiesFit ==
  /\ Fits(jar)
  /\ \A t \in Tabs : Fits(sent[t].cookie) /\ Fits(reply[t].setCookie)

Forms == {"form", "logoutForm"}

\* Every form has a token that was drawn.
FormFits(p) == p.token <= tokens /\ (p.at \in Forms => p.token # Nothing)

PagesFit == \A t \in Tabs : FormFits(page[t]) /\ FormFits(reply[t].page)

\* A post is of the form that is shown; a reply is to the request under way.
RequestsFit ==
  \A t \in Tabs :
    /\ sent[t].to = "none" <=> Idle(t)
    /\ sent[t].to \in {"postQuiz", "postEdit"} => page[t].at = "form"
    /\ sent[t].to = "postLogout" => page[t].at = "logoutForm"
    /\ reply[t].ready => ~Idle(t)
    /\ ~reply[t].ready => reply[t] = NoReply

\* The jar after the reply, if nobody else writes to it.
After(t) == IF reply[t].setCookie = Unset THEN sent[t].cookie ELSE reply[t].setCookie

\* What a reply makes of the cookie k of its request: nothing the forms depend on
\* (or a stranger logs in), the first token, or the end of the session.
Follows(to, k, e, gone) ==
  /\ to \notin {"callback", "postLogout"} => e.user = k.user
  /\ \/ e.csrf = k.csrf /\ (k.user # Nobody => e.user = k.user)
     \/ k.csrf = Nothing /\ e.csrf # Nothing /\ e.user = k.user
     \/ e.csrf = Nothing /\ k.csrf \in gone

\* What it shows: a form of the session, or the verdict on the form it was for.
Shows(form, k, e, p) ==
  /\ p.at \in Forms => p.token = e.csrf /\ p.user = e.user
  /\ p.at = "accepted" => form.at \in Forms /\ form.token = k.csrf /\ p.user = k.user
  /\ p.at = "refused" => form.at \in Forms /\ form.token # k.csrf

RepliesFit ==
  \A t \in Tabs : reply[t].ready =>
    /\ Follows(sent[t].to, sent[t].cookie, After(t), ended)
    /\ Shows(page[t], sent[t].cookie, After(t), reply[t].page)

\* While requests take turns: who is under way carries the jar, and every form
\* is of the session in it or of one that was logged out or has expired.
OfTheSession(p, k, gone) ==
  p.at \in Forms =>
    /\ p.token = k.csrf \/ p.token \in gone
    /\ p.token = k.csrf /\ p.user # Nobody => p.user = k.user

\* A token that a reply brings to the session is on no form yet.
New(k, e, p) ==
  e.csrf = Nothing \/ e.csrf = k.csrf \/ (p.at \in Forms => p.token # e.csrf)

TurnsFit ==
  ~crossed =>
    /\ \A t, o \in Tabs : ~Idle(t) /\ ~Idle(o) => t = o
    /\ \A t \in Tabs : ~Idle(t) => sent[t].cookie = jar
    /\ \A t \in Tabs : OfTheSession(page[t], jar, ended)
    /\ \A t, o \in Tabs : reply[t].ready => New(sent[t].cookie, After(t), page[o])

SessionInv == Typed /\ CookiesFit /\ PagesFit /\ RequestsFit /\ RepliesFit /\ TurnsFit

----------------------------------------------------------------------------
LEMMA InitFits == Init => SessionInv
<1> SUFFICES ASSUME Init PROVE SessionInv
  OBVIOUS
<1>1. EmptyCookie \in Cookies /\ Blank \in Pages
  BY SessionAssumption DEF EmptyCookie, Cookies, Blank, Page, Pages, Nothing
<1>2. NoRequest \in Requests /\ NoReply \in Replies
  BY <1>1 DEF NoRequest, NoReply, Requests, Replies, Routes
<1>3. Typed
  <2>1. page \in [Tabs -> Pages] /\ sent \in [Tabs -> Requests] /\ reply \in [Tabs -> Replies]
    BY <1>1, <1>2 DEF Init
  <2>2. tokens \in 0 .. MaxTokens /\ logins \in 0 .. MaxLogins
    BY SessionAssumption DEF Init
  <2>3. redeemed \subseteq 1 .. logins /\ ended \subseteq 1 .. tokens
    BY DEF Init
  <2>4. jar \in Cookies /\ crossed \in BOOLEAN
    BY <1>1 DEF Init
  <2> QED
    BY <2>1, <2>2, <2>3, <2>4 DEF Typed
<1>4. CookiesFit /\ PagesFit
  BY SessionAssumption DEF Init, CookiesFit, PagesFit, Fits, FormFits, EmptyCookie, Unset,
     NoRequest, NoReply, Blank, Page, Forms, Nothing
<1>5. \A t \in Tabs : /\ sent[t].to = "none" /\ Idle(t) /\ reply[t] = NoReply
                     /\ ~reply[t].ready /\ page[t].at \notin Forms
  BY DEF Init, Idle, NoRequest, NoReply, Blank, Page, Forms
<1>6. RequestsFit /\ RepliesFit /\ TurnsFit
  BY <1>5 DEF RequestsFit, RepliesFit, TurnsFit, OfTheSession
<1> QED
  BY <1>3, <1>4, <1>6 DEF SessionInv

(* A request leaves with the cookie of the jar. *)
LEMMA SendKeeps ==
  ASSUME SessionInv, NEW t \in Tabs, NEW route \in Routes \ {"none"}, Send(t, route),
         route \in {"postQuiz", "postEdit"} => page[t].at = "form",
         route = "postLogout" => page[t].at = "logoutForm"
  PROVE  SessionInv'
<1> DEFINE r == [to |-> route, cookie |-> jar]
<1>1. /\ sent' = [sent EXCEPT ![t] = r] /\ Idle(t)
      /\ crossed' = (crossed \/ \E o \in Tabs : ~Idle(o))
      /\ UNCHANGED <<jar, page, reply, tokens, logins, redeemed, ended>>
  BY DEF Send, UnderWay
<1>2. r \in Requests /\ r # NoRequest /\ r.to = route /\ r.cookie = jar
  BY DEF Requests, NoRequest, SessionInv, Typed
<1>3. /\ sent'[t] = r
      /\ \A o \in Tabs \ {t} : sent'[o] = sent[o]
      /\ sent' \in [Tabs -> Requests]
  BY <1>1, <1>2 DEF SessionInv, Typed
<1>4. ~reply[t].ready
  BY <1>1 DEF SessionInv, RequestsFit
<1> HIDE DEF r
<1>5. Typed'
  BY <1>1, <1>3 DEF SessionInv, Typed
<1>6. CookiesFit' /\ PagesFit'
  BY <1>1, <1>2, <1>3 DEF SessionInv, CookiesFit, PagesFit, Fits, FormFits
<1>7. RequestsFit'
  BY <1>1, <1>2, <1>3, <1>4 DEF SessionInv, RequestsFit, Idle
<1>8. RepliesFit'
  <2> SUFFICES ASSUME NEW o \in Tabs, reply'[o].ready
               PROVE  /\ Follows(sent[o].to, sent[o].cookie, After(o), ended)'
                      /\ Shows(page[o], sent[o].cookie, After(o), reply[o].page)'
    BY DEF RepliesFit
  <2>1. o # t /\ sent'[o] = sent[o] /\ reply[o].ready
    BY <1>1, <1>3, <1>4
  <2> QED
    BY <1>1, <2>1 DEF SessionInv, RepliesFit, Follows, Shows, After
<1>9. TurnsFit'
  <2> SUFFICES ASSUME ~crossed' PROVE TurnsFit'
    BY DEF TurnsFit
  <2>1. ~crossed /\ \A o \in Tabs : Idle(o)
    BY <1>1
  <2>2. \A o \in Tabs : ~reply[o].ready
    BY <2>1 DEF SessionInv, RequestsFit
  <2> QED
    BY <1>1, <1>2, <1>3, <2>1, <2>2 DEF SessionInv, TurnsFit, Idle, OfTheSession
<1> QED
  BY <1>5, <1>6, <1>7, <1>8, <1>9 DEF SessionInv

(* The reply is taken, and with it its cookie. *)
LEMMA ReceiveKeeps ==
  ASSUME SessionInv, NEW t \in Tabs, Receive(t)
  PROVE  SessionInv'
<1> DEFINE p == IF reply[t].page.at = "accepted" THEN page[t] ELSE reply[t].page
<1>1. /\ reply[t].ready
      /\ jar' = IF reply[t].setCookie = Unset THEN jar ELSE reply[t].setCookie
      /\ sent' = [sent EXCEPT ![t] = NoRequest]
      /\ reply' = [reply EXCEPT ![t] = NoReply]
      /\ UNCHANGED <<tokens, logins, redeemed, ended, crossed>>
  BY DEF Receive
<1>2. /\ page' \in [Tabs -> Pages]
      /\ page'[t] = p /\ \A o \in Tabs \ {t} : page'[o] = page[o]
  BY DEF Receive, SessionInv, Typed, Replies
<1>3. NoRequest \in Requests /\ NoReply \in Replies
  BY SessionAssumption DEF NoRequest, NoReply, Requests, Replies, Routes, EmptyCookie, Cookies,
     Blank, Page, Pages, Nothing
<1>4. /\ sent'[t] = NoRequest /\ reply'[t] = NoReply
      /\ sent' \in [Tabs -> Requests] /\ reply' \in [Tabs -> Replies]
      /\ \A o \in Tabs \ {t} : sent'[o] = sent[o] /\ reply'[o] = reply[o]
  BY <1>1, <1>3 DEF SessionInv, Typed
<1>5. jar' \in Cookies
  BY <1>1 DEF SessionInv, Typed, Replies
<1>6. Typed'
  BY <1>1, <1>2, <1>4, <1>5 DEF SessionInv, Typed
<1>7. CookiesFit'
  <2>1. Fits(EmptyCookie) /\ Fits(Unset)
    BY SessionAssumption DEF Fits, EmptyCookie, Unset, Nothing, SessionInv, Typed
  <2>2. Fits(jar) /\ \A o \in Tabs : Fits(sent[o].cookie) /\ Fits(reply[o].setCookie)
    BY DEF SessionInv, CookiesFit
  <2>3. \A o \in Tabs : Fits(sent'[o].cookie) /\ Fits(reply'[o].setCookie)
    BY <1>4, <2>1, <2>2 DEF NoRequest, NoReply
  <2>4. Fits(jar')
    BY <1>1, <2>2
  <2> QED
    BY <1>1, <2>3, <2>4 DEF CookiesFit, Fits
<1>8. PagesFit'
  <2>1. FormFits(Blank)
    BY DEF FormFits, Blank, Page, Forms, Nothing, SessionInv, Typed
  <2>2. \A o \in Tabs : FormFits(page[o]) /\ FormFits(reply[o].page)
    BY DEF SessionInv, PagesFit
  <2>3. \A o \in Tabs : FormFits(page'[o]) /\ FormFits(reply'[o].page)
    BY <1>2, <1>4, <2>1, <2>2 DEF NoReply
  <2> QED
    BY <1>1, <2>3 DEF PagesFit, FormFits
<1>9. RequestsFit'
  <2>1. NoRequest.to = "none" /\ ~NoReply.ready
    BY DEF NoRequest, NoReply
  <2> QED
    BY <1>2, <1>4, <2>1 DEF SessionInv, RequestsFit, Idle
<1>10. RepliesFit'
  <2> SUFFICES ASSUME NEW o \in Tabs, reply'[o].ready
               PROVE  /\ Follows(sent'[o].to, sent'[o].cookie, After(o)', ended')
                      /\ Shows(page'[o], sent'[o].cookie, After(o)', reply'[o].page)
    BY DEF RepliesFit
  <2>1. o # t
    BY <1>4 DEF NoReply
  <2>2. sent'[o] = sent[o] /\ reply'[o] = reply[o] /\ page'[o] = page[o] /\ After(o)' = After(o)
    BY <1>2, <1>4, <2>1 DEF After
  <2> QED
    BY <1>1, <2>2 DEF SessionInv, RepliesFit
<1>11. TurnsFit'
  <2> DEFINE k == sent[t].cookie
             e == After(t)
  <2> SUFFICES ASSUME ~crossed
               PROVE  /\ \A s, o \in Tabs : ~Idle(s)' /\ ~Idle(o)' => s = o
                      /\ \A o \in Tabs : ~Idle(o)' => sent'[o].cookie = jar'
                      /\ \A o \in Tabs : OfTheSession(page'[o], jar', ended')
                      /\ \A s, o \in Tabs :
                           reply'[s].ready => New(sent'[s].cookie, After(s)', page'[o])
    BY <1>1 DEF TurnsFit
  <2>1. ~Idle(t) /\ k = jar /\ jar' = e
    BY <1>1 DEF SessionInv, RequestsFit, TurnsFit, After
  <2>2. \A o \in Tabs : Idle(o)' /\ ~reply'[o].ready
    BY <1>4, <2>1 DEF SessionInv, RequestsFit, TurnsFit, Idle, NoReply
  <2>3. Follows(sent[t].to, k, e, ended) /\ Shows(page[t], k, e, reply[t].page)
    BY <1>1 DEF SessionInv, RepliesFit
  <2>4. ASSUME NEW o \in Tabs PROVE OfTheSession(page[o], e, ended)
    <3>1. OfTheSession(page[o], k, ended) /\ New(k, e, page[o])
      BY <1>1, <2>1 DEF SessionInv, TurnsFit
    <3>2. page[o].at \in Forms => page[o].token # Nothing
      BY DEF SessionInv, PagesFit, FormFits
    <3> HIDE DEF k, e
    <3> QED
      BY <2>3, <3>1, <3>2 DEF OfTheSession, New, Follows
  <2>5. OfTheSession(p, e, ended)
    BY <2>3, <2>4 DEF OfTheSession, Shows
  <2>6. \A o \in Tabs : OfTheSession(page'[o], e, ended)
    BY <1>2, <2>4, <2>5
  <2> QED
    BY <1>1, <2>1, <2>2, <2>6
<1> QED
  BY <1>6, <1>7, <1>8, <1>9, <1>10, <1>11 DEF SessionInv

(* A tab gives its request up: blank, or as it was. *)
LEMMA LoseKeeps ==
  ASSUME SessionInv, NEW t \in Tabs, Lose(t)
  PROVE  SessionInv'
<1>1. /\ sent' = [sent EXCEPT ![t] = NoRequest]
      /\ reply' = [reply EXCEPT ![t] = NoReply]
      /\ UNCHANGED <<jar, tokens, logins, redeemed, ended, crossed>>
  BY DEF Lose
<1>2. NoRequest \in Requests /\ NoReply \in Replies /\ Blank \in Pages
  BY SessionAssumption DEF NoRequest, NoReply, Requests, Replies, Routes, EmptyCookie, Cookies,
     Blank, Page, Pages, Nothing
<1>3. PICK p \in {Blank, page[t]} : page' = [page EXCEPT ![t] = p]
  BY DEF Lose
<1>4. /\ page' \in [Tabs -> Pages]
      /\ page'[t] = p /\ \A o \in Tabs \ {t} : page'[o] = page[o]
  BY <1>2, <1>3 DEF SessionInv, Typed
<1>5. /\ sent'[t] = NoRequest /\ reply'[t] = NoReply
      /\ sent' \in [Tabs -> Requests] /\ reply' \in [Tabs -> Replies]
      /\ \A o \in Tabs \ {t} : sent'[o] = sent[o] /\ reply'[o] = reply[o]
  BY <1>1, <1>2 DEF SessionInv, Typed
<1>6. Typed'
  BY <1>1, <1>4, <1>5 DEF SessionInv, Typed
<1>7. CookiesFit'
  <2>1. Fits(EmptyCookie) /\ Fits(Unset)
    BY SessionAssumption DEF Fits, EmptyCookie, Unset, Nothing, SessionInv, Typed
  <2>2. Fits(jar) /\ \A o \in Tabs : Fits(sent[o].cookie) /\ Fits(reply[o].setCookie)
    BY DEF SessionInv, CookiesFit
  <2>3. \A o \in Tabs : Fits(sent'[o].cookie) /\ Fits(reply'[o].setCookie)
    BY <1>5, <2>1, <2>2 DEF NoRequest, NoReply
  <2> QED
    BY <1>1, <2>2, <2>3 DEF CookiesFit, Fits
<1>8. PagesFit'
  <2>1. FormFits(Blank)
    BY DEF FormFits, Blank, Page, Forms, Nothing, SessionInv, Typed
  <2>2. \A o \in Tabs : FormFits(page[o]) /\ FormFits(reply[o].page)
    BY DEF SessionInv, PagesFit
  <2>3. \A o \in Tabs : FormFits(page'[o]) /\ FormFits(reply'[o].page)
    BY <1>4, <1>5, <2>1, <2>2 DEF NoReply
  <2> QED
    BY <1>1, <2>3 DEF PagesFit, FormFits
<1>9. RequestsFit'
  <2>1. NoRequest.to = "none" /\ ~NoReply.ready
    BY DEF NoRequest, NoReply
  <2> QED
    BY <1>4, <1>5, <2>1 DEF SessionInv, RequestsFit, Idle
<1>10. RepliesFit'
  <2> SUFFICES ASSUME NEW o \in Tabs, reply'[o].ready
               PROVE  /\ Follows(sent'[o].to, sent'[o].cookie, After(o)', ended')
                      /\ Shows(page'[o], sent'[o].cookie, After(o)', reply'[o].page)
    BY DEF RepliesFit
  <2>1. o # t
    BY <1>5 DEF NoReply
  <2>2. sent'[o] = sent[o] /\ reply'[o] = reply[o] /\ page'[o] = page[o] /\ After(o)' = After(o)
    BY <1>4, <1>5, <2>1 DEF After
  <2> QED
    BY <1>1, <2>2 DEF SessionInv, RepliesFit
<1>11. TurnsFit'
  <2> SUFFICES ASSUME ~crossed PROVE TurnsFit'
    BY <1>1 DEF TurnsFit
  <2>1. \A o \in Tabs : ~Idle(o)' => o # t /\ ~Idle(o) /\ sent'[o] = sent[o]
    BY <1>5 DEF Idle
  <2>2. \A o \in Tabs : reply'[o].ready => reply[o].ready /\ After(o)' = After(o) /\ sent'[o] = sent[o]
    BY <1>5 DEF NoReply, After
  <2>3. p.at \in Forms => p = page[t]
    BY DEF Blank, Page, Forms
  <2>4. \A o \in Tabs : OfTheSession(page'[o], jar, ended)
    BY <1>4, <2>3 DEF SessionInv, TurnsFit, OfTheSession
  <2>5. \A s, o \in Tabs : reply'[s].ready => New(sent'[s].cookie, After(s)', page'[o])
    BY <1>4, <2>2, <2>3 DEF SessionInv, TurnsFit, New
  <2>6. \A s, o \in Tabs : ~Idle(s)' /\ ~Idle(o)' => s = o
    BY <2>1 DEF SessionInv, TurnsFit
  <2>7. \A o \in Tabs : ~Idle(o)' => sent'[o].cookie = jar'
    BY <1>1, <2>1 DEF SessionInv, TurnsFit
  <2> QED
    BY <1>1, <2>4, <2>5, <2>6, <2>7 DEF TurnsFit
<1> QED
  BY <1>6, <1>7, <1>8, <1>9, <1>10, <1>11 DEF SessionInv

(* The cookie expires: the session in the jar is over, with every form of it. *)
LEMMA ExpireKeeps ==
  ASSUME SessionInv, Expire
  PROVE  SessionInv'
<1>1. /\ jar' = EmptyCookie
      /\ ended' = ended \cup ({jar.csrf} \ {Nothing})
      /\ crossed' = (crossed \/ \E t \in Tabs : ~Idle(t))
      /\ UNCHANGED <<page, sent, reply, tokens, logins, redeemed>>
  BY DEF Expire, UnderWay
<1>2. /\ EmptyCookie \in Cookies /\ EmptyCookie.csrf = Nothing /\ EmptyCookie.login = Nothing
      /\ EmptyCookie.user = Nobody
  BY SessionAssumption DEF EmptyCookie, Cookies, Nothing
<1>3. ended' \subseteq 1 .. tokens
  <2>1. jar.csrf \in 0 .. MaxTokens /\ jar.csrf <= tokens /\ tokens \in Nat
    BY SessionAssumption DEF SessionInv, Typed, CookiesFit, Fits, Cookies
  <2>2. {jar.csrf} \ {Nothing} \subseteq 1 .. tokens
    BY <2>1, SessionAssumption DEF Nothing
  <2>3. ended \subseteq 1 .. tokens
    BY DEF SessionInv, Typed
  <2> QED
    BY <1>1, <2>2, <2>3
<1>4. Typed'
  BY <1>1, <1>2, <1>3 DEF SessionInv, Typed
<1>5. CookiesFit'
  <2>1. Fits(EmptyCookie)
    BY <1>2, SessionAssumption DEF Fits, Nothing, SessionInv, Typed
  <2> QED
    BY <1>1, <2>1 DEF SessionInv, CookiesFit, Fits
<1>6. PagesFit' /\ RequestsFit'
  BY <1>1 DEF SessionInv, PagesFit, FormFits, RequestsFit, Idle
<1>7. RepliesFit'
  <2>1. ended \subseteq ended' /\ \A t \in Tabs : After(t)' = After(t)
    BY <1>1 DEF After
  <2> SUFFICES ASSUME NEW t \in Tabs, reply[t].ready
               PROVE  /\ Follows(sent[t].to, sent[t].cookie, After(t), ended')
                      /\ Shows(page[t], sent[t].cookie, After(t), reply[t].page)
    BY <1>1, <2>1 DEF RepliesFit
  <2> QED
    BY <2>1 DEF SessionInv, RepliesFit, Follows
<1>8. TurnsFit'
  <2> SUFFICES ASSUME ~crossed' PROVE TurnsFit'
    BY DEF TurnsFit
  <2>1. ~crossed /\ \A t \in Tabs : Idle(t) /\ Idle(t)' /\ ~reply'[t].ready
    BY <1>1 DEF SessionInv, RequestsFit, Idle
  <2>2. ASSUME NEW t \in Tabs PROVE OfTheSession(page'[t], jar', ended')
    <3>1. /\ page[t].at \in Forms => page[t].token # Nothing
          /\ OfTheSession(page[t], jar, ended)
      BY <2>1 DEF SessionInv, PagesFit, FormFits, TurnsFit
    <3> QED
      BY <1>1, <1>2, <3>1 DEF OfTheSession
  <2> QED
    BY <2>1, <2>2 DEF TurnsFit
<1> QED
  BY <1>4, <1>5, <1>6, <1>7, <1>8 DEF SessionInv

(* The provider has no form of the site. *)
LEMMA SignInKeeps ==
  ASSUME SessionInv, NEW t \in Tabs, SignIn(t)
  PROVE  SessionInv'
<1>1. page[t].at = "provider"
      /\ UNCHANGED <<jar, sent, reply, tokens, logins, redeemed, ended, crossed>>
  BY DEF SignIn
<1>2. PICK u \in Accounts \cup {Nobody} :
        page' = [page EXCEPT ![t] = Page("returned", u, Nothing, page[t].login)]
  BY DEF SignIn, SessionInv, Typed
<1> DEFINE p == Page("returned", u, Nothing, page[t].login)
<1>3. p \in Pages /\ p.at = "returned" /\ p.token = 0
  BY SessionAssumption DEF Page, Pages, Nothing, SessionInv, Typed
<1> HIDE DEF p
<1>4. /\ page' \in [Tabs -> Pages]
      /\ page'[t] = p /\ \A o \in Tabs \ {t} : page'[o] = page[o]
  BY <1>2, <1>3 DEF SessionInv, Typed, p
<1>5. Typed' /\ CookiesFit'
  BY <1>1, <1>4 DEF SessionInv, Typed, CookiesFit, Fits
<1>6. PagesFit'
  BY <1>1, <1>3, <1>4 DEF SessionInv, Typed, PagesFit, FormFits, Forms
<1>7. RequestsFit'
  BY <1>1, <1>3, <1>4 DEF SessionInv, RequestsFit, Idle
<1>8. RepliesFit'
  <2>1. \A o \in Tabs : page[o].at \in Forms => page'[o] = page[o]
    BY <1>1, <1>4 DEF Forms
  <2>2. \A o \in Tabs : After(o)' = After(o)
    BY <1>1 DEF After
  <2> QED
    BY <1>1, <2>1, <2>2 DEF SessionInv, RepliesFit, Shows
<1>9. TurnsFit'
  <2>1. \A o \in Tabs : page'[o].at \in Forms => page'[o] = page[o]
    BY <1>3, <1>4 DEF Forms
  <2>2. \A o \in Tabs : After(o)' = After(o) /\ Idle(o)' = Idle(o)
    BY <1>1 DEF After, Idle
  <2> QED
    BY <1>1, <2>1, <2>2 DEF SessionInv, TurnsFit, OfTheSession, New
<1> QED
  BY <1>5, <1>6, <1>7, <1>8, <1>9 DEF SessionInv

----------------------------------------------------------------------------
(* The server *)

\* What is drawn, redeemed or ended only grows.
Grows ==
  /\ tokens' \in tokens .. MaxTokens /\ logins' \in logins .. MaxLogins
  /\ redeemed \subseteq redeemed' /\ redeemed' \subseteq 1 .. logins'
  /\ ended \subseteq ended' /\ ended' \subseteq 1 .. tokens'

(* A reply whose cookie and page follow from the request it answers. *)
LEMMA RespondKeeps ==
  ASSUME SessionInv, NEW t \in Tabs, sent[t].to # "none", ~reply[t].ready,
         NEW c \in Cookies \cup {Unset}, NEW p \in Pages, Respond(t, c, p), Grows,
         c.csrf <= tokens', c.login <= logins', c.user \in Accounts => c.login = Nothing,
         p.token <= tokens', p.at \in Forms => p.token # Nothing, NEW e, e = (IF c = Unset THEN sent[t].cookie ELSE c),
         Follows(sent[t].to, sent[t].cookie, e, ended'),
         Shows(page[t], sent[t].cookie, e, p),
         e.csrf = Nothing \/ e.csrf = sent[t].cookie.csrf \/ e.csrf > tokens
  PROVE  SessionInv'
<1> DEFINE r == [setCookie |-> c, page |-> p, ready |-> TRUE]
<1>1. /\ reply' = [reply EXCEPT ![t] = r]
      /\ UNCHANGED <<jar, page, sent, crossed>>
  BY DEF Respond
<1>2. r \in Replies /\ r.setCookie = c /\ r.page = p /\ r.ready
  BY DEF Replies
<1> HIDE DEF r
<1>3. /\ reply' \in [Tabs -> Replies] /\ reply'[t] = r
      /\ \A o \in Tabs \ {t} : reply'[o] = reply[o]
  BY <1>1, <1>2 DEF SessionInv, Typed
<1>4. /\ \A o \in Tabs \ {t} : After(o)' = After(o)
      /\ After(t)' = e
  BY <1>1, <1>2, <1>3 DEF After
<1>5. Typed'
  <2>1. tokens' \in 0 .. MaxTokens /\ logins' \in 0 .. MaxLogins
    BY SessionAssumption DEF Grows, SessionInv, Typed
  <2> QED
    BY <1>1, <1>3, <2>1 DEF SessionInv, Typed, Grows
<1>6. CookiesFit'
  <2>1. ASSUME NEW k, k \in Cookies \cup {Unset}, Fits(k) PROVE Fits(k)'
    <3>1. k.csrf \in Nat /\ k.login \in Nat
      BY <2>1, SessionAssumption DEF Cookies, Unset, EmptyCookie, Nothing
    <3> QED
      BY <2>1, <3>1 DEF Fits, Grows, SessionInv, Typed
  <2>2. /\ jar \in Cookies
        /\ \A o \in Tabs : sent[o].cookie \in Cookies /\ reply[o].setCookie \in Cookies \cup {Unset}
    BY DEF SessionInv, Typed, Requests, Replies
  <2>3. Fits(jar)' /\ \A o \in Tabs : Fits(sent[o].cookie)'
    BY <1>1, <2>1, <2>2 DEF SessionInv, CookiesFit, Fits
  <2>4. ASSUME NEW o \in Tabs PROVE Fits(reply[o].setCookie)'
    <3>1. CASE o = t
      BY <1>2, <1>3, <3>1 DEF Fits
    <3>2. CASE o # t
      <4>1. Fits(reply[o].setCookie) /\ reply'[o] = reply[o]
        BY <1>3, <3>2 DEF SessionInv, CookiesFit
      <4> QED
        BY <2>1, <2>2, <4>1 DEF Fits
    <3> QED
      BY <3>1, <3>2
  <2> QED
    BY <2>3, <2>4 DEF CookiesFit
<1>7. PagesFit'
  <2>1. ASSUME NEW q \in Pages, FormFits(q) PROVE FormFits(q)'
    <3>1. q.token \in Nat
      BY SessionAssumption DEF Pages
    <3> QED
      BY <2>1, <3>1 DEF FormFits, Grows, SessionInv, Typed
  <2>2. \A o \in Tabs : page[o] \in Pages /\ reply[o].page \in Pages
    BY DEF SessionInv, Typed, Replies
  <2>3. ASSUME NEW o \in Tabs PROVE FormFits(page[o])' /\ FormFits(reply[o].page)'
    <3>1. FormFits(page[o])'
      BY <1>1, <2>1, <2>2 DEF SessionInv, PagesFit, FormFits
    <3>2. CASE o = t
      BY <1>2, <1>3, <3>1, <3>2 DEF FormFits
    <3>3. CASE o # t
      <4>1. FormFits(reply[o].page) /\ reply'[o] = reply[o]
        BY <1>3, <3>3 DEF SessionInv, PagesFit
      <4> QED
        BY <2>1, <2>2, <3>1, <4>1 DEF FormFits
    <3> QED
      BY <3>2, <3>3
  <2> QED
    BY <2>3 DEF PagesFit
<1>8. RequestsFit'
  <2>1. ~Idle(t)
    BY DEF SessionInv, RequestsFit
  <2> QED
    BY <1>1, <1>2, <1>3, <2>1 DEF SessionInv, RequestsFit, Idle
<1>9. RepliesFit'
  <2> SUFFICES ASSUME NEW o \in Tabs, reply'[o].ready
               PROVE  /\ Follows(sent'[o].to, sent'[o].cookie, After(o)', ended')
                      /\ Shows(page'[o], sent'[o].cookie, After(o)', reply'[o].page)
    BY DEF RepliesFit
  <2>1. CASE o = t
    BY <1>1, <1>2, <1>3, <1>4, <2>1
  <2>2. CASE o # t
    <3>1. Follows(sent[o].to, sent[o].cookie, After(o), ended)
          /\ Shows(page[o], sent[o].cookie, After(o), reply[o].page)
      BY <1>3, <2>2 DEF SessionInv, RepliesFit
    <3> QED
      BY <1>1, <1>3, <1>4, <2>2, <3>1 DEF Follows, Grows
  <2> QED
    BY <2>1, <2>2
<1>10. TurnsFit'
  <2> SUFFICES ASSUME ~crossed PROVE TurnsFit'
    BY <1>1 DEF TurnsFit
  <2>1. \A o \in Tabs : OfTheSession(page'[o], jar', ended')
    BY <1>1 DEF SessionInv, TurnsFit, OfTheSession, Grows
  <2>2. ASSUME NEW o \in Tabs PROVE New(sent[t].cookie, e, page[o])
    <3>1. page[o].token <= tokens /\ page[o].token \in Nat
      BY SessionAssumption DEF SessionInv, PagesFit, FormFits, Typed, Pages
    <3> QED
      BY <3>1 DEF New, SessionInv, Typed
  <2>3. \A s, o \in Tabs : reply'[s].ready => New(sent'[s].cookie, After(s)', page'[o])
    BY <1>1, <1>3, <1>4, <2>2 DEF SessionInv, TurnsFit
  <2> QED
    BY <1>1, <2>1, <2>3 DEF SessionInv, TurnsFit, Idle
<1> QED
  BY <1>5, <1>6, <1>7, <1>8, <1>9, <1>10 DEF SessionInv

(* What a served request brings along. *)
LEMMA ServedFacts ==
  ASSUME SessionInv, NEW t \in Tabs
  PROVE  /\ sent[t].cookie \in Cookies /\ Fits(sent[t].cookie)
         /\ page[t] \in Pages /\ FormFits(page[t])
         /\ tokens \in Nat /\ logins \in Nat /\ tokens <= MaxTokens /\ logins <= MaxLogins
         /\ MaxTokens \in Nat /\ MaxLogins \in Nat
         /\ redeemed \subseteq 1 .. logins /\ ended \subseteq 1 .. tokens
BY SessionAssumption DEF SessionInv, Typed, Requests, CookiesFit, PagesFit

\* No page of the site, and the cookie left alone: a redirect or an error page.
LEMMA BlankKeeps ==
  ASSUME SessionInv, NEW t \in Tabs, sent[t].to # "none", ~reply[t].ready,
         Respond(t, Unset, Blank), UNCHANGED <<tokens, logins, redeemed, ended>>
  PROVE  SessionInv'
<1>1. Blank \in Pages
  BY SessionAssumption DEF Blank, Page, Pages, Nothing
<1>2. Grows
  BY ServedFacts DEF Grows
<1>3. /\ Unset.csrf <= tokens' /\ Unset.login <= logins' /\ (Unset.user \in Accounts => Unset.login = Nothing)
      /\ Blank.token <= tokens' /\ (Blank.at \in Forms => Blank.token # Nothing)
  BY ServedFacts, SessionAssumption
     DEF Unset, EmptyCookie, Blank, Page, Forms, Nothing
<1>4. Shows(page[t], sent[t].cookie, sent[t].cookie, Blank)
  BY DEF Shows, Blank, Page, Forms
<1>5. Follows(sent[t].to, sent[t].cookie, sent[t].cookie, ended')
  BY DEF Follows
<1> QED
  BY <1>1, <1>2, <1>3, <1>4, <1>5, RespondKeeps

\* A form gets the token of the session, or its first one.
LEMMA EnsureKeeps ==
  ASSUME SessionInv, NEW t \in Tabs, sent[t].to # "none", ~reply[t].ready, NEW at \in Forms,
         EnsureSessionCsrfToken(t, at), UNCHANGED <<logins, redeemed, ended>>
  PROVE  SessionInv'
<1> DEFINE k == sent[t].cookie
<1>1. k \in Cookies /\ Fits(k)
  BY ServedFacts
<1>2. CASE k.csrf # Nothing /\ Respond(t, Unset, Page(at, k.user, k.csrf, Nothing))
           /\ UNCHANGED tokens
  <2> DEFINE p == Page(at, k.user, k.csrf, Nothing)
  <2>1. p \in Pages /\ p.at = at /\ p.user = k.user /\ p.token = k.csrf
    BY <1>1, SessionAssumption DEF Page, Pages, Forms, Cookies, Nothing
  <2>2. Grows
    BY <1>2, ServedFacts DEF Grows
  <2>3. Unset.csrf <= tokens' /\ Unset.login <= logins' /\ (Unset.user \in Accounts => Unset.login = Nothing)
    BY <1>2, ServedFacts, SessionAssumption DEF Unset, EmptyCookie, Nothing
  <2> HIDE DEF p
  <2>4. p.token <= tokens' /\ (p.at \in Forms => p.token # Nothing)
    BY <1>1, <1>2, <2>1 DEF FormFits, Fits
  <2>5. Shows(page[t], k, k, p)
    BY <2>1 DEF Shows, Forms
  <2>6. Follows(sent[t].to, k, k, ended')
    BY DEF Follows
  <2>7. Respond(t, Unset, p)
    BY <1>2 DEF p
  <2> QED
    BY <2>1, <2>2, <2>3, <2>4, <2>5, <2>6, <2>7, RespondKeeps
<1>3. CASE k.csrf = Nothing /\ tokens < MaxTokens /\ tokens' = tokens + 1
           /\ Respond(t, [k EXCEPT !.csrf = tokens'], Page(at, k.user, tokens', Nothing))
  <2> DEFINE c == [k EXCEPT !.csrf = tokens']
             p == Page(at, k.user, tokens', Nothing)
  <2>1. tokens' \in 1 .. MaxTokens /\ tokens' > tokens
    BY <1>3, ServedFacts
  <2>2. p \in Pages /\ p.at = at /\ p.user = k.user /\ p.token = tokens'
    BY <1>1, <2>1, SessionAssumption DEF Page, Pages, Forms, Cookies, Nothing
  <2>3. c \in Cookies /\ c.user = k.user /\ c.csrf = tokens' /\ c.login = k.login
    BY <1>1, <2>1 DEF Cookies
  <2>4. c # Unset
    BY <2>1, <2>3 DEF Unset, EmptyCookie, Nothing
  <2>5. Grows
    BY <1>3, <2>1, ServedFacts DEF Grows
  <2> HIDE DEF c, p
  <2>6. c.csrf <= tokens' /\ c.login <= logins' /\ (c.user \in Accounts => c.login = Nothing)
    BY <1>1, <2>1, <2>3, ServedFacts DEF Fits
  <2>7. p.token <= tokens' /\ (p.at \in Forms => p.token # Nothing)
    BY <2>1, <2>2 DEF FormFits, Nothing
  <2>8. Shows(page[t], k, c, p)
    BY <2>2, <2>3 DEF Shows, Forms
  <2>9. Follows(sent[t].to, k, c, ended')
    BY <1>3, <2>1, <2>3 DEF Follows, Nothing
  <2>10. Respond(t, c, p)
    BY <1>3 DEF c, p
  <2> HIDE DEF k
  <2>11. c.csrf > tokens
    BY <2>1, <2>3
  <2> QED
    BY <2>2, <2>3, <2>4, <2>5, <2>6, <2>7, <2>8, <2>9, <2>10, <2>11, RespondKeeps DEF k
<1> QED
  BY <1>2, <1>3 DEF EnsureSessionCsrfToken

\* The verdict on the form that was posted.
LEMMA JudgeKeeps ==
  ASSUME SessionInv, NEW t \in Tabs, sent[t].to \in {"postQuiz", "postEdit"}, ~reply[t].ready,
         Judge(t), UNCHANGED <<tokens, logins, redeemed, ended>>
  PROVE  SessionInv'
<1> DEFINE k == sent[t].cookie
           at == IF VerifyCsrfToken(t) THEN "accepted" ELSE "refused"
           p == Page(at, k.user, page[t].token, Nothing)
<1>1. k \in Cookies /\ page[t] \in Pages /\ FormFits(page[t])
  BY ServedFacts
<1>2. p \in Pages /\ p.at = at /\ p.user = k.user /\ p.token = page[t].token
  BY <1>1, SessionAssumption DEF Page, Pages, Cookies, Nothing
<1>3. Respond(t, Unset, p)
  BY DEF Judge
<1>4. page[t].at \in Forms
  BY DEF SessionInv, RequestsFit, Forms
<1> HIDE DEF p
<1>5. Grows
  BY ServedFacts DEF Grows
<1>6. Unset.csrf <= tokens' /\ Unset.login <= logins' /\ (Unset.user \in Accounts => Unset.login = Nothing)
  BY ServedFacts, SessionAssumption DEF Unset, EmptyCookie, Nothing
<1>7. p.token <= tokens' /\ (p.at \in Forms => p.token # Nothing)
  BY <1>1, <1>2 DEF FormFits, Forms
<1>8. Shows(page[t], k, k, p)
  BY <1>1, <1>2, <1>4 DEF Shows, Forms, VerifyCsrfToken, FormFits
<1>9. Follows(sent[t].to, k, k, ended')
  BY DEF Follows
<1> QED
  BY <1>2, <1>3, <1>5, <1>6, <1>7, <1>8, <1>9, RespondKeeps

\* A stranger's cookie gets the new login.
LEMMA BeginKeeps ==
  ASSUME SessionInv, NEW t \in Tabs, sent[t].to # "none", ~reply[t].ready,
         sent[t].cookie.user = Nobody, BeginLogin(t), UNCHANGED <<tokens, redeemed, ended>>
  PROVE  SessionInv'
<1> DEFINE k == sent[t].cookie
           c == [k EXCEPT !.login = logins']
           p == Page("provider", Nobody, Nothing, logins')
<1>1. k \in Cookies /\ Fits(k)
  BY ServedFacts
<1>2. logins' = logins + 1 /\ logins' \in 1 .. MaxLogins /\ Respond(t, c, p)
  BY ServedFacts DEF BeginLogin, SetPendingLogin
<1>3. c \in Cookies /\ c.user = Nobody /\ c.csrf = k.csrf /\ c.login = logins'
  BY <1>1, <1>2 DEF Cookies
<1>4. p \in Pages /\ p.at = "provider" /\ p.token = Nothing
  BY <1>2, SessionAssumption DEF Page, Pages, Nothing
<1>5. Grows
  BY <1>2, ServedFacts DEF Grows
<1> HIDE DEF c, p
<1>6. c.csrf <= tokens' /\ c.login <= logins' /\ (c.user \in Accounts => c.login = Nothing)
  BY <1>1, <1>2, <1>3, SessionAssumption DEF Fits
<1>7. p.token <= tokens' /\ (p.at \in Forms => p.token # Nothing)
  BY <1>4, ServedFacts DEF Forms, Nothing
<1> DEFINE e == IF c = Unset THEN k ELSE c
<1>8. e.csrf = k.csrf /\ e.user = k.user
  BY <1>3
<1> HIDE DEF e, k
<1>9. Shows(page[t], k, e, p)
  BY <1>4 DEF Shows, Forms
<1>10. Follows(sent[t].to, k, e, ended')
  BY <1>8 DEF Follows
<1> QED
  BY <1>2, <1>3, <1>4, <1>5, <1>6, <1>7, <1>8, <1>9, <1>10, RespondKeeps DEF e, k

LEMMA UserSessionHas ==
  ASSUME NEW k \in Cookies, NEW u \in Accounts \cup {Nobody}
  PROVE  CreateUserSession(k, u) = [user |-> u, csrf |-> k.csrf, login |-> Nothing]
<1>1. k = [user |-> k.user, csrf |-> k.csrf, login |-> k.login]
  BY DEF Cookies
<1>2. ClearPendingLogin(k) = [user |-> k.user, csrf |-> k.csrf, login |-> Nothing]
  BY <1>1 DEF ClearPendingLogin
<1> QED
  BY <1>2 DEF CreateUserSession

\* The callback forgets the login, with or without the one who signed in.
LEMMA CallbackReplyKeeps ==
  ASSUME SessionInv, NEW t \in Tabs, sent[t].to = "callback", ~reply[t].ready,
         NEW u \in Accounts \cup {Nobody}, sent[t].cookie.user \in {u, Nobody},
         Respond(t, CreateUserSession(sent[t].cookie, u), Blank),
         redeemed' \subseteq 1 .. logins, redeemed \subseteq redeemed',
         UNCHANGED <<tokens, logins, ended>>
  PROVE  SessionInv'
<1> DEFINE k == sent[t].cookie
           c == CreateUserSession(k, u)
<1>1. k \in Cookies /\ Fits(k)
  BY ServedFacts
<1>2. c \in Cookies /\ c.user = u /\ c.csrf = k.csrf /\ c.login = Nothing
  <2>1. c = [user |-> u, csrf |-> k.csrf, login |-> Nothing]
    BY <1>1, UserSessionHas
  <2> QED
    BY <1>1, <2>1, SessionAssumption DEF Cookies, Nothing
<1>3. Blank \in Pages /\ Blank.token = Nothing /\ Blank.at = "blank"
  BY SessionAssumption DEF Blank, Page, Pages, Nothing
<1>4. Grows
  BY ServedFacts DEF Grows
<1>5. Respond(t, c, Blank)
  OBVIOUS
<1> HIDE DEF c
<1>6. c.csrf <= tokens' /\ c.login <= logins' /\ (c.user \in Accounts => c.login = Nothing)
  BY <1>1, <1>2, ServedFacts DEF Fits, Nothing
<1>7. Blank.token <= tokens' /\ (Blank.at \in Forms => Blank.token # Nothing)
  BY <1>3, ServedFacts DEF Forms, Nothing
<1> DEFINE e == IF c = Unset THEN k ELSE c
<1>8. e.csrf = k.csrf /\ (k.user # Nobody => e.user = k.user)
  BY <1>2
<1> HIDE DEF e, k
<1>9. Shows(page[t], k, e, Blank)
  BY <1>3 DEF Shows, Forms
<1>10. Follows(sent[t].to, k, e, ended')
  BY <1>8 DEF Follows
<1> QED
  BY <1>2, <1>3, <1>4, <1>5, <1>6, <1>7, <1>8, <1>9, <1>10, RespondKeeps DEF e, k

LEMMA FailLoginIsAReply ==
  ASSUME SessionInv, NEW t \in Tabs
  PROVE  ClearPendingLogin(sent[t].cookie) = CreateUserSession(sent[t].cookie, sent[t].cookie.user)
<1>1. ASSUME NEW k \in Cookies PROVE ClearPendingLogin(k) = CreateUserSession(k, k.user)
  BY DEF ClearPendingLogin, CreateUserSession, Cookies
<1> QED
  BY <1>1, ServedFacts

\* Only strangers have a login under way, so a session is never taken over.
LEMMA CallbackKeeps ==
  ASSUME SessionInv, NEW t \in Tabs, CallbackLoader(t)
  PROVE  SessionInv'
<1> DEFINE k == sent[t].cookie
<1>1. /\ sent[t].to = "callback" /\ ~reply[t].ready
      /\ UNCHANGED <<tokens, logins, ended>>
  BY DEF CallbackLoader, Serves
<1>2. k \in Cookies /\ Fits(k) /\ page[t] \in Pages /\ redeemed \subseteq 1 .. logins
  BY ServedFacts
<1>3. ASSUME FailLogin(t), redeemed' \subseteq 1 .. logins, redeemed \subseteq redeemed'
      PROVE  SessionInv'
  <2>1. Respond(t, CreateUserSession(k, k.user), Blank)
    BY <1>3, FailLoginIsAReply DEF FailLogin
  <2>2. k.user \in Accounts \cup {Nobody}
    BY <1>2 DEF Cookies
  <2> HIDE DEF k
  <2> QED
    BY <1>1, <1>3, <2>1, <2>2, CallbackReplyKeeps DEF k
<1>4. ASSUME k.login # Nothing, k.login = page[t].login, Exchange(t, k.login)
      PROVE  /\ redeemed' \subseteq 1 .. logins /\ redeemed \subseteq redeemed'
             /\ k.user = Nobody /\ Subject(t, k.login) = page[t].user
  <2>1. k.login \in 1 .. logins
    BY <1>2, <1>4, ServedFacts DEF Fits, Cookies, Nothing
  <2> QED
    BY <1>2, <1>4, <2>1 DEF Exchange, Subject, Fits, Cookies
<1>5. CASE k.login # Nothing /\ k.login = page[t].login /\ Exchange(t, k.login)
           /\ Respond(t, CreateUserSession(k, Subject(t, k.login)), Blank)
  <2>1. Respond(t, CreateUserSession(k, page[t].user), Blank)
    BY <1>4, <1>5
  <2>2. page[t].user \in Accounts \cup {Nobody}
    BY <1>2 DEF Pages
  <2>3. k.user = Nobody /\ redeemed' \subseteq 1 .. logins /\ redeemed \subseteq redeemed'
    BY <1>4, <1>5
  <2> HIDE DEF k
  <2> QED
    BY <1>1, <2>1, <2>2, <2>3, CallbackReplyKeeps DEF k
<1>6. CASE k.login # Nothing /\ k.login = page[t].login /\ Exchange(t, k.login) /\ FailLogin(t)
  BY <1>3, <1>4, <1>6
<1>7. CASE FailLogin(t) /\ UNCHANGED redeemed
  BY <1>2, <1>3, <1>7
<1> QED
  BY <1>5, <1>6, <1>7 DEF CallbackLoader

\* A logout ends the session of its cookie.
LEMMA LogoutKeeps ==
  ASSUME SessionInv, NEW t \in Tabs, LogoutAction(t)
  PROVE  SessionInv'
<1> DEFINE k == sent[t].cookie
<1>1. /\ sent[t].to = "postLogout" /\ ~reply[t].ready
      /\ UNCHANGED <<tokens, logins, redeemed>>
  BY DEF LogoutAction, Serves
<1>2. k \in Cookies /\ Fits(k) /\ page[t] \in Pages /\ FormFits(page[t])
  BY ServedFacts
<1>3. page[t].at \in Forms
  BY <1>1 DEF SessionInv, RequestsFit, Forms
<1>4. CASE VerifyCsrfToken(t) /\ ended' = ended \cup {k.csrf} /\ Respond(t, DestroySession(k), Blank)
  <2>1. k.csrf \in 1 .. tokens
    BY <1>2, <1>4, ServedFacts DEF VerifyCsrfToken, Fits, Cookies, Nothing
  <2>2. /\ EmptyCookie \in Cookies /\ EmptyCookie.csrf = Nothing /\ EmptyCookie.login = Nothing
        /\ EmptyCookie # Unset
    BY SessionAssumption DEF EmptyCookie, Cookies, Nothing, Unset
  <2>3. Blank \in Pages /\ Blank.token = Nothing /\ Blank.at = "blank"
    BY SessionAssumption DEF Blank, Page, Pages, Nothing
  <2>4. Grows
    BY <1>1, <1>4, <2>1, ServedFacts DEF Grows
  <2>5. Respond(t, EmptyCookie, Blank)
    BY <1>4 DEF DestroySession
  <2>6. Shows(page[t], k, EmptyCookie, Blank)
    BY <2>3 DEF Shows, Forms
  <2>7. Follows(sent[t].to, k, EmptyCookie, ended')
    BY <1>1, <1>4, <2>2 DEF Follows
  <2>8. /\ EmptyCookie.csrf <= tokens' /\ EmptyCookie.login <= logins'
        /\ Blank.token <= tokens' /\ (Blank.at \in Forms => Blank.token # Nothing)
    BY <1>1, <2>2, <2>3, ServedFacts DEF Nothing, Forms
  <2> QED
    BY <1>1, <2>2, <2>3, <2>4, <2>5, <2>6, <2>7, <2>8, RespondKeeps
<1>5. CASE /\ ~VerifyCsrfToken(t) /\ UNCHANGED ended
           /\ Respond(t, Unset, Page("refused", k.user, page[t].token, Nothing))
  <2> DEFINE p == Page("refused", k.user, page[t].token, Nothing)
  <2>1. p \in Pages /\ p.at = "refused" /\ p.token = page[t].token
    BY <1>2, SessionAssumption DEF Page, Pages, Cookies, Nothing
  <2>2. Respond(t, Unset, p)
    BY <1>5
  <2> HIDE DEF p
  <2>3. Grows
    BY <1>1, <1>5, ServedFacts DEF Grows
  <2>4. Unset.csrf <= tokens' /\ Unset.login <= logins' /\ (Unset.user \in Accounts => Unset.login = Nothing)
    BY <1>1, ServedFacts, SessionAssumption DEF Unset, EmptyCookie, Nothing
  <2>5. p.token <= tokens' /\ (p.at \in Forms => p.token # Nothing)
    BY <1>1, <1>2, <2>1 DEF FormFits, Forms
  <2>6. Shows(page[t], k, k, p)
    BY <1>2, <1>3, <1>5, <2>1 DEF Shows, Forms, VerifyCsrfToken, FormFits
  <2>7. Follows(sent[t].to, k, k, ended')
    BY DEF Follows
  <2> QED
    BY <1>1, <2>1, <2>2, <2>3, <2>4, <2>5, <2>6, <2>7, RespondKeeps
<1> QED
  BY <1>4, <1>5 DEF LogoutAction

LEMMA HandleKeeps ==
  ASSUME SessionInv, NEW t \in Tabs, Handle(t)
  PROVE  SessionInv'
<1>1. CASE QuizLoader(t)
  <2>1. sent[t].to = "quiz" /\ ~reply[t].ready
    BY <1>1 DEF QuizLoader, Serves
  <2>2. CASE EnsureSessionCsrfToken(t, "form")
    <3>1. UNCHANGED <<logins, redeemed, ended>>
      BY <1>1 DEF QuizLoader
    <3> QED
      BY <2>1, <2>2, <3>1, EnsureKeeps DEF Forms
  <2>3. CASE ErrorPage(t)
    <3>1. Respond(t, Unset, Blank) /\ UNCHANGED <<tokens, logins, redeemed, ended>>
      BY <1>1, <2>3 DEF QuizLoader, ErrorPage
    <3> QED
      BY <2>1, <3>1, BlankKeeps
  <2> QED
    BY <1>1, <2>2, <2>3 DEF QuizLoader
<1>2. CASE EditorLoader(t)
  <2>1. sent[t].to = "edit" /\ ~reply[t].ready
    BY <1>2 DEF EditorLoader, Serves
  <2>2. CASE EnsureSessionCsrfToken(t, "form")
    <3>1. UNCHANGED <<logins, redeemed, ended>>
      BY <1>2 DEF EditorLoader
    <3> QED
      BY <2>1, <2>2, <3>1, EnsureKeeps DEF Forms
  <2>3. CASE ErrorPage(t) \/ (SendToLogin(t) /\ UNCHANGED tokens)
    <3>1. Respond(t, Unset, Blank) /\ UNCHANGED <<tokens, logins, redeemed, ended>>
      BY <1>2, <2>3 DEF EditorLoader, ErrorPage, SendToLogin
    <3> QED
      BY <2>1, <3>1, BlankKeeps
  <2> QED
    BY <1>2, <2>2, <2>3 DEF EditorLoader
<1>3. CASE LoginLoader(t)
  <2>1. sent[t].to = "login" /\ ~reply[t].ready
    BY <1>3 DEF LoginLoader, Serves
  <2>2. CASE sent[t].cookie.user = Nobody /\ BeginLogin(t) /\ UNCHANGED tokens
    BY <1>3, <2>1, <2>2, BeginKeeps DEF LoginLoader
  <2>3. CASE EnsureSessionCsrfToken(t, "logoutForm") /\ UNCHANGED logins
    BY <1>3, <2>1, <2>3, EnsureKeeps DEF LoginLoader, Forms
  <2>4. CASE Respond(t, Unset, Blank) /\ UNCHANGED <<tokens, logins>>
    BY <1>3, <2>1, <2>4, BlankKeeps DEF LoginLoader
  <2> QED
    BY <1>3, <2>2, <2>3, <2>4 DEF LoginLoader
<1>4. CASE QuizAction(t)
  BY <1>4, JudgeKeeps DEF QuizAction, Serves
<1>5. CASE EditorAction(t)
  <2>1. sent[t].to = "postEdit" /\ ~reply[t].ready
    BY <1>5 DEF EditorAction, Serves
  <2>2. CASE SendToLogin(t)
    BY <1>5, <2>1, <2>2, BlankKeeps DEF EditorAction, SendToLogin
  <2>3. CASE Judge(t)
    BY <1>5, <2>1, <2>3, JudgeKeeps DEF EditorAction
  <2> QED
    BY <1>5, <2>2, <2>3 DEF EditorAction
<1> QED
  BY <1>1, <1>2, <1>3, <1>4, <1>5, CallbackKeeps, LogoutKeeps DEF Handle

LEMMA NextFits == SessionInv /\ [Next]_vars => SessionInv'
<1> SUFFICES ASSUME SessionInv, [Next]_vars PROVE SessionInv'
  OBVIOUS
<1>1. ASSUME NEW t \in Tabs, Open(t) PROVE SessionInv'
  <2>1. PICK r \in {"quiz", "edit", "login"} : Send(t, r)
    BY <1>1 DEF Open
  <2> QED
    BY <2>1, SendKeeps DEF Routes
<1>2. ASSUME NEW t \in Tabs, Follow(t) PROVE SessionInv'
  BY <1>2, SendKeeps DEF Follow, Routes
<1>3. ASSUME NEW t \in Tabs, Post(t) PROVE SessionInv'
  <2>1. PICK r \in {"postQuiz", "postEdit", "postLogout"} :
          /\ Send(t, r)
          /\ page[t].at = IF r = "postLogout" THEN "logoutForm" ELSE "form"
    BY <1>3 DEF Post
  <2> QED
    BY <2>1, SendKeeps DEF Routes
<1>4. CASE UNCHANGED vars
  BY <1>4 DEF vars, SessionInv, Typed, CookiesFit, Fits, PagesFit, FormFits, RequestsFit, Idle,
     RepliesFit, After, TurnsFit
<1> QED
  BY <1>1, <1>2, <1>3, <1>4, ReceiveKeeps, LoseKeeps, SignInKeeps, HandleKeeps, ExpireKeeps
     DEF Next

LEMMA AlwaysFits == Spec => []SessionInv
BY InitFits, NextFits, PTL DEF Spec

----------------------------------------------------------------------------
(* Every variable stays within its type, and a cookie never holds a user and a
   login at once (session.server.ts: every write of the session). *)
THEOREM TypesHold == Spec => []TypeOK
<1>1. ASSUME SessionInv PROVE TypeOK
  <2>1. \A t \in Tabs : sent[t].cookie \in Cookies /\ reply[t].page \in Pages
    BY <1>1 DEF SessionInv, Typed, Requests, Replies
  <2>2. \A k \in {jar} \cup {sent[t].cookie : t \in Tabs} \cup {reply[t].setCookie : t \in Tabs} :
          k.user \in Accounts => k.login = Nothing
    BY <1>1 DEF SessionInv, CookiesFit, Fits
  <2> QED
    BY <1>1, <2>1, <2>2 DEF TypeOK, SessionInv, Typed
<1> QED
  BY <1>1, AlwaysFits, PTL

(* A form made for one person is never posted in the name of another, while
   requests take turns (verifyCsrfToken, destroyUserSessionCookie). *)
THEOREM FormsKeepTheirAccount == Spec => []FormsStayWithTheirAccount
<1>1. ASSUME SessionInv PROVE FormsStayWithTheirAccount
  <2> SUFFICES ASSUME ~crossed, NEW t \in Tabs, reply[t].page.at = "accepted", page[t].user # Nobody
               PROVE  reply[t].page.user = page[t].user
    BY DEF FormsStayWithTheirAccount
  <2>1. reply[t].ready
    BY <1>1 DEF SessionInv, RequestsFit, NoReply, Blank, Page
  <2>2. /\ page[t].at \in Forms /\ page[t].token = sent[t].cookie.csrf
        /\ reply[t].page.user = sent[t].cookie.user
    BY <1>1, <2>1 DEF SessionInv, RepliesFit, Shows
  <2>3. sent[t].cookie = jar /\ OfTheSession(page[t], jar, ended)
    BY <1>1, <2>1 DEF SessionInv, RequestsFit, TurnsFit
  <2> QED
    BY <2>2, <2>3 DEF OfTheSession
<1> QED
  BY <1>1, AlwaysFits, PTL

(* A form is only refused once its session is logged out or its cookie has
   expired, while requests take turns (ensureSessionCsrfToken, verifyCsrfToken).
   *)
THEOREM FormsAreGood == Spec => []FormsStayGood
<1>1. ASSUME SessionInv PROVE FormsStayGood
  <2> SUFFICES ASSUME ~crossed, NEW t \in Tabs, reply[t].page.at = "refused"
               PROVE  page[t].token \in ended
    BY DEF FormsStayGood
  <2>1. reply[t].ready
    BY <1>1 DEF SessionInv, RequestsFit, NoReply, Blank, Page
  <2>2. page[t].at \in Forms /\ page[t].token # sent[t].cookie.csrf
    BY <1>1, <2>1 DEF SessionInv, RepliesFit, Shows
  <2>3. sent[t].cookie = jar /\ OfTheSession(page[t], jar, ended)
    BY <1>1, <2>1 DEF SessionInv, RequestsFit, TurnsFit
  <2> QED
    BY <2>2, <2>3 DEF OfTheSession
<1> QED
  BY <1>1, AlwaysFits, PTL

\* A handler writes one reply and nothing of the browser's.
LEMMA HandleFrame ==
  ASSUME SessionInv, NEW t \in Tabs, Handle(t)
  PROVE  /\ UNCHANGED <<jar, page, sent, crossed>>
         /\ \A o \in Tabs \ {t} : reply'[o] = reply[o]
<1>1. ASSUME NEW c, NEW p, Respond(t, c, p)
      PROVE  /\ UNCHANGED <<jar, page, sent, crossed>>
             /\ \A o \in Tabs \ {t} : reply'[o] = reply[o]
  BY <1>1 DEF Respond, SessionInv, Typed
<1>2. ErrorPage(t) \/ SendToLogin(t) \/ FailLogin(t) \/ Judge(t) =>
        \E c, p : Respond(t, c, p)
  BY DEF ErrorPage, SendToLogin, FailLogin, Judge
<1>3. \A at : EnsureSessionCsrfToken(t, at) => \E c, p : Respond(t, c, p)
  BY DEF EnsureSessionCsrfToken
<1>4. LoginLoader(t) => \E c, p : Respond(t, c, p)
  BY <1>3 DEF LoginLoader, BeginLogin
<1>5. CallbackLoader(t) \/ LogoutAction(t) => \E c, p : Respond(t, c, p)
  BY <1>2 DEF CallbackLoader, LogoutAction
<1>6. QuizLoader(t) \/ EditorLoader(t) \/ QuizAction(t) \/ EditorAction(t) => \E c, p : Respond(t, c, p)
  BY <1>2, <1>3 DEF QuizLoader, EditorLoader, QuizAction, EditorAction
<1> QED
  BY <1>1, <1>4, <1>5, <1>6 DEF Handle

(* A callback logs in nobody but the one who signed in for the very login its
   cookie was waiting for, once (auth.callback.tsx, oidc.server.ts). *)
THEOREM LoginsStayApart == Spec => LoginsAreNotMixedUp
<1>1. ASSUME SessionInv, [Next]_vars, NEW t \in Tabs, reply'[t].ready, ~reply[t].ready,
             sent[t].to = "callback",
             reply'[t].setCookie.user \in Accounts \ {sent[t].cookie.user}
      PROVE  /\ reply'[t].setCookie.user = page[t].user
             /\ page[t].login = sent[t].cookie.login
             /\ sent[t].cookie.login \in redeemed' \ redeemed
  <2> DEFINE k == sent[t].cookie
  <2>1. PICK s \in Tabs :
          Open(s) \/ Follow(s) \/ Post(s) \/ Receive(s) \/ Lose(s) \/ SignIn(s) \/ Handle(s)
    BY <1>1 DEF Next, vars, Expire
  <2>2. Handle(s)
    <3>1. ASSUME NEW r, Send(s, r) PROVE FALSE
      BY <1>1, <3>1 DEF Send
    <3>2. reply' = [reply EXCEPT ![s] = NoReply] => FALSE
      BY <1>1 DEF SessionInv, Typed, NoReply
    <3>3. ~SignIn(s)
      BY <1>1 DEF SignIn
    <3> QED
      BY <2>1, <3>1, <3>2, <3>3 DEF Open, Follow, Post, Receive, Lose
  <2>3. s = t
    BY <1>1, <2>2, HandleFrame
  <2>4. CallbackLoader(t)
    BY <1>1, <2>2, <2>3 DEF Handle, QuizLoader, EditorLoader, LoginLoader, QuizAction, EditorAction,
       LogoutAction, Serves
  <2>5. ASSUME NEW c, Respond(t, c, Blank) PROVE reply'[t].setCookie = c
    BY <1>1, <2>5 DEF Respond, SessionInv, Typed
  <2>6. k \in Cookies /\ page[t] \in Pages
    BY <1>1, ServedFacts
  <2>7. ~FailLogin(t)
    <3>1. ClearPendingLogin(k).user = k.user
      BY <2>6 DEF ClearPendingLogin, Cookies
    <3> QED
      BY <1>1, <2>5, <3>1 DEF FailLogin
  <2>8. /\ k.login = page[t].login /\ Exchange(t, k.login)
        /\ Respond(t, CreateUserSession(k, Subject(t, k.login)), Blank)
    BY <2>4, <2>7 DEF CallbackLoader
  <2>9. CreateUserSession(k, page[t].user).user = page[t].user
    BY <2>6, UserSessionHas DEF Pages
  <2> QED
    BY <2>5, <2>8, <2>9 DEF Exchange, Subject
<1>2. SessionInv /\ [Next]_vars =>
        [\A t \in Tabs : reply'[t].ready /\ ~reply[t].ready /\ sent[t].to = "callback"
                           /\ reply'[t].setCookie.user \in Accounts \ {sent[t].cookie.user} =>
           /\ reply'[t].setCookie.user = page[t].user
           /\ page[t].login = sent[t].cookie.login
           /\ sent[t].cookie.login \in redeemed' \ redeemed]_vars
  BY <1>1
<1> QED
  BY <1>2, AlwaysFits, PTL DEF Spec, LoginsAreNotMixedUp

(* Nothing but a login, a logout or the expiry of the cookie changes who is
   logged in, while requests take turns (session.server.ts, login.tsx,
   auth.callback.tsx). *)
THEOREM ChangesAreOnPurpose == Spec => SessionsChangeOnPurpose
<1>1. ASSUME SessionInv, [Next]_vars, ~crossed, jar'.user # jar.user, ~Expire
      PROVE  \E t \in Tabs : sent[t].to \in {"callback", "postLogout"} /\ Idle(t)'
  <2>1. PICK t \in Tabs :
          Open(t) \/ Follow(t) \/ Post(t) \/ Receive(t) \/ Lose(t) \/ SignIn(t) \/ Handle(t)
    BY <1>1 DEF Next, vars
  <2>2. Receive(t)
    BY <1>1, <2>1, HandleFrame DEF Open, Follow, Post, Send, Lose, SignIn
  <2>3. reply[t].ready /\ sent' = [sent EXCEPT ![t] = NoRequest]
        /\ jar' = IF reply[t].setCookie = Unset THEN jar ELSE reply[t].setCookie
    BY <2>2 DEF Receive
  <2>4. Idle(t)'
    BY <1>1, <2>3 DEF Idle, SessionInv, Typed
  <2>5. sent[t].cookie = jar /\ Follows(sent[t].to, sent[t].cookie, After(t), ended)
    BY <1>1, <2>3 DEF SessionInv, RequestsFit, RepliesFit, TurnsFit
  <2>6. jar' = After(t)
    BY <2>3, <2>5 DEF After
  <2> QED
    BY <1>1, <2>4, <2>5, <2>6 DEF Follows
<1>2. Expire => jar' = EmptyCookie /\ UNCHANGED sent
  BY DEF Expire
<1>3. SessionInv /\ [Next]_vars => [~crossed => OnPurpose]_vars
  BY <1>1, <1>2 DEF OnPurpose
<1> QED
  BY <1>3, AlwaysFits, PTL DEF Spec, SessionsChangeOnPurpose
=============================================================================
