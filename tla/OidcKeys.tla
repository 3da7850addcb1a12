------------------------------ MODULE OidcKeys ------------------------------
(***************************************************************************)
(* The two caches of oidc.server.ts, the provider's discovery document and  *)
(* its key set, under logins that overlap while the provider rotates keys.  *)
(*                                                                          *)
(* A lookup reads the clock and the cache, may fetch, and fills the cache   *)
(* when the answer arrives: several fetches of one document can be under    *)
(* way, and they arrive in any order.  Of the document only the issuer      *)
(* matters here; a key stands for its pair and for its kid.                 *)
(***************************************************************************)
EXTENDS Integers, Sequences, SequencesExt

CONSTANTS
  Logins,
  Keys,
  FirstKey,
  TTL,         \* CACHE_TTL_MILLISECONDS, in ticks
  Leeway,      \* the 30 s by which a token may be too old
  Lifetime,    \* how long the provider's tokens are valid
  MaxTime,     \* bound on the clock
  MaxIssuer    \* bound on the provider's moves

ASSUME OidcAssumption ==
  /\ FirstKey \in Keys
  /\ TTL \in Nat \ {0}
  /\ {Leeway, Lifetime, MaxTime, MaxIssuer} \subseteq Nat

VARIABLES
  clock,
  issuer,    \* what the provider publishes: its issuer, numbered,
  keys,      \* and its keys, in the order of the list
  signing,   \* the key it signs with
  cache,     \* discoveryCache and jwksCache
  login,     \* the logins
  joinedAt,  \* for the properties: when a key was first listed,
  leftAt     \* and when it was dropped

provider == <<issuer, keys, signing, joinedAt, leftAt>>
vars == <<clock, provider, cache, login>>

----------------------------------------------------------------------------
Documents == {"discovery", "jwks"}

Published(d) == IF d = "jwks" THEN keys ELSE <<issuer>>

Values(d) == Seq(IF d = "jwks" THEN Keys ELSE Nat)

\* An entry that has run out is as good as none.  readAt, for the properties,
\* is when the provider answered.
Entries(d) == [value : Values(d), readAt : Nat, expiresAt : Nat]

NoEntry == [value |-> <<>>, readAt |-> 0, expiresAt |-> 0]

Tokens == [key : Keys, issuer : Nat, exp : Nat]

NoToken == [key |-> FirstKey, issuer |-> 0, exp |-> 0]

\* How a login ends: with 200, with one of the reasons for 401, with 502.
Verdicts == {"loggedIn", "noKey", "badSignature", "wrongIssuer", "expired", "refused", "failed"}

\* What a login needs next: the discovery document to go to the provider and
\* again when it is back from there, then the key set.
Steps == {"begin", "callback", "exchange", "keys", "judge"} \cup Verdicts

Document(step) == IF step = "keys" THEN "jwks" ELSE "discovery"

NewLogin == [step |-> "begin", fetch |-> "none", started |-> 0, value |-> <<>>, readAt |-> 0,
             expected |-> <<>>, token |-> NoToken]

Looks(r) == r.step \in {"begin", "callback", "keys"}

\* The document the value in hand is of.
Held(r) ==
  IF r.step = "judge" \/ (r.step = "keys" /\ r.fetch = "answered")
  THEN "jwks" ELSE "discovery"

LoginsWith(d) ==
  [step : Steps, fetch : {"none", "sent", "answered"}, started : Nat, value : Values(d),
   readAt : Nat, expected : Seq(Nat), token : Tokens]

\* Only a login that looks something up fetches, and there is a key to judge
\* by: an empty set is never cached (getJwksKeys).
TypeOK ==
  /\ clock \in Nat
  /\ issuer \in Nat /\ keys \in Seq(Keys) /\ keys # <<>> /\ signing \in Keys
  /\ cache = [d \in Documents |-> cache[d]]
  /\ \A d \in Documents : cache[d] \in Entries(d)
  /\ login = [l \in Logins |-> login[l]]
  /\ \A l \in Logins :
       /\ login[l] \in LoginsWith(Held(login[l]))
       /\ login[l].fetch # "none" => Looks(login[l])
       /\ login[l].step = "judge" => login[l].value # <<>>

Init ==
  /\ clock = TTL
  /\ issuer = 0 /\ keys = <<FirstKey>> /\ signing = FirstKey
  /\ cache = [d \in Documents |-> NoEntry]
  /\ login = [l \in Logins |-> NewLogin]
  /\ joinedAt = [k \in Keys |-> 0]
  /\ leftAt = [k \in Keys |-> 0]

----------------------------------------------------------------------------
(* A lookup *)

End(l, verdict) == login' = [login EXCEPT ![l] = [NewLogin EXCEPT !.step = verdict]]

\* What the request goes on with, once it has a value it asked for at started:
\* of the first document only the address to redirect to.
Taken(r, value, started) ==
  CASE r.step = "begin" -> [NewLogin EXCEPT !.step = "callback"]
    [] r.step = "callback" ->
         [NewLogin EXCEPT !.step = "exchange", !.expected = value]
    [] r.step = "keys" ->
         [r EXCEPT !.step = "judge", !.fetch = "none", !.value = value,
                   !.started = started, !.readAt = 0]

Lookup(l) ==
  LET r == login[l]
      entry == cache[Document(r.step)]
  IN  /\ Looks(r) /\ r.fetch = "none"
      /\ login' = [login EXCEPT ![l] =
           IF entry.expiresAt > clock
           THEN Taken(r, entry.value, clock)
           ELSE [r EXCEPT !.fetch = "sent", !.started = clock]]
      /\ UNCHANGED <<clock, provider, cache>>

\* The provider answers with what it publishes now, or with something that
\* lacks the keys or fields.
Answer(l) ==
  /\ login[l].fetch = "sent"
  /\ \E value \in {Published(Document(login[l].step)), <<>>} :
       login' = [login EXCEPT ![l].fetch = "answered", ![l].value = value,
                              ![l].readAt = clock]
  /\ UNCHANGED <<clock, provider, cache>>

\* Mutant of Complete: only the shape of the answer is checked.
CompleteOrEmpty(value) == TRUE

Complete(value) == value # <<>>

\* Mutant of ExpiresAt: the time to live counts from the arrival.
ExpiresFromArrival(r) == clock + TTL

ExpiresAt(r) == r.started + TTL

\* The entry replaces whatever a fetch that was faster left there.
Arrive(l) ==
  LET r == login[l]
  IN  /\ r.fetch = "answered" /\ Complete(r.value)
      /\ cache' = [cache EXCEPT ![Document(r.step)] =
           [value |-> r.value, readAt |-> r.readAt, expiresAt |-> ExpiresAt(r)]]
      /\ login' = [login EXCEPT ![l] = Taken(r, r.value, r.started)]
      /\ UNCHANGED <<clock, provider>>

\* No answer, an error, no JSON, a document without its fields, no keys.  The
\* cache is left alone.
FetchFails(l) ==
  /\ login[l].fetch # "none"
  /\ End(l, "failed")
  /\ UNCHANGED <<clock, provider, cache>>

----------------------------------------------------------------------------
(* A login *)

\* The provider signs a token; one that cannot be read, or of an unknown
\* algorithm, is refused before its key is looked up.
Exchange(l) ==
  /\ login[l].step = "exchange"
  /\ \/ login' = [login EXCEPT ![l].step = "keys",
          ![l].token = [key |-> signing, issuer |-> issuer, exp |-> clock + Lifetime]]
     \/ End(l, "refused")
     \/ End(l, "failed")
  /\ UNCHANGED <<clock, provider, cache>>

\* The key a token is checked with, if there is one: that of its kid, or the
\* first where it names none.
FindJwkByKid(list, key, named) ==
  IF named THEN ToSet(list) \cap {key} ELSE {list[1]}

\* Mutant of Signature: the promise of verify is not awaited.
SignatureNotAwaited(r, named) ==
  IF FindJwkByKid(r.value, r.token.key, named) = {} THEN "noKey" ELSE "holds"

Signature(r, named) ==
  LET found == FindJwkByKid(r.value, r.token.key, named)
  IN  CASE found = {} -> "noKey"
        [] found = {r.token.key} -> "holds"
        [] OTHER -> "badSignature"

\* The claims the model does not follow.
OtherClaims == {"sub", "aud", "nonce"}

\* The checks of a token whose other claims are right or not, in their order.
Claims(r, right) ==
  IF "sub" \notin right THEN "refused"
  ELSE IF r.expected # <<r.token.issuer>> THEN "wrongIssuer"
  ELSE IF "aud" \notin right THEN "refused"
  ELSE IF r.token.exp <= clock - Leeway THEN "expired"
  ELSE IF "nonce" \notin right THEN "refused"
  ELSE "loggedIn"

\* Whether the token names its key, and whether subject, audience and nonce
\* are right, is up to the provider, and nothing asked so far.
Judge(l) ==
  /\ login[l].step = "judge"
  /\ \E named \in BOOLEAN, right \in SUBSET OtherClaims :
       LET signature == Signature(login[l], named)
       IN  End(l, IF signature = "holds" THEN Claims(login[l], right) ELSE signature)
  /\ UNCHANGED <<clock, provider, cache>>

\* The process is replaced: what it was doing is lost, a person at the
\* provider is not.
Restart ==
  /\ cache' = [d \in Documents |-> NoEntry]
  /\ login' = [l \in Logins |->
       IF login[l].step \in {"exchange", "keys", "judge"} \/ login[l].fetch # "none"
       THEN [NewLogin EXCEPT !.step = "failed"] ELSE login[l]]
  /\ UNCHANGED <<clock, provider>>

----------------------------------------------------------------------------
(* The provider *)

\* A key that was never listed is listed, first or last, and signs from now on.
Rotate(k) ==
  /\ k # FirstKey /\ joinedAt[k] = 0
  /\ keys' \in {<<k>> \o keys, Append(keys, k)}
  /\ signing' = k
  /\ joinedAt' = [joinedAt EXCEPT ![k] = clock]
  /\ UNCHANGED <<clock, issuer, leftAt, cache, login>>

Drop(i) ==
  /\ keys[i] # signing
  /\ keys' = RemoveAt(keys, i)
  /\ leftAt' = [leftAt EXCEPT ![keys[i]] = clock]
  /\ UNCHANGED <<clock, issuer, signing, joinedAt, cache, login>>

Move ==
  /\ issuer < MaxIssuer
  /\ issuer' = issuer + 1
  /\ UNCHANGED <<clock, keys, signing, joinedAt, leftAt, cache, login>>

Tick ==
  /\ clock < MaxTime
  /\ clock' = clock + 1
  /\ UNCHANGED <<provider, cache, login>>

Next ==
  \/ \E l \in Logins : \/ Lookup(l) \/ Answer(l) \/ Arrive(l) \/ FetchFails(l)
                       \/ Exchange(l) \/ Judge(l)
  \/ \E k \in Keys : Rotate(k)
  \/ \E i \in DOMAIN keys : Drop(i)
  \/ Move \/ Restart \/ Tick

Spec == Init /\ [][Next]_vars

----------------------------------------------------------------------------
(* Properties *)

\* A lookup that hits the cache gets what was published less than a time to
\* live ago, however long the fetch that filled it took and whichever of the
\* fetches under way arrived last (getOidcDiscovery, getJwksKeys).
LookupsAreRecent ==
  \A d \in Documents : cache[d].expiresAt > clock => cache[d].readAt > clock - TTL

\* A key that is judged with was listed after this.
Horizon(r) == r.started - TTL

\* What a verdict says of the provider.
Justified(verdict, r) ==
  LET k == r.token.key
      listed == k \in ToSet(keys)
  IN  /\ verdict \in {"loggedIn", "refused"} =>
           /\ k \in ToSet(r.value)
           /\ listed \/ leftAt[k] > Horizon(r)
      /\ verdict = "loggedIn" => r.token.exp > clock - Leeway
      /\ verdict = "noKey" => ~listed \/ joinedAt[k] > Horizon(r)
      /\ verdict = "badSignature" => r.value[1] # k
      /\ verdict = "wrongIssuer" => r.expected[1] < issuer
      /\ verdict = "expired" => clock >= r.token.exp

\* A login succeeds only by a key that was still listed a time to live before
\* it was looked up, and by a token not expired by more than the leeway.  It
\* is refused for its key, its signature or its issuer only because the token
\* names no key or because the provider changed within the time to live: a
\* rotation of keys costs logins for no longer (findJwkByKid,
\* verifyIdTokenSignature, validateIdTokenClaims).
LoginsAreJudgedByRecentKeys ==
  [][\A l \in Logins :
       (login[l].step = "judge" /\ login'[l].step \in Verdicts \ {"failed"}) =>
         Justified(login'[l].step, login[l])]_vars
=============================================================================
