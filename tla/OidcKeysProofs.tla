--------------------------- MODULE OidcKeysProofs ---------------------------
(* Proofs about OidcKeys, for every number of logins and keys and every length
   of the time to live.  What was read from the provider stays as good as it
   was when it was read; what a login is judged by follows. *)
EXTENDS OidcKeys, SequenceTheorems, TLAPS

(* A list read at t still says which of the keys ks are listed, but for those
   that came or went since. *)
FitsIn(list, t, ks, joined, left) ==
  /\ \A k \in ToSet(list) : k \in ToSet(ks) \/ left[k] >= t
  /\ \A k \in ToSet(ks) : k \in ToSet(list) \/ joined[k] >= t

ListFits(list, t) == FitsIn(list, t, keys, joinedAt, leftAt)

IsOf(doc, i) == Len(doc) = 1 /\ doc[1] \in Nat /\ doc[1] <= i

IssuerFits(doc) == IsOf(doc, issuer)

ProviderFits ==
  /\ clock \in Nat /\ clock >= TTL
  /\ issuer \in Nat /\ keys \in Seq(Keys) /\ signing \in ToSet(keys)
  /\ joinedAt \in [Keys -> Nat] /\ leftAt \in [Keys -> Nat]

EntryFits(d, e) ==
  /\ e \in Entries(d)
  /\ e.readAt <= clock
  /\ e.expiresAt <= e.readAt + TTL
  /\ e.value = <<>> => e.expiresAt = 0
  /\ e.value # <<>> => IF d = "jwks" THEN ListFits(e.value, e.readAt) ELSE IssuerFits(e.value)

CacheFits ==
  /\ cache = [d \in Documents |-> cache[d]]
  /\ \A d \in Documents : EntryFits(d, cache[d])

\* What a login has in hand and what it has been told.
ReadFits(r) ==
  /\ r.fetch = "sent" => r.started <= clock
  /\ r.fetch = "answered" =>
       /\ r.started <= r.readAt /\ r.readAt <= clock
       /\ r.value # <<>> =>
            IF r.step = "keys" THEN ListFits(r.value, r.readAt) ELSE IssuerFits(r.value)
  /\ r.step = "judge" =>
       /\ r.value # <<>> /\ r.started <= clock
       /\ ListFits(r.value, r.started - TTL + 1)

ToldFits(r) ==
  /\ r.step \in {"exchange", "keys", "judge"} => IssuerFits(r.expected)
  /\ r.step \in {"keys", "judge"} =>
       r.token.issuer <= issuer /\ r.expected[1] <= r.token.issuer

RecordFits(r) ==
  /\ r \in LoginsWith(Held(r))
  /\ r.fetch # "none" => Looks(r)

LoginFits(r) == RecordFits(r) /\ ReadFits(r) /\ ToldFits(r)

LoginsFit ==
  /\ login = [l \in Logins |-> login[l]]
  /\ \A l \in Logins : LoginFits(login[l])

IInv == ProviderFits /\ CacheFits /\ LoginsFit

----------------------------------------------------------------------------
(* Lists *)

LEMMA ToSetIsOfTheList ==
  ASSUME NEW S, NEW s \in Seq(S)
  PROVE  /\ ToSet(s) \subseteq S
         /\ \A x : x \in ToSet(s) <=> \E i \in 1 .. Len(s) : s[i] = x
BY DEF ToSet

(* What is listed after a key was put first or last, or one was dropped. *)
LEMMA AddedKey ==
  ASSUME NEW S, NEW s \in Seq(S), NEW k \in S
  PROVE  /\ <<k>> \o s \in Seq(S) /\ ToSet(<<k>> \o s) = ToSet(s) \cup {k}
         /\ Append(s, k) \in Seq(S) /\ ToSet(Append(s, k)) = ToSet(s) \cup {k}
<1>1. ASSUME NEW t, t = <<k>> \o s
      PROVE  t \in Seq(S) /\ ToSet(t) = ToSet(s) \cup {k}
  <2>1. t \in Seq(S) /\ Len(t) = 1 + Len(s)
    BY <1>1
  <2>2. t[1] = k /\ \A i \in 1 .. Len(s) : t[i + 1] = s[i]
    BY <1>1
  <2>3. \A i \in 1 .. Len(t) : i = 1 \/ (i - 1 \in 1 .. Len(s) /\ t[i] = s[i - 1])
    BY <2>1, <2>2
  <2> QED
    <3>1. ToSet(t) \subseteq ToSet(s) \cup {k}
      <4>1. ASSUME NEW i \in 1 .. Len(t) PROVE t[i] \in ToSet(s) \cup {k}
        <5>1. CASE i = 1
          BY <2>2, <5>1
        <5>2. CASE i # 1
          BY <2>3, <5>2, ToSetIsOfTheList
        <5> QED
          BY <5>1, <5>2
      <4> QED
        BY <2>1, <4>1, ToSetIsOfTheList
    <3>2. 1 \in 1 .. Len(t) /\ \A i \in 1 .. Len(s) : i + 1 \in 1 .. Len(t)
      BY <2>1
    <3>3. k \in ToSet(t) /\ ToSet(s) \subseteq ToSet(t)
      BY <2>1, <2>2, <3>2, ToSetIsOfTheList
    <3> QED
      BY <2>1, <3>1, <3>3
<1>2. Append(s, k) \in Seq(S) /\ ToSet(Append(s, k)) = ToSet(s) \cup {k}
  <2> DEFINE t == Append(s, k)
  <2>1. /\ t \in Seq(S) /\ Len(t) = Len(s) + 1 /\ t[Len(s) + 1] = k
        /\ \A i \in 1 .. Len(s) : t[i] = s[i]
    BY AppendProperties
  <2> HIDE DEF t
  <2>2. /\ Len(s) + 1 \in 1 .. Len(t)
        /\ \A i \in 1 .. Len(s) : i \in 1 .. Len(t)
        /\ \A i \in 1 .. Len(t) : i = Len(s) + 1 \/ i \in 1 .. Len(s)
    BY <2>1
  <2>3. k \in ToSet(t) /\ ToSet(s) \subseteq ToSet(t)
    BY <2>1, <2>2, ToSetIsOfTheList
  <2>4. ASSUME NEW i \in 1 .. Len(t) PROVE t[i] \in ToSet(s) \cup {k}
    BY <2>1, <2>2, ToSetIsOfTheList
  <2>5. ToSet(t) \subseteq ToSet(s) \cup {k}
    BY <2>1, <2>4, ToSetIsOfTheList
  <2> QED
    BY <2>1, <2>3, <2>5 DEF t
<1> QED
  BY <1>1, <1>2

LEMMA DroppedKey ==
  ASSUME NEW S, NEW s \in Seq(S), NEW i \in 1 .. Len(s)
  PROVE  /\ RemoveAt(s, i) \in Seq(S)
         /\ ToSet(RemoveAt(s, i)) \subseteq ToSet(s)
         /\ ToSet(s) \subseteq ToSet(RemoveAt(s, i)) \cup {s[i]}
<1> DEFINE t == RemoveAt(s, i)
<1> DEFINE before == SubSeq(s, 1, i - 1)
           after == SubSeq(s, i + 1, Len(s))
<1>1. /\ before \in Seq(S) /\ Len(before) = i - 1
      /\ \A j \in 1 .. i - 1 : before[j] = s[j]
  BY SubSeqProperties
<1>2. /\ after \in Seq(S) /\ Len(after) = Len(s) - i
      /\ \A j \in 1 .. Len(s) - i : after[j] = s[i + j]
  BY SubSeqProperties
<1>3. t = before \o after
  BY DEF RemoveAt
<1> HIDE DEF t, before, after
<1>4. /\ t \in Seq(S) /\ Len(t) = Len(s) - 1
      /\ \A j \in 1 .. Len(t) : t[j] = IF j < i THEN s[j] ELSE s[j + 1]
  <2>1. /\ t \in Seq(S) /\ Len(t) = Len(before) + Len(after)
        /\ \A j \in 1 .. Len(before) + Len(after) :
             t[j] = IF j <= Len(before) THEN before[j] ELSE after[j - Len(before)]
    BY <1>1, <1>2, <1>3, ConcatProperties
  <2>2. Len(t) = Len(s) - 1
    BY <1>1, <1>2, <2>1
  <2>3. ASSUME NEW j \in 1 .. Len(t), j < i
        PROVE  t[j] = s[j]
    BY <1>1, <2>1, <2>3
  <2>4. ASSUME NEW j \in 1 .. Len(t), ~(j < i)
        PROVE  t[j] = s[j + 1]
    <3>1. t[j] = after[j - (i - 1)]
      BY <1>1, <2>1, <2>4
    <3>2. j - (i - 1) \in 1 .. Len(s) - i /\ i + (j - (i - 1)) = j + 1
      BY <2>2, <2>4
    <3> QED
      BY <1>2, <3>1, <3>2
  <2> QED
    BY <2>1, <2>2, <2>3, <2>4
<1>5. \A j \in 1 .. Len(s) : s[j] = s[i] \/ \E n \in 1 .. Len(t) : t[n] = s[j]
  <2> TAKE j \in 1 .. Len(s)
  <2>1. CASE j < i
    <3>1. j \in 1 .. Len(t)
      BY <1>4, <2>1
    <3> QED
      BY <1>4, <2>1, <3>1
  <2>2. CASE j > i
    <3>1. j - 1 \in 1 .. Len(t) /\ ~(j - 1 < i) /\ (j - 1) + 1 = j
      BY <1>4, <2>2
    <3>2. t[j - 1] = s[(j - 1) + 1]
      BY <1>4, <3>1
    <3> QED
      BY <3>1, <3>2
  <2> QED
    BY <2>1, <2>2
<1>6. ToSet(t) \subseteq ToSet(s)
  BY <1>4 DEF ToSet
<1>7. ToSet(s) \subseteq ToSet(t) \cup {s[i]}
  BY <1>4, <1>5 DEF ToSet
<1> QED
  BY <1>4, <1>6, <1>7 DEF t

----------------------------------------------------------------------------
(* The provider moves on *)

(* What has been read stays as good, whatever the provider and the clock do. *)
LEMMA StillFits ==
  ASSUME ProviderFits, (\E k \in Keys : Rotate(k)) \/ (\E i \in DOMAIN keys : Drop(i)) \/ Move \/ Tick
  PROVE  /\ ProviderFits' /\ clock' >= clock /\ issuer' >= issuer
         /\ \A list, t : t \in Int /\ t <= clock /\ list \in Seq(Keys) /\ ListFits(list, t)
              => FitsIn(list, t, keys', joinedAt', leftAt')
<1>1. CASE \E k \in Keys : Rotate(k)
  <2>1. PICK k \in Keys : Rotate(k)
    BY <1>1
  <2>2. keys' \in Seq(Keys) /\ ToSet(keys') = ToSet(keys) \cup {k}
    <3>1. keys \in Seq(Keys) /\ (keys' = <<k>> \o keys \/ keys' = Append(keys, k))
      BY <2>1 DEF ProviderFits, Rotate
    <3>2. /\ <<k>> \o keys \in Seq(Keys) /\ ToSet(<<k>> \o keys) = ToSet(keys) \cup {k}
          /\ Append(keys, k) \in Seq(Keys) /\ ToSet(Append(keys, k)) = ToSet(keys) \cup {k}
      BY <3>1, AddedKey
    <3> QED
      BY <3>1, <3>2
  <2>3. ProviderFits' /\ clock' >= clock /\ issuer' >= issuer
    <3>1. /\ signing' = k /\ joinedAt' = [joinedAt EXCEPT ![k] = clock]
          /\ UNCHANGED <<clock, issuer, leftAt>>
      BY <2>1 DEF Rotate
    <3>2. /\ clock \in Nat /\ clock >= TTL /\ issuer \in Nat
          /\ joinedAt \in [Keys -> Nat] /\ leftAt \in [Keys -> Nat]
      BY DEF ProviderFits
    <3>3. joinedAt' \in [Keys -> Nat]
      BY <3>1, <3>2
    <3>4. clock' >= clock /\ issuer' >= issuer
      BY <3>1, <3>2
    <3> QED
      BY <2>2, <3>1, <3>2, <3>3, <3>4 DEF ProviderFits
  <2>4. ASSUME NEW list, NEW t \in Int, t <= clock, list \in Seq(Keys), ListFits(list, t)
        PROVE  FitsIn(list, t, keys', joinedAt', leftAt')
    <3>1. \A x \in ToSet(list) : x \in ToSet(keys') \/ leftAt'[x] >= t
      BY <2>1, <2>2, <2>4 DEF ListFits, FitsIn, Rotate
    <3>2. \A x \in ToSet(keys') : x \in ToSet(list) \/ joinedAt'[x] >= t
      <4> TAKE x \in ToSet(keys')
      <4>1. CASE x = k
        BY <2>1, <2>4, <4>1 DEF ProviderFits, Rotate
      <4>2. CASE x # k
        <5>1. x \in Keys /\ joinedAt'[x] = joinedAt[x]
          BY <2>1, <2>2, <4>2, ToSetIsOfTheList DEF ProviderFits, Rotate
        <5> QED
          BY <2>2, <2>4, <4>2, <5>1 DEF ListFits, FitsIn
      <4> QED
        BY <4>1, <4>2
    <3> QED
      BY <3>1, <3>2 DEF FitsIn
  <2> QED
    BY <2>3, <2>4
<1>2. CASE \E i \in DOMAIN keys : Drop(i)
  <2>1. PICK i \in DOMAIN keys : Drop(i)
    BY <1>2
  <2>2. i \in 1 .. Len(keys) /\ keys[i] \in Keys
    BY <2>1 DEF ProviderFits
  <2>3. /\ keys' \in Seq(Keys) /\ ToSet(keys') \subseteq ToSet(keys)
        /\ ToSet(keys) \subseteq ToSet(keys') \cup {keys[i]}
    BY <2>1, <2>2, DroppedKey DEF ProviderFits, Drop
  <2>4. ProviderFits' /\ clock' >= clock /\ issuer' >= issuer
    BY <2>1, <2>2, <2>3 DEF ProviderFits, Drop
  <2>5. ASSUME NEW list, NEW t \in Int, t <= clock, list \in Seq(Keys), ListFits(list, t)
        PROVE  FitsIn(list, t, keys', joinedAt', leftAt')
    <3>1. \A x \in ToSet(list) : x \in ToSet(keys') \/ leftAt'[x] >= t
      <4> TAKE x \in ToSet(list)
      <4>1. CASE x = keys[i]
        BY <2>1, <2>2, <2>5, <4>1 DEF ProviderFits, Drop
      <4>2. CASE x # keys[i]
        <5>1. x \in Keys /\ leftAt'[x] = leftAt[x]
          BY <2>1, <2>2, <2>5, <4>2, ToSetIsOfTheList DEF ProviderFits, Drop
        <5> QED
          BY <2>3, <2>5, <4>2, <5>1 DEF ListFits, FitsIn
      <4> QED
        BY <4>1, <4>2
    <3>2. \A x \in ToSet(keys') : x \in ToSet(list) \/ joinedAt'[x] >= t
      BY <2>1, <2>3, <2>5 DEF ListFits, FitsIn, Drop
    <3> QED
      BY <3>1, <3>2 DEF FitsIn
  <2> QED
    BY <2>4, <2>5
<1>3. CASE Move
  BY <1>3 DEF ProviderFits, ListFits, FitsIn, Move
<1>4. CASE Tick
  <2>1. UNCHANGED provider /\ clock' = clock + 1
    BY <1>4 DEF Tick
  <2>2. UNCHANGED issuer /\ UNCHANGED keys /\ UNCHANGED signing /\ UNCHANGED joinedAt
        /\ UNCHANGED leftAt
    BY <2>1 DEF provider
  <2>3. ProviderFits' /\ clock' >= clock /\ issuer' >= issuer
    <3>1. clock \in Nat /\ clock + 1 \in Nat /\ clock + 1 >= TTL /\ clock + 1 >= clock
      BY OidcAssumption DEF ProviderFits
    <3> QED
      BY <2>1, <2>2, <3>1 DEF ProviderFits
  <2>4. \A list, t : ListFits(list, t) => FitsIn(list, t, keys', joinedAt', leftAt')
    BY <2>2 DEF ListFits
  <2> QED
    BY <2>3, <2>4
<1> QED
  BY <1>1, <1>2, <1>3, <1>4

LEMMA ProviderKeeps ==
  ASSUME IInv, (\E k \in Keys : Rotate(k)) \/ (\E i \in DOMAIN keys : Drop(i)) \/ Move \/ Tick
  PROVE  IInv'
<1>1. UNCHANGED <<cache, login>>
  BY DEF Rotate, Drop, Move, Tick
<1>2. /\ ProviderFits' /\ clock' >= clock /\ issuer' >= issuer
      /\ \A list, t : t \in Int /\ t <= clock /\ list \in Seq(Keys) /\ ListFits(list, t)
           => FitsIn(list, t, keys', joinedAt', leftAt')
  BY StillFits DEF IInv
<1>3. clock \in Nat /\ clock' \in Nat /\ issuer \in Nat /\ issuer' \in Nat /\ TTL \in Nat \ {0}
  BY <1>2, OidcAssumption DEF IInv, ProviderFits
<1>4. \A doc : IssuerFits(doc) => IsOf(doc, issuer')
  BY <1>2, <1>3 DEF IssuerFits, IsOf
<1>5. CacheFits'
  <2>1. SUFFICES ASSUME NEW d \in Documents, EntryFits(d, cache[d])
                 PROVE  EntryFits(d, cache[d])'
    BY <1>1 DEF IInv, CacheFits
  <2>2. cache[d].value # <<>> =>
          IF d = "jwks" THEN FitsIn(cache[d].value, cache[d].readAt, keys', joinedAt', leftAt')
                        ELSE IsOf(cache[d].value, issuer')
    BY <1>2, <1>3, <1>4, <2>1 DEF EntryFits, Entries, Values
  <2>3. cache[d].readAt <= clock'
    BY <1>2, <1>3, <2>1 DEF EntryFits, Entries
  <2> QED
    BY <1>1, <2>1, <2>2, <2>3 DEF EntryFits, ListFits, IssuerFits
<1>6. LoginsFit'
  <2>1. SUFFICES ASSUME NEW l \in Logins, LoginFits(login[l])
                 PROVE  LoginFits(login[l])'
    BY <1>1 DEF IInv, LoginsFit
  <2> DEFINE r == login[l]
  <2>2. RecordFits(r) /\ r.started \in Nat /\ r.readAt \in Nat
    BY <2>1 DEF LoginFits, RecordFits, LoginsWith
  <2>3. RecordFits(r)'
    BY <1>1, <2>2 DEF RecordFits
  <2>4. r.fetch = "answered" =>
          /\ r.started <= r.readAt /\ r.readAt <= clock'
          /\ r.value # <<>> =>
               IF r.step = "keys" THEN FitsIn(r.value, r.readAt, keys', joinedAt', leftAt')
               ELSE IsOf(r.value, issuer')
    <3>1. r.fetch = "answered" /\ r.step = "keys" => r.value \in Seq(Keys)
      BY <2>2 DEF RecordFits, LoginsWith, Held, Values
    <3> QED
      BY <1>2, <1>3, <1>4, <2>1, <2>2, <3>1 DEF LoginFits, ReadFits
  <2>5. r.step = "judge" =>
          /\ r.value # <<>> /\ r.started <= clock'
          /\ FitsIn(r.value, r.started - TTL + 1, keys', joinedAt', leftAt')
    <3>1. r.step = "judge" => r.value \in Seq(Keys)
      BY <2>2 DEF RecordFits, LoginsWith, Held, Values
    <3>2. r.started - TTL + 1 \in Int /\ (r.started <= clock => r.started - TTL + 1 <= clock)
      BY <1>3, <2>2
    <3> QED
      BY <1>2, <1>3, <2>1, <2>2, <3>1, <3>2 DEF LoginFits, ReadFits
  <2>6. ReadFits(r)'
    BY <1>1, <1>2, <1>3, <2>1, <2>2, <2>4, <2>5 DEF LoginFits, ReadFits, ListFits, IssuerFits
  <2>7. r.token.issuer \in Nat
    BY <2>2 DEF RecordFits, LoginsWith, Tokens
  <2>8. ToldFits(r)'
    BY <1>1, <1>2, <1>3, <1>4, <2>1, <2>7 DEF LoginFits, ToldFits, IssuerFits
  <2> QED
    BY <2>3, <2>6, <2>8 DEF LoginFits
<1> QED
  BY <1>2, <1>5, <1>6 DEF IInv

----------------------------------------------------------------------------
(* The logins move on *)

(* A step of one login that leaves provider and clock alone. *)
LEMMA OneLoginMoves ==
  ASSUME IInv, NEW l \in Logins, NEW r, login' = [login EXCEPT ![l] = r],
         UNCHANGED <<clock, provider>>, CacheFits', LoginFits(r)
  PROVE  IInv'
<1>1. UNCHANGED <<clock, issuer, keys, signing, joinedAt, leftAt>>
  BY DEF provider
<1>2. ProviderFits'
  BY <1>1 DEF IInv, ProviderFits
<1>3. ASSUME NEW x, LoginFits(x) PROVE LoginFits(x)'
  BY <1>1, <1>3 DEF LoginFits, RecordFits, ReadFits, ToldFits, ListFits, IssuerFits
<1>4. /\ login' = [m \in Logins |-> login'[m]]
      /\ \A m \in Logins : login'[m] = IF m = l THEN r ELSE login[m]
  BY DEF IInv, LoginsFit
<1>5. LoginsFit'
  BY <1>3, <1>4 DEF IInv, LoginsFit
<1> QED
  BY <1>2, <1>5 DEF IInv

LEMMA CacheStays ==
  ASSUME IInv, UNCHANGED <<clock, provider, cache>>
  PROVE  CacheFits'
BY DEF IInv, CacheFits, EntryFits, ListFits, IssuerFits, provider

LEMMA EmptyHanded ==
  ASSUME NEW step \in Steps \ {"exchange", "keys", "judge"}
  PROVE  LoginFits([NewLogin EXCEPT !.step = step])
<1> DEFINE r == [NewLogin EXCEPT !.step = step]
<1>1. r = [step |-> step, fetch |-> "none", started |-> 0, value |-> <<>>, readAt |-> 0,
           expected |-> <<>>, token |-> NoToken]
  BY DEF NewLogin
<1>2. NoToken \in Tokens /\ <<>> \in Seq(Nat)
  BY OidcAssumption DEF NoToken, Tokens
<1> HIDE DEF r
<1>3. Held(r) = "discovery"
  BY <1>1 DEF Held
<1>4. r \in LoginsWith("discovery")
  BY <1>1, <1>2 DEF LoginsWith, Values
<1> QED
  BY <1>1, <1>3, <1>4 DEF LoginFits, RecordFits, ReadFits, ToldFits, r

LEMMA EndKeeps ==
  ASSUME IInv, NEW l \in Logins, NEW verdict \in Verdicts, End(l, verdict),
         UNCHANGED <<clock, provider, cache>>
  PROVE  IInv'
<1>1. verdict \in Steps \ {"exchange", "keys", "judge"}
  BY DEF Steps, Verdicts
<1>2. LoginFits([NewLogin EXCEPT !.step = verdict])
  BY <1>1, EmptyHanded
<1> QED
  BY <1>2, CacheStays, OneLoginMoves DEF End

(* A value as good as the clock asks for is what a login can go on with. *)
LEMMA TakenFits ==
  ASSUME IInv, NEW r, LoginFits(r), Looks(r), NEW value, NEW started \in Nat, NEW t \in Int,
         started <= clock, t > started - TTL, value # <<>>,
         value \in Values(Document(r.step)),
         IF r.step = "keys" THEN ListFits(value, t) ELSE IssuerFits(value)
  PROVE  LoginFits(Taken(r, value, started))
<1>1. CASE r.step = "begin"
  <2>1. "callback" \in Steps \ {"exchange", "keys", "judge"}
    BY DEF Steps, Verdicts
  <2> QED
    BY <1>1, <2>1, EmptyHanded DEF Taken
<1>2. CASE r.step = "callback"
  <2> DEFINE n == [step |-> "exchange", fetch |-> "none", started |-> 0, value |-> <<>>,
                   readAt |-> 0, expected |-> value, token |-> NoToken]
  <2>1. Taken(r, value, started) = n
    BY <1>2 DEF Taken, NewLogin
  <2>2. n \in LoginsWith("discovery")
    BY <1>2, OidcAssumption DEF LoginsWith, Values, Document, NoToken, Tokens, Steps
  <2>3. Held(n) = "discovery"
    BY DEF Held
  <2>4. RecordFits(n)
    BY <2>2, <2>3 DEF RecordFits
  <2>5. ReadFits(n) /\ ToldFits(n)
    BY <1>2 DEF ReadFits, ToldFits
  <2> QED
    BY <2>1, <2>4, <2>5 DEF LoginFits
<1>3. CASE r.step = "keys"
  <2> DEFINE n == [step |-> "judge", fetch |-> "none", started |-> started, value |-> value,
                   readAt |-> 0, expected |-> r.expected, token |-> r.token]
  <2>1. r \in LoginsWith(Held(r)) /\ TTL \in Nat
    BY OidcAssumption DEF LoginFits, RecordFits
  <2>2. Taken(r, value, started) = n
    BY <1>3, <2>1 DEF Taken, LoginsWith
  <2>3. n \in LoginsWith("jwks")
    BY <1>3, <2>1 DEF LoginsWith, Values, Document, Steps
  <2>4. Held(n) = "jwks"
    BY DEF Held
  <2>5. RecordFits(n)
    BY <2>3, <2>4 DEF RecordFits
  <2>6. ListFits(value, started - TTL + 1)
    <3>1. t >= started - TTL + 1 /\ started - TTL + 1 \in Int
      BY <2>1
    <3>2. ListFits(value, t) /\ value \in Seq(Keys)
      BY <1>3 DEF Values, Document
    <3>3. \A k \in Keys : leftAt[k] \in Nat /\ joinedAt[k] \in Nat
      BY DEF IInv, ProviderFits
    <3>4. ToSet(value) \subseteq Keys /\ ToSet(keys) \subseteq Keys
      BY <3>2, ToSetIsOfTheList DEF IInv, ProviderFits
    <3> QED
      BY <3>1, <3>2, <3>3, <3>4 DEF ListFits, FitsIn
  <2>7. ReadFits(n)
    BY <2>6 DEF ReadFits
  <2>8. ToldFits(n)
    BY <1>3 DEF LoginFits, ToldFits
  <2> QED
    BY <2>2, <2>5, <2>7, <2>8 DEF LoginFits
<1> QED
  BY <1>1, <1>2, <1>3 DEF Looks

LEMMA LookupKeeps ==
  ASSUME IInv, NEW l \in Logins, Lookup(l)
  PROVE  IInv'
<1> DEFINE r == login[l]
           d == Document(r.step)
           e == cache[d]
<1>1. UNCHANGED <<clock, provider>> /\ CacheFits' /\ Looks(r) /\ r.fetch = "none"
  BY CacheStays DEF Lookup
<1>2. d \in Documents /\ EntryFits(d, e) /\ LoginFits(r) /\ clock \in Nat /\ TTL \in Nat
  BY OidcAssumption DEF IInv, CacheFits, LoginsFit, ProviderFits, Document, Documents
<1>3. CASE e.expiresAt > clock
  <2>1. login' = [login EXCEPT ![l] = Taken(r, e.value, clock)]
    BY <1>3 DEF Lookup
  <2>2. /\ e.value # <<>> /\ e.value \in Values(d) /\ e.readAt \in Nat
        /\ e.readAt > clock - TTL
    BY <1>2, <1>3 DEF EntryFits, Entries
  <2>3. IF r.step = "keys" THEN ListFits(e.value, e.readAt) ELSE IssuerFits(e.value)
    BY <1>1, <1>2, <2>2 DEF EntryFits, Document, Looks
  <2>4. LoginFits(Taken(r, e.value, clock))
    BY <1>1, <1>2, <2>2, <2>3, TakenFits
  <2> QED
    BY <1>1, <2>1, <2>4, OneLoginMoves
<1>4. CASE ~(e.expiresAt > clock)
  <2> DEFINE n == [r EXCEPT !.fetch = "sent", !.started = clock]
  <2>1. login' = [login EXCEPT ![l] = n]
    BY <1>4 DEF Lookup
  <2>2. Held(r) = "discovery" /\ Held(n) = "discovery" /\ Looks(n)
    BY <1>1, <1>2 DEF Held, Looks, LoginFits, RecordFits, LoginsWith
  <2>3. RecordFits(n)
    BY <1>2, <2>2 DEF LoginFits, RecordFits, LoginsWith
  <2>4. ReadFits(n) /\ ToldFits(n)
    BY <1>1, <1>2 DEF LoginFits, RecordFits, LoginsWith, ReadFits, ToldFits, Looks
  <2>5. LoginFits(n)
    BY <2>3, <2>4 DEF LoginFits
  <2> QED
    BY <1>1, <2>1, <2>5, OneLoginMoves
<1> QED
  BY <1>3, <1>4

LEMMA AnswerKeeps ==
  ASSUME IInv, NEW l \in Logins, Answer(l)
  PROVE  IInv'
<1> DEFINE r == login[l]
           d == Document(r.step)
<1>1. PICK value \in {Published(d), <<>>} :
        login' = [login EXCEPT ![l].fetch = "answered", ![l].value = value, ![l].readAt = clock]
  BY DEF Answer
<1> DEFINE n == [r EXCEPT !.fetch = "answered", !.value = value, !.readAt = clock]
<1>2. UNCHANGED <<clock, provider>> /\ CacheFits' /\ r.fetch = "sent"
  BY CacheStays DEF Answer
<1>3. /\ LoginFits(r) /\ Looks(r) /\ r \in LoginsWith(Held(r))
      /\ login' = [login EXCEPT ![l] = n]
  BY <1>1, <1>2 DEF IInv, LoginsFit, LoginFits, RecordFits
<1>4. /\ clock \in Nat /\ issuer \in Nat /\ keys \in Seq(Keys)
      /\ ListFits(keys, clock) /\ IssuerFits(<<issuer>>)
  BY DEF IInv, ProviderFits, ListFits, FitsIn, IssuerFits, IsOf
<1>5. value \in Values(d)
  <2>1. Published(d) \in Values(d)
    <3>1. <<issuer>> \in Seq(Nat)
      BY <1>4
    <3> QED
      BY <1>4, <3>1 DEF Published, Values, Document
  <2>2. <<>> \in Values(d)
    BY DEF Values
  <2> QED
    BY <1>1, <2>1, <2>2
<1>6. Held(n) = d
  BY <1>3 DEF Held, Looks, Document, LoginsWith
<1>7. RecordFits(n)
  BY <1>3, <1>4, <1>5, <1>6 DEF RecordFits, LoginsWith, Looks
<1>8. r.started <= clock
  BY <1>2, <1>3 DEF LoginFits, ReadFits
<1>9. ReadFits(n)
  BY <1>3, <1>4, <1>5, <1>8 DEF ReadFits, LoginsWith, Looks, Published, Document
<1>10. ToldFits(n)
  BY <1>3 DEF LoginFits, ToldFits, LoginsWith
<1> QED
  BY <1>2, <1>3, <1>7, <1>9, <1>10, OneLoginMoves DEF LoginFits

LEMMA ArriveKeeps ==
  ASSUME IInv, NEW l \in Logins, Arrive(l)
  PROVE  IInv'
<1> DEFINE r == login[l]
           d == Document(r.step)
           e == [value |-> r.value, readAt |-> r.readAt, expiresAt |-> r.started + TTL]
<1>1. /\ UNCHANGED <<clock, provider>> /\ r.fetch = "answered" /\ r.value # <<>>
      /\ cache' = [cache EXCEPT ![d] = e]
      /\ login' = [login EXCEPT ![l] = Taken(r, r.value, r.started)]
  BY DEF Arrive, Complete, ExpiresAt
<1>2. LoginFits(r) /\ Looks(r) /\ r \in LoginsWith(Held(r)) /\ TTL \in Nat \ {0} /\ clock \in Nat
  BY <1>1, OidcAssumption DEF IInv, LoginsFit, LoginFits, RecordFits, ProviderFits
<1>3. /\ r.started \in Nat /\ r.readAt \in Nat /\ r.value \in Values(d)
      /\ r.started <= r.readAt /\ r.readAt <= clock
      /\ IF r.step = "keys" THEN ListFits(r.value, r.readAt) ELSE IssuerFits(r.value)
  BY <1>1, <1>2 DEF LoginFits, ReadFits, LoginsWith, Held, Looks, Document
<1>4. EntryFits(d, e)
  BY <1>1, <1>2, <1>3 DEF EntryFits, Entries, Document, Looks
<1>5. CacheFits'
  <2>1. d \in Documents
    BY DEF Document, Documents
  <2>2. /\ cache' = [x \in Documents |-> cache'[x]]
        /\ \A x \in Documents : cache'[x] = IF x = d THEN e ELSE cache[x]
    BY <1>1, <2>1 DEF IInv, CacheFits
  <2>3. \A x \in Documents : EntryFits(x, cache'[x])
    BY <1>4, <2>2 DEF IInv, CacheFits
  <2>4. UNCHANGED <<clock, issuer, keys, joinedAt, leftAt>>
    BY <1>1 DEF provider
  <2> QED
    BY <2>2, <2>3, <2>4 DEF CacheFits, EntryFits, ListFits, IssuerFits
<1>6. LoginFits(Taken(r, r.value, r.started))
  <2>1. r.started <= clock /\ r.readAt > r.started - TTL
    BY <1>2, <1>3
  <2> QED
    BY <1>1, <1>2, <1>3, <2>1, TakenFits
<1> QED
  BY <1>1, <1>5, <1>6, OneLoginMoves

LEMMA ExchangeKeeps ==
  ASSUME IInv, NEW l \in Logins, Exchange(l)
  PROVE  IInv'
<1> DEFINE r == login[l]
           token == [key |-> signing, issuer |-> issuer, exp |-> clock + Lifetime]
           n == [r EXCEPT !.step = "keys", !.token = token]
<1>1. UNCHANGED <<clock, provider, cache>> /\ r.step = "exchange" /\ LoginFits(r)
  BY DEF Exchange, IInv, LoginsFit
<1>2. \/ login' = [login EXCEPT ![l] = n]
      \/ End(l, "refused") \/ End(l, "failed")
  BY DEF Exchange, IInv, LoginsFit
<1>3. CASE login' = [login EXCEPT ![l] = n]
  <2>1. /\ token \in Tokens /\ token.issuer = issuer /\ issuer \in Nat
    <3>1. Lifetime \in Nat
      BY OidcAssumption
    <3>2. clock \in Nat /\ issuer \in Nat /\ keys \in Seq(Keys) /\ signing \in ToSet(keys)
      BY DEF IInv, ProviderFits
    <3>3. signing \in Keys
      BY <3>2, ToSetIsOfTheList
    <3> QED
      BY <3>1, <3>2, <3>3 DEF Tokens
  <2> HIDE DEF token
  <2>2. /\ r \in LoginsWith(Held(r)) /\ r.fetch = "none"
        /\ Held(r) = "discovery" /\ IssuerFits(r.expected)
    BY <1>1 DEF LoginFits, RecordFits, Looks, Held, ToldFits
  <2>3. /\ n \in LoginsWith("discovery")
        /\ n.step = "keys" /\ n.fetch = "none" /\ n.token = token /\ n.expected = r.expected
    BY <2>1, <2>2 DEF LoginsWith, Steps
  <2> HIDE DEF n
  <2>4. RecordFits(n) /\ ReadFits(n)
    BY <2>3 DEF RecordFits, ReadFits, Held
  <2>5. ToldFits(n)
    BY <2>1, <2>2, <2>3 DEF ToldFits, IssuerFits, IsOf
  <2> QED
    BY <1>1, <1>3, <2>4, <2>5, CacheStays, OneLoginMoves DEF LoginFits
<1> QED
  BY <1>1, <1>2, <1>3, EndKeeps DEF Verdicts

LEMMA JudgeEnds ==
  ASSUME NEW l \in Logins, Judge(l)
  PROVE  \E verdict \in Verdicts : End(l, verdict)
BY DEF Judge, Signature, Claims, Verdicts

LEMMA RestartKeeps ==
  ASSUME IInv, Restart
  PROVE  IInv'
<1>1. UNCHANGED <<clock, provider>>
  BY DEF Restart
<1>2. UNCHANGED <<clock, issuer, keys, signing, joinedAt, leftAt>>
  BY <1>1 DEF provider
<1>3. ProviderFits'
  BY <1>2 DEF IInv, ProviderFits
<1>4. \A d \in Documents : EntryFits(d, NoEntry)
  BY OidcAssumption DEF EntryFits, Entries, Values, NoEntry, IInv, ProviderFits
<1>5. CacheFits'
  BY <1>2, <1>4 DEF Restart, CacheFits, EntryFits, ListFits, IssuerFits
<1>6. ASSUME NEW x, LoginFits(x) PROVE LoginFits(x)'
  BY <1>2, <1>6 DEF LoginFits, RecordFits, ReadFits, ToldFits, ListFits, IssuerFits
<1>7. LoginFits([NewLogin EXCEPT !.step = "failed"])
  BY EmptyHanded DEF Steps, Verdicts
<1>8. /\ login' = [l \in Logins |-> login'[l]]
      /\ \A l \in Logins : login'[l] = login[l] \/ login'[l] = [NewLogin EXCEPT !.step = "failed"]
  BY DEF Restart
<1>9. LoginsFit'
  BY <1>6, <1>7, <1>8 DEF IInv, LoginsFit
<1> QED
  BY <1>3, <1>5, <1>9 DEF IInv

----------------------------------------------------------------------------
(* The theorems *)

LEMMA InitFits == Init => IInv
<1> SUFFICES ASSUME Init PROVE IInv
  OBVIOUS
<1>1. TTL \in Nat /\ FirstKey \in Keys
  BY OidcAssumption
<1>2. ProviderFits
  BY <1>1 DEF Init, ProviderFits, ToSet
<1>3. CacheFits
  BY <1>1 DEF Init, CacheFits, EntryFits, Entries, Values, NoEntry
<1>4. NewLogin = [NewLogin EXCEPT !.step = "begin"]
  BY DEF NewLogin
<1>5. LoginFits(NewLogin)
  BY <1>4, EmptyHanded DEF Steps, Verdicts
<1>6. LoginsFit
  BY <1>5 DEF Init, LoginsFit
<1> QED
  BY <1>2, <1>3, <1>6 DEF IInv

LEMMA NextFits == IInv /\ [Next]_vars => IInv'
<1> SUFFICES ASSUME IInv, [Next]_vars PROVE IInv'
  OBVIOUS
<1>1. ASSUME NEW l \in Logins, Lookup(l) PROVE IInv'
  BY <1>1, LookupKeeps
<1>2. ASSUME NEW l \in Logins, Answer(l) PROVE IInv'
  BY <1>2, AnswerKeeps
<1>3. ASSUME NEW l \in Logins, Arrive(l) PROVE IInv'
  BY <1>3, ArriveKeeps
<1>4. ASSUME NEW l \in Logins, FetchFails(l) PROVE IInv'
  <2>1. End(l, "failed") /\ UNCHANGED <<clock, provider, cache>> /\ "failed" \in Verdicts
    BY <1>4 DEF FetchFails, Verdicts
  <2> QED
    BY <2>1, EndKeeps
<1>5. ASSUME NEW l \in Logins, Exchange(l) PROVE IInv'
  BY <1>5, ExchangeKeeps
<1>6. ASSUME NEW l \in Logins, Judge(l) PROVE IInv'
  <2>1. UNCHANGED <<clock, provider, cache>>
    BY <1>6 DEF Judge
  <2> QED
    BY <1>6, <2>1, JudgeEnds, EndKeeps
<1>7. CASE (\E k \in Keys : Rotate(k)) \/ (\E i \in DOMAIN keys : Drop(i)) \/ Move \/ Tick
  BY <1>7, ProviderKeeps
<1>8. CASE Restart
  BY <1>8, RestartKeeps
<1>9. CASE UNCHANGED vars
  BY <1>9 DEF vars, provider, IInv, ProviderFits, CacheFits, EntryFits, LoginsFit, LoginFits,
              RecordFits, ReadFits, ToldFits, ListFits, IssuerFits
<1> QED
  BY <1>1, <1>2, <1>3, <1>4, <1>5, <1>6, <1>7, <1>8, <1>9 DEF Next

LEMMA AlwaysFits == Spec => []IInv
BY InitFits, NextFits, PTL DEF Spec

(* Caches and logins hold what they may hold, and no login is judged by an empty
   key set (getJwksKeys). *)
THEOREM TypesHold == Spec => []TypeOK
<1>1. IInv => TypeOK
  <2> SUFFICES ASSUME IInv PROVE TypeOK
    OBVIOUS
  <2>1. clock \in Nat /\ issuer \in Nat /\ keys \in Seq(Keys) /\ keys # <<>> /\ signing \in Keys
    BY ToSetIsOfTheList DEF IInv, ProviderFits
  <2>2. cache = [d \in Documents |-> cache[d]] /\ \A d \in Documents : cache[d] \in Entries(d)
    BY DEF IInv, CacheFits, EntryFits
  <2>3. /\ login = [l \in Logins |-> login[l]]
        /\ \A l \in Logins : /\ login[l] \in LoginsWith(Held(login[l]))
                             /\ login[l].fetch # "none" => Looks(login[l])
                             /\ login[l].step = "judge" => login[l].value # <<>>
    BY DEF IInv, LoginsFit, LoginFits, RecordFits, ReadFits
  <2> QED
    BY <2>1, <2>2, <2>3 DEF TypeOK
<1> QED
  BY <1>1, AlwaysFits, PTL

(* A cache entry that still counts is younger than the time to live, whichever
   fetch arrived last (getOidcDiscovery, getJwksKeys). *)
THEOREM LookupsFindRecentEntries == Spec => []LookupsAreRecent
<1>1. IInv => LookupsAreRecent
  BY OidcAssumption DEF IInv, CacheFits, EntryFits, Entries, ProviderFits, LookupsAreRecent
<1> QED
  BY <1>1, AlwaysFits, PTL

(* Only Judge ends a login that was to be judged, but for a restart. *)
LEMMA JudgedByJudge ==
  ASSUME IInv, [Next]_vars, NEW l \in Logins, login[l].step = "judge",
         login'[l].step \in Verdicts \ {"failed"}
  PROVE  \E named \in BOOLEAN, right \in SUBSET OtherClaims :
           LET signature == Signature(login[l], named)
           IN  login'[l].step = IF signature = "holds" THEN Claims(login[l], right) ELSE signature
<1>1. "judge" \notin Verdicts /\ login[l].fetch = "none"
  BY DEF Verdicts, IInv, LoginsFit, LoginFits, RecordFits, Looks
<1>2. ASSUME NEW m \in Logins,
             Lookup(m) \/ Answer(m) \/ Arrive(m) \/ FetchFails(m) \/ Exchange(m)
      PROVE  FALSE
  <2>1. m # l
    BY <1>1, <1>2 DEF Lookup, Looks, Answer, Arrive, FetchFails, Exchange
  <2>2. login'[l] = login[l]
    BY <1>2, <2>1 DEF IInv, LoginsFit, Lookup, Answer, Arrive, FetchFails, Exchange, End
  <2> QED
    BY <1>1, <2>2
<1>3. ASSUME login' = login PROVE FALSE
  BY <1>1, <1>3
<1>4. ~Restart
  BY <1>1 DEF Restart, NewLogin
<1>5. PICK m \in Logins : Judge(m)
  BY <1>2, <1>3, <1>4 DEF Next, Rotate, Drop, Move, Tick, vars
<1>6. m = l
  BY <1>1, <1>5 DEF Judge, End, IInv, LoginsFit
<1>7. PICK named \in BOOLEAN, right \in SUBSET OtherClaims :
        LET signature == Signature(login[l], named)
        IN  End(l, IF signature = "holds" THEN Claims(login[l], right) ELSE signature)
  BY <1>5, <1>6 DEF Judge
<1>8. ASSUME NEW verdict, End(l, verdict) PROVE login'[l].step = verdict
  BY <1>8 DEF End, IInv, LoginsFit, NewLogin
<1> QED
  BY <1>7, <1>8

(* A login succeeds only by a key and a token that were good within the time to
   live and the leeway, and is refused for them only if the provider changed
   within that time (completeOidcAuthorization). *)
THEOREM JudgedByRecentKeys == Spec => LoginsAreJudgedByRecentKeys
<1>1. ASSUME IInv, [Next]_vars, NEW l \in Logins, login[l].step = "judge",
             login'[l].step \in Verdicts \ {"failed"}
      PROVE  Justified(login'[l].step, login[l])
  <2> DEFINE r == login[l]
             verdict == login'[l].step
             k == r.token.key
  <2>1. PICK named \in BOOLEAN, right \in SUBSET OtherClaims :
          verdict = IF Signature(r, named) = "holds" THEN Claims(r, right)
                    ELSE Signature(r, named)
    BY <1>1, JudgedByJudge
  <2>2. /\ r.value \in Seq(Keys) /\ r.value # <<>> /\ k \in Keys /\ r.started \in Nat
        /\ r.token.exp \in Nat /\ r.token.issuer \in Nat
        /\ ListFits(r.value, r.started - TTL + 1)
        /\ IssuerFits(r.expected) /\ r.token.issuer <= issuer
        /\ r.expected[1] <= r.token.issuer /\ r.expected \in Seq(Nat)
    BY <1>1 DEF IInv, LoginsFit, LoginFits, RecordFits, ReadFits, ToldFits, Held, LoginsWith,
                Values, Tokens
  <2>3. /\ clock \in Nat /\ issuer \in Nat /\ TTL \in Nat /\ Leeway \in Nat
        /\ leftAt[k] \in Nat /\ joinedAt[k] \in Nat
    BY <1>1, <2>2, OidcAssumption DEF IInv, ProviderFits
  <2>4. r.value[1] \in ToSet(r.value)
    BY <2>2, ToSetIsOfTheList
  <2>5. CASE Signature(r, named) = "holds"
    <3>1. FindJwkByKid(r.value, k, named) = {k}
      BY <2>5 DEF Signature
    <3>2. k \in ToSet(r.value)
      BY <2>4, <3>1 DEF FindJwkByKid
    <3>3. CASE verdict \in {"loggedIn", "refused"}
      <4>1. verdict = "loggedIn" => r.token.exp > clock - Leeway
        <5>1. r.token.exp <= clock - Leeway => verdict # "loggedIn"
          BY <2>1, <2>5 DEF Claims
        <5> QED
          BY <2>2, <2>3, <5>1
      <4>2. k \in ToSet(keys) \/ leftAt[k] >= r.started - TTL + 1
        BY <2>2, <3>2 DEF ListFits, FitsIn
      <4>3. k \in ToSet(keys) \/ leftAt[k] > Horizon(r)
        BY <2>2, <2>3, <4>2 DEF Horizon
      <4> QED
        BY <3>2, <3>3, <4>1, <4>3 DEF Justified
    <3>4. CASE verdict = "wrongIssuer"
      <4>1. r.expected # <<r.token.issuer>>
        <5>1. verdict = Claims(r, right)
          BY <2>1, <2>5
        <5> QED
          BY <3>4, <5>1 DEF Claims
      <4>2. r.expected[1] # r.token.issuer
        BY <2>2, <4>1 DEF IssuerFits, IsOf
      <4>3. r.expected[1] < issuer
        BY <2>2, <2>3, <4>2 DEF IssuerFits, IsOf
      <4> QED
        BY <3>4, <4>3 DEF Justified
    <3>5. CASE verdict = "expired"
      <4>1. r.token.exp <= clock - Leeway
        <5>1. verdict = Claims(r, right)
          BY <2>1, <2>5
        <5> QED
          BY <3>5, <5>1 DEF Claims
      <4>2. ASSUME NEW exp \in Nat, exp <= clock - Leeway PROVE clock >= exp
        BY <2>3, <4>2
      <4>3. clock >= r.token.exp
        BY <2>2, <4>1, <4>2
      <4> QED
        BY <3>5, <4>3 DEF Justified
    <3> QED
      BY <2>1, <2>5, <3>3, <3>4, <3>5 DEF Claims
  <2>6. CASE Signature(r, named) = "noKey"
    <3>1. verdict = "noKey"
      BY <2>1, <2>6
    <3>2. k \notin ToSet(r.value)
      BY <2>6 DEF Signature, FindJwkByKid
    <3>3. k \notin ToSet(keys) \/ joinedAt[k] >= r.started - TTL + 1
      BY <2>2, <3>2 DEF ListFits, FitsIn
    <3> QED
      BY <2>2, <2>3, <3>1, <3>3 DEF Horizon, Justified
  <2>7. CASE Signature(r, named) = "badSignature"
    <3>1. verdict = "badSignature"
      BY <2>1, <2>7
    <3>2. r.value[1] # k
      BY <2>7 DEF Signature, FindJwkByKid
    <3> QED
      BY <3>1, <3>2 DEF Justified
  <2> QED
    BY <2>5, <2>6, <2>7 DEF Signature
<1>2. IInv /\ [Next]_vars =>
        [\A l \in Logins :
           (login[l].step = "judge" /\ login'[l].step \in Verdicts \ {"failed"}) =>
             Justified(login'[l].step, login[l])]_vars
  BY <1>1
<1> QED
  BY <1>2, AlwaysFits, PTL DEF Spec, LoginsAreJudgedByRecentKeys
=============================================================================
