------------------------ MODULE QuizSelectionProofs ------------------------
(***************************************************************************)
(* Which question a player gets, for any number of calls, questions and     *)
(* seeds, whatever is created and deleted between the queries of a call.    *)
(***************************************************************************)
EXTENDS QuizSelection, WellFoundedInduction, TLAPS

----------------------------------------------------------------------------
(* Lists *)

\* Induction over the numbers, for a set of them.
LEMMA CountingUp ==
  ASSUME NEW S, 0 \in S, \A n \in Nat : n \in S => n + 1 \in S
  PROVE  Nat \subseteq S
<1> DEFINE Less == {pair \in Nat \X Nat : pair[1] < pair[2]}
<1>1. IsWellFoundedOn(Less, Nat)
  BY NatLessThanWellFounded DEF OpToRel
<1> SUFFICES ASSUME Nat \ S # {} PROVE FALSE
  OBVIOUS
<1>2. PICK x \in Nat \ S : \A y \in Nat \ S : ~(<<y, x>> \in Less)
  <2> HIDE DEF Less
  <2> QED
    BY <1>1, WFMin
<1>3. x - 1 \in Nat /\ <<x - 1, x>> \in Less
  BY <1>2
<1> HIDE DEF Less
<1>4. x - 1 \in S
  BY <1>2, <1>3
<1> QED
  BY <1>2, <1>3, <1>4

\* What is kept of the first i elements, once it is known of the first i - 1.
KeepOne(list, S, i, before) ==
  IF i = 0 THEN <<>> ELSE IF list[i] \in S THEN Append(before, list[i]) ELSE before

\* The table of what is kept of the first 0, 1, ... n elements.
KeptUpTo(list, S, n, f) ==
  f = [i \in 0 .. n |-> KeepOne(list, S, i, f[i - 1])]

LEMMA KeptUpToExists ==
  ASSUME NEW list, NEW S
  PROVE  \A n \in Nat : \E f : KeptUpTo(list, S, n, f)
<1> DEFINE Good == {n \in Nat : \E f : KeptUpTo(list, S, n, f)}
<1>1. 0 \in Good
  <2> DEFINE f == [i \in 0 .. 0 |-> <<>>]
  <2>1. KeptUpTo(list, S, 0, f)
    BY DEF KeptUpTo, KeepOne
  <2> QED
    BY <2>1
<1>2. ASSUME NEW n \in Good PROVE n + 1 \in Good
  <2>1. PICK f : KeptUpTo(list, S, n, f)
    OBVIOUS
  <2> DEFINE g == [i \in 0 .. n + 1 |->
                     IF i = n + 1 THEN KeepOne(list, S, n + 1, f[n]) ELSE f[i]]
  <2>2. \A i \in 0 .. n : g[i] = f[i]
    OBVIOUS
  <2>3. ASSUME NEW i \in 0 .. n + 1 PROVE g[i] = KeepOne(list, S, i, g[i - 1])
    <3>1. CASE i = n + 1
      BY <2>2, <3>1
    <3>2. CASE i = 0
      BY <2>1, <2>2, <3>2 DEF KeptUpTo, KeepOne
    <3>3. CASE i \in 1 .. n
      <4>1. g[i] = f[i] /\ g[i - 1] = f[i - 1]
        BY <2>2, <3>3
      <4>2. f[i] = KeepOne(list, S, i, f[i - 1])
        BY <2>1, <3>3 DEF KeptUpTo
      <4> QED
        BY <4>1, <4>2
    <3> QED
      BY <3>1, <3>2, <3>3
  <2>4. KeptUpTo(list, S, n + 1, g)
    BY <2>3 DEF KeptUpTo
  <2> QED
    BY <2>4
<1> HIDE DEF Good
<1>3. Nat \subseteq Good
  BY <1>1, <1>2, CountingUp DEF Good
<1> QED
  BY <1>3 DEF Good

\* Kept leaves out exactly what is not in S: what it lists is of the list and
\* of S, and it is only empty if the list has nothing of S.
LEMMA KeptIs ==
  ASSUME NEW T, NEW list \in Seq(T), NEW S
  PROVE  /\ Kept(list, S) \in Seq(T \cap S)
         /\ ToSet(Kept(list, S)) \subseteq ToSet(list) \cap S
         /\ Kept(list, S) = <<>> => ToSet(list) \cap S = {}
<1> DEFINE f == CHOOSE f : KeptUpTo(list, S, Len(list), f)
<1>1. Len(list) \in Nat /\ KeptUpTo(list, S, Len(list), f)
  BY KeptUpToExists
<1>2. Kept(list, S) = f[Len(list)]
  BY DEF Kept, KeptUpTo, KeepOne
<1> HIDE DEF f
<1> DEFINE X == ToSet(list) \cap S
           Good(i) == /\ f[i] \in Seq(X)
                      /\ f[i] = <<>> => \A j \in 1 .. i : list[j] \notin S
           Ok == {i \in Nat : i <= Len(list) => Good(i)}
<1>3. 0 \in Ok
  BY <1>1 DEF KeptUpTo, KeepOne
<1>4. ASSUME NEW i \in Ok PROVE i + 1 \in Ok
  <2> SUFFICES ASSUME i + 1 <= Len(list) PROVE Good(i + 1)
    OBVIOUS
  <2>1. f[i + 1] = KeepOne(list, S, i + 1, f[i])
    BY <1>1 DEF KeptUpTo
  <2>2. Good(i) /\ list[i + 1] \in ToSet(list)
    BY DEF ToSet
  <2>3. CASE list[i + 1] \in S
    <3>1. f[i + 1] = Append(f[i], list[i + 1])
      BY <2>1, <2>3 DEF KeepOne
    <3> QED
      BY <2>2, <2>3, <3>1
  <2>4. CASE list[i + 1] \notin S
    <3>1. f[i + 1] = f[i]
      BY <2>1, <2>4 DEF KeepOne
    <3>2. \A j \in 1 .. i + 1 : j \in 1 .. i \/ j = i + 1
      OBVIOUS
    <3> HIDE DEF X
    <3> QED
      BY <2>2, <2>4, <3>1, <3>2
  <2> QED
    BY <2>3, <2>4
<1> HIDE DEF Ok
<1>5. Len(list) \in Ok
  BY <1>1, <1>3, <1>4, CountingUp DEF Ok
<1>6. Good(Len(list))
  BY <1>1, <1>5 DEF Ok
<1>7. X \subseteq T \cap S
  BY DEF ToSet
<1>8. ToSet(Kept(list, S)) \subseteq X
  BY <1>2, <1>6 DEF ToSet
<1>9. Kept(list, S) \in Seq(T \cap S)
  BY <1>2, <1>6, <1>7
<1> QED
  BY <1>2, <1>6, <1>8, <1>9 DEF ToSet

\* The pick from a list that is not empty is on it, whatever the seed.
LEMMA PickIsListed ==
  ASSUME NEW T, NEW ids \in Seq(T), ids # <<>>, NEW n \in Nat
  PROVE  PickDeterministically(n, ids) \in ToSet(ids)
<1>1. Len(ids) \in Nat \ {0}
  OBVIOUS
<1>2. n % Len(ids) \in 0 .. Len(ids) - 1
  BY <1>1
<1>3. (n % Len(ids)) + 1 \in DOMAIN ids
  BY <1>1, <1>2
<1> QED
  BY <1>3 DEF PickDeterministically, ToSet

----------------------------------------------------------------------------
(* The invariant *)

Answers == Ids \cup {NoQuestion}

TypeOK ==
  /\ stored \in Seq(Ids) /\ deleted \subseteq Ids
  /\ pc \in [Calls -> {"idle", "listUser", "list", "relist", "read", "done", "failed"}]
  /\ previous \in [Calls -> Answers] /\ answer \in [Calls -> Answers]
  /\ seed \in [Calls -> Nat]
  /\ userIds \in [Calls -> Seq(UserIds)]
  /\ steady \in [Calls -> SUBSET Ids]

\* Whichever question was the last one, the compiled-in set has another.
SeveralDefaults == \A q \in Answers : Defaults \ {q} # {}

RepeatIsNeeded(c) == answer[c] = previous[c] => steady[c] \subseteq {previous[c]}

\* What a call has found out about the questions that stay live all through it.
CallFits(c) ==
  /\ steady[c] \subseteq LiveIds(Ids)
  /\ pc[c] = "list" /\ userIds[c] = <<>> => steady[c] \cap UserIds \subseteq {previous[c]}
  /\ pc[c] = "relist" => steady[c] \subseteq {previous[c]}
  /\ pc[c] = "read" => answer[c] \in ToSet(stored) /\ RepeatIsNeeded(c)
  /\ pc[c] = "done" => /\ SeveralDefaults => RepeatIsNeeded(c)
                       /\ Defaults # {} => answer[c] # NoQuestion

SelectionInv == TypeOK /\ \A c \in Calls : CallFits(c)

LEMMA InitFits == Init => SelectionInv
BY SelectionAssumption DEF Init, SelectionInv, TypeOK, Answers, CallFits

\* A list of candidates has every live question it may have, and no other.
LEMMA CandidatesAre ==
  ASSUME stored \in Seq(Ids), NEW allowed \in SUBSET Ids, NEW excluded
  PROVE  /\ Candidates(allowed, excluded) \in Seq(allowed)
         /\ ToSet(Candidates(allowed, excluded)) \subseteq LiveIds(allowed) \ {excluded}
         /\ Candidates(allowed, excluded) = <<>> => LiveIds(allowed) \subseteq {excluded}
<1> DEFINE S == LiveIds(allowed) \ {excluded}
<1>1. S \subseteq ToSet(stored) /\ S \subseteq allowed
  BY DEF LiveIds
<1> HIDE DEF S
<1>2. /\ Kept(stored, S) \in Seq(Ids \cap S)
      /\ ToSet(Kept(stored, S)) \subseteq ToSet(stored) \cap S
      /\ Kept(stored, S) = <<>> => ToSet(stored) \cap S = {}
  BY KeptIs
<1>3. Candidates(allowed, excluded) = Kept(stored, S)
  BY DEF Candidates, S
<1>4. Kept(stored, S) \in Seq(allowed)
  BY <1>1, <1>2
<1>5. Kept(stored, S) = <<>> => S = {}
  BY <1>1, <1>2
<1> QED
  BY <1>2, <1>3, <1>4, <1>5 DEF S

\* The compiled-in set gives a question whenever it has one, and another one
\* than the last whenever it has two.
LEMMA DefaultsStepIn ==
  ASSUME NEW n \in Nat, NEW p \in Answers, DefaultQuestions # <<>>
  PROVE  /\ SelectDefaultQuestion(n, p) \in Defaults
         /\ Defaults \ {p} # {} => SelectDefaultQuestion(n, p) # p
<1> DEFINE S == Defaults \ {p}
           others == Kept(DefaultQuestions, S)
           ids == IF others = <<>> THEN DefaultQuestions ELSE others
<1>1. DefaultQuestions \in Seq(SystemIds)
  BY SelectionAssumption
<1>2. SelectDefaultQuestion(n, p) = PickDeterministically(n, ids)
  BY DEF SelectDefaultQuestion
<1>3. S \subseteq ToSet(DefaultQuestions) /\ S = Defaults \ {p}
  BY DEF Defaults
<1> HIDE DEF S
<1>4. /\ others \in Seq(SystemIds \cap S)
      /\ ToSet(others) \subseteq ToSet(DefaultQuestions) \cap S
      /\ others = <<>> => ToSet(DefaultQuestions) \cap S = {}
  BY <1>1, KeptIs
<1> HIDE DEF others
<1>5. ids \in Seq(SystemIds) /\ ids # <<>>
  BY <1>1, <1>4
<1>6. PickDeterministically(n, ids) \in ToSet(ids)
  BY <1>5, PickIsListed
<1>7. CASE others = <<>>
  <2>1. Defaults \ {p} = {}
    BY <1>3, <1>4, <1>7
  <2> QED
    BY <1>2, <1>6, <1>7, <2>1 DEF Defaults
<1>8. CASE others # <<>>
  BY <1>2, <1>3, <1>4, <1>6, <1>8
<1> QED
  BY <1>7, <1>8

----------------------------------------------------------------------------
(* The steps of a call *)

\* The other calls are where they were.
LEMMA OthersKeep ==
  ASSUME SelectionInv, NEW c \in Calls, UNCHANGED table,
         \A d \in Calls \ {c} :
           /\ pc'[d] = pc[d] /\ previous'[d] = previous[d] /\ userIds'[d] = userIds[d]
           /\ answer'[d] = answer[d] /\ steady'[d] = steady[d],
         TypeOK', CallFits(c)'
  PROVE  SelectionInv'
<1>1. ASSUME NEW d \in Calls \ {c} PROVE CallFits(d)'
  <2>1. stored' = stored /\ deleted' = deleted
    BY DEF table
  <2> QED
    BY <1>1, <2>1 DEF SelectionInv, CallFits, RepeatIsNeeded, LiveIds
<1> QED
  BY <1>1 DEF SelectionInv

\* A call that fails claims nothing.
LEMMA FailKeeps ==
  ASSUME SelectionInv, NEW c \in Calls, Fail(c),
         UNCHANGED <<table, previous, seed, userIds, steady>>
  PROVE  SelectionInv'
<1>1. /\ answer' = [answer EXCEPT ![c] = NoQuestion] /\ pc' = [pc EXCEPT ![c] = "failed"]
      /\ stored' = stored /\ deleted' = deleted
  BY DEF Fail, Goto, table
<1>2. TypeOK'
  BY <1>1 DEF SelectionInv, TypeOK, Answers
<1>3. CallFits(c)'
  BY <1>1 DEF SelectionInv, TypeOK, CallFits, LiveIds
<1> QED
  BY <1>1, <1>2, <1>3, OthersKeep DEF SelectionInv, TypeOK

LEMMA StartKeeps ==
  ASSUME SelectionInv, NEW c \in Calls, Start(c)
  PROVE  SelectionInv'
<1> SUFFICES ASSUME ~(Fail(c) /\ UNCHANGED <<previous, seed, steady>>) PROVE SelectionInv'
  BY FailKeeps DEF Start
<1>1. PICK p \in ToSet(stored) \cup Defaults \cup {NoQuestion}, n \in Seeds :
        /\ previous' = [previous EXCEPT ![c] = p]
        /\ seed' = [seed EXCEPT ![c] = n]
  BY DEF Start
<1>2. /\ pc' = [pc EXCEPT ![c] = "listUser"]
      /\ steady' = [steady EXCEPT ![c] = LiveIds(Ids)]
      /\ UNCHANGED <<table, userIds, answer>> /\ stored' = stored /\ deleted' = deleted
  BY DEF Start, Goto, table
<1>3. p \in Answers /\ n \in Nat /\ LiveIds(Ids) \subseteq Ids
  BY SelectionAssumption DEF SelectionInv, TypeOK, Answers, Defaults, ToSet, LiveIds, Ids
<1>4. TypeOK'
  BY <1>1, <1>2, <1>3 DEF SelectionInv, TypeOK
<1>5. CallFits(c)'
  BY <1>2 DEF SelectionInv, TypeOK, CallFits, LiveIds
<1> QED
  BY <1>1, <1>2, <1>4, <1>5, OthersKeep DEF SelectionInv, TypeOK

\* No question of a user but the last one: what is live all through the call
\* is seeded.
LEMMA ListUserQuestionsKeeps ==
  ASSUME SelectionInv, NEW c \in Calls, ListUserQuestions(c)
  PROVE  SelectionInv'
<1> SUFFICES ASSUME ~(Fail(c) /\ UNCHANGED userIds) PROVE SelectionInv'
  BY FailKeeps DEF ListUserQuestions
<1> DEFINE found == Candidates(UserIds, previous[c])
<1>1. /\ userIds' = [userIds EXCEPT ![c] = found]
      /\ pc' = [pc EXCEPT ![c] = "list"]
      /\ UNCHANGED <<table, previous, seed, answer, steady>>
      /\ stored' = stored /\ deleted' = deleted
  BY DEF ListUserQuestions, Goto, table
<1>2. /\ found \in Seq(UserIds)
      /\ found = <<>> => LiveIds(UserIds) \subseteq {previous[c]}
  BY CandidatesAre DEF SelectionInv, TypeOK, Ids
<1> HIDE DEF found
<1>3. TypeOK'
  BY <1>1, <1>2 DEF SelectionInv, TypeOK
<1>4. steady[c] \cap UserIds \subseteq LiveIds(UserIds)
  BY DEF SelectionInv, CallFits, LiveIds
<1>5. CallFits(c)'
  BY <1>1, <1>2, <1>4 DEF SelectionInv, TypeOK, CallFits, LiveIds
<1> QED
  BY <1>1, <1>3, <1>5, OthersKeep DEF SelectionInv, TypeOK

\* A list that leaves nothing but the last question out is empty: no other
\* question was live all through the call.
LEMMA NothingElse ==
  ASSUME SelectionInv, NEW c \in Calls, pc[c] = "list",
         Candidates(Pool(c), previous[c]) = <<>>
  PROVE  steady[c] \subseteq {previous[c]}
<1>1. Pool(c) \subseteq Ids /\ LiveIds(Pool(c)) \subseteq {previous[c]}
  BY CandidatesAre DEF SelectionInv, TypeOK, Pool, Ids
<1>2. steady[c] \subseteq LiveIds(Ids)
  BY DEF SelectionInv, CallFits
<1>3. CASE userIds[c] = <<>>
  <2>1. steady[c] \cap UserIds \subseteq {previous[c]} /\ Pool(c) = SystemIds
    BY <1>3 DEF SelectionInv, CallFits, Pool
  <2> QED
    BY <1>1, <1>2, <2>1 DEF LiveIds, Ids
<1>4. CASE userIds[c] # <<>>
  BY <1>1, <1>2, <1>4 DEF Pool
<1> QED
  BY <1>3, <1>4

\* The compiled-in set ends the call.
LEMMA FallbackKeeps ==
  ASSUME SelectionInv, NEW c \in Calls, Fallback(c),
         UNCHANGED <<table, previous, seed, userIds, steady>>
  PROVE  SelectionInv'
<1> DEFINE q == IF DefaultQuestions = <<>> THEN NoQuestion
                ELSE SelectDefaultQuestion(seed[c], previous[c])
<1>1. /\ answer' = [answer EXCEPT ![c] = q] /\ pc' = [pc EXCEPT ![c] = "done"]
      /\ stored' = stored /\ deleted' = deleted
  BY DEF Fallback, Return, Goto, table
<1>2. seed[c] \in Nat /\ previous[c] \in Answers
  BY DEF SelectionInv, TypeOK
<1>3. /\ DefaultQuestions # <<>> => q \in Defaults /\ (Defaults \ {previous[c]} # {} => q # previous[c])
      /\ DefaultQuestions = <<>> => q = NoQuestion
  BY <1>2, DefaultsStepIn
<1> HIDE DEF q
<1>4. Defaults \subseteq Ids /\ NoQuestion \notin Ids /\ (Defaults # {} => DefaultQuestions # <<>>)
  <2>1. DefaultQuestions \in Seq(SystemIds) /\ NoQuestion \notin Ids
    BY SelectionAssumption
  <2> QED
    BY <2>1 DEF Defaults, ToSet, Ids
<1>5. TypeOK'
  BY <1>1, <1>3, <1>4 DEF SelectionInv, TypeOK, Answers
<1>6. CallFits(c)'
  <2>1. SeveralDefaults => q # previous[c]
    BY <1>2, <1>3, <1>4 DEF SeveralDefaults
  <2> QED
    BY <1>1, <1>3, <1>4, <2>1 DEF SelectionInv, TypeOK, CallFits, RepeatIsNeeded, LiveIds,
         SeveralDefaults
<1> QED
  BY <1>1, <1>5, <1>6, OthersKeep DEF SelectionInv, TypeOK

\* A question is picked from a list, on which the last one is only if nothing
\* else was.
LEMMA PickKeeps ==
  ASSUME SelectionInv, NEW c \in Calls, NEW excluded \in Answers,
         Candidates(Pool(c), excluded) # <<>>,
         answer' = [answer EXCEPT ![c] =
           PickDeterministically(seed[c], Candidates(Pool(c), excluded))],
         Goto(c, "read"), UNCHANGED <<table, previous, seed, userIds, steady>>,
         excluded = previous[c] \/ steady[c] \subseteq {previous[c]}
  PROVE  SelectionInv'
<1> DEFINE found == Candidates(Pool(c), excluded)
           q == PickDeterministically(seed[c], found)
<1>1. Pool(c) \subseteq Ids
  BY DEF Pool, Ids
<1>2. found \in Seq(Pool(c)) /\ ToSet(found) \subseteq LiveIds(Pool(c)) \ {excluded}
  BY <1>1, CandidatesAre DEF SelectionInv, TypeOK
<1>3. found # <<>> /\ seed[c] \in Nat
  BY DEF SelectionInv, TypeOK
<1> HIDE DEF found
<1>4. q \in ToSet(found)
  BY <1>2, <1>3, PickIsListed
<1>5. /\ answer' = [answer EXCEPT ![c] = q] /\ pc' = [pc EXCEPT ![c] = "read"]
      /\ stored' = stored /\ deleted' = deleted
  BY DEF found, Goto, table
<1> HIDE DEF q
<1>6. q \in ToSet(stored) /\ q \in Ids /\ q # excluded
  BY <1>1, <1>2, <1>4 DEF LiveIds
<1>7. TypeOK'
  BY <1>5, <1>6 DEF SelectionInv, TypeOK, Answers
<1>8. CallFits(c)'
  BY <1>5, <1>6 DEF SelectionInv, TypeOK, CallFits, RepeatIsNeeded, LiveIds
<1> QED
  BY <1>5, <1>7, <1>8, OthersKeep DEF SelectionInv, TypeOK

LEMMA ListCandidatesKeeps ==
  ASSUME SelectionInv, NEW c \in Calls, ListCandidates(c)
  PROVE  SelectionInv'
<1>1. /\ pc[c] = "list" /\ UNCHANGED <<table, previous, seed, userIds, steady>>
      /\ previous[c] \in Answers
  BY DEF ListCandidates, SelectionInv, TypeOK
<1>2. CASE /\ Candidates(Pool(c), previous[c]) # <<>> /\ Goto(c, "read")
           /\ answer' = [answer EXCEPT ![c] =
                PickDeterministically(seed[c], Candidates(Pool(c), previous[c]))]
  BY <1>1, <1>2, PickKeeps
<1>3. CASE Candidates(Pool(c), previous[c]) = <<>> /\ Goto(c, "relist") /\ UNCHANGED answer
  <2>1. steady[c] \subseteq {previous[c]}
    BY <1>1, <1>3, NothingElse
  <2>2. pc' = [pc EXCEPT ![c] = "relist"] /\ stored' = stored /\ deleted' = deleted
    BY <1>1, <1>3 DEF Goto, table
  <2>3. TypeOK'
    BY <1>1, <1>3, <2>2 DEF SelectionInv, TypeOK
  <2>4. CallFits(c)'
    BY <1>1, <2>1, <2>2 DEF SelectionInv, TypeOK, CallFits, LiveIds
  <2> QED
    BY <1>1, <1>3, <2>2, <2>3, <2>4, OthersKeep DEF SelectionInv, TypeOK
<1>4. CASE Fallback(c)
  BY <1>1, <1>4, FallbackKeeps
<1>5. CASE Fail(c)
  BY <1>1, <1>5, FailKeeps
<1> QED
  BY <1>2, <1>3, <1>4, <1>5 DEF ListCandidates

LEMMA RelistCandidatesKeeps ==
  ASSUME SelectionInv, NEW c \in Calls, RelistCandidates(c)
  PROVE  SelectionInv'
<1>1. /\ pc[c] = "relist" /\ UNCHANGED <<table, previous, seed, userIds, steady>>
      /\ steady[c] \subseteq {previous[c]} /\ NoQuestion \in Answers
  BY DEF RelistCandidates, SelectionInv, CallFits, Answers
<1>2. CASE /\ Candidates(Pool(c), NoQuestion) # <<>> /\ Goto(c, "read")
           /\ answer' = [answer EXCEPT ![c] =
                PickDeterministically(seed[c], Candidates(Pool(c), NoQuestion))]
  BY <1>1, <1>2, PickKeeps
<1>3. CASE Fallback(c)
  BY <1>1, <1>3, FallbackKeeps
<1>4. CASE Fail(c)
  BY <1>1, <1>4, FailKeeps
<1> QED
  BY <1>2, <1>3, <1>4 DEF RelistCandidates

LEMMA GetQuizQuestionKeeps ==
  ASSUME SelectionInv, NEW c \in Calls, GetQuizQuestion(c)
  PROVE  SelectionInv'
<1>1. /\ pc[c] = "read" /\ UNCHANGED <<table, previous, seed, userIds, steady>>
      /\ stored' = stored /\ deleted' = deleted
  BY DEF GetQuizQuestion, table
<1>2. answer[c] \in ToSet(stored) /\ RepeatIsNeeded(c)
  BY <1>1 DEF SelectionInv, CallFits
<1>3. CASE Return(c, answer[c])
  <2>1. answer' = [answer EXCEPT ![c] = answer[c]] /\ pc' = [pc EXCEPT ![c] = "done"]
    BY <1>3 DEF Return, Goto
  <2>2. answer[c] \in Ids /\ answer[c] # NoQuestion
    BY <1>2, SelectionAssumption DEF SelectionInv, TypeOK, ToSet
  <2>3. TypeOK'
    BY <1>1, <2>1 DEF SelectionInv, TypeOK
  <2>4. CallFits(c)'
    BY <1>1, <1>2, <2>1, <2>2 DEF SelectionInv, TypeOK, CallFits, RepeatIsNeeded, LiveIds
  <2> QED
    BY <1>1, <2>1, <2>3, <2>4, OthersKeep DEF SelectionInv, TypeOK
<1>4. CASE Fallback(c)
  BY <1>1, <1>4, FallbackKeeps
<1>5. CASE Fail(c)
  BY <1>1, <1>5, FailKeeps
<1> QED
  BY <1>3, <1>4, <1>5 DEF GetQuizQuestion

----------------------------------------------------------------------------
(* The steps of the others *)

LEMMA PublishKeeps ==
  ASSUME SelectionInv, NEW q \in UserIds, Publish(q)
  PROVE  SelectionInv'
<1>1. PICK place \in 1 .. Len(stored) + 1 : stored' = InsertAt(stored, place, q)
  BY DEF Publish
<1>2. UNCHANGED <<deleted, pc, previous, seed, userIds, answer, steady>>
  BY DEF Publish
<1>3. stored \in Seq(Ids) /\ q \in Ids
  BY DEF SelectionInv, TypeOK, Ids
<1> DEFINE before == SubSeq(stored, 1, place - 1)
           after == SubSeq(stored, place, Len(stored))
<1>4. /\ before \in Seq(Ids) /\ Len(before) = place - 1
      /\ \A i \in 1 .. place - 1 : before[i] = stored[i]
      /\ after \in Seq(Ids) /\ Len(after) = Len(stored) - place + 1
      /\ \A i \in place .. Len(stored) : after[i - place + 1] = stored[i]
  BY <1>3
<1>5. stored' = before \o <<q>> \o after
  BY <1>1 DEF InsertAt
<1> HIDE DEF before, after
<1>6. /\ stored' \in Seq(Ids) /\ Len(stored') = Len(stored) + 1
      /\ \A i \in 1 .. place - 1 : stored'[i] = before[i]
      /\ \A i \in place .. Len(stored) : stored'[i + 1] = after[i - place + 1]
  <2> DEFINE start == before \o <<q>>
  <2>1. /\ start \in Seq(Ids) /\ Len(start) = place
        /\ \A i \in 1 .. place - 1 : start[i] = before[i]
    BY <1>3, <1>4
  <2>2. stored' = start \o after
    BY <1>5
  <2> HIDE DEF start
  <2>3. stored' \in Seq(Ids) /\ Len(stored') = Len(stored) + 1
    BY <1>3, <1>4, <2>1, <2>2
  <2>4. ASSUME NEW i \in 1 .. place - 1 PROVE stored'[i] = before[i]
    BY <1>3, <1>4, <2>1, <2>2
  <2>5. ASSUME NEW i \in place .. Len(stored) PROVE stored'[i + 1] = after[i - place + 1]
    <3>1. i + 1 \in Len(start) + 1 .. Len(start) + Len(after)
      BY <1>3, <1>4, <2>1
    <3>2. stored'[i + 1] = after[i + 1 - Len(start)]
      BY <1>4, <2>1, <2>2, <3>1
    <3>3. i + 1 - place = i - place + 1
      BY <1>3
    <3> QED
      BY <2>1, <3>2, <3>3
  <2> QED
    BY <2>3, <2>4, <2>5
<1>7. ToSet(stored) \subseteq ToSet(stored')
  <2> SUFFICES ASSUME NEW i \in 1 .. Len(stored) PROVE stored[i] \in ToSet(stored')
    BY <1>3 DEF ToSet
  <2>1. stored'[i] = stored[i] \/ stored'[i + 1] = stored[i]
    BY <1>4, <1>6
  <2>2. {i, i + 1} \subseteq DOMAIN stored'
    BY <1>3, <1>6
  <2> QED
    BY <2>1, <2>2 DEF ToSet
<1>8. TypeOK'
  BY <1>2, <1>6 DEF SelectionInv, TypeOK
<1>9. ASSUME NEW c \in Calls PROVE CallFits(c)'
  BY <1>2, <1>7 DEF SelectionInv, CallFits, RepeatIsNeeded, LiveIds
<1> QED
  BY <1>8, <1>9 DEF SelectionInv

LEMMA SoftDeleteKeeps ==
  ASSUME SelectionInv, NEW q \in Ids, SoftDelete(q)
  PROVE  SelectionInv'
<1>1. /\ deleted' = deleted \cup {q}
      /\ steady' = [c \in Calls |-> steady[c] \ {q}]
      /\ UNCHANGED <<stored, pc, previous, seed, userIds, answer>>
  BY DEF SoftDelete
<1>2. TypeOK'
  BY <1>1 DEF SelectionInv, TypeOK
<1>3. ASSUME NEW c \in Calls PROVE CallFits(c)'
  BY <1>1 DEF SelectionInv, CallFits, RepeatIsNeeded, LiveIds
<1> QED
  BY <1>2, <1>3 DEF SelectionInv

LEMMA NextFits == SelectionInv /\ [Next]_vars => SelectionInv'
<1> SUFFICES ASSUME SelectionInv, [Next]_vars PROVE SelectionInv'
  OBVIOUS
<1>1. CASE \E c \in Calls : Start(c)
  BY <1>1, StartKeeps
<1>2. CASE \E c \in Calls : Serve(c)
  BY <1>2, ListUserQuestionsKeeps, ListCandidatesKeeps, RelistCandidatesKeeps,
     GetQuizQuestionKeeps DEF Serve
<1>3. CASE \E q \in UserIds : Publish(q)
  BY <1>3, PublishKeeps
<1>4. CASE \E q \in Ids : SoftDelete(q)
  BY <1>4, SoftDeleteKeeps
<1>5. CASE UNCHANGED vars
  BY <1>5 DEF vars, table, SelectionInv, TypeOK, CallFits, RepeatIsNeeded, LiveIds
<1> QED
  BY <1>1, <1>2, <1>3, <1>4, <1>5 DEF Next

LEMMA AlwaysFits == Spec => []SelectionInv
BY InitFits, NextFits, PTL DEF Spec

----------------------------------------------------------------------------
(* The theorems *)

(* Nobody is asked the same question twice in a row while another one is live
   all through the call (GetQuestion and its retry).  The compiled-in set must
   have a second question, as the one of default_questions.go has: it may have
   to step in for a question deleted between the last two queries. *)
THEOREM RepeatsAreNeeded ==
  ASSUME SeveralDefaults
  PROVE  Spec => []NoNeedlessRepeat
<1>1. SelectionInv => NoNeedlessRepeat
  BY DEF SelectionInv, CallFits, RepeatIsNeeded, NoNeedlessRepeat, Answered
<1> QED
  BY <1>1, AlwaysFits, PTL

(* A call none of whose queries fails has a question to show, if a set is
   compiled in: however many of the stored ones are deleted meanwhile
   (selectDefaultQuestion). *)
THEOREM QuestionsNeverRunOut == Spec => []AlwaysAQuestion
<1>1. SelectionInv => AlwaysAQuestion
  BY DEF SelectionInv, CallFits, AlwaysAQuestion, Answered
<1> QED
  BY <1>1, AlwaysFits, PTL

\* A call that ends returns what it has read, or what is compiled in.
LEMMA EndsWith ==
  ASSUME SelectionInv, [Next]_vars, NEW c \in Calls, pc[c] # "done", pc'[c] = "done"
  PROVE  \/ GetQuizQuestion(c) /\ answer[c] \notin deleted /\ Return(c, answer[c])
         \/ Fallback(c)
<1>1. \/ \E d \in Calls : Start(d) \/ Serve(d)
      \/ pc' = pc
  BY DEF Next, Publish, SoftDelete, vars
<1>2. PICK d \in Calls : Start(d) \/ Serve(d)
  BY <1>1
<1>3. \/ \E phase \in {"listUser", "list", "relist", "read", "failed"} : Goto(d, phase)
      \/ GetQuizQuestion(d) /\ answer[d] \notin deleted /\ Return(d, answer[d])
      \/ Fallback(d)
  BY <1>2 DEF Start, Serve, ListUserQuestions, ListCandidates, RelistCandidates, GetQuizQuestion,
     Fail
<1>4. pc \in [Calls -> {"idle", "listUser", "list", "relist", "read", "done", "failed"}]
  BY DEF SelectionInv, TypeOK
<1>5. c = d
  BY <1>3, <1>4 DEF Goto, Return, Fallback
<1> QED
  BY <1>3, <1>4, <1>5 DEF Goto

(* A deleted question is served from the compiled-in set or not at all, though
   the lists it was picked from are a query older (GetQuizQuestion). *)
THEOREM DeletedStayUnserved == Spec => DeletedQuestionsAreNotServed
<1>1. ASSUME SelectionInv, [Next]_vars, NEW c \in Calls, pc[c] # "done", pc'[c] = "done",
             answer'[c] \notin Defaults \cup {NoQuestion}
      PROVE  answer'[c] \in LiveIds(Ids)
  <2>1. answer \in [Calls -> Answers] /\ seed[c] \in Nat /\ previous[c] \in Answers
    BY <1>1 DEF SelectionInv, TypeOK
  <2>2. CASE Fallback(c)
    <3>1. \/ answer'[c] = NoQuestion
          \/ DefaultQuestions # <<>> /\ answer'[c] = SelectDefaultQuestion(seed[c], previous[c])
      BY <2>1, <2>2 DEF Fallback, Return
    <3> QED
      BY <1>1, <2>1, <3>1, DefaultsStepIn
  <2>3. CASE GetQuizQuestion(c) /\ answer[c] \notin deleted /\ Return(c, answer[c])
    <3>1. answer'[c] = answer[c] /\ pc[c] = "read"
      BY <2>1, <2>3 DEF GetQuizQuestion, Return
    <3>2. answer[c] \in ToSet(stored) /\ ToSet(stored) \subseteq Ids
      BY <1>1, <3>1 DEF SelectionInv, TypeOK, CallFits, ToSet
    <3> QED
      BY <2>3, <3>1, <3>2 DEF LiveIds
  <2> QED
    BY <1>1, <2>2, <2>3, EndsWith
<1>2. SelectionInv /\ [Next]_vars =>
        [\A c \in Calls : pc[c] # "done" /\ pc'[c] = "done"
                            /\ answer'[c] \notin Defaults \cup {NoQuestion} =>
           answer'[c] \in LiveIds(Ids)]_vars
  BY <1>1
<1> QED
  BY <1>2, AlwaysFits, PTL DEF Spec, DeletedQuestionsAreNotServed
=============================================================================
