------------------------ MODULE LatencyWindowProofs ------------------------
(***************************************************************************)
(* What the metrics report, for any number of handlers, methods and calls,  *)
(* any window and any percentile.                                           *)
(***************************************************************************)
EXTENDS LatencyWindow, FunctionTheorems, FiniteSetTheorems, TLAPS

----------------------------------------------------------------------------
(* Sorting *)

(* Induction over the numbers, for a set of them. *)
LEMMA CountingUp ==
  ASSUME NEW S, 0 \in S, \A n \in Nat : n \in S => n + 1 \in S
  PROVE  Nat \subseteq S
<1> DEFINE Less == {pair \in Nat \X Nat : pair[1] < pair[2]}
<1>1. IsWellFoundedOn(Less, Nat)
  BY NatLessThanWellFounded DEF OpToRel
<1> SUFFICES ASSUME Nat \ S # {} PROVE FALSE
  OBVIOUS
<1>2. PICK x \in Nat \ S : \A y \in Nat \ S : ~(<<y, x>> \in Less)
  <2> HIDE DEF Less
  <2> QED
    BY <1>1, WFMin
<1>3. x - 1 \in Nat /\ <<x - 1, x>> \in Less
  BY <1>2
<1> HIDE DEF Less
<1>4. x - 1 \in S
  BY <1>2, <1>3
<1> QED
  BY <1>2, <1>3, <1>4

(* A set of numbers that is not empty has a least one. *)
LEMMA LeastNumber ==
  ASSUME NEW T \in SUBSET Nat, T # {}
  PROVE  \E g \in T : \A i \in T : g <= i
<1> DEFINE Less == {pair \in Nat \X Nat : pair[1] < pair[2]}
<1>1. IsWellFoundedOn(Less, Nat)
  BY NatLessThanWellFounded DEF OpToRel
<1>2. PICK g \in T : \A i \in T : ~(<<i, g>> \in Less)
  <2> HIDE DEF Less
  <2> QED
    BY <1>1, WFMin
<1>3. ASSUME NEW i \in T PROVE g <= i
  <2>1. i \in Nat /\ g \in Nat /\ ~(<<i, g>> \in Less)
    BY <1>2
  <2> QED
    BY <2>1
<1> QED
  BY <1>3

(* The first k samples in order. *)
SortsFirst(samples, k, order) ==
  /\ order \in [1 .. k -> 1 .. k]
  /\ \A i, j \in 1 .. k :
       i < j => order[i] # order[j] /\ samples[order[i]] <= samples[order[j]]

(* Once the first k are sorted, one more finds its place among them. *)
LEMMA OneMoreIsSorted ==
  ASSUME NEW n \in Nat, NEW samples \in [1 .. n -> Nat], NEW k \in Nat, k + 1 <= n,
         NEW order, SortsFirst(samples, k, order)
  PROVE  \E more : SortsFirst(samples, k + 1, more)
<1> DEFINE T == {i \in 1 .. k + 1 : i = k + 1 \/ samples[order[i]] > samples[k + 1]}
<1>1. k + 1 \in T /\ T \in SUBSET Nat
  OBVIOUS
<1>2. PICK g \in T : \A i \in T : g <= i
  <2> HIDE DEF T
  <2> QED
    BY <1>1, LeastNumber
<1> DEFINE more == [i \in 1 .. k + 1 |->
                      IF i < g THEN order[i] ELSE IF i = g THEN k + 1 ELSE order[i - 1]]
<1>3. \A i \in 1 .. k : order[i] \in 1 .. k /\ samples[order[i]] \in Nat
  BY DEF SortsFirst
<1>4. samples[k + 1] \in Nat /\ g \in 1 .. k + 1
  BY <1>2
<1>5. ASSUME NEW i \in 1 .. k, i < g PROVE samples[order[i]] <= samples[k + 1]
  BY <1>2, <1>3, <1>4, <1>5
<1>6. ASSUME NEW i \in 1 .. k, g <= i PROVE samples[k + 1] <= samples[order[i]]
  <2>1. g \in 1 .. k /\ samples[order[g]] > samples[k + 1]
    BY <1>2, <1>4, <1>6
  <2>2. CASE g = i
    BY <2>1, <2>2, <1>3, <1>4
  <2>3. CASE g < i
    <3>1. samples[order[g]] <= samples[order[i]]
      BY <2>1, <2>3 DEF SortsFirst
    <3> HIDE DEF T, more
    <3> QED
      BY <2>1, <3>1, <1>3, <1>4
  <2> QED
    BY <2>1, <2>2, <2>3, <1>6
<1> HIDE DEF T
<1>7. more \in [1 .. k + 1 -> 1 .. k + 1]
  BY <1>3, <1>4
<1>8. ASSUME NEW i \in 1 .. k + 1, NEW j \in 1 .. k + 1, i < j
      PROVE  more[i] # more[j] /\ samples[more[i]] <= samples[more[j]]
  <2>1. CASE j < g
    <3>1. i \in 1 .. k /\ j \in 1 .. k
      BY <2>1, <1>4, <1>8
    <3>2. more[i] = order[i] /\ more[j] = order[j]
      BY <2>1, <1>4, <1>8
    <3> HIDE DEF more
    <3> QED
      BY <3>1, <3>2, <1>8 DEF SortsFirst
  <2>2. CASE j = g
    BY <2>2, <1>3, <1>4, <1>5, <1>8
  <2>3. CASE g < j /\ i < g
    <3>2. i \in 1 .. k /\ j - 1 \in 1 .. k /\ i < j - 1
      BY <2>3, <1>4, <1>8
    <3>3. more[i] = order[i] /\ more[j] = order[j - 1]
      BY <2>3, <1>4, <1>8
    <3> HIDE DEF more
    <3> QED
      BY <3>2, <3>3 DEF SortsFirst
  <2>4. CASE i = g
    BY <2>4, <1>3, <1>4, <1>6, <1>8
  <2>5. CASE g < i
    <3>1. i - 1 \in 1 .. k /\ j - 1 \in 1 .. k /\ i - 1 < j - 1
      BY <2>5, <1>4, <1>8
    <3>2. more[i] = order[i - 1] /\ more[j] = order[j - 1]
      BY <2>5, <1>4, <1>8
    <3> HIDE DEF more
    <3> QED
      BY <3>1, <3>2 DEF SortsFirst
  <2> QED
    BY <2>1, <2>2, <2>3, <2>4, <2>5, <1>4
<1>9. SortsFirst(samples, k + 1, more)
  BY <1>7, <1>8 DEF SortsFirst
<1> QED
  BY <1>9

(* Samples can be sorted. *)
LEMMA SortingExists ==
  ASSUME NEW n \in Nat, NEW samples \in [1 .. n -> Nat]
  PROVE  Sortings(samples) # {}
<1> DEFINE Good == {k \in Nat : k <= n => \E order : SortsFirst(samples, k, order)}
<1>1. 0 \in Good
  <2>1. SortsFirst(samples, 0, [i \in 1 .. 0 |-> i])
    BY DEF SortsFirst
  <2> QED
    BY <2>1
<1>2. \A k \in Nat : k \in Good => k + 1 \in Good
  BY OneMoreIsSorted
<1>3. n \in Good
  <2> HIDE DEF Good
  <2> QED
    BY <1>1, <1>2, CountingUp
<1>4. PICK order : SortsFirst(samples, n, order)
  BY <1>3
<1>5. order \in Sortings(samples)
  BY <1>4 DEF SortsFirst, Sortings
<1> QED
  BY <1>5

----------------------------------------------------------------------------
(* Counting and ranks *)

(* The first n values of a function, and that they are all different. *)
Values(g, n) == {g[i] : i \in 1 .. n}

Distinct(g, n) == \A i, j \in 1 .. n : i < j => g[i] # g[j]

(* A list without repetition has as many members as positions. *)
LEMMA ValuesCount ==
  ASSUME NEW n \in Nat, NEW k \in 0 .. n, NEW R, NEW g \in [1 .. n -> R], Distinct(g, n)
  PROVE  IsFiniteSet(Values(g, k)) /\ Cardinality(Values(g, k)) = k
<1> DEFINE h == [i \in 1 .. k |-> g[i]]
<1>1. \A a, b \in 1 .. k : h[a] = h[b] => a = b
  <2>1. \A a, b \in 1 .. k : a < b \/ a = b \/ b < a
    OBVIOUS
  <2> QED
    BY <2>1 DEF Distinct
<1>2. h \in [1 .. k -> Values(g, k)] /\ \A x \in Values(g, k) : \E i \in 1 .. k : h[i] = x
  BY DEF Values
<1> HIDE DEF h
<1>3. ExistsBijection(1 .. k, Values(g, k))
  BY <1>1, <1>2, Fun_IsBij DEF ExistsBijection
<1>4. IsFiniteSet(1 .. k) /\ Cardinality(1 .. k) = k
  BY FS_Interval
<1> QED
  BY <1>3, <1>4, FS_Bijection

(* The rank is the least number of samples that is enough of them. *)
LEMMA RankIs ==
  ASSUME NEW n \in Nat \ {0}
  PROVE  /\ Rank(n) \in 1 .. n
         /\ \A c \in Nat : c >= Rank(n) => 100 * c >= Percent * n
         /\ \A c \in Nat : c < Rank(n) => 100 * c < Percent * n
<1> DEFINE share == n * Percent
           r == (share + 99) \div 100
<1>1. share \in Nat /\ share >= 1 /\ share <= 100 * n /\ share = Percent * n
  BY WindowAssumption
<1> HIDE DEF share
<1>2. r \in Nat /\ 100 * r <= share + 99 /\ share + 99 < 100 * r + 100
  BY <1>1
<1> HIDE DEF r
<1>3. /\ r >= 1 /\ r <= n
      /\ \A c \in Nat : c >= r => 100 * c >= share
      /\ \A c \in Nat : c < r => 100 * c < share
  BY <1>1, <1>2
<1> QED
  BY <1>1, <1>2, <1>3 DEF Rank, share, r

(* The percentile of samples is that of the calls they were taken from. *)
LEMMA PercentileIs ==
  ASSUME NEW n \in Nat \ {0}, NEW samples \in [1 .. n -> Nat], Len(samples) = n,
         NEW calls, NEW some, NEW e \in [1 .. n -> some],
         Distinct(e, n), some = Values(e, n),
         \A i \in 1 .. n : samples[i] = calls[e[i]].latency
  PROVE  /\ IsPercentile(Percentile(samples), calls, some)
         /\ Percentile(samples) \in Nat
<1> DEFINE order == CHOOSE o \in Sortings(samples) : TRUE
           g == [i \in 1 .. n |-> e[order[i]]]
           k == Rank(n)
           x == samples[order[k]]
           within == {i \in some : calls[i].latency <= x}
           below == {i \in some : calls[i].latency < x}
<1>1. /\ order \in [1 .. n -> 1 .. n]
      /\ \A i, j \in 1 .. n :
           i < j => order[i] # order[j] /\ samples[order[i]] <= samples[order[j]]
  <2>1. order \in Sortings(samples)
    BY SortingExists
  <2> HIDE DEF order
  <2> QED
    BY <2>1 DEF Sortings
<1>2. Percentile(samples) = x
  <2>1. samples # <<>>
    OBVIOUS
  <2> QED
    BY <2>1 DEF Percentile
<1> HIDE DEF order
<1>3. /\ k \in 1 .. n
      /\ \A c \in Nat : c >= k => 100 * c >= Percent * n
      /\ \A c \in Nat : c < k => 100 * c < Percent * n
  BY RankIs
<1> HIDE DEF k
<1>4. /\ g \in [1 .. n -> some]
      /\ \A i \in 1 .. n : calls[g[i]].latency = samples[order[i]]
  BY <1>1
<1>5. Distinct(g, n)
  <2>1. \A i, j \in 1 .. n : i # j => e[i] # e[j]
    BY \A i, j \in 1 .. n : i < j \/ i = j \/ j < i DEF Distinct
  <2>2. ASSUME NEW i \in 1 .. n, NEW j \in 1 .. n, i < j PROVE g[i] # g[j]
    <3>1. order[i] \in 1 .. n /\ order[j] \in 1 .. n /\ order[i] # order[j]
      BY <1>1, <2>2
    <3> QED
      BY <2>1, <3>1
  <2> QED
    BY <2>2 DEF Distinct
<1> HIDE DEF g
<1>6. IsFiniteSet(some) /\ Cardinality(some) = n
  <2>1. n \in Nat /\ n \in 0 .. n
    OBVIOUS
  <2> QED
    BY <2>1, ValuesCount
<1>7. some = Values(g, n)
  <2>1. IsFiniteSet(Values(g, n)) /\ Cardinality(Values(g, n)) = n
    <3>1. n \in Nat /\ n \in 0 .. n
      OBVIOUS
    <3> QED
      BY <3>1, <1>4, <1>5, ValuesCount
  <2>2. Values(g, n) \in SUBSET some
    BY <1>4 DEF Values
  <2> QED
    BY <1>6, <2>1, <2>2, FS_Subset
<1>8. /\ IsFiniteSet(Values(g, k)) /\ Cardinality(Values(g, k)) = k
      /\ IsFiniteSet(Values(g, k - 1)) /\ Cardinality(Values(g, k - 1)) = k - 1
  <2>1. n \in Nat /\ k \in 0 .. n /\ k - 1 \in 0 .. n
    BY <1>3
  <2> QED
    BY <2>1, <1>4, <1>5, ValuesCount
<1>9. x \in Nat /\ g[k] \in some /\ calls[g[k]].latency = x
  BY <1>1, <1>3, <1>4
<1>10. Values(g, k) \in SUBSET within
  <2>1. ASSUME NEW i \in 1 .. k PROVE samples[order[i]] <= x
    <3>1. CASE i = k
      BY <1>9, <3>1
    <3>2. CASE i < k
      <4>1. i \in 1 .. n
        BY <1>3
      <4> QED
        BY <1>1, <1>3, <3>2, <4>1
    <3> QED
      BY <1>3, <3>1, <3>2
  <2>2. 1 .. k \in SUBSET (1 .. n)
    BY <1>3
  <2> HIDE DEF x
  <2>3. \A i \in 1 .. k : g[i] \in some /\ calls[g[i]].latency <= x
    BY <1>4, <2>1, <2>2
  <2> QED
    BY <2>3 DEF Values
<1>11. below \in SUBSET Values(g, k - 1)
  <2>1. ASSUME NEW i \in 1 .. n, k <= i PROVE ~(samples[order[i]] < x)
    <3>1. samples[order[i]] \in Nat
      BY <1>1
    <3>2. CASE i = k
      BY <3>1, <3>2
    <3>3. CASE k < i
      <4>1. x <= samples[order[i]]
        BY <1>1, <1>3, <3>3
      <4> HIDE DEF x
      <4> QED
        BY <4>1, <3>1, <1>9
    <3> QED
      BY <1>3, <2>1, <3>2, <3>3
  <2> HIDE DEF x
  <2>2. ASSUME NEW i \in 1 .. n, calls[g[i]].latency < x PROVE i \in 1 .. k - 1
    <3>1. calls[g[i]].latency = samples[order[i]]
      BY <1>4
    <3>2. ~(k <= i)
      BY <2>1, <2>2, <3>1
    <3> QED
      BY <1>3, <3>2
  <2> QED
    BY <1>7, <2>2 DEF Values
<1> HIDE DEF x
<1>12. within \in SUBSET some
  OBVIOUS
<1> HIDE DEF within, below
<1>13. Cardinality(within) \in Nat /\ Cardinality(within) >= k
  <2>1. IsFiniteSet(within)
    BY <1>6, <1>12, FS_Subset
  <2>2. Cardinality(within) \in Nat
    BY <2>1, FS_CardinalityType
  <2>3. Cardinality(Values(g, k)) <= Cardinality(within)
    BY <2>1, <1>10, FS_Subset
  <2> QED
    BY <1>3, <1>8, <2>2, <2>3
<1>14. Cardinality(below) \in Nat /\ Cardinality(below) < k
  <2>1. IsFiniteSet(below) /\ Cardinality(below) <= k - 1
    BY <1>8, <1>11, FS_Subset
  <2>2. Cardinality(below) \in Nat
    BY <2>1, FS_CardinalityType
  <2> QED
    BY <1>3, <2>1, <2>2
<1> USE DEF within, below
<1>15. /\ 100 * Cardinality(within) >= Percent * Cardinality(some)
       /\ 100 * Cardinality(below) < Percent * Cardinality(some)
  <2> HIDE DEF within, below
  <2> QED
    BY <1>3, <1>6, <1>13, <1>14
<1> QED
  BY <1>2, <1>9, <1>15 DEF IsPercentile

----------------------------------------------------------------------------
(* The invariant *)

(* The counters of a method are those of some calls. *)
CountsFit(s, m, calls) ==
  /\ s.count = Cardinality(OfMethod(m, calls))
  /\ s.errors = Cardinality(FailedOf(m, calls))

(* Each sample is that of a call of the method, in their order; a call without
   one is older than all that have one, and the window is full. *)
TakenFrom(samples, m, calls, taken) ==
  /\ \A k, l \in DOMAIN samples : k < l => taken[k] < taken[l]
  /\ \A k \in DOMAIN samples : samples[k] = calls[taken[k]].latency
  /\ Len(samples) <= MaxSamples
  /\ \A i \in OfMethod(m, calls) :
       \/ \E k \in DOMAIN samples : taken[k] = i
       \/ Len(samples) = MaxSamples /\ i < taken[1]

WindowFits(samples, m, calls) ==
  \E taken \in [DOMAIN samples -> OfMethod(m, calls)] : TakenFrom(samples, m, calls, taken)

(* While a handler has the lock, its call is the last of the log and not yet
   in the counters, or not yet in the window. *)
Before == SubSeq(log, 1, Len(log) - 1)

Counted == IF \E h \in Handlers : pc[h] = "count" THEN Before ELSE log

Sampled == IF mutex = Nobody THEN log ELSE Before

LockFits ==
  /\ \A h \in Handlers : pc[h] \in {"count", "sample"} <=> mutex = h
  /\ \A h \in Handlers : pc[h] # "idle" => call[h] \in Calls
  /\ mutex # Nobody => log # <<>> /\ log[Len(log)] = call[mutex]

StateFits ==
  \A m \in Methods :
    CountsFit(state[m], m, Counted) /\ WindowFits(state[m].samples, m, Sampled)

MethodState == [count : Nat, errors : Nat, samples : Seq(Latencies)]

(* A copy is of the moment when the first n calls had been recorded. *)
IsCopyOf(states, calls) ==
  \A m \in Methods :
    CountsFit(states[m], m, calls) /\ WindowFits(states[m].samples, m, calls)

CopyFits ==
  copied # NoCopy =>
    /\ Len(copied) = 1 /\ copied[1] \in [Methods -> MethodState]
    /\ \E n \in 0 .. Len(log) : IsCopyOf(copied[1], SubSeq(log, 1, n))

(* Calls that wait for the lock are still to be logged. *)
Waiting == {h \in Handlers : pc[h] = "lock"}

BoundsFit ==
  /\ Len(log) + Cardinality(Waiting) <= MaxCalls
  /\ copied # NoCopy => Len(reports) < MaxReports

WindowInv ==
  TypeOK /\ LockFits /\ StateFits /\ CopyFits /\ BoundsFit /\ ReportsAreOfOneMoment

----------------------------------------------------------------------------
(* Lists of calls *)

LEMMA OneCallMore ==
  ASSUME NEW calls \in Seq(Calls), NEW c \in Calls
  PROVE  /\ Append(calls, c) \in Seq(Calls)
         /\ Len(Append(calls, c)) = Len(calls) + 1
         /\ DOMAIN Append(calls, c) = 1 .. Len(calls) + 1
         /\ DOMAIN calls = 1 .. Len(calls)
         /\ \A i \in 1 .. Len(calls) : Append(calls, c)[i] = calls[i]
         /\ Append(calls, c)[Len(calls) + 1] = c
OBVIOUS

LEMMA PrefixIs ==
  ASSUME NEW calls \in Seq(Calls), NEW n \in 0 .. Len(calls)
  PROVE  /\ SubSeq(calls, 1, n) \in Seq(Calls)
         /\ Len(SubSeq(calls, 1, n)) = n
         /\ \A i \in 1 .. n : SubSeq(calls, 1, n)[i] = calls[i]
OBVIOUS

LEMMA SameList ==
  ASSUME NEW a \in Seq(Calls), NEW b \in Seq(Calls), Len(a) = Len(b),
         \A i \in 1 .. Len(a) : a[i] = b[i]
  PROVE  a = b
OBVIOUS

(* A call that is added leaves the calls before it. *)
LEMMA PrefixStays ==
  ASSUME NEW calls \in Seq(Calls), NEW c \in Calls, NEW n \in 0 .. Len(calls)
  PROVE  SubSeq(Append(calls, c), 1, n) = SubSeq(calls, 1, n)
<1>1. n \in 0 .. Len(Append(calls, c))
  BY OneCallMore
<1>2. \A i \in 1 .. n : i \in 1 .. Len(calls)
  OBVIOUS
<1> QED
  BY <1>1, <1>2, OneCallMore, PrefixIs, SameList

LEMMA WholeList ==
  ASSUME NEW calls \in Seq(Calls)
  PROVE  SubSeq(calls, 1, Len(calls)) = calls
<1>1. Len(calls) \in 0 .. Len(calls)
  OBVIOUS
<1> QED
  BY <1>1, PrefixIs, SameList

LEMMA LastCall ==
  ASSUME NEW calls \in Seq(Calls), calls # <<>>
  PROVE  /\ SubSeq(calls, 1, Len(calls) - 1) \in Seq(Calls)
         /\ calls[Len(calls)] \in Calls
         /\ calls = Append(SubSeq(calls, 1, Len(calls) - 1), calls[Len(calls)])
<1>1. Len(calls) \in Nat \ {0} /\ Len(calls) - 1 \in 0 .. Len(calls)
  OBVIOUS
<1> DEFINE front == SubSeq(calls, 1, Len(calls) - 1)
           c == calls[Len(calls)]
<1>2. /\ front \in Seq(Calls) /\ Len(front) = Len(calls) - 1
      /\ \A i \in 1 .. Len(calls) - 1 : front[i] = calls[i]
  BY <1>1, PrefixIs
<1>3. c \in Calls
  BY <1>1
<1> HIDE DEF front
<1>4. /\ Append(front, c) \in Seq(Calls) /\ Len(Append(front, c)) = Len(calls)
      /\ \A i \in 1 .. Len(calls) - 1 : Append(front, c)[i] = calls[i]
      /\ Append(front, c)[Len(calls)] = c
  BY <1>1, <1>2, <1>3, OneCallMore
<1>5. \A i \in 1 .. Len(calls) : Append(front, c)[i] = calls[i]
  BY <1>1, <1>4
<1> QED
  BY <1>2, <1>3, <1>4, <1>5, SameList DEF front

(* One call more is counted with its method, and with no other. *)
LEMMA OneMoreOfMethod ==
  ASSUME NEW calls \in Seq(Calls), NEW c \in Calls, NEW m
  PROVE  /\ OfMethod(m, Append(calls, c)) =
              IF c.method = m THEN OfMethod(m, calls) \cup {Len(calls) + 1}
                              ELSE OfMethod(m, calls)
         /\ FailedOf(m, Append(calls, c)) =
              IF c.method = m /\ c.error THEN FailedOf(m, calls) \cup {Len(calls) + 1}
                                         ELSE FailedOf(m, calls)
<1> DEFINE more == Append(calls, c)
<1>1. /\ DOMAIN more = 1 .. Len(calls) + 1 /\ DOMAIN calls = 1 .. Len(calls)
      /\ \A i \in 1 .. Len(calls) : more[i] = calls[i]
      /\ more[Len(calls) + 1] = c /\ Len(calls) \in Nat
  BY OneCallMore
<1> HIDE DEF more
<1>2. OfMethod(m, more) = IF c.method = m THEN OfMethod(m, calls) \cup {Len(calls) + 1}
                                          ELSE OfMethod(m, calls)
  BY <1>1 DEF OfMethod
<1>3. FailedOf(m, more) =
        IF c.method = m /\ c.error THEN FailedOf(m, calls) \cup {Len(calls) + 1}
                                   ELSE FailedOf(m, calls)
  BY <1>1 DEF OfMethod, FailedOf
<1> QED
  BY <1>2, <1>3 DEF more

LEMMA FewCalls ==
  ASSUME NEW calls \in Seq(Calls), NEW m
  PROVE  /\ OfMethod(m, calls) \in SUBSET (1 .. Len(calls))
         /\ IsFiniteSet(OfMethod(m, calls)) /\ IsFiniteSet(FailedOf(m, calls))
         /\ Cardinality(OfMethod(m, calls)) \in 0 .. Len(calls)
         /\ Cardinality(FailedOf(m, calls)) \in 0 .. Cardinality(OfMethod(m, calls))
<1>1. OfMethod(m, calls) \in SUBSET (1 .. Len(calls)) /\ Len(calls) \in Nat
  BY DEF OfMethod
<1>2. FailedOf(m, calls) \in SUBSET OfMethod(m, calls)
  BY DEF FailedOf
<1>3. IsFiniteSet(1 .. Len(calls)) /\ Cardinality(1 .. Len(calls)) = Len(calls)
  <2> DEFINE n == Len(calls)
  <2>1. n \in Nat
    BY <1>1
  <2> HIDE DEF n
  <2>2. IsFiniteSet(1 .. n) /\ Cardinality(1 .. n) = n
    BY <2>1, FS_Interval
  <2> QED
    BY <2>2 DEF n
<1>4. /\ IsFiniteSet(OfMethod(m, calls))
      /\ Cardinality(OfMethod(m, calls)) <= Len(calls)
  BY <1>1, <1>3, FS_Subset
<1>5. /\ IsFiniteSet(FailedOf(m, calls))
      /\ Cardinality(FailedOf(m, calls)) <= Cardinality(OfMethod(m, calls))
  BY <1>2, <1>4, FS_Subset
<1> QED
  BY <1>1, <1>4, <1>5, FS_CardinalityType

LEMMA CountsMove ==
  ASSUME NEW calls \in Seq(Calls), NEW c \in Calls, NEW m, NEW s \in MethodState,
         CountsFit(s, m, calls), c.method = m
  PROVE  /\ Cardinality(OfMethod(m, Append(calls, c))) = s.count + 1
         /\ Cardinality(FailedOf(m, Append(calls, c))) =
              IF c.error THEN s.errors + 1 ELSE s.errors
<1>1. /\ Len(calls) + 1 \notin OfMethod(m, calls) /\ Len(calls) + 1 \notin FailedOf(m, calls)
      /\ IsFiniteSet(OfMethod(m, calls)) /\ IsFiniteSet(FailedOf(m, calls))
  <2>1. Len(calls) \in Nat /\ Len(calls) + 1 \notin 1 .. Len(calls)
    OBVIOUS
  <2>2. FailedOf(m, calls) \in SUBSET OfMethod(m, calls)
    BY DEF FailedOf
  <2> QED
    BY <2>1, <2>2, FewCalls
<1>2. OfMethod(m, Append(calls, c)) = OfMethod(m, calls) \cup {Len(calls) + 1}
  BY OneMoreOfMethod
<1>3. FailedOf(m, Append(calls, c)) =
        IF c.error THEN FailedOf(m, calls) \cup {Len(calls) + 1} ELSE FailedOf(m, calls)
  BY OneMoreOfMethod
<1>4. /\ Cardinality(OfMethod(m, calls) \cup {Len(calls) + 1}) = Cardinality(OfMethod(m, calls)) + 1
      /\ Cardinality(FailedOf(m, calls) \cup {Len(calls) + 1}) = Cardinality(FailedOf(m, calls)) + 1
  BY <1>1, FS_AddElement
<1> QED
  BY <1>2, <1>3, <1>4 DEF CountsFit

LEMMA CountsStay ==
  ASSUME NEW calls \in Seq(Calls), NEW c \in Calls, NEW m, NEW s,
         CountsFit(s, m, calls), c.method # m
  PROVE  CountsFit(s, m, Append(calls, c))
BY OneMoreOfMethod DEF CountsFit

(* A window stays one of latencies. *)
LEMMA SamplesAre ==
  ASSUME NEW samples \in Seq(Latencies), NEW latency \in Latencies
  PROVE  AppendSample(samples, latency) \in Seq(Latencies)
<1>1. CASE Len(samples) < MaxSamples
  BY <1>1 DEF AppendSample
<1>2. CASE ~(Len(samples) < MaxSamples)
  <2>1. samples # <<>>
    BY <1>2, WindowAssumption
  <2>2. Tail(samples) \in Seq(Latencies)
    BY <2>1
  <2> QED
    BY <1>2, <2>2 DEF AppendSample
<1> QED
  BY <1>1, <1>2

(* The window keeps the newest calls. *)
LEMMA WindowMoves ==
  ASSUME NEW calls \in Seq(Calls), NEW c \in Calls, NEW m, NEW samples \in Seq(Latencies),
         WindowFits(samples, m, calls), c.method = m
  PROVE  WindowFits(AppendSample(samples, c.latency), m, Append(calls, c))
<1> DEFINE more == Append(calls, c)
           longer == AppendSample(samples, c.latency)
           N == Len(calls) + 1
           n == Len(samples)
<1>1. PICK taken \in [DOMAIN samples -> OfMethod(m, calls)] :
        TakenFrom(samples, m, calls, taken)
  BY DEF WindowFits
<1>2. OfMethod(m, more) = OfMethod(m, calls) \cup {N}
  BY OneMoreOfMethod
<1>3. /\ OfMethod(m, calls) \in SUBSET (1 .. N - 1) /\ N \in Nat
      /\ \A i \in 1 .. N - 1 : more[i] = calls[i]
      /\ more[N] = c
  BY FewCalls, OneCallMore
<1>4. n \in Nat /\ DOMAIN samples = 1 .. n /\ c.latency \in Latencies
  BY DEF Calls
<1> HIDE DEF more, N
<1>5. CASE n < MaxSamples
  <2> DEFINE then == [k \in 1 .. n + 1 |-> IF k = n + 1 THEN N ELSE taken[k]]
  <2>1. /\ Len(longer) = n + 1 /\ DOMAIN longer = 1 .. n + 1
        /\ \A k \in 1 .. n : longer[k] = samples[k]
        /\ longer[n + 1] = c.latency
    BY <1>4, <1>5 DEF AppendSample
  <2> HIDE DEF longer
  <2>2. then \in [DOMAIN longer -> OfMethod(m, more)]
    BY <1>2, <1>4, <2>1
  <2>3. \A k, l \in DOMAIN longer : k < l => then[k] < then[l]
    BY <1>1, <1>3, <1>4, <2>1 DEF TakenFrom
  <2>4. \A k \in DOMAIN longer : longer[k] = more[then[k]].latency
    BY <1>1, <1>3, <1>4, <2>1 DEF TakenFrom
  <2>5. \A i \in OfMethod(m, more) : \E k \in DOMAIN longer : then[k] = i
    BY <1>1, <1>2, <1>4, <1>5, <2>1 DEF TakenFrom
  <2>6. Len(longer) <= MaxSamples
    BY <1>5, <2>1, WindowAssumption
  <2> QED
    BY <2>2, <2>3, <2>4, <2>5, <2>6 DEF TakenFrom, WindowFits, more, longer
<1>6. CASE n >= MaxSamples
  <2> DEFINE then == [k \in 1 .. n |-> IF k = n THEN N ELSE taken[k + 1]]
  <2>1. n = MaxSamples /\ n >= 1
    BY <1>1, <1>4, <1>6, WindowAssumption DEF TakenFrom
  <2>2. /\ Len(longer) = n /\ DOMAIN longer = 1 .. n
        /\ \A k \in 1 .. n - 1 : longer[k] = samples[k + 1]
        /\ longer[n] = c.latency
    BY <1>4, <2>1 DEF AppendSample
  <2> HIDE DEF longer
  <2>3. then \in [DOMAIN longer -> OfMethod(m, more)]
    BY <1>2, <1>4, <2>2
  <2>4. \A k, l \in DOMAIN longer : k < l => then[k] < then[l]
    BY <1>1, <1>3, <1>4, <2>2 DEF TakenFrom
  <2>5. ASSUME NEW k \in DOMAIN longer PROVE longer[k] = more[then[k]].latency
    <3>1. CASE k = n
      BY <1>3, <2>2, <3>1
    <3>2. CASE k \in 1 .. n - 1
      <4>1. k + 1 \in DOMAIN samples /\ then[k] = taken[k + 1] /\ longer[k] = samples[k + 1]
        BY <1>4, <2>2, <3>2
      <4>2. samples[k + 1] = calls[taken[k + 1]].latency /\ taken[k + 1] \in 1 .. N - 1
        BY <1>1, <1>3, <4>1 DEF TakenFrom
      <4> HIDE DEF then
      <4> QED
        BY <1>3, <4>1, <4>2
    <3> QED
      BY <2>2, <3>1, <3>2
  <2>6. ASSUME NEW i \in OfMethod(m, more)
        PROVE  (\E k \in DOMAIN longer : then[k] = i) \/ i < then[1]
    <3>1. CASE i = N
      <4>1. n \in DOMAIN longer /\ then[n] = N
        BY <1>4, <2>1, <2>2
      <4> QED
        BY <3>1, <4>1
    <3>2. CASE i \in OfMethod(m, calls)
      <4>1. i \in Nat /\ i < N /\ taken[1] \in Nat /\ taken[1] < N
        BY <1>3, <1>4, <2>1, <3>2
      <4>2. taken[1] < then[1] /\ then[1] \in Nat
        <5>1. CASE n = 1
          BY <4>1, <5>1, <1>3
        <5>2. CASE 2 \in DOMAIN samples
          <6>1. 1 \in DOMAIN samples /\ then[1] = taken[2] /\ taken[1] < taken[2]
            <7>1. 1 \in DOMAIN samples /\ n # 1 /\ n >= 1
              BY <1>4, <5>2
            <7>2. then[1] = taken[2]
              BY <7>1
            <7>3. taken[1] < taken[2]
              <8> HIDE DEF n
              <8> QED
                BY <1>1, <5>2, <7>1 DEF TakenFrom
            <7> QED
              BY <7>1, <7>2, <7>3
          <6>2. taken[2] \in Nat
            BY <1>3, <5>2
          <6> HIDE DEF then
          <6> QED
            BY <6>1, <6>2
        <5> QED
          BY <1>4, <2>1, <5>1, <5>2
      <4>3. CASE i <= taken[1]
        <5> HIDE DEF then
        <5> QED
          BY <4>1, <4>2, <4>3
      <4>4. ASSUME NEW k \in DOMAIN samples, k # 1, taken[k] = i
            PROVE  k - 1 \in DOMAIN longer /\ then[k - 1] = i
        <5>1. k \in 2 .. n /\ k - 1 \in 1 .. n - 1
          BY <1>4, <4>4
        <5>2. k - 1 \in DOMAIN longer /\ k - 1 # n /\ (k - 1) + 1 = k
          BY <1>4, <2>2, <5>1
        <5>3. then[k - 1] = taken[(k - 1) + 1]
          BY <2>2, <5>2
        <5> QED
          BY <4>4, <5>2, <5>3
      <4>5. (\E k \in DOMAIN samples : taken[k] = i) \/ i < taken[1]
        BY <1>1, <3>2 DEF TakenFrom
      <4>6. CASE \E k \in DOMAIN samples : taken[k] = i /\ k # 1
        BY <4>4, <4>6
      <4> QED
        BY <4>1, <4>3, <4>5, <4>6
    <3> QED
      BY <1>2, <3>1, <3>2
  <2> QED
    BY <2>1, <2>2, <2>3, <2>4, <2>5, <2>6 DEF TakenFrom, WindowFits, more, longer
<1> QED
  BY <1>4, <1>5, <1>6, WindowAssumption

LEMMA WindowStays ==
  ASSUME NEW calls \in Seq(Calls), NEW c \in Calls, NEW m, NEW samples \in Seq(Latencies),
         WindowFits(samples, m, calls), c.method # m
  PROVE  WindowFits(samples, m, Append(calls, c))
<1>1. PICK taken \in [DOMAIN samples -> OfMethod(m, calls)] :
        TakenFrom(samples, m, calls, taken)
  BY DEF WindowFits
<1>2. OfMethod(m, Append(calls, c)) = OfMethod(m, calls)
  BY OneMoreOfMethod
<1>3. \A i \in OfMethod(m, calls) : Append(calls, c)[i] = calls[i]
  BY FewCalls, OneCallMore
<1>4. TakenFrom(samples, m, Append(calls, c), taken)
  BY <1>1, <1>2, <1>3 DEF TakenFrom
<1> QED
  BY <1>2, <1>4 DEF WindowFits

----------------------------------------------------------------------------
(* Reports *)

(* The samples are those of the newest calls, at most a window of them. *)
LEMMA WindowIsRecent ==
  ASSUME NEW calls \in Seq(Calls), NEW m, NEW samples \in Seq(Latencies),
         NEW taken \in [DOMAIN samples -> OfMethod(m, calls)],
         TakenFrom(samples, m, calls, taken)
  PROVE  /\ Recent(m, calls) = Values(taken, Len(samples))
         /\ Distinct(taken, Len(samples))
         /\ OfMethod(m, calls) # {} => samples # <<>>
<1> DEFINE n == Len(samples)
           Later(i) == {j \in OfMethod(m, calls) : j > i}
<1>1. n \in Nat /\ DOMAIN samples = 1 .. n
  OBVIOUS
<1>2. /\ OfMethod(m, calls) \in SUBSET (1 .. Len(calls)) /\ IsFiniteSet(OfMethod(m, calls))
      /\ Len(calls) \in Nat
  BY FewCalls
<1> HIDE DEF n
<1>3. /\ \A k \in 1 .. n : taken[k] \in OfMethod(m, calls) /\ taken[k] \in Nat
      /\ \A k, l \in 1 .. n : k < l => taken[k] < taken[l]
  <2>1. \A k \in 1 .. n : taken[k] \in OfMethod(m, calls)
    BY <1>1
  <2>2. \A k, l \in 1 .. n : k < l => taken[k] < taken[l]
    BY <1>1 DEF TakenFrom
  <2> QED
    BY <1>2, <2>1, <2>2
<1>4. Distinct(taken, n)
  BY <1>3 DEF Distinct
<1>5. IsFiniteSet(Values(taken, n)) /\ Cardinality(Values(taken, n)) = n
  <2>1. n \in 0 .. n /\ taken \in [1 .. n -> OfMethod(m, calls)]
    BY <1>1
  <2> QED
    BY <1>1, <1>4, <2>1, ValuesCount
<1>6. n <= MaxSamples /\ MaxSamples \in Nat \ {0}
  BY <1>1, WindowAssumption DEF TakenFrom, n
<1>7. \A i : IsFiniteSet(Later(i)) /\ Cardinality(Later(i)) \in Nat
  <2>1. \A i : Later(i) \in SUBSET OfMethod(m, calls)
    OBVIOUS
  <2> HIDE DEF Later
  <2>2. \A i : IsFiniteSet(Later(i))
    BY <1>2, <2>1, FS_Subset
  <2> QED
    BY <2>2, FS_CardinalityType
<1>8. ASSUME NEW k \in 1 .. n PROVE Cardinality(Later(taken[k])) < MaxSamples
  <2>1. ASSUME NEW j \in Later(taken[k]) PROVE j \in Values(taken, n) \ {taken[k]}
    <3>1. j \in Nat /\ j \in OfMethod(m, calls) /\ taken[k] < j
      BY <1>2, <2>1
    <3>2. ~(j < taken[1])
      <4>1. k = 1 \/ taken[1] < taken[k]
        BY <1>1, <1>3
      <4> QED
        BY <1>1, <1>3, <3>1, <4>1
    <3>3. \E l \in 1 .. n : taken[l] = j
      BY <1>1, <3>1, <3>2 DEF TakenFrom
    <3> QED
      BY <1>3, <3>1, <3>3 DEF Values
  <2>2. taken[k] \in Values(taken, n)
    BY DEF Values
  <2>3. /\ IsFiniteSet(Values(taken, n) \ {taken[k]})
        /\ Cardinality(Values(taken, n) \ {taken[k]}) = n - 1
    BY <1>5, <2>2, FS_RemoveElement
  <2>4. Later(taken[k]) \in SUBSET (Values(taken, n) \ {taken[k]})
    BY <2>1
  <2> HIDE DEF Later
  <2>5. Cardinality(Later(taken[k])) <= n - 1
    BY <2>3, <2>4, FS_Subset
  <2> QED
    BY <1>1, <1>6, <1>7, <2>5
<1>9. ASSUME NEW i \in OfMethod(m, calls), i \notin Values(taken, n)
      PROVE  ~(Cardinality(Later(i)) < MaxSamples)
  <2>1. n = MaxSamples /\ i < taken[1]
    BY <1>1, <1>9 DEF TakenFrom, Values, n
  <2>2. i \in Nat /\ 1 \in 1 .. n
    BY <1>1, <1>2, <1>6, <2>1
  <2>3. ASSUME NEW k \in 1 .. n PROVE taken[k] \in Later(i)
    <3>1. k = 1 \/ taken[1] < taken[k]
      BY <1>3, <2>2
    <3> QED
      BY <1>3, <2>1, <2>2, <3>1
  <2>4. Values(taken, n) \in SUBSET Later(i)
    BY <2>3 DEF Values
  <2> HIDE DEF Later
  <2>5. n <= Cardinality(Later(i))
    BY <1>5, <1>7, <2>4, FS_Subset
  <2> QED
    BY <1>1, <1>7, <2>1, <2>5
<1>10. Recent(m, calls) = Values(taken, n)
  <2>1. Recent(m, calls) = {i \in OfMethod(m, calls) : Cardinality(Later(i)) < MaxSamples}
    BY DEF Recent
  <2>2. Values(taken, n) \in SUBSET OfMethod(m, calls)
    BY <1>3 DEF Values
  <2>3. \A i \in Values(taken, n) : Cardinality(Later(i)) < MaxSamples
    BY <1>8 DEF Values
  <2> HIDE DEF Later
  <2> QED
    BY <1>9, <2>1, <2>2, <2>3
<1>11. ASSUME OfMethod(m, calls) # {}, samples = <<>> PROVE FALSE
  <2>1. n = 0
    BY <1>11 DEF n
  <2> QED
    BY <1>1, <1>6, <1>11, <2>1 DEF TakenFrom, n
<1> QED
  BY <1>4, <1>10, <1>11 DEF n

(* A report made of a copy describes the calls the copy was made of. *)
LEMMA ReportDescribes ==
  ASSUME NEW states \in [Methods -> MethodState], NEW calls \in Seq(Calls),
         IsCopyOf(states, calls)
  PROVE  /\ Describes(Report(states), calls)
         /\ Report(states) \in SUBSET Summaries
<1> DEFINE called == {m \in Methods : states[m].count > 0}
<1>1. ASSUME NEW m \in Methods
      PROVE  m \in called <=> OfMethod(m, calls) # {}
  <2>1. states[m].count = Cardinality(OfMethod(m, calls)) /\ states[m].count \in Nat
    BY DEF IsCopyOf, CountsFit, MethodState
  <2>2. IsFiniteSet(OfMethod(m, calls))
    BY FewCalls
  <2>3. Cardinality(OfMethod(m, calls)) = 0 <=> OfMethod(m, calls) = {}
    BY <2>2, FS_EmptySet
  <2> QED
    BY <2>1, <2>3
<1>2. ASSUME NEW m \in called
      PROVE  /\ IsPercentile(Percentile(states[m].samples), calls, Recent(m, calls))
             /\ Percentile(states[m].samples) \in Nat
  <2> DEFINE samples == states[m].samples
             n == Len(samples)
  <2>1. samples \in Seq(Latencies) /\ WindowFits(samples, m, calls)
    BY DEF IsCopyOf, MethodState
  <2>2. OfMethod(m, calls) # {}
    BY <1>1
  <2> HIDE DEF samples
  <2>3. PICK taken \in [DOMAIN samples -> OfMethod(m, calls)] :
          TakenFrom(samples, m, calls, taken)
    BY <2>1 DEF WindowFits
  <2>4. /\ Recent(m, calls) = Values(taken, n) /\ Distinct(taken, n)
        /\ samples # <<>>
    BY <2>1, <2>2, <2>3, WindowIsRecent
  <2>5. n \in Nat \ {0} /\ DOMAIN samples = 1 .. n /\ samples \in [1 .. n -> Nat]
    <3>1. Latencies \subseteq Nat
      BY WindowAssumption
    <3>2. n \in Nat \ {0} /\ samples \in [1 .. n -> Latencies]
      BY <2>1, <2>4
    <3> QED
      BY <3>1, <3>2
  <2>6. \A i \in 1 .. n : samples[i] = calls[taken[i]].latency
    BY <2>3, <2>5 DEF TakenFrom
  <2>7. taken \in [1 .. n -> Values(taken, n)]
    BY <2>3, <2>5 DEF Values
  <2> HIDE DEF n
  <2>8. Len(samples) = n
    BY DEF n
  <2>9. Values(taken, n) = Values(taken, n)
    OBVIOUS
  <2>10. /\ IsPercentile(Percentile(samples), calls, Values(taken, n))
         /\ Percentile(samples) \in Nat
    BY <2>4, <2>5, <2>6, <2>7, <2>8, <2>9, PercentileIs
  <2> QED
    BY <2>4, <2>10 DEF samples
<1>3. Report(states) = {Summary(m, states[m]) : m \in called}
  BY DEF Report
<1>4. {r.method : r \in Report(states)} = called
  <2>1. \A m : Summary(m, states[m]).method = m
    BY DEF Summary
  <2> HIDE DEF called
  <2> QED
    BY <1>3, <2>1
<1>5. called = {calls[i].method : i \in DOMAIN calls}
  <2>1. ASSUME NEW i \in DOMAIN calls PROVE calls[i].method \in Methods
    <3>1. calls[i] \in Calls
      OBVIOUS
    <3> QED
      BY <3>1 DEF Calls
  <2>2. \A m : OfMethod(m, calls) # {} <=> \E i \in DOMAIN calls : calls[i].method = m
    BY DEF OfMethod
  <2>3. \A m : m \in called => m \in Methods
    OBVIOUS
  <2> HIDE DEF called
  <2> QED
    BY <1>1, <2>1, <2>2, <2>3
<1>6. ASSUME NEW r \in Report(states)
      PROVE  /\ r.count = Cardinality(OfMethod(r.method, calls))
             /\ r.errors = Cardinality(FailedOf(r.method, calls))
             /\ IsPercentile(r.p95, calls, Recent(r.method, calls))
             /\ r \in Summaries
  <2>1. PICK m \in called : r = Summary(m, states[m])
    BY <1>3
  <2>2. /\ r = [method |-> m, count |-> states[m].count, errors |-> states[m].errors,
                p95 |-> Percentile(states[m].samples)]
        /\ states[m] \in MethodState /\ CountsFit(states[m], m, calls)
    BY <2>1 DEF Summary, IsCopyOf
  <2> QED
    BY <1>2, <2>2 DEF CountsFit, MethodState, Summaries
<1> QED
  BY <1>4, <1>5, <1>6 DEF Describes

----------------------------------------------------------------------------
(* The steps *)

(* What the types and the lock say of a handler that has it. *)
LEMMA HolderIs ==
  ASSUME WindowInv, NEW h \in Handlers, pc[h] \in {"count", "sample"}
  PROVE  /\ mutex = h /\ mutex # Nobody /\ call[h] \in Calls
         /\ Before \in Seq(Calls) /\ log = Append(Before, call[h])
         /\ \A g \in Handlers \ {h} : pc[g] \in {"idle", "lock"}
<1>1. mutex = h /\ mutex # Nobody /\ call[h] \in Calls
  BY WindowAssumption DEF WindowInv, LockFits
<1>2. log \in Seq(Calls) /\ log # <<>> /\ log[Len(log)] = call[h]
  BY <1>1 DEF WindowInv, LockFits, TypeOK
<1>3. Before \in Seq(Calls) /\ log = Append(Before, call[h])
  BY <1>2, LastCall DEF Before
<1> QED
  BY <1>1, <1>3 DEF WindowInv, LockFits, TypeOK

(* While nobody has it, all calls of the log are in the counters. *)
LEMMA FreeLock ==
  ASSUME WindowInv, mutex = Nobody
  PROVE  /\ Counted = log /\ Sampled = log
         /\ \A h \in Handlers : pc[h] \in {"idle", "lock"}
<1>1. \A h \in Handlers : mutex # h
  BY WindowAssumption
<1> QED
  BY <1>1 DEF WindowInv, LockFits, TypeOK, Counted, Sampled

(* A handler that starts or stops waiting for the lock. *)
LEMMA WaitingFinite ==
  /\ IsFiniteSet(Waiting) /\ Cardinality(Waiting) \in Nat
  /\ IsFiniteSet(Busy) /\ Cardinality(Busy) \in Nat
  /\ Cardinality(Waiting) <= Cardinality(Busy)
<1>1. Waiting \in SUBSET Busy /\ Busy \in SUBSET Handlers
  BY DEF Waiting, Busy
<1> QED
  BY <1>1, WindowAssumption, FS_Subset, FS_CardinalityType

(* The copy and the reports speak of calls that stay where they are. *)
LEMMA ReportsStay ==
  ASSUME WindowInv, UNCHANGED <<copied, reports>>,
         log' = log \/ \E c \in Calls : log' = Append(log, c)
  PROVE  CopyFits' /\ ReportsAreOfOneMoment'
<1>1. log \in Seq(Calls)
  BY DEF WindowInv, TypeOK
<1>2. ASSUME NEW n \in 0 .. Len(log)
      PROVE  n \in 0 .. Len(log') /\ SubSeq(log', 1, n) = SubSeq(log, 1, n)
  BY <1>1, <1>2, PrefixStays, OneCallMore
<1>3. CopyFits'
  <2>1. CASE copied = NoCopy
    BY <2>1 DEF CopyFits
  <2>2. CASE copied # NoCopy
    <3>1. PICK n \in 0 .. Len(log) : IsCopyOf(copied[1], SubSeq(log, 1, n))
      BY <2>2 DEF WindowInv, CopyFits
    <3>2. n \in 0 .. Len(log') /\ IsCopyOf(copied[1], SubSeq(log', 1, n))
      BY <1>2, <3>1
    <3>3. copied' = copied
      OBVIOUS
    <3> QED
      BY <2>2, <3>2, <3>3 DEF WindowInv, CopyFits, IsCopyOf, CountsFit, WindowFits
  <2> QED
    BY <2>1, <2>2
<1>4. ReportsAreOfOneMoment'
  <2>1. ASSUME NEW i \in 1 .. Len(reports)
        PROVE  \E n \in 0 .. Len(log') : Describes(reports[i], SubSeq(log', 1, n))
    BY <1>2, <2>1 DEF WindowInv, ReportsAreOfOneMoment
  <2>2. reports' = reports
    OBVIOUS
  <2> QED
    BY <2>1, <2>2 DEF ReportsAreOfOneMoment
<1> QED
  BY <1>3, <1>4

(* What the counters and windows describe bounds them. *)
LEMMA TypesFollow ==
  ASSUME WindowInv, StateFits', log' \in Seq(Calls), Len(log') <= MaxCalls,
         Counted' \in {log', Before'}, state' \in [Methods -> MethodState]
  PROVE  \A m \in Methods :
           /\ state'[m].errors <= state'[m].count /\ state'[m].count <= MaxCalls
           /\ Len(state'[m].samples) <= MaxSamples
<1> SUFFICES ASSUME NEW m \in Methods
             PROVE  /\ state'[m].errors <= state'[m].count /\ state'[m].count <= MaxCalls
                    /\ Len(state'[m].samples) <= MaxSamples
  OBVIOUS
<1>1. Counted' \in Seq(Calls) /\ Len(Counted') <= Len(log')
  <2>1. CASE Counted' = log'
    BY <2>1
  <2>2. CASE Counted' = Before' /\ log' # <<>>
    BY <2>2 DEF Before
  <2>3. CASE Counted' = Before' /\ log' = <<>>
    BY <2>3 DEF Before
  <2> QED
    BY <2>1, <2>2, <2>3
<1>2. CountsFit(state'[m], m, Counted')
  BY DEF StateFits, CountsFit
<1>3. /\ Cardinality(OfMethod(m, Counted')) \in 0 .. Len(Counted')
      /\ Cardinality(FailedOf(m, Counted')) \in 0 .. Cardinality(OfMethod(m, Counted'))
  BY <1>1, FewCalls
<1>4. Len(state'[m].samples) <= MaxSamples
  BY DEF StateFits, WindowFits, TakenFrom
<1> QED
  BY <1>1, <1>2, <1>3, <1>4, WindowAssumption DEF CountsFit

LEMMA InitEstablishes == Init => WindowInv
<1> SUFFICES ASSUME Init PROVE WindowInv
  OBVIOUS
<1>1. log = <<>> /\ log \in Seq(Calls) /\ Len(log) = 0 /\ mutex = Nobody
  BY DEF Init
<1>2. \A h \in Handlers : pc[h] = "idle" /\ call[h] = NoCall
  BY DEF Init
<1>3. Waiting = {} /\ Cardinality(Waiting) = 0
  BY <1>2, FS_EmptySet DEF Waiting
<1>4. \A m : OfMethod(m, log) = {} /\ FailedOf(m, log) = {}
  BY <1>1 DEF OfMethod, FailedOf
<1>5. Counted = log /\ Sampled = log
  BY <1>1, <1>2 DEF Counted, Sampled
<1>6. ASSUME NEW m \in Methods
      PROVE  CountsFit(state[m], m, log) /\ WindowFits(state[m].samples, m, log)
  <2>1. state[m] = [count |-> 0, errors |-> 0, samples |-> <<>>]
    BY DEF Init, Fresh
  <2>2. CountsFit(state[m], m, log)
    <3>1. Cardinality({}) = 0
      BY FS_EmptySet
    <3>2. state[m].count = 0 /\ state[m].errors = 0
      BY <2>1
    <3> QED
      BY <1>4, <3>1, <3>2 DEF CountsFit
  <2>3. state[m].samples = <<>>
    BY <2>1
  <2>4. TakenFrom(<<>>, m, log, <<>>) /\ <<>> \in [DOMAIN <<>> -> OfMethod(m, log)]
    BY <1>4, WindowAssumption DEF TakenFrom
  <2>5. WindowFits(<<>>, m, log)
    BY <2>4 DEF WindowFits
  <2> QED
    BY <2>2, <2>3, <2>5
<1>7. StateFits
  BY <1>5, <1>6 DEF StateFits
<1>8. TypeOK
  BY <1>1, WindowAssumption DEF Init, TypeOK, Fresh
<1>9. LockFits /\ CopyFits /\ BoundsFit /\ ReportsAreOfOneMoment
  BY <1>1, <1>2, <1>3, WindowAssumption
     DEF Init, LockFits, CopyFits, BoundsFit, ReportsAreOfOneMoment
<1> QED
  BY <1>7, <1>8, <1>9 DEF WindowInv

(* A handler begins to serve a call. *)
LEMMA ServeKeeps ==
  ASSUME WindowInv, NEW h \in Handlers, Serve(h)
  PROVE  WindowInv'
<1>1. /\ pc[h] = "idle" /\ pc' = [pc EXCEPT ![h] = "lock"]
      /\ Len(log) + Cardinality(Busy) < MaxCalls
      /\ UNCHANGED <<mutex, state, copied, reports, log>>
  BY DEF Serve, Goto
<1>2. PICK c \in Calls : call' = [call EXCEPT ![h] = c]
  BY DEF Serve
<1>3. /\ \A g \in Handlers : pc'[g] = "count" <=> pc[g] = "count"
      /\ \A g \in Handlers : pc'[g] = "sample" <=> pc[g] = "sample"
      /\ \A g \in Handlers \ {h} : pc'[g] = pc[g] /\ call'[g] = call[g]
      /\ pc'[h] = "lock" /\ call'[h] = c
  BY <1>1, <1>2 DEF WindowInv, TypeOK
<1>4. mutex # h
  BY <1>1 DEF WindowInv, LockFits
<1>5. TypeOK'
  BY <1>1, <1>2 DEF WindowInv, TypeOK
<1>6. LockFits'
  <2>1. mutex = Nobody \/ mutex \in Handlers \ {h}
    BY <1>4 DEF WindowInv, TypeOK
  <2> QED
    BY <1>1, <1>3, <2>1 DEF WindowInv, LockFits
<1>7. StateFits'
  <2>1. Counted' = Counted /\ Sampled' = Sampled
    BY <1>1, <1>3 DEF Counted, Sampled, Before
  <2> QED
    BY <1>1, <2>1 DEF WindowInv, StateFits, CountsFit, WindowFits
<1>8. BoundsFit'
  <2>1. Waiting' = Waiting \cup {h} /\ h \notin Waiting
    BY <1>1, <1>3 DEF Waiting
  <2>2. Cardinality(Waiting') = Cardinality(Waiting) + 1
    BY <2>1, WaitingFinite, FS_AddElement
  <2>3. Len(log) \in Nat
    BY DEF WindowInv, TypeOK
  <2> QED
    BY <1>1, <2>2, <2>3, WaitingFinite, WindowAssumption DEF WindowInv, BoundsFit
<1> QED
  BY <1>1, <1>5, <1>6, <1>7, <1>8, ReportsStay DEF WindowInv

(* A handler gets the lock: its call is the last of the log. *)
LEMMA LockKeeps ==
  ASSUME WindowInv, NEW h \in Handlers, Lock(h)
  PROVE  WindowInv'
<1>1. /\ pc[h] = "lock" /\ pc' = [pc EXCEPT ![h] = "count"]
      /\ mutex = Nobody /\ mutex' = h
      /\ log' = Append(log, call[h])
      /\ UNCHANGED <<call, state, copied, reports>>
  BY DEF Lock, Goto
<1>2. call[h] \in Calls /\ log \in Seq(Calls) /\ Len(log) \in Nat
  BY <1>1 DEF WindowInv, LockFits, TypeOK
<1>3. /\ \A g \in Handlers \ {h} : pc'[g] = pc[g] /\ pc[g] \in {"idle", "lock"}
      /\ pc'[h] = "count"
  BY <1>1, FreeLock DEF WindowInv, TypeOK
<1>4. log' \in Seq(Calls) /\ Len(log') = Len(log) + 1 /\ log'[Len(log')] = call[h]
  BY <1>1, <1>2, OneCallMore
<1>5. Before' = log
  <2>1. SubSeq(log', 1, Len(log)) = SubSeq(log, 1, Len(log))
    <3>1. Len(log) \in 0 .. Len(log)
      BY <1>2
    <3> QED
      BY <1>1, <1>2, <3>1, PrefixStays
  <2>2. Len(log') - 1 = Len(log)
    BY <1>2, <1>4
  <2> QED
    BY <1>2, <2>1, <2>2, WholeList DEF Before
<1>6. Waiting' = Waiting \ {h} /\ h \in Waiting
  BY <1>1, <1>3 DEF Waiting
<1>7. Cardinality(Waiting') = Cardinality(Waiting) - 1 /\ Cardinality(Waiting') \in Nat
  BY <1>6, WaitingFinite, FS_RemoveElement, FS_CardinalityType
<1>8. BoundsFit' /\ Len(log') <= MaxCalls
  BY <1>1, <1>2, <1>4, <1>7, WaitingFinite, WindowAssumption DEF WindowInv, BoundsFit
<1>9. LockFits'
  <2>1. \A g \in Handlers : pc'[g] \in {"count", "sample"} <=> mutex' = g
    BY <1>1, <1>3
  <2>2. \A g \in Handlers : pc'[g] # "idle" => call'[g] \in Calls
    BY <1>1, <1>2, <1>3 DEF WindowInv, LockFits
  <2>3. log' # <<>> /\ log'[Len(log')] = call'[mutex']
    BY <1>1, <1>2, <1>4
  <2> QED
    BY <2>1, <2>2, <2>3 DEF LockFits
<1>10. StateFits'
  <2>1. Counted' = log /\ Sampled' = log
    BY <1>1, <1>3, <1>5, WindowAssumption DEF Counted, Sampled
  <2>2. Counted = log /\ Sampled = log
    BY <1>1, FreeLock
  <2> QED
    BY <1>1, <2>1, <2>2 DEF WindowInv, StateFits, CountsFit, WindowFits
<1>11. TypeOK'
  BY <1>1, <1>4, <1>8 DEF WindowInv, TypeOK
<1> QED
  BY <1>1, <1>2, <1>8, <1>9, <1>10, <1>11, ReportsStay DEF WindowInv

(* The call is counted. *)
LEMMA CountKeeps ==
  ASSUME WindowInv, NEW h \in Handlers, Count(h)
  PROVE  WindowInv'
<1> DEFINE m == call[h].method
           counted == [state[m] EXCEPT !.count = @ + 1,
                                       !.errors = IF call[h].error THEN @ + 1 ELSE @]
<1>1. /\ pc[h] = "count" /\ pc' = [pc EXCEPT ![h] = "sample"]
      /\ UNCHANGED <<call, mutex, copied, reports, log>>
  BY DEF Count, Goto
<1>2. /\ mutex = h /\ mutex # Nobody /\ call[h] \in Calls
      /\ Before \in Seq(Calls) /\ log = Append(Before, call[h])
      /\ \A g \in Handlers \ {h} : pc[g] \in {"idle", "lock"}
  BY <1>1, HolderIs
<1>3. m \in Methods /\ state \in [Methods -> MethodState]
  BY <1>2 DEF Calls, WindowInv, TypeOK, MethodState
<1>4. state' = [state EXCEPT ![m] = counted]
  BY <1>3 DEF Count, MethodState
<1>5. /\ counted \in MethodState /\ counted.samples = state[m].samples
      /\ counted.count = state[m].count + 1
      /\ counted.errors = IF call[h].error THEN state[m].errors + 1 ELSE state[m].errors
  <2> DEFINE s == state[m]
             count == s.count + 1
             errors == IF call[h].error THEN s.errors + 1 ELSE s.errors
  <2>1. s \in MethodState
    BY <1>3
  <2> HIDE DEF s
  <2>2. count \in Nat /\ errors \in Nat
    BY <2>1 DEF MethodState
  <2> HIDE DEF count, errors
  <2>3. counted = [s EXCEPT !.count = count, !.errors = errors]
    BY <2>1 DEF s, count, errors, MethodState
  <2> HIDE DEF counted
  <2>4. /\ counted \in MethodState /\ counted.samples = s.samples
        /\ counted.count = count /\ counted.errors = errors
    BY <2>1, <2>2, <2>3 DEF MethodState
  <2> QED
    BY <2>4 DEF s, count, errors
<1> HIDE DEF counted
<1>6. /\ state' \in [Methods -> MethodState] /\ state'[m] = counted
      /\ \A k \in Methods \ {m} : state'[k] = state[k]
  BY <1>3, <1>4, <1>5
<1>7. /\ Counted = Before /\ Sampled = Before
      /\ Counted' = log /\ Sampled' = Before
  BY <1>1, <1>2 DEF Counted, Sampled, Before, WindowInv, TypeOK
<1>8. ASSUME NEW k \in Methods
      PROVE  CountsFit(state'[k], k, log) /\ WindowFits(state'[k].samples, k, Before)
  <2>1. CountsFit(state[k], k, Before) /\ WindowFits(state[k].samples, k, Before)
    BY <1>7 DEF WindowInv, StateFits
  <2>2. CASE k = m
    <3>1. CountsFit(counted, m, Append(Before, call[h]))
      BY <1>2, <1>3, <1>5, <2>1, <2>2, CountsMove DEF CountsFit
    <3> QED
      BY <1>2, <1>5, <1>6, <2>1, <2>2, <3>1
  <2>3. CASE k # m
    BY <1>2, <1>6, <2>1, <2>3, CountsStay
  <2> QED
    BY <2>2, <2>3
<1>9. StateFits'
  BY <1>7, <1>8 DEF StateFits, CountsFit, WindowFits
<1>10. LockFits'
  BY <1>1, <1>2 DEF WindowInv, LockFits, TypeOK
<1>11. BoundsFit'
  <2>1. Waiting' = Waiting
    BY <1>1 DEF Waiting, WindowInv, TypeOK
  <2> QED
    BY <1>1, <2>1 DEF WindowInv, BoundsFit
<1>12. TypeOK'
  <2>1. \A k \in Methods :
          /\ state'[k].errors <= state'[k].count /\ state'[k].count <= MaxCalls
          /\ Len(state'[k].samples) <= MaxSamples
    BY <1>1, <1>6, <1>7, <1>9, TypesFollow DEF WindowInv, TypeOK
  <2> QED
    BY <1>1, <1>6, <2>1 DEF WindowInv, TypeOK, MethodState
<1> QED
  BY <1>1, <1>9, <1>10, <1>11, <1>12, ReportsStay DEF WindowInv

(* Its latency enters the window, and the lock is given back. *)
LEMMA SampleKeeps ==
  ASSUME WindowInv, NEW h \in Handlers, Sample(h)
  PROVE  WindowInv'
<1> DEFINE m == call[h].method
           sampled == [state[m] EXCEPT !.samples = AppendSample(@, call[h].latency)]
<1>1. /\ pc[h] = "sample" /\ pc' = [pc EXCEPT ![h] = "idle"]
      /\ call' = [call EXCEPT ![h] = NoCall] /\ mutex' = Nobody
      /\ UNCHANGED <<copied, reports, log>>
  BY DEF Sample, Goto
<1>2. /\ mutex = h /\ mutex # Nobody /\ call[h] \in Calls
      /\ Before \in Seq(Calls) /\ log = Append(Before, call[h])
      /\ \A g \in Handlers \ {h} : pc[g] \in {"idle", "lock"}
  BY <1>1, HolderIs
<1>3. /\ m \in Methods /\ state \in [Methods -> MethodState]
      /\ call[h].latency \in Latencies
  BY <1>2 DEF Calls, WindowInv, TypeOK, MethodState
<1>4. state' = [state EXCEPT ![m] = sampled]
  BY <1>3 DEF Sample, MethodState
<1>5. /\ sampled \in MethodState
      /\ sampled.count = state[m].count /\ sampled.errors = state[m].errors
      /\ sampled.samples = AppendSample(state[m].samples, call[h].latency)
  <2> DEFINE s == state[m]
             longer == AppendSample(s.samples, call[h].latency)
  <2>1. s \in MethodState
    BY <1>3
  <2> HIDE DEF s
  <2>2. longer \in Seq(Latencies)
    <3>1. s.samples \in Seq(Latencies)
      BY <2>1 DEF MethodState
    <3> QED
      BY <1>3, <3>1, SamplesAre
  <2> HIDE DEF longer
  <2>3. sampled = [s EXCEPT !.samples = longer]
    BY DEF s, longer
  <2>4. /\ [s EXCEPT !.samples = longer] \in MethodState
        /\ [s EXCEPT !.samples = longer].count = s.count
        /\ [s EXCEPT !.samples = longer].errors = s.errors
        /\ [s EXCEPT !.samples = longer].samples = longer
    BY <2>1, <2>2 DEF MethodState
  <2> HIDE DEF sampled
  <2>5. /\ sampled \in MethodState /\ sampled.samples = longer
        /\ sampled.count = s.count /\ sampled.errors = s.errors
    BY <2>3, <2>4
  <2> QED
    BY <2>5 DEF s, longer
<1> HIDE DEF sampled
<1>6. /\ state' \in [Methods -> MethodState] /\ state'[m] = sampled
      /\ \A k \in Methods \ {m} : state'[k] = state[k]
  BY <1>3, <1>4, <1>5
<1>7. /\ Counted = log /\ Sampled = Before
      /\ Counted' = log /\ Sampled' = log
  BY <1>1, <1>2 DEF Counted, Sampled, Before, WindowInv, TypeOK
<1>8. ASSUME NEW k \in Methods
      PROVE  CountsFit(state'[k], k, log) /\ WindowFits(state'[k].samples, k, log)
  <2>1. CountsFit(state[k], k, log) /\ WindowFits(state[k].samples, k, Before)
    BY <1>7 DEF WindowInv, StateFits
  <2>2. state[k].samples \in Seq(Latencies)
    BY <1>3 DEF MethodState
  <2>3. CASE k = m
    <3>1. WindowFits(AppendSample(state[m].samples, call[h].latency), m, Append(Before, call[h]))
      BY <1>2, <2>1, <2>2, <2>3, WindowMoves
    <3>2. CountsFit(sampled, m, log)
      BY <1>5, <2>1, <2>3 DEF CountsFit
    <3> QED
      BY <1>2, <1>5, <1>6, <2>3, <3>1, <3>2
  <2>4. CASE k # m
    BY <1>2, <1>6, <2>1, <2>2, <2>4, WindowStays
  <2> QED
    BY <2>3, <2>4
<1>9. StateFits'
  BY <1>7, <1>8 DEF StateFits, CountsFit, WindowFits
<1>10. LockFits'
  BY <1>1, <1>2, WindowAssumption DEF WindowInv, LockFits, TypeOK
<1>11. BoundsFit'
  <2>1. Waiting' = Waiting
    BY <1>1 DEF Waiting, WindowInv, TypeOK
  <2> QED
    BY <1>1, <2>1 DEF WindowInv, BoundsFit
<1>12. TypeOK'
  <2>1. \A k \in Methods :
          /\ state'[k].errors <= state'[k].count /\ state'[k].count <= MaxCalls
          /\ Len(state'[k].samples) <= MaxSamples
    BY <1>1, <1>6, <1>7, <1>9, TypesFollow DEF WindowInv, TypeOK
  <2> QED
    BY <1>1, <1>6, <2>1 DEF WindowInv, TypeOK, MethodState
<1> QED
  BY <1>1, <1>9, <1>10, <1>11, <1>12, ReportsStay DEF WindowInv

(* The reporter copies what a free lock guards: all calls of the log. *)
LEMMA CopyKeeps ==
  ASSUME WindowInv, Copy
  PROVE  WindowInv'
<1>1. /\ Len(reports) < MaxReports /\ mutex = Nobody /\ copied' = <<state>>
      /\ UNCHANGED <<pc, call, mutex, state, reports, log>>
  BY DEF Copy
<1>2. Counted = log /\ Sampled = log /\ log \in Seq(Calls)
  BY <1>1, FreeLock DEF WindowInv, TypeOK
<1>3. IsCopyOf(state, SubSeq(log, 1, Len(log)))
  BY <1>2, WholeList DEF WindowInv, StateFits, IsCopyOf
<1>4. CopyFits'
  <2>1. Len(copied') = 1 /\ copied'[1] = state /\ state \in [Methods -> MethodState]
    BY <1>1 DEF WindowInv, TypeOK, MethodState
  <2>2. Len(log) \in 0 .. Len(log)
    BY <1>2
  <2>3. \E n \in 0 .. Len(log) : IsCopyOf(state, SubSeq(log, 1, n))
    BY <1>3, <2>2
  <2> QED
    BY <1>1, <2>1, <2>3 DEF CopyFits, IsCopyOf, CountsFit, WindowFits
<1>5. StateFits' /\ LockFits' /\ BoundsFit' /\ TypeOK' /\ ReportsAreOfOneMoment'
  BY <1>1 DEF WindowInv, StateFits, Counted, Sampled, Before, CountsFit, WindowFits,
     LockFits, BoundsFit, Waiting, TypeOK, ReportsAreOfOneMoment
<1> QED
  BY <1>4, <1>5 DEF WindowInv

(* The reporter computes from its copy, whatever is recorded meanwhile. *)
LEMMA EmitKeeps ==
  ASSUME WindowInv, Emit
  PROVE  WindowInv'
<1>1. /\ copied # NoCopy /\ copied' = NoCopy
      /\ reports' \in {reports, Append(reports, Report(copied[1]))}
      /\ UNCHANGED <<pc, call, mutex, state, log>>
  BY DEF Emit
<1>2. /\ copied[1] \in [Methods -> MethodState] /\ Len(reports) < MaxReports
      /\ reports \in Seq(SUBSET Summaries) /\ log \in Seq(Calls)
  BY <1>1 DEF WindowInv, CopyFits, BoundsFit, TypeOK
<1>3. PICK n \in 0 .. Len(log) : IsCopyOf(copied[1], SubSeq(log, 1, n))
  BY <1>1 DEF WindowInv, CopyFits
<1>4. /\ Describes(Report(copied[1]), SubSeq(log, 1, n))
      /\ Report(copied[1]) \in SUBSET Summaries
  BY <1>2, <1>3, PrefixIs, ReportDescribes
<1>5. reports' \in Seq(SUBSET Summaries) /\ Len(reports') <= MaxReports
  BY <1>1, <1>2, <1>4, WindowAssumption
<1>6. ASSUME NEW i \in 1 .. Len(reports')
      PROVE  \E k \in 0 .. Len(log) : Describes(reports'[i], SubSeq(log, 1, k))
  <2>1. CASE i \in 1 .. Len(reports) /\ reports'[i] = reports[i]
    BY <2>1 DEF WindowInv, ReportsAreOfOneMoment
  <2>2. CASE reports'[i] = Report(copied[1])
    BY <1>4, <2>2
  <2> QED
    BY <1>1, <1>2, <1>4, <2>1, <2>2
<1>7. ReportsAreOfOneMoment'
  BY <1>1, <1>6 DEF ReportsAreOfOneMoment
<1>8. CopyFits'
  BY <1>1 DEF CopyFits
<1>9. StateFits' /\ LockFits' /\ BoundsFit'
  BY <1>1 DEF WindowInv, StateFits, Counted, Sampled, Before, CountsFit, WindowFits,
     LockFits, BoundsFit, Waiting
<1>10. TypeOK'
  BY <1>1, <1>5 DEF WindowInv, TypeOK
<1> QED
  BY <1>7, <1>8, <1>9, <1>10 DEF WindowInv

----------------------------------------------------------------------------
(* Theorems *)

LEMMA NextKeeps == WindowInv /\ [Next]_vars => WindowInv'
<1> SUFFICES ASSUME WindowInv, [Next]_vars PROVE WindowInv'
  OBVIOUS
<1>1. CASE UNCHANGED vars
  <2>1. CopyFits' /\ ReportsAreOfOneMoment'
    BY <1>1, ReportsStay DEF vars
  <2> QED
    BY <1>1, <2>1 DEF vars, WindowInv, StateFits, Counted, Sampled, Before, CountsFit,
       WindowFits, LockFits, BoundsFit, Waiting, TypeOK
<1>2. CASE Copy
  BY <1>2, CopyKeeps
<1>3. CASE Emit
  BY <1>3, EmitKeeps
<1>4. ASSUME NEW h \in Handlers, Serve(h) \/ Lock(h) \/ Count(h) \/ Sample(h)
      PROVE  WindowInv'
  BY <1>4, ServeKeeps, LockKeeps, CountKeeps, SampleKeeps
<1> QED
  BY <1>1, <1>2, <1>3, <1>4 DEF Next

(* Counters, windows and the log stay within their types and bounds: whatever
   happens, a method never keeps more samples than the window holds. *)
THEOREM TypesHold == Spec => []TypeOK
<1>1. WindowInv => TypeOK
  BY DEF WindowInv
<1> QED
  BY <1>1, InitEstablishes, NextKeeps, PTL DEF Spec

(* Every report the backend logs describes the calls recorded until one moment,
   the same for all methods, although the reporter computes it after it has
   given the lock back and calls go on being recorded. *)
THEOREM ReportsDescribeOneMoment == Spec => []ReportsAreOfOneMoment
<1>1. WindowInv => ReportsAreOfOneMoment
  BY DEF WindowInv
<1> QED
  BY <1>1, InitEstablishes, NextKeeps, PTL DEF Spec
=============================================================================
