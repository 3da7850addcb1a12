--------------------------- MODULE LatencyWindow ---------------------------
(***************************************************************************)
(* The RPC metrics of the backend: every finished call counts itself and    *)
(* puts its latency into a sliding window under a mutex, the reporter       *)
(* copies all of it under the mutex and computes afterwards, on its own.    *)
(* observability.server.ts keeps the same numbers on one thread.            *)
(***************************************************************************)
EXTENDS Naturals, Sequences, FiniteSets

CONSTANTS
  Handlers,    \* goroutines serving calls, one after the other
  Methods,
  Latencies,
  MaxSamples,  \* size of the window (512 in the code)
  Percent,     \* which percentile is reported (95 in the code)
  MaxCalls,    \* bound on calls
  MaxReports,  \* bound on reports
  Nobody

ASSUME WindowAssumption ==
  /\ IsFiniteSet(Handlers) /\ Nobody \notin Handlers
  /\ Latencies \subseteq Nat
  /\ MaxSamples \in Nat \ {0} /\ Percent \in 1 .. 100
  /\ MaxCalls \in Nat /\ MaxReports \in Nat

VARIABLES
  pc,       \* where each handler is
  call,     \* method, latency and outcome of its call
  mutex,    \* who holds the collector's lock
  state,    \* counters and samples of each method
  copied,   \* what the reporter copied
  reports,  \* the snapshots it logged
  log       \* for the properties: the calls in the order they got the lock

vars == <<pc, call, mutex, state, copied, reports, log>>

Calls == [method : Methods, latency : Latencies, error : BOOLEAN]

NoCall == [method |-> Nobody, latency |-> 0, error |-> FALSE]

Fresh == [count |-> 0, errors |-> 0, samples |-> <<>>]

NoCopy == <<>>

----------------------------------------------------------------------------
(* Windows and percentiles *)

\* Mutant of AppendSample: one sample too many.
AppendOneMore(samples, latency) ==
  IF Len(samples) <= MaxSamples THEN Append(samples, latency) ELSE Append(Tail(samples), latency)

AppendSample(samples, latency) ==
  IF Len(samples) < MaxSamples THEN Append(samples, latency) ELSE Append(Tail(samples), latency)

\* ceil(n * 0.95), from one; float rounding does not matter for 512 samples.
Rank(n) == (n * Percent + 99) \div 100

\* The ways to sort samples: each position gets the index of another sample.
Sortings(samples) ==
  {order \in [DOMAIN samples -> DOMAIN samples] :
     \A i, j \in DOMAIN samples :
       i < j => order[i] # order[j] /\ samples[order[i]] <= samples[order[j]]}

\* The sample at the rank once they are sorted; 0 without samples.
Percentile(samples) ==
  IF samples = <<>> THEN 0
  ELSE LET order == CHOOSE order \in Sortings(samples) : TRUE
       IN  samples[order[Rank(Len(samples))]]

----------------------------------------------------------------------------
(* Handlers *)

Init ==
  /\ pc = [h \in Handlers |-> "idle"]
  /\ call = [h \in Handlers |-> NoCall]
  /\ mutex = Nobody
  /\ state = [m \in Methods |-> Fresh]
  /\ copied = NoCopy
  /\ reports = <<>>
  /\ log = <<>>

Busy == {h \in Handlers : pc[h] # "idle"}

Goto(h, where) == pc' = [pc EXCEPT ![h] = where]

\* A call is served, for some time and with some outcome.
Serve(h) ==
  /\ pc[h] = "idle"
  /\ Len(log) + Cardinality(Busy) < MaxCalls
  /\ \E c \in Calls : call' = [call EXCEPT ![h] = c]
  /\ Goto(h, "lock")
  /\ UNCHANGED <<mutex, state, copied, reports, log>>

Lock(h) ==
  /\ pc[h] = "lock" /\ mutex = Nobody
  /\ mutex' = h
  /\ log' = Append(log, call[h])
  /\ Goto(h, "count")
  /\ UNCHANGED <<call, state, copied, reports>>

Count(h) ==
  LET m == call[h].method IN
  /\ pc[h] = "count"
  /\ state' = [state EXCEPT ![m].count = @ + 1,
                            ![m].errors = IF call[h].error THEN @ + 1 ELSE @]
  /\ Goto(h, "sample")
  /\ UNCHANGED <<call, mutex, copied, reports, log>>

\* Mutant of Sample: a failed call returns early, without a sample and with the
\* lock.
SampleUnlessFailed(h) ==
  LET m == call[h].method IN
  /\ pc[h] = "sample"
  /\ \/ call[h].error /\ UNCHANGED <<state, mutex>>
     \/ /\ ~call[h].error
        /\ state' = [state EXCEPT ![m].samples = AppendSample(@, call[h].latency)]
        /\ mutex' = Nobody
  /\ call' = [call EXCEPT ![h] = NoCall]
  /\ Goto(h, "idle")
  /\ UNCHANGED <<copied, reports, log>>

Sample(h) ==
  LET m == call[h].method IN
  /\ pc[h] = "sample"
  /\ state' = [state EXCEPT ![m].samples = AppendSample(@, call[h].latency)]
  /\ mutex' = Nobody
  /\ call' = [call EXCEPT ![h] = NoCall]
  /\ Goto(h, "idle")
  /\ UNCHANGED <<copied, reports, log>>

----------------------------------------------------------------------------
(* The reporter *)

\* Lock, copy, unlock: nobody can be in between.
Copy ==
  /\ copied = NoCopy /\ Len(reports) < MaxReports
  /\ mutex = Nobody
  /\ copied' = <<state>>
  /\ UNCHANGED <<pc, call, mutex, state, reports, log>>

Summary(m, s) ==
  [method |-> m, count |-> s.count, errors |-> s.errors, p95 |-> Percentile(s.samples)]

\* Methods that were never called have no entry; without any nothing is logged.
Report(states) == {Summary(m, states[m]) : m \in {k \in Methods : states[k].count > 0}}

\* Mutant of Emit: the samples are still those of the collector.
EmitLive ==
  /\ copied # NoCopy
  /\ reports' = Append(reports,
       Report([m \in Methods |-> [copied[1][m] EXCEPT !.samples = state[m].samples]]))
  /\ copied' = NoCopy
  /\ UNCHANGED <<pc, call, mutex, state, log>>

Emit ==
  /\ copied # NoCopy
  /\ reports' = IF Report(copied[1]) = {} THEN reports ELSE Append(reports, Report(copied[1]))
  /\ copied' = NoCopy
  /\ UNCHANGED <<pc, call, mutex, state, log>>

Next == Copy \/ Emit \/ \E h \in Handlers : Serve(h) \/ Lock(h) \/ Count(h) \/ Sample(h)

\* Goroutines run, and Go's mutex hands itself over to whoever waits too long.
Fairness ==
  /\ \A h \in Handlers : SF_vars(Lock(h)) /\ WF_vars(Count(h)) /\ WF_vars(Sample(h))
  /\ WF_vars(Emit)

Spec == Init /\ [][Next]_vars /\ Fairness

----------------------------------------------------------------------------
(* Properties *)

Summaries == [method : Methods, count : Nat, errors : Nat, p95 : Nat]

\* Every variable stays within its type; the memory for samples is bounded.
TypeOK ==
  /\ pc \in [Handlers -> {"idle", "lock", "count", "sample"}]
  /\ call \in [Handlers -> Calls \cup {NoCall}]
  /\ mutex \in Handlers \cup {Nobody}
  /\ state \in [Methods -> [count : Nat, errors : Nat, samples : Seq(Latencies)]]
  /\ \A m \in Methods :
       /\ state[m].errors <= state[m].count /\ state[m].count <= MaxCalls
       /\ Len(state[m].samples) <= MaxSamples
  /\ log \in Seq(Calls) /\ Len(log) <= MaxCalls
  /\ reports \in Seq(SUBSET Summaries) /\ Len(reports) <= MaxReports

\* Which of the calls were of a method, and which of these failed.
OfMethod(m, calls) == {i \in DOMAIN calls : calls[i].method = m}

FailedOf(m, calls) == {i \in OfMethod(m, calls) : calls[i].error}

\* The last calls of a method, at most a window of them.
Recent(m, calls) ==
  {i \in OfMethod(m, calls) : Cardinality({j \in OfMethod(m, calls) : j > i}) < MaxSamples}

\* Enough of some calls took at most x, too few took less.
IsPercentile(x, calls, some) ==
  /\ \E i \in some : calls[i].latency = x
  /\ 100 * Cardinality({i \in some : calls[i].latency <= x}) >= Percent * Cardinality(some)
  /\ 100 * Cardinality({i \in some : calls[i].latency < x}) < Percent * Cardinality(some)

Describes(report, calls) ==
  /\ {r.method : r \in report} = {calls[i].method : i \in DOMAIN calls}
  /\ \A r \in report :
       /\ r.count = Cardinality(OfMethod(r.method, calls))
       /\ r.errors = Cardinality(FailedOf(r.method, calls))
       /\ IsPercentile(r.p95, calls, Recent(r.method, calls))

\* Every report is what one moment looked like, for all methods together: the
\* counters and the percentile of the very calls recorded until then.
ReportsAreOfOneMoment ==
  \A i \in 1 .. Len(reports) :
    \E n \in 0 .. Len(log) : Describes(reports[i], SubSeq(log, 1, n))

\* Every served call is recorded, however many fight for the lock.
CallsAreRecorded == \A h \in Handlers : pc[h] = "lock" ~> pc[h] = "idle"
=============================================================================
