--------------------------- MODULE RolloutProofs ---------------------------
(***************************************************************************)
(* Schema, backend and client fit together wherever runs stop: for any      *)
(* number of releases, files, statements and runs, in whatever order they   *)
(* come; releases go forward as long as no run overtakes a newer one.       *)
(***************************************************************************)
EXTENDS Rollout, WellFoundedInduction, TLAPS

\* Every run is of a release of main.
ReleasesExist ==
  /\ \A r \in starting : r.release \in 1 .. head
  /\ queued # NoRun => queued.release \in 1 .. head
  /\ run # NoRun => run.release \in 1 .. head

\* Releases only go up: what serves, what is deployed, what waits.
ReleasesFit == ~overtaken =>
  /\ client <= backend
  /\ run # NoRun => backend <= run.release
  /\ queued # NoRun => backend <= queued.release /\ run.release <= queued.release

\* While no run of it failed, main serves or a run of it is under way.
HeadIsComing == ~overtaken /\ head \notin failed =>
  \/ head = 0
  \/ backend = head /\ client = head
  \/ \E r \in starting : r.release = head
  \/ queued.release = head
  \/ run.release = head

\* A run has deployed its backend when it comes to the client.
RunFits ==
  /\ run.step = "none" <=> run = NoRun
  /\ run.step \in {"client", "smoke"} => backend = run.release
  /\ run.step = "smoke" => client = run.release
  /\ run.step = "migrate" => run.migrate

\* With migrations, the files a run has left behind it are applied, and none is
\* left once it deploys.
Migrating == run.migrate /\ run.step \in {"migrate", "backend", "client", "smoke"}

FilesFit ==
  /\ run.step # "migrate" => todo = {}
  /\ \A f \in todo : f <= run.release
  /\ Migrating => \A f \in Files(run.release) : f \in todo \/ schema[f] = Statements

RolloutInv ==
  /\ TypeOK /\ ReleasesExist /\ ReleasesFit /\ HeadIsComing
  /\ RunFits /\ FilesFit /\ SchemaIsOfARelease

LEMMA MinIsFirst ==
  ASSUME NEW S \in SUBSET Nat, S # {}
  PROVE  Min(S) \in S /\ \A x \in S : Min(S) <= x
<1> DEFINE Less == {pair \in Nat \X Nat : pair[1] < pair[2]}
<1>1. IsWellFoundedOn(Less, Nat)
  BY NatLessThanWellFounded DEF OpToRel
<1>2. PICK x \in S : \A y \in S : ~(<<y, x>> \in Less)
  <2> HIDE DEF Less
  <2> QED
    BY <1>1, WFMin
<1>3. ASSUME NEW y \in S PROVE x <= y
  <2>1. y < x => <<y, x>> \in Less
    OBVIOUS
  <2> HIDE DEF Less
  <2> QED
    BY <1>2, <2>1
<1> QED
  BY <1>3 DEF Min

----------------------------------------------------------------------------
LEMMA NoRunIsOne == NoRun \in Runs
BY RolloutAssumption DEF NoRun, Runs, Steps

LEMMA InitFits == Init => RolloutInv
<1> SUFFICES ASSUME Init PROVE RolloutInv
  OBVIOUS
<1>1. TypeOK
  <2>1. overtaken \in BOOLEAN
    BY DEF Init
  <2>2. head \in 0 .. MaxRelease /\ backend \in 0 .. head /\ client \in 0 .. head
    BY RolloutAssumption DEF Init
  <2>3. /\ starting \subseteq Runs /\ queued \in Runs /\ run \in Runs
        /\ todo \subseteq Adds /\ failed \subseteq 1 .. head
    BY NoRunIsOne DEF Init
  <2>4. open \in 0 .. Statements /\ schema \in [Adds -> 0 .. Statements]
    BY RolloutAssumption DEF Init
  <2> QED
    BY <2>1, <2>2, <2>3, <2>4 DEF TypeOK
<1>2. 0 \in 0 .. MaxRelease /\ \A f \in Adds : f \notin Files(0)
  BY RolloutAssumption DEF Files
<1>3. \A f \in Adds : schema[f] = (IF f \in Files(0) THEN Statements ELSE 0)
  BY <1>2 DEF Init
<1>4. SchemaIsOfARelease
  BY <1>2, <1>3 DEF SchemaIsOfARelease
<1>5. ReleasesExist /\ ReleasesFit /\ HeadIsComing /\ RunFits /\ FilesFit
  BY DEF Init, ReleasesExist, ReleasesFit, HeadIsComing, RunFits, FilesFit, Migrating, NoRun
<1> QED
  BY <1>1, <1>4, <1>5 DEF RolloutInv

\* A run that begins is of a release there is; if it is of a new one, main is
\* coming with it.
LEMMA BeginKeeps ==
  ASSUME RolloutInv, Push \/ Dispatch
  PROVE  RolloutInv'
<1>1. UNCHANGED <<queued, run, todo, open, schema, backend, client, overtaken, failed>>
  BY DEF Push, Dispatch, deployed
<1>2. PICK release \in 1 .. head', migrate \in BOOLEAN :
        /\ head' \in 0 .. MaxRelease /\ head <= head'
        /\ head' = head \/ release = head'
        /\ starting' = starting \union
             {[release |-> release, migrate |-> migrate, step |-> "flags"]}
  <2>1. CASE Push
    <3>1. PICK migrate \in {head' \in Adds, TRUE} : Begin(head', migrate)
      BY <2>1 DEF Push
    <3>2. (head' \in Adds) \in BOOLEAN
      OBVIOUS
    <3>3. migrate \in BOOLEAN
      BY <3>2
    <3>4. head' \in 1 .. head' /\ head' \in 0 .. MaxRelease /\ head <= head'
      BY <2>1, RolloutAssumption DEF Push, RolloutInv, TypeOK
    <3> QED
      BY <3>1, <3>3, <3>4 DEF Begin
  <2>2. CASE Dispatch
    <3>1. PICK release \in 1 .. head, migrate \in ByHand : Begin(release, migrate)
      BY <2>2 DEF Dispatch
    <3>2. head' = head /\ migrate \in BOOLEAN /\ head \in 0 .. MaxRelease
      BY <2>2, RolloutAssumption DEF Dispatch, RolloutInv, TypeOK
    <3> QED
      BY <3>1, <3>2, RolloutAssumption DEF Begin
  <2> QED
    BY <2>1, <2>2
<1> DEFINE new == [release |-> release, migrate |-> migrate, step |-> "flags"]
<1>3. /\ new \in Runs /\ new.release = release /\ release \in 1 .. head'
      /\ starting' = starting \union {new}
  BY <1>2, RolloutAssumption DEF Runs, Steps, RolloutInv, TypeOK
<1> HIDE DEF new
<1>4. head \in Nat /\ head' \in 0 .. MaxRelease /\ head <= head'
  BY <1>2, RolloutAssumption DEF RolloutInv, TypeOK
<1>5. TypeOK'
  BY <1>1, <1>3, <1>4, RolloutAssumption DEF RolloutInv, TypeOK
<1>6. ReleasesExist'
  BY <1>1, <1>3, <1>4 DEF RolloutInv, ReleasesExist
<1>7. HeadIsComing'
  <2>1. CASE head' = head
    BY <1>1, <1>3, <2>1 DEF RolloutInv, HeadIsComing
  <2>2. CASE release = head'
    BY <1>3, <2>2 DEF HeadIsComing
  <2> QED
    BY <1>2, <2>1, <2>2
<1>8. ReleasesFit' /\ RunFits' /\ FilesFit' /\ SchemaIsOfARelease'
  BY <1>1 DEF RolloutInv, ReleasesFit, RunFits, FilesFit, Migrating, SchemaIsOfARelease
<1> QED
  BY <1>5, <1>6, <1>7, <1>8 DEF RolloutInv

\* Whoever comes to the group is either of the newest release there or overtaken.
LEMMA EnqueueKeeps ==
  ASSUME RolloutInv, NEW r \in starting, Enqueue(r)
  PROVE  RolloutInv'
<1>1. /\ starting' = starting \ {r} /\ queued' = [r EXCEPT !.step = "queued"]
      /\ overtaken' = (overtaken \/ Overtaken(r.release))
      /\ UNCHANGED <<head, run, todo, open, schema, backend, client, failed>>
  BY DEF Enqueue, deployed
<1>2. /\ queued' \in Runs /\ queued'.release = r.release
      /\ r.release \in 1 .. head /\ head \in 0 .. MaxRelease
  BY <1>1 DEF RolloutInv, TypeOK, ReleasesExist, Runs, Steps
<1>3. overtaken \in BOOLEAN /\ overtaken' \in BOOLEAN
  BY <1>1 DEF RolloutInv, TypeOK, Overtaken
<1>4. TypeOK'
  BY <1>1, <1>2, <1>3 DEF RolloutInv, TypeOK
<1>5. ReleasesExist'
  BY <1>1, <1>2 DEF RolloutInv, ReleasesExist
<1>6. queued.release \in Nat /\ run.release \in Nat /\ backend \in Nat /\ queued.release <= head
  BY RolloutAssumption DEF RolloutInv, TypeOK, Runs, ReleasesExist, NoRun
<1>7. ~overtaken' => /\ ~overtaken /\ queued.release <= r.release
                     /\ run.release <= r.release /\ backend <= r.release
  <2>1. overtaken' = (overtaken \/ r.release < queued.release \/ r.release < run.release
                               \/ r.release < backend)
    BY <1>1 DEF Overtaken
  <2>2. ~overtaken' => /\ ~overtaken /\ ~(r.release < queued.release)
                       /\ ~(r.release < run.release) /\ ~(r.release < backend)
    BY <2>1, Zenon
  <2>3. r.release \in Nat
    BY <1>2
  <2> QED
    BY <1>6, <2>2, <2>3
<1>8. ReleasesFit'
  BY <1>1, <1>2, <1>7 DEF RolloutInv, ReleasesFit
<1>9. HeadIsComing'
  <2> SUFFICES ASSUME ~overtaken', head' \notin failed', head # 0,
                      ~(backend = head /\ client = head), run.release # head
               PROVE  \/ \E q \in starting' : q.release = head
                      \/ queued'.release = head
    BY <1>1 DEF HeadIsComing
  <2>1. (\E q \in starting : q.release = head) \/ queued.release = head
    BY <1>1, <1>7 DEF RolloutInv, HeadIsComing
  <2>2. CASE queued.release = head
    BY <1>2, <1>6, <1>7, <2>2
  <2>3. CASE \E q \in starting : q.release = head
    BY <1>1, <1>2, <2>3
  <2> QED
    BY <2>1, <2>2, <2>3
<1>10. RunFits' /\ FilesFit' /\ SchemaIsOfARelease'
  BY <1>1 DEF RolloutInv, RunFits, FilesFit, Migrating, SchemaIsOfARelease
<1> QED
  BY <1>4, <1>5, <1>8, <1>9, <1>10 DEF RolloutInv

LEMMA AbandonKeeps ==
  ASSUME RolloutInv, NEW r \in starting, Abandon(r)
  PROVE  RolloutInv'
<1>1. /\ starting' = starting \ {r} /\ failed' = failed \union {r.release}
      /\ UNCHANGED <<head, queued, run, todo, open, schema, backend, client, overtaken>>
  BY DEF Abandon, deployed
<1>2. TypeOK' /\ ReleasesExist'
  BY <1>1 DEF RolloutInv, TypeOK, ReleasesExist
<1>3. HeadIsComing'
  BY <1>1 DEF RolloutInv, HeadIsComing
<1>4. ReleasesFit' /\ RunFits' /\ FilesFit' /\ SchemaIsOfARelease'
  BY <1>1 DEF RolloutInv, ReleasesFit, RunFits, FilesFit, Migrating, SchemaIsOfARelease
<1> QED
  BY <1>2, <1>3, <1>4 DEF RolloutInv

LEMMA StartRunKeeps ==
  ASSUME RolloutInv, StartRun
  PROVE  RolloutInv'
<1>1. /\ run = NoRun /\ queued # NoRun
      /\ run' = [queued EXCEPT !.step = "preflight"] /\ queued' = NoRun
      /\ UNCHANGED <<head, starting, todo, open, schema, backend, client, overtaken, failed>>
  BY DEF StartRun, deployed
<1>2. /\ run' \in Runs /\ run'.release = queued.release /\ run'.step = "preflight"
      /\ queued' \in Runs /\ run' # NoRun
  BY <1>1, RolloutAssumption DEF RolloutInv, TypeOK, Runs, Steps, NoRun
<1>3. TypeOK'
  BY <1>1, <1>2 DEF RolloutInv, TypeOK
<1>4. ReleasesExist' /\ ReleasesFit' /\ HeadIsComing'
  BY <1>1, <1>2 DEF RolloutInv, ReleasesExist, ReleasesFit, HeadIsComing, NoRun
<1>5. RunFits' /\ FilesFit' /\ SchemaIsOfARelease'
  BY <1>1, <1>2 DEF RolloutInv, RunFits, FilesFit, Migrating, SchemaIsOfARelease, NoRun
<1> QED
  BY <1>3, <1>4, <1>5 DEF RolloutInv

\* A run that goes on to another step stays the run it was.
LEMMA GoOnFrame ==
  ASSUME RolloutInv, NEW step \in Steps \ {"none"}, run # NoRun, GoOn(step)
  PROVE  /\ run' \in Runs /\ run' # NoRun /\ run'.step = step
         /\ run'.release = run.release /\ run'.migrate = run.migrate
BY DEF GoOn, RolloutInv, TypeOK, Runs, NoRun

\* As long as nothing is deployed, releases stand as they did.
LEMMA ReleasesFrame ==
  ASSUME RolloutInv, run' # NoRun, run # NoRun, run'.release = run.release,
         UNCHANGED <<head, group, deployed, failed>>
  PROVE  ReleasesExist' /\ ReleasesFit' /\ HeadIsComing'
BY DEF RolloutInv, ReleasesExist, ReleasesFit, HeadIsComing, group, deployed

LEMMA PreflightKeeps ==
  ASSUME RolloutInv, Preflight
  PROVE  RolloutInv'
<1>1. /\ run.step = "preflight" /\ run # NoRun
      /\ UNCHANGED <<head, group, open, schema, deployed, failed>>
  BY DEF Preflight, At, NoRun
<1>2. CASE run.migrate /\ GoOn("migrate") /\ todo' = Files(run.release)
  <2>1. /\ run' \in Runs /\ run' # NoRun /\ run'.step = "migrate"
        /\ run'.release = run.release /\ run'.migrate = run.migrate
    BY <1>1, <1>2, GoOnFrame DEF Steps
  <2>2. todo' \subseteq Adds
    BY <1>2 DEF Files
  <2>3. TypeOK' /\ RunFits' /\ SchemaIsOfARelease'
    BY <1>1, <1>2, <2>1, <2>2 DEF RolloutInv, TypeOK, RunFits, SchemaIsOfARelease, group, deployed
  <2>4. FilesFit'
    BY <1>2, <2>1 DEF FilesFit, Files
  <2> QED
    BY <1>1, <2>1, <2>3, <2>4, ReleasesFrame DEF RolloutInv
<1>3. CASE ~run.migrate /\ GoOn("backend") /\ UNCHANGED todo
  <2>1. /\ run' \in Runs /\ run' # NoRun /\ run'.step = "backend"
        /\ run'.release = run.release /\ run'.migrate = run.migrate
    BY <1>1, <1>3, GoOnFrame DEF Steps
  <2>2. TypeOK' /\ RunFits' /\ SchemaIsOfARelease' /\ FilesFit'
    BY <1>1, <1>3, <2>1 DEF RolloutInv, TypeOK, RunFits, SchemaIsOfARelease, FilesFit,
                            Migrating, group, deployed
  <2> QED
    BY <1>1, <2>1, <2>2, ReleasesFrame DEF RolloutInv
<1> QED
  BY <1>2, <1>3 DEF Preflight

\* Wherever a run ends, the transaction it has open leaves nothing behind; main
\* waits for it no longer when it failed or has deployed both.
LEMMA EndRunKeeps ==
  ASSUME RolloutInv, Fail \/ SmokeCheck, run # NoRun,
         UNCHANGED <<head, group, schema, deployed>>
  PROVE  RolloutInv'
<1>1. /\ run' = NoRun /\ todo' = {} /\ open' = 0
      /\ UNCHANGED <<head, starting, queued, overtaken, schema, backend, client>>
  BY DEF Fail, SmokeCheck, EndRun, group, deployed
<1>2. /\ run.release \in 1 .. head
      /\ failed' = failed \/ failed' = failed \union {run.release}
  BY DEF Fail, SmokeCheck, RolloutInv, ReleasesExist
<1>3. TypeOK'
  <2>1. overtaken' \in BOOLEAN
    BY <1>1 DEF RolloutInv, TypeOK
  <2>2. run' \in Runs /\ failed' \subseteq 1 .. head'
    BY <1>1, <1>2, NoRunIsOne DEF RolloutInv, TypeOK
  <2>3. /\ todo' \subseteq Adds /\ open' \in 0 .. Statements
        /\ head' \in 0 .. MaxRelease /\ backend' \in 0 .. head' /\ client' \in 0 .. head'
        /\ starting' \subseteq Runs /\ queued' \in Runs
        /\ schema' \in [Adds -> 0 .. Statements]
    BY <1>1, RolloutAssumption DEF RolloutInv, TypeOK
  <2> QED
    BY <2>1, <2>2, <2>3 DEF TypeOK
<1>4. HeadIsComing'
  <2>1. CASE Fail
    BY <1>1, <2>1 DEF Fail, RolloutInv, HeadIsComing
  <2>2. CASE SmokeCheck
    <3>1. backend = run.release /\ client = run.release /\ failed' = failed
      BY <2>2 DEF SmokeCheck, At, RolloutInv, RunFits
    <3> QED
      BY <1>1, <3>1 DEF RolloutInv, HeadIsComing
  <2> QED
    BY <2>1, <2>2
<1>5. ReleasesExist' /\ ReleasesFit'
  <2>1. queued # NoRun => 0 <= queued.release
    BY DEF RolloutInv, ReleasesExist
  <2> QED
    BY <1>1, <2>1 DEF RolloutInv, ReleasesExist, ReleasesFit, NoRun
<1>6. RunFits' /\ FilesFit' /\ SchemaIsOfARelease'
  BY <1>1 DEF RolloutInv, RunFits, FilesFit, Migrating, SchemaIsOfARelease, NoRun
<1> QED
  BY <1>3, <1>4, <1>5, <1>6 DEF RolloutInv

LEMMA ExecuteStatementKeeps ==
  ASSUME RolloutInv, ExecuteStatement
  PROVE  RolloutInv'
<1>1. run # NoRun
  BY DEF ExecuteStatement, At, NoRun
<1>2. CASE Fail
  BY <1>1, <1>2, EndRunKeeps DEF ExecuteStatement
<1>3. CASE open' = open + 1 /\ UNCHANGED <<run, todo, failed>>
  <2>1. /\ open < Statements
        /\ UNCHANGED <<head, group, run, todo, schema, deployed, failed>>
    BY <1>3 DEF ExecuteStatement
  <2>2. TypeOK'
    BY <1>3, <2>1, RolloutAssumption DEF RolloutInv, TypeOK, group, deployed
  <2>3. RunFits' /\ FilesFit' /\ SchemaIsOfARelease'
    BY <2>1 DEF RolloutInv, RunFits, FilesFit, Migrating, SchemaIsOfARelease, deployed
  <2> QED
    BY <1>1, <2>1, <2>2, <2>3, ReleasesFrame DEF RolloutInv
<1> QED
  BY <1>2, <1>3 DEF ExecuteStatement

\* The file committed is the first that was left: all before it are applied, and
\* if it was not, none after it is.
LEMMA CommitFileKeeps ==
  ASSUME RolloutInv, CommitFile
  PROVE  RolloutInv'
<1> DEFINE m == Min(todo)
<1>1. /\ run.step = "migrate" /\ todo # {}
      /\ schema' = [schema EXCEPT ![m] = Statements]
      /\ todo' = todo \ {m} /\ open' = 0
      /\ run # NoRun /\ UNCHANGED <<head, group, run, deployed, failed>>
  BY DEF CommitFile, At, NoRun
<1>2. todo \in SUBSET Nat /\ todo \subseteq Adds /\ Adds \subseteq 1 .. MaxRelease
  BY RolloutAssumption DEF RolloutInv, TypeOK
<1>3. m \in todo /\ \A f \in todo : m <= f
  BY <1>1, <1>2, MinIsFirst
<1> HIDE DEF m
<1>4. /\ schema \in [Adds -> 0 .. Statements] /\ m \in Adds
      /\ schema'[m] = Statements /\ \A f \in Adds : f # m => schema'[f] = schema[f]
  BY <1>1, <1>2, <1>3 DEF RolloutInv, TypeOK
<1>5. TypeOK'
  BY <1>1, <1>4, RolloutAssumption DEF RolloutInv, TypeOK, group, deployed
<1>6. RunFits' /\ ReleasesExist' /\ ReleasesFit' /\ HeadIsComing'
  BY <1>1, ReleasesFrame DEF RolloutInv, RunFits, deployed
<1>7. FilesFit'
  BY <1>1, <1>4 DEF RolloutInv, FilesFit, Migrating, Files
<1>8. \A f \in Files(run.release) : f < m => schema[f] = Statements
  BY <1>1, <1>2, <1>3 DEF RolloutInv, FilesFit, RunFits, Migrating, Files
<1>9. SchemaIsOfARelease'
  <2>1. PICK r \in 0 .. MaxRelease :
          \A f \in Adds : schema[f] = (IF f \in Files(r) THEN Statements ELSE 0)
    BY DEF RolloutInv, SchemaIsOfARelease
  <2>2. CASE m <= r
    <3>1. \A f \in Adds : schema'[f] = (IF f \in Files(r) THEN Statements ELSE 0)
      BY <1>4, <2>1, <2>2 DEF Files
    <3> QED
      BY <2>1, <3>1 DEF SchemaIsOfARelease, Files
  <2>3. CASE r < m
    <3>1. m \in 0 .. MaxRelease /\ m <= run.release
      BY <1>1, <1>2, <1>3, <1>4 DEF RolloutInv, FilesFit
    <3>2. \A f \in Adds : schema'[f] = (IF f \in Files(m) THEN Statements ELSE 0)
      <4> TAKE f \in Adds
      <4>1. f \in Nat /\ m \in Nat /\ r \in Nat /\ run.release \in Nat
        BY <1>2, <1>4, <2>1 DEF RolloutInv, TypeOK, Runs
      <4>2. CASE f < m
        BY <1>4, <1>8, <3>1, <4>1, <4>2 DEF Files
      <4>3. CASE f = m
        BY <1>4, <4>1, <4>3 DEF Files
      <4>4. CASE m < f
        BY <1>4, <2>1, <2>3, <4>1, <4>4 DEF Files
      <4> QED
        BY <4>1, <4>2, <4>3, <4>4
    <3> QED
      BY <3>1, <3>2 DEF SchemaIsOfARelease, Files
  <2> QED
    BY <1>2, <1>4, <2>1, <2>2, <2>3
<1> QED
  BY <1>5, <1>6, <1>7, <1>9 DEF RolloutInv

LEMMA MigratedKeeps ==
  ASSUME RolloutInv, Migrated
  PROVE  RolloutInv'
<1>1. /\ run.step = "migrate" /\ run # NoRun /\ todo = {} /\ GoOn("backend")
      /\ UNCHANGED <<head, group, todo, open, schema, deployed, failed>>
  BY DEF Migrated, At, NoRun
<1>2. /\ run' \in Runs /\ run' # NoRun /\ run'.step = "backend"
      /\ run'.release = run.release /\ run'.migrate = run.migrate
  BY <1>1, GoOnFrame DEF Steps
<1>3. TypeOK' /\ RunFits' /\ SchemaIsOfARelease'
  BY <1>1, <1>2 DEF RolloutInv, TypeOK, RunFits, SchemaIsOfARelease, group, deployed
<1>4. FilesFit'
  BY <1>1, <1>2 DEF RolloutInv, FilesFit, Migrating
<1> QED
  BY <1>1, <1>2, <1>3, <1>4, ReleasesFrame DEF RolloutInv

\* A run that deploys is of no older release than what serves, unless overtaken.
LEMMA DeployKeeps ==
  ASSUME RolloutInv, DeployBackend \/ DeployClient
  PROVE  RolloutInv'
<1>1. /\ run # NoRun /\ run.step \in {"backend", "client"}
      /\ UNCHANGED <<head, group, todo, open, schema, failed>>
      /\ GoOn("client") \/ GoOn("smoke")
  BY DEF DeployBackend, DeployClient, At, NoRun
<1>2. /\ run' \in Runs /\ run' # NoRun /\ run'.step \in {"client", "smoke"}
      /\ run'.release = run.release /\ run'.migrate = run.migrate
  BY <1>1, GoOnFrame DEF Steps
<1>3. /\ backend' = run.release /\ client' \in {client, run.release}
      /\ run'.step = "smoke" => client' = run.release
  BY <1>1, GoOnFrame DEF DeployBackend, DeployClient, At, RolloutInv, RunFits, GoOn, Steps
<1>4. /\ run.release \in 1 .. head /\ backend \in Nat /\ client \in Nat /\ head \in Nat
      /\ head \in 0 .. MaxRelease
  BY <1>1, RolloutAssumption DEF RolloutInv, TypeOK, ReleasesExist
<1>5. ReleasesExist'
  BY <1>1, <1>2 DEF RolloutInv, ReleasesExist, group
<1>6. ReleasesFit'
  <2> SUFFICES ASSUME ~overtaken' PROVE
        /\ client' <= backend' /\ backend' <= run'.release
        /\ queued' # NoRun =>
             backend' <= queued'.release /\ run'.release <= queued'.release
    BY DEF ReleasesFit
  <2>1. /\ client <= backend /\ backend <= run.release
        /\ queued # NoRun => run.release <= queued.release
    BY <1>1 DEF RolloutInv, ReleasesFit, group
  <2> QED
    BY <1>1, <1>2, <1>3, <1>4, <2>1 DEF group
<1>7. HeadIsComing'
  <2> SUFFICES ASSUME ~overtaken, head \notin failed, head # 0
               PROVE  \/ backend' = head /\ client' = head
                      \/ \E r \in starting : r.release = head
                      \/ queued.release = head
                      \/ run.release = head
    BY <1>1, <1>2 DEF HeadIsComing, group
  <2>1. backend <= run.release
    BY <1>1 DEF RolloutInv, ReleasesFit
  <2>2. backend = head => run.release = head
    BY <1>4, <2>1
  <2> QED
    BY <2>2 DEF RolloutInv, HeadIsComing
<1>8. TypeOK'
  BY <1>1, <1>2, <1>3, <1>4 DEF RolloutInv, TypeOK, group
<1>9. RunFits' /\ FilesFit' /\ SchemaIsOfARelease'
  BY <1>1, <1>2, <1>3 DEF RolloutInv, RunFits, FilesFit, Migrating, SchemaIsOfARelease, NoRun
<1> QED
  BY <1>5, <1>6, <1>7, <1>8, <1>9 DEF RolloutInv

LEMMA NextFits == RolloutInv /\ [Next]_vars => RolloutInv'
<1> SUFFICES ASSUME RolloutInv, [Next]_vars PROVE RolloutInv'
  OBVIOUS
<1>1. CASE Push \/ Dispatch
  BY <1>1, BeginKeeps
<1>2. CASE StartRun
  BY <1>2, StartRunKeeps
<1>3. CASE Preflight
  BY <1>3, PreflightKeeps
<1>4. CASE ExecuteStatement
  BY <1>4, ExecuteStatementKeeps
<1>5. CASE CommitFile
  BY <1>5, CommitFileKeeps
<1>6. CASE Migrated
  BY <1>6, MigratedKeeps
<1>7. CASE DeployBackend \/ DeployClient
  BY <1>7, DeployKeeps
<1>8. CASE SmokeCheck \/ Stop
  <2>1. run # NoRun /\ UNCHANGED <<head, group, schema, deployed>> /\ (Fail \/ SmokeCheck)
    BY <1>8 DEF SmokeCheck, Stop, At, NoRun
  <2> QED
    BY <2>1, EndRunKeeps
<1>9. ASSUME NEW r \in starting, Enqueue(r) \/ Abandon(r) PROVE RolloutInv'
  BY <1>9, EnqueueKeeps, AbandonKeeps
<1>10. CASE UNCHANGED vars
  BY <1>10 DEF vars, group, deployed, RolloutInv, TypeOK, ReleasesExist, ReleasesFit, HeadIsComing,
               RunFits, FilesFit, Migrating, SchemaIsOfARelease
<1> QED
  BY <1>1, <1>2, <1>3, <1>4, <1>5, <1>6, <1>7, <1>8, <1>9, <1>10 DEF Next

LEMMA AlwaysFits == Spec => []RolloutInv
BY InitFits, NextFits, PTL DEF Spec

(* What serves was on main, and a run has a release and a step (deploy-fly.yml). *)
THEOREM TypesHold == Spec => []TypeOK
<1>1. RolloutInv => TypeOK
  BY DEF RolloutInv
<1> QED
  BY <1>1, AlwaysFits, PTL

(* Wherever a run stops, and however often files are applied again, the schema
   is that of some release (apply_db_migrations.sh, psql -1). *)
THEOREM SchemaStaysOfARelease == Spec => []SchemaIsOfARelease
<1>1. RolloutInv => SchemaIsOfARelease
  BY DEF RolloutInv
<1> QED
  BY <1>1, AlwaysFits, PTL

(* As long as no run comes to the group after a newer one, the client that
   serves is never newer than the backend (deploy_production_fly.sh, backend
   before client), whatever is replaced or stopped. *)
THEOREM ClientStaysBehind == Spec => []ClientIsNotAhead
<1>1. RolloutInv => ClientIsNotAhead
  BY DEF RolloutInv, ReleasesFit, ClientIsNotAhead
<1> QED
  BY <1>1, AlwaysFits, PTL

(* With nothing under way, what serves is main, unless a run of it failed or a
   run came to the group after a newer one (deploy-fly.yml, concurrency). *)
THEOREM MainComesToServe == Spec => []MainIsServed
<1>1. ASSUME RolloutInv, Quiet, ~overtaken, head \notin failed
      PROVE  backend = head /\ client = head
  <2>1. starting = {} /\ queued.release = 0 /\ run.release = 0
    BY <1>1 DEF Quiet, NoRun
  <2>2. head \in Nat /\ backend \in 0 .. head /\ client \in 0 .. head
    BY <1>1, RolloutAssumption DEF RolloutInv, TypeOK
  <2> QED
    BY <1>1, <2>1, <2>2 DEF RolloutInv, HeadIsComing
<1>2. RolloutInv => MainIsServed
  BY <1>1 DEF MainIsServed
<1> QED
  BY <1>2, AlwaysFits, PTL

(* A run with migrations has applied every file of its release when its backend
   serves (deploy_production_fly.sh:61-69). *)
THEOREM BackendsFindTheirSchema == Spec => []MigrationsComeFirst
<1>1. RolloutInv => MigrationsComeFirst
  BY DEF RolloutInv, RunFits, FilesFit, Migrating, MigrationsComeFirst
<1> QED
  BY <1>1, AlwaysFits, PTL
=============================================================================
