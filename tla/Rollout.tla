------------------------------ MODULE Rollout ------------------------------
(***************************************************************************)
(* How a release reaches an environment: deploy-fly.yml starts runs and     *)
(* queues them, deploy_production_fly.sh goes through migration files, backend and       *)
(* client, and apply_db_migrations.sh applies every file there is, each in  *)
(* a transaction, on every run.  A run may stop between any two steps.      *)
(*                                                                          *)
(* Releases are the pushes to main, numbered; a migration file has the      *)
(* number of the release that brought it.                                   *)
(***************************************************************************)
EXTENDS Naturals, FiniteSets, FiniteSetsExt

CONSTANTS
  MaxRelease,  \* bound on releases
  Adds,        \* releases that bring a migration file
  Bare,        \* files with a statement that fails on a schema that has it
  Statements,  \* statements per file
  ByHand,      \* what people tick for migrations when they start a run
  MaxStarting  \* bound on runs that have not come to the group

ASSUME RolloutAssumption ==
  /\ MaxRelease \in Nat /\ Adds \subseteq 1 .. MaxRelease
  /\ Bare \subseteq Adds
  /\ Statements \in Nat \ {0}
  /\ ByHand \subseteq BOOLEAN /\ MaxStarting \in Nat

\* Mutant of Files: every release is taken to have one.
FilesOfAllReleases(release) == 1 .. release

Files(release) == {f \in Adds : f <= release}

VARIABLES
  head,     \* the newest release on main
  starting, \* the runs whose resolve-staging-deploy-flags is under way
  queued,   \* the run waiting in the concurrency group
  run,      \* the run under way
  todo,     \* the migration files it still has to apply
  open,     \* statements executed in the transaction of the file it is at
  schema,   \* statements committed of each file
  backend,  \* release of the backend that serves
  client,   \* release of the client that serves
  overtaken, \* history: a run came to the group after a newer one
  failed    \* history: releases a run of which failed

deployed == <<backend, client>>
group == <<starting, queued, overtaken>>
vars == <<head, group, run, todo, open, schema, deployed, failed>>

NoRun == [release |-> 0, migrate |-> FALSE, step |-> "none"]

Init ==
  /\ head = 0
  /\ starting = {} /\ queued = NoRun /\ run = NoRun
  /\ overtaken = FALSE /\ failed = {}
  /\ todo = {} /\ open = 0
  /\ schema = [f \in Adds |-> 0]
  /\ backend = 0 /\ client = 0

----------------------------------------------------------------------------
(* deploy-fly.yml *)

\* A run begins with the job that resolves its flags, which is in no group.
Begin(release, migrate) ==
  /\ Cardinality(starting) < MaxStarting
  /\ starting' = starting \union
       {[release |-> release, migrate |-> migrate, step |-> "flags"]}

\* A push deploys, with migrations if it touches a file of them or a script
\* that applies them.
Push ==
  /\ head < MaxRelease
  /\ head' = head + 1
  /\ \E migrate \in {head' \in Adds, TRUE} : Begin(head', migrate)
  /\ UNCHANGED <<queued, run, todo, open, schema, deployed, overtaken, failed>>

\* Somebody starts a run by hand, at any ref and with migrations ticked or
\* not, or has an earlier run done again.
Dispatch ==
  /\ \E release \in 1 .. head, migrate \in ByHand : Begin(release, migrate)
  /\ UNCHANGED <<head, queued, run, todo, open, schema, deployed, overtaken, failed>>

\* A release that comes behind a newer one.
Overtaken(release) ==
  release < queued.release \/ release < run.release \/ release < backend

\* Mutant of Enqueue: whoever waits keeps the place.
EnqueueUnlessWaiting(r) ==
  /\ run # NoRun \/ queued = NoRun
  /\ starting' = starting \ {r}
  /\ queued' = IF queued # NoRun THEN queued ELSE [r EXCEPT !.step = "queued"]
  /\ overtaken' = (overtaken \/ Overtaken(r.release))
  /\ UNCHANGED <<head, run, todo, open, schema, deployed, failed>>

\* With its flags resolved a run comes to the group, which holds one run under
\* way and one that waits; whoever comes takes the place of the one that waits.
Enqueue(r) ==
  /\ run # NoRun \/ queued = NoRun
  /\ starting' = starting \ {r}
  /\ queued' = [r EXCEPT !.step = "queued"]
  /\ overtaken' = (overtaken \/ Overtaken(r.release))
  /\ UNCHANGED <<head, run, todo, open, schema, deployed, failed>>

\* Its flags are not resolved (the checkout fails, the runner dies).
Abandon(r) ==
  /\ starting' = starting \ {r}
  /\ failed' = failed \union {r.release}
  /\ UNCHANGED <<head, queued, run, todo, open, schema, deployed, overtaken>>

StartRun ==
  /\ run = NoRun /\ queued # NoRun
  /\ run' = [queued EXCEPT !.step = "preflight"]
  /\ queued' = NoRun
  /\ UNCHANGED <<head, starting, todo, open, schema, deployed, overtaken, failed>>

----------------------------------------------------------------------------
(* deploy_production_fly.sh *)

At(step) == run.step = step

GoOn(step) == run' = [run EXCEPT !.step = step]

Preflight ==
  /\ At("preflight")
  /\ \/ run.migrate /\ GoOn("migrate") /\ todo' = Files(run.release)
     \/ ~run.migrate /\ GoOn("backend") /\ UNCHANGED todo
  /\ UNCHANGED <<head, group, open, schema, deployed, failed>>

\* set -e: the first failure ends the run; psql -1 rolls back what is open.
EndRun == run' = NoRun /\ todo' = {} /\ open' = 0

Fail == EndRun /\ failed' = failed \union {run.release}

\* Mutant of ExecuteStatement: without -1 every statement commits by itself.
ExecuteAndCommit ==
  LET f == Min(todo) IN
  /\ At("migrate") /\ todo # {} /\ open < Statements
  /\ \/ f \in Bare /\ schema[f] > open /\ Fail /\ UNCHANGED schema
     \/ /\ ~(f \in Bare /\ schema[f] > open)
        /\ open' = open + 1
        /\ schema' = [schema EXCEPT ![f] = Max({@, open'})]
        /\ UNCHANGED <<run, todo, failed>>
  /\ UNCHANGED <<head, group, deployed>>

\* Mutant of ExecuteStatement: a file that fails is skipped.
ExecuteOrSkip ==
  LET f == Min(todo) IN
  /\ At("migrate") /\ todo # {} /\ open < Statements
  /\ \/ open' = open + 1 /\ UNCHANGED todo
     \/ todo' = todo \ {f} /\ open' = 0
  /\ UNCHANGED <<head, group, run, schema, deployed, failed>>

\* One statement of the next file.  IF NOT EXISTS makes most of them harmless
\* when the schema has them; a bare one fails then.
ExecuteStatement ==
  LET f == Min(todo) IN
  /\ At("migrate") /\ todo # {} /\ open < Statements
  /\ \/ f \in Bare /\ schema[f] > open /\ Fail
     \/ /\ ~(f \in Bare /\ schema[f] > open)
        /\ open' = open + 1
        /\ UNCHANGED <<run, todo, failed>>
  /\ UNCHANGED <<head, group, schema, deployed>>

CommitFile ==
  /\ At("migrate") /\ todo # {} /\ open = Statements
  /\ schema' = [schema EXCEPT ![Min(todo)] = Statements]
  /\ todo' = todo \ {Min(todo)}
  /\ open' = 0
  /\ UNCHANGED <<head, group, run, deployed, failed>>

Migrated ==
  /\ At("migrate") /\ todo = {}
  /\ GoOn("backend")
  /\ UNCHANGED <<head, group, todo, open, schema, deployed, failed>>

\* Mutant of DeployBackend: the client goes first.
DeployClientFirst ==
  /\ At("backend")
  /\ client' = run.release
  /\ GoOn("client")
  /\ UNCHANGED <<head, group, todo, open, schema, backend, failed>>

DeployBackend ==
  /\ At("backend")
  /\ backend' = run.release
  /\ GoOn("client")
  /\ UNCHANGED <<head, group, todo, open, schema, client, failed>>

DeployClient ==
  /\ At("client")
  /\ client' = run.release
  /\ GoOn("smoke")
  /\ UNCHANGED <<head, group, todo, open, schema, backend, failed>>

SmokeCheck ==
  /\ At("smoke")
  /\ EndRun
  /\ UNCHANGED <<head, group, schema, deployed, failed>>

\* A check fails, flyctl or psql lose their connection, the runner dies.
Stop ==
  /\ run # NoRun
  /\ Fail
  /\ UNCHANGED <<head, group, schema, deployed>>

Next ==
  \/ Push \/ Dispatch \/ StartRun
  \/ \E r \in starting : Enqueue(r) \/ Abandon(r)
  \/ Preflight \/ ExecuteStatement \/ CommitFile \/ Migrated
  \/ DeployBackend \/ DeployClient \/ SmokeCheck \/ Stop

Spec == Init /\ [][Next]_vars

----------------------------------------------------------------------------
(* Properties *)

Steps ==
  {"none", "flags", "queued", "preflight", "migrate", "backend", "client", "smoke"}

Runs == [release : 0 .. MaxRelease, migrate : BOOLEAN, step : Steps]

\* Every variable stays within its type, and what serves was once on main.
TypeOK ==
  /\ head \in 0 .. MaxRelease
  /\ starting \subseteq Runs /\ queued \in Runs /\ run \in Runs
  /\ todo \subseteq Adds /\ open \in 0 .. Statements
  /\ schema \in [Adds -> 0 .. Statements]
  /\ backend \in 0 .. head /\ client \in 0 .. head
  /\ overtaken \in BOOLEAN /\ failed \subseteq 1 .. head

\* Wherever a run stops, the schema is that of some release: every file is
\* there as a whole or not at all, and none without the ones before it.
SchemaIsOfARelease == \E r \in 0 .. MaxRelease :
  \A f \in Adds : schema[f] = (IF f \in Files(r) THEN Statements ELSE 0)

\* As long as no run came to the group after a newer one, a client never talks
\* to a backend older than itself, wherever runs stop.  (The backend of a run
\* of an older release serves under the newer client until its own does.)
ClientIsNotAhead == ~overtaken => client <= backend

Quiet == starting = {} /\ queued = NoRun /\ run = NoRun

\* production-operations.md:217, deploy-fly.yml:117: a push to main deploys to
\* staging.  Once nothing is under way any more, main is what serves, unless a
\* run of it failed or a run came to the group after a newer one (flags are
\* resolved outside it, so of two pushes the older one may come last, and
\* stays): runs that replace one another lose no release for good.
MainIsServed ==
  Quiet /\ ~overtaken /\ head \notin failed => backend = head /\ client = head

\* deploy_production_fly.sh:61-69: with migrations on, no backend of the run
\* serves before every file of its release is applied, whatever earlier runs
\* left undone.  (A run without migrations may skip what a stopped or replaced
\* run should have applied.)
MigrationsComeFirst ==
  run.migrate /\ run.step \in {"client", "smoke"} =>
    \A f \in Files(backend) : schema[f] = Statements
=============================================================================
