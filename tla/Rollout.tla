------------------------------- MODULE Rollout -------------------------------
(***************************************************************************)
(* From a container's command to a pod that serves.                        *)
(*                                                                         *)
(* Every container runs the migrations of the one database and then, when  *)
(* they have ended well, the program under pm2.  Several pods start at a   *)
(* time, and none waits for another.  MySQL commits a DDL statement by     *)
(* itself, so the row that records a migration is written after the        *)
(* migration is there for all to see, whatever transaction typeorm opens   *)
(* around the two; that CREATE TABLE fails on a table that exists, and the *)
(* ALTER TABLE of the second migration may be repeated.                    *)
(***************************************************************************)
EXTENDS Integers

CONSTANTS
  Pods,
  MaxRestarts,  \* max_restarts of pm2
  MaxCrashes    \* bound on the deaths of pods and programs

ASSUME RolloutAssumption ==
  /\ MaxRestarts \in Nat
  /\ MaxCrashes \in Nat

\* By their timestamps: CreateWalletTransactionEntity, commentnull.
Migrations == 1 .. 2

VARIABLES
  schema,    \* the migrations applied: 0 for no table, 2 for comments that may be NULL
  recorded,  \* the migrations in the migrations table
  stage,     \* of each pod
  pending,   \* the migrations a pod has yet to run
  restarts,  \* restarts of the program since it last was up for min_uptime
  crashes,   \* deaths so far
  torn       \* a pod died after CREATE TABLE and before it recorded it

database == <<schema, recorded>>
vars     == <<database, stage, pending, restarts, crashes, torn>>

\* The database is new, or has been migrated by an earlier release.
Init ==
  /\ schema \in 0 .. 2
  /\ recorded = 1 .. schema
  /\ stage = [p \in Pods |-> "down"]
  /\ pending = [p \in Pods |-> {}]
  /\ restarts = [p \in Pods |-> 0]
  /\ crashes = 0
  /\ torn = FALSE

Goes(p, from, to) ==
  /\ stage[p] = from
  /\ stage' = [stage EXCEPT ![p] = to]

-----------------------------------------------------------------------------
(***************************************************************************)
(* npm run migration:run                                                   *)
(***************************************************************************)
StartContainer(p) ==
  /\ Goes(p, "down", "loading")
  /\ UNCHANGED <<database, pending, restarts, crashes, torn>>

AfterMigrations(left) == IF left = {} THEN "migrated" ELSE "migrating"

LoadExecutedMigrations(p) ==
  /\ Goes(p, "loading", AfterMigrations(Migrations \ recorded))
  /\ pending' = [pending EXCEPT ![p] = Migrations \ recorded]
  /\ UNCHANGED <<database, restarts, crashes, torn>>

Current(p) == CHOOSE m \in pending[p] : \A n \in pending[p] : m <= n

\* Variant: a migration is recorded by the next run.
CreateTableUnrecorded(p) ==
  /\ Goes(p, "migrating", AfterMigrations(pending[p] \ {1}))
  /\ Current(p) = 1
  /\ schema = 0
  /\ schema' = 1
  /\ pending' = [pending EXCEPT ![p] = @ \ {1}]
  /\ UNCHANGED <<recorded, restarts, crashes, torn>>

CreateTable(p) ==
  /\ Goes(p, "migrating", "recording")
  /\ Current(p) = 1
  /\ schema = 0
  /\ schema' = 1
  /\ UNCHANGED <<recorded, pending, restarts, crashes, torn>>

\* Variant: the command goes on whatever migration:run has returned.
AfterFailure == "migrated"

\* The command ends, and with it the container.
AfterError == "down"

\* Another pod has created the table.
TableExists(p) ==
  /\ Goes(p, "migrating", AfterError)
  /\ Current(p) = 1
  /\ schema # 0
  /\ UNCHANGED <<database, pending, restarts, crashes, torn>>

AllowNullComments(p) ==
  /\ Goes(p, "migrating", "recording")
  /\ Current(p) = 2
  /\ schema' = 2
  /\ UNCHANGED <<recorded, pending, restarts, crashes, torn>>

\* The migration that has just been applied.
Done(p) == {Current(p)}

InsertExecutedMigration(p) ==
  /\ Goes(p, "recording", AfterMigrations(pending[p] \ Done(p)))
  /\ recorded' = recorded \cup Done(p)
  /\ pending' = [pending EXCEPT ![p] = @ \ Done(p)]
  /\ UNCHANGED <<schema, restarts, crashes, torn>>

-----------------------------------------------------------------------------
(***************************************************************************)
(* pm2-runtime start pm2.config.js                                         *)
(***************************************************************************)
StartProgram(p) ==
  /\ Goes(p, "migrated", "booting")
  /\ restarts' = [restarts EXCEPT ![p] = 0]
  /\ UNCHANGED <<database, pending, crashes, torn>>

\* The environment has every variable of the schema.
LoadConfig(p) ==
  /\ Goes(p, "booting", "configured")
  /\ UNCHANGED <<database, pending, restarts, crashes, torn>>

\* NestFactory.create: the database answers.  The tables are taken as they are:
\* synchronize is off.
CreateApp(p) ==
  /\ Goes(p, "configured", "created")
  /\ UNCHANGED <<database, pending, restarts, crashes, torn>>

\* Middleware, pipe, interceptor, documentation page, and the gRPC server.
StartMicroservices(p) ==
  /\ Goes(p, "created", "started")
  /\ UNCHANGED <<database, pending, restarts, crashes, torn>>

\* The HTTP port: probes are answered from now on.
Listen(p) ==
  /\ Goes(p, "started", "serving")
  /\ UNCHANGED <<database, pending, restarts, crashes, torn>>

Program == {"booting", "configured", "created", "started", "serving"}

\* Variant: a restart too many.
OnceMore(n) == n <= MaxRestarts

MayRestart(n) == n < MaxRestarts

\* Variant: pm2 stays without a program to run.
StaysUp == "stopped"

\* pm2-runtime ends, and with it the container.
AfterLastExit == "down"

\* The program exits.  pm2 starts it again, and gives up after MaxRestarts
\* times in a row that it was not up for min_uptime.
ProgramExits(p) ==
  /\ crashes < MaxCrashes
  /\ stage[p] \in Program
  /\ \E before \in {restarts[p]} \cup (IF stage[p] = "serving" THEN {0} ELSE {}) :
       IF MayRestart(before)
       THEN /\ stage' = [stage EXCEPT ![p] = "booting"]
            /\ restarts' = [restarts EXCEPT ![p] = before + 1]
       ELSE /\ stage' = [stage EXCEPT ![p] = AfterLastExit]
            /\ UNCHANGED restarts
  /\ crashes' = crashes + 1
  /\ UNCHANGED <<database, pending, torn>>

\* The pod is evicted, killed by its probe or scaled down, or migration:run
\* fails for another reason.
PodDies(p) ==
  /\ crashes < MaxCrashes
  /\ stage[p] # "down"
  /\ stage' = [stage EXCEPT ![p] = "down"]
  /\ torn' = (torn \/ (stage[p] = "recording" /\ Current(p) = 1))
  /\ crashes' = crashes + 1
  /\ UNCHANGED <<database, pending, restarts>>

-----------------------------------------------------------------------------
Advance(p) ==
  \/ StartContainer(p)
  \/ LoadExecutedMigrations(p)
  \/ CreateTable(p)
  \/ TableExists(p)
  \/ AllowNullComments(p)
  \/ InsertExecutedMigration(p)
  \/ StartProgram(p)
  \/ LoadConfig(p)
  \/ CreateApp(p)
  \/ StartMicroservices(p)
  \/ Listen(p)

Next == \E p \in Pods : Advance(p) \/ ProgramExits(p) \/ PodDies(p)

Spec == Init /\ [][Next]_vars

\* Kubernetes starts a container that has ended again; statements are answered
\* and programs are scheduled.  Nothing makes a pod die.
FairSpec == Spec /\ \A p \in Pods : WF_vars(Advance(p))

-----------------------------------------------------------------------------
(***************************************************************************)
(* Properties.                                                             *)
(***************************************************************************)
Stages == {"down", "loading", "migrating", "recording", "migrated"} \cup Program

\* Every variable has its type: pm2 restarts no program too often.
TypeOK ==
  /\ schema \in 0 .. 2
  /\ recorded \subseteq Migrations
  /\ stage \in [Pods -> Stages]
  /\ pending \in [Pods -> SUBSET Migrations]
  /\ restarts \in [Pods -> 0 .. MaxRestarts]
  /\ crashes \in 0 .. MaxCrashes
  /\ torn \in BOOLEAN

\* No program runs before the table has its last form, in which a charge may
\* leave its comments out, and before the migrations are on record, however the
\* migrations of the pods interleave and whichever of them die.
ServesOnMigratedSchema ==
  \A p \in Pods : stage[p] \in Program => schema = 2 /\ recorded = Migrations

\* What is on record has been applied: no pod skips a migration because of a
\* record that came before the statement.
RecordedIsApplied == \A m \in recorded : m <= schema

\* Pods that die any number of times, anywhere but in one place, are all serving
\* in the end; a pod that dies between CREATE TABLE and its record leaves a
\* database that no pod can migrate.
RolloutEnds == (<>[](\A p \in Pods : stage[p] = "serving")) \/ <>torn

\* No interleaving of pods that all go on leaves a table that is not on record
\* and that no pod is about to record, on which every migration:run fails.
Stuck == schema # 0 /\ 1 \notin recorded /\ \A p \in Pods : stage[p] # "recording"

StuckOnlyWhenTorn == Stuck => torn

\* The promise to whoever queries the database: pods that migrate it at the same
\* time, each by a list it has read before, make one history.
History == INSTANCE SchemaHistory WITH applied <- schema, Last <- 2

HistorySpec == History!Spec
=============================================================================
