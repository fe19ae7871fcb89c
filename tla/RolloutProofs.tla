--------------------------- MODULE RolloutProofs ---------------------------
(***************************************************************************)
(* What holds of a rollout for any number of pods, restarts and crashes.   *)
(*                                                                         *)
(* What a pod has yet to run was read from the table when it started, and  *)
(* may be stale: the invariant says what of it the pod may still rely on.  *)
(***************************************************************************)
EXTENDS Rollout, TLAPS

\* A pod with migrations to run has the last one to run, and has found the
\* first one on record if it does not have that one to run.
PendingIsPlausible ==
  \A p \in Pods : stage[p] \in {"migrating", "recording"} =>
    /\ pending[p] = {1, 2} \/ pending[p] = {2}
    /\ pending[p] = {2} => 1 \in recorded

\* What is about to be recorded has been applied.
RecordingIsApplied ==
  \A p \in Pods : stage[p] = "recording" =>
    schema >= 1 /\ (pending[p] = {2} => schema = 2)

PastMigrations ==
  \A p \in Pods : stage[p] \in {"migrated"} \cup Program => schema = 2 /\ recorded = Migrations

\* A table that is not on record is about to be, unless its creator has died.
TableHasCreator ==
  schema # 0 /\ 1 \notin recorded =>
    torn \/ \E p \in Pods : stage[p] = "recording" /\ pending[p] = {1, 2}

RolloutInv ==
  /\ TypeOK
  /\ RecordedIsApplied
  /\ 2 \in recorded => 1 \in recorded
  /\ PendingIsPlausible
  /\ RecordingIsApplied
  /\ PastMigrations
  /\ TableHasCreator

-----------------------------------------------------------------------------
(* Migrations run in the order of their timestamps.                        *)
LEMMA CurrentIsFirst ==
  ASSUME NEW p \in Pods
  PROVE  /\ pending[p] = {1, 2} => Current(p) = 1
         /\ pending[p] = {2} => Current(p) = 2
<1>1. ASSUME pending[p] = {1, 2} PROVE Current(p) = 1
  <2>1. \E m \in pending[p] : \A n \in pending[p] : m <= n  BY <1>1
  <2>2. Current(p) \in {1, 2} /\ Current(p) <= 1  BY <1>1, <2>1 DEF Current
  <2> QED BY <2>2
<1>2. ASSUME pending[p] = {2} PROVE Current(p) = 2
  <2>1. \E m \in pending[p] : \A n \in pending[p] : m <= n  BY <1>2
  <2> QED BY <1>2, <2>1 DEF Current
<1> QED BY <1>1, <1>2

LEMMA RolloutInit == ASSUME Init PROVE RolloutInv
<1>1. schema \in 0 .. 2 /\ recorded = 1 .. schema  BY DEF Init
<1>2. recorded \subseteq Migrations /\ RecordedIsApplied /\ (2 \in recorded => 1 \in recorded)
  BY <1>1 DEF Migrations, RecordedIsApplied
<1>3. TypeOK
  <2>1. stage \in [Pods -> Stages] /\ pending \in [Pods -> SUBSET Migrations]
    BY DEF Init, Stages
  <2>2. 0 \in 0 .. MaxRestarts /\ 0 \in 0 .. MaxCrashes
    BY RolloutAssumption
  <2>3. restarts \in [Pods -> 0 .. MaxRestarts] /\ crashes \in 0 .. MaxCrashes /\ torn \in BOOLEAN
    BY <2>2 DEF Init
  <2> QED BY <1>1, <1>2, <2>1, <2>3 DEF TypeOK
<1>4. TableHasCreator  BY <1>1 DEF TableHasCreator
<1>5. PendingIsPlausible /\ RecordingIsApplied /\ PastMigrations
  BY DEF Init, PendingIsPlausible, RecordingIsApplied, PastMigrations, Program
<1> QED BY <1>2, <1>3, <1>4, <1>5 DEF RolloutInv

\* The steps that change neither the database nor what pods have to run, and
\* bring a pod to a stage where it relies on no more than before.
Quiet(p, to) ==
  /\ stage' = [stage EXCEPT ![p] = to]
  /\ \/ to \in {"down", "loading"}
     \/ to \in Program /\ stage[p] \in {"migrated"} \cup Program
  /\ stage[p] = "recording" /\ pending[p] = {1, 2} => torn'
  /\ torn => torn'
  /\ UNCHANGED <<schema, recorded, pending>>

LEMMA QuietSteps ==
  ASSUME RolloutInv, TypeOK', NEW p \in Pods, NEW to, Quiet(p, to)
  PROVE  RolloutInv'
<1> USE DEF RolloutInv, Quiet, TypeOK, Program
<1>1. RecordedIsApplied' /\ (2 \in recorded' => 1 \in recorded')
  BY DEF RecordedIsApplied
<1>2. PendingIsPlausible'  BY DEF PendingIsPlausible
<1>3. RecordingIsApplied'  BY DEF RecordingIsApplied
<1>4. PastMigrations'  BY DEF PastMigrations
<1>5. TableHasCreator'  BY DEF TableHasCreator
<1> QED BY <1>1, <1>2, <1>3, <1>4, <1>5

LEMMA RolloutNext == ASSUME RolloutInv, [Next]_vars PROVE RolloutInv'
<1> USE DEF RolloutInv, TypeOK, Goes, database
<1>1. ASSUME NEW p \in Pods, StartContainer(p) PROVE RolloutInv'
  <2>1. TypeOK' /\ Quiet(p, "loading")
    BY <1>1 DEF StartContainer, Quiet, Stages
  <2> QED BY <2>1, QuietSteps
<1>2. ASSUME NEW p \in Pods, LoadExecutedMigrations(p) PROVE RolloutInv'
  <2>1. \/ recorded = {} /\ pending'[p] = {1, 2} /\ stage'[p] = "migrating"
        \/ recorded = {1} /\ pending'[p] = {2} /\ stage'[p] = "migrating"
        \/ recorded = {1, 2} /\ stage'[p] = "migrated" /\ schema = 2
    <3>1. recorded = {} \/ recorded = {1} \/ recorded = {1, 2}
      <4>1. \A m \in recorded : m = 1 \/ m = 2  BY DEF Migrations
      <4> QED BY <4>1
    <3>2. Migrations = {1, 2}  BY DEF Migrations
    <3>3. /\ pending'[p] = {1, 2} \ recorded
          /\ stage'[p] = AfterMigrations({1, 2} \ recorded)
      BY <1>2, <3>2 DEF LoadExecutedMigrations
    <3>4. 2 \in recorded => schema = 2
      BY DEF RecordedIsApplied
    <3>5. CASE recorded = {}
      <4>1. {1, 2} \ recorded = {1, 2}  BY <3>5
      <4> QED BY <3>3, <3>5, <4>1 DEF AfterMigrations
    <3>6. CASE recorded = {1}
      <4>1. {1, 2} \ recorded = {2}  BY <3>6
      <4> QED BY <3>3, <3>6, <4>1 DEF AfterMigrations
    <3>7. CASE recorded = {1, 2}
      <4>1. {1, 2} \ recorded = {}  BY <3>7
      <4> QED BY <3>3, <3>4, <3>7, <4>1 DEF AfterMigrations
    <3> QED BY <3>1, <3>5, <3>6, <3>7
  <2>2. /\ \A q \in Pods \ {p} : stage'[q] = stage[q] /\ pending'[q] = pending[q]
        /\ stage[p] = "loading"
        /\ UNCHANGED <<schema, recorded, torn>>
    BY <1>2 DEF LoadExecutedMigrations
  <2>3. TypeOK'
    BY <1>2 DEF LoadExecutedMigrations, AfterMigrations, Stages
  <2>4. RecordedIsApplied' /\ (2 \in recorded' => 1 \in recorded')
    BY <2>2 DEF RecordedIsApplied
  <2>5. PendingIsPlausible'  BY <2>1, <2>2 DEF PendingIsPlausible
  <2>6. RecordingIsApplied'  BY <2>1, <2>2 DEF RecordingIsApplied
  <2>7. PastMigrations'  BY <2>1, <2>2 DEF PastMigrations, Program, Migrations
  <2>8. TableHasCreator'  BY <2>1, <2>2 DEF TableHasCreator
  <2> QED BY <2>3, <2>4, <2>5, <2>6, <2>7, <2>8
<1>3. ASSUME NEW p \in Pods, CreateTable(p) PROVE RolloutInv'
  <2>1. pending[p] = {1, 2} /\ stage[p] = "migrating" /\ stage'[p] = "recording"
    BY <1>3, CurrentIsFirst DEF CreateTable, PendingIsPlausible
  <2>2. /\ \A q \in Pods \ {p} : stage'[q] = stage[q]
        /\ schema = 0 /\ schema' = 1
        /\ UNCHANGED <<recorded, pending, torn>>
    BY <1>3 DEF CreateTable
  <2>3. TypeOK'  BY <1>3 DEF CreateTable, Stages
  <2>4. RecordedIsApplied' /\ (2 \in recorded' => 1 \in recorded')
    BY <2>2 DEF RecordedIsApplied, Migrations
  <2>5. PendingIsPlausible'  BY <2>1, <2>2 DEF PendingIsPlausible
  <2>6. RecordingIsApplied'  BY <2>1, <2>2 DEF RecordingIsApplied
  <2>7. PastMigrations'  BY <2>1, <2>2 DEF PastMigrations, Program
  <2>8. TableHasCreator'  BY <2>1, <2>2 DEF TableHasCreator
  <2> QED BY <2>3, <2>4, <2>5, <2>6, <2>7, <2>8
<1>4. ASSUME NEW p \in Pods, TableExists(p) PROVE RolloutInv'
  <2>1. TypeOK' /\ Quiet(p, "down")
    BY <1>4 DEF TableExists, AfterError, Quiet, Stages
  <2> QED BY <2>1, QuietSteps
<1>5. ASSUME NEW p \in Pods, AllowNullComments(p) PROVE RolloutInv'
  <2>1. pending[p] = {2} /\ 1 \in recorded /\ stage[p] = "migrating" /\ stage'[p] = "recording"
    BY <1>5, CurrentIsFirst DEF AllowNullComments, PendingIsPlausible
  <2>2. /\ \A q \in Pods \ {p} : stage'[q] = stage[q]
        /\ schema' = 2
        /\ UNCHANGED <<recorded, pending, torn>>
    BY <1>5 DEF AllowNullComments
  <2>3. TypeOK'  BY <1>5 DEF AllowNullComments, Stages
  <2>4. RecordedIsApplied' /\ (2 \in recorded' => 1 \in recorded')
    BY <2>2 DEF RecordedIsApplied, Migrations
  <2>5. PendingIsPlausible'  BY <2>1, <2>2 DEF PendingIsPlausible
  <2>6. RecordingIsApplied'  BY <2>1, <2>2 DEF RecordingIsApplied
  <2>7. PastMigrations'  BY <2>1, <2>2 DEF PastMigrations, Program
  <2>8. TableHasCreator'  BY <2>1, <2>2 DEF TableHasCreator
  <2> QED BY <2>3, <2>4, <2>5, <2>6, <2>7, <2>8
<1>6. ASSUME NEW p \in Pods, InsertExecutedMigration(p) PROVE RolloutInv'
  <2>1. \/ /\ pending[p] = {1, 2} /\ Current(p) = 1 /\ schema >= 1
           /\ recorded' = recorded \cup {1}
           /\ pending'[p] = {2} /\ stage'[p] = "migrating"
        \/ /\ pending[p] = {2} /\ Current(p) = 2 /\ schema = 2 /\ 1 \in recorded
           /\ recorded' = recorded \cup {2}
           /\ stage'[p] = "migrated"
    BY <1>6, CurrentIsFirst
    DEF InsertExecutedMigration, Done, AfterMigrations, PendingIsPlausible, RecordingIsApplied
  <2>2. /\ \A q \in Pods \ {p} : stage'[q] = stage[q] /\ pending'[q] = pending[q]
        /\ UNCHANGED <<schema, torn>>
    BY <1>6 DEF InsertExecutedMigration
  <2>3. recorded' \subseteq Migrations /\ recorded \subseteq recorded' /\ 1 \in recorded'
    BY <2>1 DEF Migrations
  <2>4. TypeOK'
    <3>1. Done(p) \subseteq Migrations  BY <2>1 DEF Done, Migrations
    <3>2. pending' \in [Pods -> SUBSET Migrations]
      BY <1>6 DEF InsertExecutedMigration
    <3>3. stage' \in [Pods -> Stages]
      BY <1>6 DEF InsertExecutedMigration, AfterMigrations, Stages
    <3> QED BY <1>6, <2>3, <3>2, <3>3 DEF InsertExecutedMigration
  <2>5. RecordedIsApplied' /\ (2 \in recorded' => 1 \in recorded')
    BY <2>1, <2>2, <2>3 DEF RecordedIsApplied
  <2>6. PendingIsPlausible'  BY <2>1, <2>2, <2>3 DEF PendingIsPlausible
  <2>7. RecordingIsApplied'  BY <2>1, <2>2 DEF RecordingIsApplied
  <2>8. PastMigrations'
    <3>1. ASSUME NEW q \in Pods \ {p}, stage[q] \in {"migrated"} \cup Program
          PROVE  schema' = 2 /\ recorded' = Migrations
      BY <2>2, <2>3, <3>1 DEF PastMigrations
    <3>2. ASSUME stage'[p] \in {"migrated"} \cup Program
          PROVE  schema' = 2 /\ recorded' = Migrations
      <4>1. stage'[p] # "migrating"  BY <3>2 DEF Program
      <4>2. schema' = 2 /\ recorded' = recorded \cup {2} /\ 1 \in recorded  BY <2>1, <2>2, <4>1
      <4>3. \A m \in Migrations : m = 1 \/ m = 2  BY DEF Migrations
      <4> QED BY <2>3, <4>2, <4>3
    <3> QED BY <2>2, <3>1, <3>2 DEF PastMigrations
  <2>9. TableHasCreator'  BY <2>3 DEF TableHasCreator
  <2> QED BY <2>4, <2>5, <2>6, <2>7, <2>8, <2>9
<1>7. ASSUME NEW p \in Pods, StartProgram(p) PROVE RolloutInv'
  <2>1. TypeOK' /\ Quiet(p, "booting")
    BY <1>7, RolloutAssumption DEF StartProgram, Quiet, Program, Stages
  <2> QED BY <2>1, QuietSteps
<1>8. ASSUME NEW p \in Pods, LoadConfig(p) PROVE RolloutInv'
  <2>1. TypeOK' /\ Quiet(p, "configured")
    BY <1>8 DEF LoadConfig, Quiet, Program, Stages
  <2> QED BY <2>1, QuietSteps
<1>9. ASSUME NEW p \in Pods, CreateApp(p) PROVE RolloutInv'
  <2>1. TypeOK' /\ Quiet(p, "created")
    BY <1>9 DEF CreateApp, Quiet, Program, Stages
  <2> QED BY <2>1, QuietSteps
<1>10. ASSUME NEW p \in Pods, StartMicroservices(p) PROVE RolloutInv'
  <2>1. TypeOK' /\ Quiet(p, "started")
    BY <1>10 DEF StartMicroservices, Quiet, Program, Stages
  <2> QED BY <2>1, QuietSteps
<1>11. ASSUME NEW p \in Pods, Listen(p) PROVE RolloutInv'
  <2>1. TypeOK' /\ Quiet(p, "serving")
    BY <1>11 DEF Listen, Quiet, Program, Stages
  <2> QED BY <2>1, QuietSteps
<1>12. ASSUME NEW p \in Pods, ProgramExits(p) PROVE RolloutInv'
  <2>1. crashes' \in 0 .. MaxCrashes
    BY <1>12, RolloutAssumption DEF ProgramExits
  <2>2. PICK before \in {restarts[p]} \cup (IF stage[p] = "serving" THEN {0} ELSE {}) :
          IF MayRestart(before)
          THEN /\ stage' = [stage EXCEPT ![p] = "booting"]
               /\ restarts' = [restarts EXCEPT ![p] = before + 1]
          ELSE /\ stage' = [stage EXCEPT ![p] = AfterLastExit]
               /\ UNCHANGED restarts
    BY <1>12 DEF ProgramExits
  <2>3. before \in 0 .. MaxRestarts
    BY RolloutAssumption
  <2>4. restarts' \in [Pods -> 0 .. MaxRestarts] /\ stage' \in [Pods -> Stages]
    <3>1. MayRestart(before) => before + 1 \in 0 .. MaxRestarts
      BY <2>3, RolloutAssumption DEF MayRestart
    <3> QED BY <2>2, <3>1 DEF Stages, Program, AfterLastExit
  <2>5. TypeOK'  BY <1>12, <2>1, <2>4 DEF ProgramExits
  <2>6. Quiet(p, "booting") \/ Quiet(p, "down")
    BY <1>12, <2>2 DEF ProgramExits, Quiet, Program, AfterLastExit
  <2> QED BY <2>5, <2>6, QuietSteps
<1>13. ASSUME NEW p \in Pods, PodDies(p) PROVE RolloutInv'
  <2>1. crashes' \in 0 .. MaxCrashes
    BY <1>13, RolloutAssumption DEF PodDies
  <2>2. torn' \in BOOLEAN /\ (torn => torn')
    BY <1>13 DEF PodDies
  <2>3. stage[p] = "recording" /\ pending[p] = {1, 2} => torn'
    BY <1>13, CurrentIsFirst DEF PodDies
  <2>4. TypeOK'
    BY <1>13, <2>1, <2>2 DEF PodDies, Stages
  <2>5. Quiet(p, "down")
    BY <1>13, <2>2, <2>3 DEF PodDies, Quiet
  <2> QED BY <2>4, <2>5, QuietSteps
<1>14. CASE UNCHANGED vars
  BY <1>14 DEF vars, RecordedIsApplied, PendingIsPlausible, RecordingIsApplied, PastMigrations,
               TableHasCreator
<1> QED
  BY <1>1, <1>2, <1>3, <1>4, <1>5, <1>6, <1>7, <1>8, <1>9, <1>10, <1>11, <1>12, <1>13,
     <1>14 DEF Next, Advance

(* The invariant of a rollout.                                             *)
THEOREM RolloutInvariant == Spec => []RolloutInv
<1>1. Init => RolloutInv  BY RolloutInit
<1>2. RolloutInv /\ [Next]_vars => RolloutInv'  BY RolloutNext
<1> QED BY <1>1, <1>2, PTL DEF Spec

(* Every variable has its type (max_restarts of pm2.config.js).            *)
THEOREM RolloutIsTyped == Spec => []TypeOK
<1>1. RolloutInv => TypeOK  BY DEF RolloutInv
<1> QED BY <1>1, RolloutInvariant, PTL

(* No program runs on a table that lacks a migration (migration:run && of  *)
(* start:prod-pm2).                                                        *)
THEOREM ProgramsRunOnMigratedSchema == Spec => []ServesOnMigratedSchema
<1>1. RolloutInv => ServesOnMigratedSchema
  BY DEF RolloutInv, PastMigrations, ServesOnMigratedSchema
<1> QED BY <1>1, RolloutInvariant, PTL

(* A migration on record has been applied (insertExecutedMigration).       *)
THEOREM RecordsAreTrue == Spec => []RecordedIsApplied
<1>1. RolloutInv => RecordedIsApplied  BY DEF RolloutInv
<1> QED BY <1>1, RolloutInvariant, PTL

(* Only a pod that dies between CREATE TABLE and its record makes the      *)
(* migrations impossible.                                                  *)
THEOREM OnlyADeathIsInTheWay == Spec => []StuckOnlyWhenTorn
<1>1. RolloutInv => StuckOnlyWhenTorn
  BY DEF RolloutInv, TableHasCreator, StuckOnlyWhenTorn, Stuck
<1> QED BY <1>1, RolloutInvariant, PTL

-----------------------------------------------------------------------------
(***************************************************************************)
(* The migrations of all pods make one history.                            *)
(***************************************************************************)
\* The second migration is applied to a table that is on record.
SecondAfterFirst == schema = 2 => 1 \in recorded

LEMMA SecondAfterFirstNext ==
  ASSUME RolloutInv, SecondAfterFirst, [Next]_vars
  PROVE  SecondAfterFirst'
<1> USE DEF RolloutInv, SecondAfterFirst, database
<1>1. ASSUME NEW p \in Pods, CreateTable(p) PROVE SecondAfterFirst'
  BY <1>1 DEF CreateTable
<1>2. ASSUME NEW p \in Pods, AllowNullComments(p) PROVE SecondAfterFirst'
  <2>1. pending[p] = {2}
    BY <1>2, CurrentIsFirst DEF AllowNullComments, Goes, PendingIsPlausible
  <2> QED BY <1>2, <2>1 DEF AllowNullComments, Goes, PendingIsPlausible
<1>3. ASSUME NEW p \in Pods, InsertExecutedMigration(p) PROVE SecondAfterFirst'
  BY <1>3 DEF InsertExecutedMigration
<1>4. CASE UNCHANGED <<schema, recorded>>
  BY <1>4
<1> QED
  BY <1>1, <1>2, <1>3, <1>4 DEF Next, Advance, StartContainer, LoadExecutedMigrations,
     TableExists, StartProgram, LoadConfig, CreateApp, StartMicroservices, Listen,
     ProgramExits, PodDies, vars

\* A pod that records a migration completes the record, or finds it recorded.
LEMMA InsertIsRecord ==
  ASSUME RolloutInv, SecondAfterFirst, NEW p \in Pods, InsertExecutedMigration(p)
  PROVE  History!Record \/ UNCHANGED <<schema, recorded>>
<1>1. recorded \subseteq {1, 2} /\ schema \in 0 .. 2 /\ (2 \in recorded => 1 \in recorded)
  BY DEF RolloutInv, TypeOK, Migrations
<1>2. 1 .. 1 = {1} /\ 1 .. 2 = {1, 2}
  OBVIOUS
<1>3. \/ /\ pending[p] = {1, 2} /\ schema >= 1 /\ recorded' = recorded \cup {1}
      \/ /\ pending[p] = {2} /\ schema = 2 /\ 1 \in recorded /\ recorded' = recorded \cup {2}
  BY CurrentIsFirst
  DEF RolloutInv, InsertExecutedMigration, Goes, Done, PendingIsPlausible, RecordingIsApplied
<1>4. UNCHANGED schema
  BY DEF InsertExecutedMigration
<1>5. CASE 1 \in recorded /\ recorded' = recorded \cup {1}
  <2>1. recorded' = recorded
    BY <1>5
  <2> QED BY <1>4, <2>1
<1>6. CASE 1 \notin recorded /\ recorded' = recorded \cup {1} /\ schema >= 1
  <2>1. recorded = {} /\ schema = 1
    BY <1>1, <1>6 DEF SecondAfterFirst
  <2>2. recorded' = 1 .. schema
    BY <1>2, <1>6, <2>1
  <2> QED BY <1>4, <2>2 DEF History!Record
<1>7. CASE schema = 2 /\ 1 \in recorded /\ recorded' = recorded \cup {2}
  <2>1. recorded' = {1, 2}
    BY <1>1, <1>7
  <2> QED BY <1>2, <1>4, <1>7, <2>1 DEF History!Record
<1> QED BY <1>3, <1>5, <1>6, <1>7

\* A pod that alters the table applies the next migration, or repeats the last.
LEMMA AlterIsApply ==
  ASSUME RolloutInv, SecondAfterFirst, NEW p \in Pods, AllowNullComments(p)
  PROVE  History!Apply \/ UNCHANGED <<schema, recorded>>
<1>1. recorded \subseteq {1, 2} /\ schema \in 0 .. 2 /\ 1 .. 1 = {1}
  BY DEF RolloutInv, TypeOK, Migrations
<1>2. 1 \in recorded /\ schema' = 2 /\ UNCHANGED recorded
  BY CurrentIsFirst DEF RolloutInv, AllowNullComments, Goes, PendingIsPlausible
<1>3. schema >= 1 /\ (2 \in recorded => schema = 2)
  BY <1>1, <1>2 DEF RolloutInv, RecordedIsApplied
<1>4. schema = 1 => recorded = 1 .. schema
  BY <1>1, <1>2, <1>3
<1> QED BY <1>1, <1>2, <1>3, <1>4 DEF History!Apply

\* A pod that creates the table applies the first migration.
LEMMA CreateIsApply ==
  ASSUME RolloutInv, NEW p \in Pods, CreateTable(p)
  PROVE  History!Apply
<1>1. recorded \subseteq {1, 2} /\ 1 .. 0 = {}
  BY DEF RolloutInv, TypeOK, Migrations
<1>2. schema = 0 /\ schema' = 1 /\ UNCHANGED recorded
  BY DEF CreateTable
<1>3. recorded = {}
  BY <1>1, <1>2 DEF RolloutInv, RecordedIsApplied
<1> QED BY <1>1, <1>2, <1>3 DEF History!Apply

(* The pods, each with its list of migrations that may be stale, make one  *)
(* history: a migration is applied when those before it are on record, and *)
(* no record is made ahead of it or lost (migration:run of every pod).     *)
THEOREM PodsMakeOneHistory == Spec => HistorySpec
<1>1. Init => SecondAfterFirst /\ History!Init
  BY DEF Init, SecondAfterFirst, History!Init
<1>2. RolloutInv /\ SecondAfterFirst /\ [Next]_vars => SecondAfterFirst'
  BY SecondAfterFirstNext
<1>3. ASSUME RolloutInv, SecondAfterFirst, [Next]_vars
      PROVE  [History!Next]_<<schema, recorded>>
  <2>1. ASSUME NEW p \in Pods, InsertExecutedMigration(p)
        PROVE  [History!Next]_<<schema, recorded>>
    BY <1>3, <2>1, InsertIsRecord DEF History!Next
  <2>2. ASSUME NEW p \in Pods, AllowNullComments(p)
        PROVE  [History!Next]_<<schema, recorded>>
    BY <1>3, <2>2, AlterIsApply DEF History!Next
  <2>3. ASSUME NEW p \in Pods, CreateTable(p)
        PROVE  [History!Next]_<<schema, recorded>>
    BY <1>3, <2>3, CreateIsApply DEF History!Next
  <2>4. CASE UNCHANGED <<schema, recorded>>
    BY <2>4
  <2> QED
    BY <1>3, <2>1, <2>2, <2>3, <2>4 DEF Next, Advance, StartContainer, LoadExecutedMigrations,
       TableExists, StartProgram, LoadConfig, CreateApp, StartMicroservices, Listen,
       ProgramExits, PodDies, vars, database
<1> QED BY <1>1, <1>2, <1>3, RolloutInvariant, PTL DEF Spec, HistorySpec, History!Spec
=============================================================================
