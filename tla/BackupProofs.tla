---------------------------- MODULE BackupProofs ----------------------------
(***************************************************************************)
(* What overlapping backup runs and their prunes keep true of the bundles  *)
(* at the destination, for every number of runs and every retention, as    *)
(* long as no two runs start within one second; and what restores and      *)
(* drills promise beside them.                                             *)
(***************************************************************************)
EXTENDS Restore, FiniteSetTheorems, TLAPS

NoSameSecond == "same_second" \notin Faults

\* A run id is one run's, and a run has one from its start on.
OwnIds ==
  /\ \A q, r \in Runs : id[q] = id[r] /\ id[q] # NoId => q = r
  /\ \A r \in Runs : pc[r] = "new" <=> id[r] = NoId

\* The run with this id writes no more artifacts and no manifest.
Closing == {"list", "prune", "done"}
Closed(i) == \E q \in Runs : id[q] = i /\ pc[q] \in Closing

\* What is stored under an id was written by the run with that id, the manifest
\* last.
ArtifactsOwned ==
  \A s \in Stores, i \in Ids : artifact[s][i] # NoObject => id[artifact[s][i].by] = i

ManifestsOwned ==
  \A i \in Ids : manifest[i] # NoObject => id[manifest[i].by] = i /\ Closed(i)

\* Nobody takes an artifact away before its run has written the manifest.
ResultsThere ==
  \A r \in Runs :
    /\ pc[r] = "new" => result[r] = {}
    /\ pc[r] \in Stores \cup {"manifest"} =>
         \A s \in result[r] : artifact[s][id[r]] # NoObject

\* A prune works on bundles that are closed, with the list of their manifest.
ListedAs(i, listed) ==
  Closed(i) /\ (manifest[i] # NoObject => manifest[i].listed = listed)

PlansClosed ==
  /\ \A r \in Runs : \A d \in plan[r] : ListedAs(d.id, d.listed)
  /\ \A r \in Runs : sweeping[r] # NoSweep => ListedAs(sweeping[r].id, sweeping[r].listed)

BInv ==
  TypeOK /\ OwnIds /\ ArtifactsOwned /\ ManifestsOwned /\ ResultsThere /\ PlansClosed

\* Why retention may take an artifact of a bundle.
Newer(s, i) == {j \in Ids : j > i /\ Holds(j, s)}
Reason(s, i) ==
  /\ s \in Retained
  /\ \/ Keep[s] > 0 /\ Cardinality(Newer(s, i)) >= Keep[s]
     \/ Days[s] > 0 /\ clock > i + Days[s]

Kept ==
  \A i \in Ids, s \in Stores : Holds(i, s) /\ artifact[s][i] = NoObject => Reason(s, i)

PlansJustified ==
  \A r \in Runs : \A d \in plan[r] : Holds(d.id, d.store) => Reason(d.store, d.id)

RetentionInv == BInv /\ Kept /\ PlansJustified

\* PostgreSQL never knows more loads than ClickHouse, now or in a bundle.
LoadOrder ==
  /\ pg <= ch
  /\ \A i \in Ids :
       /\ artifact["postgres"][i] # NoObject => artifact["postgres"][i].load <= pg
       /\ artifact["clickhouse"][i] # NoObject =>
            pc[artifact["clickhouse"][i].by] \notin {"new", "postgres", "clickhouse"}
       /\ artifact["postgres"][i] # NoObject /\ artifact["clickhouse"][i] # NoObject =>
            artifact["postgres"][i].load <= artifact["clickhouse"][i].load

-----------------------------------------------------------------------------
(* The operators.                                                           *)

RunPoints == Stores \cup {"new", "manifest", "list", "prune", "done"}

LEMMA FollowingValues ==
  /\ Following("postgres") = "clickhouse" /\ Following("clickhouse") = "instance"
  /\ Following("instance") = "files" /\ Following("files") = "manifest"
<1>1. Order[1] = "postgres" /\ Order[2] = "clickhouse" /\ Order[3] = "instance"
      /\ Order[4] = "files"
  BY DEF Order
<1>2. (CHOOSE k \in 1..4 : Order[k] = "postgres") = 1
  BY <1>1
<1>3. (CHOOSE k \in 1..4 : Order[k] = "clickhouse") = 2
  BY <1>1
<1>4. (CHOOSE k \in 1..4 : Order[k] = "instance") = 3
  BY <1>1
<1>5. (CHOOSE k \in 1..4 : Order[k] = "files") = 4
  BY <1>1
<1> QED
  BY <1>1, <1>2, <1>3, <1>4, <1>5 DEF Following

LEMMA FollowingType ==
  ASSUME NEW s \in Stores
  PROVE  Following(s) \in RunPoints /\ Following(s) \in Stores \cup {"manifest"}
BY FollowingValues DEF Stores, RunPoints

LEMMA GotoEffect ==
  ASSUME TypeOK, NEW r \in Runs, NEW from, NEW to \in RunPoints, Goto(r, from, to)
  PROVE  /\ pc[r] = from /\ pc' \in [Runs -> RunPoints]
         /\ pc'[r] = to /\ \A q \in Runs \ {r} : pc'[q] = pc[q]
BY DEF TypeOK, Goto, RunPoints

LEMMA AttemptedStores == Attempted \subseteq Stores
BY BackupAssumption DEF Attempted, Stores

LEMMA ObjectsAreReal ==
  /\ \A x \in Artifact : x # NoObject /\ x.by \in Runs /\ x.load \in 0..MaxLoads
  /\ \A m \in Manifest : m # NoObject /\ m.by \in Runs /\ m.listed \in SUBSET Stores
<1>1. \A x \in Artifact : x.by \in Runs /\ x.load \in 0..MaxLoads
  BY DEF Artifact
<1>2. \A m \in Manifest : m.by \in Runs /\ m.listed \in SUBSET Stores
  BY DEF Manifest
<1>3. NoObject.by \notin Runs
  BY BackupAssumption DEF NoObject
<1> QED
  BY <1>1, <1>2, <1>3

LEMMA ArtifactType ==
  ASSUME TypeOK, NEW s \in Stores, NEW i \in Ids, artifact[s][i] # NoObject
  PROVE  artifact[s][i] \in Artifact /\ artifact[s][i].by \in Runs
BY ObjectsAreReal DEF TypeOK

LEMMA ManifestType ==
  ASSUME TypeOK, NEW i \in Ids, manifest[i] # NoObject
  PROVE  manifest[i] \in Manifest /\ manifest[i].by \in Runs
         /\ manifest[i].listed \in SUBSET Stores
BY ObjectsAreReal DEF TypeOK

LEMMA SnapshotType ==
  ASSUME TypeOK, NEW s
  PROVE  Snapshot(s) \in 0..MaxLoads
BY BackupAssumption DEF TypeOK, Snapshot

LEMMA PutEffect ==
  ASSUME TypeOK, NEW r \in Runs, id[r] \in Ids, NEW s \in Stores, Put(r, s)
  PROVE  /\ artifact' \in [Stores -> [Ids -> Artifact \cup {NoObject}]]
         /\ artifact'[s][id[r]] = [by |-> r, load |-> Snapshot(s)]
         /\ artifact'[s][id[r]] # NoObject
         /\ \A t \in Stores, i \in Ids :
              t # s \/ i # id[r] => artifact'[t][i] = artifact[t][i]
<1>1. [by |-> r, load |-> Snapshot(s)] \in Artifact
  BY SnapshotType DEF Artifact
<1> QED
  BY <1>1, ObjectsAreReal DEF TypeOK, Put

LEMMA DeletionEffect ==
  ASSUME TypeOK, NEW s \in Stores, NEW i \in Ids,
         artifact' = [artifact EXCEPT ![s][i] = NoObject]
  PROVE  /\ artifact' \in [Stores -> [Ids -> Artifact \cup {NoObject}]]
         /\ artifact'[s][i] = NoObject
         /\ \A t \in Stores, j \in Ids : t # s \/ j # i => artifact'[t][j] = artifact[t][j]
BY DEF TypeOK

\* Every run that has started has its id.
LEMMA Started ==
  ASSUME TypeOK, OwnIds, NEW r \in Runs, pc[r] # "new"
  PROVE  id[r] \in Ids
BY DEF TypeOK, OwnIds

-----------------------------------------------------------------------------
(* Types.                                                                   *)

LEMMA InitType == Init => TypeOK
<1> SUFFICES ASSUME Init PROVE TypeOK
  OBVIOUS
<1>1. ch \in 0..MaxLoads /\ pg \in 0..MaxLoads
  BY BackupAssumption DEF Init
<1>2. pc \in [Runs -> Stores \cup {"new", "manifest", "list", "prune", "done"}]
  BY DEF Init
<1>3. clock \in Ids
  BY BackupAssumption DEF Init, Ids
<1> QED
  BY <1>1, <1>2, <1>3 DEF Init, TypeOK

LEMMA DoomedEffect ==
  ASSUME TypeOK, NEW r \in Runs, NEW readable \in SUBSET Present, NEW d \in Doomed(r, readable)
  PROVE  /\ d \in Deletion
         /\ d.id \in readable /\ d.listed = manifest[d.id].listed /\ d.store \in d.listed
         /\ d.store \in Retained
         /\ TooMany(d.store, d.id, readable) \/ TooOld(d.store, d.id)
<1>1. PICK i \in readable : \E s \in DoomedStores(i, readable) :
        d = [store |-> s, id |-> i, listed |-> manifest[i].listed]
  BY DEF Doomed
<1> PICK s \in DoomedStores(i, readable) :
        d = [store |-> s, id |-> i, listed |-> manifest[i].listed]
  BY <1>1
<1>2. i \in Ids /\ manifest[i] # NoObject /\ s \in manifest[i].listed /\ s \in Retained
  BY DEF Present, DoomedStores
<1>3. manifest[i].listed \in SUBSET Stores
  BY <1>2, ManifestType
<1> QED
  BY <1>1, <1>2, <1>3 DEF DoomedStores, Deletion

LEMMA SweepSteps ==
  ASSUME TypeOK, NEW r \in Runs
  PROVE  /\ NoSweep \in Sweep \cup {NoSweep}
         /\ \A d \in plan[r] : [id |-> d.id, listed |-> d.listed] \in Sweep
                              /\ [id |-> d.id, listed |-> d.listed] # NoSweep
         /\ sweeping[r] # NoSweep => sweeping[r] \in Sweep
<1>1. plan[r] \subseteq Deletion /\ sweeping[r] \in Sweep \cup {NoSweep}
  BY DEF TypeOK
<1>2. \A i \in Ids : i # NoId
  BY DEF Ids, NoId
<1> QED
  BY <1>1, <1>2 DEF Deletion, Sweep, NoSweep

LEMMA TypeStep == TypeOK /\ OwnIds /\ [Next]_vars => TypeOK'
<1> SUFFICES ASSUME TypeOK, OwnIds, [Next]_vars PROVE TypeOK'
  OBVIOUS
<1> USE DEF stores, bundles, local
<1>1. CASE UNCHANGED vars
  BY <1>1 DEF vars, TypeOK
<1>2. CASE Tick
  <2>1. clock' \in Ids
    BY <1>2, BackupAssumption DEF Tick, Ids, TypeOK
  <2> QED
    BY <1>2, <2>1 DEF Tick, TypeOK
<1>3. CASE Load
  <2>1. ch' \in 0..MaxLoads /\ pg' \in 0..MaxLoads
    BY <1>3, BackupAssumption DEF Load, PublishLoad, RecordLoad, TypeOK
  <2> QED
    BY <1>3, <2>1 DEF Load, PublishLoad, RecordLoad, TypeOK
<1>4. ASSUME NEW r \in Runs, Run(r) PROVE TypeOK'
  <2>1. CASE Start(r)
    <3>1. pc' \in [Runs -> RunPoints]
      BY <2>1, GotoEffect DEF Start, Order, RunPoints, Stores
    <3>2. id' \in [Runs -> Ids \cup {NoId}]
      BY <2>1 DEF Start, TypeOK
    <3> QED
      BY <2>1, <3>1, <3>2 DEF Start, TypeOK, RunPoints
  <2>2. CASE SkipStore(r)
    <3>1. pc' \in [Runs -> RunPoints]
      BY <2>2, GotoEffect, FollowingType DEF SkipStore
    <3> QED
      BY <2>2, <3>1 DEF SkipStore, TypeOK, RunPoints
  <2>3. CASE PutManifest(r)
    <3>1. pc' \in [Runs -> RunPoints] /\ pc[r] = "manifest"
      BY <2>3, GotoEffect DEF PutManifest, RunPoints
    <3>2. id[r] \in Ids
      BY <3>1, Started
    <3>3. PICK known \in SUBSET (Managed \cap Databases) :
            manifest' = [manifest EXCEPT ![id[r]] =
              [by |-> r, listed |-> result[r], counts |-> [s \in known |-> Snapshot(s)]]]
      BY <2>3 DEF PutManifest
    <3>4. [s \in known |-> Snapshot(s)] \in Counts
      BY SnapshotType DEF Counts
    <3>5. [by |-> r, listed |-> result[r], counts |-> [s \in known |-> Snapshot(s)]] \in Manifest
      BY <3>4 DEF Manifest, TypeOK
    <3>6. manifest' \in [Ids -> Manifest \cup {NoObject}]
      BY <3>2, <3>3, <3>5 DEF TypeOK
    <3> QED
      BY <2>3, <3>1, <3>6 DEF PutManifest, TypeOK, RunPoints
  <2>4. CASE ManifestFails(r)
    <3>1. pc' \in [Runs -> RunPoints]
      BY <2>4, GotoEffect DEF ManifestFails, RunPoints
    <3> QED
      BY <2>4, <3>1 DEF ManifestFails, TypeOK, RunPoints
  <2>5. ASSUME NEW s \in Stores, BackupStore(r, s) PROVE TypeOK'
    <3>1. pc' \in [Runs -> RunPoints] /\ pc[r] = s
      BY <2>5, GotoEffect, FollowingType DEF BackupStore
    <3>2. id[r] \in Ids
      BY <3>1, Started DEF Stores
    <3>3. artifact' \in [Stores -> [Ids -> Artifact \cup {NoObject}]]
      BY <2>5, <3>2, PutEffect DEF BackupStore
    <3>4. result' \in [Runs -> SUBSET Stores]
      BY <2>5 DEF BackupStore, TypeOK
    <3> QED
      BY <2>5, <3>1, <3>3, <3>4 DEF BackupStore, TypeOK, RunPoints
  <2>6. ASSUME NEW s \in Stores, BackupFails(r, s) PROVE TypeOK'
    <3>1. pc' \in [Runs -> RunPoints] /\ pc[r] = s
      BY <2>6, GotoEffect, FollowingType DEF BackupFails
    <3>2. id[r] \in Ids
      BY <3>1, Started DEF Stores
    <3>3. artifact' \in [Stores -> [Ids -> Artifact \cup {NoObject}]]
      BY <2>6, <3>2, PutEffect DEF BackupFails, TypeOK
    <3> QED
      BY <2>6, <3>1, <3>3 DEF BackupFails, TypeOK, RunPoints
  <2>7. CASE ListManifests(r)
    <3>1. pc' \in [Runs -> RunPoints]
      BY <2>7, GotoEffect DEF ListManifests, RunPoints
    <3>2. plan' \in [Runs -> SUBSET Deletion]
      BY <2>7, DoomedEffect DEF ListManifests, TypeOK
    <3> QED
      BY <2>7, <3>1, <3>2 DEF ListManifests, TypeOK, RunPoints
  <2>8. CASE PruneArtifact(r)
    <3>1. PICK d \in plan[r] :
            /\ plan' = [plan EXCEPT ![r] = @ \ {d}]
            /\ sweeping' = [sweeping EXCEPT ![r] = [id |-> d.id, listed |-> d.listed]]
            /\ artifact' = [artifact EXCEPT ![d.store][d.id] = NoObject] \/ UNCHANGED artifact
      BY <2>8 DEF PruneArtifact
    <3>2. plan' \in [Runs -> SUBSET Deletion] /\ d.store \in Stores /\ d.id \in Ids
      BY <3>1 DEF TypeOK, Deletion
    <3>3. sweeping' \in [Runs -> Sweep \cup {NoSweep}]
      BY <3>1, SweepSteps DEF TypeOK
    <3>4. artifact' \in [Stores -> [Ids -> Artifact \cup {NoObject}]]
      BY <3>1, <3>2, DeletionEffect DEF TypeOK
    <3> QED
      BY <2>8, <3>2, <3>3, <3>4 DEF PruneArtifact, TypeOK
  <2>9. CASE PruneManifest(r)
    <3>1. manifest' = [manifest EXCEPT ![sweeping[r].id] = NoObject] \/ UNCHANGED manifest
      BY <2>9 DEF PruneManifest
    <3>2. manifest' \in [Ids -> Manifest \cup {NoObject}]
      BY <3>1 DEF TypeOK
    <3>3. sweeping' \in [Runs -> Sweep \cup {NoSweep}]
      BY <2>9, SweepSteps DEF PruneManifest, TypeOK
    <3> QED
      BY <2>9, <3>2, <3>3 DEF PruneManifest, TypeOK
  <2>10. CASE PruneFails(r) \/ Crash(r)
    <3>1. pc' \in [Runs -> RunPoints]
      BY <2>10, GotoEffect DEF PruneFails, Crash, RunPoints, TypeOK
    <3>2. plan' \in [Runs -> SUBSET Deletion]
      BY <2>10 DEF PruneFails, Crash, TypeOK
    <3>3. sweeping' \in [Runs -> Sweep \cup {NoSweep}]
      BY <2>10, SweepSteps DEF PruneFails, Crash, TypeOK
    <3> QED
      BY <2>10, <3>1, <3>2, <3>3 DEF PruneFails, Crash, TypeOK, RunPoints
  <2>11. CASE Finish(r)
    <3>1. pc' \in [Runs -> RunPoints]
      BY <2>11, GotoEffect DEF Finish, RunPoints
    <3> QED
      BY <2>11, <3>1 DEF Finish, TypeOK, RunPoints
  <2> QED
    BY <1>4, <2>1, <2>2, <2>3, <2>4, <2>5, <2>6, <2>7, <2>8, <2>9, <2>10, <2>11 DEF Run
<1> QED
  BY <1>1, <1>2, <1>3, <1>4 DEF Next

-----------------------------------------------------------------------------
(* What a step of a run changes.                                            *)

\* A run takes its id when it starts, and never goes back.
LEMMA PointMoves ==
  ASSUME TypeOK, NEW r \in Runs, Run(r)
  PROVE  /\ \A q \in Runs \ {r} : pc'[q] = pc[q]
         /\ \/ Start(r) /\ pc[r] = "new" /\ pc'[r] = "postgres"
            \/ id' = id /\ pc[r] # "new" /\ pc'[r] # "new"
         /\ pc[r] \in Closing => pc'[r] \in Closing
<1> USE DEF local, Closing
<1>1. CASE Start(r)
  <2>1. pc[r] = "new" /\ pc'[r] = "postgres" /\ \A q \in Runs \ {r} : pc'[q] = pc[q]
    BY <1>1, GotoEffect DEF Start, Order, RunPoints, Stores
  <2> QED
    BY <1>1, <2>1
<1>2. ASSUME NEW s \in Stores, NEW t \in RunPoints \ {"new"}, Goto(r, s, t), id' = id
      PROVE  /\ \A q \in Runs \ {r} : pc'[q] = pc[q]
             /\ id' = id /\ pc[r] # "new" /\ pc'[r] # "new" /\ pc[r] \notin Closing
  BY <1>2, GotoEffect DEF Stores
<1>3. \A s \in Stores : Following(s) \in RunPoints \ {"new"}
  BY FollowingType DEF Stores, RunPoints
<1>4. CASE SkipStore(r)
  BY <1>2, <1>3, <1>4 DEF SkipStore
<1>5. ASSUME NEW s \in Stores, BackupStore(r, s) \/ BackupFails(r, s)
      PROVE  /\ \A q \in Runs \ {r} : pc'[q] = pc[q]
             /\ id' = id /\ pc[r] # "new" /\ pc'[r] # "new" /\ pc[r] \notin Closing
  BY <1>2, <1>3, <1>5 DEF BackupStore, BackupFails
<1>6. CASE PutManifest(r)
  BY <1>6, GotoEffect DEF PutManifest, RunPoints
<1>7. CASE ManifestFails(r)
  BY <1>7, GotoEffect DEF ManifestFails, RunPoints
<1>8. CASE ListManifests(r)
  BY <1>8, GotoEffect DEF ListManifests, RunPoints
<1>9. CASE PruneArtifact(r) \/ PruneManifest(r)
  BY <1>9 DEF PruneArtifact, PruneManifest
<1>10. CASE PruneFails(r)
  BY <1>10, GotoEffect DEF PruneFails, RunPoints
<1>11. CASE Finish(r)
  BY <1>11, GotoEffect DEF Finish, RunPoints
<1>12. CASE Crash(r)
  BY <1>12 DEF Crash, TypeOK
<1> QED
  BY <1>1, <1>4, <1>5, <1>6, <1>7, <1>8, <1>9, <1>10, <1>11, <1>12 DEF Run

\* An artifact stays as it is, is taken by a prune that planned to, or is put
\* under the id of the run that is at its store.
ArtifactFate(r, s, i) ==
  \/ artifact'[s][i] = artifact[s][i]
  \/ /\ artifact'[s][i] = NoObject
     /\ \E d \in plan[r] : d.store = s /\ d.id = i
     /\ manifest' = manifest
  \/ /\ i = id[r] /\ pc[r] = s /\ pc'[r] = Following(s)
     /\ artifact'[s][i] = [by |-> r, load |-> Snapshot(s)] /\ artifact'[s][i] # NoObject
     /\ manifest' = manifest

LEMMA ArtifactMoves ==
  ASSUME TypeOK, OwnIds, NEW r \in Runs, Run(r), NEW s \in Stores, NEW i \in Ids
  PROVE  ArtifactFate(r, s, i)
<1> USE DEF ArtifactFate
<1> USE DEF bundles
<1>1. ASSUME NEW t \in Stores, BackupStore(r, t)
      PROVE  \/ artifact'[s][i] = artifact[s][i]
             \/ /\ i = id[r] /\ pc[r] = s /\ pc'[r] = Following(s)
                /\ artifact'[s][i] = [by |-> r, load |-> Snapshot(s)]
                /\ artifact'[s][i] # NoObject
                /\ manifest' = manifest
  <2>1. pc[r] = t /\ pc'[r] = Following(t) /\ id[r] \in Ids
    BY <1>1, GotoEffect, FollowingType, Started DEF BackupStore, Stores
  <2>2. Put(r, t)
    BY <1>1 DEF BackupStore
  <2>3. manifest' = manifest
    BY <1>1 DEF BackupStore
  <2>4. Put(r, t) => /\ artifact'[t][id[r]] = [by |-> r, load |-> Snapshot(t)]
                     /\ artifact'[t][id[r]] # NoObject
                     /\ t # s \/ i # id[r] => artifact'[s][i] = artifact[s][i]
    BY <2>1, PutEffect
  <2>5. CASE t = s /\ i = id[r]
    BY <2>1, <2>2, <2>3, <2>4, <2>5
  <2>6. CASE t # s \/ i # id[r]
    BY <2>2, <2>4, <2>6
  <2> QED
    BY <2>5, <2>6
<1>2. ASSUME NEW t \in Stores, BackupFails(r, t)
      PROVE  \/ artifact'[s][i] = artifact[s][i]
             \/ /\ i = id[r] /\ pc[r] = s /\ pc'[r] = Following(s)
                /\ artifact'[s][i] = [by |-> r, load |-> Snapshot(s)]
                /\ artifact'[s][i] # NoObject
                /\ manifest' = manifest
  <2>1. pc[r] = t /\ pc'[r] = Following(t) /\ id[r] \in Ids
    BY <1>2, GotoEffect, FollowingType, Started DEF BackupFails, Stores
  <2>2. UNCHANGED artifact \/ Put(r, t)
    BY <1>2 DEF BackupFails
  <2>3. manifest' = manifest
    BY <1>2 DEF BackupFails
  <2>4. Put(r, t) => /\ artifact'[t][id[r]] = [by |-> r, load |-> Snapshot(t)]
                     /\ artifact'[t][id[r]] # NoObject
                     /\ t # s \/ i # id[r] => artifact'[s][i] = artifact[s][i]
    BY <2>1, PutEffect
  <2>5. CASE t = s /\ i = id[r]
    BY <2>1, <2>2, <2>3, <2>4, <2>5
  <2>6. CASE t # s \/ i # id[r]
    BY <2>2, <2>4, <2>6
  <2> QED
    BY <2>5, <2>6
<1>3. CASE PruneArtifact(r)
  <2>1. PICK d \in plan[r] :
          artifact' = [artifact EXCEPT ![d.store][d.id] = NoObject] \/ UNCHANGED artifact
    BY <1>3 DEF PruneArtifact
  <2>2. d.store \in Stores /\ d.id \in Ids
    BY DEF TypeOK, Deletion
  <2> QED
    BY <1>3, <2>1, <2>2, DeletionEffect DEF PruneArtifact
<1>4. CASE \/ Start(r) \/ SkipStore(r) \/ PutManifest(r) \/ ManifestFails(r)
           \/ ListManifests(r) \/ PruneManifest(r) \/ PruneFails(r) \/ Finish(r) \/ Crash(r)
  BY <1>4 DEF Start, SkipStore, PutManifest, ManifestFails, ListManifests, PruneManifest,
              PruneFails, Finish, Crash
<1> QED
  BY <1>1, <1>2, <1>3, <1>4 DEF Run

\* Only a prune takes an artifact away.
LEMMA ArtifactStays ==
  ASSUME TypeOK, OwnIds, NEW r \in Runs, Run(r), NEW s \in Stores, NEW i \in Ids,
         \A d \in plan[r] : d.id # i, artifact[s][i] # NoObject
  PROVE  artifact'[s][i] # NoObject
<1>1. ArtifactFate(r, s, i)
  BY ArtifactMoves
<1> QED
  BY <1>1 DEF ArtifactFate

\* A manifest stays as it is, is put by the run whose id it has, or is deleted
\* by the prune that sweeps it.
LEMMA ManifestMoves ==
  ASSUME TypeOK, OwnIds, NEW r \in Runs, Run(r), NEW i \in Ids
  PROVE  \/ manifest'[i] = manifest[i]
         \/ /\ i = id[r] /\ pc[r] = "manifest" /\ pc'[r] = "list"
            /\ manifest'[i].by = r /\ manifest'[i].listed = result[r]
            /\ artifact' = artifact
         \/ /\ PruneManifest(r) /\ sweeping[r].id = i /\ sweeping[r] # NoSweep
            /\ manifest'[i] = NoObject
            /\ "head" \notin Faults => Remaining(sweeping[r]) = {}
            /\ artifact' = artifact
<1> USE DEF bundles
<1>1. CASE PutManifest(r)
  <2>1. pc[r] = "manifest" /\ pc'[r] = "list"
    BY <1>1, GotoEffect DEF PutManifest, RunPoints
  <2>2. id[r] \in Ids
    BY <2>1, Started
  <2>3. PICK c : manifest' = [manifest EXCEPT ![id[r]] =
                                [by |-> r, listed |-> result[r], counts |-> c]]
    BY <1>1 DEF PutManifest
  <2>4. manifest'[id[r]] = [by |-> r, listed |-> result[r], counts |-> c]
        /\ \A j \in Ids \ {id[r]} : manifest'[j] = manifest[j]
    BY <2>2, <2>3 DEF TypeOK
  <2> QED
    BY <1>1, <2>1, <2>4 DEF PutManifest
<1>2. CASE PruneManifest(r)
  <2>1. /\ sweeping[r] # NoSweep /\ artifact' = artifact
        /\ \/ UNCHANGED manifest
           \/ /\ manifest' = [manifest EXCEPT ![sweeping[r].id] = NoObject]
              /\ "head" \notin Faults => Remaining(sweeping[r]) = {}
    BY <1>2 DEF PruneManifest
  <2> QED
    BY <1>2, <2>1 DEF TypeOK
<1>3. ASSUME NEW s \in Stores, BackupStore(r, s) \/ BackupFails(r, s) PROVE manifest' = manifest
  BY <1>3 DEF BackupStore, BackupFails
<1>4. CASE \/ Start(r) \/ SkipStore(r) \/ ManifestFails(r) \/ ListManifests(r)
           \/ PruneArtifact(r) \/ PruneFails(r) \/ Finish(r) \/ Crash(r)
  BY <1>4 DEF Start, SkipStore, ManifestFails, ListManifests, PruneArtifact, PruneFails,
              Finish, Crash
<1> QED
  BY <1>1, <1>2, <1>3, <1>4 DEF Run

\* Time and loads change no bundle and no run.
LEMMA EnvironmentMoves ==
  ASSUME Tick \/ Load \/ UNCHANGED vars
  PROVE  UNCHANGED <<artifact, manifest, pc, id, result, plan, sweeping>>
BY DEF Tick, Load, PublishLoad, RecordLoad, vars, bundles, local

-----------------------------------------------------------------------------
(* Whose bundle it is.                                                      *)

LEMMA OwnIdsStep ==
  ASSUME TypeOK, OwnIds, NoSameSecond, [Next]_vars
  PROVE  OwnIds'
<1>1. CASE Tick \/ Load \/ UNCHANGED vars
  BY <1>1, EnvironmentMoves DEF OwnIds
<1>2. ASSUME NEW r \in Runs, Run(r) PROVE OwnIds'
  <2>1. CASE Start(r)
    <3>1. /\ id'[r] = clock /\ clock # NoId /\ \A q \in Runs \ {r} : id'[q] = id[q] /\ id[q] # clock
          /\ pc'[r] # "new" /\ \A q \in Runs \ {r} : pc'[q] = pc[q]
      BY <1>2, <2>1, PointMoves DEF Start, NoSameSecond, TypeOK, Ids, NoId
    <3> QED
      BY <3>1 DEF OwnIds
  <2>2. CASE id' = id /\ pc[r] # "new" /\ pc'[r] # "new"
    BY <1>2, <2>2, PointMoves DEF OwnIds
  <2> QED
    BY <1>2, <2>1, <2>2, PointMoves
<1> QED
  BY <1>1, <1>2 DEF Next

\* Ids that are taken stay with their run; a closed bundle stays closed.
LEMMA IdsStay ==
  ASSUME TypeOK, OwnIds, [Next]_vars
  PROVE  /\ \A q \in Runs : id[q] # NoId => id'[q] = id[q]
         /\ \A i \in Ids : Closed(i) => Closed(i)'
<1>1. CASE Tick \/ Load \/ UNCHANGED vars
  BY <1>1, EnvironmentMoves DEF Closed
<1>2. ASSUME NEW r \in Runs, Run(r)
      PROVE  \A q \in Runs : /\ id[q] # NoId => id'[q] = id[q]
                             /\ pc[q] \in Closing => pc'[q] \in Closing
  <2>1. CASE Start(r)
    <3>1. id[r] = NoId /\ \A q \in Runs \ {r} : id'[q] = id[q]
      BY <1>2, <2>1, GotoEffect DEF Start, OwnIds, TypeOK, Goto
    <3> QED
      BY <1>2, <3>1, PointMoves
  <2>2. CASE id' = id
    BY <1>2, <2>2, PointMoves
  <2> QED
    BY <1>2, <2>1, <2>2, PointMoves
<1>3. \A i \in Ids : i # NoId
  BY DEF Ids, NoId
<1> QED
  BY <1>1, <1>2, <1>3 DEF Next, Closed

LEMMA OwnedStep ==
  ASSUME BInv, OwnIds', [Next]_vars
  PROVE  ArtifactsOwned' /\ ManifestsOwned'
<1> USE DEF BInv
<1>1. CASE Tick \/ Load \/ UNCHANGED vars
  BY <1>1, EnvironmentMoves DEF ArtifactsOwned, ManifestsOwned, Closed
<1>2. ASSUME NEW r \in Runs, Run(r), NEW s \in Stores, NEW i \in Ids, artifact'[s][i] # NoObject
      PROVE  id'[artifact'[s][i].by] = i
  <2>0. i # NoId
    BY DEF Ids, NoId
  <2>1. CASE artifact'[s][i] = artifact[s][i]
    <3>1. artifact[s][i].by \in Runs /\ id[artifact[s][i].by] = i
      BY <1>2, <2>1, ArtifactType DEF ArtifactsOwned
    <3> QED
      BY <2>0, <2>1, <3>1, IdsStay
  <2>2. CASE i = id[r] /\ artifact'[s][i] = [by |-> r, load |-> Snapshot(s)]
    BY <2>0, <2>2, IdsStay
  <2> QED
    BY <1>2, <2>1, <2>2, ArtifactMoves DEF ArtifactFate
<1>3. ASSUME NEW r \in Runs, Run(r), NEW i \in Ids, manifest'[i] # NoObject
      PROVE  id'[manifest'[i].by] = i /\ Closed(i)'
  <2>0. i # NoId
    BY DEF Ids, NoId
  <2>1. CASE manifest'[i] = manifest[i]
    <3>1. manifest[i].by \in Runs /\ id[manifest[i].by] = i /\ Closed(i)
      BY <1>3, <2>1, ManifestType DEF ManifestsOwned
    <3> QED
      BY <2>0, <2>1, <3>1, IdsStay
  <2>2. CASE i = id[r] /\ pc'[r] = "list" /\ manifest'[i].by = r
    BY <2>0, <2>2, IdsStay DEF Closed, Closing
  <2> QED
    BY <1>3, <2>1, <2>2, ManifestMoves
<1>4. CASE \E r \in Runs : Run(r)
  BY <1>2, <1>3, <1>4 DEF ArtifactsOwned, ManifestsOwned
<1> QED
  BY <1>1, <1>4 DEF Next

\* Nothing is deleted under the id of a run that is still backing up.
LEMMA NotDeletedYet ==
  ASSUME BInv, NEW r \in Runs, NEW q \in Runs, NEW d \in plan[q], d.id = id[r], id[r] \in Ids
  PROVE  pc[r] \in Closing
<1>1. Closed(d.id)
  BY DEF BInv, PlansClosed, ListedAs
<1>2. d.id # NoId
  BY DEF Ids, NoId
<1> QED
  BY <1>1, <1>2 DEF BInv, OwnIds, Closed

LEMMA ResultMoves ==
  ASSUME TypeOK, NEW r \in Runs, Run(r)
  PROVE  /\ \A q \in Runs \ {r} : result'[q] = result[q]
         /\ \/ result'[r] = result[r]
            \/ \E s \in Stores : /\ BackupStore(r, s) /\ result'[r] = result[r] \cup {s}
<1> USE DEF bundles, local
<1>1. ASSUME NEW s \in Stores, BackupStore(r, s)
      PROVE  /\ \A q \in Runs \ {r} : result'[q] = result[q]
             /\ result'[r] = result[r] \cup {s}
  BY <1>1 DEF BackupStore, TypeOK
<1>2. ASSUME NEW s \in Stores, BackupFails(r, s) PROVE result' = result
  BY <1>2 DEF BackupFails
<1>3. CASE \/ Start(r) \/ SkipStore(r) \/ PutManifest(r) \/ ManifestFails(r)
           \/ ListManifests(r) \/ PruneArtifact(r) \/ PruneManifest(r) \/ PruneFails(r)
           \/ Finish(r) \/ Crash(r)
  BY <1>3 DEF Start, SkipStore, PutManifest, ManifestFails, ListManifests, PruneArtifact,
              PruneManifest, PruneFails, Finish, Crash
<1> QED
  BY <1>1, <1>2, <1>3 DEF Run

LEMMA ResultsStep ==
  ASSUME BInv, [Next]_vars
  PROVE  ResultsThere'
<1> USE DEF BInv
<1>1. CASE Tick \/ Load \/ UNCHANGED vars
  BY <1>1, EnvironmentMoves DEF ResultsThere
<1>2. ASSUME NEW r \in Runs, Run(r), NEW q \in Runs,
             pc'[q] \in Stores \cup {"manifest"}, NEW s \in result'[q]
      PROVE  artifact'[s][id'[q]] # NoObject
  <2>1. CASE s \notin result[q]
    <3>1. q = r /\ BackupStore(r, s) /\ s \in Stores
      BY <1>2, <2>1, ResultMoves
    <3>2. id' = id /\ Put(r, s) /\ id[r] \in Ids
      BY <3>1, Started DEF BackupStore, Goto, Stores
    <3> QED
      BY <3>1, <3>2, PutEffect
  <2>2. CASE s \in result[q]
    <3>1. pc[q] \in Stores \cup {"manifest"}
      <4>1. CASE q # r
        BY <1>2, <4>1, PointMoves
      <4>2. CASE q = r
        <5>1. pc[r] # "new"
          BY <2>2, <4>2 DEF ResultsThere
        <5>2. pc[r] \notin Closing
          BY <1>2, <4>2, PointMoves DEF Closing, Stores
        <5> QED
          BY <4>2, <5>1, <5>2 DEF TypeOK, Closing
      <4> QED
        BY <4>1, <4>2
    <3>2. id[q] \in Ids /\ s \in Stores /\ artifact[s][id[q]] # NoObject
      BY <2>2, <3>1, Started DEF ResultsThere, TypeOK, Stores
    <3>3. id'[q] = id[q]
      BY <3>2, IdsStay DEF Ids, NoId
    <3>4. ~ \E d \in plan[r] : d.id = id[q]
      BY <3>1, <3>2, NotDeletedYet DEF Stores, Closing
    <3>5. artifact'[s][id[q]] # NoObject
      BY <1>2, <3>2, <3>4, ArtifactStays
    <3> QED
      BY <3>2, <3>3, <3>5
  <2> QED
    BY <2>1, <2>2
<1>3. ASSUME NEW r \in Runs, Run(r), NEW q \in Runs, pc'[q] = "new" PROVE result'[q] = {}
  <2>1. q # r /\ pc[q] = "new"
    BY <1>3, PointMoves
  <2> QED
    BY <1>3, <2>1, ResultMoves DEF ResultsThere
<1>4. CASE \E r \in Runs : Run(r)
  BY <1>2, <1>3, <1>4 DEF ResultsThere
<1> QED
  BY <1>1, <1>4 DEF Next

LEMMA ListedKept ==
  ASSUME BInv, [Next]_vars, NEW i \in Ids, NEW listed, ListedAs(i, listed)
  PROVE  ListedAs(i, listed)'
<1> USE DEF BInv
<1>0. Closed(i)'
  BY IdsStay DEF ListedAs
<1>1. CASE Tick \/ Load \/ UNCHANGED vars
  BY <1>0, <1>1, EnvironmentMoves DEF ListedAs
<1>2. ASSUME NEW r \in Runs, Run(r) PROVE ListedAs(i, listed)'
  <2>1. ~(i = id[r] /\ pc[r] = "manifest")
    BY DEF ListedAs, Closed, OwnIds, Closing, Ids, NoId
  <2>2. manifest'[i] \in {manifest[i], NoObject}
    BY <1>2, <2>1, ManifestMoves
  <2> QED
    BY <1>0, <2>2 DEF ListedAs
<1> QED
  BY <1>1, <1>2 DEF Next

\* The plan of a run: what it listed, then less and less of it.
LEMMA PlanMoves ==
  ASSUME TypeOK, NEW r \in Runs, Run(r)
  PROVE  /\ \A q \in Runs \ {r} : plan'[q] = plan[q] /\ sweeping'[q] = sweeping[q]
         /\ \/ plan'[r] \subseteq plan[r]
            \/ /\ manifest' = manifest /\ artifact' = artifact /\ clock' = clock
               /\ \E readable \in SUBSET Present : plan'[r] = Doomed(r, readable)
         /\ \/ sweeping'[r] \in {sweeping[r], NoSweep}
            \/ \E d \in plan[r] : sweeping'[r] = [id |-> d.id, listed |-> d.listed]
<1> USE DEF bundles, local, TypeOK
<1>1. ASSUME NEW s \in Stores, BackupStore(r, s) \/ BackupFails(r, s)
      PROVE  plan' = plan /\ sweeping' = sweeping
  BY <1>1 DEF BackupStore, BackupFails
<1>2. CASE Start(r) \/ SkipStore(r) \/ PutManifest(r) \/ ManifestFails(r) \/ Finish(r)
  BY <1>2 DEF Start, SkipStore, PutManifest, ManifestFails, Finish
<1>3. CASE ListManifests(r)
  BY <1>3 DEF ListManifests
<1>4. CASE PruneArtifact(r)
  BY <1>4 DEF PruneArtifact
<1>5. CASE PruneManifest(r) \/ PruneFails(r) \/ Crash(r)
  BY <1>5 DEF PruneManifest, PruneFails, Crash
<1> QED
  BY <1>1, <1>2, <1>3, <1>4, <1>5 DEF Run

LEMMA PlansStep ==
  ASSUME BInv, [Next]_vars
  PROVE  PlansClosed'
<1> USE DEF BInv
<1>1. \A q \in Runs : \A d \in plan[q] : d.id \in Ids /\ ListedAs(d.id, d.listed)'
  BY ListedKept DEF PlansClosed, TypeOK, Deletion
<1>2. ASSUME NEW q \in Runs, sweeping[q] # NoSweep, sweeping'[q] = sweeping[q]
      PROVE  ListedAs(sweeping[q].id, sweeping[q].listed)'
  <2>1. sweeping[q].id \in Ids /\ ListedAs(sweeping[q].id, sweeping[q].listed)
    BY <1>2, SweepSteps DEF PlansClosed, Sweep
  <2>2. \A j \in Ids : \A m : ListedAs(j, m) => ListedAs(j, m)'
    BY ListedKept
  <2> QED
    BY <1>2, <2>1, <2>2 DEF ListedAs, Closed
<1>3. CASE Tick \/ Load \/ UNCHANGED vars
  BY <1>3, EnvironmentMoves DEF PlansClosed, ListedAs, Closed
<1>4. ASSUME NEW r \in Runs, Run(r) PROVE PlansClosed'
  <2>1. \A d \in plan'[r] : ListedAs(d.id, d.listed)'
    <3>1. CASE plan'[r] \subseteq plan[r]
      BY <1>1, <3>1
    <3>2. ASSUME NEW readable \in SUBSET Present, plan'[r] = Doomed(r, readable)
          PROVE  \A d \in plan'[r] : ListedAs(d.id, d.listed)'
      <4> TAKE d \in plan'[r]
      <4>1. d.id \in Ids /\ manifest[d.id] # NoObject /\ d.listed = manifest[d.id].listed
        BY <3>2, DoomedEffect DEF Present
      <4>2. ListedAs(d.id, d.listed)
        BY <4>1 DEF ListedAs, ManifestsOwned
      <4> QED
        BY <4>1, <4>2, ListedKept
    <3> QED
      BY <1>4, <3>1, <3>2, PlanMoves
  <2>2. ASSUME sweeping'[r] # NoSweep
        PROVE  ListedAs(sweeping[r].id, sweeping[r].listed)'
    <3>1. CASE sweeping'[r] \in {sweeping[r], NoSweep}
      BY <1>2, <2>2, <3>1
    <3>2. ASSUME NEW d \in plan[r], sweeping'[r] = [id |-> d.id, listed |-> d.listed]
          PROVE  ListedAs(sweeping[r].id, sweeping[r].listed)'
      <4>1. ListedAs(d.id, d.listed)'
        BY <1>1
      <4> QED
        BY <3>2, <4>1 DEF ListedAs, Closed
    <3> QED
      BY <1>4, <3>1, <3>2, PlanMoves
  <2>3. \A q \in Runs \ {r} : plan'[q] = plan[q] /\ sweeping'[q] = sweeping[q]
    BY <1>4, PlanMoves
  <2>4. \A q \in Runs : \A d \in plan'[q] : ListedAs(d.id, d.listed)'
    BY <1>1, <2>1, <2>3
  <2>5. \A q \in Runs : sweeping'[q] # NoSweep =>
                            ListedAs(sweeping[q].id, sweeping[q].listed)'
    BY <1>2, <2>2, <2>3
  <2> QED
    BY <2>4, <2>5 DEF PlansClosed
<1> QED
  BY <1>3, <1>4 DEF Next

LEMMA InitBInv == Init => BInv
<1> SUFFICES ASSUME Init PROVE BInv
  OBVIOUS
<1>1. TypeOK
  BY InitType
<1>2. OwnIds
  BY DEF Init, OwnIds
<1>3. ArtifactsOwned /\ ManifestsOwned
  BY DEF Init, ArtifactsOwned, ManifestsOwned
<1>4. ResultsThere
  BY DEF Init, ResultsThere
<1>5. PlansClosed
  BY DEF Init, PlansClosed
<1> QED
  BY <1>1, <1>2, <1>3, <1>4, <1>5 DEF BInv

LEMMA BInvStep ==
  ASSUME NoSameSecond
  PROVE  BInv /\ [Next]_vars => BInv'
<1> SUFFICES ASSUME BInv, [Next]_vars PROVE BInv'
  OBVIOUS
<1>1. TypeOK' /\ OwnIds'
  BY TypeStep, OwnIdsStep DEF BInv
<1> QED
  BY <1>1, OwnedStep, ResultsStep, PlansStep DEF BInv

\* Every reachable state of overlapping runs satisfies the invariant: types, and
\* who wrote, listed and may delete what.
THEOREM BundleInvariance ==
  ASSUME NoSameSecond
  PROVE  Spec => []BInv
<1>1. Init => BInv
  BY InitBInv
<1>2. BInv /\ [Next]_vars => BInv'
  BY BInvStep
<1> QED
  BY <1>1, <1>2, PTL DEF Spec

LEMMA OwnBundle == BInv => BundleIsOwn
<1> SUFFICES ASSUME BInv, NEW i \in Ids, NEW s \in Stores, Holds(i, s), artifact[s][i] # NoObject
             PROVE  artifact[s][i].by = manifest[i].by
  BY DEF BundleIsOwn
<1>1. artifact[s][i].by \in Runs /\ id[artifact[s][i].by] = i
  BY ArtifactType DEF BInv, ArtifactsOwned
<1>2. manifest[i].by \in Runs /\ id[manifest[i].by] = i
  BY ManifestType DEF BInv, ManifestsOwned, Holds
<1> QED
  BY <1>1, <1>2 DEF BInv, OwnIds, Ids, NoId

\* Unless two runs start within a second, a manifest lists no artifact of
\* another run: overlapping runs never mix their bundles (runner.py:148 and the
\* manifest.py docstring).
THEOREM BundlesAreOwn ==
  ASSUME NoSameSecond
  PROVE  Spec => []BundleIsOwn
BY BundleInvariance, OwnBundle, PTL

-----------------------------------------------------------------------------
(* Retention.                                                               *)

LEMMA CountedIds ==
  ASSUME NEW M \in SUBSET Ids, NEW N \in SUBSET M
  PROVE  /\ Cardinality(N) \in Nat /\ Cardinality(M) \in Nat
         /\ Cardinality(N) <= Cardinality(M)
<1>1. IsFiniteSet(Ids)
  BY BackupAssumption, FS_Interval DEF Ids
<1>2. IsFiniteSet(M) /\ IsFiniteSet(N)
  BY <1>1, FS_Subset
<1> QED
  BY <1>2, FS_Subset, FS_CardinalityType

LEMMA DoomedHasReason ==
  ASSUME TypeOK, NEW r \in Runs, NEW readable \in SUBSET Present, NEW d \in Doomed(r, readable)
  PROVE  Reason(d.store, d.id)
<1>1. /\ d.id \in Ids /\ d.store \in Retained
      /\ TooMany(d.store, d.id, readable) \/ TooOld(d.store, d.id)
  BY DoomedEffect DEF Deletion
<1>2. Keep[d.store] \in Nat /\ Days[d.store] \in Nat
  BY <1>1, BackupAssumption
<1>3. CASE TooOld(d.store, d.id)
  BY <1>1, <1>2, <1>3 DEF TooOld, Reason, TypeOK, Ids
<1>4. CASE TooMany(d.store, d.id, readable)
  <2> DEFINE N == {j \in readable : j > d.id /\ d.store \in manifest[j].listed}
  <2>1. N \in SUBSET Newer(d.store, d.id)
    BY DEF Present, Newer, Holds
  <2>2. Keep[d.store] > 0 /\ Cardinality(N) >= Keep[d.store]
    BY <1>4 DEF TooMany, Rank
  <2>3. Cardinality(N) \in Nat /\ Cardinality(Newer(d.store, d.id)) \in Nat
        /\ Cardinality(N) <= Cardinality(Newer(d.store, d.id))
    BY <2>1, CountedIds DEF Newer
  <2> HIDE DEF N
  <2> QED
    BY <1>1, <1>2, <2>2, <2>3 DEF Reason
<1> QED
  BY <1>1, <1>3, <1>4

\* The manifest a sweep deletes has none of its artifacts left.
LEMMA SweptIsEmpty ==
  ASSUME BInv, "head" \notin Faults, NEW r \in Runs, Run(r), NEW i \in Ids,
         manifest[i] # NoObject, manifest'[i] = NoObject
  PROVE  /\ \A s \in Stores : Holds(i, s) => artifact[s][i] = NoObject
         /\ artifact' = artifact
         /\ \A j \in Ids \ {i} : manifest'[j] = manifest[j]
<1> USE DEF BInv
<1>1. /\ PruneManifest(r) /\ sweeping[r].id = i /\ sweeping[r] # NoSweep
      /\ Remaining(sweeping[r]) = {} /\ artifact' = artifact
  <2>1. ~(i = id[r] /\ pc[r] = "manifest")
    BY DEF ManifestsOwned, Closed, OwnIds, Closing, Ids, NoId
  <2> QED
    BY <2>1, ManifestMoves
<1>2. sweeping[r].listed = manifest[i].listed
  BY <1>1 DEF PlansClosed, ListedAs
<1>3. \A j \in Ids \ {i} : manifest'[j] = manifest[j]
  BY <1>1 DEF PruneManifest, TypeOK
<1> QED
  BY <1>1, <1>2, <1>3 DEF Remaining, Holds

LEMMA HoldsKept ==
  ASSUME BInv, [Next]_vars, NEW j \in Ids, NEW s, Holds(j, s), manifest'[j] # NoObject
  PROVE  Holds(j, s)'
<1> USE DEF BInv
<1>1. CASE Tick \/ Load \/ UNCHANGED vars
  BY <1>1, EnvironmentMoves DEF Holds
<1>2. ASSUME NEW r \in Runs, Run(r) PROVE Holds(j, s)'
  <2>1. ~(j = id[r] /\ pc[r] = "manifest")
    BY DEF Holds, ManifestsOwned, Closed, OwnIds, Closing, Ids, NoId
  <2>2. manifest'[j] = manifest[j]
    BY <1>2, <2>1, ManifestMoves
  <2> QED
    BY <2>2 DEF Holds
<1> QED
  BY <1>1, <1>2 DEF Next

LEMMA ClockMoves ==
  ASSUME TypeOK, [Next]_vars
  PROVE  clock \in Nat /\ clock' \in Nat /\ clock' >= clock
<1>1. clock \in Nat
  BY DEF TypeOK, Ids
<1>2. clock' = clock \/ clock' = clock + 1
  <2>1. ASSUME NEW r \in Runs, Run(r) PROVE clock' = clock
    BY <2>1 DEF Run, Start, SkipStore, PutManifest, ManifestFails, BackupStore, BackupFails,
                ListManifests, PruneArtifact, PruneManifest, PruneFails, Finish, Crash
  <2> QED
    BY <2>1 DEF Next, Tick, Load, PublishLoad, RecordLoad, vars
<1> QED
  BY <1>1, <1>2

\* A reason to delete outlasts every step: time goes on, and when a newer bundle
\* that counted is itself pruned to nothing, what justified that counts as well.
LEMMA ReasonKept ==
  ASSUME BInv, Kept, "head" \notin Faults, [Next]_vars,
         NEW i \in Ids, NEW s \in Stores, Reason(s, i)
  PROVE  Reason(s, i)'
<1> USE DEF BInv
<1>1. s \in Retained /\ Keep[s] \in Nat /\ Days[s] \in Nat
  BY BackupAssumption DEF Reason
<1>2. i \in Nat /\ clock \in Nat /\ clock' \in Nat /\ clock' >= clock
  BY ClockMoves DEF Ids
<1>3. ASSUME NEW N \in SUBSET Ids, N \subseteq Newer(s, i)', Keep[s] > 0,
             Cardinality(N) >= Keep[s]
      PROVE  Reason(s, i)'
  <2> DEFINE M == Newer(s, i)'
  <2>1. M \in SUBSET Ids
    BY DEF Newer
  <2>2. Cardinality(N) \in Nat /\ Cardinality(M) \in Nat /\ Cardinality(N) <= Cardinality(M)
    BY <1>3, <2>1, CountedIds
  <2>3. Cardinality(M) >= Keep[s]
    BY <1>1, <1>3, <2>2
  <2> QED
    BY <1>1, <1>3, <2>3 DEF Reason
<1>4. CASE Days[s] > 0 /\ clock > i + Days[s]
  BY <1>1, <1>2, <1>4 DEF Reason
<1>5. CASE Keep[s] > 0 /\ Cardinality(Newer(s, i)) >= Keep[s]
  <2>1. CASE \A j \in Newer(s, i) : manifest'[j] # NoObject
    <3>1. Newer(s, i) \subseteq Newer(s, i)' /\ Newer(s, i) \in SUBSET Ids
      BY <2>1, HoldsKept DEF Newer
    <3> QED
      BY <1>3, <1>5, <3>1
  <2>2. ASSUME NEW j \in Newer(s, i), manifest'[j] = NoObject PROVE Reason(s, i)'
    <3>1. j \in Ids /\ j > i /\ j \in Nat /\ Holds(j, s) /\ manifest[j] # NoObject
      BY DEF Newer, Holds, Ids
    <3>2. PICK r \in Runs : Run(r)
      BY <2>2, <3>1, EnvironmentMoves DEF Next
    <3>3. artifact[s][j] = NoObject /\ \A k \in Ids \ {j} : manifest'[k] = manifest[k]
      BY <2>2, <3>1, <3>2, SweptIsEmpty
    <3>4. Reason(s, j)
      BY <3>1, <3>3 DEF Kept
    <3>5. CASE Days[s] > 0 /\ clock > j + Days[s]
      BY <1>1, <1>2, <3>1, <3>5 DEF Reason
    <3>6. CASE Keep[s] > 0 /\ Cardinality(Newer(s, j)) >= Keep[s]
      <4>1. ASSUME NEW k \in Newer(s, j) PROVE k \in Newer(s, i)'
        <5>1. k \in Ids /\ k > j /\ Holds(k, s)
          BY DEF Newer
        <5>2. k > i /\ k # j
          BY <1>2, <3>1, <5>1 DEF Ids
        <5> QED
          BY <3>3, <5>1, <5>2 DEF Newer, Holds
      <4>2. Newer(s, j) \subseteq Newer(s, i)' /\ Newer(s, j) \in SUBSET Ids
        BY <4>1 DEF Newer
      <4> QED
        BY <1>3, <3>6, <4>2
    <3> QED
      BY <3>4, <3>5, <3>6 DEF Reason
  <2> QED
    BY <2>1, <2>2
<1> QED
  BY <1>4, <1>5 DEF Reason

LEMMA KeptStep ==
  ASSUME RetentionInv, "head" \notin Faults, [Next]_vars
  PROVE  Kept'
<1> USE DEF RetentionInv
<1>1. ASSUME NEW i \in Ids, NEW s \in Stores, Holds(i, s), artifact[s][i] = NoObject
      PROVE  Reason(s, i)'
  BY <1>1, ReasonKept DEF Kept
<1>2. CASE Tick \/ Load \/ UNCHANGED vars
  BY <1>1, <1>2, EnvironmentMoves DEF Kept, Holds
<1>3. ASSUME NEW r \in Runs, Run(r), NEW i \in Ids, NEW s \in Stores, Holds(i, s)',
             artifact'[s][i] = NoObject
      PROVE  Reason(s, i)'
  <2> USE DEF BInv
  <2>1. CASE manifest'[i] = manifest[i]
    <3>1. Holds(i, s)
      BY <1>3, <2>1 DEF Holds
    <3>2. CASE artifact[s][i] = NoObject
      BY <1>1, <3>1, <3>2
    <3>3. CASE artifact[s][i] # NoObject
      <4>1. ArtifactFate(r, s, i)
        BY <1>3, ArtifactMoves
      <4>2. PICK d \in plan[r] : d.store = s /\ d.id = i
        BY <1>3, <3>3, <4>1 DEF ArtifactFate
      <4>3. Reason(s, i)
        BY <3>1, <4>2 DEF PlansJustified
      <4> QED
        BY <4>3, ReasonKept
    <3> QED
      BY <3>2, <3>3
  <2>2. CASE i = id[r] /\ pc[r] = "manifest" /\ manifest'[i].listed = result[r]
             /\ artifact' = artifact
    <3>1. s \in result[r]
      BY <1>3, <2>2 DEF Holds
    <3> QED
      BY <1>3, <2>2, <3>1 DEF ResultsThere
  <2>3. manifest'[i] # NoObject
    BY <1>3 DEF Holds
  <2> QED
    BY <1>3, <2>1, <2>2, <2>3, ManifestMoves
<1>4. CASE \E r \in Runs : Run(r)
  BY <1>3, <1>4 DEF Kept
<1> QED
  BY <1>2, <1>4 DEF Next

LEMMA JustifiedStep ==
  ASSUME RetentionInv, "head" \notin Faults, [Next]_vars
  PROVE  PlansJustified'
<1> USE DEF RetentionInv
<1>1. ASSUME NEW q \in Runs, NEW d \in plan[q], Holds(d.id, d.store)'
      PROVE  Reason(d.store, d.id)'
  <2>1. d.id \in Ids /\ d.store \in Stores /\ d.listed \in SUBSET Stores
    BY DEF BInv, TypeOK, Deletion
  <2>2. ListedAs(d.id, d.listed)
    BY DEF BInv, PlansClosed
  <2>3. Holds(d.id, d.store)
    <3>1. CASE Tick \/ Load \/ UNCHANGED vars
      BY <1>1, <3>1, EnvironmentMoves DEF Holds
    <3>2. ASSUME NEW r \in Runs, Run(r) PROVE Holds(d.id, d.store)
      <4>1. ~(d.id = id[r] /\ pc[r] = "manifest")
        BY <2>1, <2>2 DEF BInv, ListedAs, Closed, OwnIds, Closing, Ids, NoId
      <4>2. manifest'[d.id] = manifest[d.id]
        BY <1>1, <2>1, <3>2, <4>1, ManifestMoves DEF BInv, Holds
      <4> QED
        BY <1>1, <4>2 DEF Holds
    <3> QED
      BY <3>1, <3>2 DEF Next
  <2>4. Reason(d.store, d.id)
    BY <2>3 DEF PlansJustified
  <2> QED
    BY <2>1, <2>4, ReasonKept
<1>2. CASE Tick \/ Load \/ UNCHANGED vars
  BY <1>1, <1>2, EnvironmentMoves DEF PlansJustified
<1>3. ASSUME NEW r \in Runs, Run(r) PROVE PlansJustified'
  <2>1. ASSUME NEW d \in plan'[r], Holds(d.id, d.store)' PROVE Reason(d.store, d.id)'
    <3>1. CASE plan'[r] \subseteq plan[r]
      BY <1>1, <2>1, <3>1
    <3>2. ASSUME NEW readable \in SUBSET Present, plan'[r] = Doomed(r, readable)
          PROVE  Reason(d.store, d.id)'
      <4>1. d.id \in Ids /\ d.store \in Stores
        BY <3>2, DoomedEffect DEF BInv, Deletion
      <4>2. Reason(d.store, d.id)
        BY <3>2, DoomedHasReason DEF BInv
      <4> QED
        BY <4>1, <4>2, ReasonKept
    <3> QED
      BY <1>3, <3>1, <3>2, PlanMoves DEF BInv
  <2>2. \A q \in Runs \ {r} : plan'[q] = plan[q]
    BY <1>3, PlanMoves DEF BInv
  <2> QED
    BY <1>1, <2>1, <2>2 DEF PlansJustified
<1> QED
  BY <1>2, <1>3 DEF Next

\* The invariant of retention, with types, owners and plans, holds in every
\* reachable state of overlapping runs.
THEOREM RetentionInvariance ==
  ASSUME NoSameSecond, "head" \notin Faults
  PROVE  Spec => []RetentionInv
<1>1. Init => RetentionInv
  <2>1. Init => Kept /\ PlansJustified
    BY DEF Init, Kept, PlansJustified, Holds
  <2> QED
    BY <2>1, InitBInv DEF RetentionInv
<1>2. RetentionInv /\ [Next]_vars => RetentionInv'
  BY BInvStep, KeptStep, JustifiedStep DEF RetentionInv
<1> QED
  BY <1>1, <1>2, PTL DEF Spec

\* Retention never takes what a reader of the newest Keep bundles counts on,
\* whichever runs fail, crash or prune at the same time, if a HEAD request that
\* fails is not taken for a missing object (prune.py, _exists) and no two runs
\* share a second.
THEOREM RetentionKeepsNewest ==
  ASSUME NoSameSecond, "head" \notin Faults
  PROVE  Spec => []KeepsNewest
<1>1. RetentionInv => KeepsNewest
  BY DEF RetentionInv, BInv, Kept, Reason, Newer, KeepsNewest
<1> QED
  BY <1>1, RetentionInvariance, PTL

\* A manifest goes last, after every artifact it lists ("A manifest is deleted
\* only when every artifact it references is gone", prune.py).
THEOREM ManifestsOutlive ==
  ASSUME NoSameSecond, "head" \notin Faults
  PROVE  Spec => ManifestOutlives
<1>1. BInv /\ [Next]_vars =>
        [\A i \in Ids : Present' # Present /\ i \in Present \ Present' =>
           \A s \in manifest[i].listed : artifact[s][i] = NoObject]_vars
  <2> SUFFICES ASSUME BInv, [Next]_vars, NEW i \in Ids, i \in Present, i \notin Present',
                      NEW s \in manifest[i].listed
               PROVE  artifact[s][i] = NoObject
    OBVIOUS
  <2>1. manifest[i] # NoObject /\ manifest'[i] = NoObject
    BY DEF Present
  <2>2. PICK r \in Runs : Run(r)
    BY <2>1, EnvironmentMoves DEF Next
  <2>3. s \in Stores /\ Holds(i, s)
    BY <2>1, ManifestType DEF BInv, Holds
  <2> QED
    BY <2>1, <2>2, <2>3, SweptIsEmpty
<1> QED
  BY <1>1, BundleInvariance, PTL DEF Spec, ManifestOutlives

-----------------------------------------------------------------------------
(* What a bundle says of the loads.                                         *)

LEMMA LoadsMove ==
  ASSUME TypeOK, LoadOrder, Tick \/ Load \/ UNCHANGED vars
  PROVE  pg \in Nat /\ ch \in Nat /\ pg' \in Nat /\ ch' \in Nat /\ pg <= pg' /\ pg' <= ch'
<1>1. pg \in Nat /\ ch \in Nat
  BY BackupAssumption DEF TypeOK
<1> QED
  BY <1>1 DEF Tick, Load, PublishLoad, RecordLoad, LoadOrder, stores, vars

\* A run that has passed the databases does not come back to them.
LEMMA LateStays ==
  ASSUME TypeOK, NEW r \in Runs, Run(r), NEW q \in Runs,
         pc[q] \notin {"new", "postgres", "clickhouse"}
  PROVE  pc'[q] \notin {"new", "postgres", "clickhouse"}
<1>1. CASE q # r
  BY <1>1, PointMoves
<1>2. ASSUME NEW s \in Stores \ {"postgres", "clickhouse"}, Goto(r, s, Following(s))
      PROVE  pc'[r] \notin {"new", "postgres", "clickhouse"}
  <2>1. pc'[r] = Following(s)
    BY <1>2, GotoEffect, FollowingType
  <2> QED
    BY <2>1, FollowingValues DEF Stores
<1>3. CASE q = r
  <2>1. ASSUME NEW s \in Stores, Goto(r, s, Following(s))
        PROVE  pc'[r] \notin {"new", "postgres", "clickhouse"}
    BY <1>2, <1>3, <2>1 DEF Goto
  <2>2. CASE SkipStore(r) \/ \E s \in Stores : BackupStore(r, s) \/ BackupFails(r, s)
    BY <1>3, <2>1, <2>2 DEF SkipStore, BackupStore, BackupFails
  <2>3. CASE PutManifest(r) \/ ManifestFails(r) \/ ListManifests(r) \/ PruneFails(r) \/ Finish(r)
    BY <1>3, <2>3, GotoEffect
       DEF PutManifest, ManifestFails, ListManifests, PruneFails, Finish, RunPoints
  <2>4. CASE PruneArtifact(r) \/ PruneManifest(r) \/ Crash(r)
    BY <1>3, <2>4 DEF PruneArtifact, PruneManifest, Crash, TypeOK
  <2>5. ~Start(r)
    BY <1>3 DEF Start, Goto
  <2> QED
    BY <1>3, <2>2, <2>3, <2>4, <2>5 DEF Run
<1> QED
  BY <1>1, <1>3

\* PostgreSQL is dumped first, when it knows no more than ClickHouse has, and
\* ClickHouse only gets more until it is backed up.
LEMMA LoadOrderStep ==
  ASSUME BInv, LoadOrder, [Next]_vars
  PROVE  LoadOrder'
<1> USE DEF BInv
<1>0. pg \in Nat /\ ch \in Nat
  BY BackupAssumption DEF TypeOK
<1>1. \A s \in Stores, i \in Ids : artifact[s][i] # NoObject =>
        artifact[s][i].load \in Nat /\ artifact[s][i].by \in Runs
  BY ArtifactType, ObjectsAreReal, BackupAssumption
<1>2. CASE Tick \/ Load \/ UNCHANGED vars
  <2>1. UNCHANGED <<artifact, pc>>
    BY <1>2, EnvironmentMoves
  <2>2. pg' \in Nat /\ ch' \in Nat /\ pg <= pg' /\ pg' <= ch'
    BY <1>2, LoadsMove
  <2> QED
    BY <1>0, <1>1, <2>1, <2>2 DEF LoadOrder, Stores
<1>3. ASSUME NEW r \in Runs, Run(r) PROVE LoadOrder'
  <2>1. pg' = pg /\ ch' = ch
    BY <1>3 DEF Run, Start, SkipStore, PutManifest, ManifestFails, BackupStore, BackupFails,
                ListManifests, PruneArtifact, PruneManifest, PruneFails, Finish, Crash, stores
  <2>2. \A q \in Runs : pc[q] \notin {"new", "postgres", "clickhouse"} =>
                          pc'[q] \notin {"new", "postgres", "clickhouse"}
    BY <1>3, LateStays
  <2>3. ASSUME NEW i \in Ids, artifact'["postgres"][i] # NoObject
        PROVE  artifact'["postgres"][i].load <= pg
    <3>1. ArtifactFate(r, "postgres", i)
      BY <1>3, ArtifactMoves DEF Stores
    <3> QED
      BY <1>0, <2>3, <3>1 DEF ArtifactFate, Snapshot, LoadOrder
  <2>4. ASSUME NEW i \in Ids, artifact'["clickhouse"][i] # NoObject
        PROVE  pc'[artifact'["clickhouse"][i].by] \notin {"new", "postgres", "clickhouse"}
    <3>1. ArtifactFate(r, "clickhouse", i)
      BY <1>3, ArtifactMoves DEF Stores
    <3>2. CASE artifact'["clickhouse"][i] = artifact["clickhouse"][i]
      BY <1>1, <2>2, <2>4, <3>2 DEF LoadOrder, Stores
    <3>3. CASE artifact'["clickhouse"][i] # artifact["clickhouse"][i]
      BY <2>4, <3>1, <3>3, FollowingValues DEF ArtifactFate
    <3> QED
      BY <3>2, <3>3
  <2>5. ASSUME NEW i \in Ids, artifact'["postgres"][i] # NoObject,
               artifact'["clickhouse"][i] # NoObject
        PROVE  artifact'["postgres"][i].load <= artifact'["clickhouse"][i].load
    <3>1. ArtifactFate(r, "clickhouse", i) /\ ArtifactFate(r, "postgres", i)
      BY <1>3, ArtifactMoves DEF Stores
    <3>2. CASE artifact'["clickhouse"][i] # artifact["clickhouse"][i]
      <4>1. artifact'["clickhouse"][i].load = ch
        BY <2>5, <3>1, <3>2 DEF ArtifactFate, Snapshot
      <4>2. artifact'["postgres"][i].load <= pg /\ artifact'["postgres"][i].load \in Nat
        <5>1. artifact'["postgres"][i] = artifact["postgres"][i]
          BY <2>5, <3>1, <3>2 DEF ArtifactFate
        <5> QED
          BY <1>1, <2>3, <2>5, <5>1 DEF Stores
      <4> QED
        BY <1>0, <4>1, <4>2 DEF LoadOrder
    <3>3. CASE artifact'["clickhouse"][i] = artifact["clickhouse"][i]
      <4>1. ~(i = id[r] /\ pc[r] = "postgres")
        <5>1. artifact["clickhouse"][i].by \in Runs /\ id[artifact["clickhouse"][i].by] = i
          BY <1>1, <2>5, <3>3 DEF ArtifactsOwned, Stores
        <5>2. pc[artifact["clickhouse"][i].by] # "postgres"
          BY <2>5, <3>3 DEF LoadOrder
        <5> QED
          BY <5>1, <5>2 DEF OwnIds, Ids, NoId
      <4>2. artifact'["postgres"][i] = artifact["postgres"][i]
        BY <2>5, <3>1, <4>1 DEF ArtifactFate
      <4> QED
        BY <2>5, <3>3, <4>2 DEF LoadOrder
    <3> QED
      BY <3>2, <3>3
  <2> QED
    BY <2>1, <2>3, <2>4, <2>5 DEF LoadOrder
<1> QED
  BY <1>2, <1>3 DEF Next

\* As long as nothing but loads changes the databases, no bundle records a load
\* whose data it does not hold: the order in which run_backup visits the stores
\* is right for the order in which a load writes them.
THEOREM BundlesAreConsistent ==
  ASSUME NoSameSecond
  PROVE  Spec => []SnapshotOrder
<1>1. Init => LoadOrder
  BY DEF Init, LoadOrder, Stores
<1>2. LoadOrder => SnapshotOrder
  BY DEF LoadOrder, SnapshotOrder
<1>3. BInv /\ LoadOrder /\ [Next]_vars => LoadOrder'
  BY LoadOrderStep
<1> QED
  BY <1>1, <1>2, <1>3, BundleInvariance, PTL DEF Spec

-----------------------------------------------------------------------------
(* Restores and drills, while runs, prunes and loads go on beside them,    *)
(* from the invariant of the bundles.                                      *)

RType ==
  /\ at \in [Ops -> Points]
  /\ job \in [Ops -> Jobs \cup {NoJob}]
  /\ fetched \in [Ops -> 0..MaxLoads]
  /\ ok \in [Ops -> BOOLEAN]
  /\ side \in [Databases -> 0..NoSide]

\* A call works on a bundle that is closed; only real restores drop, only
\* drills count.
JobsRead ==
  \A o \in Ops :
    /\ at[o] = "new" <=> job[o] = NoJob
    /\ at[o] # "new" => job[o] \in Jobs /\ Closed(job[o].id)
    /\ at[o] \in {"drop", "restore"} => ~Drill(o)
    /\ at[o] \in {"pgcount", "chcount"} => Drill(o)

\* No real restore has begun.
Undisturbed == \A o \in Ops : job[o] = NoJob \/ job[o].drill
OrderUntilRestored == Undisturbed => LoadOrder

\* There is one call.
Lone == \A o, p \in Ops : o = p

\* The object a call restores from, while it is there, holds x.
Held(o, s, x) ==
  artifact[s][job[o].id] # NoObject => artifact[s][job[o].id].load = x

Counted(o, s) == s \in job[o].selected \cap DOMAIN job[o].counts

\* What a lone drill has in its side databases and has compared.
DrillsCompare ==
  Lone => \A o \in Ops : at[o] # "new" /\ Drill(o) =>
    /\ at[o] \notin {"fetch", "raised"} /\ Selected(o, "postgres") =>
         Held(o, "postgres", fetched[o])
    /\ at[o] = "pgcount" => Held(o, "postgres", side["postgres"])
    /\ at[o] = "chcount" => Held(o, "clickhouse", side["clickhouse"])
    /\ at[o] \in {"clickhouse", "chcount", "success"} /\ ok[o] /\ Counted(o, "postgres") =>
         Held(o, "postgres", job[o].counts["postgres"])
    /\ at[o] = "success" => ok[o]
    /\ at[o] = "success" /\ Counted(o, "clickhouse") =>
         Held(o, "clickhouse", job[o].counts["clickhouse"])

\* With nothing else running, real restores go one after the other, and what is
\* dropped without --force is empty.
Busy(o) == at[o] \notin Ended \cup {"new"} /\ ~Drill(o)
GuardHolds ==
  Quiet => /\ \A o, p \in Ops : Busy(o) /\ Busy(p) => o = p
           /\ \A o \in Ops : at[o] \in {"drop", "restore"} /\ ~job[o].force => ch = 0

\* The bundle of a lone real restore does not change under it.
BundleOrdered(i) ==
  artifact["postgres"][i] # NoObject /\ artifact["clickhouse"][i] # NoObject =>
    artifact["postgres"][i].load <= artifact["clickhouse"][i].load
RestoresTogether ==
  Quiet /\ Lone => \A o \in Ops : Busy(o) =>
    /\ BundleOrdered(job[o].id)
    /\ at[o] # "fetch" /\ Selected(o, "postgres") =>
         /\ artifact["postgres"][job[o].id] # NoObject
         /\ fetched[o] = artifact["postgres"][job[o].id].load
    /\ at[o] \in {"clickhouse", "drop", "restore"} /\ Selected(o, "postgres") =>
         pg = fetched[o]

RInv ==
  BInv /\ RType /\ JobsRead /\ OrderUntilRestored /\ DrillsCompare /\ GuardHolds
  /\ RestoresTogether

-----------------------------------------------------------------------------
(* What a step of a restore changes.                                        *)

LEMMA JobFields ==
  ASSUME NEW j \in Jobs
  PROVE  /\ j # NoJob /\ j.id \in Ids /\ j.by \in Runs /\ j.counts \in Counts
         /\ j.selected \in SUBSET Stores /\ j.drill \in BOOLEAN /\ j.force \in BOOLEAN
BY DEF Jobs, NoJob, Ids, NoId

LEMMA MoveEffect ==
  ASSUME RType, NEW o \in Ops, NEW from, NEW to \in Points, Move(o, from, to)
  PROVE  /\ at[o] = from /\ at' \in [Ops -> Points]
         /\ at'[o] = to /\ \A p \in Ops \ {o} : at'[p] = at[p]
BY DEF RType, Move

LEMMA VerdictPoints ==
  ASSUME NEW good
  PROVE  Verdict(good) \in Points /\ (Verdict(good) = "success" <=> good)
         /\ Verdict(good) \in {"success", "failed"}
BY DEF Verdict, Points

\* No restore touches a bundle or a run.
LEMMA RestoreFrame ==
  ASSUME NEW o \in Ops, RestoreStep(o)
  PROVE  UNCHANGED <<clock, artifact, manifest, pc, id, result, plan, sweeping>>
<1> USE DEF vars, stores, bundles, local
<1>1. ASSUME NEW s \in Databases, DrillRestore(o, s) \/ DrillCount(o, s)
      PROVE  UNCHANGED <<clock, artifact, manifest, pc, id, result, plan, sweeping>>
  BY <1>1 DEF DrillRestore, DrillCount
<1> QED
  BY <1>1 DEF RestoreStep, ReadManifest, FetchAndVerify, FetchRaises, RestorePostgres, SkipDatabase,
              GuardClickHouse, DropDatabases, RestoreClickHouse

LEMMA CountAtPoints ==
  ASSUME NEW s \in Databases
  PROVE  CountAt(s) \in {"pgcount", "chcount"} /\ CountAt(s) \in Points
         /\ (s = "postgres" => CountAt(s) = "pgcount") /\ (s = "clickhouse" => CountAt(s) = "chcount")
BY DEF CountAt, Databases, Points

LEMMA LeaveEffect ==
  ASSUME RType, NEW o \in Ops, NEW from, NEW s \in Databases, NEW good \in BOOLEAN,
         Leave(o, from, s, good)
  PROVE  /\ at[o] = from /\ at' \in [Ops -> Points]
         /\ \A p \in Ops \ {o} : at'[p] = at[p]
         /\ s = "postgres" => at'[o] = "clickhouse"
         /\ s = "clickhouse" => at'[o] = Verdict(good)
         /\ at'[o] \in {"clickhouse", "success", "failed"}
         /\ ok' \in [Ops -> BOOLEAN] /\ ok'[o] = good
<1>1. (IF s = "postgres" THEN "clickhouse" ELSE Verdict(good)) \in Points
  BY VerdictPoints DEF Points
<1>2. Move(o, from, IF s = "postgres" THEN "clickhouse" ELSE Verdict(good))
  BY DEF Leave
<1>3. /\ at[o] = from /\ at' \in [Ops -> Points]
      /\ at'[o] = IF s = "postgres" THEN "clickhouse" ELSE Verdict(good)
      /\ \A p \in Ops \ {o} : at'[p] = at[p]
  BY <1>1, <1>2, MoveEffect
<1>4. ok' \in [Ops -> BOOLEAN] /\ ok'[o] = good
  BY DEF Leave, RType
<1> QED
  BY <1>3, <1>4, VerdictPoints DEF Databases

LEMMA SourceIsLoad ==
  ASSUME BInv, RType, NEW o \in Ops, job[o] \in Jobs, NEW s \in Databases, NEW x \in Source(o, s)
  PROVE  /\ x \in 0..MaxLoads
         /\ s = "postgres" => x = fetched[o]
         /\ s = "clickhouse" => Held(o, "clickhouse", x)
<1>1. CASE s = "postgres"
  BY <1>1 DEF Source, RType
<1>2. CASE s = "clickhouse"
  <2>1. artifact[s][job[o].id] # NoObject /\ x = artifact[s][job[o].id].load
    BY <1>2 DEF Source
  <2>2. artifact[s][job[o].id] \in Artifact
    BY <1>2, <2>1, JobFields, ArtifactType DEF BInv, Stores
  <2> QED
    BY <1>2, <2>1, <2>2, ObjectsAreReal DEF Held
<1> QED
  BY <1>1, <1>2 DEF Databases

LEMMA IntactIsThere ==
  ASSUME BInv, NEW o \in Ops, job[o] \in Jobs, NEW s \in Stores, Intact(o, s)
  PROVE  artifact[s][job[o].id] # NoObject /\ artifact[s][job[o].id].load \in 0..MaxLoads
<1>1. artifact[s][job[o].id] # NoObject
  BY JobFields, BackupAssumption DEF Intact, NoObject
<1>2. artifact[s][job[o].id] \in Artifact
  BY <1>1, JobFields, ArtifactType DEF BInv
<1> QED
  BY <1>1, <1>2, ObjectsAreReal

\* A step of a call moves that call only, from where a call is under way.
LEMMA StepMoves ==
  ASSUME RType, JobsRead, NEW o \in Ops, RestoreStep(o)
  PROVE  /\ at' \in [Ops -> Points] /\ \A p \in Ops \ {o} : at'[p] = at[p]
         /\ \/ ReadManifest(o) /\ at[o] = "new" /\ at'[o] = "fetch"
            \/ /\ job' = job /\ at[o] \notin Ended \cup {"new"} /\ at'[o] \notin {"new", "fetch"}
               /\ at'[o] \in {"drop", "restore"} => ~Drill(o)
               /\ at'[o] \in {"pgcount", "chcount"} => Drill(o)
<1> USE DEF Ended
<1>1. CASE ReadManifest(o)
  BY <1>1, MoveEffect DEF ReadManifest, Points
<1>2. CASE FetchAndVerify(o)
  BY <1>2, MoveEffect DEF FetchAndVerify, Points
<1>3. CASE FetchRaises(o)
  BY <1>3, MoveEffect DEF FetchRaises, Points
<1>4. CASE RestorePostgres(o)
  BY <1>4, MoveEffect DEF RestorePostgres, Points
<1>5. CASE SkipDatabase(o)
  <2>1. Move(o, "postgres", "clickhouse") \/ Move(o, "clickhouse", Verdict(ok[o]))
    BY <1>5 DEF SkipDatabase
  <2>2. "clickhouse" \in Points /\ Verdict(ok[o]) \in Points
        /\ Verdict(ok[o]) \in {"success", "failed"}
    BY VerdictPoints DEF Points
  <2> QED
    BY <1>5, <2>1, <2>2, MoveEffect DEF SkipDatabase
<1>6. CASE GuardClickHouse(o)
  <2>1. (IF Guarded(o, ch) THEN "raised" ELSE "drop") \in Points
    BY DEF Points
  <2> QED
    BY <1>6, <2>1, MoveEffect DEF GuardClickHouse
<1>7. CASE DropDatabases(o)
  BY <1>7, MoveEffect DEF DropDatabases, Points, JobsRead
<1>8. CASE RestoreClickHouse(o)
  BY <1>8, MoveEffect DEF RestoreClickHouse, Points
<1>9. ASSUME NEW s \in Databases, DrillRestore(o, s)
      PROVE  /\ at' \in [Ops -> Points] /\ \A p \in Ops \ {o} : at'[p] = at[p]
             /\ job' = job /\ at[o] = s /\ Drill(o)
             /\ at'[o] \in {"pgcount", "chcount", "clickhouse", "success", "failed"}
  <2>1. Move(o, s, CountAt(s)) \/ Leave(o, s, s, FALSE)
    BY <1>9 DEF DrillRestore
  <2>2. /\ at' \in [Ops -> Points] /\ \A p \in Ops \ {o} : at'[p] = at[p]
        /\ at'[o] \in {"pgcount", "chcount", "clickhouse", "success", "failed"}
    <3>1. CASE Move(o, s, CountAt(s))
      BY <3>1, MoveEffect, CountAtPoints
    <3>2. CASE Leave(o, s, s, FALSE)
      BY <3>2, LeaveEffect
    <3> QED
      BY <2>1, <3>1, <3>2
  <2> QED
    BY <1>9, <2>2 DEF DrillRestore
<1>10. ASSUME NEW s \in Databases, DrillCount(o, s)
      PROVE  /\ at' \in [Ops -> Points] /\ \A p \in Ops \ {o} : at'[p] = at[p]
             /\ job' = job /\ at[o] \in {"pgcount", "chcount"}
             /\ at'[o] \in {"clickhouse", "success", "failed"}
  <2>1. (ok[o] /\ Matches(o, s)) \in BOOLEAN
    OBVIOUS
  <2>2. Leave(o, CountAt(s), s, ok[o] /\ Matches(o, s))
    BY <1>10 DEF DrillCount
  <2>3. /\ at' \in [Ops -> Points] /\ \A p \in Ops \ {o} : at'[p] = at[p]
        /\ at[o] = CountAt(s) /\ at'[o] \in {"clickhouse", "success", "failed"}
    BY <2>1, <2>2, LeaveEffect
  <2> QED
    BY <1>10, <2>3, CountAtPoints DEF DrillCount
<1> QED
  BY <1>1, <1>2, <1>3, <1>4, <1>5, <1>6, <1>7, <1>8, <1>9, <1>10 DEF RestoreStep, Databases

-----------------------------------------------------------------------------
(* The invariant, part by part.                                             *)

LEMMA ReadEffect ==
  ASSUME BInv, RType, NEW o \in Ops, ReadManifest(o)
  PROVE  \E j \in Jobs : /\ j.id \in Present
                         /\ Quiet /\ ~j.drill => ~Restoring
                         /\ job' = [job EXCEPT ![o] = j]
<1>1. PICK i \in Present, asked \in SUBSET Stores, drill, force \in BOOLEAN :
        /\ Quiet /\ ~drill => ~Restoring /\ ~BackingUp
        /\ job' = [job EXCEPT ![o] =
             [id |-> i, by |-> manifest[i].by, counts |-> manifest[i].counts,
              selected |-> (IF asked = {} THEN manifest[i].listed ELSE asked)
                              \cap manifest[i].listed,
              drill |-> drill, force |-> force]]
  BY DEF ReadManifest
<1>2. i \in Ids /\ manifest[i] # NoObject
  BY DEF Present
<1>3. manifest[i] \in Manifest
  BY <1>2, ManifestType DEF BInv
<1>4. manifest[i].by \in Runs /\ manifest[i].counts \in Counts /\ manifest[i].listed \in SUBSET Stores
  BY <1>3 DEF Manifest
<1> DEFINE j == [id |-> i, by |-> manifest[i].by, counts |-> manifest[i].counts,
                 selected |-> (IF asked = {} THEN manifest[i].listed ELSE asked)
                                 \cap manifest[i].listed,
                 drill |-> drill, force |-> force]
<1>5. j \in Jobs
  BY <1>2, <1>4 DEF Jobs
<1>6. j.id = i /\ j.drill = drill
  OBVIOUS
<1> QED
  BY <1>1, <1>5, <1>6

LEMMA RTypeStep ==
  ASSUME BInv, RType, JobsRead, NEW o \in Ops, RestoreStep(o)
  PROVE  RType' /\ pg' \in 0..MaxLoads /\ ch' \in 0..MaxLoads
<1> USE DEF vars, stores, bundles, local
<1>0. /\ at' \in [Ops -> Points] /\ pg \in 0..MaxLoads /\ ch \in 0..MaxLoads
      /\ at[o] # "new" => job[o] \in Jobs
  BY StepMoves DEF JobsRead, BInv, TypeOK
<1>1. CASE ReadManifest(o)
  <2>1. job' \in [Ops -> Jobs \cup {NoJob}]
    BY <1>1, ReadEffect DEF RType
  <2> QED
    BY <1>0, <1>1, <2>1 DEF ReadManifest, RType
<1>2. CASE FetchAndVerify(o)
  <2>1. at[o] = "fetch"
    BY <1>2 DEF FetchAndVerify, Move
  <2>2. Selected(o, "postgres") => artifact["postgres"][job[o].id].load \in 0..MaxLoads
    BY <1>0, <1>2, <2>1, IntactIsThere DEF FetchAndVerify, Fetched, Stores
  <2>3. fetched' \in [Ops -> 0..MaxLoads]
    BY <1>2, <2>2 DEF FetchAndVerify, RType
  <2> QED
    BY <1>0, <1>2, <2>3 DEF FetchAndVerify, RType
<1>3. CASE RestorePostgres(o)
  BY <1>0, <1>3 DEF RestorePostgres, RType
<1>4. CASE FetchRaises(o) \/ SkipDatabase(o) \/ GuardClickHouse(o)
  BY <1>0, <1>4 DEF FetchRaises, SkipDatabase, GuardClickHouse, RType
<1>5. CASE DropDatabases(o)
  BY <1>0, <1>5, BackupAssumption DEF DropDatabases, RType
<1>6. CASE RestoreClickHouse(o)
  <2>1. at[o] = "restore"
    BY <1>6 DEF RestoreClickHouse
  <2>2. artifact["clickhouse"][job[o].id] # NoObject =>
          artifact["clickhouse"][job[o].id].load \in 0..MaxLoads
    BY <1>0, <2>1, JobFields, ArtifactType, ObjectsAreReal DEF BInv, Stores
  <2>3. ch' \in 0..MaxLoads
    BY <1>0, <1>6, <2>2 DEF RestoreClickHouse
  <2> QED
    BY <1>0, <1>6, <2>3 DEF RestoreClickHouse, RType
<1>7. ASSUME NEW s \in Databases, DrillRestore(o, s)
      PROVE  RType' /\ pg' \in 0..MaxLoads /\ ch' \in 0..MaxLoads
  <2>1. at[o] = s /\ ok' \in [Ops -> BOOLEAN]
    BY <1>7, LeaveEffect DEF DrillRestore, RType
  <2>2. job[o] \in Jobs
    BY <1>0, <2>1 DEF Databases
  <2>3. \A x \in Source(o, s) : x \in 0..NoSide
    BY <2>2, SourceIsLoad, BackupAssumption DEF NoSide
  <2>4. NoSide \in 0..NoSide
    BY BackupAssumption DEF NoSide
  <2>5. side' \in [Databases -> 0..NoSide]
    BY <1>7, <2>3, <2>4 DEF DrillRestore, RType
  <2> QED
    BY <1>0, <1>7, <2>1, <2>5 DEF DrillRestore, RType
<1>8. ASSUME NEW s \in Databases, DrillCount(o, s)
      PROVE  RType' /\ pg' \in 0..MaxLoads /\ ch' \in 0..MaxLoads
  <2>1. ok' \in [Ops -> BOOLEAN]
    BY <1>8, LeaveEffect DEF DrillCount
  <2>2. NoSide \in 0..NoSide
    BY BackupAssumption DEF NoSide
  <2>3. side' \in [Databases -> 0..NoSide]
    BY <1>8, <2>2 DEF DrillCount, RType
  <2> QED
    BY <1>0, <1>8, <2>1, <2>3 DEF DrillCount, RType
<1> QED
  BY <1>1, <1>2, <1>3, <1>4, <1>5, <1>6, <1>7, <1>8 DEF RestoreStep

\* The bundles' invariant speaks of the databases only through their types.
LEMMA BundlesUnderRestore ==
  ASSUME BInv, RType, JobsRead, NEW o \in Ops, RestoreStep(o)
  PROVE  BInv'
<1>1. UNCHANGED <<clock, artifact, manifest, pc, id, result, plan, sweeping>>
  BY RestoreFrame
<1>2. pg' \in 0..MaxLoads /\ ch' \in 0..MaxLoads
  BY RTypeStep
<1>3. TypeOK'
  BY <1>1, <1>2 DEF BInv, TypeOK
<1>4. OwnIds' /\ ArtifactsOwned' /\ ManifestsOwned'
  BY <1>1 DEF BInv, OwnIds, ArtifactsOwned, ManifestsOwned, Closed
<1>5. ResultsThere' /\ PlansClosed'
  BY <1>1 DEF BInv, ResultsThere, PlansClosed, ListedAs, Closed
<1> QED
  BY <1>3, <1>4, <1>5 DEF BInv

LEMMA JobsStep ==
  ASSUME BInv, RType, JobsRead, NEW o \in Ops, RestoreStep(o)
  PROVE  JobsRead'
<1>1. UNCHANGED <<pc, id>>
  BY RestoreFrame
<1>2. RType' /\ \A p \in Ops \ {o} : at'[p] = at[p]
  BY RTypeStep, StepMoves
<1>3. CASE ReadManifest(o)
  <2>1. PICK j \in Jobs : j.id \in Present /\ job' = [job EXCEPT ![o] = j]
    BY <1>3, ReadEffect
  <2>2. job'[o] = j /\ \A p \in Ops \ {o} : job'[p] = job[p]
    BY <2>1 DEF RType
  <2>3. Closed(j.id) /\ j # NoJob
    BY <2>1, JobFields DEF Present, BInv, ManifestsOwned
  <2>4. at'[o] = "fetch"
    BY <1>3, StepMoves DEF Ended, ReadManifest, Move
  <2> QED
    BY <1>1, <1>2, <2>2, <2>3, <2>4 DEF JobsRead, Closed, Drill
<1>4. CASE /\ job' = job /\ at[o] # "new" /\ at'[o] # "new"
           /\ at'[o] \in {"drop", "restore"} => ~Drill(o)
           /\ at'[o] \in {"pgcount", "chcount"} => Drill(o)
  BY <1>1, <1>2, <1>4 DEF JobsRead, Closed, Drill
<1> QED
  BY <1>3, <1>4, StepMoves

\* While a run goes on beside it, the object of a closed bundle stays as it is
\* or is pruned.
LEMMA ObjectFrozen ==
  ASSUME BInv, [Next]_vars, NEW i \in Ids, Closed(i), NEW s \in Stores
  PROVE  artifact'[s][i] \in {artifact[s][i], NoObject}
<1>1. CASE Tick \/ Load \/ UNCHANGED vars
  BY <1>1, EnvironmentMoves
<1>2. ASSUME NEW r \in Runs, Run(r) PROVE artifact'[s][i] \in {artifact[s][i], NoObject}
  <2>1. ~(i = id[r] /\ pc[r] = s)
    BY DEF Closed, BInv, OwnIds, Closing, Ids, NoId, Stores
  <2>2. ArtifactFate(r, s, i)
    BY <1>2, ArtifactMoves DEF BInv
  <2> QED
    BY <2>1, <2>2 DEF ArtifactFate
<1> QED
  BY <1>1, <1>2 DEF Next

LEMMA HeldKept ==
  ASSUME BInv, RType, JobsRead, NEW o \in Ops, at[o] # "new", NEW s \in Databases, NEW x,
         Held(o, s, x), job' = job,
         [Next]_vars \/ artifact' = artifact
  PROVE  artifact'[s][job'[o].id] # NoObject => artifact'[s][job'[o].id].load = x
<1>1. job[o].id \in Ids /\ Closed(job[o].id) /\ s \in Stores
  BY JobFields DEF JobsRead, Databases, Stores
<1>2. artifact'[s][job[o].id] \in {artifact[s][job[o].id], NoObject}
  BY <1>1, ObjectFrozen
<1> QED
  BY <1>2 DEF Held

\* What stays: the drill itself does nothing, others do.
LEMMA DrillsUntouched ==
  ASSUME BInv, RType, JobsRead, DrillsCompare, UNCHANGED rvars,
         [Next]_vars \/ artifact' = artifact
  PROVE  DrillsCompare'
<1> SUFFICES ASSUME Lone, NEW o \in Ops, at[o] # "new", Drill(o)
             PROVE  /\ at[o] \notin {"fetch", "raised"} /\ Selected(o, "postgres") =>
                         Held(o, "postgres", fetched[o])'
                    /\ at[o] = "pgcount" => Held(o, "postgres", side["postgres"])'
                    /\ at[o] = "chcount" => Held(o, "clickhouse", side["clickhouse"])'
                    /\ at[o] \in {"clickhouse", "chcount", "success"} /\ ok[o]
                         /\ Counted(o, "postgres") =>
                         Held(o, "postgres", job[o].counts["postgres"])'
                    /\ at[o] = "success" => ok[o]
                    /\ at[o] = "success" /\ Counted(o, "clickhouse") =>
                         Held(o, "clickhouse", job[o].counts["clickhouse"])'
  BY DEF DrillsCompare, rvars, Lone, Drill, Selected, Counted
<1>1. \A s \in Databases : \A x : Held(o, s, x) =>
         (artifact'[s][job'[o].id] # NoObject => artifact'[s][job'[o].id].load = x)
  BY HeldKept DEF rvars
<1>2. "postgres" \in Databases /\ "clickhouse" \in Databases
  BY DEF Databases
<1>3. /\ Held(o, "postgres", fetched[o]) => Held(o, "postgres", fetched[o])'
      /\ Held(o, "postgres", side["postgres"]) => Held(o, "postgres", side["postgres"])'
      /\ Held(o, "clickhouse", side["clickhouse"]) => Held(o, "clickhouse", side["clickhouse"])'
      /\ Held(o, "postgres", job[o].counts["postgres"]) =>
           Held(o, "postgres", job[o].counts["postgres"])'
      /\ Held(o, "clickhouse", job[o].counts["clickhouse"]) =>
           Held(o, "clickhouse", job[o].counts["clickhouse"])'
  BY <1>1, <1>2 DEF Held, rvars
<1> QED
  BY <1>3 DEF DrillsCompare

LEMMA DrillsStep ==
  ASSUME BInv, RType, JobsRead, DrillsCompare, NEW o \in Ops, RestoreStep(o)
  PROVE  DrillsCompare'
<1> SUFFICES ASSUME Lone, at'[o] # "new", Drill(o)'
             PROVE  /\ at'[o] \notin {"fetch", "raised"} /\ Selected(o, "postgres")' =>
                         Held(o, "postgres", fetched[o])'
                    /\ at'[o] = "pgcount" => Held(o, "postgres", side["postgres"])'
                    /\ at'[o] = "chcount" => Held(o, "clickhouse", side["clickhouse"])'
                    /\ at'[o] \in {"clickhouse", "chcount", "success"} /\ ok'[o]
                         /\ Counted(o, "postgres")' =>
                         Held(o, "postgres", job[o].counts["postgres"])'
                    /\ at'[o] = "success" => ok'[o]
                    /\ at'[o] = "success" /\ Counted(o, "clickhouse")' =>
                         Held(o, "clickhouse", job[o].counts["clickhouse"])'
  BY DEF DrillsCompare, Lone
<1>0. artifact' = artifact
  BY RestoreFrame
<1>1. CASE ReadManifest(o)
  <2>1. at'[o] = "fetch"
    BY <1>1, StepMoves DEF Ended, ReadManifest, Move
  <2> QED
    BY <2>1
<1>2. CASE /\ job' = job /\ at[o] \notin Ended \cup {"new"}
           /\ at'[o] \in {"drop", "restore"} => ~Drill(o)
  <2>0. Drill(o) /\ job[o] \in Jobs
    BY <1>2 DEF Drill, JobsRead
  <2> USE DEF Held, Selected, Counted
  <2>1. /\ at[o] # "fetch" /\ Selected(o, "postgres") => Held(o, "postgres", fetched[o])
        /\ at[o] = "pgcount" => Held(o, "postgres", side["postgres"])
        /\ at[o] = "chcount" => Held(o, "clickhouse", side["clickhouse"])
        /\ at[o] \in {"clickhouse", "chcount"} /\ ok[o] /\ Counted(o, "postgres") =>
             Held(o, "postgres", job[o].counts["postgres"])
    BY <1>2, <2>0 DEF DrillsCompare, Ended
  <2>2. CASE FetchAndVerify(o)
    <3>1. at'[o] = "postgres"
      BY <2>2, MoveEffect DEF FetchAndVerify, Points
    <3>2. Selected(o, "postgres") => fetched'[o] = artifact["postgres"][job[o].id].load
      BY <2>2 DEF FetchAndVerify, RType
    <3> QED
      BY <1>0, <1>2, <3>1, <3>2
  <2>3. CASE FetchRaises(o)
    <3>1. at'[o] = "raised"
      BY <2>3, MoveEffect DEF FetchRaises, Points
    <3> QED
      BY <3>1
  <2>4. CASE SkipDatabase(o)
    <3>1. fetched' = fetched /\ ok' = ok
      BY <2>4 DEF SkipDatabase
    <3>2. CASE Move(o, "postgres", "clickhouse") /\ ~Selected(o, "postgres")
      <4>1. at'[o] = "clickhouse"
        BY <3>2, MoveEffect DEF Points
      <4> QED
        BY <1>2, <3>2, <4>1
    <3>3. CASE Move(o, "clickhouse", Verdict(ok[o])) /\ ~Selected(o, "clickhouse")
      <4>1. at[o] = "clickhouse" /\ at'[o] = Verdict(ok[o])
        BY <3>3, MoveEffect, VerdictPoints
      <4>2. at'[o] \in {"success", "failed"} /\ (at'[o] = "success" => ok[o])
        BY <4>1, VerdictPoints
      <4> QED
        BY <1>0, <1>2, <2>1, <3>1, <3>3, <4>1, <4>2
    <3> QED
      BY <2>4, <3>2, <3>3 DEF SkipDatabase
  <2>5. CASE RestorePostgres(o) \/ GuardClickHouse(o) \/ DropDatabases(o) \/ RestoreClickHouse(o)
    BY <2>0, <2>5 DEF RestorePostgres, GuardClickHouse, DropDatabases, RestoreClickHouse,
                      JobsRead, Move
  <2>6. CASE DrillRestore(o, "postgres")
    <3>1. at[o] = "postgres" /\ fetched' = fetched
      BY <2>6 DEF DrillRestore
    <3>2. ASSUME Move(o, "postgres", CountAt("postgres")), NEW x \in Source(o, "postgres"),
                 side' = [side EXCEPT !["postgres"] = x], Selected(o, "postgres")
          PROVE  at'[o] = "pgcount" /\ side'["postgres"] = fetched[o]
      BY <3>2, MoveEffect, CountAtPoints DEF Source, RType, Databases
    <3>3. ASSUME Leave(o, "postgres", "postgres", FALSE)
          PROVE  at'[o] = "clickhouse" /\ ~ok'[o]
      BY <3>3, LeaveEffect DEF Databases
    <3> QED
      BY <1>0, <1>2, <2>1, <2>6, <3>1, <3>2, <3>3 DEF DrillRestore
  <2>7. CASE DrillRestore(o, "clickhouse")
    <3>1. at[o] = "clickhouse" /\ fetched' = fetched
      BY <2>7 DEF DrillRestore
    <3>2. ASSUME Move(o, "clickhouse", CountAt("clickhouse")), ok' = ok,
                 NEW x \in Source(o, "clickhouse"), side' = [side EXCEPT !["clickhouse"] = x]
          PROVE  /\ at'[o] = "chcount" /\ ok'[o] = ok[o]
                 /\ Held(o, "clickhouse", side'["clickhouse"])
      <4>1. at'[o] = "chcount"
        BY <3>2, MoveEffect, CountAtPoints DEF Databases
      <4>2. side'["clickhouse"] = x
        BY <3>2 DEF RType, Databases
      <4> QED
        BY <2>0, <3>2, <4>1, <4>2, SourceIsLoad DEF Databases
    <3>3. ASSUME Leave(o, "clickhouse", "clickhouse", FALSE)
          PROVE  at'[o] = "failed"
      BY <3>3, LeaveEffect DEF Databases, Verdict
    <3>4. CASE Leave(o, "clickhouse", "clickhouse", FALSE)
      BY <1>0, <1>2, <2>1, <3>1, <3>3, <3>4
    <3>5. CASE /\ at'[o] = "chcount" /\ ok'[o] = ok[o]
               /\ Held(o, "clickhouse", side'["clickhouse"])
      BY <1>0, <1>2, <2>1, <3>1, <3>5
    <3> QED
      BY <2>7, <3>2, <3>4, <3>5 DEF DrillRestore
  <2>8. CASE DrillCount(o, "postgres")
    <3>1. (ok[o] /\ Matches(o, "postgres")) \in BOOLEAN
      OBVIOUS
    <3>2. /\ at[o] = "pgcount" /\ at'[o] = "clickhouse" /\ fetched' = fetched
          /\ ok'[o] = (ok[o] /\ Matches(o, "postgres"))
      BY <2>8, <3>1, LeaveEffect, CountAtPoints DEF DrillCount, Databases
    <3> QED
      BY <1>0, <1>2, <2>1, <3>2 DEF Matches
  <2>9. CASE DrillCount(o, "clickhouse")
    <3>1. (ok[o] /\ Matches(o, "clickhouse")) \in BOOLEAN
      OBVIOUS
    <3>2. /\ at[o] = "chcount" /\ at'[o] = Verdict(ok[o] /\ Matches(o, "clickhouse"))
          /\ fetched' = fetched /\ ok'[o] = (ok[o] /\ Matches(o, "clickhouse"))
      BY <2>9, <3>1, LeaveEffect, CountAtPoints DEF DrillCount, Databases
    <3>3. at'[o] \in {"success", "failed"} /\ (at'[o] = "success" <=> ok'[o])
      BY <3>2, VerdictPoints
    <3> QED
      BY <1>0, <1>2, <2>1, <3>2, <3>3 DEF Matches
  <2>10. ~ReadManifest(o)
    BY <1>2 DEF ReadManifest, Move
  <2> QED
    BY <2>2, <2>3, <2>4, <2>5, <2>6, <2>7, <2>8, <2>9, <2>10 DEF RestoreStep, Databases
<1> QED
  BY <1>1, <1>2, StepMoves

\* Only a call that has passed the guard drops and restores.
LEMMA NoDropElsewhere ==
  ASSUME RType, NEW o \in Ops, RestoreStep(o), ~(GuardClickHouse(o) \/ DropDatabases(o)),
         at[o] \notin Ended \cup {"new"}
  PROVE  at'[o] \notin {"drop", "restore"}
<1>1. CASE FetchAndVerify(o)
  BY <1>1, MoveEffect DEF FetchAndVerify, Points
<1>2. CASE FetchRaises(o)
  BY <1>2, MoveEffect DEF FetchRaises, Points
<1>3. CASE RestorePostgres(o)
  BY <1>3, MoveEffect DEF RestorePostgres, Points
<1>4. CASE SkipDatabase(o)
  <2>1. CASE Move(o, "postgres", "clickhouse")
    BY <2>1, MoveEffect DEF Points
  <2>2. CASE Move(o, "clickhouse", Verdict(ok[o]))
    BY <2>2, MoveEffect, VerdictPoints
  <2> QED
    BY <1>4, <2>1, <2>2 DEF SkipDatabase
<1>5. CASE RestoreClickHouse(o)
  BY <1>5, MoveEffect DEF RestoreClickHouse, Points
<1>6. ASSUME NEW s \in Databases, DrillRestore(o, s) PROVE at'[o] \notin {"drop", "restore"}
  <2>1. CASE Move(o, s, CountAt(s))
    BY <2>1, MoveEffect, CountAtPoints
  <2>2. CASE Leave(o, s, s, FALSE)
    BY <2>2, LeaveEffect
  <2> QED
    BY <1>6, <2>1, <2>2 DEF DrillRestore
<1>7. ASSUME NEW s \in Databases, DrillCount(o, s) PROVE at'[o] \notin {"drop", "restore"}
  <2>1. (ok[o] /\ Matches(o, s)) \in BOOLEAN
    OBVIOUS
  <2> QED
    BY <1>7, <2>1, LeaveEffect DEF DrillCount
<1>8. ~ReadManifest(o)
  BY DEF ReadManifest, Move
<1> QED
  BY <1>1, <1>2, <1>3, <1>4, <1>5, <1>6, <1>7, <1>8 DEF RestoreStep

LEMMA GuardStep ==
  ASSUME RType, JobsRead, GuardHolds, BInv, NEW o \in Ops, RestoreStep(o)
  PROVE  GuardHolds'
<1> SUFFICES ASSUME Quiet
             PROVE  /\ \A p, q \in Ops : Busy(p)' /\ Busy(q)' => p = q
                    /\ \A p \in Ops : at'[p] \in {"drop", "restore"} /\ ~job'[p].force => ch' = 0
  BY DEF GuardHolds
<1>0. /\ \A p, q \in Ops : Busy(p) /\ Busy(q) => p = q
      /\ \A p \in Ops : at[p] \in {"drop", "restore"} /\ ~job[p].force => ch = 0
      /\ \A p \in Ops \ {o} : at'[p] = at[p]
  BY StepMoves DEF GuardHolds
<1>1. CASE ReadManifest(o)
  <2>2. at'[o] = "fetch" /\ ch' = ch
    BY <1>1, StepMoves DEF Ended, ReadManifest, Move, vars, stores
  <2>3. \A p \in Ops \ {o} : job'[p] = job[p]
    BY <1>1 DEF ReadManifest, RType
  <2>4. \A p \in Ops \ {o} : Busy(p)' <=> Busy(p)
    BY <1>0, <2>3 DEF Busy, Drill
  <2>5. Busy(o)' => \A p \in Ops \ {o} : ~Busy(p)
    <3>1. PICK i \in Jobs : /\ Quiet /\ ~i.drill => ~Restoring
                            /\ job' = [job EXCEPT ![o] = i]
      BY <1>1, ReadEffect
    <3>2. job'[o] = i
      BY <3>1 DEF RType
    <3> QED
      BY <3>1, <3>2 DEF Busy, Restoring, Drill
  <2> QED
    BY <1>0, <2>2, <2>3, <2>4, <2>5
<1>2. CASE job' = job /\ at[o] \notin Ended \cup {"new"}
  <2>1. \A p \in Ops : Busy(p)' => Busy(p)
    BY <1>0, <1>2 DEF Busy, Drill
  <2>2. \A p, q \in Ops : Busy(p)' /\ Busy(q)' => p = q
    BY <1>0, <2>1
  <2>3. \A p \in Ops : at[p] \in {"drop", "restore"} => Busy(p)
    BY DEF JobsRead, Busy, Ended
  <2>4. ~Drill(o) => \A p \in Ops \ {o} : at[p] \notin {"drop", "restore"}
    BY <1>0, <1>2, <2>3 DEF Busy
  <2>5. ch' = ch \/ ~Drill(o)
    <3>1. ASSUME NEW s \in Databases, DrillRestore(o, s) \/ DrillCount(o, s) PROVE ch' = ch
      BY <3>1 DEF DrillRestore, DrillCount, vars, stores
    <3> QED
      BY <3>1 DEF RestoreStep, ReadManifest, FetchAndVerify, FetchRaises, RestorePostgres,
                  SkipDatabase, GuardClickHouse, DropDatabases, RestoreClickHouse, Move,
                  JobsRead, vars, stores
  <2>6. \A p \in Ops \ {o} : at'[p] \in {"drop", "restore"} /\ ~job'[p].force => ch' = 0
    BY <1>0, <1>2, <2>4, <2>5
  <2>7. at'[o] \in {"drop", "restore"} /\ ~job'[o].force => ch' = 0
    <3>1. CASE GuardClickHouse(o)
      <4>1. ch' = ch /\ at'[o] = IF Guarded(o, ch) THEN "raised" ELSE "drop"
        BY <3>1 DEF GuardClickHouse, Move, RType, vars, stores
      <4> QED
        BY <1>2, <4>1 DEF Guarded
    <3>2. CASE DropDatabases(o)
      BY <3>2 DEF DropDatabases
    <3>3. CASE ~(GuardClickHouse(o) \/ DropDatabases(o))
      <4>1. at'[o] \notin {"drop", "restore"}
        BY <1>2, <3>3, NoDropElsewhere
      <4> QED
        BY <4>1
    <3> QED
      BY <3>1, <3>2, <3>3
  <2> QED
    BY <2>2, <2>6, <2>7
<1> QED
  BY <1>1, <1>2, StepMoves

LEMMA TogetherStep ==
  ASSUME BInv, RType, JobsRead, OrderUntilRestored, RestoresTogether, NEW o \in Ops, RestoreStep(o)
  PROVE  RestoresTogether'
<1> SUFFICES ASSUME Quiet, Lone, Busy(o)'
             PROVE  /\ BundleOrdered(job[o].id)'
                    /\ at'[o] # "fetch" /\ Selected(o, "postgres")' =>
                         /\ artifact'["postgres"][job'[o].id] # NoObject
                         /\ fetched'[o] = artifact'["postgres"][job'[o].id].load
                    /\ at'[o] \in {"clickhouse", "drop", "restore"} /\ Selected(o, "postgres")' =>
                         pg' = fetched'[o]
  BY DEF RestoresTogether, Lone
<1>0. artifact' = artifact
  BY RestoreFrame
<1>1. CASE ReadManifest(o)
  <2>1. PICK j \in Jobs : job' = [job EXCEPT ![o] = j]
    BY <1>1, ReadEffect
  <2>2. job'[o] = j /\ j.id \in Ids
    BY <2>1, JobFields DEF RType
  <2>3. Undisturbed
    BY <1>1 DEF Undisturbed, Lone, JobsRead, ReadManifest, Move
  <2>4. BundleOrdered(j.id)
    BY <2>2, <2>3 DEF OrderUntilRestored, LoadOrder, BundleOrdered
  <2>5. at'[o] = "fetch"
    BY <1>1, StepMoves DEF Ended, ReadManifest, Move
  <2> QED
    BY <1>0, <2>2, <2>4, <2>5 DEF BundleOrdered
<1>2. CASE job' = job /\ at[o] \notin Ended \cup {"new"}
  <2>1. Busy(o) /\ ~Drill(o) /\ job[o] \in Jobs
    BY <1>2 DEF Busy, Drill, JobsRead
  <2>2. /\ BundleOrdered(job[o].id)
        /\ at[o] # "fetch" /\ Selected(o, "postgres") =>
             /\ artifact["postgres"][job[o].id] # NoObject
             /\ fetched[o] = artifact["postgres"][job[o].id].load
        /\ at[o] \in {"clickhouse", "drop", "restore"} /\ Selected(o, "postgres") =>
             pg = fetched[o]
    BY <2>1 DEF RestoresTogether
  <2>3. BundleOrdered(job[o].id)'
    BY <1>0, <1>2, <2>2 DEF BundleOrdered
  <2>4. at'[o] \notin Ended
    BY DEF Busy
  <2> USE DEF Ended, Selected, vars, stores
  <2>5. CASE FetchAndVerify(o)
    <3>1. at'[o] = "postgres"
      BY <2>5, MoveEffect DEF FetchAndVerify, Points
    <3>2. Selected(o, "postgres") =>
            /\ artifact["postgres"][job[o].id] # NoObject
            /\ fetched'[o] = artifact["postgres"][job[o].id].load
      <4>1. Selected(o, "postgres") => Intact(o, "postgres")
        BY <2>5 DEF FetchAndVerify, Fetched
      <4> QED
        BY <2>1, <2>5, <4>1, IntactIsThere DEF FetchAndVerify, RType, Stores
    <3> QED
      BY <1>0, <1>2, <2>3, <3>1, <3>2
  <2>6. CASE RestorePostgres(o)
    <3>1. at[o] = "postgres" /\ at'[o] \in {"clickhouse", "raised"} /\ fetched' = fetched
      BY <2>6, MoveEffect DEF RestorePostgres, Points
    <3>2. at'[o] = "clickhouse" => pg' = fetched[o]
      BY <2>6, MoveEffect DEF RestorePostgres, Points
    <3> QED
      BY <1>0, <1>2, <2>2, <2>3, <2>4, <3>1, <3>2
  <2>7. CASE SkipDatabase(o)
    <3>1. fetched' = fetched /\ pg' = pg
      BY <2>7 DEF SkipDatabase
    <3>2. at'[o] = "clickhouse" /\ ~Selected(o, "postgres")
      <4>1. CASE Move(o, "postgres", "clickhouse") /\ ~Selected(o, "postgres")
        BY <4>1, MoveEffect DEF Points
      <4>2. CASE Move(o, "clickhouse", Verdict(ok[o]))
        BY <2>4, <4>2, MoveEffect, VerdictPoints
      <4> QED
        BY <2>7, <4>1, <4>2 DEF SkipDatabase
    <3> QED
      BY <1>2, <2>3, <3>2
  <2>8. CASE GuardClickHouse(o)
    <3>1. at[o] = "clickhouse" /\ fetched' = fetched /\ pg' = pg
      BY <2>8 DEF GuardClickHouse
    <3> QED
      BY <1>0, <1>2, <2>2, <2>3, <3>1
  <2>9. CASE DropDatabases(o)
    <3>1. at[o] = "drop" /\ fetched' = fetched /\ pg' = pg
      BY <2>9 DEF DropDatabases, Move
    <3> QED
      BY <1>0, <1>2, <2>2, <2>3, <3>1
  <2>10. CASE RestoreClickHouse(o) \/ FetchRaises(o)
    BY <2>4, <2>10, MoveEffect DEF RestoreClickHouse, FetchRaises, Points
  <2>11. ASSUME NEW s \in Databases, DrillRestore(o, s) \/ DrillCount(o, s) PROVE FALSE
    BY <2>1, <2>11, CountAtPoints DEF DrillRestore, DrillCount, Leave, Move, JobsRead
  <2>12. ~ReadManifest(o)
    BY <1>2 DEF ReadManifest, Move
  <2> QED
    BY <2>5, <2>6, <2>7, <2>8, <2>9, <2>10, <2>11, <2>12 DEF RestoreStep
<1> QED
  BY <1>1, <1>2, StepMoves

\* Only a real restore changes a database, and then the loads are no longer
\* ordered.
LEMMA RestoreChanges ==
  ASSUME RType, JobsRead, NEW o \in Ops, RestoreStep(o)
  PROVE  /\ \/ pg' = pg /\ ch' = ch
            \/ at[o] # "new" /\ ~Drill(o) /\ job' = job
         /\ pg' # pg => RestorePostgres(o)
         /\ ch' # ch => DropDatabases(o) \/ RestoreClickHouse(o)
<1> USE DEF vars, stores
<1>1. ASSUME NEW s \in Databases, DrillRestore(o, s) \/ DrillCount(o, s) PROVE pg' = pg /\ ch' = ch
  BY <1>1 DEF DrillRestore, DrillCount
<1>2. CASE RestorePostgres(o) \/ DropDatabases(o) \/ RestoreClickHouse(o)
  BY <1>2 DEF RestorePostgres, DropDatabases, RestoreClickHouse, Move, JobsRead
<1>3. CASE \/ ReadManifest(o) \/ FetchAndVerify(o) \/ FetchRaises(o) \/ SkipDatabase(o)
           \/ GuardClickHouse(o)
  BY <1>3 DEF ReadManifest, FetchAndVerify, FetchRaises, SkipDatabase, GuardClickHouse
<1> QED
  BY <1>1, <1>2, <1>3 DEF RestoreStep

LEMMA OrderStep ==
  ASSUME BInv, RType, JobsRead, OrderUntilRestored, NEW o \in Ops, RestoreStep(o)
  PROVE  OrderUntilRestored'
<1> SUFFICES ASSUME Undisturbed' PROVE LoadOrder'
  BY DEF OrderUntilRestored
<1>1. UNCHANGED <<artifact, pc>>
  BY RestoreFrame
<1>2. Undisturbed
  <2>1. CASE ReadManifest(o)
    <3>1. PICK j \in Jobs : job' = [job EXCEPT ![o] = j]
      BY <2>1, ReadEffect
    <3> QED
      BY <2>1, <3>1 DEF Undisturbed, ReadManifest, Move, JobsRead, RType
  <2>2. CASE job' = job
    BY <2>2 DEF Undisturbed
  <2> QED
    BY <2>1, <2>2, StepMoves
<1>3. pg' = pg /\ ch' = ch
  <2>1. ~(at[o] # "new" /\ ~Drill(o) /\ job' = job)
    BY <1>2 DEF Undisturbed, JobsRead, Drill
  <2> QED
    BY <2>1, RestoreChanges
<1> QED
  BY <1>1, <1>2, <1>3 DEF OrderUntilRestored, LoadOrder

LEMMA InitRInv == RInit => RInv
<1> SUFFICES ASSUME RInit PROVE RInv
  OBVIOUS
<1>1. BInv /\ LoadOrder
  BY InitBInv DEF RInit, Init, LoadOrder, Stores
<1>2. RType
  BY BackupAssumption DEF RInit, RType, Points, NoSide
<1>3. JobsRead /\ OrderUntilRestored
  BY <1>1 DEF RInit, JobsRead, OrderUntilRestored, Drill
<1>4. DrillsCompare /\ GuardHolds /\ RestoresTogether
  BY DEF RInit, DrillsCompare, GuardHolds, RestoresTogether, Busy, Ended
<1> QED
  BY <1>1, <1>2, <1>3, <1>4 DEF RInv

LEMMA RInvStep ==
  ASSUME NoSameSecond
  PROVE  RInv /\ [RNext]_allvars => RInv'
<1> SUFFICES ASSUME RInv, [RNext]_allvars PROVE RInv'
  OBVIOUS
<1> USE DEF RInv
<1>1. ASSUME [Next]_vars, UNCHANGED rvars, (Quiet => ~Restoring) \/ UNCHANGED vars PROVE RInv'
  <2>1. BInv'
    BY <1>1, BInvStep
  <2>2. RType'
    BY <1>1 DEF RType, rvars
  <2>3. JobsRead'
    <3>1. \A i \in Ids : Closed(i) => Closed(i)'
      BY <1>1, IdsStay DEF BInv
    <3>2. ASSUME NEW o \in Ops, at[o] # "new" PROVE job[o] \in Jobs /\ Closed(job[o].id)'
      <4>1. job[o] \in Jobs /\ Closed(job[o].id) /\ job[o].id \in Ids
        BY <3>2, JobFields DEF JobsRead
      <4>2. ASSUME NEW i \in Ids, i = job[o].id PROVE Closed(job[o].id)'
        <5>1. Closed(i)'
          BY <3>1, <4>1, <4>2
        <5> QED
          BY <1>1, <4>2, <5>1 DEF Closed, rvars
      <4> QED
        BY <4>1, <4>2
    <3> QED
      BY <1>1, <3>2 DEF JobsRead, rvars, Drill
  <2>4. OrderUntilRestored'
    BY <1>1, LoadOrderStep DEF OrderUntilRestored, Undisturbed, rvars
  <2>5. DrillsCompare'
    BY <1>1, DrillsUntouched
  <2>6. CASE UNCHANGED vars
    BY <1>1, <2>1, <2>2, <2>3, <2>4, <2>5, <2>6
       DEF GuardHolds, RestoresTogether, BundleOrdered, Busy, Drill, Selected, rvars, vars, stores,
           bundles
  <2>7. CASE Quiet => ~Restoring
    <3>1. Quiet => \A o \in Ops : ~Busy(o) /\ at[o] \notin {"drop", "restore"}
      BY <2>7 DEF Restoring, Busy, JobsRead, Ended
    <3>2. Quiet => \A o \in Ops : ~Busy(o)' /\ at'[o] \notin {"drop", "restore"}
      BY <1>1, <3>1 DEF Busy, Drill, rvars
    <3> QED
      BY <2>1, <2>2, <2>3, <2>4, <2>5, <3>2 DEF GuardHolds, RestoresTogether
  <2> QED
    BY <1>1, <2>6, <2>7
<1>2. ASSUME NEW o \in Ops, RestoreStep(o) PROVE RInv'
  BY <1>2, BundlesUnderRestore, RTypeStep, JobsStep, OrderStep, GuardStep, TogetherStep, DrillsStep
<1>3. CASE RNext
  BY <1>1, <1>2, <1>3 DEF RNext, Next
<1>4. CASE UNCHANGED allvars
  BY <1>1, <1>4 DEF allvars
<1> QED
  BY <1>3, <1>4

\* Every state that runs, prunes, loads, restores and drills reach together
\* satisfies the invariant.
THEOREM RestoreInvariance ==
  ASSUME NoSameSecond
  PROVE  RSpec => []RInv
<1>1. RInit => RInv
  BY InitRInv
<1>2. RInv /\ [RNext]_allvars => RInv'
  BY RInvStep
<1> QED
  BY <1>1, <1>2, PTL DEF RSpec

\* Until a real restore begins no bundle records a load whose data it does not
\* hold, whatever drills run beside the backups: the order of the stores in
\* run_backup (runner.py) against the order in which a load writes them.
THEOREM OrderedUntilRestored ==
  ASSUME NoSameSecond
  PROVE  RSpec => []SnapshotOrderUntilRestored
<1>1. RInv => SnapshotOrderUntilRestored
  BY DEF RInv, OrderUntilRestored, Undisturbed, SnapshotOrderUntilRestored, LoadOrder, SnapshotOrder
<1> QED
  BY <1>1, RestoreInvariance, PTL

\* A drill whose report says success has compared what the bundle holds, if no
\* second drill works in the same side databases (restore.py:43): prunes and
\* backups beside it do not matter.
THEOREM DrillsTellTheTruth ==
  ASSUME NoSameSecond, Lone
  PROVE  RSpec => []DrillSuccessMeansMatch
<1>1. RInv => DrillSuccessMeansMatch
  <2> SUFFICES ASSUME RInv PROVE DrillSuccessMeansMatch
    OBVIOUS
  <2> USE DEF RInv
  <2>1. RTypeOK
    BY DEF RTypeOK, RType, BInv
  <2>2. ASSUME NEW o \in Ops, at[o] = "success", Drill(o),
               NEW s \in job[o].selected \cap DOMAIN job[o].counts
        PROVE  Held(o, s, job[o].counts[s])
    <3>1. job[o] \in Jobs
      BY <2>2 DEF JobsRead
    <3>2. DOMAIN job[o].counts \subseteq Databases
      BY <3>1, JobFields DEF Counts
    <3>3. /\ Counted(o, "postgres") => Held(o, "postgres", job[o].counts["postgres"])
          /\ Counted(o, "clickhouse") => Held(o, "clickhouse", job[o].counts["clickhouse"])
      BY <2>2 DEF DrillsCompare
    <3> QED
      BY <2>2, <3>2, <3>3 DEF Counted, Databases
  <2> QED
    BY <2>1, <2>2 DEF DrillSuccessMeansMatch, Held
<1> QED
  BY <1>1, RestoreInvariance, PTL

\* Without --force no call takes a load away, with any number of calls, whatever
\* bundle they name and wherever they fail ("refuses a non-empty target without
\* --force", restore.py docstring), if nothing else runs during a real restore:
\* the target a restore found empty is still empty when it is dropped.
THEOREM NothingLostWithoutForce ==
  ASSUME NoSameSecond, Quiet
  PROVE  RSpec => NoForceNoLoss
<1>1. RInv /\ [RNext]_allvars =>
        [pg' < pg \/ ch' < ch => \E o \in Ops : at[o] # "new" /\ job[o].force]_allvars
  <2> SUFFICES ASSUME RInv, [RNext]_allvars, pg' < pg \/ ch' < ch
               PROVE  \E o \in Ops : at[o] # "new" /\ job[o].force
    OBVIOUS
  <2> USE DEF RInv
  <2>0. pg \in 0..MaxLoads /\ ch \in 0..MaxLoads /\ MaxLoads \in Nat
    BY BackupAssumption DEF BInv, TypeOK
  <2>1. ~(Next \/ UNCHANGED vars)
    <3>1. ASSUME NEW r \in Runs, Run(r) PROVE pg' = pg /\ ch' = ch
      BY <3>1 DEF Run, Start, SkipStore, PutManifest, ManifestFails, BackupStore, BackupFails,
                  ListManifests, PruneArtifact, PruneManifest, PruneFails, Finish, Crash, stores
    <3>2. Next \/ UNCHANGED vars => pg' \in {pg, pg + 1} /\ ch' \in {ch, ch + 1}
      BY <3>1 DEF Next, Tick, Load, PublishLoad, RecordLoad, vars, stores
    <3> QED
      BY <2>0, <3>2
  <2>2. PICK o \in Ops : RestoreStep(o)
    BY <2>1 DEF RNext, Next, allvars
  <2>3. at[o] # "new" /\ job[o] \in Jobs
    BY <2>0, <2>2, RestoreChanges DEF JobsRead
  <2>4. pg' \in 0..MaxLoads /\ ch' \in 0..MaxLoads
    BY <2>2, RTypeStep
  <2>5. job[o].force
    <3> SUFFICES ASSUME ~job[o].force PROVE FALSE
      OBVIOUS
    <3>1. CASE RestorePostgres(o)
      <4>1. ch' = ch /\ (pg' # pg => pg = 0)
        BY <3>1 DEF RestorePostgres, Guarded
      <4> QED
        BY <2>0, <2>4, <4>1
    <3>2. CASE DropDatabases(o) \/ RestoreClickHouse(o)
      <4>1. at[o] \in {"drop", "restore"} /\ pg' = pg
        BY <3>2 DEF DropDatabases, RestoreClickHouse, Move
      <4>2. ch = 0
        BY <4>1 DEF GuardHolds
      <4> QED
        BY <2>0, <2>4, <4>1, <4>2
    <3>3. CASE pg' = pg /\ ch' = ch
      BY <2>0, <3>3
    <3> QED
      BY <2>2, <3>1, <3>2, <3>3, RestoreChanges
  <2> QED
    BY <2>3, <2>5
<1> QED
  BY <1>1, RestoreInvariance, PTL DEF RSpec, NoForceNoLoss

\* A lone restore of both databases that succeeds, with nothing else running,
\* leaves no load recorded whose data is not there.
THEOREM BothRestoredTogether ==
  ASSUME NoSameSecond, Quiet, Lone
  PROVE  RSpec => RestoredTogether
<1>1. RInv /\ [RNext]_allvars =>
        [\A o \in Ops : at'[o] = "success" /\ at[o] # "success" /\ ~Drill(o)
             /\ Databases \subseteq job[o].selected => pg' <= ch']_allvars
  <2> SUFFICES ASSUME RInv, [RNext]_allvars, NEW o \in Ops, at'[o] = "success",
                      at[o] # "success", ~Drill(o), Databases \subseteq job[o].selected
               PROVE  pg' <= ch'
    OBVIOUS
  <2> USE DEF RInv
  <2>1. RestoreStep(o)
    BY DEF RNext, allvars, rvars, Lone
  <2>2. at[o] \notin Ended \cup {"new"} /\ Busy(o) /\ job' = job
    BY <2>1, StepMoves DEF Busy, Ended
  <2>3. Selected(o, "postgres") /\ Selected(o, "clickhouse")
    BY DEF Selected, Databases
  <2>4. RestoreClickHouse(o)
    <3>1. CASE SkipDatabase(o)
      BY <2>3, <3>1, MoveEffect DEF SkipDatabase, Points
    <3>2. CASE ReadManifest(o) \/ FetchAndVerify(o) \/ FetchRaises(o) \/ RestorePostgres(o)
               \/ DropDatabases(o)
      BY <3>2, MoveEffect DEF ReadManifest, FetchAndVerify, FetchRaises, RestorePostgres,
                              DropDatabases, Points
    <3>3. CASE GuardClickHouse(o)
      BY <3>3 DEF GuardClickHouse, Move, RType
    <3>4. ASSUME NEW s \in Databases, DrillRestore(o, s) \/ DrillCount(o, s) PROVE FALSE
      BY <2>2, <3>4, CountAtPoints DEF DrillRestore, DrillCount, Leave, Move, JobsRead
    <3> QED
      BY <2>1, <3>1, <3>2, <3>3, <3>4 DEF RestoreStep
  <2>5. /\ at[o] = "restore" /\ artifact["clickhouse"][job[o].id] # NoObject
        /\ ch' = artifact["clickhouse"][job[o].id].load /\ pg' = pg
    BY <2>4, MoveEffect DEF RestoreClickHouse, Points
  <2> QED
    BY <2>2, <2>3, <2>5 DEF RestoresTogether, BundleOrdered
<1> QED
  BY <1>1, RestoreInvariance, PTL DEF RSpec, RestoredTogether
=============================================================================
