------------------------------- MODULE Backup -------------------------------
(***************************************************************************)
(* Backup bundles: run_backup (runner.py) and prune_bundles (prune.py).    *)
(*                                                                         *)
(* A run backs up the stores one after the other, writes the manifest that *)
(* binds the artifacts into a bundle, and prunes older bundles.  The CLI   *)
(* and the scheduler sidecar run the same code, so runs overlap, and loads *)
(* go on meanwhile: a load is first published in ClickHouse and then       *)
(* recorded in PostgreSQL (SuccessIsLive of Ingestion).                    *)
(*                                                                         *)
(*   the stores       pg, ch                 loads recorded, published     *)
(*   the destination  artifact, manifest     by run id                     *)
(*   each run         pc, id, result, plan, sweeping                       *)
(***************************************************************************)
EXTENDS Naturals, FiniteSets

CONSTANTS
  Runs,       \* calls of run_backup
  Managed,    \* stores whose scope is 'managed'
  Keep,       \* cfg.retention: store -> how many to keep, 0 for no such bound
  Days,       \* cfg.retention: store -> maximal age, 0 for no such bound
  Faults,     \* the fault classes that may occur
  MaxTime,    \* bound on the clock
  MaxLoads    \* bound on the loads published

Stores == {"postgres", "clickhouse", "instance", "files"}
Attempted == Managed \cup {"instance"}
Retained == DOMAIN Keep
Ids  == 1..MaxTime
NoId == 0
\* The process dies, a store or destination call raises, a HEAD request of the
\* prune raises, the destination denies deletes, two runs start in one second.
FaultClasses == {"crash", "store", "head", "worm", "same_second"}

ASSUME BackupAssumption ==
  /\ Managed \subseteq Stores
  /\ Retained \subseteq Stores
  /\ Keep \in [Retained -> Nat] /\ Days \in [Retained -> Nat]
  /\ Faults \subseteq FaultClasses
  /\ "nobody" \notin Runs
  /\ MaxTime \in Nat \ {0} /\ MaxLoads \in Nat

VARIABLES
  clock,     \* in the unit of run ids, which are start times
  ch,        \* loads published in the live ClickHouse tables
  pg,        \* loads recorded as successful in PostgreSQL
  artifact,  \* store -> run id -> object at the destination
  manifest,  \* run id -> manifest at the destination
  pc,        \* where each run stands
  id,        \* run_id of each run
  result,    \* stores each run backed up successfully
  plan,      \* artifacts the run's prune has still to delete
  sweeping   \* the manifest whose artifacts are being deleted

stores == <<ch, pg>>
bundles == <<artifact, manifest>>
local  == <<id, result, plan, sweeping>>
vars   == <<clock, stores, bundles, pc, local>>

NoObject == [by |-> "nobody"]
Artifact == [by : Runs, load : 0..MaxLoads]
Databases == {"postgres", "clickhouse"}
Counts   == UNION {[known -> 0..MaxLoads] : known \in SUBSET Databases}
Manifest == [by : Runs, listed : SUBSET Stores, counts : Counts]
NoSweep  == [id |-> NoId, listed |-> {}]
Sweep    == [id : Ids, listed : SUBSET Stores]
Deletion == [store : Stores, id : Ids, listed : SUBSET Stores]

TypeOK ==
  /\ clock \in Ids
  /\ ch \in 0..MaxLoads /\ pg \in 0..MaxLoads
  /\ artifact \in [Stores -> [Ids -> Artifact \cup {NoObject}]]
  /\ manifest \in [Ids -> Manifest \cup {NoObject}]
  /\ pc \in [Runs -> Stores \cup {"new", "manifest", "list", "prune", "done"}]
  /\ id \in [Runs -> Ids \cup {NoId}]
  /\ result \in [Runs -> SUBSET Stores]
  /\ plan \in [Runs -> SUBSET Deletion]
  /\ sweeping \in [Runs -> Sweep \cup {NoSweep}]

Init ==
  /\ clock = 1
  /\ ch = 0 /\ pg = 0
  /\ artifact = [s \in Stores |-> [i \in Ids |-> NoObject]]
  /\ manifest = [i \in Ids |-> NoObject]
  /\ pc = [r \in Runs |-> "new"]
  /\ id = [r \in Runs |-> NoId]
  /\ result = [r \in Runs |-> {}]
  /\ plan = [r \in Runs |-> {}]
  /\ sweeping = [r \in Runs |-> NoSweep]

Goto(r, from, to) ==
  /\ pc[r] = from
  /\ pc' = [pc EXCEPT ![r] = to]

(***************************************************************************)
(* The environment: time, and the loads of Ingestion.                      *)
(***************************************************************************)

Tick ==
  /\ clock < MaxTime
  /\ clock' = clock + 1
  /\ UNCHANGED <<stores, bundles, pc, local>>

\* A swap commits in ClickHouse.
PublishLoad ==
  /\ ch < MaxLoads
  /\ ch' = ch + 1
  /\ UNCHANGED <<clock, pg, bundles, pc, local>>

\* record_swap and finalise of a load whose swap has committed.
RecordLoad ==
  /\ pg < ch
  /\ pg' = pg + 1
  /\ UNCHANGED <<clock, ch, bundles, pc, local>>

(***************************************************************************)
(* run_backup.                                                             *)
(***************************************************************************)

\* Mutant of Order: ClickHouse first.
OrderSwapped == <<"clickhouse", "postgres", "instance", "files">>

\* The order in which run_backup visits the stores.
Order == <<"postgres", "clickhouse", "instance", "files">>

Following(s) ==
  LET n == CHOOSE k \in 1..4 : Order[k] = s
  IN  IF n = 4 THEN "manifest" ELSE Order[n + 1]

\* The run id is the start time, to the second.
Start(r) ==
  /\ "same_second" \in Faults \/ \A q \in Runs : id[q] # clock
  /\ id' = [id EXCEPT ![r] = clock]
  /\ Goto(r, "new", Order[1])
  /\ UNCHANGED <<clock, stores, bundles, result, plan, sweeping>>

SkipStore(r) ==
  /\ \E s \in Stores \ Attempted : Goto(r, s, Following(s))
  /\ UNCHANGED <<clock, stores, bundles, local>>

\* What an artifact taken now says of the loads; only the two databases differ.
Snapshot(s) == CASE s = "postgres" -> pg [] s = "clickhouse" -> ch [] OTHER -> 0

\* BACKUP DATABASE refuses a destination file that is already there; the other
\* stores' artifacts are uploaded over whatever has their key.
Refused(r, s) == s = "clickhouse" /\ artifact[s][id[r]] # NoObject

\* Mutant of Put: each artifact is named by the time it is taken.
PutNow(r, s) ==
  artifact' = [artifact EXCEPT ![s][clock] = [by |-> r, load |-> Snapshot(s)]]

Put(r, s) ==
  artifact' = [artifact EXCEPT ![s][id[r]] = [by |-> r, load |-> Snapshot(s)]]

BackupStore(r, s) ==
  /\ s \in Attempted
  /\ Goto(r, s, Following(s))
  /\ ~Refused(r, s)
  /\ Put(r, s)
  /\ result' = [result EXCEPT ![r] = @ \cup {s}]
  /\ UNCHANGED <<clock, stores, manifest, id, plan, sweeping>>

\* A store failure never aborts the run.  The artifact may have landed before
\* the call that failed (the ClickHouse size is read after the BACKUP).
BackupFails(r, s) ==
  /\ s \in Attempted
  /\ Goto(r, s, Following(s))
  /\ "store" \in Faults \/ Refused(r, s)
  /\ UNCHANGED artifact \/ (~Refused(r, s) /\ Put(r, s))
  /\ UNCHANGED <<clock, stores, manifest, local>>

\* Row counts are collected now, after the dumps and as far as the stores
\* answer; then the manifest is pushed.
PutManifest(r) ==
  /\ Goto(r, "manifest", "list")
  /\ \E known \in SUBSET (Managed \cap Databases) :
       /\ "store" \notin Faults => known = Managed \cap Databases
       /\ manifest' = [manifest EXCEPT ![id[r]] =
            [by |-> r, listed |-> result[r], counts |-> [s \in known |-> Snapshot(s)]]]
  /\ UNCHANGED <<clock, stores, artifact, local>>

\* The push of the manifest raised and nothing landed: the exception leaves
\* run_backup.
ManifestFails(r) ==
  /\ "store" \in Faults
  /\ Goto(r, "manifest", "done")
  /\ UNCHANGED <<clock, stores, bundles, local>>

(***************************************************************************)
(* prune_bundles, at the end of each run.                                  *)
(***************************************************************************)

Present == {i \in Ids : manifest[i] # NoObject}

\* How many readable bundles newer than i list an artifact of the store.
Rank(s, i, readable) ==
  Cardinality({j \in readable : j > i /\ s \in manifest[j].listed})

\* Mutant of TooMany: the rank counts bundles, not bundles with the store.
TooManyBundles(s, i, readable) ==
  Keep[s] > 0 /\ Cardinality({j \in readable : j > i}) >= Keep[s]

TooMany(s, i, readable) == Keep[s] > 0 /\ Rank(s, i, readable) >= Keep[s]

TooOld(s, i) == Days[s] > 0 /\ i + Days[s] < clock

DoomedStores(i, readable) ==
  {s \in manifest[i].listed \cap Retained : TooMany(s, i, readable) \/ TooOld(s, i)}

Doomed(r, readable) ==
  UNION {{[store |-> s, id |-> i, listed |-> manifest[i].listed] :
            s \in DoomedStores(i, readable)} : i \in readable \ {id[r]}}

\* A manifest that cannot be read is left in place.
ListManifests(r) ==
  /\ Goto(r, "list", "prune")
  /\ \E readable \in SUBSET Present :
       /\ "store" \notin Faults => readable = Present
       /\ plan' = [plan EXCEPT ![r] = Doomed(r, readable)]
  /\ UNCHANGED <<clock, stores, bundles, id, result, sweeping>>

\* Manifest by manifest, one delete per artifact; a denied delete is counted
\* and passed over.
PruneArtifact(r) ==
  /\ pc[r] = "prune"
  /\ \E d \in plan[r] :
       /\ sweeping[r].id \in {NoId, d.id}
       /\ plan' = [plan EXCEPT ![r] = @ \ {d}]
       /\ sweeping' = [sweeping EXCEPT ![r] = [id |-> d.id, listed |-> d.listed]]
       /\ \/ artifact' = [artifact EXCEPT ![d.store][d.id] = NoObject]
          \/ "worm" \in Faults /\ UNCHANGED artifact
  /\ UNCHANGED <<clock, stores, manifest, pc, id, result>>

\* Mutant of Remaining: the artifacts kept for another store are forgotten.
RemainingNone(w) == {}

\* The artifacts of the swept bundle that are still at the destination.
Remaining(w) == {s \in w.listed : artifact[s][w.id] # NoObject}

\* _exists answers False whatever the HEAD request raised.
PruneManifest(r) ==
  /\ pc[r] = "prune"
  /\ LET w == sweeping[r] IN
     /\ w # NoSweep
     /\ \A d \in plan[r] : d.id # w.id
     /\ \E seen \in SUBSET Remaining(w) :
          /\ "head" \notin Faults => seen = Remaining(w)
          /\ \/ /\ seen = {}
                /\ manifest' = [manifest EXCEPT ![w.id] = NoObject]
             \/ /\ seen # {} \/ "worm" \in Faults
                /\ UNCHANGED manifest
  /\ sweeping' = [sweeping EXCEPT ![r] = NoSweep]
  /\ UNCHANGED <<clock, stores, artifact, pc, id, result, plan>>

\* Another exception of the destination ends the prune, not the run.
PruneFails(r) ==
  /\ "store" \in Faults
  /\ \E at \in {"list", "prune"} : Goto(r, at, "done")
  /\ plan' = [plan EXCEPT ![r] = {}]
  /\ sweeping' = [sweeping EXCEPT ![r] = NoSweep]
  /\ UNCHANGED <<clock, stores, bundles, id, result>>

\* Nothing left to prune: history (best effort) and the failure webhook.
Finish(r) ==
  /\ plan[r] = {} /\ sweeping[r] = NoSweep
  /\ Goto(r, "prune", "done")
  /\ UNCHANGED <<clock, stores, bundles, local>>

Crash(r) ==
  /\ "crash" \in Faults
  /\ pc[r] \notin {"new", "done"}
  /\ pc' = [pc EXCEPT ![r] = "done"]
  /\ plan' = [plan EXCEPT ![r] = {}]
  /\ sweeping' = [sweeping EXCEPT ![r] = NoSweep]
  /\ UNCHANGED <<clock, stores, bundles, id, result>>

Run(r) ==
  \/ Start(r) \/ SkipStore(r) \/ PutManifest(r) \/ ManifestFails(r)
  \/ \E s \in Stores : BackupStore(r, s) \/ BackupFails(r, s)
  \/ ListManifests(r) \/ PruneArtifact(r) \/ PruneManifest(r)
  \/ PruneFails(r) \/ Finish(r) \/ Crash(r)

Load == PublishLoad \/ RecordLoad

Next == Tick \/ Load \/ \E r \in Runs : Run(r)

Spec == Init /\ [][Next]_vars
-----------------------------------------------------------------------------
(***************************************************************************)
(* What must hold.                                                         *)
(***************************************************************************)

Holds(i, s) == manifest[i] # NoObject /\ s \in manifest[i].listed

\* A bundle never records a load whose data it does not hold: PostgreSQL is
\* dumped before ClickHouse is backed up, and loads write ClickHouse first.
SnapshotOrder ==
  \A i \in Ids : Holds(i, "postgres") /\ Holds(i, "clickhouse")
      /\ artifact["postgres"][i] # NoObject /\ artifact["clickhouse"][i] # NoObject
    => artifact["postgres"][i].load <= artifact["clickhouse"][i].load

\* "Its presence means the bundle is complete" (docs/operations/backups.md): an
\* artifact a manifest lists is at the destination unless retention took it, and
\* retention takes none of the Keep newest that exist of its store, however many
\* runs failed to produce one and whichever runs prune at the same time.
KeepsNewest ==
  /\ TypeOK
  /\ \A i \in Ids, s \in Stores :
       Holds(i, s) /\ artifact[s][i] = NoObject =>
         /\ s \in Retained
         /\ \/ Keep[s] > 0 /\ Cardinality({j \in Ids : j > i /\ Holds(j, s)}) >= Keep[s]
            \/ Days[s] > 0 /\ clock > i + Days[s]

\* "A manifest is deleted only when every artifact it references is gone"
\* (prune.py docstring).
ManifestOutlives ==
  [][\A i \in Ids : Present' # Present /\ i \in Present \ Present' =>
       \A s \in manifest[i].listed : artifact[s][i] = NoObject]_vars

\* The manifest "binds a bundle's artifacts together" (manifest.py docstring):
\* every artifact it lists was written by the run that wrote the manifest.
BundleIsOwn ==
  \A i \in Ids, s \in Stores :
    Holds(i, s) /\ artifact[s][i] # NoObject => artifact[s][i].by = manifest[i].by
=============================================================================
