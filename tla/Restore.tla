------------------------------- MODULE Restore -------------------------------
(***************************************************************************)
(* Restoring a bundle (restore.py), composed with the runs of Backup that  *)
(* go on writing and pruning bundles.                                      *)
(*                                                                         *)
(* A real restore overwrites the stores of Backup; a drill restores into   *)
(* side databases and compares them with the counts in the manifest.  The  *)
(* instance and files artifacts are extracted beside the stores and change *)
(* nothing here.                                                           *)
(***************************************************************************)
EXTENDS Backup

CONSTANTS
  Ops,         \* calls of restore_bundle
  OpsFail,     \* whether store and destination calls of a restore may raise
  Quiet        \* nothing else runs during a real restore: the order of a full
               \* recovery, which restores before the services are started

ASSUME RestoreAssumption == OpsFail \in BOOLEAN /\ Quiet \in BOOLEAN

VARIABLES
  at,       \* where each call stands
  job,      \* what it restores: arguments and the manifest it read
  fetched,  \* the PostgreSQL dump it downloaded
  ok,       \* no store of the drill failed or differed so far
  side      \* the drill databases

rvars == <<at, job, fetched, ok, side>>
allvars == <<vars, rvars>>

NoJob  == [id |-> NoId]
NoSide == MaxLoads + 1
Jobs   == [id : Ids, by : Runs, counts : Counts, selected : SUBSET Stores,
           drill : BOOLEAN, force : BOOLEAN]
Fetched == {"postgres", "instance", "files"}
Points  == {"new", "fetch", "postgres", "pgcount", "clickhouse", "drop", "restore",
            "chcount", "success", "failed", "raised"}
Ended   == {"success", "failed", "raised"}

RTypeOK ==
  /\ TypeOK
  /\ at \in [Ops -> Points]
  /\ job \in [Ops -> Jobs \cup {NoJob}]
  /\ fetched \in [Ops -> 0..MaxLoads]
  /\ ok \in [Ops -> BOOLEAN]
  /\ side \in [Databases -> 0..NoSide]

RInit ==
  /\ Init
  /\ at = [o \in Ops |-> "new"]
  /\ job = [o \in Ops |-> NoJob]
  /\ fetched = [o \in Ops |-> 0]
  /\ ok = [o \in Ops |-> TRUE]
  /\ side = [s \in Databases |-> NoSide]

Move(o, from, to) ==
  /\ at[o] = from
  /\ at' = [at EXCEPT ![o] = to]

Selected(o, s) == s \in job[o].selected
Drill(o) == job[o].drill

\* A real restore is under way; a backup is.
Restoring == \E o \in Ops : at[o] \notin Ended \cup {"new"} /\ ~Drill(o)
BackingUp == \E r \in Runs : pc[r] \notin {"new", "done"}

Verdict(good) == IF good THEN "success" ELSE "failed"

\* The arguments, and the manifest they name; (stores or available) & available.
ReadManifest(o) ==
  /\ Move(o, "new", "fetch")
  /\ \E i \in Present, asked \in SUBSET Stores, drill, force \in BOOLEAN :
       /\ Quiet /\ ~drill => ~Restoring /\ ~BackingUp
       /\ job' = [job EXCEPT ![o] =
         [id |-> i, by |-> manifest[i].by, counts |-> manifest[i].counts,
          selected |-> (IF asked = {} THEN manifest[i].listed ELSE asked)
                          \cap manifest[i].listed,
          drill |-> drill, force |-> force]]
  /\ UNCHANGED <<vars, fetched, ok, side>>

\* What the manifest's checksum stands for: the object its own run wrote.
Intact(o, s) == artifact[s][job[o].id].by = job[o].by

\* Download and verify; the ClickHouse artifact is not among the fetched ones.
FetchAndVerify(o) ==
  /\ Move(o, "fetch", "postgres")
  /\ \A s \in Fetched : Selected(o, s) => Intact(o, s)
  /\ fetched' = [fetched EXCEPT ![o] =
       IF Selected(o, "postgres") THEN artifact["postgres"][job[o].id].load ELSE @]
  /\ UNCHANGED <<vars, job, ok, side>>

FetchRaises(o) ==
  /\ Move(o, "fetch", "raised")
  /\ OpsFail \/ \E s \in Fetched : Selected(o, s) /\ ~Intact(o, s)
  /\ UNCHANGED <<vars, job, fetched, ok, side>>

(***************************************************************************)
(* A real restore.  Any exception leaves restore_bundle as it is.          *)
(***************************************************************************)

\* Mutant of Guarded: the non-empty test is forgotten.
GuardedNever(o, content) == FALSE

\* A non-empty target needs --force.
Guarded(o, content) == content # 0 /\ ~job[o].force

RestorePostgres(o) ==
  /\ at[o] = "postgres" /\ ~Drill(o) /\ Selected(o, "postgres")
  /\ \/ /\ Move(o, "postgres", "clickhouse")
        /\ ~Guarded(o, pg)
        /\ pg' = fetched[o]
     \/ /\ Move(o, "postgres", "raised")
        /\ Guarded(o, pg)
        /\ UNCHANGED pg
     \/ /\ Move(o, "postgres", "raised")
        /\ ~Guarded(o, pg) /\ OpsFail
        /\ pg' \in {pg, fetched[o]}
  /\ UNCHANGED <<clock, ch, bundles, pc, local, job, fetched, ok, side>>

SkipDatabase(o) ==
  /\ \/ Move(o, "postgres", "clickhouse") /\ ~Selected(o, "postgres")
     \/ Move(o, "clickhouse", Verdict(ok[o])) /\ ~Selected(o, "clickhouse")
  /\ UNCHANGED <<vars, job, fetched, ok, side>>

GuardClickHouse(o) ==
  /\ at[o] = "clickhouse" /\ ~Drill(o) /\ Selected(o, "clickhouse")
  /\ Move(o, "clickhouse", IF Guarded(o, ch) THEN "raised" ELSE "drop")
  /\ UNCHANGED <<vars, job, fetched, ok, side>>

\* DROP DATABASE live, staging, semantic.
DropDatabases(o) ==
  /\ Move(o, "drop", "restore")
  /\ ch' = 0
  /\ UNCHANGED <<clock, pg, bundles, pc, local, job, fetched, ok, side>>

\* RESTORE reads whatever the disk has under the run id, if anything.
RestoreClickHouse(o) ==
  /\ at[o] = "restore"
  /\ LET object == artifact["clickhouse"][job[o].id] IN
     \/ /\ Move(o, "restore", "success")
        /\ object # NoObject
        /\ ch' = object.load
     \/ /\ Move(o, "restore", "raised")
        /\ object = NoObject \/ OpsFail
        /\ UNCHANGED ch
  /\ UNCHANGED <<clock, pg, bundles, pc, local, job, fetched, ok, side>>

(***************************************************************************)
(* A drill: a store's failure is recorded and the next store is tried.     *)
(***************************************************************************)

CountAt(s) == IF s = "postgres" THEN "pgcount" ELSE "chcount"

\* After the last store the outcome is computed.
Leave(o, from, s, good) ==
  /\ Move(o, from, IF s = "postgres" THEN "clickhouse" ELSE Verdict(good))
  /\ ok' = [ok EXCEPT ![o] = good]

\* What is there to restore from: the verified download, or the disk.
Source(o, s) ==
  IF s = "postgres" THEN {fetched[o]}
  ELSE {x.load : x \in {artifact[s][job[o].id]} \ {NoObject}}

\* The side database is dropped, created and filled.
DrillRestore(o, s) ==
  /\ at[o] = s /\ Drill(o) /\ Selected(o, s)
  /\ \/ /\ Move(o, s, CountAt(s))
        /\ \E x \in Source(o, s) : side' = [side EXCEPT ![s] = x]
        /\ UNCHANGED ok
     \/ /\ Source(o, s) = {} \/ OpsFail
        /\ Leave(o, s, s, FALSE)
        /\ side' = [side EXCEPT ![s] = NoSide]
  /\ UNCHANGED <<vars, job, fetched>>

\* Mutant of Matches: a mismatch is listed but does not count.
MatchesAnyway(o, s) == TRUE

\* Every count of the baseline is compared; without a baseline there is none.
Matches(o, s) ==
  s \in DOMAIN job[o].counts => side[s] = job[o].counts[s]

DrillCount(o, s) ==
  /\ Leave(o, CountAt(s), s, ok[o] /\ Matches(o, s))
  /\ side' = [side EXCEPT ![s] = NoSide]
  /\ UNCHANGED <<vars, job, fetched>>

RestoreStep(o) ==
  \/ ReadManifest(o) \/ FetchAndVerify(o) \/ FetchRaises(o)
  \/ RestorePostgres(o) \/ SkipDatabase(o) \/ GuardClickHouse(o)
  \/ DropDatabases(o) \/ RestoreClickHouse(o)
  \/ \E s \in Databases : DrillRestore(o, s) \/ DrillCount(o, s)

RNext ==
  \/ /\ Quiet => ~Restoring
     /\ Tick \/ Load \/ \E r \in Runs : Run(r)
     /\ UNCHANGED rvars
  \/ \E o \in Ops : RestoreStep(o)

RSpec == RInit /\ [][RNext]_allvars
-----------------------------------------------------------------------------
(***************************************************************************)
(* What must hold.                                                         *)
(***************************************************************************)

\* Without --force no call takes a recorded or published load away, whatever
\* bundle it names and wherever it fails ("refuses a non-empty target without
\* --force", restore.py docstring).
NoForceNoLoss ==
  [][pg' < pg \/ ch' < ch => \E o \in Ops : at[o] # "new" /\ job[o].force]_allvars

\* A restore of both databases that succeeds leaves no load recorded whose data
\* is not there, though they were dumped at different moments (the order of
\* run_backup, and the order in which loads write the two stores), as long as
\* nothing else runs meanwhile.
RestoredTogether ==
  [][\A o \in Ops : at'[o] = "success" /\ at[o] # "success" /\ ~Drill(o)
        /\ Databases \subseteq job[o].selected
      => pg' <= ch']_allvars

\* A drill that succeeds has compared: what its bundle holds of each database it
\* selected is what the baseline counted, if the run could count.
DrillSuccessMeansMatch ==
  /\ RTypeOK
  /\ \A o \in Ops : at[o] = "success" /\ Drill(o) =>
       \A s \in job[o].selected \cap DOMAIN job[o].counts :
         artifact[s][job[o].id] # NoObject =>
           artifact[s][job[o].id].load = job[o].counts[s]

\* Until a real restore starts, no bundle records a load it does not hold,
\* though runs overlap loads and each other (SnapshotOrder); a restore may go
\* back to an older state of both databases, in two steps.
SnapshotOrderUntilRestored ==
  (\A o \in Ops : job[o] = NoJob \/ job[o].drill) => SnapshotOrder

(***************************************************************************)
(* What docs and comments say, and the code does not do.                   *)
(***************************************************************************)

\* "Checksums are verified before anything is touched" (docs/operations/
\* backups.md): the live databases are dropped for an artifact that is intact.
VerifiedBeforeTouched ==
  [][\A o \in Ops : at[o] = "drop" /\ at'[o] = "restore" =>
       Intact(o, "clickhouse")]_allvars
=============================================================================
