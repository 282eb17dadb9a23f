------------------------------ MODULE Ingestion ------------------------------
(***************************************************************************)
(* One load attempt is one call of run_binding(binding, period, ...):      *)
(* extract -> validate -> checks -> swap over three stores that fail       *)
(* independently.                                                          *)
(*                                                                         *)
(*   PostgreSQL   load_history   status, swapped, blamed, verdict          *)
(*                advisory lock  lock                                      *)
(*   ClickHouse   staging.<x>    staging                                   *)
(*                live.<x>       live                                      *)
(*   the process  run_binding    pc, req, data, erred, outcome             *)
(*                                                                         *)
(* Every call to a store is a step of its own, so attempts started by the  *)
(* scheduler, the watcher, the push route and the operator script          *)
(* interleave between calls.  A table partition is the set of attempts     *)
(* whose rows it holds (the synthetic _load_id column).                    *)
(***************************************************************************)
EXTENDS Naturals

CONSTANTS
  Bindings,          \* binding ids; one binding per live.* table
  Periods,           \* accounting periods
  Snap,              \* the one slice of a snapshot table
  SnapshotBindings,  \* bindings of kind 'snapshot'
  Checks,            \* binding -> its declared data-quality checks
  Stops,             \* the stop_after values triggers pass; "swap" is the default
  Faults,            \* the fault classes that may occur
  MaxLoads,          \* bound on the number of attempts
  NoReq              \* the request of an attempt not yet triggered

Loads  == 1..MaxLoads
NoLoad == 0
Slices == Periods \cup {Snap}
SlicesOf(b) == IF b \in SnapshotBindings THEN {Snap} ELSE Periods

StageName == {"extract", "validate", "swap"}
Requests  == [b : Bindings, p : Slices, stop : Stops]
CheckSpec == [type : {"rows", "reconcile"}, severity : {"error", "warning", "info"}]
\* What may go wrong: the process dies, a ClickHouse or source call raises, the
\* query of system.columns raises, a PostgreSQL write raises, the lock's
\* connection dies alone, or the extract query returns rows of other periods.
FaultClasses == {"crash", "clickhouse", "metadata", "postgres", "lockconn", "source"}

ASSUME IngestionAssumption ==
  /\ MaxLoads \in Nat
  /\ Snap \notin Periods
  /\ SnapshotBindings \subseteq Bindings
  /\ Checks \in [Bindings -> SUBSET CheckSpec]
  /\ Stops \subseteq StageName
  /\ Faults \subseteq FaultClasses
  /\ NoReq \notin Requests

VARIABLES
  nextLoad,  \* the next attempt to be inserted; attempts are ordered by started_at
  req,       \* binding, slice and stop_after of each attempt
  pc,        \* where run_binding stands
  data,      \* what the source returned to the attempt
  erred,     \* the attempt had a check that could not run
  outcome,   \* the status run_binding is about to finalise
  lock,      \* the attempt whose connection holds the binding's advisory lock
  staging,   \* staging.<x>: binding -> slice -> attempts with rows in it
  live,      \* live.<x>: binding -> slice -> attempts with rows in it
  status,    \* load_history.status
  swapped,   \* load_history.swap_committed_at is set
  verdict,   \* load_history.control_total_result verdict
  blamed     \* the in-flight load named by a lock-conflict error_message

process  == <<nextLoad, req, pc, data, erred, outcome>>
warehouse == <<staging, live>>
history  == <<status, swapped, verdict, blamed>>
vars     == <<process, lock, warehouse, history>>

Failures == {"failed_extract", "failed_validation", "failed_recon",
             "failed_checks", "failed_swap", "failed_other"}
Terminal == Failures \cup {"success"}
Verdicts == {"none", "passed", "succeeded_with_warnings", "failed_checks"}

\* Program points from the lock's acquisition to its release.
Held == {"clear", "extract", "record", "validate", "checks",
         "replace", "drop", "stamp", "finalise", "release"}
ProgramPoints == Held \cup {"new", "acquire", "conflict", "refuse", "done"}

TypeOK ==
  /\ nextLoad \in 1..(MaxLoads + 1)
  /\ req \in [Loads -> Requests \cup {NoReq}]
  /\ pc \in [Loads -> ProgramPoints]
  /\ data \in [Loads -> {"none", "empty", "clean", "dirty"}]
  /\ erred \in [Loads -> BOOLEAN]
  /\ outcome \in [Loads -> Terminal \cup {"none"}]
  /\ lock \in [Bindings -> Loads \cup {NoLoad}]
  /\ staging \in [Bindings -> [Slices -> SUBSET Loads]]
  /\ live \in [Bindings -> [Slices -> SUBSET Loads]]
  /\ status \in [Loads -> Terminal \cup {"none", "running"}]
  /\ swapped \in [Loads -> BOOLEAN]
  /\ verdict \in [Loads -> Verdicts]
  /\ blamed \in [Loads -> Loads \cup {NoLoad}]

Init ==
  /\ nextLoad = 1
  /\ req = [l \in Loads |-> NoReq]
  /\ pc = [l \in Loads |-> "new"]
  /\ data = [l \in Loads |-> "none"]
  /\ erred = [l \in Loads |-> FALSE]
  /\ outcome = [l \in Loads |-> "none"]
  /\ lock = [b \in Bindings |-> NoLoad]
  /\ staging = [b \in Bindings |-> [p \in Slices |-> {}]]
  /\ live = [b \in Bindings |-> [p \in Slices |-> {}]]
  /\ status = [l \in Loads |-> "none"]
  /\ swapped = [l \in Loads |-> FALSE]
  /\ verdict = [l \in Loads |-> "none"]
  /\ blamed = [l \in Loads |-> NoLoad]

B(l) == req[l].b
P(l) == req[l].p
IsSnapshot(l) == B(l) \in SnapshotBindings

Goto(l, from, to) ==
  /\ pc[l] = from
  /\ pc' = [pc EXCEPT ![l] = to]

\* The stage failed or finished: run_binding will write this status next.
Outcome(l, from, s) ==
  /\ Goto(l, from, "finalise")
  /\ outcome' = [outcome EXCEPT ![l] = s]

\* Mutant of Unwind: no finally clause, the connection is never closed.
UnwindLeaking(l, from) == Goto(l, from, "done")

\* An exception nothing catches: the finally clause runs once the lock is held.
Unwind(l, from) == Goto(l, from, IF from \in Held THEN "release" ELSE "done")

(***************************************************************************)
(* Entry: the running row is inserted before the lock is tried.            *)
(***************************************************************************)

\* A trigger calls run_binding; period and kind must agree or it raises.
Start(l) ==
  /\ l = nextLoad
  /\ \E r \in Requests :
       /\ r.p \in SlicesOf(r.b)
       /\ req' = [req EXCEPT ![l] = r]
  /\ nextLoad' = l + 1
  /\ Goto(l, "new", "acquire")
  /\ status' = [status EXCEPT ![l] = "running"]
  /\ UNCHANGED <<data, erred, outcome, lock, warehouse, swapped, verdict, blamed>>

\* Mutant of Acquire: the answer of pg_try_advisory_lock is not looked at.
AcquireAnyway(l) ==
  /\ Goto(l, "acquire", "clear")
  /\ lock' = [lock EXCEPT ![B(l)] = l]
  /\ UNCHANGED <<nextLoad, req, data, erred, outcome, warehouse, history>>

\* pg_try_advisory_lock answered true.
Acquire(l) ==
  /\ Goto(l, "acquire", "clear")
  /\ lock[B(l)] = NoLoad
  /\ lock' = [lock EXCEPT ![B(l)] = l]
  /\ UNCHANGED <<nextLoad, req, data, erred, outcome, warehouse, history>>

\* blocking_timeout passed with the lock held elsewhere at every poll.
GiveUp(l) ==
  /\ Goto(l, "acquire", "conflict")
  /\ lock[B(l)] # NoLoad
  /\ UNCHANGED <<nextLoad, req, data, erred, outcome, lock, warehouse, history>>

RunningFor(b) == {l \in Loads : status[l] = "running" /\ req[l].b = b}

\* find_running_for_binding: newest row of the binding still 'running'.
FindRunning(l) ==
  /\ Goto(l, "conflict", "refuse")
  /\ \E m \in RunningFor(B(l)) :
       /\ \A n \in RunningFor(B(l)) : n <= m
       /\ blamed' = [blamed EXCEPT ![l] = m]
  /\ UNCHANGED <<nextLoad, req, data, erred, outcome, lock, warehouse,
                 status, swapped, verdict>>

\* Mutant of Refuse: returns without finalising the row.
RefuseSilently(l) ==
  /\ Goto(l, "refuse", "done")
  /\ UNCHANGED <<nextLoad, req, data, erred, outcome, lock, warehouse, history>>

\* The conflict is finalised as failed_other; there is no lock to release.
Refuse(l) ==
  /\ Goto(l, "refuse", "done")
  /\ status' = [status EXCEPT ![l] = "failed_other"]
  /\ UNCHANGED <<nextLoad, req, data, erred, outcome, lock, warehouse,
                 swapped, verdict, blamed>>

(***************************************************************************)
(* Stage 1: extract.                                                       *)
(***************************************************************************)

\* Mutant of ClearSlice: the slice keeps what it held.
KeepSlice(l) == staging

\* DROP PARTITION (period) or TRUNCATE (snapshot) of the staging slice.
ClearSlice(l) == [staging EXCEPT ![B(l)][P(l)] = {}]

ClearStaging(l) ==
  /\ Goto(l, "clear", "extract")
  /\ staging' = ClearSlice(l)
  /\ UNCHANGED <<nextLoad, req, data, erred, outcome, lock, live, history>>

\* The source query returned rows and insert_df wrote them, each to the
\* partition its own period column names.
InsertRows(l) ==
  /\ \E d \in {"clean", "dirty"} : data' = [data EXCEPT ![l] = d]
  /\ \E hit \in (SUBSET SlicesOf(B(l))) \ {{}} :
       /\ "source" \notin Faults => hit = {P(l)}
       /\ staging' = [staging EXCEPT ![B(l)] =
                       [p \in Slices |-> IF p \in hit THEN @[p] \cup {l} ELSE @[p]]]

ExtractRows(l) ==
  /\ Goto(l, "extract", "record")
  /\ InsertRows(l)
  /\ UNCHANGED <<nextLoad, req, erred, outcome, lock, live, history>>

\* The source query returned no row; nothing is inserted.
ExtractNothing(l) ==
  /\ Goto(l, "extract", "record")
  /\ data' = [data EXCEPT ![l] = "empty"]
  /\ UNCHANGED <<nextLoad, req, erred, outcome, lock, warehouse, history>>

\* The clear, the source query, the insert or the reconcile totals failed.
\* A statement that failed at the client may have taken effect.
ExtractFails(l) ==
  /\ "clickhouse" \in Faults
  /\ \/ /\ Outcome(l, "clear", "failed_extract")
        /\ staging' \in {staging, ClearSlice(l)}
        /\ UNCHANGED data
     \/ /\ Outcome(l, "extract", "failed_extract")
        /\ UNCHANGED <<data, staging>>
     \/ /\ Outcome(l, "extract", "failed_extract")
        /\ InsertRows(l)
  /\ UNCHANGED <<nextLoad, req, erred, lock, live, history>>

\* Mutant of RecordExtract: no zero-row guard.
RecordUnguarded(l) ==
  /\ Goto(l, "record", "validate")
  /\ UNCHANGED <<nextLoad, req, data, erred, outcome, lock, warehouse, history>>

\* record_extract wrote rows_landed; the two early returns follow it.
RecordExtract(l) ==
  /\ pc[l] = "record"
  /\ \/ /\ req[l].stop = "extract"
        /\ Outcome(l, "record", "success")
     \/ /\ req[l].stop # "extract"
        /\ data[l] = "empty"
        /\ Outcome(l, "record", "failed_validation")
     \/ /\ req[l].stop # "extract"
        /\ data[l] # "empty"
        /\ Goto(l, "record", "validate")
        /\ UNCHANGED outcome
  /\ UNCHANGED <<nextLoad, req, data, erred, lock, warehouse, history>>

(***************************************************************************)
(* Stage 2: shape validation, then the operator's checks over staging.     *)
(***************************************************************************)

\* Every gate is passed: stop here if asked to, else go on to the swap.
PassGate(l, from) ==
  IF req[l].stop = "validate"
  THEN Outcome(l, from, "success")
  ELSE Goto(l, from, "replace") /\ UNCHANGED outcome

\* The two tables have one shape; a binding without checks is past the gate.
ValidateShape(l) ==
  /\ pc[l] = "validate"
  /\ IF Checks[B(l)] = {}
     THEN PassGate(l, "validate")
     ELSE Goto(l, "validate", "checks") /\ UNCHANGED outcome
  /\ UNCHANGED <<nextLoad, req, data, erred, lock, warehouse, history>>

\* Shape drift or a missing table is handled; an exception of the ClickHouse
\* driver is neither a ValidationError nor a RuntimeError and is not caught.
ValidateFails(l) ==
  /\ \/ "clickhouse" \in Faults /\ Outcome(l, "validate", "failed_recon")
     \/ "metadata" \in Faults /\ Unwind(l, "validate") /\ UNCHANGED outcome
  /\ UNCHANGED <<nextLoad, req, data, erred, lock, warehouse, history>>

\* The check SQL reads the staging table: every slice, not only P(l).
StagedRows(b) == UNION {staging[b][p] : p \in Slices}

\* A row-level predicate finds a bad row, or a tie-out to the source totals
\* of P(l) finds a group that differs or exists on one side only.
Trips(c, l) ==
  IF c.type = "rows" THEN \E m \in StagedRows(B(l)) : data[m] = "dirty"
                     ELSE StagedRows(B(l)) # {l} \/ data[l] # "clean"

\* Mutant of VerdictOf: a warning is looked for before an error.
VerdictWarningFirst(tripped) ==
  IF \E c \in tripped : c.severity = "warning" THEN "succeeded_with_warnings"
  ELSE IF \E c \in tripped : c.severity = "error" THEN "failed_checks" ELSE "passed"

VerdictOf(tripped) ==
  IF \E c \in tripped : c.severity = "error" THEN "failed_checks"
  ELSE IF \E c \in tripped : c.severity = "warning" THEN "succeeded_with_warnings"
  ELSE "passed"

\* run_checks, then record_checks.  A check that cannot run (broken) counts as
\* tripped.
VerdictWith(l, broken) == VerdictOf(broken \cup {c \in Checks[B(l)] : Trips(c, l)})

RunChecksWith(l, broken) ==
  /\ broken # {} => "clickhouse" \in Faults
  /\ IF VerdictWith(l, broken) = "failed_checks"
     THEN Outcome(l, "checks", "failed_checks")
     ELSE PassGate(l, "checks")
  /\ erred' = [erred EXCEPT ![l] = broken # {}]
  /\ verdict' = [verdict EXCEPT ![l] = VerdictWith(l, broken)]
  /\ UNCHANGED <<nextLoad, req, data, lock, warehouse, status, swapped, blamed>>

RunChecks(l) ==
  /\ pc[l] = "checks"
  /\ \E broken \in SUBSET Checks[B(l)] : RunChecksWith(l, broken)

(***************************************************************************)
(* Stage 3: swap.                                                          *)
(***************************************************************************)

\* Mutant of Promote: every staged slice of the table goes live.
PromoteTable(l) ==
  /\ live' = [live EXCEPT ![B(l)] = staging[B(l)]]
  /\ UNCHANGED staging

\* REPLACE PARTITION copies the staged slice over the live one;
\* EXCHANGE TABLES leaves the previous snapshot in staging.
Promote(l) ==
  /\ live' = [live EXCEPT ![B(l)][P(l)] = staging[B(l)][P(l)]]
  /\ staging' = IF IsSnapshot(l)
                THEN [staging EXCEPT ![B(l)][P(l)] = live[B(l)][P(l)]]
                ELSE staging

Replace(l) ==
  /\ pc[l] = "replace"
  /\ Goto(l, "replace", IF IsSnapshot(l) THEN "stamp" ELSE "drop")
  /\ Promote(l)
  /\ UNCHANGED <<nextLoad, req, data, erred, outcome, lock, history>>

\* DROP PARTITION clears the slice just promoted from staging.
DropPromoted(l) ==
  /\ Goto(l, "drop", "stamp")
  /\ staging' = ClearSlice(l)
  /\ UNCHANGED <<nextLoad, req, data, erred, outcome, lock, live, history>>

\* Mutant of SwapFails: the exception is swallowed and the load goes on.
SwallowSwapFailure(l) ==
  /\ "clickhouse" \in Faults
  /\ Goto(l, "replace", "stamp")
  /\ UNCHANGED <<nextLoad, req, data, erred, outcome, lock, warehouse, history>>

\* Either statement of a swap raised, with or without having taken effect.
SwapFails(l) ==
  /\ "clickhouse" \in Faults
  /\ \/ /\ Outcome(l, "replace", "failed_swap")
        /\ UNCHANGED warehouse \/ Promote(l)
     \/ /\ Outcome(l, "drop", "failed_swap")
        /\ staging' \in {staging, ClearSlice(l)}
        /\ UNCHANGED live
  /\ UNCHANGED <<nextLoad, req, data, erred, lock, history>>

RecordSwap(l) ==
  /\ Outcome(l, "stamp", "success")
  /\ swapped' = [swapped EXCEPT ![l] = TRUE]
  /\ UNCHANGED <<nextLoad, req, data, erred, lock, warehouse,
                 status, verdict, blamed>>

Finalise(l) ==
  /\ Goto(l, "finalise", "release")
  /\ status' = [status EXCEPT ![l] = outcome[l]]
  /\ outcome' = [outcome EXCEPT ![l] = "none"]
  /\ UNCHANGED <<nextLoad, req, data, erred, lock, warehouse,
                 swapped, verdict, blamed>>

(***************************************************************************)
(* The finally clause, and what the environment may do.                    *)
(***************************************************************************)

\* The connection is closed; a lock that is not ours is left alone.
FreeLock(l) == lock' = [b \in Bindings |-> IF lock[b] = l THEN NoLoad ELSE lock[b]]

Release(l) ==
  /\ Goto(l, "release", "done")
  /\ FreeLock(l)
  /\ UNCHANGED <<nextLoad, req, data, erred, outcome, warehouse, history>>

\* A PostgreSQL call raised; the row stays as it was, except that a write
\* whose answer was lost has stamped the swap.
HistoryWriteFails(l) ==
  /\ "postgres" \in Faults
  /\ \/ \E at \in {"acquire", "conflict", "refuse", "record", "checks", "finalise"} :
          Unwind(l, at) /\ UNCHANGED swapped
     \/ /\ Unwind(l, "stamp")
        /\ swapped' \in {swapped, [swapped EXCEPT ![l] = TRUE]}
  /\ UNCHANGED <<nextLoad, req, data, erred, outcome, lock, warehouse,
                 status, verdict, blamed>>

\* The process dies: PostgreSQL frees the lock with its connection.
Crash(l) ==
  /\ "crash" \in Faults
  /\ pc[l] \notin {"new", "done"}
  /\ pc' = [pc EXCEPT ![l] = "done"]
  /\ FreeLock(l)
  /\ UNCHANGED <<nextLoad, req, data, erred, outcome, warehouse, history>>

\* The lock's connection dies under a process that keeps running.
LoseLock(l) ==
  /\ "lockconn" \in Faults
  /\ \E b \in Bindings : lock[b] = l
  /\ FreeLock(l)
  /\ UNCHANGED <<process, warehouse, history>>

Step(l) ==
  \/ Acquire(l) \/ GiveUp(l) \/ FindRunning(l) \/ Refuse(l)
  \/ ClearStaging(l) \/ ExtractRows(l) \/ ExtractNothing(l) \/ ExtractFails(l)
  \/ RecordExtract(l) \/ ValidateShape(l) \/ ValidateFails(l) \/ RunChecks(l)
  \/ Replace(l) \/ DropPromoted(l) \/ SwapFails(l) \/ RecordSwap(l)
  \/ Finalise(l) \/ Release(l) \/ HistoryWriteFails(l)

Next == \E l \in Loads : Start(l) \/ Step(l) \/ Crash(l) \/ LoseLock(l)

Spec == Init /\ [][Next]_vars

\* A process that is not killed takes its next step: run_binding is
\* sequential code with time-outs on every wait.
Fairness == \A l \in Loads : WF_vars(Step(l))
FairSpec == Spec /\ Fairness
-----------------------------------------------------------------------------
(***************************************************************************)
(* What must hold.                                                         *)
(***************************************************************************)

\* A query over live.* never sees the rows of two attempts in one slice: what
\* DROP PARTITION before the insert, DROP PARTITION after the swap and the
\* advisory lock are for together (swap.py, ibis_executor.py, pg_lock.py).
LiveUnmixed == \A b \in Bindings, p \in Slices : \A l, m \in live[b][p] : l = m

\* The error-severity checks are a gate: what is live was extracted for that
\* very binding and slice by an attempt asked to swap, and no row of it is bad
\* if an error check looks at the rows (run_binding, stages 2b and 3).
Gated(b) == \E c \in Checks[b] : c.severity = "error"
LiveOnlyGated ==
  \A b \in Bindings, p \in Slices : \A l \in live[b][p] :
    /\ req[l] = [b |-> b, p |-> p, stop |-> "swap"]
    /\ Gated(b) => data[l] = "clean"

\* No two attempts of a binding are between acquiring and releasing its lock.
MutualExclusion ==
  \A l, m \in Loads :
    pc[l] \in Held /\ pc[m] \in Held /\ req[l].b = req[m].b => l = m

\* The documented meaning of a failure: nothing of the attempt is live.  The
\* exception is failed_swap: the statement after the swap may be what failed.
FailedIsNotLive ==
  \A b \in Bindings, p \in Slices : \A l \in live[b][p] :
    status[l] \in {"running", "success", "failed_swap"}

\* At the moment an attempt is recorded as a successful swap, its rows are what
\* its slice holds and the swap is stamped: PostgreSQL never runs ahead of
\* ClickHouse (record_swap and finalise come after do_swap, under the lock).
SuccessIsLive ==
  [][\A l \in Loads :
       /\ swapped'[l] /\ ~swapped[l] => live[B(l)][P(l)] = {l}
       /\ status'[l] = "success" /\ status[l] # "success" /\ req[l].stop = "swap"
          => swapped[l] /\ live[B(l)][P(l)] = {l}]_vars

\* A slice that holds data keeps holding data: a load replaces it, none
\* empties it (the zero-row guard of run_binding).
NeverEmptied ==
  [][\A b \in Bindings, p \in Slices : live[b][p] # {} => live'[b][p] # {}]_vars

\* The contract with readers: live.* behaves as registers (LivePublication).
Phase(l) == CASE pc[l] = "new" -> "idle"
              [] pc[l] \in {"acquire", "clear", "extract", "record", "validate",
                            "checks", "replace"} -> "open"
              [] OTHER -> "closed"
Publication == INSTANCE LivePublication WITH
  phase <- [l \in Loads |-> Phase(l)],
  cell  <- [l \in Loads |-> IF req[l] = NoReq THEN <<>> ELSE <<req[l].b, req[l].p>>]
Publishes == Publication!Spec

\* Liveness of the same contract: an opened attempt publishes or gives up.
PublishesOrGivesUp == Publication!FairSpec

\* An attempt that got the lock is rid of it in the end, whatever stage raised
\* and even if the raising call was the write of the terminal status, or the
\* query of system.columns that no handler catches (the finally clause).
LockIsReleased == \A l \in Loads : pc[l] \in Held ~> \A b \in Bindings : lock[b] # l

\* With PostgreSQL up and the process alive, every attempt reaches one of the
\* terminal statuses of load_history, lock conflicts included.
EveryAttemptFinishes == \A l \in Loads : status[l] = "running" ~> status[l] \in Terminal

(***************************************************************************)
(* What docs, comments and tests say, and the code does not do.            *)
(***************************************************************************)

\* A lock conflict names the load that is in flight, not the one refused
\* (tests/component/test_orchestrator.py, the lock-conflict test).
ConflictNamesAnother == \A l \in Loads : blamed[l] # l

\* "'failed_checks' is the terminal bucket for a load that failed an
\* operator-declared data-quality check" (001_init.sql): of that load.
FailedChecksMeansBadData ==
  \A l \in Loads : status[l] = "failed_checks" /\ ~erred[l] => data[l] = "dirty"
=============================================================================
