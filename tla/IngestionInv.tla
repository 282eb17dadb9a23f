----------------------------- MODULE IngestionInv -----------------------------
(***************************************************************************)
(* The inductive invariant behind the safety properties of Ingestion, for  *)
(* builds whose lock connection outlives the load ("lockconn" is no fault).*)
(* Alone, neither LiveUnmixed nor LiveOnlyGated is inductive: what REPLACE *)
(* PARTITION publishes is decided by who wrote the staging slice, which is *)
(* decided by who holds the lock.                                          *)
(***************************************************************************)
EXTENDS Ingestion

\* Program points at which no row of the attempt is anywhere.
BeforeInsert == {"new", "acquire", "conflict", "refuse", "clear", "extract"}
\* Program points from the insert to the swap.
Staged == {"record", "validate", "checks", "replace"}
\* Program points at which its rows may be live.
AfterSwap == {"drop", "stamp", "finalise", "release", "done"}

\* Attempts are numbered as they are triggered, with a request that fits.
Triggered ==
  \A l \in Loads :
    /\ l >= nextLoad => pc[l] = "new"
    /\ pc[l] # "new" => req[l] \in Requests

\* The lock row and the program counters tell the same story.
LockInv ==
  \A b \in Bindings, l \in Loads :
    lock[b] = l <=> pc[l] \in Held /\ req[l].b = b

\* Whose rows may be where.
RowsInv ==
  /\ \A b \in Bindings, p \in Slices : \A l \in staging[b][p] :
       pc[l] \notin BeforeInsert /\ req[l].b = b
  /\ \A b \in Bindings, p \in Slices : \A l \in live[b][p] : pc[l] \in AfterSwap

\* The slice of a load under way is empty, then holds that load alone.
Slice(l) ==
  /\ pc[l] = "extract" => staging[B(l)][P(l)] = {}
  /\ pc[l] \in Staged => staging[B(l)][P(l)] \subseteq {l}

\* What has been decided about a load on its way to the swap.
Gate(l) ==
  /\ pc[l] \in Staged => data[l] # "none"
  /\ pc[l] \in Staged \ {"record"} => data[l] # "empty" /\ req[l].stop # "extract"
  /\ pc[l] = "replace" =>
       /\ req[l].stop = "swap"
       /\ Gated(B(l)) /\ l \in staging[B(l)][P(l)] => data[l] = "clean"

\* Rows that landed are the slice's rows, if the extract query is right.
Landed(l) ==
  "source" \notin Faults /\ pc[l] \in Staged /\ data[l] # "empty"
    => l \in staging[B(l)][P(l)]

SliceInv  == \A l \in Loads : Slice(l)
GateInv   == \A l \in Loads : Gate(l)
LandedInv == \A l \in Loads : Landed(l)

\* The status a live load has, or is about to be given.
StatusInv ==
  /\ \A l \in Loads : pc[l] \notin {"new", "release", "done"} => status[l] = "running"
  /\ \A b \in Bindings, p \in Slices : \A l \in live[b][p] :
       pc[l] = "finalise" => outcome[l] \in {"success", "failed_swap"}

IInv ==
  /\ TypeOK /\ Triggered /\ LockInv /\ RowsInv /\ SliceInv /\ GateInv /\ LandedInv
  /\ StatusInv /\ LiveUnmixed /\ LiveOnlyGated /\ FailedIsNotLive
=============================================================================
