--------------------------- MODULE LivePublication ---------------------------
(***************************************************************************)
(* What ingestion promises a reader of live.*: a slice of a table is one   *)
(* register.  It changes only when an attempt opened for that very slice   *)
(* publishes, which replaces the whole content by that attempt's rows, in  *)
(* one step, at most once per attempt.  An attempt may be given up at any  *)
(* time; readers then see what they saw before.                            *)
(***************************************************************************)
CONSTANTS Bindings, Slices, Loads

VARIABLES
  phase,   \* "idle", "open" or "closed", per attempt
  cell,    \* the slice an attempt was opened for: <<binding, slice>>
  live     \* binding -> slice -> attempts whose rows a query sees

vars == <<phase, cell, live>>

Empty == [b \in Bindings |-> [p \in Slices |-> {}]]

Init ==
  /\ phase = [l \in Loads |-> "idle"]
  /\ cell = [l \in Loads |-> <<>>]
  /\ live = Empty

Open(l) ==
  /\ phase[l] = "idle"
  /\ phase' = [phase EXCEPT ![l] = "open"]
  /\ \E b \in Bindings, p \in Slices : cell' = [cell EXCEPT ![l] = <<b, p>>]
  /\ UNCHANGED live

Close(l) ==
  /\ phase[l] = "open"
  /\ phase' = [phase EXCEPT ![l] = "closed"]
  /\ UNCHANGED cell

Publish(l) ==
  /\ Close(l)
  /\ \E b \in Bindings, p \in Slices :
       /\ cell[l] = <<b, p>>
       /\ live' = [live EXCEPT ![b][p] = {l}]

GiveUp(l) == Close(l) /\ UNCHANGED live

Next == \E l \in Loads : Open(l) \/ Publish(l) \/ GiveUp(l)

Spec == Init /\ [][Next]_vars

\* Every attempt that was opened is published or given up.
Fairness == \A l \in Loads : WF_vars(Publish(l) \/ GiveUp(l))
FairSpec == Spec /\ Fairness
=============================================================================
