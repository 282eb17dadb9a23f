----------------------------- MODULE MCIngestion -----------------------------
\* Values for the constants of Ingestion: bindings, slices and their checks.
EXTENDS IngestionInv, TLC

CONSTANTS gl, dim, jan, feb, whole

Row(s) == [type |-> "rows", severity |-> s]
TieOut(s) == [type |-> "reconcile", severity |-> s]

MCNoChecks  == [b \in Bindings |-> {}]
MCTwoChecks == [b \in Bindings |-> {Row("error"), TieOut("warning")}]
MCTieOut    == [b \in Bindings |-> {TieOut("error")}]

\* Periods are interchangeable: nothing in run_binding orders them.
PeriodSymmetry == Permutations(Periods)
=============================================================================
