------------------------------ MODULE MCRestore ------------------------------
(* Values for the constants of Restore that a .cfg cannot write. *)
EXTENDS Restore, TLC

\* The instance is kept longer than ClickHouse.
KeepLast == [s \in {"clickhouse", "instance"} |-> IF s = "clickhouse" THEN 1 ELSE 2]
NoDays   == [s \in {"clickhouse", "instance"} |-> 0]
=============================================================================
