------------------------------ MODULE MCBackup ------------------------------
(* Values for the constants of Backup that a .cfg cannot write. *)
EXTENDS Backup, TLC

\* The files store is kept by number, the instance by age.
KeepOne == [s \in {"files", "instance"} |-> IF s = "files" THEN 1 ELSE 0]
OneDay  == [s \in {"files", "instance"} |-> IF s = "files" THEN 0 ELSE 1]
RunSymmetry == Permutations(Runs)
=============================================================================
