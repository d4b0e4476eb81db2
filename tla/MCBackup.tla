------------------------------- MODULE MCBackup -------------------------------
(***************************************************************************)
(* Instances of Backup for TLC: the runs and the volumes.                  *)
(***************************************************************************)
EXTENDS Backup, TLC

CONSTANTS p1, p2, p3, v1, v2

TwoVolumes == <<v1, v2>>

\* Two backups, and a restore of the first.
Sources == [p \in Runs |-> IF p = p3 THEN p1 ELSE Null]

SecretsOfFirst == [p \in Runs |-> p = p1]

=============================================================================
