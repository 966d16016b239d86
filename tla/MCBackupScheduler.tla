-------------------------- MODULE MCBackupScheduler --------------------------
(* Instances of BackupScheduler for TLC.  No symmetry: the run checks liveness. *)
EXTENDS BackupScheduler, TLC
==============================================================================
