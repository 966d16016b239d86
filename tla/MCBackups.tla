------------------------------ MODULE MCBackups ------------------------------
(* Instances of Backups for TLC.  Destinations and processes are
   interchangeable. *)
EXTENDS Backups, TLC

Symmetry == Permutations(Dests) \cup Permutations(Procs)
==============================================================================
