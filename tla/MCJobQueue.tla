----------------------------- MODULE MCJobQueue -----------------------------
(* Instances of JobQueue for TLC.  No symmetry: the run checks liveness. *)
EXTENDS JobQueue, TLC
=============================================================================
