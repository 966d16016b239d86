--------------------------- MODULE MCControlPlane ---------------------------
(* Instances of ControlPlane for TLC.  Sites and workers are interchangeable. *)
EXTENDS ControlPlane, TLC

Symmetry == Permutations(Workers) \cup Permutations(Sites)
=============================================================================
