---- MODULE MCSiteHost ----
(* Sites may be exchanged for one another, and so may PHP versions. *)
EXTENDS SiteHost, TLC

Symmetry == Permutations(Sites) \cup Permutations(Versions)
====
