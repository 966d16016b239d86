------------------------------- MODULE MCTeams -------------------------------
(* Instances of Teams for TLC.  Requests and visitors are interchangeable. *)
EXTENDS Teams, TLC

CONSTANTS e1, e2

MCRoster == << [email |-> e1, role |-> "owner"],
               [email |-> e2, role |-> "admin"] >>

Symmetry == Permutations(Requests) \cup Permutations(Visitors)
===============================================================================
