---- MODULE MCSignIn ----
(* Browsers may be exchanged for one another. *)
EXTENDS SignIn, TLC

Symmetry == Permutations(Browsers)
====
