---------------------------- MODULE MCJobClient -----------------------------
(* The job client on small instances. *)
EXTENDS JobClient, TLC

Symmetry == Permutations(Clients) \cup Permutations(Nonces)
=============================================================================
