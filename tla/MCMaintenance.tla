---------------------------- MODULE MCMaintenance ----------------------------
(* Small instances of Maintenance for TLC: the symmetry of its data. *)
EXTENDS Maintenance, TLC

\* The deployment of the installation is distinguished, the others are not.
Symmetry ==
    Permutations(Requests) \cup Permutations(Gateways)
        \cup Permutations(JobGateways) \cup Permutations(Deployments \ {Installed})
=============================================================================
