------------------------- MODULE MCArchiveRotation -------------------------
(* Small instances of ArchiveRotation for TLC: the symmetry of its data. *)
EXTENDS ArchiveRotation, TLC

Symmetry == Permutations(Nonces) \cup Permutations(Gateways)
=============================================================================
