----------------------------- MODULE MCJobQueue -----------------------------
(* Small instances of JobQueue for TLC: the symmetry of its data. *)
EXTENDS JobQueueRefines, TLC

\* Model values are only compared, so safety runs may permute each kind.
Symmetry ==
    Permutations(Nonces) \cup Permutations(Digests) \cup Permutations(JobIds)
        \cup Permutations(Epochs)
=============================================================================
