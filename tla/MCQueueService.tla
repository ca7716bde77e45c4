--------------------------- MODULE MCQueueService ---------------------------
(* Small instances of the queue as the service of its clients. *)
EXTENDS JobQueueServes, TLC

\* Model values are only compared, so safety runs may permute each kind.
Symmetry ==
    Permutations(Nonces) \cup Permutations(Digests) \cup Permutations(JobIds)
        \cup Permutations(Epochs)
=============================================================================
