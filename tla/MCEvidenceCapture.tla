-------------------------- MODULE MCEvidenceCapture --------------------------
(* The evidence capture on small instances. *)
EXTENDS EvidenceCapture, TLC

Symmetry == Permutations(Captures) \cup Permutations(Deployments)

Entry(pinned, flags, luid) == [pinned |-> pinned, flags |-> flags, luid |-> luid]

UnityJobs == {<<1, 1>>, <<1, 2>>, <<2, 1>>}

\* The pinned adapter beside a software renderer that reports the same hardware;
\* and twice, which is ambiguous.
HostInventories ==
    {<<Entry(TRUE, 0, 1), Entry(TRUE, 2, 2)>>, <<Entry(TRUE, 0, 1), Entry(TRUE, 0, 2)>>}
=============================================================================
