-------------------------- MODULE MCReleaseDelivery --------------------------
(* The delivery of releases on small instances. *)
EXTENDS ReleaseDelivery, TLC

Symmetry == Permutations(Requests) \cup Permutations(Files) \cup Permutations(Clients)

CONSTANTS w2, w3, u1, u2

Release(worker, unity, members) == [worker |-> worker, unity |-> unity, members |-> members]

\* A good release, one whose worker has the name of the installed deployment, and
\* players whose names Windows cannot have.
Releases ==
    {Release(w2, u1, {<<"player">>, <<"data", "scene">>}),
     Release(Installed, u2, {<<"player">>}),
     Release(w3, u2, {<<"data">>, <<"data", "scene">>}),
     Release(w3, u2, {<<"con">>}),
     Release(w3, u2, {<<"data", "more", "scene">>})}
=============================================================================
