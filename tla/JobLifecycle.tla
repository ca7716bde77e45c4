---------------------------- MODULE JobLifecycle ----------------------------
(***************************************************************************)
(* What the job service promises about one request nonce, with no files,   *)
(* no locks and no processes: its stages are passed in order, each at most *)
(* once, nothing brings a request back, and it is executed at most once.   *)
(* An interrupted submission is not visible here, neither is a crash.      *)
(***************************************************************************)
EXTENDS Naturals

CONSTANT Nonces  \* request nonces the clients may draw

VARIABLES stage,  \* how far the request has come
          runs    \* how often it was executed

life == <<stage, runs>>

Stages == {"new", "submitted", "queued", "running", "ended", "archived"}

LifeInit ==
    /\ stage = [n \in Nonces |-> "new"]
    /\ runs = [n \in Nonces |-> 0]

Move(n, from, to) ==
    /\ stage[n] \in from
    /\ stage' = [stage EXCEPT ![n] = to]
    /\ UNCHANGED runs

Accept(n) == Move(n, {"new"}, "submitted")
Start(n) == Move(n, {"submitted"}, "queued")
Claim(n) == Move(n, {"queued"}, "running")
End(n) == Move(n, {"submitted", "queued", "running"}, "ended")

Execute(n) ==
    /\ stage[n] = "running"
    /\ runs[n] = 0
    /\ runs' = [runs EXCEPT ![n] = 1]
    /\ UNCHANGED stage

\* A rotation takes every accepted request, and none that is under way; it may
\* take requests whose submission was never finished.
Archive(S) ==
    /\ \A n \in Nonces : stage[n] \notin {"queued", "running"}
    /\ {n \in Nonces : stage[n] \in {"submitted", "ended"}} \subseteq S
    /\ stage' = [n \in Nonces |-> IF n \in S THEN "archived" ELSE stage[n]]
    /\ UNCHANGED runs

LifeNext ==
    \/ \E n \in Nonces : Accept(n) \/ Start(n) \/ Claim(n) \/ Execute(n) \/ End(n)
    \/ \E S \in SUBSET Nonces : Archive(S)

LifeSpec == LifeInit /\ [][LifeNext]_life
=============================================================================
