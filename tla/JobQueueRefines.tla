-------------------------- MODULE JobQueueRefines ---------------------------
(* The queue implements the lifecycle its clients rely on. *)
EXTENDS JobQueue

\* A request is accepted from the moment its index is published.
StageOf(n) ==
    IF archived[n] # None THEN "archived"
    ELSE IF index[n] = None THEN "new"
    ELSE IF index[n].phase = "prepared" THEN "new"
    ELSE IF jobs[index[n].job].state \in Terminal THEN "ended"
    ELSE jobs[index[n].job].state

\* Every execution of every job that submit ever answered for this nonce.
AnsweredJobs(n) == {j \in JobIds : \E d \in Digests : <<n, d, j>> \in answers}
Executions(n) == UNION {{j} \X (1 .. launches[j]) : j \in AnsweredJobs(n)}

Lifecycle == INSTANCE JobLifecycle WITH
    stage <- [n \in Nonces |-> StageOf(n)],
    runs <- [n \in Nonces |-> Cardinality(Executions(n))]

\* Every step of the files and processes is a step of the lifecycle or none.
ImplementsLifecycle == Lifecycle!LifeSpec
=============================================================================
