--------------------------- MODULE JobQueueServes ---------------------------
(***************************************************************************)
(* The queue gives the service that its clients are built on (JobService): *)
(* its files, its locks and its processes change nothing a client could    *)
(* see but by a call, the worker, the heartbeat, an activation or a        *)
(* rotation.  What the archives of the queue hold is added as a history:   *)
(* a rotation moves the records there, and nothing reads them again.       *)
(***************************************************************************)
EXTENDS JobQueueRefines

\* A deployment that is missing is none.
ASSUME NoneIsNoDeployment == None \notin DeploymentIds

VARIABLE shelf  \* what was kept of each request when it was archived

Nothing == [deployment |-> None, executed |-> FALSE, outcome |-> None]

Outcome(job) ==
    IF job.state \notin Terminal THEN None
    ELSE IF job.state = "completed" THEN "completed" ELSE "ended otherwise"

\* What the index of a request and its job, if there is one yet, say of it.
RecordOf(n) ==
    IF index[n] = None THEN Nothing
    ELSE LET job == jobs[index[n].job] IN
         [deployment |-> index[n].deployment,
          executed |-> job # None /\ job.execution # 0,
          outcome |-> IF job = None THEN None ELSE Outcome(job)]

Kept(n) == IF archived[n] # None THEN shelf[n] ELSE RecordOf(n)

Shelved ==
    shelf' = [n \in Nonces |->
                 IF archived[n] = None /\ archived'[n] # None THEN RecordOf(n) ELSE shelf[n]]

ServedVars == <<vars, shelf>>
ServedInit == Init /\ shelf = [n \in Nonces |-> Nothing]
ServedNext == Next /\ Shelved
ServedSpec == ServedInit /\ [][ServedNext]_ServedVars

Service == INSTANCE JobService WITH
    Deployments <- DeploymentIds,
    stage <- [n \in Nonces |-> StageOf(n)],
    runs <- [n \in Nonces |-> Cardinality(Executions(n))],
    record <- [n \in Nonces |-> Kept(n)],
    service <- [deployment |-> deployment, beating |-> WorkerAvailable]

\* Every step of the files and processes is a step of the service or none, so
\* that what a client may rely on the queue gives.
ImplementsService == Service!ServiceSpec

\* A client is answered by submit only of a request that the service then shows
\* as submitted and of the active deployment, though the gateway checked that
\* before it wrote, and others went on from where it was interrupted.
AnsweredIsFound == [][\A a \in answers' \ answers : Service!Found(a[1])']_ServedVars
=============================================================================
