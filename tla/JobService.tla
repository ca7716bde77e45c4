----------------------------- MODULE JobService ------------------------------
(***************************************************************************)
(* What the job service promises its clients, with no files, no locks and  *)
(* no processes: what each call changes and answers, and what the worker,  *)
(* the heartbeat, an activation and a rotation may change meanwhile.  Each *)
(* call is one step, and how far each request has come is as JobLifecycle  *)
(* has it.  JobQueue implements it, JobClient is built on it.              *)
(***************************************************************************)
EXTENDS JobLifecycle

CONSTANTS
    Deployments,  \* worker policies, by their digest
    None

VARIABLES
    record,  \* nonce -> what else the service keeps of its job
    service  \* the active deployment, and whether the heartbeat is fresh

server == <<stage, runs, record, service>>

\* A request nobody has sent.
Nothing == [deployment |-> None, executed |-> FALSE, outcome |-> None]

ServiceInit ==
    /\ LifeInit
    /\ record = [n \in Nonces |-> Nothing]
    /\ service \in [deployment : Deployments, beating : BOOLEAN]

-----------------------------------------------------------------------------
(* The calls: what each changes, and what it answers. *)

Calls == {"submit", "start", "status", "results", "cancel"}
\* Failed, timed out, cancelled and stale are all the same to the client.
Outcomes == {"completed", "ended otherwise"}

\* The request is in the queue and of the active deployment; its job is published.
Unheard(n) == stage[n] = "new" /\ record[n].deployment = None
Held(n) == stage[n] # "archived" /\ record[n].deployment = service.deployment
Found(n) == Held(n) /\ stage[n] # "new"

Answer(n) == [ok |-> TRUE, stage |-> stage[n], deployment |-> record[n].deployment,
              executed |-> record[n].executed, outcome |-> record[n].outcome,
              recovery |-> stage[n] \in {"queued", "running"} /\ ~service.beating]
Refusal == [ok |-> FALSE]

EndsUnrecorded(n, outcome) == End(n) /\ UNCHANGED record
Ends(n, outcome) == End(n) /\ record' = [record EXCEPT ![n].outcome = outcome]

\* A request is first written down as prepared, which takes a live worker. The
\* gateway may die after that; a retry goes on from there.
Prepares(n) ==
    /\ Unheard(n)
    /\ service.beating
    /\ record' = [record EXCEPT ![n].deployment = service.deployment]

Dies(n) == Prepares(n) /\ UNCHANGED <<stage, runs, service>>

Submits(n) ==
    /\ Accept(n)
    /\ \/ Prepares(n)
       \/ record[n].deployment = service.deployment /\ UNCHANGED record

\* The execution nonce is drawn here; a submission older than five minutes ends.
Starts(n) ==
    /\ stage[n] = "submitted"
    /\ \/ /\ service.beating
          /\ Start(n)
          /\ record' = [record EXCEPT ![n].executed = TRUE]
       \/ Ends(n, "ended otherwise")

\* Of a running job it only asks the worker.
Cancels(n) ==
    \/ stage[n] # "running" /\ Ends(n, "ended otherwise")
    \/ stage[n] = "running" /\ UNCHANGED <<stage, runs, record>>

AvailableAlways(op, n) == TRUE
\* Results are only given of a job that has ended.
Available(op, n) == op = "results" => stage[n] = "ended"

\* A call whose work is done already, or that only reads.
Repeats(op, n) ==
    /\ Found(n)
    /\ Available(op, n)
    /\ op = "start" => stage[n] # "submitted"
    /\ op = "cancel" => stage[n] = "ended"
    /\ UNCHANGED <<stage, runs, record>>

Accepted(op, n) ==
    /\ UNCHANGED service
    /\ \/ op = "submit" /\ Submits(n)
       \/ op = "start" /\ Found(n) /\ Starts(n)
       \/ op = "cancel" /\ Found(n) /\ Cancels(n)
       \/ Repeats(op, n)

Refused(op, n) ==
    /\ \/ op = "submit" /\ Unheard(n) /\ ~service.beating
       \/ op = "submit" /\ ~Unheard(n) /\ ~Held(n)
       \/ op # "submit" /\ ~Found(n)
       \/ op = "start" /\ stage[n] = "submitted" /\ ~service.beating
       \/ ~Available(op, n)
    /\ UNCHANGED server

-----------------------------------------------------------------------------
(* The worker and the administrator. *)

\* A heartbeat may be old when a worker that was slow goes on.
WorkerClaims(n) == Found(n) /\ Claim(n) /\ UNCHANGED record
WorkerRuns(n) == Execute(n) /\ UNCHANGED record

\* A job ends as its child did, or fails to launch, or was another worker's.
JobEnds(n) ==
    /\ stage[n] \in {"queued", "running"}
    /\ \E o \in Outcomes : (o = "completed" => runs[n] = 1) /\ Ends(n, o)

Worker ==
    /\ \E n \in Nonces : WorkerClaims(n) \/ WorkerRuns(n) \/ JobEnds(n)
    /\ UNCHANGED service

\* The heartbeat is written or becomes too old, or another deployment is activated.
ServiceChanges ==
    /\ \/ service' = [service EXCEPT !.beating = ~@]
       \/ \E d \in Deployments : service' = [deployment |-> d, beating |-> FALSE]
    /\ UNCHANGED <<stage, runs, record>>

\* The records move out of the queue, and the heartbeat with them.
Rotate ==
    /\ \E S \in SUBSET {n \in Nonces : record[n].deployment # None} : Archive(S)
    /\ service' = [service EXCEPT !.beating = FALSE]
    /\ UNCHANGED record

-----------------------------------------------------------------------------
ServiceNext ==
    \/ \E n \in Nonces : Dies(n) \/ \E op \in Calls : Accepted(op, n)
    \/ Worker \/ ServiceChanges \/ Rotate

ServiceSpec == ServiceInit /\ [][ServiceNext]_server
=============================================================================
