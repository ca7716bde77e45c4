------------------------------ MODULE JobQueue ------------------------------
(***************************************************************************)
(* The durable job queue of D3D11Validation and the two programs that      *)
(* share it: the job gateway (one short process per SSH request) and the   *)
(* worker (one long process, at most one at a time).                       *)
(*                                                                         *)
(* Both keep everything in the files of data\queue-v1 and hold the         *)
(* exclusive store.lock for a whole operation, but an operation makes      *)
(* several writes and a process may be killed between any two of them. So  *)
(* the model has one action per durable write, the lock is held from the   *)
(* first to the last, and a kill releases it.                              *)
(*                                                                         *)
(* Abstractions.  A file write is atomic (ValidationStore.Write flushes a  *)
(* temporary file and renames it).  A capability is known to whoever was   *)
(* answered by submit.  An execution nonce is the number of the start that *)
(* drew it, '' being 0.  Requests that are refused leave no trace and are  *)
(* not steps.  Clock readings are booleans that the environment flips.     *)
(***************************************************************************)
EXTENDS Naturals, FiniteSets

CONSTANTS
    Nonces,       \* request nonces chosen by clients
    Digests,      \* SHA-256 of a submit request's text, its content
    JobIds,       \* the GUIDs the gateway may draw
    Epochs,       \* the epochs workers draw at start, one per process
    Deployments,  \* bound: activations go through 1 .. Deployments
    MaxJobs,      \* 128 in the code
    MaxRequests,  \* 10000 in the code
    MaxKills,     \* bound: gateway processes killed while holding the lock
    MaxLosses,    \* bound: records that vanish from the store
    MaxRotations, \* bound: queue archivals
    None

ASSUME QueueAssumption ==
    /\ MaxJobs \in Nat /\ MaxRequests \in Nat /\ MaxKills \in Nat
    /\ MaxLosses \in Nat /\ MaxRotations \in Nat
    /\ Deployments \in Nat \ {0}
    /\ None \notin Nonces \cup Digests \cup JobIds \cup Epochs

VARIABLES
    index,       \* request-<nonce>.json: the submission index
    jobs,        \* job-<id>.json: the mutable job record
    archived,    \* archived-requests.json: digest of each tombstone
    heartbeat,   \* worker.json without its timestamp
    fresh,       \* the timestamp of worker.json is at most 10 s old
    deployment,  \* the active deployment
    pending,     \* nonce of the submit that holds store.lock, or None
    worker,      \* the worker process
    aged,        \* jobs created more than 5 minutes ago
    allocated,   \* history: every GUID ever drawn
    epochs,      \* history: every epoch ever drawn
    answers,     \* history: <<nonce, digest, job>> answered by submit
    launches,    \* history: children started for each job
    kills, losses, rotations

store == <<index, jobs, archived>>
beats == <<heartbeat, fresh>>
drawn == <<allocated, epochs>>
bounds == <<kills, losses, rotations>>
vars == <<store, beats, deployment, pending, worker, aged, drawn, answers,
          launches, bounds>>

-----------------------------------------------------------------------------
Terminal == {"completed", "cancelled", "timed_out", "failed", "stale"}
JobStates == {"submitted", "queued", "running"} \cup Terminal
DeploymentIds == 1 .. Deployments

Job == [nonce : Nonces, digest : Digests, deployment : DeploymentIds,
        state : JobStates, epoch : Epochs \cup {None}, execution : Nat,
        cancelRequested : BOOLEAN, exit : {"none", "ok", "bad"},
        result : Terminal \cup {"none"}, updated : BOOLEAN]

Index == [phase : {"prepared", "published"}, job : JobIds,
          nonce : Nonces, digest : Digests, deployment : DeploymentIds]

Worker == [pc : {"down", "sleep", "poll", "scan", "launch"},
           epoch : Epochs \cup {None}, deployment : DeploymentIds,
           active : JobIds \cup {None},
           child : {"none", "running", "ok", "bad"}, late : BOOLEAN]

\* None stands for a missing file and is not the content of one.
ASSUME NoneIsNoRecord == None \notin Job /\ None \notin Index

Existing == {j \in JobIds : jobs[j] # None}
Indexed == {n \in Nonces : index[n] # None}
Archived == {n \in Nonces : archived[n] # None}

\* The job record as submit first writes it.
Initial(i) ==
    [nonce |-> i.nonce, digest |-> i.digest, deployment |-> i.deployment,
     state |-> "submitted", epoch |-> None, execution |-> 0,
     cancelRequested |-> FALSE, exit |-> "none", result |-> "none",
     updated |-> FALSE]

SameBinding(i, job) ==
    /\ job.nonce = i.nonce
    /\ job.digest = i.digest
    /\ job.deployment = i.deployment

\* What publication needs: "create", "publish", "reuse", or an exception.
PublicationAction(i, job) ==
    CASE job = None /\ i.phase = "prepared" -> "create"
      [] job # None /\ i.phase = "prepared" /\ job = Initial(i) -> "publish"
      [] job # None /\ i.phase = "published" /\ SameBinding(i, job) -> "reuse"
      [] OTHER -> "refuse"

WorkerAvailable ==
    heartbeat # None /\ fresh /\ heartbeat.deployment = deployment

\* store.lock can be opened: no operation is under way.
StoreFree == pending = None /\ worker.pc \in {"down", "sleep"}

Init ==
    /\ index = [n \in Nonces |-> None]
    /\ jobs = [j \in JobIds |-> None]
    /\ archived = [n \in Nonces |-> None]
    /\ heartbeat = None
    /\ fresh = FALSE
    /\ deployment = 1
    /\ pending = None
    /\ worker = [pc |-> "down", epoch |-> None, deployment |-> 1,
                 active |-> None, child |-> "none", late |-> FALSE]
    /\ aged = {}
    /\ allocated = {} /\ epochs = {}
    /\ answers = {}
    /\ launches = [j \in JobIds |-> 0]
    /\ kills = 0 /\ losses = 0 /\ rotations = 0

-----------------------------------------------------------------------------
(* The gateway: submit. *)

\* Faults are definitions no action uses: each is a plausible bug in the code of
\* the definition after it, and some property notices the exchange.
JobQuotaOffByOne == Cardinality(Existing) <= MaxJobs
BelowJobQuota == Cardinality(Existing) < MaxJobs

HistoryQuotaLiveOnly == Cardinality(Indexed) < MaxRequests
BelowHistoryQuota == Cardinality(Archived) + Cardinality(Indexed) < MaxRequests

\* An index may have vanished while the job it led to is still there.
NoRecordScan(n) == TRUE
NoRecordOf(n) == \A k \in Existing : jobs[k].nonce # n

\* A new nonce: reserve it, with a fresh job identity, in a prepared index.
Prepare(n, d, j) ==
    /\ StoreFree
    /\ archived[n] = None
    /\ index[n] = None
    /\ WorkerAvailable
    /\ BelowJobQuota
    /\ BelowHistoryQuota
    /\ NoRecordOf(n)
    /\ j \notin allocated
    /\ index' = [index EXCEPT ![n] =
                    [phase |-> "prepared", job |-> j, nonce |-> n,
                     digest |-> d, deployment |-> deployment]]
    /\ allocated' = allocated \cup {j}
    /\ pending' = n
    /\ UNCHANGED <<jobs, archived, beats, deployment, worker, aged, epochs,
                   answers, launches, bounds>>

RetryableUnderAny(n, d) ==
    /\ archived[n] = None
    /\ index[n] # None
    /\ index[n].digest = d

\* The request of index n, sent again with the same text, may go on.
Retryable(n, d) ==
    /\ archived[n] = None
    /\ index[n] # None
    /\ index[n].digest = d
    /\ index[n].deployment = deployment

\* A retry of a submission that was interrupted before it was published.
Resume(n, d) ==
    /\ StoreFree
    /\ Retryable(n, d)
    /\ PublicationAction(index[n], jobs[index[n].job]) \in {"create", "publish"}
    /\ pending' = n
    /\ UNCHANGED <<store, beats, deployment, worker, aged, drawn, answers,
                   launches, bounds>>

\* A retry of a published submission writes nothing and answers the same job.
Replay(n, d) ==
    /\ StoreFree
    /\ Retryable(n, d)
    /\ PublicationAction(index[n], jobs[index[n].job]) = "reuse"
    /\ answers' = answers \cup {<<n, d, index[n].job>>}
    /\ UNCHANGED <<store, beats, deployment, pending, worker, aged, drawn,
                   launches, bounds>>

\* Second write of submit.
CreateJob ==
    /\ pending # None
    /\ LET i == index[pending] IN
        /\ PublicationAction(i, jobs[i.job]) = "create"
        /\ jobs' = [jobs EXCEPT ![i.job] = Initial(i)]
    /\ UNCHANGED <<index, archived, beats, deployment, pending, worker, aged,
                   drawn, answers, launches, bounds>>

PublishFirst ==
    /\ pending # None
    /\ index[pending].phase = "prepared"
    /\ index' = [index EXCEPT ![pending].phase = "published"]
    /\ UNCHANGED <<jobs, archived, beats, deployment, pending, worker, aged,
                   drawn, answers, launches, bounds>>

\* Third write of submit.
Publish ==
    /\ pending # None
    /\ PublicationAction(index[pending], jobs[index[pending].job]) = "publish"
    /\ index' = [index EXCEPT ![pending].phase = "published"]
    /\ UNCHANGED <<jobs, archived, beats, deployment, pending, worker, aged,
                   drawn, answers, launches, bounds>>

\* The response leaves, and the process releases the lock.
Answer ==
    /\ pending # None
    /\ index[pending].phase = "published"
    /\ answers' = answers \cup {<<pending, index[pending].digest, index[pending].job>>}
    /\ pending' = None
    /\ UNCHANGED <<store, beats, deployment, worker, aged, drawn, launches, bounds>>

\* The gateway process dies between two writes of submit, or before answering.
InterruptGateway ==
    /\ pending # None
    /\ kills < MaxKills
    /\ kills' = kills + 1
    /\ pending' = None
    /\ UNCHANGED <<store, beats, deployment, worker, aged, drawn, answers,
                   launches, losses, rotations>>

-----------------------------------------------------------------------------
(* The gateway: start and cancel, for a client that knows the capability. *)

AccessibleToAnyDeployment(j) ==
    /\ StoreFree
    /\ \E a \in answers : a[3] = j
    /\ jobs[j] # None
    /\ index[jobs[j].nonce] # None
    /\ PublicationAction(index[jobs[j].nonce], jobs[j]) = "reuse"

\* The checks every operation on a job begins with.
Accessible(j) ==
    /\ StoreFree
    /\ \E a \in answers : a[3] = j
    /\ jobs[j] # None
    /\ jobs[j].deployment = deployment
    /\ index[jobs[j].nonce] # None
    /\ index[jobs[j].nonce].job = j
    /\ PublicationAction(index[jobs[j].nonce], jobs[j]) = "reuse"

\* The one write of start and of cancel.
WriteJob(j, job) ==
    /\ jobs' = [jobs EXCEPT ![j] = job]
    /\ UNCHANGED <<index, archived, beats, deployment, pending, worker, aged,
                   drawn, answers, launches, bounds>>

\* A job too old becomes stale; otherwise it is bound to the epoch of the last
\* heartbeat, which may be that of a worker that has just died.
Start(j) ==
    /\ Accessible(j)
    /\ jobs[j].state = "submitted"
    /\ \/ /\ j \in aged
          /\ WriteJob(j, [jobs[j] EXCEPT !.state = "stale", !.updated = TRUE])
       \/ /\ j \notin aged
          /\ WorkerAvailable
          /\ WriteJob(j, [jobs[j] EXCEPT !.state = "queued", !.updated = TRUE,
                                         !.epoch = heartbeat.epoch,
                                         !.execution = @ + 1])

CancelInAnyState(j) ==
    /\ Accessible(j)
    /\ WriteJob(j, [jobs[j] EXCEPT
            !.state = IF @ = "running" THEN @ ELSE "cancelled",
            !.cancelRequested = @ \/ jobs[j].state = "running",
            !.updated = TRUE])

\* A running job is only marked, its worker ends it; a job in a terminal state
\* is rewritten with a new time.
Cancel(j) ==
    /\ Accessible(j)
    /\ WriteJob(j, [jobs[j] EXCEPT
            !.state = IF @ \in {"submitted", "queued"} THEN "cancelled" ELSE @,
            !.cancelRequested = @ \/ jobs[j].state = "running",
            !.updated = TRUE])

\* results returns the outcome of the job.
ResultsReady(j) == jobs[j] # None /\ jobs[j].state \in Terminal

-----------------------------------------------------------------------------
(* The worker. *)

\* A worker process gets the mutex and draws its epoch.
Boot(e) ==
    /\ worker.pc = "down"
    /\ e \notin epochs
    /\ epochs' = epochs \cup {e}
    /\ worker' = [pc |-> "sleep", epoch |-> e, deployment |-> deployment,
                  active |-> None, child |-> "none", late |-> FALSE]
    /\ UNCHANGED <<store, beats, deployment, pending, aged, allocated, answers,
                   launches, bounds>>

\* An iteration opens the store and first writes the heartbeat.
Beat ==
    /\ worker.pc = "sleep"
    /\ StoreFree
    /\ heartbeat' = [epoch |-> worker.epoch, deployment |-> worker.deployment]
    /\ fresh' = TRUE
    /\ worker' = [worker EXCEPT
                    !.pc = IF worker.active = None THEN "scan" ELSE "poll"]
    /\ UNCHANGED <<store, deployment, pending, aged, drawn, answers, launches, bounds>>

VerdictExitFirst(job) ==
    CASE worker.child = "ok" -> "completed"
      [] worker.child = "bad" -> "failed"
      [] worker.child = "running" /\ job.cancelRequested -> "cancelled"
      [] worker.child = "running" /\ ~job.cancelRequested /\ worker.late -> "timed_out"
      [] OTHER -> "undecided"

\* What the poll of the active job decides, in the order of the code.
Verdict(job) ==
    CASE job.cancelRequested -> "cancelled"
      [] ~job.cancelRequested /\ worker.late -> "timed_out"
      [] ~job.cancelRequested /\ ~worker.late /\ worker.child = "ok" -> "completed"
      [] ~job.cancelRequested /\ ~worker.late /\ worker.child = "bad" -> "failed"
      [] OTHER -> "undecided"

ConcludeUndecided ==
    /\ worker.pc = "poll"
    /\ jobs[worker.active] # None
    /\ LET verdict == Verdict(jobs[worker.active]) IN
        jobs' = [jobs EXCEPT ![worker.active].state = verdict,
                             ![worker.active].result = verdict]
    /\ worker' = [worker EXCEPT !.pc = "scan", !.active = None, !.child = "none",
                                !.late = FALSE]
    /\ UNCHANGED <<index, archived, beats, deployment, pending, aged, drawn,
                   answers, launches, bounds>>

\* The child is disposed of and the outcome recorded; evidence that cannot be
\* completed turns any verdict into failed.
Conclude ==
    /\ worker.pc = "poll"
    /\ jobs[worker.active] # None
    /\ LET job == jobs[worker.active]
           verdict == Verdict(job)
       IN  /\ verdict # "undecided"
           /\ \E final \in {verdict, "failed"} :
                jobs' = [jobs EXCEPT ![worker.active] =
                    [job EXCEPT !.state = final, !.result = final, !.updated = TRUE,
                                !.exit = IF job.cancelRequested \/ worker.late
                                         THEN @ ELSE worker.child]]
    /\ worker' = [worker EXCEPT !.pc = "scan", !.active = None, !.child = "none",
                                !.late = FALSE]
    /\ UNCHANGED <<index, archived, beats, deployment, pending, aged, drawn,
                   answers, launches, bounds>>

KeepWaiting ==
    /\ worker.pc = "poll"
    /\ jobs[worker.active] # None
    /\ Verdict(jobs[worker.active]) = "undecided"
    /\ worker' = [worker EXCEPT !.pc = "sleep"]
    /\ UNCHANGED <<store, beats, deployment, pending, aged, drawn, answers,
                   launches, bounds>>

OrphanedRun(j) ==
    /\ jobs[j] # None
    /\ jobs[j].state = "running"
    /\ jobs[j].epoch # worker.epoch

\* Queued or running under another epoch: its worker is gone.
Orphaned(j) ==
    /\ jobs[j] # None
    /\ jobs[j].state \in {"queued", "running"}
    /\ jobs[j].epoch # worker.epoch

Requeue(j) ==
    /\ worker.pc = "scan"
    /\ Orphaned(j)
    /\ jobs' = [jobs EXCEPT ![j].state = "queued", ![j].epoch = worker.epoch]
    /\ UNCHANGED <<index, archived, beats, deployment, pending, worker, aged,
                   drawn, answers, launches, bounds>>

\* The scan visits the records in the order of their random names.
MarkStale(j) ==
    /\ worker.pc = "scan"
    /\ Orphaned(j)
    /\ jobs' = [jobs EXCEPT ![j].state = "stale", ![j].updated = TRUE]
    /\ UNCHANGED <<index, archived, beats, deployment, pending, worker, aged,
                   drawn, answers, launches, bounds>>

Mine(j) ==
    /\ jobs[j] # None
    /\ jobs[j].state = "queued"
    /\ jobs[j].epoch = worker.epoch

\* The record says running before anything is started.
Claim(j) ==
    /\ worker.pc = "scan"
    /\ Mine(j)
    /\ jobs[j].deployment = worker.deployment
    /\ jobs' = [jobs EXCEPT ![j].state = "running", ![j].updated = TRUE]
    /\ worker' = [worker EXCEPT !.pc = "launch", !.active = j]
    /\ UNCHANGED <<index, archived, beats, deployment, pending, aged, drawn,
                   answers, launches, bounds>>

\* The child runs, in a job object of its own; the iteration ends.
Launch ==
    /\ worker.pc = "launch"
    /\ launches' = [launches EXCEPT ![worker.active] = @ + 1]
    /\ worker' = [worker EXCEPT !.pc = "sleep", !.child = "running"]
    /\ UNCHANGED <<store, beats, deployment, pending, aged, drawn, answers, bounds>>

LaunchFailureUnrecorded ==
    /\ worker.pc = "launch"
    /\ worker' = [worker EXCEPT !.pc = "sleep", !.active = None]
    /\ UNCHANGED <<store, beats, deployment, pending, aged, drawn, answers,
                   launches, bounds>>

\* The session, the fixture or the child could not be prepared.
LaunchFails ==
    /\ worker.pc = "launch"
    /\ jobs' = [jobs EXCEPT ![worker.active].state = "failed",
                            ![worker.active].result = "failed"]
    /\ worker' = [worker EXCEPT !.pc = "sleep", !.active = None]
    /\ UNCHANGED <<index, archived, beats, deployment, pending, aged, drawn,
                   answers, launches, bounds>>

EndScan ==
    /\ worker.pc = "scan"
    /\ \A j \in JobIds : ~Orphaned(j) /\ ~Mine(j)
    /\ worker' = [worker EXCEPT !.pc = "sleep"]
    /\ UNCHANGED <<store, beats, deployment, pending, aged, drawn, answers,
                   launches, bounds>>

\* The worker is stopped, killed, or ends with an exception (store.lock busy for
\* 5 s, or an unreadable record).  The job object kills the child and the
\* mutex is released. The bound Epochs leaves a process to come after it.
WorkerDies ==
    /\ worker.pc # "down"
    /\ epochs # Epochs
    /\ worker' = [worker EXCEPT !.pc = "down", !.active = None, !.child = "none",
                                !.late = FALSE]
    /\ UNCHANGED <<store, beats, deployment, pending, aged, drawn, answers,
                   launches, bounds>>

-----------------------------------------------------------------------------
(* Maintenance: both need the worker stopped and every gateway finished. *)

Quiescent == worker.pc = "down" /\ pending = None

Activate ==
    /\ Quiescent
    /\ deployment < Deployments
    /\ deployment' = deployment + 1
    /\ UNCHANGED <<store, beats, pending, worker, aged, drawn, answers,
                   launches, bounds>>

Archivable(j) ==
    \/ jobs[j].state \in Terminal
    \/ jobs[j].state = "submitted" /\ j \in aged

\* Tombstones of earlier rotations are carried over.
Tombstone(n) == IF index[n] # None THEN index[n].digest ELSE archived[n]

\* Every index becomes a tombstone; the records move out of the queue.
Rotate ==
    /\ Quiescent
    /\ rotations < MaxRotations
    /\ \A j \in Existing : Archivable(j)
    /\ Cardinality(Archived \cup Indexed) <= MaxRequests
    /\ rotations' = rotations + 1
    /\ archived' = [n \in Nonces |-> Tombstone(n)]
    /\ index' = [n \in Nonces |-> None]
    /\ jobs' = [j \in JobIds |-> None]
    /\ heartbeat' = None
    /\ fresh' = FALSE
    /\ UNCHANGED <<deployment, pending, worker, aged, drawn, answers, launches,
                   kills, losses>>

-----------------------------------------------------------------------------
(* The environment: clocks, the child process, and the disk. *)

HeartbeatExpires ==
    /\ fresh
    /\ fresh' = FALSE
    /\ UNCHANGED <<store, heartbeat, deployment, pending, worker, aged, drawn,
                   answers, launches, bounds>>

\* Only the age of a job that is not started yet is ever read.
SubmissionAges(j) ==
    /\ j \in allocated \ aged
    /\ jobs[j] # None => jobs[j].state = "submitted"
    /\ aged' = aged \cup {j}
    /\ UNCHANGED <<store, beats, deployment, pending, worker, drawn, answers,
                   launches, bounds>>

ChildExits ==
    /\ worker.child = "running"
    /\ \E code \in {"ok", "bad"} : worker' = [worker EXCEPT !.child = code]
    /\ UNCHANGED <<store, beats, deployment, pending, aged, drawn, answers,
                   launches, bounds>>

TimerExpires ==
    /\ worker.child # "none"
    /\ ~worker.late
    /\ worker' = [worker EXCEPT !.late = TRUE]
    /\ UNCHANGED <<store, beats, deployment, pending, aged, drawn, answers,
                   launches, bounds>>

\* A record vanishes: the case the checks for an incomplete history are for.
LoseRecord ==
    /\ StoreFree
    /\ losses < MaxLosses
    /\ losses' = losses + 1
    /\ \/ \E n \in Indexed : index' = [index EXCEPT ![n] = None] /\ jobs' = jobs
       \/ \E j \in Existing : jobs' = [jobs EXCEPT ![j] = None] /\ index' = index
    /\ UNCHANGED <<archived, beats, deployment, pending, worker, aged, drawn,
                   answers, launches, kills, rotations>>

-----------------------------------------------------------------------------
Submit ==
    \/ \E n \in Nonces, d \in Digests :
        \/ \E j \in JobIds : Prepare(n, d, j)
        \/ Resume(n, d)
        \/ Replay(n, d)
    \/ CreateJob
    \/ Publish
    \/ Answer

WorkerStep ==
    \/ Beat
    \/ Conclude
    \/ KeepWaiting
    \/ \E j \in JobIds : MarkStale(j) \/ Claim(j)
    \/ Launch
    \/ LaunchFails
    \/ EndScan

WorkerBoots == \E e \in Epochs : Boot(e)

Next ==
    \/ Submit
    \/ InterruptGateway
    \/ \E j \in JobIds : Start(j) \/ Cancel(j) \/ SubmissionAges(j)
    \/ WorkerBoots
    \/ WorkerStep
    \/ WorkerDies
    \/ Activate
    \/ Rotate
    \/ HeartbeatExpires
    \/ ChildExits
    \/ TimerExpires
    \/ LoseRecord

Spec == Init /\ [][Next]_vars

(***************************************************************************)
(* Fairness.  Task Scheduler starts the worker at boot and restarts it; a  *)
(* running worker goes on polling; a gateway that holds the lock goes on   *)
(* or is killed; and the timer of a job runs.  Nothing is assumed of the   *)
(* child, of clients or of maintenance.                                    *)
(***************************************************************************)
Fairness ==
    /\ WF_vars(WorkerBoots)
    /\ WF_vars(WorkerStep)
    /\ WF_vars(CreateJob \/ Publish \/ Answer)
    /\ WF_vars(TimerExpires)

FairSpec == Spec /\ Fairness

-----------------------------------------------------------------------------
(* Safety. *)

\* The types of the variables: the records on disk and what processes hold.
TypeOK ==
    /\ index \in [Nonces -> Index \cup {None}]
    /\ jobs \in [JobIds -> Job \cup {None}]
    /\ archived \in [Nonces -> Digests \cup {None}]
    /\ heartbeat \in [epoch : Epochs, deployment : DeploymentIds] \cup {None}
    /\ fresh \in BOOLEAN
    /\ deployment \in DeploymentIds
    /\ pending \in Nonces \cup {None}
    /\ worker \in Worker
    /\ aged \subseteq JobIds
    /\ allocated \subseteq JobIds
    /\ epochs \subseteq Epochs
    /\ answers \subseteq Nonces \X Digests \X JobIds
    /\ launches \in [JobIds -> Nat]
    /\ kills \in Nat /\ losses \in Nat /\ rotations \in Nat

\* However often a submission is interrupted and sent again, submit answers one
\* job, for one content, to a request nonce.
OneJobPerRequest == \A a, b \in answers : a[1] = b[1] => a = b

\* A job that submit has answered stays in the queue, published, until its
\* nonce is a tombstone of the archive.
AcceptedJobKept ==
    \A a \in answers :
        \/ archived[a[1]] = a[2]
        \/ /\ index[a[1]] # None
           /\ index[a[1]].job = a[3]
           /\ jobs[a[3]] # None
           /\ PublicationAction(index[a[1]], jobs[a[3]]) = "reuse"

\* No job is executed a second time, whatever dies and comes back.
LaunchedOnce == \A j \in JobIds : launches[j] <= 1

\* A record that says running under the epoch of the live worker is the job that
\* worker holds: otherwise neither its poll nor its scan would ever end it.
OwnedRun ==
    \A j \in Existing :
        /\ jobs[j].state = "running"
        /\ worker.pc # "down"
        /\ jobs[j].epoch = worker.epoch
        => worker.active = j

\* What a terminal record tells about its execution is what happened: success
\* needs an execution and exit code 0, a requested cancellation is never
\* overtaken by the end of the child or by its timer, an execution is never
\* reported without a result unless its worker died.
OutcomeTruthful ==
    \A j \in Existing :
        LET job == jobs[j] IN
        /\ job.state = "completed" => job.exit = "ok" /\ launches[j] = 1
        /\ job.exit # "none" => job.state \in {"completed", "failed"}
        /\ job.result # "none" => job.result = job.state
        /\ job.cancelRequested => job.state \notin {"completed", "timed_out"}
        /\ /\ job.state \in Terminal
           /\ job.result = "none"
           => job.state = "stale" \/ launches[j] = 0

\* The worker never meets a job of its own epoch made for another deployment,
\* which it could only answer by dying (job_binding_mismatch).
DispatchMatchesDeployment ==
    worker.pc # "down" =>
        \A j \in JobIds : Mine(j) => jobs[j].deployment = worker.deployment

\* Tombstones and live indexes together stay within the history quota and never
\* overlap, so that a rotation can always write the next archive index.
HistoryBounded ==
    /\ Cardinality(Archived) + Cardinality(Indexed) <= MaxRequests
    /\ Archived \cap Indexed = {}

\* The job quota is checked when an index is prepared and not when a retry
\* creates the record: each interrupted submission may exceed it by one.
JobQuota == Cardinality(Existing) <= MaxJobs + kills

(* The invariant behind LaunchedOnce and OwnedRun: every step keeps it. *)

\* At most one operation holds store.lock, and a submit that does has an index.
LockInv ==
    /\ worker.pc \in {"poll", "scan", "launch"} => pending = None
    /\ pending # None => index[pending] # None

\* What the worker holds at each of its points.
WorkerInv ==
    /\ worker.pc # "down" => worker.epoch \in epochs
    /\ worker.pc \in {"poll", "launch"} => worker.active # None
    /\ worker.pc \in {"down", "scan"} => worker.active = None

\* Two requests never share a job.
IndexInv ==
    /\ \A n \in Indexed : index[n].nonce = n /\ index[n].job \in allocated
    /\ \A m, n \in Indexed : index[m].job = index[n].job => m = n

\* A GUID that was never drawn names nothing.
FreshInv == \A j \in JobIds : jobs[j] # None \/ launches[j] # 0 => j \in allocated

\* A job whose submission is not published has not been touched: a retry is
\* never refused because its job was modified.
PristineInv ==
    \A n \in Indexed : index[n].phase = "prepared" =>
        /\ launches[index[n].job] = 0
        /\ jobs[index[n].job] # None => jobs[index[n].job] = Initial(index[n])

\* A job that waits has not been launched.
UnlaunchedInv ==
    \A j \in Existing : jobs[j].state \in {"submitted", "queued"} => launches[j] = 0

\* Every epoch on disk was drawn by some worker, so a new one is none of them.
EpochInv ==
    /\ heartbeat # None => heartbeat.epoch \in epochs
    /\ \A j \in Existing : jobs[j].epoch # None => jobs[j].epoch \in epochs

\* The job the worker holds in memory, while its record exists, says so.
ActiveInv ==
    worker.active # None =>
        /\ jobs[worker.active] # None =>
            /\ jobs[worker.active].state = "running"
            /\ jobs[worker.active].epoch = worker.epoch
        /\ worker.pc = "launch" =>
            jobs[worker.active] # None /\ launches[worker.active] = 0
        /\ worker.pc # "launch" => launches[worker.active] # 0

\* The parts together are inductive.
QueueInv ==
    /\ TypeOK /\ LockInv /\ WorkerInv /\ IndexInv /\ FreshInv /\ PristineInv
    /\ UnlaunchedInv /\ EpochInv /\ ActiveInv
    /\ LaunchedOnce /\ OwnedRun

(* Steps. *)

\* Once results has something to return, that never changes again.
TerminalIsFinal ==
    [][\A j \in JobIds :
          ResultsReady(j) /\ jobs'[j] # None
          => jobs'[j] = [jobs[j] EXCEPT !.updated = jobs'[j].updated]]_vars

(* Liveness. *)

\* Every job that was started ends, though workers die at any moment.
StartedJobEnds ==
    \A j \in JobIds :
        (jobs[j] # None /\ jobs[j].state \in {"queued", "running"})
            ~> (jobs[j] = None \/ jobs[j].state \in Terminal)
=============================================================================
