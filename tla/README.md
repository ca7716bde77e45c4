# Formal models of D3D11Validation

D3D11Validation lets a developer run Direct3D fixtures on a Windows host that
nobody is logged in to. Clients speak over SSH with forced commands; a worker
runs the fixtures; deployments are replaced remotely by signed maintenance
requests. Nearly all of the program's difficulty is in a handful of short
scripts that share directories of JSON files, hold file locks for a while and may
be killed between any two writes, and in the programs at the other end of the
connection, which see only answers that may be lost or late. These modules model
both ends; TLC checks them on small instances, and TLAPS proves every safety
property that the passing runs check, and every refinement between the modules, for
every instance.

Paths below are relative to `src/`. `PROJECT.json` gives for every definition
the lines of code it stands for.

## 1. The system

| Component | State it keeps | Operations | Modules |
|---|---|---|---|
| Job queue and job gateway (`windows/Validation.Jobs.psm1`, `Invoke-ValidationJobGateway.ps1`, `Invoke-ValidationGateway.ps1`) | `data\queue-v1`: `request-<nonce>.json` (index), `job-<id>.json` (record), `archived-requests.json` (tombstones) | submit, start, status, results, cancel; one process per SSH request | JobQueue; what it promises in JobService |
| Submission publication (`windows/Validation.Submission.psm1`) | phase of an index, binding of a job to it | what to do with a half-published submission: create, publish, reuse, refuse | JobQueue |
| Worker (`windows/Start-ValidationWorker.ps1`) | its epoch, the one active job and child; `worker.json` (heartbeat) | polls every 100 ms: heartbeat, conclude the active job, mark orphans stale, claim, launch | JobQueue |
| Durable store and owned child (`windows/Validation.Runtime.cs`) | `store.lock`, job objects | exclusive lock, atomic write, kill-on-close child | assumptions of JobQueue; temporary files in ArchiveRotation |
| Queue rotation (`windows/Archive-ValidationQueue.ps1`, `Validation.Archive.psm1`) | two directory moves, tombstone index | archive the whole queue and start an empty one | JobQueue (one step), ArchiveRotation (every step) |
| Maintenance gateway (`windows/Invoke-ValidationHeadless.ps1`, `Validation.Headless.psm1`) | inbox `request.json`, one slot | status, queue a signed request | Maintenance |
| Maintenance executor (`windows/Invoke-ValidationMaintenance.ps1`, `Validation.Maintenance.psm1`) | `active.json`, `receipt.json`, `receipts\<id>.json`, `program\worker-v<n>`, worker task | activate, repair, archive; rejection; failure | Maintenance; its download and its moves in ReleaseDelivery; what both promise in VersionedSelection |
| Activation guard and launcher (`Validation.Headless.psm1`, `Invoke-ValidationHeadless.ps1`, `Start-ValidationHeadlessWorker.ps1`) | handles on `activation.lock` | shared by readers of the selection, exclusive for a switch | Maintenance |
| Headless installation (`windows/Manage-ValidationHeadless.ps1`) | installation journal | install, resume, roll back, repair, remove | local repair in Maintenance |
| Job client (`client/validation_client.py`) | job file (pending, then bound to a job), output, results | `run_fixture`; submit, start, status, results, cancel by hand | JobClient |
| Maintenance client, release server (`client/headless_client.py`, `client/serve_deployment.py`) | request file, retry budget; the snapshot on offer and its one ticket | sign what the status showed, save, send again; serve a release once | ReleaseDelivery |
| Release builder, download and extraction (`client/build_headless_release.py`, `windows/Validation.Maintenance.cs`) | names seen so far, bytes received | accept or refuse a player's names; compare with what was signed; extract | ReleaseDelivery |
| Evidence clients (`client/capture_unity.py`, `unity_evidence.py`, `adapter_evidence.py`) | what was read, and retrieved so far; the output | retrieve one result per kind, check each, write one capture | EvidenceCapture |
| Adapter selection (`windows/Validation.Adapter.psm1`) | | choose the pinned hardware adapter | EvidenceCapture |
| Fixtures, Unity trace | | which evidence a job ends with | the sets of names in JobClient |
| Request protocol, native probes, the other build clients, host setup | see section 8 | | not modelled |

How they interact: a client calls a gateway (SSH, forced command); gateways and
worker share the queue's files under `store.lock`; gateways, launcher and worker
read `active.json` under a shared handle on `activation.lock`, which the executor
takes exclusively to switch the deployment or move the queue; a maintenance
gateway hands requests to the executor through the inbox alone; the executor
downloads from a listener its operator has started; Task Scheduler starts worker
and executor.

What is hard here:

* *Crashes between writes.* submit makes three writes (prepared index, record,
  published index), the executor more than a dozen, a client four, and every process
  may be killed between any two of them. The next process has only the files to go by.
* *Retries.* Every client repeats a request until it is answered, so each operation
  must give the answer of its first attempt, also after a rotation.
* *Lost calls and late answers.* A call may be executed after its program has
  given up; only a file the program wrote *before* the call leads back to it.
* *State read early and used late.* The maintenance gateway checks a request with
  no lock held and queues it afterwards; the executor checks it minutes later,
  after other requests; the worker keeps the job it runs in memory across locks; a
  capture takes dozens of calls, during which worker, deployment and files may change.
* *Two programs over one file.* Commands run by hand over the job file of a
  `run_fixture` under way; two captures after one output.
* *Partial transfers.* The listener's one ticket is used up when the last byte is
  written, which is not when it has arrived.
* *The same rule written twice.* Names are checked by the builder in Python and by the
  host in C#, adapters selected in PowerShell and again in Python, expected
  artifacts listed by the worker and by the client: where they disagree, what is good
  is refused for ever.
* *Two clocks.* A heartbeat older than 10 s, a submission older than 5 minutes and
  a job over its time limit all race with the operation that looks at them.
* *Limits.* 128 jobs, 10000 requests (rotated or live), 4096 receipts, 999999999
  generations: each is tested at one write and exceeded at another.

What makes each component correct is the list of properties in section 3.
`PROJECT.json` lists the 40 hazards at their lines, with the properties that cover
each or the reason why none does.

## 2. The modules

**JobQueue** is one module, since gateway and worker share all their state.
Variables are the files (`index`, `jobs`, `archived`, `heartbeat`), the processes
that hold the lock (`pending` for a submit under way, `worker`), the environment
(`fresh`, `aged`, `deployment`) and histories for the properties (`answers`,
`launches`, `allocated`, `epochs`).

| Code | Actions |
|---|---|
| `New-ValidationJob` (submit) | `Prepare`, `Resume`, `Replay` (three entries), then `CreateJob`, `Publish`, `Answer`; `InterruptGateway` at any of them |
| `Start-`, `Stop-ValidationJob` | `Start`, `Cancel` (one write each) |
| worker start and loop | `Boot`, `Beat`, `Conclude` / `KeepWaiting`, `MarkStale`, `Claim`, `Launch` / `LaunchFails`, `EndScan`; `WorkerDies` at any of them |
| activation, rotation | `Activate`, `Rotate`, both only with worker and gateways at rest |
| clocks, child, disk | `HeartbeatExpires`, `SubmissionAges`, `TimerExpires`, `ChildExits`, `LoseRecord` |

**JobLifecycle** is the abstract promise: a request nonce goes through new,
submitted, queued, running, ended and archived, in order and never back, and is
executed at most once. **JobQueueRefines** maps the files to it; an interrupted
submission is still "new", and the executions of a nonce are those of every job it was
ever answered with, so that they stay counted when the records are archived.

**JobService** extends it to what a client of the queue may rely on: what each call
changes and answers, and what the worker, the heartbeat, an activation and a rotation may
change meanwhile. `record` is what the service keeps of a request besides its stage, `service`
the active deployment and whether a heartbeat is fresh. A call is one step (`Accepted`, `Refused`;
`Dies` for a submit that is killed after its first write), however many writes and processes
it is in JobQueue. **JobQueueServes** maps the files to it, with a history variable `shelf`
for the records that a rotation has moved to an archive, where no program reads them again.

**VersionedSelection** is what signed maintenance promises of the active selection: each
request names the version and the selection its signer saw, is taken up at most once and
one at a time, uses the version up before it works, and may fail or be abandoned at any
point; even a completed one may still fail while whoever worked on it is there, and is final when he has
left. Maintenance and ReleaseDelivery implement it, each under a mapping of its own
(`SignedSelection`, `PhaseOf`, `CurrentWork`): a version is a generation, a phase what the receipt
says, and the current work is read off the program counter of the executor.

**Maintenance** has the files of the control directory, the gateways, the
holders of `activation.lock` and the executor, whose program counter `exec.pc`
names the next write.

| Code | Actions |
|---|---|
| client | `Sign` (what the status shows now), `Expire` |
| `Submit-ValidationMaintenance` | `GatewayChecks` (no lock), `GatewayQueues` (under the inbox lock), `GatewayGivesUp` |
| executor: first look | `Begin`, `Forget`, `Accept`, `Reject`, `RecordRejection`, `QuotaReached` |
| executor: the action | `ConsumeGeneration`, `RemovePending`, `Stage`, `RecordPhase`, `DisableWorker`, `WorkerStopped`, `OpenWriteGuard`, `StartArchive`, `ArchiveDone`, `Activate`, `Repair`, `ReleaseGuard`, `EnableWorker` |
| executor: every receipt is two writes | `SaveLatest` (`receipt.json`), after the action that wrote `receipts\<id>.json` |
| executor: catch block, kill | `Fail` (not while it is `Catching`), `ExecutorDies` |
| readers of the selection | `OpenReadGuard`, `ReadSelection`, `CloseReadGuard` |
| administrator | `LocalRepair` |

**ArchiveRotation** opens up the step `Rotate` of JobQueue, and the steps
`StartArchive` and `ArchiveDone` of Maintenance. Its variables are the four
directories and files of an archive (`queue`, `archive`, `replacement`,
`journal`), the programs that use the queue (`program`), and the script
(`rotation`, whose `pc` names the next step). Of those programs only what matters
to a rotation is left: the handle on `activation.lock`, the one on `store.lock`,
and a write in its two steps.

| Code | Actions |
|---|---|
| router, launcher, `ValidationStore` | `OpenReadGuard`, `OpenStore`, `Exit`, `Close`; a write is a temporary file (`Submit`, `Start`, `Work`) and then `Rename`; a kill is `Interrupt` |
| executor before the script | `Begin` (a generation names the archive), `StopWorker`, `OpenWriteGuard` |
| `Archive-ValidationQueue.ps1` | `CheckNames`, `TakeInventory`, `WriteJournal`, `PrepareReplacement`, `FillReplacement`, `MoveOut`, `MoveIn`, `Verify` |
| executor after the script | `Finish`; `Refuse` when a check throws; `InterruptRotation` at any step |
| clock, administrator | `Age`, `Repair` |

**JobClient** composes the programs of `validation_client.py` with the service as
JobService promises it: it extends that module, and the variables of the service change by the
actions of JobService only. `files`, `output` and `result` are the client's files; `prog` is what each
client program is doing and the answer it has not read yet.

| Code | Actions |
|---|---|
| `run_fixture`, submit, the other commands | `NewRequest`, `SubmitAgain`, `Command` start a program over a job file |
| saving before sending | `SavePending` |
| a call, executed by a gateway | `Serve`: `Accepted`, `Refused` or `Dies` of JobService (submit, start, status, results or cancel; accepted, repeated or refused; with or without its answer; submit may also die half-way) |
| reading an answer | `Submitted`, `Started`, `Polled`, `Fetched`, `CancelAnswered`; the job file is written by `Keep` and `KeepStarted` |
| killed, refused, timed out | `GiveUp` |
| worker, heartbeat, activation, rotation | `Meanwhile`: `Worker`, `ServiceChanges`, `Rotate` of JobService |

`CompleteFixture` and `ExpectedNames` are the sets of artifacts a fixture leaves and
those the client expects, kind by kind.

**EvidenceCapture** is `capture_unity.py` with the functions it calls. `host`,
`epochs` and `ranUnder` are the service: which worker is alive, what each ran, and in
which epoch each job completes. `local` is the reviewed files, which may be edited.

| Code | Actions |
|---|---|
| `collect` | `Start`, `ReadPolicy`, `ReadJobs`, then per kind the five steps below, then `Finish` |
| `retrieve_verified` | `ReadAuthority`, `Status`, `Results`, `Again`, `Reread` |
| output | `Create` (`O_EXCL`), `Fill` |
| killed, a call lost | `GiveUp` |
| meanwhile | `Boot`, `Stops`, `Activate`, `Edit` |

**ReleaseDelivery** follows a release from the builder to the switch. `archive` is the
release file, `listener` and its `fate` the one-transfer server, `signed`, `files` and `prog` the
maintenance client, the other variables the host.

| Code | Actions |
|---|---|
| `build_headless_release.py` | `Build` (what its names must be: `Accepts`) |
| `serve_deployment.py` | `Publish`, `ListenerExpires`; its part of `Connect`, `Transfer`, `Breaks` |
| `headless_client.py` | `NewRequest`, `Create` and `Write` (the request file), `Send` (with retries and lost answers), `Retry`, `Deadline`, `GiveUp` |
| executor, `Validation.Maintenance.cs` | `Accept`, `Reject`, `Connect`, `Transfer`, `Breaks`, `Verify` (`Genuine`, `Extractable`), `MoveUnity`, `MoveWorker`, `Switch`, `Finish`, `Dies` |
| clock | `Expire` |

**MCJobQueue**, **MCQueueService**, **MCMaintenance**, **MCArchiveRotation**, **MCJobClient**,
**MCEvidenceCapture** and **MCReleaseDelivery** declare symmetry, and the last two
the inventories, jobs and releases of their instances. The modules named
*...Proofs* hold the theorems (section 4).

Definitions named as a fault (`JobQuotaOffByOne`, `ReadBeforeGuard`,
`SendUnsaved`, ...) are used by no action. Each stands before the definition it
would break, and `PROJECT.json` pairs it with the property that notices when it
is put in that definition's place.

### Abstractions

* A write is atomic: `ValidationStore.Write` flushes a temporary file and renames it
  over the old one; only ArchiveRotation sees the temporary file, because only the
  archive looks at it. The clients' job files are renamed likewise; their request file and the
  capture's output are not, and are made in two steps.
* GUIDs and epochs are fresh: `Prepare`, `Boot` and the clients draw one never drawn
  before. Digests, policies and signatures are model values; an execution nonce is a
  number that counts starts, or in JobClient whether there is one.
* In JobQueue, operations that are refused, and those that only read, change no file and
  are not actions. A worker that is killed takes its child with it
  (`JOB_OBJECT_LIMIT_KILL_ON_JOB_CLOSE`).
* JobClient: a call is one step of the service, at any time between its sending and
  the end of its program. A call executed after its program has died is one of a
  program that dies later. Two programs never create the same job file at the same
  time: that it does not exist is checked before the nonce is drawn and a temporary file
  is moved over it (lines 124 and 162), so that two of them would replace each other's
  nonce. This is listed as a hazard without a property.
* EvidenceCapture: a policy pins the other files by digest, so they are read in one
  step with it, and a deployment stands for its policy and the files that one pins. A writer
  killed between `Create` and `Fill` leaves an output that is never replaced.
* ReleaseDelivery: what the executor does besides is in Maintenance; here accepting a request
  is one step, and so is stopping the worker with the switch. The worker's archive is taken to be
  complete, as `build_deployment.py` makes it, and the policy digest and deployment of a
  publication right; failures of the host itself (a full disk, a task that does not stop, the
  second write of a receipt) are Maintenance's `Fail`, so that a completed receipt is not taken
  back here. The directory of the adopted deployment is in use from the start (`InUse`); what is in it
  was not published and is no part of `program`. One listener runs at a time.

## 3. Runs and what they show

| Run (configuration) | Bounds | Properties |
|---|---|---|
| queue_workers (`MCQueueWorkers`) | 2 nonces, 1 digest, 2 jobs, 3 epochs, 1 rotation; fair; 662,096 states | TypeOK, OutcomeTruthful, TerminalIsFinal, StartedJobEnds |
| queue_submission (`MCQueueSubmission`) | 3 nonces, 2 digests, 3 jobs, 1 epoch, 2 deployments, 1 gateway kill, 1 lost record; 905,412 states | OneJobPerRequest, JobQuota |
| queue_rotation (`MCQueueService`) | at most 2 requests out of 3 nonces, 3 jobs, 3 epochs, 2 deployments, 2 rotations, 1 gateway kill; 402,226 states | LaunchedOnce, OwnedRun, AcceptedJobKept, HistoryBounded, DispatchMatchesDeployment, ImplementsService |
| maintenance (`MCMaintenance`) | 2 requests, 1 gateway, the worker, 3 deployments, 3 generations, 2 receipts, 1 kill; fair; 785,553 states | TypeOK, BegunOnce, ArchiveNameFree, ReadersSeeActive, ReceiptIsFinal, ImplementsSelection, CompletedIsDone, InboxDrains |
| maintenance_limits (`MCMaintenanceLimits`) | 3 requests, 1 job gateway, 2 generations, 2 receipts; 1,224,548 states | DisabledIsVisible, ActiveReadable |
| archive_rotation (`MCArchiveRotation`) | 2 nonces, 1 gateway, the worker, 3 attempts, 1 interruption; 297,744 states | TypeOK, AcceptedRemembered, SwapRecoverable, EvidenceKept, ArchiveMatchesJournal, ImplementsLifecycle |
| job_client (`MCJobClient`) | 2 nonces, 1 job file, 2 programs, 2 deployments; 1,004,860 states | TypeOK, JobRemembered, OnlyApprovedRuns, EvidenceTrue, ServiceBelieved |
| evidence_capture (`MCEvidenceCapture`) | 2 kinds, 3 jobs, 2 captures, 2 deployments, 2 epochs, 2 edits, 2 inventories; 2,260,626 states | TypeOK, SingleAuthority, RefusedForReason |
| release_delivery (`MCReleaseDelivery`) | 2 requests, 2 request files, 2 programs, 5 releases, 2 tickets, 2 attempts, 1 kill; 992,312 states | TypeOK, RequestRecoverable, InstalledAsPublished, FailsForReason |
| archive_leftover, maintenance_repair, maintenance_rejection | small instances, one property each | the findings of section 6 |

**queue_workers** asks whether a job that was started ends, and ends as its record says, when
workers die: three epochs are a worker, its successor and the one after it, so a
job can be orphaned while it waits or while it runs, and be found by the successor
or only by the third. Two jobs are enough for one active and one waiting, and a
worker has only one active job. The run is fair; a rotation may come between two
workers. **queue_submission** asks what interrupted and repeated
submits leave behind: three nonces against a quota of two jobs reach the quota with a
submission prepared and not created. The quota is tested when an index is prepared
and not when a retry creates its record, so each killed gateway may exceed it by
one: `JobQuota` states exactly this bound, and the one without `kills` is
violated. **queue_rotation** has the same three workers,
and asks whether anything is executed twice or left to nobody when submissions are killed, deployments
activated and the queue rotated. It needs two rotations for a tombstone written by an
earlier one, and a history limit below the number of nonces to
reach it; two deployments make a binding to an old one. It also shows that the queue is
the service its clients are built on: every write of a gateway, the worker or a rotation is
one step of JobService or none. What JobService promises includes JobLifecycle.

**maintenance** has an executor interrupted once at any write and then another
request; three generations are the installed one, one used up by the interrupted
attempt and one for its successor. `ImplementsSelection` says of every step of every process
that it is one of VersionedSelection or none: so a selection is replaced by one request for each
generation, by the one that was signed for it, from what its signer saw to what it names.
A step may also throw anywhere after the acceptance. When that is the second write of the receipt that
says completed, the catch block turns the first one, `receipts\<id>.json`, into failed, which a
client may have read by then (section 6). So `ReceiptIsFinal` has one exception, `TakenBack`: completed
may become failed, once, by the executor of that very request, and only while `receipt.json` does not
say completed of it. Without the exception TLC finds the property violated.
**maintenance_limits** reaches both limits: three
requests against two generations and two receipts, with a job gateway as a further reader.

**archive_rotation** needs three attempts for two complete archives and one that is
cut short, or one cut short and two after it, and two nonces for a request in each
archive. One interruption is a program killed in a write, or a step of the script
that fails. Requests of both nonces fit (`MaxRequests` = 2), since what happens at
the quota is the subject of queue_rotation. The refinement says that this script, with
all that may happen between its steps, looks like one step to the clients; JobQueue
and ArchiveRotation implement the same JobLifecycle, on which JobService and so JobClient are built.

**job_client** has one job file, over which two programs may run at once: a
`run_fixture` and a command by hand, or two commands; two nonces are the request
that was lost and the one drawn again, two deployments a policy that was reviewed and
one that was not. Files do not interact, so that one is enough for all that goes
wrong with a file; nothing limits how often calls are repeated or lost. Its properties
relate the two ends: what the service holds to what a file remembers, what was saved to
how the job ended, what the client checks to what the service can answer.

**evidence_capture** has the two kinds of the innermost loop of `KINDS` (a recovered and a
regenerated bundle), two jobs of one of them to be mixed up, two captures after one output, and
enough epochs, deployments and edits for each to change and change back in the middle.
The inventories are one with a software adapter beside the pinned one, and an ambiguous
one. `RefusedForReason` says the opposite of what a test says: not that something
bad is refused, but that what fits is not. To this end a capture is marked as disturbed by
everything that happens outside it, and a failure of an undisturbed one is
kept until something happens.

**release_delivery** has two requests, so that a second one may be signed before, during or
after the first, with the same ticket or the next, and five releases. The builder accepts two of them: a
good one, and one whose worker has the name of the installed deployment, which can only fail when its
directory is moved. The players of the other three have names that the host refuses (too deep, reserved, a
file that is also a directory).
`FailsForReason` names all the reasons why an activation may fail on this
way, and the builder's acceptance of a release as none of them.

Deadlock is not an error in any of the runs: with every nonce, epoch, request and
kill of a bounded instance used up and nothing left to do, the system stops, as
the real one does when no request arrives.

### Fairness

*Queue* (`FairSpec`): the worker boots (boot trigger and `RestartOnFailure` of its
task, `windows/Manage-ValidationHeadless.ps1:57-85`); a worker that runs goes on,
since its loop has no wait but 100 ms; a gateway that holds the lock makes its next write
(or is killed, which also ends it); the stopwatch of a job reaches its limit.
Nothing is assumed of children, clients, or activations. Epochs are finite
in the instance, so that the last worker of a behaviour is one that TLC lets live.

*Maintenance* (`FairSpec`): the executor makes its next step. Its task repeats every
minute, ignores a second instance, and every wait in the executor has a deadline
(20 s for the worker, 30 s for the guard) after which it throws. Nothing is
assumed of clients, gateways, readers of the selection or the worker.

*Clients*: none. A client may be killed or disconnected at any step, and the code
promises no more than that it stops after a while; JobClient, EvidenceCapture and
ReleaseDelivery therefore state safety only.

## 4. What is proved

Every safety invariant and every action property of the passing runs is a theorem
for all values of the constants, and so are the refinements: JobQueue implements JobService and
JobLifecycle, ArchiveRotation JobLifecycle, Maintenance and ReleaseDelivery VersionedSelection,
and what JobClient does to the service is a behaviour of JobService.

| Module | Theorems about | Inductive invariant |
|---|---|---|
| JobQueueProofs | TypeOK, LaunchedOnce, OwnedRun, OutcomeTruthful, TerminalIsFinal, DispatchMatchesDeployment, HistoryBounded, JobQuota, OneJobPerRequest, AcceptedJobKept | `QueueInv`, then with `BeatsTruly`, `HistoryInv`, `QuotaInv`, `AnswerInv` |
| JobQueueRefinesProofs | ImplementsLifecycle, ImplementsService and AnsweredIsFound (of JobQueue) | `RefineInv` (the same with `StartedInv`), `ServedInv` |
| JobClientProofs | all properties of JobClient; it uses JobService, which implements JobLifecycle | `ClientInv` |
| ArchiveRotationProofs | all safety properties of ArchiveRotation, and its ImplementsLifecycle | `RotationInv`, with `StepInv` for the refinement |
| VersionedSelectionProofs | OneChangePerVersion, ChangesAsSigned, EndIsFinal (of VersionedSelection) | `SelectionInv` |
| MaintenanceProofs | all safety properties of Maintenance, with ImplementsSelection; CompletedOncePerGeneration, ChangesAlone | `MaintenanceInv` |
| ReleaseDeliveryProofs | all properties of ReleaseDelivery; ImplementsSelection, CompletedOncePerGeneration; that every release the builder accepts can be extracted | `DeliveryInv` |
| EvidenceCaptureProofs | all properties of EvidenceCapture | `CaptureInv`, with `FitnessInv` |

**JobQueueProofs**. The parts of `QueueInv` and why they are needed:

* `TypeOK`: nothing else is meaningful without it.
* `LockInv`, `WorkerInv`: what can be between two writes of one operation.
* `IndexInv`, `FreshInv`: two indexes never share a job, and a fresh GUID names
  neither record nor execution. Else a record lost and created again could be launched twice.
* `PristineInv`: a job behind a prepared index is untouched, so publication
  cannot bring back a job that ran.
* `UnlaunchedInv`: a waiting job was never launched, so a claim never repeats an execution.
* `EpochInv`: a new worker's epoch is on no record; so nothing on disk looks like its own run.
* `ActiveInv`: what the worker has in memory agrees with the record, though it
  gave up the lock in between.

From it follow `LaunchedOnce` (no job is executed twice) and `OwnedRun` (a running
job of the live epoch is the one the worker holds; any other would never end).

The second part of the module is about what clients see. Its proofs rest on one lemma
that lists the ways a record may change (`EveryChange`) and one that does so for an
index (`EveryIndex`). `DispatchMatchesDeployment` needs that a fresh heartbeat was
written by a worker of the deployment it names (`BeatsTruly`). `JobQuota` needs to count submissions that
may *still* write a record: jobs on disk and reservations not yet written are together at most the quota and
the kills (`QuotaInv`). For `OneJobPerRequest` every answer ever given is traced to the index, to the
tombstone, or, when the index was lost, to the record that still bears the nonce (`AnswerInv`).

**JobQueueRefinesProofs** maps each write to the lifecycle step it is, or to none:
of the three writes of submit only the last; the record of a launch is the
abstract execution. The count of executions is a cardinality over all jobs ever answered, which
`StartedInv` makes that of one.

The second half of the module maps the same writes to JobService. A step of the service says more than
one of the lifecycle: a submit begins only for the active deployment and with a live worker, a claim is
of a job of the active deployment, a call that is refused changes nothing. `ServedInv`
adds to `RefineInv` what ties a process to the deployment it began under: a submission
under way and a live worker are of the active one, and no heartbeat is of a later one
(`DeploymentInv`); and every request in the archives had been written down (`ShelfInv`).
The proof goes step by step: one lemma for each action of JobQueue names the action of JobService
it is, or shows that it changes nothing a client sees. `AnsweredIsFound` adds that
the answer of a submit is true when it is given, although the gateway checked the deployment before its
first write. Trying the refinement showed two places where an earlier model of
the service promised the clients more than the queue keeps (a claim took a fresh heartbeat, and a
rotation left the heartbeat alone); JobService has them as the code does.

**MaintenanceProofs**. The key parts of `MaintenanceInv`: `GuardInv`
(a writer excludes readers, and one who no longer holds a handle runs nothing), `StatusInv` (the
status tells of the attempt before the task is disabled; a status that says completed is of a
request with a receipt, and never of the one under way, so that `Fail` cannot contradict it), `SelectionInv` (what the
signer saw is still selected up to the switch), `ArchiveInv` (an archive is named
by the generation just consumed, hence new), `LimitInv`, `ReceiptInv`. `ChangesAlone` follows from
`GuardInv`: no worker and no job gateway is inside when the selection is switched or the
queue archived, which is what JobQueue takes for granted with the guard `Quiescent` of its
`Activate` and `Rotate`.

**VersionedSelectionProofs** and the refinements of VersionedSelection. In `SelectionInv` a completed
request has its version behind it, and so has the current one once it has consumed it, while no
*other* completed request has the version of the current one: without this the conclusion, that
no two requests of one version are completed (`OneCompleted`), is not inductive. Since a completed
request may still fail, `OneChangePerVersion` says more than the invariant: once a request has been completed, no
other one of its version ever is. The proof keeps for each request that its rivals are barred
(`Barred`), from the moment it is completed and whatever becomes of it. Maintenance maps each of its
steps to one of VersionedSelection or to none. Most are none: the checks of a
gateway, the inbox, staging, the guards, and the second write of every receipt but the last, with which the
executor leaves its request as it is (`Leave`, as a kill does). The other exceptions are the
acceptance, the consumption of the generation, the switch, the last receipt, a failure (also of a request that is
completed already), a rejection and a kill. ReleaseDelivery has the acceptance and the consumption in one step, and reads what it switches
to from the file it downloaded: that this is what was signed is the work of `DeliveryInv`. Since
the implementation is proved, the theorems of VersionedSelection hold of both: they are cited through
an INSTANCE under the same mapping, and give `CompletedOncePerGeneration`, that two clients who
signed for the same state are never both told, at whatever times, that theirs was completed. `ReplacesWhatWasSeen`
is proved on its own as well; it says of Maintenance alone what ImplementsSelection says of both.

**ArchiveRotationProofs**. `UserInv` (behind the
exclusive handle nobody uses the queue), `WriteInv` (a write under way is of no
tombstone), `PlaceInv` (inventory, journal and replacement agree with the queue
up to the first move, and the replacement knows every accepted request after it), `RecordInv`
(a record is in one directory, and every archived one has a tombstone in the
queue). `UserInv` is the heart: the inventory is taken under `store.lock`,
which is then released, and is still true at the move only because of
`activation.lock`. For the refinement `StepInv` adds that one program at a time has the store open, so that
what it renames continues what it read, and that no job of the inventory becomes unfinished;
then a renaming is one move of one request, the first move of a directory is the abstract archive, and
everything else, the second move included, is not visible.

**JobClientProofs**. `ClientInv` says of each place where something is known of a job, that it is so:
a job file and a program (`Knows`), an answer on its way (`Truthful`), the file a program works
on (`OnFile`), and what a program may still do (`Entitled`). An answer may be old; it is
still true, since the service never takes back what these parts are about. `ServiceBelieved` adds
the tables of artifacts, for which kinds are enumerated.

**EvidenceCaptureProofs**. `CaptureInv`: where a program is in its loop (`Progress`), that each result is of its kind and of the
deployment of its epoch (`Sound`), and that the second status confirmed the epoch at the moment
of the answer (`Confirmed`): epochs only grow, so the same epoch before and after is the
epoch in between. `FitnessInv` shows the opposite direction: a program that was not
disturbed agrees with the world it reads, so that every check of a world that fits passes. It rests on
the worker's and the client's selection of an adapter being the same rule (`RulesAgree`).

**ReleaseDeliveryProofs**. `AcceptedExtractable` is about names alone: putting a root before the names of a player makes none
too long, reserved or a directory of another. `DeliveryInv` follows a request (`Known`: it is in
a file before the host can know it), a ticket (`Publications`: only the live listener has an open one), the
transfer (`Downloading`: who got it all is past it, what is under way is served with the right
content) and the moves (`Installing`: of an unfinished installation only what its step says is there).

Assumptions are on constants only; TLC evaluates all of them:

* `QueueAssumption`, `MaintenanceAssumption`, `RotationAssumption`, `ClientAssumption`, `CaptureAssumption`,
  `DeliveryAssumption`: limits are numbers, `None` is no member, the installed deployment
  is one, the worker is not a job gateway, releases have two directories and names are sequences of
  strings.
* `NoneIsNoRecord`, `NoneIsNoFile`, `NoneIsNoDirectory`, `NoneIsNoCapture`, `EvidenceAssumption`: `None` is not the
  content of a file or directory, nor a set of artifacts. `NoneIsNoDeployment`, `NoneIsNoWork`: nor a deployment, a
  signature or work in progress.
* The theorems of VersionedSelectionProofs are about any constants that satisfy `SelectionConstants`, which
  Maintenance and ReleaseDelivery assume of the values they give them (`NoneIsNoWork`).
* Some theorems about JobQueue bound the fault `LoseRecord`, which erases a record: `AcceptedJobKept`, both
  refinements and `AnsweredIsFound` are for no loss (a lost record *is* a forgotten job), `OneJobPerRequest` for none, or for one and
  no rotation after it. With a loss and a rotation the property is false: a request whose index has vanished
  gets no tombstone. The other theorems hold for any number of losses.

The invariants were first checked with TLC as invariants of the runs above, and the refinements as properties:
that of ReleaseDelivery with one ticket only (1,311,571 states), for it would not fit into its run
beside the other properties. It, `ReplacesWhatWasSeen`, `ChangesAlone`,
`CompletedOncePerGeneration`, `AnsweredIsFound` and the theorems of VersionedSelection are proved and in no run.

Only model-checked: the liveness properties `StartedJobEnds` and `InboxDrains`, which with `ENABLED` and
fairness are beyond the prover. Facts by induction over data would be beyond
it too; no module here needs them, and none declares a RECURSIVE operator.

## 5. Limits of the result

The file system is trusted to make a replacement atomic and to release a dead
process's handles. `LoseRecord` lets an index or a job record disappear,
bounded by `MaxLosses`; it is 1 only in queue_submission. Clock readings may change at
any moment, so no property depends on how long a step takes. Rotation is one step in
**JobQueue**, two (started, done) in **Maintenance**, where a failure between them
leaves the archive's name taken, and all of its steps in **ArchiveRotation**.
`SwapRecoverable` says that an interrupted swap has left what completes it, not that
anything does: neither a signed nor a local repair moves the replacement in, and until
an operator does, every request fails. ArchiveRotation has the headless mode of the
script only; run by hand it checks that the SSH service is stopped, and there is no
exclusive handle.

JobClient stands on JobService and not on JobQueue itself. That JobQueue implements JobService
is proved, for a queue that loses no record; a call that is refused is no step of JobQueue, so that
when the service refuses is stated in JobService from the lines of the code alone. `JobRemembered` says that a job file names every accepted
job, not that somebody uses it. In ReleaseDelivery TLS, the token of a ticket and the signature of a request
hold by assumption: whoever connects is the host, and what it is told is what was signed.

## 6. Findings

1. **A rejected request hides the need for repair**
   (`windows/Invoke-ValidationMaintenance.ps1:60`, run maintenance_repair). `HEADLESS.md:72-73`
   says that failed maintenance needs explicit repair. The executor asks
   for one only while `receipt.json` says neither completed nor failed. Killed
   while the worker is being stopped, it leaves the status so; the next activate or
   archive is refused with `maintenance_repair_required`, but this refusal is
   itself written to `receipt.json` as *failed*, and the request after it is
   carried out with no repair.
2. **A queued request can be forgotten** (line 122 of the same file, run
   maintenance_rejection). The comment at lines 117-118 says that a request which is
   refused after it was queued receives a durable rejection. The pending request is removed
   before its receipt is written; an executor killed in between leaves a
   request that no one knows, and its client polls until it gives up.
3. **An archive can defeat itself** (`windows/Archive-ValidationQueue.ps1:62`, run
   archive_leftover). `HEADLESS.md:60-61` describes the archive as stopping the worker
   and then starting with a fresh queue. The worker is stopped by ending its process, which
   writes its heartbeat at every poll; ended between a temporary file and its
   renaming, it leaves a file which the script refuses as an unexpected entry,
   now and at every later attempt. Nothing in the program removes it.

Also observed, with no run of its own: **a completed receipt can become failed**
(`windows/Invoke-ValidationMaintenance.ps1:114`). The last `Save-Receipt` is inside the `try`: when its second
write (line 17) throws after the first has said completed, because a gateway that answers
`maintenance-status` has `receipt.json` open (`windows/Validation.Maintenance.psm1:106` replaces the file) or
the disk is full, the catch block (lines 124-134) overwrites `receipts\<id>.json` with *failed* and the
failed phase *completed*, although the action is done and a client may have been answered
completed. `HEADLESS.md:87-88` speaks of a durable phase, `HEADLESS.md:113-114` of retries that return the
existing receipt, and `tests/test_headless_worker.py:79-87` sends a completed request again and expects the
same receipt. The model has this step (`Fail` at the last write), and the promises that it touches
are stated as they hold: `ReceiptIsFinal` and `EndIsFinal` name it as their one exception,
`CompletedOncePerGeneration` counts whoever was *ever* answered completed. Nothing is executed twice
because of it, and the worker task is enabled by then.

## 7. Plan

1. JobQueue, JobLifecycle, JobQueueRefines, JobQueueProofs. *Done.*
2. Maintenance, MaintenanceProofs. *Done.*
3. ArchiveRotation, ArchiveRotationProofs, its refinement of JobLifecycle. *Done.*
4. JobClient: the clients of the queue over JobService, and its proofs. *Done.*
5. ReleaseDelivery: builder, listener, maintenance client, download and extraction, and its proofs. *Done.*
6. EvidenceCapture: captures and adapter selection, and its proofs. *Done.*
7. All safety properties of JobQueue and its refinement as theorems. *Done.*
8. JobService: the service between JobQueue and JobClient, and the proof that the one gives it and
   the other uses nothing else. *Done.*
9. VersionedSelection: the promise of maintenance, and the proofs that Maintenance and ReleaseDelivery
   keep it. *Done.*
10. **Host**: JobQueue and Maintenance composed, replacing the guards `Quiescent` of
   `Activate` and `Rotate` by the activation lock. *Left*: the product of the two state
   spaces is out of reach for TLC at bounds where anything new could happen.
   ArchiveRotation, which has both locks and all that the queue does under them, shows for
   the rotation what the composition would, and `ChangesAlone` is the half of it that
   is Maintenance's.
11. **HeadlessInstall**: the journal of the installation, its flags, rollback, resumption
   and removal. *Left*: see section 8.

## 8. Not modelled

* `Manage-ValidationHeadless.ps1`, except for the state it leaves and the local repair: installation,
  rollback, resumption and removal are run once by an administrator and consist of calls into Windows
  (accounts, tasks, rights, services), whose effect each would be an assumption.
* The recovery of the SSH service (`Invoke-ValidationMaintenance.ps1:22-39`): samples of boot identity and addresses,
  with one counter that is written before it is used.
* `Validation.Protocol.psm1`: parsing of a flat request, a pure function whose outcome the queue takes as a choice.
* `Validation.Fixtures.psm1`, `Validation.Unity.psm1`, `native/unity_trace.c`, `native/unity_observer.c`, except for the sets of evidence they end with: tables
  of fixed commands, and hooks inside one render thread whose files are read after the process has ended.
* `Validation.Graphics.psm1`, `native/graphics_identity.c`: registry and driver identities are compared as values.
* `native/device_probe.cpp`, `native/diagnostic.cpp`, `unity/`: Direct3D and Unity calls in a straight line.
* `build_deployment.py`, `build_headless_bootstrap.py`, `build_unity_harness.py`, `build_unity_package.py`: one process that turns fixed inputs
  into an archive in one pass.
* Host setup scripts: Windows configuration with no protocol between them.
* Signatures, digests, ACL and handle checks, file formats: abstracted to validity.
