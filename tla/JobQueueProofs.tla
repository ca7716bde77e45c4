--------------------------- MODULE JobQueueProofs ---------------------------
(***************************************************************************)
(* Proofs about JobQueue for every value of its constants: any number of   *)
(* requests, workers, kills, lost records, rotations and deployments.      *)
(* First the invariant of its executions; then, with one lemma about what  *)
(* a step may do to one job, what the queue guarantees to those it serves: *)
(* what results say is true and final, the worker meets no job it must die *)
(* of, the quotas hold, and a request has one job, which is kept.          *)
(***************************************************************************)
EXTENDS JobQueue, FiniteSetTheorems, TLAPS

-----------------------------------------------------------------------------
(* Type correctness. *)

\* A job as submit writes it.
LEMMA InitialType ==
    ASSUME NEW i \in Index
    PROVE  Initial(i) \in Job
BY DEF Initial, Index, Job, JobStates, Terminal

\* The updates of a job record that the code makes.
LEMMA StateUpdate ==
    ASSUME NEW job \in Job, NEW s \in JobStates
    PROVE  [job EXCEPT !.state = s, !.updated = TRUE] \in Job
BY DEF Job

\* A job that ends without having run.
LEMMA FailureUpdate ==
    ASSUME NEW job \in Job, NEW t \in Terminal
    PROVE  [job EXCEPT !.state = t, !.result = t] \in Job
BY DEF Job, JobStates

\* A job that ends with the verdict about its child.
LEMMA OutcomeUpdate ==
    ASSUME NEW job \in Job, NEW t \in Terminal, NEW x \in {"none", "ok", "bad"}
    PROVE  [job EXCEPT !.state = t, !.result = t, !.updated = TRUE, !.exit = x] \in Job
BY DEF Job, JobStates

\* A job queued under the epoch of the heartbeat.
LEMMA StartUpdate ==
    ASSUME NEW job \in Job, NEW e \in Epochs
    PROVE  [job EXCEPT !.state = "queued", !.updated = TRUE, !.epoch = e,
                       !.execution = job.execution + 1] \in Job
PROOF
<1>1. ASSUME NEW k \in Nat
      PROVE  [job EXCEPT !.state = "queued", !.updated = TRUE, !.epoch = e,
                         !.execution = k] \in Job
  BY DEF Job, JobStates
<1>2. job.execution + 1 \in Nat
  BY DEF Job
<1> QED BY <1>1, <1>2

\* A job cancelled, or told to stop.
LEMMA CancelUpdate ==
    ASSUME NEW job \in Job, NEW s \in JobStates, NEW c \in BOOLEAN
    PROVE  [job EXCEPT !.state = s, !.cancelRequested = c, !.updated = TRUE] \in Job
BY DEF Job

\* A submission, interrupted or not, keeps the types.
LEMMA SubmitType ==
    ASSUME TypeOK, pending # None => index[pending] # None, Submit
    PROVE  TypeOK'
PROOF
<1> USE QueueAssumption
<1>1. ASSUME NEW n \in Nonces, NEW d \in Digests, NEW j \in JobIds, Prepare(n, d, j)
      PROVE TypeOK'
  BY <1>1 DEF Prepare, TypeOK, Index, beats, bounds
<1>2. ASSUME NEW n \in Nonces, NEW d \in Digests, Resume(n, d)
      PROVE TypeOK'
  BY <1>2 DEF Resume, TypeOK, store, beats, drawn, bounds
<1>3. ASSUME NEW n \in Nonces, NEW d \in Digests, Replay(n, d)
      PROVE TypeOK'
  <2>1. index[n].job \in JobIds
    BY <1>3 DEF Replay, Retryable, TypeOK, Index
  <2> QED BY <1>3, <2>1 DEF Replay, TypeOK, store, beats, drawn, bounds
<1>4. CASE CreateJob
  <2>1. index[pending] \in Index
    BY <1>4 DEF CreateJob, TypeOK
  <2>2. Initial(index[pending]) \in Job
    BY <2>1, InitialType
  <2> QED BY <1>4, <2>1, <2>2 DEF CreateJob, TypeOK, beats, drawn, bounds
<1>5. CASE Publish
  <2>1. [index[pending] EXCEPT !.phase = "published"] \in Index
    BY <1>5 DEF Publish, TypeOK, Index
  <2> QED BY <1>5, <2>1 DEF Publish, TypeOK, beats, drawn, bounds
<1>6. CASE Answer
  <2>1. index[pending] \in Index
    BY <1>6 DEF Answer, TypeOK
  <2> QED BY <1>6, <2>1 DEF Answer, TypeOK, Index, store, beats, drawn, bounds
<1> QED BY <1>1, <1>2, <1>3, <1>4, <1>5, <1>6 DEF Submit

\* So do start and cancel,
LEMMA ClientType ==
    ASSUME TypeOK, NEW j \in JobIds, Start(j) \/ Cancel(j)
    PROVE  TypeOK'
PROOF
<1> USE QueueAssumption
<1>1. jobs[j] \in Job
  BY DEF Start, Cancel, Accessible, TypeOK
<1>2. ASSUME NEW job \in Job, WriteJob(j, job)
      PROVE  TypeOK'
  BY <1>2 DEF WriteJob, TypeOK, beats, drawn, bounds
<1>3. CASE Start(j)
  <2>1. CASE WriteJob(j, [jobs[j] EXCEPT !.state = "stale", !.updated = TRUE])
    <3>1. "stale" \in JobStates
      BY DEF JobStates, Terminal
    <3> QED BY <1>1, <1>2, <2>1, <3>1, StateUpdate
  <2>2. CASE /\ WorkerAvailable
             /\ WriteJob(j, [jobs[j] EXCEPT !.state = "queued", !.updated = TRUE,
                                            !.epoch = heartbeat.epoch,
                                            !.execution = @ + 1])
    <3>1. heartbeat.epoch \in Epochs
      BY <2>2 DEF WorkerAvailable, TypeOK
    <3>2. [jobs[j] EXCEPT !.state = "queued", !.updated = TRUE,
                          !.epoch = heartbeat.epoch,
                          !.execution = @ + 1] \in Job
      BY <1>1, <3>1, StartUpdate
    <3> QED BY <1>2, <2>2, <3>2
  <2> QED BY <1>3, <2>1, <2>2 DEF Start
<1>4. CASE Cancel(j)
  <2> DEFINE s == IF jobs[j].state \in {"submitted", "queued"} THEN "cancelled"
                  ELSE jobs[j].state
             c == jobs[j].cancelRequested \/ jobs[j].state = "running"
  <2>1. s \in JobStates /\ c \in BOOLEAN
    BY <1>1 DEF Job, JobStates, Terminal
  <2>2. WriteJob(j, [jobs[j] EXCEPT !.state = s, !.cancelRequested = c,
                                    !.updated = TRUE])
    BY <1>4 DEF Cancel
  <2> HIDE DEF s, c
  <2>3. [jobs[j] EXCEPT !.state = s, !.cancelRequested = c, !.updated = TRUE] \in Job
    BY <1>1, <2>1, CancelUpdate
  <2> QED BY <1>2, <2>2, <2>3
<1> QED BY <1>3, <1>4

\* the polling loop of the worker,
LEMMA WorkerType ==
    ASSUME TypeOK, WorkerStep,
           worker.pc \in {"poll", "launch"} => worker.active # None,
           worker.pc # "down" => worker.epoch \in Epochs,
           worker.pc = "launch" => jobs[worker.active] # None
    PROVE  TypeOK'
PROOF
<1> USE QueueAssumption
<1>1. worker \in Worker
  BY DEF TypeOK
<1>2. CASE Beat
  <2>1. worker' \in Worker
    BY <1>1, <1>2 DEF Beat, Worker
  <2> QED BY <1>2, <2>1 DEF Beat, TypeOK, Worker, store, drawn, bounds
<1>3. CASE Conclude
  <2>1. worker.active \in JobIds /\ jobs[worker.active] \in Job
    BY <1>1, <1>3 DEF Conclude, TypeOK, Worker
  <2> DEFINE job == jobs[worker.active]
             verdict == Verdict(job)
             x == IF job.cancelRequested \/ worker.late THEN job.exit ELSE worker.child
  <2>2. verdict # "undecided" /\ x \in {"none", "ok", "bad"}
    BY <1>1, <1>3, <2>1 DEF Conclude, Verdict, Worker, Job
  <2>3. verdict \in Terminal
    BY <2>2 DEF Verdict, Terminal
  <2>4. PICK final \in {verdict, "failed"} :
            jobs' = [jobs EXCEPT ![worker.active] =
                [job EXCEPT !.state = final, !.result = final, !.updated = TRUE,
                            !.exit = x]]
    BY <1>3 DEF Conclude
  <2>5. final \in Terminal
    BY <2>3 DEF Terminal
  <2> HIDE DEF verdict, x
  <2>6. [job EXCEPT !.state = final, !.result = final, !.updated = TRUE,
                    !.exit = x] \in Job
    BY <2>1, <2>2, <2>5, OutcomeUpdate
  <2>7. jobs' \in [JobIds -> Job \cup {None}]
    BY <2>1, <2>4, <2>6 DEF TypeOK
  <2>8. worker' \in Worker
    BY <1>1, <1>3 DEF Conclude, Worker
  <2> QED BY <1>3, <2>7, <2>8 DEF Conclude, TypeOK, beats, drawn, bounds
<1>4. CASE KeepWaiting
  <2>1. worker' \in Worker
    BY <1>1, <1>4 DEF KeepWaiting, Worker
  <2> QED BY <1>4, <2>1 DEF KeepWaiting, TypeOK, store, beats, drawn, bounds
<1>5. ASSUME NEW j \in JobIds, MarkStale(j)
      PROVE  TypeOK'
  <2>1. [jobs[j] EXCEPT !.state = "stale", !.updated = TRUE] \in Job
    BY <1>5, StateUpdate DEF MarkStale, Orphaned, TypeOK, JobStates, Terminal
  <2> QED BY <1>5, <2>1 DEF MarkStale, TypeOK, beats, drawn, bounds
<1>6. ASSUME NEW j \in JobIds, Claim(j)
      PROVE  TypeOK'
  <2>1. [jobs[j] EXCEPT !.state = "running", !.updated = TRUE] \in Job
    BY <1>6, StateUpdate DEF Claim, Mine, TypeOK, JobStates
  <2>2. worker' \in Worker
    BY <1>1, <1>6 DEF Claim, Worker
  <2> QED BY <1>6, <2>1, <2>2 DEF Claim, TypeOK, beats, drawn, bounds
<1>7. CASE Launch
  <2>1. worker.active \in JobIds /\ worker' \in Worker
    BY <1>1, <1>7 DEF Launch, Worker
  <2>2. launches' \in [JobIds -> Nat]
    BY <1>7, <2>1 DEF Launch, TypeOK
  <2> QED BY <1>7, <2>1, <2>2 DEF Launch, TypeOK, store, beats, drawn, bounds
<1>8. ASSUME LaunchFails, jobs[worker.active] # None
      PROVE  TypeOK'
  <2>1. worker.active \in JobIds /\ worker' \in Worker
    BY <1>1, <1>8 DEF LaunchFails, Worker
  <2>2. [jobs[worker.active] EXCEPT !.state = "failed", !.result = "failed"] \in Job
    BY <1>8, <2>1, FailureUpdate DEF TypeOK, Terminal
  <2> QED BY <1>8, <2>1, <2>2 DEF LaunchFails, TypeOK, beats, drawn, bounds
<1>9. CASE EndScan
  <2>1. worker' \in Worker
    BY <1>1, <1>9 DEF EndScan, Worker
  <2> QED BY <1>9, <2>1 DEF EndScan, TypeOK, store, beats, drawn, bounds
<1> QED
  BY <1>2, <1>3, <1>4, <1>5, <1>6, <1>7, <1>8, <1>9 DEF WorkerStep, LaunchFails

\* and what clocks, kills and the operator do.
LEMMA OtherType ==
    ASSUME TypeOK,
           \/ InterruptGateway \/ WorkerBoots \/ WorkerDies \/ Activate \/ Rotate
           \/ HeartbeatExpires \/ ChildExits \/ TimerExpires \/ LoseRecord
           \/ \E j \in JobIds : SubmissionAges(j)
    PROVE  TypeOK'
PROOF
<1> USE QueueAssumption
<1>1. worker \in Worker
  BY DEF TypeOK
<1>2. CASE InterruptGateway
  BY <1>2 DEF InterruptGateway, TypeOK, store, beats, drawn
<1>3. ASSUME NEW e \in Epochs, Boot(e)
      PROVE  TypeOK'
  <2>1. worker' \in Worker
    BY <1>3 DEF Boot, Worker, TypeOK
  <2> QED BY <1>3, <2>1 DEF Boot, TypeOK, store, beats, bounds
<1>4. CASE WorkerDies
  <2>1. worker' \in Worker
    BY <1>1, <1>4 DEF WorkerDies, Worker
  <2> QED BY <1>4, <2>1 DEF WorkerDies, TypeOK, store, beats, drawn, bounds
<1>5. CASE Activate
  <2>1. deployment' \in DeploymentIds
    BY <1>5 DEF Activate, TypeOK, DeploymentIds
  <2> QED BY <1>5, <2>1 DEF Activate, TypeOK, store, beats, drawn, bounds
<1>6. CASE Rotate
  <2>1. ASSUME NEW n \in Nonces
        PROVE  Tombstone(n) \in Digests \cup {None}
    BY DEF Tombstone, TypeOK, Index
  <2>2. archived' \in [Nonces -> Digests \cup {None}]
    BY <1>6, <2>1 DEF Rotate
  <2>3. /\ index' \in [Nonces -> Index \cup {None}]
        /\ jobs' \in [JobIds -> Job \cup {None}]
        /\ heartbeat' = None /\ fresh' = FALSE
        /\ rotations' \in Nat
    BY <1>6 DEF Rotate, TypeOK
  <2> QED BY <1>6, <2>2, <2>3 DEF Rotate, TypeOK, drawn
<1>7. CASE HeartbeatExpires
  BY <1>7 DEF HeartbeatExpires, TypeOK, store, drawn, bounds
<1>8. CASE ChildExits
  <2>1. worker' \in Worker
    BY <1>1, <1>8 DEF ChildExits, Worker
  <2> QED BY <1>8, <2>1 DEF ChildExits, TypeOK, store, beats, drawn, bounds
<1>9. CASE TimerExpires
  <2>1. worker' \in Worker
    BY <1>1, <1>9 DEF TimerExpires, Worker
  <2> QED BY <1>9, <2>1 DEF TimerExpires, TypeOK, store, beats, drawn, bounds
<1>10. CASE LoseRecord
  BY <1>10 DEF LoseRecord, TypeOK, beats, drawn
<1>11. ASSUME NEW j \in JobIds, SubmissionAges(j)
       PROVE  TypeOK'
  BY <1>11 DEF SubmissionAges, TypeOK, store, beats, drawn, bounds
<1> QED
  BY <1>2, <1>3, <1>4, <1>5, <1>6, <1>7, <1>8, <1>9, <1>10, <1>11 DEF WorkerBoots

-----------------------------------------------------------------------------
(***************************************************************************)
(* The rest of QueueInv.  Steps that rewrite one job record have the same  *)
(* obligations on the records, stated once: the job was not waiting for    *)
(* publication, and its new state and epoch are explained by the old ones. *)
(***************************************************************************)
Rewrites(j, job) ==
    /\ jobs' = [jobs EXCEPT ![j] = job]
    /\ UNCHANGED <<index, launches, allocated, epochs, heartbeat, pending>>

RecordInv ==
    LockInv /\ IndexInv /\ FreshInv /\ PristineInv /\ UnlaunchedInv /\ EpochInv

\* Rewriting a job that exists leaves its submission as it was.
LEMMA RewriteKeepsRecords ==
    ASSUME QueueInv, NEW j \in JobIds, NEW job \in Job, Rewrites(j, job),
           worker'.pc \in {"poll", "scan", "launch"} => pending = None,
           jobs[j] # None,
           \A n \in Indexed : index[n].phase = "prepared" => index[n].job # j,
           job.state \in {"submitted", "queued"}
               => jobs[j].state \in {"submitted", "queued"},
           job.epoch \in epochs \cup {None}
    PROVE  RecordInv'
PROOF
<1> USE DEF QueueInv, Rewrites, Indexed, Existing
<1>1. LockInv'
  BY DEF LockInv
<1>2. IndexInv'
  BY DEF IndexInv
<1>3. FreshInv'
  BY DEF FreshInv, TypeOK
<1>4. PristineInv'
  <2> SUFFICES ASSUME NEW n \in Nonces, index[n] # None, index[n].phase = "prepared"
               PROVE  /\ launches[index[n].job] = 0
                      /\ jobs'[index[n].job] # None =>
                            jobs'[index[n].job] = Initial(index[n])
    BY DEF PristineInv, Initial
  <2>1. index[n].job \in JobIds /\ index[n].job # j
    BY DEF TypeOK, Index
  <2> QED BY <2>1 DEF PristineInv, TypeOK
<1>5. UnlaunchedInv'
  BY DEF UnlaunchedInv, TypeOK
<1>6. EpochInv'
  BY DEF EpochInv, TypeOK
<1> QED BY <1>1, <1>2, <1>3, <1>4, <1>5, <1>6 DEF RecordInv

\* A job in another state than submitted is published.
LEMMA StartedIsPublished ==
    ASSUME QueueInv, NEW j \in JobIds, jobs[j] # None, jobs[j].state # "submitted"
    PROVE  \A n \in Indexed : index[n].phase = "prepared" => index[n].job # j
PROOF
<1> SUFFICES ASSUME NEW n \in Indexed, index[n].phase = "prepared", index[n].job = j
             PROVE  FALSE
  OBVIOUS
<1>1. jobs[j] = Initial(index[n])
  BY DEF QueueInv, PristineInv
<1>2. Initial(index[n]).state = "submitted"
  BY DEF Initial
<1> QED BY <1>1, <1>2

\* The steps in which submit makes progress.
LEMMA SubmitKeepsInv ==
    ASSUME QueueInv, Submit
    PROVE  QueueInv'
PROOF
<1> USE QueueAssumption, NoneIsNoRecord
<1>1. TypeOK'
  BY SubmitType DEF QueueInv, LockInv
<1> USE DEF Indexed, Existing
<1>2. ASSUME NEW n \in Nonces, NEW d \in Digests, NEW j \in JobIds, Prepare(n, d, j)
      PROVE  QueueInv'
  <2> DEFINE i == [phase |-> "prepared", job |-> j, nonce |-> n,
                   digest |-> d, deployment |-> deployment]
  <2>1. i \in Index /\ i # None
    BY DEF QueueInv, TypeOK, Index
  <2>2. /\ index' = [index EXCEPT ![n] = i]
        /\ i.job = j /\ i.nonce = n
        /\ allocated' = allocated \cup {j} /\ j \notin allocated
        /\ pending' = n
        /\ UNCHANGED <<jobs, heartbeat, worker, epochs, launches>>
        /\ worker.pc \in {"down", "sleep"}
    BY <1>2 DEF Prepare, StoreFree, beats
  <2> HIDE DEF i
  <2>3. jobs[j] = None /\ launches[j] = 0
    BY <2>2 DEF QueueInv, FreshInv
  <2>4. index'[n] = i /\ \A m \in Nonces \ {n} : index'[m] = index[m]
    BY <2>2 DEF QueueInv, TypeOK
  <2>5. LockInv'
    BY <2>1, <2>2, <2>4 DEF LockInv
  <2>6. IndexInv'
    BY <2>2, <2>4 DEF QueueInv, IndexInv
  <2>7. FreshInv' /\ UnlaunchedInv' /\ LaunchedOnce'
    BY <2>2 DEF QueueInv, FreshInv, UnlaunchedInv, LaunchedOnce
  <2>8. PristineInv'
    BY <2>2, <2>3, <2>4 DEF QueueInv, PristineInv, Initial
  <2>9. WorkerInv' /\ EpochInv' /\ ActiveInv' /\ OwnedRun'
    BY <2>2 DEF QueueInv, WorkerInv, EpochInv, ActiveInv, OwnedRun
  <2> QED BY <1>1, <2>5, <2>6, <2>7, <2>8, <2>9 DEF QueueInv
<1>3. ASSUME NEW n \in Nonces, NEW d \in Digests, Resume(n, d) \/ Replay(n, d)
      PROVE  QueueInv'
  <2>1. /\ pending' \in {pending, n} /\ index[n] # None
        /\ worker.pc \in {"down", "sleep"}
        /\ UNCHANGED <<index, jobs, heartbeat, worker, allocated, epochs, launches>>
    BY <1>3 DEF Resume, Replay, Retryable, StoreFree, store, beats, drawn
  <2>2. LockInv'
    BY <2>1 DEF QueueInv, LockInv
  <2> QED BY <1>1, <2>1, <2>2 DEF QueueInv, WorkerInv, IndexInv, FreshInv,
        PristineInv, UnlaunchedInv, EpochInv, ActiveInv, LaunchedOnce, OwnedRun
<1>4. CASE CreateJob
  <2> DEFINE i == index[pending]
             j == i.job
  <2>1. /\ pending \in Nonces /\ i \in Index /\ i # None /\ j \in JobIds
        /\ i.phase = "prepared" /\ jobs[j] = None
        /\ jobs' = [jobs EXCEPT ![j] = Initial(i)]
        /\ UNCHANGED <<index, heartbeat, pending, worker, allocated, epochs, launches>>
    BY <1>4 DEF CreateJob, PublicationAction, QueueInv, TypeOK, LockInv, Index,
        beats, drawn
  <2>2. launches[j] = 0 /\ j \in allocated
    BY <2>1 DEF QueueInv, PristineInv, IndexInv
  <2>3. /\ Initial(i).state = "submitted" /\ Initial(i).epoch = None
        /\ Initial(i) # None
    BY <2>1, InitialType DEF Initial
  <2> HIDE DEF i, j
  <2>4. LockInv' /\ IndexInv'
    BY <2>1 DEF QueueInv, LockInv, IndexInv
  <2>5. jobs'[j] = Initial(i) /\ \A k \in JobIds \ {j} : jobs'[k] = jobs[k]
    BY <2>1 DEF QueueInv, TypeOK
  <2>6. FreshInv' /\ UnlaunchedInv' /\ LaunchedOnce'
    BY <2>1, <2>2, <2>5 DEF QueueInv, FreshInv, UnlaunchedInv, LaunchedOnce
  <2>7. PristineInv'
    <3> SUFFICES ASSUME NEW n \in Nonces, index[n] # None, index[n].phase = "prepared"
                 PROVE  /\ launches[index[n].job] = 0
                        /\ jobs'[index[n].job] # None =>
                              jobs'[index[n].job] = Initial(index[n])
      BY <2>1 DEF PristineInv, Initial
    <3>1. index[n].job \in JobIds
      BY DEF QueueInv, TypeOK, Index
    <3>2. CASE index[n].job = j
      <4>1. n = pending
        BY <2>1, <3>2 DEF QueueInv, IndexInv, i, j
      <4> QED BY <2>2, <2>5, <3>2, <4>1 DEF i
    <3>3. CASE index[n].job # j
      BY <2>5, <3>1, <3>3 DEF QueueInv, PristineInv
    <3> QED BY <3>2, <3>3
  <2>8. WorkerInv' /\ EpochInv' /\ OwnedRun'
    BY <2>1, <2>3, <2>5 DEF QueueInv, WorkerInv, EpochInv, OwnedRun
  <2>9. ActiveInv'
    BY <2>1, <2>2, <2>5 DEF QueueInv, TypeOK, Worker, ActiveInv
  <2> QED BY <1>1, <2>4, <2>6, <2>7, <2>8, <2>9 DEF QueueInv
<1>5. CASE Publish
  <2> DEFINE i == [index[pending] EXCEPT !.phase = "published"]
  <2>1. /\ pending \in Nonces /\ index[pending] \in Index /\ index[pending] # None
        /\ index' = [index EXCEPT ![pending] = i]
        /\ UNCHANGED <<jobs, heartbeat, pending, worker, allocated, epochs, launches>>
    BY <1>5 DEF Publish, QueueInv, TypeOK, LockInv, beats, drawn
  <2>2. /\ i # None /\ i.phase = "published"
        /\ i.job = index[pending].job /\ i.nonce = index[pending].nonce
    BY <2>1 DEF Index
  <2> HIDE DEF i
  <2>3. index'[pending] = i /\ \A n \in Nonces \ {pending} : index'[n] = index[n]
    BY <2>1 DEF QueueInv, TypeOK
  <2>4. LockInv'
    BY <2>1, <2>2, <2>3 DEF QueueInv, LockInv
  <2>5. IndexInv'
    BY <2>1, <2>2, <2>3 DEF QueueInv, IndexInv
  <2>6. PristineInv'
    BY <2>1, <2>2, <2>3 DEF QueueInv, PristineInv, Initial
  <2> QED BY <1>1, <2>1, <2>4, <2>5, <2>6 DEF QueueInv, WorkerInv, FreshInv,
        UnlaunchedInv, EpochInv, ActiveInv, LaunchedOnce, OwnedRun
<1>6. CASE Answer
  <2>1. /\ pending' = None
        /\ UNCHANGED <<index, jobs, heartbeat, worker, allocated, epochs, launches>>
    BY <1>6 DEF Answer, store, beats, drawn
  <2> QED BY <1>1, <2>1 DEF QueueInv, LockInv, WorkerInv, IndexInv, FreshInv,
        PristineInv, Initial, UnlaunchedInv, EpochInv, ActiveInv, LaunchedOnce, OwnedRun
<1> QED BY <1>2, <1>3, <1>4, <1>5, <1>6 DEF Submit

\* start and cancel.
LEMMA ClientKeepsInv ==
    ASSUME QueueInv, NEW j \in JobIds, Start(j) \/ Cancel(j)
    PROVE  QueueInv'
PROOF
<1> USE QueueAssumption, NoneIsNoRecord
<1>1. TypeOK'
  BY ClientType DEF QueueInv
<1> USE DEF Indexed, Existing
<1>2. /\ jobs[j] \in Job /\ jobs[j] # None
      /\ StoreFree
      /\ index[jobs[j].nonce] # None /\ index[jobs[j].nonce].job = j
      /\ index[jobs[j].nonce].phase = "published"
  BY DEF Start, Cancel, Accessible, PublicationAction, QueueInv, TypeOK
<1>3. \A n \in Indexed : index[n].phase = "prepared" => index[n].job # j
  <2>1. jobs[j].nonce \in Nonces
    BY <1>2 DEF Job
  <2> QED BY <1>2, <2>1 DEF QueueInv, IndexInv
<1>4. ASSUME NEW job \in Job, WriteJob(j, job),
             job.state \in {"submitted", "queued"}
                 => jobs[j].state \in {"submitted", "queued"},
             job.epoch \in epochs \cup {None},
             job.state = "running" =>
                 jobs[j].state = "running" /\ job.epoch = jobs[j].epoch,
             jobs[j].state = "running" =>
                 job.state = "running" /\ job.epoch = jobs[j].epoch
      PROVE  QueueInv'
  <2>1. Rewrites(j, job) /\ UNCHANGED worker
    BY <1>4 DEF WriteJob, Rewrites, beats, drawn
  <2>2. RecordInv'
    BY <1>2, <1>3, <1>4, <2>1, RewriteKeepsRecords DEF QueueInv, LockInv
  <2>3. jobs'[j] = job /\ \A k \in JobIds \ {j} : jobs'[k] = jobs[k]
    BY <2>1 DEF Rewrites, QueueInv, TypeOK
  <2>4. job # None
    OBVIOUS
  <2>5. WorkerInv' /\ LaunchedOnce'
    BY <2>1 DEF Rewrites, QueueInv, WorkerInv, LaunchedOnce
  <2>6. OwnedRun'
    BY <1>2, <1>4, <2>1, <2>3 DEF QueueInv, OwnedRun
  <2>7. ActiveInv'
    BY <1>2, <1>4, <2>1, <2>3, <2>4 DEF Rewrites, QueueInv, ActiveInv, TypeOK, Worker
  <2> QED BY <1>1, <2>2, <2>5, <2>6, <2>7 DEF QueueInv, RecordInv
<1>5. jobs[j].epoch \in epochs \cup {None}
  BY <1>2 DEF QueueInv, EpochInv
<1>6. CASE Start(j)
  <2>1. jobs[j].state = "submitted"
    BY <1>6 DEF Start
  <2>2. CASE WriteJob(j, [jobs[j] EXCEPT !.state = "stale", !.updated = TRUE])
    <3> DEFINE job == [jobs[j] EXCEPT !.state = "stale", !.updated = TRUE]
    <3>1. job \in Job
      BY <1>2, StateUpdate DEF JobStates, Terminal
    <3>2. job.state = "stale" /\ job.epoch = jobs[j].epoch
      BY <1>2 DEF Job
    <3> QED BY <1>4, <1>5, <2>1, <2>2, <3>1, <3>2
  <2>3. CASE /\ WorkerAvailable
             /\ WriteJob(j, [jobs[j] EXCEPT !.state = "queued", !.updated = TRUE,
                                            !.epoch = heartbeat.epoch,
                                            !.execution = @ + 1])
    <3> DEFINE job == [jobs[j] EXCEPT !.state = "queued", !.updated = TRUE,
                                      !.epoch = heartbeat.epoch,
                                      !.execution = jobs[j].execution + 1]
    <3>1. heartbeat.epoch \in epochs /\ heartbeat.epoch \in Epochs
      BY <2>3 DEF WorkerAvailable, QueueInv, TypeOK, EpochInv
    <3>2. job \in Job
      BY <1>2, <3>1, StartUpdate
    <3>3. job.state = "queued" /\ job.epoch = heartbeat.epoch
      BY <1>2 DEF Job
    <3>4. WriteJob(j, job)
      BY <2>3
    <3> HIDE DEF job
    <3> QED BY <1>4, <2>1, <3>1, <3>2, <3>3, <3>4
  <2> QED BY <1>6, <2>2, <2>3 DEF Start
<1>7. CASE Cancel(j)
  <2> DEFINE s == IF jobs[j].state \in {"submitted", "queued"} THEN "cancelled"
                  ELSE jobs[j].state
             c == jobs[j].cancelRequested \/ jobs[j].state = "running"
             job == [jobs[j] EXCEPT !.state = s, !.cancelRequested = c,
                                    !.updated = TRUE]
  <2>1. s \in JobStates /\ c \in BOOLEAN
    BY <1>2 DEF Job, JobStates, Terminal
  <2>2. WriteJob(j, job)
    BY <1>7 DEF Cancel
  <2>3. job.state = s /\ job.epoch = jobs[j].epoch
    BY <1>2 DEF Job
  <2>4. /\ s \notin {"submitted", "queued"}
        /\ s = "running" <=> jobs[j].state = "running"
    OBVIOUS
  <2> HIDE DEF s, c
  <2>5. job \in Job
    BY <1>2, <2>1, CancelUpdate
  <2> HIDE DEF job
  <2> QED BY <1>4, <1>5, <2>2, <2>3, <2>4, <2>5
<1> QED BY <1>6, <1>7

-----------------------------------------------------------------------------
(* The worker. *)

\* Only the worker launches, and only what it has claimed.
LEMMA WorkerKeepsInv ==
    ASSUME QueueInv, WorkerStep
    PROVE  QueueInv'
PROOF
<1> USE QueueAssumption, NoneIsNoRecord
<1> USE DEF Indexed, Existing
<1>1. TypeOK'
  <2>1. /\ worker.pc \in {"poll", "launch"} => worker.active # None
        /\ worker.pc # "down" => worker.epoch \in Epochs
        /\ worker.pc = "launch" => jobs[worker.active] # None
    BY DEF QueueInv, TypeOK, WorkerInv, ActiveInv
  <2> QED BY <2>1, WorkerType DEF QueueInv
<1>2. worker \in Worker /\ jobs \in [JobIds -> Job \cup {None}]
  BY DEF QueueInv, TypeOK
<1>3. CASE Beat
  <2>1. /\ worker.pc = "sleep" /\ worker'.epoch = worker.epoch
        /\ worker'.active = worker.active
        /\ worker'.pc = IF worker.active = None THEN "scan" ELSE "poll"
        /\ pending = None
        /\ heartbeat' = [epoch |-> worker.epoch, deployment |-> worker.deployment]
        /\ UNCHANGED <<index, jobs, pending, allocated, epochs, launches>>
    BY <1>2, <1>3 DEF Beat, StoreFree, Worker, store, drawn
  <2>2. LockInv' /\ WorkerInv' /\ EpochInv'
    BY <2>1 DEF QueueInv, LockInv, WorkerInv, EpochInv
  <2>3. ActiveInv' /\ OwnedRun' /\ LaunchedOnce'
    BY <2>1 DEF QueueInv, ActiveInv, OwnedRun, LaunchedOnce
  <2> QED BY <1>1, <2>1, <2>2, <2>3 DEF QueueInv, IndexInv, FreshInv, PristineInv,
        Initial, UnlaunchedInv
<1>4. CASE Conclude
  <2> DEFINE a == worker.active
             verdict == Verdict(jobs[a])
             x == IF jobs[a].cancelRequested \/ worker.late THEN jobs[a].exit
                  ELSE worker.child
  <2>1. a \in JobIds /\ jobs[a] \in Job /\ jobs[a] # None /\ a # None
    BY <1>2, <1>4 DEF Conclude, QueueInv, WorkerInv, Worker
  <2>2. verdict # "undecided" /\ x \in {"none", "ok", "bad"}
    BY <1>2, <1>4, <2>1 DEF Conclude, Verdict, Worker, Job
  <2>3. verdict \in Terminal
    BY <2>2 DEF Verdict, Terminal
  <2>4. PICK final \in {verdict, "failed"} :
            jobs' = [jobs EXCEPT ![a] =
                [jobs[a] EXCEPT !.state = final, !.result = final,
                                !.updated = TRUE, !.exit = x]]
    BY <1>4 DEF Conclude
  <2> DEFINE job == [jobs[a] EXCEPT !.state = final, !.result = final,
                                    !.updated = TRUE, !.exit = x]
  <2>5. final \in Terminal
    BY <2>3 DEF Terminal
  <2> HIDE DEF verdict, x
  <2>6. job \in Job
    BY <2>1, <2>2, <2>5, OutcomeUpdate
  <2>7. job.state = final /\ job.epoch = jobs[a].epoch
    BY <2>1 DEF Job
  <2>8. /\ worker.pc = "poll" /\ worker'.pc = "scan" /\ worker'.active = None
        /\ worker'.epoch = worker.epoch
        /\ Rewrites(a, job)
    BY <1>2, <1>4, <2>4 DEF Conclude, Worker, Rewrites, beats, drawn
  <2>9. jobs[a].state = "running" /\ jobs[a].epoch \in epochs \cup {None}
    BY <2>1 DEF QueueInv, ActiveInv, EpochInv
  <2> HIDE DEF a, job
  <2>10. RecordInv'
    BY <2>1, <2>5, <2>6, <2>7, <2>8, <2>9, RewriteKeepsRecords, StartedIsPublished
       DEF QueueInv, LockInv, Terminal
  <2>11. jobs'[a] = job /\ \A k \in JobIds \ {a} : jobs'[k] = jobs[k]
    BY <1>2, <2>1, <2>8 DEF Rewrites
  <2>12. OwnedRun'
    BY <2>5, <2>7, <2>8, <2>11 DEF QueueInv, OwnedRun, Terminal, a
  <2>13. WorkerInv' /\ ActiveInv' /\ LaunchedOnce'
    BY <2>8 DEF Rewrites, QueueInv, WorkerInv, ActiveInv, LaunchedOnce
  <2> QED BY <1>1, <2>10, <2>12, <2>13 DEF QueueInv, RecordInv
<1>5. CASE KeepWaiting \/ EndScan
  <2>1. /\ worker.pc \in {"poll", "scan"} /\ worker'.pc = "sleep"
        /\ worker'.active = worker.active /\ worker'.epoch = worker.epoch
        /\ UNCHANGED <<index, jobs, heartbeat, pending, allocated, epochs, launches>>
    BY <1>2, <1>5 DEF KeepWaiting, EndScan, Worker, store, beats, drawn
  <2> QED BY <1>1, <2>1 DEF QueueInv, LockInv, WorkerInv, IndexInv, FreshInv,
        PristineInv, Initial, UnlaunchedInv, EpochInv, ActiveInv, LaunchedOnce, OwnedRun
<1>6. ASSUME NEW j \in JobIds, MarkStale(j)
      PROVE  QueueInv'
  <2> DEFINE job == [jobs[j] EXCEPT !.state = "stale", !.updated = TRUE]
  <2>1. /\ jobs[j] \in Job /\ jobs[j] # None /\ worker.pc = "scan"
        /\ jobs[j].state \in {"queued", "running"}
        /\ Rewrites(j, job) /\ UNCHANGED worker
    BY <1>2, <1>6 DEF MarkStale, Orphaned, Rewrites, beats, drawn
  <2>2. job \in Job
    BY <2>1, StateUpdate DEF JobStates, Terminal
  <2>3. job.state = "stale" /\ job.epoch = jobs[j].epoch
    BY <2>1 DEF Job
  <2>4. jobs[j].epoch \in epochs \cup {None}
    BY <2>1 DEF QueueInv, EpochInv
  <2> HIDE DEF job
  <2>5. RecordInv'
    BY <2>1, <2>2, <2>3, <2>4, RewriteKeepsRecords, StartedIsPublished
       DEF QueueInv, LockInv
  <2>6. jobs'[j] = job /\ \A k \in JobIds \ {j} : jobs'[k] = jobs[k]
    BY <1>2, <2>1 DEF Rewrites
  <2>7. OwnedRun'
    BY <2>1, <2>3, <2>6 DEF QueueInv, OwnedRun
  <2>8. WorkerInv' /\ ActiveInv' /\ LaunchedOnce'
    BY <2>1 DEF Rewrites, QueueInv, WorkerInv, ActiveInv, LaunchedOnce
  <2> QED BY <1>1, <2>5, <2>7, <2>8 DEF QueueInv, RecordInv
<1>7. ASSUME NEW j \in JobIds, Claim(j)
      PROVE  QueueInv'
  <2> DEFINE job == [jobs[j] EXCEPT !.state = "running", !.updated = TRUE]
  <2>1. /\ jobs[j] \in Job /\ jobs[j] # None /\ worker.pc = "scan"
        /\ jobs[j].state = "queued" /\ jobs[j].epoch = worker.epoch
        /\ Rewrites(j, job)
        /\ worker'.pc = "launch" /\ worker'.active = j /\ worker'.epoch = worker.epoch
    BY <1>2, <1>7 DEF Claim, Mine, Rewrites, Worker, beats, drawn
  <2>2. job \in Job
    BY <2>1, StateUpdate DEF JobStates
  <2>3. job.state = "running" /\ job.epoch = jobs[j].epoch
    BY <2>1 DEF Job
  <2>4. jobs[j].epoch \in epochs \cup {None} /\ launches[j] = 0
    BY <2>1 DEF QueueInv, EpochInv, UnlaunchedInv
  <2> HIDE DEF job
  <2>5. RecordInv'
    BY <2>1, <2>2, <2>3, <2>4, RewriteKeepsRecords, StartedIsPublished
       DEF QueueInv, LockInv
  <2>6. jobs'[j] = job /\ \A k \in JobIds \ {j} : jobs'[k] = jobs[k]
    BY <1>2, <2>1 DEF Rewrites
  <2>7. OwnedRun'
    BY <2>1, <2>3, <2>6 DEF QueueInv, OwnedRun, WorkerInv
  <2>8. WorkerInv' /\ LaunchedOnce'
    BY <2>1 DEF Rewrites, QueueInv, WorkerInv, LaunchedOnce
  <2>9. ActiveInv'
    BY <2>1, <2>2, <2>3, <2>4, <2>6 DEF Rewrites, ActiveInv
  <2> QED BY <1>1, <2>5, <2>7, <2>8, <2>9 DEF QueueInv, RecordInv
<1>8. CASE Launch
  <2> DEFINE a == worker.active
  <2>1. /\ worker.pc = "launch" /\ a \in JobIds /\ jobs[a] # None /\ launches[a] = 0
        /\ jobs[a].state = "running" /\ jobs[a].epoch = worker.epoch
    BY <1>2, <1>8 DEF Launch, QueueInv, WorkerInv, ActiveInv, Worker
  <2>2. /\ worker'.pc = "sleep" /\ worker'.active = a /\ worker'.epoch = worker.epoch
        /\ launches'[a] = 1 /\ \A k \in JobIds \ {a} : launches'[k] = launches[k]
        /\ UNCHANGED <<index, jobs, heartbeat, pending, allocated, epochs>>
    BY <1>2, <1>8, <2>1 DEF Launch, QueueInv, TypeOK, Worker, store, beats, drawn
  <2>3. a \in allocated /\ \A n \in Indexed : index[n].phase = "prepared" => index[n].job # a
    BY <2>1, StartedIsPublished DEF QueueInv, FreshInv
  <2> HIDE DEF a
  <2>4. PristineInv'
    <3> SUFFICES ASSUME NEW n \in Nonces, index[n] # None, index[n].phase = "prepared"
                 PROVE  /\ launches'[index[n].job] = 0
                        /\ jobs[index[n].job] # None =>
                              jobs[index[n].job] = Initial(index[n])
      BY <2>2 DEF PristineInv, Initial
    <3>1. index[n].job \in JobIds /\ index[n].job # a
      BY <2>3 DEF QueueInv, TypeOK, Index
    <3> QED BY <2>2, <3>1 DEF QueueInv, PristineInv
  <2>5. FreshInv' /\ UnlaunchedInv' /\ LaunchedOnce'
    BY <2>1, <2>2, <2>3 DEF QueueInv, FreshInv, UnlaunchedInv, LaunchedOnce
  <2>6. ActiveInv' /\ OwnedRun'
    BY <2>1, <2>2 DEF QueueInv, ActiveInv, OwnedRun, a
  <2>7. LockInv' /\ WorkerInv' /\ IndexInv' /\ EpochInv'
    BY <2>1, <2>2 DEF QueueInv, LockInv, WorkerInv, IndexInv, EpochInv
  <2> QED BY <1>1, <2>4, <2>5, <2>6, <2>7 DEF QueueInv
<1>9. CASE LaunchFails
  <2> DEFINE a == worker.active
             job == [jobs[a] EXCEPT !.state = "failed", !.result = "failed"]
  <2>1. /\ worker.pc = "launch" /\ a \in JobIds /\ jobs[a] # None /\ jobs[a] \in Job
        /\ jobs[a].state = "running"
    BY <1>2, <1>9 DEF LaunchFails, QueueInv, WorkerInv, ActiveInv, Worker
  <2>2. job \in Job
    BY <2>1, FailureUpdate DEF Terminal
  <2>3. job.state = "failed" /\ job.epoch = jobs[a].epoch
    BY <2>1 DEF Job
  <2>4. /\ Rewrites(a, job)
        /\ worker'.pc = "sleep" /\ worker'.active = None /\ worker'.epoch = worker.epoch
    <3>1. [[jobs EXCEPT ![a].state = "failed"] EXCEPT ![a].result = "failed"]
            = [jobs EXCEPT ![a] = job]
      BY <1>2, <2>1
    <3>2. jobs' = [jobs EXCEPT ![a] = job]
      BY <1>9, <3>1 DEF LaunchFails
    <3> QED BY <1>2, <1>9, <3>2 DEF LaunchFails, Rewrites, Worker, beats, drawn
  <2>5. jobs[a].epoch \in epochs \cup {None}
    BY <2>1 DEF QueueInv, EpochInv
  <2> HIDE DEF a, job
  <2>6. RecordInv'
    BY <2>1, <2>2, <2>3, <2>4, <2>5, RewriteKeepsRecords, StartedIsPublished
       DEF QueueInv, LockInv
  <2>7. jobs'[a] = job /\ \A k \in JobIds \ {a} : jobs'[k] = jobs[k]
    BY <1>2, <2>1, <2>4 DEF Rewrites
  <2>8. OwnedRun'
    BY <2>1, <2>3, <2>4, <2>7 DEF QueueInv, OwnedRun, a
  <2>9. WorkerInv' /\ ActiveInv' /\ LaunchedOnce'
    BY <2>1, <2>4 DEF Rewrites, QueueInv, WorkerInv, ActiveInv, LaunchedOnce
  <2> QED BY <1>1, <2>6, <2>8, <2>9 DEF QueueInv, RecordInv
<1> QED
  BY <1>3, <1>4, <1>5, <1>6, <1>7, <1>8, <1>9 DEF WorkerStep

-----------------------------------------------------------------------------
(* Kills, maintenance and the environment. *)

\* Clocks, kills, rotation and activation launch nothing.
LEMMA OtherKeepsInv ==
    ASSUME QueueInv,
           \/ InterruptGateway \/ WorkerBoots \/ WorkerDies \/ Activate \/ Rotate
           \/ HeartbeatExpires \/ ChildExits \/ TimerExpires \/ LoseRecord
           \/ \E j \in JobIds : SubmissionAges(j)
    PROVE  QueueInv'
PROOF
<1> USE QueueAssumption, NoneIsNoRecord
<1> USE DEF Indexed, Existing
<1>1. TypeOK'
  BY OtherType DEF QueueInv
<1>2. worker \in Worker /\ jobs \in [JobIds -> Job \cup {None}]
  BY DEF QueueInv, TypeOK
<1>3. ASSUME UNCHANGED <<index, jobs, heartbeat, allocated, epochs, launches>>,
             pending' \in {pending, None},
             worker'.pc = worker.pc, worker'.active = worker.active,
             worker'.epoch = worker.epoch
      PROVE  QueueInv'
  BY <1>1, <1>3 DEF QueueInv, LockInv, WorkerInv, IndexInv, FreshInv, PristineInv,
     Initial, UnlaunchedInv, EpochInv, ActiveInv, LaunchedOnce, OwnedRun
<1>4. CASE InterruptGateway
  BY <1>3, <1>4 DEF InterruptGateway, store, beats, drawn
<1>5. ASSUME NEW e \in Epochs, Boot(e)
      PROVE  QueueInv'
  <2>1. /\ worker.pc = "down" /\ e \notin epochs /\ epochs' = epochs \cup {e}
        /\ worker'.pc = "sleep" /\ worker'.epoch = e /\ worker'.active = None
        /\ UNCHANGED <<index, jobs, heartbeat, pending, allocated, launches>>
    BY <1>5 DEF Boot, store, beats
  <2>2. OwnedRun'
    BY <2>1 DEF QueueInv, OwnedRun, EpochInv
  <2> QED BY <1>1, <2>1, <2>2 DEF QueueInv, LockInv, WorkerInv, IndexInv, FreshInv,
        PristineInv, Initial, UnlaunchedInv, EpochInv, ActiveInv, LaunchedOnce
<1>6. CASE WorkerDies
  <2>1. /\ worker'.pc = "down" /\ worker'.active = None
        /\ UNCHANGED <<index, jobs, heartbeat, pending, allocated, epochs, launches>>
    BY <1>2, <1>6 DEF WorkerDies, Worker, store, beats, drawn
  <2> QED BY <1>1, <2>1 DEF QueueInv, LockInv, WorkerInv, IndexInv, FreshInv,
        PristineInv, Initial, UnlaunchedInv, EpochInv, ActiveInv, LaunchedOnce, OwnedRun
<1>7. CASE Activate
  BY <1>3, <1>7 DEF Activate, store, beats, drawn
<1>8. CASE Rotate
  <2>1. /\ worker.pc = "down" /\ pending = None
        /\ \A n \in Nonces : index'[n] = None
        /\ \A j \in JobIds : jobs'[j] = None
        /\ heartbeat' = None
        /\ UNCHANGED <<worker, pending, allocated, epochs, launches>>
    BY <1>8 DEF Rotate, Quiescent, drawn
  <2>2. worker.active = None
    BY <2>1 DEF QueueInv, WorkerInv
  <2> QED BY <1>1, <2>1, <2>2 DEF QueueInv, LockInv, WorkerInv, IndexInv, FreshInv,
        PristineInv, UnlaunchedInv, EpochInv, ActiveInv, LaunchedOnce, OwnedRun
<1>9. CASE HeartbeatExpires
  BY <1>3, <1>9 DEF HeartbeatExpires, store, drawn
<1>10. CASE ChildExits \/ TimerExpires
  BY <1>2, <1>3, <1>10 DEF ChildExits, TimerExpires, Worker, store, beats, drawn
<1>11. CASE LoseRecord
  <2>1. /\ pending = None /\ worker.pc \in {"down", "sleep"}
        /\ UNCHANGED <<heartbeat, pending, worker, allocated, epochs, launches>>
    BY <1>11 DEF LoseRecord, StoreFree, beats, drawn
  <2>2. /\ \A n \in Nonces : index'[n] \in {index[n], None}
        /\ \A j \in JobIds : jobs'[j] \in {jobs[j], None}
    BY <1>11 DEF LoseRecord, QueueInv, TypeOK
  <2>3. IndexInv'
    BY <2>1, <2>2 DEF QueueInv, IndexInv
  <2>4. PristineInv'
    <3> SUFFICES ASSUME NEW n \in Nonces, index'[n] # None, index'[n].phase = "prepared"
                 PROVE  /\ launches[index'[n].job] = 0
                        /\ jobs'[index'[n].job] # None =>
                              jobs'[index'[n].job] = Initial(index'[n])
      BY <2>1 DEF PristineInv, Initial
    <3>1. index'[n] = index[n] /\ index[n].job \in JobIds
      BY <2>2 DEF QueueInv, TypeOK, Index
    <3> QED BY <2>2, <3>1 DEF QueueInv, PristineInv
  <2>5. FreshInv' /\ UnlaunchedInv' /\ EpochInv' /\ OwnedRun'
    BY <2>1, <2>2 DEF QueueInv, FreshInv, UnlaunchedInv, EpochInv, OwnedRun
  <2>6. ActiveInv'
    <3>1. worker.active # None => worker.active \in JobIds
      BY <1>2 DEF Worker
    <3> QED BY <2>1, <2>2, <3>1 DEF QueueInv, ActiveInv
  <2> QED BY <1>1, <2>1, <2>3, <2>4, <2>5, <2>6 DEF QueueInv, LockInv, WorkerInv,
        LaunchedOnce
<1>12. ASSUME NEW j \in JobIds, SubmissionAges(j)
       PROVE  QueueInv'
  BY <1>3, <1>12 DEF SubmissionAges, store, beats, drawn
<1> QED
  BY <1>4, <1>5, <1>6, <1>7, <1>8, <1>9, <1>10, <1>11, <1>12 DEF WorkerBoots

-----------------------------------------------------------------------------
(* The invariant of the whole queue, and what follows from it. *)

\* An empty queue, nobody at work.
LEMMA InitKeepsInv ==
    ASSUME Init
    PROVE  QueueInv
PROOF
<1> USE QueueAssumption, NoneIsNoRecord
<1>1. worker \in Worker
  BY DEF Init, Worker, DeploymentIds
<1>2. TypeOK
  <2>1. 1 \in DeploymentIds
    BY DEF DeploymentIds
  <2>2. /\ index \in [Nonces -> Index \cup {None}]
        /\ jobs \in [JobIds -> Job \cup {None}]
        /\ archived \in [Nonces -> Digests \cup {None}]
        /\ launches \in [JobIds -> Nat]
    BY DEF Init
  <2> QED BY <1>1, <2>1, <2>2 DEF Init, TypeOK
<1> QED
  BY <1>2 DEF Init, QueueInv, LockInv, WorkerInv, IndexInv, FreshInv, PristineInv,
     UnlaunchedInv, EpochInv, ActiveInv, LaunchedOnce, OwnedRun, Indexed, Existing

\* Without a change nothing changes.
LEMMA StutterKeepsInv ==
    ASSUME QueueInv, UNCHANGED vars
    PROVE  QueueInv'
BY DEF vars, store, beats, drawn, bounds, QueueInv, TypeOK, LockInv, WorkerInv,
   IndexInv, FreshInv, PristineInv, Initial, UnlaunchedInv, EpochInv, ActiveInv,
   LaunchedOnce, OwnedRun, Indexed, Existing

\* Every step keeps the invariant.
LEMMA StepKeepsInv ==
    ASSUME QueueInv, [Next]_vars
    PROVE  QueueInv'
PROOF
<1>1. CASE Submit
  BY <1>1, SubmitKeepsInv
<1>2. ASSUME NEW j \in JobIds, Start(j) \/ Cancel(j)
      PROVE  QueueInv'
  BY <1>2, ClientKeepsInv
<1>3. CASE WorkerStep
  BY <1>3, WorkerKeepsInv
<1>4. CASE \/ InterruptGateway \/ WorkerBoots \/ WorkerDies \/ Activate \/ Rotate
           \/ HeartbeatExpires \/ ChildExits \/ TimerExpires \/ LoseRecord
           \/ \E j \in JobIds : SubmissionAges(j)
  BY <1>4, OtherKeepsInv
<1>5. CASE UNCHANGED vars
  BY <1>5, StutterKeepsInv
<1> QED BY <1>1, <1>2, <1>3, <1>4, <1>5 DEF Next

\* Whatever gateways and workers do and wherever they are killed, the store
\* keeps the invariant that the service's guarantees rest on.
THEOREM QueueInvariant == Spec => []QueueInv
PROOF
<1>1. Init => QueueInv
  BY InitKeepsInv
<1>2. QueueInv /\ [Next]_vars => QueueInv'
  BY StepKeepsInv
<1> QED BY <1>1, <1>2, PTL DEF Spec

\* Every record written, and everything a process holds, has its type.
THEOREM TypeCorrect == Spec => []TypeOK
PROOF
<1>1. QueueInv => TypeOK
  BY DEF QueueInv
<1> QED BY <1>1, QueueInvariant, PTL

\* No job is executed twice, for any number of workers, kills, retries, lost
\* records and rotations: HEADLESS.md promises that an interrupted job is never
\* rerun.
THEOREM ExecutedOnce == Spec => []LaunchedOnce
PROOF
<1>1. QueueInv => LaunchedOnce
  BY DEF QueueInv
<1> QED BY <1>1, QueueInvariant, PTL

\* A job that runs under the epoch of the live worker is the one that worker
\* holds, so that there is always somebody to end it.
THEOREM RunIsOwned == Spec => []OwnedRun
PROOF
<1>1. QueueInv => OwnedRun
  BY DEF QueueInv
<1> QED BY <1>1, QueueInvariant, PTL

-----------------------------------------------------------------------------
(* What a step may do to one job: jobs and launches, point by point. *)

\* The record is written again, with its binding; the rest is as given.
Written(j, state, cancelRequested, exit, result) ==
    /\ jobs[j] \in Job /\ jobs'[j] \in Job
    /\ launches'[j] = launches[j]
    /\ jobs'[j].nonce = jobs[j].nonce
    /\ jobs'[j].digest = jobs[j].digest
    /\ jobs'[j].deployment = jobs[j].deployment
    /\ jobs'[j].state = state
    /\ jobs'[j].cancelRequested = cancelRequested
    /\ jobs'[j].exit = exit
    /\ jobs'[j].result = result

Untouched(j) == jobs'[j] = jobs[j] /\ launches'[j] = launches[j]

Created(j) ==
    /\ CreateJob
    /\ jobs[j] = None
    /\ j = index[pending].job
    /\ jobs'[j] = Initial(index[pending])
    /\ launches'[j] = launches[j]

Gone(j) == (Rotate \/ LoseRecord) /\ jobs'[j] = None /\ launches'[j] = launches[j]

Staled(j) ==
    /\ jobs[j].state \in {"submitted", "queued", "running"}
    /\ Written(j, "stale", jobs[j].cancelRequested, jobs[j].exit, jobs[j].result)

Queued(j) ==
    /\ Start(j) /\ WorkerAvailable
    /\ jobs[j].state = "submitted"
    /\ Written(j, "queued", jobs[j].cancelRequested, jobs[j].exit, jobs[j].result)
    /\ jobs'[j].epoch = heartbeat.epoch

Cancelled(j) ==
    /\ Written(j, IF jobs[j].state \in {"submitted", "queued"} THEN "cancelled" ELSE jobs[j].state,
               jobs[j].cancelRequested \/ jobs[j].state = "running", jobs[j].exit, jobs[j].result)
    /\ jobs[j].state \in Terminal =>
        jobs'[j] = [jobs[j] EXCEPT !.updated = jobs'[j].updated]

Claimed(j) ==
    /\ jobs[j].state = "queued"
    /\ Written(j, "running", jobs[j].cancelRequested, jobs[j].exit, jobs[j].result)

Executed(j) == jobs[j] # None /\ jobs[j].state = "running" /\ jobs'[j] = jobs[j] /\ launches[j] = 0 /\ launches'[j] = 1

NotStarted(j) ==
    /\ jobs[j].state = "running" /\ launches[j] = 0
    /\ Written(j, "failed", jobs[j].cancelRequested, jobs[j].exit, "failed")

Concluded(j) ==
    /\ jobs[j].state = "running" /\ launches[j] # 0
    /\ Verdict(jobs[j]) # "undecided"
    /\ \E final \in {Verdict(jobs[j]), "failed"} :
        Written(j, final, jobs[j].cancelRequested,
                IF jobs[j].cancelRequested \/ worker.late THEN jobs[j].exit ELSE worker.child, final)

Changed(j) ==
    \/ Untouched(j) \/ Created(j) \/ Gone(j) \/ Staled(j) \/ Queued(j) \/ Cancelled(j)
    \/ Claimed(j) \/ Executed(j) \/ NotStarted(j) \/ Concluded(j)

LEMMA RecordTypes ==
    ASSUME QueueInv
    PROVE  /\ worker \in Worker /\ jobs \in [JobIds -> Job \cup {None}]
           /\ index \in [Nonces -> Index \cup {None}] /\ launches \in [JobIds -> Nat]
           /\ pending \in Nonces \cup {None}
BY DEF QueueInv, TypeOK

\* One record is written and the others are not.
LEMMA OneRecord ==
    ASSUME QueueInv, NEW j \in JobIds, NEW v, jobs' = [jobs EXCEPT ![j] = v], UNCHANGED launches,
           jobs'[j] = v => Changed(j)
    PROVE  \A k \in JobIds : Changed(k)
BY RecordTypes DEF Changed, Untouched

LEMMA ClientChanges ==
    ASSUME QueueInv, NEW j \in JobIds, Start(j) \/ Cancel(j)
    PROVE  \A k \in JobIds : Changed(k)
PROOF
<1>0. jobs[j] \in Job
  BY NoneIsNoRecord, RecordTypes DEF Start, Cancel, Accessible
<1>1. CASE Start(j)
  <2>1. jobs[j].state = "submitted"
    BY <1>1 DEF Start
  <2>2. CASE WriteJob(j, [jobs[j] EXCEPT !.state = "stale", !.updated = TRUE])
    <3> DEFINE v == [jobs[j] EXCEPT !.state = "stale", !.updated = TRUE]
    <3>1. v \in Job
      BY <1>0, StateUpdate DEF JobStates, Terminal
    <3>2. /\ v.nonce = jobs[j].nonce /\ v.digest = jobs[j].digest /\ v.deployment = jobs[j].deployment
          /\ v.state = "stale" /\ v.cancelRequested = jobs[j].cancelRequested
          /\ v.exit = jobs[j].exit /\ v.result = jobs[j].result
      BY <1>0 DEF Job
    <3>3. jobs' = [jobs EXCEPT ![j] = v] /\ UNCHANGED launches
      BY <2>2 DEF WriteJob
    <3> HIDE DEF v
    <3>4. jobs'[j] = v => Staled(j)
      BY <1>0, <2>1, <3>1, <3>2, <3>3 DEF Staled, Written
    <3> QED BY <3>3, <3>4, OneRecord DEF Changed
  <2>3. CASE /\ WorkerAvailable
             /\ WriteJob(j, [jobs[j] EXCEPT !.state = "queued", !.updated = TRUE,
                                            !.epoch = heartbeat.epoch,
                                            !.execution = @ + 1])
    <3> DEFINE v == [jobs[j] EXCEPT !.state = "queued", !.updated = TRUE,
                                    !.epoch = heartbeat.epoch,
                                    !.execution = jobs[j].execution + 1]
    <3>1. v \in Job
      <4>1. heartbeat.epoch \in Epochs
        BY <2>3 DEF WorkerAvailable, QueueInv, TypeOK
      <4> QED BY <1>0, <4>1, StartUpdate
    <3>2. /\ v.nonce = jobs[j].nonce /\ v.digest = jobs[j].digest /\ v.deployment = jobs[j].deployment
          /\ v.state = "queued" /\ v.cancelRequested = jobs[j].cancelRequested
          /\ v.exit = jobs[j].exit /\ v.result = jobs[j].result /\ v.epoch = heartbeat.epoch
      BY <1>0 DEF Job
    <3>3. jobs' = [jobs EXCEPT ![j] = v] /\ UNCHANGED launches
      BY <2>3 DEF WriteJob
    <3> HIDE DEF v
    <3>4. jobs'[j] = v => Queued(j)
      BY <1>0, <1>1, <2>1, <2>3, <3>1, <3>2, <3>3 DEF Queued, Written
    <3> QED BY <3>3, <3>4, OneRecord DEF Changed
  <2> QED BY <1>1, <2>2, <2>3 DEF Start
<1>2. CASE Cancel(j)
  <2> DEFINE s == IF jobs[j].state \in {"submitted", "queued"} THEN "cancelled" ELSE jobs[j].state
             c == jobs[j].cancelRequested \/ jobs[j].state = "running"
             v == [jobs[j] EXCEPT !.state = s, !.cancelRequested = c, !.updated = TRUE]
  <2>1. s \in JobStates /\ c \in BOOLEAN
    BY <1>0 DEF Job, JobStates, Terminal
  <2>2. v \in Job
    BY <1>0, <2>1, CancelUpdate
  <2>3. jobs' = [jobs EXCEPT ![j] = v] /\ UNCHANGED launches
    BY <1>2 DEF Cancel, WriteJob
  <2>4. /\ v.nonce = jobs[j].nonce /\ v.digest = jobs[j].digest /\ v.deployment = jobs[j].deployment
        /\ v.state = s /\ v.cancelRequested = c
        /\ v.exit = jobs[j].exit /\ v.result = jobs[j].result
    BY <1>0 DEF Job
  <2>5. jobs[j].state \in Terminal => v = [jobs[j] EXCEPT !.updated = v.updated]
    <3>1. ASSUME jobs[j].state \in Terminal
          PROVE  s = jobs[j].state /\ c = jobs[j].cancelRequested
      BY <1>0, <3>1 DEF Terminal, Job
    <3> QED BY <1>0, <3>1 DEF Job
  <2> HIDE DEF v
  <2>6. ASSUME jobs'[j] = v
        PROVE  Cancelled(j)
    <3> HIDE DEF s, c
    <3>1. Written(j, s, c, jobs[j].exit, jobs[j].result)
      BY <1>0, <2>2, <2>3, <2>4, <2>6, Zenon DEF Written
    <3>2. jobs[j].state \in Terminal => jobs'[j] = [jobs[j] EXCEPT !.updated = jobs'[j].updated]
      BY <2>5, <2>6, Zenon
    <3> QED BY <3>1, <3>2, Zenon DEF Cancelled, s, c
  <2> QED BY <2>3, <2>6, OneRecord DEF Changed
<1> QED BY <1>1, <1>2
LEMMA WorkerChanges ==
    ASSUME QueueInv, WorkerStep
    PROVE  \A k \in JobIds : Changed(k)
PROOF
<1>0. /\ worker \in Worker /\ jobs \in [JobIds -> Job \cup {None}]
      /\ launches \in [JobIds -> Nat]
  BY RecordTypes
<1>1. CASE Beat \/ KeepWaiting \/ EndScan
  <2>1. UNCHANGED <<jobs, launches>>
    BY <1>1 DEF Beat, KeepWaiting, EndScan, store
  <2> QED BY <2>1 DEF Changed, Untouched
<1>2. CASE Conclude
  <2> DEFINE a == worker.active
             x == IF jobs[a].cancelRequested \/ worker.late THEN jobs[a].exit ELSE worker.child
  <2>1. /\ a \in JobIds /\ jobs[a] \in Job /\ jobs[a] # None
        /\ jobs[a].state = "running" /\ launches[a] # 0 /\ UNCHANGED launches
    BY <1>0, <1>2 DEF Conclude, QueueInv, WorkerInv, ActiveInv, Worker
  <2>2. PICK final \in {Verdict(jobs[a]), "failed"} :
          jobs' = [jobs EXCEPT ![a] = [jobs[a] EXCEPT !.state = final, !.result = final,
                                                      !.updated = TRUE, !.exit = x]]
    BY <1>2 DEF Conclude
  <2>3. Verdict(jobs[a]) # "undecided" /\ x \in {"none", "ok", "bad"}
    BY <1>0, <1>2, <2>1 DEF Conclude, Verdict, Worker, Job
  <2>4. final \in Terminal
    BY <2>2, <2>3 DEF Verdict, Terminal
  <2> DEFINE v == [jobs[a] EXCEPT !.state = final, !.result = final, !.updated = TRUE, !.exit = x]
  <2> HIDE DEF x
  <2>5. v \in Job
    BY <2>1, <2>3, <2>4, OutcomeUpdate
  <2>6. /\ v.nonce = jobs[a].nonce /\ v.digest = jobs[a].digest /\ v.deployment = jobs[a].deployment
        /\ v.state = final /\ v.cancelRequested = jobs[a].cancelRequested
        /\ v.exit = x /\ v.result = final
    BY <2>1 DEF Job
  <2> HIDE DEF v
  <2>7. ASSUME jobs'[a] = v
        PROVE  Concluded(a)
    <3>1. Written(a, final, jobs[a].cancelRequested, x, final)
      BY <2>1, <2>5, <2>6, <2>7 DEF Written
    <3> QED BY <2>1, <2>2, <2>3, <3>1, Zenon DEF Concluded, x
  <2>8. jobs' = [jobs EXCEPT ![a] = v]
    BY <2>2 DEF v
  <2> QED BY <2>1, <2>7, <2>8, OneRecord DEF Changed
<1>3. ASSUME NEW j \in JobIds, MarkStale(j)
      PROVE  \A k \in JobIds : Changed(k)
  <2> DEFINE v == [jobs[j] EXCEPT !.state = "stale", !.updated = TRUE]
  <2>1. /\ jobs[j] \in Job /\ jobs[j].state \in {"queued", "running"} /\ UNCHANGED launches
    BY <1>0, <1>3 DEF MarkStale, Orphaned
  <2>2. v \in Job
    BY <2>1, StateUpdate DEF JobStates, Terminal
  <2>3. /\ v.nonce = jobs[j].nonce /\ v.digest = jobs[j].digest /\ v.deployment = jobs[j].deployment
        /\ v.state = "stale" /\ v.cancelRequested = jobs[j].cancelRequested
        /\ v.exit = jobs[j].exit /\ v.result = jobs[j].result
    BY <2>1 DEF Job
  <2>4. jobs' = [jobs EXCEPT ![j] = v]
    BY <1>0, <1>3, <2>1 DEF MarkStale
  <2> HIDE DEF v
  <2>5. jobs'[j] = v => Staled(j)
    BY <2>1, <2>2, <2>3 DEF Staled, Written
  <2> QED BY <2>1, <2>4, <2>5, OneRecord DEF Changed
<1>4. ASSUME NEW j \in JobIds, Claim(j)
      PROVE  \A k \in JobIds : Changed(k)
  <2> DEFINE v == [jobs[j] EXCEPT !.state = "running", !.updated = TRUE]
  <2>1. /\ jobs[j] \in Job /\ jobs[j].state = "queued" /\ UNCHANGED launches
    BY <1>0, <1>4 DEF Claim, Mine
  <2>2. v \in Job
    BY <2>1, StateUpdate DEF JobStates
  <2>3. /\ v.nonce = jobs[j].nonce /\ v.digest = jobs[j].digest /\ v.deployment = jobs[j].deployment
        /\ v.state = "running" /\ v.cancelRequested = jobs[j].cancelRequested
        /\ v.exit = jobs[j].exit /\ v.result = jobs[j].result
    BY <2>1 DEF Job
  <2>4. jobs' = [jobs EXCEPT ![j] = v]
    BY <1>0, <1>4, <2>1 DEF Claim
  <2> HIDE DEF v
  <2>5. jobs'[j] = v => Claimed(j)
    BY <2>1, <2>2, <2>3 DEF Claimed, Written
  <2> QED BY <2>1, <2>4, <2>5, OneRecord DEF Changed
<1>5. CASE Launch
  <2>1. /\ worker.active \in JobIds /\ jobs[worker.active] # None
        /\ jobs[worker.active].state = "running" /\ launches[worker.active] = 0
        /\ launches' = [launches EXCEPT ![worker.active] = launches[worker.active] + 1]
        /\ UNCHANGED jobs
    BY <1>0, <1>5 DEF Launch, QueueInv, WorkerInv, ActiveInv, Worker, store
  <2>2. /\ launches'[worker.active] = 1
        /\ \A k \in JobIds : k # worker.active => launches'[k] = launches[k]
    BY <1>0, <2>1
  <2> QED BY <2>1, <2>2 DEF Changed, Executed, Untouched
<1>6. CASE LaunchFails
  <2> DEFINE a == worker.active
             v == [jobs[a] EXCEPT !.state = "failed", !.result = "failed"]
  <2>1. /\ a \in JobIds /\ jobs[a] # None /\ jobs[a] \in Job
        /\ jobs[a].state = "running" /\ launches[a] = 0 /\ UNCHANGED launches
    BY <1>0, <1>6 DEF LaunchFails, QueueInv, WorkerInv, ActiveInv, Worker
  <2>2. v \in Job
    BY <2>1, FailureUpdate DEF Terminal
  <2>3. /\ v.nonce = jobs[a].nonce /\ v.digest = jobs[a].digest /\ v.deployment = jobs[a].deployment
        /\ v.state = "failed" /\ v.cancelRequested = jobs[a].cancelRequested
        /\ v.exit = jobs[a].exit /\ v.result = "failed"
    BY <2>1 DEF Job
  <2>4. jobs' = [jobs EXCEPT ![a] = v]
    <3>1. [[jobs EXCEPT ![a].state = "failed"] EXCEPT ![a].result = "failed"]
            = [jobs EXCEPT ![a] = v]
      BY <1>0, <2>1
    <3> QED BY <1>6, <3>1 DEF LaunchFails
  <2> HIDE DEF v
  <2>5. jobs'[a] = v => NotStarted(a)
    BY <2>1, <2>2, <2>3 DEF NotStarted, Written
  <2> QED BY <2>1, <2>4, <2>5, OneRecord DEF Changed
<1> QED BY <1>1, <1>2, <1>3, <1>4, <1>5, <1>6 DEF WorkerStep

LEMMA EveryChange ==
    ASSUME QueueInv, [Next]_vars
    PROVE  \A j \in JobIds : Changed(j)
PROOF
<1>1. ASSUME UNCHANGED <<jobs, launches>>
      PROVE  \A j \in JobIds : Changed(j)
  BY <1>1 DEF Changed, Untouched
<1>2. CASE Submit
  <2>1. CASE CreateJob
    <3>1. /\ pending \in Nonces /\ index[pending] \in Index /\ index[pending].job \in JobIds
          /\ jobs[index[pending].job] = None
          /\ jobs' = [jobs EXCEPT ![index[pending].job] = Initial(index[pending])]
          /\ UNCHANGED launches
      BY <2>1, RecordTypes DEF CreateJob, PublicationAction, QueueInv, LockInv, Index
    <3>2. jobs'[index[pending].job] = Initial(index[pending]) => Created(index[pending].job)
      BY <2>1, <3>1 DEF Created
    <3> QED BY <3>1, <3>2, OneRecord DEF Changed
  <2>2. CASE ~CreateJob
    <3>1. UNCHANGED <<jobs, launches>>
      BY <1>2, <2>2 DEF Submit, Prepare, Resume, Replay, Publish, Answer, store
    <3> QED BY <1>1, <3>1
  <2> QED BY <2>1, <2>2
<1>3. CASE Rotate \/ LoseRecord
  <2>1. UNCHANGED launches /\ \A j \in JobIds : jobs'[j] \in {jobs[j], None}
    BY <1>3, RecordTypes DEF Rotate, LoseRecord
  <2> QED BY <1>3, <2>1 DEF Changed, Untouched, Gone
<1>4. ASSUME NEW j \in JobIds, SubmissionAges(j)
      PROVE  UNCHANGED <<jobs, launches>>
  BY <1>4 DEF SubmissionAges, store
<1>5. CASE InterruptGateway \/ WorkerBoots \/ WorkerDies \/ Activate
           \/ HeartbeatExpires \/ ChildExits \/ TimerExpires \/ UNCHANGED vars
  <2>1. UNCHANGED <<jobs, launches>>
    BY <1>5 DEF InterruptGateway, WorkerBoots, Boot, WorkerDies, Activate, HeartbeatExpires,
       ChildExits, TimerExpires, vars, store
  <2> QED BY <1>1, <2>1
<1> QED BY <1>1, <1>2, <1>3, <1>4, <1>5, ClientChanges, WorkerChanges DEF Next
-----------------------------------------------------------------------------
(* Results. *)

\* What OutcomeTruthful says of one job.
Truthful(j) ==
    LET job == jobs[j] IN
    /\ job.state = "completed" => job.exit = "ok" /\ launches[j] = 1
    /\ job.exit # "none" => job.state \in {"completed", "failed"}
    /\ job.result # "none" => job.result = job.state
    /\ job.cancelRequested => job.state \notin {"completed", "timed_out"}
    /\ /\ job.state \in Terminal
       /\ job.result = "none"
       => job.state = "stale" \/ launches[j] = 0

LEMMA TruthfulStep ==
    ASSUME QueueInv, OutcomeTruthful, NEW j \in JobIds, Changed(j), jobs'[j] # None
    PROVE  Truthful(j)'
PROOF
<1>0. /\ worker \in Worker /\ launches[j] \in Nat /\ (jobs[j] # None => jobs[j] \in Job)
      /\ launches[j] <= 1
      /\ jobs[j] # None /\ jobs[j].state \in {"submitted", "queued"} => launches[j] = 0
  BY RecordTypes DEF QueueInv, LaunchedOnce, UnlaunchedInv, Existing
<1>1. jobs[j] # None => Truthful(j)
  BY DEF OutcomeTruthful, Truthful, Existing
<1>2. None \notin Job
  BY NoneIsNoRecord
<1>3. CASE Untouched(j)
  BY <1>1, <1>3 DEF Untouched, Truthful
<1>4. CASE Created(j)
  <2>1. /\ jobs'[j].state = "submitted" /\ jobs'[j].exit = "none" /\ jobs'[j].result = "none"
        /\ jobs'[j].cancelRequested = FALSE
    BY <1>4 DEF Created, Initial
  <2> QED BY <2>1 DEF Truthful, Terminal
<1>5. CASE Gone(j)
  BY <1>5 DEF Gone
<1>6. ASSUME Staled(j) \/ Queued(j) \/ Claimed(j)
      PROVE  Truthful(j)'
  <2>1. /\ jobs[j] \in Job /\ launches'[j] = launches[j]
        /\ jobs[j].state \in {"submitted", "queued", "running"}
        /\ jobs'[j].state \in {"stale", "queued", "running"}
        /\ jobs'[j].exit = jobs[j].exit /\ jobs'[j].result = jobs[j].result
    BY <1>6 DEF Staled, Queued, Claimed, Written
  <2>2. jobs[j].exit = "none" /\ jobs[j].result = "none"
    BY <1>1, <1>2, <2>1 DEF Truthful, Job, Terminal
  <2> QED BY <2>1, <2>2 DEF Truthful, Terminal
<1>7. CASE Cancelled(j)
  <2>1. /\ jobs[j] \in Job /\ launches'[j] = launches[j]
        /\ jobs'[j].state = IF jobs[j].state \in {"submitted", "queued"} THEN "cancelled" ELSE jobs[j].state
        /\ jobs'[j].cancelRequested => jobs[j].cancelRequested \/ jobs[j].state = "running"
        /\ jobs'[j].exit = jobs[j].exit /\ jobs'[j].result = jobs[j].result
    BY <1>7 DEF Cancelled, Written
  <2>2. CASE jobs[j].state \in {"submitted", "queued"}
    <3>1. jobs[j].exit = "none" /\ jobs[j].result = "none" /\ launches[j] = 0
      BY <1>0, <1>1, <1>2, <2>1, <2>2 DEF Truthful, Job, Terminal
    <3> QED BY <2>1, <2>2, <3>1 DEF Truthful, Terminal
  <2>3. CASE jobs[j].state \notin {"submitted", "queued"}
    BY <1>1, <1>2, <2>1, <2>3 DEF Truthful
  <2> QED BY <2>2, <2>3
<1>8. CASE Executed(j)
  <2>1. jobs[j] \in Job
    BY <1>0, <1>8 DEF Executed
  <2> QED BY <1>1, <1>8, <2>1 DEF Executed, Truthful, Terminal
<1>9. CASE NotStarted(j)
  <2>1. /\ jobs[j] \in Job /\ jobs[j].state = "running"
        /\ jobs'[j].state = "failed" /\ jobs'[j].result = "failed"
    BY <1>9 DEF NotStarted, Written
  <2> QED BY <2>1 DEF Truthful, Terminal
<1>10. CASE Concluded(j)
  <2>1. PICK final \in {Verdict(jobs[j]), "failed"} :
          Written(j, final, jobs[j].cancelRequested,
                  IF jobs[j].cancelRequested \/ worker.late THEN jobs[j].exit ELSE worker.child, final)
    BY <1>10 DEF Concluded
  <2>2. /\ jobs[j] \in Job /\ jobs[j].state = "running" /\ launches'[j] = launches[j]
        /\ Verdict(jobs[j]) # "undecided" /\ launches[j] = 1
        /\ jobs'[j].state = final /\ jobs'[j].result = final
        /\ jobs'[j].cancelRequested = jobs[j].cancelRequested
        /\ jobs'[j].exit = IF jobs[j].cancelRequested \/ worker.late THEN jobs[j].exit ELSE worker.child
    BY <1>0, <1>10, <2>1 DEF Concluded, Written
  <2>3. jobs[j].exit = "none"
    BY <1>1, <1>2, <2>2 DEF Truthful
  <2>4. /\ jobs[j].cancelRequested => final \in {"cancelled", "failed"}
        /\ ~jobs[j].cancelRequested /\ worker.late => final \in {"timed_out", "failed"}
        /\ ~jobs[j].cancelRequested /\ ~worker.late =>
             \/ worker.child = "ok" /\ final \in {"completed", "failed"}
             \/ worker.child = "bad" /\ final = "failed"
    BY <2>2 DEF Verdict
  <2> QED BY <2>2, <2>3, <2>4 DEF Truthful, Terminal
<1> QED BY <1>3, <1>4, <1>5, <1>6, <1>7, <1>8, <1>9, <1>10 DEF Changed

\* What a terminal record tells of its execution is what happened, for any number
\* of workers, cancellations, deadlines and kills (the records written by
\* Update-ValidationActiveJob, cancel and the scan).
THEOREM ResultsTrue == Spec => []OutcomeTruthful
PROOF
<1>1. Init => OutcomeTruthful
  BY DEF Init, OutcomeTruthful, Existing
<1>2. QueueInv /\ OutcomeTruthful /\ [Next]_vars => OutcomeTruthful'
  <2> SUFFICES ASSUME QueueInv, OutcomeTruthful, [Next]_vars
               PROVE  OutcomeTruthful'
    OBVIOUS
  <2>1. \A j \in JobIds : jobs'[j] # None => Truthful(j)'
    BY EveryChange, TruthfulStep
  <2> QED BY <2>1 DEF OutcomeTruthful, Truthful, Existing
<1> QED BY <1>1, <1>2, QueueInvariant, PTL DEF Spec

\* A result that can be fetched is the same whenever it is fetched, until the
\* record is archived or lost.
THEOREM ResultsFinal == Spec => TerminalIsFinal
PROOF
<1>1. ASSUME QueueInv, [Next]_vars, NEW j \in JobIds, ResultsReady(j), jobs'[j] # None
      PROVE  jobs'[j] = [jobs[j] EXCEPT !.updated = jobs'[j].updated]
  <2>1. jobs[j] \in Job /\ jobs[j].state \in Terminal
    BY <1>1, RecordTypes DEF ResultsReady
  <2>2. jobs[j].state \notin {"submitted", "queued", "running"}
    BY <2>1 DEF Terminal
  <2>3. Untouched(j) \/ Cancelled(j)
    BY <1>1, <2>1, <2>2, EveryChange, NoneIsNoRecord
       DEF Changed, Created, Gone, Staled, Queued, Claimed, Executed, NotStarted, Concluded
  <2>4. CASE Untouched(j)
    BY <2>1, <2>4 DEF Untouched, Job
  <2>5. CASE Cancelled(j)
    BY <2>1, <2>5 DEF Cancelled
  <2> QED BY <2>3, <2>4, <2>5
<1>2. QueueInv /\ [Next]_vars =>
        [\A j \in JobIds : ResultsReady(j) /\ jobs'[j] # None
            => jobs'[j] = [jobs[j] EXCEPT !.updated = jobs'[j].updated]]_vars
  BY <1>1
<1> QED BY <1>2, QueueInvariant, PTL DEF Spec, TerminalIsFinal
-----------------------------------------------------------------------------
(* The deployment. *)

\* The heartbeat of the live worker tells its deployment.
BeatsTruly ==
    worker.pc # "down" /\ heartbeat # None /\ heartbeat.epoch = worker.epoch
        => heartbeat.deployment = worker.deployment

Booted == \E e \in Epochs : e \notin epochs /\ worker'.epoch = e

LEMMA SameWorker ==
    ASSUME QueueInv, [Next]_vars, worker'.pc # "down"
    PROVE  \/ /\ worker.pc # "down"
              /\ worker'.epoch = worker.epoch /\ worker'.deployment = worker.deployment
           \/ Booted /\ UNCHANGED <<jobs, heartbeat>>
PROOF
<1>0. worker \in Worker
  BY RecordTypes
<1>1. ASSUME UNCHANGED worker
      PROVE  /\ worker.pc # "down"
             /\ worker'.epoch = worker.epoch /\ worker'.deployment = worker.deployment
  BY <1>1
<1>2. CASE Submit \/ \E j \in JobIds : Start(j) \/ Cancel(j) \/ SubmissionAges(j)
  <2>1. UNCHANGED worker
    BY <1>2 DEF Submit, Prepare, Resume, Replay, CreateJob, Publish, Answer, Start, Cancel,
       SubmissionAges, WriteJob
  <2> QED BY <1>1, <2>1
<1>3. CASE InterruptGateway \/ Activate \/ Rotate \/ HeartbeatExpires \/ LoseRecord \/ UNCHANGED vars
  <2>1. UNCHANGED worker
    BY <1>3 DEF InterruptGateway, Activate, Rotate, HeartbeatExpires, LoseRecord, vars
  <2> QED BY <1>1, <2>1
<1>4. CASE WorkerStep \/ ChildExits \/ TimerExpires
  BY <1>0, <1>4 DEF WorkerStep, Beat, Conclude, KeepWaiting, MarkStale, Claim, Launch, LaunchFails,
     EndScan, ChildExits, TimerExpires, Worker
<1>5. CASE WorkerBoots
  BY <1>5 DEF WorkerBoots, Boot, Booted, store, beats
<1>6. CASE WorkerDies
  BY <1>0, <1>6 DEF WorkerDies, Worker
<1> QED BY <1>2, <1>3, <1>4, <1>5, <1>6 DEF Next

LEMMA SameHeartbeat ==
    ASSUME QueueInv, [Next]_vars
    PROVE  \/ UNCHANGED heartbeat \/ heartbeat' = None
           \/ heartbeat' = [epoch |-> worker.epoch, deployment |-> worker.deployment] /\ Beat
BY DEF Next, Submit, Prepare, Resume, Replay, CreateJob, Publish, Answer, InterruptGateway, Start,
   Cancel, WriteJob, SubmissionAges, WorkerBoots, Boot, WorkerStep, Beat, Conclude, KeepWaiting,
   MarkStale, Claim, Launch, LaunchFails, EndScan, WorkerDies, Activate, Rotate, HeartbeatExpires,
   ChildExits, TimerExpires, LoseRecord, beats, vars

LEMMA BeatsStep ==
    ASSUME QueueInv, BeatsTruly, [Next]_vars
    PROVE  BeatsTruly'
PROOF
<1> SUFFICES ASSUME worker'.pc # "down", heartbeat' # None, heartbeat'.epoch = worker'.epoch
             PROVE  heartbeat'.deployment = worker'.deployment
  BY DEF BeatsTruly
<1>1. CASE Booted /\ UNCHANGED heartbeat
  BY <1>1 DEF Booted, QueueInv, EpochInv
<1>2. CASE /\ worker.pc # "down"
           /\ worker'.epoch = worker.epoch /\ worker'.deployment = worker.deployment
  BY <1>2, SameHeartbeat DEF BeatsTruly
<1> QED BY <1>1, <1>2, SameWorker

LEMMA DispatchStep ==
    ASSUME QueueInv, BeatsTruly, DispatchMatchesDeployment, [Next]_vars
    PROVE  DispatchMatchesDeployment'
PROOF
<1> SUFFICES ASSUME worker'.pc # "down", NEW j \in JobIds, jobs'[j] # None,
                    jobs'[j].state = "queued", jobs'[j].epoch = worker'.epoch
             PROVE  jobs'[j].deployment = worker'.deployment
  BY DEF DispatchMatchesDeployment, Mine
<1>1. CASE Booted /\ UNCHANGED jobs
  <2>1. jobs[j].epoch \in Epochs \ epochs
    BY <1>1 DEF Booted
  <2> QED BY <1>1, <2>1, QueueAssumption DEF QueueInv, EpochInv, Existing
<1>2. CASE /\ worker.pc # "down"
           /\ worker'.epoch = worker.epoch /\ worker'.deployment = worker.deployment
  <2>1. Untouched(j) \/ Queued(j) \/ Cancelled(j) \/ Executed(j)
    <3>1. Changed(j)
      BY EveryChange
    <3>2. ~Created(j) /\ ~Gone(j)
      BY DEF Created, Gone, Initial
    <3>3. ~Staled(j) /\ ~Claimed(j) /\ ~NotStarted(j)
      BY DEF Staled, Claimed, NotStarted, Written
    <3>4. ~Concluded(j)
      BY DEF Concluded, Written, Verdict
    <3> QED BY <3>1, <3>2, <3>3, <3>4 DEF Changed
  <2>2. CASE Untouched(j) \/ Executed(j)
    BY <1>2, <2>2 DEF Untouched, Executed, DispatchMatchesDeployment, Mine
  <2>3. CASE Cancelled(j)
    BY <2>3 DEF Cancelled, Written
  <2>4. CASE Queued(j)
    <3>1. /\ heartbeat # None /\ heartbeat.deployment = deployment
          /\ jobs[j].deployment = deployment /\ jobs'[j].deployment = jobs[j].deployment
          /\ jobs'[j].epoch = heartbeat.epoch
      BY <2>4 DEF Queued, Written, Start, Accessible, WorkerAvailable
    <3> QED BY <1>2, <3>1 DEF BeatsTruly
  <2> QED BY <2>1, <2>2, <2>3, <2>4
<1> QED BY <1>1, <1>2, SameWorker

\* The worker never meets a queued job of its epoch that was made for another
\* deployment, which Start-ValidationJob could only answer by throwing.
THEOREM DispatchFits == Spec => []DispatchMatchesDeployment
PROOF
<1>1. Init => BeatsTruly /\ DispatchMatchesDeployment
  BY DEF Init, BeatsTruly, DispatchMatchesDeployment
<1>2. QueueInv /\ BeatsTruly /\ DispatchMatchesDeployment /\ [Next]_vars
        => (BeatsTruly /\ DispatchMatchesDeployment)'
  BY BeatsStep, DispatchStep
<1> QED BY <1>1, <1>2, QueueInvariant, PTL DEF Spec
-----------------------------------------------------------------------------
(* The quotas. *)

\* A new nonce gets an index.
Reserves(n) ==
    /\ StoreFree /\ index[n] = None /\ archived[n] = None
    /\ BelowJobQuota /\ BelowHistoryQuota /\ NoRecordOf(n)
    /\ pending' = n
    /\ index'[n] \in Index /\ index'[n].phase = "prepared" /\ index'[n].job \notin allocated
    /\ \A m \in Nonces : m # n => index'[m] = index[m]
    /\ UNCHANGED <<archived, jobs, answers, bounds>>

\* The index of the submission that holds the lock is published.
Publishes(n) ==
    /\ n = pending /\ index[n] # None /\ index[n].phase = "prepared"
    /\ jobs[index[n].job] = Initial(index[n])
    /\ index'[n] = [index[n] EXCEPT !.phase = "published"]
    /\ \A m \in Nonces : m # n => index'[m] = index[m]
    /\ UNCHANGED <<archived, jobs, pending, answers, bounds>>

LEMMA EveryIndex ==
    ASSUME QueueInv, [Next]_vars
    PROVE  \/ UNCHANGED <<index, archived>>
           \/ \E n \in Nonces : Reserves(n)
           \/ \E n \in Nonces : Publishes(n)
           \/ Rotate \/ LoseRecord
PROOF
<1>0. /\ index \in [Nonces -> Index \cup {None}] /\ pending \in Nonces \cup {None}
      /\ deployment \in DeploymentIds
  BY DEF QueueInv, TypeOK
<1>1. ASSUME NEW n \in Nonces, NEW d \in Digests, NEW j \in JobIds, Prepare(n, d, j)
      PROVE  Reserves(n)
  <2> DEFINE i == [phase |-> "prepared", job |-> j, nonce |-> n, digest |-> d,
                   deployment |-> deployment]
  <2>1. i \in Index /\ i.phase = "prepared" /\ i.job = j
    BY <1>0 DEF Index
  <2>2. index' = [index EXCEPT ![n] = i]
    BY <1>1 DEF Prepare
  <2> HIDE DEF i
  <2>3. index'[n] = i /\ \A m \in Nonces : m # n => index'[m] = index[m]
    BY <1>0, <2>2
  <2> QED BY <1>1, <2>1, <2>3 DEF Prepare, Reserves
<1>2. CASE Publish
  <2>1. /\ pending \in Nonces /\ index[pending] \in Index /\ index[pending] # None
    BY <1>0, <1>2, NoneIsNoRecord DEF Publish, QueueInv, LockInv
  <2>2. index[pending].phase = "prepared" /\ jobs[index[pending].job] = Initial(index[pending])
    BY <1>2 DEF Publish, PublicationAction
  <2>3. /\ index' = [index EXCEPT ![pending] = [index[pending] EXCEPT !.phase = "published"]]
        /\ UNCHANGED <<archived, jobs, pending, answers, bounds>>
    BY <1>2, <1>0 DEF Publish
  <2>4. /\ index'[pending] = [index[pending] EXCEPT !.phase = "published"]
        /\ \A m \in Nonces : m # pending => index'[m] = index[m]
    BY <1>0, <2>1, <2>3
  <2> QED BY <2>1, <2>2, <2>3, <2>4 DEF Publishes
<1>3. CASE Submit
  <2>1. ASSUME NEW n \in Nonces, NEW d \in Digests, Resume(n, d) \/ Replay(n, d)
        PROVE  UNCHANGED <<index, archived>>
    BY <2>1 DEF Resume, Replay, store
  <2>2. CreateJob \/ Answer => UNCHANGED <<index, archived>>
    BY DEF CreateJob, Answer, store
  <2> QED BY <1>1, <1>2, <1>3, <2>1, <2>2 DEF Submit
<1>4. ASSUME NEW j \in JobIds, Start(j) \/ Cancel(j) \/ SubmissionAges(j)
      PROVE  UNCHANGED <<index, archived>>
  BY <1>4 DEF Start, Cancel, WriteJob, SubmissionAges, store
<1>5. CASE WorkerStep
  BY <1>5 DEF WorkerStep, Beat, Conclude, KeepWaiting, MarkStale, Claim, Launch, LaunchFails,
     EndScan, store
<1>6. CASE InterruptGateway \/ WorkerBoots \/ WorkerDies \/ Activate
           \/ HeartbeatExpires \/ ChildExits \/ TimerExpires \/ UNCHANGED vars
  BY <1>6 DEF InterruptGateway, WorkerBoots, Boot, WorkerDies, Activate, HeartbeatExpires,
     ChildExits, TimerExpires, vars, store
<1> QED BY <1>3, <1>4, <1>5, <1>6 DEF Next

HistoryInv == IsFiniteSet(Archived) /\ IsFiniteSet(Indexed) /\ HistoryBounded

LEMMA HistoryStep ==
    ASSUME QueueInv, HistoryInv, [Next]_vars
    PROVE  HistoryInv'
PROOF
<1>0. /\ IsFiniteSet(Archived) /\ IsFiniteSet(Indexed) /\ Archived \cap Indexed = {}
      /\ Cardinality(Archived) + Cardinality(Indexed) <= MaxRequests
      /\ Cardinality(Archived) \in Nat /\ Cardinality(Indexed) \in Nat
  BY FS_CardinalityType DEF HistoryInv, HistoryBounded
<1>1. CASE UNCHANGED <<index, archived>>
  BY <1>0, <1>1 DEF HistoryInv, HistoryBounded, Archived, Indexed
<1>2. ASSUME NEW n \in Nonces, Reserves(n)
      PROVE  HistoryInv'
  <2>1. Archived' = Archived /\ Indexed' = Indexed \cup {n} /\ n \notin Archived
    BY <1>2, NoneIsNoRecord DEF Reserves, Archived, Indexed
  <2>2. Cardinality(Archived) + Cardinality(Indexed) < MaxRequests
    BY <1>2 DEF Reserves, BelowHistoryQuota
  <2>3. /\ IsFiniteSet(Indexed \cup {n})
        /\ Cardinality(Indexed \cup {n}) \in {Cardinality(Indexed), Cardinality(Indexed) + 1}
    BY <1>0, FS_AddElement
  <2>4. Cardinality(Archived) + Cardinality(Indexed \cup {n}) <= MaxRequests
    BY <1>0, <2>2, <2>3, QueueAssumption
  <2> QED BY <1>0, <2>1, <2>3, <2>4 DEF HistoryInv, HistoryBounded
<1>3. ASSUME NEW n \in Nonces, Publishes(n)
      PROVE  HistoryInv'
  <2>1. index[n] \in Index
    BY <1>3, RecordTypes DEF Publishes
  <2>2. index'[n] \in Index
    BY <1>3, <2>1 DEF Publishes, Index
  <2>3. Archived' = Archived /\ Indexed' = Indexed
    BY <1>3, <2>2, NoneIsNoRecord DEF Publishes, Archived, Indexed
  <2> QED BY <1>0, <2>3 DEF HistoryInv, HistoryBounded
<1>4. CASE Rotate
  <2>1. ASSUME NEW n \in Nonces
        PROVE  archived'[n] # None <=> archived[n] # None \/ index[n] # None
    <3>1. index[n] # None => index[n].digest # None
      BY RecordTypes, QueueAssumption DEF Index
    <3> QED BY <1>4, <3>1 DEF Rotate, Tombstone
  <2>2. Archived' = Archived \cup Indexed
    BY <2>1 DEF Archived, Indexed
  <2>3. Indexed' = {}
    BY <1>4 DEF Rotate, Indexed
  <2>4. IsFiniteSet(Archived \cup Indexed)
    BY <1>0, FS_Union
  <2>5. Cardinality(Archived \cup Indexed) <= MaxRequests
    BY <1>4 DEF Rotate
  <2>6. Cardinality(Archived \cup Indexed) \in Nat /\ Cardinality({}) = 0 /\ IsFiniteSet({})
    BY <2>4, FS_CardinalityType, FS_EmptySet
  <2> QED BY <2>2, <2>3, <2>4, <2>5, <2>6 DEF HistoryInv, HistoryBounded
<1>5. CASE LoseRecord
  <2>1. Archived' = Archived /\ Indexed' \in SUBSET Indexed
    BY <1>5, RecordTypes DEF LoseRecord, Archived, Indexed
  <2>2. /\ IsFiniteSet(Indexed') /\ Cardinality(Indexed') <= Cardinality(Indexed)
        /\ Cardinality(Indexed') \in Nat
    BY <1>0, <2>1, FS_Subset, FS_CardinalityType
  <2>3. Cardinality(Archived) + Cardinality(Indexed') <= MaxRequests
    BY <1>0, <2>2, QueueAssumption
  <2> QED BY <1>0, <2>1, <2>2, <2>3 DEF HistoryInv, HistoryBounded
<1> QED BY <1>1, <1>2, <1>3, <1>4, <1>5, EveryIndex

LEMMA HistoryInit ==
    ASSUME Init
    PROVE  HistoryInv
PROOF
<1>1. Archived = {} /\ Indexed = {}
  BY DEF Init, Archived, Indexed
<1> QED BY <1>1, FS_EmptySet, QueueAssumption DEF HistoryInv, HistoryBounded

\* Tombstones and live indexes never overlap, and together never exceed what the
\* next rotation can write down.
THEOREM HistoryFits == Spec => []HistoryBounded
PROOF
<1>1. Init => HistoryInv
  BY HistoryInit
<1>2. QueueInv /\ HistoryInv /\ [Next]_vars => HistoryInv'
  BY HistoryStep
<1>3. HistoryInv => HistoryBounded
  BY DEF HistoryInv
<1> QED BY <1>1, <1>2, <1>3, QueueInvariant, PTL DEF Spec
\* Submissions that were interrupted before they were published, and those that
\* still have to write their job.
Interrupted == {n \in Indexed : index[n].phase = "prepared" /\ n # pending}
Unwritten == {n \in Indexed : index[n].phase = "prepared" /\ jobs[index[n].job] = None}

\* Each interrupted submission was killed; each may still write one job.
QuotaInv ==
    /\ IsFiniteSet(Existing)
    /\ Cardinality(Interrupted) <= kills
    /\ Cardinality(Existing) + Cardinality(Unwritten) <= MaxJobs + kills

LEMMA QuotaSets ==
    ASSUME QueueInv, HistoryInv, QuotaInv
    PROVE  /\ IsFiniteSet(Indexed) /\ IsFiniteSet(Interrupted) /\ IsFiniteSet(Unwritten)
           /\ Cardinality(Interrupted) \in Nat /\ Cardinality(Unwritten) \in Nat
           /\ Cardinality(Existing) \in Nat /\ kills \in Nat /\ MaxJobs \in Nat
           /\ pending = None => Cardinality(Unwritten) <= kills
           /\ \A m, n \in Indexed : index[m].job = index[n].job => m = n
PROOF
<1>1. IsFiniteSet(Indexed)
  BY DEF HistoryInv
<1>2. Interrupted \in SUBSET Indexed /\ Unwritten \in SUBSET Indexed
  BY DEF Interrupted, Unwritten
<1>3. IsFiniteSet(Interrupted) /\ IsFiniteSet(Unwritten)
  BY <1>1, <1>2, FS_Subset
<1>4. pending = None => Unwritten \in SUBSET Interrupted
  BY QueueAssumption DEF Interrupted, Unwritten, Indexed
<1>5. /\ Cardinality(Interrupted) \in Nat /\ Cardinality(Unwritten) \in Nat
      /\ Cardinality(Existing) \in Nat /\ kills \in Nat /\ MaxJobs \in Nat
  BY <1>3, FS_CardinalityType, QueueAssumption DEF QuotaInv, QueueInv, TypeOK
<1>6. pending = None => Cardinality(Unwritten) <= Cardinality(Interrupted)
  BY <1>3, <1>4, FS_Subset
<1>7. pending = None => Cardinality(Unwritten) <= kills
  BY <1>5, <1>6 DEF QuotaInv
<1>8. \A m, n \in Indexed : index[m].job = index[n].job => m = n
  BY DEF QueueInv, IndexInv
<1> QED BY <1>1, <1>3, <1>5, <1>7, <1>8

\* Fewer jobs, or fewer of those that may come.
LEMMA QuotaShrinks ==
    ASSUME QueueInv, HistoryInv, QuotaInv, kills' \in Nat, kills <= kills',
           Existing' \subseteq Existing, Unwritten' \subseteq Unwritten,
           \/ Interrupted' \subseteq Interrupted
           \/ \E n : Interrupted' \subseteq Interrupted \cup {n} /\ kills' = kills + 1
    PROVE  QuotaInv'
PROOF
<1>1. /\ IsFiniteSet(Existing') /\ Cardinality(Existing') <= Cardinality(Existing)
      /\ Cardinality(Unwritten') <= Cardinality(Unwritten)
      /\ Cardinality(Existing') \in Nat /\ Cardinality(Unwritten') \in Nat
  <2>1. IsFiniteSet(Existing') /\ Cardinality(Existing') <= Cardinality(Existing)
    BY FS_Subset DEF QuotaInv
  <2>2. IsFiniteSet(Unwritten') /\ Cardinality(Unwritten') <= Cardinality(Unwritten)
    BY QuotaSets, FS_Subset
  <2> QED BY <2>1, <2>2, FS_CardinalityType
<1>2. Cardinality(Interrupted') <= kills'
  <2>1. CASE Interrupted' \subseteq Interrupted
    <3>1. IsFiniteSet(Interrupted') /\ Cardinality(Interrupted') <= Cardinality(Interrupted)
      BY <2>1, QuotaSets, FS_Subset
    <3>2. Cardinality(Interrupted') \in Nat
      BY <3>1, FS_CardinalityType
    <3> QED BY <3>1, <3>2, QuotaSets DEF QuotaInv
  <2>2. ASSUME NEW n, Interrupted' \subseteq Interrupted \cup {n}, kills' = kills + 1
        PROVE  Cardinality(Interrupted') <= kills'
    <3>1. /\ IsFiniteSet(Interrupted \cup {n})
          /\ Cardinality(Interrupted \cup {n}) \in {Cardinality(Interrupted), Cardinality(Interrupted) + 1}
      BY QuotaSets, FS_AddElement
    <3>2. /\ IsFiniteSet(Interrupted')
          /\ Cardinality(Interrupted') <= Cardinality(Interrupted \cup {n})
      BY <2>2, <3>1, FS_Subset
    <3>3. Cardinality(Interrupted') \in Nat
      BY <3>2, FS_CardinalityType
    <3>4. Cardinality(Interrupted) <= kills
      BY DEF QuotaInv
    <3> QED BY <2>2, <3>1, <3>2, <3>3, <3>4, QuotaSets
  <2> QED BY <2>1, <2>2
<1>3. Cardinality(Existing) + Cardinality(Unwritten) <= MaxJobs + kills
  BY DEF QuotaInv
<1>4. Cardinality(Existing') + Cardinality(Unwritten') <= MaxJobs + kills'
  BY <1>1, <1>3, QuotaSets
<1> QED BY <1>1, <1>2, <1>4 DEF QuotaInv

\* How store.lock passes from one submission to another.
LEMMA EveryPending ==
    ASSUME QueueInv, [Next]_vars
    PROVE  \/ UNCHANGED <<pending, kills>>
           \/ pending = None /\ UNCHANGED kills
           \/ InterruptGateway
           \/ Answer
BY DEF Next, Submit, Prepare, Resume, Replay, CreateJob, Publish, Answer, InterruptGateway, Start,
   Cancel, WriteJob, SubmissionAges, WorkerBoots, Boot, WorkerStep, Beat, Conclude, KeepWaiting,
   MarkStale, Claim, Launch, LaunchFails, EndScan, WorkerDies, Activate, Rotate, HeartbeatExpires,
   ChildExits, TimerExpires, LoseRecord, bounds, vars, StoreFree, Quiescent
\* Only a submission creates a record; only a rotation or a loss removes one.
LEMMA SameRecords ==
    ASSUME QueueInv, [Next]_vars, ~CreateJob, ~Rotate, ~LoseRecord
    PROVE  \A j \in JobIds : jobs'[j] = None <=> jobs[j] = None
PROOF
<1> SUFFICES ASSUME NEW j \in JobIds
             PROVE  jobs'[j] = None <=> jobs[j] = None
  OBVIOUS
<1>1. Changed(j) /\ ~Created(j) /\ ~Gone(j)
  BY EveryChange DEF Created, Gone
<1>2. ASSUME jobs[j] \in Job, jobs'[j] \in Job
      PROVE  jobs'[j] = None <=> jobs[j] = None
  BY <1>2, NoneIsNoRecord
<1>3. CASE Untouched(j) \/ Executed(j)
  BY <1>3 DEF Untouched, Executed
<1>4. CASE Staled(j) \/ Queued(j) \/ Cancelled(j) \/ Claimed(j) \/ NotStarted(j) \/ Concluded(j)
  <2>1. jobs[j] \in Job /\ jobs'[j] \in Job
    BY <1>4 DEF Staled, Queued, Cancelled, Claimed, NotStarted, Concluded, Written
  <2> QED BY <1>2, <2>1
<1> QED BY <1>1, <1>3, <1>4 DEF Changed

LEMMA QuotaKeptByIndex ==
    ASSUME QueueInv, HistoryInv, QuotaInv, [Next]_vars, UNCHANGED index, ~Rotate, ~LoseRecord
    PROVE  QuotaInv'
PROOF
<1>1. /\ kills' \in Nat /\ kills <= kills'
      /\ \/ Interrupted' \subseteq Interrupted
         \/ \E n : Interrupted' \subseteq Interrupted \cup {n} /\ kills' = kills + 1
  <2>0. kills \in Nat /\ index \in [Nonces -> Index \cup {None}] /\ pending \in Nonces \cup {None}
        /\ None \notin Nonces
    BY QueueAssumption DEF QueueInv, TypeOK
  <2>1. CASE UNCHANGED <<pending, kills>>
    BY <2>0, <2>1 DEF Interrupted, Indexed
  <2>2. CASE pending = None /\ UNCHANGED kills
    BY <2>0, <2>2 DEF Interrupted, Indexed
  <2>3. CASE InterruptGateway
    <3>1. kills' = kills + 1 /\ pending' = None
      BY <2>3 DEF InterruptGateway
    <3>2. Interrupted' \subseteq Interrupted \cup {pending}
      BY <2>0, <3>1 DEF Interrupted, Indexed
    <3> QED BY <2>0, <3>1, <3>2
  <2>4. CASE Answer
    <3>1. kills' = kills /\ pending' = None /\ index[pending].phase = "published"
      BY <2>4 DEF Answer, bounds
    <3>2. Interrupted' \subseteq Interrupted
      BY <2>0, <3>1 DEF Interrupted, Indexed
    <3> QED BY <2>0, <3>1, <3>2
  <2> QED BY <2>1, <2>2, <2>3, <2>4, EveryPending
<1>2. CASE CreateJob
  <2> DEFINE a == index[pending].job
  <2>1. /\ pending \in Nonces /\ index[pending] \in Index /\ index[pending] # None
        /\ a \in JobIds /\ jobs[a] = None /\ index[pending].phase = "prepared"
        /\ jobs' = [jobs EXCEPT ![a] = Initial(index[pending])]
        /\ UNCHANGED <<pending, kills>>
    BY <1>2, RecordTypes DEF CreateJob, PublicationAction, QueueInv, LockInv, Index, bounds
  <2>2. jobs'[a] # None /\ \A j \in JobIds : j # a => jobs'[j] = jobs[j]
    <3>1. Initial(index[pending]).epoch = None
      BY DEF Initial
    <3>2. Initial(index[pending]) \in Job
      BY <2>1 DEF Initial, Index, Job, JobStates
    <3> QED BY <2>1, <3>2, NoneIsNoRecord, RecordTypes
  <2>3. Existing' = Existing \cup {a} /\ a \notin Existing
    BY <2>1, <2>2 DEF Existing
  <2>4. pending \in Unwritten
    BY <2>1 DEF Unwritten, Indexed
  <2>5. Unwritten' \subseteq Unwritten \ {pending}
    <3> SUFFICES ASSUME NEW n \in Unwritten'
                 PROVE  n \in Unwritten /\ n # pending
      OBVIOUS
    <3>1. /\ n \in Indexed /\ index[n].phase = "prepared" /\ index[n] \in Index
          /\ jobs'[index[n].job] = None
      BY RecordTypes DEF Unwritten, Indexed
    <3>2. index[n].job \in JobIds /\ index[n].job # a
      BY <2>2, <3>1 DEF Index
    <3> QED BY <2>2, <3>1, <3>2 DEF Unwritten
  <2>6. IsFiniteSet(Existing \cup {a}) /\ Cardinality(Existing \cup {a}) = Cardinality(Existing) + 1
    BY <2>3, FS_AddElement DEF QuotaInv
  <2>7. /\ IsFiniteSet(Unwritten \ {pending})
        /\ Cardinality(Unwritten \ {pending}) = Cardinality(Unwritten) - 1
    BY <2>4, QuotaSets, FS_RemoveElement
  <2>8. /\ IsFiniteSet(Unwritten') /\ Cardinality(Unwritten') <= Cardinality(Unwritten \ {pending})
    BY <2>5, <2>7, FS_Subset
  <2>9. Cardinality(Unwritten') \in Nat
    BY <2>8, FS_CardinalityType
  <2>10. Interrupted' = Interrupted
    BY <2>1 DEF Interrupted, Indexed
  <2>11. Cardinality(Existing') + Cardinality(Unwritten') <= MaxJobs + kills'
    <3> HIDE DEF a
    <3>1. Cardinality(Existing) + Cardinality(Unwritten) <= MaxJobs + kills
      BY DEF QuotaInv
    <3> QED BY <2>1, <2>3, <2>6, <2>7, <2>8, <2>9, <3>1, QuotaSets
  <2> QED BY <2>1, <2>3, <2>6, <2>10, <2>11 DEF QuotaInv
<1>3. CASE ~CreateJob
  <2>1. \A j \in JobIds : jobs'[j] = None <=> jobs[j] = None
    BY <1>3, SameRecords
  <2>2. Existing' \subseteq Existing
    BY <2>1 DEF Existing
  <2>3. Unwritten' \subseteq Unwritten
    <3> SUFFICES ASSUME NEW n \in Unwritten'
                 PROVE  n \in Unwritten
      OBVIOUS
    <3>1. /\ n \in Indexed /\ index[n].phase = "prepared" /\ index[n].job \in JobIds
          /\ jobs'[index[n].job] = None
      BY RecordTypes DEF Unwritten, Indexed, Index
    <3> QED BY <2>1, <3>1 DEF Unwritten
  <2> QED BY <1>1, <2>2, <2>3, QuotaShrinks
<1> QED BY <1>2, <1>3

\* What is reserved may be written once, and the quota was checked for it.
LEMMA QuotaKeptByReservation ==
    ASSUME QueueInv, HistoryInv, QuotaInv, NEW n \in Nonces, Reserves(n)
    PROVE  QuotaInv'
PROOF
<1>1. /\ pending = None /\ index[n] = None /\ pending' = n
      /\ Cardinality(Existing) < MaxJobs /\ UNCHANGED <<jobs, kills>>
      /\ \A m \in Nonces : m # n => index'[m] = index[m]
  BY DEF Reserves, StoreFree, BelowJobQuota, bounds
<1>2. Existing' = Existing
  BY <1>1 DEF Existing
<1>3. Interrupted' \subseteq Interrupted
  BY <1>1, QueueAssumption DEF Interrupted, Indexed
<1>4. Unwritten' \subseteq Unwritten \cup {n}
  BY <1>1 DEF Unwritten, Indexed
<1>5. /\ IsFiniteSet(Unwritten \cup {n})
      /\ Cardinality(Unwritten \cup {n}) <= Cardinality(Unwritten) + 1
  <2>1. /\ IsFiniteSet(Unwritten \cup {n})
        /\ Cardinality(Unwritten \cup {n}) \in {Cardinality(Unwritten), Cardinality(Unwritten) + 1}
    BY QuotaSets, FS_AddElement
  <2> QED BY <2>1, QuotaSets
<1>6. /\ IsFiniteSet(Unwritten') /\ Cardinality(Unwritten') <= Cardinality(Unwritten \cup {n})
  BY <1>4, <1>5, FS_Subset
<1>7. Cardinality(Unwritten') \in Nat /\ Cardinality(Unwritten \cup {n}) \in Nat
  BY <1>5, <1>6, FS_CardinalityType
<1>8. Cardinality(Unwritten') <= kills + 1
  BY <1>1, <1>5, <1>6, <1>7, QuotaSets
<1>9. Cardinality(Existing') + Cardinality(Unwritten') <= MaxJobs + kills'
  BY <1>1, <1>2, <1>7, <1>8, QuotaSets
<1>10. IsFiniteSet(Interrupted') /\ Cardinality(Interrupted') <= Cardinality(Interrupted)
  BY <1>3, QuotaSets, FS_Subset
<1>11. Cardinality(Interrupted') \in Nat
  BY <1>10, FS_CardinalityType
<1>12. Cardinality(Interrupted) <= kills
  BY DEF QuotaInv
<1>13. Cardinality(Interrupted') <= kills'
  BY <1>1, <1>10, <1>11, <1>12, QuotaSets
<1> QED BY <1>2, <1>9, <1>13 DEF QuotaInv
LEMMA QuotaKeptByPublication ==
    ASSUME QueueInv, HistoryInv, QuotaInv, NEW n \in Nonces, Publishes(n)
    PROVE  QuotaInv'
PROOF
<1>1. /\ UNCHANGED <<jobs, pending, kills>> /\ index[n] \in Index
      /\ index'[n] = [index[n] EXCEPT !.phase = "published"]
      /\ \A m \in Nonces : m # n => index'[m] = index[m]
  BY RecordTypes DEF Publishes, bounds
<1>2. index'[n].phase = "published"
  BY <1>1 DEF Index
<1>3. /\ Existing' \subseteq Existing /\ Interrupted' \subseteq Interrupted
      /\ Unwritten' \subseteq Unwritten
  BY <1>1, <1>2 DEF Existing, Interrupted, Unwritten, Indexed
<1> QED BY <1>1, <1>3, QuotaSets, QuotaShrinks

\* A lost index takes its reservation along; a lost job may be written again by
\* the one submission it belongs to.
LEMMA QuotaKeptByLoss ==
    ASSUME QueueInv, HistoryInv, QuotaInv, LoseRecord
    PROVE  QuotaInv'
PROOF
<1>0. /\ UNCHANGED <<pending, kills>> /\ kills' \in Nat /\ kills <= kills'
      /\ index \in [Nonces -> Index \cup {None}] /\ jobs \in [JobIds -> Job \cup {None}]
  BY QuotaSets, RecordTypes DEF LoseRecord
<1>1. ASSUME NEW n \in Indexed, index' = [index EXCEPT ![n] = None], jobs' = jobs
      PROVE  QuotaInv'
  <2>1. \A m \in Nonces : index'[m] # None => index'[m] = index[m]
    BY <1>0, <1>1
  <2>2. /\ Existing' \subseteq Existing /\ Interrupted' \subseteq Interrupted
        /\ Unwritten' \subseteq Unwritten
    BY <1>0, <1>1, <2>1 DEF Existing, Interrupted, Unwritten, Indexed
  <2> QED BY <1>0, <2>2, QuotaShrinks
<1>2. ASSUME NEW j \in Existing, jobs' = [jobs EXCEPT ![j] = None], index' = index
      PROVE  QuotaInv'
  <2>1. /\ j \in JobIds /\ jobs'[j] = None
        /\ \A k \in JobIds : k # j => jobs'[k] = jobs[k]
    BY <1>0, <1>2 DEF Existing
  <2>2. Existing' = Existing \ {j}
    BY <2>1 DEF Existing
  <2>3. /\ IsFiniteSet(Existing \ {j}) /\ Cardinality(Existing \ {j}) = Cardinality(Existing) - 1
    BY <1>2, FS_RemoveElement DEF QuotaInv
  <2>4. Interrupted' = Interrupted
    BY <1>0, <1>2 DEF Interrupted, Indexed
  <2>5. \E n : Unwritten' \subseteq Unwritten \cup {n}
    <3>1. CASE \E n \in Indexed : index[n].job = j
      <4>1. PICK n \in Indexed : index[n].job = j
        BY <3>1
      <4>2. Unwritten' \subseteq Unwritten \cup {n}
        <5> SUFFICES ASSUME NEW m \in Unwritten', m # n
                     PROVE  m \in Unwritten
          OBVIOUS
        <5>1. /\ m \in Indexed /\ index[m].phase = "prepared" /\ index[m].job \in JobIds
              /\ jobs'[index[m].job] = None
          BY <1>0, <1>2 DEF Unwritten, Indexed, Index
        <5>2. index[m].job # j
          BY <4>1, <5>1, QuotaSets
        <5> QED BY <2>1, <5>1, <5>2 DEF Unwritten
      <4> QED BY <4>2
    <3>2. CASE ~ \E n \in Indexed : index[n].job = j
      <4>1. Unwritten' \subseteq Unwritten
        BY <1>0, <1>2, <2>1, <3>2 DEF Unwritten, Indexed, Index
      <4> QED BY <4>1
    <3> QED BY <3>1, <3>2
  <2>6. PICK n : Unwritten' \subseteq Unwritten \cup {n}
    BY <2>5
  <2>7. /\ IsFiniteSet(Unwritten \cup {n})
        /\ Cardinality(Unwritten \cup {n}) \in {Cardinality(Unwritten), Cardinality(Unwritten) + 1}
    BY QuotaSets, FS_AddElement
  <2>8. /\ IsFiniteSet(Unwritten') /\ Cardinality(Unwritten') <= Cardinality(Unwritten \cup {n})
    BY <2>6, <2>7, FS_Subset
  <2>9. Cardinality(Unwritten') \in Nat
    BY <2>8, FS_CardinalityType
  <2>10. Cardinality(Existing) + Cardinality(Unwritten) <= MaxJobs + kills
         /\ Cardinality(Interrupted) <= kills
    BY DEF QuotaInv
  <2>11. Cardinality(Existing') + Cardinality(Unwritten') <= MaxJobs + kills'
    BY <1>0, <2>2, <2>3, <2>7, <2>8, <2>9, <2>10, QuotaSets
  <2> QED BY <1>0, <2>2, <2>3, <2>4, <2>10, <2>11 DEF QuotaInv
<1> QED BY <1>1, <1>2 DEF LoseRecord

LEMMA QuotaStep ==
    ASSUME QueueInv, HistoryInv, QuotaInv, [Next]_vars
    PROVE  QuotaInv'
PROOF
<1>1. CASE Rotate
  <2>1. /\ Existing' = {} /\ Interrupted' = {} /\ Unwritten' = {} /\ UNCHANGED kills
    BY <1>1 DEF Rotate, Existing, Interrupted, Unwritten, Indexed
  <2> QED BY <2>1, FS_EmptySet, QuotaSets DEF QuotaInv
<1>2. CASE LoseRecord
  BY <1>2, QuotaKeptByLoss
<1>3. CASE UNCHANGED index /\ ~Rotate /\ ~LoseRecord
  BY <1>3, QuotaKeptByIndex
<1> QED BY <1>1, <1>2, <1>3, EveryIndex, QuotaKeptByReservation, QuotaKeptByPublication

\* The quota of jobs is exceeded by no more than the submissions that were
\* killed: it is checked for each reservation, and each reservation writes one
\* record, however often it is sent again.
THEOREM QuotaHolds == Spec => []JobQuota
PROOF
<1>1. Init => HistoryInv /\ QuotaInv
  <2> SUFFICES ASSUME Init
               PROVE  QuotaInv
    BY HistoryInit
  <2>1. Existing = {} /\ Interrupted = {} /\ Unwritten = {} /\ kills = 0
    BY DEF Init, Existing, Interrupted, Unwritten, Indexed
  <2> QED BY <2>1, FS_EmptySet, QueueAssumption DEF QuotaInv
<1>2. QueueInv /\ HistoryInv /\ QuotaInv /\ [Next]_vars => (HistoryInv /\ QuotaInv)'
  BY HistoryStep, QuotaStep
<1>3. QueueInv /\ HistoryInv /\ QuotaInv => JobQuota
  <2> SUFFICES ASSUME QueueInv, HistoryInv, QuotaInv
               PROVE  Cardinality(Existing) <= MaxJobs + kills
    BY DEF JobQuota
  <2>1. Cardinality(Existing) + Cardinality(Unwritten) <= MaxJobs + kills
    BY DEF QuotaInv
  <2> QED BY <2>1, QuotaSets
<1> QED BY <1>1, <1>2, <1>3, QueueInvariant, PTL DEF Spec

-----------------------------------------------------------------------------
(* One job for a request, and that job is kept. *)

\* The job of a published index is there, unless a record was lost.
PublishedInv ==
    losses = 0 => \A n \in Indexed : index[n].phase = "published" =>
        jobs[index[n].job] # None /\ SameBinding(index[n], jobs[index[n].job])

\* What is left of an answer: a tombstone, the index it was read from, or, when
\* that index was lost, the job that still bears its nonce.
Remembered(a) ==
    \/ archived[a[1]] = a[2]
    \/ /\ index[a[1]] # None /\ index[a[1]].phase = "published"
       /\ index[a[1]].digest = a[2] /\ index[a[1]].job = a[3]
    \/ /\ index[a[1]] = None /\ losses # 0
       /\ jobs[a[3]] # None /\ jobs[a[3]].nonce = a[1]

AnswerInv ==
    /\ PublishedInv
    /\ losses <= MaxLosses
    /\ OneJobPerRequest
    /\ \A a \in answers : Remembered(a)

\* The losses a queue survives: none, or a single one that no rotation follows.
Survivable == MaxLosses = 0 \/ (MaxLosses = 1 /\ MaxRotations = 0)

LEMMA EveryLoss ==
    ASSUME QueueInv, [Next]_vars
    PROVE  UNCHANGED losses \/ LoseRecord
BY DEF Next, Submit, Prepare, Resume, Replay, CreateJob, Publish, Answer, InterruptGateway, Start,
   Cancel, WriteJob, SubmissionAges, WorkerBoots, Boot, WorkerStep, Beat, Conclude, KeepWaiting,
   MarkStale, Claim, Launch, LaunchFails, EndScan, WorkerDies, Activate, Rotate, HeartbeatExpires,
   ChildExits, TimerExpires, bounds, vars

\* An answer tells what a published index says.
LEMMA EveryAnswer ==
    ASSUME QueueInv, [Next]_vars
    PROVE  \/ UNCHANGED answers
           \/ /\ UNCHANGED <<index, archived, jobs, losses>>
              /\ \E n \in Indexed :
                    /\ index[n].phase = "published"
                    /\ answers' = answers \cup {<<n, index[n].digest, index[n].job>>}
PROOF
<1>1. CASE Answer
  <2>1. pending \in Indexed
    BY <1>1, RecordTypes DEF Answer, QueueInv, LockInv, Indexed
  <2> QED BY <1>1, <2>1 DEF Answer, store, bounds
<1>2. ASSUME NEW n \in Nonces, NEW d \in Digests, Replay(n, d)
      PROVE  /\ UNCHANGED <<index, archived, jobs, losses>>
             /\ n \in Indexed /\ index[n].phase = "published"
             /\ answers' = answers \cup {<<n, index[n].digest, index[n].job>>}
  BY <1>2 DEF Replay, Retryable, PublicationAction, Indexed, store, bounds
<1>3. CASE ~Answer /\ ~ \E n \in Nonces, d \in Digests : Replay(n, d)
  BY <1>3 DEF Next, Submit, Prepare, Resume, CreateJob, Publish, InterruptGateway, Start,
     Cancel, WriteJob, SubmissionAges, WorkerBoots, Boot, WorkerStep, Beat, Conclude, KeepWaiting,
     MarkStale, Claim, Launch, LaunchFails, EndScan, WorkerDies, Activate, Rotate,
     HeartbeatExpires, ChildExits, TimerExpires, LoseRecord, vars
<1> QED BY <1>1, <1>2, <1>3

\* A record keeps its binding as long as it is there.
LEMMA BindingKept ==
    ASSUME QueueInv, [Next]_vars, NEW j \in JobIds, jobs[j] # None
    PROVE  \/ Rotate \/ LoseRecord
           \/ /\ jobs'[j] # None /\ jobs'[j].nonce = jobs[j].nonce
              /\ jobs'[j].digest = jobs[j].digest /\ jobs'[j].deployment = jobs[j].deployment
PROOF
<1>1. Changed(j) /\ ~Created(j)
  BY EveryChange DEF Created
<1>2. CASE Untouched(j) \/ Executed(j)
  BY <1>2 DEF Untouched, Executed
<1>3. CASE Gone(j)
  BY <1>3 DEF Gone
<1>4. CASE Staled(j) \/ Queued(j) \/ Cancelled(j) \/ Claimed(j) \/ NotStarted(j) \/ Concluded(j)
  BY <1>4, NoneIsNoRecord
     DEF Staled, Queued, Cancelled, Claimed, NotStarted, Concluded, Written
<1> QED BY <1>1, <1>2, <1>3, <1>4 DEF Changed

LEMMA PublishedStep ==
    ASSUME QueueInv, PublishedInv, [Next]_vars
    PROVE  PublishedInv'
PROOF
<1> SUFFICES ASSUME losses' = 0, NEW n \in Indexed', index'[n].phase = "published"
             PROVE  /\ jobs'[index'[n].job] # None
                    /\ SameBinding(index'[n], jobs'[index'[n].job])
  BY DEF PublishedInv, SameBinding
<1>1. n \in Nonces /\ index'[n] # None
  BY DEF Indexed
<1>2. ~Rotate
  BY <1>1 DEF Rotate
<1>3. losses \in Nat /\ ~LoseRecord /\ losses = 0
  <2>1. losses \in Nat
    BY DEF QueueInv, TypeOK
  <2>2. ~LoseRecord
    BY <2>1 DEF LoseRecord
  <2> QED BY <2>1, <2>2, EveryLoss
<1>4. CASE index'[n] = index[n]
  <2>1. n \in Indexed /\ index[n] \in Index
    BY <1>1, <1>4, RecordTypes DEF Indexed
  <2>2. index[n].job \in JobIds
    BY <2>1 DEF Index
  <2>3. jobs[index[n].job] # None /\ SameBinding(index[n], jobs[index[n].job])
    BY <1>3, <1>4, <2>1 DEF PublishedInv
  <2> QED BY <1>2, <1>3, <1>4, <2>2, <2>3, BindingKept DEF SameBinding
<1>5. CASE index'[n] # index[n]
  <2>1. ~ \E m \in Nonces : Reserves(m)
    BY <1>1, <1>5 DEF Reserves
  <2>2. Publishes(n)
    BY <1>1, <1>2, <1>3, <1>5, <2>1, EveryIndex DEF Publishes
  <2>3. index[n] \in Index /\ jobs[index[n].job] = Initial(index[n])
    BY <1>1, <2>2, RecordTypes DEF Publishes
  <2>4. Initial(index[n]) \in Job
    BY <2>3 DEF Initial, Index, Job, JobStates
  <2>5. /\ index'[n].job = index[n].job /\ index'[n].nonce = index[n].nonce
        /\ index'[n].digest = index[n].digest /\ index'[n].deployment = index[n].deployment
        /\ jobs' = jobs
    BY <2>2, <2>3 DEF Publishes, Index
  <2> QED BY <2>3, <2>4, <2>5, NoneIsNoRecord DEF SameBinding, Initial
<1> QED BY <1>4, <1>5
\* What a step leaves of an answer given before it.
LEMMA RememberedStep ==
    ASSUME QueueInv, HistoryInv, AnswerInv, Survivable, [Next]_vars, NEW a \in answers
    PROVE  Remembered(a)'
PROOF
<1>0. /\ a[1] \in Nonces /\ a[3] \in JobIds /\ a[2] # None
      /\ losses \in Nat /\ MaxLosses \in Nat /\ losses <= MaxLosses
      /\ rotations \in Nat
  <2>1. a \in Nonces \X Digests \X JobIds
    BY DEF QueueInv, TypeOK
  <2> QED BY <2>1, QueueAssumption DEF QueueInv, TypeOK, AnswerInv
<1>1. CASE archived[a[1]] = a[2]
  <2>1. a[1] \in Archived /\ a[1] \notin Indexed
    BY <1>0, <1>1 DEF Archived, HistoryInv, HistoryBounded
  <2>2. archived'[a[1]] = archived[a[1]]
    <3>1. CASE Rotate
      BY <1>0, <2>1, <3>1 DEF Rotate, Tombstone, Indexed
    <3>2. CASE LoseRecord
      BY <3>2 DEF LoseRecord
    <3>3. CASE \E n \in Nonces : Reserves(n) \/ Publishes(n)
      BY <3>3 DEF Reserves, Publishes
    <3> QED BY <3>1, <3>2, <3>3, EveryIndex
  <2> QED BY <1>1, <2>2 DEF Remembered
<1>2. CASE /\ index[a[1]] # None /\ index[a[1]].phase = "published"
           /\ index[a[1]].digest = a[2] /\ index[a[1]].job = a[3]
  <2>1. CASE Rotate
    BY <1>0, <1>2, <2>1 DEF Rotate, Tombstone, Remembered
  <2>2. CASE LoseRecord
    <3>1. losses = 0 /\ losses' # 0
      BY <1>0, <2>2 DEF LoseRecord, Survivable
    <3>2. CASE index' = index
      BY <1>2, <3>2 DEF Remembered
    <3>3. ASSUME NEW n \in Indexed, index' = [index EXCEPT ![n] = None], jobs' = jobs
          PROVE  Remembered(a)'
      <4>1. CASE n # a[1]
        BY <1>0, <1>2, <3>3, <4>1, RecordTypes DEF Remembered
      <4>2. CASE n = a[1]
        <5>1. index'[a[1]] = None
          BY <1>0, <3>3, <4>2, RecordTypes
        <5>2. jobs[a[3]] # None /\ jobs[a[3]].nonce = index[a[1]].nonce
          BY <1>0, <1>2, <3>1 DEF AnswerInv, PublishedInv, Indexed, SameBinding
        <5>3. index[a[1]].nonce = a[1]
          BY <1>0, <1>2 DEF QueueInv, IndexInv, Indexed
        <5> QED BY <3>1, <3>3, <5>1, <5>2, <5>3 DEF Remembered
      <4> QED BY <4>1, <4>2
    <3> QED BY <2>2, <3>2, <3>3 DEF LoseRecord
  <2>3. ASSUME NEW n \in Nonces, Reserves(n) \/ Publishes(n)
        PROVE  index'[a[1]] = index[a[1]]
    BY <1>0, <1>2, <2>3 DEF Reserves, Publishes
  <2>4. CASE index'[a[1]] = index[a[1]]
    BY <1>2, <2>4 DEF Remembered
  <2> QED BY <2>1, <2>2, <2>3, <2>4, EveryIndex
<1>3. CASE /\ index[a[1]] = None /\ losses # 0
           /\ jobs[a[3]] # None /\ jobs[a[3]].nonce = a[1]
  <2>1. ~Rotate
    BY <1>0, <1>3, QueueAssumption DEF Rotate, Survivable
  <2>2. ~LoseRecord
    BY <1>0, <1>3 DEF LoseRecord, Survivable
  <2>3. losses' = losses /\ jobs'[a[3]] # None /\ jobs'[a[3]].nonce = a[1]
    BY <1>0, <1>3, <2>1, <2>2, EveryLoss, BindingKept
  <2>4. ASSUME NEW n \in Nonces, Reserves(n) \/ Publishes(n)
        PROVE  n # a[1]
    BY <1>0, <1>3, <2>4 DEF Reserves, Publishes, NoRecordOf, Existing
  <2>5. index'[a[1]] = None
    BY <1>0, <1>3, <2>1, <2>2, <2>4, EveryIndex DEF Reserves, Publishes
  <2> QED BY <1>3, <2>3, <2>5 DEF Remembered
<1> QED BY <1>1, <1>2, <1>3 DEF AnswerInv, Remembered

LEMMA AnswerStep ==
    ASSUME QueueInv, HistoryInv, AnswerInv, Survivable, [Next]_vars
    PROVE  AnswerInv'
PROOF
<1>1. PublishedInv'
  BY PublishedStep DEF AnswerInv
<1>2. losses' <= MaxLosses
  BY EveryLoss, QueueAssumption DEF AnswerInv, LoseRecord, QueueInv, TypeOK
<1>3. \A a \in answers : Remembered(a)'
  BY RememberedStep
<1>4. CASE UNCHANGED answers
  BY <1>1, <1>2, <1>3, <1>4 DEF AnswerInv, OneJobPerRequest, Remembered
<1>5. ASSUME UNCHANGED <<index, archived, jobs, losses>>, NEW n \in Indexed,
             index[n].phase = "published",
             answers' = answers \cup {<<n, index[n].digest, index[n].job>>}
      PROVE  AnswerInv'
  <2> DEFINE b == <<n, index[n].digest, index[n].job>>
  <2>1. n \in Nonces /\ index[n] # None /\ archived[n] = None
    BY <1>5 DEF Indexed, Archived, HistoryInv, HistoryBounded
  <2>2. Remembered(b)'
    BY <1>5, <2>1 DEF Remembered
  <2>3. ASSUME NEW a \in answers, a[1] = n
        PROVE  a = b
    <3>1. a \in Nonces \X Digests \X JobIds /\ a[2] # None
      <4>1. a \in Nonces \X Digests \X JobIds
        BY DEF QueueInv, TypeOK
      <4> QED BY <4>1, QueueAssumption
    <3>2. a[2] = index[n].digest /\ a[3] = index[n].job
      BY <2>1, <2>3, <3>1 DEF AnswerInv, Remembered
    <3> QED BY <2>3, <3>1, <3>2
  <2>4. OneJobPerRequest'
    BY <1>5, <2>3 DEF OneJobPerRequest, AnswerInv
  <2>5. \A a \in answers' : Remembered(a)'
    BY <1>3, <1>5, <2>2
  <2> QED BY <1>1, <1>2, <2>4, <2>5 DEF AnswerInv, Remembered
<1> QED BY <1>4, <1>5, EveryAnswer

LEMMA AnswersInvariant ==
    ASSUME Survivable
    PROVE  Spec => [](QueueInv /\ HistoryInv /\ AnswerInv)
PROOF
<1>1. Init => HistoryInv /\ AnswerInv
  <2> SUFFICES ASSUME Init
               PROVE  AnswerInv
    BY HistoryInit
  <2> QED BY QueueAssumption DEF Init, AnswerInv, PublishedInv, OneJobPerRequest, Indexed
<1>2. QueueInv /\ HistoryInv /\ AnswerInv /\ [Next]_vars => (HistoryInv /\ AnswerInv)'
  BY HistoryStep, AnswerStep
<1> QED BY <1>1, <1>2, QueueInvariant, PTL DEF Spec

\* For a queue that loses no record, or one record and is not rotated after it, a
\* request nonce is answered with one job of one content, however often the
\* submission is interrupted and sent again.  (With a loss and a rotation it is
\* not: the rotation leaves no tombstone of a request whose index is gone.)
THEOREM OneJob ==
    ASSUME MaxLosses = 0 \/ (MaxLosses = 1 /\ MaxRotations = 0)
    PROVE  Spec => []OneJobPerRequest
PROOF
<1>1. Survivable
  BY DEF Survivable
<1>2. Spec => [](QueueInv /\ HistoryInv /\ AnswerInv)
  BY <1>1, AnswersInvariant
<1>3. AnswerInv => OneJobPerRequest
  BY DEF AnswerInv
<1> QED BY <1>2, <1>3, PTL

\* A job that submit has answered stays published in a queue that loses no
\* record, until its nonce is a tombstone, whatever is killed.
THEOREM JobKept ==
    ASSUME MaxLosses = 0
    PROVE  Spec => []AcceptedJobKept
PROOF
<1>1. Survivable
  BY DEF Survivable
<1>2. Spec => [](QueueInv /\ HistoryInv /\ AnswerInv)
  BY <1>1, AnswersInvariant
<1>3. QueueInv /\ HistoryInv /\ AnswerInv => AcceptedJobKept
  <2> SUFFICES ASSUME QueueInv, AnswerInv, NEW a \in answers, archived[a[1]] # a[2]
               PROVE  /\ index[a[1]] # None /\ index[a[1]].job = a[3] /\ jobs[a[3]] # None
                      /\ PublicationAction(index[a[1]], jobs[a[3]]) = "reuse"
    BY DEF AcceptedJobKept
  <2>1. losses = 0
    BY QueueAssumption DEF QueueInv, TypeOK, AnswerInv
  <2>2. /\ index[a[1]] # None /\ index[a[1]].phase = "published" /\ index[a[1]].job = a[3]
    BY <2>1 DEF AnswerInv, Remembered
  <2>3. a[1] \in Nonces
    <3>1. a \in Nonces \X Digests \X JobIds
      BY DEF QueueInv, TypeOK
    <3> QED BY <3>1
  <2>4. jobs[a[3]] # None /\ SameBinding(index[a[1]], jobs[a[3]])
    BY <2>1, <2>2, <2>3 DEF AnswerInv, PublishedInv, Indexed
  <2> QED BY <2>2, <2>4 DEF PublicationAction
<1> QED BY <1>2, <1>3, PTL
=============================================================================
