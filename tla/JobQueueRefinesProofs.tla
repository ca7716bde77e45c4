------------------------ MODULE JobQueueRefinesProofs ------------------------
(***************************************************************************)
(* The queue, with its files, its processes and their kills, implements    *)
(* the lifecycle of JobLifecycle and the service of JobService, for every  *)
(* value of the constants under which no record is lost.                   *)
(***************************************************************************)
EXTENDS JobQueueServes, JobQueueProofs

-----------------------------------------------------------------------------
(* Jobs, indexes and answers. *)

\* Every job has its index; a job that has been touched was answered before; and
\* an answer is about no other request's job.
StartedInv ==
    /\ \A j \in Existing : \E n \in Indexed : index[n].job = j
    /\ \A j \in Existing : jobs[j].state # "submitted" => \E a \in answers : a[3] = j
    /\ \A a \in answers : a[3] \in allocated
    /\ \A a \in answers : \A n \in Indexed : index[n].job = a[3] => a[1] = n

RefineInv == QueueInv /\ HistoryInv /\ AnswerInv /\ StartedInv

LEMMA NoLoss ==
    ASSUME MaxLosses = 0, QueueInv, AnswerInv
    PROVE  losses = 0 /\ ~LoseRecord /\ Survivable
BY DEF QueueInv, TypeOK, AnswerInv, LoseRecord, Survivable

\* Only a client that knows the job starts or cancels it.
LEMMA LeavesSubmitted ==
    ASSUME QueueInv, [Next]_vars, NEW j \in JobIds, jobs[j] # None, jobs[j].state = "submitted",
           jobs'[j] # None, jobs'[j].state # "submitted"
    PROVE  \E a \in answers : a[3] = j
PROOF
<1>0. jobs \in [JobIds -> Job \cup {None}] /\ jobs[j] # jobs'[j]
  BY RecordTypes
<1>1. ASSUME NEW k \in JobIds, Start(k) \/ Cancel(k)
      PROVE  \E a \in answers : a[3] = j
  <2>1. k = j
    BY <1>0, <1>1 DEF Start, Cancel, WriteJob
  <2> QED BY <1>1, <2>1 DEF Start, Cancel, Accessible
<1>2. CASE CreateJob
  <2>1. jobs[index[pending].job] = None
    BY <1>2 DEF CreateJob, PublicationAction
  <2> QED BY <1>0, <1>2, <2>1 DEF CreateJob
<1>3. ASSUME NEW k \in JobIds, MarkStale(k) \/ Claim(k)
      PROVE  FALSE
  <2>1. k # j
    BY <1>3 DEF MarkStale, Claim, Orphaned, Mine
  <2> QED BY <1>0, <1>3, <2>1 DEF MarkStale, Claim
<1>4. ASSUME Conclude \/ LaunchFails
      PROVE  FALSE
  <2>1. worker.active # j
    BY <1>4, RecordTypes DEF Conclude, LaunchFails, QueueInv, WorkerInv, ActiveInv
  <2> QED BY <1>0, <1>4, <2>1 DEF Conclude, LaunchFails
<1>5. CASE Rotate
  BY <1>5 DEF Rotate
<1>6. CASE LoseRecord
  BY <1>0, <1>6 DEF LoseRecord
<1>7. CASE UNCHANGED jobs
  BY <1>0, <1>7
<1>8. \A n \in Nonces, d \in Digests, k \in JobIds :
        Prepare(n, d, k) \/ Resume(n, d) \/ Replay(n, d) => UNCHANGED jobs
  BY DEF Prepare, Resume, Replay, store
<1>9. Publish \/ Answer \/ InterruptGateway \/ WorkerBoots \/ Beat \/ KeepWaiting \/ Launch
        \/ EndScan \/ WorkerDies \/ Activate \/ HeartbeatExpires \/ ChildExits \/ TimerExpires
        \/ UNCHANGED vars => UNCHANGED jobs
  BY DEF Publish, Answer, InterruptGateway, WorkerBoots, Boot, Beat, KeepWaiting, Launch,
     EndScan, WorkerDies, Activate, HeartbeatExpires, ChildExits, TimerExpires, vars, store
<1>10. \A k \in JobIds : SubmissionAges(k) => UNCHANGED jobs
  BY DEF SubmissionAges, store
<1> QED BY <1>1, <1>2, <1>3, <1>4, <1>5, <1>6, <1>7, <1>8, <1>9, <1>10
        DEF Next, Submit, WorkerStep

LEMMA DrawnGrows ==
    ASSUME QueueInv, [Next]_vars
    PROVE  allocated \subseteq allocated'
BY DEF Next, Submit, Prepare, Resume, Replay, CreateJob, Publish, Answer, InterruptGateway, Start,
   Cancel, WriteJob, SubmissionAges, WorkerBoots, Boot, WorkerStep, Beat, Conclude, KeepWaiting,
   MarkStale, Claim, Launch, LaunchFails, EndScan, WorkerDies, Activate, Rotate, HeartbeatExpires,
   ChildExits, TimerExpires, LoseRecord, drawn, vars

LEMMA StartedStep ==
    ASSUME MaxLosses = 0, RefineInv, [Next]_vars
    PROVE  StartedInv'
PROOF
<1>0. QueueInv /\ HistoryInv /\ AnswerInv /\ StartedInv /\ ~LoseRecord
  BY NoLoss DEF RefineInv
<1>1. ASSUME NEW j \in Existing'
      PROVE  \E n \in Indexed' : index'[n].job = j
  <2>0. j \in JobIds /\ jobs'[j] # None /\ ~Rotate
    BY DEF Existing, Rotate
  <2>1. PICK n \in Indexed : index[n].job = j
    <3>1. CASE jobs[j] = None
      <4>1. Created(j)
        BY <1>0, <2>0, <3>1, EveryChange, NoneIsNoRecord
           DEF Changed, Untouched, Gone, Staled, Queued, Cancelled, Claimed, Executed,
               NotStarted, Concluded, Written
      <4>2. pending \in Indexed
        BY <1>0, <4>1, RecordTypes DEF Created, CreateJob, QueueInv, LockInv, Indexed
      <4> QED BY <4>1, <4>2 DEF Created
    <3>2. CASE jobs[j] # None
      BY <1>0, <2>0, <3>2 DEF StartedInv, Existing
    <3> QED BY <3>1, <3>2
  <2>2. n \in Nonces /\ index[n] # None /\ index[n] \in Index
    BY <1>0, RecordTypes DEF Indexed
  <2>3. index'[n] # None /\ index'[n].job = j
    <3>1. CASE UNCHANGED index
      BY <2>1, <2>2, <3>1
    <3>2. ASSUME NEW m \in Nonces, Reserves(m)
          PROVE  index'[n] = index[n]
      BY <2>2, <3>2 DEF Reserves
    <3>3. ASSUME NEW m \in Nonces, Publishes(m)
          PROVE  index'[n] # None /\ index'[n].job = j
      <4>1. CASE m = n
        <5>1. index'[n] = [index[n] EXCEPT !.phase = "published"]
          BY <3>3, <4>1 DEF Publishes
        <5>2. index'[n] \in Index /\ index'[n].job = index[n].job
          BY <2>2, <5>1 DEF Index
        <5> QED BY <2>1, <5>2, NoneIsNoRecord
      <4>2. CASE m # n
        BY <2>1, <2>2, <3>3, <4>2 DEF Publishes
      <4> QED BY <4>1, <4>2
    <3> QED BY <1>0, <2>0, <2>1, <2>2, <3>1, <3>2, <3>3, EveryIndex
  <2> QED BY <2>2, <2>3 DEF Indexed
<1>2. answers \subseteq answers'
  BY <1>0, EveryAnswer
<1>3. ASSUME NEW j \in Existing', jobs'[j].state # "submitted"
      PROVE  \E a \in answers' : a[3] = j
  <2>0. j \in JobIds /\ jobs'[j] # None
    BY DEF Existing
  <2>1. jobs[j] # None
    <3> SUFFICES ASSUME jobs[j] = None
                 PROVE  FALSE
      OBVIOUS
    <3>1. Created(j)
      BY <1>0, <2>0, EveryChange, NoneIsNoRecord
         DEF Changed, Untouched, Gone, Staled, Queued, Cancelled, Claimed, Executed,
             NotStarted, Concluded, Written
    <3> QED BY <1>3, <3>1 DEF Created, Initial
  <2>2. \E a \in answers : a[3] = j
    BY <1>0, <1>3, <2>0, <2>1, LeavesSubmitted DEF StartedInv, Existing
  <2> QED BY <1>2, <2>2
<1>4. ASSUME NEW a \in answers'
      PROVE  a[3] \in allocated' /\ \A n \in Indexed' : index'[n].job = a[3] => a[1] = n
  <2>1. a[3] \in allocated /\ \A n \in Indexed : index[n].job = a[3] => a[1] = n
    <3>1. CASE a \in answers
      BY <1>0, <3>1 DEF StartedInv
    <3>2. CASE a \notin answers
      <4>1. PICK n \in Indexed : a = <<n, index[n].digest, index[n].job>>
        BY <1>0, <3>2, EveryAnswer
      <4> QED BY <1>0, <4>1 DEF QueueInv, IndexInv
    <3> QED BY <3>1, <3>2
  <2>2. a[3] \in allocated'
    BY <1>0, <2>1, DrawnGrows
  <2>3. ASSUME NEW n \in Indexed', index'[n].job = a[3]
        PROVE  a[1] = n
    <3>0. n \in Nonces /\ index'[n] # None /\ ~Rotate
      BY DEF Indexed, Rotate
    <3>1. n \in Indexed /\ index[n].job = a[3]
      <4>1. CASE UNCHANGED index
        BY <2>3, <3>0, <4>1 DEF Indexed
      <4>2. ASSUME NEW m \in Nonces, Reserves(m)
            PROVE  n \in Indexed /\ index[n].job = a[3]
        BY <2>1, <2>3, <3>0, <4>2 DEF Reserves, Indexed
      <4>3. ASSUME NEW m \in Nonces, Publishes(m)
            PROVE  n \in Indexed /\ index[n].job = a[3]
        <5>1. CASE m = n
          <6>1. index[n] # None /\ index[n] \in Index
            BY <1>0, <4>3, <5>1, RecordTypes DEF Publishes
          <6>2. index'[n].job = index[n].job
            BY <4>3, <5>1, <6>1 DEF Publishes, Index
          <6> QED BY <2>3, <3>0, <6>1, <6>2 DEF Indexed
        <5>2. CASE m # n
          BY <2>3, <3>0, <4>3, <5>2 DEF Publishes, Indexed
        <5> QED BY <5>1, <5>2
      <4> QED BY <1>0, <3>0, <4>1, <4>2, <4>3, EveryIndex
    <3> QED BY <2>1, <3>1
  <2> QED BY <2>2, <2>3
<1> QED BY <1>1, <1>3, <1>4 DEF StartedInv
LEMMA RefineInvariant ==
    ASSUME MaxLosses = 0
    PROVE  Spec => []RefineInv
PROOF
<1>1. Init => StartedInv
  BY DEF Init, StartedInv, Existing
<1>2. RefineInv /\ [Next]_vars => StartedInv'
  BY StartedStep
<1>3. Spec => [](QueueInv /\ HistoryInv /\ AnswerInv)
  BY AnswersInvariant DEF Survivable
<1> QED BY <1>1, <1>2, <1>3, PTL DEF Spec, RefineInv

-----------------------------------------------------------------------------
(* The steps of the lifecycle. *)

SameRuns == \A n \in Nonces : Executions(n)' = Executions(n)
SameStages(S) == \A n \in S : StageOf(n)' = StageOf(n)

LEMMA StutterMaps ==
    ASSUME SameStages(Nonces), SameRuns
    PROVE  UNCHANGED Lifecycle!life
BY DEF SameStages, SameRuns, Lifecycle!life

\* The stage of one request changes, in the order of the lifecycle.
LEMMA MoveMaps ==
    ASSUME NEW n \in Nonces, NEW from, NEW to, StageOf(n) \in from, StageOf(n)' = to,
           SameStages(Nonces \ {n}), SameRuns
    PROVE  Lifecycle!Move(n, from, to)
BY DEF SameStages, SameRuns, Lifecycle!Move

\* What a change of its job does to the stage of a published request.
LEMMA StageMaps ==
    ASSUME RefineInv, NEW n \in Nonces, index[n] # None, index[n].phase = "published",
           archived[n] = None, jobs[index[n].job] # None, UNCHANGED <<index, archived>>,
           Changed(index[n].job), ~Rotate, ~LoseRecord,
           SameStages(Nonces \ {n}), SameRuns
    PROVE  [Lifecycle!LifeNext]_(Lifecycle!life)
PROOF
<1> DEFINE j == index[n].job
<1>1. /\ j \in JobIds /\ jobs[j] \in Job
  BY RecordTypes DEF RefineInv, Index
<1>2. /\ StageOf(n) = IF jobs[j].state \in Terminal THEN "ended" ELSE jobs[j].state
      /\ StageOf(n)' = IF jobs'[j].state \in Terminal THEN "ended" ELSE jobs'[j].state
  BY DEF StageOf
<1> HIDE DEF j
<1>3. ASSUME jobs'[j].state = jobs[j].state
      PROVE  UNCHANGED Lifecycle!life
  <2>1. SameStages(Nonces)
    BY <1>2, <1>3 DEF SameStages
  <2> QED BY <2>1, StutterMaps
<1>4. ASSUME jobs[j].state \in {"submitted", "queued", "running"}, jobs'[j].state \in Terminal
      PROVE  Lifecycle!LifeNext
  <2>1. StageOf(n) \in {"submitted", "queued", "running"} /\ StageOf(n)' = "ended"
    BY <1>2, <1>4 DEF Terminal
  <2> QED BY <2>1, MoveMaps DEF Lifecycle!LifeNext, Lifecycle!End
<1>5. CASE Untouched(j) \/ Executed(j)
  BY <1>3, <1>5 DEF Untouched, Executed
<1>6. CASE Created(j) \/ Gone(j)
  BY <1>1, <1>6, NoneIsNoRecord DEF Created, Gone
<1>7. CASE Staled(j)
  BY <1>4, <1>7 DEF Staled, Written, Terminal
<1>8. CASE Queued(j)
  <2>1. StageOf(n) = "submitted" /\ StageOf(n)' = "queued"
    BY <1>2, <1>8 DEF Queued, Written, Terminal
  <2> QED BY <2>1, MoveMaps DEF Lifecycle!LifeNext, Lifecycle!Start
<1>9. CASE Cancelled(j)
  <2>1. CASE jobs[j].state \in {"submitted", "queued"}
    BY <1>4, <1>9, <2>1 DEF Cancelled, Written, Terminal
  <2>2. CASE jobs[j].state \notin {"submitted", "queued"}
    BY <1>3, <1>9, <2>2 DEF Cancelled, Written
  <2> QED BY <2>1, <2>2
<1>10. CASE Claimed(j)
  <2>1. StageOf(n) = "queued" /\ StageOf(n)' = "running"
    BY <1>2, <1>10 DEF Claimed, Written, Terminal
  <2> QED BY <2>1, MoveMaps DEF Lifecycle!LifeNext, Lifecycle!Claim
<1>11. CASE NotStarted(j)
  BY <1>4, <1>11 DEF NotStarted, Written, Terminal
<1>12. CASE Concluded(j)
  <2>1. jobs[j].state = "running" /\ jobs'[j].state \in Terminal
    BY <1>12 DEF Concluded, Written, Verdict, Terminal
  <2> QED BY <1>4, <2>1
<1> QED BY <1>5, <1>6, <1>7, <1>8, <1>9, <1>10, <1>11, <1>12 DEF Changed, j
-----------------------------------------------------------------------------
(* The steps of the queue. *)

\* Only a rotation writes more than one record.
LEMMA OneJobChanges ==
    ASSUME QueueInv, [Next]_vars, ~Rotate, ~LoseRecord
    PROVE  \E j : \A k \in JobIds : k # j => jobs'[k] = jobs[k]
PROOF
<1>0. jobs \in [JobIds -> Job \cup {None}]
  BY RecordTypes
<1>1. \A j \in JobIds : Start(j) \/ Cancel(j) \/ MarkStale(j) \/ Claim(j)
        => \A k \in JobIds : k # j => jobs'[k] = jobs[k]
  BY <1>0 DEF Start, Cancel, WriteJob, MarkStale, Claim
<1>2. CreateJob => \A k \in JobIds : k # index[pending].job => jobs'[k] = jobs[k]
  BY <1>0 DEF CreateJob
<1>3. Conclude \/ LaunchFails => \A k \in JobIds : k # worker.active => jobs'[k] = jobs[k]
  BY <1>0 DEF Conclude, LaunchFails
<1>4. \A n \in Nonces, d \in Digests, k \in JobIds :
        Prepare(n, d, k) \/ Resume(n, d) \/ Replay(n, d) => UNCHANGED jobs
  BY DEF Prepare, Resume, Replay, store
<1>5. Publish \/ Answer \/ InterruptGateway \/ WorkerBoots \/ Beat \/ KeepWaiting \/ Launch
        \/ EndScan \/ WorkerDies \/ Activate \/ HeartbeatExpires \/ ChildExits \/ TimerExpires
        \/ UNCHANGED vars => UNCHANGED jobs
  BY DEF Publish, Answer, InterruptGateway, WorkerBoots, Boot, Beat, KeepWaiting, Launch,
     EndScan, WorkerDies, Activate, HeartbeatExpires, ChildExits, TimerExpires, vars, store
<1>6. \A k \in JobIds : SubmissionAges(k) => UNCHANGED jobs
  BY DEF SubmissionAges, store
<1>7. UNCHANGED jobs => \A k \in JobIds : jobs'[k] = jobs[k]
  OBVIOUS
<1> QED BY <1>1, <1>2, <1>3, <1>4, <1>5, <1>6, <1>7 DEF Next, Submit, WorkerStep

\* What was executed of a request, one by one.
LEMMA ExecutionsOf ==
    ASSUME NEW n
    PROVE  \A e : e \in Executions(n) <=>
                \E j \in JobIds, d \in Digests :
                    <<n, d, j>> \in answers /\ e \in {j} \X (1 .. launches[j])
BY DEF Executions, AnsweredJobs

LEMMA LaunchesKept ==
    ASSUME QueueInv, [Next]_vars, ~Launch
    PROVE  UNCHANGED launches
BY DEF Next, Submit, Prepare, Resume, Replay, CreateJob, Publish, Answer, InterruptGateway, Start,
   Cancel, WriteJob, SubmissionAges, WorkerBoots, Boot, WorkerStep, Beat, Conclude, KeepWaiting,
   MarkStale, Claim, LaunchFails, EndScan, WorkerDies, Activate, Rotate, HeartbeatExpires,
   ChildExits, TimerExpires, LoseRecord, vars

\* A late answer adds no execution to its request: if its job was executed, the
\* request was answered before.
LEMMA RunsKept ==
    ASSUME MaxLosses = 0, RefineInv, [Next]_vars, ~Launch
    PROVE  SameRuns
PROOF
<1>0. /\ QueueInv /\ HistoryInv /\ AnswerInv /\ StartedInv /\ losses = 0
      /\ UNCHANGED launches /\ answers \subseteq Nonces \X Digests \X JobIds
  BY NoLoss, LaunchesKept DEF RefineInv, QueueInv, TypeOK
<1> SUFFICES ASSUME NEW n \in Nonces
             PROVE  Executions(n)' = Executions(n)
  BY DEF SameRuns
<1>1. CASE UNCHANGED answers
  BY <1>0, <1>1 DEF Executions, AnsweredJobs
<1>2. ASSUME NEW m \in Indexed, index[m].phase = "published",
             answers' = answers \cup {<<m, index[m].digest, index[m].job>>}
      PROVE  Executions(n)' = Executions(n)
  <2> DEFINE k == index[m].job
  <2>1. m \in Nonces /\ index[m] \in Index /\ k \in JobIds /\ index[m].digest \in Digests
    BY <1>0, RecordTypes DEF Indexed, Index
  <2>2. jobs[k] # None /\ jobs[k] \in Job
    BY <1>0, <1>2, <2>1, RecordTypes DEF AnswerInv, PublishedInv
  <2>3. ASSUME launches[k] # 0
        PROVE  \E d \in Digests : <<m, d, k>> \in answers
    <3>1. jobs[k].state # "submitted"
      BY <1>0, <2>1, <2>2, <2>3 DEF QueueInv, UnlaunchedInv, Existing
    <3>2. PICK a \in answers : a[3] = k
      BY <1>0, <2>1, <2>2, <3>1 DEF StartedInv, Existing
    <3>3. a[1] = m
      BY <1>0, <3>2 DEF StartedInv
    <3>4. a \in Nonces \X Digests \X JobIds
      BY <1>0
    <3>5. a[2] \in Digests /\ a = <<m, a[2], k>>
      BY <3>2, <3>3, <3>4
    <3> QED BY <3>5
  <2>4. launches[k] = 0 => {k} \X (1 .. launches[k]) = {}
    OBVIOUS
  <2>5. \A j \in JobIds, d \in Digests :
          <<n, d, j>> \in answers' <=> \/ <<n, d, j>> \in answers
                                       \/ n = m /\ d = index[m].digest /\ j = k
    BY <1>2
  <2>6. \A e : e \in Executions(n)' <=>
                \E j \in JobIds, d \in Digests :
                    <<n, d, j>> \in answers' /\ e \in {j} \X (1 .. launches[j])
    BY <1>0 DEF Executions, AnsweredJobs
  <2>7. \A e : e \in Executions(n) <=>
                \E j \in JobIds, d \in Digests :
                    <<n, d, j>> \in answers /\ e \in {j} \X (1 .. launches[j])
    BY ExecutionsOf
  <2> HIDE DEF k
  <2>8. \A e : e \in Executions(n)' => e \in Executions(n)
    <3> SUFFICES ASSUME NEW e \in Executions(n)'
                 PROVE  e \in Executions(n)
      OBVIOUS
    <3>1. PICK j \in JobIds, d \in Digests :
            <<n, d, j>> \in answers' /\ e \in {j} \X (1 .. launches[j])
      BY <2>6
    <3>2. CASE <<n, d, j>> \in answers
      BY <2>7, <3>1, <3>2
    <3>3. CASE n = m /\ j = k
      <4>1. launches[k] # 0
        BY <2>4, <3>1, <3>3
      <4>2. PICK x \in Digests : <<m, x, k>> \in answers
        BY <2>3, <4>1
      <4> QED BY <2>7, <3>1, <3>3, <4>2
    <3> QED BY <2>5, <3>1, <3>2, <3>3
  <2>9. \A e : e \in Executions(n) => e \in Executions(n)'
    BY <1>2, <2>6, <2>7
  <2> QED BY <2>8, <2>9
<1> QED BY <1>0, <1>1, <1>2, EveryAnswer
\* The child of a job is the one execution of its request.
LEMMA LaunchMaps ==
    ASSUME MaxLosses = 0, RefineInv, Launch
    PROVE  \E n \in Nonces : Lifecycle!Execute(n)
PROOF
<1> DEFINE j == worker.active
<1>0. /\ QueueInv /\ HistoryInv /\ AnswerInv /\ StartedInv
      /\ answers \subseteq Nonces \X Digests \X JobIds
      /\ launches \in [JobIds -> Nat]
  BY DEF RefineInv, QueueInv, TypeOK
<1>1. /\ j \in JobIds /\ jobs[j] # None /\ jobs[j].state = "running" /\ launches[j] = 0
      /\ launches' = [launches EXCEPT ![j] = launches[j] + 1]
      /\ UNCHANGED <<index, jobs, archived, answers>>
  BY <1>0, RecordTypes DEF Launch, QueueInv, WorkerInv, ActiveInv, Worker, store
<1>2. launches'[j] = 1 /\ \A k \in JobIds : k # j => launches'[k] = launches[k]
  BY <1>0, <1>1
<1>3. PICK n \in Indexed : index[n].job = j
  BY <1>0, <1>1 DEF StartedInv, Existing
<1>4. PICK a \in answers : a[3] = j
  BY <1>0, <1>1 DEF StartedInv, Existing
<1>5. a[1] = n /\ a[2] \in Digests /\ a = <<n, a[2], j>>
  <2>1. a[1] = n /\ a \in Nonces \X Digests \X JobIds
    BY <1>0, <1>3, <1>4 DEF StartedInv
  <2> QED BY <1>4, <2>1
<1> HIDE DEF j
<1>6. n \in Nonces /\ index[n] # None /\ index[n] \in Index /\ archived[n] = None
  BY <1>0, <1>3, RecordTypes DEF Indexed, Archived, HistoryInv, HistoryBounded
<1>7. index[n].phase = "published"
  <2>1. index[n].phase = "prepared" => jobs[j] = Initial(index[n])
    BY <1>0, <1>1, <1>3 DEF QueueInv, PristineInv
  <2>2. Initial(index[n]).state = "submitted"
    BY DEF Initial
  <2> QED BY <1>1, <1>6, <2>1, <2>2 DEF Index
<1>8. StageOf(n) = "running"
  BY <1>1, <1>3, <1>6, <1>7 DEF StageOf, Terminal
<1>9. SameStages(Nonces)
  BY <1>1 DEF SameStages, StageOf
<1>10. AnsweredJobs(n) = {j} /\ AnsweredJobs(n)' = {j}
  <2>1. \A k \in JobIds, d \in Digests : <<n, d, k>> \in answers => k = j
    BY <1>0, <1>4, <1>5 DEF AnswerInv, OneJobPerRequest
  <2>2. AnsweredJobs(n) = {j}
    BY <1>1, <1>4, <1>5, <2>1 DEF AnsweredJobs
  <2> QED BY <1>1, <2>2 DEF AnsweredJobs
<1>11. Executions(n) = {} /\ Executions(n)' = {<<j, 1>>}
  <2>1. Executions(n) = {j} \X (1 .. launches[j])
    BY <1>10 DEF Executions
  <2>2. Executions(n)' = {j} \X (1 .. launches'[j])
    BY <1>10 DEF Executions
  <2>3. 1 .. 0 = {} /\ 1 .. 1 = {1}
    OBVIOUS
  <2> QED BY <1>1, <1>2, <2>1, <2>2, <2>3
<1>12. ASSUME NEW m \in Nonces, m # n
       PROVE  Executions(m)' = Executions(m)
  <2>1. AnsweredJobs(m)' = AnsweredJobs(m)
    BY <1>1 DEF AnsweredJobs
  <2>2. j \notin AnsweredJobs(m)
    <3> SUFFICES ASSUME NEW d \in Digests, <<m, d, j>> \in answers
                 PROVE  FALSE
      BY DEF AnsweredJobs
    <3>1. <<m, d, j>>[3] = j /\ <<m, d, j>>[1] = m
      OBVIOUS
    <3> QED BY <1>0, <1>3, <1>12, <3>1 DEF StartedInv
  <2>3. \A k \in AnsweredJobs(m) : launches'[k] = launches[k]
    BY <1>2, <2>2 DEF AnsweredJobs
  <2> QED BY <2>1, <2>3 DEF Executions
<1>13. Cardinality(Executions(n)) = 0 /\ Cardinality(Executions(n)') = 1
  BY <1>11, FS_EmptySet, FS_Singleton
<1>14. Lifecycle!Execute(n)
  BY <1>6, <1>8, <1>9, <1>12, <1>13 DEF SameStages, Lifecycle!Execute
<1> QED BY <1>6, <1>14

\* A rotation archives every request that has an index, and none of them runs.
Filed == {n \in Nonces : archived[n] # None \/ index[n] # None}

LEMMA RotationMaps ==
    ASSUME MaxLosses = 0, RefineInv, Rotate, SameRuns
    PROVE  Lifecycle!Archive(Filed)
PROOF
<1> DEFINE S == Filed
<1>0. /\ QueueInv /\ AnswerInv /\ losses = 0 /\ index \in [Nonces -> Index \cup {None}]
      /\ jobs \in [JobIds -> Job \cup {None}]
  BY RecordTypes, NoLoss DEF RefineInv
<1>1. \A n \in Nonces : archived'[n] # None <=> n \in S
  <2>1. ASSUME NEW n \in Nonces, index[n] # None
        PROVE  index[n].digest # None
    BY <1>0, <2>1, QueueAssumption DEF Index
  <2> QED BY <2>1 DEF Rotate, Tombstone, Filed
<1>2. \A n \in Nonces : StageOf(n)' = IF n \in S THEN "archived" ELSE "new"
  BY <1>1 DEF Rotate, StageOf
<1>3. \A n \in Nonces \ S : StageOf(n) = "new"
  BY DEF StageOf, Filed
<1>4. {n \in Nonces : StageOf(n) \in {"submitted", "ended"}} \subseteq S
  BY DEF StageOf, Filed
<1>5. ASSUME NEW n \in Nonces
      PROVE  StageOf(n) \notin {"queued", "running"}
  <2> SUFFICES ASSUME archived[n] = None, index[n] # None, index[n].phase # "prepared",
                      jobs[index[n].job].state \in {"queued", "running"}
               PROVE  FALSE
    BY DEF StageOf
  <2>1. index[n] \in Index /\ index[n].job \in JobIds /\ index[n].phase = "published"
    BY <1>0 DEF Index
  <2>2. jobs[index[n].job] # None
    BY <1>0, <2>1 DEF AnswerInv, PublishedInv, Indexed
  <2>3. jobs[index[n].job].state \in Terminal \cup {"submitted"}
    BY <2>1, <2>2 DEF Rotate, Archivable, Existing
  <2> QED BY <2>3 DEF Terminal
<1> HIDE DEF S
<1>6. Lifecycle!Archive(S)
  BY <1>2, <1>3, <1>4, <1>5 DEF SameRuns, Lifecycle!Archive
<1> QED BY <1>6 DEF S

\* Every step of the queue is a step of the lifecycle, or none.
LEMMA Simulation ==
    ASSUME MaxLosses = 0, RefineInv, [Next]_vars
    PROVE  [Lifecycle!LifeNext]_(Lifecycle!life)
PROOF
<1>0. /\ QueueInv /\ HistoryInv /\ AnswerInv /\ StartedInv /\ losses = 0 /\ ~LoseRecord
      /\ index \in [Nonces -> Index \cup {None}]
  BY RecordTypes, NoLoss DEF RefineInv
<1>1. CASE Launch
  BY <1>1, LaunchMaps DEF Lifecycle!LifeNext
<1>2. CASE Rotate
  <2>1. ~Launch
    BY <1>2 DEF Rotate, Quiescent, Launch
  <2>2. Filed \in SUBSET Nonces
    BY DEF Filed
  <2> QED BY <1>2, <2>1, <2>2, RunsKept, RotationMaps DEF Lifecycle!LifeNext
<1>3. ASSUME ~Launch, NEW n \in Nonces, Reserves(n)
      PROVE  UNCHANGED Lifecycle!life
  <2>1. ASSUME NEW m \in Nonces
        PROVE  StageOf(m)' = StageOf(m)
    BY <1>3, NoneIsNoRecord DEF Reserves, StageOf
  <2>2. SameStages(Nonces)
    BY <2>1 DEF SameStages
  <2> QED BY <1>3, <2>2, RunsKept, StutterMaps
<1>4. ASSUME ~Launch, NEW n \in Nonces, Publishes(n)
      PROVE  [Lifecycle!LifeNext]_(Lifecycle!life)
  <2>1. /\ index[n] # None /\ index[n] \in Index /\ index[n].phase = "prepared"
        /\ jobs[index[n].job] = Initial(index[n]) /\ jobs' = jobs /\ archived' = archived
        /\ \A m \in Nonces : m # n => index'[m] = index[m]
    BY <1>0, <1>4 DEF Publishes
  <2>2. index'[n].phase = "published" /\ index'[n].job = index[n].job /\ index'[n] # None
    <3>1. index'[n] = [index[n] EXCEPT !.phase = "published"]
      BY <1>4 DEF Publishes
    <3>2. index'[n] \in Index
      BY <2>1, <3>1 DEF Index
    <3> QED BY <2>1, <3>1, <3>2, NoneIsNoRecord DEF Index
  <2>3. archived[n] = None
    BY <1>0, <2>1 DEF HistoryInv, HistoryBounded, Archived, Indexed
  <2>4. StageOf(n) = "new" /\ StageOf(n)' = "submitted"
    <3>1. Initial(index[n]).state = "submitted"
      BY DEF Initial
    <3> QED BY <2>1, <2>2, <2>3, <3>1 DEF StageOf, Terminal
  <2>5. SameStages(Nonces \ {n})
    BY <2>1 DEF SameStages, StageOf
  <2>6. Lifecycle!Accept(n)
    BY <1>4, <2>4, <2>5, RunsKept, MoveMaps DEF Lifecycle!Accept
  <2> QED BY <2>6 DEF Lifecycle!LifeNext
<1>5. CASE ~Launch /\ ~Rotate /\ UNCHANGED <<index, archived>>
  <2>1. SameRuns
    BY <1>5, RunsKept
  <2>2. PICK j : \A k \in JobIds : k # j => jobs'[k] = jobs[k]
    BY <1>0, <1>5, OneJobChanges
  <2>3. \A m \in Nonces : index[m] = None \/ index[m].job # j => StageOf(m)' = StageOf(m)
    <3>1. \A m \in Nonces : index[m] # None => index[m].job \in JobIds
      BY <1>0 DEF Index
    <3> QED BY <1>5, <2>2, <3>1 DEF StageOf
  <2>4. CASE \E n \in Indexed : index[n].job = j /\ index[n].phase = "published"
    <3>1. PICK n \in Indexed : index[n].job = j /\ index[n].phase = "published"
      BY <2>4
    <3>2. /\ n \in Nonces /\ index[n] # None /\ jobs[index[n].job] # None
          /\ archived[n] = None /\ index[n].job \in JobIds
      BY <1>0, <3>1
         DEF AnswerInv, PublishedInv, HistoryInv, HistoryBounded, Archived, Indexed, Index
    <3>3. \A m \in Nonces \ {n} : index[m] = None \/ index[m].job # j
      BY <1>0, <3>1 DEF QueueInv, IndexInv, Indexed
    <3>4. SameStages(Nonces \ {n})
      BY <2>3, <3>3 DEF SameStages
    <3>5. Changed(index[n].job)
      BY <1>0, <3>2, EveryChange
    <3> QED BY <1>0, <1>5, <2>1, <3>1, <3>2, <3>4, <3>5, StageMaps
  <2>5. CASE ~ \E n \in Indexed : index[n].job = j /\ index[n].phase = "published"
    <3>1. ASSUME NEW m \in Nonces, index[m] # None, index[m].job = j
          PROVE  StageOf(m)' = StageOf(m)
      <4>1. index[m].phase = "prepared"
        BY <1>0, <2>5, <3>1 DEF Indexed, Index
      <4> QED BY <1>5, <4>1 DEF StageOf
    <3>2. SameStages(Nonces)
      BY <2>3, <3>1 DEF SameStages
    <3> QED BY <2>1, <3>2, StutterMaps
  <2> QED BY <2>4, <2>5
<1> QED BY <1>0, <1>1, <1>2, <1>3, <1>4, <1>5, EveryIndex

\* The durable queue implements the lifecycle that its clients rely on: whatever
\* is interrupted, killed and started again, each request passes its stages in
\* order, is executed at most once and never comes back, as long as no record
\* vanishes from the store.
THEOREM QueueImplementsLifecycle ==
    ASSUME MaxLosses = 0
    PROVE  Spec => ImplementsLifecycle
PROOF
<1>1. Init => Lifecycle!LifeInit
  <2> SUFFICES ASSUME Init
               PROVE  Lifecycle!LifeInit
    OBVIOUS
  <2>1. \A n \in Nonces : StageOf(n) = "new" /\ Executions(n) = {}
    BY DEF Init, StageOf, Executions, AnsweredJobs
  <2> QED BY <2>1, FS_EmptySet DEF Lifecycle!LifeInit
<1>2. RefineInv /\ [Next]_vars => [Lifecycle!LifeNext]_(Lifecycle!life)
  BY Simulation
<1>3. Spec => []RefineInv
  BY RefineInvariant
<1> QED BY <1>1, <1>2, <1>3, PTL DEF Spec, ImplementsLifecycle, Lifecycle!LifeSpec
-----------------------------------------------------------------------------
(* The deployments, the executions and the archive. *)

\* Whoever holds a deployment holds the active one: only a stopped queue, with
\* no worker and no submission, is given another, and the heartbeat is then old.
DeploymentInv ==
    /\ pending # None => index[pending].deployment = deployment
    /\ worker.pc # "down" => worker.deployment = deployment
    /\ heartbeat # None => heartbeat.deployment <= deployment

\* What was archived was once written down.
ShelfInv == \A n \in Archived : shelf[n].deployment # None

ServedInv == RefineInv /\ DeploymentInv /\ ShelfInv

LEMMA DeploymentChanges ==
    ASSUME [Next]_vars
    PROVE  UNCHANGED deployment \/ Activate
BY DEF Next, Submit, Prepare, Resume, Replay, CreateJob, Publish, Answer, InterruptGateway, Start,
   Cancel, WriteJob, SubmissionAges, WorkerBoots, Boot, WorkerStep, Beat, Conclude, KeepWaiting,
   MarkStale, Claim, Launch, LaunchFails, EndScan, WorkerDies, Rotate, HeartbeatExpires,
   ChildExits, TimerExpires, LoseRecord, vars

\* A submission under way is of the active deployment: it was checked when it began.
LEMMA PendingStep ==
    ASSUME QueueInv, DeploymentInv, [Next]_vars, ~LoseRecord, pending' # None
    PROVE  index'[pending'].deployment = deployment'
PROOF
<1>0. index \in [Nonces -> Index \cup {None}]
  BY RecordTypes
<1>1. ASSUME NEW n \in Nonces, NEW d \in Digests, NEW j \in JobIds, Prepare(n, d, j)
      PROVE  index'[pending'].deployment = deployment'
  BY <1>0, <1>1 DEF Prepare
<1>2. ASSUME NEW n \in Nonces, NEW d \in Digests, Resume(n, d)
      PROVE  index'[pending'].deployment = deployment'
  BY <1>2 DEF Resume, Retryable, store
<1>3. CASE Publish
  <2>1. /\ pending \in Nonces /\ index[pending] \in Index
        /\ index' = [index EXCEPT ![pending] = [index[pending] EXCEPT !.phase = "published"]]
        /\ UNCHANGED <<pending, deployment>>
    BY <1>0, <1>3, RecordTypes DEF Publish, QueueInv, LockInv
  <2>2. index'[pending].deployment = index[pending].deployment
    BY <1>0, <2>1 DEF Index
  <2> QED BY <1>3, <2>1, <2>2 DEF DeploymentInv
<1>4. CASE UNCHANGED <<index, pending, deployment>>
  BY <1>4 DEF DeploymentInv
<1>5. ASSUME NEW n \in Nonces, NEW d \in Digests, Replay(n, d)
      PROVE  UNCHANGED <<index, pending, deployment>>
  BY <1>5 DEF Replay, store
<1>6. CreateJob => UNCHANGED <<index, pending, deployment>>
  BY DEF CreateJob
<1>7. ASSUME NEW j \in JobIds, Start(j) \/ Cancel(j) \/ SubmissionAges(j)
      PROVE  UNCHANGED <<index, pending, deployment>>
  BY <1>7 DEF Start, Cancel, WriteJob, SubmissionAges, store
<1>8. WorkerStep \/ WorkerBoots \/ WorkerDies \/ HeartbeatExpires \/ ChildExits \/ TimerExpires
        \/ UNCHANGED vars => UNCHANGED <<index, pending, deployment>>
  BY DEF WorkerStep, Beat, Conclude, KeepWaiting, MarkStale, Claim, Launch, LaunchFails, EndScan,
     WorkerBoots, Boot, WorkerDies, HeartbeatExpires, ChildExits, TimerExpires, store, vars
<1>9. ~Answer /\ ~InterruptGateway /\ ~Activate /\ ~Rotate
  BY DEF Answer, InterruptGateway, Activate, Rotate, Quiescent
<1> QED BY <1>1, <1>2, <1>3, <1>4, <1>5, <1>6, <1>7, <1>8, <1>9 DEF Next, Submit

LEMMA DeploymentStep ==
    ASSUME QueueInv, DeploymentInv, [Next]_vars, ~LoseRecord
    PROVE  DeploymentInv'
PROOF
<1>1. pending' # None => index'[pending'].deployment = deployment'
  BY PendingStep
<1>2. worker'.pc # "down" => worker'.deployment = deployment'
  <2>1. CASE Activate
    BY <2>1 DEF Activate, Quiescent
  <2>2. CASE WorkerBoots
    BY <2>2 DEF WorkerBoots, Boot
  <2>3. ASSUME UNCHANGED deployment, ~WorkerBoots, worker'.pc # "down"
        PROVE  worker'.deployment = deployment'
    <3>1. Booted => FALSE
      <4>1. ASSUME Booted
            PROVE  worker'.epoch # worker.epoch \/ worker.pc = "down"
        BY <4>1 DEF Booted, QueueInv, WorkerInv
      <4>2. worker.pc # "down" /\ worker'.epoch = worker.epoch
        <5>1. worker \in Worker
          BY RecordTypes
        <5> QED BY <2>3, <5>1 DEF Next, Submit, Prepare, Resume, Replay, CreateJob, Publish, Answer,
               InterruptGateway, Start, Cancel, WriteJob, SubmissionAges, WorkerStep, Beat,
               Conclude, KeepWaiting, MarkStale, Claim, Launch, LaunchFails, EndScan, WorkerDies,
               Activate, Rotate, HeartbeatExpires, ChildExits, TimerExpires, LoseRecord,
               Quiescent, QueueInv, TypeOK, WorkerInv, Worker, vars
      <4> QED BY <4>1, <4>2
    <3> QED BY <2>3, <3>1, SameWorker DEF DeploymentInv
  <2> QED BY <2>1, <2>2, <2>3, DeploymentChanges
<1>3. heartbeat' # None => heartbeat'.deployment <= deployment'
  <2>1. /\ deployment \in Nat /\ deployment' \in {deployment, deployment + 1}
        /\ heartbeat # None => heartbeat.deployment \in Nat
    BY DeploymentChanges, QueueAssumption DEF Activate, QueueInv, TypeOK, DeploymentIds
  <2>2. CASE UNCHANGED heartbeat
    BY <2>1, <2>2 DEF DeploymentInv
  <2>3. CASE Beat /\ heartbeat' = [epoch |-> worker.epoch, deployment |-> worker.deployment]
    BY <2>1, <2>3 DEF Beat, DeploymentInv
  <2> QED BY <2>2, <2>3, SameHeartbeat
<1> QED BY <1>1, <1>2, <1>3 DEF DeploymentInv

\* A step the service shows by its worker or its deployment changes no request.
LEMMA ServiceKept ==
    ASSUME [Next]_vars, ~Rotate
    PROVE  \/ UNCHANGED <<deployment, heartbeat, fresh>>
           \/ UNCHANGED <<index, jobs, archived, answers, launches>>
BY DEF Next, Submit, Prepare, Resume, Replay, CreateJob, Publish, Answer, InterruptGateway, Start,
   Cancel, WriteJob, SubmissionAges, WorkerBoots, Boot, WorkerStep, Beat, Conclude, KeepWaiting,
   MarkStale, Claim, Launch, LaunchFails, EndScan, WorkerDies, Activate, HeartbeatExpires,
   ChildExits, TimerExpires, LoseRecord, vars, store, beats

\* Only a start draws an execution nonce.
LEMMA ExecutionKept ==
    ASSUME QueueInv, [Next]_vars, NEW j \in JobIds, jobs[j] # None, jobs'[j] # None
    PROVE  \/ jobs'[j].execution = jobs[j].execution
           \/ /\ jobs[j].state = "submitted" /\ jobs'[j].state = "queued"
              /\ jobs'[j].execution # 0
PROOF
<1> DEFINE Kept1 == jobs'[j].execution = jobs[j].execution
<1>0. jobs \in [JobIds -> Job \cup {None}] /\ jobs[j] \in Job
  BY RecordTypes
<1>1. ASSUME NEW k \in JobIds, Start(k)
      PROVE  \/ Kept1
             \/ /\ jobs[j].state = "submitted" /\ jobs'[j].state = "queued"
                /\ jobs'[j].execution # 0
  <2>1. CASE k # j
    BY <1>0, <1>1, <2>1 DEF Start, WriteJob
  <2>2. ASSUME k = j, NEW v, jobs' = [jobs EXCEPT ![j] = v]
        PROVE  jobs'[j] = v
    BY <1>0, <2>2
  <2>3. CASE k = j
    <3>1. CASE WriteJob(j, [jobs[j] EXCEPT !.state = "stale", !.updated = TRUE])
      <4>1. [jobs[j] EXCEPT !.state = "stale", !.updated = TRUE].execution = jobs[j].execution
        BY <1>0 DEF Job
      <4> QED BY <2>2, <2>3, <3>1, <4>1 DEF WriteJob
    <3>2. CASE WriteJob(j, [jobs[j] EXCEPT !.state = "queued", !.updated = TRUE,
                                           !.epoch = heartbeat.epoch,
                                           !.execution = @ + 1])
      <4> DEFINE v == [jobs[j] EXCEPT !.state = "queued", !.updated = TRUE,
                                      !.epoch = heartbeat.epoch,
                                      !.execution = jobs[j].execution + 1]
      <4>1. v.state = "queued" /\ v.execution = jobs[j].execution + 1 /\ jobs[j].execution \in Nat
        BY <1>0 DEF Job
      <4>2. jobs' = [jobs EXCEPT ![j] = v]
        BY <3>2 DEF WriteJob
      <4> HIDE DEF v
      <4>3. jobs'[j] = v
        BY <2>2, <2>3, <4>2
      <4> QED BY <1>1, <2>3, <4>1, <4>3 DEF Start
    <3> QED BY <1>1, <2>3, <3>1, <3>2 DEF Start
  <2> QED BY <2>1, <2>3
<1>2. ASSUME NEW k \in JobIds, Cancel(k)
      PROVE  Kept1
  <2> DEFINE s == IF jobs[k].state \in {"submitted", "queued"} THEN "cancelled" ELSE jobs[k].state
             c == jobs[k].cancelRequested \/ jobs[k].state = "running"
             v == [jobs[k] EXCEPT !.state = s, !.cancelRequested = c, !.updated = TRUE]
  <2>1. jobs' = [jobs EXCEPT ![k] = v]
    BY <1>2 DEF Cancel, WriteJob
  <2>2. k = j => v.execution = jobs[j].execution
    BY <1>0 DEF Job
  <2> HIDE DEF v
  <2> QED BY <1>0, <2>1, <2>2
<1>3. ASSUME NEW k \in JobIds, MarkStale(k) \/ Claim(k)
      PROVE  Kept1
  BY <1>0, <1>3 DEF MarkStale, Claim, Job
<1>4. ASSUME LaunchFails
      PROVE  Kept1
  BY <1>0, <1>4 DEF LaunchFails, Job
<1>5. ASSUME Conclude
      PROVE  Kept1
  <2> DEFINE a == worker.active
             x == IF jobs[a].cancelRequested \/ worker.late THEN jobs[a].exit ELSE worker.child
  <2>1. PICK final :
          jobs' = [jobs EXCEPT ![a] = [jobs[a] EXCEPT !.state = final, !.result = final,
                                                      !.updated = TRUE, !.exit = x]]
    BY <1>5 DEF Conclude
  <2> DEFINE v == [jobs[a] EXCEPT !.state = final, !.result = final, !.updated = TRUE, !.exit = x]
  <2>2. a = j => v.execution = jobs[j].execution
    BY <1>0 DEF Job
  <2>3. jobs' = [jobs EXCEPT ![a] = v]
    BY <2>1
  <2> HIDE DEF v
  <2> QED BY <1>0, <2>2, <2>3
<1>6. ASSUME CreateJob
      PROVE  Kept1
  <2>1. jobs[index[pending].job] = None
    BY <1>6 DEF CreateJob, PublicationAction
  <2> QED BY <1>0, <1>6, <2>1 DEF CreateJob
<1>7. ASSUME UNCHANGED jobs
      PROVE  Kept1
  BY <1>7
<1>8. \A n \in Nonces, d \in Digests, k \in JobIds :
        Prepare(n, d, k) \/ Resume(n, d) \/ Replay(n, d) => UNCHANGED jobs
  BY DEF Prepare, Resume, Replay, store
<1>9. Publish \/ Answer \/ InterruptGateway \/ WorkerBoots \/ Beat \/ KeepWaiting \/ Launch
        \/ EndScan \/ WorkerDies \/ Activate \/ HeartbeatExpires \/ ChildExits \/ TimerExpires
        \/ UNCHANGED vars => UNCHANGED jobs
  BY DEF Publish, Answer, InterruptGateway, WorkerBoots, Boot, Beat, KeepWaiting, Launch,
     EndScan, WorkerDies, Activate, HeartbeatExpires, ChildExits, TimerExpires, vars, store
<1>10. \A k \in JobIds : SubmissionAges(k) => UNCHANGED jobs
  BY DEF SubmissionAges, store
<1>11. Rotate => FALSE
  BY DEF Rotate
<1>12. LoseRecord => Kept1
  BY <1>0 DEF LoseRecord
<1> HIDE DEF Kept1
<1>13. Submit => Kept1
  BY <1>6, <1>7, <1>8, <1>9 DEF Submit
<1>14. WorkerStep => Kept1
  BY <1>3, <1>4, <1>5, <1>7, <1>9 DEF WorkerStep
<1>15. (\E k \in JobIds : Start(k) \/ Cancel(k) \/ SubmissionAges(k))
         => Kept1 \/ \E k \in JobIds : Start(k)
  BY <1>2, <1>7, <1>10
<1>16. Kept1 \/ \E k \in JobIds : Start(k)
  BY <1>7, <1>9, <1>11, <1>12, <1>13, <1>14, <1>15 DEF Next
<1> QED BY <1>1, <1>16 DEF Kept1
LEMMA ShelfStep ==
    ASSUME QueueInv, HistoryInv, ShelfInv, ServedNext, ~LoseRecord
    PROVE  ShelfInv'
PROOF
<1> SUFFICES ASSUME NEW n \in Nonces, archived'[n] # None
             PROVE  shelf'[n].deployment # None
  BY DEF ShelfInv, Archived
<1>0. /\ Next /\ index \in [Nonces -> Index \cup {None}]
      /\ shelf'[n] = IF archived[n] = None THEN RecordOf(n) ELSE shelf[n]
  BY RecordTypes DEF ServedNext, Shelved
<1>1. CASE archived[n] # None
  BY <1>0, <1>1 DEF ShelfInv, Archived
<1>2. CASE archived[n] = None
  <2>1. Rotate
    BY <1>0, <1>2, EveryIndex DEF Reserves, Publishes
  <2>2. index[n] # None
    BY <1>2, <2>1 DEF Rotate, Tombstone
  <2>3. RecordOf(n).deployment \in DeploymentIds
    BY <1>0, <2>2 DEF RecordOf, Index
  <2> QED BY <1>0, <1>2, <2>3, NoneIsNoDeployment
<1> QED BY <1>1, <1>2

LEMMA ServedInvariant ==
    ASSUME MaxLosses = 0
    PROVE  ServedSpec => []ServedInv
PROOF
<1>1. Init => DeploymentInv /\ ShelfInv
  BY DEF Init, DeploymentInv, ShelfInv, Archived
<1>2. RefineInv /\ DeploymentInv /\ ShelfInv /\ [ServedNext]_ServedVars => (DeploymentInv /\ ShelfInv)'
  <2> SUFFICES ASSUME RefineInv, DeploymentInv, ShelfInv, [ServedNext]_ServedVars
               PROVE  DeploymentInv' /\ ShelfInv'
    OBVIOUS
  <2>1. QueueInv /\ HistoryInv /\ ~LoseRecord /\ [Next]_vars
    BY NoLoss DEF RefineInv, ServedNext, ServedVars
  <2>2. DeploymentInv'
    BY <2>1, DeploymentStep
  <2>3. CASE ServedNext
    BY <2>1, <2>2, <2>3, ShelfStep
  <2>4. CASE UNCHANGED ServedVars
    BY <2>2, <2>4 DEF ServedVars, vars, store, ShelfInv, Archived
  <2> QED BY <2>3, <2>4
<1>3. ServedSpec => Spec
  <2>1. ServedInit => Init
    BY DEF ServedInit
  <2>2. [ServedNext]_ServedVars => [Next]_vars
    BY DEF ServedNext, ServedVars
  <2> QED BY <2>1, <2>2, PTL DEF ServedSpec, Spec
<1>4. Spec => []RefineInv
  BY RefineInvariant
<1>5. ServedInit => Init
  BY DEF ServedInit
<1> QED BY <1>1, <1>2, <1>3, <1>4, <1>5, PTL DEF ServedSpec, ServedInv

-----------------------------------------------------------------------------
(* The steps of the service. *)

SameKept(S) == \A n \in S : Kept(n)' = Kept(n)
SameService == UNCHANGED <<deployment, WorkerAvailable>>

LEMMA StutterServes ==
    ASSUME SameStages(Nonces), SameRuns, SameKept(Nonces), SameService
    PROVE  UNCHANGED Service!server
BY DEF SameStages, SameRuns, SameKept, SameService, Service!server

LEMMA MoveServes ==
    ASSUME NEW n \in Nonces, NEW from, NEW to, StageOf(n) \in from, StageOf(n)' = to,
           SameStages(Nonces \ {n}), SameRuns
    PROVE  Service!Move(n, from, to)
BY DEF SameStages, SameRuns, Service!Move

\* What the service keeps of one request changes in one respect.
LEMMA KeptChanges ==
    ASSUME NEW n \in Nonces, SameKept(Nonces \ {n}), NEW d, NEW e, NEW o,
           Kept(n) = [deployment |-> d, executed |-> e, outcome |-> o]
    PROVE  LET before == [m \in Nonces |-> Kept(m)]
               after == [m \in Nonces |-> Kept(m)'] IN
           /\ \A x : Kept(n)' = [deployment |-> x, executed |-> e, outcome |-> o]
                       => after = [before EXCEPT ![n].deployment = x]
           /\ \A x : Kept(n)' = [deployment |-> d, executed |-> x, outcome |-> o]
                       => after = [before EXCEPT ![n].executed = x]
           /\ \A x : Kept(n)' = [deployment |-> d, executed |-> e, outcome |-> x]
                       => after = [before EXCEPT ![n].outcome = x]
PROOF
<1> DEFINE before == [m \in Nonces |-> Kept(m)]
           after == [m \in Nonces |-> Kept(m)']
<1>0. \A m \in Nonces \ {n} : after[m] = before[m]
  BY DEF SameKept
<1>1. after[n] = Kept(n)' /\ before[n] = Kept(n)
  OBVIOUS
<1>2. DOMAIN after = Nonces /\ DOMAIN before = Nonces /\ after \in [Nonces -> {after[m] : m \in Nonces}]
      /\ after = [m \in Nonces |-> after[m]] /\ before = [m \in Nonces |-> before[m]]
  OBVIOUS
<1> HIDE DEF before, after
<1>3. ASSUME NEW x, Kept(n)' = [deployment |-> x, executed |-> e, outcome |-> o]
      PROVE  after = [before EXCEPT ![n].deployment = x]
  <2>1. [before EXCEPT ![n].deployment = x][n] = [deployment |-> x, executed |-> e, outcome |-> o]
    BY <1>1, <1>2
  <2> QED BY <1>0, <1>1, <1>2, <1>3, <2>1
<1>4. ASSUME NEW x, Kept(n)' = [deployment |-> d, executed |-> x, outcome |-> o]
      PROVE  after = [before EXCEPT ![n].executed = x]
  <2>1. [before EXCEPT ![n].executed = x][n] = [deployment |-> d, executed |-> x, outcome |-> o]
    BY <1>1, <1>2
  <2> QED BY <1>0, <1>1, <1>2, <1>4, <2>1
<1>5. ASSUME NEW x, Kept(n)' = [deployment |-> d, executed |-> e, outcome |-> x]
      PROVE  after = [before EXCEPT ![n].outcome = x]
  <2>1. [before EXCEPT ![n].outcome = x][n] = [deployment |-> d, executed |-> e, outcome |-> x]
    BY <1>1, <1>2
  <2> QED BY <1>0, <1>1, <1>2, <1>5, <2>1
<1> QED BY <1>3, <1>4, <1>5 DEF before, after
\* A request whose job was launched was executed once.
LEMMA RunsOf ==
    ASSUME MaxLosses = 0, RefineInv, NEW n \in Indexed,
           jobs[index[n].job] # None, jobs[index[n].job].state # "submitted",
           launches[index[n].job] # 0
    PROVE  Cardinality(Executions(n)) = 1
PROOF
<1> DEFINE j == index[n].job
<1>0. /\ QueueInv /\ AnswerInv /\ StartedInv /\ j \in JobIds
      /\ answers \subseteq Nonces \X Digests \X JobIds /\ n \in Nonces
  BY RecordTypes DEF RefineInv, QueueInv, TypeOK, Indexed, Index
<1>1. launches[j] = 1
  BY <1>0, RecordTypes DEF QueueInv, LaunchedOnce
<1>2. PICK a \in answers : a[3] = j
  BY <1>0 DEF StartedInv, Existing
<1>3. a[1] = n /\ a[2] \in Digests /\ a = <<n, a[2], j>>
  <2>1. a[1] = n /\ a \in Nonces \X Digests \X JobIds
    BY <1>0, <1>2 DEF StartedInv
  <2> QED BY <1>2, <2>1
<1> HIDE DEF j
<1>4. AnsweredJobs(n) = {j}
  <2>1. \A k \in JobIds, d \in Digests : <<n, d, k>> \in answers => k = j
    BY <1>0, <1>2, <1>3 DEF AnswerInv, OneJobPerRequest
  <2> QED BY <1>0, <1>2, <1>3, <2>1 DEF AnsweredJobs
<1>5. Executions(n) = {<<j, 1>>}
  <2>1. Executions(n) = {j} \X (1 .. launches[j])
    BY <1>4 DEF Executions
  <2>2. 1 .. 1 = {1}
    OBVIOUS
  <2> QED BY <1>1, <2>1, <2>2
<1> QED BY <1>5, FS_Singleton

\* A change of a job that a client asks for, or a claim, is of the active deployment.
LEMMA Addressed ==
    ASSUME QueueInv, DeploymentInv, [Next]_vars, NEW j \in JobIds, jobs[j] # None, jobs'[j] # None,
           jobs'[j].state # jobs[j].state
    PROVE  \/ jobs[j].deployment = deployment
           \/ jobs[j].state = "queued" /\ jobs'[j].state = "stale"
           \/ jobs[j].state = "running"
PROOF
<1>0. jobs \in [JobIds -> Job \cup {None}] /\ jobs[j] # jobs'[j]
  BY RecordTypes
<1>1. ASSUME NEW k \in JobIds, Start(k) \/ Cancel(k)
      PROVE  jobs[j].deployment = deployment
  <2>1. k = j
    BY <1>0, <1>1 DEF Start, Cancel, WriteJob
  <2> QED BY <1>1, <2>1 DEF Start, Cancel, Accessible
<1>2. ASSUME NEW k \in JobIds, Claim(k)
      PROVE  jobs[j].deployment = deployment
  <2>1. k = j
    BY <1>0, <1>2 DEF Claim
  <2> QED BY <1>2, <2>1 DEF Claim, DeploymentInv
<1>3. ASSUME NEW k \in JobIds, MarkStale(k)
      PROVE  \/ jobs[j].state = "queued" /\ jobs'[j].state = "stale"
             \/ jobs[j].state = "running"
  <2>1. k = j
    BY <1>0, <1>3 DEF MarkStale
  <2>2. jobs'[j].state = "stale"
    BY <1>0, <1>3, <2>1 DEF MarkStale, Job
  <2> QED BY <1>3, <2>1, <2>2 DEF MarkStale, Orphaned
<1>4. ASSUME Conclude \/ LaunchFails
      PROVE  jobs[j].state = "running"
  <2>1. worker.active = j
    BY <1>0, <1>4 DEF Conclude, LaunchFails
  <2> QED BY <1>4, <2>1, RecordTypes DEF Conclude, LaunchFails, QueueInv, WorkerInv, ActiveInv
<1>5. ~CreateJob
  <2>1. CreateJob => jobs[index[pending].job] = None
    BY DEF CreateJob, PublicationAction
  <2> QED BY <1>0, <2>1 DEF CreateJob
<1>6. ~UNCHANGED jobs
  BY <1>0
<1>7. \A n \in Nonces, d \in Digests, k \in JobIds :
        Prepare(n, d, k) \/ Resume(n, d) \/ Replay(n, d) => UNCHANGED jobs
  BY DEF Prepare, Resume, Replay, store
<1>8. Publish \/ Answer \/ InterruptGateway \/ WorkerBoots \/ Beat \/ KeepWaiting \/ Launch
        \/ EndScan \/ WorkerDies \/ Activate \/ HeartbeatExpires \/ ChildExits \/ TimerExpires
        \/ UNCHANGED vars => UNCHANGED jobs
  BY DEF Publish, Answer, InterruptGateway, WorkerBoots, Boot, Beat, KeepWaiting, Launch,
     EndScan, WorkerDies, Activate, HeartbeatExpires, ChildExits, TimerExpires, vars, store
<1>9. \A k \in JobIds : SubmissionAges(k) => UNCHANGED jobs
  BY DEF SubmissionAges, store
<1>10. ~Rotate /\ ~LoseRecord
  BY <1>0 DEF Rotate, LoseRecord
<1> QED BY <1>1, <1>2, <1>3, <1>4, <1>5, <1>6, <1>7, <1>8, <1>9, <1>10 DEF Next, Submit, WorkerStep
\* What a change of its job does to a published request.
LEMMA JobServes ==
    ASSUME MaxLosses = 0, ServedInv, [Next]_vars, NEW n \in Indexed, index[n].phase = "published",
           UNCHANGED <<index, archived>>, ~Rotate, ~LoseRecord, ~Launch,
           SameStages(Nonces \ {n}), SameRuns, SameKept(Nonces \ {n}), SameService
    PROVE  [Service!ServiceNext]_(Service!server)
PROOF
<1> DEFINE j == index[n].job
           Serves == [Service!ServiceNext]_(Service!server)
<1>0. /\ QueueInv /\ HistoryInv /\ AnswerInv /\ StartedInv /\ RefineInv /\ DeploymentInv
      /\ n \in Nonces /\ index[n] # None /\ index[n] \in Index /\ j \in JobIds /\ losses = 0
  BY RecordTypes, NoLoss DEF ServedInv, RefineInv, Indexed, Index
<1>1. /\ jobs[j] # None /\ jobs[j] \in Job /\ jobs[j].deployment = index[n].deployment
      /\ archived[n] = None /\ index[n].deployment \in DeploymentIds
  BY <1>0, RecordTypes DEF AnswerInv, PublishedInv, SameBinding, HistoryInv, HistoryBounded,
     Archived, Indexed, Index
<1>2. jobs'[j] # None /\ Changed(j)
  BY <1>0, <1>1, EveryChange, BindingKept
<1>3. /\ StageOf(n) = IF jobs[j].state \in Terminal THEN "ended" ELSE jobs[j].state
      /\ StageOf(n)' = IF jobs'[j].state \in Terminal THEN "ended" ELSE jobs'[j].state
  BY <1>0, <1>1 DEF StageOf
<1>4. /\ Kept(n) = [deployment |-> index[n].deployment, executed |-> jobs[j].execution # 0,
                    outcome |-> Outcome(jobs[j])]
      /\ Kept(n)' = [deployment |-> index[n].deployment, executed |-> jobs'[j].execution # 0,
                     outcome |-> Outcome(jobs'[j])]
  BY <1>0, <1>1, <1>2 DEF Kept, RecordOf, Outcome
<1>5. jobs'[j] = jobs[j] => Serves
  <2>1. ASSUME jobs'[j] = jobs[j]
        PROVE  SameStages(Nonces) /\ SameKept(Nonces)
    BY <1>3, <1>4, <2>1 DEF SameStages, SameKept
  <2> QED BY <2>1, StutterServes
<1>6. launches[j] # 0 /\ jobs[j].state # "submitted" => Cardinality(Executions(n)) = 1
  BY <1>0, <1>1, RunsOf
<1>7. UNCHANGED [deployment |-> deployment, beating |-> WorkerAvailable]
  BY DEF SameService
<1> HIDE DEF j
<1>8. jobs[j].deployment = deployment /\ StageOf(n) \in {"submitted", "queued", "running", "ended"}
        => Service!Found(n)
  BY <1>0, <1>1, <1>4 DEF Service!Found, Service!Held
<1>9. ASSUME jobs'[j].execution = jobs[j].execution, jobs[j].state \in {"submitted", "queued", "running"},
             jobs'[j].state \in Terminal
      PROVE  /\ Service!Ends(n, Outcome(jobs'[j])) /\ Outcome(jobs'[j]) \in Service!Outcomes
             /\ jobs'[j].state # "completed" => Outcome(jobs'[j]) = "ended otherwise"
             /\ StageOf(n) = jobs[j].state
  <2>1. StageOf(n) = jobs[j].state /\ StageOf(n)' = "ended"
    BY <1>3, <1>9 DEF Terminal
  <2>2. Service!End(n)
    BY <1>0, <1>9, <2>1, MoveServes DEF Service!End
  <2>3. Kept(n)' = [deployment |-> index[n].deployment, executed |-> jobs[j].execution # 0,
                    outcome |-> Outcome(jobs'[j])]
    BY <1>4, <1>9
  <2>4. [m \in Nonces |-> Kept(m)]' = [[m \in Nonces |-> Kept(m)] EXCEPT ![n].outcome = Outcome(jobs'[j])]
    BY <1>0, <1>4, <2>3, KeptChanges
  <2>5. Outcome(jobs'[j]) \in Service!Outcomes
        /\ (jobs'[j].state # "completed" => Outcome(jobs'[j]) = "ended otherwise")
    BY <1>9 DEF Outcome, Service!Outcomes
  <2> QED BY <2>1, <2>2, <2>4, <2>5 DEF Service!Ends
<1>10. ASSUME Service!JobEnds(n)
       PROVE  Serves
  BY <1>0, <1>7, <1>10 DEF Service!Worker, Service!ServiceNext
<1>11. ASSUME NEW op \in Service!Calls, Service!Accepted(op, n)
       PROVE  Serves
  BY <1>0, <1>11 DEF Service!ServiceNext
<1>12. Untouched(j) => Serves
  BY <1>5 DEF Untouched
<1>13. ~Created(j) /\ ~Gone(j)
  BY <1>1 DEF Created, Gone
<1>14. ~Executed(j)
  <2>1. UNCHANGED launches
    BY <1>0, LaunchesKept
  <2> QED BY <2>1 DEF Executed
<1>15. jobs'[j].execution = jobs[j].execution \/ Queued(j)
  <2>1. jobs[j].state = "submitted" /\ jobs'[j].state = "queued" => Queued(j)
    BY <1>2, <1>12, <1>13, <1>14
       DEF Changed, Untouched, Staled, Cancelled, Claimed, NotStarted, Concluded, Written
  <2> QED BY <1>0, <1>1, <1>2, <2>1, ExecutionKept
<1>16. CASE Staled(j)
  <2>1. /\ jobs'[j].execution = jobs[j].execution /\ jobs'[j].state = "stale"
        /\ jobs[j].state \in {"submitted", "queued", "running"}
    BY <1>16, <1>15 DEF Staled, Written, Queued
  <2>2. Service!Ends(n, "ended otherwise") /\ StageOf(n) = jobs[j].state
    BY <1>9, <2>1 DEF Terminal
  <2>3. CASE jobs[j].state = "submitted"
    <3>1. jobs[j].deployment = deployment
      BY <1>0, <1>1, <1>2, <2>1, <2>3, Addressed
    <3>2. Service!Starts(n) /\ Service!Found(n)
      BY <1>0, <1>8, <2>2, <2>3, <3>1 DEF Service!Starts
    <3>3. Service!Accepted("start", n)
      BY <1>7, <3>2 DEF Service!Accepted
    <3> QED BY <1>11, <3>3 DEF Service!Calls
  <2>4. CASE jobs[j].state # "submitted"
    <3>1. Service!JobEnds(n)
      BY <1>0, <2>1, <2>2, <2>4 DEF Service!JobEnds, Service!Outcomes
    <3> QED BY <1>10, <3>1
  <2> QED BY <2>3, <2>4
<1>17. CASE Queued(j)
  <2>1. /\ jobs[j].state = "submitted" /\ jobs'[j].state = "queued" /\ WorkerAvailable
        /\ jobs[j].deployment = deployment /\ jobs'[j].execution # 0
    <3>1. /\ jobs[j].state = "submitted" /\ jobs'[j].state = "queued" /\ WorkerAvailable
          /\ jobs[j].deployment = deployment
      BY <1>17 DEF Queued, Written, Start, Accessible
    <3>2. jobs'[j].execution # 0
      <4>1. jobs' = [jobs EXCEPT ![j] = [jobs[j] EXCEPT !.state = "queued", !.updated = TRUE,
                                         !.epoch = heartbeat.epoch, !.execution = @ + 1]]
        <5>1. jobs' # [jobs EXCEPT ![j] = [jobs[j] EXCEPT !.state = "stale", !.updated = TRUE]]
          BY <1>0, <1>1, <3>1, RecordTypes DEF Job
        <5> QED BY <1>17, <5>1 DEF Queued, Start, WriteJob
      <4>2. jobs[j].execution \in Nat
        BY <1>1 DEF Job
      <4>3. jobs'[j].execution = jobs[j].execution + 1
        BY <1>0, <1>1, <4>1, RecordTypes DEF Job
      <4> QED BY <4>2, <4>3
    <3> QED BY <3>1, <3>2
  <2>2. StageOf(n) = "submitted" /\ StageOf(n)' = "queued"
    BY <1>3, <2>1 DEF Terminal
  <2>3. Service!Start(n)
    BY <1>0, <2>2, MoveServes DEF Service!Start
  <2>4. Kept(n)' = [deployment |-> index[n].deployment, executed |-> TRUE,
                    outcome |-> Outcome(jobs[j])]
    BY <1>4, <2>1 DEF Outcome, Terminal
  <2>5. [m \in Nonces |-> Kept(m)]' = [[m \in Nonces |-> Kept(m)] EXCEPT ![n].executed = TRUE]
    <3> DEFINE e == jobs[j].execution # 0
    <3>1. Kept(n) = [deployment |-> index[n].deployment, executed |-> e, outcome |-> Outcome(jobs[j])]
      BY <1>4
    <3> HIDE DEF e
    <3>2. \A x : Kept(n)' = [deployment |-> index[n].deployment, executed |-> x, outcome |-> Outcome(jobs[j])]
                   => [m \in Nonces |-> Kept(m)'] = [[m \in Nonces |-> Kept(m)] EXCEPT ![n].executed = x]
      BY <1>0, <3>1, KeptChanges
    <3> QED BY <2>4, <3>2, Zenon
  <2>6. Service!Starts(n)
    BY <1>0, <2>1, <2>2, <2>3, <2>5 DEF Service!Starts
  <2>7. Service!Accepted("start", n)
    BY <1>7, <1>8, <2>1, <2>2, <2>6 DEF Service!Accepted
  <2> QED BY <1>11, <2>7 DEF Service!Calls
<1>18. CASE Cancelled(j)
  <2>1. /\ jobs'[j].execution = jobs[j].execution
        /\ jobs'[j].state = IF jobs[j].state \in {"submitted", "queued"} THEN "cancelled" ELSE jobs[j].state
    <3>1. jobs'[j].state = IF jobs[j].state \in {"submitted", "queued"} THEN "cancelled" ELSE jobs[j].state
      BY <1>18 DEF Cancelled, Written
    <3> QED BY <1>15, <3>1 DEF Queued, Written
  <2>2. CASE jobs[j].state \in {"submitted", "queued"}
    <3>1. jobs'[j].state = "cancelled"
      BY <2>1, <2>2
    <3>2. Service!Ends(n, "ended otherwise") /\ StageOf(n) = jobs[j].state
      BY <1>9, <2>1, <2>2, <3>1 DEF Terminal
    <3>3. jobs[j].deployment = deployment
      BY <1>0, <1>1, <1>2, <2>2, <3>1, Addressed
    <3>4. Service!Cancels(n) /\ Service!Found(n)
      BY <1>0, <1>8, <2>2, <3>2, <3>3 DEF Service!Cancels
    <3>5. Service!Accepted("cancel", n)
      BY <1>7, <3>4 DEF Service!Accepted
    <3> QED BY <1>11, <3>5 DEF Service!Calls
  <2>3. CASE jobs[j].state \notin {"submitted", "queued"}
    <3>1. SameStages(Nonces) /\ SameKept(Nonces)
      BY <1>3, <1>4, <2>1, <2>3 DEF SameStages, SameKept, Outcome
    <3> QED BY <3>1, StutterServes
  <2> QED BY <2>2, <2>3
<1>19. CASE Claimed(j)
  <2>1. /\ jobs[j].state = "queued" /\ jobs'[j].state = "running"
        /\ jobs'[j].execution = jobs[j].execution
    BY <1>15, <1>19 DEF Claimed, Written, Queued
  <2>2. StageOf(n) = "queued" /\ StageOf(n)' = "running"
    BY <1>3, <2>1 DEF Terminal
  <2>3. Service!Claim(n)
    BY <1>0, <2>2, MoveServes DEF Service!Claim
  <2>4. SameKept(Nonces)
    BY <1>4, <2>1 DEF SameKept, Outcome, Terminal
  <2>5. jobs[j].deployment = deployment
    BY <1>0, <1>1, <1>2, <2>1, Addressed
  <2>6. Service!WorkerClaims(n)
    BY <1>8, <2>2, <2>3, <2>4, <2>5 DEF Service!WorkerClaims, SameKept
  <2> QED BY <1>0, <1>7, <2>6 DEF Service!Worker, Service!ServiceNext
<1>20. CASE NotStarted(j) \/ Concluded(j)
  <2>1. /\ jobs[j].state = "running" /\ jobs'[j].state \in Terminal
        /\ jobs'[j].state = "completed" => launches[j] # 0
    BY <1>20 DEF NotStarted, Concluded, Written, Verdict, Terminal
  <2>2. jobs'[j].execution = jobs[j].execution
    BY <1>15, <2>1 DEF Queued
  <2>3. /\ Service!Ends(n, Outcome(jobs'[j])) /\ StageOf(n) = "running"
        /\ Outcome(jobs'[j]) \in Service!Outcomes
        /\ Outcome(jobs'[j]) = "completed" => Cardinality(Executions(n)) = 1
    BY <1>6, <1>9, <2>1, <2>2
  <2>4. Service!JobEnds(n)
    BY <1>0, <2>3 DEF Service!JobEnds
  <2> QED BY <1>10, <2>4
<1> QED BY <1>2, <1>12, <1>13, <1>14, <1>16, <1>17, <1>18, <1>19, <1>20 DEF Changed
LEMMA SameView ==
    ASSUME Shelved, UNCHANGED archived, NEW n \in Nonces,
           index[n] = None => index'[n] = None,
           index[n] # None => index'[n] = index[n] /\ jobs'[index[n].job] = jobs[index[n].job]
    PROVE  Kept(n)' = Kept(n)
BY DEF Shelved, Kept, RecordOf, Outcome

\* A reservation is a submission of which nothing is heard yet.
LEMMA PrepareServes ==
    ASSUME MaxLosses = 0, ServedInv, Shelved, [Next]_vars,
           NEW n \in Nonces, NEW d \in Digests, NEW k \in JobIds, Prepare(n, d, k)
    PROVE  Service!Dies(n)
PROOF
<1> DEFINE i == [phase |-> "prepared", job |-> k, nonce |-> n, digest |-> d, deployment |-> deployment]
<1>0. /\ QueueInv /\ RefineInv /\ deployment \in DeploymentIds
      /\ index \in [Nonces -> Index \cup {None}]
  BY RecordTypes DEF ServedInv, RefineInv, QueueInv, TypeOK
<1>1. /\ index[n] = None /\ archived[n] = None /\ WorkerAvailable /\ k \notin allocated
      /\ index' = [index EXCEPT ![n] = i]
      /\ UNCHANGED <<jobs, archived, deployment, heartbeat, fresh>>
  BY DEF Prepare, beats
<1>2. i \in Index /\ i # None /\ i.phase = "prepared" /\ i.job = k /\ i.deployment = deployment
  BY <1>0, NoneIsNoRecord DEF Index
<1> HIDE DEF i
<1>3. index'[n] = i /\ \A m \in Nonces \ {n} : index'[m] = index[m]
  BY <1>0, <1>1
<1>4. jobs[k] = None
  BY <1>0, <1>1 DEF QueueInv, FreshInv
<1>5. Kept(n) = [deployment |-> None, executed |-> FALSE, outcome |-> None]
  BY <1>1 DEF Kept, RecordOf, Nothing
<1>6. Kept(n)' = [deployment |-> deployment, executed |-> FALSE, outcome |-> None]
  BY <1>1, <1>2, <1>3, <1>4 DEF Kept, RecordOf
<1>7. \A m \in Nonces \ {n} : Kept(m)' = Kept(m)
  BY <1>1, <1>3, SameView
<1>8. [m \in Nonces |-> Kept(m)]' = [[m \in Nonces |-> Kept(m)] EXCEPT ![n].deployment = deployment]
  <2> DEFINE no == FALSE
  <2>1. Kept(n) = [deployment |-> None, executed |-> no, outcome |-> None]
    BY <1>5
  <2>2. Kept(n)' = [deployment |-> deployment, executed |-> no, outcome |-> None]
    BY <1>6
  <2> HIDE DEF no
  <2> QED BY <1>7, <2>1, <2>2, KeptChanges DEF SameKept
<1>9. \A m \in Nonces : StageOf(m)' = StageOf(m)
  <2>1. StageOf(n) = "new" /\ StageOf(n)' = "new"
    BY <1>1, <1>2, <1>3 DEF StageOf
  <2> QED BY <1>1, <1>3, <2>1 DEF StageOf
<1>10. SameRuns
  <2>1. ~Launch
    BY DEF Prepare, Launch, StoreFree
  <2> QED BY <1>0, <2>1, RunsKept
<1>11. WorkerAvailable' = WorkerAvailable
  BY <1>1 DEF WorkerAvailable
<1>12. Service!Prepares(n)
  <2>1. StageOf(n) = "new"
    BY <1>1 DEF StageOf
  <2> QED BY <1>1, <1>5, <1>8, <2>1 DEF Service!Prepares, Service!Unheard
<1> QED BY <1>1, <1>9, <1>10, <1>11, <1>12 DEF Service!Dies, SameRuns

LEMMA OnlyPrepareReserves ==
    ASSUME QueueInv, [Next]_vars, NEW n \in Nonces, Reserves(n)
    PROVE  \E d \in Digests, k \in JobIds : Prepare(n, d, k)
PROOF
<1>1. pending = None /\ pending' = n /\ n # None /\ index[n] = None /\ index'[n] # None
  BY QueueAssumption, NoneIsNoRecord DEF Reserves, StoreFree
<1>2. UNCHANGED pending => FALSE
  BY <1>1
<1>3. \E m \in Nonces, d \in Digests : Resume(m, d) \/ \E k \in JobIds : Prepare(m, d, k)
  BY <1>1, <1>2 DEF Next, Submit, Replay, CreateJob, Publish, Answer, InterruptGateway, Start,
   Cancel, WriteJob, SubmissionAges, WorkerBoots, Boot, WorkerStep, Beat, Conclude, KeepWaiting,
   MarkStale, Claim, Launch, LaunchFails, EndScan, WorkerDies, Activate, Rotate, HeartbeatExpires,
   ChildExits, TimerExpires, LoseRecord, vars
<1>4. \A m \in Nonces, d \in Digests : ~Resume(m, d)
  BY <1>1 DEF Resume, store
<1>5. \A m \in Nonces, d \in Digests, k \in JobIds : Prepare(m, d, k) => m = n
  BY <1>1 DEF Prepare
<1> QED BY <1>3, <1>4, <1>5

\* The publication is the submission the service knows.
LEMMA PublishServes ==
    ASSUME MaxLosses = 0, ServedInv, Shelved, [Next]_vars, ~Launch, ~Rotate,
           UNCHANGED <<deployment, heartbeat, fresh>>, NEW n \in Nonces, Publishes(n)
    PROVE  Service!ServiceNext
PROOF
<1>0. /\ QueueInv /\ HistoryInv /\ RefineInv /\ DeploymentInv
      /\ index \in [Nonces -> Index \cup {None}]
  BY RecordTypes DEF ServedInv, RefineInv
<1>1. /\ index[n] # None /\ index[n] \in Index /\ index[n].phase = "prepared" /\ n = pending
      /\ index[n].deployment = deployment /\ pending # None
      /\ jobs[index[n].job] = Initial(index[n]) /\ jobs' = jobs /\ archived' = archived
      /\ \A m \in Nonces : m # n => index'[m] = index[m]
      /\ index'[n] = [index[n] EXCEPT !.phase = "published"]
  BY <1>0, QueueAssumption DEF Publishes, DeploymentInv
<1>2. /\ index'[n].phase = "published" /\ index'[n].job = index[n].job /\ index'[n] # None
      /\ index'[n].deployment = index[n].deployment
  <2>1. index'[n] \in Index
    BY <1>1 DEF Index
  <2> QED BY <1>1, <2>1, NoneIsNoRecord DEF Index
<1>3. archived[n] = None
  BY <1>0, <1>1 DEF HistoryInv, HistoryBounded, Archived, Indexed
<1>4. StageOf(n) = "new" /\ StageOf(n)' = "submitted"
  <2>1. Initial(index[n]).state = "submitted"
    BY DEF Initial
  <2> QED BY <1>1, <1>2, <1>3, <2>1 DEF StageOf, Terminal
<1>5. SameStages(Nonces \ {n})
  BY <1>1 DEF SameStages, StageOf
<1>6. Service!Accept(n)
  BY <1>0, <1>4, <1>5, RunsKept, MoveServes DEF Service!Accept
<1>7. Kept(n)' = Kept(n) /\ Kept(n).deployment = deployment
  BY <1>1, <1>2, <1>3 DEF Kept, RecordOf, Outcome
<1>8. \A m \in Nonces : Kept(m)' = Kept(m)
  BY <1>1, <1>7, SameView
<1>9. WorkerAvailable' = WorkerAvailable
  BY DEF WorkerAvailable
<1>10. Service!Submits(n)
  BY <1>6, <1>7, <1>8 DEF Service!Submits
<1>11. Service!Accepted("submit", n)
  BY <1>9, <1>10 DEF Service!Accepted
<1> QED BY <1>11 DEF Service!ServiceNext, Service!Calls

\* The records move to the archive as they are.
LEMMA RotateServes ==
    ASSUME MaxLosses = 0, ServedInv, Shelved, Next, Rotate
    PROVE  Service!ServiceNext
PROOF
<1>0. /\ QueueInv /\ HistoryInv /\ RefineInv /\ ShelfInv
      /\ index \in [Nonces -> Index \cup {None}]
  BY RecordTypes DEF ServedInv, RefineInv
<1>1. Service!Archive(Filed)
  <2>1. ~Launch
    BY DEF Rotate, Quiescent, Launch
  <2> QED BY <1>0, <2>1, RunsKept, RotationMaps DEF Lifecycle!Archive, Service!Archive
<1>2. ASSUME NEW n \in Nonces
      PROVE  Kept(n)' = Kept(n) /\ (n \in Filed => Kept(n).deployment # None)
  <2>0. /\ archived'[n] = IF index[n] # None THEN index[n].digest ELSE archived[n]
        /\ index'[n] = None
        /\ shelf'[n] = IF archived[n] = None /\ archived'[n] # None THEN RecordOf(n) ELSE shelf[n]
    BY DEF Rotate, Tombstone, Shelved
  <2>1. CASE archived[n] # None
    <3>1. index[n] = None
      BY <1>0, <2>1 DEF HistoryInv, HistoryBounded, Archived, Indexed
    <3> QED BY <1>0, <2>0, <2>1, <3>1 DEF Kept, ShelfInv, Archived
  <2>2. CASE archived[n] = None /\ index[n] # None
    <3>1. index[n].digest # None /\ index[n].deployment # None
      BY <1>0, <2>2, QueueAssumption, NoneIsNoDeployment DEF Index
    <3>2. Kept(n) = RecordOf(n) /\ Kept(n)' = RecordOf(n)
      BY <2>0, <2>2, <3>1 DEF Kept
    <3> QED BY <2>2, <3>1, <3>2 DEF RecordOf
  <2>3. CASE archived[n] = None /\ index[n] = None
    BY <2>0, <2>3 DEF Kept, RecordOf, Filed
  <2> QED BY <2>1, <2>2, <2>3
<1>3. ~WorkerAvailable' /\ UNCHANGED deployment
  BY DEF Rotate, WorkerAvailable
<1>4. Filed \in SUBSET {n \in Nonces : [m \in Nonces |-> Kept(m)][n].deployment # None}
  BY <1>2 DEF Filed
<1>5. [deployment |-> deployment, beating |-> WorkerAvailable]'
        = [[deployment |-> deployment, beating |-> WorkerAvailable] EXCEPT !.beating = FALSE]
  <2>1. WorkerAvailable' = FALSE
    BY <1>3
  <2>2. \A d, a, b : [[deployment |-> d, beating |-> a] EXCEPT !.beating = b]
                        = [deployment |-> d, beating |-> b]
    OBVIOUS
  <2>3. deployment' = deployment
    BY <1>3
  <2> QED BY <2>1, <2>2, <2>3, Zenon
<1>6. UNCHANGED [n \in Nonces |-> Kept(n)]
  BY <1>2
<1>7. Service!Rotate
  BY <1>1, <1>4, <1>5, <1>6 DEF Service!Rotate
<1> QED BY <1>7 DEF Service!ServiceNext
\* The worker, its heartbeat and the deployment change before the eyes of the
\* clients, and no request does.
LEMMA ChangeServes ==
    ASSUME MaxLosses = 0, ServedInv, Shelved, [Next]_vars,
           UNCHANGED <<index, jobs, archived, answers, launches>>
    PROVE  [Service!ServiceNext]_(Service!server)
PROOF
<1>0. deployment \in DeploymentIds /\ deployment' \in DeploymentIds /\ QueueInv
  BY StepKeepsInv DEF ServedInv, RefineInv, QueueInv, TypeOK
<1>1. SameStages(Nonces) /\ SameRuns /\ SameKept(Nonces)
  <2>1. \A n \in Nonces : StageOf(n)' = StageOf(n) /\ Executions(n)' = Executions(n)
    BY DEF StageOf, Executions, AnsweredJobs
  <2>2. \A n \in Nonces : Kept(n)' = Kept(n)
    BY SameView
  <2> QED BY <2>1, <2>2 DEF SameStages, SameRuns, SameKept
<1>2. CASE SameService
  BY <1>1, <1>2, StutterServes
<1>3. ASSUME Service!ServiceChanges
      PROVE  Service!ServiceNext
  BY <1>3 DEF Service!ServiceNext
<1>4. \A d, a, b : [[deployment |-> d, beating |-> a] EXCEPT !.beating = b]
                     = [deployment |-> d, beating |-> b]
  OBVIOUS
<1>5. CASE UNCHANGED deployment /\ WorkerAvailable' = ~WorkerAvailable
  <2>1. [deployment |-> deployment, beating |-> WorkerAvailable]'
          = [[deployment |-> deployment, beating |-> WorkerAvailable] EXCEPT !.beating = ~WorkerAvailable]
    BY <1>4, <1>5, Zenon
  <2>2. [deployment |-> deployment, beating |-> WorkerAvailable].beating = WorkerAvailable
    OBVIOUS
  <2>3. Service!ServiceChanges
    BY <1>1, <2>1, <2>2 DEF Service!ServiceChanges, SameStages, SameRuns, SameKept
  <2> QED BY <1>3, <2>3
<1>6. CASE Activate
  <2>1. WorkerAvailable' = FALSE
    <3>1. heartbeat' = heartbeat /\ deployment' = deployment + 1
      BY <1>6 DEF Activate, beats
    <3>2. heartbeat # None => heartbeat.deployment <= deployment /\ heartbeat.deployment \in Nat
      BY <1>0 DEF ServedInv, DeploymentInv, QueueInv, TypeOK, DeploymentIds
    <3> QED BY <1>0, <3>1, <3>2, QueueAssumption DEF WorkerAvailable, DeploymentIds
  <2>2. [deployment |-> deployment, beating |-> WorkerAvailable]'
          = [deployment |-> deployment', beating |-> FALSE]
    BY <2>1, Zenon
  <2>3. Service!ServiceChanges
    BY <1>0, <1>1, <2>2 DEF Service!ServiceChanges, SameStages, SameRuns, SameKept
  <2> QED BY <1>3, <2>3
<1>7. WorkerAvailable' = WorkerAvailable \/ WorkerAvailable' = ~WorkerAvailable
  BY DEF WorkerAvailable
<1> QED BY <1>2, <1>5, <1>6, <1>7, DeploymentChanges DEF SameService

\* Every step of the queue is a step of the service, or none.
LEMMA ServedSimulation ==
    ASSUME MaxLosses = 0, ServedInv, ServedNext
    PROVE  [Service!ServiceNext]_(Service!server)
PROOF
<1> DEFINE Serves == [Service!ServiceNext]_(Service!server)
<1>0. /\ QueueInv /\ HistoryInv /\ RefineInv /\ AnswerInv /\ QueueInv' /\ ~LoseRecord
      /\ Next /\ Shelved /\ index \in [Nonces -> Index \cup {None}]
  BY RecordTypes, NoLoss, StepKeepsInv DEF ServedInv, RefineInv, ServedNext
<1> HIDE DEF Serves
<1>1. CASE Launch
  <2>1. PICK n \in Nonces : Lifecycle!Execute(n)
    BY <1>0, <1>1, LaunchMaps
  <2>2. UNCHANGED <<index, jobs, archived, deployment, heartbeat, fresh>>
    BY <1>1 DEF Launch, store, beats
  <2>3. \A m \in Nonces : Kept(m)' = Kept(m)
    BY <1>0, <2>2, SameView
  <2>4. WorkerAvailable' = WorkerAvailable
    BY <2>2 DEF WorkerAvailable
  <2>5. Service!WorkerRuns(n)
    BY <2>1, <2>3 DEF Lifecycle!Execute, Service!Execute, Service!WorkerRuns
  <2> QED BY <2>1, <2>2, <2>4, <2>5 DEF Serves, Service!Worker, Service!ServiceNext
<1>2. CASE Rotate
  BY <1>0, <1>2, RotateServes DEF Serves
<1>3. CASE UNCHANGED <<index, jobs, archived, answers, launches>>
  BY <1>0, <1>3, ChangeServes DEF Serves
<1>4. ASSUME NEW n \in Nonces, Reserves(n)
      PROVE  Serves
  BY <1>0, <1>4, OnlyPrepareReserves, PrepareServes DEF Serves, Service!ServiceNext
<1>5. ASSUME ~Launch, ~Rotate, UNCHANGED <<deployment, heartbeat, fresh>>, NEW n \in Nonces, Publishes(n)
      PROVE  Serves
  BY <1>0, <1>5, PublishServes DEF Serves
<1>6. CASE ~Launch /\ ~Rotate /\ UNCHANGED <<deployment, heartbeat, fresh, index, archived>>
  <2>1. SameRuns /\ SameService
    BY <1>0, <1>6, RunsKept DEF SameService, WorkerAvailable
  <2>2. PICK j : \A k \in JobIds : k # j => jobs'[k] = jobs[k]
    BY <1>0, <1>6, OneJobChanges
  <2>3. ASSUME NEW m \in Nonces, index[m] = None \/ index[m].job # j \/ index[m].phase = "prepared"
        PROVE  StageOf(m)' = StageOf(m) /\ Kept(m)' = Kept(m)
    <3>1. CASE index[m] = None \/ jobs'[index[m].job] = jobs[index[m].job]
      BY <1>0, <1>6, <3>1, SameView DEF StageOf
    <3>2. CASE index[m] # None /\ index[m].phase = "prepared"
      <4>1. /\ jobs[index[m].job] \in {None, Initial(index[m])}
            /\ jobs'[index[m].job] \in {None, Initial(index[m])}
        <5>1. PristineInv /\ PristineInv'
          BY <1>0 DEF QueueInv
        <5> QED BY <1>6, <3>2, <5>1 DEF PristineInv, Indexed
      <4>2. /\ Initial(index[m]).state = "submitted" /\ Initial(index[m]).execution = 0
        BY DEF Initial
      <4>3. CASE archived[m] # None
        <5>1. shelf'[m] = shelf[m]
          BY <1>0, <4>3 DEF Shelved
        <5> QED BY <1>6, <4>3, <5>1 DEF Kept, StageOf
      <4>4. CASE archived[m] = None
        <5>1. /\ Kept(m) = [deployment |-> index[m].deployment, executed |-> FALSE, outcome |-> None]
              /\ Kept(m)' = [deployment |-> index[m].deployment, executed |-> FALSE, outcome |-> None]
          BY <1>6, <3>2, <4>1, <4>2, <4>4 DEF Kept, RecordOf, Outcome, Terminal
        <5> QED BY <1>6, <3>2, <5>1 DEF StageOf
      <4> QED BY <4>3, <4>4
    <3>3. index[m] # None => index[m].job \in JobIds
      BY <1>0 DEF Index
    <3> QED BY <2>2, <2>3, <3>1, <3>2, <3>3
  <2>4. CASE \E n \in Indexed : index[n].job = j /\ index[n].phase = "published"
    <3>1. PICK n \in Indexed : index[n].job = j /\ index[n].phase = "published"
      BY <2>4
    <3>2. \A m \in Nonces \ {n} : index[m] = None \/ index[m].job # j
      BY <1>0, <3>1 DEF QueueInv, IndexInv, Indexed
    <3>3. SameStages(Nonces \ {n}) /\ SameKept(Nonces \ {n})
      BY <2>3, <3>2 DEF SameStages, SameKept
    <3> QED BY <1>0, <1>6, <2>1, <3>1, <3>3, JobServes DEF Serves
  <2>5. CASE ~ \E n \in Indexed : index[n].job = j /\ index[n].phase = "published"
    <3>1. \A m \in Nonces : index[m] = None \/ index[m].job # j \/ index[m].phase = "prepared"
      BY <1>0, <2>5 DEF Indexed, Index
    <3>2. SameStages(Nonces) /\ SameKept(Nonces)
      BY <2>3, <3>1 DEF SameStages, SameKept
    <3> QED BY <2>1, <3>2, StutterServes DEF Serves
  <2> QED BY <2>4, <2>5
<1>7. \/ UNCHANGED <<deployment, heartbeat, fresh>>
      \/ UNCHANGED <<index, jobs, archived, answers, launches>> \/ Rotate
  BY <1>0, ServiceKept
<1>8. ASSUME ~Launch, ~Rotate, UNCHANGED <<deployment, heartbeat, fresh>>
      PROVE  Serves
  <2>1. UNCHANGED <<index, archived>> => Serves
    BY <1>6, <1>8 DEF Serves
  <2> QED BY <1>0, <1>4, <1>5, <1>8, <2>1, EveryIndex
<1> QED BY <1>1, <1>2, <1>3, <1>7, <1>8 DEF Serves

\* The queue gives its clients the service they are built on: with its files, its
\* locks and its kills, each call of the gateway, each step of the worker and each
\* change of the deployment is a step that JobService describes, as long as no
\* record vanishes from the store.
THEOREM QueueImplementsService ==
    ASSUME MaxLosses = 0
    PROVE  ServedSpec => ImplementsService
PROOF
<1>1. ServedInit => Service!ServiceInit
  <2> SUFFICES ASSUME ServedInit
               PROVE  Service!ServiceInit
    OBVIOUS
  <2>1. \A n \in Nonces : StageOf(n) = "new" /\ Executions(n) = {}
    BY DEF ServedInit, Init, StageOf, Executions, AnsweredJobs
  <2>2. \A n \in Nonces : Kept(n) = Nothing
    BY DEF ServedInit, Init, Kept, RecordOf
  <2>3. deployment \in DeploymentIds /\ WorkerAvailable \in BOOLEAN
    BY QueueAssumption DEF ServedInit, Init, DeploymentIds, WorkerAvailable
  <2> QED BY <2>1, <2>2, <2>3, FS_EmptySet
      DEF Service!ServiceInit, Service!LifeInit, Service!Nothing, Nothing
<1>2. ServedInv /\ [ServedNext]_ServedVars => [Service!ServiceNext]_(Service!server)
  <2>1. ASSUME ServedInv, UNCHANGED ServedVars
        PROVE  UNCHANGED Service!server
    <3>1. SameStages(Nonces) /\ SameRuns /\ SameKept(Nonces) /\ SameService
      BY <2>1 DEF ServedVars, vars, store, beats, SameStages, SameRuns, SameKept, SameService,
         StageOf, Executions, AnsweredJobs, Kept, RecordOf, Outcome, WorkerAvailable
    <3> QED BY <3>1, StutterServes
  <2> QED BY <2>1, ServedSimulation
<1>3. ServedSpec => []ServedInv
  BY ServedInvariant
<1> QED BY <1>1, <1>2, <1>3, PTL DEF ServedSpec, ImplementsService, Service!ServiceSpec
\* What submit answers can be found by the client, for any interruptions and
\* retries, as long as no record vanishes.
THEOREM AnswersAreFound ==
    ASSUME MaxLosses = 0
    PROVE  ServedSpec => AnsweredIsFound
PROOF
<1>1. ASSUME ServedInv, ServedNext, NEW a \in answers' \ answers
      PROVE  Service!Found(a[1])'
  <2>0. /\ QueueInv /\ HistoryInv /\ AnswerInv /\ DeploymentInv /\ Next /\ Shelved /\ losses = 0
        /\ index \in [Nonces -> Index \cup {None}]
    BY <1>1, RecordTypes, NoLoss DEF ServedInv, RefineInv, ServedNext
  <2>1. PICK n \in Indexed : /\ index[n].phase = "published" /\ a = <<n, index[n].digest, index[n].job>>
                             /\ UNCHANGED <<index, archived, jobs>>
    BY <1>1, <2>0, EveryAnswer
  <2>2. /\ n \in Nonces /\ index[n] # None /\ archived[n] = None /\ a[1] = n
        /\ index[n].job \in JobIds
    BY <2>0, <2>1 DEF HistoryInv, HistoryBounded, Archived, Indexed, Index
  <2>3. index[n].deployment = deployment /\ UNCHANGED deployment
    <3>1. CASE Answer
      <4>1. pending = n
        <5>1. a = <<pending, index[pending].digest, index[pending].job>>
          BY <1>1, <3>1 DEF Answer
        <5> QED BY <2>2, <5>1
      <4> QED BY <2>0, <2>2, <3>1, <4>1 DEF Answer, DeploymentInv
    <3>2. ASSUME NEW m \in Nonces, NEW d \in Digests, Replay(m, d)
          PROVE  index[n].deployment = deployment /\ UNCHANGED deployment
      <4>1. m = n
        <5>1. a = <<m, d, index[m].job>>
          BY <1>1, <3>2 DEF Replay
        <5> QED BY <2>2, <5>1
      <4> QED BY <3>2, <4>1 DEF Replay, Retryable
    <3>3. Answer \/ \E m \in Nonces, d \in Digests : Replay(m, d)
      <4>1. ~UNCHANGED answers
        BY <1>1
      <4> QED BY <2>0, <4>1 DEF Next, Submit, Prepare, Resume, CreateJob, Publish,
         InterruptGateway, Start, Cancel, WriteJob, SubmissionAges, WorkerBoots, Boot, WorkerStep,
         Beat, Conclude, KeepWaiting, MarkStale, Claim, Launch, LaunchFails, EndScan, WorkerDies,
         Activate, Rotate, HeartbeatExpires, ChildExits, TimerExpires, LoseRecord
    <3> QED BY <3>1, <3>2, <3>3
  <2>4. Kept(n)' = Kept(n) /\ Kept(n).deployment = deployment
    <3>1. Kept(n)' = Kept(n)
      BY <2>0, <2>1, <2>2, SameView
    <3> QED BY <2>2, <2>3, <3>1 DEF Kept, RecordOf
  <2>5. StageOf(n)' = StageOf(n) /\ StageOf(n) # "new" /\ StageOf(n) # "archived"
    <3>1. jobs[index[n].job] # None
      BY <2>0, <2>1 DEF AnswerInv, PublishedInv
    <3>2. jobs[index[n].job] \in Job
      BY <2>0, <2>2, <3>1, RecordTypes
    <3> QED BY <2>1, <2>2, <3>2 DEF StageOf, Job, JobStates, Terminal
  <2> QED BY <2>2, <2>3, <2>4, <2>5 DEF Service!Found, Service!Held
<1>2. ServedInv /\ [ServedNext]_ServedVars => [\A a \in answers' \ answers : Service!Found(a[1])']_ServedVars
  BY <1>1
<1>3. ServedSpec => []ServedInv
  BY ServedInvariant
<1> QED BY <1>2, <1>3, PTL DEF ServedSpec, AnsweredIsFound
=============================================================================
