----------------------- MODULE EvidenceCaptureProofs -----------------------
(***************************************************************************)
(* Proofs about EvidenceCapture for every value of its constants: any      *)
(* number of kinds, jobs, deployments, captures, workers and edits.        *)
(***************************************************************************)
EXTENDS EvidenceCapture, FiniteSetTheorems, TLAPS

-----------------------------------------------------------------------------
(* Results. *)

\* There is a jobs file to be read.
LEMMA HandlesExist == Handles # {}
PROOF
<1> DEFINE h == [k \in Kinds |-> CHOOSE j \in Jobs : j[1] = k]
<1>1. \A k \in Kinds : h[k] \in Jobs /\ KindOf(h[k]) = k
  BY CaptureAssumption DEF Kinds, KindOf
<1>2. h \in Handles
  BY <1>1 DEF Handles
<1> QED BY <1>2

\* A worker that can select an adapter records one of the inventory.
LEMMA SelectedAdapter ==
    ASSUME NEW inv \in Inventories, Selects(inv)
    PROVE  (CHOOSE i \in WorkerMatches(inv) : TRUE) \in Nat
PROOF
<1>1. WorkerMatches(inv) # {}
  BY FS_EmptySet DEF Selects
<1>2. WorkerMatches(inv) \subseteq Nat
  BY CaptureAssumption DEF WorkerMatches
<1> QED BY <1>1, <1>2

\* What the service returns of a job that has results.
LEMMA ResultType ==
    ASSUME TypeOK, NEW j \in Jobs, Available(j)
    PROVE  /\ [result |-> Result(j), during |-> Len(epochs)] \in Retrieved
           /\ Result(j).job = j
           /\ Result(j).kind = KindOf(j)
           /\ Result(j).epoch = ranUnder[j]
           /\ Result(j).epoch \in Epochs
           /\ Result(j).deployment = epochs[ranUnder[j]]
PROOF
<1>1. ranUnder[j] \in Epochs /\ ranUnder[j] \in Nat /\ epochs[ranUnder[j]] \in Deployments
  BY DEF TypeOK, Available, Epochs
<1>2. host.inventory \in Inventories /\ Len(epochs) \in Nat
  BY DEF TypeOK
<1>3. (CHOOSE i \in WorkerMatches(host.inventory) : TRUE) \in Nat
  BY <1>2, SelectedAdapter DEF Available
<1>4. KindOf(j) \in Kinds
  BY CaptureAssumption DEF Kinds, KindOf
<1>5. Role(KindOf(j)) \in {"recovered", "regenerated"}
  BY DEF Role
<1> QED BY <1>1, <1>2, <1>3, <1>4, <1>5 DEF Result, Retrieved

-----------------------------------------------------------------------------
(* What happens meanwhile. *)

\* Evidence stays what it is while workers are only added.
LEMMA EvidenceKept ==
    ASSUME NEW c, NEW p, Evidence(p),
           capture'[c].pc = p.pc, capture'[c].got = p.got, capture'[c].jobs = p.jobs,
           capture'[c].seen = p.seen, capture'[c].epoch = p.epoch,
           UNCHANGED ranUnder, Epochs \subseteq Epochs',
           \A e \in Epochs : epochs'[e] = epochs[e]
    PROVE  Evidence(capture[c])'
PROOF
<1>1. ASSUME NEW i \in 1..Len(p.got)
      PROVE  Sound(capture[c].got[i], i)'
  <2>1. Sound(p.got[i], i)
    BY DEF Evidence
  <2> QED BY <2>1 DEF Sound, KindOf
<1>2. ASSUME NEW i \in 1..Len(p.got)
      PROVE  (\/ Confirmed(capture[c].got[i])
              \/ capture[c].pc = "again" /\ i = Len(capture[c].got))'
  BY DEF Evidence, Confirmed
<1> QED BY <1>1, <1>2 DEF Evidence, Sound, Confirmed, KindOf, Handles, Kinds

\* A program that is disturbed has lost nothing.
LEMMA DisturbedStep ==
    ASSUME CaptureInv, Disturbs, TypeOK', UNCHANGED <<ranUnder, output>>,
           Len(epochs) <= Len(epochs)', Len(epochs)' \in Nat,
           \A e \in Epochs : epochs'[e] = epochs[e]
    PROVE  CaptureInv'
PROOF
<1>1. Len(epochs) \in Nat /\ Epochs \subseteq Epochs'
  BY DEF CaptureInv, TypeOK, Epochs
<1>2. ASSUME NEW c \in Captures, Running(c)'
      PROVE  Progress(capture[c])' /\ Evidence(capture[c])' /\ Output(c)'
  <2>1. Running(c) /\ capture'[c] = [capture[c] EXCEPT !.calm = FALSE]
    BY <1>2, CaptureAssumption DEF Disturbs, Running
  <2>2. capture[c] \in Program
    BY <2>1 DEF CaptureInv, TypeOK, Running
  <2>3. /\ capture'[c].pc = capture[c].pc /\ capture'[c].got = capture[c].got
        /\ capture'[c].seen = capture[c].seen /\ capture'[c].epoch = capture[c].epoch
        /\ capture'[c].jobs = capture[c].jobs /\ capture'[c].policy = capture[c].policy
    BY <2>1, <2>2 DEF Program
  <2>4. Progress(capture[c]) /\ Evidence(capture[c]) /\ Output(c)
    BY <2>1 DEF CaptureInv
  <2>5. Progress(capture[c])'
    BY <2>3, <2>4 DEF Progress
  <2>6. Evidence(capture[c])'
    BY <1>1, <2>3, <2>4, EvidenceKept
  <2>7. Output(c)'
    BY <2>3, <2>4 DEF Output, Encodable
  <2> QED BY <2>5, <2>6, <2>7
<1>3. SingleAuthority'
  BY <1>1 DEF CaptureInv, SingleAuthority
<1> QED BY <1>2, <1>3 DEF CaptureInv

\* Programs are of their type when disturbed.
LEMMA DisturbedType ==
    ASSUME TypeOK, Disturbs
    PROVE  capture' \in [Captures -> {None} \cup Program \cup [pc : {"failed"}, own : Deployments]]
PROOF
<1>1. ASSUME NEW c \in Captures, Running(c)
      PROVE  [capture[c] EXCEPT !.calm = FALSE] \in Program
  <2>1. capture[c] \in Program
    BY <1>1 DEF TypeOK, Running
  <2> QED BY <2>1 DEF Program
<1> QED BY <1>1 DEF Disturbs

LEMMA WorldStep ==
    ASSUME CaptureInv,
           Boot \/ Stops \/ Edit \/ \E d \in Deployments : Activate(d)
    PROVE  CaptureInv'
PROOF
<1>0. TypeOK
  BY DEF CaptureInv
<1>1. Disturbs
  BY DEF Boot, Stops, Edit, Activate
<1>2. capture' \in [Captures -> {None} \cup Program \cup [pc : {"failed"}, own : Deployments]]
  BY <1>0, <1>1, DisturbedType
<1>3. CASE Boot
  <2>1. /\ host' = [host EXCEPT !.alive = TRUE] /\ host.active \in Deployments
        /\ host' \in [active : Deployments, alive : BOOLEAN, inventory : Inventories]
        /\ host'.active = host.active
    BY <1>0, <1>3 DEF Boot, TypeOK
  <2>2. /\ epochs' \in Seq(Deployments) /\ Len(epochs') = Len(epochs) + 1
        /\ epochs'[Len(epochs')] = host.active
        /\ \A e \in Epochs : epochs'[e] = epochs[e]
        /\ Len(epochs) \in Nat /\ Len(epochs) < MaxEpoch
    BY <1>0, <1>3, <2>1 DEF Boot, TypeOK, Epochs
  <2>3. Len(epochs') \in 1..MaxEpoch /\ Len(epochs) <= Len(epochs') /\ Len(epochs') \in Nat
    BY <2>2, CaptureAssumption
  <2>4. UNCHANGED <<ranUnder, local, edits, output>>
    BY <1>3 DEF Boot
  <2>5. TypeOK'
    BY <1>0, <1>2, <2>1, <2>2, <2>3, <2>4 DEF TypeOK, Handles, Kinds
  <2> QED BY <1>1, <2>2, <2>3, <2>4, <2>5, DisturbedStep
<1>4. CASE Stops \/ \E d \in Deployments : Activate(d)
  <2>1. UNCHANGED <<epochs, ranUnder, local, edits, output>> /\ Len(epochs) \in Nat
    BY <1>0, <1>4 DEF Stops, Activate, TypeOK
  <2>2. /\ host' \in [active : Deployments, alive : BOOLEAN, inventory : Inventories]
        /\ host'.alive = FALSE
    BY <1>0, <1>4 DEF Stops, Activate, TypeOK
  <2>3. TypeOK'
    BY <1>0, <1>2, <2>1, <2>2 DEF TypeOK, Handles, Kinds
  <2> QED BY <1>1, <2>1, <2>3, DisturbedStep
<1>5. CASE Edit
  <2>1. local' \in [policy : Deployments, package : Deployments, baseline : Deployments,
                    jobs : Handles]
    BY <1>0, <1>5 DEF Edit, TypeOK
  <2>2. UNCHANGED <<host, epochs, ranUnder, output>> /\ Len(epochs) \in Nat
    BY <1>0, <1>5 DEF Edit, service, TypeOK
  <2>3. edits' \in 0..MaxEdits
    BY <1>0, <1>5, CaptureAssumption DEF Edit, TypeOK
  <2>4. TypeOK'
    BY <1>0, <1>2, <2>1, <2>2, <2>3 DEF TypeOK, Handles, Kinds
  <2> QED BY <1>1, <2>2, <2>4, DisturbedStep
<1> QED BY <1>3, <1>4, <1>5

-----------------------------------------------------------------------------
(* The programs. *)

\* One program comes to a state that fits, or ends.
LEMMA ProgramStep ==
    ASSUME CaptureInv, NEW c \in Captures, NEW next,
           capture' = [capture EXCEPT ![c] = next],
           UNCHANGED <<world, output>>,
           \/ next = None
           \/ next \in [pc : {"failed"}, own : Deployments]
           \/ /\ next \in Program /\ Progress(next) /\ Evidence(next)
              /\ next.pc = "create" => Encodable(next.got, next.policy)
              /\ next.pc # "fill"
    PROVE  CaptureInv'
PROOF
<1>0. TypeOK
  BY DEF CaptureInv
<1>1. TypeOK'
  BY <1>0 DEF TypeOK, world, Handles, Kinds
<1>2. ASSUME NEW d \in Captures, Running(d)'
      PROVE  Progress(capture[d])' /\ Evidence(capture[d])' /\ Output(d)'
  <2>1. CASE d = c
    <3>1. capture'[d] = next
      BY <1>0, <2>1 DEF TypeOK
    <3>2. /\ next \in Program /\ Progress(next) /\ Evidence(next)
          /\ next.pc = "create" => Encodable(next.got, next.policy)
          /\ next.pc # "fill"
      BY <1>2, <3>1 DEF Running
    <3>3. Progress(next)' /\ Progress(capture[d])'
      BY <3>1, <3>2 DEF Progress
    <3>4. Evidence(capture[d])'
      BY <3>1, <3>2, EvidenceKept DEF world, Epochs
    <3>5. Output(d)'
      BY <3>1, <3>2 DEF Output, Encodable
    <3> QED BY <3>3, <3>4, <3>5
  <2>2. CASE d # c
    <3>1. capture'[d] = capture[d]
      BY <1>0, <2>2 DEF TypeOK
    <3>2. Progress(capture[d]) /\ Evidence(capture[d]) /\ Output(d)
      BY <1>2, <3>1 DEF Running, CaptureInv
    <3>3. Progress(capture[d])'
      BY <3>1, <3>2 DEF Progress
    <3>4. Evidence(capture[d])'
      BY <3>1, <3>2, EvidenceKept DEF world, Epochs
    <3>5. Output(d)'
      BY <3>1, <3>2 DEF Output, Encodable
    <3> QED BY <3>3, <3>4, <3>5
  <2> QED BY <2>1, <2>2
<1>3. SingleAuthority'
  BY DEF CaptureInv, SingleAuthority, Epochs, world
<1> QED BY <1>1, <1>2, <1>3 DEF CaptureInv

\* A program at one of its steps.
LEMMA AtStep ==
    ASSUME CaptureInv, NEW c \in Captures, Running(c)
    PROVE  /\ capture[c] \in Program /\ Progress(capture[c]) /\ Evidence(capture[c])
           /\ Output(c)
           /\ \/ Failed(c) = None
              \/ Failed(c) \in [pc : {"failed"}, own : Deployments]
PROOF
<1>1. capture[c] \in Program
  BY DEF CaptureInv, TypeOK, Running
<1>2. capture[c].own \in Deployments
  BY <1>1 DEF Program
<1> QED BY <1>1, <1>2 DEF CaptureInv, Failed

\* A step that goes on or fails.
LEMMA GoStep ==
    ASSUME CaptureInv, NEW c \in Captures, Running(c), NEW ok, NEW next, Go(c, ok, next),
           ok => /\ next \in Program /\ Progress(next) /\ Evidence(next)
                 /\ next.pc = "create" => Encodable(next.got, next.policy)
                 /\ next.pc # "fill"
    PROVE  CaptureInv'
PROOF
<1>1. CASE ok
  BY <1>1, ProgramStep DEF Go
<1>2. CASE ~ok
  <2>1. capture' = [capture EXCEPT ![c] = Failed(c)] /\ UNCHANGED <<world, output>>
    BY <1>2 DEF Go
  <2> HIDE DEF Failed
  <2> QED BY <2>1, AtStep, ProgramStep
<1> QED BY <1>1, <1>2

LEMMA StartStep ==
    ASSUME CaptureInv, NEW c \in Captures, Start(c)
    PROVE  CaptureInv'
PROOF
<1>1. PICK own \in Deployments :
        capture' = [capture EXCEPT ![c] =
            [pc |-> "policy", calm |-> TRUE, own |-> own, policy |-> None, package |-> None,
             jobs |-> None, seen |-> None, members |-> None, epoch |-> 0, got |-> <<>>]]
  BY DEF Start
<1> DEFINE next == [pc |-> "policy", calm |-> TRUE, own |-> own, policy |-> None,
                    package |-> None, jobs |-> None, seen |-> None, members |-> None,
                    epoch |-> 0, got |-> <<>>]
<1>2. next \in Program
  BY DEF Program
<1>3. Progress(next) /\ Evidence(next)
  BY CaptureAssumption DEF Progress, Evidence
<1>4. next.pc = "policy"
  OBVIOUS
<1>5. capture' = [capture EXCEPT ![c] = next] /\ UNCHANGED <<world, output>>
  BY <1>1 DEF Start
<1> HIDE DEF next
<1> QED BY <1>2, <1>3, <1>4, <1>5, ProgramStep

LEMMA GiveUpStep ==
    ASSUME CaptureInv, NEW c \in Captures, GiveUp(c)
    PROVE  CaptureInv'
BY ProgramStep DEF GiveUp

LEMMA ReadPolicyStep ==
    ASSUME CaptureInv, NEW c \in Captures, ReadPolicy(c)
    PROVE  CaptureInv'
PROOF
<1> DEFINE p == capture[c]
           next == [p EXCEPT !.pc = "jobs", !.policy = local.policy, !.package = local.package]
<1>1. Running(c) /\ p.pc = "policy"
  BY DEF ReadPolicy, At, Running
<1>2. p \in Program /\ Progress(p) /\ Evidence(p) /\ Output(c)
  BY <1>1, AtStep
<1>3. local.policy \in Deployments /\ local.package \in Deployments
  BY DEF CaptureInv, TypeOK
<1>4. /\ next \in Program /\ next.pc = "jobs" /\ next.got = p.got
  BY <1>2, <1>3 DEF Program
<1>5. Progress(next) /\ Evidence(next)
  <2>1. p.got = <<>>
    BY <1>1, <1>2 DEF Progress
  <2> HIDE DEF next
  <2> QED BY <1>4, <2>1, CaptureAssumption DEF Progress, Evidence
<1>6. Go(c, local.package = local.policy, next)
  BY DEF ReadPolicy
<1> HIDE DEF next
<1> QED BY <1>1, <1>4, <1>5, <1>6, GoStep

LEMMA ReadJobsStep ==
    ASSUME CaptureInv, NEW c \in Captures, ReadJobs(c)
    PROVE  CaptureInv'
PROOF
<1> DEFINE p == capture[c]
           next == [p EXCEPT !.pc = "authority", !.jobs = local.jobs]
<1>1. Running(c) /\ p.pc = "jobs"
  BY DEF ReadJobs, At, Running
<1>2. p \in Program /\ Progress(p)
  BY <1>1, AtStep
<1>3. local.jobs \in Handles
  BY DEF CaptureInv, TypeOK
<1>4. next \in Program /\ next.pc = "authority" /\ next.got = p.got /\ next.jobs = local.jobs
  BY <1>2, <1>3 DEF Program
<1>5. Progress(next) /\ Evidence(next)
  <2>1. p.got = <<>>
    BY <1>1, <1>2 DEF Progress
  <2> HIDE DEF next
  <2> QED BY <1>3, <1>4, <2>1, CaptureAssumption DEF Progress, Evidence
<1>6. Go(c, TRUE, next)
  BY DEF ReadJobs
<1> HIDE DEF next
<1> QED BY <1>1, <1>4, <1>5, <1>6, GoStep

LEMMA ReadAuthorityStep ==
    ASSUME CaptureInv, NEW c \in Captures, ReadAuthority(c)
    PROVE  CaptureInv'
PROOF
<1> DEFINE p == capture[c]
           members == [package |-> local.package, baseline |-> local.baseline]
           next == [p EXCEPT !.pc = "status", !.seen = local.policy, !.members = members]
           ok == /\ HandleFits(Job(c), local.policy)
                 /\ local.package = local.policy
                 /\ local.baseline = local.policy
                 /\ <<local.package, Role(Kind(c))>> = Expected(c)
<1>1. Running(c) /\ p.pc = "authority"
  BY DEF ReadAuthority, At, Running
<1>2. p \in Program /\ Progress(p) /\ Evidence(p)
  BY <1>1, AtStep
<1>3. local.policy \in Deployments /\ members \in [package : Deployments, baseline : Deployments]
  BY DEF CaptureInv, TypeOK
<1>4. /\ next \in Program /\ next.pc = "status" /\ next.got = p.got /\ next.jobs = p.jobs
      /\ next.seen = local.policy
  <2> HIDE DEF members
  <2> QED BY <1>2, <1>3 DEF Program
<1>5. Progress(next) /\ Evidence(next)
  <2> HIDE DEF next
  <2> QED BY <1>1, <1>2, <1>3, <1>4 DEF Progress, Evidence
<1>6. Go(c, ok, next)
  BY DEF ReadAuthority
<1> HIDE DEF next, ok
<1> QED BY <1>1, <1>4, <1>5, <1>6, GoStep

LEMMA StatusStep ==
    ASSUME CaptureInv, NEW c \in Captures, Status(c)
    PROVE  CaptureInv'
PROOF
<1> DEFINE p == capture[c]
           next == [p EXCEPT !.pc = "results", !.epoch = Len(epochs)]
<1>1. Running(c) /\ p.pc = "status"
  BY DEF Status, At, Running
<1>2. p \in Program /\ Progress(p) /\ Evidence(p)
  BY <1>1, AtStep
<1>3. Len(epochs) \in Epochs /\ Len(epochs) \in Nat
  BY DEF CaptureInv, TypeOK, Epochs
<1>4. /\ next \in Program /\ next.pc = "results" /\ next.got = p.got /\ next.jobs = p.jobs
      /\ next.seen = p.seen /\ next.epoch = Len(epochs)
  BY <1>2, <1>3 DEF Program
<1>5. Progress(next) /\ Evidence(next)
  <2> HIDE DEF next
  <2> QED BY <1>1, <1>2, <1>3, <1>4 DEF Progress, Evidence
<1>6. Go(c, WorkerOf(p.seen), next)
  BY DEF Status
<1> HIDE DEF next
<1> QED BY <1>1, <1>4, <1>5, <1>6, GoStep

\* The answer is about the job of the next kind, and no later worker than the
\* latest is there; who was there is only known after status was asked again.
LEMMA ResultsStep ==
    ASSUME CaptureInv, NEW c \in Captures, Results(c)
    PROVE  CaptureInv'
PROOF
<1> DEFINE p == capture[c]
           r == Result(Job(c))
           g == [result |-> r, during |-> Len(epochs)]
           longer == Append(p.got, g)
           next == [p EXCEPT !.pc = "again", !.got = longer]
           ok == /\ Verified(r, Kind(c), p.seen, p.members.package, p.members.baseline)
                 /\ r.epoch = p.epoch
<1>1. Running(c) /\ p.pc = "results"
  BY DEF Results, At, Running
<1>2. p \in Program /\ Progress(p) /\ Evidence(p)
  BY <1>1, AtStep
<1>3. TypeOK
  BY DEF CaptureInv
<1>4. CASE ~Available(Job(c))
  <2>1. Go(c, FALSE, None)
    BY <1>4 DEF Results
  <2> QED BY <1>1, <2>1, GoStep
<1>5. CASE Available(Job(c))
  <2>1. p.got \in Seq(Retrieved) /\ Len(p.got) \in Nat /\ Len(p.got) < Count
    BY <1>1, <1>2, CaptureAssumption DEF Program, Progress
  <2>2. Kind(c) \in Kinds /\ Kind(c) = Len(p.got) + 1
    BY <2>1, CaptureAssumption DEF Kind, Kinds
  <2>3. Job(c) \in Jobs /\ KindOf(Job(c)) = Kind(c)
    BY <1>1, <1>2, <2>2 DEF Evidence, Handles, Job
  <2>4. /\ g \in Retrieved /\ g.result.job = Job(c) /\ g.result.kind = Kind(c)
        /\ g.result.epoch = ranUnder[Job(c)] /\ g.result.epoch \in Epochs
        /\ g.result.deployment = epochs[ranUnder[Job(c)]]
        /\ g.during = Len(epochs)
    BY <1>3, <1>5, <2>3, ResultType
  <2>5. Len(epochs) \in Epochs /\ Len(epochs) \in Nat
    BY <1>3 DEF TypeOK, Epochs
  <2> HIDE DEF g
  <2>5a. longer \in Seq(Retrieved)
    BY <2>1, <2>4
  <2> HIDE DEF longer
  <2>6. /\ next \in Program /\ next.pc = "again" /\ next.got = longer
        /\ next.jobs = p.jobs /\ next.seen = p.seen /\ next.epoch = p.epoch
    BY <1>2, <2>5a DEF Program
  <2> HIDE DEF next
  <2>7. /\ Len(next.got) = Kind(c) /\ next.got[Kind(c)] = g
        /\ \A i \in 1..Len(p.got) : next.got[i] = p.got[i]
    BY <2>1, <2>2, <2>4, <2>6 DEF longer
  <2>8. Progress(next)
    BY <2>1, <2>2, <2>6, <2>7, CaptureAssumption DEF Progress
  <2>9. \A i \in 1..Len(next.got) : Sound(next.got[i], i)
    <3>1. Sound(g, Kind(c))
      BY <2>3, <2>4, <2>5 DEF Sound
    <3>2. \A i \in 1..Len(p.got) : Sound(p.got[i], i)
      BY <1>2 DEF Evidence
    <3> QED BY <2>1, <2>2, <2>7, <3>1, <3>2
  <2>10. \A i \in 1..Len(p.got) : Confirmed(p.got[i])
    BY <1>1, <1>2 DEF Evidence
  <2>11. \A i \in 1..Len(next.got) : Confirmed(next.got[i]) \/ i = Len(next.got)
    BY <2>1, <2>2, <2>7, <2>10
  <2>12. p.jobs \in Handles /\ p.seen \in Deployments /\ p.epoch \in Epochs
    BY <1>1, <1>2 DEF Evidence
  <2>13. ok => Evidence(next)
    <3> SUFFICES ASSUME ok PROVE Evidence(next)
      OBVIOUS
    <3>1. g.result.epoch = p.epoch
      BY DEF g
    <3>2. p.epoch <= g.during
      BY <2>4, <2>5, <2>12 DEF Epochs
    <3> QED BY <2>6, <2>7, <2>9, <2>11, <2>12, <3>1, <3>2 DEF Evidence
  <2>14. Go(c, ok, next)
    BY <1>5 DEF Results, next, longer, g
  <2> HIDE DEF ok
  <2> QED BY <1>1, <2>6, <2>8, <2>13, <2>14, GoStep
<1> QED BY <1>4, <1>5

\* No worker came between the answer and the second status: the latest epoch then
\* is that of the result.
LEMMA AgainStep ==
    ASSUME CaptureInv, NEW c \in Captures, Again(c)
    PROVE  CaptureInv'
PROOF
<1> DEFINE p == capture[c]
           next == [p EXCEPT !.pc = "reread"]
           ok == WorkerOf(p.seen) /\ Len(epochs) = p.epoch
<1>1. Running(c) /\ p.pc = "again"
  BY DEF Again, At, Running
<1>2. p \in Program /\ Progress(p) /\ Evidence(p)
  BY <1>1, AtStep
<1>3. /\ next \in Program /\ next.pc = "reread" /\ next.got = p.got /\ next.jobs = p.jobs
      /\ next.seen = p.seen
  BY <1>2 DEF Program
<1>4. Len(p.got) \in Nat /\ Len(p.got) > 0 /\ Len(p.got) \in 1..Len(p.got)
  BY <1>1, <1>2, CaptureAssumption DEF Progress
<1>5. ok => Confirmed(p.got[Len(p.got)])
  <2> SUFFICES ASSUME ok PROVE Confirmed(p.got[Len(p.got)])
    OBVIOUS
  <2> DEFINE g == p.got[Len(p.got)]
  <2>1. g.during \in Epochs /\ g.result.epoch = p.epoch /\ p.epoch <= g.during
    BY <1>1, <1>2, <1>4 DEF Evidence, Sound
  <2>2. Len(epochs) \in Nat
    BY DEF CaptureInv, TypeOK
  <2> HIDE DEF g
  <2>3. g.result.epoch = g.during
    BY <2>1, <2>2 DEF Epochs
  <2> QED BY <2>3 DEF Confirmed, g
<1>6. ok => Progress(next) /\ Evidence(next)
  <2> HIDE DEF next, ok
  <2> QED BY <1>1, <1>2, <1>3, <1>4, <1>5 DEF Progress, Evidence
<1>7. Go(c, ok, next)
  BY DEF Again
<1> HIDE DEF next, ok
<1> QED BY <1>1, <1>3, <1>6, <1>7, GoStep

LEMMA RereadStep ==
    ASSUME CaptureInv, NEW c \in Captures, Reread(c)
    PROVE  CaptureInv'
PROOF
<1> DEFINE p == capture[c]
           ok == /\ local.policy = p.seen /\ local.package = p.members.package
                 /\ local.baseline = p.members.baseline
           next == [p EXCEPT !.pc = IF Len(p.got) = Count THEN "final" ELSE "authority",
                             !.seen = None, !.members = None, !.epoch = 0]
<1>1. Running(c) /\ p.pc = "reread"
  BY DEF Reread, At, Running
<1>2. p \in Program /\ Progress(p) /\ Evidence(p)
  BY <1>1, AtStep
<1>3. /\ next \in Program /\ next.got = p.got /\ next.jobs = p.jobs
      /\ next.pc = IF Len(p.got) = Count THEN "final" ELSE "authority"
  BY <1>2 DEF Program
<1>4. Progress(next) /\ Evidence(next)
  <2> HIDE DEF next
  <2> QED BY <1>1, <1>2, <1>3, CaptureAssumption DEF Progress, Evidence
<1>5. Go(c, ok, next)
  BY DEF Reread
<1>6. next.pc # "create" /\ next.pc # "fill"
  BY <1>3
<1> HIDE DEF next, ok
<1> QED BY <1>1, <1>3, <1>4, <1>5, <1>6, GoStep

LEMMA FinishStep ==
    ASSUME CaptureInv, NEW c \in Captures, Finish(c)
    PROVE  CaptureInv'
PROOF
<1> DEFINE p == capture[c]
           next == [p EXCEPT !.pc = "create"]
           ok == /\ local.policy = p.policy /\ local.package = p.package /\ local.jobs = p.jobs
                 /\ Encodable(p.got, p.policy)
                 /\ p.package = p.own
<1>1. Running(c) /\ p.pc = "final"
  BY DEF Finish, At, Running
<1>2. p \in Program /\ Progress(p) /\ Evidence(p)
  BY <1>1, AtStep
<1>3. /\ next \in Program /\ next.pc = "create" /\ next.got = p.got /\ next.jobs = p.jobs
      /\ next.policy = p.policy
  BY <1>2 DEF Program
<1>4. Progress(next) /\ Evidence(next)
  <2> HIDE DEF next
  <2> QED BY <1>1, <1>2, <1>3 DEF Progress, Evidence
<1>5. ok => Encodable(next.got, next.policy)
  BY <1>3 DEF Encodable
<1>6. Go(c, ok, next)
  BY DEF Finish
<1> HIDE DEF next, ok
<1> QED BY <1>1, <1>3, <1>4, <1>5, <1>6, GoStep

\* The file is created by one program; no other was filling it.
LEMMA CreateStep ==
    ASSUME CaptureInv, NEW c \in Captures, Create(c)
    PROVE  CaptureInv'
PROOF
<1> DEFINE p == capture[c]
           next == [p EXCEPT !.pc = "fill"]
<1>1. Running(c) /\ p.pc = "create"
  BY DEF Create, At, Running
<1>2. p \in Program /\ Progress(p) /\ Evidence(p) /\ Output(c)
  BY <1>1, AtStep
<1>0. TypeOK
  BY DEF CaptureInv
<1>3. CASE output # None
  <2>1. capture' = [capture EXCEPT ![c] = Failed(c)] /\ UNCHANGED <<world, output>>
    BY <1>3 DEF Create
  <2> HIDE DEF Failed
  <2> QED BY <1>1, <2>1, AtStep, ProgramStep
<1>4. CASE output = None
  <2>1. /\ output' = [by |-> c, says |-> None] /\ capture' = [capture EXCEPT ![c] = next]
        /\ UNCHANGED world
    BY <1>0, <1>4 DEF Create, TypeOK
  <2>2. /\ next \in Program /\ next.pc = "fill" /\ next.got = p.got /\ next.jobs = p.jobs
        /\ next.policy = p.policy
    BY <1>2 DEF Program
  <2> HIDE DEF next
  <2>3. Progress(next) /\ Evidence(next)
    BY <1>1, <1>2, <2>2 DEF Progress, Evidence
  <2>4. TypeOK'
    BY <1>0, <2>1, <2>2 DEF TypeOK, world, Handles, Kinds
  <2>5. ASSUME NEW d \in Captures, Running(d)'
        PROVE  Progress(capture[d])' /\ Evidence(capture[d])' /\ Output(d)'
    <3>1. CASE d = c
      <4>1. capture'[d] = next
        BY <1>0, <2>1, <3>1 DEF TypeOK
      <4>2. Progress(capture[d])'
        BY <2>3, <4>1 DEF Progress
      <4>3. Evidence(capture[d])'
        BY <2>1, <2>3, <4>1, EvidenceKept DEF world, Epochs
      <4>4. Encodable(next.got, next.policy)
        BY <1>1, <1>2, <2>2 DEF Output, Encodable
      <4>5. Output(d)'
        BY <2>1, <3>1, <4>1, <4>4 DEF Output, Encodable
      <4> QED BY <4>2, <4>3, <4>5
    <3>2. CASE d # c
      <4>1. capture'[d] = capture[d]
        BY <1>0, <2>1, <3>2 DEF TypeOK
      <4>2. Progress(capture[d]) /\ Evidence(capture[d]) /\ Output(d)
        BY <2>5, <4>1 DEF Running, CaptureInv
      <4>3. capture[d].pc # "fill"
        BY <1>4, <4>2, CaptureAssumption DEF Output
      <4>4. Progress(capture[d])'
        BY <4>1, <4>2 DEF Progress
      <4>5. Evidence(capture[d])'
        BY <2>1, <4>1, <4>2, EvidenceKept DEF world, Epochs
      <4>6. Output(d)'
        BY <4>1, <4>2, <4>3 DEF Output, Encodable
      <4> QED BY <4>4, <4>5, <4>6
    <3> QED BY <3>1, <3>2
  <2>6. SingleAuthority'
    BY <2>1 DEF SingleAuthority
  <2> QED BY <2>4, <2>5, <2>6 DEF CaptureInv
<1> QED BY <1>3, <1>4

\* What is written is the work of the one worker of which every result is.
LEMMA FillStep ==
    ASSUME CaptureInv, NEW c \in Captures, Fill(c)
    PROVE  CaptureInv'
PROOF
<1> DEFINE p == capture[c]
           says == [by |-> c, policy |-> p.policy, got |-> p.got]
<1>0. TypeOK
  BY DEF CaptureInv
<1>1. Running(c) /\ p.pc = "fill"
  BY DEF Fill, At, Running
<1>2. p \in Program /\ Progress(p) /\ Evidence(p) /\ Output(c)
  BY <1>1, AtStep
<1>3. output = [by |-> c, says |-> None]
  BY <1>1, <1>2 DEF Output
<1>4. /\ output' = [by |-> c, says |-> says] /\ capture' = [capture EXCEPT ![c] = None]
      /\ UNCHANGED world
  BY <1>3 DEF Fill
<1>5. TypeOK'
  BY <1>0, <1>4 DEF TypeOK, world, Handles, Kinds
<1>6. ASSUME NEW d \in Captures, Running(d)'
      PROVE  Progress(capture[d])' /\ Evidence(capture[d])' /\ Output(d)'
  <2>1. d # c /\ capture'[d] = capture[d]
    BY <1>0, <1>4, <1>6 DEF TypeOK, Running
  <2>2. Progress(capture[d]) /\ Evidence(capture[d]) /\ Output(d)
    BY <1>6, <2>1 DEF Running, CaptureInv
  <2>3. capture[d].pc # "fill"
    BY <1>3, <2>1, <2>2 DEF Output
  <2>4. Progress(capture[d])'
    BY <2>1, <2>2 DEF Progress
  <2>5. Evidence(capture[d])'
    BY <1>4, <2>1, <2>2, EvidenceKept DEF world, Epochs
  <2>6. Output(d)'
    BY <2>1, <2>2, <2>3 DEF Output, Encodable
  <2> QED BY <2>4, <2>5, <2>6
<1>7. /\ \E e \in Epochs : /\ epochs[e] = p.policy
                           /\ \A k \in Kinds : /\ p.got[k].during = e
                                               /\ ranUnder[p.got[k].result.job] = e
                                               /\ KindOf(p.got[k].result.job) = k
  <2> DEFINE e == p.got[1].result.epoch
  <2>1. Len(p.got) = Count /\ 1 \in Kinds /\ Kinds = 1..Len(p.got)
    BY <1>1, <1>2, CaptureAssumption DEF Progress, Kinds
  <2>2. ASSUME NEW k \in Kinds PROVE Sound(p.got[k], k) /\ Confirmed(p.got[k])
    BY <1>1, <1>2, <2>1 DEF Evidence
  <2>3. /\ \A k \in Kinds : p.got[k].result.epoch = e
        /\ p.got[1].result.deployment = p.policy
    BY <1>1, <1>2, <2>1 DEF Output, Encodable
  <2>4. e \in Epochs /\ epochs[e] = p.policy
    BY <2>1, <2>2, <2>3 DEF Sound
  <2>5. ASSUME NEW k \in Kinds
        PROVE  /\ p.got[k].during = e
               /\ ranUnder[p.got[k].result.job] = e
               /\ KindOf(p.got[k].result.job) = k
    BY <2>2, <2>3 DEF Sound, Confirmed
  <2> HIDE DEF e
  <2> QED BY <2>4, <2>5
<1>8. SingleAuthority'
  <2> HIDE DEF p
  <2>1. output'.says.got = p.got /\ output'.says.policy = p.policy /\ output'.says.by = output'.by
    BY <1>4
  <2>2. UNCHANGED <<epochs, ranUnder>>
    BY <1>4 DEF world
  <2> QED BY <1>7, <2>1, <2>2 DEF SingleAuthority, Kinds, KindOf, Epochs
<1> QED BY <1>5, <1>6, <1>8 DEF CaptureInv

-----------------------------------------------------------------------------
(* The invariant. *)

LEMMA InitInv == Init => CaptureInv
PROOF
<1> SUFFICES ASSUME Init PROVE CaptureInv
  OBVIOUS
<1>1. (CHOOSE h \in Handles : TRUE) \in Handles
  BY HandlesExist
<1>2. TypeOK
  <2>1. /\ epochs \in Seq(Deployments) /\ Len(epochs) = 1 /\ epochs[1] = host.active
        /\ host \in [active : Deployments, alive : BOOLEAN, inventory : Inventories]
    <3>1. host \in [active : Deployments, alive : {TRUE}, inventory : Inventories]
      BY DEF Init
    <3>2. host.active \in Deployments /\ epochs = <<host.active>>
      BY <3>1 DEF Init
    <3>3. host \in [active : Deployments, alive : BOOLEAN, inventory : Inventories]
      BY <3>1
    <3> QED BY <3>2, <3>3
  <2>2. local \in [policy : Deployments, package : Deployments, baseline : Deployments,
                   jobs : Handles]
    BY <1>1 DEF Init
  <2> QED BY <2>1, <2>2, CaptureAssumption DEF Init, TypeOK
<1>3. \A c \in Captures : ~Running(c)
  BY DEF Init, Running
<1> QED BY <1>2, <1>3 DEF Init, CaptureInv, SingleAuthority

LEMMA NextInv == CaptureInv /\ [Next]_vars => CaptureInv'
PROOF
<1> SUFFICES ASSUME CaptureInv, [Next]_vars PROVE CaptureInv'
  OBVIOUS
<1>1. CASE Boot \/ Stops \/ Edit \/ \E d \in Deployments : Activate(d)
  BY <1>1, WorldStep
<1>2. ASSUME NEW c \in Captures, Step(c)
      PROVE  CaptureInv'
  BY <1>2, StartStep, ReadPolicyStep, ReadJobsStep, ReadAuthorityStep, StatusStep,
     ResultsStep, AgainStep, RereadStep, FinishStep, CreateStep, FillStep, GiveUpStep
     DEF Step
<1>3. CASE UNCHANGED vars
  BY <1>3 DEF vars, service, CaptureInv, TypeOK, Running, Progress, Evidence, Sound, Confirmed,
              Output, Encodable, SingleAuthority, Kinds, KindOf, Epochs, Handles
<1> QED BY <1>1, <1>2, <1>3 DEF Next

\* In every behaviour of captures, workers and edits, whatever a capture has
\* retrieved so far is of the kind it is kept for and, once confirmed, of the
\* worker that was there (capture_unity.py, unity_evidence.py).
THEOREM CaptureInvariant == Spec => []CaptureInv
PROOF
<1>1. Init => CaptureInv
  BY InitInv
<1>2. CaptureInv /\ [Next]_vars => CaptureInv'
  BY NextInv
<1> QED BY <1>1, <1>2, PTL DEF Spec

\* The state of the service, the files and the programs is always of its type.
THEOREM TypeCorrect == Spec => []TypeOK
PROOF
<1>1. CaptureInv => TypeOK
  BY DEF CaptureInv
<1> QED BY <1>1, CaptureInvariant, PTL

\* A capture that was written is the work of one worker, of the deployment it
\* names, with one job of each kind, and of one program, for any number of kinds,
\* jobs, workers, deployments and captures (encode_capture, retrieve_verified).
THEOREM OneAuthority == Spec => []SingleAuthority
PROOF
<1>1. CaptureInv => SingleAuthority
  BY DEF CaptureInv
<1> QED BY <1>1, CaptureInvariant, PTL
-----------------------------------------------------------------------------
(* Fitness for use: what a program holds while nothing happens. *)

\* The program has read what is there, and retrieved what the live worker did.
Agrees(p) ==
    /\ p.pc # "policy" => p.policy = local.policy /\ p.package = local.policy
    /\ p.pc \notin {"policy", "jobs"} => p.jobs = local.jobs
    /\ p.pc \in {"status", "results", "again", "reread"} =>
        /\ p.seen = local.policy
        /\ p.members = [package |-> local.policy, baseline |-> local.policy]
    /\ p.pc \in {"results", "again"} => p.epoch = Len(epochs)
    /\ \A i \in 1..Len(p.got) :
        /\ p.got[i].result.job = local.jobs[i]
        /\ p.got[i].result.epoch = Len(epochs)
        /\ p.got[i].result.deployment = local.policy

Undisturbed(c) == Running(c) /\ capture[c].calm /\ Fits(c)

FitnessInv ==
    /\ RefusedForReason
    /\ \A c \in Captures : Undisturbed(c) => Agrees(capture[c])

\* The two rules of selection agree: where the worker can select an adapter, the
\* client finds what was selected.
LEMMA RulesAgree ==
    ASSUME NEW inv \in Inventories, Selects(inv)
    PROVE  ClientMatches(inv) = {CHOOSE i \in WorkerMatches(inv) : TRUE}
PROOF
<1>1. ClientMatches(inv) = WorkerMatches(inv)
  BY DEF ClientMatches, WorkerMatches
<1>2. IsFiniteSet(WorkerMatches(inv))
  <2>1. Len(inv) \in Nat
    BY CaptureAssumption
  <2>2. IsFiniteSet(1..Len(inv))
    BY <2>1, FS_Interval
  <2>3. WorkerMatches(inv) \in SUBSET (1..Len(inv))
    BY DEF WorkerMatches
  <2> QED BY <2>2, <2>3, FS_Subset
<1>3. PICK i : WorkerMatches(inv) = {i}
  BY <1>2, FS_Singleton DEF Selects
<1> QED BY <1>1, <1>3

\* KINDS and the order in which collect passes the bundles agree.
LEMMA RolesAgree ==
    ASSUME NEW k \in Nat \ {0}
    PROVE  Role(k) = IF (k - 1) % 2 = 1 THEN "regenerated" ELSE "recovered"
BY DEF Role

\* What fits while nothing happens.
LEMMA FittingWorld ==
    ASSUME CaptureInv, NEW c \in Captures, Undisturbed(c)
    PROVE  /\ Len(epochs) \in Epochs /\ Len(epochs) \in Nat
           /\ epochs[Len(epochs)] = local.policy
           /\ host.active = local.policy /\ host.inventory \in Inventories
           /\ local.jobs \in Handles
           /\ \A k \in Kinds : /\ local.jobs[k] \in Jobs /\ KindOf(local.jobs[k]) = k
                               /\ ranUnder[local.jobs[k]] = Len(epochs)
PROOF
<1>1. TypeOK
  BY DEF CaptureInv
<1>2. Len(epochs) \in Epochs /\ Len(epochs) \in Nat
  BY <1>1 DEF TypeOK, Epochs
<1>3. /\ epochs[Len(epochs)] = local.policy /\ host.active = local.policy
      /\ host.inventory \in Inventories /\ local.jobs \in Handles
  BY <1>1 DEF TypeOK, Undisturbed, Fits
<1> QED BY <1>2, <1>3 DEF Handles, Undisturbed, Fits

\* A result of such a world is verified.
LEMMA FittingResult ==
    ASSUME CaptureInv, NEW c \in Captures, Undisturbed(c), NEW k \in Kinds
    PROVE  /\ Available(local.jobs[k])
           /\ Verified(Result(local.jobs[k]), k, local.policy, local.policy, local.policy)
           /\ Result(local.jobs[k]).job = local.jobs[k]
           /\ Result(local.jobs[k]).epoch = Len(epochs)
           /\ Result(local.jobs[k]).deployment = local.policy
PROOF
<1> DEFINE j == local.jobs[k]
           r == Result(j)
<1>1. /\ KindOf(j) = k /\ ranUnder[j] = Len(epochs) /\ Len(epochs) \in Epochs
      /\ epochs[Len(epochs)] = local.policy /\ host.active = local.policy
      /\ host.inventory \in Inventories
  BY FittingWorld
<1>2. Selects(host.inventory)
  BY DEF Undisturbed, Fits
<1>3. Available(j)
  BY <1>1, <1>2 DEF Available
<1> HIDE DEF j
<1>4. /\ r.job = j /\ r.kind = k /\ r.deployment = local.policy /\ r.epoch = Len(epochs)
      /\ r.bundle = <<local.policy, Role(k)>> /\ r.player = local.policy
      /\ r.runtime = local.policy /\ r.inventory = host.inventory
      /\ r.adapter = CHOOSE i \in WorkerMatches(host.inventory) : TRUE
  BY <1>1 DEF Result
<1> HIDE DEF r
<1>5. SelectionFits(r)
  BY <1>1, <1>2, <1>4, RulesAgree DEF SelectionFits, Selects
<1>6. Verified(r, k, local.policy, local.policy, local.policy)
  BY <1>4, <1>5 DEF Verified, PlayerRecordFits
<1> QED BY <1>3, <1>4, <1>6 DEF j, r

\* One program does a step while the world stands still.
LEMMA FitProgramStep ==
    ASSUME CaptureInv, FitnessInv, NEW c \in Captures, NEW next,
           capture' = [capture EXCEPT ![c] = next],
           UNCHANGED <<world, output>>,
           \/ next = None
           \/ /\ next.pc = "failed" /\ next.own = capture[c].own
              /\ ~Fits(c) \/ output # None
           \/ /\ next.pc # "failed" /\ next.own = capture[c].own
              /\ next.calm = capture[c].calm /\ Running(c)
              /\ Undisturbed(c) => Agrees(next)
    PROVE  FitnessInv'
PROOF
<1>0. capture \in [Captures -> {None} \cup Program \cup [pc : {"failed"}, own : Deployments]]
  BY DEF CaptureInv, TypeOK
<1>1. capture'[c] = next /\ \A d \in Captures : d # c => capture'[d] = capture[d]
  BY <1>0
<1>2. \A d \in Captures : capture'[d] # None /\ capture'[d].own = capture[d].own
        => (Fits(d)' <=> Fits(d))
  BY DEF Fits, world, Selects, Kinds
<1>3. ASSUME NEW d \in Captures, capture'[d] # None, capture'[d].pc = "failed"
      PROVE  ~Fits(d)' \/ output' # None
  <2>1. CASE d = c
    BY <1>1, <1>2, <1>3, <2>1
  <2>2. CASE d # c
    BY <1>1, <1>2, <1>3, <2>2 DEF FitnessInv, RefusedForReason
  <2> QED BY <2>1, <2>2
<1>4. ASSUME NEW d \in Captures, Undisturbed(d)'
      PROVE  Agrees(capture[d])'
  <2>1. capture'[d] # None /\ capture'[d].pc # "failed" /\ capture'[d].calm /\ Fits(d)'
    BY <1>4 DEF Undisturbed, Running
  <2>2. CASE d = c
    <3>1. /\ next # None /\ next.pc # "failed" /\ next.own = capture[c].own
          /\ next.calm = capture[c].calm /\ Running(c)
          /\ Undisturbed(c) => Agrees(next)
      BY <1>1, <2>1, <2>2
    <3>2. Undisturbed(c)
      BY <1>1, <1>2, <2>1, <2>2, <3>1 DEF Undisturbed
    <3> QED BY <1>1, <2>2, <3>1, <3>2 DEF Agrees, world
  <2>3. CASE d # c
    <3>1. Undisturbed(d)
      BY <1>1, <1>2, <2>1, <2>3 DEF Undisturbed, Running
    <3> QED BY <1>1, <2>3, <3>1 DEF FitnessInv, Agrees, world
  <2> QED BY <2>2, <2>3
<1> QED BY <1>3, <1>4 DEF FitnessInv, RefusedForReason

\* A step that goes on or fails, and goes on while everything fits.
LEMMA FitGoStep ==
    ASSUME CaptureInv, FitnessInv, NEW c \in Captures, Running(c),
           NEW ok, NEW next, Go(c, ok, next),
           Undisturbed(c) => ok,
           ok => /\ next.pc # "failed" /\ next.own = capture[c].own
                 /\ next.calm = capture[c].calm
                 /\ Undisturbed(c) => Agrees(next)
    PROVE  FitnessInv'
PROOF
<1>1. CASE ok
  BY <1>1, FitProgramStep DEF Go
<1>2. CASE ~ok
  <2>1. capture' = [capture EXCEPT ![c] = Failed(c)] /\ UNCHANGED <<world, output>>
    BY <1>2 DEF Go
  <2>2. \/ Failed(c) = None
        \/ /\ Failed(c).pc = "failed" /\ Failed(c).own = capture[c].own /\ ~Fits(c)
    BY <1>2 DEF Failed, Undisturbed
  <2> HIDE DEF Failed
  <2> QED BY <2>1, <2>2, FitProgramStep
<1> QED BY <1>1, <1>2
LEMMA FitReads ==
    ASSUME CaptureInv, FitnessInv, NEW c \in Captures, ReadPolicy(c) \/ ReadJobs(c)
    PROVE  FitnessInv'
PROOF
<1> DEFINE p == capture[c]
<1>0. Running(c) /\ p.pc \in {"policy", "jobs"}
  BY DEF ReadPolicy, ReadJobs, At, Running
<1>1. p \in Program /\ Progress(p)
  BY <1>0, AtStep
<1>2. p.got = <<>>
  BY <1>0, <1>1 DEF Progress
<1>3. CASE ReadPolicy(c)
  <2> DEFINE next == [p EXCEPT !.pc = "jobs", !.policy = local.policy, !.package = local.package]
  <2>1. /\ next.pc = "jobs" /\ next.own = p.own /\ next.calm = p.calm /\ next.got = p.got
        /\ next.policy = local.policy /\ next.package = local.package
    BY <1>1 DEF Program
  <2>2. Undisturbed(c) => local.package = local.policy
    BY DEF Undisturbed, Fits
  <2>3. Go(c, local.package = local.policy, next)
    BY <1>3 DEF ReadPolicy
  <2> HIDE DEF next
  <2>4. Undisturbed(c) => Agrees(next)
    BY <1>2, <2>1, <2>2 DEF Agrees
  <2> QED BY <1>0, <2>1, <2>2, <2>3, <2>4, FitGoStep
<1>4. CASE ReadJobs(c)
  <2> DEFINE next == [p EXCEPT !.pc = "authority", !.jobs = local.jobs]
  <2>1. /\ next.pc = "authority" /\ next.own = p.own /\ next.calm = p.calm /\ next.got = p.got
        /\ next.policy = p.policy /\ next.package = p.package /\ next.jobs = local.jobs
    BY <1>1 DEF Program
  <2>2. Go(c, TRUE, next) /\ p.pc = "jobs"
    BY <1>4 DEF ReadJobs, At
  <2> HIDE DEF next
  <2>3. Undisturbed(c) => Agrees(next)
    BY <1>2, <2>1, <2>2 DEF Agrees, FitnessInv
  <2> QED BY <1>0, <2>1, <2>2, <2>3, FitGoStep
<1> QED BY <1>3, <1>4

LEMMA FitReadAuthority ==
    ASSUME CaptureInv, FitnessInv, NEW c \in Captures, ReadAuthority(c)
    PROVE  FitnessInv'
PROOF
<1> DEFINE p == capture[c]
           members == [package |-> local.package, baseline |-> local.baseline]
           next == [p EXCEPT !.pc = "status", !.seen = local.policy, !.members = members]
           ok == /\ HandleFits(Job(c), local.policy)
                 /\ local.package = local.policy
                 /\ local.baseline = local.policy
                 /\ <<local.package, Role(Kind(c))>> = Expected(c)
<1>1. Running(c) /\ p.pc = "authority"
  BY DEF ReadAuthority, At, Running
<1>2. p \in Program /\ Progress(p)
  BY <1>1, AtStep
<1>3. Kind(c) \in Kinds /\ Kind(c) \in Nat \ {0} /\ Kind(c) = Len(p.got) + 1
  BY <1>1, <1>2, CaptureAssumption DEF Progress, Kind, Kinds
<1>4. /\ next.pc = "status" /\ next.own = p.own /\ next.calm = p.calm /\ next.got = p.got
      /\ next.policy = p.policy /\ next.package = p.package /\ next.jobs = p.jobs
      /\ next.seen = local.policy /\ next.members = members
  <2> HIDE DEF members
  <2> QED BY <1>2 DEF Program
<1>5. Go(c, ok, next)
  BY DEF ReadAuthority
<1>6. ASSUME Undisturbed(c)
      PROVE  ok /\ Agrees(next)
  <2>1. Agrees(p) /\ p.jobs = local.jobs
    BY <1>1, <1>6 DEF FitnessInv, Agrees
  <2>2. Job(c) = local.jobs[Kind(c)]
    BY <2>1 DEF Job, Kind
  <2>3. HandleFits(Job(c), local.policy)
    BY <1>3, <1>6, <2>2, FittingWorld DEF HandleFits
  <2>4. local.package = local.policy /\ local.baseline = local.policy /\ p.own = local.policy
    BY <1>6 DEF Undisturbed, Fits
  <2>5. Expected(c) = <<local.policy, Role(Kind(c))>>
    BY <1>3, <2>4, RolesAgree DEF Expected
  <2>6. Agrees(next)
    <3> HIDE DEF next
    <3> QED BY <1>1, <1>4, <2>1, <2>4 DEF Agrees
  <2> QED BY <2>3, <2>4, <2>5, <2>6
<1> HIDE DEF next, ok
<1> QED BY <1>1, <1>4, <1>5, <1>6, FitGoStep

LEMMA FitStatus ==
    ASSUME CaptureInv, FitnessInv, NEW c \in Captures, Status(c) \/ Again(c)
    PROVE  FitnessInv'
PROOF
<1> DEFINE p == capture[c]
<1>0. Running(c) /\ p.pc \in {"status", "again"}
  BY DEF Status, Again, At, Running
<1>1. p \in Program
  BY <1>0, AtStep
<1>2. ASSUME Undisturbed(c)
      PROVE  WorkerOf(p.seen) /\ Agrees(p)
  <2>1. Agrees(p) /\ p.seen = local.policy
    BY <1>0, <1>2 DEF FitnessInv, Agrees
  <2>2. host.alive /\ epochs[Len(epochs)] = local.policy
    BY <1>2, FittingWorld DEF Undisturbed, Fits
  <2> QED BY <2>1, <2>2 DEF WorkerOf
<1>3. CASE Status(c)
  <2> DEFINE next == [p EXCEPT !.pc = "results", !.epoch = Len(epochs)]
  <2>1. /\ next.pc = "results" /\ next.own = p.own /\ next.calm = p.calm /\ next.got = p.got
        /\ next.policy = p.policy /\ next.package = p.package /\ next.jobs = p.jobs
        /\ next.seen = p.seen /\ next.members = p.members /\ next.epoch = Len(epochs)
    BY <1>1 DEF Program
  <2>2. Go(c, WorkerOf(p.seen), next) /\ p.pc = "status"
    BY <1>3 DEF Status, At
  <2> HIDE DEF next
  <2>3. Undisturbed(c) => Agrees(next)
    BY <1>2, <2>1, <2>2 DEF Agrees
  <2> QED BY <1>0, <1>2, <2>1, <2>2, <2>3, FitGoStep
<1>4. CASE Again(c)
  <2> DEFINE next == [p EXCEPT !.pc = "reread"]
             ok == WorkerOf(p.seen) /\ Len(epochs) = p.epoch
  <2>1. /\ next.pc = "reread" /\ next.own = p.own /\ next.calm = p.calm /\ next.got = p.got
        /\ next.policy = p.policy /\ next.package = p.package /\ next.jobs = p.jobs
        /\ next.seen = p.seen /\ next.members = p.members
    BY <1>1 DEF Program
  <2>2. Go(c, ok, next) /\ p.pc = "again"
    BY <1>4 DEF Again, At
  <2>3. Undisturbed(c) => ok
    BY <1>2, <2>2 DEF Agrees
  <2> HIDE DEF next
  <2>4. Undisturbed(c) => Agrees(next)
    BY <1>2, <2>1, <2>2 DEF Agrees
  <2> HIDE DEF ok
  <2> QED BY <1>0, <2>1, <2>2, <2>3, <2>4, FitGoStep
<1> QED BY <1>3, <1>4

LEMMA FitResults ==
    ASSUME CaptureInv, FitnessInv, NEW c \in Captures, Results(c)
    PROVE  FitnessInv'
PROOF
<1> DEFINE p == capture[c]
           r == Result(Job(c))
           longer == Append(p.got, [result |-> r, during |-> Len(epochs)])
           next == [p EXCEPT !.pc = "again", !.got = longer]
           ok == /\ Verified(r, Kind(c), p.seen, p.members.package, p.members.baseline)
                 /\ r.epoch = p.epoch
<1>1. Running(c) /\ p.pc = "results"
  BY DEF Results, At, Running
<1>2. p \in Program /\ Progress(p)
  BY <1>1, AtStep
<1>3. /\ Kind(c) \in Kinds /\ Kind(c) = Len(p.got) + 1 /\ Len(p.got) \in Nat
      /\ p.got \in Seq(Retrieved)
  BY <1>1, <1>2, CaptureAssumption DEF Progress, Kind, Kinds, Program
<1>4. ASSUME Undisturbed(c)
      PROVE  /\ Agrees(p) /\ Job(c) = local.jobs[Kind(c)] /\ Available(Job(c)) /\ ok
             /\ r.job = Job(c) /\ r.epoch = Len(epochs) /\ r.deployment = local.policy
  <2>1. /\ Agrees(p) /\ p.jobs = local.jobs /\ p.epoch = Len(epochs) /\ p.seen = local.policy
        /\ p.members.package = local.policy /\ p.members.baseline = local.policy
    BY <1>1, <1>4 DEF FitnessInv, Agrees
  <2>2. Job(c) = local.jobs[Kind(c)]
    BY <2>1 DEF Job, Kind
  <2> QED BY <1>3, <1>4, <2>1, <2>2, FittingResult
<1>5. CASE ~Available(Job(c))
  <2>1. Go(c, FALSE, None)
    BY <1>5 DEF Results
  <2> QED BY <1>1, <1>4, <1>5, <2>1, FitGoStep
<1>6. CASE Available(Job(c))
  <2>0. Go(c, ok, next)
    BY <1>6 DEF Results
  <2> HIDE DEF ok, r
  <2>1. /\ longer[Kind(c)].result = r /\ Len(longer) = Kind(c)
        /\ \A i \in 1..Len(p.got) : longer[i] = p.got[i]
    BY <1>3
  <2> HIDE DEF longer
  <2>2. /\ next.pc = "again" /\ next.own = p.own /\ next.calm = p.calm /\ next.got = longer
        /\ next.policy = p.policy /\ next.package = p.package /\ next.jobs = p.jobs
        /\ next.seen = p.seen /\ next.members = p.members /\ next.epoch = p.epoch
    BY <1>2 DEF Program
  <2> HIDE DEF next
  <2>3. ASSUME Undisturbed(c)
        PROVE  Agrees(next)
    <3>1. \A i \in 1..Len(longer) : \/ i \in 1..Len(p.got)
                                    \/ i = Kind(c)
      BY <1>3, <2>1
    <3>2. \A i \in 1..Len(longer) :
            /\ longer[i].result.job = local.jobs[i]
            /\ longer[i].result.epoch = Len(epochs)
            /\ longer[i].result.deployment = local.policy
      BY <1>4, <2>1, <2>3, <3>1 DEF Agrees
    <3> QED BY <1>1, <1>4, <2>2, <2>3, <3>2 DEF Agrees
  <2> QED BY <1>1, <1>4, <2>0, <2>2, <2>3, FitGoStep
<1> QED BY <1>5, <1>6

LEMMA FitReread ==
    ASSUME CaptureInv, FitnessInv, NEW c \in Captures, Reread(c)
    PROVE  FitnessInv'
PROOF
<1> DEFINE p == capture[c]
           ok == /\ local.policy = p.seen /\ local.package = p.members.package
                 /\ local.baseline = p.members.baseline
           next == [p EXCEPT !.pc = IF Len(p.got) = Count THEN "final" ELSE "authority",
                             !.seen = None, !.members = None, !.epoch = 0]
<1>1. Running(c) /\ p.pc = "reread"
  BY DEF Reread, At, Running
<1>2. p \in Program
  BY <1>1, AtStep
<1>3. /\ next.pc \in {"final", "authority"} /\ next.own = p.own /\ next.calm = p.calm
      /\ next.got = p.got /\ next.policy = p.policy /\ next.package = p.package
      /\ next.jobs = p.jobs
  BY <1>2 DEF Program
<1>4. Go(c, ok, next)
  BY DEF Reread
<1> HIDE DEF next
<1>5. ASSUME Undisturbed(c)
      PROVE  ok /\ Agrees(next)
  <2>1. Agrees(p)
    BY <1>5 DEF FitnessInv
  <2>2. ok
    BY <1>1, <1>5, <2>1 DEF Agrees, Undisturbed, Fits
  <2>3. Agrees(next)
    BY <1>1, <1>3, <2>1 DEF Agrees
  <2> QED BY <2>2, <2>3
<1>6. next.pc # "failed"
  BY <1>3
<1> HIDE DEF ok
<1> QED BY <1>1, <1>3, <1>4, <1>5, <1>6, FitGoStep

LEMMA FitFinish ==
    ASSUME CaptureInv, FitnessInv, NEW c \in Captures, Finish(c)
    PROVE  FitnessInv'
PROOF
<1> DEFINE p == capture[c]
           next == [p EXCEPT !.pc = "create"]
           ok == /\ local.policy = p.policy /\ local.package = p.package /\ local.jobs = p.jobs
                 /\ Encodable(p.got, p.policy)
                 /\ p.package = p.own
<1>1. Running(c) /\ p.pc = "final"
  BY DEF Finish, At, Running
<1>2. p \in Program /\ Progress(p) /\ Evidence(p)
  BY <1>1, AtStep
<1>3. Len(p.got) = Count /\ 1 \in Kinds /\ Kinds = 1..Len(p.got)
  BY <1>1, <1>2, CaptureAssumption DEF Progress, Kinds
<1>4. /\ next.pc = "create" /\ next.own = p.own /\ next.calm = p.calm
      /\ next.got = p.got /\ next.policy = p.policy /\ next.package = p.package
      /\ next.jobs = p.jobs
  BY <1>2 DEF Program
<1>5. Go(c, ok, next)
  BY DEF Finish
<1> HIDE DEF next
<1>6. ASSUME Undisturbed(c)
      PROVE  ok /\ Agrees(next)
  <2>1. Agrees(p) /\ p.policy = local.policy /\ p.package = local.policy /\ p.jobs = local.jobs
    BY <1>1, <1>6 DEF FitnessInv, Agrees
  <2>2. local.package = local.policy /\ p.own = local.policy
    BY <1>6 DEF Undisturbed, Fits
  <2>3. \A k \in Kinds : /\ p.got[k].result.job = local.jobs[k]
                         /\ p.got[k].result.epoch = Len(epochs)
                         /\ p.got[k].result.deployment = local.policy
    BY <1>3, <2>1 DEF Agrees
  <2>4. \A k \in Kinds : p.got[k].result.kind = k /\ KindOf(local.jobs[k]) = k
    BY <1>2, <1>3, <1>6, FittingWorld DEF Evidence, Sound
  <2> HIDE DEF p
  <2>5. Encodable(p.got, p.policy)
    <3>1. \A k \in Kinds :
            /\ p.got[k].result.kind = k
            /\ p.got[k].result.epoch = p.got[1].result.epoch
            /\ p.got[k].result.deployment = p.policy
      BY <1>3, <2>1, <2>3, <2>4
    <3>2. ASSUME NEW k \in Kinds, NEW l \in Kinds, p.got[k].result.job = p.got[l].result.job
          PROVE  k = l
      <4>1. local.jobs[k] = local.jobs[l]
        BY <2>3, <3>2
      <4> QED BY <2>4, <4>1
    <3> QED BY <3>1, <3>2 DEF Encodable
  <2>6. Agrees(next)
    BY <1>1, <1>4, <2>1 DEF Agrees, p
  <2> QED BY <2>1, <2>2, <2>5, <2>6
<1> HIDE DEF ok
<1> QED BY <1>1, <1>4, <1>5, <1>6, FitGoStep
LEMMA FitEnds ==
    ASSUME CaptureInv, FitnessInv, NEW c \in Captures, Start(c) \/ GiveUp(c)
    PROVE  FitnessInv'
PROOF
<1>1. CASE GiveUp(c)
  BY <1>1, FitProgramStep DEF GiveUp
<1>2. CASE Start(c)
  <2>1. PICK own \in Deployments :
          capture' = [capture EXCEPT ![c] =
            [pc |-> "policy", calm |-> TRUE, own |-> own, policy |-> None, package |-> None,
             jobs |-> None, seen |-> None, members |-> None, epoch |-> 0, got |-> <<>>]]
    BY <1>2 DEF Start
  <2>2. /\ capture'[c].pc = "policy" /\ capture'[c].got = <<>> /\ UNCHANGED <<world, output>>
        /\ \A d \in Captures : d # c => capture'[d] = capture[d]
    BY <1>2, <2>1 DEF Start, CaptureInv, TypeOK
  <2>3. \A d \in Captures : d # c => (Fits(d)' <=> Fits(d))
    BY <2>2 DEF Fits, world, Selects, Kinds
  <2>4. RefusedForReason'
    BY <2>2, <2>3 DEF FitnessInv, RefusedForReason
  <2>5. ASSUME NEW d \in Captures, Undisturbed(d)'
        PROVE  Agrees(capture[d])'
    <3>1. CASE d = c
      BY <2>2, <3>1 DEF Agrees
    <3>2. CASE d # c
      <4>1. Undisturbed(d)
        BY <2>2, <2>3, <2>5, <3>2 DEF Undisturbed, Running
      <4> QED BY <2>2, <3>2, <4>1 DEF FitnessInv, Agrees, world
    <3> QED BY <3>1, <3>2
  <2> QED BY <2>4, <2>5 DEF FitnessInv
<1> QED BY <1>1, <1>2

\* Once there is an output, no failure needs another reason.
LEMMA FitWrites ==
    ASSUME CaptureInv, FitnessInv, NEW c \in Captures, Create(c) \/ Fill(c)
    PROVE  FitnessInv'
PROOF
<1> DEFINE p == capture[c]
<1>0. Running(c) /\ p.pc \in {"create", "fill"}
  BY DEF Create, Fill, At, Running
<1>1. p \in Program /\ Output(c)
  BY <1>0, AtStep
<1>2. CASE Create(c) /\ output # None
  <2>1. capture' = [capture EXCEPT ![c] = Failed(c)] /\ UNCHANGED <<world, output>>
    BY <1>2 DEF Create
  <2>2. \/ Failed(c) = None
        \/ Failed(c).pc = "failed" /\ Failed(c).own = p.own
    BY DEF Failed
  <2> HIDE DEF Failed
  <2> QED BY <1>2, <2>1, <2>2, FitProgramStep
<1>3. ASSUME output' # None, UNCHANGED world,
             \A d \in Captures : d # c => capture'[d] = capture[d],
             Undisturbed(c)' => Undisturbed(c) /\ capture'[c] = [p EXCEPT !.pc = "fill"]
      PROVE  FitnessInv'
  <2>1. \A d \in Captures : d # c => (Fits(d)' <=> Fits(d))
    BY <1>3 DEF Fits, world, Selects, Kinds
  <2>2. ASSUME NEW d \in Captures, Undisturbed(d)'
        PROVE  Agrees(capture[d])'
    <3>1. CASE d = c
      <4>1. Agrees(p) /\ p.pc \notin {"policy", "jobs"}
        BY <1>0, <1>3, <2>2, <3>1 DEF FitnessInv
      <4>2. /\ capture'[c].pc = "fill" /\ capture'[c].got = p.got /\ capture'[c].jobs = p.jobs
            /\ capture'[c].policy = p.policy /\ capture'[c].package = p.package
        BY <1>1, <1>3, <2>2, <3>1 DEF Program
      <4> QED BY <1>3, <3>1, <4>1, <4>2 DEF Agrees, world
    <3>2. CASE d # c
      <4>1. Undisturbed(d)
        BY <1>3, <2>1, <2>2, <3>2 DEF Undisturbed, Running
      <4> QED BY <1>3, <3>2, <4>1 DEF FitnessInv, Agrees, world
    <3> QED BY <3>1, <3>2
  <2> QED BY <1>3, <2>2 DEF FitnessInv, RefusedForReason
<1>4. CASE Create(c) /\ output = None
  <2>1. /\ output' = [by |-> c, says |-> None]
        /\ capture' = [capture EXCEPT ![c].pc = "fill"] /\ UNCHANGED world
    BY <1>4 DEF Create
  <2>2. /\ capture'[c] = [p EXCEPT !.pc = "fill"]
        /\ \A d \in Captures : d # c => capture'[d] = capture[d]
    BY <2>1 DEF CaptureInv, TypeOK
  <2>3. output' # None
    <3>1. output' \in [by : Captures, says : {None}]
      BY <2>1
    <3> QED BY <3>1, CaptureAssumption
  <2>4. capture'[c].own = p.own /\ capture'[c].calm = p.calm
    BY <1>1, <2>2 DEF Program
  <2>5. Undisturbed(c)' => Undisturbed(c)
    BY <1>0, <2>1, <2>4 DEF Undisturbed, Fits, world, Selects, Kinds
  <2> QED BY <1>3, <2>1, <2>2, <2>3, <2>5
<1>5. CASE Fill(c)
  <2>1. p.pc = "fill"
    BY <1>5 DEF Fill, At
  <2>2. /\ output = [by |-> c, says |-> None]
        /\ capture' = [capture EXCEPT ![c] = None] /\ UNCHANGED world
    BY <1>1, <1>5, <2>1 DEF Fill, Output
  <2>3. /\ capture'[c] = None
        /\ \A d \in Captures : d # c => capture'[d] = capture[d]
    BY <2>2 DEF CaptureInv, TypeOK
  <2>4. p.policy \in Deployments \cup {None} /\ p.got \in Seq(Retrieved)
    BY <1>1 DEF Program
  <2>5. output' = [by |-> c, says |-> [by |-> c, policy |-> p.policy, got |-> p.got]]
    BY <1>5, <2>2 DEF Fill
  <2> HIDE DEF p
  <2>6. output' \in [by : Captures, says : [by : Captures, policy : Deployments \cup {None},
                                            got : Seq(Retrieved)]]
    BY <2>4, <2>5
  <2>7. output' # None
    BY <2>6, NoneIsNoCapture
  <2>8. ~Undisturbed(c)'
    BY <2>3 DEF Undisturbed, Running
  <2> QED BY <1>3, <2>2, <2>3, <2>7, <2>8
<1> QED BY <1>2, <1>4, <1>5

\* What happens meanwhile ends the calm of every program.
LEMMA FitWorld ==
    ASSUME CaptureInv, Disturbs
    PROVE  FitnessInv'
PROOF
<1>1. ASSUME NEW c \in Captures, capture'[c] # None
      PROVE  capture'[c].pc # "failed" /\ ~capture'[c].calm
  <2>1. Running(c) /\ capture'[c] = [capture[c] EXCEPT !.calm = FALSE]
    BY <1>1 DEF Disturbs
  <2>2. capture[c] \in Program
    BY <2>1 DEF CaptureInv, TypeOK, Running
  <2>3. /\ capture'[c].pc = capture[c].pc /\ capture'[c].calm = FALSE
        /\ capture[c].pc # "failed"
    BY <2>1, <2>2 DEF Program, Running
  <2> QED BY <2>3
<1> QED BY <1>1 DEF FitnessInv, RefusedForReason, Undisturbed, Running

LEMMA FitnessStep ==
    ASSUME CaptureInv, FitnessInv, [Next]_vars
    PROVE  FitnessInv'
PROOF
<1>1. CASE Boot \/ Stops \/ Edit \/ \E d \in Deployments : Activate(d)
  BY <1>1, FitWorld DEF Boot, Stops, Edit, Activate
<1>2. ASSUME NEW c \in Captures, Step(c)
      PROVE  FitnessInv'
  BY <1>2, FitReads, FitReadAuthority, FitStatus, FitResults, FitReread, FitFinish, FitWrites,
     FitEnds DEF Step
<1>3. CASE UNCHANGED vars
  BY <1>3 DEF vars, service, FitnessInv, RefusedForReason, Undisturbed, Running, Fits, Selects,
              Agrees, Kinds
<1> QED BY <1>1, <1>2, <1>3 DEF Next

\* Where the reviewed files, the bundles, the worker and its jobs all fit, and
\* nothing happens meanwhile, no check of the program refuses, for any number of
\* kinds and any inventory: the rule by which the worker selects its adapter and
\* the one the client applies again agree (retrieve_verified, encode_capture).
THEOREM NeverRefusedInVain == Spec => []RefusedForReason
PROOF
<1>1. Init => FitnessInv
  BY DEF Init, FitnessInv, RefusedForReason, Undisturbed, Running
<1>2. CaptureInv /\ FitnessInv /\ [Next]_vars => FitnessInv'
  BY FitnessStep
<1>3. FitnessInv => RefusedForReason
  BY DEF FitnessInv
<1> QED BY <1>1, <1>2, <1>3, CaptureInvariant, PTL DEF Spec
=============================================================================
