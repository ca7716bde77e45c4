--------------------------- MODULE EvidenceCapture ---------------------------
(***************************************************************************)
(* capture_unity.py and unity_evidence.py: a program that retrieves the    *)
(* results of one Unity job per kind, checks each against the reviewed     *)
(* policy and the files it pins, and writes them into one capture. None of *)
(* what it looks at stands still: workers end and start under a new epoch, *)
(* other deployments are activated, the local files may be edited, and     *)
(* another capture may be after the same output.                           *)
(***************************************************************************)
EXTENDS Naturals, Sequences, FiniteSets

CONSTANTS
    Count,        \* number of kinds: KINDS[1], ..., KINDS[Count]
    Jobs,         \* the Unity jobs that exist, as pairs of kind and number
    Deployments,  \* a deployment stands for its policy and the files that one pins
    Inventories,  \* what the adapter inventory of the host may be
    Captures,     \* programs
    MaxEpoch,     \* bounds: workers started,
    MaxEdits,     \*         local files edited
    None

ASSUME CaptureAssumption ==
    /\ Count \in Nat \ {0}
    /\ Jobs \subseteq (1..Count) \X Nat
    /\ \A k \in 1..Count : \E j \in Jobs : j[1] = k
    /\ Inventories \subseteq Seq([pinned : BOOLEAN, flags : 0..3, luid : Nat])
    /\ MaxEpoch \in Nat \ {0} /\ MaxEdits \in Nat
    /\ None \notin Deployments \cup Captures \cup [by : Captures, says : {None}]

VARIABLES
    host,     \* the service: see TypeOK
    epochs,   \* epoch -> the deployment its worker runs
    ranUnder, \* job -> the epoch in which it completes; 0 when it never does
    local,    \* the reviewed files and the jobs file, as they are now
    edits,    \* number of edits so far
    capture,  \* program -> None or its state
    output    \* None or the output file: who created it and, when complete, what it says

service == <<host, epochs>>
vars == <<host, epochs, ranUnder, local, edits, capture, output>>

Kinds == 1..Count
KindOf(j) == j[1]
Epochs == 1..Len(epochs)

-----------------------------------------------------------------------------
(* Selection of the adapter: an entry has the fields of the pinned hardware or *)
(* not, DXGI flags and a LUID. The worker and the client each apply the rule.  *)

UniqueLuids(inv) == \A i, j \in 1..Len(inv) : inv[i].luid = inv[j].luid => i = j

\* Of the flags, 1 is remote and 2 is software.
WorkerMatches(inv) == {i \in 1..Len(inv) : inv[i].pinned /\ inv[i].flags = 0}
Selects(inv) == UniqueLuids(inv) /\ Cardinality(WorkerMatches(inv)) = 1

ClientMatchesAny(inv) == {i \in 1..Len(inv) : inv[i].pinned}
ClientMatches(inv) == {i \in 1..Len(inv) : inv[i].pinned /\ inv[i].flags = 0}

SelectionFits(record) ==
    LET inv == record.inventory IN
    /\ UniqueLuids(inv)
    /\ ClientMatches(inv) = {record.adapter}

-----------------------------------------------------------------------------
(* A result and its verification. *)

\* KINDS alternates the two bundles in its innermost loop.
Role(k) == IF k % 2 = 1 THEN "recovered" ELSE "regenerated"

\* What the worker records of a completed draw.
Result(j) ==
    LET d == epochs[ranUnder[j]] IN
    [job |-> j, kind |-> KindOf(j), deployment |-> d, epoch |-> ranUnder[j],
     bundle |-> <<d, Role(KindOf(j))>>, player |-> d, runtime |-> d,
     inventory |-> host.inventory,
     adapter |-> CHOOSE i \in WorkerMatches(host.inventory) : TRUE]

\* The gateway gives results of the active deployment only. A job that has not
\* completed, or not successfully, is refused by verify.
Available(j) ==
    /\ ranUnder[j] \in Epochs
    /\ epochs[ranUnder[j]] = host.active
    /\ Selects(host.inventory)

\* The raw observations of the player, whatever the worker's own comparison says.
PlayerRecordFits(record, kind, package) == record.bundle = <<package, Role(kind)>>

Verified(record, kind, policy, package, baseline) ==
    /\ record.deployment = policy
    /\ record.kind = kind
    /\ record.player = package
    /\ record.runtime = baseline
    /\ SelectionFits(record)
    /\ PlayerRecordFits(record, kind, package)

-----------------------------------------------------------------------------
(* What happens meanwhile. All of it disturbs the captures under way. *)

Running(c) == capture[c] # None /\ capture[c].pc # "failed"
Disturbs ==
    capture' = [c \in Captures |-> IF Running(c) THEN [capture[c] EXCEPT !.calm = FALSE]
                                   ELSE None]

\* A worker is alive when its heartbeat is fresh; each has an epoch of its own. A
\* heartbeat that is only late for once is to a client no more than a lost call.
Boot ==
    /\ Len(epochs) < MaxEpoch
    /\ epochs' = Append(epochs, host.active)
    /\ host' = [host EXCEPT !.alive = TRUE]
    /\ Disturbs
    /\ UNCHANGED <<ranUnder, local, edits, output>>

Stops ==
    /\ host.alive
    /\ host' = [host EXCEPT !.alive = FALSE]
    /\ Disturbs
    /\ UNCHANGED <<epochs, ranUnder, local, edits, output>>

ActivateUnder(d) ==
    /\ d # host.active
    /\ host' = [host EXCEPT !.active = d]
    /\ Disturbs
    /\ UNCHANGED <<epochs, ranUnder, local, edits, output>>

\* The executor stops the worker before it selects another deployment.
Activate(d) ==
    /\ ~host.alive
    /\ d # host.active
    /\ host' = [host EXCEPT !.active = d]
    /\ Disturbs
    /\ UNCHANGED <<epochs, ranUnder, local, edits, output>>

Handles == {h \in [Kinds -> Jobs] : \A k \in Kinds : KindOf(h[k]) = k}
Edit ==
    /\ edits < MaxEdits
    /\ edits' = edits + 1
    /\ \/ \E f \in {"policy", "package", "baseline"}, d \in Deployments :
             d # local[f] /\ local' = [local EXCEPT ![f] = d]
       \/ \E h \in Handles : h # local.jobs /\ local' = [local EXCEPT !.jobs = h]
    /\ Disturbs
    /\ UNCHANGED <<service, ranUnder, output>>

-----------------------------------------------------------------------------
(* The program: collect, which calls retrieve_verified for every kind. *)

world == <<host, epochs, ranUnder, local, edits>>

\* The digests on the command line are those of the consumer's own bundles.
Start(c) ==
    /\ capture[c] = None
    /\ output = None
    /\ \E own \in Deployments :
        capture' = [capture EXCEPT ![c] =
            [pc |-> "policy", calm |-> TRUE, own |-> own, policy |-> None, package |-> None,
             jobs |-> None, seen |-> None, members |-> None, epoch |-> 0, got |-> <<>>]]
    /\ UNCHANGED <<world, output>>

At(c, pc) == capture[c] # None /\ capture[c].pc = pc

\* A program that ends is idle again. One that failed although nothing happened is
\* remembered as such until something does.
Failed(c) == IF capture[c].calm THEN [pc |-> "failed", own |-> capture[c].own] ELSE None

\* A step that goes on when ok, and ends the program otherwise.
Go(c, ok, next) ==
    /\ capture' = [capture EXCEPT ![c] = IF ok THEN next ELSE Failed(c)]
    /\ UNCHANGED <<world, output>>

Job(c) == capture[c].jobs[Len(capture[c].got) + 1]
Kind(c) == Len(capture[c].got) + 1

\* A policy pins the other files by their digest: read a little later, they are
\* the same or refused. So they are read in one step with it.
ReadPolicy(c) ==
    /\ At(c, "policy")
    /\ Go(c, local.package = local.policy,
          [capture[c] EXCEPT !.pc = "jobs", !.policy = local.policy, !.package = local.package])

ReadJobs(c) ==
    /\ At(c, "jobs")
    /\ Go(c, TRUE, [capture[c] EXCEPT !.pc = "authority", !.jobs = local.jobs])

\* A job handle names the deployment it was accepted under: an epoch's, or, of a
\* job that never completed, any.
HandleFits(j, d) == ranUnder[j] \in Epochs => epochs[ranUnder[j]] = d

\* The digest of the consumer's bundle that collect passes for this kind.
Expected(c) ==
    LET index == Kind(c) - 1 IN
    <<capture[c].own, IF index % 2 = 1 THEN "regenerated" ELSE "recovered">>

ReadAuthority(c) ==
    /\ At(c, "authority")
    /\ Go(c, /\ HandleFits(Job(c), local.policy)
             /\ local.package = local.policy
             /\ local.baseline = local.policy
             /\ <<local.package, Role(Kind(c))>> = Expected(c),
          [capture[c] EXCEPT !.pc = "status", !.seen = local.policy,
                             !.members = [package |-> local.package, baseline |-> local.baseline]])

\* status says that a worker of this deployment is alive, and its epoch.
WorkerOf(d) == host.alive /\ epochs[Len(epochs)] = d

Status(c) ==
    /\ At(c, "status")
    /\ Go(c, WorkerOf(capture[c].seen),
          [capture[c] EXCEPT !.pc = "results", !.epoch = Len(epochs)])

\* The answer of results, with the worker that was there at that moment.
Results(c) ==
    /\ At(c, "results")
    /\ IF Available(Job(c))
       THEN LET r == Result(Job(c))
                m == capture[c].members
            IN Go(c, /\ Verified(r, Kind(c), capture[c].seen, m.package, m.baseline)
                     /\ r.epoch = capture[c].epoch,
                  [capture[c] EXCEPT !.pc = "again",
                       !.got = Append(@, [result |-> r, during |-> Len(epochs)])])
       ELSE Go(c, FALSE, None)

AgainUnchecked(c) ==
    /\ At(c, "again")
    /\ Go(c, WorkerOf(capture[c].seen), [capture[c] EXCEPT !.pc = "reread"])

Again(c) ==
    /\ At(c, "again")
    /\ Go(c, WorkerOf(capture[c].seen) /\ Len(epochs) = capture[c].epoch,
          [capture[c] EXCEPT !.pc = "reread"])

Reread(c) ==
    LET s == capture[c].seen
        m == capture[c].members
    IN
    /\ At(c, "reread")
    /\ Go(c, local.policy = s /\ local.package = m.package /\ local.baseline = m.baseline,
          [capture[c] EXCEPT !.pc = IF Len(capture[c].got) = Count THEN "final" ELSE "authority",
                             !.seen = None, !.members = None, !.epoch = 0])

\* encode_capture: one authority, one epoch, one job per kind.
Encodable(got, policy) ==
    /\ \A k \in Kinds :
        /\ got[k].result.kind = k
        /\ got[k].result.epoch = got[1].result.epoch
        /\ got[k].result.deployment = policy
    /\ \A k, l \in Kinds : got[k].result.job = got[l].result.job => k = l

Finish(c) ==
    LET p == capture[c] IN
    /\ At(c, "final")
    /\ Go(c, /\ local.policy = p.policy /\ local.package = p.package /\ local.jobs = p.jobs
             /\ Encodable(p.got, p.policy)
             /\ p.package = p.own,
          [p EXCEPT !.pc = "create"])

\* O_EXCL: of two captures, one creates the file and the other fails.
Create(c) ==
    /\ At(c, "create")
    /\ \/ /\ output = None
          /\ output' = [by |-> c, says |-> None]
          /\ capture' = [capture EXCEPT ![c].pc = "fill"]
       \/ /\ output # None
          /\ capture' = [capture EXCEPT ![c] = Failed(c)]
          /\ UNCHANGED output
    /\ UNCHANGED world

Fill(c) ==
    /\ At(c, "fill")
    /\ output' = [output EXCEPT !.says = [by |-> c, policy |-> capture[c].policy,
                                          got |-> capture[c].got]]
    /\ capture' = [capture EXCEPT ![c] = None]
    /\ UNCHANGED world

\* Killed, or a call was lost; an output that was begun stays as it is.
GiveUp(c) ==
    /\ Running(c)
    /\ capture' = [capture EXCEPT ![c] = None]
    /\ UNCHANGED <<world, output>>

-----------------------------------------------------------------------------
Init ==
    /\ host \in [active : Deployments, alive : {TRUE}, inventory : Inventories]
    /\ epochs = <<host.active>>
    /\ ranUnder \in [Jobs -> 0..MaxEpoch]
    /\ \E d \in Deployments :
        local = [policy |-> d, package |-> d, baseline |-> d, jobs |-> CHOOSE h \in Handles : TRUE]
    /\ edits = 0
    /\ capture = [c \in Captures |-> None]
    /\ output = None

Step(c) ==
    \/ Start(c) \/ ReadPolicy(c) \/ ReadJobs(c)
    \/ ReadAuthority(c) \/ Status(c) \/ Results(c) \/ Again(c) \/ Reread(c)
    \/ Finish(c) \/ Create(c) \/ Fill(c) \/ GiveUp(c)

Next ==
    \/ \E c \in Captures : Step(c)
    \/ Boot \/ Stops \/ Edit
    \/ \E d \in Deployments : Activate(d)

Spec == Init /\ [][Next]_vars

-----------------------------------------------------------------------------
Retrieved ==
    [result : [job : Jobs, kind : Kinds, deployment : Deployments, epoch : Nat,
               bundle : Deployments \X {"recovered", "regenerated"},
               player : Deployments, runtime : Deployments,
               inventory : Inventories, adapter : Nat],
     during : Nat]

\* None stands for no file and is not what a capture says.
ASSUME NoneIsNoCapture ==
    None \notin [by : Captures, says : [by : Captures, policy : Deployments \cup {None},
                                       got : Seq(Retrieved)]]

\* A program that runs.
Program ==
    [pc : {"policy", "jobs", "authority", "status", "results", "again", "reread",
           "final", "create", "fill"},
     calm : BOOLEAN, own : Deployments,
     policy : Deployments \cup {None}, package : Deployments \cup {None},
     jobs : Handles \cup {None}, seen : Deployments \cup {None},
     members : [package : Deployments, baseline : Deployments] \cup {None},
     epoch : Nat, got : Seq(Retrieved)]

TypeOK ==
    /\ host \in [active : Deployments, alive : BOOLEAN, inventory : Inventories]
    /\ epochs \in Seq(Deployments) /\ Len(epochs) \in 1..MaxEpoch
    /\ host.alive => epochs[Len(epochs)] = host.active
    /\ ranUnder \in [Jobs -> 0..MaxEpoch]
    /\ local \in [policy : Deployments, package : Deployments, baseline : Deployments,
                  jobs : Handles]
    /\ edits \in 0..MaxEdits
    /\ capture \in [Captures -> {None} \cup Program \cup [pc : {"failed"}, own : Deployments]]
    /\ output # None => output.by \in Captures

\* A capture that was written is the work of one worker and of one program: all
\* results ran under the epoch of the worker that was there whenever one was
\* retrieved, that worker ran the deployment the capture names, no kind is missing
\* or another's, and whoever created the output has filled it.
SingleAuthority ==
    output # None /\ output.says # None =>
        LET got == output.says.got IN
        /\ output.says.by = output.by
        /\ \E e \in Epochs :
            /\ epochs[e] = output.says.policy
            /\ \A k \in Kinds :
                /\ got[k].during = e
                /\ ranUnder[got[k].result.job] = e
                /\ KindOf(got[k].result.job) = k

(* What makes it inductive. *)

\* The place in the loop over the kinds.
Progress(p) ==
    /\ Len(p.got) \in 0..Count
    /\ p.pc \in {"policy", "jobs"} => p.got = <<>>
    /\ p.pc \in {"authority", "status", "results"} => Len(p.got) < Count
    /\ p.pc \in {"again", "reread"} => Len(p.got) > 0
    /\ p.pc \in {"final", "create", "fill"} => Len(p.got) = Count

\* What was retrieved is of its kind and ran in the epoch it names; once status was
\* asked again, the worker of that epoch was there at the time of the answer.
Sound(g, kind) ==
    /\ g.result.kind = kind /\ KindOf(g.result.job) = kind
    /\ g.result.epoch \in Epochs /\ g.during \in Epochs
    /\ g.result.epoch = ranUnder[g.result.job]
    /\ g.result.deployment = epochs[g.result.epoch]
Confirmed(g) == g.result.epoch = g.during

Evidence(p) ==
    /\ p.pc \notin {"policy", "jobs"} => p.jobs \in Handles
    /\ p.pc \in {"status", "results", "again", "reread"} => p.seen \in Deployments
    /\ p.pc \in {"results", "again"} => p.epoch \in Epochs
    /\ \A i \in 1..Len(p.got) : Sound(p.got[i], i)
    /\ \A i \in 1..Len(p.got) : Confirmed(p.got[i]) \/ (p.pc = "again" /\ i = Len(p.got))
    /\ p.pc = "again" =>
        LET g == p.got[Len(p.got)] IN g.result.epoch = p.epoch /\ p.epoch <= g.during

\* The program that may fill the output is the one that created it, and what it
\* has to say is of one epoch.
Output(c) ==
    LET p == capture[c] IN
    /\ p.pc \in {"create", "fill"} => Encodable(p.got, p.policy)
    /\ p.pc = "fill" => output = [by |-> c, says |-> None]

CaptureInv ==
    /\ TypeOK
    /\ \A c \in Captures : Running(c) =>
        Progress(capture[c]) /\ Evidence(capture[c]) /\ Output(c)
    /\ SingleAuthority

(* Fitness for use. *)

\* A capture only fails for a reason: if nothing happened since its start, and
\* the reviewed files, the bundles, the worker and the jobs all fit, it is written.
Fits(c) ==
    /\ host.alive /\ host.active = local.policy
    /\ local.package = local.policy /\ local.baseline = local.policy
    /\ capture[c].own = local.policy
    /\ Selects(host.inventory)
    /\ \A k \in Kinds : ranUnder[local.jobs[k]] = Len(epochs)

RefusedForReason ==
    \A c \in Captures :
        capture[c] # None /\ capture[c].pc = "failed" => ~Fits(c) \/ output # None
=============================================================================
