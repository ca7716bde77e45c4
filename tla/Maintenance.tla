----------------------------- MODULE Maintenance -----------------------------
(***************************************************************************)
(* Signed maintenance of a headless D3D11Validation host: a client signs a *)
(* request against the state it saw, a gateway puts it into an inbox for   *)
(* one, and an executor, started by Task Scheduler every minute and at     *)
(* most one at a time, carries it out under SYSTEM.  The executor may be   *)
(* killed between any two writes (the task is limited to five minutes).    *)
(*                                                                         *)
(* Job gateways and the worker read the active deployment under a shared   *)
(* handle on activation.lock; the executor switches it under an exclusive  *)
(* one.                                                                    *)
(*                                                                         *)
(* Abstractions.  Replacing one file is atomic.  A request is its identity *)
(* and the fields the executor acts on; signatures are valid, and the      *)
(* policy digest of a deployment stands for the deployment.  Answers that  *)
(* only read are not steps.  The audit copy under requests/ is left out.   *)
(***************************************************************************)
EXTENDS Naturals, FiniteSets

CONSTANTS
    Requests,       \* request identities, drawn by clients
    Gateways,       \* maintenance gateway processes
    JobGateways,    \* job gateway processes
    Worker,         \* the worker process and its launcher
    Deployments,    \* worker-v1, worker-v2, ...
    Installed,      \* the deployment adopted at installation
    MaxGeneration,  \* 999999999 in the code
    MaxReceipts,    \* 4096 in the code
    MaxDeaths,      \* bound: executors killed while they work
    None

ASSUME MaintenanceAssumption ==
    /\ MaxGeneration \in Nat \ {0} /\ MaxReceipts \in Nat /\ MaxDeaths \in Nat
    /\ Installed \in Deployments
    /\ None \notin Requests \cup Deployments
    /\ Worker \notin JobGateways

VARIABLES
    signed,    \* the signed content of each request
    expired,   \* requests past their expiry
    gateway,   \* the request each gateway has checked and is about to queue
    queued,    \* history: requests answered with phase "queued"
    inbox,     \* request.json
    active,    \* active.json
    receipts,  \* receipts/<id>.json
    latest,    \* receipt.json: the status the next client sees
    programs,  \* deployment directories under program/
    archives,  \* names queue-archive-v<generation> that are taken
    enabled,   \* the worker task may run
    reader,    \* holders of the shared handle on activation.lock
    exec,      \* the executor process
    begun,     \* history: how often each request began to be executed
    deaths

requests == <<signed, expired>>
entrance == <<gateway, queued>>
control == <<active, receipts, latest, programs, archives>>
hosts == <<enabled, reader>>
history == <<begun, deaths>>
vars == <<requests, entrance, inbox, control, hosts, exec, history>>

-----------------------------------------------------------------------------
Actions == {"activate", "repair", "archive"}
Phases == {"prepared", "staged", "stopping", "activated", "completed", "failed"}
Ended == {"completed", "failed"}
Readers == JobGateways \cup {Worker}

Request == [action : Actions, generation : Nat, seen : Deployments,
            deployment : Deployments \cup {None}]
Receipt == [phase : Phases, failedPhase : Phases \cup {"none", "rejected"},
            generation : Nat]
Status == [request : Requests, phase : Phases]
Reader == [held : BOOLEAN, program : Deployments \cup {None}]

\* Where the executor is: the four phases mean that it is about to record them.
Points == {"idle", "check", "reject", "save", "consume", "remove", "stage",
           "staged", "stopping", "stop", "stopped", "guard", "act", "archiving",
           "activated", "release", "enable", "completed"}
Executor == [pc : Points, then : Points, request : Requests \cup {None},
             inboxGuard : BOOLEAN, writeGuard : BOOLEAN]

Idle == [pc |-> "idle", then |-> "idle", request |-> None,
         inboxGuard |-> FALSE, writeGuard |-> FALSE]
Closed == [held |-> FALSE, program |-> None]

\* None stands for a missing file and is not the content of one.
ASSUME NoneIsNoFile == None \notin Request \cup Receipt \cup Status

Init ==
    /\ signed = [r \in Requests |-> None]
    /\ expired = {}
    /\ gateway = [g \in Gateways |-> None]
    /\ queued = {}
    /\ inbox = None
    /\ active = [generation |-> 1, deployment |-> Installed]
    /\ receipts = [r \in Requests |-> None]
    /\ latest = None
    /\ programs = {Installed}
    /\ archives = {}
    /\ enabled = TRUE
    /\ reader = [p \in Readers |-> Closed]
    /\ exec = Idle
    /\ begun = [r \in Requests |-> 0]
    /\ deaths = 0

-----------------------------------------------------------------------------
(* Clients and gateways. *)

\* The client signs what maintenance-status has just shown it; the checks it
\* makes itself are made again by the gateway.
Sign(r, action, d) ==
    /\ signed[r] = None
    /\ (action = "activate") <=> (d # None)
    /\ signed' = [signed EXCEPT ![r] =
                    [action |-> action, generation |-> active.generation,
                     seen |-> active.deployment, deployment |-> d]]
    /\ UNCHANGED <<expired, entrance, inbox, control, hosts, exec, history>>

\* Only the expiry of a request without a receipt is ever read.
Expire(r) ==
    /\ r \notin expired
    /\ signed[r] # None
    /\ receipts[r] = None
    /\ expired' = expired \cup {r}
    /\ UNCHANGED <<signed, entrance, inbox, control, hosts, exec, history>>

BelowGenerationLimitInclusive == active.generation <= MaxGeneration
BelowGenerationLimit == active.generation < MaxGeneration

SameGenerationOnly(r) == signed[r].generation = active.generation
SameState(r) ==
    /\ signed[r].generation = active.generation
    /\ signed[r].seen = active.deployment

\* The request fits the active state.
Transition(r) ==
    /\ BelowGenerationLimit
    /\ SameState(r)
    /\ r \notin expired
    /\ signed[r].action = "activate" => signed[r].deployment # active.deployment

\* Faults are definitions no action uses: each is a plausible bug in the code of
\* the definition after it, and some property notices the exchange.
KnownByStatus(r) == latest # None /\ latest.request = r
KnownNever(r) == FALSE
Known(r) == receipts[r] # None

\* A known request is answered with its receipt; another is checked, without
\* the lock of the inbox.
GatewayChecks(g, r) ==
    /\ gateway[g] = None
    /\ signed[r] # None
    /\ ~Known(r)
    /\ Transition(r)
    /\ gateway' = [gateway EXCEPT ![g] = r]
    /\ UNCHANGED <<requests, queued, inbox, control, hosts, exec, history>>

\* Later, with the lock: the inbox takes one request, and the same one again.
GatewayQueues(g) ==
    /\ gateway[g] # None
    /\ ~exec.inboxGuard
    /\ inbox \in {None, gateway[g]}
    /\ inbox' = gateway[g]
    /\ queued' = queued \cup {gateway[g]}
    /\ gateway' = [gateway EXCEPT ![g] = None]
    /\ UNCHANGED <<requests, control, hosts, exec, history>>

\* The inbox is locked or holds another request, or the connection is gone.
GatewayGivesUp(g) ==
    /\ gateway[g] # None
    /\ gateway' = [gateway EXCEPT ![g] = None]
    /\ UNCHANGED <<requests, queued, inbox, control, hosts, exec, history>>

-----------------------------------------------------------------------------
(* The executor: the pending request is taken, refused, or forgotten. *)

Goto(point) == exec' = [exec EXCEPT !.pc = point]

\* First of the two writes of Save-Receipt.
Record(receipt, next) ==
    /\ receipts' = [receipts EXCEPT ![exec.request] = receipt]
    /\ exec' = [exec EXCEPT !.pc = "save", !.then = next]

SaveLatestOfPending ==
    /\ exec.pc = "save"
    /\ latest' = [request |-> inbox, phase |-> receipts[exec.request].phase]
    /\ exec' = IF exec.then = "idle" THEN Idle ELSE [exec EXCEPT !.pc = exec.then]
    /\ UNCHANGED <<requests, entrance, inbox, active, receipts, programs, archives,
                   hosts, history>>

\* Second write of Save-Receipt; the process ends with the last receipt.
SaveLatest ==
    /\ exec.pc = "save"
    /\ latest' = [request |-> exec.request, phase |-> receipts[exec.request].phase]
    /\ exec' = IF exec.then = "idle" THEN Idle ELSE [exec EXCEPT !.pc = exec.then]
    /\ UNCHANGED <<requests, entrance, inbox, active, receipts, programs, archives,
                   hosts, history>>

Begin ==
    /\ exec.pc = "idle"
    /\ inbox # None
    /\ exec' = [Idle EXCEPT !.pc = "check", !.request = inbox, !.inboxGuard = TRUE]
    /\ UNCHANGED <<requests, entrance, inbox, control, hosts, history>>

ForgetNothing ==
    /\ exec.pc = "check"
    /\ Known(exec.request)
    /\ exec' = Idle
    /\ UNCHANGED <<requests, entrance, inbox, control, hosts, history>>

\* A request with a receipt is never executed again.
Forget ==
    /\ exec.pc = "check"
    /\ Known(exec.request)
    /\ inbox' = None
    /\ exec' = Idle
    /\ UNCHANGED <<requests, entrance, control, hosts, history>>

ReceiptQuotaLeft == Cardinality({r \in Requests : receipts[r] # None}) < MaxReceipts

\* The last attempt did not end, so that only a repair may follow.
RepairRequired == latest # None /\ latest.phase \notin Ended

Admissible(r) ==
    /\ Transition(r)
    /\ RepairRequired => signed[r].action = "repair"

Accept ==
    /\ exec.pc = "check"
    /\ ~Known(exec.request)
    /\ ReceiptQuotaLeft
    /\ Admissible(exec.request)
    /\ Record([phase |-> "prepared", failedPhase |-> "none",
               generation |-> active.generation + 1], "consume")
    /\ begun' = [begun EXCEPT ![exec.request] = @ + 1]
    /\ UNCHANGED <<requests, entrance, inbox, active, latest, programs, archives,
                   hosts, deaths>>

\* The request is taken out of the inbox before its rejection is recorded.
Reject ==
    /\ exec.pc = "check"
    /\ ~Known(exec.request)
    /\ ReceiptQuotaLeft
    /\ ~Admissible(exec.request)
    /\ inbox' = None
    /\ Goto("reject")
    /\ UNCHANGED <<requests, entrance, control, hosts, history>>

RecordRejection ==
    /\ exec.pc = "reject"
    /\ Record([phase |-> "failed", failedPhase |-> "rejected", generation |-> 0],
              "idle")
    /\ UNCHANGED <<requests, entrance, inbox, active, latest, programs, archives,
                   hosts, history>>

\* With the receipt quota used up nothing is recorded and the request stays.
QuotaReached ==
    /\ exec.pc = "check"
    /\ ~Known(exec.request)
    /\ ~ReceiptQuotaLeft
    /\ exec' = Idle
    /\ UNCHANGED <<requests, entrance, inbox, control, hosts, history>>

-----------------------------------------------------------------------------
(* The executor: an accepted request is carried out. *)

ConsumeInMemory ==
    /\ exec.pc = "consume"
    /\ Goto("remove")
    /\ UNCHANGED <<requests, entrance, inbox, control, hosts, history>>

\* The generation is used up before any work starts.
ConsumeGeneration ==
    /\ exec.pc = "consume"
    /\ active' = [active EXCEPT !.generation = @ + 1]
    /\ Goto("remove")
    /\ UNCHANGED <<requests, entrance, inbox, receipts, latest, programs, archives,
                   hosts, history>>

RemovePending ==
    /\ exec.pc = "remove"
    /\ inbox' = None
    /\ exec' = [exec EXCEPT
                    !.inboxGuard = FALSE,
                    !.pc = IF signed[exec.request].action = "activate"
                           THEN "stage" ELSE "stopping"]
    /\ UNCHANGED <<requests, entrance, control, hosts, history>>

\* Download, extract, and move the release below program/, never over another.
Stage ==
    /\ exec.pc = "stage"
    /\ signed[exec.request].deployment \notin programs
    /\ programs' = programs \cup {signed[exec.request].deployment}
    /\ Goto("staged")
    /\ UNCHANGED <<requests, entrance, inbox, active, receipts, latest, archives,
                   hosts, history>>

After == [staged |-> "stopping", stopping |-> "stop", activated |-> "release",
          completed |-> "idle"]

RecordPhase ==
    /\ exec.pc \in DOMAIN After
    /\ Record([receipts[exec.request] EXCEPT !.phase = exec.pc], After[exec.pc])
    /\ UNCHANGED <<requests, entrance, inbox, active, latest, programs, archives,
                   hosts, history>>

\* The worker task is disabled and told to stop, and its end is waited for.
DisableWorker ==
    /\ exec.pc = "stop"
    /\ enabled' = FALSE
    /\ Goto("stopped")
    /\ UNCHANGED <<requests, entrance, inbox, control, reader, history>>

WorkerStopped ==
    /\ exec.pc = "stopped"
    /\ ~reader[Worker].held
    /\ Goto("guard")
    /\ UNCHANGED <<requests, entrance, inbox, control, hosts, history>>

\* The exclusive handle: nobody else has one.
OpenWriteGuard ==
    /\ exec.pc = "guard"
    /\ \A p \in Readers : ~reader[p].held
    /\ exec' = [exec EXCEPT !.writeGuard = TRUE, !.pc = "act"]
    /\ UNCHANGED <<requests, entrance, inbox, control, hosts, history>>

\* archive: the queue is rotated, into an archive named by the generation.
StartArchive ==
    /\ exec.pc = "act"
    /\ signed[exec.request].action = "archive"
    /\ ~enabled
    /\ active.generation \notin archives
    /\ archives' = archives \cup {active.generation}
    /\ Goto("archiving")
    /\ UNCHANGED <<requests, entrance, inbox, active, receipts, latest, programs,
                   hosts, history>>

ArchiveDone ==
    /\ exec.pc = "archiving"
    /\ Goto("activated")
    /\ UNCHANGED <<requests, entrance, inbox, control, hosts, history>>

ActivateNothing ==
    /\ exec.pc = "act"
    /\ signed[exec.request].action = "activate"
    /\ Goto("activated")
    /\ UNCHANGED <<requests, entrance, inbox, control, hosts, history>>

\* activate: the protected selection is switched.
Activate ==
    /\ exec.pc = "act"
    /\ signed[exec.request].action = "activate"
    /\ active' = [active EXCEPT !.deployment = signed[exec.request].deployment]
    /\ Goto("activated")
    /\ UNCHANGED <<requests, entrance, inbox, receipts, latest, programs, archives,
                   hosts, history>>

\* repair: nothing to do but to verify and to restart.
Repair ==
    /\ exec.pc = "act"
    /\ signed[exec.request].action = "repair"
    /\ Goto("activated")
    /\ UNCHANGED <<requests, entrance, inbox, control, hosts, history>>

ReleaseGuard ==
    /\ exec.pc = "release"
    /\ exec' = [exec EXCEPT !.writeGuard = FALSE, !.pc = "enable"]
    /\ UNCHANGED <<requests, entrance, inbox, control, hosts, history>>

EnableNothing ==
    /\ exec.pc = "enable"
    /\ Goto("completed")
    /\ UNCHANGED <<requests, entrance, inbox, control, hosts, history>>

EnableWorker ==
    /\ exec.pc = "enable"
    /\ enabled' = TRUE
    /\ Goto("completed")
    /\ UNCHANGED <<requests, entrance, inbox, control, reader, history>>

\* In the catch block: the last receipt is written, and nothing catches a throw.
Catching ==
    exec.pc = "save" /\ exec.then = "idle" /\ receipts[exec.request].phase = "failed"

\* Any step after the acceptance may throw: a download, a hash, a wait that ran
\* out, a queue that cannot be archived, either write of a receipt; also the second
\* write of the receipt that says completed, since a gateway may have the status
\* open.  One that throws just before the acceptance is recorded looks like one just
\* after it.  The phase that failed is the recorded one, or the one about to be.
\* The guards are held to the last write.
Fail ==
    /\ exec.pc \notin {"idle", "check", "reject"}
    /\ ~Catching
    /\ \E phase \in {receipts[exec.request].phase, exec.pc} \cap Phases :
        Record([receipts[exec.request] EXCEPT !.failedPhase = phase, !.phase = "failed"],
               "idle")
    /\ UNCHANGED <<requests, entrance, inbox, active, latest, programs, archives,
                   hosts, history>>

\* Task Scheduler kills it after five minutes, or the host goes down, or the catch
\* block itself throws.
ExecutorDies ==
    /\ exec.pc # "idle"
    /\ deaths < MaxDeaths
    /\ deaths' = deaths + 1
    /\ exec' = Idle
    /\ UNCHANGED <<requests, entrance, inbox, control, hosts, begun>>

-----------------------------------------------------------------------------
(* Job gateways, the worker, and an administrator at the console. *)

\* The worker is launched by its task only.
OpenReadGuard(p) ==
    /\ ~reader[p].held
    /\ ~exec.writeGuard
    /\ p = Worker => enabled
    /\ reader' = [reader EXCEPT ![p].held = TRUE]
    /\ UNCHANGED <<requests, entrance, inbox, control, enabled, exec, history>>

ReadBeforeGuard(p) ==
    /\ reader[p].program = None
    /\ reader' = [reader EXCEPT ![p].program = active.deployment]
    /\ UNCHANGED <<requests, entrance, inbox, control, enabled, exec, history>>

\* The program that will run is chosen under the handle.
ReadSelection(p) ==
    /\ reader[p].held
    /\ reader[p].program = None
    /\ active.deployment \in programs
    /\ reader' = [reader EXCEPT ![p].program = active.deployment]
    /\ UNCHANGED <<requests, entrance, inbox, control, enabled, exec, history>>

\* The process ends, or is stopped.
CloseReadGuard(p) ==
    /\ reader[p].held
    /\ reader' = [reader EXCEPT ![p] = Closed]
    /\ UNCHANGED <<requests, entrance, inbox, control, enabled, exec, history>>

\* Manage-ValidationHeadless -Mode Repair takes no lock at all.
LocalRepair ==
    /\ active.deployment \in programs
    /\ enabled' = TRUE
    /\ UNCHANGED <<requests, entrance, inbox, control, reader, exec, history>>

-----------------------------------------------------------------------------
ExecutorStep ==
    \/ SaveLatest \/ Begin
    \/ Forget \/ Accept \/ Reject \/ RecordRejection \/ QuotaReached
    \/ ConsumeGeneration \/ RemovePending \/ Stage \/ RecordPhase
    \/ DisableWorker \/ WorkerStopped \/ OpenWriteGuard
    \/ StartArchive \/ ArchiveDone \/ Activate \/ Repair
    \/ ReleaseGuard \/ EnableWorker
    \/ Fail

Next ==
    \/ \E r \in Requests :
        \/ \E action \in Actions, d \in Deployments \cup {None} : Sign(r, action, d)
        \/ Expire(r)
        \/ \E g \in Gateways : GatewayChecks(g, r)
    \/ \E g \in Gateways : GatewayQueues(g) \/ GatewayGivesUp(g)
    \/ ExecutorStep
    \/ ExecutorDies
    \/ \E p \in Readers : OpenReadGuard(p) \/ ReadSelection(p) \/ CloseReadGuard(p)
    \/ LocalRepair

Spec == Init /\ [][Next]_vars

(***************************************************************************)
(* Fairness.  Task Scheduler starts the executor every minute, and every   *)
(* wait in it has a deadline after which it throws, so that it always goes *)
(* on.  Nothing is assumed of clients, gateways or the worker.             *)
(***************************************************************************)
FairSpec == Spec /\ WF_vars(ExecutorStep)

-----------------------------------------------------------------------------
(* Safety. *)

\* The types of the variables: what the files may hold and where the executor is.
TypeOK ==
    /\ signed \in [Requests -> Request \cup {None}]
    /\ expired \subseteq Requests
    /\ gateway \in [Gateways -> Requests \cup {None}]
    /\ queued \subseteq Requests
    /\ inbox \in Requests \cup {None}
    /\ active \in [generation : Nat, deployment : Deployments]
    /\ receipts \in [Requests -> Receipt \cup {None}]
    /\ latest \in Status \cup {None}
    /\ programs \subseteq Deployments
    /\ archives \subseteq Nat
    /\ enabled \in BOOLEAN
    /\ reader \in [Readers -> Reader]
    /\ exec \in Executor
    /\ begun \in [Requests -> Nat]
    /\ deaths \in Nat

\* However often a request is sent, delayed in a gateway or interrupted, its
\* execution begins at most once.
BegunOnce == \A r \in Requests : begun[r] <= 1

\* No kill and no failure makes a later archive meet a name that is taken, which
\* it would refuse.
ArchiveNameFree ==
    /\ exec.pc = "act"
    /\ signed[exec.request].action = "archive"
    => active.generation \notin archives

\* A program that runs is the selected one: no switch happens behind the back of
\* the worker or a job gateway, though each reads the selection only once.
ReadersSeeActive ==
    \A p \in Readers : reader[p].program \in {None, active.deployment}

\* A worker task that is left disabled shows: no later status says completed.
DisabledIsVisible ==
    ~enabled /\ exec.pc = "idle" => latest # None /\ latest.phase # "completed"

\* The generation never passes the limit beyond which active.json is refused by
\* everyone who reads it.
ActiveReadable == active.generation <= MaxGeneration

(* The invariant behind these: every step keeps it. *)

\* About to do it, or to do it once the status is saved.
Heading(points) ==
    \/ exec.pc \in points
    \/ exec.pc = "save" /\ exec.then \in points

\* What is under way was signed; only an activation names a deployment.
RequestInv ==
    /\ \A r \in Requests : signed[r] # None =>
          (signed[r].action = "activate" <=> signed[r].deployment # None)
    /\ \A g \in Gateways : gateway[g] # None => signed[gateway[g]] # None
    /\ inbox # None => signed[inbox] # None

\* The executor works for a signed request, which has a receipt once accepted.
ExecInv ==
    /\ exec.pc # "idle" => exec.request # None /\ signed[exec.request] # None
    /\ exec.pc \notin {"idle", "check", "reject"} => receipts[exec.request] # None
    /\ exec.pc = "stage" => signed[exec.request].action = "activate"
    /\ exec.pc = "archiving" => signed[exec.request].action = "archive"
    /\ exec.pc = "save" => exec.then \in {"consume", "stopping", "stop", "release", "idle"}

\* A request that began to be executed has a receipt.
BegunInv ==
    /\ BegunOnce
    /\ \A r \in Requests : receipts[r] = None => begun[r] = 0

\* The executor acts under the exclusive handle, which excludes every reader.
GuardInv ==
    /\ exec.pc \in {"act", "archiving"} => exec.writeGuard
    /\ exec.writeGuard => \A p \in Readers : ~reader[p].held
    /\ \A p \in Readers : ~reader[p].held => reader[p].program = None
    /\ ReadersSeeActive

\* A generation to be consumed is below the limit.
LimitInv ==
    /\ ActiveReadable
    /\ Heading({"consume"}) => active.generation < MaxGeneration

\* The status shows an attempt before the task is disabled, and says completed
\* after it is enabled, of a request that nobody works on any more.
StatusInv ==
    /\ ~enabled \/ exec.pc = "stop" => latest # None /\ latest.phase # "completed"
    /\ exec.pc = "completed" => enabled
    /\ exec.pc = "save" /\ receipts[exec.request].phase = "completed" => enabled
    /\ exec.pc = "save" /\ exec.then = "stop" =>
          receipts[exec.request].phase = "stopping"
    /\ latest # None /\ latest.phase = "completed" =>
          /\ receipts[latest.request] # None
          /\ exec.pc \notin {"idle", "check"} => exec.request # latest.request

\* The receipt of the request under way says neither completed nor failed, and a
\* request that is to be rejected has none.
ReceiptInv ==
    /\ Heading(Points \ {"idle", "check", "reject", "save"}) =>
          receipts[exec.request].phase \notin Ended
    /\ exec.pc = "reject" => receipts[exec.request] = None

\* Until it acts the selection is the one the signer saw; after an activation it
\* is the one it asked for.
SelectionInv ==
    /\ Heading({"consume", "remove", "stage", "staged", "stopping", "stop",
                "stopped", "guard", "act"}) =>
          signed[exec.request].seen = active.deployment
    /\ Heading({"activated", "release", "enable", "completed"})
          /\ signed[exec.request].action = "activate" =>
              active.deployment = signed[exec.request].deployment

\* Archives are named by generations used up, and a new one is not yet taken.
ArchiveInv ==
    /\ \A a \in archives : a <= active.generation
    /\ Heading({"remove", "stage", "staged", "stopping", "stop", "stopped", "guard",
                "act"}) => active.generation \notin archives

\* The parts together are inductive.
MaintenanceInv ==
    /\ TypeOK /\ RequestInv /\ ExecInv /\ BegunInv /\ GuardInv /\ LimitInv
    /\ StatusInv /\ ReceiptInv /\ SelectionInv /\ ArchiveInv

(* Steps. *)

\* The executor that has written completed takes it back, for it fails before the
\* status says so, too.
TakenBack(r) ==
    /\ exec.request = r
    /\ receipts[r].phase = "completed" /\ receipts'[r].phase = "failed"
    /\ latest # [request |-> r, phase |-> "completed"]

\* A receipt that says how its request ended never changes again, and no receipt
\* ever disappears: a retry of the request gets the answer of the first attempt.
\* The one exception is completed, which may become failed as long as its executor
\* is there and the status does not say completed as well.
ReceiptIsFinal ==
    [][\A r \in Requests : receipts[r] # None =>
          /\ receipts[r].phase \in Ended => receipts'[r] = receipts[r] \/ TakenBack(r)
          /\ receipts'[r] # None]_vars

\* An activation replaces exactly the deployment that its signer had seen,
\* though it is carried out minutes after it was checked.
ReplacesWhatWasSeen ==
    [][active'.deployment # active.deployment =>
          signed[exec.request].seen = active.deployment]_vars

\* A receipt says completed only when the worker task is enabled again and, for
\* an activation, its deployment is the active one.
CompletedIsDone ==
    [][\A r \in Requests :
          /\ receipts'[r] # None
          /\ receipts'[r].phase = "completed"
          /\ receipts'[r] # receipts[r]
          => /\ enabled
             /\ signed[r].action = "activate" =>
                    active.deployment = signed[r].deployment]_vars

\* The selection is switched, and the queue archived, while no worker and no job
\* gateway has the shared handle; and none gets it before the archive is done.
ChangesAlone ==
    [][\/ active'.deployment # active.deployment
       \/ archives' # archives
       \/ exec.pc = "archiving"
       => \A p \in Readers : ~reader[p].held /\ ~reader'[p].held]_vars

(* What maintenance promises, with no files and no processes. *)

\* The executor carries a request out: from its acceptance until it fails or is done.
Working ==
    /\ exec.pc \notin {"idle", "check", "reject"}
    /\ ~Catching

\* What was signed of the selection; a repair or a rotation wants no other.
SignedSelection(r) ==
    IF signed[r] = None THEN None
    ELSE [version |-> signed[r].generation, seen |-> signed[r].seen,
          wanted |-> signed[r].deployment]

PhaseOf(r) ==
    IF receipts[r] = None THEN "new"
    ELSE IF receipts[r].phase \in Ended THEN receipts[r].phase ELSE "begun"

CurrentWork ==
    IF ~Working THEN None
    ELSE [request |-> exec.request,
          stage |-> IF Heading({"consume"}) THEN "begun"
                    ELSE IF /\ Heading({"activated", "release", "enable", "completed", "idle"})
                            /\ signed[exec.request].action = "activate"
                         THEN "switched" ELSE "consumed"]

Selection ==
    INSTANCE VersionedSelection WITH
        Selections <- Deployments, First <- Installed,
        version <- active.generation, selection <- active.deployment,
        signed <- [r \in Requests |-> SignedSelection(r)],
        phase <- [r \in Requests |-> PhaseOf(r)],
        current <- CurrentWork

\* None stands for nothing signed and nobody at work there, too.
ASSUME NoneIsNoWork == Selection!SelectionConstants

\* However gateways, inbox, executor and kills interleave, the selection is changed
\* as VersionedSelection says: by one request for each generation, by the one that
\* was signed for it, and from what its signer saw to what it names.
ImplementsSelection == Selection!SelectionSpec

\* The others that were signed for the same generation.
Rivals(q) ==
    {r \in Requests \ {q} :
        signed[q] # None /\ signed[r] # None /\ signed[r].generation = signed[q].generation}

\* What follows of the receipts: of all requests that were signed for one state at
\* most one is ever answered with completed, also when its receipt says failed later.
CompletedOncePerGeneration ==
    \A q \in Requests :
        [](PhaseOf(q) = "completed" => [](\A r \in Rivals(q) : PhaseOf(r) # "completed"))

(* Liveness. *)

\* The inbox for one request is always emptied, so that maintenance goes on,
\* unless the receipt quota is used up: then a request that no receipt knows
\* stays, and every other one is answered maintenance_busy.
InboxDrains ==
    \A r \in Requests :
        (inbox = r) ~> (inbox # r \/ (~Known(r) /\ ~ReceiptQuotaLeft))

-----------------------------------------------------------------------------
(* What the documentation says and the code does not keep. *)

\* Cut short with the worker about to be stopped, or after that.
CutShort(r) ==
    /\ receipts[r] # None
    /\ receipts[r].phase \in {"staged", "stopping", "activated"}
    /\ exec.request # r

Repaired(r) ==
    \E q \in Requests :
        /\ receipts[q] # None
        /\ signed[q].action = "repair"
        /\ receipts[q].generation > receipts[r].generation

\* HEADLESS.md: failed maintenance needs explicit repair; the executor asks for
\* one (maintenance_repair_required) after an attempt that was cut short.
RepairFirst ==
    [][\A q \in Requests :
          begun'[q] # begun[q] /\ signed[q].action # "repair" =>
              \A r \in Requests : CutShort(r) => Repaired(r)]_vars

\* The comment in the executor: a request refused after it was queued receives a
\* durable rejection.  It is pending, being looked at, or has a receipt.
QueuedIsRemembered ==
    \A r \in queued : inbox = r \/ exec.request = r \/ receipts[r] # None
=============================================================================
