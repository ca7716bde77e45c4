--------------------------- MODULE ReleaseDelivery ---------------------------
(***************************************************************************)
(* How a release gets to the host.  build_headless_release.py wraps it,    *)
(* serve_deployment.py serves it once to the host, headless_client.py      *)
(* signs a request that names it, saves the request and sends it until it  *)
(* is known how it ended; the maintenance executor downloads the release,  *)
(* checks it and moves it below program/.  Each of them may be killed, and *)
(* each call and transfer may break.  What the executor does besides is in *)
(* Maintenance; here accepting a request, and stopping the worker with the *)
(* switch, is one step each, and a request that is completed does not fail *)
(* afterwards.                                                             *)
(***************************************************************************)
EXTENDS Naturals, Sequences, FiniteSets

CONSTANTS
    Requests,    \* request identities, drawn by the client
    Files,       \* request files
    Clients,     \* client programs that may run at the same time
    Inputs,      \* releases an operator may want: see Build
    Reserved,    \* parts of a path that Windows keeps for itself
    MaxParts,    \* parts in the name of a member, 16 in the code
    Installed,   \* the deployment adopted at installation
    MaxAttempts, \* calls after which a lost answer is given up, 3 in the code
    MaxTickets,  \* bounds: publications,
    MaxDeaths,   \*         executors killed
    None

\* The two directories of a release, below program/ once it is installed.
Roots(x) == {x.unity, x.worker}
AllRoots == {Installed} \cup UNION {Roots(x) : x \in Inputs}

(* What is signed, received, run, worked on and served. *)
Signature ==
    [generation : Nat, seen : AllRoots, ticket : Nat \cup {None}, release : Inputs \cup {None}]
Got == [release : Inputs, whole : BOOLEAN]
Program ==
    [pc : {"create", "write", "send"}, file : Files, request : Requests,
     attempt : 1..MaxAttempts, late : BOOLEAN]
Work ==
    [pc : {"connect", "receive", "verify", "unity", "worker", "switch", "finish"},
     request : Requests, got : {None} \cup Got]
Serving == [ticket : Nat, content : Inputs, sending : {None} \cup Requests]

ASSUME DeliveryAssumption ==
    /\ MaxParts \in Nat \ {0, 1} /\ MaxAttempts \in Nat \ {0} /\ MaxTickets \in Nat /\ MaxDeaths \in Nat
    /\ None \notin Requests \cup Files \cup Clients \cup Inputs \cup AllRoots
    /\ None \notin Signature /\ None \notin Work /\ None \notin Serving
    /\ None \notin {"torn", "open", "closed", "prepared", "rejected", "completed", "failed"}
    /\ {"torn", "open", "closed"} \cap Requests = {}
    /\ "policy" \notin Reserved
    /\ \A x \in Inputs :
        /\ x = [worker |-> x.worker, unity |-> x.unity, members |-> x.members]
        /\ x.worker # x.unity /\ {x.worker, x.unity} \cap Reserved = {}
        /\ x.members \subseteq Seq(STRING)

VARIABLES
    archive,    \* the release file: None or the release in it
    listener,   \* None, or the ticket, the snapshot and the request being served
    published,  \* history: ticket -> the release it was published with
    fate,       \* history: ticket -> "open", "closed", or the request that got it all
    signed,     \* request -> None or what was signed
    files,      \* request file -> None, "torn" or the request in it
    prog,       \* client -> None or the program it runs
    host,       \* generation and deployment that are active, and latest receipt
    inbox,      \* None or the one pending request
    receipts,   \* request -> None or its phase
    exec,       \* None or what the executor works on
    program,    \* root -> None or what was moved below program/, and for whom
    expired,    \* requests past their expiry
    broken,     \* history: requests whose transfer broke
    deaths

operator == <<archive, listener, published, fate>>
clients == <<signed, expired, files, prog>>
server == <<host, inbox, receipts, program>>
history == <<broken, deaths>>
vars == <<operator, clients, server, exec, history>>

-----------------------------------------------------------------------------
(* A release: a worker and its Unity package. Each is a directory of its own;  *)
(* a member of the package is named by the sequence of the parts of its path.  *)

Prefixes(name) == {SubSeq(name, 1, i) : i \in 1..(Len(name) - 1)}

PortableName(name) ==
    /\ Len(name) \in 1..(MaxParts - 1)
    /\ \A i \in 1..Len(name) : name[i] \notin Reserved

\* build: of the names of a player, those are refused that the host would refuse.
Accepts(x) ==
    /\ \A name \in x.members : PortableName(name)
    /\ \A name \in x.members : Prefixes(name) \cap x.members = {}

\* CheckMember and Extract look at the whole name, the root included.
FullNames(x) == {<<x.worker, "policy">>} \cup {<<x.unity>> \o name : name \in x.members}

CheckMember(name) ==
    /\ Len(name) \in 2..MaxParts
    /\ \A i \in 1..Len(name) : name[i] \notin Reserved

Extractable(x) ==
    /\ \A name \in FullNames(x) : CheckMember(name)
    /\ \A name \in FullNames(x) : Prefixes(name) \cap FullNames(x) = {}

-----------------------------------------------------------------------------
(* The operator: builds a release and publishes it. *)

\* The builder does not replace a file, the operator may remove it first. What it
\* checks of the worker archive, build_deployment has made so; hashes and sizes fit.
Build(x) ==
    /\ Accepts(x)
    /\ x # archive
    /\ archive' = x
    /\ UNCHANGED <<listener, published, fate, clients, server, exec, history>>

\* The content is read once, before the ticket is drawn.
Publish ==
    /\ listener = None
    /\ archive # None
    /\ Len(published) < MaxTickets
    /\ listener' = [ticket |-> Len(published) + 1, content |-> archive, sending |-> None]
    /\ published' = Append(published, archive)
    /\ fate' = Append(fate, "open")
    /\ UNCHANGED <<archive, clients, server, exec, history>>

\* The five minutes are over; a transfer under way is finished first.
ListenerExpires ==
    /\ listener # None
    /\ listener.sending = None
    /\ fate' = [fate EXCEPT ![listener.ticket] = IF @ = "open" THEN "closed" ELSE @]
    /\ listener' = None
    /\ UNCHANGED <<archive, published, clients, server, exec, history>>

CurrentContent == archive
Content == listener.content

-----------------------------------------------------------------------------
(* The client. *)

Idle(c) == prog[c] = None
Exit(c) == prog' = [prog EXCEPT ![c] = None]
Run(c, pc, f, r) ==
    prog' = [prog EXCEPT ![c] = [pc |-> pc, file |-> f, request |-> r,
                                 attempt |-> 1, late |-> FALSE]]

\* What maintenance-status showed is signed; a ticket comes with its release.
NewRequest(c, f, ticket) ==
    /\ Idle(c)
    /\ \E r \in Requests :
        /\ signed[r] = None
        /\ signed' = [signed EXCEPT ![r] =
                         [generation |-> host.generation, seen |-> host.deployment,
                          ticket |-> ticket,
                          release |-> IF ticket = None THEN None ELSE published[ticket]]]
        /\ Run(c, "create", f, r)
    /\ UNCHANGED <<operator, expired, files, server, exec, history>>

At(c, pc) == ~Idle(c) /\ prog[c].pc = pc
Goto(c, pc) == prog' = [prog EXCEPT ![c].pc = pc]

CreateOver(c) ==
    /\ At(c, "create")
    /\ files' = [files EXCEPT ![prog[c].file] = "torn"]
    /\ Goto(c, "write")
    /\ UNCHANGED <<operator, signed, expired, server, exec, history>>

\* save_new: the request file must be new; the program that finds one ends.
Create(c) ==
    /\ At(c, "create")
    /\ \/ /\ files[prog[c].file] = None
          /\ files' = [files EXCEPT ![prog[c].file] = "torn"]
          /\ Goto(c, "write")
       \/ /\ files[prog[c].file] # None
          /\ Exit(c)
          /\ UNCHANGED files
    /\ UNCHANGED <<operator, signed, expired, server, exec, history>>

Write(c) ==
    /\ At(c, "write")
    /\ files' = [files EXCEPT ![prog[c].file] = prog[c].request]
    /\ Goto(c, "send")
    /\ UNCHANGED <<operator, signed, expired, server, exec, history>>

\* retry: a torn file is not read as a request.
Retry(c, f) ==
    /\ Idle(c)
    /\ files[f] \in Requests
    /\ Run(c, "send", f, files[f])
    /\ UNCHANGED <<operator, signed, expired, files, server, exec, history>>

Ended == {"completed", "failed"}

\* The request was made for what is active, and activates something else.
Transition(r) ==
    /\ r \notin expired
    /\ signed[r].generation = host.generation
    /\ signed[r].seen = host.deployment
    /\ signed[r].release # None => signed[r].release.worker # host.deployment

\* The maintenance gateway: a known request gets its receipt, another one is
\* queued, if the inbox has room. Phase is what it answers.
Handles(r, phase) ==
    \/ /\ receipts[r] # None
       /\ phase = IF receipts[r] = "rejected" THEN "failed" ELSE receipts[r]
       /\ UNCHANGED inbox
    \/ /\ receipts[r] = None
       /\ Transition(r)
       /\ inbox \in {None, r}
       /\ inbox' = r
       /\ phase = "queued"

\* main waits for an end of the request until its deadline.
Waits(c) ==
    IF prog[c].late THEN Exit(c) ELSE prog' = [prog EXCEPT ![c].attempt = 1]

\* retrieve_receipt: the same bytes again, at most MaxAttempts times.
TriesAgain(c) ==
    IF prog[c].attempt = MaxAttempts \/ prog[c].late THEN Exit(c)
    ELSE prog' = [prog EXCEPT ![c].attempt = @ + 1]

\* The request is handled and answered, or the answer is lost, or the call.
Send(c) ==
    /\ At(c, "send")
    /\ \/ \E phase \in Ended \cup {"queued", "prepared"} :
            /\ Handles(prog[c].request, phase)
            /\ \/ IF phase \in Ended THEN Exit(c) ELSE Waits(c)
               \/ TriesAgain(c)
       \/ TriesAgain(c) /\ UNCHANGED inbox
    /\ UNCHANGED <<operator, signed, expired, files, host, receipts, program, exec, history>>

\* The deadline given by --wait.
Deadline(c) ==
    /\ ~Idle(c)
    /\ ~prog[c].late
    /\ prog' = [prog EXCEPT ![c].late = TRUE]
    /\ UNCHANGED <<operator, signed, expired, files, server, exec, history>>

\* Killed, refused, or a call took more than 25 s, which is not tried again.
GiveUp(c) ==
    /\ ~Idle(c)
    /\ Exit(c)
    /\ UNCHANGED <<operator, signed, expired, files, server, exec, history>>

-----------------------------------------------------------------------------
(* The executor. *)

RepairRequired == host.latest # None /\ receipts[host.latest] = "prepared"
Admissible(r) == Transition(r) /\ (RepairRequired => signed[r].release = None)

\* The generation is used up with the first receipt, and the request is taken out
\* of the inbox. So none with a receipt is ever met there again.
Accept ==
    /\ exec = None
    /\ inbox # None
    /\ Admissible(inbox)
    /\ receipts' = [receipts EXCEPT ![inbox] = "prepared"]
    /\ host' = [host EXCEPT !.generation = @ + 1, !.latest = inbox]
    /\ exec' = [pc |-> IF signed[inbox].release = None THEN "finish" ELSE "connect",
                request |-> inbox, got |-> None]
    /\ inbox' = None
    /\ UNCHANGED <<operator, clients, program, history>>

Reject ==
    /\ exec = None
    /\ inbox # None
    /\ ~Admissible(inbox)
    /\ receipts' = [receipts EXCEPT ![inbox] = "rejected"]
    /\ host' = [host EXCEPT !.latest = inbox]
    /\ inbox' = None
    /\ UNCHANGED <<operator, clients, program, exec, history>>

Doing(pc) == exec # None /\ exec.pc = pc
Request == signed[exec.request]
Then(pc) == exec' = [exec EXCEPT !.pc = pc]

\* Any step of the download or the installation may throw.
Fails ==
    /\ receipts' = [receipts EXCEPT ![exec.request] = "failed"]
    /\ exec' = None

Reachable == listener # None /\ listener.ticket = Request.ticket /\ fate[Request.ticket] = "open"

\* One request is served at a time, and nothing after a complete transfer.
Connect ==
    /\ Doing("connect")
    /\ \/ /\ Reachable
          /\ listener' = [listener EXCEPT !.sending = exec.request]
          /\ Then("receive")
          /\ UNCHANGED receipts
       \/ ~Reachable /\ Fails /\ UNCHANGED listener
    /\ UNCHANGED <<archive, published, fate, clients, host, inbox, program, history>>

\* The server has written everything; whether it arrives is another matter.
Transfer ==
    /\ Doing("receive")
    /\ fate' = [fate EXCEPT ![listener.ticket] = exec.request]
    /\ listener' = [listener EXCEPT !.sending = None]
    /\ \E whole \in BOOLEAN :
        /\ exec' = [exec EXCEPT !.pc = "verify", !.got = [release |-> Content, whole |-> whole]]
        /\ broken' = IF whole THEN broken ELSE broken \cup {exec.request}
    /\ UNCHANGED <<archive, published, clients, server, deaths>>

\* The connection breaks before: the listener waits for another one.
Breaks ==
    /\ Doing("receive")
    /\ listener' = [listener EXCEPT !.sending = None]
    /\ exec' = [exec EXCEPT !.pc = "verify", !.got = [release |-> Content, whole |-> FALSE]]
    /\ broken' = broken \cup {exec.request}
    /\ UNCHANGED <<archive, published, fate, clients, server, deaths>>

Unchecked(got) == TRUE
\* Download compares the length and the hash with the signed ones.
Genuine(got) == got.whole /\ got.release = Request.release

Verify ==
    /\ Doing("verify")
    /\ IF Genuine(exec.got) /\ Extractable(exec.got.release)
       THEN Then("unity") /\ UNCHANGED receipts
       ELSE Fails
    /\ UNCHANGED <<operator, clients, host, inbox, program, history>>

\* The directories below program/: the adopted one, and what was moved there.
InUse(root) == root = Installed \/ program[root] # None

\* Each directory is moved, in the order of the names, never over another one.
Move(pc, root, next) ==
    /\ Doing(pc)
    /\ \/ /\ ~InUse(root)
          /\ program' = [program EXCEPT ![root] = [for |-> exec.request, got |-> exec.got]]
          /\ Then(next)
          /\ UNCHANGED receipts
       \/ /\ InUse(root)
          /\ Fails
          /\ UNCHANGED program
    /\ UNCHANGED <<operator, clients, host, inbox, history>>

MoveUnity == Doing("unity") /\ Move("unity", exec.got.release.unity, "worker")
MoveWorker == Doing("worker") /\ Move("worker", exec.got.release.worker, "switch")

Switch ==
    /\ Doing("switch")
    /\ host' = [host EXCEPT !.deployment = exec.got.release.worker]
    /\ Then("finish")
    /\ UNCHANGED <<operator, clients, inbox, receipts, program, history>>

Finish ==
    /\ Doing("finish")
    /\ receipts' = [receipts EXCEPT ![exec.request] = "completed"]
    /\ exec' = None
    /\ UNCHANGED <<operator, clients, host, inbox, program, history>>

DiesConnected ==
    /\ exec # None
    /\ deaths < MaxDeaths
    /\ deaths' = deaths + 1
    /\ exec' = None
    /\ UNCHANGED <<operator, clients, server, broken>>

\* Killed: its connection breaks, its request stays prepared for ever.
Dies ==
    /\ exec # None
    /\ deaths < MaxDeaths
    /\ deaths' = deaths + 1
    /\ exec' = None
    /\ listener' = IF Doing("receive") THEN [listener EXCEPT !.sending = None] ELSE listener
    /\ UNCHANGED <<archive, published, fate, clients, server, broken>>

\* A request expires five minutes after it was signed.
Expire(r) ==
    /\ r \notin expired
    /\ signed[r] # None
    /\ receipts[r] = None
    /\ expired' = expired \cup {r}
    /\ UNCHANGED <<operator, signed, files, prog, server, exec, history>>

-----------------------------------------------------------------------------
Init ==
    /\ archive = None
    /\ listener = None
    /\ published = <<>>
    /\ fate = <<>>
    /\ signed = [r \in Requests |-> None]
    /\ expired = {}
    /\ files = [f \in Files |-> None]
    /\ prog = [c \in Clients |-> None]
    /\ host = [generation |-> 1, deployment |-> Installed, latest |-> None]
    /\ inbox = None
    /\ receipts = [r \in Requests |-> None]
    /\ exec = None
    /\ program = [root \in AllRoots |-> None]
    /\ broken = {}
    /\ deaths = 0

Tickets == 1..Len(published)

\* What a program does once it runs.
Step(c) == Create(c) \/ Write(c) \/ Send(c)

Executor ==
    \/ Accept \/ Reject
    \/ Connect \/ Transfer \/ Breaks \/ Verify \/ MoveUnity \/ MoveWorker \/ Switch \/ Finish

Next ==
    \/ \E x \in Inputs : Build(x)
    \/ Publish \/ ListenerExpires
    \/ \E c \in Clients :
        \/ \E f \in Files : Retry(c, f) \/ \E t \in Tickets \cup {None} : NewRequest(c, f, t)
        \/ Step(c) \/ Deadline(c) \/ GiveUp(c)
    \/ Executor \/ Dies
    \/ \E r \in Requests : Expire(r)

Spec == Init /\ [][Next]_vars

-----------------------------------------------------------------------------
OperatorType ==
    /\ archive \in Inputs \cup {None}
    /\ published \in Seq(Inputs)
    /\ fate \in Seq({"open", "closed"} \cup Requests) /\ Len(fate) = Len(published)
    /\ listener \in {None} \cup Serving
    /\ listener # None =>
        listener.ticket \in Tickets /\ listener.content = published[listener.ticket]

ClientType ==
    /\ signed \in [Requests -> {None} \cup Signature]
    /\ expired \subseteq Requests
    /\ files \in [Files -> {None, "torn"} \cup Requests]
    /\ \A f \in Files : files[f] \in Requests => signed[files[f]] # None
    /\ prog \in [Clients -> {None} \cup Program]
    /\ \A c \in Clients : ~Idle(c) => signed[prog[c].request] # None

HostType ==
    /\ host \in [generation : Nat, deployment : AllRoots, latest : {None} \cup Requests]
    /\ inbox \in {None} \cup Requests
    /\ receipts \in [Requests -> {None, "prepared", "rejected"} \cup Ended]
    /\ program \in [AllRoots -> {None} \cup [for : Requests, got : Got]]
    /\ exec \in {None} \cup Work
    /\ broken \subseteq Requests /\ deaths \in 0..MaxDeaths

TypeOK ==
    /\ OperatorType /\ ClientType /\ HostType
    /\ \A r \in Requests : receipts[r] = "prepared" => host.latest = r \/ deaths > 0
    /\ exec # None => receipts[exec.request] = "prepared"
    /\ listener # None /\ listener.sending # None =>
        exec # None /\ exec.pc = "receive" /\ exec.request = listener.sending

\* A request the host knows of is in a request file, in full: whatever was lost,
\* its fate can still be asked for with the same bytes.
RequestRecoverable ==
    \A r \in Requests : inbox = r \/ receipts[r] # None =>
        \E f \in Files : files[f] = r

\* What lies below program/ is complete and is the release that was in the file
\* when the ticket of its request was published, whatever is in the file since.
InstalledAsPublished ==
    \A root \in DOMAIN program : program[root] # None =>
        LET s == signed[program[root].for] IN
        /\ program[root].got = [release |-> published[s.ticket], whole |-> TRUE]
        /\ root \in Roots(s.release)

\* The directory of that name was not moved there for this request.
ForAnother(root, r) == root = Installed \/ (program[root] # None /\ program[root].for # r)

\* The delivery of a release fails for a reason: its transfer broke, the listener
\* was gone or had served another request, or a name was in use. No release the
\* builder accepts is refused for its names, and none for what its file holds now.
FailsForReason ==
    \A r \in Requests : receipts[r] = "failed" =>
        \/ r \in broken
        \/ fate[signed[r].ticket] \notin {"open", r}
        \/ \E root \in Roots(signed[r].release) : ForAnother(root, r)

(* The host keeps the promise of signed maintenance. *)

\* A release is signed for by the worker in it; a repair wants no other selection.
SignedSelection(r) ==
    IF signed[r] = None THEN None
    ELSE [version |-> signed[r].generation, seen |-> signed[r].seen,
          wanted |-> IF signed[r].release = None THEN None ELSE signed[r].release.worker]

PhaseOf(r) ==
    IF receipts[r] = None THEN "new"
    ELSE IF receipts[r] = "prepared" THEN "begun"
    ELSE IF receipts[r] = "rejected" THEN "failed" ELSE receipts[r]

CurrentWork ==
    IF exec = None THEN None
    ELSE [request |-> exec.request,
          stage |-> IF exec.pc = "finish" /\ signed[exec.request].release # None
                    THEN "switched" ELSE "consumed"]

Selection ==
    INSTANCE VersionedSelection WITH
        Selections <- AllRoots, First <- Installed,
        version <- host.generation, selection <- host.deployment,
        signed <- [r \in Requests |-> SignedSelection(r)],
        phase <- [r \in Requests |-> PhaseOf(r)],
        current <- CurrentWork

ASSUME NoneIsNoWork == Selection!SelectionConstants

\* The selection is changed as VersionedSelection says, though what is switched to
\* is read from a file that was downloaded and not from the request.
ImplementsSelection == Selection!SelectionSpec

\* The others that were signed for the same generation.
Rivals(q) ==
    {r \in Requests \ {q} :
        signed[q] # None /\ signed[r] # None /\ signed[r].generation = signed[q].generation}

\* Two clients that saw the same state never both get their request completed.
CompletedOncePerGeneration ==
    \A q \in Requests :
        [](receipts[q] = "completed" => [](\A r \in Rivals(q) : receipts[r] # "completed"))

(* What makes them inductive. *)

\* A program that writes has its file for itself; one that sends has it saved.
Filed(c) ==
    /\ prog[c].pc = "write" =>
        /\ files[prog[c].file] = "torn"
        /\ \A d \in Clients \ {c} :
            ~Idle(d) /\ prog[d].pc = "write" => prog[d].file # prog[c].file
    /\ prog[c].pc = "send" => files[prog[c].file] = prog[c].request

\* A signed request names what was published with its ticket, or is a repair.
SignedFor(s) ==
    IF s.ticket = None THEN s.release = None
    ELSE s.ticket \in Tickets /\ s.release = published[s.ticket]

\* Only what the builder accepts is published, and what is still to be had of it
\* is served by the one listener.
Publications ==
    /\ archive # None => Accepts(archive)
    /\ \A t \in Tickets : Accepts(published[t])
    /\ \A t \in Tickets : fate[t] = "open" => listener # None /\ listener.ticket = t

\* What the host knows of is in a file; in the inbox it is new.
Known ==
    /\ inbox # None => receipts[inbox] = None
    /\ \A r \in Requests : inbox = r \/ receipts[r] # None => \E f \in Files : files[f] = r

\* The download: who has it all is past it, and what is under way is served.
Downloading ==
    /\ \A t \in Tickets : fate[t] \in Requests =>
        /\ receipts[fate[t]] # None
        /\ exec # None /\ exec.request = fate[t] => exec.pc \notin {"connect", "receive"}
    /\ exec # None =>
        /\ host.latest = exec.request
        /\ exec.pc # "finish" => Request.release # None
        /\ exec.pc = "receive" =>
            /\ listener # None /\ listener.sending = exec.request
            /\ listener.ticket = Request.ticket /\ fate[Request.ticket] = "open"
        /\ exec.pc = "verify" =>
            /\ exec.got \in Got /\ exec.got.release = Request.release
            /\ exec.got.whole \/ exec.request \in broken
        /\ exec.pc \in {"unity", "worker", "switch"} =>
            exec.got = [release |-> Request.release, whole |-> TRUE]

\* The installation: what lies there for a request that is not installed yet.
Installing ==
    /\ \A root \in AllRoots : program[root] # None =>
        /\ receipts[program[root].for] # None
        /\ signed[program[root].for].release # None
    /\ exec # None => \A root \in AllRoots :
        program[root] # None /\ program[root].for = exec.request =>
            \/ exec.pc = "worker" /\ root = Request.release.unity
            \/ exec.pc \in {"switch", "finish"}

Receipts ==
    \A r \in Requests :
        /\ receipts[r] = "prepared" => (exec # None /\ exec.request = r) \/ deaths > 0
        /\ receipts[r] = "failed" => signed[r].release # None

DeliveryInv ==
    /\ TypeOK
    /\ \A c \in Clients : ~Idle(c) => Filed(c)
    /\ \A r \in Requests : signed[r] # None => SignedFor(signed[r])
    /\ Publications /\ Known /\ Downloading /\ Installing /\ Receipts
    /\ InstalledAsPublished
    /\ FailsForReason
=============================================================================
