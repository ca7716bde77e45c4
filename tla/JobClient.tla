----------------------------- MODULE JobClient ------------------------------
(***************************************************************************)
(* The job client: run_fixture and the commands of validation_client.py,   *)
(* each a program that may be killed at any step, whose calls may be lost, *)
(* answered too late, or executed after the program has given up. What it  *)
(* calls is the service as JobService promises it, the specification that  *)
(* the files and processes of JobQueue implement.                          *)
(***************************************************************************)
EXTENDS JobService

CONSTANTS
    Files,    \* job files, each with an output and a result file of its own
    Clients,  \* programs that may run at the same time
    Policy    \* the policy that was reviewed here, and that run_fixture is given

JobFile == [nonce : Nonces, deployment : Deployments \cup {None}, executed : BOOLEAN]

ASSUME ClientAssumption ==
    /\ None \notin Nonces \cup Files \cup Clients \cup Deployments \cup JobFile
    /\ None \notin {"completed", "ended otherwise"}
    /\ Policy \in Deployments

VARIABLES
    files,   \* job file -> None or its content
    output,  \* job file -> None or the evidence run_fixture saved
    result,  \* job file -> None or what the results command saved
    prog,    \* client -> None or the program it runs
    history  \* nonces drawn, and those of the jobs started by hand

local == <<files, output, result>>
vars == <<server, local, prog, history>>

-----------------------------------------------------------------------------
(* The evidence of a fixture: what the worker collects, what the client expects. *)

Native == {"diagnostic", "device", "reject"}
UnityDraws == {"unity-traced", "unity-untraced", "unity-unhooked"}
Kinds == Native \cup UnityDraws \cup {"unity-startup"}

Probe == {"adapters.json", "report.json", "pixels.bin", "selection-adapters.json"}
Startup == {"unity-startup.json"}
Shaders == {"draw-0001-vs.bin", "draw-0001-ps.bin",
            "draw-0002-vs.bin", "draw-0002-ps.bin"}
DrawFiles(kind) ==
    {"device.bin", "result.tsv", "pixels.bin", "selection-adapters.json"}
        \cup (IF kind = "unity-unhooked" THEN {} ELSE {"draws.bin"})
        \cup (IF kind = "unity-traced" THEN Shaders ELSE {})

\* No evidence is not a set of artifacts.
ASSUME EvidenceAssumption ==
    None \notin {Probe, Startup} \cup {DrawFiles(kind) : kind \in UnityDraws}

\* The sets of artifacts a job may end with; None is a result without evidence,
\* left by a fixture that could not be completed.
CompletedUnityDraw(kind) == {DrawFiles(kind)}
CompleteFixture(kind, outcome) ==
    IF kind = "diagnostic" THEN {None}
    ELSE IF outcome = "completed" THEN
        IF kind = "device" THEN {Probe}
        ELSE IF kind = "reject" THEN {}
        ELSE IF kind = "unity-startup" THEN {Startup}
        ELSE CompletedUnityDraw(kind)
    ELSE {None} \cup
        IF kind \in Native
        THEN {{"selection-adapters.json"}, {"selection-adapters.json", "adapters.json"}}
        ELSE {Startup}

ExpectedEverywhereHooked(kind, outcome) ==
    IF kind \in Native THEN Probe
    ELSE IF kind \in UnityDraws /\ outcome = "completed"
    THEN DrawFiles(kind) \cup {"draws.bin"}
    ELSE Startup

ExpectedNames(kind, outcome) ==
    IF kind \in Native THEN Probe
    ELSE IF kind \in UnityDraws /\ outcome = "completed" THEN DrawFiles(kind)
    ELSE Startup

\* operate refuses a result whose evidence is not what the kind of the job implies.
Believable(kind, outcome, artifacts) ==
    IF artifacts = None
    THEN outcome = "completed" => kind \in Native \ {"device"}
    ELSE /\ artifacts \subseteq ExpectedNames(kind, outcome)
         /\ outcome = "completed" => artifacts = ExpectedNames(kind, outcome)

-----------------------------------------------------------------------------
\* The call of a program is executed and its answer is on the way.
Serve(c) ==
    /\ prog[c] # None
    /\ prog[c].pc \in Calls
    /\ prog[c].reply = None
    /\ \E n \in Nonces :
        /\ prog[c].job.nonce = n
        /\ \/ Accepted(prog[c].pc, n) /\ prog' = [prog EXCEPT ![c].reply = Answer(n)']
           \/ /\ \/ Refused(prog[c].pc, n)
                 \/ prog[c].pc = "submit" /\ Dies(n)
              /\ prog' = [prog EXCEPT ![c].reply = Refusal]
    /\ UNCHANGED <<local, history>>

\* Everything that happens while no call is executed.
Meanwhile ==
    /\ Worker \/ ServiceChanges \/ Rotate
    /\ UNCHANGED <<local, prog, history>>

-----------------------------------------------------------------------------
(* The programs. A program is idle when it has ended, with an error or without. *)

\* A job file: pending while it has no deployment, a job afterwards.
JobOf(n) == [nonce |-> n, deployment |-> None, executed |-> FALSE]
IsPending(f) == files[f] # None /\ files[f].deployment = None

Idle(c) == prog[c] = None
Run(c, f, approved, pc, job) ==
    prog' = [prog EXCEPT ![c] = [pc |-> pc, file |-> f, approved |-> approved,
                                 job |-> job, reply |-> None]]
Goto(c, pc) == prog' = [prog EXCEPT ![c].pc = pc, ![c].reply = None]
Exit(c) == prog' = [prog EXCEPT ![c] = None]

\* The check that the files do not exist and their creation are not one step.
\* Two programs never create the same job file at the same time (see the README).
Unused(f) == files[f] = None /\ \A c \in Clients : ~Idle(c) => prog[c].file # f

\* A new request: run_fixture with the policy it is to run under, or the
\* submit command, which asks for none. Nothing is saved or sent yet.
NewRequest(c, f, approved) ==
    /\ Idle(c)
    /\ Unused(f)
    /\ approved # None => output[f] = None
    /\ \E n \in Nonces \ history.drawn :
        /\ Run(c, f, approved, "pending", JobOf(n))
        /\ history' = [history EXCEPT !.drawn = @ \cup {n}]
    /\ UNCHANGED <<server, local>>

\* The submit command on a pending file: the same request again.
SubmitAgain(c, f) ==
    /\ Idle(c)
    /\ IsPending(f)
    /\ Run(c, f, None, "submit", files[f])
    /\ UNCHANGED <<server, local, history>>

Command(c, f, op) ==
    /\ Idle(c)
    /\ files[f] # None
    /\ ~IsPending(f)
    /\ Run(c, f, None, op, files[f])
    /\ history' = IF op = "start"
                  THEN [history EXCEPT !.manual = @ \cup {files[f].nonce}] ELSE history
    /\ UNCHANGED <<server, local>>

SendUnsaved(c) ==
    /\ ~Idle(c)
    /\ prog[c].pc = "pending"
    /\ Goto(c, "submit")
    /\ UNCHANGED <<server, local, history>>

\* The nonce is on disk before the request is sent.
SavePending(c) ==
    /\ ~Idle(c)
    /\ prog[c].pc = "pending"
    /\ files' = [files EXCEPT ![prog[c].file] = prog[c].job]
    /\ Goto(c, "submit")
    /\ UNCHANGED <<server, output, result, history>>

Answered(c, op) ==
    /\ ~Idle(c)
    /\ prog[c].pc = op
    /\ prog[c].reply # None
    /\ prog[c].reply.ok

\* What operate compares with the job file.
Bound(job, reply) ==
    /\ reply.deployment = job.deployment
    /\ job.executed => reply.executed

Learn(c, pc) ==
    prog' = [prog EXCEPT ![c].pc = pc, ![c].reply = None,
                         ![c].job.deployment = prog[c].reply.deployment,
                         ![c].job.executed = prog[c].reply.executed]

Submitted(c) ==
    /\ Answered(c, "submit")
    /\ Learn(c, "keep")
    /\ UNCHANGED <<server, local, history>>

Started(c) ==
    /\ Answered(c, "start")
    /\ Bound(prog[c].job, prog[c].reply)
    /\ Learn(c, "keep started")
    /\ UNCHANGED <<server, local, history>>

StartWhatever(c) ==
    /\ ~Idle(c)
    /\ prog[c].pc = "keep"
    /\ files' = [files EXCEPT ![prog[c].file] = prog[c].job]
    /\ IF prog[c].approved = None THEN Exit(c) ELSE Goto(c, "start")
    /\ UNCHANGED <<server, output, result, history>>

\* The job is saved; run_fixture goes on if it is of the policy it was given.
Keep(c) ==
    /\ ~Idle(c)
    /\ prog[c].pc = "keep"
    /\ files' = [files EXCEPT ![prog[c].file] = prog[c].job]
    /\ IF prog[c].approved = prog[c].job.deployment
       THEN Goto(c, "start") ELSE Exit(c)
    /\ UNCHANGED <<server, output, result, history>>

KeepStarted(c) ==
    /\ ~Idle(c)
    /\ prog[c].pc = "keep started"
    /\ files' = [files EXCEPT ![prog[c].file] = prog[c].job]
    /\ IF prog[c].approved = None THEN Exit(c) ELSE Goto(c, "status")
    /\ UNCHANGED <<server, output, result, history>>

Polled(c) ==
    /\ Answered(c, "status")
    /\ Bound(prog[c].job, prog[c].reply)
    /\ IF prog[c].approved = None \/ prog[c].reply.recovery THEN Exit(c)
       ELSE IF prog[c].reply.stage = "ended" THEN Goto(c, "results")
       ELSE Goto(c, "status")
    /\ UNCHANGED <<server, local, history>>

Evidence(n, reply) ==
    [nonce |-> n, deployment |-> reply.deployment, outcome |-> reply.outcome]

\* run_fixture and the results command keep what they got in files of their own.
\* Only here the kind of the job matters, and it may be any.
Fetched(c) ==
    /\ Answered(c, "results")
    /\ Bound(prog[c].job, prog[c].reply)
    /\ \E n \in Nonces :
        /\ prog[c].job.nonce = n
        /\ \E kind \in Kinds : \E a \in CompleteFixture(kind, prog[c].reply.outcome) :
               Believable(kind, prog[c].reply.outcome, a)
        /\ LET saved == [IF prog[c].approved = None THEN result ELSE output
                            EXCEPT ![prog[c].file] = Evidence(n, prog[c].reply)]
           IN IF prog[c].approved = None
              THEN result' = saved /\ UNCHANGED output
              ELSE output' = saved /\ UNCHANGED result
    /\ Exit(c)
    /\ UNCHANGED <<server, files, history>>

CancelAnswered(c) ==
    /\ Answered(c, "cancel")
    /\ Bound(prog[c].job, prog[c].reply)
    /\ Exit(c)
    /\ UNCHANGED <<server, local, history>>

\* Killed, disconnected, refused, 25 s without an answer, or past the deadline of
\* run_fixture. The files stay as they are. A call that is still
\* executed after its program has died is one of a program that dies later.
GiveUp(c) ==
    /\ ~Idle(c)
    /\ Exit(c)
    /\ UNCHANGED <<server, local, history>>

-----------------------------------------------------------------------------
Init ==
    /\ ServiceInit
    /\ files = [f \in Files |-> None]
    /\ output = [f \in Files |-> None]
    /\ result = [f \in Files |-> None]
    /\ prog = [c \in Clients |-> None]
    /\ history = [drawn |-> {}, manual |-> {}]

Begin(c) ==
    \E f \in Files :
        \/ NewRequest(c, f, None) \/ NewRequest(c, f, Policy)
        \/ SubmitAgain(c, f)
        \/ \E op \in Calls \ {"submit"} : Command(c, f, op)

\* The steps of a program that runs.
Step(c) ==
    \/ SavePending(c) \/ Submitted(c) \/ Keep(c) \/ Started(c) \/ KeepStarted(c)
    \/ Polled(c) \/ Fetched(c) \/ CancelAnswered(c) \/ GiveUp(c)

Next ==
    \/ \E c \in Clients : Begin(c) \/ Step(c) \/ Serve(c)
    \/ Meanwhile

Spec == Init /\ [][Next]_vars

-----------------------------------------------------------------------------
Answers ==
    [ok : {TRUE}, stage : Stages, deployment : Deployments \cup {None}, executed : BOOLEAN,
     outcome : Outcomes \cup {None}, recovery : BOOLEAN]

\* A program that runs.
Program ==
    [pc : Calls \cup {"pending", "keep", "keep started"}, file : Files,
     approved : {None, Policy}, job : JobFile, reply : {None, Refusal} \cup Answers]

Saved ==
    [Files -> {None} \cup [nonce : Nonces, deployment : Deployments \cup {None},
                           outcome : Outcomes \cup {None}]]

Record ==
    [deployment : Deployments \cup {None}, executed : BOOLEAN, outcome : Outcomes \cup {None}]

ServerType ==
    /\ stage \in [Nonces -> Stages]
    /\ runs \in [Nonces -> 0..1]
    /\ record \in [Nonces -> Record]
    /\ \A n \in Nonces : stage[n] = "ended" => record[n].outcome # None
    /\ service \in [deployment : Deployments, beating : BOOLEAN]

TypeOK ==
    /\ ServerType
    /\ files \in [Files -> {None} \cup JobFile]
    /\ output \in Saved /\ result \in Saved
    /\ prog \in [Clients -> {None} \cup Program]
    /\ history \in [drawn : SUBSET Nonces, manual : SUBSET Nonces]
    /\ \A f \in Files : files[f] # None => files[f].nonce \in history.drawn
    /\ \A c \in Clients : ~Idle(c) =>
        prog[c].job.deployment = None <=> prog[c].pc \in {"pending", "submit"}

\* Whatever was lost on the way, every job the service accepted is named by a job
\* file, from which it can be asked for again; so no file ever led to two jobs.
JobRemembered ==
    \A n \in Nonces : stage[n] # "new" =>
        \E f \in Files : files[f] # None /\ files[f].nonce = n

\* A job that nobody started by hand runs under the policy run_fixture was given,
\* also if another one is activated between the submission and the start.
OnlyApprovedRuns ==
    \A n \in Nonces \ history.manual :
        record[n].executed => record[n].deployment = Policy

\* Evidence that was saved is of the job in the file beside it, and it is how
\* that job ended, once and for all.
EvidenceTrue ==
    \A f \in Files : \A e \in {output[f], result[f]} \ {None} :
        /\ files[f].nonce = e.nonce
        /\ stage[e.nonce] \in {"ended", "archived"}
        /\ e = Evidence(e.nonce, record[e.nonce])
        /\ e.outcome = "completed" => runs[e.nonce] = 1
        /\ e = output[f] => e.deployment = Policy

\* The client's own checks never turn down what the service answers: neither the
\* identity of a job and its execution nor the evidence of any kind of fixture.
ServiceBelieved ==
    \A c \in Clients : \A op \in Calls \ {"submit"} : Answered(c, op) =>
        /\ Bound(prog[c].job, prog[c].reply)
        /\ op = "results" =>
            \A kind \in Kinds : \A a \in CompleteFixture(kind, prog[c].reply.outcome) :
                Believable(kind, prog[c].reply.outcome, a)

(* What makes them inductive. *)

\* The service: what it keeps of a job is in step with its stage.
InStep(n) ==
    /\ stage[n] # "new" => record[n].deployment \in Deployments
    /\ record[n].outcome # None => stage[n] \in {"ended", "archived"}
    /\ record[n].outcome = "completed" => runs[n] = 1

\* What a job file or a program knows of a job is so.
Knows(job) ==
    /\ job.deployment # None => record[job.nonce].deployment = job.deployment
    /\ job.executed => record[job.nonce].executed

\* So is an answer, also when other calls are executed before it is read.
Truthful(p) ==
    p.reply # None /\ p.reply.ok =>
        /\ p.reply.deployment \in Deployments
        /\ p.reply.deployment = record[p.job.nonce].deployment
        /\ p.job.executed => p.reply.executed
        /\ p.reply.executed => record[p.job.nonce].executed
        /\ p.pc = "results" =>
            /\ stage[p.job.nonce] \in {"ended", "archived"}
            /\ p.reply.outcome = record[p.job.nonce].outcome
            /\ p.reply.outcome # None

\* A program that has not saved its request has its file for itself; any other
\* works on the job of its file.
OnFile(c) ==
    IF prog[c].pc = "pending"
    THEN /\ files[prog[c].file] = None
         /\ prog[c].job.nonce \in history.drawn
         /\ \A d \in Clients \ {c} : ~Idle(d) => prog[d].file # prog[c].file
    ELSE files[prog[c].file] # None /\ files[prog[c].file].nonce = prog[c].job.nonce

\* run_fixture goes on with jobs of its policy only; a start it does not make is
\* one by hand.
Entitled(p) ==
    /\ p.approved # None /\ p.pc \notin {"pending", "submit", "keep"} =>
        p.job.deployment = p.approved
    /\ p.approved = None /\ p.pc = "start" => p.job.nonce \in history.manual

ClientInv ==
    /\ TypeOK
    /\ \A n \in Nonces : InStep(n)
    /\ \A n \in Nonces : record[n].deployment # None =>
        \E f \in Files : files[f] # None /\ files[f].nonce = n
    /\ \A f \in Files : files[f] # None => Knows(files[f])
    /\ \A c \in Clients : ~Idle(c) =>
        Knows(prog[c].job) /\ Truthful(prog[c]) /\ OnFile(c) /\ Entitled(prog[c])
    /\ \A f \in Files : \A e \in {output[f], result[f]} \ {None} :
        files[f] # None /\ e.outcome # None
    /\ OnlyApprovedRuns
    /\ EvidenceTrue
=============================================================================
