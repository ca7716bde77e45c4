--------------------------- MODULE JobClientProofs ---------------------------
(***************************************************************************)
(* Proofs about JobClient for every value of its constants: any number of  *)
(* requests, job files, programs and deployments.                          *)
(***************************************************************************)
EXTENDS JobClient, TLAPS

-----------------------------------------------------------------------------
(* The service. *)

\* A job is in step afterwards, and what was known of it stays so.
Forward(n) ==
    /\ InStep(n)'
    /\ stage'[n] = "ended" => record'[n].outcome # None
    /\ record[n].deployment # None => record'[n].deployment = record[n].deployment
    /\ record[n].executed => record'[n].executed
    /\ record[n].outcome # None => record'[n].outcome = record[n].outcome
    /\ stage[n] \in {"ended", "archived"} => stage'[n] \in {"ended", "archived"}
    /\ runs[n] = 1 => runs'[n] = 1

Advanced == ServerType' /\ \A n \in Nonces : Forward(n)

\* The ways a job gets on; Begins(n) is the one that lets it be executed.
Begins(n) == Start(n) /\ record' = [record EXCEPT ![n].executed = TRUE]

Moves ==
    \/ UNCHANGED <<stage, runs, record>>
    \/ \E n \in Nonces :
        \/ Prepares(n) /\ UNCHANGED <<stage, runs>>
        \/ Submits(n)
        \/ WorkerClaims(n) \/ WorkerRuns(n)
        \/ \E o \in Outcomes : (o = "completed" => runs[n] = 1) /\ Ends(n, o)
    \/ \E S \in SUBSET {n \in Nonces : record[n].deployment # None} :
        Archive(S) /\ UNCHANGED record

LEMMA JobType ==
    ASSUME ServerType, NEW n \in Nonces
    PROVE  /\ stage[n] \in Stages /\ runs[n] \in 0..1 /\ record[n] \in Record
           /\ stage[n] = "ended" => record[n].outcome # None
BY DEF ServerType

\* A job nothing happens to.
LEMMA OtherJob ==
    ASSUME ServerType, NEW m \in Nonces, InStep(m),
           stage'[m] = stage[m], runs'[m] = runs[m], record'[m] = record[m]
    PROVE  Forward(m)
BY DEF ServerType, Forward, InStep

\* Only one job gets on.
LEMMA OneJob ==
    ASSUME ServerType, \A m \in Nonces : InStep(m), NEW n \in Nonces, Forward(n),
           service' \in [deployment : Deployments, beating : BOOLEAN],
           stage' \in [Nonces -> Stages], runs' \in [Nonces -> 0..1],
           record' \in [Nonces -> Record],
           \A m \in Nonces : m # n =>
               stage'[m] = stage[m] /\ runs'[m] = runs[m] /\ record'[m] = record[m]
    PROVE  Advanced
PROOF
<1>1. \A m \in Nonces : Forward(m)
  <2> SUFFICES ASSUME NEW m \in Nonces, m # n PROVE Forward(m)
    OBVIOUS
  <2> QED BY OtherJob
<1>2. ServerType'
  BY <1>1 DEF Forward, ServerType
<1> QED BY <1>1, <1>2 DEF Advanced

\* The service stays in step, and forgets nothing.
LEMMA ServerStep ==
    ASSUME ServerType, \A n \in Nonces : InStep(n),
           service' \in [deployment : Deployments, beating : BOOLEAN],
           Moves \/ \E n \in Nonces : Begins(n)
    PROVE  Advanced
PROOF
<1>1. CASE UNCHANGED <<stage, runs, record>>
  <2>1. \A m \in Nonces : Forward(m)
    BY <1>1, OtherJob
  <2>2. ServerType'
    BY <1>1 DEF ServerType
  <2> QED BY <2>1, <2>2 DEF Advanced
<1>2. ASSUME NEW n \in Nonces, Prepares(n), UNCHANGED <<stage, runs>> \/ Accept(n)
      PROVE  Advanced
  <2>0. record[n] \in Record
    BY JobType
  <2>1. /\ record[n].deployment = None /\ service.deployment \in Deployments
        /\ record' = [record EXCEPT ![n] = [record[n] EXCEPT !.deployment = service.deployment]]
    BY <1>2 DEF Prepares, Unheard, ServerType
  <2>2. [record[n] EXCEPT !.deployment = service.deployment] \in Record
    BY <2>0, <2>1 DEF Record
  <2>3. /\ record' \in [Nonces -> Record]
        /\ record'[n] = [record[n] EXCEPT !.deployment = service.deployment]
        /\ \A m \in Nonces : m # n => record'[m] = record[m]
    BY <2>1, <2>2 DEF ServerType
  <2>4. /\ record'[n].deployment = service.deployment
        /\ record'[n].executed = record[n].executed /\ record'[n].outcome = record[n].outcome
    BY <2>0, <2>3 DEF Record
  <2>5. /\ stage' \in [Nonces -> Stages] /\ UNCHANGED runs
        /\ stage[n] = "new" /\ stage'[n] \in {"new", "submitted"}
        /\ \A m \in Nonces : m # n => stage'[m] = stage[m]
    BY <1>2 DEF ServerType, Stages, Accept, Move, Prepares, Unheard
  <2>6. Forward(n)
    BY <2>1, <2>4, <2>5 DEF Forward, InStep
  <2> QED BY <2>3, <2>5, <2>6, OneJob DEF ServerType
<1>3. ASSUME NEW n \in Nonces, Accept(n), record[n].deployment = service.deployment,
             UNCHANGED record
      PROVE  Advanced
  <2>1. /\ stage[n] = "new" /\ stage'[n] = "submitted" /\ UNCHANGED runs
        /\ stage' \in [Nonces -> Stages] /\ \A m \in Nonces : m # n => stage'[m] = stage[m]
    BY <1>3 DEF ServerType, Stages, Accept, Move
  <2>2. record[n].deployment \in Deployments
    BY <1>3 DEF ServerType
  <2>3. Forward(n)
    BY <1>3, <2>1, <2>2 DEF Forward, InStep
  <2> QED BY <1>3, <2>1, <2>3, OneJob DEF ServerType
<1>4. ASSUME NEW n \in Nonces, WorkerClaims(n)
      PROVE  Advanced
  <2>1. /\ stage[n] = "queued" /\ stage'[n] = "running" /\ UNCHANGED <<runs, record>>
        /\ stage' \in [Nonces -> Stages] /\ \A m \in Nonces : m # n => stage'[m] = stage[m]
    BY <1>4 DEF ServerType, Stages, WorkerClaims, Claim, Move
  <2>2. Forward(n)
    BY <2>1 DEF Forward, InStep
  <2> QED BY <2>1, <2>2, OneJob DEF ServerType
<1>5. ASSUME NEW n \in Nonces, WorkerRuns(n)
      PROVE  Advanced
  <2>1. /\ stage[n] = "running" /\ runs'[n] = 1 /\ UNCHANGED <<stage, record>>
        /\ runs' \in [Nonces -> 0..1] /\ \A m \in Nonces : m # n => runs'[m] = runs[m]
    BY <1>5 DEF ServerType, WorkerRuns, Execute
  <2>2. Forward(n)
    BY <2>1 DEF Forward, InStep
  <2> QED BY <2>1, <2>2, OneJob DEF ServerType
<1>6. ASSUME NEW n \in Nonces, NEW o \in Outcomes, o = "completed" => runs[n] = 1, Ends(n, o)
      PROVE  Advanced
  <2>0. record[n] \in Record
    BY JobType
  <2>1. /\ stage[n] \in {"submitted", "queued", "running"} /\ stage'[n] = "ended"
        /\ UNCHANGED runs /\ stage' \in [Nonces -> Stages]
        /\ \A m \in Nonces : m # n => stage'[m] = stage[m]
        /\ record' = [record EXCEPT ![n] = [record[n] EXCEPT !.outcome = o]]
    BY <1>6 DEF ServerType, Stages, Ends, End, Move
  <2>2. [record[n] EXCEPT !.outcome = o] \in Record
    BY <2>0 DEF Record
  <2>3. /\ record' \in [Nonces -> Record]
        /\ record'[n] = [record[n] EXCEPT !.outcome = o]
        /\ \A m \in Nonces : m # n => record'[m] = record[m]
    BY <2>1, <2>2 DEF ServerType
  <2>4. /\ record'[n].deployment = record[n].deployment
        /\ record'[n].executed = record[n].executed /\ record'[n].outcome = o
    BY <2>0, <2>3 DEF Record
  <2>5. o # None /\ InStep(n)
    BY ClientAssumption DEF Outcomes
  <2>6. record[n].outcome = None /\ record[n].deployment \in Deployments
    BY <2>1, <2>5 DEF InStep
  <2>7. Forward(n)
    BY <1>6, <2>1, <2>4, <2>5, <2>6 DEF Forward, InStep
  <2> QED BY <2>1, <2>3, <2>7, OneJob DEF ServerType
<1>7. ASSUME NEW S \in SUBSET {n \in Nonces : record[n].deployment # None},
             Archive(S), UNCHANGED record
      PROVE  Advanced
  <2>1. /\ stage' = [n \in Nonces |-> IF n \in S THEN "archived" ELSE stage[n]]
        /\ UNCHANGED <<runs, record>>
    BY <1>7 DEF Archive
  <2>2. ServerType'
    BY <2>1 DEF ServerType, Stages
  <2>3. ASSUME NEW m \in Nonces PROVE Forward(m)
    <3>1. CASE m \notin S
      BY <2>1, <3>1, OtherJob
    <3>2. CASE m \in S
      <4>1. stage'[m] = "archived" /\ record'[m] = record[m] /\ runs'[m] = runs[m]
        BY <2>1, <3>2
      <4>2. record[m] \in Record /\ record[m].deployment # None /\ InStep(m)
        BY <3>2, JobType
      <4>3. record[m].deployment \in Deployments
        BY <4>2 DEF Record
      <4> QED BY <4>1, <4>2, <4>3 DEF Forward, InStep
    <3> QED BY <3>1, <3>2
  <2> QED BY <2>2, <2>3 DEF Advanced
<1>8. ASSUME NEW n \in Nonces, Begins(n)
      PROVE  Advanced
  <2>0. record[n] \in Record
    BY JobType
  <2>1. /\ stage[n] = "submitted" /\ stage'[n] = "queued"
        /\ UNCHANGED runs /\ stage' \in [Nonces -> Stages]
        /\ \A m \in Nonces : m # n => stage'[m] = stage[m]
        /\ record' = [record EXCEPT ![n] = [record[n] EXCEPT !.executed = TRUE]]
    BY <1>8 DEF ServerType, Stages, Begins, Start, Move
  <2>2. [record[n] EXCEPT !.executed = TRUE] \in Record
    BY <2>0 DEF Record
  <2>3. /\ record' \in [Nonces -> Record]
        /\ record'[n] = [record[n] EXCEPT !.executed = TRUE]
        /\ \A m \in Nonces : m # n => record'[m] = record[m]
    BY <2>1, <2>2 DEF ServerType
  <2>4. /\ record'[n].deployment = record[n].deployment
        /\ record'[n].executed /\ record'[n].outcome = record[n].outcome
    BY <2>0, <2>3 DEF Record
  <2>5. Forward(n)
    BY <2>1, <2>4 DEF Forward, InStep
  <2> QED BY <2>1, <2>3, <2>5, OneJob DEF ServerType
<1> QED BY <1>1, <1>2, <1>3, <1>4, <1>5, <1>6, <1>7, <1>8 DEF Moves, Submits
-----------------------------------------------------------------------------
(* What is known, by the files, the programs and the evidence. *)

LEMMA FileKnows ==
    ASSUME Advanced, NEW f \in Files, NEW job \in JobFile, Knows(job), files'[f] = job
    PROVE  Knows(files[f])'
PROOF
<1>1. job.nonce \in Nonces
  BY DEF JobFile
<1> QED BY <1>1 DEF Advanced, Forward, Knows

LEMMA ProgramKnows ==
    ASSUME Advanced, NEW c \in Clients, NEW job \in JobFile, Knows(job), prog'[c].job = job
    PROVE  Knows(prog[c].job)'
PROOF
<1>1. job.nonce \in Nonces
  BY DEF JobFile
<1> QED BY <1>1 DEF Advanced, Forward, Knows

LEMMA AnswerKept ==
    ASSUME Advanced, ClientAssumption, NEW c \in Clients, NEW p \in Program, Truthful(p),
           prog'[c] = p
    PROVE  Truthful(prog[c])'
PROOF
<1>1. p.job.nonce \in Nonces
  BY DEF Program, JobFile
<1> QED BY <1>1, ClientAssumption DEF Advanced, Forward, Truthful

FilesKept ==
    \A f \in Files : files[f] # None => files'[f] # None /\ files'[f].nonce = files[f].nonce

\* Evidence stays true.
LEMMA EvidenceKept ==
    ASSUME ClientInv, Advanced, FilesKept, UNCHANGED <<output, result>>
    PROVE  /\ EvidenceTrue'
           /\ \A f \in Files : \A e \in {output'[f], result'[f]} \ {None} :
                files'[f] # None /\ e.outcome # None
PROOF
<1>1. \A f \in Files : \A e \in {output'[f], result'[f]} \ {None} :
        files'[f] # None /\ e.outcome # None
  BY DEF ClientInv, FilesKept
<1>2. ASSUME NEW f \in Files, NEW e \in {output[f], result[f]} \ {None}
      PROVE  /\ files'[f].nonce = e.nonce
             /\ stage'[e.nonce] \in {"ended", "archived"}
             /\ e = [nonce |-> e.nonce, deployment |-> record'[e.nonce].deployment,
                     outcome |-> record'[e.nonce].outcome]
             /\ e.outcome = "completed" => runs'[e.nonce] = 1
             /\ e = output[f] => e.deployment = Policy
  <2>1. /\ files[f].nonce = e.nonce /\ files[f] # None
        /\ stage[e.nonce] \in {"ended", "archived"}
        /\ e = [nonce |-> e.nonce, deployment |-> record[e.nonce].deployment,
                outcome |-> record[e.nonce].outcome]
        /\ e.outcome = "completed" => runs[e.nonce] = 1
        /\ e = output[f] => e.deployment = Policy
    BY DEF ClientInv, EvidenceTrue, Evidence
  <2>2. e.nonce \in Nonces
    BY <2>1 DEF ClientInv, TypeOK, JobFile
  <2>3. record[e.nonce].deployment \in Deployments
    BY <2>1, <2>2 DEF ClientInv, InStep
  <2>4. record'[e.nonce].deployment = record[e.nonce].deployment
    BY <2>2, <2>3, ClientAssumption DEF Advanced, Forward
  <2>5. record'[e.nonce].outcome = record[e.nonce].outcome
    <3>1. e.outcome # None /\ record[e.nonce].outcome # None
      BY <2>1 DEF ClientInv
    <3> QED BY <2>1, <2>2, <3>1 DEF Advanced, Forward
  <2>6. stage'[e.nonce] \in {"ended", "archived"}
        /\ (runs[e.nonce] = 1 => runs'[e.nonce] = 1)
    BY <2>1, <2>2 DEF Advanced, Forward
  <2> QED BY <2>1, <2>4, <2>5, <2>6 DEF FilesKept
<1> QED BY <1>1, <1>2 DEF EvidenceTrue, Evidence

-----------------------------------------------------------------------------
(* What a call changes of the records. *)

LEMMA PreparesChanges ==
    ASSUME ServerType, NEW n \in Nonces, Prepares(n), NEW m \in Nonces
    PROVE  /\ record'[m].executed = record[m].executed
           /\ m # n => record'[m].deployment = record[m].deployment
PROOF
<1>1. record[m] \in Record /\ record[n] \in Record
  BY JobType
<1>2. record' = [record EXCEPT ![n] = [record[n] EXCEPT !.deployment = service.deployment]]
  BY DEF Prepares
<1>3. CASE m = n
  <2>1. record'[m] = [record[n] EXCEPT !.deployment = service.deployment]
    BY <1>2, <1>3 DEF ServerType
  <2> QED BY <1>1, <1>3, <2>1 DEF Record
<1>4. CASE m # n
  BY <1>2, <1>4 DEF ServerType
<1> QED BY <1>3, <1>4

LEMMA EndsChanges ==
    ASSUME ServerType, NEW n \in Nonces, NEW o, Ends(n, o), NEW m \in Nonces
    PROVE  /\ record'[m].executed = record[m].executed
           /\ record'[m].deployment = record[m].deployment
PROOF
<1>1. record[m] \in Record /\ record[n] \in Record
  BY JobType
<1>2. record' = [record EXCEPT ![n] = [record[n] EXCEPT !.outcome = o]]
  BY DEF Ends
<1>3. CASE m = n
  <2>1. record'[m] = [record[n] EXCEPT !.outcome = o]
    BY <1>2, <1>3 DEF ServerType
  <2> QED BY <1>1, <1>3, <2>1 DEF Record
<1>4. CASE m # n
  BY <1>2, <1>4 DEF ServerType
<1> QED BY <1>3, <1>4

LEMMA BeginsChanges ==
    ASSUME ServerType, NEW n \in Nonces, Begins(n), NEW m \in Nonces
    PROVE  /\ record'[m].deployment = record[m].deployment
           /\ m # n => record'[m].executed = record[m].executed
PROOF
<1>1. record[m] \in Record /\ record[n] \in Record
  BY JobType
<1>2. record' = [record EXCEPT ![n] = [record[n] EXCEPT !.executed = TRUE]]
  BY DEF Begins
<1>3. CASE m = n
  <2>1. record'[m] = [record[n] EXCEPT !.executed = TRUE]
    BY <1>2, <1>3 DEF ServerType
  <2> QED BY <1>1, <1>3, <2>1 DEF Record
<1>4. CASE m # n
  BY <1>2, <1>4 DEF ServerType
<1> QED BY <1>3, <1>4

\* Nothing is executed that was not before: approved is what was.
LEMMA ApprovedKept ==
    ASSUME ClientInv, Advanced, history.manual \subseteq history'.manual,
           \A n \in Nonces : record'[n].executed => record[n].executed
    PROVE  OnlyApprovedRuns'
PROOF
<1> SUFFICES ASSUME NEW n \in Nonces, n \notin history'.manual, record'[n].executed
             PROVE  record'[n].deployment = Policy
  BY DEF OnlyApprovedRuns
<1>1. record[n].deployment = Policy /\ Policy # None
  BY ClientAssumption DEF ClientInv, OnlyApprovedRuns
<1> QED BY <1>1 DEF Advanced, Forward

Remembered(n) == \E f \in Files : files[f] # None /\ files[f].nonce = n

\* The service does something while the programs stay where they are; at most a
\* call is answered.
LEMMA ServiceStep ==
    ASSUME ClientInv, Advanced, UNCHANGED <<local, history>>, OnlyApprovedRuns',
           \A n \in Nonces : record'[n].deployment # None =>
               record[n].deployment # None \/ Remembered(n),
           prog' \in [Clients -> {None} \cup Program],
           \A c \in Clients : prog[c] = None => prog'[c] = None,
           \A c \in Clients : ~Idle(c)' =>
               /\ prog'[c].pc = prog[c].pc /\ prog'[c].file = prog[c].file
               /\ prog'[c].approved = prog[c].approved /\ prog'[c].job = prog[c].job
               /\ Truthful(prog[c])'
    PROVE  ClientInv'
PROOF
<1>0. TypeOK /\ UNCHANGED <<files, output, result, history>>
  BY DEF ClientInv, local
<1>1. TypeOK'
  <2>1. ASSUME NEW c \in Clients, ~Idle(c)'
        PROVE  prog'[c].job.deployment = None <=> prog'[c].pc \in {"pending", "submit"}
    <3>1. ~Idle(c)
      BY <2>1 DEF Idle
    <3> QED BY <1>0, <2>1, <3>1 DEF TypeOK
  <2> QED BY <1>0, <2>1 DEF TypeOK, Advanced, Saved, Idle
<1>2. ASSUME NEW n \in Nonces PROVE InStep(n)'
  BY DEF Advanced, Forward
<1>3. ASSUME NEW n \in Nonces, record'[n].deployment # None
      PROVE  \E f \in Files : files'[f] # None /\ files'[f].nonce = n
  BY <1>0, <1>3 DEF ClientInv, Remembered
<1>4. ASSUME NEW f \in Files, files'[f] # None
      PROVE  Knows(files[f])'
  <2>1. files[f] \in JobFile /\ Knows(files[f]) /\ files'[f] = files[f]
    BY <1>0, <1>4 DEF ClientInv, TypeOK
  <2> QED BY <2>1, FileKnows
<1>5. ASSUME NEW c \in Clients, ~Idle(c)'
      PROVE  Knows(prog[c].job)' /\ Truthful(prog[c])' /\ OnFile(c)' /\ Entitled(prog[c])'
  <2>1. ~Idle(c) /\ prog[c] \in Program
    BY <1>0, <1>5 DEF Idle, TypeOK
  <2>2. prog[c].job \in JobFile /\ Knows(prog[c].job) /\ OnFile(c) /\ Entitled(prog[c])
    BY <2>1 DEF ClientInv, Program
  <2>3. Knows(prog[c].job)'
    BY <1>5, <2>2, ProgramKnows
  <2>4. OnFile(c)'
    BY <1>0, <1>5, <2>2 DEF OnFile, Idle
  <2>5. Entitled(prog[c])'
    BY <1>0, <1>5, <2>2 DEF Entitled
  <2> QED BY <1>5, <2>3, <2>4, <2>5
<1>6. FilesKept
  BY <1>0 DEF FilesKept
<1>7. /\ EvidenceTrue'
      /\ \A f \in Files : \A e \in {output'[f], result'[f]} \ {None} :
            files'[f] # None /\ e.outcome # None
  BY <1>0, <1>6, EvidenceKept
<1> QED BY <1>1, <1>2, <1>3, <1>4, <1>5, <1>7 DEF ClientInv

\* The programs see nothing of it.
LEMMA UnseenStep ==
    ASSUME ClientInv, Advanced, UNCHANGED <<local, prog, history>>,
           \A n \in Nonces : /\ record'[n].executed = record[n].executed
                             /\ record'[n].deployment = record[n].deployment
    PROVE  ClientInv'
PROOF
<1>1. OnlyApprovedRuns'
  BY ApprovedKept
<1>2. prog' \in [Clients -> {None} \cup Program]
  BY DEF ClientInv, TypeOK
<1>3. ASSUME NEW c \in Clients, ~Idle(c)'
      PROVE  prog'[c] = prog[c] /\ Truthful(prog[c])'
  <2>1. prog[c] \in Program /\ Truthful(prog[c]) /\ prog'[c] = prog[c]
    BY <1>3 DEF ClientInv, TypeOK, Idle
  <2> QED BY <2>1, ClientAssumption, AnswerKept
<1> QED BY <1>1, <1>2, <1>3, ServiceStep

LEMMA WorkerStep ==
    ASSUME ClientInv, Worker, UNCHANGED <<local, prog, history>>
    PROVE  ClientInv'
PROOF
<1>0. ServerType /\ UNCHANGED <<service, local, prog, history>>
  BY DEF ClientInv, TypeOK, Worker
<1>1. PICK n \in Nonces : WorkerClaims(n) \/ WorkerRuns(n) \/ JobEnds(n)
  BY DEF Worker
<1>2. CASE WorkerClaims(n) \/ WorkerRuns(n)
  <2>1. Advanced
    BY <1>0, <1>2, ServerStep DEF ClientInv, Moves, ServerType
  <2> QED BY <1>0, <1>2, <2>1, UnseenStep DEF WorkerClaims, WorkerRuns
<1>3. CASE JobEnds(n)
  <2>1. PICK o \in Outcomes : (o = "completed" => runs[n] = 1) /\ Ends(n, o)
    BY <1>3 DEF JobEnds
  <2>2. Advanced
    BY <1>0, <2>1, ServerStep DEF ClientInv, Moves, ServerType
  <2> QED BY <1>0, <2>1, <2>2, EndsChanges, UnseenStep
<1> QED BY <1>1, <1>2, <1>3

LEMMA ServiceChangesStep ==
    ASSUME ClientInv, ServiceChanges, UNCHANGED <<local, prog, history>>
    PROVE  ClientInv'
PROOF
<1>0. ServerType /\ UNCHANGED <<stage, runs, record, local, prog, history>>
  BY DEF ClientInv, TypeOK, ServiceChanges
<1>1. service' \in [deployment : Deployments, beating : BOOLEAN]
  <2> DEFINE b == ~service.beating
  <2>1. b \in BOOLEAN /\ service \in [deployment : Deployments, beating : BOOLEAN]
    BY <1>0 DEF ServerType
  <2>2. CASE service' = [service EXCEPT !.beating = b]
    <3> HIDE DEF b
    <3> QED BY <2>1, <2>2
  <2>3. CASE \E d \in Deployments : service' = [deployment |-> d, beating |-> FALSE]
    BY <2>3
  <2> QED BY <2>2, <2>3 DEF ServiceChanges
<1>2. Advanced
  BY <1>0, <1>1, ServerStep DEF ClientInv, Moves
<1> QED BY <1>0, <1>2, UnseenStep

LEMMA RotateStep ==
    ASSUME ClientInv, Rotate, UNCHANGED <<local, prog, history>>
    PROVE  ClientInv'
PROOF
<1>0. ServerType /\ UNCHANGED <<record, local, prog, history>>
  BY DEF ClientInv, TypeOK, Rotate
<1>1. service' \in [deployment : Deployments, beating : BOOLEAN]
  BY <1>0 DEF ServerType, Rotate
<1>2. Advanced
  BY <1>0, <1>1, ServerStep DEF ClientInv, Moves, Rotate
<1> QED BY <1>0, <1>2, UnseenStep

\* The answer to a call is about the job as the call left it.
LEMMA AnswerTrue ==
    ASSUME ClientInv, Advanced, NEW c \in Clients, ~Idle(c), prog[c].pc \in Calls,
           NEW n \in Nonces, prog[c].job.nonce = n, Accepted(prog[c].pc, n),
           prog'[c] = [prog[c] EXCEPT !.reply = Answer(n)']
    PROVE  prog'[c] \in Program /\ Truthful(prog[c])'
PROOF
<1> DEFINE p == prog[c]
<1>0. p \in Program /\ Knows(p.job) /\ ServerType /\ p.job \in JobFile
  BY DEF ClientInv, TypeOK, Idle, Program
<1>1. Answer(n)' \in Answers
  <2>1. stage'[n] \in Stages /\ record'[n] \in Record
    BY DEF Advanced, ServerType
  <2>2. service'.beating \in BOOLEAN
    BY DEF Advanced, ServerType
  <2> QED BY <2>1, <2>2 DEF Answer, Answers, Record
<1>2. /\ Answer(n)'.ok /\ Answer(n)'.deployment = record'[n].deployment
      /\ Answer(n)'.executed = record'[n].executed /\ Answer(n)'.outcome = record'[n].outcome
  BY DEF Answer
<1> DEFINE r == Answer(n)'
<1> HIDE DEF r
<1>3. /\ prog'[c] \in Program
      /\ prog'[c].reply = r /\ prog'[c].job = p.job /\ prog'[c].pc = p.pc
  BY <1>0, <1>1 DEF Program, r
<1>4. record'[n].deployment \in Deployments
  <2>1. service.deployment \in Deployments /\ record[n] \in Record
    BY <1>0, JobType DEF ServerType
  <2>2. CASE Found(n)
    <3>1. record[n].deployment \in Deployments /\ record[n].deployment # None
      BY <2>1, <2>2, ClientAssumption DEF Found, Held
    <3> QED BY <3>1 DEF Advanced, Forward
  <2>3. CASE Submits(n)
    <3>1. CASE Prepares(n)
      <4>1. record' = [record EXCEPT ![n] = [record[n] EXCEPT !.deployment = service.deployment]]
        BY <3>1 DEF Prepares
      <4>2. record'[n] = [record[n] EXCEPT !.deployment = service.deployment]
        BY <1>0, <4>1 DEF ServerType
      <4> QED BY <2>1, <4>2 DEF Record
    <3>2. CASE record[n].deployment = service.deployment /\ UNCHANGED record
      BY <2>1, <3>2
    <3> QED BY <2>3, <3>1, <3>2 DEF Submits
  <2> QED BY <2>2, <2>3 DEF Accepted, Repeats
<1>5. p.job.executed => record'[n].executed
  BY <1>0 DEF Advanced, Forward, Knows
<1>6. p.pc = "results" =>
        /\ stage'[n] \in {"ended", "archived"}
        /\ record'[n].outcome # None
  <2> SUFFICES ASSUME p.pc = "results"
               PROVE  stage'[n] \in {"ended", "archived"} /\ record'[n].outcome # None
    OBVIOUS
  <2>1. stage[n] = "ended" /\ UNCHANGED <<stage, record>>
    BY DEF Accepted, Repeats, Available
  <2> QED BY <1>0, <2>1 DEF ServerType
<1>7. Truthful(prog[c])'
  BY <1>2, <1>3, <1>4, <1>5, <1>6 DEF Truthful, r
<1> QED BY <1>3, <1>7

LEMMA ServeStep ==
    ASSUME ClientInv, NEW c \in Clients, Serve(c)
    PROVE  ClientInv'
PROOF
<1> DEFINE p == prog[c]
<1>0. /\ TypeOK /\ ServerType /\ ~Idle(c) /\ p \in Program /\ p.pc \in Calls
      /\ UNCHANGED <<local, history>>
  BY DEF ClientInv, TypeOK, Serve, Idle
<1>1. PICK n \in Nonces :
        /\ p.job.nonce = n
        /\ \/ Accepted(p.pc, n) /\ prog' = [prog EXCEPT ![c].reply = Answer(n)']
           \/ /\ \/ Refused(p.pc, n)
                 \/ p.pc = "submit" /\ Dies(n)
              /\ prog' = [prog EXCEPT ![c].reply = Refusal]
  BY DEF Serve
<1>2. Knows(p.job) /\ OnFile(c) /\ Entitled(p) /\ p.job \in JobFile
  BY <1>0 DEF ClientInv, Program
<1>3. Remembered(n)
  <2>1. p.pc # "pending" /\ p.file \in Files
    BY <1>0 DEF Calls, Program
  <2> QED BY <1>1, <1>2, <2>1 DEF OnFile, Remembered
<1>4. \/ UNCHANGED <<stage, runs, record>>
      \/ Prepares(n) /\ (UNCHANGED <<stage, runs>> \/ Submits(n))
      \/ Submits(n) /\ UNCHANGED record
      \/ \E o \in Outcomes : (o = "completed" => runs[n] = 1) /\ Ends(n, o)
      \/ p.pc = "start" /\ Begins(n)
  <2>1. CASE p.pc = "submit" /\ Dies(n)
    BY <2>1 DEF Dies
  <2>2. CASE Refused(p.pc, n)
    BY <2>2 DEF Refused, server
  <2>3. CASE Accepted(p.pc, n)
    <3>1. CASE p.pc = "submit" /\ Submits(n)
      BY <3>1 DEF Submits
    <3>2. CASE p.pc = "start" /\ Found(n) /\ Starts(n)
      BY <3>2 DEF Starts, Begins, Outcomes
    <3>3. CASE p.pc = "cancel" /\ Found(n) /\ Cancels(n)
      BY <3>3 DEF Cancels, Outcomes
    <3>4. CASE Repeats(p.pc, n)
      BY <3>4 DEF Repeats
    <3> QED BY <2>3, <3>1, <3>2, <3>3, <3>4 DEF Accepted
  <2> QED BY <1>1, <2>1, <2>2, <2>3
<1>5. service' \in [deployment : Deployments, beating : BOOLEAN]
  BY <1>0, <1>1 DEF Dies, Refused, server, Accepted, ServerType
<1>6. Moves \/ Begins(n)
  BY <1>4 DEF Moves
<1>7. Advanced
  BY <1>0, <1>5, <1>6, ServerStep DEF ClientInv
<1>8. \A m \in Nonces : record'[m].deployment # None => record[m].deployment # None \/ Remembered(m)
  BY <1>0, <1>3, <1>4, PreparesChanges, EndsChanges, BeginsChanges
<1>9. OnlyApprovedRuns'
  <2>1. CASE ~(p.pc = "start" /\ Begins(n))
    BY <1>0, <1>4, <1>7, <2>1, PreparesChanges, EndsChanges, ApprovedKept DEF local
  <2>2. CASE p.pc = "start" /\ Begins(n)
    <3> SUFFICES ASSUME NEW m \in Nonces, m \notin history'.manual, record'[m].executed
                 PROVE  record'[m].deployment = Policy
      BY DEF OnlyApprovedRuns
    <3>1. record'[m].deployment = record[m].deployment
      BY <1>0, <2>2, BeginsChanges
    <3>2. CASE m = n
      <4>1. p.approved = Policy
        BY <1>0, <1>1, <1>2, <2>2, <3>2 DEF Entitled, Program
      <4>2. p.job.deployment = Policy /\ Policy # None
        BY <1>2, <2>2, <4>1, ClientAssumption DEF Entitled
      <4> QED BY <1>1, <1>2, <3>1, <3>2, <4>2 DEF Knows
    <3>3. CASE m # n
      <4>1. record[m].executed
        BY <1>0, <2>2, <3>3, BeginsChanges
      <4> QED BY <1>0, <3>1, <4>1 DEF ClientInv, OnlyApprovedRuns
    <3> QED BY <3>2, <3>3
  <2> QED BY <2>1, <2>2
<1>10. /\ prog'[c] \in Program /\ Truthful(prog[c])'
       /\ prog'[c].pc = p.pc /\ prog'[c].file = p.file
       /\ prog'[c].approved = p.approved /\ prog'[c].job = p.job
  <2>1. CASE Accepted(p.pc, n) /\ prog' = [prog EXCEPT ![c].reply = Answer(n)']
    <3>1. prog'[c] = [p EXCEPT !.reply = Answer(n)']
      BY <1>0, <2>1 DEF TypeOK
    <3>2. prog'[c] \in Program /\ Truthful(prog[c])'
      BY <1>0, <1>1, <1>7, <2>1, <3>1, AnswerTrue
    <3> DEFINE r == Answer(n)'
    <3>3. prog'[c] = [p EXCEPT !.reply = r]
      BY <3>1
    <3> HIDE DEF r
    <3> QED BY <1>0, <3>2, <3>3 DEF Program
  <2>2. CASE prog' = [prog EXCEPT ![c].reply = Refusal]
    <3>1. prog'[c] = [p EXCEPT !.reply = Refusal]
      BY <1>0, <2>2 DEF TypeOK
    <3>2. /\ prog'[c] \in Program /\ prog'[c].reply = Refusal
          /\ prog'[c].pc = p.pc /\ prog'[c].file = p.file
          /\ prog'[c].approved = p.approved /\ prog'[c].job = p.job
      BY <1>0, <3>1 DEF Program
    <3> QED BY <3>2 DEF Truthful, Refusal
  <2> QED BY <1>1, <2>1, <2>2
<1>11. \A d \in Clients : d # c => prog'[d] = prog[d]
  BY <1>0, <1>1 DEF TypeOK
<1>12. prog' \in [Clients -> {None} \cup Program]
  BY <1>0, <1>1, <1>10, <1>11 DEF TypeOK
<1>13. ASSUME NEW d \in Clients, ~Idle(d)', d # c
       PROVE  prog'[d] = prog[d] /\ Truthful(prog[d])'
  <2>1. prog[d] \in Program /\ Truthful(prog[d]) /\ prog'[d] = prog[d]
    BY <1>0, <1>11, <1>13 DEF ClientInv, TypeOK, Idle
  <2> QED BY <1>7, <2>1, ClientAssumption, AnswerKept
<1>14. ASSUME NEW d \in Clients, prog[d] = None
       PROVE  prog'[d] = None
  BY <1>0, <1>11, <1>14 DEF Idle
<1> HIDE DEF p
<1>15. \A d \in Clients : ~Idle(d)' =>
               /\ prog'[d].pc = prog[d].pc /\ prog'[d].file = prog[d].file
               /\ prog'[d].approved = prog[d].approved /\ prog'[d].job = prog[d].job
               /\ Truthful(prog[d])'
  BY <1>10, <1>13 DEF p
<1> QED BY <1>0, <1>7, <1>8, <1>9, <1>12, <1>14, <1>15, ServiceStep

-----------------------------------------------------------------------------
(* The programs. *)

\* While a program does something the service does nothing.
LEMMA ServiceRests ==
    ASSUME ClientInv, UNCHANGED server
    PROVE  Advanced
PROOF
<1>1. ServerType
  BY DEF ClientInv, TypeOK
<1>2. service' \in [deployment : Deployments, beating : BOOLEAN]
  BY <1>1 DEF server, ServerType
<1> QED BY <1>1, <1>2, ServerStep DEF ClientInv, Moves, server

\* What the state of a program has to be like.
Proper(next) ==
    /\ next \in Program
    /\ next.job.deployment = None <=> next.pc \in {"pending", "submit"}
    /\ Knows(next.job) /\ Truthful(next)

\* A program that leaves the files as they are.
LEMMA ProgramStep ==
    ASSUME ClientInv, NEW c \in Clients, NEW next,
           UNCHANGED <<server, local>>,
           history' \in [drawn : SUBSET Nonces, manual : SUBSET Nonces],
           history.drawn \subseteq history'.drawn, history.manual \subseteq history'.manual,
           prog' = [prog EXCEPT ![c] = next],
           \/ next = None
           \/ /\ Proper(next)
              /\ next.approved # None /\ next.pc \notin {"pending", "submit", "keep"} =>
                    next.job.deployment = next.approved
              /\ next.approved = None /\ next.pc = "start" => next.job.nonce \in history'.manual
              /\ \/ /\ next.pc = "pending" /\ files[next.file] = None /\ Idle(c)
                    /\ next.job.nonce \in history'.drawn
                    /\ \A d \in Clients : ~Idle(d) => prog[d].file # next.file
                 \/ /\ next.pc # "pending" /\ files[next.file] # None
                    /\ files[next.file].nonce = next.job.nonce
    PROVE  ClientInv'
PROOF
<1>0. /\ TypeOK /\ Advanced /\ UNCHANGED <<stage, runs, record, service, files, output, result>>
      /\ c \in DOMAIN prog
  BY ServiceRests DEF ClientInv, server, local, TypeOK
<1>1. prog'[c] = next /\ \A d \in Clients : d # c => prog'[d] = prog[d]
  BY <1>0 DEF TypeOK
<1>2. TypeOK'
  <2>1. prog' \in [Clients -> {None} \cup Program]
    BY <1>0, <1>1 DEF TypeOK, Proper
  <2>2. ASSUME NEW d \in Clients, ~Idle(d)'
        PROVE  prog'[d].job.deployment = None <=> prog'[d].pc \in {"pending", "submit"}
    BY <1>0, <1>1, <2>2 DEF TypeOK, Proper, Idle
  <2> QED BY <1>0, <2>1, <2>2 DEF TypeOK, Advanced, Saved
<1>3. ASSUME NEW n \in Nonces PROVE InStep(n)'
  BY <1>0 DEF Advanced, Forward
<1>4. ASSUME NEW n \in Nonces, record'[n].deployment # None
      PROVE  \E f \in Files : files'[f] # None /\ files'[f].nonce = n
  BY <1>0, <1>4 DEF ClientInv
<1>5. ASSUME NEW f \in Files, files'[f] # None
      PROVE  Knows(files[f])'
  <2>1. files[f] \in JobFile /\ Knows(files[f]) /\ files'[f] = files[f]
    BY <1>0, <1>5 DEF ClientInv, TypeOK
  <2> QED BY <1>0, <2>1, FileKnows
<1>6. ASSUME NEW d \in Clients, d # c, ~Idle(d)'
      PROVE  Knows(prog[d].job)' /\ Truthful(prog[d])' /\ OnFile(d)' /\ Entitled(prog[d])'
  <2>1. ~Idle(d) /\ prog[d] \in Program /\ prog'[d] = prog[d]
    BY <1>0, <1>1, <1>6 DEF Idle, TypeOK
  <2>2. /\ prog[d].job \in JobFile /\ Knows(prog[d].job) /\ Truthful(prog[d]) /\ OnFile(d)
        /\ Entitled(prog[d])
    BY <2>1 DEF ClientInv, Program
  <2>3. Knows(prog[d].job)'
    BY <1>0, <2>1, <2>2, ProgramKnows
  <2>4. Truthful(prog[d])'
    BY <1>0, <2>1, <2>2, ClientAssumption, AnswerKept
  <2>5. Entitled(prog[d])'
    BY <2>1, <2>2 DEF Entitled
  <2>6. OnFile(d)'
    <3>1. CASE prog[d].pc # "pending"
      BY <1>0, <2>1, <2>2, <3>1 DEF OnFile
    <3>2. CASE prog[d].pc = "pending"
      <4>1. /\ files[prog[d].file] = None /\ prog[d].job.nonce \in history.drawn
            /\ \A e \in Clients \ {d} : ~Idle(e) => prog[e].file # prog[d].file
        BY <2>2, <3>2 DEF OnFile
      <4>2. next # None => next.file # prog[d].file
        BY <2>1, <4>1 DEF Proper
      <4>3. \A e \in Clients \ {d} : ~Idle(e)' => prog'[e].file # prog[d].file
        BY <1>1, <4>1, <4>2 DEF Idle
      <4> QED BY <1>0, <2>1, <3>2, <4>1, <4>3 DEF OnFile
    <3> QED BY <3>1, <3>2
  <2> QED BY <2>3, <2>4, <2>5, <2>6
<1>7. ASSUME next # None
      PROVE  Knows(prog[c].job)' /\ Truthful(prog[c])' /\ OnFile(c)' /\ Entitled(prog[c])'
  <2>1. Proper(next) /\ next.job \in JobFile /\ next \in Program
    BY <1>7 DEF Proper, Program
  <2>2. Knows(prog[c].job)'
    BY <1>0, <1>1, <2>1, ProgramKnows DEF Proper
  <2>3. Truthful(prog[c])'
    BY <1>0, <1>1, <2>1, ClientAssumption, AnswerKept DEF Proper
  <2>4. Entitled(prog[c])'
    BY <1>1, <1>7 DEF Entitled
  <2>5. OnFile(c)'
    <3>1. CASE next.pc # "pending"
      BY <1>0, <1>1, <1>7, <3>1 DEF OnFile
    <3>2. CASE next.pc = "pending"
      <4>1. \A e \in Clients \ {c} : ~Idle(e)' => prog'[e].file # next.file
        BY <1>1, <1>7, <3>2 DEF Idle
      <4> QED BY <1>0, <1>1, <1>7, <3>2, <4>1 DEF OnFile
    <3> QED BY <3>1, <3>2
  <2> QED BY <2>2, <2>3, <2>4, <2>5
<1>8. /\ EvidenceTrue'
      /\ \A f \in Files : \A e \in {output'[f], result'[f]} \ {None} :
            files'[f] # None /\ e.outcome # None
  BY <1>0, EvidenceKept DEF FilesKept
<1>9. OnlyApprovedRuns'
  BY <1>0, ApprovedKept
<1>10. \A d \in Clients : ~Idle(d)' =>
        Knows(prog[d].job)' /\ Truthful(prog[d])' /\ OnFile(d)' /\ Entitled(prog[d])'
  BY <1>1, <1>6, <1>7 DEF Idle
<1> QED BY <1>2, <1>3, <1>4, <1>5, <1>8, <1>9, <1>10 DEF ClientInv

LEMMA NewRequestStep ==
    ASSUME ClientInv, NEW c \in Clients, NEW f \in Files, NEW a \in {None, Policy},
           NewRequest(c, f, a)
    PROVE  ClientInv'
PROOF
<1>1. PICK n \in Nonces :
        /\ Run(c, f, a, "pending", JobOf(n))
        /\ history' = [history EXCEPT !.drawn = @ \cup {n}]
  BY DEF NewRequest
<1> DEFINE next == [pc |-> "pending", file |-> f, approved |-> a, job |-> JobOf(n), reply |-> None]
<1>2. TypeOK /\ Idle(c) /\ Unused(f) /\ UNCHANGED <<server, local>>
  BY DEF ClientInv, NewRequest
<1>3. /\ JobOf(n) \in JobFile /\ JobOf(n).nonce = n /\ JobOf(n).deployment = None
      /\ ~JobOf(n).executed
  BY DEF JobOf, JobFile
<1>4. /\ next \in Program /\ next.job = JobOf(n) /\ next.reply = None /\ next.pc = "pending"
      /\ next.file = f
  BY <1>3 DEF Program
<1>5. prog' = [prog EXCEPT ![c] = next]
  BY <1>1 DEF Run
<1> HIDE DEF next
<1>6. Proper(next)
  BY <1>3, <1>4 DEF Proper, Knows, Truthful
<1>7. /\ history' \in [drawn : SUBSET Nonces, manual : SUBSET Nonces]
      /\ history.drawn \subseteq history'.drawn /\ history.manual \subseteq history'.manual
      /\ n \in history'.drawn
  BY <1>1, <1>2 DEF TypeOK
<1> QED BY <1>2, <1>3, <1>4, <1>5, <1>6, <1>7, ProgramStep DEF Unused

\* A command on the content of a job file.
LEMMA CommandStep ==
    ASSUME ClientInv, NEW c \in Clients, NEW f \in Files,
           SubmitAgain(c, f) \/ \E op \in Calls \ {"submit"} : Command(c, f, op)
    PROVE  ClientInv'
PROOF
<1>1. /\ TypeOK /\ Idle(c) /\ files[f] # None /\ UNCHANGED <<server, local>>
      /\ files[f] \in JobFile /\ Knows(files[f])
  <2>1. TypeOK /\ Idle(c) /\ files[f] # None /\ UNCHANGED <<server, local>>
    BY DEF ClientInv, SubmitAgain, Command, IsPending
  <2> QED BY <2>1 DEF ClientInv, TypeOK
<1>2. PICK op \in Calls :
        /\ Run(c, f, None, op, files[f])
        /\ op = "submit" <=> IsPending(f)
        /\ history' = IF op = "start"
                      THEN [history EXCEPT !.manual = @ \cup {files[f].nonce}] ELSE history
  <2>1. CASE SubmitAgain(c, f)
    BY <2>1 DEF SubmitAgain, Calls
  <2>2. CASE \E op \in Calls \ {"submit"} : Command(c, f, op)
    BY <2>2 DEF Command
  <2> QED BY <2>1, <2>2
<1> DEFINE next == [pc |-> op, file |-> f, approved |-> None, job |-> files[f], reply |-> None]
<1>3. /\ next \in Program /\ next.job = files[f] /\ next.reply = None /\ next.pc = op
      /\ next.file = f /\ next.approved = None
  BY <1>1 DEF Program
<1>4. prog' = [prog EXCEPT ![c] = next]
  BY <1>2 DEF Run
<1> HIDE DEF next
<1>5. op # "pending" /\ op # "keep" /\ op # "keep started"
  BY DEF Calls
<1>6. Proper(next)
  BY <1>1, <1>2, <1>3, <1>5 DEF Proper, Truthful, IsPending
<1>7. /\ history' \in [drawn : SUBSET Nonces, manual : SUBSET Nonces]
      /\ history.drawn \subseteq history'.drawn /\ history.manual \subseteq history'.manual
      /\ op = "start" => files[f].nonce \in history'.manual
  BY <1>1, <1>2 DEF TypeOK, JobFile
<1> QED BY <1>1, <1>3, <1>4, <1>5, <1>6, <1>7, ProgramStep

LEMMA GiveUpStep ==
    ASSUME ClientInv, NEW c \in Clients, Exit(c), UNCHANGED <<server, local, history>>
    PROVE  ClientInv'
PROOF
<1>1. history' \in [drawn : SUBSET Nonces, manual : SUBSET Nonces]
  BY DEF ClientInv, TypeOK
<1> QED BY <1>1, ProgramStep DEF Exit

\* What is so of a program that runs.
LEMMA RunningProgram ==
    ASSUME ClientInv, NEW c \in Clients, ~Idle(c)
    PROVE  /\ Proper(prog[c]) /\ OnFile(c) /\ Entitled(prog[c])
           /\ prog[c].job \in JobFile /\ prog[c].file \in Files
           /\ prog[c].job.nonce \in Nonces /\ prog[c].approved \in {None, Policy}
           /\ history \in [drawn : SUBSET Nonces, manual : SUBSET Nonces]
PROOF
<1>1. prog[c] \in Program
  BY DEF ClientInv, TypeOK, Idle
<1>2. prog[c].job.deployment = None <=> prog[c].pc \in {"pending", "submit"}
  BY DEF ClientInv, TypeOK
<1>3. Knows(prog[c].job) /\ Truthful(prog[c]) /\ OnFile(c) /\ Entitled(prog[c])
  BY DEF ClientInv
<1>4. history \in [drawn : SUBSET Nonces, manual : SUBSET Nonces]
  BY DEF ClientInv, TypeOK
<1> QED BY <1>1, <1>2, <1>3, <1>4 DEF Proper, Program, JobFile

\* The next call of a program.
LEMMA GotoStep ==
    ASSUME ClientInv, NEW c \in Clients, ~Idle(c), NEW pc \in {"status", "results"},
           Goto(c, pc), prog[c].pc = "status", UNCHANGED <<server, local, history>>
    PROVE  ClientInv'
PROOF
<1> DEFINE p == prog[c]
           next == [p EXCEPT !.pc = pc, !.reply = None]
<1>1. Proper(p) /\ OnFile(c) /\ Entitled(p)
      /\ history \in [drawn : SUBSET Nonces, manual : SUBSET Nonces]
  BY RunningProgram
<1>2. /\ next \in Program /\ next.job = p.job /\ next.reply = None /\ next.pc = pc
      /\ next.file = p.file /\ next.approved = p.approved
  BY <1>1 DEF Proper, Program, Calls
<1>3. prog' = [prog EXCEPT ![c] = next]
  BY DEF Goto
<1> HIDE DEF next
<1>4. Proper(next)
  BY <1>1, <1>2 DEF Proper, Truthful
<1>5. next.approved # None => next.job.deployment = next.approved
  BY <1>1, <1>2 DEF Entitled
<1>6. files[next.file] # None /\ files[next.file].nonce = next.job.nonce
  BY <1>1, <1>2 DEF OnFile
<1> QED BY <1>1, <1>2, <1>3, <1>4, <1>5, <1>6, ProgramStep

LEMMA PolledStep ==
    ASSUME ClientInv, NEW c \in Clients, Polled(c)
    PROVE  ClientInv'
BY GotoStep, GiveUpStep DEF Polled, Answered

\* What an answer teaches a program.
LEMMA LearnStep ==
    ASSUME ClientInv, NEW c \in Clients, ~Idle(c), NEW pc \in {"keep", "keep started"},
           Answered(c, prog[c].pc), Learn(c, pc), UNCHANGED <<server, local, history>>,
           \/ prog[c].pc = "submit" /\ pc = "keep"
           \/ prog[c].pc = "start" /\ prog[c].reply.deployment = prog[c].job.deployment
    PROVE  ClientInv'
PROOF
<1> DEFINE p == prog[c]
           job == [p.job EXCEPT !.deployment = p.reply.deployment,
                                !.executed = p.reply.executed]
           next == [p EXCEPT !.pc = pc, !.reply = None, !.job = job]
<1>1. Proper(p) /\ OnFile(c) /\ Entitled(p) /\ p.job \in JobFile
      /\ history \in [drawn : SUBSET Nonces, manual : SUBSET Nonces]
  BY RunningProgram
<1>2. p.reply \in Answers
  <2>1. p.reply \in {None, Refusal} \cup Answers /\ p.reply # None /\ p.reply.ok
    BY <1>1 DEF Answered, Proper, Program
  <2>2. ~Refusal.ok
    BY DEF Refusal
  <2> HIDE DEF p
  <2> QED BY <2>1, <2>2
<1>3. /\ p.reply.deployment \in Deployments
      /\ p.reply.deployment = record[p.job.nonce].deployment
      /\ p.reply.executed \in BOOLEAN
      /\ p.reply.executed => record[p.job.nonce].executed
  BY <1>1, <1>2 DEF Answered, Proper, Truthful, Answers
<1>4. /\ job \in JobFile /\ job.nonce = p.job.nonce /\ job.deployment = p.reply.deployment
      /\ job.executed = p.reply.executed
  BY <1>1, <1>3 DEF JobFile
<1> HIDE DEF job
<1>5. /\ next \in Program /\ next.job = job /\ next.reply = None /\ next.pc = pc
      /\ next.file = p.file /\ next.approved = p.approved
  BY <1>1, <1>4 DEF Proper, Program
<1>6. prog' = [prog EXCEPT ![c] = next]
  <2>1. prog[c] \in Program /\ c \in DOMAIN prog
    BY <1>1 DEF Proper, ClientInv, TypeOK
  <2> QED BY <2>1 DEF Learn, Program, JobFile, job
<1> HIDE DEF next
<1>7. Proper(next)
  BY <1>3, <1>4, <1>5, ClientAssumption DEF Proper, Truthful, Knows
<1>8. next.pc # "keep" /\ next.approved # None => next.job.deployment = next.approved
  BY <1>1, <1>4, <1>5 DEF Entitled
<1>9. files[next.file] # None /\ files[next.file].nonce = next.job.nonce
  BY <1>1, <1>4, <1>5 DEF OnFile
<1>10. pc # "pending" /\ pc # "start"
  OBVIOUS
<1> QED BY <1>1, <1>5, <1>6, <1>7, <1>8, <1>9, <1>10, ProgramStep

GoesOn(c, pc) ==
    /\ Goto(c, pc)
    /\ pc = "start" => prog[c].approved = prog[c].job.deployment

\* A program saves its job and goes on or ends.
LEMMA SaveStep ==
    ASSUME ClientInv, NEW c \in Clients, ~Idle(c), NEW pc \in {"submit", "start", "status"},
           files' = [files EXCEPT ![prog[c].file] = prog[c].job],
           GoesOn(c, pc) \/ Exit(c),
           UNCHANGED <<server, output, result, history>>,
           \/ prog[c].pc = "pending" /\ pc = "submit"
           \/ prog[c].pc = "keep" /\ pc = "start"
           \/ prog[c].pc = "keep started" /\ pc = "status"
    PROVE  ClientInv'
PROOF
<1> DEFINE p == prog[c]
           next == IF GoesOn(c, pc) THEN [p EXCEPT !.pc = pc, !.reply = None] ELSE None
<1>1. /\ Proper(p) /\ OnFile(c) /\ Entitled(p) /\ p.job \in JobFile /\ p.file \in Files
      /\ p.job.nonce \in Nonces /\ p.approved \in {None, Policy} /\ TypeOK
      /\ history \in [drawn : SUBSET Nonces, manual : SUBSET Nonces]
  BY RunningProgram DEF ClientInv
<1>2. p.job # None /\ Knows(p.job)
  BY <1>1, ClientAssumption DEF Proper
<1>0. Advanced /\ UNCHANGED <<stage, runs, record, service, output, result, history>>
  BY ServiceRests DEF server
<1>3. prog' = [prog EXCEPT ![c] = next]
  BY DEF GoesOn, Goto, Exit
<1>4. prog'[c] = next /\ \A d \in Clients : d # c => prog'[d] = prog[d]
  BY <1>1, <1>3 DEF TypeOK
<1>5. next # None => /\ next \in Program /\ next.job = p.job /\ next.reply = None /\ next.pc = pc
                     /\ next.file = p.file /\ next.approved = p.approved /\ GoesOn(c, pc)
  BY <1>1 DEF Proper, Program, Calls
<1> HIDE DEF next
<1>6. next # None => Proper(next)
  BY <1>1, <1>2, <1>5 DEF Proper, Truthful
<1>7. /\ files'[p.file] = p.job /\ files' \in [Files -> {None} \cup JobFile]
      /\ \A f \in Files : f # p.file => files'[f] = files[f]
  BY <1>1 DEF TypeOK
<1>8. FilesKept
  <2> SUFFICES ASSUME NEW f \in Files, files[f] # None
               PROVE  files'[f] # None /\ files'[f].nonce = files[f].nonce
    BY DEF FilesKept
  <2>1. CASE f # p.file
    BY <1>7, <2>1
  <2>2. CASE f = p.file
    BY <1>1, <1>2, <1>7, <2>2 DEF OnFile
  <2> QED BY <2>1, <2>2
<1>9. ASSUME NEW f \in Files, files'[f] # None
      PROVE  Knows(files[f])' /\ files'[f].nonce \in history'.drawn
  <2>1. CASE f # p.file
    <3>1. files[f] \in JobFile /\ Knows(files[f]) /\ files'[f] = files[f]
          /\ files[f].nonce \in history.drawn
      BY <1>7, <1>9, <2>1 DEF ClientInv, TypeOK
    <3> QED BY <1>0, <3>1, FileKnows
  <2>2. CASE f = p.file
    <3>1. Knows(files[f])'
      BY <1>0, <1>1, <1>2, <1>7, <2>2, FileKnows
    <3>2. p.job.nonce \in history.drawn
      <4>1. CASE p.pc = "pending"
        BY <1>1, <4>1 DEF OnFile
      <4>2. CASE p.pc # "pending"
        BY <1>1, <4>2 DEF OnFile, TypeOK
      <4> QED BY <4>1, <4>2
    <3> QED BY <1>0, <1>7, <2>2, <3>1, <3>2
  <2> QED BY <2>1, <2>2
<1>10. TypeOK'
  <2>1. prog' \in [Clients -> {None} \cup Program]
    BY <1>1, <1>3, <1>5 DEF TypeOK
  <2>2. ASSUME NEW d \in Clients, ~Idle(d)'
        PROVE  prog'[d].job.deployment = None <=> prog'[d].pc \in {"pending", "submit"}
    BY <1>1, <1>4, <1>6, <2>2 DEF TypeOK, Proper, Idle
  <2> QED BY <1>0, <1>1, <1>7, <1>9, <2>1, <2>2 DEF TypeOK, Advanced, Saved
<1>11. ASSUME NEW n \in Nonces PROVE InStep(n)'
  BY <1>0 DEF Advanced, Forward
<1>12. ASSUME NEW n \in Nonces, record'[n].deployment # None
       PROVE  \E f \in Files : files'[f] # None /\ files'[f].nonce = n
  <2>1. PICK f \in Files : files[f] # None /\ files[f].nonce = n
    BY <1>0, <1>12 DEF ClientInv
  <2> QED BY <1>8, <2>1 DEF FilesKept
<1>13. ASSUME NEW d \in Clients, d # c, ~Idle(d)'
       PROVE  Knows(prog[d].job)' /\ Truthful(prog[d])' /\ OnFile(d)' /\ Entitled(prog[d])'
  <2>1. ~Idle(d) /\ prog[d] \in Program /\ prog'[d] = prog[d] /\ prog[d].file \in Files
    BY <1>1, <1>4, <1>13 DEF Idle, TypeOK, Program
  <2>2. /\ prog[d].job \in JobFile /\ Knows(prog[d].job) /\ Truthful(prog[d]) /\ OnFile(d)
        /\ Entitled(prog[d])
    BY <2>1 DEF ClientInv, Program
  <2>3. Knows(prog[d].job)'
    BY <1>0, <2>1, <2>2, ProgramKnows
  <2>4. Truthful(prog[d])'
    BY <1>0, <2>1, <2>2, ClientAssumption, AnswerKept
  <2>5. Entitled(prog[d])'
    BY <1>0, <2>1, <2>2 DEF Entitled
  <2>6. OnFile(d)'
    <3>1. CASE prog[d].pc # "pending"
      BY <1>8, <2>1, <2>2, <3>1 DEF OnFile, FilesKept
    <3>2. CASE prog[d].pc = "pending"
      <4>1. /\ files[prog[d].file] = None /\ prog[d].job.nonce \in history.drawn
            /\ \A e \in Clients \ {d} : ~Idle(e) => prog[e].file # prog[d].file
        BY <2>2, <3>2 DEF OnFile
      <4>2. p.file # prog[d].file
        BY <1>13, <4>1
      <4>3. next # None => next.file # prog[d].file
        BY <1>5, <4>2
      <4>4. \A e \in Clients \ {d} : ~Idle(e)' => prog'[e].file # prog[d].file
        BY <1>4, <4>1, <4>3 DEF Idle
      <4>5. files'[prog[d].file] = None
        BY <1>7, <2>1, <4>1, <4>2
      <4> QED BY <1>0, <2>1, <3>2, <4>1, <4>4, <4>5 DEF OnFile
    <3> QED BY <3>1, <3>2
  <2> QED BY <2>3, <2>4, <2>5, <2>6
<1>14. ASSUME next # None
       PROVE  Knows(prog[c].job)' /\ Truthful(prog[c])' /\ OnFile(c)' /\ Entitled(prog[c])'
  <2>1. Proper(next) /\ next.job \in JobFile /\ next \in Program
    BY <1>6, <1>14 DEF Proper, Program
  <2>2. Knows(prog[c].job)'
    BY <1>0, <1>4, <2>1, ProgramKnows DEF Proper
  <2>3. Truthful(prog[c])'
    BY <1>0, <1>4, <2>1, ClientAssumption, AnswerKept DEF Proper
  <2>4. Entitled(prog[c])'
    <3>1. p.pc = "pending" => next.pc = "submit"
      BY <1>5, <1>14
    <3>2. p.pc = "keep started" /\ next.approved # None => next.job.deployment = next.approved
      BY <1>1, <1>5, <1>14 DEF Entitled
    <3>3. p.pc = "keep" => next.approved # None /\ next.job.deployment = next.approved
      BY <1>1, <1>5, <1>14 DEF Proper, GoesOn
    <3>4. next.pc = "start" <=> p.pc = "keep"
      BY <1>5, <1>14
    <3> QED BY <1>4, <3>1, <3>2, <3>3, <3>4 DEF Entitled
  <2>5. OnFile(c)'
    BY <1>2, <1>4, <1>5, <1>7, <1>14 DEF OnFile
  <2> QED BY <2>2, <2>3, <2>4, <2>5
<1>15. /\ EvidenceTrue'
       /\ \A f \in Files : \A e \in {output'[f], result'[f]} \ {None} :
            files'[f] # None /\ e.outcome # None
  BY <1>0, <1>8, EvidenceKept
<1>16. OnlyApprovedRuns'
  BY <1>0, ApprovedKept
<1>17. \A d \in Clients : ~Idle(d)' =>
        Knows(prog[d].job)' /\ Truthful(prog[d])' /\ OnFile(d)' /\ Entitled(prog[d])'
  BY <1>4, <1>13, <1>14 DEF Idle
<1> QED BY <1>9, <1>10, <1>11, <1>12, <1>15, <1>16, <1>17 DEF ClientInv

LEMMA FetchedStep ==
    ASSUME ClientInv, NEW c \in Clients, Fetched(c)
    PROVE  ClientInv'
PROOF
<1> DEFINE p == prog[c]
           e == Evidence(p.job.nonce, p.reply)
<1>1. /\ ~Idle(c) /\ p.pc = "results" /\ p.reply # None /\ p.reply.ok
      /\ Exit(c) /\ UNCHANGED <<server, files, history>>
      /\ \/ /\ p.approved # None /\ output' = [output EXCEPT ![p.file] = e]
            /\ UNCHANGED result
         \/ /\ p.approved = None /\ result' = [result EXCEPT ![p.file] = e]
            /\ UNCHANGED output
  BY DEF Fetched, Answered
<1>2. /\ Proper(p) /\ OnFile(c) /\ Entitled(p) /\ p.job \in JobFile /\ p.file \in Files
      /\ p.job.nonce \in Nonces /\ p.approved \in {None, Policy} /\ TypeOK
      /\ history \in [drawn : SUBSET Nonces, manual : SUBSET Nonces]
  BY <1>1, RunningProgram DEF ClientInv
<1>3. /\ p.reply.deployment \in Deployments
      /\ p.reply.deployment = record[p.job.nonce].deployment
      /\ stage[p.job.nonce] \in {"ended", "archived"}
      /\ p.reply.outcome = record[p.job.nonce].outcome /\ p.reply.outcome # None
  BY <1>1, <1>2 DEF Proper, Truthful
<1>4. record[p.job.nonce] \in Record /\ InStep(p.job.nonce)
  BY <1>2, JobType DEF TypeOK, ClientInv
<1>5. /\ e.nonce = p.job.nonce /\ e.deployment = p.reply.deployment
      /\ e.outcome = p.reply.outcome
      /\ e \in [nonce : Nonces, deployment : Deployments \cup {None},
                outcome : Outcomes \cup {None}]
      /\ e = Evidence(e.nonce, record[e.nonce])
  BY <1>2, <1>3, <1>4 DEF Evidence, Record
<1> HIDE DEF e
<1>6. p.approved # None => e.deployment = Policy
  <2>1. p.approved # None => p.job.deployment = Policy
    BY <1>1, <1>2 DEF Entitled
  <2>2. p.job.deployment # None => record[p.job.nonce].deployment = p.job.deployment
    BY <1>2 DEF Proper, Knows
  <2> QED BY <1>3, <1>5, <2>1, <2>2, ClientAssumption
<1>7. e.outcome = "completed" => runs[e.nonce] = 1
  BY <1>3, <1>4, <1>5 DEF InStep
<1>8. /\ files[p.file] # None /\ files[p.file].nonce = e.nonce
      /\ stage[e.nonce] \in {"ended", "archived"} /\ e.outcome # None
  BY <1>1, <1>2, <1>3, <1>5 DEF OnFile
<1>0. Advanced /\ UNCHANGED <<stage, runs, record, service, files, history>>
  BY <1>1, ServiceRests DEF server
<1>9. /\ output' \in Saved /\ result' \in Saved
      /\ \A f \in Files : output'[f] = output[f] \/ (f = p.file /\ output'[f] = e /\ p.approved # None)
      /\ \A f \in Files : result'[f] = result[f] \/ (f = p.file /\ result'[f] = e)
  BY <1>1, <1>2, <1>5 DEF TypeOK, Saved
<1>10. /\ prog'[c] = None /\ \A d \in Clients : d # c => prog'[d] = prog[d]
       /\ prog' \in [Clients -> {None} \cup Program]
  BY <1>1, <1>2 DEF TypeOK, Exit
<1>11. TypeOK'
  BY <1>0, <1>2, <1>9, <1>10 DEF TypeOK, Advanced, Idle
<1>12. ASSUME NEW n \in Nonces PROVE InStep(n)'
  BY <1>0 DEF Advanced, Forward
<1>13. ASSUME NEW f \in Files, files'[f] # None
       PROVE  Knows(files[f])'
  <2>1. files[f] \in JobFile /\ Knows(files[f]) /\ files'[f] = files[f]
    BY <1>0, <1>2, <1>13 DEF ClientInv, TypeOK
  <2> QED BY <1>0, <2>1, FileKnows
<1>14. ASSUME NEW d \in Clients, ~Idle(d)'
       PROVE  Knows(prog[d].job)' /\ Truthful(prog[d])' /\ OnFile(d)' /\ Entitled(prog[d])'
  <2>1. d # c /\ ~Idle(d) /\ prog[d] \in Program /\ prog'[d] = prog[d]
    BY <1>2, <1>10, <1>14 DEF Idle, TypeOK
  <2>2. /\ prog[d].job \in JobFile /\ Knows(prog[d].job) /\ Truthful(prog[d]) /\ OnFile(d)
        /\ Entitled(prog[d])
    BY <2>1 DEF ClientInv, Program
  <2>3. Knows(prog[d].job)'
    BY <1>0, <2>1, <2>2, ProgramKnows
  <2>4. Truthful(prog[d])'
    BY <1>0, <2>1, <2>2, ClientAssumption, AnswerKept
  <2>5. Entitled(prog[d])'
    BY <1>0, <2>1, <2>2 DEF Entitled
  <2>6. OnFile(d)'
    <3>1. CASE prog[d].pc # "pending"
      BY <1>0, <2>1, <2>2, <3>1 DEF OnFile
    <3>2. CASE prog[d].pc = "pending"
      <4>1. \A b \in Clients \ {d} : ~Idle(b)' => prog'[b].file # prog[d].file
        BY <1>10, <2>2, <3>2 DEF OnFile, Idle
      <4> QED BY <1>0, <2>1, <2>2, <3>2, <4>1 DEF OnFile
    <3> QED BY <3>1, <3>2
  <2> QED BY <2>3, <2>4, <2>5, <2>6
<1>15. ASSUME NEW f \in Files, NEW x \in {output'[f], result'[f]} \ {None}
       PROVE  /\ files'[f] # None /\ x.outcome # None
              /\ files'[f].nonce = x.nonce
              /\ stage'[x.nonce] \in {"ended", "archived"}
              /\ x = Evidence(x.nonce, record[x.nonce])'
              /\ x.outcome = "completed" => runs'[x.nonce] = 1
              /\ x = output'[f] => x.deployment = Policy
  <2>1. CASE x = e /\ f = p.file
    <3>1. x = output'[f] => x.deployment = Policy
      <4>1. CASE output'[f] = output[f]
        <5>1. x = output[f] /\ x # None => x.deployment = Policy
          BY DEF ClientInv, EvidenceTrue
        <5> QED BY <1>15, <4>1, <5>1
      <4>2. CASE p.approved # None
        BY <1>6, <2>1, <4>2
      <4> QED BY <1>9, <4>1, <4>2
    <3>2. x = Evidence(x.nonce, record[x.nonce])'
      BY <1>0, <1>5, <2>1 DEF Evidence
    <3> QED BY <1>0, <1>7, <1>8, <2>1, <3>1, <3>2
  <2>2. CASE x \in {output[f], result[f]} \ {None}
    <3>1. /\ files[f] # None /\ x.outcome # None
          /\ files[f].nonce = x.nonce
          /\ stage[x.nonce] \in {"ended", "archived"}
          /\ x = Evidence(x.nonce, record[x.nonce])
          /\ x.outcome = "completed" => runs[x.nonce] = 1
          /\ x = output[f] => x.deployment = Policy
      BY <2>2 DEF ClientInv, EvidenceTrue
    <3>2. x = Evidence(x.nonce, record[x.nonce])'
      BY <1>0, <3>1 DEF Evidence
    <3>3. x = output'[f] => x.deployment = Policy
      BY <1>6, <1>9, <3>1
    <3> QED BY <1>0, <3>1, <3>2, <3>3
  <2> QED BY <1>9, <1>15, <2>1, <2>2
<1>16. OnlyApprovedRuns'
  BY <1>0, ApprovedKept
<1>17. EvidenceTrue'
  BY <1>15 DEF EvidenceTrue, Evidence
<1>18. \A n \in Nonces : record'[n].deployment # None =>
            \E f \in Files : files'[f] # None /\ files'[f].nonce = n
  BY <1>0 DEF ClientInv
<1> QED BY <1>11, <1>12, <1>13, <1>14, <1>15, <1>16, <1>17, <1>18 DEF ClientInv

-----------------------------------------------------------------------------
(* The invariant. *)

LEMMA StepKeeps ==
    ASSUME ClientInv, NEW c \in Clients, Begin(c) \/ Step(c)
    PROVE  ClientInv'
PROOF
<1>1. ASSUME NEW f \in Files, NewRequest(c, f, None) \/ NewRequest(c, f, Policy)
      PROVE  ClientInv'
  BY <1>1, NewRequestStep
<1>2. ASSUME NEW f \in Files, SubmitAgain(c, f) \/ \E op \in Calls \ {"submit"} : Command(c, f, op)
      PROVE  ClientInv'
  BY <1>2, CommandStep
<1>3. CASE SavePending(c)
  BY <1>3, SaveStep DEF SavePending, GoesOn
<1>4. CASE Keep(c)
  BY <1>4, SaveStep DEF Keep, GoesOn
<1>5. CASE KeepStarted(c)
  BY <1>5, SaveStep DEF KeepStarted, GoesOn
<1>6. CASE Submitted(c)
  BY <1>6, LearnStep DEF Submitted, Answered
<1>7. CASE Started(c)
  BY <1>7, LearnStep DEF Started, Answered, Bound
<1>8. CASE Polled(c)
  BY <1>8, PolledStep
<1>9. CASE Fetched(c)
  BY <1>9, FetchedStep
<1>10. CASE CancelAnswered(c) \/ GiveUp(c)
  BY <1>10, GiveUpStep DEF CancelAnswered, GiveUp
<1> QED BY <1>1, <1>2, <1>3, <1>4, <1>5, <1>6, <1>7, <1>8, <1>9, <1>10 DEF Begin, Step

LEMMA InitInv == Init => ClientInv
PROOF
<1> SUFFICES ASSUME Init PROVE ClientInv
  OBVIOUS
<1>1. ServerType
  <2>1. Nothing \in Record
    BY DEF Nothing, Record
  <2> QED BY <2>1 DEF Init, ServiceInit, LifeInit, ServerType, Stages
<1>2. TypeOK
  BY <1>1 DEF Init, TypeOK, Saved, Idle
<1> QED BY <1>2, ClientAssumption
    DEF Init, ServiceInit, LifeInit, Nothing, ClientInv, InStep, Idle, OnlyApprovedRuns, EvidenceTrue

LEMMA NextInv == ClientInv /\ [Next]_vars => ClientInv'
PROOF
<1> SUFFICES ASSUME ClientInv, [Next]_vars PROVE ClientInv'
  OBVIOUS
<1>1. ASSUME NEW c \in Clients, Begin(c) \/ Step(c) \/ Serve(c)
      PROVE  ClientInv'
  BY <1>1, StepKeeps, ServeStep
<1>2. CASE Meanwhile
  BY <1>2, WorkerStep, ServiceChangesStep, RotateStep DEF Meanwhile
<1>3. CASE UNCHANGED vars
  <2>1. Advanced /\ UNCHANGED <<server, local, prog, history>>
    BY <1>3, ServiceRests DEF vars
  <2> QED BY <2>1, UnseenStep DEF server
<1> QED BY <1>1, <1>2, <1>3 DEF Next

\* In every behaviour of the programs and the service, what a job file, a program,
\* an answer on its way or saved evidence says of a job is so (validation_client.py).
THEOREM ClientInvariant == Spec => []ClientInv
PROOF
<1>1. Init => ClientInv
  BY InitInv
<1>2. ClientInv /\ [Next]_vars => ClientInv'
  BY NextInv
<1> QED BY <1>1, <1>2, PTL DEF Spec

\* The service, the files and the programs are always of their types.
THEOREM TypeCorrect == Spec => []TypeOK
PROOF
<1>1. ClientInv => TypeOK
  BY DEF ClientInv
<1> QED BY <1>1, ClientInvariant, PTL

\* Every job the service has accepted is named by a job file, whatever was lost or
\* killed (run_fixture and submit save the nonce first).
THEOREM AcceptedRemembered == Spec => []JobRemembered
PROOF
<1>1. ClientInv => JobRemembered
  BY ClientAssumption DEF ClientInv, InStep, JobRemembered
<1> QED BY <1>1, ClientInvariant, PTL

\* What nobody started by hand runs under the policy run_fixture was given.
THEOREM Approved == Spec => []OnlyApprovedRuns
PROOF
<1>1. ClientInv => OnlyApprovedRuns
  BY DEF ClientInv
<1> QED BY <1>1, ClientInvariant, PTL

\* Saved evidence is how the job of the file beside it ended, and stays so.
THEOREM EvidenceIsTrue == Spec => []EvidenceTrue
PROOF
<1>1. ClientInv => EvidenceTrue
  BY DEF ClientInv
<1> QED BY <1>1, ClientInvariant, PTL

-----------------------------------------------------------------------------
(* What the client believes. *)

\* Whatever a fixture of a kind may leave behind is what operate expects of it.
LEMMA FixtureBelieved ==
    ASSUME NEW kind \in Kinds, NEW outcome \in Outcomes,
           NEW a \in CompleteFixture(kind, outcome)
    PROVE  Believable(kind, outcome, a)
PROOF
<1> USE DEF Native
<1>1. CASE kind \in Native /\ outcome = "completed"
  <2>1. (kind = "diagnostic" /\ a = None) \/ (kind = "device" /\ a = Probe)
    BY <1>1 DEF CompleteFixture, Native
  <2> QED BY <1>1, <2>1, EvidenceAssumption DEF Believable, ExpectedNames
<1>2. CASE kind \in Native /\ outcome # "completed"
  <2>1. a = None \/ a \subseteq Probe
    BY <1>2 DEF CompleteFixture, Probe
  <2> QED BY <1>2, <2>1 DEF Believable, ExpectedNames
<1>3. CASE kind \in UnityDraws /\ outcome = "completed"
  <2>1. a = DrawFiles(kind) /\ a # None
    BY <1>3, EvidenceAssumption DEF CompleteFixture, CompletedUnityDraw, UnityDraws
  <2>2. kind \notin Native
    BY <1>3 DEF UnityDraws
  <2> QED BY <1>3, <2>1, <2>2 DEF Believable, ExpectedNames
<1>4. CASE kind \in UnityDraws /\ outcome # "completed"
  <2>1. a = None \/ a = Startup
    BY <1>4 DEF CompleteFixture, UnityDraws
  <2>2. kind \notin Native
    BY <1>4 DEF UnityDraws
  <2> QED BY <1>4, <2>1, <2>2 DEF Believable, ExpectedNames
<1>5. CASE kind = "unity-startup"
  <2>1. a = Startup \/ (a = None /\ outcome # "completed")
    BY <1>5 DEF CompleteFixture
  <2> QED BY <1>5, <2>1, EvidenceAssumption DEF Believable, ExpectedNames, UnityDraws
<1> QED BY <1>1, <1>2, <1>3, <1>4, <1>5 DEF Kinds

\* The client never turns down what the service answers about a job: its checks
\* agree with what submit, start and results return, for every kind of fixture.
THEOREM AnswersBelieved == Spec => []ServiceBelieved
PROOF
<1>1. ClientInv => ServiceBelieved
  <2> SUFFICES ASSUME ClientInv, NEW c \in Clients, NEW op \in Calls \ {"submit"},
                      Answered(c, op)
               PROVE  /\ Bound(prog[c].job, prog[c].reply)
                      /\ op = "results" =>
                            \A kind \in Kinds :
                                \A a \in CompleteFixture(kind, prog[c].reply.outcome) :
                                    Believable(kind, prog[c].reply.outcome, a)
    BY DEF ServiceBelieved
  <2> DEFINE p == prog[c]
  <2>1. ~Idle(c) /\ p.pc = op /\ p.reply # None /\ p.reply.ok
    BY DEF Answered
  <2>2. Proper(p) /\ p.job \in JobFile
    BY <2>1, RunningProgram
  <2>3. p.job.deployment # None
    BY <2>1, <2>2 DEF Proper, Calls
  <2>4. Bound(p.job, p.reply)
    BY <2>1, <2>2, <2>3 DEF Proper, Knows, Truthful, Bound
  <2>5. op = "results" => p.reply.outcome \in Outcomes
    <3>1. op = "results" => p.reply.outcome # None
      BY <2>1, <2>2 DEF Proper, Truthful
    <3>2. p.reply \in {None, Refusal} \cup Answers
      BY <2>2 DEF Proper, Program
    <3>3. ~Refusal.ok
      BY DEF Refusal
    <3> HIDE DEF p
    <3>4. p.reply \in Answers
      BY <2>1, <3>2, <3>3
    <3> QED BY <3>1, <3>4 DEF Answers
  <2> QED BY <2>4, <2>5, FixtureBelieved
<1> QED BY <1>1, ClientInvariant, PTL
-----------------------------------------------------------------------------
(* The service among its clients. *)

\* Each call, whoever makes it and whether its answer arrives or not, is a step of
\* the service (JobService) or none, and so is what happens meanwhile.
THEOREM ClientsUseService == Spec => ServiceSpec
PROOF
<1>1. Init => ServiceInit
  BY DEF Init
<1>2. [Next]_vars => [ServiceNext]_server
  <2>1. ASSUME NEW c \in Clients, Begin(c) \/ Step(c)
        PROVE  UNCHANGED server
    BY <2>1 DEF Begin, NewRequest, SubmitAgain, Command, Step, SavePending, Submitted, Keep,
       Started, KeepStarted, Polled, Fetched, CancelAnswered, GiveUp
  <2>2. ASSUME NEW c \in Clients, Serve(c)
        PROVE  [ServiceNext]_server
    BY <2>2 DEF Serve, Refused, ServiceNext
  <2>3. Meanwhile => ServiceNext
    BY DEF Meanwhile, ServiceNext
  <2>4. UNCHANGED vars => UNCHANGED server
    BY DEF vars
  <2> QED BY <2>1, <2>2, <2>3, <2>4 DEF Next
<1> QED BY <1>1, <1>2, PTL DEF Spec, ServiceSpec

\* Whatever its clients call and whoever dies, each request passes its stages in
\* order and is executed at most once: the service refines JobLifecycle.
THEOREM ServiceImplementsLifecycle == ServiceSpec => LifeSpec
PROOF
<1>1. ServiceInit => LifeInit
  BY DEF ServiceInit
<1>2. ASSUME [ServiceNext]_server
      PROVE  [LifeNext]_(life)
  <2> DEFINE Maps == [LifeNext]_(life)
  <2>1. UNCHANGED <<stage, runs>> => Maps
    BY DEF life
  <2>2. ASSUME NEW n \in Nonces,
               Accept(n) \/ Start(n) \/ Claim(n) \/ Execute(n) \/ End(n)
        PROVE  Maps
    BY <2>2 DEF LifeNext
  <2>3. \A S \in SUBSET Nonces : Archive(S) => Maps
    BY DEF LifeNext
  <2> HIDE DEF Maps
  <2>4. ASSUME NEW n \in Nonces, NEW op \in Calls, Accepted(op, n)
        PROVE  Maps
    BY <2>1, <2>2, <2>4 DEF Accepted, Submits, Starts, Cancels, Repeats, Ends
  <2>5. ASSUME NEW n \in Nonces, WorkerClaims(n) \/ WorkerRuns(n) \/ JobEnds(n) \/ Dies(n)
        PROVE  Maps
    BY <2>1, <2>2, <2>5 DEF WorkerClaims, WorkerRuns, JobEnds, Ends, Dies
  <2>6. Rotate => Maps
    BY <2>3 DEF Rotate
  <2>7. ServiceChanges \/ UNCHANGED server => Maps
    BY <2>1 DEF ServiceChanges, server
  <2>8. Maps
    BY <1>2, <2>4, <2>5, <2>6, <2>7 DEF ServiceNext, Worker
  <2> QED BY <2>8 DEF Maps
<1> QED BY <1>1, <1>2, PTL DEF ServiceSpec, LifeSpec
=============================================================================
