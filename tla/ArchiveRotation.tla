-------------------------- MODULE ArchiveRotation --------------------------
(***************************************************************************)
(* Queue rotation in detail: Archive-ValidationQueue.ps1, run by the       *)
(* maintenance executor, moves the directory queue-v1 away and a prepared  *)
(* one into its place.  No single operation of the file system does both,  *)
(* so the swap is two moves with a moment in between when there is no      *)
(* queue, and the script may end at any step.                              *)
(*                                                                         *)
(* Meanwhile job gateways and the worker use the queue through its         *)
(* store.lock and with a shared handle on activation.lock.  JobQueue has   *)
(* their operations in full; here an operation is the one write that       *)
(* matters to a rotation, in the two steps a kill can separate: a          *)
(* temporary file, and its renaming.                                       *)
(*                                                                         *)
(* Abstractions.  A request index and its job are one record.  The         *)
(* inventory, a hash of every file, is the content itself.  Access rights  *)
(* of the archive, and the import of an archive made by a version without  *)
(* tombstones, are left out.  A generation that another action consumes is *)
(* one no archive is named after, and is left out, too.                    *)
(***************************************************************************)
EXTENDS Naturals, FiniteSets

CONSTANTS
    Nonces,           \* request nonces chosen by clients
    Gateways,         \* job gateway processes
    Worker,           \* the worker process
    MaxGeneration,    \* bound: archives are attempted for 1 .. MaxGeneration
    MaxRequests,      \* 10000 in the code
    MaxInterruptions, \* bound: processes killed, and steps that throw
    None

ASSUME RotationAssumption ==
    /\ MaxGeneration \in Nat /\ MaxRequests \in Nat /\ MaxInterruptions \in Nat
    /\ Worker \notin Gateways
    /\ None \notin Nonces

VARIABLES
    queue,        \* the directory queue-v1, or None
    archive,      \* queue-archive-v<generation>, or None
    replacement,  \* queue-archive-v<generation>-replacement, or None
    journal,      \* setup\queue-archive-v<generation>-inventory.json, or None
    program,      \* what each gateway and the worker are doing
    enabled,      \* the worker task may run
    generation,   \* the last generation consumed, which names the archive
    rotation,     \* the script: its place, and the inventory it took
    aged,         \* requests submitted more than 5 minutes ago
    accepted,     \* history: requests whose submission was answered
    interruptions

directories == <<queue, archive, replacement, journal>>
vars == <<directories, program, enabled, generation, rotation, aged, accepted,
          interruptions>>

-----------------------------------------------------------------------------
Generations == 1 .. MaxGeneration
Programs == Gateways \cup {Worker}
States == {"none", "submitted", "queued", "ended"}

Directory == [records : [Nonces -> States], tombstones : SUBSET Nonces,
              leftover : BOOLEAN]
Program == [pc : {"out", "guarded", "open", "writing", "written"},
            nonce : Nonces \cup {None}, state : States]
Points == {"idle", "stop", "guard", "names", "inventory", "journal", "prepare",
           "fill", "moveOut", "moveIn", "verify", "finish"}

\* None stands for a missing directory and is not one.
ASSUME NoneIsNoDirectory == None \notin Directory

Out == [pc |-> "out", nonce |-> None, state |-> "none"]
Empty == [records |-> [n \in Nonces |-> "none"], tombstones |-> {},
          leftover |-> FALSE]

Recorded(d) == {n \in Nonces : d.records[n] # "none"}
Known(d) == Recorded(d) \cup d.tombstones

\* activation.lock is open for writing.
WriteGuard == rotation.pc \notin {"idle", "stop", "guard"}

\* store.lock of the queue is held.
StoreHeld == \E p \in Programs : program[p].pc \in {"open", "writing", "written"}

Init ==
    /\ queue = Empty
    /\ archive = [g \in Generations |-> None]
    /\ replacement = [g \in Generations |-> None]
    /\ journal = [g \in Generations |-> None]
    /\ program = [p \in Programs |-> Out]
    /\ enabled = TRUE
    /\ generation = 0
    /\ rotation = [pc |-> "idle", inventory |-> None]
    /\ aged = {}
    /\ accepted = {}
    /\ interruptions = 0

-----------------------------------------------------------------------------
(* Programs that use the queue. *)

Goes(p, pc, n, s) == program' = [program EXCEPT ![p] =
                                    [pc |-> pc, nonce |-> n, state |-> s]]

OnlyProgram == UNCHANGED <<directories, enabled, generation, rotation, aged,
                           accepted, interruptions>>

\* A fault is a definition no action uses, a plausible bug in the code of the
\* definition after it.
ReadUnguarded(p) ==
    /\ program[p].pc = "out"
    /\ p = Worker => enabled
    /\ Goes(p, "guarded", None, "none")
    /\ OnlyProgram

\* The shared handle is refused while the exclusive one is held.
OpenReadGuard(p) ==
    /\ program[p].pc = "out"
    /\ ~WriteGuard
    /\ p = Worker => enabled
    /\ Goes(p, "guarded", None, "none")
    /\ OnlyProgram

OpenStore(p) ==
    /\ program[p].pc = "guarded"
    /\ queue # None
    /\ ~StoreHeld
    /\ Goes(p, "open", None, "none")
    /\ OnlyProgram

\* There is no queue, or the request is refused: the program ends.
Exit(p) ==
    /\ \/ program[p].pc = "guarded" /\ (queue = None \/ p # Worker)
       \/ program[p].pc = "open" /\ p # Worker
    /\ Goes(p, "out", None, "none")
    /\ OnlyProgram

\* submit refuses a tombstone; of a request it knows it writes nothing.
Submit(p, n) ==
    /\ p # Worker
    /\ program[p].pc = "open"
    /\ n \notin queue.tombstones
    /\ \/ /\ queue.records[n] # "none"
          /\ Goes(p, "written", n, "none")
       \/ /\ queue.records[n] = "none"
          /\ Cardinality(Recorded(queue)) + Cardinality(queue.tombstones) < MaxRequests
          /\ Goes(p, "writing", n, "submitted")
    /\ OnlyProgram

\* A job too old to be started ends; a state the rotation does not know would stop
\* every later one.
StartedAsExpired(n) == IF n \in aged THEN "expired" ELSE "queued"
StartedAs(n) == IF n \in aged THEN "ended" ELSE "queued"

Start(p, n) ==
    /\ p # Worker
    /\ program[p].pc = "open"
    /\ n \in accepted
    /\ queue.records[n] = "submitted"
    /\ Goes(p, "writing", n, StartedAs(n))
    /\ OnlyProgram

\* The worker writes its heartbeat, or how a job ended.
Work ==
    /\ program[Worker].pc = "open"
    /\ \/ Goes(Worker, "writing", None, "none")
       \/ \E n \in Nonces : queue.records[n] = "queued" /\ Goes(Worker, "writing", n, "ended")
    /\ OnlyProgram

\* The temporary file replaces the record.
Rename(p) ==
    /\ program[p].pc = "writing"
    /\ IF program[p].nonce = None
         THEN queue' = queue
         ELSE queue' = [queue EXCEPT !.records[program[p].nonce] = program[p].state]
    /\ program' = [program EXCEPT ![p].pc = "written"]
    /\ UNCHANGED <<archive, replacement, journal, enabled, generation, rotation,
                   aged, accepted, interruptions>>

\* The store is closed; a gateway answers and ends, the worker goes on.
Close(p) ==
    /\ program[p].pc = "written"
    /\ Goes(p, IF p = Worker THEN "guarded" ELSE "out", None, "none")
    /\ accepted' = IF p = Worker THEN accepted ELSE accepted \cup {program[p].nonce}
    /\ UNCHANGED <<directories, enabled, generation, rotation, aged, interruptions>>

\* A program that is killed while it writes leaves its temporary file behind.
AfterKill(p) ==
    IF program[p].pc = "writing" THEN [queue EXCEPT !.leftover = TRUE] ELSE queue

Interrupt(p) ==
    /\ program[p].pc # "out"
    /\ interruptions < MaxInterruptions
    /\ interruptions' = interruptions + 1
    /\ queue' = AfterKill(p)
    /\ Goes(p, "out", None, "none")
    /\ UNCHANGED <<archive, replacement, journal, enabled, generation, rotation,
                   aged, accepted>>

\* Five minutes after its submission a request can no longer be started.
Age(n) ==
    /\ queue # None
    /\ queue.records[n] = "submitted"
    /\ n \notin aged
    /\ aged' = aged \cup {n}
    /\ UNCHANGED <<directories, program, enabled, generation, rotation, accepted,
                   interruptions>>

-----------------------------------------------------------------------------
(* The rotation. *)

At(point) == rotation.pc = point
Proceed(point) == rotation' = [rotation EXCEPT !.pc = point]

\* What a step that only looks leaves alone.
OnlyRotation == UNCHANGED <<directories, program, enabled, generation, aged,
                            accepted, interruptions>>

\* A signed archive request was accepted: it has consumed a generation.
Begin ==
    /\ At("idle")
    /\ generation < MaxGeneration
    /\ generation' = generation + 1
    /\ rotation' = [pc |-> "stop", inventory |-> None]
    /\ UNCHANGED <<directories, program, enabled, aged, accepted, interruptions>>

\* The task is disabled and its process ended, wherever it was.
StopWorker ==
    /\ At("stop")
    /\ enabled' = FALSE
    /\ queue' = AfterKill(Worker)
    /\ Goes(Worker, "out", None, "none")
    /\ Proceed("guard")
    /\ UNCHANGED <<archive, replacement, journal, generation, aged, accepted,
                   interruptions>>

\* Nobody has the shared handle; to hold no store.lock is less than that.
NoStoreOpen == ~StoreHeld
Unguarded == \A p \in Programs : program[p].pc = "out"

OpenWriteGuard ==
    /\ At("guard")
    /\ Unguarded
    /\ Proceed("names")
    /\ OnlyRotation

NamesFree ==
    /\ archive[generation] = None
    /\ replacement[generation] = None

CheckNames ==
    /\ At("names")
    /\ NamesFree
    /\ Proceed("inventory")
    /\ OnlyRotation

SettledUnlessNew(n) == queue.records[n] = "submitted" => n \in aged
Settled(n) ==
    \/ queue.records[n] \in {"none", "ended"}
    \/ queue.records[n] = "submitted" /\ n \in aged

\* The queue can be opened, every file in it is one of its own, and no job is
\* unfinished.
Rotatable ==
    /\ queue # None
    /\ ~queue.leftover
    /\ \A n \in Nonces : Settled(n)
    /\ Cardinality(Known(queue)) <= MaxRequests

\* Every file is hashed, under store.lock, which is then released.
TakeInventory ==
    /\ At("inventory")
    /\ Rotatable
    /\ rotation' = [pc |-> "journal", inventory |-> queue]
    /\ OnlyRotation

WriteJournal ==
    /\ At("journal")
    /\ journal[generation] = None
    /\ journal' = [journal EXCEPT ![generation] = rotation.inventory]
    /\ Proceed("prepare")
    /\ UNCHANGED <<queue, archive, replacement, program, enabled, generation, aged,
                   accepted, interruptions>>

Replace(directory) == replacement' = [replacement EXCEPT ![generation] = directory]

PrepareReplacement ==
    /\ At("prepare")
    /\ Replace(Empty)
    /\ Proceed("fill")
    /\ UNCHANGED <<queue, archive, journal, program, enabled, generation, aged,
                   accepted, interruptions>>

\* The requests that get a tombstone: those of this queue and of earlier ones.
LiveRequests(d) == Recorded(d)
RequestsOf(d) == Known(d)

FillLater ==
    /\ At("fill")
    /\ Proceed("moveOut")
    /\ OnlyRotation

FillReplacement ==
    /\ At("fill")
    /\ Replace([Empty EXCEPT !.tombstones = RequestsOf(rotation.inventory)])
    /\ Proceed("moveOut")
    /\ UNCHANGED <<queue, archive, journal, program, enabled, generation, aged,
                   accepted, interruptions>>

\* A directory that somebody has open cannot be moved.
MoveOut ==
    /\ At("moveOut")
    /\ ~StoreHeld
    /\ archive' = [archive EXCEPT ![generation] = queue]
    /\ queue' = None
    /\ Proceed("moveIn")
    /\ UNCHANGED <<replacement, journal, program, enabled, generation, aged,
                   accepted, interruptions>>

MoveIn ==
    /\ At("moveIn")
    /\ queue' = replacement[generation]
    /\ Replace(None)
    /\ Proceed("verify")
    /\ UNCHANGED <<archive, journal, program, enabled, generation, aged, accepted,
                   interruptions>>

Verify ==
    /\ At("verify")
    /\ archive[generation] = rotation.inventory
    /\ Proceed("finish")
    /\ OnlyRotation

\* The new queue has no job; the guard is released and the worker enabled.
Finish ==
    /\ At("finish")
    /\ Recorded(queue) = {}
    /\ enabled' = TRUE
    /\ rotation' = [pc |-> "idle", inventory |-> None]
    /\ UNCHANGED <<directories, program, generation, aged, accepted, interruptions>>

\* The check of the next step, where it has one, holds.
Passes ==
    CASE At("guard") -> Unguarded
      [] At("names") -> NamesFree
      [] At("inventory") -> Rotatable
      [] At("journal") -> journal[generation] = None
      [] At("moveOut") -> ~StoreHeld
      [] At("verify") -> archive[generation] = rotation.inventory
      [] At("finish") -> Recorded(queue) = {}
      [] OTHER -> TRUE

\* A check throws, or a gateway keeps the guard for 30 seconds: the script ends
\* and everything stays where it is.
Refuse ==
    /\ ~Passes
    /\ rotation' = [pc |-> "idle", inventory |-> None]
    /\ OnlyRotation

\* The process is killed, or a step throws.
InterruptRotation ==
    /\ ~At("idle")
    /\ interruptions < MaxInterruptions
    /\ interruptions' = interruptions + 1
    /\ rotation' = [pc |-> "idle", inventory |-> None]
    /\ UNCHANGED <<directories, program, enabled, generation, aged, accepted>>

\* A repair enables the worker again, whatever state the queue is in.
Repair ==
    /\ At("idle")
    /\ ~enabled
    /\ enabled' = TRUE
    /\ UNCHANGED <<directories, program, generation, rotation, aged, accepted,
                   interruptions>>

-----------------------------------------------------------------------------
Rotate ==
    \/ Begin \/ StopWorker \/ OpenWriteGuard \/ CheckNames \/ TakeInventory
    \/ WriteJournal \/ PrepareReplacement \/ FillReplacement
    \/ MoveOut \/ MoveIn \/ Verify \/ Finish
    \/ Refuse \/ InterruptRotation

Next ==
    \/ \E p \in Programs :
        \/ OpenReadGuard(p) \/ OpenStore(p) \/ Exit(p)
        \/ \E n \in Nonces : Submit(p, n) \/ Start(p, n)
        \/ Rename(p) \/ Close(p) \/ Interrupt(p)
    \/ Work
    \/ \E n \in Nonces : Age(n)
    \/ Rotate
    \/ Repair

Spec == Init /\ [][Next]_vars

-----------------------------------------------------------------------------
(* Safety. *)

\* Where records are: 0 is the queue, the others are the archives.
Places == 0 .. MaxGeneration
InQueue(n) == queue # None /\ n \in Recorded(queue)
InArchive(g, n) == archive[g] # None /\ n \in Recorded(archive[g])
Holds(place, n) == IF place = 0 THEN InQueue(n) ELSE InArchive(place, n)

\* The types of the variables: what directories hold and where processes are.
TypeOK ==
    /\ queue \in Directory \cup {None}
    /\ archive \in [Generations -> Directory \cup {None}]
    /\ replacement \in [Generations -> Directory \cup {None}]
    /\ journal \in [Generations -> Directory \cup {None}]
    /\ program \in [Programs -> Program]
    /\ enabled \in BOOLEAN
    /\ generation \in 0 .. MaxGeneration
    /\ rotation \in [pc : Points, inventory : Directory \cup {None}]
    /\ aged \subseteq Nonces
    /\ accepted \subseteq Nonces
    /\ interruptions \in Nat

\* Whoever can open a queue finds in it every request that was ever accepted, as
\* a record or as a tombstone: no retry becomes a second job after a rotation.
AcceptedRemembered == queue # None => accepted \subseteq Known(queue)

\* "A failed swap leaves the complete archive and replacement available": when
\* there is no queue, moving the replacement in would complete the rotation.
SwapRecoverable ==
    queue = None => \E g \in Generations :
        /\ archive[g] # None
        /\ archive[g] = journal[g]
        /\ replacement[g] # None
        /\ accepted \subseteq replacement[g].tombstones

\* The record of an accepted request is in one place for ever: never lost, and
\* never in two archives, or an archive and the queue.
EvidenceKept ==
    \A n \in accepted :
        \E place \in Places : \A other \in Places : Holds(other, n) <=> other = place

\* An archive holds what its journal says, before and after the verification.
ArchiveMatchesJournal ==
    \A g \in Generations : archive[g] # None => archive[g] = journal[g]

(* The invariant behind these: every step keeps it. *)

\* Nobody uses the queue behind the exclusive handle, or when there is none.
UserInv ==
    /\ WriteGuard => \A p \in Programs : program[p].pc = "out"
    /\ StoreHeld => queue # None

\* What a program is about to write is no tombstone, and what it has written is
\* recorded.
WriteInv ==
    \A p \in Programs :
        /\ program[p].pc = "writing" /\ program[p].nonce # None =>
              /\ program[p].state # "none"
              /\ program[p].nonce \notin queue.tombstones
        /\ program[p].pc \in {"writing", "written"} /\ p # Worker =>
              program[p].nonce # None
        /\ program[p].pc = "written" /\ p # Worker =>
              program[p].nonce \in Recorded(queue)

\* What the rotation has made so far.
PlaceInv ==
    /\ ~At("idle") => generation \in Generations
    /\ rotation.pc \in {"inventory", "journal", "prepare", "fill", "moveOut"} =>
          archive[generation] = None
    /\ rotation.pc \in {"journal", "prepare", "fill", "moveOut"} =>
          queue # None /\ rotation.inventory = queue
    /\ rotation.pc \in {"prepare", "fill", "moveOut"} =>
          journal[generation] = queue
    /\ At("moveOut") =>
          replacement[generation] = [Empty EXCEPT !.tombstones = Known(queue)]
    /\ At("moveIn") =>
          /\ queue = None
          /\ replacement[generation] # None
          /\ Recorded(replacement[generation]) = {}
          /\ accepted \subseteq replacement[generation].tombstones
    /\ rotation.pc \in {"verify", "finish"} => queue # None

\* A record is in one place, and every archived one has a tombstone.
RecordInv ==
    /\ queue # None => Recorded(queue) \cap queue.tombstones = {}
    /\ \A n \in Nonces, g \in Generations : InArchive(g, n) =>
          /\ queue # None => n \in queue.tombstones
          /\ At("moveIn") => n \in replacement[generation].tombstones
          /\ \A h \in Generations : InArchive(h, n) => h = g
    /\ \A n \in accepted : InQueue(n) \/ \E g \in Generations : InArchive(g, n)

\* The parts together are inductive.
RotationInv ==
    /\ TypeOK /\ UserInv /\ WriteInv /\ PlaceInv /\ RecordInv
    /\ SwapRecoverable /\ ArchiveMatchesJournal

(* The lifecycle its clients rely on, which JobQueue implements, too. *)

StageOf(n) ==
    CASE \E g \in Generations : archive[g] # None /\ n \in Recorded(archive[g]) -> "archived"
      [] queue # None /\ n \in Recorded(queue) -> queue.records[n]
      [] OTHER -> "new"

Lifecycle == INSTANCE JobLifecycle WITH
    stage <- [n \in Nonces |-> StageOf(n)],
    runs <- [n \in Nonces |-> 0]

\* The rotation with its moves, and everything that happens between them, is the
\* single step of the lifecycle that archives all requests.
ImplementsLifecycle == Lifecycle!LifeSpec

-----------------------------------------------------------------------------
(* What the documentation says and the code does not keep. *)

\* HEADLESS.md: archive preserves the evidence and starts with a fresh queue.  It
\* is refused when a job is unfinished, and for no other reason.
RefusedForJobsOnly ==
    [][At("inventory") /\ rotation'.pc = "idle" /\ interruptions' = interruptions
        => queue # None /\ \E n \in Nonces : ~Settled(n)]_vars
=============================================================================
