----------------------- MODULE ArchiveRotationProofs -----------------------
(***************************************************************************)
(* Proofs about ArchiveRotation for every value of its constants: any      *)
(* number of requests, gateways, rotations and interruptions.              *)
(***************************************************************************)
EXTENDS ArchiveRotation, TLAPS

-----------------------------------------------------------------------------
(* Directories. *)

\* A record written into a directory: no tombstone changes, no record is lost.
LEMMA RecordWritten ==
    ASSUME NEW d \in Directory, NEW n \in Nonces, NEW s \in States, s # "none"
    PROVE  LET e == [d EXCEPT !.records[n] = s] IN
           /\ e \in Directory
           /\ e.tombstones = d.tombstones
           /\ Recorded(e) = Recorded(d) \cup {n}
PROOF
<1> DEFINE e == [d EXCEPT !.records[n] = s]
<1>1. e \in Directory /\ e.tombstones = d.tombstones
  BY DEF Directory
<1>2. e.records = [d.records EXCEPT ![n] = s]
  BY DEF Directory
<1>3. Recorded(e) = Recorded(d) \cup {n}
  <2> HIDE DEF e
  <2> QED BY <1>2 DEF Recorded, Directory
<1> QED BY <1>1, <1>3

\* A temporary file left in a directory: nothing else changes.
LEMMA LeftoverLeft ==
    ASSUME NEW d \in Directory
    PROVE  LET e == [d EXCEPT !.leftover = TRUE] IN
           /\ e \in Directory
           /\ e.tombstones = d.tombstones
           /\ Recorded(e) = Recorded(d)
BY DEF Directory, Recorded

\* The prepared replacement: no record, and the tombstones it was given.
LEMMA Prepared ==
    ASSUME NEW T \in SUBSET Nonces
    PROVE  LET e == [Empty EXCEPT !.tombstones = T] IN
           /\ Empty \in Directory
           /\ e \in Directory
           /\ e.tombstones = T
           /\ Recorded(e) = {}
BY DEF Directory, Recorded, Empty, States

-----------------------------------------------------------------------------
(* The programs. *)

\* What a program may come to be without breaking the invariant.
LEMMA ProgramStep ==
    ASSUME RotationInv, OnlyProgram, NEW p \in Programs,
           NEW pc \in {"out", "guarded", "open", "writing", "written"},
           NEW n \in Nonces \cup {None}, NEW s \in States,
           Goes(p, pc, n, s),
           WriteGuard => pc = "out",
           pc \in {"open", "writing", "written"} => queue # None,
           pc = "writing" /\ n # None => s # "none" /\ n \notin queue.tombstones,
           pc \in {"writing", "written"} /\ p # Worker => n # None,
           pc = "written" /\ p # Worker => n \in Recorded(queue)
    PROVE  RotationInv'
PROOF
<1>1. [pc |-> pc, nonce |-> n, state |-> s] \in Program
  BY DEF Program
<1>2. /\ program' \in [Programs -> Program]
      /\ program'[p] = [pc |-> pc, nonce |-> n, state |-> s]
      /\ \A q \in Programs \ {p} : program'[q] = program[q]
  BY <1>1 DEF Goes, RotationInv, TypeOK
<1>3. TypeOK'
  BY <1>2 DEF RotationInv, TypeOK, OnlyProgram, directories
<1>4. UserInv'
  BY <1>2 DEF RotationInv, UserInv, WriteGuard, StoreHeld, OnlyProgram, directories
<1>5. WriteInv'
  <2> SUFFICES ASSUME NEW q \in Programs
               PROVE  (/\ program[q].pc = "writing" /\ program[q].nonce # None =>
                             /\ program[q].state # "none"
                             /\ program[q].nonce \notin queue.tombstones
                       /\ program[q].pc \in {"writing", "written"} /\ q # Worker =>
                             program[q].nonce # None
                       /\ program[q].pc = "written" /\ q # Worker =>
                             program[q].nonce \in Recorded(queue))'
    BY DEF WriteInv
  <2>1. queue' = queue
    BY DEF OnlyProgram, directories
  <2>2. CASE q = p
    BY <1>2, <2>1, <2>2 DEF Recorded
  <2>3. CASE q # p
    <3>1. program'[q] = program[q]
      BY <1>2, <2>3
    <3> QED BY <2>1, <3>1 DEF RotationInv, WriteInv, Recorded
  <2> QED BY <2>2, <2>3
<1>6. PlaceInv'
  BY DEF RotationInv, PlaceInv, OnlyProgram, directories, At, Known, Recorded
<1>7. RecordInv' /\ SwapRecoverable' /\ ArchiveMatchesJournal'
  BY DEF RotationInv, RecordInv, SwapRecoverable, ArchiveMatchesJournal, OnlyProgram,
         directories, At, InQueue, InArchive, Recorded
<1> QED BY <1>3, <1>4, <1>5, <1>6, <1>7 DEF RotationInv

\* Looking at the queue, and beginning to write into it.
LEMMA UseStep ==
    ASSUME RotationInv, NEW p \in Programs,
           \/ OpenReadGuard(p) \/ OpenStore(p) \/ Exit(p)
           \/ \E n \in Nonces : Submit(p, n) \/ Start(p, n)
           \/ Work
    PROVE  RotationInv'
PROOF
<1>0. /\ None \in Nonces \cup {None} /\ "none" \in States /\ "submitted" \in States
      /\ "queued" \in States /\ "ended" \in States /\ Worker \in Programs
  BY DEF States, Programs
<1>1. \A q \in Programs : WriteGuard => program[q].pc = "out"
  BY DEF RotationInv, UserInv
<1>2. \A q \in Programs : program[q].pc \in {"open", "writing", "written"} => queue # None
  BY DEF RotationInv, UserInv, StoreHeld
<1>3. queue # None => queue \in Directory /\ Recorded(queue) \cap queue.tombstones = {}
  BY DEF RotationInv, TypeOK, RecordInv
<1>4. CASE OpenReadGuard(p)
  BY <1>0, <1>4, ProgramStep DEF OpenReadGuard
<1>5. CASE OpenStore(p)
  BY <1>0, <1>1, <1>5, ProgramStep DEF OpenStore
<1>6. CASE Exit(p)
  BY <1>0, <1>6, ProgramStep DEF Exit
<1>7. ASSUME NEW n \in Nonces, Submit(p, n)
      PROVE  RotationInv'
  <2>1. queue # None /\ ~WriteGuard /\ p # Worker /\ OnlyProgram /\ n # None
        /\ n \notin queue.tombstones
    BY <1>1, <1>2, <1>7, RotationAssumption DEF Submit
  <2>2. CASE queue.records[n] # "none" /\ Goes(p, "written", n, "none")
    <3>1. n \in Recorded(queue)
      BY <2>2 DEF Recorded
    <3> QED BY <1>0, <2>1, <2>2, <3>1, ProgramStep
  <2>3. CASE Goes(p, "writing", n, "submitted")
    BY <1>0, <2>1, <2>3, ProgramStep
  <2> QED BY <1>7, <2>2, <2>3 DEF Submit
<1>8. ASSUME NEW n \in Nonces, Start(p, n)
      PROVE  RotationInv'
  <2>1. queue # None /\ ~WriteGuard /\ p # Worker /\ OnlyProgram /\ n # None
    BY <1>1, <1>2, <1>8, RotationAssumption DEF Start
  <2>2. n \notin queue.tombstones
    BY <1>3, <1>8, <2>1 DEF Start, Recorded
  <2>3. StartedAs(n) \in States /\ StartedAs(n) # "none"
    BY DEF StartedAs, States
  <2>4. Goes(p, "writing", n, StartedAs(n))
    BY <1>8 DEF Start
  <2> QED BY <2>1, <2>2, <2>3, <2>4, ProgramStep
<1>9. CASE Work
  <2>1. queue # None /\ ~WriteGuard /\ OnlyProgram
    BY <1>0, <1>1, <1>2, <1>9 DEF Work
  <2>2. CASE Goes(Worker, "writing", None, "none")
    BY <1>0, <2>1, <2>2, ProgramStep
  <2>3. ASSUME NEW n \in Nonces, queue.records[n] = "queued",
               Goes(Worker, "writing", n, "ended")
        PROVE  RotationInv'
    <3>1. n \notin queue.tombstones
      BY <1>3, <2>1, <2>3 DEF Recorded
    <3> QED BY <1>0, <2>1, <2>3, <3>1, ProgramStep
  <2> QED BY <1>9, <2>2, <2>3 DEF Work
<1> QED BY <1>4, <1>5, <1>6, <1>7, <1>8, <1>9

\* The queue keeps its records and tombstones while no rotation holds the guard:
\* nothing that speaks of places breaks.
LEMMA QueueKept ==
    ASSUME RotationInv, ~WriteGuard, ~WriteGuard',
           \/ queue' = queue
           \/ /\ queue # None
              /\ queue' \in Directory
              /\ queue'.tombstones = queue.tombstones
              /\ Recorded(queue) \subseteq Recorded(queue')
              /\ Recorded(queue') \cap queue.tombstones = {},
           UNCHANGED <<archive, replacement, journal, generation, accepted>>,
           ~At("idle")' => ~At("idle")
    PROVE  PlaceInv' /\ RecordInv' /\ SwapRecoverable' /\ ArchiveMatchesJournal'
PROOF
<1>1. queue = None <=> queue' = None
  BY NoneIsNoDirectory
<1>2. PlaceInv'
  <2>1. rotation'.pc \in {"idle", "stop", "guard"}
    BY DEF WriteGuard
  <2> QED BY <2>1 DEF RotationInv, PlaceInv, At
<1>3. \A n \in Nonces, g \in Generations : InArchive(g, n)' <=> InArchive(g, n)
  BY DEF InArchive, Recorded
<1>4. \A n \in Nonces : InQueue(n) => InQueue(n)'
  BY <1>1 DEF InQueue
<1>5. queue' # None => queue'.tombstones = queue.tombstones
                       /\ Recorded(queue') \cap queue'.tombstones = {}
  BY <1>1 DEF RotationInv, RecordInv, Recorded
<1>6. ~At("moveIn")'
  BY DEF WriteGuard, At
<1>7. accepted \subseteq Nonces
  BY DEF RotationInv, TypeOK
<1>8. RecordInv'
  BY <1>1, <1>3, <1>4, <1>5, <1>6, <1>7 DEF RotationInv, RecordInv
<1>9. SwapRecoverable' /\ ArchiveMatchesJournal'
  BY <1>1 DEF RotationInv, SwapRecoverable, ArchiveMatchesJournal
<1> QED BY <1>2, <1>8, <1>9

\* A program that is in the store excludes the rotation.
LEMMA UserExcludes ==
    ASSUME RotationInv, NEW p \in Programs
    PROVE  /\ program[p].pc # "out" => ~WriteGuard
           /\ program[p].pc \in {"open", "writing", "written"} => queue \in Directory
BY DEF RotationInv, UserInv, StoreHeld, TypeOK

\* The renaming of a temporary file.
LEMMA RenameStep ==
    ASSUME RotationInv, NEW p \in Programs, Rename(p)
    PROVE  RotationInv'
PROOF
<1> DEFINE n == program[p].nonce
           s == program[p].state
<1>1. queue \in Directory /\ queue # None /\ ~WriteGuard /\ ~WriteGuard'
  BY UserExcludes, NoneIsNoDirectory DEF Rename, WriteGuard
<1>2. program[p] \in Program /\ n \in Nonces \cup {None} /\ s \in States
  BY DEF RotationInv, TypeOK, Program
<1>3. n # None => s # "none" /\ n \notin queue.tombstones
  BY DEF Rename, RotationInv, WriteInv
<1>4. /\ queue' \in Directory
      /\ queue'.tombstones = queue.tombstones
      /\ Recorded(queue) \subseteq Recorded(queue')
      /\ n # None => n \in Recorded(queue')
      /\ Recorded(queue') \cap queue.tombstones = {}
  <2>1. Recorded(queue) \cap queue.tombstones = {}
    BY <1>1 DEF RotationInv, RecordInv
  <2>2. CASE n = None
    <3>1. queue' = queue
      BY <2>2 DEF Rename
    <3> QED BY <1>1, <2>1, <2>2, <3>1
  <2>3. CASE n # None
    <3>1. queue' = [queue EXCEPT !.records[n] = s]
      BY <2>3 DEF Rename
    <3>2. n \in Nonces
      BY <1>2, <2>3
    <3> HIDE DEF n, s
    <3>3. /\ queue' \in Directory
          /\ queue'.tombstones = queue.tombstones
          /\ Recorded(queue') = Recorded(queue) \cup {n}
      BY <1>1, <1>2, <1>3, <2>3, <3>1, <3>2, RecordWritten
    <3> QED BY <1>3, <2>1, <2>3, <3>3
  <2> QED BY <2>2, <2>3
<1>5. queue' # None
  BY <1>4, NoneIsNoDirectory
<1>6. PlaceInv' /\ RecordInv' /\ SwapRecoverable' /\ ArchiveMatchesJournal'
  BY <1>1, <1>4, QueueKept DEF Rename, At
<1>7. /\ program' \in [Programs -> Program]
      /\ program'[p] = [program[p] EXCEPT !.pc = "written"]
      /\ program'[p].pc = "written" /\ program'[p].nonce = n
      /\ \A q \in Programs \ {p} : program'[q] = program[q]
  BY <1>2 DEF Rename, RotationInv, TypeOK, Program
<1>8. TypeOK'
  BY <1>4, <1>7 DEF Rename, RotationInv, TypeOK
<1>9. UserInv'
  BY <1>1, <1>5 DEF UserInv
<1>10. WriteInv'
  <2> SUFFICES ASSUME NEW q \in Programs
               PROVE  (/\ program[q].pc = "writing" /\ program[q].nonce # None =>
                             /\ program[q].state # "none"
                             /\ program[q].nonce \notin queue.tombstones
                       /\ program[q].pc \in {"writing", "written"} /\ q # Worker =>
                             program[q].nonce # None
                       /\ program[q].pc = "written" /\ q # Worker =>
                             program[q].nonce \in Recorded(queue))'
    BY DEF WriteInv
  <2>1. CASE q = p
    <3>1. q # Worker => n # None
      BY <2>1 DEF Rename, RotationInv, WriteInv
    <3> QED BY <1>4, <1>7, <2>1, <3>1
  <2>2. CASE q # p
    <3>1. program'[q] = program[q]
      BY <1>7, <2>2
    <3>2. program[q].pc = "written" /\ q # Worker => program[q].nonce \in Recorded(queue')
      BY <1>4 DEF RotationInv, WriteInv
    <3> QED BY <1>4, <3>1, <3>2 DEF RotationInv, WriteInv
  <2> QED BY <2>1, <2>2
<1> QED BY <1>6, <1>8, <1>9, <1>10 DEF RotationInv

\* The answer of a gateway: what it has written is accepted from now on.
LEMMA CloseStep ==
    ASSUME RotationInv, NEW p \in Programs, Close(p)
    PROVE  RotationInv'
PROOF
<1>1. queue \in Directory /\ queue # None /\ ~WriteGuard /\ ~WriteGuard'
  BY UserExcludes, NoneIsNoDirectory DEF Close, WriteGuard
<1>2. accepted' \subseteq accepted \cup Recorded(queue)
  BY DEF Close, RotationInv, WriteInv
<1>3. Recorded(queue) \subseteq Nonces
  BY DEF Recorded
<1>4. /\ program' \in [Programs -> Program]
      /\ program'[p].pc \in {"out", "guarded"}
      /\ \A q \in Programs \ {p} : program'[q] = program[q]
  BY DEF Close, Goes, RotationInv, TypeOK, Program, States
<1>5. TypeOK'
  BY <1>2, <1>3, <1>4 DEF Close, directories, RotationInv, TypeOK
<1>6. UserInv'
  BY <1>1 DEF Close, directories, UserInv
<1>7. WriteInv'
  BY <1>4 DEF Close, directories, RotationInv, WriteInv, Recorded
<1>8. PlaceInv'
  <2>1. rotation'.pc \in {"idle", "stop", "guard"}
    BY <1>1 DEF WriteGuard
  <2> QED BY <2>1 DEF Close, RotationInv, PlaceInv, At
<1>9. RecordInv'
  <2>1. \A n \in Nonces : InQueue(n)' <=> InQueue(n)
    BY DEF Close, directories, InQueue, Recorded
  <2>2. \A n \in Nonces, g \in Generations : InArchive(g, n)' <=> InArchive(g, n)
    BY DEF Close, directories, InArchive, Recorded
  <2>3. \A n \in Recorded(queue) : n \in Nonces /\ InQueue(n)
    BY <1>1, <1>3 DEF InQueue
  <2>4. accepted \subseteq Nonces
    BY DEF RotationInv, TypeOK
  <2>5. \A n \in accepted' : InQueue(n)' \/ \E g \in Generations : InArchive(g, n)'
    BY <1>2, <2>1, <2>2, <2>3, <2>4 DEF RotationInv, RecordInv
  <2>6. UNCHANGED <<queue, replacement, generation, rotation>>
    BY DEF Close, directories
  <2> QED BY <2>2, <2>5, <2>6 DEF RotationInv, RecordInv, At, Recorded
<1>10. SwapRecoverable' /\ ArchiveMatchesJournal'
  BY <1>1 DEF Close, directories, RotationInv, SwapRecoverable, ArchiveMatchesJournal
<1> QED BY <1>5, <1>6, <1>7, <1>8, <1>9, <1>10 DEF RotationInv

\* A program that ends, wherever it is, while the rotation has no guard.
LEMMA KillStep ==
    ASSUME RotationInv, NEW p \in Programs, ~WriteGuard, ~WriteGuard',
           queue' = AfterKill(p), Goes(p, "out", None, "none"),
           UNCHANGED <<archive, replacement, journal, generation, accepted>>,
           ~At("idle")' => ~At("idle"),
           enabled' \in BOOLEAN, interruptions' \in Nat, aged' = aged,
           rotation' \in [pc : Points, inventory : Directory \cup {None}]
    PROVE  RotationInv'
PROOF
<1>1. \/ queue' = queue
      \/ /\ queue # None
         /\ queue' \in Directory
         /\ queue'.tombstones = queue.tombstones
         /\ Recorded(queue') = Recorded(queue)
  BY UserExcludes, LeftoverLeft, NoneIsNoDirectory DEF AfterKill
<1>2. queue # None => Recorded(queue) \cap queue.tombstones = {}
  BY DEF RotationInv, RecordInv
<1>3. PlaceInv' /\ RecordInv' /\ SwapRecoverable' /\ ArchiveMatchesJournal'
  BY <1>1, <1>2, QueueKept
<1>4. /\ program' \in [Programs -> Program]
      /\ program'[p].pc = "out"
      /\ \A q \in Programs \ {p} : program'[q] = program[q]
  BY DEF Goes, RotationInv, TypeOK, Program, States
<1>5. queue # None => queue' # None
  BY <1>1, NoneIsNoDirectory
<1>6. TypeOK'
  BY <1>1, <1>4 DEF RotationInv, TypeOK
<1>7. UserInv'
  BY <1>4, <1>5 DEF RotationInv, UserInv, StoreHeld
<1>8. WriteInv'
  <2>1. ASSUME NEW q \in Programs, q # p
        PROVE  /\ program'[q] = program[q]
               /\ program[q].pc = "writing" => queue'.tombstones = queue.tombstones
               /\ program[q].pc = "written" => Recorded(queue') = Recorded(queue)
    BY <1>1, <1>4, <2>1 DEF Recorded
  <2> QED BY <1>4, <2>1 DEF RotationInv, WriteInv
<1> QED BY <1>3, <1>6, <1>7, <1>8 DEF RotationInv

\* So a kill of a program, and the stop of the worker, keep the invariant.
LEMMA InterruptStep ==
    ASSUME RotationInv, NEW p \in Programs, Interrupt(p)
    PROVE  RotationInv'
PROOF
<1>1. ~WriteGuard /\ ~WriteGuard'
  BY UserExcludes DEF Interrupt, WriteGuard
<1>2. interruptions' \in Nat
  BY DEF Interrupt, RotationInv, TypeOK
<1> QED BY <1>1, <1>2, KillStep DEF Interrupt, At, RotationInv, TypeOK

LEMMA StopStep ==
    ASSUME RotationInv, StopWorker
    PROVE  RotationInv'
PROOF
<1>1. rotation' = [rotation EXCEPT !.pc = "guard"] /\ rotation.pc = "stop"
  BY DEF StopWorker, Proceed, At
<1>2. /\ rotation' \in [pc : Points, inventory : Directory \cup {None}]
      /\ rotation'.pc = "guard"
  BY <1>1 DEF RotationInv, TypeOK, Points
<1>3. ~WriteGuard /\ ~WriteGuard' /\ ~At("idle")
  BY <1>1, <1>2 DEF WriteGuard, At
<1>4. Worker \in Programs
  BY DEF Programs
<1> QED BY <1>2, <1>3, <1>4, KillStep DEF StopWorker, RotationInv, TypeOK

-----------------------------------------------------------------------------
(* The rotation. *)

\* What a step of the rotation may do that moves nothing.
LEMMA StillStep ==
    ASSUME RotationInv, UNCHANGED <<directories, program, accepted>>,
           At("moveIn")' => At("moveIn") /\ generation' = generation,
           WriteGuard' => WriteGuard \/ Unguarded,
           TypeOK', PlaceInv'
    PROVE  RotationInv'
PROOF
<1>1. UserInv'
  BY DEF RotationInv, UserInv, StoreHeld, Unguarded, directories
<1>2. WriteInv'
  BY DEF RotationInv, WriteInv, directories, Recorded
<1>3. RecordInv'
  BY DEF RotationInv, RecordInv, directories, InQueue, InArchive, Recorded
<1>4. SwapRecoverable' /\ ArchiveMatchesJournal'
  BY DEF RotationInv, SwapRecoverable, ArchiveMatchesJournal, directories
<1> QED BY <1>1, <1>2, <1>3, <1>4 DEF RotationInv

\* The steps that only look, begin or end, in the script or beside it.
LEMMA LookStep ==
    ASSUME RotationInv,
           \/ \E n \in Nonces : Age(n)
           \/ Begin \/ OpenWriteGuard \/ CheckNames \/ TakeInventory \/ Verify
           \/ Finish \/ Refuse \/ InterruptRotation \/ Repair
    PROVE  RotationInv'
PROOF
<1> USE RotationAssumption
<1>1. /\ rotation \in [pc : Points, inventory : Directory \cup {None}]
      /\ generation \in 0 .. MaxGeneration /\ interruptions \in Nat
      /\ queue \in Directory \cup {None}
  BY DEF RotationInv, TypeOK
<1>2. CASE \E n \in Nonces : Age(n)
  <2>1. TypeOK'
    BY <1>2 DEF Age, directories, RotationInv, TypeOK
  <2>2. PlaceInv'
    BY <1>2 DEF Age, directories, RotationInv, PlaceInv, At, Known, Recorded
  <2> QED BY <1>2, <2>1, <2>2, StillStep DEF Age, At, WriteGuard
<1>3. CASE Begin
  <2>1. generation' \in Generations /\ rotation' = [pc |-> "stop", inventory |-> None]
    BY <1>1, <1>3 DEF Begin, Generations
  <2>2. TypeOK'
    BY <1>3, <2>1 DEF Begin, Generations, directories, RotationInv, TypeOK, Points
  <2>3. PlaceInv'
    BY <2>1 DEF PlaceInv, At
  <2> QED BY <1>3, <2>1, <2>2, <2>3, StillStep DEF Begin, At, WriteGuard
<1>4. CASE OpenWriteGuard
  <2>1. rotation' = [rotation EXCEPT !.pc = "names"] /\ ~At("idle") /\ OnlyRotation
    BY <1>4 DEF OpenWriteGuard, Proceed, At
  <2>2. TypeOK'
    BY <1>1, <2>1 DEF OnlyRotation, directories, RotationInv, TypeOK, Points
  <2>3. rotation'.pc = "names"
    BY <1>1, <2>1
  <2>4. PlaceInv'
    BY <2>1, <2>3 DEF OnlyRotation, RotationInv, PlaceInv, At
  <2> QED BY <1>4, <2>1, <2>2, <2>3, <2>4, StillStep DEF OpenWriteGuard, OnlyRotation, At
<1>5. CASE CheckNames
  <2>1. rotation' = [rotation EXCEPT !.pc = "inventory"] /\ rotation.pc = "names"
        /\ OnlyRotation
    BY <1>5 DEF CheckNames, Proceed, At
  <2>2. TypeOK'
    BY <1>1, <2>1 DEF OnlyRotation, directories, RotationInv, TypeOK, Points
  <2>3. rotation'.pc = "inventory"
    BY <1>1, <2>1
  <2>4. PlaceInv'
    BY <1>5, <2>1, <2>3
       DEF CheckNames, NamesFree, OnlyRotation, directories, RotationInv, PlaceInv, At
  <2> QED BY <2>1, <2>2, <2>3, <2>4, StillStep DEF OnlyRotation, At, WriteGuard
<1>6. CASE TakeInventory
  <2>1. /\ rotation' = [pc |-> "journal", inventory |-> queue]
        /\ rotation.pc = "inventory" /\ queue # None /\ OnlyRotation
    BY <1>6 DEF TakeInventory, Rotatable, At
  <2>2. TypeOK'
    BY <1>1, <2>1 DEF OnlyRotation, directories, RotationInv, TypeOK, Points
  <2>3. PlaceInv'
    BY <2>1 DEF OnlyRotation, directories, RotationInv, PlaceInv, At
  <2> QED BY <2>1, <2>2, <2>3, StillStep DEF OnlyRotation, At, WriteGuard
<1>7. CASE Verify
  <2>1. rotation' = [rotation EXCEPT !.pc = "finish"] /\ rotation.pc = "verify"
        /\ OnlyRotation
    BY <1>7 DEF Verify, Proceed, At
  <2>2. TypeOK'
    BY <1>1, <2>1 DEF OnlyRotation, directories, RotationInv, TypeOK, Points
  <2>3. rotation'.pc = "finish"
    BY <1>1, <2>1
  <2>4. PlaceInv'
    BY <2>1, <2>3 DEF OnlyRotation, directories, RotationInv, PlaceInv, At
  <2> QED BY <2>1, <2>2, <2>3, <2>4, StillStep DEF OnlyRotation, At, WriteGuard
<1>8. CASE Finish \/ Refuse \/ InterruptRotation
  <2>1. /\ rotation' = [pc |-> "idle", inventory |-> None]
        /\ UNCHANGED <<directories, program, generation, aged, accepted>>
        /\ enabled' \in BOOLEAN /\ interruptions' \in Nat
    <3> enabled \in BOOLEAN
      BY DEF RotationInv, TypeOK
    <3>1. CASE Finish
      BY <1>1, <3>1 DEF Finish
    <3>2. CASE Refuse
      BY <1>1, <3>2 DEF Refuse, OnlyRotation
    <3>3. CASE InterruptRotation
      BY <1>1, <3>3 DEF InterruptRotation
    <3> QED BY <1>8, <3>1, <3>2, <3>3
  <2>2. TypeOK'
    BY <2>1 DEF directories, RotationInv, TypeOK, Points
  <2>3. PlaceInv'
    BY <2>1 DEF PlaceInv, At
  <2> QED BY <2>1, <2>2, <2>3, StillStep DEF At, WriteGuard
<1>9. CASE Repair
  <2>1. TypeOK'
    BY <1>9 DEF Repair, directories, RotationInv, TypeOK
  <2>2. PlaceInv'
    BY <1>9 DEF Repair, directories, RotationInv, PlaceInv, At
  <2> QED BY <1>9, <2>1, <2>2, StillStep DEF Repair, At, WriteGuard
<1> QED BY <1>2, <1>3, <1>4, <1>5, <1>6, <1>7, <1>8, <1>9

\* The inventory is kept in the journal, before any archive has its name.
LEMMA JournalStep ==
    ASSUME RotationInv, WriteJournal
    PROVE  RotationInv'
PROOF
<1>1. /\ rotation \in [pc : Points, inventory : Directory \cup {None}]
      /\ journal \in [Generations -> Directory \cup {None}]
  BY DEF RotationInv, TypeOK
<1>2. rotation.pc = "journal" /\ rotation' = [rotation EXCEPT !.pc = "prepare"]
  BY DEF WriteJournal, At, Proceed
<1>3. /\ generation \in Generations /\ archive[generation] = None
      /\ queue # None /\ rotation.inventory = queue
  BY <1>2 DEF RotationInv, PlaceInv, At
<1>4. /\ rotation'.pc = "prepare" /\ rotation'.inventory = queue
      /\ rotation' \in [pc : Points, inventory : Directory \cup {None}]
  BY <1>1, <1>2, <1>3 DEF Points
<1>5. /\ journal' \in [Generations -> Directory \cup {None}]
      /\ journal'[generation] = queue
      /\ \A g \in Generations \ {generation} : journal'[g] = journal[g]
  BY <1>1, <1>3 DEF WriteJournal
<1>6. TypeOK'
  BY <1>4, <1>5 DEF WriteJournal, RotationInv, TypeOK
<1>7. UserInv'
  BY <1>2 DEF WriteJournal, RotationInv, UserInv, WriteGuard, StoreHeld
<1>8. WriteInv'
  BY DEF WriteJournal, RotationInv, WriteInv, Recorded
<1>9. PlaceInv'
  BY <1>3, <1>4, <1>5 DEF WriteJournal, PlaceInv, At
<1>10. RecordInv'
  BY <1>2, <1>4 DEF WriteJournal, RotationInv, RecordInv, InQueue, InArchive, Recorded, At
<1>11. SwapRecoverable' /\ ArchiveMatchesJournal'
  BY <1>3, <1>5 DEF WriteJournal, RotationInv, SwapRecoverable, ArchiveMatchesJournal
<1> QED BY <1>6, <1>7, <1>8, <1>9, <1>10, <1>11 DEF RotationInv

\* The replacement is made and filled while the queue is still in its place.
LEMMA PrepareStep ==
    ASSUME RotationInv, PrepareReplacement \/ FillReplacement
    PROVE  RotationInv'
PROOF
<1>1. /\ rotation \in [pc : Points, inventory : Directory \cup {None}]
      /\ replacement \in [Generations -> Directory \cup {None}]
  BY DEF RotationInv, TypeOK
<1>2. rotation.pc \in {"prepare", "fill"}
  BY DEF PrepareReplacement, FillReplacement, At
<1>3. /\ generation \in Generations /\ archive[generation] = None
      /\ queue # None /\ rotation.inventory = queue /\ journal[generation] = queue
  BY <1>2 DEF RotationInv, PlaceInv, At
<1>4. queue \in Directory /\ Known(queue) \in SUBSET Nonces
  BY <1>3 DEF RotationInv, TypeOK, Directory, Known, Recorded
<1>5. /\ rotation'.pc \in {"fill", "moveOut"} /\ rotation'.inventory = queue
      /\ rotation' \in [pc : Points, inventory : Directory \cup {None}]
  BY <1>1, <1>3 DEF PrepareReplacement, FillReplacement, Proceed, Points
<1>6. UNCHANGED <<queue, archive, journal, program, enabled, generation, aged,
                  accepted, interruptions>>
  BY DEF PrepareReplacement, FillReplacement
<1>7. /\ replacement' \in [Generations -> Directory \cup {None}]
      /\ rotation'.pc = "moveOut" =>
            replacement'[generation] = [Empty EXCEPT !.tombstones = Known(queue)]
  <2>1. CASE PrepareReplacement
    <3>1. rotation'.pc = "fill"
      BY <1>1, <2>1 DEF PrepareReplacement, Proceed
    <3>2. Empty \in Directory
      BY Prepared
    <3> QED BY <1>1, <2>1, <3>1, <3>2 DEF PrepareReplacement, Replace
  <2>2. CASE FillReplacement
    <3> DEFINE e == [Empty EXCEPT !.tombstones = Known(queue)]
    <3>1. e \in Directory
      BY <1>4, Prepared
    <3>2. replacement' = [replacement EXCEPT ![generation] = e]
      BY <1>3, <2>2 DEF FillReplacement, Replace, RequestsOf
    <3> HIDE DEF e
    <3>3. replacement' \in [Generations -> Directory \cup {None}]
          /\ replacement'[generation] = e
      BY <1>1, <1>3, <3>1, <3>2
    <3> QED BY <3>3 DEF e
  <2> QED BY <2>1, <2>2
<1>8. TypeOK'
  BY <1>5, <1>6, <1>7 DEF RotationInv, TypeOK
<1>9. UserInv'
  BY <1>2, <1>6 DEF RotationInv, UserInv, WriteGuard, StoreHeld
<1>10. WriteInv'
  BY <1>6 DEF RotationInv, WriteInv, Recorded
<1>11. PlaceInv'
  BY <1>3, <1>5, <1>6, <1>7 DEF PlaceInv, At, Known, Recorded
<1>12. RecordInv'
  BY <1>5, <1>6 DEF RotationInv, RecordInv, InQueue, InArchive, Recorded, At
<1>13. SwapRecoverable' /\ ArchiveMatchesJournal'
  BY <1>3, <1>6 DEF RotationInv, SwapRecoverable, ArchiveMatchesJournal
<1> QED BY <1>8, <1>9, <1>10, <1>11, <1>12, <1>13 DEF RotationInv

\* The queue becomes the archive; from here to the second move there is none.
LEMMA MoveOutStep ==
    ASSUME RotationInv, MoveOut
    PROVE  RotationInv'
PROOF
<1> SUFFICES ASSUME NEW g, g = generation
             PROVE  RotationInv'
  OBVIOUS
<1>1. /\ rotation \in [pc : Points, inventory : Directory \cup {None}]
      /\ archive \in [Generations -> Directory \cup {None}]
      /\ accepted \subseteq Nonces
  BY DEF RotationInv, TypeOK
<1>2. rotation.pc = "moveOut" /\ rotation' = [rotation EXCEPT !.pc = "moveIn"]
  BY DEF MoveOut, At, Proceed
<1>3. /\ g \in Generations /\ archive[g] = None
      /\ queue # None /\ journal[g] = queue
      /\ replacement[g] = [Empty EXCEPT !.tombstones = Known(queue)]
  BY <1>2 DEF RotationInv, PlaceInv, At
<1>4. queue \in Directory /\ Known(queue) \in SUBSET Nonces
  BY <1>3 DEF RotationInv, TypeOK, Directory, Known, Recorded
<1>5. /\ replacement[g] \in Directory /\ replacement[g] # None
      /\ replacement[g].tombstones = Known(queue)
      /\ Recorded(replacement[g]) = {}
  BY <1>3, <1>4, Prepared, NoneIsNoDirectory
<1>6. /\ rotation'.pc = "moveIn"
      /\ rotation' \in [pc : Points, inventory : Directory \cup {None}]
  BY <1>1, <1>2 DEF Points
<1>7. /\ queue' = None
      /\ archive' \in [Generations -> Directory \cup {None}]
      /\ archive'[g] = queue
      /\ \A h \in Generations \ {g} : archive'[h] = archive[h]
  BY <1>1, <1>3, <1>4 DEF MoveOut
<1>8. UNCHANGED <<replacement, journal, program, enabled, generation, aged, accepted,
                  interruptions>>
  BY DEF MoveOut
<1>9. \A p \in Programs : program[p].pc = "out"
  BY <1>2 DEF RotationInv, UserInv, WriteGuard
<1>10. TypeOK'
  BY <1>6, <1>7, <1>8 DEF RotationInv, TypeOK
<1>11. UserInv' /\ WriteInv'
  BY <1>8, <1>9 DEF UserInv, StoreHeld, WriteInv
<1>12. accepted \subseteq Known(queue)
  BY <1>1, <1>3 DEF RotationInv, RecordInv, InQueue, Known
<1>13. PlaceInv'
  BY <1>3, <1>5, <1>6, <1>7, <1>8, <1>12 DEF PlaceInv, At, Recorded
<1>14. \A n \in Nonces : InArchive(g, n)' <=> InQueue(n)
  BY <1>3, <1>7, <1>8 DEF InArchive, InQueue, Recorded
<1>15. \A n \in Nonces, h \in Generations \ {g} : InArchive(h, n)' <=> InArchive(h, n)
  BY <1>7, <1>8 DEF InArchive, Recorded
<1>16. \A n \in Nonces, h \in Generations :
          InArchive(h, n) => n \in queue.tombstones /\ ~InQueue(n) /\ h # g
  BY <1>3 DEF RotationInv, RecordInv, InQueue, InArchive
<1>17. RecordInv'
  <2>1. ASSUME NEW n \in Nonces, NEW h \in Generations, InArchive(h, n)'
        PROVE  /\ queue' = None
               /\ n \in replacement'[generation'].tombstones
               /\ \A k \in Generations : InArchive(k, n)' => k = h
    <3>1. CASE h = g
      <4>1. InQueue(n)
        BY <1>14, <2>1, <3>1
      <4>2. n \in Known(queue)
        BY <4>1 DEF InQueue, Known
      <4> QED BY <1>5, <1>7, <1>8, <1>15, <1>16, <3>1, <4>1, <4>2
    <3>2. CASE h # g
      <4>1. InArchive(h, n)
        BY <1>15, <2>1, <3>2
      <4>2. n \in queue.tombstones /\ ~InQueue(n)
        BY <1>16, <4>1
      <4>3. \A k \in Generations : InArchive(k, n) => k = h
        BY <4>1 DEF RotationInv, RecordInv
      <4> QED BY <1>5, <1>7, <1>8, <1>14, <1>15, <4>2, <4>3 DEF Known
    <3> QED BY <3>1, <3>2
  <2>2. ASSUME NEW n \in accepted'
        PROVE  \E h \in Generations : InArchive(h, n)'
    <3>1. n \in accepted /\ n \in Nonces
      BY <1>1, <1>8
    <3>2. InQueue(n) \/ \E h \in Generations : InArchive(h, n)
      BY <3>1 DEF RotationInv, RecordInv
    <3>3. CASE InQueue(n)
      BY <1>3, <1>14, <3>1, <3>3
    <3>4. CASE \E h \in Generations : InArchive(h, n)
      BY <1>15, <1>16, <3>1, <3>4
    <3> QED BY <3>2, <3>3, <3>4
  <2> QED BY <1>7, <2>1, <2>2 DEF RecordInv
<1>18. SwapRecoverable'
  BY <1>3, <1>5, <1>7, <1>8, <1>12, NoneIsNoDirectory DEF SwapRecoverable
<1>19. ArchiveMatchesJournal'
  BY <1>3, <1>7, <1>8 DEF RotationInv, ArchiveMatchesJournal
<1> QED BY <1>10, <1>11, <1>13, <1>17, <1>18, <1>19 DEF RotationInv

\* The replacement becomes the queue.
LEMMA MoveInStep ==
    ASSUME RotationInv, MoveIn
    PROVE  RotationInv'
PROOF
<1>1. /\ rotation \in [pc : Points, inventory : Directory \cup {None}]
      /\ replacement \in [Generations -> Directory \cup {None}]
  BY DEF RotationInv, TypeOK
<1>2. rotation.pc = "moveIn" /\ rotation' = [rotation EXCEPT !.pc = "verify"]
  BY DEF MoveIn, At, Proceed
<1>3. /\ generation \in Generations /\ replacement[generation] # None
      /\ Recorded(replacement[generation]) = {} /\ queue = None
  BY <1>2 DEF RotationInv, PlaceInv, At
<1>4. /\ queue' = replacement[generation] /\ queue' \in Directory
      /\ replacement' \in [Generations -> Directory \cup {None}]
  BY <1>1, <1>3 DEF MoveIn, Replace
<1>5. /\ rotation'.pc = "verify"
      /\ rotation' \in [pc : Points, inventory : Directory \cup {None}]
  BY <1>1, <1>2 DEF Points
<1>6. UNCHANGED <<archive, journal, program, enabled, generation, aged, accepted,
                  interruptions>>
  BY DEF MoveIn
<1>7. queue' # None /\ Recorded(queue') = {}
  BY <1>3, <1>4
<1>8. \A p \in Programs : program[p].pc = "out"
  BY <1>2 DEF RotationInv, UserInv, WriteGuard
<1>9. TypeOK'
  BY <1>4, <1>5, <1>6 DEF RotationInv, TypeOK
<1>10. UserInv' /\ WriteInv'
  BY <1>6, <1>8 DEF UserInv, StoreHeld, WriteInv
<1>11. PlaceInv'
  BY <1>3, <1>5, <1>6, <1>7 DEF PlaceInv, At
<1>12. RecordInv'
  <2>1. \A n \in Nonces, g \in Generations : InArchive(g, n)' <=> InArchive(g, n)
    BY <1>6 DEF InArchive, Recorded
  <2>2. \A n \in Nonces, g \in Generations : InArchive(g, n) =>
            /\ n \in queue'.tombstones
            /\ \A h \in Generations : InArchive(h, n) => h = g
    BY <1>2, <1>4 DEF RotationInv, RecordInv, At
  <2>3. accepted' \subseteq Nonces
    BY <1>9 DEF TypeOK
  <2>4. \A n \in accepted' : \E g \in Generations : InArchive(g, n)'
    BY <1>3, <1>6, <2>1, <2>3 DEF RotationInv, RecordInv, InQueue
  <2>5. Recorded(queue)' = {}
    BY <1>7 DEF Recorded
  <2>6. ~At("moveIn")'
    BY <1>5 DEF At
  <2> QED BY <2>1, <2>2, <2>4, <2>5, <2>6 DEF RecordInv
<1>13. SwapRecoverable' /\ ArchiveMatchesJournal'
  BY <1>6, <1>7 DEF RotationInv, SwapRecoverable, ArchiveMatchesJournal
<1> QED BY <1>9, <1>10, <1>11, <1>12, <1>13 DEF RotationInv

-----------------------------------------------------------------------------
(* Theorems. *)

\* The invariant of rotation is inductive, for every number of requests,
\* gateways, attempts and interruptions.
THEOREM RotationInvariant == Spec => []RotationInv
PROOF
<1>1. Init => RotationInv
  <2> SUFFICES ASSUME Init PROVE RotationInv
    OBVIOUS
  <2> USE RotationAssumption
  <2>1. Empty \in Directory /\ Recorded(Empty) = {} /\ Empty # None
    <3>1. Empty \in Directory
      BY DEF Directory, Empty, States
    <3>2. Recorded(Empty) = {}
      BY DEF Recorded, Empty
    <3> QED BY <3>1, <3>2, NoneIsNoDirectory
  <2>2. TypeOK
    BY <2>1 DEF Init, TypeOK, Program, Points, States, Out
  <2>3. UserInv /\ WriteInv /\ PlaceInv
    BY <2>1 DEF Init, UserInv, WriteGuard, WriteInv, PlaceInv, StoreHeld, At, Out
  <2>4. RecordInv /\ SwapRecoverable /\ ArchiveMatchesJournal
    BY <2>1 DEF Init, RecordInv, SwapRecoverable, ArchiveMatchesJournal, InQueue,
                InArchive, At
  <2> QED BY <2>2, <2>3, <2>4 DEF RotationInv
<1>2. RotationInv /\ [Next]_vars => RotationInv'
  <2> SUFFICES ASSUME RotationInv, [Next]_vars PROVE RotationInv'
    OBVIOUS
  <2>1. CASE UNCHANGED vars
    BY <2>1 DEF vars, directories, RotationInv, TypeOK, UserInv, WriteInv, PlaceInv,
                RecordInv, SwapRecoverable, ArchiveMatchesJournal, At, WriteGuard,
                StoreHeld, Known, Recorded, InQueue, InArchive
  <2>2. ASSUME NEW p \in Programs,
               \/ OpenReadGuard(p) \/ OpenStore(p) \/ Exit(p)
               \/ \E n \in Nonces : Submit(p, n) \/ Start(p, n)
               \/ Rename(p) \/ Close(p) \/ Interrupt(p)
        PROVE  RotationInv'
    BY <2>2, UseStep, RenameStep, CloseStep, InterruptStep
  <2>3. CASE Work
    <3>1. Worker \in Programs
      BY DEF Programs
    <3> QED BY <2>3, <3>1, UseStep
  <2>4. CASE \E n \in Nonces : Age(n)
    BY <2>4, LookStep
  <2>5. CASE Rotate \/ Repair
    BY <2>5, LookStep, StopStep, JournalStep, PrepareStep, MoveOutStep, MoveInStep
       DEF Rotate
  <2> QED BY <2>1, <2>2, <2>3, <2>4, <2>5 DEF Next
<1> QED BY <1>1, <1>2, PTL DEF Spec

\* Directories and processes are what their types say, at every moment of a
\* rotation and after any interruption.
THEOREM TypeCorrect == Spec => []TypeOK
PROOF
<1>1. RotationInv => TypeOK
  BY DEF RotationInv
<1> QED BY <1>1, RotationInvariant, PTL

\* No accepted request is forgotten by any number of rotations.
THEOREM NothingForgotten == Spec => []AcceptedRemembered
PROOF
<1>1. RotationInv => AcceptedRemembered
  <2> SUFFICES ASSUME RotationInv, queue # None, NEW n \in accepted
               PROVE  n \in Known(queue)
    BY DEF AcceptedRemembered
  <2>1. n \in Nonces
    BY DEF RotationInv, TypeOK
  <2> QED BY <2>1 DEF RotationInv, RecordInv, InQueue, Known
<1> QED BY <1>1, RotationInvariant, PTL

\* An interrupted swap has left everything that completes it.
THEOREM SwapCanBeCompleted == Spec => []SwapRecoverable
PROOF
<1>1. RotationInv => SwapRecoverable
  BY DEF RotationInv
<1> QED BY <1>1, RotationInvariant, PTL

\* An archive is exactly what its journal says.
THEOREM ArchivesAreWhatWasJournalled == Spec => []ArchiveMatchesJournal
PROOF
<1>1. RotationInv => ArchiveMatchesJournal
  BY DEF RotationInv
<1> QED BY <1>1, RotationInvariant, PTL

\* The record of an accepted request is in exactly one place.
THEOREM EvidenceInOnePlace == Spec => []EvidenceKept
PROOF
<1>1. RotationInv => EvidenceKept
  <2> SUFFICES ASSUME RotationInv, NEW n \in accepted
               PROVE  \E place \in Places :
                          \A other \in Places : Holds(other, n) <=> other = place
    BY DEF EvidenceKept
  <2>1. n \in Nonces
    BY DEF RotationInv, TypeOK
  <2>2. /\ 0 \in Places /\ 0 \notin Generations
        /\ \A place \in Places : place # 0 => place \in Generations
        /\ \A g \in Generations : g \in Places /\ g # 0
    BY RotationAssumption DEF Places, Generations
  <2>3. \A g \in Generations : InArchive(g, n) => ~InQueue(n)
    BY <2>1 DEF RotationInv, RecordInv, InQueue
  <2>4. \A g, h \in Generations : InArchive(g, n) /\ InArchive(h, n) => g = h
    BY <2>1 DEF RotationInv, RecordInv
  <2>5. CASE InQueue(n)
    BY <2>2, <2>3, <2>5 DEF Holds
  <2>6. CASE ~InQueue(n)
    <3>1. PICK g \in Generations : InArchive(g, n)
      BY <2>6 DEF RotationInv, RecordInv
    <3> QED BY <2>2, <2>4, <2>6, <3>1 DEF Holds
  <2> QED BY <2>5, <2>6
<1> QED BY <1>1, RotationInvariant, PTL
-----------------------------------------------------------------------------
(* The refinement. *)

\* How the record of a request may go on in the queue.
Follows(from, to) ==
    \/ from = "none" /\ to = "submitted"
    \/ from = "submitted" /\ to \in {"queued", "ended"}
    \/ from = "queued" /\ to = "ended"

Holding(p) == program[p].pc \in {"open", "writing", "written"}

\* One program at a time has the store open, so that what it has read is still so
\* when it writes; and an inventory with no unfinished job stays one.
StepInv ==
    /\ \A p, q \in Programs : Holding(p) /\ Holding(q) => p = q
    /\ \A p \in Programs : program[p].pc = "writing" /\ program[p].nonce # None =>
          Follows(queue.records[program[p].nonce], program[p].state)
    /\ rotation.pc \in {"journal", "prepare", "fill", "moveOut"} =>
          \A n \in Nonces : Settled(n)

\* The records that can be read are the same as before.
RecordsKept ==
    /\ queue' = None <=> queue = None
    /\ queue # None => queue'.records = queue.records

LEMMA LeftoverKeeps ==
    ASSUME RotationInv, NEW p \in Programs, queue' = AfterKill(p)
    PROVE  RecordsKept
PROOF
<1>1. CASE program[p].pc = "writing"
  <2>1. queue # None /\ queue \in Directory
    BY <1>1 DEF RotationInv, UserInv, StoreHeld, TypeOK
  <2>2. [queue EXCEPT !.leftover = TRUE] \in Directory
    BY <2>1 DEF Directory
  <2>3. [queue EXCEPT !.leftover = TRUE].records = queue.records
    BY <2>1 DEF Directory
  <2> QED BY <1>1, <2>1, <2>2, <2>3, NoneIsNoDirectory DEF AfterKill, RecordsKept
<1>2. CASE program[p].pc # "writing"
  BY <1>2 DEF AfterKill, RecordsKept
<1> QED BY <1>1, <1>2

\* What a program may come to be while the records stay what they are.
LEMMA HolderStep ==
    ASSUME RotationInv, StepInv, RecordsKept,
           (rotation' = rotation /\ aged' = aged) \/ rotation'.pc = "guard",
           NEW p \in Programs, NEW pc, NEW n \in Nonces \cup {None}, NEW s,
           Goes(p, pc, n, s),
           pc \in {"open", "writing", "written"} => Holding(p) \/ ~StoreHeld,
           pc = "writing" /\ n # None => queue # None /\ Follows(queue.records[n], s)
    PROVE  StepInv'
PROOF
<1>1. /\ program'[p] = [pc |-> pc, nonce |-> n, state |-> s]
      /\ \A q \in Programs \ {p} : program'[q] = program[q]
  BY DEF Goes, RotationInv, TypeOK
<1>2. \A q, r \in Programs : Holding(q)' /\ Holding(r)' => q = r
  BY <1>1 DEF StepInv, Holding, StoreHeld
<1>3. ASSUME NEW q \in Programs, program'[q].pc = "writing", program'[q].nonce # None
      PROVE  Follows(queue'.records[program'[q].nonce], program'[q].state)
  <2>1. CASE q = p
    BY <1>1, <1>3, <2>1 DEF RecordsKept
  <2>2. CASE q # p
    <3>1. program'[q] = program[q] /\ queue # None
      BY <1>1, <1>3, <2>2 DEF RotationInv, UserInv, StoreHeld
    <3> QED BY <1>3, <3>1 DEF StepInv, RecordsKept
  <2> QED BY <2>1, <2>2
<1>4. rotation'.pc \in {"journal", "prepare", "fill", "moveOut"} =>
          \A m \in Nonces : Settled(m)'
  BY DEF StepInv, Settled, RecordsKept, RotationInv, PlaceInv
<1> QED BY <1>2, <1>3, <1>4 DEF StepInv

\* Nobody begins or ends anything, and where somebody has the store open the queue
\* is the same; the inventory is taken, or what it says is still so.
LEMMA QuietStep ==
    ASSUME RotationInv, StepInv, program' = program, StoreHeld => queue' = queue,
           rotation'.pc \in {"journal", "prepare", "fill", "moveOut"} =>
               /\ queue' = queue /\ aged \subseteq aged'
               /\ \A n \in Nonces : Settled(n)
    PROVE  StepInv'
PROOF
<1>1. \A q \in Programs : Holding(q)' <=> Holding(q)
  BY DEF Holding
<1>2. ASSUME NEW q \in Programs, program[q].pc = "writing"
      PROVE  queue' = queue
  BY <1>2 DEF StoreHeld
<1>3. rotation'.pc \in {"journal", "prepare", "fill", "moveOut"} =>
          \A n \in Nonces : Settled(n)'
  BY DEF Settled
<1> QED BY <1>1, <1>2, <1>3 DEF StepInv
LEMMA RenameHolds ==
    ASSUME RotationInv, StepInv, NEW p \in Programs, Rename(p)
    PROVE  StepInv'
PROOF
<1>1. program[p].pc = "writing" /\ ~WriteGuard /\ rotation' = rotation
  BY DEF Rename, RotationInv, UserInv
<1>2. /\ program'[p].pc = "written"
      /\ \A q \in Programs \ {p} : program'[q] = program[q] /\ ~Holding(q)
  BY <1>1 DEF Rename, RotationInv, TypeOK, StepInv, Holding
<1> QED BY <1>1, <1>2 DEF StepInv, Holding, WriteGuard

LEMMA StepKept ==
    ASSUME RotationInv, StepInv, [Next]_vars
    PROVE  StepInv'
PROOF
<1>0. None \in Nonces \cup {None} /\ Worker \in Programs
  BY DEF Programs
<1>1. \A p \in Programs : Holding(p) => queue # None
  BY DEF RotationInv, UserInv, StoreHeld, Holding
<1>2. OnlyProgram => RecordsKept /\ rotation' = rotation /\ aged' = aged
  BY DEF OnlyProgram, directories, RecordsKept
<1>3. ASSUME NEW p \in Programs, OpenReadGuard(p) \/ OpenStore(p) \/ Exit(p)
      PROVE  StepInv'
  <2>1. CASE OpenReadGuard(p)
    BY <1>0, <1>2, <2>1, HolderStep DEF OpenReadGuard
  <2>2. CASE OpenStore(p)
    BY <1>0, <1>2, <2>2, HolderStep DEF OpenStore
  <2>3. CASE Exit(p)
    BY <1>0, <1>2, <2>3, HolderStep DEF Exit
  <2> QED BY <1>3, <2>1, <2>2, <2>3
<1>4. ASSUME NEW p \in Programs, NEW n \in Nonces, Submit(p, n) \/ Start(p, n)
      PROVE  StepInv'
  <2>1. Holding(p) /\ queue # None /\ OnlyProgram
    BY <1>1, <1>4 DEF Submit, Start, Holding
  <2>2. CASE Submit(p, n)
    <3>1. CASE Goes(p, "written", n, "none")
      BY <1>2, <2>1, <3>1, HolderStep
    <3>2. CASE queue.records[n] = "none" /\ Goes(p, "writing", n, "submitted")
      BY <1>2, <2>1, <3>2, HolderStep DEF Follows
    <3> QED BY <2>2, <3>1, <3>2 DEF Submit
  <2>3. CASE Start(p, n)
    BY <1>2, <2>1, <2>3, HolderStep DEF Start, StartedAs, Follows
  <2> QED BY <1>4, <2>2, <2>3
<1>5. CASE Work
  <2>1. Holding(Worker) /\ queue # None /\ OnlyProgram
    BY <1>0, <1>1, <1>5 DEF Work, Holding
  <2>2. CASE Goes(Worker, "writing", None, "none")
    BY <1>0, <1>2, <2>1, <2>2, HolderStep
  <2>3. ASSUME NEW n \in Nonces, queue.records[n] = "queued", Goes(Worker, "writing", n, "ended")
        PROVE  StepInv'
    BY <1>0, <1>2, <2>1, <2>3, HolderStep DEF Follows
  <2> QED BY <1>5, <2>2, <2>3 DEF Work
<1>6. ASSUME NEW p \in Programs, Close(p) \/ Interrupt(p)
      PROVE  StepInv'
  <2>1. RecordsKept /\ rotation' = rotation /\ aged' = aged
    BY <1>6, LeftoverKeeps DEF Close, Interrupt, directories, RecordsKept
  <2>2. CASE Close(p)
    BY <1>0, <2>1, <2>2, HolderStep DEF Close
  <2>3. CASE Interrupt(p)
    BY <1>0, <2>1, <2>3, HolderStep DEF Interrupt
  <2> QED BY <1>6, <2>2, <2>3
<1>7. CASE StopWorker
  <2>1. RecordsKept /\ rotation'.pc = "guard"
    BY <1>0, <1>7, LeftoverKeeps DEF StopWorker, Proceed, RotationInv, TypeOK
  <2> QED BY <1>0, <1>7, <2>1, HolderStep DEF StopWorker
<1>8. CASE MoveOut \/ MoveIn
  <2>1. ~StoreHeld
    BY <1>8 DEF MoveOut, MoveIn, RotationInv, UserInv, PlaceInv
  <2>2. rotation'.pc \in {"moveIn", "verify"}
    BY <1>8 DEF MoveOut, MoveIn, Proceed, RotationInv, TypeOK
  <2> QED BY <1>8, <2>1, <2>2, QuietStep DEF MoveOut, MoveIn
<1>9. CASE TakeInventory
  BY <1>9, QuietStep DEF TakeInventory, Rotatable, OnlyRotation, directories
<1>10. CASE WriteJournal \/ PrepareReplacement \/ FillReplacement
  <2>1. rotation.pc \in {"journal", "prepare", "fill", "moveOut"}
    BY <1>10 DEF WriteJournal, PrepareReplacement, FillReplacement, At
  <2> QED BY <1>10, <2>1, QuietStep
          DEF WriteJournal, PrepareReplacement, FillReplacement, StepInv
<1>11. CASE \/ Begin \/ OpenWriteGuard \/ CheckNames \/ Verify \/ Finish \/ Refuse
            \/ InterruptRotation
  <2>1. rotation'.pc \notin {"journal", "prepare", "fill", "moveOut"}
    BY <1>11 DEF Begin, OpenWriteGuard, CheckNames, Verify, Finish, Refuse,
                 InterruptRotation, Proceed, RotationInv, TypeOK
  <2>2. program' = program /\ queue' = queue
    BY <1>11 DEF Begin, OpenWriteGuard, CheckNames, Verify, Finish, Refuse,
                 InterruptRotation, OnlyRotation, directories
  <2> QED BY <2>1, <2>2, QuietStep
<1>12. ASSUME Repair \/ UNCHANGED vars \/ \E n \in Nonces : Age(n)
       PROVE  StepInv'
  <2>1. program' = program /\ queue' = queue /\ rotation' = rotation /\ aged \subseteq aged'
    BY <1>12 DEF Repair, Age, vars, directories
  <2> QED BY <2>1, QuietStep DEF StepInv
<1> QED
  BY <1>3, <1>4, <1>5, <1>6, <1>7, <1>8, <1>9, <1>10, <1>11, <1>12, RenameHolds
  DEF Next, Rotate
\* The lifecycle of each request.
Stage == [n \in Nonces |-> StageOf(n)]

LEMMA SameStages ==
    ASSUME archive' = archive, RecordsKept
    PROVE  UNCHANGED Lifecycle!life
PROOF
<1>1. \A n \in Nonces : StageOf(n)' = StageOf(n)
  BY DEF StageOf, RecordsKept, Recorded
<1> QED BY <1>1 DEF Lifecycle!life

\* A renaming is a request accepted, started or ended.
LEMMA RenameMaps ==
    ASSUME RotationInv, RotationInv', StepInv, NEW p \in Programs, Rename(p)
    PROVE  [Lifecycle!LifeNext]_(Lifecycle!life)
PROOF
<1>1. program[p].pc = "writing" /\ archive' = archive /\ queue # None /\ queue \in Directory
  BY DEF Rename, RotationInv, UserInv, StoreHeld, TypeOK
<1>2. CASE program[p].nonce = None
  <2>1. RecordsKept
    BY <1>2 DEF Rename, RecordsKept
  <2> QED BY <1>1, <2>1, SameStages
<1>3. ASSUME program[p].nonce # None
      PROVE  Lifecycle!LifeNext
  <2>0. PICK m, s : m = program[p].nonce /\ s = program[p].state
    OBVIOUS
  <2>1. /\ m \in Nonces /\ s \in States /\ s # "none" /\ m \notin queue.tombstones
        /\ Follows(queue.records[m], s)
    BY <1>1, <1>3, <2>0 DEF RotationInv, TypeOK, Program, WriteInv, StepInv
  <2>2. queue' = [queue EXCEPT !.records[m] = s]
    BY <1>1, <1>3, <2>0 DEF Rename
  <2>3. queue' \in Directory /\ queue'.records = [queue.records EXCEPT ![m] = s]
    BY <1>1, <2>1, <2>2 DEF Directory
  <2>4. queue' # None
    BY <2>3, NoneIsNoDirectory
  <2>5. ~ \E g \in Generations : archive[g] # None /\ m \in Recorded(archive[g])
    BY <1>1, <2>1 DEF RotationInv, RecordInv, InArchive
  <2>6. \A n \in Nonces \ {m} : StageOf(n)' = StageOf(n)
    BY <1>1, <2>1, <2>3, <2>4 DEF StageOf, Recorded, Directory
  <2>7. StageOf(m)' = s
    BY <1>1, <2>1, <2>3, <2>4, <2>5 DEF StageOf, Recorded, Directory
  <2>8. StageOf(m) = IF queue.records[m] = "none" THEN "new" ELSE queue.records[m]
    BY <1>1, <2>1, <2>5 DEF StageOf, Recorded
  <2>9. Stage' = [Stage EXCEPT ![m] = s]
    BY <2>1, <2>6, <2>7 DEF Stage
  <2>10. Stage[m] = IF queue.records[m] = "none" THEN "new" ELSE queue.records[m]
    BY <2>1, <2>8 DEF Stage
  <2>11. CASE queue.records[m] = "none" /\ s = "submitted"
    <3>1. Lifecycle!Accept(m)
      BY <2>9, <2>10, <2>11 DEF Lifecycle!Accept, Lifecycle!Move, Stage
    <3> QED BY <2>1, <3>1 DEF Lifecycle!LifeNext
  <2>12. CASE queue.records[m] = "submitted" /\ s = "queued"
    <3>1. Lifecycle!Start(m)
      BY <2>9, <2>10, <2>12 DEF Lifecycle!Start, Lifecycle!Move, Stage
    <3> QED BY <2>1, <3>1 DEF Lifecycle!LifeNext
  <2>13. CASE queue.records[m] \in {"submitted", "queued"} /\ s = "ended"
    <3>1. Lifecycle!End(m)
      BY <2>9, <2>10, <2>13 DEF Lifecycle!End, Lifecycle!Move, Stage
    <3> QED BY <2>1, <3>1 DEF Lifecycle!LifeNext
  <2> QED BY <2>1, <2>11, <2>12, <2>13 DEF Follows
<1> QED BY <1>2, <1>3

\* The first move is the archive of the lifecycle.
LEMMA MoveOutMaps ==
    ASSUME RotationInv, StepInv, MoveOut
    PROVE  Lifecycle!LifeNext
PROOF
<1> DEFINE S == {n \in Nonces : Stage'[n] = "archived"}
<1>1. /\ queue # None /\ queue \in Directory /\ queue' = None /\ generation \in Generations
      /\ archive[generation] = None
      /\ \A n \in Nonces : Settled(n)
  BY DEF MoveOut, At, RotationInv, PlaceInv, TypeOK, StepInv
<1>2. archive' = [archive EXCEPT ![generation] = queue]
      /\ archive \in [Generations -> Directory \cup {None}]
  BY DEF MoveOut, RotationInv, TypeOK
<1>3. ASSUME NEW n \in Nonces
      PROVE  /\ StageOf(n) \notin {"queued", "running"}
             /\ StageOf(n) \in {"submitted", "ended"} => StageOf(n)' = "archived"
             /\ StageOf(n)' = IF StageOf(n)' = "archived" THEN "archived" ELSE StageOf(n)
  <2>1. CASE \E g \in Generations : archive[g] # None /\ n \in Recorded(archive[g])
    <3>1. StageOf(n) = "archived"
      BY <2>1 DEF StageOf, RotationInv, RecordInv, InArchive
    <3>2. StageOf(n)' = "archived"
      BY <1>1, <1>2, <2>1 DEF StageOf, Recorded
    <3> QED BY <3>1, <3>2
  <2>2. CASE /\ ~ \E g \in Generations : archive[g] # None /\ n \in Recorded(archive[g])
             /\ n \in Recorded(queue)
    <3>1. StageOf(n) = queue.records[n]
      BY <1>1, <2>2 DEF StageOf
    <3>2. StageOf(n)' = "archived"
      BY <1>1, <1>2, <2>2 DEF StageOf, Recorded
    <3>3. queue.records[n] \in {"none", "submitted", "ended"}
      BY <1>1 DEF Settled
    <3> QED BY <3>1, <3>2, <3>3
  <2>3. CASE /\ ~ \E g \in Generations : archive[g] # None /\ n \in Recorded(archive[g])
             /\ n \notin Recorded(queue)
    <3>1. StageOf(n) = "new"
      BY <2>3 DEF StageOf
    <3>2. StageOf(n)' = "new"
      BY <1>1, <1>2, <2>3 DEF StageOf, Recorded
    <3> QED BY <3>1, <3>2
  <2> QED BY <2>1, <2>2, <2>3
<1>4. Lifecycle!Archive(S)
  <2>1. Stage' = [n \in Nonces |-> IF n \in S THEN "archived" ELSE Stage[n]]
    BY <1>3 DEF Stage
  <2>2. \A n \in Nonces : Stage[n] = StageOf(n) /\ Stage'[n] = StageOf(n)'
    BY DEF Stage
  <2>3. {n \in Nonces : Stage[n] \in {"submitted", "ended"}} \subseteq S
    BY <1>3, <2>2
  <2>4. \A n \in Nonces : Stage[n] \notin {"queued", "running"}
    BY <1>3, <2>2
  <2> HIDE DEF S
  <2> QED BY <2>1, <2>3, <2>4 DEF Lifecycle!Archive, Stage
<1>5. S \in SUBSET Nonces
  OBVIOUS
<1> QED BY <1>4, <1>5 DEF Lifecycle!LifeNext

LEMMA Simulation ==
    ASSUME RotationInv, RotationInv', StepInv, [Next]_vars
    PROVE  [Lifecycle!LifeNext]_(Lifecycle!life)
PROOF
<1> DEFINE Maps == [Lifecycle!LifeNext]_(Lifecycle!life)
<1>1. ASSUME MoveIn
      PROVE  Maps
  <2>1. \A n \in Nonces : StageOf(n)' = StageOf(n)
    BY <1>1 DEF MoveIn, StageOf, RotationInv, PlaceInv, Recorded
  <2> QED BY <2>1 DEF Lifecycle!life
<1>2. ASSUME NEW p \in Programs, Interrupt(p)
      PROVE  Maps
  <2>1. archive' = archive /\ RecordsKept
    BY <1>2, LeftoverKeeps DEF Interrupt
  <2> QED BY <2>1, SameStages
<1>3. ASSUME StopWorker
      PROVE  Maps
  <2>1. archive' = archive /\ RecordsKept
    BY <1>3, LeftoverKeeps DEF StopWorker, Programs
  <2> QED BY <2>1, SameStages
<1>4. ASSUME UNCHANGED <<archive, queue>>
      PROVE  Maps
  BY <1>4, SameStages DEF RecordsKept
<1>5. ASSUME NEW p \in Programs,
             \/ OpenReadGuard(p) \/ OpenStore(p) \/ Exit(p)
             \/ \E n \in Nonces : Submit(p, n) \/ Start(p, n)
             \/ Close(p)
      PROVE  UNCHANGED <<archive, queue>>
  BY <1>5 DEF OpenReadGuard, OpenStore, Exit, Submit, Start, Close, OnlyProgram, directories
<1>6. ASSUME Work \/ Repair \/ UNCHANGED vars \/ \E n \in Nonces : Age(n)
      PROVE  UNCHANGED <<archive, queue>>
  BY <1>6 DEF Work, Repair, Age, OnlyProgram, vars, directories
<1>7. ASSUME \/ Begin \/ OpenWriteGuard \/ CheckNames \/ TakeInventory \/ WriteJournal
             \/ PrepareReplacement \/ FillReplacement \/ Verify \/ Finish \/ Refuse
             \/ InterruptRotation
      PROVE  UNCHANGED <<archive, queue>>
  BY <1>7 DEF Begin, OpenWriteGuard, CheckNames, TakeInventory, WriteJournal,
         PrepareReplacement, FillReplacement, Verify, Finish, Refuse,
         InterruptRotation, OnlyRotation, directories
<1>8. ASSUME NEW p \in Programs, Rename(p)
      PROVE  Maps
  BY <1>8, RenameMaps
<1>9. ASSUME MoveOut
      PROVE  Maps
  BY <1>9, MoveOutMaps
<1>10. Maps
  <2> HIDE DEF Maps
  <2> QED
    BY <1>1, <1>2, <1>3, <1>4, <1>5, <1>6, <1>7, <1>8, <1>9 DEF Next, Rotate
<1> QED BY <1>10

\* The rotation step by step, with gateways and the worker between its steps and
\* kills at any of them, is the one archive of the lifecycle, and nothing else
\* that happens takes a request back (Archive-ValidationQueue.ps1).
THEOREM RotationImplementsLifecycle == Spec => ImplementsLifecycle
PROOF
<1>1. Init => Lifecycle!LifeInit
  BY DEF Init, Lifecycle!LifeInit, StageOf, Recorded, Empty
<1>2. Init => StepInv
  BY DEF Init, StepInv, Holding, Out
<1>3. RotationInv /\ StepInv /\ [Next]_vars => StepInv'
  BY StepKept
<1>4. RotationInv /\ RotationInv' /\ StepInv /\ [Next]_vars
          => [Lifecycle!LifeNext]_(Lifecycle!life)
  BY Simulation
<1> QED
  BY <1>1, <1>2, <1>3, <1>4, RotationInvariant, PTL
  DEF Spec, ImplementsLifecycle, Lifecycle!LifeSpec
=============================================================================
