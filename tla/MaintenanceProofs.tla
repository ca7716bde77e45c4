------------------------- MODULE MaintenanceProofs -------------------------
(***************************************************************************)
(* Proofs about Maintenance for every value of its constants: any number   *)
(* of requests, gateways, deployments and kills, any limits.               *)
(***************************************************************************)
EXTENDS Maintenance, TLAPS

-----------------------------------------------------------------------------
(* What the executor's three ways to go on do to its process. *)

\* Goto changes the point and nothing else.
LEMMA GotoFacts ==
    ASSUME TypeOK, NEW p \in Points, Goto(p)
    PROVE  /\ exec' \in Executor
           /\ exec'.pc = p
           /\ exec'.then = exec.then
           /\ exec'.request = exec.request
           /\ exec'.writeGuard = exec.writeGuard
BY DEF TypeOK, Goto, Executor

\* Record writes the receipt of the request, whose status is saved next.
LEMMA RecordFacts ==
    ASSUME TypeOK, ExecInv, exec.pc # "idle",
           NEW receipt \in Receipt, NEW p \in Points, Record(receipt, p)
    PROVE  /\ exec' \in Executor
           /\ exec'.pc = "save"
           /\ exec'.then = p
           /\ exec'.request = exec.request
           /\ exec'.writeGuard = exec.writeGuard
           /\ exec.request \in Requests
           /\ receipt # None
           /\ receipts' \in [Requests -> Receipt \cup {None}]
           /\ receipts'[exec.request] = receipt
           /\ \A r \in Requests : r # exec.request => receipts'[r] = receipts[r]
PROOF
<1>1. exec.request \in Requests
  BY DEF TypeOK, ExecInv, Executor
<1>2. "save" \in Points
  BY DEF Points
<1>3. receipt # None
  BY NoneIsNoFile
<1>4. exec' \in Executor
  BY <1>2 DEF Record, TypeOK, Executor
<1> QED BY <1>1, <1>3, <1>4 DEF Record, TypeOK, Executor

\* A process that ended is nowhere and holds nothing.
LEMMA IdleFacts ==
    /\ Idle \in Executor
    /\ Idle.pc = "idle"
    /\ Idle.then = "idle"
    /\ Idle.request = None
    /\ Idle.writeGuard = FALSE
BY DEF Idle, Executor, Points

-----------------------------------------------------------------------------
(* Initially. *)

\* A fresh installation.
LEMMA InitKeepsInv ==
    ASSUME Init
    PROVE  MaintenanceInv
PROOF
<1> USE MaintenanceAssumption, IdleFacts
<1>1. TypeOK
  BY DEF Init, TypeOK, Closed, Reader
<1>2. RequestInv /\ ExecInv /\ BegunInv
  BY DEF Init, RequestInv, ExecInv, BegunInv, BegunOnce
<1>3. GuardInv
  BY DEF Init, GuardInv, Closed, ReadersSeeActive
<1>4. LimitInv /\ ReceiptInv
  BY DEF Init, LimitInv, ActiveReadable, ReceiptInv, Heading
<1>5. StatusInv
  BY DEF Init, StatusInv
<1>6. SelectionInv /\ ArchiveInv
  BY DEF Init, SelectionInv, ArchiveInv, Heading
<1> QED BY <1>1, <1>2, <1>3, <1>4, <1>5, <1>6 DEF MaintenanceInv

-----------------------------------------------------------------------------
(* Clients and gateways. *)

\* A signature leaves the executor's own request alone: that one is signed.
LEMMA SignKeepsInv ==
    ASSUME MaintenanceInv, NEW r \in Requests, NEW action \in Actions,
           NEW d \in Deployments \cup {None}, Sign(r, action, d)
    PROVE  MaintenanceInv'
PROOF
<1> USE DEF MaintenanceInv
<1> DEFINE content == [action |-> action, generation |-> active.generation,
                       seen |-> active.deployment, deployment |-> d]
<1>1. content \in Request /\ content # None
  BY NoneIsNoFile DEF Sign, TypeOK, Request
<1>2. /\ signed' \in [Requests -> Request \cup {None}]
      /\ signed'[r] = content /\ signed[r] = None
      /\ \A q \in Requests : q # r => signed'[q] = signed[q]
  BY <1>1 DEF Sign, TypeOK
<1>3. content.action = "activate" <=> content.deployment # None
  BY DEF Sign
<1> HIDE DEF content
<1>4. UNCHANGED <<expired, entrance, inbox, control, hosts, exec, history>>
  BY DEF Sign
<1>5. TypeOK'
  BY <1>2, <1>4 DEF TypeOK, entrance, control, hosts, history
<1>6. RequestInv'
  BY <1>1, <1>2, <1>3, <1>4 DEF RequestInv, TypeOK, entrance
<1>7. exec.pc # "idle" => exec.request \in Requests /\ exec.request # r
  BY <1>2 DEF ExecInv, TypeOK, Executor
<1>8. ExecInv' /\ SelectionInv'
  BY <1>2, <1>4, <1>7 DEF ExecInv, SelectionInv, Heading, control
<1>9. /\ BegunInv' /\ GuardInv' /\ LimitInv' /\ StatusInv' /\ ReceiptInv'
      /\ ArchiveInv'
  BY <1>4 DEF BegunInv, BegunOnce, GuardInv, ReadersSeeActive, LimitInv,
              ActiveReadable, StatusInv, ReceiptInv, ArchiveInv, Heading,
              control, hosts, history
<1> QED BY <1>5, <1>6, <1>8, <1>9

\* Expiry decides nothing that is remembered.
LEMMA ExpireKeepsInv ==
    ASSUME MaintenanceInv, NEW r \in Requests, Expire(r)
    PROVE  MaintenanceInv'
BY DEF MaintenanceInv, Expire, TypeOK, RequestInv, ExecInv, BegunInv, BegunOnce,
       GuardInv, ReadersSeeActive, LimitInv, ActiveReadable, StatusInv, ReceiptInv,
       SelectionInv, ArchiveInv, Heading, entrance, control, hosts, history

\* The entrance only ever lets signed requests in.
LEMMA GatewayKeepsInv ==
    ASSUME MaintenanceInv, NEW g \in Gateways,
           \/ \E r \in Requests : GatewayChecks(g, r)
           \/ GatewayQueues(g)
           \/ GatewayGivesUp(g)
    PROVE  MaintenanceInv'
PROOF
<1> USE DEF MaintenanceInv
<1>1. UNCHANGED <<requests, control, hosts, exec, history>>
  BY DEF GatewayChecks, GatewayQueues, GatewayGivesUp
<1>2. TypeOK' /\ RequestInv'
  <2>1. ASSUME NEW r \in Requests, GatewayChecks(g, r)
        PROVE  TypeOK' /\ RequestInv'
    BY <2>1 DEF GatewayChecks, TypeOK, RequestInv, requests, control, hosts, history
  <2>2. CASE GatewayQueues(g)
    BY <2>2 DEF GatewayQueues, TypeOK, RequestInv, requests, control, hosts, history
  <2>3. CASE GatewayGivesUp(g)
    BY <2>3 DEF GatewayGivesUp, TypeOK, RequestInv, requests, control, hosts, history
  <2> QED BY <2>1, <2>2, <2>3
<1>3. /\ ExecInv' /\ BegunInv' /\ GuardInv' /\ LimitInv' /\ StatusInv' /\ ReceiptInv'
      /\ SelectionInv' /\ ArchiveInv'
  BY <1>1 DEF ExecInv, BegunInv, BegunOnce, GuardInv, ReadersSeeActive, LimitInv,
              ActiveReadable, StatusInv, ReceiptInv, SelectionInv, ArchiveInv,
              Heading, requests, control, hosts, history
<1> QED BY <1>2, <1>3

-----------------------------------------------------------------------------
(* Readers of the selection, and the administrator. *)

\* A handle opens while there is no exclusive one, and the selection is read
\* under it.
LEMMA ReadersKeepInv ==
    ASSUME MaintenanceInv, NEW p \in Readers,
           \/ OpenReadGuard(p)
           \/ ReadSelection(p)
           \/ CloseReadGuard(p)
    PROVE  MaintenanceInv'
PROOF
<1> USE DEF MaintenanceInv
<1>1. UNCHANGED <<requests, entrance, inbox, control, enabled, exec, history>>
  BY DEF OpenReadGuard, ReadSelection, CloseReadGuard
<1>2. active.deployment \in Deployments /\ reader \in [Readers -> Reader]
  BY DEF TypeOK
<1>3. reader' \in [Readers -> Reader]
  <2>1. CASE OpenReadGuard(p)
    BY <1>2, <2>1 DEF OpenReadGuard, Reader
  <2>2. CASE ReadSelection(p)
    BY <1>2, <2>2 DEF ReadSelection, Reader
  <2>3. CASE CloseReadGuard(p)
    BY <1>2, <2>3 DEF CloseReadGuard, Closed, Reader
  <2> QED BY <2>1, <2>2, <2>3
<1>4. TypeOK'
  BY <1>1, <1>3 DEF TypeOK, requests, entrance, control, history
<1>5. GuardInv'
  <2>1. CASE OpenReadGuard(p)
    BY <1>1, <1>2, <2>1 DEF OpenReadGuard, GuardInv, ReadersSeeActive, control, Reader
  <2>2. CASE ReadSelection(p)
    BY <1>1, <1>2, <2>2 DEF ReadSelection, GuardInv, ReadersSeeActive, control, Reader
  <2>3. CASE CloseReadGuard(p)
    BY <1>1, <1>2, <2>3 DEF CloseReadGuard, Closed, GuardInv, ReadersSeeActive, control
  <2> QED BY <2>1, <2>2, <2>3
<1>6. /\ RequestInv' /\ ExecInv' /\ BegunInv' /\ LimitInv' /\ StatusInv' /\ ReceiptInv'
      /\ SelectionInv' /\ ArchiveInv'
  BY <1>1 DEF RequestInv, ExecInv, BegunInv, BegunOnce, LimitInv, ActiveReadable,
              StatusInv, ReceiptInv, SelectionInv, ArchiveInv, Heading,
              requests, entrance, control, history
<1> QED BY <1>4, <1>5, <1>6

\* Enabling the task never contradicts the status.
LEMMA LocalRepairKeepsInv ==
    ASSUME MaintenanceInv, LocalRepair
    PROVE  MaintenanceInv'
BY DEF MaintenanceInv, LocalRepair, TypeOK, RequestInv, ExecInv, BegunInv, BegunOnce,
       GuardInv, ReadersSeeActive, LimitInv, ActiveReadable, StatusInv, ReceiptInv,
       SelectionInv, ArchiveInv, Heading, requests, entrance, control, history

-----------------------------------------------------------------------------
(* The executor goes on without a receipt. *)

\* It looks at the pending request.
LEMMA BeginKeepsInv ==
    ASSUME MaintenanceInv, Begin
    PROVE  MaintenanceInv'
PROOF
<1> USE DEF MaintenanceInv
<1>1. inbox \in Requests /\ inbox # None /\ signed[inbox] # None
  BY MaintenanceAssumption DEF Begin, TypeOK, RequestInv
<1>2. /\ exec' \in Executor
      /\ exec'.pc = "check" /\ exec'.request = inbox /\ exec'.writeGuard = FALSE
  BY <1>1 DEF Begin, Idle, Executor, Points
<1>3. UNCHANGED <<requests, entrance, inbox, control, hosts, history>>
  BY DEF Begin
<1>4. TypeOK'
  BY <1>2, <1>3 DEF TypeOK, requests, entrance, control, hosts, history
<1>5. ExecInv'
  BY <1>1, <1>2, <1>3 DEF ExecInv, requests
<1>6. GuardInv' /\ StatusInv'
  BY <1>2, <1>3 DEF GuardInv, ReadersSeeActive, StatusInv, control, hosts
<1>7. LimitInv' /\ ReceiptInv' /\ SelectionInv' /\ ArchiveInv'
  BY <1>2, <1>3 DEF LimitInv, ActiveReadable, ReceiptInv, SelectionInv, ArchiveInv,
                    Heading, control
<1>8. RequestInv' /\ BegunInv'
  BY <1>3 DEF RequestInv, BegunInv, BegunOnce, requests, entrance, control, history
<1> QED BY <1>4, <1>5, <1>6, <1>7, <1>8

\* It ends without a word: the request is known, the quota is used up, or it dies.
LEMMA EndKeepsInv ==
    ASSUME MaintenanceInv, Forget \/ QuotaReached \/ ExecutorDies
    PROVE  MaintenanceInv'
PROOF
<1> USE DEF MaintenanceInv
<1>1. /\ exec' = Idle /\ inbox' \in {inbox, None} /\ deaths' \in Nat
      /\ UNCHANGED <<requests, entrance, control, hosts, begun>>
  BY DEF Forget, QuotaReached, ExecutorDies, TypeOK, history
<1>2. TypeOK'
  BY <1>1, IdleFacts DEF TypeOK, requests, entrance, control, hosts
<1>3. RequestInv' /\ ExecInv' /\ BegunInv'
  BY <1>1, IdleFacts DEF RequestInv, ExecInv, BegunInv, BegunOnce, requests,
                         entrance, control
<1>4. GuardInv' /\ StatusInv'
  BY <1>1, IdleFacts DEF GuardInv, ReadersSeeActive, StatusInv, control, hosts
<1>5. LimitInv' /\ ReceiptInv' /\ SelectionInv' /\ ArchiveInv'
  BY <1>1, IdleFacts DEF LimitInv, ActiveReadable, ReceiptInv, SelectionInv,
                         ArchiveInv, Heading, control
<1> QED BY <1>2, <1>3, <1>4, <1>5

\* It waits, verifies, or finishes the work it does in one step.
LEMMA MoveKeepsInv ==
    ASSUME MaintenanceInv, WorkerStopped \/ ArchiveDone \/ Repair
    PROVE  MaintenanceInv'
PROOF
<1> USE DEF MaintenanceInv
<1>1. /\ exec.pc \in {"stopped", "act", "archiving"}
      /\ UNCHANGED <<requests, entrance, inbox, control, hosts, history>>
  BY DEF WorkerStopped, ArchiveDone, Repair
<1>2. /\ exec' \in Executor
      /\ exec'.pc = IF exec.pc = "stopped" THEN "guard" ELSE "activated"
      /\ exec'.request = exec.request
      /\ exec'.writeGuard = exec.writeGuard
      /\ exec.pc # "stopped" => signed[exec.request].action # "activate"
  <2>1. CASE WorkerStopped
    BY <2>1, GotoFacts DEF WorkerStopped, Points
  <2>2. CASE ArchiveDone
    BY <2>2, GotoFacts DEF ArchiveDone, Points, ExecInv
  <2>3. CASE Repair
    BY <2>3, GotoFacts DEF Repair, Points
  <2> QED BY <2>1, <2>2, <2>3
<1>3. TypeOK' /\ RequestInv' /\ BegunInv'
  BY <1>1, <1>2 DEF TypeOK, RequestInv, BegunInv, BegunOnce, requests, entrance,
                    control, hosts, history
<1>4. ExecInv' /\ GuardInv' /\ StatusInv'
  BY <1>1, <1>2 DEF ExecInv, GuardInv, ReadersSeeActive, StatusInv, requests,
                    control, hosts
<1>5. LimitInv' /\ ReceiptInv' /\ SelectionInv' /\ ArchiveInv'
  BY <1>1, <1>2 DEF LimitInv, ActiveReadable, ReceiptInv, SelectionInv,
                    ArchiveInv, Heading, Points, requests, control
<1> QED BY <1>3, <1>4, <1>5

\* It takes the exclusive handle, while no reader holds one, and gives it back.
LEMMA WriteGuardKeepsInv ==
    ASSUME MaintenanceInv, OpenWriteGuard \/ ReleaseGuard
    PROVE  MaintenanceInv'
PROOF
<1> USE DEF MaintenanceInv
<1>1. /\ exec' \in Executor
      /\ \/ exec.pc = "guard" /\ exec'.pc = "act" /\ \A p \in Readers : ~reader[p].held
         \/ exec.pc = "release" /\ exec'.pc = "enable" /\ exec'.writeGuard = FALSE
      /\ exec'.request = exec.request
      /\ exec'.pc = "act" => exec'.writeGuard
      /\ UNCHANGED <<requests, entrance, inbox, control, hosts, history>>
  BY DEF OpenWriteGuard, ReleaseGuard, TypeOK, Executor, Points
<1>2. TypeOK' /\ RequestInv' /\ BegunInv'
  BY <1>1 DEF TypeOK, RequestInv, BegunInv, BegunOnce, requests, entrance,
              control, hosts, history
<1>3. ExecInv' /\ GuardInv' /\ StatusInv'
  BY <1>1 DEF ExecInv, GuardInv, ReadersSeeActive, StatusInv, requests, control, hosts
<1>4. LimitInv' /\ ReceiptInv' /\ SelectionInv' /\ ArchiveInv'
  BY <1>1 DEF LimitInv, ActiveReadable, ReceiptInv, SelectionInv, ArchiveInv,
              Heading, Points, requests, control
<1> QED BY <1>2, <1>3, <1>4

\* It takes the request out of the inbox, to reject it or to carry it out.
LEMMA TakeKeepsInv ==
    ASSUME MaintenanceInv, Reject \/ RemovePending
    PROVE  MaintenanceInv'
PROOF
<1> USE DEF MaintenanceInv
<1>1. /\ inbox' = None
      /\ UNCHANGED <<requests, entrance, control, hosts, history>>
  BY DEF Reject, RemovePending
<1>2. /\ exec' \in Executor
      /\ exec'.request = exec.request
      /\ exec'.writeGuard = exec.writeGuard
      /\ \/ exec.pc = "check" /\ exec'.pc = "reject" /\ receipts[exec.request] = None
         \/ exec.pc = "remove" /\ exec'.pc = "stopping"
         \/ exec.pc = "remove" /\ exec'.pc = "stage"
               /\ signed[exec.request].action = "activate"
  <2>1. CASE Reject
    BY <2>1, GotoFacts DEF Reject, Known, Points
  <2>2. CASE RemovePending
    BY <2>2 DEF RemovePending, TypeOK, Executor, Points
  <2> QED BY <2>1, <2>2
<1>3. TypeOK' /\ RequestInv' /\ BegunInv'
  BY <1>1, <1>2 DEF TypeOK, RequestInv, BegunInv, BegunOnce, requests, entrance,
                    control, hosts, history
<1>4. ExecInv' /\ GuardInv' /\ StatusInv'
  BY <1>1, <1>2 DEF ExecInv, GuardInv, ReadersSeeActive, StatusInv, requests,
                    control, hosts
<1>5. LimitInv' /\ ReceiptInv' /\ SelectionInv' /\ ArchiveInv'
  BY <1>1, <1>2 DEF LimitInv, ActiveReadable, ReceiptInv, SelectionInv,
                    ArchiveInv, Heading, Points, requests, control
<1> QED BY <1>3, <1>4, <1>5

-----------------------------------------------------------------------------
(* The executor changes the selection, the programs, or the task. *)

\* The generation grows by one, up to the limit, past every archive's name.
LEMMA ConsumeKeepsInv ==
    ASSUME MaintenanceInv, ConsumeGeneration
    PROVE  MaintenanceInv'
PROOF
<1> USE DEF MaintenanceInv
<1>1. /\ exec' \in Executor /\ exec.pc = "consume" /\ exec'.pc = "remove"
      /\ exec'.request = exec.request /\ exec'.writeGuard = exec.writeGuard
  BY GotoFacts DEF ConsumeGeneration, Points
<1>2. UNCHANGED <<requests, entrance, inbox, receipts, latest, programs, archives,
                  hosts, history>>
  BY DEF ConsumeGeneration
<1>3. /\ active' \in [generation : Nat, deployment : Deployments]
      /\ active'.generation = active.generation + 1
      /\ active'.deployment = active.deployment
      /\ active.generation \in Nat
  BY DEF ConsumeGeneration, TypeOK
<1>4. TypeOK' /\ RequestInv' /\ BegunInv'
  BY <1>1, <1>2, <1>3 DEF TypeOK, RequestInv, BegunInv, BegunOnce, requests,
                          entrance, hosts, history
<1>5. ExecInv' /\ GuardInv' /\ StatusInv'
  BY <1>1, <1>2, <1>3 DEF ExecInv, GuardInv, ReadersSeeActive, StatusInv, requests,
                          hosts
<1>6. LimitInv'
  BY <1>1, <1>3, MaintenanceAssumption DEF LimitInv, ActiveReadable, Heading
<1>7. ReceiptInv' /\ SelectionInv'
  BY <1>1, <1>2, <1>3 DEF ReceiptInv, SelectionInv, Heading, Points, requests
<1>8. ArchiveInv'
  <2>1. \A a \in archives : a <= active.generation /\ a \in Nat
    BY DEF ArchiveInv, TypeOK
  <2>2. \A a \in archives' : a <= active'.generation /\ a # active'.generation
    BY <1>2, <1>3, <2>1
  <2> QED BY <2>2 DEF ArchiveInv
<1> QED BY <1>4, <1>5, <1>6, <1>7, <1>8

\* A program is added; no selection changes.
LEMMA StageKeepsInv ==
    ASSUME MaintenanceInv, Stage
    PROVE  MaintenanceInv'
PROOF
<1> USE DEF MaintenanceInv
<1>1. /\ exec' \in Executor /\ exec.pc = "stage" /\ exec'.pc = "staged"
      /\ exec'.request = exec.request /\ exec'.writeGuard = exec.writeGuard
  BY GotoFacts DEF Stage, Points
<1>2. UNCHANGED <<requests, entrance, inbox, active, receipts, latest, archives,
                  hosts, history>>
  BY DEF Stage
<1>3. programs' \subseteq Deployments
  <2>1. signed[exec.request] \in Request /\ signed[exec.request].deployment # None
    BY <1>1 DEF ExecInv, RequestInv, TypeOK, Executor
  <2> QED BY <2>1 DEF Stage, TypeOK, Request
<1>4. TypeOK' /\ RequestInv' /\ BegunInv'
  BY <1>1, <1>2, <1>3 DEF TypeOK, RequestInv, BegunInv, BegunOnce, requests,
                          entrance, hosts, history
<1>5. ExecInv' /\ GuardInv' /\ StatusInv'
  BY <1>1, <1>2 DEF ExecInv, GuardInv, ReadersSeeActive, StatusInv, requests, hosts
<1>6. LimitInv' /\ ReceiptInv' /\ SelectionInv' /\ ArchiveInv'
  BY <1>1, <1>2 DEF LimitInv, ActiveReadable, ReceiptInv, SelectionInv, ArchiveInv,
                    Heading, Points, requests
<1> QED BY <1>4, <1>5, <1>6

\* The task is disabled after the status said so, and enabled before it says
\* completed.
LEMMA TaskKeepsInv ==
    ASSUME MaintenanceInv, DisableWorker \/ EnableWorker
    PROVE  MaintenanceInv'
PROOF
<1> USE DEF MaintenanceInv
<1>1. UNCHANGED <<requests, entrance, inbox, control, reader, history>>
  BY DEF DisableWorker, EnableWorker
<1>2. /\ exec' \in Executor
      /\ \/ exec.pc = "stop" /\ exec'.pc = "stopped" /\ enabled' = FALSE
         \/ exec.pc = "enable" /\ exec'.pc = "completed" /\ enabled' = TRUE
      /\ exec'.request = exec.request /\ exec'.writeGuard = exec.writeGuard
  BY GotoFacts DEF DisableWorker, EnableWorker, Points
<1>3. TypeOK' /\ RequestInv' /\ BegunInv'
  BY <1>1, <1>2 DEF TypeOK, RequestInv, BegunInv, BegunOnce, requests, entrance,
                    control, history
<1>4. ExecInv' /\ GuardInv' /\ StatusInv'
  BY <1>1, <1>2 DEF ExecInv, GuardInv, ReadersSeeActive, StatusInv, requests, control
<1>5. LimitInv' /\ ReceiptInv' /\ SelectionInv' /\ ArchiveInv'
  BY <1>1, <1>2 DEF LimitInv, ActiveReadable, ReceiptInv, SelectionInv, ArchiveInv,
                    Heading, Points, requests, control
<1> QED BY <1>3, <1>4, <1>5

\* The archive takes the name of the generation just used up.
LEMMA ArchiveKeepsInv ==
    ASSUME MaintenanceInv, StartArchive
    PROVE  MaintenanceInv'
PROOF
<1> USE DEF MaintenanceInv
<1>1. /\ exec' \in Executor /\ exec.pc = "act" /\ exec'.pc = "archiving"
      /\ exec'.request = exec.request /\ exec'.writeGuard = exec.writeGuard
      /\ signed[exec.request].action = "archive"
  BY GotoFacts DEF StartArchive, Points
<1>2. /\ archives' = archives \cup {active.generation}
      /\ UNCHANGED <<requests, entrance, inbox, active, receipts, latest, programs,
                     hosts, history>>
  BY DEF StartArchive
<1>3. active.generation \in Nat
  BY DEF TypeOK
<1>4. TypeOK' /\ RequestInv' /\ BegunInv'
  BY <1>1, <1>2, <1>3 DEF TypeOK, RequestInv, BegunInv, BegunOnce, requests,
                          entrance, hosts, history
<1>5. ExecInv' /\ GuardInv' /\ StatusInv'
  BY <1>1, <1>2 DEF ExecInv, GuardInv, ReadersSeeActive, StatusInv, requests, hosts
<1>6. LimitInv' /\ ReceiptInv' /\ SelectionInv' /\ ArchiveInv'
  BY <1>1, <1>2, <1>3 DEF LimitInv, ActiveReadable, ReceiptInv, SelectionInv,
                          ArchiveInv, Heading, Points, requests
<1> QED BY <1>4, <1>5, <1>6

\* The selection is switched while no reader holds a program.
LEMMA ActivateKeepsInv ==
    ASSUME MaintenanceInv, Activate
    PROVE  MaintenanceInv'
PROOF
<1> USE DEF MaintenanceInv
<1>1. /\ exec' \in Executor /\ exec.pc = "act" /\ exec'.pc = "activated"
      /\ exec'.request = exec.request /\ exec'.writeGuard = exec.writeGuard
  BY GotoFacts DEF Activate, Points
<1>2. UNCHANGED <<requests, entrance, inbox, receipts, latest, programs, archives,
                  hosts, history>>
  BY DEF Activate
<1>3. signed[exec.request] \in Request /\ signed[exec.request].deployment \in Deployments
  BY <1>1 DEF Activate, ExecInv, RequestInv, TypeOK, Executor, Request
<1>4. /\ active' \in [generation : Nat, deployment : Deployments]
      /\ active'.generation = active.generation
      /\ active'.deployment = signed[exec.request].deployment
  BY <1>3 DEF Activate, TypeOK
<1>5. TypeOK' /\ RequestInv' /\ BegunInv'
  BY <1>1, <1>2, <1>4 DEF TypeOK, RequestInv, BegunInv, BegunOnce, requests,
                          entrance, hosts, history
<1>6. GuardInv'
  <2>1. \A p \in Readers : ~reader[p].held /\ reader[p].program = None
    BY <1>1 DEF GuardInv
  <2> QED BY <1>1, <1>2, <2>1 DEF GuardInv, ReadersSeeActive, hosts
<1>7. ExecInv' /\ StatusInv' /\ LimitInv' /\ ReceiptInv'
  BY <1>1, <1>2, <1>4 DEF ExecInv, StatusInv, LimitInv, ActiveReadable, ReceiptInv,
                          Heading, Points, requests, hosts
<1>8. SelectionInv' /\ ArchiveInv'
  BY <1>1, <1>2, <1>4 DEF SelectionInv, ArchiveInv, Heading, requests
<1> QED BY <1>5, <1>6, <1>7, <1>8

-----------------------------------------------------------------------------
(* The executor records. *)

\* The status is that of a request.
LEMMA StatusIsOfRequest ==
    ASSUME TypeOK, latest # None
    PROVE  latest.request \in Requests
BY DEF TypeOK, Status

\* Only a request without a receipt, below the limits, is accepted.
LEMMA AcceptKeepsInv ==
    ASSUME MaintenanceInv, Accept
    PROVE  MaintenanceInv'
PROOF
<1> USE DEF MaintenanceInv
<1> DEFINE receipt == [phase |-> "prepared", failedPhase |-> "none",
                       generation |-> active.generation + 1]
<1>1. receipt \in Receipt /\ receipt.phase = "prepared"
  BY DEF TypeOK, Receipt, Phases
<1>2. /\ exec.pc = "check" /\ receipts[exec.request] = None
      /\ Record(receipt, "consume")
      /\ begun' = [begun EXCEPT ![exec.request] = @ + 1]
      /\ UNCHANGED <<requests, entrance, inbox, active, latest, programs, archives,
                     hosts, deaths>>
  BY DEF Accept, Known
<1> HIDE DEF receipt
<1>3. /\ exec' \in Executor /\ exec'.pc = "save" /\ exec'.then = "consume"
      /\ exec'.request = exec.request /\ exec'.writeGuard = exec.writeGuard
      /\ exec.request \in Requests
      /\ receipts' \in [Requests -> Receipt \cup {None}]
      /\ receipts'[exec.request] = receipt /\ receipt # None
      /\ \A r \in Requests : r # exec.request => receipts'[r] = receipts[r]
  BY <1>1, <1>2, RecordFacts DEF Points
<1>4. /\ signed[exec.request].seen = active.deployment
      /\ active.generation < MaxGeneration
  BY DEF Accept, Admissible, Transition, BelowGenerationLimit, SameState
<1>5. /\ begun' \in [Requests -> Nat]
      /\ begun'[exec.request] = 1
      /\ \A r \in Requests : r # exec.request => begun'[r] = begun[r]
  BY <1>2, <1>3 DEF BegunInv, TypeOK
<1>6. TypeOK' /\ RequestInv'
  BY <1>2, <1>3, <1>5 DEF TypeOK, RequestInv, requests, entrance, hosts
<1>7. BegunInv'
  BY <1>3, <1>5 DEF BegunInv, BegunOnce
<1>8. ExecInv' /\ GuardInv' /\ StatusInv'
  <2>1. ExecInv' /\ GuardInv'
    BY <1>2, <1>3 DEF ExecInv, GuardInv, ReadersSeeActive, requests, hosts
  <2>2. StatusInv'
    BY <1>1, <1>2, <1>3, StatusIsOfRequest DEF StatusInv, hosts
  <2> QED BY <2>1, <2>2
<1>9. LimitInv' /\ ReceiptInv' /\ SelectionInv' /\ ArchiveInv'
  BY <1>1, <1>2, <1>3, <1>4 DEF LimitInv, ActiveReadable, ReceiptInv, SelectionInv,
                                ArchiveInv, Heading, Ended, requests
<1> QED BY <1>6, <1>7, <1>8, <1>9

\* What a rejection and a failure have in common: the receipt says failed, and
\* the process ends with the status.
LEMMA FailedKeepsInv ==
    ASSUME MaintenanceInv, exec.pc \notin {"idle", "check"},
           NEW receipt \in Receipt, receipt.phase = "failed", Record(receipt, "idle"),
           UNCHANGED <<requests, entrance, inbox, active, latest, programs, archives,
                       hosts, history>>
    PROVE  MaintenanceInv'
PROOF
<1> USE DEF MaintenanceInv
<1>1. /\ exec' \in Executor /\ exec'.pc = "save" /\ exec'.then = "idle"
      /\ exec'.request = exec.request /\ exec'.writeGuard = exec.writeGuard
      /\ exec.request \in Requests
      /\ receipts' \in [Requests -> Receipt \cup {None}]
      /\ receipts'[exec.request] = receipt /\ receipt # None
      /\ \A r \in Requests : r # exec.request => receipts'[r] = receipts[r]
  BY RecordFacts DEF Points
<1>2. TypeOK' /\ RequestInv'
  BY <1>1 DEF TypeOK, RequestInv, requests, entrance, hosts, history
<1>3. BegunInv'
  BY <1>1 DEF BegunInv, BegunOnce, history
<1>4. ExecInv' /\ GuardInv' /\ StatusInv'
  <2>1. ExecInv' /\ GuardInv'
    BY <1>1 DEF ExecInv, GuardInv, ReadersSeeActive, requests, hosts
  <2>2. latest # None /\ latest.phase = "completed" => exec.request # latest.request
    BY StatusIsOfRequest DEF StatusInv
  <2>3. StatusInv'
    BY <1>1, <2>2, StatusIsOfRequest DEF StatusInv, hosts
  <2> QED BY <2>1, <2>3
<1>5. LimitInv' /\ ReceiptInv' /\ SelectionInv' /\ ArchiveInv'
  BY <1>1 DEF LimitInv, ActiveReadable, ReceiptInv, SelectionInv, ArchiveInv,
              Heading, requests
<1> QED BY <1>2, <1>3, <1>4, <1>5

\* A request that may not be carried out any more gets a receipt that says so.
LEMMA RejectionKeepsInv ==
    ASSUME MaintenanceInv, RecordRejection
    PROVE  MaintenanceInv'
PROOF
<1>1. [phase |-> "failed", failedPhase |-> "rejected", generation |-> 0] \in Receipt
  BY DEF Receipt, Phases
<1> QED BY <1>1, FailedKeepsInv DEF RecordRejection

\* What a failure records.
LEMMA FailedReceipt ==
    ASSUME MaintenanceInv, Fail
    PROVE  /\ exec.pc \notin {"idle", "check"}
           /\ \E receipt \in Receipt : receipt.phase = "failed" /\ Record(receipt, "idle")
PROOF
<1>1. PICK phase \in {receipts[exec.request].phase, exec.pc} \cap Phases :
           Record([receipts[exec.request] EXCEPT !.failedPhase = phase, !.phase = "failed"],
                  "idle")
  BY DEF Fail
<1> DEFINE receipt == [receipts[exec.request] EXCEPT !.failedPhase = phase, !.phase = "failed"]
<1>2. receipts[exec.request] \in Receipt
  BY DEF Fail, MaintenanceInv, ExecInv, TypeOK, Executor
<1>3. receipt \in Receipt /\ receipt.phase = "failed"
  BY <1>2 DEF Receipt, Phases
<1> QED BY <1>1, <1>3 DEF Fail

\* A request that fails keeps the phase in which it did.
LEMMA FailKeepsInv ==
    ASSUME MaintenanceInv, Fail
    PROVE  MaintenanceInv'
PROOF
<1>1. UNCHANGED <<requests, entrance, inbox, active, latest, programs, archives,
                  hosts, history>>
  BY DEF Fail
<1> QED BY <1>1, FailedReceipt, FailedKeepsInv

\* A phase is recorded where the executor is, which the status will then show.
LEMMA PhaseKeepsInv ==
    ASSUME MaintenanceInv, RecordPhase
    PROVE  MaintenanceInv'
PROOF
<1> USE DEF MaintenanceInv
<1> DEFINE receipt == [receipts[exec.request] EXCEPT !.phase = exec.pc]
           next == After[exec.pc]
<1>1. exec.pc \in {"staged", "stopping", "activated", "completed"}
  BY DEF RecordPhase, After
<1>2. /\ exec.pc = "staged" => next = "stopping"
      /\ exec.pc = "stopping" => next = "stop"
      /\ exec.pc = "activated" => next = "release"
      /\ exec.pc = "completed" => next = "idle"
  BY DEF After
<1>3. receipts[exec.request] \in Receipt
  BY <1>1 DEF ExecInv, TypeOK, Executor
<1>4. receipt \in Receipt /\ receipt.phase = exec.pc
  BY <1>1, <1>3 DEF Receipt, Phases
<1>5. /\ Record(receipt, next)
      /\ UNCHANGED <<requests, entrance, inbox, active, latest, programs, archives,
                     hosts, history>>
  BY DEF RecordPhase
<1> HIDE DEF receipt, next
<1>6. next \in Points
  BY <1>1, <1>2 DEF Points
<1>7. /\ exec' \in Executor /\ exec'.pc = "save" /\ exec'.then = next
      /\ exec'.request = exec.request /\ exec'.writeGuard = exec.writeGuard
      /\ exec.request \in Requests
      /\ receipts' \in [Requests -> Receipt \cup {None}]
      /\ receipts'[exec.request] = receipt /\ receipt # None
      /\ \A r \in Requests : r # exec.request => receipts'[r] = receipts[r]
  BY <1>1, <1>4, <1>5, <1>6, RecordFacts
<1>8. TypeOK' /\ RequestInv'
  BY <1>5, <1>7 DEF TypeOK, RequestInv, requests, entrance, hosts, history
<1>9. BegunInv'
  BY <1>5, <1>7 DEF BegunInv, BegunOnce, history
<1>10. ExecInv' /\ GuardInv'
  BY <1>1, <1>2, <1>5, <1>7 DEF ExecInv, GuardInv, ReadersSeeActive, requests, hosts
<1>11. StatusInv'
  BY <1>1, <1>2, <1>4, <1>5, <1>7, StatusIsOfRequest DEF StatusInv, hosts
<1>12. LimitInv' /\ ReceiptInv'
  BY <1>1, <1>2, <1>4, <1>5, <1>7 DEF LimitInv, ActiveReadable, ReceiptInv, Heading,
                                      Ended, Points
<1>13. SelectionInv' /\ ArchiveInv'
  BY <1>1, <1>2, <1>5, <1>7 DEF SelectionInv, ArchiveInv, Heading, requests
<1> QED BY <1>8, <1>9, <1>10, <1>11, <1>12, <1>13

\* The status repeats the receipt, and the process goes on to where it was heading.
LEMMA SaveLatestKeepsInv ==
    ASSUME MaintenanceInv, SaveLatest
    PROVE  MaintenanceInv'
PROOF
<1> USE DEF MaintenanceInv
<1>1. exec.pc = "save"
  BY DEF SaveLatest
<1>2. UNCHANGED <<requests, entrance, inbox, active, receipts, programs, archives,
                  hosts, history>>
  BY DEF SaveLatest
<1>3. exec.request \in Requests /\ receipts[exec.request] \in Receipt
  BY <1>1 DEF ExecInv, TypeOK, Executor
<1>4. /\ latest' \in Status /\ latest' # None
      /\ latest'.phase = receipts[exec.request].phase
      /\ latest'.request = exec.request /\ receipts[exec.request] # None
  BY <1>1, <1>3, NoneIsNoFile DEF SaveLatest, Status, Receipt, ExecInv
<1>5. CASE exec.then = "idle"
  <2>1. exec' = Idle
    BY <1>5 DEF SaveLatest
  <2>2. TypeOK' /\ RequestInv' /\ BegunInv'
    BY <1>2, <1>4, <2>1, IdleFacts DEF TypeOK, RequestInv, BegunInv, BegunOnce,
                                       requests, entrance, hosts, history
  <2>3. ExecInv' /\ GuardInv'
    BY <1>2, <2>1, IdleFacts DEF ExecInv, GuardInv, ReadersSeeActive, requests, hosts
  <2>4. StatusInv'
    BY <1>1, <1>2, <1>4, <2>1, IdleFacts DEF StatusInv, hosts
  <2>5. LimitInv' /\ ReceiptInv' /\ SelectionInv' /\ ArchiveInv'
    BY <1>2, <2>1, IdleFacts DEF LimitInv, ActiveReadable, ReceiptInv, SelectionInv,
                                 ArchiveInv, Heading
  <2> QED BY <2>2, <2>3, <2>4, <2>5
<1>6. CASE exec.then # "idle"
  <2>1. /\ exec' \in Executor /\ exec'.pc = exec.then
        /\ exec'.request = exec.request /\ exec'.writeGuard = exec.writeGuard
    BY <1>6 DEF SaveLatest, TypeOK, Executor
  <2>2. exec.then \in {"consume", "stopping", "stop", "release"}
    BY <1>1, <1>6 DEF ExecInv
  <2>3. TypeOK' /\ RequestInv' /\ BegunInv'
    BY <1>2, <1>4, <2>1 DEF TypeOK, RequestInv, BegunInv, BegunOnce, requests,
                            entrance, hosts, history
  <2>4. ExecInv' /\ GuardInv'
    BY <1>1, <1>2, <2>1, <2>2 DEF ExecInv, GuardInv, ReadersSeeActive, requests, hosts
  <2>5. StatusInv'
    <3>1. receipts[exec.request].phase # "completed"
      BY <1>1, <2>2 DEF ReceiptInv, Heading, Points, Ended
    <3> QED BY <1>1, <1>2, <1>4, <2>1, <2>2, <3>1 DEF StatusInv, hosts
  <2>6. LimitInv' /\ ReceiptInv'
    BY <1>1, <1>2, <2>1, <2>2 DEF LimitInv, ActiveReadable, ReceiptInv, Heading, Points
  <2>7. SelectionInv' /\ ArchiveInv'
    BY <1>1, <1>2, <2>1, <2>2 DEF SelectionInv, ArchiveInv, Heading, requests
  <2> QED BY <2>3, <2>4, <2>5, <2>6, <2>7
<1> QED BY <1>5, <1>6

-----------------------------------------------------------------------------
(* The invariant and what follows from it. *)

\* Without a change nothing changes.
LEMMA StutterKeepsInv ==
    ASSUME MaintenanceInv, UNCHANGED vars
    PROVE  MaintenanceInv'
BY DEF vars, requests, entrance, control, hosts, history, MaintenanceInv, TypeOK,
       RequestInv, ExecInv, BegunInv, BegunOnce, GuardInv, ReadersSeeActive, LimitInv,
       ActiveReadable, StatusInv, ReceiptInv, SelectionInv, ArchiveInv, Heading

\* Every step of the executor keeps the invariant.
LEMMA ExecutorKeepsInv ==
    ASSUME MaintenanceInv, ExecutorStep
    PROVE  MaintenanceInv'
BY SaveLatestKeepsInv, BeginKeepsInv, EndKeepsInv, AcceptKeepsInv, TakeKeepsInv,
   RejectionKeepsInv, ConsumeKeepsInv, StageKeepsInv, PhaseKeepsInv, TaskKeepsInv,
   MoveKeepsInv, WriteGuardKeepsInv, ArchiveKeepsInv, ActivateKeepsInv, FailKeepsInv
   DEF ExecutorStep

\* So does every step of the system.
LEMMA StepKeepsInv ==
    ASSUME MaintenanceInv, [Next]_vars
    PROVE  MaintenanceInv'
PROOF
<1>1. ASSUME NEW r \in Requests, NEW action \in Actions,
             NEW d \in Deployments \cup {None}, Sign(r, action, d)
      PROVE  MaintenanceInv'
  BY <1>1, SignKeepsInv
<1>2. ASSUME NEW r \in Requests, Expire(r)
      PROVE  MaintenanceInv'
  BY <1>2, ExpireKeepsInv
<1>3. ASSUME NEW r \in Requests, NEW g \in Gateways, GatewayChecks(g, r)
      PROVE  MaintenanceInv'
  BY <1>3, GatewayKeepsInv
<1>4. ASSUME NEW g \in Gateways, GatewayQueues(g) \/ GatewayGivesUp(g)
      PROVE  MaintenanceInv'
  BY <1>4, GatewayKeepsInv
<1>5. CASE ExecutorStep
  BY <1>5, ExecutorKeepsInv
<1>6. CASE ExecutorDies
  BY <1>6, EndKeepsInv
<1>7. ASSUME NEW p \in Readers, OpenReadGuard(p) \/ ReadSelection(p) \/ CloseReadGuard(p)
      PROVE  MaintenanceInv'
  BY <1>7, ReadersKeepInv
<1>8. CASE LocalRepair
  BY <1>8, LocalRepairKeepsInv
<1>9. CASE UNCHANGED vars
  BY <1>9, StutterKeepsInv
<1> QED BY <1>1, <1>2, <1>3, <1>4, <1>5, <1>6, <1>7, <1>8, <1>9 DEF Next

\* However requests are delayed, retried, cut short and refused, and whoever reads
\* the selection meanwhile, the state of maintenance keeps its invariant.
THEOREM MaintenanceInvariant == Spec => []MaintenanceInv
PROOF
<1>1. Init => MaintenanceInv
  BY InitKeepsInv
<1>2. MaintenanceInv /\ [Next]_vars => MaintenanceInv'
  BY StepKeepsInv
<1> QED BY <1>1, <1>2, PTL DEF Spec

\* Every file keeps its format and the executor its place.
THEOREM TypeCorrect == Spec => []TypeOK
PROOF
<1>1. MaintenanceInv => TypeOK
  BY DEF MaintenanceInv
<1> QED BY <1>1, MaintenanceInvariant, PTL

\* A signed request is carried out at most once, for any number of gateways that
\* queue it again and any number of kills: the one-shot rule of the executor.
THEOREM ExecutedOnce == Spec => []BegunOnce
PROOF
<1>1. MaintenanceInv => BegunOnce
  BY DEF MaintenanceInv, BegunInv
<1> QED BY <1>1, MaintenanceInvariant, PTL

\* The worker and the job gateways run the selected deployment as long as they
\* hold the shared handle, even if the worker task is enabled behind the executor's
\* back.
THEOREM ReadersRunTheSelection == Spec => []ReadersSeeActive
PROOF
<1>1. MaintenanceInv => ReadersSeeActive
  BY DEF MaintenanceInv, GuardInv
<1> QED BY <1>1, MaintenanceInvariant, PTL

\* The generation stays one that every reader of active.json accepts.
THEOREM SelectionReadable == Spec => []ActiveReadable
PROOF
<1>1. MaintenanceInv => ActiveReadable
  BY DEF MaintenanceInv, LimitInv
<1> QED BY <1>1, MaintenanceInvariant, PTL

\* No archive, after whatever failures, is refused for its name.
THEOREM ArchivesNeverCollide == Spec => []ArchiveNameFree
PROOF
<1>1. MaintenanceInv => ArchiveNameFree
  BY DEF MaintenanceInv, ArchiveInv, Heading, ArchiveNameFree
<1> QED BY <1>1, MaintenanceInvariant, PTL

\* A worker task that stays disabled is never behind a status that says completed.
THEOREM DisabledTaskShows == Spec => []DisabledIsVisible
PROOF
<1>1. MaintenanceInv => DisabledIsVisible
  BY DEF MaintenanceInv, StatusInv, DisabledIsVisible
<1> QED BY <1>1, MaintenanceInvariant, PTL

-----------------------------------------------------------------------------
(* What a step never does. *)

\* A step writes at most one receipt, that of the request under way, which has not
\* ended or is taken back; and completed is written last.
LEMMA ReceiptWritten ==
    ASSUME MaintenanceInv, [Next]_vars, receipts' # receipts
    PROVE  /\ exec.request \in Requests
           /\ receipts[exec.request] # None =>
                  receipts[exec.request].phase \notin Ended \/ TakenBack(exec.request)
           /\ receipts'[exec.request] # None
           /\ receipts'[exec.request].phase = "completed" => exec.pc = "completed"
           /\ \A r \in Requests : r # exec.request => receipts'[r] = receipts[r]
PROOF
<1> USE DEF MaintenanceInv
<1>1. CASE Accept
  <2> DEFINE receipt == [phase |-> "prepared", failedPhase |-> "none",
                         generation |-> active.generation + 1]
  <2>1. receipt \in Receipt /\ receipt.phase = "prepared"
    BY DEF TypeOK, Receipt, Phases
  <2>2. exec.pc = "check" /\ receipts[exec.request] = None /\ Record(receipt, "consume")
    BY <1>1 DEF Accept, Known
  <2> HIDE DEF receipt
  <2> QED BY <2>1, <2>2, RecordFacts DEF Points
<1>2. CASE RecordRejection
  <2> DEFINE receipt == [phase |-> "failed", failedPhase |-> "rejected",
                         generation |-> 0]
  <2>1. receipt \in Receipt /\ receipt.phase = "failed"
    BY DEF Receipt, Phases
  <2>2. exec.pc = "reject" /\ Record(receipt, "idle")
    BY <1>2 DEF RecordRejection
  <2> HIDE DEF receipt
  <2> QED BY <2>1, <2>2, RecordFacts DEF Points, ReceiptInv
<1>3. CASE RecordPhase
  <2> DEFINE receipt == [receipts[exec.request] EXCEPT !.phase = exec.pc]
             next == After[exec.pc]
  <2>1. exec.pc \in {"staged", "stopping", "activated", "completed"}
    BY <1>3 DEF RecordPhase, After
  <2>2. receipts[exec.request] \in Receipt
    BY <2>1 DEF ExecInv, TypeOK, Executor
  <2>3. receipt \in Receipt /\ receipt.phase = exec.pc
    BY <2>1, <2>2 DEF Receipt, Phases
  <2>4. Record(receipt, next) /\ next \in Points
    BY <1>3, <2>1 DEF RecordPhase, After, Points
  <2>5. receipts[exec.request].phase \notin Ended
    BY <2>1 DEF ReceiptInv, Heading, Points
  <2> HIDE DEF receipt, next
  <2> QED BY <2>1, <2>3, <2>4, <2>5, RecordFacts
<1>4. CASE Fail
  <2>1. PICK receipt \in Receipt : receipt.phase = "failed" /\ Record(receipt, "idle")
    BY <1>4, FailedReceipt
  <2>2. /\ exec.request \in Requests /\ receipt # None
        /\ receipts'[exec.request] = receipt
        /\ \A r \in Requests : r # exec.request => receipts'[r] = receipts[r]
    BY <1>4, <2>1, RecordFacts DEF Fail, Points
  <2>3. exec.pc \in Points /\ exec.then \in Points
    BY DEF TypeOK, Executor
  <2>4. CASE exec.pc = "save" /\ exec.then = "idle"
    <3>1. receipts[exec.request].phase # "failed"
      BY <1>4, <2>4 DEF Fail, Catching
    <3>2. latest # [request |-> exec.request, phase |-> "completed"]
      <4> DEFINE said == [request |-> exec.request, phase |-> "completed"]
      <4>1. said \in Status
        BY <2>2 DEF Status, Phases
      <4>2. said # None
        BY <4>1, NoneIsNoFile
      <4> QED BY <2>4, <4>2 DEF StatusInv
    <3> QED BY <2>1, <2>2, <3>1, <3>2 DEF TakenBack, Ended
  <2>5. CASE ~(exec.pc = "save" /\ exec.then = "idle")
    <3>1. exec.pc = "save" => exec.then \in {"consume", "stopping", "stop", "release"}
      BY <2>5 DEF ExecInv
    <3>2. receipts[exec.request].phase \notin Ended
      BY <1>4, <2>3, <3>1 DEF Fail, ReceiptInv, Heading, Points
    <3> QED BY <2>1, <2>2, <3>2
  <2> QED BY <2>4, <2>5
<1>5. CASE UNCHANGED receipts
  BY <1>5
<1>6. \/ Accept \/ RecordRejection \/ RecordPhase \/ Fail
      \/ UNCHANGED receipts
  BY DEF Next, ExecutorStep, vars, control, Sign, Expire, GatewayChecks, GatewayQueues,
         GatewayGivesUp, SaveLatest, Begin, Forget, Reject, QuotaReached,
         ConsumeGeneration, RemovePending, Stage, DisableWorker, WorkerStopped,
         OpenWriteGuard, StartArchive, ArchiveDone, Activate, Repair, ReleaseGuard,
         EnableWorker, ExecutorDies, OpenReadGuard, ReadSelection, CloseReadGuard,
         LocalRepair
<1> QED BY <1>1, <1>2, <1>3, <1>4, <1>5, <1>6

\* The answer to a request that ended is final, and no receipt is ever lost; only
\* an executor that has not yet put completed into the status may take it back.
THEOREM AnswersAreFinal == Spec => ReceiptIsFinal
PROOF
<1> DEFINE Final == \A r \in Requests : receipts[r] # None =>
                        /\ receipts[r].phase \in Ended =>
                               receipts'[r] = receipts[r] \/ TakenBack(r)
                        /\ receipts'[r] # None
<1>1. MaintenanceInv /\ [Next]_vars => [Final]_vars
  BY ReceiptWritten
<1> QED BY <1>1, MaintenanceInvariant, PTL DEF Spec, ReceiptIsFinal

\* An activation replaces the deployment its signer saw.
THEOREM SignerSawWhatWasReplaced == Spec => ReplacesWhatWasSeen
PROOF
<1> DEFINE Seen == active'.deployment # active.deployment =>
                       signed[exec.request].seen = active.deployment
<1>1. MaintenanceInv /\ [Next]_vars => [Seen]_vars
  <2> SUFFICES ASSUME MaintenanceInv, [Next]_vars, active'.deployment # active.deployment
               PROVE  signed[exec.request].seen = active.deployment
    OBVIOUS
  <2>1. Activate \/ ConsumeGeneration \/ UNCHANGED active
    BY DEF Next, ExecutorStep, vars, control, Sign, Expire, GatewayChecks,
           GatewayQueues, GatewayGivesUp, SaveLatest, Begin, Forget, Accept, Reject,
           RecordRejection, QuotaReached, RemovePending, Stage, RecordPhase,
           DisableWorker, WorkerStopped, OpenWriteGuard, StartArchive, ArchiveDone,
           Repair, ReleaseGuard, EnableWorker, Fail, ExecutorDies, OpenReadGuard,
           ReadSelection, CloseReadGuard, LocalRepair
  <2>2. CASE Activate
    BY <2>2 DEF Activate, MaintenanceInv, SelectionInv, Heading
  <2>3. CASE ConsumeGeneration
    BY <2>3 DEF ConsumeGeneration, MaintenanceInv, TypeOK
  <2> QED BY <2>1, <2>2, <2>3
<1> QED BY <1>1, MaintenanceInvariant, PTL DEF Spec, ReplacesWhatWasSeen

\* Whoever reads the selection or uses the queue is out while either changes: so
\* JobQueue may let a rotation or a new deployment come only when it is quiescent.
THEOREM NobodyIsDisturbed == Spec => ChangesAlone
PROOF
<1> DEFINE Alone == \/ active'.deployment # active.deployment
                    \/ archives' # archives
                    \/ exec.pc = "archiving"
                    => \A p \in Readers : ~reader[p].held /\ ~reader'[p].held
<1>1. MaintenanceInv /\ [Next]_vars => [Alone]_vars
  <2> SUFFICES ASSUME MaintenanceInv, [Next]_vars,
                      \/ active'.deployment # active.deployment
                      \/ archives' # archives
                      \/ exec.pc = "archiving"
               PROVE  \A p \in Readers : ~reader[p].held /\ ~reader'[p].held
    OBVIOUS
  <2>1. \/ Activate \/ ConsumeGeneration \/ StartArchive
        \/ UNCHANGED <<active, archives>>
    BY DEF Next, ExecutorStep, vars, control, Sign, Expire, GatewayChecks,
           GatewayQueues, GatewayGivesUp, SaveLatest, Begin, Forget, Accept, Reject,
           RecordRejection, QuotaReached, RemovePending, Stage, RecordPhase,
           DisableWorker, WorkerStopped, OpenWriteGuard, ArchiveDone,
           Repair, ReleaseGuard, EnableWorker, Fail, ExecutorDies, OpenReadGuard,
           ReadSelection, CloseReadGuard, LocalRepair
  <2>2. exec.pc \in {"act", "archiving"}
    <3>1. CASE Activate \/ StartArchive
      BY <3>1 DEF Activate, StartArchive
    <3>2. CASE ConsumeGeneration
      BY <3>2 DEF ConsumeGeneration, MaintenanceInv, TypeOK
    <3>3. CASE UNCHANGED <<active, archives>>
      BY <3>3
    <3> QED BY <2>1, <3>1, <3>2, <3>3
  <2>3. exec.writeGuard /\ \A p \in Readers : ~reader[p].held
    BY <2>2 DEF MaintenanceInv, GuardInv
  <2>4. ASSUME NEW q \in Readers, OpenReadGuard(q) \/ ReadSelection(q) \/ CloseReadGuard(q)
        PROVE  FALSE
    BY <2>3, <2>4 DEF OpenReadGuard, ReadSelection, CloseReadGuard
  <2>5. reader' = reader
    BY <2>4 DEF Next, ExecutorStep, vars, hosts, Sign, Expire, GatewayChecks,
           GatewayQueues, GatewayGivesUp, SaveLatest, Begin, Forget, Accept, Reject,
           RecordRejection, QuotaReached, ConsumeGeneration, RemovePending, Stage,
           RecordPhase, DisableWorker, WorkerStopped, OpenWriteGuard, StartArchive,
           ArchiveDone, Activate, Repair, ReleaseGuard, EnableWorker, Fail,
           ExecutorDies, LocalRepair
  <2> QED BY <2>3, <2>5
<1> QED BY <1>1, MaintenanceInvariant, PTL DEF Spec, ChangesAlone

\* A receipt that says completed is true: the task is enabled and the deployment,
\* if there is one, selected.
THEOREM CompletedIsTrue == Spec => CompletedIsDone
PROOF
<1> DEFINE Done == \A r \in Requests :
                       /\ receipts'[r] # None
                       /\ receipts'[r].phase = "completed"
                       /\ receipts'[r] # receipts[r]
                       => /\ enabled
                          /\ signed[r].action = "activate" =>
                                 active.deployment = signed[r].deployment
<1>1. MaintenanceInv /\ [Next]_vars => [Done]_vars
  <2> SUFFICES ASSUME MaintenanceInv, [Next]_vars, NEW r \in Requests,
                      receipts'[r] # None, receipts'[r].phase = "completed",
                      receipts'[r] # receipts[r]
               PROVE  /\ enabled
                      /\ signed[r].action = "activate" =>
                             active.deployment = signed[r].deployment
    OBVIOUS
  <2>1. r = exec.request /\ exec.pc = "completed"
    BY ReceiptWritten
  <2> QED BY <2>1 DEF MaintenanceInv, StatusInv, SelectionInv, Heading
<1> QED BY <1>1, MaintenanceInvariant, PTL DEF Spec, CompletedIsDone
-----------------------------------------------------------------------------
(* Maintenance implements VersionedSelection: each step maps to a step of it, *)
(* or to none.                                                                *)

\* What was signed shows as it was signed.
LEMMA SignatureIs ==
    ASSUME TypeOK, NEW r \in Requests, signed[r] # None
    PROVE  /\ SignedSelection(r) # None
           /\ SignedSelection(r).version = signed[r].generation
           /\ SignedSelection(r).seen = signed[r].seen
           /\ SignedSelection(r).wanted = signed[r].deployment
PROOF
<1> DEFINE s == [version |-> signed[r].generation, seen |-> signed[r].seen,
                 wanted |-> signed[r].deployment]
<1>1. s \in Selection!Signature
  BY DEF TypeOK, Request, Selection!Signature
<1>2. s # None
  BY <1>1, NoneIsNoWork DEF Selection!SelectionConstants
<1>3. SignedSelection(r) = s
  BY DEF SignedSelection
<1> QED BY <1>2, <1>3

\* An executor that works shows, with the request it works on, which has begun
\* and has not failed.
LEMMA WorkShows ==
    ASSUME MaintenanceInv, Working
    PROVE  /\ CurrentWork # None
           /\ CurrentWork \in Selection!Work
           /\ CurrentWork.request = exec.request
           /\ exec.request \in Requests
           /\ signed[exec.request] # None
           /\ receipts[exec.request] # None
           /\ PhaseOf(exec.request) \in {"begun", "completed"}
           /\ exec.pc # "save" => PhaseOf(exec.request) = "begun"
PROOF
<1>1. exec.request \in Requests /\ signed[exec.request] # None
  BY MaintenanceAssumption DEF Working, MaintenanceInv, TypeOK, ExecInv, Executor
<1>2. CurrentWork \in Selection!Work /\ CurrentWork.request = exec.request
  BY <1>1 DEF CurrentWork, Selection!Work, Selection!Stages
<1>3. CurrentWork # None
  BY <1>2, NoneIsNoWork DEF Selection!SelectionConstants
<1>4. receipts[exec.request] # None
  BY DEF Working, MaintenanceInv, ExecInv
<1>5. receipts[exec.request].phase \in Ended => exec.pc = "save" /\ exec.then = "idle"
  <2>1. exec.pc \in Points /\ exec.then \in Points
    BY DEF MaintenanceInv, TypeOK, Executor
  <2>2. exec.pc = "save" => exec.then \in {"consume", "stopping", "stop", "release", "idle"}
    BY DEF MaintenanceInv, ExecInv
  <2> QED BY <2>1, <2>2 DEF Working, MaintenanceInv, ReceiptInv, Heading, Points
<1>6. receipts[exec.request].phase \in Ended => receipts[exec.request].phase = "completed"
  BY <1>5 DEF Working, Catching, Ended
<1> QED BY <1>1, <1>2, <1>3, <1>4, <1>5, <1>6 DEF PhaseOf

\* A step that touches neither selection nor receipts shows only in its progress.
LEMMA NothingShows ==
    ASSUME active' = active, signed' = signed, receipts' = receipts,
           CurrentWork' = CurrentWork
    PROVE  UNCHANGED Selection!all
BY DEF Selection!all, SignedSelection, PhaseOf

\* Clients, gateways, readers and an administrator at the console are not seen.
LEMMA OthersAreUnseen ==
    ASSUME UNCHANGED <<signed, control, exec>>
    PROVE  UNCHANGED Selection!all
BY NothingShows DEF control, CurrentWork, Working, Catching, Heading

\* Most of what the executor does is not seen either.
LEMMA ProgressIsUnseen ==
    ASSUME MaintenanceInv, (SaveLatest /\ exec.then # "idle") \/ Begin \/ Forget \/ Reject \/ QuotaReached
               \/ RemovePending \/ Stage \/ DisableWorker \/ WorkerStopped
               \/ OpenWriteGuard \/ StartArchive \/ ArchiveDone \/ Repair
               \/ ReleaseGuard \/ EnableWorker
    PROVE  UNCHANGED Selection!all
PROOF
<1>1. UNCHANGED <<signed, active, receipts>>
  BY DEF SaveLatest, Begin, Forget, Reject, QuotaReached, RemovePending, Stage,
         DisableWorker, WorkerStopped, OpenWriteGuard, StartArchive, ArchiveDone, Repair,
         ReleaseGuard, EnableWorker, requests, control
<1> SUFFICES CurrentWork' = CurrentWork
  BY <1>1, NothingShows
<1>2. CASE SaveLatest /\ exec.then # "idle"
  <2>1. exec.pc = "save" /\ exec.then \in {"consume", "stopping", "stop", "release"}
    BY <1>2 DEF SaveLatest, MaintenanceInv, ExecInv
  <2>2. exec'.pc = exec.then /\ exec'.request = exec.request
    BY <1>2 DEF SaveLatest, MaintenanceInv, TypeOK, Executor
  <2> QED BY <1>1, <2>1, <2>2 DEF CurrentWork, Working, Catching, Heading
<1>3. CASE Begin \/ Forget \/ Reject \/ QuotaReached
  <2>1. exec.pc \in {"idle", "check"} /\ exec'.pc \in {"idle", "check", "reject"}
    <3>1. CASE Begin
      BY <1>3, <3>1 DEF Begin, Idle
    <3>2. CASE Forget \/ QuotaReached
      BY <3>2, IdleFacts DEF Forget, QuotaReached
    <3>3. CASE Reject
      BY <3>3, GotoFacts DEF Reject, Points, MaintenanceInv
    <3> QED BY <1>3, <3>1, <3>2, <3>3
  <2> QED BY <2>1 DEF CurrentWork, Working, Catching
<1>4. CASE RemovePending \/ Stage \/ DisableWorker \/ WorkerStopped \/ OpenWriteGuard
            \/ StartArchive
  <2>1. /\ exec.pc \in {"remove", "stage", "stop", "stopped", "guard", "act"}
        /\ exec'.pc \in {"stage", "stopping", "staged", "stopped", "guard", "act", "archiving"}
        /\ exec'.request = exec.request
    BY <1>4 DEF RemovePending, Stage, DisableWorker, WorkerStopped, OpenWriteGuard,
                StartArchive, Goto, MaintenanceInv, TypeOK, Executor
  <2> QED BY <2>1, <1>1 DEF CurrentWork, Working, Catching, Heading
<1>5. CASE ArchiveDone \/ Repair
  <2>1. /\ exec.pc \in {"act", "archiving"} /\ exec'.pc = "activated"
        /\ exec'.request = exec.request
        /\ signed[exec.request].action # "activate"
    BY <1>5 DEF ArchiveDone, Repair, Goto, MaintenanceInv, TypeOK, Executor, ExecInv
  <2> QED BY <2>1, <1>1 DEF CurrentWork, Working, Catching, Heading
<1>6. CASE ReleaseGuard \/ EnableWorker
  <2>1. /\ exec.pc \in {"release", "enable"} /\ exec'.pc \in {"enable", "completed"}
        /\ exec'.request = exec.request
    BY <1>6 DEF ReleaseGuard, EnableWorker, Goto, MaintenanceInv, TypeOK, Executor
  <2> QED BY <2>1, <1>1 DEF CurrentWork, Working, Catching, Heading
<1> QED BY <1>2, <1>3, <1>4, <1>5, <1>6

\* A client signs for what is selected.
LEMMA SignShows ==
    ASSUME MaintenanceInv, NEW r \in Requests, NEW action \in Actions,
           NEW d \in Deployments \cup {None}, Sign(r, action, d)
    PROVE  Selection!Sign(r, d)
PROOF
<1> DEFINE s == [action |-> action, generation |-> active.generation,
                 seen |-> active.deployment, deployment |-> d]
<1>1. /\ signed[r] = None
      /\ signed' = [signed EXCEPT ![r] = s]
      /\ UNCHANGED <<active, receipts, exec>>
  BY DEF Sign, control
<1>2. s \in Request
  BY DEF MaintenanceInv, TypeOK, Request
<1>3. s # None /\ s.generation = active.generation /\ s.seen = active.deployment /\ s.deployment = d
  BY <1>2, NoneIsNoFile
<1> HIDE DEF s
<1>4. /\ signed'[r] = s
      /\ \A q \in Requests : q # r => signed'[q] = signed[q]
  BY <1>1 DEF MaintenanceInv, TypeOK
<1>5. CurrentWork' = CurrentWork
  <2>1. CASE Working
    <3>1. exec.request \in Requests /\ signed[exec.request] # None
      BY <2>1, WorkShows
    <3>2. exec.request # r
      BY <1>1, <3>1
    <3>3. signed'[exec.request] = signed[exec.request]
      BY <1>4, <3>1, <3>2
    <3> QED BY <1>1, <3>3 DEF CurrentWork, Working, Catching, Heading
  <2>2. CASE ~Working
    BY <1>1, <2>2 DEF CurrentWork, Working, Catching
  <2> QED BY <2>1, <2>2
<1>6. SignedSelection(r) = None
  BY <1>1 DEF SignedSelection
<1>7. [q \in Requests |-> SignedSelection(q)]'
        = [[q \in Requests |-> SignedSelection(q)] EXCEPT ![r] =
              [version |-> active.generation, seen |-> active.deployment, wanted |-> d]]
  BY <1>3, <1>4 DEF SignedSelection
<1>8. [q \in Requests |-> PhaseOf(q)]' = [q \in Requests |-> PhaseOf(q)]
  BY <1>1 DEF PhaseOf
<1> QED BY <1>1, <1>5, <1>6, <1>7, <1>8 DEF Selection!Sign, Selection!selected

\* A request that is accepted fits, and nobody else works.
LEMMA AcceptShows ==
    ASSUME MaintenanceInv, Accept
    PROVE  Selection!Begin(exec.request, "begun")
PROOF
<1> DEFINE receipt == [phase |-> "prepared", failedPhase |-> "none",
                       generation |-> active.generation + 1]
           r == exec.request
<1>1. receipt \in Receipt /\ receipt.phase = "prepared"
  BY DEF MaintenanceInv, TypeOK, Receipt, Phases
<1>2. /\ exec.pc = "check" /\ receipts[r] = None /\ Record(receipt, "consume")
      /\ Transition(r)
      /\ UNCHANGED <<signed, active>>
  BY DEF Accept, Known, Admissible, requests
<1> HIDE DEF receipt
<1>3. /\ exec'.pc = "save" /\ exec'.then = "consume" /\ exec'.request = r
      /\ r \in Requests
      /\ receipts'[r] = receipt /\ receipt # None
      /\ \A q \in Requests : q # r => receipts'[q] = receipts[q]
  BY <1>1, <1>2, RecordFacts DEF Points, MaintenanceInv
<1>4. CurrentWork = None
  BY <1>2 DEF CurrentWork, Working, Catching
<1>5. CurrentWork' = [request |-> r, stage |-> "begun"]
  BY <1>3 DEF CurrentWork, Working, Catching, Heading
<1>6. PhaseOf(r) = "new"
  BY <1>2 DEF PhaseOf
<1>7. [q \in Requests |-> PhaseOf(q)]' = [[q \in Requests |-> PhaseOf(q)] EXCEPT ![r] = "begun"]
  BY <1>1, <1>3 DEF PhaseOf, Ended
<1>8. [q \in Requests |-> SignedSelection(q)]' = [q \in Requests |-> SignedSelection(q)]
  BY <1>2 DEF SignedSelection
<1>9. signed[r] # None
  BY <1>2 DEF MaintenanceInv, ExecInv
<1>10. Selection!Fits(r)
  <2>1. SignedSelection(r) # None /\ SignedSelection(r).version = active.generation
        /\ SignedSelection(r).seen = active.deployment
        /\ SignedSelection(r).wanted = signed[r].deployment
    BY <1>2, <1>3, <1>9, SignatureIs DEF MaintenanceInv, Transition, SameState
  <2>2. signed[r].deployment # active.deployment
    <3>1. CASE signed[r].action = "activate"
      BY <1>2, <3>1 DEF Transition
    <3>2. CASE signed[r].action # "activate"
      BY <1>3, <1>9, <3>2, MaintenanceAssumption DEF MaintenanceInv, TypeOK, RequestInv
    <3> QED BY <3>1, <3>2
  <2> QED BY <1>3, <2>1, <2>2 DEF Selection!Fits
<1> QED BY <1>2, <1>3, <1>4, <1>5, <1>6, <1>7, <1>8, <1>10 DEF Selection!Begin

\* Its generation is used up.
LEMMA ConsumeShows ==
    ASSUME MaintenanceInv, ConsumeGeneration
    PROVE  Selection!Consume
PROOF
<1>1. /\ exec.pc = "consume" /\ exec'.pc = "remove" /\ exec'.request = exec.request
      /\ active'.generation = active.generation + 1
      /\ active'.deployment = active.deployment
      /\ UNCHANGED <<signed, receipts>>
  BY DEF ConsumeGeneration, Goto, MaintenanceInv, TypeOK, Executor, requests
<1>2. CurrentWork # None
  BY <1>1, WorkShows DEF Working, Catching
<1>3. CurrentWork = [request |-> exec.request, stage |-> "begun"]
  BY <1>1 DEF CurrentWork, Working, Catching, Heading
<1>4. CurrentWork' = [request |-> exec.request, stage |-> "consumed"]
  BY <1>1 DEF CurrentWork, Working, Catching, Heading
<1>5. UNCHANGED <<[q \in Requests |-> SignedSelection(q)], [q \in Requests |-> PhaseOf(q)]>>
  BY <1>1 DEF SignedSelection, PhaseOf
<1> QED BY <1>1, <1>2, <1>3, <1>4, <1>5 DEF Selection!Consume

\* The selection becomes the wanted one.
LEMMA ActivateShows ==
    ASSUME MaintenanceInv, Activate
    PROVE  Selection!Switch
PROOF
<1> DEFINE r == exec.request
<1>1. /\ exec.pc = "act" /\ exec'.pc = "activated" /\ exec'.request = r
      /\ signed[r].action = "activate"
      /\ active'.generation = active.generation
      /\ active'.deployment = signed[r].deployment
      /\ UNCHANGED <<signed, receipts>>
  BY DEF Activate, Goto, MaintenanceInv, TypeOK, Executor, requests
<1>2. CurrentWork # None /\ r \in Requests /\ signed[r] # None
  BY <1>1, WorkShows DEF Working, Catching
<1>3. CurrentWork = [request |-> r, stage |-> "consumed"]
  BY <1>1 DEF CurrentWork, Working, Catching, Heading
<1>4. CurrentWork' = [request |-> r, stage |-> "switched"]
  BY <1>1 DEF CurrentWork, Working, Catching, Heading
<1>5. UNCHANGED <<[q \in Requests |-> SignedSelection(q)], [q \in Requests |-> PhaseOf(q)]>>
  BY <1>1 DEF SignedSelection, PhaseOf
<1>6. Selection!Wanted = signed[r].deployment
  BY <1>2, <1>3, SignatureIs DEF Selection!Wanted, MaintenanceInv
<1>7. signed[r].deployment # None
  BY <1>1, <1>2 DEF MaintenanceInv, RequestInv
<1> QED BY <1>1, <1>2, <1>3, <1>4, <1>5, <1>6, <1>7 DEF Selection!Switch

\* A receipt that ends the request under way shows as its end.
LEMMA EndShows ==
    ASSUME MaintenanceInv, Working, NEW receipt \in Receipt, receipt.phase \in Ended,
           Record(receipt, "idle"), UNCHANGED <<signed, active>>
    PROVE  Selection!Ends(receipt.phase)
PROOF
<1> DEFINE r == exec.request
<1>1. /\ exec'.pc = "save" /\ exec'.then = "idle"
      /\ r \in Requests
      /\ receipts'[r] = receipt /\ receipt # None
      /\ \A q \in Requests : q # r => receipts'[q] = receipts[q]
  BY RecordFacts DEF Points, MaintenanceInv, Working
<1>2. CurrentWork # None /\ CurrentWork.request = r
  BY WorkShows
<1>3. [q \in Requests |-> PhaseOf(q)]'
        = [[q \in Requests |-> PhaseOf(q)] EXCEPT ![CurrentWork.request] = receipt.phase]
  BY <1>1, <1>2 DEF PhaseOf
<1>4. UNCHANGED [q \in Requests |-> SignedSelection(q)]
  BY DEF SignedSelection
<1> QED BY <1>2, <1>3, <1>4 DEF Selection!Ends, Selection!selected

\* A phase that is recorded shows when it is the last.
LEMMA PhaseShows ==
    ASSUME MaintenanceInv, RecordPhase
    PROVE  Selection!Complete \/ UNCHANGED Selection!all
PROOF
<1> DEFINE r == exec.request
           receipt == [receipts[r] EXCEPT !.phase = exec.pc]
<1>1. exec.pc \in {"staged", "stopping", "activated", "completed"}
  BY DEF RecordPhase, After
<1>2. /\ r \in Requests /\ signed[r] # None /\ receipts[r] # None
      /\ PhaseOf(r) = "begun"
      /\ CurrentWork # None /\ CurrentWork.request = r
  BY <1>1, WorkShows DEF Working, Catching
<1>3. receipts[r] \in Receipt
  BY <1>2 DEF MaintenanceInv, TypeOK
<1>4. receipt \in Receipt /\ receipt.phase = exec.pc
  BY <1>1, <1>3 DEF Receipt, Phases
<1>5. Record(receipt, After[exec.pc]) /\ UNCHANGED <<signed, active>>
  BY DEF RecordPhase, requests
<1> HIDE DEF receipt
<1>6. CASE exec.pc = "completed"
  <2>1. Selection!Ends("completed")
    BY <1>1, <1>4, <1>5, <1>6, EndShows DEF Working, Catching, After, Ended
  <2>2. CurrentWork.stage = IF signed[r].action = "activate" THEN "switched" ELSE "consumed"
    BY <1>6 DEF CurrentWork, Working, Catching, Heading
  <2>3. Selection!Wanted = signed[r].deployment
    BY <1>2, SignatureIs DEF Selection!Wanted, MaintenanceInv
  <2>4. signed[r].action = "activate" <=> signed[r].deployment # None
    BY <1>2 DEF MaintenanceInv, RequestInv
  <2>5. /\ exec'.pc = "save" /\ exec'.then = "idle" /\ exec'.request = r
        /\ receipts'[r].phase = "completed"
    BY <1>1, <1>4, <1>5, <1>6, RecordFacts DEF After, Points, MaintenanceInv
  <2>6. CurrentWork' = CurrentWork
    BY <1>5, <1>6, <2>5 DEF CurrentWork, Working, Catching, Heading
  <2> QED BY <1>2, <2>1, <2>2, <2>3, <2>4, <2>6 DEF Selection!Complete
<1>7. CASE exec.pc # "completed"
  <2>1. After[exec.pc] \in {"stopping", "stop", "release"}
        /\ (exec.pc = "activated" <=> After[exec.pc] = "release")
    BY <1>1, <1>7 DEF After
  <2>2. /\ exec'.pc = "save" /\ exec'.then = After[exec.pc] /\ exec'.request = r
        /\ receipts'[r] = receipt /\ receipt # None
        /\ \A q \in Requests : q # r => receipts'[q] = receipts[q]
    BY <1>1, <1>4, <1>5, <2>1, RecordFacts DEF Points, MaintenanceInv
  <2>3. CurrentWork' = CurrentWork
    BY <1>1, <1>5, <1>7, <2>1, <2>2 DEF CurrentWork, Working, Catching, Heading
  <2>4. \A q \in Requests : PhaseOf(q)' = PhaseOf(q)
    BY <1>1, <1>2, <1>4, <1>7, <2>2 DEF PhaseOf, Ended
  <2> QED BY <1>5, <2>3, <2>4 DEF Selection!all, SignedSelection
<1> QED BY <1>6, <1>7

\* A failure shows as one, also of what was completed.
LEMMA FailShows ==
    ASSUME MaintenanceInv, Fail
    PROVE  Selection!Fail
PROOF
<1>1. Working
  BY DEF Fail, Working
<1>2. PICK receipt \in Receipt : receipt.phase = "failed" /\ Record(receipt, "idle")
  BY FailedReceipt
<1>3. UNCHANGED <<signed, active>>
  BY DEF Fail, requests
<1>4. Selection!Ends("failed")
  BY <1>1, <1>2, <1>3, EndShows DEF Ended
<1>5. CurrentWork' = None
  BY <1>1, <1>2, RecordFacts DEF CurrentWork, Working, Catching, Points, MaintenanceInv
<1> QED BY <1>4, <1>5 DEF Selection!Fail

\* A rejection shows as a refusal.
LEMMA RejectionShows ==
    ASSUME MaintenanceInv, RecordRejection
    PROVE  Selection!Refuse(exec.request)
PROOF
<1> DEFINE r == exec.request
           receipt == [phase |-> "failed", failedPhase |-> "rejected", generation |-> 0]
<1>1. receipt \in Receipt /\ receipt.phase = "failed"
  BY DEF Receipt, Phases
<1>2. /\ exec.pc = "reject" /\ Record(receipt, "idle") /\ UNCHANGED <<signed, active>>
      /\ signed[r] # None /\ receipts[r] = None
  BY DEF RecordRejection, requests, MaintenanceInv, ExecInv, ReceiptInv
<1> HIDE DEF receipt
<1>3. /\ exec'.pc = "save" /\ exec'.then = "idle" /\ exec'.request = r
      /\ r \in Requests
      /\ receipts'[r] = receipt /\ receipt # None
      /\ \A q \in Requests : q # r => receipts'[q] = receipts[q]
  BY <1>1, <1>2, RecordFacts DEF Points, MaintenanceInv
<1>4. CurrentWork = None /\ CurrentWork' = None
  BY <1>1, <1>2, <1>3 DEF CurrentWork, Working, Catching
<1>5. PhaseOf(r) = "new" /\ SignedSelection(r) # None
  BY <1>2, <1>3, SignatureIs DEF PhaseOf, MaintenanceInv
<1>6. [q \in Requests |-> PhaseOf(q)]' = [[q \in Requests |-> PhaseOf(q)] EXCEPT ![r] = "failed"]
  BY <1>1, <1>3 DEF PhaseOf, Ended
<1>7. UNCHANGED [q \in Requests |-> SignedSelection(q)]
  BY <1>2 DEF SignedSelection
<1> QED BY <1>2, <1>3, <1>4, <1>5, <1>6, <1>7 DEF Selection!Refuse, Selection!selected

\* An executor that is killed, or is done, leaves what it worked on.
LEMMA EndedShows ==
    ASSUME MaintenanceInv, ExecutorDies \/ (SaveLatest /\ exec.then = "idle")
    PROVE  Selection!Leave \/ UNCHANGED Selection!all
PROOF
<1>1. UNCHANGED <<signed, active, receipts>> /\ CurrentWork' = None
  BY IdleFacts DEF ExecutorDies, SaveLatest, requests, control, CurrentWork, Working
<1>2. CASE CurrentWork = None
  BY <1>1, <1>2, NothingShows
<1>3. CASE CurrentWork # None
  BY <1>1, <1>3 DEF Selection!Leave, Selection!selected, SignedSelection, PhaseOf
<1> QED BY <1>2, <1>3

\* Each step in turn.
LEMMA StepShows ==
    ASSUME MaintenanceInv, [Next]_vars
    PROVE  [Selection!SelectionNext]_(Selection!all)
PROOF
<1>1. ASSUME NEW r \in Requests, NEW action \in Actions,
             NEW d \in Deployments \cup {None}, Sign(r, action, d)
      PROVE  Selection!SelectionNext
  BY <1>1, SignShows DEF Selection!SelectionNext
<1>2. ASSUME \/ \E r \in Requests : Expire(r) \/ \E g \in Gateways : GatewayChecks(g, r)
             \/ \E g \in Gateways : GatewayQueues(g) \/ GatewayGivesUp(g)
             \/ \E p \in Readers : OpenReadGuard(p) \/ ReadSelection(p) \/ CloseReadGuard(p)
             \/ LocalRepair
             \/ UNCHANGED vars
      PROVE  UNCHANGED Selection!all
  <2>1. UNCHANGED <<signed, control, exec>>
    BY <1>2 DEF Expire, GatewayChecks, GatewayQueues, GatewayGivesUp, OpenReadGuard,
                ReadSelection, CloseReadGuard, LocalRepair, vars, requests
  <2> QED BY <2>1, OthersAreUnseen
<1>3. ASSUME Accept
      PROVE  Selection!SelectionNext
  <2>1. exec.request \in Requests
    BY <1>3, MaintenanceAssumption DEF Accept, MaintenanceInv, TypeOK, Executor, ExecInv
  <2> QED BY <1>3, <2>1, AcceptShows DEF Selection!SelectionNext
<1>4. ASSUME RecordRejection
      PROVE  Selection!SelectionNext
  <2>1. exec.request \in Requests
    BY <1>4, MaintenanceAssumption DEF RecordRejection, MaintenanceInv, TypeOK, Executor, ExecInv
  <2> QED BY <1>4, <2>1, RejectionShows DEF Selection!SelectionNext
<1>5. ASSUME ConsumeGeneration \/ Activate \/ Fail
      PROVE  Selection!SelectionNext
  BY <1>5, ConsumeShows, ActivateShows, FailShows DEF Selection!SelectionNext
<1>6. ASSUME RecordPhase \/ ExecutorDies \/ SaveLatest
      PROVE  Selection!SelectionNext \/ UNCHANGED Selection!all
  BY <1>6, PhaseShows, EndedShows, ProgressIsUnseen DEF Selection!SelectionNext
<1> DEFINE Shown == Selection!SelectionNext \/ UNCHANGED Selection!all
<1>7. ASSUME ExecutorStep
      PROVE  Shown
  BY <1>3, <1>4, <1>5, <1>6, <1>7, ProgressIsUnseen DEF ExecutorStep
<1>8. Shown
  <2> HIDE DEF Shown
  <2>1. ASSUME NEW r \in Requests, NEW action \in Actions,
               NEW d \in Deployments \cup {None}, Sign(r, action, d)
        PROVE  Shown
    BY <1>1, <2>1 DEF Shown
  <2> QED BY <1>2, <1>6, <1>7, <2>1 DEF Next, Shown
<1> QED BY <1>8

\* A fresh installation shows as the first selection.
LEMMA InitShows ==
    ASSUME Init
    PROVE  Selection!SelectionInit
PROOF
<1>1. CurrentWork = None
  BY IdleFacts DEF Init, CurrentWork, Working
<1>2. \A r \in Requests : SignedSelection(r) = None /\ PhaseOf(r) = "new"
  BY DEF Init, SignedSelection, PhaseOf
<1> QED BY <1>1, <1>2 DEF Init, Selection!SelectionInit

\* Inbox, gateways, files and kills together implement the selection that each
\* generation changes once, as it was signed.
THEOREM ImplementsVersionedSelection == Spec => ImplementsSelection
PROOF
<1>1. Init => Selection!SelectionInit
  BY InitShows
<1>2. MaintenanceInv /\ [Next]_vars => [Selection!SelectionNext]_(Selection!all)
  BY StepShows
<1> QED BY <1>1, <1>2, MaintenanceInvariant, PTL
        DEF Spec, ImplementsSelection, Selection!SelectionSpec
-----------------------------------------------------------------------------
(* So it keeps what VersionedSelection promises. *)

Promise ==
    INSTANCE VersionedSelectionProofs WITH
        Selections <- Deployments, First <- Installed,
        version <- active.generation, selection <- active.deployment,
        signed <- [r \in Requests |-> SignedSelection(r)],
        phase <- [r \in Requests |-> PhaseOf(r)],
        current <- CurrentWork

\* It is the same module, with its proofs.
LEMMA SamePromise ==
    /\ Promise!SelectionConstants
    /\ Selection!SelectionInit <=> Promise!SelectionInit
    /\ [Selection!SelectionNext]_(Selection!all) <=> [Promise!SelectionNext]_(Promise!all)
PROOF
<1>1. Promise!SelectionConstants
  BY NoneIsNoWork
     DEF Selection!SelectionConstants, Promise!SelectionConstants, Selection!Signature,
         Selection!Work, Selection!Stages, Promise!Signature, Promise!Work, Promise!Stages
<1>2. Selection!SelectionInit <=> Promise!SelectionInit
  BY DEF Selection!SelectionInit, Promise!SelectionInit
<1>3. [Selection!SelectionNext]_(Selection!all) <=> [Promise!SelectionNext]_(Promise!all)
  BY DEF Selection!all, Selection!selected, Selection!Sign, Selection!Fits,
         Selection!Begin, Selection!Consume, Selection!Wanted, Selection!Switch,
         Selection!Ends, Selection!Complete, Selection!Fail, Selection!Leave,
         Selection!Refuse, Selection!SelectionNext,
         Promise!all, Promise!selected, Promise!Sign, Promise!Fits, Promise!Begin,
         Promise!Consume, Promise!Wanted, Promise!Switch, Promise!Ends,
         Promise!Complete, Promise!Fail, Promise!Leave, Promise!Refuse,
         Promise!SelectionNext
<1> QED BY <1>1, <1>2, <1>3

\* Of the administrators who saw one state of the host at most one is ever told that
\* his request is completed, however the others are delayed, retried or cut short.
THEOREM CompletedOnce == Spec => CompletedOncePerGeneration
PROOF
<1>1. Promise!SelectionSpec => []Promise!SelectionInv
  BY SamePromise, Promise!SelectionInvariant
<1>2. Init => Promise!SelectionInit
  BY InitShows, SamePromise
<1>3. MaintenanceInv /\ [Next]_vars => [Promise!SelectionNext]_(Promise!all)
  BY StepShows, SamePromise
<1>4. ASSUME NEW q \in Requests
      PROVE  Spec => [](PhaseOf(q) = "completed" => [](\A r \in Rivals(q) : PhaseOf(r) # "completed"))
  <2>1. Promise!SelectionInv /\ PhaseOf(q) = "completed" => Promise!Barred(q)
    BY Promise!CompletedBars
  <2>2. Promise!SelectionInv /\ Promise!Barred(q) /\ [Promise!SelectionNext]_(Promise!all)
            => Promise!Barred(q)'
    BY SamePromise, Promise!StaysBarred
  <2>3. MaintenanceInv /\ Promise!Barred(q) =>
            \A r \in Rivals(q) : PhaseOf(r) # "completed"
    <3> SUFFICES ASSUME MaintenanceInv, Promise!Barred(q), NEW r \in Rivals(q)
                 PROVE  PhaseOf(r) # "completed"
      OBVIOUS
    <3>1. /\ r \in Requests \ {q} /\ signed[r] # None /\ signed[q] # None
          /\ signed[r].generation = signed[q].generation
      BY DEF Rivals
    <3>2. r \in Promise!Rivals(q)
      BY <3>1, SignatureIs DEF MaintenanceInv, Promise!Rivals
    <3> QED BY <3>1, <3>2 DEF Promise!Barred
  <2> QED BY <1>1, <1>2, <1>3, <2>1, <2>2, <2>3, MaintenanceInvariant, PTL
          DEF Spec, Promise!SelectionSpec
<1> QED BY <1>4 DEF CompletedOncePerGeneration
=============================================================================
