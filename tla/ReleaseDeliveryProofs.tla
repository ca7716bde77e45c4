------------------------ MODULE ReleaseDeliveryProofs ------------------------
(***************************************************************************)
(* Proofs about ReleaseDelivery for every value of its constants: any      *)
(* number of requests, files, programs, releases, publications and kills,  *)
(* and any names of members.                                               *)
(***************************************************************************)
EXTENDS ReleaseDelivery, SequenceTheorems, TLAPS

-----------------------------------------------------------------------------
(* Names. *)

\* Whatever the builder accepts can be extracted on the host: the root that is put
\* before every name of a player makes none too long, forbidden or a directory of
\* another (build against CheckMember and Extract).
THEOREM AcceptedExtractable ==
    ASSUME NEW x \in Inputs, Accepts(x)
    PROVE  Extractable(x)
PROOF
<1> DEFINE Part == STRING \cup {x.worker, x.unity, "policy"}
           Full(name) == <<x.unity>> \o name
           policy == <<x.worker, "policy">>
<1>0. /\ x.worker # x.unity /\ x.worker \notin Reserved /\ x.unity \notin Reserved
      /\ x.members \subseteq Seq(Part) /\ "policy" \notin Reserved
      /\ MaxParts \in Nat /\ MaxParts >= 2
  <2>1. x.members \subseteq Seq(STRING) /\ Seq(STRING) \subseteq Seq(Part)
    BY DeliveryAssumption
  <2> QED BY <2>1, DeliveryAssumption
<1>1. \A name \in x.members :
        /\ Len(name) \in 1..(MaxParts - 1)
        /\ \A i \in 1..Len(name) : name[i] \notin Reserved
        /\ Prefixes(name) \cap x.members = {}
  BY DEF Accepts, PortableName
<1>2. ASSUME NEW name \in x.members
      PROVE  /\ Full(name) \in Seq(Part) /\ Len(Full(name)) = Len(name) + 1
             /\ Len(name) \in Nat
             /\ Full(name)[1] = x.unity
             /\ \A i \in 1..Len(name) : Full(name)[i + 1] = name[i]
  BY <1>0
<1>3. policy \in Seq(Part) /\ Len(policy) = 2 /\ policy[1] = x.worker /\ policy[2] = "policy"
  <2>1. x.worker \in Part /\ "policy" \in Part
    OBVIOUS
  <2> HIDE DEF Part
  <2> QED BY <2>1
<1>4. FullNames(x) = {policy} \cup {Full(name) : name \in x.members}
  BY DEF FullNames
<1> HIDE DEF Part, Full, policy
<1>5. ASSUME NEW full \in FullNames(x)
      PROVE  CheckMember(full)
  <2>1. CASE full = policy
    <3>0. Len(full) = 2 /\ full[1] = x.worker /\ full[2] = "policy"
      BY <1>3, <2>1, Zenon
    <3>1. Len(full) \in 2..MaxParts
      BY <1>0, <3>0
    <3>2. ASSUME NEW i \in 1..Len(full)
          PROVE  full[i] \notin Reserved
      <4>1. i = 1 \/ i = 2
        BY <3>0
      <4> QED BY <1>0, <3>0, <4>1
    <3> QED BY <3>1, <3>2 DEF CheckMember
  <2>2. ASSUME NEW name \in x.members, full = Full(name)
        PROVE  CheckMember(full)
    <3>1. Len(full) \in 2..MaxParts
      BY <1>0, <1>1, <1>2, <2>2
    <3>2. ASSUME NEW i \in 1..Len(full)
          PROVE  full[i] \notin Reserved
      <4>1. CASE i = 1
        BY <1>0, <1>2, <2>2, <4>1
      <4>2. CASE i # 1
        <5>1. i - 1 \in 1..Len(name) /\ (i - 1) + 1 = i
          BY <1>2, <2>2, <4>2
        <5>2. full[i] = name[i - 1]
          BY <1>2, <2>2, <5>1
        <5> QED BY <1>1, <5>1, <5>2
      <4> QED BY <4>1, <4>2
    <3> QED BY <3>1, <3>2 DEF CheckMember
  <2> QED BY <1>4, <2>1, <2>2
<1>6. ASSUME NEW full \in FullNames(x), NEW pre \in Prefixes(full)
      PROVE  pre \notin FullNames(x)
  <2>1. full \in Seq(Part) /\ Len(full) \in Nat
    BY <1>2, <1>3, <1>4
  <2>2. PICK i \in 1..(Len(full) - 1) : pre = SubSeq(full, 1, i)
    BY DEF Prefixes
  <2>3. Len(pre) = i /\ \A j \in 1..i : pre[j] = full[j]
    BY <2>1, <2>2
  <2>4. ASSUME NEW other \in FullNames(x)
        PROVE  Len(other) \in Nat /\ Len(other) >= 2
    <3>1. Len(other) \in 2..MaxParts
      BY <1>5 DEF CheckMember
    <3> QED BY <1>0, <3>1
  <2>5. CASE full = policy
    <3>1. i = 1
      BY <1>3, <2>2, <2>5
    <3>2. Len(pre) = 1
      BY <2>3, <3>1
    <3>3. ~(Len(pre) >= 2)
      BY <3>2
    <3> QED BY <2>4, <3>3, Zenon
  <2>6. ASSUME NEW name \in x.members, full = Full(name), pre = policy
        PROVE  FALSE
    BY <1>0, <1>2, <1>3, <2>2, <2>3, <2>6
  <2>7. ASSUME NEW name \in x.members, full = Full(name), NEW m \in x.members, pre = Full(m)
        PROVE  FALSE
    <3>1. name \in Seq(Part) /\ m \in Seq(Part) /\ Len(m) \in Nat /\ Len(name) \in Nat
      BY <1>0, <1>2
    <3>2. Len(m) = i - 1 /\ i \in Nat /\ i <= Len(name) /\ Len(m) >= 1
      BY <1>1, <1>2, <2>2, <2>3, <2>7
    <3>3. ASSUME NEW j \in 1..Len(m) PROVE m[j] = name[j]
      <4>1. j \in 1..Len(name) /\ j + 1 \in 1..i
        BY <3>1, <3>2
      <4>2. Full(m)[j + 1] = m[j] /\ Full(name)[j + 1] = name[j]
        BY <1>2, <4>1
      <4>3. pre[j + 1] = full[j + 1]
        BY <2>3, <4>1
      <4> QED BY <2>7, <4>2, <4>3
    <3>4. Len(m) \in 1..(Len(name) - 1)
      BY <3>1, <3>2
    <3>5. m = SubSeq(name, 1, Len(m))
      BY <3>1, <3>3, <3>4
    <3>6. m \in Prefixes(name)
      BY <3>4, <3>5 DEF Prefixes
    <3> QED BY <1>1, <3>6
  <2> QED BY <1>4, <2>5, <2>6, <2>7
<1> QED BY <1>5, <1>6 DEF Extractable
-----------------------------------------------------------------------------
(* What is known of a request. *)

\* Who has signed, has signed what was published or a repair.
LEMMA HasSignature ==
    ASSUME DeliveryInv, NEW r \in Requests, signed[r] # None
    PROVE  /\ signed[r] \in Signature
           /\ signed[r].release \in Inputs \cup {None}
           /\ signed[r].release # None =>
                /\ signed[r].ticket \in Tickets
                /\ signed[r].release = published[signed[r].ticket]
                /\ Accepts(signed[r].release)
PROOF
<1>1. signed[r] \in Signature
  BY DEF DeliveryInv, TypeOK, ClientType
<1>2. SignedFor(signed[r])
  BY DEF DeliveryInv
<1>3. \A t \in Tickets : Accepts(published[t])
  BY DEF DeliveryInv, Publications
<1> QED BY <1>1, <1>2, <1>3 DEF Signature, SignedFor

\* Whom the host knows of has signed.
LEMMA KnownSigned ==
    ASSUME DeliveryInv, NEW r \in Requests, inbox = r \/ receipts[r] # None
    PROVE  signed[r] # None
PROOF
<1>1. \E f \in Files : files[f] = r
  BY DEF DeliveryInv, Known
<1> QED BY <1>1 DEF DeliveryInv, TypeOK, ClientType

LEMMA AtWork ==
    ASSUME DeliveryInv, exec # None
    PROVE  /\ exec \in Work /\ exec.request \in Requests
           /\ receipts[exec.request] = "prepared"
           /\ signed[exec.request] # None
           /\ host.latest = exec.request
           /\ exec.pc # "finish" =>
                /\ Request.release \in Inputs /\ Request.ticket \in Tickets
                /\ Request.release = published[Request.ticket]
                /\ Accepts(Request.release)
PROOF
<1>1. exec \in Work /\ receipts[exec.request] = "prepared"
  BY DEF DeliveryInv, TypeOK, HostType
<1>2. exec.request \in Requests
  BY <1>1 DEF Work
<1>3. signed[exec.request] # None
  BY <1>1, <1>2, KnownSigned, DeliveryAssumption
<1>4. host.latest = exec.request /\ (exec.pc # "finish" => Request.release # None)
  BY DEF DeliveryInv, Downloading
<1> QED BY <1>1, <1>2, <1>3, <1>4, HasSignature DEF Request

-----------------------------------------------------------------------------
(* Steps of the operator and of the clients, that leave the executor alone. *)

\* Nothing signed or published is ever changed; a ticket is only ever closed.
Lasting ==
    /\ \A r \in Requests : signed[r] # None => signed'[r] = signed[r]
    /\ Len(published) \in Nat /\ Len(published') \in Nat /\ Len(published) <= Len(published')
    /\ \A t \in Tickets : published'[t] = published[t]

Outside ==
    /\ Lasting
    /\ UNCHANGED <<exec, receipts, host, program, broken, deaths>>
    /\ \/ UNCHANGED <<listener, published, fate>>
       \/ /\ exec # None => exec.pc # "receive"
          /\ listener' # None => listener'.sending = None
          /\ \A t \in Tickets : fate'[t] = fate[t] \/ (fate[t] = "open" /\ fate'[t] = "closed")
          /\ \A t \in Tickets' \ Tickets : fate'[t] = "open"

LEMMA StillInstalled ==
    ASSUME DeliveryInv, Lasting, UNCHANGED program
    PROVE  InstalledAsPublished'
PROOF
<1> SUFFICES ASSUME NEW root \in DOMAIN program, program[root] # None
             PROVE  LET s == signed'[program[root].for] IN
                    /\ program[root].got = [release |-> published'[s.ticket], whole |-> TRUE]
                    /\ root \in Roots(s.release)
  BY Zenon DEF InstalledAsPublished
<1>1. /\ program[root].for \in Requests
      /\ receipts[program[root].for] # None /\ signed[program[root].for].release # None
  BY DEF DeliveryInv, TypeOK, HostType, Installing
<1>2. signed[program[root].for] # None
  BY <1>1, KnownSigned
<1>3. signed'[program[root].for] = signed[program[root].for]
  BY <1>1, <1>2 DEF Lasting
<1>4. signed[program[root].for].ticket \in Tickets
  BY <1>1, <1>2, HasSignature
<1>5. published'[signed[program[root].for].ticket] = published[signed[program[root].for].ticket]
  BY <1>4 DEF Lasting
<1> QED BY <1>3, <1>5 DEF DeliveryInv, InstalledAsPublished

\* A reason stays one.
LEMMA StillReason ==
    ASSUME DeliveryInv, Lasting, NEW r \in Requests, receipts[r] = "failed",
           broken \subseteq broken',
           \A t \in Tickets : fate[t] \notin {"open", r} => fate'[t] \notin {"open", r},
           \A root \in AllRoots : program[root] # None => program'[root] = program[root],
           DOMAIN program' = AllRoots
    PROVE  \/ r \in broken'
           \/ fate'[signed'[r].ticket] \notin {"open", r}
           \/ \E root \in Roots(signed'[r].release) : ForAnother(root, r)'
PROOF
<1>1. signed[r].release # None
  BY DEF DeliveryInv, Receipts
<1>2. signed[r] # None
  BY KnownSigned, DeliveryAssumption
<1>3. signed'[r] = signed[r] /\ signed[r].ticket \in Tickets /\ signed[r].release \in Inputs
  BY <1>1, <1>2, HasSignature DEF Lasting
<1>4. Roots(signed[r].release) \subseteq AllRoots
  BY <1>3 DEF AllRoots
<1>5. \/ r \in broken
      \/ fate[signed[r].ticket] \notin {"open", r}
      \/ \E root \in Roots(signed[r].release) : ForAnother(root, r)
  BY DEF DeliveryInv, FailsForReason
<1> QED BY <1>3, <1>4, <1>5 DEF ForAnother

LEMMA OutsideStep ==
    ASSUME DeliveryInv, Outside
    PROVE  /\ Downloading' /\ Installing' /\ Receipts' /\ InstalledAsPublished' /\ FailsForReason'
           /\ \A r \in Requests : receipts'[r] = "prepared" => host'.latest = r \/ deaths' > 0
           /\ exec' # None => receipts'[exec'.request] = "prepared"
           /\ listener' # None /\ listener'.sending # None =>
                exec' # None /\ exec'.pc = "receive" /\ exec'.request = listener'.sending
PROOF
<1>0. UNCHANGED <<exec, receipts, host, program, broken, deaths>> /\ Lasting
  BY DEF Outside
<1>1. InstalledAsPublished'
  BY <1>0, StillInstalled
<1>2. FailsForReason'
  <2> SUFFICES ASSUME NEW r \in Requests, receipts[r] = "failed"
               PROVE  \/ r \in broken'
                      \/ fate'[signed'[r].ticket] \notin {"open", r}
                      \/ \E root \in Roots(signed'[r].release) : ForAnother(root, r)'
    BY <1>0, Zenon DEF FailsForReason
  <2>1. \A t \in Tickets : fate[t] \notin {"open", r} => fate'[t] \notin {"open", r}
    BY DEF Outside
  <2>2. DOMAIN program = AllRoots
    BY DEF DeliveryInv, TypeOK, HostType
  <2> QED BY <1>0, <2>1, <2>2, StillReason
<1>3. Receipts'
  <2> SUFFICES ASSUME NEW r \in Requests
               PROVE  /\ receipts[r] = "prepared" => (exec # None /\ exec.request = r) \/ deaths > 0
                      /\ receipts[r] = "failed" => signed'[r].release # None
    BY <1>0, Zenon DEF Receipts
  <2>1. receipts[r] = "failed" => signed'[r] = signed[r]
    BY <1>0, KnownSigned, DeliveryAssumption DEF Lasting
  <2> QED BY <2>1 DEF DeliveryInv, Receipts
<1>4. Installing'
  <2>1. ASSUME NEW root \in AllRoots, program[root] # None
        PROVE  /\ receipts[program[root].for] # None
               /\ signed'[program[root].for].release # None
    <3>1. /\ program[root].for \in Requests
          /\ receipts[program[root].for] # None /\ signed[program[root].for].release # None
      BY <2>1 DEF DeliveryInv, TypeOK, HostType, Installing
    <3> QED BY <1>0, <3>1, KnownSigned DEF Lasting
  <2>2. exec # None => signed'[exec.request] = signed[exec.request]
    BY <1>0, AtWork DEF Lasting
  <2> QED BY <1>0, <2>1, <2>2 DEF DeliveryInv, Installing, Request
<1>5. Downloading'
  <2>1. ASSUME NEW t \in Tickets', fate'[t] \in Requests
        PROVE  t \in Tickets /\ fate'[t] = fate[t]
    <3>1. CASE UNCHANGED <<listener, published, fate>>
      BY <2>1, <3>1 DEF Tickets
    <3>2. "open" \notin Requests /\ "closed" \notin Requests
      BY DeliveryAssumption
    <3> QED BY <2>1, <3>1, <3>2, Zenon DEF Outside
  <2>2. ASSUME exec # None
        PROVE  /\ signed'[exec.request] = signed[exec.request]
               /\ exec.pc = "receive" => UNCHANGED <<listener, fate>>
    BY <1>0, <2>2, AtWork DEF Lasting, Outside
  <2>3. /\ \A t \in Tickets : fate[t] \in Requests =>
            /\ receipts[fate[t]] # None
            /\ exec # None /\ exec.request = fate[t] => exec.pc \notin {"connect", "receive"}
        /\ exec # None => host.latest = exec.request
    BY DEF DeliveryInv, Downloading
  <2>4. ASSUME exec # None
        PROVE  /\ exec.pc # "finish" => Request.release # None
               /\ exec.pc = "receive" =>
                   /\ listener # None /\ listener.sending = exec.request
                   /\ listener.ticket = Request.ticket /\ fate[Request.ticket] = "open"
               /\ exec.pc = "verify" =>
                   /\ exec.got \in Got /\ exec.got.release = Request.release
                   /\ exec.got.whole \/ exec.request \in broken
               /\ exec.pc \in {"unity", "worker", "switch"} =>
                   exec.got = [release |-> Request.release, whole |-> TRUE]
    BY <2>4 DEF DeliveryInv, Downloading
  <2>5. exec # None => Request' = Request
    BY <1>0, <2>2 DEF Request
  <2> QED BY <1>0, <2>1, <2>2, <2>3, <2>4, <2>5 DEF Downloading
<1>6. /\ \A r \in Requests : receipts[r] = "prepared" => host.latest = r \/ deaths > 0
      /\ exec # None => receipts[exec.request] = "prepared"
      /\ listener # None /\ listener.sending # None =>
           exec # None /\ exec.pc = "receive" /\ exec.request = listener.sending
  BY DEF DeliveryInv, TypeOK
<1> QED BY <1>0, <1>1, <1>2, <1>3, <1>4, <1>5, <1>6 DEF Outside
Programs == ClientType /\ \A c \in Clients : ~Idle(c) => Filed(c)
Signing == \A r \in Requests : signed[r] # None => SignedFor(signed[r])

LEMMA Alone ==
    ASSUME DeliveryInv
    PROVE  /\ UNCHANGED operator => OperatorType' /\ Publications'
           /\ UNCHANGED clients => Programs'
           /\ UNCHANGED <<signed, published>> => Signing'
           /\ UNCHANGED <<server, exec, history>> => HostType'
           /\ UNCHANGED <<inbox, receipts, files>> => Known'
PROOF
<1>1. ASSUME UNCHANGED operator PROVE OperatorType' /\ Publications'
  BY <1>1 DEF DeliveryInv, TypeOK, OperatorType, Publications, operator, Tickets
<1>2. ASSUME UNCHANGED clients PROVE Programs'
  BY <1>2 DEF DeliveryInv, TypeOK, ClientType, Programs, Filed, Idle, clients
<1>3. ASSUME UNCHANGED <<signed, published>> PROVE Signing'
  BY <1>3 DEF DeliveryInv, Signing, SignedFor, Tickets
<1>4. ASSUME UNCHANGED <<server, exec, history>> PROVE HostType'
  BY <1>4 DEF DeliveryInv, TypeOK, HostType, server, history
<1>5. ASSUME UNCHANGED <<inbox, receipts, files>> PROVE Known'
  BY <1>5 DEF DeliveryInv, Known
<1> QED BY <1>1, <1>2, <1>3, <1>4, <1>5

LEMMA Together ==
    ASSUME DeliveryInv, Outside, OperatorType', Publications', Programs', Signing', HostType', Known'
    PROVE  DeliveryInv'
BY OutsideStep DEF DeliveryInv, TypeOK, Programs, Signing

LEMMA PublishedType ==
    ASSUME DeliveryInv
    PROVE  /\ Len(published) \in Nat /\ Len(fate) = Len(published)
           /\ \A t \in Tickets : published[t] \in Inputs /\ fate[t] \in {"open", "closed"} \cup Requests
BY DEF DeliveryInv, TypeOK, OperatorType, Tickets

\* Only the archive is replaced; what is published stays what it was.
LEMMA BuildStep ==
    ASSUME DeliveryInv, NEW x \in Inputs, Build(x)
    PROVE  DeliveryInv'
PROOF
<1>1. OperatorType' /\ Publications'
  BY DEF Build, DeliveryInv, TypeOK, OperatorType, Publications, Tickets
<1>2. Outside
  BY PublishedType DEF Build, Outside, Lasting, clients, server, history
<1>3. Programs' /\ Signing' /\ HostType' /\ Known'
  BY Alone DEF Build, clients, server, history
<1> QED BY <1>1, <1>2, <1>3, Together

LEMMA PublishStep ==
    ASSUME DeliveryInv, Publish
    PROVE  DeliveryInv'
PROOF
<1>0. /\ published \in Seq(Inputs) /\ fate \in Seq({"open", "closed"} \cup Requests)
      /\ Len(fate) = Len(published) /\ Len(published) \in Nat
      /\ archive \in Inputs /\ listener = None /\ archive # None
      /\ published' = Append(published, archive) /\ fate' = Append(fate, "open")
      /\ listener' = [ticket |-> Len(published) + 1, content |-> archive, sending |-> None]
      /\ UNCHANGED <<archive, clients, server, exec, history>>
  BY DEF Publish, DeliveryInv, TypeOK, OperatorType
<1>1. /\ published' \in Seq(Inputs) /\ fate' \in Seq({"open", "closed"} \cup Requests)
      /\ Len(published') = Len(published) + 1 /\ Len(fate') = Len(published) + 1
      /\ \A t \in Tickets : published'[t] = published[t] /\ fate'[t] = fate[t]
      /\ published'[Len(published) + 1] = archive /\ fate'[Len(published) + 1] = "open"
  BY <1>0 DEF Tickets
<1>2. Tickets' = Tickets \cup {Len(published) + 1}
  BY <1>0, <1>1 DEF Tickets
<1>3. listener' \in Serving
  BY <1>0 DEF Serving
<1>4. OperatorType'
  BY <1>0, <1>1, <1>2, <1>3 DEF OperatorType
<1>5. Publications'
  <2>1. \A t \in Tickets : Accepts(published[t]) /\ fate[t] # "open"
    BY <1>0 DEF DeliveryInv, Publications
  <2>2. Accepts(archive)
    BY <1>0 DEF DeliveryInv, Publications
  <2>3. listener' # None /\ listener'.ticket = Len(published) + 1
    BY <1>0, <1>3, DeliveryAssumption
  <2> QED BY <1>0, <1>1, <1>2, <2>1, <2>2, <2>3 DEF Publications
<1>6. Outside
  <2>0. Len(published) \in Nat /\ signed' = signed
    BY <1>0 DEF clients
  <2>1. Lasting
    BY <1>1, <2>0 DEF Lasting
  <2>2. exec # None => exec.pc # "receive"
    BY <1>0 DEF DeliveryInv, Downloading
  <2> QED BY <1>0, <1>1, <1>2, <2>1, <2>2 DEF Outside, server, history
<1>7. Signing'
  <2>1. \A r \in Requests : signed[r] # None => SignedFor(signed[r])
    BY DEF DeliveryInv
  <2> QED BY <1>0, <1>1, <1>2, <2>1 DEF Signing, SignedFor, clients
<1>8. Programs' /\ HostType' /\ Known'
  BY <1>0, Alone DEF clients, server, history
<1> QED BY <1>4, <1>5, <1>6, <1>7, <1>8, Together

LEMMA ListenerExpiresStep ==
    ASSUME DeliveryInv, ListenerExpires
    PROVE  DeliveryInv'
PROOF
<1>0. /\ fate \in Seq({"open", "closed"} \cup Requests) /\ Len(fate) = Len(published)
      /\ Len(published) \in Nat /\ listener.ticket \in Tickets
      /\ listener # None /\ listener.sending = None /\ listener' = None
      /\ fate' = [fate EXCEPT ![listener.ticket] =
                      IF fate[listener.ticket] = "open" THEN "closed" ELSE fate[listener.ticket]]
      /\ UNCHANGED <<archive, published, clients, server, exec, history>>
  BY DEF ListenerExpires, DeliveryInv, TypeOK, OperatorType
<1>1. /\ fate' \in Seq({"open", "closed"} \cup Requests) /\ Len(fate') = Len(fate)
      /\ \A t \in Tickets :
          fate'[t] = IF t = listener.ticket /\ fate[t] = "open" THEN "closed" ELSE fate[t]
  BY <1>0 DEF Tickets
<1>2. Tickets' = Tickets
  BY <1>0 DEF Tickets
<1>3. OperatorType'
  BY <1>0, <1>1, <1>2 DEF DeliveryInv, TypeOK, OperatorType
<1>4. Publications'
  BY <1>0, <1>1, <1>2 DEF DeliveryInv, Publications
<1>5. Outside
  <2>1. Lasting
    BY <1>0 DEF Lasting, clients
  <2>2. exec # None => exec.pc # "receive"
    BY <1>0, AtWork, DeliveryAssumption DEF DeliveryInv, Downloading
  <2> QED BY <1>0, <1>1, <1>2, <2>1, <2>2 DEF Outside, server, history
<1>6. Programs' /\ Signing' /\ HostType' /\ Known'
  BY <1>0, Alone DEF clients, server, history
<1> QED BY <1>3, <1>4, <1>5, <1>6, Together
-----------------------------------------------------------------------------
(* The client. *)

LEMMA ProgramType ==
    ASSUME DeliveryInv, NEW c \in Clients, prog[c] # None
    PROVE  prog[c] \in Program /\ signed[prog[c].request] # None /\ Filed(c)
BY DEF DeliveryInv, TypeOK, ClientType, Idle

\* A program starts, ends or goes on, but does not begin to write.
LEMMA ProgramStep ==
    ASSUME DeliveryInv, NEW c \in Clients, NEW p, prog' = [prog EXCEPT ![c] = p],
           p # None =>
               /\ p \in Program /\ signed'[p.request] # None
               /\ p.pc = "write" =>
                   prog[c] # None /\ prog[c].pc = "write" /\ prog[c].file = p.file
               /\ p.pc = "send" => files[p.file] = p.request,
           UNCHANGED <<files, expired>>, signed' \in [Requests -> {None} \cup Signature],
           \A r \in Requests : signed[r] # None => signed'[r] = signed[r]
    PROVE  Programs'
PROOF
<1>0. /\ prog \in [Clients -> {None} \cup Program] /\ p \in {None} \cup Program
      /\ files \in [Files -> {None, "torn"} \cup Requests] /\ expired \subseteq Requests
      /\ \A f \in Files : files[f] \in Requests => signed[files[f]] # None
  BY DEF DeliveryInv, TypeOK, ClientType
<1>1. /\ prog' \in [Clients -> {None} \cup Program] /\ prog'[c] = p
      /\ \A d \in Clients \ {c} : prog'[d] = prog[d]
  BY <1>0
<1>2. \A d \in Clients : prog[d] # None =>
        prog[d] \in Program /\ signed[prog[d].request] # None /\ Filed(d)
  BY ProgramType
<1>3. \A d \in Clients : prog'[d] # None => signed'[prog'[d].request] # None
  BY <1>1, <1>2 DEF Program
<1>4. ClientType'
  BY <1>0, <1>1, <1>3 DEF ClientType, Idle
<1>5. ASSUME NEW d \in Clients, prog'[d] # None
      PROVE  Filed(d)'
  <2>1. prog'[d].pc = "send" => files[prog'[d].file] = prog'[d].request
    BY <1>1, <1>2, <1>5 DEF Filed
  <2>2. \A e \in Clients : prog'[e] # None /\ prog'[e].pc = "write" =>
          prog[e] # None /\ prog[e].pc = "write" /\ prog[e].file = prog'[e].file
    BY <1>1
  <2>3. prog'[d].pc = "write" => files[prog'[d].file] = "torn"
    BY <1>2, <1>5, <2>2 DEF Filed
  <2>4. ASSUME prog'[d].pc = "write", NEW e \in Clients \ {d}, prog'[e] # None, prog'[e].pc = "write"
        PROVE  prog'[e].file # prog'[d].file
    BY <1>2, <1>5, <2>2, <2>4 DEF Filed, Idle
  <2> QED BY <2>1, <2>3, <2>4 DEF Filed, Idle
<1> QED BY <1>4, <1>5 DEF Programs, Idle

\* A program writes its request file; nobody else has it.
LEMMA FileStep ==
    ASSUME DeliveryInv, NEW c \in Clients, prog[c] # None, NEW pc \in {"write", "send"},
           prog' = [prog EXCEPT ![c].pc = pc],
           NEW v, files' = [files EXCEPT ![prog[c].file] = v],
           files[prog[c].file] \in {None, "torn"},
           pc = "write" => v = "torn" /\ files[prog[c].file] = None,
           pc = "send" => v = prog[c].request /\ prog[c].pc = "write",
           UNCHANGED <<signed, expired>>
    PROVE  Programs'
PROOF
<1>0. /\ prog \in [Clients -> {None} \cup Program] /\ prog[c] \in Program
      /\ signed \in [Requests -> {None} \cup Signature]
      /\ files \in [Files -> {None, "torn"} \cup Requests] /\ expired \subseteq Requests
      /\ \A f \in Files : files[f] \in Requests => signed[files[f]] # None
  BY ProgramType DEF DeliveryInv, TypeOK, ClientType
<1>1. /\ prog'[c] = [prog[c] EXCEPT !.pc = pc] /\ prog'[c] \in Program
      /\ prog'[c].pc = pc /\ prog'[c].file = prog[c].file /\ prog'[c].request = prog[c].request
      /\ \A d \in Clients \ {c} : prog'[d] = prog[d]
  BY <1>0 DEF Program
<1>2. prog' \in [Clients -> {None} \cup Program]
  <2>1. prog' = [prog EXCEPT ![c] = [prog[c] EXCEPT !.pc = pc]]
    BY <1>0
  <2> QED BY <1>0, <1>1, <2>1
<1>3. \A d \in Clients : prog[d] # None =>
        prog[d] \in Program /\ signed[prog[d].request] # None /\ Filed(d)
  BY ProgramType
<1>4. prog[c].file \in Files /\ prog[c].request \in Requests
  BY <1>0 DEF Program
<1>5. v \in {"torn"} \cup Requests /\ (v \in Requests => signed[v] # None)
  BY <1>3, <1>4, DeliveryAssumption
<1>6. /\ files' \in [Files -> {None, "torn"} \cup Requests] /\ files'[prog[c].file] = v
      /\ \A f \in Files : f # prog[c].file => files'[f] = files[f]
  BY <1>0, <1>4, <1>5
<1>7. \A d \in Clients : prog'[d] # None => signed[prog'[d].request] # None
  BY <1>1, <1>3
<1>8. ClientType'
  BY <1>0, <1>2, <1>5, <1>6, <1>7 DEF ClientType, Idle
<1>9. ASSUME NEW d \in Clients \ {c}, prog[d] # None
      PROVE  /\ prog[d].pc = "write" =>
                  files'[prog[d].file] = "torn" /\ prog[d].file # prog[c].file
             /\ prog[d].pc = "send" => files'[prog[d].file] = prog[d].request
  <2>1. prog[d].file \in Files /\ prog[d].request \in Requests /\ Filed(d) /\ Filed(c)
    BY <1>3, <1>9 DEF Program
  <2>2. prog[d].pc = "write" => prog[d].file # prog[c].file
    <3>1. CASE pc = "send"
      BY <1>9, <2>1, <3>1 DEF Filed, Idle
    <3>2. CASE pc = "write"
      BY <2>1, <3>2, DeliveryAssumption DEF Filed
    <3> QED BY <3>1, <3>2
  <2>3. prog[d].pc = "send" => prog[d].file # prog[c].file
    BY <2>1, DeliveryAssumption DEF Filed
  <2> QED BY <1>6, <2>1, <2>2, <2>3 DEF Filed
<1>10. ASSUME NEW d \in Clients, prog'[d] # None
       PROVE  Filed(d)'
  <2>1. CASE d = c
    <3>1. prog'[c].pc = "write" => files'[prog'[c].file] = "torn"
      BY <1>1, <1>6
    <3>2. prog'[c].pc = "send" => files'[prog'[c].file] = prog'[c].request
      BY <1>1, <1>6
    <3>3. \A e \in Clients \ {c} : prog'[e] # None /\ prog'[e].pc = "write" =>
            prog'[e].file # prog'[c].file
      BY <1>1, <1>9
    <3> QED BY <2>1, <3>1, <3>2, <3>3 DEF Filed, Idle
  <2>2. CASE d # c
    <3>1. prog'[d] = prog[d] /\ prog[d] # None
      BY <1>1, <1>10, <2>2
    <3>2. \A e \in Clients \ {d} : prog'[e] # None /\ prog'[e].pc = "write" /\ prog[d].pc = "write" =>
            prog'[e].file # prog[d].file
      BY <1>1, <1>3, <1>9, <2>2, <3>1 DEF Filed, Idle
    <3> QED BY <1>9, <2>2, <3>1, <3>2 DEF Filed, Idle
  <2> QED BY <2>1, <2>2
<1> QED BY <1>8, <1>10 DEF Programs, Idle

\* A step of a client leaves all but the inbox alone.
LEMMA ClientAlone ==
    ASSUME DeliveryInv, Programs', Signing', inbox' \in {None} \cup Requests, Known',
           UNCHANGED <<operator, host, receipts, program, exec, history>>,
           \A r \in Requests : signed[r] # None => signed'[r] = signed[r]
    PROVE  DeliveryInv'
PROOF
<1>1. OperatorType' /\ Publications'
  BY Alone
<1>2. HostType'
  BY DEF DeliveryInv, TypeOK, HostType, history
<1>3. Outside
  BY PublishedType DEF Outside, Lasting, operator, history
<1> QED BY <1>1, <1>2, <1>3, Together
LEMMA NewRequestStep ==
    ASSUME DeliveryInv, NEW c \in Clients, NEW f \in Files, NEW t \in Tickets \cup {None},
           NewRequest(c, f, t)
    PROVE  DeliveryInv'
PROOF
<1> DEFINE s == [generation |-> host.generation, seen |-> host.deployment, ticket |-> t,
                 release |-> IF t = None THEN None ELSE published[t]]
           Fresh(r) == [pc |-> "create", file |-> f, request |-> r, attempt |-> 1, late |-> FALSE]
<1>1. PICK r \in Requests :
        /\ signed[r] = None /\ signed' = [signed EXCEPT ![r] = s]
        /\ prog' = [prog EXCEPT ![c] = Fresh(r)]
  BY DEF NewRequest, Run
<1>2. UNCHANGED <<operator, expired, files, server, exec, history>>
  BY DEF NewRequest
<1>3. s \in Signature /\ s # None /\ (t # None => t \in Tickets)
  <2>1. host.generation \in Nat /\ host.deployment \in AllRoots
    BY DEF DeliveryInv, TypeOK, HostType
  <2>2. t # None => t \in Tickets /\ t \in Nat /\ published[t] \in Inputs
    BY PublishedType DEF Tickets
  <2>3. s \in Signature
    BY <2>1, <2>2 DEF Signature
  <2> QED BY <2>2, <2>3, DeliveryAssumption
<1>4. Fresh(r) \in Program /\ Fresh(r).request = r /\ Fresh(r).pc = "create"
  BY DeliveryAssumption DEF Program
<1>5. s.ticket = t /\ s.release = IF t = None THEN None ELSE published[t]
  OBVIOUS
<1> HIDE DEF s, Fresh
<1>6. /\ signed' \in [Requests -> {None} \cup Signature] /\ signed'[r] = s
      /\ \A q \in Requests : q # r => signed'[q] = signed[q]
  BY <1>1, <1>3 DEF DeliveryInv, TypeOK, ClientType
<1>7. Programs'
  <2>1. signed'[Fresh(r).request] # None
    BY <1>3, <1>4, <1>6
  <2> QED BY <1>1, <1>2, <1>4, <1>6, <2>1, ProgramStep
<1>8. Signing'
  <2>1. \A q \in Requests : signed[q] # None => SignedFor(signed[q])
    BY DEF DeliveryInv
  <2>2. SignedFor(s)
    BY <1>3, <1>5 DEF SignedFor
  <2> QED BY <1>2, <1>6, <2>1, <2>2 DEF Signing, SignedFor, Tickets, operator
<1>9. Known' /\ inbox' \in {None} \cup Requests
  BY <1>2, Alone DEF server, DeliveryInv, TypeOK, HostType
<1> QED BY <1>1, <1>2, <1>6, <1>7, <1>8, <1>9, ClientAlone DEF server

LEMMA CreateStep ==
    ASSUME DeliveryInv, NEW c \in Clients, Create(c)
    PROVE  DeliveryInv'
PROOF
<1>0. /\ UNCHANGED <<operator, signed, expired, server, exec, history>>
      /\ prog[c] # None /\ prog[c].pc = "create" /\ prog[c] \in Program
      /\ inbox' \in {None} \cup Requests
  BY ProgramType DEF Create, At, Idle, server, DeliveryInv, TypeOK, HostType
<1>1. Signing'
  BY <1>0, Alone DEF operator
<1>2. CASE files[prog[c].file] = None /\ files' = [files EXCEPT ![prog[c].file] = "torn"]
           /\ Goto(c, "write")
  <2>1. Programs'
    BY <1>0, <1>2, FileStep DEF Goto
  <2>2. Known'
    <3>1. \A f \in Files : files[f] \in Requests => files'[f] = files[f]
      BY <1>2, DeliveryAssumption DEF DeliveryInv, TypeOK, ClientType
    <3> QED BY <1>0, <3>1 DEF DeliveryInv, Known, server
  <2> QED BY <1>0, <1>1, <2>1, <2>2, ClientAlone DEF server
<1>3. CASE Exit(c) /\ UNCHANGED files
  <2>1. Programs'
    BY <1>0, <1>3, ProgramStep DEF Exit, DeliveryInv, TypeOK, ClientType
  <2>2. Known'
    BY <1>0, <1>3, Alone DEF server
  <2> QED BY <1>0, <1>1, <2>1, <2>2, ClientAlone DEF server
<1> QED BY <1>2, <1>3 DEF Create

LEMMA WriteStep ==
    ASSUME DeliveryInv, NEW c \in Clients, Write(c)
    PROVE  DeliveryInv'
PROOF
<1>0. /\ UNCHANGED <<operator, signed, expired, server, exec, history>>
      /\ prog[c] # None /\ prog[c].pc = "write" /\ prog[c] \in Program
      /\ files[prog[c].file] = "torn"
      /\ inbox' \in {None} \cup Requests
      /\ files' = [files EXCEPT ![prog[c].file] = prog[c].request] /\ Goto(c, "send")
  BY ProgramType DEF Write, At, Idle, Filed, server, DeliveryInv, TypeOK, HostType
<1>1. Signing'
  BY <1>0, Alone DEF operator
<1>2. Programs'
  BY <1>0, FileStep DEF Goto
<1>3. Known'
  <2>1. \A f \in Files : files[f] \in Requests => files'[f] = files[f]
    BY <1>0, DeliveryAssumption DEF DeliveryInv, TypeOK, ClientType
  <2> QED BY <1>0, <2>1 DEF DeliveryInv, Known, server
<1> QED BY <1>0, <1>1, <1>2, <1>3, ClientAlone DEF server

LEMMA RetryStep ==
    ASSUME DeliveryInv, NEW c \in Clients, NEW f \in Files, Retry(c, f)
    PROVE  DeliveryInv'
PROOF
<1> DEFINE p == [pc |-> "send", file |-> f, request |-> files[f], attempt |-> 1, late |-> FALSE]
<1>0. /\ UNCHANGED <<operator, signed, expired, files, server, exec, history>>
      /\ files[f] \in Requests /\ prog' = [prog EXCEPT ![c] = p]
      /\ signed[files[f]] # None
  BY DEF Retry, Run, DeliveryInv, TypeOK, ClientType
<1>1. p \in Program /\ p.request = files[f] /\ p.pc = "send" /\ p.file = f
  BY <1>0, DeliveryAssumption DEF Program
<1> HIDE DEF p
<1>2. Programs'
  BY <1>0, <1>1, ProgramStep DEF DeliveryInv, TypeOK, ClientType
<1>3. Signing' /\ Known' /\ inbox' \in {None} \cup Requests
  BY <1>0, Alone DEF operator, server, DeliveryInv, TypeOK, HostType
<1> QED BY <1>0, <1>2, <1>3, ClientAlone DEF server

\* It ends, or only counts its attempts and its time.
LEMMA CountingStep ==
    ASSUME DeliveryInv, NEW c \in Clients, prog[c] # None,
           \/ Exit(c)
           \/ \E a \in 1..MaxAttempts : prog' = [prog EXCEPT ![c].attempt = a]
           \/ prog' = [prog EXCEPT ![c].late = TRUE],
           UNCHANGED <<signed, expired, files>>
    PROVE  Programs'
PROOF
<1>0. /\ prog[c] \in Program /\ signed[prog[c].request] # None /\ Filed(c)
      /\ signed \in [Requests -> {None} \cup Signature]
      /\ prog \in [Clients -> {None} \cup Program]
  BY ProgramType DEF DeliveryInv, TypeOK, ClientType
<1>1. CASE Exit(c)
  BY <1>0, <1>1, ProgramStep DEF Exit
<1>2. ASSUME NEW a \in 1..MaxAttempts, prog' = [prog EXCEPT ![c].attempt = a]
      PROVE  Programs'
  <2>1. prog' = [prog EXCEPT ![c] = [prog[c] EXCEPT !.attempt = a]]
    BY <1>0, <1>2
  <2>2. /\ [prog[c] EXCEPT !.attempt = a] \in Program
        /\ [prog[c] EXCEPT !.attempt = a].pc = prog[c].pc
        /\ [prog[c] EXCEPT !.attempt = a].file = prog[c].file
        /\ [prog[c] EXCEPT !.attempt = a].request = prog[c].request
    BY <1>0 DEF Program
  <2> QED BY <1>0, <2>1, <2>2, ProgramStep DEF Filed
<1>3. CASE prog' = [prog EXCEPT ![c].late = TRUE]
  <2>1. prog' = [prog EXCEPT ![c] = [prog[c] EXCEPT !.late = TRUE]]
    BY <1>0, <1>3
  <2>2. /\ [prog[c] EXCEPT !.late = TRUE] \in Program
        /\ [prog[c] EXCEPT !.late = TRUE].pc = prog[c].pc
        /\ [prog[c] EXCEPT !.late = TRUE].file = prog[c].file
        /\ [prog[c] EXCEPT !.late = TRUE].request = prog[c].request
    BY <1>0 DEF Program
  <2> QED BY <1>0, <2>1, <2>2, ProgramStep DEF Filed
<1> QED BY <1>1, <1>2, <1>3

LEMMA SendStep ==
    ASSUME DeliveryInv, NEW c \in Clients, Send(c)
    PROVE  DeliveryInv'
PROOF
<1>0. /\ UNCHANGED <<operator, signed, expired, files, host, receipts, program, exec, history>>
      /\ prog[c] # None /\ prog[c].pc = "send" /\ prog[c] \in Program
      /\ files[prog[c].file] = prog[c].request
  BY ProgramType DEF Send, At, Idle, Filed
<1>1. Waits(c) \/ TriesAgain(c) \/ Exit(c)
  BY DEF Send
<1>2. Programs'
  <2>1. TriesAgain(c) => Exit(c) \/ prog' = [prog EXCEPT ![c].attempt = prog[c].attempt + 1]
    BY DEF TriesAgain, Exit
  <2>2. TriesAgain(c) /\ ~Exit(c) => prog[c].attempt # MaxAttempts
    BY DEF TriesAgain, Exit
  <2>3. prog[c].attempt \in 1..MaxAttempts /\ MaxAttempts \in Nat \ {0}
    BY <1>0, DeliveryAssumption DEF Program
  <2>4. \/ Exit(c)
        \/ \E a \in 1..MaxAttempts : prog' = [prog EXCEPT ![c].attempt = a]
    <3>1. CASE Waits(c)
      BY <2>3, <3>1 DEF Waits
    <3>2. CASE TriesAgain(c) /\ ~Exit(c)
      <4>1. prog[c].attempt + 1 \in 1..MaxAttempts
        BY <2>2, <2>3, <3>2
      <4> QED BY <2>1, <3>2, <4>1
    <3> QED BY <1>1, <3>1, <3>2
  <2> QED BY <1>0, <2>4, CountingStep
<1>3. \/ UNCHANGED inbox
      \/ receipts[prog[c].request] = None /\ inbox' = prog[c].request
  BY DEF Send, Handles
<1>4. prog[c].file \in Files /\ prog[c].request \in Requests
  BY <1>0 DEF Program
<1>5. inbox' \in {None} \cup Requests
  BY <1>3, <1>4 DEF DeliveryInv, TypeOK, HostType
<1>6. Known'
  <2>1. CASE UNCHANGED inbox
    BY <1>0, <2>1, Alone
  <2>2. CASE receipts[prog[c].request] = None /\ inbox' = prog[c].request
    BY <1>0, <1>4, <2>2 DEF DeliveryInv, Known
  <2> QED BY <1>3, <2>1, <2>2
<1>7. Signing'
  BY <1>0, Alone DEF operator
<1> QED BY <1>0, <1>2, <1>5, <1>6, <1>7, ClientAlone

LEMMA EndStep ==
    ASSUME DeliveryInv, NEW c \in Clients, Deadline(c) \/ GiveUp(c)
    PROVE  DeliveryInv'
PROOF
<1>0. /\ UNCHANGED <<operator, signed, expired, files, server, exec, history>>
      /\ prog[c] # None /\ (Exit(c) \/ prog' = [prog EXCEPT ![c].late = TRUE])
  BY DEF Deadline, GiveUp, Idle
<1>1. Programs'
  BY <1>0, CountingStep
<1>2. Signing' /\ Known' /\ inbox' \in {None} \cup Requests
  BY <1>0, Alone DEF operator, server, DeliveryInv, TypeOK, HostType
<1> QED BY <1>0, <1>1, <1>2, ClientAlone DEF server

LEMMA ExpireStep ==
    ASSUME DeliveryInv, NEW r \in Requests, Expire(r)
    PROVE  DeliveryInv'
PROOF
<1>0. UNCHANGED <<operator, signed, files, prog, server, exec, history>> /\ expired' = expired \cup {r}
  BY DEF Expire
<1>1. Programs'
  BY <1>0 DEF Programs, DeliveryInv, TypeOK, ClientType, Filed, Idle
<1>2. Signing' /\ Known' /\ inbox' \in {None} \cup Requests
  BY <1>0, Alone DEF operator, server, DeliveryInv, TypeOK, HostType
<1> QED BY <1>0, <1>1, <1>2, ClientAlone DEF server
-----------------------------------------------------------------------------
(* The executor. *)

\* The last three conjuncts of TypeOK.
OnlyOne ==
    /\ \A r \in Requests : receipts[r] = "prepared" => host.latest = r \/ deaths > 0
    /\ exec # None => receipts[exec.request] = "prepared"
    /\ listener # None /\ listener.sending # None =>
        exec # None /\ exec.pc = "receive" /\ exec.request = listener.sending

Publishing == OperatorType /\ Publications
Delivered == Downloading /\ Installing /\ Receipts /\ InstalledAsPublished /\ FailsForReason

LEMMA ExecutorTogether ==
    ASSUME DeliveryInv, Publishing', UNCHANGED <<clients, published>>,
           HostType', OnlyOne', Known', Delivered'
    PROVE  DeliveryInv'
PROOF
<1>1. Programs' /\ Signing'
  BY Alone DEF clients
<1> QED BY <1>1 DEF DeliveryInv, TypeOK, Programs, Signing, OnlyOne, Publishing, Delivered

LEMMA KnownStep ==
    ASSUME DeliveryInv, UNCHANGED files, inbox' \in {None, inbox},
           inbox' # None => receipts'[inbox'] = None,
           \A r \in Requests : receipts'[r] # None => receipts[r] # None \/ inbox = r
    PROVE  Known'
BY DeliveryAssumption DEF DeliveryInv, Known

LEMMA HostTypes ==
    ASSUME DeliveryInv
    PROVE  /\ HostType /\ OnlyOne /\ Publishing /\ Known /\ Delivered
           /\ \A r \in Requests : receipts[r] # None => signed[r] # None
           /\ DOMAIN program = AllRoots
BY KnownSigned DEF DeliveryInv, TypeOK, HostType, OnlyOne, Publishing, Delivered

LEMMA SameLasting ==
    ASSUME DeliveryInv, UNCHANGED <<signed, published>>
    PROVE  Lasting
BY PublishedType DEF Lasting

\* The generation and the inbox are used up with the receipt.
LEMMA AcceptStep ==
    ASSUME DeliveryInv, Accept
    PROVE  DeliveryInv'
PROOF
<1>0. /\ exec = None /\ inbox \in Requests /\ receipts[inbox] = None /\ signed[inbox] # None
      /\ receipts \in [Requests -> {None, "prepared", "rejected"} \cup Ended]
      /\ host \in [generation : Nat, deployment : AllRoots, latest : {None} \cup Requests]
      /\ receipts' = [receipts EXCEPT ![inbox] = "prepared"]
      /\ host' = [host EXCEPT !.generation = host.generation + 1, !.latest = inbox]
      /\ inbox' = None
      /\ UNCHANGED <<operator, clients, program, history>>
  BY KnownSigned DEF Accept, DeliveryInv, TypeOK, HostType, Known
<1>1. /\ receipts' \in [Requests -> {None, "prepared", "rejected"} \cup Ended]
      /\ receipts'[inbox] = "prepared"
      /\ \A r \in Requests : r # inbox => receipts'[r] = receipts[r]
  BY <1>0
<1>2. /\ host' \in [generation : Nat, deployment : AllRoots, latest : {None} \cup Requests]
      /\ host'.latest = inbox
  <2>1. host.generation + 1 \in Nat /\ host.deployment \in AllRoots
    BY <1>0
  <2>2. host' = [generation |-> host.generation + 1, deployment |-> host.deployment, latest |-> inbox]
    BY <1>0
  <2> QED BY <1>0, <2>1, <2>2
<1>3. /\ exec' \in Work /\ exec' # None /\ exec'.request = inbox
      /\ exec'.pc = IF signed[inbox].release = None THEN "finish" ELSE "connect"
  <2>1. exec' = [pc |-> IF signed[inbox].release = None THEN "finish" ELSE "connect",
                 request |-> inbox, got |-> None]
    BY DEF Accept
  <2>2. exec' \in Work
    BY <1>0, <2>1 DEF Work
  <2> QED BY <2>1, <2>2, DeliveryAssumption
<1>4. UNCHANGED <<signed, published, files, broken, deaths, fate, listener, archive>>
  BY <1>0 DEF operator, clients, history
<1>5. HostType'
  BY <1>0, <1>1, <1>2, <1>3, <1>4 DEF DeliveryInv, TypeOK, HostType
<1>6. OnlyOne'
  <2>1. \A r \in Requests : receipts[r] = "prepared" => deaths > 0
    BY <1>0 DEF DeliveryInv, Receipts
  <2>2. listener # None => listener.sending = None
    BY <1>0 DEF DeliveryInv, TypeOK
  <2> QED BY <1>1, <1>2, <1>3, <1>4, <2>1, <2>2 DEF OnlyOne
<1>7. Known'
  BY <1>0, <1>1, <1>4, KnownStep
<1>8. Downloading'
  <2>1. \A t \in Tickets : fate[t] \in Requests => receipts[fate[t]] # None /\ fate[t] # inbox
    BY <1>0 DEF DeliveryInv, Downloading
  <2>2. \A t \in Tickets : fate[t] \in Requests => receipts'[fate[t]] # None
    BY <1>1, <2>1
  <2> QED BY <1>2, <1>3, <1>4, <2>1, <2>2 DEF Downloading, Request, Tickets
<1>9. Installing'
  <2>1. \A root \in AllRoots : program[root] # None =>
          /\ program[root].for \in Requests /\ program[root].for # inbox
          /\ receipts[program[root].for] # None /\ signed[program[root].for].release # None
    BY <1>0 DEF DeliveryInv, TypeOK, HostType, Installing
  <2> QED BY <1>0, <1>1, <1>3, <1>4, <2>1 DEF Installing
<1>10. Receipts'
  <2>1. \A r \in Requests :
          /\ receipts[r] = "prepared" => deaths > 0
          /\ receipts[r] = "failed" => signed[r].release # None
    BY <1>0 DEF DeliveryInv, Receipts
  <2> QED BY <1>1, <1>3, <1>4, <2>1 DEF Receipts
<1>11. InstalledAsPublished'
  BY <1>0, <1>4, SameLasting, StillInstalled
<1>12. FailsForReason'
  <2>1. \A r \in Requests : receipts'[r] = "failed" => receipts[r] = "failed"
    BY <1>1
  <2> QED BY <1>0, <1>4, <2>1 DEF DeliveryInv, FailsForReason, ForAnother
<1>13. Publishing'
  BY <1>0, Alone DEF Publishing
<1> QED BY <1>0, <1>4, <1>5, <1>6, <1>7, <1>8, <1>9, <1>10, <1>11, <1>12, <1>13,
           ExecutorTogether DEF Delivered

LEMMA RejectStep ==
    ASSUME DeliveryInv, Reject
    PROVE  DeliveryInv'
PROOF
<1>0. /\ exec = None /\ inbox \in Requests /\ receipts[inbox] = None
      /\ receipts \in [Requests -> {None, "prepared", "rejected"} \cup Ended]
      /\ host \in [generation : Nat, deployment : AllRoots, latest : {None} \cup Requests]
      /\ receipts' = [receipts EXCEPT ![inbox] = "rejected"]
      /\ host' = [host EXCEPT !.latest = inbox]
      /\ inbox' = None
      /\ UNCHANGED <<operator, clients, program, exec, history>>
  BY DEF Reject, DeliveryInv, TypeOK, HostType, Known
<1>1. /\ receipts' \in [Requests -> {None, "prepared", "rejected"} \cup Ended]
      /\ receipts'[inbox] = "rejected"
      /\ \A r \in Requests : r # inbox => receipts'[r] = receipts[r]
  BY <1>0
<1>2. /\ host' \in [generation : Nat, deployment : AllRoots, latest : {None} \cup Requests]
      /\ host'.latest = inbox
  BY <1>0
<1>4. UNCHANGED <<signed, published, files, broken, deaths, fate, listener, archive>>
  BY <1>0 DEF operator, clients, history
<1>5. HostType'
  BY <1>0, <1>1, <1>2, <1>4 DEF DeliveryInv, TypeOK, HostType
<1>6. OnlyOne'
  <2>1. \A r \in Requests : receipts[r] = "prepared" => deaths > 0
    BY <1>0 DEF DeliveryInv, Receipts
  <2>2. listener # None => listener.sending = None
    BY <1>0 DEF DeliveryInv, TypeOK
  <2> QED BY <1>0, <1>1, <1>2, <1>4, <2>1, <2>2 DEF OnlyOne
<1>7. Known'
  BY <1>0, <1>1, <1>4, KnownStep
<1>8. Downloading'
  <2>1. \A t \in Tickets : fate[t] \in Requests => receipts[fate[t]] # None /\ fate[t] # inbox
    BY <1>0 DEF DeliveryInv, Downloading
  <2>2. \A t \in Tickets : fate[t] \in Requests => receipts'[fate[t]] # None
    BY <1>1, <2>1
  <2> QED BY <1>0, <1>4, <2>2 DEF Downloading, Tickets
<1>9. Installing'
  <2>1. \A root \in AllRoots : program[root] # None =>
          /\ program[root].for \in Requests /\ program[root].for # inbox
          /\ receipts[program[root].for] # None /\ signed[program[root].for].release # None
    BY <1>0 DEF DeliveryInv, TypeOK, HostType, Installing
  <2> QED BY <1>0, <1>1, <1>4, <2>1 DEF Installing
<1>10. Receipts'
  <2>1. \A r \in Requests :
          /\ receipts[r] = "prepared" => deaths > 0
          /\ receipts[r] = "failed" => signed[r].release # None
    BY <1>0 DEF DeliveryInv, Receipts
  <2> QED BY <1>1, <1>4, <2>1 DEF Receipts
<1>11. InstalledAsPublished'
  BY <1>0, <1>4, SameLasting, StillInstalled
<1>12. FailsForReason'
  <2>1. \A r \in Requests : receipts'[r] = "failed" => receipts[r] = "failed"
    BY <1>1
  <2> QED BY <1>0, <1>4, <2>1 DEF DeliveryInv, FailsForReason, ForAnother
<1>13. Publishing'
  BY <1>0, Alone DEF Publishing
<1> QED BY <1>0, <1>4, <1>5, <1>6, <1>7, <1>8, <1>9, <1>10, <1>11, <1>12, <1>13,
           ExecutorTogether DEF Delivered
\* The reasons of FailsForReason.
Reason(r) ==
    \/ r \in broken
    \/ fate[signed[r].ticket] \notin {"open", r}
    \/ \E root \in Roots(signed[r].release) : ForAnother(root, r)

\* Nothing of the clients, of the receipts or of the operator's releases changes.
Working ==
    /\ UNCHANGED <<clients, published, inbox, receipts, deaths>>
    /\ exec # None /\ exec' \in Work /\ exec'.request = exec.request
    /\ host' \in [generation : Nat, deployment : AllRoots, latest : {None} \cup Requests]
    /\ host'.latest = host.latest

LEMMA WorkingStep ==
    ASSUME DeliveryInv, Working
    PROVE  /\ Known' /\ Receipts' /\ Lasting
           /\ \A r \in Requests : receipts'[r] = "prepared" => host'.latest = r \/ deaths' > 0
           /\ exec' # None /\ receipts'[exec'.request] = "prepared"
           /\ Request' = Request
           /\ \A r \in Requests : receipts'[r] = "failed" => receipts[r] = "failed" /\ r # exec.request
           /\ UNCHANGED <<signed, files, published>>
PROOF
<1>1. UNCHANGED <<signed, files, published, inbox, receipts, deaths>>
  BY DEF Working, clients
<1>2. exec # None /\ exec' # None /\ exec'.request = exec.request
  BY DeliveryAssumption DEF Working
<1>3. Known'
  BY <1>1, Alone
<1>4. Receipts'
  BY <1>1, <1>2 DEF DeliveryInv, Receipts
<1>5. receipts[exec.request] = "prepared" /\ exec.request \in Requests
  BY <1>2, AtWork
<1>6. \A r \in Requests : receipts[r] = "prepared" => host.latest = r \/ deaths > 0
  BY DEF DeliveryInv, TypeOK
<1>7. Request' = Request
  BY <1>1, <1>2 DEF Request
<1> QED BY <1>1, <1>2, <1>3, <1>4, <1>5, <1>6, <1>7, SameLasting DEF Working

\* What has failed, failed for a reason that stays.
LEMMA ReasonStays ==
    ASSUME DeliveryInv, Lasting, UNCHANGED <<signed, published>>,
           \A r \in Requests : receipts'[r] = "failed" => receipts[r] = "failed" \/ Reason(r)',
           broken \subseteq broken',
           \A r \in Requests, t \in Tickets :
               receipts[r] = "failed" /\ fate[t] \notin {"open", r} => fate'[t] \notin {"open", r},
           \A root \in AllRoots : program[root] # None => program'[root] = program[root],
           DOMAIN program' = AllRoots
    PROVE  FailsForReason'
PROOF
<1>1. ASSUME NEW r \in Requests, receipts[r] = "failed"
      PROVE  Reason(r)'
  <2>1. \A t \in Tickets : fate[t] \notin {"open", r} => fate'[t] \notin {"open", r}
    BY <1>1
  <2>2. \/ r \in broken'
        \/ fate'[signed'[r].ticket] \notin {"open", r}
        \/ \E root \in Roots(signed'[r].release) : ForAnother(root, r)'
    BY <1>1, <2>1, StillReason
  <2> QED BY <2>2, Zenon DEF Reason
<1>2. \A r \in Requests : receipts'[r] = "failed" => Reason(r)'
  BY <1>1
<1> QED BY <1>2, Zenon DEF FailsForReason, Reason

\* The receipt of a failure, after any step before the switch.
LEMMA FailStep ==
    ASSUME DeliveryInv, exec # None, exec.pc \notin {"receive", "finish"}, Fails, Reason(exec.request),
           UNCHANGED <<operator, clients, host, inbox, program, history>>
    PROVE  DeliveryInv'
PROOF
<1>0. /\ exec.request \in Requests /\ receipts[exec.request] = "prepared" /\ Request.release # None
      /\ receipts \in [Requests -> {None, "prepared", "rejected"} \cup Ended]
      /\ host \in [generation : Nat, deployment : AllRoots, latest : {None} \cup Requests]
      /\ receipts' = [receipts EXCEPT ![exec.request] = "failed"]
      /\ exec' = None
  BY AtWork, DeliveryAssumption DEF Fails, DeliveryInv, TypeOK, HostType
<1>1. /\ receipts' \in [Requests -> {None, "prepared", "rejected"} \cup Ended]
      /\ receipts'[exec.request] = "failed"
      /\ \A r \in Requests : r # exec.request => receipts'[r] = receipts[r]
  BY <1>0 DEF Ended
<1>2. \A r \in Requests : receipts[r] # None <=> receipts'[r] # None
  BY <1>0, <1>1, DeliveryAssumption
<1>4. UNCHANGED <<signed, published, files, broken, deaths, fate, listener, archive>>
  BY DEF operator, clients, history
<1>5. HostType'
  BY <1>0, <1>1, <1>4 DEF DeliveryInv, TypeOK, HostType
<1>6. OnlyOne'
  BY <1>0, <1>1, <1>4 DEF DeliveryInv, TypeOK, OnlyOne
<1>7. Known'
  <2>1. inbox # None => receipts[inbox] = None /\ inbox \in Requests
    BY DEF DeliveryInv, Known, TypeOK, HostType
  <2> QED BY <1>2, <1>4, <2>1, KnownStep
<1>8. Downloading'
  BY <1>0, <1>2, <1>4 DEF DeliveryInv, Downloading, Tickets
<1>9. Installing'
  <2>1. \A root \in AllRoots : program[root] # None =>
          /\ program[root].for \in Requests
          /\ receipts[program[root].for] # None /\ signed[program[root].for].release # None
    BY DEF DeliveryInv, TypeOK, HostType, Installing
  <2> QED BY <1>0, <1>2, <1>4, <2>1 DEF Installing
<1>10. Receipts'
  <2>1. \A r \in Requests :
          /\ receipts[r] = "prepared" => exec.request = r \/ deaths > 0
          /\ receipts[r] = "failed" => signed[r].release # None
    BY DEF DeliveryInv, Receipts
  <2> QED BY <1>0, <1>1, <1>4, <2>1 DEF Receipts, Request
<1>11. Lasting /\ InstalledAsPublished'
  BY <1>4, SameLasting, StillInstalled
<1>12. FailsForReason'
  <2>1. PICK q \in Requests : q = exec.request
    BY <1>0
  <2>2. Reason(q)
    BY <2>1
  <2>3. Reason(q)'
    BY <1>4, <2>2 DEF Reason, ForAnother
  <2>4. \A r \in Requests : receipts'[r] = "failed" => receipts[r] = "failed" \/ Reason(r)'
    BY <1>1, <2>1, <2>3
  <2> QED BY <1>4, <1>11, <2>4, ReasonStays, HostTypes
<1>13. Publishing'
  BY Alone DEF Publishing
<1> QED BY <1>4, <1>5, <1>6, <1>7, <1>8, <1>9, <1>10, <1>11, <1>12, <1>13,
           ExecutorTogether DEF Delivered

LEMMA PublishingParts ==
    ASSUME DeliveryInv
    PROVE  /\ archive \in Inputs \cup {None} /\ published \in Seq(Inputs)
           /\ fate \in Seq({"open", "closed"} \cup Requests) /\ Len(fate) = Len(published)
           /\ Len(published) \in Nat
           /\ listener # None =>
               /\ listener \in Serving /\ listener.ticket \in Tickets
               /\ listener.content = published[listener.ticket]
           /\ archive # None => Accepts(archive)
           /\ \A t \in Tickets : Accepts(published[t])
           /\ \A t \in Tickets : fate[t] = "open" => listener # None /\ listener.ticket = t
BY DEF DeliveryInv, TypeOK, OperatorType, Publications

LEMMA WorkParts ==
    ASSUME DeliveryInv, exec # None
    PROVE  /\ \A t \in Tickets : fate[t] \in Requests =>
               /\ receipts[fate[t]] # None
               /\ exec.request = fate[t] => exec.pc \notin {"connect", "receive"}
           /\ exec.pc = "receive" =>
               /\ listener # None /\ listener.sending = exec.request
               /\ listener.ticket = Request.ticket /\ fate[Request.ticket] = "open"
           /\ exec.pc = "verify" =>
               /\ exec.got \in Got /\ exec.got.release = Request.release
               /\ exec.got.whole \/ exec.request \in broken
           /\ exec.pc \in {"unity", "worker", "switch"} =>
               exec.got = [release |-> Request.release, whole |-> TRUE]
           /\ exec.pc # "receive" => listener = None \/ listener.sending = None
BY DEF DeliveryInv, Downloading, TypeOK

\* The listener serves or stops serving its one connection.
LEMMA ServingStep ==
    ASSUME DeliveryInv, listener # None, UNCHANGED <<archive, published>>,
           NEW q \in {None} \cup Requests, listener' = [listener EXCEPT !.sending = q],
           fate' \in Seq({"open", "closed"} \cup Requests), Len(fate') = Len(fate),
           \A t \in Tickets : fate'[t] = "open" => fate[t] = "open"
    PROVE  /\ Publishing' /\ listener' # None /\ listener'.ticket = listener.ticket
           /\ listener'.sending = q
PROOF
<1>1. /\ listener' \in Serving /\ listener'.ticket = listener.ticket
      /\ listener'.content = listener.content /\ listener'.sending = q
  BY PublishingParts DEF Serving
<1>2. listener' # None /\ Tickets' = Tickets
  BY <1>1, DeliveryAssumption DEF Tickets
<1>3. OperatorType'
  BY <1>1, <1>2, PublishingParts DEF OperatorType
<1>4. Publications'
  BY <1>1, <1>2, PublishingParts DEF Publications
<1> QED BY <1>1, <1>2, <1>3, <1>4 DEF Publishing

\* What lies below program/ stays as it is.
LEMMA InstallingStays ==
    ASSUME DeliveryInv, Working, UNCHANGED program,
           \A root \in AllRoots : program[root] # None /\ program[root].for = exec.request =>
               \/ exec'.pc = "worker" /\ root = Request.release.unity
               \/ exec'.pc \in {"switch", "finish"}
    PROVE  Installing'
PROOF
<1>1. \A root \in AllRoots : program[root] # None =>
        receipts[program[root].for] # None /\ signed[program[root].for].release # None
  BY DEF DeliveryInv, Installing
<1>2. UNCHANGED <<signed, receipts>> /\ Request' = Request /\ exec'.request = exec.request
  BY WorkingStep DEF Working
<1> QED BY <1>1, <1>2 DEF Installing
\* A step that works on, with what it must show of the download.
LEMMA WorksOn ==
    ASSUME DeliveryInv, Working, Publishing',
           broken' \subseteq Requests, broken \subseteq broken',
           UNCHANGED program \/ (program' \in [AllRoots -> {None} \cup [for : Requests, got : Got]]
                                 /\ \A root \in AllRoots : program[root] # None => program'[root] = program[root]),
           \A t \in Tickets : fate'[t] \in Requests => fate'[t] = fate[t] \/ fate'[t] = exec.request,
           \A t \in Tickets : fate[t] # "open" => fate'[t] = fate[t],
           listener' # None /\ listener'.sending # None =>
               exec'.pc = "receive" /\ listener'.sending = exec.request,
           \A t \in Tickets : fate'[t] = exec.request => exec'.pc \notin {"connect", "receive"},
           exec'.pc # "finish" => Request.release # None,
           exec'.pc = "receive" =>
               /\ listener' # None /\ listener'.sending = exec.request
               /\ listener'.ticket = Request.ticket /\ fate'[Request.ticket] = "open",
           exec'.pc = "verify" =>
               /\ exec'.got \in Got /\ exec'.got.release = Request.release
               /\ exec'.got.whole \/ exec.request \in broken',
           exec'.pc \in {"unity", "worker", "switch"} =>
               exec'.got = [release |-> Request.release, whole |-> TRUE],
           Installing', InstalledAsPublished'
    PROVE  DeliveryInv'
PROOF
<1>0. /\ UNCHANGED <<signed, files, published, inbox, receipts, deaths, clients>> /\ Lasting
      /\ exec # None /\ exec' # None /\ exec' \in Work /\ exec'.request = exec.request
      /\ Request' = Request /\ Tickets' = Tickets
      /\ exec.request \in Requests /\ receipts[exec.request] = "prepared"
      /\ host.latest = exec.request /\ host'.latest = exec.request
  BY WorkingStep, AtWork DEF Working, Tickets
<1>1. HostType'
  BY <1>0, DeliveryAssumption DEF DeliveryInv, TypeOK, HostType, Working
<1>2. OnlyOne'
  BY <1>0, WorkingStep DEF OnlyOne
<1>3. Downloading'
  <2>1. \A t \in Tickets : fate'[t] \in Requests => receipts[fate'[t]] # None
    <3>1. "prepared" # None
      BY DeliveryAssumption
    <3> QED BY <1>0, <3>1, WorkParts
  <2> QED BY <1>0, <2>1 DEF Downloading
<1>4. FailsForReason'
  <2>1. DOMAIN program' = AllRoots /\ \A root \in AllRoots : program[root] # None => program'[root] = program[root]
    BY HostTypes
  <2>2. \A r \in Requests, t \in Tickets : fate[t] \notin {"open", r} => fate'[t] \notin {"open", r}
    OBVIOUS
  <2>3. \A r \in Requests : receipts'[r] = "failed" => receipts[r] = "failed"
    BY <1>0
  <2> QED BY <1>0, <2>1, <2>2, <2>3, ReasonStays
<1> QED BY <1>0, <1>1, <1>2, <1>3, <1>4, WorkingStep, ExecutorTogether DEF Delivered

LEMMA WorkIs ==
    ASSUME DeliveryInv, exec # None, NEW q \in {"receive", "verify", "unity", "worker", "switch", "finish"},
           NEW got \in {None} \cup Got, exec' = [exec EXCEPT !.pc = q, !.got = got]
    PROVE  exec' \in Work /\ exec'.request = exec.request /\ exec'.pc = q /\ exec'.got = got
PROOF
<1>1. exec \in Work
  BY AtWork
<1>2. exec' = [pc |-> q, request |-> exec.request, got |-> got] /\ exec.request \in Requests
  BY <1>1 DEF Work
<1> QED BY <1>2 DEF Work

LEMMA ThenIs ==
    ASSUME DeliveryInv, exec # None, NEW q \in {"receive", "verify", "unity", "worker", "switch", "finish"},
           Then(q)
    PROVE  exec' \in Work /\ exec'.request = exec.request /\ exec'.pc = q /\ exec'.got = exec.got
BY AtWork DEF Then, Work

LEMMA ConnectStep ==
    ASSUME DeliveryInv, Connect
    PROVE  DeliveryInv'
PROOF
<1>0. /\ exec # None /\ exec.pc = "connect"
      /\ UNCHANGED <<archive, published, fate, clients, host, inbox, program, history>>
  BY DEF Connect, Doing
<1>1. CASE Reachable /\ listener' = [listener EXCEPT !.sending = exec.request]
           /\ Then("receive") /\ UNCHANGED receipts
  <2>1. exec' \in Work /\ exec'.request = exec.request /\ exec'.pc = "receive"
    BY <1>0, <1>1, ThenIs
  <2>2. listener # None /\ listener.ticket = Request.ticket /\ fate[Request.ticket] = "open"
    BY <1>1 DEF Reachable
  <2>3. exec.request \in Requests /\ Request.release # None /\ host.latest = exec.request
    BY <1>0, AtWork, DeliveryAssumption
  <2>4. /\ Publishing' /\ listener' # None /\ listener'.ticket = listener.ticket
        /\ listener'.sending = exec.request
    BY <1>0, <1>1, <2>2, <2>3, ServingStep, PublishingParts
  <2>5. Working
    BY <1>0, <1>1, <2>1 DEF Working, DeliveryInv, TypeOK, HostType, history
  <2>6. Installing'
    BY <1>0, <2>1, <2>5, InstallingStays DEF DeliveryInv, Installing
  <2>7. InstalledAsPublished'
    BY <1>0, <2>5, WorkingStep, StillInstalled
  <2>8. \A t \in Tickets : fate[t] # exec.request
    BY <1>0, <2>3, WorkParts
  <2>9. UNCHANGED <<fate, program, broken>> /\ broken \subseteq Requests
    BY <1>0 DEF history, DeliveryInv, TypeOK, HostType
  <2> QED BY <2>1, <2>2, <2>3, <2>4, <2>5, <2>6, <2>7, <2>8, <2>9, WorksOn
<1>2. CASE ~Reachable /\ Fails /\ UNCHANGED listener
  <2>1. Request.ticket \in Tickets /\ exec.request \in Requests
    BY <1>0, AtWork
  <2>2. fate[Request.ticket] # "open"
    BY <1>2, <2>1, PublishingParts DEF Reachable
  <2>3. fate[Request.ticket] # exec.request
    BY <1>0, <2>1, WorkParts
  <2>4. Reason(exec.request)
    BY <2>2, <2>3 DEF Reason, Request
  <2> QED BY <1>0, <1>2, <2>4, FailStep DEF operator
<1> QED BY <1>1, <1>2 DEF Connect

LEMMA TransferStep ==
    ASSUME DeliveryInv, Transfer
    PROVE  DeliveryInv'
PROOF
<1>0. /\ exec # None /\ exec.pc = "receive"
      /\ fate' = [fate EXCEPT ![listener.ticket] = exec.request]
      /\ listener' = [listener EXCEPT !.sending = None]
      /\ UNCHANGED <<archive, published, clients, server, deaths>>
  BY DEF Transfer, Doing
<1>1. /\ listener # None /\ listener.ticket = Request.ticket /\ fate[listener.ticket] = "open"
      /\ listener.ticket \in Tickets /\ exec.request \in Requests
      /\ Request.release \in Inputs /\ Request.release # None
      /\ listener.content = Request.release
  BY <1>0, WorkParts, AtWork, PublishingParts, DeliveryAssumption
<1>2. /\ fate' \in Seq({"open", "closed"} \cup Requests) /\ Len(fate') = Len(fate)
      /\ \A t \in Tickets : fate'[t] = IF t = listener.ticket THEN exec.request ELSE fate[t]
  BY <1>0, <1>1, PublishingParts DEF Tickets
<1>3. exec.request # "open"
  BY <1>1, DeliveryAssumption
<1>4. Publishing' /\ listener'.sending = None
  BY <1>0, <1>1, <1>2, <1>3, ServingStep
<1>5. PICK whole \in BOOLEAN :
        /\ exec' = [exec EXCEPT !.pc = "verify", !.got = [release |-> Content, whole |-> whole]]
        /\ broken' = IF whole THEN broken ELSE broken \cup {exec.request}
  BY DEF Transfer
<1>6. [release |-> Content, whole |-> whole] \in Got
  BY <1>1 DEF Got, Content
<1>7. /\ exec' \in Work /\ exec'.request = exec.request /\ exec'.pc = "verify"
      /\ exec'.got = [release |-> Content, whole |-> whole]
  BY <1>0, <1>5, <1>6, WorkIs
<1>8. Working
  BY <1>0, <1>7 DEF Working, DeliveryInv, TypeOK, HostType, server
<1>9. Installing'
  BY <1>0, <1>7, <1>8, InstallingStays DEF DeliveryInv, Installing, server
<1>10. InstalledAsPublished'
  BY <1>0, <1>8, WorkingStep, StillInstalled DEF server
<1>11. broken \subseteq broken' /\ broken' \subseteq Requests /\ (whole \/ exec.request \in broken')
  BY <1>1, <1>5 DEF DeliveryInv, TypeOK, HostType
<1>12. exec'.got.release = Request.release /\ exec'.got.whole = whole
  BY <1>1, <1>7 DEF Content
<1>13. UNCHANGED program
  BY <1>0 DEF server
<1> QED BY <1>1, <1>2, <1>3, <1>4, <1>6, <1>7, <1>8, <1>9, <1>10, <1>11, <1>12, <1>13, WorksOn

LEMMA BreaksStep ==
    ASSUME DeliveryInv, Breaks
    PROVE  DeliveryInv'
PROOF
<1>0. /\ exec # None /\ exec.pc = "receive"
      /\ listener' = [listener EXCEPT !.sending = None]
      /\ broken' = broken \cup {exec.request}
      /\ exec' = [exec EXCEPT !.pc = "verify", !.got = [release |-> Content, whole |-> FALSE]]
      /\ UNCHANGED <<archive, published, fate, clients, server, deaths>>
  BY DEF Breaks, Doing
<1>1. /\ listener # None /\ listener.ticket = Request.ticket /\ fate[listener.ticket] = "open"
      /\ listener.ticket \in Tickets /\ exec.request \in Requests
      /\ Request.release \in Inputs /\ Request.release # None
      /\ listener.content = Request.release
  BY <1>0, WorkParts, AtWork, PublishingParts, DeliveryAssumption
<1>4. Publishing' /\ listener'.sending = None
  BY <1>0, <1>1, ServingStep, PublishingParts
<1>6. [release |-> Content, whole |-> FALSE] \in Got
  BY <1>1 DEF Got, Content
<1>7. /\ exec' \in Work /\ exec'.request = exec.request /\ exec'.pc = "verify"
      /\ exec'.got = [release |-> Content, whole |-> FALSE]
  BY <1>0, <1>6, WorkIs
<1>8. Working
  BY <1>0, <1>7 DEF Working, DeliveryInv, TypeOK, HostType, server
<1>9. Installing'
  BY <1>0, <1>7, <1>8, InstallingStays DEF DeliveryInv, Installing, server
<1>10. InstalledAsPublished'
  BY <1>0, <1>8, WorkingStep, StillInstalled DEF server
<1>11. broken \subseteq broken' /\ broken' \subseteq Requests /\ exec.request \in broken'
  BY <1>0, <1>1 DEF DeliveryInv, TypeOK, HostType
<1>12. exec'.got.release = Request.release
  BY <1>1, <1>7 DEF Content
<1>13. UNCHANGED <<program, fate>>
  BY <1>0 DEF server
<1> QED BY <1>1, <1>4, <1>6, <1>7, <1>8, <1>9, <1>10, <1>11, <1>12, <1>13, WorksOn

\* What arrived whole is the release that was signed, and that can be extracted.
LEMMA VerifyStep ==
    ASSUME DeliveryInv, Verify
    PROVE  DeliveryInv'
PROOF
<1>0. /\ exec # None /\ exec.pc = "verify"
      /\ UNCHANGED <<operator, clients, host, inbox, program, history>>
      /\ exec.request \in Requests /\ Request.release \in Inputs /\ Accepts(Request.release)
      /\ exec.got \in Got /\ exec.got.release = Request.release
      /\ exec.got.whole \/ exec.request \in broken
  BY AtWork, WorkParts DEF Verify, Doing
<1>1. CASE Then("unity") /\ UNCHANGED receipts /\ Genuine(exec.got)
  <2>1. exec' \in Work /\ exec'.request = exec.request /\ exec'.pc = "unity" /\ exec'.got = exec.got
    BY <1>0, <1>1, ThenIs
  <2>2. exec.got = [release |-> Request.release, whole |-> TRUE]
    BY <1>0, <1>1 DEF Genuine, Got
  <2>3. Working
    BY <1>0, <1>1, <2>1 DEF Working, DeliveryInv, TypeOK, HostType, operator, history
  <2>4. Installing'
    BY <1>0, <2>1, <2>3, InstallingStays DEF DeliveryInv, Installing
  <2>5. InstalledAsPublished'
    BY <1>0, <2>3, WorkingStep, StillInstalled
  <2>6. UNCHANGED <<fate, listener, program, broken>> /\ broken \subseteq Requests
    BY <1>0 DEF history, operator, DeliveryInv, TypeOK, HostType
  <2>7. Publishing'
    BY <1>0, Alone DEF Publishing
  <2>8. Request.release # None
    BY <1>0, DeliveryAssumption
  <2>9. listener = None \/ listener.sending = None
    BY <1>0, WorkParts
  <2> QED BY <2>1, <2>2, <2>3, <2>4, <2>5, <2>6, <2>7, <2>8, <2>9, WorksOn
<1>2. CASE Fails /\ ~(Genuine(exec.got) /\ Extractable(exec.got.release))
  <2>1. Extractable(exec.got.release)
    BY <1>0, AcceptedExtractable
  <2>2. exec.request \in broken
    BY <1>0, <1>2, <2>1 DEF Genuine
  <2>3. Reason(exec.request)
    BY <2>2 DEF Reason
  <2> QED BY <1>0, <1>2, <2>3, FailStep
<1> QED BY <1>1, <1>2 DEF Verify
\* One directory is moved, or there is another request's directory in its place.
LEMMA MovesStep ==
    ASSUME DeliveryInv, exec # None,
           NEW pc \in {"unity", "worker"}, NEW root, NEW next \in {"worker", "switch"},
           \/ pc = "unity" /\ next = "worker" /\ root = exec.got.release.unity
           \/ pc = "worker" /\ next = "switch" /\ root = exec.got.release.worker,
           Move(pc, root, next)
    PROVE  DeliveryInv'
PROOF
<1>0. /\ exec.pc = pc /\ UNCHANGED <<operator, clients, host, inbox, history>>
      /\ exec.request \in Requests /\ Request.release \in Inputs /\ Request.release # None
      /\ Request.release = published[Request.ticket]
      /\ exec.got = [release |-> Request.release, whole |-> TRUE]
      /\ host.latest = exec.request
  BY AtWork, WorkParts, DeliveryAssumption DEF Move, Doing
<1>1. /\ exec.got \in Got /\ exec.got.release = Request.release
      /\ root \in Roots(Request.release) /\ root \in AllRoots
      /\ pc = "worker" => root # Request.release.unity
  BY <1>0, DeliveryAssumption DEF Got, Roots, AllRoots
<1>2. \A other \in AllRoots : program[other] # None /\ program[other].for = exec.request =>
        pc = "worker" /\ other = Request.release.unity
  BY <1>0 DEF DeliveryInv, Installing
<1>3. /\ program \in [AllRoots -> {None} \cup [for : Requests, got : Got]]
      /\ \A other \in AllRoots : program[other] # None =>
          receipts[program[other].for] # None /\ signed[program[other].for].release # None
  BY DEF DeliveryInv, TypeOK, HostType, Installing
<1>4. CASE ~InUse(root)
           /\ program' = [program EXCEPT ![root] = [for |-> exec.request, got |-> exec.got]]
           /\ Then(next) /\ UNCHANGED receipts
  <2>1. exec' \in Work /\ exec'.request = exec.request /\ exec'.pc = next /\ exec'.got = exec.got
    BY <1>4, ThenIs
  <2>2. Working
    BY <1>0, <1>4, <2>1 DEF Working, DeliveryInv, TypeOK, HostType, operator, history
  <2>3. /\ program' \in [AllRoots -> {None} \cup [for : Requests, got : Got]]
        /\ program'[root].for = exec.request /\ program'[root].got = exec.got
        /\ \A other \in AllRoots : other # root => program'[other] = program[other]
    BY <1>0, <1>1, <1>3, <1>4
  <2>4. UNCHANGED <<signed, receipts, published>> /\ Request' = Request
    BY <2>2, WorkingStep DEF Working
  <2>5. receipts[exec.request] # None
    BY AtWork, DeliveryAssumption
  <2>6. Installing'
    <3>1. \A other \in AllRoots : program'[other] # None =>
            /\ receipts[program'[other].for] # None
            /\ signed[program'[other].for].release # None
      BY <1>0, <1>3, <2>3, <2>5 DEF Request
    <3>2. \A other \in AllRoots : program'[other] # None /\ program'[other].for = exec.request =>
            \/ exec'.pc = "worker" /\ other = Request.release.unity
            \/ exec'.pc \in {"switch", "finish"}
      BY <1>0, <1>2, <2>1, <2>3
    <3> QED BY <2>1, <2>4, <3>1, <3>2 DEF Installing
  <2>7. InstalledAsPublished'
    <3>1. ASSUME NEW other \in AllRoots, program'[other] # None
          PROVE  LET s == signed[program'[other].for] IN
                 /\ program'[other].got = [release |-> published[s.ticket], whole |-> TRUE]
                 /\ other \in Roots(s.release)
      <4>1. CASE other = root
        BY <1>0, <1>1, <2>3, <4>1 DEF Request
      <4>2. CASE other # root
        BY <1>3, <2>3, <3>1, <4>2 DEF DeliveryInv, InstalledAsPublished
      <4> QED BY <4>1, <4>2
    <3>2. DOMAIN program' = AllRoots
      BY <2>3
    <3> QED BY <2>4, <3>1, <3>2 DEF InstalledAsPublished
  <2>8. UNCHANGED <<fate, listener, broken>> /\ broken \subseteq Requests
    BY <1>0 DEF history, operator, DeliveryInv, TypeOK, HostType
  <2>9. Publishing'
    BY <1>0, Alone DEF Publishing
  <2>10. /\ listener = None \/ listener.sending = None
         /\ \A other \in AllRoots : program[other] # None => program'[other] = program[other]
    BY <1>0, <1>4, <2>3, WorkParts DEF InUse
  <2> QED BY <1>0, <2>1, <2>2, <2>3, <2>6, <2>7, <2>8, <2>9, <2>10, WorksOn
<1>5. CASE InUse(root) /\ Fails /\ UNCHANGED program
  <2>1. ForAnother(root, exec.request)
    BY <1>0, <1>1, <1>2, <1>5 DEF InUse, ForAnother
  <2>2. Reason(exec.request)
    BY <1>1, <1>5, <2>1 DEF Reason, Request
  <2> QED BY <1>0, <1>5, <2>2, FailStep
<1> QED BY <1>4, <1>5 DEF Move

LEMMA SwitchStep ==
    ASSUME DeliveryInv, Switch
    PROVE  DeliveryInv'
PROOF
<1>0. /\ exec # None /\ exec.pc = "switch" /\ Then("finish")
      /\ host' = [host EXCEPT !.deployment = exec.got.release.worker]
      /\ UNCHANGED <<operator, clients, inbox, receipts, program, history>>
      /\ host \in [generation : Nat, deployment : AllRoots, latest : {None} \cup Requests]
  BY DEF Switch, Doing, DeliveryInv, TypeOK, HostType
<1>1. exec' \in Work /\ exec'.request = exec.request /\ exec'.pc = "finish"
  BY <1>0, ThenIs
<1>2. exec.got.release.worker \in AllRoots
  <2>1. exec.got.release = Request.release /\ Request.release \in Inputs
    BY <1>0, AtWork, WorkParts
  <2> QED BY <2>1 DEF AllRoots, Roots
<1>3. /\ host' \in [generation : Nat, deployment : AllRoots, latest : {None} \cup Requests]
      /\ host'.latest = host.latest
  BY <1>0, <1>2
<1>4. Working
  BY <1>0, <1>1, <1>3 DEF Working, operator, history
<1>5. Installing'
  BY <1>0, <1>1, <1>4, InstallingStays
<1>6. InstalledAsPublished'
  BY <1>0, <1>4, WorkingStep, StillInstalled
<1>7. UNCHANGED <<fate, listener, program, broken>> /\ broken \subseteq Requests
  BY <1>0 DEF history, operator, DeliveryInv, TypeOK, HostType
<1>8. Publishing'
  BY <1>0, Alone DEF Publishing
<1>9. listener = None \/ listener.sending = None
  BY <1>0, WorkParts
<1> QED BY <1>1, <1>4, <1>5, <1>6, <1>7, <1>8, <1>9, WorksOn

\* The executor has nothing more to do: its request is over, or it was killed.
LEMMA StopStep ==
    ASSUME DeliveryInv, exec # None, exec' = None,
           UNCHANGED <<clients, published, host, inbox, program, broken, fate>>, Publishing',
           listener' # None => listener'.sending = None,
           \/ UNCHANGED receipts /\ deaths' \in 1..MaxDeaths
           \/ UNCHANGED deaths /\ receipts' = [receipts EXCEPT ![exec.request] = "completed"]
    PROVE  DeliveryInv'
PROOF
<1>0. /\ exec.request \in Requests /\ receipts[exec.request] = "prepared"
      /\ receipts \in [Requests -> {None, "prepared", "rejected"} \cup Ended]
      /\ UNCHANGED <<signed, files, published>> /\ Lasting
      /\ deaths \in Nat /\ deaths' \in 0..MaxDeaths /\ (deaths > 0 => deaths' > 0)
  BY AtWork, SameLasting, DeliveryAssumption DEF clients, DeliveryInv, TypeOK, HostType
<1>1. /\ receipts' \in [Requests -> {None, "prepared", "rejected"} \cup Ended]
      /\ \A r \in Requests : r # exec.request => receipts'[r] = receipts[r]
      /\ receipts'[exec.request] \in {"prepared", "completed"}
      /\ receipts'[exec.request] = "prepared" => deaths' > 0
  BY <1>0 DEF Ended
<1>2. \A r \in Requests : (receipts[r] # None <=> receipts'[r] # None)
  BY <1>0, <1>1, DeliveryAssumption
<1>3. \A r \in Requests : receipts'[r] = "failed" => receipts[r] = "failed"
  BY <1>1
<1>4. HostType'
  BY <1>0, <1>1 DEF DeliveryInv, TypeOK, HostType
<1>5. OnlyOne'
  BY <1>0, <1>1 DEF DeliveryInv, TypeOK, OnlyOne
<1>6. Known'
  <2>1. inbox # None => receipts[inbox] = None /\ inbox \in Requests
    BY DEF DeliveryInv, Known, TypeOK, HostType
  <2> QED BY <1>0, <1>2, <2>1, KnownStep
<1>7. Downloading'
  BY <1>0, <1>2 DEF DeliveryInv, Downloading, Tickets
<1>8. Installing'
  <2>1. \A root \in AllRoots : program[root] # None =>
          /\ program[root].for \in Requests
          /\ receipts[program[root].for] # None /\ signed[program[root].for].release # None
    BY DEF DeliveryInv, TypeOK, HostType, Installing
  <2> QED BY <1>0, <1>2, <2>1 DEF Installing
<1>9. Receipts'
  <2>1. \A r \in Requests :
          /\ receipts[r] = "prepared" => exec.request = r \/ deaths > 0
          /\ receipts[r] = "failed" => signed[r].release # None
    BY DEF DeliveryInv, Receipts
  <2> QED BY <1>0, <1>1, <2>1 DEF Receipts
<1>10. InstalledAsPublished'
  BY <1>0, StillInstalled
<1>11. FailsForReason'
  BY <1>0, <1>3, ReasonStays, HostTypes
<1> QED BY <1>0, <1>4, <1>5, <1>6, <1>7, <1>8, <1>9, <1>10, <1>11, ExecutorTogether DEF Delivered

LEMMA FinishStep ==
    ASSUME DeliveryInv, Finish
    PROVE  DeliveryInv'
PROOF
<1>1. /\ exec # None /\ exec.pc = "finish" /\ exec' = None
      /\ receipts' = [receipts EXCEPT ![exec.request] = "completed"]
      /\ UNCHANGED <<operator, clients, host, inbox, program, history>>
  BY DEF Finish, Doing
<1>2. listener = None \/ listener.sending = None
  BY <1>1, WorkParts
<1>3. Publishing' /\ UNCHANGED <<listener, published, fate, broken, deaths>>
  BY <1>1, Alone DEF Publishing, operator, history
<1> QED BY <1>1, <1>2, <1>3, StopStep

LEMMA DiesStep ==
    ASSUME DeliveryInv, Dies
    PROVE  DeliveryInv'
PROOF
<1>1. /\ exec # None /\ exec' = None /\ deaths < MaxDeaths /\ deaths' = deaths + 1
      /\ listener' = IF exec.pc = "receive" THEN [listener EXCEPT !.sending = None] ELSE listener
      /\ UNCHANGED <<archive, published, fate, clients, server, broken>>
  BY DEF Dies, Doing
<1>2. deaths' \in 1..MaxDeaths
  BY <1>1, DeliveryAssumption DEF DeliveryInv, TypeOK, HostType
<1>3. Publishing' /\ (listener' # None => listener'.sending = None)
  <2>1. CASE exec.pc = "receive"
    <3>1. listener # None
      BY <1>1, <2>1, WorkParts
    <3> QED BY <1>1, <2>1, <3>1, ServingStep, PublishingParts
  <2>2. CASE exec.pc # "receive"
    BY <1>1, <2>2, Alone, WorkParts DEF Publishing, operator
  <2> QED BY <2>1, <2>2
<1> QED BY <1>1, <1>2, <1>3, StopStep DEF server

-----------------------------------------------------------------------------
LEMMA DeliveryInit ==
    ASSUME Init
    PROVE  DeliveryInv
PROOF
<1>1. OperatorType /\ Publications
  BY DEF Init, OperatorType, Publications, Tickets
<1>2. HostType
  BY DeliveryAssumption DEF Init, HostType, AllRoots
<1>3. ClientType /\ \A c \in Clients : Idle(c)
  BY DeliveryAssumption DEF Init, ClientType, Idle
<1>4. \A r \in Requests : receipts[r] = None /\ inbox # r /\ signed[r] = None
  BY DeliveryAssumption DEF Init
<1>5. /\ exec = None /\ listener = None /\ inbox = None /\ Tickets = {}
      /\ DOMAIN program = AllRoots /\ \A root \in AllRoots : program[root] = None
  BY DEF Init, Tickets
<1>6. \A r \in Requests : receipts[r] \notin {"prepared", "failed"}
  BY <1>4, DeliveryAssumption
<1>7. Known /\ Receipts /\ Downloading /\ Installing
  BY <1>4, <1>5, <1>6 DEF Known, Receipts, Downloading, Installing
<1>8. InstalledAsPublished /\ FailsForReason
  BY <1>5, <1>6 DEF InstalledAsPublished, FailsForReason
<1> QED BY <1>1, <1>2, <1>3, <1>4, <1>5, <1>6, <1>7, <1>8 DEF DeliveryInv, TypeOK

LEMMA DeliveryNext ==
    ASSUME DeliveryInv, [Next]_vars
    PROVE  DeliveryInv'
PROOF
<1>1. CASE \E x \in Inputs : Build(x)
  BY <1>1, BuildStep
<1>2. CASE Publish
  BY <1>2, PublishStep
<1>3. CASE ListenerExpires
  BY <1>3, ListenerExpiresStep
<1>4. ASSUME NEW c \in Clients,
             \/ \E f \in Files : Retry(c, f) \/ \E t \in Tickets \cup {None} : NewRequest(c, f, t)
             \/ Step(c) \/ Deadline(c) \/ GiveUp(c)
      PROVE  DeliveryInv'
  BY <1>4, RetryStep, NewRequestStep, CreateStep, WriteStep, SendStep, EndStep DEF Step
<1>5. CASE Executor
  <2>1. CASE MoveUnity
    BY <2>1, MovesStep DEF MoveUnity, Doing
  <2>2. CASE MoveWorker
    BY <2>2, MovesStep DEF MoveWorker, Doing
  <2> QED BY <1>5, <2>1, <2>2, AcceptStep, RejectStep, ConnectStep, TransferStep, BreaksStep,
             VerifyStep, SwitchStep, FinishStep DEF Executor
<1>6. CASE Dies
  BY <1>6, DiesStep
<1>7. CASE \E r \in Requests : Expire(r)
  BY <1>7, ExpireStep
<1>8. CASE UNCHANGED vars
  <2>1. UNCHANGED <<operator, clients, server, exec, history>>
    BY <1>8 DEF vars
  <2>2. UNCHANGED <<signed, published, receipts, files, inbox, program, host, broken, deaths, listener, fate>>
    BY <2>1 DEF operator, clients, server, history
  <2>3. Outside
    BY <2>1, <2>2, PublishedType DEF Outside, Lasting
  <2> QED BY <2>1, <2>2, <2>3, Alone, Together
<1> QED BY <1>1, <1>2, <1>3, <1>4, <1>5, <1>6, <1>7, <1>8 DEF Next

\* Whatever the clients, the operator and the host do, whatever is lost or killed,
\* the parts of DeliveryInv go on to hold together.
THEOREM DeliveryInvariant == Spec => []DeliveryInv
PROOF
<1>1. Init => DeliveryInv
  BY DeliveryInit
<1>2. DeliveryInv /\ [Next]_vars => DeliveryInv'
  BY DeliveryNext
<1> QED BY <1>1, <1>2, PTL DEF Spec

\* The variables keep their types, and the one connection and the one executor are
\* each other's.
THEOREM TypeCorrect == Spec => []TypeOK
PROOF
<1>1. DeliveryInv => TypeOK
  BY DEF DeliveryInv
<1> QED BY <1>1, DeliveryInvariant, PTL

\* A request the host knows of lies in a request file, in full, to be sent again.
THEOREM Recoverable == Spec => []RequestRecoverable
PROOF
<1>1. DeliveryInv => RequestRecoverable
  BY DEF DeliveryInv, Known, RequestRecoverable
<1> QED BY <1>1, DeliveryInvariant, PTL

\* What lies below program/ is what was in the file when its ticket was published.
THEOREM AsPublished == Spec => []InstalledAsPublished
PROOF
<1>1. DeliveryInv => InstalledAsPublished
  BY DEF DeliveryInv
<1> QED BY <1>1, DeliveryInvariant, PTL

\* Nothing the builder accepts fails for its names or for what its file holds now.
THEOREM FailureExplained == Spec => []FailsForReason
PROOF
<1>1. DeliveryInv => FailsForReason
  BY DEF DeliveryInv
<1> QED BY <1>1, DeliveryInvariant, PTL
-----------------------------------------------------------------------------
(* Delivery implements VersionedSelection: each step maps to a step of it, or *)
(* to none.                                                                   *)

\* What was signed shows as it was signed.
LEMMA SignatureShows ==
    ASSUME DeliveryInv, NEW r \in Requests, signed[r] # None
    PROVE  /\ SignedSelection(r) # None
           /\ SignedSelection(r).version = signed[r].generation
           /\ SignedSelection(r).seen = signed[r].seen
           /\ SignedSelection(r).wanted =
                IF signed[r].release = None THEN None ELSE signed[r].release.worker
           /\ signed[r].release # None => SignedSelection(r).wanted \in AllRoots
PROOF
<1> DEFINE wanted == IF signed[r].release = None THEN None ELSE signed[r].release.worker
           s == [version |-> signed[r].generation, seen |-> signed[r].seen, wanted |-> wanted]
<1>1. signed[r] \in Signature /\ signed[r].release \in Inputs \cup {None}
  BY HasSignature
<1>2. signed[r].release # None => wanted \in AllRoots
  BY <1>1 DEF AllRoots, Roots
<1> HIDE DEF wanted
<1>3. wanted \in AllRoots \cup {None}
  BY <1>2 DEF wanted
<1>4. s \in Selection!Signature
  BY <1>1, <1>3 DEF Signature, Selection!Signature
<1>5. s # None
  BY <1>4, NoneIsNoWork DEF Selection!SelectionConstants
<1>6. SignedSelection(r) = s
  BY DEF SignedSelection, wanted
<1>7. s.version = signed[r].generation /\ s.seen = signed[r].seen /\ s.wanted = wanted
  OBVIOUS
<1> HIDE DEF s
<1> QED BY <1>2, <1>5, <1>6, <1>7 DEF wanted

\* An executor shows with the request it works on.
LEMMA WorkShows ==
    ASSUME exec # None, exec.request \in Requests
    PROVE  /\ CurrentWork # None
           /\ CurrentWork.request = exec.request
PROOF
<1>1. CurrentWork \in Selection!Work /\ CurrentWork.request = exec.request
  BY DEF CurrentWork, Selection!Work, Selection!Stages
<1> QED BY <1>1, NoneIsNoWork DEF Selection!SelectionConstants

\* What touches neither selection, signatures nor receipts, nor the switch, is unseen.
LEMMA NothingShows ==
    ASSUME host'.generation = host.generation, host'.deployment = host.deployment,
           signed' = signed, receipts' = receipts, CurrentWork' = CurrentWork
    PROVE  UNCHANGED Selection!all
BY DEF Selection!all, SignedSelection, PhaseOf

\* The operator, and the clients once they have signed, are unseen.
LEMMA OthersAreUnseen ==
    ASSUME \/ \E x \in Inputs : Build(x)
           \/ Publish \/ ListenerExpires
           \/ \E c \in Clients :
                \/ \E f \in Files : Retry(c, f)
                \/ Step(c) \/ Deadline(c) \/ GiveUp(c)
           \/ \E r \in Requests : Expire(r)
           \/ UNCHANGED vars
    PROVE  UNCHANGED Selection!all
PROOF
<1>1. UNCHANGED <<host, signed, receipts, exec>>
  BY DEF Build, Publish, ListenerExpires, Retry, Step, Create, Write, Send, Deadline,
         GiveUp, Expire, vars, clients, server
<1> QED BY <1>1, NothingShows DEF CurrentWork

\* A client signs for what is selected.
LEMMA NewRequestShows ==
    ASSUME DeliveryInv, NEW c \in Clients, NEW f \in Files,
           NEW ticket \in Tickets \cup {None}, NewRequest(c, f, ticket)
    PROVE  \E r \in Requests : \E wanted \in AllRoots \cup {None} : Selection!Sign(r, wanted)
PROOF
<1> DEFINE release == IF ticket = None THEN None ELSE published[ticket]
           s == [generation |-> host.generation, seen |-> host.deployment,
                 ticket |-> ticket, release |-> release]
           wanted == IF release = None THEN None ELSE release.worker
<1>1. PICK r \in Requests :
        /\ signed[r] = None
        /\ signed' = [signed EXCEPT ![r] = s]
        /\ UNCHANGED <<host, receipts, exec>>
  BY DEF NewRequest, server
<1>2. published \in Seq(Inputs) /\ ticket \in Nat \cup {None}
  BY DEF DeliveryInv, TypeOK, OperatorType, Tickets
<1>3. release \in Inputs \cup {None}
  BY <1>2 DEF Tickets
<1>4. wanted \in AllRoots \cup {None}
  BY <1>3 DEF AllRoots, Roots
<1> HIDE DEF release
<1>5. s \in Signature
  BY <1>2, <1>3 DEF DeliveryInv, TypeOK, HostType, Signature
<1>6. s # None /\ s.generation = host.generation /\ s.seen = host.deployment /\ s.release = release
  BY <1>5, DeliveryAssumption
<1> HIDE DEF s
<1>7. /\ signed'[r] = s
      /\ \A q \in Requests : q # r => signed'[q] = signed[q]
  BY <1>1 DEF DeliveryInv, TypeOK, ClientType
<1>8. CurrentWork' = CurrentWork
  <2>1. CASE exec # None
    <3>1. exec.request \in Requests /\ signed[exec.request] # None
      BY <2>1, AtWork
    <3>2. signed'[exec.request] = signed[exec.request]
      BY <1>1, <1>7, <3>1
    <3> QED BY <1>1, <3>2 DEF CurrentWork
  <2>2. CASE exec = None
    BY <1>1, <2>2 DEF CurrentWork
  <2> QED BY <2>1, <2>2
<1>9. SignedSelection(r) = None
  BY <1>1 DEF SignedSelection
<1>10. [q \in Requests |-> SignedSelection(q)]'
         = [[q \in Requests |-> SignedSelection(q)] EXCEPT ![r] =
               [version |-> host.generation, seen |-> host.deployment, wanted |-> wanted]]
  BY <1>6, <1>7 DEF SignedSelection
<1>11. UNCHANGED [q \in Requests |-> PhaseOf(q)]
  BY <1>1 DEF PhaseOf
<1> HIDE DEF wanted
<1>12. Selection!Sign(r, wanted)
  BY <1>1, <1>8, <1>9, <1>10, <1>11 DEF Selection!Sign, Selection!selected
<1> QED BY <1>4, <1>12

\* A request that is accepted fits, and uses its generation up.
LEMMA AcceptShows ==
    ASSUME DeliveryInv, Accept
    PROVE  Selection!Begin(inbox, "consumed")
PROOF
<1>1. /\ exec = None /\ inbox # None /\ inbox \in Requests
      /\ Transition(inbox)
      /\ receipts' = [receipts EXCEPT ![inbox] = "prepared"]
      /\ host' = [host EXCEPT !.generation = @ + 1, !.latest = inbox]
      /\ exec' = [pc |-> IF signed[inbox].release = None THEN "finish" ELSE "connect",
                  request |-> inbox, got |-> None]
      /\ signed' = signed
  BY DEF Accept, Admissible, clients, DeliveryInv, TypeOK, HostType
<1>2. signed[inbox] # None /\ receipts[inbox] = None
  BY <1>1, KnownSigned DEF DeliveryInv, Known
<1>3. /\ host'.generation = host.generation + 1
      /\ host'.deployment = host.deployment
      /\ host.deployment \in AllRoots
  BY <1>1 DEF DeliveryInv, TypeOK, HostType
<1>4. exec' # None /\ exec'.request = inbox
  <2>1. exec' \in Work
    BY <1>1 DEF Work
  <2> QED BY <1>1, <2>1, DeliveryAssumption
<1>5. CurrentWork = None /\ CurrentWork' = [request |-> inbox, stage |-> "consumed"]
  BY <1>1, <1>4 DEF CurrentWork
<1>6. PhaseOf(inbox) = "new"
  BY <1>2 DEF PhaseOf
<1>7. \A q \in Requests : receipts'[q] = IF q = inbox THEN "prepared" ELSE receipts[q]
  BY <1>1 DEF DeliveryInv, TypeOK, HostType
<1>8. [q \in Requests |-> PhaseOf(q)]' = [[q \in Requests |-> PhaseOf(q)] EXCEPT ![inbox] = "begun"]
  BY <1>1, <1>7, DeliveryAssumption DEF PhaseOf
<1>9. UNCHANGED [q \in Requests |-> SignedSelection(q)]
  BY <1>1 DEF SignedSelection
<1>10. Selection!Fits(inbox)
  <2>1. /\ SignedSelection(inbox) # None
        /\ SignedSelection(inbox).version = host.generation
        /\ SignedSelection(inbox).seen = host.deployment
        /\ SignedSelection(inbox).wanted # host.deployment
    BY <1>1, <1>2, <1>3, SignatureShows, DeliveryAssumption DEF Transition
  <2> QED BY <1>1, <2>1 DEF Selection!Fits
<1> QED BY <1>1, <1>3, <1>5, <1>6, <1>8, <1>9, <1>10 DEF Selection!Begin

\* One that does not fit is refused.
LEMMA RejectShows ==
    ASSUME DeliveryInv, Reject
    PROVE  inbox \in Requests /\ Selection!Refuse(inbox)
PROOF
<1>1. /\ exec = None /\ inbox # None /\ inbox \in Requests
      /\ receipts' = [receipts EXCEPT ![inbox] = "rejected"]
      /\ host' = [host EXCEPT !.latest = inbox]
      /\ UNCHANGED <<signed, exec>>
  BY DEF Reject, clients, DeliveryInv, TypeOK, HostType
<1>2. signed[inbox] # None /\ receipts[inbox] = None
  BY <1>1, KnownSigned DEF DeliveryInv, Known
<1>3. host'.generation = host.generation /\ host'.deployment = host.deployment
  BY <1>1 DEF DeliveryInv, TypeOK, HostType
<1>4. CurrentWork = None /\ CurrentWork' = None
  BY <1>1 DEF CurrentWork
<1>5. PhaseOf(inbox) = "new" /\ SignedSelection(inbox) # None
  BY <1>1, <1>2, SignatureShows DEF PhaseOf
<1>6. \A q \in Requests : receipts'[q] = IF q = inbox THEN "rejected" ELSE receipts[q]
  BY <1>1 DEF DeliveryInv, TypeOK, HostType
<1>7. [q \in Requests |-> PhaseOf(q)]' = [[q \in Requests |-> PhaseOf(q)] EXCEPT ![inbox] = "failed"]
  <2>1. "rejected" # None
    BY DeliveryAssumption
  <2>2. \A q \in Requests :
          (IF receipts'[q] = None THEN "new"
           ELSE IF receipts'[q] = "prepared" THEN "begun"
           ELSE IF receipts'[q] = "rejected" THEN "failed" ELSE receipts'[q])
          = IF q = inbox THEN "failed" ELSE PhaseOf(q)
    BY <1>6, <2>1 DEF PhaseOf
  <2> QED BY <1>1, <2>2 DEF PhaseOf
<1>8. UNCHANGED [q \in Requests |-> SignedSelection(q)]
  BY <1>1 DEF SignedSelection
<1> QED BY <1>1, <1>3, <1>4, <1>5, <1>7, <1>8 DEF Selection!Refuse, Selection!selected

\* An end of the work shows as one.
LEMMA EndShows ==
    ASSUME DeliveryInv, exec # None, NEW phase \in Ended,
           receipts' = [receipts EXCEPT ![exec.request] = phase], exec' = None,
           UNCHANGED <<host, signed>>
    PROVE  Selection!Ends(phase) /\ CurrentWork' = None
PROOF
<1>1. exec.request \in Requests
  BY AtWork
<1>2. CurrentWork # None /\ CurrentWork.request = exec.request
  BY <1>1, WorkShows
<1>3. CurrentWork' = None
  BY DEF CurrentWork
<1>4. \A q \in Requests : receipts'[q] = IF q = exec.request THEN phase ELSE receipts[q]
  BY DEF DeliveryInv, TypeOK, HostType
<1>5. [q \in Requests |-> PhaseOf(q)]'
        = [[q \in Requests |-> PhaseOf(q)] EXCEPT ![CurrentWork.request] = phase]
  BY <1>1, <1>2, <1>4, DeliveryAssumption DEF PhaseOf, Ended
<1>6. UNCHANGED [q \in Requests |-> SignedSelection(q)]
  BY DEF SignedSelection
<1> QED BY <1>2, <1>3, <1>5, <1>6 DEF Selection!Ends, Selection!selected

\* Between acceptance and switch the executor shows nothing, unless it fails.
LEMMA DownloadShows ==
    ASSUME DeliveryInv,
           Connect \/ Transfer \/ Breaks \/ Verify \/ MoveUnity \/ MoveWorker
    PROVE  Selection!Fail \/ UNCHANGED Selection!all
PROOF
<1>1. /\ exec # None /\ exec.pc # "finish"
      /\ UNCHANGED <<host, signed>>
  BY DEF Connect, Transfer, Breaks, Verify, MoveUnity, MoveWorker, Move, Doing, clients, server
<1>2. exec \in Work /\ exec.request \in Requests
  BY <1>1, AtWork
<1>3. \/ Fails
      \/ /\ receipts' = receipts
         /\ exec' \in Work /\ exec'.request = exec.request /\ exec'.pc # "finish"
  <2>1. CASE Connect
    BY <2>1, <1>1, ThenIs DEF Connect, Doing
  <2>2. CASE Transfer
    <3>1. PICK whole \in BOOLEAN :
            exec' = [exec EXCEPT !.pc = "verify", !.got = [release |-> Content, whole |-> whole]]
      BY <2>2 DEF Transfer
    <3>2. [release |-> Content, whole |-> whole] \in Got
      BY <2>2 DEF Transfer, Doing, Content, Got, DeliveryInv, TypeOK, OperatorType, Serving, Downloading
    <3> QED BY <1>1, <2>2, <3>1, <3>2, WorkIs DEF Transfer, server
  <2>3. CASE Breaks
    <3>1. [release |-> Content, whole |-> FALSE] \in Got
      BY <2>3 DEF Breaks, Doing, Content, Got, DeliveryInv, TypeOK, OperatorType, Serving, Downloading
    <3> QED BY <1>1, <2>3, <3>1, WorkIs DEF Breaks, server
  <2>4. CASE Verify
    BY <2>4, <1>1, ThenIs DEF Verify, Doing
  <2>5. CASE MoveUnity \/ MoveWorker
    BY <2>5, <1>1, ThenIs DEF MoveUnity, MoveWorker, Move, Doing
  <2> QED BY <2>1, <2>2, <2>3, <2>4, <2>5
<1>4. CASE Fails
  BY <1>1, <1>4, EndShows DEF Fails, Ended, Selection!Fail
<1>5. ASSUME receipts' = receipts, exec' \in Work, exec'.request = exec.request,
             exec'.pc # "finish"
      PROVE  UNCHANGED Selection!all
  <2>1. exec' # None
    BY <1>5, DeliveryAssumption
  <2>2. CurrentWork' = CurrentWork
    BY <1>1, <1>5, <2>1 DEF CurrentWork
  <2> QED BY <1>1, <1>5, <2>2, NothingShows
<1> QED BY <1>3, <1>4, <1>5

\* What was downloaded and verified is what was signed for.
LEMMA SwitchShows ==
    ASSUME DeliveryInv, Switch
    PROVE  Selection!Switch
PROOF
<1> DEFINE r == exec.request
<1>1. /\ exec # None /\ exec.pc = "switch"
      /\ host' = [host EXCEPT !.deployment = exec.got.release.worker]
      /\ Then("finish")
      /\ UNCHANGED <<signed, receipts>>
  BY DEF Switch, Doing, clients
<1>2. /\ r \in Requests /\ signed[r] # None
      /\ signed[r].release \in Inputs
  BY <1>1, AtWork DEF Request
<1>3. exec.got = [release |-> signed[r].release, whole |-> TRUE]
  BY <1>1 DEF DeliveryInv, Downloading, Request
<1>4. /\ host'.generation = host.generation
      /\ host'.deployment = signed[r].release.worker
  BY <1>1, <1>3 DEF DeliveryInv, TypeOK, HostType
<1>5. exec' \in Work /\ exec'.request = r /\ exec'.pc = "finish"
  BY <1>1, ThenIs
<1>6. exec' # None /\ signed[r].release # None
  BY <1>2, <1>5, DeliveryAssumption
<1>7. /\ CurrentWork = [request |-> r, stage |-> "consumed"]
      /\ CurrentWork' = [request |-> r, stage |-> "switched"]
  BY <1>1, <1>5, <1>6 DEF CurrentWork
<1>8. CurrentWork # None
  BY <1>1, <1>2, WorkShows
<1>9. UNCHANGED <<[q \in Requests |-> SignedSelection(q)], [q \in Requests |-> PhaseOf(q)]>>
  BY <1>1 DEF SignedSelection, PhaseOf
<1>10. /\ Selection!Wanted = signed[r].release.worker
       /\ Selection!Wanted # None
  BY <1>2, <1>6, <1>7, SignatureShows, DeliveryAssumption DEF Selection!Wanted
<1> QED BY <1>4, <1>7, <1>8, <1>9, <1>10 DEF Selection!Switch

\* The last receipt shows as completion.
LEMMA FinishShows ==
    ASSUME DeliveryInv, Finish
    PROVE  Selection!Complete
PROOF
<1> DEFINE r == exec.request
<1>1. /\ exec # None /\ exec.pc = "finish"
      /\ receipts' = [receipts EXCEPT ![r] = "completed"] /\ exec' = None
      /\ UNCHANGED <<host, signed>>
  BY DEF Finish, Doing, clients
<1>2. r \in Requests /\ signed[r] # None
  BY <1>1, AtWork
<1>3. Selection!Ends("completed") /\ CurrentWork' = None
  BY <1>1, EndShows DEF Ended
<1>4. CurrentWork # None /\ CurrentWork.request = r
  BY <1>1, <1>2, WorkShows
<1>5. CurrentWork.stage = IF signed[r].release = None THEN "consumed" ELSE "switched"
  BY <1>1 DEF CurrentWork
<1>6. Selection!Wanted = None <=> signed[r].release = None
  BY <1>2, <1>4, SignatureShows, DeliveryAssumption DEF Selection!Wanted
<1> QED BY <1>3, <1>4, <1>5, <1>6 DEF Selection!Complete

\* An executor that is killed leaves what it worked on.
LEMMA DeathShows ==
    ASSUME DeliveryInv, Dies
    PROVE  Selection!Leave
PROOF
<1>1. /\ exec # None /\ exec' = None
      /\ UNCHANGED <<host, signed, receipts>>
  BY DEF Dies, clients, server
<1>2. CurrentWork # None /\ CurrentWork' = None
  BY <1>1, AtWork, WorkShows DEF CurrentWork
<1> QED BY <1>1, <1>2 DEF Selection!Leave, Selection!selected, SignedSelection, PhaseOf

\* Each step in turn.
LEMMA StepShows ==
    ASSUME DeliveryInv, [Next]_vars
    PROVE  [Selection!SelectionNext]_(Selection!all)
PROOF
<1> DEFINE Shown == Selection!SelectionNext \/ UNCHANGED Selection!all
<1>1. ASSUME NEW c \in Clients, NEW f \in Files, NEW t \in Tickets \cup {None},
             NewRequest(c, f, t)
      PROVE  Shown
  BY <1>1, NewRequestShows DEF Selection!SelectionNext
<1>2. ASSUME Accept
      PROVE  Shown
  <2>1. inbox \in Requests
    BY <1>2 DEF Accept, DeliveryInv, TypeOK, HostType
  <2> QED BY <1>2, <2>1, AcceptShows DEF Selection!SelectionNext
<1>3. ASSUME Reject
      PROVE  Shown
  BY <1>3, RejectShows DEF Selection!SelectionNext
<1>4. ASSUME Connect \/ Transfer \/ Breaks \/ Verify \/ MoveUnity \/ MoveWorker
      PROVE  Shown
  BY <1>4, DownloadShows DEF Selection!SelectionNext
<1>5. ASSUME Switch \/ Finish \/ Dies
      PROVE  Shown
  BY <1>5, SwitchShows, FinishShows, DeathShows DEF Selection!SelectionNext
<1>6. ASSUME \/ \E x \in Inputs : Build(x)
             \/ Publish \/ ListenerExpires
             \/ \E c \in Clients :
                  \/ \E f \in Files : Retry(c, f)
                  \/ Step(c) \/ Deadline(c) \/ GiveUp(c)
             \/ \E r \in Requests : Expire(r)
             \/ UNCHANGED vars
      PROVE  Shown
  BY <1>6, OthersAreUnseen
<1>7. Shown
  <2> HIDE DEF Shown
  <2> QED BY <1>1, <1>2, <1>3, <1>4, <1>5, <1>6 DEF Next, Executor
<1> QED BY <1>7

\* A fresh installation shows as the first selection.
LEMMA InitShows ==
    ASSUME Init
    PROVE  Selection!SelectionInit
BY DEF Init, CurrentWork, SignedSelection, PhaseOf, Selection!SelectionInit

\* Though the host switches to what it reads from a file that was downloaded, and
\* clients send again whatever may be lost, each generation is used up once and the
\* selection is changed as it was signed.
THEOREM ImplementsVersionedSelection == Spec => ImplementsSelection
PROOF
<1>1. Init => Selection!SelectionInit
  BY InitShows
<1>2. DeliveryInv /\ [Next]_vars => [Selection!SelectionNext]_(Selection!all)
  BY StepShows
<1> QED BY <1>1, <1>2, DeliveryInvariant, PTL
        DEF Spec, ImplementsSelection, Selection!SelectionSpec
-----------------------------------------------------------------------------
(* So it keeps what VersionedSelection promises. *)

Promise ==
    INSTANCE VersionedSelectionProofs WITH
        Selections <- AllRoots, First <- Installed,
        version <- host.generation, selection <- host.deployment,
        signed <- [r \in Requests |-> SignedSelection(r)],
        phase <- [r \in Requests |-> PhaseOf(r)],
        current <- CurrentWork

\* It is the same module, with its proofs.
LEMMA SamePromise ==
    /\ Promise!SelectionConstants
    /\ Selection!SelectionInit <=> Promise!SelectionInit
    /\ [Selection!SelectionNext]_(Selection!all) <=> [Promise!SelectionNext]_(Promise!all)
PROOF
<1>1. Promise!SelectionConstants
  BY NoneIsNoWork
     DEF Selection!SelectionConstants, Promise!SelectionConstants, Selection!Signature,
         Selection!Work, Selection!Stages, Promise!Signature, Promise!Work, Promise!Stages
<1>2. Selection!SelectionInit <=> Promise!SelectionInit
  BY DEF Selection!SelectionInit, Promise!SelectionInit
<1>3. [Selection!SelectionNext]_(Selection!all) <=> [Promise!SelectionNext]_(Promise!all)
  BY DEF Selection!all, Selection!selected, Selection!Sign, Selection!Fits,
         Selection!Begin, Selection!Consume, Selection!Wanted, Selection!Switch,
         Selection!Ends, Selection!Complete, Selection!Fail, Selection!Leave,
         Selection!Refuse, Selection!SelectionNext,
         Promise!all, Promise!selected, Promise!Sign, Promise!Fits, Promise!Begin,
         Promise!Consume, Promise!Wanted, Promise!Switch, Promise!Ends,
         Promise!Complete, Promise!Fail, Promise!Leave, Promise!Refuse,
         Promise!SelectionNext
<1> QED BY <1>1, <1>2, <1>3

\* Of the clients that saw one state of the host at most one is ever told that its
\* request is completed, though each may send it again whenever an answer is lost.
THEOREM CompletedOnce == Spec => CompletedOncePerGeneration
PROOF
<1>1. Promise!SelectionSpec => []Promise!SelectionInv
  BY SamePromise, Promise!SelectionInvariant
<1>2. Init => Promise!SelectionInit
  BY InitShows, SamePromise
<1>3. DeliveryInv /\ [Next]_vars => [Promise!SelectionNext]_(Promise!all)
  BY StepShows, SamePromise
<1>4. ASSUME NEW q \in Requests
      PROVE  Spec => [](receipts[q] = "completed" => [](\A r \in Rivals(q) : receipts[r] # "completed"))
  <2>1. Promise!SelectionInv /\ receipts[q] = "completed" => Promise!Barred(q)
    <3>1. receipts[q] = "completed" => PhaseOf(q) = "completed"
      BY DeliveryAssumption DEF PhaseOf
    <3> QED BY <3>1, Promise!CompletedBars
  <2>2. Promise!SelectionInv /\ Promise!Barred(q) /\ [Promise!SelectionNext]_(Promise!all)
            => Promise!Barred(q)'
    BY SamePromise, Promise!StaysBarred
  <2>3. DeliveryInv /\ Promise!Barred(q) =>
            \A r \in Rivals(q) : receipts[r] # "completed"
    <3> SUFFICES ASSUME DeliveryInv, Promise!Barred(q), NEW r \in Rivals(q),
                        receipts[r] = "completed"
                 PROVE  FALSE
      OBVIOUS
    <3>1. /\ r \in Requests \ {q} /\ signed[r] # None /\ signed[q] # None
          /\ signed[r].generation = signed[q].generation
      BY DEF Rivals
    <3>2. r \in Promise!Rivals(q)
      BY <3>1, SignatureShows DEF Promise!Rivals
    <3>3. PhaseOf(r) = "completed"
      BY DeliveryAssumption DEF PhaseOf
    <3> QED BY <3>1, <3>2, <3>3 DEF Promise!Barred
  <2> QED BY <1>1, <1>2, <1>3, <2>1, <2>2, <2>3, DeliveryInvariant, PTL
          DEF Spec, Promise!SelectionSpec
<1> QED BY <1>4 DEF CompletedOncePerGeneration
=============================================================================
