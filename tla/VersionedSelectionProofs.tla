----------------------- MODULE VersionedSelectionProofs -----------------------
(***************************************************************************)
(* What VersionedSelection promises it keeps, for any requests and         *)
(* selections; whoever implements it keeps it too.                         *)
(***************************************************************************)
EXTENDS VersionedSelection, TLAPS

-----------------------------------------------------------------------------
(* The invariant. *)

SelectionType ==
    /\ version \in Nat
    /\ selection \in Selections
    /\ signed \in [Requests -> Signature \cup {None}]
    /\ phase \in [Requests -> Phases]
    /\ current \in Work \cup {None}

\* A completed request has used its version up.
UsedInv ==
    \A r \in Requests :
        /\ phase[r] # "new" => signed[r] # None
        /\ signed[r] # None => signed[r].version <= version
        /\ phase[r] = "completed" => signed[r].version < version

\* The one that works has begun, and may be completed; it was signed for the version
\* it uses up, which no other completed one used up, and still sees what its signer saw.
CurrentInv ==
    current # None =>
        /\ phase[current.request] \in {"begun", "completed"}
        /\ current.stage # "switched" => signed[current.request].seen = selection
        /\ current.stage = "begun" => signed[current.request].version = version
        /\ current.stage # "begun" => signed[current.request].version + 1 = version
        /\ \A r \in Requests \ {current.request} : phase[r] = "completed" =>
            signed[r].version # signed[current.request].version

\* No two are completed for one version at the same time.
OneCompleted ==
    \A q, r \in Requests :
        /\ phase[q] = "completed" /\ phase[r] = "completed"
        /\ signed[q].version = signed[r].version
        => q = r

SelectionInv ==
    /\ SelectionType
    /\ UsedInv
    /\ CurrentInv
    /\ OneCompleted
-----------------------------------------------------------------------------
(* Every step keeps it. *)

\* Nothing is signed and nobody works.
LEMMA SelectionInitially ==
    ASSUME SelectionConstants, SelectionInit
    PROVE  SelectionInv
BY DEF SelectionConstants, SelectionInit, SelectionInv, SelectionType, UsedInv, CurrentInv,
       OneCompleted, Phases

\* The request that works is a signed one.
LEMMA CurrentSigned ==
    ASSUME SelectionConstants, SelectionInv, current # None
    PROVE  /\ current \in Work
           /\ current.request \in Requests
           /\ signed[current.request] \in Signature
           /\ phase[current.request] \in {"begun", "completed"}
PROOF
<1>1. current \in Work
  BY DEF SelectionInv, SelectionType
<1>2. current.request \in Requests
  BY <1>1 DEF Work
<1>3. phase[current.request] \in {"begun", "completed"}
  BY DEF SelectionInv, CurrentInv
<1> QED BY <1>1, <1>2, <1>3 DEF SelectionInv, SelectionType, UsedInv

\* A signature names the version that is the newest.
LEMMA SignKeeps ==
    ASSUME SelectionConstants, SelectionInv, NEW r \in Requests,
           NEW wanted \in Selections \cup {None}, Sign(r, wanted)
    PROVE  SelectionInv'
PROOF
<1> DEFINE s == [version |-> version, seen |-> selection, wanted |-> wanted]
<1>1. s \in Signature
  BY DEF SelectionInv, SelectionType, Signature
<1>2. s # None
  BY <1>1 DEF SelectionConstants
<1>3. /\ signed' = [signed EXCEPT ![r] = s]
      /\ signed[r] = None
      /\ UNCHANGED <<version, selection, phase, current>>
  BY DEF Sign, selected
<1>4. s.version = version
  OBVIOUS
<1> HIDE DEF s
<1>5. SelectionType'
  BY <1>1, <1>3 DEF SelectionInv, SelectionType
<1>6. phase[r] = "new"
  BY <1>3 DEF SelectionInv, UsedInv
<1>7. UsedInv'
  BY <1>2, <1>3, <1>4, <1>6 DEF SelectionInv, SelectionType, UsedInv
<1>8. \A q \in Requests : q # r => signed'[q] = signed[q]
  BY <1>3 DEF SelectionInv, SelectionType
<1>9. CurrentInv'
  <2> SUFFICES ASSUME current # None
               PROVE  CurrentInv'
    BY <1>3 DEF CurrentInv
  <2>1. current.request \in Requests /\ current.request # r
    BY <1>3, CurrentSigned, <1>6
  <2>2. \A q \in Requests : phase[q] = "completed" => q # r
    BY <1>6
  <2> QED BY <1>3, <1>8, <2>1, <2>2 DEF SelectionInv, CurrentInv
<1>10. OneCompleted'
  BY <1>3, <1>6, <1>8 DEF SelectionInv, OneCompleted
<1> QED BY <1>5, <1>7, <1>9, <1>10 DEF SelectionInv

\* None that is completed was signed for the version at hand.
LEMMA BeginKeeps ==
    ASSUME SelectionConstants, SelectionInv, NEW r \in Requests,
           NEW stage \in {"begun", "consumed"}, Begin(r, stage)
    PROVE  SelectionInv'
PROOF
<1> DEFINE c == [request |-> r, stage |-> stage]
<1>1. c \in Work
  BY DEF Work, Stages
<1>2. /\ c # None
      /\ c.request = r /\ c.stage = stage
  BY <1>1 DEF SelectionConstants
<1>3. /\ phase[r] = "new"
      /\ Fits(r)
      /\ phase' = [phase EXCEPT ![r] = "begun"]
      /\ current' = c
      /\ version' = IF stage = "consumed" THEN version + 1 ELSE version
      /\ UNCHANGED <<selection, signed>>
  BY DEF Begin
<1> HIDE DEF c
<1>4. SelectionType'
  BY <1>1, <1>3 DEF SelectionInv, SelectionType, Phases
<1>5. \A q \in Requests : signed[q] # None => signed[q].version \in Nat
  BY DEF SelectionInv, SelectionType, Signature
<1>6. version \in Nat /\ version' \in Nat /\ version <= version'
  BY <1>3 DEF SelectionInv, SelectionType
<1>7. \A q \in Requests : phase'[q] = IF q = r THEN "begun" ELSE phase[q]
  BY <1>3 DEF SelectionInv, SelectionType
<1>8. UsedInv'
  BY <1>3, <1>5, <1>6, <1>7 DEF SelectionInv, UsedInv, Fits
<1>9. CurrentInv'
  <2>1. \A q \in Requests : phase[q] = "completed" => signed[q].version # version
    BY <1>5, <1>6 DEF SelectionInv, UsedInv
  <2>2. signed[r].version = version /\ signed[r].seen = selection
    BY <1>3 DEF Fits
  <2>3. phase'[r] = "begun" /\ \A q \in Requests : phase'[q] = "completed" => phase[q] = "completed"
    BY <1>7
  <2> QED BY <1>2, <1>3, <2>1, <2>2, <2>3 DEF CurrentInv
<1>10. OneCompleted'
  BY <1>3, <1>7 DEF SelectionInv, OneCompleted
<1> QED BY <1>4, <1>8, <1>9, <1>10 DEF SelectionInv

\* The request at work uses its version up, or switches, once.
LEMMA WorkKeeps ==
    ASSUME SelectionConstants, SelectionInv, Consume \/ Switch
    PROVE  SelectionInv'
PROOF
<1> DEFINE q == current.request
<1>1. /\ current # None
      /\ UNCHANGED <<signed, phase>>
  BY DEF Consume, Switch
<1>2. /\ current \in Work
      /\ q \in Requests
      /\ signed[q] \in Signature
  BY <1>1, CurrentSigned
<1>3. current' \in Work /\ current'.request = q
  BY <1>2 DEF Consume, Switch, Work, Stages
<1>4. version \in Nat /\ version' \in Nat /\ version <= version'
  BY DEF Consume, Switch, SelectionInv, SelectionType
<1>5. selection' \in Selections
  BY <1>2 DEF Consume, Switch, SelectionInv, SelectionType, Signature, Wanted
<1>6. SelectionType'
  BY <1>1, <1>3, <1>4, <1>5 DEF SelectionInv, SelectionType
<1>7. \A r \in Requests : signed[r] # None => signed[r].version \in Nat
  BY DEF SelectionInv, SelectionType, Signature
<1>8. UsedInv'
  BY <1>1, <1>4, <1>7 DEF SelectionInv, UsedInv
<1>9. OneCompleted'
  BY <1>1 DEF SelectionInv, OneCompleted
<1>10. CurrentInv'
  <2>1. CASE Consume
    <3>1. /\ current'.stage = "consumed" /\ current.stage = "begun"
          /\ version' = version + 1 /\ selection' = selection
      BY <2>1, <1>2 DEF Consume, Work
    <3> QED BY <3>1, <1>1, <1>2, <1>3 DEF SelectionInv, CurrentInv
  <2>2. CASE Switch
    <3>1. /\ current'.stage = "switched" /\ current.stage = "consumed"
          /\ version' = version
      BY <2>2, <1>2 DEF Switch, Work
    <3> QED BY <3>1, <1>1, <1>2, <1>3 DEF SelectionInv, CurrentInv
  <2> QED BY <2>1, <2>2
<1> QED BY <1>6, <1>8, <1>9, <1>10 DEF SelectionInv

\* No other completed request was signed for the version of the one that completes.
LEMMA EndKeeps ==
    ASSUME SelectionConstants, SelectionInv, Complete \/ Fail \/ Leave
    PROVE  SelectionInv'
PROOF
<1> DEFINE q == current.request
<1>1. /\ current # None
      /\ current' \in {current, None}
      /\ UNCHANGED <<version, selection, signed>>
  BY DEF Complete, Fail, Ends, Leave, selected
<1>2. /\ q \in Requests
      /\ signed[q] \in Signature
      /\ phase[q] \in {"begun", "completed"}
  BY <1>1, CurrentSigned
<1>3. /\ phase' \in [Requests -> Phases]
      /\ \A r \in Requests : r # q => phase'[r] = phase[r]
      /\ phase'[q] \in {"begun", "completed", "failed"}
      /\ phase'[q] = "completed" => phase[q] = "completed" \/ current.stage # "begun"
      /\ current' # None => phase'[q] = "completed"
  BY <1>2 DEF Complete, Fail, Ends, Leave, SelectionInv, SelectionType, Phases
<1>4. SelectionType'
  BY <1>1, <1>3 DEF SelectionInv, SelectionType
<1>5. signed[q] # None
  BY <1>2 DEF SelectionConstants
<1>6. current.stage # "begun" => signed[q].version < version
  BY <1>1, <1>2 DEF SelectionInv, SelectionType, CurrentInv, Signature
<1>7. UsedInv'
  BY <1>1, <1>2, <1>3, <1>5, <1>6 DEF SelectionInv, UsedInv
<1>8. CurrentInv'
  BY <1>1, <1>3 DEF SelectionInv, CurrentInv
<1>9. \A r \in Requests \ {q} : phase[r] = "completed" => signed[r].version # signed[q].version
  BY <1>1 DEF SelectionInv, CurrentInv
<1>10. OneCompleted'
  BY <1>1, <1>2, <1>3, <1>9 DEF SelectionInv, OneCompleted
<1> QED BY <1>4, <1>7, <1>8, <1>10 DEF SelectionInv

\* A refusal completes nothing.
LEMMA RefuseKeeps ==
    ASSUME SelectionConstants, SelectionInv, NEW r \in Requests, Refuse(r)
    PROVE  SelectionInv'
PROOF
<1>1. /\ current = None
      /\ signed[r] # None
      /\ phase' = [phase EXCEPT ![r] = "failed"]
      /\ UNCHANGED <<version, selection, signed, current>>
  BY DEF Refuse, selected
<1>2. \A q \in Requests : phase'[q] = IF q = r THEN "failed" ELSE phase[q]
  BY <1>1 DEF SelectionInv, SelectionType
<1>3. SelectionType'
  BY <1>1 DEF SelectionInv, SelectionType, Phases
<1>4. UsedInv' /\ CurrentInv' /\ OneCompleted'
  BY <1>1, <1>2 DEF SelectionInv, UsedInv, CurrentInv, OneCompleted
<1> QED BY <1>3, <1>4 DEF SelectionInv

\* Each step in turn.
LEMMA SelectionStep ==
    ASSUME SelectionConstants, SelectionInv, [SelectionNext]_all
    PROVE  SelectionInv'
PROOF
<1>1. CASE SelectionNext
  BY <1>1, SignKeeps, BeginKeeps, WorkKeeps, EndKeeps, RefuseKeeps DEF SelectionNext
<1>2. CASE UNCHANGED all
  BY <1>2 DEF all, SelectionInv, SelectionType, UsedInv, CurrentInv, OneCompleted
<1> QED BY <1>1, <1>2

-----------------------------------------------------------------------------
(* The promises. *)

\* The invariant holds in every state: it is what the promises follow from.
THEOREM SelectionInvariant ==
    ASSUME SelectionConstants
    PROVE  SelectionSpec => []SelectionInv
PROOF
<1>1. SelectionInit => SelectionInv
  BY SelectionInitially
<1>2. SelectionInv /\ [SelectionNext]_all => SelectionInv'
  BY SelectionStep
<1> QED BY <1>1, <1>2, PTL DEF SelectionSpec

\* A request that is completed keeps all others from the version it was signed for:
\* it is used up, and none of them works any more or is completed.
Barred(q) ==
    /\ signed[q] # None
    /\ signed[q].version < version
    /\ \A r \in Rivals(q) :
        /\ phase[r] # "completed"
        /\ current # None => current.request # r

LEMMA CompletedBars ==
    ASSUME SelectionInv, NEW q \in Requests, phase[q] = "completed"
    PROVE  Barred(q)
BY DEF SelectionInv, UsedInv, CurrentInv, OneCompleted, Barred, Rivals, Phases

\* What is signed or begins later is for a newer version.
LEMMA StaysBarred ==
    ASSUME SelectionConstants, SelectionInv, NEW q \in Requests, Barred(q),
           [SelectionNext]_all
    PROVE  Barred(q)'
PROOF
<1>1. /\ phase \in [Requests -> Phases]
      /\ signed \in [Requests -> Signature \cup {None}]
      /\ version \in Nat
      /\ signed[q].version \in Nat
  BY DEF SelectionInv, SelectionType, Barred, Signature
<1>2. ASSUME NEW r \in Requests, NEW wanted \in Selections \cup {None}, Sign(r, wanted)
      PROVE  Barred(q)'
  <2> DEFINE s == [version |-> version, seen |-> selection, wanted |-> wanted]
  <2>1. s.version = version
    OBVIOUS
  <2>2. /\ signed' = [signed EXCEPT ![r] = s]
        /\ signed[r] = None
        /\ UNCHANGED <<version, phase, current>>
    BY <1>2 DEF Sign, selected
  <2> HIDE DEF s
  <2>3. r # q /\ signed'[q] = signed[q] /\ signed'[r].version # signed[q].version
    BY <1>1, <2>1, <2>2 DEF Barred
  <2>4. Rivals(q)' \subseteq Rivals(q)
    BY <1>1, <2>2, <2>3 DEF Rivals
  <2> QED BY <2>2, <2>3, <2>4 DEF Barred
<1>3. ASSUME NEW r \in Requests, NEW stage \in {"begun", "consumed"}, Begin(r, stage)
      PROVE  Barred(q)'
  <2> DEFINE c == [request |-> r, stage |-> stage]
  <2>1. c.request = r
    OBVIOUS
  <2>2. /\ Fits(r)
        /\ phase' = [phase EXCEPT ![r] = "begun"]
        /\ current' = c
        /\ version' = IF stage = "consumed" THEN version + 1 ELSE version
        /\ signed' = signed
    BY <1>3 DEF Begin
  <2> HIDE DEF c
  <2>3. r \notin Rivals(q) /\ Rivals(q)' = Rivals(q) /\ Rivals(q) \subseteq Requests
    BY <1>1, <2>2 DEF Rivals, Fits, Barred
  <2> QED BY <1>1, <2>1, <2>2, <2>3 DEF Barred
<1>4. ASSUME NEW r \in Requests, Refuse(r)
      PROVE  Barred(q)'
  BY <1>1, <1>4 DEF Refuse, selected, Barred, Rivals
<1>5. CASE Consume \/ Switch
  <2>1. current # None /\ current'.request = current.request /\ UNCHANGED <<signed, phase>>
    BY <1>5, CurrentSigned DEF Consume, Switch, Work
  <2>2. version <= version' /\ version' \in Nat
    BY <1>1, <1>5 DEF Consume, Switch
  <2> QED BY <1>1, <2>1, <2>2 DEF Barred, Rivals
<1>6. CASE Complete \/ Fail \/ Leave
  <2>1. /\ current # None
        /\ current' \in {current, None}
        /\ UNCHANGED <<version, signed>>
        /\ \A r \in Requests : r # current.request => phase'[r] = phase[r]
    BY <1>1, <1>6 DEF Complete, Fail, Leave, Ends, selected
  <2> QED BY <2>1 DEF Barred, Rivals
<1>7. CASE UNCHANGED all
  BY <1>7 DEF all, Barred, Rivals
<1> QED BY <1>2, <1>3, <1>4, <1>5, <1>6, <1>7 DEF SelectionNext

\* Of the administrators who signed for one version at most one ever has his request
\* completed, whatever the others do and whatever becomes of his.
THEOREM OneChange ==
    ASSUME SelectionConstants
    PROVE  SelectionSpec => OneChangePerVersion
PROOF
<1>1. ASSUME NEW q \in Requests
      PROVE  SelectionSpec =>
                 [](phase[q] = "completed" => [](\A r \in Rivals(q) : phase[r] # "completed"))
  <2>1. SelectionInv /\ phase[q] = "completed" => Barred(q)
    BY CompletedBars
  <2>2. SelectionInv /\ Barred(q) /\ [SelectionNext]_all => Barred(q)'
    BY StaysBarred
  <2>3. Barred(q) => \A r \in Rivals(q) : phase[r] # "completed"
    BY DEF Barred
  <2> QED BY <2>1, <2>2, <2>3, SelectionInvariant, PTL DEF SelectionSpec
<1> QED BY <1>1 DEF OneChangePerVersion

\* One step changes the selection as it was signed.
LEMMA StepAsSigned ==
    ASSUME SelectionConstants, SelectionInv, SelectionNext
    PROVE  /\ selection' # selection =>
                /\ current # None
                /\ signed[current.request].seen = selection
                /\ signed[current.request].version + 1 = version
                /\ selection' = Wanted
           /\ version' # version =>
                /\ version' = version + 1 /\ current' # None
                /\ signed[current'.request].version = version
PROOF
<1>1. CASE \E r \in Requests, wanted \in Selections \cup {None} : Sign(r, wanted)
  BY <1>1 DEF Sign, selected
<1>2. ASSUME NEW r \in Requests, NEW stage \in {"begun", "consumed"}, Begin(r, stage)
      PROVE  /\ selection' = selection
             /\ version' # version =>
                /\ version' = version + 1 /\ current' # None
                /\ signed[current'.request].version = version
  <2> DEFINE c == [request |-> r, stage |-> stage]
  <2>1. c \in Work /\ c.request = r
    BY DEF Work, Stages
  <2>2. c # None
    BY <2>1 DEF SelectionConstants
  <2> QED BY <1>2, <2>1, <2>2 DEF Begin, Fits
<1>3. CASE \E r \in Requests : Refuse(r)
  BY <1>3 DEF Refuse, selected
<1>4. CASE Complete \/ Fail \/ Leave
  BY <1>4 DEF Complete, Fail, Ends, Leave, selected
<1>5. CASE Consume
  <2>1. current \in Work /\ current'.request = current.request /\ current' \in Work
    BY <1>5, CurrentSigned DEF Consume, Work, Stages
  <2> QED BY <1>5, <2>1 DEF Consume, SelectionConstants, SelectionInv, CurrentInv
<1>6. CASE Switch
  BY <1>6 DEF Switch, SelectionInv, CurrentInv
<1> QED BY <1>1, <1>2, <1>3, <1>4, <1>5, <1>6 DEF SelectionNext

\* What is replaced is what the signer saw, by what he wanted, in a version that
\* only his request used up.
THEOREM AsSigned ==
    ASSUME SelectionConstants
    PROVE  SelectionSpec => ChangesAsSigned
PROOF
<1>1. SelectionInv /\ [SelectionNext]_all =>
        [/\ selection' # selection =>
            /\ current # None
            /\ signed[current.request].seen = selection
            /\ signed[current.request].version + 1 = version
            /\ selection' = Wanted
         /\ version' # version =>
            /\ version' = version + 1 /\ current' # None
            /\ signed[current'.request].version = version]_all
  BY StepAsSigned
<1> QED BY <1>1, SelectionInvariant, PTL DEF SelectionSpec, ChangesAsSigned

\* One step leaves alone what has ended, has begun or is signed, but for the
\* failure of what is worked on.
LEMMA StepFinal ==
    ASSUME SelectionConstants, SelectionInv, SelectionNext, NEW r \in Requests
    PROVE  /\ phase[r] = "failed" => phase'[r] = "failed"
           /\ phase[r] = "completed" =>
                \/ phase'[r] = "completed"
                \/ phase'[r] = "failed" /\ current # None /\ current.request = r
           /\ phase[r] = "begun" => phase'[r] # "new"
           /\ signed[r] # None => signed'[r] = signed[r]
PROOF
<1>1. /\ phase \in [Requests -> Phases]
      /\ signed \in [Requests -> Signature \cup {None}]
  BY DEF SelectionInv, SelectionType
<1>2. ASSUME NEW q \in Requests, NEW wanted \in Selections \cup {None}, Sign(q, wanted)
      PROVE  phase'[r] = phase[r] /\ (signed[r] # None => signed'[r] = signed[r])
  BY <1>1, <1>2 DEF Sign
<1>3. ASSUME NEW q \in Requests, (\E stage \in {"begun", "consumed"} : Begin(q, stage)) \/ Refuse(q)
      PROVE  /\ signed' = signed
             /\ phase[q] = "new" /\ phase'[q] # "new" /\ (q # r => phase'[r] = phase[r])
  BY <1>1, <1>3 DEF Begin, Refuse
<1>4. CASE Consume \/ Switch \/ Leave
  BY <1>4 DEF Consume, Switch, Leave
<1>5. CASE Complete \/ Fail
  <2>1. current # None /\ signed' = signed
    BY <1>5 DEF Complete, Fail, Ends
  <2>2. current.request \in Requests /\ phase[current.request] \in {"begun", "completed"}
    BY <2>1, CurrentSigned
  <2>3. /\ phase'[current.request] \in {"completed", "failed"}
        /\ r # current.request => phase'[r] = phase[r]
    BY <1>1, <1>5, <2>2 DEF Complete, Fail, Ends
  <2> QED BY <2>1, <2>2, <2>3
<1> QED BY <1>2, <1>3, <1>4, <1>5 DEF SelectionNext

\* A request that has ended never changes again, except that one that is completed
\* may fail while it is still worked on; and none begins a second time.
THEOREM EndsOnce ==
    ASSUME SelectionConstants
    PROVE  SelectionSpec => EndIsFinal
PROOF
<1>1. SelectionInv /\ [SelectionNext]_all =>
        [\A r \in Requests :
          /\ phase[r] = "failed" => phase'[r] = "failed"
          /\ phase[r] = "completed" =>
                \/ phase'[r] = "completed"
                \/ phase'[r] = "failed" /\ current # None /\ current.request = r
          /\ phase[r] = "begun" => phase'[r] # "new"
          /\ signed[r] # None => signed'[r] = signed[r]]_all
  BY StepFinal
<1> QED BY <1>1, SelectionInvariant, PTL DEF SelectionSpec, EndIsFinal
=============================================================================
