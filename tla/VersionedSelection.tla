------------------------- MODULE VersionedSelection --------------------------
(***************************************************************************)
(* What signed maintenance promises of the active selection, with no       *)
(* files, no inbox and no processes: it is changed by requests, each of    *)
(* which names the version and the selection its signer saw, is taken up   *)
(* at most once, one at a time, and uses up the version before it works.   *)
(* A request may fail or be abandoned at any point, and even one that is   *)
(* completed may still fail while whoever worked on it is there.           *)
(***************************************************************************)
EXTENDS Naturals

CONSTANTS
    Requests,    \* request identities
    Selections,  \* what can be selected
    First,       \* what is selected at first
    None

VARIABLES
    version,    \* how many requests have used the selection up, from 1
    selection,  \* what is selected
    signed,     \* request -> None or what was signed
    phase,      \* request -> how far it has come
    current     \* None or the request that is worked on

selected == <<version, selection>>
all == <<version, selection, signed, phase, current>>

Phases == {"new", "begun", "completed", "failed"}
\* A request wants a selection, or none: it only wants to be the one that works.
Signature == [version : Nat, seen : Selections, wanted : Selections \cup {None}]
Stages == {"begun", "consumed", "switched"}
Work == [request : Requests, stage : Stages]

\* What an implementation says of the values it gives to the constants.
SelectionConstants == First \in Selections /\ None \notin Signature \cup Work

SelectionInit ==
    /\ version = 1
    /\ selection = First
    /\ signed = [r \in Requests |-> None]
    /\ phase = [r \in Requests |-> "new"]
    /\ current = None

Sign(r, wanted) ==
    /\ signed[r] = None
    /\ signed' = [signed EXCEPT ![r] =
                     [version |-> version, seen |-> selection, wanted |-> wanted]]
    /\ UNCHANGED <<selected, phase, current>>

\* The request was signed for what is selected, and wants something else.
Fits(r) ==
    /\ signed[r] # None
    /\ signed[r].version = version
    /\ signed[r].seen = selection
    /\ signed[r].wanted # selection

\* The version is used up with the first record, or by a step of its own.
Begin(r, stage) ==
    /\ current = None
    /\ phase[r] = "new"
    /\ Fits(r)
    /\ phase' = [phase EXCEPT ![r] = "begun"]
    /\ current' = [request |-> r, stage |-> stage]
    /\ version' = IF stage = "consumed" THEN version + 1 ELSE version
    /\ UNCHANGED <<selection, signed>>

Consume ==
    /\ current # None
    /\ current.stage = "begun"
    /\ version' = version + 1
    /\ current' = [current EXCEPT !.stage = "consumed"]
    /\ UNCHANGED <<selection, signed, phase>>

Wanted == signed[current.request].wanted

Switch ==
    /\ current # None
    /\ current.stage = "consumed"
    /\ Wanted # None
    /\ selection' = Wanted
    /\ current' = [current EXCEPT !.stage = "switched"]
    /\ UNCHANGED <<version, signed, phase>>

Ends(outcome) ==
    /\ current # None
    /\ phase' = [phase EXCEPT ![current.request] = outcome]
    /\ UNCHANGED <<selected, signed>>

\* This is the last word only once nobody works on it any more.
Complete ==
    /\ Ends("completed")
    /\ current.stage = IF Wanted = None THEN "consumed" ELSE "switched"
    /\ current' \in {current, None}

Fail ==
    /\ Ends("failed")
    /\ current' = None

\* Whoever worked on it is gone, done or killed: it stays as it is for ever.
Leave ==
    /\ current # None
    /\ current' = None
    /\ UNCHANGED <<selected, signed, phase>>

\* It does not fit, or not any more.
Refuse(r) ==
    /\ current = None
    /\ signed[r] # None
    /\ phase[r] = "new"
    /\ phase' = [phase EXCEPT ![r] = "failed"]
    /\ UNCHANGED <<selected, signed, current>>

SelectionNext ==
    \/ \E r \in Requests :
        \/ \E wanted \in Selections \cup {None} : Sign(r, wanted)
        \/ \E stage \in {"begun", "consumed"} : Begin(r, stage)
        \/ Refuse(r)
    \/ Consume \/ Switch \/ Complete \/ Fail \/ Leave

SelectionSpec == SelectionInit /\ [][SelectionNext]_all

-----------------------------------------------------------------------------
\* The others that were signed for the same version.
Rivals(q) ==
    {r \in Requests \ {q} :
        signed[q] # None /\ signed[r] # None /\ signed[r].version = signed[q].version}

\* Of all requests that were signed for one version at most one is ever completed,
\* also when that one fails in the end: two administrators who saw the same state
\* are never both told that they have changed it.
OneChangePerVersion ==
    \A q \in Requests :
        [](phase[q] = "completed" => [](\A r \in Rivals(q) : phase[r] # "completed"))

\* What is replaced is what the signer saw, by what he wanted, and the version he
\* saw is used up by then; the version only grows, and only with a request.
ChangesAsSigned ==
    [][/\ selection' # selection =>
            /\ current # None
            /\ signed[current.request].seen = selection
            /\ signed[current.request].version + 1 = version
            /\ selection' = Wanted
       /\ version' # version =>
            /\ version' = version + 1 /\ current' # None
            /\ signed[current'.request].version = version]_all

\* A request that has ended never changes again, except that one that is completed
\* may fail while it is still worked on; and none begins a second time.
EndIsFinal ==
    [][\A r \in Requests :
          /\ phase[r] = "failed" => phase'[r] = "failed"
          /\ phase[r] = "completed" =>
                \/ phase'[r] = "completed"
                \/ phase'[r] = "failed" /\ current # None /\ current.request = r
          /\ phase[r] = "begun" => phase'[r] # "new"
          /\ signed[r] # None => signed'[r] = signed[r]]_all
=============================================================================
