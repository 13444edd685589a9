--------------------------- MODULE ListenerPicker ---------------------------
(***************************************************************************)
(* How the automation page chooses the listener of a new deployment: four  *)
(* selects, each offering what the cloud lists below the one before it.    *)
(*                                                                         *)
(* Every choice asks for the next list; the answers arrive in any order,   *)
(* also after the choice was changed and after the editor was closed.  A   *)
(* path is the sequence of the choices made: a credential, a region, a     *)
(* load balancer, a listener.                                              *)
(***************************************************************************)
EXTENDS Naturals, Sequences, FiniteSets, Functions

CONSTANTS
    Credentials,    \* cloud credentials
    Cloud,          \* Cloud[path]: what the cloud lists below a path
    None,           \* nothing is chosen
    MaxFetches      \* bound: requests for lists under way

VARIABLES
    open,           \* the editor is shown
    editing,        \* it is for an existing task
    inline,         \* it is for a deployment to a listener chosen here
    guidance,       \* the dialog about a missing permission is shown
    choices,        \* what is chosen at each level
    offered,        \* what the selects of levels 2 to 4 list
    fetches,        \* requests of those lists under way
    submitted       \* the path of the last form that was sent

vars == <<open, editing, inline, guidance, choices, offered, fetches, submitted>>
dialogVars == <<open, editing, inline, guidance>>
pickerVars == <<choices, offered, fetches, submitted>>

LastLevel == 4
Values == Credentials \cup UNION Range(Cloud)
Paths == UNION {[1..n -> Values] : n \in 0..LastLevel}
Upto(level) == SubSeq(choices, 1, level)
Unchosen == [l \in 1..LastLevel |-> None]

(* The cloud lists something, if nothing else an empty list, below all it  *)
(* lists but listeners.                                                    *)
ListenerPickerAssumption ==
    /\ None \notin Values
    /\ MaxFetches \in Nat
    /\ DOMAIN Cloud \subseteq Paths
    /\ \A c \in Credentials : <<c>> \in DOMAIN Cloud
    /\ \A p \in DOMAIN Cloud : \A v \in Cloud[p] :
          Len(p) + 1 < LastLevel => Append(p, v) \in DOMAIN Cloud
ASSUME ListenerPickerAssumption

---------------------------------------------------------------------------
(* Effects whose inputs changed abort their requests.                      *)
AbortFrom(level) ==
    {[f EXCEPT !.live = f.live /\ Len(f.path) < level] : f \in fetches}

(* Mutant of ClearFrom: the list of the next level alone goes.             *)
ClearNext(level) == [l \in DOMAIN offered |-> IF l = level + 1 THEN {} ELSE offered[l]]

ClearFrom(level) == [l \in DOMAIN offered |-> IF l > level THEN {} ELSE offered[l]]

CanChoose(level, v) ==
    /\ open /\ ~guidance /\ ~editing /\ inline
    /\ IF level = 1 THEN v \in Credentials ELSE v \in offered[level]
    /\ v # choices[level]

(* The lists and choices of the later levels go, their requests are        *)
(* aborted, the next list is asked for.                                    *)
Choose(level, v) ==
    /\ CanChoose(level, v)
    /\ choices' = [l \in 1..LastLevel |->
                     IF l < level THEN choices[l] ELSE IF l = level THEN v ELSE None]
    /\ offered' = ClearFrom(level)
    /\ \/ /\ level < LastLevel
          /\ Cardinality(fetches) < MaxFetches
          /\ fetches' = AbortFrom(level)
                           \cup {[path |-> Append(Upto(level - 1), v), live |-> TRUE]}
       \/ level = LastLevel /\ UNCHANGED fetches
    /\ UNCHANGED <<dialogVars, submitted>>

(* Mutant of Receive: the check of the abort signal is missing.            *)
ReceiveUnchecked(f) == [offered EXCEPT ![Len(f.path) + 1] = Cloud[f.path]]

(* A list arrives.  One that was asked for an earlier choice is ignored.   *)
Receive(f) ==
    IF f.live THEN [offered EXCEPT ![Len(f.path) + 1] = Cloud[f.path]] ELSE offered

FetchArrives(f) ==
    /\ fetches' = fetches \ {f}
    /\ offered' = Receive(f)
    /\ UNCHANGED <<dialogVars, choices, submitted>>

(* The cloud refuses.  A missing permission replaces the editor by the     *)
(* guidance, whether or not the editor is still open; any other error is   *)
(* only reported.                                                          *)
ShowGuidance ==
    /\ open' = FALSE
    /\ guidance' = TRUE

FetchFails(f) ==
    /\ fetches' = fetches \ {f}
    /\ \/ f.live /\ ShowGuidance
       \/ UNCHANGED <<open, guidance>>
    /\ UNCHANGED <<editing, inline, choices, offered, submitted>>

DismissGuidance ==
    /\ guidance
    /\ guidance' = FALSE
    /\ open' = TRUE
    /\ UNCHANGED <<editing, inline, pickerVars>>

---------------------------------------------------------------------------
(* handleCredentialChange(""): nothing is chosen, nothing is asked for.    *)
OpenNewAutomation ==
    /\ ~open /\ ~guidance
    /\ open' = TRUE
    /\ editing' = FALSE
    /\ inline' = TRUE
    /\ choices' = Unchosen
    /\ offered' = ClearFrom(1)
    /\ fetches' = AbortFrom(1)
    /\ UNCHANGED <<guidance, submitted>>

(* The editor of an existing task keeps the choices, out of sight.         *)
EditAutomation ==
    /\ ~open /\ ~guidance
    /\ open' = TRUE
    /\ editing' = TRUE
    /\ inline' = FALSE
    /\ UNCHANGED <<guidance, pickerVars>>

(* From here to existing targets and back.                                 *)
UseExistingTargets ==
    /\ open /\ ~guidance /\ ~editing
    /\ inline' = ~inline
    /\ UNCHANGED <<open, editing, guidance, pickerVars>>

CloseAutomationEditor ==
    /\ open /\ ~guidance
    /\ open' = FALSE
    /\ editing' = FALSE
    /\ UNCHANGED <<inline, guidance, pickerVars>>

Submit ==
    /\ open /\ ~guidance /\ inline
    /\ \A l \in 1..LastLevel : choices[l] # None
    /\ submitted' = choices
    /\ UNCHANGED <<dialogVars, choices, offered, fetches>>

Init ==
    /\ open = FALSE /\ editing = FALSE /\ inline = FALSE /\ guidance = FALSE
    /\ choices = Unchosen
    /\ offered = [l \in 2..LastLevel |-> {}]
    /\ fetches = {}
    /\ submitted = Unchosen

Next ==
    \/ \E level \in 1..LastLevel, v \in Values : Choose(level, v)
    \/ \E f \in fetches : FetchArrives(f) \/ FetchFails(f)
    \/ DismissGuidance
    \/ OpenNewAutomation \/ EditAutomation \/ UseExistingTargets \/ CloseAutomationEditor
    \/ Submit

Spec == Init /\ [][Next]_vars

---------------------------------------------------------------------------
(* Every variable has a value of its type.                                 *)
TypeOK ==
    /\ {open, editing, inline, guidance} \subseteq BOOLEAN
    /\ {choices, submitted} \subseteq [1..LastLevel -> Values \cup {None}]
    /\ offered \in [2..LastLevel -> SUBSET Values]
    /\ fetches \in SUBSET [path : Paths, live : BOOLEAN]

(* What is chosen and what is sent is a path of the cloud: no answer that  *)
(* belongs to an earlier choice, and no list left from one, ever offers a  *)
(* region, load balancer or listener of something else.                    *)
IsPath(chosen) ==
    \A l \in 1..LastLevel : chosen[l] # None =>
        LET above == SubSeq(chosen, 1, l - 1) IN
        IF l = 1 THEN chosen[l] \in Credentials
        ELSE above \in DOMAIN Cloud /\ chosen[l] \in Cloud[above]

InlineTargetExists == IsPath(choices) /\ IsPath(submitted)
=============================================================================
