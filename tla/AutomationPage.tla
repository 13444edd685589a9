-------------------------- MODULE AutomationPage --------------------------
(***************************************************************************)
(* The automation page of the console (DeploymentManager) next to the     *)
(* tasks of the server it shows and changes.                               *)
(*                                                                         *)
(* A browser runs one handler at a time, up to its next await; what other  *)
(* handlers see is the state at the awaits.  So an action is a press, the  *)
(* server's work on a request, or the arrival of an answer.  Answers       *)
(* arrive in any order, after the user has gone on.                        *)
(*                                                                         *)
(* A task is its configuration and its switch.  The last status, times,    *)
(* names, the text of errors and the search box are left out.              *)
(***************************************************************************)
EXTENDS Naturals, Sequences, FiniteSets, Functions

CONSTANTS
    Ids,            \* ids of tasks, newest first (a sequence)
    Configs,        \* what a task may be configured to
    DeployConfigs,  \* those of tasks that deploy to a load balancer
    NoTask,         \* no id
    NoRow,          \* no row
    PageSize,       \* rows of a page
    MaxReloads,     \* bound: list answers under way
    MaxChanges      \* bound: saves, deletions and changes of tasks

VARIABLES
    tasks,          \* server: the rows of automation_tasks
    unused,         \* server: ids not yet given
    changes,        \* bound: changes so far
    automations,    \* page: the rows it shows
    automationPage, \* page: the page of the table the user asked for
    editor,         \* page: the form and what it was opened for
    picker,         \* page: how far the choice of a listener is
    guidance,       \* page: the dialog about a missing cloud permission
    detail,         \* page: the task named in the address
    runConfirmation, confirmDelete,  \* page: tasks asked about
    pending,        \* page: buttons of changes are disabled
    mutation,       \* the request that changes tasks
    reloads         \* list answers under way, asked for by events

listVars == <<automations, automationPage, reloads>>
editorVars == <<editor, picker, guidance>>
dialogVars == <<detail, runConfirmation, confirmDelete>>
requestVars == <<pending, mutation>>
serverVars == <<tasks, unused, changes>>
allVars == <<serverVars, listVars, editorVars, dialogVars, requestVars>>

IdSet == Range(Ids)
Row == [config : Configs, enabled : BOOLEAN]
Rows == UNION {[S -> Row] : S \in SUBSET IdSet}
Without(rows, t) == Restrict(rows, DOMAIN rows \ {t})

AutomationPageAssumption ==
    /\ Ids \in Seq(IdSet) /\ Ids # <<>>
    /\ IsInjective(Ids)
    /\ NoTask \notin IdSet
    /\ NoRow \notin Row
    /\ DeployConfigs \subseteq Configs
    /\ PageSize \in Nat \ {0}
    /\ MaxChanges \in Nat
ASSUME AutomationPageAssumption

---------------------------------------------------------------------------
(* What the table shows.                                                   *)

(* The rows keep the order of Ids: the positions of those that are listed, *)
(* and the place each takes among them.                                    *)
Positions == {i \in DOMAIN Ids : Ids[i] \in DOMAIN automations}
PlaceOf(i) == Cardinality({j \in Positions : j <= i})

PageCount ==
    LET full == (Cardinality(Positions) + PageSize - 1) \div PageSize
    IN IF full = 0 THEN 1 ELSE full

(* Mutant of CurrentPage: the page the user turned to, however short the   *)
(* list has become.                                                        *)
CurrentPageUnclamped == automationPage

CurrentPage == IF automationPage > PageCount THEN PageCount ELSE automationPage

RowsOfPage(p) ==
    {Ids[i] : i \in {n \in Positions : /\ (p - 1) * PageSize < PlaceOf(n)
                                       /\ PlaceOf(n) <= p * PageSize}}

OnPage(t) == t \in RowsOfPage(CurrentPage)

(* Dialogs lie on top of one another in this order; what lies below the    *)
(* topmost one cannot be operated.                                         *)
EditorOpen == editor.open
DetailOpen == detail \in DOMAIN automations
RunDialogOpen == runConfirmation # NoTask
DeleteDialogOpen == confirmDelete # NoTask

Operated(d) ==
    CASE d = "guidance" -> guidance
      [] d = "editor"   -> EditorOpen /\ ~guidance
      [] d = "delete"   -> DeleteDialogOpen /\ ~guidance /\ ~EditorOpen
      [] d = "run"      -> RunDialogOpen /\ ~guidance /\ ~EditorOpen /\ ~DeleteDialogOpen
      [] d = "detail"   -> DetailOpen /\ ~guidance /\ ~EditorOpen /\ ~DeleteDialogOpen
                           /\ ~RunDialogOpen
      [] d = "page"     -> ~guidance /\ ~EditorOpen /\ ~DeleteDialogOpen
                           /\ ~RunDialogOpen /\ ~DetailOpen

---------------------------------------------------------------------------
(* The choice of a listener (ListenerPicker), as far as the page goes on   *)
(* it: it is open, waits for a list, or is complete.                       *)

ChooseListener ==
    /\ Operated("editor") /\ editor.inline /\ editor.editing = NoTask
    /\ picker' \in {"asking", "complete"}
    /\ UNCHANGED <<editor, guidance, serverVars, listVars, dialogVars, requestVars>>

(* A missing permission replaces the editor by the guidance, whether or    *)
(* not the editor is still open.                                           *)
ShowALBPermissionError ==
    /\ editor' = [editor EXCEPT !.open = FALSE]
    /\ guidance' = TRUE

ListAnswered ==
    /\ picker = "asking"
    /\ picker' = "open"
    /\ \/ ShowALBPermissionError
       \/ UNCHANGED <<editor, guidance>>
    /\ UNCHANGED <<serverVars, listVars, dialogVars, requestVars>>

DismissALBPermissionError ==
    /\ Operated("guidance")
    /\ guidance' = FALSE
    /\ editor' = [editor EXCEPT !.open = TRUE]
    /\ UNCHANGED <<picker, serverVars, listVars, dialogVars, requestVars>>

---------------------------------------------------------------------------
(* The editor.                                                             *)

OpenNewAutomation(deploy) ==
    /\ Operated("page")
    /\ editor' = [open |-> TRUE, editing |-> NoTask,
                  deploy |-> deploy, inline |-> deploy]
    /\ picker' = "open"
    /\ guidance' = FALSE
    /\ UNCHANGED <<serverVars, listVars, dialogVars, requestVars>>

(* The form is filled from the row the page shows, in the table or in the  *)
(* detail; a task that deploys keeps to existing targets.                  *)
EditAutomation(t) ==
    /\ \/ Operated("page") /\ OnPage(t)
       \/ Operated("detail") /\ detail = t
    /\ editor' = [open |-> TRUE, editing |-> t,
                  deploy |-> automations[t].config \in DeployConfigs, inline |-> FALSE]
    /\ detail' = NoTask
    /\ UNCHANGED <<picker, guidance, runConfirmation, confirmDelete,
                   serverVars, listVars, requestVars>>

UseExistingTargets ==
    /\ Operated("editor")
    /\ editor.deploy
    /\ editor.editing = NoTask
    /\ editor' = [editor EXCEPT !.inline = ~editor.inline]
    /\ UNCHANGED <<picker, guidance, serverVars, listVars, dialogVars,
                   requestVars>>

Closed(e) == [e EXCEPT !.open = FALSE, !.editing = NoTask]

CloseEditor ==
    /\ Operated("editor")
    /\ editor' = Closed(editor)
    /\ UNCHANGED <<picker, guidance, serverVars, listVars, dialogVars,
                   requestVars>>

---------------------------------------------------------------------------
(* Requests that change tasks.  Their buttons are disabled while one is    *)
(* under way, so there is one at a time.                                   *)

Request(kind, t, row) ==
    [kind |-> kind, task |-> t, row |-> row, stage |-> "sent", list |-> <<>>]

NoRequest == [Request("none", NoTask, NoRow) EXCEPT !.stage = "none"]

Send(request) ==
    /\ ~pending
    /\ pending' = TRUE
    /\ mutation' = request
    /\ UNCHANGED <<serverVars, listVars, editorVars, dialogVars>>

(* What the form, whatever it was filled with, may be made to hold.        *)
FormRows == {row \in Row : (row.config \in DeployConfigs) = editor.deploy}

FormIsComplete == editor.inline => picker = "complete"

CreateAutomation(row) ==
    /\ Operated("editor")
    /\ row \in FormRows
    /\ FormIsComplete
    /\ Send(Request("save", editor.editing, row))

ConfirmRun ==
    /\ Operated("run")
    /\ Send(Request("run", runConfirmation, NoRow))

(* The whole row the page shows goes out, with its switch turned.          *)
Turned(row) == [row EXCEPT !.enabled = ~row.enabled]

ToggleAutomation(t) ==
    /\ Operated("page")
    /\ OnPage(t)
    /\ Send(Request("toggle", t, Turned(automations[t])))

ConfirmDelete ==
    /\ Operated("delete")
    /\ Send(Request("delete", confirmDelete, NoRow))

---------------------------------------------------------------------------
(* The server.                                                             *)

(* created_at orders the list, so the ids are given from the end of Ids.   *)
NextId == CHOOSE t \in unused : \A i, j \in DOMAIN Ids :
              Ids[i] = t /\ Ids[j] \in unused => j <= i

(* Mutant of SaveRow: an id stays free after it was given.                 *)
SaveRowReusingId(t, row) ==
    /\ tasks' = [u \in DOMAIN tasks \cup {t} |-> IF u = t THEN row ELSE tasks[u]]
    /\ UNCHANGED unused

SaveRow(t, row) ==
    /\ tasks' = [u \in DOMAIN tasks \cup {t} |-> IF u = t THEN row ELSE tasks[u]]
    /\ unused' = unused \ {t}

DeleteRow(t) ==
    /\ tasks' = Without(tasks, t)
    /\ UNCHANGED unused

(* A task that is saved, deleted, switched or run must exist; anything may *)
(* be refused for another reason: a name that is taken, a target the cloud *)
(* does not have.                                                          *)
ServerAccepts ==
    /\ mutation.stage = "sent"
    /\ changes < MaxChanges
    /\ changes' = changes + 1
    /\ \/ /\ mutation.kind \in {"save", "toggle"}
          /\ mutation.task \in DOMAIN tasks
          /\ SaveRow(mutation.task, mutation.row)
       \/ /\ mutation.kind = "save"
          /\ mutation.task = NoTask
          /\ unused # {}
          /\ SaveRow(NextId, mutation.row)
       \/ /\ mutation.kind = "delete"
          /\ mutation.task \in DOMAIN tasks
          /\ DeleteRow(mutation.task)
       \/ /\ mutation.kind = "run"
          /\ mutation.task \in DOMAIN tasks
          /\ UNCHANGED <<tasks, unused>>
    /\ mutation' = [mutation EXCEPT !.stage = "done"]
    /\ UNCHANGED <<pending, listVars, editorVars, dialogVars>>

(* Other pages of the user change tasks too.                               *)
OthersChange(t, row) ==
    /\ changes < MaxChanges
    /\ changes' = changes + 1
    /\ t \in DOMAIN tasks
    /\ \/ tasks[t] # row /\ SaveRow(t, row)
       \/ DeleteRow(t)
    /\ UNCHANGED <<listVars, editorVars, dialogVars, requestVars>>

---------------------------------------------------------------------------
(* The answers.                                                            *)

Released == pending' = FALSE /\ mutation' = NoRequest

ServerRefuses ==
    /\ mutation.stage = "sent"
    /\ Released
    /\ UNCHANGED <<serverVars, listVars, editorVars, dialogVars>>

(* A saved form asks for the list before it closes the editor: whichever   *)
(* editor is open by then.                                                 *)
SaveAnswered ==
    /\ mutation.kind = "save" /\ mutation.stage = "done"
    /\ mutation' = [mutation EXCEPT !.stage = "reload", !.list = tasks]
    /\ UNCHANGED <<pending, serverVars, listVars, editorVars, dialogVars>>

SaveFinishes ==
    /\ mutation.stage = "reload"
    /\ automations' \in {mutation.list, automations}
    /\ editor' = Closed(editor)
    /\ Released
    /\ UNCHANGED <<serverVars, automationPage, reloads, picker, guidance, dialogVars>>

RunAnswered ==
    /\ mutation.kind = "run" /\ mutation.stage = "done"
    /\ runConfirmation' = NoTask
    /\ Released
    /\ UNCHANGED <<serverVars, automations, automationPage, reloads, editorVars, detail,
                   confirmDelete>>

(* The row is turned from what the page shows by now, not set to what was  *)
(* sent.                                                                   *)
ToggleAnswered ==
    /\ mutation.kind = "toggle" /\ mutation.stage = "done"
    /\ automations' = IF mutation.task \in DOMAIN automations
                      THEN [automations EXCEPT ![mutation.task] = Turned(@)]
                      ELSE automations
    /\ Released
    /\ UNCHANGED <<serverVars, automationPage, reloads, editorVars, dialogVars>>

DeleteAnswered ==
    /\ mutation.kind = "delete" /\ mutation.stage = "done"
    /\ automations' = Without(automations, mutation.task)
    /\ detail' = NoTask
    /\ confirmDelete' = NoTask
    /\ Released
    /\ UNCHANGED <<serverVars, automationPage, reloads, editorVars, runConfirmation>>

(* Mutant of ConnectionLost: no handler releases the buttons.              *)
ConnectionLostHolding ==
    /\ mutation.stage \in {"sent", "done"}
    /\ mutation' = NoRequest
    /\ UNCHANGED <<pending, serverVars, listVars, editorVars, dialogVars>>

(* The connection is lost, before or after the server did its work.  Only  *)
(* running and switching release the buttons.                              *)
ConnectionLost ==
    /\ mutation.stage \in {"sent", "done"}
    /\ mutation' = NoRequest
    /\ pending' = (mutation.kind \in {"save", "delete"})
    /\ UNCHANGED <<serverVars, listVars, editorVars, dialogVars>>

---------------------------------------------------------------------------
(* The list.                                                               *)

(* An event tells of a change of a run: the list is asked for, and read    *)
(* by the server.                                                          *)
EventAsksForList ==
    /\ Cardinality(reloads) < MaxReloads
    /\ reloads' = reloads \cup {tasks}
    /\ UNCHANGED <<automations, automationPage, serverVars, editorVars, dialogVars,
                   requestVars>>

ListArrives(list) ==
    /\ list \in reloads
    /\ reloads' = reloads \ {list}
    /\ automations' \in {list, automations}
    /\ UNCHANGED <<automationPage, serverVars, editorVars, dialogVars, requestVars>>

TurnPage(p) ==
    /\ Operated("page")
    /\ p \in 1..PageCount \ {CurrentPage}
    /\ automationPage' = p
    /\ UNCHANGED <<automations, reloads, serverVars, editorVars, dialogVars,
                   requestVars>>

---------------------------------------------------------------------------
(* The other dialogs.                                                      *)

OpenAutomation(t) ==
    /\ Operated("page")
    /\ OnPage(t)
    /\ detail' = t
    /\ UNCHANGED <<runConfirmation, confirmDelete, serverVars, listVars, editorVars, requestVars>>

CloseAutomationDetail ==
    /\ Operated("detail")
    /\ detail' = NoTask
    /\ UNCHANGED <<runConfirmation, confirmDelete, serverVars, listVars, editorVars, requestVars>>

AskToRun(t) ==
    /\ \/ Operated("page") /\ OnPage(t) /\ ~pending
       \/ Operated("detail") /\ detail = t
    /\ automations[t].enabled
    /\ runConfirmation' = t
    /\ detail' = NoTask
    /\ UNCHANGED <<confirmDelete, serverVars, listVars, editorVars, requestVars>>

AskToDelete(t) ==
    /\ \/ Operated("page") /\ OnPage(t)
       \/ Operated("detail") /\ detail = t
    /\ confirmDelete' = t
    /\ UNCHANGED <<detail, runConfirmation, serverVars, listVars, editorVars, requestVars>>

CancelQuestion ==
    /\ \/ Operated("run") /\ runConfirmation' = NoTask /\ UNCHANGED confirmDelete
       \/ Operated("delete") /\ confirmDelete' = NoTask /\ UNCHANGED runConfirmation
    /\ UNCHANGED <<detail, serverVars, listVars, editorVars, requestVars>>

---------------------------------------------------------------------------
PageInit ==
    /\ tasks \in [{Ids[Len(Ids)]} -> Row]
    /\ unused = IdSet \ DOMAIN tasks
    /\ changes = 0
    /\ automations = tasks
    /\ automationPage = 1
    /\ editor = [open |-> FALSE, editing |-> NoTask,
                 deploy |-> FALSE, inline |-> FALSE]
    /\ picker = "open"
    /\ guidance = FALSE
    /\ detail = NoTask /\ runConfirmation = NoTask /\ confirmDelete = NoTask
    /\ pending = FALSE
    /\ mutation = NoRequest
    /\ reloads = {}

EditorStep ==
    \/ ChooseListener \/ ListAnswered \/ DismissALBPermissionError
    \/ \E c \in Configs : OpenNewAutomation(c \in DeployConfigs)
    \/ \E t \in IdSet : EditAutomation(t)
    \/ UseExistingTargets
    \/ CloseEditor
    \/ \E row \in Row : CreateAutomation(row)

ServerStep ==
    \/ ServerAccepts
    \/ \E t \in IdSet, row \in Row : OthersChange(t, row)

AnswerStep ==
    \/ ServerRefuses \/ SaveAnswered \/ SaveFinishes \/ RunAnswered \/ ToggleAnswered \/ DeleteAnswered
    \/ ConnectionLost

ListStep ==
    \/ EventAsksForList
    \/ \E list \in reloads : ListArrives(list)
    \/ \E p \in 1..PageCount : TurnPage(p)

DialogStep ==
    \/ \E t \in IdSet :
          OpenAutomation(t) \/ AskToRun(t) \/ AskToDelete(t) \/ ToggleAutomation(t)
    \/ CloseAutomationDetail
    \/ CancelQuestion
    \/ ConfirmRun
    \/ ConfirmDelete

PageNext == EditorStep \/ ServerStep \/ AnswerStep \/ ListStep \/ DialogStep

(* A request is answered or lost; nobody must press anything.              *)
PageSpec ==
    /\ PageInit
    /\ [][PageNext]_allVars
    /\ WF_allVars(ServerAccepts \/ ServerRefuses)
    /\ WF_allVars(AnswerStep)

---------------------------------------------------------------------------
(* Every variable has a value of its type.                                 *)
PageTypeOK ==
    /\ tasks \in Rows
    /\ unused \in SUBSET (IdSet \ DOMAIN tasks)
    /\ changes \in 0..MaxChanges
    /\ automations \in Rows
    /\ automationPage \in Nat \ {0}
    /\ editor \in [open : BOOLEAN, editing : IdSet \cup {NoTask},
                   deploy : BOOLEAN, inline : BOOLEAN]
    /\ picker \in {"open", "asking", "complete"}
    /\ {guidance, pending} \subseteq BOOLEAN
    /\ {detail, runConfirmation, confirmDelete} \subseteq IdSet \cup {NoTask}
    /\ mutation \in [kind : {"none", "save", "run", "toggle", "delete"},
                     task : IdSet \cup {NoTask},
                     row : Row \cup {NoRow},
                     stage : {"none", "sent", "done", "reload"},
                     list : Rows]
    /\ reloads \in SUBSET Rows

(* While the list has rows, the table shows some, whatever deletions and   *)
(* answers do to the page the user had turned to.                          *)
PageShowsRows == automations # <<>> => RowsOfPage(CurrentPage) # {}

(* A request to run or to switch a task gives the buttons back.            *)
ButtonsComeBack == mutation.kind \in {"run", "toggle"} ~> ~pending
=============================================================================
