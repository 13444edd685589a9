-------------------------- MODULE CertificatePage --------------------------
(***************************************************************************)
(* The certificate page of the console (CertificateList) with the dialog   *)
(* that creates certificates, next to the certificates of the server.      *)
(*                                                                         *)
(* What is selected, and whether it is looked at, edited or validated by   *)
(* hand, stands in the address; the panel of the dialog is mounted when    *)
(* the address, the list and the loaded detail ask for it, and keeps its   *)
(* own state as long as it stays mounted.  The list is a property of the   *)
(* page: a refresh replaces it.                                            *)
(*                                                                         *)
(* A certificate is whether it is being issued; which configuration a form *)
(* saves, and with it which certificates are validated by hand, is left    *)
(* out.  So are search, filters and paging of the list.                    *)
(***************************************************************************)
EXTENDS CertificateWorkflow, Functions

CONSTANTS
    Ids,            \* certificates
    NoId,           \* none
    MaxFetches,     \* bound: requests for a detail under way
    MaxChanges      \* bound: changes of certificates by requests and others

VARIABLES
    certs,          \* server: the certificates
    unused,         \* server: ids not yet given
    changes,        \* bound: changes so far
    stored,         \* server: the certificate of the request is stored
    list,           \* page: the certificates it shows
    refresh,        \* lists under way to the page, the newest one at most
    address,        \* page: what the address selects, and its mode
    detail,         \* page: the certificate whose detail is loaded
    fetches,        \* requests for details under way
    panel,          \* page: the mounted panel
    issueTarget, deleteTarget, \* page: certificates asked about
    pending,        \* page: buttons of changes are disabled
    mutation        \* the request that changes certificates

addressVars == <<address, fetches>>
pageVars == <<list, refresh, detail, addressVars>>
dialogVars == <<issueTarget, deleteTarget>>
requestVars == <<pending, mutation>>
serverVars == <<certs, unused, changes, stored>>
allVars == <<serverVars, pageVars, panel, dialogVars, requestVars, workflowVars>>

Rows == UNION {[S -> BOOLEAN] : S \in SUBSET Ids}   \* is it being issued
Without(rows, c) == Restrict(rows, DOMAIN rows \ {c})
Modes == {"view", "edit", "manual-validation"}
Nowhere == [selected |-> NoId, mode |-> "view"]

CertificatePageAssumption ==
    /\ NoId \notin Ids
    /\ MaxChanges \in Nat
ASSUME CertificatePageAssumption

---------------------------------------------------------------------------
(* Dialogs.                                                                *)
IssueDialogOpen == issueTarget # NoId
DeleteDialogOpen == deleteTarget # NoId
Selected == address.selected \in DOMAIN list
Asked == IssueDialogOpen \/ DeleteDialogOpen

Operated(d) ==
    CASE d = "page"   -> ~modal /\ ~Selected /\ ~Asked
      [] d = "detail" -> Selected /\ ~Asked

---------------------------------------------------------------------------
(* The panel of the detail dialog.  Its steps leave all else alone.        *)

(* Mutant of PanelKind: any loaded detail fills the form.                  *)
PanelKindOfAnyDetail(rows, where, loaded) ==
    IF where.selected \notin DOMAIN rows THEN "none"
    ELSE CASE where.mode = "edit" -> IF loaded # NoId THEN "edit" ELSE "wait"
           [] where.mode = "manual-validation" -> "manual"
           [] where.mode = "view" -> "overview"

PanelKind(rows, where, loaded) ==
    IF where.selected \notin DOMAIN rows THEN "none"
    ELSE CASE where.mode = "edit" -> IF loaded = where.selected THEN "edit" ELSE "wait"
           [] where.mode = "manual-validation" -> "manual"
           [] where.mode = "view" -> "overview"

(* The form of the edit panel is filled from the detail, once.             *)
Mounted(kind, where, loaded) ==
    [kind |-> kind, id |-> IF kind = "none" THEN NoId ELSE where.selected,
     base |-> IF kind = "edit" THEN loaded ELSE NoId,
     stage |-> IF kind \in {"overview", "manual"} THEN "loading" ELSE "shown",
     asked |-> {}]

Render ==
    LET kind == PanelKind(list', address', detail')
    IN panel' = IF kind = panel.kind /\ (kind = "none" \/ panel.id = address'.selected)
                THEN panel ELSE Mounted(kind, address', detail')

(* CertificateOverview: the versions and the relations arrive, or an error.*)
OverviewLoads ==
    /\ panel.kind = "overview" /\ panel.stage = "loading"
    /\ panel' \in {[panel EXCEPT !.stage = s] : s \in {"shown", "failed"}}

(* ManualValidationPanel.  Its records wait for the user, or were approved *)
(* before.  An error takes the place of the panel.                         *)
ChallengeLoads ==
    /\ panel.kind = "manual" /\ panel.stage = "loading"
    /\ panel' \in {[panel EXCEPT !.stage = s] : s \in {"waiting", "approved", "failed"}}

ContinueValidation ==
    /\ Operated("detail")
    /\ panel.stage = "waiting" /\ "continue" \notin panel.asked
    /\ panel' = [panel EXCEPT !.asked = @ \cup {"continue"}]

CheckDNS ==
    /\ Operated("detail")
    /\ panel.stage \in {"waiting", "approved"} /\ "check" \notin panel.asked
    /\ panel' = [panel EXCEPT !.asked = @ \cup {"check"}]

PanelAnswered ==
    /\ \E request \in panel.asked, failed \in BOOLEAN :
          panel' = [panel EXCEPT
                      !.asked = @ \ {request},
                      !.stage = IF failed THEN "failed"
                                ELSE IF request = "continue" /\ @ # "failed" THEN "approved"
                                ELSE @]

---------------------------------------------------------------------------
(* The address.  Selecting another certificate aborts the request for the  *)
(* detail of the one before and asks for its own.                          *)

Go(where) ==
    /\ address' = where
    /\ fetches' = IF where.selected = address.selected THEN fetches
                  ELSE {[f EXCEPT !.active = FALSE] : f \in fetches}
                         \cup {[id |-> c, active |-> TRUE] : c \in {where.selected} \ {NoId}}

(* close() goes back to the address it was rendered with, less what was    *)
(* selected: the dialog that creates certificates was not open in it.      *)
Close ==
    /\ Go(Nowhere)
    /\ modal' = FALSE

OpenMode(c, mode) ==
    /\ Cardinality(fetches) < MaxFetches
    /\ c \in DOMAIN list
    /\ \/ Operated("page") /\ c # address.selected
       \/ Operated("detail") /\ address.selected = c /\ mode # address.mode
    /\ Go([selected |-> c, mode |-> mode])
    /\ UNCHANGED <<list, refresh, detail, dialogVars, requestVars, serverVars, modal>>

CloseDetail ==
    /\ Operated("detail")
    /\ Close
    /\ UNCHANGED <<list, refresh, detail, dialogVars, requestVars, serverVars>>

(* Mutant of Loads: an answer for a certificate left behind counts.        *)
LoadsAlways(f) == detail' = f.id

(* The detail of a certificate that was left for another one is ignored.   *)
Loads(f) == detail' = IF f.active THEN f.id ELSE detail

DetailArrives(f) ==
    /\ fetches' = fetches \ {f}
    /\ Loads(f) \/ UNCHANGED detail
    /\ UNCHANGED <<list, refresh, address, dialogVars, requestVars, serverVars, modal>>

---------------------------------------------------------------------------
(* Requests.                                                               *)

(* base: whose detail the form was filled from, or what was selected.      *)
Request(kind, c, base) == [kind |-> kind, cert |-> c, base |-> base, done |-> FALSE]
Idle == Request("none", NoId, NoId)

Send(request) ==
    /\ ~pending
    /\ pending' = TRUE
    /\ mutation' = request
    /\ UNCHANGED <<pageVars, dialogVars, serverVars, modal>>

SaveEdit ==
    /\ Operated("detail")
    /\ panel.kind = "edit"
    /\ Send(Request("save", address.selected, panel.base))

IssueCertificate ==
    /\ IssueDialogOpen
    /\ Send(Request("issue", issueTarget, NoId))

DeleteCertificate ==
    /\ DeleteDialogOpen
    /\ Send(Request("delete", deleteTarget, address.selected))

(* From the row of the table or from the detail.                           *)
AskToIssue(c) ==
    /\ \/ Operated("page")
       \/ Operated("detail") /\ address = [selected |-> c, mode |-> "view"]
    /\ c \in DOMAIN list /\ ~list[c]
    /\ issueTarget' = c
    /\ UNCHANGED <<pageVars, deleteTarget, requestVars, serverVars, modal>>

AskToDelete(c) ==
    /\ \/ Operated("page")
       \/ Operated("detail") /\ address = [selected |-> c, mode |-> "view"]
    /\ c \in DOMAIN list
    /\ deleteTarget' = c
    /\ UNCHANGED <<pageVars, issueTarget, requestVars, serverVars, modal>>

CancelQuestion ==
    /\ \/ IssueDialogOpen /\ issueTarget' = NoId /\ UNCHANGED deleteTarget
       \/ DeleteDialogOpen /\ deleteTarget' = NoId /\ UNCHANGED issueTarget
    /\ UNCHANGED <<pageVars, requestVars, serverVars, modal>>

---------------------------------------------------------------------------
(* The server.  A certificate that is being issued is not issued again;    *)
(* one that automations use is not deleted.                                *)

Change(rows) ==
    /\ changes < MaxChanges
    /\ changes' = changes + 1
    /\ certs' = rows
    /\ UNCHANGED <<pageVars, dialogVars, modal>>

UpdateRow ==
    /\ mutation.kind = "save"
    /\ Change(certs)

IssueRow ==
    /\ mutation.kind = "issue"
    /\ ~certs[mutation.cert]
    /\ Change([certs EXCEPT ![mutation.cert] = TRUE])

DeleteRow ==
    /\ mutation.kind = "delete"
    /\ Change(Without(certs, mutation.cert))

ServerWorks ==
    /\ ~mutation.done
    /\ mutation.cert \in DOMAIN certs
    /\ UpdateRow \/ IssueRow \/ DeleteRow
    /\ mutation' = [mutation EXCEPT !.done = TRUE]
    /\ UNCHANGED <<pending, unused, stored>>

(* An issuance starts or ends, a certificate is deleted elsewhere.         *)
OthersChange(c) ==
    /\ c \in DOMAIN certs
    /\ \/ Change([certs EXCEPT ![c] = ~@])
       \/ Change(Without(certs, c))
    /\ UNCHANGED <<unused, stored, requestVars>>

---------------------------------------------------------------------------
(* The answers.                                                            *)

Refresh == refresh' = {certs}

(* The certificate is offered for issuance with its new configuration.     *)
SaveAnswered ==
    /\ mutation.kind = "save" /\ mutation.done
    /\ issueTarget' = mutation.cert
    /\ Close
    /\ UNCHANGED deleteTarget

IssueAnswered ==
    /\ mutation.kind = "issue" /\ mutation.done
    /\ issueTarget' = NoId
    /\ UNCHANGED <<addressVars, deleteTarget, modal>>

(* The dialog of the certificate is closed when it was selected at the     *)
(* press.                                                                  *)
DeleteAnswered ==
    /\ mutation.kind = "delete" /\ mutation.done
    /\ deleteTarget' = NoId
    /\ \/ mutation.base = mutation.cert /\ Close
       \/ mutation.base # mutation.cert /\ UNCHANGED <<addressVars, modal>>
    /\ UNCHANGED issueTarget

Answered ==
    /\ SaveAnswered \/ IssueAnswered \/ DeleteAnswered
    /\ Refresh
    /\ pending' = FALSE
    /\ mutation' = Idle
    /\ UNCHANGED <<list, detail, serverVars>>

(* The server refuses, or the connection is lost before or after its work. *)
Failed ==
    /\ mutation # Idle
    /\ pending' = FALSE
    /\ mutation' = Idle
    /\ UNCHANGED <<pageVars, dialogVars, serverVars, modal>>

---------------------------------------------------------------------------
(* The list.  A button, an answer or an event asks for it.                 *)

AskForRefresh ==
    /\ Refresh
    /\ UNCHANGED <<list, addressVars, detail, dialogVars, requestVars, serverVars, modal>>

RefreshArrives ==
    /\ \E rows \in refresh : list' = rows
    /\ refresh' = {}
    /\ UNCHANGED <<addressVars, detail, dialogVars, requestVars, serverVars, modal>>

---------------------------------------------------------------------------
(* The dialog that creates a certificate.                                  *)

OpenCreate ==
    /\ Operated("page")
    /\ modal' = TRUE
    /\ UNCHANGED <<pageVars, panel, dialogVars, requestVars, serverVars, step, form, creating>>

(* A new certificate is queued for issuance at once.                       *)
ServerCreates ==
    /\ creating # NoForm /\ ~stored
    /\ ServerAccepts(creating)
    /\ stored' = TRUE
    /\ \E c \in unused :
          /\ Change([d \in DOMAIN certs \cup {c} |->
                        IF d = c THEN TRUE ELSE certs[d]])
          /\ unused' = unused \ {c}
    /\ UNCHANGED <<panel, requestVars, step, form, creating>>

(* The address at the press selected nothing.                              *)
CreateAnswered ==
    /\ creating # NoForm /\ stored
    /\ stored' = FALSE
    /\ Created
    /\ Go(Nowhere)
    /\ Refresh
    /\ UNCHANGED <<list, detail, dialogVars, requestVars, certs, unused, changes>>

(* The user works in the dialog, or the answer arrives that nothing was    *)
(* created, whatever is open.                                              *)
Workflow ==
    /\ (WorkflowStep /\ ~Asked) \/ NotCreated
    /\ stored' = (stored /\ creating' # NoForm)
    /\ UNCHANGED <<pageVars, panel, dialogVars, requestVars, certs, unused, changes>>

---------------------------------------------------------------------------
PageInit ==
    /\ unused \in SUBSET Ids /\ Cardinality(unused) = 1
    /\ certs \in [Ids \ unused -> BOOLEAN]
    /\ changes = 0
    /\ stored = FALSE
    /\ list = certs
    /\ refresh = {}
    /\ address = Nowhere
    /\ detail = NoId
    /\ fetches = {}
    /\ panel = Mounted("none", Nowhere, NoId)
    /\ issueTarget = NoId /\ deleteTarget = NoId
    /\ pending = FALSE
    /\ mutation = Idle
    /\ WorkflowInit

PanelStep ==
    /\ OverviewLoads \/ ChallengeLoads \/ ContinueValidation \/ CheckDNS \/ PanelAnswered
    /\ UNCHANGED <<pageVars, dialogVars, requestVars, serverVars, workflowVars>>

PageStep ==
    /\ \/ \E c \in Ids :
             \/ \E mode \in Modes : OpenMode(c, mode)
             \/ AskToIssue(c) \/ AskToDelete(c)
             \/ OthersChange(c)
       \/ CloseDetail
       \/ \E f \in fetches : DetailArrives(f)
       \/ SaveEdit \/ IssueCertificate \/ DeleteCertificate
       \/ CancelQuestion
       \/ ServerWorks
       \/ Answered \/ Failed
       \/ AskForRefresh \/ RefreshArrives
    /\ Render
    /\ UNCHANGED <<step, form, creating>>

PageNext ==
    \/ PageStep
    \/ PanelStep
    \/ OpenCreate
    \/ ServerCreates
    \/ CreateAnswered /\ Render
    \/ Workflow

PageSpec == PageInit /\ [][PageNext]_allVars

---------------------------------------------------------------------------
(* Every variable has a value of its type.                                 *)
PageTypeOK ==
    /\ {certs, list} \cup refresh \subseteq Rows
    /\ unused \in SUBSET (Ids \ DOMAIN certs)
    /\ changes \in 0..MaxChanges
    /\ stored \in BOOLEAN
    /\ address \in [selected : Ids \cup {NoId}, mode : Modes]
    /\ {detail, issueTarget, deleteTarget} \subseteq Ids \cup {NoId}
    /\ fetches \in SUBSET [id : Ids, active : BOOLEAN]
    /\ panel \in [kind : {"none", "wait", "edit", "manual", "overview"}, id : Ids \cup {NoId},
                  base : Ids \cup {NoId}, asked : SUBSET {"continue", "check"},
                  stage : {"loading", "shown", "waiting", "approved", "failed"}]
    /\ pending \in BOOLEAN
    /\ mutation \in [kind : {"none", "save", "issue", "delete"}, cert : Ids \cup {NoId},
                     base : Ids \cup {NoId}, done : BOOLEAN]
    /\ WorkflowTypeOK

(* A saved form is sent to the certificate whose detail filled it, however *)
(* late details arrive after the user went from one to another.            *)
SavedOverItself == mutation.kind = "save" => mutation.base = mutation.cert

(* The form a user fills stays until the user or a saved answer leaves it: *)
(* no late detail takes the edit panel away.                               *)
EditIsKept ==
    [][panel.kind = "edit" /\ address' = address /\ panel.id \in DOMAIN list'
       => panel' = panel]_allVars
=============================================================================
