--------------------------- MODULE ResourcePages ---------------------------
(***************************************************************************)
(* The pages of the console for cloud credentials, ACME accounts and DNS   *)
(* accounts, next to the control plane that keeps them (CloudAccounts).    *)
(*                                                                         *)
(* The three managers have one shape: a table, a form, a question before a *)
(* row is deleted, details, and one flag that disables the buttons of      *)
(* every request while one is under way; dialogs can be closed and others  *)
(* opened meanwhile.  The form of a DNS account picks a credential, loads  *)
(* its zones and picks some of them.  The table is a property of the page: *)
(* a refresh, asked for by a button, an answer or an event, replaces it in *)
(* one step.  Messages, search and paging are left out.                    *)
(***************************************************************************)
EXTENDS CloudAccounts

CONSTANTS
    Page, Others    \* the callers: this page, and everybody else

VARIABLES
    section,        \* which of the three managers is shown
    table,          \* the rows it shows
    dialog,         \* the dialog that is open, and its row
    form,           \* the zone picker of the open form
    fetches,        \* lists of zones under way
    pending         \* the buttons of requests are disabled

pageVars == <<table, dialog, form, fetches, pending>>
vars == <<serverVars, section, pageVars>>

Sections == {"cloud", "acme", "dns"}
NoDialog == [kind |-> "none", id |-> NoId]
NoPicker == [own |-> NoId, cred |-> NoId, offered |-> {}, selected |-> {},
             loading |-> FALSE, loaded |-> FALSE]

ResourcePagesAssumption == Page # Others /\ Callers = {Page, Others}
ASSUME ResourcePagesAssumption

Ids(s) == CASE s = "cloud" -> Creds [] s = "acme" -> ACMEAccounts [] s = "dns" -> DNSAccounts

(* The rows of a section, as the server lists them.                        *)
Row(s, id) == CASE s = "cloud" -> [status |-> creds[id], cred |-> id, zones |-> {}]
                [] s = "acme"  -> [status |-> acme[id], cred |-> NoId, zones |-> {}]
                [] s = "dns"   -> dns[id]
(* Mutant of Rows: deleted rows are listed.                                *)
RowsEverCreated(s) == {id \in Ids(s) : Row(s, id).status # "none"}

Rows(s) == {id \in Ids(s) : Row(s, id).status \notin Missing}
Listed(s) == [id \in Rows(s) |-> Row(s, id)]

---------------------------------------------------------------------------
(* Dialogs.  The table is used while none is open.                         *)

TableIsOperated == dialog.kind = "none"
FormOpen == dialog.kind = "form"
Editing == FormOpen /\ dialog.id # NoId
DeleteModalOpen == dialog.kind = "delete"
DetailsModalOpen == dialog.kind = "details"

Abandoned == {[f EXCEPT !.active = FALSE] : f \in fetches}
Fetch(c) ==
    /\ fetches' = Abandoned \cup {[cred |-> c, active |-> TRUE]}
    /\ sent < MaxCalls
    /\ sent' = sent + 1

Unmounted == form' = NoPicker /\ fetches' = Abandoned

OpenDialog(kind, id) ==
    /\ TableIsOperated
    /\ dialog' = [kind |-> kind, id |-> id]
    /\ UNCHANGED <<table, pending, tableVars, calls>>

OpenCreate ==
    /\ OpenDialog("form", NoId)
    /\ UNCHANGED <<form, fetches, sent>>

(* The form of a DNS account starts with the zones of the row, and asks    *)
(* for those of its credential.                                            *)
OpenEdit(id) ==
    /\ OpenDialog("form", id)
    /\ IF section = "dns"
       THEN /\ form' = [NoPicker EXCEPT !.own = table[id].cred, !.cred = table[id].cred,
                                        !.selected = table[id].zones, !.loading = TRUE]
            /\ Fetch(table[id].cred)
       ELSE UNCHANGED <<form, fetches, sent>>

AskToDelete(id) ==
    /\ OpenDialog("delete", id)
    /\ UNCHANGED <<form, fetches, sent>>

ShowDetails(id) ==
    /\ OpenDialog("details", id)
    /\ UNCHANGED <<form, fetches, sent>>

CloseForm ==
    /\ dialog' = NoDialog
    /\ Unmounted

CloseDialog ==
    /\ ~TableIsOperated
    /\ CloseForm
    /\ UNCHANGED <<table, pending, serverVars>>

---------------------------------------------------------------------------
(* The zone picker of the form of a DNS account.                           *)

(* Credentials are offered as they are now, not as the page last saw them. *)
PickerShown == FormOpen /\ section = "dns"
Selectable(c) == creds[c] = "active" \/ c = form.own
Chosen(c) == [NoPicker EXCEPT !.own = form.own, !.cred = c, !.loading = TRUE]
ToolbarShown == ~form.loading /\ form.offered # {}

Picks(f) ==
    /\ PickerShown
    /\ form' = f
    /\ UNCHANGED <<table, dialog, pending, tableVars, calls>>

ChangeCredential(c) ==
    /\ Selectable(c) /\ c # form.cred
    /\ Picks(Chosen(c))
    /\ Fetch(c)

(* The same credential again: the effect that asks for its zones does not  *)
(* run, and the form stays as it is until the credential changes.          *)
RefreshZones ==
    /\ ToolbarShown
    /\ Picks(Chosen(form.cred))
    /\ UNCHANGED <<fetches, sent>>

SelectAllZones ==
    /\ ToolbarShown
    /\ Picks([form EXCEPT !.selected = @ \cup form.offered])
    /\ UNCHANGED <<fetches, sent>>

ClearVisibleZones ==
    /\ ToolbarShown
    /\ Picks([form EXCEPT !.selected = @ \ form.offered])
    /\ UNCHANGED <<fetches, sent>>

ToggleZone(z) ==
    /\ z \in form.offered
    /\ Picks([form EXCEPT !.selected = IF z \in @ THEN @ \ {z} ELSE @ \cup {z}])
    /\ UNCHANGED <<fetches, sent>>

(* Mutant of Shown: the answer fills the form that is open.                *)
ShownAnyhow(f) == form' = [form EXCEPT
    !.offered = Managed[f.cred], !.selected = @ \cap Managed[f.cred],
    !.loading = FALSE, !.loaded = TRUE]

(* Zones the credential no longer manages are deselected.                  *)
Shown(f) == form' = IF ~f.active THEN form
    ELSE [form EXCEPT !.offered = Managed[f.cred], !.selected = @ \cap Managed[f.cred],
                      !.loading = FALSE, !.loaded = TRUE]

(* The handler asks the cloud about the credential, and records what it    *)
(* says; here that is one step with the answer.                            *)
ZonesArrive(f) ==
    /\ creds[f.cred] = "active"
    /\ RecordCloudCredentialVerification(f.cred, TRUE)
    /\ Shown(f)
    /\ fetches' = fetches \ {f}
    /\ UNCHANGED <<table, dialog, pending, dns, acme, calls, sent>>

(* The credential is of no use, or another error, or no connection.        *)
ZonesFail(f) ==
    /\ \/ /\ creds[f.cred] = "active"
          /\ RecordCloudCredentialVerification(f.cred, FALSE)
          /\ InvalidateAccountsOf(f.cred)
       \/ UNCHANGED <<creds, dns>>
    /\ form' = IF f.active THEN [form EXCEPT !.loading = FALSE] ELSE form
    /\ fetches' = fetches \ {f}
    /\ UNCHANGED <<table, dialog, pending, acme, calls, sent>>

---------------------------------------------------------------------------
(* Requests.                                                               *)

Start(op, id, cred, zones) ==
    /\ ~pending
    /\ pending' = TRUE
    /\ Send(Page, Request(section, op, id, cred, zones))
    /\ UNCHANGED <<table, dialog, form, fetches, tableVars>>

Target == dialog.id
SaveOp == IF Editing THEN "save" ELSE "create"

(* The form has fields for the keys of a new credential only.              *)
SaveCredential ==
    /\ FormOpen /\ section = "cloud"
    /\ Start(SaveOp, Target, Target, {})

SaveACMEAccount ==
    /\ FormOpen /\ section = "acme"
    /\ Start(SaveOp, Target, NoId, {})

SaveDNSAccount ==
    /\ PickerShown /\ ~form.loading
    /\ form.cred # NoId /\ form.selected # {}
    /\ Start(SaveOp, Target, form.cred, form.selected)

CredOfRow(id) == IF section = "cloud" THEN id ELSE NoId

ConfirmDelete ==
    /\ DeleteModalOpen
    /\ Start("delete", Target, CredOfRow(Target), {})

Verify(id) ==
    /\ TableIsOperated
    /\ Start("verify", id, CredOfRow(id), {})

(* ACME accounts have no such button.                                      *)
Toggle(id) ==
    /\ TableIsOperated /\ section # "acme"
    /\ Start(IF table[id].status = "disabled" THEN "enable" ELSE "disable", id, CredOfRow(id), {})

(* The dialog that is open when the answer comes is closed, whichever row  *)
(* it is about.                                                            *)
Answered ==
    /\ calls[Page] # Idle /\ calls[Page].stage = "done"
    /\ IF \/ calls[Page].op \in {"create", "save"} /\ FormOpen
          \/ calls[Page].op = "delete" /\ DeleteModalOpen
       THEN CloseForm
       ELSE UNCHANGED <<dialog, form, fetches>>
    /\ pending' = FALSE
    /\ calls' = [calls EXCEPT ![Page] = Idle]
    /\ UNCHANGED <<table, tableVars, sent>>

(* The server refuses, or the connection is lost, and the handler stops    *)
(* where it is.                                                            *)
Failed ==
    /\ calls[Page] # Idle
    /\ pending' = FALSE
    /\ calls' = [calls EXCEPT ![Page] = Idle]
    /\ UNCHANGED <<table, dialog, form, fetches, tableVars, sent>>

Refresh ==
    /\ table' = Listed(section)
    /\ UNCHANGED <<dialog, form, fetches, pending, serverVars>>

---------------------------------------------------------------------------
(* Everybody else, from other pages and other machines.                    *)

OthersSend ==
    /\ \/ /\ section # "acme"
          /\ \E c \in Creds, op \in {"verify", "enable", "disable", "delete"} :
                Send(Others, Request("cloud", op, c, c, {}))
       \/ /\ section = "dns"
          /\ \E a \in DNSAccounts :
                \/ \E op \in {"verify", "disable", "delete"} :
                      Send(Others, Request("dns", op, a, NoId, {}))
                \/ \E c \in Creds, z \in Zones :
                      Send(Others, Request("dns", "save", a, c, {z}))
       \/ /\ section = "acme"
          /\ \E p \in ACMEAccounts, op \in {"save", "verify", "delete"} :
                Send(Others, Request("acme", op, p, NoId, {}))
    /\ UNCHANGED <<pageVars, tableVars>>

OthersAnswered ==
    /\ calls[Others] # Idle /\ calls[Others].stage \in {"done", "refused"}
    /\ calls' = [calls EXCEPT ![Others] = Idle]
    /\ UNCHANGED <<pageVars, tableVars, sent>>

---------------------------------------------------------------------------
Init ==
    /\ section \in Sections
    /\ creds \in [Creds -> CredStatus \ {"deleted"}]
    /\ dns \in [DNSAccounts -> {NoAccount} \cup
                  {a \in Account : /\ a.status \notin Missing /\ a.zones # {}
                                   /\ a.cred # NoId /\ creds[a.cred] # "none"}]
    /\ acme \in [ACMEAccounts -> ACMEStatus \ {"deleted"}]
    /\ calls = [k \in Callers |-> Idle]
    /\ sent = 0
    /\ table = Listed(section)
    /\ dialog = NoDialog
    /\ form = NoPicker
    /\ fetches = {}
    /\ pending = FALSE

DialogStep ==
    \/ OpenCreate \/ CloseDialog
    \/ \E id \in DOMAIN table : OpenEdit(id) \/ AskToDelete(id) \/ ShowDetails(id)

PickerStep ==
    \/ \E c \in Creds : ChangeCredential(c)
    \/ RefreshZones \/ SelectAllZones \/ ClearVisibleZones
    \/ \E z \in Zones : ToggleZone(z)
    \/ \E f \in fetches : ZonesArrive(f) \/ ZonesFail(f)

RequestStep ==
    \/ SaveCredential \/ SaveACMEAccount \/ SaveDNSAccount
    \/ ConfirmDelete
    \/ \E id \in DOMAIN table : Verify(id) \/ Toggle(id)
    \/ Answered \/ Failed \/ Refresh

Next ==
    /\ \/ DialogStep \/ PickerStep \/ RequestStep
       \/ OthersSend \/ OthersAnswered
       \/ ServerStep /\ UNCHANGED pageVars
    /\ UNCHANGED section

Spec == Init /\ [][Next]_vars

---------------------------------------------------------------------------
(* Every variable has a value of its type.                                 *)
TypeOK ==
    /\ CloudAccountsTypeOK
    /\ section \in Sections
    /\ DOMAIN table \subseteq Ids(section)
    /\ \A id \in DOMAIN table : table[id].status \notin Missing
    /\ dialog \in [kind : {"none", "form", "delete", "details"}, id : Ids(section) \cup {NoId}]
    /\ form \in [own : Creds \cup {NoId}, cred : Creds \cup {NoId}, offered : SUBSET Zones,
                 selected : SUBSET Zones, loading : BOOLEAN, loaded : BOOLEAN]
    /\ fetches \subseteq [cred : Creds, active : BOOLEAN]
    /\ pending = (calls[Page] # Idle)

(* The zones a form offers, and once they came also the zones it has       *)
(* selected, are those of the credential it shows, in whatever order the   *)
(* lists of the credentials picked one after the other come in.            *)
ZonesBelong ==
    PickerShown /\ form.loaded /\ ~form.loading =>
        /\ form.offered = Managed[form.cred]
        /\ form.selected \subseteq form.offered
=============================================================================
