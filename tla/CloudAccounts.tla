--------------------------- MODULE CloudAccounts ---------------------------
(***************************************************************************)
(* Cloud credentials, DNS accounts and ACME accounts in the control plane, *)
(* and the handlers that verify, change and delete them.                   *)
(*                                                                         *)
(* A handler reads, asks the cloud or the certificate authority, and       *)
(* writes, each in a statement of its own: the handlers of other requests  *)
(* run in between.  A call is a request with the stage its handler is in.  *)
(* Access keys never change, so a credential is its status.  Names, keys,  *)
(* versions, owners and the events of a verification are left out.         *)
(***************************************************************************)
EXTENDS Naturals, FiniteSets

CONSTANTS
    Creds, DNSAccounts, ACMEAccounts,  \* ids of the three tables
    NoId,                              \* none
    Zones,                             \* DNS zones
    Managed,                           \* the zones the account of a credential manages
    Callers,                           \* clients, each with one request at a time
    MaxCalls                           \* bound: requests sent, lists of zones included

VARIABLES
    creds,          \* table of cloud credentials: their status
    dns,            \* table of DNS accounts
    acme,           \* table of ACME accounts: their status
    calls,          \* what each client is waiting for
    sent            \* bound: requests sent so far

tableVars == <<creds, dns, acme>>
serverVars == <<tableVars, calls, sent>>

CloudAccountsAssumption ==
    /\ Managed \in [Creds -> SUBSET Zones]
    /\ NoId \notin Creds \cup DNSAccounts \cup ACMEAccounts
    /\ MaxCalls \in Nat
ASSUME CloudAccountsAssumption

(* "none": not created yet.                                                *)
Missing == {"none", "deleted"}
CredStatus == Missing \cup {"active", "invalid", "disabled"}
Account == [status : CredStatus, cred : Creds \cup {NoId}, zones : SUBSET Zones]
NoAccount == [status |-> "none", cred |-> NoId, zones |-> {}]
ACMEStatus == Missing \cup {"active", "error"}

Uses(a, c) == dns[a].status \notin Missing /\ dns[a].cred = c

(* The stages between "sent" and an answer, "done" or "refused".           *)
Stages == {"sent", "read", "good", "bad", "enabled", "cascade", "usable", "unusable",
           "checked", "selected", "unreferenced", "done", "refused"}
Call == [table : {"cloud", "dns", "acme"}, stage : Stages,
         op : {"create", "save", "verify", "enable", "disable", "delete"},
         id : Creds \cup DNSAccounts \cup ACMEAccounts \cup {NoId},
         cred : Creds \cup {NoId}, zones : SUBSET Zones]
Request(table, op, id, cred, zones) ==
    [table |-> table, op |-> op, stage |-> "sent", id |-> id, cred |-> cred, zones |-> zones]
Idle == [Request("cloud", "verify", NoId, NoId, {}) EXCEPT !.stage = "done"]

Is(k, table, ops, stage) ==
    calls[k].table = table /\ calls[k].op \in ops /\ calls[k].stage = stage

Enter(k, stage) == calls' = [calls EXCEPT ![k].stage = stage]
Answer(k, done) == Enter(k, IF done THEN "done" ELSE "refused")

Send(k, request) ==
    /\ calls[k] = Idle
    /\ sent < MaxCalls
    /\ sent' = sent + 1
    /\ calls' = [calls EXCEPT ![k] = request]

---------------------------------------------------------------------------
(* Statements of the store.  A row that is missing is left alone.          *)

Marked(status, new) == IF status \in Missing THEN status ELSE new

(* Mutant of RecordCloudCredentialVerification: no word of "disabled".     *)
RecordVerificationOfDisabled(c, valid) ==
    creds' = [creds EXCEPT ![c] = Marked(@, IF valid THEN "active" ELSE "invalid")]

RecordCloudCredentialVerification(c, valid) ==
    creds' = [creds EXCEPT ![c] = IF @ = "disabled" THEN @
                                  ELSE Marked(@, IF valid THEN "active" ELSE "invalid")]

SetCloudCredentialStatus(c, status) ==
    creds' = [creds EXCEPT ![c] = Marked(@, status)]

SetDNSAccountVerification(a, status) ==
    dns' = [dns EXCEPT ![a].status = Marked(@, status)]

InvalidateAccountsOf(c) ==
    dns' = [a \in DNSAccounts |-> IF Uses(a, c) THEN [dns[a] EXCEPT !.status = "invalid"]
                                 ELSE dns[a]]

SetACMEAccountVerification(p, status) ==
    acme' = [acme EXCEPT ![p] = Marked(@, status)]

---------------------------------------------------------------------------
(* Cloud credentials.                                                      *)

CredOf(k) == calls[k].cred
CredExists(k) == creds[CredOf(k)] \notin Missing

(* The keys are verified before the row is inserted.                       *)
CreateCloudCredential(k) ==
    /\ Is(k, "cloud", {"create"}, "sent")
    /\ \/ \E c \in Creds :
             /\ creds[c] = "none"
             /\ creds' = [creds EXCEPT ![c] = "active"]
             /\ Answer(k, TRUE)
       \/ Answer(k, FALSE) /\ UNCHANGED creds
    /\ UNCHANGED <<dns, acme>>

(* A name is saved.  A request with keys, which no form sends, would be    *)
(* refused and change nothing.                                             *)
UpdateCloudCredential(k) ==
    /\ Is(k, "cloud", {"save"}, "sent")
    /\ Answer(k, CredExists(k))
    /\ UNCHANGED tableVars

(* The credential is loaded, whatever its status, and the cloud asked.     *)
LoadCloudProviderCredentials(k) ==
    /\ Is(k, "cloud", {"verify", "enable"}, "sent")
    /\ \/ CredExists(k) /\ \E verdict \in {"good", "bad"} : Enter(k, verdict)
       \/ ~CredExists(k) /\ Answer(k, FALSE)
    /\ UNCHANGED tableVars

RecordGoodCredential(k) ==
    /\ Is(k, "cloud", {"verify"}, "good") \/ Is(k, "cloud", {"enable"}, "enabled")
    /\ RecordCloudCredentialVerification(CredOf(k), TRUE)
    /\ Answer(k, CredExists(k) \/ calls[k].op = "enable")
    /\ UNCHANGED <<dns, acme>>

(* A handler that verifies a DNS account marks it when its credential is   *)
(* of no use, the others refuse.                                           *)
GiveUp(k) == IF calls[k].table = "dns" /\ calls[k].op \in {"verify", "enable"}
             THEN "unusable" ELSE "refused"

(* Any handler that asked the cloud records that it said no, and then      *)
(* invalidates the DNS accounts of the credential.                         *)
RecordBadCredential(k) ==
    /\ calls[k].stage = "bad" /\ calls[k].table # "acme"
    /\ RecordCloudCredentialVerification(CredOf(k), FALSE)
    /\ Enter(k, IF CredExists(k) THEN "cascade" ELSE GiveUp(k))
    /\ UNCHANGED <<dns, acme>>

InvalidateDNSAccounts(k) ==
    /\ calls[k].stage = "cascade"
    /\ InvalidateAccountsOf(CredOf(k))
    /\ Enter(k, IF calls[k].op = "disable" THEN "done" ELSE GiveUp(k))
    /\ UNCHANGED <<creds, acme>>

EnableCloudCredential(k) ==
    /\ Is(k, "cloud", {"enable"}, "good")
    /\ SetCloudCredentialStatus(CredOf(k), "active")
    /\ Enter(k, IF CredExists(k) THEN "enabled" ELSE "refused")
    /\ UNCHANGED <<dns, acme>>

DisableCloudCredential(k) ==
    /\ Is(k, "cloud", {"disable"}, "sent")
    /\ SetCloudCredentialStatus(CredOf(k), "disabled")
    /\ Enter(k, IF CredExists(k) THEN "cascade" ELSE "refused")
    /\ UNCHANGED <<dns, acme>>

(* Deployment targets and automations are references too.                  *)
CheckReferences(k) ==
    /\ calls[k].op = "delete" /\ calls[k].stage = "sent"
    /\ \/ /\ calls[k].table = "cloud" => \A a \in DNSAccounts : ~Uses(a, calls[k].id)
          /\ Enter(k, "unreferenced")
       \/ Answer(k, FALSE)
    /\ UNCHANGED tableVars

DeleteCloudCredential(k) ==
    /\ Is(k, "cloud", {"delete"}, "unreferenced")
    /\ creds' = [creds EXCEPT ![CredOf(k)] = Marked(@, "deleted")]
    /\ Answer(k, CredExists(k))
    /\ UNCHANGED <<dns, acme>>

---------------------------------------------------------------------------
(* DNS accounts.                                                           *)

(* The credential and the zones of the account as they are now are what is *)
(* verified.                                                               *)
ReadDNSAccount(k) ==
    /\ Is(k, "dns", {"verify", "enable"}, "sent")
    /\ LET account == dns[calls[k].id]
       IN IF account.status \in Missing THEN Answer(k, FALSE)
          ELSE calls' = [calls EXCEPT ![k].stage = "read", ![k].cred = account.cred,
                                      ![k].zones = account.zones]
    /\ UNCHANGED tableVars

DNSProviderForID(k) ==
    /\ \/ Is(k, "dns", {"verify", "enable"}, "read")
       \/ Is(k, "dns", {"create", "save"}, "sent")
    /\ IF creds[CredOf(k)] = "active" /\ calls[k].zones # {}
       THEN \E verdict \in {"good", "bad"} : Enter(k, verdict)
       ELSE Enter(k, GiveUp(k))
    /\ UNCHANGED tableVars

RecordUsableCredential(k) ==
    /\ calls[k].table = "dns" /\ calls[k].stage = "good"
    /\ RecordCloudCredentialVerification(CredOf(k), TRUE)
    /\ Enter(k, "usable")
    /\ UNCHANGED <<dns, acme>>

(* The zones must be managed by the credential, and be accessible with it. *)
VerifyDNSAccount(k) ==
    /\ Is(k, "dns", {"verify", "enable"}, "usable")
    /\ \E accessible \in BOOLEAN :
          LET good == accessible /\ calls[k].zones \subseteq Managed[CredOf(k)]
          IN /\ SetDNSAccountVerification(calls[k].id, IF good THEN "active" ELSE "invalid")
             /\ Answer(k, good /\ dns[calls[k].id].status \notin Missing)
    /\ UNCHANGED <<creds, acme>>

RejectDNSAccount(k) ==
    /\ calls[k].stage = "unusable"
    /\ SetDNSAccountVerification(calls[k].id, "invalid")
    /\ Answer(k, FALSE)
    /\ UNCHANGED <<creds, acme>>

DisableDNSAccount(k) ==
    /\ Is(k, "dns", {"disable"}, "sent")
    /\ SetDNSAccountVerification(calls[k].id, "disabled")
    /\ Answer(k, dns[calls[k].id].status \notin Missing)
    /\ UNCHANGED <<creds, acme>>

(* Mutant of VerifyZones: what the page offered is taken to be managed.    *)
VerifyZonesOffered(k) ==
    /\ Is(k, "dns", {"create", "save"}, "usable")
    /\ \/ Enter(k, "checked")
       \/ Answer(k, FALSE)
    /\ UNCHANGED tableVars

VerifyZones(k) ==
    /\ Is(k, "dns", {"create", "save"}, "usable")
    /\ \/ calls[k].zones \subseteq Managed[CredOf(k)] /\ Enter(k, "checked")
       \/ Answer(k, FALSE)
    /\ UNCHANGED tableVars

(* The credential must still be active; the row is written afterwards.     *)
SelectCurrentVersion(k) ==
    /\ Is(k, "dns", {"create", "save"}, "checked")
    /\ Enter(k, IF creds[CredOf(k)] = "active" THEN "selected" ELSE "refused")
    /\ UNCHANGED tableVars

SavedAccount(k) == [status |-> "active", cred |-> CredOf(k), zones |-> calls[k].zones]

CreateDNSAccount(k) ==
    /\ Is(k, "dns", {"create"}, "selected")
    /\ \E a \in DNSAccounts :
          /\ dns[a].status = "none"
          /\ dns' = [dns EXCEPT ![a] = SavedAccount(k)]
    /\ Answer(k, TRUE)
    /\ UNCHANGED <<creds, acme>>

UpdateDNSAccount(k) ==
    /\ Is(k, "dns", {"save"}, "selected")
    /\ LET a == calls[k].id
           exists == dns[a].status \notin Missing
       IN /\ dns' = IF exists THEN [dns EXCEPT ![a] = SavedAccount(k)] ELSE dns
          /\ Answer(k, exists)
    /\ UNCHANGED <<creds, acme>>

DeleteDNSAccount(k) ==
    /\ Is(k, "dns", {"delete"}, "unreferenced")
    /\ dns' = [dns EXCEPT ![calls[k].id].status = Marked(@, "deleted")]
    /\ Answer(k, dns[calls[k].id].status \notin Missing)
    /\ UNCHANGED <<creds, acme>>

---------------------------------------------------------------------------
(* ACME accounts.                                                          *)

ACMEExists(k) == acme[calls[k].id] \notin Missing

CreateACMEAccount(k) ==
    /\ Is(k, "acme", {"create"}, "sent")
    /\ \/ \E p \in ACMEAccounts :
             /\ acme[p] = "none"
             /\ acme' = [acme EXCEPT ![p] = "active"]
             /\ Answer(k, TRUE)
       \/ Answer(k, FALSE) /\ UNCHANGED acme
    /\ UNCHANGED <<creds, dns>>

(* The account is loaded and the authority asked to know its key.          *)
VerifyACMEAccountKey(k) ==
    /\ Is(k, "acme", {"verify", "save"}, "sent")
    /\ \/ ACMEExists(k) /\ \E verdict \in {"good", "bad"} : Enter(k, verdict)
       \/ ~ACMEExists(k) /\ Answer(k, FALSE)
    /\ UNCHANGED tableVars

(* Saving writes the account with the verdict, verifying the verdict only. *)
UpdateACMEAccount(k) ==
    /\ \/ /\ Is(k, "acme", {"verify", "save"}, "good")
          /\ SetACMEAccountVerification(calls[k].id, "active")
          /\ Answer(k, ACMEExists(k))
       \/ /\ Is(k, "acme", {"verify", "save"}, "bad")
          /\ SetACMEAccountVerification(calls[k].id, "error")
          /\ Answer(k, FALSE)
    /\ UNCHANGED <<creds, dns>>

DeleteACMEAccount(k) ==
    /\ Is(k, "acme", {"delete"}, "unreferenced")
    /\ acme' = [acme EXCEPT ![calls[k].id] = Marked(@, "deleted")]
    /\ Answer(k, ACMEExists(k))
    /\ UNCHANGED <<creds, dns>>

---------------------------------------------------------------------------
ServerStep ==
    /\ \E k \in Callers :
          \/ CreateCloudCredential(k) \/ UpdateCloudCredential(k)
          \/ LoadCloudProviderCredentials(k)
          \/ RecordGoodCredential(k) \/ RecordBadCredential(k) \/ InvalidateDNSAccounts(k)
          \/ EnableCloudCredential(k) \/ DisableCloudCredential(k)
          \/ CheckReferences(k) \/ DeleteCloudCredential(k)
          \/ ReadDNSAccount(k) \/ DNSProviderForID(k) \/ RecordUsableCredential(k)
          \/ VerifyDNSAccount(k) \/ RejectDNSAccount(k) \/ DisableDNSAccount(k)
          \/ VerifyZones(k) \/ SelectCurrentVersion(k)
          \/ CreateDNSAccount(k) \/ UpdateDNSAccount(k) \/ DeleteDNSAccount(k)
          \/ CreateACMEAccount(k) \/ VerifyACMEAccountKey(k)
          \/ UpdateACMEAccount(k) \/ DeleteACMEAccount(k)
    /\ UNCHANGED sent

CloudAccountsTypeOK ==
    /\ creds \in [Creds -> CredStatus]
    /\ dns \in [DNSAccounts -> Account]
    /\ acme \in [ACMEAccounts -> ACMEStatus]
    /\ calls \in [Callers -> Call]
    /\ sent \in 0..MaxCalls

(* A credential that was disabled on purpose stays so until the request to *)
(* enable it takes effect, whatever verification of it, or of an account   *)
(* that uses it, was under way meanwhile.                                  *)
DisabledStays ==
    [][\A c \in Creds : creds[c] = "disabled" /\ creds'[c] # "disabled" =>
          \/ creds'[c] = "deleted"
          \/ \E k \in Callers : EnableCloudCredential(k) /\ CredOf(k) = c]_serverVars

(* The zones an account may use are zones its credential manages, whenever *)
(* they are written, though the form may send others: those of the row it  *)
(* was opened with, when the list of zones did not come.                   *)
SavedZonesAreManaged ==
    [][\A a \in DNSAccounts :
          [dns[a] EXCEPT !.status = "none"] # [dns'[a] EXCEPT !.status = "none"]
             => dns'[a].zones \subseteq Managed[dns'[a].cred]]_serverVars
=============================================================================
