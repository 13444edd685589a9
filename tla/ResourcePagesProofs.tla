------------------------ MODULE ResourcePagesProofs ------------------------
(***************************************************************************)
(* Proofs about ResourcePages, for any credentials, accounts and zones and *)
(* any number of requests: types, the zones of a form, the zones that are  *)
(* saved, and that a disabled credential stays disabled.                   *)
(***************************************************************************)
EXTENDS ResourcePages, TLAPS

(* What a call carries: its stage has checked the zones it is to save, and *)
(* the page's buttons are disabled exactly while the page has one.         *)
CallsInv ==
    /\ calls \in [Callers -> Call]
    /\ \A k \in Callers :
          /\ calls[k].stage \in {"checked", "selected"} =>
                calls[k].zones \subseteq Managed[calls[k].cred]
          /\ calls[k].table = "dns" /\ calls[k].op \in {"create", "save"} =>
                calls[k].cred \in Creds
          /\ calls[k].table = "dns" /\ calls[k].op # "create" => calls[k].id \in DNSAccounts
    /\ pending \in BOOLEAN
    /\ IF pending THEN calls[Page].op = "create" \/ calls[Page].id # NoId
       ELSE calls[Page] = Idle

(* A DNS account that exists has a credential.                             *)
CredsTyped == creds \in [Creds -> CredStatus]
HasCred(account) == account.status \notin Missing => account.cred \in Creds
DNSTyped == dns \in [DNSAccounts -> Account] /\ \A a \in DNSAccounts : HasCred(dns[a])
ACMETyped == acme \in [ACMEAccounts -> ACMEStatus]
TablesInv == CredsTyped /\ DNSTyped /\ ACMETyped

DialogInv ==
    /\ section \in Sections
    /\ dialog \in [kind : {"none", "form", "delete", "details"}, id : Ids(section) \cup {NoId}]
    /\ dialog.kind = "delete" => dialog.id # NoId

RowsInv ==
    /\ DOMAIN table \subseteq Ids(section)
    /\ \A id \in DOMAIN table :
          /\ table[id].status \notin Missing
          /\ section = "dns" => table[id].cred \in Creds /\ table[id].zones \subseteq Zones

(* The zones under way belong to the credential that is shown, or nobody   *)
(* waits for them.                                                         *)
PickerInv ==
    /\ form \in [own : Creds \cup {NoId}, cred : Creds \cup {NoId}, offered : SUBSET Zones,
                 selected : SUBSET Zones, loading : BOOLEAN, loaded : BOOLEAN]
    /\ fetches \subseteq [cred : Creds, active : BOOLEAN]
    /\ \A f \in fetches : f.active => f.cred = form.cred
    /\ form.loaded => form.offered = Managed[form.cred] /\ form.selected \subseteq form.offered

SentInv == sent \in 0..MaxCalls

IInv == CallsInv /\ TablesInv /\ DialogInv /\ RowsInv /\ PickerInv /\ SentInv

---------------------------------------------------------------------------
(* The ids of a section.                                                   *)
LEMMA SectionIds ==
  ASSUME NEW s \in Sections
  PROVE  /\ Ids(s) \subseteq Creds \cup DNSAccounts \cup ACMEAccounts
         /\ NoId \notin Ids(s)
         /\ s = "cloud" => Ids(s) = Creds
         /\ s = "dns" => Ids(s) = DNSAccounts
         /\ s = "acme" => Ids(s) = ACMEAccounts
BY CloudAccountsAssumption DEF CloudAccountsAssumption, Sections, Ids

LEMMA CallersDiffer == Page \in Callers /\ Others \in Callers /\ Page # Others
BY ResourcePagesAssumption DEF ResourcePagesAssumption

LEMMA IdleIsCall ==
  /\ Idle \in Call
  /\ Idle.stage = "done" /\ Idle.id = NoId /\ Idle.op = "verify" /\ Idle.table = "cloud"
BY DEF Idle, Request, Call, Stages

LEMMA InitIInv == Init => IInv
<1> SUFFICES ASSUME Init PROVE IInv
  OBVIOUS
<1>1. CallsInv
  BY IdleIsCall, CallersDiffer DEF Init, CallsInv
<1>2. TablesInv
  BY DEF Init, TablesInv, CredsTyped, DNSTyped, ACMETyped, HasCred, Account, NoAccount, CredStatus,
         ACMEStatus, Missing
<1>3. DialogInv
  BY DEF Init, DialogInv, NoDialog
<1>4. RowsInv
  <2>1. table = [id \in Rows(section) |-> Row(section, id)]
    BY DEF Init, Listed
  <2>2. section \in Sections
    BY DEF Init
  <2>3. QED
    BY <1>2, <2>1, <2>2, SectionIds DEF RowsInv, Rows, Row, TablesInv, DNSTyped, HasCred, Account
<1>5. PickerInv
  BY DEF Init, PickerInv, NoPicker
<1>6. SentInv
  BY CloudAccountsAssumption DEF CloudAccountsAssumption, Init, SentInv
<1>7. QED
  BY <1>1, <1>2, <1>3, <1>4, <1>5, <1>6 DEF IInv

---------------------------------------------------------------------------
(* The server.  Its steps move one call to another stage.                  *)
LEMMA CallMoves ==
  ASSUME CallsInv, NEW k \in Callers, NEW st \in Stages,
         calls[k].stage \notin {"done", "refused"},
         calls' = [calls EXCEPT ![k].stage = st], UNCHANGED pending,
         st \in {"checked", "selected"} => calls[k].zones \subseteq Managed[calls[k].cred]
  PROVE  CallsInv'
<1>1. calls[Page] # Idle \/ k # Page
  BY IdleIsCall DEF CallsInv
<1>2. pending \/ k # Page
  BY <1>1 DEF CallsInv
<1>3. calls' \in [Callers -> Call]
  BY DEF CallsInv, Call
<1>4. \A i \in Callers : /\ calls'[i].table = calls[i].table
                         /\ calls'[i].op = calls[i].op
                         /\ calls'[i].id = calls[i].id
                         /\ calls'[i].cred = calls[i].cred
                         /\ calls'[i].zones = calls[i].zones
                         /\ calls'[i].stage = IF i = k THEN st ELSE calls[i].stage
                         /\ i # k => calls'[i] = calls[i]
  BY DEF CallsInv, Call
<1>5. QED
  BY <1>2, <1>3, <1>4, CallersDiffer DEF CallsInv

LEMMA ServerCalls ==
  ASSUME CallsInv, TablesInv, ServerStep, UNCHANGED pending
  PROVE  CallsInv'
<1> PICK k \in Callers :
      \/ CreateCloudCredential(k) \/ UpdateCloudCredential(k)
      \/ LoadCloudProviderCredentials(k)
      \/ RecordGoodCredential(k) \/ RecordBadCredential(k) \/ InvalidateDNSAccounts(k)
      \/ EnableCloudCredential(k) \/ DisableCloudCredential(k)
      \/ CheckReferences(k) \/ DeleteCloudCredential(k)
      \/ ReadDNSAccount(k) \/ DNSProviderForID(k) \/ RecordUsableCredential(k)
      \/ VerifyDNSAccount(k) \/ RejectDNSAccount(k) \/ DisableDNSAccount(k)
      \/ VerifyZones(k) \/ SelectCurrentVersion(k)
      \/ CreateDNSAccount(k) \/ UpdateDNSAccount(k) \/ DeleteDNSAccount(k)
      \/ CreateACMEAccount(k) \/ VerifyACMEAccountKey(k)
      \/ UpdateACMEAccount(k) \/ DeleteACMEAccount(k)
  BY DEF ServerStep
<1> DEFINE Moved(st) == calls' = [calls EXCEPT ![k].stage = st]
<1>1. ASSUME NEW st \in Stages \ {"checked", "selected"}, Moved(st),
             calls[k].stage \notin {"done", "refused"}
      PROVE  CallsInv'
  BY <1>1, CallMoves
<1> HIDE DEF Moved
<1>2. ASSUME calls[k].stage \notin {"done", "refused"},
             \E st \in Stages \ {"checked", "selected"} : Moved(st)
      PROVE  CallsInv'
  BY <1>1, <1>2
<1> USE DEF Is, Enter, Answer, GiveUp, Stages
<1>3. CASE CreateCloudCredential(k) \/ UpdateCloudCredential(k) \/ LoadCloudProviderCredentials(k)
  BY <1>2, <1>3 DEF CreateCloudCredential, UpdateCloudCredential, LoadCloudProviderCredentials, Moved
<1>4. CASE RecordGoodCredential(k) \/ RecordBadCredential(k) \/ InvalidateDNSAccounts(k)
  BY <1>2, <1>4 DEF RecordGoodCredential, RecordBadCredential, InvalidateDNSAccounts, Moved
<1>5. CASE EnableCloudCredential(k) \/ DisableCloudCredential(k) \/ CheckReferences(k)
             \/ DeleteCloudCredential(k)
  BY <1>2, <1>5 DEF EnableCloudCredential, DisableCloudCredential, CheckReferences,
                    DeleteCloudCredential, Moved
<1>6. CASE ReadDNSAccount(k)
  <2>1. CASE Answer(k, FALSE)
    BY <1>2, <1>6, <2>1 DEF ReadDNSAccount, Moved
  <2>2. CASE ~Answer(k, FALSE)
    <3>1. /\ calls[k].stage = "sent" /\ calls[k].table = "dns"
          /\ calls[k].op \in {"verify", "enable"}
          /\ dns[calls[k].id].status \notin Missing
          /\ calls' = [calls EXCEPT ![k].stage = "read", ![k].cred = dns[calls[k].id].cred,
                                    ![k].zones = dns[calls[k].id].zones]
      BY <1>6, <2>2 DEF ReadDNSAccount
    <3>2. calls[k].id \in DNSAccounts
      BY <3>1 DEF CallsInv
    <3>3. dns[calls[k].id].cred \in Creds /\ dns[calls[k].id].zones \subseteq Zones
      BY <3>1, <3>2 DEF TablesInv, DNSTyped, HasCred, Account
    <3>4. pending \/ k # Page
      BY <3>1, IdleIsCall DEF CallsInv
    <3>5. calls' \in [Callers -> Call]
      <4>1. calls \in [Callers -> Call] /\ calls[k] \in Call
        BY DEF CallsInv
      <4>2. [calls[k] EXCEPT !.stage = "read", !.cred = dns[calls[k].id].cred,
                             !.zones = dns[calls[k].id].zones] \in Call
        BY <3>3, <4>1 DEF Call
      <4>3. QED
        BY <3>1, <4>1, <4>2
    <3>6. \A i \in Callers : /\ calls'[i].table = calls[i].table
                             /\ calls'[i].op = calls[i].op
                             /\ calls'[i].id = calls[i].id
                             /\ i # k => calls'[i] = calls[i]
      BY <3>1 DEF CallsInv, Call
    <3>7. calls'[k].stage = "read"
      BY <3>1 DEF CallsInv, Call
    <3>8. ASSUME NEW i \in Callers
          PROVE  /\ calls'[i].stage \in {"checked", "selected"} =>
                       calls'[i].zones \subseteq Managed[calls'[i].cred]
                 /\ calls'[i].table = "dns" /\ calls'[i].op \in {"create", "save"} =>
                       calls'[i].cred \in Creds
                 /\ calls'[i].table = "dns" /\ calls'[i].op # "create" =>
                       calls'[i].id \in DNSAccounts
      <4>1. CASE i = k
        BY <3>1, <3>2, <3>6, <3>7, <4>1
      <4>2. CASE i # k
        <5>1. calls'[i] = calls[i]
          BY <3>6, <4>2
        <5>2. QED
          BY <5>1 DEF CallsInv
      <4>3. QED
        BY <4>1, <4>2
    <3>9. pending' \in BOOLEAN /\ IF pending' THEN calls'[Page].op = "create" \/ calls'[Page].id # NoId
                                   ELSE calls'[Page] = Idle
      BY <3>4, <3>6, CallersDiffer DEF CallsInv
    <3>10. QED
      BY <3>5, <3>8, <3>9 DEF CallsInv
  <2>3. QED
    BY <2>1, <2>2
<1>7. CASE DNSProviderForID(k) \/ RecordUsableCredential(k) \/ VerifyDNSAccount(k)
  BY <1>2, <1>7 DEF DNSProviderForID, RecordUsableCredential, VerifyDNSAccount, Moved
<1>8. CASE RejectDNSAccount(k) \/ DisableDNSAccount(k)
  BY <1>2, <1>8 DEF RejectDNSAccount, DisableDNSAccount, Moved
<1>9. CASE VerifyZones(k)
  <2>1. CASE Answer(k, FALSE)
    BY <1>2, <1>9, <2>1 DEF VerifyZones, Moved
  <2>2. CASE calls[k].zones \subseteq Managed[CredOf(k)] /\ Enter(k, "checked")
    BY <1>9, <2>2, CallMoves DEF VerifyZones, CredOf
  <2>3. QED
    BY <1>9, <2>1, <2>2 DEF VerifyZones
<1>10. CASE SelectCurrentVersion(k)
  <2>1. calls[k].zones \subseteq Managed[calls[k].cred]
    BY <1>10 DEF SelectCurrentVersion, CallsInv
  <2>2. QED
    BY <1>10, <2>1, CallMoves DEF SelectCurrentVersion
<1>11. CASE CreateDNSAccount(k) \/ UpdateDNSAccount(k) \/ DeleteDNSAccount(k)
  BY <1>2, <1>11 DEF CreateDNSAccount, UpdateDNSAccount, DeleteDNSAccount, Moved
<1>12. CASE CreateACMEAccount(k) \/ VerifyACMEAccountKey(k) \/ UpdateACMEAccount(k)
              \/ DeleteACMEAccount(k)
  BY <1>2, <1>12 DEF CreateACMEAccount, VerifyACMEAccountKey, UpdateACMEAccount, DeleteACMEAccount,
                     Moved
<1>13. QED
  BY <1>3, <1>4, <1>5, <1>6, <1>7, <1>8, <1>9, <1>10, <1>11, <1>12

---------------------------------------------------------------------------
(* The statements of the store.                                            *)
LEMMA VerificationRecorded ==
  ASSUME CredsTyped, NEW c, NEW valid \in BOOLEAN, RecordCloudCredentialVerification(c, valid)
  PROVE  CredsTyped' /\ \A d \in Creds : creds[d] = "disabled" => creds'[d] = "disabled"
BY DEF CredsTyped, RecordCloudCredentialVerification, Marked, CredStatus, Missing

LEMMA StatusSet ==
  ASSUME CredsTyped, NEW c, NEW s \in {"active", "disabled"}, SetCloudCredentialStatus(c, s)
  PROVE  CredsTyped' /\ \A d \in Creds : (d # c \/ s = "disabled") /\ creds[d] = "disabled"
                            => creds'[d] = "disabled"
BY DEF CredsTyped, SetCloudCredentialStatus, Marked, CredStatus, Missing

(* Only the status of accounts changes.                                    *)
SameZones ==
  \A a \in DNSAccounts : [dns'[a] EXCEPT !.status = "none"] = [dns[a] EXCEPT !.status = "none"]

LEMMA AccountMarked ==
  ASSUME DNSTyped, NEW a, NEW s \in {"active", "invalid", "disabled", "deleted"},
         SetDNSAccountVerification(a, s)
  PROVE  DNSTyped' /\ SameZones
<1>1. dns' = [dns EXCEPT ![a].status = IF dns[a].status \in Missing THEN dns[a].status ELSE s]
  BY DEF SetDNSAccountVerification, Marked
<1>2. ASSUME NEW b \in DNSAccounts
      PROVE  /\ dns'[b] \in Account /\ HasCred(dns'[b])
             /\ [dns'[b] EXCEPT !.status = "none"] = [dns[b] EXCEPT !.status = "none"]
  <2>1. dns[b] \in Account /\ HasCred(dns[b])
    BY DEF DNSTyped
  <2>2. CASE b # a \/ dns[b].status \in Missing
    <3>1. dns'[b] = dns[b]
      BY <1>1, <2>1, <2>2 DEF DNSTyped, Account
    <3>2. QED
      BY <2>1, <3>1
  <2>3. CASE b = a /\ dns[b].status \notin Missing
    <3>1. dns'[b] = [dns[b] EXCEPT !.status = s]
      BY <1>1, <2>3 DEF DNSTyped
    <3>2. QED
      BY <2>1, <2>3, <3>1 DEF Account, HasCred, CredStatus, Missing
  <2>4. QED
    BY <2>2, <2>3
<1>3. DOMAIN dns' = DNSAccounts /\ dns' = [b \in DNSAccounts |-> dns'[b]]
  BY <1>1 DEF DNSTyped
<1>4. QED
  BY <1>2, <1>3 DEF DNSTyped, SameZones

LEMMA AccountsInvalidated ==
  ASSUME DNSTyped, NEW c, InvalidateAccountsOf(c)
  PROVE  DNSTyped' /\ SameZones
<1>1. ASSUME NEW b \in DNSAccounts
      PROVE  /\ dns'[b] \in Account /\ HasCred(dns'[b])
             /\ [dns'[b] EXCEPT !.status = "none"] = [dns[b] EXCEPT !.status = "none"]
  <2>1. dns[b] \in Account /\ HasCred(dns[b])
    BY DEF DNSTyped
  <2>2. dns'[b] = IF Uses(b, c) THEN [dns[b] EXCEPT !.status = "invalid"] ELSE dns[b]
    BY DEF InvalidateAccountsOf
  <2>3. QED
    BY <2>1, <2>2 DEF Account, HasCred, CredStatus, Missing, Uses
<1>2. dns' = [b \in DNSAccounts |-> dns'[b]]
  BY DEF InvalidateAccountsOf
<1>3. QED
  BY <1>1, <1>2 DEF DNSTyped, SameZones

LEMMA KeySet ==
  ASSUME ACMETyped, NEW p, NEW s \in {"active", "error"}, SetACMEAccountVerification(p, s)
  PROVE  ACMETyped'
BY DEF ACMETyped, SetACMEAccountVerification, Marked, ACMEStatus, Missing

---------------------------------------------------------------------------
(* What the server does to the tables.  A saved account has the zones that *)
(* were checked.                                                           *)
LEMMA AccountSaved ==
  ASSUME CallsInv, NEW k \in Callers, Is(k, "dns", {"create", "save"}, "selected")
  PROVE  /\ SavedAccount(k) \in Account /\ HasCred(SavedAccount(k))
         /\ SavedAccount(k).zones \subseteq Managed[SavedAccount(k).cred]
<1>1. calls[k] \in Call
  BY DEF CallsInv
<1>2. calls[k].cred \in Creds /\ calls[k].zones \subseteq Managed[calls[k].cred]
  BY DEF CallsInv, Is
<1>3. QED
  BY <1>1, <1>2 DEF SavedAccount, CredOf, Call, Account, HasCred, CredStatus

LEMMA ServerTables ==
  ASSUME CallsInv, TablesInv, ServerStep
  PROVE  TablesInv'
<1> USE DEF TablesInv
<1>1. PICK k \in Callers :
      \/ CreateCloudCredential(k) \/ UpdateCloudCredential(k)
      \/ LoadCloudProviderCredentials(k)
      \/ RecordGoodCredential(k) \/ RecordBadCredential(k) \/ InvalidateDNSAccounts(k)
      \/ EnableCloudCredential(k) \/ DisableCloudCredential(k)
      \/ CheckReferences(k) \/ DeleteCloudCredential(k)
      \/ ReadDNSAccount(k) \/ DNSProviderForID(k) \/ RecordUsableCredential(k)
      \/ VerifyDNSAccount(k) \/ RejectDNSAccount(k) \/ DisableDNSAccount(k)
      \/ VerifyZones(k) \/ SelectCurrentVersion(k)
      \/ CreateDNSAccount(k) \/ UpdateDNSAccount(k) \/ DeleteDNSAccount(k)
      \/ CreateACMEAccount(k) \/ VerifyACMEAccountKey(k)
      \/ UpdateACMEAccount(k) \/ DeleteACMEAccount(k)
  BY DEF ServerStep
<1>2. ASSUME UNCHANGED tableVars PROVE TablesInv'
  BY <1>2 DEF tableVars, CredsTyped, DNSTyped, ACMETyped
<1>3. ASSUME CredsTyped', UNCHANGED <<dns, acme>> PROVE TablesInv'
  BY <1>3 DEF DNSTyped, ACMETyped
<1>4. ASSUME DNSTyped', UNCHANGED <<creds, acme>> PROVE TablesInv'
  BY <1>4 DEF CredsTyped, ACMETyped
<1>5. ASSUME ACMETyped', UNCHANGED <<creds, dns>> PROVE TablesInv'
  BY <1>5 DEF CredsTyped, DNSTyped
<1>6. CASE UpdateCloudCredential(k) \/ LoadCloudProviderCredentials(k) \/ CheckReferences(k)
           \/ ReadDNSAccount(k) \/ DNSProviderForID(k) \/ VerifyZones(k)
           \/ SelectCurrentVersion(k) \/ VerifyACMEAccountKey(k)
  <2>1. UNCHANGED tableVars
    BY <1>6 DEF UpdateCloudCredential, LoadCloudProviderCredentials, CheckReferences,
                ReadDNSAccount, DNSProviderForID, VerifyZones, SelectCurrentVersion,
                VerifyACMEAccountKey
  <2>2. QED
    BY <1>2, <2>1
<1>7. CASE CreateCloudCredential(k)
  <2>1. CredsTyped' /\ UNCHANGED <<dns, acme>>
    BY <1>7 DEF CreateCloudCredential, CredsTyped, CredStatus
  <2>2. QED
    BY <1>3, <2>1
<1>8. CASE RecordGoodCredential(k) \/ RecordBadCredential(k) \/ RecordUsableCredential(k)
  <2>1. UNCHANGED <<dns, acme>>
        /\ \E valid \in BOOLEAN : RecordCloudCredentialVerification(CredOf(k), valid)
    BY <1>8 DEF RecordGoodCredential, RecordBadCredential, RecordUsableCredential
  <2>2. QED
    BY <1>3, <2>1, VerificationRecorded
<1>9. CASE EnableCloudCredential(k) \/ DisableCloudCredential(k)
  <2>1. UNCHANGED <<dns, acme>>
        /\ \E s \in {"active", "disabled"} : SetCloudCredentialStatus(CredOf(k), s)
    BY <1>9 DEF EnableCloudCredential, DisableCloudCredential
  <2>2. QED
    BY <1>3, <2>1, StatusSet
<1>10. CASE DeleteCloudCredential(k)
  <2>1. CredsTyped' /\ UNCHANGED <<dns, acme>>
    BY <1>10 DEF DeleteCloudCredential, CredsTyped, CredStatus, Marked, Missing
  <2>2. QED
    BY <1>3, <2>1
<1>11. CASE InvalidateDNSAccounts(k)
  BY <1>4, <1>11, AccountsInvalidated DEF InvalidateDNSAccounts
<1>12. CASE VerifyDNSAccount(k) \/ RejectDNSAccount(k) \/ DisableDNSAccount(k)
            \/ DeleteDNSAccount(k)
  <2>1. UNCHANGED <<creds, acme>>
        /\ \E s \in {"active", "invalid", "disabled", "deleted"} :
              SetDNSAccountVerification(calls[k].id, s)
    BY <1>12 DEF VerifyDNSAccount, RejectDNSAccount, DisableDNSAccount, DeleteDNSAccount,
                 SetDNSAccountVerification
  <2>2. QED
    BY <1>4, <2>1, AccountMarked
<1>13. CASE CreateDNSAccount(k) \/ UpdateDNSAccount(k)
  <2>1. SavedAccount(k) \in Account /\ HasCred(SavedAccount(k))
    BY <1>13, AccountSaved DEF CreateDNSAccount, UpdateDNSAccount, Is
  <2>2. UNCHANGED <<creds, acme>>
        /\ (dns' = dns \/ \E a : dns' = [dns EXCEPT ![a] = SavedAccount(k)])
    BY <1>13 DEF CreateDNSAccount, UpdateDNSAccount
  <2>3. DNSTyped'
    BY <2>1, <2>2 DEF DNSTyped
  <2>4. QED
    BY <1>4, <2>2, <2>3
<1>14. CASE CreateACMEAccount(k)
  <2>1. ACMETyped' /\ UNCHANGED <<creds, dns>>
    BY <1>14 DEF CreateACMEAccount, ACMETyped, ACMEStatus
  <2>2. QED
    BY <1>5, <2>1
<1>15. CASE UpdateACMEAccount(k)
  BY <1>5, <1>15, KeySet DEF UpdateACMEAccount
<1>16. CASE DeleteACMEAccount(k)
  <2>1. ACMETyped' /\ UNCHANGED <<creds, dns>>
    BY <1>16 DEF DeleteACMEAccount, ACMETyped, ACMEStatus, Marked, Missing
  <2>2. QED
    BY <1>5, <2>1
<1>17. QED
  BY <1>1, <1>6, <1>7, <1>8, <1>9, <1>10, <1>11, <1>12, <1>13, <1>14, <1>15, <1>16

---------------------------------------------------------------------------
(* The page.  A request it sends is one it may have.                       *)
LEMMA CallSent ==
  ASSUME CallsInv, NEW k \in Callers, NEW r \in Call, r.stage = "sent",
         calls' = [calls EXCEPT ![k] = r],
         r.table = "dns" /\ r.op \in {"create", "save"} => r.cred \in Creds,
         r.table = "dns" /\ r.op # "create" => r.id \in DNSAccounts,
         IF k = Page THEN pending' = TRUE /\ (r.op = "create" \/ r.id # NoId)
         ELSE UNCHANGED pending
  PROVE  CallsInv'
<1>1. calls' \in [Callers -> Call]
  BY DEF CallsInv
<1>2. calls'[k] = r /\ \A i \in Callers : i # k => calls'[i] = calls[i]
  BY DEF CallsInv
<1>3. QED
  BY <1>1, <1>2, CallersDiffer DEF CallsInv

LEMMA CallAnswered ==
  ASSUME CallsInv, NEW k \in Callers, calls' = [calls EXCEPT ![k] = Idle],
         IF k = Page THEN pending' = FALSE ELSE UNCHANGED pending
  PROVE  CallsInv'
<1>1. calls' \in [Callers -> Call]
  BY IdleIsCall DEF CallsInv
<1>2. calls'[k] = Idle /\ \A i \in Callers : i # k => calls'[i] = calls[i]
  BY DEF CallsInv
<1>3. QED
  BY <1>1, <1>2, CallersDiffer, IdleIsCall DEF CallsInv

LEMMA RequestIsCall ==
  ASSUME NEW t \in {"cloud", "dns", "acme"},
         NEW op \in {"create", "save", "verify", "enable", "disable", "delete"},
         NEW id \in Creds \cup DNSAccounts \cup ACMEAccounts \cup {NoId},
         NEW c \in Creds \cup {NoId}, NEW zones \in SUBSET Zones
  PROVE  /\ Request(t, op, id, c, zones) \in Call
         /\ Request(t, op, id, c, zones).stage = "sent"
         /\ Request(t, op, id, c, zones).table = t
         /\ Request(t, op, id, c, zones).op = op
         /\ Request(t, op, id, c, zones).id = id
         /\ Request(t, op, id, c, zones).cred = c
BY DEF Request, Call, Stages

LEMMA SentBounded ==
  ASSUME SentInv, sent < MaxCalls, sent' = sent + 1
  PROVE  SentInv'
BY CloudAccountsAssumption DEF CloudAccountsAssumption, SentInv

LEMMA Started ==
  ASSUME CallsInv, SentInv, section \in Sections,
         NEW op \in {"create", "save", "verify", "enable", "disable", "delete"},
         NEW id \in Ids(section) \cup {NoId}, NEW c \in Creds \cup {NoId}, NEW zones \in SUBSET Zones,
         op = "create" \/ id # NoId,
         section = "dns" /\ op \in {"create", "save"} => c \in Creds,
         Start(op, id, c, zones)
  PROVE  CallsInv' /\ SentInv'
<1> DEFINE r == Request(section, op, id, c, zones)
<1>1. r \in Call /\ r.stage = "sent" /\ r.table = section /\ r.op = op /\ r.id = id /\ r.cred = c
  BY SectionIds, RequestIsCall DEF Sections
<1>2. section = "dns" /\ op # "create" => id \in DNSAccounts
  BY SectionIds
<1>3. calls' = [calls EXCEPT ![Page] = r] /\ pending' = TRUE
  BY DEF Start, Send
<1> HIDE DEF r
<1>4. CallsInv'
  BY <1>1, <1>2, <1>3, CallSent, CallersDiffer
<1>5. QED
  BY <1>4, SentBounded DEF Start, Send

LEMMA RequestsKeep ==
  ASSUME IInv, RequestStep, UNCHANGED section
  PROVE  CallsInv' /\ SentInv'
<1> USE DEF IInv
<1>1. section \in Sections /\ dialog.id \in Ids(section) \cup {NoId} /\ DOMAIN table \subseteq Ids(section)
  BY DEF DialogInv, RowsInv
<1>2. ASSUME NEW id \in Ids(section) \cup {NoId} PROVE CredOfRow(id) \in Creds \cup {NoId}
  BY <1>1, <1>2, SectionIds DEF CredOfRow
<1>3. \A id \in Ids(section) : id # NoId
  BY <1>1, SectionIds
<1>4. CASE SaveCredential
  <2>1. section = "cloud" /\ Target \in Creds \cup {NoId}
    BY <1>1, <1>4, SectionIds DEF SaveCredential, Target
  <2>2. \E op \in {"create", "save"} :
           /\ op # "create" => Target # NoId
           /\ Start(op, Target, Target, {})
    BY <1>4 DEF SaveCredential, SaveOp, Editing, Target
  <2>3. QED
    BY <1>1, <2>1, <2>2, Started DEF Target
<1>5. CASE SaveACMEAccount
  <2>1. section = "acme" /\ Start(SaveOp, Target, NoId, {})
    BY <1>5 DEF SaveACMEAccount
  <2>2. SaveOp \in {"create", "save"} /\ (SaveOp # "create" => Target # NoId)
    BY DEF SaveOp, Editing, Target
  <2>3. QED
    BY <1>1, <2>1, <2>2, Started DEF Target
<1>6. CASE SaveDNSAccount
  <2>1. Start(SaveOp, Target, form.cred, form.selected)
    BY <1>6 DEF SaveDNSAccount
  <2>2. SaveOp \in {"create", "save"} /\ (SaveOp # "create" => Target # NoId)
    BY DEF SaveOp, Editing, Target
  <2>3. form.cred \in Creds /\ form.selected \in SUBSET Zones
    BY <1>6 DEF SaveDNSAccount, PickerInv
  <2>4. QED
    BY <1>1, <2>1, <2>2, <2>3, Started DEF Target
<1>7. CASE ConfirmDelete
  <2>1. Target # NoId /\ Start("delete", Target, CredOfRow(Target), {})
    BY <1>7 DEF ConfirmDelete, DeleteModalOpen, DialogInv, Target
  <2>2. QED
    BY <1>1, <1>2, <2>1, Started DEF Target
<1>8. CASE \E id \in DOMAIN table : Verify(id) \/ Toggle(id)
  <2>1. PICK id \in DOMAIN table, op \in {"verify", "enable", "disable"} :
           Start(op, id, CredOfRow(id), {})
    BY <1>8 DEF Verify, Toggle
  <2>2. QED
    BY <1>1, <1>2, <1>3, <2>1, Started
<1>9. CASE Answered \/ Failed
  <2>1. calls' = [calls EXCEPT ![Page] = Idle] /\ pending' = FALSE /\ UNCHANGED sent
    BY <1>9 DEF Answered, Failed
  <2>2. QED
    BY <2>1, CallAnswered, CallersDiffer DEF SentInv
<1>10. CASE Refresh
  BY <1>10 DEF Refresh, serverVars, CallsInv, SentInv
<1>11. QED
  BY <1>4, <1>5, <1>6, <1>7, <1>8, <1>9, <1>10 DEF RequestStep

LEMMA OthersKeep ==
  ASSUME CallsInv, SentInv, OthersSend \/ OthersAnswered
  PROVE  CallsInv' /\ SentInv'
<1>1. CASE OthersSend
  <2>1. PICK t \in {"cloud", "dns", "acme"}, op \in {"save", "verify", "enable", "disable", "delete"},
             id \in Creds \cup DNSAccounts \cup ACMEAccounts, c \in Creds \cup {NoId},
             zones \in SUBSET Zones :
                /\ t = "dns" => id \in DNSAccounts
                /\ t = "dns" /\ op = "save" => c \in Creds
                /\ Send(Others, Request(t, op, id, c, zones))
    <3>1. CASE \E c \in Creds, op \in {"verify", "enable", "disable", "delete"} :
                  Send(Others, Request("cloud", op, c, c, {}))
      BY <3>1
    <3>2. CASE \E a \in DNSAccounts, op \in {"verify", "disable", "delete"} :
                  Send(Others, Request("dns", op, a, NoId, {}))
      BY <3>2
    <3>3. CASE \E a \in DNSAccounts, c \in Creds, z \in Zones :
                  Send(Others, Request("dns", "save", a, c, {z}))
      BY <3>3
    <3>4. CASE \E p \in ACMEAccounts, op \in {"save", "verify", "delete"} :
                  Send(Others, Request("acme", op, p, NoId, {}))
      BY <3>4
    <3>5. QED
      BY <1>1, <3>1, <3>2, <3>3, <3>4 DEF OthersSend
  <2> DEFINE r == Request(t, op, id, c, zones)
  <2>2. r \in Call /\ r.stage = "sent" /\ r.table = t /\ r.op = op /\ r.id = id /\ r.cred = c
    <3>1. /\ op \in {"create", "save", "verify", "enable", "disable", "delete"}
          /\ id \in Creds \cup DNSAccounts \cup ACMEAccounts \cup {NoId}
      OBVIOUS
    <3>2. r \in Call
      BY <3>1 DEF Request, Call, Stages
    <3>3. QED
      BY <3>2 DEF Request
  <2>3. calls' = [calls EXCEPT ![Others] = r] /\ UNCHANGED pending
    BY <1>1, <2>1 DEF Send, OthersSend, pageVars
  <2> HIDE DEF r
  <2>4. CallsInv'
    BY <2>1, <2>2, <2>3, CallSent, CallersDiffer
  <2>5. QED
    BY <2>1, <2>4, SentBounded DEF Send
<1>2. CASE OthersAnswered
  <2>1. calls' = [calls EXCEPT ![Others] = Idle] /\ UNCHANGED <<pending, sent>>
    BY <1>2 DEF OthersAnswered, pageVars
  <2>2. QED
    BY <2>1, CallAnswered, CallersDiffer DEF SentInv
<1>3. QED
  BY <1>1, <1>2

---------------------------------------------------------------------------
(* Dialogs and the zone picker.                                            *)
LEMMA PickerTables ==
  ASSUME TablesInv, PickerStep
  PROVE  TablesInv'
<1> USE DEF TablesInv
<1>1. CASE \E f \in fetches : ZonesArrive(f)
  <2>1. PICK f \in fetches : ZonesArrive(f)
    BY <1>1
  <2>2. QED
    BY <2>1, VerificationRecorded DEF ZonesArrive, DNSTyped, ACMETyped
<1>2. CASE \E f \in fetches : ZonesFail(f)
  <2>1. PICK f \in fetches : ZonesFail(f)
    BY <1>2
  <2>2. CASE RecordCloudCredentialVerification(f.cred, FALSE) /\ InvalidateAccountsOf(f.cred)
    BY <2>1, <2>2, VerificationRecorded, AccountsInvalidated DEF ZonesFail, ACMETyped
  <2>3. CASE UNCHANGED <<creds, dns>>
    BY <2>1, <2>3 DEF ZonesFail, CredsTyped, DNSTyped, ACMETyped
  <2>4. QED
    BY <2>1, <2>2, <2>3 DEF ZonesFail
<1>3. CASE UNCHANGED tableVars
  BY <1>3 DEF tableVars, CredsTyped, DNSTyped, ACMETyped
<1>4. QED
  BY <1>1, <1>2, <1>3 DEF PickerStep, ChangeCredential, RefreshZones, SelectAllZones,
                          ClearVisibleZones, ToggleZone, Picks

LEMMA PickerClosed ==
  ASSUME PickerInv, Unmounted
  PROVE  PickerInv'
<1>1. form' = NoPicker /\ \A g \in fetches' : \E f \in fetches : g = [f EXCEPT !.active = FALSE]
  BY DEF Unmounted, Abandoned
<1>2. \A g \in fetches' : g \in [cred : Creds, active : BOOLEAN] /\ ~g.active
  <2> TAKE g \in fetches'
  <2>1. PICK f \in fetches : g = [f EXCEPT !.active = FALSE]
    BY <1>1
  <2>2. f \in [cred : Creds, active : BOOLEAN]
    BY DEF PickerInv
  <2>3. QED
    BY <2>1, <2>2
<1>3. QED
  BY <1>1, <1>2 DEF PickerInv, NoPicker

LEMMA PickerFetches ==
  ASSUME PickerInv, NEW c \in Creds, Fetch(c), form'.cred = c, ~form'.loaded,
         form' \in [own : Creds \cup {NoId}, cred : Creds \cup {NoId}, offered : SUBSET Zones,
                    selected : SUBSET Zones, loading : BOOLEAN, loaded : BOOLEAN]
  PROVE  PickerInv'
<1>1. \A g \in fetches' : g = [cred |-> c, active |-> TRUE]
                            \/ \E f \in fetches : g = [f EXCEPT !.active = FALSE]
  BY DEF Fetch, Abandoned
<1>2. fetches \subseteq [cred : Creds, active : BOOLEAN]
  BY DEF PickerInv
<1>3. \A g \in fetches' : g \in [cred : Creds, active : BOOLEAN] /\ (g.active => g.cred = c)
  <2> TAKE g \in fetches'
  <2>1. CASE g = [cred |-> c, active |-> TRUE]
    BY <2>1
  <2>2. ASSUME NEW f \in fetches, g = [f EXCEPT !.active = FALSE]
        PROVE  g \in [cred : Creds, active : BOOLEAN] /\ (g.active => g.cred = c)
    <3>1. f \in [cred : Creds, active : BOOLEAN]
      BY <1>2
    <3>2. QED
      BY <2>2, <3>1
  <2>3. QED
    BY <1>1, <2>1, <2>2
<1>4. form'.loaded => form'.offered = Managed'[form'.cred] /\ form'.selected \subseteq form'.offered
  OBVIOUS
<1>5. fetches' \subseteq [cred : Creds, active : BOOLEAN]
  BY <1>3
<1>6. QED
  BY <1>3, <1>4, <1>5 DEF PickerInv

LEMMA DialogsKeep ==
  ASSUME IInv, DialogStep, UNCHANGED section
  PROVE  DialogInv' /\ RowsInv' /\ PickerInv' /\ SentInv'
<1> USE DEF IInv
<1>1. RowsInv'
  BY DEF DialogStep, OpenCreate, CloseDialog, OpenEdit, AskToDelete, ShowDetails, OpenDialog, RowsInv
<1>2. section \in Sections /\ DOMAIN table \subseteq Ids(section) /\ NoId \notin Ids(section)
  BY SectionIds DEF DialogInv, RowsInv
<1>3. DialogInv'
  <2>1. CASE OpenCreate
    BY <2>1 DEF OpenCreate, OpenDialog, DialogInv
  <2>2. CASE CloseDialog
    BY <2>2 DEF CloseDialog, CloseForm, NoDialog, DialogInv
  <2>3. ASSUME NEW id \in DOMAIN table, OpenEdit(id) \/ AskToDelete(id) \/ ShowDetails(id)
        PROVE  DialogInv'
    <3>1. \E kind \in {"form", "delete", "details"} : dialog' = [kind |-> kind, id |-> id]
      BY <2>3 DEF OpenEdit, AskToDelete, ShowDetails, OpenDialog
    <3>2. id \in Ids(section) /\ id # NoId
      BY <1>2
    <3>3. QED
      BY <3>1, <3>2 DEF DialogInv
  <2>4. QED
    BY <2>1, <2>2, <2>3 DEF DialogStep
<1>4. CASE UNCHANGED <<form, fetches, sent>>
  BY <1>1, <1>3, <1>4 DEF PickerInv, SentInv
<1>5. CASE CloseDialog
  BY <1>1, <1>3, <1>5, PickerClosed DEF CloseDialog, CloseForm, serverVars, SentInv
<1>6. ASSUME NEW id \in DOMAIN table, OpenEdit(id), section = "dns"
      PROVE  PickerInv' /\ SentInv'
  <2>1. table[id].cred \in Creds /\ table[id].zones \subseteq Zones
    BY <1>6 DEF RowsInv
  <2>2. Fetch(table[id].cred)
    BY <1>6 DEF OpenEdit
  <2>3. form' = [own |-> table[id].cred, cred |-> table[id].cred, offered |-> {},
                 selected |-> table[id].zones, loading |-> TRUE, loaded |-> FALSE]
    BY <1>6 DEF OpenEdit, NoPicker
  <2>4. PickerInv'
    BY <2>1, <2>2, <2>3, PickerFetches
  <2>5. QED
    BY <2>2, <2>4, SentBounded DEF Fetch
<1>7. UNCHANGED <<form, fetches, sent>> \/ CloseDialog
        \/ (section = "dns" /\ \E id \in DOMAIN table : OpenEdit(id))
  <2>1. CASE OpenCreate
    BY <2>1 DEF OpenCreate
  <2>2. ASSUME NEW id \in DOMAIN table, OpenEdit(id)
        PROVE  section = "dns" \/ UNCHANGED <<form, fetches, sent>>
    BY <2>2 DEF OpenEdit
  <2>3. ASSUME NEW id \in DOMAIN table, AskToDelete(id) \/ ShowDetails(id)
        PROVE  UNCHANGED <<form, fetches, sent>>
    BY <2>3 DEF AskToDelete, ShowDetails
  <2>4. QED
    BY <2>1, <2>2, <2>3 DEF DialogStep
<1>8. QED
  BY <1>1, <1>3, <1>4, <1>5, <1>6, <1>7

LEMMA PickerKeeps ==
  ASSUME IInv, PickerStep, UNCHANGED section
  PROVE  DialogInv' /\ RowsInv' /\ PickerInv' /\ SentInv' /\ CallsInv'
<1> USE DEF IInv
<1>1. UNCHANGED <<table, dialog, pending, calls>>
  BY DEF PickerStep, ChangeCredential, RefreshZones, SelectAllZones, ClearVisibleZones, ToggleZone,
         Picks, ZonesArrive, ZonesFail
<1>2. DialogInv' /\ RowsInv' /\ CallsInv'
  BY <1>1 DEF DialogInv, RowsInv, CallsInv
<1>3. CASE \E c \in Creds : ChangeCredential(c)
  <2>1. PICK c \in Creds : ChangeCredential(c)
    BY <1>3
  <2>2. Fetch(c) /\ form' = [own |-> form.own, cred |-> c, offered |-> {}, selected |-> {},
                             loading |-> TRUE, loaded |-> FALSE]
    BY <2>1 DEF ChangeCredential, Picks, Chosen, NoPicker
  <2>3. form.own \in Creds \cup {NoId}
    BY DEF PickerInv
  <2>4. PickerInv'
    BY <2>2, <2>3, PickerFetches
  <2>5. QED
    BY <1>2, <2>2, <2>4, SentBounded DEF Fetch
<1>4. CASE RefreshZones
  <2>1. form' = [own |-> form.own, cred |-> form.cred, offered |-> {}, selected |-> {},
                 loading |-> TRUE, loaded |-> FALSE] /\ UNCHANGED <<fetches, sent>>
    BY <1>4 DEF RefreshZones, Picks, Chosen, NoPicker
  <2>2. QED
    BY <1>2, <2>1 DEF PickerInv, SentInv
<1>5. CASE SelectAllZones \/ ClearVisibleZones \/ \E z \in Zones : ToggleZone(z)
  <2>1. UNCHANGED <<fetches, sent>> /\ \E zones \in SUBSET Zones :
           /\ form' = [form EXCEPT !.selected = zones]
           /\ form.selected \subseteq form.offered => zones \subseteq form.offered
    BY <1>5 DEF SelectAllZones, ClearVisibleZones, ToggleZone, Picks, PickerInv
  <2>2. QED
    BY <1>2, <2>1 DEF PickerInv, SentInv
<1>6. ASSUME NEW f \in fetches, ZonesArrive(f)
      PROVE  PickerInv' /\ SentInv'
  <2>1. fetches' \subseteq fetches /\ UNCHANGED sent /\ f.cred \in Creds
    BY <1>6 DEF ZonesArrive, PickerInv
  <2>2. CASE ~f.active
    BY <1>6, <2>1, <2>2 DEF ZonesArrive, Shown, PickerInv, SentInv
  <2>3. CASE f.active
    <3>1. Managed[form.cred] \subseteq Zones /\ f.cred = form.cred
      BY <2>1, <2>3, CloudAccountsAssumption DEF CloudAccountsAssumption, PickerInv
    <3>2. form' = [form EXCEPT !.offered = Managed[form.cred],
                               !.selected = form.selected \cap Managed[form.cred],
                               !.loading = FALSE, !.loaded = TRUE]
      BY <1>6, <2>3, <3>1 DEF ZonesArrive, Shown
    <3>3. QED
      BY <2>1, <3>1, <3>2 DEF PickerInv, SentInv
  <2>4. QED
    BY <2>2, <2>3
<1>7. ASSUME NEW f \in fetches, ZonesFail(f)
      PROVE  PickerInv' /\ SentInv'
  <2>1. fetches' \subseteq fetches /\ UNCHANGED sent
    BY <1>7 DEF ZonesFail
  <2>2. form' = form \/ form' = [form EXCEPT !.loading = FALSE]
    BY <1>7 DEF ZonesFail
  <2>3. QED
    BY <2>1, <2>2 DEF PickerInv, SentInv
<1>8. QED
  BY <1>2, <1>3, <1>4, <1>5, <1>6, <1>7 DEF PickerStep

LEMMA RequestsKeepPage ==
  ASSUME IInv, RequestStep, UNCHANGED section
  PROVE  DialogInv' /\ RowsInv' /\ PickerInv' /\ TablesInv'
<1> USE DEF IInv
<1>1. TablesInv'
  <2>1. UNCHANGED tableVars
    BY DEF RequestStep, SaveCredential, SaveACMEAccount, SaveDNSAccount, ConfirmDelete, Verify,
           Toggle, Start, Answered, Failed, Refresh, serverVars
  <2>2. QED
    BY <2>1 DEF tableVars, TablesInv, CredsTyped, DNSTyped, ACMETyped
<1>2. CASE Answered
  <2>1. UNCHANGED table /\ (CloseForm \/ UNCHANGED <<dialog, form, fetches>>)
    BY <1>2 DEF Answered
  <2>2. RowsInv'
    BY <2>1 DEF RowsInv
  <2>3. CASE CloseForm
    BY <1>1, <2>2, <2>3, PickerClosed DEF CloseForm, DialogInv, NoDialog
  <2>4. CASE UNCHANGED <<dialog, form, fetches>>
    BY <1>1, <2>2, <2>4 DEF DialogInv, PickerInv
  <2>5. QED
    BY <2>1, <2>3, <2>4
<1>3. CASE Refresh
  <2>1. table' = [id \in Rows(section) |-> Row(section, id)] /\ UNCHANGED <<dialog, form, fetches>>
    BY <1>3 DEF Refresh, Listed
  <2>2. section \in Sections
    BY DEF DialogInv
  <2>3. RowsInv'
    BY <2>1, <2>2, SectionIds DEF RowsInv, Rows, Row, TablesInv, DNSTyped, HasCred, Account
  <2>4. QED
    BY <1>1, <2>1, <2>3 DEF DialogInv, PickerInv
<1>4. CASE UNCHANGED <<table, dialog, form, fetches>>
  BY <1>1, <1>4 DEF DialogInv, RowsInv, PickerInv
<1>5. QED
  BY <1>2, <1>3, <1>4 DEF RequestStep, SaveCredential, SaveACMEAccount, SaveDNSAccount,
                          ConfirmDelete, Verify, Toggle, Start, Failed

LEMMA StepIInv == IInv /\ [Next]_vars => IInv'
<1> SUFFICES ASSUME IInv, [Next]_vars PROVE IInv'
  OBVIOUS
<1> USE DEF IInv
<1>1. CASE DialogStep /\ UNCHANGED section
  <2>1. UNCHANGED <<pending, tableVars, calls>>
    BY <1>1 DEF DialogStep, OpenCreate, CloseDialog, OpenEdit, AskToDelete, ShowDetails, OpenDialog,
                serverVars
  <2>2. CallsInv' /\ TablesInv'
    BY <2>1 DEF tableVars, CallsInv, TablesInv, CredsTyped, DNSTyped, ACMETyped
  <2>3. QED
    BY <1>1, <2>2, DialogsKeep
<1>2. CASE PickerStep /\ UNCHANGED section
  BY <1>2, PickerKeeps, PickerTables
<1>3. CASE RequestStep /\ UNCHANGED section
  BY <1>3, RequestsKeep, RequestsKeepPage
<1>4. ASSUME UNCHANGED <<section, table, dialog, form, fetches>>
      PROVE  DialogInv' /\ RowsInv' /\ PickerInv'
  BY <1>4 DEF DialogInv, RowsInv, PickerInv
<1>5. CASE (OthersSend \/ OthersAnswered) /\ UNCHANGED section
  <2>1. UNCHANGED <<pageVars, tableVars>>
    BY <1>5 DEF OthersSend, OthersAnswered
  <2>2. TablesInv'
    BY <2>1 DEF tableVars, TablesInv, CredsTyped, DNSTyped, ACMETyped
  <2>3. QED
    BY <1>4, <1>5, <2>1, <2>2, OthersKeep DEF pageVars
<1>6. CASE ServerStep /\ UNCHANGED pageVars /\ UNCHANGED section
  <2>1. CallsInv' /\ TablesInv'
    BY <1>6, ServerCalls, ServerTables DEF pageVars
  <2>2. SentInv'
    BY <1>6 DEF ServerStep, SentInv
  <2>3. QED
    BY <1>4, <1>6, <2>1, <2>2 DEF pageVars
<1>7. CASE UNCHANGED vars
  BY <1>4, <1>7 DEF vars, serverVars, tableVars, pageVars, CallsInv, TablesInv, CredsTyped, DNSTyped,
                    ACMETyped, SentInv
<1>8. QED
  BY <1>1, <1>2, <1>3, <1>5, <1>6, <1>7 DEF Next

LEMMA Invariance == Spec => []IInv
BY InitIInv, StepIInv, PTL DEF Spec

---------------------------------------------------------------------------
(* Every variable has its type, and the page's buttons are disabled        *)
(* exactly while the server owes it an answer.                             *)
THEOREM ResourceTypes == Spec => []TypeOK
<1>1. IInv => TypeOK
  <2> SUFFICES ASSUME IInv PROVE TypeOK
    OBVIOUS
  <2> USE DEF IInv
  <2>1. CloudAccountsTypeOK
    BY DEF CallsInv, TablesInv, CredsTyped, DNSTyped, ACMETyped, SentInv, CloudAccountsTypeOK
  <2>2. pending = (calls[Page] # Idle)
    BY IdleIsCall DEF CallsInv
  <2>3. QED
    BY <2>1, <2>2 DEF DialogInv, RowsInv, PickerInv, TypeOK
<1>2. QED
  BY <1>1, Invariance, PTL

(* Whatever order lists of zones arrive in, the zones a form offers and has*)
(* selected are those of the credential it shows (DNSAccountFormModal).    *)
THEOREM ZonesBelongToCredential == Spec => []ZonesBelong
<1>1. IInv => ZonesBelong
  BY DEF IInv, PickerInv, ZonesBelong
<1>2. QED
  BY <1>1, Invariance, PTL

(* Only the request to enable a disabled credential ends that              *)
(* (RecordCloudCredentialVerification, SetCloudCredentialStatus).          *)
THEOREM DisabledIsKept == Spec => DisabledStays
<1> DEFINE Kept == \A c \in Creds : creds[c] = "disabled" /\ creds'[c] # "disabled" =>
                      \/ creds'[c] = "deleted"
                      \/ \E k \in Callers : EnableCloudCredential(k) /\ CredOf(k) = c
<1>1. IInv /\ [Next]_vars => Kept
  <2> SUFFICES ASSUME IInv, [Next]_vars PROVE Kept
    OBVIOUS
  <2> USE DEF IInv, TablesInv
  <2>1. CASE ServerStep
    <3>1. PICK k \in Callers :
      \/ CreateCloudCredential(k)
      \/ RecordGoodCredential(k) \/ RecordBadCredential(k) \/ RecordUsableCredential(k)
      \/ EnableCloudCredential(k) \/ DisableCloudCredential(k) \/ DeleteCloudCredential(k)
      \/ UNCHANGED creds
      BY <2>1 DEF ServerStep, UpdateCloudCredential, LoadCloudProviderCredentials, CheckReferences,
                  InvalidateDNSAccounts, ReadDNSAccount, DNSProviderForID, VerifyZones,
                  SelectCurrentVersion, VerifyDNSAccount, RejectDNSAccount, DisableDNSAccount,
                  CreateDNSAccount, UpdateDNSAccount, DeleteDNSAccount, CreateACMEAccount,
                  VerifyACMEAccountKey, UpdateACMEAccount, DeleteACMEAccount, tableVars
    <3>2. CASE CreateCloudCredential(k)
      BY <3>2 DEF CreateCloudCredential, CredsTyped
    <3>3. CASE RecordGoodCredential(k) \/ RecordBadCredential(k) \/ RecordUsableCredential(k)
      <4>1. \E valid \in BOOLEAN : RecordCloudCredentialVerification(CredOf(k), valid)
        BY <3>3 DEF RecordGoodCredential, RecordBadCredential, RecordUsableCredential
      <4>2. QED
        BY <4>1, VerificationRecorded
    <3>4. CASE EnableCloudCredential(k)
      <4>1. SetCloudCredentialStatus(CredOf(k), "active")
        BY <3>4 DEF EnableCloudCredential
      <4>2. \A c \in Creds : c # CredOf(k) /\ creds[c] = "disabled" => creds'[c] = "disabled"
        BY <4>1, StatusSet
      <4>3. QED
        BY <3>4, <4>2
    <3>5. CASE DisableCloudCredential(k)
      BY <3>5, StatusSet DEF DisableCloudCredential
    <3>6. CASE DeleteCloudCredential(k)
      BY <3>6 DEF DeleteCloudCredential, CredsTyped, Marked, Missing
    <3>7. QED
      BY <3>1, <3>2, <3>3, <3>4, <3>5, <3>6
  <2>2. ASSUME NEW f \in fetches, ZonesArrive(f) \/ ZonesFail(f) PROVE Kept
    <3>1. (\E valid \in BOOLEAN : RecordCloudCredentialVerification(f.cred, valid)) \/ UNCHANGED creds
      BY <2>2 DEF ZonesArrive, ZonesFail
    <3>2. QED
      BY <3>1, VerificationRecorded
  <2>3. CASE UNCHANGED creds
    BY <2>3
  <2>4. QED
    BY <2>1, <2>2, <2>3 DEF Next, DialogStep, OpenCreate, CloseDialog, OpenEdit, AskToDelete,
       ShowDetails, OpenDialog, PickerStep, ChangeCredential, RefreshZones, SelectAllZones,
       ClearVisibleZones, ToggleZone, Picks, RequestStep, SaveCredential, SaveACMEAccount,
       SaveDNSAccount, ConfirmDelete, Verify, Toggle, Start, Answered, Failed, Refresh, OthersSend,
       OthersAnswered, vars, serverVars, tableVars
<1>2. IInv /\ [Next]_vars => [Kept]_serverVars
  BY <1>1
<1>3. QED
  BY <1>2, Invariance, PTL DEF Spec, DisabledStays

(***************************************************************************)
(* The zones an account may use are zones its credential manages, whenever *)
(* they are written: only the two handlers that save an account write any, *)
(* after the check of the zones the request came with.                     *)
(***************************************************************************)
THEOREM SavedZones == Spec => SavedZonesAreManaged
<1> DEFINE Saved == \A a \in DNSAccounts :
              [dns[a] EXCEPT !.status = "none"] # [dns'[a] EXCEPT !.status = "none"]
                 => dns'[a].zones \subseteq Managed[dns'[a].cred]
<1>1. ASSUME SameZones PROVE Saved
  BY <1>1 DEF SameZones
<1>2. IInv /\ [Next]_vars => Saved
  <2> SUFFICES ASSUME IInv, [Next]_vars PROVE Saved
    OBVIOUS
  <2> USE DEF IInv, TablesInv
  <2>1. CASE UNCHANGED dns
    BY <1>1, <2>1 DEF SameZones
  <2>2. CASE ServerStep
    <3>1. PICK k \in Callers :
      \/ InvalidateDNSAccounts(k)
      \/ VerifyDNSAccount(k) \/ RejectDNSAccount(k) \/ DisableDNSAccount(k) \/ DeleteDNSAccount(k)
      \/ CreateDNSAccount(k) \/ UpdateDNSAccount(k)
      \/ UNCHANGED dns
      BY <2>2 DEF ServerStep, CreateCloudCredential, UpdateCloudCredential,
                  LoadCloudProviderCredentials, RecordGoodCredential, RecordBadCredential,
                  EnableCloudCredential, DisableCloudCredential, CheckReferences,
                  DeleteCloudCredential, ReadDNSAccount, DNSProviderForID, RecordUsableCredential,
                  VerifyZones, SelectCurrentVersion, CreateACMEAccount, VerifyACMEAccountKey,
                  UpdateACMEAccount, DeleteACMEAccount, tableVars
    <3>2. CASE InvalidateDNSAccounts(k)
      BY <1>1, <3>2, AccountsInvalidated DEF InvalidateDNSAccounts
    <3>3. CASE VerifyDNSAccount(k) \/ RejectDNSAccount(k) \/ DisableDNSAccount(k)
                 \/ DeleteDNSAccount(k)
      <4>1. \E s \in {"active", "invalid", "disabled", "deleted"} :
                SetDNSAccountVerification(calls[k].id, s)
        BY <3>3 DEF VerifyDNSAccount, RejectDNSAccount, DisableDNSAccount, DeleteDNSAccount,
                    SetDNSAccountVerification
      <4>2. QED
        BY <1>1, <4>1, AccountMarked
    <3>4. CASE CreateDNSAccount(k) \/ UpdateDNSAccount(k)
      <4>1. SavedAccount(k).zones \subseteq Managed[SavedAccount(k).cred]
        BY <3>4, AccountSaved DEF CreateDNSAccount, UpdateDNSAccount, Is
      <4>2. dns' = dns \/ \E a : dns' = [dns EXCEPT ![a] = SavedAccount(k)]
        BY <3>4 DEF CreateDNSAccount, UpdateDNSAccount
      <4>3. \A a \in DNSAccounts : dns'[a] = dns[a] \/ dns'[a] = SavedAccount(k)
        BY <4>2 DEF DNSTyped
      <4>4. ASSUME NEW a \in DNSAccounts,
                   [dns[a] EXCEPT !.status = "none"] # [dns'[a] EXCEPT !.status = "none"]
            PROVE  dns'[a].zones \subseteq Managed[dns'[a].cred]
        <5>1. dns'[a] = SavedAccount(k)
          BY <4>3, <4>4
        <5>2. QED
          BY <4>1, <5>1
      <4>5. QED
        BY <4>4
    <3>5. QED
      BY <2>1, <3>1, <3>2, <3>3, <3>4
  <2>3. ASSUME NEW f \in fetches, ZonesArrive(f) \/ ZonesFail(f) PROVE Saved
    <3>1. InvalidateAccountsOf(f.cred) \/ UNCHANGED dns
      BY <2>3 DEF ZonesArrive, ZonesFail
    <3>2. QED
      BY <1>1, <2>1, <3>1, AccountsInvalidated
  <2>4. QED
    BY <2>1, <2>2, <2>3 DEF Next, DialogStep, OpenCreate, CloseDialog, OpenEdit, AskToDelete,
       ShowDetails, OpenDialog, PickerStep, ChangeCredential, RefreshZones, SelectAllZones,
       ClearVisibleZones, ToggleZone, Picks, RequestStep, SaveCredential, SaveACMEAccount,
       SaveDNSAccount, ConfirmDelete, Verify, Toggle, Start, Answered, Failed, Refresh, OthersSend,
       OthersAnswered, vars, serverVars, tableVars
<1>3. IInv /\ [Next]_vars => [Saved]_serverVars
  BY <1>2
<1>4. QED
  BY <1>3, Invariance, PTL DEF Spec, SavedZonesAreManaged
=============================================================================
