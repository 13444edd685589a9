------------------------ MODULE CertificateWorkflow ------------------------
(***************************************************************************)
(* The dialog that creates a certificate: identity, validation, renewal.   *)
(*                                                                         *)
(* Each step is checked when it is left for the next one, the last button  *)
(* sends the form.  The dialog is open while the address of the page says  *)
(* so; the certificate page, which composes this module, changes the       *)
(* address too.  A domain is the sequence of its labels, a wildcard starts *)
(* with Star; the form of a label and the length of a name are left out,   *)
(* as are the name and the key algorithm.  Of the days before renewal the  *)
(* form says whether their number is one that the server takes.            *)
(***************************************************************************)
EXTENDS Integers, Sequences, FiniteSets

CONSTANTS
    Star,           \* the first label of a wildcard
    Entries,        \* what a user may enter as domains: sequences of domains
    NoForm          \* no request

VARIABLES
    modal,          \* the address asks for this dialog
    step,           \* 0, 1, 2
    form,           \* what the fields hold
    creating        \* the form on its way to the server

workflowVars == <<modal, step, form, creating>>

Form == [domains : Entries, acme : BOOLEAN, dns : BOOLEAN, mode : {"auto", "manual"},
         days : BOOLEAN]        \* 1 to 90 days before renewal
Emptied(f) == [f EXCEPT !.domains = <<>>, !.acme = FALSE, !.dns = FALSE]

CertificateWorkflowAssumption ==
    /\ <<>> \in Entries
    /\ \A entry \in Entries : \A i \in DOMAIN entry : Len(entry[i]) > 1
    /\ NoForm \notin Form
ASSUME CertificateWorkflowAssumption

---------------------------------------------------------------------------
(* Domains.                                                                *)

IsWildcard(d) == Head(d) = Star

(* Mutant of DomainsAreValid: one pass, which knows the wildcards that     *)
(* came before a domain only.                                              *)
DomainsAreValidSoFar(ds) ==
    \A i, j \in DOMAIN ds : i < j =>
        /\ ds[i] # ds[j]
        /\ ~(IsWildcard(ds[i]) /\ ~IsWildcard(ds[j]) /\ Tail(ds[i]) = Tail(ds[j]))

(* No domain twice, none that a wildcard of the list covers.               *)
DomainsAreValid(ds) ==
    \A i, j \in DOMAIN ds : i # j =>
        /\ ds[i] # ds[j]
        /\ ~(IsWildcard(ds[i]) /\ ~IsWildcard(ds[j]) /\ Tail(ds[i]) = Tail(ds[j]))

IdentityIsComplete == form.domains # <<>> /\ DomainsAreValid(form.domains)

ValidationIsComplete == form.acme /\ (form.mode = "auto" => form.dns)

---------------------------------------------------------------------------
(* The steps.                                                              *)

EnterDomains(entry) ==
    /\ modal /\ step = 0
    /\ form.domains # entry
    /\ form' = [form EXCEPT !.domains = entry]
    /\ UNCHANGED <<modal, step, creating>>

(* A select never goes back to nothing.  DNS accounts are offered for      *)
(* automatic validation.                                                   *)
ChooseValidation ==
    /\ modal /\ step = 1
    /\ \/ form' = [form EXCEPT !.acme = TRUE]
       \/ form.mode = "auto" /\ form' = [form EXCEPT !.dns = TRUE]
       \/ \E m \in {"auto", "manual"} : form' = [form EXCEPT !.mode = m]
    /\ form' # form
    /\ UNCHANGED <<modal, step, creating>>

(* The field takes any number.                                             *)
EnterDays ==
    /\ modal /\ step = 2
    /\ form' = [form EXCEPT !.days = ~@]
    /\ UNCHANGED <<modal, step, creating>>

NextStep ==
    /\ modal
    /\ \/ step = 0 /\ IdentityIsComplete
       \/ step = 1 /\ ValidationIsComplete
    /\ step' = step + 1
    /\ UNCHANGED <<modal, form, creating>>

(* Mutant of Previous: the first step has a step before it.                *)
PreviousOfAny ==
    /\ modal
    /\ step' = step - 1
    /\ UNCHANGED <<modal, form, creating>>

Previous ==
    /\ modal /\ step > 0
    /\ step' = step - 1
    /\ UNCHANGED <<modal, form, creating>>

(* The body of the request.                                                *)
Payload == [form EXCEPT !.dns = (form.mode = "auto" /\ form.dns)]

Submit ==
    /\ modal /\ step = 2
    /\ creating = NoForm
    /\ creating' = Payload
    /\ UNCHANGED <<modal, step, form>>

(* The validation mode, the days and the key algorithm stay.               *)
CloseWorkflow ==
    /\ modal' = FALSE
    /\ step' = 0
    /\ form' = Emptied(form)

Cancel ==
    /\ modal
    /\ CloseWorkflow
    /\ UNCHANGED creating

(* The dialog that is open when the answer arrives is closed and emptied.  *)
Created ==
    /\ creating' = NoForm
    /\ CloseWorkflow

NotCreated ==
    /\ creating # NoForm
    /\ creating' = NoForm
    /\ UNCHANGED <<modal, step, form>>

WorkflowInit ==
    /\ modal = FALSE
    /\ step = 0
    /\ form = [domains |-> <<>>, acme |-> FALSE, dns |-> FALSE, mode |-> "auto",
             days |-> TRUE]
    /\ creating = NoForm

\* What the user does in the dialog.
WorkflowStep ==
    \/ \E entry \in Entries : EnterDomains(entry)
    \/ ChooseValidation
    \/ EnterDays
    \/ NextStep
    \/ Previous
    \/ Submit
    \/ Cancel

WorkflowTypeOK ==
    /\ modal \in BOOLEAN
    /\ step \in 0..2
    /\ form \in Form
    /\ creating \in Form \cup {NoForm}

---------------------------------------------------------------------------
(* What the server asks of a certificate: redundantExactDomain, the        *)
(* accounts its validation needs, and the days before renewal.             *)
Covers(w, d) == IsWildcard(w) /\ ~IsWildcard(d) /\ Len(d) > 1 /\ Tail(w) = Tail(d)

ServerAccepts(f) ==
    /\ f.domains # <<>>
    /\ ~\E i, j \in DOMAIN f.domains : Covers(f.domains[i], f.domains[j])
    /\ f.acme
    /\ f.mode = "auto" => f.dns
    /\ f.days

(* Going back and forth, closing and reopening while an answer is under    *)
(* way: of what the dialog sends, the server's validation turns down a     *)
(* number of days only, which no step checks, never domains or accounts.   *)
RefusedForDaysOnly == creating # NoForm => ServerAccepts(creating) \/ ~creating.days
=============================================================================
