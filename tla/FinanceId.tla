------------------------------- MODULE FinanceId -------------------------------
(***************************************************************************)
(* The Finance and ID pathway: its page with the applications, from which  *)
(* FinanceIdController deletes, BankAccount and AddId; and the other pages *)
(* about a person that ask and tell the same API without a record of their *)
(* own, AddAppointment, SkipReport and Documents.                          *)
(***************************************************************************)
EXTENDS BankAccount, AddId, AddAppointment, SkipReport, Documents

LiveBank == { i \in Live : apps[i].kind = "bank" }
LiveIds == { i \in Live : apps[i].kind \in IdType }

ToAddBank == [view |-> "add-bank-account", params |-> NoParams]
ToUpdate(i) == [view |-> "add-bank-account-update-status",
                params |-> [NoParams EXCEPT !.id = i]]
ToResubmit(i) == [view |-> "add-bank-account",
                  params |-> [NoParams EXCEPT !.id = i, !.resubmit = TRUE]]
ToAddId(kinds) == [view |-> "add-id", params |-> [NoParams EXCEPT !.existingIdTypes = kinds]]
ToUpdateId(i) == [view |-> "add-id-update-status",
                  params |-> [NoParams EXCEPT !.id = i, !.kind = apps[i].kind]]
ToDelete(i) == [view |-> "delete", params |-> [NoParams EXCEPT !.id = i]]

(* Mutant of BankLinks: an application can be updated at any time.         *)
BankLinksAnyTime(i) == {ToDelete(i), ToUpdate(i)}

(* The buttons of a bank application, by its status. *)
BankLinks(i) ==
    {ToDelete(i)}
    \cup (IF apps[i].status = "Pending" THEN {ToUpdate(i)} ELSE {})
    \cup (IF apps[i].status \in {"Returned incomplete", "Returned inaccurate"}
          THEN {ToResubmit(i)} ELSE {})

IdLinks(ids) ==
    {ToAddId({ apps[i].kind : i \in ids })}
    \cup { ToDelete(i) : i \in ids }
    \cup { ToUpdateId(i) : i \in { j \in ids : apps[j].status = "Pending" } }

(* finance-id.njk: without a bank application, or if fetchFinance has      *)
(* failed, one can be added; without a list of IDs any kind can.           *)
ListPage(bank, ids) ==
    [view |-> "finance-id", params |-> NoParams,
     links |-> IdLinks(ids)
               \cup (IF bank = {} THEN {ToAddBank} ELSE UNION { BankLinks(i) : i \in bank })]

(* getView.  The API has one bank application to a person and tells one;   *)
(* to have none is an error of fetchFinance, too.                          *)
OpenList ==
    /\ UNCHANGED <<apiVars, creates>>
    /\ \/ /\ Fine
          /\ \E bank \in { {i} : i \in LiveBank } \cup (IF LiveBank = {} THEN {{}} ELSE {}) :
                screen' = ListPage(bank, LiveIds)
       \/ /\ Fault
          /\ \/ screen' = ListPage({}, LiveIds)
             \/ \E bank \in { {i} : i \in LiveBank } \cup {{}} : screen' = ListPage(bank, {})
             \/ screen' = OtherPage
    /\ Leave

OpenForm ==
    \E link \in screen.links :
        /\ link.view # "delete"
        /\ Show(PageOf(link.view, link.params))

(* postBankAccountDelete, postIdDelete. *)
DeleteApplication ==
    \E link \in screen.links :
        /\ link.view = "delete"
        /\ Press([do |-> "delete", id |-> link.params.id], OtherPage, OtherPage)

Next ==
    \/ OpenList \/ OpenForm \/ DeleteApplication
    \/ BankStep \/ IdStep \/ AppointmentStep \/ ReportStep \/ DocumentStep
    \/ PrisonerNotRead \/ UseOlderPage \/ LateWrite

Spec == Init /\ [][Next]_vars

-----------------------------------------------------------------------------
(* Properties.                                                             *)

(* As long as no call fails and no older page is used there is at most one *)
(* bank account, and one application for a kind of ID: the list offers no  *)
(* second account, and the kinds there are already travel hidden through   *)
(* both forms, every refusal and every Change.                             *)
OneOfEachKind ==
    calm => \A i, j \in LiveBank \cup LiveIds : apps[i].kind = apps[j].kind => i = j

(* Whatever fails, and from whatever old page Confirm is pressed, an       *)
(* application was sent with all that its form asks for, and so was every  *)
(* later change of it, the status of a bank's answer included, though the  *)
(* handlers of Confirm look at nothing and validateUpdate not at the       *)
(* status.  The one exception is Confirm on the page that shows nothing:   *)
(* no such application exists unless a call has failed.                    *)
WhatIsStoredWasAskedFor ==
    \A i \in Live : apps[i].complete \/ (apps[i].blind /\ ~calm)

(* Nothing that was answered for another kind of ID, before a Change, is   *)
(* sent when Confirm is pressed: the second form drops what the first one  *)
(* carries along.  The letter has no second form.                          *)
NothingFromAnotherKind ==
    screen.view = IdConfirm /\ screen.params.kind # NILetter =>
        SentWith(screen.params) \subseteq InputsFor(screen.params.kind) \cup {"submitted", "cost"}

(* However a call fails, and if its reply comes late, Confirm makes one    *)
(* application at most: RestClient does not try a post again.              *)
CreatedOnce ==
    Cardinality({ i \in AppId : apps[i] # Unused })
    + Cardinality({ l \in late : l[2].do = "create" }) <= creates

(* As long as no call fails and no older page is used, a final answer of   *)
(* the bank or of the issuer of an ID is never replaced, and one that was  *)
(* returned only by that to its resubmission.                              *)
OutcomeIsKept ==
    [][ \A i \in AppId : calm' /\ i \in Live /\ apps'[i] # apps[i] =>
          \/ apps'[i] = Deleted
          \/ apps[i].status = "Pending"
          \/ /\ apps[i].status \in {"Returned incomplete", "Returned inaccurate"}
             /\ apps'[i].status \in {"Account opened", "Account declined"}
      ]_vars

(* As long as no call fails and no older page is used, the immediate needs *)
(* report is only skipped if neither report has been started: the form is  *)
(* offered by two summaries that are read before it is shown, and is shown *)
(* again, after an answer that is missing, without them.                   *)
SkippedBeforeStart ==
    [][ \A i \in AppId : calm' /\ apps[i] = Unused /\ apps'[i] # Unused =>
          (apps'[i].kind = "skip" => \A type \in Report : ~Started(type))
      ]_vars
=============================================================================
