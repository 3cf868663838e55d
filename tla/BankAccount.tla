------------------------------ MODULE BankAccount ------------------------------
(***************************************************************************)
(* FinanceIdBankAccountController: a bank account is applied for, and the  *)
(* bank's answer recorded, by a form, a page to check it and Confirm.  One *)
(* view serves the first application and a resubmission, one handler       *)
(* validates three forms, one page confirms them.                          *)
(***************************************************************************)
EXTENDS Applications

(* getAddABankAccountView, getUpdateBankAccountStatusView: a form with the *)
(* query string of the link.                                               *)
BankForm(params, view) == FormOf(view, params, {})

(* What a form asks for, by the answers that lead to more questions.       *)
Opened(given) ==
    /\ "opened" \in given
    /\ {"inItems", "noItems"} \cap given # {}
    /\ "inItems" \in given => "itemsDate" \in given

ValidNewAccount(p) == {"bankName", "submitted"} \subseteq p.given

ValidResubmit(p) ==
    /\ "resubmitted" \in p.given
    /\ p.status # NoStatus
    /\ p.status = "Account declined" => "heardBack" \in p.given
    /\ p.status = "Account opened" => Opened(p.given)

(* Mutant of ValidUpdate: only an account that was opened is validated.    *)
ValidIfOpened(p) == p.status = "Account opened" => Opened(p.given)

(* Whether a status was chosen is not looked at: the form sees to that.    *)
ValidUpdate(p) ==
    IF p.status = "Account opened" THEN Opened(p.given) ELSE "heardBack" \in p.given

(* The inputs of the forms.  Only one of the radio buttons is chosen.      *)
Answers(fields) == { given \in SUBSET fields : ~({"inItems", "noItems"} \subseteq given) }
NewAccountFields == {"bankName", "submitted"}
ResubmitFields == {"resubmitted", "heardBack", "opened", "inItems", "noItems", "itemsDate"}
UpdateFields == {"heardBack", "opened", "inItems", "noItems", "itemsDate"}

(* add-bank-account.njk and add-bank-account-update-status.njk: the answers, *)
(* and what is hidden.                                                     *)
FilledIn(page, status, given) ==
    [page.params EXCEPT !.status = status, !.given = given,
        !.confirmationType = IF page.view = "add-bank-account-update-status" THEN "updateStatus"
                             ELSE IF page.params.resubmit THEN "resubmit"
                             ELSE "addAccount"]

(* add-bank-account-confirm.njk: the rows of the page, each with a hidden  *)
(* input.  All of them should have a value.                                *)
BankRows(p) ==
    LET openedRows == {"opened", IF "inItems" \in p.given THEN "itemsDate" ELSE "noItems"} IN
    CASE p.confirmationType = "addAccount" -> {"bankName", "submitted"}
      [] p.confirmationType = "resubmit" ->
           {"resubmitted"} \cup (IF p.status = "Account opened" THEN openedRows ELSE {})
                           \cup (IF p.status = "Account declined" THEN {"heardBack"} ELSE {})
      [] p.confirmationType = "updateStatus" ->
           IF p.status = "Account opened" THEN openedRows ELSE {"heardBack"}
      [] p.confirmationType = "none" -> {}

(* What the forms ask for is a value in every row, and a status if it is   *)
(* an answer of the bank that is recorded.                                 *)
BankComplete(p) ==
    /\ p.confirmationType # "none"
    /\ p.confirmationType \in {"updateStatus", "resubmit"} => p.status # NoStatus
    /\ BankRows(p) \subseteq p.given

(* getConfirmAddABankAccountView.                                          *)
ConfirmPage(page, p) ==
    LET again == page
        confirm == PageOf(BankConfirm, [p EXCEPT !.given = @ \cap (BankRows(p) \cup {"inItems"})])
    IN
    CASE p.confirmationType = "addAccount" ->
           IF ValidNewAccount(p) THEN confirm ELSE again
      [] p.confirmationType = "resubmit" \/ (p.resubmit /\ p.confirmationType # "addAccount") ->
           IF ValidResubmit(p) THEN confirm ELSE again
      [] p.confirmationType = "updateStatus" /\ ~p.resubmit ->
           IF ValidUpdate(p) THEN confirm ELSE again
      [] OTHER -> OtherPage

(* The rest of add-bank-account-update-status.njk, its Submit included, is *)
(* hidden as long as no status is chosen.                                  *)
SubmitBankForm ==
    /\ \/ /\ screen.view = "add-bank-account"
          /\ ~screen.params.resubmit
          /\ \E given \in Answers(NewAccountFields) :
                Show(ConfirmPage(screen, FilledIn(screen, NoStatus, given)))
       \/ /\ screen.view = "add-bank-account"
          /\ screen.params.resubmit
          /\ \E given \in Answers(ResubmitFields),
                status \in {NoStatus, "Account opened", "Account declined"} :
                Show(ConfirmPage(screen, FilledIn(screen, status, given)))
       \/ /\ screen.view = "add-bank-account-update-status"
          /\ \E given \in Answers(UpdateFields), status \in BankStatus :
                Show(ConfirmPage(screen, FilledIn(screen, status, given)))

(* The Change links of the page, which are with the answers it shows: to   *)
(* the form with the page's own query string.                              *)
ChangeBank ==
    /\ screen.view = BankConfirm
    /\ screen.params.confirmationType # "none"
    /\ Show(BankForm(screen.params, IF screen.params.confirmationType = "updateStatus"
                                    THEN "add-bank-account-update-status"
                                    ELSE "add-bank-account"))

(* Mutant of Blank: a type that the page knows nothing of.                 *)
BlankOfUnknownType(p) == [NoParams EXCEPT !.id = p.id, !.confirmationType = "undefined"]

(* After a failed call the page is rendered with req.body, which has the   *)
(* applicationId but no confirmationType: it shows no answers, and its     *)
(* Confirm is for a new application, whatever it was for.                  *)
Blank(p) == [NoParams EXCEPT !.id = p.id]

(* postBankAccountSubmitView, for the page of a new application and for    *)
(* the one that is blank.                                                  *)
SubmitBankAccount ==
    LET p == screen.params IN
    /\ screen.view = BankConfirm
    /\ p.confirmationType \notin {"updateStatus", "resubmit"}
    /\ Press([do |-> "create", kind |-> "bank", complete |-> BankComplete(p),
              blind |-> p.confirmationType = "none"],
             OtherPage, PageOf(BankConfirm, Blank(p)))

(* postBankAccountUpdateView. *)
UpdateBankAccount ==
    LET p == screen.params IN
    /\ screen.view = BankConfirm
    /\ p.confirmationType \in {"updateStatus", "resubmit"}
    /\ Press([do |-> "change", id |-> p.id, status |-> p.status, complete |-> BankComplete(p)],
             OtherPage, PageOf(BankConfirm, Blank(p)))

BankStep == SubmitBankForm \/ ChangeBank \/ SubmitBankAccount \/ UpdateBankAccount
=============================================================================
