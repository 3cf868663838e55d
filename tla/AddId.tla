--------------------------------- MODULE AddId ---------------------------------
(***************************************************************************)
(* FinanceIdAddIdController: an ID is applied for by two forms, the second *)
(* for what its kind needs, and the answer recorded by another.  What was  *)
(* answered before travels with the user, visibly or not.                  *)
(***************************************************************************)
EXTENDS Applications

NILetter == "National Insurance Number letter"
Adoption == "Adoption certificate"
Divorce == "Divorce decree absolute certificate"
Licence == "Driving licence"
Certificate == {"Birth certificate", "Marriage certificate", "Civil partnership certificate"}

(* add-id-further.njk: the inputs for a kind, besides the cost. *)
InputsFor(kind) ==
    CASE kind \in Certificate -> {"haveGro", "overseas", "abroad", "country", "priority"}
      [] kind = Adoption -> {"haveGro", "priority"}
      [] kind = Divorce -> {"caseNumber", "court"}
      [] kind = Licence -> {"licenceType", "madeAt"}
      [] OTHER -> {}

(* add-id-confirm.njk: the rows of the page for a kind. *)
IdRows(p) ==
    {"submitted"}
    \cup (InputsFor(p.kind) \ {"abroad", "country"})
    \cup (IF p.kind \in Certificate /\ "abroad" \in p.given THEN {"country"} ELSE {})
    \cup (IF p.kind = NILetter THEN {} ELSE {"cost"})

(* The page sends its rows, and for a certificate the country even if      *)
(* nobody was born abroad; for every kind it sends the priority and the    *)
(* cost it finds, or else false and 0.                                     *)
SentWith(p) ==
    p.given \cap (IdRows(p) \cup (InputsFor(p.kind) \cap {"country"}) \cup {"priority", "cost"})

-----------------------------------------------------------------------------
(* Mutant of IdForm: the kinds there are already are not hidden in it.     *)
IdFormForAnyKind(params) ==
    FormOf("add-id", [params EXCEPT !.kind = NoKind, !.existingIdTypes = {}],
           IdField \ {"submitted"})

(* getAddAnIdView: the answers of the second form are hidden in the first. *)
IdForm(params) ==
    FormOf("add-id", [params EXCEPT !.kind = NoKind], IdField \ {"submitted"})

(* getAddAnIdFurtherView validates the first form. *)
FurtherForm(p) ==
    IF p.kind = NoKind \/ "submitted" \notin p.given THEN IdForm(p)
    ELSE IF p.kind = NILetter THEN PageOf(IdConfirm, p)
    ELSE PageOf("add-id-further", p)

(* getConfirmAddAnIdView validates the second form. *)
ValidId(p) ==
    /\ "cost" \in p.given
    /\ p.kind \in Certificate => /\ {"haveGro", "overseas", "priority"} \subseteq p.given
                                 /\ "abroad" \in p.given => "country" \in p.given
    /\ p.kind = Adoption => {"haveGro", "priority"} \subseteq p.given
    /\ p.kind = Divorce => {"caseNumber", "court"} \subseteq p.given
    /\ p.kind = Licence => {"licenceType", "madeAt"} \subseteq p.given

(* add-id.njk: a kind and a date are chosen, all answers of the second     *)
(* form and the kinds there are already are hidden.  A kind there is       *)
(* already cannot be chosen.                                               *)
SubmitIdForm ==
    /\ screen.view = "add-id"
    /\ \E kind \in ((scenario.kinds \cap IdType) \ screen.params.existingIdTypes) \cup {NoKind},
          date \in SUBSET {"submitted"} :
          Show(FurtherForm([screen.params EXCEPT !.kind = kind,
                                                 !.given = @ \cup date]))

(* Mutant of KeptByFurther: the answers for another kind stay. *)
KeptWithLeftovers(p, given) == given \cup p.given

(* add-id-further.njk: the date, the kind and the kinds there are already  *)
(* are hidden, nothing else.                                               *)
KeptByFurther(p, given) == given \cup (p.given \cap {"submitted"})

SubmitFurtherForm ==
    /\ screen.view = "add-id-further"
    /\ \E given \in SUBSET (InputsFor(screen.params.kind) \cup {"cost"}) :
          LET p == [screen.params EXCEPT !.given = KeptByFurther(screen.params, given)] IN
          /\ "abroad" \in given => "overseas" \in given
          /\ Show(IF ValidId(p) THEN PageOf(IdConfirm, p) ELSE screen)

(* Change, to the first or the second form, with the page's query string.  *)
ChangeId ==
    /\ screen.view = IdConfirm
    /\ \/ Show(IdForm(screen.params))
       \/ screen.params.kind # NILetter /\ Show(FurtherForm(screen.params))

(* postIdSubmitView.  After a failed call the page cannot be rendered: the *)
(* date it formats is not in req.body.                                     *)
SubmitId ==
    LET p == screen.params IN
    /\ screen.view = IdConfirm
    /\ Press([do |-> "create", kind |-> p.kind, blind |-> FALSE,
              complete |-> IdRows(p) \subseteq SentWith(p)],
             OtherPage, OtherPage)

-----------------------------------------------------------------------------
(* getUpdateIdStatusView. *)
IdUpdateForm(params) == FormOf("add-id-update-status", params, {})

(* getConfirmAddAnIdStatusView.  "Added to personal items" may be left     *)
(* over in the part of the form that is hidden once Rejected is chosen.    *)
ValidIdUpdate(p) ==
    /\ p.status = "Rejected" => "refund" \in p.given
    /\ p.status # "Rejected" => /\ p.status # NoStatus
                                /\ {"inItems", "noItems"} \cap p.given # {}
                                /\ "received" \in p.given
    /\ "inItems" \in p.given => "itemsDate" \in p.given

(* add-id-update-status-confirm.njk: the rows. *)
IdUpdateRows(p) ==
    CASE p.status = "Accepted" ->
           {"received", IF "inItems" \in p.given THEN "itemsDate" ELSE "noItems"}
      [] p.status = "Rejected" -> IF p.kind = NILetter THEN {} ELSE {"refund"}
      [] p.status = NoStatus -> {}

(* add-id-update-status.njk: the refund of a letter is hidden, and 0. *)
SubmitIdUpdateForm ==
    /\ screen.view = "add-id-update-status"
    /\ \E status \in {NoStatus} \cup IdStatus, given \in SUBSET IdUpdateField :
          LET p == [screen.params EXCEPT !.status = status, !.given = given] IN
          /\ ~({"inItems", "noItems"} \subseteq given)
          /\ p.kind = NILetter => "refund" \in given
          /\ Show(IF ValidIdUpdate(p)
                  THEN PageOf(IdUpdateConfirm,
                              [p EXCEPT !.given = @ \cap (IdUpdateRows(p) \cup {"inItems"})])
                  ELSE screen)

ChangeIdUpdate ==
    /\ screen.view = IdUpdateConfirm
    /\ Show(IdUpdateForm(screen.params))

(* postIdUpdateView.  After a failed call req.body has the page's status   *)
(* and refund, but not the dates of an Accepted.                           *)
UpdateId ==
    LET p == screen.params IN
    /\ screen.view = IdUpdateConfirm
    /\ Press([do |-> "change", id |-> p.id, status |-> p.status,
              complete |-> p.status # NoStatus /\ IdUpdateRows(p) \subseteq p.given],
             OtherPage, IF p.status = "Rejected" THEN screen ELSE OtherPage)

IdStep ==
    \/ SubmitIdForm \/ SubmitFurtherForm \/ ChangeId \/ SubmitId
    \/ SubmitIdUpdateForm \/ ChangeIdUpdate \/ UpdateId
=============================================================================
