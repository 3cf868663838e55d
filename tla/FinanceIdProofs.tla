---------------------------- MODULE FinanceIdProofs ----------------------------
(***************************************************************************)
(* For any kinds of ID, any number of applications and of mishaps: the     *)
(* types of the Finance and ID pages, that what they store is complete,    *)
(* and, as long as nothing goes wrong, that there is one application of a  *)
(* kind and that its outcome is kept.                                      *)
(*                                                                         *)
(* The server keeps nothing between two pages, so all of it depends on     *)
(* what a page carries to the next one: the invariant is about the pages   *)
(* that can be on the screen, and about the one that was before.           *)
(***************************************************************************)
EXTENDS FinanceId, FiniteSetTheorems, TLAPS

(* What is true of every page, however it came to be shown: of a view with *)
(* the parameters it was rendered with, or of a link to one.               *)
SoundView(v, p) ==
    /\ v \in {"add-bank-account-update-status", "add-id-update-status",
              IdUpdateConfirm, "delete"} => p.id \in AppId
    /\ v = "add-bank-account" /\ p.resubmit => p.id \in AppId
    /\ v = "add-bank-account-update-status" => ~p.resubmit
    /\ v = BankConfirm =>
         /\ p.confirmationType # "none" => BankRows(p) \subseteq p.given
         /\ p.confirmationType = "addAccount" => ~p.resubmit
         /\ p.confirmationType = "updateStatus" =>
              ~p.resubmit /\ p.id \in AppId /\ p.status # NoStatus
         /\ p.confirmationType = "resubmit" =>
              /\ p.resubmit /\ p.id \in AppId
              /\ p.status \in {"Account opened", "Account declined"}
    /\ v = "add-id-further" => /\ p.kind \in IdType \ {NILetter}
                               /\ "submitted" \in p.given
    /\ v = IdConfirm =>
         /\ p.kind \in IdType
         /\ IdRows(p) \subseteq p.given
         /\ p.kind # NILetter =>
              p.given \subseteq InputsFor(p.kind) \cup {"submitted", "cost"}
    /\ v = IdUpdateConfirm => p.status \in IdStatus /\ IdUpdateRows(p) \subseteq p.given
    /\ v = AppointmentConfirm => AppointmentField \subseteq p.given
    /\ v = "assessment-task-list" => p.kind \in Report

SoundPage ==
    { page \in Page : /\ SoundView(page.view, page.params)
                      /\ \A link \in page.links : SoundView(link.view, link.params) }

(* A write that the API keeps, at once or late. *)
Sent(w) ==
    /\ w.do = "create" => w.complete \/ w.blind
    /\ w.do = "change" => w.complete
SoundWrite == { w \in Write : Sent(w) }
SoundApp == { a \in Application : a.complete \/ a.blind }

IInv ==
    /\ apps \in [AppId -> SoundApp \cup {Unused, Deleted}]
    /\ late \subseteq (1..scenario.mishaps) \X SoundWrite
    /\ creates \in 0..scenario.creates
    /\ screen \in SoundPage
    /\ past \in SoundPage
    /\ mishaps \in 0..scenario.mishaps
    /\ calm \in BOOLEAN
    /\ scenario \in Scenario

(* These are but names of views. *)
USE DEF BankConfirm, IdConfirm, IdUpdateConfirm, AppointmentConfirm

-----------------------------------------------------------------------------
(* The API and the browser. *)

LEMMA Nothing == /\ NoParams \in Params
                 /\ OtherPage \in SoundPage
                 /\ \A v \in View, p \in Params : PageOf(v, p) \in Page
<1>1. NoParams \in Params
  BY DEF NoParams, Params, NoStatus, Status
<1>2. \A v \in View, p \in Params : PageOf(v, p) \in Page
  BY DEF PageOf, Page
<1>3. SoundView("other", NoParams)
  BY DEF SoundView
<1>4. OtherPage.view = "other" /\ OtherPage.params = NoParams /\ OtherPage.links = {}
  BY DEF OtherPage, PageOf
<1>5. OtherPage \in Page
  BY <1>1, <1>2 DEF OtherPage, View
<1> QED BY <1>1, <1>2, <1>3, <1>4, <1>5 DEF SoundPage

LEMMA SoundOf ==
    ASSUME NEW v \in View, NEW p \in Params, SoundView(v, p)
    PROVE  PageOf(v, p) \in SoundPage
BY Nothing DEF SoundPage, PageOf

LEMMA ScenarioFacts ==
    ASSUME IInv
    PROVE  scenario.mishaps \in Nat /\ scenario.creates \in 0..MaxApps /\ MaxApps \in Nat
           /\ scenario.kinds \subseteq Kind
BY ApplicationsAssumption DEF IInv

LEMMA AfterIsSound ==
    ASSUME IInv, NEW w \in SoundWrite, Possible(w)
    PROVE  After(w) \in [AppId -> SoundApp \cup {Unused, Deleted}]
<1> USE DEF IInv
<1>1. CASE w.do = "create"
  <2>1. [kind |-> w.kind, status |-> "Pending", complete |-> w.complete, blind |-> w.blind]
            \in SoundApp
    BY <1>1 DEF SoundWrite, Sent, Write, SoundApp, Application, Status
  <2> QED BY <1>1, <2>1 DEF After
<1>2. CASE w.do = "change"
  <2>1. w.id \in Live /\ w.complete /\ w.status \in Status /\ w.id \in AppId
    BY <1>2 DEF SoundWrite, Sent, Write, Possible, Live
  <2>2. apps[w.id] \in SoundApp
    BY <2>1, ApplicationsAssumption DEF Live, SoundApp
  <2>3. Changed(apps[w.id], w) \in SoundApp
    BY <2>1, <2>2 DEF SoundApp, Application, Changed
  <2> QED BY <1>2, <2>3 DEF After
<1>3. CASE w.do = "delete"
  BY <1>3 DEF After
<1> QED BY <1>1, <1>2, <1>3 DEF SoundWrite, Write

LEMMA FaultIsSound ==
    ASSUME IInv, Fault
    PROVE  /\ scenario' = scenario /\ mishaps' \in 0..scenario.mishaps /\ calm' = FALSE
           /\ mishaps + 1 \in 1..scenario.mishaps
BY ScenarioFacts DEF Fault, IInv

LEMMA LeaveIsSound == ASSUME IInv, Leave PROVE past' \in SoundPage
BY Nothing DEF Leave, IInv

LEMMA InterruptedIsSound ==
    ASSUME IInv, NEW w \in SoundWrite, Possible(w), Interrupted(w), Fault
    PROVE  /\ apps' \in [AppId -> SoundApp \cup {Unused, Deleted}]
           /\ late' \subseteq (1..scenario.mishaps) \X SoundWrite
<1>1. After(w) \in [AppId -> SoundApp \cup {Unused, Deleted}]
  BY AfterIsSound
<1>2. <<mishaps + 1, w>> \in (1..scenario.mishaps) \X SoundWrite
  BY FaultIsSound
<1>3. /\ apps' = apps \/ apps' = After(w)
      /\ late' = late \/ late' = late \cup {<<mishaps + 1, w>>}
  BY DEF Interrupted, apiVars
<1>4. scenario' = scenario
  BY FaultIsSound
<1> QED BY <1>1, <1>2, <1>3, <1>4 DEF IInv

LEMMA CallIsSound ==
    ASSUME IInv, NEW w \in SoundWrite, NEW done \in SoundPage, NEW failed \in SoundPage,
           Call(w, done, failed)
    PROVE  /\ apps' \in [AppId -> SoundApp \cup {Unused, Deleted}]
           /\ late' \subseteq (1..scenario.mishaps) \X SoundWrite
           /\ screen' \in SoundPage
           /\ mishaps' \in 0..scenario.mishaps /\ calm' \in BOOLEAN /\ scenario' = scenario
<1>1. CASE /\ Possible(w) /\ apps' = After(w) /\ screen' = done
           /\ UNCHANGED late /\ Fine
  BY <1>1, AfterIsSound DEF Fine, IInv
<1>2. CASE screen' = failed /\ calm' = FALSE /\ UNCHANGED <<apiVars, mishaps, scenario>>
  BY <1>2 DEF apiVars, IInv
<1>3. CASE Possible(w) /\ Fault /\ Interrupted(w) /\ screen' = failed
  BY <1>3, FaultIsSound, InterruptedIsSound
<1> QED BY <1>1, <1>2, <1>3 DEF Call

LEMMA PressIsSound ==
    ASSUME IInv, NEW w \in SoundWrite, NEW done \in SoundPage, NEW failed \in SoundPage,
           Press(w, done, failed)
    PROVE  IInv'
<1>1. creates' \in 0..scenario.creates
  BY ScenarioFacts DEF Press, IInv
<1>2. past' \in SoundPage
  BY LeaveIsSound DEF Press
<1>3. scenario' = scenario /\ scenario \in Scenario
  BY CallIsSound DEF Press, IInv
<1> QED BY <1>1, <1>2, <1>3, CallIsSound DEF Press, IInv

LEMMA ShowIsSound ==
    ASSUME IInv, NEW page \in SoundPage, Show(page)
    PROVE  IInv'
BY DEF Show, IInv, apiVars, Fine

-----------------------------------------------------------------------------
(* The bank account. *)

LEMMA BankFormIsSound ==
    ASSUME NEW p \in Params, NEW v \in {"add-bank-account", "add-bank-account-update-status"},
           p.resubmit => v = "add-bank-account" /\ p.id \in AppId,
           v = "add-bank-account-update-status" => p.id \in AppId
    PROVE  BankForm(p, v) \in SoundPage
<1> DEFINE q == [p EXCEPT !.status = NoStatus, !.confirmationType = "none", !.given = @ \cap {}]
<1>1. q \in Params /\ q.id = p.id /\ q.resubmit = p.resubmit
  BY DEF Params, Status, NoStatus
<1>2. SoundView(v, q)
  BY <1>1 DEF SoundView
<1> QED BY <1>1, <1>2, SoundOf DEF BankForm, FormOf, View

(* What the user may have filled in, on either page with a form. *)
LEMMA FilledInIsSound ==
    ASSUME NEW page \in SoundPage, NEW status \in Status, NEW given \in SUBSET Field,
           page.view \in {"add-bank-account", "add-bank-account-update-status"},
           page.view = "add-bank-account" /\ page.params.resubmit
               => status \in {NoStatus, "Account opened", "Account declined"},
           page.view = "add-bank-account-update-status" => status \in BankStatus
    PROVE  ConfirmPage(page, FilledIn(page, status, given)) \in SoundPage
<1> DEFINE p == FilledIn(page, status, given)
           type == IF page.view = "add-bank-account-update-status" THEN "updateStatus"
                   ELSE IF page.params.resubmit THEN "resubmit"
                   ELSE "addAccount"
           q == [p EXCEPT !.given = @ \cap (BankRows(p) \cup {"inItems"})]
<1>1. page.params \in Params /\ SoundView(page.view, page.params)
  BY DEF SoundPage, Page
<1>2. /\ p \in Params /\ p.id = page.params.id /\ p.resubmit = page.params.resubmit
      /\ p.status = status /\ p.given = given /\ p.confirmationType = type
  BY <1>1 DEF FilledIn, Params
<1>3. /\ q \in Params /\ q.id = p.id /\ q.resubmit = p.resubmit /\ q.status = p.status
      /\ q.confirmationType = type /\ q.given = given \cap (BankRows(p) \cup {"inItems"})
  BY <1>2 DEF Params
<1>4. BankRows(q) = BankRows(p)
  BY <1>2, <1>3 DEF BankRows
<1>5. ASSUME BankRows(p) \subseteq given,
             type \in {"resubmit", "updateStatus"} => status # NoStatus
      PROVE  PageOf(BankConfirm, q) \in SoundPage
  <2>1. SoundView(BankConfirm, q)
    BY <1>1, <1>2, <1>3, <1>4, <1>5
    DEF SoundView, NoStatus
  <2> QED BY <2>1, <1>3, SoundOf DEF View
<1>6. CASE type = "addAccount" /\ ValidNewAccount(p)
  BY <1>2, <1>5, <1>6 DEF ConfirmPage, ValidNewAccount, BankRows
<1>7. CASE type = "resubmit" /\ ValidResubmit(p)
  <2>1. BankRows(p) \subseteq given /\ status # NoStatus
    BY <1>2, <1>7 DEF ValidResubmit, Opened, BankRows
  <2> QED BY <1>2, <1>5, <1>7, <2>1 DEF ConfirmPage
<1>8. CASE type = "updateStatus" /\ ValidUpdate(p)
  <2>1. BankRows(p) \subseteq given /\ ~p.resubmit
    BY <1>1, <1>2, <1>8 DEF ValidUpdate, Opened, BankRows, SoundView
  <2>2. status # NoStatus
    BY <1>8 DEF BankStatus, NoStatus
  <2> QED BY <1>2, <1>5, <1>8, <2>1, <2>2 DEF ConfirmPage
<1>9. CASE \/ type = "addAccount" /\ ~ValidNewAccount(p)
           \/ type = "resubmit" /\ ~ValidResubmit(p)
           \/ type = "updateStatus" /\ ~ValidUpdate(p)
  <2>1. type = "updateStatus" => ~p.resubmit
    BY <1>1, <1>2 DEF SoundView
  <2>2. type = "resubmit" => p.resubmit
    BY <1>2
  <2>3. ConfirmPage(page, p) = page
    BY <1>2, <1>9, <2>1, <2>2 DEF ConfirmPage
  <2> QED BY <2>3
<1> QED BY <1>6, <1>7, <1>8, <1>9

LEMMA SubmitBankFormIsSound == ASSUME IInv, SubmitBankForm PROVE IInv'
<1>1. \A fields \in SUBSET Field : Answers(fields) \subseteq SUBSET Field
  BY DEF Answers
<1>2. /\ NewAccountFields \subseteq Field /\ ResubmitFields \subseteq Field
      /\ UpdateFields \subseteq Field
  BY DEF NewAccountFields, ResubmitFields, UpdateFields, Field, BankField
<1>3. \E given \in SUBSET Field, status \in Status :
          /\ Show(ConfirmPage(screen, FilledIn(screen, status, given)))
          /\ screen.view \in {"add-bank-account", "add-bank-account-update-status"}
          /\ screen.view = "add-bank-account" /\ screen.params.resubmit
               => status \in {NoStatus, "Account opened", "Account declined"}
          /\ screen.view = "add-bank-account-update-status" => status \in BankStatus
  BY <1>1, <1>2 DEF SubmitBankForm, Status, BankStatus
<1> QED BY <1>3, FilledInIsSound, ShowIsSound DEF IInv

LEMMA ScreenFacts ==
    ASSUME IInv
    PROVE  /\ screen \in Page /\ screen.params \in Params /\ screen.view \in View
           /\ SoundView(screen.view, screen.params)
           /\ screen.links \subseteq Link
           /\ \A link \in screen.links : SoundView(link.view, link.params)
BY DEF IInv, SoundPage, Page

LEMMA ChangeBankIsSound == ASSUME IInv, ChangeBank PROVE IInv'
<1>1. screen.params.confirmationType \in {"addAccount", "resubmit", "updateStatus"}
  BY ScreenFacts DEF ChangeBank, Params
<1>2. BankForm(screen.params, IF screen.params.confirmationType = "updateStatus"
                              THEN "add-bank-account-update-status"
                              ELSE "add-bank-account") \in SoundPage
  BY <1>1, ScreenFacts, BankFormIsSound DEF ChangeBank, SoundView
<1> QED BY <1>2, ShowIsSound DEF ChangeBank

LEMMA BlankIsSound ==
    ASSUME NEW p \in Params
    PROVE  PageOf(BankConfirm, Blank(p)) \in SoundPage
<1>1. Blank(p) \in Params /\ Blank(p).confirmationType = "none"
  BY Nothing DEF Blank, NoParams, Params
<1>2. SoundView(BankConfirm, Blank(p))
  BY <1>1 DEF SoundView
<1> QED BY <1>1, <1>2, SoundOf DEF View

(* What Confirm asks the API to do. *)
NewAccount(p) == [do |-> "create", kind |-> "bank", complete |-> BankComplete(p),
                  blind |-> p.confirmationType = "none"]
AccountUpdate(p) == [do |-> "change", id |-> p.id, status |-> p.status,
                     complete |-> BankComplete(p)]

LEMMA NewAccountIsSound ==
    ASSUME IInv, SubmitBankAccount PROVE NewAccount(screen.params) \in SoundWrite
BY ScreenFacts DEF SubmitBankAccount, SoundView, BankComplete, SoundWrite, Sent, Write, Kind,
   OtherKind, Params, NewAccount

LEMMA AccountUpdateIsSound ==
    ASSUME IInv, UpdateBankAccount PROVE AccountUpdate(screen.params) \in SoundWrite
<1> DEFINE p == screen.params
<1>1. p.id \in AppId /\ BankComplete(p) /\ p.status \in Status
  BY ScreenFacts DEF UpdateBankAccount, SoundView, BankComplete, Params, NoStatus
<1> QED BY <1>1 DEF SoundWrite, Sent, Write, AccountUpdate

LEMMA SubmitBankAccountIsSound == ASSUME IInv, SubmitBankAccount PROVE IInv'
BY NewAccountIsSound, PressIsSound, BlankIsSound, Nothing, ScreenFacts
DEF SubmitBankAccount, NewAccount

LEMMA UpdateBankAccountIsSound == ASSUME IInv, UpdateBankAccount PROVE IInv'
BY AccountUpdateIsSound, PressIsSound, BlankIsSound, Nothing, ScreenFacts
DEF UpdateBankAccount, AccountUpdate

-----------------------------------------------------------------------------
(* IDs. *)

LEMMA IdFormIsSound ==
    ASSUME NEW p \in Params
    PROVE  IdForm(p) \in SoundPage
<1> DEFINE q == [[p EXCEPT !.kind = NoKind] EXCEPT !.status = NoStatus,
                    !.confirmationType = "none", !.given = @ \cap (IdField \ {"submitted"})]
<1>1. q \in Params
  BY DEF Params, Status, NoStatus
<1>2. SoundView("add-id", q)
  BY DEF SoundView
<1> QED BY <1>1, <1>2, SoundOf DEF IdForm, FormOf, View

LEMMA FurtherFormIsSound ==
    ASSUME NEW p \in Params, p.kind \in IdType \cup {NoKind}
    PROVE  FurtherForm(p) \in SoundPage
<1>1. CASE p.kind = NoKind \/ "submitted" \notin p.given
  BY <1>1, IdFormIsSound DEF FurtherForm
<1>2. CASE p.kind # NoKind /\ "submitted" \in p.given /\ p.kind = NILetter /\ p.kind \in IdType
  <2>1. InputsFor(NILetter) = {}
    BY DEF InputsFor, NILetter, Certificate, Adoption, Divorce, Licence
  <2>2. SoundView(IdConfirm, p)
    BY <1>2, <2>1
    DEF SoundView, IdRows, NILetter, Certificate
  <2> QED BY <1>2, <2>2, SoundOf DEF FurtherForm, View
<1>3. CASE p.kind \in IdType \ {NILetter} /\ p.kind # NoKind /\ "submitted" \in p.given
  <2>1. SoundView("add-id-further", p)
    BY <1>3 DEF SoundView
  <2> QED BY <1>3, <2>1, SoundOf DEF FurtherForm, View
<1> QED BY <1>1, <1>2, <1>3

LEMMA SubmitIdFormIsSound == ASSUME IInv, SubmitIdForm PROVE IInv'
<1>1. PICK kind \in IdType \cup {NoKind}, date \in SUBSET {"submitted"} :
          Show(FurtherForm([screen.params EXCEPT !.kind = kind, !.given = @ \cup date]))
  BY DEF SubmitIdForm
<1> DEFINE p == [screen.params EXCEPT !.kind = kind, !.given = @ \cup date]
<1>2. date \subseteq Field
  BY DEF Field, IdField
<1>3. p \in Params /\ p.kind = kind
  BY <1>2, ScreenFacts DEF Params, Kind
<1> QED BY <1>1, <1>3, FurtherFormIsSound, ShowIsSound

(* What a valid post of the second form leads to. *)
LEMMA ConfirmIdIsSound ==
    ASSUME NEW p \in Params, p.kind \in IdType, p.kind # NILetter, "submitted" \in p.given,
           p.given \subseteq InputsFor(p.kind) \cup {"submitted", "cost"}, ValidId(p)
    PROVE  PageOf(IdConfirm, p) \in SoundPage
<1>1. "cost" \in p.given
  BY DEF ValidId
<1>2. InputsFor(p.kind) \ {"abroad", "country"} \subseteq p.given
  <2>1. CASE p.kind \in Certificate
    BY <2>1 DEF ValidId, InputsFor
  <2>2. CASE p.kind = Adoption /\ p.kind \notin Certificate
    BY <2>2 DEF ValidId, InputsFor
  <2>3. CASE p.kind = Divorce /\ p.kind \notin Certificate
    BY <2>3 DEF ValidId, InputsFor, Divorce, Adoption
  <2>4. CASE p.kind = Licence /\ p.kind \notin Certificate
    BY <2>4 DEF ValidId, InputsFor, Divorce, Adoption, Licence
  <2>5. CASE p.kind \notin Certificate /\ p.kind \notin {Adoption, Divorce, Licence}
    BY <2>5 DEF InputsFor
  <2> QED BY <2>1, <2>2, <2>3, <2>4, <2>5
<1>3. p.kind \in Certificate /\ "abroad" \in p.given => "country" \in p.given
  BY DEF ValidId
<1>4. IdRows(p) \subseteq p.given
  BY <1>1, <1>2, <1>3 DEF IdRows
<1>5. SoundView(IdConfirm, p)
  BY <1>4 DEF SoundView
<1> QED BY <1>5, SoundOf DEF View

LEMMA SubmitFurtherFormIsSound == ASSUME IInv, SubmitFurtherForm PROVE IInv'
<1>1. PICK given \in SUBSET (InputsFor(screen.params.kind) \cup {"cost"}) :
          LET p == [screen.params EXCEPT !.given = KeptByFurther(screen.params, given)] IN
          Show(IF ValidId(p) THEN PageOf(IdConfirm, p) ELSE screen)
  BY DEF SubmitFurtherForm
<1> DEFINE kept == KeptByFurther(screen.params, given)
           p == [screen.params EXCEPT !.given = kept]
<1>2. InputsFor(screen.params.kind) \cup {"cost"} \subseteq Field
  BY DEF InputsFor, Field, IdField
<1>3. screen.params.kind \in IdType \ {NILetter} /\ "submitted" \in screen.params.given
  BY ScreenFacts DEF SubmitFurtherForm, SoundView
<1>4. /\ kept \subseteq InputsFor(screen.params.kind) \cup {"submitted", "cost"}
      /\ "submitted" \in kept /\ kept \subseteq Field
  BY <1>2, <1>3, ScreenFacts DEF KeptByFurther, Params
<1>5. p \in Params /\ p.kind = screen.params.kind /\ p.given = kept
  BY <1>4, ScreenFacts DEF Params
<1>6. ValidId(p) => PageOf(IdConfirm, p) \in SoundPage
  BY <1>3, <1>4, <1>5, ConfirmIdIsSound
<1> QED BY <1>1, <1>6, ShowIsSound DEF IInv

LEMMA ChangeIdIsSound == ASSUME IInv, ChangeId PROVE IInv'
<1>1. screen.params.kind \in IdType
  BY ScreenFacts DEF ChangeId, SoundView
<1> QED BY <1>1, ScreenFacts, IdFormIsSound, FurtherFormIsSound, ShowIsSound DEF ChangeId

NewId(p) == [do |-> "create", kind |-> p.kind, blind |-> FALSE,
             complete |-> IdRows(p) \subseteq SentWith(p)]
IdUpdate(p) == [do |-> "change", id |-> p.id, status |-> p.status,
                complete |-> p.status # NoStatus /\ IdUpdateRows(p) \subseteq p.given]

LEMMA NewIdIsSound ==
    ASSUME IInv, SubmitId
    PROVE  NewId(screen.params) \in SoundWrite /\ screen.params.kind \in IdType
<1> DEFINE p == screen.params
<1>1. IdRows(p) \subseteq SentWith(p) /\ p.kind \in IdType
  BY ScreenFacts DEF SubmitId, SoundView, SentWith
<1> QED BY <1>1 DEF SoundWrite, Sent, Write, Kind, NewId

LEMMA IdUpdateIsSound ==
    ASSUME IInv, UpdateId PROVE IdUpdate(screen.params) \in SoundWrite
<1> DEFINE p == screen.params
<1>1. p.id \in AppId /\ p.status \in IdStatus /\ IdUpdateRows(p) \subseteq p.given
  BY ScreenFacts DEF UpdateId, SoundView
<1> QED BY <1>1 DEF SoundWrite, Sent, Write, Status, IdStatus, NoStatus, IdUpdate

LEMMA SubmitIdIsSound == ASSUME IInv, SubmitId PROVE IInv'
BY NewIdIsSound, PressIsSound, Nothing DEF SubmitId, NewId

LEMMA SubmitIdUpdateFormIsSound == ASSUME IInv, SubmitIdUpdateForm PROVE IInv'
<1>1. PICK status \in {NoStatus} \cup IdStatus, given \in SUBSET IdUpdateField :
          LET p == [screen.params EXCEPT !.status = status, !.given = given] IN
          /\ p.kind = NILetter => "refund" \in given
          /\ Show(IF ValidIdUpdate(p)
                  THEN PageOf(IdUpdateConfirm,
                              [p EXCEPT !.given = @ \cap (IdUpdateRows(p) \cup {"inItems"})])
                  ELSE screen)
  BY DEF SubmitIdUpdateForm
<1> DEFINE p == [screen.params EXCEPT !.status = status, !.given = given]
           q == [p EXCEPT !.given = @ \cap (IdUpdateRows(p) \cup {"inItems"})]
<1>2. /\ p \in Params /\ p.status = status /\ p.given = given /\ p.id = screen.params.id
      /\ p.kind = screen.params.kind
  BY ScreenFacts DEF Params, Status, Field
<1>3. /\ q \in Params /\ q.status = status /\ q.id = p.id /\ q.kind = p.kind
      /\ q.given = given \cap (IdUpdateRows(p) \cup {"inItems"})
  BY <1>2 DEF Params
<1>4. screen.params.id \in AppId
  BY ScreenFacts DEF SubmitIdUpdateForm, SoundView
<1>5. ASSUME ValidIdUpdate(p)
      PROVE  PageOf(IdUpdateConfirm, q) \in SoundPage
  <2>1. status \in IdStatus
    BY <1>2, <1>5 DEF ValidIdUpdate, NoStatus
  <2>2. IdUpdateRows(p) \subseteq given
    BY <1>2, <1>5, <2>1 DEF ValidIdUpdate, IdUpdateRows, IdStatus
  <2>3. IdUpdateRows(q) = IdUpdateRows(p)
    BY <1>2, <1>3 DEF IdUpdateRows
  <2>4. SoundView(IdUpdateConfirm, q)
    BY <1>2, <1>3, <1>4, <2>1, <2>2, <2>3
    DEF SoundView
  <2> QED BY <2>4, <1>3, SoundOf DEF View
<1> QED BY <1>1, <1>5, ShowIsSound DEF IInv

LEMMA ChangeIdUpdateIsSound == ASSUME IInv, ChangeIdUpdate PROVE IInv'
<1> DEFINE p == screen.params
           q == [p EXCEPT !.status = NoStatus, !.confirmationType = "none", !.given = @ \cap {}]
<1>1. q \in Params /\ q.id = p.id /\ p.id \in AppId
  BY ScreenFacts
  DEF ChangeIdUpdate, SoundView, Params, Status
<1>2. SoundView("add-id-update-status", q)
  BY <1>1 DEF SoundView
<1> QED BY <1>1, <1>2, SoundOf, ShowIsSound DEF ChangeIdUpdate, IdUpdateForm, FormOf, View

LEMMA UpdateIdIsSound == ASSUME IInv, UpdateId PROVE IInv'
BY IdUpdateIsSound, PressIsSound, Nothing DEF UpdateId, IdUpdate, IInv

-----------------------------------------------------------------------------
(* Appointments. *)

LEMMA AppointmentFormIsSound ==
    ASSUME NEW p \in Params PROVE FormOf("add-appointment", p, {}) \in SoundPage
<1> DEFINE q == [p EXCEPT !.status = NoStatus, !.confirmationType = "none", !.given = @ \cap {}]
<1>1. q \in Params
  BY DEF Params, Status, NoStatus
<1>2. SoundView("add-appointment", q)
  BY DEF SoundView
<1> QED BY <1>1, <1>2, SoundOf DEF FormOf, View

LEMMA AddAnAppointmentIsSound == ASSUME IInv, AddAnAppointment PROVE IInv'
<1>1. SoundView("add-appointment", NoParams)
  BY DEF SoundView
<1>2. PageOf("add-appointment", NoParams) \in SoundPage
  BY <1>1, Nothing, SoundOf DEF View
<1> QED BY <1>2, ShowIsSound DEF AddAnAppointment

LEMMA SubmitAppointmentFormIsSound == ASSUME IInv, SubmitAppointmentForm PROVE IInv'
<1>1. PICK given \in SUBSET AppointmentField :
          LET p == [screen.params EXCEPT !.given = given] IN
          Show(IF ValidAppointment(p) THEN PageOf(AppointmentConfirm, p) ELSE screen)
  BY DEF SubmitAppointmentForm
<1> DEFINE p == [screen.params EXCEPT !.given = given]
<1>2. p \in Params /\ p.given = given
  BY ScreenFacts DEF Params, Field
<1>3. ASSUME ValidAppointment(p) PROVE PageOf(AppointmentConfirm, p) \in SoundPage
  <2>1. SoundView(AppointmentConfirm, p)
    BY <1>3 DEF SoundView, ValidAppointment
  <2> QED BY <1>2, <2>1, SoundOf DEF View
<1> QED BY <1>1, <1>3, ShowIsSound DEF IInv

NewAppointment(p) == [do |-> "create", kind |-> "appointment", blind |-> FALSE,
                      complete |-> AppointmentField \subseteq p.given]

LEMMA NewAppointmentIsSound ==
    ASSUME IInv, SubmitAppointment PROVE NewAppointment(screen.params) \in SoundWrite
BY ScreenFacts DEF SubmitAppointment, SoundView, SoundWrite, Sent, Write, Kind, OtherKind, Several,
   NewAppointment

LEMMA AppointmentStepIsSound == ASSUME IInv, AppointmentStep PROVE IInv'
<1>1. CASE ChangeAppointment
  BY <1>1, ScreenFacts, AppointmentFormIsSound, ShowIsSound DEF ChangeAppointment
<1>2. CASE SubmitAppointment
  BY <1>2, NewAppointmentIsSound, PressIsSound, Nothing DEF SubmitAppointment, NewAppointment
<1> QED BY <1>1, <1>2, AddAnAppointmentIsSound, SubmitAppointmentFormIsSound DEF AppointmentStep

-----------------------------------------------------------------------------
(* Reports and documents. *)

LEMMA WholeIsSound == ASSUME NEW kind \in OtherKind PROVE Whole(kind) \in SoundWrite
BY DEF Whole, SoundWrite, Sent, Write, Kind

LEMMA ReportPages ==
    /\ SkipForm \in SoundPage
    /\ UploadForm \in SoundPage
    /\ \A type \in Report : TaskList(type) \in SoundPage
<1>1. SoundView("assessment-skip", NoParams) /\ SoundView("upload-documents", NoParams)
  BY DEF SoundView
<1>2. ASSUME NEW type \in Report PROVE TaskList(type) \in SoundPage
  <2> DEFINE p == [NoParams EXCEPT !.kind = type]
  <2>1. p \in Params /\ p.kind = type
    BY Nothing DEF NoParams, Params, Kind, OtherKind
  <2>2. SoundView("assessment-task-list", p)
    BY <2>1 DEF SoundView
  <2> QED BY <2>1, <2>2, SoundOf DEF TaskList, View
<1> QED BY <1>1, <1>2, Nothing, SoundOf DEF SkipForm, UploadForm, View

LEMMA OfferedIsSound ==
    ASSUME NEW type \in Report, NEW force, NEW inWindow, NEW unread
    PROVE  Offered(type, force, inWindow, unread) \in SoundPage
BY ReportPages, Nothing DEF Offered, Report

LEMMA OpenTaskListIsSound == ASSUME IInv, OpenTaskList PROVE IInv'
<1>1. screen' \in SoundPage /\ Leave /\ UNCHANGED <<apps, late, creates>> /\ (Fine \/ Fault)
  BY OfferedIsSound, Nothing DEF OpenTaskList, apiVars
<1> QED BY <1>1, FaultIsSound, LeaveIsSound DEF IInv, Fine

(* What StartReport starts. *)
LEMMA StartedKind == ASSUME StartReport, IInv PROVE screen.params.kind \in Report
BY ScreenFacts DEF StartReport, SoundView

LEMMA ReportStepIsSound == ASSUME IInv, ReportStep PROVE IInv'
<1>1. CASE StartReport
  BY <1>1, StartedKind, WholeIsSound, PressIsSound, Nothing DEF StartReport, Whole, OtherKind
<1>2. CASE SubmitSkip
  <2>1. Whole("skip") \in SoundWrite /\ TaskList("RESETTLEMENT_PLAN") \in SoundPage
    BY WholeIsSound, ReportPages DEF OtherKind, Several, Report
  <2> QED BY <1>2, <2>1, ShowIsSound, PressIsSound, Nothing DEF SubmitSkip, Whole, IInv
<1> QED BY <1>1, <1>2, OpenTaskListIsSound DEF ReportStep

LEMMA DocumentStepIsSound == ASSUME IInv, DocumentStep PROVE IInv'
<1>1. Whole("document") \in SoundWrite
  BY WholeIsSound DEF OtherKind, Several
<1> QED BY <1>1, ReportPages, Nothing, ShowIsSound, PressIsSound
        DEF DocumentStep, OpenUploadForm, UploadDocument, Upload, Whole

-----------------------------------------------------------------------------
(* The list, and all. *)

LEMMA LiveFacts ==
    ASSUME IInv
    PROVE  \A i \in Live : i \in AppId /\ apps[i] \in SoundApp /\ apps[i] \in Application
BY ApplicationsAssumption DEF IInv, Live, SoundApp

LEMMA ListIsSound ==
    ASSUME IInv, NEW bank \in SUBSET Live, NEW ids \in SUBSET LiveIds
    PROVE  ListPage(bank, ids) \in SoundPage
<1> DEFINE Good(link) == link \in Link /\ SoundView(link.view, link.params)
<1>1. ASSUME NEW i \in AppId, NEW again \in BOOLEAN,
             NEW v \in {"add-bank-account", "add-bank-account-update-status",
                        "add-id-update-status", "delete"},
             v = "add-bank-account-update-status" => ~again,
             NEW p \in Params, p.id = i, p.resubmit = again
      PROVE  Good([view |-> v, params |-> p])
  BY <1>1 DEF Link, View, SoundView
<1>2. ASSUME NEW i \in Live
      PROVE  Good(ToUpdate(i)) /\ Good(ToResubmit(i)) /\ Good(ToDelete(i)) /\ Good(ToUpdateId(i))
  <2>1. i \in AppId /\ apps[i].kind \in Kind
    BY LiveFacts DEF Application
  <2> DEFINE P == [NoParams EXCEPT !.id = i]
             Q == [NoParams EXCEPT !.id = i, !.resubmit = TRUE]
             R == [NoParams EXCEPT !.id = i, !.kind = apps[i].kind]
  <2>2. P \in Params /\ P.id = i /\ P.resubmit = FALSE
    BY <2>1, Nothing DEF NoParams, Params
  <2>3. Q \in Params /\ Q.id = i /\ Q.resubmit = TRUE
    BY <2>1, Nothing DEF NoParams, Params
  <2>4. R \in Params /\ R.id = i /\ R.resubmit = FALSE
    BY <2>1, Nothing DEF NoParams, Params
  <2>5. Good(ToUpdate(i)) /\ Good(ToDelete(i))
    BY <1>1, <2>1, <2>2 DEF ToUpdate, ToDelete
  <2>6. Good(ToResubmit(i))
    BY <1>1, <2>1, <2>3 DEF ToResubmit
  <2>7. Good(ToUpdateId(i))
    BY <1>1, <2>1, <2>4 DEF ToUpdateId
  <2> QED BY <2>5, <2>6, <2>7
<1>3. ToAddBank \in Link /\ SoundView(ToAddBank.view, ToAddBank.params)
  BY Nothing
  DEF ToAddBank, Link, NoParams, View, SoundView
<1>4. ASSUME NEW kinds \in SUBSET IdType
      PROVE  ToAddId(kinds) \in Link /\ SoundView(ToAddId(kinds).view, ToAddId(kinds).params)
  BY Nothing
  DEF ToAddId, Link, NoParams, Params, View, SoundView
<1>5. ids \subseteq Live /\ bank \subseteq Live /\ { apps[i].kind : i \in ids } \subseteq IdType
  BY LiveFacts DEF LiveIds, LiveBank, Application, Kind
<1>6. \A link \in IdLinks(ids) : Good(link)
  BY <1>2, <1>4, <1>5 DEF IdLinks
<1>7. \A i \in bank : \A link \in BankLinks(i) : Good(link)
  BY <1>2, <1>5 DEF BankLinks
<1>8. \A link \in ListPage(bank, ids).links : Good(link)
  <2>1. ASSUME NEW link \in UNION { BankLinks(i) : i \in bank } PROVE Good(link)
    BY <1>7
  <2>2. ListPage(bank, ids).links = IdLinks(ids) \cup (IF bank = {} THEN {ToAddBank}
                                                      ELSE UNION { BankLinks(i) : i \in bank })
    BY DEF ListPage
  <2> QED BY <1>3, <1>6, <2>1, <2>2
<1>9. SoundView("finance-id", NoParams)
  BY DEF SoundView
<1> QED BY <1>8, <1>9, Nothing DEF SoundPage, Page, ListPage, View

LEMMA OpenListIsSound == ASSUME IInv, OpenList PROVE IInv'
<1>1. PICK page \in SoundPage : screen' = page
  <2>1. \A bank \in { {i} : i \in LiveBank } \cup {{}} : bank \in SUBSET Live
    BY DEF LiveBank
  <2>2. {} \in SUBSET LiveIds
    OBVIOUS
  <2> QED BY <2>1, <2>2, ListIsSound, Nothing DEF OpenList
<1>2. mishaps' \in 0..scenario.mishaps /\ calm' \in BOOLEAN /\ scenario' = scenario
  BY FaultIsSound DEF OpenList, Fine, IInv
<1> QED BY <1>1, <1>2, LeaveIsSound DEF OpenList, IInv, apiVars

LEMMA OpenFormIsSound == ASSUME IInv, OpenForm PROVE IInv'
<1>1. PICK link \in screen.links : link.view # "delete" /\ Show(PageOf(link.view, link.params))
  BY DEF OpenForm
<1>2. link.view \in View /\ link.params \in Params /\ SoundView(link.view, link.params)
  BY <1>1, ScreenFacts DEF Link
<1> QED BY <1>1, <1>2, SoundOf, ShowIsSound

LEMMA DeleteFacts ==
    ASSUME IInv, DeleteApplication
    PROVE  \E i \in AppId : /\ Press([do |-> "delete", id |-> i], OtherPage, OtherPage)
                            /\ [do |-> "delete", id |-> i] \in SoundWrite
<1>1. PICK link \in screen.links :
          /\ link.view = "delete"
          /\ Press([do |-> "delete", id |-> link.params.id], OtherPage, OtherPage)
  BY DEF DeleteApplication
<1>2. link.params.id \in AppId
  BY <1>1, ScreenFacts DEF SoundView
<1> QED BY <1>1, <1>2 DEF SoundWrite, Write, Sent

LEMMA DeleteIsSound == ASSUME IInv, DeleteApplication PROVE IInv'
BY DeleteFacts, PressIsSound, Nothing

LEMMA MishapIsSound == ASSUME IInv, PrisonerNotRead \/ UseOlderPage PROVE IInv'
<1>1. screen' \in SoundPage /\ Fault /\ Leave /\ UNCHANGED <<apps, late, creates>>
  BY Nothing DEF PrisonerNotRead, UseOlderPage, apiVars, IInv
<1> QED BY <1>1, FaultIsSound, LeaveIsSound DEF IInv

LEMMA LateWriteIsSound == ASSUME IInv, LateWrite PROVE IInv'
<1>1. PICK l \in late : /\ late' = late \ {l}
                        /\ apps' = IF Possible(l[2]) THEN After(l[2]) ELSE apps
  BY DEF LateWrite
<1>2. l[2] \in SoundWrite
  BY DEF IInv
<1> QED BY <1>1, <1>2, AfterIsSound DEF LateWrite, IInv, browserVars

LEMMA InitIsSound == Init => IInv
BY Nothing, ApplicationsAssumption DEF Init, IInv

LEMMA StutterIsSound == ASSUME IInv, UNCHANGED vars PROVE IInv'
BY DEF IInv, vars

LEMMA StepIsSound == IInv /\ [Next]_vars => IInv'
<1> SUFFICES ASSUME IInv, [Next]_vars PROVE IInv'
  OBVIOUS
<1>1. CASE BankStep
  BY <1>1, SubmitBankFormIsSound, ChangeBankIsSound, SubmitBankAccountIsSound,
     UpdateBankAccountIsSound DEF BankStep
<1>2. CASE IdStep
  BY <1>2, SubmitIdFormIsSound, SubmitFurtherFormIsSound, ChangeIdIsSound, SubmitIdIsSound,
     SubmitIdUpdateFormIsSound, ChangeIdUpdateIsSound, UpdateIdIsSound DEF IdStep
<1>3. CASE OpenList \/ OpenForm \/ DeleteApplication
  BY <1>3, OpenListIsSound, OpenFormIsSound, DeleteIsSound
<1>4. CASE PrisonerNotRead \/ UseOlderPage \/ LateWrite
  BY <1>4, MishapIsSound, LateWriteIsSound
<1> QED BY <1>1, <1>2, <1>3, <1>4, AppointmentStepIsSound, ReportStepIsSound,
       DocumentStepIsSound, StutterIsSound DEF Next

(* The invariant holds in every behaviour. *)
THEOREM FinanceInvariant == Spec => []IInv
BY InitIsSound, StepIsSound, PTL DEF Spec

LEMMA InvImplies == IInv => TypeOK /\ NothingFromAnotherKind
<1> SUFFICES ASSUME IInv PROVE TypeOK /\ NothingFromAnotherKind
  OBVIOUS
<1>1. TypeOK
  <2>1. SoundApp \subseteq Application /\ SoundPage \subseteq Page /\ SoundWrite \subseteq Write
    BY DEF SoundApp, SoundPage, SoundWrite
  <2> QED BY <2>1 DEF IInv, TypeOK
<1>2. NothingFromAnotherKind
  BY ScreenFacts
  DEF NothingFromAnotherKind, SoundView, SentWith
<1> QED BY <1>1, <1>2

(* The types of the Finance and ID pages. *)
THEOREM TypeCorrect == Spec => []TypeOK
BY FinanceInvariant, InvImplies, PTL

(* Answers for another kind of ID never reach the page with Confirm.       *)
THEOREM NothingFromAnother == Spec => []NothingFromAnotherKind
BY FinanceInvariant, InvImplies, PTL

-----------------------------------------------------------------------------
(* As long as nothing goes wrong: a page leads to a new application only   *)
(* if there is none of the kind, and to a new status only if there is one  *)
(* that waits for it.                                                      *)

Returned == {"Returned incomplete", "Returned inaccurate"}
Waits(i, statuses) == i \in Live /\ apps[i].status \in statuses

CalmView(v, p) ==
    /\ v \in {"add-id", "add-id-further", IdConfirm} =>
         \A i \in LiveIds : apps[i].kind \in p.existingIdTypes
    /\ v \in {"add-id-further", IdConfirm} => p.kind \notin p.existingIdTypes
    /\ v = "add-bank-account" /\ ~p.resubmit => LiveBank = {}
    /\ v = BankConfirm /\ p.confirmationType \notin {"updateStatus", "resubmit"} => LiveBank = {}
    /\ v = BankConfirm => p.confirmationType # "none"
    /\ (\/ v = "add-bank-account-update-status"
        \/ v = BankConfirm /\ p.confirmationType = "updateStatus") => Waits(p.id, {"Pending"})
    /\ (\/ v = "add-bank-account" /\ p.resubmit
        \/ v = BankConfirm /\ p.confirmationType = "resubmit") => Waits(p.id, Returned)
    /\ v \in {"add-id-update-status", IdUpdateConfirm} => Waits(p.id, {"Pending"})
    /\ v = "assessment-skip" => \A type \in Report : ~Started(type)

CalmPage(page) ==
    /\ CalmView(page.view, page.params)
    /\ \A link \in page.links : CalmView(link.view, link.params)

Alone ==
    \A i, j \in Live :
        apps[i].kind = apps[j].kind /\ apps[i].kind \notin Several => i = j

NoneBlind == \A i \in Live : ~apps[i].blind

CalmInv == calm => late = {} /\ Alone /\ NoneBlind /\ CalmPage(screen)

(* A write that a page may make then. *)
Allowed(w) ==
    /\ w.do = "create" => ~w.blind
    /\ w.do = "create" /\ w.kind \notin Several => \A i \in Live : apps[i].kind # w.kind
    /\ w.do = "create" /\ w.kind = "skip" => \A type \in Report : ~Started(type)
    /\ w.do = "change" =>
         \/ apps[w.id].status = "Pending"
         \/ apps[w.id].status \in Returned /\ w.status \in {"Account opened", "Account declined"}

OutcomeKept ==
    \A i \in AppId : calm' /\ i \in Live /\ apps'[i] # apps[i] =>
        \/ apps'[i] = Deleted
        \/ apps[i].status = "Pending"
        \/ /\ apps[i].status \in {"Returned incomplete", "Returned inaccurate"}
           /\ apps'[i].status \in {"Account opened", "Account declined"}

SkippedFirst ==
    \A i \in AppId : calm' /\ apps[i] = Unused /\ apps'[i] # Unused =>
        (apps'[i].kind = "skip" => \A type \in Report : ~Started(type))

CalmStep == CalmInv' /\ OutcomeKept /\ SkippedFirst

LEMMA CalmStays ==
    ASSUME IInv, CalmInv, UNCHANGED <<apps, late, calm>>, calm => CalmPage(screen')
    PROVE  CalmStep
<1>1. ASSUME calm PROVE CalmPage(screen)'
  BY <1>1 DEF CalmPage, CalmView, Waits, Started, Live, LiveIds, LiveBank
<1>2. (Alone => Alone') /\ (NoneBlind => NoneBlind')
  BY DEF Alone, NoneBlind, Live
<1> QED BY <1>1, <1>2 DEF CalmStep, CalmInv, OutcomeKept, SkippedFirst

LEMMA ShowIsCalm ==
    ASSUME IInv, CalmInv, NEW page, Show(page), calm => CalmPage(page)
    PROVE  CalmStep
BY CalmStays DEF Show, apiVars, Fine

LEMMA NotCalm == ASSUME calm' = FALSE PROVE CalmStep
BY DEF CalmStep, CalmInv, OutcomeKept, SkippedFirst

LEMMA OtherPageIsCalm == CalmPage(OtherPage)'
BY DEF CalmPage, OtherPage, PageOf, CalmView

LEMMA AllowedIsCalm ==
    ASSUME IInv, CalmInv, calm, NEW w \in SoundWrite, Allowed(w), Possible(w),
           apps' = After(w), late' = late, CalmPage(screen)'
    PROVE  CalmStep
<1>1. Alone /\ NoneBlind /\ late = {}
  BY DEF CalmInv
<1>2. CASE w.do = "create"
  <2> DEFINE n == CHOOSE m \in AppId : apps[m] = Unused
  <2>1. n \in AppId /\ apps[n] = Unused
    BY <1>2 DEF Possible
  <2>2. n \notin Live
    BY <2>1, ApplicationsAssumption DEF Live
  <2>3. /\ \A i \in AppId \ {n} : apps'[i] = apps[i]
        /\ apps'[n].kind = w.kind /\ apps'[n].blind = w.blind
    BY <1>2, <2>1 DEF After, IInv
  <2>4. Live' \subseteq Live \cup {n}
    BY <2>3 DEF Live
  <2>5. Alone'
    <3>1. /\ \A i \in Live : i \in AppId \ {n} /\ apps'[i] = apps[i]
          /\ w.kind \notin Several => \A i \in Live : apps[i].kind # w.kind
      BY <1>2, <2>2, <2>3 DEF Allowed, Live
    <3>2. ASSUME NEW i \in Live', NEW j \in Live', apps'[i].kind = apps'[j].kind,
                 apps'[i].kind \notin Several
          PROVE  i = j
      <4>1. CASE i \in Live /\ j \in Live
        BY <1>1, <3>1, <3>2, <4>1 DEF Alone
      <4>2. CASE i = n \/ j = n
        BY <2>3, <2>4, <3>1, <3>2, <4>2
      <4> QED BY <2>4, <4>1, <4>2
    <3> QED BY <3>2 DEF Alone
  <2>6. OutcomeKept
    BY <2>2, <2>3 DEF OutcomeKept
  <2>7. SkippedFirst
    BY <1>2, <2>3 DEF SkippedFirst, Allowed
  <2>8. NoneBlind'
    <3>1. \A i \in Live : i \in AppId \ {n} /\ apps'[i] = apps[i]
      BY <2>2, <2>3 DEF Live
    <3>2. ~w.blind
      BY <1>2 DEF Allowed
    <3> QED BY <1>1, <2>3, <2>4, <3>1, <3>2 DEF NoneBlind
  <2> QED BY <2>5, <2>6, <2>7, <2>8, <1>1 DEF CalmStep, CalmInv
<1>3. CASE w.do = "change"
  <2>1. w.id \in Live /\ w.id \in AppId /\ apps[w.id] \in Application
    BY <1>3, LiveFacts DEF Possible
  <2>2. /\ \A i \in AppId \ {w.id} : apps'[i] = apps[i]
        /\ apps'[w.id] = Changed(apps[w.id], w)
    BY <1>3, <2>1 DEF After, IInv
  <2>3. /\ apps'[w.id].kind = apps[w.id].kind /\ apps'[w.id].status = w.status
        /\ apps'[w.id].blind = apps[w.id].blind
    BY <2>1, <2>2 DEF Changed, Application
  <2>4. Live' \subseteq Live
    BY <2>1, <2>2 DEF Live
  <2>5. Alone'
    BY <1>1, <2>2, <2>3, <2>4 DEF Alone, Live
  <2>6. OutcomeKept
    BY <1>3, <2>2, <2>3 DEF OutcomeKept, Allowed, Returned
  <2>7. SkippedFirst
    BY <2>1, <2>2, ApplicationsAssumption DEF SkippedFirst
  <2>8. NoneBlind'
    BY <1>1, <2>1, <2>2, <2>3, <2>4 DEF NoneBlind, Live
  <2> QED BY <2>5, <2>6, <2>7, <2>8, <1>1 DEF CalmStep, CalmInv
<1>4. CASE w.do = "delete"
  <2>1. w.id \in Live /\ w.id \in AppId
    BY <1>4, LiveFacts DEF Possible
  <2>2. /\ \A i \in AppId \ {w.id} : apps'[i] = apps[i]
        /\ apps'[w.id] = Deleted
    BY <1>4, <2>1 DEF After, IInv
  <2>3. Live' \subseteq Live \ {w.id}
    BY <2>2, ApplicationsAssumption DEF Live
  <2>4. Alone'
    BY <1>1, <2>2, <2>3 DEF Alone, Live
  <2>5. OutcomeKept
    BY <2>2 DEF OutcomeKept
  <2>6. SkippedFirst
    BY <2>1, <2>2, LiveFacts, ApplicationsAssumption DEF SkippedFirst
  <2>7. NoneBlind'
    BY <1>1, <2>2, <2>3 DEF NoneBlind, Live
  <2> QED BY <2>4, <2>5, <2>6, <2>7, <1>1 DEF CalmStep, CalmInv
<1> QED BY <1>2, <1>3, <1>4 DEF SoundWrite, Write

LEMMA PressIsCalm ==
    ASSUME IInv, CalmInv, NEW w \in SoundWrite, NEW done, CalmPage(done)', NEW failed,
           calm => Allowed(w), Press(w, done, failed)
    PROVE  CalmStep
<1>1. CASE Possible(w) /\ apps' = After(w) /\ screen' = done /\ late' = late /\ Fine
  <2>1. CASE calm
    <3>1. CalmPage(screen)'
      BY <1>1 DEF CalmPage, CalmView, Waits, Started, Live, LiveIds, LiveBank
    <3> QED BY <1>1, <2>1, <3>1, AllowedIsCalm
  <2>2. CASE ~calm
    BY <1>1, <2>2, NotCalm DEF Fine, IInv
  <2> QED BY <2>1, <2>2
<1>2. CASE calm' = FALSE
  BY <1>2, NotCalm
<1> QED BY <1>1, <1>2 DEF Press, Call, Fault

-----------------------------------------------------------------------------
(* The actions, one by one. *)

LEMMA SubmitBankFormIsCalm == ASSUME IInv, CalmInv, SubmitBankForm PROVE CalmStep
<1>1. PICK status \in Status, given \in SUBSET Field :
          /\ Show(ConfirmPage(screen, FilledIn(screen, status, given)))
          /\ screen.view \in {"add-bank-account", "add-bank-account-update-status"}
  BY DEF SubmitBankForm, Answers, NewAccountFields, ResubmitFields, UpdateFields, Field, BankField,
     Status, BankStatus
<1> DEFINE p == FilledIn(screen, status, given)
           q == [p EXCEPT !.given = @ \cap (BankRows(p) \cup {"inItems"})]
           type == IF screen.view = "add-bank-account-update-status" THEN "updateStatus"
                   ELSE IF screen.params.resubmit THEN "resubmit"
                   ELSE "addAccount"
<1>2. /\ p \in Params /\ p.id = screen.params.id /\ p.resubmit = screen.params.resubmit
      /\ p.confirmationType = type
  BY ScreenFacts DEF FilledIn, Params
<1>3. q.id = screen.params.id /\ q.resubmit = screen.params.resubmit /\ q.confirmationType = type
  BY <1>2 DEF Params
<1>4. ASSUME calm
      PROVE  CalmPage(PageOf(BankConfirm, q)) /\ CalmPage(screen) /\ CalmPage(OtherPage)
  <2>1. CalmPage(screen)
    BY <1>4 DEF CalmInv
  <2>2. CalmView(BankConfirm, q)
    BY <1>1, <1>3, <2>1 DEF CalmPage, CalmView
  <2>3. CalmPage(PageOf(BankConfirm, q))
    BY <2>2 DEF CalmPage, PageOf
  <2>4. CalmPage(OtherPage)
    BY DEF CalmPage, OtherPage, PageOf, CalmView
  <2> QED BY <2>1, <2>3, <2>4
<1>5. ConfirmPage(screen, p) \in {PageOf(BankConfirm, q), screen, OtherPage}
  BY DEF ConfirmPage
<1> QED BY <1>1, <1>4, <1>5, ShowIsCalm

LEMMA ChangeBankIsCalm == ASSUME IInv, CalmInv, ChangeBank PROVE CalmStep
<1> DEFINE p == screen.params
           v == IF p.confirmationType = "updateStatus" THEN "add-bank-account-update-status"
                ELSE "add-bank-account"
           q == [p EXCEPT !.status = NoStatus, !.confirmationType = "none", !.given = @ \cap {}]
<1>1. q.id = p.id /\ q.resubmit = p.resubmit
  BY ScreenFacts DEF Params
<1>2. p.confirmationType \in {"addAccount", "resubmit", "updateStatus"}
  BY ScreenFacts DEF ChangeBank, Params
<1>3. /\ p.confirmationType = "addAccount" => ~p.resubmit
      /\ p.confirmationType = "resubmit" => p.resubmit
  BY ScreenFacts DEF ChangeBank, SoundView
<1>4. calm => CalmView(v, q)
  BY <1>1, <1>2, <1>3
  DEF ChangeBank, CalmInv, CalmPage, CalmView
<1>5. calm => CalmPage(PageOf(v, q))
  BY <1>4 DEF CalmPage, PageOf
<1> QED BY <1>5, ShowIsCalm DEF ChangeBank, BankForm, FormOf

LEMMA SubmitBankAccountIsCalm == ASSUME IInv, CalmInv, SubmitBankAccount PROVE CalmStep
<1>1. calm => Allowed(NewAccount(screen.params))
  BY DEF SubmitBankAccount, CalmInv, CalmPage, CalmView, Allowed, LiveBank, NewAccount
<1> QED BY <1>1, NewAccountIsSound, PressIsCalm, OtherPageIsCalm DEF SubmitBankAccount, NewAccount

LEMMA UpdateBankAccountIsCalm == ASSUME IInv, CalmInv, UpdateBankAccount PROVE CalmStep
<1> DEFINE p == screen.params
<1>1. p.confirmationType = "resubmit" => p.status \in {"Account opened", "Account declined"}
  BY ScreenFacts DEF UpdateBankAccount, SoundView
<1>2. calm => Allowed(AccountUpdate(p))
  BY <1>1 DEF UpdateBankAccount, CalmInv, CalmPage, CalmView, Allowed, Waits, AccountUpdate
<1> QED BY <1>2, AccountUpdateIsSound, PressIsCalm, OtherPageIsCalm
        DEF UpdateBankAccount, AccountUpdate

LEMMA IdFormIsCalm ==
    ASSUME NEW p, \A i \in LiveIds : apps[i].kind \in p.existingIdTypes, p \in Params
    PROVE  CalmPage(IdForm(p))
<1> DEFINE q == [[p EXCEPT !.kind = NoKind] EXCEPT !.status = NoStatus,
                    !.confirmationType = "none", !.given = @ \cap (IdField \ {"submitted"})]
<1>1. q.existingIdTypes = p.existingIdTypes
  BY DEF Params
<1>2. CalmView("add-id", q)
  BY <1>1 DEF CalmView
<1> QED BY <1>2 DEF IdForm, FormOf, PageOf, CalmPage

LEMMA FurtherFormIsCalm ==
    ASSUME NEW p \in Params, \A i \in LiveIds : apps[i].kind \in p.existingIdTypes,
           p.kind \notin p.existingIdTypes
    PROVE  CalmPage(FurtherForm(p))
<1>1. CalmView("add-id-further", p) /\ CalmView(IdConfirm, p)
  BY DEF CalmView
<1> QED BY <1>1, IdFormIsCalm DEF FurtherForm, PageOf, CalmPage

LEMMA SubmitIdFormIsCalm == ASSUME IInv, CalmInv, SubmitIdForm PROVE CalmStep
<1>1. PICK kind \in (IdType \ screen.params.existingIdTypes) \cup {NoKind},
           date \in SUBSET {"submitted"} :
          Show(FurtherForm([screen.params EXCEPT !.kind = kind, !.given = @ \cup date]))
  BY DEF SubmitIdForm
<1> DEFINE p == [screen.params EXCEPT !.kind = kind, !.given = @ \cup date]
<1>2. /\ p \in Params /\ p.kind = kind
      /\ p.existingIdTypes = screen.params.existingIdTypes
  BY ScreenFacts DEF Params, Kind, Field, IdField
<1>3. p.kind \notin p.existingIdTypes
  BY <1>2, ScreenFacts, ApplicationsAssumption DEF Params, Kind
<1>4. ASSUME calm PROVE CalmPage(FurtherForm(p))
  BY <1>2, <1>3, <1>4, FurtherFormIsCalm DEF SubmitIdForm, CalmInv, CalmPage, CalmView
<1> QED BY <1>1, <1>4, ShowIsCalm

LEMMA SubmitFurtherFormIsCalm == ASSUME IInv, CalmInv, SubmitFurtherForm PROVE CalmStep
<1>1. PICK given :
          LET p == [screen.params EXCEPT !.given = KeptByFurther(screen.params, given)] IN
          Show(IF ValidId(p) THEN PageOf(IdConfirm, p) ELSE screen)
  BY DEF SubmitFurtherForm
<1> DEFINE p == [screen.params EXCEPT !.given = KeptByFurther(screen.params, given)]
<1>2. p.kind = screen.params.kind /\ p.existingIdTypes = screen.params.existingIdTypes
  BY ScreenFacts DEF Params
<1>3. ASSUME calm PROVE CalmPage(PageOf(IdConfirm, p)) /\ CalmPage(screen)
  <2>1. CalmPage(screen)
    BY <1>3 DEF CalmInv
  <2>2. CalmView(IdConfirm, p)
    BY <1>2, <2>1
    DEF SubmitFurtherForm, CalmPage, CalmView
  <2> QED BY <2>1, <2>2 DEF CalmPage, PageOf
<1> QED BY <1>1, <1>3, ShowIsCalm

LEMMA ChangeIdIsCalm == ASSUME IInv, CalmInv, ChangeId PROVE CalmStep
<1> DEFINE p == screen.params
<1>1. ASSUME calm PROVE CalmPage(IdForm(p)) /\ CalmPage(FurtherForm(p))
  <2>1. CalmView(IdConfirm, p)
    BY <1>1 DEF ChangeId, CalmInv, CalmPage
  <2> QED BY <2>1, ScreenFacts, IdFormIsCalm, FurtherFormIsCalm DEF CalmView
<1> QED BY <1>1, ShowIsCalm DEF ChangeId

LEMMA SubmitIdIsCalm == ASSUME IInv, CalmInv, SubmitId PROVE CalmStep
<1> DEFINE p == screen.params
<1>1. ASSUME calm PROVE Allowed(NewId(p))
  <2>1. \A i \in LiveIds : apps[i].kind # p.kind
    BY <1>1 DEF SubmitId, CalmInv, CalmPage, CalmView
  <2>2. \A i \in Live : apps[i].kind = p.kind => i \in LiveIds
    BY NewIdIsSound DEF LiveIds
  <2>3. p.kind # "skip"
    BY NewIdIsSound, ApplicationsAssumption DEF OtherKind, Several
  <2> QED BY <2>1, <2>2, <2>3 DEF Allowed, NewId
<1> QED BY <1>1, NewIdIsSound, PressIsCalm, OtherPageIsCalm DEF SubmitId, NewId

LEMMA SubmitIdUpdateFormIsCalm == ASSUME IInv, CalmInv, SubmitIdUpdateForm PROVE CalmStep
<1>1. PICK status, given :
          LET p == [screen.params EXCEPT !.status = status, !.given = given] IN
          Show(IF ValidIdUpdate(p)
               THEN PageOf(IdUpdateConfirm,
                           [p EXCEPT !.given = @ \cap (IdUpdateRows(p) \cup {"inItems"})])
               ELSE screen)
  BY DEF SubmitIdUpdateForm
<1> DEFINE p == [screen.params EXCEPT !.status = status, !.given = given]
           q == [p EXCEPT !.given = @ \cap (IdUpdateRows(p) \cup {"inItems"})]
<1>2. q.id = screen.params.id
  BY ScreenFacts DEF Params
<1>3. ASSUME calm PROVE CalmPage(PageOf(IdUpdateConfirm, q)) /\ CalmPage(screen)
  <2>1. CalmPage(screen)
    BY <1>3 DEF CalmInv
  <2>2. CalmView(IdUpdateConfirm, q)
    BY <1>2, <2>1
    DEF SubmitIdUpdateForm, CalmPage, CalmView
  <2> QED BY <2>1, <2>2 DEF CalmPage, PageOf
<1> QED BY <1>1, <1>3, ShowIsCalm

LEMMA ChangeIdUpdateIsCalm == ASSUME IInv, CalmInv, ChangeIdUpdate PROVE CalmStep
<1> DEFINE q == [screen.params EXCEPT !.status = NoStatus, !.confirmationType = "none",
                                      !.given = @ \cap {}]
<1>1. q.id = screen.params.id
  BY ScreenFacts DEF Params
<1>2. ASSUME calm PROVE CalmPage(PageOf("add-id-update-status", q))
  <2>1. CalmView(IdUpdateConfirm, screen.params)
    BY <1>2 DEF ChangeIdUpdate, CalmInv, CalmPage
  <2>2. CalmView("add-id-update-status", q)
    BY <1>1, <2>1 DEF CalmView
  <2> QED BY <2>2 DEF CalmPage, PageOf
<1> QED BY <1>2, ShowIsCalm DEF ChangeIdUpdate, IdUpdateForm, FormOf

LEMMA UpdateIdIsCalm == ASSUME IInv, CalmInv, UpdateId PROVE CalmStep
<1>1. calm => Allowed(IdUpdate(screen.params))
  BY DEF UpdateId, CalmInv, CalmPage, CalmView, Allowed, Waits, IdUpdate
<1> QED BY <1>1, IdUpdateIsSound, PressIsCalm, OtherPageIsCalm DEF UpdateId, IdUpdate

LEMMA AppointmentStepIsCalm == ASSUME IInv, CalmInv, AppointmentStep PROVE CalmStep
<1>1. CASE AddAnAppointment \/ ChangeAppointment
  <2>1. PICK p \in Params : Show(PageOf("add-appointment", p))
    BY <1>1, ScreenFacts, Nothing
    DEF AddAnAppointment, ChangeAppointment, FormOf, Params, Status, NoStatus
  <2>2. CalmPage(PageOf("add-appointment", p))
    BY DEF CalmPage, CalmView, PageOf
  <2> QED BY <2>1, <2>2, ShowIsCalm
<1>2. CASE SubmitAppointmentForm
  <2>1. PICK given :
            LET p == [screen.params EXCEPT !.given = given] IN
            Show(IF ValidAppointment(p) THEN PageOf(AppointmentConfirm, p) ELSE screen)
    BY <1>2 DEF SubmitAppointmentForm
  <2>2. \A p : CalmPage(PageOf(AppointmentConfirm, p))
    BY DEF CalmPage, CalmView, PageOf
  <2> QED BY <2>1, <2>2, ShowIsCalm DEF CalmInv
<1>3. CASE SubmitAppointment
  <2>1. Allowed(NewAppointment(screen.params))
    BY DEF Allowed, NewAppointment, Several
  <2> QED BY <1>3, <2>1, NewAppointmentIsSound, PressIsCalm, OtherPageIsCalm
          DEF SubmitAppointment, NewAppointment
<1> QED BY <1>1, <1>2, <1>3 DEF AppointmentStep

(* A page that offers nothing. *)
LEMMA PlainIsCalm ==
    ASSUME NEW page, page.links = {},
           page.view \in {"assessment-task-list", "upload-documents", "other"}
    PROVE  CalmPage(page) /\ CalmPage(page)'
BY DEF CalmPage, CalmView

LEMMA PlainPages ==
    /\ \A type : TaskList(type).links = {} /\ TaskList(type).view = "assessment-task-list"
    /\ UploadForm.links = {} /\ UploadForm.view = "upload-documents"
    /\ SkipForm.links = {} /\ SkipForm.view = "assessment-skip"
    /\ OtherPage.links = {} /\ OtherPage.view = "other"
BY DEF TaskList, UploadForm, SkipForm, OtherPage, PageOf

LEMMA OpenTaskListIsCalm == ASSUME IInv, CalmInv, OpenTaskList PROVE CalmStep
<1>1. CASE Fault
  BY <1>1, NotCalm DEF Fault
<1>2. CASE Fine /\ ~(calm' = FALSE)
  <2>1. PICK type \in Report, inWindow \in BOOLEAN, force \in BOOLEAN :
            screen' = Offered(type, force, inWindow, {})
    BY <1>2 DEF OpenTaskList, Fault
  <2>2. CASE screen' = SkipForm /\ ~Started("BCST2") /\ ~Started("RESETTLEMENT_PLAN")
    <3>1. CalmPage(SkipForm)
      BY <2>2, PlainPages DEF CalmPage, CalmView, Report
    <3> QED BY <1>2, <2>2, <3>1, CalmStays DEF OpenTaskList, apiVars, Fine
  <2>3. CASE screen' = OtherPage \/ \E r : screen' = TaskList(r)
    <3>1. CalmPage(screen')
      BY <2>3, PlainPages, PlainIsCalm
    <3> QED BY <1>2, <3>1, CalmStays DEF OpenTaskList, apiVars, Fine
  <2> QED BY <2>1, <2>2, <2>3 DEF Offered
<1> QED BY <1>1, <1>2, NotCalm DEF OpenTaskList

LEMMA ReportStepIsCalm == ASSUME IInv, CalmInv, ReportStep PROVE CalmStep
<1>1. CASE StartReport
  <2> DEFINE type == screen.params.kind
  <2>1. type \in Report /\ ~Started(type) /\ Press(Whole(type), OtherPage, OtherPage)
    BY <1>1, StartedKind DEF StartReport, Whole
  <2>2. Allowed(Whole(type))
    BY <2>1 DEF Allowed, Whole, Started, Report
  <2>3. Whole(type) \in SoundWrite
    BY <2>1, WholeIsSound DEF OtherKind
  <2> QED BY <2>1, <2>2, <2>3, PressIsCalm, OtherPageIsCalm
<1>2. CASE SubmitSkip
  <2>1. calm => Allowed(Whole("skip"))
    BY <1>2 DEF SubmitSkip, CalmInv, CalmPage, CalmView, Allowed, Whole, Several
  <2>2. Whole("skip") \in SoundWrite
    BY WholeIsSound DEF OtherKind, Several
  <2>3. CalmPage(TaskList("RESETTLEMENT_PLAN"))'
    BY PlainPages, PlainIsCalm
  <2>4. CASE Show(screen)
    BY <2>4, ShowIsCalm DEF CalmInv
  <2> QED BY <1>2, <2>1, <2>2, <2>3, <2>4, PressIsCalm DEF SubmitSkip, Whole
<1> QED BY <1>1, <1>2, OpenTaskListIsCalm DEF ReportStep

LEMMA DocumentStepIsCalm == ASSUME IInv, CalmInv, DocumentStep PROVE CalmStep
<1>1. CASE Show(UploadForm) \/ Show(OtherPage)
  BY <1>1, PlainPages, PlainIsCalm, ShowIsCalm
<1>2. CASE Press(Whole("document"), OtherPage, UploadForm)
  <2>1. Allowed(Whole("document")) /\ Whole("document") \in SoundWrite
    BY WholeIsSound DEF Allowed, Whole, OtherKind, Several
  <2> QED BY <1>2, <2>1, PressIsCalm, OtherPageIsCalm
<1> QED BY <1>1, <1>2 DEF DocumentStep, OpenUploadForm, UploadDocument, Upload, Whole

(* The list offers a new application only for what there is none of. *)
LEMMA ListIsCalm ==
    ASSUME IInv, NEW bank \in SUBSET LiveBank, bank = {} => LiveBank = {}
    PROVE  CalmPage(ListPage(bank, LiveIds))
<1> DEFINE Good(link) == CalmView(link.view, link.params)
<1>1. Good(ToAddBank) \/ LiveBank # {}
  BY DEF ToAddBank, CalmView, NoParams
<1>2. ASSUME NEW i \in Live
      PROVE  /\ Good(ToDelete(i))
             /\ apps[i].status = "Pending" => Good(ToUpdate(i)) /\ Good(ToUpdateId(i))
             /\ apps[i].status \in Returned => Good(ToResubmit(i))
  <2> DEFINE P == [NoParams EXCEPT !.id = i]
             Q == [NoParams EXCEPT !.id = i, !.resubmit = TRUE]
             R == [NoParams EXCEPT !.id = i, !.kind = apps[i].kind]
  <2>1. P.id = i /\ Q.id = i /\ R.id = i /\ Q.resubmit
    BY DEF NoParams
  <2>2. Good(ToDelete(i))
    BY DEF ToDelete, CalmView
  <2>3. apps[i].status = "Pending" => Good(ToUpdate(i)) /\ Good(ToUpdateId(i))
    BY <2>1 DEF ToUpdate, ToUpdateId, CalmView, Waits
  <2>4. apps[i].status \in Returned => Good(ToResubmit(i))
    BY <2>1 DEF ToResubmit, CalmView, Waits
  <2> QED BY <2>2, <2>3, <2>4
<1>3. Good(ToAddId({ apps[i].kind : i \in LiveIds }))
  <2> DEFINE kinds == { apps[i].kind : i \in LiveIds }
             P == [NoParams EXCEPT !.existingIdTypes = kinds]
  <2>1. P.existingIdTypes = kinds
    BY DEF NoParams
  <2> HIDE DEF P
  <2>2. CalmView("add-id", P)
    BY <2>1 DEF CalmView
  <2> QED BY <2>2 DEF ToAddId, P
<1>4. \A link \in IdLinks(LiveIds) : Good(link)
  BY <1>2, <1>3 DEF IdLinks, LiveIds
<1>5. ASSUME NEW i \in bank, NEW link \in BankLinks(i) PROVE Good(link)
  BY <1>2 DEF BankLinks, LiveBank, Returned
<1>6. ListPage(bank, LiveIds).links = IdLinks(LiveIds) \cup
          (IF bank = {} THEN {ToAddBank} ELSE UNION { BankLinks(i) : i \in bank })
  BY DEF ListPage
<1>7. \A link \in ListPage(bank, LiveIds).links : Good(link)
  BY <1>1, <1>4, <1>5, <1>6
<1>8. CalmView("finance-id", NoParams)
  BY DEF CalmView
<1> QED BY <1>7, <1>8 DEF CalmPage, ListPage

LEMMA OpenListIsCalm == ASSUME IInv, CalmInv, OpenList PROVE CalmStep
<1>1. CASE Fault
  BY <1>1, NotCalm DEF Fault
<1>2. CASE Fine
  <2>1. CASE calm' = FALSE
    BY <2>1, NotCalm
  <2>2. PICK bank \in { {i} : i \in LiveBank } \cup (IF LiveBank = {} THEN {{}} ELSE {}) :
            screen' = ListPage(bank, LiveIds) \/ calm' = FALSE
    BY <1>2 DEF OpenList, Fault
  <2>3. bank \in SUBSET LiveBank /\ (bank = {} => LiveBank = {})
    BY <2>2
  <2>4. CASE screen' = ListPage(bank, LiveIds)
    BY <1>2, <2>3, <2>4, ListIsCalm, CalmStays DEF OpenList, apiVars, Fine
  <2> QED BY <2>1, <2>2, <2>4
<1> QED BY <1>1, <1>2 DEF OpenList

LEMMA OpenFormIsCalm == ASSUME IInv, CalmInv, OpenForm PROVE CalmStep
<1>1. PICK link \in screen.links : Show(PageOf(link.view, link.params))
  BY DEF OpenForm
<1>2. calm => CalmPage(PageOf(link.view, link.params))
  BY <1>1 DEF CalmInv, CalmPage, PageOf
<1> QED BY <1>1, <1>2, ShowIsCalm

LEMMA DeleteIsCalm == ASSUME IInv, CalmInv, DeleteApplication PROVE CalmStep
<1>1. \A i \in AppId : Allowed([do |-> "delete", id |-> i])
  BY DEF Allowed
<1> QED BY <1>1, DeleteFacts, PressIsCalm, OtherPageIsCalm

LEMMA LateWriteIsCalm == ASSUME IInv, CalmInv, LateWrite PROVE CalmStep
<1>1. ~calm
  BY DEF LateWrite, CalmInv
<1> QED BY <1>1, NotCalm DEF LateWrite, IInv

LEMMA StepIsCalm == IInv /\ CalmInv /\ [Next]_vars => CalmInv' /\ [OutcomeKept /\ SkippedFirst]_vars
<1> SUFFICES ASSUME IInv, CalmInv, [Next]_vars PROVE CalmStep
  BY DEF CalmStep
<1>1. CASE BankStep
  BY <1>1, SubmitBankFormIsCalm, ChangeBankIsCalm, SubmitBankAccountIsCalm,
     UpdateBankAccountIsCalm DEF BankStep
<1>2. CASE IdStep
  BY <1>2, SubmitIdFormIsCalm, SubmitFurtherFormIsCalm, ChangeIdIsCalm, SubmitIdIsCalm,
     SubmitIdUpdateFormIsCalm, ChangeIdUpdateIsCalm, UpdateIdIsCalm DEF IdStep
<1>3. CASE OpenList \/ OpenForm \/ DeleteApplication
  BY <1>3, OpenListIsCalm, OpenFormIsCalm, DeleteIsCalm
<1>4. CASE PrisonerNotRead \/ UseOlderPage
  BY <1>4, NotCalm DEF PrisonerNotRead, UseOlderPage, Fault
<1>5. CASE LateWrite
  BY <1>5, LateWriteIsCalm
<1>6. CASE UNCHANGED vars
  BY <1>6, CalmStays DEF vars, CalmInv
<1> QED BY <1>1, <1>2, <1>3, <1>4, <1>5, <1>6, AppointmentStepIsCalm, ReportStepIsCalm,
       DocumentStepIsCalm DEF Next

LEMMA InitIsCalm == Init => CalmInv
<1>1. Init => Live = {}
  BY ApplicationsAssumption DEF Init, Live
<1>2. CalmPage(OtherPage)
  BY DEF CalmPage, OtherPage, PageOf, CalmView
<1> QED BY <1>1, <1>2 DEF Init, CalmInv, Alone, NoneBlind

(* However calls fail and pages are used again, an application was sent    *)
(* with all that its form asks for; or from the page that shows nothing,   *)
(* and then a call has failed.                                             *)
THEOREM StoredWasAskedFor == Spec => []WhatIsStoredWasAskedFor
<1>1. IInv /\ CalmInv => WhatIsStoredWasAskedFor
  BY LiveFacts DEF CalmInv, NoneBlind, WhatIsStoredWasAskedFor, SoundApp
<1> QED BY <1>1, InitIsCalm, StepIsCalm, FinanceInvariant, PTL DEF Spec

(* As long as no call fails and no older page is used, there is one        *)
(* application of a kind of ID and one for a bank account, though nothing  *)
(* but the pages knows which there are.                                    *)
THEOREM OneOfEach == Spec => []OneOfEachKind
<1>1. CalmInv => OneOfEachKind
  BY ApplicationsAssumption DEF CalmInv, Alone, OneOfEachKind, LiveBank, LiveIds,
     OtherKind, Several
<1> QED BY <1>1, InitIsCalm, StepIsCalm, FinanceInvariant, PTL DEF Spec

(* And its outcome is not replaced, but that of one that was returned by   *)
(* the outcome of its resubmission.                                        *)
THEOREM OutcomeStays == Spec => OutcomeIsKept
<1>1. [OutcomeKept]_vars <=>
        [ \A i \in AppId : calm' /\ i \in Live /\ apps'[i] # apps[i] =>
            \/ apps'[i] = Deleted
            \/ apps[i].status = "Pending"
            \/ /\ apps[i].status \in {"Returned incomplete", "Returned inaccurate"}
               /\ apps'[i].status \in {"Account opened", "Account declined"}
        ]_vars
  BY DEF OutcomeKept
<1>2. IInv /\ CalmInv /\ [Next]_vars => CalmInv' /\ [OutcomeKept]_vars
  BY StepIsCalm
<1> QED BY <1>1, <1>2, InitIsCalm, FinanceInvariant, PTL DEF Spec, OutcomeIsKept

(* The immediate needs report is only skipped if no report was started.    *)
THEOREM SkipComesFirst == Spec => SkippedBeforeStart
<1>1. [SkippedFirst]_vars <=>
        [ \A i \in AppId : calm' /\ apps[i] = Unused /\ apps'[i] # Unused =>
            (apps'[i].kind = "skip" => \A type \in Report : ~Started(type))
        ]_vars
  BY DEF SkippedFirst
<1>2. IInv /\ CalmInv /\ [Next]_vars => CalmInv' /\ [SkippedFirst]_vars
  BY StepIsCalm
<1> QED BY <1>1, <1>2, InitIsCalm, FinanceInvariant, PTL DEF Spec, SkippedBeforeStart

-----------------------------------------------------------------------------
(* How many applications there are or will be. *)

Made == { i \in AppId : apps[i] # Unused }
ToBeMade == { l \in late : l[2].do = "create" }
Counted == IsFiniteSet(ToBeMade) /\ CreatedOnce

LEMMA MadeIsFinite == IsFiniteSet(Made) /\ IsFiniteSet(Made')
<1>1. IsFiniteSet(AppId)
  BY FS_Interval, ApplicationsAssumption DEF AppId
<1> QED BY <1>1, FS_Subset DEF Made

(* A write adds one application if it is for a new one, and else none. *)
LEMMA AfterMakesOne ==
    ASSUME IInv, NEW w \in SoundWrite, Possible(w), apps' = After(w)
    PROVE  IF w.do = "create" THEN Cardinality(Made') = Cardinality(Made) + 1
           ELSE Made' = Made
<1>1. CASE w.do = "create"
  <2> DEFINE n == CHOOSE m \in AppId : apps[m] = Unused
  <2>1. n \in AppId /\ apps[n] = Unused
    BY <1>1 DEF Possible
  <2>2. /\ \A i \in AppId \ {n} : apps'[i] = apps[i]
        /\ apps'[n] \in SoundApp
    <3>1. apps'[n] \in SoundApp
      BY <1>1, <2>1 DEF After, IInv, SoundWrite, Sent, Write, SoundApp, Application, Status
    <3> QED BY <1>1, <2>1, <3>1 DEF After, IInv
  <2>3. Made' = Made \cup {n} /\ n \notin Made
    BY <2>1, <2>2, ApplicationsAssumption DEF Made, SoundApp
  <2> QED BY <1>1, <2>3, MadeIsFinite, FS_AddElement
<1>2. CASE w.do # "create"
  <2>1. w.do \in {"change", "delete"} /\ w.id \in Live
    BY <1>2 DEF SoundWrite, Write, Possible
  <2>2. w.id \in AppId /\ apps[w.id] \in Application
    BY <2>1, LiveFacts
  <2>3. /\ \A i \in AppId \ {w.id} : apps'[i] = apps[i]
        /\ apps'[w.id] \in {Changed(apps[w.id], w), Deleted}
    BY <2>1, <2>2 DEF After, IInv
  <2>4. w.do = "change" => Changed(apps[w.id], w) \in Application
    BY <2>2 DEF SoundWrite, Write, Changed, Application, Sent
  <2>5. apps'[w.id] # Unused
    BY <2>1, <2>2, <2>3, <2>4, ApplicationsAssumption DEF After, IInv
  <2> QED BY <1>2, <2>2, <2>3, <2>5, ApplicationsAssumption DEF Made
<1> QED BY <1>1, <1>2

LEMMA MadeOnce ==
    ASSUME IInv, Counted,
           \/ UNCHANGED <<apps, late>> /\ creates' \in {creates, creates + 1}
           \/ \E w \in SoundWrite :
                 /\ creates' = IF w.do = "create" THEN creates + 1 ELSE creates
                 /\ \/ Possible(w) /\ apps' = After(w) /\ late' = late
                    \/ \E k : late' = late \cup {<<k, w>>} /\ apps' = apps
    PROVE  Counted'
<1>1. /\ Cardinality(Made) \in Nat /\ Cardinality(ToBeMade) \in Nat /\ creates \in Nat
      /\ Cardinality(Made) + Cardinality(ToBeMade) <= creates
  BY MadeIsFinite, FS_CardinalityType, ScenarioFacts DEF Counted, CreatedOnce, Made, ToBeMade, IInv
<1>2. ASSUME IsFiniteSet(ToBeMade'), Cardinality(Made') + Cardinality(ToBeMade') <= creates'
      PROVE  Counted'
  BY <1>2 DEF Counted, CreatedOnce, Made, ToBeMade
<1>3. CASE UNCHANGED <<apps, late>> /\ creates' \in {creates, creates + 1}
  <2>1. Made' = Made /\ ToBeMade' = ToBeMade
    BY <1>3 DEF Made, ToBeMade
  <2> QED BY <1>1, <1>2, <1>3, <2>1 DEF Counted
<1>4. ASSUME NEW w \in SoundWrite, creates' = IF w.do = "create" THEN creates + 1 ELSE creates,
             Possible(w), apps' = After(w), late' = late
      PROVE  Counted'
  <2>1. ToBeMade' = ToBeMade
    BY <1>4 DEF ToBeMade
  <2>2. CASE w.do = "create"
    <3>1. Cardinality(Made') = Cardinality(Made) + 1
      BY <1>4, <2>2, AfterMakesOne
    <3> QED BY <1>1, <1>2, <1>4, <2>1, <2>2, <3>1 DEF Counted
  <2>3. CASE w.do # "create"
    <3>1. Made' = Made
      BY <1>4, <2>3, AfterMakesOne
    <3> QED BY <1>1, <1>2, <1>4, <2>1, <2>3, <3>1 DEF Counted
  <2> QED BY <2>2, <2>3
<1>5. ASSUME NEW w \in SoundWrite, NEW k,
             creates' = IF w.do = "create" THEN creates + 1 ELSE creates,
             late' = late \cup {<<k, w>>}, apps' = apps
      PROVE  Counted'
  <2>1. Made' = Made
    BY <1>5 DEF Made
  <2>2. CASE w.do = "create"
    <3>1. ToBeMade' = ToBeMade \cup {<<k, w>>}
      BY <1>5, <2>2 DEF ToBeMade
    <3>2. /\ IsFiniteSet(ToBeMade')
          /\ \/ Cardinality(ToBeMade') = Cardinality(ToBeMade) + 1
             \/ Cardinality(ToBeMade') = Cardinality(ToBeMade)
      BY <3>1, FS_AddElement DEF Counted
    <3> QED BY <1>1, <1>2, <1>5, <2>1, <2>2, <3>2
  <2>3. CASE w.do # "create"
    <3>1. ToBeMade' = ToBeMade
      BY <1>5, <2>3 DEF ToBeMade
    <3> QED BY <1>1, <1>2, <1>5, <2>1, <2>3, <3>1 DEF Counted
  <2> QED BY <2>2, <2>3
<1> QED BY <1>3, <1>4, <1>5

LEMMA PressMakesOnce ==
    ASSUME IInv, Counted, NEW w \in SoundWrite, NEW done, NEW failed, Press(w, done, failed)
    PROVE  Counted'
<1>1. creates' = IF w.do = "create" THEN creates + 1 ELSE creates
  BY DEF Press
<1>2. \/ Possible(w) /\ apps' = After(w) /\ late' = late
      \/ UNCHANGED <<apps, late>>
      \/ \E k : late' = late \cup {<<k, w>>} /\ apps' = apps
  BY DEF Press, Call, Interrupted, apiVars
<1> QED BY <1>1, <1>2, MadeOnce

LEMMA LateWriteMakesOnce == ASSUME IInv, Counted, LateWrite PROVE Counted'
<1>1. PICK l \in late : /\ late' = late \ {l}
                        /\ apps' = IF Possible(l[2]) THEN After(l[2]) ELSE apps
  BY DEF LateWrite
<1>2. /\ Cardinality(Made) \in Nat /\ Cardinality(ToBeMade) \in Nat /\ creates \in Nat
      /\ Cardinality(Made) + Cardinality(ToBeMade) <= creates
      /\ IsFiniteSet(ToBeMade)
  BY MadeIsFinite, FS_CardinalityType, ScenarioFacts DEF Counted, CreatedOnce, Made, ToBeMade, IInv
<1>3. l[2] \in SoundWrite /\ creates' = creates
  BY DEF LateWrite, IInv
<1>4. ToBeMade' = IF l[2].do = "create" THEN ToBeMade \ {l} ELSE ToBeMade
  BY <1>1 DEF ToBeMade
<1>5. /\ IsFiniteSet(ToBeMade')
      /\ Cardinality(ToBeMade') = IF l[2].do = "create" THEN Cardinality(ToBeMade) - 1
                                  ELSE Cardinality(ToBeMade)
  <2>1. l[2].do = "create" => l \in ToBeMade
    BY DEF ToBeMade
  <2> QED BY <1>2, <1>4, <2>1, FS_RemoveElement
<1>6. Cardinality(Made') = IF l[2].do = "create" /\ Possible(l[2]) THEN Cardinality(Made) + 1
                           ELSE Cardinality(Made)
  <2>1. CASE Possible(l[2])
    BY <1>1, <1>3, <2>1, AfterMakesOne
  <2>2. CASE ~Possible(l[2])
    BY <1>1, <2>2 DEF Made
  <2> QED BY <2>1, <2>2
<1>7. Cardinality(Made') + Cardinality(ToBeMade') <= creates'
  BY <1>2, <1>3, <1>5, <1>6
<1> QED BY <1>5, <1>7 DEF Counted, CreatedOnce, Made, ToBeMade

LEMMA ConfirmMakesOnce ==
    ASSUME IInv, Counted,
           \/ SubmitBankAccount \/ UpdateBankAccount \/ SubmitId \/ UpdateId
           \/ DeleteApplication \/ SubmitAppointment
           \/ StartReport \/ SubmitSkip \/ UploadDocument
    PROVE  Counted'
<1>1. CASE SubmitBankAccount
  BY <1>1, NewAccountIsSound, PressMakesOnce DEF SubmitBankAccount, NewAccount
<1>2. CASE UpdateBankAccount
  BY <1>2, AccountUpdateIsSound, PressMakesOnce DEF UpdateBankAccount, AccountUpdate
<1>3. CASE SubmitId
  BY <1>3, NewIdIsSound, PressMakesOnce DEF SubmitId, NewId
<1>4. CASE UpdateId
  BY <1>4, IdUpdateIsSound, PressMakesOnce DEF UpdateId, IdUpdate
<1>5. CASE DeleteApplication
  BY <1>5, DeleteFacts, PressMakesOnce
<1>6. CASE SubmitAppointment
  BY <1>6, NewAppointmentIsSound, PressMakesOnce DEF SubmitAppointment, NewAppointment
<1>7. CASE StartReport
  BY <1>7, StartedKind, WholeIsSound, PressMakesOnce DEF StartReport, Whole, OtherKind
<1>8. \A page : Show(page) => Counted'
  BY MadeOnce DEF Show, apiVars
<1>9. CASE SubmitSkip \/ UploadDocument
  <2>1. Whole("skip") \in SoundWrite /\ Whole("document") \in SoundWrite
    BY WholeIsSound DEF OtherKind, Several
  <2> QED BY <1>8, <1>9, <2>1, PressMakesOnce DEF SubmitSkip, UploadDocument, Upload, Whole
<1> QED BY <1>1, <1>2, <1>3, <1>4, <1>5, <1>6, <1>7, <1>9

LEMMA StepMakesOnce == IInv /\ Counted /\ [Next]_vars => Counted'
<1> SUFFICES ASSUME IInv, Counted, [Next]_vars PROVE Counted'
  OBVIOUS
<1>1. CASE UNCHANGED <<apps, late, creates>>
  BY <1>1, MadeOnce
<1>2. CASE SubmitBankForm \/ ChangeBank \/ SubmitIdForm \/ SubmitFurtherForm \/ ChangeId
           \/ SubmitIdUpdateForm \/ ChangeIdUpdate \/ OpenForm
           \/ AddAnAppointment \/ SubmitAppointmentForm \/ ChangeAppointment
  BY <1>1, <1>2
  DEF AddAnAppointment, SubmitAppointmentForm, ChangeAppointment, SubmitBankForm, ChangeBank,
      SubmitIdForm, SubmitFurtherForm, ChangeId, SubmitIdUpdateForm, ChangeIdUpdate, OpenForm,
      Show, apiVars
<1>3. CASE OpenList \/ PrisonerNotRead \/ UseOlderPage \/ OpenTaskList \/ OpenUploadForm
  BY <1>1, <1>3
  DEF OpenList, PrisonerNotRead, UseOlderPage, OpenTaskList, OpenUploadForm, Show, apiVars
<1> QED BY <1>1, <1>2, <1>3, ConfirmMakesOnce, LateWriteMakesOnce
        DEF Next, BankStep, IdStep, AppointmentStep, ReportStep, DocumentStep, vars

LEMMA InitCounted == Init => Counted
<1> SUFFICES ASSUME Init PROVE Counted
  OBVIOUS
<1>1. Made = {} /\ ToBeMade = {}
  BY DEF Init, Made, ToBeMade
<1> QED BY <1>1, FS_EmptySet DEF Init, Counted, CreatedOnce, Made, ToBeMade

(* However a call fails, Confirm makes one application at most, now or     *)
(* when its reply has long been given up.                                  *)
THEOREM OneToAConfirm == Spec => []CreatedOnce
BY InitCounted, StepMakesOnce, FinanceInvariant, PTL DEF Spec, Counted
=============================================================================
