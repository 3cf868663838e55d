----------------------------- MODULE PortalProofs -----------------------------
(***************************************************************************)
(* Theorems about Portal, for any number of tabs and of people, any bounds *)
(* and whatever fails: type correctness, and that a banner names nobody    *)
(* whose allocation has not been changed.                                  *)
(*                                                                         *)
(* On its way from the post to the banner a list of people is copied: from *)
(* the request into its copy of the flash, into the record of the session, *)
(* into the copies of other requests, which may save it back much later,   *)
(* and into an answer.  IInv says of each of these copies that the people  *)
(* in it have been allocated.                                              *)
(***************************************************************************)
EXTENDS Portal, FiniteSetTheorems, TLAPS

TabInv(t) ==
    /\ copy[t].cases \subseteq done
    /\ ~answer[t].redirect => answer[t].banner.cases \subseteq done
    /\ pc[t] = "details" => req[t].cases \subseteq done
    /\ pc[t] = "store" => file[t] # NoFile
    /\ pc[t] \in {"flags", "store", "guard"} => req[t].kind \notin SignInKind

StoreInv == \A s \in Sid : store[s] # Gone => store[s].flash.cases \subseteq done

IInv == TypeOK /\ StoreInv /\ \A t \in Tab : TabInv(t)

-----------------------------------------------------------------------------
(* What the values of the model are made of.                               *)

LEMMA Constant == /\ NoFlash \in Flash /\ NoFlash.cases = {}
                  /\ NoBanner \in Banner /\ NoBanner.cases = {}
                  /\ NoOwn \in Own
                  /\ OtherPage \in Answer /\ ~OtherPage.redirect /\ OtherPage.banner.cases = {}
                  /\ NoChange \in Change
<1>1. Cardinality(Case) \in Nat
  BY FS_CardinalityType, WebAssumption
<1>2. NoFlash \in Flash /\ NoFlash.cases = {}
  BY <1>1 DEF NoFlash, Flash
<1>3. NoBanner \in Banner /\ NoBanner.cases = {}
  BY <1>1 DEF NoBanner, Banner
<1>4. NoOwn \in Own
  BY DEF NoOwn, OwnOf, Own
<1>5. OtherPage \in Answer /\ ~OtherPage.redirect /\ OtherPage.banner.cases = {}
  BY <1>3 DEF OtherPage, Shown, Answer, Page
<1>6. NoChange \in Change
  BY DEF NoChange, Change, Choice
<1> QED BY <1>2, <1>3, <1>4, <1>5, <1>6

LEMMA Requests ==
    /\ Home \in Request /\ AssignPage \in Request /\ SignIn \in Request /\ Callback \in Request
    /\ AuthError \in Request /\ SignOut \in Request
    /\ \A f \in Form \cup {NoForm} : Get("form", f) \in Request
    /\ \A r \in Request : OriginalUrl(r) \in Request
BY DEF Home, AssignPage, SignIn, Callback, AuthError, SignOut, Get, Request, Kind, SignInKind,
       Choice, OriginalUrl

LEMMA Redirects ==
    ASSUME NEW r \in Request PROVE RedirectTo(r) \in Answer /\ RedirectTo(r).redirect
BY DEF RedirectTo, Answer

LEMMA AnswerFacts ==
    ASSUME NEW a \in Answer
    PROVE  /\ a.redirect \in BOOLEAN
           /\ a.redirect => a.to \in Request
           /\ ~a.redirect => a.page \in Page /\ a.banner \in Banner
BY Constant DEF Answer

(* A part of people is not larger than all of them. *)
LEMMA Counts ==
    ASSUME NEW cases \in SUBSET Case
    PROVE  Cardinality(cases) \in 0..Cardinality(Case)
BY FS_Subset, FS_CardinalityType, WebAssumption

-----------------------------------------------------------------------------
THEOREM InitIsSound == Init => IInv
<1> SUFFICES ASSUME Init PROVE IInv
  OBVIOUS
<1> USE DEF Init, WebInit
<1>1. FlagsTypeOK
  BY FlagsAssumption DEF FlagsInit, FlagsTypeOK
<1>2. store \in [Sid -> Session \cup {Gone}] /\ StoreInv
  BY Constant DEF RecordOf, OwnOf, Session, StoreInv
<1>3. calm \in Change \cup {Disturbed} /\ mishaps \in 0..scenario.mishaps
  BY Constant, WebAssumption
<1>4. WebTypeOK
  BY <1>1, <1>2, <1>3, Constant, Requests DEF WebTypeOK, Page, Label
<1>5. \A t \in Tab : TabInv(t)
  BY Constant DEF TabInv
<1> QED BY <1>2, <1>4, <1>5 DEF IInv, TypeOK

-----------------------------------------------------------------------------
(* How a step ends.  A step of tab t leaves the copies of other tabs alone,*)
(* and what has been allocated stays so.                                   *)

Others(t) ==
    \A u \in Tab \ {t} :
        /\ copy'[u] = copy[u] /\ answer'[u] = answer[u] /\ pc'[u] = pc[u]
        /\ req'[u] = req[u] /\ file'[u] = file[u]

LEMMA TabStepKeeps ==
    ASSUME IInv, NEW t \in Tab, TypeOK', done \subseteq done', Others(t), StoreInv', TabInv(t)'
    PROVE  IInv'
<1>1. ASSUME NEW u \in Tab \ {t} PROVE TabInv(u)'
  BY <1>1 DEF IInv, TabInv, Others
<1> QED BY <1>1 DEF IInv

(* What is not of the tab, whichever way the step ends. *)
Around ==
    /\ FlagsTypeOK'
    /\ mishaps' \in 0..scenario'.mishaps /\ calm' \in Change \cup {Disturbed}
    /\ scenario' \in Scenario
    /\ done \subseteq done' /\ done' \subseteq Case

LEMMA FineKeeps ==
    ASSUME IInv, Fine
    PROVE  /\ mishaps' \in 0..scenario'.mishaps /\ calm' \in Change \cup {Disturbed}
           /\ scenario' \in Scenario
BY DEF IInv, TypeOK, WebTypeOK, Fine

LEMMA FaultKeeps ==
    ASSUME IInv, NEW kind, Fault(kind)
    PROVE  /\ mishaps' \in 0..scenario'.mishaps /\ calm' \in Change \cup {Disturbed}
           /\ scenario' \in Scenario
<1>1. scenario.mishaps \in Nat
  BY WebAssumption DEF IInv, TypeOK, WebTypeOK
<1> QED BY <1>1 DEF IInv, TypeOK, WebTypeOK, Fault

LEMMA FlagsStay == ASSUME IInv, UNCHANGED flagVars PROVE FlagsTypeOK'
BY DEF IInv, TypeOK, WebTypeOK, FlagsTypeOK, flagVars

LEMMA StoreStays ==
    ASSUME IInv, UNCHANGED store, done \subseteq done'
    PROVE  StoreInv'
BY DEF IInv, StoreInv

LEMMA GoOnKeeps ==
    ASSUME IInv, NEW t \in Tab, NEW label \in Label, GoOn(t, label), Around,
           label = "details" => req[t].cases \subseteq done',
           label = "store" => file[t] # NoFile,
           label \in {"flags", "store", "guard"} => req[t].kind \notin SignInKind
    PROVE  IInv'
<1> USE DEF GoOn, sessionVars, browserVars, redisVars
<1>1. WebTypeOK' /\ Others(t)
  BY DEF IInv, TypeOK, WebTypeOK, Around, Others
<1>2. TabInv(t)'
  BY DEF IInv, TypeOK, WebTypeOK, TabInv, Around
<1> QED BY <1>1, <1>2, StoreStays, TabStepKeeps DEF Around, TypeOK

LEMMA GoOnWithKeeps ==
    ASSUME IInv, NEW t \in Tab, NEW label \in Label, NEW flash \in Flash,
           GoOnWith(t, label, flash), Around, flash.cases \subseteq done',
           label = "details" => req[t].cases \subseteq done',
           label \notin {"flags", "store", "guard"}
    PROVE  IInv'
<1> USE DEF GoOnWith, FlashTo, SessionTo, browserVars, redisVars
<1>1. WebTypeOK' /\ Others(t)
  BY DEF IInv, TypeOK, WebTypeOK, Around, Others
<1>2. TabInv(t)'
  BY DEF IInv, TypeOK, WebTypeOK, TabInv, Around
<1> QED BY <1>1, <1>2, StoreStays, TabStepKeeps DEF Around, TypeOK

LEMMA RespondKeeps ==
    ASSUME IInv, NEW t \in Tab, NEW ans \in Answer, NEW flash \in Flash,
           Respond(t, ans, flash), Around, flash.cases \subseteq done',
           ~ans.redirect => ans.banner.cases \subseteq done'
    PROVE  IInv'
<1> USE DEF Respond, FlashTo, SessionTo, browserVars, redisVars
<1>1. WebTypeOK' /\ Others(t)
  BY DEF IInv, TypeOK, WebTypeOK, Around, Others, Label
<1>2. TabInv(t)'
  BY DEF IInv, TypeOK, WebTypeOK, TabInv, Around
<1> QED BY <1>1, <1>2, StoreStays, TabStepKeeps DEF Around, TypeOK

LEMMA CallFailsKeeps ==
    ASSUME IInv, NEW t \in Tab, NEW flash \in Flash, CallFails(t, flash), UNCHANGED flagVars,
           done \subseteq done', done' \subseteq Case, flash.cases \subseteq done'
    PROVE  IInv'
<1>1. Around
  BY FaultKeeps, FlagsStay DEF CallFails, Around
<1>2. PICK ans \in {OtherPage, RedirectTo(SignOut)} : Respond(t, ans, flash)
  BY DEF CallFails, NextError
<1> QED BY <1>1, <1>2, RespondKeeps, Constant, Requests, Redirects

LEMMA ShowKeeps ==
    ASSUME IInv, NEW t \in Tab, NEW ans \in Answer, NEW flash \in Flash,
           Respond(t, ans, flash), Fine, UNCHANGED flagVars,
           done \subseteq done', done' \subseteq Case, flash.cases \subseteq done',
           ~ans.redirect => ans.banner.cases \subseteq done'
    PROVE  IInv'
BY RespondKeeps, FineKeeps, FlagsStay DEF Around

LEMMA OwnFacts ==
    ASSUME IInv, NEW t \in Tab
    PROVE  /\ copy[t] \in Flash /\ copy[t].cases \subseteq done /\ done \subseteq Case
           /\ req[t] \in Request /\ own[t] \in Own /\ file[t] \in File \cup {NoFile}
BY DEF IInv, TypeOK, WebTypeOK, TabInv

-----------------------------------------------------------------------------
(* AssignCase.                                                             *)

LEMMA GetViewKeeps == ASSUME IInv, NEW t \in Tab, GetView(t) PROVE IInv'
<1> DEFINE flash == WithoutAllocation(copy[t])
           banner == IF copy[t].success
                     THEN [cases |-> copy[t].cases, others |-> copy[t].others,
                           to |-> copy[t].to, unassign |-> copy[t].unassign]
                     ELSE NoBanner
<1>1. flash \in Flash /\ flash.cases = {}
  BY OwnFacts, Constant DEF WithoutAllocation, Flash, NoFlash
<1>2. banner \in Banner /\ banner.cases \subseteq done
  BY OwnFacts, Constant DEF Flash, Banner
<1>3. /\ Shown("assign", banner, {}) \in Answer
      /\ ~Shown("assign", banner, {}).redirect
      /\ Shown("assign", banner, {}).banner = banner
  BY <1>2 DEF Shown, Answer, Page
<1>4. /\ UNCHANGED <<flagVars, done>>
      /\ \/ Fine /\ Respond(t, Shown("assign", banner, {}), flash)
         \/ CallFails(t, flash)
  BY DEF GetView
<1> HIDE DEF flash, banner
<1> QED BY <1>1, <1>2, <1>3, <1>4, OwnFacts, ShowKeeps, CallFailsKeeps

LEMMA RejectAssignmentKeeps ==
    ASSUME IInv, NEW t \in Tab, RejectAssignment(t) PROVE IInv'
BY OwnFacts, ShowKeeps, Requests, Redirects DEF RejectAssignment

LEMMA AssignCasesKeeps == ASSUME IInv, NEW t \in Tab, AssignCases(t) PROVE IInv'
<1> DEFINE r == req[t]
           flash == IF r.to = Unassign THEN [copy[t] EXCEPT !.unassign = TRUE]
                    ELSE [copy[t] EXCEPT !.to = FirstOf(@, Nobody, r.to)]
<1>1. r.cases \subseteq Case /\ r.to \in Choice
  BY OwnFacts DEF Request
<1>2. flash \in Flash /\ flash.cases = copy[t].cases
  BY <1>1, OwnFacts DEF Flash, FirstOf, Choice
<1>3. CASE Calmly(r) /\ Allocate(r) /\ GoOnWith(t, "details", flash)
  <2>1. Around
    BY <1>1, <1>3, OwnFacts, FlagsStay
    DEF AssignCases, Around, Calmly, Allocate, Change, IInv, TypeOK, WebTypeOK
  <2>2. r.cases \subseteq done'
    BY <1>3 DEF Allocate
  <2> HIDE DEF flash
  <2> QED BY <1>2, <1>3, <2>1, <2>2, OwnFacts, GoOnWithKeeps DEF Around, Label
<1>4. CASE (Allocate(r) \/ UNCHANGED done) /\ CallFails(t, copy[t])
  <2>1. done \subseteq done' /\ done' \subseteq Case
    BY <1>1, <1>4, OwnFacts DEF Allocate
  <2> QED BY <1>4, <2>1, OwnFacts, CallFailsKeeps DEF AssignCases
<1> QED BY <1>3, <1>4 DEF AssignCases

LEMMA TellSuccessKeeps == ASSUME IInv, NEW t \in Tab, TellSuccess(t) PROVE IInv'
<1> DEFINE r == req[t]
           n == Cardinality(r.cases)
           named == IF n < Listed THEN n ELSE Listed
           others == IF n = named THEN 0 ELSE FirstOf(copy[t].others, 0, n - named)
           flash(cases) == [copy[t] EXCEPT !.success = TRUE, !.cases = @ \cup cases,
                                           !.others = others]
<1>1. r.cases \subseteq done
  BY DEF TellSuccess, IInv, TabInv
<1>2. n \in 0..Cardinality(Case) /\ Cardinality(Case) \in Nat
  BY <1>1, OwnFacts, Counts, FS_CardinalityType, WebAssumption
<1>3. others \in 0..Cardinality(Case)
  <2>1. n - named \in 0..Cardinality(Case)
    BY <1>2, WebAssumption
  <2>2. copy[t].others \in 0..Cardinality(Case)
    BY OwnFacts DEF Flash
  <2> QED BY <1>2, <2>1, <2>2 DEF FirstOf
<1>4. ASSUME NEW cases \in SUBSET r.cases
      PROVE  flash(cases) \in Flash /\ flash(cases).cases \subseteq done
  <2>1. cases \subseteq Case /\ cases \subseteq done
    BY <1>1, <1>4, OwnFacts
  <2> HIDE DEF others
  <2> QED BY <1>3, <2>1, OwnFacts DEF Flash
<1>5. UNCHANGED <<flagVars, done>>
  BY DEF TellSuccess
<1>6. CASE CallFails(t, copy[t])
  BY <1>5, <1>6, OwnFacts, CallFailsKeeps
<1>7. CASE Fine /\ \E cases \in SUBSET r.cases : Respond(t, RedirectTo(AssignPage), flash(cases))
  <2>1. PICK cases \in SUBSET r.cases : Respond(t, RedirectTo(AssignPage), flash(cases))
    BY <1>7
  <2>2. flash(cases) \in Flash /\ flash(cases).cases \subseteq done'
    BY <1>4, <1>5
  <2>3. RedirectTo(AssignPage) \in Answer /\ RedirectTo(AssignPage).redirect
    BY Requests, Redirects
  <2> HIDE DEF flash
  <2> QED BY <1>5, <1>7, <2>1, <2>2, <2>3, OwnFacts, ShowKeeps
<1> QED BY <1>6, <1>7 DEF TellSuccess

-----------------------------------------------------------------------------
(* FlashForms.                                                             *)

LEMMA FormFlash ==
    ASSUME NEW flash \in Flash, NEW f \in Form
    PROVE  /\ WithoutErrors(f, flash) \in Flash
           /\ WithoutErrors(f, flash).cases = flash.cases
           /\ FoundBy(f, flash) \subseteq Form
           /\ f \notin Need => /\ WithValidationError(f, flash) \in Flash
                               /\ WithValidationError(f, flash).cases = flash.cases
<1>1. WithoutErrors(f, flash) \in Flash /\ WithoutErrors(f, flash).cases = flash.cases
  BY DEF WithoutErrors, Flash
<1>2. FoundBy(f, flash) \subseteq Form
  BY DEF FoundBy, Flash, Form
<1>3. ASSUME f \notin Need
      PROVE  /\ WithValidationError(f, flash) \in Flash
             /\ WithValidationError(f, flash).cases = flash.cases
  BY <1>3 DEF WithValidationError, Flash, Form
<1> QED BY <1>1, <1>2, <1>3

LEMMA FormShown ==
    ASSUME NEW f \in Form, NEW shows \in SUBSET Form
    PROVE  /\ Shown(f, NoBanner, shows) \in Answer
           /\ ~Shown(f, NoBanner, shows).redirect
           /\ Shown(f, NoBanner, shows).banner.cases = {}
BY Constant DEF Shown, Answer, Page

LEMMA ReadFormKeeps ==
    ASSUME IInv, NEW t \in Tab,
           GetSupportNeedUpdateForm(t) \/ ResetProfileReason(t) \/ GetStatusUpdate(t),
           UNCHANGED done
    PROVE  IInv'
<1> DEFINE f == req[t].form
           without == WithoutErrors(f, copy[t])
           shown == Shown(f, NoBanner, FoundBy(f, copy[t]))
<1>1. f \in Form /\ UNCHANGED flagVars
  BY DEF GetSupportNeedUpdateForm, ResetProfileReason, GetStatusUpdate, Form
<1>2. without \in Flash /\ without.cases = copy[t].cases
  BY <1>1, OwnFacts, FormFlash
<1>3. shown \in Answer /\ ~shown.redirect /\ shown.banner.cases = {}
  BY <1>1, OwnFacts, FormFlash, FormShown
<1>4. RedirectTo(Home) \in Answer /\ RedirectTo(Home).redirect
  BY Requests, Redirects
<1>5. \/ \E ans \in {shown, OtherPage, RedirectTo(Home)}, flash \in {copy[t], without} :
           Fine /\ Respond(t, ans, flash)
      \/ \E flash \in {copy[t], without} : CallFails(t, flash)
  BY DEF GetSupportNeedUpdateForm, ResetProfileReason, GetStatusUpdate, NextError
<1> HIDE DEF without, shown
<1>6. ASSUME NEW ans \in {shown, OtherPage, RedirectTo(Home)}, NEW flash \in {copy[t], without},
             Fine, Respond(t, ans, flash)
      PROVE  IInv'
  BY <1>1, <1>2, <1>3, <1>4, <1>6, OwnFacts, Constant, ShowKeeps
<1>7. ASSUME NEW flash \in {copy[t], without}, CallFails(t, flash)
      PROVE  IInv'
  BY <1>1, <1>2, <1>7, OwnFacts, CallFailsKeeps
<1> QED BY <1>5, <1>6, <1>7

LEMMA SubmitFormKeeps ==
    ASSUME IInv, NEW t \in Tab, NEW flash \in Flash, flash.cases = copy[t].cases,
           req[t].form \in Form, SubmitForm(t, flash), UNCHANGED done
    PROVE  IInv'
<1> DEFINE back == RedirectTo(Get("form", req[t].form))
<1>1. /\ back \in Answer /\ back.redirect
      /\ RedirectTo(Home) \in Answer /\ RedirectTo(Home).redirect
  BY Requests, Redirects
<1>2. \/ \E ans \in {back, OtherPage, RedirectTo(Home)}, fl \in {copy[t], flash} :
           Fine /\ Respond(t, ans, fl)
      \/ CallFails(t, copy[t])
  BY DEF SubmitForm, NextError
<1>3. UNCHANGED flagVars
  BY DEF SubmitForm
<1> HIDE DEF back
<1>4. ASSUME NEW ans \in {back, OtherPage, RedirectTo(Home)}, NEW fl \in {copy[t], flash},
             Fine, Respond(t, ans, fl)
      PROVE  IInv'
  BY <1>1, <1>3, <1>4, OwnFacts, Constant, ShowKeeps
<1>5. ASSUME CallFails(t, copy[t]) PROVE IInv'
  BY <1>3, <1>5, OwnFacts, CallFailsKeeps
<1> QED BY <1>2, <1>4, <1>5

LEMMA FormStepKeeps ==
    ASSUME IInv, NEW t \in Tab, FormStep(t), UNCHANGED done PROVE IInv'
<1>1. CASE GetSupportNeedUpdateForm(t) \/ ResetProfileReason(t) \/ GetStatusUpdate(t)
  BY <1>1, ReadFormKeeps
<1>2. CASE PostSupportNeedUpdateForm(t)
  <2> DEFINE flash == [copy[t] EXCEPT !.errors = @ \cup {req[t].form},
                                      !.formValues = IF @ = NoForm THEN req[t].form ELSE @]
  <2>1. req[t].form \in Need /\ SubmitForm(t, flash)
    BY <1>2 DEF PostSupportNeedUpdateForm
  <2>2. flash \in Flash /\ flash.cases = copy[t].cases /\ req[t].form \in Form
    BY <2>1, OwnFacts DEF Flash, Form
  <2> HIDE DEF flash
  <2> QED BY <2>1, <2>2, SubmitFormKeeps
<1>3. CASE SubmitResetProfileReason(t) \/ PostStatusUpdate(t)
  <2>1. PICK f \in {Reset, Status} :
            req[t].form = f /\ SubmitForm(t, WithValidationError(f, copy[t]))
    BY <1>3 DEF SubmitResetProfileReason, PostStatusUpdate
  <2>2. f \in Form /\ f \notin Need
    BY WebAssumption DEF Form
  <2> QED BY <2>1, <2>2, OwnFacts, FormFlash, SubmitFormKeeps
<1> QED BY <1>1, <1>2, <1>3 DEF FormStep

-----------------------------------------------------------------------------
(* SignInOut.                                                              *)

LEMMA SessionKeeps ==
    ASSUME IInv, NEW t \in Tab, NEW ans \in {OtherPage} \cup { RedirectTo(r) : r \in Request },
           NEW o \in Own, NEW flash \in {copy[t], NoFlash}, SessionTo(t, o, flash),
           pc' = [pc EXCEPT ![t] = "save"], answer' = [answer EXCEPT ![t] = ans],
           store' \in [Sid -> Session \cup {Gone}], StoreInv',
           UNCHANGED <<cookie, browserVars, file, flagVars, done>>,
           Fine \/ \E kind \in {"call", "session"} : Fault(kind)
    PROVE  IInv'
<1>1. ans \in Answer /\ (~ans.redirect => ans.banner.cases \subseteq done)
  BY Constant, Redirects
<1>2. flash \in Flash /\ flash.cases \subseteq done /\ done \subseteq Case
  BY OwnFacts, Constant
<1>3. Around
  BY <1>2, FineKeeps, FaultKeeps, FlagsStay DEF Around
<1>4. WebTypeOK' /\ Others(t)
  BY <1>1, <1>2, <1>3
  DEF SessionTo, browserVars, IInv, TypeOK, WebTypeOK, Around, Others, Label
<1>5. TabInv(t)'
  BY <1>1, <1>2 DEF SessionTo, IInv, TypeOK, WebTypeOK, TabInv
<1> QED BY <1>1, <1>2, <1>3, <1>4, <1>5, TabStepKeeps DEF Around, TypeOK

LEMMA StoreOfStays ==
    ASSUME IInv, UNCHANGED <<store, done>>
    PROVE  store' \in [Sid -> Session \cup {Gone}] /\ StoreInv'
BY StoreStays DEF IInv, TypeOK, WebTypeOK

LEMMA ToSignInKeeps ==
    ASSUME IInv, NEW t \in Tab, ToSignIn(t), UNCHANGED <<flagVars, done>>,
           Fine \/ \E kind \in {"call", "session"} : Fault(kind)
    PROVE  IInv'
<1> DEFINE o == [own[t] EXCEPT !.returnTo = OriginalUrl(req[t])]
<1>1. o \in Own
  BY OwnFacts, Requests DEF Own
<1> HIDE DEF o
<1>2. /\ SessionTo(t, o, copy[t]) /\ answer' = [answer EXCEPT ![t] = RedirectTo(SignIn)]
      /\ pc' = [pc EXCEPT ![t] = "save"] /\ UNCHANGED <<store, cookie, browserVars, file>>
  BY DEF ToSignIn, redisVars, o
<1> QED BY <1>1, <1>2, StoreOfStays, SessionKeeps, Requests

LEMMA FinishSignInKeeps ==
    ASSUME IInv, NEW t \in Tab, FinishSignIn(t), UNCHANGED <<flagVars, done>> PROVE IInv'
<1>1. PICK s \in Sid :
          /\ store' = [store EXCEPT ![own[t].sid] = Gone, ![s] = RecordOf(SignedIn(s), NoFlash)]
          /\ SessionTo(t, SignedIn(s), NoFlash)
  BY DEF FinishSignIn
<1>2. SignedIn(s) \in Own
  BY DEF SignedIn, OwnOf, Own
<1>3. RecordOf(SignedIn(s), NoFlash) \in Session /\ RecordOf(SignedIn(s), NoFlash).flash = NoFlash
  BY Constant DEF SignedIn, OwnOf, RecordOf, Session
<1>4. store' \in [Sid -> Session \cup {Gone}] /\ StoreInv'
  BY <1>1, <1>3, Constant DEF IInv, TypeOK, WebTypeOK, StoreInv
<1>5. ReturnUrl(own[t]) \in Request
  BY OwnFacts, Requests DEF ReturnUrl, Own
<1> QED BY <1>1, <1>2, <1>4, <1>5, SessionKeeps DEF FinishSignIn

LEMMA EndSessionKeeps ==
    ASSUME IInv, NEW t \in Tab, EndSession(t), UNCHANGED <<flagVars, done>> PROVE IInv'
<1>1. CASE own[t].user
  <2>1. store' = [store EXCEPT ![own[t].sid] = Gone] /\ SessionTo(t, NoOwn, NoFlash)
    BY <1>1 DEF EndSession
  <2>2. store' \in [Sid -> Session \cup {Gone}] /\ StoreInv'
    BY <2>1 DEF EndSession, IInv, TypeOK, WebTypeOK, StoreInv
  <2> QED BY <2>1, <2>2, Constant, Requests, SessionKeeps DEF EndSession
<1>2. CASE ~own[t].user
  <2>1. UNCHANGED <<store, own, copy, dirty>>
    BY <1>2 DEF EndSession
  <2>2. SessionTo(t, own[t], copy[t])
    BY <2>1 DEF SessionTo, IInv, TypeOK, WebTypeOK
  <2> QED BY <2>1, <2>2, StoreOfStays, OwnFacts, Requests, SessionKeeps DEF EndSession
<1> QED BY <1>1, <1>2

LEMMA SignInStepKeeps ==
    ASSUME IInv, NEW t \in Tab, SignInStep(t), UNCHANGED done PROVE IInv'
<1>1. UNCHANGED flagVars
  BY DEF SignInStep
<1>2. CASE Refuse(t) \/ TokenNotVerified(t)
  BY <1>1, <1>2, ToSignInKeeps DEF Refuse, TokenNotVerified
<1>3. CASE Forbid(t) \/ ShowAuthError(t)
  <2>1. PICK ans \in {OtherPage, RedirectTo(SignOut)} : Respond(t, ans, copy[t]) /\ Fine
    BY <1>3 DEF Forbid, ShowAuthError, NextError
  <2> QED BY <1>1, <2>1, OwnFacts, ShowKeeps, Constant, Requests, Redirects
<1>4. CASE StartSignIn(t)
  <2> DEFINE o == [own[t] EXCEPT !.state = t]
  <2>1. o \in Own
    BY OwnFacts DEF Own
  <2>2. SessionTo(t, o, copy[t]) /\ UNCHANGED <<store, cookie>>
    BY <1>4 DEF StartSignIn, redisVars
  <2> HIDE DEF o
  <2> QED BY <1>1, <1>4, <2>1, <2>2, StoreOfStays, Requests, SessionKeeps DEF StartSignIn
<1>5. CASE FinishSignIn(t)
  BY <1>1, <1>5, FinishSignInKeeps
<1>6. CASE FailSignIn(t)
  <2> DEFINE o == [own[t] EXCEPT !.state = NoTab]
  <2>1. o \in Own
    BY OwnFacts DEF Own
  <2>2. SessionTo(t, o, copy[t]) /\ UNCHANGED <<store, cookie>>
    BY <1>6 DEF FailSignIn, redisVars
  <2>3. PICK ans \in {OtherPage, RedirectTo(AuthError)} : answer' = [answer EXCEPT ![t] = ans]
    BY <1>6 DEF FailSignIn
  <2>4. ans \in {OtherPage} \cup { RedirectTo(r) : r \in Request }
    BY <2>3, Requests
  <2>5. Fine \/ \E kind \in {"call", "session"} : Fault(kind)
    BY <1>6 DEF FailSignIn
  <2> HIDE DEF o
  <2> QED BY <1>1, <1>6, <2>1, <2>2, <2>3, <2>4, <2>5, StoreOfStays, SessionKeeps DEF FailSignIn
<1>7. CASE EndSession(t)
  BY <1>1, <1>7, EndSessionKeeps
<1> QED BY <1>2, <1>3, <1>4, <1>5, <1>6, <1>7 DEF SignInStep

-----------------------------------------------------------------------------
(* WebRequest.                                                             *)

LEMMA LoadSessionKeeps ==
    ASSUME IInv, NEW t \in Tab, LoadSession(t), UNCHANGED done PROVE IInv'
<1> DEFINE known == store[cookie] # Gone
           r == store[cookie]
           o(s) == IF known THEN [sid |-> s, user |-> r.user, returnTo |-> r.returnTo,
                                  state |-> r.state]
                   ELSE OwnOf(s, FALSE)
           flash == IF known THEN r.flash ELSE NoFlash
<1>1. PICK s \in Sid : pc' = [pc EXCEPT ![t] = Admitted(t, o(s))] /\ own' = [own EXCEPT ![t] = o(s)]
  BY DEF LoadSession
<1>2. /\ copy' = [copy EXCEPT ![t] = flash] /\ dirty' = [dirty EXCEPT ![t] = ~known]
      /\ UNCHANGED <<redisVars, browserVars, file, answer, flagVars>>
      /\ Fine
  BY <1>1 DEF LoadSession
<1>3. known => r \in Session /\ r.flash.cases \subseteq done
  BY DEF IInv, TypeOK, WebTypeOK, StoreInv
<1>4. o(s) \in Own /\ flash \in Flash /\ flash.cases \subseteq done
  BY <1>3, Constant DEF Session, Own, OwnOf
<1> DEFINE label == Admitted(t, o(s))
<1>5. /\ label \in Label \ {"details", "store", "guard"}
      /\ label = "flags" => req[t].kind \notin SignInKind
  BY OwnFacts DEF Admitted, Label, SignInKind
<1> HIDE DEF known, r, o, flash, label
<1>6. Around
  BY <1>2, FineKeeps, FlagsStay, OwnFacts DEF Around
<1>7. WebTypeOK' /\ Others(t)
  BY <1>1, <1>2, <1>4, <1>5, <1>6
  DEF redisVars, browserVars, IInv, TypeOK, WebTypeOK, Around, Others, label, known
<1>8. TabInv(t)'
  BY <1>1, <1>2, <1>4, <1>5 DEF browserVars, IInv, TypeOK, WebTypeOK, TabInv, label
<1>9. StoreInv'
  BY <1>2, StoreStays DEF redisVars
<1> QED BY <1>6, <1>7, <1>8, <1>9, TabStepKeeps DEF Around, TypeOK

LEMMA FlagsKeep ==
    ASSUME IInv, NEW t \in Tab, FlagsFromCache(t) \/ FetchFlags(t) \/ FlagsFromS3(t), UNCHANGED done
    PROVE  IInv'
<1>1. pc[t] \in {"flags", "store"} /\ req[t].kind \notin SignInKind
  BY DEF FlagsFromCache, FetchFlags, FlagsFromS3, IInv, TabInv
<1>2. CASE FlagsFromCache(t)
  <2>1. Around
    BY <1>2, FineKeeps, OwnFacts
    DEF FlagsFromCache, UseCached, Around, IInv, TypeOK, WebTypeOK, FlagsTypeOK
  <2> QED BY <1>1, <1>2, <2>1, GoOnKeeps DEF FlagsFromCache, Label
<1>3. CASE FetchFlags(t)
  <2>1. Around
    BY <1>3, FineKeeps, FlagsStay, OwnFacts DEF FetchFlags, Around
  <2>2. s3 \in File /\ NoFile \notin File
    BY FlagsAssumption DEF IInv, TypeOK, WebTypeOK, FlagsTypeOK
  <2>3. WebTypeOK' /\ Others(t)
    BY <1>3, <2>1, <2>2
    DEF FetchFlags, sessionVars, redisVars, browserVars, IInv, TypeOK, WebTypeOK,
        Around, Others, Label
  <2>4. TabInv(t)'
    BY <1>1, <1>3, <2>2
    DEF FetchFlags, sessionVars, browserVars, IInv, TypeOK, WebTypeOK, TabInv
  <2>5. StoreInv'
    BY <1>3, StoreStays DEF FetchFlags, sessionVars, redisVars
  <2> QED BY <2>1, <2>3, <2>4, <2>5, TabStepKeeps DEF Around, TypeOK
<1>4. CASE FlagsFromS3(t)
  <2>1. file[t] \in File
    BY <1>4, OwnFacts DEF FlagsFromS3, IInv, TabInv
  <2>2. Around
    BY <1>4, <2>1, FineKeeps, OwnFacts
    DEF FlagsFromS3, UseFetched, Around, IInv, TypeOK, WebTypeOK, FlagsTypeOK
  <2>3. WebTypeOK' /\ Others(t)
    BY <1>4, <2>2
    DEF FlagsFromS3, sessionVars, redisVars, browserVars, IInv, TypeOK, WebTypeOK,
        Around, Others, Label
  <2>4. TabInv(t)'
    BY <1>1, <1>4 DEF FlagsFromS3, sessionVars, browserVars, IInv, TypeOK, WebTypeOK, TabInv
  <2>5. StoreInv'
    BY <1>4, StoreStays DEF FlagsFromS3, sessionVars, redisVars
  <2> QED BY <2>2, <2>3, <2>4, <2>5, TabStepKeeps DEF Around, TypeOK
<1> QED BY <1>2, <1>3, <1>4

LEMMA ReadOnlyGuardKeeps ==
    ASSUME IInv, NEW t \in Tab, ReadOnlyGuard(t), UNCHANGED done PROVE IInv'
<1>1. req[t].kind \in {"home", "assignPage", "assign", "form", "post"}
  BY OwnFacts DEF ReadOnlyGuard, IInv, TabInv, Request, Kind
<1>2. CASE Respond(t, OtherPage, copy[t])
  BY <1>2, OwnFacts, Constant, ShowKeeps DEF ReadOnlyGuard
<1>3. CASE req[t].kind # "home" /\ GoOn(t, HandlerOf(req[t]))
  <2>1. HandlerOf(req[t]) \in Label \ {"details", "flags", "store", "guard"}
    BY <1>1, <1>3 DEF HandlerOf, Label
  <2>2. Around
    BY FineKeeps, FlagsStay, OwnFacts DEF ReadOnlyGuard, Around
  <2> QED BY <1>3, <2>1, <2>2, GoOnKeeps
<1> QED BY <1>2, <1>3 DEF ReadOnlyGuard, NextError

LEMMA SaveSessionKeeps ==
    ASSUME IInv, NEW t \in Tab, SaveSession(t), UNCHANGED done PROVE IInv'
<1> DEFINE sid == IF own[t].sid = NoSid THEN cookie ELSE own[t].sid
           records == [store EXCEPT ![sid] = RecordOf(own[t], copy[t])]
           a == answer[t]
<1>1. sid \in Sid
  BY OwnFacts DEF Own, IInv, TypeOK, WebTypeOK
<1>2. RecordOf(own[t], copy[t]) \in Session /\ RecordOf(own[t], copy[t]).flash = copy[t]
  BY OwnFacts DEF RecordOf, Session, Own
<1> HIDE DEF sid
<1>3. store' \in [Sid -> Session \cup {Gone}] /\ StoreInv'
  <2>1. PICK new \in {store, records} : store' = Reachable(new, t, sid)
    BY DEF SaveSession, sid
  <2>2. /\ new \in [Sid -> Session \cup {Gone}]
        /\ \A s \in Sid : new[s] # Gone => new[s].flash.cases \subseteq done
    BY <1>1, <1>2, <2>1, OwnFacts DEF IInv, TypeOK, WebTypeOK, StoreInv
  <2> QED BY <2>1, <2>2 DEF Reachable, StoreInv, SaveSession
<1>4. Around
  BY FineKeeps, FlagsStay, OwnFacts DEF SaveSession, Around, flagVars
<1>5. a \in Answer
  BY DEF IInv, TypeOK, WebTypeOK
<1>6. /\ cookie' = sid
      /\ own' = [own EXCEPT ![t] = NoOwn] /\ copy' = [copy EXCEPT ![t] = NoFlash]
      /\ dirty' = [dirty EXCEPT ![t] = FALSE] /\ answer' = [answer EXCEPT ![t] = OtherPage]
      /\ UNCHANGED file
  BY DEF SaveSession, sid
<1>7. CASE a.redirect
  <2>1. /\ pc' = [pc EXCEPT ![t] = "redirect"] /\ req' = [req EXCEPT ![t] = a.to]
        /\ UNCHANGED <<screen, issued, asked>>
    BY <1>7 DEF SaveSession
  <2>2. a.to \in Request
    BY <1>5, <1>7, AnswerFacts
  <2> HIDE DEF a
  <2>3. WebTypeOK' /\ Others(t)
    BY <1>1, <1>3, <1>4, <1>6, <2>1, <2>2, Constant
       DEF IInv, TypeOK, WebTypeOK, Around, Others, Label
  <2>4. TabInv(t)'
    BY <1>6, <2>1, Constant DEF IInv, TypeOK, WebTypeOK, TabInv
  <2> QED BY <1>3, <1>4, <2>3, <2>4, TabStepKeeps DEF Around, TypeOK
<1>8. CASE ~a.redirect
  <2> DEFINE token == IF a.page = "other" THEN NoSid ELSE sid
  <2>1. /\ pc' = [pc EXCEPT ![t] = "idle"] /\ req' = [req EXCEPT ![t] = Home]
        /\ screen' = [screen EXCEPT ![t] = a.page] /\ issued' = [issued EXCEPT ![t] = token]
        /\ asked' = [asked EXCEPT ![t] = Home]
    BY <1>8 DEF SaveSession, sid
  <2>2. a.page \in Page /\ token \in Sid \cup {NoSid}
    BY <1>1, <1>5, <1>8, AnswerFacts
  <2> HIDE DEF a, token
  <2>3. WebTypeOK' /\ Others(t)
    BY <1>1, <1>3, <1>4, <1>6, <2>1, <2>2, Constant, Requests
    DEF IInv, TypeOK, WebTypeOK, Around, Others, Label
  <2>4. TabInv(t)'
    BY <1>6, <2>1, Constant DEF IInv, TypeOK, WebTypeOK, TabInv
  <2> QED BY <1>3, <1>4, <2>3, <2>4, TabStepKeeps DEF Around, TypeOK
<1> QED BY <1>5, <1>7, <1>8, AnswerFacts

LEMMA WebStepKeeps == ASSUME IInv, NEW t \in Tab, WebStep(t), UNCHANGED done PROVE IInv'
<1>1. CASE MiddlewareFails(t)
  BY <1>1, OwnFacts, CallFailsKeeps DEF MiddlewareFails
<1> QED BY <1>1, LoadSessionKeeps, FlagsKeep, ReadOnlyGuardKeeps, SaveSessionKeeps DEF WebStep

-----------------------------------------------------------------------------
(* The user, the session and the flags.                                    *)

LEMMA BrowserKeeps ==
    ASSUME IInv, NEW t \in Tab, NEW label \in {"load", "idle"}, NEW r \in Request,
           NEW page \in Request,
           pc' = [pc EXCEPT ![t] = label], req' = [req EXCEPT ![t] = r],
           asked' = [asked EXCEPT ![t] = page], calm' \in Change \cup {Disturbed},
           UNCHANGED <<sessionVars, screen, issued, file, answer, mishaps, scenario,
                       flagVars, done>>
    PROVE  IInv'
<1> USE DEF sessionVars, redisVars
<1>1. FlagsTypeOK' /\ StoreInv'
  BY FlagsStay, StoreStays
<1>2. WebTypeOK' /\ Others(t)
  BY <1>1 DEF IInv, TypeOK, WebTypeOK, Others, Label
<1>3. TabInv(t)'
  BY DEF IInv, TypeOK, WebTypeOK, TabInv
<1> QED BY <1>1, <1>2, <1>3, OwnFacts, TabStepKeeps DEF TypeOK

LEMMA SendKeeps ==
    ASSUME IInv, NEW t \in Tab, NEW r \in Request, Send(t, r), UNCHANGED done
    PROVE  IInv'
<1>1. calm' \in Change \cup {Disturbed}
  BY DEF Send, IInv, TypeOK, WebTypeOK
<1>2. OriginalUrl(r) \in Request
  BY Requests
<1> QED BY <1>1, <1>2, BrowserKeeps DEF Send

LEMMA UseKeeps == ASSUME IInv, NEW t \in Tab, Use(t) PROVE IInv'
<1>1. scenario.cases \subseteq Case
  BY WebAssumption DEF IInv, TypeOK, WebTypeOK
<1>2. CASE OpenPage(t) /\ UNCHANGED done
  <2>1. PICK r \in Request : Send(t, r)
    BY <1>2, Requests DEF OpenPage
  <2> QED BY <1>2, <2>1, SendKeeps
<1>3. CASE FollowRedirect(t) /\ UNCHANGED done
  <2> DEFINE page == IF req[t].kind \in SignInKind THEN asked[t] ELSE OriginalUrl(req[t])
  <2>1. page \in Request /\ req[t] \in Request /\ calm \in Change \cup {Disturbed}
    BY OwnFacts, Requests DEF IInv, TypeOK, WebTypeOK
  <2>2. asked' = [asked EXCEPT ![t] = page] /\ req' = [req EXCEPT ![t] = req[t]]
    BY <1>3 DEF FollowRedirect, IInv, TypeOK, WebTypeOK
  <2> HIDE DEF page
  <2> QED BY <1>3, <2>1, <2>2, BrowserKeeps DEF FollowRedirect, Fine
<1>4. CASE AbandonRedirect(t) /\ UNCHANGED done
  BY <1>4, BrowserKeeps, Requests DEF AbandonRedirect
<1>5. CASE PressAssign(t)
  <2>1. PICK r \in Request : Send(t, r)
    BY <1>1, <1>5 DEF PressAssign, Request, Kind, Choice
  <2> QED BY <1>5, <2>1, SendKeeps DEF PressAssign
<1>6. CASE PressSubmit(t) /\ UNCHANGED done
  <2>1. PICK r \in Request : Send(t, r)
    BY <1>6 DEF PressSubmit, Request, Kind, Choice
  <2> QED BY <1>6, <2>1, SendKeeps
<1> QED BY <1>2, <1>3, <1>4, <1>5, <1>6 DEF Use, BrowserStep, Redirected

LEMMA EnvironmentKeeps ==
    ASSUME IInv, SessionExpires \/ FlagsChange, UNCHANGED done PROVE IInv'
<1>1. CASE SessionExpires
  <2> USE DEF browserVars
  <2>1. FlagsTypeOK' /\ store' = [store EXCEPT ![cookie] = Gone]
    BY <1>1, FlagsStay DEF SessionExpires
  <2>2. /\ mishaps' \in 0..scenario'.mishaps /\ calm' \in Change \cup {Disturbed}
        /\ scenario' \in Scenario
    BY <1>1, FaultKeeps DEF SessionExpires
  <2>3. WebTypeOK' /\ StoreInv'
    BY <1>1, <2>1, <2>2 DEF SessionExpires, IInv, TypeOK, WebTypeOK, StoreInv
  <2>4. \A t \in Tab : TabInv(t)'
    BY <1>1 DEF SessionExpires, IInv, TabInv
  <2> QED BY <2>3, <2>4 DEF IInv, TypeOK
<1>2. CASE FlagsChange
  <2> USE DEF FlagsChange, sessionVars, redisVars, browserVars
  <2>1. FlagsTypeOK'
    BY <1>2, FlagsAssumption DEF ExpireFlags, ReleaseFlags, IInv, TypeOK, WebTypeOK, FlagsTypeOK
  <2>2. WebTypeOK' /\ StoreInv'
    BY <1>2, <2>1 DEF IInv, TypeOK, WebTypeOK, StoreInv
  <2>3. \A t \in Tab : TabInv(t)'
    BY <1>2 DEF IInv, TabInv
  <2> QED BY <2>2, <2>3 DEF IInv, TypeOK
<1> QED BY <1>1, <1>2

-----------------------------------------------------------------------------
(* The theorems.                                                           *)

LEMMA StepKeeps == ASSUME IInv, [Next]_vars PROVE IInv'
<1>1. CASE UNCHANGED vars
  BY <1>1 DEF vars, webVars, flagVars, sessionVars, redisVars, browserVars,
              IInv, TypeOK, WebTypeOK, FlagsTypeOK, StoreInv, TabInv
<1>2. ASSUME NEW t \in Tab, Serve(t) PROVE IInv'
  <2>1. CASE AssignStep(t)
    BY <2>1, GetViewKeeps, RejectAssignmentKeeps, AssignCasesKeeps, TellSuccessKeeps DEF AssignStep
  <2> QED BY <1>2, <2>1, WebStepKeeps, SignInStepKeeps, FormStepKeeps DEF Serve
<1> QED BY <1>1, <1>2, UseKeeps, EnvironmentKeeps DEF Next

(* The inductive invariant: of every copy of a list of people, in Redis,   *)
(* in a request or in an answer, wherever the tabs are.                    *)
THEOREM PortalInvariant == Spec => []IInv
BY InitIsSound, StepKeeps, PTL DEF Spec

THEOREM TypeCorrect == Spec => []TypeOK
<1>1. IInv => TypeOK
  BY DEF IInv
<1> QED BY <1>1, PortalInvariant, PTL

(* Whatever fails and however the requests of the tabs interleave, a       *)
(* banner names nobody whose allocation the API has not changed.           *)
THEOREM BannerEarned == Spec => []BannerWasEarned
<1>1. IInv => BannerWasEarned
  BY DEF IInv, TabInv, BannerWasEarned, Answered
<1> QED BY <1>1, PortalInvariant, PTL
=============================================================================
