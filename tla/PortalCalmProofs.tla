--------------------------- MODULE PortalCalmProofs ---------------------------
(***************************************************************************)
(* Theorems about Portal as long as nothing disturbs a user, and about a   *)
(* user with one tab, for any number of people, forms and sessions: what a *)
(* banner and a form show, and to where signing in leads back.             *)
(*                                                                         *)
(* Both rest on the same fact: while a request is the only one there is,   *)
(* its copy of the session is the record that Redis has of it, but for     *)
(* what it has changed itself and will save (HeldInv).  So whatever one    *)
(* request puts there is what the next one finds.  It remains to follow    *)
(* the flash from the post to the page that the post redirects to          *)
(* (CalmInv), and returnTo from the page that was asked for to the         *)
(* callback (ReturnInv).                                                   *)
(***************************************************************************)
EXTENDS PortalProofs

Loaded == Label \ {"idle", "load", "redirect"}
Handling == {"flags", "store", "guard", "list", "change", "details", "read", "write"}

-----------------------------------------------------------------------------
(* What a step of the request of tab t leaves alone.                       *)

StepOf(t) ==
    /\ \A u \in Tab \ {t} :
          /\ pc'[u] = pc[u] /\ req'[u] = req[u] /\ asked'[u] = asked[u]
          /\ own'[u] = own[u] /\ copy'[u] = copy[u] /\ dirty'[u] = dirty[u]
          /\ file'[u] = file[u] /\ answer'[u] = answer[u]
    /\ scenario' = scenario
    /\ calm' # Disturbed => calm # Disturbed

LEMMA FineOrFault ==
    ASSUME Fine \/ \E kind : Fault(kind)
    PROVE  scenario' = scenario /\ (calm' # Disturbed => calm # Disturbed /\ calm' = calm)
BY DEF Fine, Fault

(* The three ways in which most steps end. *)
LEMMA GoOnIs ==
    ASSUME IInv, NEW t \in Tab, NEW label \in Label, GoOn(t, label),
           scenario' = scenario, calm' # Disturbed => calm # Disturbed
    PROVE  /\ StepOf(t)
           /\ pc'[t] = label /\ req'[t] = req[t] /\ asked'[t] = asked[t] /\ answer'[t] = answer[t]
           /\ own'[t] = own[t] /\ copy'[t] = copy[t] /\ dirty'[t] = dirty[t]
           /\ store' = store /\ cookie' = cookie
BY DEF GoOn, sessionVars, redisVars, browserVars, StepOf, IInv, TypeOK, WebTypeOK

LEMMA SessionToIs ==
    ASSUME IInv, NEW t \in Tab, NEW label \in Label, NEW o, NEW flash,
           SessionTo(t, o, flash), pc' = [pc EXCEPT ![t] = label],
           UNCHANGED <<browserVars, file>>,
           \A u \in Tab \ {t} : answer'[u] = answer[u],
           scenario' = scenario, calm' # Disturbed => calm # Disturbed
    PROVE  /\ StepOf(t)
           /\ pc'[t] = label /\ req'[t] = req[t] /\ asked'[t] = asked[t]
           /\ own'[t] = o /\ copy'[t] = flash
           /\ dirty'[t] = (dirty[t] \/ flash # copy[t] \/ o # own[t])
<1> USE DEF IInv, TypeOK, WebTypeOK
<1>1. own' = [own EXCEPT ![t] = o] /\ copy' = [copy EXCEPT ![t] = flash]
  BY DEF SessionTo
<1>2. dirty' = [dirty EXCEPT ![t] = dirty[t] \/ flash # copy[t] \/ o # own[t]]
  BY DEF SessionTo
<1>3. UNCHANGED <<req, asked, file>>
  BY DEF browserVars
<1> QED BY <1>1, <1>2, <1>3 DEF StepOf

LEMMA RespondIs ==
    ASSUME IInv, NEW t \in Tab, NEW ans, NEW flash, Respond(t, ans, flash),
           scenario' = scenario, calm' # Disturbed => calm # Disturbed
    PROVE  /\ StepOf(t)
           /\ pc'[t] = "save" /\ req'[t] = req[t] /\ asked'[t] = asked[t] /\ answer'[t] = ans
           /\ own'[t] = own[t] /\ copy'[t] = flash
           /\ dirty'[t] = (dirty[t] \/ flash # copy[t])
           /\ store' = store /\ cookie' = cookie
<1>1. SessionTo(t, own[t], flash) /\ store' = store /\ cookie' = cookie
  BY DEF Respond, FlashTo, redisVars
<1>2. answer' = [answer EXCEPT ![t] = ans]
  BY DEF Respond
<1>3. answer'[t] = ans /\ \A u \in Tab \ {t} : answer'[u] = answer[u]
  BY <1>2 DEF IInv, TypeOK, WebTypeOK
<1>4. pc' = [pc EXCEPT ![t] = "save"] /\ UNCHANGED <<browserVars, file>> /\ "save" \in Label
  BY DEF Respond, Label
<1>5. /\ StepOf(t)
      /\ pc'[t] = "save" /\ req'[t] = req[t] /\ asked'[t] = asked[t]
      /\ own'[t] = own[t] /\ copy'[t] = flash
      /\ dirty'[t] = (dirty[t] \/ flash # copy[t] \/ own[t] # own[t])
  BY <1>1, <1>3, <1>4, SessionToIs
<1> QED BY <1>1, <1>3, <1>5

-----------------------------------------------------------------------------
(* The steps of a request, but for those that load and save the session,   *)
(* and that end it: the session that is its own stays the same, and is     *)
(* dirty if anything of it does not.                                       *)

Moves(t) ==
    \/ pc[t] = "flags" /\ pc'[t] \in {"store", "guard"}
    \/ pc[t] = "store" /\ pc'[t] = "guard"
    \/ pc[t] = "guard" /\ req[t].kind # "home" /\ pc'[t] = HandlerOf(req[t])
    \/ pc[t] = "change" /\ pc'[t] = "details"

Answering(t) == pc'[t] = "save"

Kept(t) ==
    /\ StepOf(t)
    /\ pc[t] \in Loaded \ {"save"}
    /\ req'[t] = req[t] /\ asked'[t] = asked[t]
    /\ store' = store /\ cookie' = cookie
    /\ own'[t].sid = own[t].sid
    /\ ~dirty'[t] => ~dirty[t] /\ own'[t] = own[t] /\ copy'[t] = copy[t]
    /\ Answering(t) \/ (Moves(t) /\ own'[t] = own[t])

LEMMA RespondKept ==
    ASSUME IInv, NEW t \in Tab, NEW ans, NEW flash, Respond(t, ans, flash),
           Fine \/ \E kind : Fault(kind), pc[t] \in Loaded \ {"save"}
    PROVE  Kept(t)
<1>1. dirty[t] \in BOOLEAN
  BY DEF IInv, TypeOK, WebTypeOK
<1> QED BY <1>1, FineOrFault, RespondIs DEF Kept, Answering

LEMMA CallFailsIs ==
    ASSUME NEW t \in Tab, NEW flash, CallFails(t, flash)
    PROVE  /\ \E kind : Fault(kind)
           /\ \E ans \in {OtherPage, RedirectTo(SignOut)} : Respond(t, ans, flash)
           /\ calm' = Disturbed
BY DEF CallFails, NextError, Fault

LEMMA CallFailsKept ==
    ASSUME IInv, NEW t \in Tab, NEW flash, CallFails(t, flash), pc[t] \in Loaded \ {"save"}
    PROVE  Kept(t)
BY CallFailsIs, RespondKept

LEMMA AssignStepKept == ASSUME IInv, NEW t \in Tab, AssignStep(t) PROVE Kept(t)
<1> USE DEF Loaded, Label
<1>1. CASE GetView(t)
  BY <1>1, RespondKept, CallFailsKept DEF GetView
<1>2. CASE RejectAssignment(t)
  BY <1>2, RespondKept DEF RejectAssignment
<1>3. CASE AssignCases(t)
  <2>1. pc[t] = "change"
    BY <1>3 DEF AssignCases
  <2>2. CASE CallFails(t, copy[t])
    BY <2>1, <2>2, CallFailsKept
  <2>3. ASSUME NEW flash, Calmly(req[t]), GoOnWith(t, "details", flash) PROVE Kept(t)
    <3>1. scenario' = scenario /\ (calm' # Disturbed => calm # Disturbed)
      BY <2>3 DEF Calmly
    <3>2. SessionTo(t, own[t], flash) /\ store' = store /\ cookie' = cookie
      BY <2>3 DEF GoOnWith, FlashTo, redisVars
    <3>3. dirty[t] \in BOOLEAN
      BY DEF IInv, TypeOK, WebTypeOK
    <3>4. /\ StepOf(t)
          /\ pc'[t] = "details" /\ req'[t] = req[t] /\ asked'[t] = asked[t]
          /\ own'[t] = own[t] /\ copy'[t] = flash
          /\ dirty'[t] = (dirty[t] \/ flash # copy[t] \/ own[t] # own[t])
      BY <2>3, <3>1, <3>2, SessionToIs DEF GoOnWith
    <3>5. ~dirty'[t] => ~dirty[t] /\ copy'[t] = copy[t]
      BY <3>3, <3>4
    <3> QED BY <2>1, <3>2, <3>4, <3>5 DEF Kept, Moves
  <2>4. \/ \E flash : Calmly(req[t]) /\ GoOnWith(t, "details", flash)
        \/ CallFails(t, copy[t])
    BY <1>3 DEF AssignCases
  <2> QED BY <2>2, <2>3, <2>4
<1>4. CASE TellSuccess(t)
  <2>1. (\E ans, flash : Fine /\ Respond(t, ans, flash)) \/ CallFails(t, copy[t])
    BY <1>4 DEF TellSuccess
  <2>2. pc[t] = "details"
    BY <1>4 DEF TellSuccess
  <2> QED BY <2>1, <2>2, RespondKept, CallFailsKept
<1> QED BY <1>1, <1>2, <1>3, <1>4 DEF AssignStep

LEMMA FormStepKept == ASSUME IInv, NEW t \in Tab, FormStep(t) PROVE Kept(t)
<1>1. pc[t] \in {"read", "write"} /\ pc[t] \in Loaded \ {"save"}
  BY DEF FormStep, GetSupportNeedUpdateForm, ResetProfileReason, GetStatusUpdate,
         PostSupportNeedUpdateForm, SubmitResetProfileReason, PostStatusUpdate, SubmitForm,
         Loaded, Label
<1>2. (\E ans, flash : Fine /\ Respond(t, ans, flash)) \/ \E flash : CallFails(t, flash)
  BY DEF FormStep, GetSupportNeedUpdateForm, ResetProfileReason, GetStatusUpdate,
         PostSupportNeedUpdateForm, SubmitResetProfileReason, PostStatusUpdate, SubmitForm,
         NextError
<1> QED BY <1>1, <1>2, RespondKept, CallFailsKept

LEMMA SignInStepKept ==
    ASSUME IInv, NEW t \in Tab, SignInStep(t), ~FinishSignIn(t), ~(EndSession(t) /\ own[t].user)
    PROVE  Kept(t)
<1> USE DEF Loaded, Label
<1>1. dirty[t] \in BOOLEAN /\ own[t] \in Own
  BY DEF IInv, TypeOK, WebTypeOK
<1>2. ASSUME NEW o \in Own, NEW ans, SessionTo(t, o, copy[t]), o.sid = own[t].sid,
             pc[t] \in Loaded \ {"save"}, pc' = [pc EXCEPT ![t] = "save"],
             answer' = [answer EXCEPT ![t] = ans], UNCHANGED <<redisVars, browserVars, file>>,
             Fine \/ \E kind : Fault(kind)
      PROVE  Kept(t)
  <2>1. /\ \A u \in Tab \ {t} : answer'[u] = answer[u]
        /\ store' = store /\ cookie' = cookie
    BY <1>2 DEF redisVars, IInv, TypeOK, WebTypeOK
  <2>2. scenario' = scenario /\ (calm' # Disturbed => calm # Disturbed)
    BY <1>2, FineOrFault
  <2>3. pc' = [pc EXCEPT ![t] = "save"] /\ UNCHANGED <<browserVars, file>> /\ "save" \in Label
    BY <1>2
  <2>4. /\ StepOf(t)
        /\ pc'[t] = "save" /\ req'[t] = req[t] /\ asked'[t] = asked[t]
        /\ own'[t] = o /\ copy'[t] = copy[t]
        /\ dirty'[t] = (dirty[t] \/ copy[t] # copy[t] \/ o # own[t])
    BY <1>2, <2>1, <2>2, <2>3, SessionToIs
  <2>5. ~dirty'[t] => ~dirty[t] /\ own'[t] = own[t] /\ copy'[t] = copy[t]
    BY <1>1, <2>4
  <2>6. pc[t] \in Loaded \ {"save"} /\ own'[t].sid = own[t].sid
    BY <1>2, <2>4
  <2> QED BY <2>1, <2>4, <2>5, <2>6 DEF Kept, Answering
<1>3. CASE ToSignIn(t) /\ pc[t] \in {"refused", "flags"} /\ (Fine \/ \E kind : Fault(kind))
  <2> DEFINE o == [own[t] EXCEPT !.returnTo = OriginalUrl(req[t])]
  <2>1. o \in Own /\ o.sid = own[t].sid
    BY <1>1, OwnFacts, Requests DEF Own
  <2>2. SessionTo(t, o, copy[t])
    BY <1>3 DEF ToSignIn
  <2> HIDE DEF o
  <2> QED BY <1>2, <1>3, <2>1, <2>2 DEF ToSignIn
<1>4. CASE Forbid(t) \/ ShowAuthError(t)
  BY <1>4, RespondKept DEF Forbid, ShowAuthError, NextError
<1>5. CASE StartSignIn(t)
  <2> DEFINE o == [own[t] EXCEPT !.state = t]
  <2>1. o \in Own /\ o.sid = own[t].sid
    BY <1>1 DEF Own
  <2>2. SessionTo(t, o, copy[t])
    BY <1>5 DEF StartSignIn
  <2> HIDE DEF o
  <2> QED BY <1>2, <1>5, <2>1, <2>2 DEF StartSignIn
<1>6. CASE FailSignIn(t)
  <2> DEFINE o == [own[t] EXCEPT !.state = NoTab]
  <2>1. o \in Own /\ o.sid = own[t].sid
    BY <1>1 DEF Own
  <2>2. SessionTo(t, o, copy[t])
    BY <1>6 DEF FailSignIn
  <2> HIDE DEF o
  <2> QED BY <1>2, <1>6, <2>1, <2>2 DEF FailSignIn
<1>7. CASE EndSession(t) /\ ~own[t].user
  <2>1. SessionTo(t, own[t], copy[t])
    BY <1>7 DEF EndSession, SessionTo, IInv, TypeOK, WebTypeOK
  <2> QED BY <1>1, <1>2, <1>7, <2>1 DEF EndSession, redisVars
<1>8. CASE Refuse(t) \/ TokenNotVerified(t)
  BY <1>3, <1>8 DEF Refuse, TokenNotVerified
<1> QED BY <1>4, <1>5, <1>6, <1>7, <1>8 DEF SignInStep

LEMMA WebStepKept ==
    ASSUME IInv, NEW t \in Tab, WebStep(t), ~LoadSession(t), ~SaveSession(t) PROVE Kept(t)
<1> USE DEF Loaded, Label
<1>1. dirty[t] \in BOOLEAN
  BY DEF IInv, TypeOK, WebTypeOK
<1>2. ASSUME NEW label \in Label \ {"idle", "load", "redirect"}, GoOn(t, label), Fine,
             pc[t] \in Loaded \ {"save"}, Moves(t)
      PROVE  Kept(t)
  BY <1>1, <1>2, FineOrFault, GoOnIs DEF Kept
<1>3. CASE MiddlewareFails(t)
  BY <1>3, CallFailsKept DEF MiddlewareFails
<1>4. CASE FlagsFromCache(t)
  <2>1. pc'[t] = "guard"
    BY <1>4 DEF FlagsFromCache, GoOn, IInv, TypeOK, WebTypeOK
  <2> QED BY <1>2, <1>4, <2>1 DEF FlagsFromCache, Moves
<1>5. CASE FetchFlags(t) \/ FlagsFromS3(t)
  <2>1. PICK label, f :
            /\ label \in {"store", "guard"}
            /\ pc' = [pc EXCEPT ![t] = label] /\ file' = [file EXCEPT ![t] = f]
            /\ UNCHANGED <<sessionVars, browserVars, answer>>
            /\ label = "store" => pc[t] = "flags"
            /\ pc[t] \in {"flags", "store"}
    BY <1>5 DEF FetchFlags, FlagsFromS3
  <2>2. StepOf(t)
    BY <1>5, <2>1, FineOrFault
    DEF FetchFlags, FlagsFromS3, StepOf, sessionVars, redisVars, browserVars,
        IInv, TypeOK, WebTypeOK
  <2>3. pc'[t] = label /\ UNCHANGED <<store, cookie, req, asked, own, copy, dirty>>
    BY <2>1 DEF sessionVars, redisVars, browserVars, IInv, TypeOK, WebTypeOK
  <2> QED BY <1>1, <2>1, <2>2, <2>3 DEF Kept, Moves
<1>6. CASE ReadOnlyGuard(t)
  <2>1. CASE Respond(t, OtherPage, copy[t])
    BY <1>6, <2>1, RespondKept DEF ReadOnlyGuard
  <2>2. CASE req[t].kind # "home" /\ GoOn(t, HandlerOf(req[t]))
    <3>1. req[t].kind \in {"assignPage", "assign", "form", "post"}
      BY <1>6, <2>2, OwnFacts DEF ReadOnlyGuard, IInv, TabInv, Request, Kind
    <3>2. HandlerOf(req[t]) \in {"list", "change", "read", "write"}
      BY <3>1 DEF HandlerOf
    <3>3. pc'[t] = HandlerOf(req[t])
      BY <2>2 DEF GoOn, IInv, TypeOK, WebTypeOK
    <3> QED BY <1>2, <1>6, <2>2, <3>2, <3>3 DEF ReadOnlyGuard, Moves
  <2> QED BY <1>6, <2>1, <2>2 DEF ReadOnlyGuard, NextError
<1> QED BY <1>3, <1>4, <1>5, <1>6 DEF WebStep

LEMMA ServeCases ==
    ASSUME IInv, NEW t \in Tab, Serve(t)
    PROVE  \/ Kept(t) \/ LoadSession(t) \/ SaveSession(t)
           \/ FinishSignIn(t) \/ (EndSession(t) /\ own[t].user)
BY AssignStepKept, FormStepKept, SignInStepKept, WebStepKept DEF Serve

(* The session as it is loaded. *)
Found(s) ==
    IF store[cookie] # Gone
    THEN [sid |-> s, user |-> store[cookie].user, returnTo |-> store[cookie].returnTo,
          state |-> store[cookie].state]
    ELSE OwnOf(s, FALSE)

LEMMA LoadSessionIs ==
    ASSUME IInv, NEW t \in Tab, LoadSession(t)
    PROVE  /\ StepOf(t) /\ pc[t] = "load" /\ calm' = calm
           /\ req'[t] = req[t] /\ asked'[t] = asked[t] /\ store' = store /\ cookie' = cookie
           /\ featureFlags' = featureFlags
           /\ \E s \in Sid :
                 /\ store[cookie] # Gone => s = cookie
                 /\ own'[t] = Found(s) /\ pc'[t] = Admitted(t, Found(s))
           /\ copy'[t] = (IF store[cookie] # Gone THEN store[cookie].flash ELSE NoFlash)
           /\ dirty'[t] = (store[cookie] = Gone)
<1> DEFINE flash == IF store[cookie] # Gone THEN store[cookie].flash ELSE NoFlash
<1>1. PICK s \in Sid :
          /\ store[cookie] # Gone => s = cookie
          /\ pc' = [pc EXCEPT ![t] = Admitted(t, Found(s))]
          /\ own' = [own EXCEPT ![t] = Found(s)]
          /\ copy' = [copy EXCEPT ![t] = flash]
          /\ dirty' = [dirty EXCEPT ![t] = ~(store[cookie] # Gone)]
  BY DEF LoadSession, Found
<1>2. /\ pc[t] = "load" /\ Fine
      /\ UNCHANGED <<store, cookie, req, asked, file, answer, featureFlags>>
  BY DEF LoadSession, redisVars, browserVars, flagVars
<1> HIDE DEF flash
<1>3. StepOf(t)
  BY <1>1, <1>2, FineOrFault DEF StepOf, IInv, TypeOK, WebTypeOK
<1>4. /\ pc'[t] = Admitted(t, Found(s)) /\ own'[t] = Found(s) /\ copy'[t] = flash
      /\ dirty'[t] = (store[cookie] = Gone)
  BY <1>1 DEF IInv, TypeOK, WebTypeOK
<1> QED BY <1>1, <1>2, <1>3, <1>4 DEF Fine, flash

LEMMA FinishSignInIs ==
    ASSUME IInv, NEW t \in Tab, FinishSignIn(t)
    PROVE  /\ StepOf(t) /\ pc[t] = "callback" /\ own[t].state = t /\ calm' = calm
           /\ pc'[t] = "save" /\ req'[t] = req[t] /\ asked'[t] = asked[t] /\ cookie' = cookie
           /\ answer'[t] = RedirectTo(ReturnUrl(own[t]))
           /\ \E s \in Sid :
                 /\ s # cookie
                 /\ store' = [store EXCEPT ![own[t].sid] = Gone,
                                           ![s] = RecordOf(SignedIn(s), NoFlash)]
                 /\ own'[t] = SignedIn(s) /\ copy'[t] = NoFlash
<1>1. PICK s \in Sid :
          /\ NewSid(s)
          /\ store' = [store EXCEPT ![own[t].sid] = Gone, ![s] = RecordOf(SignedIn(s), NoFlash)]
          /\ SessionTo(t, SignedIn(s), NoFlash)
  BY DEF FinishSignIn
<1>2. /\ pc' = [pc EXCEPT ![t] = "save"] /\ UNCHANGED <<browserVars, file>> /\ "save" \in Label
      /\ answer' = [answer EXCEPT ![t] = RedirectTo(ReturnUrl(own[t]))]
      /\ pc[t] = "callback" /\ own[t].state = t /\ cookie' = cookie /\ Fine
  BY DEF FinishSignIn, Label
<1>3. /\ answer'[t] = RedirectTo(ReturnUrl(own[t]))
      /\ \A u \in Tab \ {t} : answer'[u] = answer[u]
  BY <1>2 DEF IInv, TypeOK, WebTypeOK
<1>4. scenario' = scenario /\ calm' = calm /\ (calm' # Disturbed => calm # Disturbed)
  BY <1>2 DEF Fine
<1> DEFINE o == SignedIn(s)
<1>5. SessionTo(t, o, NoFlash)
  BY <1>1
<1> HIDE DEF o
<1>6. /\ StepOf(t)
      /\ pc'[t] = "save" /\ req'[t] = req[t] /\ asked'[t] = asked[t]
      /\ own'[t] = o /\ copy'[t] = NoFlash
      /\ dirty'[t] = (dirty[t] \/ NoFlash # copy[t] \/ o # own[t])
  BY <1>2, <1>3, <1>4, <1>5, SessionToIs
<1>7. /\ StepOf(t)
      /\ pc'[t] = "save" /\ req'[t] = req[t] /\ asked'[t] = asked[t]
      /\ own'[t] = SignedIn(s) /\ copy'[t] = NoFlash
  BY <1>6 DEF o
<1>8. s # cookie
  BY <1>1 DEF NewSid, Unnamed
<1> QED BY <1>1, <1>2, <1>3, <1>4, <1>7, <1>8

LEMMA EndSessionIs ==
    ASSUME IInv, NEW t \in Tab, EndSession(t), own[t].user
    PROVE  /\ StepOf(t) /\ pc[t] = "signOut" /\ calm' = calm
           /\ pc'[t] = "save" /\ req'[t] = req[t] /\ asked'[t] = asked[t] /\ cookie' = cookie
           /\ answer'[t] = RedirectTo(Home)
           /\ store' = [store EXCEPT ![own[t].sid] = Gone]
           /\ own'[t] = NoOwn /\ copy'[t] = NoFlash
<1>1. /\ store' = [store EXCEPT ![own[t].sid] = Gone] /\ SessionTo(t, NoOwn, NoFlash)
      /\ pc' = [pc EXCEPT ![t] = "save"] /\ UNCHANGED <<browserVars, file>> /\ "save" \in Label
      /\ answer' = [answer EXCEPT ![t] = RedirectTo(Home)]
      /\ pc[t] = "signOut" /\ cookie' = cookie /\ Fine
  BY DEF EndSession, Label
<1>2. answer'[t] = RedirectTo(Home) /\ \A u \in Tab \ {t} : answer'[u] = answer[u]
  BY <1>1 DEF IInv, TypeOK, WebTypeOK
<1>3. scenario' = scenario /\ calm' = calm /\ (calm' # Disturbed => calm # Disturbed)
  BY <1>1 DEF Fine
<1>4. /\ StepOf(t)
      /\ pc'[t] = "save" /\ req'[t] = req[t] /\ asked'[t] = asked[t]
      /\ own'[t] = NoOwn /\ copy'[t] = NoFlash
      /\ dirty'[t] = (dirty[t] \/ NoFlash # copy[t] \/ NoOwn # own[t])
  BY <1>1, <1>2, <1>3, SessionToIs
<1> QED BY <1>1, <1>2, <1>3, <1>4

(* The record and the cookie after the session is saved.  A session that   *)
(* was not changed may be saved or not.                                    *)
LEMMA SaveSessionIs ==
    ASSUME IInv, NEW t \in Tab, SaveSession(t)
    PROVE  /\ StepOf(t) /\ pc[t] = "save" /\ calm' = calm
           /\ pc'[t] = (IF answer[t].redirect THEN "redirect" ELSE "idle")
           /\ answer[t].redirect => req'[t] = answer[t].to /\ asked'[t] = asked[t]
           /\ ~answer[t].redirect => req'[t] = Home /\ asked'[t] = Home
           /\ own'[t] = NoOwn /\ copy'[t] = NoFlash /\ answer'[t] = OtherPage
           /\ featureFlags' = featureFlags
           /\ own[t].sid = NoSid => cookie' = cookie /\ store'[cookie] = store[cookie]
           /\ own[t].sid # NoSid =>
                 /\ cookie' = own[t].sid
                 /\ \/ store'[cookie'] = RecordOf(own[t], copy[t])
                    \/ ~dirty[t] /\ store'[cookie'] = store[cookie']
<1> DEFINE sid == IF own[t].sid = NoSid THEN cookie ELSE own[t].sid
<1>1. sid \in Sid /\ cookie' = sid
  BY OwnFacts DEF SaveSession, Own, IInv, TypeOK, WebTypeOK
<1>2. \/ /\ own[t].sid # NoSid
         /\ store' = Reachable([store EXCEPT ![sid] = RecordOf(own[t], copy[t])], t, sid)
      \/ /\ own[t].sid = NoSid \/ ~dirty[t]
         /\ store' = Reachable(store, t, sid)
  BY DEF SaveSession
<1>3. /\ pc[t] = "save" /\ Fine /\ UNCHANGED <<file, featureFlags>>
      /\ own' = [own EXCEPT ![t] = NoOwn] /\ copy' = [copy EXCEPT ![t] = NoFlash]
      /\ dirty' = [dirty EXCEPT ![t] = FALSE] /\ answer' = [answer EXCEPT ![t] = OtherPage]
  BY DEF SaveSession, flagVars
<1>4. /\ answer[t].redirect => /\ pc' = [pc EXCEPT ![t] = "redirect"]
                              /\ req' = [req EXCEPT ![t] = answer[t].to]
                              /\ asked' = asked
      /\ ~answer[t].redirect => /\ pc' = [pc EXCEPT ![t] = "idle"]
                               /\ req' = [req EXCEPT ![t] = Home]
                               /\ asked' = [asked EXCEPT ![t] = Home]
  BY DEF SaveSession
<1> HIDE DEF sid
<1>5. \/ store'[sid] = RecordOf(own[t], copy[t]) /\ own[t].sid # NoSid
      \/ store'[sid] = store[sid] /\ (own[t].sid = NoSid \/ ~dirty[t])
  BY <1>1, <1>2 DEF Reachable, IInv, TypeOK, WebTypeOK
<1>6. StepOf(t)
  BY <1>3, <1>4, FineOrFault DEF StepOf, IInv, TypeOK, WebTypeOK
<1>7. /\ pc'[t] = (IF answer[t].redirect THEN "redirect" ELSE "idle")
      /\ answer[t].redirect => req'[t] = answer[t].to /\ asked'[t] = asked[t]
      /\ ~answer[t].redirect => req'[t] = Home /\ asked'[t] = Home
      /\ own'[t] = NoOwn /\ copy'[t] = NoFlash /\ answer'[t] = OtherPage
  BY <1>3, <1>4 DEF IInv, TypeOK, WebTypeOK
<1>8. calm' = calm
  BY <1>3 DEF Fine
<1>9. /\ own[t].sid = NoSid => cookie' = cookie /\ store'[cookie] = store[cookie]
      /\ own[t].sid # NoSid =>
            /\ cookie' = own[t].sid
            /\ \/ store'[cookie'] = RecordOf(own[t], copy[t])
               \/ ~dirty[t] /\ store'[cookie'] = store[cookie']
  BY <1>1, <1>5 DEF sid
<1> QED BY <1>3, <1>6, <1>7, <1>8, <1>9

-----------------------------------------------------------------------------
(* The steps of the browser and of all that is around the requests.        *)

(* What users ask for. *)
Sent(r) ==
    /\ r \in Request
    /\ \/ r \in {Home, AssignPage, SignOut}
       \/ \E f \in Form : r = Get("form", f)
       \/ r.kind \in {"assign", "post"}

LEMMA UseCases ==
    ASSUME IInv, NEW t \in Tab, Use(t)
    PROVE  (\E r : Sent(r) /\ Send(t, r)) \/ FollowRedirect(t) \/ AbandonRedirect(t)
<1>1. CASE OpenPage(t)
  BY <1>1, Requests DEF OpenPage, Sent
<1>2. CASE PressAssign(t)
  <2>1. scenario.cases \subseteq Case
    BY WebAssumption DEF IInv, TypeOK, WebTypeOK
  <2>2. ASSUME NEW cases \in SUBSET Case, NEW to \in Choice, NEW valid \in BOOLEAN
        PROVE  Sent([kind |-> "assign", cases |-> cases, to |-> to, form |-> NoForm,
                     valid |-> valid])
    BY DEF Sent, Request, Kind
  <2>3. Nobody \in Choice /\ {} \subseteq Case /\ TRUE \in BOOLEAN /\ FALSE \in BOOLEAN
    BY DEF Choice
  <2> QED BY <1>2, <2>1, <2>2, <2>3 DEF PressAssign
<1>3. CASE PressSubmit(t)
  <2>1. PICK valid \in BOOLEAN :
            Send(t, [kind |-> "post", cases |-> {}, to |-> Nobody,
                     form |-> screen[t], valid |-> valid])
    BY <1>3 DEF PressSubmit
  <2>2. Sent([kind |-> "post", cases |-> {}, to |-> Nobody, form |-> screen[t], valid |-> valid])
    BY <1>3 DEF PressSubmit, Sent, Request, Kind, Choice
  <2> QED BY <2>1, <2>2
<1> QED BY <1>1, <1>2, <1>3 DEF Use, BrowserStep, Redirected

LEMMA SendIs ==
    ASSUME IInv, NEW t \in Tab, NEW r, Send(t, r)
    PROVE  /\ t \in scenario.tabs /\ pc[t] = "idle"
           /\ pc'[t] = "load" /\ req'[t] = r /\ asked'[t] = OriginalUrl(r)
           /\ StepOf(t) /\ own'[t] = own[t] /\ copy'[t] = copy[t] /\ answer'[t] = answer[t]
           /\ store' = store /\ cookie' = cookie /\ file' = file
           /\ featureFlags' = featureFlags /\ s3' = s3 /\ cached' = cached
           /\ calm' # Disturbed => calm' = calm /\ \A u \in Tab : pc[u] = "idle"
<1>1. UNCHANGED <<store, cookie, own, copy, dirty, file, answer, scenario>>
  BY DEF Send, sessionVars, redisVars
<1>2. /\ pc' = [pc EXCEPT ![t] = "load"] /\ req' = [req EXCEPT ![t] = r]
      /\ asked' = [asked EXCEPT ![t] = OriginalUrl(r)]
      /\ calm' = IF \A u \in Tab : pc[u] = "idle" THEN calm ELSE Disturbed
  BY DEF Send
<1>3. StepOf(t)
  BY <1>1, <1>2 DEF StepOf, IInv, TypeOK, WebTypeOK
<1>4. pc'[t] = "load" /\ req'[t] = r /\ asked'[t] = OriginalUrl(r)
  BY <1>2 DEF IInv, TypeOK, WebTypeOK
<1> QED BY <1>1, <1>2, <1>3, <1>4 DEF Send, flagVars

LEMMA FollowRedirectIs ==
    ASSUME IInv, NEW t \in Tab, FollowRedirect(t)
    PROVE  /\ pc[t] = "redirect" /\ pc'[t] = "load" /\ req'[t] = req[t]
           /\ asked'[t] = (IF req[t].kind \in SignInKind THEN asked[t] ELSE OriginalUrl(req[t]))
           /\ StepOf(t) /\ own'[t] = own[t] /\ copy'[t] = copy[t] /\ answer'[t] = answer[t]
           /\ store' = store /\ cookie' = cookie /\ file' = file /\ calm' = calm
           /\ featureFlags' = featureFlags /\ s3' = s3 /\ cached' = cached
<1>1. UNCHANGED <<store, cookie, own, copy, dirty, req, file, answer, scenario, calm>>
  BY DEF FollowRedirect, sessionVars, redisVars, Fine
<1>2. /\ pc' = [pc EXCEPT ![t] = "load"] /\ pc[t] = "redirect"
      /\ asked' = [asked EXCEPT ![t] = IF req[t].kind \in SignInKind THEN asked[t]
                                       ELSE OriginalUrl(req[t])]
  BY DEF FollowRedirect
<1>3. StepOf(t)
  BY <1>1, <1>2 DEF StepOf, IInv, TypeOK, WebTypeOK
<1>4. /\ pc'[t] = "load"
      /\ asked'[t] = (IF req[t].kind \in SignInKind THEN asked[t] ELSE OriginalUrl(req[t]))
  BY <1>2 DEF IInv, TypeOK, WebTypeOK
<1> QED BY <1>1, <1>2, <1>3, <1>4 DEF FollowRedirect, flagVars

LEMMA AbandonRedirectIs ==
    ASSUME IInv, NEW t \in Tab, AbandonRedirect(t)
    PROVE  /\ pc[t] = "redirect" /\ pc'[t] = "idle" /\ req'[t] = Home /\ asked'[t] = Home
           /\ StepOf(t) /\ own'[t] = own[t] /\ copy'[t] = copy[t] /\ answer'[t] = answer[t]
           /\ store' = store /\ cookie' = cookie /\ calm' = Disturbed
<1>1. UNCHANGED <<store, cookie, own, copy, dirty, file, answer, scenario>>
  BY DEF AbandonRedirect, sessionVars, redisVars
<1>2. /\ pc' = [pc EXCEPT ![t] = "idle"] /\ pc[t] = "redirect" /\ req' = [req EXCEPT ![t] = Home]
      /\ asked' = [asked EXCEPT ![t] = Home] /\ calm' = Disturbed
  BY DEF AbandonRedirect
<1>3. StepOf(t)
  BY <1>1, <1>2 DEF StepOf, IInv, TypeOK, WebTypeOK
<1>4. pc'[t] = "idle" /\ req'[t] = Home /\ asked'[t] = Home
  BY <1>2 DEF IInv, TypeOK, WebTypeOK
<1> QED BY <1>1, <1>2, <1>3, <1>4

(* The step of no tab. *)
Outside ==
    /\ UNCHANGED <<cookie, own, copy, dirty, pc, req, asked, file, answer, scenario>>
    /\ calm' # Disturbed => /\ calm' = calm /\ store' = store /\ UNCHANGED <<s3, featureFlags>>
                            /\ cached' \in {NoFile, cached}
    /\ store' = store \/ (store' = [store EXCEPT ![cookie] = Gone]
                          /\ \A t \in Tab : pc[t] = "idle"
                                            \/ (pc[t] = "redirect" /\ req[t] = Callback))

LEMMA OutsideCases ==
    ASSUME IInv, (SessionExpires \/ FlagsChange) \/ UNCHANGED vars
    PROVE  Outside
BY DEF SessionExpires, FlagsChange, ExpireFlags, ReleaseFlags, Fault, Outside, vars, webVars,
       flagVars, sessionVars, redisVars, browserVars

(* All steps. *)
LEMMA StepCases ==
    ASSUME IInv, [Next]_vars
    PROVE  \/ Outside
           \/ \E t \in Tab : \/ (Serve(t) /\ Kept(t)) \/ LoadSession(t) \/ SaveSession(t)
                             \/ FinishSignIn(t) \/ (EndSession(t) /\ own[t].user)
                             \/ FollowRedirect(t) \/ AbandonRedirect(t)
                             \/ \E r : Sent(r) /\ Send(t, r)
<1>1. CASE \E t \in Tab : Serve(t)
  BY <1>1, ServeCases
<1>2. CASE \E t \in Tab : Use(t)
  BY <1>2, UseCases
<1>3. CASE (SessionExpires \/ FlagsChange) \/ UNCHANGED vars
  BY <1>3, OutsideCases
<1> QED BY <1>1, <1>2, <1>3 DEF Next

-----------------------------------------------------------------------------
(* Which request a tab has at which step.                                  *)

KindInv(t) ==
    /\ asked[t].kind \notin {"signIn", "callback", "authError"}
    /\ pc[t] \in SignInKind => req[t].kind = pc[t]
    /\ pc[t] \in Handling \cup {"refused", "forbidden"} => req[t].kind \notin SignInKind
    /\ pc[t] = "forbidden" => req[t].kind \in {"assign", "post"}
    /\ pc[t] = "refused" => ~own[t].user
    /\ pc[t] = "list" => req[t].kind = "assignPage"
    /\ pc[t] \in {"change", "details"} => req[t].kind = "assign"
    /\ pc[t] = "read" => req[t].kind = "form"
    /\ pc[t] = "write" => req[t].kind = "post"
    /\ pc[t] \notin {"idle", "redirect", "save"} /\ req[t].kind \notin SignInKind =>
          asked[t] = OriginalUrl(req[t])
    /\ pc[t] \in Loaded \ {"save"} => own[t].sid # NoSid
    /\ pc[t] \in Handling => own[t].user

(* Only tabs that are used ask for anything, and only one at a time as     *)
(* long as nothing is disturbed.                                           *)
LoneInv ==
    /\ \A t \in Tab : pc[t] # "idle" => t \in scenario.tabs
    /\ calm # Disturbed => \A t, u \in Tab : pc[t] # "idle" /\ pc[u] # "idle" => t = u

KindsInv == LoneInv /\ \A t \in Tab : KindInv(t)

(* The requests that are not to sign in or out, and what they ask for. *)
LEMMA KindFacts ==
    /\ Home.kind = "home" /\ AssignPage.kind = "assignPage" /\ SignOut.kind = "signOut"
    /\ SignIn.kind = "signIn" /\ Callback.kind = "callback" /\ AuthError.kind = "authError"
    /\ OriginalUrl(Home) = Home /\ OriginalUrl(AssignPage) = AssignPage
    /\ \A f : Get("form", f).kind = "form" /\ OriginalUrl(Get("form", f)) = Get("form", f)
    /\ \A r \in Request :
          /\ r.kind \notin SignInKind => OriginalUrl(r).kind \notin SignInKind
          /\ r.kind \in SignInKind => OriginalUrl(r) = r
BY DEF Home, AssignPage, SignIn, Callback, AuthError, SignOut, Get, Request, Kind, SignInKind,
       OriginalUrl

LEMMA LoneStep ==
    ASSUME IInv, KindsInv, NEW t \in Tab, StepOf(t), pc[t] # "idle"
    PROVE  LoneInv'
BY DEF KindsInv, LoneInv, StepOf

LEMMA KindStep ==
    ASSUME KindsInv, NEW t \in Tab, StepOf(t), LoneInv', KindInv(t)'
    PROVE  KindsInv'
<1>1. ASSUME NEW u \in Tab \ {t} PROVE KindInv(u)'
  BY DEF KindsInv, KindInv, StepOf
<1> QED BY <1>1 DEF KindsInv

LEMMA KindsKept == ASSUME IInv, KindsInv, NEW t \in Tab, Kept(t) PROVE KindsInv'
<1>1. StepOf(t) /\ pc[t] # "idle"
  BY DEF Kept, Loaded
<1>2. KindInv(t) /\ req[t] \in Request
  BY OwnFacts DEF KindsInv
<1>3. ASSUME Answering(t) PROVE KindInv(t)'
  <2>1. pc'[t] = "save" /\ asked'[t] = asked[t]
    BY <1>3 DEF Answering, Kept
  <2> QED BY <1>2, <2>1 DEF KindInv, Handling, SignInKind, Loaded
<1>4. ASSUME Moves(t), own'[t] = own[t] PROVE KindInv(t)'
  <2>1. pc[t] \in Handling /\ pc[t] \notin {"idle", "redirect", "save"}
    BY <1>4 DEF Moves, Handling
  <2>2. pc[t] = "guard" /\ req[t].kind # "home" =>
            /\ req[t].kind \in {"assignPage", "assign", "form", "post"}
            /\ HandlerOf(req[t]) = CASE req[t].kind = "assignPage" -> "list"
                                     [] req[t].kind = "assign" -> "change"
                                     [] req[t].kind = "form" -> "read"
                                     [] req[t].kind = "post" -> "write"
    BY <1>2, <2>1 DEF KindInv, Request, Kind, HandlerOf
  <2>3. req'[t] = req[t] /\ asked'[t] = asked[t] /\ pc[t] \in Loaded \ {"save"}
    BY DEF Kept
  <2>4. /\ pc'[t] \in {"store", "guard", "list", "change", "details", "read", "write"}
        /\ pc'[t] = "list" => req[t].kind = "assignPage"
        /\ pc'[t] \in {"change", "details"} => req[t].kind = "assign"
        /\ pc'[t] = "read" => req[t].kind = "form"
        /\ pc'[t] = "write" => req[t].kind = "post"
    BY <1>2, <1>4, <2>2 DEF Moves, KindInv
  <2> QED BY <1>2, <1>4, <2>1, <2>3, <2>4 DEF KindInv, Handling, SignInKind
<1> QED BY <1>1, <1>3, <1>4, LoneStep, KindStep DEF Kept

LEMMA AdmittedIs ==
    ASSUME NEW t, NEW o, o.user \in BOOLEAN
    PROVE  /\ Admitted(t, o) \in SignInKind \cup {"refused", "forbidden", "flags"}
           /\ Admitted(t, o) \in SignInKind => Admitted(t, o) = req[t].kind
           /\ Admitted(t, o) \notin SignInKind => req[t].kind \notin SignInKind
           /\ Admitted(t, o) = "forbidden" => req[t].kind \in {"assign", "post"}
           /\ Admitted(t, o) = "refused" => ~o.user
           /\ Admitted(t, o) \in {"flags", "forbidden"} => o.user
           /\ Admitted(t, o) = "flags" /\ req[t].kind \in {"assign", "post"} => issued[t] = o.sid
BY DEF Admitted, SignInKind

LEMMA KindsServed ==
    ASSUME IInv, KindsInv, NEW t \in Tab,
           LoadSession(t) \/ FinishSignIn(t) \/ (EndSession(t) /\ own[t].user) \/ SaveSession(t)
    PROVE  KindsInv'
<1> USE DEF Handling, SignInKind, Loaded
<1>1. KindInv(t) /\ req[t] \in Request
  BY OwnFacts DEF KindsInv
<1>2. CASE LoadSession(t)
  <2>1. PICK s \in Sid : own'[t] = Found(s) /\ pc'[t] = Admitted(t, Found(s))
    BY <1>2, LoadSessionIs
  <2>2. StepOf(t) /\ pc[t] = "load" /\ req'[t] = req[t] /\ asked'[t] = asked[t]
    BY <1>2, LoadSessionIs
  <2>3. Found(s).sid # NoSid /\ Found(s).user \in BOOLEAN
    BY WebAssumption DEF Found, OwnOf, IInv, TypeOK, WebTypeOK, Session
  <2>4. /\ pc'[t] \in SignInKind \cup {"refused", "forbidden", "flags"}
        /\ pc'[t] \in SignInKind => pc'[t] = req[t].kind
        /\ pc'[t] \notin SignInKind => req[t].kind \notin SignInKind
        /\ pc'[t] = "forbidden" => req[t].kind \in {"assign", "post"}
        /\ pc'[t] = "flags" => Found(s).user
        /\ pc'[t] = "refused" => ~Found(s).user
    BY <2>1, <2>3, AdmittedIs
  <2>5. KindInv(t)'
    BY <1>1, <2>1, <2>2, <2>3, <2>4 DEF KindInv
  <2> QED BY <2>2, <2>5, LoneStep, KindStep
<1>3. CASE FinishSignIn(t) \/ (EndSession(t) /\ own[t].user)
  <2>1. StepOf(t) /\ pc[t] # "idle" /\ pc'[t] = "save" /\ asked'[t] = asked[t] /\ req'[t] = req[t]
    BY <1>3, FinishSignInIs, EndSessionIs
  <2>2. KindInv(t)'
    BY <1>1, <2>1 DEF KindInv
  <2> QED BY <2>1, <2>2, LoneStep, KindStep
<1>4. CASE SaveSession(t)
  <2>1. /\ StepOf(t) /\ pc[t] # "idle" /\ pc'[t] \in {"redirect", "idle"}
        /\ asked'[t] \in {asked[t], Home}
    BY <1>4, SaveSessionIs
  <2>2. KindInv(t)'
    BY <1>1, <2>1, KindFacts DEF KindInv
  <2> QED BY <2>1, <2>2, LoneStep, KindStep
<1> QED BY <1>2, <1>3, <1>4

LEMMA KindsUsed ==
    ASSUME IInv, KindsInv, NEW t \in Tab,
           FollowRedirect(t) \/ AbandonRedirect(t) \/ \E r : Sent(r) /\ Send(t, r)
    PROVE  KindsInv'
<1> USE DEF Handling, SignInKind, Loaded
<1>1. KindInv(t) /\ req[t] \in Request
  BY OwnFacts DEF KindsInv
<1>2. CASE FollowRedirect(t)
  <2>1. KindInv(t)'
    BY <1>1, <1>2, FollowRedirectIs, KindFacts DEF KindInv
  <2> QED BY <1>2, <2>1, FollowRedirectIs, LoneStep, KindStep
<1>3. CASE AbandonRedirect(t)
  <2>1. KindInv(t)'
    BY <1>1, <1>3, AbandonRedirectIs, KindFacts DEF KindInv
  <2> QED BY <1>3, <2>1, AbandonRedirectIs, LoneStep, KindStep
<1>4. ASSUME NEW r, Sent(r), Send(t, r) PROVE KindsInv'
  <2>1. /\ StepOf(t) /\ t \in scenario.tabs /\ pc'[t] = "load" /\ req'[t] = r
        /\ asked'[t] = OriginalUrl(r)
        /\ calm' # Disturbed => \A u \in Tab : pc[u] = "idle"
    BY <1>4, SendIs
  <2>2. LoneInv'
    BY <2>1 DEF KindsInv, LoneInv, StepOf
  <2>3. r \in Request /\ OriginalUrl(r).kind \notin {"signIn", "callback", "authError"}
    BY <1>4, KindFacts DEF Sent
  <2>4. KindInv(t)'
    BY <2>1, <2>3 DEF KindInv
  <2> QED BY <2>1, <2>2, <2>4, KindStep
<1> QED BY <1>2, <1>3, <1>4

(* A request is at a step that is for it, and the session is one that has  *)
(* a user where it has to be.                                              *)
THEOREM RequestsAtTheirSteps == Spec => []KindsInv
<1>1. Init => KindsInv
  BY KindFacts DEF Init, WebInit, KindsInv, LoneInv, KindInv, Handling, SignInKind, Loaded
<1>2. ASSUME IInv, KindsInv, [Next]_vars PROVE KindsInv'
  <2>1. CASE Outside
    BY <1>2, <2>1 DEF Outside, KindsInv, LoneInv, KindInv
  <2> QED BY <1>2, <2>1, StepCases, KindsKept, KindsServed, KindsUsed
<1> QED BY <1>1, <1>2, PortalInvariant, PTL DEF Spec

-----------------------------------------------------------------------------
(* The session that a request has and the one that is stored.              *)

(* No other request can get in the way of that of tab t.                   *)
Alone(t) == calm # Disturbed \/ scenario.tabs = {t}

(* What is stored is what the request has, unless it is dirty; it is of    *)
(* the session that the cookie names, unless there is none; and a session  *)
(* that is of no record yet has no user and no sign-in under way.          *)
HeldInv(t) ==
    Alone(t) /\ pc[t] \in Loaded =>
        /\ own[t].sid # NoSid /\ ~dirty[t] => store[own[t].sid] = RecordOf(own[t], copy[t])
        /\ store[cookie] # Gone => own[t].sid = cookie
        /\ own[t].sid = NoSid => copy[t] = NoFlash
        /\ pc[t] # "save" /\ (own[t].user \/ own[t].state # NoTab) => own[t].sid = cookie

HeldsInv == \A t \in Tab : HeldInv(t)

LEMMA AloneIdle ==
    ASSUME IInv, KindsInv, NEW t \in Tab, StepOf(t), NEW u \in Tab \ {t}, Alone(u)',
           pc[t] # "idle"
    PROVE  pc[u] = "idle" /\ pc'[u] = "idle"
<1>1. pc'[u] = pc[u] /\ (calm # Disturbed \/ scenario.tabs = {u})
  BY DEF StepOf, Alone
<1> QED BY <1>1 DEF KindsInv, LoneInv

LEMMA HeldStep ==
    ASSUME IInv, KindsInv, NEW t \in Tab, StepOf(t), pc[t] # "idle", HeldInv(t)'
    PROVE  HeldsInv'
<1>1. ASSUME NEW u \in Tab \ {t} PROVE HeldInv(u)'
  <2>1. Alone(u)' => pc'[u] = "idle"
    BY AloneIdle
  <2> QED BY <2>1 DEF HeldInv, Loaded
<1> QED BY <1>1 DEF HeldsInv

LEMMA StillAlone == ASSUME NEW t \in Tab, StepOf(t), Alone(t)' PROVE Alone(t)
BY DEF StepOf, Alone

LEMMA RecordFacts ==
    ASSUME IInv, store[cookie] # Gone
    PROVE  /\ store[cookie] \in Session
           /\ RecordOf(Found(cookie), store[cookie].flash) = store[cookie]
           /\ Found(cookie).sid = cookie
BY DEF IInv, TypeOK, WebTypeOK, Session, RecordOf, Found

LEMMA HeldKept == ASSUME IInv, KindsInv, HeldsInv, NEW t \in Tab, Kept(t) PROVE HeldsInv'
<1>1. StepOf(t) /\ pc[t] # "idle" /\ pc[t] \in Loaded \ {"save"} /\ own[t].sid # NoSid
  BY DEF Kept, Loaded, KindsInv, KindInv
<1>2. ASSUME Alone(t)' PROVE HeldInv(t)'
  <2>1. HeldInv(t) /\ Alone(t)
    BY <1>1, <1>2, StillAlone DEF HeldsInv
  <2>2. /\ store' = store /\ cookie' = cookie /\ own'[t].sid = own[t].sid
        /\ ~dirty'[t] => ~dirty[t] /\ own'[t] = own[t] /\ copy'[t] = copy[t]
        /\ pc'[t] # "save" => own'[t] = own[t]
    BY DEF Kept, Answering
  <2> QED BY <1>1, <2>1, <2>2 DEF HeldInv
<1>3. HeldInv(t)'
  BY <1>2 DEF HeldInv
<1> QED BY <1>1, <1>3, HeldStep

LEMMA HeldLoaded == ASSUME IInv, KindsInv, HeldsInv, NEW t \in Tab, LoadSession(t) PROVE HeldsInv'
<1>1. PICK s \in Sid : (store[cookie] # Gone => s = cookie) /\ own'[t] = Found(s)
  BY LoadSessionIs
<1>2. /\ StepOf(t) /\ pc[t] = "load" /\ store' = store /\ cookie' = cookie
      /\ copy'[t] = (IF store[cookie] # Gone THEN store[cookie].flash ELSE NoFlash)
      /\ dirty'[t] = (store[cookie] = Gone)
  BY LoadSessionIs
<1>3. s # NoSid
  BY WebAssumption
<1>4. CASE store[cookie] # Gone
  <2>1. /\ RecordOf(own'[t], copy'[t]) = store'[own'[t].sid]
        /\ own'[t].sid = cookie' /\ own'[t].sid # NoSid
    BY <1>1, <1>2, <1>3, <1>4, RecordFacts
  <2> QED BY <1>2, <2>1, HeldStep DEF HeldInv
<1>5. CASE store[cookie] = Gone
  <2>1. own'[t] = OwnOf(s, FALSE) /\ dirty'[t] /\ store'[cookie'] = Gone
    BY <1>1, <1>2, <1>5 DEF Found
  <2>2. HeldInv(t)'
    BY <1>3, <2>1 DEF HeldInv, OwnOf
  <2> QED BY <1>2, <2>2, HeldStep
<1> QED BY <1>4, <1>5

LEMMA HeldSignedInOut ==
    ASSUME IInv, KindsInv, HeldsInv, NEW t \in Tab,
           FinishSignIn(t) \/ (EndSession(t) /\ own[t].user)
    PROVE  HeldsInv'
<1>1. StepOf(t) /\ pc[t] \in {"callback", "signOut"} /\ pc'[t] = "save" /\ cookie' = cookie
  BY FinishSignInIs, EndSessionIs
<1>2. ASSUME Alone(t)' PROVE own[t].sid = cookie
  <2>1. own[t].user \/ own[t].state # NoTab
    BY FinishSignInIs, WebAssumption
  <2> QED BY <1>1, <1>2, <2>1, StillAlone DEF HeldsInv, HeldInv, Loaded, Label
<1>3. CASE FinishSignIn(t)
  <2>1. PICK s \in Sid : /\ s # cookie /\ own'[t] = SignedIn(s) /\ copy'[t] = NoFlash
                         /\ store' = [store EXCEPT ![own[t].sid] = Gone,
                                                   ![s] = RecordOf(SignedIn(s), NoFlash)]
    BY <1>3, FinishSignInIs
  <2>2. own'[t].sid = s /\ s # NoSid /\ store'[s] = RecordOf(own'[t], copy'[t])
    BY <2>1, WebAssumption DEF SignedIn, OwnOf, IInv, TypeOK, WebTypeOK
  <2>3. Alone(t)' => store'[cookie'] = Gone
    BY <1>1, <1>2, <2>1 DEF IInv, TypeOK, WebTypeOK
  <2>4. HeldInv(t)'
    BY <1>1, <2>2, <2>3 DEF HeldInv
  <2> QED BY <1>1, <2>4, HeldStep
<1>4. CASE EndSession(t) /\ own[t].user
  <2>1. /\ own'[t] = NoOwn /\ copy'[t] = NoFlash
        /\ store' = [store EXCEPT ![own[t].sid] = Gone]
    BY <1>4, EndSessionIs
  <2>2. Alone(t)' => store'[cookie'] = Gone
    BY <1>1, <1>2, <2>1 DEF IInv, TypeOK, WebTypeOK
  <2>3. HeldInv(t)'
    BY <1>1, <2>1, <2>2 DEF HeldInv, NoOwn, OwnOf
  <2> QED BY <1>1, <2>3, HeldStep
<1> QED BY <1>3, <1>4

LEMMA HeldOtherwise ==
    ASSUME IInv, KindsInv, HeldsInv, NEW t \in Tab,
           SaveSession(t) \/ FollowRedirect(t) \/ AbandonRedirect(t) \/ \E r : Sent(r) /\ Send(t, r)
    PROVE  HeldsInv'
<1>1. CASE SaveSession(t) \/ FollowRedirect(t) \/ AbandonRedirect(t)
  <2>1. StepOf(t) /\ pc[t] # "idle" /\ pc'[t] \in {"redirect", "idle", "load"}
    BY <1>1, SaveSessionIs, FollowRedirectIs, AbandonRedirectIs
  <2>2. HeldInv(t)'
    BY <2>1 DEF HeldInv, Loaded
  <2> QED BY <2>1, <2>2, HeldStep
<1>2. ASSUME NEW r, Send(t, r) PROVE HeldsInv'
  <2>1. /\ StepOf(t) /\ pc'[t] = "load" /\ t \in scenario.tabs
        /\ calm' # Disturbed => \A u \in Tab : pc[u] = "idle"
    BY <1>2, SendIs
  <2>2. ASSUME NEW u \in Tab, Alone(u)' PROVE pc'[u] \in {"load", "idle"}
    BY <2>1, <2>2 DEF Alone, StepOf, KindsInv, LoneInv
  <2> QED BY <2>2 DEF HeldsInv, HeldInv, Loaded
<1> QED BY <1>1, <1>2

(* While a request is the only one there is, what Redis holds of its       *)
(* session is its own copy, unless that has changed and is to be saved.    *)
THEOREM SessionsAsStored == Spec => []HeldsInv
<1>1. Init => HeldsInv
  BY DEF Init, WebInit, HeldsInv, HeldInv, Loaded
<1>2. ASSUME IInv, KindsInv, HeldsInv, [Next]_vars PROVE HeldsInv'
  <2>1. CASE Outside
    BY <1>2, <2>1 DEF Outside, HeldsInv, HeldInv, Alone, Loaded
  <2> QED BY <1>2, <2>1, StepCases, HeldKept, HeldLoaded, HeldSignedInOut, HeldOtherwise
<1> QED BY <1>1, <1>2, PortalInvariant, RequestsAtTheirSteps, PTL DEF Spec

-----------------------------------------------------------------------------
(* The page to come back to.                                               *)

ReturnInv(t) ==
    scenario.tabs = {t} =>
        /\ pc[t] \in {"load", "redirect"} /\ req[t].kind = "signIn" =>
              store[cookie] # Gone /\ store[cookie].returnTo = asked[t]
        /\ /\ pc[t] \in {"load", "redirect"} /\ req[t].kind = "callback"
           /\ store[cookie] # Gone /\ store[cookie].state = t
           => store[cookie].returnTo = asked[t]
        /\ pc[t] = "signIn" => own[t].returnTo = asked[t]
        /\ pc[t] = "callback" /\ own[t].state = t => own[t].returnTo = asked[t]
        /\ pc[t] = "save" /\ answer[t].redirect =>
              /\ answer[t].to.kind \in {"signIn", "callback"} =>
                    own[t].sid # NoSid /\ own[t].returnTo = asked[t]
              /\ req[t].kind = "callback" /\ answer[t].to # AuthError => answer[t].to = asked[t]

ReturnsInv == \A t \in Tab : ReturnInv(t)

LEMMA ReturnStep ==
    ASSUME IInv, KindsInv, NEW t \in Tab, StepOf(t), t \in scenario.tabs,
           scenario.tabs = {t} => ReturnInv(t)'
    PROVE  ReturnsInv'
<1>1. scenario' = scenario
  BY DEF StepOf
<1> QED BY <1>1 DEF ReturnsInv, ReturnInv

(* The answers that lead to sign in, or that the callback gives. *)
Leads(t) ==
    answer'[t].redirect =>
        /\ answer'[t].to.kind \in {"signIn", "callback"} => own'[t].returnTo = asked[t]
        /\ req[t].kind = "callback" => answer'[t].to = AuthError

LEMMA RespondLeads ==
    ASSUME IInv, KindsInv, NEW t \in Tab, NEW ans, NEW flash, Respond(t, ans, flash),
           ~ans.redirect \/ (ans.to.kind \notin {"signIn", "callback"} /\ req[t].kind # "callback")
    PROVE  Leads(t)
<1>1. answer'[t] = ans
  BY DEF Respond, IInv, TypeOK, WebTypeOK
<1> QED BY <1>1 DEF Leads

LEMMA CallFailsLeads ==
    ASSUME IInv, KindsInv, NEW t \in Tab, NEW flash, CallFails(t, flash), pc[t] \in Handling
    PROVE  Leads(t)
<1>1. PICK ans \in {OtherPage, RedirectTo(SignOut)} : Respond(t, ans, flash)
  BY CallFailsIs
<1>2. req[t].kind # "callback"
  BY DEF KindsInv, KindInv, SignInKind
<1>3. ~OtherPage.redirect /\ RedirectTo(SignOut).to.kind = "signOut"
  BY Constant, KindFacts DEF RedirectTo
<1> QED BY <1>1, <1>2, <1>3, RespondLeads

LEMMA AssignLeads ==
    ASSUME IInv, KindsInv, NEW t \in Tab, AssignStep(t), Answering(t) PROVE Leads(t)
<1>1. pc[t] \in Handling /\ req[t].kind # "callback"
  BY DEF AssignStep, GetView, RejectAssignment, AssignCases, TellSuccess, Handling,
         KindsInv, KindInv, SignInKind
<1>2. /\ RedirectTo(AssignPage).to.kind = "assignPage"
      /\ \A banner : ~Shown("assign", banner, {}).redirect
  BY KindFacts DEF RedirectTo, Shown
<1>3. CASE GetView(t)
  <2>1. \/ \E banner, flash : Respond(t, Shown("assign", banner, {}), flash)
        \/ \E flash : CallFails(t, flash)
    BY <1>3 DEF GetView
  <2> QED BY <1>1, <1>2, <2>1, RespondLeads, CallFailsLeads
<1>4. CASE RejectAssignment(t) \/ TellSuccess(t)
  <2>1. (\E flash : Respond(t, RedirectTo(AssignPage), flash)) \/ \E flash : CallFails(t, flash)
    BY <1>4 DEF RejectAssignment, TellSuccess
  <2> QED BY <1>1, <1>2, <2>1, RespondLeads, CallFailsLeads
<1>5. CASE AssignCases(t)
  <2>1. (\E flash : GoOnWith(t, "details", flash)) \/ CallFails(t, copy[t])
    BY <1>5 DEF AssignCases
  <2>2. ~\E flash : GoOnWith(t, "details", flash)
    BY DEF GoOnWith, Answering, IInv, TypeOK, WebTypeOK
  <2> QED BY <1>1, <2>1, <2>2, CallFailsLeads
<1> QED BY <1>3, <1>4, <1>5 DEF AssignStep

LEMMA FormLeads == ASSUME IInv, KindsInv, NEW t \in Tab, FormStep(t) PROVE Leads(t)
<1>1. pc[t] \in Handling /\ req[t].kind # "callback"
  BY DEF FormStep, GetSupportNeedUpdateForm, ResetProfileReason, GetStatusUpdate,
         PostSupportNeedUpdateForm, SubmitResetProfileReason, PostStatusUpdate, SubmitForm,
         Handling, KindsInv, KindInv, SignInKind
<1>2. \/ \E f, shows, flash : Respond(t, Shown(f, NoBanner, shows), flash)
      \/ \E flash : Respond(t, OtherPage, flash)
      \/ \E flash : Respond(t, RedirectTo(Home), flash)
      \/ \E f, flash : Respond(t, RedirectTo(Get("form", f)), flash)
      \/ \E flash : CallFails(t, flash)
  BY DEF FormStep, GetSupportNeedUpdateForm, ResetProfileReason, GetStatusUpdate,
         PostSupportNeedUpdateForm, SubmitResetProfileReason, PostStatusUpdate, SubmitForm,
         NextError
<1>3. /\ \A f, shows : ~Shown(f, NoBanner, shows).redirect
      /\ ~OtherPage.redirect /\ RedirectTo(Home).to.kind = "home"
      /\ \A f : RedirectTo(Get("form", f)).to.kind = "form"
  BY KindFacts, Constant DEF RedirectTo, Shown
<1> QED BY <1>1, <1>2, <1>3, RespondLeads, CallFailsLeads

LEMMA WebLeads ==
    ASSUME IInv, KindsInv, NEW t \in Tab, WebStep(t), Answering(t), pc[t] \notin {"load", "save"}
    PROVE  Leads(t)
<1>1. CASE MiddlewareFails(t)
  <2>1. pc[t] \in Handling
    BY <1>1 DEF MiddlewareFails, Handling
  <2> QED BY <1>1, <2>1, CallFailsLeads DEF MiddlewareFails
<1>2. CASE ReadOnlyGuard(t)
  <2>1. Respond(t, OtherPage, copy[t]) \/ (GoOn(t, HandlerOf(req[t])) /\ req[t].kind # "home")
    BY <1>2 DEF ReadOnlyGuard, NextError
  <2>2. req[t].kind \in {"home", "assignPage", "assign", "form", "post"}
    BY <1>2, OwnFacts DEF ReadOnlyGuard, KindsInv, KindInv, Handling, Request, Kind
  <2>3. req[t].kind # "home" => HandlerOf(req[t]) # "save"
    BY <2>2 DEF HandlerOf
  <2>4. ~(GoOn(t, HandlerOf(req[t])) /\ req[t].kind # "home")
    BY <2>3 DEF Answering, GoOn, IInv, TypeOK, WebTypeOK
  <2> QED BY <2>1, <2>4, Constant, RespondLeads
<1>3. CASE FlagsFromCache(t) \/ FetchFlags(t) \/ FlagsFromS3(t)
  BY <1>3 DEF FlagsFromCache, FetchFlags, FlagsFromS3, GoOn, Answering, IInv, TypeOK, WebTypeOK
<1> QED BY <1>1, <1>2, <1>3 DEF WebStep, LoadSession, SaveSession

LEMMA SignInLeads ==
    ASSUME IInv, KindsInv, NEW t \in Tab, SignInStep(t), ~FinishSignIn(t),
           scenario.tabs = {t}, ReturnInv(t)
    PROVE  Leads(t)
<1>1. KindInv(t)
  BY DEF KindsInv
<1>2. CASE Refuse(t) \/ TokenNotVerified(t)
  <2>1. ToSignIn(t) /\ pc[t] \in {"refused", "flags"}
    BY <1>2 DEF Refuse, TokenNotVerified
  <2>2. req[t].kind \notin SignInKind /\ asked[t] = OriginalUrl(req[t])
    BY <1>1, <2>1 DEF KindInv, Handling
  <2>3. own'[t].returnTo = OriginalUrl(req[t])
    BY <2>1 DEF ToSignIn, SessionTo, IInv, TypeOK, WebTypeOK, Own
  <2> QED BY <2>2, <2>3 DEF Leads, SignInKind
<1>3. CASE Forbid(t) \/ ShowAuthError(t)
  <2>1. \/ Respond(t, RedirectTo(SignOut), copy[t]) /\ req[t].kind # "callback"
        \/ Respond(t, OtherPage, copy[t])
    BY <1>1, <1>3 DEF Forbid, ShowAuthError, NextError, KindInv
  <2>2. ~OtherPage.redirect /\ RedirectTo(SignOut).to.kind = "signOut"
    BY Constant, KindFacts DEF RedirectTo
  <2> QED BY <2>1, <2>2, RespondLeads
<1>4. CASE StartSignIn(t)
  <2>1. own[t].returnTo = asked[t] /\ req[t].kind = "signIn"
    BY <1>1, <1>4 DEF StartSignIn, ReturnInv, KindInv, SignInKind
  <2>2. own'[t].returnTo = own[t].returnTo
    BY <1>4 DEF StartSignIn, SessionTo, IInv, TypeOK, WebTypeOK, Own
  <2> QED BY <2>1, <2>2 DEF Leads
<1>5. CASE FailSignIn(t)
  <2>1. answer'[t] = RedirectTo(AuthError) \/ answer'[t] = OtherPage
    BY <1>5 DEF FailSignIn, IInv, TypeOK, WebTypeOK
  <2> QED BY <2>1, Constant, KindFacts DEF Leads, RedirectTo
<1>6. CASE EndSession(t)
  <2>1. answer'[t] = RedirectTo(Home) /\ req[t].kind = "signOut"
    BY <1>1, <1>6 DEF EndSession, KindInv, SignInKind, IInv, TypeOK, WebTypeOK
  <2> QED BY <2>1, KindFacts DEF Leads, RedirectTo
<1> QED BY <1>2, <1>3, <1>4, <1>5, <1>6 DEF SignInStep

LEMMA ReturnsKept ==
    ASSUME IInv, KindsInv, ReturnsInv, NEW t \in Tab, Serve(t), Kept(t), ~FinishSignIn(t)
    PROVE  ReturnsInv'
<1>1. /\ StepOf(t) /\ pc[t] \in Loaded \ {"save"} /\ t \in scenario.tabs
      /\ req'[t] = req[t] /\ asked'[t] = asked[t] /\ own'[t].sid = own[t].sid
      /\ own[t].sid # NoSid
  BY DEF Kept, Loaded, KindsInv, LoneInv, KindInv
<1>2. ASSUME scenario.tabs = {t}, Answering(t) PROVE ReturnInv(t)'
  <2>1. ReturnInv(t) /\ pc[t] \notin {"load", "save"} /\ pc'[t] = "save"
    BY <1>1, <1>2 DEF ReturnsInv, Loaded, Answering
  <2>2. Leads(t)
    BY <1>2, <2>1, AssignLeads, FormLeads, WebLeads, SignInLeads DEF Serve
  <2> QED BY <1>1, <2>1, <2>2 DEF ReturnInv, Leads
<1>3. ASSUME Moves(t) PROVE ReturnInv(t)'
  <2>1. pc'[t] \notin {"load", "redirect", "signIn", "callback", "save"}
    <3>1. req[t] \in Request /\ (pc[t] = "guard" => req[t].kind \notin SignInKind)
      BY OwnFacts DEF KindsInv, KindInv, Handling
    <3>2. pc[t] = "guard" /\ req[t].kind # "home" =>
              HandlerOf(req[t]) \in {"list", "change", "read", "write"}
      BY <3>1 DEF HandlerOf, Request, Kind
    <3> QED BY <1>3, <3>2 DEF Moves
  <2> QED BY <2>1 DEF ReturnInv
<1> QED BY <1>1, <1>2, <1>3, ReturnStep DEF Kept

LEMMA ReturnsServed ==
    ASSUME IInv, KindsInv, HeldsInv, ReturnsInv, NEW t \in Tab,
           LoadSession(t) \/ FinishSignIn(t) \/ (EndSession(t) /\ own[t].user) \/ SaveSession(t)
    PROVE  ReturnsInv'
<1>1. /\ KindInv(t) /\ ReturnInv(t) /\ req[t] \in Request
      /\ asked[t] \in Request /\ asked[t] # NoPage
  BY OwnFacts, WebAssumption DEF KindsInv, ReturnsInv, IInv, TypeOK, WebTypeOK
<1>2. CASE LoadSession(t)
  <2>1. PICK s \in Sid : /\ store[cookie] # Gone => s = cookie
                         /\ own'[t] = Found(s) /\ pc'[t] = Admitted(t, Found(s))
    BY <1>2, LoadSessionIs
  <2>2. StepOf(t) /\ pc[t] = "load" /\ asked'[t] = asked[t]
    BY <1>2, LoadSessionIs
  <2>3. Found(s).user \in BOOLEAN
    BY DEF Found, OwnOf, IInv, TypeOK, WebTypeOK, Session
  <2>4. /\ pc'[t] \in SignInKind \cup {"refused", "forbidden", "flags"}
        /\ pc'[t] \in SignInKind => pc'[t] = req[t].kind
    BY <2>1, <2>3, AdmittedIs
  <2>5. own'[t].state = t =>
            /\ store[cookie] # Gone /\ store[cookie].state = t
            /\ own'[t].returnTo = store[cookie].returnTo
    BY <2>1, WebAssumption DEF Found, OwnOf
  <2>6. store[cookie] # Gone => own'[t].returnTo = store[cookie].returnTo
    BY <2>1 DEF Found
  <2>7. scenario.tabs = {t} => ReturnInv(t)'
    BY <1>1, <2>2, <2>4, <2>5, <2>6 DEF ReturnInv, SignInKind
  <2> QED BY <2>2, <2>7, ReturnStep DEF KindsInv, LoneInv
<1>3. CASE FinishSignIn(t)
  <2>1. /\ StepOf(t) /\ pc[t] = "callback" /\ own[t].state = t /\ pc'[t] = "save"
        /\ req'[t] = req[t] /\ asked'[t] = asked[t]
        /\ answer'[t] = RedirectTo(ReturnUrl(own[t]))
    BY <1>3, FinishSignInIs
  <2>2. scenario.tabs = {t} => answer'[t].to = asked[t]
    BY <1>1, <2>1 DEF ReturnInv, ReturnUrl, RedirectTo
  <2>3. asked[t].kind \notin {"signIn", "callback"}
    BY <1>1 DEF KindInv
  <2>4. scenario.tabs = {t} => ReturnInv(t)'
    BY <2>1, <2>2, <2>3 DEF ReturnInv
  <2> QED BY <2>1, <2>4, ReturnStep DEF KindsInv, LoneInv
<1>4. CASE EndSession(t) /\ own[t].user
  <2>1. /\ StepOf(t) /\ pc[t] = "signOut" /\ pc'[t] = "save" /\ req'[t] = req[t]
        /\ answer'[t] = RedirectTo(Home)
    BY <1>4, EndSessionIs
  <2>2. req[t].kind = "signOut"
    BY <1>1, <2>1 DEF KindInv, SignInKind
  <2>3. ReturnInv(t)'
    BY <2>1, <2>2, KindFacts DEF ReturnInv, RedirectTo
  <2> QED BY <2>1, <2>3, ReturnStep DEF KindsInv, LoneInv
<1>5. CASE SaveSession(t)
  <2>1. /\ StepOf(t) /\ pc[t] = "save"
        /\ pc'[t] = (IF answer[t].redirect THEN "redirect" ELSE "idle")
        /\ answer[t].redirect => req'[t] = answer[t].to /\ asked'[t] = asked[t]
        /\ own[t].sid # NoSid =>
              /\ cookie' = own[t].sid
              /\ \/ store'[cookie'] = RecordOf(own[t], copy[t])
                 \/ ~dirty[t] /\ store'[cookie'] = store[cookie']
    BY <1>5, SaveSessionIs
  <2>2. RecordOf(own[t], copy[t]) # Gone /\ RecordOf(own[t], copy[t]).returnTo = own[t].returnTo
    BY OwnFacts, WebAssumption DEF RecordOf, Own, Session
  <2>3. scenario.tabs = {t} /\ own[t].sid # NoSid => store'[cookie'] = RecordOf(own[t], copy[t])
    BY <2>1 DEF HeldsInv, HeldInv, Alone, Loaded, Label
  <2>4. scenario.tabs = {t} => ReturnInv(t)'
    BY <1>1, <2>1, <2>2, <2>3 DEF ReturnInv
  <2> QED BY <2>1, <2>4, ReturnStep DEF KindsInv, LoneInv
<1> QED BY <1>2, <1>3, <1>4, <1>5

LEMMA ReturnsUsed ==
    ASSUME IInv, KindsInv, ReturnsInv, NEW t \in Tab,
           FollowRedirect(t) \/ AbandonRedirect(t) \/ \E r : Sent(r) /\ Send(t, r)
    PROVE  ReturnsInv'
<1>1. CASE FollowRedirect(t)
  <2>1. ReturnInv(t)'
    BY <1>1, FollowRedirectIs DEF ReturnsInv, ReturnInv, StepOf, SignInKind
  <2> QED BY <1>1, <2>1, FollowRedirectIs, ReturnStep DEF KindsInv, LoneInv
<1>2. CASE AbandonRedirect(t)
  <2>1. ReturnInv(t)'
    BY <1>2, AbandonRedirectIs DEF ReturnInv
  <2> QED BY <1>2, <2>1, AbandonRedirectIs, ReturnStep DEF KindsInv, LoneInv
<1>3. ASSUME NEW r, Sent(r), Send(t, r) PROVE ReturnsInv'
  <2>1. r.kind \notin {"signIn", "callback"}
    BY <1>3, KindFacts DEF Sent
  <2>2. ReturnInv(t)'
    BY <1>3, <2>1, SendIs DEF ReturnInv
  <2> QED BY <1>3, <2>2, SendIs, ReturnStep
<1> QED BY <1>1, <1>2, <1>3

(* While a tab that is the only one in use is sent to sign in, the session *)
(* remembers the page that the tab has asked for, until the callback.      *)
THEOREM PagesToReturnTo == Spec => []ReturnsInv
<1>1. Init => ReturnsInv
  BY DEF Init, WebInit, ReturnsInv, ReturnInv
<1>2. ASSUME IInv, KindsInv, HeldsInv, ReturnsInv, [Next]_vars PROVE ReturnsInv'
  <2>1. CASE Outside
    <3>1. ASSUME NEW t \in Tab PROVE ReturnInv(t)'
      <4>1. ReturnInv(t)
        BY <1>2 DEF ReturnsInv
      <4>2. CASE store' = store
        BY <2>1, <4>1, <4>2 DEF Outside, ReturnInv
      <4>3. CASE store' # store
        <5>1. /\ store'[cookie'] = Gone /\ pc'[t] = pc[t] /\ req'[t] = req[t]
              /\ pc[t] = "idle" \/ (pc[t] = "redirect" /\ req[t] = Callback)
          BY <1>2, <2>1, <4>3 DEF Outside, IInv, TypeOK, WebTypeOK
        <5> QED BY <5>1, KindFacts DEF ReturnInv
      <4> QED BY <4>2, <4>3
    <3> QED BY <3>1 DEF ReturnsInv
  <2> QED BY <1>2, <2>1, StepCases, ReturnsKept, ReturnsServed, ReturnsUsed
<1> QED BY <1>1, <1>2, PortalInvariant, RequestsAtTheirSteps, SessionsAsStored, PTL DEF Spec

(* With one tab, whoever is sent to sign in comes back to the page he      *)
(* asked for, whatever has failed and been given up before.                *)
THEOREM SignInLeadsBack == Spec => []ReturnsWhereAsked
<1>1. ReturnsInv => ReturnsWhereAsked
  BY DEF ReturnsInv, ReturnInv, ReturnsWhereAsked
<1> QED BY <1>1, PagesToReturnTo, PTL

-----------------------------------------------------------------------------
(* The flash.  The latest allocation and the flags are given as c and      *)
(* flags: both stay as they are until the next allocation.                 *)

Tells(f, c) ==
    /\ f.cases \subseteq c.cases
    /\ Cardinality(f.cases) + f.others = Cardinality(c.cases)
    /\ f.to = (IF c.to = Unassign THEN Nobody ELSE c.to)
    /\ f.unassign = (c.to = Unassign)

Banned(r, flags) == Guarded(r) /\ "readOnly" \in flags

Offered(f, flags) ==
    \/ f \in Need /\ "supportNeeds" \in flags
    \/ f = Status /\ "supportNeeds" \notin flags
    \/ f = Reset /\ "resetProfile" \in flags

(* What the flash may hold for a request that is on its way. *)
NewsOnly(flash, c) ==
    /\ flash.success /\ Tells(flash, c)
    /\ flash.errors = {} /\ flash.formValues = NoForm /\ flash.validationError = NoForm
ErrorsOf(f) ==
    IF f \in Need THEN [NoFlash EXCEPT !.errors = {f}, !.formValues = f]
    ELSE [NoFlash EXCEPT !.validationError = f]
Carried(flash, r, c, flags) ==
    \/ flash = NoFlash
    \/ r.kind = "assignPage" /\ ~Banned(r, flags) /\ NewsOnly(flash, c)
    \/ /\ r.kind = "form" /\ r.form \in Form /\ r.valid /\ ~Banned(r, flags)
       /\ Offered(r.form, flags)
       /\ flash = ErrorsOf(r.form)

(* What the post has put there before the people's details are read. *)
Named(r) ==
    IF r.to = Unassign THEN [NoFlash EXCEPT !.unassign = TRUE] ELSE [NoFlash EXCEPT !.to = r.to]

(* An answer as it should be, with the flash that is saved with it. *)
Right(ans, flash, user, c, flags) ==
    /\ ans.redirect => Carried(flash, ans.to, c, flags) /\ (flash = NoFlash \/ user)
    /\ ~ans.redirect => /\ flash = NoFlash
                        /\ ans.banner # NoBanner => Tells(ans.banner, c)
                        /\ ans.shows \subseteq {ans.page}

CalmTab(t) ==
    /\ pc[t] \in {"load", "redirect"} /\ store[cookie] # Gone =>
          /\ Carried(store[cookie].flash, req[t], calm, featureFlags)
          /\ store[cookie].flash = NoFlash \/ store[cookie].user
    /\ pc[t] \in Loaded \ {"details", "save"} =>
          /\ Carried(copy[t], req[t], calm, featureFlags)
          /\ copy[t] = NoFlash \/ own[t].user
    /\ pc[t] \in {"change", "details", "write"} => ~Banned(req[t], featureFlags)
    /\ pc[t] = "details" =>
          copy[t] = Named(req[t]) /\ calm = [cases |-> req[t].cases, to |-> req[t].to]
    /\ pc[t] = "save" => Right(answer[t], copy[t], own[t].user, calm, featureFlags)

(* The flags stay as they are, wherever they are copied. *)
FlagsCalm ==
    featureFlags = s3 /\ cached \in {NoFile, s3} /\ \A t \in Tab : file[t] \in {NoFile, s3}

Quiet ==
    (\A t \in Tab : pc[t] = "idle") /\ store[cookie] # Gone => store[cookie].flash = NoFlash

CalmInv == calm # Disturbed => FlagsCalm /\ Quiet /\ \A t \in Tab : CalmTab(t)

LEMMA CalmStep ==
    ASSUME IInv, KindsInv, NEW t \in Tab, StepOf(t), pc[t] # "idle",
           calm' # Disturbed => FlagsCalm' /\ Quiet' /\ CalmTab(t)'
    PROVE  CalmInv'
<1>1. ASSUME calm' # Disturbed, NEW u \in Tab \ {t} PROVE CalmTab(u)'
  <2>1. pc'[u] = "idle"
    BY <1>1, AloneIdle DEF Alone
  <2> QED BY <2>1 DEF CalmTab, Loaded
<1> QED BY <1>1 DEF CalmInv

(* No step of a request changes the flags that are in use. *)
LEMMA ServeFlags ==
    ASSUME IInv, NEW t \in Tab, Serve(t), FlagsCalm
    PROVE  FlagsCalm' /\ featureFlags' = featureFlags
<1> USE DEF FlagsCalm, flagVars
<1>1. file \in [Tab -> File \cup {NoFile}] /\ (pc[t] = "store" => file[t] # NoFile)
  BY DEF IInv, TypeOK, WebTypeOK, TabInv
<1>2. CASE UNCHANGED flagVars /\ UNCHANGED file
  BY <1>2
<1>3. CASE FlagsFromCache(t)
  BY <1>3 DEF FlagsFromCache, UseCached, GoOn
<1>4. CASE FetchFlags(t)
  BY <1>1, <1>4 DEF FetchFlags
<1>5. CASE FlagsFromS3(t)
  BY <1>1, <1>5 DEF FlagsFromS3, UseFetched
<1>6. ASSUME NEW ans, NEW flash, Respond(t, ans, flash) PROVE UNCHANGED file
  BY <1>6 DEF Respond
<1>7. ASSUME NEW flash, CallFails(t, flash) PROVE UNCHANGED file
  BY <1>6, <1>7 DEF CallFails, NextError
<1>8. CASE AssignStep(t)
  BY <1>2, <1>6, <1>7, <1>8
  DEF AssignStep, GetView, RejectAssignment, AssignCases, TellSuccess, GoOnWith
<1>9. CASE FormStep(t)
  BY <1>2, <1>6, <1>7, <1>9
  DEF FormStep, GetSupportNeedUpdateForm, ResetProfileReason, GetStatusUpdate,
      PostSupportNeedUpdateForm, SubmitResetProfileReason, PostStatusUpdate, SubmitForm, NextError
<1>10. CASE SignInStep(t)
  BY <1>2, <1>6, <1>10
  DEF SignInStep, Refuse, TokenNotVerified, ToSignIn, Forbid, StartSignIn, FinishSignIn, FailSignIn,
      ShowAuthError, NextError, EndSession
<1>11. CASE LoadSession(t) \/ MiddlewareFails(t) \/ ReadOnlyGuard(t) \/ SaveSession(t)
  BY <1>2, <1>6, <1>7, <1>11
  DEF LoadSession, MiddlewareFails, ReadOnlyGuard, SaveSession, NextError, GoOn
<1> QED BY <1>3, <1>4, <1>5, <1>8, <1>9, <1>10, <1>11 DEF Serve, WebStep

(* A step that answers as it should. *)
LEMMA RightAnswer ==
    ASSUME NEW t \in Tab, NEW ans, NEW flash, pc'[t] = "save", answer'[t] = ans, copy'[t] = flash,
           own'[t].user = own[t].user, calm' = calm, featureFlags' = featureFlags,
           Right(ans, flash, own[t].user, calm, featureFlags)
    PROVE  CalmTab(t)'
BY DEF CalmTab

LEMMA RightRespond ==
    ASSUME IInv, NEW t \in Tab, NEW ans, NEW flash, Respond(t, ans, flash), Fine,
           featureFlags' = featureFlags,
           Right(ans, flash, own[t].user, calm, featureFlags)
    PROVE  CalmTab(t)'
<1>1. /\ pc'[t] = "save" /\ answer'[t] = ans /\ copy'[t] = flash /\ own'[t] = own[t]
      /\ calm' = calm
  BY RespondIs DEF Fine
<1> QED BY <1>1, RightAnswer

LEMMA CarriedFacts ==
    ASSUME NEW flash, NEW r, NEW c, NEW flags, Carried(flash, r, c, flags)
    PROVE  /\ r.kind \notin {"assignPage", "form"} => flash = NoFlash
           /\ Banned(r, flags) => flash = NoFlash
           /\ r.kind = "form" /\ ~(Offered(r.form, flags) /\ r.valid) => flash = NoFlash
BY DEF Carried

(* An answer with an empty flash. *)
LEMMA RightPlain ==
    ASSUME NEW user, NEW c, NEW flags
    PROVE  /\ Right(OtherPage, NoFlash, user, c, flags)
           /\ \A r : Right(RedirectTo(r), NoFlash, user, c, flags)
           /\ \A page : Right(Shown(page, NoBanner, {}), NoFlash, user, c, flags)
BY DEF Right, OtherPage, Shown, RedirectTo, Carried

(* What a request is handled with. *)
LEMMA HandledWith ==
    ASSUME IInv, KindsInv, CalmInv, calm # Disturbed, NEW t \in Tab, pc[t] \in Loaded
    PROVE  /\ pc[t] # "save" => own[t].sid # NoSid
           /\ pc[t] \in Handling => own[t].user
           /\ pc[t] \notin {"details", "save"} => Carried(copy[t], req[t], calm, featureFlags)
           /\ pc[t] \in {"change", "write", "refused", "forbidden"} => copy[t] = NoFlash
           /\ pc[t] \in SignInKind => copy[t] = NoFlash
           /\ pc[t] \in {"change", "details", "write"} => ~Banned(req[t], featureFlags)
<1>1. CalmTab(t) /\ KindInv(t)
  BY DEF CalmInv, KindsInv
<1>2. pc[t] \notin {"details", "save"} =>
          /\ Carried(copy[t], req[t], calm, featureFlags)
          /\ copy[t] = NoFlash \/ own[t].user
  BY <1>1 DEF CalmTab
<1>3. /\ pc[t] \in {"change", "write", "forbidden"} => req[t].kind \notin {"assignPage", "form"}
      /\ pc[t] \in SignInKind => req[t].kind \notin {"assignPage", "form"}
      /\ pc[t] = "refused" => ~own[t].user
  BY <1>1 DEF KindInv, SignInKind
<1>4. pc[t] \in SignInKind => pc[t] \notin {"details", "save"}
  BY DEF SignInKind
<1> QED BY <1>1, <1>2, <1>3, <1>4, CarriedFacts DEF KindInv, CalmTab

-----------------------------------------------------------------------------
(* AssignCase.                                                             *)

LEMMA EmptyFlash ==
    ASSUME NEW flash \in Flash, ~flash.success, flash.cases = {}, flash.others = 0,
           flash.to = Nobody, ~flash.unassign, flash.errors = {}, flash.formValues = NoForm,
           flash.validationError = NoForm
    PROVE  flash = NoFlash
<1>1. flash = [success |-> flash.success, cases |-> flash.cases, others |-> flash.others,
               to |-> flash.to, unassign |-> flash.unassign, errors |-> flash.errors,
               formValues |-> flash.formValues, validationError |-> flash.validationError]
  BY DEF Flash
<1>2. flash.success = FALSE /\ flash.unassign = FALSE
  BY DEF Flash
<1> QED BY <1>1, <1>2 DEF NoFlash

LEMMA GetViewCalm ==
    ASSUME IInv, KindsInv, CalmInv, calm # Disturbed, calm' # Disturbed, NEW t \in Tab,
           GetView(t), featureFlags' = featureFlags
    PROVE  CalmTab(t)'
<1> DEFINE banner == IF copy[t].success
                     THEN [cases |-> copy[t].cases, others |-> copy[t].others,
                           to |-> copy[t].to, unassign |-> copy[t].unassign]
                     ELSE NoBanner
<1>1. Fine /\ Respond(t, Shown("assign", banner, {}), WithoutAllocation(copy[t]))
  BY CallFailsIs DEF GetView
<1>2. pc[t] = "list" /\ req[t].kind = "assignPage" /\ copy[t] \in Flash
  BY OwnFacts DEF GetView, KindsInv, KindInv
<1>3. copy[t] = NoFlash \/ NewsOnly(copy[t], calm)
  BY <1>2, HandledWith DEF Loaded, Label, Carried
<1>4. WithoutAllocation(copy[t]) = NoFlash
  <2>1. /\ copy[t].errors = {} /\ copy[t].formValues = NoForm
        /\ copy[t].validationError = NoForm
    BY <1>3 DEF NoFlash, NewsOnly
  <2>2. WithoutAllocation(copy[t]) \in Flash
    BY <1>2, Constant DEF WithoutAllocation, Flash, NoFlash
  <2>3. /\ WithoutAllocation(copy[t]).success = FALSE /\ WithoutAllocation(copy[t]).cases = {}
        /\ WithoutAllocation(copy[t]).others = 0 /\ WithoutAllocation(copy[t]).to = Nobody
        /\ WithoutAllocation(copy[t]).unassign = FALSE
        /\ WithoutAllocation(copy[t]).errors = {}
        /\ WithoutAllocation(copy[t]).formValues = NoForm
        /\ WithoutAllocation(copy[t]).validationError = NoForm
    BY <1>2, <2>1 DEF WithoutAllocation, Flash
  <2> QED BY <2>2, <2>3, EmptyFlash
<1>5. banner = NoBanner \/ Tells(banner, calm)
  BY <1>3 DEF NoFlash, NewsOnly, Tells
<1> HIDE DEF banner
<1>6. Right(Shown("assign", banner, {}), NoFlash, own[t].user, calm, featureFlags)
  BY <1>5 DEF Right, Shown
<1> QED BY <1>1, <1>4, <1>6, RightRespond

LEMMA AssignCasesCalm ==
    ASSUME IInv, KindsInv, CalmInv, calm # Disturbed, calm' # Disturbed, NEW t \in Tab,
           AssignCases(t), featureFlags' = featureFlags
    PROVE  CalmTab(t)'
<1> DEFINE r == req[t]
           flash == IF r.to = Unassign THEN [copy[t] EXCEPT !.unassign = TRUE]
                    ELSE [copy[t] EXCEPT !.to = FirstOf(@, Nobody, r.to)]
<1>1. pc[t] = "change" /\ Calmly(r) /\ GoOnWith(t, "details", flash)
  BY CallFailsIs DEF AssignCases
<1>2. copy[t] = NoFlash /\ ~Banned(req[t], featureFlags)
  BY <1>1, HandledWith DEF Loaded, Label
<1>3. flash = Named(r)
  BY <1>2 DEF Named, FirstOf, NoFlash
<1> HIDE DEF flash
<1>4. pc'[t] = "details" /\ req'[t] = req[t] /\ copy'[t] = flash
  BY <1>1 DEF GoOnWith, FlashTo, SessionTo, browserVars, IInv, TypeOK, WebTypeOK
<1>5. calm' = [cases |-> req[t].cases, to |-> req[t].to]
  BY <1>1 DEF Calmly
<1> QED BY <1>2, <1>3, <1>4, <1>5 DEF CalmTab

LEMMA TellSuccessCalm ==
    ASSUME IInv, KindsInv, CalmInv, calm # Disturbed, calm' # Disturbed, NEW t \in Tab,
           TellSuccess(t), featureFlags' = featureFlags
    PROVE  CalmTab(t)'
<1> DEFINE r == req[t]
           n == Cardinality(r.cases)
           named == IF n < Listed THEN n ELSE Listed
           others == IF n = named THEN 0 ELSE FirstOf(copy[t].others, 0, n - named)
           flash(cases) == [copy[t] EXCEPT !.success = TRUE, !.cases = @ \cup cases,
                                           !.others = others]
<1>1. PICK cases \in SUBSET r.cases :
          Fine /\ Cardinality(cases) = named /\ Respond(t, RedirectTo(AssignPage), flash(cases))
  BY CallFailsIs DEF TellSuccess
<1>2. /\ pc[t] = "details" /\ copy[t] = Named(r) /\ ~Banned(r, featureFlags)
      /\ calm = [cases |-> r.cases, to |-> r.to] /\ r.kind = "assign" /\ own[t].user
  BY DEF TellSuccess, CalmInv, CalmTab, KindsInv, KindInv, Handling
<1>3. n \in Nat /\ Listed \in Nat
  BY OwnFacts, Counts, FS_CardinalityType, WebAssumption DEF Request
<1>4. copy[t].cases = {} /\ copy[t].others = 0
  BY <1>2 DEF Named, NoFlash
<1>5. flash(cases).cases = cases /\ Cardinality(flash(cases).cases) + flash(cases).others = n
  <2>1. flash(cases).cases = cases /\ flash(cases).others = others
    BY <1>2, <1>4 DEF Named, NoFlash
  <2>2. named + others = n
    BY <1>3, <1>4 DEF FirstOf
  <2> HIDE DEF flash, others, named
  <2> QED BY <1>1, <2>1, <2>2
<1>6. /\ flash(cases).success /\ flash(cases).errors = {} /\ flash(cases).formValues = NoForm
      /\ flash(cases).validationError = NoForm
      /\ flash(cases).to = (IF r.to = Unassign THEN Nobody ELSE r.to)
      /\ flash(cases).unassign = (r.to = Unassign)
  BY <1>2 DEF Named, NoFlash
<1> HIDE DEF flash
<1>7. NewsOnly(flash(cases), calm)
  BY <1>1, <1>2, <1>5, <1>6 DEF NewsOnly, Tells
<1>8. AssignPage.kind = "assignPage" /\ ~Banned(AssignPage, featureFlags)
  BY <1>2, KindFacts DEF Banned, Guarded
<1>9. Right(RedirectTo(AssignPage), flash(cases), own[t].user, calm, featureFlags)
  BY <1>2, <1>7, <1>8 DEF Right, RedirectTo, Carried
<1> QED BY <1>1, <1>9, RightRespond

LEMMA AssignCalm ==
    ASSUME IInv, KindsInv, CalmInv, calm # Disturbed, calm' # Disturbed, NEW t \in Tab,
           AssignStep(t), featureFlags' = featureFlags
    PROVE  CalmTab(t)'
<1>1. CASE RejectAssignment(t)
  <2>1. copy[t] = NoFlash
    BY <1>1, HandledWith DEF RejectAssignment, Loaded, Label
  <2>2. Right(RedirectTo(AssignPage), copy[t], own[t].user, calm, featureFlags)
    BY <2>1, RightPlain
  <2> QED BY <1>1, <2>2, RightRespond DEF RejectAssignment
<1> QED BY <1>1, GetViewCalm, AssignCasesCalm, TellSuccessCalm DEF AssignStep

-----------------------------------------------------------------------------
(* FlashForms.                                                             *)

LEMMA OwnErrors ==
    ASSUME NEW f \in Form, NEW flash, flash \in {NoFlash, ErrorsOf(f)}
    PROVE  WithoutErrors(f, flash) = NoFlash /\ FoundBy(f, flash) \subseteq {f}
<1>1. NoForm # f
  BY WebAssumption
<1>2. CASE flash = NoFlash
  <2>1. WithoutErrors(f, flash) = NoFlash /\ FoundBy(f, flash) = {}
    BY <1>2 DEF WithoutErrors, FoundBy, NoFlash
  <2> QED BY <2>1
<1>3. CASE f \in Need /\ flash = ErrorsOf(f)
  <2>1. flash = [success |-> FALSE, cases |-> {}, others |-> 0, to |-> Nobody, unassign |-> FALSE,
                 errors |-> {f}, formValues |-> f, validationError |-> NoForm]
    BY <1>3 DEF ErrorsOf, NoFlash
  <2>2. WithoutErrors(f, flash) = [flash EXCEPT !.errors = {}, !.formValues = NoForm]
    BY <1>3 DEF WithoutErrors
  <2>3. WithoutErrors(f, flash) = NoFlash
    BY ONLY <2>1, <2>2 DEF NoFlash
  <2>4. FoundBy(f, flash) = {f} \cup ({f} \ {NoForm})
    BY <1>3, <2>1 DEF FoundBy
  <2> QED BY <2>3, <2>4
<1>4. CASE f \notin Need /\ flash = ErrorsOf(f)
  <2>1. flash = [success |-> FALSE, cases |-> {}, others |-> 0, to |-> Nobody, unassign |-> FALSE,
                 errors |-> {}, formValues |-> NoForm, validationError |-> f]
    BY <1>4 DEF ErrorsOf, NoFlash
  <2>2. WithoutErrors(f, flash) = [flash EXCEPT !.validationError = NoForm]
    BY <1>4 DEF WithoutErrors
  <2>3. WithoutErrors(f, flash) = NoFlash
    BY ONLY <2>1, <2>2 DEF NoFlash
  <2>4. FoundBy(f, flash) = {f} \ {NoForm}
    BY <1>4, <2>1 DEF FoundBy
  <2> QED BY <2>3, <2>4
<1> QED BY <1>2, <1>3, <1>4

(* What a form does with the flash it finds: it shows the errors in it, or *)
(* there are none. *)
LEMMA ReadFormCalm ==
    ASSUME IInv, KindsInv, CalmInv, calm # Disturbed, calm' # Disturbed, NEW t \in Tab,
           GetSupportNeedUpdateForm(t) \/ ResetProfileReason(t) \/ GetStatusUpdate(t),
           featureFlags' = featureFlags
    PROVE  CalmTab(t)'
<1> DEFINE f == req[t].form
           clean == WithoutErrors(f, copy[t])
<1>1. pc[t] = "read" /\ f \in Form /\ req[t].kind = "form"
  BY DEF GetSupportNeedUpdateForm, ResetProfileReason, GetStatusUpdate, Form, KindsInv, KindInv
<1>2. /\ Carried(copy[t], req[t], calm, featureFlags)
      /\ ~(Offered(f, featureFlags) /\ req[t].valid) => copy[t] = NoFlash
      /\ copy[t] \in {NoFlash, ErrorsOf(f)}
  <2>1. Carried(copy[t], req[t], calm, featureFlags)
    BY <1>1, HandledWith DEF Loaded, Label
  <2> QED BY <1>1, <2>1, CarriedFacts DEF Carried
<1>3. clean = NoFlash /\ FoundBy(f, copy[t]) \subseteq {f}
  BY <1>1, <1>2, OwnErrors
<1>4. Available(f) <=> Offered(f, featureFlags)
  BY DEF Available, Offered
<1>5. \/ Fine /\ Respond(t, Shown(f, NoBanner, FoundBy(f, copy[t])), clean)
      \/ /\ Fine /\ ~(Available(f) /\ req[t].valid)
         /\ Respond(t, OtherPage, copy[t]) \/ Respond(t, OtherPage, clean)
      \/ Fine /\ Respond(t, RedirectTo(Home), clean)
  BY CallFailsIs
  DEF GetSupportNeedUpdateForm, ResetProfileReason, GetStatusUpdate, NextError
<1>6. Right(Shown(f, NoBanner, FoundBy(f, copy[t])), NoFlash, own[t].user, calm, featureFlags)
  BY <1>3 DEF Right, Shown
<1> HIDE DEF f, clean
<1> QED BY <1>2, <1>3, <1>4, <1>5, <1>6, RightPlain, RightRespond

LEMMA PostFormCalm ==
    ASSUME IInv, KindsInv, CalmInv, calm # Disturbed, calm' # Disturbed, NEW t \in Tab,
           PostSupportNeedUpdateForm(t) \/ SubmitResetProfileReason(t) \/ PostStatusUpdate(t),
           featureFlags' = featureFlags
    PROVE  CalmTab(t)'
<1> DEFINE f == req[t].form
           page == Get("form", f)
<1>1. /\ pc[t] = "write" /\ f \in Form /\ f # NoForm /\ req[t].kind = "post"
      /\ own[t].user
  BY WebAssumption DEF PostSupportNeedUpdateForm, SubmitResetProfileReason, PostStatusUpdate,
         SubmitForm, Form, KindsInv, KindInv, Handling
<1>2. copy[t] = NoFlash /\ ~Banned(req[t], featureFlags)
  BY <1>1, HandledWith DEF Loaded, Label
<1>3. SubmitForm(t, ErrorsOf(f))
  <2>1. CASE PostSupportNeedUpdateForm(t)
    <3>1. ErrorsOf(f) = [copy[t] EXCEPT !.errors = @ \cup {f},
                                        !.formValues = IF @ = NoForm THEN f ELSE @]
      BY <1>2, <2>1 DEF PostSupportNeedUpdateForm, ErrorsOf, NoFlash
    <3> QED BY <2>1, <3>1 DEF PostSupportNeedUpdateForm
  <2>2. CASE SubmitResetProfileReason(t) \/ PostStatusUpdate(t)
    <3>1. f \in {Reset, Status} /\ SubmitForm(t, WithValidationError(f, copy[t]))
      BY <2>2 DEF SubmitResetProfileReason, PostStatusUpdate
    <3>2. WithValidationError(f, copy[t]) = ErrorsOf(f)
      BY <1>2, <3>1, WebAssumption DEF WithValidationError, ErrorsOf, NoFlash
    <3> QED BY <3>1, <3>2
  <2> QED BY <2>1, <2>2
<1>4. \/ Fine /\ Respond(t, OtherPage, copy[t])
      \/ Fine /\ Respond(t, RedirectTo(Home), copy[t])
      \/ Fine /\ Available(f) /\ Respond(t, RedirectTo(page), ErrorsOf(f))
  BY <1>3, CallFailsIs DEF SubmitForm, NextError
<1>5. ASSUME Available(f)
      PROVE  Right(RedirectTo(page), ErrorsOf(f), own[t].user, calm, featureFlags)
  <2>1. page.kind = "form" /\ page.form = f /\ page.valid
    BY DEF Get
  <2>2. ~Banned(page, featureFlags)
    BY <1>1, <1>2, <2>1 DEF Banned, Guarded
  <2>3. Offered(f, featureFlags)
    BY <1>5 DEF Available, Offered
  <2>4. Carried(ErrorsOf(f), page, calm, featureFlags)
    BY <1>1, <2>1, <2>2, <2>3 DEF Carried
  <2> QED BY <1>1, <2>4 DEF Right, RedirectTo
<1> HIDE DEF f, page
<1> QED BY <1>2, <1>4, <1>5, RightPlain, RightRespond

-----------------------------------------------------------------------------
(* SignInOut and WebRequest.                                               *)

LEMMA SignInCalm ==
    ASSUME IInv, KindsInv, CalmInv, calm # Disturbed, calm' # Disturbed, NEW t \in Tab,
           SignInStep(t), featureFlags' = featureFlags
    PROVE  CalmTab(t)'
<1>1. CASE FinishSignIn(t) \/ (EndSession(t) /\ own[t].user)
  <2>1. /\ pc'[t] = "save" /\ answer'[t] \in {RedirectTo(ReturnUrl(own[t])), RedirectTo(Home)}
        /\ copy'[t] = NoFlash /\ calm' = calm
    BY <1>1, FinishSignInIs, EndSessionIs
  <2>2. Right(answer'[t], NoFlash, own'[t].user, calm, featureFlags)
    BY <2>1, RightPlain
  <2> QED BY <2>1, <2>2 DEF CalmTab
<1>2. CASE Forbid(t) \/ ShowAuthError(t)
  <2>1. copy[t] = NoFlash /\ Fine
    BY <1>2, HandledWith DEF Forbid, ShowAuthError, Loaded, Label, SignInKind
  <2>2. Respond(t, RedirectTo(SignOut), copy[t]) \/ Respond(t, OtherPage, copy[t])
    BY <1>2 DEF Forbid, ShowAuthError, NextError
  <2> QED BY <2>1, <2>2, RightPlain, RightRespond
<1>3. CASE Refuse(t) \/ StartSignIn(t) \/ FailSignIn(t) \/ (EndSession(t) /\ ~own[t].user)
  <2>1. pc[t] \in {"refused", "signIn", "callback", "signOut"}
    BY <1>3 DEF Refuse, StartSignIn, FailSignIn, EndSession
  <2>2. copy[t] = NoFlash
    BY <2>1, HandledWith DEF Loaded, Label, SignInKind
  <2>3. /\ calm' = calm /\ pc'[t] = "save" /\ copy'[t] = copy[t]
        /\ answer'[t] = OtherPage \/ \E r : answer'[t] = RedirectTo(r)
    BY <1>3 DEF Refuse, ToSignIn, StartSignIn, FailSignIn, EndSession, SessionTo, Fine, Fault,
                IInv, TypeOK, WebTypeOK
  <2>4. Right(answer'[t], NoFlash, own'[t].user, calm, featureFlags)
    BY <2>3, RightPlain
  <2> QED BY <2>2, <2>3, <2>4 DEF CalmTab
<1>4. ~TokenNotVerified(t)
  BY DEF TokenNotVerified, Fault
<1> QED BY <1>1, <1>2, <1>3, <1>4 DEF SignInStep

LEMMA WebCalm ==
    ASSUME IInv, KindsInv, CalmInv, calm # Disturbed, calm' # Disturbed, NEW t \in Tab,
           WebStep(t), ~LoadSession(t), ~SaveSession(t), featureFlags' = featureFlags
    PROVE  CalmTab(t)'
<1>1. ~MiddlewareFails(t)
  BY CallFailsIs DEF MiddlewareFails
<1>2. pc[t] \in Loaded /\ pc[t] \notin {"details", "save"}
  BY <1>1 DEF WebStep, FlagsFromCache, FetchFlags, FlagsFromS3, ReadOnlyGuard, Loaded, Label
<1>3. /\ Carried(copy[t], req[t], calm, featureFlags)
      /\ copy[t] = NoFlash \/ own[t].user
  BY <1>2 DEF CalmInv, CalmTab
<1>4. ASSUME NEW label \in Label \ {"load", "redirect", "details", "save"}, pc'[t] = label,
             req'[t] = req[t], copy'[t] = copy[t], own'[t] = own[t], calm' = calm,
             label \in {"change", "write"} => ~Banned(req[t], featureFlags)
      PROVE  CalmTab(t)'
  BY <1>3, <1>4 DEF CalmTab
<1>5. CASE FlagsFromCache(t) \/ FetchFlags(t) \/ FlagsFromS3(t)
  <2>1. /\ pc'[t] \in {"guard", "store"} /\ req'[t] = req[t] /\ copy'[t] = copy[t]
        /\ own'[t] = own[t] /\ calm' = calm
    BY <1>5 DEF FlagsFromCache, FetchFlags, FlagsFromS3, GoOn, Fine, sessionVars, redisVars,
                browserVars, IInv, TypeOK, WebTypeOK
  <2> QED BY <1>4, <2>1 DEF Label
<1>6. CASE ReadOnlyGuard(t)
  <2>1. CASE Respond(t, OtherPage, copy[t])
             /\ (Banned(req[t], featureFlags) \/ req[t].kind = "home")
    <3>1. copy[t] = NoFlash
      BY <1>3, <2>1, CarriedFacts
    <3> QED BY <1>6, <2>1, <3>1, RightPlain, RightRespond DEF ReadOnlyGuard
  <2>2. CASE /\ ~Banned(req[t], featureFlags) /\ req[t].kind # "home"
             /\ GoOn(t, HandlerOf(req[t]))
    <3>1. req[t].kind \in {"assignPage", "assign", "form", "post"}
      BY <1>6, <2>2, OwnFacts DEF ReadOnlyGuard, KindsInv, KindInv, Handling, Request, Kind
    <3>2. HandlerOf(req[t]) \in {"list", "change", "read", "write"}
      BY <3>1 DEF HandlerOf
    <3>3. /\ pc'[t] = HandlerOf(req[t]) /\ req'[t] = req[t] /\ copy'[t] = copy[t]
          /\ own'[t] = own[t] /\ calm' = calm
      BY <1>6, <2>2 DEF ReadOnlyGuard, GoOn, Fine, sessionVars, redisVars, browserVars,
                        IInv, TypeOK, WebTypeOK
    <3> QED BY <1>4, <2>2, <3>2, <3>3 DEF Label
  <2> QED BY <1>6, <2>1, <2>2 DEF ReadOnlyGuard, NextError, Banned
<1> QED BY <1>1, <1>5, <1>6 DEF WebStep

LEMMA LoadSessionCalm ==
    ASSUME IInv, KindsInv, CalmInv, calm # Disturbed, NEW t \in Tab, LoadSession(t)
    PROVE  CalmTab(t)' /\ pc'[t] # "idle"
<1>1. PICK s \in Sid : own'[t] = Found(s) /\ pc'[t] = Admitted(t, Found(s))
  BY LoadSessionIs
<1>2. /\ pc[t] = "load" /\ calm' = calm /\ req'[t] = req[t] /\ featureFlags' = featureFlags
      /\ copy'[t] = (IF store[cookie] # Gone THEN store[cookie].flash ELSE NoFlash)
  BY LoadSessionIs
<1>3. Found(s).user \in BOOLEAN
  BY DEF Found, OwnOf, IInv, TypeOK, WebTypeOK, Session
<1>4. pc'[t] \in SignInKind \cup {"refused", "forbidden", "flags"}
  BY <1>1, <1>3, AdmittedIs
<1>5. pc'[t] \notin {"load", "redirect", "change", "details", "write", "save", "idle"}
  BY <1>4 DEF SignInKind
<1>6. /\ Carried(copy'[t], req[t], calm, featureFlags)
      /\ copy'[t] = NoFlash \/ own'[t].user
  <2>1. CASE store[cookie] = Gone
    BY <1>2, <2>1 DEF Carried
  <2>2. CASE store[cookie] # Gone
    <3>1. /\ Carried(store[cookie].flash, req[t], calm, featureFlags)
          /\ store[cookie].flash = NoFlash \/ store[cookie].user
      BY <1>2, <2>2 DEF CalmInv, CalmTab
    <3>2. own'[t].user = store[cookie].user
      BY <1>1, <2>2 DEF Found
    <3> QED BY <1>2, <2>2, <3>1, <3>2
  <2> QED BY <2>1, <2>2
<1> QED BY <1>2, <1>5, <1>6 DEF CalmTab

LEMMA SaveSessionCalm ==
    ASSUME IInv, KindsInv, HeldsInv, CalmInv, calm # Disturbed, NEW t \in Tab, SaveSession(t)
    PROVE  CalmTab(t)' /\ Quiet'
<1>1. /\ pc[t] = "save" /\ calm' = calm /\ featureFlags' = featureFlags
      /\ pc'[t] = (IF answer[t].redirect THEN "redirect" ELSE "idle")
      /\ answer[t].redirect => req'[t] = answer[t].to
      /\ own[t].sid = NoSid => cookie' = cookie /\ store'[cookie] = store[cookie]
      /\ own[t].sid # NoSid =>
            /\ cookie' = own[t].sid
            /\ \/ store'[cookie'] = RecordOf(own[t], copy[t])
               \/ ~dirty[t] /\ store'[cookie'] = store[cookie']
  BY SaveSessionIs
<1>2. HeldInv(t) /\ Alone(t) /\ pc[t] \in Loaded /\ NoSid # cookie
  BY <1>1, WebAssumption DEF HeldsInv, Alone, Loaded, Label, IInv, TypeOK, WebTypeOK
<1>3. store'[cookie'] = Gone \/ store'[cookie'] = RecordOf(own[t], copy[t])
  BY <1>1, <1>2 DEF HeldInv
<1>4. RecordOf(own[t], copy[t]).flash = copy[t] /\ RecordOf(own[t], copy[t]).user = own[t].user
  BY DEF RecordOf
<1>5. Right(answer[t], copy[t], own[t].user, calm, featureFlags)
  BY <1>1 DEF CalmInv, CalmTab
<1>6. CASE answer[t].redirect
  <2>1. /\ Carried(copy[t], req'[t], calm, featureFlags)
        /\ copy[t] = NoFlash \/ own[t].user
    BY <1>1, <1>5, <1>6 DEF Right
  <2> QED BY <1>1, <1>3, <1>4, <1>6, <2>1 DEF CalmTab, Quiet, Loaded
<1>7. CASE ~answer[t].redirect
  <2>1. copy[t] = NoFlash /\ pc'[t] = "idle"
    BY <1>1, <1>5, <1>7 DEF Right
  <2> QED BY <1>3, <1>4, <2>1 DEF CalmTab, Quiet, Loaded
<1> QED BY <1>6, <1>7

LEMMA CalmServed ==
    ASSUME IInv, KindsInv, HeldsInv, CalmInv, NEW t \in Tab, Serve(t) PROVE CalmInv'
<1>1. StepOf(t) /\ pc[t] # "idle"
  <2>1. \/ Kept(t) \/ LoadSession(t) \/ SaveSession(t) \/ FinishSignIn(t)
        \/ EndSession(t) /\ own[t].user
    BY ServeCases
  <2> QED BY <2>1, LoadSessionIs, SaveSessionIs, FinishSignInIs, EndSessionIs DEF Kept, Loaded
<1>2. SUFFICES ASSUME calm' # Disturbed PROVE FlagsCalm' /\ Quiet' /\ CalmTab(t)'
  BY <1>1, CalmStep
<1>3. calm # Disturbed
  BY <1>1, <1>2 DEF StepOf
<1>4. FlagsCalm' /\ featureFlags' = featureFlags
  BY <1>3, ServeFlags DEF CalmInv
<1>5. CASE SaveSession(t)
  BY <1>3, <1>4, <1>5, SaveSessionCalm
<1>6. CASE LoadSession(t)
  BY <1>3, <1>4, <1>6, LoadSessionCalm DEF Quiet
<1>7. CASE ~SaveSession(t) /\ ~LoadSession(t)
  <2>1. CalmTab(t)'
    BY <1>2, <1>3, <1>4, <1>7, AssignCalm, ReadFormCalm, PostFormCalm, SignInCalm, WebCalm
    DEF Serve, FormStep
  <2>2. pc'[t] # "idle"
    <3>1. CASE Kept(t)
      <4>1. req[t] \in Request /\ (pc[t] = "guard" => req[t].kind \notin SignInKind)
        BY OwnFacts DEF KindsInv, KindInv, Handling
      <4>2. pc[t] = "guard" /\ req[t].kind # "home" =>
                HandlerOf(req[t]) \in {"list", "change", "read", "write"}
        BY <4>1 DEF HandlerOf, Request, Kind, SignInKind
      <4> QED BY <3>1, <4>2 DEF Kept, Answering, Moves
    <3> QED BY <1>7, <3>1, ServeCases, FinishSignInIs, EndSessionIs
  <2> QED BY <1>4, <2>1, <2>2 DEF Quiet
<1> QED BY <1>5, <1>6, <1>7

LEMMA CalmUsed ==
    ASSUME IInv, KindsInv, CalmInv, NEW t \in Tab,
           FollowRedirect(t) \/ AbandonRedirect(t) \/ \E r : Sent(r) /\ Send(t, r)
    PROVE  CalmInv'
<1>1. CASE FollowRedirect(t)
  <2>1. /\ StepOf(t) /\ pc[t] = "redirect" /\ pc'[t] = "load" /\ req'[t] = req[t]
        /\ calm' = calm /\ store' = store /\ cookie' = cookie /\ file' = file
        /\ featureFlags' = featureFlags /\ s3' = s3 /\ cached' = cached
    BY <1>1, FollowRedirectIs
  <2>2. calm' # Disturbed => FlagsCalm' /\ Quiet' /\ CalmTab(t)'
    BY <2>1 DEF CalmInv, FlagsCalm, Quiet, CalmTab, Loaded
  <2> QED BY <2>1, <2>2, CalmStep
<1>2. CASE AbandonRedirect(t)
  BY <1>2, AbandonRedirectIs DEF CalmInv
<1>3. ASSUME NEW r, Sent(r), Send(t, r), calm' # Disturbed
      PROVE  FlagsCalm' /\ Quiet' /\ \A u \in Tab : CalmTab(u)'
  <2>1. /\ StepOf(t) /\ pc[t] = "idle" /\ pc'[t] = "load" /\ req'[t] = r
        /\ calm' = calm /\ store' = store /\ cookie' = cookie /\ file' = file
        /\ featureFlags' = featureFlags /\ s3' = s3 /\ cached' = cached
        /\ \A u \in Tab : pc[u] = "idle"
    BY <1>3, SendIs
  <2>2. FlagsCalm' /\ Quiet'
    BY <1>3, <2>1 DEF CalmInv, FlagsCalm, Quiet
  <2>3. CalmTab(t)'
    BY <1>3, <2>1 DEF CalmInv, Quiet, CalmTab, Loaded, Carried
  <2>4. ASSUME NEW u \in Tab \ {t} PROVE CalmTab(u)'
    BY <2>1, <2>4 DEF StepOf, CalmTab, Loaded
  <2> QED BY <2>2, <2>3, <2>4
<1> QED BY <1>1, <1>2, <1>3 DEF CalmInv

(* What a request leaves in the flash is for the request that follows, and *)
(* tells of the latest allocation or of what is wrong with that form.      *)
THEOREM FlashAsMeant == Spec => []CalmInv
<1>1. ASSUME Init PROVE CalmInv
  <2>1. FlagsCalm
    BY <1>1 DEF Init, WebInit, FlagsInit, FlagsCalm
  <2>2. \A t \in Tab : pc[t] = "idle"
    BY <1>1 DEF Init, WebInit
  <2>3. Quiet
    BY <1>1 DEF Init, WebInit, Quiet, RecordOf
  <2> QED BY <2>1, <2>2, <2>3 DEF CalmInv, CalmTab, Loaded
<1>2. ASSUME IInv, KindsInv, HeldsInv, CalmInv, [Next]_vars PROVE CalmInv'
  <2>1. CASE Outside
    BY <1>2, <2>1 DEF Outside, CalmInv, FlagsCalm, Quiet, CalmTab
  <2>2. CASE \E t \in Tab : Serve(t)
    BY <1>2, <2>2, CalmServed
  <2>3. CASE \E t \in Tab : Use(t)
    BY <1>2, <2>3, UseCases, CalmUsed
  <2>4. CASE (SessionExpires \/ FlagsChange) \/ UNCHANGED vars
    BY <1>2, <2>1, <2>4, OutsideCases
  <2> QED BY <1>2, <2>2, <2>3, <2>4 DEF Next
<1> QED BY <1>1, <1>2, PortalInvariant, RequestsAtTheirSteps, SessionsAsStored, PTL DEF Spec

(* As long as nothing has failed, no two requests have met and redirects   *)
(* have been followed, the banner tells of the latest allocation, all of   *)
(* it.                                                                     *)
THEOREM BannerTellsTheLatest == Spec => []CalmBannerIsLatest
<1>1. CalmInv => CalmBannerIsLatest
  BY DEF CalmInv, CalmTab, Right, Tells, CalmBannerIsLatest, Answered
<1> QED BY <1>1, FlashAsMeant, PTL

(* Under the same conditions a form shows its own errors and values only.  *)
THEOREM FormShowsItsOwn == Spec => []CalmFormIsOwn
<1>1. CalmInv => CalmFormIsOwn
  BY DEF CalmInv, CalmTab, Right, CalmFormIsOwn, Answered
<1> QED BY <1>1, FlashAsMeant, PTL
=============================================================================
