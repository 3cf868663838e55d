------------------------------ MODULE WebRequest ------------------------------
(***************************************************************************)
(* The life of a request of one member of staff: express-session loads the *)
(* session that the cookie names from Redis, the middleware has the user   *)
(* signed in and fills in the flags, the guard of the route lets the       *)
(* request pass or not, a controller answers, and the session is saved     *)
(* whole before the answer is complete.                                    *)
(*                                                                         *)
(* All of the session that controllers use is the flash: what a post has   *)
(* to tell to the page that it redirects to.  The tabs share it, as they   *)
(* share the cookie.  Signing in is in SignInOut, the controllers are in   *)
(* AssignCase and FlashForms.                                              *)
(***************************************************************************)
EXTENDS RemoteFlags, FiniteSets

CONSTANTS
    Tab,              \* browser tabs
    Case,             \* people in prison that may be assigned
    Worker,           \* resettlement workers
    Unassign,         \* the choice "_unassign" in their list
    Nobody,           \* no choice, undefined
    Need,             \* support needs, each with a form to update it
    Reset,            \* the form to reset a profile
    Status,           \* the form to set the status of a pathway
    NoForm,
    Disturbed,        \* see calm
    Sid,              \* session ids
    NoSid,            \* no session, or no page of one
    Gone,             \* Redis has no record
    NoPage,           \* no returnTo
    NoTab,            \* no sign-in under way
    Listed,           \* how many people the banner names, 5 in the code
    Scenario          \* bounds: in one behaviour, the tabs that are used, the
                      \*   people chosen from, the pages that are opened,
                      \*   what goes wrong (calls, or the session and the
                      \*   user's token) and how often, how often the
                      \*   flags change and the files there are of them

VARIABLES
    store,            \* store[s]: the session record in Redis
    cookie,           \* the session that the browser's cookie names
    screen,           \* screen[t]: the page that tab t shows
    issued,           \* issued[t]: the session whose token the page has
    pc,               \* pc[t]: the next step of the request of tab t
    req,              \* req[t]: that request
    own,              \* own[t]: its req.session, but for the flash
    copy,             \* copy[t]: the flash of its req.session
    dirty,            \* dirty[t]: whether these differ from what was loaded
    file,             \* file[t]: the flags it has fetched
    answer,           \* answer[t]: what it is answered with
    asked,            \* asked[t]: the latest page that tab t has asked for
    mishaps,          \* how much has gone wrong
    calm,             \* the latest allocation, as long as nothing has gone
                      \* wrong, no two requests have met and every redirect
                      \* has been followed; then Disturbed
    scenario          \* the bounds of this behaviour

redisVars == <<store, cookie>>
sessionVars == <<redisVars, own, copy, dirty>>
browserVars == <<screen, issued, req, asked>>
webVars == <<sessionVars, browserVars, pc, file, answer, mishaps, calm, scenario>>

Form == Need \cup {Reset, Status}
Choice == Worker \cup {Unassign, Nobody}

(* Only the first value of a key is used, and it does not matter how often *)
(* a person or an error is listed.  Nothing else shows allocationErrors.   *)
Flash == [success: BOOLEAN,                      \* allocationSuccess?.[0]
          cases: SUBSET Case,                    \* allocatedCases
          others: 0..Cardinality(Case),          \* allocatedOtherCount?.[0]
          to: Worker \cup {Nobody},              \* allocatedTo?.[0]
          unassign: BOOLEAN,                     \* isUnassign?.[0]
          errors: SUBSET Need,                   \* whose errors there are
          formValues: Need \cup {NoForm},        \* whose formValues?.[0] are
          validationError: {Reset, Status, NoForm}]
NoFlash == [success |-> FALSE, cases |-> {}, others |-> 0, to |-> Nobody,
            unassign |-> FALSE, errors |-> {},
            formValues |-> NoForm, validationError |-> NoForm]

SignInKind == {"signIn", "callback", "authError", "signOut"}
Kind == {"home", "assignPage", "assign", "form", "post"} \cup SignInKind
Request == [kind: Kind, cases: SUBSET Case, to: Choice,
            form: Form \cup {NoForm}, valid: BOOLEAN]
Get(kind, form) ==
    [kind |-> kind, cases |-> {}, to |-> Nobody, form |-> form, valid |-> TRUE]
Home == Get("home", NoForm)
AssignPage == Get("assignPage", NoForm)
SignIn == Get("signIn", NoForm)
Callback == Get("callback", NoForm)       \* from HMPPS Auth, signed in there
AuthError == Get("authError", NoForm)
SignOut == Get("signOut", NoForm)

(* originalUrl, when it is requested with GET.  The forms post to a URL    *)
(* without the prisoner.                                                   *)
OriginalUrl(r) ==
    CASE r.kind = "assign" -> AssignPage
      [] r.kind = "post" -> [Get("form", r.form) EXCEPT !.valid = FALSE]
      [] OTHER -> r

(* What a tab shows: the list, a form, or any other page. *)
Page == {"assign", "other"} \cup Form

(* The list comes with or without a banner, a form with the errors and the *)
(* values it shows, of whichever forms they are.                           *)
Banner == [cases: SUBSET Case, others: 0..Cardinality(Case), to: Worker \cup {Nobody},
           unassign: BOOLEAN]
NoBanner == [cases |-> {}, others |-> 0, to |-> Nobody, unassign |-> FALSE]
Answer == [redirect: {FALSE}, page: Page, banner: Banner \cup {NoBanner}, shows: SUBSET Form]
          \cup [redirect: {TRUE}, to: Request]
Shown(page, banner, shows) ==
    [redirect |-> FALSE, page |-> page, banner |-> banner, shows |-> shows]
OtherPage == Shown("other", NoBanner, {})
RedirectTo(r) == [redirect |-> TRUE, to |-> r]

(* An allocation, or the lack of one. *)
Change == [cases: SUBSET Case, to: Choice]
NoChange == [cases |-> {}, to |-> Nobody]

(* A record of express-session.  The token of csrf-sync is one to a        *)
(* session, so the session stands for it.                                  *)
Session == [user: BOOLEAN, returnTo: Request \cup {NoPage}, state: Tab \cup {NoTab},
            flash: Flash]
Own == [sid: Sid \cup {NoSid}, user: BOOLEAN, returnTo: Request \cup {NoPage},
        state: Tab \cup {NoTab}]
OwnOf(sid, user) == [sid |-> sid, user |-> user, returnTo |-> NoPage, state |-> NoTab]
NoOwn == OwnOf(NoSid, FALSE)
RecordOf(o, flash) ==
    [user |-> o.user, returnTo |-> o.returnTo, state |-> o.state, flash |-> flash]

Label == {"idle", "load", "signIn", "callback", "authError", "signOut", "refused", "forbidden",
          "flags", "store", "guard", "list", "change", "details", "read", "write",
          "save", "redirect"}

ASSUME WebAssumption ==
    /\ Nobody \notin Worker /\ Unassign \notin Worker /\ Nobody # Unassign
    /\ Disturbed \notin Change
    /\ NoForm \notin Form /\ Reset \notin Need /\ Status \notin Need /\ Reset # Status
    /\ IsFiniteSet(Case)
    /\ Sid \subseteq Nat \ {0} /\ NoSid = 0
    /\ Gone \notin Session /\ NoPage \notin Request /\ NoTab \notin Tab
    /\ Scenario \subseteq [tabs: SUBSET Tab, cases: SUBSET Case,
                          pages: SUBSET ({"home", "assignPage", "signOut"} \cup Form),
                          bad: SUBSET {"call", "session"}, mishaps: Nat, releases: 0..MaxReleases,
                          files: SUBSET File]
    /\ Listed \in Nat \ {0}

WebTypeOK ==
    /\ FlagsTypeOK
    /\ store \in [Sid -> Session \cup {Gone}]
    /\ cookie \in Sid
    /\ screen \in [Tab -> Page]
    /\ issued \in [Tab -> Sid \cup {NoSid}]
    /\ pc \in [Tab -> Label]
    /\ req \in [Tab -> Request]
    /\ asked \in [Tab -> Request]
    /\ own \in [Tab -> Own]
    /\ copy \in [Tab -> Flash]
    /\ dirty \in [Tab -> BOOLEAN]
    /\ file \in [Tab -> File \cup {NoFile}]
    /\ answer \in [Tab -> Answer]
    /\ mishaps \in 0..scenario.mishaps
    /\ calm \in Change \cup {Disturbed}
    /\ scenario \in Scenario

WebInit ==
    /\ FlagsInit
    /\ cookie \in Sid
    /\ \A r \in Sid : cookie <= r
    /\ store = [s \in Sid |-> IF s = cookie THEN RecordOf(OwnOf(s, TRUE), NoFlash) ELSE Gone]
    /\ screen = [t \in Tab |-> "other"]
    /\ issued = [t \in Tab |-> NoSid]
    /\ asked = [t \in Tab |-> Home]
    /\ own = [t \in Tab |-> NoOwn]
    /\ pc = [t \in Tab |-> "idle"]
    /\ req = [t \in Tab |-> Home]
    /\ copy = [t \in Tab |-> NoFlash]
    /\ dirty = [t \in Tab |-> FALSE]
    /\ file = [t \in Tab |-> NoFile]
    /\ answer = [t \in Tab |-> OtherPage]
    /\ mishaps = 0
    /\ calm = NoChange
    /\ scenario \in Scenario
    /\ s3 \in scenario.files

-----------------------------------------------------------------------------
(* How a step of tab t's request ends.                                     *)

Fine == UNCHANGED <<mishaps, calm, scenario>>
Fault(kind) ==
    /\ kind \in scenario.bad
    /\ mishaps < scenario.mishaps
    /\ mishaps' = mishaps + 1
    /\ calm' = Disturbed
    /\ UNCHANGED scenario

GoOn(t, label) ==
    /\ pc' = [pc EXCEPT ![t] = label]
    /\ UNCHANGED <<sessionVars, browserVars, file, answer>>

(* req.flash, or an assignment to req.session, changes the copy of the     *)
(* session, which is saved when the response ends, whatever it is.         *)
SessionTo(t, o, flash) ==
    /\ own' = [own EXCEPT ![t] = o]
    /\ copy' = [copy EXCEPT ![t] = flash]
    /\ dirty' = [dirty EXCEPT ![t] = @ \/ flash # copy[t] \/ o # own[t]]

FlashTo(t, flash) == SessionTo(t, own[t], flash) /\ UNCHANGED redisVars

GoOnWith(t, label, flash) ==
    /\ pc' = [pc EXCEPT ![t] = label]
    /\ FlashTo(t, flash)
    /\ UNCHANGED <<browserVars, file, answer>>

Respond(t, ans, flash) ==
    /\ pc' = [pc EXCEPT ![t] = "save"]
    /\ answer' = [answer EXCEPT ![t] = ans]
    /\ FlashTo(t, flash)
    /\ UNCHANGED <<browserVars, file>>

(* next(err): the error page. *)
NextError(t, flash) == Respond(t, OtherPage, flash)

(* A call that ends in next(err): if it was answered with 401 or 403, the  *)
(* error handler signs the user out.                                       *)
CallFails(t, flash) ==
    \/ Fault("call") /\ NextError(t, flash)
    \/ Fault("session") /\ Respond(t, RedirectTo(SignOut), flash)

-----------------------------------------------------------------------------
(* Before and after the controllers.                                       *)

(* The id of a new session, one that nothing names any more.               *)
Unnamed(s) ==
    /\ store[s] = Gone
    /\ s # cookie
    /\ \A t \in Tab : s # own[t].sid /\ s # issued[t]
NewSid(s) == Unnamed(s) /\ \A r \in Sid : Unnamed(r) => s <= r

(* What the middleware makes of a request before its first await: the      *)
(* routes of setUpAuthentication, authorisationMiddleware, setUpCsrf.      *)
Admitted(t, o) ==
    IF req[t].kind \in SignInKind THEN req[t].kind
    ELSE IF ~o.user THEN "refused"
    ELSE IF req[t].kind \in {"assign", "post"} /\ issued[t] # o.sid THEN "forbidden"
    ELSE "flags"

(* express-session loads the record, or starts a session; it is from now   *)
(* on the request's own.  nowInMinutes makes a new one differ.             *)
LoadSession(t) ==
    /\ pc[t] = "load"
    /\ \E s \in Sid :
          LET known == store[cookie] # Gone
              r == store[cookie]
              o == IF known THEN [sid |-> s, user |-> r.user, returnTo |-> r.returnTo,
                                  state |-> r.state]
                   ELSE OwnOf(s, FALSE)
          IN
          /\ IF known THEN s = cookie ELSE NewSid(s)
          /\ pc' = [pc EXCEPT ![t] = Admitted(t, o)]
          /\ own' = [own EXCEPT ![t] = o]
          /\ copy' = [copy EXCEPT ![t] = IF known THEN r.flash ELSE NoFlash]
          /\ dirty' = [dirty EXCEPT ![t] = ~known]
    /\ UNCHANGED <<redisVars, browserVars, file, answer, flagVars>>
    /\ Fine

(* The calls for the user, the caseload and the config come before the     *)
(* flags: if one fails the request ends in an error page, and so it does   *)
(* if S3 fails.                                                            *)
MiddlewareFails(t) ==
    /\ pc[t] = "flags"
    /\ CallFails(t, copy[t])
    /\ UNCHANGED flagVars

(* featureFlagMiddleware. *)
FlagsFromCache(t) == pc[t] = "flags" /\ UseCached /\ GoOn(t, "guard") /\ Fine

FetchFlags(t) ==
    /\ pc[t] = "flags"
    /\ cached = NoFile
    /\ pc' = [pc EXCEPT ![t] = "store"]
    /\ file' = [file EXCEPT ![t] = s3]
    /\ UNCHANGED <<sessionVars, browserVars, answer, flagVars>>
    /\ Fine

FlagsFromS3(t) ==
    /\ pc[t] = "store"
    /\ UseFetched(file[t])
    /\ pc' = [pc EXCEPT ![t] = "guard"]
    /\ file' = [file EXCEPT ![t] = NoFile]
    /\ UNCHANGED <<sessionVars, browserVars, answer>>
    /\ Fine

(* Mutant of Guarded: posts of the list are not. *)
GuardedGets(r) ==
    \/ r.kind = "assignPage"
    \/ r.kind \in {"form", "post"} /\ r.form = Reset
    \/ r.kind = "post" /\ r.form \in Need

(* The routes that readOnlyGuard is on. *)
Guarded(r) ==
    \/ r.kind \in {"assignPage", "assign"}
    \/ r.kind \in {"form", "post"} /\ r.form = Reset
    \/ r.kind = "post" /\ r.form \in Need

HandlerOf(r) ==
    CASE r.kind = "assignPage" -> "list"
      [] r.kind = "assign" -> "change"
      [] r.kind = "form" -> "read"
      [] r.kind = "post" -> "write"

(* readOnlyGuard asks the map that the latest request of any tab filled.   *)
ReadOnlyGuard(t) ==
    /\ pc[t] = "guard"
    /\ \/ Guarded(req[t]) /\ "readOnly" \in featureFlags /\ NextError(t, copy[t])
       \/ /\ ~(Guarded(req[t]) /\ "readOnly" \in featureFlags)
          /\ \/ req[t].kind = "home" /\ Respond(t, OtherPage, copy[t])
             \/ req[t].kind # "home" /\ GoOn(t, HandlerOf(req[t]))
    /\ UNCHANGED flagVars
    /\ Fine

(* Records that no cookie and no request under way can name are left out.  *)
Reachable(records, t, sid) ==
    [s \in Sid |-> IF s = sid \/ \E u \in Tab \ {t} : own[u].sid = s THEN records[s] ELSE Gone]

(* The session is saved if it differs from what was loaded, even if it has *)
(* been destroyed since, and it also does when nowInMinutes has changed in *)
(* between.  The response sets the cookie.  To sign out leaves no session. *)
SaveSession(t) ==
    LET sid == IF own[t].sid = NoSid THEN cookie ELSE own[t].sid IN
    /\ pc[t] = "save"
    /\ cookie' = sid
    /\ \/ /\ own[t].sid # NoSid
          /\ store' = Reachable([store EXCEPT ![sid] = RecordOf(own[t], copy[t])], t, sid)
       \/ /\ own[t].sid = NoSid \/ ~dirty[t]
          /\ store' = Reachable(store, t, sid)
    /\ IF answer[t].redirect
       THEN /\ pc' = [pc EXCEPT ![t] = "redirect"]
            /\ req' = [req EXCEPT ![t] = answer[t].to]
            /\ UNCHANGED <<screen, issued, asked>>
       ELSE /\ pc' = [pc EXCEPT ![t] = "idle"]
            /\ req' = [req EXCEPT ![t] = Home]
            /\ screen' = [screen EXCEPT ![t] = answer[t].page]
            /\ issued' = [issued EXCEPT ![t] = IF answer[t].page = "other" THEN NoSid ELSE sid]
            /\ asked' = [asked EXCEPT ![t] = Home]
    /\ own' = [own EXCEPT ![t] = NoOwn]
    /\ copy' = [copy EXCEPT ![t] = NoFlash]
    /\ dirty' = [dirty EXCEPT ![t] = FALSE]
    /\ answer' = [answer EXCEPT ![t] = OtherPage]
    /\ UNCHANGED <<file, flagVars>>
    /\ Fine

-----------------------------------------------------------------------------
(* The user.                                                               *)

Send(t, r) ==
    /\ t \in scenario.tabs
    /\ pc[t] = "idle"
    /\ pc' = [pc EXCEPT ![t] = "load"]
    /\ req' = [req EXCEPT ![t] = r]
    /\ asked' = [asked EXCEPT ![t] = OriginalUrl(r)]
    /\ calm' = IF \A u \in Tab : pc[u] = "idle" THEN calm ELSE Disturbed
    /\ UNCHANGED <<sessionVars, screen, issued, file, answer, mishaps, scenario, flagVars>>

OpenPage(t) ==
    \/ "home" \in scenario.pages /\ Send(t, Home)
    \/ "assignPage" \in scenario.pages /\ Send(t, AssignPage)
    \/ "signOut" \in scenario.pages /\ Send(t, SignOut)
    \/ \E f \in scenario.pages \cap Form : Send(t, Get("form", f))

FollowRedirect(t) ==
    /\ pc[t] = "redirect"
    /\ pc' = [pc EXCEPT ![t] = "load"]
    /\ asked' = [asked EXCEPT ![t] = IF req[t].kind \in SignInKind THEN @ ELSE OriginalUrl(req[t])]
    /\ UNCHANGED <<sessionVars, screen, issued, req, file, answer, flagVars>>
    /\ Fine

(* Stop, or a click on the page that is still shown. *)
AbandonRedirect(t) ==
    /\ pc[t] = "redirect"
    /\ pc' = [pc EXCEPT ![t] = "idle"]
    /\ req' = [req EXCEPT ![t] = Home]
    /\ asked' = [asked EXCEPT ![t] = Home]
    /\ calm' = Disturbed
    /\ UNCHANGED <<sessionVars, screen, issued, file, answer, mishaps, scenario, flagVars>>

(* The two hours of the session are over: the user has been doing nothing, *)
(* or is at the page of Auth.                                              *)
SessionExpires ==
    /\ store[cookie] # Gone
    /\ \A t \in Tab : pc[t] = "idle" \/ (pc[t] = "redirect" /\ req[t] = Callback)
    /\ Fault("session")
    /\ store' = [store EXCEPT ![cookie] = Gone]
    /\ UNCHANGED <<cookie, own, copy, dirty, browserVars, pc, file, answer, flagVars>>

FlagsChange ==
    /\ \/ ExpireFlags /\ UNCHANGED calm
       \/ /\ releases < scenario.releases
          /\ ReleaseFlags
          /\ s3' \in scenario.files
          /\ calm' = Disturbed
    /\ UNCHANGED <<sessionVars, browserVars, pc, file, answer, mishaps, scenario>>

WebStep(t) ==
    \/ LoadSession(t) \/ MiddlewareFails(t)
    \/ FlagsFromCache(t) \/ FetchFlags(t) \/ FlagsFromS3(t)
    \/ ReadOnlyGuard(t) \/ SaveSession(t)

Redirected(t) == FollowRedirect(t) \/ AbandonRedirect(t)
BrowserStep(t) == OpenPage(t) \/ Redirected(t)
=============================================================================
