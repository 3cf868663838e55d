---------------------------- MODULE SupportNeeds ----------------------------
(***************************************************************************)
(* The support needs form of one member of staff for one prisoner and      *)
(* pathway: SupportNeedsController over SupportNeedStateService, with one  *)
(* Redis key, the resettlement passport API and the user's browser tabs.   *)
(*                                                                         *)
(* startForm fills the cache with the needs that the API lists, under      *)
(* fresh uuids.  Every page and every post names needs by uuid, so what    *)
(* matters of the uuids is which start they come from: a uuid is a form    *)
(* number and the position of the need in the list.                        *)
(*                                                                         *)
(* As in AssessmentWizard a handler is a sequence of steps, one for each   *)
(* await of Redis or the API, and works on a copy of the cache that it     *)
(* writes back whole.  A page is shown while its request is under way and  *)
(* can be used again, but a tab of the model has one request at a time:    *)
(* the second is that of another tab, which shows the same (ClickAgain).   *)
(***************************************************************************)
EXTENDS Integers

CONSTANTS
    Tab,              \* browser tabs of the user
    NoCache,          \* the Redis key does not exist
    Elsewhere,        \* a tab that shows no page of the form
    NeedCount,        \* the API lists the needs 1..NeedCount, in this order
    SectionOf,        \* SectionOf[n]: the category of a need
    Updatable,        \* the others are "No support needs identified" options
    AllowUserDesc,    \* the needs the user describes, "Other"
    Mishaps,          \* what may go wrong: API calls, expiries, crashes
    MaxMishaps,       \* bounds: how often something goes wrong,
    MaxForms,         \*   starts of the form,
    MaxRequests       \*   requests

VARIABLES
    cache,            \* supportNeeds:...  in Redis
    forms,            \* how many times the form has been started
    api,              \* the forms whose needs the API has accepted
    screen,           \* screen[t]: what tab t shows
    pc,               \* pc[t]: the next step of the request of tab t
    req,              \* req[t]: that request
    loc,              \* loc[t]: its handler's copy of the cache
    spent             \* how much of each bound is used up, whether the user
                      \* has strayed from the links of the pages, and
                      \* whether requests of two tabs have overlapped

vars == <<cache, forms, api, screen, pc, req, loc, spent>>

-----------------------------------------------------------------------------
(* Needs.                                                                  *)

Need == 1..NeedCount
Section == { SectionOf[n] : n \in Need }

(* The options of a section that are not updatable. *)
NoNeedsOptions(s) == { n \in Need \ Updatable : SectionOf[n] = s }
Answered(s, selected) == \E n \in selected : SectionOf[n] = s

(* data-behaviour="exclusive": the browser unticks a section's needs when  *)
(* its option is ticked, and the other way round.                          *)
Exclusive(selected) ==
    \A n \in selected \ Updatable : \A m \in selected :
        SectionOf[m] = SectionOf[n] => m = n

Form == 1..MaxForms
NoForm == 0

(* SupportNeedsCache: per need isSelected, otherSupportNeedText, and the   *)
(* status with its responsible staff and text, each given or null.         *)
Needs == [form: Form, selected: SUBSET Need, described: SUBSET Need,
          detailed: SUBSET Need]

Started(f) == [form |-> f, selected |-> {}, described |-> {}, detailed |-> {}]

(* A page is asked for, a form posted, by the uuid it carries. *)
PageName == {"needs", "status", "check"}
Request == [page: PageName, form: Form \cup {NoForm}, need: Need, edit: BOOLEAN,
            valid: BOOLEAN, chosen: SUBSET Need, described: SUBSET Need]
Ask(page, f, n, edit) ==
    [page |-> page, form |-> f, need |-> n, edit |-> edit,
     valid |-> TRUE, chosen |-> {}, described |-> {}]
AskNeeds(edit) == Ask("needs", NoForm, 1, edit)
AskCheck == Ask("check", NoForm, 1, FALSE)
NoRequest == AskNeeds(FALSE)

(* The links of a page lead to status pages: those of the needs listed by  *)
(* Check your answers, that of the need before in a status page.           *)
Screen == [page: PageName, form: Form, need: Need, edit: BOOLEAN, links: SUBSET Need]
Page(page, f, n, edit, links) ==
    [page |-> page, form |-> f, need |-> n, edit |-> edit, links |-> links]

Label == {"idle", "redirect", "startDelete", "startFetch", "startWrite",
          "needsRead", "needsSummary", "validateRead", "submitRead", "submitWrite",
          "statusRead", "saveRead", "saveWrite", "removeRead", "removeWrite",
          "checkRead", "finalRead", "finalPost", "finalDelete"}
Spent == [mishaps: 0..MaxMishaps, strayed: BOOLEAN, overlapped: BOOLEAN,
          requests: 0..MaxRequests]

ASSUME SupportNeedsAssumption ==
    /\ NeedCount \in Nat \ {0}
    /\ SectionOf \in [Need -> Section]
    /\ AllowUserDesc \subseteq Updatable /\ Updatable \subseteq Need
    /\ \A n \in Need \ Updatable : \A m \in Need \ Updatable :
          SectionOf[m] = SectionOf[n] => m = n
    /\ NoCache \notin Needs
    /\ Elsewhere \notin Screen
    /\ Mishaps \subseteq {"fault", "expiry", "crash"}
    /\ {MaxMishaps, MaxForms, MaxRequests} \subseteq Nat

TypeOK ==
    /\ cache \in Needs \cup {NoCache}
    /\ forms \in 0..MaxForms
    /\ api \subseteq Form
    /\ screen \in [Tab -> Screen \cup {Elsewhere}]
    /\ pc \in [Tab -> Label]
    /\ req \in [Tab -> Request]
    /\ loc \in [Tab -> Needs \cup {NoCache}]
    /\ spent \in Spent

Init ==
    /\ cache = NoCache
    /\ forms = 0
    /\ api = {}
    /\ screen = [t \in Tab |-> Elsewhere]
    /\ pc = [t \in Tab |-> "idle"]
    /\ req = [t \in Tab |-> NoRequest]
    /\ loc = [t \in Tab |-> NoCache]
    /\ spent = [mishaps |-> 0, strayed |-> FALSE, overlapped |-> FALSE, requests |-> 0]

-----------------------------------------------------------------------------
(* What the handlers compute.                                              *)

(* Mutant of Valid: the text of "Other" is not asked for. *)
ValidSelection(r) ==
    LET toValidate == { s \in Section : NoNeedsOptions(s) # {} } IN
    /\ toValidate = {} => r.chosen # {}
    /\ \A s \in toValidate : Answered(s, r.chosen)

(* validateSupportNeeds.  The sections and options are the same in every   *)
(* form, so the outcome depends on the post alone.                         *)
Valid(r) ==
    LET toValidate == { s \in Section : NoNeedsOptions(s) # {} } IN
    /\ toValidate = {} => r.chosen # {}
    /\ \A s \in toValidate : Answered(s, r.chosen)
    /\ r.chosen \cap AllowUserDesc \subseteq r.described

(* updateSupportNeedsWithRequestBody: a uuid of another form matches none  *)
(* of the cached needs.  Statuses stay with needs that are deselected.     *)
WithSelection(needs, r) ==
    [needs EXCEPT !.selected = IF r.form = needs.form THEN r.chosen ELSE {},
                  !.described = IF r.form = needs.form THEN r.described ELSE {}]

(* submitSupportNeedsStatus. *)
WithDetails(needs, n) == [needs EXCEPT !.detailed = @ \cup {n}]

(* Mutants of Without: the option is not put back, or put back always. *)
WithoutOption(needs, n) ==
    [needs EXCEPT !.selected = @ \ {n}, !.described = @ \ {n}, !.detailed = @ \ {n}]
WithoutAlwaysOption(needs, n) ==
    [needs EXCEPT !.selected = (@ \ {n}) \cup NoNeedsOptions(SectionOf[n]),
                  !.described = @ \ {n}, !.detailed = @ \ {n}]

(* deleteSupportNeed: the last need of a section is replaced by its "No    *)
(* support needs identified" option, if it has one.                        *)
Without(needs, n) ==
    LET s == SectionOf[n]
        left == needs.selected \ {n}
    IN
    [needs EXCEPT !.selected = IF Answered(s, left) THEN left
                               ELSE left \cup NoNeedsOptions(s),
                  !.described = @ \ {n},
                  !.detailed = @ \ {n}]

StatusPages(needs) == needs.selected \cap Updatable

(* Mutants of StatusPagesAfter: the next need whatever it is, and a slice  *)
(* that starts one too late.                                               *)
NextInList(needs, n) == {n + 1}
StatusPagesAfterNext(needs, n) == { m \in StatusPages(needs) : m > n + 1 }

(* The needs after position n that have a status page: the next page is    *)
(* that of the first of them.                                              *)
StatusPagesAfter(needs, n) == { m \in StatusPages(needs) : m > n }

(* The first and the last need of a set, as sets of at most one need. *)
First(ns) == { n \in ns : \A m \in ns : n <= m }
Last(ns) == { n \in ns : \A m \in ns : m <= n }

(* findPreviousSelectedSupportNeed. *)
StatusPageBefore(needs, n) == Last({ m \in StatusPages(needs) : m < n })

-----------------------------------------------------------------------------
(* How a step of tab t's request ends.                                     *)

Continue(t, label, needs) ==
    /\ pc' = [pc EXCEPT ![t] = label]
    /\ loc' = [loc EXCEPT ![t] = needs]
    /\ UNCHANGED <<screen, req>>

(* res.render.  A page that is not one of the form, an error page or the   *)
(* pathway page, is Elsewhere.                                             *)
Show(t, s) ==
    /\ pc' = [pc EXCEPT ![t] = "idle"]
    /\ loc' = [loc EXCEPT ![t] = NoCache]
    /\ req' = [req EXCEPT ![t] = NoRequest]
    /\ screen' = [screen EXCEPT ![t] = s]

Exit(t) == Show(t, Elsewhere)

RedirectTo(t, r) ==
    /\ pc' = [pc EXCEPT ![t] = "redirect"]
    /\ loc' = [loc EXCEPT ![t] = NoCache]
    /\ req' = [req EXCEPT ![t] = r]
    /\ UNCHANGED screen

(* After position n comes the next status page, or Check your answers. *)
RedirectToNext(t, needs, n) ==
    LET later == StatusPagesAfter(needs, n) IN
    \/ later = {} /\ RedirectTo(t, AskCheck)
    \/ \E m \in First(later) : RedirectTo(t, Ask("status", needs.form, m, FALSE))

Mishap(kind) ==
    /\ kind \in Mishaps
    /\ spent.mishaps < MaxMishaps
    /\ spent' = [spent EXCEPT !.mishaps = @ + 1]

SetCache(needs) == cache' = needs /\ UNCHANGED <<forms, api, spent>>
NoWrite == UNCHANGED <<cache, forms, api>>
ReadStep(t, label) == pc[t] = label /\ NoWrite /\ UNCHANGED spent

(* getSupportNeeds: without a cached form the user is sent to the pathway  *)
(* page, otherwise the handler goes on with a copy.                        *)
ReadCache(t, label, next) ==
    /\ ReadStep(t, label)
    /\ \/ cache = NoCache /\ Exit(t)
       \/ cache # NoCache /\ Continue(t, next, cache)

(* needs.find(need => need.uuid === uuid). *)
Finds(needs, r) == needs.form = r.form

(* ReadCache for a handler that needs the uuid of its URL in the cache.    *)
ReadNeed(t, label, next) ==
    /\ ReadStep(t, label)
    /\ \/ cache = NoCache /\ Exit(t)
       \/ cache # NoCache /\ ~Finds(cache, req[t]) /\ Exit(t)
       \/ cache # NoCache /\ Finds(cache, req[t]) /\ Continue(t, next, cache)

-----------------------------------------------------------------------------
(* The handlers.                                                           *)

(* startForm. *)
DeleteBeforeStart(t) ==
    /\ pc[t] = "startDelete"
    /\ SetCache(NoCache)
    /\ Continue(t, "startFetch", NoCache)

FetchNeeds(t) ==
    /\ pc[t] = "startFetch"
    /\ NoWrite
    /\ \/ UNCHANGED spent /\ Continue(t, "startWrite", Started(req[t].form))
       \/ Mishap("fault") /\ Exit(t)

StartForm(t) ==
    /\ pc[t] = "startWrite"
    /\ SetCache(loc[t])
    /\ RedirectTo(t, AskNeeds(FALSE))

(* getSupportNeeds; the summary comes from the API. *)
OpenNeeds(t) == ReadCache(t, "needsRead", "needsSummary")

GetSupportNeeds(t) ==
    /\ pc[t] = "needsSummary"
    /\ NoWrite
    /\ \/ UNCHANGED spent /\ Show(t, Page("needs", loc[t].form, 1, req[t].edit, {}))
       \/ Mishap("fault") /\ Exit(t)

(* validateSupportNeeds and submitSupportNeeds: each reads the cache.      *)
ValidateSupportNeeds(t) ==
    /\ ReadStep(t, "validateRead")
    /\ \/ cache = NoCache /\ Exit(t)
       \/ cache # NoCache /\ Valid(req[t]) /\ Continue(t, "submitRead", NoCache)
       \/ cache # NoCache /\ ~Valid(req[t]) /\ RedirectTo(t, AskNeeds(FALSE))

SubmitRead(t) == ReadCache(t, "submitRead", "submitWrite")

SubmitSupportNeeds(t) ==
    LET needs == WithSelection(loc[t], req[t]) IN
    /\ pc[t] = "submitWrite"
    /\ SetCache(needs)
    /\ RedirectToNext(t, needs, 0)

(* getSupportNeedsStatus. *)
GetSupportNeedsStatus(t) ==
    LET n == req[t].need
        found == cache # NoCache /\ Finds(cache, req[t]) /\ n \in cache.selected
    IN
    /\ ReadStep(t, "statusRead")
    /\ \/ ~found /\ Exit(t)
       \/ /\ found
          /\ Show(t, Page("status", cache.form, n, req[t].edit, StatusPageBefore(cache, n)))

(* submitSupportNeedsStatus.  The redirect after an invalid post does not  *)
(* carry edit.                                                             *)
RejectStatus(t) ==
    /\ ReadStep(t, "saveRead")
    /\ ~req[t].valid
    /\ RedirectTo(t, Ask("status", req[t].form, req[t].need, FALSE))

StatusRead(t) == req[t].valid /\ ReadNeed(t, "saveRead", "saveWrite")

SubmitSupportNeedsStatus(t) ==
    LET needs == WithDetails(loc[t], req[t].need) IN
    /\ pc[t] = "saveWrite"
    /\ SetCache(needs)
    /\ \/ req[t].edit /\ RedirectTo(t, AskCheck)
       \/ ~req[t].edit /\ RedirectToNext(t, needs, req[t].need)

(* deleteSupportNeed. *)
DeleteRead(t) == ReadNeed(t, "removeRead", "removeWrite")

DeleteSupportNeed(t) ==
    LET needs == Without(loc[t], req[t].need) IN
    /\ pc[t] = "removeWrite"
    /\ SetCache(needs)
    /\ \/ req[t].edit /\ RedirectTo(t, AskCheck)
       \/ ~req[t].edit /\ RedirectToNext(t, needs, req[t].need)

(* getCheckAnswers. *)
GetCheckAnswers(t) ==
    /\ ReadStep(t, "checkRead")
    /\ \/ cache = NoCache /\ Exit(t)
       \/ /\ cache # NoCache
          /\ Show(t, Page("check", cache.form, 1, FALSE, StatusPages(cache)))

(* finaliseSupportNeeds.  A post that fails may have reached the API.      *)
FinaliseRead(t) == ReadCache(t, "finalRead", "finalPost")

PostSupportNeeds(t) ==
    /\ pc[t] = "finalPost"
    /\ UNCHANGED <<cache, forms>>
    /\ \/ /\ api' = api \cup {loc[t].form}
          /\ UNCHANGED spent
          /\ Continue(t, "finalDelete", NoCache)
       \/ /\ api' \in {api, api \cup {loc[t].form}}
          /\ Mishap("fault")
          /\ Exit(t)

(* Mutant of FinaliseSupportNeeds: the cache is kept. *)
FinaliseKeepingCache(t) == ReadStep(t, "finalDelete") /\ Exit(t)

FinaliseSupportNeeds(t) ==
    /\ pc[t] = "finalDelete"
    /\ SetCache(NoCache)
    /\ Exit(t)

-----------------------------------------------------------------------------
(* The user.                                                               *)

InFlight(t) == pc[t] \notin {"idle", "redirect"}

(* The handler of a page's GET. *)
FirstStep(r) ==
    CASE r.page = "needs" -> "needsRead"
      [] r.page = "status" -> "statusRead"
      [] r.page = "check" -> "checkRead"

(* spent after one more handler has begun, and after one more request. *)
Begun == [spent EXCEPT !.overlapped = @ \/ \E u \in Tab : InFlight(u)]
Counted == IF MaxRequests = 0 THEN Begun ELSE [Begun EXCEPT !.requests = @ + 1]

Send(t, label, r) ==
    /\ pc[t] = "idle"
    /\ MaxRequests > 0 => spent.requests < MaxRequests
    /\ pc' = [pc EXCEPT ![t] = label]
    /\ req' = [req EXCEPT ![t] = r]
    /\ UNCHANGED <<cache, api, screen, loc>>

Follow(t, r) == Send(t, FirstStep(r), r) /\ spent' = Counted /\ UNCHANGED forms

Shows(t, page) == screen[t] # Elsewhere /\ screen[t].page = page

(* "Add a support need" on the pathway page. *)
Start(t) ==
    /\ screen[t] = Elsewhere
    /\ forms < MaxForms
    /\ forms' = forms + 1
    /\ spent' = Counted
    /\ Send(t, "startDelete", Ask("needs", forms + 1, 1, FALSE))

SubmitNeeds(t) ==
    /\ Shows(t, "needs")
    /\ UNCHANGED forms /\ spent' = Counted
    /\ \E chosen \in SUBSET Need, described \in SUBSET AllowUserDesc :
          /\ Exclusive(chosen)
          /\ Send(t, "validateRead",
                  [Ask("needs", screen[t].form, 1, FALSE)
                      EXCEPT !.chosen = chosen, !.described = described])

(* The need of the status page shown. *)
ThisNeed(t) == Ask("status", screen[t].form, screen[t].need, screen[t].edit)

SaveStatus(t) ==
    /\ Shows(t, "status")
    /\ UNCHANGED forms /\ spent' = Counted
    /\ \E valid \in BOOLEAN :
          Send(t, "saveRead", [ThisNeed(t) EXCEPT !.valid = valid])

RemoveNeed(t) ==
    /\ Shows(t, "status")
    /\ UNCHANGED forms /\ spent' = Counted
    /\ Send(t, "removeRead", ThisNeed(t))

Confirm(t) ==
    /\ Shows(t, "check")
    /\ UNCHANGED forms /\ spent' = Counted
    /\ Send(t, "finalRead", AskCheck)

AddNeeds(t) == Shows(t, "check") /\ Follow(t, AskNeeds(TRUE))

Change(t) ==
    /\ Shows(t, "check")
    /\ \E n \in screen[t].links : Follow(t, Ask("status", screen[t].form, n, TRUE))

(* The Back links.  That of a needs page opened by Add leads to Check your *)
(* answers, otherwise to the pathway page (Leave); that of Check your      *)
(* answers to the last status page, /status/undefined if there is none.    *)
Back(t) ==
    LET s == screen[t] IN
    /\ s # Elsewhere
    /\ \/ s.edit /\ Follow(t, AskCheck)
       \/ ~s.edit /\ \E n \in Last(s.links) : Follow(t, Ask("status", s.form, n, FALSE))
       \/ s.page = "status" /\ ~s.edit /\ s.links = {} /\ Follow(t, AskNeeds(FALSE))
       \/ s.page = "check" /\ s.links = {} /\ Follow(t, Ask("status", NoForm, 1, FALSE))

(* The browser's own buttons, history and bookmarks. *)
Revisit(t) ==
    /\ \E r \in { AskNeeds(edit) : edit \in BOOLEAN } \cup {AskCheck}
                \cup { Ask("status", f, n, edit) :
                         f \in 1..forms, n \in Updatable, edit \in BOOLEAN } :
          Send(t, FirstStep(r), r)
    /\ spent' = [Counted EXCEPT !.strayed = TRUE]
    /\ UNCHANGED forms

Leave(t) ==
    /\ pc[t] = "idle"
    /\ screen' = [screen EXCEPT ![t] = Elsewhere]
    /\ UNCHANGED <<cache, forms, api, pc, req, loc, spent>>

FollowRedirect(t) ==
    /\ pc[t] = "redirect"
    /\ pc' = [pc EXCEPT ![t] = FirstStep(req[t])]
    /\ spent' = Begun
    /\ UNCHANGED <<cache, forms, api, screen, req, loc>>

(* A click on the page of tab t while its request is under way: the        *)
(* handler goes on, and what is clicked is asked for as from tab u.        *)
ClickAgain(t, u) ==
    /\ InFlight(t) /\ screen[t] # Elsewhere
    /\ pc[u] = "idle" /\ screen[u] = Elsewhere
    /\ screen' = [screen EXCEPT ![u] = screen[t]]
    /\ UNCHANGED <<cache, forms, api, pc, req, loc, spent>>

(* Stop, or a second click on the page still shown. *)
AbandonRedirect(t) ==
    /\ pc[t] = "redirect"
    /\ Show(t, screen[t])
    /\ spent' = [spent EXCEPT !.strayed = TRUE]
    /\ NoWrite

-----------------------------------------------------------------------------
(* The rest of the environment.                                            *)

(* Nothing has been written for five days, so the session is over and the  *)
(* user signs in again in a tab.                                           *)
ExpireCache ==
    /\ Mishap("expiry")
    /\ cache # NoCache
    /\ \A u \in Tab : pc[u] = "idle"
    /\ cache' = NoCache
    /\ \E t \in Tab : screen' = [screen EXCEPT ![t] = Elsewhere]
    /\ UNCHANGED <<forms, api, pc, req, loc>>

(* The pod that serves tab t is replaced half way through a handler. *)
Crash(t) ==
    /\ InFlight(t)
    /\ Mishap("crash")
    /\ Exit(t)
    /\ NoWrite

-----------------------------------------------------------------------------
Handle(t) ==
    \/ DeleteBeforeStart(t) \/ FetchNeeds(t) \/ StartForm(t)
    \/ OpenNeeds(t) \/ GetSupportNeeds(t)
    \/ ValidateSupportNeeds(t) \/ SubmitRead(t) \/ SubmitSupportNeeds(t)
    \/ GetSupportNeedsStatus(t)
    \/ RejectStatus(t) \/ StatusRead(t) \/ SubmitSupportNeedsStatus(t)
    \/ DeleteRead(t) \/ DeleteSupportNeed(t)
    \/ GetCheckAnswers(t)
    \/ FinaliseRead(t) \/ PostSupportNeeds(t) \/ FinaliseSupportNeeds(t)

Use(t) ==
    \/ Start(t) \/ SubmitNeeds(t) \/ SaveStatus(t) \/ RemoveNeed(t)
    \/ Confirm(t) \/ AddNeeds(t) \/ Change(t) \/ Back(t)
    \/ Revisit(t) \/ Leave(t) \/ FollowRedirect(t) \/ AbandonRedirect(t)
    \/ \E u \in Tab : ClickAgain(t, u)

Next ==
    \/ \E t \in Tab : Handle(t) \/ Use(t) \/ Crash(t)
    \/ ExpireCache

Spec == Init /\ [][Next]_vars

-----------------------------------------------------------------------------
(* Properties.                                                             *)

(* A section never has both its "No support needs identified" option and a *)
(* need selected: what data-behaviour="exclusive" ensures in the browser   *)
(* and deleteSupportNeed must not undo.                                    *)
NoNeedsIsExclusive == cache # NoCache => Exclusive(cache.selected)

(* A selected "Other" need has its text, which validateSupportNeeds asks   *)
(* for, whatever tabs have removed or submitted since.                     *)
OtherNeedsAreDescribed ==
    cache # NoCache => cache.selected \cap AllowUserDesc \subseteq cache.described

(* Every section that has the option has an answer. *)
SectionsAnswered(selected) ==
    \A s \in Section : NoNeedsOptions(s) # {} => Answered(s, selected)

(* Until a second form is started, no post, removal or status of any tab   *)
(* takes the answer away from a section that has the option, once every    *)
(* such section has one.                                                   *)
SectionsStayAnswered ==
    [][forms <= 1 /\ cache # NoCache /\ cache' # NoCache
         /\ SectionsAnswered(cache.selected)
       => SectionsAnswered(cache'.selected)]_vars

(* The links and buttons of the pages lead a user with one tab to Confirm  *)
(* only through the status page of every selected need: only the browser's *)
(* own buttons get past one (finaliseSupportNeeds does not look).          *)
LinksLeadThroughStatuses ==
    \A t \in Tab : pc[t] = "finalPost" /\ ~spent.strayed =>
        StatusPages(loc[t]) \subseteq loc[t].detailed

(* From whichever tab or older page Confirm is pressed, the needs of a     *)
(* form that has been posted are not posted again, unless a call or a      *)
(* handler has failed or two requests have been under way at once: then a  *)
(* second Confirm may have read the cache before the first deletes it, or  *)
(* another handler writes its copy of the form back after it.              *)
ConfirmedOnce ==
    \A t \in Tab :
        pc[t] = "finalPost" /\ spent.mishaps = 0 /\ ~spent.overlapped =>
            loc[t].form \notin api

(* One tab's requests take effect one at a time, each on the form that the *)
(* one before has left, or not at all: the steps of the handlers, whatever *)
(* fails between them, are those of NeedsForm.                             *)
Promised == INSTANCE NeedsForm WITH form <- cache, posted <- api, FormId <- Form
ActsOnCurrentForm == Promised!Spec

(* What validateSupportNeeds says it checks holds of what is then saved:   *)
(* something is selected in each section with the option.                  *)
ValidatedSectionsAnswered ==
    [][\A t \in Tab : SubmitSupportNeeds(t) => SectionsAnswered(cache'.selected)]_vars
=============================================================================
