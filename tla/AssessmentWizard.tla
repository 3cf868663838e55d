--------------------------- MODULE AssessmentWizard --------------------------
(***************************************************************************)
(* The report wizard of one member of staff for one prisoner and pathway:  *)
(* ImmediateNeedsReportController over AssessmentStateService, with the    *)
(* working and backup assessments in Redis, the resettlement passport API  *)
(* behind it and one or more browser tabs in front.                        *)
(*                                                                         *)
(* A handler is a sequence of steps, one for each await that reaches       *)
(* Redis or the API; pc[t] names the step that the request of tab t will   *)
(* take next.  A service operation reads a whole cached record, changes    *)
(* its copy and writes the copy back, so the copy lives in loc[t] between  *)
(* two steps and nothing locks the key.  An API call that only reads the   *)
(* form (a page, the next page) shares a step with its neighbour.  A tab   *)
(* of the model has one request at a time: what is clicked on a page while *)
(* its request is under way is a request of another tab, which shows the   *)
(* same page (ClickAgain).                                                 *)
(***************************************************************************)
EXTENDS ReportAnswers, FiniteSets

CONSTANTS
    Tab,              \* browser tabs of the user
    NoCache,          \* the Redis key does not exist
    NoSheet,          \* an absent list of answers
    Elsewhere,        \* a tab that shows no page of the wizard
    NextPage(_, _),   \* NextPage(p, post): the page the API answers with
    FirstPage,        \* the page the API starts the form with
    Complete,         \* sheets that the API's validate endpoint accepts
    Concurrent,       \* whether requests of different tabs may overlap
    ProfileEdits,     \* whether the pathway page offers its Change links
    Mishaps,          \* what may go wrong: API calls, expiries, crashes
    MaxMishaps,       \* bounds: how often something goes wrong,
    MaxHistory,       \*   loaded pages, requests (0: no bound)
    MaxRequests

VARIABLES
    working,          \* workingAssessment:...  in Redis
    backup,           \* backupAssessment:...   in Redis
    api,              \* the assessment that the API has completed, if any
    screen,           \* screen[t]: what tab t shows
    pc,               \* pc[t]: the next step of the request of tab t
    req,              \* req[t]: that request
    loc,              \* loc[t]: the local variables of its handler
    spent             \* how much of each bound is used up

cacheVars == <<working, backup>>
vars == <<working, backup, api, screen, pc, req, loc, spent>>

-----------------------------------------------------------------------------
(* Records.                                                                *)

Saved == [answers: Sheet, version: Version]

(* A tab shows a wizard page, with the Change links of Check Your Answers, *)
(* or it is Elsewhere: an error page, the task list, the pathway page.     *)
Screen == [page: PageId, submitted: BOOLEAN, links: SUBSET Page]

Op == {"none", "first", "save", "view", "edit", "complete", "submit"}
Request == [op: Op, page: PageId, body: Sheet, submitted: BOOLEAN]
Ask(op, p, body, submitted) ==
    [op |-> op, page |-> p, body |-> body, submitted |-> submitted]
NoRequest == Ask("none", CheckAnswers, EmptySheet, FALSE)

Locals == [working: Journey \cup {NoCache},
           backup: EditBackup \cup {NoCache},
           answers: Sheet \cup {NoSheet},
           version: Version]
NoLocals == [working |-> NoCache, backup |-> NoCache,
             answers |-> NoSheet, version |-> 1]

ASSUME WizardAssumption ==
    /\ Complete \subseteq Sheet
    /\ EmptySheet \notin Complete
    /\ NoSheet \notin Sheet
    /\ FirstPage \in Page
    /\ \A p \in PageId, post \in Sheet : NextPage(p, post) \in PageId
    /\ Version \subseteq Nat /\ 1 \in Version
    /\ NoCache \notin Journey \cup EditBackup \cup Saved
    /\ Elsewhere \notin Screen
    /\ Concurrent \in BOOLEAN /\ ProfileEdits \in BOOLEAN
    /\ Mishaps \subseteq {"fault", "expiry", "crash"}
    /\ {MaxMishaps, MaxHistory, MaxRequests} \subseteq Nat

Label == {"idle", "redirect",
          "version", "prefill", "initRead", "initWrite", "firstNext",
          "saveOpen", "answerRead", "answerWrite", "saveNext",
          "viewOpen", "convergeRead", "convergeDecide", "convergeWrite",
          "historyRead", "historyWrite", "mergeRead",
          "checkRead", "checkValidate", "checkBackupRead", "checkBackupValidate",
          "restoreRead", "restoreWrite", "dropBackup", "updateRead", "updateWrite",
          "wipeRead", "wipeWrite",
          "editRead", "editBackup", "editWorking",
          "completeRead", "completePost", "submitPost",
          "deleteWorking", "deleteBackup"}

Spent == [mishaps: 0..MaxMishaps, crashed: BOOLEAN, requests: 0..MaxRequests]

TypeOK ==
    /\ working \in Journey \cup {NoCache}
    /\ backup \in EditBackup \cup {NoCache}
    /\ api \in Saved \cup {NoCache}
    /\ screen \in [Tab -> Screen \cup {Elsewhere}]
    /\ pc \in [Tab -> Label]
    /\ req \in [Tab -> Request]
    /\ loc \in [Tab -> Locals]
    /\ spent \in Spent

Init ==
    /\ working = NoCache
    /\ backup = NoCache
    /\ api = NoCache
    /\ screen = [t \in Tab |-> Elsewhere]
    /\ pc = [t \in Tab |-> "idle"]
    /\ req = [t \in Tab |-> NoRequest]
    /\ loc = [t \in Tab |-> NoLocals]
    /\ spent = [mishaps |-> 0, crashed |-> FALSE, requests |-> 0]

-----------------------------------------------------------------------------
(* How a step of tab t's request ends.                                     *)

(* The handler goes on to its next await with local variables l. *)
Continue(t, label, l) ==
    /\ pc' = [pc EXCEPT ![t] = label]
    /\ loc' = [loc EXCEPT ![t] = l]
    /\ UNCHANGED <<screen, req>>

(* res.render: the tab shows s.  An error page is Elsewhere. *)
Show(t, s) ==
    /\ pc' = [pc EXCEPT ![t] = "idle"]
    /\ loc' = [loc EXCEPT ![t] = NoLocals]
    /\ req' = [req EXCEPT ![t] = NoRequest]
    /\ screen' = [screen EXCEPT ![t] = s]

Fail(t) == Show(t, Elsewhere)

(* res.redirect to a page of the wizard; the tab keeps its page until the  *)
(* redirect has been followed.                                             *)
RedirectTo(t, p, submitted) ==
    /\ pc' = [pc EXCEPT ![t] = "redirect"]
    /\ loc' = [loc EXCEPT ![t] = NoLocals]
    /\ req' = [req EXCEPT ![t] = Ask("view", p, EmptySheet, submitted)]
    /\ UNCHANGED screen

(* Something goes wrong, within the bound. *)
Mishap(kind) ==
    /\ kind \in Mishaps
    /\ spent.mishaps < MaxMishaps
    /\ spent' = [spent EXCEPT !.mishaps = @ + 1,
                              !.crashed = @ \/ kind = "crash"]

(* Steps that only read, and steps that write one key. *)
NoWrite == UNCHANGED <<working, backup, api>>
SetWorking(j) == working' = j /\ UNCHANGED <<backup, api, spent>>
SetBackup(b) == backup' = b /\ UNCHANGED <<working, api, spent>>

(* An API call made on behalf of tab t that reads: it succeeds and the     *)
(* handler goes on, or it fails.                                           *)
AtStep(t, label) == pc[t] = label
ReadStep(t, label) == AtStep(t, label) /\ NoWrite /\ UNCHANGED spent
FailedCall(t, label) == AtStep(t, label) /\ NoWrite /\ Mishap("fault")

-----------------------------------------------------------------------------
(* getFirstPage, and the first half of startEdit for a submitted report.   *)

(* existingAssessmentVersion || configVersion, and ... ?? 1 in startEdit.  *)
(* The configuration that is deployed when a request arrives may be of any *)
(* version.                                                                *)
GetLatestAssessmentVersion(t) ==
    \/ /\ ReadStep(t, "version")
       /\ \E configVersion \in Version :
             Continue(t, "prefill",
                [loc[t] EXCEPT !.version = IF api # NoCache THEN api.version
                                           ELSE IF req[t].op = "first" THEN configVersion
                                           ELSE 1])
    \/ FailedCall(t, "version") /\ Fail(t)

(* getAssessmentPage(CHECK_ANSWERS): on failure it returns { error } and   *)
(* the list of questions and answers is undefined.                         *)
GetCheckAnswersPage(t) ==
    \/ /\ ReadStep(t, "prefill")
       /\ Continue(t, "initRead",
            [loc[t] EXCEPT !.answers = IF api # NoCache THEN api.answers ELSE EmptySheet])
    \/ /\ FailedCall(t, "prefill")
       /\ Continue(t, "initRead", [loc[t] EXCEPT !.answers = NoSheet])

(* Mutant of InitialiseCacheRead: an existing assessment is not looked for. *)
InitialiseCacheAfresh(t) ==
    /\ ReadStep(t, "initRead")
    /\ Continue(t, "initWrite", loc[t])

InitialiseCacheRead(t) ==
    /\ ReadStep(t, "initRead")
    /\ Continue(t, "initWrite", [loc[t] EXCEPT !.working = working])

InitialAssessment(l) ==
    LET prefill == IF l.answers = NoSheet THEN EmptySheet ELSE l.answers IN
    [answers |-> prefill, version |-> l.version,
     history |-> PagesFromCheckYourAnswers(prefill)]

(* After initialiseCache has returned assessment j: startEdit goes on, and *)
(* getFirstPage redirects to the last page loaded or asks for the first.   *)
Initialised(t, j) ==
    \/ /\ req[t].op = "edit"
       /\ Continue(t, "editRead", NoLocals)
    \/ /\ req[t].op # "edit"
       /\ j.history = << >>
       /\ Continue(t, "firstNext", NoLocals)
    \/ /\ req[t].op # "edit"
       /\ j.history # << >>
       /\ LET last == j.history[Len(j.history)] IN
             RedirectTo(t, last, last = CheckAnswers)

InitialiseCache(t) ==
    LET l == loc[t]
        reloaded == [l.working EXCEPT !.history = PagesFromCheckYourAnswers(l.answers)]
    IN
    /\ AtStep(t, "initWrite")
    /\ \/ /\ l.working = NoCache
          /\ SetWorking(InitialAssessment(l))
          /\ Initialised(t, InitialAssessment(l))
       \/ /\ l.working # NoCache
          /\ l.answers \notin {NoSheet, EmptySheet}
          /\ SetWorking(reloaded)
          /\ Initialised(t, reloaded)
       \/ /\ l.working # NoCache
          /\ l.answers = EmptySheet
          /\ NoWrite /\ UNCHANGED spent
          /\ Initialised(t, l.working)
       \/ /\ l.working # NoCache
          /\ l.answers = NoSheet          \* undefined.length
          /\ NoWrite /\ UNCHANGED spent
          /\ Fail(t)

FetchFirstPage(t) ==
    \/ ReadStep(t, "firstNext") /\ RedirectTo(t, FirstPage, FALSE)
    \/ FailedCall(t, "firstNext") /\ Fail(t)

-----------------------------------------------------------------------------
(* saveAnswerAndGetNextPage.                                               *)

(* getWorkingAssessmentVersion, then getAssessmentPage: both throw, the    *)
(* first on a missing cache, the second (in processReportRequestBody) on   *)
(* a page that is { error }.                                               *)
OpenSavedPage(t) ==
    \/ /\ ReadStep(t, "saveOpen")
       /\ IF working = NoCache THEN Fail(t) ELSE Continue(t, "answerRead", NoLocals)
    \/ FailedCall(t, "saveOpen") /\ Fail(t)

AnswerRead(t) ==
    /\ ReadStep(t, "answerRead")
    /\ Continue(t, "answerWrite", [loc[t] EXCEPT !.working = working])

(* The answers are cached before the validation errors are looked at. *)
SaveAnswers(t) ==
    LET j == loc[t].working
        post == FormatAssessmentResponse(req[t].page, req[t].body)
    IN
    /\ AtStep(t, "answerWrite")
    /\ \/ /\ j = NoCache
          /\ NoWrite /\ UNCHANGED spent
          /\ Fail(t)
       \/ /\ j # NoCache
          /\ SetWorking([j EXCEPT !.answers = Answered(j.answers, post)])
          /\ IF ValidationErrors(post) # {}
             THEN RedirectTo(t, req[t].page, FALSE)
             ELSE Continue(t, "saveNext", NoLocals)

FetchNextPage(t) ==
    LET p == req[t].page IN
    \/ /\ ReadStep(t, "saveNext")
       /\ IF working = NoCache THEN Fail(t)
          ELSE RedirectTo(t, NextPage(p, FormatAssessmentResponse(p, req[t].body)), FALSE)
    \/ FailedCall(t, "saveNext") /\ Fail(t)

-----------------------------------------------------------------------------
(* getView.                                                                *)

OpenPage(t) ==
    \/ /\ ReadStep(t, "viewOpen")
       /\ IF working = NoCache THEN Fail(t) ELSE Continue(t, "convergeRead", NoLocals)
    \/ FailedCall(t, "viewOpen") /\ Fail(t)

ConvergeRead(t) ==
    /\ ReadStep(t, "convergeRead")
    /\ Continue(t, "convergeDecide", [loc[t] EXCEPT !.working = working])

(* checkForConvergence, the backup having just been read. *)
CheckForConvergence(t) ==
    LET j == loc[t].working
        p == req[t].page
        edit == backup # NoCache /\ backup.startEditPageId # p
        goOn == Continue(t, IF p = CheckAnswers THEN "checkRead" ELSE "historyRead",
                         NoLocals)
    IN
    /\ ReadStep(t, "convergeDecide")
    /\ \/ ~edit /\ goOn
       \/ edit /\ j = NoCache /\ Fail(t)
       \/ edit /\ j # NoCache /\ p \notin AnsweredPages(j.answers) /\ goOn
       \/ /\ edit /\ j # NoCache /\ p \in AnsweredPages(j.answers)
          /\ Continue(t, "convergeWrite",
                [loc[t] EXCEPT !.working.history = @ \o FromPage(backup.history, p)])

Converge(t) ==
    /\ AtStep(t, "convergeWrite")
    /\ SetWorking(loc[t].working)
    /\ RedirectTo(t, CheckAnswers, FALSE)

(* Any page but Check Your Answers: updatePageLoadHistory and then         *)
(* getMergedQuestionsAndAnswers, which only reads.                         *)
HistoryRead(t) ==
    /\ ReadStep(t, "historyRead")
    /\ IF working = NoCache THEN Fail(t)
       ELSE Continue(t, "historyWrite", [loc[t] EXCEPT !.working = working])

UpdatePageLoadHistory(t) ==
    LET j == loc[t].working IN
    /\ AtStep(t, "historyWrite")
    /\ SetWorking([j EXCEPT !.history = LoadPage(j.history, req[t].page)])
    /\ Continue(t, "mergeRead", NoLocals)

RenderQuestions(t) ==
    /\ ReadStep(t, "mergeRead")
    /\ IF working = NoCache THEN Fail(t)
       ELSE Show(t, [page |-> req[t].page, submitted |-> FALSE, links |-> {}])

(* Mutant of CheckRead: all cached answers, on the journey or not. *)
CheckAllAnswers(t) ==
    /\ ReadStep(t, "checkRead")
    /\ Continue(t, "checkValidate",
        [loc[t] EXCEPT !.answers = IF working = NoCache THEN NoSheet
                                   ELSE working.answers])

(* Check Your Answers: validate the answers of the working journey, or     *)
(* else those of the backup.                                               *)
CheckRead(t) ==
    /\ ReadStep(t, "checkRead")
    /\ Continue(t, "checkValidate",
        [loc[t] EXCEPT !.answers = IF working = NoCache THEN NoSheet
                                   ELSE AnsweredQuestions(working)])

(* Mutant of ValidateWorking: a failed call counts as valid. *)
ValidateUnlessInvalid(t) ==
    \/ /\ ReadStep(t, "checkValidate")
       /\ IF loc[t].answers \in Complete
          THEN Continue(t, "dropBackup", loc[t])
          ELSE Continue(t, "checkBackupRead", NoLocals)
    \/ FailedCall(t, "checkValidate") /\ Continue(t, "dropBackup", loc[t])

ValidateWorking(t) ==
    \/ /\ ReadStep(t, "checkValidate")
       /\ IF loc[t].answers \in Complete
          THEN Continue(t, "dropBackup", loc[t])
          ELSE Continue(t, "checkBackupRead", NoLocals)
    \/ FailedCall(t, "checkValidate") /\ Continue(t, "checkBackupRead", NoLocals)

CheckBackupRead(t) ==
    /\ ReadStep(t, "checkBackupRead")
    /\ IF backup = NoCache
       THEN Continue(t, "dropBackup", NoLocals)
       ELSE Continue(t, "checkBackupValidate",
                     [loc[t] EXCEPT !.answers = AnsweredQuestions(backup)])

ValidateBackup(t) ==
    \/ /\ ReadStep(t, "checkBackupValidate")
       /\ IF loc[t].answers \in Complete
          THEN Continue(t, "restoreRead", loc[t])
          ELSE Continue(t, "dropBackup", NoLocals)
    \/ FailedCall(t, "checkBackupValidate") /\ Continue(t, "dropBackup", NoLocals)

(* resetWorkingCacheToBackupCache reads the backup once more. *)
RestoreRead(t) ==
    /\ ReadStep(t, "restoreRead")
    /\ IF backup = NoCache THEN Fail(t)
       ELSE Continue(t, "restoreWrite", [loc[t] EXCEPT !.backup = backup])

ResetWorkingCacheToBackupCache(t) ==
    /\ AtStep(t, "restoreWrite")
    /\ SetWorking(WithoutEdit(loc[t].backup))
    /\ Continue(t, "dropBackup", [loc[t] EXCEPT !.backup = NoCache])

(* Mutant of DropBackup: the backup stays. *)
KeepBackup(t) ==
    /\ ReadStep(t, "dropBackup")
    /\ Continue(t, "updateRead", loc[t])

(* updateCachesOnCheckYourAnswers; loc[t].answers is NoSheet when neither  *)
(* the working nor the backup answers were found valid.                    *)
DropBackup(t) ==
    /\ AtStep(t, "dropBackup")
    /\ SetBackup(NoCache)
    /\ Continue(t, "updateRead", loc[t])

UpdateRead(t) ==
    /\ ReadStep(t, "updateRead")
    /\ IF working = NoCache THEN Fail(t)
       ELSE Continue(t, "updateWrite", [loc[t] EXCEPT !.working = working])

(* Mutant of UpdateCachesOnCheckYourAnswers: the answers stay as cached. *)
UpdateHistoryOnly(t) ==
    LET j == loc[t].working
        merged == loc[t].answers
    IN
    /\ AtStep(t, "updateWrite")
    /\ SetWorking([j EXCEPT
            !.history = IF Loaded(@, CheckAnswers) THEN @ ELSE Append(@, CheckAnswers)])
    /\ IF merged = NoSheet
       THEN Continue(t, "wipeRead", NoLocals)
       ELSE Show(t, [page |-> CheckAnswers, submitted |-> req[t].submitted,
                     links |-> AnsweredPages(merged)])

UpdateCachesOnCheckYourAnswers(t) ==
    LET j == loc[t].working
        merged == loc[t].answers
    IN
    /\ AtStep(t, "updateWrite")
    /\ SetWorking([j EXCEPT
            !.answers = IF merged = NoSheet THEN @ ELSE merged,
            !.history = IF Loaded(@, CheckAnswers) THEN @ ELSE Append(@, CheckAnswers)])
    /\ IF merged = NoSheet
       THEN Continue(t, "wipeRead", NoLocals)
       ELSE Show(t, [page |-> CheckAnswers, submitted |-> req[t].submitted,
                     links |-> AnsweredPages(merged)])

(* getFirstPageAndResetPageLoadHistory. *)
WipeRead(t) ==
    /\ ReadStep(t, "wipeRead")
    /\ IF working = NoCache THEN Fail(t)
       ELSE Continue(t, "wipeWrite", [loc[t] EXCEPT !.working = working])

ResetPageLoadHistory(t) ==
    LET j == loc[t].working IN
    /\ AtStep(t, "wipeWrite")
    /\ SetWorking([j EXCEPT !.history = << >>])
    /\ IF j.history = << >> THEN Fail(t)
       ELSE RedirectTo(t, Head(j.history), FALSE)

-----------------------------------------------------------------------------
(* startEdit, completeAssessment, and the postView of the report's         *)
(* assessmentCompleteController as far as it touches this pathway.         *)

EditRead(t) ==
    /\ ReadStep(t, "editRead")
    /\ IF working = NoCache THEN Fail(t)
       ELSE Continue(t, "editBackup", [loc[t] EXCEPT !.working = working])

BackUpWorking(t) ==
    /\ AtStep(t, "editBackup")
    /\ SetBackup(WithEdit(loc[t].working, req[t].page))
    /\ Continue(t, "editWorking", loc[t])

StartEdit(t) ==
    LET j == loc[t].working IN
    /\ AtStep(t, "editWorking")
    /\ SetWorking([j EXCEPT !.history = BeforePage(j.history, req[t].page)])
    /\ RedirectTo(t, req[t].page, req[t].submitted)

CompleteRead(t) ==
    /\ ReadStep(t, "completeRead")
    /\ IF working = NoCache THEN Fail(t)
       ELSE Continue(t, "completePost", [loc[t] EXCEPT !.working = working])

(* The POST succeeds, fails, or succeeds with its reply lost. *)
CompleteAssessment(t) ==
    LET j == loc[t].working
        stored == [answers |-> j.answers, version |-> j.version]
    IN
    \/ /\ AtStep(t, "completePost")
       /\ api' = stored
       /\ UNCHANGED <<working, backup, spent>>
       /\ Continue(t, "deleteWorking", NoLocals)
    \/ /\ AtStep(t, "completePost")
       /\ api' \in {api, stored}
       /\ UNCHANGED <<working, backup>>
       /\ Mishap("fault")
       /\ Fail(t)

SubmitAssessment(t) ==
    \/ ReadStep(t, "submitPost") /\ Continue(t, "deleteWorking", NoLocals)
    \/ FailedCall(t, "submitPost") /\ Fail(t)

(* onComplete. *)
DeleteWorking(t) ==
    /\ AtStep(t, "deleteWorking")
    /\ SetWorking(NoCache)
    /\ Continue(t, "deleteBackup", NoLocals)

DeleteBackup(t) ==
    /\ AtStep(t, "deleteBackup")
    /\ SetBackup(NoCache)
    /\ Show(t, Elsewhere)

-----------------------------------------------------------------------------
(* The user.                                                               *)

InFlight(t) == pc[t] \notin {"idle", "redirect"}

MaySend(t) == Concurrent \/ \A u \in Tab : ~InFlight(u)

(* Convergence lengthens the history by that of the backup.  The bound is  *)
(* on what leads to convergence: a new edit, a redirect not followed.      *)
HistoryBound == working # NoCache => Len(working.history) <= MaxHistory

Send(t, label, r) ==
    /\ pc[t] = "idle"
    /\ MaySend(t)
    /\ MaxRequests > 0 => spent.requests < MaxRequests
    /\ pc' = [pc EXCEPT ![t] = label]
    /\ req' = [req EXCEPT ![t] = r]
    /\ spent' = IF MaxRequests = 0 THEN spent ELSE [spent EXCEPT !.requests = @ + 1]
    /\ UNCHANGED <<loc, screen>>
    /\ NoWrite

Shows(t, pages) == screen[t] # Elsewhere /\ screen[t].page \in pages

(* The task list's link to the pathway. *)
OpenPathway(t) ==
    /\ screen[t] = Elsewhere
    /\ Send(t, "version", Ask("first", CheckAnswers, EmptySheet, FALSE))

(* Back, forward, reload or a bookmark: pages are served with nocache, so  *)
(* the browser asks for them again.                                        *)
Revisit(t) ==
    \E p \in PageId, submitted \in BOOLEAN :
        /\ submitted => p = CheckAnswers
        /\ Send(t, "viewOpen", Ask("view", p, EmptySheet, submitted))

ContinueForm(t) ==
    /\ Shows(t, Page)
    /\ \E body \in Bodies(screen[t].page) :
          Send(t, "saveOpen", Ask("save", screen[t].page, body, FALSE))

(* The Change links of checkAnswers.njk and, once there is a report, of    *)
(* the pathway page (assessmentInformation.njk).                           *)
Change(t) ==
    /\ Shows(t, {CheckAnswers})
    /\ HistoryBound
    /\ \E p \in screen[t].links :
          Send(t, IF screen[t].submitted THEN "version" ELSE "editRead",
               Ask("edit", p, EmptySheet, screen[t].submitted))

ChangeFromProfile(t) ==
    /\ ProfileEdits
    /\ HistoryBound
    /\ screen[t] = Elsewhere
    /\ api # NoCache
    /\ \E p \in AnsweredPages(api.answers) :
          Send(t, "version", Ask("edit", p, EmptySheet, TRUE))

Confirm(t) ==
    /\ Shows(t, {CheckAnswers})
    /\ Send(t, "completeRead", Ask("complete", CheckAnswers, EmptySheet, FALSE))

SubmitReport(t) ==
    /\ screen[t] = Elsewhere
    /\ api # NoCache
    /\ Send(t, "submitPost", Ask("submit", CheckAnswers, EmptySheet, FALSE))

(* Follow a link to a page that is not one of the wizard. *)
Leave(t) ==
    /\ pc[t] = "idle"
    /\ screen' = [screen EXCEPT ![t] = Elsewhere]
    /\ UNCHANGED <<working, backup, api, pc, req, loc, spent>>

(* A click on the page of tab t while its request is under way: the        *)
(* handler goes on, and what is clicked is asked for as from tab u.        *)
ClickAgain(t, u) ==
    /\ InFlight(t) /\ screen[t] # Elsewhere
    /\ pc[u] = "idle" /\ screen[u] = Elsewhere
    /\ screen' = [screen EXCEPT ![u] = screen[t]]
    /\ UNCHANGED <<working, backup, api, pc, req, loc, spent>>

FollowRedirect(t) ==
    /\ pc[t] = "redirect"
    /\ MaySend(t)
    /\ pc' = [pc EXCEPT ![t] = "viewOpen"]
    /\ UNCHANGED <<working, backup, api, screen, req, loc, spent>>

(* Stop, or a second click on the page still shown. *)
AbandonRedirect(t) ==
    /\ pc[t] = "redirect"
    /\ HistoryBound
    /\ Show(t, screen[t])
    /\ NoWrite /\ UNCHANGED spent

-----------------------------------------------------------------------------
(* The rest of the environment.                                            *)

(* Every write of the working key renews its five days after the backup    *)
(* was last written, so the backup goes first unless a handler was killed  *)
(* between the two writes of startEdit or the two deletes of onComplete.   *)
(* The session has expired long before: the user signs in again in a tab.  *)
ExpireWorking ==
    /\ Mishap("expiry")
    /\ working # NoCache
    /\ backup = NoCache \/ spent.crashed
    /\ \A u \in Tab : pc[u] = "idle"
    /\ working' = NoCache
    /\ \E t \in Tab : screen' = [screen EXCEPT ![t] = Elsewhere]
    /\ UNCHANGED <<backup, api, pc, req, loc>>

ExpireBackup ==
    /\ Mishap("expiry")
    /\ backup # NoCache
    /\ backup' = NoCache
    /\ UNCHANGED <<working, api, screen, pc, req, loc>>

(* The pod that serves tab t is replaced half way through a handler. *)
Crash(t) ==
    /\ InFlight(t)
    /\ Mishap("crash")
    /\ Fail(t)
    /\ NoWrite

-----------------------------------------------------------------------------
GetFirstPage(t) ==
    \/ GetLatestAssessmentVersion(t) \/ GetCheckAnswersPage(t)
    \/ InitialiseCacheRead(t) \/ InitialiseCache(t) \/ FetchFirstPage(t)

SaveAnswerAndGetNextPage(t) ==
    \/ OpenSavedPage(t) \/ AnswerRead(t) \/ SaveAnswers(t) \/ FetchNextPage(t)

GetView(t) ==
    \/ OpenPage(t) \/ ConvergeRead(t) \/ CheckForConvergence(t) \/ Converge(t)
    \/ HistoryRead(t) \/ UpdatePageLoadHistory(t) \/ RenderQuestions(t)

CheckYourAnswers(t) ==
    \/ CheckRead(t) \/ ValidateWorking(t) \/ CheckBackupRead(t) \/ ValidateBackup(t)
    \/ RestoreRead(t) \/ ResetWorkingCacheToBackupCache(t)
    \/ DropBackup(t) \/ UpdateRead(t) \/ UpdateCachesOnCheckYourAnswers(t)
    \/ WipeRead(t) \/ ResetPageLoadHistory(t)

EditAndComplete(t) ==
    \/ EditRead(t) \/ BackUpWorking(t) \/ StartEdit(t)
    \/ CompleteRead(t) \/ CompleteAssessment(t) \/ SubmitAssessment(t)
    \/ DeleteWorking(t) \/ DeleteBackup(t)

Handle(t) ==
    \/ GetFirstPage(t) \/ SaveAnswerAndGetNextPage(t)
    \/ GetView(t) \/ CheckYourAnswers(t) \/ EditAndComplete(t)

Use(t) ==
    \/ OpenPathway(t) \/ Revisit(t) \/ ContinueForm(t)
    \/ Change(t) \/ ChangeFromProfile(t) \/ Confirm(t) \/ SubmitReport(t)
    \/ Leave(t) \/ \E u \in Tab : ClickAgain(t, u)

Redirected(t) == FollowRedirect(t) \/ AbandonRedirect(t)

Environment == ExpireWorking \/ ExpireBackup

Next ==
    \/ \E t \in Tab : Handle(t) \/ Use(t) \/ Redirected(t) \/ Crash(t)
    \/ Environment

Spec == Init /\ [][Next]_vars

(* Node runs every handler to its end, and a browser either follows a      *)
(* redirect or drops it.                                                   *)
Fairness == \A t \in Tab : WF_vars(Handle(t) \/ Redirected(t))
FairSpec == Spec /\ Fairness
-----------------------------------------------------------------------------
(* Properties.                                                             *)

(* A nested answer is never kept in either cache, nor completed, without   *)
(* the option of its parent question that asks it, however the reads and   *)
(* writes of two tabs interleave ("Delete any other nested question under  *)
(* the same parent question", assessmentStateService.answer).              *)
NestedAnswersConsistent ==
    /\ working # NoCache => Consistent(working.answers)
    /\ backup # NoCache => Consistent(backup.answers)
    /\ api # NoCache => Consistent(api.answers)

(* getView renders Check Your Answers only over a cache that holds, at     *)
(* that moment, exactly a set of answers the API has found valid.          *)
CheckAnswersShowsValidated ==
    [][\A t \in Tab :
          pc[t] = "updateWrite" /\ pc'[t] = "idle" /\ screen'[t] # Elsewhere
            => working'.answers \in Complete]_vars

(* With one tab, what Confirm posts is a set of answers that the API has   *)
(* validated, whatever the user does with the back button, redirects that  *)
(* are not followed, failed API calls, expired keys and killed handlers.   *)
CompletedAssessmentIsValid == api # NoCache => api.answers \in Complete

(* With one tab, and no handler killed between the writes of startEdit or  *)
(* the deletes of onComplete, the version of a cached assessment never     *)
(* drifts: not by an edit, by a restored backup or by a new configuration. *)
VersionPinned ==
    [][~spent.crashed /\ working # NoCache /\ working' # NoCache
         => working'.version = working.version]_vars

(* One tab's requests take effect one at a time, each on the answers that  *)
(* the one before has left, or not at all: a post changes its own page, an *)
(* edit given up brings back what it was started from, only complete       *)
(* answers are completed, and none are lost before.  A handler about to    *)
(* restore a backup has it, even if the key expires meanwhile.             *)
AnswersOf(record) == IF record = NoCache THEN NoSheet ELSE record.answers
EditedFrom ==
    LET restoring == { t \in Tab : pc[t] = "restoreWrite" } IN
    IF restoring = {} THEN AnswersOf(backup)
    ELSE loc[CHOOSE t \in restoring : TRUE].backup.answers
Promised == INSTANCE ReportForm WITH
    answers <- AnswersOf(working), kept <- EditedFrom, stored <- AnswersOf(api),
    MayExpire <- "expiry" \in Mishaps
ActsOnCurrentReport == Promised!Spec

(* When no edit is in progress, the task list's link into a pathway and a  *)
(* Change link end on a page of the wizard or on an error page, whatever   *)
(* earlier requests, finished or given up, have left in the cache.         *)
PathwayOpens ==
    \A t \in Tab : (pc[t] = "version" /\ backup = NoCache) ~> pc[t] = "idle"

(* The redirects after any request come to an end, unless they are the one *)
(* loop the code has: Check Your Answers redirecting to itself.            *)
OnlyCheckAnswersLoops ==
    \A t \in Tab : []<>(pc[t] = "idle")
                   \/ <>[](req[t].op = "view" /\ req[t].page = CheckAnswers)

(* Every redirect chain comes to an end.                                   *)
RedirectsTerminate == \A t \in Tab : pc[t] = "redirect" ~> pc[t] = "idle"

(* An edit that is abandoned can be undone: when Check Your Answers finds  *)
(* the working answers invalid and there is a backup, the backup is valid. *)
AbandonedEditIsRestored ==
    [][\A t \in Tab :
          pc[t] = "checkBackupValidate" /\ spent' = spent
            => pc'[t] # "dropBackup"]_vars

(* The journey of answers that the API would accept is never thrown away   *)
(* on Check Your Answers ("Validate the answers with the backend and error *)
(* if required").                                                          *)
ValidJourneyIsKept ==
    [][\A t \in Tab : pc[t] = "wipeWrite" /\ pc'[t] \in {"idle", "redirect"}
          => \/ working' = working
             \/ AnsweredQuestions(working) \notin Complete]_vars

(* An edit converges only onto a page of the journey that is edited.       *)
ConvergesOntoEditedJourney ==
    [][\A t \in Tab : pc[t] = "convergeDecide" /\ pc'[t] = "convergeWrite"
          => Loaded(backup.history, req[t].page)]_vars
=============================================================================
