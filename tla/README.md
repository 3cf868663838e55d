# TLA+ models of the resettlement passport UI

`hmpps-resettlement-passport-ui` is an Express application in front of the
resettlement passport API.  It keeps no database of its own: what a member of
staff is in the middle of lives in Redis, in the browser and in the API, and
every handler reads some of it, awaits, and writes some of it back.  The models
here are about those conversations: which orders of requests, reads and writes
are possible, and what they leave behind.

## The system

| Part | State | Operations | Talks to |
|---|---|---|---|
| Assessment wizard (`routes/immediate-needs-report`, `data/assessmentStateService.ts`, `assessmentStore.ts`) | working and backup assessment in Redis, per user, prisoner, pathway and report type | first page, save answers, view a page, Check Your Answers, start an edit, complete | API (pages, next page, validate, complete), browser |
| Report submission (`routes/assessment-complete`) | deletes the wizard's keys of every pathway | submit, confirmation page | API, analytics |
| Task list, skip form (`assessment-task-list`, `assessment-skip`) | none | which report is offered, links into the wizard, skip | API |
| Support needs form (`routes/support-needs`, `supportNeedStateService.ts`, `supportNeedStore.ts`) | one Redis key per user, prisoner and pathway; flash messages in the session | start, needs page, status page, remove, Check your answers, finalise | API, browser |
| Support need update (`support-need-update`), status update, reset profile | flash messages in the session | one form each, sent back with its errors or saved by one call | API, session |
| Finance and ID (`finance-id*`), appointments (`add-appointment`) | none: answers travel in query strings and hidden inputs | add, change, resubmit, delete an application; record an appointment | API, browser |
| Assign a case (`assign-case`), staff capacity | flash messages in the session | allocate, unassign, search | API, session |
| Documents (`routes/documents`), print, licence images | none | upload, download, render | API, document store, Gotenberg |
| Feature flags, remote configuration (`featureFlag.ts`, `s3Config.ts`) | a cache of 120 s and a map per pod | read, fill the map for every request | S3 |
| Session and sign-in (`app.ts`, `middleware`, `authentication`) | session record in Redis, one cookie for all tabs | load, sign in, verify, caseload, guard, save, sign out | HMPPS Auth, manage-users, Redis |
| API clients (`restClient.ts`, `rpService.ts`) | connection pools | calls with timeouts, retries, error mapping | API |
| Redis client | a connection | reconnect with back-off | Redis |
| Lists with pages (`utils.ts`) | none | links to other pages, items shown | - |
| Dashboards, pathway pages, banners, analytics | none | read-only pages | API |

### What is hard about it

* **Interleaving.** Every user of a browser has tabs.  The handlers of two tabs
  share keys, and each of them reads a whole record, awaits, and writes it back.
  There are no locks and no compare-and-set.
* **Stale views.** A page shown earlier can still be posted: an older page of
  the wizard, a form of an earlier start, a link of a Check Your Answers page.
  Pages are served `no-cache`, so Back always asks the server again.
* **Partial failure.** API calls fail, or succeed with the reply lost; a pod is
  replaced in the middle of a handler; keys expire.  `rpService` turns some
  failures into values that the controllers read as something else.
* **History that is a stack and a set.** `pageLoadHistory` is cut, appended to
  and searched with `indexOf` and `slice`, whose `-1` has a meaning of its own.
* **Redirect chains.** A handler's answer is often a redirect to another
  handler, which may redirect again, and signing in is a chain over two servers.
* **A session that is saved whole.** Every request loads the session record,
  changes its copy, and saves all of it when it answers: what another tab has
  read from the flash meanwhile comes back, and what it has added is gone.
* **Answers that live in the browser.** The finance, ID and appointment forms
  carry everything from page to page, errors and Change links included; what a
  page leaves out or takes along too much is what the API gets.
* **Caches.** Flags are cached per pod, and read from a map that the latest
  request of any user filled.

### What makes each part correct

* Wizard: what is confirmed is what the API validated; nested answers never
  outlive their parent's option; an abandoned edit restores the answers it
  started from; a valid journey is never thrown away; the version of the form
  does not change under a journey; every pathway can be opened; redirects end.
* Support needs form: a section never has its "No support needs identified"
  option together with a need; no section loses its answer; `Other` has its
  text; the pages lead through every status before Confirm; Confirm posts a form once,
  unless something fails or requests overlap.
* Answer validation: what a page posts, hidden inputs included, becomes answers
  of which none is nested under an option that is not selected.
* Report submission: the caches are gone afterwards, whatever the wizard of
  another tab is in the middle of.
* Requests: every request ends on a page; whoever has to sign in comes back to
  the page asked for; once the flags say read-only, changes come to an end.
* Assign a case: a banner names nobody whose allocation was not changed, and,
  undisturbed, it tells of the latest change and of all of it.
* Forms with flash: undisturbed, a form shows its own errors and values only.
* Finance and ID, appointments: what is stored was asked for and sent complete, a
  bank's answer with its status;
  nothing of another kind of ID is sent along; a Confirm makes one application
  at most; there is one application of a kind; an outcome is not replaced.
* Task list and skip form: a report that was started is not skipped.
* Documents: an upload that was pressed once is stored once at most.
* Clients: nothing that changes something is tried again.
* Pagination: links lead to pages there are, and every item is on one page.

## Modules

| Module | What it is |
|---|---|
| `ReportAnswers` | a page's form and the body it posts, the questions that count as asked, validation, and the answers made of them (`validateAssessmentResponse`, `processReportRequestBody`, `formatAssessmentResponse`) |
| `AssessmentState` | the data of a cached assessment and the pure operations of `assessmentStateService.ts` and `utils.ts` on it |
| `AssessmentWizard` | the controller, service, Redis, API and browser as one state machine; extends the two above |
| `ReportForm` | abstract: what the wizard promises to a user with one tab: answers that each button changes at once or not at all |
| `MCAssessmentWizard` | a small form for TLC: a branch, a nested question, a page that may be posted blank |
| `AssessmentStateProofs`, `AssessmentWizardProofs` | lemmas and theorems about them: for any tabs, and for one tab, with the refinement of `ReportForm` |
| `SupportNeeds` | the support needs form: controller, Redis, API, browser |
| `NeedsForm` | abstract: what the form promises to a user with one tab, each request done at once or not at all |
| `MCSupportNeeds` | a list of needs for TLC: a section with the exclusive option and an `Other`, and one without |
| `SupportNeedsProofs`, `SupportNeedsOneTabProofs` | theorems for any tabs, and for one tab: the refinement of `NeedsForm` |
| `RemoteFlags` | the flags: S3, the cache, the map |
| `WebRequest` | what every request goes through: session, middleware, flags, guard, answer, save; browser, cookie; extends `RemoteFlags` |
| `SignInOut` | the authorisation and authentication middleware, CSRF, sign-in, callback, sign-out; extends `WebRequest` |
| `AssignCase` | the list of people and the post that allocates them; extends `WebRequest` |
| `FlashForms` | support need update, reset profile, status update; extends `WebRequest` |
| `Portal` | the composition of the five |
| `MCPortal` | instances for TLC |
| `PortalProofs`, `PortalCalmProofs` | theorems for any tabs and sessions, and for an undisturbed user or one tab |
| `Applications` | the API's applications, appointments, documents and reports, the calls that change them, the browser and what a page carries |
| `BankAccount`, `AddId`, `AddAppointment` | the controllers of the forms, over `Applications` |
| `SkipReport`, `Documents` | the task list with the skip form, and the upload, over `Applications` |
| `FinanceId` | the page with the applications, and the composition of the five |
| `MCFinanceId`, `FinanceIdProofs` | instances for TLC; theorems |
| `Pagination`, `PaginationProofs` | `getPaginationPages` as operators; theorems about lists of every length |

### How state and actions correspond to the code

**Handlers.** A request of tab `t` is a program counter `pc[t]`, its parameters
`req[t]` and its local variables `loc[t]`.  Each step ends at an `await` of
Redis or of an API call that matters, and a write puts the copy in `loc[t]` back
whole, as the services do.  `Continue`, `Show`, `RedirectTo` and `Fail`/`Exit`
are the four ways a step ends: the next await, `res.render`, `res.redirect`,
`next(err)`.  The steps of one controller method are grouped under its name
(`GetFirstPage`, `SaveAnswerAndGetNextPage`, `GetView`, ...).  A redirect is a
state of its own: the browser follows it (`FollowRedirect`) or does not
(`AbandonRedirect`), and meanwhile still shows, and can post, its old page.

**Wizard data.** A `questionsAndAnswers` list holds each question once, so it is
a function from questions to answers, a *sheet*; an answer knows its page,
because the form fixes it.  The API's list for Check Your Answers nests entries
one level deep and is modelled flat, as `convertQuestionsAndAnswersToCacheFormat`
and `getPagesFromCheckYourAnswers` flatten it.  The form (pages, nested
questions, branches, what is complete) belongs to the API and is a parameter.
`ListedPages` is the order in which the API lists the pages of a saved sheet.

**Support needs data.** Every page and post names needs by a uuid that
`startForm` draws anew; what matters of it is which start it is from and which
need it names, so it is a form number with a position in the list.  Statuses,
responsible staff and texts are only ever looked at for being there
(`detailed`, `described`).

**What a page posts.** A body holds a value for every input of the form, also for
inputs nested under options that are not selected, as the browser sends them.
`FlattenedQuestionsOnPage` walks from the questions of the page to those nested
under the selected options, `ValidateAssessmentResponse` looks at these only, and
`FormatAssessmentResponse` keeps these only.

**Requests and sessions.** A request of `Portal` goes through `load`, the
middleware, the guard, its controller and `save`.  `own[t]`, `copy[t]` are its
`req.session`: the keys the sign-in uses and the flash.  `LoadSession` copies the
record that the cookie names, `SaveSession` writes it back whole, if it differs
from what was loaded or the minute has changed.  A session id is a number, the
least that nothing names is the next one drawn; csrf-sync keeps one token to a
session, so `issued[t]`, the session a page was made in, stands for the token
in its form.  The state that HMPPS Auth repeats is the tab that started the
sign-in.  `store`, `featureFlags` and `cached` are what tabs share.

**Undisturbed.** `calm` (of `Portal`) is the latest allocation as long as nothing
has failed, no two requests have overlapped and no redirect was dropped, and
`Disturbed` for ever after; in `FinanceId` it is whether no call has failed and
no older page was used.  Properties of what the pages tell or offer hold
under it, and TLC finds that they need it.

**Finance, ID and appointments.** `screen` is the page shown: its view, what it
was rendered with (`params`: `req.query`, or `req.body` after a failed call) and
its links.  A form overwrites the fields it shows and keeps the hidden ones;
`FormOf`, `BankForm`, `IdForm` say which are which.  `past` is an earlier page, used by
Back or from another tab.  A call succeeds, is refused, or fails before, after
or ahead of its effect (`late`).  `SkipReport` and `Documents` have the same shape:
a page, a post that makes one call, and a redirect.  There a report has been
started or not (`Started`): what fills it in is the wizard's.

**Environment.** `Mishap` bounds what goes wrong: an API call fails (a POST may
or may not have had its effect), a key expires, a pod is replaced half way
through a handler.  `spent` counts what a bound limits.  In `SupportNeeds` it
also remembers whether the user has left the links of the pages (`strayed`).

### Abstractions

* A page of the form read from the API, the next page, and the read of the
  cached version before them share a step with their neighbour: they read
  state that no other step writes, or nothing but whether the key is there.
* In the two wizards `loadPrisonerDetails`, `readOnlyGuard`,
  `validatePathwayAndFeatureFlag` and the sign-in come before every handler and
  change none of this state; they are modelled in `WebRequest` and `SignInOut`.
* Redis itself does not fail.  A connection error would end a handler in
  `next(err)`, as a `Crash` between the same two steps does.
* Every version of the form has the same pages.  The version deployed when a
  request arrives is any of `Version`.
* The id of an option nested under a question is not also the id of an option
  of a sibling (`FormAssumption`).
* A working key expires only when no tab is in a handler, and, unless a handler
  was killed between its writes, after the backup: each write of the working key
  renews five days of life, and comes after the backup's write.  The session is
  long gone then, so the user signs in again in a tab.
* The browser honours `data-behaviour="exclusive"`, and the list of needs the API
  offers is the same at every start.
* Check your answers of the support needs form hides the needs of a section
  whose option is selected; `NoNeedsIsExclusive` says there are none, so the
  links shown are those of all selected needs.
* **Overlapping requests of one browser tab.** A tab of the wizards and of `Portal` has
  one request at a time.  What is clicked on a page whose request is still under way,
  a second Confirm say, is a request of another tab that shows the same page
  (`ClickAgain` in the wizards; in `Portal` any tab may open any page).  So what is
  said of one tab (`LinksLeadThroughStatuses`, `ActsOnCurrentForm`,
  `ActsOnCurrentReport`, `CompletedAssessmentIsValid`, `VersionPinned`,
  `ValidJourneyIsKept`, `ReturnsWhereAsked`, `RequestsEnd`) is of requests that do not
  overlap, and what is said of any tabs is of double clicks too.
  `data-prevent-double-click` holds a second click off for about a second; Continue of the wizard
  (`immediate-needs-report.njk:126`), its Confirm (`checkAnswers.njk:214`) and most
  other buttons that save have it, the Confirm of the support needs form
  (`support-needs-check-answers.njk:81`) does not: pressed twice before the first is
  answered it posts the needs twice, which is why `ConfirmedOnce` excepts requests
  that overlap (`spent.overlapped`).
* In the support needs form the flash, the text of errors, and preselection are
  left out: they decide what a form shows, not what it may post.  The flash
  itself is in `WebRequest` and `FlashForms`.
* An answer's text is its length and whether the pattern lets it pass; options of
  checkboxes render no nested questions, so only radios have some.
* The user's role and caseload are ones that may use the service; whether the
  calls for them succeed is not given.
* One pod: flags of another pod are another copy of `RemoteFlags`, which a
  request never looks at.  The session's expiry is an event that comes when no
  request is under way, as every request renews it.
* Of the keys of the flash only the first value is used where the page uses the
  first, and repeated people or errors are a set.
* Applications: a date is given or not, and real if given; an amount is one or
  not given; whether the API refuses a form that is not complete is open
  (`Doubtful`).  Appointments have no notes, no address, and no past.
* The scripts of the pages run.  The Submit of `add-bank-account-update-status.njk`
  is in a part that is hidden until a status is chosen (`finance-id-update-status.js`),
  so `SubmitBankForm` sends that form with a status, which `validateUpdate` does not
  look at.  `BankComplete` asks for it.

## Runs

All runs are on the code as it is; a run that expects a violation shows a
disagreement between the code and what the repository says of it.

| Run | Bounds | Shows |
|---|---|---|
| `one_tab` | 1 tab, 1 version, histories up to 3 before an edit, one mishap of any kind, no bound on requests | `TypeOK`, `NestedAnswersConsistent`, `CompletedAssessmentIsValid`, `CheckAnswersShowsValidated`, `ActsOnCurrentReport` (refinement of `ReportForm`) |
| `two_tabs` | 2 tabs (symmetric), 3 requests from Check Your Answers or a completed pathway, one handler killed | `NestedAnswersConsistent`, `CheckAnswersShowsValidated` |
| `redirects` | 1 tab, 2 versions, no mishaps, no bound on requests, fairness | `PathwayOpens`, `OnlyCheckAnswersLoops`, `ValidJourneyIsKept`, `VersionPinned` |
| `redirect_loop` | as `redirects` | violates `RedirectsTerminate` |
| `repeated_change` | 1 tab, no mishaps | violates `AbandonedEditIsRestored` |
| `new_page_converges` | 1 tab, no mishaps | violates `ConvergesOntoEditedJourney` |
| `validation_outage` | 1 tab, one failed call | violates `ValidJourneyIsKept` |
| `support_needs` | 1 tab, 4 needs in 2 sections, 2 starts, one mishap, no bound on requests | `TypeOK`, `LinksLeadThroughStatuses`, `ActsOnCurrentForm` (refinement of `NeedsForm`) |
| `support_needs_tabs` | 2 tabs (symmetric), 3 needs in one section (its option, an `Other`, one more), 2 starts, 5 requests, one mishap | `NoNeedsIsExclusive`, `OtherNeedsAreDescribed`, `SectionsStayAnswered`, `ConfirmedOnce` |
| `stale_form` | 2 tabs, 2 starts | violates `ValidatedSectionsAnswered` |
| `portal` | eight scenarios of up to 2 tabs, 2 people, 4 pages, one mishap, one release of flags, 6 session ids; no bound on requests; fairness | `TypeOK`, `BannerWasEarned`, `CalmBannerIsLatest`, `CalmFormIsOwn`, `ReadOnlyTakesEffect`, `ReturnsWhereAsked`, `RequestsEnd` |
| `finance` | seven scenarios of up to 3 kinds, 2 applications, 2 mishaps; no bound on requests | `TypeOK`, `OneOfEachKind`, `WhatIsStoredWasAskedFor`, `NothingFromAnotherKind`, `CreatedOnce`, `OutcomeIsKept`, `SkippedBeforeStart` |

**Why the bounds are enough.** The form of `MCAssessmentWizard` has what the code
distinguishes: a page whose answer decides whether another is on the journey, a
nested question, a post that is rejected.  An edit can shorten, lengthen or keep
the journey; convergence, restoration of the backup and an invalid assessment all
happen.  `MaxHistory` only guards the actions that start another lengthening of
the history by convergence (`Change`, `ChangeFromProfile`, `AbandonRedirect`), so
a state above it is still explored to its end.  Two requests are enough for any
lost update; the third lets a tab act on what the other left.  In the support
needs form the third request is a removal after two interleaved posts, and the
second start makes uuids stale.

**Scenarios.** `Portal` and `FinanceId` have more kinds of pages than one instance
can hold.  `Scenario` is a set of bounds, one of which a behaviour has: which
tabs, people, pages and files of flags there are and what may fail.  Those of
`MCPortal` put together what shares something: two tabs on the list, forms that
share a key of the flash, flags that change under a form and under the list, a
session that ends with pages of it still shown, two tabs that sign in.  Those of
`MCFinanceId` cover each class of form (account, certificate, adoption, divorce,
licence, letter, deed poll) and the pairs whose answers overlap, appointments,
both reports with the skip, and documents.  `Listed = 1`
makes the banner count the second person, as it does the sixth in the code.  Two
applications are enough for one too many; six session ids are more than any
behaviour of two tabs ever has in use, so none is ever missing.  The theorems of `PortalProofs` and
`FinanceIdProofs` hold for every scenario.

**One mishap.** In the wizards, a run allows one failed call, one expiry or one killed handler, at
any step: that is what one of them alone can break.  `two_tabs` only kills a
handler, the mishap that leaves half of a pair of writes for the other tab to
find.  A second version only multiplies states where nothing depends on it, so
only `redirects` has it.

**Two tabs start half way.** `TwoTabsInit` has two states that one tab reaches
alone: Check Your Answers open in both tabs, and a completed pathway with no
cache.  Starting from nothing would spend all requests on getting there.

**Fairness.** `FairSpec` says that Node runs every handler to its end and that a
browser follows a redirect or drops it: weak fairness of
`Handle(t) \/ Redirected(t)`.  `Portal` says the same of `Serve(t)` and
`Redirected(t)`, and that the 120 seconds of the flags pass: weak fairness of
`ExpireFlags`.  Nothing is assumed of the user.  Deadlock is
checked in every run; a tab can always leave the wizard or open a page, so there is none to
find, and the runs say nothing of the system stopping.

**Abstract specifications.** `ActsOnCurrentForm` is `NeedsForm`'s specification under
the mapping of the cached needs to `form` and of the forms the API has accepted to
`posted`: with one tab every step of the detailed system is one of `Begin`, `Select`,
`GiveStatus`, `Remove`, `Confirm`, `Close` or a stutter, though a request takes several awaits, an API call may fail
at each, and old pages may be posted.

`ActsOnCurrentReport` is `ReportForm`'s specification, with the answers of the working
key for `answers`, those of the backup for `kept` (while a handler is about to restore
a backup it has read, that copy, as the key may expire meanwhile) and the API's for
`stored`.  It says what the user may rely on: a post changes its own page only
(`Post`), giving up an edit brings back exactly what it was started from (`GiveUp`),
answers off the journey are only dropped when the rest is complete and no edit is
left (`Settle`), only complete answers are confirmed (`Confirm`), and answers go only
once something has been completed, or by expiry (`Close`).  `startEdit`, restoring,
Check Your Answers and the pair of deletes are several writes each; between them the
history, which `ReportForm` does not have, is ahead of or behind the answers.

**Two tabs and a sign-in.** `RequestsEnd` and `ReturnsWhereAsked` are of one tab.
Two tabs that sign in at once share the session that holds `state` and
`returnTo`: the second overwrites the first's, whose callback then ends at
`/autherror`, or each sign-in destroys the session that the other was just given.
A user who does it again in one tab gets through.

### What the failing runs found

* `redirect_loop` - An assessment that fails validation with an empty history
  (a user who opens Check Your Answers first, or again after a reset) gets
  `CHECK_ANSWERS` pushed onto its history by `updateCachesOnCheckYourAnswers`,
  which is then "the first page" to redirect to.  `OnlyCheckAnswersLoops` shows
  that this is the only loop there is.
* `repeated_change` - Change is pressed again on the Check Your Answers page still
  shown, before the redirect of the first is followed; the redirects are dropped and
  Check Your Answers is asked for again.  The second `startEdit` writes a backup of the
  half edited journey over the one of the complete journey, and that is restored.
  (It is not the browser's Back, which asks the server for Check Your Answers and so
  ends the first edit.)
* `new_page_converges` - `checkForConvergence` slices the backup's history from
  `indexOf(...)`, which is `-1` for a page that the backup never loaded but
  that has a cached answer from an earlier branch.
* `validation_outage` - `validateAssessment` maps an outage to `{ error }`, and
  `getView` only asks whether `valid` is true.  The answers stay, but the history is
  reset, and the user is redirected to the first page with `redirectAsInvalid=true`
  and told that something went wrong and to reconfirm answers that were valid.
* `stale_form` - The needs page checks category names, the update matches uuids: a
  page of an older start passes the check and deselects everything.

## Proofs

TLAPS proves, for every value of the constants - any form, any set of tabs, any
bound and any number of mishaps:

* `AssessmentWizardProofs`, for any tabs: `TypeCorrect`, `NestedConsistent` (nested
  answers in the working key, the backup key and the API) and `CheckAnswersValidated`
  (an action property), all from `IInvInvariant`; and `PostConsistent`, that whatever a
  body contains the answers made of it are consistent.
* The same module, with one tab: `CompletedIsValid`, `VersionStays`, both from
  `LoneInvariant`; `ValidJourneyStays`, if no call fails; and `ActsOnReport` (the
  refinement of `ReportForm`).
* `SupportNeedsProofs`, for any tabs: `TypeCorrect`, `NoNeedsExclusive`,
  `OtherNeedsDescribed`, all from `NeedsInvariant`; `AnswersStay`
  (`SectionsStayAnswered`) and `PostedOnce` (`ConfirmedOnce`), each from one more.
* `SupportNeedsOneTabProofs`, with one tab: `ActsOnCurrent` (the refinement of
  `NeedsForm`), from `LoneInvariant`, and `StatusesBeforeConfirm` (`LinksLeadThroughStatuses`).
* `PortalProofs`: `TypeCorrect` and `BannerEarned`, from `PortalInvariant`.
* `PortalCalmProofs`: `BannerTellsTheLatest` and `FormShowsItsOwn` of an undisturbed
  user, from `FlashAsMeant`; `SignInLeadsBack` of one tab, from `PagesToReturnTo`.
* `FinanceIdProofs`: `TypeCorrect`, `NothingFromAnother` from `FinanceInvariant`;
  `StoredWasAskedFor`, `OneOfEach`, `OutcomeStays`, `SkipComesFirst` and
  `OneToAConfirm` with two more (`CalmInv`, `Counted`).
* `PaginationProofs`: for every length of list, page size and page, the links lead
  to pages there are, an ellipsis stands exactly where pages are left out, and
  every item is shown on one page and on one only.

**The argument for the wizards.** None of these is inductive by itself, because a
record spends part of its life in a handler's local variables: a write puts back
what was read some steps earlier.  `IInv` therefore says of every copy what the
theorem says of the key: `StoreInv` of the keys and the API, `TabInv` of each tab,
and `LocalsAt(label)` (`CopiesAt`, `RequestsAt` for the support needs) of what a
handler must hold at a step: at a step that writes a journey back it holds one,
between validation and `updateWrite` the answers it holds are complete ones, at
`submitWrite` the request is one that `Valid` accepted.  `CheckAnswersValidated`
follows from `LocalsAt("updateWrite")`: whatever other tabs wrote in between,
the handler overwrites it with what was validated.  The heart of
`NestedConsistent` is `AnsweredConsistent` in `AssessmentStateProofs`: storing a
consistent post over a consistent sheet deletes exactly the nested answers whose
option is gone; and `PostConsistent`: only consistent posts come out of a body.

**A form is posted once** (`SoleInv`).  As long as nothing fails and no requests
overlap there is one handler at a time, whichever tab it is of; from its read of the cache on
it holds what is cached (`SoleAt`), and the cached form has not been posted, but
between the post and the deletion of the key, where no other handler reads it.

**With one tab** nothing happens between a handler's read and its write, so the
copy that it writes back is what is cached (`LoneInv` of both wizards).

In the support needs form that makes each write one action of `NeedsForm` on the form
there is.
`StatusesBeforeConfirm` needs more: `WalkInv` says that a status page of the cached form,
or a request for one, only comes when all selected needs before it in the list have
their status, and Check your answers, or a change made from there, when all have.

In the report wizard `LoneInv` adds where Check Your Answers can be open: over cached
answers that are complete (`Validated`, `Shown`), or between validation and the write
that makes them so.  Whatever the user does with the back button, answers are only
posted while the tab shows the page they are posted from, so never under Check Your Answers.
`SameVersion` says that a backup is of the version of what it is restored over; a
backup without a working assessment is only there between the two deletes, and
after a handler was killed there, which `VersionPinned` excepts.  `Judged` (for
`ValidJourneyStays`) says that once `validate` has said no the cached journey has the
answers it was asked about, for neither dropping the backup nor loading Check Your Answers
changes which questions are on the journey.  That its hypothesis, no failed call, is
needed is what the run `validation_outage` shows.  `ReportInv` (for `ActsOnReport`) follows
the answers that a handler takes from step to step: what `getFirstPage` prefills is what
was completed, and what `updateCachesOnCheckYourAnswers` stores is the answered part of
what is cached then, which after a restoration is the backup.

None of the one-tab theorems is promised for two: a second tab's write between a read
and a write falsifies `Held`, the first conjunct, and TLC finds two-tab behaviours that
complete answers nobody validated.

**The argument for the session.** On its way from the post to the banner a list
of people is copied five times: from the request into its flash, into the record,
from there into other requests, which may save it back much later, and into an
answer.  `IInv` says of every copy that its people have been allocated; as `done`
only grows, no interleaving of loads and saves can break it.

**An undisturbed user, and one tab.** While a request is the only one, its copy of the
session is the record, but for what it has changed and will save (`HeldInv`): so what
one request leaves is what the next finds.  `CalmInv` then follows the flash: it is empty
except from a post to the page that the post redirects to, and holds what that
post meant.  `ReturnInv` follows `returnTo` from the page asked for through the destroyed
session, the state of the sign-in and the callback.

**The argument for the applications.** The server keeps nothing, so the invariant
is about pages.  `SoundPage`: whatever the history, a page with Confirm was
rendered with all that its form asks for, a bank's answer with its status, or is
the blank one, and every link names an application that the API has given an id.
`CalmPage`: undisturbed, a page that leads to a new application is only shown if
there is none of the kind, and never a blank one, one that leads to an
outcome only if there is one that waits for it, and the skip form only if no
report has been started.  `Counted`: applications made and
those still to come from calls that timed out are no more than the Confirms.

**From which assumptions.** `FormAssumption` (nested questions are on their
parent's page, one level deep, under one option), `AnswersAssumption` (the parts
of a page's form), `WizardAssumption`, `SupportNeedsAssumption` (a section has at
most one option that is not updatable), `FlagsAssumption`, `WebAssumption` (values
that stand for nothing are not among the others; finitely many people; session
ids are natural numbers) and `ApplicationsAssumption` (likewise).  TLC evaluates
them in the runs.

**Only model-checked.** Every invariant and action property of the passing runs, and
both refinements, are theorems.  What must happen is not (`PathwayOpens`,
`OnlyCheckAnswersLoops`, `ReadOnlyTakesEffect`, `RequestsEnd`): liveness under fairness is
out of the prover's reach.  `ValidJourneyIsKept` is proved where no call fails, as the
run that checks it has it.

## Not modelled

* **Download of documents, printing, licence images.** Streams are passed through,
  and what an upload leaves on the disk is deleted after it (`UploadDocument` has
  the failure of that).  There is no state two requests could disagree about.
* **Dashboards, pathway pages, staff capacity, case notes, analytics, banners.**
  They read the API and render; every failure is a message on the page.  Of
  their lists `Pagination` has the links between pages; filters and sort orders
  are parameters that the API interprets.
* **A post that nobody answers.** `AssessmentSkipController.submitForm` reads the
  prisoner outside of its `try`, in a handler that nothing wraps.  That it then
  changes nothing is in the model (`PrisonerNotRead`); how long the browser waits is not.
* **Support need history.** A page of a need's updates, read from the API.
* **Order and labels of the checkboxes** (`groupSupportNeedsByCategory`) beyond
  the groups themselves.
* **Remote configuration**: its content (dates, banner texts); that it may not be
  there is a failure of the middleware in `WebRequest`.
* **Redis connections and the token store.** Reconnection is the library's, with a
  delay; a handler meanwhile fails as in any failed call.  The service's own
  token can be fetched again by any request.
* **Front end components, views, assets, deployment, tests, mocks** hold no state
  of the program.  They are more than half of the repository's lines.

## Plan

What is left, in order of what matters most:

1. **What two tabs can rely on in the wizard**, beyond nested answers and validated
   Check Your Answers: which parts of `LoneInv` survive when the other tab only reads.
2. **What the liveness properties rest on**, as safety: that each redirect chain of the
   wizard visits the same page again only on Check Your Answers
   (`OnlyCheckAnswersLoops`), stated as a step property and proved.
3. **The helpers on histories**: that `BeforePage`, `FromPage` and `LoadPage` keep a
   history free of repetitions, or where convergence does not.
