----------------------- MODULE AssessmentWizardProofs ------------------------
(***************************************************************************)
(* For every form, every number of tabs and every interleaving of their    *)
(* requests: the types of the wizard's state, that a nested answer is      *)
(* never kept without the option that asks for it, and that Check Your     *)
(* Answers is only rendered over answers the API has found valid.          *)
(*                                                                         *)
(* The inductive invariant says of every copy of an assessment, in Redis,  *)
(* in the API or in the local variables of a handler, that it is           *)
(* consistent, because any of them may be written back over any other.     *)
(*                                                                         *)
(* With one tab more is true (the second half): the copies are of what is  *)
(* cached, so only validated answers are completed, a version stays, a     *)
(* valid journey is reset only after a failed call, and every step is one  *)
(* of ReportForm or changes nothing of it.                                 *)
(***************************************************************************)
EXTENDS AssessmentWizard, AssessmentStateProofs

ConsistentSheet == { s \in Sheet : Consistent(s) }
ConsistentJourney ==
    [answers: ConsistentSheet, version: Version, history: Seq(PageId)]
ConsistentBackup ==
    [answers: ConsistentSheet, version: Version, history: Seq(PageId),
     startEditPageId: PageId]
ConsistentSaved == [answers: ConsistentSheet, version: Version]
ConsistentLocals ==
    [working: ConsistentJourney \cup {NoCache},
     backup: ConsistentBackup \cup {NoCache},
     answers: ConsistentSheet \cup {NoSheet},
     version: Version]

(* What the local variables of a handler hold when its next step is label: *)
(* the copy that the step is about to write, and answers that were valid.  *)
LocalsAt(label) ==
    { l \in ConsistentLocals :
        /\ label \in {"convergeWrite", "historyWrite", "updateWrite", "wipeWrite",
                      "editBackup", "editWorking", "completePost"}
              => l.working # NoCache
        /\ label = "restoreWrite" => l.backup # NoCache
        /\ label \in {"restoreRead", "restoreWrite"} => l.answers \in Complete
        /\ label \in {"dropBackup", "updateRead", "updateWrite"}
              => l.answers \in Complete \cup {NoSheet} }

StoreInv ==
    /\ working \in ConsistentJourney \cup {NoCache}
    /\ backup \in ConsistentBackup \cup {NoCache}
    /\ api \in ConsistentSaved \cup {NoCache}

TabInv ==
    /\ screen \in [Tab -> Screen \cup {Elsewhere}]
    /\ pc \in [Tab -> Label]
    /\ req \in [Tab -> Request]
    /\ loc \in [Tab -> ConsistentLocals]
    /\ \A t \in Tab : loc[t] \in LocalsAt(pc[t])

IInv == StoreInv /\ TabInv /\ spent \in Spent

-----------------------------------------------------------------------------
(* The values that the handlers start from. *)

LEMMA NoCacheIsNoRecord ==
    /\ NoCache \notin ConsistentJourney
    /\ NoCache \notin ConsistentBackup
    /\ NoCache \notin ConsistentSaved
    /\ NoSheet \notin ConsistentSheet
<1>1. /\ ConsistentJourney \subseteq Journey
      /\ ConsistentBackup \subseteq EditBackup
      /\ ConsistentSaved \subseteq Saved
      /\ ConsistentSheet \subseteq Sheet
  BY DEF ConsistentSheet, ConsistentJourney, ConsistentBackup, ConsistentSaved,
         Journey, EditBackup, Saved
<1> QED BY <1>1, WizardAssumption

LEMMA EmptySheetConsistent == EmptySheet \in ConsistentSheet
BY EmptySheetType DEF ConsistentSheet

(* What the form of a page posts, whatever is left in its fields. *)
LEMMA BodiesType ==
    ASSUME NEW p \in Page, NEW body \in Bodies(p)
    PROVE  body \in Sheet
<1> DEFINE fields == { q \in Question : PageOf[q] = p }
           inputs == UNION { Input[q] : q \in fields }
<1>1. PICK filled \in [fields -> inputs] :
         body = [q \in Question |-> IF q \in fields THEN filled[q] ELSE NoAnswer]
  BY DEF Bodies
<1>2. inputs \subseteq Answer
  BY AnswersAssumption
<1> QED BY <1>1, <1>2 DEF Sheet

(* Whatever a body contains, hidden answers to questions nested under      *)
(* other options included, what processReportRequestBody makes of it is    *)
(* consistent: the post of a page never caches a nested answer without     *)
(* the option that asks for it.                                            *)
THEOREM PostConsistent ==
    ASSUME NEW p \in PageId, NEW body \in Sheet
    PROVE  FormatAssessmentResponse(p, body) \in ConsistentSheet
<1> DEFINE asked == FlattenedQuestionsOnPage(p, body)
           post == FormatAssessmentResponse(p, body)
<1>1. post \in Sheet /\ \A q \in Question : post[q] # NoAnswer => q \in asked
  BY AnswersAssumption DEF FormatAssessmentResponse, Sheet
<1>2. ASSUME NEW q \in Question, NEW a \in Answer, NEW x \in Nested[q][a],
             post[x] # NoAnswer
      PROVE  post[q] = a
  <2>1. x \in Question /\ x \in asked
    BY <1>1, <1>2, FormAssumption
  <2>2. PICK r \in ParentQuestions(p) : body[r] # NoAnswer /\ x \in Nested[r][body[r]]
    BY <2>1, <1>2 DEF FlattenedQuestionsOnPage, ParentQuestions
  <2>3. r \in Question /\ body[r] \in Answer
    BY <2>2 DEF ParentQuestions, Sheet
  <2>4. r = q /\ body[r] = a
    BY <2>2, <2>3, <1>2, FormAssumption
  <2>5. q \in asked
    BY <2>2, <2>4 DEF FlattenedQuestionsOnPage
  <2> QED BY <2>2, <2>4, <2>5 DEF FormatAssessmentResponse
<1> QED BY <1>1, <1>2 DEF ConsistentSheet, Consistent

LEMMA NoLocalsAt ==
    ASSUME NEW label \in Label,
           label \notin {"convergeWrite", "historyWrite", "updateWrite", "wipeWrite",
                         "editBackup", "editWorking", "completePost",
                         "restoreRead", "restoreWrite"}
    PROVE  NoLocals \in LocalsAt(label)
BY WizardAssumption DEF NoLocals, LocalsAt, ConsistentLocals

LEMMA AskType ==
    ASSUME NEW op \in Op, NEW p \in PageId, NEW body \in Sheet,
           NEW submitted \in BOOLEAN
    PROVE  Ask(op, p, body, submitted) \in Request
BY DEF Ask, Request

LEMMA NoRequestType == NoRequest \in Request
BY EmptySheetType, AskType DEF NoRequest, Op, PageId

-----------------------------------------------------------------------------
(* The four ways a step leaves its tab. *)

LEMMA ContinueKeepsTabs ==
    ASSUME TabInv, NEW t \in Tab, NEW label \in Label, NEW l \in LocalsAt(label),
           Continue(t, label, l)
    PROVE  TabInv'
<1>1. l \in ConsistentLocals
  BY DEF LocalsAt
<1>2. /\ pc' = [pc EXCEPT ![t] = label]
      /\ loc' = [loc EXCEPT ![t] = l]
      /\ UNCHANGED <<screen, req>>
  BY DEF Continue
<1>3. \A u \in Tab : loc'[u] \in LocalsAt(pc'[u])
  BY <1>2 DEF TabInv
<1> QED BY <1>1, <1>2, <1>3 DEF TabInv

LEMMA ShowKeepsTabs ==
    ASSUME TabInv, NEW t \in Tab, NEW s \in Screen \cup {Elsewhere}, Show(t, s)
    PROVE  TabInv'
<1>1. /\ pc' = [pc EXCEPT ![t] = "idle"]
      /\ loc' = [loc EXCEPT ![t] = NoLocals]
      /\ req' = [req EXCEPT ![t] = NoRequest]
      /\ screen' = [screen EXCEPT ![t] = s]
  BY DEF Show
<1>2. "idle" \in Label /\ NoLocals \in LocalsAt("idle")
  BY NoLocalsAt DEF Label
<1>3. NoLocals \in ConsistentLocals
  BY <1>2 DEF LocalsAt
<1>4. \A u \in Tab : loc'[u] \in LocalsAt(pc'[u])
  BY <1>1, <1>2 DEF TabInv
<1> QED BY <1>1, <1>2, <1>3, <1>4, NoRequestType DEF TabInv

LEMMA FailKeepsTabs ==
    ASSUME TabInv, NEW t \in Tab, Fail(t)
    PROVE  TabInv'
BY ShowKeepsTabs DEF Fail

LEMMA RedirectKeepsTabs ==
    ASSUME TabInv, NEW t \in Tab, NEW p \in PageId, NEW submitted \in BOOLEAN,
           RedirectTo(t, p, submitted)
    PROVE  TabInv'
<1> DEFINE r == Ask("view", p, EmptySheet, submitted)
<1>1. /\ pc' = [pc EXCEPT ![t] = "redirect"]
      /\ loc' = [loc EXCEPT ![t] = NoLocals]
      /\ req' = [req EXCEPT ![t] = r]
      /\ screen' = screen
  BY DEF RedirectTo
<1>2. "redirect" \in Label /\ NoLocals \in LocalsAt("redirect")
  BY NoLocalsAt DEF Label
<1>3. NoLocals \in ConsistentLocals
  BY <1>2 DEF LocalsAt
<1>4. r \in Request
  BY EmptySheetType, AskType DEF Op
<1>5. \A u \in Tab : loc'[u] \in LocalsAt(pc'[u])
  BY <1>1, <1>2 DEF TabInv
<1> HIDE DEF r
<1> QED BY <1>1, <1>2, <1>3, <1>4, <1>5 DEF TabInv

LEMMA MishapType ==
    ASSUME spent \in Spent, NEW kind, Mishap(kind)
    PROVE  spent' \in Spent
<1>1. /\ spent.mishaps \in 0..MaxMishaps /\ spent.mishaps < MaxMishaps
      /\ spent.crashed \in BOOLEAN /\ spent.requests \in 0..MaxRequests
      /\ MaxMishaps \in Nat
  BY WizardAssumption DEF Spent, Mishap
<1>2. spent.mishaps + 1 \in 0..MaxMishaps
  BY <1>1
<1>3. (spent.crashed \/ kind = "crash") \in BOOLEAN
  OBVIOUS
<1>4. spent' = [spent EXCEPT !.mishaps = @ + 1, !.crashed = @ \/ kind = "crash"]
  BY DEF Mishap
<1> QED BY <1>1, <1>2, <1>3, <1>4 DEF Spent

-----------------------------------------------------------------------------
(* What the kinds of steps do to the stores. *)

LEMMA ReadStepKeepsStores ==
    ASSUME IInv, NEW t \in Tab, NEW label,
           ReadStep(t, label) \/ FailedCall(t, label)
    PROVE  StoreInv' /\ spent' \in Spent /\ pc[t] = label
<1>1. StoreInv' /\ pc[t] = label
  BY DEF IInv, StoreInv, ReadStep, FailedCall, AtStep, NoWrite
<1>2. spent' \in Spent
  BY MishapType DEF IInv, ReadStep, FailedCall
<1> QED BY <1>1, <1>2

LEMMA SetWorkingKeepsStores ==
    ASSUME IInv, NEW j \in ConsistentJourney \cup {NoCache}, SetWorking(j)
    PROVE  StoreInv' /\ spent' \in Spent
BY DEF IInv, StoreInv, SetWorking

LEMMA SetBackupKeepsStores ==
    ASSUME IInv, NEW b \in ConsistentBackup \cup {NoCache}, SetBackup(b)
    PROVE  StoreInv' /\ spent' \in Spent
BY DEF IInv, StoreInv, SetBackup

LEMMA AtTab ==
    ASSUME IInv, NEW t \in Tab
    PROVE  /\ loc[t] \in ConsistentLocals /\ loc[t] \in LocalsAt(pc[t])
           /\ req[t] \in Request
           /\ screen[t] \in Screen \cup {Elsewhere}
           /\ pc[t] \in Label
BY DEF IInv, TabInv

-----------------------------------------------------------------------------
(* The handlers, one step per action. *)

LEMMA InitialisedKeepsTabs ==
    ASSUME IInv, NEW t \in Tab, NEW j \in ConsistentJourney, Initialised(t, j)
    PROVE  TabInv'
<1>1. NoLocals \in LocalsAt("editRead") /\ NoLocals \in LocalsAt("firstNext")
  BY NoLocalsAt DEF Label
<1>2. CASE Continue(t, "editRead", NoLocals)
  BY <1>1, <1>2, ContinueKeepsTabs DEF IInv, Label
<1>3. CASE Continue(t, "firstNext", NoLocals)
  BY <1>1, <1>3, ContinueKeepsTabs DEF IInv, Label
<1>4. ASSUME j.history # << >>,
             LET last == j.history[Len(j.history)] IN
                RedirectTo(t, last, last = CheckAnswers)
      PROVE  TabInv'
  <2> DEFINE last == j.history[Len(j.history)]
  <2>1. j.history \in Seq(PageId)
    BY DEF ConsistentJourney
  <2>2. Len(j.history) \in 1..Len(j.history)
    BY <1>4, <2>1, EmptySeq
  <2>3. last \in PageId /\ (last = CheckAnswers) \in BOOLEAN
    BY <2>1, <2>2, ElementOfSeq
  <2>4. RedirectTo(t, last, last = CheckAnswers)
    BY <1>4
  <2> HIDE DEF last
  <2> QED BY <2>3, <2>4, RedirectKeepsTabs DEF IInv
<1> QED BY <1>2, <1>3, <1>4 DEF Initialised

LEMMA GetFirstPageKeeps ==
    ASSUME IInv, NEW t \in Tab, GetFirstPage(t)
    PROVE  IInv'
<1> USE AtTab DEF IInv
<1>1. CASE GetLatestAssessmentVersion(t)
  <2>1. StoreInv' /\ spent' \in Spent
    BY <1>1, ReadStepKeepsStores DEF GetLatestAssessmentVersion
  <2> DEFINE v(c) == IF api # NoCache THEN api.version
                     ELSE IF req[t].op = "first" THEN c ELSE 1
  <2>2. CASE FailedCall(t, "version") /\ Fail(t)
    BY <2>1, <2>2, FailKeepsTabs
  <2>3. ASSUME NEW c \in Version,
               Continue(t, "prefill", [loc[t] EXCEPT !.version = v(c)])
        PROVE  TabInv'
    <3>1. v(c) \in Version
      BY WizardAssumption DEF StoreInv, ConsistentSaved
    <3> HIDE DEF v
    <3>2. [loc[t] EXCEPT !.version = v(c)] \in LocalsAt("prefill")
      BY <3>1 DEF LocalsAt, ConsistentLocals
    <3> QED BY <2>3, <3>2, ContinueKeepsTabs DEF Label
  <2>4. CASE \E c \in Version :
                Continue(t, "prefill", [loc[t] EXCEPT !.version = v(c)])
    BY <2>1, <2>3, <2>4
  <2> QED BY <1>1, <2>2, <2>4 DEF GetLatestAssessmentVersion
<1>2. CASE GetCheckAnswersPage(t)
  <2>1. StoreInv' /\ spent' \in Spent
    BY <1>2, ReadStepKeepsStores DEF GetCheckAnswersPage
  <2>2. ASSUME NEW s \in ConsistentSheet \cup {NoSheet}
        PROVE  [loc[t] EXCEPT !.answers = s] \in LocalsAt("initRead")
    BY DEF LocalsAt, ConsistentLocals
  <2>3. (IF api # NoCache THEN api.answers ELSE EmptySheet) \in ConsistentSheet
    BY EmptySheetConsistent DEF StoreInv, ConsistentSaved
  <2> QED BY <1>2, <2>1, <2>2, <2>3, ContinueKeepsTabs DEF GetCheckAnswersPage, Label
<1>3. CASE InitialiseCacheRead(t)
  <2>1. StoreInv' /\ spent' \in Spent
    BY <1>3, ReadStepKeepsStores DEF InitialiseCacheRead
  <2>2. [loc[t] EXCEPT !.working = working] \in LocalsAt("initWrite")
    BY DEF StoreInv, LocalsAt, ConsistentLocals
  <2> QED BY <1>3, <2>1, <2>2, ContinueKeepsTabs DEF InitialiseCacheRead, Label
<1>4. CASE InitialiseCache(t)
  <2> DEFINE l == loc[t]
             reloaded == [l.working EXCEPT !.history = PagesFromCheckYourAnswers(l.answers)]
  <2>1. l.answers \in ConsistentSheet \cup {NoSheet}
        /\ l.working \in ConsistentJourney \cup {NoCache} /\ l.version \in Version
    BY DEF ConsistentLocals
  <2>2. CASE l.working = NoCache /\ SetWorking(InitialAssessment(l))
             /\ Initialised(t, InitialAssessment(l))
    <3> DEFINE prefill == IF l.answers = NoSheet THEN EmptySheet ELSE l.answers
    <3>1. prefill \in ConsistentSheet
      BY <2>1, EmptySheetConsistent
    <3>2. PagesFromCheckYourAnswers(prefill) \in Seq(PageId)
      BY <3>1, PagesFromCheckYourAnswersType DEF ConsistentSheet
    <3>3. InitialAssessment(l) \in ConsistentJourney
      BY <2>1, <3>1, <3>2 DEF InitialAssessment, ConsistentJourney
    <3> QED BY <2>2, <3>3, SetWorkingKeepsStores, InitialisedKeepsTabs
  <2>3. CASE l.working # NoCache /\ l.answers \notin {NoSheet, EmptySheet}
             /\ SetWorking(reloaded) /\ Initialised(t, reloaded)
    <3>1. PagesFromCheckYourAnswers(l.answers) \in Seq(PageId)
      BY <2>1, <2>3, PagesFromCheckYourAnswersType DEF ConsistentSheet
    <3>2. reloaded \in ConsistentJourney
      BY <2>1, <2>3, <3>1 DEF ConsistentJourney
    <3> QED BY <2>3, <3>2, SetWorkingKeepsStores, InitialisedKeepsTabs
  <2>4. ASSUME l.working # NoCache, NoWrite, UNCHANGED spent,
               Initialised(t, l.working) \/ Fail(t)
        PROVE  IInv'
    <3>1. StoreInv' /\ spent' \in Spent
      BY <2>4 DEF StoreInv, NoWrite
    <3> QED BY <2>1, <2>4, <3>1, InitialisedKeepsTabs, FailKeepsTabs
  <2> QED BY <1>4, <2>2, <2>3, <2>4 DEF InitialiseCache
<1>5. CASE FetchFirstPage(t)
  <2>1. StoreInv' /\ spent' \in Spent
    BY <1>5, ReadStepKeepsStores DEF FetchFirstPage
  <2> QED BY <1>5, <2>1, RedirectKeepsTabs, FailKeepsTabs, WizardAssumption
          DEF FetchFirstPage, PageId
<1> QED BY <1>1, <1>2, <1>3, <1>4, <1>5 DEF GetFirstPage

LEMMA SaveAnswerAndGetNextPageKeeps ==
    ASSUME IInv, NEW t \in Tab, SaveAnswerAndGetNextPage(t)
    PROVE  IInv'
<1> USE AtTab DEF IInv
<1>1. CASE OpenSavedPage(t)
  <2>1. StoreInv' /\ spent' \in Spent
    BY <1>1, ReadStepKeepsStores DEF OpenSavedPage
  <2>2. NoLocals \in LocalsAt("answerRead")
    BY NoLocalsAt DEF Label
  <2> QED BY <1>1, <2>1, <2>2, ContinueKeepsTabs, FailKeepsTabs DEF OpenSavedPage, Label
<1>2. CASE AnswerRead(t)
  <2>1. StoreInv' /\ spent' \in Spent
    BY <1>2, ReadStepKeepsStores DEF AnswerRead
  <2>2. [loc[t] EXCEPT !.working = working] \in LocalsAt("answerWrite")
    BY DEF StoreInv, LocalsAt, ConsistentLocals
  <2> QED BY <1>2, <2>1, <2>2, ContinueKeepsTabs DEF AnswerRead, Label
<1>3. CASE SaveAnswers(t)
  <2> DEFINE j == loc[t].working
             post == FormatAssessmentResponse(req[t].page, req[t].body)
  <2>1. /\ j \in ConsistentJourney \cup {NoCache}
        /\ post \in ConsistentSheet /\ req[t].page \in PageId
    BY PostConsistent DEF ConsistentLocals, Request
  <2>2. CASE NoWrite /\ UNCHANGED spent /\ Fail(t)
    <3>1. StoreInv' /\ spent' \in Spent
      BY <2>2 DEF StoreInv, NoWrite
    <3> QED BY <2>2, <3>1, FailKeepsTabs
  <2>3. ASSUME j # NoCache,
               SetWorking([j EXCEPT !.answers = Answered(j.answers, post)]),
               \/ RedirectTo(t, req[t].page, FALSE)
               \/ Continue(t, "saveNext", NoLocals)
        PROVE  IInv'
    <3>1. j \in ConsistentJourney /\ j.answers \in ConsistentSheet
      BY <2>1, <2>3 DEF ConsistentJourney
    <3>2. Answered(j.answers, post) \in ConsistentSheet
      BY <2>1, <3>1, AnsweredType, AnsweredConsistent DEF ConsistentSheet
    <3>3. [j EXCEPT !.answers = Answered(j.answers, post)] \in ConsistentJourney
      BY <3>1, <3>2 DEF ConsistentJourney
    <3>4. StoreInv' /\ spent' \in Spent
      BY <2>3, <3>3, SetWorkingKeepsStores
    <3>5. NoLocals \in LocalsAt("saveNext")
      BY NoLocalsAt DEF Label
    <3> QED BY <2>1, <2>3, <3>4, <3>5, RedirectKeepsTabs, ContinueKeepsTabs DEF Label
  <2> QED BY <1>3, <2>2, <2>3 DEF SaveAnswers
<1>4. CASE FetchNextPage(t)
  <2>1. StoreInv' /\ spent' \in Spent
    BY <1>4, ReadStepKeepsStores DEF FetchNextPage
  <2>2. NextPage(req[t].page, FormatAssessmentResponse(req[t].page, req[t].body)) \in PageId
    BY WizardAssumption, PostConsistent DEF Request, ConsistentSheet
  <2> QED BY <1>4, <2>1, <2>2, RedirectKeepsTabs, FailKeepsTabs DEF FetchNextPage
<1> QED BY <1>1, <1>2, <1>3, <1>4 DEF SaveAnswerAndGetNextPage

LEMMA GetViewKeeps ==
    ASSUME IInv, NEW t \in Tab, GetView(t)
    PROVE  IInv'
<1> USE AtTab DEF IInv
<1>1. CASE OpenPage(t)
  <2>1. StoreInv' /\ spent' \in Spent
    BY <1>1, ReadStepKeepsStores DEF OpenPage
  <2>2. NoLocals \in LocalsAt("convergeRead")
    BY NoLocalsAt DEF Label
  <2> QED BY <1>1, <2>1, <2>2, ContinueKeepsTabs, FailKeepsTabs DEF OpenPage, Label
<1>2. CASE ConvergeRead(t)
  <2>1. StoreInv' /\ spent' \in Spent
    BY <1>2, ReadStepKeepsStores DEF ConvergeRead
  <2>2. [loc[t] EXCEPT !.working = working] \in LocalsAt("convergeDecide")
    BY DEF StoreInv, LocalsAt, ConsistentLocals
  <2> QED BY <1>2, <2>1, <2>2, ContinueKeepsTabs DEF ConvergeRead, Label
<1>3. CASE CheckForConvergence(t)
  <2> DEFINE j == loc[t].working
             p == req[t].page
             next == IF p = CheckAnswers THEN "checkRead" ELSE "historyRead"
  <2>1. StoreInv' /\ spent' \in Spent
    BY <1>3, ReadStepKeepsStores DEF CheckForConvergence
  <2>2. CASE Continue(t, next, NoLocals)
    <3>1. NoLocals \in LocalsAt(next) /\ next \in Label
      BY NoLocalsAt DEF Label
    <3> QED BY <2>1, <2>2, <3>1, ContinueKeepsTabs
  <2>3. CASE Fail(t)
    BY <2>1, <2>3, FailKeepsTabs
  <2>4. ASSUME j # NoCache, backup # NoCache,
               Continue(t, "convergeWrite",
                 [loc[t] EXCEPT !.working.history = @ \o FromPage(backup.history, p)])
        PROVE  IInv'
    <3> DEFINE h == j.history \o FromPage(backup.history, p)
    <3>1. j \in ConsistentJourney /\ j.history \in Seq(PageId) /\ p \in PageId
          /\ backup.history \in Seq(PageId)
      BY <2>4 DEF ConsistentLocals, ConsistentJourney, Request,
                  StoreInv, ConsistentBackup
    <3>2. FromPage(backup.history, p) \in Seq(PageId)
      BY <3>1, FromPageType
    <3>3. h \in Seq(PageId)
      BY <3>1, <3>2
    <3> HIDE DEF h
    <3>4. [j EXCEPT !.history = h] \in ConsistentJourney
      BY <3>1, <3>3 DEF ConsistentJourney
    <3>5. [loc[t] EXCEPT !.working = [j EXCEPT !.history = h]]
             \in LocalsAt("convergeWrite")
      BY <3>4, NoCacheIsNoRecord DEF LocalsAt, ConsistentLocals
    <3>6. [loc[t] EXCEPT !.working.history = @ \o FromPage(backup.history, p)]
             = [loc[t] EXCEPT !.working = [j EXCEPT !.history = h]]
      BY DEF h
    <3> QED BY <2>1, <2>4, <3>5, <3>6, ContinueKeepsTabs DEF Label
  <2> QED BY <1>3, <2>2, <2>3, <2>4 DEF CheckForConvergence
<1>4. CASE Converge(t)
  <2>1. loc[t].working \in ConsistentJourney
    BY <1>4 DEF Converge, AtStep, LocalsAt, ConsistentLocals
  <2>2. StoreInv' /\ spent' \in Spent
    BY <1>4, <2>1, SetWorkingKeepsStores DEF Converge
  <2> QED BY <1>4, <2>2, RedirectKeepsTabs DEF Converge, PageId
<1>5. CASE HistoryRead(t)
  <2>1. StoreInv' /\ spent' \in Spent
    BY <1>5, ReadStepKeepsStores DEF HistoryRead
  <2>2. working # NoCache
           => [loc[t] EXCEPT !.working = working] \in LocalsAt("historyWrite")
    BY DEF StoreInv, LocalsAt, ConsistentLocals
  <2> QED BY <1>5, <2>1, <2>2, ContinueKeepsTabs, FailKeepsTabs DEF HistoryRead, Label
<1>6. CASE UpdatePageLoadHistory(t)
  <2> DEFINE j == loc[t].working
             h == LoadPage(j.history, req[t].page)
  <2>1. j \in ConsistentJourney /\ j.history \in Seq(PageId) /\ req[t].page \in PageId
    BY <1>6 DEF UpdatePageLoadHistory, AtStep, LocalsAt, ConsistentLocals,
                ConsistentJourney, Request
  <2>2. h \in Seq(PageId)
    BY <2>1, LoadPageType
  <2> HIDE DEF h
  <2>3. [j EXCEPT !.history = h] \in ConsistentJourney
    BY <2>1, <2>2 DEF ConsistentJourney
  <2>4. StoreInv' /\ spent' \in Spent
    BY <1>6, <2>3, SetWorkingKeepsStores DEF UpdatePageLoadHistory, h
  <2>5. NoLocals \in LocalsAt("mergeRead")
    BY NoLocalsAt DEF Label
  <2> QED BY <1>6, <2>4, <2>5, ContinueKeepsTabs DEF UpdatePageLoadHistory, Label
<1>7. CASE RenderQuestions(t)
  <2>1. StoreInv' /\ spent' \in Spent
    BY <1>7, ReadStepKeepsStores DEF RenderQuestions
  <2>2. [page |-> req[t].page, submitted |-> FALSE, links |-> {}] \in Screen
    BY DEF Request, Screen
  <2> QED BY <1>7, <2>1, <2>2, ShowKeepsTabs, FailKeepsTabs DEF RenderQuestions
<1> QED BY <1>1, <1>2, <1>3, <1>4, <1>5, <1>6, <1>7 DEF GetView

(* The journey's answers that Check Your Answers validates. *)
LEMMA AnsweredQuestionsType ==
    ASSUME NEW j \in ConsistentJourney \cup ConsistentBackup
    PROVE  AnsweredQuestions(j) \in ConsistentSheet
<1>1. j.answers \in Sheet /\ Consistent(j.answers)
  BY DEF ConsistentJourney, ConsistentBackup, ConsistentSheet
<1> QED BY <1>1, AnsweredQuestionsConsistent DEF ConsistentSheet

LEMMA CheckYourAnswersKeeps ==
    ASSUME IInv, NEW t \in Tab, CheckYourAnswers(t)
    PROVE  IInv'
<1> USE AtTab DEF IInv
<1>1. CASE CheckRead(t)
  <2> DEFINE s == IF working = NoCache THEN NoSheet ELSE AnsweredQuestions(working)
  <2>1. StoreInv' /\ spent' \in Spent
    BY <1>1, ReadStepKeepsStores DEF CheckRead
  <2>2. s \in ConsistentSheet \cup {NoSheet}
    BY AnsweredQuestionsType DEF StoreInv
  <2> HIDE DEF s
  <2>3. [loc[t] EXCEPT !.answers = s] \in LocalsAt("checkValidate")
    BY <2>2 DEF LocalsAt, ConsistentLocals
  <2>4. Continue(t, "checkValidate", [loc[t] EXCEPT !.answers = s])
    BY <1>1 DEF CheckRead, s
  <2> QED BY <2>1, <2>3, <2>4, ContinueKeepsTabs DEF Label
<1>2. CASE ValidateWorking(t)
  <2>1. StoreInv' /\ spent' \in Spent
    BY <1>2, ReadStepKeepsStores DEF ValidateWorking
  <2>2. loc[t].answers \in Complete => loc[t] \in LocalsAt("dropBackup")
    BY DEF LocalsAt
  <2>3. NoLocals \in LocalsAt("checkBackupRead")
    BY NoLocalsAt DEF Label
  <2> QED BY <1>2, <2>1, <2>2, <2>3, ContinueKeepsTabs DEF ValidateWorking, Label
<1>3. CASE CheckBackupRead(t)
  <2> DEFINE s == AnsweredQuestions(backup)
  <2>1. StoreInv' /\ spent' \in Spent
    BY <1>3, ReadStepKeepsStores DEF CheckBackupRead
  <2>2. NoLocals \in LocalsAt("dropBackup")
    BY WizardAssumption DEF NoLocals, LocalsAt, ConsistentLocals
  <2>3. CASE backup = NoCache
    BY <1>3, <2>1, <2>2, <2>3, ContinueKeepsTabs DEF CheckBackupRead, Label
  <2>4. CASE backup # NoCache
    <3>1. s \in ConsistentSheet
      BY <2>4, AnsweredQuestionsType DEF StoreInv
    <3> HIDE DEF s
    <3>2. [loc[t] EXCEPT !.answers = s] \in LocalsAt("checkBackupValidate")
      BY <3>1 DEF LocalsAt, ConsistentLocals
    <3>3. Continue(t, "checkBackupValidate", [loc[t] EXCEPT !.answers = s])
      BY <1>3, <2>4 DEF CheckBackupRead, s
    <3> QED BY <2>1, <3>2, <3>3, ContinueKeepsTabs DEF Label
  <2> QED BY <2>3, <2>4
<1>4. CASE ValidateBackup(t)
  <2>1. StoreInv' /\ spent' \in Spent
    BY <1>4, ReadStepKeepsStores DEF ValidateBackup
  <2>2. loc[t].answers \in Complete => loc[t] \in LocalsAt("restoreRead")
    BY DEF LocalsAt
  <2>3. NoLocals \in LocalsAt("dropBackup")
    BY WizardAssumption DEF NoLocals, LocalsAt, ConsistentLocals
  <2> QED BY <1>4, <2>1, <2>2, <2>3, ContinueKeepsTabs DEF ValidateBackup, Label
<1>5. CASE RestoreRead(t)
  <2>1. StoreInv' /\ spent' \in Spent
    BY <1>5, ReadStepKeepsStores DEF RestoreRead
  <2>2. backup # NoCache
           => [loc[t] EXCEPT !.backup = backup] \in LocalsAt("restoreWrite")
    BY <1>5 DEF RestoreRead, ReadStep, AtStep, StoreInv, LocalsAt, ConsistentLocals
  <2> QED BY <1>5, <2>1, <2>2, ContinueKeepsTabs, FailKeepsTabs DEF RestoreRead, Label
<1>6. CASE ResetWorkingCacheToBackupCache(t)
  <2>1. loc[t].backup \in ConsistentBackup
    BY <1>6 DEF ResetWorkingCacheToBackupCache, AtStep, LocalsAt, ConsistentLocals
  <2>2. WithoutEdit(loc[t].backup) \in ConsistentJourney
    BY <2>1 DEF WithoutEdit, ConsistentJourney, ConsistentBackup
  <2>3. StoreInv' /\ spent' \in Spent
    BY <1>6, <2>2, SetWorkingKeepsStores DEF ResetWorkingCacheToBackupCache
  <2>4. [loc[t] EXCEPT !.backup = NoCache] \in LocalsAt("dropBackup")
    BY <1>6 DEF ResetWorkingCacheToBackupCache, AtStep, LocalsAt, ConsistentLocals
  <2> QED BY <1>6, <2>3, <2>4, ContinueKeepsTabs
          DEF ResetWorkingCacheToBackupCache, Label
<1>7. CASE DropBackup(t)
  <2>1. StoreInv' /\ spent' \in Spent
    BY <1>7, SetBackupKeepsStores DEF DropBackup
  <2>2. loc[t] \in LocalsAt("updateRead")
    BY <1>7 DEF DropBackup, AtStep, LocalsAt
  <2> QED BY <1>7, <2>1, <2>2, ContinueKeepsTabs DEF DropBackup, Label
<1>8. CASE UpdateRead(t)
  <2>1. StoreInv' /\ spent' \in Spent
    BY <1>8, ReadStepKeepsStores DEF UpdateRead
  <2>2. working # NoCache
           => [loc[t] EXCEPT !.working = working] \in LocalsAt("updateWrite")
    BY <1>8 DEF UpdateRead, ReadStep, AtStep, StoreInv, LocalsAt, ConsistentLocals
  <2> QED BY <1>8, <2>1, <2>2, ContinueKeepsTabs, FailKeepsTabs DEF UpdateRead, Label
<1>9. CASE UpdateCachesOnCheckYourAnswers(t)
  <2> DEFINE j == loc[t].working
             merged == loc[t].answers
             s == IF merged = NoSheet THEN j.answers ELSE merged
             h == IF Loaded(j.history, CheckAnswers) THEN j.history
                  ELSE Append(j.history, CheckAnswers)
             shown == [page |-> CheckAnswers, submitted |-> req[t].submitted,
                       links |-> AnsweredPages(merged)]
  <2>1. /\ j \in ConsistentJourney
        /\ j.history \in Seq(PageId) /\ j.answers \in ConsistentSheet
        /\ merged \in ConsistentSheet \cup {NoSheet}
    BY <1>9 DEF UpdateCachesOnCheckYourAnswers, AtStep, LocalsAt, ConsistentLocals,
                ConsistentJourney
  <2>2. CheckAnswers \in PageId
    BY DEF PageId
  <2>3. s \in ConsistentSheet /\ h \in Seq(PageId)
    BY <2>1, <2>2
  <2>4. SetWorking([j EXCEPT !.answers = s, !.history = h])
    BY <1>9 DEF UpdateCachesOnCheckYourAnswers
  <2> HIDE DEF s, h
  <2>5. [j EXCEPT !.answers = s, !.history = h] \in ConsistentJourney
    BY <2>1, <2>3 DEF ConsistentJourney
  <2>6. StoreInv' /\ spent' \in Spent
    BY <2>4, <2>5, SetWorkingKeepsStores
  <2>7. CASE merged = NoSheet
    <3>1. NoLocals \in LocalsAt("wipeRead")
      BY NoLocalsAt DEF Label
    <3>2. Continue(t, "wipeRead", NoLocals)
      BY <1>9, <2>7 DEF UpdateCachesOnCheckYourAnswers
    <3> QED BY <2>6, <3>1, <3>2, ContinueKeepsTabs DEF Label
  <2>8. CASE merged # NoSheet
    <3>1. merged \in Sheet
      BY <2>1, <2>8 DEF ConsistentSheet
    <3>2. AnsweredPages(merged) \subseteq Page
      BY FormAssumption DEF AnsweredPages
    <3>3. shown \in Screen
      BY <2>2, <3>2 DEF Screen, Request
    <3>4. Show(t, shown)
      BY <1>9, <2>8 DEF UpdateCachesOnCheckYourAnswers
    <3> HIDE DEF shown
    <3> QED BY <2>6, <3>3, <3>4, ShowKeepsTabs
  <2> QED BY <2>7, <2>8
<1>10. CASE WipeRead(t)
  <2>1. StoreInv' /\ spent' \in Spent
    BY <1>10, ReadStepKeepsStores DEF WipeRead
  <2>2. working # NoCache
           => [loc[t] EXCEPT !.working = working] \in LocalsAt("wipeWrite")
    BY DEF StoreInv, LocalsAt, ConsistentLocals
  <2> QED BY <1>10, <2>1, <2>2, ContinueKeepsTabs, FailKeepsTabs DEF WipeRead, Label
<1>11. CASE ResetPageLoadHistory(t)
  <2> DEFINE j == loc[t].working
  <2>1. j \in ConsistentJourney /\ j.history \in Seq(PageId)
    BY <1>11 DEF ResetPageLoadHistory, AtStep, LocalsAt, ConsistentLocals,
                 ConsistentJourney
  <2>2. << >> \in Seq(PageId)
    OBVIOUS
  <2>3. [j EXCEPT !.history = << >>] \in ConsistentJourney
    BY <2>1, <2>2 DEF ConsistentJourney
  <2>4. StoreInv' /\ spent' \in Spent
    BY <1>11, <2>3, SetWorkingKeepsStores DEF ResetPageLoadHistory
  <2>5. j.history # << >> => Head(j.history) \in PageId
    BY <2>1
  <2> QED BY <1>11, <2>4, <2>5, RedirectKeepsTabs, FailKeepsTabs
          DEF ResetPageLoadHistory
<1> QED BY <1>1, <1>2, <1>3, <1>4, <1>5, <1>6, <1>7, <1>8, <1>9, <1>10, <1>11
        DEF CheckYourAnswers

LEMMA EditAndCompleteKeeps ==
    ASSUME IInv, NEW t \in Tab, EditAndComplete(t)
    PROVE  IInv'
<1> USE AtTab DEF IInv
<1>1. CASE EditRead(t)
  <2>1. StoreInv' /\ spent' \in Spent
    BY <1>1, ReadStepKeepsStores DEF EditRead
  <2>2. working # NoCache
           => [loc[t] EXCEPT !.working = working] \in LocalsAt("editBackup")
    BY DEF StoreInv, LocalsAt, ConsistentLocals
  <2> QED BY <1>1, <2>1, <2>2, ContinueKeepsTabs, FailKeepsTabs DEF EditRead, Label
<1>2. CASE BackUpWorking(t)
  <2>1. loc[t].working \in ConsistentJourney /\ req[t].page \in PageId
    BY <1>2 DEF BackUpWorking, AtStep, LocalsAt, ConsistentLocals, Request
  <2>2. WithEdit(loc[t].working, req[t].page) \in ConsistentBackup
    BY <2>1 DEF WithEdit, ConsistentJourney, ConsistentBackup
  <2>3. StoreInv' /\ spent' \in Spent
    BY <1>2, <2>2, SetBackupKeepsStores DEF BackUpWorking
  <2>4. loc[t] \in LocalsAt("editWorking")
    BY <1>2 DEF BackUpWorking, AtStep, LocalsAt
  <2> QED BY <1>2, <2>3, <2>4, ContinueKeepsTabs DEF BackUpWorking, Label
<1>3. CASE StartEdit(t)
  <2> DEFINE j == loc[t].working
             h == BeforePage(j.history, req[t].page)
  <2>1. /\ j \in ConsistentJourney /\ j.history \in Seq(PageId)
        /\ req[t].page \in PageId /\ req[t].submitted \in BOOLEAN
    BY <1>3 DEF StartEdit, AtStep, LocalsAt, ConsistentLocals, ConsistentJourney,
                Request
  <2>2. h \in Seq(PageId)
    BY <2>1, BeforePageType
  <2>3. SetWorking([j EXCEPT !.history = h])
    BY <1>3 DEF StartEdit
  <2> HIDE DEF h
  <2>4. [j EXCEPT !.history = h] \in ConsistentJourney
    BY <2>1, <2>2 DEF ConsistentJourney
  <2>5. StoreInv' /\ spent' \in Spent
    BY <2>3, <2>4, SetWorkingKeepsStores
  <2> QED BY <1>3, <2>1, <2>5, RedirectKeepsTabs DEF StartEdit
<1>4. CASE CompleteRead(t)
  <2>1. StoreInv' /\ spent' \in Spent
    BY <1>4, ReadStepKeepsStores DEF CompleteRead
  <2>2. working # NoCache
           => [loc[t] EXCEPT !.working = working] \in LocalsAt("completePost")
    BY DEF StoreInv, LocalsAt, ConsistentLocals
  <2> QED BY <1>4, <2>1, <2>2, ContinueKeepsTabs, FailKeepsTabs DEF CompleteRead, Label
<1>5. CASE CompleteAssessment(t)
  <2> DEFINE j == loc[t].working
             stored == [answers |-> j.answers, version |-> j.version]
  <2>1. j \in ConsistentJourney
    BY <1>5 DEF CompleteAssessment, AtStep, LocalsAt, ConsistentLocals
  <2>2. stored \in ConsistentSaved
    BY <2>1 DEF ConsistentJourney, ConsistentSaved
  <2>3. api' \in {api, stored} /\ UNCHANGED <<working, backup>>
    BY <1>5 DEF CompleteAssessment
  <2>4. StoreInv'
    BY <2>2, <2>3 DEF StoreInv
  <2>5. spent' \in Spent
    BY <1>5, MishapType DEF CompleteAssessment
  <2>6. NoLocals \in LocalsAt("deleteWorking")
    BY NoLocalsAt DEF Label
  <2>7. Continue(t, "deleteWorking", NoLocals) \/ Fail(t)
    BY <1>5 DEF CompleteAssessment
  <2> QED BY <2>4, <2>5, <2>6, <2>7, ContinueKeepsTabs, FailKeepsTabs DEF Label
<1>6. CASE SubmitAssessment(t)
  <2>1. StoreInv' /\ spent' \in Spent
    BY <1>6, ReadStepKeepsStores DEF SubmitAssessment
  <2>2. NoLocals \in LocalsAt("deleteWorking")
    BY NoLocalsAt DEF Label
  <2> QED BY <1>6, <2>1, <2>2, ContinueKeepsTabs, FailKeepsTabs
          DEF SubmitAssessment, Label
<1>7. CASE DeleteWorking(t)
  <2>1. StoreInv' /\ spent' \in Spent
    BY <1>7, SetWorkingKeepsStores DEF DeleteWorking
  <2>2. NoLocals \in LocalsAt("deleteBackup")
    BY NoLocalsAt DEF Label
  <2> QED BY <1>7, <2>1, <2>2, ContinueKeepsTabs DEF DeleteWorking, Label
<1>8. CASE DeleteBackup(t)
  <2>1. StoreInv' /\ spent' \in Spent
    BY <1>8, SetBackupKeepsStores DEF DeleteBackup
  <2> QED BY <1>8, <2>1, ShowKeepsTabs DEF DeleteBackup
<1> QED BY <1>1, <1>2, <1>3, <1>4, <1>5, <1>6, <1>7, <1>8 DEF EditAndComplete

-----------------------------------------------------------------------------
(* The user and the environment. *)

LEMMA SendKeeps ==
    ASSUME IInv, NEW t \in Tab, NEW label \in Label, NEW r \in Request,
           label \in {"version", "viewOpen", "saveOpen", "editRead", "completeRead",
                      "submitPost"},
           Send(t, label, r)
    PROVE  IInv'
<1> USE AtTab DEF IInv
<1>1. StoreInv'
  BY DEF Send, NoWrite, StoreInv
<1>2. spent' \in Spent
  <2>1. MaxRequests \in Nat /\ MaxMishaps \in Nat
    BY WizardAssumption
  <2>2. spent.requests \in 0..MaxRequests
    BY DEF Spent
  <2>3. CASE MaxRequests = 0
    BY <2>3 DEF Send
  <2>4. CASE MaxRequests # 0
    <3>1. spent.requests + 1 \in 0..MaxRequests
      BY <2>1, <2>2, <2>4 DEF Send
    <3>2. spent' = [spent EXCEPT !.requests = @ + 1]
      BY <2>4 DEF Send
    <3> QED BY <3>1, <3>2 DEF Spent
  <2> QED BY <2>3, <2>4
<1>3. loc[t] \in LocalsAt(label)
  BY DEF LocalsAt
<1>4. /\ pc' = [pc EXCEPT ![t] = label]
      /\ req' = [req EXCEPT ![t] = r]
      /\ UNCHANGED <<loc, screen>>
  BY DEF Send
<1>5. \A u \in Tab : loc'[u] \in LocalsAt(pc'[u])
  BY <1>3, <1>4 DEF TabInv
<1>6. TabInv'
  BY <1>4, <1>5 DEF TabInv
<1> QED BY <1>1, <1>2, <1>6

LEMMA UseKeeps ==
    ASSUME IInv, NEW t \in Tab, Use(t)
    PROVE  IInv'
<1> USE AtTab, EmptySheetType, AskType, SendKeeps DEF IInv
<1>1. CASE OpenPathway(t)
  BY <1>1 DEF OpenPathway, Op, Label, PageId
<1>2. CASE Revisit(t)
  BY <1>2 DEF Revisit, Op, Label
<1>3. CASE ContinueForm(t)
  <2>1. PICK body \in Bodies(screen[t].page) :
           Send(t, "saveOpen", Ask("save", screen[t].page, body, FALSE))
    BY <1>3 DEF ContinueForm
  <2>2. screen[t].page \in Page
    BY <1>3 DEF ContinueForm, Shows
  <2>3. body \in Sheet
    BY <2>1, <2>2, BodiesType
  <2> QED BY <2>1, <2>2, <2>3 DEF Op, Label, PageId
<1>4. CASE Change(t)
  <2>1. screen[t] \in Screen
    BY <1>4 DEF Change, Shows
  <2>2. PICK p \in screen[t].links :
           Send(t, IF screen[t].submitted THEN "version" ELSE "editRead",
                Ask("edit", p, EmptySheet, screen[t].submitted))
    BY <1>4 DEF Change
  <2>3. p \in PageId /\ screen[t].submitted \in BOOLEAN
    BY <2>1, <2>2 DEF Screen, PageId
  <2> QED BY <2>2, <2>3 DEF Op, Label
<1>5. CASE ChangeFromProfile(t)
  <2>1. PICK p \in AnsweredPages(api.answers) :
           Send(t, "version", Ask("edit", p, EmptySheet, TRUE))
    BY <1>5 DEF ChangeFromProfile
  <2>2. p \in PageId
    BY <2>1, FormAssumption DEF AnsweredPages, PageId
  <2> QED BY <2>1, <2>2 DEF Op, Label
<1>6. CASE Confirm(t)
  BY <1>6 DEF Confirm, Op, Label, PageId
<1>7. CASE SubmitReport(t)
  BY <1>7 DEF SubmitReport, Op, Label, PageId
<1>8. CASE Leave(t)
  BY <1>8 DEF Leave, StoreInv, TabInv
<1>9. ASSUME NEW u \in Tab, ClickAgain(t, u)
      PROVE  IInv'
  BY <1>9 DEF ClickAgain, StoreInv, TabInv
<1> QED BY <1>1, <1>2, <1>3, <1>4, <1>5, <1>6, <1>7, <1>8, <1>9 DEF Use

LEMMA RedirectedKeeps ==
    ASSUME IInv, NEW t \in Tab, Redirected(t)
    PROVE  IInv'
<1> USE AtTab DEF IInv
<1>1. CASE FollowRedirect(t)
  <2>1. StoreInv' /\ spent' \in Spent
    BY <1>1 DEF FollowRedirect, StoreInv
  <2>2. /\ pc' = [pc EXCEPT ![t] = "viewOpen"]
        /\ UNCHANGED <<screen, req, loc>>
    BY <1>1 DEF FollowRedirect
  <2>3. loc[t] \in LocalsAt("viewOpen") /\ "viewOpen" \in Label
    BY DEF LocalsAt, Label
  <2>4. \A u \in Tab : loc'[u] \in LocalsAt(pc'[u])
    BY <2>2, <2>3 DEF TabInv
  <2> QED BY <2>1, <2>2, <2>3, <2>4 DEF TabInv
<1>2. CASE AbandonRedirect(t)
  <2>1. StoreInv' /\ spent' \in Spent
    BY <1>2 DEF AbandonRedirect, StoreInv, NoWrite
  <2> QED BY <1>2, <2>1, ShowKeepsTabs DEF AbandonRedirect
<1> QED BY <1>1, <1>2 DEF Redirected

LEMMA CrashKeeps ==
    ASSUME IInv, NEW t \in Tab, Crash(t)
    PROVE  IInv'
<1>1. StoreInv' /\ spent' \in Spent
  BY MishapType DEF Crash, NoWrite, IInv, StoreInv
<1> QED BY <1>1, FailKeepsTabs DEF Crash, IInv

LEMMA EnvironmentKeeps ==
    ASSUME IInv, Environment
    PROVE  IInv'
<1>1. StoreInv' /\ spent' \in Spent
  BY MishapType DEF Environment, ExpireWorking, ExpireBackup, IInv, StoreInv
<1>2. TabInv'
  BY DEF Environment, ExpireWorking, ExpireBackup, IInv, TabInv
<1> QED BY <1>1, <1>2 DEF IInv

-----------------------------------------------------------------------------
(* The inductive invariant.                                                *)

LEMMA InitEstablishes == Init => IInv
<1> SUFFICES ASSUME Init PROVE IInv
  OBVIOUS
<1>1. NoLocals \in LocalsAt("idle") /\ "idle" \in Label
  BY NoLocalsAt DEF Label
<1>2. NoLocals \in ConsistentLocals
  BY <1>1 DEF LocalsAt
<1>3. TabInv
  BY <1>1, <1>2, NoRequestType DEF Init, TabInv
<1>4. spent \in Spent
  BY WizardAssumption DEF Init, Spent
<1> QED BY <1>3, <1>4 DEF Init, IInv, StoreInv

LEMMA NextKeeps == IInv /\ [Next]_vars => IInv'
<1> SUFFICES ASSUME IInv, [Next]_vars PROVE IInv'
  OBVIOUS
<1>1. ASSUME NEW t \in Tab, Handle(t) PROVE IInv'
  BY <1>1, GetFirstPageKeeps, SaveAnswerAndGetNextPageKeeps, GetViewKeeps,
     CheckYourAnswersKeeps, EditAndCompleteKeeps DEF Handle
<1>2. ASSUME NEW t \in Tab, Use(t) PROVE IInv'
  BY <1>2, UseKeeps
<1>3. ASSUME NEW t \in Tab, Redirected(t) PROVE IInv'
  BY <1>3, RedirectedKeeps
<1>4. ASSUME NEW t \in Tab, Crash(t) PROVE IInv'
  BY <1>4, CrashKeeps
<1>5. CASE Environment
  BY <1>5, EnvironmentKeeps
<1>6. CASE UNCHANGED vars
  BY <1>6 DEF vars, IInv, StoreInv, TabInv
<1> QED BY <1>1, <1>2, <1>3, <1>4, <1>5, <1>6 DEF Next

(* The inductive invariant holds of every form, every number of tabs and   *)
(* every interleaving of handlers: what the next three theorems rest on.   *)
THEOREM IInvInvariant == Spec => []IInv
<1>1. Init => IInv
  BY InitEstablishes
<1>2. IInv /\ [Next]_vars => IInv'
  BY NextKeeps
<1> QED BY <1>1, <1>2, PTL DEF Spec

(* Every cached record, screen, request and local variable keeps its type: *)
(* no startEditPageId in a working assessment, no page id outside the form *)
(* in a history or a redirect, no budget overrun.                          *)
THEOREM TypeCorrect == Spec => []TypeOK
<1>1. IInv => TypeOK
  <2>1. /\ ConsistentSheet \subseteq Sheet
        /\ ConsistentJourney \subseteq Journey
        /\ ConsistentBackup \subseteq EditBackup
        /\ ConsistentSaved \subseteq Saved
    BY DEF ConsistentSheet, ConsistentJourney, ConsistentBackup, ConsistentSaved,
           Journey, EditBackup, Saved
  <2>2. ConsistentLocals \subseteq Locals
    BY <2>1 DEF ConsistentLocals, Locals
  <2>3. ASSUME IInv
        PROVE  req \in [Tab -> Request] /\ loc \in [Tab -> Locals]
    BY <2>2, <2>3 DEF IInv, TabInv
  <2>4. ASSUME IInv
        PROVE  /\ working \in Journey \cup {NoCache}
               /\ backup \in EditBackup \cup {NoCache}
               /\ api \in Saved \cup {NoCache}
    BY <2>1, <2>4 DEF IInv, StoreInv
  <2> QED BY <2>3, <2>4 DEF TypeOK, IInv, TabInv
<1> QED BY <1>1, IInvInvariant, PTL

(* Neither cache nor the API ever keeps a nested answer without the option *)
(* that asks for it, whatever copies overlapping requests write back.      *)
THEOREM NestedConsistent == Spec => []NestedAnswersConsistent
<1>1. IInv => NestedAnswersConsistent
  BY DEF IInv, StoreInv, NestedAnswersConsistent, ConsistentJourney,
         ConsistentBackup, ConsistentSaved, ConsistentSheet
<1> QED BY <1>1, IInvInvariant, PTL

-----------------------------------------------------------------------------
(* Check Your Answers.                                                     *)

(* A step of tab u leaves the program counters of the others alone. *)
StepsAlone(u) == \A t \in Tab \ {u} : pc'[t] = pc[t]

LEMMA HandleStepsAlone ==
    ASSUME pc \in [Tab -> Label], NEW u \in Tab, Handle(u)
    PROVE  StepsAlone(u)
<1> DEFINE Moves == \E label : pc' = [pc EXCEPT ![u] = label]
<1>1. /\ \A label, l : Continue(u, label, l) => Moves
      /\ \A s : Show(u, s) => Moves
      /\ \A p, submitted : RedirectTo(u, p, submitted) => Moves
  BY DEF Continue, Show, RedirectTo
<1>2. Fail(u) => Moves
  BY <1>1 DEF Fail
<1>3. \A j : Initialised(u, j) => Moves
  BY <1>1 DEF Initialised
<1> HIDE DEF Moves
<1>4. ASSUME GetFirstPage(u) PROVE Moves
  BY <1>1, <1>2, <1>3, <1>4
     DEF GetFirstPage, GetLatestAssessmentVersion, GetCheckAnswersPage,
         InitialiseCacheRead, InitialiseCache, FetchFirstPage
<1>5. ASSUME SaveAnswerAndGetNextPage(u) PROVE Moves
  BY <1>1, <1>2, <1>5
     DEF SaveAnswerAndGetNextPage, OpenSavedPage, AnswerRead, SaveAnswers,
         FetchNextPage
<1>6. ASSUME GetView(u) PROVE Moves
  BY <1>1, <1>2, <1>6
     DEF GetView, OpenPage, ConvergeRead, CheckForConvergence, Converge,
         HistoryRead, UpdatePageLoadHistory, RenderQuestions
<1>7. ASSUME CheckYourAnswers(u) PROVE Moves
  BY <1>1, <1>2, <1>7
     DEF CheckYourAnswers, CheckRead, ValidateWorking, CheckBackupRead,
         ValidateBackup, RestoreRead, ResetWorkingCacheToBackupCache, DropBackup,
         UpdateRead, UpdateCachesOnCheckYourAnswers, WipeRead, ResetPageLoadHistory
<1>8. ASSUME EditAndComplete(u) PROVE Moves
  BY <1>1, <1>2, <1>8
     DEF EditAndComplete, EditRead, BackUpWorking, StartEdit, CompleteRead,
         CompleteAssessment, SubmitAssessment, DeleteWorking, DeleteBackup
<1>9. Moves
  BY <1>4, <1>5, <1>6, <1>7, <1>8 DEF Handle
<1> QED BY <1>9 DEF Moves, StepsAlone

(* The only handler step at "updateWrite" is the write itself. *)
LEMMA UpdateWriteStep ==
    ASSUME NEW t \in Tab, Handle(t), pc[t] = "updateWrite"
    PROVE  UpdateCachesOnCheckYourAnswers(t)
<1> USE DEF AtStep, ReadStep, FailedCall
<1>1. ~GetFirstPage(t)
  BY DEF GetFirstPage, GetLatestAssessmentVersion, GetCheckAnswersPage,
         InitialiseCacheRead, InitialiseCache, FetchFirstPage
<1>2. ~SaveAnswerAndGetNextPage(t)
  BY DEF SaveAnswerAndGetNextPage, OpenSavedPage, AnswerRead, SaveAnswers,
         FetchNextPage
<1>3. ~GetView(t)
  BY DEF GetView, OpenPage, ConvergeRead, CheckForConvergence, Converge,
         HistoryRead, UpdatePageLoadHistory, RenderQuestions
<1>4. ~EditAndComplete(t)
  BY DEF EditAndComplete, EditRead, BackUpWorking, StartEdit, CompleteRead,
         CompleteAssessment, SubmitAssessment, DeleteWorking, DeleteBackup
<1>5. CheckYourAnswers(t)
  BY <1>1, <1>2, <1>3, <1>4 DEF Handle
<1> QED BY <1>5
        DEF CheckYourAnswers, CheckRead, ValidateWorking, CheckBackupRead,
            ValidateBackup, RestoreRead, ResetWorkingCacheToBackupCache, DropBackup,
            UpdateRead, WipeRead, ResetPageLoadHistory

LEMMA RenderedAnswersAreComplete ==
    ASSUME IInv, NEW t \in Tab, UpdateCachesOnCheckYourAnswers(t), pc'[t] = "idle"
    PROVE  working'.answers \in Complete
<1> DEFINE j == loc[t].working
           merged == loc[t].answers
           h == IF Loaded(j.history, CheckAnswers) THEN j.history
                ELSE Append(j.history, CheckAnswers)
<1>1. /\ pc[t] = "updateWrite" /\ pc \in [Tab -> Label]
      /\ loc[t] \in LocalsAt("updateWrite")
  BY AtTab DEF UpdateCachesOnCheckYourAnswers, AtStep, IInv, TabInv
<1>2. j \in ConsistentJourney /\ merged \in Complete \cup {NoSheet}
  BY <1>1 DEF LocalsAt, ConsistentLocals
<1>3. merged # NoSheet
  <2>1. Continue(t, "wipeRead", NoLocals) => pc'[t] = "wipeRead"
    BY <1>1 DEF Continue
  <2> QED BY <2>1 DEF UpdateCachesOnCheckYourAnswers
<1>4. working' = [j EXCEPT !.answers = merged, !.history = h]
  BY <1>3 DEF UpdateCachesOnCheckYourAnswers, SetWorking
<1> HIDE DEF h
<1> QED BY <1>2, <1>3, <1>4 DEF ConsistentJourney

(* However requests overlap, fail and die, Check Your Answers is rendered  *)
(* only by a step that leaves in the cache a set of answers the API found  *)
(* valid: the answers in the local variables were validated earlier in     *)
(* the same request and are what is written.                               *)
THEOREM CheckAnswersValidated == Spec => CheckAnswersShowsValidated
<1> DEFINE A == \A t \in Tab :
                   pc[t] = "updateWrite" /\ pc'[t] = "idle" /\ screen'[t] # Elsewhere
                     => working'.answers \in Complete
<1>1. IInv /\ [Next]_vars => [A]_vars
  <2> SUFFICES ASSUME IInv, Next, NEW t \in Tab,
                      pc[t] = "updateWrite", pc'[t] = "idle", screen'[t] # Elsewhere
               PROVE  working'.answers \in Complete
    BY DEF vars
  <2>1. pc \in [Tab -> Label] /\ screen \in [Tab -> Screen \cup {Elsewhere}]
    BY DEF IInv, TabInv
  <2>2. ASSUME NEW u \in Tab, Handle(u)
        PROVE  working'.answers \in Complete
    <3>1. u = t
      BY <2>1, <2>2, HandleStepsAlone DEF StepsAlone
    <3> QED BY <2>2, <3>1, UpdateWriteStep, RenderedAnswersAreComplete
  <2>3. ASSUME NEW u \in Tab, Use(u)
        PROVE  FALSE
    <3>1. CASE \E v \in Tab : ClickAgain(u, v)
      BY <2>1, <3>1 DEF ClickAgain
    <3>2. CASE \A v \in Tab : ~ClickAgain(u, v)
      <4>1. pc[u] = "idle" /\ \E label \in Label : pc' = [pc EXCEPT ![u] = label]
        BY <2>1, <2>3, <3>2 DEF Use, OpenPathway, Revisit, ContinueForm, Change,
           ChangeFromProfile, Confirm, SubmitReport, Leave, Send, Label
      <4> QED BY <2>1, <4>1
    <3> QED BY <3>1, <3>2
  <2>4. ASSUME NEW u \in Tab, Redirected(u)
        PROVE  FALSE
    <3>1. pc[u] = "redirect" /\ \E label : pc' = [pc EXCEPT ![u] = label]
      BY <2>4 DEF Redirected, FollowRedirect, AbandonRedirect, Show
    <3> QED BY <2>1, <3>1
  <2>5. ASSUME NEW u \in Tab, Crash(u)
        PROVE  FALSE
    BY <2>1, <2>5 DEF Crash, Fail, Show
  <2>6. CASE Environment
    BY <2>6 DEF Environment, ExpireWorking, ExpireBackup
  <2> QED BY <2>2, <2>3, <2>4, <2>5, <2>6 DEF Next
<1> QED BY <1>1, IInvInvariant, PTL DEF Spec, CheckAnswersShowsValidated

-----------------------------------------------------------------------------
(* One tab.                                                                *)
(*                                                                         *)
(* With one tab nothing happens between a handler's read and its write, so *)
(* the copy it writes back is of what is cached.  Then Check Your Answers  *)
(* stays over the answers that were validated for it: what changes answers *)
(* is posted by another page, and a backup whose answers are not all of    *)
(* the journey is written back only on the way to the validated ones.  And *)
(* a backup is of the assessment that is cached: it is removed with it.    *)

Holding == {"initWrite", "answerWrite", "convergeDecide", "historyWrite", "updateWrite",
            "wipeWrite", "editBackup", "editWorking", "completePost"}
Merging == {"dropBackup", "updateRead", "updateWrite"}
Saving == {"saveOpen", "answerRead", "answerWrite", "saveNext"}
Loading == {"historyRead", "historyWrite", "mergeRead"}
Completing == {"completeRead", "completePost"}

OnCheck(s) == s # Elsewhere /\ s.page = CheckAnswers

(* For a tab that shows s, with its request r before the step label and    *)
(* the local variables l, the working and backup assessments w and b.      *)
Held(label, l, w) ==
    /\ label \in Holding => l.working = w
    /\ label = "convergeWrite" =>
          /\ w # NoCache
          /\ l.working.answers = w.answers /\ l.working.version = w.version

Validated(s, label, l, w) ==
    OnCheck(s) /\ w # NoCache =>
        w.answers \in Complete \/ (label \in Merging /\ l.answers # NoSheet)

Shown(s, label, r, w) ==
    /\ s # Elsewhere /\ label # "deleteBackup" => w # NoCache
    /\ label \in Saving => ~OnCheck(s)
    /\ label \in Completing => OnCheck(s)
    /\ label \in Loading => r.page # CheckAnswers

SameVersion(label, l, w, b) ==
    /\ b # NoCache /\ w = NoCache => label = "deleteBackup"
    /\ b # NoCache /\ w # NoCache => b.version = w.version
    /\ label = "restoreWrite" => w # NoCache /\ l.backup.version = w.version

LoneInv(t) ==
    /\ Held(pc[t], loc[t], working)
    /\ Validated(screen[t], pc[t], loc[t], working)
    /\ Shown(screen[t], pc[t], req[t], working)
    /\ ~spent.crashed => SameVersion(pc[t], loc[t], working, backup)
    /\ CompletedAssessmentIsValid

(* The step that VersionPinned forbids is none of the next-state relation. *)
Pinned ==
    ~spent.crashed /\ working # NoCache /\ working' # NoCache
        => working'.version = working.version

(* How a step leaves the tab, field by field. *)
LEMMA Endings ==
    ASSUME IInv, NEW t \in Tab
    PROVE  /\ \A label, l : Continue(t, label, l) =>
                 /\ pc'[t] = label /\ loc'[t] = l
                 /\ screen'[t] = screen[t] /\ req'[t] = req[t]
           /\ \A s : Show(t, s) => pc'[t] = "idle" /\ screen'[t] = s
           /\ Fail(t) => pc'[t] = "idle" /\ screen'[t] = Elsewhere
           /\ \A p, submitted : RedirectTo(t, p, submitted) =>
                 pc'[t] = "redirect" /\ screen'[t] = screen[t]
           /\ \A label, r : Send(t, label, r) =>
                 /\ pc[t] = "idle" /\ pc'[t] = label /\ req'[t] = r
                 /\ screen'[t] = screen[t] /\ NoWrite /\ spent'.crashed = spent.crashed
<1>1. spent \in Spent
  BY DEF IInv
<1>2. \A label, r : Send(t, label, r) => spent'.crashed = spent.crashed
  BY <1>1 DEF Send, Spent
<1> QED BY <1>2 DEF IInv, TabInv, Continue, Show, Fail, RedirectTo, Send

LEMMA LocalFields ==
    ASSUME NEW l \in ConsistentLocals, NEW x
    PROVE  /\ [l EXCEPT !.working = x].working = x
           /\ [l EXCEPT !.working = x].answers = l.answers
           /\ [l EXCEPT !.backup = x].backup = x
           /\ [l EXCEPT !.backup = x].answers = l.answers
           /\ [l EXCEPT !.answers = x].answers = x
           /\ [l EXCEPT !.answers = x].working = l.working
BY DEF ConsistentLocals

LEMMA MishapCrashes ==
    ASSUME IInv, NEW kind, Mishap(kind)
    PROVE  spent'.crashed = (spent.crashed \/ kind = "crash")
BY DEF IInv, Spent, Mishap

LEMMA CallsDoNotCrash ==
    ASSUME IInv, NEW t \in Tab, NEW label, ReadStep(t, label) \/ FailedCall(t, label)
    PROVE  NoWrite /\ pc[t] = label /\ spent'.crashed = spent.crashed
<1>1. spent.crashed \in BOOLEAN
  BY DEF IInv, Spent
<1> QED BY <1>1, MishapCrashes DEF ReadStep, FailedCall, AtStep

(* A step that writes nothing. *)
LEMMA QuietKeepsLone ==
    ASSUME NEW t \in Tab, LoneInv(t), NoWrite, spent'.crashed = spent.crashed,
           pc[t] # "deleteBackup",
           NEW label, pc'[t] = label, label \notin {"restoreWrite", "deleteBackup"},
           \/ screen'[t] \in {screen[t], Elsewhere}
           \/ working # NoCache /\ ~OnCheck(screen'[t]),
           Held(label, loc'[t], working),
           label \in Saving => ~OnCheck(screen'[t]),
           label \in Completing => OnCheck(screen'[t]),
           label \in Loading => req'[t].page # CheckAnswers,
           OnCheck(screen'[t]) /\ pc[t] \in Merging /\ loc[t].answers # NoSheet =>
               label \in Merging /\ loc'[t].answers # NoSheet
    PROVE  LoneInv(t)' /\ Pinned
<1>1. working' = working /\ backup' = backup /\ api' = api
  BY DEF NoWrite
<1>2. Validated(screen'[t], label, loc'[t], working)
  BY DEF LoneInv, Validated, OnCheck
<1>3. Shown(screen'[t], label, req'[t], working)
  BY DEF LoneInv, Shown
<1>4. ~spent'.crashed => SameVersion(label, loc'[t], working, backup)
  BY DEF LoneInv, SameVersion
<1>5. LoneInv(t)'
  BY <1>1, <1>2, <1>3, <1>4 DEF LoneInv, CompletedAssessmentIsValid
<1> QED BY <1>1, <1>5 DEF Pinned

(* The ways such a step ends. *)
LEMMA FailKeepsLone ==
    ASSUME IInv, NEW t \in Tab, LoneInv(t), NoWrite, spent'.crashed = spent.crashed,
           pc[t] # "deleteBackup", Fail(t)
    PROVE  LoneInv(t)' /\ Pinned
<1>1. pc'[t] = "idle" /\ screen'[t] = Elsewhere
  BY Endings
<1>2. Held("idle", loc'[t], working)
  BY DEF Held, Holding
<1> QED BY <1>1, <1>2, QuietKeepsLone DEF Saving, Completing, Loading, OnCheck

LEMMA RedirectKeepsLone ==
    ASSUME IInv, NEW t \in Tab, LoneInv(t), NoWrite, spent'.crashed = spent.crashed,
           pc[t] \notin Merging \cup {"deleteBackup"},
           NEW p, NEW submitted, RedirectTo(t, p, submitted)
    PROVE  LoneInv(t)' /\ Pinned
<1>1. pc'[t] = "redirect" /\ screen'[t] = screen[t]
  BY Endings
<1>2. Held("redirect", loc'[t], working)
  BY DEF Held, Holding
<1> QED BY <1>1, <1>2, QuietKeepsLone DEF Saving, Completing, Loading

LEMMA ContinueKeepsLone ==
    ASSUME IInv, NEW t \in Tab, LoneInv(t), NoWrite, spent'.crashed = spent.crashed,
           pc[t] # "deleteBackup", NEW label, NEW l, Continue(t, label, l),
           label \notin {"restoreWrite", "deleteBackup"},
           Held(label, l, working),
           label \in Saving => pc[t] \in Saving,
           label \in Completing => pc[t] \in Completing,
           label \in Loading => req[t].page # CheckAnswers,
           pc[t] \in Merging => label \in Merging /\ l.answers = loc[t].answers
    PROVE  LoneInv(t)' /\ Pinned
<1>1. /\ pc'[t] = label /\ loc'[t] = l
      /\ screen'[t] = screen[t] /\ req'[t] = req[t]
  BY Endings
<1>2. /\ label \in Saving => ~OnCheck(screen[t])
      /\ label \in Completing => OnCheck(screen[t])
  BY DEF LoneInv, Shown
<1> QED BY <1>1, <1>2, QuietKeepsLone

(* A step that caches an assessment j: of the version of the one before,   *)
(* and with answers that the page shown may stay over.                     *)
LEMMA WritingKeepsLone ==
    ASSUME IInv, NEW t \in Tab, LoneInv(t), pc[t] # "deleteBackup",
           NEW j, j # NoCache, SetWorking(j),
           ~spent.crashed /\ working # NoCache => j.version = working.version,
           NEW label, pc'[t] = label,
           label \in {"idle", "redirect", "firstNext", "editRead", "saveNext",
                      "mergeRead", "dropBackup", "wipeRead"},
           Validated(screen'[t], label, loc'[t], j),
           label = "saveNext" => ~OnCheck(screen'[t]),
           label = "mergeRead" => req'[t].page # CheckAnswers
    PROVE  LoneInv(t)' /\ Pinned
<1>1. /\ working' = j /\ backup' = backup /\ api' = api /\ spent' = spent
  BY DEF SetWorking
<1>2. Held(label, loc'[t], j)
  BY DEF Held, Holding
<1>3. Shown(screen'[t], label, req'[t], j)
  BY DEF Shown, Saving, Completing, Loading
<1>4. ~spent.crashed => SameVersion(label, loc'[t], j, backup)
  BY DEF LoneInv, SameVersion
<1>5. LoneInv(t)'
  BY <1>1, <1>2, <1>3, <1>4 DEF LoneInv, CompletedAssessmentIsValid
<1> QED BY <1>1, <1>5 DEF Pinned

(* What the step's own tab tells of the copy it writes back. *)
LEMMA CopyIsCached ==
    ASSUME IInv, NEW t \in Tab, LoneInv(t), pc[t] \in Holding
    PROVE  loc[t].working = working
BY DEF LoneInv, Held

(* A step that leaves both the page shown and the answers cached. *)
LEMMA SameAnswersKeepLone ==
    ASSUME IInv, NEW t \in Tab, LoneInv(t), pc[t] \notin Merging \cup {"deleteBackup"},
           NEW j, j # NoCache, SetWorking(j), working # NoCache,
           j.version = working.version, j.answers = working.answers,
           NEW label, pc'[t] = label,
           label \in {"idle", "redirect", "firstNext", "editRead", "mergeRead"},
           screen'[t] \in {screen[t], Elsewhere},
           label = "mergeRead" => req'[t].page # CheckAnswers
    PROVE  LoneInv(t)' /\ Pinned
<1>1. Validated(screen'[t], label, loc'[t], j)
  BY DEF LoneInv, Validated, OnCheck
<1> QED BY <1>1, WritingKeepsLone

-----------------------------------------------------------------------------
(* The handlers of the one tab.                                            *)

LEMMA NoneHeld ==
    ASSUME NEW label, label \notin Holding \cup {"convergeWrite"}, NEW l, NEW w
    PROVE  Held(label, l, w)
BY DEF Held

LEMMA InitialisedEnds ==
    ASSUME IInv, NEW t \in Tab, NEW j, Initialised(t, j)
    PROVE  /\ pc'[t] \in {"editRead", "firstNext", "redirect"}
           /\ screen'[t] = screen[t]
BY Endings DEF Initialised

LEMMA InitialisedKeepsLone ==
    ASSUME IInv, NEW t \in Tab, LoneInv(t), pc[t] = "initWrite", NoWrite,
           UNCHANGED spent, NEW j, Initialised(t, j)
    PROVE  LoneInv(t)' /\ Pinned
<1>1. Held(pc'[t], loc'[t], working)
  BY InitialisedEnds, NoneHeld DEF Holding
<1> QED BY <1>1, InitialisedEnds, QuietKeepsLone DEF Merging, Saving, Completing, Loading

LEMMA GetFirstPageKeepsLone ==
    ASSUME IInv, NEW t \in Tab, LoneInv(t), GetFirstPage(t)
    PROVE  LoneInv(t)' /\ Pinned
<1> USE DEF Holding, Merging, Saving, Completing, Loading
<1>1. CASE GetLatestAssessmentVersion(t)
  <2>1. NoWrite /\ pc[t] = "version" /\ spent'.crashed = spent.crashed
    BY <1>1, CallsDoNotCrash DEF GetLatestAssessmentVersion
  <2>2. Fail(t) \/ \E l : Continue(t, "prefill", l)
    BY <1>1 DEF GetLatestAssessmentVersion
  <2>3. \A l : Held("prefill", l, working)
    BY NoneHeld
  <2> QED BY <2>1, <2>2, <2>3, FailKeepsLone, ContinueKeepsLone
<1>2. CASE GetCheckAnswersPage(t)
  <2>1. NoWrite /\ pc[t] = "prefill" /\ spent'.crashed = spent.crashed
    BY <1>2, CallsDoNotCrash DEF GetCheckAnswersPage
  <2>2. \E l : Continue(t, "initRead", l)
    BY <1>2 DEF GetCheckAnswersPage
  <2>3. \A l : Held("initRead", l, working)
    BY NoneHeld
  <2> QED BY <2>1, <2>2, <2>3, ContinueKeepsLone
<1>3. CASE InitialiseCacheRead(t)
  <2>1. NoWrite /\ pc[t] = "initRead" /\ spent'.crashed = spent.crashed
    BY <1>3, CallsDoNotCrash DEF InitialiseCacheRead
  <2>2. Continue(t, "initWrite", [loc[t] EXCEPT !.working = working])
    BY <1>3 DEF InitialiseCacheRead
  <2>3. Held("initWrite", [loc[t] EXCEPT !.working = working], working)
    BY AtTab, LocalFields DEF Held
  <2> QED BY <2>1, <2>2, <2>3, ContinueKeepsLone
<1>4. CASE InitialiseCache(t)
  <2> DEFINE l == loc[t]
             reloaded == [l.working EXCEPT !.history = PagesFromCheckYourAnswers(l.answers)]
  <2>1. pc[t] = "initWrite" /\ l.working = working
    BY <1>4, CopyIsCached DEF InitialiseCache, AtStep
  <2>2. CASE working = NoCache /\ SetWorking(InitialAssessment(l))
             /\ Initialised(t, InitialAssessment(l))
    <3>1. screen[t] = Elsewhere
      BY <2>1, <2>2 DEF LoneInv, Shown
    <3> DEFINE prefill == IF l.answers = NoSheet THEN EmptySheet ELSE l.answers
    <3>2. prefill \in ConsistentSheet /\ l.version \in Version
      BY AtTab, EmptySheetConsistent DEF ConsistentLocals
    <3>3. InitialAssessment(l) # NoCache
      <4>1. PagesFromCheckYourAnswers(prefill) \in Seq(PageId)
        BY <3>2, PagesFromCheckYourAnswersType DEF ConsistentSheet
      <4>2. InitialAssessment(l) \in ConsistentJourney
        BY <3>2, <4>1 DEF InitialAssessment, ConsistentJourney
      <4> QED BY <4>2, NoCacheIsNoRecord
    <3>4. /\ pc'[t] \in {"editRead", "firstNext", "redirect"}
          /\ screen'[t] = Elsewhere
      BY <2>2, <3>1, InitialisedEnds
    <3>5. Validated(screen'[t], pc'[t], loc'[t], InitialAssessment(l))
      BY <3>4 DEF Validated, OnCheck
    <3> HIDE DEF l
    <3> QED BY <2>1, <2>2, <3>3, <3>4, <3>5, WritingKeepsLone
  <2>3. CASE working # NoCache /\ SetWorking(reloaded) /\ Initialised(t, reloaded)
             /\ l.answers # NoSheet
    <3>1. working \in ConsistentJourney
      BY <2>3 DEF IInv, StoreInv
    <3>2. l.answers \in ConsistentSheet
      BY <2>3, AtTab DEF ConsistentLocals
    <3>3. PagesFromCheckYourAnswers(l.answers) \in Seq(PageId)
      BY <3>2, PagesFromCheckYourAnswersType DEF ConsistentSheet
    <3>4. /\ reloaded \in ConsistentJourney
          /\ reloaded.version = working.version /\ reloaded.answers = working.answers
      BY <2>1, <3>1, <3>3 DEF ConsistentJourney
    <3>5. reloaded # NoCache
      BY <3>4, NoCacheIsNoRecord
    <3> HIDE DEF reloaded
    <3> QED BY <2>1, <2>3, <3>4, <3>5, InitialisedEnds, SameAnswersKeepLone
  <2>4. CASE NoWrite /\ UNCHANGED spent /\ (Initialised(t, l.working) \/ Fail(t))
    BY <2>1, <2>4, InitialisedKeepsLone, FailKeepsLone
  <2> QED BY <1>4, <2>1, <2>2, <2>3, <2>4 DEF InitialiseCache
<1>5. CASE FetchFirstPage(t)
  <2>1. NoWrite /\ pc[t] = "firstNext" /\ spent'.crashed = spent.crashed
    BY <1>5, CallsDoNotCrash DEF FetchFirstPage
  <2>2. Fail(t) \/ RedirectTo(t, FirstPage, FALSE)
    BY <1>5 DEF FetchFirstPage
  <2> QED BY <2>1, <2>2, FailKeepsLone, RedirectKeepsLone
<1> QED BY <1>1, <1>2, <1>3, <1>4, <1>5 DEF GetFirstPage

LEMMA SaveAnswerAndGetNextPageKeepsLone ==
    ASSUME IInv, NEW t \in Tab, LoneInv(t), SaveAnswerAndGetNextPage(t)
    PROVE  LoneInv(t)' /\ Pinned
<1> USE DEF Holding, Merging, Saving, Completing, Loading
<1>1. CASE OpenSavedPage(t)
  <2>1. NoWrite /\ pc[t] = "saveOpen" /\ spent'.crashed = spent.crashed
    BY <1>1, CallsDoNotCrash DEF OpenSavedPage
  <2>2. Fail(t) \/ Continue(t, "answerRead", NoLocals)
    BY <1>1 DEF OpenSavedPage
  <2>3. Held("answerRead", NoLocals, working)
    BY NoneHeld
  <2> QED BY <2>1, <2>2, <2>3, FailKeepsLone, ContinueKeepsLone
<1>2. CASE AnswerRead(t)
  <2>1. NoWrite /\ pc[t] = "answerRead" /\ spent'.crashed = spent.crashed
    BY <1>2, CallsDoNotCrash DEF AnswerRead
  <2>2. Continue(t, "answerWrite", [loc[t] EXCEPT !.working = working])
    BY <1>2 DEF AnswerRead
  <2>3. Held("answerWrite", [loc[t] EXCEPT !.working = working], working)
    BY AtTab, LocalFields DEF Held
  <2> QED BY <2>1, <2>2, <2>3, ContinueKeepsLone
<1>3. CASE SaveAnswers(t)
  <2> DEFINE j == loc[t].working
             post == FormatAssessmentResponse(req[t].page, req[t].body)
             new == [j EXCEPT !.answers = Answered(j.answers, post)]
  <2>1. pc[t] = "answerWrite" /\ j = working
    BY <1>3, CopyIsCached DEF SaveAnswers, AtStep
  <2>2. CASE NoWrite /\ UNCHANGED spent /\ Fail(t)
    BY <2>1, <2>2, FailKeepsLone
  <2>3. ASSUME j # NoCache, SetWorking(new),
               RedirectTo(t, req[t].page, FALSE) \/ Continue(t, "saveNext", NoLocals)
        PROVE  LoneInv(t)' /\ Pinned
    <3>1. post \in ConsistentSheet
      BY AtTab, PostConsistent DEF Request
    <3>2. working \in ConsistentJourney /\ working.answers \in ConsistentSheet
      BY <2>1, <2>3 DEF IInv, StoreInv, ConsistentJourney
    <3>3. Answered(j.answers, post) \in ConsistentSheet
      BY <2>1, <3>1, <3>2, AnsweredType, AnsweredConsistent DEF ConsistentSheet
    <3>4. new \in ConsistentJourney /\ new.version = working.version
      BY <2>1, <3>2, <3>3 DEF ConsistentJourney
    <3>5. new # NoCache
      BY <3>4, NoCacheIsNoRecord
    <3>6. ~OnCheck(screen[t])
      BY <2>1 DEF LoneInv, Shown
    <3>7. pc'[t] \in {"redirect", "saveNext"} /\ screen'[t] = screen[t]
      BY <2>3, Endings
    <3> HIDE DEF new
    <3>8. Validated(screen'[t], pc'[t], loc'[t], new)
      BY <3>6, <3>7 DEF Validated
    <3> QED BY <2>1, <2>3, <3>4, <3>5, <3>6, <3>7, <3>8, WritingKeepsLone
  <2> QED BY <1>3, <2>2, <2>3 DEF SaveAnswers
<1>4. CASE FetchNextPage(t)
  <2>1. NoWrite /\ pc[t] = "saveNext" /\ spent'.crashed = spent.crashed
    BY <1>4, CallsDoNotCrash DEF FetchNextPage
  <2>2. Fail(t) \/ \E p : RedirectTo(t, p, FALSE)
    BY <1>4 DEF FetchNextPage
  <2> QED BY <2>1, <2>2, FailKeepsLone, RedirectKeepsLone
<1> QED BY <1>1, <1>2, <1>3, <1>4 DEF SaveAnswerAndGetNextPage

LEMMA GetViewKeepsLone ==
    ASSUME IInv, NEW t \in Tab, LoneInv(t), GetView(t)
    PROVE  LoneInv(t)' /\ Pinned
<1> USE DEF Holding, Merging, Saving, Completing, Loading
<1>1. CASE OpenPage(t)
  <2>1. NoWrite /\ pc[t] = "viewOpen" /\ spent'.crashed = spent.crashed
    BY <1>1, CallsDoNotCrash DEF OpenPage
  <2>2. Fail(t) \/ Continue(t, "convergeRead", NoLocals)
    BY <1>1 DEF OpenPage
  <2>3. Held("convergeRead", NoLocals, working)
    BY NoneHeld
  <2> QED BY <2>1, <2>2, <2>3, FailKeepsLone, ContinueKeepsLone
<1>2. CASE ConvergeRead(t)
  <2>1. NoWrite /\ pc[t] = "convergeRead" /\ spent'.crashed = spent.crashed
    BY <1>2, CallsDoNotCrash DEF ConvergeRead
  <2>2. Continue(t, "convergeDecide", [loc[t] EXCEPT !.working = working])
    BY <1>2 DEF ConvergeRead
  <2>3. Held("convergeDecide", [loc[t] EXCEPT !.working = working], working)
    BY AtTab, LocalFields DEF Held
  <2> QED BY <2>1, <2>2, <2>3, ContinueKeepsLone
<1>3. CASE CheckForConvergence(t)
  <2> DEFINE p == req[t].page
             j == loc[t].working
             next == IF p = CheckAnswers THEN "checkRead" ELSE "historyRead"
             longer == [loc[t] EXCEPT !.working.history =
                           @ \o FromPage(backup.history, p)]
  <2>1. NoWrite /\ pc[t] = "convergeDecide" /\ spent'.crashed = spent.crashed
    BY <1>3, CallsDoNotCrash DEF CheckForConvergence
  <2>2. CASE Fail(t)
    BY <2>1, <2>2, FailKeepsLone
  <2>3. CASE Continue(t, next, NoLocals)
    <3>1. Held(next, NoLocals, working)
      BY NoneHeld
    <3> QED BY <2>1, <2>3, <3>1, ContinueKeepsLone
  <2>4. ASSUME j # NoCache, Continue(t, "convergeWrite", longer)
        PROVE  LoneInv(t)' /\ Pinned
    <3>1. j = working /\ j \in ConsistentJourney
      BY <2>1, <2>4, AtTab, CopyIsCached DEF ConsistentLocals
    <3> DEFINE history == j.history \o FromPage(backup.history, p)
    <3>2. longer.working = [j EXCEPT !.history = history]
      BY AtTab DEF ConsistentLocals
    <3> HIDE DEF longer, history
    <3>3. Held("convergeWrite", longer, working)
      BY <2>4, <3>1, <3>2 DEF Held, ConsistentJourney
    <3> QED BY <2>1, <2>4, <3>3, ContinueKeepsLone
  <2> QED BY <1>3, <2>2, <2>3, <2>4 DEF CheckForConvergence
<1>4. CASE Converge(t)
  <2>1. pc[t] = "convergeWrite" /\ SetWorking(loc[t].working)
    BY <1>4 DEF Converge, AtStep
  <2>2. loc[t].working # NoCache
    BY <2>1, AtTab DEF LocalsAt
  <2>3. /\ working # NoCache
        /\ loc[t].working.answers = working.answers
        /\ loc[t].working.version = working.version
    BY <2>1 DEF LoneInv, Held
  <2>4. pc'[t] = "redirect" /\ screen'[t] = screen[t]
    BY <1>4, Endings DEF Converge
  <2> QED BY <2>1, <2>2, <2>3, <2>4, SameAnswersKeepLone
<1>5. CASE HistoryRead(t)
  <2>1. NoWrite /\ pc[t] = "historyRead" /\ spent'.crashed = spent.crashed
    BY <1>5, CallsDoNotCrash DEF HistoryRead
  <2>2. Fail(t) \/ Continue(t, "historyWrite", [loc[t] EXCEPT !.working = working])
    BY <1>5 DEF HistoryRead
  <2>3. Held("historyWrite", [loc[t] EXCEPT !.working = working], working)
    BY AtTab, LocalFields DEF Held
  <2>4. req[t].page # CheckAnswers
    BY <2>1 DEF LoneInv, Shown
  <2> QED BY <2>1, <2>2, <2>3, <2>4, FailKeepsLone, ContinueKeepsLone
<1>6. CASE UpdatePageLoadHistory(t)
  <2> DEFINE history == LoadPage(loc[t].working.history, req[t].page)
             new == [loc[t].working EXCEPT !.history = history]
  <2>1. pc[t] = "historyWrite" /\ SetWorking(new)
    BY <1>6 DEF UpdatePageLoadHistory, AtStep
  <2>2. loc[t].working = working /\ working \in ConsistentJourney
    BY <2>1, AtTab, CopyIsCached DEF LocalsAt, ConsistentLocals
  <2>3. req[t].page # CheckAnswers /\ req[t].page \in PageId
    BY <2>1, AtTab DEF LoneInv, Shown, Request
  <2>4. history \in Seq(PageId)
    BY <2>2, <2>3, LoadPageType DEF ConsistentJourney
  <2> HIDE DEF history
  <2>5. /\ new \in ConsistentJourney
        /\ new.version = working.version /\ new.answers = working.answers
    BY <2>2, <2>4 DEF ConsistentJourney
  <2>6. new # NoCache /\ working # NoCache
    BY <2>2, <2>5, NoCacheIsNoRecord
  <2>7. /\ pc'[t] = "mergeRead" /\ screen'[t] = screen[t]
        /\ req'[t].page # CheckAnswers
    BY <1>6, <2>3, Endings DEF UpdatePageLoadHistory
  <2> HIDE DEF new
  <2> QED BY <2>1, <2>5, <2>6, <2>7, SameAnswersKeepLone
<1>7. CASE RenderQuestions(t)
  <2> DEFINE s == [page |-> req[t].page, submitted |-> FALSE, links |-> {}]
  <2>1. NoWrite /\ pc[t] = "mergeRead" /\ spent'.crashed = spent.crashed
    BY <1>7, CallsDoNotCrash DEF RenderQuestions
  <2>2. CASE working = NoCache
    BY <1>7, <2>1, <2>2, FailKeepsLone DEF RenderQuestions
  <2>3. CASE working # NoCache
    <3>1. pc'[t] = "idle" /\ screen'[t] = s
      BY <1>7, <2>3, Endings DEF RenderQuestions
    <3>2. ~OnCheck(s)
      BY <2>1 DEF LoneInv, Shown, OnCheck
    <3>3. Held("idle", loc'[t], working)
      BY NoneHeld
    <3> HIDE DEF s
    <3> QED BY <2>1, <2>3, <3>1, <3>2, <3>3, QuietKeepsLone
  <2> QED BY <2>2, <2>3
<1> QED BY <1>1, <1>2, <1>3, <1>4, <1>5, <1>6, <1>7 DEF GetView

(* The copy of the backup that is restored, beside the validated answers. *)
LEMMA BackupCopied ==
    ASSUME IInv, NEW t \in Tab, NEW label, NEW b,
           Continue(t, label, [loc[t] EXCEPT !.backup = b])
    PROVE  loc'[t].backup = b /\ loc'[t].answers = loc[t].answers
<1> DEFINE l == loc[t]
<1>1. l \in ConsistentLocals
  BY AtTab
<1>2. loc'[t] = [l EXCEPT !.backup = b]
  BY Endings
<1> HIDE DEF l
<1>3. /\ [l EXCEPT !.backup = b].backup = b
      /\ [l EXCEPT !.backup = b].answers = l.answers
  BY <1>1 DEF ConsistentLocals
<1> QED BY <1>2, <1>3 DEF l

LEMMA CheckYourAnswersKeepsLone ==
    ASSUME IInv, NEW t \in Tab, LoneInv(t), CheckYourAnswers(t)
    PROVE  LoneInv(t)' /\ Pinned
<1> USE DEF Holding, Merging, Saving, Completing, Loading
<1>1. CASE CheckRead(t)
  <2>1. NoWrite /\ pc[t] = "checkRead" /\ spent'.crashed = spent.crashed
    BY <1>1, CallsDoNotCrash DEF CheckRead
  <2>2. \E l : Continue(t, "checkValidate", l)
    BY <1>1 DEF CheckRead
  <2>3. \A l : Held("checkValidate", l, working)
    BY NoneHeld
  <2> QED BY <2>1, <2>2, <2>3, ContinueKeepsLone
<1>2. CASE ValidateWorking(t)
  <2>1. NoWrite /\ pc[t] = "checkValidate" /\ spent'.crashed = spent.crashed
    BY <1>2, CallsDoNotCrash DEF ValidateWorking
  <2>2. \E l, label : Continue(t, label, l) /\ label \in {"dropBackup", "checkBackupRead"}
    BY <1>2 DEF ValidateWorking
  <2>3. \A l : Held("dropBackup", l, working) /\ Held("checkBackupRead", l, working)
    BY NoneHeld
  <2> QED BY <2>1, <2>2, <2>3, ContinueKeepsLone
<1>3. CASE CheckBackupRead(t)
  <2>1. NoWrite /\ pc[t] = "checkBackupRead" /\ spent'.crashed = spent.crashed
    BY <1>3, CallsDoNotCrash DEF CheckBackupRead
  <2>2. \E l, label : Continue(t, label, l)
                      /\ label \in {"dropBackup", "checkBackupValidate"}
    BY <1>3 DEF CheckBackupRead
  <2>3. \A l : Held("dropBackup", l, working) /\ Held("checkBackupValidate", l, working)
    BY NoneHeld
  <2> QED BY <2>1, <2>2, <2>3, ContinueKeepsLone
<1>4. CASE ValidateBackup(t)
  <2>1. NoWrite /\ pc[t] = "checkBackupValidate" /\ spent'.crashed = spent.crashed
    BY <1>4, CallsDoNotCrash DEF ValidateBackup
  <2>2. \E l, label : Continue(t, label, l) /\ label \in {"dropBackup", "restoreRead"}
    BY <1>4 DEF ValidateBackup
  <2>3. \A l : Held("dropBackup", l, working) /\ Held("restoreRead", l, working)
    BY NoneHeld
  <2> QED BY <2>1, <2>2, <2>3, ContinueKeepsLone
<1>5. CASE RestoreRead(t)
  <2>1. NoWrite /\ pc[t] = "restoreRead" /\ spent'.crashed = spent.crashed
    BY <1>5, CallsDoNotCrash DEF RestoreRead
  <2>2. CASE backup = NoCache
    BY <1>5, <2>1, <2>2, FailKeepsLone DEF RestoreRead
  <2>3. CASE backup # NoCache
    <3>1. /\ pc'[t] = "restoreWrite" /\ screen'[t] = screen[t]
          /\ loc'[t].backup = backup
      <4>1. Continue(t, "restoreWrite", [loc[t] EXCEPT !.backup = backup])
        BY <1>5, <2>3 DEF RestoreRead
      <4>2. loc'[t].backup = backup
        BY <4>1, BackupCopied
      <4>3. pc'[t] = "restoreWrite" /\ screen'[t] = screen[t]
        BY <4>1, Endings
      <4> QED BY <4>2, <4>3
    <3>2. /\ working' = working /\ backup' = backup /\ api' = api
      BY <2>1 DEF NoWrite
    <3>3. Held("restoreWrite", loc'[t], working)
      BY NoneHeld
    <3>4. Validated(screen[t], "restoreWrite", loc'[t], working)
      BY <2>1 DEF LoneInv, Validated
    <3>5. Shown(screen[t], "restoreWrite", req'[t], working)
      BY <2>1 DEF LoneInv, Shown
    <3>6. ~spent.crashed => SameVersion("restoreWrite", loc'[t], working, backup)
      BY <2>1, <2>3, <3>1 DEF LoneInv, SameVersion
    <3>7. LoneInv(t)'
      BY <2>1, <3>1, <3>2, <3>3, <3>4, <3>5, <3>6 DEF LoneInv, CompletedAssessmentIsValid
    <3> QED BY <3>2, <3>7 DEF Pinned
  <2> QED BY <2>2, <2>3
<1>6. CASE ResetWorkingCacheToBackupCache(t)
  <2> DEFINE new == WithoutEdit(loc[t].backup)
  <2>1. pc[t] = "restoreWrite" /\ SetWorking(new)
    BY <1>6 DEF ResetWorkingCacheToBackupCache, AtStep
  <2>2. /\ loc[t].backup \in ConsistentBackup /\ loc[t].answers \in Complete
        /\ loc[t].answers # NoSheet
    BY <2>1, AtTab, WizardAssumption DEF LocalsAt, ConsistentLocals
  <2>3. new \in ConsistentJourney /\ new.version = loc[t].backup.version
    BY <2>2 DEF WithoutEdit, ConsistentJourney, ConsistentBackup
  <2>4. new # NoCache
    BY <2>3, NoCacheIsNoRecord
  <2>5. ~spent.crashed => new.version = working.version
    BY <2>1, <2>3 DEF LoneInv, SameVersion
  <2>6. pc'[t] = "dropBackup" /\ screen'[t] = screen[t] /\ loc'[t].answers # NoSheet
    <3>1. Continue(t, "dropBackup", [loc[t] EXCEPT !.backup = NoCache])
      BY <1>6 DEF ResetWorkingCacheToBackupCache
    <3> QED BY <2>2, <3>1, BackupCopied, Endings
  <2> HIDE DEF new
  <2>7. Validated(screen'[t], pc'[t], loc'[t], new)
    BY <2>6 DEF Validated
  <2> QED BY <2>1, <2>4, <2>5, <2>6, <2>7, WritingKeepsLone
<1>7. CASE DropBackup(t)
  <2>1. /\ pc[t] = "dropBackup" /\ pc'[t] = "updateRead"
        /\ screen'[t] = screen[t] /\ req'[t] = req[t] /\ loc'[t] = loc[t]
    BY <1>7, Endings DEF DropBackup, AtStep
  <2>2. working' = working /\ backup' = NoCache /\ api' = api /\ spent' = spent
    BY <1>7 DEF DropBackup, SetBackup
  <2>3. Held("updateRead", loc[t], working)
    BY NoneHeld
  <2>4. Validated(screen[t], "updateRead", loc[t], working)
    BY <2>1 DEF LoneInv, Validated
  <2>5. Shown(screen[t], "updateRead", req[t], working)
    BY <2>1 DEF LoneInv, Shown
  <2>6. SameVersion("updateRead", loc[t], working, NoCache)
    BY DEF SameVersion
  <2>7. LoneInv(t)'
    BY <2>1, <2>2, <2>3, <2>4, <2>5, <2>6 DEF LoneInv, CompletedAssessmentIsValid
  <2> QED BY <2>2, <2>7 DEF Pinned
<1>8. CASE UpdateRead(t)
  <2>1. NoWrite /\ pc[t] = "updateRead" /\ spent'.crashed = spent.crashed
    BY <1>8, CallsDoNotCrash DEF UpdateRead
  <2>2. Fail(t) \/ Continue(t, "updateWrite", [loc[t] EXCEPT !.working = working])
    BY <1>8 DEF UpdateRead
  <2>3. Held("updateWrite", [loc[t] EXCEPT !.working = working], working)
    BY AtTab, LocalFields DEF Held
  <2>4. [loc[t] EXCEPT !.working = working].answers = loc[t].answers
    BY AtTab, LocalFields
  <2> QED BY <2>1, <2>2, <2>3, <2>4, FailKeepsLone, ContinueKeepsLone
<1>9. CASE UpdateCachesOnCheckYourAnswers(t)
  <2> DEFINE j == loc[t].working
             merged == loc[t].answers
             answers == IF merged = NoSheet THEN j.answers ELSE merged
             history == IF Loaded(j.history, CheckAnswers) THEN j.history
                        ELSE Append(j.history, CheckAnswers)
             new == [j EXCEPT !.answers = answers, !.history = history]
  <2>1. pc[t] = "updateWrite" /\ SetWorking(new)
    BY <1>9 DEF UpdateCachesOnCheckYourAnswers, AtStep
  <2>2. /\ j = working /\ working \in ConsistentJourney
        /\ merged \in Complete \cup {NoSheet}
    BY <2>1, AtTab, CopyIsCached DEF LocalsAt, ConsistentLocals
  <2>3. /\ merged \in ConsistentSheet \cup {NoSheet} /\ history \in Seq(PageId)
        /\ j.answers \in ConsistentSheet
    BY <2>2, AtTab DEF ConsistentLocals, ConsistentJourney, PageId
  <2> HIDE DEF history
  <2>4. /\ new \in ConsistentJourney
        /\ new.version = working.version /\ new.answers = answers
    BY <2>2, <2>3 DEF ConsistentJourney
  <2>5. new # NoCache /\ working # NoCache
    BY <2>2, <2>4, NoCacheIsNoRecord
  <2>6. CASE merged # NoSheet
    <3>1. pc'[t] = "idle"
      BY <1>9, <2>6, Endings DEF UpdateCachesOnCheckYourAnswers
    <3>2. Validated(screen'[t], pc'[t], loc'[t], new)
      BY <2>2, <2>4, <2>6 DEF Validated
    <3> HIDE DEF new
    <3> QED BY <2>1, <2>4, <2>5, <3>1, <3>2, WritingKeepsLone
  <2>7. CASE merged = NoSheet
    <3>1. pc'[t] = "wipeRead" /\ screen'[t] = screen[t]
      BY <1>9, <2>7, Endings DEF UpdateCachesOnCheckYourAnswers
    <3>2. OnCheck(screen[t]) => working.answers \in Complete
      BY <2>1, <2>5, <2>7 DEF LoneInv, Validated
    <3>3. Validated(screen'[t], pc'[t], loc'[t], new)
      BY <2>2, <2>4, <2>7, <3>1, <3>2 DEF Validated
    <3> HIDE DEF new
    <3> QED BY <2>1, <2>4, <2>5, <3>1, <3>3, WritingKeepsLone
  <2> QED BY <2>6, <2>7
<1>10. CASE WipeRead(t)
  <2>1. NoWrite /\ pc[t] = "wipeRead" /\ spent'.crashed = spent.crashed
    BY <1>10, CallsDoNotCrash DEF WipeRead
  <2>2. Fail(t) \/ Continue(t, "wipeWrite", [loc[t] EXCEPT !.working = working])
    BY <1>10 DEF WipeRead
  <2>3. Held("wipeWrite", [loc[t] EXCEPT !.working = working], working)
    BY AtTab, LocalFields DEF Held
  <2> QED BY <2>1, <2>2, <2>3, FailKeepsLone, ContinueKeepsLone
<1>11. CASE ResetPageLoadHistory(t)
  <2> DEFINE new == [loc[t].working EXCEPT !.history = << >>]
  <2>1. pc[t] = "wipeWrite" /\ SetWorking(new)
    BY <1>11 DEF ResetPageLoadHistory, AtStep
  <2>2. loc[t].working = working /\ working \in ConsistentJourney
    BY <2>1, AtTab, CopyIsCached DEF LocalsAt, ConsistentLocals
  <2>3. << >> \in Seq(PageId)
    OBVIOUS
  <2>4. /\ new \in ConsistentJourney
        /\ new.version = working.version /\ new.answers = working.answers
    BY <2>2, <2>3 DEF ConsistentJourney
  <2>5. new # NoCache /\ working # NoCache
    BY <2>2, <2>4, NoCacheIsNoRecord
  <2>6. pc'[t] \in {"idle", "redirect"} /\ screen'[t] \in {screen[t], Elsewhere}
    BY <1>11, Endings DEF ResetPageLoadHistory
  <2> HIDE DEF new
  <2> QED BY <2>1, <2>4, <2>5, <2>6, SameAnswersKeepLone
<1> QED BY <1>1, <1>2, <1>3, <1>4, <1>5, <1>6, <1>7, <1>8, <1>9, <1>10, <1>11
        DEF CheckYourAnswers

LEMMA EditAndCompleteKeepsLone ==
    ASSUME IInv, NEW t \in Tab, LoneInv(t), EditAndComplete(t)
    PROVE  LoneInv(t)' /\ Pinned
<1> USE DEF Holding, Merging, Saving, Completing, Loading
<1>1. CASE EditRead(t)
  <2>1. NoWrite /\ pc[t] = "editRead" /\ spent'.crashed = spent.crashed
    BY <1>1, CallsDoNotCrash DEF EditRead
  <2>2. Fail(t) \/ Continue(t, "editBackup", [loc[t] EXCEPT !.working = working])
    BY <1>1 DEF EditRead
  <2>3. Held("editBackup", [loc[t] EXCEPT !.working = working], working)
    BY AtTab, LocalFields DEF Held
  <2> QED BY <2>1, <2>2, <2>3, FailKeepsLone, ContinueKeepsLone
<1>2. CASE BackUpWorking(t)
  <2> DEFINE b == WithEdit(loc[t].working, req[t].page)
  <2>1. /\ pc[t] = "editBackup" /\ pc'[t] = "editWorking"
        /\ screen'[t] = screen[t] /\ loc'[t] = loc[t]
    BY <1>2, Endings DEF BackUpWorking, AtStep
  <2>2. working' = working /\ backup' = b /\ api' = api /\ spent' = spent
    BY <1>2 DEF BackUpWorking, SetBackup
  <2>3. loc[t].working = working /\ working # NoCache
    BY <2>1, AtTab, CopyIsCached DEF LocalsAt
  <2>4. b.version = working.version
    BY <2>3 DEF WithEdit
  <2> HIDE DEF b
  <2>5. Held("editWorking", loc[t], working)
    BY <2>3 DEF Held
  <2>6. Validated(screen[t], "editWorking", loc[t], working)
    BY <2>1 DEF LoneInv, Validated
  <2>7. Shown(screen[t], "editWorking", req'[t], working)
    BY <2>3 DEF Shown
  <2>8. SameVersion("editWorking", loc[t], working, b)
    BY <2>3, <2>4 DEF SameVersion
  <2>9. LoneInv(t)'
    BY <2>1, <2>2, <2>5, <2>6, <2>7, <2>8 DEF LoneInv, CompletedAssessmentIsValid
  <2> QED BY <2>2, <2>9 DEF Pinned
<1>3. CASE StartEdit(t)
  <2> DEFINE history == BeforePage(loc[t].working.history, req[t].page)
             new == [loc[t].working EXCEPT !.history = history]
  <2>1. pc[t] = "editWorking" /\ SetWorking(new)
    BY <1>3 DEF StartEdit, AtStep
  <2>2. /\ loc[t].working = working /\ working \in ConsistentJourney
        /\ req[t].page \in PageId
    BY <2>1, AtTab, CopyIsCached DEF LocalsAt, ConsistentLocals, Request
  <2>3. history \in Seq(PageId)
    BY <2>2, BeforePageType DEF ConsistentJourney
  <2> HIDE DEF history
  <2>4. /\ new \in ConsistentJourney
        /\ new.version = working.version /\ new.answers = working.answers
    BY <2>2, <2>3 DEF ConsistentJourney
  <2>5. new # NoCache /\ working # NoCache
    BY <2>2, <2>4, NoCacheIsNoRecord
  <2>6. pc'[t] = "redirect" /\ screen'[t] = screen[t]
    BY <1>3, Endings DEF StartEdit
  <2> HIDE DEF new
  <2> QED BY <2>1, <2>4, <2>5, <2>6, SameAnswersKeepLone
<1>4. CASE CompleteRead(t)
  <2>1. NoWrite /\ pc[t] = "completeRead" /\ spent'.crashed = spent.crashed
    BY <1>4, CallsDoNotCrash DEF CompleteRead
  <2>2. Fail(t) \/ Continue(t, "completePost", [loc[t] EXCEPT !.working = working])
    BY <1>4 DEF CompleteRead
  <2>3. Held("completePost", [loc[t] EXCEPT !.working = working], working)
    BY AtTab, LocalFields DEF Held
  <2> QED BY <2>1, <2>2, <2>3, FailKeepsLone, ContinueKeepsLone
<1>5. CASE CompleteAssessment(t)
  <2> DEFINE stored == [answers |-> loc[t].working.answers,
                        version |-> loc[t].working.version]
  <2>1. pc[t] = "completePost" /\ working' = working /\ backup' = backup
    BY <1>5 DEF CompleteAssessment, AtStep
  <2>2. /\ OnCheck(screen[t])
        /\ loc[t].working = working /\ working # NoCache
    BY <2>1, AtTab, CopyIsCached DEF LocalsAt, LoneInv, Shown
  <2>3. working.answers \in Complete
    BY <2>1, <2>2 DEF LoneInv, Validated
  <2>4. api' \in {api, stored}
    BY <1>5 DEF CompleteAssessment
  <2>5. CompletedAssessmentIsValid'
    BY <2>2, <2>3, <2>4 DEF LoneInv, CompletedAssessmentIsValid
  <2>6. spent'.crashed = spent.crashed
    <3>1. spent.crashed \in BOOLEAN
      BY DEF IInv, Spent
    <3>2. UNCHANGED spent \/ Mishap("fault")
      BY <1>5 DEF CompleteAssessment
    <3> QED BY <3>1, <3>2, MishapCrashes
  <2>7. \/ pc'[t] = "deleteWorking" /\ screen'[t] = screen[t]
        \/ pc'[t] = "idle" /\ screen'[t] = Elsewhere
    BY <1>5, Endings DEF CompleteAssessment
  <2>8. Held(pc'[t], loc'[t], working)
    BY <2>7, NoneHeld
  <2>9. Validated(screen'[t], pc'[t], loc'[t], working)
    BY <2>3 DEF Validated
  <2>10. Shown(screen'[t], pc'[t], req'[t], working)
    BY <2>2, <2>7 DEF Shown
  <2>11. ~spent.crashed => SameVersion(pc'[t], loc'[t], working, backup)
    BY <2>2, <2>7 DEF LoneInv, SameVersion
  <2>12. LoneInv(t)'
    BY <2>1, <2>5, <2>6, <2>8, <2>9, <2>10, <2>11 DEF LoneInv
  <2> QED BY <2>1, <2>12 DEF Pinned
<1>6. CASE SubmitAssessment(t)
  <2>1. NoWrite /\ pc[t] = "submitPost" /\ spent'.crashed = spent.crashed
    BY <1>6, CallsDoNotCrash DEF SubmitAssessment
  <2>2. Fail(t) \/ Continue(t, "deleteWorking", NoLocals)
    BY <1>6 DEF SubmitAssessment
  <2>3. Held("deleteWorking", NoLocals, working)
    BY NoneHeld
  <2> QED BY <2>1, <2>2, <2>3, FailKeepsLone, ContinueKeepsLone
<1>7. CASE DeleteWorking(t)
  <2>1. pc'[t] = "deleteBackup"
    BY <1>7, Endings DEF DeleteWorking
  <2>2. working' = NoCache /\ backup' = backup /\ api' = api /\ spent' = spent
    BY <1>7 DEF DeleteWorking, SetWorking
  <2>3. Held("deleteBackup", loc'[t], NoCache)
    BY NoneHeld
  <2>4. Validated(screen'[t], "deleteBackup", loc'[t], NoCache)
    BY DEF Validated
  <2>5. Shown(screen'[t], "deleteBackup", req'[t], NoCache)
    BY DEF Shown
  <2>6. SameVersion("deleteBackup", loc'[t], NoCache, backup)
    BY DEF SameVersion
  <2>7. LoneInv(t)'
    BY <2>1, <2>2, <2>3, <2>4, <2>5, <2>6 DEF LoneInv, CompletedAssessmentIsValid
  <2> QED BY <2>2, <2>7 DEF Pinned
<1>8. CASE DeleteBackup(t)
  <2>1. pc'[t] = "idle" /\ screen'[t] = Elsewhere
    BY <1>8, Endings DEF DeleteBackup
  <2>2. working' = working /\ backup' = NoCache /\ api' = api /\ spent' = spent
    BY <1>8 DEF DeleteBackup, SetBackup
  <2>3. Held("idle", loc'[t], working)
    BY NoneHeld
  <2>4. Validated(Elsewhere, "idle", loc'[t], working)
    BY DEF Validated, OnCheck
  <2>5. Shown(Elsewhere, "idle", req'[t], working)
    BY DEF Shown
  <2>6. SameVersion("idle", loc'[t], working, NoCache)
    BY DEF SameVersion
  <2>7. LoneInv(t)'
    BY <2>1, <2>2, <2>3, <2>4, <2>5, <2>6 DEF LoneInv, CompletedAssessmentIsValid
  <2> QED BY <2>2, <2>7 DEF Pinned
<1> QED BY <1>1, <1>2, <1>3, <1>4, <1>5, <1>6, <1>7, <1>8 DEF EditAndComplete

-----------------------------------------------------------------------------
(* The user and the environment of the one tab.                            *)

LEMMA SendKeepsLone ==
    ASSUME IInv, NEW t \in Tab, LoneInv(t),
           NEW label \in {"version", "saveOpen", "viewOpen", "editRead", "completeRead",
                          "submitPost"},
           NEW r, Send(t, label, r),
           label = "saveOpen" => ~OnCheck(screen[t]),
           label = "completeRead" => OnCheck(screen[t])
    PROVE  LoneInv(t)' /\ Pinned
<1>1. /\ pc[t] = "idle" /\ pc'[t] = label
      /\ screen'[t] = screen[t] /\ NoWrite /\ spent'.crashed = spent.crashed
  BY Endings
<1>2. Held(label, loc'[t], working)
  BY NoneHeld DEF Holding
<1> QED BY <1>1, <1>2, QuietKeepsLone DEF Merging, Saving, Completing, Loading

(* A second click on the page shown is a request of another tab. *)
LEMMA NoClickAlone ==
    ASSUME NEW t \in Tab, Tab = {t}
    PROVE  \A u \in Tab : ~ClickAgain(t, u)
BY DEF ClickAgain, InFlight

LEMMA UseKeepsLone ==
    ASSUME IInv, NEW t \in Tab, Tab = {t}, LoneInv(t), Use(t)
    PROVE  LoneInv(t)' /\ Pinned
<1>1. CASE OpenPathway(t) \/ Revisit(t) \/ Change(t) \/ ChangeFromProfile(t)
           \/ SubmitReport(t)
  <2>1. \E label \in {"version", "viewOpen", "editRead", "submitPost"} : \E r :
           Send(t, label, r)
    BY <1>1 DEF OpenPathway, Revisit, Change, ChangeFromProfile, SubmitReport
  <2> QED BY <2>1, SendKeepsLone
<1>2. CASE ContinueForm(t)
  <2>1. ~OnCheck(screen[t])
    BY <1>2, FormAssumption DEF ContinueForm, Shows, OnCheck
  <2>2. \E r : Send(t, "saveOpen", r)
    BY <1>2 DEF ContinueForm
  <2> QED BY <2>1, <2>2, SendKeepsLone
<1>3. CASE Confirm(t)
  <2>1. OnCheck(screen[t])
    BY <1>3 DEF Confirm, Shows, OnCheck
  <2>2. \E r : Send(t, "completeRead", r)
    BY <1>3 DEF Confirm
  <2> QED BY <2>1, <2>2, SendKeepsLone
<1>4. CASE Leave(t)
  <2>1. /\ pc[t] = "idle" /\ pc'[t] = "idle" /\ screen'[t] = Elsewhere
        /\ NoWrite /\ spent'.crashed = spent.crashed
    BY <1>4 DEF Leave, NoWrite, IInv, TabInv
  <2>2. Held("idle", loc'[t], working)
    BY NoneHeld DEF Holding
  <2> QED BY <2>1, <2>2, QuietKeepsLone DEF Merging, Saving, Completing, Loading, OnCheck
<1> QED BY <1>1, <1>2, <1>3, <1>4, NoClickAlone DEF Use

LEMMA RedirectedKeepsLone ==
    ASSUME IInv, NEW t \in Tab, LoneInv(t), Redirected(t)
    PROVE  LoneInv(t)' /\ Pinned
<1>1. /\ pc[t] = "redirect" /\ pc'[t] \in {"viewOpen", "idle"}
      /\ screen'[t] = screen[t] /\ NoWrite /\ spent'.crashed = spent.crashed
  BY Endings DEF Redirected, FollowRedirect, AbandonRedirect, NoWrite, IInv, TabInv
<1>2. Held(pc'[t], loc'[t], working)
  BY <1>1, NoneHeld DEF Holding
<1> QED BY <1>1, <1>2, QuietKeepsLone DEF Merging, Saving, Completing, Loading

LEMMA CrashKeepsLone ==
    ASSUME IInv, NEW t \in Tab, LoneInv(t), Crash(t)
    PROVE  LoneInv(t)' /\ Pinned
<1>1. /\ pc'[t] = "idle" /\ screen'[t] = Elsewhere /\ spent'.crashed
      /\ working' = working /\ backup' = backup /\ api' = api
  BY Endings, MishapCrashes DEF Crash, NoWrite
<1>2. Held("idle", loc'[t], working)
  BY NoneHeld DEF Holding
<1>3. Validated(Elsewhere, "idle", loc'[t], working)
  BY DEF Validated, OnCheck
<1>4. Shown(Elsewhere, "idle", req'[t], working)
  BY DEF Shown, Saving, Completing, Loading
<1>5. LoneInv(t)'
  BY <1>1, <1>2, <1>3, <1>4 DEF LoneInv, CompletedAssessmentIsValid
<1> QED BY <1>1, <1>5 DEF Pinned

(* The working assessment goes with the page shown, in the one tab there   *)
(* is; and after the backup, unless a handler was killed.                  *)
LEMMA EnvironmentKeepsLone ==
    ASSUME IInv, NEW t \in Tab, Tab = {t}, LoneInv(t), Environment
    PROVE  LoneInv(t)' /\ Pinned
<1>1. CASE ExpireWorking
  <2>1. spent'.crashed = spent.crashed
    <3>1. spent.crashed \in BOOLEAN
      BY DEF IInv, Spent
    <3> QED BY <1>1, <3>1, MishapCrashes DEF ExpireWorking
  <2>2. /\ pc'[t] = "idle" /\ screen'[t] = Elsewhere
        /\ working' = NoCache /\ backup' = backup /\ api' = api
        /\ backup = NoCache \/ spent.crashed
    BY <1>1 DEF ExpireWorking, IInv, TabInv
  <2>3. Held("idle", loc'[t], NoCache)
    BY NoneHeld DEF Holding
  <2>4. Validated(Elsewhere, "idle", loc'[t], NoCache)
    BY DEF Validated
  <2>5. Shown(Elsewhere, "idle", req'[t], NoCache)
    BY DEF Shown, Saving, Completing, Loading
  <2>6. ~spent.crashed => SameVersion("idle", loc'[t], NoCache, backup)
    BY <2>2 DEF SameVersion
  <2>7. LoneInv(t)'
    BY <2>1, <2>2, <2>3, <2>4, <2>5, <2>6 DEF LoneInv, CompletedAssessmentIsValid
  <2> QED BY <2>2, <2>7 DEF Pinned
<1>2. CASE ExpireBackup
  <2>1. spent'.crashed = spent.crashed
    <3>1. spent.crashed \in BOOLEAN
      BY DEF IInv, Spent
    <3> QED BY <1>2, <3>1, MishapCrashes DEF ExpireBackup
  <2>2. /\ working' = working /\ backup' = NoCache
        /\ UNCHANGED <<api, screen, pc, req, loc>>
    BY <1>2 DEF ExpireBackup
  <2>3. ~spent.crashed => SameVersion(pc[t], loc[t], working, NoCache)
    BY DEF LoneInv, SameVersion
  <2>4. LoneInv(t)'
    BY <2>1, <2>2, <2>3 DEF LoneInv, CompletedAssessmentIsValid
  <2> QED BY <2>2, <2>4 DEF Pinned
<1> QED BY <1>1, <1>2 DEF Environment

LEMMA LoneStep ==
    ASSUME IInv, NEW t \in Tab, Tab = {t}, LoneInv(t), [Next]_vars
    PROVE  LoneInv(t)' /\ Pinned
<1>1. CASE Handle(t)
  BY <1>1, GetFirstPageKeepsLone, SaveAnswerAndGetNextPageKeepsLone,
     GetViewKeepsLone, CheckYourAnswersKeepsLone, EditAndCompleteKeepsLone DEF Handle
<1>2. CASE Use(t) \/ Redirected(t) \/ Crash(t)
  BY <1>2, UseKeepsLone, RedirectedKeepsLone, CrashKeepsLone
<1>3. CASE Environment
  BY <1>3, EnvironmentKeepsLone
<1>4. CASE UNCHANGED vars
  BY <1>4 DEF vars, LoneInv, CompletedAssessmentIsValid, Pinned
<1> QED BY <1>1, <1>2, <1>3, <1>4 DEF Next

LEMMA InitLone ==
    ASSUME NEW t \in Tab, Init
    PROVE  LoneInv(t)
<1>1. Held("idle", loc[t], working)
  BY NoneHeld DEF Holding
<1>2. Validated(Elsewhere, "idle", loc[t], NoCache)
  BY DEF Validated
<1>3. Shown(Elsewhere, "idle", req[t], NoCache)
  BY DEF Shown, Saving, Completing, Loading
<1>4. SameVersion("idle", loc[t], NoCache, NoCache)
  BY DEF SameVersion
<1> QED BY <1>1, <1>2, <1>3, <1>4 DEF Init, LoneInv, CompletedAssessmentIsValid

(* With one tab, a step from a state of the invariants leads to one, and   *)
(* is not one that lets the version drift.                                 *)
THEOREM LoneInvariant ==
    ASSUME NEW t \in Tab, Tab = {t}
    PROVE  Spec => [](IInv /\ LoneInv(t))
<1>1. Init => IInv /\ LoneInv(t)
  BY InitEstablishes, InitLone
<1>2. IInv /\ LoneInv(t) /\ [Next]_vars => (IInv /\ LoneInv(t))'
  BY NextKeeps, LoneStep
<1> QED BY <1>1, <1>2, PTL DEF Spec

(* What Confirm posts with one tab is what the API has validated, whatever *)
(* the form: Check Your Answers stays over the answers validated for it,   *)
(* however often the user goes back, drops a redirect or edits, and        *)
(* whatever calls fail, keys expire and handlers die in between.           *)
THEOREM CompletedIsValid ==
    ASSUME NEW t \in Tab, Tab = {t}
    PROVE  Spec => []CompletedAssessmentIsValid
<1>1. IInv /\ LoneInv(t) => CompletedAssessmentIsValid
  BY DEF LoneInv
<1> QED BY <1>1, LoneInvariant, PTL

(* With one tab and no handler killed, the version an assessment is cached *)
(* with stays: a backup is of the version of the working assessment it is  *)
(* restored over, and no backup outlives the assessment it was made of.    *)
THEOREM VersionStays ==
    ASSUME NEW t \in Tab, Tab = {t}
    PROVE  Spec => VersionPinned
<1>1. IInv /\ LoneInv(t) /\ [Next]_vars
         => [~spent.crashed /\ working # NoCache /\ working' # NoCache
               => working'.version = working.version]_vars
  BY LoneStep DEF Pinned
<1> QED BY <1>1, LoneInvariant, PTL DEF Spec, VersionPinned

-----------------------------------------------------------------------------
(* A journey that the API would accept, with one tab and no failed calls.  *)

Checking == {"checkValidate", "checkBackupRead", "checkBackupValidate",
             "dropBackup", "updateRead", "updateWrite", "wipeRead", "wipeWrite"}

(* On Check Your Answers: neither the working nor the backup answers were  *)
(* found valid, or the backup is still to be asked about.                  *)
Rejected(label, l) ==
    \/ label \in {"checkBackupRead", "checkBackupValidate", "wipeRead", "wipeWrite"}
    \/ label \in Merging /\ l.answers = NoSheet

(* Then the answers of the journey that is cached are what the API has     *)
(* said no to.                                                             *)
Judged(label, l, w) ==
    w # NoCache =>
        /\ label = "checkValidate" => l.answers = AnsweredQuestions(w)
        /\ Rejected(label, l) => AnsweredQuestions(w) \notin Complete

(* To have loaded Check Your Answers changes nothing of the journey.       *)
LEMMA AnsweredWithCheckAnswers ==
    ASSUME NEW j \in ConsistentJourney, NEW k \in ConsistentJourney,
           k.answers = j.answers,
           \/ k.history = j.history
           \/ k.history = Append(j.history, CheckAnswers)
    PROVE  AnsweredQuestions(k) = AnsweredQuestions(j)
<1>1. j.history \in Seq(PageId)
  BY DEF ConsistentJourney
<1>2. ASSUME NEW q \in Question
      PROVE  Loaded(k.history, PageOf[q]) = Loaded(j.history, PageOf[q])
  <2>1. PageOf[q] # CheckAnswers
    BY FormAssumption
  <2>2. CASE k.history = Append(j.history, CheckAnswers)
    <3>1. /\ Len(k.history) = Len(j.history) + 1
          /\ k.history[Len(j.history) + 1] = CheckAnswers
          /\ \A i \in 1..Len(j.history) : k.history[i] = j.history[i]
      BY <1>1, <2>2 DEF PageId
    <3> QED BY <1>1, <2>1, <3>1 DEF Loaded
  <2> QED BY <2>2 DEF Loaded
<1> QED BY <1>2 DEF AnsweredQuestions

LEMMA NotChecking ==
    ASSUME NEW label, label \notin Checking, NEW l, NEW w
    PROVE  Judged(label, l, w)
BY DEF Judged, Rejected, Checking, Merging

(* A step on Check Your Answers that writes nothing to the working key.    *)
LEMMA ContinueKeepsJudged ==
    ASSUME IInv, NEW t \in Tab, working' = working,
           NEW label, NEW l, Continue(t, label, l), Judged(label, l, working)
    PROVE  Judged(pc'[t], loc'[t], working')
BY Endings

LEMMA OthersKeepJudged ==
    ASSUME IInv, NEW t \in Tab, Tab = {t},
           \/ GetFirstPage(t) \/ SaveAnswerAndGetNextPage(t) \/ GetView(t)
           \/ EditAndComplete(t) \/ Use(t) \/ Redirected(t) \/ Crash(t)
    PROVE  Judged(pc'[t], loc'[t], working')
<1> DEFINE Others == Label \ Checking
           Away == pc'[t] \notin Checking
<1>1. /\ \A label \in Others : \A l : Continue(t, label, l) => Away
      /\ \A s : Show(t, s) => Away
      /\ Fail(t) => Away
      /\ \A p, submitted : RedirectTo(t, p, submitted) => Away
      /\ \A label \in Others : \A r : Send(t, label, r) => Away
  BY Endings DEF Checking
<1>2. \A j : Initialised(t, j) => Away
  BY InitialisedEnds DEF Checking
<1>3. {"version", "prefill", "initRead", "initWrite", "firstNext", "saveOpen",
       "answerRead", "answerWrite", "saveNext", "viewOpen", "convergeRead",
       "convergeDecide", "convergeWrite", "historyRead", "historyWrite", "mergeRead",
       "checkRead", "editRead", "editBackup", "editWorking", "completeRead",
       "completePost", "submitPost", "deleteWorking", "deleteBackup"} \subseteq Others
  BY DEF Label, Checking
<1>4. Leave(t) \/ FollowRedirect(t) => Away
  BY DEF Leave, FollowRedirect, Checking, IInv, TabInv
<1> HIDE DEF Others, Away
<1>5. GetFirstPage(t) => Away
  BY <1>1, <1>2, <1>3
     DEF GetFirstPage, GetLatestAssessmentVersion, GetCheckAnswersPage,
         InitialiseCacheRead, InitialiseCache, FetchFirstPage
<1>6. SaveAnswerAndGetNextPage(t) => Away
  BY <1>1, <1>3
     DEF SaveAnswerAndGetNextPage, OpenSavedPage, AnswerRead, SaveAnswers, FetchNextPage
<1>7. GetView(t) => Away
  <2>1. (IF req[t].page = CheckAnswers THEN "checkRead" ELSE "historyRead") \in Others
    BY <1>3
  <2>2. CheckForConvergence(t) => Away
    BY <1>1, <1>3, <2>1 DEF CheckForConvergence
  <2> QED BY <1>1, <1>3, <2>2
          DEF GetView, OpenPage, ConvergeRead, Converge, HistoryRead,
              UpdatePageLoadHistory, RenderQuestions
<1>8. EditAndComplete(t) => Away
  BY <1>1, <1>3
     DEF EditAndComplete, EditRead, BackUpWorking, StartEdit, CompleteRead,
         CompleteAssessment, SubmitAssessment, DeleteWorking, DeleteBackup
<1>9. Use(t) => Away
  BY <1>1, <1>3, <1>4, NoClickAlone
     DEF Use, OpenPathway, Revisit, ContinueForm, Change, ChangeFromProfile,
         Confirm, SubmitReport
<1>10. Redirected(t) \/ Crash(t) => Away
  BY <1>1, <1>4 DEF Redirected, AbandonRedirect, Crash
<1>11. Away
  BY <1>5, <1>6, <1>7, <1>8, <1>9, <1>10
<1> QED BY <1>11, NotChecking DEF Away

LEMMA CheckYourAnswersKeepsJudged ==
    ASSUME IInv, NEW t \in Tab, LoneInv(t), "fault" \notin Mishaps,
           Judged(pc[t], loc[t], working), CheckYourAnswers(t)
    PROVE  Judged(pc'[t], loc'[t], working')
<1> USE DEF Rejected, Merging
<1>1. \A label : ~FailedCall(t, label)
  BY DEF FailedCall, Mishap
<1>2. \A label : ReadStep(t, label) => pc[t] = label /\ working' = working
  BY DEF ReadStep, AtStep, NoWrite
<1>3. Fail(t) => Judged(pc'[t], loc'[t], working')
  BY Endings, NotChecking DEF Checking
<1>4. Judged("dropBackup", NoLocals, working)
         <=> (working # NoCache => AnsweredQuestions(working) \notin Complete)
  BY DEF Judged, NoLocals
<1>5. CASE CheckRead(t)
  <2> DEFINE s == IF working = NoCache THEN NoSheet ELSE AnsweredQuestions(working)
             l == [loc[t] EXCEPT !.answers = s]
  <2>1. Continue(t, "checkValidate", l)
    BY <1>5 DEF CheckRead
  <2>2. l.answers = s
    BY AtTab, LocalFields
  <2> HIDE DEF l
  <2>3. Judged("checkValidate", l, working)
    BY <2>2 DEF Judged
  <2> QED BY <1>2, <1>5, <2>1, <2>3, ContinueKeepsJudged DEF CheckRead
<1>6. CASE ValidateWorking(t)
  <2>1. pc[t] = "checkValidate" /\ working' = working
    BY <1>1, <1>2, <1>6 DEF ValidateWorking
  <2>2. CASE loc[t].answers \in Complete
    <3>1. Judged("dropBackup", loc[t], working)
      BY <2>2, WizardAssumption DEF Judged
    <3> QED BY <1>1, <1>6, <2>1, <2>2, <3>1, ContinueKeepsJudged DEF ValidateWorking
  <2>3. CASE loc[t].answers \notin Complete
    <3>1. Judged("checkBackupRead", NoLocals, working)
      BY <2>1, <2>3 DEF Judged
    <3> QED BY <1>1, <1>6, <2>1, <2>3, <3>1, ContinueKeepsJudged DEF ValidateWorking
  <2> QED BY <2>2, <2>3
<1>7. CASE CheckBackupRead(t)
  <2>1. pc[t] = "checkBackupRead" /\ working' = working
    BY <1>2, <1>7 DEF CheckBackupRead
  <2>2. /\ Judged("dropBackup", NoLocals, working)
        /\ \A l : Judged("checkBackupValidate", l, working)
    BY <1>4, <2>1 DEF Judged
  <2> QED BY <1>7, <2>1, <2>2, ContinueKeepsJudged DEF CheckBackupRead
<1>8. CASE ValidateBackup(t)
  <2>1. pc[t] = "checkBackupValidate" /\ working' = working
    BY <1>1, <1>2, <1>8 DEF ValidateBackup
  <2>2. /\ Judged("dropBackup", NoLocals, working)
        /\ Judged("restoreRead", loc[t], working)
    BY <1>4, <2>1 DEF Judged
  <2> QED BY <1>1, <1>8, <2>1, <2>2, ContinueKeepsJudged DEF ValidateBackup
<1>9. CASE RestoreRead(t)
  <2>1. \A l : Judged("restoreWrite", l, working)
    BY DEF Judged
  <2> QED BY <1>2, <1>3, <1>9, <2>1, ContinueKeepsJudged DEF RestoreRead
<1>10. CASE ResetWorkingCacheToBackupCache(t)
  <2>1. loc[t].answers # NoSheet
    BY <1>10, AtTab, WizardAssumption
       DEF ResetWorkingCacheToBackupCache, AtStep, LocalsAt
  <2>2. pc'[t] = "dropBackup" /\ loc'[t].answers # NoSheet
    <3>1. Continue(t, "dropBackup", [loc[t] EXCEPT !.backup = NoCache])
      BY <1>10 DEF ResetWorkingCacheToBackupCache
    <3>2. loc'[t].answers = loc[t].answers
      BY <3>1, BackupCopied
    <3> QED BY <2>1, <3>1, <3>2, Endings
  <2> QED BY <2>2 DEF Judged
<1>11. CASE DropBackup(t)
  <2>1. pc[t] = "dropBackup" /\ working' = working
    BY <1>11 DEF DropBackup, AtStep, SetBackup
  <2>2. Judged("updateRead", loc[t], working)
    BY <2>1 DEF Judged
  <2> QED BY <1>11, <2>1, <2>2, ContinueKeepsJudged DEF DropBackup
<1>12. CASE UpdateRead(t)
  <2> DEFINE l == [loc[t] EXCEPT !.working = working]
  <2>1. pc[t] = "updateRead" /\ working' = working
    BY <1>2, <1>12 DEF UpdateRead
  <2>2. l.answers = loc[t].answers
    BY AtTab, LocalFields
  <2>3. Fail(t) \/ Continue(t, "updateWrite", l)
    BY <1>12 DEF UpdateRead
  <2> HIDE DEF l
  <2>4. Judged("updateWrite", l, working)
    BY <2>1, <2>2 DEF Judged
  <2> QED BY <1>3, <2>1, <2>3, <2>4, ContinueKeepsJudged
<1>13. CASE UpdateCachesOnCheckYourAnswers(t)
  <2> DEFINE j == loc[t].working
             history == IF Loaded(j.history, CheckAnswers) THEN j.history
                        ELSE Append(j.history, CheckAnswers)
             new == [j EXCEPT !.answers = j.answers, !.history = history]
  <2>1. pc[t] = "updateWrite"
    BY <1>13 DEF UpdateCachesOnCheckYourAnswers, AtStep
  <2>2. j = working /\ working \in ConsistentJourney
    BY <2>1, AtTab, CopyIsCached DEF LocalsAt, ConsistentLocals, Holding
  <2>3. CASE loc[t].answers # NoSheet
    <3>1. pc'[t] = "idle"
      BY <1>13, <2>3, Endings DEF UpdateCachesOnCheckYourAnswers
    <3> QED BY <3>1, NotChecking DEF Checking
  <2>4. CASE loc[t].answers = NoSheet
    <3>1. pc'[t] = "wipeRead" /\ working' = new
      BY <1>13, <2>4, Endings DEF UpdateCachesOnCheckYourAnswers, SetWorking
    <3>2. \/ history = j.history
          \/ history = Append(j.history, CheckAnswers)
      OBVIOUS
    <3>3. history \in Seq(PageId)
      BY <2>2 DEF ConsistentJourney, PageId
    <3> HIDE DEF history
    <3>4. new \in ConsistentJourney /\ new.answers = j.answers /\ new.history = history
      BY <2>2, <3>3 DEF ConsistentJourney
    <3> HIDE DEF new
    <3>5. AnsweredQuestions(new) = AnsweredQuestions(working)
      BY <2>2, <3>2, <3>4, AnsweredWithCheckAnswers
    <3>6. AnsweredQuestions(working) \notin Complete
      BY <2>1, <2>2, <2>4, NoCacheIsNoRecord DEF Judged
    <3> QED BY <3>1, <3>5, <3>6 DEF Judged
  <2> QED BY <2>3, <2>4
<1>14. CASE WipeRead(t)
  <2>1. pc[t] = "wipeRead" /\ working' = working
    BY <1>2, <1>14 DEF WipeRead
  <2>2. \A l : Judged("wipeWrite", l, working)
    BY <2>1 DEF Judged
  <2> QED BY <1>3, <1>14, <2>1, <2>2, ContinueKeepsJudged DEF WipeRead
<1>15. CASE ResetPageLoadHistory(t)
  <2>1. pc'[t] \in {"idle", "redirect"}
    BY <1>15, Endings DEF ResetPageLoadHistory
  <2> QED BY <2>1, NotChecking DEF Checking
<1> QED BY <1>5, <1>6, <1>7, <1>8, <1>9, <1>10, <1>11, <1>12, <1>13, <1>14, <1>15
        DEF CheckYourAnswers

LEMMA JudgedStep ==
    ASSUME IInv, NEW t \in Tab, Tab = {t}, LoneInv(t), "fault" \notin Mishaps,
           Judged(pc[t], loc[t], working), [Next]_vars
    PROVE  Judged(pc'[t], loc'[t], working')
<1>1. CASE Handle(t) \/ Use(t) \/ Redirected(t) \/ Crash(t)
  BY <1>1, OthersKeepJudged, CheckYourAnswersKeepsJudged DEF Handle
<1>2. CASE ExpireWorking
  BY <1>2, NotChecking DEF ExpireWorking, Checking
<1>3. CASE ExpireBackup \/ UNCHANGED vars
  BY <1>3 DEF ExpireBackup, vars
<1> QED BY <1>1, <1>2, <1>3 DEF Next, Environment

(* The step that ValidJourneyIsKept asks of the next-state relation. *)
KeepsJourney ==
    \A t \in Tab : pc[t] = "wipeWrite" /\ pc'[t] \in {"idle", "redirect"}
        => \/ working' = working
           \/ AnsweredQuestions(working) \notin Complete

(* With one tab, only a call that failed lets Check Your Answers throw     *)
(* away a journey that the API would accept: the answers it asks about are *)
(* those of the journey still cached when the history is reset, as neither *)
(* dropping the backup nor loading Check Your Answers changes them.        *)
THEOREM ValidJourneyStays ==
    ASSUME NEW t \in Tab, Tab = {t}, "fault" \notin Mishaps
    PROVE  Spec => ValidJourneyIsKept
<1> DEFINE Kept == Judged(pc[t], loc[t], working)
<1>1. Init => Kept
  BY NotChecking DEF Init, Checking
<1>2. IInv /\ LoneInv(t) /\ Kept /\ [Next]_vars => Kept'
  BY JudgedStep
<1>3. IInv /\ LoneInv(t) /\ Kept /\ [Next]_vars => [KeepsJourney]_vars
  <2> SUFFICES ASSUME IInv, LoneInv(t), Kept, pc[t] = "wipeWrite"
               PROVE  AnsweredQuestions(working) \notin Complete
    BY DEF KeepsJourney
  <2>1. working # NoCache
    BY AtTab, CopyIsCached DEF LocalsAt, Holding
  <2> QED BY <2>1 DEF Judged, Rejected
<1>4. Spec => [](IInv /\ LoneInv(t))
  BY LoneInvariant
<1> QED BY <1>1, <1>2, <1>3, <1>4, PTL DEF Spec, ValidJourneyIsKept, KeepsJourney

-----------------------------------------------------------------------------
(* The report as it is promised.                                           *)
(*                                                                         *)
(* With one tab each write is a step of ReportForm.  It takes what the     *)
(* handler has in its local variables besides the working copy: what a     *)
(* report is prefilled with is what was completed, and the answers that    *)
(* Check Your Answers keeps are those of the journey that is cached, be it *)
(* the one restored from the backup.                                       *)

Opened == {"convergeRead", "convergeDecide", "convergeWrite",
           "historyRead", "historyWrite", "mergeRead", "checkRead",
           "restoreRead", "restoreWrite"} \cup Checking

Prefilled(label, l, a) ==
    label \in {"initRead", "initWrite"} => l.answers \in {NoSheet, EmptySheet, AnswersOf(a)}

Chosen(label, l, w, b) ==
    /\ label \in Opened => w # NoCache
    /\ label = "checkValidate" => l.answers = AnsweredQuestions(w)
    /\ label \in {"checkBackupValidate", "restoreRead"} /\ b # NoCache =>
          l.answers = AnsweredQuestions(b)
    /\ label = "restoreWrite" =>
          l.answers = AnsweredQuestions(l.backup) /\ b \in {NoCache, l.backup}
    /\ label \in Merging /\ l.answers # NoSheet => l.answers = AnsweredQuestions(w)
    /\ label \in {"updateRead", "updateWrite"} => b = NoCache

Finished(label, a) == label \in {"submitPost", "deleteWorking"} => a # NoCache

ReportInv(t) ==
    /\ Prefilled(pc[t], loc[t], api)
    /\ Chosen(pc[t], loc[t], working, backup)
    /\ Finished(pc[t], api)

reportVars == <<AnswersOf(working), EditedFrom, AnswersOf(api)>>
ReportStep == Promised!Next \/ UNCHANGED reportVars

Tracked == Opened \cup {"initRead", "initWrite", "submitPost", "deleteWorking"}

LEMMA NotTracked ==
    ASSUME NEW t \in Tab, pc'[t] \notin Tracked
    PROVE  ReportInv(t)'
BY DEF ReportInv, Prefilled, Chosen, Finished, Tracked, Opened, Checking, Merging

LEMMA EditedFromIs ==
    ASSUME NEW t \in Tab, Tab = {t}
    PROVE  /\ EditedFrom = IF pc[t] = "restoreWrite" THEN loc[t].backup.answers
                           ELSE AnswersOf(backup)
           /\ EditedFrom' = IF pc'[t] = "restoreWrite" THEN loc'[t].backup.answers
                            ELSE AnswersOf(backup)'
BY DEF EditedFrom

(* A step that writes nothing. *)
LEMMA QuietStutters ==
    ASSUME NEW t \in Tab, Tab = {t}, NoWrite, "restoreWrite" \notin {pc[t], pc'[t]}
    PROVE  ReportStep
<1>1. AnswersOf(working)' = AnswersOf(working) /\ AnswersOf(api)' = AnswersOf(api)
      /\ AnswersOf(backup)' = AnswersOf(backup)
  BY DEF NoWrite, AnswersOf
<1> QED BY <1>1, EditedFromIs DEF ReportStep, reportVars

(* A step that writes the working assessment. *)
LEMMA WriteLeaves ==
    ASSUME NEW t \in Tab, Tab = {t}, NEW j, SetWorking(j), j # NoCache,
           "restoreWrite" \notin {pc[t], pc'[t]}
    PROVE  /\ AnswersOf(working)' = j.answers
           /\ EditedFrom' = EditedFrom /\ AnswersOf(api)' = AnswersOf(api)
<1>1. AnswersOf(backup)' = AnswersOf(backup) /\ AnswersOf(api)' = AnswersOf(api)
  BY DEF SetWorking, AnswersOf
<1>2. AnswersOf(working)' = j.answers
  BY DEF SetWorking, AnswersOf
<1> QED BY <1>1, <1>2, EditedFromIs

LEMMA SameAnswersStutter ==
    ASSUME NEW t \in Tab, Tab = {t}, NEW j, SetWorking(j), j # NoCache,
           working # NoCache, j.answers = working.answers,
           "restoreWrite" \notin {pc[t], pc'[t]}
    PROVE  ReportStep
<1>1. AnswersOf(working) = working.answers
  BY DEF AnswersOf
<1> QED BY <1>1, WriteLeaves DEF ReportStep, reportVars

(* The post of a page changes the answers of that page only.               *)
LEMMA PostStaysOnPage ==
    ASSUME NEW p \in PageId, NEW body \in Sheet, NEW sheet \in Sheet,
           NEW q \in Question, PageOf[q] # p
    PROVE  Answered(sheet, FormatAssessmentResponse(p, body))[q] = sheet[q]
<1> DEFINE asked == FlattenedQuestionsOnPage(p, body)
           post == FormatAssessmentResponse(p, body)
<1>1. \A x \in asked : x \in Question /\ PageOf[x] = p
  <2>1. \A r \in ParentQuestions(p) :
           r \in Question /\ PageOf[r] = p /\ body[r] \in Answer \cup {NoAnswer}
    BY DEF ParentQuestions, Sheet
  <2>2. \A r \in ParentQuestions(p) : \A x \in Question :
           body[r] # NoAnswer /\ x \in Nested[r][body[r]] => PageOf[x] = p
    BY <2>1, NestedOnce
  <2> QED BY <2>1, <2>2 DEF FlattenedQuestionsOnPage
<1>2. \A x \in Question : post[x] # NoAnswer => x \in asked
  BY DEF FormatAssessmentResponse
<1> HIDE DEF asked, post
<1>3. post[q] = NoAnswer
  BY <1>1, <1>2
<1>4. \A x \in Question :
         post[x] # NoAnswer => q \notin FindOtherNestedQuestions(x, post[x])
  BY <1>1, <1>2, NestedOnce DEF FindOtherNestedQuestions
<1>5. Answered(sheet, post)[q] = sheet[q]
  BY <1>3, <1>4 DEF Answered
<1> QED BY <1>5 DEF post

LEMMA QuietlyAway ==
    ASSUME NEW t \in Tab, Tab = {t}, NoWrite,
           pc[t] # "restoreWrite", pc'[t] \notin Tracked
    PROVE  ReportInv(t)' /\ ReportStep
<1>1. pc'[t] # "restoreWrite"
  BY DEF Tracked, Opened
<1> QED BY <1>1, NotTracked, QuietStutters

LEMMA QuietlyOn ==
    ASSUME IInv, NEW t \in Tab, Tab = {t}, NoWrite, pc[t] # "restoreWrite",
           NEW label, NEW l, Continue(t, label, l), label # "restoreWrite",
           Prefilled(label, l, api), Chosen(label, l, working, backup),
           Finished(label, api)
    PROVE  ReportInv(t)' /\ ReportStep
<1>1. pc'[t] = label /\ loc'[t] = l
  BY Endings
<1>2. working' = working /\ backup' = backup /\ api' = api
  BY DEF NoWrite
<1>3. ReportInv(t)'
  BY <1>1, <1>2 DEF ReportInv
<1> QED BY <1>1, <1>3, QuietStutters

LEMMA InitialisedAway ==
    ASSUME IInv, NEW t \in Tab, NEW j, Initialised(t, j)
    PROVE  pc'[t] \notin Tracked
BY InitialisedEnds DEF Tracked, Opened, Checking

LEMMA FailedAway ==
    ASSUME IInv, NEW t \in Tab
    PROVE  /\ Fail(t) => pc'[t] \notin Tracked
           /\ \A p, submitted : RedirectTo(t, p, submitted) => pc'[t] \notin Tracked
           /\ \A s : Show(t, s) => pc'[t] \notin Tracked
BY Endings DEF Tracked, Opened, Checking

LEMMA GetFirstPageReports ==
    ASSUME IInv, NEW t \in Tab, Tab = {t}, LoneInv(t), ReportInv(t), GetFirstPage(t)
    PROVE  ReportInv(t)' /\ ReportStep
<1>1. CASE GetLatestAssessmentVersion(t)
  <2>1. NoWrite /\ pc[t] = "version"
    BY <1>1, CallsDoNotCrash DEF GetLatestAssessmentVersion
  <2>2. Fail(t) \/ \E l : Continue(t, "prefill", l)
    BY <1>1 DEF GetLatestAssessmentVersion
  <2>3. \A l : Continue(t, "prefill", l) => pc'[t] \notin Tracked
    BY Endings DEF Tracked, Opened, Checking
  <2> QED BY <2>1, <2>2, <2>3, FailedAway, QuietlyAway
<1>2. CASE GetCheckAnswersPage(t)
  <2> DEFINE on(s) == [loc[t] EXCEPT !.answers = s]
  <2>1. NoWrite /\ pc[t] = "prefill"
    BY <1>2, CallsDoNotCrash DEF GetCheckAnswersPage
  <2>2. \E s \in {NoSheet, EmptySheet, AnswersOf(api)} : Continue(t, "initRead", on(s))
    BY <1>2 DEF GetCheckAnswersPage, AnswersOf
  <2>3. \A s : on(s).answers = s
    BY AtTab, LocalFields
  <2> HIDE DEF on
  <2>4. \A s \in {NoSheet, EmptySheet, AnswersOf(api)} :
           Prefilled("initRead", on(s), api)
    BY <2>3 DEF Prefilled
  <2>5. \A l : Chosen("initRead", l, working, backup) /\ Finished("initRead", api)
    BY DEF Chosen, Finished, Opened, Checking, Merging
  <2> QED BY <2>1, <2>2, <2>4, <2>5, QuietlyOn
<1>3. CASE InitialiseCacheRead(t)
  <2> DEFINE l == [loc[t] EXCEPT !.working = working]
  <2>1. NoWrite /\ pc[t] = "initRead"
    BY <1>3, CallsDoNotCrash DEF InitialiseCacheRead
  <2>2. Continue(t, "initWrite", l)
    BY <1>3 DEF InitialiseCacheRead
  <2>3. l.answers = loc[t].answers
    BY AtTab, LocalFields
  <2> HIDE DEF l
  <2>4. Prefilled("initWrite", l, api)
    BY <2>1, <2>3 DEF ReportInv, Prefilled
  <2>5. Chosen("initWrite", l, working, backup) /\ Finished("initWrite", api)
    BY DEF Chosen, Finished, Opened, Checking, Merging
  <2> QED BY <2>1, <2>2, <2>4, <2>5, QuietlyOn
<1>4. CASE InitialiseCache(t)
  <2> DEFINE l == loc[t]
             reloaded == [l.working EXCEPT !.history = PagesFromCheckYourAnswers(l.answers)]
             prefill == IF l.answers = NoSheet THEN EmptySheet ELSE l.answers
  <2>1. /\ pc[t] = "initWrite" /\ l.working = working
        /\ l.answers \in {NoSheet, EmptySheet, AnswersOf(api)}
        /\ l.answers \in ConsistentSheet \cup {NoSheet} /\ l.version \in Version
    BY <1>4, AtTab, CopyIsCached
       DEF InitialiseCache, AtStep, Holding, ReportInv, Prefilled, ConsistentLocals
  <2>2. pc'[t] \notin Tracked /\ pc'[t] # "restoreWrite"
    BY <1>4, InitialisedAway, FailedAway DEF InitialiseCache, Tracked, Opened
  <2>3. CASE l.working = NoCache /\ SetWorking(InitialAssessment(l))
    <3>1. prefill \in ConsistentSheet
      BY <2>1, EmptySheetConsistent
    <3>2. PagesFromCheckYourAnswers(prefill) \in Seq(PageId)
      BY <3>1, PagesFromCheckYourAnswersType DEF ConsistentSheet
    <3>3. InitialAssessment(l) \in ConsistentJourney
          /\ InitialAssessment(l).answers = prefill
      BY <2>1, <3>1, <3>2 DEF InitialAssessment, ConsistentJourney
    <3>4. InitialAssessment(l) # NoCache
      BY <3>3, NoCacheIsNoRecord
    <3>5. /\ AnswersOf(working)' = prefill
          /\ EditedFrom' = EditedFrom /\ AnswersOf(api)' = AnswersOf(api)
      BY <2>1, <2>2, <2>3, <3>3, <3>4, WriteLeaves
    <3>6. AnswersOf(working) = NoSheet
      BY <2>1, <2>3 DEF AnswersOf
    <3>7. prefill \in {EmptySheet, AnswersOf(api)} /\ prefill # NoSheet
      BY <2>1, <3>1, NoCacheIsNoRecord
    <3> HIDE DEF prefill
    <3>8. Promised!Open
      BY <3>5, <3>6, <3>7 DEF Promised!Open
    <3> QED BY <2>2, <3>8, NotTracked DEF ReportStep, Promised!Next
  <2>4. CASE l.working # NoCache /\ l.answers # NoSheet /\ SetWorking(reloaded)
    <3>1. working \in ConsistentJourney /\ l.answers \in ConsistentSheet
      BY <2>1, <2>4 DEF IInv, StoreInv
    <3>2. PagesFromCheckYourAnswers(l.answers) \in Seq(PageId)
      BY <3>1, PagesFromCheckYourAnswersType DEF ConsistentSheet
    <3>3. reloaded \in ConsistentJourney /\ reloaded.answers = working.answers
      BY <2>1, <3>1, <3>2 DEF ConsistentJourney
    <3>4. reloaded # NoCache /\ working # NoCache
      BY <3>1, <3>3, NoCacheIsNoRecord
    <3> HIDE DEF reloaded
    <3> QED BY <2>1, <2>2, <2>4, <3>3, <3>4, NotTracked, SameAnswersStutter
  <2>5. CASE NoWrite
    BY <2>1, <2>2, <2>5, QuietlyAway
  <2> QED BY <1>4, <2>3, <2>4, <2>5 DEF InitialiseCache
<1>5. CASE FetchFirstPage(t)
  <2>1. NoWrite /\ pc[t] = "firstNext"
    BY <1>5, CallsDoNotCrash DEF FetchFirstPage
  <2>2. Fail(t) \/ RedirectTo(t, FirstPage, FALSE)
    BY <1>5 DEF FetchFirstPage
  <2> QED BY <2>1, <2>2, FailedAway, QuietlyAway
<1> QED BY <1>1, <1>2, <1>3, <1>4, <1>5 DEF GetFirstPage

LEMMA SaveAnswerAndGetNextPageReports ==
    ASSUME IInv, NEW t \in Tab, Tab = {t}, LoneInv(t), ReportInv(t),
           SaveAnswerAndGetNextPage(t)
    PROVE  ReportInv(t)' /\ ReportStep
<1>1. \A label \in {"answerRead", "answerWrite", "saveNext"} : \A l :
         Continue(t, label, l) => pc'[t] \notin Tracked
  BY Endings DEF Tracked, Opened, Checking
<1>2. CASE OpenSavedPage(t) \/ AnswerRead(t) \/ FetchNextPage(t)
  <2>1. \E label \in {"saveOpen", "answerRead", "saveNext"} :
           ReadStep(t, label) \/ FailedCall(t, label)
    BY <1>2 DEF OpenSavedPage, AnswerRead, FetchNextPage
  <2>2. NoWrite /\ pc[t] # "restoreWrite"
    BY <2>1, CallsDoNotCrash
  <2>3. \/ Fail(t) \/ \E p : RedirectTo(t, p, FALSE)
        \/ \E l : Continue(t, "answerRead", l) \/ Continue(t, "answerWrite", l)
    BY <1>2 DEF OpenSavedPage, AnswerRead, FetchNextPage
  <2> QED BY <1>1, <2>2, <2>3, FailedAway, QuietlyAway
<1>3. CASE SaveAnswers(t)
  <2> DEFINE j == loc[t].working
             p == req[t].page
             post == FormatAssessmentResponse(p, req[t].body)
             new == [j EXCEPT !.answers = Answered(j.answers, post)]
  <2>1. pc[t] = "answerWrite" /\ j = working
    BY <1>3, CopyIsCached DEF SaveAnswers, AtStep, Holding
  <2>2. pc'[t] \notin Tracked /\ pc'[t] # "restoreWrite"
    BY <1>1, <1>3, FailedAway DEF SaveAnswers, Tracked, Opened
  <2>3. CASE NoWrite
    BY <2>1, <2>2, <2>3, QuietlyAway
  <2>4. CASE j # NoCache /\ SetWorking(new)
    <3>1. p \in PageId /\ req[t].body \in Sheet /\ post \in ConsistentSheet
      BY AtTab, PostConsistent DEF Request
    <3>2. working \in ConsistentJourney /\ working.answers \in ConsistentSheet
      BY <2>1, <2>4 DEF IInv, StoreInv, ConsistentJourney
    <3>3. Answered(j.answers, post) \in ConsistentSheet
      BY <2>1, <3>1, <3>2, AnsweredType, AnsweredConsistent DEF ConsistentSheet
    <3>4. \A q \in Question :
             PageOf[q] # p => Answered(j.answers, post)[q] = working.answers[q]
      BY <2>1, <3>1, <3>2, PostStaysOnPage DEF ConsistentSheet
    <3>5. new \in ConsistentJourney /\ new.answers = Answered(j.answers, post)
      BY <2>1, <3>2, <3>3 DEF ConsistentJourney
    <3>6. new # NoCache
      BY <3>5, NoCacheIsNoRecord
    <3> HIDE DEF new, post
    <3>7. /\ AnswersOf(working)' = new.answers
          /\ EditedFrom' = EditedFrom /\ AnswersOf(api)' = AnswersOf(api)
      BY <2>1, <2>2, <2>4, <3>6, WriteLeaves
    <3>8. AnswersOf(working) = working.answers /\ working.answers # NoSheet
      BY <2>1, <2>4, <3>2, NoCacheIsNoRecord DEF AnswersOf
    <3>9. CASE p \in Page
      <4>1. Promised!Post
        BY <3>3, <3>4, <3>5, <3>7, <3>8, <3>9 DEF Promised!Post, ConsistentSheet
      <4> QED BY <2>2, <4>1, NotTracked DEF ReportStep, Promised!Next
    <3>10. CASE p \notin Page
      <4>1. \A q \in Question : new.answers[q] = working.answers[q]
        BY <3>4, <3>5, <3>10, FormAssumption
      <4>2. new.answers = working.answers
        BY <3>2, <3>3, <3>5, <4>1 DEF ConsistentSheet, Sheet
      <4> QED BY <2>2, <3>7, <3>8, <4>2, NotTracked DEF ReportStep, reportVars
    <3> QED BY <3>9, <3>10
  <2> QED BY <1>3, <2>3, <2>4 DEF SaveAnswers
<1> QED BY <1>2, <1>3 DEF SaveAnswerAndGetNextPage

(* The steps of getView and Check Your Answers that keep nothing of their  *)
(* own: the assessment is there since OpenPage has found it.               *)
LEMMA OnceOpened ==
    ASSUME NEW label \in {"convergeRead", "convergeDecide", "convergeWrite",
                          "historyRead", "historyWrite", "mergeRead", "checkRead",
                          "checkBackupRead", "wipeRead", "wipeWrite"},
           NEW l, NEW w, w # NoCache, NEW b, NEW a
    PROVE  Prefilled(label, l, a) /\ Chosen(label, l, w, b) /\ Finished(label, a)
BY DEF Prefilled, Chosen, Finished, Merging

LEMMA StillThere ==
    ASSUME NEW t \in Tab, ReportInv(t), pc[t] \in Opened
    PROVE  working # NoCache
BY DEF ReportInv, Chosen

LEMMA SameAnswersOn ==
    ASSUME NEW t \in Tab, Tab = {t}, NEW j, SetWorking(j), j # NoCache,
           working # NoCache, j.answers = working.answers, pc[t] # "restoreWrite",
           NEW label, pc'[t] = label,
           label \notin {"restoreWrite", "initRead", "initWrite", "submitPost",
                         "deleteWorking"},
           Chosen(label, loc'[t], j, backup)
    PROVE  ReportInv(t)' /\ ReportStep
<1>1. working' = j /\ backup' = backup
  BY DEF SetWorking
<1>2. ReportInv(t)'
  BY <1>1 DEF ReportInv, Prefilled, Finished
<1> QED BY <1>2, SameAnswersStutter

LEMMA GetViewReports ==
    ASSUME IInv, NEW t \in Tab, Tab = {t}, LoneInv(t), ReportInv(t), GetView(t)
    PROVE  ReportInv(t)' /\ ReportStep
<1>1. CASE OpenPage(t)
  <2>1. NoWrite /\ pc[t] = "viewOpen"
    BY <1>1, CallsDoNotCrash DEF OpenPage
  <2>2. Fail(t) \/ (working # NoCache /\ Continue(t, "convergeRead", NoLocals))
    BY <1>1 DEF OpenPage
  <2> QED BY <2>1, <2>2, OnceOpened, FailedAway, QuietlyAway, QuietlyOn
<1>2. CASE ConvergeRead(t)
  <2>1. NoWrite /\ pc[t] = "convergeRead"
    BY <1>2, CallsDoNotCrash DEF ConvergeRead
  <2>2. working # NoCache
    BY <2>1, StillThere DEF Opened
  <2>3. \E l : Continue(t, "convergeDecide", l)
    BY <1>2 DEF ConvergeRead
  <2> QED BY <2>1, <2>2, <2>3, OnceOpened, QuietlyOn
<1>3. CASE CheckForConvergence(t)
  <2>1. NoWrite /\ pc[t] = "convergeDecide"
    BY <1>3, CallsDoNotCrash DEF CheckForConvergence
  <2>2. working # NoCache
    BY <2>1, StillThere DEF Opened
  <2>3. Fail(t) \/ \E label \in {"checkRead", "historyRead", "convergeWrite"} : \E l :
                      Continue(t, label, l)
    BY <1>3 DEF CheckForConvergence
  <2> QED BY <2>1, <2>2, <2>3, OnceOpened, FailedAway, QuietlyAway, QuietlyOn
<1>4. CASE Converge(t)
  <2>1. pc[t] = "convergeWrite" /\ SetWorking(loc[t].working)
    BY <1>4 DEF Converge, AtStep
  <2>2. loc[t].working # NoCache
    BY <2>1, AtTab DEF LocalsAt
  <2>3. working # NoCache /\ loc[t].working.answers = working.answers
    BY <2>1 DEF LoneInv, Held
  <2>4. pc'[t] \notin Tracked /\ pc'[t] # "restoreWrite"
    BY <1>4, FailedAway DEF Converge, Tracked, Opened
  <2> QED BY <2>1, <2>2, <2>3, <2>4, NotTracked, SameAnswersStutter
<1>5. CASE HistoryRead(t)
  <2>1. NoWrite /\ pc[t] = "historyRead"
    BY <1>5, CallsDoNotCrash DEF HistoryRead
  <2>2. Fail(t) \/ (working # NoCache /\ \E l : Continue(t, "historyWrite", l))
    BY <1>5 DEF HistoryRead
  <2> QED BY <2>1, <2>2, OnceOpened, FailedAway, QuietlyAway, QuietlyOn
<1>6. CASE UpdatePageLoadHistory(t)
  <2> DEFINE history == LoadPage(loc[t].working.history, req[t].page)
             new == [loc[t].working EXCEPT !.history = history]
  <2>1. pc[t] = "historyWrite" /\ SetWorking(new)
    BY <1>6 DEF UpdatePageLoadHistory, AtStep
  <2>2. loc[t].working = working /\ working \in ConsistentJourney
    BY <2>1, AtTab, CopyIsCached DEF LocalsAt, ConsistentLocals, Holding
  <2>3. req[t].page # CheckAnswers /\ req[t].page \in PageId
    BY <2>1, AtTab DEF LoneInv, Shown, Request, Loading
  <2>4. history \in Seq(PageId)
    BY <2>2, <2>3, LoadPageType DEF ConsistentJourney
  <2> HIDE DEF history
  <2>5. new \in ConsistentJourney /\ new.answers = working.answers
    BY <2>2, <2>4 DEF ConsistentJourney
  <2>6. new # NoCache /\ working # NoCache
    BY <2>2, <2>5, NoCacheIsNoRecord
  <2>7. pc'[t] = "mergeRead"
    BY <1>6, Endings DEF UpdatePageLoadHistory
  <2> HIDE DEF new
  <2>8. Chosen("mergeRead", loc'[t], new, backup)
    BY <2>6, OnceOpened
  <2> QED BY <2>1, <2>5, <2>6, <2>7, <2>8, SameAnswersOn
<1>7. CASE RenderQuestions(t)
  <2>1. NoWrite /\ pc[t] = "mergeRead"
    BY <1>7, CallsDoNotCrash DEF RenderQuestions
  <2>2. Fail(t) \/ \E s : Show(t, s)
    BY <1>7 DEF RenderQuestions
  <2> QED BY <2>1, <2>2, FailedAway, QuietlyAway
<1> QED BY <1>1, <1>2, <1>3, <1>4, <1>5, <1>6, <1>7 DEF GetView

(* With the answers settled on, or with none, while the backup goes. *)
LEMMA OnceChosen ==
    ASSUME NEW label \in {"checkBackupRead", "dropBackup"},
           NEW l, NEW w, w # NoCache, NEW b, NEW a,
           l.answers # NoSheet => l.answers = AnsweredQuestions(w)
    PROVE  Prefilled(label, l, a) /\ Chosen(label, l, w, b) /\ Finished(label, a)
BY DEF Prefilled, Chosen, Finished

LEMMA RestoreReports ==
    ASSUME IInv, NEW t \in Tab, Tab = {t}, LoneInv(t), ReportInv(t),
           RestoreRead(t) \/ ResetWorkingCacheToBackupCache(t)
    PROVE  ReportInv(t)' /\ ReportStep
<1>1. CASE RestoreRead(t)
  <2>1. NoWrite /\ pc[t] = "restoreRead"
    BY <1>1, CallsDoNotCrash DEF RestoreRead
  <2>2. working # NoCache
    BY <2>1, StillThere DEF Opened
  <2>3. CASE backup = NoCache
    BY <1>1, <2>1, <2>3, FailedAway, QuietlyAway DEF RestoreRead
  <2>4. CASE backup # NoCache
    <3>1. Continue(t, "restoreWrite", [loc[t] EXCEPT !.backup = backup])
      BY <1>1, <2>4 DEF RestoreRead
    <3>2. /\ pc'[t] = "restoreWrite"
          /\ loc'[t].backup = backup /\ loc'[t].answers = loc[t].answers
      BY <3>1, BackupCopied, Endings
    <3>3. working' = working /\ backup' = backup /\ api' = api
      BY <2>1 DEF NoWrite
    <3>4. loc[t].answers = AnsweredQuestions(backup)
      BY <2>1, <2>4 DEF ReportInv, Chosen
    <3>5. ReportInv(t)'
      BY <2>2, <3>2, <3>3, <3>4
         DEF ReportInv, Prefilled, Chosen, Finished, Merging
    <3>6. EditedFrom = backup.answers
      BY <2>1, <2>4, EditedFromIs DEF AnswersOf
    <3>7. EditedFrom' = backup.answers
      BY <3>2, EditedFromIs
    <3>8. AnswersOf(working)' = AnswersOf(working) /\ AnswersOf(api)' = AnswersOf(api)
      BY <3>3 DEF AnswersOf
    <3> QED BY <3>5, <3>6, <3>7, <3>8 DEF ReportStep, reportVars
  <2> QED BY <2>3, <2>4
<1>2. CASE ResetWorkingCacheToBackupCache(t)
  <2> DEFINE b == loc[t].backup
             new == WithoutEdit(b)
  <2>1. /\ pc[t] = "restoreWrite"
        /\ working' = new /\ backup' = backup /\ api' = api
    BY <1>2 DEF ResetWorkingCacheToBackupCache, AtStep, SetWorking
  <2>2. /\ working # NoCache /\ backup \in {NoCache, b}
        /\ loc[t].answers = AnsweredQuestions(b)
    BY <2>1 DEF ReportInv, Chosen, Opened
  <2>3. b \in ConsistentBackup
    BY <2>1, AtTab DEF LocalsAt, ConsistentLocals
  <2>4. /\ b.answers \in ConsistentSheet /\ new.answers = b.answers
        /\ new.history = b.history /\ new \in ConsistentJourney
    BY <2>3 DEF WithoutEdit, ConsistentJourney, ConsistentBackup
  <2>5. new # NoCache /\ b.answers # NoSheet
    BY <2>4, NoCacheIsNoRecord
  <2>6. AnsweredQuestions(new) = AnsweredQuestions(b)
    BY <2>4 DEF AnsweredQuestions
  <2>7. pc'[t] = "dropBackup" /\ loc'[t].answers = loc[t].answers
    <3>1. Continue(t, "dropBackup", [loc[t] EXCEPT !.backup = NoCache])
      BY <1>2 DEF ResetWorkingCacheToBackupCache
    <3> QED BY <3>1, BackupCopied, Endings
  <2>8. ReportInv(t)'
    <3>1. loc'[t].answers = AnsweredQuestions(new)
      BY <2>2, <2>6, <2>7
    <3> HIDE DEF new
    <3> QED BY <2>1, <2>5, <2>7, <3>1, OnceChosen DEF ReportInv
  <2>9. AnswersOf(working) # NoSheet
    BY <2>2, NoCacheIsNoRecord DEF AnswersOf, IInv, StoreInv, ConsistentJourney
  <2>10. EditedFrom = b.answers
    BY <2>1, EditedFromIs
  <2>11. EditedFrom' \in {b.answers, NoSheet}
    <3>1. AnswersOf(backup)' \in {b.answers, NoSheet}
      BY <2>1, <2>2 DEF AnswersOf
    <3> QED BY <2>7, <3>1, EditedFromIs
  <2>12. AnswersOf(working)' = b.answers /\ AnswersOf(api)' = AnswersOf(api)
    BY <2>1, <2>4, <2>5 DEF AnswersOf
  <2>13. Promised!GiveUp
    BY <2>5, <2>9, <2>10, <2>11, <2>12 DEF Promised!GiveUp
  <2> QED BY <2>8, <2>13 DEF ReportStep, Promised!Next
<1> QED BY <1>1, <1>2

LEMMA UpdateCachesReports ==
    ASSUME IInv, NEW t \in Tab, Tab = {t}, LoneInv(t), ReportInv(t),
           UpdateCachesOnCheckYourAnswers(t)
    PROVE  ReportInv(t)' /\ ReportStep
<1> DEFINE j == loc[t].working
           merged == loc[t].answers
           answers == IF merged = NoSheet THEN j.answers ELSE merged
           history == IF Loaded(j.history, CheckAnswers) THEN j.history
                      ELSE Append(j.history, CheckAnswers)
           new == [j EXCEPT !.answers = answers, !.history = history]
<1>1. pc[t] = "updateWrite" /\ SetWorking(new)
  BY DEF UpdateCachesOnCheckYourAnswers, AtStep
<1>2. /\ j = working /\ working \in ConsistentJourney
      /\ merged \in Complete \cup {NoSheet}
  BY <1>1, AtTab, CopyIsCached DEF LocalsAt, ConsistentLocals, Holding
<1>3. /\ merged \in ConsistentSheet \cup {NoSheet} /\ history \in Seq(PageId)
      /\ j.answers \in ConsistentSheet
  BY <1>2, AtTab DEF ConsistentLocals, ConsistentJourney, PageId
<1> HIDE DEF history
<1>4. new \in ConsistentJourney /\ new.answers = answers
  BY <1>2, <1>3 DEF ConsistentJourney
<1>5. new # NoCache /\ working # NoCache
  BY <1>2, <1>4, NoCacheIsNoRecord
<1>6. CASE merged = NoSheet
  <2>1. pc'[t] = "wipeRead" /\ new.answers = working.answers
    BY <1>2, <1>4, <1>6, Endings DEF UpdateCachesOnCheckYourAnswers
  <2> HIDE DEF new
  <2>2. Chosen("wipeRead", loc'[t], new, backup)
    BY <1>5, OnceOpened
  <2> QED BY <1>1, <1>5, <2>1, <2>2, SameAnswersOn
<1>7. CASE merged # NoSheet
  <2>1. pc'[t] = "idle" /\ new.answers = merged
    BY <1>4, <1>7, Endings DEF UpdateCachesOnCheckYourAnswers
  <2> HIDE DEF new
  <2>2. backup = NoCache /\ merged = AnsweredQuestions(working)
    BY <1>1, <1>7 DEF ReportInv, Chosen, Merging
  <2>3. \A q \in Question : merged[q] \in {working.answers[q], NoAnswer}
    BY <2>2 DEF AnsweredQuestions
  <2>4. /\ AnswersOf(working)' = merged
        /\ EditedFrom' = EditedFrom /\ AnswersOf(api)' = AnswersOf(api)
    BY <1>1, <1>5, <2>1, WriteLeaves
  <2>5. EditedFrom = NoSheet
    BY <1>1, <2>2, EditedFromIs DEF AnswersOf
  <2>6. AnswersOf(working) = working.answers /\ working.answers # NoSheet
    BY <1>2, <1>3, <1>5, NoCacheIsNoRecord DEF AnswersOf
  <2> HIDE DEF merged
  <2>7. Promised!Settle
    BY <1>2, <1>7, <2>3, <2>4, <2>5, <2>6 DEF Promised!Settle
  <2> QED BY <2>1, <2>7, NotTracked
          DEF ReportStep, Promised!Next, Tracked, Opened, Checking
<1> QED BY <1>6, <1>7

LEMMA CheckYourAnswersReports ==
    ASSUME IInv, NEW t \in Tab, Tab = {t}, LoneInv(t), ReportInv(t), CheckYourAnswers(t)
    PROVE  ReportInv(t)' /\ ReportStep
<1>1. NoLocals.answers = NoSheet
  BY DEF NoLocals
<1>2. CASE CheckRead(t)
  <2> DEFINE l == [loc[t] EXCEPT !.answers = AnsweredQuestions(working)]
  <2>1. NoWrite /\ pc[t] = "checkRead"
    BY <1>2, CallsDoNotCrash DEF CheckRead
  <2>2. working # NoCache
    BY <2>1, StillThere DEF Opened
  <2>3. Continue(t, "checkValidate", l)
    BY <1>2, <2>2 DEF CheckRead
  <2>4. l.answers = AnsweredQuestions(working)
    BY AtTab, LocalFields
  <2> HIDE DEF l
  <2>5. /\ Prefilled("checkValidate", l, api) /\ Finished("checkValidate", api)
        /\ Chosen("checkValidate", l, working, backup)
    BY <2>2, <2>4 DEF Prefilled, Chosen, Finished, Merging
  <2> QED BY <2>1, <2>3, <2>5, QuietlyOn
<1>3. CASE ValidateWorking(t)
  <2>1. NoWrite /\ pc[t] = "checkValidate"
    BY <1>3, CallsDoNotCrash DEF ValidateWorking
  <2>2. working # NoCache /\ loc[t].answers = AnsweredQuestions(working)
    BY <2>1 DEF ReportInv, Chosen, Opened, Checking
  <2>3. \/ Continue(t, "dropBackup", loc[t])
        \/ Continue(t, "checkBackupRead", NoLocals)
    BY <1>3 DEF ValidateWorking
  <2>4. /\ Prefilled("dropBackup", loc[t], api) /\ Finished("dropBackup", api)
        /\ Chosen("dropBackup", loc[t], working, backup)
    BY <2>2, OnceChosen
  <2>5. /\ Prefilled("checkBackupRead", NoLocals, api) /\ Finished("checkBackupRead", api)
        /\ Chosen("checkBackupRead", NoLocals, working, backup)
    BY <2>2, OnceOpened
  <2> QED BY <2>1, <2>3, <2>4, <2>5, QuietlyOn
<1>4. CASE CheckBackupRead(t)
  <2> DEFINE l == [loc[t] EXCEPT !.answers = AnsweredQuestions(backup)]
  <2>1. NoWrite /\ pc[t] = "checkBackupRead"
    BY <1>4, CallsDoNotCrash DEF CheckBackupRead
  <2>2. working # NoCache
    BY <2>1, StillThere DEF Opened, Checking
  <2>3. Continue(t, "dropBackup", NoLocals) \/ Continue(t, "checkBackupValidate", l)
    BY <1>4 DEF CheckBackupRead
  <2>4. l.answers = AnsweredQuestions(backup)
    BY AtTab, LocalFields
  <2> HIDE DEF l
  <2>5. /\ Prefilled("checkBackupValidate", l, api) /\ Finished("checkBackupValidate", api)
        /\ Chosen("checkBackupValidate", l, working, backup)
    BY <2>2, <2>4 DEF Prefilled, Chosen, Finished, Merging
  <2> QED BY <1>1, <2>1, <2>2, <2>3, <2>5, OnceChosen, QuietlyOn
<1>5. CASE ValidateBackup(t)
  <2>1. NoWrite /\ pc[t] = "checkBackupValidate"
    BY <1>5, CallsDoNotCrash DEF ValidateBackup
  <2>2. working # NoCache
    BY <2>1, StillThere DEF Opened, Checking
  <2>3. Continue(t, "restoreRead", loc[t]) \/ Continue(t, "dropBackup", NoLocals)
    BY <1>5 DEF ValidateBackup
  <2>4. /\ Prefilled("restoreRead", loc[t], api) /\ Finished("restoreRead", api)
        /\ Chosen("restoreRead", loc[t], working, backup)
    BY <2>1, <2>2 DEF ReportInv, Prefilled, Chosen, Finished, Merging
  <2> QED BY <1>1, <2>1, <2>2, <2>3, <2>4, OnceChosen, QuietlyOn
<1>6. CASE DropBackup(t)
  <2>1. pc[t] = "dropBackup" /\ pc'[t] = "updateRead" /\ loc'[t] = loc[t]
    BY <1>6, Endings DEF DropBackup, AtStep
  <2>2. working' = working /\ backup' = NoCache /\ api' = api
    BY <1>6 DEF DropBackup, SetBackup
  <2>3. /\ AnswersOf(working)' = AnswersOf(working) /\ AnswersOf(api)' = AnswersOf(api)
        /\ AnswersOf(backup)' = NoSheet
    BY <2>2 DEF AnswersOf
  <2>4. Promised!EndEdit
    BY <2>1, <2>3, EditedFromIs DEF Promised!EndEdit
  <2>5. ReportInv(t)'
    BY <2>1, <2>2 DEF ReportInv, Prefilled, Chosen, Finished, Merging, Opened, Checking
  <2> QED BY <2>4, <2>5 DEF ReportStep, Promised!Next
<1>7. CASE UpdateRead(t)
  <2> DEFINE l == [loc[t] EXCEPT !.working = working]
  <2>1. NoWrite /\ pc[t] = "updateRead"
    BY <1>7, CallsDoNotCrash DEF UpdateRead
  <2>2. l.answers = loc[t].answers
    BY AtTab, LocalFields
  <2>3. Fail(t) \/ Continue(t, "updateWrite", l)
    BY <1>7 DEF UpdateRead
  <2> HIDE DEF l
  <2>4. /\ Prefilled("updateWrite", l, api) /\ Finished("updateWrite", api)
        /\ Chosen("updateWrite", l, working, backup)
    BY <2>1, <2>2 DEF ReportInv, Prefilled, Chosen, Finished, Merging, Opened, Checking
  <2> QED BY <2>1, <2>3, <2>4, FailedAway, QuietlyAway, QuietlyOn
<1>8. CASE WipeRead(t)
  <2>1. NoWrite /\ pc[t] = "wipeRead"
    BY <1>8, CallsDoNotCrash DEF WipeRead
  <2>2. Fail(t) \/ (working # NoCache /\ \E l : Continue(t, "wipeWrite", l))
    BY <1>8 DEF WipeRead
  <2> QED BY <2>1, <2>2, OnceOpened, FailedAway, QuietlyAway, QuietlyOn
<1>9. CASE ResetPageLoadHistory(t)
  <2> DEFINE new == [loc[t].working EXCEPT !.history = << >>]
  <2>1. pc[t] = "wipeWrite" /\ SetWorking(new)
    BY <1>9 DEF ResetPageLoadHistory, AtStep
  <2>2. loc[t].working = working /\ working \in ConsistentJourney
    BY <2>1, AtTab, CopyIsCached DEF LocalsAt, ConsistentLocals, Holding
  <2>3. << >> \in Seq(PageId)
    OBVIOUS
  <2>4. new \in ConsistentJourney /\ new.answers = working.answers
    BY <2>2, <2>3 DEF ConsistentJourney
  <2>5. new # NoCache /\ working # NoCache
    BY <2>2, <2>4, NoCacheIsNoRecord
  <2>6. pc'[t] \notin Tracked /\ pc'[t] # "restoreWrite"
    BY <1>9, FailedAway DEF ResetPageLoadHistory, Tracked, Opened
  <2> HIDE DEF new
  <2> QED BY <2>1, <2>4, <2>5, <2>6, NotTracked, SameAnswersStutter
<1> QED BY <1>2, <1>3, <1>4, <1>5, <1>6, <1>7, <1>8, <1>9, RestoreReports,
           UpdateCachesReports DEF CheckYourAnswers

LEMMA EditAndCompleteReports ==
    ASSUME IInv, NEW t \in Tab, Tab = {t}, LoneInv(t), ReportInv(t), EditAndComplete(t)
    PROVE  ReportInv(t)' /\ ReportStep
<1>1. \A label \in {"editBackup", "editWorking", "completePost", "deleteBackup"} : \A l :
         Continue(t, label, l) => pc'[t] \notin Tracked
  BY Endings DEF Tracked, Opened, Checking
<1>2. CASE EditRead(t) \/ CompleteRead(t)
  <2>1. ReadStep(t, "editRead") \/ ReadStep(t, "completeRead")
    BY <1>2 DEF EditRead, CompleteRead
  <2>2. NoWrite /\ pc[t] # "restoreWrite"
    BY <2>1, CallsDoNotCrash
  <2>3. Fail(t) \/ \E l : Continue(t, "editBackup", l) \/ Continue(t, "completePost", l)
    BY <1>2 DEF EditRead, CompleteRead
  <2> QED BY <1>1, <2>2, <2>3, FailedAway, QuietlyAway
<1>3. CASE BackUpWorking(t)
  <2> DEFINE b == WithEdit(loc[t].working, req[t].page)
  <2>1. pc[t] = "editBackup" /\ pc'[t] = "editWorking"
    BY <1>3, Endings DEF BackUpWorking, AtStep
  <2>2. working' = working /\ backup' = b /\ api' = api
    BY <1>3 DEF BackUpWorking, SetBackup
  <2>3. /\ loc[t].working = working /\ working # NoCache
        /\ working \in ConsistentJourney
    BY <2>1, AtTab, CopyIsCached DEF LocalsAt, ConsistentLocals, Holding
  <2>4. b \in ConsistentBackup /\ b.answers = working.answers
    BY <2>3, AtTab DEF WithEdit, ConsistentJourney, ConsistentBackup, Request
  <2>5. b # NoCache /\ working.answers # NoSheet
    BY <2>3, <2>4, NoCacheIsNoRecord DEF ConsistentJourney
  <2> HIDE DEF b
  <2>6. /\ AnswersOf(working) = working.answers /\ AnswersOf(working)' = working.answers
        /\ AnswersOf(backup)' = working.answers /\ AnswersOf(api)' = AnswersOf(api)
    BY <2>2, <2>3, <2>4, <2>5 DEF AnswersOf
  <2>7. Promised!Edit
    BY <2>1, <2>5, <2>6, EditedFromIs DEF Promised!Edit
  <2> QED BY <1>1, <2>1, <2>7, NotTracked
          DEF ReportStep, Promised!Next, Tracked, Opened, Checking
<1>4. CASE StartEdit(t)
  <2> DEFINE history == BeforePage(loc[t].working.history, req[t].page)
             new == [loc[t].working EXCEPT !.history = history]
  <2>1. pc[t] = "editWorking" /\ SetWorking(new)
    BY <1>4 DEF StartEdit, AtStep
  <2>2. /\ loc[t].working = working /\ working \in ConsistentJourney
        /\ req[t].page \in PageId
    BY <2>1, AtTab, CopyIsCached DEF LocalsAt, ConsistentLocals, Request, Holding
  <2>3. history \in Seq(PageId)
    BY <2>2, BeforePageType DEF ConsistentJourney
  <2> HIDE DEF history
  <2>4. new \in ConsistentJourney /\ new.answers = working.answers
    BY <2>2, <2>3 DEF ConsistentJourney
  <2>5. new # NoCache /\ working # NoCache
    BY <2>2, <2>4, NoCacheIsNoRecord
  <2>6. pc'[t] \notin Tracked /\ pc'[t] # "restoreWrite"
    BY <1>4, FailedAway DEF StartEdit, Tracked, Opened
  <2> HIDE DEF new
  <2> QED BY <2>1, <2>4, <2>5, <2>6, NotTracked, SameAnswersStutter
<1>5. CASE CompleteAssessment(t)
  <2> DEFINE stored == [answers |-> loc[t].working.answers,
                        version |-> loc[t].working.version]
  <2>1. pc[t] = "completePost" /\ working' = working /\ backup' = backup
    BY <1>5 DEF CompleteAssessment, AtStep
  <2>2. /\ OnCheck(screen[t]) /\ loc[t].working = working /\ working # NoCache
    BY <2>1, AtTab, CopyIsCached DEF LocalsAt, LoneInv, Shown, Holding, Completing
  <2>3. working.answers \in Complete
    BY <2>1, <2>2 DEF LoneInv, Validated, Merging
  <2>4. stored \in ConsistentSaved /\ stored.answers = working.answers
    BY <2>2 DEF IInv, StoreInv, ConsistentJourney, ConsistentSaved
  <2>5. stored # NoCache
    BY <2>4, NoCacheIsNoRecord
  <2>6. \/ pc'[t] = "deleteWorking" /\ api' = stored
        \/ pc'[t] = "idle" /\ api' \in {api, stored}
    BY <1>5, Endings DEF CompleteAssessment
  <2> HIDE DEF stored
  <2>7. ReportInv(t)'
    BY <2>5, <2>6 DEF ReportInv, Prefilled, Chosen, Finished, Merging, Opened, Checking
  <2>8. /\ AnswersOf(working) = working.answers /\ AnswersOf(working)' = working.answers
        /\ AnswersOf(backup)' = AnswersOf(backup)
    BY <2>1, <2>2 DEF AnswersOf
  <2>9. EditedFrom' = EditedFrom
    BY <2>1, <2>6, <2>8, EditedFromIs
  <2>10. CASE api' = stored
    <3>1. AnswersOf(api)' = working.answers
      BY <2>4, <2>5, <2>10 DEF AnswersOf
    <3>2. Promised!Confirm
      BY <2>3, <2>8, <2>9, <3>1 DEF Promised!Confirm
    <3> QED BY <2>7, <3>2 DEF ReportStep, Promised!Next
  <2>11. CASE api' = api
    <3>1. AnswersOf(api)' = AnswersOf(api)
      BY <2>11 DEF AnswersOf
    <3> QED BY <2>7, <2>8, <2>9, <3>1 DEF ReportStep, reportVars
  <2> QED BY <2>6, <2>10, <2>11
<1>6. CASE SubmitAssessment(t)
  <2>1. NoWrite /\ pc[t] = "submitPost"
    BY <1>6, CallsDoNotCrash DEF SubmitAssessment
  <2>2. Fail(t) \/ Continue(t, "deleteWorking", NoLocals)
    BY <1>6 DEF SubmitAssessment
  <2>3. /\ Prefilled("deleteWorking", NoLocals, api) /\ Finished("deleteWorking", api)
        /\ Chosen("deleteWorking", NoLocals, working, backup)
    BY <2>1 DEF ReportInv, Prefilled, Chosen, Finished, Merging, Opened, Checking
  <2> QED BY <2>1, <2>2, <2>3, FailedAway, QuietlyAway, QuietlyOn
<1>7. CASE DeleteWorking(t)
  <2>1. pc[t] = "deleteWorking" /\ pc'[t] = "deleteBackup"
    BY <1>7, Endings DEF DeleteWorking, AtStep
  <2>2. working' = NoCache /\ backup' = backup /\ api' = api
    BY <1>7 DEF DeleteWorking, SetWorking
  <2>3. api \in ConsistentSaved
    BY <2>1 DEF ReportInv, Finished, IInv, StoreInv
  <2>4. AnswersOf(api) # NoSheet
    BY <2>3, NoCacheIsNoRecord DEF AnswersOf, ConsistentSaved
  <2>5. /\ AnswersOf(working)' = NoSheet /\ AnswersOf(api)' = AnswersOf(api)
        /\ AnswersOf(backup)' = AnswersOf(backup)
    BY <2>2 DEF AnswersOf
  <2>6. Promised!Close
    BY <2>1, <2>4, <2>5, EditedFromIs DEF Promised!Close
  <2> QED BY <2>1, <2>6, NotTracked
          DEF ReportStep, Promised!Next, Tracked, Opened, Checking
<1>8. CASE DeleteBackup(t)
  <2>1. pc[t] = "deleteBackup" /\ pc'[t] = "idle"
    BY <1>8, Endings DEF DeleteBackup, AtStep
  <2>2. working' = working /\ backup' = NoCache /\ api' = api
    BY <1>8 DEF DeleteBackup, SetBackup
  <2>3. /\ AnswersOf(working)' = AnswersOf(working) /\ AnswersOf(api)' = AnswersOf(api)
        /\ AnswersOf(backup)' = NoSheet
    BY <2>2 DEF AnswersOf
  <2>4. Promised!EndEdit
    BY <2>1, <2>3, EditedFromIs DEF Promised!EndEdit
  <2> QED BY <2>1, <2>4, NotTracked
          DEF ReportStep, Promised!Next, Tracked, Opened, Checking
<1> QED BY <1>2, <1>3, <1>4, <1>5, <1>6, <1>7, <1>8 DEF EditAndComplete

LEMMA UseReports ==
    ASSUME IInv, NEW t \in Tab, Tab = {t}, ReportInv(t), Use(t) \/ Redirected(t)
    PROVE  ReportInv(t)' /\ ReportStep
<1>1. CASE SubmitReport(t)
  <2>1. /\ NoWrite /\ pc[t] = "idle" /\ pc'[t] = "submitPost" /\ api # NoCache
    BY <1>1, Endings DEF SubmitReport
  <2>2. ReportInv(t)'
    BY <2>1 DEF NoWrite, ReportInv, Prefilled, Chosen, Finished, Merging, Opened, Checking
  <2> QED BY <2>1, <2>2, QuietStutters
<1>2. CASE Leave(t) \/ Redirected(t)
  <2>1. /\ NoWrite /\ pc[t] # "restoreWrite" /\ pc'[t] \in {"idle", "viewOpen"}
    BY <1>2, Endings DEF Leave, Redirected, FollowRedirect, AbandonRedirect, NoWrite,
       IInv, TabInv
  <2> QED BY <2>1, QuietlyAway DEF Tracked, Opened, Checking
<1>3. CASE Use(t) /\ ~SubmitReport(t) /\ ~Leave(t)
  <2>1. \E label \in {"version", "viewOpen", "saveOpen", "editRead", "completeRead"} : \E r :
           Send(t, label, r)
    BY <1>3, NoClickAlone DEF Use, OpenPathway, Revisit, ContinueForm, Change, ChangeFromProfile, Confirm
  <2>2. /\ NoWrite /\ pc[t] = "idle"
        /\ pc'[t] \in {"version", "viewOpen", "saveOpen", "editRead", "completeRead"}
    BY <2>1, Endings
  <2> QED BY <2>2, QuietlyAway DEF Tracked, Opened, Checking
<1> QED BY <1>1, <1>2, <1>3

(* A handler killed before it restores a backup gives that up with it.     *)
LEMMA CrashReports ==
    ASSUME IInv, NEW t \in Tab, Tab = {t}, ReportInv(t), Crash(t)
    PROVE  ReportInv(t)' /\ ReportStep
<1>1. NoWrite /\ pc'[t] = "idle"
  BY Endings DEF Crash
<1>2. CASE pc[t] # "restoreWrite"
  BY <1>1, <1>2, QuietlyAway DEF Tracked, Opened, Checking
<1>3. CASE pc[t] = "restoreWrite"
  <2>1. ReportInv(t)'
    BY <1>1, NotTracked DEF Tracked, Opened, Checking
  <2>2. backup \in {NoCache, loc[t].backup}
    BY <1>3 DEF ReportInv, Chosen
  <2>3. /\ AnswersOf(working)' = AnswersOf(working) /\ AnswersOf(api)' = AnswersOf(api)
        /\ AnswersOf(backup)' = AnswersOf(backup)
    BY <1>1 DEF NoWrite, AnswersOf
  <2>4. EditedFrom = loc[t].backup.answers /\ EditedFrom' = AnswersOf(backup)
    BY <1>1, <1>3, <2>3, EditedFromIs
  <2>5. EditedFrom' \in {EditedFrom, NoSheet}
    BY <2>2, <2>4 DEF AnswersOf
  <2>6. Promised!EndEdit \/ UNCHANGED reportVars
    BY <2>3, <2>5 DEF Promised!EndEdit, reportVars
  <2> QED BY <2>1, <2>6 DEF ReportStep, Promised!Next
<1> QED BY <1>2, <1>3

LEMMA EnvironmentReports ==
    ASSUME IInv, NEW t \in Tab, Tab = {t}, ReportInv(t), Environment
    PROVE  ReportInv(t)' /\ ReportStep
<1>1. CASE ExpireWorking
  <2>1. /\ pc[t] = "idle" /\ pc'[t] = "idle" /\ "expiry" \in Mishaps
        /\ working' = NoCache /\ backup' = backup /\ api' = api
    BY <1>1 DEF ExpireWorking, Mishap
  <2>2. /\ AnswersOf(working)' = NoSheet /\ AnswersOf(api)' = AnswersOf(api)
        /\ AnswersOf(backup)' = AnswersOf(backup)
    BY <2>1 DEF AnswersOf
  <2>3. Promised!Close
    BY <2>1, <2>2, EditedFromIs DEF Promised!Close
  <2> QED BY <2>1, <2>3, NotTracked
          DEF ReportStep, Promised!Next, Tracked, Opened, Checking
<1>2. CASE ExpireBackup
  <2>1. /\ working' = working /\ backup' = NoCache /\ api' = api
        /\ pc' = pc /\ loc' = loc
    BY <1>2 DEF ExpireBackup
  <2>2. ReportInv(t)'
    BY <2>1 DEF ReportInv, Prefilled, Chosen, Finished
  <2>3. /\ AnswersOf(working)' = AnswersOf(working) /\ AnswersOf(api)' = AnswersOf(api)
        /\ AnswersOf(backup)' = NoSheet
    BY <2>1 DEF AnswersOf
  <2>4. EditedFrom' \in {EditedFrom, NoSheet}
    BY <2>1, <2>3, EditedFromIs
  <2>5. Promised!EndEdit \/ UNCHANGED reportVars
    BY <2>3, <2>4 DEF Promised!EndEdit, reportVars
  <2> QED BY <2>2, <2>5 DEF ReportStep, Promised!Next
<1> QED BY <1>1, <1>2 DEF Environment

LEMMA ReportsStep ==
    ASSUME IInv, NEW t \in Tab, Tab = {t}, LoneInv(t), ReportInv(t), [Next]_vars
    PROVE  ReportInv(t)' /\ ReportStep
<1>1. CASE Handle(t)
  BY <1>1, GetFirstPageReports, SaveAnswerAndGetNextPageReports, GetViewReports,
     CheckYourAnswersReports, EditAndCompleteReports DEF Handle
<1>2. CASE Use(t) \/ Redirected(t) \/ Crash(t)
  BY <1>2, UseReports, CrashReports
<1>3. CASE Environment
  BY <1>3, EnvironmentReports
<1>4. CASE UNCHANGED vars
  <2>1. /\ working' = working /\ backup' = backup /\ api' = api
        /\ pc' = pc /\ loc' = loc
    BY <1>4 DEF vars
  <2>2. ReportInv(t)'
    BY <2>1 DEF ReportInv
  <2>3. /\ AnswersOf(working)' = AnswersOf(working) /\ AnswersOf(api)' = AnswersOf(api)
        /\ AnswersOf(backup)' = AnswersOf(backup)
    BY <2>1 DEF AnswersOf
  <2>4. UNCHANGED reportVars
    BY <2>1, <2>3, EditedFromIs DEF reportVars
  <2> QED BY <2>2, <2>4 DEF ReportStep
<1> QED BY <1>1, <1>2, <1>3, <1>4 DEF Next

LEMMA InitReports ==
    ASSUME NEW t \in Tab, Tab = {t}, Init
    PROVE  ReportInv(t) /\ Promised!Init
<1>1. ReportInv(t)
  BY DEF Init, ReportInv, Prefilled, Chosen, Finished, Merging, Opened, Checking
<1>2. EditedFrom = AnswersOf(backup)
  BY EditedFromIs DEF Init
<1> QED BY <1>1, <1>2 DEF Init, AnswersOf, Promised!Init

(* With one tab the wizard keeps the promise of ReportForm: each step of   *)
(* its handlers is one of the form's, or changes nothing of it.  It rests  *)
(* on what the handlers know: the copies they write back are of what is    *)
(* cached, and what is settled on are the answers of the journey cached.   *)
THEOREM ActsOnReport ==
    ASSUME NEW t \in Tab, Tab = {t}
    PROVE  Spec => ActsOnCurrentReport
<1>1. Init => ReportInv(t) /\ Promised!Init
  BY InitReports
<1>2. IInv /\ LoneInv(t) /\ ReportInv(t) /\ [Next]_vars
         => ReportInv(t)' /\ [Promised!Next]_reportVars
  BY ReportsStep DEF ReportStep
<1>3. Spec => [](IInv /\ LoneInv(t))
  BY LoneInvariant
<1> QED BY <1>1, <1>2, <1>3, PTL DEF Spec, ActsOnCurrentReport, Promised!Spec, reportVars
=============================================================================
