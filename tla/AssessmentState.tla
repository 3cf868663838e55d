--------------------------- MODULE AssessmentState ---------------------------
(***************************************************************************)
(* The data of one report (immediate needs or pre-release) on one pathway  *)
(* of one prisoner, and the pure operations that                           *)
(* server/data/assessmentStateService.ts performs on a cached assessment   *)
(* between reading it from Redis and writing it back.                      *)
(*                                                                         *)
(* A cached questionsAndAnswers list holds each question once, so it is a  *)
(* function from questions to answers (a sheet); pageLoadHistory is a      *)
(* sequence of page ids, because the questions of a page are fixed by the  *)
(* page.  The form itself (its pages, nested questions, branching and what *)
(* counts as complete) is served by the resettlement passport API and is a *)
(* parameter here.                                                         *)
(***************************************************************************)
EXTENDS Naturals, Sequences

CONSTANTS
    Page,             \* question pages of the form
    CheckAnswers,     \* CHECK_ANSWERS_PAGE_ID
    Question,         \* every question, nested ones included
    PageOf,           \* PageOf[q]: the page that asks q (originalPageId)
    Answer,           \* answers a browser can post, an empty one included
    NoAnswer,         \* the question has no entry in the list
    Nested,           \* Nested[q][a]: questions nested under option a of q
    Version,          \* versions of the form
    ListedPages(_)    \* pages of a saved sheet, in the order the API lists them

PageId == Page \cup {CheckAnswers}
Sheet == [Question -> Answer \cup {NoAnswer}]
EmptySheet == [q \in Question |-> NoAnswer]

(* WorkingCachedAssessment and BackupCachedAssessment. *)
Journey == [answers: Sheet, version: Version, history: Seq(PageId)]
EditBackup == [answers: Sheet, version: Version, history: Seq(PageId),
               startEditPageId: PageId]

(* Nested questions are asked on the page of their parent, belong to one   *)
(* option of one parent, and have no nested questions of their own.        *)
ASSUME FormAssumption ==
    /\ CheckAnswers \notin Page
    /\ NoAnswer \notin Answer
    /\ PageOf \in [Question -> Page]
    /\ Nested \in [Question -> [Answer -> SUBSET Question]]
    /\ \A q \in Question, a \in Answer : \A x \in Nested[q][a] :
          /\ PageOf[x] = PageOf[q]
          /\ \A b \in Answer : Nested[x][b] = {}
          /\ \A p \in Question, b \in Answer :
                x \in Nested[p][b] => p = q /\ b = a
    /\ \A s \in Sheet : ListedPages(s) \in Seq(Page)

-----------------------------------------------------------------------------
(* Answers.                                                                *)

(* findOtherNestedQuestions: the questions nested under the other options  *)
(* of the parent of q, the parent being q itself unless q is nested.  The  *)
(* selected option is the one answered or the one q is nested under.       *)
FindOtherNestedQuestions(q, a) ==
    { x \in Question : \E p \in Question, b \in Answer :
        /\ x \in Nested[p][b]
        /\ \/ p = q
           \/ \E c \in Answer : q \in Nested[p][c]
        /\ b # a
        /\ q \notin Nested[p][b] }

(* Mutant of Answered: nothing is deleted. *)
AnsweredKeepingNested(sheet, post) ==
    [q \in Question |-> IF post[q] # NoAnswer THEN post[q] ELSE sheet[q]]

(* answer(): every posted answer replaces the cached one, after the        *)
(* answers nested under the options it deselects have been deleted.        *)
Answered(sheet, post) ==
    [q \in Question |->
        IF post[q] # NoAnswer THEN post[q]
        ELSE IF \E p \in Question : /\ post[p] # NoAnswer
                                    /\ q \in FindOtherNestedQuestions(p, post[p])
        THEN NoAnswer
        ELSE sheet[q]]

(* The pages that have an answer in a sheet. *)
AnsweredPages(sheet) ==
    { PageOf[q] : q \in { x \in Question : sheet[x] # NoAnswer } }

-----------------------------------------------------------------------------
(* Page load history.                                                      *)

Loaded(history, p) == \E i \in DOMAIN history : history[i] = p

FirstLoad(history, p) ==
    CHOOSE i \in DOMAIN history :
        /\ history[i] = p
        /\ \A j \in DOMAIN history : history[j] = p => i <= j

(* updatePageLoadHistory: a new page is appended, a page loaded before     *)
(* drops everything after it.                                              *)
LoadPage(history, p) ==
    IF Loaded(history, p)
    THEN SubSeq(history, 1, FirstLoad(history, p))
    ELSE Append(history, p)

(* startEdit: slice(0, findIndex(p)); a page that is not there has index   *)
(* -1 and slice(0, -1) drops the last entry.                               *)
BeforePage(history, p) ==
    SubSeq(history, 1,
           IF Loaded(history, p) THEN FirstLoad(history, p) - 1
                                 ELSE Len(history) - 1)

(* checkForConvergence: slice(indexOf(p), length); for a page that is not  *)
(* there, slice(-1, length) is the last entry alone.                       *)
FromPage(history, p) ==
    IF history = << >> THEN << >>
    ELSE SubSeq(history,
                IF Loaded(history, p) THEN FirstLoad(history, p) ELSE Len(history),
                Len(history))

(* Mutant of PagesFromCheckYourAnswers: Check Your Answers is always added. *)
PagesAlwaysWithCheckAnswers(sheet) == Append(ListedPages(sheet), CheckAnswers)

(* getPagesFromCheckYourAnswers. *)
PagesFromCheckYourAnswers(sheet) ==
    IF sheet = EmptySheet THEN << >> ELSE Append(ListedPages(sheet), CheckAnswers)

-----------------------------------------------------------------------------
(* Cached assessments.                                                     *)

(* getAllAnsweredQuestionsFromCache: the answers on the pages that the     *)
(* history says were loaded.                                               *)
AnsweredQuestions(journey) ==
    [q \in Question |-> IF Loaded(journey.history, PageOf[q])
                        THEN journey.answers[q] ELSE NoAnswer]

(* Mutant of WithoutEdit: the backup is copied as it is. *)
CopyOfEdit(edit) == edit

(* The backup without its startEditPageId (resetWorkingCacheToBackupCache). *)
WithoutEdit(edit) ==
    [answers |-> edit.answers, version |-> edit.version, history |-> edit.history]

(* startEdit's backup of a working assessment. *)
WithEdit(journey, p) ==
    [answers |-> journey.answers, version |-> journey.version,
     history |-> journey.history, startEditPageId |-> p]

(* An answer to a nested question is only there together with the option   *)
(* of its parent that asks it.                                             *)
Consistent(sheet) ==
    \A q \in Question, a \in Answer : \A x \in Nested[q][a] :
        sheet[x] # NoAnswer => sheet[q] = a
=============================================================================
