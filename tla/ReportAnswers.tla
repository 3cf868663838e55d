---------------------------- MODULE ReportAnswers ----------------------------
(***************************************************************************)
(* What the form of a page posts, and what is made of it before anything   *)
(* is cached: processReportRequestBody keeps the answers to the questions  *)
(* that were asked, validateAssessmentResponse looks for errors in them,   *)
(* formatAssessmentResponse has one answer for every question asked.       *)
(*                                                                         *)
(* A body is a function from questions to answers, like a sheet: NoAnswer  *)
(* for a question whose fields the page does not have.  The fields of all  *)
(* nested questions are on the page and posted, hidden or not.             *)
(***************************************************************************)
EXTENDS AssessmentState

CONSTANTS
    QuestionType,     \* QuestionType[q]: question.type
    Mandatory,        \* the questions whose validation.type is MANDATORY
    Matching,         \* Matching[q]: answers that validation.regex lets pass
    Blank,            \* an answer without an option, a ticked box or a text
    Length,           \* Length[a]: of a text, of the longest line of an address
    WithoutFreeText,  \* ticked boxes, Other among them, and no text for Other
    ShortLimit,       \* 500 characters
    LongLimit,        \* 3,000 characters
    Input             \* bound: what users leave in the fields of a question

ASSUME AnswersAssumption ==
    /\ QuestionType \in [Question -> {"RADIO", "CHECKBOX", "SHORT_TEXT", "LONG_TEXT", "ADDRESS"}]
    /\ Mandatory \subseteq Question
    /\ Matching \in [Question -> SUBSET Answer]
    /\ Blank \in Answer
    /\ Length \in [Answer -> Nat]
    /\ WithoutFreeText \subseteq Answer
    /\ ShortLimit \in Nat /\ LongLimit \in Nat
    /\ Input \in [Question -> SUBSET Answer]

(* The questions of a page that are not nested. *)
ParentQuestions(p) ==
    { q \in Question : /\ PageOf[q] = p
                       /\ \A r \in Question, a \in Answer : q \notin Nested[r][a] }

(* Mutant of FlattenedQuestionsOnPage: every question with an answer in    *)
(* the body counts as asked.                                               *)
QuestionsInBody(p, body) == { q \in Question : body[q] # NoAnswer }

(* processReportRequestBody: the questions that were asked, those nested   *)
(* under the selected options included.                                    *)
FlattenedQuestionsOnPage(p, body) ==
    ParentQuestions(p) \cup
    { x \in Question : \E q \in ParentQuestions(p) :
        body[q] # NoAnswer /\ x \in Nested[q][body[q]] }

(* formatAssessmentResponse: one answer for each of them, found or not. *)
FormatAssessmentResponse(p, body) ==
    LET asked == FlattenedQuestionsOnPage(p, body) IN
    [q \in Question |-> CASE q \notin asked -> NoAnswer
                          [] q \in asked /\ body[q] = NoAnswer -> Blank
                          [] OTHER -> body[q]]

(* What is wrong with answer a to question q. *)
ValidationErrorTypes(q, a) ==
    LET when(holds, error) == IF holds THEN {error} ELSE {} IN
    UNION { when(q \in Mandatory /\ a = Blank, "MANDATORY_INPUT"),
            when(QuestionType[q] = "ADDRESS" /\ Length[a] > ShortLimit,
                 "MAX_CHARACTER_LIMIT_ADDRESS"),
            when(QuestionType[q] = "SHORT_TEXT" /\ Length[a] > ShortLimit,
                 "MAX_CHARACTER_LIMIT_SHORT_TEXT"),
            when(QuestionType[q] = "LONG_TEXT" /\ Length[a] > LongLimit,
                 "MAX_CHARACTER_LIMIT_LONG_TEXT"),
            when(a \notin Matching[q], "CUSTOM"),
            when(QuestionType[q] = "CHECKBOX" /\ a \in WithoutFreeText, "MANDATORY_INPUT") }

(* validateAssessmentResponse: all questions asked, by the answers that    *)
(* are about to be cached.                                                 *)
ValidationErrors(post) ==
    UNION { { [questionId |-> q, validationType |-> e] :
                  e \in ValidationErrorTypes(q, post[q]) }
            : q \in { x \in Question : post[x] # NoAnswer } }

(* The bodies that the form of page p can post. *)
Bodies(p) ==
    LET fields == { q \in Question : PageOf[q] = p } IN
    { [q \in Question |-> IF q \in fields THEN filled[q] ELSE NoAnswer] :
        filled \in { f \in [fields -> UNION { Input[q] : q \in fields }] :
                        \A q \in fields : f[q] \in Input[q] } }
=============================================================================
