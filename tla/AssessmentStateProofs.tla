------------------------ MODULE AssessmentStateProofs ------------------------
(***************************************************************************)
(* What the operations of AssessmentState return, for every form: their    *)
(* types, and that they keep nested answers under the option that asks     *)
(* for them.                                                               *)
(***************************************************************************)
EXTENDS AssessmentState, SequenceTheorems, WellFoundedInduction, TLAPS

(* A page that was loaded has a first entry in the history. *)
LEMMA FirstLoadExists ==
    ASSUME NEW history \in Seq(PageId), NEW p, Loaded(history, p)
    PROVE  /\ FirstLoad(history, p) \in 1..Len(history)
           /\ history[FirstLoad(history, p)] = p
<1> DEFINE T == { i \in DOMAIN history : history[i] = p }
           R == OpToRel(<, Nat)
<1>1. T \subseteq Nat /\ T # {}
  BY DEF Loaded
<1>2. PICK i \in T : \A j \in T : ~ (<<j, i>> \in R)
  BY <1>1, NatLessThanWellFounded, WFMin
<1>3. \A j \in T : i <= j
  <2> TAKE j \in T
  <2>1. <<j, i>> \in Nat \X Nat /\ ~ (j < i)
    BY <1>1, <1>2 DEF OpToRel
  <2> QED BY <2>1
<1>4. i \in DOMAIN history /\ history[i] = p
      /\ \A j \in DOMAIN history : history[j] = p => i <= j
  BY <1>2, <1>3
<1> QED BY <1>4 DEF FirstLoad

(* The three slices of a history, and appending a page, give histories. *)
LEMMA LoadPageType ==
    ASSUME NEW history \in Seq(PageId), NEW p \in PageId
    PROVE  LoadPage(history, p) \in Seq(PageId)
<1>1. CASE Loaded(history, p)
  <2> DEFINE n == FirstLoad(history, p)
  <2>1. n \in 1..Len(history)
    BY <1>1, FirstLoadExists
  <2>2. \A i \in 1..n : history[i] \in PageId
    BY <2>1, ElementOfSeq
  <2>3. SubSeq(history, 1, n) \in Seq(PageId)
    <3> HIDE DEF n
    <3> QED BY <2>1, <2>2, SubSeqProperties
  <2> QED BY <1>1, <2>3 DEF LoadPage
<1>2. CASE ~Loaded(history, p)
  BY <1>2, AppendProperties DEF LoadPage
<1> QED BY <1>1, <1>2

LEMMA BeforePageType ==
    ASSUME NEW history \in Seq(PageId), NEW p \in PageId
    PROVE  BeforePage(history, p) \in Seq(PageId)
<1> DEFINE n == IF Loaded(history, p) THEN FirstLoad(history, p) - 1
                                     ELSE Len(history) - 1
<1>1. n \in Int /\ n <= Len(history)
  BY FirstLoadExists, LenProperties
<1>2. \A i \in 1..n : history[i] \in PageId
  BY <1>1, ElementOfSeq, LenProperties
<1>3. SubSeq(history, 1, n) \in Seq(PageId)
  <2> HIDE DEF n
  <2> QED BY <1>1, <1>2, SubSeqProperties
<1> QED BY <1>3 DEF BeforePage

LEMMA FromPageType ==
    ASSUME NEW history \in Seq(PageId), NEW p \in PageId
    PROVE  FromPage(history, p) \in Seq(PageId)
<1> DEFINE m == IF Loaded(history, p) THEN FirstLoad(history, p) ELSE Len(history)
<1>1. CASE history = << >>
  BY <1>1 DEF FromPage
<1>2. CASE history # << >>
  <2>1. m \in Int /\ 1 <= m /\ Len(history) \in Nat
    BY <1>2, FirstLoadExists, LenProperties, EmptySeq
  <2>2. \A i \in m..Len(history) : history[i] \in PageId
    BY <2>1, ElementOfSeq
  <2>3. SubSeq(history, m, Len(history)) \in Seq(PageId)
    <3> HIDE DEF m
    <3> QED BY <2>1, <2>2, SubSeqProperties
  <2> QED BY <1>2, <2>3 DEF FromPage
<1> QED BY <1>1, <1>2

LEMMA PagesFromCheckYourAnswersType ==
    ASSUME NEW sheet \in Sheet
    PROVE  PagesFromCheckYourAnswers(sheet) \in Seq(PageId)
<1>1. ListedPages(sheet) \in Seq(Page)
  BY FormAssumption
<1>2. ListedPages(sheet) \in Seq(PageId)
  BY <1>1 DEF PageId
<1>3. Append(ListedPages(sheet), CheckAnswers) \in Seq(PageId)
  BY <1>2, AppendProperties DEF PageId
<1> QED BY <1>3 DEF PagesFromCheckYourAnswers

-----------------------------------------------------------------------------
(* Sheets. *)

LEMMA EmptySheetType == EmptySheet \in Sheet /\ Consistent(EmptySheet)
<1>1. \A q \in Question, a \in Answer : \A x \in Nested[q][a] : x \in Question
  BY FormAssumption
<1> QED BY <1>1 DEF EmptySheet, Sheet, Consistent

(* A question that is nested has no nested questions, itself included. *)
LEMMA NestedOnce ==
    ASSUME NEW q \in Question, NEW a \in Answer, NEW x \in Nested[q][a]
    PROVE  /\ x \in Question
           /\ PageOf[x] = PageOf[q]
           /\ \A p \in Question, b \in Answer : q \notin Nested[p][b]
<1>1. x \in Question
  BY FormAssumption
<1>2. PageOf[x] = PageOf[q]
  BY FormAssumption
<1>3. ASSUME NEW p \in Question, NEW b \in Answer, q \in Nested[p][b]
      PROVE  FALSE
  <2>1. Nested[q][a] = {}
    BY <1>3, FormAssumption
  <2> QED BY <2>1
<1> QED BY <1>1, <1>2, <1>3

LEMMA AnsweredType ==
    ASSUME NEW sheet \in Sheet, NEW post \in Sheet
    PROVE  Answered(sheet, post) \in Sheet
BY DEF Answered, Sheet

(* answer() keeps nested answers under the option that asks for them: an   *)
(* answer that survives is nested under an option that is still selected.  *)
LEMMA AnsweredConsistent ==
    ASSUME NEW sheet \in Sheet, NEW post \in Sheet,
           Consistent(sheet), Consistent(post)
    PROVE  Consistent(Answered(sheet, post))
<1> DEFINE new == Answered(sheet, post)
           Deleted(x) == \E p \in Question : /\ post[p] # NoAnswer
                                            /\ x \in FindOtherNestedQuestions(p, post[p])
<1>1. \A x \in Question :
         new[x] = IF post[x] # NoAnswer THEN post[x]
                  ELSE IF Deleted(x) THEN NoAnswer ELSE sheet[x]
  BY DEF Answered
<1> SUFFICES ASSUME NEW q \in Question, NEW a \in Answer, NEW x \in Nested[q][a],
                    new[x] # NoAnswer
             PROVE  new[q] = a
  BY DEF Consistent
<1>2. /\ x \in Question
      /\ \A p \in Question, b \in Answer : q \notin Nested[p][b]
  BY NestedOnce
<1>3. a # NoAnswer
  BY FormAssumption
<1>4. CASE post[x] # NoAnswer
  <2>1. post[q] = a
    BY <1>4 DEF Consistent
  <2> QED BY <2>1, <1>1, <1>3
<1>5. CASE post[x] = NoAnswer
  <2>1. ~Deleted(x) /\ sheet[x] # NoAnswer
    BY <1>1, <1>2, <1>5
  <2>2. sheet[q] = a
    BY <2>1 DEF Consistent
  <2>3. ~Deleted(q)
    BY <1>2 DEF FindOtherNestedQuestions
  <2>4. CASE post[q] = NoAnswer
    <3> HIDE DEF Deleted
    <3> QED BY <1>1, <2>2, <2>3, <2>4
  <2>5. CASE post[q] # NoAnswer
    <3>1. post[q] = a
      BY <1>2, <2>1, <2>5 DEF FindOtherNestedQuestions
    <3> QED BY <1>1, <1>3, <3>1
  <2> QED BY <2>4, <2>5
<1> QED BY <1>4, <1>5

(* getAllAnsweredQuestionsFromCache drops whole pages, and a nested        *)
(* question is on the page of its parent.                                  *)
LEMMA AnsweredQuestionsConsistent ==
    ASSUME NEW journey, journey.answers \in Sheet, Consistent(journey.answers)
    PROVE  /\ AnsweredQuestions(journey) \in Sheet
           /\ Consistent(AnsweredQuestions(journey))
<1> DEFINE kept == AnsweredQuestions(journey)
<1>1. kept \in Sheet
  BY DEF AnsweredQuestions, Sheet
<1>2. ASSUME NEW q \in Question, NEW a \in Answer, NEW x \in Nested[q][a],
             kept[x] # NoAnswer
      PROVE  kept[q] = a
  <2>1. x \in Question /\ PageOf[x] = PageOf[q]
    BY NestedOnce
  <2>2. Loaded(journey.history, PageOf[x]) /\ journey.answers[x] # NoAnswer
    BY <1>2, <2>1 DEF AnsweredQuestions
  <2>3. journey.answers[q] = a
    BY <2>2 DEF Consistent
  <2> QED BY <2>1, <2>2, <2>3 DEF AnsweredQuestions
<1> QED BY <1>1, <1>2 DEF Consistent
=============================================================================
