------------------------- MODULE MCAssessmentWizard -------------------------
(***************************************************************************)
(* A form with a branch, a nested question and a page that can be posted   *)
(* with an answer that is Bad, left blank or a tome:                       *)
(*                                                                         *)
(*    a --yes----------------> CHECK_ANSWERS                               *)
(*      --no (asks na) -> b -->                                            *)
(***************************************************************************)
EXTENDS AssessmentWizard, TLC

CONSTANTS a, b, qa, na, qb, yes, no, text, tome, blank, t1, t2, Bad

MCPage == {a, b}
MCQuestion == {qa, na, qb}
MCAnswer == {yes, no, text, Bad, blank}
MCPageOf == (qa :> a) @@ (na :> a) @@ (qb :> b)
MCNested ==
    [q \in MCQuestion |-> [o \in MCAnswer |->
        IF q = qa /\ o = no THEN {na} ELSE {}]]

MCListedPages(sheet) ==
    SelectSeq(<<a, b>>,
              LAMBDA p : \E q \in MCQuestion : MCPageOf[q] = p /\ sheet[q] # NoAnswer)

Answers(f) == [q \in MCQuestion |-> IF q \in DOMAIN f THEN f[q] ELSE NoAnswer]

MCQuestionType == (qa :> "RADIO") @@ (na :> "SHORT_TEXT") @@ (qb :> "LONG_TEXT")
MCMatching == [q \in MCQuestion |-> MCAnswer]
MCLength == [x \in MCAnswer |-> CASE x = text -> 1 [] x = tome -> 3 [] OTHER -> 0]
MCInput == (qa :> {yes, no}) @@ (na :> {text}) @@ (qb :> {text, Bad})

MCNextPage(p, post) == IF p = a /\ post[qa] = no THEN b ELSE CheckAnswers

PostYes == Answers(qa :> yes)
ViaB == Answers((qa :> no) @@ (na :> text) @@ (qb :> text))
MCComplete == {PostYes, ViaB}

-----------------------------------------------------------------------------
(* Two tabs.  Exploring a journey from its start in one tab while the      *)
(* other one works too takes too many requests, so these behaviours start  *)
(* in states that one tab reaches alone, the other opened from it: Check   *)
(* Your Answers in both tabs, or a completed assessment and no cache.      *)
AtCheckAnswers ==
    /\ working = [answers |-> ViaB, version |-> 1, history |-> <<a, b, CheckAnswers>>]
    /\ api = NoCache
    /\ screen = [t \in Tab |-> [page |-> CheckAnswers, submitted |-> FALSE, links |-> {a, b}]]

AlreadyCompleted ==
    /\ working = NoCache
    /\ api = [answers |-> ViaB, version |-> 1]
    /\ screen = [t \in Tab |-> Elsewhere]

TwoTabsInit ==
    /\ AtCheckAnswers \/ AlreadyCompleted
    /\ backup = NoCache
    /\ pc = [t \in Tab |-> "idle"]
    /\ req = [t \in Tab |-> NoRequest]
    /\ loc = [t \in Tab |-> NoLocals]
    /\ spent = [mishaps |-> 0, crashed |-> FALSE, requests |-> 0]

TwoTabsSpec == TwoTabsInit /\ [][Next]_vars

MCSymmetry == Permutations(Tab)
=============================================================================
