------------------------------ MODULE ReportForm -----------------------------
(***************************************************************************)
(* What the report wizard promises a member of staff with one tab: answers *)
(* that each button changes at once, or not at all.  AssessmentWizard has  *)
(* the requests, the two keys in Redis, the page load history and the      *)
(* copies that handlers work on; it implements this module with the        *)
(* working answers, the answers an edit was started from, and those the    *)
(* API has completed.                                                      *)
(***************************************************************************)
CONSTANTS
    Page, Question, PageOf, NoAnswer,
    Sheet,            \* the answers to each question, or NoAnswer
    EmptySheet,
    Complete,         \* sheets that the API accepts
    NoSheet,          \* there are none
    MayExpire         \* whether answers may be left for too long

VARIABLES
    answers,          \* of the report being filled in, if any
    kept,             \* what they were when an edit was started, if one was
    stored            \* what has been completed

Init ==
    /\ answers = NoSheet
    /\ kept = NoSheet
    /\ stored = NoSheet

(* A report starts empty, or with the answers that were completed. *)
Open ==
    /\ answers = NoSheet
    /\ answers' \in {EmptySheet, stored} \ {NoSheet}
    /\ UNCHANGED <<kept, stored>>

(* Continue on a page changes the answers to its own questions only. *)
Post ==
    /\ answers # NoSheet
    /\ answers' \in Sheet
    /\ \E p \in Page : \A q \in Question : PageOf[q] # p => answers'[q] = answers[q]
    /\ UNCHANGED <<kept, stored>>

Edit ==
    /\ answers # NoSheet
    /\ kept' = answers
    /\ UNCHANGED <<answers, stored>>

(* An edit that is given up brings back the answers it was started from. *)
GiveUp ==
    /\ answers # NoSheet /\ kept # NoSheet
    /\ answers' = kept
    /\ kept' \in {kept, NoSheet}
    /\ UNCHANGED stored

EndEdit ==
    /\ kept' = NoSheet
    /\ UNCHANGED <<answers, stored>>

(* Answers off the journey are dropped, if the rest is complete and no     *)
(* edit is left to be given up.                                            *)
Settle ==
    /\ answers # NoSheet /\ kept = NoSheet
    /\ answers' \in Complete
    /\ \A q \in Question : answers'[q] \in {answers[q], NoAnswer}
    /\ UNCHANGED <<kept, stored>>

Confirm ==
    /\ answers \in Complete
    /\ stored' = answers
    /\ UNCHANGED <<answers, kept>>

(* The answers go once they have been completed, or lain too long. *)
Close ==
    /\ stored # NoSheet \/ MayExpire
    /\ answers' = NoSheet
    /\ UNCHANGED <<kept, stored>>

Next == Open \/ Post \/ Edit \/ GiveUp \/ EndEdit \/ Settle \/ Confirm \/ Close

Spec == Init /\ [][Next]_<<answers, kept, stored>>
=============================================================================
