------------------------------ MODULE SkipReport ------------------------------
(***************************************************************************)
(* AssessmentTaskListController and AssessmentSkipController: which of the *)
(* two reports a person in the pre-release window gets, and the form that  *)
(* skips the immediate needs report.  The pathways of a report are filled  *)
(* in by AssessmentWizard; here a report has been started or not.          *)
(***************************************************************************)
EXTENDS Applications

(* A skip starts no report. *)
Started(type) == \E i \in Live : apps[i].kind = type

TaskList(type) == PageOf("assessment-task-list", [NoParams EXCEPT !.kind = type])
SkipForm == PageOf("assessment-skip", NoParams)

(* Mutant of Offered: the second summary is not asked for. *)
OfferedWithoutPlan(type, force, inWindow, unread) ==
    IF type = "BCST2" /\ type \notin unread /\ ~Started(type) /\ ~force /\ inWindow
    THEN SkipForm
    ELSE IF type \in unread THEN OtherPage ELSE TaskList(type)

(* A summary that cannot be read is not that of a report not started; a    *)
(* list of it has no links.  One redirect leads from the first list to the *)
(* other.                                                                  *)
Offered(type, force, inWindow, unread) ==
    LET NotStarted(t) == t \notin unread /\ ~Started(t) IN
    IF type = "BCST2" /\ NotStarted(type) /\ ~force /\ inWindow
    THEN IF NotStarted("RESETTLEMENT_PLAN") THEN SkipForm ELSE TaskList("RESETTLEMENT_PLAN")
    ELSE IF type \in unread THEN OtherPage ELSE TaskList(type)

(* getView.  The overview of a person leads to it, and the form by force.  *)
OpenTaskList ==
    /\ "skip" \in scenario.kinds
    /\ \E type \in Report, inWindow \in BOOLEAN,
          force \in (IF screen = SkipForm THEN BOOLEAN ELSE {FALSE}) :
          \/ Fine /\ screen' = Offered(type, force, inWindow, {})
          \/ /\ Fault
             /\ \/ \E unread \in SUBSET Report : screen' = Offered(type, force, inWindow, unread)
                \/ screen' = OtherPage
    /\ Leave
    /\ UNCHANGED <<apiVars, creates>>

(* A link of the list: the wizard completes a first pathway. *)
StartReport ==
    /\ screen.view = "assessment-task-list"
    /\ screen.params.kind \in scenario.kinds
    /\ ~Started(screen.params.kind)
    /\ Press(Whole(screen.params.kind), OtherPage, OtherPage)

(* submitForm.  Without a reason it leads back to the form, which does not *)
(* ask for the summaries again.  If the prisoner is not read, see          *)
(* PrisonerNotRead, nobody answers: that read is outside of the try.       *)
SubmitSkip ==
    /\ screen.view = "assessment-skip"
    /\ \/ Show(screen)
       \/ Press(Whole("skip"), TaskList("RESETTLEMENT_PLAN"), OtherPage)

ReportStep == OpenTaskList \/ StartReport \/ SubmitSkip
=============================================================================
