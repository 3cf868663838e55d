---------------------------- MODULE AddAppointment ----------------------------
(***************************************************************************)
(* AddAppointmentController: a form, a page to check it and Confirm.  The  *)
(* notes and the address are optional, so they are left out.  Whether the  *)
(* date is past is only told with an answer that is missing.               *)
(***************************************************************************)
EXTENDS Applications

ValidAppointment(p) == AppointmentField \subseteq p.given

(* The overview of a person leads to the form.                             *)
AddAnAppointment ==
    /\ "appointment" \in scenario.kinds
    /\ Show(PageOf("add-appointment", NoParams))

(* getConfirmAppointmentView.                                              *)
SubmitAppointmentForm ==
    /\ screen.view = "add-appointment"
    /\ \E given \in SUBSET AppointmentField :
          LET p == [screen.params EXCEPT !.given = given] IN
          Show(IF ValidAppointment(p) THEN PageOf(AppointmentConfirm, p) ELSE screen)

(* getAddAppointmentView, with the page's own query string.                *)
ChangeAppointment ==
    /\ screen.view = AppointmentConfirm
    /\ Show(FormOf("add-appointment", screen.params, {}))

(* postAppointmentView.  After a failed call the page cannot be rendered:  *)
(* its links need the request, which it is not given.                      *)
SubmitAppointment ==
    /\ screen.view = AppointmentConfirm
    /\ Press([do |-> "create", kind |-> "appointment", blind |-> FALSE,
              complete |-> AppointmentField \subseteq screen.params.given],
             OtherPage, OtherPage)

AppointmentStep ==
    AddAnAppointment \/ SubmitAppointmentForm \/ ChangeAppointment \/ SubmitAppointment
=============================================================================
