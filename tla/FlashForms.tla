------------------------------ MODULE FlashForms ------------------------------
(***************************************************************************)
(* The forms of one page that tell their errors by flash: to update a      *)
(* support need (SupportNeedUpdateController), to reset a profile          *)
(* (ResetProfileController), to set a status (StatusUpdateController).     *)
(* An invalid post is sent back to its page, which shows the errors and    *)
(* what was filled in.  Two keys of the flash serve all of these forms.    *)
(***************************************************************************)
EXTENDS WebRequest

(* A form is there or not, by the flags: that of a need if support needs   *)
(* are, that of a status if they are not.                                  *)
Available(f) ==
    \/ f \in Need /\ "supportNeeds" \in featureFlags
    \/ f = Status /\ "supportNeeds" \notin featureFlags
    \/ f = Reset /\ "resetProfile" \in featureFlags

(* What a form finds in the flash: errors and values, of whichever form    *)
(* they are.                                                               *)
FoundBy(f, flash) ==
    IF f \in Need THEN flash.errors \cup ({flash.formValues} \ {NoForm})
    ELSE {flash.validationError} \ {NoForm}

(* Mutant of WithoutErrors: the form values stay. *)
WithoutErrorsOnly(f, flash) ==
    IF f \in Need THEN [flash EXCEPT !.errors = {}]
    ELSE [flash EXCEPT !.validationError = NoForm]

(* req.flash removes what it reads. *)
WithoutErrors(f, flash) ==
    IF f \in Need THEN [flash EXCEPT !.errors = {}, !.formValues = NoForm]
    ELSE [flash EXCEPT !.validationError = NoForm]

(* Only the first of several errors is shown. *)
WithValidationError(f, flash) ==
    [flash EXCEPT !.validationError = IF @ = NoForm THEN f ELSE @]

-----------------------------------------------------------------------------
(* getSupportNeedUpdateForm reads the flash last.  No form is shown if its *)
(* URL does not name a prisoner: it is not valid.                          *)
GetSupportNeedUpdateForm(t) ==
    LET f == req[t].form IN
    /\ pc[t] = "read"
    /\ f \in Need
    /\ \/ /\ Fine
          /\ Available(f) /\ req[t].valid
          /\ Respond(t, Shown(f, NoBanner, FoundBy(f, copy[t])), WithoutErrors(f, copy[t]))
       \/ Fine /\ ~(Available(f) /\ req[t].valid) /\ NextError(t, copy[t])
       \/ CallFails(t, copy[t])
    /\ UNCHANGED flagVars

(* resetProfileReason reads it first. *)
ResetProfileReason(t) ==
    LET flash == WithoutErrors(Reset, copy[t]) IN
    /\ pc[t] = "read"
    /\ req[t].form = Reset
    /\ \/ /\ Fine
          /\ Available(Reset) /\ req[t].valid
          /\ Respond(t, Shown(Reset, NoBanner, FoundBy(Reset, copy[t])), flash)
       \/ Fine /\ ~(Available(Reset) /\ req[t].valid) /\ NextError(t, flash)
       \/ CallFails(t, flash)
    /\ UNCHANGED flagVars

(* getStatusUpdate reads it between the prisoner and the flag, and leads   *)
(* to the pathway if there are support needs.                              *)
GetStatusUpdate(t) ==
    LET flash == WithoutErrors(Status, copy[t]) IN
    /\ pc[t] = "read"
    /\ req[t].form = Status
    /\ \/ Fine /\ ~req[t].valid /\ NextError(t, copy[t])
       \/ /\ Fine
          /\ Available(Status) /\ req[t].valid
          /\ Respond(t, Shown(Status, NoBanner, FoundBy(Status, copy[t])), flash)
       \/ /\ Fine
          /\ ~Available(Status) /\ req[t].valid
          /\ Respond(t, RedirectTo(Home), flash)
       \/ CallFails(t, copy[t])
    /\ UNCHANGED flagVars

-----------------------------------------------------------------------------
(* What the handlers of the three posts have in common: the flags may say  *)
(* no, the prisoner is read, the form is sent back with the errors in the  *)
(* flash, or one call changes something at the end.                        *)
SubmitForm(t, flash) ==
    LET f == req[t].form IN
    /\ pc[t] = "write"
    /\ \/ Fine /\ ~Available(f) /\ NextError(t, copy[t])
       \/ Available(f) /\ CallFails(t, copy[t])
       \/ /\ Fine
          /\ Available(f)
          /\ \/ req[t].valid /\ Respond(t, RedirectTo(Home), copy[t])
             \/ ~req[t].valid /\ Respond(t, RedirectTo(Get("form", f)), flash)
    /\ UNCHANGED flagVars

(* The errors of all posts are listed, the values are those of the first.  *)
PostSupportNeedUpdateForm(t) ==
    /\ req[t].form \in Need
    /\ SubmitForm(t, [copy[t] EXCEPT !.errors = @ \cup {req[t].form},
                                     !.formValues = IF @ = NoForm THEN req[t].form ELSE @])

SubmitResetProfileReason(t) ==
    /\ req[t].form = Reset
    /\ SubmitForm(t, WithValidationError(Reset, copy[t]))

PostStatusUpdate(t) ==
    /\ req[t].form = Status
    /\ SubmitForm(t, WithValidationError(Status, copy[t]))

FormStep(t) ==
    \/ GetSupportNeedUpdateForm(t) \/ ResetProfileReason(t) \/ GetStatusUpdate(t)
    \/ PostSupportNeedUpdateForm(t) \/ SubmitResetProfileReason(t) \/ PostStatusUpdate(t)

PressSubmit(t) ==
    /\ screen[t] \in Form
    /\ \E valid \in BOOLEAN :
          Send(t, [kind |-> "post", cases |-> {}, to |-> Nobody,
                   form |-> screen[t], valid |-> valid])
=============================================================================
