------------------------------ MODULE NeedsForm ------------------------------
(***************************************************************************)
(* What the support needs form promises to a user with one tab: a form     *)
(* that each button changes at once, or not at all.  SupportNeeds has the  *)
(* requests, the key in Redis and the copies that handlers work on; it     *)
(* implements this module with the cached needs as the form, and the forms *)
(* that the API has accepted as posted.                                    *)
(***************************************************************************)
EXTENDS Integers

CONSTANTS
    Need,             \* the needs that are listed
    SectionOf,        \* SectionOf[n]: the category of a need
    Updatable,        \* the others are "No support needs identified" options
    AllowUserDesc,    \* the needs the user describes
    FormId,           \* the starts of the form
    NoCache           \* no form is open

VARIABLES
    form,             \* the open form, if any
    posted            \* the forms that have been confirmed

Section == { SectionOf[n] : n \in Need }
HasOption(s) == \E n \in Need \ Updatable : SectionOf[n] = s
Answers(selected, s) == \E n \in selected : SectionOf[n] = s

(* A section's option is never selected together with one of its needs. *)
Sound(selected) ==
    \A n \in selected \ Updatable, m \in selected : SectionOf[m] = SectionOf[n] => m = n

AllAnswered(selected) == \A s \in Section : HasOption(s) => Answers(selected, s)

Init ==
    /\ form = NoCache
    /\ posted = {}

(* A form opens empty, and is never one that has been confirmed. *)
Begin ==
    /\ form = NoCache
    /\ \E f \in FormId \ posted :
          form' = [form |-> f, selected |-> {}, described |-> {}, detailed |-> {}]
    /\ UNCHANGED posted

(* A selection takes the place of the one before, statuses stay. *)
Select ==
    /\ form # NoCache
    /\ \E selected \in SUBSET Need, described \in SUBSET Need :
          /\ Sound(selected) /\ AllAnswered(selected)
          /\ selected \cap AllowUserDesc \subseteq described
          /\ form' = [form EXCEPT !.selected = selected, !.described = described]
    /\ UNCHANGED posted

GiveStatus ==
    /\ form # NoCache
    /\ \E n \in Need : form' = [form EXCEPT !.detailed = @ \cup {n}]
    /\ UNCHANGED posted

(* A need goes with its text and its status; no other need does, and no    *)
(* section that had an answer is left without.                             *)
Remove ==
    /\ form # NoCache
    /\ \E n \in Need, selected \in SUBSET Need :
          /\ selected \cap Updatable = (form.selected \cap Updatable) \ {n}
          /\ Sound(form.selected) => Sound(selected)
          /\ AllAnswered(form.selected) => AllAnswered(selected)
          /\ form' = [form EXCEPT !.selected = selected,
                                  !.described = @ \ {n}, !.detailed = @ \ {n}]
    /\ UNCHANGED posted

Confirm ==
    /\ form # NoCache
    /\ posted' = posted \cup {form.form}
    /\ UNCHANGED form

(* Confirmed, started again or expired. *)
Close ==
    /\ form' = NoCache
    /\ UNCHANGED posted

Next == Begin \/ Select \/ GiveStatus \/ Remove \/ Confirm \/ Close

Spec == Init /\ [][Next]_<<form, posted>>
=============================================================================
