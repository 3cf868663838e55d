------------------------------ MODULE AssignCase ------------------------------
(***************************************************************************)
(* AssignCaseController: people are assigned to a worker, or unassigned,   *)
(* by a call of the API, and the page that the post redirects to says so   *)
(* in a banner, from the flash.                                            *)
(***************************************************************************)
EXTENDS WebRequest

VARIABLE done         \* the people whose allocation the API has changed

-----------------------------------------------------------------------------
(* First come, first shown: what a key holds after another req.flash. *)
FirstOf(old, none, new) == IF old = none THEN new ELSE old

(* Mutant of WithoutAllocation: the worker is left to the template to read. *)
WithoutBanner(flash) ==
    [flash EXCEPT !.success = FALSE, !.cases = {}, !.others = 0, !.unassign = FALSE]

(* getView reads, and thereby removes, all keys of the page. *)
WithoutAllocation(flash) ==
    [flash EXCEPT !.success = FALSE, !.cases = {}, !.others = 0, !.to = Nobody,
                  !.unassign = FALSE]

(* getView.  The flash is read before the API is called. *)
GetView(t) ==
    LET flash == copy[t]
        banner == IF flash.success
                  THEN [cases |-> flash.cases, others |-> flash.others,
                        to |-> flash.to, unassign |-> flash.unassign]
                  ELSE NoBanner
    IN
    /\ pc[t] = "list"
    /\ \/ Fine /\ Respond(t, Shown("assign", banner, {}), WithoutAllocation(flash))
       \/ CallFails(t, WithoutAllocation(flash))
    /\ UNCHANGED <<flagVars, done>>

(* validateAssignSubmission. *)
RejectAssignment(t) ==
    /\ pc[t] = "change"
    /\ ~req[t].valid
    /\ Respond(t, RedirectTo(AssignPage), copy[t])
    /\ UNCHANGED <<flagVars, done>>
    /\ Fine

(* The API changes the people it is asked to. *)
Allocate(r) == done' = done \cup r.cases

Calmly(r) ==
    /\ calm' = IF calm = Disturbed THEN Disturbed ELSE [cases |-> r.cases, to |-> r.to]
    /\ UNCHANGED <<mishaps, scenario>>

(* Mutant of AssignCases: the result of the call is not looked at. *)
AssignUnlessFailed(t) ==
    LET r == req[t] IN
    /\ pc[t] = "change"
    /\ r.valid
    /\ \/ Fine /\ Allocate(r)
       \/ Fault("call") /\ UNCHANGED done
    /\ GoOnWith(t, "details",
           IF r.to = Unassign THEN [copy[t] EXCEPT !.unassign = TRUE]
           ELSE [copy[t] EXCEPT !.to = FirstOf(@, Nobody, r.to)])
    /\ UNCHANGED flagVars

(* assignCases: unassignCaseAllocations or postCaseAllocations.  A call    *)
(* that fails, or times out, may have changed the allocations.  RestClient *)
(* does not try it again.                                                  *)
AssignCases(t) ==
    LET r == req[t] IN
    /\ pc[t] = "change"
    /\ r.valid
    /\ \/ /\ Calmly(r)
          /\ Allocate(r)
          /\ GoOnWith(t, "details",
                 IF r.to = Unassign THEN [copy[t] EXCEPT !.unassign = TRUE]
                 ELSE [copy[t] EXCEPT !.to = FirstOf(@, Nobody, r.to)])
       \/ /\ Allocate(r) \/ UNCHANGED done
          /\ CallFails(t, copy[t])
    /\ UNCHANGED flagVars

(* buildAllocatedCasesParams names the first few of the people, after      *)
(* reading their details; the count is of the others.  A req.flash of 0    *)
(* removes the key, as one that only names it does.                        *)
TellSuccess(t) ==
    LET r == req[t]
        n == Cardinality(r.cases)
        named == IF n < Listed THEN n ELSE Listed
    IN
    /\ pc[t] = "details"
    /\ \/ /\ Fine
          /\ \E cases \in SUBSET r.cases :
                /\ Cardinality(cases) = named
                /\ Respond(t, RedirectTo(AssignPage),
                       [copy[t] EXCEPT !.success = TRUE,
                                       !.cases = @ \cup cases,
                                       !.others = IF n = named THEN 0
                                                  ELSE FirstOf(@, 0, n - named)])
       \/ CallFails(t, copy[t])
    /\ UNCHANGED <<flagVars, done>>

AssignStep(t) == GetView(t) \/ RejectAssignment(t) \/ AssignCases(t) \/ TellSuccess(t)

(* The form on the page: people and a worker, or something left out. *)
PressAssign(t) ==
    /\ screen[t] = "assign"
    /\ \/ \E cases \in SUBSET scenario.cases \ {{}}, to \in Choice \ {Nobody} :
             Send(t, [kind |-> "assign", cases |-> cases, to |-> to,
                      form |-> NoForm, valid |-> TRUE])
       \/ Send(t, [kind |-> "assign", cases |-> {}, to |-> Nobody,
                   form |-> NoForm, valid |-> FALSE])
    /\ UNCHANGED done
=============================================================================
