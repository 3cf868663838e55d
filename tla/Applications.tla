----------------------------- MODULE Applications -----------------------------
(***************************************************************************)
(* The applications of one person for a bank account and for IDs, and his  *)
(* appointments, documents and reports: what the resettlement API keeps of *)
(* them, the calls that change them, and the browser.  The server keeps    *)
(* nothing: what a user has answered travels in query strings, hidden      *)
(* inputs and links from page to page.  The pages and their handlers are   *)
(* in BankAccount, AddId, AddAppointment, SkipReport, Documents, FinanceId.*)
(***************************************************************************)
EXTENDS Integers, FiniteSets

CONSTANTS
    IdType,           \* the kinds of ID that can be chosen
    NoKind,           \* no kind chosen, or none to choose
    NoId,             \* no applicationId
    Unused, Deleted,  \* an id the API has not given yet, or not any more
    MaxApps,          \* bound: how many ids there are
    Scenario          \* bounds: in one behaviour, the kinds there are, how
                      \*   many applications are confirmed, how many
                      \*   calls fail or older pages are used

VARIABLES
    apps,             \* apps[i]: the application of that id
    late,             \* calls that have timed out here and not there yet
    creates,          \* how often Confirm was pressed for a new application
    screen,           \* the page that is shown
    past,             \* a page shown before, or in another tab
    mishaps,          \* how much has failed, and how often past was used
    calm,             \* no call has failed, and no older page was used
    scenario          \* the bounds of this behaviour

apiVars == <<apps, late>>
browserVars == <<screen, past>>
vars == <<apps, late, creates, screen, past, mishaps, calm, scenario>>

AppId == 1..MaxApps
Report == {"BCST2", "RESETTLEMENT_PLAN"}
Several == {"appointment", "skip", "document"}      \* a person may have more than one
OtherKind == {"bank"} \cup Report \cup Several
Kind == IdType \cup OtherKind
BankStatus == {"Account opened", "Account declined", "Returned ineligible",
               "Returned inaccurate", "Returned incomplete"}
IdStatus == {"Accepted", "Rejected"}
NoStatus == "no status"
Status == BankStatus \cup IdStatus \cup {"Pending", NoStatus}

(* An application or a change of one is complete if all that the form asks *)
(* for was sent; blind if Confirm was pressed on a page that showed none   *)
(* of it.                                                                  *)
Application == [kind: Kind, status: Status, complete: BOOLEAN, blind: BOOLEAN]
Write == [do: {"create"}, kind: Kind, complete: BOOLEAN, blind: BOOLEAN]
         \cup [do: {"change"}, id: AppId, status: Status, complete: BOOLEAN]
         \cup [do: {"delete"}, id: AppId]

(* To create what has nothing that could be missing. *)
Whole(kind) == [do |-> "create", kind |-> kind, complete |-> TRUE, blind |-> FALSE]

(* The answers of the forms.  A date is given if it is a real one, an      *)
(* amount if it is one; "abroad" and "inItems" are the answer yes to       *)
(* "overseas" and "items", and "noItems" is the answer no.                 *)
BankField == {"bankName", "submitted", "resubmitted", "heardBack", "opened",
              "inItems", "noItems", "itemsDate"}
IdField == {"submitted", "haveGro", "overseas", "abroad", "country", "priority",
            "caseNumber", "court", "licenceType", "madeAt", "cost"}
IdUpdateField == {"received", "inItems", "noItems", "itemsDate", "refund"}
AppointmentField == {"appointmentType", "appointmentTitle", "organisation", "contact",
                     "dateAndTime", "appointmentDuration"}
Field == BankField \cup IdField \cup IdUpdateField \cup AppointmentField

(* What a page is rendered with: req.query, or req.body after a failure.   *)
Params == [id: AppId \cup {NoId}, kind: Kind \cup {NoKind},
           confirmationType: {"addAccount", "resubmit", "updateStatus", "none"},
           resubmit: BOOLEAN,              \* applicationType === 'resubmit'
           status: Status,                 \* status or updatedStatus
           given: SUBSET Field,
           existingIdTypes: SUBSET IdType]
NoParams == [id |-> NoId, kind |-> NoKind, confirmationType |-> "none", resubmit |-> FALSE,
             status |-> NoStatus, given |-> {}, existingIdTypes |-> {}]

BankConfirm == "add-bank-account-confirm"
IdConfirm == "add-id-confirm"
IdUpdateConfirm == "add-id-update-status-confirm"
AppointmentConfirm == "add-appointment-confirm"
View == {"finance-id", "add-bank-account", "add-bank-account-update-status", BankConfirm,
         "add-id", "add-id-further", IdConfirm, "add-id-update-status", IdUpdateConfirm,
         "add-appointment", AppointmentConfirm, "assessment-task-list", "assessment-skip",
         "upload-documents", "other"}
Link == [view: View \cup {"delete"}, params: Params]
Page == [view: View, params: Params, links: SUBSET Link]
PageOf(view, params) == [view |-> view, params |-> params, links |-> {}]
(* A form: what it shows is for the user to fill in again, what is hidden  *)
(* in it stays.                                                            *)
FormOf(view, params, hidden) ==
    PageOf(view, [params EXCEPT !.status = NoStatus, !.confirmationType = "none",
                                !.given = @ \cap hidden])
OtherPage == PageOf("other", NoParams)     \* an error, or a redirect to the list

ASSUME ApplicationsAssumption ==
    /\ IdType \cap OtherKind = {} /\ NoKind \notin Kind
    /\ MaxApps \in Nat /\ NoId \notin AppId
    /\ Unused \notin Application /\ Deleted \notin Application /\ Unused # Deleted
    /\ Scenario \subseteq [kinds: SUBSET Kind, creates: 0..MaxApps, mishaps: Nat]

TypeOK ==
    /\ apps \in [AppId -> Application \cup {Unused, Deleted}]
    /\ late \subseteq (1..scenario.mishaps) \X Write
    /\ creates \in 0..scenario.creates
    /\ screen \in Page
    /\ past \in Page
    /\ mishaps \in 0..scenario.mishaps
    /\ calm \in BOOLEAN
    /\ scenario \in Scenario

Init ==
    /\ apps = [i \in AppId |-> Unused]
    /\ late = {}
    /\ creates = 0
    /\ screen = OtherPage
    /\ past = OtherPage
    /\ mishaps = 0
    /\ calm = TRUE
    /\ scenario \in Scenario

-----------------------------------------------------------------------------
(* The API.                                                                *)

Live == { i \in AppId : apps[i] \in Application }

Changed(a, w) == [a EXCEPT !.status = w.status, !.complete = a.complete /\ w.complete]

After(w) ==
    CASE w.do = "create" ->
           LET i == CHOOSE n \in AppId : apps[n] = Unused
           IN [apps EXCEPT ![i] = [kind |-> w.kind, status |-> "Pending",
                                   complete |-> w.complete, blind |-> w.blind]]
      [] w.do = "change" ->
           [apps EXCEPT ![w.id] = Changed(apps[w.id], w)]
      [] w.do = "delete" -> [apps EXCEPT ![w.id] = Deleted]

Possible(w) == IF w.do = "create" THEN \E i \in AppId : apps[i] = Unused ELSE w.id \in Live

(* The API may well refuse what is not complete. *)
Doubtful(w) ==
    CASE w.do = "create" -> ~w.complete
      [] w.do = "change" -> ~w.complete
      [] w.do = "delete" -> FALSE

Fine == UNCHANGED <<mishaps, calm, scenario>>
Fault ==
    /\ mishaps < scenario.mishaps
    /\ mishaps' = mishaps + 1
    /\ calm' = FALSE
    /\ UNCHANGED scenario

(* Mutant of Interrupted: a write that times out is tried again, as if     *)
(* retry were the default.                                                 *)
InterruptedAndRetried(w) ==
    \/ UNCHANGED apiVars
    \/ apps' = After(w) /\ UNCHANGED late
    \/ late' = late \cup {<<mishaps + 1, w>>} /\ UNCHANGED apps
    \/ late' = late \cup {<<mishaps + 1, w>>} /\ apps' = After(w)

(* The call fails: before the API has done anything, after it has done     *)
(* all, or so that it will.  post, patch and delete are not tried again.   *)
Interrupted(w) ==
    \/ UNCHANGED apiVars
    \/ apps' = After(w) /\ UNCHANGED late
    \/ late' = late \cup {<<mishaps + 1, w>>} /\ UNCHANGED apps

(* A handler calls the API once and answers with a page for either case.   *)
Call(w, done, failed) ==
    \/ /\ Possible(w)
       /\ apps' = After(w)
       /\ screen' = done
       /\ UNCHANGED late
       /\ Fine
    \/ /\ ~Possible(w) \/ Doubtful(w)
       /\ screen' = failed
       /\ calm' = FALSE
       /\ UNCHANGED <<apiVars, mishaps, scenario>>
    \/ /\ Possible(w)
       /\ Fault
       /\ Interrupted(w)
       /\ screen' = failed

LateWrite ==
    /\ \E l \in late :
          /\ late' = late \ {l}
          /\ apps' = IF Possible(l[2]) THEN After(l[2]) ELSE apps
    /\ UNCHANGED <<creates, browserVars, mishaps, calm, scenario>>

-----------------------------------------------------------------------------
(* The browser.                                                            *)

(* A form sent, or a link followed, with GET: nothing changes but the page. *)
Show(page) ==
    /\ screen' = page
    /\ UNCHANGED <<apiVars, creates, past>>
    /\ Fine

(* The list and the confirm pages lead to all others.  A page is only      *)
(* remembered as long as the bounds let it be used again.                  *)
Leave ==
    past' = IF mishaps' = scenario.mishaps THEN OtherPage
            ELSE IF screen.view \in {"finance-id", BankConfirm, IdConfirm, IdUpdateConfirm,
                                    AppointmentConfirm, "assessment-skip"}
                 THEN screen
            ELSE past

(* Confirm, or Delete. *)
Press(w, done, failed) ==
    /\ IF w.do = "create"
       THEN creates < scenario.creates /\ creates' = creates + 1
       ELSE UNCHANGED creates
    /\ Call(w, done, failed)
    /\ Leave

(* loadPrisonerDetailsFromParam or FromBody fails, in any handler. *)
PrisonerNotRead ==
    /\ screen.view # "other"
    /\ Fault
    /\ screen' = OtherPage
    /\ Leave
    /\ UNCHANGED <<apiVars, creates>>

(* Back, or another tab: what is shown there is as old as the page. *)
UseOlderPage ==
    /\ past.view # "other"
    /\ Fault
    /\ screen' = past
    /\ Leave
    /\ UNCHANGED <<apiVars, creates>>
=============================================================================
