---------------------- MODULE SupportNeedsOneTabProofs ----------------------
(***************************************************************************)
(* What the support needs form does for a user with one tab, for every     *)
(* list of needs, any number of starts and any mishaps: its steps are      *)
(* those of NeedsForm, and the links of its pages lead through every       *)
(* status before Confirm.  A second click while a request is under way is  *)
(* a request of another tab, so this is about requests one at a time.      *)
(*                                                                         *)
(* With one tab nothing happens between a handler's read and its write, so *)
(* the copy that is written back is still what is cached.  LoneInv says    *)
(* so, and that the page shown and the request are of the cached form.     *)
(***************************************************************************)
EXTENDS SupportNeedsProofs

(* The state of the only tab. *)
LoneInv(t) ==
    /\ api \subseteq 1..forms
    /\ cache # NoCache => cache.form <= forms
    /\ screen[t] # Elsewhere /\ cache # NoCache => screen[t].form = cache.form
    /\ pc[t] \in Holding => loc[t] = cache
    /\ pc[t] \in Posting /\ cache # NoCache => req[t].form = cache.form
    /\ pc[t] \in Starting =>
          req[t].form = forms /\ forms \notin api /\ screen[t] = Elsewhere
    /\ pc[t] \in {"startFetch", "startWrite"} => cache = NoCache
    /\ pc[t] = "startWrite" => loc[t] = Started(forms)

-----------------------------------------------------------------------------
(* How a step leaves the tab, field by field. *)

LEMMA ContinueFields ==
    ASSUME IInv, NEW t \in Tab, NEW label, NEW needs, Continue(t, label, needs)
    PROVE  /\ pc'[t] = label /\ loc'[t] = needs
           /\ screen'[t] = screen[t] /\ req'[t] = req[t]
BY DEF IInv, TabInv, Continue

LEMMA ShowFields ==
    ASSUME IInv, NEW t \in Tab, NEW s, Show(t, s)
    PROVE  pc'[t] = "idle" /\ screen'[t] = s
BY DEF IInv, TabInv, Show

LEMMA ExitFields ==
    ASSUME IInv, NEW t \in Tab, Exit(t)
    PROVE  pc'[t] = "idle" /\ screen'[t] = Elsewhere
BY ShowFields DEF Exit

LEMMA RedirectFields ==
    ASSUME IInv, NEW t \in Tab, NEW r, RedirectTo(t, r)
    PROVE  pc'[t] = "redirect" /\ screen'[t] = screen[t]
BY DEF IInv, TabInv, RedirectTo

LEMMA RedirectToNextFields ==
    ASSUME IInv, NEW t \in Tab, NEW needs, NEW n, RedirectToNext(t, needs, n)
    PROVE  pc'[t] = "redirect" /\ screen'[t] = screen[t]
BY RedirectFields DEF RedirectToNext

LEMMA SendFields ==
    ASSUME IInv, NEW t \in Tab, NEW label, NEW r, Send(t, label, r)
    PROVE  /\ pc[t] = "idle" /\ pc'[t] = label /\ req'[t] = r
           /\ screen'[t] = screen[t] /\ cache' = cache /\ api' = api
BY DEF IInv, TabInv, Send

(* A second click on the page shown is a request of another tab. *)
LEMMA ClickingElsewhere ==
    ASSUME IInv, NEW t \in Tab, NEW u \in Tab, ClickAgain(t, u)
    PROVE  /\ screen'[t] = screen[t]
           /\ UNCHANGED <<cache, forms, api, pc, req, loc, spent>>
BY DEF ClickAgain, InFlight, IInv, TabInv

LEMMA FormsAreNumbers ==
    ASSUME IInv
    PROVE  /\ forms \in Nat /\ MaxForms \in Nat
           /\ cache # NoCache => cache \in Needs /\ cache.form \in Nat \ {0}
<1>1. forms \in Nat /\ MaxForms \in Nat
  BY SupportNeedsAssumption DEF IInv, StoreInv
<1>2. ASSUME cache # NoCache PROVE cache \in Needs /\ cache.form \in Nat \ {0}
  BY <1>1, <1>2 DEF IInv, StoreInv, Copy, ConsistentNeeds, Needs, Form
<1> QED BY <1>1, <1>2

(* A handler that reads: it exits, or goes on with what is cached. *)
LEMMA ReadingKeeps ==
    ASSUME IInv, NEW t \in Tab, LoneInv(t), NEW label, NEW next, ReadStep(t, label),
           next \notin Starting \cup Posting \cup {"finalDelete"},
           label # "finalDelete",
           Exit(t) \/ (cache # NoCache /\ Continue(t, next, cache))
    PROVE  LoneInv(t)'
<1>1. UNCHANGED <<cache, forms, api, spent>> /\ pc[t] = label
  BY DEF ReadStep, NoWrite
<1>2. CASE Exit(t)
  BY <1>1, <1>2, ExitFields DEF LoneInv, Holding, Posting, Starting
<1>3. CASE cache # NoCache /\ Continue(t, next, cache)
  BY <1>1, <1>3, ContinueFields DEF LoneInv, Holding, Posting, Starting
<1> QED BY <1>2, <1>3

(* A handler that ends in a redirect, or shows a page of the cached form,  *)
(* and leaves the cache as it is.                                          *)
LEMMA EndingKeeps ==
    ASSUME IInv, NEW t \in Tab, LoneInv(t), NoWrite, pc[t] # "finalDelete",
           pc'[t] \in {"idle", "redirect"},
           \/ screen'[t] \in {screen[t], Elsewhere}
           \/ cache # NoCache => screen'[t].form = cache.form
    PROVE  LoneInv(t)'
BY DEF LoneInv, NoWrite, Holding, Posting, Starting

(* A handler that writes the cached form back changed, and redirects. *)
LEMMA WritingKeeps ==
    ASSUME IInv, NEW t \in Tab, LoneInv(t), NEW needs, SetCache(needs),
           needs # NoCache, cache # NoCache, needs.form = cache.form,
           pc[t] # "finalDelete", pc'[t] = "redirect", screen'[t] = screen[t]
    PROVE  LoneInv(t)'
BY DEF LoneInv, SetCache, Holding, Posting, Starting

LEMMA StartFormKeepsLone ==
    ASSUME IInv, NEW t \in Tab, LoneInv(t),
           DeleteBeforeStart(t) \/ FetchNeeds(t) \/ StartForm(t)
    PROVE  LoneInv(t)'
<1> USE DEF Holding, Posting, Starting
<1>1. CASE DeleteBeforeStart(t)
  BY <1>1, ContinueFields DEF DeleteBeforeStart, SetCache, LoneInv
<1>2. CASE FetchNeeds(t)
  <2>1. pc[t] = "startFetch" /\ NoWrite
    BY <1>2 DEF FetchNeeds
  <2>2. CASE UNCHANGED spent /\ Continue(t, "startWrite", Started(req[t].form))
    BY <2>1, <2>2, ContinueFields DEF NoWrite, LoneInv
  <2>3. CASE Mishap("fault") /\ Exit(t)
    BY <2>1, <2>3, ExitFields, EndingKeeps
  <2> QED BY <1>2, <2>2, <2>3 DEF FetchNeeds
<1>3. CASE StartForm(t)
  <2>1. /\ pc[t] = "startWrite" /\ SetCache(Started(forms))
        /\ pc'[t] = "redirect" /\ screen'[t] = Elsewhere
    BY <1>3, RedirectFields DEF StartForm, LoneInv
  <2>2. Started(forms).form = forms
    BY DEF Started
  <2> QED BY <2>1, <2>2, FormsAreNumbers DEF SetCache, LoneInv
<1> QED BY <1>1, <1>2, <1>3

LEMMA NeedsPageKeepsLone ==
    ASSUME IInv, NEW t \in Tab, LoneInv(t),
           \/ OpenNeeds(t) \/ GetSupportNeeds(t)
           \/ ValidateSupportNeeds(t) \/ SubmitRead(t) \/ SubmitSupportNeeds(t)
    PROVE  LoneInv(t)'
<1>1. CASE OpenNeeds(t)
  <2>1. /\ ReadStep(t, "needsRead")
        /\ Exit(t) \/ (cache # NoCache /\ Continue(t, "needsSummary", cache))
    BY <1>1 DEF OpenNeeds, ReadCache
  <2>2. "needsSummary" \notin Starting \cup Posting \cup {"finalDelete"}
    BY DEF Starting, Posting
  <2> QED BY <2>1, <2>2, ReadingKeeps
<1>2. CASE GetSupportNeeds(t)
  <2>1. pc[t] = "needsSummary" /\ NoWrite /\ loc[t] = cache
    BY <1>2 DEF GetSupportNeeds, LoneInv, Holding
  <2>2. CASE UNCHANGED spent /\ Show(t, Page("needs", loc[t].form, 1, req[t].edit, {}))
    <3>1. Page("needs", loc[t].form, 1, req[t].edit, {}).form = loc[t].form
      BY DEF Page
    <3> QED BY <2>1, <2>2, <3>1, ShowFields, EndingKeeps
  <2>3. CASE Mishap("fault") /\ Exit(t)
    BY <2>1, <2>3, ExitFields, EndingKeeps
  <2> QED BY <1>2, <2>2, <2>3 DEF GetSupportNeeds
<1>3. CASE ValidateSupportNeeds(t)
  <2>1. pc[t] = "validateRead" /\ NoWrite /\ UNCHANGED spent
    BY <1>3 DEF ValidateSupportNeeds, ReadStep
  <2>2. CASE Continue(t, "submitRead", NoCache)
    BY <2>1, <2>2, ContinueFields DEF NoWrite, LoneInv, Holding, Posting, Starting
  <2>3. CASE Exit(t)
    BY <2>1, <2>3, ExitFields, EndingKeeps
  <2>4. CASE RedirectTo(t, AskNeeds(FALSE))
    BY <2>1, <2>4, RedirectFields, EndingKeeps
  <2> QED BY <1>3, <2>2, <2>3, <2>4 DEF ValidateSupportNeeds
<1>4. CASE SubmitRead(t)
  <2>1. pc[t] = "submitRead" /\ NoWrite /\ UNCHANGED spent
    BY <1>4 DEF SubmitRead, ReadCache, ReadStep
  <2>2. CASE Exit(t)
    BY <2>1, <2>2, ExitFields, EndingKeeps
  <2>3. CASE cache # NoCache /\ Continue(t, "submitWrite", cache)
    BY <2>1, <2>3, ContinueFields DEF NoWrite, LoneInv, Holding, Posting, Starting
  <2> QED BY <1>4, <2>2, <2>3 DEF SubmitRead, ReadCache
<1>5. CASE SubmitSupportNeeds(t)
  <2>1. pc[t] = "submitWrite" /\ loc[t] = cache /\ loc[t] \in ConsistentNeeds
    BY <1>5, AtTab DEF SubmitSupportNeeds, LoneInv, Holding, CopiesAt, Copy
  <2> DEFINE needs == WithSelection(cache, req[t])
  <2>2. SetCache(needs) /\ RedirectToNext(t, needs, 0)
    BY <1>5, <2>1 DEF SubmitSupportNeeds
  <2>3. needs # NoCache /\ cache # NoCache /\ needs.form = cache.form
    <3>1. req[t] \in RequestsAt("submitWrite")
      BY <2>1, AtTab
    <3>2. needs \in ConsistentNeeds
      BY <2>1, <3>1, SelectionIsConsistent
    <3> QED BY <2>1, <3>2, NoCacheIsNoNeeds DEF WithSelection, ConsistentNeeds, Needs
  <2> HIDE DEF needs
  <2> QED BY <2>1, <2>2, <2>3, RedirectToNextFields, WritingKeeps
<1> QED BY <1>1, <1>2, <1>3, <1>4, <1>5

LEMMA StatusPageKeepsLone ==
    ASSUME IInv, NEW t \in Tab, LoneInv(t),
           \/ GetSupportNeedsStatus(t)
           \/ RejectStatus(t) \/ StatusRead(t) \/ SubmitSupportNeedsStatus(t)
           \/ DeleteRead(t) \/ DeleteSupportNeed(t)
    PROVE  LoneInv(t)'
<1>1. CASE GetSupportNeedsStatus(t)
  <2> DEFINE s == Page("status", cache.form, req[t].need, req[t].edit,
                       StatusPageBefore(cache, req[t].need))
  <2>1. pc[t] = "statusRead" /\ NoWrite /\ UNCHANGED spent
    BY <1>1 DEF GetSupportNeedsStatus, ReadStep
  <2>2. s.form = cache.form
    BY DEF Page
  <2>3. Exit(t) \/ Show(t, s)
    BY <1>1 DEF GetSupportNeedsStatus
  <2> HIDE DEF s
  <2> QED BY <2>1, <2>2, <2>3, ExitFields, ShowFields, EndingKeeps
<1>2. CASE RejectStatus(t)
  <2>1. pc[t] = "saveRead" /\ NoWrite /\ UNCHANGED spent
    BY <1>2 DEF RejectStatus, ReadStep
  <2> QED BY <1>2, <2>1, RedirectFields, EndingKeeps DEF RejectStatus
<1>3. CASE StatusRead(t)
  BY <1>3, ReadingKeeps DEF StatusRead, ReadNeed, Starting, Posting
<1>4. ASSUME NEW needs \in ConsistentNeeds, needs.form = loc[t].form, SetCache(needs),
             pc[t] \in {"saveWrite", "removeWrite"},
             RedirectTo(t, AskCheck) \/ RedirectToNext(t, needs, req[t].need)
      PROVE  LoneInv(t)'
  <2>1. loc[t] = cache /\ cache # NoCache /\ needs # NoCache
    BY <1>4, AtTab, NoCacheIsNoNeeds DEF LoneInv, Holding, CopiesAt
  <2>2. pc'[t] = "redirect" /\ screen'[t] = screen[t] /\ pc[t] # "finalDelete"
    BY <1>4, RedirectFields, RedirectToNextFields
  <2> QED BY <1>4, <2>1, <2>2, WritingKeeps
<1>5. CASE SubmitSupportNeedsStatus(t)
  <2> DEFINE needs == WithDetails(loc[t], req[t].need)
  <2>1. pc[t] = "saveWrite" /\ loc[t] \in ConsistentNeeds /\ req[t].need \in Need
    BY <1>5, AtTab DEF SubmitSupportNeedsStatus, CopiesAt, Copy
  <2>2. needs \in ConsistentNeeds /\ needs.form = loc[t].form
    BY <2>1, DetailsAreConsistent DEF WithDetails, ConsistentNeeds, Needs
  <2>3. SetCache(needs) /\ (RedirectTo(t, AskCheck) \/ RedirectToNext(t, needs, req[t].need))
    BY <1>5 DEF SubmitSupportNeedsStatus
  <2> HIDE DEF needs
  <2> QED BY <1>4, <2>1, <2>2, <2>3
<1>6. CASE DeleteRead(t)
  BY <1>6, ReadingKeeps DEF DeleteRead, ReadNeed, Starting, Posting
<1>7. CASE DeleteSupportNeed(t)
  <2> DEFINE needs == Without(loc[t], req[t].need)
  <2>1. pc[t] = "removeWrite" /\ loc[t] \in ConsistentNeeds /\ req[t].need \in Need
    BY <1>7, AtTab DEF DeleteSupportNeed, CopiesAt, Copy
  <2>2. needs \in ConsistentNeeds
    BY <2>1, RemovalIsConsistent
  <2>3. needs.form = loc[t].form
    BY <2>1 DEF Without, ConsistentNeeds, Needs
  <2>4. SetCache(needs) /\ (RedirectTo(t, AskCheck) \/ RedirectToNext(t, needs, req[t].need))
    BY <1>7 DEF DeleteSupportNeed
  <2> HIDE DEF needs
  <2> QED BY <1>4, <2>1, <2>2, <2>3, <2>4
<1> QED BY <1>1, <1>2, <1>3, <1>5, <1>6, <1>7

LEMMA CheckAnswersKeepsLone ==
    ASSUME IInv, NEW t \in Tab, LoneInv(t),
           \/ GetCheckAnswers(t)
           \/ FinaliseRead(t) \/ PostSupportNeeds(t) \/ FinaliseSupportNeeds(t)
    PROVE  LoneInv(t)'
<1>1. CASE GetCheckAnswers(t)
  <2> DEFINE s == Page("check", cache.form, 1, FALSE, StatusPages(cache))
  <2>1. pc[t] = "checkRead" /\ NoWrite /\ UNCHANGED spent
    BY <1>1 DEF GetCheckAnswers, ReadStep
  <2>2. s.form = cache.form
    BY DEF Page
  <2>3. Exit(t) \/ Show(t, s)
    BY <1>1 DEF GetCheckAnswers
  <2> HIDE DEF s
  <2> QED BY <2>1, <2>2, <2>3, ExitFields, ShowFields, EndingKeeps
<1>2. CASE FinaliseRead(t)
  BY <1>2, ReadingKeeps DEF FinaliseRead, ReadCache, Starting, Posting
<1>3. CASE PostSupportNeeds(t)
  <2>1. /\ pc[t] = "finalPost" /\ loc[t] = cache /\ cache # NoCache
        /\ UNCHANGED <<cache, forms>>
    BY <1>3, AtTab DEF PostSupportNeeds, LoneInv, Holding, CopiesAt
  <2>2. api' \in {api, api \cup {cache.form}} /\ cache.form \in 1..forms
    <3>1. cache.form <= forms
      BY <2>1 DEF LoneInv
    <3>2. cache.form \in Nat \ {0} /\ forms \in Nat
      BY <2>1, FormsAreNumbers
    <3> QED BY <1>3, <2>1, <3>1, <3>2 DEF PostSupportNeeds
  <2>3. CASE UNCHANGED spent /\ Continue(t, "finalDelete", NoCache)
    BY <2>1, <2>2, <2>3, ContinueFields DEF LoneInv, Holding, Posting, Starting
  <2>4. CASE Mishap("fault") /\ Exit(t)
    BY <2>1, <2>2, <2>4, ExitFields DEF LoneInv, Holding, Posting, Starting
  <2> QED BY <1>3, <2>3, <2>4 DEF PostSupportNeeds
<1>4. CASE FinaliseSupportNeeds(t)
  BY <1>4, ExitFields DEF FinaliseSupportNeeds, SetCache, LoneInv, Holding, Posting, Starting
<1> QED BY <1>1, <1>2, <1>3, <1>4

-----------------------------------------------------------------------------
(* The user and the rest of the environment. *)

LEMMA AskingKeepsLone ==
    ASSUME IInv, NEW t \in Tab, LoneInv(t), NEW label, NEW r, Send(t, label, r),
           label \notin Starting \cup Posting \cup Holding,
           UNCHANGED forms
    PROVE  LoneInv(t)'
BY SendFields DEF LoneInv, Holding, Posting, Starting

LEMMA FirstStepLabel ==
    ASSUME NEW r \in Request
    PROVE  FirstStep(r) \notin Starting \cup Posting \cup Holding
BY FirstStepReads DEF Starting, Posting, Holding

LEMMA UseKeepsLone ==
    ASSUME IInv, NEW t \in Tab, LoneInv(t), Use(t)
    PROVE  LoneInv(t)'
<1>1. CASE Start(t)
  <2> DEFINE r == Ask("needs", forms + 1, 1, FALSE)
  <2>1. /\ screen[t] = Elsewhere /\ forms' = forms + 1 /\ spent' = Counted
        /\ Send(t, "startDelete", r)
    BY <1>1 DEF Start
  <2>2. r.form = forms + 1
    BY DEF Ask
  <2> HIDE DEF r
  <2>3. /\ pc[t] = "idle" /\ pc'[t] = "startDelete" /\ req'[t] = r
        /\ screen'[t] = screen[t] /\ cache' = cache /\ api' = api
    BY <2>1, SendFields
  <2>4. api \subseteq 1..forms /\ forms \in Nat
    BY FormsAreNumbers DEF LoneInv
  <2>5. api' \subseteq 1..forms' /\ forms' \notin api'
    BY <2>1, <2>3, <2>4
  <2>6. cache' # NoCache => cache'.form <= forms'
    BY <2>1, <2>3, <2>4, FormsAreNumbers DEF LoneInv
  <2> QED BY <2>1, <2>2, <2>3, <2>5, <2>6 DEF LoneInv, Holding, Posting, Starting
<1>2. CASE SubmitNeeds(t)
  <2>1. PICK chosen, described :
           Send(t, "validateRead",
                [Ask("needs", screen[t].form, 1, FALSE)
                    EXCEPT !.chosen = chosen, !.described = described])
    BY <1>2 DEF SubmitNeeds
  <2> DEFINE r == [Ask("needs", screen[t].form, 1, FALSE)
                      EXCEPT !.chosen = chosen, !.described = described]
  <2>2. r.form = screen[t].form
    BY DEF Ask
  <2>3. Send(t, "validateRead", r)
    BY <2>1
  <2> HIDE DEF r
  <2>4. /\ pc[t] = "idle" /\ pc'[t] = "validateRead" /\ req'[t] = r
        /\ screen'[t] = screen[t] /\ UNCHANGED <<cache, forms, api>>
        /\ screen[t] # Elsewhere
    BY <1>2, <2>3, SendFields DEF SubmitNeeds, Shows
  <2> QED BY <2>2, <2>4 DEF LoneInv, Holding, Posting, Starting
<1>3. CASE SaveStatus(t)
  BY <1>3, AskingKeepsLone DEF SaveStatus, Holding, Posting, Starting
<1>4. CASE RemoveNeed(t)
  BY <1>4, AskingKeepsLone DEF RemoveNeed, Holding, Posting, Starting
<1>5. CASE Confirm(t)
  BY <1>5, AskingKeepsLone DEF Confirm, Holding, Posting, Starting
<1>6. ASSUME NEW r \in Request, Follow(t, r)
      PROVE  LoneInv(t)'
  BY <1>6, FirstStepLabel, AskingKeepsLone DEF Follow
<1>7. CASE AddNeeds(t)
  BY <1>6, <1>7, LinkRequests DEF AddNeeds
<1>8. CASE Change(t)
  BY <1>6, <1>8, LinkRequests DEF Change, Shows
<1>9. CASE Back(t)
  <2>1. Last(screen[t].links) \subseteq screen[t].links
    BY DEF Last
  <2> QED BY <1>6, <1>9, <2>1, LinkRequests DEF Back
<1>10. CASE Revisit(t)
  <2>1. \A f \in 1..forms, n \in Updatable, edit \in BOOLEAN :
           Ask("status", f, n, edit) \in Request
    <3>1. 1..forms \subseteq Form
      BY SupportNeedsAssumption DEF IInv, StoreInv, Form
    <3> QED BY <3>1, SupportNeedsAssumption, AskType DEF PageName
  <2>2. PICK r \in Request : Send(t, FirstStep(r), r)
    BY <1>10, <2>1, AskPagesType DEF Revisit
  <2> QED BY <1>10, <2>2, FirstStepLabel, AskingKeepsLone DEF Revisit
<1>11. CASE Leave(t)
  <2>1. screen'[t] = Elsewhere
    BY <1>11 DEF Leave, IInv, TabInv
  <2> QED BY <1>11, <2>1 DEF Leave, LoneInv
<1>12. CASE FollowRedirect(t)
  <2>1. FirstStep(req[t]) \notin Starting \cup Posting \cup Holding
    BY AtTab, FirstStepLabel
  <2>2. pc'[t] = FirstStep(req[t])
    BY <1>12 DEF FollowRedirect, IInv, TabInv
  <2> QED BY <1>12, <2>1, <2>2 DEF FollowRedirect, LoneInv, Holding, Posting, Starting
<1>13. CASE AbandonRedirect(t)
  <2>1. NoWrite /\ pc[t] = "redirect" /\ pc'[t] = "idle" /\ screen'[t] = screen[t]
    BY <1>13, ShowFields DEF AbandonRedirect
  <2> QED BY <2>1, EndingKeeps
<1>14. ASSUME NEW u \in Tab, ClickAgain(t, u)
       PROVE  LoneInv(t)'
  BY <1>14, ClickingElsewhere DEF LoneInv
<1> QED BY <1>1, <1>2, <1>3, <1>4, <1>5, <1>7, <1>8, <1>9, <1>10, <1>11, <1>12, <1>13,
           <1>14 DEF Use

LEMMA EnvironmentKeepsLone ==
    ASSUME IInv, NEW t \in Tab, Tab = {t}, LoneInv(t), ExpireCache \/ Crash(t)
    PROVE  LoneInv(t)'
<1>1. CASE ExpireCache
  <2>1. /\ cache' = NoCache /\ UNCHANGED <<forms, api, pc, req, loc>>
        /\ pc[t] = "idle"
    BY <1>1 DEF ExpireCache
  <2> QED BY <2>1 DEF LoneInv, Holding, Posting, Starting
<1>2. CASE Crash(t)
  <2>1. /\ UNCHANGED <<cache, forms, api>>
        /\ pc'[t] = "idle" /\ screen'[t] = Elsewhere
    BY <1>2, ExitFields DEF Crash, NoWrite
  <2> QED BY <2>1 DEF LoneInv, Holding, Posting, Starting
<1> QED BY <1>1, <1>2

LEMMA LoneStep ==
    ASSUME IInv, NEW t \in Tab, Tab = {t}, LoneInv(t), [Next]_vars
    PROVE  LoneInv(t)'
<1>1. CASE UNCHANGED vars
  BY <1>1 DEF vars, LoneInv
<1>2. CASE Handle(t)
  BY <1>2, StartFormKeepsLone, NeedsPageKeepsLone, StatusPageKeepsLone,
     CheckAnswersKeepsLone DEF Handle
<1>3. CASE Use(t)
  BY <1>3, UseKeepsLone
<1>4. CASE ExpireCache \/ Crash(t)
  BY <1>4, EnvironmentKeepsLone
<1> QED BY <1>1, <1>2, <1>3, <1>4 DEF Next

LEMMA LoneInit ==
    ASSUME Init, NEW t \in Tab
    PROVE  LoneInv(t)
BY SupportNeedsAssumption DEF Init, LoneInv, Holding, Posting, Starting

(* The page, the request and the copy of the only tab are those of the     *)
(* cached form.                                                            *)
THEOREM LoneInvariant ==
    ASSUME NEW t \in Tab, Tab = {t}
    PROVE  Spec => [](IInv /\ LoneInv(t))
<1>1. Init => IInv /\ LoneInv(t)
  BY InitInvariant, LoneInit
<1>2. IInv /\ LoneInv(t) /\ [Next]_vars => IInv' /\ LoneInv(t)'
  BY StepInvariant, LoneStep
<1> QED BY <1>1, <1>2, PTL DEF Spec

-----------------------------------------------------------------------------
(* The steps that NeedsForm has. *)

LEMMA SelectImplements ==
    ASSUME IInv, NEW t \in Tab, LoneInv(t), SubmitSupportNeeds(t)
    PROVE  Promised!Select
<1> DEFINE r == req[t]
<1>1. /\ pc[t] = "submitWrite" /\ loc[t] = cache /\ cache # NoCache
      /\ r \in RequestsAt("submitWrite") /\ r.form = cache.form
  BY AtTab DEF SubmitSupportNeeds, LoneInv, Holding, Posting, CopiesAt
<1>2. cache' = WithSelection(cache, r) /\ api' = api
  BY <1>1 DEF SubmitSupportNeeds, SetCache
<1>3. /\ r.chosen \in SUBSET Need /\ r.described \in SUBSET Need
      /\ Exclusive(r.chosen) /\ Valid(r)
  BY <1>1 DEF RequestsAt, Request
<1>4. cache' = [cache EXCEPT !.selected = r.chosen, !.described = r.described]
  BY <1>1, <1>2 DEF WithSelection
<1>5. Promised!Sound(r.chosen)
  BY <1>3 DEF Exclusive, Promised!Sound
<1>6. Promised!AllAnswered(r.chosen)
  <2> SUFFICES ASSUME NEW s \in Section, Promised!HasOption(s)
               PROVE  Promised!Answers(r.chosen, s)
    BY DEF Promised!AllAnswered, Promised!Section, Section
  <2>1. NoNeedsOptions(s) # {}
    BY DEF Promised!HasOption, NoNeedsOptions, Need
  <2> QED BY <1>3, <2>1 DEF Valid, Answered, Promised!Answers
<1>7. r.chosen \cap AllowUserDesc \subseteq r.described
  BY <1>3 DEF Valid
<1> HIDE DEF r
<1> QED BY <1>1, <1>2, <1>3, <1>4, <1>5, <1>6, <1>7 DEF Promised!Select

LEMMA StatusImplements ==
    ASSUME IInv, NEW t \in Tab, LoneInv(t), SubmitSupportNeedsStatus(t)
    PROVE  Promised!GiveStatus
<1>1. /\ loc[t] = cache /\ cache # NoCache /\ req[t].need \in Need
  BY AtTab DEF SubmitSupportNeedsStatus, LoneInv, Holding, CopiesAt
<1>2. cache' = WithDetails(cache, req[t].need) /\ api' = api
  BY <1>1 DEF SubmitSupportNeedsStatus, SetCache
<1> QED BY <1>1, <1>2 DEF WithDetails, Promised!GiveStatus

LEMMA RemoveImplements ==
    ASSUME IInv, NEW t \in Tab, LoneInv(t), DeleteSupportNeed(t)
    PROVE  Promised!Remove
<1> DEFINE n == req[t].need
           s == SectionOf[n]
           left == cache.selected \ {n}
           selected == IF Answered(s, left) THEN left ELSE left \cup NoNeedsOptions(s)
<1>1. /\ loc[t] = cache /\ cache # NoCache /\ n \in Need
      /\ cache \in ConsistentNeeds /\ cache.selected \subseteq Need
  BY AtTab DEF DeleteSupportNeed, LoneInv, Holding, CopiesAt, Copy, ConsistentNeeds, Needs
<1>2. cache' = Without(cache, n) /\ api' = api
  BY <1>1 DEF DeleteSupportNeed, SetCache
<1>3. cache' = [cache EXCEPT !.selected = selected,
                             !.described = @ \ {n}, !.detailed = @ \ {n}]
  BY <1>2 DEF Without
<1>4. NoNeedsOptions(s) \subseteq Need \ Updatable
  BY DEF NoNeedsOptions
<1>5. selected \in SUBSET Need /\ selected \cap Updatable = (cache.selected \cap Updatable) \ {n}
  BY <1>1, <1>4
<1>6. Promised!Sound(selected)
  <2>1. cache' \in ConsistentNeeds
    BY <1>1, <1>2, RemovalIsConsistent
  <2>2. cache'.selected = selected
    BY <1>1, <1>3 DEF ConsistentNeeds, Needs
  <2> QED BY <2>1, <2>2 DEF ConsistentNeeds, Exclusive, Promised!Sound
<1>7. ASSUME Promised!AllAnswered(cache.selected)
      PROVE  Promised!AllAnswered(selected)
  <2> SUFFICES ASSUME NEW x \in Section, Promised!HasOption(x)
               PROVE  Promised!Answers(selected, x)
    BY DEF Promised!AllAnswered, Promised!Section, Section
  <2>1. PICK m \in cache.selected : SectionOf[m] = x
    BY <1>7 DEF Promised!AllAnswered, Promised!Answers, Promised!Section, Section
  <2>2. CASE m # n
    BY <2>1, <2>2 DEF Promised!Answers
  <2>3. CASE m = n
    <3>1. PICK o \in NoNeedsOptions(s) : SectionOf[o] = x
      BY <2>1, <2>3 DEF Promised!HasOption, NoNeedsOptions
    <3>2. CASE Answered(s, left)
      BY <2>1, <2>3, <3>2 DEF Answered, Promised!Answers
    <3>3. CASE ~Answered(s, left)
      BY <3>1, <3>3 DEF Promised!Answers
    <3> QED BY <3>2, <3>3
  <2> QED BY <2>2, <2>3
<1> HIDE DEF selected, n
<1> QED BY <1>1, <1>2, <1>3, <1>5, <1>6, <1>7 DEF Promised!Remove

(* A handler that only reads, and every step of the user, changes neither  *)
(* the form nor what is posted.                                            *)
LEMMA HandleImplements ==
    ASSUME IInv, NEW t \in Tab, LoneInv(t), Handle(t)
    PROVE  Promised!Next \/ UNCHANGED <<cache, api>>
<1> USE DEF Promised!Next
<1>1. CASE DeleteBeforeStart(t) \/ FinaliseSupportNeeds(t)
  BY <1>1 DEF DeleteBeforeStart, FinaliseSupportNeeds, SetCache, Promised!Close
<1>2. CASE StartForm(t)
  <2>1. /\ pc[t] = "startWrite" /\ cache = NoCache /\ loc[t] = Started(forms)
        /\ forms \notin api
    BY <1>2 DEF StartForm, LoneInv, Starting
  <2>2. loc[t] \in ConsistentNeeds /\ loc[t].form = forms
    BY <2>1, AtTab DEF CopiesAt, Copy, Started
  <2>3. forms \in Form \ api
    BY <2>1, <2>2 DEF ConsistentNeeds, Needs
  <2>4. cache' = Started(forms) /\ api' = api
    BY <1>2, <2>1 DEF StartForm, SetCache
  <2>5. Promised!Begin
    BY <2>1, <2>3, <2>4 DEF Started, Promised!Begin
  <2> QED BY <2>5
<1>3. CASE SubmitSupportNeeds(t)
  BY <1>3, SelectImplements
<1>4. CASE SubmitSupportNeedsStatus(t)
  BY <1>4, StatusImplements
<1>5. CASE DeleteSupportNeed(t)
  BY <1>5, RemoveImplements
<1>6. CASE PostSupportNeeds(t)
  <2>1. loc[t] = cache /\ cache # NoCache
    BY <1>6, AtTab DEF PostSupportNeeds, LoneInv, Holding, CopiesAt
  <2>2. cache' = cache /\ api' \in {api, api \cup {cache.form}}
    BY <1>6, <2>1 DEF PostSupportNeeds
  <2> QED BY <2>1, <2>2 DEF Promised!Confirm
<1>7. CASE \/ FetchNeeds(t) \/ OpenNeeds(t) \/ GetSupportNeeds(t)
           \/ ValidateSupportNeeds(t) \/ SubmitRead(t)
           \/ GetSupportNeedsStatus(t) \/ RejectStatus(t) \/ StatusRead(t)
           \/ DeleteRead(t) \/ GetCheckAnswers(t) \/ FinaliseRead(t)
  BY <1>7 DEF FetchNeeds, OpenNeeds, GetSupportNeeds, ValidateSupportNeeds, SubmitRead,
              GetSupportNeedsStatus, RejectStatus, StatusRead, DeleteRead,
              GetCheckAnswers, FinaliseRead, ReadCache, ReadNeed, ReadStep, NoWrite
<1> QED BY <1>1, <1>2, <1>3, <1>4, <1>5, <1>6, <1>7 DEF Handle

LEMMA UseImplements ==
    ASSUME NEW t \in Tab, Use(t)
    PROVE  UNCHANGED <<cache, api>>
<1>1. ASSUME NEW label, NEW r, Send(t, label, r)
      PROVE  UNCHANGED <<cache, api>>
  BY <1>1 DEF Send
<1>2. CASE Start(t) \/ SubmitNeeds(t) \/ SaveStatus(t) \/ RemoveNeed(t) \/ Confirm(t)
  BY <1>1, <1>2 DEF Start, SubmitNeeds, SaveStatus, RemoveNeed, Confirm
<1>3. CASE AddNeeds(t) \/ Change(t) \/ Back(t)
  <2>1. ASSUME NEW r, Follow(t, r)
        PROVE  UNCHANGED <<cache, api>>
    BY <1>1, <2>1 DEF Follow
  <2> QED BY <1>3, <2>1 DEF AddNeeds, Change, Back
<1>4. CASE Revisit(t)
  BY <1>1, <1>4 DEF Revisit
<1>5. CASE Leave(t) \/ FollowRedirect(t) \/ AbandonRedirect(t)
  BY <1>5 DEF Leave, FollowRedirect, AbandonRedirect, NoWrite
<1>6. CASE \E u \in Tab : ClickAgain(t, u)
  BY <1>6 DEF ClickAgain
<1> QED BY <1>2, <1>3, <1>4, <1>5, <1>6 DEF Use

(* For a user with one tab the requests, the copies and the key in Redis   *)
(* implement a form that each button changes at once or not at all,        *)
(* whatever fails in between.                                              *)
THEOREM ActsOnCurrent ==
    ASSUME NEW t \in Tab, Tab = {t}
    PROVE  Spec => ActsOnCurrentForm
<1>1. Init => Promised!Init
  BY DEF Init, Promised!Init
<1>2. ASSUME IInv, LoneInv(t), [Next]_vars
      PROVE  [Promised!Next]_<<cache, api>>
  <2>1. CASE UNCHANGED vars
    BY <2>1 DEF vars
  <2>2. CASE Handle(t)
    BY <1>2, <2>2, HandleImplements
  <2>3. CASE Use(t)
    BY <2>3, UseImplements
  <2>4. CASE Crash(t)
    BY <2>4 DEF Crash, NoWrite
  <2>5. CASE ExpireCache
    BY <2>5 DEF ExpireCache, Promised!Next, Promised!Close
  <2> QED BY <1>2, <2>1, <2>2, <2>3, <2>4, <2>5 DEF Next
<1> QED BY <1>1, <1>2, LoneInvariant, PTL DEF Spec, Promised!Spec, ActsOnCurrentForm

-----------------------------------------------------------------------------
(* A user who keeps to the links and buttons of the pages gives every      *)
(* selected need its status before he can confirm.  What makes it so is    *)
(* that a status page, or the request for one, comes after those of all    *)
(* earlier needs, and Check your answers after all of them; the next page  *)
(* after one is the first left.                                            *)

Upto(needs, n) == { m \in StatusPages(needs) : m < n } \subseteq needs.detailed
Handled(needs, n) == { m \in StatusPages(needs) : m <= n } \subseteq needs.detailed
Covered(needs) == StatusPages(needs) \subseteq needs.detailed

(* p, a page or a request for one, may come now. *)
Reached(p, needs) ==
    /\ p.page = "check" \/ p.edit => Covered(needs)
    /\ p.page = "status" /\ p.form = needs.form => Upto(needs, p.need)

(* And so may the pages that the links of page s lead to. *)
LinksReached(s, needs) ==
    /\ Reached(s, needs)
    /\ s.page = "status" => \A m \in s.links : m < s.need
    /\ s.page = "needs" => s.links = {}

(* The page that a step of a request is about. *)
ComesFrom(r, label) ==
    /\ label \in Starting \cup Posting => r.page = "needs" /\ ~r.edit
    /\ label \in {"statusRead", "saveRead", "saveWrite", "removeRead", "removeWrite"} =>
          r.page = "status"
    /\ label \in {"checkRead", "finalRead", "finalPost"} => r.page = "check"

WalkInv(t) ==
    /\ ComesFrom(req[t], pc[t])
    /\ pc[t] \in {"saveWrite", "removeWrite"} => req[t].form = cache.form
    /\ ~spent.strayed /\ cache # NoCache =>
          /\ Reached(req[t], cache)
          /\ pc[t] = "idle" /\ screen[t] # Elsewhere => LinksReached(screen[t], cache)

LEMMA AskNeedsReached ==
    ASSUME NEW needs
    PROVE  Reached(AskNeeds(FALSE), needs) /\ Reached(NoRequest, needs)
BY DEF Ask, AskNeeds, NoRequest, Reached

LEMMA AskCheckReached ==
    ASSUME NEW needs, Covered(needs)
    PROVE  Reached(AskCheck, needs)
BY DEF Ask, AskCheck, Reached

LEMMA CoveredIsUpto ==
    ASSUME NEW needs, Covered(needs), NEW n
    PROVE  Upto(needs, n)
BY DEF Covered, Upto

(* Straying is not undone. *)
LEMMA StrayedStays ==
    ASSUME IInv,
           \/ UNCHANGED spent \/ spent' \in {Begun, Counted}
           \/ \E kind \in {"fault", "expiry", "crash"} : Mishap(kind)
    PROVE  spent'.strayed = spent.strayed
<1>1. spent \in Spent
  BY DEF IInv
<1>2. CASE spent' \in {Begun, Counted}
  <2>1. Begun \in Spent /\ Begun.strayed = spent.strayed
    BY <1>1, BegunType
  <2> HIDE DEF Begun
  <2> QED BY <1>2, <2>1 DEF Counted, Spent
<1>3. ASSUME NEW kind, Mishap(kind)
      PROVE  spent'.strayed = spent.strayed
  BY <1>1, <1>3 DEF Mishap, Spent
<1> QED BY <1>2, <1>3

(* The ways a step leaves the tab. *)

LEMMA ContinueWalks ==
    ASSUME IInv, NEW t \in Tab, WalkInv(t), NEW label, NEW needs, Continue(t, label, needs),
           ComesFrom(req[t], label), label # "idle",
           label \in {"saveWrite", "removeWrite"} => req[t].form = cache'.form,
           cache' \in {cache, NoCache}, UNCHANGED spent
    PROVE  WalkInv(t)'
<1>1. pc'[t] = label /\ req'[t] = req[t]
  BY ContinueFields
<1> QED BY <1>1 DEF WalkInv

LEMMA ShowFieldsAll ==
    ASSUME IInv, NEW t \in Tab, NEW s, Show(t, s)
    PROVE  pc'[t] = "idle" /\ screen'[t] = s /\ req'[t] = NoRequest
BY DEF IInv, TabInv, Show

LEMMA ShowWalks ==
    ASSUME IInv, NEW t \in Tab, NEW s, Show(t, s),
           ~spent'.strayed /\ cache' # NoCache /\ s # Elsewhere => LinksReached(s, cache')
    PROVE  WalkInv(t)'
<1>1. pc'[t] = "idle" /\ screen'[t] = s /\ req'[t] = NoRequest
  BY ShowFieldsAll
<1>2. ComesFrom(NoRequest, "idle") /\ Reached(NoRequest, cache')
  BY AskNeedsReached DEF ComesFrom, Starting, Posting
<1> QED BY <1>1, <1>2 DEF WalkInv

LEMMA ExitWalks ==
    ASSUME IInv, NEW t \in Tab, Exit(t)
    PROVE  WalkInv(t)'
BY ShowWalks DEF Exit

LEMMA RedirectWalks ==
    ASSUME IInv, NEW t \in Tab, NEW r, RedirectTo(t, r),
           ~spent'.strayed /\ cache' # NoCache => Reached(r, cache')
    PROVE  WalkInv(t)'
<1>1. pc'[t] = "redirect" /\ req'[t] = r
  BY DEF IInv, TabInv, RedirectTo
<1>2. ComesFrom(r, "redirect")
  BY DEF ComesFrom, Starting, Posting
<1> QED BY <1>1, <1>2 DEF WalkInv

LEMMA SendWalks ==
    ASSUME IInv, NEW t \in Tab, WalkInv(t), NEW label, NEW r, Send(t, label, r),
           ComesFrom(r, label), label \notin {"idle", "saveWrite", "removeWrite"},
           ~spent'.strayed /\ cache # NoCache => Reached(r, cache)
    PROVE  WalkInv(t)'
<1>1. pc'[t] = label /\ req'[t] = r /\ cache' = cache
  BY SendFields
<1> QED BY <1>1 DEF WalkInv

(* After a need has been dealt with comes the first that has not. *)
LEMMA NextWalks ==
    ASSUME IInv, NEW t \in Tab, NEW needs \in ConsistentNeeds, NEW n \in Nat,
           ~spent'.strayed => Handled(needs, n),
           cache' = needs, RedirectToNext(t, needs, n)
    PROVE  WalkInv(t)'
<1> DEFINE later == StatusPagesAfter(needs, n)
<1>1. StatusPages(needs) \subseteq Nat
  BY SupportNeedsAssumption DEF StatusPages, Need, ConsistentNeeds, Needs
<1>2. CASE later = {} /\ RedirectTo(t, AskCheck)
  <2>1. \A m \in StatusPages(needs) : m <= n
    BY <1>1, <1>2 DEF StatusPagesAfter
  <2>2. Handled(needs, n) => Covered(needs)
    BY <2>1 DEF Handled, Covered
  <2> QED BY <1>2, <2>2, AskCheckReached, RedirectWalks
<1>3. ASSUME NEW k \in First(later), RedirectTo(t, Ask("status", needs.form, k, FALSE))
      PROVE  WalkInv(t)'
  <2>1. k \in StatusPages(needs) /\ \A m \in StatusPages(needs) : m > n => k <= m
    BY <1>3 DEF First, StatusPagesAfter
  <2>2. ASSUME Handled(needs, n), NEW m \in StatusPages(needs), m < k
        PROVE  m \in needs.detailed
    <3>1. m <= n
      BY <1>1, <2>1, <2>2
    <3> QED BY <2>2, <3>1 DEF Handled
  <2>3. Handled(needs, n) => Upto(needs, k)
    BY <2>2 DEF Upto
  <2> DEFINE r == Ask("status", needs.form, k, FALSE)
  <2>4. r.page = "status" /\ r.form = needs.form /\ r.need = k /\ r.edit = FALSE
    BY DEF Ask
  <2>5. RedirectTo(t, r)
    BY <1>3
  <2> HIDE DEF r
  <2>6. Handled(needs, n) => Reached(r, needs)
    BY <2>3, <2>4 DEF Reached
  <2> QED BY <2>5, <2>6, RedirectWalks
<1> QED BY <1>2, <1>3 DEF RedirectToNext


LEMMA DetailsPages ==
    ASSUME NEW needs \in ConsistentNeeds, NEW n \in Need
    PROVE  /\ StatusPages(WithDetails(needs, n)) = StatusPages(needs)
           /\ WithDetails(needs, n).detailed = needs.detailed \cup {n}
BY DEF WithDetails, StatusPages, ConsistentNeeds, Needs

LEMMA RemovalPages ==
    ASSUME NEW needs \in ConsistentNeeds, NEW n \in Need
    PROVE  /\ StatusPages(Without(needs, n)) = StatusPages(needs) \ {n}
           /\ Without(needs, n).detailed = needs.detailed \ {n}
<1> DEFINE s == SectionOf[n]
           left == needs.selected \ {n}
           selected == IF Answered(s, left) THEN left ELSE left \cup NoNeedsOptions(s)
<1>1. NoNeedsOptions(s) \cap Updatable = {}
  BY DEF NoNeedsOptions
<1>2. selected \cap Updatable = (needs.selected \cap Updatable) \ {n}
  BY <1>1
<1>3. needs \in Needs
  BY DEF ConsistentNeeds
<1>4. Without(needs, n) = [needs EXCEPT !.selected = selected,
                                        !.described = @ \ {n}, !.detailed = @ \ {n}]
  BY DEF Without
<1> HIDE DEF selected
<1>5. /\ Without(needs, n).selected = selected
      /\ Without(needs, n).detailed = needs.detailed \ {n}
  BY <1>3, <1>4 DEF Needs
<1> QED BY <1>2, <1>5 DEF StatusPages

LEMMA StartFormWalks ==
    ASSUME IInv, NEW t \in Tab, WalkInv(t),
           DeleteBeforeStart(t) \/ FetchNeeds(t) \/ StartForm(t)
    PROVE  WalkInv(t)'
<1>1. CASE DeleteBeforeStart(t)
  <2>1. ComesFrom(req[t], "startFetch")
    BY <1>1 DEF DeleteBeforeStart, WalkInv, ComesFrom, Starting, Posting
  <2>2. cache' = NoCache /\ UNCHANGED spent /\ Continue(t, "startFetch", NoCache)
    BY <1>1 DEF DeleteBeforeStart, SetCache
  <2> QED BY <2>1, <2>2, ContinueWalks
<1>2. CASE FetchNeeds(t)
  <2>1. ComesFrom(req[t], "startWrite") /\ cache' = cache
    BY <1>2 DEF FetchNeeds, NoWrite, WalkInv, ComesFrom, Starting, Posting
  <2>2. CASE UNCHANGED spent /\ Continue(t, "startWrite", Started(req[t].form))
    BY <2>1, <2>2, ContinueWalks
  <2> QED BY <1>2, <2>2, ExitWalks DEF FetchNeeds
<1>3. CASE StartForm(t)
  BY <1>3, RedirectWalks, AskNeedsReached DEF StartForm
<1> QED BY <1>1, <1>2, <1>3

LEMMA NeedsPageWalks ==
    ASSUME IInv, NEW t \in Tab, LoneInv(t), WalkInv(t),
           \/ OpenNeeds(t) \/ GetSupportNeeds(t)
           \/ ValidateSupportNeeds(t) \/ SubmitRead(t) \/ SubmitSupportNeeds(t)
    PROVE  WalkInv(t)'
<1>1. CASE OpenNeeds(t)
  <2>1. cache' = cache /\ UNCHANGED spent
        /\ (Exit(t) \/ Continue(t, "needsSummary", cache))
    BY <1>1 DEF OpenNeeds, ReadCache, ReadStep, NoWrite
  <2>2. ComesFrom(req[t], "needsSummary")
    BY DEF ComesFrom, Starting, Posting
  <2> QED BY <2>1, <2>2, ExitWalks, ContinueWalks
<1>2. CASE GetSupportNeeds(t)
  <2> DEFINE s == Page("needs", loc[t].form, 1, req[t].edit, {})
  <2>1. pc[t] = "needsSummary" /\ cache' = cache
    BY <1>2 DEF GetSupportNeeds, NoWrite
  <2>2. CASE UNCHANGED spent /\ Show(t, s)
    <3>1. s.page = "needs" /\ s.edit = req[t].edit /\ s.links = {}
      BY DEF Page
    <3> HIDE DEF s
    <3>2. ASSUME ~spent'.strayed, cache' # NoCache
          PROVE  LinksReached(s, cache')
      <4>1. Reached(req[t], cache)
        BY <2>1, <2>2, <3>2 DEF WalkInv
      <4> QED BY <2>1, <3>1, <4>1 DEF Reached, LinksReached
    <3> QED BY <2>2, <3>2, ShowWalks
  <2> QED BY <1>2, <2>2, ExitWalks DEF GetSupportNeeds
<1>3. CASE ValidateSupportNeeds(t)
  <2>1. pc[t] = "validateRead" /\ cache' = cache /\ UNCHANGED spent
    BY <1>3 DEF ValidateSupportNeeds, ReadStep, NoWrite
  <2>2. ComesFrom(req[t], "submitRead")
    BY <2>1 DEF WalkInv, ComesFrom, Starting, Posting
  <2>3. CASE Continue(t, "submitRead", NoCache)
    BY <2>1, <2>2, <2>3, ContinueWalks
  <2>4. CASE RedirectTo(t, AskNeeds(FALSE))
    BY <2>4, RedirectWalks, AskNeedsReached
  <2> QED BY <1>3, <2>3, <2>4, ExitWalks DEF ValidateSupportNeeds
<1>4. CASE SubmitRead(t)
  <2>1. pc[t] = "submitRead" /\ cache' = cache /\ UNCHANGED spent
        /\ (Exit(t) \/ Continue(t, "submitWrite", cache))
    BY <1>4 DEF SubmitRead, ReadCache, ReadStep, NoWrite
  <2>2. ComesFrom(req[t], "submitWrite")
    BY <2>1 DEF WalkInv, ComesFrom, Starting, Posting
  <2> QED BY <2>1, <2>2, ExitWalks, ContinueWalks
<1>5. CASE SubmitSupportNeeds(t)
  <2> DEFINE needs == WithSelection(loc[t], req[t])
  <2>1. pc[t] = "submitWrite" /\ cache' = needs /\ RedirectToNext(t, needs, 0)
    BY <1>5 DEF SubmitSupportNeeds, SetCache
  <2>2. needs \in ConsistentNeeds
    BY <2>1, AtTab, SelectionIsConsistent DEF CopiesAt, Copy
  <2>3. \A m \in StatusPages(needs) : ~(m <= 0)
    BY <2>2, SupportNeedsAssumption DEF StatusPages, Need, ConsistentNeeds, Needs
  <2> HIDE DEF needs
  <2>4. Handled(needs, 0)
    BY <2>3 DEF Handled
  <2> QED BY <2>1, <2>2, <2>4, NextWalks
<1> QED BY <1>1, <1>2, <1>3, <1>4, <1>5

LEMMA StatusPageWalks ==
    ASSUME IInv, NEW t \in Tab, LoneInv(t), WalkInv(t),
           \/ GetSupportNeedsStatus(t)
           \/ RejectStatus(t) \/ StatusRead(t) \/ SubmitSupportNeedsStatus(t)
           \/ DeleteRead(t) \/ DeleteSupportNeed(t)
    PROVE  WalkInv(t)'
<1>1. CASE GetSupportNeedsStatus(t)
  <2> DEFINE n == req[t].need
             s == Page("status", cache.form, n, req[t].edit, StatusPageBefore(cache, n))
  <2>1. pc[t] = "statusRead" /\ cache' = cache /\ UNCHANGED spent
    BY <1>1 DEF GetSupportNeedsStatus, ReadStep, NoWrite
  <2>2. /\ s.page = "status" /\ s.form = cache.form /\ s.need = n
        /\ s.edit = req[t].edit /\ s.links = StatusPageBefore(cache, n)
    BY DEF Page
  <2>3. \A m \in StatusPageBefore(cache, n) : m < n
    BY DEF StatusPageBefore, Last
  <2>4. ASSUME ~spent'.strayed, cache' # NoCache, req[t].form = cache.form
        PROVE  LinksReached(s, cache')
    <3>1. Reached(req[t], cache) /\ req[t].page = "status"
      BY <2>1, <2>4 DEF WalkInv, ComesFrom
    <3>2. /\ req[t].edit => Covered(cache)
          /\ Upto(cache, n)
      BY <2>4, <3>1 DEF Reached
    <3> HIDE DEF s, n
    <3> QED BY <2>1, <2>2, <2>3, <2>4, <3>2 DEF Reached, LinksReached
  <2>5. CASE Exit(t)
    BY <2>5, ExitWalks
  <2>6. CASE Finds(cache, req[t]) /\ Show(t, s)
    <3> HIDE DEF s
    <3> QED BY <2>1, <2>4, <2>6, ShowWalks DEF Finds
  <2> QED BY <1>1, <2>5, <2>6 DEF GetSupportNeedsStatus
<1>2. CASE RejectStatus(t)
  <2> DEFINE r == Ask("status", req[t].form, req[t].need, FALSE)
  <2>1. pc[t] = "saveRead" /\ cache' = cache /\ UNCHANGED spent /\ RedirectTo(t, r)
    BY <1>2 DEF RejectStatus, ReadStep, NoWrite
  <2>2. /\ r.page = "status" /\ r.form = req[t].form
        /\ r.need = req[t].need /\ r.edit = FALSE
    BY DEF Ask
  <2> HIDE DEF r
  <2>3. ASSUME ~spent'.strayed, cache' # NoCache
        PROVE  Reached(r, cache')
    <3>1. Reached(req[t], cache) /\ req[t].page = "status"
      BY <2>1, <2>3 DEF WalkInv, ComesFrom
    <3> QED BY <2>1, <2>2, <3>1 DEF Reached
  <2> QED BY <2>1, <2>3, RedirectWalks
<1>3. CASE StatusRead(t) \/ DeleteRead(t)
  <2> DEFINE next == IF pc[t] = "saveRead" THEN "saveWrite" ELSE "removeWrite"
  <2>1. /\ pc[t] \in {"saveRead", "removeRead"} /\ cache' = cache /\ UNCHANGED spent
        /\ \/ Exit(t)
           \/ req[t].form = cache.form /\ Continue(t, next, cache)
    BY <1>3 DEF StatusRead, DeleteRead, ReadNeed, ReadStep, NoWrite, Finds
  <2>2. ComesFrom(req[t], next)
    BY <2>1 DEF WalkInv, ComesFrom, Starting, Posting
  <2>3. next # "idle"
    OBVIOUS
  <2> HIDE DEF next
  <2> QED BY <2>1, <2>2, <2>3, ExitWalks, ContinueWalks
<1>4. ASSUME NEW needs \in ConsistentNeeds, cache' = needs, UNCHANGED spent,
             pc[t] \in {"saveWrite", "removeWrite"},
             Upto(cache, req[t].need) => Handled(needs, req[t].need),
             Covered(cache) => Covered(needs),
             \/ req[t].edit /\ RedirectTo(t, AskCheck)
             \/ ~req[t].edit /\ RedirectToNext(t, needs, req[t].need)
      PROVE  WalkInv(t)'
  <2>1. cache # NoCache /\ req[t].form = cache.form /\ req[t].page = "status"
    BY <1>4, AtTab DEF LoneInv, Holding, CopiesAt, WalkInv, ComesFrom
  <2>2. ASSUME ~spent'.strayed
        PROVE  (req[t].edit => Covered(needs)) /\ Handled(needs, req[t].need)
    <3>1. Reached(req[t], cache)
      BY <1>4, <2>1, <2>2 DEF WalkInv
    <3> QED BY <1>4, <2>1, <3>1 DEF Reached
  <2>3. CASE req[t].edit /\ RedirectTo(t, AskCheck)
    BY <1>4, <2>2, <2>3, AskCheckReached, RedirectWalks
  <2>4. CASE ~req[t].edit /\ RedirectToNext(t, needs, req[t].need)
    <3>1. req[t].need \in Nat
      BY AtTab, SupportNeedsAssumption DEF Need
    <3> QED BY <1>4, <2>2, <2>4, <3>1, NextWalks
  <2> QED BY <1>4, <2>3, <2>4
<1>5. CASE SubmitSupportNeedsStatus(t)
  <2> DEFINE n == req[t].need
             needs == WithDetails(cache, n)
  <2>1. /\ pc[t] = "saveWrite" /\ loc[t] = cache /\ cache \in ConsistentNeeds /\ n \in Need
    BY <1>5, AtTab DEF SubmitSupportNeedsStatus, CopiesAt, Copy, LoneInv, Holding
  <2>2. /\ needs \in ConsistentNeeds
        /\ StatusPages(needs) = StatusPages(cache)
        /\ needs.detailed = cache.detailed \cup {n}
    BY <2>1, DetailsAreConsistent, DetailsPages
  <2>3. /\ cache' = needs /\ UNCHANGED spent
        /\ \/ req[t].edit /\ RedirectTo(t, AskCheck)
           \/ ~req[t].edit /\ RedirectToNext(t, needs, req[t].need)
    BY <1>5, <2>1 DEF SubmitSupportNeedsStatus, SetCache
  <2>4. StatusPages(cache) \subseteq Need /\ Need \subseteq Nat
    BY <2>1, SupportNeedsAssumption DEF StatusPages, Need, ConsistentNeeds, Needs
  <2> HIDE DEF needs
  <2>5. ASSUME Upto(cache, n), NEW m \in StatusPages(needs), m <= n
        PROVE  m \in needs.detailed
    <3>1. m \in StatusPages(cache)
      BY <2>2, <2>5
    <3>2. m \in Nat /\ n \in Nat
      BY <2>1, <2>4, <3>1
    <3>3. CASE m = n
      BY <2>2, <2>5, <3>3
    <3>4. CASE m < n
      BY <2>2, <2>5, <3>1, <3>2, <3>4 DEF Upto
    <3> QED BY <2>5, <3>2, <3>3, <3>4
  <2>6. Covered(cache) => Covered(needs)
    BY <2>2 DEF Covered
  <2>7. Upto(cache, n) => Handled(needs, n)
    BY <2>5 DEF Handled
  <2> QED BY <1>4, <2>1, <2>2, <2>3, <2>6, <2>7
<1>6. CASE DeleteSupportNeed(t)
  <2> DEFINE n == req[t].need
             needs == Without(cache, n)
  <2>1. /\ pc[t] = "removeWrite" /\ loc[t] = cache /\ cache \in ConsistentNeeds /\ n \in Need
    BY <1>6, AtTab DEF DeleteSupportNeed, CopiesAt, Copy, LoneInv, Holding
  <2>2. /\ needs \in ConsistentNeeds
        /\ StatusPages(needs) = StatusPages(cache) \ {n}
        /\ needs.detailed = cache.detailed \ {n}
    BY <2>1, RemovalIsConsistent, RemovalPages
  <2>3. /\ cache' = needs /\ UNCHANGED spent
        /\ \/ req[t].edit /\ RedirectTo(t, AskCheck)
           \/ ~req[t].edit /\ RedirectToNext(t, needs, req[t].need)
    BY <1>6, <2>1 DEF DeleteSupportNeed, SetCache
  <2>4. StatusPages(cache) \subseteq Need /\ Need \subseteq Nat
    BY <2>1, SupportNeedsAssumption DEF StatusPages, Need, ConsistentNeeds, Needs
  <2> HIDE DEF needs
  <2>5. ASSUME Upto(cache, n), NEW m \in StatusPages(needs), m <= n
        PROVE  m \in needs.detailed
    <3>1. m \in StatusPages(cache)
      BY <2>2, <2>5
    <3>2. m \in Nat /\ n \in Nat
      BY <2>1, <2>4, <3>1
    <3>3. CASE m = n
      BY <2>2, <2>5, <3>3
    <3>4. CASE m < n
      BY <2>2, <2>5, <3>1, <3>2, <3>4 DEF Upto
    <3> QED BY <2>5, <3>2, <3>3, <3>4
  <2>6. Covered(cache) => Covered(needs)
    BY <2>2 DEF Covered
  <2>7. Upto(cache, n) => Handled(needs, n)
    BY <2>5 DEF Handled
  <2> QED BY <1>4, <2>1, <2>2, <2>3, <2>6, <2>7
<1> QED BY <1>1, <1>2, <1>3, <1>5, <1>6

LEMMA CheckAnswersWalks ==
    ASSUME IInv, NEW t \in Tab, LoneInv(t), WalkInv(t),
           \/ GetCheckAnswers(t)
           \/ FinaliseRead(t) \/ PostSupportNeeds(t) \/ FinaliseSupportNeeds(t)
    PROVE  WalkInv(t)'
<1>1. CASE GetCheckAnswers(t)
  <2> DEFINE s == Page("check", cache.form, 1, FALSE, StatusPages(cache))
  <2>1. /\ pc[t] = "checkRead" /\ cache' = cache /\ UNCHANGED spent
        /\ Exit(t) \/ Show(t, s)
    BY <1>1 DEF GetCheckAnswers, ReadStep, NoWrite
  <2>2. s.page = "check" /\ s.edit = FALSE
    BY DEF Page
  <2> HIDE DEF s
  <2>3. ASSUME ~spent'.strayed, cache' # NoCache
        PROVE  LinksReached(s, cache')
    <3>1. Reached(req[t], cache) /\ req[t].page = "check"
      BY <2>1, <2>3 DEF WalkInv, ComesFrom
    <3> QED BY <2>1, <2>2, <3>1 DEF Reached, LinksReached
  <2> QED BY <2>1, <2>3, ExitWalks, ShowWalks
<1>2. CASE FinaliseRead(t)
  <2>1. /\ pc[t] = "finalRead" /\ cache' = cache /\ UNCHANGED spent
        /\ Exit(t) \/ Continue(t, "finalPost", cache)
    BY <1>2 DEF FinaliseRead, ReadCache, ReadStep, NoWrite
  <2>2. ComesFrom(req[t], "finalPost")
    BY <2>1 DEF WalkInv, ComesFrom, Starting, Posting
  <2> QED BY <2>1, <2>2, ExitWalks, ContinueWalks
<1>3. CASE PostSupportNeeds(t)
  <2>1. cache' = cache
    BY <1>3 DEF PostSupportNeeds
  <2>2. CASE UNCHANGED spent /\ Continue(t, "finalDelete", NoCache)
    <3>1. ComesFrom(req[t], "finalDelete")
      BY DEF ComesFrom, Starting, Posting
    <3> QED BY <2>1, <2>2, <3>1, ContinueWalks
  <2> QED BY <1>3, <2>2, ExitWalks DEF PostSupportNeeds
<1>4. CASE FinaliseSupportNeeds(t)
  BY <1>4, ExitWalks DEF FinaliseSupportNeeds
<1> QED BY <1>1, <1>2, <1>3, <1>4

LEMMA FirstStepComes ==
    ASSUME NEW r \in Request
    PROVE  /\ ComesFrom(r, FirstStep(r))
           /\ FirstStep(r) \notin {"idle", "saveWrite", "removeWrite"}
<1>1. r.page \in {"needs", "status", "check"}
  BY DEF Request, PageName
<1>2. /\ r.page = "needs" => FirstStep(r) = "needsRead"
      /\ r.page = "status" => FirstStep(r) = "statusRead"
      /\ r.page = "check" => FirstStep(r) = "checkRead"
  BY DEF FirstStep
<1> QED BY <1>1, <1>2 DEF ComesFrom, Starting, Posting

LEMMA FollowWalks ==
    ASSUME IInv, NEW t \in Tab, WalkInv(t), NEW r \in Request, Follow(t, r),
           ~spent.strayed /\ cache # NoCache => Reached(r, cache)
    PROVE  WalkInv(t)'
<1>1. Send(t, FirstStep(r), r) /\ spent' = Counted
  BY DEF Follow
<1>2. spent'.strayed = spent.strayed
  BY <1>1, StrayedStays
<1> QED BY <1>1, <1>2, FirstStepComes, SendWalks

(* The buttons of the status page send its own need. *)
LEMMA ThisNeedWalks ==
    ASSUME IInv, NEW t \in Tab, WalkInv(t), Shows(t, "status"), spent' = Counted,
           NEW label \in {"saveRead", "removeRead"}, NEW r, Send(t, label, r),
           r.page = "status", r.form = screen[t].form,
           r.need = screen[t].need, r.edit = screen[t].edit
    PROVE  WalkInv(t)'
<1>1. ComesFrom(r, label)
  BY DEF ComesFrom, Starting, Posting
<1>2. pc[t] = "idle" /\ spent'.strayed = spent.strayed
  BY SendFields, StrayedStays
<1>3. ASSUME ~spent.strayed, cache # NoCache
      PROVE  Reached(r, cache)
  <2>1. Reached(screen[t], cache) /\ screen[t].page = "status"
    BY <1>2, <1>3 DEF WalkInv, Shows, LinksReached
  <2> QED BY <2>1 DEF Reached
<1> QED BY <1>1, <1>2, <1>3, SendWalks

LEMMA UseWalks ==
    ASSUME IInv, NEW t \in Tab, LoneInv(t), WalkInv(t), Use(t)
    PROVE  WalkInv(t)'
<1>1. ASSUME NEW label, NEW r, Send(t, label, r), label \in {"startDelete", "validateRead"},
             r.page = "needs", r.edit = FALSE
      PROVE  WalkInv(t)'
  <2>1. ComesFrom(r, label) /\ Reached(r, cache)
    BY <1>1 DEF ComesFrom, Reached, Starting, Posting
  <2> QED BY <1>1, <2>1, SendWalks
<1>2. CASE Start(t)
  <2> DEFINE r == Ask("needs", forms + 1, 1, FALSE)
  <2>1. Send(t, "startDelete", r)
    BY <1>2 DEF Start
  <2>2. r.page = "needs" /\ r.edit = FALSE
    BY DEF Ask
  <2> HIDE DEF r
  <2> QED BY <1>1, <2>1, <2>2
<1>3. CASE SubmitNeeds(t)
  <2>1. PICK chosen, described :
           Send(t, "validateRead",
                [Ask("needs", screen[t].form, 1, FALSE)
                    EXCEPT !.chosen = chosen, !.described = described])
    BY <1>3 DEF SubmitNeeds
  <2> DEFINE r == [Ask("needs", screen[t].form, 1, FALSE)
                      EXCEPT !.chosen = chosen, !.described = described]
  <2>2. r.page = "needs" /\ r.edit = FALSE
    BY DEF Ask
  <2>3. Send(t, "validateRead", r)
    BY <2>1
  <2> HIDE DEF r
  <2> QED BY <1>1, <2>2, <2>3
<1>4. CASE SaveStatus(t)
  <2>1. PICK valid \in BOOLEAN : Send(t, "saveRead", [ThisNeed(t) EXCEPT !.valid = valid])
    BY <1>4 DEF SaveStatus
  <2> DEFINE r == [ThisNeed(t) EXCEPT !.valid = valid]
  <2>2. /\ r.page = "status" /\ r.form = screen[t].form
        /\ r.need = screen[t].need /\ r.edit = screen[t].edit
    BY DEF ThisNeed, Ask
  <2>3. Shows(t, "status") /\ spent' = Counted /\ Send(t, "saveRead", r)
    BY <1>4, <2>1 DEF SaveStatus
  <2> HIDE DEF r
  <2> QED BY <2>2, <2>3, ThisNeedWalks
<1>5. CASE RemoveNeed(t)
  <2>1. /\ ThisNeed(t).page = "status" /\ ThisNeed(t).form = screen[t].form
        /\ ThisNeed(t).need = screen[t].need /\ ThisNeed(t).edit = screen[t].edit
    BY DEF ThisNeed, Ask
  <2> QED BY <1>5, <2>1, ThisNeedWalks DEF RemoveNeed
<1>6. ASSUME pc[t] = "idle", screen[t] # Elsewhere, ~spent.strayed, cache # NoCache
      PROVE  LinksReached(screen[t], cache) /\ screen[t].form = cache.form
  BY <1>6 DEF WalkInv, LoneInv
<1>7. CASE Confirm(t)
  <2>1. /\ Send(t, "finalRead", AskCheck) /\ spent' = Counted /\ pc[t] = "idle"
        /\ screen[t] # Elsewhere /\ screen[t].page = "check"
    BY <1>7 DEF Confirm, Shows, Send
  <2>2. ComesFrom(AskCheck, "finalRead")
    BY DEF ComesFrom, AskCheck, Ask, Starting, Posting
  <2>3. spent'.strayed = spent.strayed
    BY <2>1, StrayedStays
  <2>4. ~spent.strayed /\ cache # NoCache => Reached(AskCheck, cache)
    BY <1>6, <2>1, AskCheckReached DEF LinksReached, Reached
  <2> QED BY <2>1, <2>2, <2>3, <2>4, SendWalks
<1>8. CASE AddNeeds(t)
  <2>1. /\ Follow(t, AskNeeds(TRUE)) /\ pc[t] = "idle"
        /\ screen[t] # Elsewhere /\ screen[t].page = "check"
    BY <1>8 DEF AddNeeds, Shows, Follow, Send
  <2>2. ~spent.strayed /\ cache # NoCache => Covered(cache)
    BY <1>6, <2>1 DEF LinksReached, Reached
  <2>3. \A needs : Covered(needs) => Reached(AskNeeds(TRUE), needs)
    BY DEF Reached, AskNeeds, Ask
  <2> QED BY <2>1, <2>2, <2>3, LinkRequests, FollowWalks
<1>9. ASSUME NEW n, NEW edit \in BOOLEAN, Follow(t, Ask("status", screen[t].form, n, edit)),
             screen[t] # Elsewhere, n \in screen[t].links,
             screen[t].page # "check" => ~edit
      PROVE  WalkInv(t)'
  <2> DEFINE r == Ask("status", screen[t].form, n, edit)
  <2>1. r \in Request /\ Follow(t, r)
    BY <1>9, LinkRequests
  <2>2. r.page = "status" /\ r.need = n /\ r.edit = edit
    BY DEF Ask
  <2> HIDE DEF r
  <2>3. ASSUME ~spent.strayed, cache # NoCache
        PROVE  Reached(r, cache)
    <3>1. LinksReached(screen[t], cache) /\ screen[t].form = cache.form
      BY <1>6, <1>9, <2>1, <2>3 DEF Follow, Send
    <3>2. CASE screen[t].page = "check"
      BY <2>2, <3>1, <3>2, CoveredIsUpto DEF LinksReached, Reached
    <3>3. CASE screen[t].page = "status"
      <4>1. Upto(cache, screen[t].need) /\ n < screen[t].need
        BY <1>9, <3>1, <3>3 DEF LinksReached, Reached
      <4>2. n \in Nat /\ screen[t].need \in Nat
        BY <1>9, AtTab, SupportNeedsAssumption DEF Screen, Need
      <4>3. StatusPages(cache) \subseteq Nat
        BY <2>3, SupportNeedsAssumption DEF StatusPages, Need, IInv, StoreInv, Copy,
           ConsistentNeeds, Needs
      <4>4. Upto(cache, n)
        BY <4>1, <4>2, <4>3 DEF Upto
      <4> QED BY <1>9, <2>2, <3>3, <4>4 DEF Reached
    <3>4. CASE screen[t].page = "needs"
      BY <1>9, <3>1, <3>4 DEF LinksReached
    <3>5. screen[t].page \in {"needs", "status", "check"}
      BY <1>9, AtTab DEF Screen, PageName
    <3> QED BY <3>2, <3>3, <3>4, <3>5
  <2> QED BY <2>1, <2>3, FollowWalks
<1>10. CASE Change(t)
  BY <1>9, <1>10 DEF Change, Shows
<1>11. CASE Back(t)
  <2>1. screen[t] # Elsewhere
    BY <1>11 DEF Back
  <2>2. CASE screen[t].edit /\ Follow(t, AskCheck)
    <3>1. ~spent.strayed /\ cache # NoCache => Reached(AskCheck, cache)
      BY <1>6, <2>1, <2>2, AskCheckReached DEF LinksReached, Reached, Follow, Send
    <3> QED BY <2>2, <3>1, LinkRequests, FollowWalks
  <2>3. ASSUME NEW n \in Last(screen[t].links),
               Follow(t, Ask("status", screen[t].form, n, FALSE))
        PROVE  WalkInv(t)'
    BY <1>9, <2>1, <2>3 DEF Last
  <2>4. CASE Follow(t, AskNeeds(FALSE))
    BY <2>4, LinkRequests, AskNeedsReached, FollowWalks
  <2>5. CASE Follow(t, Ask("status", NoForm, 1, FALSE))
    <3> DEFINE r == Ask("status", NoForm, 1, FALSE)
    <3>1. r.page = "status" /\ r.form = NoForm /\ r.edit = FALSE
      BY DEF Ask
    <3>2. r \in Request /\ Follow(t, r)
      BY <2>5, LinkRequests
    <3> HIDE DEF r
    <3>3. cache # NoCache => cache.form # NoForm
      BY FormsAreNumbers DEF NoForm
    <3>4. cache # NoCache => Reached(r, cache)
      BY <3>1, <3>3 DEF Reached
    <3> QED BY <3>2, <3>4, FollowWalks
  <2> QED BY <1>11, <2>2, <2>3, <2>4, <2>5 DEF Back
<1>12. CASE Revisit(t)
  <2>1. \A f \in 1..forms, n \in Updatable, edit \in BOOLEAN :
           Ask("status", f, n, edit) \in Request
    <3>1. 1..forms \subseteq Form
      BY SupportNeedsAssumption DEF IInv, StoreInv, Form
    <3> QED BY <3>1, SupportNeedsAssumption, AskType DEF PageName
  <2>2. PICK r \in Request : Send(t, FirstStep(r), r)
    BY <1>12, <2>1, AskPagesType DEF Revisit
  <2>3. spent'.strayed
    <3>1. Begun \in Spent
      BY BegunType DEF IInv
    <3> HIDE DEF Begun
    <3> QED BY <1>12, <3>1 DEF Revisit, Counted, Spent
  <2> QED BY <2>2, <2>3, FirstStepComes, SendWalks
<1>13. CASE Leave(t)
  <2>1. screen'[t] = Elsewhere
    BY <1>13 DEF Leave, IInv, TabInv
  <2> QED BY <1>13, <2>1 DEF Leave, WalkInv
<1>14. CASE FollowRedirect(t)
  <2>1. /\ ComesFrom(req[t], FirstStep(req[t]))
        /\ FirstStep(req[t]) \notin {"idle", "saveWrite", "removeWrite"}
    BY AtTab, FirstStepComes
  <2>2. pc'[t] = FirstStep(req[t]) /\ UNCHANGED <<cache, req>> /\ spent' = Begun
    BY <1>14 DEF FollowRedirect, IInv, TabInv
  <2>3. spent'.strayed = spent.strayed
    BY <2>2, StrayedStays
  <2> QED BY <2>1, <2>2, <2>3 DEF WalkInv
<1>15. CASE AbandonRedirect(t)
  <2>1. spent'.strayed /\ Show(t, screen[t])
    BY <1>15 DEF AbandonRedirect, IInv, Spent
  <2> QED BY <2>1, ShowWalks
<1>16. ASSUME NEW u \in Tab, ClickAgain(t, u)
       PROVE  WalkInv(t)'
  BY <1>16, ClickingElsewhere DEF WalkInv
<1> QED BY <1>2, <1>3, <1>4, <1>5, <1>7, <1>8, <1>10, <1>11, <1>12, <1>13, <1>14, <1>15,
           <1>16 DEF Use

LEMMA WalkStep ==
    ASSUME IInv, NEW t \in Tab, Tab = {t}, LoneInv(t), WalkInv(t), [Next]_vars
    PROVE  WalkInv(t)'
<1>1. CASE UNCHANGED vars
  BY <1>1 DEF vars, WalkInv
<1>2. CASE Handle(t)
  BY <1>2, StartFormWalks, NeedsPageWalks, StatusPageWalks, CheckAnswersWalks DEF Handle
<1>3. CASE Use(t)
  BY <1>3, UseWalks
<1>4. CASE ExpireCache
  <2>1. cache' = NoCache /\ UNCHANGED <<pc, req>> /\ pc[t] = "idle"
    BY <1>4 DEF ExpireCache
  <2> QED BY <2>1 DEF WalkInv
<1>5. CASE Crash(t)
  BY <1>5, ExitWalks DEF Crash
<1> QED BY <1>1, <1>2, <1>3, <1>4, <1>5 DEF Next

(* A user with one tab who keeps to the links and buttons of the pages     *)
(* comes to Confirm only through the status page of every selected need,   *)
(* whatever he removes, adds, changes or goes back to in between, and      *)
(* whatever fails.                                                         *)
THEOREM StatusesBeforeConfirm ==
    ASSUME NEW t \in Tab, Tab = {t}
    PROVE  Spec => []LinksLeadThroughStatuses
<1>1. Init => WalkInv(t)
  BY DEF Init, WalkInv, ComesFrom, Starting, Posting
<1>2. IInv /\ LoneInv(t) /\ WalkInv(t) /\ [Next]_vars => WalkInv(t)'
  BY WalkStep
<1>3. IInv /\ LoneInv(t) /\ WalkInv(t) => LinksLeadThroughStatuses
  <2> SUFFICES ASSUME IInv, LoneInv(t), WalkInv(t), pc[t] = "finalPost", ~spent.strayed
               PROVE  StatusPages(loc[t]) \subseteq loc[t].detailed
    BY DEF LinksLeadThroughStatuses
  <2>1. loc[t] = cache /\ cache # NoCache
    BY AtTab DEF LoneInv, Holding, CopiesAt
  <2>2. Reached(req[t], cache) /\ req[t].page = "check"
    BY <2>1 DEF WalkInv, ComesFrom
  <2> QED BY <2>1, <2>2 DEF Reached, Covered
<1> QED BY <1>1, <1>2, <1>3, LoneInvariant, PTL DEF Spec
=============================================================================
