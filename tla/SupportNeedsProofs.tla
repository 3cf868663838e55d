------------------------- MODULE SupportNeedsProofs -------------------------
(***************************************************************************)
(* For every list of needs, every number of tabs and every interleaving of *)
(* their requests: the types of the support needs form, that a section     *)
(* never has both its "No support needs identified" option and a need      *)
(* selected, that a selected "Other" need is described, that in the first   *)
(* form no section loses its answer, and that a form is posted once unless *)
(* something fails or requests overlap.                                    *)
(*                                                                         *)
(* Handlers write their copies back over whatever is cached, so the        *)
(* inductive invariant says of the cache and of every copy that it is      *)
(* consistent, and of every post under way what has been validated.        *)
(***************************************************************************)
EXTENDS SupportNeeds, TLAPS

ConsistentNeeds ==
    { needs \in Needs : /\ Exclusive(needs.selected)
                        /\ needs.selected \cap AllowUserDesc \subseteq needs.described }
Copy == ConsistentNeeds \cup {NoCache}

(* The local copy and the request of a handler whose next step is label.   *)
CopiesAt(label) ==
    { needs \in Copy :
        label \in {"startWrite", "needsSummary", "submitWrite", "saveWrite",
                   "removeWrite", "finalPost"} => needs # NoCache }
RequestsAt(label) ==
    { r \in Request :
        /\ label \in {"startDelete", "startFetch"} => r.form \in Form
        /\ label \in {"validateRead", "submitRead", "submitWrite"} => Exclusive(r.chosen)
        /\ label \in {"submitRead", "submitWrite"} => Valid(r) }

TabInv ==
    /\ screen \in [Tab -> Screen \cup {Elsewhere}]
    /\ pc \in [Tab -> Label]
    /\ req \in [Tab -> Request]
    /\ loc \in [Tab -> Copy]
    /\ \A t \in Tab : loc[t] \in CopiesAt(pc[t]) /\ req[t] \in RequestsAt(pc[t])

StoreInv ==
    /\ cache \in Copy
    /\ forms \in 0..MaxForms
    /\ api \subseteq Form

IInv == StoreInv /\ TabInv /\ spent \in Spent

-----------------------------------------------------------------------------
(* What the handlers compute is consistent. *)

LEMMA NoCacheIsNoNeeds == NoCache \notin ConsistentNeeds
BY SupportNeedsAssumption DEF ConsistentNeeds

LEMMA EmptyIsConsistent ==
    ASSUME NEW f \in Form
    PROVE  Started(f) \in ConsistentNeeds
BY DEF Started, ConsistentNeeds, Needs, Exclusive

LEMMA SelectionIsConsistent ==
    ASSUME NEW needs \in ConsistentNeeds, NEW r \in RequestsAt("submitWrite")
    PROVE  WithSelection(needs, r) \in ConsistentNeeds
<1>1. Exclusive(r.chosen) /\ Valid(r) /\ r.chosen \subseteq Need /\ r.described \subseteq Need
  BY DEF RequestsAt, Request
<1>2. r.chosen \cap AllowUserDesc \subseteq r.described
  BY <1>1 DEF Valid
<1>3. Exclusive({})
  BY DEF Exclusive
<1> QED BY <1>1, <1>2, <1>3 DEF WithSelection, ConsistentNeeds, Needs

LEMMA DetailsAreConsistent ==
    ASSUME NEW needs \in ConsistentNeeds, NEW n \in Need
    PROVE  WithDetails(needs, n) \in ConsistentNeeds
BY DEF WithDetails, ConsistentNeeds, Needs

(* The option that deleteSupportNeed puts back is alone in its section. *)
LEMMA RemovalIsConsistent ==
    ASSUME NEW needs \in ConsistentNeeds, NEW n \in Need
    PROVE  Without(needs, n) \in ConsistentNeeds
<1> DEFINE s == SectionOf[n]
           left == needs.selected \ {n}
           selected == IF Answered(s, left) THEN left ELSE left \cup NoNeedsOptions(s)
<1>1. /\ needs \in Needs
      /\ Exclusive(needs.selected)
      /\ needs.selected \cap AllowUserDesc \subseteq needs.described
  BY DEF ConsistentNeeds
<1>2. needs.selected \subseteq Need /\ needs.described \subseteq Need
      /\ needs.detailed \subseteq Need
  BY <1>1 DEF Needs
<1>3. left \subseteq Need /\ Exclusive(left)
  BY <1>1, <1>2 DEF Exclusive
<1>4. NoNeedsOptions(s) \subseteq Need \ Updatable
  BY DEF NoNeedsOptions
<1>5. ASSUME ~Answered(s, left)
      PROVE  Exclusive(left \cup NoNeedsOptions(s))
  <2> SUFFICES ASSUME NEW o \in left \cup NoNeedsOptions(s), o \notin Updatable,
                      NEW m \in left \cup NoNeedsOptions(s),
                      SectionOf[m] = SectionOf[o]
               PROVE  m = o
    BY DEF Exclusive
  <2>1. CASE o \in left /\ m \in left
    BY <1>3, <2>1 DEF Exclusive
  <2>2. CASE SectionOf[o] = s
    <3>1. o \in NoNeedsOptions(s) /\ m \in NoNeedsOptions(s)
      BY <1>5, <2>2 DEF Answered
    <3> QED BY <3>1, <1>4, SupportNeedsAssumption
  <2> QED BY <2>1, <2>2 DEF NoNeedsOptions
<1>6. Exclusive(selected) /\ selected \subseteq Need
  BY <1>3, <1>4, <1>5
<1>7. selected \cap AllowUserDesc \subseteq needs.described \ {n}
  BY <1>1, <1>4, SupportNeedsAssumption
<1>8. Without(needs, n) = [needs EXCEPT !.selected = selected,
                                        !.described = @ \ {n}, !.detailed = @ \ {n}]
  BY DEF Without
<1> HIDE DEF selected
<1> QED BY <1>1, <1>2, <1>6, <1>7, <1>8 DEF ConsistentNeeds, Needs

LEMMA AskType ==
    ASSUME NEW page \in PageName, NEW f \in Form \cup {NoForm}, NEW n \in Need,
           NEW edit \in BOOLEAN
    PROVE  Ask(page, f, n, edit) \in Request /\ Exclusive(Ask(page, f, n, edit).chosen)
BY DEF Ask, Request, Exclusive

LEMMA AskPagesType ==
    /\ \A edit \in BOOLEAN : AskNeeds(edit) \in Request
    /\ AskCheck \in Request /\ NoRequest \in Request
<1>1. 1 \in Need
  BY SupportNeedsAssumption DEF Need
<1> QED BY <1>1, AskType DEF AskNeeds, AskCheck, NoRequest, PageName

-----------------------------------------------------------------------------
(* The ways a step leaves its tab. *)

LEMMA ContinueKeepsTabs ==
    ASSUME TabInv, NEW t \in Tab, NEW label \in Label, NEW needs \in CopiesAt(label),
           req[t] \in RequestsAt(label), Continue(t, label, needs)
    PROVE  TabInv'
<1>1. /\ pc' = [pc EXCEPT ![t] = label]
      /\ loc' = [loc EXCEPT ![t] = needs]
      /\ screen' = screen /\ req' = req
  BY DEF Continue
<1>2. needs \in Copy
  BY DEF CopiesAt
<1>3. \A u \in Tab : loc'[u] \in CopiesAt(pc'[u]) /\ req'[u] \in RequestsAt(pc'[u])
  BY <1>1 DEF TabInv
<1> QED BY <1>1, <1>2, <1>3 DEF TabInv

LEMMA ShowKeepsTabs ==
    ASSUME TabInv, NEW t \in Tab, NEW s \in Screen \cup {Elsewhere}, Show(t, s)
    PROVE  TabInv'
<1>1. /\ pc' = [pc EXCEPT ![t] = "idle"]
      /\ loc' = [loc EXCEPT ![t] = NoCache]
      /\ req' = [req EXCEPT ![t] = NoRequest]
      /\ screen' = [screen EXCEPT ![t] = s]
  BY DEF Show
<1>2. NoCache \in CopiesAt("idle") /\ NoRequest \in RequestsAt("idle")
  BY AskPagesType DEF CopiesAt, RequestsAt, Copy
<1>3. "idle" \in Label /\ NoCache \in Copy /\ NoRequest \in Request
  BY AskPagesType DEF Label, Copy
<1>4. \A u \in Tab : loc'[u] \in CopiesAt(pc'[u]) /\ req'[u] \in RequestsAt(pc'[u])
  BY <1>1, <1>2 DEF TabInv
<1> QED BY <1>1, <1>3, <1>4 DEF TabInv

LEMMA ExitKeepsTabs ==
    ASSUME TabInv, NEW t \in Tab, Exit(t)
    PROVE  TabInv'
BY ShowKeepsTabs DEF Exit

LEMMA RedirectKeepsTabs ==
    ASSUME TabInv, NEW t \in Tab, NEW r \in Request, RedirectTo(t, r)
    PROVE  TabInv'
<1>1. /\ pc' = [pc EXCEPT ![t] = "redirect"]
      /\ loc' = [loc EXCEPT ![t] = NoCache]
      /\ req' = [req EXCEPT ![t] = r]
      /\ screen' = screen
  BY DEF RedirectTo
<1>2. NoCache \in CopiesAt("redirect") /\ r \in RequestsAt("redirect")
  BY DEF CopiesAt, RequestsAt, Copy
<1>3. "redirect" \in Label /\ NoCache \in Copy
  BY DEF Label, Copy
<1>4. \A u \in Tab : loc'[u] \in CopiesAt(pc'[u]) /\ req'[u] \in RequestsAt(pc'[u])
  BY <1>1, <1>2 DEF TabInv
<1> QED BY <1>1, <1>3, <1>4 DEF TabInv

LEMMA RedirectToNextKeepsTabs ==
    ASSUME TabInv, NEW t \in Tab, NEW needs \in ConsistentNeeds, NEW n \in Int,
           RedirectToNext(t, needs, n)
    PROVE  TabInv'
<1> DEFINE later == StatusPagesAfter(needs, n)
<1>1. needs.form \in Form /\ needs.selected \subseteq Need
  BY DEF ConsistentNeeds, Needs
<1>2. First(later) \subseteq Need
  BY <1>1 DEF First, StatusPagesAfter, StatusPages
<1>3. \A m \in First(later) : Ask("status", needs.form, m, FALSE) \in Request
  BY <1>1, <1>2, AskType DEF PageName
<1> QED BY <1>3, AskPagesType, RedirectKeepsTabs DEF RedirectToNext

LEMMA MishapType ==
    ASSUME spent \in Spent, NEW kind, Mishap(kind)
    PROVE  spent' \in Spent
<1>1. /\ spent.mishaps \in 0..MaxMishaps /\ spent.mishaps < MaxMishaps
      /\ MaxMishaps \in Nat
  BY SupportNeedsAssumption DEF Spent, Mishap
<1>2. spent.mishaps + 1 \in 0..MaxMishaps
  BY <1>1
<1> QED BY <1>2 DEF Spent, Mishap

LEMMA ReadStepKeepsStores ==
    ASSUME IInv, NEW t \in Tab, NEW label, ReadStep(t, label)
    PROVE  StoreInv' /\ spent' \in Spent /\ pc[t] = label
BY DEF IInv, StoreInv, ReadStep, NoWrite

LEMMA NoWriteKeepsStores ==
    ASSUME StoreInv, NoWrite
    PROVE  StoreInv'
BY DEF StoreInv, NoWrite

LEMMA SetCacheKeepsStores ==
    ASSUME IInv, NEW needs \in Copy, SetCache(needs)
    PROVE  StoreInv' /\ spent' \in Spent
BY DEF IInv, StoreInv, SetCache

LEMMA AtTab ==
    ASSUME IInv, NEW t \in Tab
    PROVE  /\ loc[t] \in CopiesAt(pc[t]) /\ loc[t] \in Copy
           /\ req[t] \in RequestsAt(pc[t]) /\ req[t] \in Request
           /\ req[t].need \in Need /\ req[t].edit \in BOOLEAN
           /\ req[t].form \in Form \cup {NoForm}
           /\ screen[t] \in Screen \cup {Elsewhere}
           /\ pc[t] \in Label
           /\ cache \in Copy
<1>1. req[t] \in Request
  BY DEF IInv, TabInv
<1> QED BY <1>1 DEF IInv, TabInv, StoreInv, Request

LEMMA CacheIsCopy ==
    ASSUME IInv, cache # NoCache, NEW label
    PROVE  cache \in ConsistentNeeds /\ cache \in CopiesAt(label)
BY DEF IInv, StoreInv, Copy, CopiesAt

(* A read that goes on to a step with no condition on the request. *)
LEMMA ReadCacheKeeps ==
    ASSUME IInv, NEW t \in Tab, NEW label, NEW next \in Label,
           req[t] \in RequestsAt(next), ReadCache(t, label, next)
    PROVE  IInv'
<1>1. StoreInv' /\ spent' \in Spent
  BY ReadStepKeepsStores DEF ReadCache
<1>2. TabInv'
  BY CacheIsCopy, ExitKeepsTabs, ContinueKeepsTabs DEF ReadCache, IInv
<1> QED BY <1>1, <1>2 DEF IInv

LEMMA ReadNeedKeeps ==
    ASSUME IInv, NEW t \in Tab, NEW label, NEW next \in Label,
           req[t] \in RequestsAt(next), ReadNeed(t, label, next)
    PROVE  IInv'
<1>1. StoreInv' /\ spent' \in Spent
  BY ReadStepKeepsStores DEF ReadNeed
<1>2. TabInv'
  BY CacheIsCopy, ExitKeepsTabs, ContinueKeepsTabs DEF ReadNeed, IInv
<1> QED BY <1>1, <1>2 DEF IInv

-----------------------------------------------------------------------------
(* The handlers, one step per action. *)

LEMMA StartFormKeeps ==
    ASSUME IInv, NEW t \in Tab,
           DeleteBeforeStart(t) \/ FetchNeeds(t) \/ StartForm(t)
    PROVE  IInv'
<1> USE AtTab DEF IInv
<1>1. CASE DeleteBeforeStart(t)
  <2>1. StoreInv' /\ spent' \in Spent
    BY <1>1, SetCacheKeepsStores DEF DeleteBeforeStart, Copy
  <2>2. NoCache \in CopiesAt("startFetch") /\ req[t] \in RequestsAt("startFetch")
    BY <1>1 DEF DeleteBeforeStart, CopiesAt, RequestsAt, Copy
  <2> QED BY <1>1, <2>1, <2>2, ContinueKeepsTabs DEF DeleteBeforeStart, Label
<1>2. CASE FetchNeeds(t)
  <2>1. pc[t] = "startFetch" /\ StoreInv'
    BY <1>2, NoWriteKeepsStores DEF FetchNeeds
  <2>2. CASE UNCHANGED spent /\ Continue(t, "startWrite", Started(req[t].form))
    <3>1. req[t].form \in Form /\ req[t] \in RequestsAt("startWrite")
      BY <2>1 DEF RequestsAt
    <3>2. Started(req[t].form) \in CopiesAt("startWrite")
      BY <3>1, EmptyIsConsistent, NoCacheIsNoNeeds DEF CopiesAt, Copy
    <3> QED BY <2>1, <2>2, <3>1, <3>2, ContinueKeepsTabs DEF Label
  <2>3. CASE Mishap("fault") /\ Exit(t)
    BY <2>1, <2>3, MishapType, ExitKeepsTabs
  <2> QED BY <1>2, <2>2, <2>3 DEF FetchNeeds
<1>3. CASE StartForm(t)
  <2>1. StoreInv' /\ spent' \in Spent
    BY <1>3, SetCacheKeepsStores DEF StartForm
  <2> QED BY <1>3, <2>1, AskPagesType, RedirectKeepsTabs DEF StartForm
<1> QED BY <1>1, <1>2, <1>3

LEMMA NeedsPageKeeps ==
    ASSUME IInv, NEW t \in Tab,
           \/ OpenNeeds(t) \/ GetSupportNeeds(t)
           \/ ValidateSupportNeeds(t) \/ SubmitRead(t) \/ SubmitSupportNeeds(t)
    PROVE  IInv'
<1> USE AtTab DEF IInv
<1>1. CASE OpenNeeds(t)
  <2>1. req[t] \in RequestsAt("needsSummary")
    BY DEF RequestsAt
  <2> QED BY <1>1, <2>1, ReadCacheKeeps DEF OpenNeeds, Label
<1>2. CASE GetSupportNeeds(t)
  <2>1. pc[t] = "needsSummary" /\ StoreInv'
    BY <1>2, NoWriteKeepsStores DEF GetSupportNeeds
  <2>2. Page("needs", loc[t].form, 1, req[t].edit, {}) \in Screen
    <3>1. loc[t] \in ConsistentNeeds
      BY <2>1 DEF CopiesAt, Copy
    <3>2. loc[t].form \in Form /\ 1 \in Need
      BY <3>1, SupportNeedsAssumption DEF ConsistentNeeds, Needs, Need
    <3> QED BY <3>2 DEF Page, Screen, PageName
  <2> QED BY <1>2, <2>1, <2>2, MishapType, ShowKeepsTabs, ExitKeepsTabs
          DEF GetSupportNeeds
<1>3. CASE ValidateSupportNeeds(t)
  <2>1. StoreInv' /\ spent' \in Spent /\ pc[t] = "validateRead"
    BY <1>3, ReadStepKeepsStores DEF ValidateSupportNeeds
  <2>2. CASE Valid(req[t]) /\ Continue(t, "submitRead", NoCache)
    <3>1. req[t] \in RequestsAt("submitRead") /\ NoCache \in CopiesAt("submitRead")
      BY <2>1, <2>2 DEF RequestsAt, CopiesAt, Copy
    <3> QED BY <2>1, <2>2, <3>1, ContinueKeepsTabs DEF Label
  <2> QED BY <1>3, <2>1, <2>2, AskPagesType, ExitKeepsTabs, RedirectKeepsTabs
          DEF ValidateSupportNeeds
<1>4. CASE SubmitRead(t)
  <2>1. req[t] \in RequestsAt("submitWrite")
    BY <1>4 DEF RequestsAt, SubmitRead, ReadCache, ReadStep
  <2> QED BY <1>4, <2>1, ReadCacheKeeps DEF SubmitRead, Label
<1>5. CASE SubmitSupportNeeds(t)
  <2> DEFINE needs == WithSelection(loc[t], req[t])
  <2>1. pc[t] = "submitWrite"
    BY <1>5 DEF SubmitSupportNeeds
  <2>2. loc[t] \in ConsistentNeeds /\ req[t] \in RequestsAt("submitWrite")
    BY <2>1 DEF CopiesAt, Copy
  <2>3. needs \in ConsistentNeeds
    BY <2>2, SelectionIsConsistent
  <2>4. SetCache(needs) /\ RedirectToNext(t, needs, 0)
    BY <1>5 DEF SubmitSupportNeeds
  <2> HIDE DEF needs
  <2> QED BY <2>3, <2>4, SetCacheKeepsStores, RedirectToNextKeepsTabs DEF Copy
<1> QED BY <1>1, <1>2, <1>3, <1>4, <1>5

LEMMA StatusPageKeeps ==
    ASSUME IInv, NEW t \in Tab,
           \/ GetSupportNeedsStatus(t)
           \/ RejectStatus(t) \/ StatusRead(t) \/ SubmitSupportNeedsStatus(t)
           \/ DeleteRead(t) \/ DeleteSupportNeed(t)
    PROVE  IInv'
<1> USE AtTab DEF IInv
<1> DEFINE n == req[t].need
<1>1. CASE GetSupportNeedsStatus(t)
  <2>1. StoreInv' /\ spent' \in Spent
    BY <1>1, ReadStepKeepsStores DEF GetSupportNeedsStatus
  <2>2. ASSUME cache # NoCache
        PROVE  Page("status", cache.form, n, req[t].edit, StatusPageBefore(cache, n)) \in Screen
    <3>1. cache.form \in Form /\ cache.selected \subseteq Need
      BY <2>2 DEF Copy, ConsistentNeeds, Needs
    <3>2. StatusPageBefore(cache, n) \subseteq Need
      BY <3>1 DEF StatusPageBefore, Last, StatusPages
    <3> QED BY <3>1, <3>2 DEF Page, Screen, PageName
  <2> QED BY <1>1, <2>1, <2>2, ExitKeepsTabs, ShowKeepsTabs DEF GetSupportNeedsStatus
<1>2. CASE RejectStatus(t)
  <2>1. StoreInv' /\ spent' \in Spent
    BY <1>2, ReadStepKeepsStores DEF RejectStatus
  <2>2. Ask("status", req[t].form, n, FALSE) \in Request
    BY AskType DEF PageName
  <2> QED BY <1>2, <2>1, <2>2, RedirectKeepsTabs DEF RejectStatus
<1>3. CASE StatusRead(t)
  <2>1. req[t] \in RequestsAt("saveWrite")
    BY DEF RequestsAt
  <2> QED BY <1>3, <2>1, ReadNeedKeeps DEF StatusRead, Label
<1>4. ASSUME NEW needs \in ConsistentNeeds, SetCache(needs),
             \/ RedirectTo(t, AskCheck)
             \/ RedirectToNext(t, needs, n)
      PROVE  IInv'
  <2>1. n \in Int
    BY SupportNeedsAssumption DEF Need
  <2> QED BY <1>4, <2>1, SetCacheKeepsStores, AskPagesType, RedirectKeepsTabs,
             RedirectToNextKeepsTabs DEF Copy
<1>5. CASE SubmitSupportNeedsStatus(t)
  <2>1. loc[t] \in ConsistentNeeds
    BY <1>5 DEF SubmitSupportNeedsStatus, CopiesAt, Copy
  <2> QED BY <1>4, <1>5, <2>1, DetailsAreConsistent DEF SubmitSupportNeedsStatus
<1>6. CASE DeleteRead(t)
  <2>1. req[t] \in RequestsAt("removeWrite")
    BY DEF RequestsAt
  <2> QED BY <1>6, <2>1, ReadNeedKeeps DEF DeleteRead, Label
<1>7. CASE DeleteSupportNeed(t)
  <2>1. loc[t] \in ConsistentNeeds
    BY <1>7 DEF DeleteSupportNeed, CopiesAt, Copy
  <2> QED BY <1>4, <1>7, <2>1, RemovalIsConsistent DEF DeleteSupportNeed
<1> QED BY <1>1, <1>2, <1>3, <1>5, <1>6, <1>7

LEMMA CheckAnswersKeeps ==
    ASSUME IInv, NEW t \in Tab,
           \/ GetCheckAnswers(t)
           \/ FinaliseRead(t) \/ PostSupportNeeds(t) \/ FinaliseSupportNeeds(t)
    PROVE  IInv'
<1> USE AtTab DEF IInv
<1>1. CASE GetCheckAnswers(t)
  <2>1. StoreInv' /\ spent' \in Spent
    BY <1>1, ReadStepKeepsStores DEF GetCheckAnswers
  <2>2. ASSUME cache # NoCache
        PROVE  Page("check", cache.form, 1, FALSE, StatusPages(cache)) \in Screen
    <3>1. cache.form \in Form /\ StatusPages(cache) \subseteq Need /\ 1 \in Need
      BY <2>2, SupportNeedsAssumption
         DEF Copy, ConsistentNeeds, Needs, StatusPages, Need
    <3> QED BY <3>1 DEF Page, Screen, PageName
  <2> QED BY <1>1, <2>1, <2>2, ExitKeepsTabs, ShowKeepsTabs DEF GetCheckAnswers
<1>2. CASE FinaliseRead(t)
  <2>1. req[t] \in RequestsAt("finalPost")
    BY DEF RequestsAt
  <2> QED BY <1>2, <2>1, ReadCacheKeeps DEF FinaliseRead, Label
<1>3. CASE PostSupportNeeds(t)
  <2>1. loc[t].form \in Form
    BY <1>3 DEF PostSupportNeeds, CopiesAt, Copy, ConsistentNeeds, Needs
  <2>2. StoreInv'
    BY <1>3, <2>1 DEF PostSupportNeeds, StoreInv
  <2>3. CASE UNCHANGED spent /\ Continue(t, "finalDelete", NoCache)
    <3>1. NoCache \in CopiesAt("finalDelete") /\ req[t] \in RequestsAt("finalDelete")
      BY DEF RequestsAt, CopiesAt, Copy
    <3> QED BY <2>2, <2>3, <3>1, ContinueKeepsTabs DEF Label
  <2> QED BY <1>3, <2>2, <2>3, MishapType, ExitKeepsTabs DEF PostSupportNeeds
<1>4. CASE FinaliseSupportNeeds(t)
  <2>1. StoreInv' /\ spent' \in Spent
    BY <1>4, SetCacheKeepsStores DEF FinaliseSupportNeeds, Copy
  <2> QED BY <1>4, <2>1, ExitKeepsTabs DEF FinaliseSupportNeeds
<1> QED BY <1>1, <1>2, <1>3, <1>4

LEMMA HandleKeeps ==
    ASSUME IInv, NEW t \in Tab, Handle(t)
    PROVE  IInv'
BY StartFormKeeps, NeedsPageKeeps, StatusPageKeeps, CheckAnswersKeeps DEF Handle

-----------------------------------------------------------------------------
(* The user and the rest of the environment. *)

LEMMA BegunType ==
    ASSUME spent \in Spent
    PROVE  /\ Begun \in Spent
           /\ Begun.requests = spent.requests /\ Begun.mishaps = spent.mishaps
           /\ Begun.strayed = spent.strayed
           /\ Begun.overlapped = (spent.overlapped \/ \E u \in Tab : InFlight(u))
<1> DEFINE b == spent.overlapped \/ \E u \in Tab : InFlight(u)
<1>1. b \in BOOLEAN /\ Begun = [spent EXCEPT !.overlapped = b]
  BY DEF Begun
<1>2. b = (spent.overlapped \/ \E u \in Tab : InFlight(u))
  OBVIOUS
<1> HIDE DEF b
<1>3. /\ Begun \in Spent
      /\ Begun.requests = spent.requests /\ Begun.mishaps = spent.mishaps
      /\ Begun.strayed = spent.strayed /\ Begun.overlapped = b
  BY <1>1 DEF Spent
<1> QED BY <1>2, <1>3

LEMMA CountedType ==
    ASSUME spent \in Spent, MaxRequests > 0 => spent.requests < MaxRequests
    PROVE  Counted \in Spent /\ [Counted EXCEPT !.strayed = TRUE] \in Spent
<1>1. MaxRequests \in Nat /\ spent.requests \in 0..MaxRequests
  BY SupportNeedsAssumption DEF Spent
<1>2. MaxRequests # 0 => spent.requests + 1 \in 0..MaxRequests
  BY <1>1
<1>3. Begun \in Spent /\ Begun.requests = spent.requests
  BY BegunType
<1> HIDE DEF Begun
<1> QED BY <1>2, <1>3 DEF Counted, Spent

LEMMA SendKeepsTabs ==
    ASSUME IInv, NEW t \in Tab, NEW label \in Label, NEW r \in RequestsAt(label),
           label \in {"startDelete", "needsRead", "validateRead", "statusRead",
                      "saveRead", "removeRead", "checkRead", "finalRead"},
           Send(t, label, r)
    PROVE  /\ TabInv'
           /\ cache' = cache /\ api' = api
           /\ Counted \in Spent /\ [Counted EXCEPT !.strayed = TRUE] \in Spent
<1>1. /\ pc' = [pc EXCEPT ![t] = label]
      /\ req' = [req EXCEPT ![t] = r]
      /\ loc' = loc /\ screen' = screen
  BY DEF Send
<1>2. r \in Request
  BY DEF RequestsAt
<1>3. loc[t] \in CopiesAt(label)
  BY AtTab DEF CopiesAt
<1>4. \A u \in Tab : loc'[u] \in CopiesAt(pc'[u]) /\ req'[u] \in RequestsAt(pc'[u])
  BY <1>1, <1>3 DEF IInv, TabInv
<1>5. TabInv'
  BY <1>1, <1>2, <1>4 DEF IInv, TabInv
<1> QED BY <1>5, CountedType DEF Send, IInv

LEMMA FirstStepReads ==
    ASSUME NEW r \in Request
    PROVE  FirstStep(r) \in {"needsRead", "statusRead", "checkRead"}
<1>1. r.page \in {"needs", "status", "check"}
  BY DEF Request, PageName
<1> QED BY <1>1 DEF FirstStep

(* The requests that the links of the page shown send. *)
LEMMA LinkRequests ==
    ASSUME IInv, NEW t \in Tab
    PROVE  /\ AskNeeds(TRUE) \in Request /\ AskNeeds(FALSE) \in Request
           /\ AskCheck \in Request /\ Ask("status", NoForm, 1, FALSE) \in Request
           /\ screen[t] # Elsewhere =>
                 \A n \in screen[t].links, edit \in BOOLEAN :
                    Ask("status", screen[t].form, n, edit) \in Request
<1>1. 1 \in Need
  BY SupportNeedsAssumption DEF Need
<1>2. screen[t] # Elsewhere => screen[t].form \in Form /\ screen[t].links \subseteq Need
  BY AtTab DEF Screen
<1> QED BY <1>1, <1>2, AskType, AskPagesType DEF PageName

(* A request that asks for a page. *)
LEMMA AskingKeeps ==
    ASSUME IInv, NEW t \in Tab, NEW r \in Request, Send(t, FirstStep(r), r),
           UNCHANGED forms,
           spent' = Counted \/ spent' = [Counted EXCEPT !.strayed = TRUE]
    PROVE  IInv'
<1>1. FirstStep(r) \in {"needsRead", "statusRead", "checkRead"}
  BY FirstStepReads
<1>2. FirstStep(r) \in Label /\ r \in RequestsAt(FirstStep(r))
  BY <1>1 DEF RequestsAt, Label
<1>3. /\ TabInv' /\ cache' = cache /\ api' = api
      /\ Counted \in Spent /\ [Counted EXCEPT !.strayed = TRUE] \in Spent
  BY <1>1, <1>2, SendKeepsTabs
<1> QED BY <1>3 DEF IInv, StoreInv

LEMMA UseKeeps ==
    ASSUME IInv, NEW t \in Tab, Use(t)
    PROVE  IInv'
<1> USE AtTab
<1>0. ASSUME NEW label \in {"validateRead", "saveRead", "removeRead", "finalRead"},
             NEW r \in RequestsAt(label), Send(t, label, r),
             UNCHANGED forms, spent' = Counted
      PROVE  IInv'
  <2>1. TabInv' /\ cache' = cache /\ api' = api /\ Counted \in Spent
    BY <1>0, SendKeepsTabs DEF Label
  <2> QED BY <1>0, <2>1 DEF IInv, StoreInv
<1>p. ASSUME screen[t] # Elsewhere
      PROVE  /\ screen[t].form \in Form /\ screen[t].need \in Need
             /\ screen[t].edit \in BOOLEAN /\ screen[t].links \subseteq Need
             /\ ThisNeed(t) \in Request
  <2>1. /\ screen[t].form \in Form /\ screen[t].need \in Need
        /\ screen[t].edit \in BOOLEAN /\ screen[t].links \subseteq Need
    BY <1>p DEF Screen
  <2> QED BY <2>1, AskType DEF ThisNeed, PageName
<1>1. CASE Start(t)
  <2> DEFINE r == Ask("needs", forms + 1, 1, FALSE)
  <2>1. /\ forms < MaxForms /\ forms' = forms + 1 /\ spent' = Counted
        /\ Send(t, "startDelete", r)
    BY <1>1 DEF Start
  <2>2. forms + 1 \in Form /\ forms + 1 \in 0..MaxForms /\ 1 \in Need
    BY <2>1, SupportNeedsAssumption DEF IInv, StoreInv, Form, Need
  <2>3. r \in Request /\ r.form = forms + 1
    BY <2>2, AskType DEF PageName, Ask
  <2> HIDE DEF r
  <2>4. r \in RequestsAt("startDelete")
    BY <2>2, <2>3 DEF RequestsAt
  <2>5. TabInv' /\ cache' = cache /\ api' = api /\ Counted \in Spent
    BY <2>1, <2>4, SendKeepsTabs DEF Label
  <2> QED BY <2>1, <2>2, <2>5 DEF IInv, StoreInv
<1>2. CASE SubmitNeeds(t)
  <2>1. screen[t] # Elsewhere /\ UNCHANGED forms /\ spent' = Counted
    BY <1>2 DEF SubmitNeeds, Shows
  <2>2. PICK chosen \in SUBSET Need, described \in SUBSET AllowUserDesc :
           /\ Exclusive(chosen)
           /\ Send(t, "validateRead",
                   [Ask("needs", screen[t].form, 1, FALSE)
                       EXCEPT !.chosen = chosen, !.described = described])
    BY <1>2 DEF SubmitNeeds
  <2> DEFINE q == Ask("needs", screen[t].form, 1, FALSE)
             r == [q EXCEPT !.chosen = chosen, !.described = described]
  <2>3. 1 \in Need /\ described \subseteq Need
    BY SupportNeedsAssumption DEF Need
  <2>4. q \in Request
    BY <1>p, <2>1, <2>3, AskType DEF PageName
  <2> HIDE DEF q
  <2>5. r \in Request /\ r.chosen = chosen
    BY <2>3, <2>4 DEF Request
  <2>6. Send(t, "validateRead", r)
    BY <2>2 DEF q
  <2> HIDE DEF r
  <2>7. r \in RequestsAt("validateRead")
    BY <2>2, <2>5 DEF RequestsAt
  <2> QED BY <1>0, <2>1, <2>6, <2>7
<1>3. CASE SaveStatus(t)
  <2>1. screen[t] # Elsewhere /\ UNCHANGED forms /\ spent' = Counted
    BY <1>3 DEF SaveStatus, Shows
  <2>2. PICK valid \in BOOLEAN : Send(t, "saveRead", [ThisNeed(t) EXCEPT !.valid = valid])
    BY <1>3 DEF SaveStatus
  <2>3. [ThisNeed(t) EXCEPT !.valid = valid] \in RequestsAt("saveRead")
    BY <1>p, <2>1 DEF Request, RequestsAt
  <2> QED BY <1>0, <2>1, <2>2, <2>3
<1>4. CASE RemoveNeed(t)
  <2>1. ThisNeed(t) \in RequestsAt("removeRead")
    BY <1>4, <1>p DEF RequestsAt, RemoveNeed, Shows
  <2> QED BY <1>0, <1>4, <2>1 DEF RemoveNeed
<1>5. CASE Confirm(t)
  <2>1. AskCheck \in RequestsAt("finalRead")
    BY AskPagesType DEF RequestsAt
  <2> QED BY <1>0, <1>5, <2>1 DEF Confirm
<1>6. ASSUME NEW r \in Request, Follow(t, r)
      PROVE  IInv'
  BY <1>6, AskingKeeps DEF Follow
<1>7. CASE AddNeeds(t)
  BY <1>6, <1>7, AskPagesType DEF AddNeeds
<1>8. ASSUME screen[t] # Elsewhere, NEW n \in screen[t].links, NEW edit \in BOOLEAN
      PROVE  Ask("status", screen[t].form, n, edit) \in Request
  BY <1>8, <1>p, AskType DEF PageName
<1>9. CASE Change(t)
  BY <1>6, <1>8, <1>9 DEF Change, Shows
<1>10. CASE Back(t)
  <2>1. Ask("status", NoForm, 1, FALSE) \in Request
    <3>1. 1 \in Need
      BY SupportNeedsAssumption DEF Need
    <3> QED BY <3>1, AskType DEF PageName
  <2>2. Last(screen[t].links) \subseteq screen[t].links
    BY DEF Last
  <2> QED BY <1>6, <1>8, <1>10, <2>1, <2>2, AskPagesType DEF Back
<1>11. CASE Revisit(t)
  <2>1. \A f \in 1..forms, n \in Updatable, edit \in BOOLEAN :
           Ask("status", f, n, edit) \in Request
    <3>1. 1..forms \subseteq Form
      BY SupportNeedsAssumption DEF IInv, StoreInv, Form
    <3> QED BY <3>1, SupportNeedsAssumption, AskType DEF PageName
  <2>2. PICK r \in Request : Send(t, FirstStep(r), r)
    BY <1>11, <2>1, AskPagesType DEF Revisit
  <2> QED BY <1>11, <2>2, AskingKeeps DEF Revisit
<1>12. CASE Leave(t)
  <2>1. TabInv'
    BY <1>12 DEF Leave, IInv, TabInv
  <2> QED BY <1>12, <2>1 DEF Leave, IInv, StoreInv
<1>13. CASE FollowRedirect(t)
  <2>1. req[t].page \in {"needs", "status", "check"}
    BY DEF Request, PageName
  <2> DEFINE label == FirstStep(req[t])
  <2>2. label \in {"needsRead", "statusRead", "checkRead"}
    BY <2>1 DEF FirstStep
  <2>3. /\ pc' = [pc EXCEPT ![t] = label]
        /\ UNCHANGED <<cache, forms, api, screen, req, loc>>
        /\ spent' \in Spent
    BY <1>13, BegunType DEF FollowRedirect, IInv
  <2> HIDE DEF label
  <2>4. label \in Label /\ req[t] \in RequestsAt(label) /\ loc[t] \in CopiesAt(label)
    BY <2>2 DEF Label, RequestsAt, CopiesAt
  <2>5. TabInv'
    BY <2>3, <2>4 DEF IInv, TabInv
  <2> QED BY <2>3, <2>5 DEF IInv, StoreInv
<1>14. CASE AbandonRedirect(t)
  <2>1. TabInv' /\ StoreInv'
    BY <1>14, ShowKeepsTabs, NoWriteKeepsStores DEF AbandonRedirect, IInv
  <2>2. spent' \in Spent
    BY <1>14 DEF AbandonRedirect, IInv, Spent
  <2> QED BY <2>1, <2>2 DEF IInv
<1>15. ASSUME NEW u \in Tab, ClickAgain(t, u)
       PROVE  IInv'
  <2>1. TabInv'
    BY <1>15 DEF ClickAgain, IInv, TabInv
  <2> QED BY <1>15, <2>1 DEF ClickAgain, IInv, StoreInv
<1> QED BY <1>1, <1>2, <1>3, <1>4, <1>5, <1>7, <1>9, <1>10, <1>11, <1>12, <1>13, <1>14,
           <1>15 DEF Use

LEMMA EnvironmentKeeps ==
    ASSUME IInv, ExpireCache \/ \E t \in Tab : Crash(t)
    PROVE  IInv'
<1>1. CASE ExpireCache
  <2>1. StoreInv' /\ spent' \in Spent
    BY <1>1, MishapType DEF ExpireCache, IInv, StoreInv, Copy
  <2>2. TabInv'
    BY <1>1 DEF ExpireCache, IInv, TabInv
  <2> QED BY <2>1, <2>2 DEF IInv
<1>2. ASSUME NEW t \in Tab, Crash(t)
      PROVE  IInv'
  BY <1>2, MishapType, ExitKeepsTabs, NoWriteKeepsStores DEF Crash, IInv
<1> QED BY <1>1, <1>2

-----------------------------------------------------------------------------
LEMMA InitInvariant == Init => IInv
<1> SUFFICES ASSUME Init PROVE IInv
  OBVIOUS
<1>1. StoreInv
  BY SupportNeedsAssumption DEF Init, StoreInv, Copy
<1>2. NoCache \in CopiesAt("idle") /\ NoRequest \in RequestsAt("idle") /\ NoRequest \in Request
  BY AskPagesType DEF CopiesAt, RequestsAt, Copy
<1>3. TabInv
  BY <1>2 DEF Init, TabInv, Copy, Label
<1>4. spent \in Spent
  BY SupportNeedsAssumption DEF Init, Spent
<1> QED BY <1>1, <1>3, <1>4 DEF IInv

LEMMA StepInvariant == IInv /\ [Next]_vars => IInv'
<1> SUFFICES ASSUME IInv, [Next]_vars PROVE IInv'
  OBVIOUS
<1>1. CASE UNCHANGED vars
  BY <1>1 DEF vars, IInv, StoreInv, TabInv
<1>2. CASE Next
  BY <1>2, HandleKeeps, UseKeeps, EnvironmentKeeps DEF Next
<1> QED BY <1>1, <1>2

(* The cache, every handler's copy of it and every post under way stay     *)
(* consistent with each other.                                             *)
THEOREM NeedsInvariant == Spec => []IInv
BY InitInvariant, StepInvariant, PTL DEF Spec

(* Every step of every handler keeps the types of the form's state.        *)
THEOREM TypeCorrect == Spec => []TypeOK
<1>1. IInv => TypeOK
  BY DEF IInv, StoreInv, TabInv, TypeOK, Copy, ConsistentNeeds
<1> QED BY <1>1, NeedsInvariant, PTL

(* No interleaving of posts and removals selects a section's "No support   *)
(* needs identified" option together with one of its needs.                *)
THEOREM NoNeedsExclusive == Spec => []NoNeedsIsExclusive
<1>1. IInv => NoNeedsIsExclusive
  BY DEF IInv, StoreInv, NoNeedsIsExclusive, Copy, ConsistentNeeds
<1> QED BY <1>1, NeedsInvariant, PTL

(* Nor does any leave a selected "Other" need without its text: a post is  *)
(* validated before it is written, and a removal takes need and text away  *)
(* together.                                                               *)
THEOREM OtherNeedsDescribed == Spec => []OtherNeedsAreDescribed
<1>1. IInv => OtherNeedsAreDescribed
  BY DEF IInv, StoreInv, OtherNeedsAreDescribed, Copy, ConsistentNeeds
<1> QED BY <1>1, NeedsInvariant, PTL
-----------------------------------------------------------------------------
(* SectionsStayAnswered, for every number of tabs.                         *)
(*                                                                         *)
(* While there has been one form, everything is of that form.  Nothing is  *)
(* selected when it starts, and then no tab shows or holds anything of it. *)
(* A post that is written answers every section, and a status page is only *)
(* shown of a need that is selected: so the copies that the posts of       *)
(* status pages write back, however old, answer every section too.         *)

Starting == {"startDelete", "startFetch", "startWrite"}
Posting == {"validateRead", "submitRead", "submitWrite"}
Asking == {"idle", "redirect", "needsRead", "statusRead", "checkRead"}
StatusPosts == {"saveRead", "saveWrite", "removeRead", "removeWrite"}

(* A tab that shows s, and whose request is before the step label. *)
OnStatus(s, label) == (s # Elsewhere /\ s.page = "status") \/ label \in StatusPosts
Apart(s, label) == s = Elsewhere /\ label \in Asking \cup Starting

(* Nothing of a form is cached, shown or under way. *)
Untouched == cache = NoCache /\ \A u \in Tab : Apart(screen[u], pc[u])

(* What a tab has of the first form. *)
OfFirst(s, label, r, needs) ==
    /\ s # Elsewhere => s.form = 1
    /\ needs # NoCache => needs.form = 1
    /\ label \in Posting \cup {"startDelete", "startFetch"} => r.form = 1
    /\ label = "startWrite" => needs.selected = {}
    /\ label \in {"saveWrite", "removeWrite"} => SectionsAnswered(needs.selected)

FirstFormInv ==
    forms <= 1 =>
        /\ forms = 0 => Untouched /\ \A u \in Tab : pc[u] \notin Starting
        /\ \A t \in Tab : pc[t] \in Starting =>
              Untouched /\ \A u \in Tab : pc[u] \in Starting => u = t
        /\ cache # NoCache =>
              /\ cache.form = 1
              /\ cache.selected = {} \/ SectionsAnswered(cache.selected)
        /\ \A t \in Tab : OnStatus(screen[t], pc[t]) /\ cache # NoCache =>
              SectionsAnswered(cache.selected)
        /\ \A t \in Tab : OfFirst(screen[t], pc[t], req[t], loc[t])

(* A step leaves tab t so, and the others alone. *)
Leaves(t, s, label, r, needs) ==
    \A u \in Tab : /\ screen'[u] = IF u = t THEN s ELSE screen[u]
                   /\ pc'[u] = IF u = t THEN label ELSE pc[u]
                   /\ req'[u] = IF u = t THEN r ELSE req[u]
                   /\ loc'[u] = IF u = t THEN needs ELSE loc[u]

LEMMA EndingsLeave ==
    ASSUME IInv, NEW t \in Tab
    PROVE  /\ \A label, needs : Continue(t, label, needs) =>
                 Leaves(t, screen[t], label, req[t], needs)
           /\ \A s : Show(t, s) => Leaves(t, s, "idle", NoRequest, NoCache)
           /\ Exit(t) => Leaves(t, Elsewhere, "idle", NoRequest, NoCache)
           /\ \A r : RedirectTo(t, r) => Leaves(t, screen[t], "redirect", r, NoCache)
           /\ \A label, r : Send(t, label, r) => Leaves(t, screen[t], label, r, loc[t])
BY DEF IInv, TabInv, Leaves, Continue, Exit, Show, RedirectTo, Send

(* A step that writes no form. *)
LEMMA QuietKeepsFirst ==
    ASSUME IInv, FirstFormInv, forms <= 1, forms' = forms, cache' \in {cache, NoCache},
           NEW t \in Tab, NEW s, NEW label, NEW r, NEW needs, Leaves(t, s, label, r, needs),
           label \in Starting => pc[t] \in Starting,
           Untouched => Apart(s, label),
           OnStatus(s, label) /\ cache # NoCache => SectionsAnswered(cache.selected),
           OfFirst(s, label, r, needs)
    PROVE  FirstFormInv'
<1>1. \A u \in Tab : /\ screen'[u] = IF u = t THEN s ELSE screen[u]
                     /\ pc'[u] = IF u = t THEN label ELSE pc[u]
                     /\ req'[u] = IF u = t THEN r ELSE req[u]
                     /\ loc'[u] = IF u = t THEN needs ELSE loc[u]
  BY DEF Leaves
<1>2. Untouched => Untouched'
  BY <1>1 DEF Untouched
<1>3. \A u \in Tab : pc'[u] \in Starting => pc[u] \in Starting
  BY <1>1
<1>4. (forms = 0 => Untouched /\ \A u \in Tab : pc[u] \notin Starting)'
  BY <1>2, <1>3 DEF FirstFormInv
<1>5. (\A v \in Tab : pc[v] \in Starting =>
              Untouched /\ \A u \in Tab : pc[u] \in Starting => u = v)'
  BY <1>2, <1>3 DEF FirstFormInv
<1>6. (cache # NoCache => /\ cache.form = 1
                          /\ cache.selected = {} \/ SectionsAnswered(cache.selected))'
  BY DEF FirstFormInv
<1>7. (\A v \in Tab : OnStatus(screen[v], pc[v]) /\ cache # NoCache =>
              SectionsAnswered(cache.selected))'
  BY <1>1 DEF FirstFormInv
<1>8. (\A v \in Tab : OfFirst(screen[v], pc[v], req[v], loc[v]))'
  BY <1>1 DEF FirstFormInv
<1> QED BY <1>4, <1>5, <1>6, <1>7, <1>8 DEF FirstFormInv

(* A step that writes a form back and redirects. *)
LEMMA WritingKeepsFirst ==
    ASSUME IInv, FirstFormInv, forms <= 1, NEW t \in Tab, NEW needs, SetCache(needs),
           pc[t] \notin Asking \cup Starting, needs.form = 1,
           SectionsAnswered(needs.selected),
           NEW r, RedirectTo(t, r)
    PROVE  FirstFormInv'
<1>1. cache' = needs /\ forms' = forms
  BY DEF SetCache
<1>2. Leaves(t, screen[t], "redirect", r, NoCache)
  BY EndingsLeave
<1>3. \A u \in Tab : /\ screen'[u] = screen[u]
                     /\ pc'[u] = IF u = t THEN "redirect" ELSE pc[u]
                     /\ req'[u] = IF u = t THEN r ELSE req[u]
                     /\ loc'[u] = IF u = t THEN NoCache ELSE loc[u]
  BY <1>2 DEF Leaves
<1>4. ~Untouched
  BY DEF Untouched, Apart
<1>5. forms # 0 /\ \A u \in Tab : pc[u] \notin Starting
  BY <1>4 DEF FirstFormInv
<1>6. \A u \in Tab : pc'[u] \notin Starting
  BY <1>3, <1>5 DEF Starting
<1>7. \A u \in Tab : OfFirst(screen'[u], pc'[u], req'[u], loc'[u])
  <2>1. \A u \in Tab : OfFirst(screen[u], pc[u], req[u], loc[u])
    BY DEF FirstFormInv
  <2>2. OfFirst(screen[t], "redirect", r, NoCache)
    BY <2>1 DEF OfFirst, Posting
  <2> QED BY <1>3, <2>1, <2>2
<1> QED BY <1>1, <1>5, <1>6, <1>7 DEF FirstFormInv

(* The facts of FirstFormInv about one tab. *)
LEMMA FirstAtTab ==
    ASSUME FirstFormInv, forms <= 1, NEW t \in Tab
    PROVE  /\ OfFirst(screen[t], pc[t], req[t], loc[t])
           /\ pc[t] \in Starting => Untouched
           /\ OnStatus(screen[t], pc[t]) /\ cache # NoCache =>
                 SectionsAnswered(cache.selected)
           /\ cache # NoCache =>
                 /\ cache.form = 1
                 /\ cache.selected = {} \/ SectionsAnswered(cache.selected)
           /\ Untouched => Apart(screen[t], pc[t]) /\ cache = NoCache
BY DEF FirstFormInv, Untouched


(* The quiet steps, by how they end. *)

LEMMA ContinueKeepsFirst ==
    ASSUME IInv, FirstFormInv, forms <= 1, forms' = forms, cache' \in {cache, NoCache},
           NEW t \in Tab, NEW label, NEW needs, Continue(t, label, needs),
           label \in Starting => pc[t] \in Starting,
           Untouched => label \in Asking \cup Starting,
           label \in StatusPosts => pc[t] \in StatusPosts,
           OfFirst(screen[t], label, req[t], needs)
    PROVE  FirstFormInv'
<1>1. Leaves(t, screen[t], label, req[t], needs)
  BY EndingsLeave
<1>2. OnStatus(screen[t], label) => OnStatus(screen[t], pc[t])
  BY DEF OnStatus
<1>3. Untouched => Apart(screen[t], label)
  BY FirstAtTab DEF Apart
<1>4. OnStatus(screen[t], label) /\ cache # NoCache => SectionsAnswered(cache.selected)
  BY <1>2, FirstAtTab
<1> QED BY <1>1, <1>3, <1>4, QuietKeepsFirst

LEMMA ShowKeepsFirst ==
    ASSUME IInv, FirstFormInv, forms <= 1, forms' = forms, cache' \in {cache, NoCache},
           NEW t \in Tab, NEW s, Show(t, s),
           s # Elsewhere => ~Untouched /\ s.form = 1,
           s # Elsewhere /\ cache # NoCache /\ s.page = "status" =>
              SectionsAnswered(cache.selected)
    PROVE  FirstFormInv'
<1>1. Leaves(t, s, "idle", NoRequest, NoCache)
  BY EndingsLeave
<1>2. /\ "idle" \notin Starting /\ "idle" \notin StatusPosts /\ "idle" \in Asking
      /\ "idle" \notin Posting
  BY DEF Starting, StatusPosts, Asking, Posting
<1>3. OfFirst(s, "idle", NoRequest, NoCache)
  BY <1>2 DEF OfFirst
<1>4. OnStatus(s, "idle") /\ cache # NoCache => SectionsAnswered(cache.selected)
  BY <1>2 DEF OnStatus
<1>5. Untouched => Apart(s, "idle")
  BY <1>2 DEF Apart
<1> QED BY <1>1, <1>2, <1>3, <1>4, <1>5, QuietKeepsFirst

LEMMA ExitKeepsFirst ==
    ASSUME IInv, FirstFormInv, forms <= 1, forms' = forms, cache' \in {cache, NoCache},
           NEW t \in Tab, Exit(t)
    PROVE  FirstFormInv'
BY ShowKeepsFirst DEF Exit

LEMMA RedirectKeepsFirst ==
    ASSUME IInv, FirstFormInv, forms <= 1, forms' = forms, cache' \in {cache, NoCache},
           NEW t \in Tab, NEW r, RedirectTo(t, r)
    PROVE  FirstFormInv'
<1>1. Leaves(t, screen[t], "redirect", r, NoCache)
  BY EndingsLeave
<1>2. /\ "redirect" \notin Starting /\ "redirect" \notin StatusPosts /\ "redirect" \in Asking
      /\ "redirect" \notin Posting
  BY DEF Starting, StatusPosts, Asking, Posting
<1>3. OfFirst(screen[t], "redirect", r, NoCache)
  BY <1>2, FirstAtTab DEF OfFirst
<1>4. OnStatus(screen[t], "redirect") => OnStatus(screen[t], pc[t])
  BY <1>2 DEF OnStatus
<1>5. Untouched => Apart(screen[t], "redirect")
  BY <1>2, FirstAtTab DEF Apart
<1>6. OnStatus(screen[t], "redirect") /\ cache # NoCache => SectionsAnswered(cache.selected)
  BY <1>4, FirstAtTab
<1> QED BY <1>1, <1>2, <1>3, <1>5, <1>6, QuietKeepsFirst

LEMMA SendKeepsFirst ==
    ASSUME IInv, FirstFormInv, forms <= 1, forms' = forms,
           NEW t \in Tab, NEW label, NEW r, Send(t, label, r),
           label \notin Starting \cup {"saveWrite", "removeWrite"},
           label \notin Asking => screen[t] # Elsewhere,
           label \in StatusPosts => screen[t].page = "status",
           label \in Posting => r.form = 1
    PROVE  FirstFormInv'
<1>1. Leaves(t, screen[t], label, r, loc[t]) /\ cache' = cache
  BY EndingsLeave DEF Send
<1>2. OfFirst(screen[t], label, r, loc[t])
  BY FirstAtTab DEF OfFirst, Starting
<1>3. OnStatus(screen[t], label) => OnStatus(screen[t], pc[t])
  BY DEF OnStatus, StatusPosts, Asking
<1>4. Untouched => Apart(screen[t], label)
  BY FirstAtTab DEF Apart
<1>5. OnStatus(screen[t], label) /\ cache # NoCache => SectionsAnswered(cache.selected)
  BY <1>3, FirstAtTab
<1> QED BY <1>1, <1>2, <1>4, <1>5, QuietKeepsFirst

(* A removal leaves every section answered: it puts the option back. *)
LEMMA RemovalAnswers ==
    ASSUME NEW needs \in Needs, NEW n \in Need, SectionsAnswered(needs.selected)
    PROVE  SectionsAnswered(Without(needs, n).selected)
<1> DEFINE s == SectionOf[n]
           left == needs.selected \ {n}
           selected == IF Answered(s, left) THEN left ELSE left \cup NoNeedsOptions(s)
<1>1. Without(needs, n).selected = selected
  BY DEF Without, Needs
<1>2. ASSUME NEW x \in Section, NoNeedsOptions(x) # {}
      PROVE  Answered(x, selected)
  <2>1. PICK m \in needs.selected : SectionOf[m] = x
    BY <1>2 DEF SectionsAnswered, Answered
  <2>2. CASE m # n
    BY <2>1, <2>2 DEF Answered
  <2>3. CASE m = n
    <3>1. PICK o \in NoNeedsOptions(s) : SectionOf[o] = x
      BY <1>2, <2>1, <2>3 DEF NoNeedsOptions
    <3> QED BY <2>1, <2>3, <3>1 DEF Answered
  <2> QED BY <2>2, <2>3
<1> HIDE DEF selected
<1> QED BY <1>1, <1>2 DEF SectionsAnswered

(* What the three handlers that change a form write back. *)
LEMMA WrittenAnswers ==
    ASSUME IInv, FirstFormInv, forms <= 1, NEW t \in Tab
    PROVE  /\ pc[t] = "submitWrite" =>
                 /\ WithSelection(loc[t], req[t]).form = 1
                 /\ SectionsAnswered(WithSelection(loc[t], req[t]).selected)
           /\ pc[t] = "saveWrite" =>
                 /\ WithDetails(loc[t], req[t].need).form = 1
                 /\ SectionsAnswered(WithDetails(loc[t], req[t].need).selected)
           /\ pc[t] = "removeWrite" =>
                 /\ Without(loc[t], req[t].need).form = 1
                 /\ SectionsAnswered(Without(loc[t], req[t].need).selected)
<1>1. ASSUME pc[t] \in {"submitWrite", "saveWrite", "removeWrite"}
      PROVE  loc[t] \in Needs /\ loc[t].form = 1 /\ req[t].need \in Need
  BY <1>1, AtTab, FirstAtTab DEF OfFirst, CopiesAt, Copy, ConsistentNeeds
<1>2. ASSUME pc[t] = "submitWrite"
      PROVE  /\ WithSelection(loc[t], req[t]).form = 1
             /\ SectionsAnswered(WithSelection(loc[t], req[t]).selected)
  <2>1. req[t].form = 1 /\ Valid(req[t])
    BY <1>2, AtTab, FirstAtTab DEF OfFirst, RequestsAt, Posting
  <2>2. /\ WithSelection(loc[t], req[t]).form = 1
        /\ WithSelection(loc[t], req[t]).selected = req[t].chosen
    BY <1>1, <1>2, <2>1 DEF WithSelection, Needs
  <2> QED BY <2>1, <2>2 DEF Valid, SectionsAnswered
<1>3. ASSUME pc[t] = "saveWrite"
      PROVE  /\ WithDetails(loc[t], req[t].need).form = 1
             /\ SectionsAnswered(WithDetails(loc[t], req[t].need).selected)
  <2>1. WithDetails(loc[t], req[t].need).selected = loc[t].selected
    BY <1>1, <1>3 DEF WithDetails, Needs
  <2> QED BY <1>1, <1>3, <2>1, FirstAtTab DEF OfFirst, WithDetails, Needs
<1>4. ASSUME pc[t] = "removeWrite"
      PROVE  /\ Without(loc[t], req[t].need).form = 1
             /\ SectionsAnswered(Without(loc[t], req[t].need).selected)
  <2>1. SectionsAnswered(loc[t].selected)
    BY <1>4, FirstAtTab DEF OfFirst
  <2> QED BY <1>1, <1>4, <2>1, RemovalAnswers DEF Without, Needs
<1> QED BY <1>2, <1>3, <1>4

(* The steps of the handlers. *)

LEMMA StartFormKeepsFirst ==
    ASSUME IInv, FirstFormInv, forms <= 1, NEW t \in Tab,
           DeleteBeforeStart(t) \/ FetchNeeds(t) \/ StartForm(t)
    PROVE  FirstFormInv'
<1>1. CASE DeleteBeforeStart(t)
  <2>1. /\ pc[t] = "startDelete" /\ cache' = NoCache /\ forms' = forms
        /\ Continue(t, "startFetch", NoCache)
    BY <1>1 DEF DeleteBeforeStart, SetCache
  <2>2. OfFirst(screen[t], "startFetch", req[t], NoCache)
    BY <2>1, FirstAtTab DEF OfFirst
  <2> QED BY <2>1, <2>2, ContinueKeepsFirst DEF Starting, StatusPosts
<1>2. CASE FetchNeeds(t)
  <2>1. pc[t] = "startFetch" /\ cache' = cache /\ forms' = forms
    BY <1>2 DEF FetchNeeds, NoWrite
  <2>2. CASE Continue(t, "startWrite", Started(req[t].form))
    <3>1. OfFirst(screen[t], "startWrite", req[t], Started(req[t].form))
      BY <2>1, FirstAtTab DEF OfFirst, Started, Posting
    <3> QED BY <2>1, <2>2, <3>1, ContinueKeepsFirst DEF Starting, StatusPosts
  <2> QED BY <1>2, <2>1, <2>2, ExitKeepsFirst DEF FetchNeeds
<1>3. CASE StartForm(t)
  <2>1. /\ pc[t] = "startWrite" /\ cache' = loc[t] /\ forms' = forms
        /\ RedirectTo(t, AskNeeds(FALSE))
    BY <1>3 DEF StartForm, SetCache
  <2>2. Leaves(t, screen[t], "redirect", AskNeeds(FALSE), NoCache)
    BY <2>1, EndingsLeave
  <2>3. \A u \in Tab : /\ screen'[u] = screen[u]
                       /\ pc'[u] = IF u = t THEN "redirect" ELSE pc[u]
                       /\ req'[u] = IF u = t THEN AskNeeds(FALSE) ELSE req[u]
                       /\ loc'[u] = IF u = t THEN NoCache ELSE loc[u]
    BY <2>2 DEF Leaves
  <2>4. /\ forms # 0 /\ Untouched
        /\ \A u \in Tab : pc[u] \in Starting => u = t
    BY <2>1 DEF FirstFormInv, Starting
  <2>5. \A u \in Tab : pc'[u] \notin Starting /\ ~OnStatus(screen'[u], pc'[u])
    <3> SUFFICES ASSUME NEW u \in Tab
                 PROVE  pc'[u] \notin Starting /\ ~OnStatus(screen'[u], pc'[u])
      OBVIOUS
    <3>1. screen[u] = Elsewhere /\ pc[u] \in Asking \cup Starting
      BY <2>4 DEF Untouched, Apart
    <3> QED BY <2>3, <2>4, <3>1 DEF OnStatus, Asking, Starting, StatusPosts
  <2>6. \A u \in Tab : OfFirst(screen'[u], pc'[u], req'[u], loc'[u])
    <3>1. \A u \in Tab : OfFirst(screen[u], pc[u], req[u], loc[u])
      BY DEF FirstFormInv
    <3>2. OfFirst(screen[t], "redirect", AskNeeds(FALSE), NoCache)
      BY <3>1 DEF OfFirst, Posting
    <3> QED BY <2>3, <3>1, <3>2
  <2>7. loc[t] # NoCache => loc[t].form = 1 /\ loc[t].selected = {}
    BY <2>1, FirstAtTab DEF OfFirst
  <2> QED BY <2>1, <2>4, <2>5, <2>6, <2>7 DEF FirstFormInv
<1> QED BY <1>1, <1>2, <1>3

(* A handler that reads the cache: what is untouched has none. *)
LEMMA ReadingKeepsFirst ==
    ASSUME IInv, FirstFormInv, forms <= 1, NEW t \in Tab, NEW label, NEW next,
           ReadStep(t, label), next \notin Starting,
           Exit(t) \/ (cache # NoCache /\ Continue(t, next, cache)),
           next \in StatusPosts => label \in StatusPosts,
           next \in Posting => label \in Posting
    PROVE  FirstFormInv'
<1>1. pc[t] = label /\ cache' = cache /\ forms' = forms
  BY DEF ReadStep, NoWrite
<1>2. CASE Exit(t)
  BY <1>1, <1>2, ExitKeepsFirst
<1>3. CASE cache # NoCache /\ Continue(t, next, cache)
  <2>1. ~Untouched
    BY <1>3 DEF Untouched
  <2>2. next \in StatusPosts => SectionsAnswered(cache.selected)
    BY <1>1, <1>3, FirstAtTab DEF OnStatus
  <2>3. OfFirst(screen[t], next, req[t], cache)
    BY <1>1, <1>3, <2>2, FirstAtTab DEF OfFirst, Starting, StatusPosts
  <2> QED BY <1>1, <1>3, <2>1, <2>3, ContinueKeepsFirst
<1> QED BY <1>2, <1>3

LEMMA NeedsPageKeepsFirst ==
    ASSUME IInv, FirstFormInv, forms <= 1, NEW t \in Tab,
           \/ OpenNeeds(t) \/ GetSupportNeeds(t)
           \/ ValidateSupportNeeds(t) \/ SubmitRead(t) \/ SubmitSupportNeeds(t)
    PROVE  FirstFormInv'
<1>1. CASE OpenNeeds(t)
  BY <1>1, ReadingKeepsFirst DEF OpenNeeds, ReadCache, Starting, StatusPosts, Posting
<1>2. CASE GetSupportNeeds(t)
  <2> DEFINE s == Page("needs", loc[t].form, 1, req[t].edit, {})
  <2>1. /\ pc[t] = "needsSummary" /\ cache' = cache /\ forms' = forms
        /\ Exit(t) \/ Show(t, s)
    BY <1>2 DEF GetSupportNeeds, NoWrite
  <2>2. ~Untouched /\ loc[t].form = 1
    BY <2>1, AtTab, FirstAtTab DEF Apart, Asking, Starting, OfFirst, CopiesAt
  <2>3. s.form = loc[t].form /\ s.page = "needs"
    BY DEF Page
  <2> HIDE DEF s
  <2> QED BY <2>1, <2>2, <2>3, ExitKeepsFirst, ShowKeepsFirst
<1>3. CASE ValidateSupportNeeds(t)
  <2>1. pc[t] = "validateRead" /\ cache' = cache /\ forms' = forms
    BY <1>3 DEF ValidateSupportNeeds, ReadStep, NoWrite
  <2>2. CASE Exit(t) \/ RedirectTo(t, AskNeeds(FALSE))
    BY <2>1, <2>2, ExitKeepsFirst, RedirectKeepsFirst
  <2>3. CASE cache # NoCache /\ Continue(t, "submitRead", NoCache)
    <3>1. ~Untouched
      BY <2>3 DEF Untouched
    <3>2. OfFirst(screen[t], "submitRead", req[t], NoCache)
      BY <2>1, FirstAtTab DEF OfFirst, Posting
    <3> QED BY <2>1, <2>3, <3>1, <3>2, ContinueKeepsFirst DEF Starting, StatusPosts
  <2> QED BY <1>3, <2>2, <2>3 DEF ValidateSupportNeeds
<1>4. CASE SubmitRead(t)
  BY <1>4, ReadingKeepsFirst DEF SubmitRead, ReadCache, Starting, StatusPosts, Posting
<1>5. CASE SubmitSupportNeeds(t)
  <2> DEFINE needs == WithSelection(loc[t], req[t])
  <2>1. pc[t] = "submitWrite" /\ SetCache(needs) /\ RedirectToNext(t, needs, 0)
    BY <1>5 DEF SubmitSupportNeeds
  <2>2. needs.form = 1 /\ SectionsAnswered(needs.selected)
    BY <2>1, WrittenAnswers
  <2>3. pc[t] \notin Asking \cup Starting
    BY <2>1 DEF Asking, Starting
  <2> HIDE DEF needs
  <2> QED BY <2>1, <2>2, <2>3, WritingKeepsFirst DEF RedirectToNext
<1> QED BY <1>1, <1>2, <1>3, <1>4, <1>5

LEMMA StatusPageKeepsFirst ==
    ASSUME IInv, FirstFormInv, forms <= 1, NEW t \in Tab,
           \/ GetSupportNeedsStatus(t)
           \/ RejectStatus(t) \/ StatusRead(t) \/ SubmitSupportNeedsStatus(t)
           \/ DeleteRead(t) \/ DeleteSupportNeed(t)
    PROVE  FirstFormInv'
<1>1. CASE GetSupportNeedsStatus(t)
  <2> DEFINE n == req[t].need
             s == Page("status", cache.form, n, req[t].edit, StatusPageBefore(cache, n))
  <2>1. cache' = cache /\ forms' = forms
    BY <1>1 DEF GetSupportNeedsStatus, ReadStep, NoWrite
  <2>2. Exit(t) \/ (cache # NoCache /\ n \in cache.selected /\ Show(t, s))
    BY <1>1 DEF GetSupportNeedsStatus
  <2>3. s.form = cache.form
    BY DEF Page
  <2> HIDE DEF s
  <2>4. CASE Exit(t)
    BY <2>1, <2>4, ExitKeepsFirst
  <2>5. CASE cache # NoCache /\ n \in cache.selected /\ Show(t, s)
    <3>1. ~Untouched /\ s.form = 1 /\ SectionsAnswered(cache.selected)
      BY <2>3, <2>5, FirstAtTab DEF Untouched
    <3> QED BY <2>1, <2>5, <3>1, ShowKeepsFirst
  <2> QED BY <2>2, <2>4, <2>5
<1>2. CASE RejectStatus(t)
  BY <1>2, RedirectKeepsFirst DEF RejectStatus, ReadStep, NoWrite
<1>3. CASE StatusRead(t) \/ DeleteRead(t)
  BY <1>3, ReadingKeepsFirst DEF StatusRead, DeleteRead, ReadNeed, Starting, StatusPosts, Posting
<1>4. ASSUME NEW needs, SetCache(needs), pc[t] \in {"saveWrite", "removeWrite"},
             needs.form = 1, SectionsAnswered(needs.selected),
             RedirectTo(t, AskCheck) \/ RedirectToNext(t, needs, req[t].need)
      PROVE  FirstFormInv'
  BY <1>4, WritingKeepsFirst DEF RedirectToNext, Asking, Starting
<1>5. CASE SubmitSupportNeedsStatus(t)
  <2> DEFINE needs == WithDetails(loc[t], req[t].need)
  <2>1. /\ pc[t] = "saveWrite" /\ SetCache(needs)
        /\ RedirectTo(t, AskCheck) \/ RedirectToNext(t, needs, req[t].need)
    BY <1>5 DEF SubmitSupportNeedsStatus
  <2>2. needs.form = 1 /\ SectionsAnswered(needs.selected)
    BY <2>1, WrittenAnswers
  <2> HIDE DEF needs
  <2> QED BY <1>4, <2>1, <2>2
<1>6. CASE DeleteSupportNeed(t)
  <2> DEFINE needs == Without(loc[t], req[t].need)
  <2>1. /\ pc[t] = "removeWrite" /\ SetCache(needs)
        /\ RedirectTo(t, AskCheck) \/ RedirectToNext(t, needs, req[t].need)
    BY <1>6 DEF DeleteSupportNeed
  <2>2. needs.form = 1 /\ SectionsAnswered(needs.selected)
    BY <2>1, WrittenAnswers
  <2> HIDE DEF needs
  <2> QED BY <1>4, <2>1, <2>2
<1> QED BY <1>1, <1>2, <1>3, <1>5, <1>6

LEMMA CheckAnswersKeepsFirst ==
    ASSUME IInv, FirstFormInv, forms <= 1, NEW t \in Tab,
           \/ GetCheckAnswers(t)
           \/ FinaliseRead(t) \/ PostSupportNeeds(t) \/ FinaliseSupportNeeds(t)
    PROVE  FirstFormInv'
<1>1. CASE GetCheckAnswers(t)
  <2> DEFINE s == Page("check", cache.form, 1, FALSE, StatusPages(cache))
  <2>1. /\ cache' = cache /\ forms' = forms
        /\ Exit(t) \/ (cache # NoCache /\ Show(t, s))
    BY <1>1 DEF GetCheckAnswers, ReadStep, NoWrite
  <2>2. s.form = cache.form /\ s.page = "check"
    BY DEF Page
  <2> HIDE DEF s
  <2>3. cache # NoCache => ~Untouched /\ s.form = 1
    BY <2>2, FirstAtTab DEF Untouched
  <2> QED BY <2>1, <2>2, <2>3, ExitKeepsFirst, ShowKeepsFirst
<1>2. CASE FinaliseRead(t)
  BY <1>2, ReadingKeepsFirst DEF FinaliseRead, ReadCache, Starting, StatusPosts, Posting
<1>3. CASE PostSupportNeeds(t)
  <2>1. pc[t] = "finalPost" /\ cache' = cache /\ forms' = forms
    BY <1>3 DEF PostSupportNeeds
  <2>2. ~Untouched
    BY <2>1, FirstAtTab DEF Apart, Asking, Starting
  <2>3. OfFirst(screen[t], "finalDelete", req[t], NoCache)
    BY FirstAtTab DEF OfFirst, Posting
  <2>4. CASE Continue(t, "finalDelete", NoCache)
    BY <2>1, <2>2, <2>3, <2>4, ContinueKeepsFirst DEF Starting, StatusPosts
  <2> QED BY <1>3, <2>1, <2>4, ExitKeepsFirst DEF PostSupportNeeds
<1>4. CASE FinaliseSupportNeeds(t)
  BY <1>4, ExitKeepsFirst DEF FinaliseSupportNeeds, SetCache
<1> QED BY <1>1, <1>2, <1>3, <1>4

LEMMA UseKeepsFirst ==
    ASSUME IInv, FirstFormInv, forms <= 1, NEW t \in Tab, Use(t), ~Start(t)
    PROVE  FirstFormInv'
<1> USE DEF Starting, Posting, StatusPosts, Asking
<1>1. CASE SubmitNeeds(t)
  <2>1. PICK chosen, described :
           Send(t, "validateRead",
                [Ask("needs", screen[t].form, 1, FALSE)
                    EXCEPT !.chosen = chosen, !.described = described])
    BY <1>1 DEF SubmitNeeds
  <2> DEFINE r == [Ask("needs", screen[t].form, 1, FALSE)
                      EXCEPT !.chosen = chosen, !.described = described]
  <2>2. r.form = screen[t].form
    BY DEF Ask
  <2>3. Send(t, "validateRead", r)
    BY <2>1
  <2> HIDE DEF r
  <2>4. forms' = forms /\ screen[t] # Elsewhere /\ r.form = 1
    BY <1>1, <2>2, FirstAtTab DEF SubmitNeeds, Shows, OfFirst
  <2> QED BY <2>3, <2>4, SendKeepsFirst
<1>2. CASE SaveStatus(t) \/ RemoveNeed(t) \/ Confirm(t)
  <2>1. forms' = forms
    BY <1>2 DEF SaveStatus, RemoveNeed, Confirm
  <2>2. \/ Shows(t, "status") /\ \E r : Send(t, "saveRead", r) \/ Send(t, "removeRead", r)
        \/ Shows(t, "check") /\ Send(t, "finalRead", AskCheck)
    BY <1>2 DEF SaveStatus, RemoveNeed, Confirm
  <2> QED BY <2>1, <2>2, SendKeepsFirst DEF Shows
<1>3. ASSUME NEW r \in Request, Send(t, FirstStep(r), r), forms' = forms
      PROVE  FirstFormInv'
  BY <1>3, FirstStepReads, SendKeepsFirst
<1>4. CASE AddNeeds(t)
  BY <1>3, <1>4, LinkRequests DEF AddNeeds, Follow
<1>5. CASE Change(t)
  BY <1>3, <1>5, LinkRequests DEF Change, Shows, Follow
<1>6. CASE Back(t)
  <2>1. Last(screen[t].links) \subseteq screen[t].links
    BY DEF Last
  <2> QED BY <1>3, <1>6, <2>1, LinkRequests DEF Back, Follow
<1>7. CASE Revisit(t)
  <2>1. \A f \in 1..forms, n \in Updatable, edit \in BOOLEAN :
           Ask("status", f, n, edit) \in Request
    <3>1. 1..forms \subseteq Form
      BY SupportNeedsAssumption DEF IInv, StoreInv, Form
    <3> QED BY <3>1, SupportNeedsAssumption, AskType DEF PageName
  <2>2. PICK r \in Request : Send(t, FirstStep(r), r)
    BY <1>7, <2>1, AskPagesType DEF Revisit
  <2> QED BY <1>3, <1>7, <2>2 DEF Revisit
<1>8. CASE Leave(t)
  <2>1. /\ pc[t] = "idle" /\ cache' = cache /\ forms' = forms
        /\ Leaves(t, Elsewhere, "idle", req[t], loc[t])
    BY <1>8 DEF Leave, Leaves, IInv, TabInv
  <2>2. OfFirst(Elsewhere, "idle", req[t], loc[t])
    BY <2>1, FirstAtTab DEF OfFirst
  <2> QED BY <2>1, <2>2, QuietKeepsFirst DEF OnStatus, Apart
<1>9. CASE FollowRedirect(t)
  <2> DEFINE label == FirstStep(req[t])
  <2>1. /\ cache' = cache /\ forms' = forms
        /\ Leaves(t, screen[t], label, req[t], loc[t])
    BY <1>9 DEF FollowRedirect, Leaves, IInv, TabInv
  <2>2. label \in {"needsRead", "statusRead", "checkRead"}
    BY AtTab, FirstStepReads
  <2> HIDE DEF label
  <2>3. OfFirst(screen[t], label, req[t], loc[t])
    BY <2>2, FirstAtTab DEF OfFirst
  <2>4. OnStatus(screen[t], label) => OnStatus(screen[t], pc[t])
    BY <2>2 DEF OnStatus
  <2>5. OnStatus(screen[t], label) /\ cache # NoCache => SectionsAnswered(cache.selected)
    BY <2>4, FirstAtTab
  <2>6. Untouched => Apart(screen[t], label)
    BY <2>2, FirstAtTab DEF Apart
  <2>7. label \notin Starting
    BY <2>2
  <2> QED BY <2>1, <2>3, <2>5, <2>6, <2>7, QuietKeepsFirst
<1>10. CASE AbandonRedirect(t)
  <2>1. /\ pc[t] = "redirect" /\ cache' = cache /\ forms' = forms /\ Show(t, screen[t])
    BY <1>10 DEF AbandonRedirect, NoWrite
  <2>2. screen[t] # Elsewhere => ~Untouched /\ screen[t].form = 1
    BY FirstAtTab DEF Apart, OfFirst
  <2>3. screen[t] # Elsewhere /\ cache # NoCache /\ screen[t].page = "status" =>
           SectionsAnswered(cache.selected)
    BY FirstAtTab DEF OnStatus
  <2> QED BY <2>1, <2>2, <2>3, ShowKeepsFirst
<1>11. ASSUME NEW u \in Tab, ClickAgain(t, u)
       PROVE  FirstFormInv'
  <2>1. /\ pc[u] = "idle" /\ cache' = cache /\ forms' = forms /\ screen[t] # Elsewhere
        /\ Leaves(u, screen[t], "idle", req[u], loc[u])
    BY <1>11 DEF ClickAgain, Leaves, IInv, TabInv
  <2>2. ~Untouched /\ OfFirst(screen[t], "idle", req[u], loc[u])
    <3>1. OfFirst(screen[t], pc[t], req[t], loc[t]) /\ OfFirst(screen[u], pc[u], req[u], loc[u])
      BY FirstAtTab
    <3> QED BY <2>1, <3>1, FirstAtTab DEF OfFirst, Apart
  <2>3. OnStatus(screen[t], "idle") /\ cache # NoCache => SectionsAnswered(cache.selected)
    BY FirstAtTab DEF OnStatus
  <2>4. "idle" \notin Starting
    BY DEF Starting
  <2> QED BY <2>1, <2>2, <2>3, <2>4, QuietKeepsFirst
<1> QED BY <1>1, <1>2, <1>4, <1>5, <1>6, <1>7, <1>8, <1>9, <1>10, <1>11 DEF Use

(* Nothing is known of a second form. *)
LEMMA StartKeepsFirst ==
    ASSUME IInv, FirstFormInv, forms <= 1, NEW t \in Tab, Start(t)
    PROVE  FirstFormInv'
<1> DEFINE r == Ask("needs", forms + 1, 1, FALSE)
<1>1. /\ forms' = forms + 1 /\ cache' = cache
      /\ Leaves(t, screen[t], "startDelete", r, loc[t])
  BY EndingsLeave DEF Start, Send
<1>2. forms \in Nat /\ r.form = forms + 1
  BY SupportNeedsAssumption DEF IInv, StoreInv, Ask
<1> HIDE DEF r
<1> SUFFICES ASSUME forms = 0
             PROVE  FirstFormInv'
  BY <1>1, <1>2 DEF FirstFormInv
<1>3. /\ cache = NoCache /\ \A u \in Tab : Apart(screen[u], pc[u])
      /\ \A u \in Tab : pc[u] \notin Starting
  BY DEF FirstFormInv, Untouched
<1>4. \A u \in Tab : /\ screen'[u] = screen[u]
                     /\ pc'[u] = IF u = t THEN "startDelete" ELSE pc[u]
                     /\ req'[u] = IF u = t THEN r ELSE req[u]
                     /\ loc'[u] = loc[u]
  BY <1>1 DEF Leaves
<1>5. "startDelete" \in Starting /\ "startDelete" \notin StatusPosts
  BY DEF Starting, StatusPosts
<1>6. Untouched'
  BY <1>1, <1>3, <1>4, <1>5 DEF Untouched, Apart
<1>7. \A u \in Tab : pc'[u] \in Starting => u = t
  BY <1>3, <1>4
<1>8. \A u \in Tab : OfFirst(screen'[u], pc'[u], req'[u], loc'[u])
  <2>1. \A u \in Tab : OfFirst(screen[u], pc[u], req[u], loc[u])
    BY DEF FirstFormInv
  <2>2. OfFirst(screen[t], "startDelete", r, loc[t])
    BY <1>2, <2>1 DEF OfFirst
  <2> QED BY <1>4, <2>1, <2>2
<1> QED BY <1>1, <1>2, <1>3, <1>6, <1>7, <1>8 DEF FirstFormInv

LEMMA FormsGrow ==
    ASSUME IInv, Next
    PROVE  forms \in Nat /\ forms' \in {forms, forms + 1}
<1>1. ASSUME NEW t \in Tab, Handle(t)
      PROVE  forms' = forms
  BY <1>1 DEF Handle, DeleteBeforeStart, FetchNeeds, StartForm, OpenNeeds, GetSupportNeeds,
     ValidateSupportNeeds, SubmitRead, SubmitSupportNeeds, GetSupportNeedsStatus,
     RejectStatus, StatusRead, SubmitSupportNeedsStatus, DeleteRead, DeleteSupportNeed,
     GetCheckAnswers, FinaliseRead, PostSupportNeeds, FinaliseSupportNeeds,
     ReadCache, ReadNeed, ReadStep, NoWrite, SetCache
<1>2. ASSUME NEW t \in Tab, Use(t)
      PROVE  forms' \in {forms, forms + 1}
  <2>1. CASE Start(t)
    BY <2>1 DEF Start
  <2>2. CASE AddNeeds(t) \/ Change(t) \/ Back(t)
    BY <2>2 DEF AddNeeds, Change, Back, Follow
  <2>3. CASE SubmitNeeds(t) \/ SaveStatus(t) \/ RemoveNeed(t) \/ Confirm(t)
    BY <2>3 DEF SubmitNeeds, SaveStatus, RemoveNeed, Confirm
  <2>4. CASE Revisit(t) \/ Leave(t) \/ FollowRedirect(t) \/ AbandonRedirect(t)
    BY <2>4 DEF Revisit, Leave, FollowRedirect, AbandonRedirect, NoWrite
  <2>5. CASE \E u \in Tab : ClickAgain(t, u)
    BY <2>5 DEF ClickAgain
  <2> QED BY <1>2, <2>1, <2>2, <2>3, <2>4, <2>5 DEF Use
<1>3. forms \in Nat
  BY SupportNeedsAssumption DEF IInv, StoreInv
<1> QED BY <1>1, <1>2, <1>3 DEF Next, Crash, NoWrite, ExpireCache

LEMMA FirstStepKeeps ==
    ASSUME IInv, FirstFormInv, [Next]_vars
    PROVE  FirstFormInv'
<1>1. CASE UNCHANGED vars
  BY <1>1 DEF vars, FirstFormInv, Untouched
<1>2. CASE Next /\ ~(forms <= 1)
  <2>1. forms \in Nat /\ forms' \in {forms, forms + 1}
    BY <1>2, FormsGrow
  <2>2. ~(forms' <= 1)
    BY <1>2, <2>1
  <2> QED BY <2>2 DEF FirstFormInv
<1>3. ASSUME NEW t \in Tab, Handle(t) \/ Use(t) \/ Crash(t), forms <= 1
      PROVE  FirstFormInv'
  <2>1. CASE Handle(t)
    BY <1>3, <2>1, StartFormKeepsFirst, NeedsPageKeepsFirst, StatusPageKeepsFirst,
       CheckAnswersKeepsFirst DEF Handle
  <2>2. CASE Use(t)
    BY <1>3, <2>2, UseKeepsFirst, StartKeepsFirst
  <2>3. CASE Crash(t)
    BY <1>3, <2>3, ExitKeepsFirst DEF Crash, NoWrite
  <2> QED BY <1>3, <2>1, <2>2, <2>3
<1>4. CASE ExpireCache /\ forms <= 1
  <2>1. PICK t \in Tab : screen' = [screen EXCEPT ![t] = Elsewhere]
    BY <1>4 DEF ExpireCache
  <2>2. /\ cache' = NoCache /\ forms' = forms /\ pc[t] = "idle"
        /\ Leaves(t, Elsewhere, "idle", req[t], loc[t])
    BY <1>4, <2>1 DEF ExpireCache, Leaves, IInv, TabInv
  <2>3. OfFirst(Elsewhere, "idle", req[t], loc[t])
    BY <2>2, FirstAtTab, <1>4 DEF OfFirst
  <2>4. ~OnStatus(Elsewhere, "idle") /\ Apart(Elsewhere, "idle") /\ "idle" \notin Starting
    BY DEF OnStatus, Apart, StatusPosts, Asking, Starting
  <2> QED BY <1>4, <2>2, <2>3, <2>4, QuietKeepsFirst
<1> QED BY <1>1, <1>2, <1>3, <1>4 DEF Next

(* In the first form everything shown, posted and held answers what the    *)
(* cache answers.                                                          *)
THEOREM FirstFormInvariant == Spec => [](IInv /\ FirstFormInv)
<1>1. Init => IInv /\ FirstFormInv
  <2> SUFFICES ASSUME Init PROVE FirstFormInv
    BY InitInvariant
  <2>1. Untouched /\ \A u \in Tab : pc[u] \notin Starting
    BY DEF Init, Untouched, Apart, Asking, Starting
  <2>2. \A u \in Tab : /\ ~OnStatus(screen[u], pc[u])
                       /\ OfFirst(screen[u], pc[u], req[u], loc[u])
    BY DEF Init, OnStatus, OfFirst, StatusPosts, Posting
  <2> QED BY <2>1, <2>2 DEF Init, FirstFormInv
<1>2. IInv /\ FirstFormInv /\ [Next]_vars => IInv' /\ FirstFormInv'
  BY StepInvariant, FirstStepKeeps
<1> QED BY <1>1, <1>2, PTL DEF Spec

LEMMA CacheChanges ==
    ASSUME Next, cache' # cache, cache' # NoCache
    PROVE  \E t \in Tab : \/ StartForm(t) \/ SubmitSupportNeeds(t)
                          \/ SubmitSupportNeedsStatus(t) \/ DeleteSupportNeed(t)
<1>1. ASSUME NEW t \in Tab, Handle(t)
      PROVE  \/ StartForm(t) \/ SubmitSupportNeeds(t)
             \/ SubmitSupportNeedsStatus(t) \/ DeleteSupportNeed(t)
  BY <1>1 DEF Handle, DeleteBeforeStart, FetchNeeds, OpenNeeds, GetSupportNeeds,
     ValidateSupportNeeds, SubmitRead, GetSupportNeedsStatus,
     RejectStatus, StatusRead, DeleteRead,
     GetCheckAnswers, FinaliseRead, PostSupportNeeds, FinaliseSupportNeeds,
     ReadCache, ReadNeed, ReadStep, NoWrite, SetCache
<1>2. ASSUME NEW t \in Tab, Use(t)
      PROVE  FALSE
  <2>1. CASE AddNeeds(t) \/ Change(t) \/ Back(t)
    BY <2>1 DEF AddNeeds, Change, Back, Follow, Send
  <2>2. CASE Start(t) \/ SubmitNeeds(t) \/ SaveStatus(t) \/ RemoveNeed(t) \/ Confirm(t)
    BY <2>2 DEF Start, SubmitNeeds, SaveStatus, RemoveNeed, Confirm, Send
  <2>3. CASE Revisit(t) \/ Leave(t) \/ FollowRedirect(t) \/ AbandonRedirect(t)
    BY <2>3 DEF Revisit, Send, Leave, FollowRedirect, AbandonRedirect, NoWrite
  <2>4. CASE \E u \in Tab : ClickAgain(t, u)
    BY <2>4 DEF ClickAgain
  <2> QED BY <1>2, <2>1, <2>2, <2>3, <2>4 DEF Use
<1> QED BY <1>1, <1>2 DEF Next, Crash, NoWrite, ExpireCache

(* While there has been one form no post, removal or status of any tab     *)
(* takes the answer away from a section that has the option: what a stale  *)
(* copy writes back, the cache before it had answered as well.             *)
THEOREM AnswersStay == Spec => SectionsStayAnswered
<1> DEFINE Kept == forms <= 1 /\ cache # NoCache /\ cache' # NoCache
                     /\ SectionsAnswered(cache.selected)
                   => SectionsAnswered(cache'.selected)
<1>1. ASSUME IInv, FirstFormInv, [Next]_vars
      PROVE  [Kept]_vars
  <2> SUFFICES ASSUME Next, forms <= 1, cache # NoCache, cache' # NoCache, cache' # cache
               PROVE  SectionsAnswered(cache'.selected)
    BY <1>1
  <2>1. PICK t \in Tab : \/ StartForm(t) \/ SubmitSupportNeeds(t)
                         \/ SubmitSupportNeedsStatus(t) \/ DeleteSupportNeed(t)
    BY CacheChanges
  <2>2. ~StartForm(t)
    BY <1>1, FirstAtTab DEF StartForm, Starting
  <2>3. CASE SubmitSupportNeeds(t)
    BY <1>1, <2>3, WrittenAnswers DEF SubmitSupportNeeds, SetCache
  <2>4. CASE SubmitSupportNeedsStatus(t)
    BY <1>1, <2>4, WrittenAnswers DEF SubmitSupportNeedsStatus, SetCache
  <2>5. CASE DeleteSupportNeed(t)
    BY <1>1, <2>5, WrittenAnswers DEF DeleteSupportNeed, SetCache
  <2> QED BY <2>1, <2>2, <2>3, <2>4, <2>5
<1> QED BY <1>1, FirstFormInvariant, PTL DEF Spec, SectionsStayAnswered

-----------------------------------------------------------------------------
(* ConfirmedOnce, for every number of tabs.                                *)
(*                                                                         *)
(* As long as nothing fails and no two requests are under way at once, a   *)
(* handler's copy is what is cached, whichever tabs there are: so a form   *)
(* that has been posted is cached only until its handler deletes it.       *)

Undisturbed == spent.mishaps = 0 /\ ~spent.overlapped

Holding == {"needsSummary", "submitWrite", "saveWrite", "removeWrite", "finalPost"}
Resting == {"idle", "redirect"}

(* The request and the copy of a handler before the step label, when c is  *)
(* cached, n forms have been started and posted is what the API has.       *)
SoleAt(label, r, needs, c, n, posted) ==
    /\ label \in Holding => needs = c
    /\ label \in {"startDelete", "startFetch"} => r.form = n /\ n \notin posted
    /\ label = "startWrite" => needs.form = n /\ n \notin posted

SoleInv ==
    Undisturbed =>
        /\ api \subseteq 1..forms
        /\ cache # NoCache => cache.form <= forms
        /\ \A t, u \in Tab : InFlight(t) /\ InFlight(u) => t = u
        /\ \A t \in Tab : SoleAt(pc[t], req[t], loc[t], cache, forms, api)
        /\ cache # NoCache /\ cache.form \in api => \E t \in Tab : pc[t] = "finalDelete"

LEMMA Disturbing ==
    ASSUME IInv
    PROVE  /\ \A kind : Mishap(kind) => ~Undisturbed'
           /\ UNCHANGED spent \/ spent' = [spent EXCEPT !.strayed = TRUE] =>
                 (Undisturbed' => Undisturbed)
           /\ spent' \in {Begun, Counted, [Counted EXCEPT !.strayed = TRUE]} =>
                 (Undisturbed' => Undisturbed /\ \A u \in Tab : ~InFlight(u))
<1>1. spent \in Spent /\ spent.mishaps \in Nat
  BY SupportNeedsAssumption DEF IInv, Spent
<1>2. ASSUME NEW kind, Mishap(kind) PROVE ~Undisturbed'
  <2>1. spent' = [spent EXCEPT !.mishaps = @ + 1]
    BY <1>2 DEF Mishap
  <2>2. spent'.mishaps # 0
    BY <1>1, <2>1 DEF Spent
  <2> QED BY <2>2 DEF Undisturbed
<1>3. ASSUME UNCHANGED spent \/ spent' = [spent EXCEPT !.strayed = TRUE]
      PROVE  Undisturbed' => Undisturbed
  BY <1>1, <1>3 DEF Undisturbed, Spent
<1>4. ASSUME spent' \in {Begun, Counted, [Counted EXCEPT !.strayed = TRUE]}, Undisturbed'
      PROVE  Undisturbed /\ \A u \in Tab : ~InFlight(u)
  <2>1. /\ Begun \in Spent /\ Begun.mishaps = spent.mishaps
        /\ Begun.overlapped = (spent.overlapped \/ \E u \in Tab : InFlight(u))
    BY <1>1, BegunType
  <2> HIDE DEF Begun
  <2>2. spent'.mishaps = Begun.mishaps /\ spent'.overlapped = Begun.overlapped
    BY <1>4, <2>1 DEF Counted, Spent
  <2> QED BY <1>4, <2>1, <2>2 DEF Undisturbed
<1> QED BY <1>2, <1>3, <1>4

(* A step of tab t. *)
LEMMA TabKeepsSole ==
    ASSUME SoleInv,
           NEW t \in Tab, NEW s, NEW label, NEW r, NEW needs, Leaves(t, s, label, r, needs),
           Undisturbed' =>
              /\ Undisturbed
              /\ label \in Resting \/ \A u \in Tab : InFlight(u) => u = t
              /\ UNCHANGED <<cache, forms, api>> \/ \A u \in Tab : InFlight(u) => u = t
              /\ api' \subseteq 1..forms'
              /\ cache' # NoCache => cache'.form <= forms'
              /\ SoleAt(label, r, needs, cache', forms', api')
              /\ cache' # NoCache /\ cache'.form \in api' =>
                    label = "finalDelete" \/ \E u \in Tab \ {t} : pc[u] = "finalDelete"
    PROVE  SoleInv'
<1> SUFFICES ASSUME Undisturbed'
             PROVE  /\ api' \subseteq 1..forms'
                    /\ cache' # NoCache => cache'.form <= forms'
                    /\ (\A v, u \in Tab : InFlight(v) /\ InFlight(u) => v = u)'
                    /\ \A u \in Tab : SoleAt(pc'[u], req'[u], loc'[u], cache', forms', api')
                    /\ cache' # NoCache /\ cache'.form \in api' =>
                          \E u \in Tab : pc'[u] = "finalDelete"
  BY DEF SoleInv
<1>1. \A u \in Tab : /\ pc'[u] = IF u = t THEN label ELSE pc[u]
                     /\ req'[u] = IF u = t THEN r ELSE req[u]
                     /\ loc'[u] = IF u = t THEN needs ELSE loc[u]
  BY DEF Leaves
<1>2. \A u \in Tab : SoleAt(pc[u], req[u], loc[u], cache, forms, api)
  BY DEF SoleInv
<1>3. \A v, u \in Tab : InFlight(v) /\ InFlight(u) => v = u
  BY DEF SoleInv
<1>4. ASSUME NEW u \in Tab PROVE SoleAt(pc'[u], req'[u], loc'[u], cache', forms', api')
  <2>1. CASE u = t
    BY <1>1, <2>1
  <2>2. CASE u # t /\ UNCHANGED <<cache, forms, api>>
    BY <1>1, <1>2, <2>2
  <2>3. CASE u # t /\ ~InFlight(u)
    BY <1>1, <2>3 DEF InFlight, SoleAt, Holding
  <2> QED BY <2>1, <2>2, <2>3
<1>5. ASSUME NEW v \in Tab, NEW u \in Tab, InFlight(v)', InFlight(u)' PROVE v = u
  BY <1>1, <1>3, <1>5 DEF InFlight, Resting
<1>6. cache' # NoCache /\ cache'.form \in api' => \E u \in Tab : pc'[u] = "finalDelete"
  BY <1>1
<1> QED BY <1>4, <1>5, <1>6

(* A step of tab t that writes nothing. *)
LEMMA QuietKeepsSole ==
    ASSUME IInv, SoleInv, NoWrite,
           UNCHANGED spent \/ spent' = [spent EXCEPT !.strayed = TRUE],
           NEW t \in Tab, NEW s, NEW label, NEW r, NEW needs, Leaves(t, s, label, r, needs),
           label \in Resting \/ InFlight(t), pc[t] # "finalDelete",
           Undisturbed => SoleAt(label, r, needs, cache, forms, api)
    PROVE  SoleInv'
<1>1. UNCHANGED <<cache, forms, api>>
  BY DEF NoWrite
<1>2. ASSUME Undisturbed'
      PROVE  /\ Undisturbed
             /\ label \in Resting \/ \A u \in Tab : InFlight(u) => u = t
             /\ api' \subseteq 1..forms'
             /\ cache' # NoCache => cache'.form <= forms'
             /\ SoleAt(label, r, needs, cache', forms', api')
             /\ cache' # NoCache /\ cache'.form \in api' =>
                    label = "finalDelete" \/ \E u \in Tab \ {t} : pc[u] = "finalDelete"
  <2>1. Undisturbed
    BY <1>2, Disturbing
  <2>2. SoleAt(label, r, needs, cache', forms', api')
    BY <1>1, <2>1
  <2> QED BY <1>1, <2>1, <2>2 DEF SoleInv
<1> QED BY <1>1, <1>2, TabKeepsSole

(* A label at which nothing is known of the copy and the request. *)
LEMMA Carefree ==
    ASSUME NEW label, label \notin Starting \cup Holding, NEW r, NEW needs,
           NEW c, NEW n, NEW posted
    PROVE  SoleAt(label, r, needs, c, n, posted)
BY DEF SoleAt, Starting

(* A step that ends in a page or a redirect. *)
LEMMA EndingKeepsSole ==
    ASSUME IInv, SoleInv, NoWrite, UNCHANGED spent, NEW t \in Tab, pc[t] # "finalDelete",
           Exit(t) \/ (\E s : Show(t, s)) \/ (\E r : RedirectTo(t, r))
    PROVE  SoleInv'
<1>1. "idle" \in Resting /\ "redirect" \in Resting
      /\ "idle" \notin Starting \cup Holding /\ "redirect" \notin Starting \cup Holding
  BY DEF Resting, Starting, Holding
<1>2. ASSUME NEW s, Show(t, s) PROVE SoleInv'
  <2>1. Leaves(t, s, "idle", NoRequest, NoCache)
    BY <1>2, EndingsLeave
  <2> QED BY <1>1, <2>1, Carefree, QuietKeepsSole
<1>3. ASSUME NEW r, RedirectTo(t, r) PROVE SoleInv'
  <2>1. Leaves(t, screen[t], "redirect", r, NoCache)
    BY <1>3, EndingsLeave
  <2> QED BY <1>1, <2>1, Carefree, QuietKeepsSole
<1> QED BY <1>2, <1>3 DEF Exit

(* A handler that goes on. *)
LEMMA ContinueKeepsSole ==
    ASSUME IInv, SoleInv, NoWrite, UNCHANGED spent, NEW t \in Tab,
           InFlight(t), pc[t] # "finalDelete",
           NEW label, NEW needs, Continue(t, label, needs),
           Undisturbed => SoleAt(label, req[t], needs, cache, forms, api)
    PROVE  SoleInv'
BY EndingsLeave, QuietKeepsSole

LEMMA MishapKeepsSole ==
    ASSUME IInv, NEW kind, Mishap(kind)
    PROVE  SoleInv'
BY Disturbing DEF SoleInv

(* What is known of a handler under way when it is the only one. *)
LEMMA SoleAtTab ==
    ASSUME IInv, SoleInv, Undisturbed, NEW t \in Tab
    PROVE  /\ SoleAt(pc[t], req[t], loc[t], cache, forms, api)
           /\ api \subseteq 1..forms
           /\ cache # NoCache => cache.form <= forms
           /\ InFlight(t) => \A u \in Tab : InFlight(u) => u = t
           /\ InFlight(t) /\ pc[t] # "finalDelete" /\ cache # NoCache => cache.form \notin api
           /\ (\A u \in Tab : ~InFlight(u)) /\ cache # NoCache => cache.form \notin api
<1>1. \A u \in Tab : pc[u] = "finalDelete" => InFlight(u)
  BY DEF InFlight
<1> QED BY <1>1 DEF SoleInv

(* A handler that writes a form and redirects. *)
LEMMA WritingKeepsSole ==
    ASSUME IInv, SoleInv, NEW t \in Tab, InFlight(t),
           NEW needs, SetCache(needs), NEW r, RedirectTo(t, r),
           Undisturbed => needs # NoCache /\ needs.form <= forms /\ needs.form \notin api
    PROVE  SoleInv'
<1>1. Leaves(t, screen[t], "redirect", r, NoCache)
  BY EndingsLeave
<1>2. cache' = needs /\ UNCHANGED <<forms, api, spent>>
  BY DEF SetCache
<1>3. Undisturbed' => Undisturbed
  BY <1>2, Disturbing
<1>4. "redirect" \in Resting /\ "redirect" \notin Starting \cup Holding
  BY DEF Resting, Starting, Holding
<1>5. SoleAt("redirect", r, NoCache, cache', forms', api')
  BY <1>4, Carefree
<1> QED BY <1>1, <1>2, <1>3, <1>4, <1>5, SoleAtTab, TabKeepsSole

(* A handler that writes its copy back changed. *)
LEMMA WritingBackKeepsSole ==
    ASSUME IInv, SoleInv, NEW t \in Tab, pc[t] \in {"submitWrite", "saveWrite", "removeWrite"},
           NEW needs \in ConsistentNeeds, needs.form = loc[t].form, SetCache(needs),
           NEW r, RedirectTo(t, r)
    PROVE  SoleInv'
<1>1. InFlight(t) /\ pc[t] # "finalDelete" /\ loc[t] # NoCache /\ needs # NoCache
  BY AtTab, NoCacheIsNoNeeds DEF InFlight, CopiesAt
<1>2. ASSUME Undisturbed PROVE needs.form <= forms /\ needs.form \notin api
  <2>1. loc[t] = cache
    BY <1>2, SoleAtTab DEF SoleAt, Holding
  <2> QED BY <1>1, <1>2, <2>1, SoleAtTab
<1> QED BY <1>1, <1>2, WritingKeepsSole

LEMMA NextIsRedirect ==
    ASSUME NEW t, NEW needs, NEW n, RedirectToNext(t, needs, n)
    PROVE  \E r : RedirectTo(t, r)
BY DEF RedirectToNext

LEMMA StartFormKeepsSole ==
    ASSUME IInv, SoleInv, NEW t \in Tab,
           DeleteBeforeStart(t) \/ FetchNeeds(t) \/ StartForm(t)
    PROVE  SoleInv'
<1>1. CASE DeleteBeforeStart(t)
  <2>1. /\ pc[t] = "startDelete" /\ cache' = NoCache /\ UNCHANGED <<forms, api, spent>>
        /\ Leaves(t, screen[t], "startFetch", req[t], NoCache)
    BY <1>1, EndingsLeave DEF DeleteBeforeStart, SetCache
  <2>2. InFlight(t)
    BY <2>1 DEF InFlight
  <2>3. Undisturbed' => Undisturbed
    BY <2>1, Disturbing
  <2>4. Undisturbed => SoleAt("startFetch", req[t], NoCache, cache', forms', api')
    BY <2>1, SoleAtTab DEF SoleAt, Holding
  <2> QED BY <2>1, <2>2, <2>3, <2>4, SoleAtTab, TabKeepsSole
<1>2. CASE FetchNeeds(t)
  <2>1. pc[t] = "startFetch" /\ NoWrite /\ InFlight(t)
    BY <1>2 DEF FetchNeeds, InFlight
  <2>2. CASE UNCHANGED spent /\ Continue(t, "startWrite", Started(req[t].form))
    <3>1. Started(req[t].form).form = req[t].form
      BY DEF Started
    <3>2. Undisturbed => SoleAt("startWrite", req[t], Started(req[t].form), cache, forms, api)
      BY <2>1, <3>1, SoleAtTab DEF SoleAt, Holding
    <3> QED BY <2>1, <2>2, <3>2, ContinueKeepsSole
  <2> QED BY <1>2, <2>2, MishapKeepsSole DEF FetchNeeds
<1>3. CASE StartForm(t)
  <2>1. /\ pc[t] = "startWrite" /\ SetCache(loc[t]) /\ RedirectTo(t, AskNeeds(FALSE))
        /\ InFlight(t)
    BY <1>3 DEF StartForm, InFlight
  <2>2. loc[t] # NoCache /\ forms \in Nat
    BY <2>1, AtTab, SupportNeedsAssumption DEF CopiesAt, IInv, StoreInv
  <2>3. Undisturbed => loc[t].form = forms /\ forms \notin api
    BY <2>1, SoleAtTab DEF SoleAt
  <2>4. Undisturbed => /\ loc[t] # NoCache /\ loc[t].form <= forms
                       /\ loc[t].form \notin api
    BY <2>2, <2>3
  <2> QED BY <2>1, <2>4, WritingKeepsSole
<1> QED BY <1>1, <1>2, <1>3

(* A handler that reads: it ends, or goes on with what is cached. *)
LEMMA ReadingKeepsSole ==
    ASSUME IInv, SoleInv, NEW t \in Tab, NEW label, NEW next,
           label \notin Resting \cup {"finalDelete"}, next \notin Starting,
           ReadCache(t, label, next) \/ ReadNeed(t, label, next)
    PROVE  SoleInv'
<1>1. /\ pc[t] = label /\ NoWrite /\ UNCHANGED spent
      /\ Exit(t) \/ Continue(t, next, cache)
  BY DEF ReadCache, ReadNeed, ReadStep
<1>2. InFlight(t) /\ pc[t] # "finalDelete"
  BY <1>1 DEF InFlight, Resting
<1>3. SoleAt(next, req[t], cache, cache, forms, api)
  BY DEF SoleAt, Starting
<1>4. CASE Exit(t)
  BY <1>1, <1>2, <1>4, EndingKeepsSole
<1>5. CASE Continue(t, next, cache)
  BY <1>1, <1>2, <1>3, <1>5, ContinueKeepsSole
<1> QED BY <1>1, <1>4, <1>5

LEMMA NeedsPageKeepsSole ==
    ASSUME IInv, SoleInv, NEW t \in Tab,
           \/ OpenNeeds(t) \/ GetSupportNeeds(t)
           \/ ValidateSupportNeeds(t) \/ SubmitRead(t) \/ SubmitSupportNeeds(t)
    PROVE  SoleInv'
<1> USE DEF Starting, Resting
<1>1. CASE OpenNeeds(t) \/ SubmitRead(t)
  BY <1>1, ReadingKeepsSole DEF OpenNeeds, SubmitRead
<1>2. CASE GetSupportNeeds(t)
  <2>1. pc[t] = "needsSummary" /\ NoWrite
    BY <1>2 DEF GetSupportNeeds
  <2> QED BY <1>2, <2>1, EndingKeepsSole, MishapKeepsSole DEF GetSupportNeeds
<1>3. CASE ValidateSupportNeeds(t)
  <2>1. pc[t] = "validateRead" /\ NoWrite /\ UNCHANGED spent /\ InFlight(t)
    BY <1>3 DEF ValidateSupportNeeds, ReadStep, InFlight
  <2>2. CASE Continue(t, "submitRead", NoCache)
    <3>1. SoleAt("submitRead", req[t], NoCache, cache, forms, api)
      BY DEF SoleAt, Holding
    <3> QED BY <2>1, <2>2, <3>1, ContinueKeepsSole
  <2> QED BY <1>3, <2>1, <2>2, EndingKeepsSole DEF ValidateSupportNeeds
<1>4. CASE SubmitSupportNeeds(t)
  <2> DEFINE needs == WithSelection(loc[t], req[t])
  <2>1. pc[t] = "submitWrite" /\ SetCache(needs) /\ RedirectToNext(t, needs, 0)
    BY <1>4 DEF SubmitSupportNeeds
  <2>2. loc[t] \in ConsistentNeeds /\ req[t] \in RequestsAt("submitWrite")
    BY <2>1, AtTab DEF CopiesAt, Copy
  <2>3. needs \in ConsistentNeeds /\ needs.form = loc[t].form
    BY <2>2, SelectionIsConsistent DEF WithSelection, ConsistentNeeds, Needs
  <2> HIDE DEF needs
  <2>4. PICK r : RedirectTo(t, r)
    BY <2>1, NextIsRedirect
  <2> QED BY <2>1, <2>3, <2>4, WritingBackKeepsSole
<1> QED BY <1>1, <1>2, <1>3, <1>4

LEMMA StatusPageKeepsSole ==
    ASSUME IInv, SoleInv, NEW t \in Tab,
           \/ GetSupportNeedsStatus(t)
           \/ RejectStatus(t) \/ StatusRead(t) \/ SubmitSupportNeedsStatus(t)
           \/ DeleteRead(t) \/ DeleteSupportNeed(t)
    PROVE  SoleInv'
<1> USE DEF Starting, Resting
<1>1. CASE GetSupportNeedsStatus(t)
  <2>1. pc[t] = "statusRead" /\ NoWrite /\ UNCHANGED spent
    BY <1>1 DEF GetSupportNeedsStatus, ReadStep
  <2>2. Exit(t) \/ \E s : Show(t, s)
    BY <1>1 DEF GetSupportNeedsStatus
  <2> QED BY <2>1, <2>2, EndingKeepsSole
<1>2. CASE RejectStatus(t)
  <2>1. pc[t] = "saveRead" /\ NoWrite /\ UNCHANGED spent /\ \E r : RedirectTo(t, r)
    BY <1>2 DEF RejectStatus, ReadStep
  <2> QED BY <2>1, EndingKeepsSole
<1>3. CASE StatusRead(t) \/ DeleteRead(t)
  BY <1>3, ReadingKeepsSole DEF StatusRead, DeleteRead
<1>4. CASE SubmitSupportNeedsStatus(t)
  <2> DEFINE needs == WithDetails(loc[t], req[t].need)
  <2>1. pc[t] = "saveWrite" /\ loc[t] \in ConsistentNeeds /\ req[t].need \in Need
    BY <1>4, AtTab DEF SubmitSupportNeedsStatus, CopiesAt, Copy
  <2>2. needs \in ConsistentNeeds /\ needs.form = loc[t].form
    BY <2>1, DetailsAreConsistent DEF WithDetails, ConsistentNeeds, Needs
  <2>3. SetCache(needs) /\ (RedirectTo(t, AskCheck) \/ RedirectToNext(t, needs, req[t].need))
    BY <1>4 DEF SubmitSupportNeedsStatus
  <2> HIDE DEF needs
  <2>4. PICK r : RedirectTo(t, r)
    BY <2>3, NextIsRedirect
  <2> QED BY <2>1, <2>2, <2>3, <2>4, WritingBackKeepsSole
<1>5. CASE DeleteSupportNeed(t)
  <2> DEFINE needs == Without(loc[t], req[t].need)
  <2>1. pc[t] = "removeWrite" /\ loc[t] \in ConsistentNeeds /\ req[t].need \in Need
    BY <1>5, AtTab DEF DeleteSupportNeed, CopiesAt, Copy
  <2>2. needs \in ConsistentNeeds
    BY <2>1, RemovalIsConsistent
  <2>3. needs.form = loc[t].form
    BY <2>1 DEF Without, ConsistentNeeds, Needs
  <2>4. SetCache(needs) /\ (RedirectTo(t, AskCheck) \/ RedirectToNext(t, needs, req[t].need))
    BY <1>5 DEF DeleteSupportNeed
  <2> HIDE DEF needs
  <2>5. PICK r : RedirectTo(t, r)
    BY <2>4, NextIsRedirect
  <2> QED BY <2>1, <2>2, <2>3, <2>4, <2>5, WritingBackKeepsSole
<1> QED BY <1>1, <1>2, <1>3, <1>4, <1>5

LEMMA CheckAnswersKeepsSole ==
    ASSUME IInv, SoleInv, NEW t \in Tab,
           \/ GetCheckAnswers(t)
           \/ FinaliseRead(t) \/ PostSupportNeeds(t) \/ FinaliseSupportNeeds(t)
    PROVE  SoleInv'
<1>1. CASE GetCheckAnswers(t)
  <2>1. pc[t] = "checkRead" /\ NoWrite /\ UNCHANGED spent
    BY <1>1 DEF GetCheckAnswers, ReadStep
  <2>2. Exit(t) \/ \E s : Show(t, s)
    BY <1>1 DEF GetCheckAnswers
  <2> QED BY <2>1, <2>2, EndingKeepsSole
<1>2. CASE FinaliseRead(t)
  BY <1>2, ReadingKeepsSole DEF FinaliseRead, Starting, Resting
<1>3. CASE PostSupportNeeds(t)
  <2>1. pc[t] = "finalPost" /\ UNCHANGED <<cache, forms>> /\ InFlight(t) /\ loc[t] # NoCache
    BY <1>3, AtTab DEF PostSupportNeeds, InFlight, CopiesAt
  <2>2. CASE /\ api' = api \cup {loc[t].form} /\ UNCHANGED spent
             /\ Continue(t, "finalDelete", NoCache)
    <3>1. Leaves(t, screen[t], "finalDelete", req[t], NoCache)
      BY <2>2, EndingsLeave
    <3>2. Undisturbed' => Undisturbed
      BY <2>2, Disturbing
    <3>3. SoleAt("finalDelete", req[t], NoCache, cache', forms', api')
      BY Carefree DEF Starting, Holding
    <3>4. Undisturbed => api' \subseteq 1..forms'
      <4>1. Undisturbed => loc[t] = cache
        BY <2>1, SoleAtTab DEF SoleAt, Holding
      <4>2. ASSUME Undisturbed PROVE cache.form \in 1..forms
        <5>1. cache \in ConsistentNeeds
          BY <2>1, <4>1, <4>2, CacheIsCopy
        <5>2. cache.form \in 1..MaxForms /\ forms \in Nat /\ MaxForms \in Nat
          BY <5>1, SupportNeedsAssumption
             DEF ConsistentNeeds, Needs, Form, IInv, StoreInv
        <5>3. cache.form <= forms
          BY <2>1, <4>1, <4>2, SoleAtTab
        <5> QED BY <5>2, <5>3
      <4> QED BY <2>1, <2>2, <4>1, <4>2, SoleAtTab
    <3> QED BY <2>1, <3>1, <3>2, <3>3, <3>4, SoleAtTab, TabKeepsSole
  <2> QED BY <1>3, <2>2, MishapKeepsSole DEF PostSupportNeeds
<1>4. CASE FinaliseSupportNeeds(t)
  <2>1. /\ pc[t] = "finalDelete" /\ cache' = NoCache /\ UNCHANGED <<forms, api, spent>>
        /\ Leaves(t, Elsewhere, "idle", NoRequest, NoCache)
    BY <1>4, EndingsLeave DEF FinaliseSupportNeeds, SetCache
  <2>2. InFlight(t) /\ "idle" \in Resting
    BY <2>1 DEF InFlight, Resting
  <2>3. SoleAt("idle", NoRequest, NoCache, cache', forms', api')
    BY Carefree DEF Starting, Holding
  <2>4. Undisturbed' => Undisturbed
    BY <2>1, Disturbing
  <2> QED BY <2>1, <2>2, <2>3, <2>4, SoleAtTab, TabKeepsSole
<1> QED BY <1>1, <1>2, <1>3, <1>4

(* A handler that begins. *)
LEMMA BeginningKeepsSole ==
    ASSUME IInv, SoleInv, UNCHANGED <<cache, forms, api>>,
           spent' \in {Begun, Counted, [Counted EXCEPT !.strayed = TRUE]},
           NEW t \in Tab, NEW label, NEW r, label \notin Starting \cup Holding,
           Leaves(t, screen[t], label, r, loc[t])
    PROVE  SoleInv'
<1>1. Undisturbed' => Undisturbed /\ \A u \in Tab : ~InFlight(u)
  BY Disturbing
<1>2. SoleAt(label, r, loc[t], cache', forms', api')
  BY Carefree
<1> QED BY <1>1, <1>2, SoleAtTab, TabKeepsSole

LEMMA SendKeepsSole ==
    ASSUME IInv, SoleInv, UNCHANGED forms,
           spent' = Counted \/ spent' = [Counted EXCEPT !.strayed = TRUE],
           NEW t \in Tab, NEW label, NEW r, Send(t, label, r),
           label \in {"needsRead", "validateRead", "statusRead", "saveRead", "removeRead",
                      "checkRead", "finalRead"}
    PROVE  SoleInv'
<1>1. Leaves(t, screen[t], label, r, loc[t]) /\ UNCHANGED <<cache, api>>
  BY EndingsLeave DEF Send
<1>2. label \notin Starting \cup Holding
  BY DEF Starting, Holding
<1> QED BY <1>1, <1>2, BeginningKeepsSole

LEMMA UseKeepsSole ==
    ASSUME IInv, SoleInv, NEW t \in Tab, Use(t)
    PROVE  SoleInv'
<1>1. CASE Start(t)
  <2> DEFINE r == Ask("needs", forms + 1, 1, FALSE)
  <2>1. /\ forms' = forms + 1 /\ spent' = Counted /\ UNCHANGED <<cache, api>>
        /\ Leaves(t, screen[t], "startDelete", r, loc[t])
    BY <1>1, EndingsLeave DEF Start, Send
  <2>2. r.form = forms + 1 /\ forms \in Nat
    BY SupportNeedsAssumption DEF Ask, IInv, StoreInv
  <2> HIDE DEF r
  <2>3. ASSUME Undisturbed'
        PROVE  /\ Undisturbed /\ \A u \in Tab : ~InFlight(u)
               /\ api \subseteq 1..forms
               /\ cache # NoCache => cache.form <= forms /\ cache.form \notin api
               /\ cache # NoCache => cache.form \in Nat
    <3>1. Undisturbed /\ \A u \in Tab : ~InFlight(u)
      BY <2>1, <2>3, Disturbing
    <3>2. cache # NoCache => cache.form \in Nat
      BY CacheIsCopy, SupportNeedsAssumption DEF ConsistentNeeds, Needs, Form
    <3> QED BY <3>1, <3>2, SoleAtTab
  <2>4. ASSUME Undisturbed'
        PROVE  /\ api' \subseteq 1..forms' /\ forms' \notin api'
               /\ cache' # NoCache => cache'.form <= forms'
    BY <2>1, <2>2, <2>3, <2>4
  <2>5. Undisturbed' => SoleAt("startDelete", r, loc[t], cache', forms', api')
    BY <2>1, <2>2, <2>4 DEF SoleAt, Holding
  <2> QED BY <2>1, <2>3, <2>4, <2>5, TabKeepsSole
<1>2. CASE SubmitNeeds(t) \/ SaveStatus(t) \/ RemoveNeed(t) \/ Confirm(t)
  <2>1. UNCHANGED forms /\ spent' = Counted
    BY <1>2 DEF SubmitNeeds, SaveStatus, RemoveNeed, Confirm
  <2>2. \E label \in {"validateRead", "saveRead", "removeRead", "finalRead"} :
           \E r : Send(t, label, r)
    BY <1>2 DEF SubmitNeeds, SaveStatus, RemoveNeed, Confirm
  <2> QED BY <2>1, <2>2, SendKeepsSole
<1>3. ASSUME NEW r \in Request, Send(t, FirstStep(r), r), UNCHANGED forms,
             spent' = Counted \/ spent' = [Counted EXCEPT !.strayed = TRUE]
      PROVE  SoleInv'
  BY <1>3, FirstStepReads, SendKeepsSole
<1>4. CASE AddNeeds(t) \/ Change(t)
  BY <1>3, <1>4, LinkRequests DEF AddNeeds, Change, Shows, Follow
<1>5. CASE Back(t)
  <2>1. Last(screen[t].links) \subseteq screen[t].links
    BY DEF Last
  <2> QED BY <1>3, <1>5, <2>1, LinkRequests DEF Back, Follow
<1>6. CASE Revisit(t)
  <2>1. \A f \in 1..forms, n \in Updatable, edit \in BOOLEAN :
           Ask("status", f, n, edit) \in Request
    <3>1. 1..forms \subseteq Form
      BY SupportNeedsAssumption DEF IInv, StoreInv, Form
    <3> QED BY <3>1, SupportNeedsAssumption, AskType DEF PageName
  <2>2. PICK r \in Request : Send(t, FirstStep(r), r)
    BY <1>6, <2>1, AskPagesType DEF Revisit
  <2> QED BY <1>3, <1>6, <2>2 DEF Revisit
<1>7. CASE FollowRedirect(t)
  <2>1. FirstStep(req[t]) \notin Starting \cup Holding
    BY AtTab, FirstStepReads DEF Starting, Holding
  <2>2. /\ Leaves(t, screen[t], FirstStep(req[t]), req[t], loc[t])
        /\ UNCHANGED <<cache, forms, api>> /\ spent' = Begun
    BY <1>7 DEF FollowRedirect, Leaves, IInv, TabInv
  <2> QED BY <2>1, <2>2, BeginningKeepsSole
<1>8. ASSUME NEW u \in Tab, pc[u] \in Resting, NEW s, NoWrite,
             UNCHANGED spent \/ spent' = [spent EXCEPT !.strayed = TRUE],
             NEW r, NEW needs, Leaves(u, s, "idle", r, needs)
      PROVE  SoleInv'
  <2>1. pc[u] # "finalDelete" /\ "idle" \in Resting
    BY <1>8 DEF Resting
  <2>2. SoleAt("idle", r, needs, cache, forms, api)
    BY Carefree DEF Starting, Holding
  <2> QED BY <1>8, <2>1, <2>2, QuietKeepsSole
<1>9. CASE Leave(t)
  <2>1. /\ Leaves(t, Elsewhere, "idle", req[t], loc[t]) /\ NoWrite /\ UNCHANGED spent
        /\ pc[t] \in Resting
    BY <1>9 DEF Leave, Leaves, IInv, TabInv, NoWrite, Resting
  <2> QED BY <1>8, <2>1
<1>10. CASE AbandonRedirect(t)
  <2>1. /\ Leaves(t, screen[t], "idle", NoRequest, NoCache) /\ NoWrite
        /\ spent' = [spent EXCEPT !.strayed = TRUE] /\ pc[t] \in Resting
    BY <1>10, EndingsLeave DEF AbandonRedirect, Resting
  <2> QED BY <1>8, <2>1
<1>11. ASSUME NEW u \in Tab, ClickAgain(t, u)
       PROVE  SoleInv'
  <2>1. /\ Leaves(u, screen[t], "idle", req[u], loc[u]) /\ NoWrite /\ UNCHANGED spent
        /\ pc[u] \in Resting
    BY <1>11 DEF ClickAgain, Leaves, IInv, TabInv, NoWrite, Resting
  <2> QED BY <1>8, <2>1
<1> QED BY <1>1, <1>2, <1>4, <1>5, <1>6, <1>7, <1>9, <1>10, <1>11 DEF Use

LEMMA SoleStep ==
    ASSUME IInv, SoleInv, [Next]_vars
    PROVE  SoleInv'
<1>1. CASE UNCHANGED vars
  BY <1>1 DEF vars, SoleInv, Undisturbed, InFlight
<1>2. CASE \E t \in Tab : Handle(t)
  BY <1>2, StartFormKeepsSole, NeedsPageKeepsSole, StatusPageKeepsSole,
     CheckAnswersKeepsSole DEF Handle
<1>3. CASE \E t \in Tab : Use(t)
  BY <1>3, UseKeepsSole
<1>4. CASE ExpireCache \/ \E t \in Tab : Crash(t)
  BY <1>4, MishapKeepsSole DEF ExpireCache, Crash
<1> QED BY <1>1, <1>2, <1>3, <1>4 DEF Next

(* From whichever tab Confirm is pressed, and however old its page, a form *)
(* that has been posted is not posted again, as long as nothing fails and  *)
(* no two requests are under way at once: FinaliseSupportNeeds has removed *)
(* the form before another request begins.                                 *)
THEOREM PostedOnce == Spec => []ConfirmedOnce
<1>1. Init => IInv /\ SoleInv
  <2> SUFFICES ASSUME Init PROVE SoleInv
    BY InitInvariant
  <2>1. \A t \in Tab : pc[t] \notin Starting \cup Holding /\ ~InFlight(t)
    BY DEF Init, Starting, Holding, InFlight
  <2> QED BY <2>1, Carefree DEF Init, SoleInv
<1>2. IInv /\ SoleInv /\ [Next]_vars => IInv' /\ SoleInv'
  BY StepInvariant, SoleStep
<1>3. IInv /\ SoleInv => ConfirmedOnce
  <2> SUFFICES ASSUME IInv, SoleInv, NEW t \in Tab, pc[t] = "finalPost", Undisturbed
               PROVE  loc[t].form \notin api
    BY DEF ConfirmedOnce, Undisturbed
  <2>1. loc[t] # NoCache /\ InFlight(t)
    BY AtTab DEF CopiesAt, InFlight
  <2>2. loc[t] = cache
    BY SoleAtTab DEF SoleAt, Holding
  <2> QED BY <2>1, <2>2, SoleAtTab
<1> QED BY <1>1, <1>2, <1>3, PTL DEF Spec
=============================================================================
