-------------------------------- MODULE Portal --------------------------------
(***************************************************************************)
(* The requests of one member of staff, in any number of tabs, to the      *)
(* pages that work on the session rather than on keys of their own: the    *)
(* composition of WebRequest, SignInOut, AssignCase and FlashForms over    *)
(* RemoteFlags.                                                            *)
(***************************************************************************)
EXTENDS SignInOut, AssignCase, FlashForms

vars == <<webVars, flagVars, done>>

TypeOK == WebTypeOK /\ done \subseteq Case

Init == WebInit /\ done = {}

Serve(t) ==
    \/ WebStep(t) /\ UNCHANGED done
    \/ SignInStep(t) /\ UNCHANGED done
    \/ AssignStep(t)
    \/ FormStep(t) /\ UNCHANGED done

Use(t) ==
    \/ BrowserStep(t) /\ UNCHANGED done
    \/ PressAssign(t)
    \/ PressSubmit(t) /\ UNCHANGED done

Next ==
    \/ \E t \in Tab : Serve(t) \/ Use(t)
    \/ (SessionExpires \/ FlagsChange) /\ UNCHANGED done

(* Node runs every step that is ready; an API answers or its call times    *)
(* out; a browser follows a redirect, and a user whom Auth asks signs in,  *)
(* or it is given up; 120 seconds pass.  Users need not do anything else.  *)
Fairness ==
    /\ \A t \in Tab : WF_vars(Serve(t)) /\ WF_vars(Redirected(t) /\ UNCHANGED done)
    /\ WF_vars(ExpireFlags /\ FlagsChange /\ UNCHANGED done)

Spec == Init /\ [][Next]_vars
FairSpec == Spec /\ Fairness

-----------------------------------------------------------------------------
(* Properties.                                                             *)

Answered(t) == pc[t] = "save" /\ ~answer[t].redirect

(* Whatever fails and whatever order the requests of the tabs are served   *)
(* and their sessions saved in, a banner names nobody whose allocation the *)
(* API has not changed: assignCases flashes after the call has succeeded.  *)
BannerWasEarned ==
    \A t \in Tab : Answered(t) => answer[t].banner.cases \subseteq done

(* If nothing fails, no two requests meet and redirects are followed, the  *)
(* banner tells of the latest change, all of it: the worker or that there  *)
(* is none now, and as many people as were chosen, named or counted.  The  *)
(* page reads six keys of the flash, and each is gone when it has.         *)
CalmBannerIsLatest ==
    calm # Disturbed => \A t \in Tab : Answered(t) /\ answer[t].banner # NoBanner =>
        LET b == answer[t].banner IN
        /\ b.cases \subseteq calm.cases
        /\ Cardinality(b.cases) + b.others = Cardinality(calm.cases)
        /\ b.to = (IF calm.to = Unassign THEN Nobody ELSE calm.to)
        /\ b.unassign = (calm.to = Unassign)

(* Under the same conditions a form shows its own errors and values only,  *)
(* though all forms of a kind share the keys of the flash.                 *)
CalmFormIsOwn ==
    calm # Disturbed => \A t \in Tab : Answered(t) => answer[t].shows \subseteq {answer[t].page}

(* With one tab, whoever is sent to sign in, because the session is over   *)
(* or the token is not verified, comes back to the page he asked for, though  *)
(* the session that knows it is destroyed on the way and calls, redirects  *)
(* or the session itself may have failed before.  Two tabs share returnTo. *)
ReturnsWhereAsked ==
    \A t \in Tab : /\ scenario.tabs = {t}
                   /\ pc[t] = "save" /\ req[t].kind = "callback"
                   /\ answer[t].redirect /\ answer[t].to # AuthError
                   => answer[t].to = asked[t]

(* With one tab, every request ends on a page, or is given up: to sign in  *)
(* leads back to the page, which does not ask to sign in again, and to     *)
(* sign out leads to the home page, which does.  Two tabs that sign in at  *)
(* once may go on for ever, each destroying the session that the other has *)
(* just been given.                                                        *)
RequestsEnd ==
    []<>(\A t \in Tab : scenario.tabs = {t} => pc[t] = "idle")

(* Once the file in S3 says read-only and stays so, there comes a time     *)
(* after which no post changes an allocation or a form: every cached copy  *)
(* expires, every fetch under way ends, and a late one cannot bring back   *)
(* the flags of before for longer than 120 seconds.                        *)
ReadOnlyTakesEffect ==
    <>[]("readOnly" \in s3) =>
        <>[](\A t \in Tab : pc[t] \notin {"change", "details"}
                            /\ (pc[t] = "write" => req[t].form = Status))
=============================================================================
