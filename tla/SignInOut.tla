------------------------------- MODULE SignInOut -------------------------------
(***************************************************************************)
(* How a member of staff is signed in: authorisationMiddleware and         *)
(* authenticationMiddleware send him to HMPPS Auth, which sends him back   *)
(* to where he was; sign-out, of his own or after an error, ends the       *)
(* session.  The page to come back to, and the state that Auth repeats,    *)
(* are in the session, one of each for all tabs.                           *)
(***************************************************************************)
EXTENDS WebRequest

(* req.session.returnTo = req.originalUrl, and to /sign-in.                *)
ToSignIn(t) ==
    /\ pc' = [pc EXCEPT ![t] = "save"]
    /\ answer' = [answer EXCEPT ![t] = RedirectTo(SignIn)]
    /\ SessionTo(t, [own[t] EXCEPT !.returnTo = OriginalUrl(req[t])], copy[t])
    /\ UNCHANGED <<redisVars, browserVars, file>>

(* authorisationMiddleware: nobody is signed in. *)
Refuse(t) == pc[t] = "refused" /\ ToSignIn(t) /\ Fine

(* authenticationMiddleware: the token has expired, or it could not be     *)
(* verified, which is the same to it.                                      *)
TokenNotVerified(t) == pc[t] = "flags" /\ Fault("session") /\ ToSignIn(t)

(* setUpCsrf: a post from a page of another session.  The error has status *)
(* 403, so the user is signed out.                                         *)
Forbid(t) == pc[t] = "forbidden" /\ Respond(t, RedirectTo(SignOut), copy[t]) /\ Fine

(* /sign-in: passport keeps the state it gives to Auth, in place of any    *)
(* other, and redirects there.  The user signs in, and Auth back again.    *)
StartSignIn(t) ==
    /\ pc[t] = "signIn"
    /\ pc' = [pc EXCEPT ![t] = "save"]
    /\ answer' = [answer EXCEPT ![t] = RedirectTo(Callback)]
    /\ SessionTo(t, [own[t] EXCEPT !.state = t], copy[t])
    /\ UNCHANGED <<redisVars, browserVars, file>>
    /\ Fine

(* Mutant of ReturnUrl: returnTo is read of the session that is new.       *)
ReturnUrlAfterwards(o) == Home

(* successReturnToOrRedirect. *)
ReturnUrl(o) == IF o.returnTo = NoPage THEN Home ELSE o.returnTo

(* Mutant of SignedIn: the user is put in the session that is destroyed.   *)
SignedInBefore(s) == OwnOf(s, FALSE)

(* req.logIn regenerates the session: a new one, with nothing but the user. *)
SignedIn(s) == OwnOf(s, TRUE)

(* /sign-in/callback, with the state that this tab was given.  The session *)
(* is saved before the redirect.                                           *)
FinishSignIn(t) ==
    /\ pc[t] = "callback"
    /\ own[t].state = t
    /\ \E s \in Sid :
          /\ NewSid(s)
          /\ store' = [store EXCEPT ![own[t].sid] = Gone, ![s] = RecordOf(SignedIn(s), NoFlash)]
          /\ SessionTo(t, SignedIn(s), NoFlash)
    /\ pc' = [pc EXCEPT ![t] = "save"]
    /\ answer' = [answer EXCEPT ![t] = RedirectTo(ReturnUrl(own[t]))]
    /\ UNCHANGED <<cookie, browserVars, file>>
    /\ Fine

(* The state is gone, or another tab's, or the token cannot be fetched.    *)
FailSignIn(t) ==
    /\ pc[t] = "callback"
    /\ \/ own[t].state # t /\ Fine /\ answer' = [answer EXCEPT ![t] = RedirectTo(AuthError)]
       \/ own[t].state = t /\ Fault("call") /\ answer' = [answer EXCEPT ![t] = OtherPage]
    /\ pc' = [pc EXCEPT ![t] = "save"]
    /\ SessionTo(t, [own[t] EXCEPT !.state = NoTab], copy[t])
    /\ UNCHANGED <<redisVars, browserVars, file>>

ShowAuthError(t) == pc[t] = "authError" /\ NextError(t, copy[t]) /\ Fine

(* /sign-out: the session is destroyed, and Auth redirects to the home     *)
(* page.  Whoever is not signed in keeps the session.                      *)
EndSession(t) ==
    /\ pc[t] = "signOut"
    /\ pc' = [pc EXCEPT ![t] = "save"]
    /\ answer' = [answer EXCEPT ![t] = RedirectTo(Home)]
    /\ IF own[t].user
       THEN /\ store' = [store EXCEPT ![own[t].sid] = Gone]
            /\ SessionTo(t, NoOwn, NoFlash)
       ELSE UNCHANGED <<store, own, copy, dirty>>
    /\ UNCHANGED <<cookie, browserVars, file>>
    /\ Fine

SignInStep(t) ==
    /\ \/ Refuse(t) \/ TokenNotVerified(t) \/ Forbid(t)
       \/ StartSignIn(t) \/ FinishSignIn(t) \/ FailSignIn(t) \/ ShowAuthError(t)
       \/ EndSession(t)
    /\ UNCHANGED flagVars
=============================================================================
