----------------------------- MODULE SpaSession -----------------------------
(***************************************************************************)
(* The page of the SPA from the sign-in form to the main app and back:     *)
(* PreSignIn.tsx, App.tsx, AuthContext.tsx, msalConfig.ts and the header   *)
(* of MainApp.tsx.  The page has one thread; what interleaves is the calls *)
(* it awaits (fetches, the start of MSAL, popups) with the user's clicks,  *)
(* the BFF and the other tabs of the browser.  A call outlives the root    *)
(* component that started it.                                              *)
(***************************************************************************)
EXTENDS Naturals, FiniteSets

CONSTANTS Users,
          Clients,    \* client ids a user may enter or leave at the default
          Ids,        \* ids of BFF sessions; one is used again once forgotten
          Slots,      \* bound on the calls under way at a time
          MountRuns,  \* runs of a mount effect: 2 under StrictMode, built 1
          None        \* no value

ASSUME SpaAssumption ==
  /\ MountRuns \in {1, 2}
  /\ None \notin Users \union Clients \union Ids \union {"page"}
  /\ Users \intersect Ids = {}

VARIABLES config,     \* the SignInConfig App renders, NoConfig for the form
          user,       \* user of the provider, or what useMsal shows
          loaded,     \* loaded of SessionAuthProvider
          pca,        \* client of the pca of MsalRoot
          initError,  \* MsalRoot shows an error
          memo,       \* _currentClientId, and the client of _msal
          call,       \* the calls the page awaits
          accounts,   \* MSAL's accounts in sessionStorage
          returning,  \* a redirect sign-in whose answer is in the URL
          cookie,     \* CMSP_SESSION
          owner       \* who each session of the BFF belongs to

root == <<user, loaded, pca, initError>>
msal == <<accounts, returning>>
bff == <<cookie, owner>>
spa == <<config, root, memo, call, msal, bff>>

NoConfig == [mode |-> "form", client |-> None]
Configs ==
  [mode : {"msal-popup", "msal-redirect"}, client : Clients]
    \union [mode : {"server-oidc"}, client : {None}]

(* The answer of a redirect sign-in.                                       *)
Answers == [client : Clients, user : Users]
NoAnswer == [client |-> None, user |-> None]

(* A call: what is asked, where the root stands that asked ("here",        *)
(* "cancelled" by StrictMode's second mount, or "gone"), the session or    *)
(* client it is for, how far it is, whom its answer names, and (history)   *)
(* whether that answer is older than a completed sign-out.                 *)
Calls == [what : {"none", "refresh", "signOut", "init", "login", "logout"},
          from : {"here", "cancelled", "gone"},
          for : Ids \union Clients \union {None},
          at : {"sent", "served", "refused"},
          who : Users \union {None},
          old : BOOLEAN]
Call(what, for, who) ==
  [what |-> what, from |-> "here", for |-> for, at |-> "sent", who |-> who,
   old |-> FALSE]
NoCall == [Call("none", None, None) EXCEPT !.from = "gone"]

SpaInit ==
  /\ config = NoConfig
  /\ user = None /\ loaded = FALSE /\ pca = None /\ initError = FALSE
  /\ memo = [id |-> None, client |-> None]
  /\ call = [s \in Slots |-> NoCall]
  /\ accounts = {} /\ returning = NoAnswer
  /\ cookie = None
  /\ owner = [i \in Ids |-> None]

-----------------------------------------------------------------------------
(* What is on the screen.                                                  *)

SessionMode == config.mode = "server-oidc"
MsalMode == config.mode \in {"msal-popup", "msal-redirect"}

Ready == IF SessionMode THEN loaded ELSE pca # None
SignInGate == config # NoConfig /\ Ready /\ user = None
MainAppShown == config # NoConfig /\ Ready /\ user # None

-----------------------------------------------------------------------------
(* Calls and roots.                                                        *)

Free == {s \in Slots : call[s].what = "none"}
Start(s, c) == call' = [call EXCEPT ![s] = c]
End(s) == Start(s, NoCall)

Begin(c) == \E s \in Free : Start(s, c)

Left(calls) == [s \in Slots |-> [calls[s] EXCEPT !.from = "gone"]]

(* setConfig(null): App renders the form, the root is unmounted.           *)
Reset ==
  /\ config' = NoConfig
  /\ user' = None /\ loaded' = FALSE /\ pca' = None /\ initError' = FALSE

(* accounts[0] of useMsal: one of the cached accounts.                     *)
FirstOf(accts) == IF accts = {} THEN {None} ELSE accts

(* What useMsal shows after an event of the instance a call went to: the   *)
(* mounted root hears it if it uses that instance, which a root of another *)
(* client never does.                                                      *)
Heard(c, accts) ==
  IF c.from = "here" /\ pca # None THEN FirstOf(accts)
  ELSE IF MsalMode /\ pca = c.for THEN FirstOf(accts) \union {user}
  ELSE {user}

GetMsalAny(client) == IF memo.client # None THEN memo.client ELSE client

(* getMsal: the memoised instance, or a new one.                           *)
GetMsal(client) == IF memo.id = client THEN memo.client ELSE client

-----------------------------------------------------------------------------
(* The form, and the roots it leads to.                                    *)

(* An effect run twice: its cleanup cancels the first run in MsalRoot, but *)
(* not in SessionAuthProvider.                                             *)
Rerun(c) == IF c.what = "init" THEN [c EXCEPT !.from = "cancelled"] ELSE c

(* Continue on the form mounts a root, whose effect asks for the session   *)
(* or starts MSAL.                                                         *)
Continue(cfg) ==
  /\ config = NoConfig
  /\ config' = cfg
  /\ LET session == cfg.mode = "server-oidc"
         inst == GetMsal(cfg.client)
         c == IF session THEN Call("refresh", cookie, None)
                         ELSE Call("init", inst, None)
     IN /\ \E runs \in SUBSET Free : \E last \in runs :
             /\ Cardinality(runs) = MountRuns
             /\ call' = [s \in Slots |-> IF s = last THEN c
                                        ELSE IF s \in runs THEN Rerun(c)
                                        ELSE call[s]]
        /\ memo' = IF session THEN memo
                   ELSE [id |-> cfg.client, client |-> inst]
  /\ UNCHANGED <<root, msal, bff>>

(* Change config, on either sign-in card and in the main app.              *)
ChangeConfig ==
  /\ SignInGate \/ MainAppShown
  /\ Reset
  /\ call' = Left(call)
  /\ UNCHANGED <<memo, msal, bff>>

(* initMsal resolves.  Its last await takes up the answer of a redirect    *)
(* sign-in of the same client, or logs why it cannot.                      *)
InitDone(s) ==
  /\ call[s].what = "init"
  /\ LET mine == returning.client = call[s].for
     IN /\ returning' = IF mine THEN NoAnswer ELSE returning
        /\ \/ accounts' = accounts
           \/ mine /\ accounts' = accounts \union {returning.user}
  /\ IF call[s].from = "here"
     THEN pca' = call[s].for /\ user' \in FirstOf(accounts')
     ELSE pca' = pca /\ user' \in Heard(call[s], accounts')
  /\ End(s)
  /\ UNCHANGED <<config, loaded, initError, memo, bff>>

(* initMsal rejects: the error is shown, cancelled run or not.             *)
InitFails(s) ==
  /\ call[s].what = "init"
  /\ initError' = (initError \/ call[s].from # "gone")
  /\ End(s)
  /\ UNCHANGED <<config, user, loaded, pca, memo, msal, bff>>

-----------------------------------------------------------------------------
(* The session provider.                                                   *)

(* Refresh in the header.                                                  *)
Refresh ==
  /\ MainAppShown /\ SessionMode
  /\ Begin(Call("refresh", cookie, None))
  /\ UNCHANGED <<config, root, memo, msal, bff>>

Owner(i) == IF i = None THEN None ELSE owner[i]

(* The BFF answers /api/auth/me for the session the call carries.          *)
ServeMe(s) ==
  /\ call[s].what = "refresh" /\ call[s].at = "sent"
  /\ Start(s, [call[s] EXCEPT !.at = "served", !.who = Owner(call[s].for)])
  /\ UNCHANGED <<config, root, memo, msal, bff>>

RefreshEndsUnloaded(s) ==
  /\ call[s].what = "refresh"
  /\ \E u \in {call[s].who, None} :
       /\ user' = IF call[s].from = "here" THEN u ELSE user
       /\ loaded' = (loaded \/ (call[s].from = "here" /\ u # None))
  /\ End(s)
  /\ UNCHANGED <<config, pca, initError, memo, msal, bff>>

(* refresh() ends with the user of the answer, or none when it is not ok   *)
(* or the fetch fails; nobody hears it when its root is gone.              *)
RefreshEnds(s) ==
  /\ call[s].what = "refresh"
  /\ \E u \in {call[s].who, None} :
       user' = IF call[s].from = "here" THEN u ELSE user
  /\ loaded' = (loaded \/ call[s].from = "here")
  /\ End(s)
  /\ UNCHANGED <<config, pca, initError, memo, msal, bff>>

(* Sign out in the header.                                                 *)
SignOut ==
  /\ MainAppShown /\ SessionMode
  /\ Begin(Call("signOut", cookie, None))
  /\ UNCHANGED <<config, root, memo, msal, bff>>

ServeSignOutKeeps(s) ==
  /\ call[s].what = "signOut" /\ call[s].at = "sent"
  /\ Start(s, [call[s] EXCEPT !.at = "served"])
  /\ UNCHANGED <<config, root, memo, msal, bff>>

(* The BFF removes the session, unless it (or what stands before it)       *)
(* answers with an error.                                                  *)
ServeSignOut(s) ==
  /\ call[s].what = "signOut" /\ call[s].at = "sent"
  /\ \/ /\ Start(s, [call[s] EXCEPT !.at = "served"])
        /\ owner' = [i \in Ids |-> IF i = call[s].for THEN None ELSE owner[i]]
     \/ Start(s, [call[s] EXCEPT !.at = "refused"]) /\ UNCHANGED owner
  /\ UNCHANGED <<config, root, memo, msal, cookie>>

(* History: answers that are older than a completed sign-out.              *)
Aged(calls) ==
  [s \in Slots |-> [calls[s] EXCEPT !.old = @ \/ calls[s].who # None]]

SignedOutInPlace(s) ==
  /\ call[s].what = "signOut" /\ call[s].at # "sent"
  /\ cookie' = IF call[s].at = "served" THEN None ELSE cookie
  /\ user' = None
  /\ call' = Aged([call EXCEPT ![s] = NoCall])
  /\ UNCHANGED <<config, loaded, pca, initError, memo, msal, owner>>

(* A sign-out was answered: its cookie header is applied, and the status   *)
(* is not looked at.  The rest of handleSignOut resets the page, whichever *)
(* root is mounted by then.                                                *)
SignedOut(s) ==
  /\ call[s].what = "signOut" /\ call[s].at # "sent"
  /\ cookie' = IF call[s].at = "served" THEN None ELSE cookie
  /\ Reset
  /\ call' = Aged(Left([call EXCEPT ![s] = NoCall]))
  /\ UNCHANGED <<memo, msal, owner>>

(* The fetch of a sign-out fails, served or not: handleSignOut rejects.    *)
SignOutFails(s) ==
  /\ call[s].what = "signOut"
  /\ End(s)
  /\ UNCHANGED <<config, root, memo, msal, bff>>

-----------------------------------------------------------------------------
(* The MSAL provider.  One interaction at a time: MSAL refuses another.    *)

Interacting == \/ returning # NoAnswer
               \/ \E s \in Slots : call[s].what \in {"login", "logout"}

(* doSignIn with a popup; the button is disabled until it ends.            *)
Login ==
  /\ SignInGate /\ config.mode = "msal-popup"
  /\ ~Interacting
  /\ Begin(Call("login", pca, None))
  /\ UNCHANGED <<config, root, memo, msal, bff>>

(* The popup ends, with the account of whoever signed in or without.       *)
LoginEnds(s) ==
  /\ call[s].what = "login"
  /\ accounts' \in {accounts} \union {accounts \union {u} : u \in Users}
  /\ user' \in Heard(call[s], accounts')
  /\ End(s)
  /\ UNCHANGED <<config, loaded, pca, initError, memo, returning, bff>>

(* refresh() in MSAL mode makes useMsal look at the accounts again.  When  *)
(* it gets no token silently it opens a popup, which ends as a login's.    *)
RefreshMsal ==
  /\ MainAppShown /\ MsalMode
  /\ user' \in FirstOf(accounts)
  /\ \/ UNCHANGED call
     \/ ~Interacting /\ Begin(Call("login", pca, None))
  /\ UNCHANGED <<config, loaded, pca, initError, memo, msal, bff>>

(* handleSignOut calls logoutPopup for the account shown.                  *)
Logout ==
  /\ MainAppShown /\ MsalMode
  /\ ~Interacting
  /\ Begin(Call("logout", pca, user))
  /\ UNCHANGED <<config, root, memo, msal, bff>>

(* logoutPopup first forgets the account, and the gate hears of it.        *)
AccountForgotten(s) ==
  /\ call[s].what = "logout" /\ call[s].at = "sent"
  /\ accounts' = accounts \ {call[s].who}
  /\ user' \in Heard(call[s], accounts')
  /\ Start(s, [call[s] EXCEPT !.at = "served"])
  /\ UNCHANGED <<config, loaded, pca, initError, memo, returning, bff>>

(* logoutPopup resolves, and handleSignOut resets the page.                *)
LoggedOut(s) ==
  /\ call[s].what = "logout" /\ call[s].at = "served"
  /\ Reset
  /\ call' = Left([call EXCEPT ![s] = NoCall])
  /\ UNCHANGED <<memo, msal, bff>>

LogoutFails(s) ==
  /\ call[s].what = "logout"
  /\ End(s)
  /\ UNCHANGED <<config, root, memo, msal, bff>>

-----------------------------------------------------------------------------
(* Leaving the page, other tabs, and the BFF.                              *)

(* The page is loaded anew: the form, no root, no call, no instance.       *)
PageLoad ==
  /\ Reset
  /\ memo' = [id |-> None, client |-> None]
  /\ call' = [s \in Slots |-> NoCall]

Reload == PageLoad /\ UNCHANGED <<msal, bff>>

(* The BFF gives the browser a session under an id nothing else uses.      *)
NewSession(u, i) ==
  /\ owner[i] = None /\ cookie # i
  /\ \A s \in Slots : call[s].for # i
  /\ cookie' = i
  /\ owner' = [owner EXCEPT ![i] = u]

(* Sign in with Server OIDC leaves the page and comes back with a cookie;  *)
(* where it fails it is a Reload.                                          *)
SignInSession(u, i) ==
  /\ SignInGate /\ SessionMode
  /\ PageLoad
  /\ NewSession(u, i)
  /\ UNCHANGED msal

(* loginRedirect leaves the page and comes back with an answer.            *)
SignInRedirect(u) ==
  /\ SignInGate /\ config.mode = "msal-redirect"
  /\ ~Interacting
  /\ PageLoad
  /\ returning' = [client |-> pca, user |-> u]
  /\ UNCHANGED <<accounts, bff>>

SignInElsewhere(u, i) ==
  /\ NewSession(u, i)
  /\ UNCHANGED <<config, root, memo, call, msal>>

(* A session ends: idle, signed out elsewhere, or a restart of the BFF.    *)
SessionEnds(i) ==
  /\ owner[i] # None
  /\ owner' = [owner EXCEPT ![i] = None]
  /\ UNCHANGED <<config, root, memo, call, msal, cookie>>

(* The cookie reaches its age, or an answer to another tab clears it.      *)
CookieGoes ==
  /\ cookie' = None
  /\ UNCHANGED <<config, root, memo, call, msal, owner>>

-----------------------------------------------------------------------------
(* Steps of the page by group: loading it anew, what changes its state,    *)
(* and what only the network or the BFF does.                              *)
Leave == \/ Reload
         \/ \E u \in Users : SignInRedirect(u) \/ \E i \in Ids : SignInSession(u, i)

PageStep ==
  \/ \E cfg \in Configs : Continue(cfg)
  \/ ChangeConfig \/ Refresh \/ SignOut \/ Login \/ RefreshMsal \/ Logout
  \/ \E s \in Slots : \/ InitDone(s) \/ InitFails(s)
                      \/ RefreshEnds(s)
                      \/ SignedOut(s) \/ SignOutFails(s)
                      \/ LoginEnds(s)
                      \/ AccountForgotten(s) \/ LoggedOut(s) \/ LogoutFails(s)

FarStep ==
  \/ \E s \in Slots : ServeMe(s) \/ ServeSignOut(s)
  \/ \E i \in Ids : SessionEnds(i) \/ \E u \in Users : SignInElsewhere(u, i)
  \/ CookieGoes

SpaNext == Leave \/ PageStep \/ FarStep

SpaSpec == SpaInit /\ [][SpaNext]_spa

-----------------------------------------------------------------------------
(* A call asks about a session, or it is of an MSAL instance.              *)
CallsFit ==
  \A s \in Slots :
    /\ call[s].what \in {"refresh", "signOut"} => call[s].for \in Ids \union {None}
    /\ call[s].what \in {"init", "login", "logout"} => call[s].for \in Clients

(* What the variables may hold.                                            *)
SpaTypeOK ==
  /\ config \in Configs \union {NoConfig}
  /\ user \in Users \union {None}
  /\ loaded \in BOOLEAN /\ initError \in BOOLEAN
  /\ pca \in Clients \union {None}
  /\ memo \in [id : Clients \union {None}, client : Clients \union {None}]
  /\ call \in [Slots -> Calls] /\ CallsFit
  /\ accounts \subseteq Users
  /\ returning \in Answers \union {NoAnswer}
  /\ cookie \in Ids \union {None}
  /\ owner \in [Ids -> Users \union {None}]

(* However the starts of MSAL for different client ids interleave with     *)
(* resets (msalConfig.ts keeps one instance for the page), a root works    *)
(* with the instance of the client id it was configured with.              *)
RootUsesOwnClient == pca # None => MsalMode /\ pca = config.client

(* Once a sign-out has completed, the end of a refresh that the BFF had    *)
(* answered before leaves the screen alone: it brings nobody back.         *)
SignOutSticks ==
  [][\A s \in Slots :
       call[s].what = "refresh" /\ call[s].old /\ call'[s] # call[s]
         => user' \in {user, None}]_spa

(* "Checking session..." and "Initializing MSAL..." are shown while a call *)
(* of that root is under way, or with an error: nothing that ends, fails   *)
(* or is cancelled leaves them up for good.                                *)
LoadingIsAwaited ==
  config # NoConfig /\ ~Ready =>
    initError \/ \E s \in Slots : /\ call[s].from = "here"
                                 /\ call[s].what \in {"refresh", "init"}

(* The BFF as the page sees it keeps the contract that ServerOidc, with    *)
(* its handlers and stores, keeps too: an answer names the owner of the    *)
(* session asked about, and no sign-out clears the cookie while the        *)
(* session it was for goes on.                                             *)
Post(s) ==
  IF call[s].what \in {"refresh", "signOut"}
  THEN [by |-> "page", id |-> call[s].for, names |-> call[s].who]
  ELSE [by |-> None, id |-> None, names |-> None]

Cookies == INSTANCE CookieContract WITH
  Browsers <- {"page"}, Messages <- Slots,
  jar  <- [b \in {"page"} |-> cookie],
  post <- [s \in Slots |-> Post(s)]

KeepsCookieContract == Cookies!KSpec
=============================================================================
