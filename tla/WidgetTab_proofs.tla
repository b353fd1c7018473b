--------------------------- MODULE WidgetTab_proofs ---------------------------
(***************************************************************************)
(* Proofs about the page (SpaSession) and its widget tab (WidgetTab), for  *)
(* any users, client ids, sessions, calls under way and widgets.           *)
(***************************************************************************)
EXTENDS WidgetTab, TLAPS

People == Users \union {None}
Keys == Ids \union Clients \union {None}

(* A call with what it is about (Calls and CallsFit).                      *)
Fits(c) ==
  /\ c \in Calls
  /\ c.what \in {"refresh", "signOut"} => c.for \in Ids \union {None}
  /\ c.what \in {"init", "login", "logout"} => c.for \in Clients

AllFit(calls) == calls \in [Slots -> Calls] /\ \A s \in Slots : Fits(calls[s])

LEMMA NewCalls ==
  /\ Fits(NoCall)
  /\ \A i \in Ids \union {None} :
       Fits(Call("refresh", i, None)) /\ Fits(Call("signOut", i, None))
  /\ \A c \in Clients, u \in People :
       /\ Fits(Call("init", c, None)) /\ Fits(Call("login", c, None))
       /\ Fits(Call("logout", c, u))
<1>1. Fits(NoCall)
  BY DEF NoCall, Call, Calls, Fits, People
<1>2. ASSUME NEW i \in Ids \union {None}
      PROVE  Fits(Call("refresh", i, None)) /\ Fits(Call("signOut", i, None))
  BY DEF Call, Calls, Fits, People
<1>3. ASSUME NEW c \in Clients, NEW u \in People
      PROVE  /\ Fits(Call("init", c, None)) /\ Fits(Call("login", c, None))
             /\ Fits(Call("logout", c, u))
  BY DEF Call, Calls, Fits, People
<1>4. QED BY <1>1, <1>2, <1>3

LEMMA ChangedCalls ==
  ASSUME NEW c, Fits(c)
  PROVE  /\ Fits([c EXCEPT !.from = "gone"])
         /\ Fits([c EXCEPT !.from = "cancelled"])
         /\ Fits([c EXCEPT !.at = "served"])
         /\ Fits([c EXCEPT !.at = "refused"])
         /\ Fits([c EXCEPT !.old = @ \/ c.who # None])
         /\ \A u \in People : Fits([c EXCEPT !.at = "served", !.who = u])
         /\ Fits(Rerun(c))
<1>1. Fits([c EXCEPT !.from = "gone"]) /\ Fits([c EXCEPT !.from = "cancelled"])
  BY DEF Fits, Calls
<1>2. Fits([c EXCEPT !.at = "served"]) /\ Fits([c EXCEPT !.at = "refused"])
  BY DEF Fits, Calls
<1>3. Fits([c EXCEPT !.old = @ \/ c.who # None])
  <2> DEFINE o == c.old \/ c.who # None
  <2>1. o \in BOOLEAN
    BY Zenon DEF Fits, Calls
  <2> HIDE DEF o
  <2>2. Fits([c EXCEPT !.old = o])
    BY <2>1 DEF Fits, Calls
  <2>3. QED BY <2>2 DEF o
<1>4. ASSUME NEW u \in People PROVE Fits([c EXCEPT !.at = "served", !.who = u])
  BY DEF Fits, Calls, People
<1>5. Fits(Rerun(c))
  BY <1>1 DEF Rerun
<1>6. QED BY <1>1, <1>2, <1>3, <1>4, <1>5

LEMMA CallsAllFit == SpaTypeOK => AllFit(call)
BY DEF SpaTypeOK, CallsFit, AllFit, Fits

LEMMA FitsType == AllFit(call)' => (call \in [Slots -> Calls] /\ CallsFit)'
BY DEF AllFit, Fits, CallsFit

LEMMA StartFits ==
  ASSUME SpaTypeOK, NEW s \in Slots, NEW c, Fits(c), Start(s, c)
  PROVE  AllFit(call)'
BY CallsAllFit DEF Start, AllFit, Fits

LEMMA EndFits ==
  ASSUME SpaTypeOK, NEW s \in Slots
  PROVE  /\ End(s) => AllFit(call)'
         /\ AllFit([call EXCEPT ![s] = NoCall])
<1>1. AllFit([call EXCEPT ![s] = NoCall])
  BY NewCalls, CallsAllFit DEF AllFit, Fits
<1>2. QED BY <1>1 DEF End, Start

LEMMA BeginFits ==
  ASSUME SpaTypeOK, NEW c, Fits(c), Begin(c)
  PROVE  AllFit(call)'
BY StartFits DEF Begin, Free

LEMMA LeftFits ==
  ASSUME NEW calls, AllFit(calls)
  PROVE  AllFit(Left(calls)) /\ AllFit(Aged(calls))
<1>1. \A s \in Slots : Fits(Left(calls)[s]) /\ Fits(Aged(calls)[s])
  BY ChangedCalls DEF Left, Aged, AllFit
<1>2. QED BY <1>1 DEF AllFit, Fits, Left, Aged

LEMMA HeardTypes ==
  ASSUME SpaTypeOK, NEW c, NEW accts \in SUBSET Users
  PROVE  FirstOf(accts) \subseteq People /\ Heard(c, accts) \subseteq People
BY DEF SpaTypeOK, FirstOf, Heard, People

LEMMA ResetTypes ==
  ASSUME Reset
  PROVE  /\ config' \in Configs \union {NoConfig}
         /\ user' \in People /\ loaded' \in BOOLEAN /\ initError' \in BOOLEAN
         /\ pca' \in Clients \union {None}
BY DEF Reset, People

(* The memoised instance is the one of the memoised client id.             *)
MemoFits == memo.id = memo.client

Typed == SpaTypeOK /\ MemoFits

LEMMA OwnInstance ==
  ASSUME MemoFits, NEW client
  PROVE  GetMsal(client) = client
BY DEF MemoFits, GetMsal

(* What is left to show once the new calls fit.                            *)
Rest ==
  /\ config \in Configs \union {NoConfig}
  /\ user \in People
  /\ loaded \in BOOLEAN /\ initError \in BOOLEAN
  /\ pca \in Clients \union {None}
  /\ memo \in [id : Clients \union {None}, client : Clients \union {None}]
  /\ MemoFits
  /\ accounts \subseteq Users
  /\ returning \in Answers \union {NoAnswer}
  /\ cookie \in Ids \union {None}
  /\ owner \in [Ids -> People]

LEMMA TypedParts ==
  /\ Typed => Rest /\ SpaTypeOK /\ AllFit(call)
  /\ Rest' /\ AllFit(call)' => Typed'
BY CallsAllFit, FitsType DEF Typed, Rest, SpaTypeOK, People

LEMMA SpaInitType == SpaInit => Typed
<1> SUFFICES ASSUME SpaInit PROVE Typed
  OBVIOUS
<1>1. call \in [Slots -> Calls] /\ CallsFit
  BY NewCalls DEF SpaInit, Fits, CallsFit
<1>2. returning \in Answers \union {NoAnswer}
  BY DEF SpaInit
<1>3. QED BY <1>1, <1>2 DEF SpaInit, SpaTypeOK, Typed, MemoFits

(* What each step of the page and of the BFF leaves typed.                 *)
LEMMA SpaStepType == Typed /\ [SpaNext]_spa => Typed'
<1> SUFFICES ASSUME Typed, [SpaNext]_spa PROVE Rest' /\ AllFit(call)'
  BY TypedParts
<1>0. Rest /\ SpaTypeOK /\ AllFit(call) /\ MemoFits
  BY TypedParts DEF Rest
<1> USE <1>0 DEF root, msal, bff
<1>f. \A s \in Slots : Fits(call[s])
  BY DEF AllFit
<1>1. ASSUME NEW cfg \in Configs, Continue(cfg) PROVE Rest' /\ AllFit(call)'
  <2> DEFINE session == cfg.mode = "server-oidc"
             c == IF session THEN Call("refresh", cookie, None)
                             ELSE Call("init", cfg.client, None)
  <2>1. ~session => cfg.client \in Clients
    BY DEF Configs
  <2>2. Fits(c)
    BY <2>1, NewCalls DEF Rest
  <2>3. Fits(Rerun(c))
    BY <2>2, ChangedCalls
  <2>4. PICK runs \in SUBSET Free : \E last \in runs :
          call' = [s \in Slots |-> IF s = last THEN c
                                   ELSE IF s \in runs THEN Rerun(c)
                                   ELSE call[s]]
    BY <1>1, OwnInstance DEF Continue
  <2>5. AllFit(call)'
    <3> HIDE DEF c
    <3>1. \A s \in Slots : Fits(call'[s])
      BY <2>2, <2>3, <2>4, <1>f
    <3>2. QED BY <2>4, <3>1 DEF AllFit, Fits
  <2>6. memo' = memo \/ (~session /\ memo' = [id |-> cfg.client, client |-> cfg.client])
    BY <1>1, OwnInstance DEF Continue
  <2>7. MemoFits' /\ memo' \in [id : Clients \union {None}, client : Clients \union {None}]
    BY <2>1, <2>6 DEF MemoFits, Rest
  <2>8. QED BY <1>1, <2>5, <2>7 DEF Continue, Rest
<1>2. CASE ChangeConfig
  BY <1>2, ResetTypes, LeftFits DEF ChangeConfig, Rest, MemoFits, AllFit
<1>3. ASSUME NEW s \in Slots, InitDone(s) PROVE Rest' /\ AllFit(call)'
  <2>1. call[s].for \in Clients
    BY <1>3, <1>f DEF InitDone, Fits
  <2>2. returning.client = call[s].for => returning.user \in Users
    BY <2>1, SpaAssumption DEF Rest, Answers, NoAnswer
  <2>3. accounts' \in SUBSET Users
    BY <1>3, <2>2 DEF InitDone, Rest
  <2>4. returning' \in Answers \union {NoAnswer}
    BY <1>3 DEF InitDone, Rest
  <2>5. user' \in People
    BY <1>3, <2>3, HeardTypes DEF InitDone
  <2>6. pca' \in Clients \union {None}
    BY <1>3, <2>1 DEF InitDone, Rest
  <2>7. QED BY <1>3, <2>3, <2>4, <2>5, <2>6, EndFits DEF InitDone, Rest, MemoFits
<1>4. ASSUME NEW s \in Slots, InitFails(s) PROVE Rest' /\ AllFit(call)'
  <2>1. initError' \in BOOLEAN
    BY <1>4, Zenon DEF InitFails
  <2>2. QED BY <1>4, <2>1, EndFits DEF InitFails, Rest, MemoFits
<1>5. CASE Refresh
  BY <1>5, NewCalls, BeginFits DEF Refresh, Rest, MemoFits
<1>6. ASSUME NEW s \in Slots, ServeMe(s) PROVE Rest' /\ AllFit(call)'
  <2>1. Owner(call[s].for) \in People
    BY <1>6, <1>f DEF ServeMe, Owner, Rest, Fits, People
  <2>2. Fits([call[s] EXCEPT !.at = "served", !.who = Owner(call[s].for)])
    BY <2>1, <1>f, ChangedCalls
  <2>3. QED BY <1>6, <2>2, StartFits DEF ServeMe, Rest, MemoFits
<1>7. ASSUME NEW s \in Slots, RefreshEnds(s) PROVE Rest' /\ AllFit(call)'
  <2>1. call[s].who \in People
    BY <1>f DEF Fits, Calls, People
  <2>2. user' \in People
    BY <1>7, <2>1 DEF RefreshEnds, Rest, People
  <2>3. loaded' \in BOOLEAN
    BY <1>7, Zenon DEF RefreshEnds
  <2>4. QED BY <1>7, <2>2, <2>3, EndFits DEF RefreshEnds, Rest, MemoFits
<1>8. CASE SignOut
  BY <1>8, NewCalls, BeginFits DEF SignOut, Rest, MemoFits
<1>9. ASSUME NEW s \in Slots, ServeSignOut(s) PROVE Rest' /\ AllFit(call)'
  <2>1. AllFit(call)'
    BY <1>9, <1>f, ChangedCalls, StartFits DEF ServeSignOut
  <2>2. owner' \in [Ids -> People]
    BY <1>9 DEF ServeSignOut, Rest, People
  <2>3. QED BY <1>9, <2>1, <2>2 DEF ServeSignOut, Rest, MemoFits
<1>10. ASSUME NEW s \in Slots, SignedOut(s) PROVE Rest' /\ AllFit(call)'
  <2>1. AllFit(Aged(Left([call EXCEPT ![s] = NoCall])))
    BY EndFits, LeftFits
  <2>2. AllFit(call)'
    BY <1>10, <2>1 DEF SignedOut
  <2>3. QED BY <1>10, <2>2, ResetTypes DEF SignedOut, Rest, MemoFits
<1>11. ASSUME NEW s \in Slots, SignOutFails(s) \/ LogoutFails(s)
       PROVE  Rest' /\ AllFit(call)'
  BY <1>11, EndFits DEF SignOutFails, LogoutFails, Rest, MemoFits
<1>12. CASE Login
  <2>1. pca \in Clients
    BY <1>12 DEF Login, SignInGate, Ready, SessionMode, Rest
  <2>2. QED BY <1>12, <2>1, NewCalls, BeginFits DEF Login, Rest, MemoFits
<1>13. ASSUME NEW s \in Slots, LoginEnds(s) PROVE Rest' /\ AllFit(call)'
  <2>1. accounts' \in SUBSET Users
    BY <1>13 DEF LoginEnds, Rest
  <2>2. user' \in People
    BY <1>13, <2>1, HeardTypes DEF LoginEnds
  <2>3. QED BY <1>13, <2>1, <2>2, EndFits DEF LoginEnds, Rest, MemoFits
<1>14. CASE RefreshMsal
  <2>1. accounts \in SUBSET Users
    BY DEF Rest
  <2>2. pca \in Clients
    BY <1>14 DEF RefreshMsal, MainAppShown, Ready, SessionMode, MsalMode, Rest
  <2>3. AllFit(call)'
    <3>1. CASE UNCHANGED call
      BY <3>1 DEF AllFit
    <3>2. CASE Begin(Call("login", pca, None))
      BY <3>2, <2>2, NewCalls, BeginFits DEF People
    <3>3. QED BY <1>14, <3>1, <3>2 DEF RefreshMsal
  <2>4. user' \in People
    BY <1>14, <2>1, HeardTypes DEF RefreshMsal
  <2>5. QED BY <1>14, <2>3, <2>4 DEF RefreshMsal, Rest, MemoFits
<1>15. CASE Logout
  <2>1. pca \in Clients
    BY <1>15 DEF Logout, MainAppShown, Ready, SessionMode, MsalMode, Rest
  <2>2. Fits(Call("logout", pca, user))
    BY <2>1, NewCalls DEF Rest
  <2>3. QED BY <1>15, <2>2, BeginFits DEF Logout, Rest, MemoFits
<1>16. ASSUME NEW s \in Slots, AccountForgotten(s) PROVE Rest' /\ AllFit(call)'
  <2>1. accounts' \in SUBSET Users
    BY <1>16 DEF AccountForgotten, Rest
  <2>2. user' \in People
    BY <1>16, <2>1, HeardTypes DEF AccountForgotten
  <2>3. AllFit(call)'
    BY <1>16, <1>f, ChangedCalls, StartFits DEF AccountForgotten
  <2>4. QED BY <1>16, <2>1, <2>2, <2>3 DEF AccountForgotten, Rest, MemoFits
<1>17. ASSUME NEW s \in Slots, LoggedOut(s) PROVE Rest' /\ AllFit(call)'
  <2>1. AllFit(Left([call EXCEPT ![s] = NoCall]))
    BY EndFits, LeftFits
  <2>2. AllFit(call)'
    BY <1>17, <2>1 DEF LoggedOut
  <2>3. QED BY <1>17, <2>2, ResetTypes DEF LoggedOut, Rest, MemoFits
<1>18. ASSUME PageLoad, accounts' = accounts, cookie' \in Ids \union {None},
              returning' \in Answers \union {NoAnswer}, owner' \in [Ids -> People]
       PROVE  Rest' /\ AllFit(call)'
  <2>1. AllFit(call)'
    BY <1>18, NewCalls DEF PageLoad, AllFit, Fits
  <2>2. QED BY <1>18, <2>1, ResetTypes DEF PageLoad, Rest, MemoFits
<1>19. CASE Leave
  <2>1. CASE Reload
    BY <2>1, <1>18 DEF Reload, Rest
  <2>2. ASSUME NEW u \in Users, NEW i \in Ids, SignInSession(u, i)
        PROVE  Rest' /\ AllFit(call)'
    BY <2>2, <1>18 DEF SignInSession, NewSession, Rest, People
  <2>3. ASSUME NEW u \in Users, SignInRedirect(u) PROVE Rest' /\ AllFit(call)'
    <3>1. pca \in Clients
      BY <2>3 DEF SignInRedirect, SignInGate, Ready, SessionMode, Rest
    <3>2. QED BY <2>3, <3>1, <1>18 DEF SignInRedirect, Answers, Rest
  <2>4. QED BY <1>19, <2>1, <2>2, <2>3 DEF Leave
<1>20. CASE FarStep
  <2>1. ASSUME NEW i \in Ids, SessionEnds(i) PROVE Rest' /\ AllFit(call)'
    BY <2>1 DEF SessionEnds, Rest, MemoFits, People, AllFit
  <2>2. ASSUME NEW i \in Ids, NEW u \in Users, SignInElsewhere(u, i)
        PROVE  Rest' /\ AllFit(call)'
    BY <2>2 DEF SignInElsewhere, NewSession, Rest, MemoFits, People, AllFit
  <2>3. CASE CookieGoes
    BY <2>3 DEF CookieGoes, Rest, MemoFits, AllFit
  <2>4. QED BY <1>20, <1>6, <1>9, <2>1, <2>2, <2>3 DEF FarStep
<1>21. CASE PageStep
  BY <1>21, <1>1, <1>2, <1>3, <1>4, <1>5, <1>7, <1>8, <1>10, <1>11, <1>12, <1>13,
     <1>14, <1>15, <1>16, <1>17 DEF PageStep
<1>22. CASE UNCHANGED spa
  BY <1>22 DEF spa, Rest, MemoFits, AllFit
<1>23. QED BY <1>19, <1>20, <1>21, <1>22 DEF SpaNext

(* The page keeps its types through every interleaving of calls: what asks *)
(* for a session names one, what starts MSAL names a client (SpaTypeOK).   *)
THEOREM SpaTypeCorrect == SpaSpec => []SpaTypeOK
<1>1. SpaInit => Typed BY SpaInitType
<1>2. Typed /\ [SpaNext]_spa => Typed' BY SpaStepType
<1>3. Typed => SpaTypeOK BY DEF Typed
<1>4. QED BY <1>1, <1>2, <1>3, PTL DEF SpaSpec

-----------------------------------------------------------------------------
(***************************************************************************)
(* Calls of the mounted root are of its own mode and client, and a call    *)
(* answered before a completed sign-out belongs to no mounted root.        *)
(***************************************************************************)
CallsOfRoot ==
  \A s \in Slots : call[s].from = "here" =>
    /\ call[s].what = "init" => MsalMode /\ call[s].for = config.client
    /\ call[s].what = "refresh" => SessionMode

OldIsGone == \A s \in Slots : call[s].old => call[s].from = "gone"

Sound == CallsOfRoot /\ OldIsGone /\ RootUsesOwnClient /\ LoadingIsAwaited

SpaInv == Typed /\ Sound

(* A call that a loading screen of the mounted root may wait for.          *)
Awaited(c) == c.from = "here" /\ c.what \in {"refresh", "init"}

SameCall(c, d) ==
  c.what = d.what /\ c.from = d.from /\ c.for = d.for /\ c.old = d.old

LEMMA SlotAfter ==
  ASSUME SpaTypeOK, NEW s \in Slots, NEW c, Start(s, c)
  PROVE  call'[s] = c /\ \A q \in Slots \ {s} : call'[q] = call[q]
BY DEF Start, SpaTypeOK

LEMMA SameCalls ==
  ASSUME NEW c, Fits(c)
  PROVE  /\ SameCall([c EXCEPT !.at = "served"], c)
         /\ SameCall([c EXCEPT !.at = "refused"], c)
         /\ \A u : SameCall([c EXCEPT !.at = "served", !.who = u], c)
BY DEF Fits, Calls, SameCall

LEMMA NoCallGone == NoCall.from = "gone"
BY DEF NoCall, Call

(* A step that resets the page leaves no root and no call of one.          *)
LEMMA ResetKeeps ==
  ASSUME Reset, \A s \in Slots : call'[s].from = "gone"
  PROVE  Sound'
BY DEF Reset, Sound, CallsOfRoot, OldIsGone, RootUsesOwnClient, LoadingIsAwaited

LEMMA LeftAreGone ==
  ASSUME NEW calls, AllFit(calls), NEW s \in Slots
  PROVE  Left(calls)[s].from = "gone" /\ Aged(Left(calls))[s].from = "gone"
<1>1. Left(calls)[s].from = "gone"
  BY DEF Left, AllFit, Fits, Calls
<1>2. Left(calls)[s] \in Calls
  BY LeftFits DEF AllFit
<1>3. Aged(Left(calls))[s].from = Left(calls)[s].from
  BY <1>2 DEF Aged, Calls
<1>4. QED BY <1>1, <1>3

(* A step that ends, answers or begins calls of a root that stays as it is *)
(* or is ready from then on.                                               *)
LEMMA RootKeeps ==
  ASSUME Sound, UNCHANGED config, Ready => Ready', initError => initError',
         pca' # None => MsalMode /\ pca' = config.client,
         \A s \in Slots :
           /\ \/ SameCall(call'[s], call[s])
              \/ call'[s].from = "gone"
              \/ /\ call'[s].old = FALSE /\ call'[s].what # "init"
                 /\ call'[s].what = "refresh" => SessionMode
           /\ Awaited(call[s]) => Ready' \/ initError' \/ Awaited(call'[s])
  PROVE  Sound'
<1>1. SessionMode' = SessionMode /\ MsalMode' = MsalMode
  BY DEF SessionMode, MsalMode
<1>2. CallsOfRoot' /\ OldIsGone'
  BY <1>1 DEF Sound, CallsOfRoot, OldIsGone, SameCall
<1>3. RootUsesOwnClient'
  BY <1>1 DEF RootUsesOwnClient
<1>4. LoadingIsAwaited'
  BY DEF Sound, LoadingIsAwaited, Awaited
<1>5. QED BY <1>2, <1>3, <1>4 DEF Sound

LEMMA SpaInitInv == SpaInit => SpaInv
<1> SUFFICES ASSUME SpaInit PROVE Sound
  BY SpaInitType DEF SpaInv
<1>1. \A s \in Slots : call[s].from = "gone"
  BY NoCallGone DEF SpaInit
<1>2. QED
  BY <1>1 DEF SpaInit, Sound, CallsOfRoot, OldIsGone, RootUsesOwnClient,
              LoadingIsAwaited

LEMMA SpaStepInv == SpaInv /\ [SpaNext]_spa => SpaInv'
<1> SUFFICES ASSUME SpaInv, [SpaNext]_spa PROVE Sound'
  BY SpaStepType DEF SpaInv
<1>0. Typed /\ Sound /\ SpaTypeOK /\ AllFit(call) /\ \A s \in Slots : Fits(call[s])
  BY TypedParts DEF SpaInv, AllFit
<1>r. pca # None => MsalMode /\ pca = config.client
  BY <1>0 DEF Sound, RootUsesOwnClient
<1> USE <1>0 DEF root, msal, bff
(* The three ways in which a call changes and its root does not. *)
<1>e. ASSUME NEW s \in Slots, End(s), UNCHANGED config, initError => initError',
             Ready => Ready', pca' # None => MsalMode /\ pca' = config.client,
             Awaited(call[s]) => Ready' \/ initError'
      PROVE  Sound'
  <2>1. call'[s].from = "gone" /\ \A q \in Slots \ {s} : call'[q] = call[q]
    BY <1>e, NoCallGone, SlotAfter DEF End
  <2>2. QED BY <1>e, <2>1, RootKeeps DEF SameCall
<1>b. ASSUME NEW what, NEW for, NEW who, Begin(Call(what, for, who)),
             UNCHANGED <<config, loaded, pca, initError>>, what # "init",
             what = "refresh" => SessionMode
      PROVE  Sound'
  <2>1. PICK s \in Free : Start(s, Call(what, for, who))
    BY <1>b DEF Begin
  <2>2. s \in Slots /\ ~Awaited(call[s])
    BY <2>1 DEF Free, Awaited
  <2> DEFINE c == Call(what, for, who)
  <2>3. c.what = what /\ c.old = FALSE
    BY DEF Call
  <2> HIDE DEF c
  <2>4. call'[s] = c /\ \A q \in Slots \ {s} : call'[q] = call[q]
    BY <2>1, <2>2, SlotAfter DEF c
  <2>5. Ready' = Ready /\ pca' = pca /\ initError' = initError /\ config' = config
    BY <1>b DEF Ready, SessionMode
  <2>6. \A q \in Slots :
          /\ \/ SameCall(call'[q], call[q])
             \/ /\ call'[q].old = FALSE /\ call'[q].what # "init"
                /\ call'[q].what = "refresh" => SessionMode
          /\ Awaited(call[q]) => Awaited(call'[q])
    BY <1>b, <2>2, <2>3, <2>4 DEF SameCall
  <2>7. QED BY <1>r, <2>5, <2>6, RootKeeps
<1>s. ASSUME NEW s \in Slots, NEW c, Start(s, c), SameCall(c, call[s]),
             UNCHANGED <<config, loaded, pca, initError>>
      PROVE  Sound'
  <2>1. \A q \in Slots : SameCall(call'[q], call[q])
    BY <1>s, SlotAfter DEF SameCall
  <2>2. \A q \in Slots : Awaited(call[q]) => Awaited(call'[q])
    BY <2>1 DEF SameCall, Awaited
  <2>3. Ready' = Ready
    BY <1>s DEF Ready, SessionMode
  <2>4. QED BY <1>s, <1>r, <2>1, <2>2, <2>3, RootKeeps
<1>u. ASSUME UNCHANGED <<config, loaded, pca, initError, call>>
      PROVE  Sound'
  BY <1>u DEF Sound, CallsOfRoot, OldIsGone, RootUsesOwnClient, LoadingIsAwaited,
              Ready, SessionMode, MsalMode
<1>1. ASSUME NEW cfg \in Configs, Continue(cfg) PROVE Sound'
  <2> DEFINE session == cfg.mode = "server-oidc"
             c == IF session THEN Call("refresh", cookie, None)
                             ELSE Call("init", cfg.client, None)
  <2>1. PICK runs \in SUBSET Free : \E last \in runs :
          call' = [s \in Slots |-> IF s = last THEN c
                                   ELSE IF s \in runs THEN Rerun(c)
                                   ELSE call[s]]
    BY <1>1, OwnInstance DEF Continue, Typed
  <2>2. PICK last \in runs :
          call' = [s \in Slots |-> IF s = last THEN c
                                   ELSE IF s \in runs THEN Rerun(c)
                                   ELSE call[s]]
    BY <2>1
  <2>3. config = NoConfig /\ config' = cfg
    BY <1>1 DEF Continue
  <2>4. \A s \in Slots : ~Awaited(call[s])
    BY <2>3 DEF Sound, CallsOfRoot, Awaited, NoConfig, MsalMode, SessionMode
  <2>5. /\ c.from = "here" /\ c.old = FALSE
        /\ session => c.what = "refresh"
        /\ ~session => c.what = "init" /\ c.for = cfg.client
    BY DEF Call
  <2>6. /\ Rerun(c).old = FALSE /\ Rerun(c).what = c.what
        /\ session => Rerun(c).from = "here"
        /\ ~session => Rerun(c).from = "cancelled"
    BY DEF Rerun, Call
  <2>7. MsalMode' = ~session /\ SessionMode' = session
    BY <2>3 DEF Configs, MsalMode, SessionMode
  <2> HIDE DEF c, session
  <2>8. CallsOfRoot'
    BY <2>2, <2>3, <2>4, <2>5, <2>6, <2>7 DEF CallsOfRoot, Awaited
  <2>9. OldIsGone'
    BY <2>2, <2>5, <2>6 DEF OldIsGone, Sound
  <2>10. RootUsesOwnClient'
    BY <1>1, <1>r, <2>3 DEF Continue, RootUsesOwnClient, NoConfig, MsalMode
  <2>11. last \in Slots /\ Awaited(call'[last])
    BY <2>2, <2>5 DEF Free, Awaited
  <2>12. LoadingIsAwaited'
    BY <2>11 DEF LoadingIsAwaited, Awaited
  <2>13. QED BY <2>8, <2>9, <2>10, <2>12 DEF Sound
<1>2. CASE ChangeConfig
  BY <1>2, LeftAreGone, ResetKeeps DEF ChangeConfig
<1>3. ASSUME NEW s \in Slots, InitDone(s) PROVE Sound'
  <2>1. CASE call[s].from = "here"
    <3>1. MsalMode /\ call[s].for = config.client /\ call[s].for \in Clients
      BY <1>3, <2>1 DEF InitDone, Sound, CallsOfRoot, Fits
    <3>2. pca' = config.client /\ config' = config /\ pca' # None
      BY <1>3, <2>1, <3>1, SpaAssumption DEF InitDone
    <3>3. Ready'
      BY <3>1, <3>2 DEF Ready, SessionMode, MsalMode
    <3>4. QED BY <1>3, <3>1, <3>2, <3>3, <1>e DEF InitDone
  <2>2. CASE call[s].from # "here"
    BY <1>3, <2>2, <1>r, <1>e DEF InitDone, Awaited, Ready, SessionMode
  <2>3. QED BY <2>1, <2>2
<1>4. ASSUME NEW s \in Slots, InitFails(s) PROVE Sound'
  BY <1>4, <1>r, <1>e DEF InitFails, Awaited, Ready, SessionMode
<1>5. CASE Refresh
  BY <1>5, <1>b DEF Refresh
<1>6. ASSUME NEW s \in Slots, ServeMe(s) PROVE Sound'
  BY <1>6, SameCalls, <1>s DEF ServeMe
<1>7. ASSUME NEW s \in Slots, RefreshEnds(s) PROVE Sound'
  <2>1. CASE call[s].from = "here"
    <3>1. SessionMode /\ loaded' /\ config' = config
      BY <1>7, <2>1 DEF RefreshEnds, Sound, CallsOfRoot
    <3>2. Ready'
      BY <3>1 DEF Ready, SessionMode
    <3>3. QED BY <1>7, <1>r, <3>2, <1>e DEF RefreshEnds
  <2>2. CASE call[s].from # "here"
    <3>1. Ready => Ready'
      BY <1>7 DEF RefreshEnds, Ready, SessionMode
    <3>2. QED BY <1>7, <2>2, <1>r, <3>1, <1>e DEF RefreshEnds, Awaited
  <2>3. QED BY <2>1, <2>2
<1>8. CASE SignOut
  BY <1>8, <1>b DEF SignOut
<1>9. ASSUME NEW s \in Slots, ServeSignOut(s) PROVE Sound'
  BY <1>9, SameCalls, <1>s DEF ServeSignOut
<1>10. ASSUME NEW s \in Slots, SignedOut(s) PROVE Sound'
  BY <1>10, EndFits, LeftAreGone, ResetKeeps DEF SignedOut
<1>11. ASSUME NEW s \in Slots, SignOutFails(s) \/ LogoutFails(s) PROVE Sound'
  BY <1>11, <1>r, <1>e DEF SignOutFails, LogoutFails, Awaited, Ready, SessionMode
<1>12. CASE Login
  BY <1>12, <1>b DEF Login
<1>13. ASSUME NEW s \in Slots, LoginEnds(s) PROVE Sound'
  BY <1>13, <1>r, <1>e DEF LoginEnds, Awaited, Ready, SessionMode
<1>14. CASE RefreshMsal
  <2>1. CASE UNCHANGED call
    BY <1>14, <2>1, <1>u DEF RefreshMsal
  <2>2. CASE Begin(Call("login", pca, None))
    BY <1>14, <2>2, <1>b DEF RefreshMsal
  <2>3. QED BY <1>14, <2>1, <2>2 DEF RefreshMsal
<1>15. CASE Logout
  BY <1>15, <1>b DEF Logout
<1>16. ASSUME NEW s \in Slots, AccountForgotten(s) PROVE Sound'
  BY <1>16, SameCalls, <1>s DEF AccountForgotten
<1>17. ASSUME NEW s \in Slots, LoggedOut(s) PROVE Sound'
  BY <1>17, EndFits, LeftAreGone, ResetKeeps DEF LoggedOut
<1>18. CASE Leave
  <2>1. PageLoad
    BY <1>18 DEF Leave, Reload, SignInSession, SignInRedirect
  <2>2. QED BY <2>1, NoCallGone, ResetKeeps DEF PageLoad
<1>19. CASE FarStep
  BY <1>19, <1>6, <1>9, <1>u DEF FarStep, SessionEnds, SignInElsewhere, CookieGoes
<1>20. CASE PageStep
  BY <1>20, <1>1, <1>2, <1>3, <1>4, <1>5, <1>7, <1>8, <1>10, <1>11, <1>12, <1>13,
     <1>14, <1>15, <1>16, <1>17 DEF PageStep
<1>21. CASE UNCHANGED spa
  BY <1>21, <1>u DEF spa
<1>22. QED BY <1>18, <1>19, <1>20, <1>21 DEF SpaNext

LEMMA SpaAlways == SpaSpec => []SpaInv
<1>1. SpaInit => SpaInv BY SpaInitInv
<1>2. SpaInv /\ [SpaNext]_spa => SpaInv' BY SpaStepInv
<1>3. QED BY <1>1, <1>2, PTL DEF SpaSpec

(* RootUsesOwnClient: a run of the effect that was cancelled or whose root *)
(* is gone sets no instance, and a run of the mounted root asked for its   *)
(* own.                                                                    *)
THEOREM OwnClient == SpaSpec => []RootUsesOwnClient
<1>1. SpaInv => RootUsesOwnClient BY DEF SpaInv, Sound
<1>2. QED BY <1>1, SpaAlways, PTL

(* LoadingIsAwaited: of the calls an effect makes, one is the root's own,  *)
(* and its end, whichever, takes the loading screen away or shows an error.*)
THEOREM NoOrphanedLoading == SpaSpec => []LoadingIsAwaited
<1>1. SpaInv => LoadingIsAwaited BY DEF SpaInv, Sound
<1>2. QED BY <1>1, SpaAlways, PTL

(* A refresh of a root that is gone ends without a trace on the screen,    *)
(* and no other step touches it but one that leaves the page.              *)
LEMMA OldRefresh ==
  ASSUME SpaInv, SpaNext, NEW s \in Slots,
         call[s].what = "refresh", call[s].old, call'[s] # call[s]
  PROVE  user' \in {user, None}
<1>0. SpaTypeOK /\ call[s].from = "gone"
  BY DEF SpaInv, Typed, Sound, OldIsGone
<1> USE <1>0 DEF root, msal, bff
<1>e. ASSUME NEW q \in Slots, End(q) PROVE q = s
  BY <1>e, SlotAfter DEF End
<1>s. ASSUME NEW q \in Slots, NEW c, Start(q, c) PROVE q = s
  BY <1>s, SlotAfter
<1>1. ASSUME NEW cfg \in Configs, Continue(cfg) PROVE FALSE
  BY <1>1 DEF Continue, Free
<1>2. CASE ChangeConfig \/ Leave
  BY <1>2 DEF ChangeConfig, Leave, Reload, SignInSession, SignInRedirect, PageLoad, Reset
<1>3. ASSUME NEW q \in Slots,
             InitDone(q) \/ InitFails(q) \/ SignOutFails(q) \/ LoginEnds(q) \/ LogoutFails(q)
      PROVE  FALSE
  BY <1>3, <1>e DEF InitDone, InitFails, SignOutFails, LoginEnds, LogoutFails
<1>4. ASSUME NEW q \in Slots, RefreshEnds(q) PROVE user' = user
  BY <1>4, <1>e DEF RefreshEnds
<1>5. ASSUME NEW q \in Slots, SignedOut(q) \/ LoggedOut(q) PROVE user' = None
  BY <1>5 DEF SignedOut, LoggedOut, Reset
<1>6. ASSUME NEW q \in Slots, AccountForgotten(q) PROVE FALSE
  BY <1>6, <1>s DEF AccountForgotten
<1>7. CASE Refresh \/ SignOut \/ FarStep
  BY <1>7 DEF Refresh, SignOut, FarStep, ServeMe, ServeSignOut, SessionEnds, SignInElsewhere, CookieGoes
<1>b. ASSUME NEW c, Begin(c) PROVE FALSE
  BY <1>b, <1>s DEF Begin, Free
<1>8. CASE Login \/ Logout
  BY <1>8, <1>b DEF Login, Logout
<1>9. CASE RefreshMsal
  BY <1>9, <1>b DEF RefreshMsal
<1>10. QED
  BY <1>1, <1>2, <1>3, <1>4, <1>5, <1>6, <1>7, <1>8, <1>9 DEF SpaNext, PageStep

(* SignOutSticks: a sign-out unmounts the provider whose refreshes are     *)
(* still to end.                                                           *)
THEOREM SignedOutForGood == SpaSpec => SignOutSticks
<1>1. SpaInv /\ [SpaNext]_spa =>
        [\A s \in Slots :
           call[s].what = "refresh" /\ call[s].old /\ call'[s] # call[s]
             => user' \in {user, None}]_spa
  BY OldRefresh
<1>2. QED BY <1>1, SpaAlways, PTL DEF SpaSpec, SignOutSticks

-----------------------------------------------------------------------------
(***************************************************************************)
(* The BFF as the page sees it keeps the cookie contract.  What that needs:*)
(* a refresh names nobody before it is served, and a session whose sign-out*)
(* was served is over, and stays so while the call carries its id.         *)
(***************************************************************************)
AsksBff(c) == c.what \in {"refresh", "signOut"}

ServedRight ==
  \A s \in Slots :
    /\ call[s].what = "refresh" /\ call[s].at = "sent" => call[s].who = None
    /\ call[s].what = "signOut" /\ call[s].at = "served" =>
         Owner(call[s].for) = None

(* What a step has to show: the invariant after it, and the contract.      *)
CookieStep == ServedRight' /\ [Cookies!KNext]_Cookies!cookieVars

SameLetter(c, d) ==
  c.what = d.what /\ c.for = d.for /\ c.at = d.at /\ c.who = d.who

Letters == [s \in Slots |-> Post(s)]
Jar == [b \in {"page"} |-> cookie]

LEMMA CookiesInit == SpaInit => ServedRight /\ Cookies!KInit
BY DEF SpaInit, ServedRight, Cookies!KInit, Cookies!NoPost, Post, NoCall, Call

LEMMA Forget ==
  ASSUME NEW s \in Slots, ~AsksBff(call[s])
  PROVE  Post(s) = Cookies!NoPost
BY DEF Post, AsksBff, Cookies!NoPost

(* Sessions end, calls end, or something happens that is no business of    *)
(* the BFF's.                                                              *)
LEMMA QuietStep ==
  ASSUME SpaTypeOK, ServedRight, UNCHANGED cookie,
         owner' \in [Ids -> People],
         \A i \in Ids : owner'[i] \in {owner[i], None},
         \A s \in Slots :
           \/ ~AsksBff(call'[s])
           \/ SameLetter(call'[s], call[s])
           \/ /\ call[s].what = "signOut" /\ Owner(call[s].for)' = None
              /\ call'[s].what = "signOut" /\ call'[s].for = call[s].for
              /\ call'[s].who = call[s].who
  PROVE  CookieStep
<1>1. ServedRight'
  BY DEF ServedRight, AsksBff, SameLetter, Owner, SpaTypeOK, CallsFit
<1>2. \A s \in Slots : Post(s)' \in {Post(s), Cookies!NoPost}
  BY DEF Post, AsksBff, SameLetter, Cookies!NoPost
<1>3. PICK M : M = {s \in Slots : Post(s)' # Post(s)}
  OBVIOUS
<1>4. PICK S : S = {i \in Ids : owner'[i] # owner[i]}
  OBVIOUS
<1>5. M \in SUBSET Cookies!UnderWay
  BY <1>2, <1>3 DEF Cookies!UnderWay
<1>6. S \in SUBSET Cookies!Live
  BY <1>4 DEF Cookies!Live
<1>7. Letters' = Cookies!WithoutPosts(M)
  BY <1>2, <1>3 DEF Letters, Cookies!WithoutPosts
<1>8. owner' = Cookies!WithoutSessions(S)
  BY <1>4 DEF Cookies!WithoutSessions
<1>9. Cookies!End(S)
  BY <1>5, <1>7, <1>8 DEF Cookies!End, Cookies!Lost, Letters
<1>10. QED BY <1>1, <1>6, <1>9 DEF Cookies!KNext, CookieStep

(* The page asks, twice where its effect runs twice.                       *)
LEMMA AskBff ==
  ASSUME SpaTypeOK, ServedRight, UNCHANGED bff, NEW M, M \subseteq Free,
         NEW what \in {"refresh", "signOut"},
         \A s \in M : call'[s] = Call(what, cookie, None),
         \A s \in Slots \ M : call'[s] = call[s]
  PROVE  CookieStep
<1> USE DEF bff
<1>1. \A s \in M : /\ call'[s].what = what /\ call'[s].for = cookie
                   /\ call'[s].at = "sent" /\ call'[s].who = None
  BY DEF Call
<1>2. ServedRight'
  BY <1>1 DEF ServedRight, Owner
<1>3. \A s \in M : /\ Post(s) = Cookies!NoPost
                   /\ Post(s)' = [by |-> "page", id |-> cookie, names |-> None]
  BY <1>1 DEF Post, Free, Cookies!NoPost
<1>4. \A s \in Slots \ M : Post(s)' = Post(s)
  BY DEF Post
<1>5. M \in SUBSET (Slots \ Cookies!UnderWay)
  BY <1>3 DEF Cookies!UnderWay, Free
<1>6. Cookies!Ask("page")
  BY <1>3, <1>4, <1>5 DEF Cookies!Ask
<1>7. QED BY <1>2, <1>6 DEF Cookies!KNext, CookieStep

(* A browser gets the cookie of a new session.                             *)
LEMMA SignInStep ==
  ASSUME SpaTypeOK, ServedRight, NEW u \in Users, NEW i \in Ids,
         NewSession(u, i), \A s \in Slots : call'[s] \in {call[s], NoCall}
  PROVE  CookieStep
<1>1. \A s \in Slots : call[s].for # i
  BY DEF NewSession
<1>2. \A s \in Slots : call'[s] = call[s] \/ ~AsksBff(call'[s])
  BY DEF AsksBff, NoCall, Call
<1>3. ServedRight'
  BY <1>1, <1>2 DEF ServedRight, AsksBff, Owner, NewSession, SpaTypeOK, CallsFit
<1>4. \A s \in Slots : Post(s)' \in {Post(s), Cookies!NoPost}
  BY <1>2 DEF Post, AsksBff, Cookies!NoPost
<1>5. PICK M : M = {s \in Slots : Post(s)' # Post(s)}
  OBVIOUS
<1>6. M \in SUBSET Cookies!UnderWay
  BY <1>4, <1>5 DEF Cookies!UnderWay
<1>7. Letters' = Cookies!WithoutPosts(M)
  BY <1>4, <1>5 DEF Letters, Cookies!WithoutPosts
<1>8. ~Cookies!Held(i)
  <2>1. \A s \in Slots : Post(s).id # i
    BY <1>1, SpaAssumption DEF Post
  <2>2. QED BY <2>1 DEF Cookies!Held, NewSession
<1>9. Jar' = [Jar EXCEPT !["page"] = i]
  BY DEF Jar, NewSession
<1>10. Cookies!SignIn("page", i, u)
  BY <1>6, <1>7, <1>8, <1>9
     DEF Cookies!SignIn, Cookies!Lost, Letters, Jar, NewSession
<1>11. i \in Ids \ Cookies!Live
  BY DEF Cookies!Live, NewSession
<1>12. QED BY <1>3, <1>10, <1>11 DEF Cookies!KNext, CookieStep

LEMMA LettersAre ==
  /\ Letters = [s \in Slots |-> Letters[s]]
  /\ Letters' = [s \in Slots |-> Letters'[s]]
  /\ \A s \in Slots : Letters[s] = Post(s) /\ Letters'[s] = Post(s)'
BY DEF Letters

LEMMA NamesSet ==
  ASSUME NEW f, NEW g, NEW s \in Slots, NEW b, NEW i, NEW x, NEW y,
         f = [q \in Slots |-> f[q]], g = [q \in Slots |-> g[q]],
         f[s] = [by |-> b, id |-> i, names |-> x],
         g[s] = [by |-> b, id |-> i, names |-> y],
         \A q \in Slots : q # s => g[q] = f[q]
  PROVE  g = [f EXCEPT ![s].names = y]
OBVIOUS

(* An answer names the owner of the session.                               *)
LEMMA NameStep ==
  ASSUME SpaTypeOK, ServedRight, NEW s \in Slots, ServeMe(s)
  PROVE  CookieStep
<1> USE DEF root, msal, bff
<1>1. PICK o : o = Owner(call[s].for)
  OBVIOUS
<1>2. /\ call'[s] = [call[s] EXCEPT !.at = "served", !.who = o]
      /\ \A q \in Slots \ {s} : call'[q] = call[q]
      /\ UNCHANGED <<cookie, owner>>
      /\ call[s].what = "refresh" /\ call[s].at = "sent"
  BY <1>1, SlotAfter DEF ServeMe
<1>3. /\ call'[s].what = "refresh" /\ call'[s].for = call[s].for
      /\ call'[s].at = "served" /\ call'[s].who = o
  <2>1. call[s] \in Calls
    BY DEF SpaTypeOK
  <2>2. QED BY <1>2, <2>1 DEF Calls
<1>4. ServedRight'
  <2>1. \A q \in Slots : q = s \/ call'[q] = call[q]
    BY <1>2
  <2>2. owner' = owner
    BY <1>2
  <2>3. QED BY <1>3, <2>1, <2>2, SMTT(30) DEF ServedRight, Owner
<1>5. /\ Post(s) = [by |-> "page", id |-> call[s].for, names |-> None]
      /\ Post(s)' = [by |-> "page", id |-> call[s].for, names |-> o]
  BY <1>2, <1>3 DEF Post, ServedRight
<1>6. \A q \in Slots : q # s => Post(q)' = Post(q)
  BY <1>2 DEF Post
<1>7. Letters' = [Letters EXCEPT ![s].names = o]
  BY <1>5, <1>6, LettersAre, NamesSet
<1>8. s \in Cookies!UnderWay
  BY <1>5, SpaAssumption DEF Cookies!UnderWay, Cookies!NoPost
<1>9. Cookies!OwnerOf(call[s].for) = o
  BY <1>1 DEF Cookies!OwnerOf, Owner
<1>10. Letters[s].names = None /\ Letters[s].id = call[s].for
  BY <1>5, LettersAre
<1>11. Cookies!Name(s)
  BY <1>2, <1>7, <1>9, <1>10 DEF Cookies!Name, Letters
<1>12. QED BY <1>4, <1>8, <1>11 DEF Cookies!KNext, CookieStep

(* A sign-out that was served clears the cookie.                           *)
LEMMA ClearStep ==
  ASSUME SpaTypeOK, ServedRight, NEW s \in Slots,
         call[s].what = "signOut", call[s].at = "served",
         cookie' = None, UNCHANGED owner, ~AsksBff(call'[s]),
         \A q \in Slots : q # s => SameLetter(call'[q], call[q])
  PROVE  CookieStep
<1>1. ServedRight'
  BY DEF ServedRight, AsksBff, SameLetter, Owner
<1>2. /\ Post(s) = [by |-> "page", id |-> call[s].for, names |-> call[s].who]
      /\ Post(s)' = Cookies!NoPost
  BY DEF Post, AsksBff, Cookies!NoPost
<1>3. \A q \in Slots : q # s => Post(q)' = Post(q)
  BY DEF Post, SameLetter
<1>4. Letters' = Cookies!WithoutPosts({s})
  BY <1>2, <1>3 DEF Letters, Cookies!WithoutPosts
<1>5. Letters[s].by = "page" /\ Letters[s].id = call[s].for
  BY <1>2, LettersAre
<1>6. Cookies!OwnerOf(call[s].for) = None
  BY DEF Cookies!OwnerOf, Owner, ServedRight
<1>7. Jar' = [Jar EXCEPT ![Letters[s].by] = None]
  BY <1>5 DEF Jar
<1>8. Cookies!Clear(s)
  BY <1>4, <1>5, <1>6, <1>7 DEF Cookies!Clear, Letters, Jar
<1>9. s \in Cookies!UnderWay
  BY <1>2, SpaAssumption DEF Cookies!UnderWay, Cookies!NoPost
<1>10. QED BY <1>1, <1>8, <1>9 DEF Cookies!KNext, CookieStep

AgedCall(c) == [c EXCEPT !.old = @ \/ c.who # None]
LeftCall(c) == [c EXCEPT !.from = "gone"]

LEMMA AgedKeepsLetter ==
  ASSUME NEW c \in Calls
  PROVE  SameLetter(AgedCall(LeftCall(c)), c)
BY DEF SameLetter, AgedCall, LeftCall, Calls

LEMMA CookiesStep ==
  ASSUME SpaTypeOK, ServedRight, [SpaNext]_spa
  PROVE  CookieStep
<1> USE DEF root, msal, bff
<1>t. /\ owner \in [Ids -> People]
      /\ call \in [Slots -> Calls]
  BY DEF SpaTypeOK, People
<1>n. ~AsksBff(NoCall) /\ \A c, u : ~AsksBff(Call("init", c, u))
         /\ ~AsksBff(Call("login", c, u)) /\ ~AsksBff(Call("logout", c, u))
  BY DEF AsksBff, NoCall, Call
<1>r. \A c : SameLetter(c, c)
  BY DEF SameLetter
<1>g. \A c \in Calls : /\ SameLetter([c EXCEPT !.from = "gone"], c)
                       /\ SameLetter([c EXCEPT !.old = @ \/ c.who # None], c)
  BY DEF SameLetter, Calls
<1>q. ASSUME UNCHANGED <<cookie, owner>>,
             \A s \in Slots : ~AsksBff(call'[s]) \/ SameLetter(call'[s], call[s])
      PROVE  CookieStep
  BY <1>q, <1>t, QuietStep
<1>s. ASSUME NEW s \in Slots, NEW c, Start(s, c), ~AsksBff(c),
             UNCHANGED <<cookie, owner>>
      PROVE  CookieStep
  BY <1>s, <1>q, <1>r, SlotAfter
<1>e. ASSUME NEW s \in Slots, End(s), UNCHANGED <<cookie, owner>>
      PROVE  CookieStep
  BY <1>e, <1>s, <1>n DEF End
<1>b. ASSUME NEW what \in {"refresh", "signOut"},
             Begin(Call(what, cookie, None)), UNCHANGED <<cookie, owner>>
      PROVE  CookieStep
  <2>1. PICK s \in Free : Start(s, Call(what, cookie, None))
    BY <1>b DEF Begin
  <2>2. /\ call'[s] = Call(what, cookie, None)
        /\ \A q \in Slots \ {s} : call'[q] = call[q]
    BY <2>1, SlotAfter DEF Free
  <2>3. PICK M : /\ M \subseteq Free
                 /\ \A q \in M : call'[q] = Call(what, cookie, None)
                 /\ \A q \in Slots \ M : call'[q] = call[q]
    BY <2>2
  <2>4. QED BY <1>b, <2>3, AskBff
<1>m. ASSUME NEW c, ~AsksBff(c), Begin(c), UNCHANGED <<cookie, owner>>
      PROVE  CookieStep
  BY <1>m, <1>s DEF Begin, Free
<1>1. ASSUME NEW cfg \in Configs, Continue(cfg) PROVE CookieStep
  <2>1. CASE cfg.mode = "server-oidc"
    <3>1. PICK runs \in SUBSET Free :
            call' = [s \in Slots |-> IF s \in runs THEN Call("refresh", cookie, None)
                                     ELSE call[s]]
      BY <1>1, <2>1 DEF Continue, Rerun, Call
    <3>2. /\ \A s \in runs : call'[s] = Call("refresh", cookie, None)
          /\ \A s \in Slots \ runs : call'[s] = call[s]
      BY <3>1 DEF Free
    <3>3. UNCHANGED bff
      BY <1>1 DEF Continue
    <3>4. QED BY <3>2, <3>3, AskBff
  <2>2. CASE cfg.mode # "server-oidc"
    <3> DEFINE c == Call("init", GetMsal(cfg.client), None)
    <3>1. ~AsksBff(c) /\ ~AsksBff(Rerun(c))
      BY DEF AsksBff, Rerun, Call
    <3>2. /\ UNCHANGED <<cookie, owner>>
          /\ \E runs \in SUBSET Free : \E last \in runs :
               call' = [s \in Slots |-> IF s = last THEN c
                                        ELSE IF s \in runs THEN Rerun(c)
                                        ELSE call[s]]
      BY <1>1, <2>2 DEF Continue
    <3> HIDE DEF c
    <3>3. \A s \in Slots : ~AsksBff(call'[s]) \/ SameLetter(call'[s], call[s])
      BY <3>1, <3>2, <1>r
    <3>4. QED BY <3>2, <3>3, <1>q
  <2>3. QED BY <2>1, <2>2
<1>2. CASE ChangeConfig
  BY <1>2, <1>q, <1>g, <1>t DEF ChangeConfig, Left
<1>3. ASSUME NEW s \in Slots,
             \/ InitDone(s) \/ InitFails(s) \/ RefreshEnds(s) \/ SignOutFails(s)
             \/ LoginEnds(s) \/ LogoutFails(s)
      PROVE  CookieStep
  BY <1>3, <1>e DEF InitDone, InitFails, RefreshEnds, SignOutFails, LoginEnds,
     LogoutFails
<1>4. CASE Refresh \/ SignOut
  BY <1>4, <1>b DEF Refresh, SignOut
<1>5. CASE Login \/ Logout
  BY <1>5, <1>m, <1>n DEF Login, Logout
<1>6. CASE RefreshMsal
  BY <1>6, <1>q, <1>r, <1>m, <1>n DEF RefreshMsal
<1>7. ASSUME NEW s \in Slots, AccountForgotten(s) PROVE CookieStep
  <2>1. ~AsksBff([call[s] EXCEPT !.at = "served"])
    BY <1>7, <1>t DEF AccountForgotten, AsksBff, Calls
  <2>2. QED BY <1>7, <2>1, <1>s DEF AccountForgotten
<1>8. ASSUME NEW s \in Slots, LoggedOut(s) PROVE CookieStep
  <2>1. /\ UNCHANGED <<cookie, owner>>
        /\ call'[s] = [NoCall EXCEPT !.from = "gone"]
        /\ \A q \in Slots : q # s => call'[q] = [call[q] EXCEPT !.from = "gone"]
    BY <1>8, <1>t DEF LoggedOut, Left
  <2>2. ~AsksBff([NoCall EXCEPT !.from = "gone"])
    BY DEF AsksBff, NoCall, Call
  <2>3. QED BY <2>1, <2>2, <1>q, <1>g, <1>t
<1>9. ASSUME NEW s \in Slots, SignedOut(s) PROVE CookieStep
  <2>1. \A q \in Slots :
          call'[q] = IF q = s THEN AgedCall(LeftCall(NoCall))
                              ELSE AgedCall(LeftCall(call[q]))
    BY <1>9, <1>t DEF SignedOut, Aged, Left, AgedCall, LeftCall
  <2>2. ~AsksBff(call'[s])
    BY <2>1, AgedKeepsLetter, NewCalls DEF Fits, SameLetter, AsksBff, NoCall, Call
  <2>3. \A q \in Slots : q # s => SameLetter(call'[q], call[q])
    BY <2>1, <1>t, AgedKeepsLetter
  <2>4. CASE call[s].at = "served"
    BY <1>9, <2>2, <2>3, <2>4, ClearStep DEF SignedOut
  <2>5. CASE call[s].at # "served"
    BY <1>9, <2>2, <2>3, <2>5, <1>q DEF SignedOut
  <2>6. QED BY <2>4, <2>5
<1>10. CASE Reload \/ \E u \in Users : SignInRedirect(u)
  BY <1>10, <1>q, <1>n DEF Reload, SignInRedirect, PageLoad
<1>11. ASSUME NEW u \in Users, NEW i \in Ids,
              SignInSession(u, i) \/ SignInElsewhere(u, i)
       PROVE  CookieStep
  BY <1>11, SignInStep DEF SignInSession, SignInElsewhere, PageLoad
<1>12. ASSUME NEW s \in Slots, ServeMe(s) PROVE CookieStep
  BY <1>12, NameStep
<1>13. ASSUME NEW s \in Slots, ServeSignOut(s) PROVE CookieStep
  <2>1. PICK at \in {"served", "refused"} :
          /\ Start(s, [call[s] EXCEPT !.at = at])
          /\ IF at = "refused" THEN UNCHANGED owner
             ELSE owner' = [i \in Ids |-> IF i = call[s].for THEN None ELSE owner[i]]
    BY <1>13 DEF ServeSignOut
  <2>2. /\ call'[s] = [call[s] EXCEPT !.at = at] /\ call[s].what = "signOut"
        /\ \A q \in Slots \ {s} : call'[q] = call[q]
    BY <1>13, <2>1, SlotAfter DEF ServeSignOut
  <2>3. /\ call'[s].what = "signOut" /\ call'[s].for = call[s].for
        /\ call'[s].who = call[s].who /\ call'[s].at = at
    BY <2>2, <1>t DEF Calls
  <2>4. /\ owner' \in [Ids -> People] /\ UNCHANGED cookie
        /\ \A i \in Ids : owner'[i] \in {owner[i], None}
    BY <1>13, <2>1, <1>t DEF ServeSignOut, People
  <2>5. CASE at = "served"
    <3>1. Owner(call[s].for)' = None
      BY <2>1, <2>2, <2>3, <2>5 DEF Owner, SpaTypeOK, CallsFit
    <3>2. QED BY <2>2, <2>3, <2>4, <3>1, <1>r, QuietStep
  <2>6. CASE at = "refused"
    <3>1. ServedRight'
      <4>1. UNCHANGED owner
        BY <2>1, <2>6
      <4>2. \A q \in Slots \ {s} : call'[q] = call[q]
        BY <2>2
      <4>3. QED BY <2>3, <2>6, <4>1, <4>2 DEF ServedRight, Owner
    <3>2. UNCHANGED <<Letters, Jar, owner>>
      BY <2>1, <2>2, <2>3, <2>4, <2>6 DEF Letters, Post, Jar
    <3>3. QED BY <3>1, <3>2 DEF CookieStep, Cookies!cookieVars, Letters, Jar
  <2>7. QED BY <2>5, <2>6
<1>14. ASSUME NEW i \in Ids, SessionEnds(i) PROVE CookieStep
  BY <1>14, <1>t, <1>r, QuietStep DEF SessionEnds, People
<1>15. CASE CookieGoes
  <2>1. ServedRight'
    BY <1>15 DEF CookieGoes, ServedRight, Owner
  <2>2. Jar' = [b \in {"page"} |-> IF b \in {"page"} THEN None ELSE Jar[b]]
    BY <1>15 DEF CookieGoes, Jar
  <2>3. UNCHANGED Letters
    BY <1>15 DEF CookieGoes, Letters, Post
  <2>4. Cookies!Expire({"page"})
    BY <1>15, <2>2, <2>3 DEF CookieGoes, Cookies!Expire, Letters, Jar
  <2>5. {"page"} \in SUBSET {"page"}
    OBVIOUS
  <2>6. Cookies!KNext
    BY <2>4, <2>5 DEF Cookies!KNext
  <2>7. QED BY <2>1, <2>6 DEF CookieStep
<1>16. CASE UNCHANGED spa
  BY <1>16, <1>q, <1>r DEF spa
<1>17. QED
  BY <1>1, <1>2, <1>3, <1>4, <1>5, <1>6, <1>7, <1>8, <1>9, <1>10, <1>11, <1>12,
     <1>13, <1>14, <1>15, <1>16 DEF SpaNext, Leave, PageStep, FarStep

(* The BFF of the page model keeps the contract of the real one.           *)
THEOREM PageSeesContract == SpaSpec => KeepsCookieContract
<1>1. SpaTypeOK /\ ServedRight /\ [SpaNext]_spa
        => ServedRight' /\ [Cookies!KNext]_Cookies!cookieVars
  BY CookiesStep DEF CookieStep
<1>2. QED BY <1>1, CookiesInit, SpaTypeCorrect, PTL
          DEF SpaSpec, KeepsCookieContract, Cookies!KSpec

-----------------------------------------------------------------------------
(***************************************************************************)
(* The widget tab.  Whatever it does, the page below it takes a step of    *)
(* its own or none, so that what was proved of the page holds here.        *)
(***************************************************************************)
LEMMA PageBelow ==
  /\ Init => SpaInit
  /\ [Next]_vars => [SpaNext]_spa
<1>1. TabStep \/ AskStep => UNCHANGED spa
  BY DEF TabStep, AskStep, SwitchTab, Register, ChooseFlow, Inject, Invoke,
     ServeToken, AskEnds
<1>2. QED BY <1>1 DEF Init, Next, vars, SpaNext

(* The page with its widget tab is a page: invoking the callback, choosing *)
(* flows and changing tabs disturb neither its calls nor the BFF.          *)
THEOREM WidgetTabRefinesPage == Spec => SpaSpec
BY PageBelow, PTL DEF Spec, SpaSpec

LEMMA PageAlways == Spec => []SpaInv
BY WidgetTabRefinesPage, SpaAlways

(* So what holds of the page holds with the tab: the root's own MSAL       *)
(* instance, loading screens that end, sign-outs that stick, and the       *)
(* contract of the BFF (KeepsCookieContract).                              *)
THEOREM PageHoldsWithTab ==
  Spec => /\ []RootUsesOwnClient
          /\ []LoadingIsAwaited
          /\ SignOutSticks
          /\ KeepsCookieContract
BY WidgetTabRefinesPage, OwnClient, NoOrphanedLoading, SignedOutForGood,
   PageSeesContract

WidgetTyped ==
  /\ tab \in {"widget", "other"} /\ flow \in Flows /\ due \in BOOLEAN
  /\ callback \in Closures \union {NoClosure}
  /\ script \in [Widgets -> Scripts]
  /\ ask \in [Widgets -> Asks]

LEMMA NoAskTypes == NoAsk \in Asks /\ NoScript \in Scripts
BY DEF NoAsk, Asks, NoScript, Scripts

LEMMA AuthTypes ==
  ASSUME SpaTypeOK, NEW f \in Flows
  PROVE  AuthOf(f) \in Closures
BY DEF SpaTypeOK, AuthOf, Closures

(* A shown main app has a user, and its instance in MSAL mode.             *)
LEMMA ShownHasUser ==
  ASSUME SpaTypeOK
  PROVE  /\ MainAppShown => user \in Users
         /\ MainAppShown /\ ~SessionMode => pca # None
BY DEF SpaTypeOK, MainAppShown, Ready

LEMMA OfferedTypes == SpaTypeOK => Offered \in SUBSET Users
BY ShownHasUser DEF Offered, Settled, Visible

LEMMA OfferedToTypes ==
  ASSUME NEW s \in Scripts
  PROVE  OfferedTo(s) \in SUBSET Users
BY DEF OfferedTo, Scripts

(* What a function asks for, and the invocations AskWith leaves.           *)
AsksFor(c) == IF c.mode = "session" THEN cookie ELSE c.account

LEMMA AsksForTypes ==
  ASSUME SpaTypeOK, NEW c \in Closures \union {NoClosure}
  PROVE  AsksFor(c) \in Ids \union Users \union {None}
BY DEF AsksFor, SpaTypeOK, Closures, NoClosure

LEMMA AskedWith ==
  ASSUME ask \in [Widgets -> Asks], NEW w \in Widgets, NEW c, NEW may,
         AskWith(w, c, may), AsksFor(c) \in Ids \union Users \union {None},
         may \in SUBSET Users
  PROVE  /\ ask' \in [Widgets -> Asks]
         /\ \A q \in Widgets :
              \/ ask'[q] = ask[q]
              \/ q = w /\ ask'[q] = NoAsk
              \/ /\ q = w /\ ~Refused(c)
                 /\ ask'[q].for = AsksFor(c) /\ ask'[q].may = may
                 /\ ask'[q].token = None
<1> DEFINE a == [NoAsk EXCEPT !.at = "asking", !.for = AsksFor(c), !.may = may]
<1>1. a \in Asks /\ a.for = AsksFor(c) /\ a.may = may /\ a.token = None
  BY DEF NoAsk, Asks
<1>2. ask' = [ask EXCEPT ![w] = IF Refused(c) THEN NoAsk ELSE a]
  BY DEF AskWith, AsksFor
<1> HIDE DEF a
<1>3. QED BY <1>1, <1>2, NoAskTypes

LEMMA HolderTypes ==
  ASSUME SpaTypeOK, NEW x \in Ids \union Users \union {None}
  PROVE  Holder(x) \in People
BY DEF Holder, Owner, SpaTypeOK, People

(* A step of the page and one of the BFF leave the widget's record of      *)
(* itself typed: due follows from what is shown.                           *)
LEMMA RenderedTypes ==
  ASSUME WidgetTyped, Rendered
  PROVE  (tab \in {"widget", "other"} /\ flow \in Flows /\ due \in BOOLEAN)'
<1>1. tab' \in {"widget", "other"} /\ flow' \in Flows
  BY FlowAssumption DEF WidgetTyped, Rendered, Default
<1>2. due' \in BOOLEAN
  <2>1. CASE MainAppShown /\ MainAppShown'
    BY <2>1, Zenon DEF Rendered
  <2>2. CASE ~(MainAppShown /\ MainAppShown')
    <3>1. due' = MainAppShown'
      BY <2>2 DEF Rendered
    <3>2. MainAppShown' \in BOOLEAN
      BY Zenon DEF MainAppShown
    <3>3. QED BY <3>1, <3>2
  <2>3. QED BY <2>1, <2>2
<1>3. QED BY <1>1, <1>2

LEMMA WidgetInitType == Init => WidgetTyped
<1> SUFFICES ASSUME Init PROVE WidgetTyped
  OBVIOUS
<1>1. due \in BOOLEAN
  BY Zenon DEF Init
<1>2. QED BY <1>1, NoAskTypes, FlowAssumption DEF Init, WidgetTyped, Default

LEMMA WidgetStepType ==
  ASSUME SpaTypeOK, WidgetTyped, [Next]_vars
  PROVE  WidgetTyped'
<1> USE DEF widgetUi, widget
<1>1. CASE /\ Leave /\ Rendered /\ callback' = NoClosure
           /\ script' = [w \in Widgets |-> NoScript]
           /\ ask' = [w \in Widgets |-> NoAsk]
  BY <1>1, RenderedTypes, NoAskTypes DEF WidgetTyped
<1>2. CASE PageStep /\ Rendered /\ UNCHANGED <<callback, script, ask>>
  BY <1>2, RenderedTypes DEF WidgetTyped
<1>3. CASE UNCHANGED widget
  BY <1>3 DEF WidgetTyped
<1>4. CASE SwitchTab
  <2>1. due' \in BOOLEAN
    BY <1>4, Zenon DEF SwitchTab
  <2>2. QED BY <1>4, <2>1, FlowAssumption DEF SwitchTab, WidgetTyped, Default
<1>5. CASE Register
  <2>1. due' \in BOOLEAN
    BY <1>5, Zenon DEF Register
  <2>2. QED BY <1>5, <2>1, AuthTypes DEF Register, WidgetTyped
<1>6. ASSUME NEW f \in Flows, ChooseFlow(f) PROVE WidgetTyped'
  <2>1. due' \in BOOLEAN
    BY <1>6, Zenon DEF ChooseFlow
  <2>2. QED BY <1>6, <2>1 DEF ChooseFlow, WidgetTyped
<1>7. ASSUME NEW w \in Widgets, Invoke(w) PROVE WidgetTyped'
  <2>1. script[w] \in Scripts /\ script[w].fn \in Closures \union {NoClosure}
    BY DEF WidgetTyped, Scripts
  <2>2. CASE AskWith(w, callback, Offered)
    <3>1. ask' \in [Widgets -> Asks]
      BY <2>2, AskedWith, AsksForTypes, OfferedTypes DEF WidgetTyped
    <3>2. QED BY <1>7, <3>1 DEF Invoke, WidgetTyped
  <2>3. CASE AskWith(w, script[w].fn, OfferedTo(script[w]))
    <3>1. ask' \in [Widgets -> Asks]
      BY <2>1, <2>3, AskedWith, AsksForTypes, OfferedToTypes DEF WidgetTyped
    <3>2. QED BY <1>7, <3>1 DEF Invoke, WidgetTyped
  <2>4. QED BY <1>7, <2>2, <2>3 DEF Invoke
<1>8. ASSUME NEW w \in Widgets, ServeToken(w) PROVE WidgetTyped'
  <2>1. ask[w] \in Asks
    BY DEF WidgetTyped
  <2>2. Holder(ask[w].for) \in People
    BY <2>1, HolderTypes DEF Asks
  <2>3. ask' \in [Widgets -> Asks]
    BY <1>8, <2>1, <2>2 DEF ServeToken, WidgetTyped, Asks, People
  <2>4. QED BY <1>8, <2>3 DEF ServeToken, WidgetTyped
<1>9. ASSUME NEW w \in Widgets, AskEnds(w) PROVE WidgetTyped'
  BY <1>9, NoAskTypes DEF AskEnds, WidgetTyped
<1>10. ASSUME NEW w \in Widgets, Inject(w) PROVE WidgetTyped'
  <2> DEFINE may == IF flow = "none" THEN {}
                    ELSE IF SessionMode THEN Users ELSE {user}
             s == [fn |-> callback, offered |-> may]
  <2>1. may \in SUBSET Users
    BY <1>10, ShownHasUser DEF Inject, Visible
  <2> HIDE DEF may
  <2>2. s \in Scripts
    BY <2>1 DEF WidgetTyped, Scripts
  <2>3. script' = [script EXCEPT ![w] = s]
    BY <1>10 DEF Inject, may
  <2> HIDE DEF s
  <2>4. script' \in [Widgets -> Scripts]
    BY <2>2, <2>3 DEF WidgetTyped
  <2>5. QED BY <1>10, <2>4 DEF Inject, WidgetTyped
<1>11. QED
  BY <1>1, <1>2, <1>3, <1>4, <1>5, <1>6, <1>7, <1>8, <1>9, <1>10
     DEF Next, TabStep, AskStep, vars

(* The page with its widget tab keeps its types (TypeOK).                  *)
THEOREM TypeCorrect == Spec => []TypeOK
<1>1. Init => WidgetTyped BY WidgetInitType
<1>2. SpaInv /\ WidgetTyped /\ [Next]_vars => WidgetTyped'
  BY WidgetStepType DEF SpaInv, Typed
<1>3. SpaInv /\ WidgetTyped => TypeOK
  BY DEF SpaInv, Typed, WidgetTyped, TypeOK
<1>4. QED BY <1>1, <1>2, <1>3, PageAlways, PTL DEF Spec

-----------------------------------------------------------------------------
(***************************************************************************)
(* The callback, and what a widget is given.                               *)
(***************************************************************************)

(* As long as a main app stays on the screen its root stays the same.      *)
LEMMA RootStays ==
  ASSUME SpaInv, PageStep, MainAppShown, MainAppShown'
  PROVE  config' = config /\ pca' = pca
<1> USE DEF root, msal, bff
<1>1. ~Reset
  BY DEF Reset, MainAppShown
<1>2. ASSUME NEW cfg \in Configs, Continue(cfg) PROVE FALSE
  BY <1>2 DEF Continue, MainAppShown
<1>3. ASSUME NEW s \in Slots, InitDone(s) PROVE config' = config /\ pca' = pca
  <2>1. call[s].from = "here" => ~SessionMode /\ call[s].for = config.client
    BY <1>3 DEF InitDone, SpaInv, Sound, CallsOfRoot, MsalMode, SessionMode
  <2>2. ~SessionMode => pca = config.client
    BY DEF MainAppShown, Ready, SpaInv, Sound, RootUsesOwnClient
  <2>3. QED BY <1>3, <2>1, <2>2 DEF InitDone
<1>4. QED
  BY <1>1, <1>2, <1>3
     DEF PageStep, ChangeConfig, Refresh, SignOut, Login, RefreshMsal, Logout, InitFails,
         RefreshEnds, SignedOut, SignOutFails, LoginEnds, AccountForgotten, LoggedOut,
         LogoutFails

LEMMA LeavingHides == Leave => ~MainAppShown'
BY DEF Leave, Reload, SignInSession, SignInRedirect, PageLoad, Reset, MainAppShown

LEMMA FarStepKeepsPage == FarStep => UNCHANGED <<config, root>>
BY DEF FarStep, ServeMe, ServeSignOut, SessionEnds, SignInElsewhere, CookieGoes

LEMMA CallbackStep ==
  ASSUME SpaInv, CallbackOfThisRoot, [Next]_vars
  PROVE  CallbackOfThisRoot'
<1> USE DEF widgetUi, widget, root
<1> DEFINE Same == UNCHANGED <<config, root, tab, flow, due, callback>>
<1>1. CASE Leave
  BY <1>1, LeavingHides DEF CallbackOfThisRoot
<1>2. CASE PageStep /\ Rendered /\ UNCHANGED <<callback, script, ask>>
  <2> SUFFICES ASSUME MainAppShown', ~due'
               PROVE  /\ callback'.mode = AuthOf(flow)'.mode /\ callback'.client = pca'
                      /\ tab' = "widget" => callback' = AuthOf(flow)'
    BY DEF CallbackOfThisRoot
  <2>1. MainAppShown
    BY <1>2 DEF Rendered
  <2>2. ~due /\ UNCHANGED <<tab, flow>> /\ (tab = "widget" => user' = user)
    BY <1>2, <2>1 DEF Rendered, Visible
  <2>3. config' = config /\ pca' = pca
    BY <1>2, <2>1, RootStays
  <2>4. QED
    BY <1>2, <2>1, <2>2, <2>3 DEF CallbackOfThisRoot, AuthOf, SessionMode
<1>3. ASSUME Same PROVE CallbackOfThisRoot'
  BY <1>3 DEF CallbackOfThisRoot, MainAppShown, Ready, SessionMode, AuthOf
<1>4. CASE FarStep /\ UNCHANGED widget
  BY <1>3, <1>4, FarStepKeepsPage
<1>5. CASE SwitchTab
  <2>1. MainAppShown /\ ~due /\ UNCHANGED <<config, root, callback>>
    BY <1>5 DEF SwitchTab, spa
  <2>2. callback.mode = AuthOf(flow).mode /\ callback.client = pca
    BY <2>1 DEF CallbackOfThisRoot
  <2>3. AuthOf(flow)'.mode = AuthOf(flow).mode
    BY <2>1 DEF AuthOf, SessionMode
  <2>4. ~due' => tab' # "widget"
    BY <1>5 DEF SwitchTab
  <2>5. QED BY <2>1, <2>2, <2>3, <2>4 DEF CallbackOfThisRoot
<1>6. CASE Register
  <2>1. callback' = AuthOf(flow)' /\ pca' = pca
    BY <1>6 DEF Register, spa, AuthOf, SessionMode
  <2>2. AuthOf(flow)'.client = pca'
    BY DEF AuthOf
  <2>3. QED BY <2>1, <2>2 DEF CallbackOfThisRoot
<1>7. ASSUME NEW f \in Flows, ChooseFlow(f) PROVE CallbackOfThisRoot'
  BY <1>7 DEF ChooseFlow, CallbackOfThisRoot
<1>8. CASE AskStep \/ UNCHANGED vars
  BY <1>3, <1>8 DEF AskStep, Inject, Invoke, ServeToken, AskEnds, vars, spa
<1>9. QED
  BY <1>1, <1>2, <1>4, <1>5, <1>6, <1>7, <1>8 DEF Next, TabStep

(* CallbackOfThisRoot: a main app that appears renders a new widget tab,   *)
(* whose effect is due, and its root does not change while it is shown.    *)
THEOREM CallbackIsOwn == Spec => []CallbackOfThisRoot
<1>1. Init => CallbackOfThisRoot
  BY DEF Init, SpaInit, CallbackOfThisRoot, MainAppShown
<1>2. SpaInv /\ CallbackOfThisRoot /\ [Next]_vars => CallbackOfThisRoot'
  BY CallbackStep
<1>3. QED BY <1>1, <1>2, PageAlways, PTL DEF Spec

(* Whoever the BFF or MSAL would answer an invocation with is somebody it  *)
(* may be given.                                                           *)
HolderFits ==
  \A w \in Widgets :
    ask[w].at = "asking" => Holder(ask[w].for) \in ask[w].may \union {None}

(* The function a script took gets it, in MSAL mode, a token it was        *)
(* offered.                                                                *)
ScriptsFit ==
  \A w \in Widgets : ~Refused(script[w].fn) =>
    /\ script[w].fn.mode = "session" => script[w].offered = Users
    /\ script[w].fn.mode # "session" =>
         script[w].fn.account \in script[w].offered \union {None}

LEMMA NoScriptFits == Refused(NoScript.fn)
BY DEF NoScript, NoClosure, Refused

LEMMA HolderStays ==
  ASSUME UNCHANGED owner, NEW x
  PROVE  Holder(x)' = Holder(x)
BY DEF Holder, Owner

LEMMA PageKeepsOwners == PageStep => UNCHANGED owner
BY DEF PageStep, Continue, ChangeConfig, Refresh, SignOut, Login, RefreshMsal, Logout,
       InitDone, InitFails, RefreshEnds, SignedOut, SignOutFails, LoginEnds,
       AccountForgotten, LoggedOut, LogoutFails, bff

LEMMA NoAskFits == NoAsk.at = "idle" /\ NoAsk.token = None
BY DEF NoAsk

(* A settled widget tab offers what its own callback gets.                 *)
LEMMA SettledInvocation ==
  ASSUME SpaInv, CallbackOfThisRoot, Settled, ~Refused(callback)
  PROVE  Holder(AsksFor(callback)) \in Offered \union {None}
<1>1. SpaTypeOK /\ MainAppShown /\ callback = AuthOf(flow)
  BY DEF SpaInv, Typed, Settled, Visible, CallbackOfThisRoot
<1>2. callback.flow = flow /\ flow # "none"
  BY <1>1 DEF AuthOf, Refused
<1>3. Offered = {user} /\ user \in Users
  BY <1>1, <1>2, ShownHasUser DEF Offered
<1>4. CASE SessionMode
  <2>1. callback.mode = "session"
    BY <1>1, <1>4 DEF AuthOf
  <2>2. AsksFor(callback) = cookie /\ cookie \notin Users
    BY <1>1, <2>1, SpaAssumption DEF AsksFor, SpaTypeOK
  <2>3. QED BY <1>3, <1>4, <2>2 DEF Holder, Settled
<1>5. CASE ~SessionMode
  <2>1. callback.mode = "msal" /\ callback.account = user
    BY <1>1, <1>5 DEF AuthOf
  <2>2. QED BY <1>3, <2>1 DEF Holder, AsksFor
<1>6. QED BY <1>4, <1>5

(* The callback of the moment.                                             *)
LEMMA CallbackInvocation ==
  ASSUME SpaInv, WidgetTyped, CallbackOfThisRoot, ~Refused(callback)
  PROVE  Holder(AsksFor(callback)) \in Offered \union {None}
<1>1. CASE Settled
  BY <1>1, SettledInvocation
<1>2. CASE ~Settled
  <2>1. Holder(AsksFor(callback)) \in People
    BY AsksForTypes, HolderTypes DEF WidgetTyped, SpaInv, Typed
  <2>2. QED BY <1>2, <2>1 DEF Offered, People
<1>3. QED BY <1>1, <1>2

(* The function a script took.                                             *)
LEMMA ScriptInvocation ==
  ASSUME SpaInv, WidgetTyped, ScriptsFit, NEW w \in Widgets,
         ~Refused(script[w].fn)
  PROVE  Holder(AsksFor(script[w].fn)) \in OfferedTo(script[w]) \union {None}
<1> DEFINE s == script[w]
<1>0. SpaTypeOK /\ s.fn \in Closures \union {NoClosure} /\ s.offered \subseteq Users
  BY DEF SpaInv, Typed, WidgetTyped, Scripts
<1>1. CASE s.fn.mode = "session"
  <2>1. s.offered = Users /\ AsksFor(s.fn) = cookie
    BY <1>1 DEF ScriptsFit, AsksFor
  <2>2. cookie \notin Users
    BY <1>0, SpaAssumption DEF SpaTypeOK
  <2>3. Holder(cookie) = Owner(cookie)
    BY <2>2 DEF Holder
  <2>4. Holder(cookie) \in People
    BY <1>0, <2>1, AsksForTypes, HolderTypes
  <2>5. CASE SessionMode /\ Settled
    <3>1. Owner(cookie) \in {user, None}
      BY <2>5 DEF Settled
    <3>2. OfferedTo(s) = Users \intersect {user}
      BY <1>1, <2>1, <2>5 DEF OfferedTo
    <3>3. user \in Users
      BY <1>0, <2>5, ShownHasUser DEF Settled, Visible
    <3>4. QED BY <2>1, <2>3, <3>1, <3>2, <3>3
  <2>6. CASE ~(SessionMode /\ Settled)
    <3>1. OfferedTo(s) = Users
      BY <2>1, <2>6 DEF OfferedTo
    <3>2. QED BY <2>1, <2>4, <3>1 DEF People
  <2>7. QED BY <2>5, <2>6
<1>2. CASE s.fn.mode # "session"
  <2>1. AsksFor(s.fn) = s.fn.account /\ OfferedTo(s) = s.offered
    BY <1>2 DEF AsksFor, OfferedTo
  <2>2. s.fn.account \in s.offered \union {None}
    BY <1>2 DEF ScriptsFit
  <2>3. Holder(s.fn.account) = s.fn.account
    BY <1>0, <2>2, SpaAssumption DEF Holder, Owner
  <2>4. QED BY <2>1, <2>2, <2>3
<1>3. QED BY <1>1, <1>2

(* Scripts are started with the callback of the tab they are started on.   *)
LEMMA ScriptStep ==
  ASSUME SpaInv, WidgetTyped, CallbackOfThisRoot, ScriptsFit, [Next]_vars
  PROVE  ScriptsFit'
<1> USE DEF widgetUi, widget
<1>1. ASSUME UNCHANGED script PROVE ScriptsFit'
  BY <1>1 DEF ScriptsFit, Refused
<1>2. CASE script' = [w \in Widgets |-> NoScript]
  BY <1>2, NoScriptFits DEF ScriptsFit, Refused
<1>3. ASSUME NEW w \in Widgets, Inject(w) PROVE ScriptsFit'
  <2> DEFINE s == [fn |-> callback,
                   offered |-> IF flow = "none" THEN {}
                               ELSE IF SessionMode THEN Users ELSE {user}]
  <2>1. callback = AuthOf(flow)
    BY <1>3 DEF Inject, Visible, CallbackOfThisRoot
  <2>2. ~Refused(s.fn) =>
          /\ s.fn.mode = "session" => s.offered = Users
          /\ s.fn.mode # "session" => s.fn.account \in s.offered
    BY <2>1 DEF AuthOf, Refused
  <2>3. script' = [script EXCEPT ![w] = s]
    BY <1>3 DEF Inject
  <2> HIDE DEF s
  <2>4. script'[w] = s /\ \A q \in Widgets \ {w} : script'[q] = script[q]
    BY <2>3 DEF WidgetTyped
  <2>5. ASSUME NEW q \in Widgets, ~Refused(script'[q].fn)
        PROVE  /\ script'[q].fn.mode = "session" => script'[q].offered = Users
               /\ script'[q].fn.mode # "session" =>
                    script'[q].fn.account \in script'[q].offered \union {None}
    BY <2>2, <2>4, <2>5 DEF ScriptsFit
  <2>6. QED BY <2>5 DEF ScriptsFit, Refused
<1>4. QED
  BY <1>1, <1>2, <1>3
     DEF Next, TabStep, AskStep, SwitchTab, Register, ChooseFlow, Invoke, ServeToken,
         AskEnds, vars

LEMMA TokenStep ==
  ASSUME SpaInv, WidgetTyped, CallbackOfThisRoot, ScriptsFit, HolderFits,
         TokenAsShown, [Next]_vars
  PROVE  HolderFits' /\ TokenAsShown'
<1> USE DEF widgetUi, widget
<1>0. SpaTypeOK /\ \A w \in Widgets : ask[w] \in Asks
  BY DEF SpaInv, Typed, WidgetTyped
<1>1. CASE Leave /\ ask' = [w \in Widgets |-> NoAsk]
  BY <1>1, NoAskFits DEF HolderFits, TokenAsShown
<1>2. ASSUME UNCHANGED <<ask, owner>> PROVE HolderFits' /\ TokenAsShown'
  BY <1>2, HolderStays DEF HolderFits, TokenAsShown
<1>3. CASE FarStep /\ IdsApart /\ UNCHANGED widget
  <2>1. ASSUME NEW w \in Widgets, ask[w].at = "asking"
        PROVE  Holder(ask[w].for)' \in {Holder(ask[w].for), None}
    <3>1. ask[w].for \in Ids \union Users \union {None} /\ ask' = ask
      BY <1>0, <1>3 DEF Asks
    <3>2. CASE ask[w].for \in Ids
      <4>1. owner'[ask[w].for] \in {owner[ask[w].for], None}
        BY <1>3, <2>1, <3>2 DEF IdsApart
      <4>2. ask[w].for \notin Users /\ ask[w].for # None
        BY <3>2, SpaAssumption
      <4>3. QED BY <3>1, <4>1, <4>2 DEF Holder, Owner
    <3>3. CASE ask[w].for \notin Ids
      BY <3>1, <3>3 DEF Holder, Owner
    <3>4. QED BY <3>2, <3>3
  <2>2. QED BY <1>3, <2>1 DEF HolderFits, TokenAsShown
<1>a. ASSUME NEW w \in Widgets, NEW c \in Closures \union {NoClosure},
             NEW may \in SUBSET Users, AskWith(w, c, may), UNCHANGED owner,
             ~Refused(c) => Holder(AsksFor(c)) \in may \union {None}
      PROVE  HolderFits' /\ TokenAsShown'
  <2>1. \A q \in Widgets :
          \/ ask'[q] = ask[q]
          \/ ask'[q] = NoAsk
          \/ /\ ~Refused(c) /\ ask'[q].for = AsksFor(c) /\ ask'[q].may = may
             /\ ask'[q].token = None
    BY <1>0, <1>a, AsksForTypes, AskedWith DEF WidgetTyped
  <2>2. ASSUME NEW q \in Widgets, ask'[q].at = "asking"
        PROVE  Holder(ask'[q].for) \in ask'[q].may \union {None}
    BY <1>a, <2>1, <2>2, NoAskFits DEF HolderFits
  <2>3. HolderFits'
    BY <1>a, <2>2, HolderStays DEF HolderFits
  <2>4. TokenAsShown'
    BY <2>1, NoAskFits DEF TokenAsShown
  <2>5. QED BY <2>3, <2>4
<1>4. ASSUME NEW w \in Widgets, Invoke(w) PROVE HolderFits' /\ TokenAsShown'
  <2>1. UNCHANGED owner
    BY <1>4 DEF Invoke, spa, bff
  <2>2. CASE AskWith(w, callback, Offered)
    BY <1>0, <2>1, <2>2, <1>a, CallbackInvocation, OfferedTypes DEF WidgetTyped
  <2>3. CASE AskWith(w, script[w].fn, OfferedTo(script[w]))
    <3>1. script[w] \in Scripts /\ script[w].fn \in Closures \union {NoClosure}
      BY DEF WidgetTyped, Scripts
    <3>2. QED BY <2>1, <2>3, <3>1, <1>a, ScriptInvocation, OfferedToTypes
  <2>4. QED BY <1>4, <2>2, <2>3 DEF Invoke
<1>5. ASSUME NEW w \in Widgets, ServeToken(w) PROVE HolderFits' /\ TokenAsShown'
  <2>1. UNCHANGED owner
    BY <1>5 DEF ServeToken, spa, bff
  <2>2. \A q \in Widgets : /\ ask'[q].at = ask[q].at /\ ask'[q].for = ask[q].for
                           /\ ask'[q].may = ask[q].may
    BY <1>5, <1>0 DEF ServeToken, WidgetTyped, Asks
  <2>3. ask'[w].token = Holder(ask[w].for)
        /\ \A q \in Widgets \ {w} : ask'[q].token = ask[q].token
    BY <1>5, <1>0 DEF ServeToken, WidgetTyped, Asks
  <2>4. HolderFits'
    BY <2>1, <2>2, HolderStays DEF HolderFits
  <2>5. ask[w].at = "asking"
    BY <1>5 DEF ServeToken
  <2>6. TokenAsShown'
    BY <2>2, <2>3, <2>5 DEF HolderFits, TokenAsShown
  <2>7. QED BY <2>4, <2>6
<1>6. ASSUME NEW w \in Widgets, AskEnds(w) PROVE HolderFits' /\ TokenAsShown'
  <2>1. UNCHANGED owner
    BY <1>6 DEF AskEnds, spa, bff
  <2>2. \A q \in Widgets : ask'[q] = ask[q] \/ ask'[q] = NoAsk
    BY <1>6 DEF AskEnds, WidgetTyped
  <2>3. HolderFits'
    BY <2>1, <2>2, HolderStays, NoAskFits DEF HolderFits
  <2>4. TokenAsShown'
    BY <2>2, NoAskFits DEF TokenAsShown
  <2>5. QED BY <2>3, <2>4
<1>7. CASE PageStep /\ UNCHANGED ask
  BY <1>2, <1>7, PageKeepsOwners
<1>8. CASE TabStep \/ UNCHANGED vars \/ \E w \in Widgets : Inject(w)
  BY <1>2, <1>8 DEF TabStep, SwitchTab, Register, ChooseFlow, Inject, vars, spa, bff
<1>9. QED
  BY <1>1, <1>3, <1>4, <1>5, <1>6, <1>7, <1>8 DEF Next, AskStep

(* TokenAsShown: the callback of a settled tab, and the one a script took  *)
(* from such a tab, asks for whom the tab shows or showed, and what it     *)
(* asks for changes to nobody else before the answer.                      *)
THEOREM TokensAsShown == Spec => []TokenAsShown
<1>1. Init => WidgetTyped /\ ScriptsFit /\ HolderFits /\ TokenAsShown
  <2> SUFFICES ASSUME Init PROVE WidgetTyped /\ ScriptsFit /\ HolderFits /\ TokenAsShown
    OBVIOUS
  <2>1. ScriptsFit
    BY NoScriptFits DEF Init, ScriptsFit
  <2>2. QED BY <2>1, WidgetInitType, NoAskFits DEF Init, HolderFits, TokenAsShown
<1>2. SpaInv /\ WidgetTyped /\ [Next]_vars => WidgetTyped'
  BY WidgetStepType DEF SpaInv, Typed
<1>3. SpaInv /\ WidgetTyped /\ CallbackOfThisRoot /\ ScriptsFit /\ [Next]_vars
        => ScriptsFit'
  BY ScriptStep
<1>4. /\ SpaInv /\ WidgetTyped /\ CallbackOfThisRoot /\ ScriptsFit
      /\ HolderFits /\ TokenAsShown /\ [Next]_vars
      => HolderFits' /\ TokenAsShown'
  BY TokenStep
<1>5. QED BY <1>1, <1>2, <1>3, <1>4, PageAlways, CallbackIsOwn, PTL DEF Spec
=============================================================================
