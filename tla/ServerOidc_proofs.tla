-------------------------- MODULE ServerOidc_proofs --------------------------
(***************************************************************************)
(* Proofs, for any numbers of browsers, sign-ins, sessions and requests    *)
(* and for any life times, of the safety properties that MCServerOidc      *)
(* checks on a small instance.                                             *)
(***************************************************************************)
EXTENDS ServerOidc, TLAPS

USE DEF stores, jars, requests, history

LEMMA ConstantTypes ==
  /\ None \notin Browsers /\ None \notin States /\ None \notin SessionIds
  /\ Ttl \in Nat /\ IdleTimeout \in Nat /\ CleanupInterval \in Nat
  /\ CookieAge \in Nat /\ AssertionLife \in Nat /\ TokenLife \in Nat
  /\ Margin \in Nat /\ MaxClock \in Nat
BY OidcAssumption

(* What Get and Add leave of the types.                                    *)
LEMMA GetTypes ==
  ASSUME NEW s, TypeOK, GetEffect(s)
  PROVE  /\ sessions' \in SUBSET SessionIds
         /\ sessions' \subseteq sessions
         /\ lastSeen' \in [SessionIds -> Nat]
BY DEF TypeOK, GetEffect, GetHit, Idle

LEMMA AddTypes ==
  ASSUME NEW s \in SessionIds, TypeOK, AddSession(s)
  PROVE  /\ sessions' \in SUBSET SessionIds
         /\ sessions' \subseteq sessions \union {s}
         /\ s \in sessions'
         /\ lastSeen' \in [SessionIds -> Nat]
         /\ lastCleanup' \in Nat
BY DEF TypeOK, AddSession, SweptSessions

LEMMA InitTypeOK == Init => TypeOK
BY ConstantTypes DEF Init, TypeOK, Places, EmptyCache

LEMMA NextTypeOK == TypeOK /\ [Next]_vars => TypeOK'
<1> SUFFICES ASSUME TypeOK, [Next]_vars PROVE TypeOK'
  OBVIOUS
<1> USE ConstantTypes DEF TypeOK, Places, Free, Move, EmptyCache
<1>1. ASSUME NEW r \in Requests, NEW s \in SessionIds, RedeemOk(r, s)
      PROVE  TypeOK'
  <2>1. AddSession(s)
    BY <1>1 DEF RedeemOk
  <2>2. /\ sessions' \in SUBSET SessionIds
        /\ lastSeen' \in [SessionIds -> Nat]
        /\ lastCleanup' \in Nat
    BY <2>1, AddTypes
  <2>3. /\ clock + AssertionLife \in Nat
        /\ origin' \in [SessionIds -> States \union {None}]
    BY <1>1 DEF RedeemOk
  <2>4. /\ assertionUntil' \in [SessionIds -> Nat]
        /\ created' \in SUBSET SessionIds
        /\ at' \in [Requests -> Places]
        /\ sid' \in [Requests -> SessionIds \union {None}]
    BY <1>1, <2>3 DEF RedeemOk
  <2>5. \A q \in Requests :
          /\ at'[q] # "free" <=> by'[q] # None
          /\ at'[q] \in {"redeem", "cookieOut"} <=> state'[q] # None
          /\ at'[q] \in {"cookieOut", "authn", "acquire", "obo", "token"}
               => sid'[q] # None
          /\ at'[q] \in {"free", "redeem"} => sid'[q] = None
          /\ at'[q] # "token" => cache'[q] = EmptyCache
    BY <1>1 DEF RedeemOk
  <2>6. QED BY <1>1, <2>2, <2>3, <2>4, <2>5 DEF RedeemOk
<1>2. ASSUME NEW r \in Requests, RedeemFail(r) PROVE TypeOK'
  BY <1>2 DEF RedeemFail
<1>3. ASSUME NEW r \in Requests, DeliverCookie(r) PROVE TypeOK'
  BY <1>3 DEF DeliverCookie
<1>4. ASSUME NEW r \in Requests, Authenticate(r) PROVE TypeOK'
  BY <1>4, GetTypes DEF Authenticate
<1>5. ASSUME NEW r \in Requests, Challenge(r) PROVE TypeOK'
  BY <1>5, GetTypes DEF Challenge
<1>6. ASSUME NEW r \in Requests, Acquire(r) PROVE TypeOK'
  <2>1. GetEffect(sid[r])
    BY <1>6 DEF Acquire
  <2>2. CASE CacheHit(r)
    BY <1>6, <2>1, <2>2, GetTypes DEF Acquire
  <2>3. CASE ~CacheHit(r)
    BY <1>6, <2>1, <2>3, GetTypes DEF Acquire
  <2>4. QED BY <2>2, <2>3
<1>7. ASSUME NEW r \in Requests, AcquireGone(r) PROVE TypeOK'
  BY <1>7, GetTypes DEF AcquireGone
<1>8. ASSUME NEW r \in Requests, OboOk(r) PROVE TypeOK'
  BY <1>8 DEF OboOk, AcquirerOf
<1>9. ASSUME NEW r \in Requests, OboFail(r) PROVE TypeOK'
  BY <1>9 DEF OboFail
<1>10. ASSUME NEW r \in Requests, Answer(r) PROVE TypeOK'
  BY <1>10 DEF Answer
<1>11. ASSUME NEW r \in Requests, SignOut(r) PROVE TypeOK'
  BY <1>11 DEF SignOut
<1>12. ASSUME NEW r \in Requests, DeliverCleared(r) PROVE TypeOK'
  BY <1>12 DEF DeliverCleared
<1>13. ASSUME NEW r \in Requests, LoseResponse(r) PROVE TypeOK'
  BY <1>13 DEF LoseResponse
<1>14. ASSUME NEW b \in Browsers, AuthMe(b) PROVE TypeOK'
  BY <1>14, GetTypes DEF AuthMe, Touch
<1>15. ASSUME NEW b \in Browsers, NEW p \in States, SignIn(b, p)
       PROVE  TypeOK'
  BY <1>15, GetTypes DEF SignIn, KeptPending
<1>16. ASSUME NEW b \in Browsers, NEW r \in Requests, NEW p \in States,
              Callback(r, b, p)
       PROVE  TypeOK'
  BY <1>16, GetTypes DEF Callback, KeptPending
<1>17. ASSUME NEW b \in Browsers, NEW p \in States, CallbackTooLate(b, p)
       PROVE  TypeOK'
  BY <1>17, GetTypes DEF CallbackTooLate, KeptPending
<1>18. ASSUME NEW b \in Browsers, NEW r \in Requests, Send(r, b)
       PROVE  TypeOK'
  BY <1>18 DEF Send
<1>19. ASSUME NEW b \in Browsers, NEW r \in Requests, SendSignOut(r, b)
       PROVE  TypeOK'
  BY <1>19 DEF SendSignOut
<1>20. CASE Restart
  BY <1>20 DEF Restart
<1>21. CASE Tick
  BY <1>21 DEF Tick
<1>22. CASE UNCHANGED vars
  BY <1>22 DEF vars
<1>23. QED
  BY <1>1, <1>2, <1>3, <1>4, <1>5, <1>6, <1>7, <1>8, <1>9, <1>10, <1>11,
     <1>12, <1>13, <1>14, <1>15, <1>16, <1>17, <1>18, <1>19, <1>20, <1>21,
     <1>22 DEF Next, Serve, Browse

(* The types, and what a request carries where, in every reachable state.  *)
THEOREM TypeCorrect == Spec => []TypeOK
BY InitTypeOK, NextTypeOK, PTL DEF Spec

-----------------------------------------------------------------------------
(***************************************************************************)
(* The strengthening.  A sign-in that was drawn is still pending, or taken *)
(* by one callback, or turned into one session, or lost; and every session *)
(* id anybody holds was created, while those signed out are in no store.   *)
(***************************************************************************)
OneFate ==
  /\ pending \subseteq drawn
  /\ \A r \in Requests : at[r] = "redeem" =>
       /\ state[r] \in drawn \ pending
       /\ \A s \in created : origin[s] # state[r]
       /\ \A q \in Requests : at[q] = "redeem" /\ state[q] = state[r] => q = r
  /\ \A s \in created : origin[s] \in drawn \ pending

KnownIds ==
  /\ sessions \subseteq created
  /\ signedOut \subseteq created
  /\ signedOut \intersect sessions = {}
  /\ \A b \in Browsers : cookie[b] # None => cookie[b] \in created
  /\ \A r \in Requests : sid[r] # None => sid[r] \in created

(* The cookie of a new session is on its way to one browser and nobody has *)
(* its id yet; a sign-out about to clear a cookie was handled.             *)
CookiesFollow ==
  \A r \in Requests :
    /\ at[r] = "cookieOut" => /\ \A b \in Browsers : cookie[b] # sid[r]
                             /\ \A q \in Requests : sid[q] = sid[r] => q = r
    /\ at[r] = "cleared" /\ sid[r] # None => sid[r] \in signedOut

IInv == OneFate /\ KnownIds /\ CookiesFollow /\ OneSessionPerSignIn

LEMMA InitIInv == Init => IInv
BY DEF Init, IInv, OneFate, KnownIds, CookiesFollow, OneSessionPerSignIn

LEMMA NextIInv == TypeOK /\ IInv /\ [Next]_vars => IInv'
<1> SUFFICES ASSUME TypeOK, IInv, [Next]_vars PROVE IInv'
  OBVIOUS
<1> USE ConstantTypes DEF Free, Move, IInv, OneFate, KnownIds,
        CookiesFollow, OneSessionPerSignIn
<1>t. /\ sessions \in SUBSET SessionIds
      /\ cookie \in [Browsers -> SessionIds \union {None}]
      /\ at \in [Requests -> Places]
      /\ state \in [Requests -> States \union {None}]
      /\ sid \in [Requests -> SessionIds \union {None}]
      /\ by \in [Requests -> Browsers \union {None}]
      /\ origin \in [SessionIds -> States \union {None}]
      /\ created \in SUBSET SessionIds
      /\ \A r \in Requests : at[r] \in {"cookieOut", "authn", "acquire"}
           => sid[r] # None
      /\ \A r \in Requests : at[r] # "free" => by[r] # None
  BY DEF TypeOK
<1>g. ASSUME NEW s, GetEffect(s) PROVE sessions' \subseteq sessions
  BY <1>g DEF GetEffect
<1>1. ASSUME NEW r \in Requests, NEW s \in SessionIds, RedeemOk(r, s)
      PROVE  IInv'
  <2>1. sessions' \subseteq sessions \union {s}
    BY <1>1 DEF RedeemOk, AddSession
  <2>2. OneFate'
    BY <1>1, <1>t DEF RedeemOk
  <2>3. KnownIds'
    BY <1>1, <1>t, <2>1 DEF RedeemOk
  <2>4. CookiesFollow'
    BY <1>1, <1>t DEF RedeemOk
  <2>5. OneSessionPerSignIn'
    BY <1>1, <1>t DEF RedeemOk
  <2>6. QED BY <2>2, <2>3, <2>4, <2>5
<1>2. ASSUME NEW r \in Requests,
             RedeemFail(r) \/ OboFail(r) \/ Answer(r) \/ LoseResponse(r)
      PROVE  IInv'
  BY <1>2, <1>t DEF RedeemFail, OboFail, Answer, LoseResponse
<1>3. ASSUME NEW r \in Requests, DeliverCookie(r) PROVE IInv'
  BY <1>3, <1>t DEF DeliverCookie
<1>4. ASSUME NEW r \in Requests, Authenticate(r) \/ Challenge(r) \/ AcquireGone(r)
      PROVE  IInv'
  BY <1>4, <1>t, <1>g DEF Authenticate, Challenge, AcquireGone
<1>5. ASSUME NEW r \in Requests, Acquire(r) PROVE IInv'
  <2>1. /\ sessions' \subseteq sessions
        /\ at[r] = "acquire"
        /\ \E place \in {"token", "obo"} : at' = [at EXCEPT ![r] = place]
        /\ UNCHANGED <<pending, state, sid, cookie, history>>
    BY <1>5, <1>g DEF Acquire
  <2>2. QED BY <2>1, <1>t
<1>6. ASSUME NEW r \in Requests, OboOk(r) PROVE IInv'
  BY <1>6, <1>t DEF OboOk
<1>7. ASSUME NEW r \in Requests, SignOut(r) PROVE IInv'
  BY <1>7, <1>t DEF SignOut
<1>8. ASSUME NEW r \in Requests, DeliverCleared(r) PROVE IInv'
  BY <1>8, <1>t DEF DeliverCleared
<1>9. ASSUME NEW b \in Browsers, AuthMe(b) PROVE IInv'
  BY <1>9, <1>t, <1>g DEF AuthMe, Touch
<1>10. ASSUME NEW b \in Browsers, NEW p \in States, SignIn(b, p)
       PROVE  IInv'
  BY <1>10, <1>t, <1>g DEF SignIn, KeptPending
<1>11. ASSUME NEW b \in Browsers, NEW r \in Requests, NEW p \in States,
              Callback(r, b, p)
       PROVE  IInv'
  BY <1>11, <1>t, <1>g DEF Callback, KeptPending
<1>12. ASSUME NEW b \in Browsers, NEW p \in States, CallbackTooLate(b, p)
       PROVE  IInv'
  BY <1>12, <1>t, <1>g DEF CallbackTooLate, KeptPending
<1>13. ASSUME NEW b \in Browsers, NEW r \in Requests,
              Send(r, b) \/ SendSignOut(r, b)
       PROVE  IInv'
  BY <1>13, <1>t DEF Send, SendSignOut
<1>14. CASE Restart
  BY <1>14, <1>t DEF Restart
<1>15. CASE Tick
  BY <1>15, <1>t DEF Tick
<1>16. CASE UNCHANGED vars
  BY <1>16 DEF vars
<1>17. QED
  BY <1>1, <1>2, <1>3, <1>4, <1>5, <1>6, <1>7, <1>8, <1>9, <1>10, <1>11,
     <1>12, <1>13, <1>14, <1>15, <1>16 DEF Next, Serve, Browse

LEMMA Invariance == Spec => [](TypeOK /\ IInv)
BY InitTypeOK, InitIInv, NextTypeOK, NextIInv, PTL DEF Spec

(* No sign-in turns into two sessions.                                     *)
THEOREM OneSession == Spec => []OneSessionPerSignIn
BY Invariance, PTL DEF IInv

-----------------------------------------------------------------------------
(* A request that has not reached Entra can reach it only by way of        *)
(* Acquire, which finds no session once the sign-out was handled.          *)
LEMMA NoTokenStep ==
  ASSUME TypeOK, IInv, [Next]_vars,
         NEW q \in Requests, at[q] \in {"authn", "acquire"}, sid[q] \in signedOut
  PROVE  at'[q] \notin {"obo", "token"}
<1> USE DEF TypeOK, Free, Move
<1>1. sid[q] \notin sessions
  BY DEF IInv, KnownIds
<1>2. ASSUME NEW r \in Requests, Serve(r)
      PROVE  at'[q] \notin {"obo", "token"}
  <2>1. ASSUME NEW s \in SessionIds, RedeemOk(r, s)
        PROVE  at'[q] \notin {"obo", "token"}
    BY <2>1 DEF RedeemOk
  <2>2. CASE RedeemFail(r) \/ DeliverCookie(r) \/ Challenge(r)
               \/ AcquireGone(r) \/ OboFail(r) \/ Answer(r)
               \/ DeliverCleared(r) \/ LoseResponse(r)
    BY <2>2 DEF RedeemFail, DeliverCookie, Challenge, AcquireGone, OboFail,
       Answer, DeliverCleared, LoseResponse
  <2>3. CASE Authenticate(r) \/ OboOk(r) \/ SignOut(r)
    BY <2>3 DEF Authenticate, OboOk, SignOut
  <2>4. CASE Acquire(r)
    <3>1. r # q
      BY <2>4, <1>1 DEF Acquire, GetHit
    <3>2. \E place \in {"token", "obo"} : at' = [at EXCEPT ![r] = place]
      BY <2>4 DEF Acquire
    <3>3. QED BY <3>1, <3>2
  <2>5. QED BY <1>2, <2>1, <2>2, <2>3, <2>4 DEF Serve
<1>3. ASSUME NEW b \in Browsers, Browse(b)
      PROVE  at'[q] \notin {"obo", "token"}
  BY <1>3 DEF Browse, AuthMe, Touch, SignIn, Callback, CallbackTooLate, Send,
     SendSignOut
<1>4. CASE Restart \/ Tick \/ UNCHANGED vars
  BY <1>4 DEF Restart, Tick, vars
<1>5. QED BY <1>2, <1>3, <1>4 DEF Next

(* After a sign-out was handled no pending request of the session gets a   *)
(* token.                                                                  *)
THEOREM SignOutStopsTokens == Spec => NoTokenAfterSignOut
<1>1. TypeOK /\ IInv /\ [Next]_vars
        => [\A r \in Requests :
              /\ at[r] \in {"authn", "acquire"}
              /\ sid[r] \in signedOut
              => at'[r] \notin {"obo", "token"}]_vars
  BY NoTokenStep
<1>2. QED BY <1>1, Invariance, PTL DEF Spec, NoTokenAfterSignOut

(* What is left of SignOutTakesEffect without the handler's progress: from *)
(* the moment a sign-out is handled its session is in no store, and no     *)
(* callback, late request or restart brings it back.                       *)
THEOREM SignedOutStaysOut ==
  ASSUME NEW s \in SessionIds
  PROVE  Spec => []((s \in signedOut) => [](s \notin sessions))
<1>1. IInv => (s \in signedOut => s \notin sessions)
  BY DEF IInv, KnownIds
<1>2. s \in signedOut /\ [Next]_vars => (s \in signedOut)'
  <2> SUFFICES ASSUME s \in signedOut, [Next]_vars PROVE s \in signedOut'
    OBVIOUS
  <2>1. ASSUME NEW r \in Requests, Serve(r) PROVE s \in signedOut'
    BY <2>1 DEF Serve, RedeemOk, RedeemFail, DeliverCookie, Authenticate,
       Challenge, Acquire, AcquireGone, OboOk, OboFail, Answer, SignOut,
       DeliverCleared, LoseResponse
  <2>2. ASSUME NEW b \in Browsers, Browse(b) PROVE s \in signedOut'
    BY <2>2 DEF Browse, AuthMe, Touch, SignIn, Callback, CallbackTooLate,
       Send, SendSignOut
  <2>3. CASE Restart \/ Tick \/ UNCHANGED vars
    BY <2>3 DEF Restart, Tick, vars
  <2>4. QED BY <2>1, <2>2, <2>3 DEF Next
<1>3. QED BY <1>1, <1>2, Invariance, PTL DEF Spec

-----------------------------------------------------------------------------
(* Each step of the BFF is a step of the session contract or a stutter.    *)
Serving == [r \in Requests |->
              IF at[r] \in {"acquire", "obo"} THEN sid[r] ELSE None]

LEMMA ContractInit == Init => Contract!CInit
BY DEF Init, Contract!CInit

(* Sessions end and nobody's session changes.                              *)
LEMMA CloseStep ==
  ASSUME TypeOK, IInv, sessions' \subseteq sessions, UNCHANGED created,
         UNCHANGED Serving
  PROVE  [Contract!CNext]_Contract!contractVars
<1>1. Contract!Close(sessions \ sessions')
  BY DEF Contract!Close, Serving, IInv, KnownIds
<1>2. sessions \ sessions' \in SUBSET SessionIds
  BY DEF TypeOK
<1>3. QED BY <1>1, <1>2 DEF Contract!CNext

(* Sessions end and one request lets go of its own.                        *)
LEMMA ReleaseStep ==
  ASSUME TypeOK, IInv, NEW r \in Requests,
         sessions' \subseteq sessions, UNCHANGED created,
         Serving' = [Serving EXCEPT ![r] = None]
  PROVE  [Contract!CNext]_Contract!contractVars
<1>1. PICK S \in SUBSET SessionIds : S = sessions \ sessions'
  BY DEF TypeOK
<1>2. Contract!Release(r, S)
  BY <1>1 DEF Contract!Release, Serving, IInv, KnownIds
<1>3. QED BY <1>2 DEF Contract!CNext

LEMMA ContractStep ==
  TypeOK /\ IInv /\ [Next]_vars => [Contract!CNext]_Contract!contractVars
<1> SUFFICES ASSUME TypeOK, IInv, [Next]_vars
             PROVE  [Contract!CNext]_Contract!contractVars
  OBVIOUS
<1> USE ConstantTypes DEF Free, Move, Serving
<1>t. /\ at \in [Requests -> Places]
      /\ sid \in [Requests -> SessionIds \union {None}]
      /\ sessions \subseteq SessionIds
      /\ \A r \in Requests : at[r] = "redeem" => sid[r] = None
      /\ sessions \subseteq created
  BY DEF TypeOK, IInv, KnownIds
<1>g. ASSUME NEW s, GetEffect(s) PROVE sessions' \subseteq sessions
  BY <1>g DEF GetEffect
<1>1. ASSUME NEW r \in Requests, NEW s \in SessionIds, RedeemOk(r, s)
      PROVE  [Contract!CNext]_Contract!contractVars
  <2>1. Serving' = Serving
    BY <1>1, <1>t DEF RedeemOk
  <2>2. /\ s \notin created
        /\ SweptSessions \subseteq sessions
        /\ sessions' = (sessions \ SweptSessions) \union {s}
        /\ created' = created \union {s}
    BY <1>1 DEF RedeemOk, AddSession, SweptSessions
  <2>3. Contract!Open(s, SweptSessions)
    BY <2>1, <2>2, <1>t DEF Contract!Open
  <2>4. SweptSessions \in SUBSET SessionIds
    BY <2>2, <1>t
  <2>5. \E S \in SUBSET SessionIds : Contract!Open(s, S)
    BY <2>3, <2>4
  <2>6. Contract!CNext
    BY <2>5 DEF Contract!CNext
  <2>7. QED BY <2>6
<1>2. ASSUME NEW r \in Requests, Authenticate(r)
      PROVE  [Contract!CNext]_Contract!contractVars
  <2>1. PICK s \in SessionIds : s = sid[r] /\ s \in sessions
    BY <1>2, <1>t DEF Authenticate, GetHit
  <2>2. /\ UNCHANGED <<sessions, created>>
        /\ Serving' = [Serving EXCEPT ![r] = s]
    BY <1>2, <2>1, <1>t DEF Authenticate, GetHit, GetEffect
  <2>3. Contract!Hand(r, s)
    BY <2>1, <2>2 DEF Contract!Hand
  <2>4. QED BY <2>3 DEF Contract!CNext
<1>3. ASSUME NEW r \in Requests,
             \/ RedeemFail(r) \/ DeliverCookie(r) \/ Challenge(r) \/ Answer(r)
             \/ SignOut(r) \/ DeliverCleared(r) \/ LoseResponse(r)
      PROVE  [Contract!CNext]_Contract!contractVars
  <2>1. sessions' \subseteq sessions /\ UNCHANGED <<created, Serving>>
    BY <1>3, <1>t, <1>g DEF RedeemFail, DeliverCookie, Challenge, Answer,
       SignOut, DeliverCleared, LoseResponse
  <2>2. QED BY <2>1, CloseStep
<1>4. ASSUME NEW r \in Requests, AcquireGone(r) \/ OboOk(r) \/ OboFail(r)
      PROVE  [Contract!CNext]_Contract!contractVars
  <2>1. /\ sessions' \subseteq sessions /\ UNCHANGED created
        /\ Serving' = [Serving EXCEPT ![r] = None]
    BY <1>4, <1>t, <1>g DEF AcquireGone, OboOk, OboFail
  <2>2. QED BY <2>1, ReleaseStep
<1>5. ASSUME NEW r \in Requests, Acquire(r)
      PROVE  [Contract!CNext]_Contract!contractVars
  <2>1. /\ sessions' \subseteq sessions /\ UNCHANGED created
        /\ at[r] = "acquire" /\ sid' = sid
    BY <1>5, <1>g DEF Acquire
  <2>2. CASE at' = [at EXCEPT ![r] = "obo"]
    <3>1. UNCHANGED Serving
      BY <2>1, <2>2, <1>t
    <3>2. QED BY <2>1, <3>1, CloseStep
  <2>3. CASE at' = [at EXCEPT ![r] = "token"]
    <3>1. Serving' = [Serving EXCEPT ![r] = None]
      BY <2>1, <2>3, <1>t
    <3>2. QED BY <2>1, <3>1, ReleaseStep
  <2>4. QED BY <1>5, <2>2, <2>3 DEF Acquire
<1>6. ASSUME NEW b \in Browsers, Browse(b)
      PROVE  [Contract!CNext]_Contract!contractVars
  <2>1. sessions' \subseteq sessions /\ UNCHANGED <<created, Serving>>
    BY <1>6, <1>t, <1>g DEF Browse, AuthMe, Touch, SignIn, Callback,
       CallbackTooLate, Send, SendSignOut
  <2>2. QED BY <2>1, CloseStep
<1>7. CASE Restart
  <2>1. Contract!Crash
    BY <1>7, <1>t DEF Restart, Contract!Crash
  <2>2. QED BY <2>1 DEF Contract!CNext
<1>8. CASE Tick \/ UNCHANGED vars
  BY <1>8 DEF Tick, vars, Contract!contractVars
<1>9. QED
  BY <1>1, <1>2, <1>3, <1>4, <1>5, <1>6, <1>7, <1>8 DEF Next, Serve

(* Sign-in, use, sign-out, sweeps and restarts together keep the contract. *)
THEOREM BffKeepsContract == Spec => KeepsContract
BY ContractInit, ContractStep, Invariance, PTL
   DEF Spec, KeepsContract, Contract!CSpec

-----------------------------------------------------------------------------
(***************************************************************************)
(* Each step of the BFF is a step of the contract of a sign-in or leaves   *)
(* every sign-in as it was.                                                *)
(***************************************************************************)
Redeeming(p) == \E r \in Requests : at[r] = "redeem" /\ state[r] = p
HasSession(p) == \E s \in created : origin[s] = p

LEMMA SignInsInit == Init => SignIns!SInit
BY DEF Init, SignIns!SInit, Fate

(* A function on sign-ins changed at one of them.                          *)
LEMMA ChangedAtOne ==
  ASSUME NEW f, NEW g, NEW p \in States, NEW end,
         f = [q \in States |-> f[q]], g = [q \in States |-> g[q]],
         \A q \in States : q # p => g[q] = f[q], g[p] = end
  PROVE  g = [f EXCEPT ![p] = end]
OBVIOUS

LEMMA FateIsFunction ==
  /\ Fate = [q \in States |-> Fate[q]]
  /\ Fate' = [q \in States |-> Fate'[q]]
BY DEF Fate

(* What Cleanup of the pending store drops may be forgotten.               *)
LEMMA DroppedIsStale ==
  ASSUME TypeOK, IInv
  PROVE  pending \ KeptPending \in SUBSET SignIns!Old
BY ConstantTypes
   DEF TypeOK, IInv, OneFate, KeptPending, SignIns!Old, SignIns!Stale, Fate

(* The redemption of a sign-in ends, in a session or not.                  *)
LEMMA FinishStep ==
  ASSUME TypeOK, IInv, NEW r \in Requests, at[r] = "redeem",
         UNCHANGED <<clock, createdAt, pending, drawn>>,
         at'[r] # "redeem",
         \A q \in Requests : q # r => at'[q] = at[q] /\ state'[q] = state[q],
         \A p \in States : p # state[r] => (HasSession(p)' <=> HasSession(p))
  PROVE  [SignIns!SNext]_SignIns!signInVars
<1>1. PICK p \in States : p = state[r] /\ p \in drawn \ pending
  BY DEF TypeOK, IInv, OneFate
<1>2. Fate[p] = "taken"
  BY <1>1 DEF Fate
<1>3. ~Redeeming(p)'
  BY <1>1 DEF Redeeming, IInv, OneFate
<1>4. PICK end \in {"done", "over"} : end = IF HasSession(p)' THEN "done" ELSE "over"
  OBVIOUS
<1>5. Fate'[p] = end
  BY <1>1, <1>3, <1>4 DEF Fate, Redeeming, HasSession
<1>6. \A q \in States : q # p => (Redeeming(q)' <=> Redeeming(q))
  BY <1>1 DEF Redeeming
<1>7. \A q \in States : q # p => Fate'[q] = Fate[q]
  BY <1>1, <1>6 DEF Fate, Redeeming, HasSession
<1>8. Fate' = [Fate EXCEPT ![p] = end]
  BY <1>5, <1>7, FateIsFunction, ChangedAtOne
<1>9. SignIns!Finish(p)
  BY <1>2, <1>8 DEF SignIns!Finish
<1>10. QED BY <1>9 DEF SignIns!SNext

(* Nothing happens to a sign-in.                                           *)
LEMMA FateStays ==
  ASSUME UNCHANGED <<clock, createdAt, pending, drawn, created, origin>>,
         \A r \in Requests : /\ at'[r] = "redeem" <=> at[r] = "redeem"
                             /\ at[r] = "redeem" => state'[r] = state[r]
  PROVE  [SignIns!SNext]_SignIns!signInVars
BY DEF Fate, SignIns!signInVars

LEMMA SignInsStep ==
  TypeOK /\ IInv /\ [Next]_vars => [SignIns!SNext]_SignIns!signInVars
<1> SUFFICES ASSUME TypeOK, IInv, [Next]_vars
             PROVE  [SignIns!SNext]_SignIns!signInVars
  OBVIOUS
<1> USE ConstantTypes DEF Free, Move
<1>t. /\ at \in [Requests -> Places]
      /\ state \in [Requests -> States \union {None}]
      /\ pending \in SUBSET States
      /\ clock \in Nat /\ createdAt \in [States -> Nat]
      /\ origin \in [SessionIds -> States \union {None}]
      /\ created \in SUBSET SessionIds
  BY DEF TypeOK
<1>k. PICK S \in SUBSET SignIns!Old : KeptPending = pending \ S /\ S \subseteq pending
  BY DroppedIsStale DEF KeptPending
<1>f. OneFate
  BY DEF IInv
<1>1. ASSUME NEW r \in Requests, NEW s \in SessionIds, RedeemOk(r, s)
      PROVE  [SignIns!SNext]_SignIns!signInVars
  <2>1. \A p \in States : p # state[r] => (HasSession(p)' <=> HasSession(p))
    BY <1>1, <1>t DEF RedeemOk, HasSession
  <2>2. QED BY <1>1, <2>1, <1>t, FinishStep DEF RedeemOk
<1>2. ASSUME NEW r \in Requests, RedeemFail(r)
      PROVE  [SignIns!SNext]_SignIns!signInVars
  <2>1. \A p \in States : HasSession(p)' <=> HasSession(p)
    BY <1>2 DEF RedeemFail, HasSession
  <2>2. QED BY <1>2, <2>1, <1>t, FinishStep DEF RedeemFail
<1>3. ASSUME NEW r \in Requests,
             \/ DeliverCookie(r) \/ Authenticate(r) \/ Challenge(r)
             \/ AcquireGone(r) \/ OboOk(r) \/ OboFail(r) \/ Answer(r)
             \/ SignOut(r) \/ DeliverCleared(r) \/ LoseResponse(r)
      PROVE  [SignIns!SNext]_SignIns!signInVars
  BY <1>3, <1>t, FateStays DEF DeliverCookie, Authenticate, Challenge,
     AcquireGone, OboOk, OboFail, Answer, SignOut, DeliverCleared, LoseResponse
<1>4. ASSUME NEW r \in Requests, Acquire(r)
      PROVE  [SignIns!SNext]_SignIns!signInVars
  <2>1. \E place \in {"token", "obo"} : at' = [at EXCEPT ![r] = place]
    BY <1>4 DEF Acquire
  <2>2. QED BY <1>4, <2>1, <1>t, FateStays DEF Acquire
<1>5. ASSUME NEW b \in Browsers,
             AuthMe(b) \/ \E r \in Requests : Send(r, b) \/ SendSignOut(r, b)
      PROVE  [SignIns!SNext]_SignIns!signInVars
  BY <1>5, <1>t, FateStays DEF AuthMe, Touch, Send, SendSignOut
<1>6. ASSUME NEW b \in Browsers, NEW p \in States, SignIn(b, p)
      PROVE  [SignIns!SNext]_SignIns!signInVars
  <2>1. /\ p \notin drawn /\ pending' = (pending \ S) \union {p}
        /\ drawn' = drawn \union {p}
        /\ createdAt' = [createdAt EXCEPT ![p] = clock]
        /\ UNCHANGED <<clock, at, state, created, origin>>
    BY <1>6, <1>k DEF SignIn
  <2>2. \A q \in S : q # p /\ q \in drawn \ pending' /\ ~Redeeming(q)'
                       /\ ~HasSession(q)'
    BY <2>1, <1>k, <1>f DEF OneFate, Redeeming, HasSession
  <2>3. Fate[p] = "new" /\ Fate'[p] = "open"
    BY <2>1 DEF Fate
  <2>4. \A q \in States : q # p =>
          Fate'[q] = SignIns!Without(S)[q]
    BY <2>1, <2>2, <1>k DEF Fate, Redeeming, HasSession, SignIns!Without
  <2>5. SignIns!Without(S) = [q \in States |-> SignIns!Without(S)[q]]
    BY DEF SignIns!Without
  <2>6. Fate' = [SignIns!Without(S) EXCEPT ![p] = "open"]
    BY <2>3, <2>4, <2>5, FateIsFunction, ChangedAtOne
  <2>7. clock \in 0 .. clock
    BY <1>t
  <2>8. SignIns!Remember(p)
    BY <2>1, <2>3, <2>6, <2>7, <1>k DEF SignIns!Remember
  <2>9. QED BY <2>8 DEF SignIns!SNext
<1>7. ASSUME NEW b \in Browsers, NEW r \in Requests, NEW p \in States,
             Callback(r, b, p)
      PROVE  [SignIns!SNext]_SignIns!signInVars
  <2>1. /\ p \in pending \ S /\ p \in drawn /\ p \in KeptPending
        /\ pending' = (pending \ S) \ {p}
        /\ at' = [at EXCEPT ![r] = "redeem"] /\ at[r] = "free"
        /\ state' = [state EXCEPT ![r] = p]
        /\ UNCHANGED <<clock, createdAt, drawn, created, origin>>
    BY <1>7, <1>k DEF Callback
  <2>2. /\ Redeeming(p)'
        /\ \A q \in States : q # p => (Redeeming(q)' <=> Redeeming(q))
    BY <2>1, <1>t DEF Redeeming
  <2>3. \A q \in S : q # p /\ q \in drawn \ pending' /\ ~Redeeming(q)'
                       /\ ~HasSession(q)'
    BY <2>1, <2>2, <1>k, <1>f DEF OneFate, Redeeming, HasSession
  <2>4. Fate[p] = "open" /\ Fate'[p] = "taken"
    BY <2>1, <2>2 DEF Fate, Redeeming
  <2>5. \A q \in States : q # p =>
          Fate'[q] = SignIns!Without(S)[q]
    BY <2>1, <2>2, <2>3, <1>k DEF Fate, Redeeming, HasSession, SignIns!Without
  <2>6. SignIns!Without(S) = [q \in States |-> SignIns!Without(S)[q]]
    BY DEF SignIns!Without
  <2>7. Fate' = [SignIns!Without(S) EXCEPT ![p] = "taken"]
    BY <2>4, <2>5, <2>6, FateIsFunction, ChangedAtOne
  <2>8. ~SignIns!Stale(p)
    BY <2>1, <1>t DEF KeptPending, SignIns!Stale
  <2>9. SignIns!Continue(p)
    BY <2>1, <2>4, <2>7, <2>8, <1>k DEF SignIns!Continue
  <2>10. QED BY <2>9 DEF SignIns!SNext
<1>8. ASSUME NEW b \in Browsers, NEW p \in States, CallbackTooLate(b, p)
      PROVE  [SignIns!SNext]_SignIns!signInVars
  <2>1. /\ pending' = pending \ S
        /\ UNCHANGED <<clock, createdAt, drawn, at, state, created, origin>>
    BY <1>8, <1>k DEF CallbackTooLate
  <2>2. \A q \in S : q \in drawn \ pending' /\ ~Redeeming(q)' /\ ~HasSession(q)'
    BY <2>1, <1>k, <1>f DEF OneFate, Redeeming, HasSession
  <2>3. Fate' = SignIns!Without(S)
    BY <2>1, <2>2, <1>k DEF Fate, Redeeming, HasSession, SignIns!Without
  <2>4. SignIns!Forget
    BY <2>1, <2>3, <1>k DEF SignIns!Forget
  <2>5. QED BY <2>4 DEF SignIns!SNext
<1>9. CASE Restart
  <2>1. /\ pending' = {} /\ \A p \in States : ~Redeeming(p)'
        /\ UNCHANGED <<clock, createdAt, drawn, created, origin>>
    BY <1>9 DEF Restart, Redeeming
  <2>2. \A p \in States : p \in pending \/ Redeeming(p) =>
          p \in drawn /\ ~HasSession(p)
    BY <1>f DEF OneFate, Redeeming, HasSession
  <2>3. Fate' = [p \in States |->
                   IF Fate[p] \in {"open", "taken"} THEN "over" ELSE Fate[p]]
    BY <2>1, <2>2 DEF Fate, Redeeming, HasSession
  <2>4. SignIns!Crash
    BY <2>1, <2>3 DEF SignIns!Crash
  <2>5. QED BY <2>4 DEF SignIns!SNext
<1>10. CASE Tick
  <2>1. SignIns!Wait
    BY <1>10, <1>t DEF Tick, Fate, SignIns!Wait
  <2>2. QED BY <2>1 DEF SignIns!SNext
<1>11. CASE UNCHANGED vars
  BY <1>11, FateStays DEF vars
<1>12. QED
  BY <1>1, <1>2, <1>3, <1>4, <1>5, <1>6, <1>7, <1>8, <1>9, <1>10, <1>11
     DEF Next, Serve, Browse

(* Callbacks repeated, late, failed or racing, sweeps and restarts: every  *)
(* sign-in keeps to its contract.                                          *)
THEOREM BffKeepsSignInContract == Spec => KeepsSignInContract
BY SignInsInit, SignInsStep, Invariance, PTL
   DEF Spec, KeepsSignInContract, SignIns!SSpec

-----------------------------------------------------------------------------
(***************************************************************************)
(* Each step of the BFF is a step of the cookie contract or a stutter.     *)
(***************************************************************************)
Owners == [s \in SessionIds |-> OwnerFor(s)]
Posts == [r \in Requests |-> Post(r)]

LEMMA CookiesInit == Init => Cookies!KInit
BY DEF Init, Cookies!KInit, Cookies!NoPost, OwnerFor, Post

(* Owners change only with the sessions and with the cookies on their way. *)
LEMMA OwnersStay ==
  ASSUME UNCHANGED <<sessions, origin>>,
         \A r \in Requests : /\ at'[r] = "cookieOut" <=> at[r] = "cookieOut"
                             /\ at[r] = "cookieOut" => sid'[r] = sid[r]
  PROVE  UNCHANGED Owners
BY DEF Owners, OwnerFor

LEMMA OwnersEnd ==
  ASSUME sessions' \subseteq sessions, UNCHANGED origin,
         \A r \in Requests :
           at[r] = "cookieOut" => at'[r] = "cookieOut" /\ sid'[r] = sid[r]
  PROVE  \A s \in SessionIds : OwnerFor(s)' \in {OwnerFor(s), None}
BY DEF OwnerFor

LEMMA PostStays ==
  ASSUME NEW q \in Requests,
         UNCHANGED <<at[q], by[q], sid[q], origin[sid[q]]>>
  PROVE  Post(q)' = Post(q)
BY DEF Post

(* Sessions end, requests end, and no cookie changes.                      *)
LEMMA EndStep ==
  ASSUME UNCHANGED cookie,
         \A s \in SessionIds : OwnerFor(s)' \in {OwnerFor(s), None},
         \A r \in Requests : Post(r)' \in {Post(r), Cookies!NoPost}
  PROVE  [Cookies!KNext]_Cookies!cookieVars
<1>1. PICK S : S = {s \in SessionIds : OwnerFor(s)' # OwnerFor(s)}
  OBVIOUS
<1>2. PICK M : M = {r \in Requests : Post(r)' # Post(r)}
  OBVIOUS
<1>3. S \in SUBSET Cookies!Live
  BY <1>1 DEF Cookies!Live
<1>4. M \in SUBSET Cookies!UnderWay
  BY <1>2 DEF Cookies!UnderWay
<1>5. Owners' = Cookies!WithoutSessions(S)
  BY <1>1 DEF Owners, Cookies!WithoutSessions
<1>6. Posts' = Cookies!WithoutPosts(M)
  BY <1>2 DEF Posts, Cookies!WithoutPosts
<1>7. Cookies!End(S)
  BY <1>4, <1>5, <1>6 DEF Cookies!End, Cookies!Lost, Owners, Posts
<1>8. QED BY <1>3, <1>7 DEF Cookies!KNext

(* A browser sends a request.                                              *)
LEMMA AskStep ==
  ASSUME NEW r \in Requests, NEW b \in Browsers, UNCHANGED cookie,
         UNCHANGED Owners, Post(r) = Cookies!NoPost,
         Post(r)' = [by |-> b, id |-> cookie[b], names |-> None],
         \A q \in Requests : q # r => Post(q)' = Post(q)
  PROVE  [Cookies!KNext]_Cookies!cookieVars
<1>1. {r} \in SUBSET (Requests \ Cookies!UnderWay)
  BY DEF Cookies!UnderWay
<1>2. Cookies!Ask(b)
  BY <1>1 DEF Cookies!Ask, Owners
<1>3. QED BY <1>2 DEF Cookies!KNext

(* The new session's cookie arrives, or is lost.                           *)
LEMMA GrantStep ==
  ASSUME TypeOK, IInv, NEW r \in Requests, at[r] = "cookieOut",
         at' = [at EXCEPT ![r] = "free"], sid' = [sid EXCEPT ![r] = None],
         UNCHANGED <<sessions, origin>>,
         cookie' \in {[cookie EXCEPT ![by[r]] = sid[r]], cookie},
         \A q \in Requests : Post(q)' = Post(q)
  PROVE  [Cookies!KNext]_Cookies!cookieVars
<1>1. PICK s \in SessionIds, b \in Browsers : s = sid[r] /\ b = by[r]
  BY ConstantTypes DEF TypeOK
<1>2. OwnerFor(s) = None
  BY <1>1 DEF OwnerFor
<1>3. \A i \in SessionIds : i # s => OwnerFor(i)' = OwnerFor(i)
  BY <1>1 DEF OwnerFor, TypeOK
<1>4. PICK u \in States \union {None} : u = OwnerFor(s)'
  BY DEF OwnerFor, TypeOK
<1>5. Owners' = [Owners EXCEPT ![s] = u]
  BY <1>3, <1>4 DEF Owners
<1>6. ~Cookies!Held(s)
  <2>1. \A q \in Requests : Post(q).id # s
    BY <1>1, ConstantTypes DEF Post, IInv, CookiesFollow
  <2>2. QED BY <1>1, <2>1 DEF Cookies!Held, IInv, CookiesFollow
<1>7. Posts' = Cookies!WithoutPosts({})
  BY DEF Posts, Cookies!WithoutPosts
<1>8. cookie' \in {[cookie EXCEPT ![b] = s], cookie}
  BY <1>1
<1>e. {} \in SUBSET Cookies!UnderWay
  OBVIOUS
<1>9. Cookies!SignIn(b, s, u)
  BY <1>5, <1>6, <1>7, <1>8, <1>e
     DEF Cookies!SignIn, Cookies!Lost, Owners, Posts
<1>10. s \in SessionIds \ Cookies!Live
  BY <1>2 DEF Cookies!Live
<1>12. QED BY <1>9, <1>10 DEF Cookies!KNext

LEMMA NamesSet ==
  ASSUME NEW f, NEW g, NEW r \in Requests, NEW b, NEW i, NEW x, NEW y,
         f = [q \in Requests |-> f[q]], g = [q \in Requests |-> g[q]],
         f[r] = [by |-> b, id |-> i, names |-> x],
         g[r] = [by |-> b, id |-> i, names |-> y],
         \A q \in Requests : q # r => g[q] = f[q]
  PROVE  g = [f EXCEPT ![r].names = y]
OBVIOUS

LEMMA CookiesStep ==
  TypeOK /\ IInv /\ [Next]_vars => [Cookies!KNext]_Cookies!cookieVars
<1> SUFFICES ASSUME TypeOK, IInv, [Next]_vars
             PROVE  [Cookies!KNext]_Cookies!cookieVars
  OBVIOUS
<1> USE ConstantTypes DEF Free, Move, Cookies!NoPost
<1>t. /\ at \in [Requests -> Places]
      /\ by \in [Requests -> Browsers \union {None}]
      /\ sid \in [Requests -> SessionIds \union {None}]
      /\ cookie \in [Browsers -> SessionIds \union {None}]
      /\ origin \in [SessionIds -> States \union {None}]
      /\ \A r \in Requests : at[r] # "free" <=> by[r] # None
      /\ \A r \in Requests :
           at[r] \in {"acquire", "obo", "token"} => sid[r] # None
  BY DEF TypeOK
<1>g. ASSUME NEW s, GetEffect(s) PROVE sessions' \subseteq sessions
  BY <1>g DEF GetEffect
<1>1. ASSUME NEW r \in Requests, NEW s \in SessionIds, RedeemOk(r, s)
      PROVE  [Cookies!KNext]_Cookies!cookieVars
  <2>1. /\ s \notin created /\ sessions \subseteq created
        /\ sessions' \subseteq sessions \union {s}
        /\ \A i \in SessionIds : i # s => origin'[i] = origin[i]
        /\ at[r] = "redeem" /\ at' = [at EXCEPT ![r] = "cookieOut"]
        /\ sid' = [sid EXCEPT ![r] = s]
        /\ UNCHANGED <<cookie, by>>
    BY <1>1, <1>t DEF RedeemOk, AddSession, IInv, KnownIds
  <2>2. OwnerFor(s)' = None
    BY <2>1, <1>t DEF OwnerFor
  <2>3. \A i \in SessionIds : i # s => OwnerFor(i)' \in {OwnerFor(i), None}
    BY <2>1, <1>t DEF OwnerFor
  <2>4. \A q \in Requests : sid[q] # None => sid[q] # s
    BY <2>1 DEF IInv, KnownIds
  <2>5. Post(r)' = Post(r)
    BY <2>1, <1>t DEF Post
  <2>6. ASSUME NEW q \in Requests, q # r PROVE Post(q)' = Post(q)
    <3>1. CASE sid[q] \in SessionIds
      BY <2>1, <2>4, <2>6, <3>1, <1>t, PostStays
    <3>2. CASE at[q] \notin {"acquire", "obo", "token"}
      BY <2>1, <2>6, <3>2, <1>t DEF Post
    <3>3. QED BY <3>1, <3>2, <1>t
  <2>7. QED BY <2>1, <2>2, <2>3, <2>5, <2>6, EndStep
<1>2. ASSUME NEW r \in Requests,
             \/ RedeemFail(r) \/ Challenge(r) \/ AcquireGone(r)
             \/ OboFail(r) \/ Answer(r)
             \/ (LoseResponse(r) /\ at[r] = "cleared")
      PROVE  [Cookies!KNext]_Cookies!cookieVars
  <2>1. /\ sessions' \subseteq sessions /\ UNCHANGED <<cookie, origin>>
        /\ at[r] # "cookieOut"
        /\ at' = [at EXCEPT ![r] = "free"] /\ by' = [by EXCEPT ![r] = None]
        /\ sid' = [sid EXCEPT ![r] = None]
    BY <1>2, <1>g DEF RedeemFail, Challenge, AcquireGone, OboFail, Answer,
       LoseResponse
  <2>2. Post(r)' = Cookies!NoPost
    BY <2>1, <1>t DEF Post
  <2>3. \A q \in Requests : q # r => Post(q)' = Post(q)
    BY <2>1, <1>t, PostStays
  <2>4. \A s \in SessionIds : OwnerFor(s)' \in {OwnerFor(s), None}
    BY <2>1, <1>t, OwnersEnd
  <2>5. QED BY <2>1, <2>2, <2>3, <2>4, EndStep
<1>3. ASSUME NEW r \in Requests,
             DeliverCookie(r) \/ (LoseResponse(r) /\ at[r] = "cookieOut")
      PROVE  [Cookies!KNext]_Cookies!cookieVars
  <2>1. /\ at[r] = "cookieOut" /\ at' = [at EXCEPT ![r] = "free"]
        /\ by' = [by EXCEPT ![r] = None] /\ sid' = [sid EXCEPT ![r] = None]
        /\ UNCHANGED <<sessions, origin>>
        /\ cookie' \in {[cookie EXCEPT ![by[r]] = sid[r]], cookie}
    BY <1>3 DEF DeliverCookie, LoseResponse
  <2>2. Post(r)' = Post(r)
    BY <2>1, <1>t DEF Post
  <2>3. \A q \in Requests : q # r => Post(q)' = Post(q)
    BY <2>1, <1>t, PostStays
  <2>4. QED BY <2>1, <2>2, <2>3, GrantStep
<1>4. ASSUME NEW r \in Requests, Authenticate(r)
      PROVE  [Cookies!KNext]_Cookies!cookieVars
  <2>1. /\ sid[r] \in sessions /\ sid[r] \in SessionIds
        /\ UNCHANGED <<sessions, origin, cookie, by, sid>>
        /\ at[r] = "authn" /\ at' = [at EXCEPT ![r] = "acquire"]
    BY <1>4, <1>t DEF Authenticate, GetHit, GetEffect, TypeOK
  <2>2. OwnerFor(sid[r]) = origin[sid[r]]
    BY <2>1, <1>t DEF OwnerFor, IInv, CookiesFollow
  <2>3. /\ Post(r) = [by |-> by[r], id |-> sid[r], names |-> None]
        /\ Post(r)' = [by |-> by[r], id |-> sid[r], names |-> OwnerFor(sid[r])]
    BY <2>1, <2>2, <1>t DEF Post
  <2>4. \A q \in Requests : q # r => Post(q)' = Post(q)
    BY <2>1, <1>t, PostStays
  <2>5. UNCHANGED Owners
    BY <2>1, <1>t, OwnersStay
  <2>6. Posts' = [Posts EXCEPT ![r].names = OwnerFor(sid[r])]
    <3>1. /\ Posts = [q \in Requests |-> Posts[q]]
          /\ Posts' = [q \in Requests |-> Posts'[q]]
          /\ \A q \in Requests : Posts[q] = Post(q) /\ Posts'[q] = Post(q)'
      BY DEF Posts
    <3>2. QED BY <2>3, <2>4, <3>1, NamesSet
  <2>7. r \in Cookies!UnderWay
    BY <2>1, <2>3, <1>t DEF Cookies!UnderWay
  <2>8. Cookies!OwnerOf(sid[r]) = OwnerFor(sid[r])
    BY <2>1 DEF Cookies!OwnerOf
  <2>9. Posts[r].names = None /\ Posts[r].id = sid[r]
    BY <2>3 DEF Posts
  <2>10. Cookies!Name(r)
    BY <2>1, <2>5, <2>6, <2>8, <2>9 DEF Cookies!Name, Owners, Posts
  <2>11. QED BY <2>7, <2>10 DEF Cookies!KNext
<1>5. ASSUME NEW r \in Requests, Acquire(r) \/ OboOk(r) \/ SignOut(r)
      PROVE  [Cookies!KNext]_Cookies!cookieVars
  <2>1. /\ sessions' \subseteq sessions /\ UNCHANGED <<cookie, origin, by, sid>>
        /\ at[r] \in {"acquire", "obo", "signOut"}
        /\ \E place \in {"obo", "token", "cleared"} :
             /\ at' = [at EXCEPT ![r] = place]
             /\ place = "cleared" <=> at[r] = "signOut"
    BY <1>5, <1>g DEF Acquire, OboOk, SignOut
  <2>2. Post(r)' = Post(r)
    BY <2>1, <1>t DEF Post
  <2>3. \A q \in Requests : q # r => Post(q)' = Post(q)
    BY <2>1, <1>t, PostStays
  <2>4. \A s \in SessionIds : OwnerFor(s)' \in {OwnerFor(s), None}
    BY <2>1, <1>t, OwnersEnd
  <2>5. QED BY <2>1, <2>2, <2>3, <2>4, EndStep
<1>6. ASSUME NEW r \in Requests, DeliverCleared(r)
      PROVE  [Cookies!KNext]_Cookies!cookieVars
  <2>1. /\ at[r] = "cleared" /\ at' = [at EXCEPT ![r] = "free"]
        /\ by[r] # None
        /\ by' = [by EXCEPT ![r] = None] /\ sid' = [sid EXCEPT ![r] = None]
        /\ UNCHANGED <<sessions, origin>>
        /\ cookie' = [cookie EXCEPT ![by[r]] = None]
    BY <1>6, <1>t DEF DeliverCleared
  <2>2. /\ Post(r) = [by |-> by[r], id |-> sid[r], names |-> None]
        /\ Post(r)' = Cookies!NoPost
    BY <2>1, <1>t DEF Post
  <2>3. \A q \in Requests : q # r => Post(q)' = Post(q)
    BY <2>1, <1>t, PostStays
  <2>4. UNCHANGED Owners
    BY <2>1, <1>t, OwnersStay
  <2>5. Cookies!OwnerOf(sid[r]) = None
    BY <2>1, <1>t DEF Cookies!OwnerOf, OwnerFor, IInv, CookiesFollow, KnownIds
  <2>6. Posts[r].by = by[r] /\ Posts[r].id = sid[r]
    BY <2>2 DEF Posts
  <2>7. Posts' = Cookies!WithoutPosts({r})
    BY <2>2, <2>3 DEF Posts, Cookies!WithoutPosts
  <2>8. Cookies!Clear(r)
    BY <2>1, <2>4, <2>5, <2>6, <2>7 DEF Cookies!Clear, Owners, Posts
  <2>9. r \in Cookies!UnderWay
    BY <2>1, <2>2 DEF Cookies!UnderWay
  <2>10. QED BY <2>8, <2>9 DEF Cookies!KNext
<1>7. ASSUME NEW b \in Browsers,
             \/ AuthMe(b) \/ \E p \in States : SignIn(b, p) \/ CallbackTooLate(b, p)
             \/ \E r \in Requests, p \in States : Callback(r, b, p)
      PROVE  [Cookies!KNext]_Cookies!cookieVars
  <2>1. /\ sessions' \subseteq sessions /\ UNCHANGED <<cookie, origin, sid>>
        /\ \/ UNCHANGED <<at, by>>
           \/ \E r \in Requests :
                /\ at[r] = "free" /\ at' = [at EXCEPT ![r] = "redeem"]
                /\ by' = [by EXCEPT ![r] = b]
    BY <1>7, <1>g DEF AuthMe, Touch, SignIn, CallbackTooLate, Callback
  <2>2. \A q \in Requests : Post(q)' = Post(q)
    BY <2>1, <1>t DEF Post
  <2>3. \A s \in SessionIds : OwnerFor(s)' \in {OwnerFor(s), None}
    BY <2>1, <1>t, OwnersEnd
  <2>4. QED BY <2>1, <2>2, <2>3, EndStep
<1>8. ASSUME NEW b \in Browsers, NEW r \in Requests,
             Send(r, b) \/ SendSignOut(r, b)
      PROVE  [Cookies!KNext]_Cookies!cookieVars
  <2>1. /\ at[r] = "free"
        /\ \E place \in {"authn", "signOut"} : at' = [at EXCEPT ![r] = place]
        /\ by' = [by EXCEPT ![r] = b]
        /\ sid' = [sid EXCEPT ![r] = cookie[b]]
        /\ UNCHANGED <<sessions, origin, cookie>>
    BY <1>8 DEF Send, SendSignOut
  <2>2. /\ Post(r) = Cookies!NoPost
        /\ Post(r)' = [by |-> b, id |-> cookie[b], names |-> None]
    BY <2>1, <1>t DEF Post
  <2>3. \A q \in Requests : q # r => Post(q)' = Post(q)
    BY <2>1, <1>t, PostStays
  <2>4. UNCHANGED Owners
    BY <2>1, <1>t, OwnersStay
  <2>5. QED BY <2>1, <2>2, <2>3, <2>4, AskStep
<1>9. CASE Restart
  <2>1. /\ sessions' = {} /\ UNCHANGED cookie
        /\ \A r \in Requests : at'[r] = "free"
    BY <1>9 DEF Restart
  <2>2. \A s \in SessionIds : OwnerFor(s)' = None
    BY <2>1 DEF OwnerFor
  <2>3. \A r \in Requests : Post(r)' = Cookies!NoPost
    BY <2>1 DEF Post
  <2>4. QED BY <2>1, <2>2, <2>3, EndStep
<1>10. CASE Tick
  <2>1. PICK B \in SUBSET Browsers :
          cookie' = [b \in Browsers |-> IF b \in B THEN None ELSE cookie[b]]
    <3>1. PICK B \in SUBSET Browsers : B = {b \in Browsers : ~(cookieUntil[b] > clock + 1)}
      OBVIOUS
    <3>2. QED BY <1>10, <3>1 DEF Tick
  <2>2. UNCHANGED <<Owners, Posts>>
    BY <1>10 DEF Tick, Owners, OwnerFor, Posts, Post
  <2>3. Cookies!Expire(B)
    BY <2>1, <2>2 DEF Cookies!Expire, Owners, Posts
  <2>4. QED BY <2>3 DEF Cookies!KNext
<1>11. CASE UNCHANGED vars
  BY <1>11 DEF vars, Cookies!cookieVars, OwnerFor, Post
<1>12. QED
  BY <1>1, <1>2, <1>3, <1>4, <1>5, <1>6, <1>7, <1>8, <1>9, <1>10, <1>11
     DEF Next, Serve, Browse, LoseResponse

(* The BFF is to a page what SpaSession takes it for.                      *)
THEOREM BffKeepsCookieContract == Spec => KeepsCookieContract
BY CookiesInit, CookiesStep, Invariance, PTL
   DEF Spec, KeepsCookieContract, Cookies!KSpec
=============================================================================
