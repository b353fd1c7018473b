----------------------------- MODULE ServerOidc -----------------------------
(***************************************************************************)
(* Sign-in, use and sign-out of a server-side session: the browsers, the   *)
(* BFF's AuthController, session authentication, SessionTokenAcquirer and  *)
(* the two in-memory stores, with Entra as an external party.              *)
(*                                                                         *)
(* A handler is atomic between two awaits: its statements touch the stores *)
(* only through calls that modules SessionStore and PendingSignInStore     *)
(* break down further.  Requests in flight interleave at every await and   *)
(* at every message; responses may be lost; the process may restart, which *)
(* empties both stores but not the browsers' cookie jars.                  *)
(***************************************************************************)
EXTENDS Integers

CONSTANTS Browsers,         \* user agents
          States,           \* values of the OIDC state, each drawn once
          SessionIds,       \* session ids, each drawn once
          Requests,         \* slots for requests in flight
          None,             \* no state, no session, no browser
          Ttl,              \* life of a pending sign-in, 10 min
          IdleTimeout,      \* idle life of a session, 8 h
          CleanupInterval,  \* throttle of the session sweep, 15 min
          CookieAge,        \* MaxAge of the CMSP_SESSION cookie, 8 h
          AssertionLife,    \* life of the access token a sign-in yields
          TokenLife,        \* life of a downstream token
          Margin,           \* a cached token must outlive this, 2 min
          MaxClock          \* bound on the clock

ASSUME OidcAssumption ==
  /\ None \notin Browsers \union States \union SessionIds
  /\ \A n \in {Ttl, IdleTimeout, CleanupInterval, CookieAge, AssertionLife,
               TokenLife, Margin, MaxClock} : n \in Nat

VARIABLES
  clock,           \* UtcNow
  pending,         \* keys of the pending sign-in store
  createdAt,       \* CreatedAt of each pending sign-in
  sessions,        \* keys of the session store
  lastSeen,        \* LastSeenAt of each session
  assertionUntil,  \* ExpiresOn of each session's access token
  lastCleanup,     \* _lastCleanup of the session store
  cookie,          \* the session id in each browser's cookie jar
  cookieUntil,     \* when that cookie's MaxAge ends
  at,              \* where each request is
  by,              \* the browser that sent it
  state,           \* a callback's state
  sid,             \* the session id a request carries or answers with
  cache,           \* _cache of each request's SessionTokenAcquirer
  drawn,           \* history: states SignIn drew
  created,         \* history: session ids ever added
  origin,          \* history: the sign-in each session came from
  signedOut,       \* history: sessions whose sign-out was handled
  tokenUntil       \* history: until when the last token got for a session lives

stores   == <<pending, createdAt, sessions, lastSeen, assertionUntil, lastCleanup>>
jars     == <<cookie, cookieUntil>>
requests == <<at, by, state, sid, cache>>
history  == <<drawn, created, origin, signedOut, tokenUntil>>
vars     == <<clock, stores, jars, requests, history>>

Places == {"free", "redeem", "cookieOut",            \* a callback
           "authn", "acquire", "obo", "token",       \* a call in session mode
           "signOut", "cleared"}                     \* a sign-out

EmptyCache == [s \in SessionIds |-> 0]

Init ==
  /\ clock = 0
  /\ pending = {}
  /\ createdAt = [p \in States |-> 0]
  /\ sessions = {}
  /\ lastSeen = [s \in SessionIds |-> 0]
  /\ assertionUntil = [s \in SessionIds |-> 0]
  /\ lastCleanup = 0
  /\ cookie = [b \in Browsers |-> None]
  /\ cookieUntil = [b \in Browsers |-> 0]
  /\ at = [r \in Requests |-> "free"]
  /\ by = [r \in Requests |-> None]
  /\ state = [r \in Requests |-> None]
  /\ sid = [r \in Requests |-> None]
  /\ cache = [r \in Requests |-> EmptyCache]
  /\ drawn = {}
  /\ created = {}
  /\ origin = [s \in SessionIds |-> None]
  /\ signedOut = {}
  /\ tokenUntil = [s \in SessionIds |-> 0]

-----------------------------------------------------------------------------
(***************************************************************************)
(* The stores' operations, each whole.                                     *)
(***************************************************************************)
Idle(s) == clock - lastSeen[s] > IdleTimeout

(* ISessionStore.Get(s) answers a session and slides it; or it answers     *)
(* null, having evicted s if it was idle too long.                         *)
GetHit(s) == s \in sessions /\ ~Idle(s)

GetEffect(s) ==
  /\ sessions' = sessions \ (IF GetHit(s) THEN {} ELSE {s})
  /\ lastSeen' = IF GetHit(s) THEN [lastSeen EXCEPT ![s] = clock] ELSE lastSeen

(* TryCleanup, run at the end of ISessionStore.Add.                        *)
SweptSessions ==
  IF clock - lastCleanup < CleanupInterval THEN {}
  ELSE {s \in sessions : lastSeen[s] < clock - IdleTimeout}

AddSession(s) ==
  /\ sessions' = (sessions \ SweptSessions) \union {s}
  /\ lastSeen' = [lastSeen EXCEPT ![s] = clock]
  /\ lastCleanup' = IF clock - lastCleanup < CleanupInterval
                    THEN lastCleanup ELSE clock

KeptPendingTooLong == {p \in pending : createdAt[p] >= clock - Ttl - 1}

(* What Cleanup of the pending store keeps.                                *)
KeptPending == {p \in pending : createdAt[p] >= clock - Ttl}

(* The dependency container makes a SessionTokenAcquirer per request       *)
(* (AddScoped), so each starts with an empty cache.                        *)
AcquirerOf(r) == r

(* The request is over, and with it what the container made for it.        *)
Free(r) ==
  /\ at' = [at EXCEPT ![r] = "free"]
  /\ by' = [by EXCEPT ![r] = None]
  /\ state' = [state EXCEPT ![r] = None]
  /\ sid' = [sid EXCEPT ![r] = None]
  /\ cache' = [cache EXCEPT ![r] = EmptyCache]

Move(r, place) ==
  /\ at' = [at EXCEPT ![r] = place]
  /\ UNCHANGED <<by, state, sid, cache>>

-----------------------------------------------------------------------------
(***************************************************************************)
(* Signing in.                                                             *)
(***************************************************************************)
(* UseAuthentication runs for every request, anonymous endpoints included: *)
(* a request that carries a cookie slides or evicts its session before the *)
(* endpoint runs.  This is all that /api/auth/me does.                     *)
Touch(b) ==
  /\ GetEffect(cookie[b])
  /\ UNCHANGED <<clock, pending, createdAt, assertionUntil, lastCleanup, jars,
                 requests, history>>

AuthMe(b) == cookie[b] # None /\ Touch(b)

(* GET /api/auth/sign-in: remember a fresh state, send the browser to      *)
(* Entra.                                                                  *)
SignIn(b, p) ==
  /\ p \notin drawn
  /\ GetEffect(cookie[b])
  /\ pending' = KeptPending \union {p}
  /\ createdAt' = [createdAt EXCEPT ![p] = clock]
  /\ drawn' = drawn \union {p}
  /\ UNCHANGED <<clock, assertionUntil, lastCleanup, jars, requests, created,
                 origin, signedOut, tokenUntil>>

CallbackPeeks(r, b, p) ==
  /\ at[r] = "free"
  /\ p \in drawn /\ p \in KeptPending
  /\ GetEffect(cookie[b])
  /\ pending' = KeptPending
  /\ at' = [at EXCEPT ![r] = "redeem"]
  /\ by' = [by EXCEPT ![r] = b]
  /\ state' = [state EXCEPT ![r] = p]
  /\ UNCHANGED <<clock, createdAt, assertionUntil, lastCleanup, jars, sid,
                 cache, history>>

(* GET /api/auth/callback with a code and the state of a sign-in still     *)
(* pending: take it, and ask Entra to redeem the code.  Entra may send the *)
(* browser back any number of times, each with a code of its own: the      *)
(* authorize URL and the callback URL can both be loaded again.            *)
Callback(r, b, p) ==
  /\ at[r] = "free"
  /\ p \in drawn /\ p \in KeptPending
  /\ GetEffect(cookie[b])
  /\ pending' = KeptPending \ {p}
  /\ at' = [at EXCEPT ![r] = "redeem"]
  /\ by' = [by EXCEPT ![r] = b]
  /\ state' = [state EXCEPT ![r] = p]
  /\ UNCHANGED <<clock, createdAt, assertionUntil, lastCleanup, jars, sid,
                 cache, history>>

(* The same with a state no longer pending: 400, after the store's         *)
(* Cleanup.  (With ?error=, or without a code, the handler answers 400     *)
(* before touching the store, as Touch.)                                   *)
CallbackTooLate(b, p) ==
  /\ p \in drawn /\ p \notin KeptPending
  /\ GetEffect(cookie[b])
  /\ pending' = KeptPending
  /\ UNCHANGED <<clock, createdAt, assertionUntil, lastCleanup, jars, requests,
                 history>>

(* Entra redeems the code: a new session, whose id goes out as a cookie.   *)
RedeemOk(r, s) ==
  /\ at[r] = "redeem"
  /\ s \notin created
  /\ AddSession(s)
  /\ assertionUntil' = [assertionUntil EXCEPT ![s] = clock + AssertionLife]
  /\ at' = [at EXCEPT ![r] = "cookieOut"]
  /\ sid' = [sid EXCEPT ![r] = s]
  /\ created' = created \union {s}
  /\ origin' = [origin EXCEPT ![s] = state[r]]
  /\ UNCHANGED <<clock, pending, createdAt, jars, by, state, cache, drawn,
                 signedOut, tokenUntil>>

(* Entra refuses, or cannot be reached: an error page, and the sign-in is  *)
(* gone from the store.                                                    *)
RedeemFail(r) ==
  /\ at[r] = "redeem"
  /\ Free(r)
  /\ UNCHANGED <<clock, stores, jars, history>>

(* The browser stores the cookie and goes on to the SPA.                   *)
DeliverCookie(r) ==
  /\ at[r] = "cookieOut"
  /\ cookie' = [cookie EXCEPT ![by[r]] = sid[r]]
  /\ cookieUntil' = [cookieUntil EXCEPT ![by[r]] = clock + CookieAge]
  /\ Free(r)
  /\ UNCHANGED <<clock, stores, history>>

-----------------------------------------------------------------------------
(***************************************************************************)
(* Using the session: any endpoint that needs a downstream token.          *)
(***************************************************************************)
Send(r, b) ==
  /\ at[r] = "free"
  /\ cookie[b] # None
  /\ at' = [at EXCEPT ![r] = "authn"]
  /\ by' = [by EXCEPT ![r] = b]
  /\ sid' = [sid EXCEPT ![r] = cookie[b]]
  /\ UNCHANGED <<clock, stores, jars, state, cache, history>>

AuthenticateByCookie(r) ==
  /\ at[r] = "authn"
  /\ Move(r, "acquire")
  /\ UNCHANGED <<clock, stores, jars, history>>

(* HandleAuthenticateAsync finds the session and admits the caller.        *)
Authenticate(r) ==
  /\ at[r] = "authn"
  /\ GetHit(sid[r])
  /\ GetEffect(sid[r])
  /\ Move(r, "acquire")
  /\ UNCHANGED <<clock, pending, createdAt, assertionUntil, lastCleanup, jars,
                 history>>

(* 401: no session, or one idle too long.                                  *)
Challenge(r) ==
  /\ at[r] = "authn"
  /\ ~GetHit(sid[r])
  /\ GetEffect(sid[r])
  /\ Free(r)
  /\ UNCHANGED <<clock, pending, createdAt, assertionUntil, lastCleanup, jars,
                 history>>

CacheHit(r) == cache[AcquirerOf(r)][sid[r]] > clock + Margin

AcquireTrusting(r) ==
  /\ at[r] = "acquire"
  /\ IF CacheHit(r) THEN Move(r, "token") ELSE Move(r, "obo")
  /\ UNCHANGED <<clock, stores, jars, history>>

(* GetTokenForScopeAsync up to its await: look the session up once more;   *)
(* answer from the cache, or present the session's access token to Entra.  *)
Acquire(r) ==
  /\ at[r] = "acquire"
  /\ GetHit(sid[r])
  /\ GetEffect(sid[r])
  /\ IF CacheHit(r) THEN Move(r, "token") ELSE Move(r, "obo")
  /\ UNCHANGED <<clock, pending, createdAt, assertionUntil, lastCleanup, jars,
                 history>>

AcquireGoneIfIdle(r) ==
  /\ at[r] = "acquire"
  /\ sid[r] \in sessions /\ ~GetHit(sid[r])
  /\ GetEffect(sid[r])
  /\ Free(r)
  /\ UNCHANGED <<clock, pending, createdAt, assertionUntil, lastCleanup, jars,
                 history>>

(* The session ended since it authenticated the request: an exception,     *)
(* answered with an error.                                                 *)
AcquireGone(r) ==
  /\ at[r] = "acquire"
  /\ ~GetHit(sid[r])
  /\ GetEffect(sid[r])
  /\ Free(r)
  /\ UNCHANGED <<clock, pending, createdAt, assertionUntil, lastCleanup, jars,
                 history>>

(* Entra exchanges an assertion that has not expired.                      *)
OboOk(r) ==
  /\ at[r] = "obo"
  /\ clock < assertionUntil[sid[r]]
  /\ cache' = [cache EXCEPT ![AcquirerOf(r)][sid[r]] = clock + TokenLife]
  /\ tokenUntil' = [tokenUntil EXCEPT ![sid[r]] = clock + TokenLife]
  /\ at' = [at EXCEPT ![r] = "token"]
  /\ UNCHANGED <<clock, stores, jars, by, state, sid, drawn, created, origin,
                 signedOut>>

(* MsalException, or the caller hung up: an error answer.                  *)
OboFail(r) ==
  /\ at[r] = "obo"
  /\ Free(r)
  /\ UNCHANGED <<clock, stores, jars, history>>

(* The handler calls downstream with the token and answers.                *)
Answer(r) ==
  /\ at[r] = "token"
  /\ Free(r)
  /\ UNCHANGED <<clock, stores, jars, history>>

-----------------------------------------------------------------------------
(***************************************************************************)
(* Signing out.                                                            *)
(***************************************************************************)
SendSignOut(r, b) ==
  /\ at[r] = "free"
  /\ at' = [at EXCEPT ![r] = "signOut"]
  /\ by' = [by EXCEPT ![r] = b]
  /\ sid' = [sid EXCEPT ![r] = cookie[b]]
  /\ UNCHANGED <<clock, stores, jars, state, cache, history>>

SignOutClearsCookieOnly(r) ==
  /\ at[r] = "signOut"
  /\ signedOut' = signedOut \union ({sid[r]} \ {None})
  /\ Move(r, "cleared")
  /\ UNCHANGED <<clock, stores, jars, drawn, created, origin, tokenUntil>>

(* POST /api/auth/sign-out drops the session, if the request names one.    *)
(* (The lookup by UseAuthentication before it leaves no trace once the     *)
(* session is gone.)                                                       *)
SignOut(r) ==
  /\ at[r] = "signOut"
  /\ sessions' = sessions \ {sid[r]}
  /\ signedOut' = signedOut \union ({sid[r]} \ {None})
  /\ Move(r, "cleared")
  /\ UNCHANGED <<clock, pending, createdAt, lastSeen, assertionUntil,
                 lastCleanup, jars, drawn, created, origin, tokenUntil>>

(* The answer deletes whatever session cookie the browser holds by then.   *)
DeliverCleared(r) ==
  /\ at[r] = "cleared"
  /\ cookie' = [cookie EXCEPT ![by[r]] = None]
  /\ cookieUntil' = [cookieUntil EXCEPT ![by[r]] = 0]
  /\ Free(r)
  /\ UNCHANGED <<clock, stores, history>>

-----------------------------------------------------------------------------
(***************************************************************************)
(* The environment.                                                        *)
(***************************************************************************)
LoseResponse(r) ==
  /\ at[r] \in {"cookieOut", "cleared"}
  /\ Free(r)
  /\ UNCHANGED <<clock, stores, jars, history>>

(* The BFF process restarts: both stores and all requests are gone.        *)
Restart ==
  /\ pending' = {}
  /\ sessions' = {}
  /\ lastCleanup' = clock
  /\ at' = [r \in Requests |-> "free"]
  /\ by' = [r \in Requests |-> None]
  /\ state' = [r \in Requests |-> None]
  /\ sid' = [r \in Requests |-> None]
  /\ cache' = [r \in Requests |-> EmptyCache]
  /\ UNCHANGED <<clock, createdAt, lastSeen, assertionUntil, jars, history>>

(* Time passes; a browser drops a cookie whose MaxAge is over.             *)
Tick ==
  /\ clock < MaxClock
  /\ clock' = clock + 1
  /\ cookie' = [b \in Browsers |->
                  IF cookieUntil[b] > clock + 1 THEN cookie[b] ELSE None]
  /\ cookieUntil' = [b \in Browsers |->
                  IF cookieUntil[b] > clock + 1 THEN cookieUntil[b] ELSE 0]
  /\ UNCHANGED <<stores, requests, history>>

-----------------------------------------------------------------------------
(* What the server does of its own accord for a request it has received.   *)
Serve(r) ==
  \/ \E s \in SessionIds : RedeemOk(r, s)
  \/ RedeemFail(r)
  \/ DeliverCookie(r)
  \/ Authenticate(r)
  \/ Challenge(r)
  \/ Acquire(r)
  \/ AcquireGone(r)
  \/ OboOk(r)
  \/ OboFail(r)
  \/ Answer(r)
  \/ SignOut(r)
  \/ DeliverCleared(r)
  \/ LoseResponse(r)

Browse(b) ==
  \/ AuthMe(b)
  \/ \E p \in States : SignIn(b, p)
  \/ \E r \in Requests, p \in States : Callback(r, b, p)
  \/ \E p \in States : CallbackTooLate(b, p)
  \/ \E r \in Requests : Send(r, b)
  \/ \E r \in Requests : SendSignOut(r, b)

Next ==
  \/ \E r \in Requests : Serve(r)
  \/ \E b \in Browsers : Browse(b)
  \/ Restart
  \/ Tick

Spec == Init /\ [][Next]_vars

(* Kestrel runs every handler to its end, Entra (or MSAL's timeout)        *)
(* answers every call, and a response is delivered or lost.                *)
FairSpec == Spec /\ \A r \in Requests : WF_vars(Serve(r))

-----------------------------------------------------------------------------
(* Types, and what a request carries where: a callback its state, a call   *)
(* in session mode the id of a session that was added, a fresh acquirer    *)
(* (AddScoped) no tokens.                                                  *)
TypeOK ==
  /\ clock \in Nat
  /\ pending \in SUBSET States
  /\ createdAt \in [States -> Nat]
  /\ sessions \in SUBSET SessionIds
  /\ lastSeen \in [SessionIds -> Nat]
  /\ assertionUntil \in [SessionIds -> Nat]
  /\ lastCleanup \in Nat
  /\ cookie \in [Browsers -> SessionIds \union {None}]
  /\ cookieUntil \in [Browsers -> Nat]
  /\ at \in [Requests -> Places]
  /\ by \in [Requests -> Browsers \union {None}]
  /\ state \in [Requests -> States \union {None}]
  /\ sid \in [Requests -> SessionIds \union {None}]
  /\ cache \in [Requests -> [SessionIds -> Nat]]
  /\ drawn \in SUBSET States
  /\ created \in SUBSET SessionIds
  /\ origin \in [SessionIds -> States \union {None}]
  /\ signedOut \in SUBSET SessionIds
  /\ tokenUntil \in [SessionIds -> Nat]
  /\ \A r \in Requests :
       /\ at[r] # "free" <=> by[r] # None
       /\ at[r] \in {"redeem", "cookieOut"} <=> state[r] # None
       /\ at[r] \in {"cookieOut", "authn", "acquire", "obo", "token"}
            => sid[r] # None
       /\ at[r] \in {"free", "redeem"} => sid[r] = None
       /\ at[r] # "token" => cache[r] = EmptyCache

(* A sign-in yields at most one session, however often Entra's redirect is *)
(* loaded, answered late or raced by a copy of itself (Callback pops the   *)
(* state before it awaits the redemption).                                 *)
OneSessionPerSignIn ==
  \A s1, s2 \in created : origin[s1] = origin[s2] => s1 = s2

(* Once a sign-out was handled, no request of that session that has not    *)
(* reached Entra yet gets a token, not even one that authenticated before  *)
(* (GetTokenForScopeAsync looks the session up again).                     *)
NoTokenAfterSignOut ==
  [][\A r \in Requests :
       /\ at[r] \in {"authn", "acquire"}
       /\ sid[r] \in signedOut
       => at'[r] \notin {"obo", "token"}]_vars

(* The BFF as a whole keeps the contract of its session store: across      *)
(* sweeps, sign-outs, restarts and late requests no session comes back,    *)
(* and a request is admitted only by a session that is live.               *)
Contract == INSTANCE SessionContract WITH
  Callers <- Requests,
  live    <- sessions,
  gone    <- created \ sessions,
  serving <- [r \in Requests |->
                IF at[r] \in {"acquire", "obo"} THEN sid[r] ELSE None]

KeepsContract == Contract!CSpec

(* What has become of each sign-in.                                        *)
Fate == [p \in States |->
  IF p \notin drawn THEN "new"
  ELSE IF p \in pending THEN "open"
  ELSE IF \E r \in Requests : at[r] = "redeem" /\ state[r] = p THEN "taken"
  ELSE IF \E s \in created : origin[s] = p THEN "done" ELSE "over"]

(* So does it keep the contract of a sign-in: through callbacks repeated,  *)
(* late, failed or racing, and restarts, a sign-in ends in a session at    *)
(* most once, only within its time to live, and is lost only to age, to    *)
(* Entra's refusal or to a restart.                                        *)
SignIns == INSTANCE SignInContract WITH since <- createdAt, fate <- Fate

KeepsSignInContract == SignIns!SSpec

(* What the BFF is to a page: whose each session is once its cookie went   *)
(* out, and the requests under way that carry one.                         *)
OwnerFor(s) ==
  IF /\ s \in sessions
     /\ \A r \in Requests : at[r] = "cookieOut" => sid[r] # s
  THEN origin[s] ELSE None

Post(r) ==
  IF at[r] \in {"free", "redeem", "cookieOut"} THEN [by |-> None, id |-> None, names |-> None]
  ELSE [by |-> by[r], id |-> sid[r],
        names |-> IF at[r] \in {"acquire", "obo", "token"}
                  THEN origin[sid[r]] ELSE None]

(* What SpaSession takes the BFF for is what it is: across all this, an    *)
(* answer names the user whose session the request carried, a sign-in gets *)
(* an id nobody holds, and no cookie is cleared before its session ended.  *)
Cookies == INSTANCE CookieContract WITH
  Users <- States, Ids <- SessionIds, Messages <- Requests,
  jar   <- cookie,
  owner <- [s \in SessionIds |-> OwnerFor(s)],
  post  <- [r \in Requests |-> Post(r)]

KeepsCookieContract == Cookies!KSpec

(* A sign-out request that reached the BFF ends its session for good,      *)
(* whatever else happens meanwhile.                                        *)
SignOutTakesEffect ==
  \A s \in SessionIds :
    (\E r \in Requests : at[r] = "signOut" /\ sid[r] = s)
      ~> [](s \notin sessions)

(* Every request is answered, or its answer lost: no handler waits for     *)
(* ever, whatever ended its session meanwhile.                             *)
RequestsEnd == \A r \in Requests : at[r] # "free" ~> at[r] = "free"

(* SessionTokenAcquirer.cs: "Cache acquired tokens per (sessionId,         *)
(* scopeSetKey)": while the last token acquired for a session outlives the *)
(* margin, a request of that session is answered from _cache.              *)
CachedPerSession ==
  \A r \in Requests :
    at[r] = "acquire" /\ tokenUntil[sid[r]] > clock + Margin => CacheHit(r)

(* WidgetController.cs: "Works in both auth modes: ... SessionTokenAcquirer*)
(* using the stored access token as the OBO assertion". So for a session   *)
(* that still authenticates its user the stored token is still good.       *)
AssertionUsable ==
  \A r \in Requests :
    at[r] = "acquire" /\ GetHit(sid[r]) => clock < assertionUntil[sid[r]]
=============================================================================
