------------------------------ MODULE CallChain ------------------------------
(***************************************************************************)
(* One call through the chain client -> BFF -> PartnerAPI (or Graph, or    *)
(* the widget): who the BFF takes the caller to be, in whose name it gets  *)
(* the downstream token, and what PartnerAPI makes of that token.          *)
(*                                                                         *)
(* Neither service keeps anything of its own between two such calls, so    *)
(* one call in flight is enough; what other requests do to it is that its  *)
(* user's session may begin or end between any two steps.  Token lifetimes *)
(* and the session store itself are the subject of module ServerOidc.      *)
(***************************************************************************)
EXTENDS Integers, Sequences

CONSTANTS Users,     \* people, named by their oid
          Apps,      \* service principals, named by their oid
          Bff,       \* the BFF's own service principal
          WithPuid,  \* the users whose tokens carry a puid
          None,      \* no user, no claim, no token, no endpoint
          Bad        \* a bearer token the service refuses: expired, forged,
                     \* meant for another service

ASSUME ChainAssumption ==
  /\ Bff \in Apps
  /\ WithPuid \subseteq Users
  /\ Users \intersect Apps = {}
  /\ None \notin Users \union Apps \union {"app", "session"}

VARIABLES
  live,       \* the users with a live session
  at,         \* where the call is
  endpoint,   \* the BFF endpoint, None for a call straight to PartnerAPI
  header,     \* the bearer token sent: a token, Bad or None
  cookie,     \* whose CMSP_SESSION cookie was sent, or None
  principal,  \* HttpContext.User at the BFF: its identities, in order
  token,      \* the token for the next hop
  path,       \* the PartnerAPI path
  answer      \* what the client gets

vars == <<live, at, endpoint, header, cookie, principal, token, path, answer>>

-----------------------------------------------------------------------------
(***************************************************************************)
(* Claims.  An identity, or a token, is a function from the types of the   *)
(* claims it has to their values; a principal is a sequence of identities. *)
(***************************************************************************)
ClaimTypes == {"oid", "puid", "scp", "roles", "idtyp", "authmode",
               "cmsp_session_id"}

Claims(who, types) ==
  [c \in types |-> CASE c \in {"oid", "puid", "cmsp_session_id"} -> who
                     [] c = "idtyp" -> "app"
                     [] c = "authmode" -> "session"
                     [] OTHER -> c]

Puid(u) == IF u \in WithPuid THEN {"puid"} ELSE {}

Identities == {Claims(w, C) : w \in Users \union Apps, C \in SUBSET ClaimTypes}

(* What Entra issues: to a user a token with a scope, to an app one with   *)
(* neither scope nor puid; either may have app roles, and idtyp is there   *)
(* for an app only, if the resource asked for it.                          *)
UserTokens(u) ==
  {Claims(u, {"oid", "scp"} \union Puid(u) \union C) : C \in SUBSET {"roles"}}
AppTokens(a) ==
  {Claims(a, {"oid"} \union C) : C \in SUBSET {"roles", "idtyp"}}

Tokens ==
  (UNION {UserTokens(u) : u \in Users}) \union (UNION {AppTokens(a) : a \in Apps})

Carriers(p, type) == {i \in DOMAIN p : type \in DOMAIN p[i]}

(* ClaimsPrincipal.HasClaim and FindFirst.                                 *)
HasClaim(p, type) == Carriers(p, type) # {}

FindFirst(p, type) ==
  IF HasClaim(p, type)
  THEN p[CHOOSE i \in Carriers(p, type) :
           \A j \in Carriers(p, type) : i <= j][type]
  ELSE None

IsApp(p) == FindFirst(p, "idtyp") = "app"

-----------------------------------------------------------------------------
(***************************************************************************)
(* The BFF: authentication and the policy of all its endpoints.            *)
(***************************************************************************)
(* Microsoft.Identity.Web: a valid token must have a scope or a role.      *)
Authentic(t) ==
  /\ t \notin {None, Bad}
  /\ HasClaim(<<t>>, "scp") \/ HasClaim(<<t>>, "roles")

(* What each scheme makes of the call: an identity or nothing.             *)
BearerResult == IF Authentic(header) THEN <<header>> ELSE <<>>

SessionIdentity(u) ==
  Claims(u, {"oid", "scp", "authmode", "cmsp_session_id"} \union Puid(u))

SessionResult ==
  IF cookie \in live THEN <<SessionIdentity(cookie)>> ELSE <<>>

(* The authorization middleware tries every scheme of the policy, and puts *)
(* the identities of a later one before those it has.                      *)
Merge(older, newer) == newer \o older

(* UserToken lists both schemes, bearer first.                             *)
Merged == Merge(Merge(<<>>, BearerResult), SessionResult)

UserTokenAnyIdentity(p) == p # <<>> /\ ~IsApp(p)

(* BffAuthPolicies.UserToken.                                              *)
UserToken(p) == p # <<>> /\ ~IsApp(p) /\ HasClaim(p, "scp")

IsSessionAuth(p) == FindFirst(p, "authmode") = "session"

-----------------------------------------------------------------------------
(***************************************************************************)
(* PartnerAPI: its two policies, its paths and what they label answers.    *)
(***************************************************************************)
S2SOnlyByRoles(p) == IsApp(p) \/ HasClaim(p, "roles")

S2SOnly(p) == IsApp(p) \/ (~HasClaim(p, "scp") /\ HasClaim(p, "roles"))

OboOnly(p) == ~IsApp(p) /\ HasClaim(p, "scp")

AppPaths  == {"/api/s2s/claims", "/mcp/s2s"}
UserPaths == {"/api/obo/claims", "/api/obo/graph-me", "/mcp/obo"}

Admits(q, t) ==
  /\ Authentic(t)
  /\ q \in AppPaths => S2SOnly(<<t>>)
  /\ q \in UserPaths => OboOnly(<<t>>)

Flavor(q) == CASE q = "/api/s2s/claims" -> "partner-s2s"
               [] q = "/api/obo/claims" -> "partner-obo"
               [] q = "/mcp/s2s" -> "mcp-s2s"
               [] q = "/mcp/obo" -> "mcp-obo"
               [] OTHER -> "graph"

(* The proxy endpoints, and where each of them leads.                      *)
AsUser == {"obo/claims", "obo/graph-me", "mcp-obo"}
AsApp  == {"s2s/claims", "mcp-s2s"}

UpstreamCrossed(e) == CASE e = "obo/claims" -> "/api/obo/claims"
                        [] e = "obo/graph-me" -> "/api/obo/graph-me"
                        [] e = "mcp-obo" -> "/mcp/s2s"
                        [] e = "s2s/claims" -> "/api/s2s/claims"
                        [] e = "mcp-s2s" -> "/mcp/obo"
Upstream(e) == CASE e = "obo/claims" -> "/api/obo/claims"
                 [] e = "obo/graph-me" -> "/api/obo/graph-me"
                 [] e = "mcp-obo" -> "/mcp/obo"
                 [] e = "s2s/claims" -> "/api/s2s/claims"
                 [] e = "mcp-s2s" -> "/mcp/s2s"

(* The endpoints that need a token in the caller's name.                   *)
OnBehalf == AsUser \union {"me", "mcs-token"}
Endpoints == OnBehalf \union AsApp \union {"auth/me", "acquire-s2s"}

ASSUME NoneAssumption ==
  /\ None # Bad
  /\ {None, Bad} \intersect Tokens = {}
  /\ None \notin Endpoints \union AppPaths \union UserPaths

-----------------------------------------------------------------------------
Answer(what, who, puid) == [what |-> what, who |-> who, puid |-> puid]
NoAnswer == Answer("none", None, None)

Init ==
  /\ live = {}
  /\ at = "idle"
  /\ endpoint = None
  /\ header = None
  /\ cookie = None
  /\ principal = <<>>
  /\ token = None
  /\ path = None
  /\ answer = NoAnswer

Reply(what, who, puid) ==
  /\ at' = "answered"
  /\ answer' = Answer(what, who, puid)
  /\ UNCHANGED <<live, endpoint, header, cookie, principal, token, path>>

(* A client calls the BFF with any of the credentials it may hold.         *)
Send(e, h, c) ==
  /\ at \in {"idle", "answered"}
  /\ at' = "arrived"
  /\ endpoint' = e
  /\ header' = h
  /\ cookie' = c
  /\ principal' = <<>>
  /\ token' = None
  /\ path' = None
  /\ answer' = NoAnswer
  /\ UNCHANGED live

(* Any holder of a token calls PartnerAPI without the BFF.                 *)
CallPartner(t, q) ==
  /\ at \in {"idle", "answered"}
  /\ at' = "partner"
  /\ endpoint' = None
  /\ header' = None
  /\ cookie' = None
  /\ principal' = <<>>
  /\ token' = t
  /\ path' = q
  /\ answer' = NoAnswer
  /\ UNCHANGED live

Admit ==
  /\ at = "arrived"
  /\ UserToken(Merged)
  /\ principal' = Merged
  /\ at' = "admitted"
  /\ UNCHANGED <<live, endpoint, header, cookie, token, path, answer>>

(* 401 or 403.                                                             *)
Refuse ==
  /\ at = "arrived"
  /\ ~UserToken(Merged)
  /\ Reply("refused", None, None)

(* GET /api/auth/me.                                                       *)
AuthMe ==
  /\ at = "admitted"
  /\ endpoint = "auth/me"
  /\ Reply("identity", FindFirst(principal, "oid"), FindFirst(principal, "puid"))

(* POST /api/helpers/acquire-s2s: a token for an app of the caller's       *)
(* choice, with the certificate the vault has for it; or a 400 or 500.     *)
AcquireS2S ==
  /\ at = "admitted"
  /\ endpoint = "acquire-s2s"
  /\ \/ \E a \in Apps : Reply("app token", a, None)
     \/ Reply("error", None, None)

Hold(t) ==
  /\ token' = t
  /\ at' = "token"
  /\ UNCHANGED <<live, endpoint, header, cookie, principal, path, answer>>

(* The BFF's own credentials.                                              *)
AcquireForApp ==
  /\ at = "admitted"
  /\ endpoint \in AsApp
  /\ \E t \in AppTokens(Bff) : Hold(t)

(* The session's access token is the assertion; Entra answers with a token *)
(* of the same user.                                                       *)
AcquireForSession ==
  /\ at = "admitted"
  /\ endpoint \in OnBehalf
  /\ IsSessionAuth(principal)
  /\ LET u == FindFirst(principal, "cmsp_session_id")
     IN  u \in live /\ \E t \in UserTokens(u) : Hold(t)

AcquireForBearerFirst ==
  /\ at = "admitted"
  /\ endpoint \in OnBehalf
  /\ Authentic(header) /\ HasClaim(<<header>>, "scp")
  /\ \E t \in UserTokens(header["oid"]) : Hold(t)

(* The inbound token is the assertion.                                     *)
AcquireForBearer ==
  /\ at = "admitted"
  /\ endpoint \in OnBehalf
  /\ ~IsSessionAuth(principal)
  /\ \E t \in UserTokens(header["oid"]) : Hold(t)

(* The session ended meanwhile, Entra refuses, consent is missing: 403 or  *)
(* 500.                                                                    *)
AcquireFail ==
  /\ at = "admitted"
  /\ endpoint \in OnBehalf \union AsApp
  /\ Reply("error", None, None)

(* GET /api/me asks Graph, /api/widget/mcs-token answers with the token.   *)
UseToken ==
  /\ at = "token"
  /\ endpoint \in {"me", "mcs-token"}
  /\ \/ Reply(endpoint, token["oid"], None)
     \/ endpoint = "me" /\ Reply("error", None, None)

Forward ==
  /\ at = "token"
  /\ endpoint \in AsUser \union AsApp
  /\ path' = Upstream(endpoint)
  /\ at' = "partner"
  /\ UNCHANGED <<live, endpoint, header, cookie, principal, token, answer>>

(* PartnerAPI answers with the claims of its caller, or with what Graph    *)
(* says of the user it stands for; the BFF copies the answer.              *)
PartnerAnswers ==
  /\ at = "partner"
  /\ Admits(path, token)
  /\ \/ Reply(Flavor(path), FindFirst(<<token>>, "oid"), None)
     \/ path = "/api/obo/graph-me" /\ Reply("error", None, None)

PartnerRefuses ==
  /\ at = "partner"
  /\ ~Admits(path, token)
  /\ Reply("refused", None, None)

(* What other requests do to the session store.                            *)
SessionOpens(u) ==
  /\ live' = live \union {u}
  /\ UNCHANGED <<at, endpoint, header, cookie, principal, token, path, answer>>

SessionEnds(u) ==
  /\ live' = live \ {u}
  /\ UNCHANGED <<at, endpoint, header, cookie, principal, token, path, answer>>

Serve ==
  \/ Admit
  \/ Refuse
  \/ AuthMe
  \/ AcquireS2S
  \/ AcquireForApp
  \/ AcquireForSession
  \/ AcquireForBearer
  \/ AcquireFail
  \/ UseToken
  \/ Forward
  \/ PartnerAnswers
  \/ PartnerRefuses

Next ==
  \/ \E e \in Endpoints, h \in Tokens \union {Bad, None},
        c \in Users \union {None} : Send(e, h, c)
  \/ \E t \in Tokens \union {Bad}, q \in AppPaths \union UserPaths : CallPartner(t, q)
  \/ Serve
  \/ \E u \in Users : SessionOpens(u) \/ SessionEnds(u)

Spec == Init /\ [][Next]_vars

-----------------------------------------------------------------------------
(* Types, and which fields a call has where.                               *)
TypeOK ==
  /\ live \in SUBSET Users
  /\ at \in {"idle", "arrived", "admitted", "token", "partner", "answered"}
  /\ endpoint \in Endpoints \union {None}
  /\ header \in Tokens \union {Bad, None}
  /\ cookie \in Users \union {None}
  /\ principal \in Seq(Identities)
  /\ token \in Tokens \union {Bad, None}
  /\ path \in AppPaths \union UserPaths \union {None}
  /\ at \in {"arrived", "admitted", "token"} => endpoint # None
  /\ at = "token" => token \in Tokens
  /\ at = "partner" => path # None /\ token # None

(* The BFF acts for the user it says the caller is: whatever mix of        *)
(* credentials came in, and whether or not the session lasts, the oid that *)
(* /api/auth/me reports is the oid of every token the BFF gets on behalf   *)
(* of that caller (ForwardAsync, MeController.Me, McsToken), and of the    *)
(* identity that PartnerAPI, Graph or the widget get to see.               *)
ActsForReportedUser ==
  endpoint \in OnBehalf =>
    /\ at \in {"token", "partner"} => token["oid"] = FindFirst(principal, "oid")
    /\ at = "answered" /\ answer.who # None
         => answer.who = FindFirst(principal, "oid")

(* BffAuthPolicies: "App-only callers (S2S) are rejected": what the BFF    *)
(* does after its policy it does for a person, also for the endpoints that *)
(* then go on with the BFF's own credentials.                              *)
OnlyPeopleAdmitted ==
  at \in {"admitted", "token"} => FindFirst(principal, "oid") \in Users

(* The label PartnerAPI puts on an answer tells what kind of caller it had,*)
(* whichever way the call came: obo for a person, s2s for an app.          *)
FlavorTellsKind ==
  at = "answered" /\ path # None /\ answer.who # None =>
    /\ answer.what \in {"partner-s2s", "mcp-s2s"} => answer.who \in Apps
    /\ answer.what \in {"partner-obo", "mcp-obo", "graph"} => answer.who \in Users

(* The policies of the two services agree: a call the BFF admitted is not  *)
(* refused one hop later, unless the BFF's own app token came without the  *)
(* CMSPDemo.S2S role.                                                      *)
AdmittedThroughout ==
  at = "partner" /\ endpoint # None /\ Authentic(token) => Admits(path, token)
=============================================================================
