--------------------------- MODULE CallChain_proofs ---------------------------
(***************************************************************************)
(* For any number of users and apps, whatever claims their tokens carry:   *)
(* the BFF acts for the user it reports, only people pass its policy, and  *)
(* the policies of both services and the labels of the answers agree.      *)
(***************************************************************************)
EXTENDS CallChain, TLAPS

(* What FindFirst answers when the first identity has the claim.           *)
LEMMA FindFirstHead ==
  ASSUME NEW p, NEW S, p \in Seq(S), p # <<>>, NEW type, type \in DOMAIN p[1]
  PROVE  HasClaim(p, type) /\ FindFirst(p, type) = p[1][type]
<1> DEFINE C == Carriers(p, type)
           first(i) == \A j \in C : i <= j
<1>1. 1 \in C /\ C \subseteq 1 .. Len(p) /\ Len(p) \in Nat
  BY DEF Carriers
<1>2. 1 \in C /\ first(1)
  BY <1>1
<1>3. (CHOOSE i \in C : first(i)) \in C /\ first(CHOOSE i \in C : first(i))
  BY <1>2
<1>4. (CHOOSE i \in C : first(i)) = 1
  BY <1>1, <1>3
<1>. QED
  BY <1>2, <1>4 DEF FindFirst, HasClaim

(* The same for a principal of one identity, with or without the claim.    *)
LEMMA FindFirstOnly ==
  ASSUME NEW t, NEW type
  PROVE  /\ HasClaim(<<t>>, type) <=> type \in DOMAIN t
         /\ type \in DOMAIN t => FindFirst(<<t>>, type) = t[type]
         /\ type \notin DOMAIN t => FindFirst(<<t>>, type) = None
<1>1. Carriers(<<t>>, type) = IF type \in DOMAIN t THEN {1} ELSE {}
  BY DEF Carriers
<1>2. type \in DOMAIN t => FindFirst(<<t>>, type) = t[type]
  <2> SUFFICES ASSUME type \in DOMAIN t PROVE FindFirst(<<t>>, type) = t[type]
    OBVIOUS
  <2>1. <<t>> \in Seq({t}) /\ <<t>> # <<>> /\ <<t>>[1] = t
    OBVIOUS
  <2>. QED
    BY <2>1, FindFirstHead
<1>. QED
  BY <1>1, <1>2 DEF HasClaim, FindFirst

(* The claims of a user's token.                                           *)
LEMMA UserTokenClaims ==
  ASSUME NEW u \in Users, NEW t \in UserTokens(u)
  PROVE  /\ t \in Tokens /\ t \in Identities
         /\ "oid" \in DOMAIN t /\ t["oid"] = u
         /\ "scp" \in DOMAIN t
         /\ "idtyp" \notin DOMAIN t /\ "authmode" \notin DOMAIN t
<1>1. PICK C \in SUBSET {"roles"} :
        t = Claims(u, {"oid", "scp"} \union Puid(u) \union C)
  BY DEF UserTokens
<1>2. {"oid", "scp"} \union Puid(u) \union C \in SUBSET ClaimTypes
  BY DEF Puid, ClaimTypes
<1>3. t \in Identities
  BY <1>1, <1>2 DEF Identities
<1>4. DOMAIN t = {"oid", "scp"} \union Puid(u) \union C
  BY <1>1 DEF Claims
<1>5. t["oid"] = u
  BY <1>1 DEF Claims
<1>6. t \in Tokens
  BY DEF Tokens
<1>. QED
  BY <1>3, <1>4, <1>5, <1>6 DEF Puid

(* The claims of an app's token.                                           *)
LEMMA AppTokenClaims ==
  ASSUME NEW a \in Apps, NEW t \in AppTokens(a)
  PROVE  /\ t \in Tokens /\ t \in Identities
         /\ "oid" \in DOMAIN t /\ t["oid"] = a
         /\ "scp" \notin DOMAIN t /\ "authmode" \notin DOMAIN t
         /\ "idtyp" \in DOMAIN t => t["idtyp"] = "app"
<1>1. PICK C \in SUBSET {"roles", "idtyp"} : t = Claims(a, {"oid"} \union C)
  BY DEF AppTokens
<1>2. {"oid"} \union C \in SUBSET ClaimTypes
  BY DEF ClaimTypes
<1>3. t \in Identities
  BY <1>1, <1>2 DEF Identities
<1>4. DOMAIN t = {"oid"} \union C
  BY <1>1 DEF Claims
<1>5. t["oid"] = a /\ ("idtyp" \in DOMAIN t => t["idtyp"] = "app")
  BY <1>1, <1>4 DEF Claims
<1>6. t \in Tokens
  BY DEF Tokens
<1>. QED
  BY <1>3, <1>4, <1>5, <1>6

(* The claims a session authenticates with.                                *)
LEMMA SessionClaims ==
  ASSUME NEW u \in Users
  PROVE  /\ SessionIdentity(u) \in Identities
         /\ \A c \in {"oid", "scp", "authmode", "cmsp_session_id"} :
              c \in DOMAIN SessionIdentity(u)
         /\ SessionIdentity(u)["oid"] = u
         /\ SessionIdentity(u)["cmsp_session_id"] = u
         /\ SessionIdentity(u)["authmode"] = "session"
<1> DEFINE C == {"oid", "scp", "authmode", "cmsp_session_id"} \union Puid(u)
<1>1. C \in SUBSET ClaimTypes
  BY DEF Puid, ClaimTypes
<1>2. SessionIdentity(u) \in Identities
  BY <1>1 DEF SessionIdentity, Identities
<1>3. DOMAIN SessionIdentity(u) = C
  BY DEF SessionIdentity, Claims
<1>4. /\ SessionIdentity(u)["oid"] = u
      /\ SessionIdentity(u)["cmsp_session_id"] = u
      /\ SessionIdentity(u)["authmode"] = "session"
  BY DEF SessionIdentity, Claims
<1>. QED
  BY <1>2, <1>3, <1>4

-----------------------------------------------------------------------------
(***************************************************************************)
(* Whom an admitted principal stands for: the user of the bearer token     *)
(* when that is its only identity, else the user of the session, whose     *)
(* identity comes first.                                                   *)
(***************************************************************************)
OfBearer(p, u) == header \in UserTokens(u) /\ p = <<header>>

OfSession(p, u) ==
  \/ p = <<SessionIdentity(u)>>
  \/ header \in Tokens /\ p = <<SessionIdentity(u), header>>

Caller(p, u) == OfBearer(p, u) \/ OfSession(p, u)

(* Sequences of one and two elements.                                      *)
LEMMA SmallSequences ==
  ASSUME NEW S, NEW a \in S, NEW b \in S
  PROVE  /\ <<a>> \o <<>> = <<a>> /\ <<a>> \o <<b>> = <<a, b>>
         /\ <<a>> \in Seq(S) /\ <<a, b>> \in Seq(S)
         /\ <<a>> # <<>> /\ <<a, b>> # <<>>
         /\ <<a>>[1] = a /\ <<a, b>>[1] = a
<1>1. <<a>> \in Seq(S) /\ <<a, b>> \in Seq(S)
  OBVIOUS
<1>2. <<a>> # <<>> /\ <<a, b>> # <<>>
  OBVIOUS
<1>3. <<a>>[1] = a /\ <<a, b>>[1] = a
  OBVIOUS
<1>4. <<a>> \o <<>> = <<a>>
  OBVIOUS
<1>5. <<a>> \o <<b>> = <<a, b>>
  <2> DEFINE s == <<a>> \o <<b>>
             t == <<a, b>>
  <2>1. s \in Seq(S) /\ t \in Seq(S) /\ Len(s) = 2 /\ Len(t) = 2
    OBVIOUS
  <2>2. s[1] = a /\ s[2] = b /\ t[1] = a /\ t[2] = b
    OBVIOUS
  <2>3. \A i \in 1 .. 2 : s[i] = t[i]
    BY <2>2
  <2>. HIDE DEF s, t
  <2>4. s = t
    BY <2>1, <2>3
  <2>. QED
    BY <2>4 DEF s, t
<1>. QED
  BY <1>1, <1>2, <1>3, <1>4, <1>5

(* The claims of a bearer token make an identity.                          *)
LEMMA TokensAreIdentities == Tokens \subseteq Identities
BY UserTokenClaims, AppTokenClaims DEF Tokens

(* All that is asked of a principal is answered for one user.              *)
LEMMA CallerClaims ==
  ASSUME NEW p, NEW u \in Users, Caller(p, u)
  PROVE  /\ p \in Seq(Identities)
         /\ FindFirst(p, "oid") = u
         /\ IsSessionAuth(p) => FindFirst(p, "cmsp_session_id") = u
         /\ ~IsSessionAuth(p) => header \in UserTokens(u) /\ header["oid"] = u
<1>1. CASE OfBearer(p, u)
  <2>1. /\ header \in Identities
        /\ "oid" \in DOMAIN header /\ header["oid"] = u
        /\ "authmode" \notin DOMAIN header
    BY <1>1, UserTokenClaims DEF OfBearer
  <2>2. FindFirst(p, "oid") = u /\ FindFirst(p, "authmode") = None
    BY <1>1, <2>1, FindFirstOnly DEF OfBearer
  <2>3. ~IsSessionAuth(p)
    BY <2>2, ChainAssumption DEF IsSessionAuth
  <2>. QED
    BY <1>1, <2>1, <2>2, <2>3 DEF OfBearer
<1>2. CASE OfSession(p, u)
  <2>1. p \in Seq(Identities) /\ p # <<>> /\ p[1] = SessionIdentity(u)
    <3>1. CASE p = <<SessionIdentity(u)>>
      BY <3>1, SessionClaims, SmallSequences
    <3>2. CASE header \in Tokens /\ p = <<SessionIdentity(u), header>>
      <4>1. header \in Identities /\ SessionIdentity(u) \in Identities
        BY <3>2, SessionClaims, TokensAreIdentities
      <4>. QED
        BY <3>2, <4>1, SmallSequences
    <3>. QED
      BY <1>2, <3>1, <3>2 DEF OfSession
  <2>2. \A c \in {"oid", "authmode", "cmsp_session_id"} :
          FindFirst(p, c) = SessionIdentity(u)[c]
    BY <2>1, SessionClaims, FindFirstHead
  <2>. QED
    BY <2>1, <2>2, SessionClaims DEF IsSessionAuth
<1>. QED
  BY <1>1, <1>2 DEF Caller

(* The policy UserToken admits nothing but principals that stand for a     *)
(* user: an app's token has no scope, so with one there is a session too.  *)
LEMMA AdmittedIsCaller ==
  ASSUME TypeOK, UserToken(Merged)
  PROVE  \E u \in Users : Caller(Merged, u)
<1>1. Merged = SessionResult \o BearerResult
  BY DEF Merged, Merge, SessionResult, BearerResult
<1>2. CASE cookie \in live
  <2>1. cookie \in Users /\ SessionResult = <<SessionIdentity(cookie)>>
    BY <1>2 DEF TypeOK, SessionResult
  <2>2. BearerResult = <<>> \/ (header \in Tokens /\ BearerResult = <<header>>)
    BY DEF BearerResult, Authentic, TypeOK
  <2>3. Merged = <<SessionIdentity(cookie)>>
        \/ (header \in Tokens /\ Merged = <<SessionIdentity(cookie), header>>)
    BY <1>1, <2>1, <2>2, SmallSequences, SessionClaims, TokensAreIdentities
  <2>. QED
    BY <2>1, <2>3 DEF Caller, OfSession
<1>3. CASE cookie \notin live
  <2>1. Merged = BearerResult
    BY <1>1, <1>3 DEF SessionResult, BearerResult
  <2>2. header \in Tokens /\ Merged = <<header>>
    BY <2>1 DEF UserToken, BearerResult, Authentic, TypeOK
  <2>3. "scp" \in DOMAIN header
    BY <2>2, FindFirstOnly DEF UserToken
  <2>4. PICK u \in Users : header \in UserTokens(u)
    BY <2>2, <2>3, AppTokenClaims DEF Tokens
  <2>. QED
    BY <2>2, <2>4 DEF Caller, OfBearer
<1>. QED
  BY <1>2, <1>3

(* Who passes PartnerAPI's policies.                                       *)
LEMMA PartnerPolicies ==
  ASSUME NEW t \in Tokens
  PROVE  /\ S2SOnly(<<t>>) => \E a \in Apps : t \in AppTokens(a)
         /\ OboOnly(<<t>>) => \E u \in Users : t \in UserTokens(u)
         /\ \A u \in Users : t \in UserTokens(u) => OboOnly(<<t>>)
         /\ \A a \in Apps : t \in AppTokens(a) /\ Authentic(t) => S2SOnly(<<t>>)
<1>1. ASSUME NEW u \in Users, t \in UserTokens(u)
      PROVE  OboOnly(<<t>>) /\ ~S2SOnly(<<t>>)
  <2>1. "scp" \in DOMAIN t /\ "idtyp" \notin DOMAIN t
    BY <1>1, UserTokenClaims
  <2>2. HasClaim(<<t>>, "scp") /\ FindFirst(<<t>>, "idtyp") = None
    BY <2>1, FindFirstOnly
  <2>. QED
    BY <2>2, ChainAssumption DEF OboOnly, S2SOnly, IsApp
<1>2. ASSUME NEW a \in Apps, t \in AppTokens(a)
      PROVE  ~OboOnly(<<t>>) /\ (Authentic(t) => S2SOnly(<<t>>))
  <2>1. ~HasClaim(<<t>>, "scp")
    BY <1>2, AppTokenClaims, FindFirstOnly
  <2>. QED
    BY <2>1 DEF OboOnly, S2SOnly, Authentic
<1>. QED
  BY <1>1, <1>2 DEF Tokens

-----------------------------------------------------------------------------
(***************************************************************************)
(* The inductive invariant.                                                *)
(***************************************************************************)
(* Past the BFF's policy the principal stands for a user.                  *)
CallerKnown ==
  at \in {"admitted", "token"} \/ (at = "partner" /\ endpoint # None)
    => \E u \in Users : Caller(principal, u)

(* The BFF holds the token its endpoint asks for: one of the caller, or    *)
(* one of its own.                                                         *)
TokenKind ==
  at = "token" \/ (at = "partner" /\ endpoint # None) =>
    /\ endpoint \in OnBehalf \union AsApp
    /\ endpoint \in OnBehalf =>
         \E u \in Users : Caller(principal, u) /\ token \in UserTokens(u)
    /\ endpoint \in AsApp => token \in AppTokens(Bff)

(* The call is on its way to the path the endpoint stands for.             *)
PathKind ==
  /\ at \in {"arrived", "admitted", "token"} => path = None
  /\ at = "partner" /\ endpoint # None =>
       endpoint \in AsUser \union AsApp /\ path = Upstream(endpoint)

IInv ==
  /\ TypeOK
  /\ CallerKnown
  /\ TokenKind
  /\ PathKind
  /\ FlavorTellsKind
  /\ ActsForReportedUser

USE DEF Endpoints, OnBehalf, AsUser, AsApp

(* A service that has served no call yet satisfies the invariant.          *)
LEMMA InitInvariant == Init => IInv
<1> SUFFICES ASSUME Init PROVE IInv
  OBVIOUS
<1>1. TypeOK
  BY DEF Init, TypeOK
<1>. QED
  BY <1>1, NoneAssumption
     DEF Init, IInv, CallerKnown, TokenKind, PathKind, FlavorTellsKind,
         ActsForReportedUser

(* The condition under which an answer keeps the invariant.                *)
LEMMA ReplyKeeps ==
  ASSUME IInv, NEW what, NEW who, NEW puid, Reply(what, who, puid),
         endpoint \in OnBehalf /\ who # None => who = FindFirst(principal, "oid"),
         path # None /\ who # None =>
           /\ what \in {"partner-s2s", "mcp-s2s"} => who \in Apps
           /\ what \in {"partner-obo", "mcp-obo", "graph"} => who \in Users
  PROVE  IInv'
<1>1. TypeOK'
  BY DEF IInv, TypeOK, Reply
<1>2. answer'.what = what /\ answer'.who = who
  BY DEF Reply, Answer
<1>3. FlavorTellsKind' /\ ActsForReportedUser'
  BY <1>2 DEF FlavorTellsKind, ActsForReportedUser, Reply
<1>. QED
  BY <1>1, <1>3 DEF IInv, CallerKnown, TokenKind, PathKind, Reply

(* The condition under which a token keeps it.                             *)
LEMMA HoldKeeps ==
  ASSUME IInv, at = "admitted", NEW t \in Tokens, Hold(t),
         endpoint \in OnBehalf \union AsApp,
         endpoint \in OnBehalf =>
           \E u \in Users : Caller(principal, u) /\ t \in UserTokens(u),
         endpoint \in AsApp => t \in AppTokens(Bff)
  PROVE  IInv'
<1>1. TypeOK'
  BY DEF IInv, TypeOK, Hold
<1>2. CallerKnown' /\ TokenKind' /\ PathKind'
  BY DEF IInv, CallerKnown, TokenKind, PathKind, Hold, Caller, OfBearer, OfSession
<1>3. FlavorTellsKind'
  BY DEF FlavorTellsKind, Hold
<1>4. ActsForReportedUser'
  <2>1. ASSUME NEW u \in Users, Caller(principal, u), t \in UserTokens(u)
        PROVE  t["oid"] = FindFirst(principal, "oid")
    BY <2>1, UserTokenClaims, CallerClaims
  <2>. QED
    BY <2>1 DEF ActsForReportedUser, Hold
<1>. QED
  BY <1>1, <1>2, <1>3, <1>4 DEF IInv

-----------------------------------------------------------------------------
(* Each step of a call, and each change of the live sessions, keeps it.    *)
LEMMA StepInvariant == IInv /\ [Next]_vars => IInv'
<1> SUFFICES ASSUME IInv, [Next]_vars PROVE IInv'
  OBVIOUS
<1> USE DEF IInv
<1>1. ASSUME NEW e \in Endpoints, NEW h \in Tokens \union {Bad, None},
             NEW c \in Users \union {None}, Send(e, h, c)
      PROVE  IInv'
  <2>1. TypeOK'
    <3>1. <<>> \in Seq(Identities) /\ e # None
      BY NoneAssumption
    <3>. QED
      BY <1>1, <3>1 DEF Send, TypeOK
  <2>. QED
    BY <1>1, <2>1 DEF Send, CallerKnown, TokenKind, PathKind, FlavorTellsKind,
                      ActsForReportedUser
<1>2. ASSUME NEW t \in Tokens \union {Bad}, NEW q \in AppPaths \union UserPaths,
             CallPartner(t, q)
      PROVE  IInv'
  <2>1. TypeOK'
    <3>1. <<>> \in Seq(Identities) /\ q # None
      BY NoneAssumption
    <3>2. t # None
      BY NoneAssumption
    <3>. QED
      BY <1>2, <3>1, <3>2 DEF CallPartner, TypeOK
  <2>. QED
    BY <1>2, <2>1, NoneAssumption
       DEF CallPartner, CallerKnown, TokenKind, PathKind, FlavorTellsKind,
           ActsForReportedUser
<1>3. CASE Admit
  <2>1. PICK u \in Users : Caller(Merged, u)
    BY <1>3, AdmittedIsCaller DEF Admit
  <2>2. Merged \in Seq(Identities)
    BY <2>1, CallerClaims
  <2>3. TypeOK'
    BY <1>3, <2>2 DEF Admit, TypeOK
  <2>4. CallerKnown'
    BY <1>3, <2>1 DEF Admit, CallerKnown, Caller, OfBearer, OfSession
  <2>. QED
    BY <1>3, <2>3, <2>4 DEF Admit, TokenKind, PathKind, FlavorTellsKind,
                            ActsForReportedUser
<1>4. CASE Refuse
  BY <1>4, ReplyKeeps DEF Refuse
<1>5. CASE AuthMe
  BY <1>5, ReplyKeeps DEF AuthMe, PathKind
<1>6. CASE AcquireS2S
  <2>1. path = None /\ endpoint \notin OnBehalf
    BY <1>6 DEF AcquireS2S, PathKind
  <2>2. CASE \E a \in Apps : Reply("app token", a, None)
    BY <2>1, <2>2, ReplyKeeps
  <2>3. CASE Reply("error", None, None)
    BY <2>3, ReplyKeeps
  <2>. QED
    BY <1>6, <2>2, <2>3 DEF AcquireS2S
<1>7. CASE AcquireForApp
  <2>1. PICK t \in AppTokens(Bff) : Hold(t)
    BY <1>7 DEF AcquireForApp
  <2>2. t \in Tokens
    BY ChainAssumption, AppTokenClaims
  <2>. QED
    BY <1>7, <2>1, <2>2, HoldKeeps DEF AcquireForApp
<1>8. CASE AcquireForSession
  <2>1. PICK u \in Users : Caller(principal, u)
    BY <1>8 DEF AcquireForSession, CallerKnown
  <2>2. FindFirst(principal, "cmsp_session_id") = u
    BY <1>8, <2>1, CallerClaims DEF AcquireForSession
  <2>3. PICK t \in UserTokens(u) : Hold(t)
    BY <1>8, <2>2 DEF AcquireForSession
  <2>4. t \in Tokens
    BY UserTokenClaims
  <2>. QED
    BY <1>8, <2>1, <2>3, <2>4, HoldKeeps DEF AcquireForSession
<1>9. CASE AcquireForBearer
  <2>1. PICK u \in Users : Caller(principal, u)
    BY <1>9 DEF AcquireForBearer, CallerKnown
  <2>2. header["oid"] = u
    BY <1>9, <2>1, CallerClaims DEF AcquireForBearer
  <2>3. PICK t \in UserTokens(u) : Hold(t)
    BY <1>9, <2>2 DEF AcquireForBearer
  <2>4. t \in Tokens
    BY UserTokenClaims
  <2>. QED
    BY <1>9, <2>1, <2>3, <2>4, HoldKeeps DEF AcquireForBearer
<1>10. CASE AcquireFail
  BY <1>10, ReplyKeeps DEF AcquireFail
<1>11. CASE UseToken
  <2>1. path = None /\ token["oid"] = FindFirst(principal, "oid")
    BY <1>11 DEF UseToken, PathKind, ActsForReportedUser
  <2>2. CASE Reply(endpoint, token["oid"], None)
    BY <2>1, <2>2, ReplyKeeps
  <2>3. CASE Reply("error", None, None)
    BY <2>3, ReplyKeeps
  <2>. QED
    BY <1>11, <2>2, <2>3 DEF UseToken
<1>12. CASE Forward
  <2>1. Upstream(endpoint) \in AppPaths \union UserPaths /\ Upstream(endpoint) # None
    BY <1>12, NoneAssumption DEF Forward, Upstream, AppPaths, UserPaths
  <2>2. TypeOK'
    BY <1>12, <2>1, NoneAssumption DEF Forward, TypeOK
  <2>3. CallerKnown' /\ TokenKind' /\ PathKind'
    BY <1>12 DEF Forward, CallerKnown, TokenKind, PathKind, Caller, OfBearer,
                 OfSession
  <2>. QED
    BY <1>12, <2>2, <2>3 DEF Forward, FlavorTellsKind, ActsForReportedUser
<1>13. CASE PartnerAnswers
  <2>1. token \in Tokens /\ path \in AppPaths \union UserPaths
    BY <1>13 DEF PartnerAnswers, Admits, Authentic, TypeOK
  <2>2. path \in AppPaths => token["oid"] \in Apps /\ "oid" \in DOMAIN token
    BY <1>13, <2>1, PartnerPolicies, AppTokenClaims DEF PartnerAnswers, Admits
  <2>3. path \in UserPaths => token["oid"] \in Users /\ "oid" \in DOMAIN token
    BY <1>13, <2>1, PartnerPolicies, UserTokenClaims DEF PartnerAnswers, Admits
  <2>4. FindFirst(<<token>>, "oid") = token["oid"]
    BY <2>1, <2>2, <2>3, FindFirstOnly
  <2>5. /\ Flavor(path) \in {"partner-s2s", "mcp-s2s"} => path \in AppPaths
        /\ Flavor(path) \in {"partner-obo", "mcp-obo", "graph"} => path \in UserPaths
    BY <2>1 DEF Flavor, AppPaths, UserPaths
  <2>6. CASE Reply(Flavor(path), FindFirst(<<token>>, "oid"), None)
    <3>1. endpoint \in OnBehalf => token["oid"] = FindFirst(principal, "oid")
      BY <1>13 DEF PartnerAnswers, ActsForReportedUser
    <3>. QED
      BY <2>2, <2>3, <2>4, <2>5, <2>6, <3>1, ReplyKeeps
  <2>7. CASE Reply("error", None, None)
    BY <2>7, ReplyKeeps
  <2>. QED
    BY <1>13, <2>6, <2>7 DEF PartnerAnswers
<1>14. CASE PartnerRefuses
  BY <1>14, ReplyKeeps DEF PartnerRefuses
<1>15. ASSUME NEW u \in Users, SessionOpens(u) \/ SessionEnds(u)
       PROVE  IInv'
  <2>1. TypeOK'
    BY <1>15 DEF SessionOpens, SessionEnds, TypeOK
  <2>. QED
    BY <1>15, <2>1
       DEF SessionOpens, SessionEnds, CallerKnown, TokenKind, PathKind,
           FlavorTellsKind, ActsForReportedUser, Caller, OfBearer, OfSession
<1>16. CASE UNCHANGED vars
  <2>1. TypeOK'
    BY <1>16 DEF vars, TypeOK
  <2>. QED
    BY <1>16, <2>1
       DEF vars, CallerKnown, TokenKind, PathKind, FlavorTellsKind,
           ActsForReportedUser, Caller, OfBearer, OfSession
<1>. QED
  BY <1>1, <1>2, <1>3, <1>4, <1>5, <1>6, <1>7, <1>8, <1>9, <1>10, <1>11, <1>12,
     <1>13, <1>14, <1>15, <1>16 DEF Next, Serve

-----------------------------------------------------------------------------
(* IInv is inductive: it holds of every call, at every step of the chain.  *)
THEOREM Invariance == Spec => []IInv
BY InitInvariant, StepInvariant, PTL DEF Spec

(* The fields of a call have their types in every reachable state.         *)
THEOREM TypeCorrect == Spec => []TypeOK
BY Invariance, PTL DEF IInv

(* The BFF gets tokens, and answers, only in the name of the user it       *)
(* reports as the caller, whatever credentials the call carried.           *)
THEOREM OneIdentity == Spec => []ActsForReportedUser
BY Invariance, PTL DEF IInv

(* The labels of PartnerAPI's answers tell a person from an app.           *)
THEOREM LabelsTell == Spec => []FlavorTellsKind
BY Invariance, PTL DEF IInv

(* Nobody but a person gets past the policy of the BFF.                    *)
THEOREM AppsStayOut == Spec => []OnlyPeopleAdmitted
<1>1. IInv => OnlyPeopleAdmitted
  BY CallerClaims DEF IInv, CallerKnown, OnlyPeopleAdmitted
<1>. QED
  BY <1>1, Invariance, PTL

(* PartnerAPI admits what the BFF admitted, unless the BFF's own token has *)
(* no role.                                                                *)
THEOREM PoliciesAgree == Spec => []AdmittedThroughout
<1>1. IInv => AdmittedThroughout
  <2> SUFFICES ASSUME IInv, at = "partner", endpoint # None, Authentic(token)
               PROVE  Admits(path, token)
    BY DEF AdmittedThroughout
  <2>1. token \in Tokens /\ path = Upstream(endpoint)
    BY DEF IInv, TypeOK, Authentic, PathKind
  <2>2. CASE endpoint \in AsUser
    <3>1. path \in UserPaths /\ path \notin AppPaths
      BY <2>1, <2>2 DEF Upstream, UserPaths, AppPaths
    <3>2. OboOnly(<<token>>)
      BY <2>1, <2>2, PartnerPolicies DEF IInv, TokenKind
    <3>. QED
      BY <3>1, <3>2 DEF Admits
  <2>3. CASE endpoint \in AsApp
    <3>1. path \in AppPaths /\ path \notin UserPaths
      BY <2>1, <2>3 DEF Upstream, UserPaths, AppPaths
    <3>2. S2SOnly(<<token>>)
      BY <2>1, <2>3, PartnerPolicies, ChainAssumption DEF IInv, TokenKind
    <3>. QED
      BY <3>1, <3>2 DEF Admits
  <2>. QED
    BY <2>2, <2>3 DEF IInv, PathKind
<1>. QED
  BY <1>1, Invariance, PTL
=============================================================================
