--------------------------- MODULE CookieContract ---------------------------
(***************************************************************************)
(* What a page may rely on about the BFF's session cookie, without the     *)
(* BFF's handlers and stores and without the page: a browser that signs in *)
(* gets an id nobody holds; an answer names whom the session belonged to   *)
(* when it was served; and an answer that clears the cookie comes after    *)
(* the end of the session its request carried.                             *)
(***************************************************************************)
CONSTANTS Users,      \* whom a session may belong to
          Ids,        \* session ids
          Browsers,
          Messages,   \* places of requests under way
          None

VARIABLES owner,      \* whom each session belongs to, None if there is none
          jar,        \* the session id in each browser's cookie jar
          post        \* the requests under way, with whom the answer names

cookieVars == <<owner, jar, post>>

NoPost == [by |-> None, id |-> None, names |-> None]

KInit ==
  /\ owner = [i \in Ids |-> None]
  /\ jar = [b \in Browsers |-> None]
  /\ post = [m \in Messages |-> NoPost]

OwnerOf(i) == IF i = None THEN None ELSE owner[i]

Held(i) == (\E b \in Browsers : jar[b] = i) \/ (\E m \in Messages : post[m].id = i)

Live == {i \in Ids : owner[i] # None}
UnderWay == {m \in Messages : post[m] # NoPost}

WithoutSessions(S) == [i \in Ids |-> IF i \in S THEN None ELSE owner[i]]
WithoutPosts(M) == [m \in Messages |-> IF m \in M THEN NoPost ELSE post[m]]

(* Answers arrive and change nothing here, or are lost.                    *)
Lost == \E M \in SUBSET UnderWay : post' = WithoutPosts(M)

(* A browser sends requests, each with the cookie it has.                  *)
Ask(b) ==
  /\ UNCHANGED <<owner, jar>>
  /\ \E M \in SUBSET (Messages \ UnderWay) :
       post' = [m \in Messages |->
                  IF m \in M THEN [by |-> b, id |-> jar[b], names |-> None]
                  ELSE post[m]]

(* A request is served: its answer names the owner of the session.         *)
Name(m) ==
  /\ post[m].names = None
  /\ post' = [post EXCEPT ![m].names = OwnerOf(post[m].id)]
  /\ UNCHANGED <<owner, jar>>

(* Sessions end.                                                           *)
End(S) ==
  /\ UNCHANGED jar
  /\ owner' = WithoutSessions(S)
  /\ Lost

(* A sign-out is answered.                                                 *)
Clear(m) ==
  /\ OwnerOf(post[m].id) = None
  /\ jar' = [jar EXCEPT ![post[m].by] = None]
  /\ post' = WithoutPosts({m})
  /\ UNCHANGED owner

(* A session begins; its cookie reaches the browser (which leaves its page *)
(* for it) or is lost.  The session may be over by then.                   *)
SignIn(b, i, u) ==
  /\ ~Held(i)
  /\ owner' = [owner EXCEPT ![i] = u]
  /\ jar' \in {[jar EXCEPT ![b] = i], jar}
  /\ Lost

(* Cookies reach their age.                                                *)
Expire(B) ==
  /\ jar' = [b \in Browsers |-> IF b \in B THEN None ELSE jar[b]]
  /\ UNCHANGED <<owner, post>>

KNext ==
  \/ \E b \in Browsers : Ask(b)
  \/ \E m \in UnderWay : Name(m) \/ Clear(m)
  \/ \E S \in SUBSET Live : End(S)
  \/ \E b \in Browsers, i \in Ids \ Live, u \in Users \union {None} :
       SignIn(b, i, u)
  \/ \E B \in SUBSET Browsers : Expire(B)

KSpec == KInit /\ [][KNext]_cookieVars
=============================================================================
