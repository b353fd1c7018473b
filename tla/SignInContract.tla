--------------------------- MODULE SignInContract ---------------------------
(***************************************************************************)
(* What the BFF promises of the sign-ins it sends to Entra (IPendingSignIn-*)
(* Store and its one-time use by AuthController), without sweeps, threads  *)
(* or requests: a sign-in stays open until it is continued, once, within   *)
(* its time to live; it is forgotten only when older than that, or by a    *)
(* crash; and it ends in a session at most once.                           *)
(***************************************************************************)
EXTENDS Integers

CONSTANTS States,   \* values of the OIDC state, one per sign-in
          Ttl       \* how long a sign-in may take

VARIABLES clock,    \* the time
          since,    \* when each sign-in began
          fate      \* what has become of it: "new", "open", "taken" by its
                    \* callback, "done" (a session) or "over"

signInVars == <<clock, since, fate>>

SInit ==
  /\ clock = 0
  /\ since = [p \in States |-> 0]
  /\ fate = [p \in States |-> "new"]

Stale(p) == clock - since[p] > Ttl

(* Sign-ins that may be forgotten, and the fates without some.             *)
Old == {p \in States : fate[p] = "open" /\ Stale(p)}
Without(S) == [p \in States |-> IF p \in S THEN "over" ELSE fate[p]]

(* Sign-ins that grew old are forgotten now and then, on any occasion.     *)
Forget ==
  /\ UNCHANGED <<clock, since>>
  /\ \E S \in SUBSET Old : fate' = Without(S)

(* A sign-in that began some time ago is remembered.                       *)
Remember(p) ==
  /\ UNCHANGED clock
  /\ fate[p] = "new"
  /\ \E t \in 0 .. clock : since' = [since EXCEPT ![p] = t]
  /\ \E S \in SUBSET Old : fate' = [Without(S) EXCEPT ![p] = "open"]

(* The callback of an open sign-in continues it, in time.                  *)
Continue(p) ==
  /\ UNCHANGED <<clock, since>>
  /\ fate[p] = "open" /\ ~Stale(p)
  /\ \E S \in SUBSET Old : fate' = [Without(S) EXCEPT ![p] = "taken"]

(* The code is redeemed, or is not.                                        *)
Finish(p) ==
  /\ UNCHANGED <<clock, since>>
  /\ fate[p] = "taken"
  /\ \E end \in {"done", "over"} : fate' = [fate EXCEPT ![p] = end]

(* A crash loses every sign-in under way, and no other.                    *)
Crash ==
  /\ UNCHANGED <<clock, since>>
  /\ fate' = [p \in States |->
                IF fate[p] \in {"open", "taken"} THEN "over" ELSE fate[p]]

Wait == clock' > clock /\ UNCHANGED <<since, fate>>

SNext ==
  \/ Forget
  \/ \E p \in States : Remember(p) \/ Continue(p) \/ Finish(p)
  \/ Crash
  \/ Wait

SSpec == SInit /\ [][SNext]_signInVars
=============================================================================
