-------------------------- MODULE PendingSignInStore --------------------------
(***************************************************************************)
(* InMemoryPendingSignInStore (src/API/Auth/PendingSignInStore.cs), one    *)
(* statement at a time: the sign-ins that were sent to Entra and have not  *)
(* come back.  The store is a singleton; Add and PopByState both sweep     *)
(* first and act afterwards, and threads interleave between the steps.     *)
(***************************************************************************)
EXTENDS Integers

CONSTANTS States,    \* values of the OIDC state parameter, each drawn once
          Threads,   \* request threads inside the store
          None,      \* no state
          Ttl,       \* _ttl, 10 min
          MaxClock   \* bound on the clock

ASSUME PendingAssumption ==
  /\ None \notin States
  /\ Ttl \in Nat
  /\ MaxClock \in Nat

VARIABLES clock,      \* UtcNow
          pending,    \* the keys of _pending
          createdAt,  \* CreatedAt of each PendingSignIn
          pc,         \* the statement each thread is about to run
          job,        \* the method the thread is in: "add", "pop" or "none"
          arg,        \* its argument
          cutoff,     \* local of Cleanup
          todo,       \* states the foreach of Cleanup has not passed yet
          victim,     \* the entry Cleanup is about to remove
          drawn,      \* history: states SignIn drew
          added,      \* history: states whose Add completed
          handed      \* history: how often PopByState returned each state

vars == <<clock, pending, createdAt, pc, job, arg, cutoff, todo, victim,
          drawn, added, handed>>
locals  == <<job, arg, cutoff, todo, victim>>
history == <<drawn, added, handed>>

PCs == {"idle", "clean", "sweep", "drop", "insert", "take", "judge"}

Init ==
  /\ clock = 0
  /\ pending = {}
  /\ createdAt = [s \in States |-> 0]
  /\ pc = [t \in Threads |-> "idle"]
  /\ job = [t \in Threads |-> "none"]
  /\ arg = [t \in Threads |-> None]
  /\ cutoff = [t \in Threads |-> 0]
  /\ todo = [t \in Threads |-> {}]
  /\ victim = [t \in Threads |-> None]
  /\ drawn = {}
  /\ added = {}
  /\ handed = [s \in States |-> 0]

(* UtcNow - CreatedAt > _ttl                                               *)
Stale(s) == clock - createdAt[s] > Ttl

Return(t) ==
  /\ pc' = [pc EXCEPT ![t] = "idle"]
  /\ job' = [job EXCEPT ![t] = "none"]
  /\ arg' = [arg EXCEPT ![t] = None]
  /\ UNCHANGED <<cutoff, todo, victim>>

(* SignIn stamps a fresh state and calls Add, which sweeps before it       *)
(* stores.                                                                 *)
BeginAdd(t, s) ==
  /\ pc[t] = "idle"
  /\ s \notin drawn
  /\ createdAt' = [createdAt EXCEPT ![s] = clock]
  /\ pc' = [pc EXCEPT ![t] = "clean"]
  /\ job' = [job EXCEPT ![t] = "add"]
  /\ arg' = [arg EXCEPT ![t] = s]
  /\ drawn' = drawn \union {s}
  /\ UNCHANGED <<clock, pending, cutoff, todo, victim, added, handed>>

(* Callback presents a state SignIn sent out, any number of times.         *)
BeginPop(t, s) ==
  /\ pc[t] = "idle"
  /\ s \in added
  /\ pc' = [pc EXCEPT ![t] = "clean"]
  /\ job' = [job EXCEPT ![t] = "pop"]
  /\ arg' = [arg EXCEPT ![t] = s]
  /\ UNCHANGED <<clock, pending, createdAt, cutoff, todo, victim, history>>

(***************************************************************************)
(* Cleanup, the first statement of both methods.                           *)
(***************************************************************************)
CutOffEarly(t) ==
  /\ pc[t] = "clean"
  /\ cutoff' = [cutoff EXCEPT ![t] = clock]
  /\ todo' = [todo EXCEPT ![t] = States]
  /\ pc' = [pc EXCEPT ![t] = "sweep"]
  /\ UNCHANGED <<clock, pending, createdAt, job, arg, victim, history>>

CutOff(t) ==
  /\ pc[t] = "clean"
  /\ cutoff' = [cutoff EXCEPT ![t] = clock - Ttl]
  /\ todo' = [todo EXCEPT ![t] = States]
  /\ pc' = [pc EXCEPT ![t] = "sweep"]
  /\ UNCHANGED <<clock, pending, createdAt, job, arg, victim, history>>

(* The enumerator passes a state: not in the dictionary at that moment, or *)
(* young enough.                                                           *)
SweepKeep(t, s) ==
  /\ pc[t] = "sweep"
  /\ s \in todo[t]
  /\ s \in pending => createdAt[s] >= cutoff[t]
  /\ todo' = [todo EXCEPT ![t] = @ \ {s}]
  /\ UNCHANGED <<clock, pending, createdAt, pc, job, arg, cutoff, victim,
                 history>>

SweepMark(t, s) ==
  /\ pc[t] = "sweep"
  /\ s \in todo[t] \intersect pending
  /\ createdAt[s] < cutoff[t]
  /\ victim' = [victim EXCEPT ![t] = s]
  /\ pc' = [pc EXCEPT ![t] = "drop"]
  /\ UNCHANGED <<clock, pending, createdAt, job, arg, cutoff, todo, history>>

SweepDrop(t) ==
  /\ pc[t] = "drop"
  /\ pending' = pending \ {victim[t]}
  /\ todo' = [todo EXCEPT ![t] = @ \ {victim[t]}]
  /\ victim' = [victim EXCEPT ![t] = None]
  /\ pc' = [pc EXCEPT ![t] = "sweep"]
  /\ UNCHANGED <<clock, createdAt, job, arg, cutoff, history>>

SweepDone(t) ==
  /\ pc[t] = "sweep"
  /\ todo[t] = {}
  /\ pc' = [pc EXCEPT ![t] = IF job[t] = "add" THEN "insert" ELSE "take"]
  /\ cutoff' = [cutoff EXCEPT ![t] = 0]
  /\ UNCHANGED <<clock, pending, createdAt, job, arg, todo, victim, history>>

(***************************************************************************)
(* The rest of Add and of PopByState.                                      *)
(***************************************************************************)
Insert(t) ==
  /\ pc[t] = "insert"
  /\ pending' = pending \union {arg[t]}
  /\ added' = added \union {arg[t]}
  /\ Return(t)
  /\ UNCHANGED <<clock, createdAt, drawn, handed>>

TakeMiss(t) ==
  /\ pc[t] = "take"
  /\ arg[t] \notin pending
  /\ Return(t)
  /\ UNCHANGED <<clock, pending, createdAt, history>>

TakeHitLeavesEntry(t) ==
  /\ pc[t] = "take"
  /\ arg[t] \in pending
  /\ pc' = [pc EXCEPT ![t] = "judge"]
  /\ UNCHANGED <<clock, pending, createdAt, locals, history>>

(* TryRemove finds and takes the entry in one step.                        *)
TakeHit(t) ==
  /\ pc[t] = "take"
  /\ arg[t] \in pending
  /\ pending' = pending \ {arg[t]}
  /\ pc' = [pc EXCEPT ![t] = "judge"]
  /\ UNCHANGED <<clock, createdAt, locals, history>>

HandOutUnjudged(t) ==
  /\ pc[t] = "judge"
  /\ handed' = [handed EXCEPT ![arg[t]] = @ + 1]
  /\ Return(t)
  /\ UNCHANGED <<clock, pending, createdAt, drawn, added>>

(* The age is tested once more: time has passed since the sweep.           *)
HandOut(t) ==
  /\ pc[t] = "judge"
  /\ ~Stale(arg[t])
  /\ handed' = [handed EXCEPT ![arg[t]] = @ + 1]
  /\ Return(t)
  /\ UNCHANGED <<clock, pending, createdAt, drawn, added>>

TooOld(t) ==
  /\ pc[t] = "judge"
  /\ Stale(arg[t])
  /\ Return(t)
  /\ UNCHANGED <<clock, pending, createdAt, history>>

Tick ==
  /\ clock < MaxClock
  /\ clock' = clock + 1
  /\ UNCHANGED <<pending, createdAt, pc, locals, history>>

Step(t) ==
  \/ \E s \in States : BeginAdd(t, s)
  \/ \E s \in States : BeginPop(t, s)
  \/ CutOff(t)
  \/ \E s \in States : SweepKeep(t, s)
  \/ \E s \in States : SweepMark(t, s)
  \/ SweepDrop(t)
  \/ SweepDone(t)
  \/ Insert(t)
  \/ TakeMiss(t)
  \/ TakeHit(t)
  \/ HandOut(t)
  \/ TooOld(t)

Next == (\E t \in Threads : Step(t)) \/ Tick

Spec == Init /\ [][Next]_vars

-----------------------------------------------------------------------------
(* Types, and which locals are in scope at which statement of Add,         *)
(* PopByState and Cleanup.                                                 *)
TypeOK ==
  /\ clock \in Nat
  /\ pending \in SUBSET States
  /\ createdAt \in [States -> Nat]
  /\ pc \in [Threads -> PCs]
  /\ job \in [Threads -> {"none", "add", "pop"}]
  /\ arg \in [Threads -> States \union {None}]
  /\ cutoff \in [Threads -> Int]
  /\ todo \in [Threads -> SUBSET States]
  /\ victim \in [Threads -> States \union {None}]
  /\ drawn \in SUBSET States
  /\ added \in SUBSET States
  /\ handed \in [States -> Nat]
  /\ \A t \in Threads :
       /\ pc[t] = "idle" <=> arg[t] = None
       /\ pc[t] = "drop" <=> victim[t] # None
       /\ pc[t] = "insert" => job[t] = "add"
       /\ pc[t] \in {"take", "judge"} => job[t] = "pop"

(* One sign-in is continued at most once, however often its redirect comes *)
(* back and however the callbacks interleave (PopByState's TryRemove): the *)
(* PKCE verifier of a state never serves two redemptions.                  *)
HandedOutOnce == \A s \in States : handed[s] <= 1

(* No sign-in younger than the time to live is lost: between sweeps and    *)
(* racing callbacks, an entry that is no longer in the store was handed    *)
(* out, is held by the callback about to judge it, or is stale.            *)
LostOnlyWhenStale ==
  \A s \in added \ pending :
    \/ handed[s] = 1
    \/ Stale(s)
    \/ \E t \in Threads : pc[t] = "judge" /\ arg[t] = s

(* What has become of each sign-in: its callback has it, or it is lost     *)
(* unless it was handed out.                                               *)
Fate == [s \in States |->
  IF s \notin added THEN "new"
  ELSE IF \/ s \in pending
          \/ \E t \in Threads : pc[t] = "judge" /\ arg[t] = s THEN "open"
  ELSE IF handed[s] > 0 THEN "taken" ELSE "over"]

(* Statement by statement and with every interleaving of sweeps and        *)
(* callbacks, the store keeps the contract of a sign-in: what is forgotten *)
(* is stale at that moment, what is continued is not, and nothing is both  *)
(* or twice.                                                               *)
SignIns == INSTANCE SignInContract WITH
  since <- [s \in States |-> IF s \in added THEN createdAt[s] ELSE 0],
  fate  <- Fate

KeepsSignInContract == SignIns!SSpec
=============================================================================
