---------------------------- MODULE SessionStore ----------------------------
(***************************************************************************)
(* InMemorySessionStore (src/API/Auth/SessionStore.cs), one statement at a *)
(* time.  The store is a singleton shared by every request thread; its     *)
(* dictionary operations are atomic but nothing makes a whole method so:   *)
(* Get checks the idle time, evicts or slides in separate steps, and the   *)
(* sweep that Add runs examines and removes entries one by one.            *)
(* Time is a discrete clock every UtcNow reads; it never goes backwards.   *)
(***************************************************************************)
EXTENDS Integers

CONSTANTS SessionIds,       \* ids of RandomBase64Url(32): each drawn once
          Threads,          \* request threads inside the store
          None,             \* no session
          IdleTimeout,      \* _idleTimeout, 8 h
          CleanupInterval,  \* the 15 min throttle of TryCleanup
          MaxClock          \* bound on the clock

ASSUME StoreAssumption ==
  /\ None \notin SessionIds
  /\ IdleTimeout \in Nat
  /\ CleanupInterval \in Nat
  /\ MaxClock \in Nat

VARIABLES clock,        \* UtcNow
          sessions,     \* the keys of _sessions
          lastSeen,     \* LastSeenAt of each session object
          lastCleanup,  \* _lastCleanup
          pc,           \* the statement each thread is about to run
          key,          \* the session each thread holds or is about to remove
          cutoff,       \* local of TryCleanup
          todo,         \* ids the foreach of TryCleanup has not passed yet
          created,      \* history: ids ever added
          signedOut,    \* history: ids passed to Remove while created
          idled         \* history: ids whose entry was idle too long

vars == <<clock, sessions, lastSeen, lastCleanup, pc, key, cutoff, todo,
          created, signedOut, idled>>
shared  == <<sessions, lastSeen, lastCleanup>>
history == <<created, signedOut, idled>>

PCs     == {"idle", "added", "due", "sweep", "drop", "found", "evict", "slide"}
KeyedPC == {"drop", "found", "evict", "slide"}

Init ==
  /\ clock = 0
  /\ sessions = {}
  /\ lastSeen = [s \in SessionIds |-> 0]
  /\ lastCleanup = 0
  /\ pc = [t \in Threads |-> "idle"]
  /\ key = [t \in Threads |-> None]
  /\ cutoff = [t \in Threads |-> 0]
  /\ todo = [t \in Threads |-> {}]
  /\ created = {}
  /\ signedOut = {}
  /\ idled = {}

(* UtcNow - LastSeenAt > _idleTimeout                                      *)
Expired(s) == clock - lastSeen[s] > IdleTimeout

(***************************************************************************)
(* Add: store the session, whose LastSeenAt was initialised to now, then   *)
(* run TryCleanup.                                                         *)
(***************************************************************************)
AddStore(t, s) ==
  /\ pc[t] = "idle"
  /\ s \notin created
  /\ sessions' = sessions \union {s}
  /\ lastSeen' = [lastSeen EXCEPT ![s] = clock]
  /\ pc' = [pc EXCEPT ![t] = "added"]
  /\ created' = created \union {s}
  /\ UNCHANGED <<clock, lastCleanup, key, cutoff, todo, signedOut, idled>>

(* The throttle: a sweep ran less than 15 min ago, so Add returns.         *)
CleanupSkip(t) ==
  /\ pc[t] = "added"
  /\ clock - lastCleanup < CleanupInterval
  /\ pc' = [pc EXCEPT ![t] = "idle"]
  /\ UNCHANGED <<clock, shared, key, cutoff, todo, history>>

(* Several threads may pass the throttle before one sets _lastCleanup.     *)
CleanupDue(t) ==
  /\ pc[t] = "added"
  /\ ~(clock - lastCleanup < CleanupInterval)
  /\ pc' = [pc EXCEPT ![t] = "due"]
  /\ UNCHANGED <<clock, shared, key, cutoff, todo, history>>

CleanupStart(t) ==
  /\ pc[t] = "due"
  /\ lastCleanup' = clock
  /\ cutoff' = [cutoff EXCEPT ![t] = clock - IdleTimeout]
  /\ todo' = [todo EXCEPT ![t] = SessionIds]
  /\ pc' = [pc EXCEPT ![t] = "sweep"]
  /\ UNCHANGED <<clock, sessions, lastSeen, key, history>>

SweepKeepLenient(t, k) ==
  /\ pc[t] = "sweep"
  /\ k \in todo[t]
  /\ k \in sessions => lastSeen[k] >= cutoff[t] - 1
  /\ todo' = [todo EXCEPT ![t] = @ \ {k}]
  /\ UNCHANGED <<clock, shared, pc, key, cutoff, history>>

(* The enumerator passes an id: absent from the dictionary at that moment  *)
(* (the enumeration is no snapshot), or seen recently enough.              *)
SweepKeep(t, k) ==
  /\ pc[t] = "sweep"
  /\ k \in todo[t]
  /\ k \in sessions => lastSeen[k] >= cutoff[t]
  /\ todo' = [todo EXCEPT ![t] = @ \ {k}]
  /\ UNCHANGED <<clock, shared, pc, key, cutoff, history>>

(* The test of an idle entry; the removal is a later step.                 *)
SweepMark(t, k) ==
  /\ pc[t] = "sweep"
  /\ k \in todo[t] \intersect sessions
  /\ lastSeen[k] < cutoff[t]
  /\ key' = [key EXCEPT ![t] = k]
  /\ pc' = [pc EXCEPT ![t] = "drop"]
  /\ UNCHANGED <<clock, shared, cutoff, todo, history>>

(* TryRemove by key, whatever happened to the entry since the test.        *)
SweepRemove(t) ==
  /\ pc[t] = "drop"
  /\ sessions' = sessions \ {key[t]}
  /\ todo' = [todo EXCEPT ![t] = @ \ {key[t]}]
  /\ key' = [key EXCEPT ![t] = None]
  /\ pc' = [pc EXCEPT ![t] = "sweep"]
  /\ UNCHANGED <<clock, lastSeen, lastCleanup, cutoff, history>>

SweepDone(t) ==
  /\ pc[t] = "sweep"
  /\ todo[t] = {}
  /\ pc' = [pc EXCEPT ![t] = "idle"]
  /\ cutoff' = [cutoff EXCEPT ![t] = 0]
  /\ UNCHANGED <<clock, shared, key, todo, history>>

(***************************************************************************)
(* Get: TryGetValue; evict if idle too long, else slide and return.  A     *)
(* lookup that misses returns null and changes nothing, so it has no step. *)
(***************************************************************************)
GetLookupAnyId(t, s) ==
  /\ pc[t] = "idle"
  /\ s \in created
  /\ key' = [key EXCEPT ![t] = s]
  /\ pc' = [pc EXCEPT ![t] = "found"]
  /\ UNCHANGED <<clock, shared, cutoff, todo, history>>

GetLookup(t, s) ==
  /\ pc[t] = "idle"
  /\ s \in sessions
  /\ key' = [key EXCEPT ![t] = s]
  /\ pc' = [pc EXCEPT ![t] = "found"]
  /\ UNCHANGED <<clock, shared, cutoff, todo, history>>

GetExpiredTooSoon(t) ==
  /\ pc[t] = "found"
  /\ clock - lastSeen[key[t]] >= IdleTimeout
  /\ pc' = [pc EXCEPT ![t] = "evict"]
  /\ UNCHANGED <<clock, shared, key, cutoff, todo, history>>

GetExpired(t) ==
  /\ pc[t] = "found"
  /\ Expired(key[t])
  /\ pc' = [pc EXCEPT ![t] = "evict"]
  /\ UNCHANGED <<clock, shared, key, cutoff, todo, history>>

GetEvict(t) ==
  /\ pc[t] = "evict"
  /\ sessions' = sessions \ {key[t]}
  /\ key' = [key EXCEPT ![t] = None]
  /\ pc' = [pc EXCEPT ![t] = "idle"]
  /\ UNCHANGED <<clock, lastSeen, lastCleanup, cutoff, todo, history>>

GetFreshUnchecked(t) ==
  /\ pc[t] = "found"
  /\ pc' = [pc EXCEPT ![t] = "slide"]
  /\ UNCHANGED <<clock, shared, key, cutoff, todo, history>>

GetFresh(t) ==
  /\ pc[t] = "found"
  /\ ~Expired(key[t])
  /\ pc' = [pc EXCEPT ![t] = "slide"]
  /\ UNCHANGED <<clock, shared, key, cutoff, todo, history>>

(* The session object is updated and returned even if another thread has   *)
(* taken it out of the dictionary meanwhile.                               *)
GetSlide(t) ==
  /\ pc[t] = "slide"
  /\ lastSeen' = [lastSeen EXCEPT ![key[t]] = clock]
  /\ key' = [key EXCEPT ![t] = None]
  /\ pc' = [pc EXCEPT ![t] = "idle"]
  /\ UNCHANGED <<clock, sessions, lastCleanup, cutoff, todo, history>>

(* Remove, the single TryRemove behind sign-out; an id that was never      *)
(* issued misses.                                                          *)
Remove(t, s) ==
  /\ pc[t] = "idle"
  /\ s \in created
  /\ sessions' = sessions \ {s}
  /\ signedOut' = signedOut \union {s}
  /\ UNCHANGED <<clock, lastSeen, lastCleanup, pc, key, cutoff, todo,
                 created, idled>>

(* Time passes, up to the bound.                                           *)
Tick ==
  /\ clock < MaxClock
  /\ clock' = clock + 1
  /\ idled' = idled \union
                {s \in sessions : clock' - lastSeen[s] > IdleTimeout}
  /\ UNCHANGED <<shared, pc, key, cutoff, todo, created, signedOut>>

AddStep(t) ==
  \/ \E s \in SessionIds : AddStore(t, s)
  \/ CleanupSkip(t)
  \/ CleanupDue(t)
  \/ CleanupStart(t)
  \/ \E k \in SessionIds : SweepKeep(t, k)
  \/ \E k \in SessionIds : SweepMark(t, k)
  \/ SweepRemove(t)
  \/ SweepDone(t)

GetStep(t) ==
  \/ \E s \in SessionIds : GetLookup(t, s)
  \/ GetExpired(t)
  \/ GetEvict(t)
  \/ GetFresh(t)
  \/ GetSlide(t)

Next ==
  \/ \E t \in Threads :
       \/ AddStep(t)
       \/ GetStep(t)
       \/ \E s \in SessionIds : Remove(t, s)
  \/ Tick

Spec == Init /\ [][Next]_vars

-----------------------------------------------------------------------------
(* Types, and which locals are in scope at which statement: a thread holds *)
(* a key exactly while it works on one, and an unfinished sweep exactly    *)
(* inside the foreach (Get, TryCleanup).                                   *)
TypeOK ==
  /\ clock \in Nat
  /\ sessions \in SUBSET SessionIds
  /\ lastSeen \in [SessionIds -> Nat]
  /\ lastCleanup \in Nat
  /\ pc \in [Threads -> PCs]
  /\ key \in [Threads -> SessionIds \union {None}]
  /\ cutoff \in [Threads -> Int]
  /\ todo \in [Threads -> SUBSET SessionIds]
  /\ created \in SUBSET SessionIds
  /\ signedOut \in SUBSET SessionIds
  /\ idled \in SUBSET SessionIds
  /\ \A t \in Threads : key[t] # None <=> pc[t] \in KeyedPC

(* However lookups, evictions and sweeps interleave, a session leaves the  *)
(* store only because its user signed out or because its entry did stay    *)
(* untouched longer than the idle timeout (Get's and TryCleanup's          *)
(* TryRemove act on an earlier test).                                      *)
EvictedOnlyAfterIdle ==
  \A s \in created \ sessions : s \in signedOut \union idled

(* Once the sweep has passed an id, no entry older than its cutoff is left *)
(* behind under that id, although the enumeration is not a snapshot and    *)
(* other threads add, slide and remove meanwhile (TryCleanup).             *)
SweepIsThorough ==
  \A t \in Threads : pc[t] \in {"sweep", "drop"} =>
    \A k \in sessions \ todo[t] : lastSeen[k] >= cutoff[t]

(* A session that ended is never live again: a Get that found it before it *)
(* was removed may still return it, but does not put it back.              *)
NoResurrection ==
  [][\A s \in created \ sessions : s \notin sessions']_vars

(* A session idle too long stays so: once no Get that tested it in time is *)
(* still about to slide it, nothing makes it usable again, whether or not  *)
(* it was evicted (the check-then-slide of Get).                           *)
Dead(s) ==
  /\ s \in created
  /\ Expired(s)
  /\ \A t \in Threads : ~(pc[t] = "slide" /\ key[t] = s)

ExpiryIsFinal == [][\A s \in SessionIds : Dead(s) => Dead(s)']_vars

(* The store keeps the contract of its interface: ids are live once, and a *)
(* Get works only on a session that was in the dictionary when it looked.  *)
Contract == INSTANCE SessionContract WITH
  Callers <- Threads,
  live    <- sessions,
  gone    <- created \ sessions,
  serving <- [t \in Threads |->
                IF pc[t] \in {"found", "slide"} THEN key[t] ELSE None]

ImplementsContract == Contract!CSpec
=============================================================================
