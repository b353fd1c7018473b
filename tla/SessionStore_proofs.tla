------------------------ MODULE SessionStore_proofs ------------------------
(***************************************************************************)
(* Proofs, for any number of ids and threads and any timeouts, of what     *)
(* MCSessionStore checks on a small instance of SessionStore.              *)
(***************************************************************************)
EXTENDS SessionStore, TLAPS

LEMMA InitTypeOK == Init => TypeOK
BY StoreAssumption DEF Init, TypeOK, PCs, KeyedPC

(* Every step keeps the types, one case per action.                        *)
LEMMA NextTypeOK == TypeOK /\ [Next]_vars => TypeOK'
<1> SUFFICES ASSUME TypeOK, [Next]_vars PROVE TypeOK'
  OBVIOUS
<1> USE StoreAssumption DEF TypeOK, PCs, KeyedPC, shared, history
<1>1. ASSUME NEW t \in Threads, NEW s \in SessionIds, AddStore(t, s)
      PROVE  TypeOK'
  BY <1>1 DEF AddStore
<1>2. ASSUME NEW t \in Threads, CleanupSkip(t) PROVE TypeOK'
  BY <1>2 DEF CleanupSkip
<1>3. ASSUME NEW t \in Threads, CleanupDue(t) PROVE TypeOK'
  BY <1>3 DEF CleanupDue
<1>4. ASSUME NEW t \in Threads, CleanupStart(t) PROVE TypeOK'
  BY <1>4 DEF CleanupStart
<1>5. ASSUME NEW t \in Threads, NEW k \in SessionIds, SweepKeep(t, k)
      PROVE  TypeOK'
  BY <1>5 DEF SweepKeep
<1>6. ASSUME NEW t \in Threads, NEW k \in SessionIds, SweepMark(t, k)
      PROVE  TypeOK'
  BY <1>6 DEF SweepMark
<1>7. ASSUME NEW t \in Threads, SweepRemove(t) PROVE TypeOK'
  BY <1>7 DEF SweepRemove
<1>8. ASSUME NEW t \in Threads, SweepDone(t) PROVE TypeOK'
  BY <1>8 DEF SweepDone
<1>9. ASSUME NEW t \in Threads, NEW s \in SessionIds, GetLookup(t, s)
      PROVE  TypeOK'
  BY <1>9 DEF GetLookup
<1>10. ASSUME NEW t \in Threads, GetExpired(t) PROVE TypeOK'
  BY <1>10 DEF GetExpired
<1>11. ASSUME NEW t \in Threads, GetEvict(t) PROVE TypeOK'
  BY <1>11 DEF GetEvict
<1>12. ASSUME NEW t \in Threads, GetFresh(t) PROVE TypeOK'
  BY <1>12 DEF GetFresh
<1>13. ASSUME NEW t \in Threads, GetSlide(t) PROVE TypeOK'
  BY <1>13 DEF GetSlide
<1>14. ASSUME NEW t \in Threads, NEW s \in SessionIds, Remove(t, s)
       PROVE  TypeOK'
  BY <1>14 DEF Remove
<1>15. CASE Tick
  BY <1>15 DEF Tick
<1>16. CASE UNCHANGED vars
  BY <1>16 DEF vars
<1>17. QED
  BY <1>1, <1>2, <1>3, <1>4, <1>5, <1>6, <1>7, <1>8, <1>9, <1>10, <1>11,
     <1>12, <1>13, <1>14, <1>15, <1>16 DEF Next, AddStep, GetStep

(* The types of the store hold in every reachable state.                   *)
THEOREM TypeCorrect == Spec => []TypeOK
BY InitTypeOK, NextTypeOK, PTL DEF Spec

-----------------------------------------------------------------------------
(***************************************************************************)
(* EvictedOnlyAfterIdle and SweepIsThorough are not inductive.  A removal  *)
(* acts on a test made earlier, so the test's verdict has to be carried    *)
(* from the statement that made it to the one that removes.                *)
(***************************************************************************)
Ids ==
  /\ sessions \subseteq created
  /\ \A t \in Threads : pc[t] \in KeyedPC => key[t] \in created

SeenInThePast == \A s \in created : lastSeen[s] <= clock

(* An entry past the idle timeout was already noticed to be.               *)
IdleNoticed == \A s \in sessions : Expired(s) => s \in idled

(* An entry about to be removed was idle when it was tested.               *)
DoomedWereIdle ==
  \A t \in Threads : pc[t] \in {"evict", "drop"} =>
    key[t] \in signedOut \union idled

(* The cutoff of a running sweep never lies in the future.                 *)
CutoffIsPast ==
  \A t \in Threads : pc[t] \in {"sweep", "drop"} =>
    cutoff[t] <= clock - IdleTimeout

IInv ==
  /\ Ids
  /\ SeenInThePast
  /\ IdleNoticed
  /\ DoomedWereIdle
  /\ CutoffIsPast
  /\ EvictedOnlyAfterIdle
  /\ SweepIsThorough

LEMMA InitIInv == Init => IInv
BY StoreAssumption DEF Init, IInv, Ids, SeenInThePast, IdleNoticed,
   DoomedWereIdle, CutoffIsPast, EvictedOnlyAfterIdle, SweepIsThorough,
   KeyedPC, Expired

(* One case per action; within a case, the conjuncts of IInv.              *)
LEMMA NextIInv == TypeOK /\ IInv /\ [Next]_vars => IInv'
<1> SUFFICES ASSUME TypeOK, IInv, [Next]_vars PROVE IInv'
  OBVIOUS
<1> USE StoreAssumption DEF TypeOK, PCs, KeyedPC, shared, history, Expired,
        IInv, Ids, SeenInThePast, IdleNoticed, DoomedWereIdle, CutoffIsPast,
        EvictedOnlyAfterIdle, SweepIsThorough
<1>1. ASSUME NEW t \in Threads, NEW s \in SessionIds, AddStore(t, s)
      PROVE  IInv'
  BY <1>1 DEF AddStore
<1>2. ASSUME NEW t \in Threads, CleanupSkip(t) PROVE IInv'
  BY <1>2 DEF CleanupSkip
<1>3. ASSUME NEW t \in Threads, CleanupDue(t) PROVE IInv'
  BY <1>3 DEF CleanupDue
<1>4. ASSUME NEW t \in Threads, CleanupStart(t) PROVE IInv'
  BY <1>4 DEF CleanupStart
<1>5. ASSUME NEW t \in Threads, NEW k \in SessionIds, SweepKeep(t, k)
      PROVE  IInv'
  BY <1>5 DEF SweepKeep
<1>6. ASSUME NEW t \in Threads, NEW k \in SessionIds, SweepMark(t, k)
      PROVE  IInv'
  BY <1>6 DEF SweepMark
<1>7. ASSUME NEW t \in Threads, SweepRemove(t) PROVE IInv'
  BY <1>7 DEF SweepRemove
<1>8. ASSUME NEW t \in Threads, SweepDone(t) PROVE IInv'
  BY <1>8 DEF SweepDone
<1>9. ASSUME NEW t \in Threads, NEW s \in SessionIds, GetLookup(t, s)
      PROVE  IInv'
  BY <1>9 DEF GetLookup
<1>10. ASSUME NEW t \in Threads, GetExpired(t) PROVE IInv'
  BY <1>10 DEF GetExpired
<1>11. ASSUME NEW t \in Threads, GetEvict(t) PROVE IInv'
  BY <1>11 DEF GetEvict
<1>12. ASSUME NEW t \in Threads, GetFresh(t) PROVE IInv'
  BY <1>12 DEF GetFresh
<1>13. ASSUME NEW t \in Threads, GetSlide(t) PROVE IInv'
  BY <1>13 DEF GetSlide
<1>14. ASSUME NEW t \in Threads, NEW s \in SessionIds, Remove(t, s)
       PROVE  IInv'
  BY <1>14 DEF Remove
<1>15. CASE Tick
  BY <1>15 DEF Tick
<1>16. CASE UNCHANGED vars
  BY <1>16 DEF vars
<1>17. QED
  BY <1>1, <1>2, <1>3, <1>4, <1>5, <1>6, <1>7, <1>8, <1>9, <1>10, <1>11,
     <1>12, <1>13, <1>14, <1>15, <1>16 DEF Next, AddStep, GetStep

LEMMA Invariance == Spec => [](TypeOK /\ IInv)
BY InitTypeOK, InitIInv, NextTypeOK, NextIInv, PTL DEF Spec

(* A session leaves the store only after sign-out or after its entry was   *)
(* idle too long, however many threads look up, sweep and remove.          *)
THEOREM NoEarlyEviction == Spec => []EvictedOnlyAfterIdle
BY Invariance, PTL DEF IInv

(* No sweep leaves an entry older than its cutoff behind it.               *)
THEOREM ThoroughSweeps == Spec => []SweepIsThorough
BY Invariance, PTL DEF IInv

-----------------------------------------------------------------------------
(* The only step that puts an id into the store is Add of a fresh id.      *)
LEMMA StepRemoves ==
  ASSUME TypeOK, [Next]_vars
  PROVE  \/ sessions' \subseteq sessions /\ created' = created
         \/ \E s \in SessionIds : /\ s \notin created
                                  /\ sessions' = sessions \union {s}
                                  /\ created' = created \union {s}
BY DEF Next, AddStep, GetStep, vars, shared, history, AddStore, CleanupSkip,
   CleanupDue, CleanupStart, SweepKeep, SweepMark, SweepRemove, SweepDone,
   GetLookup, GetExpired, GetEvict, GetFresh, GetSlide, Remove, Tick

(* A session that was removed never comes back.                            *)
THEOREM RemovedForGood == Spec => NoResurrection
<1>1. TypeOK /\ [Next]_vars
        => [\A s \in created \ sessions : s \notin sessions']_vars
  BY StepRemoves
<1>2. QED BY <1>1, TypeCorrect, PTL DEF Spec, NoResurrection

(* A session idle too long, with no Get about to slide it, stays so.       *)
LEMMA DeadStep ==
  ASSUME TypeOK, [Next]_vars, NEW d \in SessionIds, Dead(d)
  PROVE  Dead(d)'
<1> USE StoreAssumption DEF TypeOK, PCs, KeyedPC, shared, history, Expired, Dead
<1>1. ASSUME NEW t \in Threads, NEW s \in SessionIds, AddStore(t, s)
      PROVE  Dead(d)'
  BY <1>1 DEF AddStore
<1>2. ASSUME NEW t \in Threads, NEW k \in SessionIds,
             \/ CleanupSkip(t) \/ CleanupDue(t) \/ CleanupStart(t)
             \/ SweepKeep(t, k) \/ SweepMark(t, k)
             \/ SweepRemove(t) \/ SweepDone(t)
      PROVE  Dead(d)'
  BY <1>2 DEF CleanupSkip, CleanupDue, CleanupStart, SweepKeep, SweepMark,
     SweepRemove, SweepDone
<1>3. ASSUME NEW t \in Threads, NEW s \in SessionIds,
             GetLookup(t, s) \/ GetExpired(t) \/ GetEvict(t) \/ Remove(t, s)
      PROVE  Dead(d)'
  BY <1>3 DEF GetLookup, GetExpired, GetEvict, Remove
<1>4. ASSUME NEW t \in Threads, GetFresh(t) PROVE Dead(d)'
  BY <1>4 DEF GetFresh    \* the test fails for an expired session
<1>5. ASSUME NEW t \in Threads, GetSlide(t) PROVE Dead(d)'
  BY <1>5 DEF GetSlide    \* no thread is there with a dead session
<1>6. CASE Tick
  BY <1>6 DEF Tick
<1>7. CASE UNCHANGED vars
  BY <1>7 DEF vars
<1>8. QED
  BY <1>1, <1>2, <1>3, <1>4, <1>5, <1>6, <1>7 DEF Next, AddStep, GetStep

THEOREM NoRevival == Spec => ExpiryIsFinal
<1>1. TypeOK /\ [Next]_vars
        => [\A s \in SessionIds : Dead(s) => Dead(s)']_vars
  BY DeadStep
<1>2. QED BY <1>1, TypeCorrect, PTL DEF Spec, ExpiryIsFinal

-----------------------------------------------------------------------------
(* Each step of the store is a step of the contract or a stutter of it.    *)
LEMMA ContractInit == Init => Contract!CInit
BY DEF Init, Contract!CInit

LEMMA ContractStep ==
  TypeOK /\ IInv /\ [Next]_vars => [Contract!CNext]_Contract!contractVars
<1> SUFFICES ASSUME TypeOK, IInv, [Next]_vars
             PROVE  [Contract!CNext]_Contract!contractVars
  OBVIOUS
<1> USE StoreAssumption DEF TypeOK, PCs, KeyedPC, shared, history, IInv, Ids,
        Contract!contractVars
<1>1. ASSUME NEW t \in Threads, NEW s \in SessionIds, AddStore(t, s)
      PROVE  Contract!Open(s, {})
  BY <1>1 DEF AddStore, Contract!Open
<1>2. ASSUME NEW t \in Threads,
             \/ CleanupSkip(t) \/ CleanupDue(t) \/ CleanupStart(t)
             \/ \E k \in SessionIds : SweepKeep(t, k) \/ SweepMark(t, k)
             \/ SweepDone(t)
      PROVE  UNCHANGED Contract!contractVars
  BY <1>2 DEF CleanupSkip, CleanupDue, CleanupStart, SweepKeep, SweepMark,
     SweepDone
<1>3. ASSUME NEW t \in Threads,
             \/ SweepRemove(t) \/ GetEvict(t)
             \/ \E s \in SessionIds : Remove(t, s)
      PROVE  \E S \in SUBSET SessionIds : Contract!Close(S)
  <2>1. /\ sessions' \subseteq sessions
        /\ UNCHANGED created
        /\ UNCHANGED [c \in Threads |->
             IF pc[c] \in {"found", "slide"} THEN key[c] ELSE None]
    BY <1>3 DEF SweepRemove, GetEvict, Remove
  <2>2. Contract!Close(sessions \ sessions')
    BY <2>1 DEF Contract!Close
  <2>3. QED BY <2>2
<1>4. ASSUME NEW t \in Threads, NEW s \in SessionIds, GetLookup(t, s)
      PROVE  Contract!Hand(t, s)
  BY <1>4 DEF GetLookup, Contract!Hand
<1>5. ASSUME NEW t \in Threads, GetExpired(t) \/ GetSlide(t)
      PROVE  \E S \in SUBSET SessionIds : Contract!Release(t, S)
  <2>1. Contract!Release(t, {})
    BY <1>5 DEF GetExpired, GetSlide, Contract!Release
  <2>2. QED BY <2>1
<1>6. ASSUME NEW t \in Threads, GetFresh(t)
      PROVE  UNCHANGED Contract!contractVars
  BY <1>6 DEF GetFresh
<1>7. CASE Tick
  BY <1>7 DEF Tick
<1>8. CASE UNCHANGED vars
  BY <1>8 DEF vars
<1>9. QED
  BY <1>1, <1>2, <1>3, <1>4, <1>5, <1>6, <1>7, <1>8
     DEF Next, AddStep, GetStep, Contract!CNext

(* The store implements the contract of ISessionStore.                     *)
THEOREM StoreImplementsContract == Spec => ImplementsContract
BY ContractInit, ContractStep, Invariance, PTL
   DEF Spec, ImplementsContract, Contract!CSpec
=============================================================================
