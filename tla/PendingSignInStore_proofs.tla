---------------------- MODULE PendingSignInStore_proofs ----------------------
(***************************************************************************)
(* Proofs, for any number of states and threads and any time to live, of   *)
(* what MCPendingSignInStore checks on a small instance.                   *)
(***************************************************************************)
EXTENDS PendingSignInStore, TLAPS

(* The invariant behind HandedOutOnce and LostOnlyWhenStale.  A state is   *)
(* with its Add, in the dictionary, with the one callback that took it, or *)
(* spent; and the entry a sweep is about to remove was stale when tested,  *)
(* hence still is.                                                         *)
Provenance ==
  /\ pending \subseteq added
  /\ added \subseteq drawn
  /\ \A t \in Threads : job[t] = "pop" => arg[t] \in added
  /\ \A t \in Threads : job[t] = "add" => arg[t] \in drawn \ added
  /\ \A t, u \in Threads :
       job[t] = "add" /\ job[u] = "add" /\ arg[t] = arg[u] => t = u
  /\ \A t \in Threads : pc[t] # "idle" => job[t] \in {"add", "pop"}
  /\ \A t \in Threads : pc[t] = "idle" => job[t] = "none"

OneHolder ==
  /\ \A s \in States : s \notin added \/ s \in pending => handed[s] = 0
  /\ \A t \in Threads : pc[t] = "judge" =>
       /\ arg[t] \notin pending
       /\ handed[arg[t]] = 0
       /\ \A u \in Threads : pc[u] = "judge" /\ arg[u] = arg[t] => u = t

VictimsAreStale ==
  \A t \in Threads :
    /\ pc[t] \in {"sweep", "drop"} => cutoff[t] <= clock - Ttl
    /\ pc[t] = "drop" => victim[t] \in drawn /\ Stale(victim[t])

BegunInThePast == \A s \in States : createdAt[s] <= clock

IInv ==
  /\ Provenance
  /\ OneHolder
  /\ VictimsAreStale
  /\ BegunInThePast
  /\ HandedOutOnce
  /\ LostOnlyWhenStale

LEMMA InitInv == Init => TypeOK /\ IInv
BY PendingAssumption DEF Init, TypeOK, PCs, IInv, Provenance, OneHolder,
   VictimsAreStale, BegunInThePast, HandedOutOnce, LostOnlyWhenStale

LEMMA NextInv == TypeOK /\ IInv /\ [Next]_vars => (TypeOK /\ IInv)'
<1> SUFFICES ASSUME TypeOK, IInv, [Next]_vars PROVE (TypeOK /\ IInv)'
  OBVIOUS
<1> USE PendingAssumption DEF TypeOK, PCs, locals, history, Return, Stale,
        IInv, Provenance, OneHolder, VictimsAreStale, BegunInThePast,
        HandedOutOnce, LostOnlyWhenStale
<1>1. ASSUME NEW t \in Threads, NEW s \in States, BeginAdd(t, s)
      PROVE  (TypeOK /\ IInv)'
  BY <1>1 DEF BeginAdd
<1>2. ASSUME NEW t \in Threads, NEW s \in States, BeginPop(t, s)
      PROVE  (TypeOK /\ IInv)'
  BY <1>2 DEF BeginPop
<1>3. ASSUME NEW t \in Threads, CutOff(t) PROVE (TypeOK /\ IInv)'
  BY <1>3 DEF CutOff
<1>4. ASSUME NEW t \in Threads, NEW s \in States, SweepKeep(t, s)
      PROVE  (TypeOK /\ IInv)'
  BY <1>4 DEF SweepKeep
<1>5. ASSUME NEW t \in Threads, NEW s \in States, SweepMark(t, s)
      PROVE  (TypeOK /\ IInv)'
  BY <1>5 DEF SweepMark
<1>6. ASSUME NEW t \in Threads, SweepDrop(t) PROVE (TypeOK /\ IInv)'
  BY <1>6 DEF SweepDrop
<1>7. ASSUME NEW t \in Threads, SweepDone(t) PROVE (TypeOK /\ IInv)'
  BY <1>7 DEF SweepDone
<1>8. ASSUME NEW t \in Threads, Insert(t) PROVE (TypeOK /\ IInv)'
  BY <1>8 DEF Insert
<1>9. ASSUME NEW t \in Threads, TakeMiss(t) PROVE (TypeOK /\ IInv)'
  BY <1>9 DEF TakeMiss
<1>10. ASSUME NEW t \in Threads, TakeHit(t) PROVE (TypeOK /\ IInv)'
  BY <1>10 DEF TakeHit
<1>11. ASSUME NEW t \in Threads, HandOut(t) PROVE (TypeOK /\ IInv)'
  BY <1>11 DEF HandOut
<1>12. ASSUME NEW t \in Threads, TooOld(t) PROVE (TypeOK /\ IInv)'
  BY <1>12 DEF TooOld
<1>13. CASE Tick
  BY <1>13 DEF Tick
<1>14. CASE UNCHANGED vars
  BY <1>14 DEF vars
<1>15. QED
  BY <1>1, <1>2, <1>3, <1>4, <1>5, <1>6, <1>7, <1>8, <1>9, <1>10, <1>11,
     <1>12, <1>13, <1>14 DEF Next, Step

LEMMA Invariance == Spec => [](TypeOK /\ IInv)
BY InitInv, NextInv, PTL DEF Spec

(* The types of the store hold in every reachable state.                   *)
THEOREM TypeCorrect == Spec => []TypeOK
BY Invariance, PTL

(* No sign-in is continued twice, by however many racing callbacks.        *)
THEOREM SingleUse == Spec => []HandedOutOnce
BY Invariance, PTL DEF IInv

(* No young sign-in is lost to a sweep or to a race of callbacks.          *)
THEOREM NoFreshSignInLost == Spec => []LostOnlyWhenStale
BY Invariance, PTL DEF IInv

-----------------------------------------------------------------------------
(* The refinement.  Only a few statements of the store say anything about  *)
(* the fate of a sign-in; the rest leave it as it is.                      *)
Since == [s \in States |-> IF s \in added THEN createdAt[s] ELSE 0]

LEMMA SignInsInit == Init => SignIns!SInit
BY DEF Init, SignIns!SInit, Fate

LEMMA Stutter ==
  ASSUME UNCHANGED <<clock, Since, Fate>>
  PROVE  [SignIns!SNext]_SignIns!signInVars
BY DEF Since, SignIns!signInVars

(* One sign-in, stale and waiting, is forgotten.                           *)
LEMMA ForgetOne ==
  ASSUME NEW s \in States, s \in added, Fate[s] = "open", Stale(s),
         Fate' = [Fate EXCEPT ![s] = "over"], UNCHANGED <<clock, Since>>
  PROVE  [SignIns!SNext]_SignIns!signInVars
<1>1. {s} \in SUBSET SignIns!Old
  BY DEF SignIns!Old, SignIns!Stale, Since, Stale
<1>2. Fate' = SignIns!Without({s})
  BY DEF SignIns!Without, Fate
<1>3. SignIns!Forget
  BY <1>1, <1>2 DEF SignIns!Forget, Since
<1>4. QED BY <1>3 DEF SignIns!SNext

LEMMA ChangedAtOne ==
  ASSUME NEW f, NEW g, NEW s \in States, NEW end,
         f = [q \in States |-> f[q]], g = [q \in States |-> g[q]],
         \A q \in States : q # s => g[q] = f[q], g[s] = end
  PROVE  g = [f EXCEPT ![s] = end]
OBVIOUS

(* The thread that judges a sign-in lets go of it.                         *)
LEMMA JudgedOnce ==
  ASSUME NEW t \in Threads, NEW s \in States, TypeOK,
         s \in added, s \notin pending, pc[t] = "judge", arg[t] = s,
         \A u \in Threads : pc[u] = "judge" /\ arg[u] = s => u = t,
         UNCHANGED <<pending, added>>, pc'[t] = "idle",
         \A u \in Threads : u # t => pc'[u] = pc[u] /\ arg'[u] = arg[u],
         \A q \in States : q # s => handed'[q] = handed[q]
  PROVE  Fate' = [Fate EXCEPT ![s] = IF handed'[s] > 0 THEN "taken" ELSE "over"]
<1>1. \A q \in States : q # s =>
        ((\E u \in Threads : pc'[u] = "judge" /\ arg'[u] = q)
          <=> \E u \in Threads : pc[u] = "judge" /\ arg[u] = q)
  OBVIOUS
<1>2. ~\E u \in Threads : pc'[u] = "judge" /\ arg'[u] = s
  OBVIOUS
<1>3. Fate'[s] = IF handed'[s] > 0 THEN "taken" ELSE "over"
  BY <1>2 DEF Fate
<1>4. \A q \in States : q # s => Fate'[q] = Fate[q]
  BY <1>1 DEF Fate
<1>5. PICK end : end = IF handed'[s] > 0 THEN "taken" ELSE "over"
  OBVIOUS
<1>6. Fate'[s] = end
  BY <1>3, <1>5
<1>7. /\ Fate = [q \in States |-> Fate[q]]
      /\ Fate' = [q \in States |-> Fate'[q]]
  BY DEF Fate
<1>8. Fate' = [Fate EXCEPT ![s] = end]
  BY <1>4, <1>6, <1>7, ChangedAtOne
<1>9. QED BY <1>5, <1>8

LEMMA SignInsStep ==
  TypeOK /\ IInv /\ [Next]_vars => [SignIns!SNext]_SignIns!signInVars
<1> SUFFICES ASSUME TypeOK, IInv, [Next]_vars
             PROVE  [SignIns!SNext]_SignIns!signInVars
  OBVIOUS
<1> USE PendingAssumption DEF Since, locals, history, Return
<1>t. /\ pc \in [Threads -> PCs]
      /\ arg \in [Threads -> States \union {None}]
      /\ victim \in [Threads -> States \union {None}]
      /\ handed \in [States -> Nat]
      /\ createdAt \in [States -> Nat] /\ clock \in Nat
      /\ \A t \in Threads : /\ pc[t] = "idle" <=> arg[t] = None
                            /\ pc[t] = "drop" <=> victim[t] # None
                            /\ pc[t] = "insert" => job[t] = "add"
                            /\ pc[t] \in {"take", "judge"} => job[t] = "pop"
  BY DEF TypeOK
<1>i. Provenance /\ OneHolder /\ VictimsAreStale /\ BegunInThePast
  BY DEF IInv
<1>1. ASSUME NEW t \in Threads, NEW s \in States, BeginAdd(t, s)
      PROVE  UNCHANGED <<clock, Since, Fate>>
  <2>1. s \notin added
    BY <1>1, <1>i DEF BeginAdd, Provenance
  <2>2. QED BY <1>1, <2>1, <1>t DEF BeginAdd, Fate
<1>2. ASSUME NEW t \in Threads,
             \/ \E s \in States : BeginPop(t, s) \/ SweepKeep(t, s) \/ SweepMark(t, s)
             \/ CutOff(t) \/ SweepDone(t) \/ TakeMiss(t)
      PROVE  UNCHANGED <<clock, Since, Fate>>
  <2>1. /\ UNCHANGED <<clock, pending, createdAt, added, handed>>
        /\ \A u \in Threads : /\ pc'[u] = "judge" <=> pc[u] = "judge"
                              /\ pc[u] = "judge" => arg'[u] = arg[u]
    BY <1>2, <1>t DEF BeginPop, SweepKeep, SweepMark, CutOff, SweepDone, TakeMiss
  <2>2. QED BY <2>1 DEF Fate
<1>3. ASSUME NEW t \in Threads, SweepDrop(t)
      PROVE  [SignIns!SNext]_SignIns!signInVars
  <2>1. PICK v \in States : v = victim[t] /\ Stale(v)
    BY <1>3, <1>t, <1>i DEF SweepDrop, VictimsAreStale
  <2>2. /\ UNCHANGED <<clock, Since, added, arg, handed>>
        /\ pending' = pending \ {v}
        /\ \A u \in Threads : pc'[u] = "judge" <=> pc[u] = "judge"
    BY <1>3, <2>1, <1>t DEF SweepDrop
  <2>3. CASE v \in pending
    <3>1. v \in added /\ handed[v] = 0 /\ Fate[v] = "open"
      BY <2>3, <1>i DEF Provenance, OneHolder, Fate
    <3>2. \A u \in Threads : pc[u] = "judge" => arg[u] # v
      BY <2>3, <1>i DEF OneHolder
    <3>3. \A s \in States :
            s # v => Fate'[s] = Fate[s]
      BY <2>2, <3>2 DEF Fate
    <3>4. Fate'[v] = "over"
      BY <2>2, <3>1, <3>2 DEF Fate
    <3>5. Fate' = [Fate EXCEPT ![v] = "over"]
      BY <3>3, <3>4 DEF Fate
    <3>6. QED BY <2>1, <2>2, <3>1, <3>5, ForgetOne
  <2>4. CASE v \notin pending
    BY <2>2, <2>4, Stutter DEF Fate
  <2>5. QED BY <2>3, <2>4
<1>4. ASSUME NEW t \in Threads, Insert(t)
      PROVE  [SignIns!SNext]_SignIns!signInVars
  <2>1. PICK s \in States : s = arg[t] /\ s \notin added
    BY <1>4, <1>t, <1>i DEF Insert, Provenance
  <2>2. /\ UNCHANGED <<clock, createdAt, handed>>
        /\ pending' = pending \union {s} /\ added' = added \union {s}
        /\ \A u \in Threads : /\ pc'[u] = "judge" <=> pc[u] = "judge"
                              /\ pc[u] = "judge" => arg'[u] = arg[u]
    BY <1>4, <2>1, <1>t DEF Insert
  <2>3. /\ Fate[s] = "new" /\ Fate' = [Fate EXCEPT ![s] = "open"]
        /\ Since' = [Since EXCEPT ![s] = createdAt[s]]
    BY <2>1, <2>2 DEF Fate
  <2>4. createdAt[s] \in 0 .. clock
    BY <1>t, <1>i DEF BegunInThePast
  <2>5. Fate' = [SignIns!Without({}) EXCEPT ![s] = "open"]
    BY <2>3 DEF SignIns!Without, Fate
  <2>6. {} \in SUBSET SignIns!Old
    OBVIOUS
  <2>7. SignIns!Remember(s)
    BY <2>2, <2>3, <2>4, <2>5, <2>6 DEF SignIns!Remember
  <2>8. QED BY <2>7 DEF SignIns!SNext
<1>5. ASSUME NEW t \in Threads, TakeHit(t)
      PROVE  UNCHANGED <<clock, Since, Fate>>
  <2>1. arg[t] \in States /\ arg[t] \in pending
    BY <1>5, <1>t DEF TakeHit
  <2>2. QED BY <1>5, <2>1, <1>t DEF TakeHit, Fate
<1>6. ASSUME NEW t \in Threads, pc[t] = "judge"
      PROVE  /\ arg[t] \in States /\ arg[t] \in added /\ arg[t] \notin pending
             /\ handed[arg[t]] = 0 /\ Fate[arg[t]] = "open"
             /\ \A u \in Threads : pc[u] = "judge" /\ arg[u] = arg[t] => u = t
  BY <1>6, <1>t, <1>i DEF Provenance, OneHolder, Fate
<1>7. ASSUME NEW t \in Threads, HandOut(t)
      PROVE  [SignIns!SNext]_SignIns!signInVars
  <2>1. PICK s \in States : s = arg[t]
    BY <1>6, <1>7 DEF HandOut
  <2>2. /\ UNCHANGED <<clock, Since, pending, added>>
        /\ handed'[s] > 0 /\ \A q \in States : q # s => handed'[q] = handed[q]
        /\ \A u \in Threads : u # t => pc'[u] = pc[u] /\ arg'[u] = arg[u]
        /\ pc'[t] = "idle" /\ pc[t] = "judge"
    BY <1>6, <1>7, <2>1, <1>t DEF HandOut
  <2>3. Fate' = [Fate EXCEPT ![s] = "taken"]
    BY <1>6, <2>1, <2>2, JudgedOnce
  <2>4. Fate' = [SignIns!Without({}) EXCEPT ![s] = "taken"]
    BY <2>3 DEF SignIns!Without, Fate
  <2>5. {} \in SUBSET SignIns!Old
    OBVIOUS
  <2>6. ~SignIns!Stale(s)
    BY <1>6, <1>7, <2>1 DEF HandOut, Stale, SignIns!Stale
  <2>7. SignIns!Continue(s)
    BY <1>6, <2>1, <2>2, <2>4, <2>5, <2>6, <1>7 DEF SignIns!Continue
  <2>8. QED BY <2>7 DEF SignIns!SNext
<1>8. ASSUME NEW t \in Threads, TooOld(t)
      PROVE  [SignIns!SNext]_SignIns!signInVars
  <2>1. PICK s \in States : s = arg[t]
    BY <1>6, <1>8 DEF TooOld
  <2>2. /\ UNCHANGED <<clock, Since, pending, added, handed>>
        /\ \A u \in Threads : u # t => pc'[u] = pc[u] /\ arg'[u] = arg[u]
        /\ pc'[t] = "idle" /\ pc[t] = "judge"
    BY <1>8, <1>t DEF TooOld
  <2>3. Fate' = [Fate EXCEPT ![s] = "over"]
    BY <1>6, <1>8, <2>1, <2>2, JudgedOnce DEF TooOld
  <2>4. QED BY <1>6, <1>8, <2>1, <2>2, <2>3, ForgetOne DEF TooOld
<1>9. CASE Tick
  <2>1. SignIns!Wait
    BY <1>9, <1>t DEF Tick, Fate, SignIns!Wait
  <2>2. QED BY <2>1 DEF SignIns!SNext
<1>10. CASE UNCHANGED vars
  BY <1>10, Stutter DEF vars, Fate
<1>11. QED
  BY <1>1, <1>2, <1>3, <1>4, <1>5, <1>7, <1>8, <1>9, <1>10, Stutter
     DEF Next, Step

(* The store keeps the contract of a sign-in: sweeps and callbacks, in any *)
(* interleaving, forget only what is stale and continue only what is not,  *)
(* once.                                                                   *)
THEOREM StoreKeepsSignInContract == Spec => KeepsSignInContract
BY SignInsInit, SignInsStep, Invariance, PTL
   DEF Spec, KeepsSignInContract, SignIns!SSpec
=============================================================================
