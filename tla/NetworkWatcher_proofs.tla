------------------------ MODULE NetworkWatcher_proofs ------------------------
(***************************************************************************)
(* Proofs, for any number of calls and any positive bound of the store, of *)
(* what MCNetworkWatcher checks on a small instance.                       *)
(***************************************************************************)
EXTENDS NetworkWatcher, SequenceTheorems, TLAPS

(* The calls that may still write to a record: those in flight, and those  *)
(* of XMLHttpRequests whose last listeners are to run.                     *)
Awaited ==
  {Latest(c) : c \in {d \in Callers : place[d] \in {"waiting", "reading"}}}
    \union {ending[k].call : k \in DOMAIN ending}

(* What lets a late answer find its own record: the id a caller holds      *)
(* names a record of that caller; it is the record of an awaited call, but *)
(* for the exceptions of AnswersStayApart; and the record of an awaited    *)
(* call has the id its caller holds, unless the call was overtaken.        *)
IdsHaveOwners ==
  \A c \in Callers, i \in DOMAIN items :
    items[i].id = recId[c] => items[i].call[1] = c

IdsAreOwn ==
  \A p \in Awaited, i \in DOMAIN items :
    items[i].id = recId[p[1]] /\ items[i].call # p =>
      p[1] \in Xhrs /\ p \in unrecorded \union overtaken

OwnAreFound ==
  \A p \in Awaited, i \in DOMAIN items :
    items[i].call = p /\ p \notin overtaken => items[i].id = recId[p[1]]

(* The calls of the records were made, by objects that have listeners.     *)
CallsWereMade ==
  /\ \A c \in Callers : current[c] <= sends[c]
  /\ \A i \in DOMAIN items :
       /\ items[i].call[2] <= sends[items[i].call[1]]
       /\ items[i].call[1] \in Xhrs => listeners[items[i].call[1]] > 0

(* A call that fails has an error for a result, and its listeners run only *)
(* once an event was fired.                                                *)
EndingsAreInOrder ==
  \A k \in DOMAIN ending :
    LET e == ending[k] IN
      /\ e.left > 0 => e.event \in {"error", "loadend"}
      /\ e.event \in {"failing", "error"} /\ place[e.call[1]] = "settled"
           => result[e.call[1]] = "error"

FreshFetches ==
  \A f \in Fetches :
    place[f] = "idle" => recId[f] = 0 /\ sends[f] = 0 /\ current[f] = 0

XhrPlaces == \A x \in Xhrs : place[x] # "reading"

RoomForIds == Len(items) < nextId

(* The parts that tell of the records alone, or of awaited calls.          *)
RecordInv ==
  /\ RecordsAreRecent
  /\ RoomForIds
  /\ IdsHaveOwners
  /\ IdsAreOwn
  /\ OwnAreFound
  /\ CallsWereMade
  /\ AnswersStayApart
  /\ ViewIsCurrent

IInv ==
  /\ RecordInv
  /\ EndingsAreInOrder
  /\ FreshFetches
  /\ XhrPlaces
  /\ SettledIsRecorded

Shown == Outcomes \union {"none"}

NewRecord(call) ==
  [id |-> nextId, call |-> call, by |-> NoCall, outcome |-> "none"]

Written(rec, call, r) == [rec EXCEPT !.by = call, !.outcome = r]

(* How far the older records move when one is pushed.                      *)
Shift == Len(items) + 1 - Len(items')

(* push appends the new record and drops at most one, the oldest.          *)
LEMMA PushEffect ==
  ASSUME TypeOK, Len(items) <= Max, NEW call \in Calls, Push(call)
  PROVE  /\ items' \in Seq(Records)
         /\ Len(items') \in 1 .. Max
         /\ Len(items') <= Len(items) + 1
         /\ Shift \in {0, 1}
         /\ items'[Len(items')] = NewRecord(call)
         /\ \A i \in 1 .. Len(items') - 1 :
              /\ i + Shift \in 1 .. Len(items)
              /\ items'[i] = items[i + Shift]
<1> DEFINE s == Append(items, NewRecord(call))
           n == Len(items)
<1>1. NewRecord(call) \in Records
  BY DEF NewRecord, Records, TypeOK
<1>2. n \in Nat /\ items \in Seq(Records) /\ Max \in Nat /\ Max > 0
  BY WatcherAssumption DEF TypeOK
<1>3. /\ s \in Seq(Records)
      /\ Len(s) = n + 1
      /\ s[n + 1] = NewRecord(call)
      /\ \A i \in 1 .. n : s[i] = items[i]
  BY <1>1, <1>2
<1>4. items' = Trimmed(s)
  BY DEF Push, NewRecord
<1> HIDE DEF s
<1>5. CASE n + 1 <= Max
  <2>1. items' = s
    BY <1>2, <1>3, <1>4, <1>5 DEF Trimmed
  <2>2. Shift = 0
    BY <2>1, <1>2, <1>3 DEF Shift
  <2>3. QED BY <2>1, <2>2, <1>2, <1>3, <1>5
<1>6. CASE n = Max
  <2>1. items' = SubSeq(s, 2, n + 1)
    BY <1>2, <1>3, <1>4, <1>6 DEF Trimmed
  <2>2. \A i \in 2 .. n + 1 : s[i] \in Records
    BY <1>2, <1>3, ElementOfSeq
  <2>3. /\ items' \in Seq(Records)
        /\ Len(items') = n
        /\ \A i \in 1 .. n : items'[i] = s[i + 1]
    <3>1. /\ SubSeq(s, 2, n + 1) \in Seq(Records)
          /\ Len(SubSeq(s, 2, n + 1)) =
               IF 2 <= n + 1 THEN (n + 1) - 2 + 1 ELSE 0
          /\ \A i \in 1 .. (n + 1) - 2 + 1 :
               SubSeq(s, 2, n + 1)[i] = s[2 + i - 1]
      <4>1. 2 \in Int /\ n + 1 \in Int
        BY <1>2
      <4>2. QED BY <4>1, <2>2, SubSeqProperties
    <3>2. QED BY <3>1, <2>1, <1>2, <1>6
  <2>4. Shift = 1
    BY <2>3, <1>2 DEF Shift
  <2>5. QED BY <2>3, <2>4, <1>2, <1>3, <1>6
<1>7. QED BY <1>2, <1>5, <1>6

(* update rewrites the record with the id, if there is one, and moves      *)
(* nothing.                                                                *)
LEMMA UpdateEffect ==
  ASSUME TypeOK, NEW id \in Nat, NEW call \in Calls, NEW r \in Shown,
         Update(id, call, r)
  PROVE  /\ items' \in Seq(Records)
         /\ Len(items') = Len(items)
         /\ DOMAIN items' = DOMAIN items
         /\ \A i \in DOMAIN items :
              items'[i] = IF items[i].id = id THEN Written(items[i], call, r)
                                              ELSE items[i]
         /\ nextId' = nextId
<1>1. items \in Seq(Records) /\ DOMAIN items = 1 .. Len(items)
  BY DEF TypeOK
<1>2. CASE \E i \in DOMAIN items : items[i].id = id
  <2> DEFINE u == [i \in DOMAIN items |->
                     IF items[i].id = id THEN Written(items[i], call, r)
                                         ELSE items[i]]
  <2>1. items' = u /\ nextId' = nextId
    BY <1>2 DEF Update, Written
  <2>2. \A i \in 1 .. Len(items) : items[i] \in Records
    BY <1>1, ElementOfSeq
  <2>3. \A i \in 1 .. Len(items) : Written(items[i], call, r) \in Records
    BY <2>2 DEF Written, Records, Shown
  <2>4. u \in [1 .. Len(items) -> Records]
    BY <1>1, <2>2, <2>3
  <2>5. u \in Seq(Records) /\ Len(u) = Len(items)
    BY <2>4, <1>1
  <2>6. QED BY <2>1, <2>5, <1>1
<1>3. CASE ~\E i \in DOMAIN items : items[i].id = id
  BY <1>1, <1>3 DEF Update, store
<1>4. QED BY <1>2, <1>3

(* Ids start at 1, so an update with the id 0 finds nothing.               *)
LEMMA NoRecordZero ==
  ASSUME TypeOK, RecordsAreRecent, RoomForIds
  PROVE  \A i \in DOMAIN items :
           /\ items[i].id \in 1 .. nextId - 1
           /\ items[i] \in Records
<1>1. items \in Seq(Records) /\ DOMAIN items = 1 .. Len(items)
  BY DEF TypeOK
<1>2. \A i \in 1 .. Len(items) : items[i] \in Records
  BY <1>1, ElementOfSeq
<1>3. nextId \in Nat /\ Len(items) \in Nat
  BY <1>1 DEF TypeOK
<1>4. QED BY <1>1, <1>2, <1>3 DEF RecordsAreRecent, RoomForIds

LEMMA InitInv == Init => TypeOK /\ IInv
<1> SUFFICES ASSUME Init PROVE TypeOK /\ IInv
  OBVIOUS
<1>1. /\ items = <<>> /\ items \in Seq(Records) /\ Len(items) = 0
      /\ DOMAIN items = {} /\ view \in Seq(Records)
      /\ ending = <<>> /\ ending \in Seq(Endings) /\ DOMAIN ending = {}
  BY DEF Init
<1>2. TypeOK
  <2>1. /\ place \in [Callers -> Places]
        /\ sends \in [Callers -> Nat]
        /\ current \in [Callers -> Nat]
        /\ recId \in [Callers -> Nat]
        /\ listeners \in [Xhrs -> Nat]
        /\ result \in [Callers -> Outcomes \union {"none"}]
        /\ \A c \in Callers : recId[c] < nextId
    BY DEF Init, Places
  <2>2. /\ nextId \in Nat \ {0}
        /\ tab \in {"off", "rendered", "subscribed"}
        /\ unrecorded \in SUBSET Calls
        /\ overtaken \in SUBSET Calls
    BY DEF Init
  <2>3. capturing \in BOOLEAN /\ missed \in BOOLEAN
    BY Zenon DEF Init
  <2>4. QED BY <1>1, <2>1, <2>2, <2>3, Zenon DEF TypeOK
<1>3. RecordInv
  BY <1>1, WatcherAssumption DEF Init, RecordInv, RecordsAreRecent, RoomForIds,
     IdsHaveOwners, IdsAreOwn, OwnAreFound, CallsWereMade, AnswersStayApart,
     ViewIsCurrent, Callers
<1>4. EndingsAreInOrder /\ FreshFetches /\ XhrPlaces /\ SettledIsRecorded
  BY <1>1 DEF Init, EndingsAreInOrder, FreshFetches, XhrPlaces,
     SettledIsRecorded, Callers
<1>5. QED BY <1>2, <1>3, <1>4 DEF IInv

(* What the types say of callers, calls and the stack.                     *)
LEMMA CallTypes ==
  ASSUME TypeOK
  PROVE  /\ \A c \in Callers : Latest(c) \in Calls /\ Latest(c)[1] = c
         /\ \A k \in DOMAIN ending :
              /\ ending[k] \in Endings
              /\ ending[k].call \in Calls
              /\ ending[k].call[1] \in Xhrs
              /\ ending[k].call \in Awaited
         /\ \A p \in Awaited : p \in Calls /\ p[1] \in Callers
<1>1. \A c \in Callers : Latest(c) \in Calls /\ Latest(c)[1] = c
  BY DEF TypeOK, Latest, Calls
<1>2. \A k \in DOMAIN ending : ending[k] \in Endings
  <2>1. ending \in Seq(Endings) /\ DOMAIN ending = 1 .. Len(ending)
    BY DEF TypeOK
  <2>2. QED BY <2>1, ElementOfSeq
<1>3. \A e \in Endings : e.call \in Calls /\ e.call[1] \in Xhrs
  BY DEF Endings, Calls, Callers
<1>4. \A p \in Awaited : p \in Calls
  BY <1>1, <1>2, <1>3 DEF Awaited
<1>5. QED BY <1>1, <1>2, <1>3, <1>4 DEF Awaited, Calls

(* The top of the stack becomes e, or goes; the rest stays as it was.      *)
LEMMA StackEffect ==
  ASSUME TypeOK, ending # <<>>, NEW e \in Endings, e.call = Top.call,
         Becomes(e)
  PROVE  /\ ending' \in Seq(Endings)
         /\ \A k \in DOMAIN ending' :
              \/ ending'[k] = e
              \/ k \in DOMAIN ending /\ ending'[k] = ending[k]
         /\ \A k \in DOMAIN ending :
              \/ e.event = "loadend" /\ e.left = 0 /\ ending[k].call = Top.call
              \/ k \in DOMAIN ending' /\ ending'[k].call = ending[k].call
<1> DEFINE n == Len(ending)
           below == SubSeq(ending, 1, n - 1)
<1>1. /\ ending \in Seq(Endings) /\ n \in Nat /\ n > 0
      /\ DOMAIN ending = 1 .. n
  BY DEF TypeOK
<1>2. \A k \in 1 .. n : ending[k] \in Endings
  BY <1>1, ElementOfSeq
<1>3. /\ below \in Seq(Endings)
      /\ Len(below) = n - 1
      /\ \A k \in 1 .. n - 1 : below[k] = ending[k]
  <2>1. /\ below \in Seq(Endings)
        /\ Len(below) = IF 1 <= n - 1 THEN (n - 1) - 1 + 1 ELSE 0
        /\ \A k \in 1 .. (n - 1) - 1 + 1 : below[k] = ending[1 + k - 1]
    <3>1. 1 \in Int /\ n - 1 \in Int /\ \A k \in 1 .. n - 1 : ending[k] \in Endings
      BY <1>1, <1>2
    <3>2. QED BY <3>1, SubSeqProperties
  <2>2. QED BY <2>1, <1>1
<1>4. Top = ending[n]
  BY DEF Top
<1> HIDE DEF below
<1>5. CASE e.event = "loadend" /\ e.left = 0
  <2>1. ending' = below
    BY <1>5 DEF Becomes, below
  <2>2. QED BY <2>1, <1>1, <1>3, <1>4, <1>5
<1>6. CASE ~(e.event = "loadend" /\ e.left = 0)
  <2>1. ending' = Append(below, e)
    BY <1>6 DEF Becomes, below
  <2>2. /\ ending' \in Seq(Endings)
        /\ Len(ending') = n
        /\ ending'[n] = e
        /\ \A k \in 1 .. n - 1 : ending'[k] = below[k]
    <3>1. /\ Append(below, e) \in Seq(Endings)
          /\ Len(Append(below, e)) = Len(below) + 1
          /\ \A k \in 1 .. Len(below) : Append(below, e)[k] = below[k]
          /\ Append(below, e)[Len(below) + 1] = e
      BY <1>3, AppendProperties
    <3>2. Len(below) + 1 = n
      BY <1>1, <1>3
    <3>3. QED BY <2>1, <3>1, <3>2, <1>3
  <2>3. DOMAIN ending' = 1 .. n
    BY <2>2, <1>1
  <2>4. \A k \in 1 .. n : k # n => k \in 1 .. n - 1 /\ ending'[k] = ending[k]
    <3> TAKE k \in 1 .. n
    <3>1. k = n \/ k \in 1 .. n - 1
      <4>1. n \in Nat /\ n > 0
        BY <1>1
      <4> HIDE DEF n
      <4>2. QED BY <4>1
    <3>2. ASSUME k \in 1 .. n - 1 PROVE ending'[k] = ending[k]
      BY <3>2, <2>2, <1>3
    <3>3. QED BY <3>1, <3>2
  <2>5. QED BY <2>2, <2>3, <2>4, <1>1, <1>4
<1>7. QED BY <1>5, <1>6

(* A captured send, of a fetch, of an open object, or one that throws.     *)
LEMMA StartKeeps ==
  ASSUME TypeOK, IInv, NEW c \in Callers, Push(<<c, sends[c] + 1>>),
         \/ /\ place[c] \notin {"waiting", "reading"}
            /\ place' = [place EXCEPT ![c] = "waiting"]
            /\ current' = [current EXCEPT ![c] = sends[c] + 1]
         \/ UNCHANGED <<place, current>>,
         c \in Xhrs \/ place'[c] = "waiting",
         sends' = [sends EXCEPT ![c] = @ + 1],
         recId' = [recId EXCEPT ![c] = nextId],
         listeners' \in [Xhrs -> Nat],
         \A x \in Xhrs : listeners'[x] >= listeners[x],
         c \in Xhrs => listeners'[c] > 0,
         overtaken \subseteq overtaken', overtaken' \subseteq Calls,
         \A p \in Awaited : p[1] = c => c \in Xhrs /\ p \in overtaken',
         UNCHANGED <<capturing, result, ending, unrecorded>>
  PROVE  (TypeOK /\ IInv)'
<1> DEFINE call == <<c, sends[c] + 1>>
           n == Len(items')
<1>1. call \in Calls
  BY DEF Calls, TypeOK
<1>2. /\ items' \in Seq(Records)
      /\ n \in 1 .. Max
      /\ n <= Len(items) + 1
      /\ Shift \in {0, 1}
      /\ items'[n] = NewRecord(call)
      /\ \A i \in 1 .. n - 1 :
           /\ i + Shift \in 1 .. Len(items)
           /\ items'[i] = items[i + Shift]
  BY <1>1, PushEffect DEF IInv, RecordInv, RecordsAreRecent
<1>3. /\ DOMAIN items = 1 .. Len(items) /\ Len(items) \in Nat
      /\ DOMAIN items' = 1 .. n /\ n \in Nat
      /\ nextId \in Nat \ {0} /\ nextId' = nextId + 1
      /\ Max \in Nat
  BY <1>2, WatcherAssumption DEF TypeOK, Push
<1>4. /\ view' = IF tab = "subscribed" THEN items' ELSE view
      /\ missed' = (tab = "rendered")
      /\ tab' = tab
  BY DEF Push, Notify
<1>5. \A i \in DOMAIN items :
         items[i].id \in 1 .. nextId - 1 /\ items[i] \in Records
  BY NoRecordZero DEF IInv, RecordInv
<1>6. n = Len(items) + 1 - Shift
  <2>1. Len(items) \in Nat /\ Len(items') \in Nat
    BY <1>3
  <2>2. Shift = Len(items) + 1 - Len(items')
    BY DEF Shift
  <2>3. QED BY <2>1, <2>2
<1>7. /\ NewRecord(call).id = nextId
      /\ NewRecord(call).call = call
      /\ NewRecord(call).by = NoCall
      /\ call[1] = c /\ call[2] = sends[c] + 1
  BY DEF NewRecord
<1> HIDE DEF call, n
<1>8. TypeOK'
  <2>1. /\ place' \in [Callers -> Places]
        /\ current' \in [Callers -> Nat]
        /\ sends' \in [Callers -> Nat]
    <3>1. sends[c] + 1 \in Nat /\ "waiting" \in Places
      BY DEF TypeOK, Places
    <3>2. place' \in [Callers -> Places]
      BY <3>1 DEF TypeOK
    <3>3. current' \in [Callers -> Nat]
      BY <3>1 DEF TypeOK
    <3>4. sends' \in [Callers -> Nat]
      BY <3>1 DEF TypeOK
    <3>5. QED BY <3>2, <3>3, <3>4
  <2>2. recId' \in [Callers -> Nat] /\ \A d \in Callers : recId'[d] < nextId'
    <3>1. recId \in [Callers -> Nat] /\ \A d \in Callers : recId[d] < nextId
      BY DEF TypeOK
    <3>2. recId' \in [Callers -> Nat]
      BY <1>3, <3>1
    <3>3. \A d \in Callers : recId'[d] = nextId \/ recId'[d] = recId[d]
      BY <3>1
    <3>4. QED BY <1>3, <3>1, <3>2, <3>3
  <2>3. view' \in Seq(Records) /\ tab' \in {"off", "rendered", "subscribed"}
    BY <1>2, <1>4 DEF TypeOK
  <2>4. missed' \in BOOLEAN /\ capturing' \in BOOLEAN
    BY <1>4, Zenon DEF TypeOK
  <2>5. result' \in [Callers -> Outcomes \union {"none"}]
        /\ ending' \in Seq(Endings)
        /\ unrecorded' \in SUBSET Calls /\ overtaken' \in SUBSET Calls
    BY Zenon DEF TypeOK
  <2>6. nextId' \in Nat \ {0}
    BY <1>3
  <2>7. QED BY <2>1, <2>2, <2>3, <2>4, <2>5, <2>6, <1>2, Zenon DEF TypeOK
(* The new record, or an older one that moved.                             *)
<1>9. \A i \in DOMAIN items' :
        \/ i = n /\ items'[i].id = nextId /\ items'[i].call = call
           /\ items'[i].by = NoCall
        \/ /\ i # n /\ items'[i].id < nextId
           /\ \E j \in DOMAIN items : items'[i] = items[j]
  <2> TAKE i \in DOMAIN items'
  <2>1. CASE i = n
    BY <2>1, <1>2, <1>7
  <2>2. CASE i # n
    <3>1. i + Shift \in DOMAIN items /\ items'[i] = items[i + Shift]
      BY <2>2, <1>2, <1>3
    <3>2. items[i + Shift].id < nextId
      BY <3>1, <1>3, <1>5
    <3>3. QED BY <3>1, <3>2, <2>2
  <2>3. QED BY <2>1, <2>2
<1>10. \A d \in Callers : d # c =>
         /\ recId'[d] = recId[d] /\ recId[d] < nextId
         /\ Latest(d)' = Latest(d) /\ place'[d] = place[d]
         /\ sends'[d] = sends[d] /\ current'[d] = current[d]
  BY DEF TypeOK, Latest
<1>11. /\ recId'[c] = nextId /\ sends'[c] = sends[c] + 1
       /\ sends[c] \in Nat /\ current[c] \in Nat /\ current[c] <= sends[c]
       /\ \/ /\ Latest(c)' = call /\ current'[c] = sends[c] + 1
             /\ place'[c] = "waiting"
          \/ /\ Latest(c)' = Latest(c) /\ place'[c] = place[c]
             /\ current'[c] = current[c]
  BY DEF TypeOK, Latest, IInv, RecordInv, CallsWereMade, call
<1>12. Latest(c) # call
  BY <1>11, <1>7 DEF Latest
<1>13. \A j \in DOMAIN items : items[j].call # call
  BY <1>7, <1>11 DEF IInv, RecordInv, CallsWereMade
<1>14. /\ \A p \in Awaited' : p = call \/ p \in Awaited
       /\ \A p \in Awaited : p[1] \in Callers
  <2>1. \A d \in Callers : place'[d] \in {"waiting", "reading"} =>
           \/ Latest(d)' = call
           \/ Latest(d)' = Latest(d) /\ place[d] \in {"waiting", "reading"}
    BY <1>10, <1>11
  <2>2. QED BY <2>1, CallTypes DEF Awaited
<1>15. RecordsAreRecent'
  <2>1. \A i \in 1 .. n - 1 :
           items'[i].id = nextId' - n + i - 1
    <3> TAKE i \in 1 .. n - 1
    <3>1. i + Shift \in DOMAIN items /\ items'[i] = items[i + Shift]
      BY <1>2, <1>3
    <3>2. items[i + Shift].id = nextId - Len(items) + (i + Shift) - 1
      BY <3>1 DEF IInv, RecordInv, RecordsAreRecent
    <3>3. i \in Int /\ n \in Int /\ nextId \in Int /\ Len(items) \in Int
      BY <1>3
    <3>4. Shift \in Int /\ Shift = Len(items) + 1 - n
      BY <3>3, <1>2, <1>6
    <3>5. nextId - Len(items) + (i + Shift) - 1 = nextId' - n + i - 1
      BY <3>3, <3>4, <1>3
    <3>6. QED BY <3>1, <3>2, <3>5
  <2>2. items'[n].id = nextId' - n + n - 1
    BY <1>2, <1>3, <1>7
  <2>3. Len(items') = n /\ n <= Max
    BY <1>2, <1>3 DEF n
  <2>4. \A i \in DOMAIN items' :
           items'[i].id = nextId' - Len(items') + i - 1
    BY <2>1, <2>2, <2>3, <1>3
  <2>5. QED BY <2>3, <2>4 DEF RecordsAreRecent
<1>16. RoomForIds'
  BY <1>2, <1>3 DEF IInv, RecordInv, RoomForIds, n
<1>17. IdsHaveOwners'
  BY <1>9, <1>10, <1>11, <1>7, <1>3 DEF IInv, RecordInv, IdsHaveOwners
<1>18. IdsAreOwn'
  <2> SUFFICES ASSUME NEW p \in Awaited', NEW i \in DOMAIN items',
                      items'[i].id = recId'[p[1]], items'[i].call # p
               PROVE  p[1] \in Xhrs /\ p \in unrecorded \union overtaken'
    BY DEF IdsAreOwn
  <2>1. CASE p = call
    BY <2>1, <1>9, <1>11, <1>7, <1>3
  <2>2. CASE p \in Awaited /\ p[1] = c
    BY <2>2
  <2>3. CASE p \in Awaited /\ p[1] # c
    <3>1. items'[i].id = recId[p[1]] /\ recId[p[1]] < nextId
      BY <2>3, <1>10, <1>14
    <3>2. PICK j \in DOMAIN items : items'[i] = items[j]
      BY <3>1, <1>9, <1>3 DEF TypeOK
    <3>3. QED BY <2>3, <3>1, <3>2 DEF IInv, RecordInv, IdsAreOwn
  <2>4. QED BY <2>1, <2>2, <2>3, <1>14
<1>19. OwnAreFound'
  <2> SUFFICES ASSUME NEW p \in Awaited', NEW i \in DOMAIN items',
                      items'[i].call = p, p \notin overtaken'
               PROVE  items'[i].id = recId'[p[1]]
    BY DEF OwnAreFound
  <2>1. CASE p = call
    BY <2>1, <1>9, <1>11, <1>7, <1>13
  <2>2. CASE p \in Awaited /\ p[1] # c
    <3>1. PICK j \in DOMAIN items : items'[i] = items[j]
      BY <2>2, <1>9, <1>7
    <3>2. QED BY <2>2, <3>1, <1>10, <1>14 DEF IInv, RecordInv, OwnAreFound
  <2>3. QED BY <2>1, <2>2, <1>14
<1>20. CallsWereMade'
  <2>1. \A d \in Callers : current'[d] <= sends'[d]
    BY <1>10, <1>11 DEF IInv, RecordInv, CallsWereMade
  <2> SUFFICES ASSUME NEW i \in DOMAIN items'
               PROVE  /\ items'[i].call[2] <= sends'[items'[i].call[1]]
                      /\ items'[i].call[1] \in Xhrs =>
                           listeners'[items'[i].call[1]] > 0
    BY <2>1 DEF CallsWereMade
  <2>2. CASE i = n
    BY <2>2, <1>9, <1>7, <1>11
  <2>3. CASE i # n
    <3>1. PICK j \in DOMAIN items : items'[i] = items[j]
      BY <2>3, <1>9
    <3>2. items[j].call[1] \in Callers /\ items[j].call[2] \in Nat
      BY <1>5 DEF Records, Calls
    <3>3. /\ items[j].call[2] <= sends[items[j].call[1]]
          /\ items[j].call[1] \in Xhrs => listeners[items[j].call[1]] > 0
      BY DEF IInv, RecordInv, CallsWereMade
    <3>4. items[j].call[2] <= sends'[items[j].call[1]]
      BY <3>2, <3>3, <1>10, <1>11
    <3>5. items[j].call[1] \in Xhrs => listeners'[items[j].call[1]] > 0
      <4>1. \A x \in Xhrs : listeners[x] > 0 => listeners'[x] > 0
        BY DEF TypeOK
      <4>2. QED BY <3>3, <4>1, Zenon
    <3>6. QED BY <3>1, <3>4, <3>5
  <2>4. QED BY <2>2, <2>3
<1>21. AnswersStayApart'
  <2> SUFFICES ASSUME NEW i \in DOMAIN items',
                      items'[i].by \notin {NoCall, items'[i].call}
               PROVE  /\ items'[i].by[1] = items'[i].call[1]
                      /\ items'[i].by[1] \in Xhrs
                      /\ items'[i].by \in unrecorded \union overtaken'
    BY DEF AnswersStayApart
  <2>1. PICK j \in DOMAIN items : items'[i] = items[j]
    BY <1>9
  <2>2. QED BY <2>1 DEF IInv, RecordInv, AnswersStayApart
<1>22. ViewIsCurrent'
  BY <1>4 DEF IInv, RecordInv, ViewIsCurrent, TypeOK
<1>23. EndingsAreInOrder'
  <2> SUFFICES ASSUME NEW k \in DOMAIN ending,
                      ending[k].event \in {"failing", "error"},
                      place'[ending[k].call[1]] = "settled"
               PROVE  result[ending[k].call[1]] = "error"
    BY DEF IInv, EndingsAreInOrder
  <2>1. place[ending[k].call[1]] = "settled"
    BY <1>10, <1>11, CallTypes DEF Callers
  <2>2. QED BY <2>1 DEF IInv, EndingsAreInOrder
<1>24. FreshFetches'
  <2> SUFFICES ASSUME NEW f \in Fetches, place'[f] = "idle"
               PROVE  recId'[f] = 0 /\ sends'[f] = 0 /\ current'[f] = 0
    BY DEF FreshFetches
  <2>1. f # c
    BY WatcherAssumption
  <2>2. QED BY <2>1, <1>10 DEF IInv, FreshFetches, Callers
<1>25. XhrPlaces'
  BY <1>10, <1>11 DEF IInv, XhrPlaces, Callers
<1>26. SettledIsRecorded'
  <2> SUFFICES ASSUME NEW d \in Callers, NEW i \in DOMAIN items',
                      items'[i].call = Latest(d)', place'[d] = "settled",
                      Quiet(d)', Latest(d)' \notin overtaken'
               PROVE  items'[i].outcome = result[d]
    BY DEF SettledIsRecorded
  <2>1. Latest(d)' = Latest(d) /\ place[d] = "settled"
    BY <1>10, <1>11
  <2>2. Latest(d) # call
    BY <1>12, <1>7, CallTypes
  <2>3. PICK j \in DOMAIN items : items'[i] = items[j]
    BY <2>1, <2>2, <1>9
  <2>4. Quiet(d)
    BY <2>1 DEF Quiet
  <2>5. QED BY <2>1, <2>3, <2>4 DEF IInv, SettledIsRecorded
<1>27. RecordInv'
  BY <1>15, <1>16, <1>17, <1>18, <1>19, <1>20, <1>21, <1>22 DEF RecordInv
<1>28. QED
  BY <1>8, <1>27, <1>23, <1>24, <1>25, <1>26 DEF IInv

(* A step after which no more calls are awaited, that tells the store of   *)
(* an awaited one or of none.                                              *)
LEMMA RecordsKept ==
  ASSUME TypeOK, IInv, Awaited' \subseteq Awaited,
         \/ UNCHANGED <<store, ui>>
         \/ \E p \in Awaited, r \in Shown : Update(recId[p[1]], p, r),
         UNCHANGED <<sends, current, recId, listeners, history>>
  PROVE  /\ RecordInv'
         /\ items' \in Seq(Records) /\ nextId' = nextId
         /\ view' \in Seq(Records) /\ tab' = tab /\ missed' \in BOOLEAN
<1> DEFINE Kept == /\ DOMAIN items' = DOMAIN items
                   /\ Len(items') = Len(items)
                   /\ \A i \in DOMAIN items :
                        /\ items'[i].id = items[i].id
                        /\ items'[i].call = items[i].call
                        /\ \/ items'[i].by = items[i].by
                           \/ /\ items'[i].by \in Awaited
                              /\ items'[i].id = recId[items'[i].by[1]]
<1>1. /\ items' \in Seq(Records) /\ nextId' = nextId
      /\ view' \in Seq(Records) /\ tab' = tab /\ missed' \in BOOLEAN
      /\ Kept /\ ViewIsCurrent'
  <2>1. CASE UNCHANGED <<store, ui>>
    BY <2>1 DEF store, ui, TypeOK, IInv, RecordInv, ViewIsCurrent
  <2>2. CASE \E p \in Awaited, r \in Shown : Update(recId[p[1]], p, r)
    <3>1. PICK p \in Awaited, r \in Shown : Update(recId[p[1]], p, r)
      BY <2>2
    <3>2. p \in Calls /\ recId[p[1]] \in Nat
      BY CallTypes DEF TypeOK
    <3>3. /\ items' \in Seq(Records)
          /\ Len(items') = Len(items)
          /\ DOMAIN items' = DOMAIN items
          /\ \A i \in DOMAIN items :
               items'[i] = IF items[i].id = recId[p[1]]
                           THEN Written(items[i], p, r) ELSE items[i]
          /\ nextId' = nextId
      BY <3>1, <3>2, UpdateEffect
    <3>4. \A i \in DOMAIN items : items[i] \in Records
      BY NoRecordZero DEF IInv, RecordInv
    <3>5. Kept
      BY <3>3, <3>4 DEF Written, Records
    <3>6. \/ /\ view' = IF tab = "subscribed" THEN items' ELSE view
             /\ missed' = (tab = "rendered")
             /\ tab' = tab
          \/ UNCHANGED <<items, ui>>
      BY <3>1 DEF Update, Notify, store
    <3>7. view' \in Seq(Records) /\ tab' = tab
      BY <3>3, <3>6 DEF TypeOK, ui
    <3>8. missed' \in BOOLEAN
      BY <3>6, Zenon DEF TypeOK, ui
    <3>9. ViewIsCurrent'
      BY <3>6 DEF IInv, RecordInv, ViewIsCurrent, TypeOK, ui
    <3>10. QED BY <3>3, <3>5, <3>7, <3>8, <3>9
  <2>3. QED BY <2>1, <2>2
<1> HIDE DEF Kept
<1>2. RecordsAreRecent' /\ RoomForIds'
  BY <1>1 DEF Kept, IInv, RecordInv, RecordsAreRecent, RoomForIds
<1>3. IdsHaveOwners'
  BY <1>1 DEF Kept, IInv, RecordInv, IdsHaveOwners
<1>4. IdsAreOwn'
  BY <1>1 DEF Kept, IInv, RecordInv, IdsAreOwn, history
<1>5. OwnAreFound'
  BY <1>1 DEF Kept, IInv, RecordInv, OwnAreFound, history
<1>6. CallsWereMade'
  BY <1>1 DEF Kept, IInv, RecordInv, CallsWereMade
<1>7. AnswersStayApart'
  <2> SUFFICES ASSUME NEW i \in DOMAIN items,
                      items'[i].by \notin {NoCall, items'[i].call}
               PROVE  /\ items'[i].by[1] = items'[i].call[1]
                      /\ items'[i].by[1] \in Xhrs
                      /\ items'[i].by \in unrecorded \union overtaken
    BY <1>1 DEF Kept, AnswersStayApart, history
  <2>1. CASE items'[i].by = items[i].by
    BY <2>1, <1>1 DEF Kept, IInv, RecordInv, AnswersStayApart
  <2>2. CASE items'[i].by # items[i].by
    <3> DEFINE p == items'[i].by
    <3>1. /\ p \in Awaited /\ items[i].id = recId[p[1]]
          /\ items'[i].call = items[i].call
      BY <2>2, <1>1 DEF Kept
    <3>2. p[1] \in Callers
      BY <3>1, CallTypes
    <3>3. items[i].call[1] = p[1]
      BY <3>1, <3>2 DEF IInv, RecordInv, IdsHaveOwners
    <3>4. p[1] \in Xhrs /\ p \in unrecorded \union overtaken
      BY <3>1 DEF IInv, RecordInv, IdsAreOwn
    <3>5. QED BY <3>1, <3>3, <3>4
  <2>3. QED BY <2>1, <2>2
<1>8. RecordInv'
  BY <1>1, <1>2, <1>3, <1>4, <1>5, <1>6, <1>7 DEF RecordInv
<1>9. QED BY <1>1, <1>8

(* A send while the capture is paused.                                     *)
LEMMA PassedKeeps ==
  ASSUME TypeOK, IInv, NEW c \in Callers,
         c \in Fetches => place[c] = "idle",
         place' = [place EXCEPT ![c] = "waiting"],
         sends' = [sends EXCEPT ![c] = @ + 1],
         current' = [current EXCEPT ![c] = sends[c] + 1],
         unrecorded' = unrecorded \union {<<c, sends[c] + 1>>},
         UNCHANGED <<store, capturing, recId, result, xhrs, ui, overtaken>>
  PROVE  (TypeOK /\ IInv)'
<1> DEFINE call == <<c, sends[c] + 1>>
<1>1. /\ call \in Calls /\ Latest(c)' = call
      /\ call[1] = c /\ call[2] = sends[c] + 1
      /\ sends[c] \in Nat /\ sends'[c] = sends[c] + 1
      /\ current'[c] = sends[c] + 1 /\ place'[c] = "waiting"
  BY DEF TypeOK, Calls, Latest
<1>2. \A d \in Callers : d # c =>
         /\ Latest(d)' = Latest(d) /\ place'[d] = place[d]
         /\ sends'[d] = sends[d] /\ current'[d] = current[d]
  BY DEF TypeOK, Latest
<1> HIDE DEF call
<1>3. TypeOK'
  <2>1. /\ place' \in [Callers -> Places]
        /\ sends' \in [Callers -> Nat]
        /\ current' \in [Callers -> Nat]
    <3>1. sends[c] + 1 \in Nat /\ "waiting" \in Places
      BY <1>1 DEF Places
    <3>2. QED BY <3>1 DEF TypeOK
  <2>2. unrecorded' \in SUBSET Calls
    BY <1>1 DEF TypeOK, call
  <2>3. QED BY <2>1, <2>2, Zenon DEF TypeOK, store, ui, xhrs
<1>4. \A i \in DOMAIN items :
         /\ items[i] \in Records /\ items[i].id # 0
         /\ items[i].call[1] \in Callers /\ items[i].call[2] \in Nat
         /\ items[i].call # call
  <2>1. \A i \in DOMAIN items : items[i] \in Records /\ items[i].id # 0
    BY NoRecordZero DEF IInv, RecordInv
  <2>2. \A i \in DOMAIN items :
          items[i].call[1] \in Callers /\ items[i].call[2] \in Nat
    BY <2>1 DEF Records, Calls
  <2>3. \A i \in DOMAIN items :
          items[i].call[2] <= sends[items[i].call[1]]
    BY DEF IInv, RecordInv, CallsWereMade
  <2>4. QED BY <2>1, <2>2, <2>3, <1>1
<1>5. \A p \in Awaited' : p = call \/ p \in Awaited
  BY <1>1, <1>2 DEF Awaited, xhrs
<1>6. /\ items' = items /\ recId' = recId /\ listeners' = listeners
      /\ ending' = ending /\ overtaken' = overtaken /\ result' = result
  BY DEF store, xhrs
<1>7. IdsAreOwn'
  <2> SUFFICES ASSUME NEW p \in Awaited', NEW i \in DOMAIN items,
                      items[i].id = recId[p[1]], items[i].call # p
               PROVE  p[1] \in Xhrs /\ p \in unrecorded' \union overtaken
    BY <1>6 DEF IdsAreOwn
  <2>1. CASE p = call
    <3>1. c \notin Fetches
      BY <2>1, <1>1, <1>4 DEF IInv, FreshFetches
    <3>2. QED BY <2>1, <3>1, <1>1 DEF Callers, call
  <2>2. CASE p \in Awaited
    BY <2>2 DEF IInv, RecordInv, IdsAreOwn
  <2>3. QED BY <2>1, <2>2, <1>5
<1>8. OwnAreFound'
  BY <1>4, <1>5, <1>6 DEF IInv, RecordInv, OwnAreFound
<1>9. CallsWereMade'
  <2>1. \A d \in Callers : current'[d] <= sends'[d]
    BY <1>1, <1>2 DEF IInv, RecordInv, CallsWereMade
  <2>2. \A i \in DOMAIN items :
          items[i].call[2] <= sends'[items[i].call[1]]
    BY <1>1, <1>2, <1>4 DEF IInv, RecordInv, CallsWereMade
  <2>3. QED BY <2>1, <2>2, <1>6 DEF IInv, RecordInv, CallsWereMade
<1>10. RecordInv'
  <2>1. RecordsAreRecent' /\ RoomForIds' /\ IdsHaveOwners' /\ ViewIsCurrent'
    BY DEF IInv, RecordInv, RecordsAreRecent, RoomForIds, IdsHaveOwners,
       ViewIsCurrent, store, ui
  <2>2. AnswersStayApart'
    BY <1>6 DEF IInv, RecordInv, AnswersStayApart
  <2>3. QED BY <2>1, <2>2, <1>7, <1>8, <1>9 DEF RecordInv
<1>11. EndingsAreInOrder'
  <2> SUFFICES ASSUME NEW k \in DOMAIN ending,
                      ending[k].event \in {"failing", "error"},
                      place'[ending[k].call[1]] = "settled"
               PROVE  result[ending[k].call[1]] = "error"
    BY <1>6 DEF IInv, EndingsAreInOrder
  <2>1. place[ending[k].call[1]] = "settled"
    BY <1>1, <1>2, CallTypes DEF Callers
  <2>2. QED BY <2>1 DEF IInv, EndingsAreInOrder
<1>12. FreshFetches' /\ XhrPlaces'
  BY <1>1, <1>2, <1>6 DEF IInv, FreshFetches, XhrPlaces, Callers
<1>13. SettledIsRecorded'
  <2> SUFFICES ASSUME NEW d \in Callers, NEW i \in DOMAIN items,
                      items[i].call = Latest(d)', place'[d] = "settled",
                      Quiet(d)', Latest(d)' \notin overtaken
               PROVE  items[i].outcome = result[d]
    BY <1>6 DEF SettledIsRecorded
  <2>1. d # c /\ Latest(d)' = Latest(d) /\ place[d] = "settled"
    BY <1>1, <1>2
  <2>2. Quiet(d)
    BY <2>1, <1>6 DEF Quiet
  <2>3. QED BY <2>1, <2>2 DEF IInv, SettledIsRecorded
<1>14. QED BY <1>3, <1>10, <1>11, <1>12, <1>13 DEF IInv

(* The answer of a fetch, recorded or, with the id 0, not.                 *)
LEMMA FetchSettles ==
  ASSUME TypeOK, IInv, NEW f \in Fetches, NEW r \in Outcomes,
         place[f] \in {"waiting", "reading"}, Settles(f, r),
         \/ recId[f] = 0 /\ UNCHANGED <<store, ui>>
         \/ Update(recId[f], Latest(f), r),
         UNCHANGED <<capturing, sends, current, recId, xhrs, history>>
  PROVE  (TypeOK /\ IInv)'
<1>1. f \in Callers /\ f \notin Xhrs
  BY WatcherAssumption DEF Callers
<1>2. /\ place'[f] = "settled" /\ result'[f] = r
      /\ \A c \in Callers : c # f => place'[c] = place[c] /\ result'[c] = result[c]
      /\ place' \in [Callers -> Places]
      /\ result' \in [Callers -> Outcomes \union {"none"}]
  BY <1>1 DEF Settles, TypeOK, Places
<1>3. /\ \A c \in Callers : Latest(c)' = Latest(c)
      /\ ending' = ending /\ overtaken' = overtaken /\ recId' = recId
  BY DEF Latest, xhrs, history
<1>4. Awaited' \subseteq Awaited
  BY <1>2, <1>3 DEF Awaited
<1>5. Latest(f) \in Awaited /\ Latest(f)[1] = f
  BY <1>1, CallTypes DEF Awaited
<1>6. \/ UNCHANGED <<store, ui>>
      \/ \E p \in Awaited, q \in Shown : Update(recId[p[1]], p, q)
  BY <1>5 DEF Shown
<1>7. /\ RecordInv'
      /\ items' \in Seq(Records) /\ nextId' = nextId
      /\ view' \in Seq(Records) /\ tab' = tab /\ missed' \in BOOLEAN
  BY <1>4, <1>6, RecordsKept DEF xhrs
<1>8. TypeOK'
  BY <1>2, <1>7, Zenon DEF TypeOK, xhrs, history
<1>9. EndingsAreInOrder'
  BY <1>1, <1>2, <1>3, CallTypes DEF IInv, EndingsAreInOrder, Callers
<1>10. FreshFetches' /\ XhrPlaces'
  BY <1>1, <1>2 DEF IInv, FreshFetches, XhrPlaces, Callers
<1>11. SettledIsRecorded'
  <2> SUFFICES ASSUME NEW c \in Callers, NEW i \in DOMAIN items',
                      items'[i].call = Latest(c), place'[c] = "settled",
                      Quiet(c)', Latest(c) \notin overtaken
               PROVE  items'[i].outcome = result'[c]
    BY <1>3 DEF SettledIsRecorded
  <2>1. \A j \in DOMAIN items : items[j] \in Records /\ items[j].id # 0
    BY NoRecordZero DEF IInv, RecordInv
  <2>2. /\ DOMAIN items' = DOMAIN items
        /\ items'[i].call = items[i].call
        /\ items'[i] = items[i] \/ items[i].id = recId[f]
        /\ items[i].id = recId[f] => items'[i].outcome = r
    <3>1. CASE recId[f] = 0 /\ UNCHANGED <<store, ui>>
      BY <3>1, <2>1 DEF store
    <3>2. CASE Update(recId[f], Latest(f), r)
      <4>1. Latest(f) \in Calls /\ recId[f] \in Nat
        BY <1>1, CallTypes DEF TypeOK
      <4>2. /\ DOMAIN items' = DOMAIN items
            /\ \A j \in DOMAIN items :
                 items'[j] = IF items[j].id = recId[f]
                             THEN Written(items[j], Latest(f), r) ELSE items[j]
        BY <3>2, <4>1, UpdateEffect DEF Shown
      <4>3. QED BY <4>2, <2>1 DEF Written, Records
    <3>3. QED BY <3>1, <3>2
  <2>3. CASE c = f
    <3>1. items[i].id = recId[f]
      BY <2>2, <2>3, <1>5 DEF IInv, RecordInv, OwnAreFound
    <3>2. QED BY <3>1, <2>2, <2>3, <1>2
  <2>4. CASE c # f
    <3>1. items[i].id # recId[f]
      <4>1. items[i].call[1] = c
        BY <2>2, CallTypes
      <4>2. QED BY <4>1, <2>2, <2>4, <1>1 DEF IInv, RecordInv, IdsHaveOwners
    <3>2. place[c] = "settled" /\ result'[c] = result[c] /\ Quiet(c)
      BY <2>4, <1>2, <1>3 DEF Quiet
    <3>3. QED BY <3>1, <3>2, <2>2 DEF IInv, SettledIsRecorded
  <2>5. QED BY <2>3, <2>4
<1>12. QED BY <1>7, <1>8, <1>9, <1>10, <1>11 DEF IInv

(* The headers of a captured fetch, or the opening of an XMLHttpRequest.   *)
LEMMA PlaceKeeps ==
  ASSUME TypeOK, IInv, NEW c \in Callers,
         \/ c \in Xhrs /\ place' = [place EXCEPT ![c] = "opened"]
         \/ /\ c \in Fetches /\ place[c] = "waiting"
            /\ place' = [place EXCEPT ![c] = "reading"],
         UNCHANGED <<store, capturing, sends, current, recId, result, xhrs, ui,
                     history>>
  PROVE  (TypeOK /\ IInv)'
<1>1. /\ place' \in [Callers -> Places]
      /\ \A d \in Callers : d # c => place'[d] = place[d]
      /\ place'[c] \in {"opened", "reading"}
      /\ place'[c] = "reading" => c \in Fetches /\ place[c] = "waiting"
  BY DEF TypeOK, Places
<1>2. /\ \A d \in Callers : Latest(d)' = Latest(d)
      /\ ending' = ending /\ overtaken' = overtaken /\ recId' = recId
      /\ items' = items /\ result' = result
  BY DEF Latest, xhrs, history, store
<1>3. Awaited' \subseteq Awaited
  BY <1>1, <1>2 DEF Awaited
<1>4. RecordInv'
  BY <1>3, RecordsKept DEF xhrs
<1>5. TypeOK'
  BY <1>1, Zenon DEF TypeOK, xhrs, history, store, ui
<1>6. EndingsAreInOrder'
  <2> SUFFICES ASSUME NEW k \in DOMAIN ending,
                      ending[k].event \in {"failing", "error"},
                      place'[ending[k].call[1]] = "settled"
               PROVE  result[ending[k].call[1]] = "error"
    BY <1>2 DEF IInv, EndingsAreInOrder
  <2>1. place[ending[k].call[1]] = "settled"
    BY <1>1, CallTypes DEF Callers
  <2>2. QED BY <2>1 DEF IInv, EndingsAreInOrder
<1>7. FreshFetches' /\ XhrPlaces'
  <2>1. FreshFetches'
    BY <1>1 DEF IInv, FreshFetches, Callers
  <2>2. XhrPlaces'
    BY <1>1, WatcherAssumption DEF IInv, XhrPlaces, Callers
  <2>3. QED BY <2>1, <2>2
<1>8. SettledIsRecorded'
  <2> SUFFICES ASSUME NEW d \in Callers, NEW i \in DOMAIN items,
                      items[i].call = Latest(d), place'[d] = "settled",
                      Quiet(d)', Latest(d) \notin overtaken
               PROVE  items[i].outcome = result[d]
    BY <1>2 DEF SettledIsRecorded
  <2>1. place[d] = "settled" /\ Quiet(d)
    BY <1>1, <1>2 DEF Quiet
  <2>2. QED BY <2>1 DEF IInv, SettledIsRecorded
<1>9. QED BY <1>4, <1>5, <1>6, <1>7, <1>8 DEF IInv

(* The call of an XMLHttpRequest ends, and its events are put on the stack. *)
LEMMA ToldKeeps ==
  ASSUME TypeOK, IInv, NEW x \in Xhrs, NEW end \in Ends, XhrTold(x, end)
  PROVE  (TypeOK /\ IInv)'
<1> DEFINE e == [call |-> Latest(x), event |-> end, left |-> 0]
           r == IF end = "load" THEN "ok" ELSE "error"
<1>1. x \in Callers /\ x \notin Fetches
  BY WatcherAssumption DEF Callers
<1>2. /\ place'[x] = "settled" /\ result'[x] = r
      /\ \A c \in Callers : c # x => place'[c] = place[c] /\ result'[c] = result[c]
      /\ place' \in [Callers -> Places]
      /\ result' \in [Callers -> Outcomes \union {"none"}]
  BY <1>1 DEF XhrTold, Settles, TypeOK, Places, Outcomes
<1>3. /\ \A c \in Callers : Latest(c)' = Latest(c)
      /\ UNCHANGED <<store, capturing, sends, current, recId, listeners, ui,
                     history>>
      /\ items' = items /\ overtaken' = overtaken /\ recId' = recId
  BY DEF XhrTold, Latest, store, history
<1>4. e \in Endings /\ e.call = Latest(x) /\ e.event = end /\ e.left = 0
  BY DEF Endings, Latest, TypeOK, Callers
<1> HIDE DEF e
<1>5. /\ ending' \in Seq(Endings)
      /\ Len(ending') = Len(ending) + 1
      /\ \A k \in 1 .. Len(ending) : ending'[k] = ending[k]
      /\ ending'[Len(ending) + 1] = e
      /\ DOMAIN ending = 1 .. Len(ending) /\ Len(ending) \in Nat
      /\ DOMAIN ending' = 1 .. Len(ending) + 1
  <2>1. ending \in Seq(Endings) /\ ending' = Append(ending, e)
    BY DEF XhrTold, TypeOK, e
  <2>2. QED BY <2>1, <1>4, AppendProperties
<1>6. \A k \in DOMAIN ending' :
        \/ ending'[k] = e
        \/ /\ k \in DOMAIN ending /\ ending'[k] = ending[k]
           /\ end = "abort"
  <2> TAKE k \in DOMAIN ending'
  <2>1. CASE k = Len(ending) + 1
    BY <2>1, <1>5
  <2>2. CASE k # Len(ending) + 1
    <3>1. k \in 1 .. Len(ending)
      BY <2>2, <1>5
    <3>2. ending # <<>>
      BY <3>1, <1>5
    <3>3. QED BY <3>1, <3>2, <1>5 DEF XhrTold
  <2>3. QED BY <2>1, <2>2
<1>7. Latest(x) \in Awaited
  BY <1>1 DEF XhrTold, Awaited
<1>8. Awaited' \subseteq Awaited
  BY <1>2, <1>3, <1>4, <1>6, <1>7 DEF Awaited
<1>9. RecordInv'
  BY <1>3, <1>8, RecordsKept
<1>10. TypeOK'
  BY <1>2, <1>3, <1>5, Zenon DEF TypeOK, store, ui, history
<1>11. EndingsAreInOrder'
  <2> SUFFICES ASSUME NEW k \in DOMAIN ending'
               PROVE  LET d == ending'[k] IN
                        /\ d.left > 0 => d.event \in {"error", "loadend"}
                        /\ /\ d.event \in {"failing", "error"}
                           /\ place'[d.call[1]] = "settled"
                           => result'[d.call[1]] = "error"
    BY DEF EndingsAreInOrder
  <2>1. CASE ending'[k] = e
    <3>1. e.call[1] = x
      BY <1>4 DEF Latest
    <3>2. e.event = "failing" => result'[x] = "error"
      BY <1>2, <1>4
    <3>3. e.event # "error"
      BY <1>4 DEF Ends
    <3>4. QED BY <2>1, <3>1, <3>2, <3>3, <1>4
  <2>2. CASE k \in DOMAIN ending /\ ending'[k] = ending[k] /\ end = "abort"
    <3>1. ending[k].call[1] \in Callers
      BY <2>2, CallTypes DEF Callers
    <3>2. result'[x] = "error"
      BY <2>2, <1>2
    <3>3. QED BY <2>2, <3>1, <3>2, <1>2 DEF IInv, EndingsAreInOrder
  <2>3. QED BY <2>1, <2>2, <1>6
<1>12. FreshFetches' /\ XhrPlaces'
  BY <1>1, <1>2, <1>3 DEF IInv, FreshFetches, XhrPlaces, Callers
<1>13. SettledIsRecorded'
  <2> SUFFICES ASSUME NEW d \in Callers, NEW i \in DOMAIN items,
                      items[i].call = Latest(d), place'[d] = "settled",
                      Quiet(d)', Latest(d) \notin overtaken
               PROVE  items[i].outcome = result'[d]
    BY <1>3 DEF SettledIsRecorded
  <2>1. d # x
    <3>1. Len(ending) + 1 \in DOMAIN ending' /\ ending'[Len(ending) + 1] = e
      BY <1>5
    <3>2. QED BY <3>1, <1>3, <1>4 DEF Quiet
  <2>2. Quiet(d)
    <3>1. \A k \in DOMAIN ending :
             k \in DOMAIN ending' /\ ending'[k] = ending[k]
      BY <1>5
    <3>2. QED BY <3>1, <1>3 DEF Quiet
  <2>3. QED BY <2>1, <2>2, <1>2 DEF IInv, SettledIsRecorded
<1>14. QED BY <1>9, <1>10, <1>11, <1>12, <1>13 DEF IInv

(* What both steps of the stack leave in place: e takes the place of the   *)
(* top, with the same call, for the next event or one listener less.       *)
LEMMA StackKeeps ==
  ASSUME TypeOK, IInv, ending # <<>>, NEW e \in Endings, e.call = Top.call,
         e.left > 0 => e.event \in {"error", "loadend"},
         e.event \in {"failing", "error"} =>
           Top.event \in {"failing", "error"},
         Becomes(e),
         \/ UNCHANGED <<store, ui>>
         \/ \E r \in Shown : Update(recId[Top.call[1]], Top.call, r),
         UNCHANGED <<capturing, calls, listeners, history>>
  PROVE  /\ TypeOK' /\ RecordInv' /\ EndingsAreInOrder'
         /\ FreshFetches' /\ XhrPlaces'
         /\ \A c \in Callers : Latest(c)' = Latest(c)
         /\ \A c \in Callers :
              \/ Quiet(c)' => Quiet(c)
              \/ e.event = "loadend" /\ e.left = 0 /\ Latest(c) = Top.call
<1>1. /\ ending' \in Seq(Endings)
      /\ \A k \in DOMAIN ending' :
           \/ ending'[k] = e
           \/ k \in DOMAIN ending /\ ending'[k] = ending[k]
      /\ \A k \in DOMAIN ending :
           \/ e.event = "loadend" /\ e.left = 0 /\ ending[k].call = Top.call
           \/ k \in DOMAIN ending' /\ ending'[k].call = ending[k].call
  BY StackEffect
<1>2. \A c \in Callers : Latest(c)' = Latest(c)
  BY DEF Latest, calls
<1>3. \E k \in DOMAIN ending : Top = ending[k]
  BY DEF Top, TypeOK
<1>4. Top.call \in Awaited
  BY <1>3 DEF Awaited
<1>5. Awaited' \subseteq Awaited
  BY <1>1, <1>2, <1>4 DEF Awaited, calls
<1>6. \/ UNCHANGED <<store, ui>>
      \/ \E p \in Awaited, r \in Shown : Update(recId[p[1]], p, r)
  BY <1>4
<1>7. /\ RecordInv'
      /\ items' \in Seq(Records) /\ nextId' = nextId
      /\ view' \in Seq(Records) /\ tab' = tab /\ missed' \in BOOLEAN
  BY <1>5, <1>6, RecordsKept DEF calls
<1>8. TypeOK'
  BY <1>1, <1>7, Zenon DEF TypeOK, calls, history
<1>9. EndingsAreInOrder'
  <2> SUFFICES ASSUME NEW k \in DOMAIN ending'
               PROVE  LET d == ending'[k] IN
                        /\ d.left > 0 => d.event \in {"error", "loadend"}
                        /\ /\ d.event \in {"failing", "error"}
                           /\ place[d.call[1]] = "settled"
                           => result[d.call[1]] = "error"
    BY DEF EndingsAreInOrder, calls
  <2>1. CASE ending'[k] = e
    BY <2>1, <1>3 DEF IInv, EndingsAreInOrder
  <2>2. CASE k \in DOMAIN ending /\ ending'[k] = ending[k]
    BY <2>2 DEF IInv, EndingsAreInOrder
  <2>3. QED BY <2>1, <2>2, <1>1
<1>10. FreshFetches' /\ XhrPlaces'
  BY DEF IInv, FreshFetches, XhrPlaces, calls
<1>11. \A c \in Callers :
         \/ Quiet(c)' => Quiet(c)
         \/ e.event = "loadend" /\ e.left = 0 /\ Latest(c) = Top.call
  BY <1>1, <1>2 DEF Quiet
<1>12. QED BY <1>2, <1>7, <1>8, <1>9, <1>10, <1>11

(* The types of the top of a stack that is not empty.                      *)
LEMMA TopType ==
  ASSUME TypeOK, ending # <<>>
  PROVE  /\ Top \in Endings /\ Top.left \in Nat
         /\ Top.call[1] \in Xhrs /\ Top.call[1] \in Callers
         /\ Top.call \in Awaited
         /\ \E k \in DOMAIN ending : Top = ending[k]
<1>1. \E k \in DOMAIN ending : Top = ending[k]
  <2>1. /\ ending \in Seq(Endings) /\ Len(ending) \in Nat /\ Len(ending) > 0
        /\ DOMAIN ending = 1 .. Len(ending)
    BY DEF TypeOK
  <2>2. Len(ending) \in DOMAIN ending
    BY <2>1
  <2>3. QED BY <2>2 DEF Top
<1>2. QED BY <1>1, CallTypes DEF Callers, Endings

LEMMA FiresKeeps ==
  ASSUME TypeOK, IInv, XhrFires
  PROVE  (TypeOK /\ IInv)'
<1> DEFINE x == Top.call[1]
           e == [Top EXCEPT
                   !.event = IF Top.event = "failing" THEN "error"
                                                      ELSE "loadend",
                   !.left = listeners[x]]
<1>1. /\ Top \in Endings /\ x \in Xhrs /\ listeners[x] \in Nat
      /\ ending # <<>>
  BY TopType DEF XhrFires, TypeOK
<1>2. /\ e \in Endings /\ e.call = Top.call
      /\ e.event \in {"error", "loadend"} /\ e.left = listeners[x]
      /\ e.event = "error" => Top.event = "failing"
  BY <1>1 DEF Endings
<1>3. Becomes(e) /\ UNCHANGED <<store, capturing, calls, listeners, ui, history>>
  BY DEF XhrFires
<1> HIDE DEF e
<1>4. /\ TypeOK' /\ RecordInv' /\ EndingsAreInOrder'
      /\ FreshFetches' /\ XhrPlaces'
      /\ \A c \in Callers : Latest(c)' = Latest(c)
      /\ \A c \in Callers :
           \/ Quiet(c)' => Quiet(c)
           \/ e.event = "loadend" /\ e.left = 0 /\ Latest(c) = Top.call
  BY <1>1, <1>2, <1>3, StackKeeps
<1>5. SettledIsRecorded'
  <2> SUFFICES ASSUME NEW c \in Callers, NEW i \in DOMAIN items,
                      items[i].call = Latest(c), place[c] = "settled",
                      Quiet(c)', Latest(c) \notin overtaken
               PROVE  items[i].outcome = result[c]
    BY <1>3, <1>4 DEF SettledIsRecorded, store, calls, history
(* A call whose last event finds no listeners has no record.               *)
  <2>1. ~(e.left = 0 /\ Latest(c) = Top.call)
    <3>1. items[i].call[1] \in Xhrs => listeners[items[i].call[1]] > 0
      BY DEF IInv, RecordInv, CallsWereMade
    <3>2. QED BY <3>1, <1>1, <1>2
  <2>2. Quiet(c)
    BY <2>1, <1>4
  <2>3. QED BY <2>2 DEF IInv, SettledIsRecorded
<1>6. QED BY <1>4, <1>5 DEF IInv

LEMMA ListenerKeeps ==
  ASSUME TypeOK, IInv, XhrListener
  PROVE  (TypeOK /\ IInv)'
<1> DEFINE p == Top.call
           x == p[1]
           r == IF Top.event = "loadend" /\ place[x] = "settled"
                THEN result[x] ELSE "error"
           e == [Top EXCEPT !.left = @ - 1]
<1>1. /\ Top \in Endings /\ Top.left \in Nat /\ Top.left > 0
      /\ x \in Xhrs /\ x \in Callers /\ p \in Awaited /\ p \in Calls
      /\ ending # <<>> /\ recId[x] \in Nat
  BY TopType, CallTypes DEF XhrListener, TypeOK
<1>2. /\ e \in Endings /\ e.call = Top.call /\ e.event = Top.event
      /\ e.left = Top.left - 1
  BY <1>1 DEF Endings
<1>3. /\ Becomes(e) /\ Update(recId[x], p, r)
      /\ UNCHANGED <<capturing, calls, listeners, history>>
  BY DEF XhrListener
<1>4. /\ Top.event \in {"error", "loadend"}
      /\ Top.event = "error" /\ place[x] = "settled" => result[x] = "error"
  <2>1. PICK k \in DOMAIN ending : Top = ending[k]
    BY <1>1, TopType
  <2>2. QED BY <2>1, <1>1 DEF IInv, EndingsAreInOrder
<1>5. place[x] = "settled" => r = result[x]
  BY <1>4
<1>6. r \in Shown
  BY <1>1 DEF TypeOK, Shown, Outcomes
<1> HIDE DEF e, r
<1>7. \E q \in Shown : Update(recId[Top.call[1]], Top.call, q)
  BY <1>3, <1>6
<1>8. /\ e.left > 0 => e.event \in {"error", "loadend"}
      /\ e.event \in {"failing", "error"} =>
           Top.event \in {"failing", "error"}
  BY <1>2, <1>4
<1>9. /\ TypeOK' /\ RecordInv' /\ EndingsAreInOrder'
      /\ FreshFetches' /\ XhrPlaces'
      /\ \A c \in Callers : Latest(c)' = Latest(c)
      /\ \A c \in Callers :
           \/ Quiet(c)' => Quiet(c)
           \/ e.event = "loadend" /\ e.left = 0 /\ Latest(c) = Top.call
  BY <1>1, <1>2, <1>3, <1>7, <1>8, StackKeeps
<1>10. SettledIsRecorded'
  <2> SUFFICES ASSUME NEW c \in Callers, NEW i \in DOMAIN items',
                      items'[i].call = Latest(c), place[c] = "settled",
                      Quiet(c)', Latest(c) \notin overtaken
               PROVE  items'[i].outcome = result[c]
    BY <1>3, <1>9 DEF SettledIsRecorded, calls, history
  <2>1. /\ DOMAIN items' = DOMAIN items
        /\ items'[i] = IF items[i].id = recId[x]
                       THEN Written(items[i], p, r) ELSE items[i]
    BY <1>1, <1>3, <1>6, UpdateEffect
  <2>2. items[i] \in Records
    BY <2>1, NoRecordZero DEF IInv, RecordInv
  <2>3. /\ items'[i].call = items[i].call
        /\ items[i].id = recId[x] => items'[i].outcome = r
    BY <2>1, <2>2 DEF Written, Records
  <2>4. items[i].call = Latest(c) /\ Latest(c)[1] = c /\ i \in DOMAIN items
    BY <2>1, <2>3, CallTypes
  <2>5. CASE items[i].id = recId[x]
    <3>1. c = x
      BY <2>4, <2>5, <1>1 DEF IInv, RecordInv, IdsHaveOwners
    <3>2. QED BY <3>1, <2>3, <2>5, <1>5
  <2>6. CASE items[i].id # recId[x]
    <3>1. Latest(c) # p
      BY <2>4, <2>6, <1>1 DEF IInv, RecordInv, OwnAreFound
    <3>2. Quiet(c)
      BY <3>1, <1>9
    <3>3. QED BY <3>2, <2>1, <2>4, <2>6 DEF IInv, SettledIsRecorded
  <2>7. QED BY <2>5, <2>6
<1>11. QED BY <1>9, <1>10 DEF IInv

LEMMA NextInv == TypeOK /\ IInv /\ [Next]_vars => (TypeOK /\ IInv)'
<1> SUFFICES ASSUME TypeOK, IInv, [Next]_vars PROVE (TypeOK /\ IInv)'
  OBVIOUS
<1>0. /\ \A f \in Fetches : f \in Callers /\ f \notin Xhrs
      /\ \A x \in Xhrs : x \in Callers
      /\ "ok" \in Outcomes /\ "error" \in Outcomes
  BY WatcherAssumption DEF Callers, Outcomes
<1>1. \A c \in Callers, p \in Awaited :
        p[1] = c => \/ place[c] \in {"waiting", "reading"} /\ p = Latest(c)
                    \/ c \in Xhrs /\ \E k \in DOMAIN ending : p = ending[k].call
  BY CallTypes DEF Awaited
<1>2. ASSUME NEW f \in Fetches, FetchPassed(f) PROVE (TypeOK /\ IInv)'
  <2>1. sends[f] = 0
    BY <1>2 DEF FetchPassed, IInv, FreshFetches
  <2>2. /\ sends' = [sends EXCEPT ![f] = @ + 1]
        /\ current' = [current EXCEPT ![f] = sends[f] + 1]
        /\ unrecorded' = unrecorded \union {<<f, sends[f] + 1>>}
    BY <1>2, <2>1 DEF FetchPassed, Sent
  <2>3. QED BY <1>0, <1>2, <2>2, PassedKeeps DEF FetchPassed, Sent
<1>3. ASSUME NEW f \in Fetches, FetchStart(f) PROVE (TypeOK /\ IInv)'
  <2>1. sends[f] = 0 /\ place[f] = "idle"
    BY <1>3 DEF FetchStart, IInv, FreshFetches
  <2>2. /\ sends' = [sends EXCEPT ![f] = @ + 1]
        /\ current' = [current EXCEPT ![f] = sends[f] + 1]
        /\ place' = [place EXCEPT ![f] = "waiting"]
        /\ Push(<<f, sends[f] + 1>>)
    BY <1>3, <2>1 DEF FetchStart, Sent
  <2>3. \A p \in Awaited : p[1] # f
    BY <1>0, <1>1, <2>1
  <2>4. /\ listeners' = listeners /\ listeners \in [Xhrs -> Nat]
        /\ overtaken' = overtaken /\ overtaken \subseteq Calls
        /\ place'[f] = "waiting"
        /\ recId' = [recId EXCEPT ![f] = nextId]
        /\ UNCHANGED <<capturing, result, ending, unrecorded>>
    BY <1>0, <1>3, <2>2 DEF FetchStart, xhrs, history, TypeOK
  <2>5. \A x \in Xhrs : listeners'[x] >= listeners[x]
    BY <2>4
  <2>6. QED BY <1>0, <2>1, <2>2, <2>3, <2>4, <2>5, StartKeeps
<1>4. ASSUME NEW f \in Fetches, HeadersArrive(f) PROVE (TypeOK /\ IInv)'
  <2>1. CASE recId[f] = 0
    BY <1>0, <1>4, <2>1, FetchSettles DEF HeadersArrive
  <2>2. CASE recId[f] # 0
    BY <1>0, <1>4, <2>2, PlaceKeeps DEF HeadersArrive
  <2>3. QED BY <2>1, <2>2
<1>5. ASSUME NEW f \in Fetches, Deliver(f) PROVE (TypeOK /\ IInv)'
  BY <1>0, <1>5, FetchSettles DEF Deliver
<1>6. ASSUME NEW f \in Fetches, FetchFails(f) PROVE (TypeOK /\ IInv)'
  BY <1>0, <1>6, FetchSettles DEF FetchFails
<1>7. ASSUME NEW x \in Xhrs, XhrOpen(x) PROVE (TypeOK /\ IInv)'
  BY <1>0, <1>7, PlaceKeeps DEF XhrOpen
<1>8. ASSUME NEW x \in Xhrs, XhrPassed(x) PROVE (TypeOK /\ IInv)'
  <2>1. sends'[x] = sends[x] + 1
    BY <1>0, <1>8 DEF XhrPassed, TypeOK
  <2>2. QED BY <1>0, <1>8, <2>1, PassedKeeps, WatcherAssumption DEF XhrPassed
<1>9. ASSUME NEW x \in Xhrs, XhrStart(x) PROVE (TypeOK /\ IInv)'
  <2>1. sends'[x] = sends[x] + 1 /\ place[x] # "reading"
    BY <1>0, <1>9 DEF XhrStart, Capture, TypeOK, IInv, XhrPlaces
  <2>2. \/ /\ place[x] \notin {"waiting", "reading"}
           /\ place' = [place EXCEPT ![x] = "waiting"]
           /\ current' = [current EXCEPT ![x] = sends[x] + 1]
        \/ UNCHANGED <<place, current>>
    BY <1>9, <2>1 DEF XhrStart, Capture
  <2>3. /\ listeners' \in [Xhrs -> Nat] /\ listeners'[x] > 0
        /\ \A y \in Xhrs : listeners'[y] >= listeners[y]
    BY <1>9 DEF XhrStart, Capture, TypeOK
  <2>4. /\ overtaken' = overtaken \union Unended(x)
        /\ overtaken \subseteq overtaken'
    BY <1>9 DEF XhrStart, Capture
  <2>5. Unended(x) \subseteq Calls
    BY <1>0, CallTypes DEF Unended
  <2>6. \A p \in Awaited : p[1] = x => p \in Unended(x)
    BY <1>0, <1>1, <2>1 DEF Unended
  <2>7. overtaken' \subseteq Calls
    BY <2>4, <2>5 DEF TypeOK
  <2>8. /\ sends' = [sends EXCEPT ![x] = @ + 1]
        /\ recId' = [recId EXCEPT ![x] = nextId]
        /\ Push(<<x, sends[x] + 1>>)
        /\ UNCHANGED <<capturing, result, ending, unrecorded>>
    BY <1>9 DEF XhrStart, Capture
  <2>9. QED BY <1>0, <2>2, <2>3, <2>4, <2>6, <2>7, <2>8, StartKeeps
<1>10. ASSUME NEW x \in Xhrs, NEW end \in Ends, XhrTold(x, end)
       PROVE  (TypeOK /\ IInv)'
  BY <1>10, ToldKeeps
<1>11. CASE XhrFires
  BY <1>11, FiresKeeps
<1>12. CASE XhrListener
  BY <1>12, ListenerKeeps
<1>13. CASE TabStep
  <2>1. UNCHANGED <<nextId, calls, xhrs, history>>
    BY <1>13 DEF TabStep, Render, Subscribe, Unmount, ToggleCapture, Clear,
       store
  <2>2. Awaited' = Awaited /\ \A c \in Callers : Latest(c)' = Latest(c)
    BY <2>1 DEF Awaited, Latest, calls, xhrs
  <2>3. EndingsAreInOrder' /\ FreshFetches' /\ XhrPlaces'
    BY <2>1 DEF IInv, EndingsAreInOrder, FreshFetches, XhrPlaces, calls, xhrs
  <2>4. CASE Render \/ Subscribe \/ Unmount \/ ToggleCapture
    <3>1. <<>> \in Seq(Records)
      OBVIOUS
    <3>2. items' = items
      BY <2>4 DEF Render, Subscribe, Unmount, ToggleCapture, store
    <3>3. view' \in Seq(Records) /\ tab' \in {"off", "rendered", "subscribed"}
      BY <2>4, <3>1 DEF Render, Subscribe, Unmount, ToggleCapture, TypeOK, ui
    <3>4. missed' \in BOOLEAN /\ capturing' \in BOOLEAN
      BY <2>4, Zenon DEF Render, Subscribe, Unmount, ToggleCapture, TypeOK, ui
    <3>5. TypeOK'
      BY <2>1, <3>2, <3>3, <3>4, Zenon DEF TypeOK, calls, xhrs, history
    <3>6. ViewIsCurrent'
      BY <2>4 DEF Render, Subscribe, Unmount, ToggleCapture, IInv, RecordInv,
         ViewIsCurrent, store, ui
    <3>7. IdsAreOwn' /\ OwnAreFound'
      BY <2>1, <2>2, <3>2 DEF IInv, RecordInv, IdsAreOwn, OwnAreFound, calls,
         history
    <3>8. RecordInv'
      BY <2>1, <3>2, <3>6, <3>7 DEF IInv, RecordInv, RecordsAreRecent,
         RoomForIds, IdsHaveOwners, CallsWereMade, AnswersStayApart, calls,
         xhrs, history
    <3>9. SettledIsRecorded'
      BY <2>1, <2>2, <3>2 DEF IInv, SettledIsRecorded, Quiet, calls, xhrs,
         history
    <3>10. QED BY <2>3, <3>5, <3>8, <3>9 DEF IInv
  <2>5. CASE Clear
    <3>1. items' = <<>> /\ items' \in Seq(Records) /\ Len(items') = 0
          /\ DOMAIN items' = {}
      BY <2>5 DEF Clear
    <3>2. view' \in Seq(Records) /\ tab' \in {"off", "rendered", "subscribed"}
      BY <2>5, <3>1 DEF Clear, Notify, TypeOK
    <3>3. missed' \in BOOLEAN /\ capturing' \in BOOLEAN
      BY <2>5, Zenon DEF Clear, Notify, TypeOK
    <3>4. TypeOK'
      BY <2>1, <3>1, <3>2, <3>3, Zenon DEF TypeOK, calls, xhrs, history
    <3>5. ViewIsCurrent'
      BY <2>5 DEF Clear, Notify, ViewIsCurrent
    <3>6. RecordsAreRecent' /\ RoomForIds'
      BY <2>1, <3>1, WatcherAssumption DEF RecordsAreRecent, RoomForIds, TypeOK
    <3>7. CallsWereMade'
      BY <2>1, <3>1 DEF IInv, RecordInv, CallsWereMade, calls
    <3>8. QED
      BY <2>3, <3>1, <3>4, <3>5, <3>6, <3>7 DEF IInv, RecordInv,
         IdsHaveOwners, IdsAreOwn, OwnAreFound, AnswersStayApart,
         SettledIsRecorded
  <2>6. QED BY <1>13, <2>4, <2>5 DEF TabStep
<1>14. CASE UNCHANGED vars
  <2>1. UNCHANGED <<store, capturing, calls, xhrs, ui, history>>
    BY <1>14 DEF vars
  <2>2. Awaited' = Awaited /\ \A c \in Callers : Latest(c)' = Latest(c)
    BY <2>1 DEF Awaited, Latest, calls, xhrs
  <2>3. TypeOK'
    BY <2>1 DEF TypeOK, store, calls, xhrs, ui, history
  <2>4. RecordInv'
    BY <2>1, <2>2, RecordsKept DEF calls, xhrs
  <2>5. EndingsAreInOrder' /\ FreshFetches' /\ XhrPlaces'
    BY <2>1 DEF IInv, EndingsAreInOrder, FreshFetches, XhrPlaces, calls, xhrs
  <2>6. SettledIsRecorded'
    BY <2>1, <2>2 DEF IInv, SettledIsRecorded, Quiet, store, calls, xhrs,
       history
  <2>7. QED BY <2>3, <2>4, <2>5, <2>6 DEF IInv
<1>15. QED
  BY <1>2, <1>3, <1>4, <1>5, <1>6, <1>7, <1>8, <1>9, <1>10, <1>11, <1>12,
     <1>13, <1>14 DEF Next, FetchStep, XhrStep

LEMMA Invariance == Spec => [](TypeOK /\ IInv)
BY InitInv, NextInv, PTL DEF Spec

(* The types of the watcher hold in every reachable state.                 *)
THEOREM TypeCorrect == Spec => []TypeOK
BY Invariance, PTL

(* The bound of the store holds and ids name single records, through any   *)
(* trims and clears.                                                       *)
THEOREM RecentRecords == Spec => []RecordsAreRecent
BY Invariance, PTL DEF IInv, RecordInv

(* No answer is written to the record of another caller, nor to that of    *)
(* another call of its own but for the two cases the property names,       *)
(* whatever the order in which calls end and page code runs in between.    *)
THEOREM OwnAnswers == Spec => []AnswersStayApart
BY Invariance, PTL DEF IInv, RecordInv

(* What the page's code was told is what the record shows, at once for a   *)
(* fetch and when the listeners have run for an XMLHttpRequest.            *)
THEOREM AnswersRecorded == Spec => []SettledIsRecorded
BY Invariance, PTL DEF IInv

(* The tab shows the store, but for the gap before its subscription.       *)
THEOREM TabFollows == Spec => []ViewIsCurrent
BY Invariance, PTL DEF IInv, RecordInv
=============================================================================
