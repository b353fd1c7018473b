---------------------------- MODULE NetworkWatcher ----------------------------
(***************************************************************************)
(* The network watcher of the SPA (src/Web/src/utils/networkWatcher.ts)    *)
(* and the tab that shows its records (NetworkTab.tsx).  The page's fetch  *)
(* and XMLHttpRequest are wrapped; each captured call pushes a record and  *)
(* later updates it by id, and by then the list may have been trimmed,     *)
(* cleared or paused.  A listener, or a function between two awaits, is    *)
(* one step: the page has one thread.  Synchronous XMLHttpRequests are     *)
(* left out.                                                               *)
(***************************************************************************)
EXTENDS Integers, Sequences

CONSTANTS Fetches,   \* calls of window.fetch
          Xhrs,      \* XMLHttpRequest objects, each sent any number of times
          NoCall,    \* not a call
          Max,       \* max, 1000 records
          MaxSends   \* bound on the sends of one XMLHttpRequest

ASSUME WatcherAssumption ==
  /\ Max \in Nat \ {0}
  /\ MaxSends \in Nat
  /\ Fetches \intersect Xhrs = {}

Callers == Fetches \union Xhrs
Calls == Callers \X Nat
ASSUME NoCallAssumption == NoCall \notin Calls

VARIABLES items,      \* NetworkStore.items
          nextId,
          capturing,
          place,      \* where each caller's call is
          sends,      \* how often each caller has sent, or tried to
          current,    \* which of its sends that call is; 0 before the first
          listeners,  \* how often an XHR has got the watcher's listeners
          ending,     \* stack of the XHR calls whose last events are fired
          recId,      \* rec.id of a fetch, recId of an XHR; 0 before a push
          result,     \* what the code of the page last got from each caller
          tab,        \* the NetworkTab: "off", "rendered" or "subscribed"
          view,       \* its items
          missed,     \* history: records changed before the tab subscribed
          unrecorded, \* history: calls sent while the capture was paused
          overtaken   \* history: XHR calls whose object made another captured
                      \* send() before their last listener had run

store == <<items, nextId>>
ui == <<tab, view, missed>>
calls == <<place, sends, current, recId, result>>
xhrs == <<listeners, ending>>
history == <<unrecorded, overtaken>>
vars == <<store, capturing, calls, xhrs, ui, history>>

Outcomes == {"ok", "error"}
Records == [id : Nat, call : Calls, by : Calls \union {NoCall},
            outcome : Outcomes \union {"none"}]
Places == {"idle", "opened", "waiting", "reading", "settled"}

(* How the call of an XHR ends.  "abort" stands for a timeout too.         *)
Ends == {"load", "failing", "abort"}
Endings == [call : Xhrs \X Nat, event : Ends \union {"error", "loadend"},
            left : Nat]

Init ==
  /\ items = <<>>
  /\ nextId = 1
  /\ capturing = TRUE
  /\ place = [c \in Callers |-> "idle"]
  /\ sends = [c \in Callers |-> 0]
  /\ current = [c \in Callers |-> 0]
  /\ recId = [c \in Callers |-> 0]
  /\ result = [c \in Callers |-> "none"]
  /\ tab = "off"
  /\ view = <<>>
  /\ missed = FALSE
  /\ listeners = [x \in Xhrs |-> 0]
  /\ ending = <<>>
  /\ unrecorded = {}
  /\ overtaken = {}

Latest(c) == <<c, current[c]>>

(***************************************************************************)
(* NetworkStore.                                                           *)
(***************************************************************************)
(* The listeners run at once; the tab has one while it is subscribed.      *)
Notify ==
  /\ view' = IF tab = "subscribed" THEN items' ELSE view
  /\ missed' = (tab = "rendered")
  /\ UNCHANGED tab

TrimmedLate(s) == IF Len(s) > Max THEN SubSeq(s, 1, Max) ELSE s

(* splice drops the oldest records.                                        *)
Trimmed(s) == IF Len(s) > Max THEN SubSeq(s, Len(s) - Max + 1, Len(s)) ELSE s

Push(call) ==
  /\ items' = Trimmed(Append(items, [id |-> nextId, call |-> call,
                                     by |-> NoCall, outcome |-> "none"]))
  /\ nextId' = nextId + 1
  /\ Notify

UpdateSilently(id, call, r) ==
  /\ items' = [i \in DOMAIN items |->
                 IF items[i].id = id
                 THEN [items[i] EXCEPT !.by = call, !.outcome = r]
                 ELSE items[i]]
  /\ UNCHANGED <<nextId, ui>>

(* A record that is no longer there is left alone and nobody is told.      *)
Update(id, call, r) ==
  IF \E i \in DOMAIN items : items[i].id = id
  THEN /\ items' = [i \in DOMAIN items |->
                      IF items[i].id = id
                      THEN [items[i] EXCEPT !.by = call, !.outcome = r]
                      ELSE items[i]]
       /\ Notify
       /\ UNCHANGED nextId
  ELSE UNCHANGED <<store, ui>>

(***************************************************************************)
(* The patched fetch.                                                      *)
(***************************************************************************)
Sent(f) ==
  /\ place' = [place EXCEPT ![f] = "waiting"]
  /\ sends' = [sends EXCEPT ![f] = 1]
  /\ current' = [current EXCEPT ![f] = 1]

Settles(f, r) ==
  /\ place' = [place EXCEPT ![f] = "settled"]
  /\ result' = [result EXCEPT ![f] = r]

FetchPassed(f) ==
  /\ place[f] = "idle"
  /\ ~capturing
  /\ Sent(f)
  /\ unrecorded' = unrecorded \union {<<f, 1>>}
  /\ UNCHANGED <<store, capturing, recId, result, xhrs, ui, overtaken>>

FetchStart(f) ==
  /\ place[f] = "idle"
  /\ capturing
  /\ Push(<<f, 1>>)
  /\ Sent(f)
  /\ recId' = [recId EXCEPT ![f] = nextId]
  /\ UNCHANGED <<capturing, result, xhrs, history>>

(* The promise of the browser's fetch resolves when the headers are there, *)
(* in a task of its own.  An unpatched caller has its response; the        *)
(* patched one clones it and reads the clone to its end first.             *)
HeadersArrive(f) ==
  /\ place[f] = "waiting"
  /\ ending = <<>>
  /\ IF recId[f] = 0
     THEN Settles(f, "ok")
     ELSE place' = [place EXCEPT ![f] = "reading"] /\ UNCHANGED result
  /\ UNCHANGED <<store, capturing, sends, current, recId, xhrs, ui, history>>

(* The body of the clone ends, or an error reading it is swallowed; then   *)
(* the record is updated and the caller gets its response.                 *)
Deliver(f) ==
  /\ place[f] = "reading"
  /\ Update(recId[f], Latest(f), "ok")
  /\ Settles(f, "ok")
  /\ UNCHANGED <<capturing, sends, current, recId, xhrs, history>>

FetchFailsUnrecorded(f) ==
  /\ place[f] = "waiting"
  /\ Settles(f, "error")
  /\ UNCHANGED <<store, capturing, sends, current, recId, xhrs, ui, history>>

(* The call is rejected, by the network or by the page's AbortSignal; the  *)
(* wrapper records that and throws it on.                                  *)
FetchFails(f) ==
  /\ place[f] = "waiting"
  /\ IF recId[f] = 0 THEN UNCHANGED <<store, ui>>
                     ELSE Update(recId[f], Latest(f), "error")
  /\ Settles(f, "error")
  /\ UNCHANGED <<capturing, sends, current, recId, xhrs, history>>

(***************************************************************************)
(* The patched XMLHttpRequest.  An object may be opened and sent again: a  *)
(* call in flight is then dropped and no event tells of it, and the        *)
(* answer of an earlier one can no longer be read.                         *)
(***************************************************************************)
XhrOpen(x) ==
  /\ place[x] # "opened"
  /\ place' = [place EXCEPT ![x] = "opened"]
  /\ UNCHANGED <<store, capturing, sends, current, recId, result, xhrs, ui,
                 history>>

XhrPassed(x) ==
  /\ ~capturing
  /\ place[x] = "opened"
  /\ sends[x] < MaxSends
  /\ place' = [place EXCEPT ![x] = "waiting"]
  /\ sends' = [sends EXCEPT ![x] = @ + 1]
  /\ current' = [current EXCEPT ![x] = sends'[x]]
  /\ unrecorded' = unrecorded \union {<<x, sends'[x]>>}
  /\ UNCHANGED <<store, capturing, recId, result, xhrs, ui, overtaken>>

(* The calls of x whose end is still to be recorded.                       *)
Unended(x) ==
  {c \in {Latest(x)} : place[x] = "waiting"}
    \union {ending[k].call : k \in {k \in DOMAIN ending : ending[k].call[1] = x}}

(* What a captured send does but for the record's id.  The browser's send  *)
(* comes last, and throws unless the object was opened anew.               *)
Capture(x) ==
  /\ capturing
  /\ sends[x] < MaxSends
  /\ Push(<<x, sends[x] + 1>>)
  /\ sends' = [sends EXCEPT ![x] = @ + 1]
  /\ listeners' = [listeners EXCEPT ![x] = @ + 1]
  /\ IF place[x] = "opened"
     THEN /\ place' = [place EXCEPT ![x] = "waiting"]
          /\ current' = [current EXCEPT ![x] = sends'[x]]
     ELSE UNCHANGED <<place, current>>
  /\ overtaken' = overtaken \union Unended(x)
  /\ UNCHANGED <<capturing, result, ending, unrecorded>>

XhrStartKeepsId(x) ==
  /\ Capture(x)
  /\ recId' = [recId EXCEPT ![x] = IF @ = 0 THEN nextId ELSE @]

XhrStart(x) ==
  /\ Capture(x)
  /\ recId' = [recId EXCEPT ![x] = nextId]

(* The call is over, which the page can see from now on: readystatechange  *)
(* is fired, then load or error or abort, then loadend, all in one task.   *)
(* An abort() has it inside the listener that calls it.                    *)
XhrTold(x, end) ==
  /\ place[x] = "waiting"
  /\ ending = <<>> \/ end = "abort"
  /\ Settles(x, IF end = "load" THEN "ok" ELSE "error")
  /\ ending' = Append(ending, [call |-> Latest(x), event |-> end, left |-> 0])
  /\ UNCHANGED <<store, capturing, sends, current, recId, listeners, ui,
                 history>>

Top == ending[Len(ending)]

(* The top of the stack becomes e, or goes when no listener is left.       *)
Becomes(e) ==
  LET below == SubSeq(ending, 1, Len(ending) - 1) IN
    ending' = IF e.event = "loadend" /\ e.left = 0 THEN below
                                                   ELSE Append(below, e)

(* The next event the watcher listens to, for the listeners added so far.  *)
XhrFires ==
  /\ ending # <<>>
  /\ Top.left = 0
  /\ Becomes([Top EXCEPT
       !.event = IF Top.event = "failing" THEN "error" ELSE "loadend",
       !.left = listeners[Top.call[1]]])
  /\ UNCHANGED <<store, capturing, calls, listeners, ui, history>>

(* A listener of error or of loadend.  All those of an object write to its *)
(* recId, and the status is gone if the object was opened again.           *)
XhrListener ==
  /\ ending # <<>>
  /\ Top.left > 0
  /\ LET x == Top.call[1] IN
       Update(recId[x], Top.call,
              IF Top.event = "loadend" /\ place[x] = "settled"
              THEN result[x] ELSE "error")
  /\ Becomes([Top EXCEPT !.left = @ - 1])
  /\ UNCHANGED <<capturing, calls, listeners, history>>

(***************************************************************************)
(* The tab: a snapshot when it is rendered, a subscription in an effect    *)
(* some time later, and its two buttons.                                   *)
(***************************************************************************)
Render ==
  /\ tab = "off"
  /\ tab' = "rendered"
  /\ view' = items
  /\ missed' = FALSE
  /\ UNCHANGED <<store, capturing, calls, xhrs, history>>

Subscribe ==
  /\ tab = "rendered"
  /\ tab' = "subscribed"
  /\ UNCHANGED <<store, capturing, calls, xhrs, view, missed, history>>

Unmount ==
  /\ tab = "subscribed"
  /\ tab' = "off"
  /\ view' = <<>>
  /\ missed' = FALSE
  /\ UNCHANGED <<store, capturing, calls, xhrs, history>>

ToggleCapture ==
  /\ tab = "subscribed"
  /\ capturing' = ~capturing
  /\ UNCHANGED <<store, calls, xhrs, ui, history>>

(* clear empties the list; the ids go on.                                  *)
Clear ==
  /\ tab = "subscribed"
  /\ items' = <<>>
  /\ Notify
  /\ UNCHANGED <<nextId, capturing, calls, xhrs, history>>

FetchStep(f) ==
  \/ FetchPassed(f)
  \/ FetchStart(f)
  \/ HeadersArrive(f)
  \/ Deliver(f)
  \/ FetchFails(f)

XhrStep(x) ==
  \/ XhrOpen(x)
  \/ XhrPassed(x)
  \/ XhrStart(x)
  \/ \E end \in Ends : XhrTold(x, end)

TabStep == Render \/ Subscribe \/ Unmount \/ ToggleCapture \/ Clear

Next ==
  \/ \E f \in Fetches : FetchStep(f)
  \/ \E x \in Xhrs : XhrStep(x)
  \/ XhrFires
  \/ XhrListener
  \/ TabStep

Spec == Init /\ [][Next]_vars

-----------------------------------------------------------------------------
(* Types, and which calls a record or an id can belong to.                 *)
TypeOK ==
  /\ items \in Seq(Records)
  /\ nextId \in Nat \ {0}
  /\ capturing \in BOOLEAN
  /\ place \in [Callers -> Places]
  /\ sends \in [Callers -> Nat]
  /\ current \in [Callers -> Nat]
  /\ recId \in [Callers -> Nat]
  /\ result \in [Callers -> Outcomes \union {"none"}]
  /\ tab \in {"off", "rendered", "subscribed"}
  /\ view \in Seq(Records)
  /\ missed \in BOOLEAN
  /\ listeners \in [Xhrs -> Nat]
  /\ ending \in Seq(Endings)
  /\ unrecorded \in SUBSET Calls
  /\ overtaken \in SUBSET Calls
  /\ \A c \in Callers : recId[c] < nextId

(* The records are always the latest ones pushed since the last clear, at  *)
(* most max of them, with consecutive ids: an id names one record, even    *)
(* after a trim or a clear, which late updates and the rows of the tab     *)
(* rely on (push and clear of NetworkStore).                               *)
RecordsAreRecent ==
  /\ Len(items) <= Max
  /\ \A i \in DOMAIN items : items[i].id = nextId - Len(items) + i - 1

(* A late answer is written to the record of its own call or to none,      *)
(* whatever was trimmed, cleared or sent since.  Two XMLHttpRequests are   *)
(* excepted, whose answers may go to the record of another send of the     *)
(* same object: one sent again while the capture is paused, whose          *)
(* listeners are still there; and one on which send() is called again      *)
(* before the last of them has run, by a handler of load, say.             *)
AnswersStayApart ==
  \A i \in DOMAIN items :
    LET r == items[i] IN
      r.by \notin {NoCall, r.call} =>
        /\ r.by[1] = r.call[1] /\ r.by[1] \in Xhrs
        /\ r.by \in unrecorded \union overtaken

(* The listeners of the call that caller c made last have all run.         *)
Quiet(c) == \A k \in DOMAIN ending : ending[k].call # Latest(c)

(* When the page's code has got the answer of a captured call, its record, *)
(* if it is still listed, shows that answer: at once for a fetch, and for  *)
(* an XMLHttpRequest once the events of its end are over, unless it was    *)
(* overtaken.                                                              *)
SettledIsRecorded ==
  \A c \in Callers, i \in DOMAIN items :
    items[i].call = Latest(c) /\ place[c] = "settled" /\ Quiet(c)
      /\ Latest(c) \notin overtaken
      => items[i].outcome = result[c]

(* The tab shows the store as it is, except for changes that fell between  *)
(* its render and its subscription, and those only until the next change.  *)
ViewIsCurrent == tab # "off" /\ ~missed => view = items
=============================================================================
