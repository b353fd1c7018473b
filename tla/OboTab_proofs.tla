---------------------------- MODULE OboTab_proofs ----------------------------
(***************************************************************************)
(* Proofs about the request tab and the log (OboTab, LogStore), for any    *)
(* number of sends, MCP sessions and log entries.                          *)
(***************************************************************************)
EXTENDS OboTab, TLAPS

(* A step that logs, and one of the log's tab, by what they do to it.      *)
LogsAs ==
  \/ Log \/ ClearLog \/ LogsRender \/ LogsSubscribe \/ LogsUnmount
  \/ UNCHANGED log

(* The log's own invariant.                                                *)
LogInv == LogTypeOK /\ LogIsShown

LEMMA LogKept ==
  ASSUME LogTypeOK, LogIsRecent, Log
  PROVE  /\ entries' \in Seq(Nat) /\ LogIsRecent'
<1> DEFINE a == Append(entries, nextEntry)
           n == Len(entries)
<1>1. n \in Nat /\ nextEntry \in Nat \ {0} /\ entries \in Seq(Nat)
      /\ MaxLog \in Nat \ {0} /\ n <= MaxLog
  BY LogAssumption DEF LogTypeOK, LogIsRecent
<1>2. a \in Seq(Nat) /\ Len(a) = n + 1
  BY <1>1
<1>3. \A i \in 1 .. n + 1 : a[i] = nextEntry - n + i - 1
  BY <1>1, <1>2 DEF LogIsRecent
<1>4. entries' = Kept(a) /\ nextEntry' = nextEntry + 1
  BY DEF Log
<1> HIDE DEF a, n
<1>5. CASE n < MaxLog
  <2>1. entries' = SubSeq(a, 1, n + 1)
    BY <1>1, <1>2, <1>4, <1>5 DEF Kept
  <2>2. entries' \in Seq(Nat) /\ Len(entries') = n + 1
        /\ \A i \in 1 .. n + 1 : entries'[i] = a[i]
    <3>1. entries' \in Seq(Nat)
      BY <1>2, <2>1, SMTT(20)
    <3>2. Len(entries') = n + 1
      BY <1>1, <1>2, <2>1
    <3>3. \A i \in 1 .. n + 1 : entries'[i] = a[i]
      BY <1>1, <1>2, <2>1
    <3>4. QED BY <3>1, <3>2, <3>3
  <2>3. ASSUME NEW i \in 1 .. n + 1
        PROVE  entries'[i] = nextEntry' - (n + 1) + i - 1
    <3>1. entries'[i] = nextEntry - n + i - 1
      BY <1>3, <2>2
    <3>2. nextEntry - n + i - 1 = (nextEntry + 1) - (n + 1) + i - 1
      BY <1>1
    <3>3. nextEntry' = nextEntry + 1
      BY <1>4
    <3>4. QED BY <3>1, <3>2, <3>3
  <2>4. DOMAIN entries' = 1 .. n + 1
    BY <2>2
  <2>5. QED BY <1>1, <1>5, <2>2, <2>3, <2>4 DEF LogIsRecent
<1>6. CASE n = MaxLog
  <2>1. entries' = SubSeq(a, 2, n + 1)
    BY <1>1, <1>2, <1>4, <1>6 DEF Kept
  <2>2. entries' \in Seq(Nat) /\ Len(entries') = n
        /\ \A i \in 1 .. n : entries'[i] = a[i + 1]
    <3>1. entries' \in Seq(Nat)
      BY <1>1, <1>2, <2>1
    <3>2. Len(entries') = n
      BY <1>1, <1>2, <2>1
    <3>3. \A i \in 1 .. n : entries'[i] = a[i + 1]
      BY <1>1, <1>2, <2>1
    <3>4. QED BY <3>1, <3>2, <3>3
  <2>3. ASSUME NEW i \in 1 .. n
        PROVE  entries'[i] = nextEntry' - n + i - 1
    <3>1. i + 1 \in 1 .. n + 1 /\ entries'[i] = a[i + 1]
      BY <1>1, <2>2
    <3>2. a[i + 1] = nextEntry - n + (i + 1) - 1
      BY <1>3, <3>1
    <3>3. nextEntry - n + (i + 1) - 1 = (nextEntry + 1) - n + i - 1
      BY <1>1
    <3>4. nextEntry' = nextEntry + 1
      BY <1>4
    <3>5. QED BY <3>1, <3>2, <3>3, <3>4
  <2>4. DOMAIN entries' = 1 .. n
    BY <2>2
  <2>5. QED BY <1>1, <1>6, <2>2, <2>3, <2>4 DEF LogIsRecent
<1>7. QED BY <1>1, <1>5, <1>6

LEMMA LogInitInv == LogInit => LogInv
<1> SUFFICES ASSUME LogInit PROVE LogInv
  OBVIOUS
<1>1. missed \in BOOLEAN
  BY Zenon DEF LogInit
<1>2. entries = <<>> /\ shown = <<>> /\ nextEntry = 1 /\ logsTab = "off"
  BY DEF LogInit
<1>3. QED
  BY <1>1, <1>2, LogAssumption
     DEF LogInv, LogTypeOK, LogIsShown, LogIsRecent, LogViewIsCurrent

(* Once the entries fit, what the listeners do is right.                   *)
LEMMA NotifiedRight ==
  ASSUME LogInv, Notified, entries' \in Seq(Nat), nextEntry' \in Nat \ {0}, LogIsRecent'
  PROVE  LogInv'
<1>1. missed' \in BOOLEAN
  BY Zenon DEF Notified
<1>2. shown' \in Seq(Nat) /\ logsTab' \in {"off", "rendered", "subscribed"}
  BY DEF Notified, LogInv, LogTypeOK
<1>3. LogViewIsCurrent'
  BY DEF Notified, LogInv, LogTypeOK, LogViewIsCurrent
<1>4. QED BY <1>1, <1>2, <1>3 DEF LogInv, LogTypeOK, LogIsShown

LEMMA LogStepInv == LogInv /\ LogsAs => LogInv'
<1> SUFFICES ASSUME LogInv, LogsAs PROVE LogInv'
  OBVIOUS
<1>0. LogTypeOK /\ LogIsRecent
  BY DEF LogInv, LogIsShown
<1>1. CASE Log
  <2>1. nextEntry' \in Nat \ {0} /\ Notified
    BY <1>0, <1>1 DEF Log, LogTypeOK
  <2>2. QED BY <1>0, <1>1, <2>1, LogKept, NotifiedRight
<1>2. CASE ClearLog
  <2>1. entries' = <<>> /\ nextEntry' = nextEntry /\ Notified
    BY <1>2 DEF ClearLog
  <2>2. LogIsRecent'
    BY <2>1, <1>0, LogAssumption DEF LogIsRecent, LogTypeOK
  <2>3. QED BY <1>0, <2>1, <2>2, NotifiedRight DEF LogTypeOK
<1>3. CASE LogsRender \/ LogsUnmount
  <2>1. missed' \in BOOLEAN
    BY <1>3, Zenon DEF LogsRender, LogsUnmount
  <2>2. entries' = entries /\ nextEntry' = nextEntry
    BY <1>3 DEF LogsRender, LogsUnmount
  <2>3. shown' \in Seq(Nat) /\ logsTab' \in {"off", "rendered", "subscribed"}
    <3>1. CASE LogsRender
      BY <1>0, <3>1 DEF LogsRender, LogTypeOK
    <3>2. CASE LogsUnmount
      <4>1. shown' = <<>> /\ logsTab' = "off"
        BY <3>2 DEF LogsUnmount
      <4>2. QED BY <4>1
    <3>3. QED BY <1>3, <3>1, <3>2
  <2>4. LogViewIsCurrent'
    BY <1>3 DEF LogsRender, LogsUnmount, LogViewIsCurrent
  <2>5. LogIsRecent'
    BY <1>0, <2>2 DEF LogIsRecent
  <2>6. QED
    BY <1>0, <2>1, <2>2, <2>3, <2>4, <2>5 DEF LogInv, LogTypeOK, LogIsShown
<1>4. CASE LogsSubscribe
  BY <1>0, <1>4 DEF LogsSubscribe, LogInv, LogTypeOK, LogIsShown, LogIsRecent,
                    LogViewIsCurrent
<1>5. CASE UNCHANGED log
  BY <1>0, <1>5 DEF log, LogInv, LogTypeOK, LogIsShown, LogIsRecent, LogViewIsCurrent
<1>6. QED BY <1>1, <1>2, <1>3, <1>4, <1>5 DEF LogsAs

LEMMA StepLogs == [Next]_vars => LogsAs
<1> USE DEF LogsAs
<1>1. ASSUME NEW k \in Sends, Send(k) \/ Progress(k) PROVE LogsAs
  BY <1>1 DEF Send, Clicked, Progress, HelperAnswers, Serve, HeadersArrive, BodyEnds,
              Fails, Finish
<1>2. CASE FormStep
  BY <1>2 DEF FormStep, ApplyPreset, Edit, TypeSession
<1>3. CASE OpenLogs \/ OpenObo \/ LogsTabStep
  BY <1>3 DEF OpenLogs, OpenObo, LogsTabStep
<1>4. CASE (\E i \in Sids : SessionEnds(i)) \/ UNCHANGED vars
  BY <1>4 DEF SessionEnds, vars
<1>5. QED BY <1>1, <1>2, <1>3, <1>4 DEF Next

(* LogIsShown: whoever logs, at most max consecutive entries are kept and  *)
(* a subscribed tab is told of each.                                       *)
THEOREM LogShown == Spec => []LogIsShown
<1>1. Init => LogInv
  BY LogInitInv DEF Init
<1>2. LogInv /\ [Next]_vars => LogInv'
  BY LogStepInv, StepLogs
<1>3. LogInv => LogIsShown
  BY DEF LogInv
<1>4. QED BY <1>1, <1>2, <1>3, PTL DEF Spec

-----------------------------------------------------------------------------
(* The types of the tab and of what it sent.                               *)
TabTyped ==
  /\ open \in {"obo", "logs"} /\ form \in Forms
  /\ mcpSession \in Sids \union {None} /\ busy \in BOOLEAN
  /\ response \in Sends \union {None} /\ latest \in Sends \union {None}
  /\ send \in [Sends -> Records]
  /\ sessions \in [Sids -> {"user", "app", None}]
  /\ opened \subseteq Sids

LEMMA FormTypes == DefaultForm \in Forms /\ Presets \subseteq Forms
BY OboAssumption DEF DefaultForm, Forms, Presets, Urls

LEMMA SendTypes ==
  /\ NoSend \in Records /\ NoSend.own = FALSE
  /\ \A f \in Forms : Caller(f) \in {"user", "app", "none"}
BY DEF NoSend, Records, Caller, Forms, Urls

LEMMA MountedTypes ==
  ASSUME Mounted
  PROVE  /\ form' \in Forms /\ mcpSession' \in Sids \union {None}
         /\ busy' \in BOOLEAN /\ response' \in Sends \union {None}
         /\ latest' \in Sends \union {None} /\ opened' \subseteq Sids
<1>1. busy' \in BOOLEAN
  BY Zenon DEF Mounted
<1>2. QED BY <1>1, FormTypes DEF Mounted

LEMMA TabInitType == Init => TabTyped
<1> SUFFICES ASSUME Init PROVE TabTyped
  OBVIOUS
<1>1. busy \in BOOLEAN
  BY Zenon DEF Init
<1>2. QED BY <1>1, FormTypes, SendTypes DEF Init, TabTyped

(* The record of a click.                                                  *)
Fresh(sid) ==
  [at |-> IF form.auth = "s2s" THEN "helper" ELSE "sent", own |-> TRUE,
   mode |-> form.mode, as |-> Caller(form), sid |-> sid, got |-> None]

LEMMA SendAs ==
  ASSUME TabTyped, NEW k \in Sends, Send(k)
  PROVE  \E sid \in Sids \union {None} :
           /\ form.mode = "mcp" /\ Caller(form) # "none" /\ mcpSession # None
                => sid = mcpSession
           /\ Fresh(sid) \in Records
           /\ send' = [send EXCEPT ![k] = Fresh(sid)]
           /\ ~busy /\ busy' /\ busy' \in BOOLEAN /\ response' = None /\ latest' = k
           /\ UNCHANGED <<open, form, mcpSession, sessions, opened>>
<1>1. PICK sid \in Carries(form) : Clicked(k, sid)
  BY DEF Send
<1>2. busy' \in BOOLEAN /\ busy' /\ ~busy
  BY <1>1, Zenon DEF Send, Clicked
<1>3. /\ sid \in Sids \union {None}
      /\ form.mode = "mcp" /\ Caller(form) # "none" /\ mcpSession # None
           => sid = mcpSession
  BY DEF Carries, TabTyped
<1>4. Fresh(sid) \in Records
  BY <1>3, SendTypes DEF Fresh, Records, TabTyped, Forms
<1>5. send' = [send EXCEPT ![k] = Fresh(sid)] /\ response' = None /\ latest' = k
      /\ UNCHANGED <<open, form, mcpSession, sessions, opened>>
  BY <1>1 DEF Clicked, Fresh
<1>6. QED BY <1>2, <1>3, <1>4, <1>5

(* What an answer of PartnerAPI's transport may be.                        *)
LEMMA ServeAs ==
  ASSUME TabTyped, NEW k \in Sends, Serve(k)
  PROVE  \E i \in Sids \union {None} :
           /\ send' = [send EXCEPT ![k].at = "answered", ![k].got = i]
           /\ \/ /\ i # None /\ send[k].as # "none" /\ send[k].sid = None
                 /\ sessions' = [sessions EXCEPT ![i] = send[k].as]
                 /\ opened' = IF send[k].own THEN opened \union {i} ELSE opened
              \/ /\ i # None /\ send[k].as # "none" /\ i = send[k].sid
                 /\ UNCHANGED <<sessions, opened>>
              \/ i = None /\ UNCHANGED <<sessions, opened>>
           /\ send[k].at = "sent" /\ UNCHANGED oboUi
BY OboAssumption DEF Serve, TabTyped, Records

LEMMA TabStepType == TabTyped /\ [Next]_vars => TabTyped'
<1> SUFFICES ASSUME TabTyped, [Next]_vars PROVE TabTyped'
  OBVIOUS
<1> USE DEF oboUi
<1>0. \A k \in Sends : send[k] \in Records
  BY DEF TabTyped
<1>1. ASSUME NEW p \in Presets, ApplyPreset(p) PROVE TabTyped'
  BY <1>1, FormTypes DEF ApplyPreset, TabTyped
<1>2. ASSUME NEW f \in Forms, Edit(f) PROVE TabTyped'
  BY <1>2 DEF Edit, TabTyped
<1>3. ASSUME NEW i \in Sids \union {None}, TypeSession(i) PROVE TabTyped'
  BY <1>3 DEF TypeSession, TabTyped
<1>4. ASSUME NEW k \in Sends, Send(k) PROVE TabTyped'
  BY <1>4, SendAs DEF TabTyped
<1>5. ASSUME NEW k \in Sends, HelperAnswers(k) PROVE TabTyped'
  BY <1>0, <1>5 DEF HelperAnswers, TabTyped, Records
<1>6. ASSUME NEW k \in Sends, Serve(k) PROVE TabTyped'
  <2>1. PICK i \in Sids \union {None} :
           /\ send' = [send EXCEPT ![k].at = "answered", ![k].got = i]
           /\ \/ /\ i # None
                 /\ sessions' = [sessions EXCEPT ![i] = send[k].as]
                 /\ opened' = IF send[k].own THEN opened \union {i} ELSE opened
                 /\ send[k].as # "none"
              \/ UNCHANGED <<sessions, opened>>
           /\ UNCHANGED oboUi
    BY <1>6, ServeAs
  <2>2. send' \in [Sends -> Records]
    <3>1. [send[k] EXCEPT !.at = "answered", !.got = i] \in Records
      BY <1>0 DEF Records
    <3>2. QED BY <2>1, <3>1 DEF TabTyped
  <2>3. send[k].as \in {"user", "app", "none"}
    BY <1>0 DEF Records
  <2>4. sessions' \in [Sids -> {"user", "app", None}]
    BY <2>1, <2>3 DEF TabTyped
  <2>5. opened' \subseteq Sids
    BY <2>1 DEF TabTyped
  <2>6. QED BY <2>1, <2>2, <2>4, <2>5 DEF TabTyped
<1>7. ASSUME NEW k \in Sends, HeadersArrive(k) PROVE TabTyped'
  <2>1. send' \in [Sends -> Records]
    BY <1>0, <1>7 DEF HeadersArrive, TabTyped, Records
  <2>2. mcpSession' \in Sids \union {None} /\ opened' \subseteq Sids
    BY <1>0, <1>7 DEF HeadersArrive, TabTyped, Records
  <2>3. QED BY <1>7, <2>1, <2>2 DEF HeadersArrive, TabTyped
<1>8. ASSUME NEW k \in Sends, Finish(k), opened' \subseteq opened PROVE TabTyped'
  <2>1. busy' \in BOOLEAN
    <3>1. busy \in BOOLEAN
      BY DEF TabTyped
    <3>2. QED BY <1>8, <3>1, Zenon DEF Finish
  <2>2. QED BY <1>8, <2>1, SendTypes DEF Finish, TabTyped
<1>9. ASSUME NEW k \in Sends, BodyEnds(k) \/ Fails(k) PROVE TabTyped'
  BY <1>8, <1>9 DEF BodyEnds, Fails
<1>10. CASE OpenLogs
  <2>1. send' \in [Sends -> Records]
    <3>1. ASSUME NEW r \in Records PROVE [r EXCEPT !.own = FALSE] \in Records
      BY <3>1 DEF Records
    <3>2. QED BY <1>0, <1>10, <3>1 DEF OpenLogs, TabTyped
  <2>2. QED BY <1>10, <2>1, MountedTypes DEF OpenLogs, TabTyped
<1>11. CASE OpenObo
  BY <1>11 DEF OpenObo, TabTyped
<1>12. ASSUME NEW i \in Sids, SessionEnds(i) PROVE TabTyped'
  BY <1>12 DEF SessionEnds, TabTyped
<1>13. CASE LogsTabStep \/ UNCHANGED vars
  BY <1>13 DEF LogsTabStep, vars, TabTyped
<1>14. QED
  BY <1>1, <1>2, <1>3, <1>4, <1>5, <1>6, <1>7, <1>9, <1>10, <1>11, <1>12, <1>13
     DEF Next, FormStep, Progress

(* The request tab and the log keep their types (TypeOK).                  *)
THEOREM TypeCorrect == Spec => []TypeOK
<1>1. Init => LogInv /\ TabTyped
  BY LogInitInv, TabInitType DEF Init
<1>2. LogInv /\ TabTyped /\ [Next]_vars => LogInv' /\ TabTyped'
  BY LogStepInv, StepLogs, TabStepType
<1>3. LogInv /\ TabTyped => TypeOK
  BY DEF LogInv, TabTyped, TypeOK
<1>4. QED BY <1>1, <1>2, <1>3, PTL DEF Spec

-----------------------------------------------------------------------------
(***************************************************************************)
(* The mounted tab has at most one send under way, its last one; until it  *)
(* is answered, a send in MCP mode carries the id of the session the tab   *)
(* keeps, and its answer leaves the tab no other.                          *)
(***************************************************************************)
OwnIsLatest ==
  \A k \in Sends : send[k].own =>
    send[k].at # "idle" /\ latest = k /\ busy /\ response = None

CarriedBy(k) ==
  /\ (send[k].at \in {"helper", "sent"} /\ send[k].mode = "mcp"
      /\ send[k].as # "none" /\ mcpSession \in opened)
       => send[k].sid = mcpSession
  /\ send[k].at = "answered" /\ send[k].got # None =>
       \A i \in opened : \/ i = send[k].got
                         \/ send[k].mode = "rest" /\ i = mcpSession

Carried == \A k \in Sends : send[k].own => CarriedBy(k)

BusyHasSend == busy => \E k \in Sends : send[k].own

TabInv ==
  TabTyped /\ OwnIsLatest /\ BusyHasSend /\ ResponseIsOfLastSend /\ Carried
  /\ OpenedIsKept

LEMMA TabInitInv == Init => TabInv
<1> SUFFICES ASSUME Init PROVE TabInv
  OBVIOUS
<1>1. \A k \in Sends : ~send[k].own
  BY SendTypes DEF Init
<1>2. opened = {} /\ response = None /\ ~busy
  BY DEF Init
<1>3. QED
  BY <1>1, <1>2, TabInitType
     DEF TabInv, OwnIsLatest, BusyHasSend, ResponseIsOfLastSend, Carried,
         OpenedIsKept

(* A step that leaves the sends alone, and only forgets sessions opened.   *)
LEMMA FormInv ==
  ASSUME TabInv, UNCHANGED <<busy, response, latest, send>>,
         opened' \subseteq opened,
         mcpSession' # mcpSession => mcpSession \notin opened'
  PROVE  (OwnIsLatest /\ BusyHasSend /\ ResponseIsOfLastSend /\ Carried
            /\ OpenedIsKept)'
<1>1. OwnIsLatest' /\ BusyHasSend' /\ ResponseIsOfLastSend'
  BY DEF TabInv, OwnIsLatest, BusyHasSend, ResponseIsOfLastSend
<1>2. OpenedIsKept'
  BY DEF TabInv, OpenedIsKept
<1>3. ASSUME NEW k \in Sends, send[k].own, mcpSession' # mcpSession,
             send[k].at \in {"helper", "sent"}
      PROVE  opened' = {}
  BY <1>3 DEF TabInv, OwnIsLatest, OpenedIsKept
<1>4. Carried'
  BY <1>3 DEF TabInv, Carried, CarriedBy
<1>5. QED BY <1>1, <1>2, <1>4

(* A send that ends, of this tab or of one that was left.                  *)
LEMMA FinishInv ==
  ASSUME TabInv, NEW k \in Sends, send[k].at # "idle", Finish(k),
         opened' = IF send[k].at = "answered" THEN opened \ {send[k].got} ELSE opened
  PROVE  (OwnIsLatest /\ BusyHasSend /\ ResponseIsOfLastSend /\ Carried
            /\ OpenedIsKept)'
<1>0. ~send'[k].own /\ \A q \in Sends \ {k} : send'[q] = send[q]
  BY SendTypes DEF Finish, TabInv, TabTyped
<1>1. UNCHANGED <<mcpSession, latest>>
  BY DEF Finish
<1>2. CASE send[k].own
  <2>1. \A q \in Sends : ~send'[q].own
    BY <1>0, <1>2 DEF TabInv, OwnIsLatest
  <2>2. response' = k /\ ~busy' /\ latest = k
    BY <1>2 DEF Finish, TabInv, OwnIsLatest
  <2>3. \A i \in opened' : mcpSession = i
    BY <1>2 DEF TabInv, OwnIsLatest, OpenedIsKept
  <2>4. QED
    BY <1>1, <2>1, <2>2, <2>3
       DEF OwnIsLatest, BusyHasSend, ResponseIsOfLastSend, Carried, OpenedIsKept
<1>3. CASE ~send[k].own
  <2>1. UNCHANGED <<response, busy>> /\ opened' \subseteq opened
    BY <1>3 DEF Finish
  <2>2. OwnIsLatest' /\ ResponseIsOfLastSend'
    BY <1>0, <1>1, <2>1 DEF TabInv, OwnIsLatest, ResponseIsOfLastSend
  <2>b. BusyHasSend'
    BY <1>0, <1>3, <2>1 DEF TabInv, BusyHasSend
  <2>3. Carried'
    BY <1>0, <1>1, <2>1 DEF TabInv, Carried, CarriedBy
  <2>4. OpenedIsKept'
    BY <1>0, <1>1, <1>3, <2>1 DEF TabInv, OpenedIsKept
  <2>5. QED BY <2>2, <2>b, <2>3, <2>4
<1>4. QED BY <1>2, <1>3

LEMMA TabStepInv == TabInv /\ [Next]_vars => TabInv'
<1> SUFFICES ASSUME TabInv, [Next]_vars
             PROVE  (OwnIsLatest /\ BusyHasSend /\ ResponseIsOfLastSend /\ Carried
            /\ OpenedIsKept)'
  BY TabStepType DEF TabInv
<1> DEFINE Goal == /\ OwnIsLatest /\ BusyHasSend /\ ResponseIsOfLastSend
                   /\ Carried /\ OpenedIsKept
<1> USE DEF oboUi
<1>0. TabTyped /\ \A k \in Sends : send[k] \in Records
  BY DEF TabInv, TabTyped
<1>1. CASE FormStep
  <2>1. ASSUME NEW i \in Sids \union {None}, TypeSession(i) PROVE Goal'
    BY <2>1, FormInv DEF TypeSession
  <2>2. ASSUME NEW p, ApplyPreset(p) \/ Edit(p) PROVE Goal'
    BY <2>2, FormInv DEF ApplyPreset, Edit
  <2>3. QED BY <1>1, <2>1, <2>2 DEF FormStep
<1>2. ASSUME NEW k \in Sends, Send(k) PROVE Goal'
  <2>1. PICK sid \in Sids \union {None} :
           /\ form.mode = "mcp" /\ Caller(form) # "none" /\ mcpSession # None
                => sid = mcpSession
           /\ Fresh(sid) \in Records
           /\ send' = [send EXCEPT ![k] = Fresh(sid)]
           /\ ~busy /\ busy' /\ response' = None /\ latest' = k
           /\ UNCHANGED <<mcpSession, opened>>
    BY <1>0, <1>2, SendAs
  <2>2. \A q \in Sends : ~send[q].own
    BY <2>1 DEF TabInv, OwnIsLatest
  <2> DEFINE r == Fresh(sid)
  <2>3. r.at \in {"helper", "sent"} /\ r.own /\ r.sid = sid
        /\ (r.mode = "mcp" /\ r.as # "none" /\ mcpSession # None
              => sid = mcpSession)
    BY <2>1 DEF Fresh
  <2> HIDE DEF r
  <2>4. send'[k] = r /\ \A q \in Sends \ {k} : send'[q] = send[q]
    BY <1>0, <2>1 DEF TabTyped, r
  <2>5. OwnIsLatest' /\ ResponseIsOfLastSend'
    BY <2>1, <2>2, <2>3, <2>4 DEF OwnIsLatest, ResponseIsOfLastSend
  <2>b. BusyHasSend'
    BY <2>3, <2>4 DEF BusyHasSend
  <2>6. Carried'
    <3>1. mcpSession \in opened => mcpSession # None
      BY <1>0, OboAssumption DEF TabTyped
    <3>2. CarriedBy(k)'
      BY <2>1, <2>3, <2>4, <3>1 DEF CarriedBy
    <3>3. \A q \in Sends \ {k} : ~send'[q].own
      BY <2>2, <2>4
    <3>4. QED BY <3>2, <3>3 DEF Carried
  <2>7. \A i \in opened : mcpSession = i
    BY <2>2 DEF TabInv, OpenedIsKept
  <2>8. OpenedIsKept'
    BY <2>1, <2>7 DEF OpenedIsKept
  <2>9. QED BY <2>5, <2>b, <2>6, <2>8
<1>3. ASSUME NEW k \in Sends, HelperAnswers(k) PROVE Goal'
  <2>1. /\ send'[k] = [send[k] EXCEPT !.at = "sent"] /\ send[k].at = "helper"
        /\ \A q \in Sends \ {k} : send'[q] = send[q]
        /\ UNCHANGED <<mcpSession, busy, response, latest, opened>>
    BY <1>0, <1>3 DEF HelperAnswers, TabTyped
  <2>2. /\ send'[k].at = "sent" /\ send'[k].own = send[k].own
        /\ send'[k].as = send[k].as /\ send'[k].sid = send[k].sid
        /\ send'[k].mode = send[k].mode
    BY <1>0, <2>1 DEF Records
  <2>3. OwnIsLatest' /\ BusyHasSend' /\ ResponseIsOfLastSend'
    <3>1. \A q \in Sends : send'[q].own = send[q].own
      BY <2>1, <2>2
    <3>2. \A q \in Sends : send[q].at # "idle" => send'[q].at # "idle"
      BY <2>1, <2>2
    <3>3. OwnIsLatest'
      BY <2>1, <3>1, <3>2 DEF TabInv, OwnIsLatest
    <3>4. BusyHasSend'
      BY <2>1, <3>1 DEF TabInv, BusyHasSend
    <3>5. ResponseIsOfLastSend'
      BY <2>1 DEF TabInv, ResponseIsOfLastSend
    <3>6. QED BY <3>3, <3>4, <3>5
  <2>4. Carried'
    <3>1. send[k].at = "helper" /\ UNCHANGED <<mcpSession, opened>>
          /\ \A q \in Sends \ {k} : send'[q] = send[q]
      BY <2>1
    <3>2. QED BY <2>2, <3>1 DEF TabInv, Carried, CarriedBy
  <2>5. OpenedIsKept'
    BY <2>1, <2>2 DEF TabInv, OpenedIsKept
  <2>6. QED BY <2>3, <2>4, <2>5
<1>4. ASSUME NEW k \in Sends, Serve(k) PROVE Goal'
  <2>1. PICK i \in Sids \union {None} :
           /\ send' = [send EXCEPT ![k].at = "answered", ![k].got = i]
           /\ \/ /\ i # None /\ send[k].as # "none" /\ send[k].sid = None
                 /\ opened' = IF send[k].own THEN opened \union {i} ELSE opened
              \/ /\ i # None /\ send[k].as # "none" /\ i = send[k].sid
                 /\ UNCHANGED opened
              \/ i = None /\ UNCHANGED opened
           /\ send[k].at = "sent" /\ UNCHANGED oboUi
    BY <1>0, <1>4, ServeAs
  <2>2. /\ send'[k].at = "answered" /\ send'[k].got = i /\ send'[k].own = send[k].own
        /\ send'[k].mode = send[k].mode
        /\ \A q \in Sends \ {k} : send'[q] = send[q]
    BY <1>0, <2>1 DEF Records, TabTyped
  <2>3. OwnIsLatest' /\ BusyHasSend' /\ ResponseIsOfLastSend'
    BY <2>1, <2>2 DEF TabInv, OwnIsLatest, BusyHasSend, ResponseIsOfLastSend
  <2>4. CASE ~send[k].own
    <3>1. UNCHANGED <<mcpSession, opened>>
      BY <2>1, <2>4
    <3>2. QED BY <2>2, <2>3, <2>4, <3>1 DEF TabInv, Carried, CarriedBy, OpenedIsKept
  <2>5. CASE send[k].own
    <3>1. \A q \in Sends \ {k} : ~send'[q].own
      BY <2>2, <2>5 DEF TabInv, OwnIsLatest
    <3>2. opened \subseteq {mcpSession}
      BY <2>1, <2>5 DEF TabInv, OwnIsLatest, OpenedIsKept
    <3>3. /\ send[k].mode = "mcp" /\ mcpSession \in opened /\ i # None
               => send[k].sid = mcpSession
          /\ send[k].mode \in {"rest", "mcp"}
      BY <1>0, <2>1, <2>5 DEF TabInv, Carried, CarriedBy, Records
    <3>4. mcpSession \in opened => mcpSession # None
      BY <1>0, OboAssumption DEF TabTyped
    <3>5. i # None =>
            \A j \in opened' : j = i \/ (send[k].mode = "rest" /\ j = mcpSession)
      BY <2>1, <2>5, <3>2, <3>3, <3>4
    <3>6. i = None => opened' = opened
      BY <2>1
    <3>7. Carried'
      <4>1. CarriedBy(k)'
        BY <2>1, <2>2, <3>5 DEF CarriedBy
      <4>2. QED BY <3>1, <4>1 DEF Carried
    <3>8. OpenedIsKept'
      BY <2>1, <2>2, <2>5, <3>2, <3>5, <3>6 DEF OpenedIsKept
    <3>9. QED BY <2>3, <3>7, <3>8
  <2>6. QED BY <2>4, <2>5
<1>5. ASSUME NEW k \in Sends, HeadersArrive(k) PROVE Goal'
  <2>1. send[k].at = "answered" /\ UNCHANGED <<busy, response, latest>>
    BY <1>5 DEF HeadersArrive
  <2>2. /\ send'[k].at = "reading" /\ send'[k].own = send[k].own
        /\ \A q \in Sends \ {k} : send'[q] = send[q]
    BY <1>0, <1>5 DEF HeadersArrive, TabTyped, Records
  <2>3. OwnIsLatest' /\ BusyHasSend' /\ ResponseIsOfLastSend'
    BY <2>1, <2>2 DEF TabInv, OwnIsLatest, BusyHasSend, ResponseIsOfLastSend
  <2>4. CASE ~send[k].own
    <3>1. UNCHANGED <<mcpSession, opened>>
      BY <1>5, <2>4 DEF HeadersArrive
    <3>2. QED BY <2>2, <2>3, <2>4, <3>1 DEF TabInv, Carried, CarriedBy, OpenedIsKept
  <2>5. CASE send[k].own
    <3>1. \A q \in Sends \ {k} : ~send'[q].own
      BY <2>2, <2>5 DEF TabInv, OwnIsLatest
    <3>2. Carried'
      <4>1. CarriedBy(k)'
        BY <2>2 DEF CarriedBy
      <4>2. QED BY <3>1, <4>1 DEF Carried
    <3>3. \A i \in opened : mcpSession = i \/ send[k].got = i
      BY <2>2, <2>5, <3>1 DEF TabInv, OpenedIsKept
    <3>4. None \notin opened
      BY <1>0, OboAssumption DEF TabTyped
    <3>5. CASE send[k].got = None
      <4>1. UNCHANGED <<mcpSession, opened>>
        BY <1>5, <3>5 DEF HeadersArrive
      <4>2. \A i \in opened' : mcpSession' = i
        BY <3>3, <3>4, <3>5, <4>1
      <4>3. QED BY <2>3, <3>2, <4>2 DEF OpenedIsKept
    <3>6. CASE send[k].got # None
      <4>1. \A i \in opened : \/ i = send[k].got
                              \/ send[k].mode = "rest" /\ i = mcpSession
        BY <2>1, <2>5, <3>6 DEF TabInv, Carried, CarriedBy
      <4>2. /\ mcpSession' = send[k].got
            /\ opened' = IF send[k].mode = "rest" /\ mcpSession # send[k].got
                         THEN opened \ {mcpSession} ELSE opened
        BY <1>5, <2>5, <3>6 DEF HeadersArrive
      <4>3. \A i \in opened' : mcpSession' = i
        BY <4>1, <4>2
      <4>4. QED BY <2>3, <3>2, <4>3 DEF OpenedIsKept
    <3>7. QED BY <3>5, <3>6
  <2>6. QED BY <2>4, <2>5
<1>6. ASSUME NEW k \in Sends, BodyEnds(k) \/ Fails(k) PROVE Goal'
  BY <1>6, FinishInv DEF BodyEnds, Fails
<1>7. CASE OpenLogs
  <2>1. opened' = {} /\ response' = None /\ ~busy'
    BY <1>7 DEF OpenLogs, Mounted
  <2>2. \A k \in Sends : ~send'[k].own
    BY <1>0, <1>7 DEF OpenLogs, Records
  <2>3. QED
    BY <2>1, <2>2
       DEF OwnIsLatest, BusyHasSend, ResponseIsOfLastSend, Carried, OpenedIsKept
<1>8. ASSUME NEW i \in Sids, SessionEnds(i) PROVE Goal'
  BY <1>8, FormInv DEF SessionEnds
<1>9. CASE OpenObo \/ LogsTabStep \/ UNCHANGED vars
  BY <1>9, FormInv DEF OpenObo, LogsTabStep, vars
<1>10. QED
  BY <1>1, <1>2, <1>3, <1>4, <1>5, <1>6, <1>7, <1>8, <1>9 DEF Next, Progress

LEMMA TabAlways == Spec => []TabInv
<1>1. Init => TabInv BY TabInitInv
<1>2. TabInv /\ [Next]_vars => TabInv' BY TabStepInv
<1>3. QED BY <1>1, <1>2, PTL DEF Spec

(* ResponseIsOfLastSend: the button is disabled until the send of this tab *)
(* ends, and a tab that was left has no part in the new one's state.       *)
THEOREM LastSendShown == Spec => []ResponseIsOfLastSend
<1>1. TabInv => ResponseIsOfLastSend BY DEF TabInv
<1>2. QED BY <1>1, TabAlways, PTL

(* BusyIsSending, the safety half of SendEnds: the mounted tab's button is *)
(* disabled from the start of its send to that send's own end.             *)
THEOREM ButtonWaitsForItsSend == Spec => []BusyIsSending
<1>1. TabInv => BusyIsSending BY DEF TabInv, OwnIsLatest, BusyHasSend, BusyIsSending
<1>2. QED BY <1>1, TabAlways, PTL

(* OpenedIsKept: a send in MCP mode that opens a session carried no id     *)
(* because the tab kept none, so what its answer replaces was not a        *)
(* session of the tab; one in REST mode replaces no more than the id kept. *)
THEOREM SessionsKept == Spec => []OpenedIsKept
<1>1. TabInv => OpenedIsKept BY DEF TabInv
<1>2. QED BY <1>1, TabAlways, PTL
=============================================================================
