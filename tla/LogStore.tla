------------------------------ MODULE LogStore ------------------------------
(***************************************************************************)
(* The log of the SPA (src/Web/src/utils/logger.ts) and the tab that shows *)
(* it (LogsTab.tsx).  Other components log in steps of their own, with the *)
(* operator Log; the tab subscribes to the store some time after it was    *)
(* rendered.  An entry is its id: what it says, and which entries the tab  *)
(* filters out, is left out.                                               *)
(***************************************************************************)
EXTENDS Naturals, Sequences

CONSTANT MaxLog   \* max, 5000 entries

ASSUME LogAssumption == MaxLog \in Nat \ {0}

VARIABLES entries,    \* Logger.entries
          nextEntry,  \* Logger.nextId
          logsTab,    \* LogsTab: "off", "rendered" or "subscribed"
          shown,      \* its items
          missed      \* history: the log changed before the tab subscribed

log == <<entries, nextEntry, logsTab, shown, missed>>

LogInit ==
  /\ entries = <<>>
  /\ nextEntry = 1
  /\ logsTab = "off" /\ shown = <<>> /\ missed = FALSE

(* The listeners take a new snapshot.                                      *)
Notified ==
  /\ shown' = IF logsTab = "subscribed" THEN entries' ELSE shown
  /\ missed' = (logsTab = "rendered")
  /\ UNCHANGED logsTab

(* splice drops the oldest entries.                                        *)
Kept(s) == SubSeq(s, IF Len(s) > MaxLog THEN Len(s) - MaxLog + 1 ELSE 1, Len(s))

Log ==
  /\ entries' = Kept(Append(entries, nextEntry))
  /\ nextEntry' = nextEntry + 1
  /\ Notified

ClearLogSilently ==
  /\ logsTab = "subscribed"
  /\ entries' = <<>>
  /\ UNCHANGED <<nextEntry, logsTab, shown, missed>>

(* Clear: the listeners get a reset entry that is not stored.              *)
ClearLog ==
  /\ logsTab = "subscribed"
  /\ entries' = <<>>
  /\ Notified
  /\ UNCHANGED nextEntry

(* The tab: rendered with a snapshot, subscribed in an effect, unmounted.  *)
LogsRender ==
  /\ logsTab = "off"
  /\ logsTab' = "rendered" /\ shown' = entries /\ missed' = FALSE
  /\ UNCHANGED <<entries, nextEntry>>

LogsSubscribe ==
  /\ logsTab = "rendered"
  /\ logsTab' = "subscribed"
  /\ UNCHANGED <<entries, nextEntry, shown, missed>>

LogsUnmount ==
  /\ logsTab = "subscribed"
  /\ logsTab' = "off" /\ shown' = <<>> /\ missed' = FALSE
  /\ UNCHANGED <<entries, nextEntry>>

-----------------------------------------------------------------------------
(* What the variables may hold.                                            *)
LogTypeOK ==
  /\ entries \in Seq(Nat) /\ shown \in Seq(Nat)
  /\ nextEntry \in Nat \ {0}
  /\ logsTab \in {"off", "rendered", "subscribed"} /\ missed \in BOOLEAN

(* The log is the latest entries since the last clear, at most max, with   *)
(* consecutive ids, which name the rows of the tab and which a clear does  *)
(* not start again (push, splice and clear of Logger).                     *)
LogIsRecent ==
  /\ Len(entries) <= MaxLog
  /\ \A i \in DOMAIN entries : entries[i] = nextEntry - Len(entries) + i - 1

(* The tab shows the log as it is, except for what was logged, by a send   *)
(* of a tab that was left say, between its render and its subscription,    *)
(* and that only until the next entry (LogsTab.tsx takes its snapshot and  *)
(* subscribes in different steps).                                         *)
LogViewIsCurrent == logsTab # "off" /\ ~missed => shown = entries

(* So the tab shows the latest entries, bounded and each under its id.     *)
LogIsShown == LogIsRecent /\ LogViewIsCurrent
=============================================================================
