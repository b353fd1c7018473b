------------------------------- MODULE OboTab -------------------------------
(***************************************************************************)
(* The request tab of the SPA (OboTab.tsx) next to its log: the form, the  *)
(* sends under way, which outlive the tab that sent them, the MCP session  *)
(* id the tab keeps from one send to the next, and the MCP sessions that   *)
(* PartnerAPI's transport holds for its two mounts.                        *)
(***************************************************************************)
EXTENDS LogStore, FiniteSets

CONSTANTS Sends,      \* places of sends under way, of this tab and left ones
          Sids,       \* MCP session ids; one is used again once forgotten
          None,       \* no value
          Auths,      \* ways to authenticate, of those the form offers
          MaxEntry    \* bound on the entries logged

ASSUME OboAssumption ==
  /\ MaxEntry \in Nat
  /\ None \notin Sends \union Sids
  /\ "user" \in Auths /\ Auths \subseteq {"user", "s2s", "none"}

VARIABLES open,        \* tab of MainApp: "obo" or "logs"
          form,        \* mode, url and reqAuth
          mcpSession,  \* the id the tab keeps, or that was typed
          busy,
          response,    \* the send whose outcome is shown
          send,
          sessions,    \* the caller each MCP session was opened by
          latest,      \* history: the last send of the mounted tab
          opened       \* history: sessions opened for the mounted tab whose
                       \* id it was sent and its user did not replace

oboUi == <<open, form, mcpSession, busy, response, latest>>
vars == <<log, oboUi, send, sessions, opened>>

(* The mounts of the BFF act for the user or for the app; a REST url opens *)
(* no MCP session.                                                         *)
Urls == {"rest", "mcp-obo", "mcp-s2s"}
Forms == [mode : {"rest", "mcp"}, url : Urls, auth : Auths]
Presets == {[mode |-> "rest", url |-> "rest", auth |-> "user"],
            [mode |-> "mcp", url |-> "mcp-obo", auth |-> "user"],
            [mode |-> "mcp", url |-> "mcp-s2s", auth |-> "user"]}
DefaultForm == [mode |-> "rest", url |-> "rest", auth |-> "user"]

(* A send: how far it is, whether its tab is still there, the mode it was  *)
(* sent in, as whom it may reach PartnerAPI, the session it carries and    *)
(* the one it is answered.                                                 *)
Records == [at : {"idle", "helper", "sent", "answered", "reading"},
            own : BOOLEAN, mode : {"rest", "mcp"}, as : {"user", "app", "none"},
            sid : Sids \union {None}, got : Sids \union {None}]
NoSend ==
  [at |-> "idle", own |-> FALSE, mode |-> "rest", as |-> "none", sid |-> None,
   got |-> None]

Mounted ==
  /\ form' = DefaultForm /\ mcpSession' = None
  /\ busy' = FALSE /\ response' = None /\ latest' = None
  /\ opened' = {}

Init ==
  /\ LogInit
  /\ open = "obo"
  /\ form = DefaultForm /\ mcpSession = None
  /\ busy = FALSE /\ response = None /\ latest = None
  /\ opened = {}
  /\ send = [k \in Sends |-> NoSend]
  /\ sessions = [i \in Sids |-> None]

-----------------------------------------------------------------------------
(* The form.                                                               *)

(* Room in the log for this entry and the last one of each send under way. *)
Budget ==
  nextEntry + 1 + Cardinality({k \in Sends : send[k].at # "idle"}) <= MaxEntry

(* A preset leaves the MCP session id alone.                               *)
ApplyPreset(p) ==
  /\ open = "obo" /\ Budget
  /\ form' = p
  /\ Log
  /\ UNCHANGED <<open, mcpSession, busy, response, latest, send, sessions, opened>>

(* The radio buttons and the url, while there is room to send the form.    *)
Edit(f) ==
  /\ open = "obo" /\ f # form /\ Budget
  /\ \/ f = [form EXCEPT !.mode = f.mode]
     \/ f = [form EXCEPT !.url = f.url]
     \/ f = [form EXCEPT !.auth = f.auth]
  /\ form' = f
  /\ UNCHANGED <<log, open, mcpSession, busy, response, latest, send, sessions, opened>>

(* The session field.                                                      *)
TypeSession(i) ==
  /\ open = "obo" /\ form.mode = "mcp"
  /\ i # mcpSession /\ mcpSession' = i
  /\ opened' = opened \ {mcpSession}
  /\ UNCHANGED <<log, open, form, busy, response, latest, send, sessions>>

-----------------------------------------------------------------------------
(* send().                                                                 *)

(* Whom the BFF acts for if it lets a request through.  It does not see    *)
(* the mode, and the headers typed may authenticate the user; only the     *)
(* app's token that "s2s" sends is never let through.                      *)
Caller(f) ==
  IF f.auth = "s2s" THEN "none"
  ELSE CASE f.url = "mcp-obo" -> "user"
         [] f.url = "mcp-s2s" -> "app"
         [] f.url = "rest" -> "none"

(* The ids a request may carry: the one kept, in MCP mode, or one typed    *)
(* among the headers.  One that gets to PartnerAPI as nobody is refused    *)
(* whatever it carries.                                                    *)
Carries(f) ==
  IF Caller(f) = "none" THEN {None}
  ELSE IF f.mode = "mcp" /\ mcpSession # None THEN {mcpSession}
  ELSE Sids \union {None}

Clicked(k, sid) ==
  /\ open = "obo" /\ Budget
  /\ send[k].at = "idle"
  /\ busy' = TRUE /\ response' = None /\ latest' = k
  /\ send' = [send EXCEPT ![k] =
       [at |-> IF form.auth = "s2s" THEN "helper" ELSE "sent", own |-> TRUE,
        mode |-> form.mode, as |-> Caller(form), sid |-> sid, got |-> None]]
  /\ Log
  /\ UNCHANGED <<open, form, mcpSession, sessions, opened>>

SendAgain(k) == \E sid \in Carries(form) : Clicked(k, sid)
SendUnresumed(k) == ~busy /\ Clicked(k, None)

(* The button is disabled while busy.                                      *)
Send(k) == ~busy /\ \E sid \in Carries(form) : Clicked(k, sid)

(* The helper's token is there, and the request itself is sent.            *)
HelperAnswers(k) ==
  /\ send[k].at = "helper"
  /\ send' = [send EXCEPT ![k].at = "sent"]
  /\ UNCHANGED <<log, oboUi, sessions, opened>>

(* An id nothing refers to.                                                *)
Unused(i) ==
  /\ sessions[i] = None /\ mcpSession # i
  /\ \A k \in Sends : i \notin {send[k].sid, send[k].got}

(* PartnerAPI's transport: no id opens a session, the id of a session of   *)
(* the same caller resumes it, and both are named in the answer.  Another  *)
(* id is refused, and so is what is not MCP or what the BFF does not let   *)
(* through, with no id named.                                              *)
Serve(k) ==
  /\ send[k].at = "sent"
  /\ LET as == send[k].as
         sid == send[k].sid
         Answer(i) == send' = [send EXCEPT ![k].at = "answered", ![k].got = i]
     IN \/ /\ as # "none" /\ sid = None
           /\ \E i \in Sids :
                /\ Unused(i)
                /\ sessions' = [sessions EXCEPT ![i] = as]
                /\ opened' = IF send[k].own THEN opened \union {i} ELSE opened
                /\ Answer(i)
        \/ /\ as # "none" /\ sid # None /\ sessions[sid] = as
           /\ Answer(sid)
           /\ UNCHANGED <<sessions, opened>>
        \/ Answer(None) /\ UNCHANGED <<sessions, opened>>
  /\ UNCHANGED <<log, oboUi>>

(* The headers: an id they name is kept, in whatever mode the request was  *)
(* sent; so a request of one's own making may replace the id kept.         *)
HeadersArrive(k) ==
  /\ send[k].at = "answered"
  /\ send' = [send EXCEPT ![k].at = "reading"]
  /\ IF send[k].own /\ send[k].got # None
     THEN /\ mcpSession' = send[k].got
          /\ opened' = IF send[k].mode = "rest" /\ mcpSession # send[k].got
                       THEN opened \ {mcpSession} ELSE opened
     ELSE UNCHANGED <<mcpSession, opened>>
  /\ UNCHANGED <<log, open, form, busy, response, latest, sessions>>

FinishAnyBusy(k) ==
  /\ send' = [send EXCEPT ![k] = NoSend]
  /\ response' = IF send[k].own THEN k ELSE response
  /\ busy' = FALSE
  /\ Log
  /\ UNCHANGED <<open, form, mcpSession, latest, sessions>>

(* The end of a send: shown if its tab is still there, logged in any case. *)
Finish(k) ==
  /\ send' = [send EXCEPT ![k] = NoSend]
  /\ IF send[k].own THEN response' = k /\ busy' = FALSE
                    ELSE UNCHANGED <<response, busy>>
  /\ Log
  /\ UNCHANGED <<open, form, mcpSession, latest, sessions>>

BodyEnds(k) ==
  /\ send[k].at = "reading"
  /\ Finish(k)
  /\ UNCHANGED opened

FailsBusy(k) ==
  /\ send[k].at # "idle"
  /\ send' = [send EXCEPT ![k] = NoSend]
  /\ response' = IF send[k].own THEN k ELSE response
  /\ Log
  /\ UNCHANGED <<open, form, mcpSession, busy, latest, sessions, opened>>

(* An await of send() rejects.  An id that was not read is lost.           *)
Fails(k) ==
  /\ send[k].at # "idle"
  /\ Finish(k)
  /\ opened' = IF send[k].at = "answered" THEN opened \ {send[k].got} ELSE opened

-----------------------------------------------------------------------------
(* The tabs of MainApp, and PartnerAPI.                                    *)

(* Leaving the tab forgets its state; its sends go on without it.          *)
OpenLogs ==
  /\ open = "obo"
  /\ open' = "logs"
  /\ Mounted
  /\ send' = [k \in Sends |-> [send[k] EXCEPT !.own = FALSE]]
  /\ LogsRender
  /\ UNCHANGED sessions

OpenObo ==
  /\ open = "logs"
  /\ open' = "obo"
  /\ LogsUnmount
  /\ UNCHANGED <<form, mcpSession, busy, response, latest, send, sessions, opened>>

LogsTabStep ==
  /\ LogsSubscribe \/ ClearLog
  /\ UNCHANGED <<oboUi, send, sessions, opened>>

(* An MCP session ends: idle for too long, or a restart of PartnerAPI.     *)
SessionEnds(i) ==
  /\ sessions[i] # None
  /\ sessions' = [sessions EXCEPT ![i] = None]
  /\ opened' = opened \ {i}
  /\ UNCHANGED <<log, oboUi, send>>

FormStep ==
  \/ \E p \in Presets : ApplyPreset(p)
  \/ \E f \in Forms : Edit(f)
  \/ \E i \in Sids \union {None} : TypeSession(i)

Progress(k) ==
  HelperAnswers(k) \/ Serve(k) \/ HeadersArrive(k) \/ BodyEnds(k) \/ Fails(k)

Next ==
  \/ FormStep
  \/ \E k \in Sends : Send(k) \/ Progress(k)
  \/ OpenLogs \/ OpenObo \/ LogsTabStep
  \/ \E i \in Sids : SessionEnds(i)

Spec == Init /\ [][Next]_vars

(* A fetch is answered or fails.  Nothing is asked of the user.            *)
FairSpec == Spec /\ \A k \in Sends : WF_vars(Progress(k))

-----------------------------------------------------------------------------
(* What the variables may hold.                                            *)
TypeOK ==
  /\ LogTypeOK
  /\ open \in {"obo", "logs"} /\ form \in Forms
  /\ mcpSession \in Sids \union {None} /\ busy \in BOOLEAN
  /\ response \in Sends \union {None} /\ latest \in Sends \union {None}
  /\ send \in [Sends -> Records]
  /\ sessions \in [Sids -> {"user", "app", None}]
  /\ opened \subseteq Sids

(* The outcome on the screen is that of the last send of this tab: none of *)
(* an earlier one, or of a tab that was left, replaces it late.            *)
ResponseIsOfLastSend == response # None => response = latest /\ ~busy

(* A live MCP session opened for this tab is not forgotten: its id is kept *)
(* for the next send or is on its way, unless its answer was lost, or the  *)
(* user typed over it, or wrote an MCP request of his own in REST mode,    *)
(* which was answered with another.  Presets, changes of mode, refusals,   *)
(* errors while a body is read, requests in MCP mode and the ends of other *)
(* tabs' sends do not lose it (OboTab.tsx, setMcpSession on any answer     *)
(* that names an id, the header on any MCP request).                       *)
OpenedIsKept ==
  \A i \in opened : \/ mcpSession = i
                    \/ \E k \in Sends : /\ send[k].own /\ send[k].got = i
                                        /\ send[k].at = "answered"

(* While the button is disabled a send of this very tab is under way, to   *)
(* bring it back: neither an await that fails nor the end of a send that   *)
(* was left leaves the tab disabled with nobody to enable it, or enabled   *)
(* in the middle of its send (the finally of send, and React's remount).   *)
BusyIsSending ==
  busy <=> \E k \in Sends : send[k].own /\ send[k].at # "idle"

(* A send ends: the button comes back, or the tab was left.                *)
SendEnds == busy ~> ~busy
=============================================================================
