------------------------------ MODULE WidgetTab ------------------------------
(***************************************************************************)
(* The widget tab (WidgetTab.tsx) in the page of SpaSession: the global    *)
(* CMSP_AUTH_CALLBACK it registers and the chat widgets started in it.     *)
(* The callback closes over the authentication of the render it comes from *)
(* and is never removed.  A widget calls it by its name, or as its script  *)
(* found it when it ran; scripts live on when the tab is left or reset.    *)
(***************************************************************************)
EXTENDS SpaSession

CONSTANTS Flows,    \* the flows tried, among those the tab offers
          Widgets   \* scripts at a time, each with an invocation

ASSUME FlowAssumption ==
  /\ "mcs-broker" \in Flows
  /\ Flows \subseteq {"mcs-broker", "token-response", "token-exchange", "none"}

VARIABLES tab,       \* tab of MainApp: "widget" or "other"
          flow,      \* flow of WidgetTab
          due,       \* its effect has yet to run for the last render
          callback,  \* window.CMSP_AUTH_CALLBACK
          script,    \* the scripts injected
          ask        \* the invocations

widgetUi == <<tab, flow, due>>
widget == <<widgetUi, callback, script, ask>>
vars == <<spa, widget>>

Default == "mcs-broker"

Closures == [mode : {"msal", "session"}, client : Clients \union {None},
             account : Users \union {None}, flow : Flows]
NoClosure ==
  [mode |-> "none", client |-> None, account |-> None, flow |-> "none"]

(* A script: getAuthToken, and (history) the users it was offered a token  *)
(* of by the tab it was started on.                                        *)
Scripts == [fn : Closures \union {NoClosure}, offered : SUBSET Users]
NoScript == [fn |-> NoClosure, offered |-> {}]

(* An invocation: where it is, the session or account it asks a token for, *)
(* that token's user; history: the users whose token was offered to it.    *)
Asks == [at : {"idle", "asking"},
         for : Ids \union Users \union {None},
         token : Users \union {None},
         may : SUBSET Users]
NoAsk == [at |-> "idle", for |-> None, token |-> None, may |-> Users]

Init ==
  /\ SpaInit
  /\ tab = "widget" /\ flow = Default /\ due = FALSE
  /\ callback = NoClosure
  /\ script = [w \in Widgets |-> NoScript]
  /\ ask = [w \in Widgets |-> NoAsk]

-----------------------------------------------------------------------------
(* The tab.                                                                *)

Visible == MainAppShown /\ tab = "widget"

RenderedOnSameTab ==
  /\ ~due
  /\ UNCHANGED <<tab, flow>>
  /\ due' = (MainAppShown' /\ tab = "widget" /\ ~(MainAppShown /\ user' = user))

(* A step of the page renders: a main app that appears starts on a new     *)
(* widget tab; a tab that stays runs its effect again, auth being new.     *)
(* React runs an effect that is due before it renders again.               *)
Rendered ==
  /\ ~due
  /\ IF MainAppShown /\ MainAppShown'
     THEN UNCHANGED <<tab, flow>> /\ due' = (Visible /\ user' # user)
     ELSE tab' = "widget" /\ flow' = Default /\ due' = MainAppShown'

SwitchTab ==
  /\ MainAppShown /\ ~due
  /\ tab' = IF tab = "widget" THEN "other" ELSE "widget"
  /\ flow' = Default
  /\ due' = (tab' = "widget")
  /\ UNCHANGED <<spa, callback, script, ask>>

ChooseFlowUnnoticed(f) ==
  /\ Visible /\ ~due
  /\ f # flow
  /\ flow' = f
  /\ UNCHANGED <<spa, tab, due, callback, script, ask>>

ChooseFlow(f) ==
  /\ Visible /\ ~due
  /\ f # flow
  /\ flow' = f
  /\ due' = TRUE
  /\ UNCHANGED <<spa, tab, callback, script, ask>>

AuthOf(f) ==
  [mode |-> IF SessionMode THEN "session" ELSE "msal", client |-> pca,
   account |-> IF SessionMode THEN None ELSE user, flow |-> f]

(* The effect of the tab.                                                  *)
Register ==
  /\ due
  /\ callback' = AuthOf(flow)
  /\ due' = FALSE
  /\ UNCHANGED <<spa, tab, flow, script, ask>>

-----------------------------------------------------------------------------
(* The callback.                                                           *)

(* Flows that throw before they ask anybody.                               *)
Refused(c) ==
  c.flow = "none" \/ (c.flow = "token-response" /\ c.mode = "session")

(* A settled widget tab offers a token of the user it shows, in session    *)
(* mode if the cookie is that user's: another tab may have changed it.  A  *)
(* tab that is not settled offers nothing in particular: anybody's.        *)
Settled ==
  /\ Visible /\ ~due
  /\ SessionMode => Owner(cookie) \in {user, None}
Offered == IF ~Settled THEN Users ELSE IF flow = "none" THEN {} ELSE {user}

(* Start widget: the script of the tab is patched and runs, and takes the  *)
(* callback by value.                                                      *)
Inject(w) ==
  /\ Visible /\ ~due
  /\ script' = [script EXCEPT ![w] =
                  [fn |-> callback,
                   offered |-> IF flow = "none" THEN {}
                               ELSE IF SessionMode THEN Users ELSE {user}]]
  /\ UNCHANGED <<spa, widgetUi, callback, ask>>

(* What a script is offered through the function it took: what it was      *)
(* offered when it started, which in session mode is a token of the user   *)
(* of the session there is when it asks.                                   *)
OfferedTo(s) ==
  IF s.fn.mode = "session" /\ SessionMode /\ Settled
  THEN s.offered \intersect {user} ELSE s.offered

(* Function c is called and sends the cookie to the BFF or asks MSAL       *)
(* silently for a token of the closure's account.                          *)
AskWith(w, c, may) ==
  LET a == [NoAsk EXCEPT
              !.at = "asking",
              !.for = IF c.mode = "session" THEN cookie ELSE c.account,
              !.may = may]
  IN ask' = [ask EXCEPT ![w] = IF Refused(c) THEN NoAsk ELSE a]

(* A widget whose script has run invokes the callback of the moment, or    *)
(* the one it took.                                                        *)
Invoke(w) ==
  /\ script[w] # NoScript
  /\ ask[w].at = "idle"
  /\ \/ AskWith(w, callback, Offered)
     \/ AskWith(w, script[w].fn, OfferedTo(script[w]))
  /\ UNCHANGED <<spa, widgetUi, callback, script>>

(* A token is for whom the session belongs to when it is served, or for    *)
(* the account.                                                            *)
Holder(x) == IF x \in Users THEN x ELSE Owner(x)

ServeToken(w) ==
  /\ ask[w].at = "asking" /\ ask[w].token = None
  /\ Holder(ask[w].for) # None
  /\ ask' = [ask EXCEPT ![w].token = Holder(ask[w].for)]
  /\ UNCHANGED <<spa, widgetUi, callback, script>>

(* The callback ends, with the token it was served or, after an error,     *)
(* with ''.                                                                *)
AskEnds(w) ==
  /\ ask[w].at = "asking"
  /\ ask' = [ask EXCEPT ![w] = NoAsk]
  /\ UNCHANGED <<spa, widgetUi, callback, script>>

-----------------------------------------------------------------------------
(* No session gets an id that an invocation still carries.                 *)
IdsApart ==
  \A w \in Widgets : ask[w].at = "asking" /\ ask[w].for \in Ids =>
    owner'[ask[w].for] \in {owner[ask[w].for], None}

TabStep == \/ SwitchTab \/ Register
           \/ \E f \in Flows : ChooseFlow(f)

AskStep ==
  \E w \in Widgets : Inject(w) \/ Invoke(w) \/ ServeToken(w) \/ AskEnds(w)

Next ==
  \/ /\ Leave /\ Rendered
     /\ callback' = NoClosure
     /\ script' = [w \in Widgets |-> NoScript]
     /\ ask' = [w \in Widgets |-> NoAsk]
  \/ PageStep /\ Rendered /\ UNCHANGED <<callback, script, ask>>
  \/ FarStep /\ IdsApart /\ UNCHANGED widget
  \/ TabStep
  \/ AskStep

Spec == Init /\ [][Next]_vars

-----------------------------------------------------------------------------
(* What the variables may hold.                                            *)
TypeOK ==
  /\ SpaTypeOK
  /\ tab \in {"widget", "other"} /\ flow \in Flows /\ due \in BOOLEAN
  /\ callback \in Closures \union {NoClosure}
  /\ script \in [Widgets -> Scripts]
  /\ ask \in [Widgets -> Asks]

(* The callback is never removed, yet once a main app has settled it is    *)
(* one of that app's mode and MSAL instance, on whatever tab the user is   *)
(* and whatever was signed in before; and on the widget tab it is exactly  *)
(* what the tab shows.                                                     *)
CallbackOfThisRoot ==
  MainAppShown /\ ~due =>
    /\ callback.mode = AuthOf(flow).mode /\ callback.client = pca
    /\ tab = "widget" => callback = AuthOf(flow)

(* A widget that invokes the callback of a settled widget tab, in session  *)
(* mode with the cookie of the user shown (another tab may have changed    *)
(* it), gets a token of that user or none, and none where the flow chosen  *)
(* is "None"; one that invokes the function its script took gets, in MSAL  *)
(* mode, a token of the user it was started under, if any was offered, and *)
(* in session mode one of the user shown, but none if it was started with  *)
(* "None": whatever happens to the page, the session and the account       *)
(* before it is answered.                                                  *)
TokenAsShown == \A w \in Widgets : ask[w].token \in ask[w].may \union {None}
=============================================================================
