# OboDemoApp: a verification project

OboDemoApp is a single-page app (`src/Web`), a backend-for-frontend (BFF,
`src/API`) and a downstream API (`src/PartnerAPI`). A user signs in either with
MSAL in the browser (the SPA then sends bearer tokens) or through the BFF
("server OIDC": the browser only gets a `CMSP_SESSION` cookie and the tokens
stay in the BFF's memory). The BFF exchanges the user's token for downstream
tokens (on-behalf-of, OBO) or uses its own credentials (S2S), and PartnerAPI
answers with the claims of whoever called it. `setup.ps1` creates the Entra
registrations, the key vault and the local configuration.

Source paths below are relative to the repository's `src/` directory.

## 1. Inventory

| Component | State it keeps | Operations | What makes it correct |
|---|---|---|---|
| Session store, `API/Auth/SessionStore.cs` | a `ConcurrentDictionary` of sessions, `LastSeenAt` in each, `_lastCleanup`; a singleton | `Add` (+ throttled sweep), `Get` (idle check, evict or slide), `Remove` | no session leaves before it was idle or signed out; none comes back; sweeps miss nothing; an expired session stays expired |
| Pending sign-in store, `API/Auth/PendingSignInStore.cs` | a `ConcurrentDictionary` of sign-ins sent to Entra; a singleton | `Add`, `PopByState`, each after a sweep | a sign-in is continued at most once, only in time, and is not lost while young |
| Server-side sign-in, `AuthController`, `SessionAuthenticationHandler`, `SessionTokenAcquirer` | both stores, the acquirer's `_cache` (one per request) | sign-in, callback, authentication, token acquisition, sign-out | one session per sign-in; sign-out is final and stops token acquisition; nothing hangs; restarts are harmless |
| BFF authorization and proxying, `BffAuthPolicies`, `Program.cs`, `PartnerApiService`, the other controllers | `HttpContext.User` of the request | two authentication schemes merged, the `UserToken` policy, choice of the downstream token, forwarding | the BFF acts for the user it reports; apps do not get in; what it admits PartnerAPI admits |
| PartnerAPI, `PartnerAPI/**` | MCP transport sessions (in a library) | two policies, claims endpoints, MCP mounts | the label of an answer tells what kind of caller it had |
| SPA sign-in form and MSAL configuration, `PreSignIn.tsx`, `msalConfig.ts`, `main.tsx` | the form, `_msal` and `_currentClientId` of the page | continue, start of MSAL, the answer of a redirect | a root works with the MSAL instance of its own client id |
| SPA session and sign-out, `AuthContext.tsx`, `App.tsx`, `MainApp.tsx` | the configuration, `user`, `loaded`, the MSAL client of the root | refresh, sign-in, sign-out, change of the configuration | late answers do not undo a sign-out; no loading screen stays for good |
| SPA request tab, `OboTab.tsx` | the form, `busy`, the response, the MCP session id | presets, send | the outcome shown is of the last send; a live MCP session is not forgotten; the button comes back |
| SPA widget tab, `WidgetTab.tsx` | the flow, a global callback for the widget | choose a flow, (re)register the callback, the callback itself | a callback and the token it gets belong to what the tab shows |
| Network watcher, `Web/src/utils/networkWatcher.ts`, `NetworkTab.tsx` | a bounded list of records, the next id, the capture switch, subscribers | patched `fetch` and `XMLHttpRequest`, push, update, clear, capture on/off | a late update touches its own record or none; the bound holds; the tab follows; the caller still gets the response |
| Log, `Web/src/utils/logger.ts`, `LogsTab.tsx` | a bounded list of entries, the next id, subscribers | log, clear | as the network watcher's list |
| Setup script, `setup.ps1` | `.setup-state.json`, Entra, Key Vault, local files | nine steps, each create-or-reuse | a re-run after a stop anywhere converges and leaves no second copy |
| Web host, `src/Web/Program.cs` | none | serves static files | - |

How they interact: the browser calls the BFF over HTTP with a bearer header, a
cookie, both or neither; the BFF redirects it to Entra for a sign-in and back;
the BFF's request threads share the two singleton stores; the BFF calls Entra
(code redemption, OBO, client credentials), PartnerAPI and Graph; PartnerAPI
calls Entra and Graph. Hard behaviours: request threads inside unlocked store
methods; requests interleaving at every `await`; a callback loaded twice; a
response lost after its effect; idle time passing anywhere; a restart that
empties the stores but not the cookie jars; two authentication schemes
answering for one request. In the page one thread runs, but the calls it awaits
(fetches, the start of MSAL, popups) end in any order, also after the component
that made them is gone; a widget calls the global callback whenever it likes.

## 2. Modules and runs

| Module | Stands for | Run (instance) | States |
|---|---|---|---|
| `SessionContract` | what `ISessionStore` promises, without clocks or threads | as a property of two runs | |
| `SignInContract` | what becomes of a sign-in sent to Entra, without sweeps, threads or requests | as a property of two runs | |
| `CookieContract` | what a page may rely on about the cookie, without the BFF's handlers and without the page | as a property of two runs | |
| `SessionStore` | `InMemorySessionStore`, statement by statement | `session_store`: 3 threads, 2 ids, idle 1, throttle 1, clock to 3 | 190,615 |
| `PendingSignInStore` | `InMemoryPendingSignInStore`, statement by statement | `pending_store`: 2 threads, 2 sign-ins, time to live 1, clock to 4 | 104,499 |
| `ServerOidc` | the sign-in system: browser, BFF handlers between awaits, both stores, Entra | `server_oidc`: 1 browser, 2 sign-ins, 2 sessions, 2 requests in flight, idle 1, cookie 2, clock to 3 | 655,963 |
| | | `server_oidc_live`: 1 session, clock to 2, with fairness | 102,106 |
| | | `token_cache`, `assertion_expiry` (findings): long idle time, short tokens | |
| `CallChain` | one call client → BFF → PartnerAPI, Graph or widget, with every mix of credentials | `call_chain`: 2 users (one with a puid), the BFF's app and another | 13,788 |
| `NetworkWatcher` | the record store, the patched `fetch` and `XMLHttpRequest`, the tab | `network_watcher`: 2 fetches, 1 XMLHttpRequest sent up to twice, 2 records kept | 2,675,288 |
| `SetupScript` | `setup.ps1` over its state file, Entra, Key Vault and the configuration | `setup_script`: 3 runs, 1 failing command | 261,279 |
| `SpaSession` | the page: form, roots of `App.tsx`, both providers, with the BFF and other tabs as far as the page sees them | `spa`: 1 user, 2 client ids, 2 sessions, 3 calls under way, StrictMode | 328,084 |
| `WidgetTab` | the widget tab in the page of `SpaSession` (which it extends) | `widget_tab`: 2 users, 2 client ids, 1 session, 1 call of the page and 1 of the widget under way, two flows | 914,360 |
| `LogStore` | the log and its tab | with `OboTab` | |
| `OboTab` | the request tab next to the log (it extends `LogStore`), with PartnerAPI's MCP sessions | `obo_tab`: 2 sends, 2 MCP sessions, 2 entries kept of 5 | 360,092 |

`MC*` modules hold only the symmetry of the instances; each `.cfg` gives the
constants their values.

### SessionStore

`sessions` is the key set of `_sessions`; `lastSeen` belongs to the session
objects and outlives their dictionary entry, as it does in the code, where a
`Get` may hold an object that has been removed. Each thread has a program
counter. `AddStore` is line 45, `CleanupSkip`/`CleanupDue` the throttle on line
65, `CleanupStart` lines 66-67, `SweepKeep`/`SweepMark`/`SweepRemove` the
enumeration, its test and its removal (68-70); `GetLookup`, `GetExpired`,
`GetEvict`, `GetFresh`, `GetSlide` are lines 51-58; `Remove` is line 61. The
enumeration is not a snapshot: `todo` holds the ids it has not passed, in any
order, and an id is looked up when it is passed.

Properties: `EvictedOnlyAfterIdle`, `SweepIsThorough` (invariants),
`ExpiryIsFinal` (action property) and `ImplementsContract` (refinement of
`SessionContract`). `NoResurrection` follows from the refinement; it is proved,
not run.

`ExpiryIsFinal` is worded with care: a session is called dead only when no
`Get` that passed the idle check is still about to slide it. The stronger claim
that an expired session is never slid is false of the code, because the check
and the slide are two statements. In the same way a session may be slid between
the test of an eviction and the eviction itself: `EvictedOnlyAfterIdle` says
that it had been idle too long at some time, not that it is so when it goes.

### PendingSignInStore

`BeginAdd` is `SignIn` stamping and calling `Add`, `BeginPop` is `Callback`
calling `PopByState`; both run `Cleanup` (`CutOff`, `SweepKeep`, `SweepMark`,
`SweepDrop`, `SweepDone`), then `Insert`, or `TakeMiss`/`TakeHit` and
`HandOut`/`TooOld`. Properties: `HandedOutOnce`, `LostOnlyWhenStale` and
`KeepsSignInContract` (refinement of `SignInContract`, whose `Continue` also
says that a sign-in is handed out in time only).

`SignInContract` gives each sign-in a fate: "new", "open", "taken" by its
callback, then "done" (a session) or "over". A sign-in is continued only while
open and within its time to live; it is forgotten only when older, or by a
crash; and it ends in a session at most once. The store alone maps to the part
of it up to "taken": what it has handed out is never given back.

### ServerOidc

A request has a place (`at`), a sender (`by`), and carries a state or a session
id. A handler is atomic between awaits, with the store operations used whole;
the two store modules show what their finer interleavings do.
`Callback`/`CallbackTooLate` are `Callback` up to its await, `RedeemOk` and
`RedeemFail` the rest, `DeliverCookie` the browser storing the cookie;
`Send`, `Authenticate`/`Challenge`, `Acquire`/`AcquireGone`, `OboOk`/`OboFail`,
`Answer` are a call in session mode; `SendSignOut`, `SignOut`, `DeliverCleared`
a sign-out. `LoseResponse`, `Restart` and `Tick` are the environment.

Properties: `OneSessionPerSignIn`, `NoTokenAfterSignOut`, and three
refinements: `KeepsContract` (of `SessionContract`, with `Restart` mapped to
`Crash`), `KeepsSignInContract` (of `SignInContract`, here with the fates after
"taken") and `KeepsCookieContract`; under fairness `SignOutTakesEffect` and
`RequestsEnd`. `KeepsSignInContract` is checked in the run of the last two.

`CookieContract` has the owner of each session, the cookie jar of each browser
and the requests under way. A browser that signs in gets an id that no jar and
no request holds; an answer names the owner of the session its request carried,
at the moment it was served; the answer of a sign-out clears the jar only after
the end of the session that its request carried; and a jar gets a session in no
other way, so that a session whose cookie has reached its age is nobody's. In
`ServerOidc` a session has an owner from the moment its cookie goes out, and
the owner is the sign-in it came from.

### CallChain

Claims are functions from claim types to values, the principal is a sequence of
identities, and `HasClaim`/`FindFirst` search it in order as `ClaimsPrincipal`
does. `Admit` and `Refuse` evaluate the `UserToken` policy on the merged
principal; `AcquireForApp`, `AcquireForSession`, `AcquireForBearer` and
`AcquireFail` are the ways `PartnerApiService`, `MeController` and
`WidgetController` get the next token, `Forward` sends the call on, and
`PartnerAnswers`/`PartnerRefuses` are PartnerAPI. `CallPartner` is a client that
skips the BFF. Sessions begin and end between any two steps.

Properties: `ActsForReportedUser`, `OnlyPeopleAdmitted`, `FlavorTellsKind`,
`AdmittedThroughout`.

`AdmittedThroughout` speaks of tokens that pass PartnerAPI's authentication. An
app token without any role does not (Microsoft.Identity.Web requires a scope or
a role), so an S2S call of a BFF that was never granted `CMSPDemo.S2S` is
refused there; that is a matter of setup, not of the policies.

### NetworkWatcher

`items`, `nextId` and `capturing` are the fields of the store. A caller is a
call of `fetch` or an XMLHttpRequest object; its call has a `place`, from being
sent to being settled, which is when the code of the page has the answer.
`Push`, `Update` and `Clear` are the store's methods and each ends in `Notify`;
`FetchStart`, `HeadersArrive`, `Deliver`, `FetchFails` are the patched `fetch`
between its awaits, `FetchPassed` and `XhrPassed` calls made while the capture
is off.

An XMLHttpRequest is opened (`XhrOpen`) and sent (`XhrStart`, or `XhrPassed`),
any number of times and whatever it is doing: `send` pushes a record, sets
`recId` and adds two listeners before the browser's own `send`, which throws
unless the object was opened anew. `XhrTold` is the end of a call, which the
page sees at readystatechange; then the browser fires error, if the call
failed, and loadend (`XhrFires`), and each listener added so far runs
(`XhrListener`) and writes to the `recId` of that moment. `ending` is the stack
of the calls whose last events are being fired: between two of its steps the
page's own handlers run, which may open and send the object again, start
fetches or abort another object, whose events are then fired inside. Tasks of
the browser (the headers of a `fetch`, the end of another XMLHttpRequest) wait
until the stack is empty. `current` is the send that the object is busy with;
`overtaken` records, for the properties, the calls whose object made another
captured `send()` before their last listener had run.

`Render`, `Subscribe`, `Unmount`, `ToggleCapture` are `NetworkTab`: it takes a
snapshot when it is rendered and subscribes in an effect that runs later.

Properties: `RecordsAreRecent`, `AnswersStayApart`, `SettledIsRecorded`,
`ViewIsCurrent`. The code does not keep the answers of one XMLHttpRequest apart
in two cases, which `AnswersStayApart` names as exceptions: a captured object
that is sent again while the capture is paused writes its second answer to its
first record, and one on which `send()` is called again before the last
listener of its first call has run (in its own load handler, or in flight)
writes the end of the first to the record of the second. `SettledIsRecorded`
holds at once for a `fetch`; for an XMLHttpRequest the page has the answer before
the record shows it, until the events of its end are over (`Quiet`).

### SetupScript

The script is a sequence of 36 commands and `pc` the next one. `suffix`, `obj`,
`scope` are `$state`, the variables `file...` the state file as it was last
saved; the other variables are what is in Entra, in the vault and in the
configuration. `Start` loads the file or begins anew with a random suffix;
`Stop` is the end of the script, by hand, by a crash or by an error, after any
command; `CommandFails` is a command that does not do what it should and whose
result the script does not look at, so that it goes on. The ids, secrets,
suffixes and certificates that are made are numbers that are never used twice.

Properties: `OneRegistrationPerName`, `GrantsFit`, `InstalledSecretsWork`,
`CleanRunConfigures` (invariants), `PublishedIdsStay` and `SavedVaultIsReused`
(action properties). `SavedVaultIsReused` is the promise of `setup.ps1:80` that
re-runs skip what exists, as far as the code keeps it: from the first save of
the state file on, since before it the random suffix is lost with the run.

### SpaSession

`config` is the state of `App`; `user`, `loaded`, `pca`, `initError` are those
of the root it renders (`SessionAuthProvider`, or `MsalRoot` with
`MsalAuthProvider`), one at a time; `memo` is the pair of module variables of
`msalConfig.ts`. A call under way sits in a slot of `call`: a `refresh` or
`signOut` of the session provider, an `init` of MSAL, a `login` or `logout`
popup, with where its root stands: `here`, `cancelled` (the first run of the
effect of `MsalRoot` under StrictMode) or `gone`. `Continue` is the submit of
the form with the mount effect that follows, run `MountRuns` times;
`ChangeConfig`, `Refresh`, `SignOut`, `Logout`, `RefreshMsal` are the header of
`MainApp`; `InitDone`/`InitFails`, `RefreshEnds`, `SignedOut`/`SignOutFails`,
`LoginEnds`, `LoggedOut`/`LogoutFails` are what follows the awaits;
`ServeMe`/`ServeSignOut` the BFF between a request and its answer. `Leave` loads
the page anew (a reload, or one of the two sign-ins that navigate away and come
back), which keeps the cookie and MSAL's cache in the session storage;
`SignInElsewhere`, `SessionEnds` and `CookieGoes` are other tabs, the idle sweep,
a restart of the BFF and the age of the cookie.

Properties: `RootUsesOwnClient`, `LoadingIsAwaited` (invariants) and
`SignOutSticks` (action property, over the history variable part `old` of a
call: its answer is older than a completed sign-out), and
`KeepsCookieContract`: the BFF that this page meets is one of `CookieContract`,
with one browser. `RefreshMsal` is also the popup that MSAL falls back to when
it gets no token silently.

### WidgetTab

`Rendered` ties the tab to each step of the page: a main app that appears starts
on a new widget tab, one that stays runs the effect again when its user changed.
`due` is the gap between a render and its effect, `Register` the effect.
`callback` is `window.CMSP_AUTH_CALLBACK` with what it closes over (`AuthOf`); it
is never removed. `Inject` starts a widget: its script is patched to
`getAuthToken: window.CMSP_AUTH_CALLBACK`, so that it takes the function of that
moment by value (`script`), and it lives on when the tab is left or reset, until
the page is loaded anew. `Invoke` calls the global of the moment or the function
the script took; `Invoke`, `ServeToken`, `AskEnds` are the callback around its
await, at any time, on any tab and with nobody signed in. In `offered` a script
and in `may` an invocation record, for the property only, whose token the tab
offered it.

Properties: `CallbackOfThisRoot`, `TokenAsShown`. The latter says nothing of the
global called between a render and its effect, on another tab, or while another
tab of the browser has changed the cookie under the page: the token is then of
whoever the callback or the cookie names, which is what the code does. Of the
function a script took it says what that function was made for, not what the
tab shows since: a widget started under `mcs-broker` still gets tokens after
"None" is chosen, or another account is on the screen.

### LogStore and OboTab

`Log` is `Logger.log` and `ClearLog` its `clear`; both end in `Notified`, the
listener of a subscribed `LogsTab`. `LogsRender`, `LogsSubscribe`, `LogsUnmount`
are the tab. `Log` is an operator that the steps of `OboTab` use, since a send
logs within its own steps.

A send is `Send` (up to its first await), `HelperAnswers` (the S2S helper's
token), `Serve` (the MCP transport of PartnerAPI behind the BFF),
`HeadersArrive` (the id of the answer is kept, whatever the mode), `BodyEnds` or,
at any await, `Fails`, each with the `finally`. The BFF does not know the mode:
a request written by hand in REST mode may reach an MCP mount, with or without
an id among its headers (`Caller`, `Carries`). `own` says whether the tab that sent it is
still mounted: React ignores the state of an unmounted component, while the
`finally` and the log of a left send still run. `ApplyPreset`, `Edit`,
`TypeSession` are the form; the fields that only fill the request are left out.

Properties: `ResponseIsOfLastSend`, `OpenedIsKept`, `LogIsShown`,
`BusyIsSending` (invariants) and, under fairness, `SendEnds`. `OpenedIsKept`
exempts what the user does himself: typing over the id, or writing an MCP
request in REST mode, which is sent without the kept id and whose answer
replaces it. That a kept id may be one of the other mount, or of a session that
has ended on the server, is not excluded: PartnerAPI then refuses it until the
field is cleared.

## 3. Where code and comments disagree

Two runs end in a counterexample to something a comment says.

- `token_cache` / `CachedPerSession`: the acquirer's cache is said to be per
  session (`SessionTokenAcquirer.cs:22`), but the acquirer is registered per
  request (`Program.cs:20`), so every request asks Entra anew.
- `assertion_expiry` / `AssertionUsable`: session mode is said to work like
  bearer mode (`WidgetController.cs:12`), but a used session slides without
  end while its access token is never renewed. Such a session is signed in as
  far as `/api/auth/me` can tell and cannot get any downstream token. The
  constants make the idle time longer than the token's life, as 8 h is longer
  than the about one hour of an Entra access token
  (`docs/mcs-msa-obo-via-function.md:736`).

Also met while modelling, and plain from the code without a run:

- The dispatcher is said to route a request to one handler
  (`BffAuthPolicies.cs:21`), but a policy that names its schemes runs all of
  them: a call with a bearer token and a live cookie is served as the cookie's
  user.
- The state file is said to let re-runs skip what exists (`setup.ps1:80`), but
  the vault is made before the file, under a random name: a script stopped in
  between makes a second vault at its next run.
- A sign-out whose answer is an error resets the page like a completed one
  (`AuthContext.tsx:142` does not look at the status): the cookie is still
  there, and Continue shows the user again.
- `handleSignOut` resets the page when its call ends, whichever root is mounted
  by then (`MainApp.tsx:18`); two refreshes may be applied in the opposite order
  of their answers (`AuthContext.tsx:131`).
- When MSAL cannot be started its error is shown on the loading screen, which
  has no button: the way back is a reload (`App.tsx:47`).
- The widget's function is called inside the `try` of the callback: if it throws
  at its token it is called once more, with an empty one
  (`WidgetTab.tsx:57-64`).
- Registering the callback again whenever the flow changes is said to make the
  widget use the chosen token (`WidgetTab.tsx:21`); but a widget's script takes
  the function when it starts (`WidgetTab.tsx:76`), so one that runs already goes
  on with the old one. Choosing "None" does not stop it, nor does Reset, which
  only empties the element the widget was drawn in (`WidgetTab.tsx:93-97`).
- Leaving the request tab forgets its MCP session id: the session stays on
  PartnerAPI until it is idle (`OboTab.tsx:34`).
- The id of an answer is kept in either mode but sent in MCP mode only
  (`OboTab.tsx:91`, `119-120`): a JSON-RPC request written by hand in REST mode
  opens a second session, which replaces a live one.
- An XMLHttpRequest that is sent again in its load handler, or on which `send()`
  throws because it is in flight, has moved `recId` before the loadend of the
  first call (`networkWatcher.ts:185`): that end is written to the later record.
  If it was only opened again, the end is recorded without its status.
- `/api/auth/me` looks up each claim in the merged principal: with a bearer
  token of one user and a session of another, the oid may be one user's and the
  puid the other's (`AuthController.cs:175`).
- The patched `fetch` awaits the whole text of the clone before it returns the
  response (`networkWatcher.ts:125`), so that with the capture on nobody reads a
  stream while it is being sent.
- A run of `setup.ps1` without `-DeployToAzure` takes a deployed site out of the
  SPA redirect URIs (`setup.ps1:283`).
- "Setup Complete" (`setup.ps1:547`) is also what a run prints in which a
  command failed: the exit code of `az` ends nothing and no `catch` sees it.

## 4. Bounds, and why they are enough

- *Clock.* Times are small numbers that keep the order of the real ones. With
  timeouts of 1 and a clock to 3 or 4 an entry can be created, expire, and be
  met by a second operation that began before and ends after the expiry.
- *Threads and requests.* Two requests race over one session or one sign-in;
  the session store gets three threads so that a sweep, a `Get` and a `Remove`
  (or two sweeps) overlap on one entry.
- *Ids.* Ids are drawn once (32 random bytes); two are enough for one to be
  swept while another is added, and for two callbacks of one sign-in to try to
  make two sessions.
- *One call in `CallChain`.* Neither service keeps anything between calls
  except the sessions, which begin and end at any step.
- *`server_oidc_live`* has one session and a clock to 2: liveness with symmetry
  would be unsound, so the instance is smaller and has none. It has both
  sign-ins, so that every clause of `SignInContract` is met there.
- *`network_watcher`* keeps 2 records for calls that make up to 4, so that
  records are trimmed, and cleared, while their calls are under way. `Max` is
  1000 in the code; nothing depends on its value. `MaxSends` bounds how often
  `send()` is called on an XMLHttpRequest: twice is what it takes for two answers
  of one object, or for a call that is overtaken.
- *`setup_script`*: a command that was half done in one run and repeated in the
  next is what can go wrong; the third run sees what both have left. `MaxRuns`
  and `MaxFailures` are in the guards of `BeginRun` and `CommandFails`.
- *`spa`*: three calls under way are a call of a root that is gone next to the
  two runs of a mount effect under StrictMode. Two client ids are what it takes
  to tell one's own from another's; two sessions, for one to be replaced by a
  sign-in in another tab while a call still carries it. One user is enough: the
  page compares no users, and its properties ask only whether one is shown; two
  users are in `widget_tab`. Client ids, sessions and slots are interchangeable;
  nothing temporal but action properties is checked there (`SignOutSticks`, and
  the contract, which has no fairness).
- *`widget_tab`* has one call of the page (no StrictMode), one script and one
  invocation under way, and one session id, which is used again once it is
  forgotten: what an invocation meets is changes of the page, not other
  invocations, and the races among calls of the page are the subject of `spa`.
  The flows are `mcs-broker` and `none`: `token-exchange` differs from the
  former in the url only, and `token-response` behaves as `none` in session mode
  and as `mcs-broker` with MSAL. The proofs cover them all.
- *`obo_tab`*: a send that was left and one of the new tab, and two MCP sessions,
  one to keep and one to open. `MaxEntry` bounds the log entries, hence the
  sends, and is in the guards of `Send`, `ApplyPreset` and `Edit` (`Budget`),
  which leave room for the last entry of each send under way, so that the bound
  stops nobody from ending. Two entries are kept (`MaxLog`; 5000 in the code).
  The third way to authenticate, "none", is like "user": what is typed among the
  headers may authenticate the request or not.

`MaxClock` is in the guards of `Tick`. The runs of
`SetupScript` turn the deadlock check off, because the script may stop for good;
all others leave it on: sign-outs, sends, calls and the buttons of the tab
remain possible in every state.

## 5. Fairness

`FairSpec` of `ServerOidc` assumes weak fairness of the steps a received request
takes until its answer is delivered or lost. Kestrel runs a handler it has
started; MSAL calls end, with a token or with an exception or timeout, so one of
`RedeemOk`/`RedeemFail` and of `OboOk`/`OboFail` happens; a response is
delivered or the connection is lost. Nothing is assumed of users, browsers,
the clock or restarts.

`FairSpec` of `OboTab` assumes weak fairness of the steps of each send under way
(`Progress`): a fetch is answered or fails, its body ends or fails, as browsers
and servers give up on a connection in the end. Nothing is assumed of clicks or
of sessions that end.

`SpaSession` and `WidgetTab` assume none: popups wait for the user, so that
"loading ends" is stated as an invariant, `LoadingIsAwaited`, instead.

## 6. What is proved

TLAPS proves, for every value of the constants that satisfies the named
assumptions (`StoreAssumption`, `PendingAssumption`, `OidcAssumption`,
`ChainAssumption`, `NoneAssumption`, `WatcherAssumption`, `NoCallAssumption`,
`SetupAssumption`, `SpaAssumption`, `FlowAssumption`, `LogAssumption`,
`OboAssumption`; any number of threads, ids, users, apps, client ids, calls and
runs, any timeouts and any bound of the lists):

- `SessionStore_proofs`: `TypeCorrect`, `NoEarlyEviction`, `ThoroughSweeps`,
  `RemovedForGood`, `NoRevival`, `StoreImplementsContract`.
- `PendingSignInStore_proofs`: `TypeCorrect`, `SingleUse`, `NoFreshSignInLost`,
  `StoreKeepsSignInContract`.
- `ServerOidc_proofs`: `TypeCorrect`, `OneSession`, `SignOutStopsTokens`,
  `SignedOutStaysOut`, `BffKeepsContract`, `BffKeepsSignInContract`,
  `BffKeepsCookieContract`.
- `CallChain_proofs`: `TypeCorrect`, `OneIdentity`, `AppsStayOut`,
  `LabelsTell`, `PoliciesAgree`.
- `NetworkWatcher_proofs`: `TypeCorrect`, `RecentRecords`, `OwnAnswers`,
  `AnswersRecorded`, `TabFollows`.
- `SetupScript_proofs`: `TypeCorrect`, `OneRegistration`, `GrantsMatch`,
  `IdsStay`, `SecretsStayValid`, `OneSavedVault`, `CleanRunsConfigure`.
- `WidgetTab_proofs`, of the page: `SpaTypeCorrect`, `OwnClient`,
  `NoOrphanedLoading`, `SignedOutForGood`, `PageSeesContract`; of the widget
  tab: `WidgetTabRefinesPage`, `PageHoldsWithTab`, `TypeCorrect`,
  `CallbackIsOwn`, `TokensAsShown`.
- `OboTab_proofs`: `TypeCorrect`, `LogShown`, `LastSendShown`,
  `ButtonWaitsForItsSend`, `SessionsKept`.

Each follows from an inductive invariant:

- *Session store.* `EvictedOnlyAfterIdle` is not inductive: an eviction acts on
  an earlier test. `DoomedWereIdle` says that what a thread is about to evict
  has been idle too long at some time (`IdleNoticed` makes the history variable
  record it when it happens), and `CutoffIsPast` and `SeenInThePast` order the
  cutoffs and the last uses with the clock.
- *Pending store.* `Provenance` follows a sign-in from `Add` to `PopByState`,
  `OneHolder` says that a taken entry has one holder and has not been handed
  out, `VictimsAreStale` that a sweep's victim stays stale, since `createdAt`
  is never changed. For the refinement of `SignInContract` a sign-in is what
  its history says (`Fate`): not added, in the store or in a thread's hands
  unjudged ("open"), handed out ("taken"), or neither ("over"); the steps of a
  sweep that drop entries are its `Forget`, `HandOut` its `Continue`.
  `BegunInThePast` orders `createdAt` with the clock.
- *Sign-in system.* `OneFate`: a sign-in is pending, or held by one callback,
  or has made its session; these exclude each other. `KnownIds` ties requests,
  cookies and sign-outs to sessions that were created. All refinements map a
  step to one contract action or a stutter. `CookiesFollow` is what the one of
  `CookieContract` needs besides: an id on its way to its first browser is in
  no jar and in no other request, and an answer that clears a cookie is of a
  session that was signed out. `SignedOutStaysOut` is `SignOutTakesEffect`
  without the handler's progress, which needs fairness.
- *Call chain.* `CallerKnown` says which identity the principal puts first,
  `TokenKind` and `PathKind` what kind of token goes to what kind of path. The
  lemmas about `FindFirst` on a merged principal (`FindFirstHead`,
  `CallerClaims`) carry the argument.
- *Network watcher.* `IdsHaveOwners`: an id that a caller holds names, if
  anything, a record of one of its own calls; it survives a trim and a clear
  because ids are consecutive and go on (`RecordsAreRecent`). For the calls that
  may still write (`Awaited`: in flight, or with listeners still to run),
  `IdsAreOwn` says that the id held names no other call's record but in the two
  exceptions of `AnswersStayApart`, and `OwnAreFound` that the call's own record
  is the one it names unless the object was sent again meanwhile.
  `EndingsAreInOrder` orders the listeners of an XMLHttpRequest that ended.
  `PushEffect` and `UpdateEffect` say what the store's methods do to the list.
- *Setup script.* `IdsAreSaved`: memory and file agree on the ids, what is
  published or granted is that id, and past command 6 there is one.
  `PublishedIdsStay` is a consequence of it. `SecretInv` adds to
  `InstalledSecretsWork` that the secret this run holds is valid, `SuffixInv`
  to `SavedVaultIsReused` that the suffix in memory is the saved one.
  `RunInv` is the argument for `CleanRunConfigures`: in a run without a failed
  command, the effect of every command it has passed is in place
  (`PassedInPlace`). A step adds the effect of its own command and takes none
  away (`Keeps`), but for the redirects, which are replaced before the
  deployment adds the site; `EndConfigured` reads off what holds at the end.
- *Page.* `SpaInv`: besides the types, `MemoFits` (the memoised instance is that
  of the memoised client id), `CallsOfRoot` (a call of the mounted root is of
  its mode and client id) and `OldIsGone` (an answer older than a completed
  sign-out belongs to no mounted root). `RootUsesOwnClient` is not inductive
  without the second, nor `SignOutSticks` a consequence without the third.
  Every step of `WidgetTab` is a step of the page or leaves it alone
  (`PageBelow`), hence `WidgetTabRefinesPage`, and all that was proved of the
  page holds with the tab in it (`PageHoldsWithTab`). `ServedRight` is what
  `PageSeesContract` needs: an answered sign-out has ended its session, and
  ids are used again only when nothing carries them.
- *Widget tab.* `RootStays`: while a main app stays on the screen its root is
  the same one. `ScriptsFit` says that the function a script took asks for somebody it was
  offered, which follows from `CallbackOfThisRoot` when it starts. `HolderFits` is
  what makes `TokenAsShown` inductive: whoever would be served for an invocation
  under way is somebody it may be given.
- *Request tab.* `OwnIsLatest`: the mounted tab has at most one send under way,
  its last, and `BusyHasSend` one while its button is disabled. `Carried`: until it is answered a send
  in MCP mode carries the id of the session the tab keeps, so that an answer
  that names another one does not replace a live session; one in REST mode
  replaces no other than the kept one. The log is `LogInv`, kept by every step that logs.

The type invariants are proved of every module, and `NoResurrection`
(`RemovedForGood`) of the session store; no run repeats them.
Only model-checked, because the prover does not reason about fairness: the
liveness properties `SignOutTakesEffect`, `RequestsEnd` and `SendEnds`; what of
the first and the last is safety is proved (`SignedOutStaysOut`,
`ButtonWaitsForItsSend`). Refuted properties are, of course,
not proved. The parts of the inductive invariants were checked with TLC before
they were proved.

## 7. Abstractions

- The clock does not go backwards, and a `DateTimeOffset` is read and written
  whole (a torn read of `LastSeenAt` or `_lastCleanup` is left out).
- A session object is created and added in one step; configuration is present.
- `UseAuthentication` runs for anonymous endpoints too, so every request with a
  cookie slides or evicts its session (`Touch`).
- Downstream tokens are for one scope; a code is redeemed or refused, and Entra
  may send the browser back more than once for one state.
- In `CallChain` a user is named by the oid, with at most one session each;
  Entra's tokens have the claims listed in `UserTokens` and `AppTokens`; a later
  scheme's identities come first in a merged principal (ASP.NET Core's policy
  evaluator). Bodies, other headers, streaming and MCP transport sessions are
  left out; token lifetimes are the subject of `ServerOidc`.
- In `NetworkWatcher` a record is its id, whose call it is for and which answer
  it shows; the filter and the selection of the tab are left out. A `fetch` is
  made once, an XMLHttpRequest object may be opened and sent again. Synchronous
  XMLHttpRequests are left out; abort stands for a timeout too.
- In `SpaSession` an effect runs with the render that mounts it; scopes and the
  claims shown are left out; `accounts[0]` is any of the cached accounts; MSAL's
  constructor does not fail. MSAL refuses a popup or a redirect while another
  interaction is under way (`Interacting`), a redirect that is abandoned midway
  is a `Reload`, and the flag it may leave behind is left out. An id of a
  session is used again only when nothing carries it. The sign-in of the BFF is
  one step here; `ServerOidc` is about what is inside it.
- In `WidgetTab` leaving the main app is leaving the tab; a widget's script may
  call the callback, by its name or as it took it, at any time; what it does with
  a token is left out. A script that replaces another of the same place
  (`Inject`) stands for both going on, since the places are interchangeable.
- In `OboTab` the user is signed in throughout, and PartnerAPI's transport is
  modelled from how it is mounted: a session belongs to the caller that opened
  it, and an id of another caller or of an ended session is refused.
- In `SetupScript` a command takes effect or not; a resource group, a vault and
  its policy are one command, so are the deployments of the API and of the site.
  A command whose output the script needs either succeeds or ends the script
  (`StrictMode`); the queries before the creation of the vault, of the
  certificate and of the role assignment are taken to succeed. `$existing.Count`
  is taken as the number of results, as the script means it (PowerShell's
  `StrictMode` may refuse `.Count` of nothing or of a single object, in which
  case the script ends there, which is a `Stop`). `dotnet` and the writing of
  local files are taken to succeed. Entra refuses nothing the script may ask.

External, and modelled from how the code uses them: Entra, the browser's cookie
jar, ASP.NET Core's request handling, claims principal and principal merging,
MSAL's accounts, events and interactions, and the transport of the MCP library.

## 8. Not modelled, and the plan

What could follow is a finer *setup script*: the queries before a creation as
commands that may fail on their own, and a refused change of a published scope.

The page and the BFF are not composed into one module, since their product is
beyond TLC; they meet in `CookieContract` instead. `SpaSession` has the BFF only
as far as the page sees it (a cookie, an owner for each session, and a request
that is served some time before its answer arrives), and that part is proved to
be one of the contract (`PageSeesContract`); `ServerOidc`, with its handlers,
stores and lost answers, is proved to be another (`BffKeepsCookieContract`).
What this does not show is the converse, that the page meets everything the
contract allows: several browsers share one session store only in `ServerOidc`.

Not modelled: the Web host (`Web/Program.cs`), which has no state; `ActiveCount`
and the health probes, which only read; filters, selections, expanders and text
fields of the page, which only choose what is drawn or fill what is sent;
generated and third-party files (`package-lock.json`, styles, launch settings).
