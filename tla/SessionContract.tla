--------------------------- MODULE SessionContract ---------------------------
(***************************************************************************)
(* What the BFF's session store promises its callers (the ISessionStore    *)
(* interface of src/API/Auth/SessionStore.cs), without clocks, clean-up or *)
(* threads: a session id is live at most once, and a caller is handed only *)
(* a session that was live when its lookup took effect.                    *)
(***************************************************************************)
CONSTANTS SessionIds,   \* the ids a sign-in may draw
          Callers,      \* whoever calls the store
          None          \* no session

VARIABLES live,         \* sessions the store holds
          gone,         \* sessions that were live and no longer are
          serving       \* serving[c]: the session caller c was handed

contractVars == <<live, gone, serving>>

CInit ==
  /\ live = {}
  /\ gone = {}
  /\ serving = [c \in Callers |-> None]

(* A session begins: its id has never been used before.  Adding one may    *)
(* clear others out.                                                       *)
Open(s, S) ==
  /\ s \notin live \union gone
  /\ S \subseteq live
  /\ live' = (live \ S) \union {s}
  /\ gone' = gone \union S
  /\ UNCHANGED serving

(* Sessions end, for whatever reason: for good.                            *)
Close(S) ==
  /\ S \subseteq live
  /\ live' = live \ S
  /\ gone' = gone \union S
  /\ UNCHANGED serving

Hand(c, s) ==
  /\ s \in live
  /\ serving' = [serving EXCEPT ![c] = s]
  /\ UNCHANGED <<live, gone>>

(* A caller finishes with its session; the store may learn of its end      *)
(* (an eviction) in the same step.                                         *)
Release(c, S) ==
  /\ S \subseteq live
  /\ live' = live \ S
  /\ gone' = gone \union S
  /\ serving' = [serving EXCEPT ![c] = None]

(* The process restarts: every session is over, every caller cut off.      *)
Crash ==
  /\ live' = {}
  /\ gone' = gone \union live
  /\ serving' = [c \in Callers |-> None]

CNext ==
  \/ \E s \in SessionIds, S \in SUBSET SessionIds : Open(s, S)
  \/ Crash
  \/ \E S \in SUBSET SessionIds : Close(S)
  \/ \E c \in Callers, s \in SessionIds : Hand(c, s)
  \/ \E c \in Callers, S \in SUBSET SessionIds : Release(c, S)

CSpec == CInit /\ [][CNext]_contractVars
=============================================================================
