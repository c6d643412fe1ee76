------------------------------ MODULE McpSession ------------------------------
(***************************************************************************)
(* The one session with the Grafana MCP server                             *)
(* (engine/mcp/grafana_mcp.py).  Worker threads hand their coroutines to   *)
(* one event loop and wait for them for 25 s; a coroutine whose caller has *)
(* stopped waiting goes on all the same, so that the caller's own retry    *)
(* may overlap with it.  The loop runs one coroutine at a time between     *)
(* awaits: connecting and closing are what others can get in between.      *)
(*                                                                         *)
(* A session whose server has died looks like any other: nothing closes    *)
(* it.                                                                     *)
(***************************************************************************)
EXTENDS NoValue, Naturals

CONSTANTS
  McpCalls,    \* coroutines that need the session
  MaxConnects  \* bound on connections made

ASSUME McpAssumption == MaxConnects \in Nat /\ None \notin Nat

VARIABLES
  qTransport,  \* settings.grafana_transport
  qSession,    \* _SESSION: the current connection, or None
  qConnects,   \* connections made so far; they are numbered
  qOpen,       \* those that are made and not closed
  qPc,         \* where each call is
  qLeg,        \* the server it connects to
  qTries,      \* connects it has begun
  qConn,       \* the connection it was given, or is closing
  qThen,       \* what it does after closing
  qOverlap     \* history: two calls have connected or closed at a time

mcpVars == <<qTransport, qSession, qConnects, qOpen, qPc, qLeg, qTries, qConn, qThen, qOverlap>>

McpPoints == {"idle", "connecting", "closing", "using"}

McpInit ==
  /\ qTransport \in {"http", "stdio", "auto"}
  /\ qSession = None /\ qConnects = 0 /\ qOpen = {}
  /\ qPc = [c \in McpCalls |-> "idle"] /\ qLeg = [c \in McpCalls |-> "http"]
  /\ qTries = [c \in McpCalls |-> 0] /\ qConn = [c \in McpCalls |-> None]
  /\ qThen = [c \in McpCalls |-> "refuse"]
  /\ qOverlap = FALSE

Busy(c) == qPc[c] \in {"connecting", "closing"}

Connect(c, leg, tries) ==
  /\ qPc' = [qPc EXCEPT ![c] = "connecting"]
  /\ qLeg' = [qLeg EXCEPT ![c] = leg]
  /\ qTries' = [qTries EXCEPT ![c] = tries]
  /\ qConn' = [qConn EXCEPT ![c] = None]

Use(c, conn) ==
  /\ qPc' = [qPc EXCEPT ![c] = "using"]
  /\ qConn' = [qConn EXCEPT ![c] = conn]
  /\ UNCHANGED <<qLeg, qTries>>

Leave(c) ==
  /\ qPc' = [qPc EXCEPT ![c] = "idle"]
  /\ qConn' = [qConn EXCEPT ![c] = None]
  /\ UNCHANGED <<qLeg, qTries>>

(* _ensure_async: the current session, or a new one. *)
Ensure(c) ==
  /\ qPc[c] = "idle"
  /\ IF qSession # None THEN Use(c, qSession) /\ UNCHANGED qOverlap
     ELSE /\ Connect(c, IF qTransport = "stdio" THEN "stdio" ELSE "http", 1)
          /\ qOverlap' = (qOverlap \/ \E d \in McpCalls \ {c} : Busy(d))
  /\ UNCHANGED <<qTransport, qSession, qConnects, qOpen, qThen>>

(* The new connection replaces whatever another call has made meanwhile.   *)
Connected(c) ==
  /\ qPc[c] = "connecting" /\ qConnects < MaxConnects
  /\ qConnects' = qConnects + 1
  /\ qOpen' = qOpen \union {qConnects + 1}
  /\ qSession' = qConnects + 1
  /\ Use(c, qConnects + 1)
  /\ UNCHANGED <<qTransport, qThen, qOverlap>>

(* What follows a failed connect.  A pinned transport is tried once more,  *)
(* unless there is a session by now; auto goes over to stdio after a       *)
(* timeout or a headless login, without looking.                           *)
NextLeg(c, soft) ==
  IF qTransport # "auto" THEN IF qTries[c] = 1 THEN "retry" ELSE "refuse"
  ELSE IF qLeg[c] = "http" /\ soft THEN "stdio" ELSE "refuse"

GoOn(c, then, session) ==
  CASE then = "retry" /\ session # None -> Use(c, session)
    [] then = "retry" /\ session = None -> Connect(c, qLeg[c], 2)
    [] then = "stdio" -> Connect(c, "stdio", 2)
    [] then = "refuse" -> Leave(c)

\* Variant (fault injection): the session is forgotten once it is closed.
Disconnect_Late(c, then) ==
  /\ qThen' = [qThen EXCEPT ![c] = then]
  /\ IF qSession = None THEN GoOn(c, then, None)
     ELSE /\ qPc' = [qPc EXCEPT ![c] = "closing"]
          /\ qConn' = [qConn EXCEPT ![c] = qSession]
          /\ UNCHANGED <<qLeg, qTries>>
  /\ UNCHANGED qSession

(* _disconnect_async takes the current session, another call's if there is *)
(* one, and forgets it before it closes it.                                *)
Disconnect(c, then) ==
  /\ qThen' = [qThen EXCEPT ![c] = then]
  /\ IF qSession = None THEN GoOn(c, then, None)
     ELSE /\ qPc' = [qPc EXCEPT ![c] = "closing"]
          /\ qConn' = [qConn EXCEPT ![c] = qSession]
          /\ UNCHANGED <<qLeg, qTries>>
  /\ qSession' = None

(* What a failed connect had opened it has closed itself. *)
ConnectFails(c) ==
  /\ qPc[c] = "connecting"
  /\ \E soft \in BOOLEAN : Disconnect(c, NextLeg(c, soft))
  /\ UNCHANGED <<qTransport, qConnects, qOpen, qOverlap>>

Closed(c) ==
  /\ qPc[c] = "closing"
  /\ qOpen' = qOpen \ {qConn[c]}
  /\ GoOn(c, qThen[c], qSession)
  /\ UNCHANGED <<qTransport, qSession, qConnects, qThen, qOverlap>>

(* The tool call on the session has answered, failed or timed out. *)
CallEnds(c) ==
  /\ qPc[c] = "using" /\ Leave(c)
  /\ UNCHANGED <<qTransport, qSession, qConnects, qOpen, qThen, qOverlap>>

McpNext ==
  \E c \in McpCalls : Ensure(c) \/ Connected(c) \/ ConnectFails(c) \/ Closed(c) \/ CallEnds(c)

McpSpec == McpInit /\ [][McpNext]_mcpVars

-----------------------------------------------------------------------------
McpTypeOK ==
  /\ qTransport \in {"http", "stdio", "auto"}
  /\ qConnects \in Nat /\ qOpen \subseteq 1..qConnects
  /\ qSession \in 1..qConnects \union {None}
  /\ qPc \in [McpCalls -> McpPoints] /\ qLeg \in [McpCalls -> {"http", "stdio"}]
  /\ qTries \in [McpCalls -> 0..2]
  /\ qConn \in [McpCalls -> 1..qConnects \union {None}]
  /\ qThen \in [McpCalls -> {"retry", "stdio", "refuse"}]
  /\ qOverlap \in BOOLEAN

\* A session that is handed out is open, whichever calls connect and close
\* around it.  And as long as no two calls do so at a time, no connection is
\* lost sight of and none is closed under a call that uses it.
SessionSound ==
  /\ qSession # None => qSession \in qOpen
  /\ ~qOverlap => qOpen \subseteq {qSession}
  /\ ~qOverlap => \A c \in McpCalls : qPc[c] = "using" => qConn[c] \in qOpen
===============================================================================
