--------------------------- MODULE McpSessionProofs ---------------------------
(***************************************************************************)
(* Theorems about McpSession, for any number of calls and connections.     *)
(***************************************************************************)
EXTENDS McpSession, TLAPS

(* The connection a call is closing is nobody's current one any more.      *)
Forgotten == \A c \in McpCalls : qPc[c] = "closing" => qConn[c] \notin {qSession, None}

(* Without overlap at most one call is connecting, and only while there is *)
(* no session; none ever finds one to close.                               *)
OneAtATime ==
  ~qOverlap =>
    /\ \A c, d \in McpCalls : Busy(c) /\ Busy(d) => c = d
    /\ \A c \in McpCalls : Busy(c) => qSession = None
    /\ \A c \in McpCalls : qPc[c] # "closing"
    /\ qSession = None => qOpen = {}

McpInv == McpTypeOK /\ Forgotten /\ OneAtATime /\ SessionSound

USE McpAssumption

LEMMA InitSound == McpInit => McpInv
<1> SUFFICES ASSUME McpInit PROVE McpInv
  OBVIOUS
<1>1. McpTypeOK
  <2>1. qTransport \in {"http", "stdio", "auto"} /\ qConnects = 0 /\ qOpen = {} /\ qSession = None /\ qOverlap = FALSE
    BY DEF McpInit
  <2>2. /\ qPc \in [McpCalls -> McpPoints] /\ qLeg \in [McpCalls -> {"http", "stdio"}]
        /\ qThen \in [McpCalls -> {"retry", "stdio", "refuse"}]
    BY DEF McpInit, McpPoints
  <2>3. qTries \in [McpCalls -> 0..2]
    BY DEF McpInit
  <2>4. qConn \in [McpCalls -> 1..qConnects \union {None}]
    BY DEF McpInit
  <2> QED
    BY <2>1, <2>2, <2>3, <2>4 DEF McpTypeOK
<1>2. \A c \in McpCalls : qPc[c] = "idle"
  BY DEF McpInit
<1>3. qSession = None /\ qOpen = {}
  BY DEF McpInit
<1> QED
  BY <1>1, <1>2, <1>3 DEF McpInv, Forgotten, OneAtATime, SessionSound, Busy

(* Going on after a failed connect keeps the types.                        *)
LEMMA GoOnTyped ==
  ASSUME McpTypeOK, NEW c \in McpCalls, NEW then \in {"retry", "stdio", "refuse"},
         NEW session \in 1..qConnects \union {None}, GoOn(c, then, session)
  PROVE  /\ qPc' \in [McpCalls -> McpPoints] /\ qLeg' \in [McpCalls -> {"http", "stdio"}]
         /\ qTries' \in [McpCalls -> 0..2]
         /\ qConn' \in [McpCalls -> 1..qConnects \union {None}]
         /\ \A d \in McpCalls \ {c} : qPc'[d] = qPc[d] /\ qConn'[d] = qConn[d]
         /\ qPc'[c] \in {"idle", "connecting", "using"}
         /\ qPc'[c] = "using" => session # None /\ qConn'[c] = session
<1> USE DEF McpTypeOK, McpPoints, GoOn
<1>1. CASE then = "retry" /\ session # None
  BY <1>1 DEF Use
<1>2. CASE then = "retry" /\ session = None
  BY <1>2 DEF Connect
<1>3. CASE then = "stdio"
  BY <1>3 DEF Connect
<1>4. CASE then = "refuse"
  BY <1>4 DEF Leave
<1> QED
  BY <1>1, <1>2, <1>3, <1>4

LEMMA NextLegTyped ==
  ASSUME NEW c, NEW soft
  PROVE  NextLeg(c, soft) \in {"retry", "stdio", "refuse"}
BY DEF NextLeg

LEMMA EnsureKeeps ==
  ASSUME McpInv, NEW c \in McpCalls, Ensure(c)
  PROVE  McpInv'
<1> USE DEF McpInv, McpTypeOK, McpPoints, Ensure
<1>1. CASE qSession # None
  <2>1. /\ qPc' = [qPc EXCEPT ![c] = "using"] /\ qConn' = [qConn EXCEPT ![c] = qSession]
        /\ UNCHANGED <<qTransport, qSession, qConnects, qOpen, qThen, qLeg, qTries, qOverlap>>
    BY <1>1 DEF Use
  <2>2. McpTypeOK'
    BY <2>1, <1>1
  <2>3. Forgotten'
    BY <2>1 DEF Forgotten
  <2>4. OneAtATime'
    BY <2>1 DEF OneAtATime, Busy
  <2>5. SessionSound'
    BY <2>1, <1>1 DEF SessionSound
  <2> QED
    BY <2>2, <2>3, <2>4, <2>5
<1>2. CASE qSession = None
  <2>1. /\ qPc' = [qPc EXCEPT ![c] = "connecting"] /\ qConn' = [qConn EXCEPT ![c] = None]
        /\ qOverlap' = (qOverlap \/ \E d \in McpCalls \ {c} : Busy(d))
        /\ UNCHANGED <<qTransport, qSession, qConnects, qOpen, qThen>>
    BY <1>2 DEF Connect
  <2>2. McpTypeOK'
    BY <2>1, <1>2 DEF Connect
  <2>3. Forgotten'
    BY <2>1 DEF Forgotten
  <2>4. OneAtATime'
    BY <2>1, <1>2 DEF OneAtATime, Busy
  <2>5. SessionSound'
    BY <2>1, <1>2 DEF SessionSound
  <2> QED
    BY <2>2, <2>3, <2>4, <2>5
<1> QED
  BY <1>1, <1>2

LEMMA ConnectedKeeps ==
  ASSUME McpInv, NEW c \in McpCalls, Connected(c)
  PROVE  McpInv'
<1> DEFINE n == qConnects + 1
<1> USE DEF McpInv
<1>1. /\ qPc[c] = "connecting" /\ qConnects' = n /\ qOpen' = qOpen \union {n} /\ qSession' = n
      /\ qPc' = [qPc EXCEPT ![c] = "using"] /\ qConn' = [qConn EXCEPT ![c] = n]
      /\ UNCHANGED <<qTransport, qThen, qOverlap, qLeg, qTries>>
  BY DEF Connected, Use
<1>2. n \in Nat /\ n # None /\ 1..qConnects \subseteq 1..n /\ n \in 1..n /\ n \notin 1..qConnects
  BY DEF McpTypeOK
<1>3. McpTypeOK'
  BY <1>1, <1>2 DEF McpTypeOK, McpPoints
<1>4. Forgotten'
  BY <1>1, <1>2 DEF Forgotten, McpTypeOK, McpPoints
<1>5. OneAtATime'
  BY <1>1, <1>2 DEF OneAtATime, McpTypeOK, McpPoints, Busy
<1>6. ~qOverlap => qOpen = {}
  BY <1>1 DEF OneAtATime, Busy
<1>7. SessionSound'
  BY <1>1, <1>2, <1>6 DEF SessionSound, McpTypeOK, McpPoints
<1> QED
  BY <1>3, <1>4, <1>5, <1>7

LEMMA ConnectFailsKeeps ==
  ASSUME McpInv, NEW c \in McpCalls, ConnectFails(c)
  PROVE  McpInv'
<1> USE DEF McpInv
<1>1. PICK then \in {"retry", "stdio", "refuse"} : Disconnect(c, then)
  BY NextLegTyped DEF ConnectFails
<1>2. /\ qPc[c] = "connecting" /\ qSession' = None /\ qThen' = [qThen EXCEPT ![c] = then]
      /\ UNCHANGED <<qTransport, qConnects, qOpen, qOverlap>>
  BY <1>1 DEF ConnectFails, Disconnect
<1>3. CASE qSession = None
  <2>1. GoOn(c, then, None)
    BY <1>1, <1>3 DEF Disconnect
  <2>2. /\ qPc' \in [McpCalls -> McpPoints] /\ qLeg' \in [McpCalls -> {"http", "stdio"}]
        /\ qTries' \in [McpCalls -> 0..2] /\ qConn' \in [McpCalls -> 1..qConnects \union {None}]
        /\ \A d \in McpCalls \ {c} : qPc'[d] = qPc[d] /\ qConn'[d] = qConn[d]
        /\ qPc'[c] \in {"idle", "connecting"}
    BY <2>1, GoOnTyped
  <2>3. McpTypeOK'
    BY <1>2, <2>2 DEF McpTypeOK
  <2>4. Forgotten'
    BY <1>2, <1>3, <2>2 DEF Forgotten
  <2>5. OneAtATime'
    BY <1>2, <1>3, <2>2 DEF OneAtATime, Busy
  <2>6. SessionSound'
    BY <1>2, <1>3, <2>2 DEF SessionSound
  <2> QED
    BY <2>3, <2>4, <2>5, <2>6
<1>4. CASE qSession # None
  <2>1. /\ qPc' = [qPc EXCEPT ![c] = "closing"] /\ qConn' = [qConn EXCEPT ![c] = qSession]
        /\ UNCHANGED <<qLeg, qTries>>
    BY <1>1, <1>4 DEF Disconnect
  <2>2. qOverlap
    BY <1>2, <1>4 DEF OneAtATime, Busy
  <2>3. McpTypeOK'
    BY <1>2, <2>1 DEF McpTypeOK, McpPoints
  <2>4. Forgotten'
    BY <1>2, <1>4, <2>1 DEF Forgotten, SessionSound, McpTypeOK, McpPoints
  <2> QED
    BY <1>2, <2>2, <2>3, <2>4 DEF OneAtATime, SessionSound
<1> QED
  BY <1>3, <1>4

LEMMA ClosedKeeps ==
  ASSUME McpInv, NEW c \in McpCalls, Closed(c)
  PROVE  McpInv'
<1> USE DEF McpInv
<1>1. /\ qPc[c] = "closing" /\ qOpen' = qOpen \ {qConn[c]}
      /\ GoOn(c, qThen[c], qSession)
      /\ UNCHANGED <<qTransport, qSession, qConnects, qThen, qOverlap>>
  BY DEF Closed
<1>2. qOverlap
  BY <1>1 DEF OneAtATime
<1>3. /\ qPc' \in [McpCalls -> McpPoints] /\ qLeg' \in [McpCalls -> {"http", "stdio"}]
      /\ qTries' \in [McpCalls -> 0..2] /\ qConn' \in [McpCalls -> 1..qConnects \union {None}]
      /\ \A d \in McpCalls \ {c} : qPc'[d] = qPc[d] /\ qConn'[d] = qConn[d]
      /\ qPc'[c] \in {"idle", "connecting", "using"}
  BY <1>1, GoOnTyped DEF McpTypeOK
<1>4. McpTypeOK'
  BY <1>1, <1>3 DEF McpTypeOK
<1> QED
  BY <1>1, <1>2, <1>3, <1>4 DEF Forgotten, OneAtATime, SessionSound

LEMMA CallEndsKeeps ==
  ASSUME McpInv, NEW c \in McpCalls, CallEnds(c)
  PROVE  McpInv'
<1> USE DEF McpInv
<1>1. /\ qPc' = [qPc EXCEPT ![c] = "idle"] /\ qConn' = [qConn EXCEPT ![c] = None]
      /\ UNCHANGED <<qTransport, qSession, qConnects, qOpen, qThen, qLeg, qTries, qOverlap>>
  BY DEF CallEnds, Leave
<1>2. McpTypeOK'
  BY <1>1 DEF McpTypeOK, McpPoints
<1> QED
  BY <1>1, <1>2 DEF McpTypeOK, McpPoints, Forgotten, OneAtATime, SessionSound, Busy

LEMMA McpInductive == McpSpec => []McpInv
<1>1. ASSUME McpInv, McpNext PROVE McpInv'
  BY <1>1, EnsureKeeps, ConnectedKeeps, ConnectFailsKeeps, ClosedKeeps, CallEndsKeeps DEF McpNext
<1>2. ASSUME McpInv, UNCHANGED mcpVars PROVE McpInv'
  BY <1>2 DEF McpInv, McpTypeOK, McpPoints, Forgotten, OneAtATime, SessionSound, Busy, mcpVars
<1> QED
  BY InitSound, <1>1, <1>2, PTL DEF McpSpec

\* A session handed out is open, whichever calls connect and close around it
\* (_disconnect_async forgets before it closes); and without overlap no
\* connection is lost or closed under a call that uses it.
THEOREM NoClosedSession == McpSpec => []SessionSound
<1>1. McpInv => SessionSound
  BY DEF McpInv
<1> QED
  BY <1>1, McpInductive, PTL
===============================================================================
