------------------------------ MODULE Publisher ------------------------------
(***************************************************************************)
(* The transport facade of src/platform/transport: a publisher numbers its *)
(* envelopes, keeps them per trace for GET /events, and writes each one to *)
(* every attached client of the configured transport.  publish() returns   *)
(* when the SSE clients whose write buffer was full have drained it.       *)
(*                                                                         *)
(* Numbering, collecting and all writes of one publish happen before its   *)
(* first await, so they are one step; waiting for "drain" is not.          *)
(***************************************************************************)
EXTENDS Integers, Sequences, FiniteSets

CONSTANTS
  Conns,        \* clients
  Calls,        \* concurrent publish() calls
  TraceIds,
  MaxPublishes  \* bound on envelopes

ASSUME PublisherAssumption ==
  /\ IsFiniteSet(Conns)
  /\ MaxPublishes \in Nat

VARIABLES
  transport,  \* TRANSPORT
  seq,        \* the next envelope's number
  closed,     \* close() was called
  collected,  \* collected[t]: numbers kept for GET /events
  members,    \* clients in the hubs
  kind,       \* kind[c]: the hub the client belongs to
  link,       \* link[c]: "new", "up", "slow" (write buffer full) or "lost"
  joined,     \* history: seq when the client was attached
  got,        \* got[c]: numbers written to the client
  waits       \* waits[p]: clients whose "drain" the call awaits

publisherVars == <<transport, seq, closed, collected, members, kind, link,
                   joined, got, waits>>

Transports == {"sse", "websocket", "none"}

PublisherInit ==
  /\ transport \in Transports
  /\ seq = 0
  /\ closed = FALSE
  /\ collected = [t \in TraceIds |-> <<>>]
  /\ members = {}
  /\ kind = [c \in Conns |-> "sse"]
  /\ link = [c \in Conns |-> "new"]
  /\ joined = [c \in Conns |-> 0]
  /\ got = [c \in Conns |-> <<>>]
  /\ waits = [p \in Calls |-> {}]

\* asSseStream, asWebSocket: they do not ask whether the publisher is closed.
Attach(c, k) ==
  /\ link[c] = "new"
  /\ members' = members \union {c}
  /\ kind' = [kind EXCEPT ![c] = k]
  /\ link' = [link EXCEPT ![c] = "up"]
  /\ joined' = [joined EXCEPT ![c] = seq]
  /\ UNCHANGED <<transport, seq, closed, collected, got, waits>>

Reach == {c \in members : kind[c] = transport}

Write(S) == got' = [c \in Conns |-> IF c \in S THEN Append(got[c], seq) ELSE got[c]]

\* Variant (fault injection): one client after the other, up to the first
\* that has to be waited for.
FanoutSse_OneByOne(p) ==
  \E full \in SUBSET {c \in Reach : link[c] = "up"} :
    LET stuck == full \union {c \in Reach : link[c] # "up"} IN
    /\ \E done \in SUBSET (Reach \ stuck) :
         /\ stuck = {} => done = Reach
         /\ Write(done)
    /\ link' = [c \in Conns |-> IF c \in full THEN "slow" ELSE link[c]]
    /\ waits' = [waits EXCEPT ![p] = stuck]
    /\ UNCHANGED members

\* SseHub.fanout: a write to a full buffer is buffered and returns false; so
\* does a write to a client that is gone, which is never drained.
FanoutSse(p) ==
  \E full \in SUBSET {c \in Reach : link[c] = "up"} :
    /\ Write({c \in Reach : link[c] # "lost"})
    /\ link' = [c \in Conns |-> IF c \in full THEN "slow" ELSE link[c]]
    /\ waits' = [waits EXCEPT ![p] = full \union {c \in Reach : link[c] # "up"}]
    /\ UNCHANGED members

\* WebSocketHub.fanout: send() does not wait; on a socket that is gone it may
\* throw, which removes that client.
FanoutWebSocket ==
  \E broken \in SUBSET {c \in Reach : link[c] = "lost"} :
    /\ Write({c \in Reach : link[c] # "lost"})
    /\ members' = members \ broken
    /\ UNCHANGED <<link, waits>>

\* Variant (fault injection): a closed publisher does not collect.
Collect_UntilClosed(t) ==
  collected' = IF closed THEN collected
               ELSE [collected EXCEPT ![t] = Append(@, seq)]

Collect(t) == collected' = [collected EXCEPT ![t] = Append(@, seq)]

\* publish(): number, collect, and fan out unless closed or TRANSPORT=none.
Publish(p, t) ==
  /\ waits[p] = {}
  /\ seq < MaxPublishes
  /\ seq' = seq + 1
  /\ Collect(t)
  /\ IF closed \/ transport = "none" THEN UNCHANGED <<members, link, got, waits>>
     ELSE IF transport = "sse" THEN FanoutSse(p)
     ELSE FanoutWebSocket
  /\ UNCHANGED <<transport, closed, kind, joined>>

\* Variant (fault injection): "drain" reaches one waiting call.
Drain_WakesOne(c) ==
  /\ c \in members
  /\ link[c] = "slow"
  /\ link' = [link EXCEPT ![c] = "up"]
  /\ \E q \in Calls :
       /\ (\E p \in Calls : c \in waits[p]) => c \in waits[q]
       /\ waits' = [waits EXCEPT ![q] = @ \ {c}]
  /\ UNCHANGED <<transport, seq, closed, collected, members, kind, joined, got>>

\* A client's socket has taken what was buffered: "drain" reaches every call
\* that waits for it.  It does not after end(), which removal has called.
Drain(c) ==
  /\ c \in members
  /\ link[c] = "slow"
  /\ link' = [link EXCEPT ![c] = "up"]
  /\ waits' = [p \in Calls |-> waits[p] \ {c}]
  /\ UNCHANGED <<transport, seq, closed, collected, members, kind, joined, got>>

\* The client goes away; the server has not noticed yet.
Lose(c) ==
  /\ c \in members
  /\ link[c] \in {"up", "slow"}
  /\ link' = [link EXCEPT ![c] = "lost"]
  /\ UNCHANGED <<transport, seq, closed, collected, members, kind, joined, got, waits>>

\* "close" or "error" of a request or socket: remove() takes it from its hub.
OnClose(c) ==
  /\ c \in members
  /\ link[c] = "lost"
  /\ members' = members \ {c}
  /\ UNCHANGED <<transport, seq, closed, collected, kind, link, joined, got, waits>>

\* close(): both hubs end all their clients.
Close ==
  /\ ~closed
  /\ closed' = TRUE
  /\ members' = {}
  /\ UNCHANGED <<transport, seq, collected, kind, link, joined, got, waits>>

PublisherNext ==
  \/ \E c \in Conns :
       Attach(c, "sse") \/ Attach(c, "websocket") \/ Drain(c) \/ Lose(c) \/ OnClose(c)
  \/ \E p \in Calls, t \in TraceIds : Publish(p, t)
  \/ Close

\* Clients that stay connected read what was sent; the server learns in the
\* end that one has gone.
PublisherFairness ==
  \A c \in Conns : WF_publisherVars(Drain(c)) /\ WF_publisherVars(OnClose(c))

PublisherSpec == PublisherInit /\ [][PublisherNext]_publisherVars
PublisherFairSpec == PublisherSpec /\ PublisherFairness

-----------------------------------------------------------------------------
PublisherTypeOK ==
  /\ transport \in Transports
  /\ seq \in 0..MaxPublishes
  /\ closed \in BOOLEAN
  /\ collected \in [TraceIds -> Seq(0..(MaxPublishes - 1))]
  /\ members \subseteq Conns
  /\ kind \in [Conns -> {"sse", "websocket"}]
  /\ link \in [Conns -> {"new", "up", "slow", "lost"}]
  /\ joined \in [Conns -> 0..MaxPublishes]
  /\ got \in [Conns -> Seq(0..(MaxPublishes - 1))]
  /\ waits \in [Calls -> SUBSET Conns]

\* Whatever the other clients do, a client is sent the envelopes published
\* since it was attached in order and without a hole, and while it is
\* connected all of them (sse.ts: "one dead connection cannot block the rest").
Contiguous ==
  \A c \in Conns :
    /\ \A i \in DOMAIN got[c] : got[c][i] = joined[c] + i - 1
    /\ (c \in Reach /\ ~closed /\ link[c] # "lost") => joined[c] + Len(got[c]) = seq

\* GET /events has every numbered envelope exactly once, whether it was
\* delivered or not, also those published after close.
CollectExact ==
  /\ \A n \in 0..(seq - 1) :
       \E t \in TraceIds : \E i \in DOMAIN collected[t] : collected[t][i] = n
  /\ \A t, u \in TraceIds : \A i \in DOMAIN collected[t], j \in DOMAIN collected[u] :
       collected[t][i] = collected[u][j] => t = u /\ i = j

\* With clients that stay, a publish() returns.
LiveClientsReturn ==
  \A p \in Calls :
    waits[p] # {} ~> \/ waits[p] = {}
                     \/ closed
                     \/ \E c \in waits[p] : link[c] = "lost"

\* "Resolves after the transport flush (cooperative backpressure)"
\* (publisher.ts:55): a publish() returns.
PublishReturns == \A p \in Calls : waits[p] # {} ~> waits[p] = {}
=============================================================================
