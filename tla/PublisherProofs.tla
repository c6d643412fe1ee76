--------------------------- MODULE PublisherProofs ---------------------------
(***************************************************************************)
(* Theorems about Publisher, for any clients, calls, traces and bound.     *)
(***************************************************************************)
EXTENDS Publisher, TLAPS

\* What Contiguous rests on: types, and a client that was never attached has
\* been sent nothing and is in no hub.
Typed ==
  /\ transport \in Transports
  /\ seq \in Nat
  /\ closed \in BOOLEAN
  /\ members \subseteq Conns
  /\ kind \in [Conns -> {"sse", "websocket"}]
  /\ link \in [Conns -> {"new", "up", "slow", "lost"}]
  /\ joined \in [Conns -> Nat]
  /\ got \in [Conns -> Seq(Nat)]

Untouched == \A c \in Conns : link[c] = "new" => c \notin members /\ got[c] = <<>>

SegmentInv == Typed /\ Untouched /\ Contiguous

\* A write extends the segment of every client it goes to, and nobody else's.
LEMMA WriteExtends ==
  ASSUME SegmentInv, ~closed, NEW S, S = {c \in Reach : link[c] # "lost"},
         Write(S), seq' = seq + 1,
         UNCHANGED <<transport, closed, kind, joined>>,
         members' \subseteq members,
         link' \in [Conns -> {"new", "up", "slow", "lost"}],
         \A c \in Conns : (link'[c] = "new" <=> link[c] = "new")
                          /\ (link'[c] = "lost" <=> link[c] = "lost")
  PROVE  SegmentInv'
<1> USE DEF SegmentInv, Typed, Untouched
<1>1. S \subseteq Conns
  BY DEF Reach
<1>2. got' = [c \in Conns |-> IF c \in S THEN Append(got[c], seq) ELSE got[c]]
  BY DEF Write
<1>3. got' \in [Conns -> Seq(Nat)]
  BY <1>2
<1>4. Typed'
  BY <1>3
<1>5. Untouched'
  BY <1>2 DEF Reach
<1>6. ASSUME NEW c \in Conns
      PROVE  /\ \A i \in DOMAIN got'[c] : got'[c][i] = joined'[c] + i - 1
             /\ (c \in Reach' /\ ~closed' /\ link'[c] # "lost")
                  => joined'[c] + Len(got'[c]) = seq'
  <2>1. joined[c] \in Nat /\ got[c] \in Seq(Nat) /\ Len(got[c]) \in Nat
    OBVIOUS
  <2>2. \A i \in DOMAIN got[c] : got[c][i] = joined[c] + i - 1
    BY DEF Contiguous
  <2>3. CASE c \in S
    <3>1. joined[c] + Len(got[c]) = seq
      BY <2>3 DEF Contiguous
    <3>2. got'[c] = Append(got[c], seq)
      BY <1>2, <2>3
    <3>3. Len(got'[c]) = Len(got[c]) + 1 /\ DOMAIN got'[c] = 1..(Len(got[c]) + 1)
      BY <2>1, <3>2
    <3>4. ASSUME NEW i \in DOMAIN got'[c] PROVE got'[c][i] = joined[c] + i - 1
      <4>1. CASE i = Len(got[c]) + 1
        BY <4>1, <3>1, <3>2, <2>1
      <4>2. CASE i \in 1..Len(got[c])
        BY <4>2, <2>1, <2>2, <3>2
      <4> QED
        BY <4>1, <4>2, <3>3, <2>1
    <3> QED
      BY <3>1, <3>3, <3>4, <2>1
  <2>4. CASE c \notin S
    <3>1. got'[c] = got[c]
      BY <1>2, <2>4
    <3>2. ~(c \in Reach' /\ link'[c] # "lost")
      BY <2>4 DEF Reach
    <3> QED
      BY <2>2, <3>1, <3>2
  <2> QED
    BY <2>3, <2>4
<1> QED
  BY <1>4, <1>5, <1>6 DEF Contiguous

LEMMA InitSegment == PublisherInit => SegmentInv
<1> SUFFICES ASSUME PublisherInit PROVE SegmentInv
  OBVIOUS
<1> USE DEF PublisherInit
<1>1. got = [c \in Conns |-> <<>>] /\ Reach = {}
  BY DEF Reach
<1>2. Typed
  <2>1. got \in [Conns -> Seq(Nat)]
    BY <1>1
  <2>2. joined \in [Conns -> Nat] /\ seq \in Nat /\ members \subseteq Conns
    OBVIOUS
  <2>3. /\ kind \in [Conns -> {"sse", "websocket"}]
        /\ link \in [Conns -> {"new", "up", "slow", "lost"}]
    OBVIOUS
  <2> QED
    BY <2>1, <2>2, <2>3 DEF Typed
<1>3. Untouched
  BY <1>1 DEF Untouched
<1>4. Contiguous
  BY <1>1 DEF Contiguous
<1> QED
  BY <1>2, <1>3, <1>4 DEF SegmentInv

LEMMA PublishSegment ==
  ASSUME SegmentInv, NEW p \in Calls, NEW t \in TraceIds, Publish(p, t)
  PROVE  SegmentInv'
<1> USE DEF SegmentInv, Typed, Untouched
<1>1. seq' = seq + 1 /\ UNCHANGED <<transport, closed, kind, joined>>
  BY DEF Publish
<1>2. CASE closed \/ transport = "none"
  <2>1. UNCHANGED <<members, link, got>>
    BY <1>2 DEF Publish
  <2>2. \A c \in Conns : ~(c \in Reach' /\ ~closed')
    BY <1>1, <1>2, <2>1 DEF Reach
  <2> QED
    BY <1>1, <2>1, <2>2 DEF Contiguous
<1>3. CASE ~closed /\ transport = "sse"
  <2>1. FanoutSse(p)
    BY <1>3 DEF Publish
  <2>2. PICK full \in SUBSET {c \in Reach : link[c] = "up"} :
          /\ Write({c \in Reach : link[c] # "lost"})
          /\ link' = [c \in Conns |-> IF c \in full THEN "slow" ELSE link[c]]
          /\ UNCHANGED members
    BY <2>1 DEF FanoutSse
  <2>3. /\ link' \in [Conns -> {"new", "up", "slow", "lost"}]
        /\ \A c \in Conns : (link'[c] = "new" <=> link[c] = "new")
                            /\ (link'[c] = "lost" <=> link[c] = "lost")
    BY <2>2
  <2> QED
    BY <1>1, <1>3, <2>2, <2>3, WriteExtends
<1>4. CASE ~closed /\ transport = "websocket"
  <2>1. FanoutWebSocket
    BY <1>4 DEF Publish
  <2>2. Write({c \in Reach : link[c] # "lost"}) /\ members' \subseteq members /\ link' = link
    BY <2>1 DEF FanoutWebSocket
  <2> QED
    BY <1>1, <1>4, <2>2, WriteExtends
<1> QED
  BY <1>2, <1>3, <1>4 DEF Transports

LEMMA NextSegment == SegmentInv /\ [PublisherNext]_publisherVars => SegmentInv'
<1> SUFFICES ASSUME SegmentInv, [PublisherNext]_publisherVars PROVE SegmentInv'
  OBVIOUS
<1>1. ASSUME NEW c \in Conns, NEW k \in {"sse", "websocket"}, Attach(c, k)
      PROVE  SegmentInv'
  <2> USE DEF SegmentInv, Typed, Untouched
  <2>1. got[c] = <<>> /\ c \notin members
    BY <1>1 DEF Attach
  <2>2. Typed' /\ Untouched'
    BY <1>1 DEF Attach
  <2>3. ASSUME NEW d \in Conns
        PROVE  /\ \A i \in DOMAIN got'[d] : got'[d][i] = joined'[d] + i - 1
               /\ (d \in Reach' /\ ~closed' /\ link'[d] # "lost")
                    => joined'[d] + Len(got'[d]) = seq'
    <3>1. CASE d = c
      <4>1. got'[d] = <<>> /\ joined'[d] = seq /\ seq' = seq
        BY <1>1, <2>1, <3>1 DEF Attach
      <4> QED
        BY <4>1
    <3>2. CASE d # c
      BY <1>1, <3>2 DEF Attach, Reach, Contiguous
    <3> QED
      BY <3>1, <3>2
  <2> QED
    BY <2>2, <2>3 DEF Contiguous
<1>2. ASSUME NEW p \in Calls, NEW t \in TraceIds, Publish(p, t) PROVE SegmentInv'
  BY <1>2, PublishSegment
<1>3. ASSUME NEW c \in Conns, Drain(c) PROVE SegmentInv'
  BY <1>3 DEF Drain, SegmentInv, Typed, Untouched, Contiguous, Reach
<1>4. ASSUME NEW c \in Conns, Lose(c) PROVE SegmentInv'
  BY <1>4 DEF Lose, SegmentInv, Typed, Untouched, Contiguous, Reach
<1>5. ASSUME NEW c \in Conns, OnClose(c) PROVE SegmentInv'
  BY <1>5 DEF OnClose, SegmentInv, Typed, Untouched, Contiguous, Reach
<1>6. ASSUME Close PROVE SegmentInv'
  BY <1>6 DEF Close, SegmentInv, Typed, Untouched, Contiguous, Reach
<1>7. ASSUME UNCHANGED publisherVars PROVE SegmentInv'
  BY <1>7 DEF publisherVars, SegmentInv, Typed, Untouched, Contiguous, Reach
<1> QED
  BY <1>1, <1>2, <1>3, <1>4, <1>5, <1>6, <1>7 DEF PublisherNext

\* No client is ever sent an envelope twice, out of order or after a hole, and
\* one that is connected has all envelopes since it was attached.
THEOREM NoClientMisses == PublisherSpec => []Contiguous
<1>1. SegmentInv => Contiguous
  BY DEF SegmentInv
<1> QED
  BY <1>1, InitSegment, NextSegment, PTL DEF PublisherSpec
-----------------------------------------------------------------------------
(* The snapshot *)

\* What was collected has a number that was given out.
Numbered ==
  /\ seq \in Nat
  /\ collected \in [TraceIds -> Seq(Nat)]
  /\ \A t \in TraceIds : \A i \in DOMAIN collected[t] : collected[t][i] < seq

CollectInv == Numbered /\ CollectExact

LEMMA InitCollect == PublisherInit => CollectInv
<1> SUFFICES ASSUME PublisherInit PROVE CollectInv
  OBVIOUS
<1>1. seq = 0 /\ \A t \in TraceIds : collected[t] = <<>>
  BY DEF PublisherInit
<1>2. collected \in [TraceIds -> Seq(Nat)]
  BY DEF PublisherInit
<1> QED
  BY <1>1, <1>2 DEF CollectInv, Numbered, CollectExact

\* The new number goes to the end of one trace, and no other place has it.
LEMMA CollectStep ==
  ASSUME CollectInv, NEW t \in TraceIds, Collect(t), seq' = seq + 1
  PROVE  CollectInv'
<1> USE DEF CollectInv, Numbered
<1>1. collected' = [collected EXCEPT ![t] = Append(@, seq)]
  BY DEF Collect
<1>2. collected' \in [TraceIds -> Seq(Nat)]
  BY <1>1
<1>3. collected'[t] = Append(collected[t], seq) /\ Len(collected[t]) \in Nat
  BY <1>1
<1>4. /\ DOMAIN collected'[t] = 1..(Len(collected[t]) + 1)
      /\ DOMAIN collected[t] = 1..Len(collected[t])
      /\ collected'[t][Len(collected[t]) + 1] = seq
      /\ \A i \in DOMAIN collected[t] : collected'[t][i] = collected[t][i]
  BY <1>3
<1>5. \A u \in TraceIds : u # t => collected'[u] = collected[u]
  BY <1>1
<1>6. \A u \in TraceIds : \A i \in DOMAIN collected'[u] :
        \/ i \in DOMAIN collected[u] /\ collected'[u][i] = collected[u][i]
        \/ u = t /\ i = Len(collected[t]) + 1 /\ collected'[u][i] = seq
  <2> SUFFICES ASSUME NEW u \in TraceIds, NEW i \in DOMAIN collected'[u]
               PROVE  \/ i \in DOMAIN collected[u] /\ collected'[u][i] = collected[u][i]
                      \/ u = t /\ i = Len(collected[t]) + 1 /\ collected'[u][i] = seq
    OBVIOUS
  <2>1. CASE u = t
    <3>1. i \in 1..(Len(collected[t]) + 1)
      BY <2>1, <1>4
    <3>2. i = Len(collected[t]) + 1 \/ i \in 1..Len(collected[t])
      BY <3>1, <1>3
    <3> QED
      BY <2>1, <3>2, <1>4
  <2>2. CASE u # t
    BY <2>2, <1>5
  <2> QED
    BY <2>1, <2>2
<1>7. \A u \in TraceIds : \A i \in DOMAIN collected'[u] : collected'[u][i] < seq'
  BY <1>6
<1>8. ASSUME NEW n \in 0..(seq' - 1)
      PROVE  \E u \in TraceIds : \E i \in DOMAIN collected'[u] : collected'[u][i] = n
  <2>1. CASE n = seq
    BY <2>1, <1>4
  <2>2. CASE n \in 0..(seq - 1)
    <3>1. PICK u \in TraceIds : \E i \in DOMAIN collected[u] : collected[u][i] = n
      BY <2>2 DEF CollectExact
    <3>2. PICK i \in DOMAIN collected[u] : collected[u][i] = n
      BY <3>1
    <3>3. i \in DOMAIN collected'[u] /\ collected'[u][i] = n
      <4>1. CASE u = t
        BY <4>1, <3>2, <1>3, <1>4
      <4>2. CASE u # t
        BY <4>2, <3>2, <1>5
      <4> QED
        BY <4>1, <4>2
    <3> QED
      BY <3>3
  <2> QED
    BY <2>1, <2>2
<1>9. ASSUME NEW u \in TraceIds, NEW v \in TraceIds,
             NEW i \in DOMAIN collected'[u], NEW j \in DOMAIN collected'[v],
             collected'[u][i] = collected'[v][j]
      PROVE  u = v /\ i = j
  <2>1. CASE collected'[u][i] = seq
    <3>1. ASSUME NEW w \in TraceIds, NEW k \in DOMAIN collected'[w], collected'[w][k] = seq
          PROVE  w = t /\ k = Len(collected[t]) + 1
      <4>1. k \in DOMAIN collected[w] => collected[w][k] \in Nat /\ collected[w][k] < seq
        OBVIOUS
      <4> QED
        BY <4>1, <3>1, <1>6
    <3> QED
      BY <2>1, <3>1, <1>9
  <2>2. CASE collected'[u][i] # seq
    <3>1. /\ i \in DOMAIN collected[u] /\ j \in DOMAIN collected[v]
          /\ collected[u][i] = collected[v][j]
      BY <2>2, <1>6, <1>9
    <3> QED
      BY <3>1 DEF CollectExact
  <2> QED
    BY <2>1, <2>2
<1> QED
  BY <1>2, <1>7, <1>8, <1>9 DEF CollectExact

LEMMA NextCollect == CollectInv /\ [PublisherNext]_publisherVars => CollectInv'
<1> SUFFICES ASSUME CollectInv, [PublisherNext]_publisherVars PROVE CollectInv'
  OBVIOUS
<1>1. ASSUME NEW p \in Calls, NEW t \in TraceIds, Publish(p, t) PROVE CollectInv'
  BY <1>1, CollectStep DEF Publish
<1>2. ASSUME UNCHANGED <<seq, collected>> PROVE CollectInv'
  BY <1>2 DEF CollectInv, Numbered, CollectExact
<1> QED
  BY <1>1, <1>2
  DEF PublisherNext, Attach, Drain, Lose, OnClose, Close, publisherVars

\* GET /events has every envelope that was given a number exactly once, for
\* any transport, clients and interleaving of calls, and after close.
THEOREM SnapshotIsExact == PublisherSpec => []CollectExact
<1>1. CollectInv => CollectExact
  BY DEF CollectInv
<1> QED
  BY <1>1, InitCollect, NextCollect, PTL DEF PublisherSpec
=============================================================================
