------------------------------- MODULE Recent -------------------------------
(***************************************************************************)
(* The numbering of a run's envelopes and the replay buffer RECENT         *)
(* (src/engine/api/events.py).  All of it happens on the event loop and    *)
(* without an await, so each operation is one step.                        *)
(***************************************************************************)
EXTENDS Integers, Sequences, FiniteSets

CONSTANTS
  Traces,
  Last,       \* number of a run's last envelope
  MaxTraces,  \* RECENT_MAX_TRACES
  PerTrace    \* RECENT_MAX_PER_TRACE

ASSUME RecentAssumption ==
  /\ Last \in Nat
  /\ MaxTraces \in Nat \ {0}
  /\ PerTrace \in Nat \ {0}

Numbers == 0..Last
Envelopes == Traces \X Numbers

VARIABLES
  next,       \* next[t]: the publisher's counter
  recent,     \* RECENT's keys, oldest first
  buf,        \* buf[t]: numbers in RECENT[t]
  sent        \* history: envelopes that were published

recentVars == <<next, recent, buf, sent>>

RecentInit ==
  /\ next = [t \in Traces |-> 0]
  /\ recent = <<>>
  /\ buf = [t \in Traces |-> {}]
  /\ sent = {}

\* Variant (fault injection): a full deque keeps its oldest numbers instead.
TrimNewest(S) == {x \in S : Cardinality({y \in S : y < x}) < PerTrace}

\* deque(maxlen): the oldest numbers fall out.
Trim(S) == {x \in S : Cardinality({y \in S : y > x}) < PerTrace}

Known(t) == \E i \in DOMAIN recent : recent[i] = t

\* _remember: a new trace may push the oldest one out of RECENT.
Remember(t, s) ==
  LET evict == ~Known(t) /\ Len(recent) >= MaxTraces IN
  /\ recent' = IF Known(t) THEN recent
               ELSE Append(IF evict THEN Tail(recent) ELSE recent, t)
  /\ buf' = [u \in Traces |->
               IF u = t THEN Trim(buf[t] \union {s})
               ELSE IF evict /\ u = Head(recent) THEN {}
               ELSE buf[u]]

\* publish: number, validate, remember.
Emit(t) ==
  LET s == next[t] IN
  /\ s <= Last
  /\ next' = [next EXCEPT ![t] = s + 1]
  /\ Remember(t, s)
  /\ sent' = sent \union {<<t, s>>}

\* An envelope that fails validation has used up its number.
Void(t) ==
  /\ next[t] < Last
  /\ next' = [next EXCEPT ![t] = @ + 1]
  /\ UNCHANGED <<recent, buf, sent>>

\* GET /api/events/recent, answered from the state of that moment.
Replay(t, after) == {<<t, s>> : s \in {n \in buf[t] : n > after}}

RecentNext == \E t \in Traces : Emit(t) \/ Void(t)

RecentSpec == RecentInit /\ [][RecentNext]_recentVars

-----------------------------------------------------------------------------
RecentTypeOK ==
  /\ next \in [Traces -> 0..(Last + 1)]
  /\ recent \in Seq(Traces) /\ Len(recent) <= MaxTraces
  /\ buf \in [Traces -> SUBSET Numbers]
  /\ sent \subseteq Envelopes

\* What RECENT replays of a trace is the newest part of what was published,
\* without holes, also after its deque has overflowed or the trace was evicted
\* and came back: a poll that asks after n gets everything after n, or n has
\* fallen out of the buffer as well.
ReplayIsSuffix ==
  \A t \in Traces : Known(t) =>
    /\ \E s \in buf[t] : \A n \in Numbers : <<t, n>> \in sent => n <= s
    /\ \A s \in buf[t], n \in Numbers :
         <<t, n>> \in sent /\ n >= s => n \in buf[t]
=============================================================================
