-------------------------- MODULE EventReplayProofs --------------------------
(***************************************************************************)
(* Theorems about Recent and EventReplay, for any traces, any number of    *)
(* envelopes and any bound on traces, polls and losses.                    *)
(***************************************************************************)
EXTENDS EventReplay, FiniteSetTheorems, TLAPS

-----------------------------------------------------------------------------
(* The replay buffer. *)

(* What is above an element of a set of envelope numbers is finite. *)
LEMMA AboveIsFinite ==
  ASSUME NEW S \in SUBSET Numbers, NEW x
  PROVE  IsFiniteSet({y \in S : y > x}) /\ Cardinality({y \in S : y > x}) \in Nat
<1>1. IsFiniteSet(Numbers)
  BY FS_Interval, RecentAssumption DEF Numbers
<1>2. {y \in S : y > x} \in SUBSET Numbers
  OBVIOUS
<1>3. IsFiniteSet({y \in S : y > x})
  BY <1>1, <1>2, FS_Subset
<1> QED BY <1>3, FS_CardinalityType

(* A full deque keeps its newest number, and with a number all newer ones. *)
LEMMA TrimKeepsNewest ==
  ASSUME NEW S \in SUBSET Numbers, NEW s \in S, \A y \in S : y <= s
  PROVE  s \in Trim(S)
<1>0. \A y \in S : y \in Int
  BY DEF Numbers
<1>1. {y \in S : y > s} = {}
  BY <1>0, SMT
<1>2. Cardinality({y \in S : y > s}) = 0
  BY <1>1, FS_EmptySet
<1> QED BY <1>2, RecentAssumption DEF Trim

LEMMA TrimKeepsNewer ==
  ASSUME NEW S \in SUBSET Numbers, NEW x \in Trim(S), NEW y \in S, x <= y
  PROVE  y \in Trim(S)
<1> DEFINE A == {z \in S : z > x}
           B == {z \in S : z > y}
<1>1. IsFiniteSet(A) /\ Cardinality(A) \in Nat /\ Cardinality(B) \in Nat
  BY AboveIsFinite
<1>0. \A z \in S : z \in Int
  BY DEF Numbers
<1>2. B \in SUBSET A
  BY <1>0, SMT DEF Trim
<1>3. Cardinality(B) <= Cardinality(A)
  BY <1>1, <1>2, FS_Subset
<1>4. Cardinality(A) < PerTrace
  BY DEF Trim
<1>5. Cardinality(B) < PerTrace
  BY <1>1, <1>3, <1>4, RecentAssumption
<1> QED BY <1>5 DEF Trim

(* No trace is listed twice. *)
NoDouble == \A i, j \in DOMAIN recent : recent[i] = recent[j] => i = j

(* Every number that was used up is below the counter, what is buffered    *)
(* was sent, and nothing is buffered of a trace that is not listed.        *)
Numbered ==
  /\ \A t \in Traces, n \in Numbers : <<t, n>> \in sent => n < next[t]
  /\ \A t \in Traces : \A n \in buf[t] : <<t, n>> \in sent
  /\ \A t \in Traces : ~Known(t) => buf[t] = {}

RecentInv == RecentTypeOK /\ NoDouble /\ Numbered /\ ReplayIsSuffix

LEMMA RecentAtFirst == RecentInit => RecentInv
<1> SUFFICES ASSUME RecentInit PROVE RecentInv
  OBVIOUS
<1>1. recent = <<>> /\ DOMAIN recent = {} /\ recent \in Seq(Traces) /\ Len(recent) = 0
  BY DEF RecentInit
<1>2. RecentTypeOK
  BY <1>1, RecentAssumption DEF RecentInit, RecentTypeOK, Numbers
<1>3. NoDouble /\ ReplayIsSuffix
  BY <1>1 DEF NoDouble, ReplayIsSuffix, Known
<1>4. Numbered
  BY DEF RecentInit, Numbered
<1> QED BY <1>2, <1>3, <1>4 DEF RecentInv

(* Which traces are listed after a new one has been remembered. *)
LEMMA AppendTail ==
  ASSUME NEW q \in Seq(Traces), q # <<>>, NEW t \in Traces,
         \A i \in DOMAIN q : q[i] # t,
         \A i, j \in DOMAIN q : q[i] = q[j] => i = j,
         NEW r, r = Append(Tail(q), t)
  PROVE  /\ r \in Seq(Traces) /\ Len(r) = Len(q)
         /\ \A i, j \in DOMAIN r : r[i] = r[j] => i = j
         /\ \A i \in DOMAIN r : r[i] = t \/ (r[i] # q[1] /\ \E j \in DOMAIN q : q[j] = r[i])
         /\ \E i \in DOMAIN r : r[i] = t
<1> DEFINE n == Len(q)
<1>1. n \in Nat \ {0} /\ DOMAIN q = 1..n
  OBVIOUS
<1>2. r \in Seq(Traces) /\ Len(r) = n /\ DOMAIN r = 1..n
  OBVIOUS
<1>3. r[n] = t /\ \A i \in 1..(n - 1) : r[i] = q[i + 1]
  OBVIOUS
<1> HIDE DEF n
<1>4. ASSUME NEW i \in 1..n, NEW j \in 1..n, r[i] = r[j] PROVE i = j
  <2>1. CASE i = n /\ j = n
    BY <2>1
  <2>2. CASE i # n /\ j # n
    <3>1. i \in 1..(n - 1) /\ j \in 1..(n - 1) /\ i + 1 \in 1..n /\ j + 1 \in 1..n
      BY <1>1, <2>2
    <3>2. i + 1 = j + 1
      BY <1>1, <1>3, <1>4, <3>1
    <3> QED BY <1>1, <3>1, <3>2
  <2>3. CASE (i = n /\ j # n) \/ (i # n /\ j = n)
    <3>1. PICK k \in 1..(n - 1) : r[k] = t
      BY <1>1, <1>3, <1>4, <2>3
    <3>2. q[k + 1] = t /\ k + 1 \in 1..n
      BY <1>1, <1>3, <3>1
    <3> QED BY <1>1, <3>2
  <2> QED BY <2>1, <2>2, <2>3
<1>5. ASSUME NEW i \in 1..n
      PROVE  r[i] = t \/ (r[i] # q[1] /\ \E j \in 1..n : q[j] = r[i])
  <2>1. CASE i = n
    BY <1>3, <1>5, <2>1
  <2>2. CASE i # n
    <3>1. r[i] = q[i + 1] /\ i + 1 \in 1..n /\ i + 1 # 1 /\ 1 \in 1..n
      BY <1>1, <1>3, <1>5, <2>2
    <3>2. q[i + 1] # q[1]
      BY <1>1, <3>1
    <3> QED BY <1>1, <3>1, <3>2
  <2> QED BY <2>1, <2>2
<1>6. \E i \in 1..n : r[i] = t
  BY <1>1, <1>3
<1>7. \A i, j \in DOMAIN r : r[i] = r[j] => i = j
  BY <1>2, <1>4
<1>8. \A i \in DOMAIN r : r[i] = t \/ (r[i] # q[1] /\ \E j \in DOMAIN q : q[j] = r[i])
  BY <1>1, <1>2, <1>5
<1>9. \E i \in DOMAIN r : r[i] = t
  BY <1>2, <1>6
<1>10. r \in Seq(Traces) /\ Len(r) = Len(q)
  BY <1>2 DEF n
<1> QED BY <1>7, <1>8, <1>9, <1>10

LEMMA AppendNew ==
  ASSUME NEW q \in Seq(Traces), NEW t \in Traces,
         \A i \in DOMAIN q : q[i] # t,
         \A i, j \in DOMAIN q : q[i] = q[j] => i = j,
         NEW r, r = Append(q, t)
  PROVE  /\ r \in Seq(Traces) /\ Len(r) = Len(q) + 1
         /\ \A i, j \in DOMAIN r : r[i] = r[j] => i = j
         /\ \A u : (\E i \in DOMAIN r : r[i] = u) <=> (u = t \/ \E i \in DOMAIN q : q[i] = u)
<1> DEFINE n == Len(q)
<1>1. n \in Nat /\ DOMAIN q = 1..n
  OBVIOUS
<1>2. r \in Seq(Traces) /\ Len(r) = n + 1 /\ DOMAIN r = 1..(n + 1)
  OBVIOUS
<1>3. r[n + 1] = t /\ \A i \in 1..n : r[i] = q[i]
  OBVIOUS
<1> HIDE DEF n
<1>4. \A i \in 1..(n + 1) : i \in 1..n \/ i = n + 1
  BY <1>1
<1>5. \A i, j \in DOMAIN r : r[i] = r[j] => i = j
  BY <1>1, <1>2, <1>3, <1>4
<1>6. n + 1 \in 1..(n + 1) /\ \A i \in 1..n : i \in 1..(n + 1)
  BY <1>1
<1>7. ASSUME NEW u PROVE (\E i \in DOMAIN r : r[i] = u) <=> (u = t \/ \E i \in DOMAIN q : q[i] = u)
  BY <1>1, <1>2, <1>3, <1>4, <1>6
<1> QED BY <1>2, <1>5, <1>7 DEF n

(* Remembering an envelope lists its trace and drops at most another one   *)
(* that was listed, together with what was buffered of it.                 *)
Drops(t, s, gone) ==
  /\ \A u \in gone : Known(u)
  /\ \A u \in Traces : Known(u)' <=> (u = t \/ (Known(u) /\ u \notin gone))
  /\ buf' = [u \in Traces |-> IF u = t THEN Trim(buf[t] \union {s})
                              ELSE IF u \in gone THEN {} ELSE buf[u]]

LEMMA Remembered ==
  ASSUME RecentInv, NEW t \in Traces, NEW s \in Numbers, Remember(t, s)
  PROVE  /\ recent' \in Seq(Traces) /\ Len(recent') <= MaxTraces /\ NoDouble'
         /\ \E gone \in SUBSET (Traces \ {t}) : Drops(t, s, gone)
<1>1. recent \in Seq(Traces) /\ Len(recent) <= MaxTraces /\ Len(recent) \in Nat /\ MaxTraces \in Nat \ {0}
  BY RecentAssumption DEF RecentInv, RecentTypeOK
<1>2. \A i, j \in DOMAIN recent : recent[i] = recent[j] => i = j
  BY DEF RecentInv, NoDouble
<1>3. CASE Known(t)
  <2>1. recent' = recent
    BY <1>3 DEF Remember
  <2>2. buf' = [u \in Traces |-> IF u = t THEN Trim(buf[t] \union {s})
                                 ELSE IF u \in {} THEN {} ELSE buf[u]]
    BY <1>3 DEF Remember
  <2>3. \A u \in Traces : Known(u)' <=> (u = t \/ (Known(u) /\ u \notin {}))
    BY <1>3, <2>1 DEF Known
  <2>4. NoDouble'
    BY <1>2, <2>1 DEF NoDouble
  <2>5. Drops(t, s, {})
    BY <2>2, <2>3 DEF Drops
  <2> QED BY <1>1, <2>1, <2>4, <2>5
<1>4. CASE ~Known(t) /\ Len(recent) >= MaxTraces
  <2>1. recent' = Append(Tail(recent), t) /\ recent # <<>>
    BY <1>1, <1>4 DEF Remember
  <2>2. \A i \in DOMAIN recent : recent[i] # t
    BY <1>4 DEF Known
  <2> DEFINE q == recent
             r == Append(Tail(q), t)
  <2>3. /\ q \in Seq(Traces) /\ q # <<>> /\ \A i \in DOMAIN q : q[i] # t
        /\ \A i, j \in DOMAIN q : q[i] = q[j] => i = j
    BY <1>1, <1>2, <2>1, <2>2
  <2>4. /\ r \in Seq(Traces) /\ Len(r) = Len(q)
        /\ \A i, j \in DOMAIN r : r[i] = r[j] => i = j
        /\ \A i \in DOMAIN r : r[i] = t \/ (r[i] # q[1] /\ \E j \in DOMAIN q : q[j] = r[i])
        /\ \E i \in DOMAIN r : r[i] = t
        /\ \A j \in DOMAIN q : q[j] # q[1] => \E i \in DOMAIN r : r[i] = q[j]
    <3>1. PICK x : x = r
      OBVIOUS
    <3> HIDE DEF q
    <3>2. x = Append(Tail(q), t)
      BY <3>1
    <3> HIDE DEF r
    <3>3. x \in Seq(Traces) /\ Len(x) = Len(q)
      BY <2>3, <3>2, AppendTail
    <3>4. \A i, j \in DOMAIN x : x[i] = x[j] => i = j
      BY <2>3, <3>2, AppendTail
    <3>5. \A i \in DOMAIN x : x[i] = t \/ (x[i] # q[1] /\ \E j \in DOMAIN q : q[j] = x[i])
      BY <2>3, <3>2, AppendTail
    <3>6. \E i \in DOMAIN x : x[i] = t
      BY <2>3, <3>2, AppendTail
    <3>7. ASSUME NEW j \in DOMAIN q, q[j] # q[1] PROVE \E i \in DOMAIN x : x[i] = q[j]
      <4>1. /\ Len(q) \in Nat \ {0} /\ DOMAIN q = 1..Len(q) /\ DOMAIN x = 1..Len(q)
            /\ \A i \in 1..(Len(q) - 1) : x[i] = q[i + 1]
        BY <2>3, <3>2
      <4>2. j # 1
        BY <3>7
      <4>3. j - 1 \in 1..(Len(q) - 1) /\ j - 1 \in 1..Len(q) /\ (j - 1) + 1 = j
        BY <4>1, <4>2
      <4> QED BY <4>1, <4>3
    <3> QED BY <3>1, <3>3, <3>4, <3>5, <3>6, <3>7
  <2>5. NoDouble'
    BY <2>1, <2>4 DEF NoDouble
  <2>6. PICK h \in Traces : h = Head(recent) /\ h = q[1] /\ Known(h)
    BY <1>1, <2>1 DEF Known
  <2>7. h # t
    BY <1>4, <2>6
  <2>8. \A u \in Traces : Known(u)' <=> (u = t \/ (Known(u) /\ u \notin {h}))
    BY <2>1, <2>4, <2>6 DEF Known
  <2>9. buf' = [u \in Traces |-> IF u = t THEN Trim(buf[t] \union {s})
                                 ELSE IF u \in {h} THEN {} ELSE buf[u]]
    BY <1>4, <2>6 DEF Remember
  <2>10. Drops(t, s, {h})
    BY <2>6, <2>8, <2>9 DEF Drops
  <2> QED BY <1>1, <1>4, <2>1, <2>4, <2>5, <2>7, <2>10
<1>5. CASE ~Known(t) /\ ~(Len(recent) >= MaxTraces)
  <2>1. recent' = Append(recent, t)
    BY <1>5 DEF Remember
  <2>2. \A i \in DOMAIN recent : recent[i] # t
    BY <1>5 DEF Known
  <2>3. PICK r : r = Append(recent, t)
    OBVIOUS
  <2>4. /\ r \in Seq(Traces) /\ Len(r) = Len(recent) + 1
        /\ \A i, j \in DOMAIN r : r[i] = r[j] => i = j
        /\ \A u : (\E i \in DOMAIN r : r[i] = u) <=> (u = t \/ \E i \in DOMAIN recent : recent[i] = u)
    BY <1>1, <1>2, <2>2, <2>3, AppendNew
  <2>5. NoDouble'
    BY <2>1, <2>3, <2>4 DEF NoDouble
  <2>6. \A u \in Traces : Known(u)' <=> (u = t \/ (Known(u) /\ u \notin {}))
    BY <2>1, <2>3, <2>4 DEF Known
  <2>7. buf' = [u \in Traces |-> IF u = t THEN Trim(buf[t] \union {s})
                                 ELSE IF u \in {} THEN {} ELSE buf[u]]
    BY <1>5 DEF Remember
  <2>8. Len(recent') <= MaxTraces
    BY <1>1, <1>5, <2>1, <2>3, <2>4
  <2>9. Drops(t, s, {})
    BY <2>6, <2>7 DEF Drops
  <2> QED BY <2>1, <2>3, <2>4, <2>5, <2>8, <2>9
<1> QED BY <1>3, <1>4, <1>5

LEMMA EmitKeeps ==
  ASSUME RecentInv, NEW t \in Traces, Emit(t)
  PROVE  RecentInv'
<1> DEFINE s == next[t]
           S == buf[t] \union {s}
<1>1. /\ next \in [Traces -> 0..(Last + 1)] /\ buf \in [Traces -> SUBSET Numbers]
      /\ sent \subseteq Envelopes /\ Last \in Nat
  BY RecentAssumption DEF RecentInv, RecentTypeOK
<1>2. /\ s \in Numbers /\ s \in Int /\ next' = [next EXCEPT ![t] = s + 1]
      /\ Remember(t, s) /\ sent' = sent \union {<<t, s>>}
  BY <1>1 DEF Emit, Numbers
<1>3. S \in SUBSET Numbers /\ \A n \in Numbers : n \in Int
  BY <1>1, <1>2 DEF Numbers
<1>4. /\ \A n \in Numbers : <<t, n>> \in sent => n < s
      /\ \A n \in S : n <= s
  <2>1. ASSUME NEW n \in Numbers, <<t, n>> \in sent PROVE n < s
    BY <2>1 DEF RecentInv, Numbered
  <2>2. ASSUME NEW n \in buf[t] PROVE n <= s
    <3>1. n \in Numbers /\ <<t, n>> \in sent
      BY <1>1, <2>2 DEF RecentInv, Numbered
    <3> QED BY <1>2, <1>3, <2>1, <3>1
  <2> QED BY <1>2, <2>1, <2>2
<1>5. s \in Trim(S)
  BY <1>3, <1>4, TrimKeepsNewest
<1>6. /\ recent' \in Seq(Traces) /\ Len(recent') <= MaxTraces /\ NoDouble'
  BY <1>2, Remembered
<1>7. PICK gone \in SUBSET (Traces \ {t}) :
        /\ \A u \in Traces : Known(u)' <=> (u = t \/ (Known(u) /\ u \notin gone))
        /\ buf' = [u \in Traces |-> IF u = t THEN Trim(S) ELSE IF u \in gone THEN {} ELSE buf[u]]
  BY <1>2, Remembered DEF Drops
<1>8. PICK T \in SUBSET S : T = Trim(S)
  BY DEF Trim
<1>9. /\ buf'[t] = T
      /\ \A u \in Traces \ {t} : buf'[u] = {} \/ buf'[u] = buf[u]
      /\ \A u \in Traces \ {t} : Known(u)' => Known(u) /\ buf'[u] = buf[u]
      /\ \A u \in Traces : ~Known(u)' => u # t /\ (buf'[u] = {} \/ (~Known(u) /\ buf'[u] = buf[u]))
  BY <1>7, <1>8
<1>10. RecentTypeOK'
  <2>1. next' \in [Traces -> 0..(Last + 1)]
    BY <1>1, <1>2, <1>3 DEF Numbers
  <2>2. buf' \in [Traces -> SUBSET Numbers]
    BY <1>1, <1>3, <1>7, <1>8
  <2>3. sent' \subseteq Envelopes
    BY <1>1, <1>2 DEF Envelopes
  <2> QED BY <1>6, <2>1, <2>2, <2>3 DEF RecentTypeOK
<1> HIDE DEF S
<1>11. Numbered'
  <2>1. ASSUME NEW u \in Traces, NEW n \in Numbers, <<u, n>> \in sent' PROVE n < next'[u]
    <3>1. CASE u = t
      <4>1. next'[u] = s + 1 /\ n <= s
        BY <1>1, <1>2, <1>3, <1>4, <2>1, <3>1
      <4> QED BY <1>2, <1>3, <4>1
    <3>2. CASE u # t
      BY <1>1, <1>2, <2>1, <3>2 DEF RecentInv, Numbered
    <3> QED BY <3>1, <3>2
  <2>2. ASSUME NEW u \in Traces, NEW n \in buf'[u] PROVE <<u, n>> \in sent'
    <3>1. CASE u = t
      BY <1>2, <1>8, <1>9, <2>2, <3>1 DEF S, RecentInv, Numbered
    <3>2. CASE u # t
      BY <1>2, <1>9, <2>2, <3>2 DEF RecentInv, Numbered
    <3> QED BY <3>1, <3>2
  <2>3. ASSUME NEW u \in Traces, ~Known(u)' PROVE buf'[u] = {}
    BY <1>9, <2>3 DEF RecentInv, Numbered
  <2> QED BY <2>1, <2>2, <2>3 DEF Numbered
<1>12. ReplayIsSuffix'
  <2>1. ASSUME NEW u \in Traces, Known(u)'
        PROVE  /\ \E m \in buf'[u] : \A n \in Numbers : <<u, n>> \in sent' => n <= m
               /\ \A m \in buf'[u], n \in Numbers : <<u, n>> \in sent' /\ n >= m => n \in buf'[u]
    <3>1. CASE u = t
      <4>1. \A n \in Numbers : <<t, n>> \in sent' => n <= s
        BY <1>2, <1>3, <1>4
      <4>2. ASSUME NEW m \in T, NEW n \in Numbers, <<t, n>> \in sent', n >= m PROVE n \in T
        <5>1. n \in S
          <6>1. CASE n = s
            BY <6>1 DEF S
          <6>2. CASE n # s
            <7>1. <<t, n>> \in sent /\ n < s
              BY <1>2, <1>4, <4>2, <6>2
            <7>2. m \in buf[t]
              BY <1>2, <1>3, <1>8, <4>2, <7>1 DEF S
            <7>3. Known(t)
              BY <7>2 DEF RecentInv, Numbered
            <7>4. n \in buf[t]
              BY <4>2, <7>1, <7>2, <7>3 DEF RecentInv, ReplayIsSuffix
            <7> QED BY <7>4 DEF S
          <6> QED BY <6>1, <6>2
        <5>2. m \in Trim(S) /\ m <= n
          BY <1>3, <1>8, <4>2
        <5> QED BY <1>3, <1>8, <5>1, <5>2, TrimKeepsNewer
      <4> QED BY <1>5, <1>8, <1>9, <3>1, <4>1, <4>2
    <3>2. CASE u # t
      <4>1. Known(u) /\ buf'[u] = buf[u]
        BY <1>9, <2>1, <3>2
      <4>2. \A n \in Numbers : <<u, n>> \in sent' <=> <<u, n>> \in sent
        BY <1>2, <3>2
      <4> QED BY <4>1, <4>2 DEF RecentInv, ReplayIsSuffix
    <3> QED BY <3>1, <3>2
  <2> QED BY <2>1 DEF ReplayIsSuffix
<1> QED BY <1>6, <1>10, <1>11, <1>12 DEF RecentInv

LEMMA VoidKeeps ==
  ASSUME RecentInv, NEW t \in Traces, Void(t)
  PROVE  RecentInv'
<1>1. next \in [Traces -> 0..(Last + 1)] /\ Last \in Nat
  BY RecentAssumption DEF RecentInv, RecentTypeOK
<1>2. next' = [next EXCEPT ![t] = @ + 1] /\ next[t] < Last /\ UNCHANGED <<recent, buf, sent>>
  BY DEF Void
<1>3. next' \in [Traces -> 0..(Last + 1)] /\ \A u \in Traces : next[u] <= next'[u]
  BY <1>1, <1>2
<1>4. RecentTypeOK'
  BY <1>2, <1>3 DEF RecentInv, RecentTypeOK
<1>5. NoDouble' /\ ReplayIsSuffix'
  BY <1>2 DEF RecentInv, NoDouble, ReplayIsSuffix, Known
<1>6. Numbered'
  <2>1. ASSUME NEW u \in Traces, NEW n \in Numbers, <<u, n>> \in sent' PROVE n < next'[u]
    <3>1. n < next[u] /\ n \in Int /\ next[u] \in Int /\ next'[u] \in Int
      BY <1>1, <1>2, <1>3, <2>1 DEF RecentInv, Numbered, Numbers
    <3> QED BY <1>3, <3>1
  <2> QED BY <1>2, <2>1 DEF RecentInv, Numbered, Known
<1> QED BY <1>4, <1>5, <1>6 DEF RecentInv

LEMMA RecentKept == RecentInv /\ [RecentNext]_recentVars => RecentInv'
<1> SUFFICES ASSUME RecentInv, [RecentNext]_recentVars PROVE RecentInv'
  OBVIOUS
<1>1. ASSUME NEW t \in Traces, Emit(t) PROVE RecentInv'
  BY <1>1, EmitKeeps
<1>2. ASSUME NEW t \in Traces, Void(t) PROVE RecentInv'
  BY <1>2, VoidKeeps
<1>3. CASE UNCHANGED recentVars
  BY <1>3 DEF recentVars, RecentInv, RecentTypeOK, NoDouble, Numbered, ReplayIsSuffix, Known
<1> QED BY <1>1, <1>2, <1>3 DEF RecentNext

(* What RECENT replays of a trace is the newest part of what was sent of   *)
(* it, without holes, however many traces compete for its places and       *)
(* however often a deque has overflowed (events.py).                       *)
THEOREM ReplayHasNoHoles == RecentSpec => []ReplayIsSuffix
<1>1. RecentInv => ReplayIsSuffix
  BY DEF RecentInv
<1> QED BY <1>1, RecentAtFirst, RecentKept, PTL DEF RecentSpec

-----------------------------------------------------------------------------
(* The screen. *)

(* A bounded set of integers has a maximum: minimise what is above. *)
LEMMA MaxOfBounded ==
  ASSUME NEW S \in SUBSET (-1..Last), S # {}
  PROVE  MaxOf(S) \in S /\ \A y \in S : y <= MaxOf(S)
<1> DEFINE Above(x) == {y \in S : y > x}
           U == {Above(x) : x \in S}
           R == StrictSubsetOrdering(S)
<1>1. IsFiniteSet(-1..Last) /\ \A y \in S : y \in Int
  BY FS_Interval, RecentAssumption
<1>2. IsFiniteSet(S)
  BY <1>1, FS_Subset
<1>3. \A x : Above(x) \in FiniteSubsetsOf(S)
  BY <1>2, FS_Subset DEF FiniteSubsetsOf
<1>4. U \subseteq FiniteSubsetsOf(S) /\ U # {}
  BY <1>3
<1>5. \E a \in U : \A b \in U : ~(<<b, a>> \in R)
  BY <1>4, FS_StrictSubsetOrderingWellFounded, WFMin
<1>6. PICK x \in S : \A b \in U : ~(<<b, Above(x)>> \in R)
  BY <1>5
<1>7. ASSUME NEW y \in S, y > x PROVE FALSE
  <2>1. Above(y) \in U /\ Above(x) \in SUBSET S /\ Above(y) \in SUBSET S
    OBVIOUS
  <2>2. x \in Int /\ y \in Int /\ \A z \in S : z > y => z > x
    BY <1>1, <1>7
  <2>3. Above(y) \subseteq Above(x)
    BY <2>2
  <2>4. y \in Above(x)
    BY <1>7
  <2>5. y \notin Above(y)
    BY <2>2
  <2>6. <<Above(y), Above(x)>> \in R
    BY <2>1, <2>3, <2>4, <2>5 DEF StrictSubsetOrdering
  <2> QED BY <1>6, <2>1, <2>6
<1>8. \A y \in S : y <= x
  BY <1>1, <1>7
<1> QED BY <1>8 DEF MaxOf

LEMMA NumbersAreNumbers ==
  ASSUME NEW S \in SUBSET Envelopes
  PROVE  NumbersOf(S) \in SUBSET Numbers /\ NumbersOf(S) \in SUBSET (-1..Last)
<1>1. \A e \in S : e[2] \in Numbers
  BY DEF Envelopes
<1>2. Numbers \subseteq -1..Last
  BY RecentAssumption DEF Numbers
<1> QED BY <1>1, <1>2 DEF NumbersOf

ShownOnce == \A e \in Envelopes : shown[e] \in {0, 1}

(* What the screen has taken in, and that it took nothing in twice. *)
IngestInv ==
  /\ applied \subseteq Numbers /\ maxSeq \in -1..Last /\ stale \in BOOLEAN
  /\ shown \in [Envelopes -> Nat] /\ ShownOnce
  /\ applied = NumbersOf(Merged)

(* What taking in some envelopes does, without the order in which it is    *)
(* done.                                                                   *)
LEMMA IngestTakes ==
  ASSUME IngestInv, NEW S \in SUBSET Envelopes, Ingest(S)
  PROVE  /\ IngestInv'
         /\ applied' = applied \union NumbersOf(S)
         /\ Merged' \subseteq Merged \union S
         /\ maxSeq' >= maxSeq
         /\ \A e \in S : e[2] \in applied \/ e[2] <= maxSeq'
         /\ maxSeq' = maxSeq \/ \E e \in S : e[2] \notin applied /\ e[2] = maxSeq'
         /\ stale' => stale \/ \E e \in S : e[2] \notin applied
<1> DEFINE fresh == {e \in S : e[2] \notin applied}
           added == {e \in fresh : e[2] \notin NumbersOf(Merged)}
<1>1. /\ applied' = applied \union NumbersOf(fresh)
      /\ maxSeq' = IF fresh = {} THEN maxSeq ELSE MaxOf({maxSeq} \union NumbersOf(fresh))
      /\ shown' = [e \in Envelopes |-> shown[e] + (IF e \in added THEN 1 ELSE 0)]
      /\ stale' = (stale \/ fresh # {})
  BY DEF Ingest
<1>2. applied \subseteq Numbers /\ maxSeq \in -1..Last /\ stale \in BOOLEAN
      /\ shown \in [Envelopes -> Nat] /\ ShownOnce /\ applied = NumbersOf(Merged)
  BY DEF IngestInv
<1>3. added = fresh
  BY <1>2
<1>4. \A e \in S : e[2] \in Numbers
  BY DEF Envelopes
<1>5. NumbersOf(fresh) \in SUBSET Numbers /\ NumbersOf(fresh) \in SUBSET (-1..Last)
  BY NumbersAreNumbers
<1>6. applied' = applied \union NumbersOf(S)
  BY <1>1 DEF NumbersOf
<1>7. /\ maxSeq' \in -1..Last /\ maxSeq' >= maxSeq
      /\ \A n \in NumbersOf(fresh) : n <= maxSeq'
      /\ maxSeq' = maxSeq \/ maxSeq' \in NumbersOf(fresh)
  <2>1. CASE fresh = {}
    BY <1>1, <1>2, <2>1 DEF NumbersOf
  <2>2. CASE fresh # {}
    <3> DEFINE T == {maxSeq} \union NumbersOf(fresh)
    <3>1. T \in SUBSET (-1..Last) /\ T # {}
      BY <1>2, <1>5
    <3> HIDE DEF T, fresh
    <3>2. MaxOf(T) \in T /\ \A y \in T : y <= MaxOf(T)
      BY <3>1, MaxOfBounded
    <3>3. maxSeq' = MaxOf(T)
      BY <1>1, <2>2 DEF T
    <3>4. maxSeq \in T /\ (\A n \in NumbersOf(fresh) : n \in T) /\ \A n \in T : n = maxSeq \/ n \in NumbersOf(fresh)
      BY DEF T
    <3> QED BY <1>2, <3>1, <3>2, <3>3, <3>4
  <2> QED BY <2>1, <2>2
<1>8. \A e \in S : e[2] \in applied \/ e[2] <= maxSeq'
  BY <1>7 DEF NumbersOf
<1>9. maxSeq' = maxSeq \/ \E e \in S : e[2] \notin applied /\ e[2] = maxSeq'
  BY <1>7 DEF NumbersOf
<1>10. shown' \in [Envelopes -> Nat] /\ ShownOnce' /\ Merged' = Merged \union fresh
  <2>1. \A e \in fresh : shown[e] = 0 /\ e \in Envelopes
    BY <1>2 DEF Merged, NumbersOf
  <2>2. \A e \in Envelopes : shown'[e] = shown[e] + (IF e \in fresh THEN 1 ELSE 0)
    BY <1>1, <1>3
  <2>3. \A e \in Envelopes : shown'[e] = IF e \in fresh THEN 1 ELSE shown[e]
    BY <1>2, <2>1, <2>2
  <2>4. shown' \in [Envelopes -> Nat]
    BY <1>1, <1>2
  <2> HIDE DEF fresh
  <2>5. ShownOnce'
    BY <1>2, <2>3 DEF ShownOnce
  <2>6. Merged' = Merged \union fresh
    BY <1>2, <2>1, <2>3 DEF Merged
  <2> QED BY <2>4, <2>5, <2>6
<1>11. applied' = NumbersOf(Merged')
  BY <1>1, <1>2, <1>10 DEF NumbersOf
<1>12. IngestInv'
  BY <1>1, <1>2, <1>5, <1>7, <1>10, <1>11 DEF IngestInv, NumbersOf
<1>13. Merged' \subseteq Merged \union S
  BY <1>10
<1>14. stale' => stale \/ \E e \in S : e[2] \notin applied
  BY <1>1, <1>2
<1> QED BY <1>6, <1>7, <1>8, <1>9, <1>12, <1>13, <1>14

(* What starting over does: either nothing is left, or what the hook held. *)
LEMMA SwitchTakes ==
  ASSUME hookBuf \subseteq Envelopes, NEW t, NEW st, NEW scr, Switch(t, st, scr)
  PROVE  /\ IngestInv'
         /\ \E old \in {{}, hookBuf} : applied' = NumbersOf(old) /\ Merged' = old
         /\ maxSeq' = -1 \/ maxSeq' \in applied'
         /\ \A n \in applied' : n <= maxSeq'
<1>1. PICK old \in {{}, hookBuf} :
        /\ applied' = NumbersOf(old)
        /\ maxSeq' = IF old = {} THEN -1 ELSE MaxOf(NumbersOf(old))
        /\ shown' = [e \in Envelopes |-> IF e \in old THEN 1 ELSE 0]
        /\ stale' = (old # {})
  BY DEF Switch
<1>2. old \in SUBSET Envelopes
  OBVIOUS
<1>3. NumbersOf(old) \in SUBSET Numbers /\ NumbersOf(old) \in SUBSET (-1..Last)
  BY <1>2, NumbersAreNumbers
<1>4. shown' \in [Envelopes -> Nat] /\ ShownOnce' /\ Merged' = old
  BY <1>1, <1>2 DEF ShownOnce, Merged
<1>5. /\ maxSeq' \in -1..Last
      /\ maxSeq' = -1 \/ maxSeq' \in applied'
      /\ \A n \in applied' : n <= maxSeq'
  <2>1. CASE old = {}
    BY <1>1, <2>1, RecentAssumption DEF NumbersOf
  <2>2. CASE old # {}
    <3>1. NumbersOf(old) # {}
      BY <2>2 DEF NumbersOf
    <3>2. MaxOf(NumbersOf(old)) \in NumbersOf(old) /\ \A y \in NumbersOf(old) : y <= MaxOf(NumbersOf(old))
      BY <1>3, <3>1, MaxOfBounded
    <3> QED BY <1>1, <1>3, <2>2, <3>2
  <2> QED BY <2>1, <2>2
<1>6. IngestInv'
  BY <1>1, <1>3, <1>4, <1>5 DEF IngestInv
<1> QED BY <1>1, <1>4, <1>5, <1>6

-----------------------------------------------------------------------------
(* Types. *)

TypeInv == RecentInv /\ TypeOK /\ IngestInv

(* The types of the variables that no lemma above speaks of. *)
LinkType ==
  /\ attached \in BOOLEAN /\ retried \in BOOLEAN
  /\ wire \in Seq(Envelopes) /\ hookBuf \subseteq Envelopes

RunType ==
  /\ traceId \in Traces \union {NoTrace}
  /\ status \in {"idle", "running", "awaiting", "done"}
  /\ screen \in {"ingest", "run", "result"} /\ seen \subseteq Traces
  /\ approved \in BOOLEAN /\ approving \in BOOLEAN
  /\ posts \in [Traces -> Nat] /\ overtaken \in BOOLEAN

PollType == asked \subseteq -1..Last /\ replies \subseteq SUBSET Envelopes

DropType == drops \in 0..MaxDrops

LEMMA TypeInvParts ==
  TypeInv <=> RecentInv /\ IngestInv /\ LinkType /\ RunType /\ PollType /\ DropType
BY DEF TypeInv, RecentInv, TypeOK, IngestInv, LinkType, RunType, PollType, DropType

LEMMA TypeAtFirst == Init => TypeInv
<1> SUFFICES ASSUME Init PROVE TypeInv
  OBVIOUS
<1>1. RecentInv
  BY RecentAtFirst DEF Init
<1>2. IngestInv
  <2>1. Merged = {} /\ NumbersOf({}) = {}
    BY DEF Init, Merged, NumbersOf
  <2>2. -1 \in -1..Last
    BY RecentAssumption
  <2>3. shown \in [Envelopes -> Nat] /\ ShownOnce
    BY DEF Init, ShownOnce
  <2> QED BY <2>1, <2>2, <2>3 DEF Init, IngestInv
<1>3. LinkType
  <2>1. wire \in Seq(Envelopes)
    BY DEF Init
  <2> QED BY <2>1 DEF Init, LinkType
<1>4. RunType
  BY DEF Init, RunType
<1>5. PollType
  BY DEF Init, PollType
<1>6. DropType
  BY EventAssumption DEF Init, DropType
<1> QED BY <1>1, <1>2, <1>3, <1>4, <1>5, <1>6, TypeInvParts

(* Every step of the whole is a step of the numbering or leaves it alone. *)
LEMMA NumberingSteps == [Next]_vars => [RecentNext]_recentVars
<1> SUFFICES ASSUME [Next]_vars PROVE [RecentNext]_recentVars
  OBVIOUS
<1>1. ASSUME NEW t \in Traces, Publish(t) \/ Reject(t) PROVE RecentNext
  BY <1>1 DEF Publish, Reject, RecentNext
<1>2. ASSUME NEW t \in Traces, Start(t) PROVE UNCHANGED recentVars
  BY <1>2 DEF Start
<1>3. CASE Attach \/ Deliver \/ Disconnect \/ Reconnect
  BY <1>3 DEF Attach, Deliver, Disconnect, Reconnect
<1>4. CASE IngestHook \/ Recompute \/ ShowResult \/ Approve \/ Reset
  BY <1>4 DEF IngestHook, Recompute, ShowResult, Approve, Reset
<1>7. ASSUME NEW t \in Traces, ApproveReturns(t) \/ ApproveFails(t) PROVE UNCHANGED recentVars
  BY <1>7 DEF ApproveReturns, ApproveFails
<1>5. CASE PollAsk \/ PollServe \/ PollReturn \/ PollFail
  BY <1>5 DEF PollAsk, PollServe, PollReturn, PollFail
<1>6. CASE UNCHANGED vars
  BY <1>6 DEF vars
<1> QED BY <1>1, <1>2, <1>3, <1>4, <1>5, <1>6, <1>7 DEF Next

LEMMA IngestFrame ==
  ASSUME IngestInv, UNCHANGED <<applied, maxSeq, shown>>, stale' \in BOOLEAN
  PROVE  IngestInv' /\ Merged' = Merged
BY DEF IngestInv, ShownOnce, Merged, NumbersOf

(* What a poll may be answered with. *)
LEMMA ReplaySound ==
  ASSUME RecentInv, NEW t \in Traces, NEW a
  PROVE  /\ Replay(t, a) \subseteq Envelopes
         /\ \A e \in Replay(t, a) : e[1] = t /\ e[2] \in buf[t] /\ e[2] > a
         /\ \A n \in buf[t] : n > a => <<t, n>> \in Replay(t, a)
BY DEF Replay, RecentInv, RecentTypeOK, Envelopes

(* Without a run on the screen nobody polls. *)
PollsOwned == traceId = NoTrace => status # "awaiting" /\ asked = {} /\ replies = {}

LEMMA TypeKept ==
  ASSUME TypeInv, PollsOwned, [Next]_vars
  PROVE  TypeInv'
<1>1. RecentInv'
  BY RecentKept, NumberingSteps DEF TypeInv
<1>2. IngestInv /\ LinkType /\ RunType /\ PollType /\ DropType
  BY TypeInvParts
<1> SUFFICES IngestInv' /\ LinkType' /\ RunType' /\ PollType' /\ DropType'
  BY <1>1 DEF TypeInv, RecentInv, TypeOK, IngestInv, LinkType, RunType, PollType, DropType
<1>3. ASSUME NEW t \in Traces, Publish(t)
      PROVE  IngestInv' /\ LinkType' /\ RunType' /\ PollType' /\ DropType'
  <2>1. UNCHANGED <<attached, retried, hookBuf, ingestVars, runVars, pollVars, drops>>
    BY <1>3 DEF Publish
  <2>2. <<t, next[t]>> \in Envelopes
    BY <1>3, RecentAssumption DEF Publish, Emit, TypeInv, RecentInv, RecentTypeOK, Envelopes, Numbers
  <2>3. wire' \in Seq(Envelopes)
    BY <1>2, <1>3, <2>2 DEF Publish, LinkType
  <2>4. IngestInv'
    BY <1>2, <2>1, IngestFrame DEF ingestVars, IngestInv
  <2> QED BY <1>2, <2>1, <2>3, <2>4 DEF runVars, pollVars, LinkType, RunType, PollType, DropType
<1>4. ASSUME NEW t \in Traces, Reject(t)
      PROVE  IngestInv' /\ LinkType' /\ RunType' /\ PollType' /\ DropType'
  <2>1. IngestInv'
    BY <1>2, <1>4, IngestFrame DEF Reject, ingestVars, IngestInv
  <2> QED BY <1>2, <1>4, <2>1, EventAssumption
          DEF Reject, linkVars, runVars, pollVars, LinkType, RunType, PollType, DropType
<1>5. CASE Attach \/ Deliver
  <2>1. IngestInv'
    BY <1>2, <1>5, IngestFrame DEF Attach, Deliver, ingestVars, IngestInv
  <2>2. wire # <<>> => Head(wire) \in Envelopes /\ Tail(wire) \in Seq(Envelopes)
    BY <1>2 DEF LinkType
  <2>3. LinkType'
    BY <1>2, <1>5, <2>2 DEF Attach, Deliver, LinkType
  <2> QED BY <1>2, <1>5, <2>1, <2>3 DEF Attach, Deliver, runVars, pollVars, RunType, PollType, DropType
<1>6. CASE Disconnect \/ Reconnect
  <2>1. IngestInv'
    BY <1>2, <1>6, IngestFrame DEF Disconnect, Reconnect, ingestVars, IngestInv
  <2>2. LinkType'
    <3>1. wire' = <<>>
      BY <1>6 DEF Disconnect, Reconnect
    <3>2. wire' \in Seq(Envelopes)
      BY <3>1
    <3> QED BY <1>2, <1>6, <3>2 DEF Disconnect, Reconnect, LinkType
  <2>3. DropType'
    BY <1>2, <1>6, EventAssumption DEF Disconnect, Reconnect, DropType
  <2> QED BY <1>2, <1>6, <2>1, <2>2, <2>3 DEF Disconnect, Reconnect, runVars, pollVars, RunType, PollType
<1>7. CASE IngestHook
  <2>1. IngestInv'
    BY <1>2, <1>7, IngestTakes DEF IngestHook, LinkType
  <2> QED BY <1>2, <1>7, <2>1
          DEF IngestHook, linkVars, runVars, pollVars, LinkType, RunType, PollType, DropType
<1>8. CASE Recompute
  <2>1. IngestInv'
    BY <1>2, <1>8, IngestFrame DEF Recompute
  <2>2. status' \in {"idle", "running", "awaiting", "done"}
    BY <1>2, <1>8 DEF Recompute, SetStatus, Reduced, RunType
  <2>3. PollType'
    BY <1>2, <1>8 DEF Recompute, SetStatus, pollVars, PollType
  <2> QED BY <1>2, <1>8, <2>1, <2>2, <2>3 DEF Recompute, linkVars, LinkType, RunType, DropType
<1>9. CASE PollAsk
  <2>1. IngestInv'
    BY <1>2, <1>9, IngestFrame DEF PollAsk, ingestVars, IngestInv
  <2>2. PollType'
    BY <1>2, <1>9 DEF PollAsk, PollType, IngestInv
  <2> QED BY <1>2, <1>9, <2>1, <2>2 DEF PollAsk, linkVars, runVars, LinkType, RunType, DropType
<1>10. CASE PollServe
  <2>1. IngestInv'
    BY <1>2, <1>10, IngestFrame DEF PollServe, ingestVars, IngestInv
  <2>2. PICK a \in asked : asked' = asked \ {a} /\ replies' = replies \union {Replay(traceId, a)}
    BY <1>10 DEF PollServe
  <2>3. PICK t \in Traces : t = traceId
    BY <1>2, <2>2 DEF RunType, PollsOwned
  <2>4. PollType'
    BY <1>2, <2>2, <2>3, ReplaySound DEF PollType, TypeInv
  <2> QED BY <1>2, <1>10, <2>1, <2>4 DEF PollServe, linkVars, runVars, LinkType, RunType, DropType
<1>11. CASE PollReturn
  <2>1. PICK S \in replies : replies' = replies \ {S} /\ Ingest(S)
    BY <1>11 DEF PollReturn
  <2>2. S \in SUBSET Envelopes
    BY <1>2 DEF PollType
  <2>3. IngestInv'
    BY <1>2, <2>1, <2>2, IngestTakes
  <2> QED BY <1>2, <1>11, <2>1, <2>3
          DEF PollReturn, linkVars, runVars, LinkType, RunType, PollType, DropType
<1>12. CASE PollFail
  <2>1. IngestInv'
    BY <1>2, <1>12, IngestFrame DEF PollFail, ingestVars, IngestInv
  <2>2. PollType'
    BY <1>2, <1>12 DEF PollFail, PollType
  <2>3. DropType'
    BY <1>2, <1>12, EventAssumption DEF PollFail, DropType
  <2> QED BY <1>2, <1>12, <2>1, <2>2, <2>3 DEF PollFail, linkVars, runVars, LinkType, RunType
<1>13. ASSUME NEW t \in Traces \union {NoTrace}, NEW st \in {"idle", "running"},
              NEW scr \in {"ingest", "run"}, Switch(t, st, scr),
              approved' \in BOOLEAN, approving' \in BOOLEAN, seen' \subseteq Traces,
              UNCHANGED <<posts, overtaken, drops>>
       PROVE  IngestInv' /\ LinkType' /\ RunType' /\ PollType' /\ DropType'
  <2>1. IngestInv'
    BY <1>2, <1>13, SwitchTakes DEF LinkType
  <2>2. LinkType'
    <3>1. wire' = <<>> /\ wire' \in Seq(Envelopes)
      BY <1>13 DEF Switch
    <3> QED BY <1>13, <3>1 DEF Switch, LinkType
  <2> QED BY <1>2, <1>13, <2>1, <2>2 DEF Switch, RunType, PollType, DropType
<1>14. ASSUME NEW t \in Traces, Start(t)
       PROVE  IngestInv' /\ LinkType' /\ RunType' /\ PollType' /\ DropType'
  BY <1>2, <1>13, <1>14 DEF Start, RunType
<1>15. CASE Reset
  BY <1>2, <1>13, <1>15 DEF Reset, RunType
<1>16. CASE Approve
  <2>1. IngestInv'
    BY <1>2, <1>16, IngestFrame DEF Approve, ingestVars, IngestInv
  <2>2. PICK t \in Traces : t = traceId
    BY <1>2, <1>16 DEF Approve, RunType, PollsOwned
  <2>3. posts' = [posts EXCEPT ![t] = @ + 1] /\ posts' \in [Traces -> Nat]
    BY <1>2, <1>16, <2>2 DEF Approve, RunType
  <2> QED BY <1>2, <1>16, <2>1, <2>3 DEF Approve, linkVars, pollVars, LinkType, RunType, PollType, DropType
<1>18. CASE ShowResult
  <2>1. IngestInv'
    BY <1>2, <1>18, IngestFrame DEF ShowResult, ingestVars, IngestInv
  <2> QED BY <1>2, <1>18, <2>1 DEF ShowResult, linkVars, pollVars, LinkType, RunType, PollType, DropType
<1>19. ASSUME NEW t \in Traces, ApproveReturns(t) \/ ApproveFails(t)
       PROVE  IngestInv' /\ LinkType' /\ RunType' /\ PollType' /\ DropType'
  <2>1. IngestInv'
    BY <1>2, <1>19, IngestFrame DEF ApproveReturns, ApproveFails, ingestVars, IngestInv
  <2>2. posts' \in [Traces -> Nat]
    <3>1. posts[t] \in Nat /\ posts[t] > 0 /\ posts' = [posts EXCEPT ![t] = posts[t] - 1]
      BY <1>2, <1>19 DEF ApproveReturns, ApproveFails, RunType
    <3>2. posts[t] - 1 \in Nat
      BY <3>1
    <3> QED BY <1>2, <3>1, <3>2 DEF RunType
  <2>3. RunType'
    BY <1>2, <1>19, <2>2 DEF ApproveReturns, ApproveFails, SetStatus, RunType
  <2>4. PollType' /\ LinkType'
    BY <1>2, <1>19
       DEF ApproveReturns, ApproveFails, SetStatus, linkVars, pollVars, LinkType, PollType
  <2>5. DropType'
    BY <1>2, <1>19, EventAssumption DEF ApproveReturns, ApproveFails, DropType
  <2> QED BY <2>1, <2>3, <2>4, <2>5
<1>17. CASE UNCHANGED vars
  <2>1. IngestInv'
    BY <1>2, <1>17, IngestFrame DEF vars, ingestVars, IngestInv
  <2> QED BY <1>2, <1>17, <2>1 DEF vars, linkVars, runVars, pollVars, LinkType, RunType, PollType, DropType
<1> QED
  BY <1>3, <1>4, <1>5, <1>6, <1>7, <1>8, <1>9, <1>10, <1>11, <1>12, <1>14, <1>15, <1>16, <1>17,
     <1>18, <1>19 DEF Next

LEMMA PollsStayOwned ==
  ASSUME TypeInv, PollsOwned, [Next]_vars PROVE PollsOwned'
<1>1. ASSUME NEW t \in Traces, Publish(t) \/ Reject(t) PROVE PollsOwned'
  BY <1>1 DEF Publish, Reject, runVars, pollVars, PollsOwned
<1>2. ASSUME NEW t \in Traces, Start(t) PROVE PollsOwned'
  BY <1>2, EventAssumption DEF Start, Switch, PollsOwned
<1>3. CASE Attach \/ Deliver \/ Disconnect \/ Reconnect
  BY <1>3 DEF Attach, Deliver, Disconnect, Reconnect, runVars, pollVars, PollsOwned
<1>4. CASE IngestHook \/ Recompute \/ ShowResult
  BY <1>4 DEF IngestHook, Recompute, ShowResult, runVars, pollVars, PollsOwned
<1>8. ASSUME NEW t \in Traces, ApproveReturns(t) \/ ApproveFails(t) PROVE PollsOwned'
  BY <1>8 DEF ApproveReturns, ApproveFails, SetStatus, pollVars, PollsOwned
<1>5. CASE PollAsk \/ PollServe \/ PollReturn \/ PollFail
  BY <1>5 DEF PollAsk, Polling, PollServe, PollReturn, PollFail, runVars, PollsOwned
<1>6. CASE Approve \/ Reset
  BY <1>6 DEF Approve, Reset, Switch, pollVars, PollsOwned
<1>7. CASE UNCHANGED vars
  BY <1>7 DEF vars, runVars, pollVars, PollsOwned
<1> QED BY <1>1, <1>2, <1>3, <1>4, <1>5, <1>6, <1>7, <1>8 DEF Next

LEMMA TypesHold == Spec => [](TypeInv /\ PollsOwned)
<1>1. Init => TypeInv /\ PollsOwned
  BY TypeAtFirst DEF Init, PollsOwned
<1>2. TypeInv /\ PollsOwned /\ [Next]_vars => (TypeInv /\ PollsOwned)'
  BY TypeKept, PollsStayOwned
<1> QED BY <1>1, <1>2, PTL DEF Spec

(* The types of the stream's state: in particular the newest number a      *)
(* screen knows of is one a run uses, which is what it asks for next.      *)
THEOREM ScreenIsTyped == Spec => []TypeOK
<1>1. TypeInv => TypeOK
  BY DEF TypeInv
<1> QED BY <1>1, TypesHold, PTL

(* The stream numbers and remembers envelopes as RECENT does on its own:   *)
(* connections, polls and screens do not disturb it, so what a poll is     *)
(* answered with has no holes either.                                      *)
THEOREM StreamImplementsRecent == Spec => RecentSpec /\ []ReplayIsSuffix
<1>1. Init => RecentInit
  BY DEF Init
<1>2. Spec => RecentSpec
  BY <1>1, NumberingSteps, PTL DEF Spec, RecentSpec
<1> QED BY <1>2, ReplayHasNoHoles, PTL

-----------------------------------------------------------------------------
(* One run at a time. *)

(* The hub broadcasts the envelopes of every run to every browser, and the *)
(* browser tells envelopes apart by their number alone: what follows is    *)
(* true of a server that has one run.                                      *)
OneRun == \A t, u \in Traces : t = u

LEMMA OneOfANumber ==
  ASSUME OneRun, NEW e \in Envelopes, NEW f \in Envelopes, e[2] = f[2]
  PROVE  e = f
BY DEF OneRun, Envelopes

(* Live delivery, replay and a reset that meets the last delivery never    *)
(* apply an envelope twice, and never two envelopes as one (App.tsx,       *)
(* ingest).                                                                *)
THEOREM EnvelopesCountOnce == ASSUME OneRun PROVE Spec => []OncePerEnvelope
<1>1. ASSUME TypeInv PROVE OncePerEnvelope
  <2>1. ASSUME NEW e \in Merged PROVE e \in Envelopes /\ shown[e] = 1
    BY <1>1 DEF TypeInv, IngestInv, ShownOnce, Merged
  <2> QED BY <2>1, OneOfANumber DEF OncePerEnvelope
<1>2. TypeInv => OncePerEnvelope
  BY <1>1
<1> QED BY <1>2, TypesHold, PTL

(* The limits under which the screen does not ask twice.  RECENT keeps a   *)
(* whole run: RECENT_MAX_PER_TRACE is 1000 (events.py:42), a run sends     *)
(* some dozens.  After it has asked, a run sends its receipts and its      *)
(* summary and ends (agents/agent.py:439-503).                             *)
RoomForRun == PerTrace > Last
TwoAfterAsking == Last = Ask + 2

(* The buffer is whole: it is never trimmed and the run is never evicted. *)
Whole == \A t \in Traces, n \in Numbers : <<t, n>> \in sent => n \in buf[t]

(* What the hook holds was sent before what the wire carries, and the wire *)
(* carries it in order.                                                    *)
LinkOrder ==
  /\ \A i \in DOMAIN wire : wire[i] \in sent
  /\ \A i, j \in DOMAIN wire : i < j => wire[i][2] < wire[j][2]
  /\ \A e \in hookBuf : e \in sent
  /\ \A e \in hookBuf, i \in DOMAIN wire : e[2] < wire[i][2]

(* No gap can close later from the connection: what it still brings is new *)
(* or already applied.                                                     *)
LinkAhead ==
  /\ \A e \in hookBuf : e[2] <= maxSeq => e[2] \in applied
  /\ \A i \in DOMAIN wire : wire[i][2] <= maxSeq => wire[i][2] \in applied

AppliedSound ==
  /\ Merged \subseteq sent
  /\ maxSeq = -1 \/ maxSeq \in applied
  /\ \A n \in applied : n <= maxSeq

(* A poll asked from what was known, and its answer has no hole above what *)
(* is known now.                                                           *)
PollsAhead ==
  /\ \A a \in asked : a <= maxSeq
  /\ \A S \in replies : S \subseteq sent
  /\ \A S \in replies : \A e \in S, n \in Numbers :
       <<e[1], n>> \in sent /\ maxSeq < n /\ n <= e[2] => <<e[1], n>> \in S

AskOver == Ask + 1 \in applied \/ Last \in applied

(* A run that was never on the screen has no approval under way. *)
PostsSeen == \A t \in Traces : t \notin seen => posts[t] = 0 /\ traceId # t

Answering == traceId # NoTrace /\ (approved \/ posts[traceId] > 0)

(* While the reviewer is asked, and after the answer, everything that can  *)
(* still arrive comes after the question, and a change that the status has *)
(* not seen yet settles the question.                                      *)
AfterAsk ==
  /\ Ask \in applied
  /\ \A a \in asked : a >= Ask
  /\ \A S \in replies : \A e \in S : e[2] > Ask
  /\ stale => AskOver

Answered ==
  /\ approved => status # "awaiting"
  /\ status = "awaiting" \/ Answering => AfterAsk

ScreenInv ==
  /\ TypeInv /\ PollsOwned /\ PostsSeen
  /\ Whole /\ LinkOrder /\ LinkAhead /\ AppliedSound /\ PollsAhead /\ Answered

LEMMA ScreenAtFirst == Init => ScreenInv
<1> SUFFICES ASSUME Init PROVE ScreenInv
  OBVIOUS
<1>1. TypeInv /\ PollsOwned
  BY TypeAtFirst DEF Init, PollsOwned
<1>2. Whole /\ Merged = {} /\ PollsAhead
  BY DEF Init, RecentInit, Whole, Merged, PollsAhead
<1>3. LinkOrder /\ LinkAhead /\ Answered /\ PostsSeen
  BY EventAssumption DEF Init, LinkOrder, LinkAhead, Answered, Answering, PostsSeen
<1>4. AppliedSound
  BY <1>2 DEF Init, AppliedSound
<1> QED BY <1>1, <1>2, <1>3, <1>4 DEF ScreenInv

(* A deque with room for the run keeps every number. *)
LEMMA TrimKeepsAll ==
  ASSUME RoomForRun, NEW S \in SUBSET Numbers
  PROVE  Trim(S) = S
<1>1. ASSUME NEW x \in S PROVE Cardinality({y \in S : y > x}) < PerTrace
  <2>1. IsFiniteSet(1..Last) /\ Cardinality(1..Last) = Last
    BY FS_Interval, RecentAssumption
  <2>2. {y \in S : y > x} \in SUBSET (1..Last)
    <3>1. \A y \in S : y \in Int /\ y <= Last /\ x >= 0 /\ x \in Int
      BY RecentAssumption DEF Numbers
    <3>2. ASSUME NEW y \in S, y > x PROVE y \in 1..Last
      BY <3>1, <3>2, RecentAssumption
    <3> QED BY <3>2
  <2>3. Cardinality({y \in S : y > x}) <= Last
    BY <2>1, <2>2, FS_Subset
  <2>4. Cardinality({y \in S : y > x}) \in Nat
    BY AboveIsFinite
  <2> QED BY <2>3, <2>4, RecentAssumption DEF RoomForRun
<1> QED BY <1>1 DEF Trim

(* Publishing adds the newest number, which RECENT keeps. *)
LEMMA EmitAdds ==
  ASSUME RecentInv, OneRun, RoomForRun, Whole, NEW t \in Traces, Emit(t)
  PROVE  /\ <<t, next[t]>> \in Envelopes /\ sent' = sent \union {<<t, next[t]>>}
         /\ \A e \in sent : e[2] < next[t]
         /\ Whole'
<1>1. next[t] \in Numbers /\ sent \subseteq Envelopes /\ buf \in [Traces -> SUBSET Numbers]
      /\ recent \in Seq(Traces)
  BY RecentAssumption DEF Emit, RecentInv, RecentTypeOK, Numbers
<1>2. <<t, next[t]>> \in Envelopes /\ sent' = sent \union {<<t, next[t]>>}
  BY <1>1 DEF Emit, Envelopes
<1>3. ASSUME NEW e \in sent PROVE e[2] < next[t]
  <2>1. e[1] = t /\ e[2] \in Numbers /\ e = <<t, e[2]>>
    BY <1>1 DEF Envelopes, OneRun
  <2> QED BY <2>1 DEF RecentInv, Numbered
<1>4. Len(recent) >= MaxTraces => Known(t)
  <2>1. ASSUME Len(recent) >= MaxTraces PROVE recent[1] \in Traces /\ 1 \in DOMAIN recent
    BY <1>1, <2>1, RecentAssumption
  <2> QED BY <2>1 DEF OneRun, Known
<1>5. buf'[t] = Trim(buf[t] \union {next[t]})
  BY DEF Emit, Remember
<1>6. buf'[t] = buf[t] \union {next[t]}
  BY <1>1, <1>5, TrimKeepsAll
<1>7. Whole'
  BY <1>2, <1>6 DEF Whole, OneRun
<1> QED BY <1>2, <1>3, <1>7

(* Taking in envelopes that were sent moves the newest number known to one *)
(* of theirs.                                                              *)
LEMMA TakesSound ==
  ASSUME IngestInv, AppliedSound, NEW S \in SUBSET Envelopes, S \subseteq sent,
         Ingest(S), sent' = sent
  PROVE  /\ IngestInv' /\ AppliedSound'
         /\ applied \subseteq applied' /\ (\A e \in S : e[2] \in applied')
         /\ maxSeq' >= maxSeq
         /\ maxSeq' = maxSeq \/ \E e \in S : e[2] = maxSeq' /\ e[2] > maxSeq
         /\ stale' => stale \/ \E e \in S : e[2] \notin applied
<1>1. /\ IngestInv'
      /\ applied' = applied \union NumbersOf(S)
      /\ Merged' \subseteq Merged \union S
      /\ maxSeq' >= maxSeq
      /\ \A e \in S : e[2] \in applied \/ e[2] <= maxSeq'
      /\ maxSeq' = maxSeq \/ \E e \in S : e[2] \notin applied /\ e[2] = maxSeq'
      /\ stale' => stale \/ \E e \in S : e[2] \notin applied
  BY IngestTakes
<1>2. maxSeq \in Int /\ maxSeq' \in Int /\ applied \subseteq Int /\ applied' \subseteq Int
  BY <1>1, RecentAssumption DEF IngestInv, Numbers
<1>3. applied \subseteq applied' /\ \A e \in S : e[2] \in applied'
  BY <1>1 DEF NumbersOf
<1>4. \A n \in applied' : n <= maxSeq'
  <2>1. ASSUME NEW n \in applied PROVE n <= maxSeq'
    <3>1. n <= maxSeq /\ n \in Int
      BY <1>2 DEF AppliedSound
    <3> QED BY <1>1, <1>2, <3>1
  <2>2. ASSUME NEW e \in S PROVE e[2] <= maxSeq'
    BY <1>1, <2>1
  <2> QED BY <1>1, <2>1, <2>2 DEF NumbersOf
<1>5. maxSeq' = -1 \/ maxSeq' \in applied'
  BY <1>1, <1>3 DEF AppliedSound
<1>6. AppliedSound'
  BY <1>1, <1>4, <1>5 DEF AppliedSound
<1>7. maxSeq' = maxSeq \/ \E e \in S : e[2] = maxSeq' /\ e[2] > maxSeq
  <2>1. CASE maxSeq' # maxSeq
    <3>1. maxSeq' > maxSeq
      BY <1>1, <1>2, <2>1
    <3> QED BY <1>1, <3>1
  <2> QED BY <2>1
<1> QED BY <1>1, <1>3, <1>6, <1>7

(* While an answer is expected or was given, what is new on a screen       *)
(* settles the question.                                                   *)
LEMMA TakesSettle ==
  ASSUME IngestInv, AppliedSound, AfterAsk, TwoAfterAsking,
         NEW S \in SUBSET Envelopes, S \subseteq sent, Ingest(S), sent' = sent,
         \A e \in S : e[2] \in applied \/ e[2] > Ask,
         asked' = asked, replies' \subseteq replies
  PROVE  AfterAsk'
<1>1. /\ applied \subseteq applied' /\ \A e \in S : e[2] \in applied'
      /\ stale' => stale \/ \E e \in S : e[2] \notin applied
  BY TakesSound
<1>2. ASSUME NEW e \in S, e[2] \notin applied PROVE AskOver'
  <2>1. e[2] \in Numbers /\ e[2] > Ask /\ e[2] \in applied'
    BY <1>1, <1>2 DEF Envelopes
  <2>2. e[2] = Ask + 1 \/ e[2] = Last
    BY <2>1, EventAssumption, RecentAssumption DEF TwoAfterAsking, Numbers
  <2> QED BY <2>1, <2>2 DEF AskOver
<1>3. AskOver => AskOver'
  BY <1>1 DEF AskOver
<1>4. stale' => AskOver'
  BY <1>1, <1>2, <1>3 DEF AfterAsk
<1> QED BY <1>1, <1>4 DEF AfterAsk

LEMMA PublishKeeps ==
  ASSUME ScreenInv, OneRun, RoomForRun, NEW t \in Traces, Publish(t)
  PROVE  Whole' /\ LinkOrder' /\ LinkAhead' /\ AppliedSound' /\ PollsAhead' /\ Answered'
<1> DEFINE e0 == <<t, next[t]>>
<1>1. /\ e0 \in Envelopes /\ sent' = sent \union {e0}
      /\ \A e \in sent : e[2] < e0[2]
      /\ Whole'
  BY EmitAdds DEF ScreenInv, TypeInv, Publish
<1>2. /\ wire' = IF attached THEN Append(wire, e0) ELSE wire
      /\ UNCHANGED <<hookBuf, ingestVars, runVars, pollVars>>
  BY DEF Publish
<1> HIDE DEF e0
<1>3. wire \in Seq(Envelopes) /\ hookBuf \subseteq Envelopes /\ maxSeq \in Int /\ e0[2] \in Int
      /\ \A e \in Envelopes : e[2] \in Int
  BY <1>1, RecentAssumption DEF ScreenInv, TypeInv, TypeOK, Envelopes, Numbers
<1>4. maxSeq < e0[2]
  <2>1. CASE maxSeq = -1
    BY <1>1, <2>1 DEF Envelopes, Numbers
  <2>2. CASE maxSeq # -1
    <3>1. maxSeq \in applied /\ applied = NumbersOf(Merged) /\ Merged \subseteq sent
      BY <2>2 DEF ScreenInv, AppliedSound, TypeInv, IngestInv
    <3>2. PICK e \in sent : e[2] = maxSeq
      BY <3>1 DEF NumbersOf
    <3> QED BY <1>1, <3>2
  <2> QED BY <2>1, <2>2
<1>5. LinkOrder'
  <2>1. LinkOrder
    BY DEF ScreenInv
  <2>2. CASE ~attached
    BY <1>1, <1>2, <2>1, <2>2 DEF LinkOrder
  <2>3. CASE attached
    <3> DEFINE n == Len(wire)
    <3>1. /\ n \in Nat /\ DOMAIN wire = 1..n /\ DOMAIN wire' = 1..(n + 1)
          /\ wire'[n + 1] = e0 /\ \A i \in 1..n : wire'[i] = wire[i] /\ wire[i] \in Envelopes
      BY <1>1, <1>2, <1>3, <2>3
    <3> HIDE DEF n
    <3>2. \A i \in 1..n : wire[i] \in sent /\ wire[i][2] < e0[2]
      BY <1>1, <2>1, <3>1 DEF LinkOrder
    <3>3. ASSUME NEW i \in 1..(n + 1) PROVE wire'[i] \in sent'
      <4>1. i \in 1..n \/ i = n + 1
        BY <3>1
      <4> QED BY <1>1, <3>1, <3>2, <4>1
    <3>4. ASSUME NEW i \in 1..(n + 1), NEW j \in 1..(n + 1), i < j PROVE wire'[i][2] < wire'[j][2]
      <4>1. i \in 1..n /\ (j \in 1..n \/ j = n + 1)
        BY <3>1, <3>4
      <4> QED BY <2>1, <3>1, <3>2, <3>4, <4>1 DEF LinkOrder
    <3>5. ASSUME NEW e \in hookBuf, NEW i \in 1..(n + 1) PROVE e[2] < wire'[i][2]
      <4>1. i \in 1..n \/ i = n + 1
        BY <3>1
      <4> QED BY <1>1, <2>1, <3>1, <4>1 DEF LinkOrder
    <3>6. \A e \in hookBuf' : e \in sent'
      BY <1>1, <1>2, <2>1 DEF LinkOrder
    <3> QED BY <1>2, <3>1, <3>3, <3>4, <3>5, <3>6 DEF LinkOrder
  <2> QED BY <1>3, <2>2, <2>3
<1>6. LinkAhead'
  <2>1. LinkAhead /\ UNCHANGED <<applied, maxSeq, hookBuf>>
    BY <1>2 DEF ScreenInv, ingestVars
  <2>2. ASSUME NEW i \in DOMAIN wire', wire'[i][2] <= maxSeq PROVE wire'[i][2] \in applied
    <3>1. (i \in DOMAIN wire /\ wire'[i] = wire[i]) \/ wire'[i] = e0
      BY <1>1, <1>2, <1>3
    <3> QED BY <1>3, <1>4, <2>1, <2>2, <3>1 DEF LinkAhead
  <2> QED BY <2>1, <2>2 DEF LinkAhead
<1>7. AppliedSound'
  BY <1>1, <1>2 DEF ScreenInv, AppliedSound, ingestVars, Merged
<1>8. PollsAhead'
  <2>1. PollsAhead /\ UNCHANGED <<maxSeq, asked, replies>> /\ replies \subseteq SUBSET Envelopes
    BY <1>2 DEF ScreenInv, ingestVars, pollVars, TypeInv, TypeOK
  <2>2. ASSUME NEW S \in replies, NEW e \in S, NEW n \in Numbers,
               <<e[1], n>> \in sent', maxSeq < n, n <= e[2]
        PROVE  <<e[1], n>> \in S
    <3>1. e \in sent /\ e[2] < e0[2]
      BY <1>1, <2>1 DEF PollsAhead
    <3>2. <<e[1], n>> # e0
      <4>1. n # e0[2]
        BY <1>3, <2>1, <2>2, <3>1 DEF Numbers
      <4> QED BY <4>1
    <3> QED BY <1>1, <2>1, <2>2, <3>2 DEF PollsAhead
  <2> QED BY <1>1, <2>1, <2>2 DEF PollsAhead
<1>9. Answered'
  BY <1>2 DEF ScreenInv, Answered, Answering, AfterAsk, AskOver, ingestVars, runVars, pollVars
<1> QED BY <1>1, <1>5, <1>6, <1>7, <1>8, <1>9

(* Steps that leave the numbering and the screen alone and at most lose    *)
(* what the connection carries.                                            *)
LEMMA LinkKeeps ==
  ASSUME ScreenInv, UNCHANGED <<buf, sent, ingestVars, runVars, pollVars>>
  PROVE  Whole' /\ AppliedSound' /\ PollsAhead' /\ Answered'
<1>1. Whole /\ AppliedSound /\ PollsAhead /\ Answered
  BY DEF ScreenInv
<1>2. Whole' /\ AppliedSound' /\ PollsAhead'
  BY <1>1 DEF ingestVars, pollVars, Whole, AppliedSound, Merged, PollsAhead
<1>3. Answered'
  BY <1>1 DEF ingestVars, pollVars, runVars, Answered, Answering, AfterAsk, AskOver
<1> QED BY <1>2, <1>3

LEMMA DeliverKeeps ==
  ASSUME ScreenInv, Deliver PROVE LinkOrder' /\ LinkAhead'
<1> DEFINE n == Len(wire)
<1>1. /\ n \in Nat \ {0} /\ DOMAIN wire = 1..n /\ DOMAIN wire' = 1..(n - 1)
      /\ \A i \in 1..(n - 1) : wire'[i] = wire[i + 1]
      /\ hookBuf' = hookBuf \union {wire[1]} /\ wire \in Seq(Envelopes)
      /\ UNCHANGED <<sent, maxSeq, applied>>
  BY DEF Deliver, ScreenInv, TypeInv, TypeOK, recentVars, ingestVars
<1> HIDE DEF n
<1>2. LinkOrder /\ LinkAhead
  BY DEF ScreenInv
<1>3. 1 \in DOMAIN wire /\ \A i \in 1..(n - 1) : i + 1 \in DOMAIN wire /\ 1 < i + 1 /\ i \in Int
  BY <1>1
<1>4. \A i, j \in DOMAIN wire' : i < j => wire'[i][2] < wire'[j][2]
  <2>1. ASSUME NEW i \in DOMAIN wire', NEW j \in DOMAIN wire', i < j
        PROVE  wire'[i][2] < wire'[j][2]
    <3>1. i + 1 < j + 1 /\ i \in 1..(n - 1) /\ j \in 1..(n - 1)
      BY <1>1, <2>1
    <3>2. wire[i + 1][2] < wire[j + 1][2]
      BY <1>2, <1>3, <3>1 DEF LinkOrder
    <3> QED BY <1>1, <3>1, <3>2
  <2> QED BY <2>1
<1>5. \A e \in hookBuf', i \in DOMAIN wire' : e[2] < wire'[i][2]
  BY <1>1, <1>2, <1>3 DEF LinkOrder
<1>6. (\A i \in DOMAIN wire' : wire'[i] \in sent') /\ \A e \in hookBuf' : e \in sent'
  BY <1>1, <1>2, <1>3 DEF LinkOrder
<1>7. LinkOrder'
  BY <1>4, <1>5, <1>6 DEF LinkOrder
<1>8. LinkAhead'
  BY <1>1, <1>2, <1>3 DEF LinkAhead
<1> QED BY <1>7, <1>8

LEMMA CutKeeps ==
  ASSUME ScreenInv, wire' = <<>>, hookBuf' \subseteq hookBuf, UNCHANGED <<sent, ingestVars>>
  PROVE  LinkOrder' /\ LinkAhead'
<1>1. DOMAIN wire' = {}
  OBVIOUS
<1> QED BY <1>1 DEF ScreenInv, LinkOrder, LinkAhead, ingestVars

LEMMA IngestHookKeeps ==
  ASSUME ScreenInv, TwoAfterAsking, IngestHook
  PROVE  Whole' /\ LinkOrder' /\ LinkAhead' /\ AppliedSound' /\ PollsAhead' /\ Answered'
<1>1. /\ Ingest(hookBuf)
      /\ UNCHANGED <<buf, sent, hookBuf, wire, traceId, status, approved, posts, asked, replies>>
  BY DEF IngestHook, recentVars, linkVars, runVars, pollVars
<1>2. /\ LinkOrder /\ LinkAhead /\ AppliedSound /\ PollsAhead /\ Answered /\ Whole /\ IngestInv
      /\ hookBuf \in SUBSET Envelopes /\ hookBuf \subseteq sent
      /\ wire \in Seq(Envelopes)
  BY DEF ScreenInv, TypeInv, TypeOK, LinkOrder
<1>3. /\ IngestInv' /\ AppliedSound'
      /\ applied \subseteq applied' /\ (\A e \in hookBuf : e[2] \in applied')
      /\ maxSeq' >= maxSeq
      /\ maxSeq' = maxSeq \/ \E e \in hookBuf : e[2] = maxSeq' /\ e[2] > maxSeq
  BY <1>1, <1>2, TakesSound
<1>4. maxSeq \in Int /\ maxSeq' \in Int /\ \A e \in Envelopes : e[2] \in Int
  BY <1>2, <1>3, RecentAssumption DEF IngestInv, Envelopes, Numbers
<1>5. LinkAhead'
  <2>1. ASSUME NEW i \in DOMAIN wire, wire[i][2] <= maxSeq' PROVE wire[i][2] \in applied'
    <3>1. wire[i] \in Envelopes /\ wire[i][2] \in Int
      BY <1>2, <1>4
    <3>2. maxSeq' = maxSeq
      BY <1>2, <1>3, <1>4, <2>1, <3>1 DEF LinkOrder
    <3> QED BY <1>2, <1>3, <2>1, <3>2 DEF LinkAhead
  <2> QED BY <1>1, <1>3, <2>1 DEF LinkAhead
<1>6. PollsAhead'
  <2>1. \A a \in asked : a <= maxSeq'
    <3>1. asked \subseteq -1..Last
      BY DEF ScreenInv, TypeInv, TypeOK
    <3> QED BY <1>2, <1>3, <1>4, <3>1, RecentAssumption DEF PollsAhead
  <2>2. \A n \in Numbers : maxSeq' < n => maxSeq < n
    BY <1>3, <1>4 DEF Numbers
  <2> QED BY <1>1, <1>2, <2>1, <2>2 DEF PollsAhead
<1>7. ASSUME AfterAsk PROVE AfterAsk'
  <2>1. Ask \in applied /\ Ask <= maxSeq /\ Ask \in Int
    BY <1>2, <1>7, EventAssumption DEF AfterAsk, AppliedSound
  <2>2. \A e \in hookBuf : e[2] \in applied \/ e[2] > Ask
    BY <1>2, <1>4, <2>1 DEF LinkAhead
  <2> QED BY <1>1, <1>2, <1>7, <2>2, TakesSettle
<1>8. Answered'
  BY <1>1, <1>2, <1>7 DEF Answered, Answering
<1>9. Whole' /\ LinkOrder'
  BY <1>1, <1>2 DEF Whole, LinkOrder
<1> QED BY <1>3, <1>5, <1>6, <1>8, <1>9

LEMMA PollReturnKeeps ==
  ASSUME ScreenInv, OneRun, TwoAfterAsking, PollReturn
  PROVE  Whole' /\ LinkOrder' /\ LinkAhead' /\ AppliedSound' /\ PollsAhead' /\ Answered'
<1>0. PICK S \in replies : replies' = replies \ {S} /\ Ingest(S)
  BY DEF PollReturn
<1>1. UNCHANGED <<buf, sent, hookBuf, wire, traceId, status, approved, posts, asked>>
  BY DEF PollReturn, recentVars, linkVars, runVars
<1>2. /\ LinkOrder /\ LinkAhead /\ AppliedSound /\ PollsAhead /\ Answered /\ Whole /\ IngestInv
      /\ S \in SUBSET Envelopes /\ S \subseteq sent /\ sent \subseteq Envelopes
      /\ wire \in Seq(Envelopes) /\ hookBuf \subseteq Envelopes
  BY <1>0 DEF ScreenInv, TypeInv, TypeOK, RecentTypeOK, PollsAhead
<1>3. /\ IngestInv' /\ AppliedSound'
      /\ applied \subseteq applied' /\ (\A e \in S : e[2] \in applied')
      /\ maxSeq' >= maxSeq
      /\ maxSeq' = maxSeq \/ \E e \in S : e[2] = maxSeq' /\ e[2] > maxSeq
  BY <1>0, <1>1, <1>2, TakesSound
<1>4. maxSeq \in Int /\ maxSeq' \in Int /\ \A e \in Envelopes : e[2] \in Int /\ e[2] \in Numbers
  BY <1>2, <1>3, RecentAssumption DEF IngestInv, Envelopes, Numbers
<1>5. ASSUME NEW e \in sent, e[2] <= maxSeq => e[2] \in applied, e[2] <= maxSeq'
      PROVE  e[2] \in applied'
  <2>1. CASE e[2] <= maxSeq
    BY <1>3, <1>5, <2>1
  <2>2. CASE ~(e[2] <= maxSeq)
    <3>1. PICK f \in S : f[2] = maxSeq'
      BY <1>3, <1>5, <2>2
    <3>2. e \in Envelopes /\ f \in Envelopes /\ <<f[1], e[2]>> \in Envelopes
      BY <1>2, <3>1 DEF Envelopes
    <3>3. e = <<f[1], e[2]>>
      BY <3>2, OneOfANumber
    <3>4. e[2] \in Numbers /\ maxSeq < e[2] /\ e[2] <= f[2] /\ <<f[1], e[2]>> \in sent
      BY <1>4, <1>5, <2>2, <3>1, <3>2, <3>3
    <3>5. <<f[1], e[2]>> \in S
      BY <1>0, <1>2, <3>1, <3>4 DEF PollsAhead
    <3> QED BY <1>3, <3>3, <3>5
  <2> QED BY <2>1, <2>2
<1>6. LinkAhead'
  BY <1>1, <1>2, <1>5 DEF LinkAhead, LinkOrder
<1>7. PollsAhead'
  <2>1. \A a \in asked : a <= maxSeq'
    <3>1. asked \subseteq -1..Last
      BY DEF ScreenInv, TypeInv, TypeOK
    <3> QED BY <1>2, <1>3, <1>4, <3>1, RecentAssumption DEF PollsAhead
  <2>2. \A n \in Numbers : maxSeq' < n => maxSeq < n
    BY <1>3, <1>4 DEF Numbers
  <2> QED BY <1>0, <1>1, <1>2, <2>1, <2>2 DEF PollsAhead
<1>8. ASSUME AfterAsk PROVE AfterAsk'
  <2>1. \A e \in S : e[2] > Ask
    BY <1>0, <1>8 DEF AfterAsk
  <2> QED BY <1>0, <1>1, <1>2, <1>8, <2>1, TakesSettle
<1>9. Answered'
  BY <1>1, <1>2, <1>8 DEF Answered, Answering
<1>10. Whole' /\ LinkOrder'
  BY <1>1, <1>2 DEF Whole, LinkOrder
<1> QED BY <1>3, <1>6, <1>7, <1>9, <1>10

(* The screen asks exactly when the question has been applied and not yet  *)
(* settled.                                                                *)
LEMMA ReducedAsks ==
  ASSUME IngestInv
  PROVE  Reduced(Merged) = "awaiting" <=> Ask \in applied /\ ~AskOver
BY DEF IngestInv, Reduced, AskOver

LEMMA RecomputeKeeps ==
  ASSUME ScreenInv, Recompute
  PROVE  /\ Whole' /\ LinkOrder' /\ LinkAhead' /\ AppliedSound' /\ PollsAhead' /\ Answered'
         /\ approved /\ status' = "awaiting" => status = "awaiting"
<1>1. /\ stale /\ ~stale'
      /\ UNCHANGED <<buf, sent, hookBuf, wire, traceId, approved, posts, applied, maxSeq, shown>>
      /\ traceId = NoTrace => UNCHANGED <<status, asked, replies>>
      /\ traceId # NoTrace => SetStatus(Reduced(Merged))
  BY DEF Recompute, recentVars, linkVars, pollVars
<1>2. /\ LinkOrder /\ LinkAhead /\ AppliedSound /\ PollsAhead /\ Answered /\ Whole /\ IngestInv /\ PollsOwned
  BY DEF ScreenInv, TypeInv
<1>3. asked' \subseteq asked /\ replies' \subseteq replies
  BY <1>1 DEF SetStatus
<1>4. PollsAhead'
  BY <1>1, <1>2, <1>3 DEF PollsAhead
<1>5. traceId # NoTrace => (status' = "awaiting" <=> Ask \in applied /\ ~AskOver)
  BY <1>1, <1>2, ReducedAsks DEF SetStatus
<1>6. approved => status' # "awaiting"
  <2>1. CASE traceId = NoTrace
    BY <1>1, <1>2, <2>1 DEF PollsOwned
  <2>2. CASE traceId # NoTrace
    BY <1>1, <1>2, <1>5, <2>2 DEF Answered, Answering, AfterAsk
  <2> QED BY <2>1, <2>2
<1>7. AfterAsk => AfterAsk'
  BY <1>1, <1>3 DEF AfterAsk
<1>8. ASSUME status' = "awaiting" PROVE AfterAsk'
  <2>1. traceId # NoTrace
    BY <1>1, <1>2, <1>8 DEF PollsOwned
  <2>2. Ask \in applied
    BY <1>5, <1>8, <2>1
  <2>3. CASE status = "awaiting"
    BY <1>2, <1>7, <2>3 DEF Answered
  <2>4. CASE status # "awaiting"
    <3>1. asked' = {} /\ replies' = {}
      BY <1>1, <1>8, <2>1, <2>4 DEF SetStatus
    <3> QED BY <1>1, <2>2, <3>1 DEF AfterAsk
  <2> QED BY <2>3, <2>4
<1>9. Answered'
  BY <1>1, <1>2, <1>6, <1>7, <1>8 DEF Answered, Answering
<1>10. Whole' /\ LinkOrder' /\ LinkAhead' /\ AppliedSound'
  BY <1>1, <1>2 DEF Whole, LinkOrder, LinkAhead, AppliedSound, Merged
<1> QED BY <1>4, <1>6, <1>9, <1>10

LEMMA PollsKeep ==
  ASSUME ScreenInv, PollAsk \/ PollServe \/ PollFail
  PROVE  Whole' /\ LinkOrder' /\ LinkAhead' /\ AppliedSound' /\ PollsAhead' /\ Answered'
<1>1. UNCHANGED <<buf, sent, hookBuf, wire, traceId, status, approved, posts, ingestVars>>
  BY DEF PollAsk, PollServe, PollFail, recentVars, linkVars, runVars
<1>2. /\ LinkOrder /\ LinkAhead /\ AppliedSound /\ PollsAhead /\ Answered /\ Whole /\ PollsOwned
      /\ RecentInv /\ maxSeq \in Int /\ asked \subseteq -1..Last /\ applied \subseteq Numbers
      /\ traceId \in Traces \union {NoTrace}
  BY RecentAssumption DEF ScreenInv, TypeInv, TypeOK
<1>3. Whole' /\ LinkOrder' /\ LinkAhead' /\ AppliedSound'
  BY <1>1, <1>2 DEF ingestVars, Whole, LinkOrder, LinkAhead, AppliedSound, Merged
<1>4. PollsAhead' /\ (AfterAsk => AfterAsk')
  <2>1. CASE PollAsk
    <3>1. asked' = asked \union {maxSeq} /\ replies' = replies
      BY <2>1 DEF PollAsk
    <3>2. AfterAsk => maxSeq >= Ask
      BY <1>2 DEF AfterAsk, AppliedSound
    <3>3. PollsAhead'
      BY <1>1, <1>2, <3>1 DEF ingestVars, PollsAhead
    <3>4. AfterAsk => AfterAsk'
      BY <1>1, <3>1, <3>2 DEF ingestVars, AfterAsk, AskOver
    <3> QED BY <3>3, <3>4
  <2>2. CASE PollServe
    <3>1. PICK a \in asked : asked' = asked \ {a} /\ replies' = replies \union {Replay(traceId, a)}
      BY <2>2 DEF PollServe
    <3>2. PICK t \in Traces : t = traceId
      BY <1>2, <3>1 DEF PollsOwned
    <3> DEFINE A == Replay(t, a)
    <3>3. /\ A \subseteq Envelopes
          /\ \A e \in A : e[1] = t /\ e[2] \in buf[t] /\ e[2] > a
          /\ \A n \in buf[t] : n > a => <<t, n>> \in A
      BY <1>2, ReplaySound
    <3>4. replies' = replies \union {A}
      BY <3>1, <3>2
    <3> HIDE DEF A
    <3>5. a \in Int /\ a <= maxSeq
      BY <1>2, <3>1, RecentAssumption DEF PollsAhead
    <3>6. A \subseteq sent
      BY <1>2, <3>3 DEF RecentInv, Numbered, Envelopes
    <3>7. ASSUME NEW e \in A, NEW n \in Numbers, <<e[1], n>> \in sent, maxSeq < n
          PROVE  <<e[1], n>> \in A
      <4>1. e[1] = t /\ n \in buf[t]
        BY <1>2, <3>3, <3>7 DEF Whole
      <4>2. n > a
        BY <1>2, <3>5, <3>7 DEF Numbers
      <4> QED BY <3>3, <4>1, <4>2
    <3>8. PollsAhead'
      <4>1. \A S \in replies' : S \subseteq sent
        BY <1>2, <3>4, <3>6 DEF PollsAhead
      <4>2. \A S \in replies' : \A e \in S, n \in Numbers :
              <<e[1], n>> \in sent /\ maxSeq < n /\ n <= e[2] => <<e[1], n>> \in S
        BY <1>2, <3>4, <3>7 DEF PollsAhead
      <4> QED BY <1>1, <1>2, <3>1, <4>1, <4>2 DEF ingestVars, PollsAhead
    <3>9. ASSUME AfterAsk PROVE AfterAsk'
      <4>1. \A e \in A : e[2] > Ask
        <5>1. a >= Ask
          BY <3>1, <3>9 DEF AfterAsk
        <5>2. \A e \in A : e[2] \in Int
          BY <3>3 DEF Envelopes, Numbers
        <5> QED BY <3>3, <3>5, <5>1, <5>2, EventAssumption
      <4> QED BY <1>1, <3>1, <3>4, <3>9, <4>1 DEF ingestVars, AfterAsk, AskOver
    <3> QED BY <3>8, <3>9
  <2>3. CASE PollFail
    <3>1. asked' \subseteq asked /\ replies' \subseteq replies
      BY <2>3 DEF PollFail
    <3>2. PollsAhead'
      BY <1>1, <1>2, <3>1 DEF ingestVars, PollsAhead
    <3>3. AfterAsk => AfterAsk'
      BY <1>1, <3>1 DEF ingestVars, AfterAsk, AskOver
    <3> QED BY <3>2, <3>3
  <2> QED BY <2>1, <2>2, <2>3
<1>5. Answered'
  BY <1>1, <1>2, <1>4 DEF Answered, Answering
<1> QED BY <1>3, <1>4, <1>5

LEMMA SwitchKeeps ==
  ASSUME ScreenInv, NEW t, NEW st, NEW scr, Switch(t, st, scr),
         UNCHANGED recentVars, st # "awaiting",
         t = NoTrace \/ (~approved' /\ ~(posts'[t] > 0))
  PROVE  Whole' /\ LinkOrder' /\ LinkAhead' /\ AppliedSound' /\ PollsAhead' /\ Answered'
<1>1. /\ traceId' = t /\ status' = st /\ wire' = <<>> /\ hookBuf' = {}
      /\ asked' = {} /\ replies' = {} /\ UNCHANGED <<buf, sent>>
  BY DEF Switch, recentVars
<1>2. hookBuf \subseteq sent /\ hookBuf \subseteq Envelopes
  BY DEF ScreenInv, LinkOrder, TypeInv, TypeOK
<1>3. AppliedSound'
  BY <1>1, <1>2, SwitchTakes DEF AppliedSound
<1>4. Whole' /\ PollsAhead' /\ LinkOrder' /\ LinkAhead'
  BY <1>1 DEF ScreenInv, Whole, PollsAhead, LinkOrder, LinkAhead
<1>5. Answered'
  BY <1>1 DEF Answered, Answering
<1> QED BY <1>3, <1>4, <1>5

(* The steps of the approval leave what was taken in alone; polls may be   *)
(* cancelled.                                                              *)
LEMMA AnswerFrame ==
  ASSUME ScreenInv, UNCHANGED <<buf, sent, hookBuf, wire, traceId, ingestVars>>,
         asked' \subseteq asked, replies' \subseteq replies
  PROVE  /\ Whole' /\ LinkOrder' /\ LinkAhead' /\ AppliedSound' /\ PollsAhead'
         /\ AfterAsk => AfterAsk'
<1>1. Whole' /\ LinkOrder' /\ LinkAhead' /\ AppliedSound' /\ PollsAhead'
  BY DEF ScreenInv, ingestVars, Whole, LinkOrder, LinkAhead, AppliedSound, Merged, PollsAhead
<1>2. AfterAsk => AfterAsk'
  BY DEF ingestVars, AfterAsk, AskOver
<1> QED BY <1>1, <1>2

LEMMA ApproveKeeps ==
  ASSUME ScreenInv, Approve
  PROVE  Whole' /\ LinkOrder' /\ LinkAhead' /\ AppliedSound' /\ PollsAhead' /\ Answered'
<1>1. /\ status = "awaiting" /\ asked' \subseteq asked /\ replies' \subseteq replies
      /\ UNCHANGED <<buf, sent, hookBuf, wire, traceId, ingestVars, status, approved>>
  BY DEF Approve, recentVars, linkVars, pollVars
<1>2. /\ Whole' /\ LinkOrder' /\ LinkAhead' /\ AppliedSound' /\ PollsAhead'
      /\ AfterAsk'
  BY <1>1, AnswerFrame DEF ScreenInv, Answered
<1> QED BY <1>1, <1>2 DEF ScreenInv, Answered

(* An answer that arrives while its run is on the screen finds the question *)
(* applied, whatever else has been applied since it was posted.             *)
LEMMA AnswerKeeps ==
  ASSUME ScreenInv, OneRun, NEW t \in Traces, ApproveReturns(t) \/ ApproveFails(t)
  PROVE  Whole' /\ LinkOrder' /\ LinkAhead' /\ AppliedSound' /\ PollsAhead' /\ Answered'
<1>1. /\ posts[t] > 0 /\ asked' \subseteq asked /\ replies' \subseteq replies
      /\ UNCHANGED <<buf, sent, hookBuf, wire, traceId, ingestVars>>
  BY DEF ApproveReturns, ApproveFails, SetStatus, recentVars, linkVars, pollVars
<1>2. /\ Whole' /\ LinkOrder' /\ LinkAhead' /\ AppliedSound' /\ PollsAhead'
      /\ AfterAsk => AfterAsk'
  BY <1>1, AnswerFrame
<1>3. traceId # NoTrace => AfterAsk
  <2>1. traceId # NoTrace => traceId = t
    BY DEF ScreenInv, TypeInv, TypeOK, OneRun
  <2> QED BY <1>1, <2>1 DEF ScreenInv, Answered, Answering
<1>4. \/ status' = "running"
      \/ UNCHANGED <<status, approved>>
  BY DEF ApproveReturns, ApproveFails, SetStatus
<1>5. status' = "awaiting" => AfterAsk'
  BY <1>2, <1>4 DEF ScreenInv, Answered
<1>6. Answering' => AfterAsk'
  BY <1>1, <1>2, <1>3 DEF Answering
<1>7. approved' => status' # "awaiting"
  BY <1>4 DEF ScreenInv, Answered
<1> QED BY <1>2, <1>5, <1>6, <1>7 DEF Answered

LEMMA PostsStaySeen ==
  ASSUME TypeInv, PollsOwned, PostsSeen, [Next]_vars PROVE PostsSeen'
<1>1. seen \subseteq Traces /\ posts \in [Traces -> Nat] /\ traceId \in Traces \union {NoTrace}
  BY DEF TypeInv, TypeOK
<1>2. ASSUME NEW t \in Traces, Publish(t) \/ Reject(t) PROVE PostsSeen'
  BY <1>2 DEF Publish, Reject, runVars, PostsSeen
<1>3. ASSUME NEW t \in Traces, Start(t) PROVE PostsSeen'
  BY <1>3 DEF Start, Switch, PostsSeen
<1>4. CASE Attach \/ Deliver \/ Disconnect \/ Reconnect
  BY <1>4 DEF Attach, Deliver, Disconnect, Reconnect, runVars, PostsSeen
<1>5. CASE IngestHook \/ Recompute \/ ShowResult
  BY <1>5 DEF IngestHook, Recompute, ShowResult, runVars, PostsSeen
<1>6. CASE PollAsk \/ PollServe \/ PollReturn \/ PollFail
  BY <1>6 DEF PollAsk, PollServe, PollReturn, PollFail, runVars, PostsSeen
<1>7. CASE Approve
  <2>1. traceId \in Traces /\ traceId \in seen
    BY <1>1, <1>7 DEF Approve, PollsOwned, PostsSeen
  <2>2. \A t \in Traces \ {traceId} : posts'[t] = posts[t]
    BY <1>1, <1>7 DEF Approve
  <2> QED BY <1>7, <2>1, <2>2 DEF Approve, PostsSeen
<1>8. CASE Reset
  BY <1>8, EventAssumption DEF Reset, Switch, PostsSeen
<1>9. ASSUME NEW t \in Traces, ApproveReturns(t) \/ ApproveFails(t) PROVE PostsSeen'
  <2>1. posts[t] > 0 /\ posts' = [posts EXCEPT ![t] = @ - 1] /\ UNCHANGED <<seen, traceId>>
    BY <1>9 DEF ApproveReturns, ApproveFails
  <2>2. t \in seen
    BY <1>1, <2>1 DEF PostsSeen
  <2>3. \A u \in Traces \ {t} : posts'[u] = posts[u]
    BY <1>1, <2>1
  <2> QED BY <2>1, <2>2, <2>3 DEF PostsSeen
<1>10. CASE UNCHANGED vars
  BY <1>10 DEF vars, runVars, PostsSeen
<1> QED BY <1>2, <1>3, <1>4, <1>5, <1>6, <1>7, <1>8, <1>9, <1>10 DEF Next

(* Every step keeps the invariant, and none turns an answered run back. *)
LEMMA ScreenKept ==
  ASSUME ScreenInv, [Next]_vars, OneRun, RoomForRun, TwoAfterAsking
  PROVE  /\ ScreenInv'
         /\ approved /\ traceId' = traceId /\ status' = "awaiting" => status = "awaiting"
<1> DEFINE Kept == Whole' /\ LinkOrder' /\ LinkAhead' /\ AppliedSound' /\ PollsAhead' /\ Answered'
           Quiet == status' = "awaiting" => status = "awaiting" \/ ~approved
<1>1. TypeInv' /\ PollsOwned' /\ PostsSeen'
  BY TypeKept, PollsStayOwned, PostsStaySeen DEF ScreenInv
<1> SUFFICES Kept /\ Quiet
  BY <1>1 DEF ScreenInv
<1>2. ASSUME NEW t \in Traces, Publish(t) PROVE Kept /\ Quiet
  BY <1>2, PublishKeeps DEF Publish, runVars
<1>3. ASSUME NEW t \in Traces, Reject(t) PROVE Kept /\ Quiet
  <2>1. UNCHANGED <<buf, sent, ingestVars, runVars, pollVars, wire, hookBuf, status>>
    BY <1>3 DEF Reject, Void, linkVars, runVars
  <2>2. LinkOrder' /\ LinkAhead'
    BY <2>1 DEF ScreenInv, LinkOrder, LinkAhead, ingestVars
  <2> QED BY <2>1, <2>2, LinkKeeps
<1>4. CASE Attach
  <2>1. UNCHANGED <<buf, sent, ingestVars, runVars, pollVars, wire, hookBuf, status>>
    BY <1>4 DEF Attach, recentVars, runVars
  <2>2. LinkOrder' /\ LinkAhead'
    BY <2>1 DEF ScreenInv, LinkOrder, LinkAhead, ingestVars
  <2> QED BY <2>1, <2>2, LinkKeeps
<1>5. CASE Deliver
  <2>1. UNCHANGED <<buf, sent, ingestVars, runVars, pollVars, status>>
    BY <1>5 DEF Deliver, recentVars, runVars
  <2> QED BY <1>5, <2>1, LinkKeeps, DeliverKeeps
<1>6. CASE Disconnect \/ Reconnect
  <2>1. /\ UNCHANGED <<buf, sent, ingestVars, runVars, pollVars, status>>
        /\ wire' = <<>> /\ hookBuf' \subseteq hookBuf
    BY <1>6 DEF Disconnect, Reconnect, recentVars, runVars
  <2> QED BY <2>1, LinkKeeps, CutKeeps
<1>7. CASE IngestHook
  BY <1>7, IngestHookKeeps DEF IngestHook, runVars
<1>8. CASE Recompute
  BY <1>8, RecomputeKeeps
<1>9. CASE PollAsk \/ PollServe \/ PollFail
  <2>1. status' = status
    BY <1>9 DEF PollAsk, PollServe, PollFail, runVars
  <2> QED BY <1>9, <2>1, PollsKeep
<1>10. CASE PollReturn
  BY <1>10, PollReturnKeeps DEF PollReturn, runVars
<1>11. ASSUME NEW t \in Traces, Start(t) PROVE Kept /\ Quiet
  <2>1. /\ Switch(t, "running", "run") /\ UNCHANGED <<recentVars, posts>>
        /\ approved' = FALSE /\ status' = "running" /\ t \notin seen
    BY <1>11 DEF Start, Switch
  <2>2. ~(posts'[t] > 0)
    BY <2>1 DEF ScreenInv, PostsSeen
  <2> QED BY <2>1, <2>2, SwitchKeeps
<1>12. CASE Reset
  <2>1. Switch(NoTrace, "idle", "ingest") /\ UNCHANGED recentVars /\ status' = "idle"
    BY <1>12 DEF Reset, Switch
  <2> QED BY <2>1, SwitchKeeps
<1>13. CASE Approve
  <2>1. status' = status
    BY <1>13 DEF Approve
  <2> QED BY <1>13, <2>1, ApproveKeeps
<1>15. ASSUME NEW t \in Traces, ApproveReturns(t) \/ ApproveFails(t) PROVE Kept /\ Quiet
  <2>1. status' = "awaiting" => status = "awaiting"
    BY <1>15 DEF ApproveReturns, ApproveFails, SetStatus
  <2> QED BY <1>15, <2>1, AnswerKeeps
<1>16. CASE ShowResult
  <2>1. /\ UNCHANGED <<buf, sent, hookBuf, wire, traceId, ingestVars, status, approved, posts>>
        /\ asked' \subseteq asked /\ replies' \subseteq replies
    BY <1>16 DEF ShowResult, recentVars, linkVars, pollVars
  <2>2. Answered'
    BY <2>1, AnswerFrame DEF ScreenInv, Answered, Answering
  <2> QED BY <2>1, <2>2, AnswerFrame
<1>14. CASE UNCHANGED vars
  <2>1. UNCHANGED <<buf, sent, ingestVars, runVars, pollVars, wire, hookBuf, status>>
    BY <1>14 DEF vars, recentVars, linkVars, runVars
  <2>2. LinkOrder' /\ LinkAhead'
    BY <2>1 DEF ScreenInv, LinkOrder, LinkAhead, ingestVars
  <2> QED BY <2>1, <2>2, LinkKeeps
<1> QED
  BY <1>2, <1>3, <1>4, <1>5, <1>6, <1>7, <1>8, <1>9, <1>10, <1>11, <1>12, <1>13, <1>14,
     <1>15, <1>16 DEF Next

(* Once the reviewer has answered, no order in which live envelopes, late  *)
(* or lost polls, reconnects and effects arrive makes the screen ask again *)
(* (App.tsx, onApprove and the recomputation of the run).                  *)
THEOREM AnsweredStaysAnswered ==
  ASSUME OneRun, RoomForRun, TwoAfterAsking
  PROVE  Spec => NeverAsksAgain
<1>1. ScreenInv /\ [Next]_vars => ScreenInv'
  BY ScreenKept
<1>2. ScreenInv /\ [Next]_vars =>
        [approved /\ traceId' = traceId /\ status' = "awaiting" => status = "awaiting"]_status
  BY ScreenKept
<1> QED BY <1>1, <1>2, ScreenAtFirst, PTL DEF Spec, NeverAsksAgain
===============================================================================
