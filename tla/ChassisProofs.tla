----------------------------- MODULE ChassisProofs ----------------------------
(***************************************************************************)
(* Theorems about services of the chassis: GoldenStore, for any processes, *)
(* keys and values and any number of operations and faults; SyntheticData, *)
(* which keeps batches in such a store, for any header texts and number of *)
(* generations; and ContextFit, for any costs, budgets and number of       *)
(* messages.                                                               *)
(***************************************************************************)
EXTENDS GoldenStore, SyntheticData, ContextFit, FiniteSetTheorems, TLAPS

-----------------------------------------------------------------------------
(* The golden cache. *)

(* The course of an operation: what it may be doing at each point, and     *)
(* that only the entry of a key that was damaged is quarantined.           *)
Course(o) ==
  /\ o.key \in Keys
  /\ \/ o.do = "put" /\ o.val \in Values /\ o.at \in {"file", "index", "write"}
     \/ o.do = "get" /\ o.at \in {"file", "quarantine"}
     \/ o.do = "delete" /\ o.at \in {"file", "index", "write"}
     \/ o.do = "clear" /\ o.at = "file"
  /\ o.at = "quarantine" => o.key \in spoiled

CoursesRun == \A p \in Procs : op[p] = Idle \/ Course(op[p])

(* A file that cannot be parsed was damaged. *)
TornIsSpoiled == \A k \in Keys : file[k] = Torn => k \in spoiled

StoreInv == StoreTypeOK /\ CoursesRun /\ TornIsSpoiled

Operations ==
  [do : {"none", "put", "get", "delete", "clear"},
   at : {"idle", "file", "quarantine", "index", "write"},
   key : Keys \union {Absent}, val : Values \union {Absent}, seen : SUBSET Keys]

LEMMA StoreAtFirst == StoreInit => StoreInv
<1> SUFFICES ASSUME StoreInit PROVE StoreInv
  OBVIOUS
<1>1. Idle \in Operations
  BY DEF Idle, Operations
<1>4. op \in [Procs -> Operations]
  BY <1>1 DEF StoreInit
<1>5. fetched \in [Procs -> Values \union {Absent}] /\ file \in [Keys -> Values \union {Absent, Torn}]
  BY DEF StoreInit
<1>6. ops \in 0..MaxOps /\ faults \in 0..MaxFaults
  BY StoreAssumption DEF StoreInit
<1>2. StoreTypeOK
  BY <1>4, <1>5, <1>6 DEF StoreInit, StoreTypeOK, Operations
<1>3. CoursesRun /\ TornIsSpoiled
  BY StoreAssumption DEF StoreInit, CoursesRun, TornIsSpoiled
<1> QED BY <1>2, <1>3 DEF StoreInv

(* An operation that is over disturbs no other one's course. *)
LEMMA EndKeeps ==
  ASSUME StoreInv, NEW p \in Procs, End(p), spoiled \subseteq spoiled'
  PROVE  op' \in [Procs -> Operations] /\ CoursesRun'
<1>1. Idle \in Operations
  BY DEF Idle, Operations
<1>2. op \in [Procs -> Operations]
  BY DEF StoreInv, StoreTypeOK, Operations
<1>3. op' = [op EXCEPT ![p] = Idle]
  BY DEF End
<1>4. op' \in [Procs -> Operations]
  BY <1>1, <1>2, <1>3
<1>5. \A q \in Procs : op'[q] = Idle \/ op'[q] = op[q]
  BY <1>2, <1>3
<1>6. CoursesRun'
  BY <1>5 DEF StoreInv, CoursesRun, Course, Idle
<1> QED BY <1>4, <1>6

(* So does one that moves on along its course. *)
LEMMA MoveKeeps ==
  ASSUME StoreInv, NEW p \in Procs, NEW o \in Operations, op' = [op EXCEPT ![p] = o],
         spoiled' = spoiled, Course(o)
  PROVE  op' \in [Procs -> Operations] /\ CoursesRun'
<1>1. op \in [Procs -> Operations]
  BY DEF StoreInv, StoreTypeOK, Operations
<1>2. \A q \in Procs : op'[q] = IF q = p THEN o ELSE op[q]
  BY <1>1
<1>3. op' \in [Procs -> Operations]
  BY <1>1
<1>4. CoursesRun'
  <2>1. ASSUME NEW q \in Procs PROVE op'[q] = Idle \/ Course(op[q])'
    <3>1. CASE q = p
      <4>1. Course(o)'
        BY DEF Course
      <4> QED BY <1>2, <3>1, <4>1
    <3>2. CASE q # p
      BY <1>2, <3>2 DEF StoreInv, CoursesRun, Course
    <3> QED BY <3>1, <3>2
  <2> QED BY <2>1 DEF CoursesRun, Idle
<1> QED BY <1>3, <1>4

(* Moving on to another point of its course. *)
LEMMA GoToKeeps ==
  ASSUME StoreInv, NEW p \in Procs, NEW at, GoTo(p, at), op[p] # Idle, spoiled' = spoiled,
         \/ op[p].do \in {"put", "delete"} /\ at \in {"index", "write"}
         \/ op[p].do = "get" /\ at = "quarantine" /\ op[p].key \in spoiled
  PROVE  op' \in [Procs -> Operations] /\ CoursesRun'
<1> DEFINE o == [op[p] EXCEPT !.at = at]
<1>1. op \in [Procs -> Operations] /\ Course(op[p])
  BY DEF StoreInv, StoreTypeOK, CoursesRun, Operations
<1>2. op[p] \in Operations /\ at \in {"quarantine", "index", "write"}
  BY <1>1
<1>3. o \in Operations
  BY <1>2 DEF Operations
<1>4. /\ o.do = op[p].do /\ o.key = op[p].key /\ o.val = op[p].val
      /\ o.at = at
  BY <1>2 DEF Operations
<1>5. Course(o)
  BY <1>1, <1>4 DEF Course
<1>6. op' = [op EXCEPT ![p] = o]
  BY <1>1 DEF GoTo
<1> QED BY <1>3, <1>5, <1>6, MoveKeeps

LEMMA StoreKept == StoreInv /\ [StoreNext]_storeVars => StoreInv'
<1> SUFFICES ASSUME StoreInv, [StoreNext]_storeVars PROVE StoreInv'
  OBVIOUS
<1> DEFINE Counts == ops' \in 0..MaxOps /\ faults' \in 0..MaxFaults
           Disk == /\ file' \in [Keys -> Values \union {Absent, Torn}]
                   /\ index' \subseteq Keys /\ spoiled' \subseteq Keys /\ indexOk' \in BOOLEAN
                   /\ TornIsSpoiled'
           Course1 == op' \in [Procs -> Operations] /\ CoursesRun'
           Fetched == fetched' \in [Procs -> Values \union {Absent}]
           Flags == alone' \in BOOLEAN /\ broken' \in BOOLEAN
<1>1. SUFFICES Counts /\ Disk /\ Course1 /\ Fetched /\ Flags
  BY <1>1 DEF StoreInv, StoreTypeOK, Operations
<1>2. /\ file \in [Keys -> Values \union {Absent, Torn}]
      /\ index \subseteq Keys /\ spoiled \subseteq Keys /\ indexOk \in BOOLEAN
      /\ op \in [Procs -> Operations] /\ CoursesRun /\ TornIsSpoiled
      /\ fetched \in [Procs -> Values \union {Absent}]
      /\ alone \in BOOLEAN /\ broken \in BOOLEAN
      /\ ops \in 0..MaxOps /\ faults \in 0..MaxFaults
  BY DEF StoreInv, StoreTypeOK, Operations
<1>3. ASSUME NEW p \in Procs, NEW do \in {"put", "get", "delete", "clear"}, NEW k \in Keys,
             NEW v \in Values \union {Absent}, do = "put" => v \in Values, Begin(p, do, k, v)
      PROVE  Counts /\ Disk /\ Course1 /\ Fetched /\ Flags
  <2> DEFINE o == [do |-> do, at |-> "file", key |-> k, val |-> v, seen |-> {}]
  <2>1. o \in Operations
    BY DEF Operations
  <2>2. Course(o)
    BY <1>3 DEF Course
  <2>3. op' = [op EXCEPT ![p] = o] /\ spoiled' = spoiled
    BY <1>3 DEF Begin
  <2>4. Course1
    BY <2>1, <2>2, <2>3, MoveKeeps
  <2>5. Counts
    BY <1>2, <1>3, StoreAssumption DEF Begin
  <2>6. Disk /\ Fetched
    BY <1>2, <1>3 DEF Begin, disk, TornIsSpoiled
  <2>7. Flags
    BY <1>2, <1>3 DEF Begin
  <2> QED BY <2>4, <2>5, <2>6, <2>7
<1>4. ASSUME NEW p \in Procs, Call(p)
      PROVE  Counts /\ Disk /\ Course1 /\ Fetched /\ Flags
  BY <1>3, <1>4, StoreAssumption DEF Call
<1>5. ASSUME NEW p \in Procs, op[p] # Idle PROVE Course(op[p]) /\ op[p] \in Operations
  BY <1>2, <1>5 DEF CoursesRun
<1>6. ASSUME NEW p \in Procs, PutFile(p)
      PROVE  Counts /\ Disk /\ Course1 /\ Fetched /\ Flags
  <2>1. op[p] # Idle /\ op[p].do = "put" /\ GoTo(p, "index") /\ spoiled' = spoiled
    BY <1>6 DEF PutFile, Doing, Idle, history
  <2>2. op[p].key \in Keys /\ op[p].val \in Values
    BY <1>5, <2>1 DEF Course
  <2>3. Course1
    BY <2>1, GoToKeeps
  <2>4. Disk
    BY <1>2, <1>6, <2>2, StoreAssumption DEF PutFile, history, TornIsSpoiled
  <2> QED BY <1>2, <1>6, <2>3, <2>4 DEF PutFile, history
<1>7. ASSUME NEW p \in Procs, DeleteFile(p)
      PROVE  Counts /\ Disk /\ Course1 /\ Fetched /\ Flags
  <2>1. op[p] # Idle /\ op[p].do = "delete" /\ GoTo(p, "index") /\ spoiled' = spoiled
    BY <1>7 DEF DeleteFile, Doing, Idle, history
  <2>2. op[p].key \in Keys
    BY <1>5, <2>1 DEF Course
  <2>3. Course1
    BY <2>1, GoToKeeps
  <2>4. Disk
    BY <1>2, <1>7, <2>2, StoreAssumption DEF DeleteFile, history, TornIsSpoiled
  <2> QED BY <1>2, <1>7, <2>3, <2>4 DEF DeleteFile, history
<1>8. ASSUME NEW p \in Procs, Get(p)
      PROVE  Counts /\ Disk /\ Course1 /\ Fetched /\ Flags
  <2>1. op[p] # Idle /\ op[p].do = "get" /\ spoiled' = spoiled
    BY <1>8 DEF Get, Doing, Idle, history
  <2>2. op[p].key \in Keys
    BY <1>5, <2>1 DEF Course
  <2>3. Disk /\ Counts /\ Flags
    BY <1>2, <1>8 DEF Get, disk, history, TornIsSpoiled
  <2>4. CASE file[op[p].key] = Torn
    <3>1. GoTo(p, "quarantine") /\ fetched' = [fetched EXCEPT ![p] = Absent]
      BY <1>8, <2>4 DEF Get
    <3>2. op[p].key \in spoiled
      BY <1>2, <2>2, <2>4 DEF TornIsSpoiled
    <3>3. Course1
      BY <2>1, <3>1, <3>2, GoToKeeps
    <3> QED BY <1>2, <2>3, <3>1, <3>3
  <2>5. CASE file[op[p].key] # Torn
    <3>1. End(p) /\ fetched' = [fetched EXCEPT ![p] = file[op[p].key]]
      BY <1>8, <2>5 DEF Get
    <3>2. Course1
      BY <2>1, <3>1, EndKeeps
    <3>3. Fetched
      BY <1>2, <2>2, <2>5, <3>1
    <3> QED BY <2>3, <3>2, <3>3
  <2> QED BY <2>4, <2>5
<1>9. ASSUME NEW p \in Procs, Quarantine(p)
      PROVE  Counts /\ Disk /\ Course1 /\ Fetched /\ Flags
  <2>1. Course1
    BY <1>9, EndKeeps DEF Quarantine, history
  <2>2. Disk
    BY <1>2, <1>9, StoreAssumption DEF Quarantine, history, TornIsSpoiled
  <2> QED BY <1>2, <1>9, <2>1, <2>2 DEF Quarantine, history
<1>10. ASSUME NEW p \in Procs, ClearAll(p)
       PROVE  Counts /\ Disk /\ Course1 /\ Fetched /\ Flags
  <2>1. Course1
    BY <1>10, EndKeeps DEF ClearAll, history
  <2>2. Disk
    BY <1>2, <1>10, StoreAssumption DEF ClearAll, history, TornIsSpoiled
  <2> QED BY <1>2, <1>10, <2>1, <2>2 DEF ClearAll, history
<1>11. ASSUME NEW p \in Procs, ReadIndex(p)
       PROVE  Counts /\ Disk /\ Course1 /\ Fetched /\ Flags
  <2> DEFINE o(S) == [op[p] EXCEPT !.at = "write", !.seen = S]
  <2>1. op[p] # Idle /\ op[p].at = "index" /\ spoiled' = spoiled
    BY <1>11 DEF ReadIndex, Idle, history
  <2>2. op[p] \in Operations /\ Course(op[p]) /\ op[p].do \in {"put", "delete"}
    BY <1>5, <2>1 DEF Course
  <2>3. ASSUME NEW S \in SUBSET Keys, op' = [op EXCEPT ![p].at = "write", ![p].seen = S]
        PROVE  Course1
    <3>1. o(S) \in Operations
      BY <2>2 DEF Operations
    <3>2. /\ o(S).do = op[p].do /\ o(S).key = op[p].key /\ o(S).val = op[p].val
          /\ o(S).at = "write"
      BY <2>2 DEF Operations
    <3>3. Course(o(S))
      BY <2>2, <3>2 DEF Course
    <3>4. op' = [op EXCEPT ![p] = o(S)]
      BY <1>2, <2>3
    <3> HIDE DEF o
    <3> QED BY <2>1, <3>1, <3>3, <3>4, MoveKeeps
  <2>4. Entries \union {op[p].key} \in SUBSET Keys /\ index \ {op[p].key} \in SUBSET Keys
    BY <1>2, <2>2 DEF Entries, Stored, Course
  <2>5. Course1
    <3>1. CASE End(p)
      BY <2>1, <3>1, EndKeeps
    <3>2. CASE ~End(p)
      <4>1. \/ op' = [op EXCEPT ![p].at = "write", ![p].seen = Entries \union {op[p].key}]
            \/ op' = [op EXCEPT ![p].at = "write", ![p].seen = index \ {op[p].key}]
        BY <1>11, <3>2 DEF ReadIndex
      <4> QED BY <2>3, <2>4, <4>1
    <3> QED BY <3>1, <3>2
  <2>6. Disk
    BY <1>2, <1>11 DEF ReadIndex, disk, history, TornIsSpoiled
  <2> QED BY <1>2, <1>11, <2>5, <2>6 DEF ReadIndex, history
<1>12. ASSUME NEW p \in Procs, WriteIndex(p)
       PROVE  Counts /\ Disk /\ Course1 /\ Fetched /\ Flags
  <2>1. op[p] \in Operations
    BY <1>2
  <2>2. Course1
    BY <1>12, EndKeeps DEF WriteIndex, history
  <2>3. Disk
    BY <1>2, <1>12, <2>1 DEF WriteIndex, history, TornIsSpoiled, Operations
  <2> QED BY <1>2, <1>12, <2>2, <2>3 DEF WriteIndex, history
<1>13. ASSUME NEW p \in Procs, Refuse(p)
       PROVE  Counts /\ Disk /\ Course1 /\ Fetched /\ Flags
  <2>1. Course1
    BY <1>13, EndKeeps DEF Refuse
  <2>2. Disk
    BY <1>2, <1>13 DEF Refuse, disk, TornIsSpoiled
  <2>3. Fetched
    BY <1>2, <1>13 DEF Refuse
  <2>4. Counts
    BY <1>2, <1>13, StoreAssumption DEF Refuse
  <2>5. Flags
    BY <1>2, <1>13 DEF Refuse
  <2> QED BY <2>1, <2>2, <2>3, <2>4, <2>5
<1>14. ASSUME NEW k \in Keys, Damage(k)
       PROVE  Counts /\ Disk /\ Course1 /\ Fetched /\ Flags
  <2>1. Course1
    BY <1>2, <1>14 DEF Damage, CoursesRun, Course
  <2>2. Disk
    BY <1>2, <1>14 DEF Damage, TornIsSpoiled
  <2>3. Counts
    BY <1>2, <1>14, StoreAssumption DEF Damage
  <2> QED BY <1>2, <1>14, <2>1, <2>2, <2>3 DEF Damage
<1>15. CASE LoseIndex
  <2>1. Course1
    BY <1>2, <1>15 DEF LoseIndex, CoursesRun, Course, history
  <2>2. Disk
    BY <1>2, <1>15 DEF LoseIndex, TornIsSpoiled, history
  <2>3. Counts
    BY <1>2, <1>15, StoreAssumption DEF LoseIndex
  <2> QED BY <1>2, <1>15, <2>1, <2>2, <2>3 DEF LoseIndex, history
<1>16. CASE UNCHANGED storeVars
  BY <1>2, <1>16 DEF storeVars, CoursesRun, Course, TornIsSpoiled
<1> QED
  BY <1>4, <1>6, <1>7, <1>8, <1>9, <1>10, <1>11, <1>12, <1>13, <1>14, <1>15, <1>16 DEF StoreNext

LEMMA StoreInvHolds == StoreSpec => []StoreInv
<1> QED BY StoreAtFirst, StoreKept, PTL DEF StoreSpec

-----------------------------------------------------------------------------
(* The files as a map, in the terms of GoldenStore.                        *)
Map == [k \in Keys |-> IF file[k] = Torn THEN Absent ELSE file[k]]

Stutters == Map' = Map /\ spoiled' = spoiled /\ fetched' = fetched

LEMMA StoreInitRefines == StoreInit => Promise!Init
<1> SUFFICES ASSUME StoreInit PROVE Promise!Init
  OBVIOUS
<1>1. Map = [k \in Keys |-> Absent]
  BY DEF StoreInit, Map
<1>2. ASSUME NEW p \in Procs PROVE ~Doing(p, "clear", "file") /\ ~Doing(p, "delete", "file")
  BY <1>2 DEF StoreInit, Doing, Idle
<1>3. spoiled = {} /\ fetched = [p \in Procs |-> Absent]
  BY DEF StoreInit
<1> QED BY <1>1, <1>2, <1>3 DEF Promise!Init, Map

(* Every step is a step of the atomic map or leaves it alone: an entry is  *)
(* put where its file is replaced, read where its file is read, removed    *)
(* where it is unlinked; all work on the manifest is invisible.            *)
LEMMA StoreRefines ==
  StoreInv /\ [StoreNext]_storeVars => Promise!Next \/ Stutters
<1> SUFFICES ASSUME StoreInv, [StoreNext]_storeVars PROVE Promise!Next \/ Stutters
  OBVIOUS
<1>1. /\ file \in [Keys -> Values \union {Absent, Torn}]
      /\ fetched \in [Procs -> Values \union {Absent}]
      /\ CoursesRun /\ TornIsSpoiled
  BY DEF StoreInv, StoreTypeOK
<1>2. ASSUME NEW p \in Procs, op[p] # Idle PROVE Course(op[p])
  BY <1>1, <1>2 DEF CoursesRun
<1>3. ASSUME file' = file PROVE Map' = Map
  BY <1>3 DEF Map
<1>4. ASSUME NEW p \in Procs, Call(p) \/ ReadIndex(p) \/ WriteIndex(p) PROVE Stutters
  BY <1>3, <1>4 DEF Call, Begin, ReadIndex, WriteIndex, Stutters, disk, history
<1>5. ASSUME NEW p \in Procs, PutFile(p) PROVE Promise!Next
  <2>1. op[p].key \in Keys /\ op[p].val \in Values
    BY <1>2, <1>5 DEF PutFile, Doing, Idle, Course
  <2>2. PICK k \in Keys, v \in Values : k = op[p].key /\ v = op[p].val
    BY <2>1
  <2>3. Map' = [Map EXCEPT ![k] = v]
    BY <1>1, <1>5, <2>2, StoreAssumption DEF PutFile, Map
  <2>4. Promise!Put(k, v)
    BY <1>5, <2>3 DEF PutFile, Promise!Put, Map, history
  <2> QED BY <2>4 DEF Promise!Next
<1>6. ASSUME NEW p \in Procs, DeleteFile(p) PROVE Promise!Next
  <2>1. op[p].key \in Keys /\ Doing(p, "delete", "file")
    BY <1>2, <1>6 DEF DeleteFile, Doing, Idle, Course
  <2>2. PICK k \in Keys : k = op[p].key
    BY <2>1
  <2>3. Map' = [j \in Keys |-> IF j \in {k} THEN Absent ELSE Map[j]]
    BY <1>1, <1>6, <2>2, StoreAssumption DEF DeleteFile, Map
  <2>4. Promise!Remove({k})
    BY <1>6, <2>1, <2>2, <2>3 DEF DeleteFile, Promise!Remove, Map, history
  <2> QED BY <2>4 DEF Promise!Next
<1>7. ASSUME NEW p \in Procs, ClearAll(p) PROVE Promise!Next
  <2>1. Doing(p, "clear", "file")
    BY <1>7 DEF ClearAll
  <2>2. Map' = [k \in Keys |-> IF k \in Keys THEN Absent ELSE Map[k]]
    BY <1>7, StoreAssumption DEF ClearAll, Map
  <2>3. Promise!Remove(Keys)
    BY <1>7, <2>1, <2>2 DEF ClearAll, Promise!Remove, Map, history
  <2> QED BY <2>3 DEF Promise!Next
<1>8. ASSUME NEW p \in Procs, Get(p) PROVE Promise!Next
  <2>1. op[p].key \in Keys
    BY <1>2, <1>8 DEF Get, Doing, Idle, Course
  <2>2. Map' = Map /\ spoiled' = spoiled
    BY <1>3, <1>8 DEF Get, disk, history
  <2>3. CASE file[op[p].key] = Torn
    <3>1. fetched' = [fetched EXCEPT ![p] = Absent]
      BY <1>8, <2>3 DEF Get
    <3>2. Promise!Miss(p)
      BY <2>2, <3>1 DEF Promise!Miss, Map
    <3> QED BY <3>2 DEF Promise!Next
  <2>4. CASE file[op[p].key] # Torn
    <3>1. fetched' = [fetched EXCEPT ![p] = file[op[p].key]]
      BY <1>8, <2>4 DEF Get
    <3>2. PICK k \in Keys : k = op[p].key
      BY <2>1
    <3>3. Map[k] = file[op[p].key]
      BY <2>4, <3>2 DEF Map
    <3>4. Promise!Read(p, k)
      BY <2>2, <3>1, <3>3 DEF Promise!Read, Map
    <3> QED BY <3>4 DEF Promise!Next
  <2> QED BY <2>3, <2>4
<1>9. ASSUME NEW p \in Procs, Quarantine(p) PROVE Promise!Next
  <2>1. op[p].key \in Keys /\ op[p].key \in spoiled
    BY <1>2, <1>9 DEF Quarantine, Doing, Idle, Course
  <2>2. PICK k \in Keys : k = op[p].key
    BY <2>1
  <2>3. Map' = [Map EXCEPT ![k] = Absent]
    BY <1>1, <1>9, <2>2, StoreAssumption DEF Quarantine, Map
  <2>4. Promise!Forget(k)
    BY <1>9, <2>1, <2>2, <2>3 DEF Quarantine, Promise!Forget, Map, history
  <2> QED BY <2>4 DEF Promise!Next
<1>10. ASSUME NEW p \in Procs, Refuse(p) PROVE Promise!Next \/ Stutters
  <2>1. Map' = Map /\ spoiled' = spoiled
    BY <1>3, <1>10 DEF Refuse, disk
  <2>2. CASE Doing(p, "get", "file")
    <3>1. Promise!Miss(p)
      BY <1>10, <2>1, <2>2 DEF Refuse, Promise!Miss, Map
    <3> QED BY <3>1 DEF Promise!Next
  <2>3. CASE ~Doing(p, "get", "file")
    BY <1>10, <2>1, <2>3 DEF Refuse, Stutters
  <2> QED BY <2>2, <2>3
<1>11. ASSUME NEW k \in Keys, Damage(k) PROVE Promise!Next
  <2>1. Map' = [Map EXCEPT ![k] = Absent]
    BY <1>1, <1>11, StoreAssumption DEF Damage, Map
  <2>2. Promise!Spoil(k)
    BY <1>11, <2>1 DEF Damage, Promise!Spoil, Map
  <2> QED BY <2>2 DEF Promise!Next
<1>12. CASE LoseIndex
  BY <1>3, <1>12 DEF LoseIndex, Stutters, history
<1>13. CASE UNCHANGED storeVars
  BY <1>3, <1>13 DEF storeVars, Stutters
<1> QED
  BY <1>4, <1>5, <1>6, <1>7, <1>8, <1>9, <1>10, <1>11, <1>12, <1>13 DEF StoreNext

(* However the operations of several processes interleave, are cut short   *)
(* by refusals or deaths, and whatever becomes of the manifest, the cache  *)
(* is an atomic map to its readers (store.ts).                             *)
THEOREM StoreIsAtomicMap == StoreSpec => IsAtomicMap
<1>1. StoreInit => Promise!Init
  BY StoreInitRefines
<1>2. StoreInv /\ [StoreNext]_storeVars => [Promise!Next]_<<Map, spoiled, fetched>>
  BY StoreRefines DEF Stutters
<1> QED BY <1>1, <1>2, StoreInvHolds, PTL DEF StoreSpec, IsAtomicMap, Promise!Spec, Map

-----------------------------------------------------------------------------
(* Operations that never overlapped: at most one is under way. *)
OneAtATime == \A p, q \in Procs : op[p] # Idle /\ op[q] # Idle => p = q

(* The manifest accounts for the directory. *)
Accounts == Stored \subseteq Entries /\ Entries \ Stored \subseteq spoiled

(* It does so up to the key an operation under way is about: put has       *)
(* stored it and not listed it yet, delete has unlinked it and lists it    *)
(* still; and the manifest either is about to write accounts for it again. *)
BalanceOf(p) ==
  LET k == op[p].key
      S == op[p].seen
  IN
  /\ op[p].at = "write" => Stored \subseteq S /\ S \ Stored \subseteq spoiled
  /\ Doing(p, "put", "index") =>
       file[k] # Absent /\ Stored \subseteq Entries \union {k} /\ Entries \ Stored \subseteq spoiled
  /\ Doing(p, "delete", "index") =>
       file[k] = Absent /\ Stored \subseteq Entries /\ Entries \ Stored \subseteq spoiled \union {k}

Balance ==
  /\ \A p \in Procs : BalanceOf(p)
  /\ (\A p \in Procs : op[p].at \notin {"index", "write"}) => Accounts

ListInv == alone => OneAtATime /\ (~broken => Balance)

(* Balance is kept when the one operation under way moves on.              *)
LEMMA OneMoves ==
  ASSUME NEW p \in Procs, \A q \in Procs : q # p => op'[q] = Idle, BalanceOf(p)',
         op'[p].at \notin {"index", "write"} => Accounts'
  PROVE  OneAtATime' /\ Balance'
<1>1. ASSUME NEW q \in Procs PROVE BalanceOf(q)'
  <2>1. CASE q = p
    BY <2>1
  <2>2. CASE q # p
    <3>1. op'[q].at = "idle"
      BY <2>2 DEF Idle
    <3> QED BY <3>1 DEF BalanceOf, Doing
  <2> QED BY <2>1, <2>2
<1>2. OneAtATime'
  BY DEF OneAtATime, Idle
<1> QED BY <1>1, <1>2 DEF Balance

(* An operation that ends leaves an account behind, or nothing is owed.    *)
LEMMA LastEnds ==
  ASSUME StoreInv, OneAtATime, NEW p \in Procs, op[p] # Idle, End(p), Accounts'
  PROVE  OneAtATime' /\ Balance'
<1>1. op \in [Procs -> Operations]
  BY DEF StoreInv, StoreTypeOK, Operations
<1>2. \A q \in Procs : op'[q] = Idle
  BY <1>1 DEF End, OneAtATime
<1>3. BalanceOf(p)'
  BY <1>2 DEF BalanceOf, Doing, Idle
<1> QED BY <1>2, <1>3, OneMoves

LEMMA ListKept ==
  StoreInv /\ ListInv /\ [StoreNext]_storeVars => ListInv'
<1> SUFFICES ASSUME StoreInv, ListInv, [StoreNext]_storeVars, alone'
             PROVE  OneAtATime' /\ (~broken' => Balance')
  BY DEF ListInv
<1>1. /\ file \in [Keys -> Values \union {Absent, Torn}]
      /\ index \subseteq Keys /\ spoiled \subseteq Keys
      /\ op \in [Procs -> Operations]
      /\ CoursesRun /\ TornIsSpoiled
  BY DEF StoreInv, StoreTypeOK, Operations
<1>2. alone /\ (broken => broken')
  <2>1. CASE \E p \in Procs : Call(p)
    <3>1. PICK p, do, k, v : Begin(p, do, k, v)
      BY <2>1 DEF Call
    <3>2. alone' = (alone /\ \A q \in Procs : op[q] = Idle)
      BY <3>1 DEF Begin
    <3>3. broken' = broken
      BY <3>1 DEF Begin
    <3> QED BY <3>2, <3>3, Zenon
  <2>2. CASE \E p \in Procs : Refuse(p)
    BY <2>2, Zenon DEF Refuse
  <2>3. CASE alone' = alone /\ broken' = broken
    BY <2>3
  <2>4. \/ \E p \in Procs : Call(p) \/ Refuse(p)
        \/ alone' = alone /\ broken' = broken
    BY DEF StoreNext, PutFile, DeleteFile, Get, Quarantine, ClearAll, ReadIndex,
           WriteIndex, Damage, LoseIndex, history, storeVars
  <2> QED BY <2>1, <2>2, <2>3, <2>4
<1>3. OneAtATime /\ (~broken' => Balance)
  BY <1>2 DEF ListInv
<1>4. ASSUME NEW p \in Procs, op[p] # Idle
      PROVE  Course(op[p]) /\ op[p] \in Operations /\ \A q \in Procs : q # p => op[q] = Idle
  BY <1>1, <1>3, <1>4 DEF CoursesRun, OneAtATime
<1>5. ASSUME NEW p \in Procs, op[p] # Idle, op[p].at \notin {"index", "write"}, ~broken'
      PROVE  Accounts
  <2>1. \A q \in Procs : op[q].at \notin {"index", "write"}
    BY <1>4, <1>5 DEF Idle
  <2> QED BY <1>3, <1>5, <2>1 DEF Balance
<1>6. ASSUME NEW p \in Procs, NEW at, GoTo(p, at), op[p] # Idle
      PROVE  /\ \A q \in Procs : q # p => op'[q] = Idle
             /\ op'[p].do = op[p].do /\ op'[p].key = op[p].key /\ op'[p].seen = op[p].seen
             /\ op'[p].at = at
             /\ OneAtATime'
  <2>1. op' = [op EXCEPT ![p] = [op[p] EXCEPT !.at = at]]
    BY <1>1, <1>6 DEF GoTo
  <2>2. op'[p] = [op[p] EXCEPT !.at = at]
    BY <1>1, <2>1
  <2>3. \A q \in Procs : q # p => op'[q] = Idle
    BY <1>1, <1>4, <1>6, <2>1
  <2>4. op[p] \in Operations
    BY <1>1
  <2>5. /\ op'[p].do = op[p].do /\ op'[p].key = op[p].key /\ op'[p].seen = op[p].seen
        /\ op'[p].at = at
    BY <2>2, <2>4 DEF Operations
  <2>6. OneAtATime'
    BY <2>3 DEF OneAtATime, Idle
  <2> QED BY <2>3, <2>5, <2>6
<1>7. ASSUME NEW p \in Procs, op[p] # Idle, End(p) PROVE OneAtATime'
  <2>1. \A q \in Procs : op'[q] = Idle
    BY <1>1, <1>4, <1>7 DEF End
  <2> QED BY <2>1 DEF OneAtATime, Idle
<1>8. ASSUME file' = file PROVE Stored' = Stored
  BY <1>8 DEF Stored
<1>10. ASSUME NEW p \in Procs, Call(p) PROVE OneAtATime' /\ (~broken' => Balance')
  <2>1. PICK o : op' = [op EXCEPT ![p] = o] /\ o.at = "file" /\ UNCHANGED <<disk, broken, spoiled>>
    BY <1>10 DEF Call, Begin
  <2>2. \A q \in Procs : op[q] = Idle
    BY <1>10 DEF Call, Begin
  <2>3. \A q \in Procs : q # p => op'[q] = Idle
    BY <1>1, <2>1, <2>2
  <2>4. op'[p].at = "file"
    BY <1>1, <2>1
  <2>5. OneAtATime'
    BY <2>3 DEF OneAtATime, Idle
  <2>6. ASSUME ~broken' PROVE Balance'
    <3>1. \A q \in Procs : op[q].at \notin {"index", "write"}
      BY <2>2 DEF Idle
    <3>2. Accounts
      BY <1>3, <2>6, <3>1 DEF Balance
    <3>3. Accounts'
      BY <1>8, <2>1, <3>2 DEF Accounts, Entries, disk
    <3>4. BalanceOf(p)'
      BY <2>4 DEF BalanceOf, Doing
    <3> QED BY <2>3, <3>3, <3>4, OneMoves
  <2> QED BY <2>5, <2>6
<1>11. ASSUME NEW p \in Procs, PutFile(p) PROVE OneAtATime' /\ (~broken' => Balance')
  <2>1. op[p] # Idle /\ op[p].at = "file" /\ op[p].do = "put" /\ GoTo(p, "index")
    BY <1>11 DEF PutFile, Doing, Idle
  <2>2. op[p].key \in Keys /\ op[p].val \in Values
    BY <1>4, <2>1 DEF Course
  <2>3. file'[op[p].key] # Absent /\ Stored' = Stored \union {op[p].key}
    BY <1>1, <1>11, <2>2, StoreAssumption DEF PutFile, Stored
  <2>4. ASSUME ~broken' PROVE Balance'
    <3>1. Accounts
      BY <1>5, <2>1, <2>4
    <3>2. op'[p].at = "index" /\ op'[p].do = "put" /\ op'[p].key = op[p].key
      BY <1>6, <2>1
    <3>3. /\ Stored' \subseteq Entries' \union {op[p].key}
          /\ Entries' \ Stored' \subseteq spoiled'
      BY <1>11, <2>3, <3>1 DEF PutFile, history, Accounts, Entries
    <3>4. BalanceOf(p)'
      BY <2>3, <3>2, <3>3 DEF BalanceOf, Doing
    <3> QED BY <1>6, <2>1, <3>2, <3>4, OneMoves
  <2> QED BY <1>6, <2>1, <2>4
<1>12. ASSUME NEW p \in Procs, DeleteFile(p) PROVE OneAtATime' /\ (~broken' => Balance')
  <2>1. op[p] # Idle /\ op[p].at = "file" /\ op[p].do = "delete" /\ GoTo(p, "index")
    BY <1>12 DEF DeleteFile, Doing, Idle
  <2>2. op[p].key \in Keys
    BY <1>4, <2>1 DEF Course
  <2>3. file'[op[p].key] = Absent /\ Stored' = Stored \ {op[p].key}
    BY <1>1, <1>12, <2>2, StoreAssumption DEF DeleteFile, Stored
  <2>4. ASSUME ~broken' PROVE Balance'
    <3>1. Accounts
      BY <1>5, <2>1, <2>4
    <3>2. op'[p].at = "index" /\ op'[p].do = "delete" /\ op'[p].key = op[p].key
      BY <1>6, <2>1
    <3>3. /\ Stored' \subseteq Entries'
          /\ Entries' \ Stored' \subseteq spoiled' \union {op[p].key}
      BY <1>12, <2>3, <3>1 DEF DeleteFile, history, Accounts, Entries
    <3>4. BalanceOf(p)'
      BY <2>3, <3>2, <3>3 DEF BalanceOf, Doing
    <3> QED BY <1>6, <2>1, <3>2, <3>4, OneMoves
  <2> QED BY <1>6, <2>1, <2>4
<1>13. ASSUME NEW p \in Procs, Get(p) PROVE OneAtATime' /\ (~broken' => Balance')
  <2>1. op[p] # Idle /\ op[p].at = "file"
    BY <1>13 DEF Get, Doing, Idle
  <2>2. ASSUME ~broken' PROVE Accounts'
    <3>1. Accounts
      BY <1>5, <2>1, <2>2
    <3> QED BY <1>8, <1>13, <3>1 DEF Get, disk, history, Accounts, Entries
  <2>3. CASE GoTo(p, "quarantine")
    <3>1. op'[p].at = "quarantine" /\ OneAtATime' /\ \A q \in Procs : q # p => op'[q] = Idle
      BY <1>6, <2>1, <2>3
    <3>2. BalanceOf(p)'
      BY <3>1 DEF BalanceOf, Doing
    <3> QED BY <2>2, <3>1, <3>2, OneMoves
  <2>4. CASE End(p)
    BY <1>3, <1>7, <2>1, <2>2, <2>4, LastEnds
  <2> QED BY <1>13, <2>3, <2>4 DEF Get
<1>14. ASSUME NEW p \in Procs, Quarantine(p) PROVE OneAtATime' /\ (~broken' => Balance')
  <2>1. op[p] # Idle /\ op[p].at = "quarantine" /\ End(p)
    BY <1>14 DEF Quarantine, Doing, Idle
  <2>2. op[p].key \in Keys /\ op[p].key \in spoiled
    BY <1>4, <2>1 DEF Course
  <2>3. Stored' = Stored \ {op[p].key}
    BY <1>1, <1>14, <2>2, StoreAssumption DEF Quarantine, Stored
  <2>4. ASSUME ~broken' PROVE Accounts'
    <3>1. Accounts
      BY <1>5, <2>1, <2>4
    <3> QED BY <1>14, <2>2, <2>3, <3>1 DEF Quarantine, history, Accounts, Entries
  <2> QED BY <1>3, <1>7, <2>1, <2>4, LastEnds
<1>15. ASSUME NEW p \in Procs, ClearAll(p) PROVE OneAtATime' /\ (~broken' => Balance')
  <2>1. op[p] # Idle /\ End(p)
    BY <1>15 DEF ClearAll, Doing, Idle
  <2>2. Stored' = {} /\ Entries' = {}
    BY <1>15 DEF ClearAll, Stored, Entries
  <2>3. Accounts'
    BY <2>2 DEF Accounts
  <2> QED BY <1>3, <1>7, <2>1, <2>3, LastEnds
<1>16. ASSUME NEW p \in Procs, ReadIndex(p) PROVE OneAtATime' /\ (~broken' => Balance')
  <2>1. op[p] # Idle /\ op[p].at = "index"
    BY <1>16 DEF ReadIndex, Idle
  <2>2. op[p] \in Operations /\ Course(op[p]) /\ op[p].do \in {"put", "delete"}
    BY <1>4, <2>1 DEF Course
  <2>3. Stored' = Stored /\ Entries' = Entries /\ spoiled' = spoiled
    BY <1>8, <1>16 DEF ReadIndex, disk, history, Entries
  <2>4. ASSUME NEW S \in SUBSET Keys, op' = [op EXCEPT ![p].at = "write", ![p].seen = S]
        PROVE  /\ \A q \in Procs : q # p => op'[q] = Idle
               /\ op'[p].seen = S /\ op'[p].at = "write"
    <3>1. op' = [op EXCEPT ![p] = [op[p] EXCEPT !.at = "write", !.seen = S]]
      BY <1>1, <2>4
    <3>2. op'[p] = [op[p] EXCEPT !.at = "write", !.seen = S]
      BY <1>1, <3>1
    <3>3. op'[p].seen = S /\ op'[p].at = "write"
      BY <2>2, <3>2 DEF Operations
    <3> QED BY <1>1, <1>4, <2>1, <3>1, <3>3
  <2>5. ASSUME NEW S \in SUBSET Keys, op' = [op EXCEPT ![p].at = "write", ![p].seen = S],
               ~broken' => Stored \subseteq S /\ S \ Stored \subseteq spoiled
        PROVE  OneAtATime' /\ (~broken' => Balance')
    <3>1. op'[p].seen = S /\ op'[p].at = "write" /\ \A q \in Procs : q # p => op'[q] = Idle
      BY <2>4, <2>5
    <3>2. OneAtATime'
      BY <3>1 DEF OneAtATime, Idle
    <3>3. ASSUME ~broken' PROVE BalanceOf(p)'
      BY <2>3, <2>5, <3>1, <3>3 DEF BalanceOf, Doing
    <3> QED BY <3>1, <3>2, <3>3, OneMoves
  <2>6. ~broken' => BalanceOf(p)
    BY <1>3 DEF Balance
  <2>7. CASE op[p].do = "put"
    <3>1. op' = [op EXCEPT ![p].at = "write", ![p].seen = Entries \union {op[p].key}]
      BY <1>16, <2>7 DEF ReadIndex
    <3>2. PICK S \in SUBSET Keys : S = Entries \union {op[p].key}
      BY <1>1, <2>2 DEF Entries, Stored, Course
    <3>3. ~broken' => Stored \subseteq S /\ S \ Stored \subseteq spoiled
      BY <2>1, <2>2, <2>6, <2>7, <3>2 DEF BalanceOf, Doing, Stored, Course
    <3> QED BY <2>5, <3>1, <3>2, <3>3
  <2>8. CASE op[p].do = "delete" /\ indexOk /\ op[p].key \in index
    <3>1. op' = [op EXCEPT ![p].at = "write", ![p].seen = index \ {op[p].key}]
      BY <1>16, <2>8 DEF ReadIndex
    <3>2. PICK S \in SUBSET Keys : S = index \ {op[p].key}
      BY <1>1
    <3>3. ~broken' => Stored \subseteq S /\ S \ Stored \subseteq spoiled
      BY <2>1, <2>2, <2>6, <2>8, <3>2 DEF BalanceOf, Doing, Stored, Entries
    <3> QED BY <2>5, <3>1, <3>2, <3>3
  <2>9. CASE op[p].do = "delete" /\ ~(indexOk /\ op[p].key \in index)
    <3>1. End(p)
      BY <1>16, <2>9 DEF ReadIndex
    <3>2. ASSUME ~broken' PROVE Accounts'
      BY <2>1, <2>3, <2>6, <2>9, <3>2 DEF BalanceOf, Doing, Accounts, Entries
    <3> QED BY <1>3, <1>7, <2>1, <3>1, <3>2, LastEnds
  <2> QED BY <2>2, <2>7, <2>8, <2>9
<1>17. ASSUME NEW p \in Procs, WriteIndex(p) PROVE OneAtATime' /\ (~broken' => Balance')
  <2>1. op[p] # Idle /\ op[p].at = "write" /\ End(p)
    BY <1>17 DEF WriteIndex, Idle
  <2>2. Stored' = Stored /\ Entries' = op[p].seen /\ spoiled' = spoiled
    BY <1>8, <1>17 DEF WriteIndex, Entries, history
  <2>3. ASSUME ~broken' PROVE Accounts'
    BY <1>3, <2>1, <2>2, <2>3 DEF Balance, BalanceOf, Accounts
  <2> QED BY <1>3, <1>7, <2>1, <2>3, LastEnds
<1>18. ASSUME NEW p \in Procs, Refuse(p) PROVE OneAtATime' /\ (~broken' => Balance')
  <2>1. op[p] # Idle /\ End(p)
    BY <1>18 DEF Refuse
  <2>2. ASSUME ~broken' PROVE Accounts'
    <3>1. op[p].at \notin {"index", "write"}
      BY <1>18, <2>2 DEF Refuse
    <3>2. Accounts
      BY <1>5, <2>1, <2>2, <3>1
    <3> QED BY <1>8, <1>18, <3>2 DEF Refuse, disk, Accounts, Entries
  <2> QED BY <1>3, <1>7, <2>1, <2>2, LastEnds
<1>19. ASSUME op' = op, file' = file, spoiled \subseteq spoiled',
              Entries' = Entries \/ Entries' = Stored
       PROVE  OneAtATime' /\ (~broken' => Balance')
  <2>1. OneAtATime'
    BY <1>3, <1>19 DEF OneAtATime, Idle
  <2>2. ASSUME ~broken', NEW p \in Procs PROVE BalanceOf(p)'
    <3>1. BalanceOf(p)
      BY <1>3, <2>2 DEF Balance
    <3> QED BY <1>8, <1>19, <3>1 DEF BalanceOf, Doing
  <2>3. ASSUME ~broken' PROVE Balance'
    BY <1>3, <1>8, <1>19, <2>2, <2>3 DEF Balance, Accounts
  <2> QED BY <2>1, <2>3
<1>20. ASSUME NEW k \in Keys, Damage(k) PROVE OneAtATime' /\ (~broken' => Balance')
  <2>1. Stored' = Stored /\ \A j \in Keys : file'[j] = Absent <=> file[j] = Absent
    BY <1>1, <1>20, StoreAssumption DEF Damage, Stored
  <2>2. Entries' = Entries /\ op' = op /\ spoiled \subseteq spoiled'
    BY <1>20, <2>1 DEF Damage, Entries
  <2>3. OneAtATime'
    BY <1>3, <2>2 DEF OneAtATime, Idle
  <2>4. ASSUME ~broken', NEW p \in Procs PROVE BalanceOf(p)'
    <3>1. BalanceOf(p)
      BY <1>3, <2>4 DEF Balance
    <3>2. op[p] = Idle \/ op[p].key \in Keys
      BY <1>4 DEF Course
    <3> QED BY <2>1, <2>2, <3>1, <3>2 DEF BalanceOf, Doing, Idle
  <2>5. ASSUME ~broken' PROVE Balance'
    BY <1>3, <2>1, <2>2, <2>4, <2>5 DEF Balance, Accounts
  <2> QED BY <2>3, <2>5
<1>21. CASE LoseIndex
  <2>1. Entries' = Stored
    BY <1>8, <1>21 DEF LoseIndex, Entries
  <2> QED BY <1>19, <1>21, <2>1 DEF LoseIndex, history
<1>22. CASE UNCHANGED storeVars
  <2>1. Entries' = Entries
    BY <1>22 DEF storeVars, Entries, Stored
  <2> QED BY <1>19, <1>22, <2>1 DEF storeVars
<1> QED
  BY <1>10, <1>11, <1>12, <1>13, <1>14, <1>15, <1>16, <1>17, <1>18, <1>20, <1>21, <1>22 DEF StoreNext

(* list() is answered from a manifest that accounts for the directory, as  *)
(* long as operations did not overlap and none was cut short: it hides no  *)
(* stored entry, and an entry it lists that is not stored was damaged.     *)
THEOREM ManifestAccounts == StoreSpec => []ListAccounts
<1>1. StoreInit => ListInv
  <2> SUFFICES ASSUME StoreInit PROVE ListInv
    OBVIOUS
  <2>1. OneAtATime
    BY DEF StoreInit, OneAtATime
  <2>2. \A p \in Procs : BalanceOf(p)
    BY DEF StoreInit, BalanceOf, Doing, Idle
  <2>3. Accounts
    BY DEF StoreInit, Accounts, Entries
  <2> QED BY <2>1, <2>2, <2>3 DEF ListInv, Balance
<1>2. ListInv => ListAccounts
  <2> SUFFICES ASSUME ListInv, alone, ~broken, \A p \in Procs : op[p] = Idle PROVE Accounts
    BY DEF ListAccounts, Accounts
  <2> QED BY DEF ListInv, Balance, Idle
<1> QED BY <1>1, <1>2, ListKept, StoreInvHolds, PTL DEF StoreSpec

-----------------------------------------------------------------------------
(* The synthetic data generator. *)

(* No header twice in a row. *)
NoRepeat(s) == \A i \in 1..(Len(s) - 1) : s[i] # s[i + 1]

Sound(b) == b \in Batches /\ NoRepeat(b.headers)

GenCalls ==
  [shape : Shapes, explicit : BOOLEAN, caching : {"none", "read", "through"},
   wm : [apply : BOOLEAN, header : Headers \union {None}], free : BOOLEAN]

(* A generation may leave its batch unmarked just when its watermark is    *)
(* not applied, and one of documents gets as far as marking with documents *)
(* only: a batch that is none is never repaired.                           *)
CallSound ==
  gPc # "idle" =>
    /\ gCall \in GenCalls
    /\ gCall.free = ~gCall.wm.apply
    /\ gCall.wm.apply => gCall.wm.header \in Headers
    /\ gPc = "repairing" => gCall.shape # "documents"
    /\ gPc \in {"judging", "repairing", "marking", "writing", "through"} => Sound(gGot)
    /\ gPc = "marking" /\ gCall.shape = "documents" => gGot.form = "document"
    /\ gPc \in {"writing", "through"} => Marked(Kind(gCall.shape), gGot)

FilesSound ==
  /\ gFile \in [{"records", "documents"} -> Batches \union {None}]
  /\ \A k \in {"records", "documents"} : gFile[k] # None => Sound(gFile[k]) /\ Marked(k, gFile[k])

CacheSound ==
  /\ gCache \in [CacheKeys -> Batches \union {None}]
  /\ \A k \in CacheKeys : gCache[k] # None =>
       Sound(gCache[k]) /\ Marked(IF k = "documents" THEN k ELSE "records", gCache[k])

DataInv == CallSound /\ FilesSound /\ CacheSound

(* Marking puts a header in front of a document once. *)
LEMMA HeaderInFront ==
  ASSUME NEW s \in Seq(Headers), NEW h \in Headers, NoRepeat(s), s = <<>> \/ Head(s) # h
  PROVE  /\ <<h>> \o s \in Seq(Headers) /\ <<h>> \o s # <<>>
         /\ NoRepeat(<<h>> \o s)
<1> DEFINE t == <<h>> \o s
<1>1. t \in Seq(Headers) /\ Len(t) = Len(s) + 1 /\ t[1] = h /\ Len(s) \in Nat
  OBVIOUS
<1>2. \A i \in 1..Len(s) : t[i + 1] = s[i]
  OBVIOUS
<1>3. ASSUME NEW i \in 1..(Len(t) - 1) PROVE t[i] # t[i + 1]
  <2>1. CASE i = 1
    <3>1. s # <<>> /\ Head(s) = s[1] /\ t[2] = s[1]
      BY <1>1, <1>2, <2>1
    <3> QED BY <1>1, <2>1, <3>1
  <2>2. CASE i # 1
    <3>1. i - 1 \in 1..(Len(s) - 1) /\ i \in 1..Len(s) /\ i - 1 \in 1..Len(s)
      BY <1>1, <2>2
    <3>2. s[i - 1] # s[(i - 1) + 1]
      BY <3>1 DEF NoRepeat
    <3>3. t[(i - 1) + 1] = s[i - 1] /\ t[i + 1] = s[i]
      BY <1>2, <3>1
    <3> HIDE DEF t
    <3> QED BY <3>1, <3>2, <3>3
  <2> QED BY <2>1, <2>2
<1>4. t # <<>>
  BY <1>1
<1> QED BY <1>1, <1>3, <1>4 DEF NoRepeat

(* What marking makes of a batch. *)
LEMMA MarkingMarks ==
  ASSUME NEW call \in GenCalls, NEW b, Sound(b), call.free = ~call.wm.apply,
         call.wm.apply => call.wm.header \in Headers,
         call.shape = "documents" => b.form = "document",
         NEW c, c = [(IF call.wm.apply THEN WatermarkBatch(call, b) ELSE b) EXCEPT !.free = call.free]
  PROVE  Sound(c) /\ Marked(Kind(call.shape), c)
<1>1. /\ b.form \in {"plain", "object", "document"} /\ b.synthetic \in BOOLEAN
      /\ b.headers \in Seq(Headers) /\ b.free \in BOOLEAN /\ b \in Batches /\ NoRepeat(b.headers)
  BY DEF Sound, Batches
<1>2. call.free \in BOOLEAN /\ call.wm.apply \in BOOLEAN
  BY DEF GenCalls
<1>3. CASE ~call.wm.apply
  <2>1. c = [b EXCEPT !.free = call.free]
    BY <1>3
  <2>2. c \in Batches /\ c.headers = b.headers /\ c.free = TRUE
    BY <1>1, <1>2, <1>3, <2>1 DEF Batches
  <2> QED BY <1>1, <2>2 DEF Sound, Marked, NoRepeat
<1>4. CASE call.wm.apply /\ b.form = "plain"
  <2>1. c = [b EXCEPT !.free = call.free]
    BY <1>4 DEF WatermarkBatch
  <2>2. c \in Batches /\ c.headers = b.headers /\ c.form = "plain"
    BY <1>1, <1>2, <1>4, <2>1 DEF Batches
  <2>3. Kind(call.shape) # "documents"
    BY <1>4 DEF Kind
  <2> QED BY <1>1, <2>2, <2>3 DEF Sound, Marked, NoRepeat
<1>5. CASE call.wm.apply /\ b.form # "plain"
  <2>1. PICK kept \in BOOLEAN :
          kept = (call.shape # "documents" \/ (b.headers # <<>> /\ Head(b.headers) = call.wm.header))
    OBVIOUS
  <2>2. PICK hs : hs = IF kept THEN b.headers ELSE <<call.wm.header>> \o b.headers
    OBVIOUS
  <2>3. hs \in Seq(Headers) /\ NoRepeat(hs) /\ (call.shape = "documents" => hs # <<>>)
    <3>1. CASE kept
      BY <1>1, <2>1, <2>2, <3>1
    <3>2. CASE ~kept
      BY <1>1, <1>5, <2>1, <2>2, <3>2, HeaderInFront
    <3> QED BY <3>1, <3>2
  <2>4. c = [b EXCEPT !.synthetic = TRUE, !.headers = hs, !.free = call.free]
    BY <1>1, <1>5, <2>1, <2>2 DEF WatermarkBatch, Batches
  <2>5. c \in Batches /\ c.headers = hs /\ c.synthetic = TRUE
    BY <1>1, <1>2, <2>3, <2>4 DEF Batches
  <2> QED BY <2>3, <2>5 DEF Sound, Marked, NoRepeat, Kind
<1> QED BY <1>3, <1>4, <1>5

(* What a model answers, and what is made of a batch that was accepted.    *)
LEMMA AnswersSound == \A b \in Answers : Sound(b)
<1> SUFFICES ASSUME NEW b \in Answers PROVE Sound(b)
  OBVIOUS
<1>1. PICK f \in {"plain", "object", "document"}, h \in {<<>>, <<DefaultHeader>>} :
        b = [form |-> f, synthetic |-> FALSE, headers |-> h, free |-> FALSE]
  BY DEF Answers
<1>2. h \in Seq(Headers) /\ Len(h) \in {0, 1}
  <2>1. <<>> \in Seq(Headers) /\ Len(<<>>) = 0
    OBVIOUS
  <2>2. <<DefaultHeader>> \in Seq(Headers) /\ Len(<<DefaultHeader>>) = 1
    BY DataAssumption
  <2> QED BY <2>1, <2>2
<1> QED BY <1>1, <1>2 DEF Sound, NoRepeat, Batches

LEMMA NormalizedSound ==
  ASSUME NEW call \in GenCalls, NEW b, Sound(b), TRUE \in Accepted(call, b)
  PROVE  /\ Sound(Normalized(call, b))
         /\ call.shape = "documents" => Normalized(call, b).form = "document"
<1>1. b \in Batches /\ NoRepeat(b.headers)
  BY DEF Sound
<1>2. CASE call.shape = "documents"
  <2>1. b.form = "document"
    BY <1>2, Zenon DEF Accepted
  <2>2. PICK c : c = Normalized(call, b)
    OBVIOUS
  <2>3. c = [b EXCEPT !.synthetic = FALSE]
    BY <1>2, <2>2 DEF Normalized
  <2>4. c \in Batches /\ c.headers = b.headers /\ c.form = b.form
    BY <1>1, <2>3 DEF Batches
  <2> QED BY <1>1, <2>1, <2>2, <2>4 DEF Sound, NoRepeat
<1>3. CASE call.shape # "documents"
  BY <1>3 DEF Normalized
<1> QED BY <1>2, <1>3

LEMMA DataAtFirst == DataInit => DataInv
BY DEF DataInit, DataInv, CallSound, FilesSound, CacheSound

LEMMA DataKept == DataInv /\ [DataNext]_dataVars => DataInv'
<1> SUFFICES ASSUME DataInv, [DataNext]_dataVars PROVE DataInv'
  OBVIOUS
<1>1. CallSound /\ FilesSound /\ CacheSound
  BY DEF DataInv
<1>2. ASSUME gFile' = gFile PROVE FilesSound'
  BY <1>1, <1>2 DEF FilesSound, Sound, Marked, NoRepeat
<1>3. ASSUME gCache' = gCache PROVE CacheSound'
  BY <1>1, <1>3 DEF CacheSound, Sound, Marked, NoRepeat
<1>4. ASSUME GenerationEnds PROVE CallSound'
  BY <1>4 DEF GenerationEnds, CallSound
<1>5. CASE DataStart
  <2>1. FilesSound' /\ CacheSound'
    BY <1>2, <1>3, <1>5 DEF DataStart
  <2>2. CASE GenerationEnds
    BY <1>4, <2>1, <2>2 DEF DataInv
  <2>3. CASE ~GenerationEnds
    <3>1. PICK shape \in Shapes, explicit \in BOOLEAN, caching \in {"none", "read", "through"},
               requested \in BOOLEAN, section \in Settings \union {None}, valid \in BOOLEAN, killed \in BOOLEAN :
            LET settings == ResolveConfig(section, valid)
                wm == WatermarkDecision(requested, settings)
            IN
            /\ gCall' = [shape |-> shape, explicit |-> explicit /\ caching # "none", caching |-> caching, wm |-> wm,
                         free |-> ~requested /\ settings.allow]
            /\ gPc' = IF killed THEN "fallback" ELSE "asking"
      BY <1>5, <2>3 DEF DataStart
    <3>2. PICK settings : settings = ResolveConfig(section, valid)
      OBVIOUS
    <3>3. settings \in Settings
      BY <3>2, DataAssumption DEF ResolveConfig, Settings, Baked
    <3>4. settings.allow \in BOOLEAN /\ settings.header \in Headers
      BY <3>3 DEF Settings
    <3>5. PICK apply \in BOOLEAN, free \in BOOLEAN, named \in BOOLEAN :
            /\ apply = (requested \/ ~settings.allow)
            /\ free = (~requested /\ settings.allow)
            /\ named = (explicit /\ caching # "none")
      OBVIOUS
    <3>6. free = ~apply
      BY <3>4, <3>5
    <3>7. PICK header : header = IF apply THEN settings.header ELSE None
      OBVIOUS
    <3>8. gCall' = [shape |-> shape, explicit |-> named, caching |-> caching,
                    wm |-> [apply |-> apply, header |-> header], free |-> free]
      BY <3>1, <3>2, <3>5, <3>7 DEF WatermarkDecision
    <3>9. /\ gCall' \in GenCalls /\ gCall'.free = ~gCall'.wm.apply
          /\ gCall'.wm.apply => gCall'.wm.header \in Headers
      BY <3>4, <3>6, <3>7, <3>8 DEF GenCalls
    <3>10. gPc' \in {"fallback", "asking"}
      BY <3>1
    <3>11. CallSound'
      BY <3>9, <3>10 DEF CallSound
    <3> QED BY <2>1, <3>11 DEF DataInv
  <2> QED BY <2>2, <2>3
<1>6. CASE DataAttempt
  <2>1. FilesSound' /\ CacheSound'
    BY <1>2, <1>3, <1>6 DEF DataAttempt
  <2>2. \/ gPc' = "judging" /\ Sound(gGot)'
        \/ gPc' = "fallback"
    BY <1>6, AnswersSound DEF DataAttempt, Sound, NoRepeat
  <2>3. CallSound'
    BY <1>1, <1>6, <2>2 DEF DataAttempt, CallSound
  <2> QED BY <2>1, <2>3 DEF DataInv
<1>7. CASE DataReplay
  <2>1. FilesSound' /\ CacheSound'
    BY <1>2, <1>3, <1>7 DEF DataReplay
  <2>2. PICK hit : hit = IF gCall.caching = "none" THEN None ELSE gCache[CacheKey(gCall)]
    OBVIOUS
  <2>3. CASE GenerationEnds
    BY <1>4, <2>1, <2>3 DEF DataInv
  <2>4. CASE ~GenerationEnds
    <3>1. /\ hit # None /\ TRUE \in Accepted(gCall, hit)
          /\ gPc' = "marking" /\ gGot' = Normalized(gCall, hit) /\ gCall' = gCall
      BY <1>7, <2>2, <2>4 DEF DataReplay
    <3>2. gCall \in GenCalls
      BY <1>1, <1>7 DEF DataReplay, CallSound
    <3>3. CacheKey(gCall) \in CacheKeys
      BY <3>2 DEF CacheKey, CacheKeys, GenCalls
    <3>4. Sound(hit)
      BY <1>1, <2>2, <3>1, <3>3 DEF CacheSound
    <3>5. Sound(gGot)' /\ (gCall.shape = "documents" => gGot'.form = "document")
      BY <3>1, <3>2, <3>4, NormalizedSound DEF Sound, NoRepeat
    <3>6. CallSound'
      BY <1>1, <1>7, <3>1, <3>5 DEF DataReplay, CallSound
    <3> QED BY <2>1, <3>6 DEF DataInv
  <2> QED BY <2>3, <2>4
<1>8. CASE DataJudge
  <2>1. FilesSound' /\ CacheSound'
    BY <1>2, <1>3, <1>8 DEF DataJudge
  <2>2. gCall \in GenCalls /\ Sound(gGot)
    BY <1>1, <1>8 DEF DataJudge, CallSound
  <2>3. \/ TRUE \in Accepted(gCall, gGot) /\ gPc' = "marking" /\ gGot' = Normalized(gCall, gGot) /\ gCall' = gCall
        \/ GenerationEnds
        \/ gCall.shape # "documents" /\ gPc' = "repairing" /\ UNCHANGED <<gCall, gGot>>
    BY <1>8 DEF DataJudge
  <2>4. CASE GenerationEnds
    BY <1>4, <2>1, <2>4 DEF DataInv
  <2>5. CASE TRUE \in Accepted(gCall, gGot) /\ gPc' = "marking" /\ gGot' = Normalized(gCall, gGot) /\ gCall' = gCall
    <3>1. Sound(gGot)' /\ (gCall.shape = "documents" => gGot'.form = "document")
      BY <2>2, <2>5, NormalizedSound DEF Sound, NoRepeat
    <3>2. CallSound'
      BY <1>1, <1>8, <2>5, <3>1 DEF DataJudge, CallSound
    <3> QED BY <2>1, <3>2 DEF DataInv
  <2>6. CASE gCall.shape # "documents" /\ gPc' = "repairing" /\ UNCHANGED <<gCall, gGot>>
    <3>1. CallSound'
      BY <1>1, <1>8, <2>6 DEF DataJudge, CallSound, Sound, NoRepeat
    <3> QED BY <2>1, <3>1 DEF DataInv
  <2> QED BY <2>3, <2>4, <2>5, <2>6
<1>9. CASE DataRepair
  <2>1. FilesSound' /\ CacheSound'
    BY <1>2, <1>3, <1>9 DEF DataRepair
  <2>2. CASE GenerationEnds
    BY <1>4, <2>1, <2>2 DEF DataInv
  <2>3. CASE ~GenerationEnds
    <3>1. gPc = "repairing" /\ gPc' = "marking" /\ gCall' = gCall /\ Sound(gGot)'
      BY <1>9, <2>3, AnswersSound DEF DataRepair, Sound, NoRepeat
    <3>2. CallSound'
      BY <1>1, <3>1 DEF CallSound
    <3> QED BY <2>1, <3>2 DEF DataInv
  <2> QED BY <2>2, <2>3
<1>10. CASE DataMark
  <2>1. FilesSound' /\ CacheSound'
    BY <1>2, <1>3, <1>10 DEF DataMark
  <2>2. /\ gCall \in GenCalls /\ Sound(gGot) /\ gCall.free = ~gCall.wm.apply
        /\ gCall.wm.apply => gCall.wm.header \in Headers
        /\ gCall.shape = "documents" => gGot.form = "document"
        /\ gCall' = gCall /\ gPc' = "writing"
    BY <1>1, <1>10 DEF DataMark, CallSound
  <2>3. gGot' = [(IF gCall.wm.apply THEN WatermarkBatch(gCall, gGot) ELSE gGot) EXCEPT !.free = gCall.free]
    BY <1>10 DEF DataMark
  <2>4. Sound(gGot') /\ Marked(Kind(gCall.shape), gGot')
    BY <2>2, <2>3, MarkingMarks
  <2>5. CallSound'
    BY <2>2, <2>4 DEF CallSound, Sound, NoRepeat, Marked, Kind
  <2> QED BY <2>1, <2>5 DEF DataInv
<1>11. CASE DataWrite
  <2>1. /\ gCall \in GenCalls /\ Sound(gGot) /\ Marked(Kind(gCall.shape), gGot)
        /\ UNCHANGED <<gCall, gGot, gCache>> /\ gPc' = "through"
    BY <1>1, <1>11 DEF DataWrite, CallSound
  <2>2. CallSound'
    BY <1>1, <1>11, <2>1 DEF DataWrite, CallSound, Sound, NoRepeat, Marked, Kind
  <2>3. FilesSound'
    <3>1. CASE gFile' = [gFile EXCEPT ![Kind(gCall.shape)] = gGot]
      <4>1. PICK k \in {"records", "documents"} : k = Kind(gCall.shape)
        BY DEF Kind
      <4>2. \A j \in {"records", "documents"} : gFile'[j] = IF j = k THEN gGot ELSE gFile[j]
        BY <1>1, <3>1, <4>1 DEF FilesSound
      <4>3. gFile' \in [{"records", "documents"} -> Batches \union {None}]
        BY <1>1, <2>1, <3>1, <4>1 DEF FilesSound, Sound
      <4>4. \A j \in {"records", "documents"} : gFile'[j] # None => Sound(gFile'[j]) /\ Marked(j, gFile'[j])
        BY <1>1, <2>1, <4>1, <4>2 DEF FilesSound
      <4> QED BY <4>3, <4>4 DEF FilesSound, Sound, NoRepeat, Marked
    <3>2. CASE gFile' = gFile
      BY <1>2, <3>2
    <3> QED BY <1>11, <3>1, <3>2 DEF DataWrite
  <2> QED BY <1>3, <2>1, <2>2, <2>3 DEF DataInv
<1>12. CASE DataThrough
  <2>1. /\ gCall \in GenCalls /\ Sound(gGot) /\ Marked(Kind(gCall.shape), gGot)
        /\ gFile' = gFile /\ GenerationEnds
    BY <1>1, <1>12 DEF DataThrough, CallSound
  <2>2. CacheSound'
    <3>1. CASE gCache' = [gCache EXCEPT ![CacheKey(gCall)] = gGot]
      <4>1. PICK k \in CacheKeys : k = CacheKey(gCall) /\ (k = "documents" => gCall.shape = "documents")
        BY <2>1 DEF CacheKey, CacheKeys, GenCalls, Shapes
      <4>2. \A j \in CacheKeys : gCache'[j] = IF j = k THEN gGot ELSE gCache[j]
        BY <1>1, <3>1, <4>1 DEF CacheSound
      <4>3. gCache' \in [CacheKeys -> Batches \union {None}]
        BY <1>1, <2>1, <3>1, <4>1 DEF CacheSound, Sound
      <4>4. Marked(IF k = "documents" THEN k ELSE "records", gGot)
        BY <2>1, <4>1 DEF Marked, Kind
      <4>5. \A j \in CacheKeys : gCache'[j] # None =>
              Sound(gCache'[j]) /\ Marked(IF j = "documents" THEN j ELSE "records", gCache'[j])
        BY <1>1, <2>1, <4>2, <4>4 DEF CacheSound
      <4> QED BY <4>3, <4>5 DEF CacheSound, Sound, NoRepeat, Marked
    <3>2. CASE gCache' = gCache
      BY <1>3, <3>2
    <3> QED BY <1>12, <3>1, <3>2 DEF DataThrough
  <2> QED BY <1>2, <1>4, <2>1, <2>2 DEF DataInv
<1>13. CASE DataBreaks
  BY <1>2, <1>3, <1>4, <1>13 DEF DataBreaks, DataInv
<1>14. CASE UNCHANGED dataVars
  <2>1. CallSound'
    BY <1>1, <1>14 DEF dataVars, CallSound, Sound, NoRepeat, Marked, Kind
  <2> QED BY <1>2, <1>3, <1>14, <2>1 DEF dataVars, DataInv
<1> QED
  BY <1>5, <1>6, <1>7, <1>8, <1>9, <1>10, <1>11, <1>12, <1>13, <1>14 DEF DataNext

(* DATA-03: wherever a batch ends up, and however often it went through    *)
(* the cache, under whatever header and shape, its objects carry the flag  *)
(* and the texts of documents begin with a header, once; except for a      *)
(* generation that was allowed to leave them unmarked.                     *)
THEOREM DataIsMarked == DataSpec => []SyntheticMarked
<1>1. DataInv => SyntheticMarked
  <2> SUFFICES ASSUME DataInv PROVE SyntheticMarked
    OBVIOUS
  <2>1. DOMAIN gFile = {"records", "documents"}
    BY DEF DataInv, FilesSound
  <2>2. \A k \in DOMAIN gFile : gFile[k] # None => Marked(k, gFile[k])
    BY <2>1 DEF DataInv, FilesSound
  <2>3. \A k \in CacheKeys : gCache[k] # None => Marked(IF k = "documents" THEN k ELSE "records", gCache[k])
    BY DEF DataInv, CacheSound
  <2>4. gPc \in {"writing", "through"} => Marked(Kind(gCall.shape), gGot)
    BY DEF DataInv, CallSound
  <2> QED BY <2>2, <2>3, <2>4 DEF SyntheticMarked
<1> QED BY <1>1, DataAtFirst, DataKept, PTL DEF DataSpec

-----------------------------------------------------------------------------
(* The conversation buffer. *)

(* Ranks number the positions of a set without a hole, in their order.     *)
LEMMA Ranks ==
  ASSUME NEW n \in Nat, NEW I \in SUBSET (1..n)
  PROVE  /\ IsFiniteSet(I) /\ Cardinality(I) \in 0..n
         /\ \A i \in I : Rank(I, i) \in 1..Cardinality(I)
         /\ \A i, j \in I : i < j => Rank(I, i) < Rank(I, j)
         /\ \A k \in 1..Cardinality(I) : \E i \in I : Rank(I, i) = k
<1> DEFINE UpTo(i) == {j \in I : j <= i}
           c == Cardinality(I)
           f == [i \in I |-> Rank(I, i)]
<1>1. IsFiniteSet(1..n) /\ Cardinality(1..n) = n /\ \A i \in I : i \in Int
  BY FS_Interval
<1>2. IsFiniteSet(I) /\ c \in Nat /\ c <= n
  BY <1>1, FS_Subset, FS_CardinalityType
<1>3. \A i \in I : IsFiniteSet(UpTo(i)) /\ Cardinality(UpTo(i)) \in Nat /\ Cardinality(UpTo(i)) <= c
  BY <1>2, FS_Subset, FS_CardinalityType
<1>4. \A i \in I : Rank(I, i) \in 1..c
  <2> SUFFICES ASSUME NEW i \in I PROVE Cardinality(UpTo(i)) \in 1..c
    BY DEF Rank
  <2>1. i \in UpTo(i)
    BY <1>1
  <2>2. Cardinality(UpTo(i)) # 0
    BY <1>3, <2>1, FS_EmptySet
  <2> QED BY <1>2, <1>3, <2>2
<1>5. ASSUME NEW i \in I, NEW j \in I, i < j PROVE Rank(I, i) < Rank(I, j)
  <2>0. i \in Int /\ j \in Int
    BY <1>1
  <2>1. UpTo(i) \in SUBSET UpTo(j) /\ j \in UpTo(j) /\ j \notin UpTo(i)
    <3>1. \A x \in I : x <= i => x <= j
      BY <1>1, <1>5, <2>0
    <3>2. j <= j /\ ~(j <= i)
      BY <1>5, <2>0
    <3> QED BY <3>1, <3>2
  <2>2. UpTo(i) # UpTo(j)
    BY <2>1
  <2>3. Cardinality(UpTo(i)) <= Cardinality(UpTo(j)) /\ Cardinality(UpTo(i)) # Cardinality(UpTo(j))
    BY <1>3, <2>1, <2>2, FS_Subset
  <2> QED BY <1>3, <2>3 DEF Rank
<1>6. f \in Injection(I, 1..c)
  <2>1. f \in [I -> 1..c]
    BY <1>4
  <2>2. ASSUME NEW i \in I, NEW j \in I, f[i] = f[j] PROVE i = j
    <3>1. ~(i < j) /\ ~(j < i)
      <4>1. Rank(I, i) = Rank(I, j) /\ Rank(I, i) \in Int
        BY <1>2, <1>4, <2>2
      <4> QED BY <1>5, <4>1
    <3> QED BY <1>1, <3>1
  <2> QED BY <2>1, <2>2 DEF Injection, IsInjective
<1>7. IsFiniteSet(1..c) /\ Cardinality(1..c) = c
  BY <1>2, FS_Interval
<1>8. f \in Surjection(I, 1..c)
  BY <1>6, <1>7, FS_Injection
<1>9. \A k \in 1..c : \E i \in I : Rank(I, i) = k
  BY <1>8 DEF Surjection
<1> QED BY <1>2, <1>4, <1>5, <1>9

(* h lists I in order.                                                     *)
Lists(h, I) ==
  /\ h \in [1..Cardinality(I) -> I]
  /\ \A k, l \in 1..Cardinality(I) : k < l => h[k] < h[l]
  /\ \A i \in I : \E k \in 1..Cardinality(I) : h[k] = i

(* At(b, I) has the elements of b at I, each once and in their order.      *)
LEMMA AtLists ==
  ASSUME NEW S, NEW b \in Seq(S), NEW I \in SUBSET DOMAIN b
  PROVE  /\ At(b, I) \in Seq(S) /\ Len(At(b, I)) = Cardinality(I) /\ Cardinality(I) \in 0..Len(b)
         /\ \E h : Lists(h, I) /\ At(b, I) = [k \in 1..Cardinality(I) |-> b[h[k]]]
<1> DEFINE c == Cardinality(I)
           h == [k \in 1..c |-> CHOOSE i \in I : Rank(I, i) = k]
<1>1. DOMAIN b = 1..Len(b) /\ Len(b) \in Nat /\ \A i \in DOMAIN b : b[i] \in S
  OBVIOUS
<1>2. /\ c \in 0..Len(b)
      /\ \A i \in I : Rank(I, i) \in 1..c
      /\ \A i, j \in I : i < j => Rank(I, i) < Rank(I, j)
      /\ \A k \in 1..c : \E i \in I : Rank(I, i) = k
  BY <1>1, Ranks
<1>3. \A k \in 1..c : h[k] \in I /\ Rank(I, h[k]) = k
  BY <1>2
<1>4. At(b, I) = [k \in 1..c |-> b[h[k]]]
  BY DEF At
<1> HIDE DEF h
<1>5. \A i \in I : i \in Int
  BY <1>1
<1>6. ASSUME NEW k \in 1..c, NEW l \in 1..c, k < l PROVE h[k] < h[l]
  <2>1. h[k] # h[l]
    BY <1>3, <1>6
  <2>2. ~(h[l] < h[k])
    BY <1>2, <1>3, <1>6
  <2> QED BY <1>3, <1>5, <2>1, <2>2
<1>7. ASSUME NEW i \in I PROVE \E k \in 1..c : h[k] = i
  <2>1. Rank(I, i) \in 1..c
    BY <1>2
  <2>2. Rank(I, h[Rank(I, i)]) = Rank(I, i) /\ h[Rank(I, i)] \in I
    BY <1>3, <2>1
  <2>3. h[Rank(I, i)] = i
    BY <1>2, <1>5, <2>2
  <2> QED BY <2>1, <2>3
<1>8. h \in [1..c -> I]
  BY <1>3 DEF h
<1>9. Lists(h, I)
  BY <1>6, <1>7, <1>8 DEF Lists
<1>10. At(b, I) \in Seq(S) /\ Len(At(b, I)) = c
  <2>1. c \in Nat
    BY <1>1, <1>2
  <2>2. \A k \in 1..c : b[h[k]] \in S
    BY <1>1, <1>3
  <2> QED BY <1>4, <2>1, <2>2
<1> QED BY <1>2, <1>4, <1>9, <1>10

-----------------------------------------------------------------------------
(* What tokens there are, and what some, fewer or more messages cost.      *)
Costly(b, n) == \A i \in 1..n : b[i].cost \in Nat

LEMMA TokenOf ==
  ASSUME NEW b, NEW I, NEW t
  PROVE  t \in Tokens(b, I) <=> \E i \in I : \E k \in 1..b[i].cost : t = <<i, k>>
BY DEF Tokens

LEMMA CostIsNat ==
  ASSUME NEW n \in Nat, NEW b, Costly(b, n), NEW I \in SUBSET (1..n)
  PROVE  IsFiniteSet(Tokens(b, I)) /\ CostOf(b, I) \in Nat
<1> DEFINE T(i) == {i} \X (1..b[i].cost)
           TT == {T(i) : i \in I}
           f == [i \in I |-> T(i)]
<1>0. IsFiniteSet(1..n)
  BY FS_Interval
<1>1. IsFiniteSet(I)
  BY <1>0, FS_Subset
<1>2. \A i \in I : IsFiniteSet(T(i))
  <2> SUFFICES ASSUME NEW i \in I PROVE IsFiniteSet(T(i))
    OBVIOUS
  <2>1. PICK c \in Nat : c = b[i].cost
    BY DEF Costly
  <2>2. IsFiniteSet(1..c)
    BY <2>1, FS_Interval
  <2>3. IsFiniteSet({i})
    BY FS_Singleton
  <2> QED BY <2>1, <2>2, <2>3, FS_Product
<1>3. f \in Surjection(I, TT)
  BY DEF Surjection
<1>4. IsFiniteSet(TT)
  BY <1>1, <1>3, FS_Surjection
<1>5. IsFiniteSet(UNION TT)
  BY <1>2, <1>4, FS_UNION
<1>6. Tokens(b, I) = UNION TT
  BY DEF Tokens
<1> QED BY <1>5, <1>6, FS_CardinalityType DEF CostOf

LEMMA CostOfFewer ==
  ASSUME NEW n \in Nat, NEW b, Costly(b, n), NEW I \in SUBSET (1..n), NEW J \in SUBSET I
  PROVE  CostOf(b, J) <= CostOf(b, I)
<1>1. Tokens(b, J) \in SUBSET Tokens(b, I)
  BY DEF Tokens
<1> QED BY <1>1, CostIsNat, FS_Subset DEF CostOf

LEMMA CostOfBoth ==
  ASSUME NEW n \in Nat, NEW b, Costly(b, n), NEW I \in SUBSET (1..n), NEW J \in SUBSET (1..n)
  PROVE  CostOf(b, I \union J) <= CostOf(b, I) + CostOf(b, J)
<1>1. Tokens(b, I \union J) = Tokens(b, I) \union Tokens(b, J)
  BY TokenOf
<1>2. /\ IsFiniteSet(Tokens(b, I)) /\ CostOf(b, I) \in Nat
      /\ IsFiniteSet(Tokens(b, J)) /\ CostOf(b, J) \in Nat
  BY CostIsNat
<1>3. IsFiniteSet(Tokens(b, I) \intersect Tokens(b, J))
  BY <1>2, FS_Subset
<1>4. Cardinality(Tokens(b, I) \intersect Tokens(b, J)) \in Nat
  BY <1>3, FS_CardinalityType
<1>5. CostOf(b, I \union J) =
        CostOf(b, I) + CostOf(b, J) - Cardinality(Tokens(b, I) \intersect Tokens(b, J))
  BY <1>1, <1>2, FS_Union DEF CostOf
<1> QED BY <1>2, <1>4, <1>5

(* Messages cost no more for being moved together.                         *)
LEMMA CostOfPicked ==
  ASSUME NEW S, NEW b \in Seq(S), Costly(b, Len(b)), NEW I \in SUBSET DOMAIN b
  PROVE  Total(At(b, I)) <= CostOf(b, I)
<1> DEFINE r == At(b, I)
           c == Cardinality(I)
<1>1. PICK h : Lists(h, I) /\ r = [k \in 1..c |-> b[h[k]]]
  BY AtLists
<1>2. h \in [1..c -> I] /\ c \in Nat /\ \A i \in I : i \in Int
  BY <1>1, AtLists DEF Lists
<1>3. DOMAIN r = 1..c /\ \A k \in 1..c : r[k] = b[h[k]]
  BY <1>1
<1> HIDE DEF r
<1>4. \A k, l \in 1..c : h[k] = h[l] => k = l
  <2> SUFFICES ASSUME NEW k \in 1..c, NEW l \in 1..c, h[k] = h[l] PROVE k = l
    OBVIOUS
  <2>1. ~(k < l) /\ ~(l < k)
    BY <1>1, <1>2 DEF Lists
  <2> QED BY <2>1
<1> DEFINE T == Tokens(r, DOMAIN r)
           f == [t \in T |-> <<h[t[1]], t[2]>>]
<1>5. \A t \in T : t[1] \in 1..c /\ t[2] \in 1..b[h[t[1]]].cost /\ t = <<t[1], t[2]>>
  <2> SUFFICES ASSUME NEW t \in T
               PROVE  t[1] \in 1..c /\ t[2] \in 1..b[h[t[1]]].cost /\ t = <<t[1], t[2]>>
    OBVIOUS
  <2>0. \E i \in DOMAIN r : \E k \in 1..r[i].cost : t = <<i, k>>
    BY TokenOf
  <2>1. PICK i \in 1..c : \E k \in 1..r[i].cost : t = <<i, k>>
    BY <1>3, <2>0
  <2>2. r[i].cost = b[h[i]].cost
    BY <1>3
  <2> QED BY <2>1, <2>2
<1>6. \A t \in T : f[t] \in Tokens(b, I)
  BY <1>2, <1>5, TokenOf
<1>7. \A t, u \in T : f[t] = f[u] => t = u
  BY <1>4, <1>5
<1>8. f \in Injection(T, Tokens(b, I))
  BY <1>6, <1>7 DEF Injection, IsInjective
<1>9. IsFiniteSet(Tokens(b, I))
  BY CostIsNat
<1> QED BY <1>8, <1>9, FS_Injection DEF CostOf, Total, r

-----------------------------------------------------------------------------
(* A set of positions has a first one.                                     *)
LEMMA LeastPosition ==
  ASSUME NEW n \in Nat, NEW I \in SUBSET (1..n), I # {}
  PROVE  \E i \in I : \A j \in I : i <= j
<1>1. /\ IsFiniteSet(I) /\ Cardinality(I) \in 0..n
      /\ \A i \in I : Rank(I, i) \in 1..Cardinality(I)
      /\ \A i, j \in I : i < j => Rank(I, i) < Rank(I, j)
      /\ \A k \in 1..Cardinality(I) : \E i \in I : Rank(I, i) = k
  BY Ranks
<1>2. Cardinality(I) # 0
  BY <1>1, FS_EmptySet
<1>3. PICK i \in I : Rank(I, i) = 1
  BY <1>1, <1>2
<1>4. ASSUME NEW j \in I PROVE i <= j
  <2>1. ~(j < i)
    BY <1>1, <1>3
  <2> QED BY <2>1
<1> QED BY <1>4

(* F is a newest part of E, without holes.                                 *)
Newest(F, E) == F \subseteq E /\ \A i \in F, j \in E : i < j => j \in F

(* Newest first as long as they fit: they fit together, because those from *)
(* the oldest one on do.                                                   *)
LEMMA FitIsNewest ==
  ASSUME NEW n \in Nat, NEW b, Costly(b, n), NEW C \in SUBSET (1..n), NEW room \in Nat
  PROVE  /\ Newest(FitFromNewest(b, C, room), C)
         /\ CostOf(b, FitFromNewest(b, C, room)) <= room
<1> DEFINE From(i) == {j \in C : j >= i}
           F == FitFromNewest(b, C, room)
<1>1. \A i : From(i) \in SUBSET C
  OBVIOUS
<1>2. \A i : CostOf(b, From(i)) \in Nat
  BY <1>1, CostIsNat
<1>3. F \in SUBSET C /\ \A i \in C : i \in F <=> CostOf(b, From(i)) <= room
  BY DEF FitFromNewest
<1> HIDE DEF F
<1>4. ASSUME NEW i \in F, NEW j \in C, i < j PROVE j \in F
  <2>1. i \in Int /\ j \in Int /\ \A k \in C : k \in Int
    BY <1>3
  <2>2. From(j) \in SUBSET From(i)
    <3>1. \A k \in C : k >= j => k >= i
      BY <1>4, <2>1
    <3> QED BY <3>1
  <2>3. CostOf(b, From(j)) <= CostOf(b, From(i))
    BY <1>1, <2>2, CostOfFewer
  <2>4. CostOf(b, From(i)) <= room
    BY <1>3
  <2>5. CostOf(b, From(j)) <= room
    BY <1>2, <2>3, <2>4
  <2> QED BY <1>3, <2>5
<1>5. CostOf(b, F) <= room
  <2>1. CASE F = {}
    <3>1. CostOf(b, F) = 0
      BY <2>1, FS_EmptySet DEF CostOf, Tokens
    <3> QED BY <3>1
  <2>2. CASE F # {}
    <3>1. PICK i \in F : \A j \in F : i <= j
      BY <1>3, <2>2, LeastPosition
    <3>2. F \in SUBSET From(i)
      BY <1>3, <3>1
    <3>3. CostOf(b, F) <= CostOf(b, From(i)) /\ CostOf(b, F) \in Nat
      BY <1>1, <1>3, <3>2, CostOfFewer, CostIsNat
    <3>4. CostOf(b, From(i)) <= room
      BY <1>3
    <3> QED BY <1>2, <3>3, <3>4
  <2> QED BY <2>1, <2>2
<1> QED BY <1>3, <1>4, <1>5 DEF Newest, F

LEMMA LastNIsNewest ==
  ASSUME NEW n \in Nat, NEW C \in SUBSET (1..n), NEW k \in Nat
  PROVE  Newest(LastN(C, k), C)
<1> DEFINE Above(i) == {j \in C : j > i}
<1>1. IsFiniteSet(C)
  BY Ranks
<1>2. \A i : IsFiniteSet(Above(i)) /\ Cardinality(Above(i)) \in Nat
  BY <1>1, FS_Subset, FS_CardinalityType
<1>3. ASSUME NEW i \in LastN(C, k), NEW j \in C, i < j PROVE j \in LastN(C, k)
  <2>1. i \in Int /\ j \in Int /\ \A l \in C : l \in Int
    BY DEF LastN
  <2>2. Above(j) \in SUBSET Above(i)
    <3>1. \A l \in C : l > j => l > i
      BY <1>3, <2>1
    <3> QED BY <3>1
  <2>3. Cardinality(Above(j)) <= Cardinality(Above(i))
    BY <1>2, <2>2, FS_Subset
  <2>4. Cardinality(Above(i)) < k
    BY DEF LastN
  <2>5. Cardinality(Above(j)) < k
    BY <1>2, <2>3, <2>4
  <2> QED BY <2>5 DEF LastN
<1> QED BY <1>3 DEF Newest, LastN

(* What either strategy retains: the pinned messages and a newest part of  *)
(* the others, within the budget.                                          *)
LEMMA RetainedIs ==
  ASSUME NEW S, NEW b \in Seq(S), Costly(b, Len(b)), NEW strategy \in Strategies,
         NEW budget \in Nat, CostOf(b, Pinned(b)) <= budget
  PROVE  /\ Retained(b, strategy, budget) \in SUBSET DOMAIN b
         /\ Pinned(b) \subseteq Retained(b, strategy, budget)
         /\ Newest(Retained(b, strategy, budget) \ Pinned(b), DOMAIN b \ Pinned(b))
         /\ CostOf(b, Retained(b, strategy, budget)) <= budget
<1> DEFINE n == Len(b)
           P == Pinned(b)
           E == DOMAIN b \ P
           C == Candidates(b, strategy)
           room == budget - CostOf(b, P)
           F == FitFromNewest(b, C, room)
           K == Retained(b, strategy, budget)
<1>1. n \in Nat /\ DOMAIN b = 1..n /\ P \in SUBSET (1..n) /\ E \in SUBSET (1..n)
  BY DEF Pinned
<1>2. CostOf(b, P) \in Nat /\ room \in Nat
  BY <1>1, CostIsNat
<1>3. Newest(C, E)
  <2>1. CASE strategy.name = "keep-last-n"
    <3>1. strategy.n \in Nat
      BY <2>1, ContextAssumption DEF Strategies
    <3>2. C = LastN(E, strategy.n)
      BY <2>1 DEF Candidates
    <3> QED BY <1>1, <3>1, <3>2, LastNIsNewest
  <2>2. CASE strategy.name # "keep-last-n"
    <3>1. C = E
      BY <2>2 DEF Candidates
    <3> QED BY <3>1 DEF Newest
  <2> QED BY <2>1, <2>2
<1> HIDE DEF C, room
<1>4. C \in SUBSET (1..n)
  BY <1>1, <1>3 DEF Newest
<1>5. Newest(F, C) /\ CostOf(b, F) <= room
  BY <1>1, <1>2, <1>4, FitIsNewest
<1> HIDE DEF F
<1>6. CASE Total(b) <= budget
  <2>1. K = DOMAIN b /\ CostOf(b, K) <= budget
    BY <1>6 DEF Retained, Total
  <2> QED BY <1>1, <2>1 DEF Newest
<1>7. CASE ~(Total(b) <= budget)
  <2>1. K = P \union F
    BY <1>7 DEF Retained, F, C, room
  <2>2. F \in SUBSET (1..n) /\ Newest(F, E) /\ F \subseteq E
    BY <1>3, <1>4, <1>5 DEF Newest
  <2>3. K \ P = F
    BY <2>1, <2>2
  <2>4. CostOf(b, K) <= CostOf(b, P) + CostOf(b, F)
    BY <1>1, <2>1, <2>2, CostOfBoth
  <2>5. CostOf(b, F) \in Nat /\ CostOf(b, K) \in Nat
    BY <1>1, <2>1, <2>2, CostIsNat
  <2>6. CostOf(b, K) <= budget
    BY <1>2, <1>5, <2>4, <2>5 DEF room
  <2> QED BY <1>1, <2>1, <2>2, <2>3, <2>6
<1> QED BY <1>6, <1>7

-----------------------------------------------------------------------------
Holds(b, m) == \E i \in DOMAIN b : b[i] = m

(* b is what is left of conversation s: some of it in its order, with all  *)
(* that is pinned and a newest part, without holes, of what is not.        *)
WhatIsLeft(s, b) ==
  /\ b \in Seq(Messages)
  /\ \A i, j \in DOMAIN b : i < j => b[i].id < b[j].id
  /\ \A i \in DOMAIN b : b[i].id \in DOMAIN s /\ b[i] = s[b[i].id]
  /\ \A i \in DOMAIN s : s[i].valid /\ s[i].pinned => Holds(b, s[i])
  /\ \A i, j \in DOMAIN s :
       i < j /\ ~s[j].pinned /\ s[j].valid /\ ~s[i].pinned /\ Holds(b, s[i]) => Holds(b, s[j])

(* A conversation numbers its messages.                                    *)
Conversation(s) == s \in Seq(Messages) /\ \A i \in DOMAIN s : s[i].id = i

Valid(b) == \A i \in DOMAIN b : b[i].valid

(* A message that is said and appended is part of what is left.            *)
LEMMA AppendKeeps ==
  ASSUME NEW s, Conversation(s), NEW b, WhatIsLeft(s, b),
         NEW m \in Messages, m.id = Len(s) + 1
  PROVE  Conversation(Append(s, m)) /\ WhatIsLeft(Append(s, m), Append(b, m))
<1> DEFINE ss == Append(s, m)
           bb == Append(b, m)
<1>1. /\ s \in Seq(Messages) /\ DOMAIN s = 1..Len(s) /\ Len(s) \in Nat
      /\ b \in Seq(Messages) /\ DOMAIN b = 1..Len(b) /\ Len(b) \in Nat
  BY DEF Conversation, WhatIsLeft
<1>2. /\ ss \in Seq(Messages) /\ DOMAIN ss = 1..(Len(s) + 1)
      /\ ss[Len(s) + 1] = m /\ \A i \in DOMAIN s : ss[i] = s[i]
      /\ bb \in Seq(Messages) /\ DOMAIN bb = 1..(Len(b) + 1)
      /\ bb[Len(b) + 1] = m /\ \A i \in DOMAIN b : bb[i] = b[i]
  BY <1>1
<1>3. /\ \A i \in DOMAIN ss : i \in DOMAIN s \/ i = Len(s) + 1
      /\ \A i \in DOMAIN bb : i \in DOMAIN b \/ i = Len(b) + 1
      /\ DOMAIN s \subseteq DOMAIN ss /\ Len(s) + 1 \in DOMAIN ss
      /\ DOMAIN b \subseteq DOMAIN bb /\ Len(b) + 1 \in DOMAIN bb
  BY <1>1, <1>2
<1> HIDE DEF ss, bb
<1>4. Conversation(ss)
  BY <1>2, <1>3 DEF Conversation
<1>5. \A i \in DOMAIN s : i < Len(s) + 1 /\ i \in Nat
  BY <1>1
<1>6. \A i \in DOMAIN b : b[i].id \in DOMAIN s /\ b[i] = s[b[i].id]
  BY DEF WhatIsLeft
<1>7. ASSUME NEW i \in DOMAIN bb, NEW j \in DOMAIN bb, i < j PROVE bb[i].id < bb[j].id
  <2>1. i \in DOMAIN b
    BY <1>1, <1>2, <1>7
  <2>2. CASE j \in DOMAIN b
    BY <1>2, <1>7, <2>1, <2>2 DEF WhatIsLeft
  <2>3. CASE j = Len(b) + 1
    <3>1. bb[j].id = Len(s) + 1 /\ bb[i].id = b[i].id
      BY <1>2, <2>1, <2>3
    <3> QED BY <1>5, <1>6, <2>1, <3>1
  <2> QED BY <1>3, <2>2, <2>3
<1>8. ASSUME NEW i \in DOMAIN bb PROVE bb[i].id \in DOMAIN ss /\ bb[i] = ss[bb[i].id]
  BY <1>2, <1>3, <1>6
<1>9. \A i \in DOMAIN s : Holds(b, s[i]) <=> Holds(bb, ss[i])
  <2> SUFFICES ASSUME NEW i \in DOMAIN s PROVE Holds(b, s[i]) <=> Holds(bb, ss[i])
    OBVIOUS
  <2>1. ss[i] = s[i] /\ m # s[i]
    BY <1>2, <1>5 DEF Conversation
  <2> QED BY <1>2, <1>3, <2>1 DEF Holds
<1>10. Holds(bb, ss[Len(s) + 1])
  BY <1>2, <1>3 DEF Holds
<1>11. ASSUME NEW i \in DOMAIN ss, ss[i].valid, ss[i].pinned PROVE Holds(bb, ss[i])
  <2>1. CASE i \in DOMAIN s
    BY <1>2, <1>9, <1>11, <2>1 DEF WhatIsLeft
  <2> QED BY <1>3, <1>10, <2>1
<1>12. ASSUME NEW i \in DOMAIN ss, NEW j \in DOMAIN ss, i < j,
              ~ss[j].pinned, ss[j].valid, ~ss[i].pinned, Holds(bb, ss[i])
       PROVE  Holds(bb, ss[j])
  <2>1. CASE j \in DOMAIN s
    <3>1. i \in DOMAIN s
      BY <1>1, <1>2, <1>12, <2>1
    <3>2. Holds(b, s[i]) /\ ss[i] = s[i] /\ ss[j] = s[j]
      BY <1>2, <1>9, <1>12, <2>1, <3>1
    <3>3. Holds(b, s[j])
      BY <1>12, <2>1, <3>1, <3>2 DEF WhatIsLeft
    <3> QED BY <1>9, <2>1, <3>3
  <2> QED BY <1>3, <1>10, <2>1
<1>13. WhatIsLeft(ss, bb)
  BY <1>2, <1>7, <1>8, <1>11, <1>12 DEF WhatIsLeft
<1> QED BY <1>4, <1>13 DEF ss, bb

(* What may be kept: all that is well-formed and pinned, and with an       *)
(* unpinned message every unpinned well-formed one after it.               *)
MayStay(b, I) ==
  /\ I \subseteq DOMAIN b
  /\ \A i \in DOMAIN b : b[i].valid /\ b[i].pinned => i \in I
  /\ \A i \in I, j \in DOMAIN b :
       i < j /\ ~b[i].pinned /\ ~b[j].pinned /\ b[j].valid => j \in I

LEMMA AtKeeps ==
  ASSUME NEW s, Conversation(s), NEW b, WhatIsLeft(s, b), NEW I, MayStay(b, I)
  PROVE  WhatIsLeft(s, At(b, I))
<1> DEFINE c == Cardinality(I)
           r == At(b, I)
<1>1. b \in Seq(Messages) /\ DOMAIN b = 1..Len(b) /\ I \in SUBSET DOMAIN b
  BY DEF WhatIsLeft, MayStay
<1>2. PICK h : Lists(h, I) /\ r = [k \in 1..c |-> b[h[k]]]
  BY <1>1, AtLists
<1>3. r \in Seq(Messages)
  BY <1>1, AtLists
<1>4. DOMAIN r = 1..c /\ \A k \in 1..c : h[k] \in I /\ h[k] \in DOMAIN b /\ r[k] = b[h[k]]
  BY <1>1, <1>2 DEF Lists
<1> HIDE DEF r
<1>5. \A i \in I : Holds(r, b[i])
  BY <1>2, <1>4 DEF Holds, Lists
<1>6. \A k, l \in DOMAIN r : k < l => r[k].id < r[l].id
  <2> SUFFICES ASSUME NEW k \in 1..c, NEW l \in 1..c, k < l PROVE r[k].id < r[l].id
    BY <1>4
  <2>1. h[k] < h[l]
    BY <1>2 DEF Lists
  <2>2. b[h[k]].id < b[h[l]].id
    BY <1>4, <2>1 DEF WhatIsLeft
  <2> QED BY <1>4, <2>2
<1>7. \A k \in DOMAIN r : r[k].id \in DOMAIN s /\ r[k] = s[r[k].id]
  BY <1>4 DEF WhatIsLeft
<1>8. ASSUME NEW i \in DOMAIN s, s[i].valid, s[i].pinned PROVE Holds(r, s[i])
  <2>1. PICK k \in DOMAIN b : b[k] = s[i]
    BY <1>8 DEF WhatIsLeft, Holds
  <2>2. k \in I
    BY <1>8, <2>1 DEF MayStay
  <2> QED BY <1>5, <2>1, <2>2
<1>9. ASSUME NEW i \in DOMAIN s, NEW j \in DOMAIN s, i < j,
             ~s[j].pinned, s[j].valid, ~s[i].pinned, Holds(r, s[i])
      PROVE  Holds(r, s[j])
  <2>1. PICK k \in I : b[k] = s[i] /\ k \in DOMAIN b
    BY <1>4, <1>9 DEF Holds
  <2>2. Holds(b, s[i])
    BY <2>1 DEF Holds
  <2>3. PICK l \in DOMAIN b : b[l] = s[j]
    BY <1>9, <2>2 DEF WhatIsLeft, Holds
  <2>4. b[k].id = i /\ b[l].id = j /\ i \in Int /\ j \in Int /\ k \in Int /\ l \in Int
    BY <1>1, <2>1, <2>3 DEF Conversation
  <2>5. ~(l < k) /\ l # k
    BY <1>9, <2>1, <2>4 DEF WhatIsLeft
  <2>6. k < l
    BY <2>4, <2>5
  <2>7. l \in I
    BY <1>9, <2>1, <2>3, <2>6 DEF MayStay
  <2> QED BY <1>5, <2>3, <2>7
<1> QED BY <1>3, <1>6, <1>7, <1>8, <1>9 DEF WhatIsLeft, r

Reasons == {"none", "pinned_exceeds_budget", "single_message_exceeds_budget"}

LEMMA MessagesCost ==
  ASSUME NEW b \in Seq(Messages)
  PROVE  Costly(b, Len(b)) /\ Total(b) \in Nat /\ (b = <<>> => Total(b) = 0)
<1>1. \A i \in 1..Len(b) : b[i] \in Messages
  OBVIOUS
<1>2. Costly(b, Len(b))
  BY <1>1, ContextAssumption DEF Costly, Messages
<1>3. DOMAIN b \in SUBSET (1..Len(b)) /\ Len(b) \in Nat
  OBVIOUS
<1>4. Total(b) \in Nat
  BY <1>2, <1>3, CostIsNat DEF Total
<1>5. b = <<>> => Total(b) = 0
  BY FS_EmptySet DEF Total, CostOf, Tokens
<1> QED BY <1>2, <1>4, <1>5

(* The malformed entries are not part of what must be left.                *)
LEMMA CleanKeeps ==
  ASSUME NEW s, Conversation(s), NEW input, WhatIsLeft(s, input)
  PROVE  WhatIsLeft(s, Clean(input)) /\ Valid(Clean(input)) /\ Len(Clean(input)) \in 0..Len(input)
<1> DEFINE I == {i \in DOMAIN input : input[i].valid}
<1>1. Clean(input) = At(input, I) /\ I \in SUBSET DOMAIN input /\ input \in Seq(Messages)
  BY DEF Clean, WhatIsLeft
<1>2. MayStay(input, I)
  BY DEF MayStay
<1>3. PICK h : Lists(h, I) /\ At(input, I) = [k \in 1..Cardinality(I) |-> input[h[k]]]
  BY <1>1, AtLists
<1>4. Valid(At(input, I))
  BY <1>3 DEF Valid, Lists
<1>5. WhatIsLeft(s, At(input, I))
  BY <1>2, AtKeeps
<1>6. Len(At(input, I)) \in 0..Len(input)
  BY <1>1, AtLists
<1> QED BY <1>1, <1>4, <1>5, <1>6

LEMMA ValidStays ==
  ASSUME NEW S, NEW b \in Seq(S), Valid(b), NEW I \in SUBSET DOMAIN b
  PROVE  Valid(At(b, I))
<1>1. PICK h : Lists(h, I) /\ At(b, I) = [k \in 1..Cardinality(I) |-> b[h[k]]]
  BY AtLists
<1> QED BY <1>1 DEF Valid, Lists

FitSound(s, input, budget, r) ==
  /\ WhatIsLeft(s, r.buffer) /\ Valid(r.buffer) /\ Len(r.buffer) \in 0..Len(input)
  /\ r.status \in [budget : {budget}, evicted : 0..Len(input), reason : Reasons]
  /\ r.status.reason = "none" => Total(r.buffer) <= budget

LEMMA OutcomeIs ==
  ASSUME NEW s, NEW input, Len(input) \in Nat, NEW budget,
         NEW b, WhatIsLeft(s, b), Valid(b), Len(b) \in 0..Len(input),
         NEW evicted \in 0..Len(input), NEW reason \in Reasons,
         reason = "none" => Total(b) <= budget
  PROVE  FitSound(s, input, budget, Outcome(b, budget, evicted, reason))
BY DEF FitSound, Outcome

(* Whichever way fit() ends.                                               *)
LEMMA FitKeeps ==
  ASSUME NEW s, Conversation(s), NEW input, WhatIsLeft(s, input),
         NEW strategy \in Strategies, NEW budget \in Budgets
  PROVE  FitSound(s, input, budget, Fit(input, strategy, budget))
<1> DEFINE clean == Clean(input)
           invalid == Len(input) - Len(clean)
           P == Pinned(clean)
           pinned == CostOf(clean, P)
           kept == Retained(clean, strategy, budget)
           r == Fit(input, strategy, budget)
<1>1. WhatIsLeft(s, clean) /\ Valid(clean) /\ Len(clean) \in 0..Len(input)
  BY CleanKeeps
<1>2. clean \in Seq(Messages) /\ Len(input) \in Nat /\ invalid \in 0..Len(input) /\ budget \in Nat
  BY <1>1, ContextAssumption DEF WhatIsLeft
<1>3. Costly(clean, Len(clean)) /\ Total(clean) \in Nat /\ (clean = <<>> => Total(clean) = 0)
  BY <1>2, MessagesCost
<1>4. P \in SUBSET DOMAIN clean /\ P \in SUBSET (1..Len(clean)) /\ Len(clean) \in Nat
  BY <1>2 DEF Pinned
<1>5. pinned \in Nat
  BY <1>3, <1>4, CostIsNat
<1>6. r = IF clean = <<>> THEN Outcome(<<>>, budget, invalid, "none")
          ELSE IF pinned > budget THEN Outcome(At(clean, P), budget, invalid, "pinned_exceeds_budget")
          ELSE IF pinned + clean[Len(clean)].cost > budget
            THEN Outcome(clean, budget, invalid, "single_message_exceeds_budget")
          ELSE Outcome(Reassemble(clean, kept), budget, Evicted(input, clean, kept), "none")
  BY DEF Fit
<1> HIDE DEF clean, P, pinned, kept, r, invalid
<1>7. CASE clean = <<>>
  <2>1. r = Outcome(clean, budget, invalid, "none")
    BY <1>6, <1>7
  <2>2. Total(clean) <= budget
    BY <1>2, <1>3, <1>7
  <2> QED BY <1>1, <1>2, <2>1, <2>2, OutcomeIs DEF r, Reasons
<1>8. CASE clean # <<>> /\ pinned > budget
  <2>1. MayStay(clean, P)
    BY <1>4 DEF MayStay, P, Pinned
  <2>2. WhatIsLeft(s, At(clean, P))
    BY <1>1, <2>1, AtKeeps
  <2>3. Valid(At(clean, P))
    BY <1>1, <1>2, <1>4, ValidStays
  <2>4. Len(At(clean, P)) \in 0..Len(input)
    BY <1>1, <1>2, <1>4, AtLists
  <2>5. r = Outcome(At(clean, P), budget, invalid, "pinned_exceeds_budget")
    BY <1>6, <1>8
  <2> QED BY <1>2, <2>2, <2>3, <2>4, <2>5, OutcomeIs DEF r, Reasons
<1>9. CASE clean # <<>> /\ ~(pinned > budget) /\ pinned + clean[Len(clean)].cost > budget
  <2>1. r = Outcome(clean, budget, invalid, "single_message_exceeds_budget")
    BY <1>6, <1>9
  <2> QED BY <1>1, <1>2, <2>1, OutcomeIs DEF r, Reasons
<1>10. CASE clean # <<>> /\ ~(pinned > budget) /\ ~(pinned + clean[Len(clean)].cost > budget)
  <2>1. r = Outcome(At(clean, kept), budget, Evicted(input, clean, kept), "none")
    BY <1>6, <1>10 DEF Reassemble
  <2>2. pinned <= budget
    BY <1>2, <1>5, <1>10
  <2>3. /\ kept \in SUBSET DOMAIN clean /\ P \subseteq kept
        /\ Newest(kept \ P, DOMAIN clean \ P) /\ CostOf(clean, kept) <= budget
    BY <1>2, <1>3, <2>2, RetainedIs DEF kept, P, pinned
  <2>4. MayStay(clean, kept)
    <3>1. \A i \in DOMAIN clean : clean[i].pinned <=> i \in P
      BY DEF P, Pinned
    <3> QED BY <2>3, <3>1 DEF MayStay, Newest
  <2>5. WhatIsLeft(s, At(clean, kept)) /\ Valid(At(clean, kept))
    BY <1>1, <1>2, <2>3, <2>4, AtKeeps, ValidStays
  <2>6. Len(At(clean, kept)) \in 0..Len(clean) /\ Cardinality(kept) \in 0..Len(clean)
        /\ At(clean, kept) \in Seq(Messages)
    BY <1>2, <2>3, AtLists
  <2>7. Len(At(clean, kept)) \in 0..Len(input)
    BY <1>1, <1>2, <2>6
  <2>8. Evicted(input, clean, kept) \in 0..Len(input)
    BY <1>1, <1>2, <2>6 DEF Evicted
  <2>9. Total(At(clean, kept)) <= budget
    <3>1. Total(At(clean, kept)) <= CostOf(clean, kept)
      BY <1>2, <1>3, <2>3, CostOfPicked
    <3>2. Total(At(clean, kept)) \in Nat /\ CostOf(clean, kept) \in Nat
      <4>1. kept \in SUBSET (1..Len(clean))
        BY <1>2, <2>3
      <4> QED BY <1>3, <1>4, <2>6, <4>1, MessagesCost, CostIsNat
    <3> QED BY <1>2, <2>3, <3>1, <3>2
  <2> QED BY <1>2, <2>1, <2>5, <2>7, <2>8, <2>9, OutcomeIs DEF r, Reasons
<1> QED BY <1>7, <1>8, <1>9, <1>10 DEF r

(* The buffer is what is left of the conversation, of which it has no more *)
(* than was said, and its status is true of it.                            *)
ContextInv ==
  /\ Conversation(said) /\ Len(said) <= MaxMessages
  /\ WhatIsLeft(said, buffer) /\ Valid(buffer) /\ Len(buffer) <= Len(said)
  /\ status \in [budget : Budgets \union {0}, evicted : 0..MaxMessages, reason : Reasons]
  /\ status.reason = "none" => Total(buffer) <= status.budget

LEMMA ContextAtFirst == ContextInit => ContextInv
<1> SUFFICES ASSUME ContextInit PROVE ContextInv
  OBVIOUS
<1>1. <<>> \in Seq(Messages) /\ Len(<<>>) = 0 /\ DOMAIN <<>> = {}
  OBVIOUS
<1>2. Total(<<>>) = 0
  BY <1>1, MessagesCost
<1> QED BY <1>1, <1>2, ContextAssumption
        DEF ContextInit, ContextInv, Conversation, WhatIsLeft, Valid, Reasons

LEMMA ContextKept == ContextInv /\ [ContextNext]_contextVars => ContextInv'
<1> SUFFICES ASSUME ContextInv, [ContextNext]_contextVars PROVE ContextInv'
  OBVIOUS
<1>1. ASSUME NEW m \in Messages, NEW strategy \in Strategies, NEW budget \in Budgets,
             Len(said) < MaxMessages, AppendMessage(m, strategy, budget)
      PROVE  ContextInv'
  <2> DEFINE input == Append(buffer, m)
             r == Fit(input, strategy, budget)
  <2>1. m.id = Len(said) + 1 /\ said' = Append(said, m) /\ buffer' = r.buffer /\ status' = r.status
    BY <1>1 DEF AppendMessage
  <2>2. Conversation(said') /\ WhatIsLeft(said', input)
    BY <2>1, AppendKeeps DEF ContextInv
  <2>3. FitSound(said', input, budget, r)
    BY <2>2, FitKeeps
  <2>4. /\ Len(said) \in Nat /\ Len(said') = Len(said) + 1
        /\ Len(buffer) \in Nat /\ Len(input) = Len(buffer) + 1
    BY <2>1 DEF ContextInv, Conversation, WhatIsLeft
  <2>5. Len(input) \in Nat /\ Len(input) <= Len(said') /\ Len(said') <= MaxMessages /\ MaxMessages \in Nat
    BY <1>1, <2>4, ContextAssumption DEF ContextInv
  <2> HIDE DEF input, r
  <2>6. Len(buffer') <= Len(said')
    BY <2>1, <2>3, <2>4, <2>5 DEF FitSound
  <2>7. status' \in [budget : Budgets \union {0}, evicted : 0..MaxMessages, reason : Reasons]
        /\ status'.budget = budget
    <3>1. 0..Len(input) \subseteq 0..MaxMessages
      BY <2>4, <2>5
    <3> QED BY <2>1, <2>3, <3>1 DEF FitSound
  <2> QED BY <2>1, <2>2, <2>3, <2>5, <2>6, <2>7 DEF ContextInv, FitSound
<1>2. CASE UNCHANGED contextVars
  BY <1>2 DEF contextVars, ContextInv
<1> QED BY <1>1, <1>2 DEF ContextNext

(* After any number of appends under changing budgets and strategies the   *)
(* buffer that the caller keeps fits the budget or its status says why     *)
(* not; it is in the order of the conversation, has all that is well-formed*)
(* and pinned, and of the rest a newest part without holes.                *)
THEOREM NothingIsLost == ContextSpec => [](ContextTypeOK /\ NothingLost)
<1>1. ContextInv => ContextTypeOK
  <2> SUFFICES ASSUME ContextInv PROVE buffer \in Seq({m \in Messages : m.valid})
    BY DEF ContextInv, ContextTypeOK, Conversation, Reasons
  <2>1. buffer \in Seq(Messages) /\ \A i \in 1..Len(buffer) : buffer[i].valid
    BY DEF ContextInv, WhatIsLeft, Valid
  <2> QED BY <2>1
<1>2. ContextInv => NothingLost
  BY DEF ContextInv, WhatIsLeft, NothingLost, Holds
<1> QED BY <1>1, <1>2, ContextAtFirst, ContextKept, PTL DEF ContextSpec
===============================================================================
