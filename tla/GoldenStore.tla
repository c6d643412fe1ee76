----------------------------- MODULE GoldenStore -----------------------------
(***************************************************************************)
(* The golden cache on disk (src/resilience/cache/store.ts): one file per  *)
(* key, replaced atomically, and the manifest golden-index.json, which is  *)
(* read, changed and written back.  Several processes share the directory. *)
(* One process is single-threaded and its methods never await, so only     *)
(* operations of different processes interleave.                           *)
(*                                                                         *)
(* Entries and the manifest may be damaged or removed from outside, the    *)
(* file system may refuse a write, and a process may die between two steps *)
(* of an operation.                                                        *)
(***************************************************************************)
EXTENDS Naturals

CONSTANTS
  Procs, Keys, Values,
  Absent,  \* there is no file
  Torn,    \* a file that cannot be parsed
  MaxOps, MaxFaults  \* bounds on operations and on faults

ASSUME StoreAssumption ==
  /\ Absent \notin Values /\ Torn \notin Values /\ Absent # Torn
  /\ MaxOps \in Nat /\ MaxFaults \in Nat

VARIABLES
  file,     \* <root>/<key>.json
  index,    \* the keys golden-index.json lists
  indexOk,  \* it is there and readable
  op,       \* the operation each process is in
  fetched,      \* what its last get returned
  ops, faults,
  (* history *)
  alone,    \* no two operations have overlapped
  broken,   \* an operation died or could not write the manifest
  spoiled   \* keys whose file was damaged from outside

storeVars == <<file, index, indexOk, op, fetched, ops, faults, alone, broken, spoiled>>

Idle == [do |-> "none", at |-> "idle", key |-> Absent, val |-> Absent, seen |-> {}]

StoreInit ==
  /\ file = [k \in Keys |-> Absent]
  /\ index = {} /\ indexOk = FALSE
  /\ op = [p \in Procs |-> Idle]
  /\ fetched = [p \in Procs |-> Absent]
  /\ ops = 0 /\ faults = 0
  /\ alone = TRUE /\ broken = FALSE /\ spoiled = {}

Stored == {k \in Keys : file[k] # Absent}

\* Variant (fault injection): a lost manifest is started afresh.
Entries_Fresh == IF indexOk THEN index ELSE {}

(* readIndex(root) ?? scanIndex(root); scanning does not parse the files. *)
Entries == IF indexOk THEN index ELSE Stored

Doing(p, do, at) == op[p].do = do /\ op[p].at = at
GoTo(p, at) == op' = [op EXCEPT ![p].at = at]
End(p) == op' = [op EXCEPT ![p] = Idle]
disk == <<file, index, indexOk>>
history == <<alone, broken, spoiled>>

-----------------------------------------------------------------------------
Begin(p, do, k, v) ==
  /\ op[p] = Idle /\ ops < MaxOps
  /\ op' = [op EXCEPT ![p] = [do |-> do, at |-> "file", key |-> k, val |-> v, seen |-> {}]]
  /\ alone' = (alone /\ \A q \in Procs : op[q] = Idle)
  /\ ops' = ops + 1
  /\ UNCHANGED <<disk, fetched, faults, broken, spoiled>>

Call(p) ==
  \E k \in Keys :
    \/ \E v \in Values : Begin(p, "put", k, v)
    \/ Begin(p, "get", k, Absent)
    \/ Begin(p, "delete", k, Absent)
    \/ Begin(p, "clear", k, Absent)

(* A temporary file is renamed over the entry. *)
PutFile(p) ==
  /\ Doing(p, "put", "file")
  /\ file' = [file EXCEPT ![op[p].key] = op[p].val]
  /\ GoTo(p, "index")
  /\ UNCHANGED <<index, indexOk, fetched, ops, faults, history>>

(* The manifest is cleaned up even when there was nothing to unlink. *)
DeleteFile(p) ==
  /\ Doing(p, "delete", "file")
  /\ file' = [file EXCEPT ![op[p].key] = Absent]
  /\ GoTo(p, "index")
  /\ UNCHANGED <<index, indexOk, fetched, ops, faults, history>>

\* Variant (fault injection): an entry that cannot be parsed is handed out.
Get_Unparsed(p) ==
  /\ Doing(p, "get", "file")
  /\ fetched' = [fetched EXCEPT ![p] = file[op[p].key]]
  /\ End(p)
  /\ UNCHANGED <<disk, ops, faults, history>>

Get(p) ==
  /\ Doing(p, "get", "file")
  /\ IF file[op[p].key] = Torn
     THEN fetched' = [fetched EXCEPT ![p] = Absent] /\ GoTo(p, "quarantine")
     ELSE fetched' = [fetched EXCEPT ![p] = file[op[p].key]] /\ End(p)
  /\ UNCHANGED <<disk, ops, faults, history>>

(* What is there by now is renamed to <name>.corrupt.json. *)
Quarantine(p) ==
  /\ Doing(p, "get", "quarantine")
  /\ file' = [file EXCEPT ![op[p].key] = Absent]
  /\ End(p)
  /\ UNCHANGED <<index, indexOk, fetched, ops, faults, history>>

(* put adds its key to what it reads; delete takes its key out, and only   *)
(* of a manifest that can be read and lists it.                            *)
ReadIndex(p) ==
  /\ op[p].at = "index"
  /\ LET k == op[p].key IN
     IF op[p].do = "put"
     THEN op' = [op EXCEPT ![p].at = "write", ![p].seen = Entries \union {k}]
     ELSE IF indexOk /\ k \in index
          THEN op' = [op EXCEPT ![p].at = "write", ![p].seen = index \ {k}]
          ELSE End(p)
  /\ UNCHANGED <<disk, fetched, ops, faults, history>>

WriteIndex(p) ==
  /\ op[p].at = "write"
  /\ index' = op[p].seen /\ indexOk' = TRUE
  /\ End(p)
  /\ UNCHANGED <<file, fetched, ops, faults, history>>

(* clear(), where RES_ALLOW_CACHE_CLEAR allows it, removes the directory.  *)
ClearAll(p) ==
  /\ Doing(p, "clear", "file")
  /\ file' = [k \in Keys |-> Absent]
  /\ indexOk' = FALSE /\ index' = {}
  /\ End(p)
  /\ UNCHANGED <<fetched, ops, faults, history>>

-----------------------------------------------------------------------------
(* The file system refuses: an entry that cannot be written, read or       *)
(* removed ends the operation, a manifest that cannot be written is left   *)
(* as it is; or the process dies.  Nothing is thrown, nothing is undone.   *)
Refuse(p) ==
  /\ op[p] # Idle /\ faults < MaxFaults
  /\ End(p)
  /\ fetched' = IF Doing(p, "get", "file") THEN [fetched EXCEPT ![p] = Absent] ELSE fetched
  /\ broken' = (broken \/ op[p].at \in {"index", "write"})
  /\ faults' = faults + 1
  /\ UNCHANGED <<disk, ops, alone, spoiled>>

(* From outside. *)
Damage(k) ==
  /\ faults < MaxFaults /\ file[k] \in Values
  /\ file' = [file EXCEPT ![k] = Torn]
  /\ spoiled' = spoiled \union {k}
  /\ faults' = faults + 1
  /\ UNCHANGED <<index, indexOk, op, fetched, ops, alone, broken>>

LoseIndex ==
  /\ faults < MaxFaults /\ indexOk
  /\ indexOk' = FALSE /\ index' = {}
  /\ faults' = faults + 1
  /\ UNCHANGED <<file, op, fetched, ops, history>>

StoreNext ==
  \/ \E p \in Procs :
       \/ Call(p) \/ PutFile(p) \/ DeleteFile(p) \/ Get(p) \/ Quarantine(p)
       \/ ClearAll(p) \/ ReadIndex(p) \/ WriteIndex(p) \/ Refuse(p)
  \/ \E k \in Keys : Damage(k)
  \/ LoseIndex

StoreSpec == StoreInit /\ [][StoreNext]_storeVars

-----------------------------------------------------------------------------
StoreTypeOK ==
  /\ file \in [Keys -> Values \union {Absent, Torn}]
  /\ index \subseteq Keys /\ spoiled \subseteq Keys
  /\ indexOk \in BOOLEAN /\ alone \in BOOLEAN /\ broken \in BOOLEAN
  /\ op \in [Procs -> [do : {"none", "put", "get", "delete", "clear"},
                       at : {"idle", "file", "quarantine", "index", "write"},
                       key : Keys \union {Absent}, val : Values \union {Absent},
                       seen : SUBSET Keys]]
  /\ fetched \in [Procs -> Values \union {Absent}]
  /\ ops \in 0..MaxOps /\ faults \in 0..MaxFaults

(* list(): as long as operations do not overlap and none is cut short, the *)
(* manifest accounts for the directory, whatever happened to either: it    *)
(* hides no stored entry, and an entry it lists that is not stored was     *)
(* damaged.                                                                *)
ListAccounts ==
  alone /\ ~broken /\ (\A p \in Procs : op[p] = Idle) =>
    Stored \subseteq Entries /\ Entries \ Stored \subseteq spoiled

(* The files alone are the source of truth for reads: however operations   *)
(* interleave, and whatever becomes of the manifest, each takes effect at  *)
(* once, a read returns a whole value that was put, and an entry is lost   *)
(* only if it was asked for or had been damaged.                           *)
Promise == INSTANCE KeyValue WITH
  got <- fetched,
  kv <- [k \in Keys |-> IF file[k] = Torn THEN Absent ELSE file[k]],
  asked <- {k \in Keys : \E p \in Procs :
              \/ Doing(p, "clear", "file")
              \/ Doing(p, "delete", "file") /\ op[p].key = k}

IsAtomicMap == Promise!Spec
===============================================================================
