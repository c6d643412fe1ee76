---------------------------- MODULE SyntheticData ----------------------------
(***************************************************************************)
(* The generator of demo data (src/data): a model answers with a batch of  *)
(* records or documents, which is validated, marked as synthetic by code,  *)
(* written to a file and, if asked for, to the golden cache, from where it *)
(* is served when the model is out of reach.  Generations follow one       *)
(* another, each with a configuration of its own.                          *)
(*                                                                         *)
(* A batch is what its elements have in common: whether they are objects,  *)
(* with a text or not; the synthetic flag; the headers in front of their   *)
(* text, the outermost first.  No header text is the beginning of another. *)
(***************************************************************************)
EXTENDS NoValue, Naturals, Sequences

CONSTANTS
  Headers, DefaultHeader,  \* watermark texts, and the one of defaults.json
  MaxGenerations

ASSUME DataAssumption == DefaultHeader \in Headers /\ MaxGenerations \in Nat

VARIABLES
  gPc, gCall, gGot,
  gFile,     \* fixtures/synthetic, by kind
  gCache,    \* the golden cache, by key
  gRuns

dataVars == <<gPc, gCall, gGot, gFile, gCache, gRuns>>

(* Records under a schema that admits further fields or does not, and      *)
(* documents; freeform documents differ in the name of their file.         *)
Shapes == {"open", "closed", "documents"}
Kind(shape) == IF shape = "documents" THEN "documents" ELSE "records"
CacheKeys == Shapes \union {"shared"}

Batches == [form : {"plain", "object", "document"}, synthetic : BOOLEAN, headers : Seq(Headers),
            free : BOOLEAN]  \* free is history: made by a generation that was allowed to leave it unmarked

(* What the model answers when it can be parsed; its own flag is not kept. *)
Answers == {[form |-> f, synthetic |-> FALSE, headers |-> h, free |-> FALSE] :
              f \in {"plain", "object"}, h \in {<<>>}}
     \union {[form |-> "document", synthetic |-> FALSE, headers |-> h, free |-> FALSE] :
              h \in {<<>>, <<DefaultHeader>>}}

-----------------------------------------------------------------------------
Baked == [allow |-> FALSE, header |-> DefaultHeader]
Settings == [allow : BOOLEAN, header : Headers]

(* The caller's section replaces that of defaults.json unless it fails its *)
(* schema; a whole that fails leaves the values in the code.               *)
ResolveConfig(section, wholeValid) ==
  IF ~wholeValid \/ section = None THEN Baked ELSE section

\* Variant (fault injection): watermark:false is honoured without the permission.
WatermarkDecision_Ungated(requested, settings) == [apply |-> requested, header |-> IF requested THEN settings.header ELSE None]

WatermarkDecision(requested, settings) ==
  LET apply == requested \/ ~settings.allow
  IN  [apply |-> apply, header |-> IF apply THEN settings.header ELSE None]

CacheKey(call) == IF call.explicit THEN "shared" ELSE call.shape

(* validate against the caller's schema, or the structural check of        *)
(* documents.  What a schema says of a batch that another generation made  *)
(* is open, but for the field it does not admit.                           *)
Accepted(call, batch) ==
  IF call.shape = "documents" THEN {batch.form = "document"}
  ELSE IF call.shape = "closed" /\ batch.synthetic THEN {FALSE} ELSE BOOLEAN

(* Documents are rebuilt from four of their fields. *)
Normalized(call, batch) ==
  IF call.shape = "documents" THEN [batch EXCEPT !.synthetic = FALSE] ELSE batch

(* Elements that are no objects are passed over; a text that begins with   *)
(* the header keeps it.                                                    *)
WatermarkBatch(call, batch) ==
  IF batch.form = "plain" THEN batch
  ELSE [batch EXCEPT
         !.synthetic = TRUE,
         !.headers = IF call.shape # "documents" \/ (@ # <<>> /\ Head(@) = call.wm.header)
                     THEN @ ELSE <<call.wm.header>> \o @]

-----------------------------------------------------------------------------
DataInit ==
  /\ gPc = "idle" /\ gCall = None /\ gGot = None
  /\ gFile = [k \in {"records", "documents"} |-> None]
  /\ gCache = [k \in CacheKeys |-> None]
  /\ gRuns = 0

(* With a batch, which the caller gets, or with a degraded result.         *)
GenerationEnds == gPc' = "idle" /\ gCall' = None /\ gGot' = None

(* Invalid arguments, or an input contract that cannot be read, end it     *)
(* before any call.  caching: not at all, reads only (a cache directory is *)
(* configured), or write-through.                                          *)
DataStart ==
  /\ gPc = "idle" /\ gRuns < MaxGenerations
  /\ gRuns' = gRuns + 1
  /\ \/ GenerationEnds
     \/ \E shape \in Shapes, explicit \in BOOLEAN, caching \in {"none", "read", "through"},
           requested \in BOOLEAN, section \in Settings \union {None}, valid \in BOOLEAN, killed \in BOOLEAN :
          LET settings == ResolveConfig(section, valid)
              wm == WatermarkDecision(requested, settings)
          IN
          /\ gCall' = [shape |-> shape, explicit |-> explicit /\ caching # "none", caching |-> caching, wm |-> wm,
                       free |-> ~requested /\ settings.allow]
          /\ gPc' = IF killed THEN "fallback" ELSE "asking"
          /\ UNCHANGED gGot
  /\ UNCHANGED <<gFile, gCache>>

(* withResilience around callProvider: an attempt answers, or after the    *)
(* last one the chain of fallbacks is next.  An answer that cannot be      *)
(* parsed fails validation.                                                *)
DataAttempt ==
  /\ gPc = "asking"
  /\ \/ gPc' = "judging" /\ gGot' \in Answers
     \/ gPc' = "fallback" /\ UNCHANGED gGot
  /\ UNCHANGED <<gCall, gFile, gCache, gRuns>>

(* replay and cache both look up the one key.  A cached batch is validated *)
(* again, without a repair.                                                *)
DataReplay ==
  /\ gPc = "fallback"
  /\ LET hit == IF gCall.caching = "none" THEN None ELSE gCache[CacheKey(gCall)] IN
     IF hit = None THEN GenerationEnds
     ELSE \E ok \in Accepted(gCall, hit) :
            IF ok THEN gPc' = "marking" /\ gGot' = Normalized(gCall, hit) /\ UNCHANGED gCall
            ELSE GenerationEnds
  /\ UNCHANGED <<gFile, gCache, gRuns>>

DataJudge ==
  /\ gPc = "judging"
  /\ \E ok \in Accepted(gCall, gGot) :
       IF ok THEN gPc' = "marking" /\ gGot' = Normalized(gCall, gGot) /\ UNCHANGED gCall
       ELSE IF gCall.shape = "documents" THEN GenerationEnds
       ELSE gPc' = "repairing" /\ UNCHANGED <<gCall, gGot>>
  /\ UNCHANGED <<gFile, gCache, gRuns>>

(* One repair, outside the wrapper: a call that fails, or a batch that is  *)
(* not valid either, degrades.                                             *)
DataRepair ==
  /\ gPc = "repairing"
  /\ \/ gPc' = "marking" /\ gGot' \in Answers /\ UNCHANGED gCall
     \/ GenerationEnds
  /\ UNCHANGED <<gFile, gCache, gRuns>>

DataMark ==
  /\ gPc = "marking" /\ gPc' = "writing"
  /\ gGot' = [(IF gCall.wm.apply THEN WatermarkBatch(gCall, gGot) ELSE gGot) EXCEPT !.free = gCall.free]
  /\ UNCHANGED <<gCall, gFile, gCache, gRuns>>

(* Sink (a), unless switched off or refused by the file system: either way *)
(* the batch goes on.                                                      *)
DataWrite ==
  /\ gPc = "writing" /\ gPc' = "through"
  /\ \/ gFile' = [gFile EXCEPT ![Kind(gCall.shape)] = gGot]
     \/ UNCHANGED gFile
  /\ UNCHANGED <<gCall, gGot, gCache, gRuns>>

(* Sink (b), and the batch is handed out whether or not it was stored.     *)
DataThrough ==
  /\ gPc = "through" /\ GenerationEnds
  /\ \/ gCall.caching = "through" /\ gCache' = [gCache EXCEPT ![CacheKey(gCall)] = gGot]
     \/ UNCHANGED gCache
  /\ UNCHANGED <<gFile, gRuns>>

(* Anything thrown is mapped to a degraded result; or the process dies.    *)
DataBreaks == gPc # "idle" /\ GenerationEnds /\ UNCHANGED <<gFile, gCache, gRuns>>

DataNext ==
  \/ DataStart \/ DataAttempt \/ DataReplay \/ DataJudge \/ DataRepair
  \/ DataMark \/ DataWrite \/ DataThrough \/ DataBreaks

DataSpec == DataInit /\ [][DataNext]_dataVars

-----------------------------------------------------------------------------
DataTypeOK ==
  /\ gPc \in {"idle", "asking", "fallback", "judging", "repairing", "marking", "writing", "through"}
  /\ gRuns \in 0..MaxGenerations
  /\ \A b \in {gFile[k] : k \in DOMAIN gFile} \union {gCache[k] : k \in CacheKeys} \union {gGot} :
       b = None \/ b \in Batches

Marked(kind, b) ==
  /\ b.free \/ b.form = "plain" \/ b.synthetic
  /\ kind = "documents" /\ ~b.free => b.headers # <<>>
  /\ \A i \in 1..(Len(b.headers) - 1) : b.headers[i] # b.headers[i + 1]

(* DATA-03: wherever a batch ends up, in a file, in the cache or with the  *)
(* caller, and however often it went through the cache, under whatever     *)
(* header and shape, its objects carry the flag and the texts of documents *)
(* begin with a header, once; except for the batches of a generation that  *)
(* was allowed to leave them unmarked.                                     *)
SyntheticMarked ==
  /\ \A k \in DOMAIN gFile : gFile[k] # None => Marked(k, gFile[k])
  /\ \A k \in CacheKeys : gCache[k] # None => Marked(IF k = "documents" THEN k ELSE "records", gCache[k])
  /\ gPc \in {"writing", "through"} => Marked(Kind(gCall.shape), gGot)
===============================================================================
