----------------------------- MODULE MCPlatform -----------------------------
(***************************************************************************)
(* Components of engine/api, engine/mcp, src/platform, src/context,        *)
(* src/resilience/cache, src/data and src/ideation (the rehearsal and the  *)
(* demo capture) that do not interact, side by side: the first state       *)
(* chooses which of them moves, so the state spaces add up instead of      *)
(* multiplying.                                                            *)
(***************************************************************************)
EXTENDS Recent, Publisher, ContextFit, GoldenStore, Rehearsal, DemoDrive,
  SyntheticData, McpSession

CONSTANTS run1, run2, client1, client2, call1, call2, trace1, trace2, proc1, proc2, key1, key2,
          answer1, answer2, header1, header2, mcp1, mcp2, mcp3

VARIABLE part  \* the component that moves

vars == <<part, recentVars, publisherVars, contextVars, storeVars, rehearsalVars, demoVars,
  dataVars, mcpVars>>

Init ==
  /\ part \in {"recent", "publisher", "context", "store", "rehearsal", "demo", "data",
    "mcp"}
  /\ RecentInit
  /\ PublisherInit
  /\ part # "publisher" => transport = "none"
  /\ ContextInit
  /\ StoreInit
  /\ RehearsalInit
  /\ DemoInit
  /\ DataInit
  /\ McpInit
  /\ part # "mcp" => qTransport = "auto"

Still(p, v) == part # p => UNCHANGED v

Next ==
  /\ UNCHANGED part
  /\ \/ part = "recent" /\ RecentNext
     \/ part = "publisher" /\ PublisherNext
     \/ part = "context" /\ ContextNext
     \/ part = "store" /\ StoreNext
     \/ part = "rehearsal" /\ RehearsalNext
     \/ part = "demo" /\ DemoNext
     \/ part = "data" /\ DataNext
     \/ part = "mcp" /\ McpNext
  /\ Still("recent", recentVars) /\ Still("publisher", publisherVars) /\ Still("context", contextVars)
  /\ Still("store", storeVars) /\ Still("rehearsal", rehearsalVars) /\ Still("demo", demoVars)
  /\ Still("data", dataVars) /\ Still("mcp", mcpVars)

Spec == Init /\ [][Next]_vars
FairSpec == Spec /\ PublisherFairness /\ RehearsalFairness /\ DemoFairness

\* The type invariants of the components (the numbering and RECENT, the
\* publisher, the conversation buffer, the golden cache, the rehearsal, the
\* capture, the data generator, the MCP session).
TypeOK ==
  /\ RecentTypeOK /\ PublisherTypeOK /\ ContextTypeOK /\ StoreTypeOK
  /\ RehearsalTypeOK /\ DemoTypeOK /\ DataTypeOK /\ McpTypeOK

\* A rehearsal and a capture that are started end: whether or not anybody
\* answers, wherever a step fails, and whenever the capture is interrupted.
SessionsEnd == RehearsalEnds /\ CaptureEnds
=============================================================================
