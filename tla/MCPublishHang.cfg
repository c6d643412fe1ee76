SPECIFICATION FairSpec
CONSTANTS
  run1 = run1
  run2 = run2
  client1 = client1
  client2 = client2
  call1 = call1
  call2 = call2
  trace1 = trace1
  trace2 = trace2
  proc1 = proc1
  proc2 = proc2
  key1 = key1
  key2 = key2
  answer1 = answer1
  answer2 = answer2
  Procs = {proc1, proc2}
  Keys = {key1, key2}
  Values = {answer1, answer2}
  Absent = Absent
  Torn = Torn
  MaxOps = 3
  MaxFaults = 2
  Traces = {run1, run2}
  Last = 3
  MaxTraces = 1
  PerTrace = 2
  Conns = {client1, client2}
  Calls = {call1, call2}
  TraceIds = {trace1, trace2}
  MaxPublishes = 3
  Costs = {1, 2}
  Budgets = {0, 2, 3}
  Keeps = {0, 1, 2}
  MaxMessages = 4
  MaxAsked = 3
  DemoSteps = 3
  header1 = header1
  header2 = header2
  Headers = {header1, header2}
  DefaultHeader = header1
  MaxGenerations = 2
  mcp1 = mcp1
  mcp2 = mcp2
  mcp3 = mcp3
  McpCalls = {mcp1, mcp2, mcp3}
  MaxConnects = 3
  None = None
PROPERTIES PublishReturns
CHECK_DEADLOCK FALSE
