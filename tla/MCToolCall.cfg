\* Three calls of a mutation tool compete for two handler slots; handlers may hang
\* for ever and the server may stop at any moment.
SPECIFICATION FairSpec
CONSTANTS
  c1 = c1
  c2 = c2
  c3 = c3
  Calls = {c1, c2, c3}
  ToolNames = {"update_event"}
  MaxInFlight = 2
  NoTool = NoTool
INVARIANTS
  SlotAccounting
  ReadFailureReported
PROPERTIES
  CallAnswered
  ServerStops
CHECK_DEADLOCK FALSE
