SPECIFICATION FairSpec

CONSTANTS
  Pids = {ann, bob, cy}
  None = None
  Room = 3
  Faults = {"kill", "timeout", "fork", "mainkill"}

INVARIANTS
  RequestsInPairs
  EndsMatch
  WaitsOnlyForTheGone

PROPERTY ConnOpenReturns

\* Everybody connected or gone: main() waits in conn_accept.
CHECK_DEADLOCK FALSE
