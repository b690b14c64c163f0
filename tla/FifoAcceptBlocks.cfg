SPECIFICATION FairSpec

CONSTANTS
  Pids = {ann, bob}
  None = None
  Room = 4
  Faults = {"kill"}

PROPERTY ConnAcceptReturns

\* Everybody connected or gone: main() waits in conn_accept.
CHECK_DEADLOCK FALSE
