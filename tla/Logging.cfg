SPECIFICATION FairSpec

CONSTANTS
  main = main
  session = session
  Processes <- MCProcesses
  Parent <- MCParent
  Daemons = {first, second}
  QueueMax = 2
  MaxLogs = 2

INVARIANTS
  PrintedOnce
  LostWithDaemonOnly
  ShownInOrder

PROPERTIES
  LoggingReturns
  AcceptedAreShown

\* Nobody has to log anything.
CHECK_DEADLOCK FALSE
