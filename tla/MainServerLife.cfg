SPECIFICATION FairSpec

CONSTANTS
  Keys <- MCKeys
  Params <- MCParams
  Unset = Unset
  MaxLines = 4
  Mains = {main}
  Clients = {ann, bob, cid}
  None = None
  Transports = {"sockets", "fifos"}
  Here <- LocalHost
  Faults = {"pipe", "fork", "exec", "accept", "kill", "gone", "sigpipe", "busy"}
  MaxFds = 2
  MaxAsks = 1

INVARIANTS
  ParsedAsWritten
  OneAtATime
  StopsBetweenExchanges

PROPERTIES
  DatabaseEndsToo
  ServedWhileOpen

\* Nobody has to connect.
CHECK_DEADLOCK FALSE
