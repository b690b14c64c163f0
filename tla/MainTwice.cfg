SPECIFICATION Spec

CONSTANTS
  Keys <- MCKeys
  Params <- FifoParams
  Unset = Unset
  MaxLines = 4
  Mains = {first, second}
  Clients = {ann, bob, cid}
  None = None
  Transports = {"fifos"}
  Here <- LocalHost
  Faults = {"accept"}
  MaxFds = 2
  MaxAsks = 1

INVARIANT OneAtATime

CHECK_DEADLOCK FALSE
