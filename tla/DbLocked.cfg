SPECIFICATION FairSpec

CONSTANTS
  Products = {p1, p2}
  Addresses = {a1, a2}
  MaxStock = 2
  InitialStock <- OneAndTwo
  Cli <- Lockers
  MaxRequests = 2
  MaxEdits = 0

INVARIANT VerifiedHasStock
PROPERTY ImplementsOrderDesk
PROPERTY EveryRequestAnswered

\* The server stops on MESSAGE_CLOSE, and nobody has to ask it anything.
CHECK_DEADLOCK FALSE
