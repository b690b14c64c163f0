SPECIFICATION FairSpec

CONSTANTS
  ann = ann
  bob = bob
  gin = gin
  rum = rum
  nowhere = nowhere
  None = None
  Nowhere = nowhere
  Clients <- TwoClients
  Addresses <- AllAddresses
  Products <- TwoProducts
  InitialStock <- Uneven
  MaxStock = 2
  Transport = "fifos"
  Faults <- NoFaults
  MaxTries = 2

INVARIANTS
  ReceiptsMatchTables

PROPERTIES
  RowsAreTheHolders
  RequestsAnswered
  SessionsEnd

\* All sessions over: main() waits in conn_accept for clients that do not come.
CHECK_DEADLOCK FALSE
