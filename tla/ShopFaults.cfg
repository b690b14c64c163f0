SPECIFICATION Spec

CONSTANTS
  ann = ann
  bob = bob
  gin = gin
  rum = rum
  nowhere = nowhere
  None = None
  Nowhere = nowhere
  Clients <- TwoClients
  Addresses <- AllAddresses
  Products <- OneProduct
  InitialStock <- OneLeft
  MaxStock = 1
  Transport = "sockets"
  Faults <- AnyFault
  MaxTries = 2

INVARIANTS
  TypeOK
  ExchangeDiscipline
  SessionDiscipline
  CartFits
  AnswersAreMine
  OneOrderPerReceipt

\* All sessions over: main() waits in conn_accept for clients that do not come.
CHECK_DEADLOCK FALSE
