SPECIFICATION Spec

CONSTANTS
  Products = {p1, p2}
  Addresses = {a1, a2}
  MaxStock = 2
  InitialStock <- OneAndTwo
  Cli <- Editors
  MaxRequests = 2
  MaxEdits = 2

INVARIANT TypeOK
PROPERTY StockGoesToEditsOnly

\* The server stops on MESSAGE_CLOSE, and nobody has to ask it anything.
CHECK_DEADLOCK FALSE
