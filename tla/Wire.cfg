SPECIFICATION FairSpec

CONSTANTS
  SizeT = 2
  IntSize = 1
  ORDER_MAX_SIZE = 2
  Scale = 8192
  MantissaLimit = 8192
  NULL = NULL
  BaseLen = 3
  TimeLen = 2
  INT_MAX = 2147483647
  Links <- MCLinks
  Capacity = 2
  Catalogue <- MCCatalogue
  DeliveryAddresses <- MCDeliveryAddresses
  Stocks <- MCStocks
  MaxTries = 2

INVARIANTS
  ProductsArrive
  OrderArrives
  EntriesOnce
  QueriesWhole

PROPERTIES
  LinksAreChannels
  SubOrderArrives
  DataGetThrough

\* A session ends.
CHECK_DEADLOCK FALSE
