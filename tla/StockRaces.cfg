SPECIFICATION Spec
CONSTANTS
  Items = {i1, i2}
  WorkOrders = {o1}
  Keys = {k1}
  Clients = {c1, c2}
  None = None
  Amounts = {1}
  MaxStock = 2
  MaxLine = 1
  Handlers <- AllHandlers
SYMMETRY Symmetry
VIEW View
CHECK_DEADLOCK FALSE
INVARIANTS
  TypeOK
  VersionIdentifiesStock
  RetryBookedOnce
PROPERTIES
  BooksWhatItMoves
  OneIssuePerCompletion
