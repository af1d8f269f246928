SPECIFICATION RacesSpec
CONSTANTS
  Requests = {r1}
  WorkOrders = {w1}
  Equipment = {e1}
  Clients = {c1, c2}
  None = None
  Urgencies = {TRUE, FALSE}
  Edits = {"DISCOMMISSIONED"}
  Handlers <- OrderRaces
SYMMETRY Symmetry
VIEW RacesView
CHECK_DEADLOCK FALSE
INVARIANTS
  TypeOK
  VersionIdentifiesOrder
  ClosedRequestHasAcceptedOrder
  AcceptanceClosesRequest
PROPERTIES
  LegalTransitions
  UndisturbedRecalculationIsRight
