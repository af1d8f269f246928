SPECIFICATION AdminSpec
CONSTANTS
  Requests = {r1}
  WorkOrders = {w1, w2}
  Equipment = {e1}
  Clients = {c1, c2}
  None = None
  Urgencies = {FALSE}
  Edits = {}
  Handlers <- DeletionRaces
SYMMETRY AdminSymmetry
VIEW AdminView
CHECK_DEADLOCK FALSE
INVARIANTS
  ApprovedRequestHasOneOrder
  LinkedRequestsExist
