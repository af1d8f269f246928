SPECIFICATION AdminSpec
CONSTANTS
  Requests = {r1, r2}
  WorkOrders = {w1, w2}
  Equipment = {e1, e2}
  Clients = {c1}
  None = None
  Urgencies = {TRUE}
  Edits = {}
  Handlers <- OneAtATime
SYMMETRY AdminSymmetry
VIEW AdminView
CHECK_DEADLOCK FALSE
INVARIANTS
  EquipmentMatchesWork
