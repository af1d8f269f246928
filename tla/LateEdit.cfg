SPECIFICATION AdminSpec
CONSTANTS
  Requests = {r1}
  WorkOrders = {w1}
  Equipment = {e1, e2}
  Clients = {c1, c2}
  None = None
  Urgencies = {FALSE}
  Edits = {}
  Handlers <- LateEdit
SYMMETRY AdminSymmetry
CHECK_DEADLOCK FALSE
PROPERTIES
  RequestWithOrderIsLocked
