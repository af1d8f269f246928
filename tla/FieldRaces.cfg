SPECIFICATION FieldSpec
CONSTANTS
  Checklists = {e1}
  Clients = {c1, c2}
  Orders = {o1, o2}
  Items = {i1}
  Sizes = {0, 2}
  MaxVersion = 4
  OfficeHours <- Morning
  SessionIds <- Three
  LastTime = 1
  Workloads <- Loads
  MaxWorkCalls = 4
  MaxFabricationCalls = 3
  MaxRestarts = 1
  None = None
INVARIANTS FieldTypes CompletedIsRight OneRunningSession HoursAreWorked HoursMatchLogs ClosedOrdersAreQuiet IssuedOnce
PROPERTY NothingUnseen
CHECK_DEADLOCK FALSE
SYMMETRY Alike
