SPECIFICATION InTurnSpec
CONSTANTS
  Tabs = {t1}
  People = {a, b}
  MaxTokens = 3
  MaxActs = 2
  None = None
PROPERTY RenewedByOneself
CHECK_DEADLOCK FALSE
SYMMETRY Alike
