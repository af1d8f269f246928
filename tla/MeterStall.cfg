SPECIFICATION FairSpec
CONSTANTS
  Schedules = {s1}
  Timers = {t1}
  Interval <- EveryDay
  Lead <- NoLead
  Handlers = {"activate", "changeStart"}
  BatchSize = 1
  Horizon = 1
  MaxCalls = 2
  MaxHours = 2
  MaxRestarts = 0
  None = None

PROPERTY MetersAreServed
CHECK_DEADLOCK FALSE
