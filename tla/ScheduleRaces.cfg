SPECIFICATION Spec
CONSTANTS
  Schedules = {s1}
  Timers = {t1, t2}
  Interval <- EveryDay
  Lead <- NoLead
  Handlers = {"activate", "pause", "update", "changeKind", "changeStart", "generate", "chooseDate", "processDue", "complete", "cancel", "progress", "clockIn", "remove"}
  BatchSize = 1
  Horizon = 1
  MaxCalls = 4
  MaxHours = 0
  MaxRestarts = 0
  None = None
INVARIANTS TypeOK CancelledLeavesNoWork
PROPERTY DueDatesNeverGoBack
CHECK_DEADLOCK FALSE
SYMMETRY AnyTimer
