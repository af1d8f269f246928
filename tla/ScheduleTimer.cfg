SPECIFICATION FairSpec
CONSTANTS
  Schedules = {s1}
  Timers = {t1, t2}
  Interval <- EveryDay
  Lead <- NoLead
  Handlers = {"activate", "pause", "update", "generate", "processDue", "complete", "cancel", "equipment", "creator"}
  BatchSize = 1
  Horizon = 1
  MaxCalls = 3
  MaxHours = 1
  MaxRestarts = 1
  None = None
INVARIANT NextOrderFits
PROPERTIES DueDatesAreServed MetersAreServed ImplementsCalendar
CHECK_DEADLOCK FALSE
