SPECIFICATION AllSpec
CONSTANTS
  Users = {u1, u2, u3}
  Docs = {d1}
  MaxCalls = 4
  Clients = {c1, c2}
  ReadingIds <- Readings
  ReadingValues <- Binary
  LastTime = 2
  Window = 1
  MaxBatch = 2
  MaxMeterCalls = 2
  SessionIds <- Two
  MaxBrowserCalls = 5
  MaxFaults = 1
  Tabs <- Sides
  MaxTokens = 2
  MaxActs = 2
  Anchors <- Starts
  MonthSteps <- Intervals
  LastMonth = 15
  DayTimes <- Binary
  None = None
  Ids <- Two
  Operators = {c1, c2}
  Day = 12
  HourMinutes = 3
  Windows <- ThreeShifts
  Dates <- Binary
  Sheets <- AllSheets
  Figures <- NoTimes
  Planned = 4
  Absent = None
INVARIANTS RecordTypes NoChains NothingLeftBehind RunsNeverOverlap MinutesCountOnce TokensAreCurrent IdentityIsTrue MonthsAreRegular
PROPERTIES MergedStays ReadingsKept NobodyTakesOver
CHECK_DEADLOCK FALSE
SYMMETRY Alike
