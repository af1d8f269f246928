-------------------------------- MODULE Oee ---------------------------------
(***************************************************************************)
(* The shift sheets of one machine: oee-calculations, oee-time-allocation  *)
(* and OeeRecordsService.  Operators write down from when to when the      *)
(* machine ran and stood still; the server works out the minutes, refuses  *)
(* runs that overlap those of another sheet, and adds the run time to the  *)
(* operating hours of the machine, for which maintenance comes due.        *)
(*                                                                         *)
(* submitOeeRecord is a transaction that locks the row of the machine; it  *)
(* reads what others have committed by then.  voidRecord locks nothing.    *)
(***************************************************************************)
EXTENDS Integers, Sequences, SequencesExt, FiniteSets, FiniteSetsExt

CONSTANTS
  Ids,          \* identifiers of records
  Operators,    \* people who send sheets, one at a time
  Day,          \* the minutes of a day
  HourMinutes,  \* the minutes of an hour
  Windows,      \* standardShiftWindow: the start and end of each shift
  Dates,        \* the days on which sheets are written
  Sheets,       \* the time rows that are sent, a sequence of rows
  Figures,      \* what is sent in place of time rows
  Planned,      \* plannedShiftMinutes of the machine
  Absent        \* no minutes, nobody

VARIABLES
  records,      \* the records stored, a function on their identifiers
  hours,        \* currentOperatingHours, in hundredths
  holder,       \* who has locked the machine
  call          \* call[c]: the sheet that c sends, and how far it got

oeeVars == <<records, hours, holder, call>>

Shifts == DOMAIN Windows

PlannedKeys == {"cleaning", "breakShift"}
LossKeys == {"breakdown"}
RowKeys == PlannedKeys \cup LossKeys \cup {"running"}

\* What validateTimeRows lets pass: times of one day, one row of each kind.
Row == [key : RowKeys, times : Seq((0..Day) \X (0..Day)), minutes : Nat \cup {Absent}]

\* What the constants are: rows and figures as they pass the validation, and
\* shifts whose middles are no more than a day apart.
ASSUME SheetConstants ==
  /\ Day \in Nat \ {0} /\ HourMinutes \in Nat \ {0} /\ Planned \in Nat
  /\ IsFiniteSet(Ids) /\ Ids \subseteq Nat /\ Absent \notin Operators /\ Dates \subseteq Int
  /\ \A s \in Shifts : Windows[s] \in Nat \X Nat /\ Windows[s][1] <= Windows[s][2]
  /\ \A s, t \in Shifts :
       (Windows[s][1] + Windows[s][2]) - (Windows[t][1] + Windows[t][2]) <= 2 * Day
  /\ Figures \subseteq [duration : Int, planned : Nat, unplanned : Nat,
                        override : Int \cup {Absent}]
  /\ Sheets \subseteq Seq(Row)
  /\ \A sheet \in Sheets : \A k, l \in DOMAIN sheet :
       sheet[k].key = sheet[l].key => k = l

Greater(a, b) == IF a > b THEN a ELSE b
Smaller(a, b) == IF a < b THEN a ELSE b
Total(numbers) == FoldLeft(LAMBDA sum, n : sum + n, 0, numbers)

\* An interval <<from, to>> is the minutes from 'from' until before 'to'.
Minutes(intervals) == UNION {i[1] .. (i[2] - 1) : i \in Range(intervals)}
-----------------------------------------------------------------------------
(* Intervals.                                                              *)

\* In the order of their starts; those that start together stay as they were.
Sorted(intervals) ==
  LET Rank(k) == Cardinality({j \in DOMAIN intervals :
                                \/ intervals[j][1] < intervals[k][1]
                                \/ intervals[j][1] = intervals[k][1] /\ j <= k})
  IN  [n \in DOMAIN intervals |->
         intervals[CHOOSE k \in DOMAIN intervals : Rank(k) = n]]

\* One that starts before the last has ended lengthens the last.
Join(merged, i) ==
  IF merged # << >> /\ i[1] <= Last(merged)[2]
  THEN [merged EXCEPT ![Len(merged)] = <<@[1], Greater(@[2], i[2])>>]
  ELSE Append(merged, i)

mergeIntervals(intervals) == FoldLeft(Join, << >>, Sorted(intervals))

Length(intervals) == Total([k \in DOMAIN intervals |->
                              intervals[k][2] - intervals[k][1]])

duration(intervals) == Length(mergeIntervals(intervals))

\* The intervals that have a minute.
Proper(intervals) ==
  FlattenSeq([k \in DOMAIN intervals |->
                IF intervals[k][2] > intervals[k][1] THEN <<intervals[k]>> ELSE << >>])

\* What an exclusion leaves of an interval.
Pieces(i, x) ==
  IF x[2] <= i[1] \/ x[1] >= i[2] THEN <<i>>
  ELSE (IF i[1] < x[1] THEN << <<i[1], x[1]>> >> ELSE << >>)
       \o (IF x[2] < i[2] THEN << <<x[2], i[2]>> >> ELSE << >>)

Cut(rest, x) == FlattenSeq([k \in DOMAIN rest |-> Pieces(rest[k], x)])

subtractIntervals(source, exclusions) ==
  Proper(FoldLeft(Cut, mergeIntervals(source), mergeIntervals(exclusions)))

intersectIntervals(source, frame) ==
  mergeIntervals(Proper([k \in DOMAIN source |-> <<Greater(source[k][1], frame[1]),
                                                   Smaller(source[k][2], frame[2])>>]))

\* The times of a row, which may pass midnight, on the time line of the shift:
\* each is moved by whole days to where it is nearest to the shift.
Place(t, shift) ==
  LET window == Windows[shift]
      length == IF t[2] >= t[1] THEN t[2] - t[1] ELSE Day - t[1] + t[2]
      late == window[1] + window[2] - 2 * t[1] - length
      offset == ((late + Day) \div (2 * Day)) * Day
  IN  <<t[1] + offset, t[1] + offset + length>>

rowIntervals(row, shift) ==
  mergeIntervals([k \in DOMAIN row.times |-> Place(row.times[k], shift)])
-----------------------------------------------------------------------------
(* The figures of a sheet.                                                 *)

IntervalsOf(sheet, shift, keys) ==
  FlattenSeq([k \in DOMAIN sheet |->
                IF sheet[k].key \in keys THEN rowIntervals(sheet[k], shift) ELSE << >>])

\* Minutes that were entered for a row without times.
Manual(row) == IF row.times = << >> /\ row.minutes # Absent THEN row.minutes ELSE 0

ManualOf(sheet, keys) ==
  Total([k \in DOMAIN sheet |-> IF sheet[k].key \in keys THEN Manual(sheet[k]) ELSE 0])

Shared(i, j) == Greater(0, Smaller(i[2], j[2]) - Greater(i[1], j[1]))

BreakOverlap(sheet, shift) ==
  LET runs == mergeIntervals(IntervalsOf(sheet, shift, {"running"}))
      breaks == mergeIntervals(IntervalsOf(sheet, shift, {"breakShift"}))
  IN  Total([k \in DOMAIN runs |->
               Total([l \in DOMAIN breaks |-> Shared(runs[k], breaks[l])])])

\* The run time of a sheet that has an entry for it.
RunTime(sheet, shift) ==
  Greater(0, duration(IntervalsOf(sheet, shift, {"running"}))
             + ManualOf(sheet, {"running"}) - BreakOverlap(sheet, shift))

calculateOeeTimeMetrics(sheet, shift) ==
  LET all == mergeIntervals(IntervalsOf(sheet, shift, RowKeys))
      window == Windows[shift]
      span == IF all = << >> THEN 0 ELSE Last(all)[2] - all[1][1]
      manual == ManualOf(sheet, RowKeys)
      length == Greater(1, IF span + manual > 0 THEN span + manual ELSE Planned)
      planned == duration(IntervalsOf(sheet, shift, PlannedKeys))
                   + ManualOf(sheet, PlannedKeys)
      losses == duration(IntervalsOf(sheet, shift, LossKeys))
                  + ManualOf(sheet, LossKeys)
      production == Greater(0, length - planned)
      hasRunEntry == \E k \in DOMAIN sheet :
                       /\ sheet[k].key = "running"
                       /\ sheet[k].times # << >> \/ sheet[k].minutes # Absent
  IN  [duration |-> length, planned |-> planned, unplanned |-> losses,
       production |-> production,
       run |-> IF hasRunEntry THEN RunTime(sheet, shift)
               ELSE Greater(0, production - losses),
       pa2 |-> IF all # << >>
               THEN Greater(window[2], Last(all)[2])
                      - Smaller(window[1], all[1][1]) + manual
               ELSE Greater(window[2] - window[1], length)]

\* Without a time on the sheet, the figures that were sent are taken.
SentFigures(f, shift) ==
  LET production == f.duration - f.planned
      window == Windows[shift]
  IN  [duration |-> f.duration, planned |-> f.planned, unplanned |-> f.unplanned,
       production |-> production,
       run |-> IF f.override # Absent THEN f.override
               ELSE Greater(0, production - f.unplanned),
       pa2 |-> Greater(window[2] - window[1], f.duration)]

HasTimeEntries(sheet) ==
  \E k \in DOMAIN sheet : sheet[k].times # << >> \/ sheet[k].minutes # Absent

\* The figures that are refused.
Acceptable(m, timed) ==
  /\ m.planned <= m.duration
  /\ timed \/ m.unplanned <= m.production
  /\ m.run >= 0 /\ m.run <= m.duration

\* What is stored of a sheet that is not refused.
SheetRecord(sheet, shift, date, m) ==
  [date |-> date, shift |-> shift, sheet |-> sheet, duration |-> m.duration,
   planned |-> m.planned, unplanned |-> m.unplanned, production |-> m.production,
   run |-> m.run, pa2 |-> m.pa2, voided |-> FALSE]

Metrics(sheet, shift) ==
  LET timed == HasTimeEntries(sheet) IN
  {m \in IF timed THEN {calculateOeeTimeMetrics(sheet, shift)}
         ELSE {SentFigures(f, shift) : f \in Figures} : Acceptable(m, timed)}

\* The records that are made of the sheets that can be sent.
SheetRecords ==
  UNION {{SheetRecord(s[1], s[2], s[3], m) : m \in Metrics(s[1], s[2])} :
         s \in Sheets \X Shifts \X Dates}
-----------------------------------------------------------------------------
(* A record on the time line of all days.                                  *)

Absolute(intervals, date) ==
  [k \in DOMAIN intervals |-> <<date * Day + intervals[k][1],
                                date * Day + intervals[k][2]>>]

TimedRun(r) == IntervalsOf(r.sheet, r.shift, {"running"}) # << >>

\* Where the machine ran; without times it is put at the start.
buildRun(r) ==
  LET running == IntervalsOf(r.sheet, r.shift, {"running"})
      breaks == IntervalsOf(r.sheet, r.shift, {"breakShift"})
      all == mergeIntervals(IntervalsOf(r.sheet, r.shift, RowKeys))
      start == IF all = << >> THEN Windows[r.shift][1] ELSE all[1][1]
  IN  Absolute(IF running # << >> THEN subtractIntervals(running, breaks)
               ELSE IF r.run > 0 THEN << <<start, start + r.run>> >>
               ELSE << >>, r.date)

\* A sheet is compared with those of two days before and after it.
Overlaps(r, other) ==
  /\ ~other.voided /\ TimedRun(other)
  /\ other.date \in (r.date - 2) .. (r.date + 2)
  /\ \E k \in DOMAIN buildRun(r) :
       duration(intersectIntervals(buildRun(other), buildRun(r)[k])) > 0

\* The share of each of some records in their intervals: a stretch that
\* several cover is divided between them.  Shares are counted in parts of a
\* minute that any number of records divides.
Parts == FoldLeft(LAMBDA product, k : product * k, 1,
                  [k \in 1..Cardinality(Ids) |-> k])

FaultSegments(points) ==
  {s \in points \X points : s[1] < s[2]}

\* Stretches between neighbouring points where an interval starts or ends.
Segments(points) ==
  {s \in points \X points :
     s[1] < s[2] /\ \A x \in points : x <= s[1] \/ s[2] <= x}

Points(ids, intervals) ==
  UNION {{i[1], i[2]} : i \in UNION {Range(intervals[r]) : r \in ids}}

\* The records that have a stretch, and what it gives to each of them.
Active(ids, intervals, s) ==
  {r \in ids : \E i \in Range(intervals[r]) : i[1] < s[2] /\ i[2] > s[1]}

Part(ids, intervals, s) ==
  (s[2] - s[1]) * (Parts \div Cardinality(Active(ids, intervals, s)))

allocateIntervalUnion(ids, intervals) ==
  LET segments == Segments(Points(ids, intervals))
  IN  [r \in ids |->
         MapThenSumSet(LAMBDA s : Part(ids, intervals, s),
                       {s \in segments : r \in Active(ids, intervals, s)})]
-----------------------------------------------------------------------------
Idle == [step |-> "idle"]

OeeInit ==
  /\ records = << >>
  /\ hours = 0
  /\ holder = Absent
  /\ call = [c \in Operators |-> Idle]

\* A sheet is filled in, and its figures are worked out.
submitOeeRecord(c) ==
  /\ call[c] = Idle
  /\ Ids # DOMAIN records
  /\ \E r \in SheetRecords : call' = [call EXCEPT ![c] = [step |-> "lock", record |-> r]]
  /\ UNCHANGED <<records, hours, holder>>

FaultLock(c) ==
  /\ call[c].step = "lock"
  /\ holder' = c
  /\ call' = [call EXCEPT ![c].step = "check"]
  /\ UNCHANGED <<records, hours>>

\* SELECT ... FOR UPDATE waits for the lock.
Lock(c) ==
  /\ call[c].step = "lock"
  /\ holder = Absent
  /\ holder' = c
  /\ call' = [call EXCEPT ![c].step = "check"]
  /\ UNCHANGED <<records, hours>>

\* A run that overlaps another is refused, which ends the transaction.
Check(c) ==
  LET r == call[c].record
      refused == TimedRun(r) /\ \E i \in DOMAIN records : Overlaps(r, records[i])
  IN  /\ call[c].step = "check"
      /\ call' = [call EXCEPT ![c] = IF refused THEN Idle
                                     ELSE [@ EXCEPT !.step = "commit"]]
      /\ holder' = IF refused THEN Absent ELSE holder
      /\ UNCHANGED <<records, hours>>

\* Math.round(run / 60 * 100) / 100.
AddedHours(run) == (200 * run + HourMinutes) \div (2 * HourMinutes)

\* The record and the hours are committed together.
Commit(c) ==
  /\ call[c].step = "commit"
  /\ Ids # DOMAIN records
  /\ LET id == Min(Ids \ DOMAIN records) IN
     records' = [i \in DOMAIN records \cup {id} |->
                   IF i = id THEN call[c].record ELSE records[i]]
  /\ hours' = hours + AddedHours(call[c].record.run)
  /\ holder' = Absent
  /\ call' = [call EXCEPT ![c] = Idle]

\* A record is marked as void, once more if it is already; its hours stay.
voidRecord(i) ==
  /\ records' = [records EXCEPT ![i].voided = TRUE]
  /\ UNCHANGED <<hours, holder, call>>

OeeNext ==
  \/ \E c \in Operators :
       submitOeeRecord(c) \/ Lock(c) \/ Check(c) \/ Commit(c)
  \/ \E i \in DOMAIN records : voidRecord(i)

OeeSpec == OeeInit /\ [][OeeNext]_oeeVars
-----------------------------------------------------------------------------
(* Properties.                                                             *)

Live == {i \in DOMAIN records : ~records[i].voided}
Timed == {i \in Live : TimedRun(records[i])}
Run(i) == Minutes(buildRun(records[i]))

\* Records keep their type.
OeeTypeOK ==
  /\ DOMAIN records \subseteq Ids
  /\ \A i \in DOMAIN records :
       LET r == records[i] IN
       /\ r.sheet \in Sheets /\ r.shift \in Shifts /\ r.date \in Dates
       /\ {r.duration, r.planned, r.unplanned, r.production, r.run, r.pa2}
            \subseteq Nat
  /\ hours \in Nat
  /\ holder \in Operators \cup {Absent}

\* However sheets are sent side by side, and voided in between, no two that
\* count have the machine running in the same minute.
RunsNeverOverlap ==
  \A i, j \in Timed : i # j => Run(i) \cap Run(j) = {}

\* The minutes of one row of a sheet, one by one: those from the start until
\* the end on the clock.
OnTheClock(t) ==
  IF t[1] <= t[2] THEN t[1] .. (t[2] - 1) ELSE (t[1] .. (Day - 1)) \cup (0 .. (t[2] - 1))

RowMinutes(sheet, key) ==
  UNION {UNION {OnTheClock(t) : t \in Range(sheet[k].times)} :
           k \in {n \in DOMAIN sheet : sheet[n].key = key}}

\* The times of a sheet lie within half a day of the middle of the shift.
NearShift(r) ==
  LET middle == Windows[r.shift][1] + Windows[r.shift][2] IN
  \A i \in Range(IntervalsOf(r.sheet, r.shift, RowKeys)) :
    2 * i[1] >= middle - Day /\ 2 * i[2] <= middle + Day

\* The run time that is stored, and counted to the machine, is the number of
\* minutes on the sheet in which it ran and nobody had a break, and it is what
\* the reports take from the time line later: times in disorder, times that
\* overlap or pass midnight count every minute once.  Times that are half a
\* day away from the shift are excepted: one may be taken for the evening
\* before and the next for the evening after.
RunMinutesAreRight ==
  \A i \in DOMAIN records : TimedRun(records[i]) /\ NearShift(records[i]) =>
    LET r == records[i]
        ran == RowMinutes(r.sheet, "running") \ RowMinutes(r.sheet, "breakShift")
    IN  /\ r.run = Cardinality(ran)
        /\ r.run = Cardinality(Run(i))
        /\ {m % Day : m \in Run(i)} = ran

\* The operating hours are those of all the sheets that were ever accepted.
HoursOf(rows) == MapThenSumSet(LAMBDA i : AddedHours(rows[i].run), DOMAIN rows)

HoursAddUp == hours = HoursOf(records)

\* The planned stops of the records that count, as far as they have times.
PlannedStops ==
  [i \in Live |-> mergeIntervals(Absolute(IntervalsOf(records[i].sheet, records[i].shift,
                                                      PlannedKeys), records[i].date))]

\* What the reports give to each record adds up to the minutes that the
\* records cover together, no minute twice and none left out.  (The stops are
\* bound to a name, and so worked out once in a state.)
SharesAddUp ==
  \A planned \in {PlannedStops} :
    LET shares == allocateIntervalUnion(Live, planned)
    IN  MapThenSumSet(LAMBDA i : shares[i], Live)
          = Parts * Cardinality(UNION {Minutes(planned[i]) : i \in Live})

\* However sheets come in, every minute counts once: on the sheet, in the hours
\* of the machine, and in the reports.
MinutesCountOnce == RunMinutesAreRight /\ HoursAddUp /\ SharesAddUp
=============================================================================
