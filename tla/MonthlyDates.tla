---------------------------- MODULE MonthlyDates ----------------------------
(***************************************************************************)
(* Due dates of schedules that repeat every so many months (MONTHLY,       *)
(* QUARTERLY, YEARLY).  The day is that of the start, the anchor, or the   *)
(* last day of a month that is too short for it.  A schedule that is taken *)
(* up again after a pause jumps to the first date that has not gone by.    *)
(*                                                                         *)
(* Months are counted from January of a year before a leap year.           *)
(***************************************************************************)
EXTENDS Integers, FiniteSetsExt

CONSTANTS
  Anchors,    \* days of the month, 1 to 31
  MonthSteps, \* months from one date to the next
  LastMonth,  \* the last month looked at
  DayTimes    \* times of day

VARIABLES
  first,      \* the date with which the schedule began
  anchor,     \* anchorDayOfMonth
  step,       \* months from one date to the next
  due,        \* nextDueDate
  past        \* how many dates lie between the first and the next

months == <<first, anchor, step, due, past>>

DaysIn(month) ==
  LET m == month % 12 IN
  IF m = 1 THEN IF (month \div 12) % 4 = 1 THEN 29 ELSE 28
  ELSE IF m \in {3, 5, 8, 10} THEN 30 ELSE 31

Moments ==
  UNION {[month : {m}, day : Anchors \cap 1..DaysIn(m), time : DayTimes] :
         m \in 0..LastMonth}

Earlier(d, e) ==
  \/ d.month < e.month
  \/ d.month = e.month /\ d.day < e.day
  \/ d.month = e.month /\ d.day = e.day /\ d.time < e.time

FaultNextDueDate(date, count, day) ==
  LET month == date.month + count
  IN  [date EXCEPT !.month = month, !.day = Min({@, DaysIn(month)})]

\* calculateNextDueDate: 'count' months on, on the anchor if the month has it.
calculateNextDueDate(date, count, day) ==
  LET month == date.month + count
  IN  [date EXCEPT !.month = month, !.day = Min({day, DaysIn(month)})]

\* The loop that goes on date by date.  A date is in a later month than the one
\* before, so that after LastMonth + 1 of them none in LastMonth is to come.
OnTo(date, now, count, day) ==
  LET after[k \in 0..LastMonth + 1] ==
        IF k = 0 THEN date ELSE calculateNextDueDate(after[k - 1], count, day)
  IN  after[Min({k \in 0..LastMonth + 1 : ~Earlier(after[k], now)})]

\* projectNextFutureDueDate: one jump into the month of 'now' or a little
\* before it, and the rest by the loop.
projectNextFutureDueDate(date, now, count, day) ==
  LET jumps == (now.month - date.month) \div count
  IN  IF ~Earlier(date, now) THEN date
      ELSE OnTo(IF jumps > 0
                THEN calculateNextDueDate(date, jumps * count, day) ELSE date,
                now, count, day)

\* A start that was changed while the schedule ran leaves a due date that is
\* not on the anchor.
Init ==
  /\ first \in {d \in Moments : d.month < 12}
  /\ anchor \in Anchors /\ step \in MonthSteps
  /\ due = first /\ past = 0

\* An order is generated.
Generate ==
  /\ due.month + step <= LastMonth
  /\ due' = calculateNextDueDate(due, step, anchor)
  /\ past' = past + 1
  /\ UNCHANGED <<first, anchor, step>>

\* A paused schedule is taken up again.
Resume ==
  /\ \E now \in Moments :
       /\ Earlier(due, now)
       /\ now.month + step <= LastMonth
       /\ due' = projectNextFutureDueDate(due, now, step, anchor)
       /\ past' = past + (due'.month - due.month) \div step
  /\ UNCHANGED <<first, anchor, step>>

Next == Generate \/ Resume

Spec == Init /\ [][Next]_months
-----------------------------------------------------------------------------
(* Properties.                                                             *)

\* The n-th date after the first.
Occurrence(n) ==
  IF n = 0 THEN first
  ELSE LET m == first.month + n * step
       IN  [first EXCEPT !.month = m, !.day = Min({anchor, DaysIn(m)})]

\* However many orders and pauses lie behind, the next date is the one that
\* counting from the first gives (a short month in between leaves no trace),
\* and the jump of a pause that ends at any moment lands on the first date
\* that has not gone by.
MonthsAreRegular ==
  /\ due = Occurrence(past)
  /\ \A now \in Moments :
       now.month + step <= LastMonth =>
         LET n == Min({k \in past..(past + LastMonth + 1) :
                         ~Earlier(Occurrence(k), now)})
         IN  projectNextFutureDueDate(due, now, step, anchor) = Occurrence(n)
=============================================================================
