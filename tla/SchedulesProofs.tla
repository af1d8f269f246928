-------------------------- MODULE SchedulesProofs ---------------------------
(***************************************************************************)
(* Theorems about Schedules, for every number of schedules and timers, any *)
(* interval and lead: cancelled schedules leave no work, due dates never   *)
(* go back, and the disciplined use of the schedules implements Calendar.  *)
(***************************************************************************)
EXTENDS Schedules, FiniteSetTheorems, TLAPS

\* Nobody names a date of his own or makes a schedule another one.
Disciplined == Handlers \cap {"chooseDate", "changeKind", "changeStart"} = {}
-----------------------------------------------------------------------------
(* Rows of schedules.                                                      *)

\* Writing one field.
LEMMA SetStatus ==
  ASSUME NEW row \in Row, NEW x \in ScheduleStatuses
  PROVE  /\ [row EXCEPT !.status = x] \in Row
         /\ [row EXCEPT !.status = x].status = x
         /\ [row EXCEPT !.status = x].version = row.version
         /\ [row EXCEPT !.status = x].kind = row.kind
         /\ [row EXCEPT !.status = x].dueDate = row.dueDate
         /\ [row EXCEPT !.status = x].dueMeter = row.dueMeter
  BY DEF Row

LEMMA SetKind ==
  ASSUME NEW row \in Row, NEW x \in Kinds
  PROVE  /\ [row EXCEPT !.kind = x] \in Row
         /\ [row EXCEPT !.kind = x].status = row.status
         /\ [row EXCEPT !.kind = x].version = row.version
         /\ [row EXCEPT !.kind = x].kind = x
         /\ [row EXCEPT !.kind = x].dueDate = row.dueDate
         /\ [row EXCEPT !.kind = x].dueMeter = row.dueMeter
  BY DEF Row

LEMMA SetAuto ==
  ASSUME NEW row \in Row, NEW x \in BOOLEAN
  PROVE  /\ [row EXCEPT !.auto = x] \in Row
         /\ [row EXCEPT !.auto = x].status = row.status
         /\ [row EXCEPT !.auto = x].version = row.version
         /\ [row EXCEPT !.auto = x].kind = row.kind
         /\ [row EXCEPT !.auto = x].dueDate = row.dueDate
         /\ [row EXCEPT !.auto = x].dueMeter = row.dueMeter
  BY DEF Row

LEMMA SetStart ==
  ASSUME NEW row \in Row, NEW x \in Int
  PROVE  /\ [row EXCEPT !.start = x] \in Row
         /\ [row EXCEPT !.start = x].status = row.status
         /\ [row EXCEPT !.start = x].version = row.version
         /\ [row EXCEPT !.start = x].kind = row.kind
         /\ [row EXCEPT !.start = x].dueDate = row.dueDate
         /\ [row EXCEPT !.start = x].dueMeter = row.dueMeter
  BY DEF Row

LEMMA SetDueDate ==
  ASSUME NEW row \in Row, NEW x \in Dates
  PROVE  /\ [row EXCEPT !.dueDate = x] \in Row
         /\ [row EXCEPT !.dueDate = x].status = row.status
         /\ [row EXCEPT !.dueDate = x].version = row.version
         /\ [row EXCEPT !.dueDate = x].kind = row.kind
         /\ [row EXCEPT !.dueDate = x].dueDate = x
         /\ [row EXCEPT !.dueDate = x].dueMeter = row.dueMeter
  BY DEF Row

LEMMA SetDueMeter ==
  ASSUME NEW row \in Row, NEW x \in Dates
  PROVE  /\ [row EXCEPT !.dueMeter = x] \in Row
         /\ [row EXCEPT !.dueMeter = x].status = row.status
         /\ [row EXCEPT !.dueMeter = x].version = row.version
         /\ [row EXCEPT !.dueMeter = x].kind = row.kind
         /\ [row EXCEPT !.dueMeter = x].dueDate = row.dueDate
         /\ [row EXCEPT !.dueMeter = x].dueMeter = x
  BY DEF Row

\* Written writes the row and gives it a new version.
LEMMA WrittenRow ==
  ASSUME schedules \in [Schedules -> Row], NEW s \in Schedules,
         NEW row \in Row, Written(s, row)
  PROVE  /\ schedules' \in [Schedules -> Row]
         /\ \A r \in Schedules \ {s} : schedules'[r] = schedules[r]
         /\ schedules'[s].version = row.version + 1
         /\ schedules'[s].status = row.status
         /\ schedules'[s].kind = row.kind
         /\ schedules'[s].dueDate = row.dueDate
         /\ schedules'[s].dueMeter = row.dueMeter
<1> DEFINE new == [row EXCEPT !.version = @ + 1]
<1>1. /\ new \in Row
      /\ new.version = row.version + 1
      /\ new.status = row.status /\ new.kind = row.kind
      /\ new.dueDate = row.dueDate /\ new.dueMeter = row.dueMeter
  BY DEF Row
<1>2. schedules' = [schedules EXCEPT ![s] = new]
  BY DEF Written
<1> HIDE DEF new
<1>3. schedules' \in [Schedules -> Row]
  BY <1>1, <1>2
<1>4. QED BY <1>1, <1>2, <1>3
-----------------------------------------------------------------------------
(* Dates.                                                                  *)

\* date is one of the occurrences from 'from' on.
Occurrence(s, from, date) ==
  /\ from \in Int /\ date \in Int /\ from <= date
  /\ \E jumps \in 0..(date - from) : date = from + jumps * Interval[s]

LEMMA DivisionBounds ==
  ASSUME NEW a \in Nat, NEW k \in Nat \ {0}
  PROVE  a \div k \in Nat
  OBVIOUS

LEMMA ProductBounds ==
  ASSUME NEW j \in Nat, NEW k \in Nat \ {0}
  PROVE  j * k \in Nat /\ j <= j * k
<1>1. k = 1 + (k - 1) /\ k - 1 \in Nat
  OBVIOUS
<1>2. j * k = j + j * (k - 1)
  BY <1>1
<1>3. j * (k - 1) \in Nat
  BY <1>1
<1>4. QED BY <1>2, <1>3

LEMMA Projection ==
  ASSUME NEW s \in Schedules, NEW date \in Int, day \in Nat
  PROVE  Occurrence(s, date, projectNextFutureDueDate(s, date))
<1> DEFINE k == Interval[s]
           jumps == (day - date + k - 1) \div k
<1>1. k \in Nat \ {0}
  BY ScheduleConstants
<1>2. CASE date >= day
  <2>1. projectNextFutureDueDate(s, date) = date
    BY <1>2 DEF projectNextFutureDueDate
  <2>2. 0 \in 0..(date - date) /\ date = date + 0 * Interval[s]
    BY <1>1
  <2>3. QED BY <2>1, <2>2 DEF Occurrence
<1>3. CASE date < day
  <2>1. day - date + k - 1 \in Nat
    BY <1>1, <1>3
  <2>2. jumps \in Nat
    BY <1>1, <2>1, DivisionBounds
  <2>3. projectNextFutureDueDate(s, date) = date + jumps * k
    BY <1>3 DEF projectNextFutureDueDate
  <2> HIDE DEF jumps
  <2>4. jumps * k \in Nat /\ jumps <= jumps * k
    BY <1>1, <2>2, ProductBounds
  <2>5. QED BY <2>2, <2>3, <2>4 DEF Occurrence
<1>4. QED BY <1>2, <1>3
-----------------------------------------------------------------------------
(* The invariant.                                                          *)

\* What holds of a transaction as long as nobody wrote the schedule since.
Current(t) ==
  LET now == schedules[t.schedule] IN
  /\ now.status \notin Ended
  /\ t.row.version = now.version
  /\ t.row.kind = now.kind
  /\ t.row.status # "DRAFT"
  /\ t.row.status = "CANCELLED" => t.do = "cancel"
  /\ t.do = "cancel" => \A o \in OrdersOf(t.schedule) :
                          Outstanding(o) => o.code \in t.touched
  /\ t.do # "generate" => t.row.dueDate = now.dueDate
  /\ t.do = "generate" =>
       /\ now.status = "ACTIVE"
       /\ now.kind = "METER" => t.row.dueDate = now.dueDate
       /\ now.kind # "METER" =>
            /\ t.row.dueDate \in Int
            /\ now.dueDate # None
                 => t.row.dueDate = now.dueDate + Interval[t.schedule]
       /\ Disciplined => t.order.due = now.dueDate

OpenRight ==
  \A t \in open :
    /\ t.version <= schedules[t.schedule].version
    /\ t.do = "generate" => /\ t.order \in OrderRow
                            /\ t.order.schedule = t.schedule
                            /\ t.order.status = "PENDING"
    /\ t.version = schedules[t.schedule].version => Current(t)

\* A timer remembers the due date that goes with the version.
BatchRight ==
  \A t \in Timers : \A n \in batch[t] :
    /\ n.version <= schedules[n.schedule].version
    /\ n.version = schedules[n.schedule].version
         => n.due = schedules[n.schedule].dueDate

DraftsIssuedNothing ==
  \A s \in Schedules : schedules[s].status = "DRAFT" => issued[s] = << >>

\* Meter schedules, and only they, have no due date.
KindsTell ==
  \A s \in Schedules : schedules[s].kind = "METER" <=> schedules[s].dueDate = None

IInv ==
  /\ TypeOK
  /\ IsFiniteSet(orders)
  /\ OpenRight
  /\ BatchRight
  /\ CancelledLeavesNoWork
  /\ DraftsIssuedNothing
  /\ Disciplined => KindsTell
-----------------------------------------------------------------------------
(* Handlers that depend on the schedule alone.                             *)

\* What they may make of a schedule.
Planned(s, row) ==
  LET now == schedules[s] IN
  /\ row \in Row
  /\ row.version = now.version
  /\ now.status \notin Ended
  /\ row.status # "CANCELLED"
  /\ row.status = "DRAFT" => now.status = "DRAFT"
  /\ now.status # "DRAFT" => \/ row.dueDate = now.dueDate
                             \/ Occurrence(s, now.dueDate, row.dueDate)
  /\ now.status # "DRAFT" => row.dueMeter = now.dueMeter
  /\ Disciplined => /\ row.kind = now.kind
                    /\ row.dueDate = None <=> now.dueDate = None

Replans(s) ==
  /\ \E row \in Row : Planned(s, row) /\ Written(s, row)
  /\ calls' \in Nat
  /\ UNCHANGED <<orders, issued, batch, open, world>>

LEMMA ActivateReplans ==
  ASSUME IInv, NEW s \in Schedules, activate(s)
  PROVE  Replans(s)
<1> DEFINE row == schedules[s]
           from == IF row.status = "DRAFT" THEN row.start ELSE row.dueDate
           projects == /\ row.kind = "DATE"
                       /\ row.status = "DRAFT" \/ (from # None /\ from < day)
           date == IF projects THEN projectNextFutureDueDate(s, from)
                   ELSE row.dueDate
           meter == IF row.status = "DRAFT" /\ row.kind = "METER"
                    THEN hours[s] + Interval[s] ELSE row.dueMeter
           r1 == [row EXCEPT !.status = "ACTIVE"]
           r2 == [r1 EXCEPT !.dueDate = date]
           r3 == [r2 EXCEPT !.dueMeter = meter]
<1>1. /\ row \in Row /\ row.start \in Int /\ row.dueDate \in Dates
      /\ row.dueMeter \in Dates
  BY DEF IInv, TypeOK, Row
<1>2. /\ row.status \in {"DRAFT", "PAUSED"}
      /\ Written(s, [row EXCEPT !.status = "ACTIVE", !.dueDate = date,
                                !.dueMeter = meter])
      /\ calls' = calls + 1
      /\ UNCHANGED <<orders, issued, batch, open, world>>
  BY DEF activate, Call
<1>3. projects => from \in Int
  BY <1>1 DEF Dates
<1>4. projects => Occurrence(s, from, date)
  BY <1>3, Projection DEF IInv, TypeOK
<1>5. /\ date \in Dates
      /\ row.status # "DRAFT" =>
           date = row.dueDate \/ Occurrence(s, row.dueDate, date)
      /\ projects => date \in Int
  <2>1. CASE projects
    BY <1>1, <1>4, <2>1 DEF Occurrence, Dates
  <2>2. CASE ~projects
    BY <1>1, <2>2
  <2>3. QED BY <2>1, <2>2
<1>6. meter \in Dates /\ (row.status # "DRAFT" => meter = row.dueMeter)
  <2>1. hours[s] + Interval[s] \in Int
    BY ScheduleConstants DEF IInv, TypeOK
  <2>2. QED BY <1>1, <2>1 DEF Dates
<1>7. Disciplined => (date = None <=> row.dueDate = None)
  <2>1. CASE projects
    <3>1. Disciplined => row.dueDate # None
      BY <2>1 DEF IInv, KindsTell
    <3>2. date \in Int
      BY <1>5, <2>1
    <3>3. date # None
      BY <3>2, ScheduleConstants
    <3>4. QED BY <3>1, <3>3
  <2>2. CASE ~projects
    BY <2>2
  <2>3. QED BY <2>1, <2>2
<1>8. r3 = [row EXCEPT !.status = "ACTIVE", !.dueDate = date, !.dueMeter = meter]
  OBVIOUS
<1> HIDE DEF date, meter, projects, from
<1>9. /\ r1 \in Row /\ r1.status = "ACTIVE" /\ r1.version = row.version
      /\ r1.kind = row.kind
  <2>1. "ACTIVE" \in ScheduleStatuses
    BY DEF ScheduleStatuses
  <2>2. QED BY <1>1, <2>1, SetStatus
<1>10. /\ r2 \in Row /\ r2.status = "ACTIVE" /\ r2.version = row.version
       /\ r2.kind = row.kind /\ r2.dueDate = date
  <2> HIDE DEF r1
  <2> QED BY <1>5, <1>9, SetDueDate
<1>11. /\ r3 \in Row /\ r3.status = "ACTIVE" /\ r3.version = row.version
       /\ r3.kind = row.kind /\ r3.dueDate = date /\ r3.dueMeter = meter
  <2> HIDE DEF r2
  <2> QED BY <1>6, <1>10, SetDueMeter
<1>12. Written(s, r3)
  BY <1>2, <1>8
<1> HIDE DEF r3
<1>13. Planned(s, r3)
  BY <1>2, <1>5, <1>6, <1>7, <1>11 DEF Planned, Ended
<1>14. calls' \in Nat
  BY <1>2 DEF IInv, TypeOK
<1>15. QED BY <1>2, <1>11, <1>12, <1>13, <1>14 DEF Replans

LEMMA PauseReplans ==
  ASSUME IInv, NEW s \in Schedules, pause(s)
  PROVE  Replans(s)
<1> DEFINE row == schedules[s]
           new == [row EXCEPT !.status = "PAUSED"]
<1>1. row \in Row
  BY DEF IInv, TypeOK
<1>2. /\ row.status = "ACTIVE" /\ Written(s, new) /\ calls' = calls + 1
      /\ UNCHANGED <<orders, issued, batch, open, world>>
  BY DEF pause, Call
<1>3. /\ new \in Row /\ new.status = "PAUSED" /\ new.version = row.version
      /\ new.kind = row.kind /\ new.dueDate = row.dueDate
      /\ new.dueMeter = row.dueMeter
  <2>1. "PAUSED" \in ScheduleStatuses
    BY DEF ScheduleStatuses
  <2>2. QED BY <1>1, <2>1, SetStatus
<1> HIDE DEF new
<1>4. Planned(s, new)
  BY <1>2, <1>3 DEF Planned, Ended
<1>5. calls' \in Nat
  BY <1>2 DEF IInv, TypeOK
<1>6. QED BY <1>2, <1>3, <1>4, <1>5 DEF Replans

LEMMA UpdateReplans ==
  ASSUME IInv, NEW s \in Schedules, update(s)
  PROVE  Replans(s)
<1> DEFINE row == schedules[s]
<1>1. row \in Row /\ row.dueDate \in Dates /\ row.auto \in BOOLEAN
  BY DEF IInv, TypeOK, Row
<1>2. /\ row.status \notin Ended
      /\ UNCHANGED <<orders, issued, batch, open, world>>
  BY DEF update
<1>3. calls' = calls + 1
  BY DEF update, Call
<1>4. calls' \in Nat
  BY <1>3 DEF IInv, TypeOK
<1>5. row.status # "CANCELLED"
  BY <1>2 DEF Ended
<1>6. CASE Call("update") /\ Written(s, [row EXCEPT !.auto = ~row.auto])
  <2> DEFINE new == [row EXCEPT !.auto = ~row.auto]
  <2>1. (~row.auto) \in BOOLEAN
    OBVIOUS
  <2>2. /\ new \in Row /\ new.status = row.status /\ new.version = row.version
        /\ new.kind = row.kind /\ new.dueDate = row.dueDate
        /\ new.dueMeter = row.dueMeter
    BY <1>1, <2>1, SetAuto
  <2> HIDE DEF new
  <2>3. Planned(s, new)
    BY <1>2, <1>5, <2>2 DEF Planned
  <2>4. QED BY <1>2, <1>4, <1>6, <2>2, <2>3 DEF Replans, new
<1>7. ASSUME NEW kind \in Kinds, Call("changeKind"),
             Written(s, [row EXCEPT !.kind = kind])
      PROVE  Replans(s)
  <2> DEFINE new == [row EXCEPT !.kind = kind]
  <2>1. /\ new \in Row /\ new.status = row.status /\ new.version = row.version
        /\ new.dueDate = row.dueDate /\ new.dueMeter = row.dueMeter
    BY <1>1, SetKind
  <2>2. ~Disciplined
    BY <1>7 DEF Call, Disciplined
  <2> HIDE DEF new
  <2>3. Planned(s, new)
    BY <1>2, <1>5, <2>1, <2>2 DEF Planned
  <2>4. QED BY <1>2, <1>4, <1>7, <2>1, <2>3 DEF Replans, new
<1>8. ASSUME NEW start \in Days, Call("changeStart"),
             Written(s, [row EXCEPT
               !.start = start,
               !.dueDate = IF row.status = "DRAFT" THEN start ELSE row.dueDate])
      PROVE  Replans(s)
  <2> DEFINE date == IF row.status = "DRAFT" THEN start ELSE row.dueDate
             r1 == [row EXCEPT !.start = start]
             r2 == [r1 EXCEPT !.dueDate = date]
  <2>1. start \in Int
    BY ScheduleConstants DEF Days
  <2>2. date \in Dates /\ (row.status # "DRAFT" => date = row.dueDate)
    BY <1>1, <2>1 DEF Dates
  <2>3. r2 = [row EXCEPT !.start = start, !.dueDate = date]
    OBVIOUS
  <2>4. Written(s, r2)
    BY <1>8, <2>3
  <2> HIDE DEF date
  <2>5. /\ r1 \in Row /\ r1.status = row.status /\ r1.version = row.version
        /\ r1.dueMeter = row.dueMeter
    BY <1>1, <2>1, SetStart
  <2>6. /\ r2 \in Row /\ r2.status = row.status /\ r2.version = row.version
        /\ r2.dueDate = date /\ r2.dueMeter = row.dueMeter
    <3> HIDE DEF r1
    <3> QED BY <2>2, <2>5, SetDueDate
  <2>7. ~Disciplined
    BY <1>8 DEF Call, Disciplined
  <2> HIDE DEF r2
  <2>8. Planned(s, r2)
    BY <1>2, <1>5, <2>2, <2>6, <2>7 DEF Planned
  <2>9. QED BY <1>2, <1>4, <2>4, <2>6, <2>8 DEF Replans
<1>9. QED BY <1>6, <1>7, <1>8 DEF update
-----------------------------------------------------------------------------
(* Transactions as they begin.                                             *)

\* What generateWorkOrder makes of a schedule.
LEMMA AdvancedRow ==
  ASSUME IInv, NEW s \in Schedules, NEW due \in Dates
  PROVE  LET row == schedules[s]
             new == Advanced(s, row, due)
         IN  /\ new \in Row
             /\ new.status = row.status /\ new.version = row.version
             /\ new.kind = row.kind
             /\ row.kind = "METER" => new.dueDate = row.dueDate
             /\ row.kind # "METER" =>
                  /\ new.dueDate \in Int
                  /\ row.dueDate # None => new.dueDate = row.dueDate + Interval[s]
<1> DEFINE row == schedules[s]
<1>1. row \in Row /\ row.dueDate \in Dates /\ row.dueMeter \in Dates
  BY DEF IInv, TypeOK, Row
<1>2. Interval[s] \in Nat /\ hours[s] \in Nat /\ day \in Nat
  BY ScheduleConstants DEF IInv, TypeOK
<1>3. CASE row.kind = "METER"
  <2> DEFINE meter == IF hours[s] < Target(row) THEN hours[s] + Interval[s]
                      ELSE Target(row) + Interval[s]
  <2>1. Target(row) \in Int
    BY <1>1 DEF Target, Dates
  <2>2. meter \in Dates
    BY <1>2, <2>1 DEF Dates
  <2>3. Advanced(s, row, due) = [row EXCEPT !.dueMeter = meter]
    BY <1>3 DEF Advanced
  <2> HIDE DEF meter
  <2>4. QED BY <1>1, <1>3, <2>2, <2>3, SetDueMeter
<1>4. CASE row.kind # "METER"
  <2> DEFINE base == IF row.dueDate # None THEN row.dueDate
                     ELSE IF due # None THEN due ELSE day
             date == base + Interval[s]
  <2>1. base \in Int /\ (row.dueDate # None => base = row.dueDate)
    BY <1>1, <1>2 DEF Dates
  <2>2. Advanced(s, row, due) = [row EXCEPT !.dueDate = date]
    BY <1>4 DEF Advanced, calculateNextDueDate
  <2> HIDE DEF base
  <2>3. date \in Int /\ (row.dueDate # None => date = row.dueDate + Interval[s])
    BY <1>2, <2>1
  <2>4. date \in Dates
    BY <2>3 DEF Dates
  <2> HIDE DEF date
  <2>5. QED BY <1>1, <1>4, <2>2, <2>3, <2>4, SetDueDate
<1>5. QED BY <1>3, <1>4

LEMMA KeyType ==
  ASSUME IInv, NEW s \in Schedules, NEW force \in BOOLEAN, NEW due \in Dates
  PROVE  GenerationKey(s, schedules[s], force, due) \in Keys
<1>1. schedules[s].dueMeter \in Dates
  BY DEF IInv, TypeOK, Row
<1>2. Target(schedules[s]) \in Dates
  BY <1>1 DEF Target, Dates
<1>3. None \in Dates
  BY DEF Dates
<1>4. QED BY <1>2, <1>3 DEF GenerationKey, Keys

\* A transaction that begins, as right as it will ever be.
Fresh(t) ==
  /\ t \in Transaction
  /\ t.version = schedules[t.schedule].version
  /\ t.do = "generate" => /\ t.order \in OrderRow
                          /\ t.order.schedule = t.schedule
                          /\ t.order.status = "PENDING"
  /\ Current(t)

LEMMA GenerationFresh ==
  ASSUME IInv, NEW by \in Timers \cup {None}, NEW s \in Schedules,
         NEW force \in BOOLEAN, NEW date \in Dates,
         schedules[s].status = "ACTIVE",
         Disciplined => date \in {None, schedules[s].dueDate}
  PROVE  Fresh(Generation(by, s, force, date))
<1> DEFINE row == schedules[s]
           due == IF date # None THEN date ELSE row.dueDate
           order == [code |-> Cardinality(orders) + 1, schedule |-> s,
                     key |-> GenerationKey(s, row, force, due), due |-> due,
                     status |-> "PENDING", revived |-> FALSE]
           new == Advanced(s, row, due)
           t == [do |-> "generate", by |-> by, schedule |-> s,
                 version |-> row.version, row |-> new, order |-> order,
                 touched |-> {}]
<1>1. Generation(by, s, force, date) = t
  BY DEF Generation
<1>2. row \in Row /\ row.dueDate \in Dates /\ row.version \in Nat
  BY DEF IInv, TypeOK, Row
<1>3. due \in Dates /\ (Disciplined => due = row.dueDate)
  BY <1>2
<1>4. GenerationKey(s, row, force, due) \in Keys
  BY <1>3, KeyType
<1>5. Cardinality(orders) + 1 \in Nat
  BY FS_CardinalityType DEF IInv
<1>6. "PENDING" \in OrderStatuses
  BY DEF OrderStatuses
<1>7. /\ new \in Row
      /\ new.status = row.status /\ new.version = row.version
      /\ new.kind = row.kind
      /\ row.kind = "METER" => new.dueDate = row.dueDate
      /\ row.kind # "METER" =>
           /\ new.dueDate \in Int
           /\ row.dueDate # None => new.dueDate = row.dueDate + Interval[s]
  BY <1>3, AdvancedRow
<1> HIDE DEF due, new
<1>8. /\ order \in OrderRow /\ order.schedule = s
      /\ order.status = "PENDING" /\ order.due = due
  BY <1>3, <1>4, <1>5, <1>6 DEF OrderRow
<1> HIDE DEF order
<1>9. t \in Transaction
  BY <1>2, <1>7, <1>8 DEF Transaction
<1>10. /\ t.do = "generate" /\ t.schedule = s /\ t.version = row.version
       /\ t.row = new /\ t.order = order
  OBVIOUS
<1> HIDE DEF t
<1>11. Current(t)
  BY <1>3, <1>7, <1>8, <1>10 DEF Current, Ended
<1>12. QED BY <1>1, <1>8, <1>9, <1>10, <1>11 DEF Fresh

LEMMA EndingFresh ==
  ASSUME IInv, NEW do \in {"complete", "cancel"}, NEW s \in Schedules,
         NEW touched \in SUBSET Nat,
         schedules[s].status \notin Ended,
         do = "cancel" => \A o \in OrdersOf(s) :
                            Outstanding(o) => o.code \in touched
  PROVE  Fresh(Ending(do, s, IF do = "cancel" THEN "CANCELLED" ELSE "COMPLETED",
                      touched))
<1> DEFINE row == schedules[s]
           status == IF do = "cancel" THEN "CANCELLED" ELSE "COMPLETED"
           new == [row EXCEPT !.status = status]
           t == [do |-> do, by |-> None, schedule |-> s, version |-> row.version,
                 row |-> new, order |-> None, touched |-> touched]
<1>1. Ending(do, s, status, touched) = t
  BY DEF Ending
<1>2. row \in Row /\ row.version \in Nat
  BY DEF IInv, TypeOK, Row
<1>3. status \in ScheduleStatuses
  BY DEF ScheduleStatuses
<1>4. /\ new \in Row /\ new.status = status /\ new.version = row.version
      /\ new.kind = row.kind /\ new.dueDate = row.dueDate
  <2> HIDE DEF status
  <2> QED BY <1>2, <1>3, SetStatus
<1> HIDE DEF new
<1>5. t \in Transaction
  BY <1>2, <1>4 DEF Transaction
<1>6. /\ t.do = do /\ t.schedule = s /\ t.version = row.version
      /\ t.row = new /\ t.touched = touched
  OBVIOUS
<1> HIDE DEF t
<1>7. Current(t)
  BY <1>4, <1>6 DEF Current
<1>8. QED BY <1>1, <1>5, <1>6, <1>7 DEF Fresh
-----------------------------------------------------------------------------
(* Every step keeps the invariant.                                         *)

\* A transaction stays right as long as nobody writes its schedule and no
\* order of it becomes unfinished again.
LEMMA CurrentKept ==
  ASSUME NEW t, Current(t),
         schedules'[t.schedule] = schedules[t.schedule],
         \A o \in OrdersOf(t.schedule)' : Outstanding(o) =>
           \E p \in OrdersOf(t.schedule) : Outstanding(p) /\ p.code = o.code
  PROVE  Current(t)'
  BY DEF Current

\* When the schedule s was written, what was read of it before is out of date.
LEMMA OthersKept ==
  ASSUME IInv, NEW s \in Schedules,
         \A r \in Schedules \ {s} : schedules'[r] = schedules[r],
         schedules'[s].version = schedules[s].version + 1,
         open' \subseteq open, batch' = batch,
         \A r \in Schedules \ {s} : \A o \in OrdersOf(r)' :
           Outstanding(o) =>
             \E p \in OrdersOf(r) : Outstanding(p) /\ p.code = o.code
  PROVE  OpenRight' /\ BatchRight'
<1>1. schedules[s].version \in Nat
  BY DEF IInv, TypeOK, Row
<1>2. ASSUME NEW t \in open'
      PROVE  /\ t.version <= schedules'[t.schedule].version
             /\ t.do = "generate" => /\ t.order \in OrderRow
                                     /\ t.order.schedule = t.schedule
                                     /\ t.order.status = "PENDING"
             /\ t.version = schedules'[t.schedule].version => Current(t)'
  <2>1. /\ t \in open /\ t.schedule \in Schedules /\ t.version \in Nat
        /\ t.version <= schedules[t.schedule].version
        /\ t.do = "generate" => /\ t.order \in OrderRow
                                /\ t.order.schedule = t.schedule
                                /\ t.order.status = "PENDING"
        /\ t.version = schedules[t.schedule].version => Current(t)
    BY <1>2 DEF IInv, TypeOK, Transaction, OpenRight
  <2>2. CASE t.schedule = s
    <3>1. t.version < schedules'[s].version
      BY <1>1, <2>1, <2>2
    <3>2. QED BY <1>1, <2>1, <2>2, <3>1
  <2>3. CASE t.schedule # s
    <3>1. schedules'[t.schedule] = schedules[t.schedule]
      BY <2>1, <2>3
    <3>2. \A o \in OrdersOf(t.schedule)' : Outstanding(o) =>
            \E p \in OrdersOf(t.schedule) :
              Outstanding(p) /\ p.code = o.code
      BY <2>1, <2>3
    <3>3. Current(t) => Current(t)'
      BY <3>1, <3>2, CurrentKept
    <3>4. QED BY <2>1, <3>1, <3>3
  <2>4. QED BY <2>2, <2>3
<1>3. OpenRight'
  BY <1>2 DEF OpenRight
<1>4. ASSUME NEW t \in Timers, NEW n \in batch[t]
      PROVE  /\ n.version <= schedules'[n.schedule].version
             /\ n.version = schedules'[n.schedule].version
                  => n.due = schedules'[n.schedule].dueDate
  <2>1. /\ n.schedule \in Schedules /\ n.version \in Nat
        /\ n.version <= schedules[n.schedule].version
        /\ n.version = schedules[n.schedule].version
             => n.due = schedules[n.schedule].dueDate
    BY DEF IInv, TypeOK, BatchRight
  <2>2. CASE n.schedule = s
    <3>1. n.version < schedules'[s].version
      BY <1>1, <2>1, <2>2
    <3>2. QED BY <1>1, <2>1, <2>2, <3>1
  <2>3. CASE n.schedule # s
    BY <2>1, <2>3
  <2>4. QED BY <2>2, <2>3
<1>5. BatchRight'
  BY <1>4 DEF BatchRight
<1>6. QED BY <1>3, <1>5

LEMMA ReplanInv ==
  ASSUME IInv, NEW s \in Schedules, Replans(s)
  PROVE  IInv'
<1>1. PICK row \in Row : Planned(s, row) /\ Written(s, row)
  BY DEF Replans
<1>2. /\ calls' \in Nat
      /\ UNCHANGED <<orders, issued, batch, open>>
      /\ UNCHANGED <<day, hours, unavailable, orphaned, clockIns, restarts>>
  BY DEF Replans, world
<1>3. schedules \in [Schedules -> Row]
  BY DEF IInv, TypeOK
<1>4. /\ schedules' \in [Schedules -> Row]
      /\ \A r \in Schedules \ {s} : schedules'[r] = schedules[r]
      /\ schedules'[s].version = row.version + 1
      /\ schedules'[s].status = row.status
      /\ schedules'[s].kind = row.kind
      /\ schedules'[s].dueDate = row.dueDate
  BY <1>1, <1>3, WrittenRow
<1>5. schedules'[s].version = schedules[s].version + 1
  BY <1>1, <1>4 DEF Planned
<1>6. TypeOK'
  BY <1>2, <1>4 DEF IInv, TypeOK
<1>7. IsFiniteSet(orders)'
  BY <1>2 DEF IInv
<1>8. OpenRight' /\ BatchRight'
  <2>1. \A r : OrdersOf(r)' = OrdersOf(r)
    BY <1>2 DEF OrdersOf
  <2>2. QED BY <1>2, <1>4, <1>5, <2>1, OthersKept
<1>9. CancelledLeavesNoWork'
  <2>1. \A o \in orders : o.schedule \in Schedules
    BY DEF IInv, TypeOK, OrderRow
  <2>2. schedules'[s].status # "CANCELLED"
    BY <1>1, <1>4 DEF Planned
  <2>3. QED BY <1>2, <1>4, <2>1, <2>2 DEF IInv, CancelledLeavesNoWork
<1>10. DraftsIssuedNothing'
  BY <1>1, <1>2, <1>4 DEF IInv, DraftsIssuedNothing, Planned
<1>11. Disciplined => KindsTell'
  BY <1>1, <1>4 DEF IInv, KindsTell, Planned
<1>12. QED BY <1>6, <1>7, <1>8, <1>9, <1>10, <1>11 DEF IInv, Disciplined

\* Steps that leave schedules and orders alone.
Quiet == UNCHANGED <<schedules, orders, issued>>

LEMMA QuietInv ==
  ASSUME IInv, TypeOK', Quiet, BatchRight',
         \A t \in open' \ open : Fresh(t)
  PROVE  IInv'
<1>1. \A r : OrdersOf(r)' = OrdersOf(r)
  BY DEF Quiet, OrdersOf
<1>2. \A t : Current(t) => Current(t)'
  BY <1>1, CurrentKept DEF Quiet
<1>3. ASSUME NEW t \in open'
      PROVE  /\ t.version <= schedules'[t.schedule].version
             /\ t.do = "generate" => /\ t.order \in OrderRow
                                     /\ t.order.schedule = t.schedule
                                     /\ t.order.status = "PENDING"
             /\ t.version = schedules'[t.schedule].version => Current(t)'
  <2>1. schedules' = schedules
    BY DEF Quiet
  <2>2. CASE t \in open
    BY <1>2, <2>1, <2>2 DEF IInv, OpenRight
  <2>3. CASE t \notin open
    <3>1. Fresh(t)
      BY <1>3, <2>3
    <3>2. t.schedule \in Schedules
      BY <3>1 DEF Fresh, Transaction
    <3>3. schedules[t.schedule].version \in Nat
      BY <3>2 DEF IInv, TypeOK, Row
    <3>4. QED BY <1>2, <2>1, <3>1, <3>3 DEF Fresh
  <2>4. QED BY <2>2, <2>3
<1>4. OpenRight'
  BY <1>3 DEF OpenRight
<1>5. IsFiniteSet(orders)' /\ CancelledLeavesNoWork' /\ DraftsIssuedNothing'
  BY DEF IInv, Quiet, CancelledLeavesNoWork, DraftsIssuedNothing
<1>6. Disciplined => KindsTell'
  BY DEF IInv, Quiet, KindsTell
<1>7. QED BY <1>4, <1>5, <1>6 DEF IInv, Disciplined

\* A call that begins a transaction.
LEMMA BeginInv ==
  ASSUME IInv, NEW t, Fresh(t), open' = open \cup {t}, calls' \in Nat,
         UNCHANGED <<schedules, orders, issued, batch, world>>
  PROVE  IInv'
<1>1. TypeOK'
  BY DEF IInv, TypeOK, Fresh, world
<1>2. BatchRight'
  BY DEF IInv, BatchRight
<1>3. QED BY <1>1, <1>2, QuietInv DEF Quiet

LEMMA GenerateInv ==
  ASSUME IInv, NEW s \in Schedules, generateWorkOrder(s)
  PROVE  IInv'
<1>1. PICK force \in BOOLEAN,
           date \in {None} \cup (IF "chooseDate" \in Handlers THEN Days ELSE {}) :
        /\ MayGenerate(s, force, date)
        /\ open' = open \cup {Generation(None, s, force, date)}
  BY DEF generateWorkOrder
<1>2. schedules[s].status = "ACTIVE"
  BY <1>1 DEF MayGenerate
<1>3. date \in Dates /\ (Disciplined => date = None)
  BY ScheduleConstants DEF Dates, Days, Disciplined
<1>4. Fresh(Generation(None, s, force, date))
  BY <1>2, <1>3, GenerationFresh
<1>5. calls' = calls + 1 /\ UNCHANGED <<schedules, orders, issued, batch, world>>
  BY DEF generateWorkOrder, Call
<1>6. calls' \in Nat
  BY <1>5 DEF IInv, TypeOK
<1>7. QED BY <1>1, <1>4, <1>5, <1>6, BeginInv

LEMMA CompleteInv ==
  ASSUME IInv, NEW s \in Schedules, complete(s)
  PROVE  IInv'
<1> DEFINE do == "complete"
           t == Ending(do, s, IF do = "cancel" THEN "CANCELLED" ELSE "COMPLETED", {})
<1>1. /\ schedules[s].status \notin Ended
      /\ open' = open \cup {Ending("complete", s, "COMPLETED", {})}
      /\ calls' = calls + 1
      /\ UNCHANGED <<schedules, orders, issued, batch, world>>
  BY DEF complete, Call
<1>2. t = Ending("complete", s, "COMPLETED", {})
  OBVIOUS
<1>3. Fresh(t)
  BY <1>1, EndingFresh
<1>4. calls' \in Nat
  BY <1>1 DEF IInv, TypeOK
<1> HIDE DEF t
<1>5. QED BY <1>1, <1>2, <1>3, <1>4, BeginInv

LEMMA CancelInv ==
  ASSUME IInv, NEW s \in Schedules, cancel(s)
  PROVE  IInv'
<1> DEFINE do == "cancel"
           touched == {o.code : o \in {p \in OrdersOf(s) : p.status \in Unfinished}}
           t == Ending(do, s, IF do = "cancel" THEN "CANCELLED" ELSE "COMPLETED",
                       touched)
<1>1. /\ schedules[s].status \notin Ended
      /\ open' = open \cup {Ending("cancel", s, "CANCELLED", touched)}
      /\ calls' = calls + 1
      /\ UNCHANGED <<schedules, orders, issued, batch, world>>
  BY DEF cancel, Call
<1>2. t = Ending("cancel", s, "CANCELLED", touched)
  OBVIOUS
<1>3. touched \in SUBSET Nat
  BY DEF IInv, TypeOK, OrderRow, OrdersOf
<1>4. \A o \in OrdersOf(s) : o.status \in Unfinished => o.code \in touched
  OBVIOUS
<1> HIDE DEF touched
<1>5. Fresh(t)
  BY <1>1, <1>3, <1>4, EndingFresh DEF Outstanding
<1>6. calls' \in Nat
  BY <1>1 DEF IInv, TypeOK
<1> HIDE DEF t
<1>7. QED BY <1>1, <1>2, <1>5, <1>6, BeginInv

\* What a timer reads goes with the versions it reads.
LEMMA ScanInv ==
  ASSUME IInv, NEW t \in Timers, NEW reference, Scan(t, reference)
  PROVE  IInv'
<1>1. PICK read \in SUBSET Schedules :
        batch' = [batch EXCEPT ![t] =
          {[schedule |-> s, version |-> schedules[s].version,
            due |-> schedules[s].dueDate] :
             s \in {r \in read : IsDue(r, schedules[r], reference)}}]
  BY DEF Scan
<1> DEFINE found == {r \in read : IsDue(r, schedules[r], reference)}
           new == {[schedule |-> s, version |-> schedules[s].version,
                    due |-> schedules[s].dueDate] : s \in found}
<1>2. batch' = [batch EXCEPT ![t] = new]
  BY <1>1
<1>3. found \subseteq Schedules
  OBVIOUS
<1> HIDE DEF found
<1>4. \A s \in Schedules : schedules[s].version \in Nat /\ schedules[s].dueDate \in Dates
  BY DEF IInv, TypeOK, Row
<1>5. new \subseteq [schedule : Schedules, version : Nat, due : Dates]
  BY <1>3, <1>4
<1>6. \A n \in new : /\ n.schedule \in Schedules
                     /\ n.version = schedules[n.schedule].version
                     /\ n.due = schedules[n.schedule].dueDate
  BY <1>3
<1> HIDE DEF new
<1>7. UNCHANGED <<schedules, orders, issued, open, calls>>
      /\ UNCHANGED <<day, hours, unavailable, orphaned, clockIns, restarts>>
  BY DEF Scan, world
<1>8. batch' \in [Timers -> SUBSET [schedule : Schedules, version : Nat,
                                    due : Dates]]
  BY <1>2, <1>5 DEF IInv, TypeOK
<1>9. TypeOK'
  BY <1>7, <1>8 DEF IInv, TypeOK
<1>10. BatchRight'
  <2> SUFFICES ASSUME NEW u \in Timers, NEW n \in batch'[u]
               PROVE  /\ n.version <= schedules[n.schedule].version
                      /\ n.version = schedules[n.schedule].version
                           => n.due = schedules[n.schedule].dueDate
    BY <1>7 DEF BatchRight
  <2>1. CASE u = t
    <3>1. n \in new
      BY <1>2, <2>1 DEF IInv, TypeOK
    <3>2. n.version \in Nat /\ n.version = schedules[n.schedule].version
          /\ n.due = schedules[n.schedule].dueDate
      BY <1>4, <1>6, <3>1
    <3>3. QED BY <3>2
  <2>2. CASE u # t
    <3>1. n \in batch[u]
      BY <1>2, <2>2 DEF IInv, TypeOK
    <3>2. QED BY <3>1 DEF IInv, BatchRight
  <2>3. QED BY <2>1, <2>2
<1>11. QED BY <1>7, <1>9, <1>10, QuietInv DEF Quiet

\* A timer that finds the version it read finds the due date it read.
LEMMA ProcessInv ==
  ASSUME IInv, NEW t \in Timers, Process(t)
  PROVE  IInv'
<1>1. PICK n \in batch[t] :
        /\ batch' = [batch EXCEPT ![t] = batch[t] \ {n}]
        /\ open' = IF /\ n.schedule \notin orphaned
                      /\ MayGenerate(n.schedule, FALSE, n.due)
                      /\ schedules[n.schedule].version = n.version
                   THEN open \cup {Generation(t, n.schedule, FALSE, n.due)}
                   ELSE open
  BY DEF Process
<1>2. UNCHANGED <<schedules, orders, issued, calls>>
      /\ UNCHANGED <<day, hours, unavailable, orphaned, clockIns, restarts>>
  BY DEF Process, world
<1>3. n.schedule \in Schedules /\ n.due \in Dates
  BY DEF IInv, TypeOK
<1>4. batch' \in [Timers -> SUBSET [schedule : Schedules, version : Nat,
                                    due : Dates]]
  BY <1>1 DEF IInv, TypeOK
<1>5. \A u \in Timers : batch'[u] \subseteq batch[u]
  BY <1>1 DEF IInv, TypeOK
<1>6. BatchRight'
  BY <1>2, <1>5 DEF IInv, BatchRight
<1>7. CASE open' = open
  <2>1. TypeOK'
    BY <1>2, <1>4, <1>7 DEF IInv, TypeOK
  <2>2. QED BY <1>2, <1>6, <1>7, <2>1, QuietInv DEF Quiet
<1>8. CASE open' # open
  <2> DEFINE new == Generation(t, n.schedule, FALSE, n.due)
  <2>1. /\ MayGenerate(n.schedule, FALSE, n.due)
        /\ schedules[n.schedule].version = n.version
        /\ open' = open \cup {new}
    BY <1>1, <1>8
  <2>2. schedules[n.schedule].status = "ACTIVE"
    BY <2>1 DEF MayGenerate
  <2>3. n.due = schedules[n.schedule].dueDate
    BY <2>1 DEF IInv, BatchRight
  <2>4. Fresh(new)
    <3>1. t \in Timers \cup {None} /\ FALSE \in BOOLEAN
          /\ n.due \in {None, schedules[n.schedule].dueDate}
      BY <2>3
    <3>2. QED BY <1>3, <2>2, <3>1, GenerationFresh
  <2> HIDE DEF new
  <2>5. TypeOK'
    BY <1>2, <1>4, <2>1, <2>4 DEF IInv, TypeOK, Fresh
  <2>6. QED BY <1>2, <1>6, <2>1, <2>4, <2>5, QuietInv DEF Quiet
<1>9. QED BY <1>7, <1>8

\* An order that cancel takes with it, and one that it does not.
LEMMA CancelledOrder ==
  ASSUME NEW t, NEW o \in OrderRow
  PROVE  /\ Cancelled(t, o) \in OrderRow
         /\ Cancelled(t, o).schedule = o.schedule
         /\ Cancelled(t, o).code = o.code
         /\ Cancelled(t, o).key = o.key
         /\ Cancelled(t, o).due = o.due
         /\ Cancelled(t, o).status \in {o.status, "CANCELLED"}
         /\ Cancelled(t, o).revived = o.revived
         /\ o.schedule # t.schedule => Cancelled(t, o) = o
         /\ o.schedule = t.schedule /\ o.code \in t.touched
              => Cancelled(t, o).status = "CANCELLED"
<1>1. "CANCELLED" \in OrderStatuses
  BY DEF OrderStatuses
<1>2. CASE o.schedule = t.schedule /\ o.code \in t.touched
  <2> DEFINE new == [o EXCEPT !.status = "CANCELLED"]
  <2>1. Cancelled(t, o) = new
    BY <1>2 DEF Cancelled
  <2>2. /\ new \in OrderRow /\ new.schedule = o.schedule /\ new.code = o.code
        /\ new.key = o.key /\ new.due = o.due /\ new.status = "CANCELLED"
        /\ new.revived = o.revived
    BY <1>1 DEF OrderRow
  <2> HIDE DEF new
  <2>3. QED BY <1>2, <2>1, <2>2
<1>3. CASE ~(o.schedule = t.schedule /\ o.code \in t.touched)
  BY <1>3 DEF Cancelled
<1>4. QED BY <1>2, <1>3

\* The orders after a transaction.
LEMMA CommitOrders ==
  ASSUME IInv, NEW t \in open, Commit(t)
  PROVE  /\ orders' \subseteq OrderRow
         /\ IsFiniteSet(orders')
         /\ \A o \in orders' :
              \/ t.do = "generate" /\ o = t.order
              \/ \E p \in orders : o = Cancelled(t, p)
<1> DEFINE kept == {Cancelled(t, o) : o \in orders}
           f == [o \in orders |-> Cancelled(t, o)]
<1>1. orders' = kept \cup (IF t.do = "generate" THEN {t.order} ELSE {})
  BY DEF Commit
<1>2. orders \subseteq OrderRow /\ IsFiniteSet(orders)
  BY DEF IInv, TypeOK
<1>3. t.do = "generate" => t.order \in OrderRow
  BY DEF IInv, OpenRight
<1>4. kept \subseteq OrderRow
  BY <1>2, CancelledOrder
<1>5. IsFiniteSet(kept)
  <2>1. f \in Surjection(orders, kept)
    BY DEF Surjection
  <2>2. QED BY <1>2, <2>1, FS_Surjection
<1>6. \A o \in kept : \E p \in orders : o = Cancelled(t, p)
  OBVIOUS
<1> HIDE DEF kept
<1>7. IsFiniteSet(orders')
  BY <1>1, <1>5, FS_AddElement
<1>8. QED BY <1>1, <1>3, <1>4, <1>6, <1>7

\* What the winner of several transactions wrote.
LEMMA CommitRow ==
  ASSUME IInv, NEW t \in open, Commit(t)
  PROVE  /\ t.schedule \in Schedules
         /\ Current(t)
         /\ schedules' \in [Schedules -> Row]
         /\ \A r \in Schedules \ {t.schedule} : schedules'[r] = schedules[r]
         /\ schedules'[t.schedule].version = schedules[t.schedule].version + 1
         /\ schedules'[t.schedule].status = t.row.status
         /\ schedules'[t.schedule].kind = t.row.kind
         /\ schedules'[t.schedule].dueDate = t.row.dueDate
         /\ schedules'[t.schedule].dueMeter = t.row.dueMeter
<1>1. t.schedule \in Schedules /\ t.row \in Row
  BY DEF IInv, TypeOK, Transaction
<1>2. Current(t) /\ t.row.version = schedules[t.schedule].version
  BY DEF Commit, Succeeds, IInv, OpenRight, Current
<1>3. Written(t.schedule, t.row) /\ schedules \in [Schedules -> Row]
  BY DEF Commit, IInv, TypeOK
<1>4. QED BY <1>1, <1>2, <1>3, WrittenRow

LEMMA CommitInv ==
  ASSUME IInv, NEW t \in open, Commit(t)
  PROVE  IInv'
<1> DEFINE s == t.schedule
<1>1. /\ s \in Schedules /\ Current(t)
      /\ schedules' \in [Schedules -> Row]
      /\ \A r \in Schedules \ {s} : schedules'[r] = schedules[r]
      /\ schedules'[s].version = schedules[s].version + 1
      /\ schedules'[s].status = t.row.status
      /\ schedules'[s].kind = t.row.kind
      /\ schedules'[s].dueDate = t.row.dueDate
  BY CommitRow
<1>2. /\ orders' \subseteq OrderRow
      /\ IsFiniteSet(orders')
      /\ \A o \in orders' :
           \/ t.do = "generate" /\ o = t.order
           \/ \E p \in orders : o = Cancelled(t, p)
  BY CommitOrders
<1>3. /\ open' \subseteq open /\ batch' = batch /\ calls' = calls
      /\ UNCHANGED <<day, hours, unavailable, orphaned, clockIns, restarts>>
      /\ issued' = IF t.do = "generate"
                   THEN [issued EXCEPT ![s] = Append(issued[s], t.order.due)]
                   ELSE issued
  BY DEF Commit, world
<1>4. t.do = "generate" =>
        t.order \in OrderRow /\ t.order.schedule = s /\ t.order.status = "PENDING"
  BY DEF IInv, OpenRight
<1>5. orders \subseteq OrderRow
  BY DEF IInv, TypeOK
<1>6. issued' \in [Schedules -> Seq(Dates)]
  <2>1. issued \in [Schedules -> Seq(Dates)]
    BY DEF IInv, TypeOK
  <2>2. t.do = "generate" => t.order.due \in Dates
    BY <1>4 DEF OrderRow
  <2>3. QED BY <1>1, <1>3, <2>1, <2>2
<1>7. TypeOK'
  BY <1>1, <1>2, <1>3, <1>6 DEF IInv, TypeOK
<1>8. OpenRight' /\ BatchRight'
  <2>1. ASSUME NEW r \in Schedules \ {s}, NEW o \in OrdersOf(r)'
        PROVE  o \in OrdersOf(r)
    <3>1. o \in orders' /\ o.schedule = r
      BY <2>1 DEF OrdersOf
    <3>2. PICK p \in orders : o = Cancelled(t, p)
      BY <1>2, <1>4, <3>1
    <3>3. p \in OrderRow
      BY <1>5
    <3>4. p.schedule = r /\ o = p
      BY <3>1, <3>2, <3>3, CancelledOrder
    <3>5. QED BY <3>4 DEF OrdersOf
  <2>2. QED BY <1>1, <1>3, <2>1, OthersKept
<1>9. CancelledLeavesNoWork'
  <2> SUFFICES ASSUME NEW o \in orders', schedules'[o.schedule].status = "CANCELLED"
               PROVE  ~Outstanding(o)
    BY DEF CancelledLeavesNoWork
  <2>1. ASSUME NEW p \in orders, o = Cancelled(t, p)
        PROVE  ~Outstanding(o)
    <3>1. p \in OrderRow /\ p.schedule \in Schedules
      BY <1>5 DEF OrderRow
    <3>2. /\ o.schedule = p.schedule /\ o.status \in {p.status, "CANCELLED"}
          /\ o.revived = p.revived
      BY <2>1, <3>1, CancelledOrder
    <3>3. CASE p.schedule = s
      <4>1. t.do = "cancel"
        BY <1>1, <3>2, <3>3 DEF Current
      <4>2. Outstanding(p) => p.code \in t.touched
        BY <1>1, <3>3, <4>1 DEF Current, OrdersOf
      <4>3. Outstanding(p) => o.status = "CANCELLED"
        BY <2>1, <3>1, <3>3, <4>2, CancelledOrder
      <4>4. o.status = "CANCELLED" => ~Outstanding(o)
        BY DEF Outstanding, Unfinished, Working
      <4>5. QED BY <3>2, <4>3, <4>4 DEF Outstanding
    <3>4. CASE p.schedule # s
      <4>1. o = p /\ schedules[p.schedule].status = "CANCELLED"
        BY <1>1, <2>1, <3>1, <3>2, <3>4, CancelledOrder
      <4>2. QED BY <4>1 DEF IInv, CancelledLeavesNoWork
    <3>5. QED BY <3>3, <3>4
  <2>2. CASE t.do = "generate" /\ o = t.order
    <3>1. schedules'[s].status = "CANCELLED"
      BY <1>4, <2>2
    <3>2. FALSE
      BY <1>1, <2>2, <3>1 DEF Current
    <3>3. QED BY <3>2
  <2>3. QED BY <1>2, <2>1, <2>2
<1>10. DraftsIssuedNothing'
  <2>1. schedules'[s].status # "DRAFT"
    BY <1>1 DEF Current
  <2>2. \A r \in Schedules \ {s} : issued'[r] = issued[r]
    BY <1>3 DEF IInv, TypeOK
  <2>3. QED BY <1>1, <2>1, <2>2 DEF IInv, DraftsIssuedNothing
<1>11. Disciplined => KindsTell'
  <2>1. t.row.kind = schedules[s].kind
    BY <1>1 DEF Current
  <2>2. Disciplined => (t.row.dueDate = None <=> schedules[s].dueDate = None)
    <3>1. CASE t.do # "generate"
      BY <1>1, <3>1 DEF Current
    <3>2. CASE t.do = "generate" /\ schedules[s].kind = "METER"
      BY <1>1, <3>2 DEF Current
    <3>3. CASE t.do = "generate" /\ schedules[s].kind # "METER"
      <4>1. t.row.dueDate # None
        BY <1>1, <3>3, ScheduleConstants DEF Current
      <4>2. Disciplined => schedules[s].dueDate # None
        BY <1>1, <3>3 DEF IInv, KindsTell
      <4>3. QED BY <4>1, <4>2
    <3>4. QED BY <3>1, <3>2, <3>3
  <2>3. QED BY <1>1, <2>1, <2>2 DEF IInv, KindsTell
<1>12. QED BY <1>2, <1>7, <1>8, <1>9, <1>10, <1>11 DEF IInv, Disciplined

\* A clock-in writes the status of its order alone.
LEMMA ClockedInRow ==
  ASSUME NEW o \in OrderRow
  PROVE  /\ ClockedIn(o) \in OrderRow
         /\ ClockedIn(o).schedule = o.schedule /\ ClockedIn(o).code = o.code
         /\ ClockedIn(o).key = o.key /\ ClockedIn(o).due = o.due
         /\ Outstanding(ClockedIn(o)) => Outstanding(o)
  BY DEF ClockedIn, OrderRow, OrderStatuses, Outstanding, Startable,
         Unfinished, Working

\* Work goes on, or its order is deleted: no order becomes outstanding again.
LEMMA WorkInv ==
  ASSUME IInv, orders' \subseteq OrderRow, IsFiniteSet(orders'), calls' \in Nat,
         clockIns' \subseteq Nat,
         UNCHANGED <<schedules, issued, batch, open>>,
         UNCHANGED <<day, hours, unavailable, orphaned, restarts>>,
         \A o \in orders' : \E p \in orders :
           /\ o.schedule = p.schedule /\ o.code = p.code
           /\ Outstanding(o) => Outstanding(p)
  PROVE  IInv'
<1>1. TypeOK'
  BY DEF IInv, TypeOK
<1>2. \A t \in open : Current(t) => Current(t)'
  <2> SUFFICES ASSUME NEW t \in open, Current(t) PROVE Current(t)'
    OBVIOUS
  <2>1. \A o \in OrdersOf(t.schedule)' : Outstanding(o) =>
          \E p \in OrdersOf(t.schedule) : Outstanding(p) /\ p.code = o.code
    BY DEF OrdersOf
  <2>2. QED BY <2>1, CurrentKept
<1>3. OpenRight'
  BY <1>2 DEF IInv, OpenRight
<1>4. CancelledLeavesNoWork'
  BY DEF IInv, CancelledLeavesNoWork
<1>5. BatchRight' /\ DraftsIssuedNothing' /\ (Disciplined => KindsTell')
  BY DEF IInv, BatchRight, DraftsIssuedNothing, KindsTell
<1>6. QED BY <1>1, <1>3, <1>4, <1>5 DEF IInv, Disciplined

LEMMA ProgressInv ==
  ASSUME IInv, NEW o \in orders, Progress(o)
  PROVE  IInv'
<1>1. PICK to \in OrderStatuses \ {o.status} :
        /\ CanTransition(o.status, to)
        /\ orders' = (orders \ {o}) \cup {[o EXCEPT !.status = to]}
  BY DEF Progress
<1> DEFINE new == [o EXCEPT !.status = to]
<1>2. o \in OrderRow /\ orders \subseteq OrderRow /\ IsFiniteSet(orders)
  BY DEF IInv, TypeOK
<1>3. new \in OrderRow /\ new.status = to /\ new.schedule = o.schedule
      /\ new.code = o.code /\ new.revived = o.revived
  BY <1>2 DEF OrderRow
<1>4. to \in Unfinished => o.status \in Unfinished
  BY <1>1 DEF CanTransition, Unfinished, Working
<1>5. orders' = (orders \ {o}) \cup {new}
  BY <1>1
<1> HIDE DEF new
<1>6. orders' \subseteq OrderRow
  BY <1>2, <1>3, <1>5
<1>7. IsFiniteSet(orders')
  BY <1>2, <1>5, FS_RemoveElement, FS_AddElement
<1>8. calls' = calls + 1 /\ UNCHANGED <<schedules, issued, batch, open, world>>
  BY DEF Progress, Call
<1>9. calls' \in Nat /\ clockIns' \subseteq Nat
  BY <1>8 DEF IInv, TypeOK, world
<1>10. \A x \in orders' : \E p \in orders :
         /\ x.schedule = p.schedule /\ x.code = p.code
         /\ Outstanding(x) => Outstanding(p)
  BY <1>3, <1>4, <1>5 DEF Outstanding
<1>11. QED BY <1>6, <1>7, <1>8, <1>9, <1>10, WorkInv DEF world

\* A clock-in that writes: what was over is over, or it is marked.
LEMMA WriteInProgressInv ==
  ASSUME IInv, NEW o \in orders, WriteInProgress(o)
  PROVE  IInv'
<1> DEFINE new == ClockedIn(o)
<1>1. /\ orders' = (orders \ {o}) \cup {new}
      /\ clockIns' = clockIns \ {o.code}
      /\ UNCHANGED <<schedules, issued, batch, open, calls>>
      /\ UNCHANGED <<day, hours, unavailable, orphaned, restarts>>
  BY DEF WriteInProgress
<1>2. /\ o \in OrderRow /\ orders \subseteq OrderRow /\ IsFiniteSet(orders)
      /\ calls \in Nat /\ clockIns \subseteq Nat
  BY DEF IInv, TypeOK
<1>3. /\ new \in OrderRow /\ new.schedule = o.schedule /\ new.code = o.code
      /\ Outstanding(new) => Outstanding(o)
  BY <1>2, ClockedInRow
<1> HIDE DEF new
<1>4. orders' \subseteq OrderRow
  BY <1>1, <1>2, <1>3
<1>5. IsFiniteSet(orders')
  BY <1>1, <1>2, FS_RemoveElement, FS_AddElement
<1>6. \A x \in orders' : \E p \in orders :
        /\ x.schedule = p.schedule /\ x.code = p.code
        /\ Outstanding(x) => Outstanding(p)
  BY <1>1, <1>3
<1>7. QED BY <1>1, <1>2, <1>4, <1>5, <1>6, WorkInv

\* A clock-in that has read its order.
LEMMA StartWorkSessionInv ==
  ASSUME IInv, NEW o \in orders, startWorkSession(o)
  PROVE  IInv'
<1>1. /\ clockIns' = clockIns \cup {o.code} /\ calls' = calls + 1
      /\ UNCHANGED <<schedules, orders, issued, batch, open>>
      /\ UNCHANGED <<day, hours, unavailable, orphaned, restarts>>
  BY DEF startWorkSession, Call
<1>2. o.code \in Nat /\ calls \in Nat /\ clockIns \subseteq Nat
  BY DEF IInv, TypeOK, OrderRow
<1>3. calls' \in Nat
  BY <1>1, <1>2
<1>4. clockIns' \subseteq Nat
  BY <1>1, <1>2
<1>5. TypeOK'
  BY <1>1, <1>3, <1>4 DEF IInv, TypeOK
<1>6. BatchRight'
  BY <1>1 DEF IInv, BatchRight
<1>7. QED BY <1>1, <1>5, <1>6, QuietInv DEF Quiet

LEMMA RemoveInv ==
  ASSUME IInv, NEW o \in orders, remove(o)
  PROVE  IInv'
<1>1. /\ orders' = orders \ {o} /\ calls' = calls + 1
      /\ clockIns' = clockIns \ {o.code}
      /\ UNCHANGED <<schedules, issued, batch, open>>
      /\ UNCHANGED <<day, hours, unavailable, orphaned, restarts>>
  BY DEF remove, Call
<1>2. /\ orders \subseteq OrderRow /\ IsFiniteSet(orders) /\ calls \in Nat
      /\ clockIns \subseteq Nat
  BY DEF IInv, TypeOK
<1>3. IsFiniteSet(orders')
  BY <1>1, <1>2, FS_RemoveElement
<1>4. calls' \in Nat
  BY <1>1, <1>2
<1>5. clockIns' \subseteq Nat
  BY <1>1, <1>2
<1>6. QED BY <1>1, <1>2, <1>3, <1>4, <1>5, WorkInv

\* A step plans a schedule anew, commits a transaction, or leaves the
\* schedules and what was issued alone.
LEMMA StepKinds ==
  ASSUME IInv, [Next]_vars
  PROVE  \/ \E s \in Schedules : Replans(s)
         \/ \E t \in open : Commit(t)
         \/ IInv' /\ UNCHANGED <<schedules, issued>>
<1>1. ASSUME NEW s \in Schedules, activate(s) \/ pause(s) \/ update(s)
      PROVE  Replans(s)
  BY <1>1, ActivateReplans, PauseReplans, UpdateReplans
<1>2. ASSUME NEW s \in Schedules, generateWorkOrder(s) \/ complete(s) \/ cancel(s)
      PROVE  IInv' /\ UNCHANGED <<schedules, issued>>
  <2>1. IInv'
    BY <1>2, GenerateInv, CompleteInv, CancelInv
  <2>2. QED BY <1>2, <2>1 DEF generateWorkOrder, complete, cancel
<1>3. ASSUME Quiet, TypeOK', batch' = batch, open' \subseteq open
      PROVE  IInv' /\ UNCHANGED <<schedules, issued>>
  <2>1. BatchRight'
    BY <1>3 DEF IInv, BatchRight, Quiet
  <2>2. QED BY <1>3, <2>1, QuietInv DEF Quiet
<1>4. ASSUME NEW s \in Schedules, ToggleEquipment(s) \/ ToggleCreator(s) \/ Run(s)
      PROVE  IInv' /\ UNCHANGED <<schedules, issued>>
  <2>1. CASE ToggleEquipment(s)
    BY <1>3, <2>1 DEF ToggleEquipment, Call, IInv, TypeOK, Quiet
  <2>2. CASE ToggleCreator(s)
    BY <1>3, <2>2 DEF ToggleCreator, Call, IInv, TypeOK, Quiet
  <2>3. CASE Run(s)
    BY <1>3, <2>3 DEF Run, IInv, TypeOK, Quiet
  <2>4. QED BY <1>4, <2>1, <2>2, <2>3
<1>5. ASSUME NEW t \in Timers, TimerScan(t) \/ processDue(t)
      PROVE  IInv' /\ UNCHANGED <<schedules, issued>>
  <2>1. PICK reference : Scan(t, reference)
    BY <1>5 DEF TimerScan, processDue
  <2>2. QED BY <2>1, ScanInv DEF Scan
<1>6. ASSUME NEW t \in Timers, Process(t)
      PROVE  IInv' /\ UNCHANGED <<schedules, issued>>
  BY <1>6, ProcessInv DEF Process
<1>7. ASSUME NEW t \in open, Fail(t)
      PROVE  IInv' /\ UNCHANGED <<schedules, issued>>
  BY <1>3, <1>7 DEF Fail, world, IInv, TypeOK, Quiet
<1>8. ASSUME NEW o \in orders,
             \/ Progress(o) \/ remove(o)
             \/ startWorkSession(o) \/ WriteInProgress(o)
      PROVE  IInv' /\ UNCHANGED <<schedules, issued>>
  <2>1. IInv'
    BY <1>8, ProgressInv, RemoveInv, StartWorkSessionInv, WriteInProgressInv
  <2>2. QED
    BY <1>8, <2>1 DEF Progress, remove, startWorkSession, WriteInProgress
<1>9. CASE Tick
  BY <1>3, <1>9 DEF Tick, IInv, TypeOK, Quiet
<1>10. CASE Restart
  <2>1. TypeOK' /\ BatchRight' /\ open' \subseteq open /\ Quiet
    BY <1>10 DEF Restart, IInv, TypeOK, BatchRight, Quiet
  <2>2. QED BY <2>1, QuietInv DEF Quiet
<1>11. CASE UNCHANGED vars
  BY <1>3, <1>11 DEF vars, IInv, TypeOK, Quiet
<1>12. QED
  BY <1>1, <1>2, <1>4, <1>5, <1>6, <1>7, <1>8, <1>9, <1>10, <1>11 DEF Next

LEMMA InvStep ==
  ASSUME IInv, [Next]_vars
  PROVE  IInv'
  BY StepKinds, ReplanInv, CommitInv

LEMMA InitInv == Init => IInv
<1> SUFFICES ASSUME Init PROVE IInv
  OBVIOUS
<1>1. PICK kind \in [Schedules -> Kinds], start \in [Schedules -> Days] :
        schedules = [s \in Schedules |-> CreatedSchedule(s, kind[s], start[s])]
  BY DEF Init
<1>2. \A s \in Schedules :
        /\ schedules[s] \in Row
        /\ schedules[s].status = "DRAFT"
        /\ schedules[s].kind = "METER" <=> schedules[s].dueDate = None
  <2> TAKE s \in Schedules
  <2>1. start[s] \in Int /\ Interval[s] \in Int /\ None \notin Int
    BY ScheduleConstants DEF Days
  <2>2. schedules[s] = CreatedSchedule(s, kind[s], start[s])
    BY <1>1
  <2>3. QED
    BY <2>1, <2>2 DEF CreatedSchedule, Row, Dates, ScheduleStatuses
<1>3. TypeOK
  <2>1. schedules \in [Schedules -> Row]
    BY <1>1, <1>2
  <2>2. issued \in [Schedules -> Seq(Dates)]
    BY DEF Init
  <2>3. QED BY <2>1, <2>2 DEF Init, TypeOK
<1>4. IsFiniteSet(orders)
  BY FS_EmptySet DEF Init
<1>5. OpenRight /\ BatchRight /\ CancelledLeavesNoWork
  BY DEF Init, OpenRight, BatchRight, CancelledLeavesNoWork
<1>6. DraftsIssuedNothing /\ KindsTell
  BY <1>2 DEF Init, DraftsIssuedNothing, KindsTell
<1>7. QED BY <1>3, <1>4, <1>5, <1>6 DEF IInv

LEMMA InvAlways == Spec => []IInv
<1>1. IInv /\ [Next]_vars => IInv'
  BY InvStep
<1>2. QED BY <1>1, InitInv, PTL DEF Spec
-----------------------------------------------------------------------------
(* Theorems.                                                               *)

\* Schedules, orders, and all that is under way keep their types.
THEOREM TypeCorrect == Spec => []TypeOK
  BY InvAlways, PTL DEF IInv

\* A cancelled schedule leaves no unfinished order, whatever is generated and
\* whatever work goes on while it is cancelled: only a technician whose clock-in
\* read the order before can bring one back.
THEOREM CancellationIsComplete == Spec => []CancelledLeavesNoWork
  BY InvAlways, PTL DEF IInv

\* How a step may change the due date of a schedule that is no draft.
LEMMA DueDateStep ==
  ASSUME IInv, [Next]_vars, NEW s \in Schedules,
         schedules[s].status # "DRAFT", schedules[s].dueDate # None
  PROVE  /\ schedules'[s].dueDate # None
         /\ schedules'[s].dueDate >= schedules[s].dueDate
<1> DEFINE from == schedules[s].dueDate
<1>1. from \in Int /\ Interval[s] \in Nat /\ None \notin Int
  BY ScheduleConstants DEF IInv, TypeOK, Row, Dates
<1>2. ASSUME schedules'[s].dueDate = from
      PROVE  schedules'[s].dueDate # None /\ schedules'[s].dueDate >= from
  BY <1>1, <1>2
<1>3. ASSUME NEW r \in Schedules, Replans(r)
      PROVE  schedules'[s].dueDate # None /\ schedules'[s].dueDate >= from
  <2>1. PICK row \in Row : Planned(r, row) /\ Written(r, row)
    BY <1>3 DEF Replans
  <2>2. schedules \in [Schedules -> Row]
    BY DEF IInv, TypeOK
  <2>3. /\ \A x \in Schedules \ {r} : schedules'[x] = schedules[x]
        /\ schedules'[r].dueDate = row.dueDate
    BY <2>1, <2>2, WrittenRow
  <2>4. CASE r = s
    <3>1. row.dueDate = from \/ Occurrence(s, from, row.dueDate)
      BY <2>1, <2>4 DEF Planned
    <3>2. QED BY <1>1, <2>3, <2>4, <3>1 DEF Occurrence
  <2>5. CASE r # s
    BY <1>2, <2>3, <2>5
  <2>6. QED BY <2>4, <2>5
<1>4. ASSUME NEW t \in open, Commit(t)
      PROVE  schedules'[s].dueDate # None /\ schedules'[s].dueDate >= from
  <2>1. /\ Current(t)
        /\ \A x \in Schedules \ {t.schedule} : schedules'[x] = schedules[x]
        /\ schedules'[t.schedule].dueDate = t.row.dueDate
    BY <1>4, CommitRow
  <2>2. CASE t.schedule = s
    <3>1. t.row.dueDate = from \/ t.row.dueDate = from + Interval[s]
      BY <2>1, <2>2 DEF Current
    <3>2. QED BY <1>1, <2>1, <2>2, <3>1
  <2>3. CASE t.schedule # s
    BY <1>2, <2>1, <2>3
  <2>4. QED BY <2>2, <2>3
<1>5. CASE UNCHANGED <<schedules, issued>>
  BY <1>2, <1>5
<1>6. QED BY <1>3, <1>4, <1>5, StepKinds

\* Due dates never go back, whoever writes them at the same time.
THEOREM DueDatesAdvance == Spec => DueDatesNeverGoBack
<1> DEFINE Advances == \A s \in Schedules :
                         /\ schedules[s].status # "DRAFT"
                         /\ schedules[s].dueDate # None
                         => /\ schedules'[s].dueDate # None
                            /\ schedules'[s].dueDate >= schedules[s].dueDate
<1>1. IInv /\ [Next]_vars => Advances
  BY DueDateStep
<1>2. IInv /\ [Next]_vars => [Advances]_schedules
  BY <1>1
<1>3. QED BY <1>2, InvAlways, PTL DEF Spec, DueDatesNeverGoBack
-----------------------------------------------------------------------------
(* The disciplined use of the schedules implements Calendar.               *)

DueDates == [s \in Schedules |-> schedules[s].dueDate]

\* A schedule that is planned anew passes dates over, unless it is a draft.
LEMMA ReplanImplements ==
  ASSUME Disciplined, IInv, IInv', NEW s \in Schedules, Replans(s)
  PROVE  [Cal!CalendarNext]_(Cal!calendar)
<1>1. PICK row \in Row : Planned(s, row) /\ Written(s, row)
  BY DEF Replans
<1>2. issued' = issued
  BY DEF Replans
<1>3. schedules \in [Schedules -> Row] /\ schedules' \in [Schedules -> Row]
  BY DEF IInv, TypeOK
<1>4. /\ \A r \in Schedules \ {s} : schedules'[r] = schedules[r]
      /\ schedules'[s].dueDate = row.dueDate
  BY <1>1, <1>3, WrittenRow
<1>5. /\ DueDates[s] = schedules[s].dueDate
      /\ DueDates'[s] = row.dueDate
      /\ DueDates' = [DueDates EXCEPT ![s] = DueDates'[s]]
  BY <1>4 DEF DueDates
<1>6. CASE schedules[s].status = "DRAFT"
  <2>1. issued[s] = << >>
    BY <1>6 DEF IInv, DraftsIssuedNothing
  <2>2. DueDates'[s] \in Int \cup {None}
    BY <1>1, <1>5 DEF Row, Dates
  <2>3. Cal!Plan(s)
    BY <1>2, <1>5, <2>1, <2>2 DEF Cal!Plan, DueDates
  <2>4. QED BY <2>3 DEF Cal!CalendarNext
<1>7. CASE row.dueDate = schedules[s].dueDate
  <2>1. DueDates' = DueDates
    BY <1>4, <1>7 DEF DueDates
  <2>2. QED BY <1>2, <2>1 DEF Cal!calendar, DueDates
<1>8. CASE Occurrence(s, schedules[s].dueDate, row.dueDate)
  <2>1. /\ schedules[s].dueDate \in Int /\ row.dueDate \in Int
        /\ \E jumps \in 0..(row.dueDate - schedules[s].dueDate) :
             row.dueDate = schedules[s].dueDate + jumps * Interval[s]
    BY <1>8 DEF Occurrence
  <2>2. DueDates[s] # None /\ DueDates'[s] \in Int
    BY <1>5, <2>1, ScheduleConstants
  <2>3. \E jumps \in 0..(DueDates'[s] - DueDates[s]) :
          DueDates'[s] = DueDates[s] + jumps * Interval[s]
    BY <1>5, <2>1
  <2>4. Cal!PassOver(s)
    BY <1>2, <1>5, <2>2, <2>3 DEF Cal!PassOver, DueDates
  <2>5. QED BY <2>4 DEF Cal!CalendarNext
<1>9. QED BY <1>1, <1>6, <1>7, <1>8 DEF Planned

\* An order is issued for the next date, and no other transaction moves it.
LEMMA CommitImplements ==
  ASSUME Disciplined, IInv, NEW t \in open, Commit(t)
  PROVE  [Cal!CalendarNext]_(Cal!calendar)
<1> DEFINE s == t.schedule
<1>1. /\ s \in Schedules /\ Current(t)
      /\ \A r \in Schedules \ {s} : schedules'[r] = schedules[r]
      /\ schedules'[s].dueDate = t.row.dueDate
  BY CommitRow
<1>2. DueDates[s] = schedules[s].dueDate
  BY <1>1 DEF DueDates
<1>3. CASE t.do # "generate"
  <2>1. schedules'[s].dueDate = schedules[s].dueDate
    BY <1>1, <1>3 DEF Current
  <2>2. DueDates' = DueDates
    BY <1>1, <2>1 DEF DueDates
  <2>3. issued' = issued
    BY <1>3 DEF Commit
  <2>4. QED BY <2>2, <2>3 DEF Cal!calendar, DueDates
<1>4. CASE t.do = "generate"
  <2>1. t.order.due = schedules[s].dueDate
    BY <1>1, <1>4 DEF Current
  <2>2. issued' = [issued EXCEPT ![s] = Append(issued[s], DueDates[s])]
    BY <1>2, <1>4, <2>1 DEF Commit
  <2>3. CASE schedules[s].kind = "METER"
    <3>1. schedules[s].dueDate = None
      BY <1>1, <2>3 DEF IInv, KindsTell
    <3>2. schedules'[s].dueDate = schedules[s].dueDate
      BY <1>1, <1>4, <2>3 DEF Current
    <3>3. DueDates' = DueDates
      BY <1>1, <3>2 DEF DueDates
    <3>4. issued' = [issued EXCEPT ![s] = Append(issued[s], None)]
      BY <1>2, <2>2, <3>1
    <3>5. Cal!IssueUndated(s)
      BY <1>2, <3>1, <3>3, <3>4 DEF Cal!IssueUndated, DueDates
    <3>6. QED BY <1>1, <3>5 DEF Cal!CalendarNext
  <2>4. CASE schedules[s].kind # "METER"
    <3>1. schedules[s].dueDate # None
      BY <1>1, <2>4 DEF IInv, KindsTell
    <3>2. schedules'[s].dueDate = DueDates[s] + Interval[s]
      BY <1>1, <1>2, <1>4, <2>4, <3>1 DEF Current
    <3>3. DueDates' = [DueDates EXCEPT ![s] = DueDates[s] + Interval[s]]
      BY <1>1, <3>2 DEF DueDates
    <3>4. Cal!Issue(s)
      BY <1>2, <2>2, <3>1, <3>3 DEF Cal!Issue, DueDates
    <3>5. QED BY <1>1, <3>4 DEF Cal!CalendarNext
  <2>5. QED BY <2>3, <2>4
<1>5. QED BY <1>3, <1>4

\* Whoever uses the schedules without choosing dates or changing their kind
\* sees a calendar.
THEOREM SchedulesImplementCalendar ==
  ASSUME Disciplined
  PROVE  Spec => ImplementsCalendar
<1>1. Init => Cal!Start
  <2> SUFFICES ASSUME Init PROVE Cal!Start
    OBVIOUS
  <2>1. TypeOK
    BY InitInv DEF IInv
  <2>2. \A s \in Schedules : schedules[s].dueDate \in Int \cup {None}
    BY <2>1 DEF TypeOK, Row, Dates
  <2>3. [s \in Schedules |-> schedules[s].dueDate]
          \in [Schedules -> Int \cup {None}]
    BY <2>2
  <2>4. QED BY <2>3 DEF Init, Cal!Start
<1>2. IInv /\ IInv' /\ [Next]_vars => [Cal!CalendarNext]_(Cal!calendar)
  <2> SUFFICES ASSUME IInv, IInv', [Next]_vars
               PROVE  [Cal!CalendarNext]_(Cal!calendar)
    OBVIOUS
  <2>1. CASE UNCHANGED <<schedules, issued>>
    BY <2>1 DEF Cal!calendar
  <2>2. QED BY <2>1, StepKinds, ReplanImplements, CommitImplements
<1>3. QED BY <1>1, <1>2, InvAlways, PTL DEF Spec, ImplementsCalendar, Cal!Spec

-----------------------------------------------------------------------------
(* A calendar issues every date once and in turn.                          *)

\* Whatever dates come next and whatever was issued: no date was issued
\* twice or out of turn, and all lie before the date that comes next.
AllBehind(next, past) ==
  /\ next \in [Schedules -> Int \cup {None}]
  /\ past \in [Schedules -> Seq(Int \cup {None})]
  /\ \A i \in Schedules : \A m \in DOMAIN past[i] :
       past[i][m] # None => next[i] # None /\ past[i][m] < next[i]
  /\ \A i \in Schedules : \A m, n \in DOMAIN past[i] :
       m < n /\ past[i][m] # None /\ past[i][n] # None => past[i][m] < past[i][n]

\* An order for the date that comes next, and the date after it comes next.
LEMMA IssueKeeps ==
  ASSUME NEW next, NEW past, AllBehind(next, past),
         NEW i \in Schedules, next[i] # None
  PROVE  AllBehind([next EXCEPT ![i] = next[i] + Interval[i]],
                   [past EXCEPT ![i] = Append(past[i], next[i])])
<1> DEFINE old == past[i]
           new == Append(old, next[i])
           then == next[i] + Interval[i]
           afterwards == [next EXCEPT ![i] = then]
           known == [past EXCEPT ![i] = new]
<1>1. /\ next[i] \in Int /\ Interval[i] \in Nat /\ Interval[i] > 0
      /\ old \in Seq(Int \cup {None}) /\ None \notin Int
  BY ScheduleConstants DEF AllBehind
<1>2. then \in Int /\ next[i] < then
  BY <1>1
<1>3. new \in Seq(Int \cup {None})
  BY <1>1
<1>4. /\ Len(old) \in Nat /\ DOMAIN old = 1..Len(old)
      /\ DOMAIN new = 1..(Len(old) + 1)
      /\ new[Len(old) + 1] = next[i]
      /\ \A m \in DOMAIN old : new[m] = old[m]
  BY <1>1
<1>5. \A m \in DOMAIN old : old[m] \in Int \cup {None}
  BY <1>1
<1>6. \A m \in DOMAIN old : old[m] # None => old[m] < next[i]
  BY DEF AllBehind
<1>7. \A m, n \in DOMAIN old :
        m < n /\ old[m] # None /\ old[n] # None => old[m] < old[n]
  BY DEF AllBehind
<1>8. next \in [Schedules -> Int \cup {None}]
      /\ past \in [Schedules -> Seq(Int \cup {None})]
  BY DEF AllBehind
<1> HIDE DEF old, new, then
<1>9. \A m \in DOMAIN new : new[m] # None => new[m] < then
  BY <1>1, <1>2, <1>4, <1>5, <1>6
<1>10. \A m, n \in DOMAIN new :
         m < n /\ new[m] # None /\ new[n] # None => new[m] < new[n]
  BY <1>1, <1>4, <1>5, <1>6, <1>7
<1>11. /\ known[i] = new /\ afterwards[i] = then
       /\ \A j \in Schedules \ {i} :
            known[j] = past[j] /\ afterwards[j] = next[j]
       /\ afterwards \in [Schedules -> Int \cup {None}]
       /\ known \in [Schedules -> Seq(Int \cup {None})]
  BY <1>2, <1>3, <1>8
<1> HIDE DEF afterwards, known
<1>12. \A j \in Schedules : \A m \in DOMAIN known[j] :
         known[j][m] # None => afterwards[j] # None /\ known[j][m] < afterwards[j]
  BY <1>1, <1>2, <1>9, <1>11 DEF AllBehind
<1>13. \A j \in Schedules : \A m, n \in DOMAIN known[j] :
         m < n /\ known[j][m] # None /\ known[j][n] # None
           => known[j][m] < known[j][n]
  BY <1>10, <1>11 DEF AllBehind
<1>14. AllBehind(afterwards, known)
  BY <1>11, <1>12, <1>13 DEF AllBehind
<1>15. QED BY <1>14 DEF afterwards, known, then, new, old

\* An order that goes by no date leaves no dates behind.
LEMMA UndatedKeeps ==
  ASSUME NEW next, NEW past, AllBehind(next, past),
         NEW i \in Schedules, next[i] = None
  PROVE  AllBehind(next, [past EXCEPT ![i] = Append(past[i], None)])
<1> DEFINE old == past[i]
           new == Append(old, None)
           known == [past EXCEPT ![i] = new]
<1>1. /\ past \in [Schedules -> Seq(Int \cup {None})]
      /\ next \in [Schedules -> Int \cup {None}]
      /\ old \in Seq(Int \cup {None})
  BY DEF AllBehind
<1>2. new \in Seq(Int \cup {None})
  BY <1>1
<1>3. /\ Len(old) \in Nat /\ DOMAIN old = 1..Len(old)
      /\ DOMAIN new = 1..(Len(old) + 1)
      /\ new[Len(old) + 1] = None
      /\ \A m \in DOMAIN old : new[m] = old[m]
  BY <1>1
<1>4. \A m \in DOMAIN old : old[m] = None
  BY DEF AllBehind
<1> HIDE DEF old, new
<1>5. \A m \in DOMAIN new : new[m] = None
  BY <1>3, <1>4
<1>6. /\ known[i] = new
      /\ \A j \in Schedules \ {i} : known[j] = past[j]
      /\ known \in [Schedules -> Seq(Int \cup {None})]
  BY <1>1, <1>2
<1> HIDE DEF known
<1>7. \A j \in Schedules : \A m \in DOMAIN known[j] :
        known[j][m] # None => next[j] # None /\ known[j][m] < next[j]
  BY <1>5, <1>6 DEF AllBehind
<1>8. \A j \in Schedules : \A m, n \in DOMAIN known[j] :
        m < n /\ known[j][m] # None /\ known[j][n] # None
          => known[j][m] < known[j][n]
  BY <1>5, <1>6 DEF AllBehind
<1>9. AllBehind(next, known)
  BY <1>1, <1>6, <1>7, <1>8 DEF AllBehind
<1>10. QED BY <1>9 DEF known, new, old

\* A later date may come next, and any date may while none was issued.
LEMMA PlanKeeps ==
  ASSUME NEW next, NEW past, AllBehind(next, past),
         NEW i \in Schedules, NEW then \in Int \cup {None},
         \/ past[i] = << >>
         \/ next[i] # None /\ then \in Int /\ next[i] <= then
  PROVE  AllBehind([next EXCEPT ![i] = then], past)
<1> DEFINE afterwards == [next EXCEPT ![i] = then]
<1>1. None \notin Int
  BY ScheduleConstants
<1>2. /\ past \in [Schedules -> Seq(Int \cup {None})]
      /\ next \in [Schedules -> Int \cup {None}]
  BY DEF AllBehind
<1>3. \A m \in DOMAIN past[i] :
        past[i][m] # None => then # None /\ past[i][m] < then
  <2>1. CASE past[i] = << >>
    BY <2>1
  <2>2. CASE next[i] # None /\ then \in Int /\ next[i] <= then
    <3>1. \A m \in DOMAIN past[i] : past[i][m] \in Int \cup {None}
      BY <1>2
    <3>2. \A m \in DOMAIN past[i] : past[i][m] # None => past[i][m] < next[i]
      BY DEF AllBehind
    <3>3. next[i] \in Int
      BY <1>2, <2>2
    <3>4. QED BY <1>1, <2>2, <3>1, <3>2, <3>3
  <2>3. QED BY <2>1, <2>2
<1>4. /\ afterwards[i] = then
      /\ \A j \in Schedules \ {i} : afterwards[j] = next[j]
      /\ afterwards \in [Schedules -> Int \cup {None}]
  BY <1>2
<1> HIDE DEF afterwards
<1>5. \A j \in Schedules : \A m \in DOMAIN past[j] :
        past[j][m] # None => afterwards[j] # None /\ past[j][m] < afterwards[j]
  BY <1>3, <1>4 DEF AllBehind
<1>6. AllBehind(afterwards, past)
  BY <1>2, <1>4, <1>5 DEF AllBehind
<1>7. QED BY <1>6 DEF afterwards

\* Passing dates over leads to a later one.
LEMMA LaterDates ==
  ASSUME NEW date \in Int, NEW then \in Int, NEW step \in Nat,
         \E jumps \in 0..(then - date) : then = date + jumps * step
  PROVE  date <= then
<1>1. PICK jumps \in 0..(then - date) : then = date + jumps * step
  OBVIOUS
<1>2. QED BY <1>1

\* Every step of a calendar keeps what was issued behind what comes next.
LEMMA CalendarKeeps ==
  ASSUME AllBehind(DueDates, issued), [Cal!CalendarNext]_(Cal!calendar)
  PROVE  AllBehind(DueDates, issued)'
<1>1. PICK next, past : next = DueDates /\ past = issued
  OBVIOUS
<1>2. AllBehind(next, past)
  BY <1>1
<1>3. PICK next2, past2 : next2 = DueDates' /\ past2 = issued'
  OBVIOUS
<1>4. SUFFICES AllBehind(next2, past2)
  BY <1>3 DEF AllBehind
<1>5. CASE UNCHANGED Cal!calendar
  BY <1>1, <1>2, <1>3, <1>5 DEF Cal!calendar, DueDates
<1>6. ASSUME NEW i \in Schedules, Cal!Issue(i) PROVE AllBehind(next2, past2)
  <2>1. /\ next[i] # None
        /\ next2 = [next EXCEPT ![i] = next[i] + Interval[i]]
        /\ past2 = [past EXCEPT ![i] = Append(past[i], next[i])]
    BY <1>1, <1>3, <1>6 DEF Cal!Issue, DueDates
  <2>2. QED BY <1>2, <2>1, IssueKeeps
<1>7. ASSUME NEW i \in Schedules, Cal!IssueUndated(i)
      PROVE  AllBehind(next2, past2)
  <2>1. /\ next[i] = None /\ next2 = next
        /\ past2 = [past EXCEPT ![i] = Append(past[i], None)]
    BY <1>1, <1>3, <1>7 DEF Cal!IssueUndated, DueDates
  <2>2. QED BY <1>2, <2>1, UndatedKeeps
<1>8. ASSUME NEW i \in Schedules, Cal!PassOver(i)
      PROVE  AllBehind(next2, past2)
  <2>1. /\ next[i] # None /\ next2[i] \in Int /\ past2 = past
        /\ \E jumps \in 0..(next2[i] - next[i]) :
             next2[i] = next[i] + jumps * Interval[i]
        /\ next2 = [next EXCEPT ![i] = next2[i]]
    BY <1>1, <1>3, <1>8 DEF Cal!PassOver, DueDates
  <2>2. next[i] \in Int /\ Interval[i] \in Nat
    BY <1>2, <2>1, ScheduleConstants DEF AllBehind
  <2>3. next[i] <= next2[i]
    BY <2>1, <2>2, LaterDates
  <2>4. QED BY <1>2, <2>1, <2>3, PlanKeeps
<1>9. ASSUME NEW i \in Schedules, Cal!Plan(i) PROVE AllBehind(next2, past2)
  <2>1. /\ past[i] = << >> /\ next2[i] \in Int \cup {None} /\ past2 = past
        /\ next2 = [next EXCEPT ![i] = next2[i]]
    BY <1>1, <1>3, <1>9 DEF Cal!Plan, DueDates
  <2>2. QED BY <1>2, <2>1, PlanKeeps
<1>10. QED
  BY <1>5, <1>6, <1>7, <1>8, <1>9 DEF Cal!CalendarNext

\* So no due date gets two orders, and none gets one after a later date did.
THEOREM EachDateOnceInTurn ==
  ASSUME Disciplined
  PROVE  Spec => []Cal!EachOnceInTurn
<1>1. Cal!Start => AllBehind(DueDates, issued)
  BY DEF Cal!Start, AllBehind, DueDates
<1>2. AllBehind(DueDates, issued) /\ [Cal!CalendarNext]_(Cal!calendar)
        => AllBehind(DueDates, issued)'
  BY CalendarKeeps
<1>3. AllBehind(DueDates, issued) => Cal!EachOnceInTurn
  BY DEF AllBehind, Cal!EachOnceInTurn
<1>4. Cal!Spec => []Cal!EachOnceInTurn
  BY <1>1, <1>2, <1>3, PTL DEF Cal!Spec
<1>5. QED BY <1>4, SchedulesImplementCalendar DEF ImplementsCalendar
-----------------------------------------------------------------------------
(* The next order fits.                                                    *)

\* A disciplined use that deletes no orders.
Steady == Disciplined /\ "remove" \notin Handlers

\* The order o lies behind a schedule that is due next at a date or a meter.
LiesBehind(o, date, meter, meters) ==
  /\ o.due # None => date # None /\ o.due < date
  /\ o.key[1] = "DATE" => o.due # None /\ o.key[2] = o.due
  /\ o.key[1] = "METER" => /\ o.key[2] \in Int /\ meter # None
                           /\ o.key[2] < meter /\ o.key[2] <= meters[o.schedule]

\* Codes count the orders.
CodesCount ==
  /\ \A o \in orders : o.code <= Cardinality(orders)
  /\ \A o, p \in orders : o.code = p.code => o = p
  /\ \A t \in open : t.do = "generate" => t.order.code <= Cardinality(orders) + 1

OrdersBehind ==
  \A o \in orders :
    LiesBehind(o, schedules[o.schedule].dueDate,
                  schedules[o.schedule].dueMeter, hours)

DraftsHaveNoOrders ==
  \A s \in Schedules : schedules[s].status = "DRAFT" => OrdersOf(s) = {}

\* What a transaction writes leaves all orders behind, its own included.
Leaves(t) ==
  /\ \A o \in OrdersOf(t.schedule) :
       LiesBehind(o, t.row.dueDate, t.row.dueMeter, hours)
  /\ t.do = "generate" => LiesBehind(t.order, t.row.dueDate, t.row.dueMeter, hours)

OpenLeaves ==
  \A t \in open : t.version = schedules[t.schedule].version => Leaves(t)

FInv ==
  IInv /\ CodesCount /\ OrdersBehind /\ DraftsHaveNoOrders /\ OpenLeaves

\* generateWorkOrder leaves the orders behind.
LEMMA GenerationLeaves ==
  ASSUME Steady, FInv, NEW by, NEW s \in Schedules, NEW force \in BOOLEAN,
         NEW date \in {None, schedules[s].dueDate}
  PROVE  /\ Leaves(Generation(by, s, force, date))
         /\ Generation(by, s, force, date).order.code <= Cardinality(orders) + 1
<1> DEFINE now == schedules[s]
           new == Advanced(s, now, now.dueDate)
           key == GenerationKey(s, now, force, now.dueDate)
           order == [code |-> Cardinality(orders) + 1, schedule |-> s,
                     key |-> key, due |-> now.dueDate, status |-> "PENDING", revived |-> FALSE]
           t == Generation(by, s, force, date)
<1>1. (IF date # None THEN date ELSE now.dueDate) = now.dueDate
  OBVIOUS
<1>2. /\ t.do = "generate" /\ t.schedule = s /\ t.row = new /\ t.order = order
  BY <1>1 DEF Generation
<1>3. /\ order.key = key /\ order.due = now.dueDate /\ order.schedule = s
      /\ order.code = Cardinality(orders) + 1
  OBVIOUS
<1> HIDE DEF t, order
<1>4. /\ now \in Row /\ now.dueDate \in Int \cup {None}
      /\ now.dueMeter \in Int \cup {None} /\ None \notin Int
      /\ hours[s] \in Nat /\ Interval[s] \in Nat \ {0}
  BY ScheduleConstants DEF FInv, IInv, TypeOK, Row, Dates
<1>5. \A o \in OrdersOf(s) :
        /\ o.schedule = s /\ LiesBehind(o, now.dueDate, now.dueMeter, hours)
        /\ o.due \in Int \cup {None}
  BY DEF FInv, OrdersBehind, OrdersOf, IInv, TypeOK, OrderRow, Dates
<1> DEFINE target == Target(now)
<1>6. /\ target \in Int
      /\ now.dueMeter # None => target = now.dueMeter
  BY <1>4 DEF Target
<1>7. ASSUME now.kind = "METER" PROVE Leaves(t)
  <2>1. now.dueDate = None
    BY <1>7 DEF Steady, FInv, IInv, KindsTell
  <2> DEFINE meter == IF hours[s] < target THEN hours[s] + Interval[s]
                      ELSE target + Interval[s]
  <2>2. new = [now EXCEPT !.dueMeter = meter]
    BY <1>7 DEF Advanced
  <2>3. /\ hours[s] < target => key[1] = "UNIQUE"
        /\ ~(hours[s] < target) => key = <<"METER", target>>
    BY <1>7 DEF GenerationKey
  <2> HIDE DEF new, key, target
  <2>4. /\ meter \in Int /\ meter # None
        /\ hours[s] < target => meter > hours[s]
        /\ ~(hours[s] < target) => meter > target
    BY <1>4, <1>6
  <2> HIDE DEF meter
  <2>5. meter \in Dates
    BY <2>4 DEF Dates
  <2>6. new.dueDate = None /\ new.dueMeter = meter
    BY <1>4, <2>1, <2>2, <2>5, SetDueMeter
  <2>7. ASSUME NEW o \in OrdersOf(s) PROVE LiesBehind(o, None, meter, hours)
    <3>1. o.due = None
      BY <1>5, <2>1 DEF LiesBehind
    <3>2. o.key[1] # "DATE"
      BY <1>5, <3>1 DEF LiesBehind
    <3>3. CASE o.key[1] = "METER"
      <4>1. /\ o.key[2] \in Int /\ now.dueMeter # None
            /\ o.key[2] < now.dueMeter /\ o.key[2] <= hours[o.schedule]
            /\ o.schedule = s
        BY <1>5, <3>3 DEF LiesBehind
      <4>2. o.key[2] < meter
        BY <1>4, <1>6, <2>4, <4>1
      <4>3. QED BY <2>4, <3>1, <3>2, <4>1, <4>2 DEF LiesBehind
    <3>4. CASE o.key[1] # "METER"
      BY <3>1, <3>2, <3>4 DEF LiesBehind
    <3>5. QED BY <3>3, <3>4
  <2>8. LiesBehind(order, None, meter, hours)
    <3>1. order.due = None
      BY <1>3, <2>1
    <3>2. CASE hours[s] < target
      <4>1. order.key[1] = "UNIQUE"
        BY <1>3, <2>3, <3>2
      <4>2. QED BY <3>1, <4>1 DEF LiesBehind
    <3>3. CASE ~(hours[s] < target)
      <4>1. order.key[1] = "METER" /\ order.key[2] = target
        BY <1>3, <2>3, <3>3
      <4>2. target < meter /\ target <= hours[order.schedule]
        BY <1>3, <1>4, <1>6, <2>4, <3>3
      <4>3. QED BY <1>6, <2>4, <3>1, <4>1, <4>2 DEF LiesBehind
    <3>4. QED BY <3>2, <3>3
  <2>9. QED BY <1>2, <2>6, <2>7, <2>8 DEF Leaves
<1>8. ASSUME now.kind # "METER" PROVE Leaves(t)
  <2>1. now.dueDate # None
    BY <1>8 DEF Steady, FInv, IInv, KindsTell
  <2> DEFINE next == now.dueDate + Interval[s]
  <2>2. new = [now EXCEPT !.dueDate = next]
    BY <1>8, <2>1 DEF Advanced, calculateNextDueDate
  <2>3. key[1] = "UNIQUE" \/ key = <<"DATE", now.dueDate>>
    BY <1>8 DEF GenerationKey
  <2> HIDE DEF new, key
  <2>4. next \in Int /\ now.dueDate < next /\ next # None /\ now.dueDate \in Int
    BY <1>4, <2>1
  <2> HIDE DEF next
  <2>5. next \in Dates
    BY <2>4 DEF Dates
  <2>6. new.dueDate = next /\ new.dueMeter = now.dueMeter
    BY <1>4, <2>2, <2>5, SetDueDate
  <2>7. ASSUME NEW o \in OrdersOf(s) PROVE LiesBehind(o, next, now.dueMeter, hours)
    <3>1. o.due # None => o.due \in Int /\ o.due < now.dueDate
      BY <1>5 DEF LiesBehind
    <3>2. o.due # None => o.due < next
      BY <2>4, <3>1
    <3>3. QED BY <1>5, <2>4, <3>2 DEF LiesBehind
  <2>8. LiesBehind(order, next, now.dueMeter, hours)
    <3>1. /\ order.due = now.dueDate
          /\ \/ order.key[1] = "UNIQUE"
             \/ order.key[1] = "DATE" /\ order.key[2] = now.dueDate
      BY <1>3, <2>3
    <3>2. QED BY <2>1, <2>4, <3>1 DEF LiesBehind
  <2>9. QED BY <1>2, <2>6, <2>7, <2>8 DEF Leaves
<1>9. t.order.code <= Cardinality(orders) + 1
  <2>1. Cardinality(orders) \in Nat
    BY FS_CardinalityType DEF FInv, IInv
  <2>2. QED BY <1>2, <1>3, <2>1
<1>10. Leaves(t)
  BY <1>7, <1>8
<1>11. QED BY <1>9, <1>10 DEF t

\* So do complete and cancel, which do not move the schedule.
LEMMA EndingLeaves ==
  ASSUME FInv, NEW do \in {"complete", "cancel"}, NEW s \in Schedules,
         NEW status \in ScheduleStatuses, NEW touched
  PROVE  /\ Leaves(Ending(do, s, status, touched))
         /\ Ending(do, s, status, touched).do # "generate"
<1> DEFINE now == schedules[s]
           new == [now EXCEPT !.status = status]
           t == Ending(do, s, status, touched)
<1>1. t.do = do /\ t.schedule = s /\ t.row = new
  BY DEF Ending
<1>2. new.dueDate = now.dueDate /\ new.dueMeter = now.dueMeter
  BY SetStatus DEF FInv, IInv, TypeOK
<1>3. \A o \in OrdersOf(s) : LiesBehind(o, now.dueDate, now.dueMeter, hours)
  BY DEF FInv, OrdersBehind, OrdersOf
<1> HIDE DEF new, t
<1>4. Leaves(t) /\ t.do # "generate"
  BY <1>1, <1>2, <1>3 DEF Leaves
<1>5. QED BY <1>4 DEF t

\* What lies behind stays behind as dates are put off and meters run on.
LEMMA StaysBehind ==
  ASSUME NEW o \in OrderRow, NEW d1 \in Dates, NEW d2 \in Dates, NEW m,
         NEW h1 \in [Schedules -> Nat], NEW h2 \in [Schedules -> Nat],
         h1[o.schedule] <= h2[o.schedule],
         d1 # None => d2 # None /\ d1 <= d2,
         LiesBehind(o, d1, m, h1)
  PROVE  LiesBehind(o, d2, m, h2)
<1>1. o.schedule \in Schedules /\ o.due \in Dates /\ None \notin Int
  BY ScheduleConstants DEF OrderRow
<1>2. o.due # None => d2 # None /\ o.due < d2
  BY <1>1 DEF LiesBehind, Dates
<1>3. o.key[1] = "METER" => o.key[2] \in Int /\ o.key[2] <= h2[o.schedule]
  BY <1>1 DEF LiesBehind
<1>4. QED BY <1>2, <1>3 DEF LiesBehind

\* Steps that leave schedules and orders alone, while meters may run on.
LEMMA QuietBehind ==
  ASSUME FInv, IInv', UNCHANGED <<schedules, orders>>,
         \A s \in Schedules : hours[s] <= hours'[s],
         \A t \in open' \ open :
           Leaves(t) /\ (t.do = "generate" => t.order.code <= Cardinality(orders) + 1)
  PROVE  FInv'
<1>1. /\ hours \in [Schedules -> Nat] /\ hours' \in [Schedules -> Nat]
      /\ orders \subseteq OrderRow
      /\ \A s \in Schedules : schedules[s].dueDate \in Dates
  BY DEF FInv, IInv, TypeOK, Row
<1>2. CodesCount' /\ DraftsHaveNoOrders'
  BY DEF FInv, CodesCount, DraftsHaveNoOrders, OrdersOf
<1>3. \A o \in OrderRow, d \in Dates : \A m :
        LiesBehind(o, d, m, hours) => LiesBehind(o, d, m, hours')
  <2> TAKE o \in OrderRow, d \in Dates
  <2> TAKE m
  <2> HAVE LiesBehind(o, d, m, hours)
  <2>1. o.schedule \in Schedules
    BY DEF OrderRow
  <2>2. d # None => d # None /\ d <= d
    BY DEF Dates
  <2>3. QED BY <1>1, <2>1, <2>2, StaysBehind
<1>4. OrdersBehind'
  BY <1>1, <1>3 DEF FInv, OrdersBehind, OrderRow
<1>5. ASSUME NEW t \in open', Leaves(t) PROVE Leaves(t)'
  <2>1. /\ t \in Transaction /\ t.row.dueDate \in Dates
        /\ t.do = "generate" => t.order \in OrderRow
    BY DEF IInv, TypeOK, Transaction, OpenRight, Row
  <2>2. OrdersOf(t.schedule)' = OrdersOf(t.schedule)
        /\ OrdersOf(t.schedule) \subseteq OrderRow
    BY <1>1 DEF OrdersOf
  <2>3. QED BY <1>3, <1>5, <2>1, <2>2 DEF Leaves
<1>6. OpenLeaves'
  <2> SUFFICES ASSUME NEW t \in open', t.version = schedules[t.schedule].version
               PROVE  Leaves(t)
    BY <1>5 DEF OpenLeaves
  <2>1. CASE t \in open
    BY <2>1 DEF FInv, OpenLeaves
  <2>2. CASE t \notin open
    BY <2>2
  <2>3. QED BY <2>1, <2>2
<1>7. QED BY <1>2, <1>4, <1>6 DEF FInv

\* The other transactions when the schedule s was written.
LEMMA OthersLeave ==
  ASSUME FInv, NEW s \in Schedules,
         \A r \in Schedules \ {s} : schedules'[r] = schedules[r],
         schedules'[s].version = schedules[s].version + 1,
         open' \subseteq open, hours' = hours,
         \A r \in Schedules \ {s} : OrdersOf(r)' \subseteq OrdersOf(r)
  PROVE  OpenLeaves'
<1> SUFFICES ASSUME NEW t \in open', t.version = schedules'[t.schedule].version
             PROVE  Leaves(t)'
  BY DEF OpenLeaves
<1>1. /\ t \in open /\ t.schedule \in Schedules /\ t.version \in Nat
      /\ t.version <= schedules[t.schedule].version
      /\ schedules[s].version \in Nat
  BY DEF FInv, IInv, TypeOK, Transaction, OpenRight, Row
<1>2. t.schedule # s
  <2>1. t.schedule = s => t.version < schedules'[s].version
    BY <1>1
  <2>2. QED BY <1>1, <2>1
<1>3. Leaves(t)
  BY <1>1, <1>2 DEF FInv, OpenLeaves
<1>4. OrdersOf(t.schedule)' \subseteq OrdersOf(t.schedule)
  BY <1>1, <1>2
<1>5. QED BY <1>3, <1>4 DEF Leaves

LEMMA ReplanBehind ==
  ASSUME FInv, IInv', NEW s \in Schedules, Replans(s)
  PROVE  FInv'
<1>1. PICK row \in Row : Planned(s, row) /\ Written(s, row)
  BY DEF Replans
<1>2. UNCHANGED <<orders, open, hours>>
  BY DEF Replans, world
<1>3. /\ schedules \in [Schedules -> Row] /\ orders \subseteq OrderRow
      /\ hours \in [Schedules -> Nat]
  BY DEF FInv, IInv, TypeOK
<1>4. /\ \A r \in Schedules \ {s} : schedules'[r] = schedules[r]
      /\ schedules'[s].version = row.version + 1
      /\ schedules'[s].status = row.status
      /\ schedules'[s].dueDate = row.dueDate
      /\ schedules'[s].dueMeter = row.dueMeter
  BY <1>1, <1>3, WrittenRow
<1>5. CodesCount'
  BY <1>2 DEF FInv, CodesCount
<1>6. DraftsHaveNoOrders'
  <2>1. row.status = "DRAFT" => schedules[s].status = "DRAFT"
    BY <1>1 DEF Planned
  <2>2. QED BY <1>2, <1>4, <2>1 DEF FInv, DraftsHaveNoOrders, OrdersOf
<1>7. OpenLeaves'
  <2>1. schedules'[s].version = schedules[s].version + 1
    BY <1>1, <1>4 DEF Planned
  <2>2. \A r : OrdersOf(r)' = OrdersOf(r)
    BY <1>2 DEF OrdersOf
  <2>3. QED BY <1>2, <1>4, <2>1, <2>2, OthersLeave
<1>8. OrdersBehind'
  <2> SUFFICES ASSUME NEW o \in orders
               PROVE  LiesBehind(o, schedules'[o.schedule].dueDate,
                                    schedules'[o.schedule].dueMeter, hours)
    BY <1>2 DEF OrdersBehind
  <2>1. o \in OrderRow /\ o.schedule \in Schedules
        /\ LiesBehind(o, schedules[o.schedule].dueDate,
                         schedules[o.schedule].dueMeter, hours)
    BY <1>3 DEF FInv, OrdersBehind, OrderRow
  <2>2. CASE o.schedule # s
    BY <1>4, <2>1, <2>2
  <2>3. CASE o.schedule = s
    <3>1. schedules[s].status # "DRAFT"
      BY <2>3 DEF FInv, DraftsHaveNoOrders, OrdersOf
    <3>2. /\ row.dueDate = schedules[s].dueDate
             \/ Occurrence(s, schedules[s].dueDate, row.dueDate)
          /\ row.dueMeter = schedules[s].dueMeter
      BY <1>1, <3>1 DEF Planned
    <3>3. schedules[s].dueDate \in Dates /\ row.dueDate \in Dates
      BY <1>3 DEF Row
    <3>4. schedules[s].dueDate # None
            => row.dueDate # None /\ schedules[s].dueDate <= row.dueDate
      BY <3>2, <3>3, ScheduleConstants DEF Occurrence, Dates
    <3>5. hours[o.schedule] <= hours[o.schedule]
      BY <1>3, <2>1
    <3>6. LiesBehind(o, row.dueDate, schedules[s].dueMeter, hours)
      BY <1>3, <2>1, <2>3, <3>3, <3>4, <3>5, StaysBehind
    <3>7. QED BY <1>4, <2>3, <3>2, <3>6
  <2>4. QED BY <2>2, <2>3
<1>9. QED BY <1>5, <1>6, <1>7, <1>8 DEF FInv

\* A commit adds the order of the transaction and loses none.
LEMMA CommitCounts ==
  ASSUME FInv, NEW t \in open, Commit(t)
  PROVE  Cardinality(orders') =
           Cardinality(orders) + (IF t.do = "generate" THEN 1 ELSE 0)
<1> DEFINE kept == {Cancelled(t, o) : o \in orders}
           f == [o \in orders |-> Cancelled(t, o)]
<1>1. /\ orders' = kept \cup (IF t.do = "generate" THEN {t.order} ELSE {})
      /\ t.do = "generate" => \A o \in orders : o.code # t.order.code
  BY DEF Commit, Succeeds, Collide
<1>2. orders \subseteq OrderRow /\ IsFiniteSet(orders)
  BY DEF FInv, IInv, TypeOK
<1>3. \A o \in orders : Cancelled(t, o).code = o.code
  BY <1>2, CancelledOrder
<1>4. f \in Surjection(orders, kept)
  BY DEF Surjection
<1>5. \A o, p \in orders : f[o] = f[p] => o = p
  <2> TAKE o \in orders, p \in orders
  <2> HAVE f[o] = f[p]
  <2>1. o.code = p.code
    BY <1>3
  <2>2. QED BY <2>1 DEF FInv, CodesCount
<1>6. f \in Injection(orders, kept)
  <2>1. f \in [orders -> kept] /\ DOMAIN f = orders
    OBVIOUS
  <2> HIDE DEF f
  <2>2. QED BY <1>5, <2>1 DEF Injection, IsInjective
<1>7. IsFiniteSet(kept) /\ Cardinality(kept) = Cardinality(orders)
  BY <1>2, <1>4, <1>6, FS_Surjection
<1>8. t.do = "generate" => t.order \notin kept
  <2> SUFFICES ASSUME t.do = "generate", NEW o \in orders, t.order = Cancelled(t, o)
               PROVE  FALSE
    OBVIOUS
  <2>1. t.order.code = o.code
    BY <1>3
  <2>2. QED BY <1>1, <2>1
<1> HIDE DEF kept
<1>9. CASE t.do = "generate"
  BY <1>1, <1>7, <1>8, <1>9, FS_AddElement
<1>10. CASE t.do # "generate"
  <2>1. orders' = kept
    BY <1>1, <1>10
  <2>2. Cardinality(orders) \in Nat
    BY <1>2, FS_CardinalityType
  <2>3. QED BY <1>7, <1>10, <2>1, <2>2
<1>11. QED BY <1>9, <1>10

LEMMA CommitBehind ==
  ASSUME FInv, IInv', NEW t \in open, Commit(t)
  PROVE  FInv'
<1> DEFINE s == t.schedule
<1>1. /\ s \in Schedules /\ Current(t)
      /\ \A r \in Schedules \ {s} : schedules'[r] = schedules[r]
      /\ schedules'[s].version = schedules[s].version + 1
      /\ schedules'[s].status = t.row.status
      /\ schedules'[s].dueDate = t.row.dueDate
      /\ schedules'[s].dueMeter = t.row.dueMeter
  BY CommitRow DEF FInv
<1>2. /\ open' = open \ {t} /\ hours' = hours
      /\ t.version = schedules[s].version
      /\ t.do = "generate" => \A o \in orders : o.code # t.order.code
  BY DEF Commit, world, Succeeds, Collide
<1>3. /\ orders \subseteq OrderRow /\ IsFiniteSet(orders) /\ IsFiniteSet(orders')
      /\ \A o \in orders' : \/ t.do = "generate" /\ o = t.order
                            \/ \E p \in orders : o = Cancelled(t, p)
  BY CommitOrders DEF FInv, IInv, TypeOK
<1>4. \A p \in orders :
        /\ Cancelled(t, p).schedule = p.schedule
        /\ Cancelled(t, p).code = p.code
        /\ Cancelled(t, p).key = p.key
        /\ Cancelled(t, p).due = p.due
        /\ p.schedule # s => Cancelled(t, p) = p
        /\ p.schedule \in Schedules /\ p.code \in Nat
  BY <1>3, CancelledOrder DEF OrderRow
<1>5. t.do = "generate" => /\ t.order.schedule = s /\ t.order.code \in Nat
                           /\ t.order.code <= Cardinality(orders) + 1
  BY DEF FInv, IInv, OpenRight, CodesCount, OrderRow
<1>6. Leaves(t)
  BY <1>2 DEF FInv, OpenLeaves
<1>7. /\ Cardinality(orders) \in Nat
      /\ Cardinality(orders') =
           Cardinality(orders) + (IF t.do = "generate" THEN 1 ELSE 0)
  BY <1>3, CommitCounts, FS_CardinalityType
<1>8. CodesCount'
  <2>1. ASSUME NEW o \in orders' PROVE o.code <= Cardinality(orders')
    <3>1. CASE t.do = "generate" /\ o = t.order
      BY <1>5, <1>7, <3>1
    <3>2. ASSUME NEW p \in orders, o = Cancelled(t, p)
          PROVE  o.code <= Cardinality(orders')
      <4>1. p.code <= Cardinality(orders) /\ p.code \in Nat /\ o.code = p.code
        BY <1>4, <3>2 DEF FInv, CodesCount
      <4>2. QED BY <1>7, <4>1
    <3>3. QED BY <1>3, <3>1, <3>2
  <2>2. ASSUME NEW o \in orders', NEW p \in orders', o.code = p.code PROVE o = p
    BY <1>2, <1>3, <1>4, <2>2 DEF FInv, CodesCount
  <2>3. ASSUME NEW u \in open', u.do = "generate"
        PROVE  u.order.code <= Cardinality(orders') + 1
    <3>1. u \in open /\ u.order.code \in Nat
          /\ u.order.code <= Cardinality(orders) + 1
      BY <1>2, <2>3 DEF FInv, IInv, OpenRight, CodesCount, OrderRow
    <3>2. QED BY <1>7, <3>1
  <2>4. QED BY <2>1, <2>2, <2>3 DEF CodesCount
<1>9. \A r \in Schedules \ {s} : OrdersOf(r)' \subseteq OrdersOf(r)
  BY <1>3, <1>4, <1>5 DEF OrdersOf
<1>10. DraftsHaveNoOrders'
  <2>1. t.row.status # "DRAFT"
    BY <1>1 DEF Current
  <2>2. QED BY <1>1, <1>9, <2>1 DEF FInv, DraftsHaveNoOrders
<1>11. OpenLeaves'
  BY <1>1, <1>2, <1>9, OthersLeave
<1>12. OrdersBehind'
  <2> SUFFICES ASSUME NEW o \in orders'
               PROVE  LiesBehind(o, schedules'[o.schedule].dueDate,
                                    schedules'[o.schedule].dueMeter, hours)
    BY <1>2 DEF OrdersBehind
  <2>1. CASE t.do = "generate" /\ o = t.order
    BY <1>1, <1>5, <1>6, <2>1 DEF Leaves
  <2>2. ASSUME NEW p \in orders, o = Cancelled(t, p), p.schedule = s
        PROVE  LiesBehind(o, schedules'[o.schedule].dueDate,
                             schedules'[o.schedule].dueMeter, hours)
    <3>1. LiesBehind(p, t.row.dueDate, t.row.dueMeter, hours)
      BY <1>6, <2>2 DEF Leaves, OrdersOf
    <3>2. o.schedule = p.schedule /\ o.key = p.key /\ o.due = p.due
      BY <1>4, <2>2
    <3>3. LiesBehind(o, t.row.dueDate, t.row.dueMeter, hours)
      BY <3>1, <3>2 DEF LiesBehind
    <3>4. QED BY <1>1, <2>2, <3>2, <3>3
  <2>3. ASSUME NEW p \in orders, o = Cancelled(t, p), p.schedule # s
        PROVE  LiesBehind(o, schedules'[o.schedule].dueDate,
                             schedules'[o.schedule].dueMeter, hours)
    BY <1>1, <1>4, <2>3 DEF FInv, OrdersBehind
  <2>4. QED BY <1>3, <2>1, <2>2, <2>3
<1>13. QED BY <1>8, <1>10, <1>11, <1>12 DEF FInv

\* Work on an order leaves alone what places it in the calendar.
LEMMA WorkBehind ==
  ASSUME FInv, IInv', NEW o \in orders, NEW new, new # o,
         new.schedule = o.schedule, new.code = o.code,
         new.key = o.key, new.due = o.due,
         orders' = (orders \ {o}) \cup {new},
         UNCHANGED <<schedules, open, hours>>
  PROVE  FInv'
<1>2. o \in OrderRow /\ orders \subseteq OrderRow /\ IsFiniteSet(orders)
  BY DEF FInv, IInv, TypeOK
<1>3. /\ new.schedule = o.schedule /\ new.code = o.code
      /\ new.key = o.key /\ new.due = o.due
  OBVIOUS
<1>4. orders' = (orders \ {o}) \cup {new}
  OBVIOUS
<1>5. new \notin orders
  BY <1>3 DEF FInv, CodesCount
<1>6. UNCHANGED <<schedules, open, hours>>
  OBVIOUS
<1>7. Cardinality(orders') = Cardinality(orders)
  <2> DEFINE rest == orders \ {o}
  <2>1. IsFiniteSet(rest) /\ Cardinality(rest) = Cardinality(orders) - 1
    BY <1>2, FS_RemoveElement
  <2>2. new \notin rest
    BY <1>5
  <2> HIDE DEF rest
  <2>3. Cardinality(rest \cup {new}) = Cardinality(rest) + 1
    BY <2>1, <2>2, FS_AddElement
  <2>4. Cardinality(orders) \in Nat
    BY <1>2, FS_CardinalityType
  <2>5. QED BY <1>4, <2>1, <2>3, <2>4 DEF rest
<1>8. \A x \in orders' : \E p \in orders :
        /\ x.schedule = p.schedule /\ x.code = p.code
        /\ x.key = p.key /\ x.due = p.due
  BY <1>3, <1>4
<1>9. CodesCount'
  <2>1. \A x, y \in orders' : x.code = y.code => x = y
    BY <1>3, <1>4 DEF FInv, CodesCount
  <2>2. \A x \in orders' : x.code <= Cardinality(orders')
    BY <1>7, <1>8 DEF FInv, CodesCount
  <2>3. QED BY <1>6, <1>7, <2>1, <2>2 DEF FInv, CodesCount
<1>10. DraftsHaveNoOrders'
  BY <1>6, <1>8 DEF FInv, DraftsHaveNoOrders, OrdersOf
<1>11. OrdersBehind'
  BY <1>6, <1>8 DEF FInv, OrdersBehind, LiesBehind
<1>12. OpenLeaves'
  <2> SUFFICES ASSUME NEW t \in open, t.version = schedules[t.schedule].version
               PROVE  Leaves(t)'
    BY <1>6 DEF OpenLeaves
  <2>1. Leaves(t)
    BY DEF FInv, OpenLeaves
  <2>2. \A x \in OrdersOf(t.schedule)' : \E p \in OrdersOf(t.schedule) :
          x.schedule = p.schedule /\ x.key = p.key /\ x.due = p.due
    BY <1>8 DEF OrdersOf
  <2>3. \A x \in OrdersOf(t.schedule)' :
          LiesBehind(x, t.row.dueDate, t.row.dueMeter, hours)
    BY <2>1, <2>2 DEF Leaves, LiesBehind
  <2>4. QED BY <1>6, <2>1, <2>3 DEF Leaves
<1>13. QED BY <1>9, <1>10, <1>11, <1>12 DEF FInv

LEMMA ProgressBehind ==
  ASSUME FInv, IInv', NEW o \in orders, Progress(o)
  PROVE  FInv'
<1>1. PICK to \in OrderStatuses \ {o.status} :
        orders' = (orders \ {o}) \cup {[o EXCEPT !.status = to]}
  BY DEF Progress
<1> DEFINE new == [o EXCEPT !.status = to]
<1>2. o \in OrderRow
  BY DEF FInv, IInv, TypeOK
<1>3. /\ new.status = to /\ new.schedule = o.schedule /\ new.code = o.code
      /\ new.key = o.key /\ new.due = o.due
  BY <1>2 DEF OrderRow
<1>4. orders' = (orders \ {o}) \cup {new} /\ new # o
  BY <1>1, <1>3
<1> HIDE DEF new
<1>5. UNCHANGED <<schedules, open, hours>>
  BY DEF Progress, world
<1>6. QED BY <1>3, <1>4, <1>5, WorkBehind

LEMMA WriteInProgressBehind ==
  ASSUME FInv, IInv', NEW o \in orders, WriteInProgress(o)
  PROVE  FInv'
<1> DEFINE new == ClockedIn(o)
<1>1. /\ orders' = (orders \ {o}) \cup {new}
      /\ UNCHANGED <<schedules, open, hours>>
  BY DEF WriteInProgress
<1>2. /\ new.schedule = o.schedule /\ new.code = o.code
      /\ new.key = o.key /\ new.due = o.due
  BY ClockedInRow DEF FInv, IInv, TypeOK
<1> HIDE DEF new
<1>3. CASE new # o
  BY <1>1, <1>2, <1>3, WorkBehind
<1>4. CASE new = o
  <2>1. orders' = orders /\ \A s \in Schedules : hours[s] <= hours'[s]
    BY <1>1, <1>4 DEF FInv, IInv, TypeOK
  <2>2. QED BY <1>1, <2>1, QuietBehind
<1>5. QED BY <1>3, <1>4

LEMMA BeginBehind ==
  ASSUME FInv, IInv', UNCHANGED <<schedules, orders, hours>>, NEW t,
         Leaves(t), t.do = "generate" => t.order.code <= Cardinality(orders) + 1,
         open' = open \cup {t}
  PROVE  FInv'
<1>1. \A s \in Schedules : hours[s] <= hours'[s]
  BY DEF FInv, IInv, TypeOK
<1>2. \A u \in open' \ open :
        Leaves(u) /\ (u.do = "generate" => u.order.code <= Cardinality(orders) + 1)
  OBVIOUS
<1>3. QED BY <1>1, <1>2, QuietBehind

LEMMA GenerateBehind ==
  ASSUME Steady, FInv, IInv', NEW s \in Schedules, generateWorkOrder(s)
  PROVE  FInv'
<1>1. PICK force \in BOOLEAN,
           date \in {None} \cup (IF "chooseDate" \in Handlers THEN Days ELSE {}) :
        open' = open \cup {Generation(None, s, force, date)}
  BY DEF generateWorkOrder
<1>2. date \in {None, schedules[s].dueDate}
  BY DEF Steady, Disciplined
<1>3. UNCHANGED <<schedules, orders, hours>>
  BY DEF generateWorkOrder, world
<1>4. /\ Leaves(Generation(None, s, force, date))
      /\ Generation(None, s, force, date).order.code <= Cardinality(orders) + 1
  BY <1>2, GenerationLeaves
<1>5. QED BY <1>1, <1>3, <1>4, BeginBehind

LEMMA ProcessBehind ==
  ASSUME Steady, FInv, IInv', NEW t \in Timers, Process(t)
  PROVE  FInv'
<1>1. PICK n \in batch[t] :
        open' = IF /\ n.schedule \notin orphaned
                   /\ MayGenerate(n.schedule, FALSE, n.due)
                   /\ schedules[n.schedule].version = n.version
                THEN open \cup {Generation(t, n.schedule, FALSE, n.due)}
                ELSE open
  BY DEF Process
<1>2. UNCHANGED <<schedules, orders, hours>>
  BY DEF Process, world
<1>3. CASE open' = open
  <2>1. \A s \in Schedules : hours[s] <= hours'[s]
    BY <1>2 DEF FInv, IInv, TypeOK
  <2>2. QED BY <1>2, <1>3, <2>1, QuietBehind
<1>4. CASE open' # open
  <2>1. /\ schedules[n.schedule].version = n.version
        /\ open' = open \cup {Generation(t, n.schedule, FALSE, n.due)}
    BY <1>1, <1>4
  <2>2. /\ n.due \in {None, schedules[n.schedule].dueDate}
        /\ n.schedule \in Schedules
    BY <2>1 DEF FInv, IInv, BatchRight, TypeOK
  <2>3. /\ Leaves(Generation(t, n.schedule, FALSE, n.due))
        /\ Generation(t, n.schedule, FALSE, n.due).order.code
             <= Cardinality(orders) + 1
    BY <2>2, GenerationLeaves
  <2>4. QED BY <1>2, <2>1, <2>3, BeginBehind
<1>5. QED BY <1>3, <1>4

LEMMA StepBehind ==
  ASSUME Steady, FInv, [Next]_vars
  PROVE  FInv'
<1>1. IInv'
  BY InvStep DEF FInv
<1>2. ASSUME UNCHANGED <<schedules, orders>>, open' \subseteq open,
             \A s \in Schedules : hours[s] <= hours'[s]
      PROVE  FInv'
  BY <1>1, <1>2, QuietBehind
<1>3. \A s \in Schedules : hours[s] <= hours[s] /\ hours[s] <= hours[s] + 1
  BY DEF FInv, IInv, TypeOK
<1>4. ASSUME NEW s \in Schedules, activate(s) \/ pause(s) \/ update(s)
      PROVE  FInv'
  <2>1. Replans(s)
    BY <1>4, ActivateReplans, PauseReplans, UpdateReplans DEF FInv
  <2>2. QED BY <1>1, <2>1, ReplanBehind
<1>5. ASSUME NEW s \in Schedules, complete(s) \/ cancel(s)
      PROVE  FInv'
  <2>1. UNCHANGED <<schedules, orders, hours>>
    BY <1>5 DEF complete, cancel, world
  <2>2. PICK do \in {"complete", "cancel"}, status \in ScheduleStatuses :
          \E touched : open' = open \cup {Ending(do, s, status, touched)}
    BY <1>5 DEF complete, cancel, ScheduleStatuses
  <2>3. PICK touched : open' = open \cup {Ending(do, s, status, touched)}
    BY <2>2
  <2>4. /\ Leaves(Ending(do, s, status, touched))
        /\ Ending(do, s, status, touched).do # "generate"
    BY EndingLeaves
  <2>5. QED BY <1>1, <2>1, <2>3, <2>4, BeginBehind
<1>6. ASSUME NEW s \in Schedules, generateWorkOrder(s) PROVE FInv'
  BY <1>1, <1>6, GenerateBehind
<1>7. ASSUME NEW s \in Schedules, ToggleEquipment(s) \/ ToggleCreator(s)
      PROVE  FInv'
  BY <1>2, <1>3, <1>7 DEF ToggleEquipment, ToggleCreator
<1>8. ASSUME NEW s \in Schedules, Run(s) PROVE FInv'
  <2>1. hours' = [hours EXCEPT ![s] = hours[s] + 1]
        /\ UNCHANGED <<schedules, orders, open>>
    BY <1>8 DEF Run
  <2>2. hours \in [Schedules -> Nat]
    BY DEF FInv, IInv, TypeOK
  <2>3. \A r \in Schedules : hours[r] <= hours'[r]
    BY <1>3, <2>1, <2>2
  <2>4. QED BY <1>2, <2>1, <2>3
<1>9. ASSUME NEW t \in Timers, TimerScan(t) \/ processDue(t)
      PROVE  FInv'
  BY <1>2, <1>3, <1>9 DEF TimerScan, processDue, Scan, world
<1>10. ASSUME NEW t \in Timers, Process(t) PROVE FInv'
  BY <1>1, <1>10, ProcessBehind
<1>11. ASSUME NEW t \in open, Commit(t) PROVE FInv'
  BY <1>1, <1>11, CommitBehind
<1>12. ASSUME NEW t \in open, Fail(t) PROVE FInv'
  BY <1>2, <1>3, <1>12 DEF Fail, world
<1>13. ASSUME NEW o \in orders,
              Progress(o) \/ startWorkSession(o) \/ WriteInProgress(o)
       PROVE  FInv'
  <2>1. CASE startWorkSession(o)
    BY <1>2, <1>3, <2>1 DEF startWorkSession
  <2>2. QED
    BY <1>1, <1>13, <2>1, ProgressBehind, WriteInProgressBehind
<1>14. ASSUME NEW o \in orders, remove(o) PROVE FInv'
  BY <1>14 DEF remove, Call, Steady
<1>15. CASE Tick \/ Restart \/ UNCHANGED vars
  BY <1>2, <1>3, <1>15 DEF Tick, Restart, vars
<1>16. QED
  BY <1>4, <1>5, <1>6, <1>7, <1>8, <1>9, <1>10, <1>11, <1>12, <1>13, <1>14,
     <1>15 DEF Next

LEMMA InitBehind == Init => FInv
<1> SUFFICES ASSUME Init PROVE FInv
  OBVIOUS
<1>1. IInv
  BY InitInv
<1>2. orders = {} /\ open = {}
  BY DEF Init
<1>3. QED
  BY <1>1, <1>2 DEF FInv, CodesCount, OrdersBehind, DraftsHaveNoOrders, OrdersOf,
                    OpenLeaves

\* What lies behind does not collide with what comes next.
LEMMA BehindFits ==
  ASSUME FInv
  PROVE  NextOrderFits
<1> SUFFICES ASSUME NEW s \in Schedules, NEW o \in orders
             PROVE  ~Collide(o, Generation(None, s, FALSE, None).order)
  BY DEF NextOrderFits
<1> DEFINE now == schedules[s]
           key == GenerationKey(s, now, FALSE, now.dueDate)
           next == [code |-> Cardinality(orders) + 1, schedule |-> s,
                    key |-> key, due |-> now.dueDate, status |-> "PENDING", revived |-> FALSE]
<1>1. Generation(None, s, FALSE, None).order = next
  BY DEF Generation
<1>2. /\ next.code = Cardinality(orders) + 1 /\ next.schedule = s
      /\ next.key = key /\ next.due = now.dueDate
  OBVIOUS
<1> HIDE DEF next
<1>3. /\ now.dueDate \in Int \cup {None} /\ now.dueMeter \in Int \cup {None}
      /\ None \notin Int
      /\ o.code \in Nat /\ o.due \in Int \cup {None}
  BY ScheduleConstants DEF FInv, IInv, TypeOK, Row, OrderRow, Dates
<1>4. o.code # next.code
  <2>1. Cardinality(orders) \in Nat /\ o.code <= Cardinality(orders)
    BY FS_CardinalityType DEF FInv, IInv, CodesCount
  <2>2. QED BY <1>2, <1>3, <2>1
<1>5. ASSUME o.schedule = s
      PROVE  /\ ~(o.due = next.due /\ o.due # None)
             /\ ~(o.key = next.key /\ o.key[1] # "UNIQUE")
  <2>1. LiesBehind(o, now.dueDate, now.dueMeter, hours)
    BY <1>5 DEF FInv, OrdersBehind
  <2>2. ~(o.due = now.dueDate /\ o.due # None)
    BY <1>3, <2>1 DEF LiesBehind
  <2>3. \/ key = <<"UNIQUE", None>>
        \/ key = <<"METER", Target(now)>>
        \/ key = <<"DATE", now.dueDate>> /\ now.dueDate # None
    BY DEF GenerationKey
  <2> HIDE DEF key
  <2>4. key = <<"METER", Target(now)>> => o.key # key
    <3>1. now.dueMeter # None => Target(now) = now.dueMeter
      BY DEF Target
    <3>2. o.key[1] = "METER" => /\ o.key[2] \in Int /\ now.dueMeter # None
                                /\ o.key[2] < now.dueMeter
      BY <2>1 DEF LiesBehind
    <3>3. ASSUME o.key = <<"METER", Target(now)>> PROVE FALSE
      <4>1. o.key[1] = "METER" /\ o.key[2] = Target(now)
        BY <3>3
      <4>2. QED BY <1>3, <3>1, <3>2, <4>1
    <3>4. QED BY <3>3
  <2>5. key = <<"DATE", now.dueDate>> /\ now.dueDate # None => o.key # key
    BY <2>1, <2>2 DEF LiesBehind
  <2>6. QED BY <1>2, <2>2, <2>3, <2>4, <2>5
<1>6. QED BY <1>1, <1>2, <1>4, <1>5 DEF Collide

\* Whoever neither chooses dates nor deletes orders never meets a schedule
\* that no scan can serve: the order it generates next always fits.
THEOREM NextOrderAlwaysFits ==
  ASSUME Steady
  PROVE  Spec => []NextOrderFits
<1>1. FInv /\ [Next]_vars => FInv'
  BY StepBehind
<1>2. QED BY <1>1, InitBehind, BehindFits, PTL DEF Spec
=============================================================================
