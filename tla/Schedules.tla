----------------------------- MODULE Schedules ------------------------------
(***************************************************************************)
(* Preventive maintenance: SchedulesService.  A schedule comes due on a    *)
(* date or at a meter reading; people and timers turn what is due into     *)
(* work orders.                                                            *)
(*                                                                         *)
(* Every handler is a database transaction: it reads a snapshot, and it    *)
(* writes the schedule only if the schedule still has the version it read. *)
(* Handlers that read nothing but the schedule are one action.  Handlers   *)
(* that also depend on the orders (generateWorkOrder, complete, cancel)    *)
(* are two: Begin reads, Commit writes or fails and writes nothing.        *)
(*                                                                         *)
(* A timer (the scan at boot, the six-hourly one, or a call of process-due)*)
(* reads the schedules once and then works through what it read.           *)
(***************************************************************************)
EXTENDS Lifecycle, Integers, Sequences, FiniteSets

CONSTANTS
  Schedules,   \* maintenance schedules, each for equipment of its own
  Timers,      \* processes that run processDueSchedules
  Interval,    \* Interval[s]: frequencyInterval, in days or operating hours
  Lead,        \* Lead[s]: leadTimeDays
  Handlers,    \* the calls that clients make in this instance
  BatchSize,   \* how many schedules one scan reads
  Horizon,     \* the last day
  MaxCalls,    \* how many calls clients make
  MaxHours,    \* the last meter reading
  MaxRestarts, \* how often the server restarts
  None         \* no date, no reading

ASSUME ScheduleConstants ==
  /\ Interval \in [Schedules -> Nat \ {0}]
  /\ Lead \in [Schedules -> Nat]
  /\ BatchSize \in Nat \ {0}
  /\ Horizon \in Nat /\ MaxCalls \in Nat /\ MaxHours \in Nat
  /\ MaxRestarts \in Nat
  /\ None \notin Int

VARIABLES
  schedules,   \* the schedules
  orders,      \* the work orders they generated, a set of rows
  issued,      \* issued[s]: due dates of the orders generated, in order
               \* (the GENERATE_WORK_ORDER rows of scheduleHistory)
  day, hours,  \* the clock, and the meters of the equipment
  unavailable, \* schedules whose equipment is out of use
  orphaned,    \* schedules whose creator's account is locked
  batch,       \* batch[t]: what timer t has read and not yet worked through
  open,        \* the transactions under way
  clockIns,    \* orders that technicians who clock in are about to start
  calls, restarts

vars == <<schedules, orders, issued, day, hours, unavailable, orphaned,
          batch, open, clockIns, calls, restarts>>

ScheduleStatuses == {"DRAFT", "ACTIVE", "PAUSED", "COMPLETED", "CANCELLED"}
Kinds == {"DATE", "METER"}
Days == 0..Horizon
Ended == {"COMPLETED", "CANCELLED"}
-----------------------------------------------------------------------------
(* Due dates.                                                              *)

FaultNextDueDate(s, date) == day + Interval[s]

\* calculateNextDueDate for a frequency of so many days (DAILY, and WEEKLY
\* with seven times as many).
calculateNextDueDate(s, date) == date + Interval[s]

\* projectNextFutureDueDate: the occurrence of a schedule that is due first
\* at or after today, by one jump instead of a loop.
projectNextFutureDueDate(s, date) ==
  IF date >= day THEN date
  ELSE LET jumps == (day - date + Interval[s] - 1) \div Interval[s]
       IN  date + jumps * Interval[s]

\* A meter without a target counts from zero.
Target(row) == IF row.dueMeter = None THEN 0 ELSE row.dueMeter

FaultIsDue(s, row, reference) ==
  IF row.kind = "METER"
  THEN row.dueMeter # None /\ hours[s] >= row.dueMeter
  ELSE row.dueDate # None /\ row.dueDate = reference + Lead[s]

\* What processDueSchedules takes for due at a reference date.
IsDue(s, row, reference) ==
  IF row.kind = "METER"
  THEN row.dueMeter # None /\ hours[s] >= row.dueMeter
  ELSE row.dueDate # None /\ row.dueDate <= reference + Lead[s]
-----------------------------------------------------------------------------
\* A schedule as create leaves it: the first date is the start, a meter
\* schedule has a target instead.
CreatedSchedule(s, kind, start) ==
  [status |-> "DRAFT", version |-> 1, kind |-> kind, auto |-> TRUE,
   start |-> start,
   dueDate |-> IF kind = "METER" THEN None ELSE start,
   dueMeter |-> IF kind = "METER" THEN Interval[s] ELSE None]

Init ==
  /\ \E kind \in [Schedules -> Kinds], start \in [Schedules -> Days] :
       schedules = [s \in Schedules |-> CreatedSchedule(s, kind[s], start[s])]
  /\ orders = {}
  /\ issued = [s \in Schedules |-> << >>]
  /\ day = 0
  /\ hours = [s \in Schedules |-> 0]
  /\ unavailable = {} /\ orphaned = {}
  /\ batch = [t \in Timers |-> {}]
  /\ open = {} /\ clockIns = {}
  /\ calls = 0 /\ restarts = 0

Call(handler) ==
  /\ handler \in Handlers
  /\ calls < MaxCalls
  /\ calls' = calls + 1

\* The compare-and-swap on the version: the row changes and gets a new one.
Written(s, row) ==
  schedules' = [schedules EXCEPT ![s] = [row EXCEPT !.version = @ + 1]]

world == <<day, hours, unavailable, orphaned, clockIns, restarts>>
-----------------------------------------------------------------------------
(* Handlers that depend on the schedule alone.                             *)

activate(s) ==
  LET row == schedules[s]
      from == IF row.status = "DRAFT" THEN row.start ELSE row.dueDate
      projects == /\ row.kind = "DATE"
                  /\ row.status = "DRAFT" \/ (from # None /\ from < day)
  IN  /\ Call("activate")
      /\ row.status \in {"DRAFT", "PAUSED"}
      /\ Written(s, [row EXCEPT
           !.status = "ACTIVE",
           !.dueDate = IF projects THEN projectNextFutureDueDate(s, from) ELSE @,
           !.dueMeter = IF row.status = "DRAFT" /\ row.kind = "METER"
                        THEN hours[s] + Interval[s] ELSE @])
      /\ UNCHANGED <<orders, issued, batch, open, world>>

pause(s) ==
  /\ Call("pause")
  /\ schedules[s].status = "ACTIVE"
  /\ Written(s, [schedules[s] EXCEPT !.status = "PAUSED"])
  /\ UNCHANGED <<orders, issued, batch, open, world>>

\* update may change any field; those that matter here are autoGenerate, the
\* kind of frequency, and the start, which a draft takes for its due date.
update(s) ==
  LET row == schedules[s] IN
  /\ row.status \notin Ended
  /\ \/ Call("update") /\ Written(s, [row EXCEPT !.auto = ~@])
     \/ Call("changeKind") /\ \E kind \in Kinds :
          Written(s, [row EXCEPT !.kind = kind])
     \/ Call("changeStart") /\ \E start \in Days :
          Written(s, [row EXCEPT !.start = start,
                        !.dueDate = IF row.status = "DRAFT" THEN start ELSE @])
  /\ UNCHANGED <<orders, issued, batch, open, world>>
-----------------------------------------------------------------------------
(* Generating an order.                                                    *)

\* The key under which the order is stored at most once.  "UNIQUE" stands for
\* keys made of the present millisecond.
GenerationKey(s, row, force, due) ==
  LET early == row.kind = "METER" /\ hours[s] < Target(row)
  IN  IF row.kind = "METER"
      THEN IF early THEN <<"UNIQUE", None>> ELSE <<"METER", Target(row)>>
      ELSE IF force \/ due = None THEN <<"UNIQUE", None>> ELSE <<"DATE", due>>

FaultAdvanced(s, row, due) ==
  IF row.kind = "METER"
  THEN [row EXCEPT !.dueMeter = Target(row) + Interval[s]]
  ELSE LET base == IF due # None THEN due
                   ELSE IF row.dueDate # None THEN row.dueDate ELSE day
       IN  [row EXCEPT !.dueDate = calculateNextDueDate(s, base)]

\* The schedule after its order was created.
Advanced(s, row, due) ==
  IF row.kind = "METER"
  THEN [row EXCEPT !.dueMeter = IF hours[s] < Target(row)
                                THEN hours[s] + Interval[s]
                                ELSE Target(row) + Interval[s]]
  ELSE LET base == IF row.dueDate # None THEN row.dueDate
                   ELSE IF due # None THEN due ELSE day
       IN  [row EXCEPT !.dueDate = calculateNextDueDate(s, base)]

OrdersOf(s) == {o \in orders : o.schedule = s}

\* Rows that a unique index of the orders keeps from being inserted together.
Collide(o, p) ==
  \/ o.code = p.code
  \/ /\ o.schedule = p.schedule
     /\ \/ o.key = p.key /\ o.key[1] # "UNIQUE"
        \/ o.due = p.due /\ o.due # None

\* The transaction of generateWorkOrder: 'date' is the date the caller asks
\* for.  A caller whose order exists already is given that order and nothing
\* is written, so the call is no step.
Generation(by, s, force, date) ==
  LET row == schedules[s]
      due == IF date # None THEN date ELSE row.dueDate
  IN  [do |-> "generate", by |-> by, schedule |-> s, version |-> row.version,
       row |-> Advanced(s, row, due),
       order |-> [code |-> Cardinality(orders) + 1, schedule |-> s,
                  key |-> GenerationKey(s, row, force, due), due |-> due,
                  status |-> "PENDING", revived |-> FALSE],
       touched |-> {}]

FaultMayGenerate(s, force, date) ==
  /\ schedules[s].status = "ACTIVE"
  /\ s \notin unavailable
  /\ schedules[s].kind = "METER" /\ ~force => hours[s] > Target(schedules[s])
  /\ \A o \in orders : o.schedule = s
       => o.key # Generation(None, s, force, date).order.key

MayGenerate(s, force, date) ==
  LET row == schedules[s]
      new == Generation(None, s, force, date).order
  IN  /\ row.status = "ACTIVE"
      /\ s \notin unavailable
      /\ row.kind = "METER" /\ ~force => hours[s] >= Target(row)
      /\ \A o \in orders : ~(/\ o.schedule = s
                             /\ o.key = new.key
                             /\ o.key[1] # "UNIQUE")

generateWorkOrder(s) ==
  /\ \E force \in BOOLEAN,
        date \in {None} \cup (IF "chooseDate" \in Handlers THEN Days ELSE {}) :
       /\ MayGenerate(s, force, date)
       /\ open' = open \cup {Generation(None, s, force, date)}
  /\ Call("generate")
  /\ UNCHANGED <<schedules, orders, issued, batch, world>>

\* processDueSchedules reads a batch of active schedules, due or not, and
\* remembers of those that are due on the reference date the version and the
\* date it read.
Scan(t, reference) ==
  LET eligible == {s \in Schedules \ unavailable :
                     schedules[s].status = "ACTIVE" /\ schedules[s].auto}
      size == IF BatchSize < Cardinality(eligible)
              THEN BatchSize ELSE Cardinality(eligible)
  IN  /\ batch[t] = {}
      /\ \A x \in open : x.by # t
      /\ \E read \in SUBSET eligible :
           /\ Cardinality(read) = size
           /\ batch' = [batch EXCEPT ![t] =
                {[schedule |-> s, version |-> schedules[s].version,
                  due |-> schedules[s].dueDate] :
                   s \in {r \in read : IsDue(r, schedules[r], reference)}}]
      /\ UNCHANGED <<schedules, orders, issued, open, calls, world>>

\* A timer scans for today, a call of process-due names a date.
TimerScan(t) == Scan(t, day)

processDue(t) ==
  /\ "processDue" \in Handlers
  /\ \E reference \in Days : Scan(t, reference)

\* One round of the timer's loop: the call of generateWorkOrder, in the name
\* of the creator, for a schedule it read.  An error is noted and the loop
\* goes on.
Process(t) ==
  /\ \A x \in open : x.by # t
  /\ \E n \in batch[t] :
       LET s == n.schedule IN
       /\ batch' = [batch EXCEPT ![t] = @ \ {n}]
       /\ open' = IF /\ s \notin orphaned
                     /\ MayGenerate(s, FALSE, n.due)
                     /\ schedules[s].version = n.version
                  THEN open \cup {Generation(t, s, FALSE, n.due)}
                  ELSE open
  /\ UNCHANGED <<schedules, orders, issued, calls, world>>
-----------------------------------------------------------------------------
(* Ending a schedule.                                                      *)

\* The orders that keep complete from ending their schedule: those on hold
\* are not among them.
BlocksCompletion == (Unfinished \ {"ON_HOLD"}) \cup {"VERIFIED"}

FaultEnding(do, s, status, touched) ==
  [do |-> do, by |-> None, schedule |-> s, version |-> schedules[s].version,
   row |-> [schedules[s] EXCEPT !.status = "CLOSED"],
   order |-> None, touched |-> touched]

Ending(do, s, status, touched) ==
  [do |-> do, by |-> None, schedule |-> s, version |-> schedules[s].version,
   row |-> [schedules[s] EXCEPT !.status = status],
   order |-> None, touched |-> touched]

complete(s) ==
  /\ Call("complete")
  /\ schedules[s].status \notin Ended
  /\ \A o \in OrdersOf(s) : o.status \notin BlocksCompletion
  /\ open' = open \cup {Ending("complete", s, "COMPLETED", {})}
  /\ UNCHANGED <<schedules, orders, issued, batch, world>>

\* cancel takes with it the orders it reads that are not finished.
cancel(s) ==
  /\ Call("cancel")
  /\ schedules[s].status \notin Ended
  /\ open' = open \cup
       {Ending("cancel", s, "CANCELLED",
               {o.code : o \in {p \in OrdersOf(s) : p.status \in Unfinished}})}
  /\ UNCHANGED <<schedules, orders, issued, batch, world>>
-----------------------------------------------------------------------------
(* The end of a transaction.                                               *)

\* The orders that t cancels, by their identity alone: some may be gone, some
\* may have moved on since t read them.
Cancelled(t, o) ==
  IF o.schedule = t.schedule /\ o.code \in t.touched
  THEN [o EXCEPT !.status = "CANCELLED"] ELSE o

FaultSucceeds(t) ==
  /\ t.touched \subseteq {o.code : o \in OrdersOf(t.schedule)}
  /\ t.do = "generate" => \A o \in orders : ~Collide(o, t.order)

Succeeds(t) ==
  /\ schedules[t.schedule].version = t.version
  /\ t.touched \subseteq {o.code : o \in OrdersOf(t.schedule)}
  /\ t.do = "generate" => \A o \in orders : ~Collide(o, t.order)

Commit(t) ==
  /\ Succeeds(t)
  /\ open' = open \ {t}
  /\ Written(t.schedule, t.row)
  /\ orders' = {Cancelled(t, o) : o \in orders}
                 \cup (IF t.do = "generate" THEN {t.order} ELSE {})
  /\ issued' = IF t.do = "generate"
               THEN [issued EXCEPT ![t.schedule] = Append(@, t.order.due)]
               ELSE issued
  /\ UNCHANGED <<batch, calls, world>>

Fail(t) ==
  /\ ~Succeeds(t)
  /\ open' = open \ {t}
  /\ UNCHANGED <<schedules, orders, issued, batch, calls, world>>
-----------------------------------------------------------------------------
(* What happens around the schedules.                                      *)

\* The work on an order goes on (WorkOrdersService.transition).  A transition
\* that overlaps a clock-in, which leaves its version check to pass, moves an
\* order that is Working to another such status: nothing here tells.
Progress(o) ==
  /\ Call("progress")
  /\ \E to \in OrderStatuses \ {o.status} :
       /\ CanTransition(o.status, to)
       /\ orders' = (orders \ {o}) \cup {[o EXCEPT !.status = to]}
  /\ UNCHANGED <<schedules, issued, batch, open, world>>

\* A technician clocks in: startWorkSession reads the order and, several
\* statements later, in no transaction and with no version, writes its status.
startWorkSession(o) ==
  /\ Call("clockIn")
  /\ o.status \in Startable
  /\ clockIns' = clockIns \cup {o.code}
  /\ UNCHANGED <<schedules, orders, issued, batch, open, day, hours,
                 unavailable, orphaned, restarts>>

WriteInProgress(o) ==
  /\ o.code \in clockIns
  /\ clockIns' = clockIns \ {o.code}
  /\ orders' = (orders \ {o}) \cup {ClockedIn(o)}
  /\ UNCHANGED <<schedules, issued, batch, open, day, hours, unavailable,
                 orphaned, calls, restarts>>

\* WorkOrdersService.remove deletes an order in whatever status it is.  A
\* clock-in finds nothing to write to then.
remove(o) ==
  /\ Call("remove")
  /\ orders' = orders \ {o}
  /\ clockIns' = clockIns \ {o.code}
  /\ UNCHANGED <<schedules, issued, batch, open, day, hours, unavailable,
                 orphaned, restarts>>

\* Equipment is taken out of use, and back into use.
ToggleEquipment(s) ==
  /\ Call("equipment")
  /\ unavailable' = IF s \in unavailable THEN unavailable \ {s}
                    ELSE unavailable \cup {s}
  /\ UNCHANGED <<schedules, orders, issued, day, hours, orphaned, batch, open,
                 clockIns, restarts>>

\* The account of a schedule's creator is locked, or unlocked.
ToggleCreator(s) ==
  /\ Call("creator")
  /\ orphaned' = IF s \in orphaned THEN orphaned \ {s} ELSE orphaned \cup {s}
  /\ UNCHANGED <<schedules, orders, issued, day, hours, unavailable, batch,
                 open, clockIns, restarts>>

Tick ==
  /\ day < Horizon
  /\ day' = day + 1
  /\ UNCHANGED <<schedules, orders, issued, hours, unavailable, orphaned,
                 batch, open, clockIns, calls, restarts>>

Run(s) ==
  /\ hours[s] < MaxHours
  /\ hours' = [hours EXCEPT ![s] = @ + 1]
  /\ UNCHANGED <<schedules, orders, issued, day, unavailable, orphaned,
                 batch, open, clockIns, calls, restarts>>

\* The server restarts: what was under way is rolled back, what a timer had
\* read is forgotten, and the scan at boot is a Scan like any other.
Restart ==
  /\ restarts < MaxRestarts
  /\ restarts' = restarts + 1
  /\ batch' = [t \in Timers |-> {}]
  /\ open' = {} /\ clockIns' = {}
  /\ UNCHANGED <<schedules, orders, issued, day, hours, unavailable,
                 orphaned, calls>>

Next ==
  \/ \E s \in Schedules :
       activate(s) \/ pause(s) \/ update(s) \/ generateWorkOrder(s)
         \/ complete(s) \/ cancel(s) \/ ToggleEquipment(s)
         \/ ToggleCreator(s) \/ Run(s)
  \/ \E t \in Timers : TimerScan(t) \/ processDue(t) \/ Process(t)
  \/ \E t \in open : Commit(t) \/ Fail(t)
  \/ \E o \in orders : \/ Progress(o) \/ remove(o)
                       \/ startWorkSession(o) \/ WriteInProgress(o)
  \/ Tick
  \/ Restart

Spec == Init /\ [][Next]_vars

\* setInterval keeps firing, a transaction under way ends, time goes on.
\* Nothing is assumed of the people who call the handlers.
FairSpec ==
  /\ Spec
  /\ \A t \in Timers : WF_vars(TimerScan(t)) /\ WF_vars(Process(t))
  /\ WF_vars(\E t \in open : Commit(t) \/ Fail(t))
-----------------------------------------------------------------------------
(* Properties.                                                             *)

Dates == Int \cup {None}

Row == [status : ScheduleStatuses, version : Nat, kind : Kinds,
        auto : BOOLEAN, start : Int, dueDate : Dates, dueMeter : Dates]

Keys == {"UNIQUE", "DATE", "METER"} \X Dates

OrderRow == [code : Nat, schedule : Schedules, key : Keys, due : Dates,
             status : OrderStatuses, revived : BOOLEAN]

Transaction ==
  [do : {"generate", "complete", "cancel"}, by : Timers \cup {None},
   schedule : Schedules, version : Nat, row : Row,
   order : OrderRow \cup {None}, touched : SUBSET Nat]

\* Every variable keeps its type.
TypeOK ==
  /\ schedules \in [Schedules -> Row]
  /\ orders \subseteq OrderRow
  /\ issued \in [Schedules -> Seq(Dates)]
  /\ day \in Nat
  /\ hours \in [Schedules -> Nat]
  /\ unavailable \subseteq Schedules /\ orphaned \subseteq Schedules
  /\ batch \in [Timers -> SUBSET [schedule : Schedules, version : Nat,
                                  due : Dates]]
  /\ open \subseteq Transaction
  /\ clockIns \subseteq Nat
  /\ calls \in Nat /\ restarts \in Nat

\* Work that is left, unless the order was over when a clock-in revived it.
Outstanding(o) == o.status \in Unfinished /\ ~o.revived

\* A cancelled schedule leaves no work behind: whatever was generated or
\* carried on while cancel ran, none of its orders is unfinished.  The one
\* that remains at work is the order of a technician who had begun to clock
\* in before it was cancelled, and whose write came after.
CancelledLeavesNoWork ==
  \A o \in orders :
    schedules[o.schedule].status = "CANCELLED" => ~Outstanding(o)

\* The order that an active schedule generates next meets no row that a
\* unique index would refuse it for, nor one with its key already (which
\* generateWorkOrder returns without moving the schedule on): otherwise every
\* scan fails in the same way and the schedule is stuck.
NextOrderFits ==
  \A s \in Schedules : schedules[s].status = "ACTIVE" =>
    \A o \in orders : ~Collide(o, Generation(None, s, FALSE, None).order)

\* Once a schedule is out of draft, its due date never goes back, whatever
\* timers and people do to it at the same time.
DueDatesNeverGoBack ==
  [][\A s \in Schedules :
       /\ schedules[s].status # "DRAFT"
       /\ schedules[s].dueDate # None
       => /\ schedules'[s].dueDate # None
          /\ schedules'[s].dueDate >= schedules[s].dueDate]_schedules

\* Whenever a schedule that runs by itself is due on a date, an order for
\* that date is generated sooner or later, whatever restarts and other
\* timers come in between, unless a person intervenes: stops the schedule or
\* its automatic generation, or takes away the equipment or the creator.
DueDatesAreServed ==
  \A s \in Schedules, d \in Days :
    (/\ schedules[s].status = "ACTIVE" /\ schedules[s].kind = "DATE"
     /\ schedules[s].dueDate = d /\ d <= day + Lead[s])
    ~>
    (\/ \E i \in DOMAIN issued[s] : issued[s][i] = d
     \/ schedules[s].status # "ACTIVE" \/ ~schedules[s].auto
     \/ schedules[s].kind # "DATE"
     \/ s \in unavailable \cup orphaned)

\* The same for a meter: once it has passed the target, an order comes and
\* the next target lies ahead of the meter.
MetersAreServed ==
  \A s \in Schedules :
    []<>(\/ ~IsDue(s, schedules[s], day) \/ schedules[s].kind # "METER"
         \/ schedules[s].status # "ACTIVE" \/ ~schedules[s].auto
         \/ s \in unavailable \cup orphaned)

Cal == INSTANCE Calendar WITH
         Items <- Schedules, Step <- Interval,
         next <- [s \in Schedules |-> schedules[s].dueDate]

\* The calendar is all that anyone sees of a disciplined use of the schedules:
\* as long as nobody names a date of his own or makes the schedule another
\* one, each due date gets its order once and in turn.
ImplementsCalendar == Cal!Spec
=============================================================================
