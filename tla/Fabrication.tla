---------------------------- MODULE Fabrication -----------------------------
(***************************************************************************)
(* Fabrication orders: FabricationService.  Technicians clock in and out,  *)
(* the hours of every session are logged and counted to the order, and     *)
(* completing an order issues its materials from the stock.                *)
(*                                                                         *)
(* Nothing here is a transaction: a call is a list of statements, each a   *)
(* step of its own that works on the rows as they are by then, with what   *)
(* the call read before it.  A statement may find its row gone, which ends *)
(* the call, and a server that stops forgets the rest of every list.       *)
(***************************************************************************)
EXTENDS Integers, Sequences, SequencesExt, FiniteSetsExt

CONSTANTS
  Orders,       \* fabrication orders
  Items,        \* inventory items
  Clients,      \* technicians; each makes one call at a time
  OfficeHours,  \* the hours that count as working time
  Workloads,    \* what clients may be up to: see load
  MaxCalls,     \* how many calls clients make
  MaxRestarts,  \* how often the server stops, or the database fails a call
  None          \* no value

VARIABLES
  load,         \* what they are up to: the handlers they call, the targets and
                \* lists of materials they send to update, the stock in the
                \* beginning and the last hour; it never changes
  orders,       \* the orders
  materials,    \* materials[o]: the lines of an order
  sessions,     \* the sessions stored, a function on their identifiers
  logs,         \* the progress logs stored, likewise
  last,         \* the last identifiers given to a session and to a log
  stock,        \* stock[i]: quantity of an item
  ledger,       \* the ISSUE_FABRICATION rows
  now,          \* the clock, in hours
  call,         \* call[c]: what client c's call has yet to do
  clashed,      \* orders on which a rewriting call overlapped another call
  missed,       \* sessions whose stop failed in an update, which went on
  written,      \* written[o]: how hours were put in place of those counted
  calls, restarts

vars == <<load, orders, materials, sessions, logs, last, stock, ledger, now,
          call, clashed, missed, written, calls, restarts>>

Statuses == {"ASSIGNED", "IN_PROGRESS", "ON_HOLD", "COMPLETED", "CLOSED",
             "CANCELLED"}
Times == 0..load.last

Exists(o) == orders[o].status \in Statuses

\* Working time between two hours: workingMinutesBetween.
Worked(from, to) == Cardinality(OfficeHours \cap (from .. to - 1))

Put(rows, id, row) ==
  [i \in DOMAIN rows \cup {id} |-> IF i = id THEN row ELSE rows[i]]

Without(rows, o) ==
  [i \in {j \in DOMAIN rows : rows[j].order # o} |-> rows[i]]

Running(c) ==
  {i \in DOMAIN sessions : sessions[i].user = c /\ sessions[i].status = "ACTIVE"}

RunningOn(o) ==
  {i \in DOMAIN sessions : sessions[i].order = o /\ sessions[i].status = "ACTIVE"}

Absent == [status |-> "NEW", code |-> 0, hours |-> 0, started |-> None,
           ended |-> None]

Idle == [todo |-> << >>, orders |-> {}, rewrites |-> FALSE]

Init ==
  /\ load \in Workloads
  /\ \E codes \in [Orders -> 1..Cardinality(Orders)], new \in SUBSET Orders :
       /\ Cardinality(new) <= 1
       /\ \A o, p \in Orders : o # p => codes[o] # codes[p]
       /\ orders = [o \in Orders |->
            IF o \in new THEN Absent
            ELSE [Absent EXCEPT !.status = "ASSIGNED", !.code = codes[o]]]
  /\ materials \in [Orders -> load.lists \cup {<< >>}]
  /\ \A o \in Orders : orders[o].status = "NEW" => materials[o] = << >>
  /\ sessions = << >> /\ logs = << >> /\ last = [session |-> 0, log |-> 0]
  /\ stock = load.stock /\ ledger = << >>
  /\ now = 0
  /\ call = [c \in Clients |-> Idle]
  /\ clashed = {} /\ missed = {} /\ written = [o \in Orders |-> {}]
  /\ calls = 0 /\ restarts = 0

tables == <<orders, materials, sessions, logs, last, stock, ledger, written>>

\* Client c calls a handler that concerns some orders; it rewrites when it
\* puts values in place of those there, instead of adding to them.
Begin(c, handler, os, rewrites, todo) ==
  /\ handler \in load.handlers
  /\ calls < MaxCalls /\ calls' = calls + 1
  /\ call[c].todo = << >>
  /\ call' = [call EXCEPT ![c] =
                [todo |-> todo, orders |-> os, rewrites |-> rewrites]]
  /\ clashed' = clashed \cup
       {o \in os : \E d \in Clients \ {c} :
                     /\ call[d].todo # << >> /\ o \in call[d].orders
                     /\ rewrites \/ call[d].rewrites}
  /\ UNCHANGED <<load, tables, now, missed, restarts>>

\* The statement at the head of c's list.
Doing(c, what) == call[c].todo # << >> /\ Head(call[c].todo).do = what

\* c goes on with more statements before the rest, or gives up.  A statement
\* gives up when its order is gone; an update that stops sessions would go on
\* instead, but nothing it does then has any effect.
Proceed(c, more) == call' = [call EXCEPT ![c].todo = more \o Tail(@)]
Abort(c) == call' = [call EXCEPT ![c].todo = << >>]

world == <<load, now, clashed, missed, calls, restarts>>
-----------------------------------------------------------------------------
(* create.                                                                 *)

\* generateOrderCode: the number after as many as there are, or the next free.
Codes == {orders[o].code : o \in {p \in Orders : Exists(p)}}
NextCode ==
  Min({n \in (Cardinality(Codes) + 1) .. (2 * Cardinality(Orders) + 1) :
         n \notin Codes})

create(c, o, lines) ==
  /\ orders[o].status = "NEW"
  /\ Begin(c, "create", {o}, FALSE,
           <<[do |-> "insert", order |-> o, code |-> NextCode, lines |-> lines]>>)

\* Another order may have taken the code.
Insert(c) ==
  LET s == Head(call[c].todo) IN
  /\ Doing(c, "insert")
  /\ IF s.code \in Codes \/ orders[s.order].status # "NEW"
     THEN Abort(c) /\ UNCHANGED <<orders, materials>>
     ELSE /\ orders' = [orders EXCEPT ![s.order].status = "ASSIGNED",
                                      ![s.order].code = s.code]
          /\ materials' = [materials EXCEPT ![s.order] = s.lines]
          /\ Proceed(c, << >>)
  /\ UNCHANGED <<sessions, logs, last, stock, ledger, written, world>>
-----------------------------------------------------------------------------
(* Sessions and logs.                                                      *)

FaultLogging(o, user, hours, always) ==
  (IF hours > 0 THEN <<[do |-> "count", order |-> o, hours |-> hours]>>
   ELSE << >>)
  \o (IF hours > 0 \/ always
      THEN <<[do |-> "log", order |-> o, user |-> user, hours |-> hours]>>
      ELSE << >>)

\* The statements that log hours of an order and count them.
Logging(o, user, hours, always) ==
  (IF hours > 0 \/ always
   THEN <<[do |-> "log", order |-> o, user |-> user, hours |-> hours]>>
   ELSE << >>)
  \o (IF hours > 0 THEN <<[do |-> "count", order |-> o, hours |-> hours]>>
      ELSE << >>)

\* The statements that stop a session found running.
Stopping(i, status, content) ==
  LET hours == Worked(sessions[i].start, now) IN
  <<[do |-> "end", id |-> i, status |-> status]>>
    \o Logging(sessions[i].order, sessions[i].user, hours, content)

\* The service stops a session by itself: it looks at the session first.
AutoStop(i) == [do |-> "find", id |-> i]

startWorkSession(c, o) ==
  LET row == orders[o]
      elsewhere == Running(c)
      waiting == row.status \in {"ASSIGNED", "ON_HOLD"}
      resume == IF waiting \/ row.started = None
                THEN <<[do |-> "resume", order |-> o, waited |-> waiting,
                        starts |-> row.started = None]>>
                ELSE << >>
      clockIn == resume \o <<[do |-> "open", order |-> o]>>
  IN  /\ row.status \in {"ASSIGNED", "IN_PROGRESS", "ON_HOLD"}
      /\ Running(c) \cap RunningOn(o) = {}
      /\ IF elsewhere = {}
         THEN Begin(c, "startWorkSession", {o}, FALSE, clockIn)
         ELSE \E i \in elsewhere :
                Begin(c, "startWorkSession", {o, sessions[i].order}, FALSE,
                      <<AutoStop(i)>> \o clockIn)

stopWorkSession(c, i) ==
  /\ i \in Running(c)
  /\ \E content \in BOOLEAN :
       Begin(c, "stopWorkSession", {sessions[i].order}, FALSE,
             Stopping(i, "COMPLETED", content))

Find(c) ==
  LET s == Head(call[c].todo) IN
  /\ Doing(c, "find")
  /\ IF s.id \notin DOMAIN sessions THEN Abort(c)
     ELSE Proceed(c, IF sessions[s.id].status = "ACTIVE"
                     THEN Stopping(s.id, "AUTO_CLOSED", FALSE) ELSE << >>)
  /\ UNCHANGED <<tables, world>>

EndSession(c) ==
  LET s == Head(call[c].todo) IN
  /\ Doing(c, "end")
  /\ IF s.id \notin DOMAIN sessions THEN Abort(c) /\ UNCHANGED sessions
     ELSE /\ sessions' = [sessions EXCEPT ![s.id].status = s.status]
          /\ Proceed(c, << >>)
  /\ UNCHANGED <<orders, materials, logs, last, stock, ledger, written, world>>

Resume(c) ==
  LET s == Head(call[c].todo) IN
  /\ Doing(c, "resume")
  /\ IF ~Exists(s.order) THEN Abort(c) /\ UNCHANGED orders
     ELSE /\ orders' = [orders EXCEPT
               ![s.order].status = IF s.waited THEN "IN_PROGRESS" ELSE @,
               ![s.order].started = IF s.starts THEN now ELSE @]
          /\ Proceed(c, << >>)
  /\ UNCHANGED <<materials, sessions, logs, last, stock, ledger, written, world>>

OpenSession(c) ==
  LET s == Head(call[c].todo) IN
  /\ Doing(c, "open")
  /\ IF ~Exists(s.order) THEN Abort(c) /\ UNCHANGED <<sessions, last>>
     ELSE /\ last' = [last EXCEPT !.session = @ + 1]
          /\ sessions' = Put(sessions, last'.session,
                             [order |-> s.order, user |-> c, start |-> now,
                              status |-> "ACTIVE"])
          /\ Proceed(c, << >>)
  /\ UNCHANGED <<orders, materials, logs, stock, ledger, written, world>>

\* createProgressLog: the hours that an administrator enters.
createProgressLog(c, o, hours) ==
  /\ Exists(o)
  /\ Begin(c, "createProgressLog", {o}, FALSE, Logging(o, c, hours, TRUE))

Log(c) ==
  LET s == Head(call[c].todo) IN
  /\ Doing(c, "log")
  /\ IF ~Exists(s.order) THEN Abort(c) /\ UNCHANGED <<logs, last>>
     ELSE /\ last' = [last EXCEPT !.log = @ + 1]
          /\ logs' = Put(logs, last'.log, [order |-> s.order, user |-> s.user,
                                           hours |-> s.hours])
          /\ Proceed(c, << >>)
  /\ UNCHANGED <<orders, materials, sessions, stock, ledger, written, world>>

\* The increment is made by the database.
Count(c) ==
  LET s == Head(call[c].todo) IN
  /\ Doing(c, "count")
  /\ IF ~Exists(s.order) THEN Abort(c) /\ UNCHANGED orders
     ELSE /\ orders' = [orders EXCEPT ![s.order].hours = @ + s.hours]
          /\ Proceed(c, << >>)
  /\ UNCHANGED <<materials, sessions, logs, last, stock, ledger, written, world>>

\* deleteProgressLog takes the hours off those it read, and then the log away.
deleteProgressLog(c, l) ==
  LET o == logs[l].order
      rest == Max({0, orders[o].hours - logs[l].hours})
  IN  Begin(c, "deleteProgressLog", {o}, TRUE,
            (IF logs[l].hours > 0
             THEN <<[do |-> "setHours", order |-> o, hours |-> rest]>>
             ELSE << >>) \o <<[do |-> "dropLog", id |-> l]>>)

SetHours(c) ==
  LET s == Head(call[c].todo) IN
  /\ Doing(c, "setHours")
  /\ IF ~Exists(s.order) THEN Abort(c) /\ UNCHANGED orders
     ELSE /\ orders' = [orders EXCEPT ![s.order].hours = s.hours]
          /\ Proceed(c, << >>)
  /\ UNCHANGED <<materials, sessions, logs, last, stock, ledger, written, world>>

DropLog(c) ==
  LET id == Head(call[c].todo).id IN
  /\ Doing(c, "dropLog")
  /\ logs' = [l \in DOMAIN logs \ {id} |-> logs[l]]
  /\ Proceed(c, << >>)
  /\ UNCHANGED <<orders, materials, sessions, last, stock, ledger, written, world>>
-----------------------------------------------------------------------------
(* update and remove.                                                      *)

Closing == {"ON_HOLD", "COMPLETED", "CLOSED", "CANCELLED"}

\* What update writes to the order in the end; None leaves a field alone.
\* Hours that were neither counted nor entered are what the clock says since
\* the start.
Updates(row, status, hours) ==
  LET start == IF status = "IN_PROGRESS" /\ row.started = None THEN now ELSE None
      end == IF status = "COMPLETED" /\ row.ended = None THEN now ELSE None
      until == IF row.ended = None THEN now ELSE row.ended
      byClock == /\ status = "COMPLETED" /\ row.hours = 0
                 /\ row.started # None /\ until > row.started
  IN  [status |-> status, started |-> start, ended |-> end,
       hours |-> IF hours # None THEN hours
                 ELSE IF byClock THEN until - row.started ELSE None,
       by |-> IF hours # None THEN {"hand"}
              ELSE IF byClock THEN {"clock"} ELSE {}]

When(condition, statement) == IF condition THEN <<statement>> ELSE << >>

\* Any status may follow any other; lines and hours are sent or not.
update(c, o, status, lines, hours) ==
  LET row == orders[o] IN
  /\ Exists(o)
  /\ status # None \/ lines # None \/ hours # None
  /\ hours # None => "enterHours" \in load.handlers
  /\ lines # None => "editMaterials" \in load.handlers
  /\ Begin(c, "update", {o}, TRUE,
       When(lines # None, [do |-> "dropLines", order |-> o])
       \o When(lines # None, [do |-> "addLines", order |-> o, lines |-> lines])
       \o When(status \in Closing, [do |-> "stopAll", order |-> o])
       \o When(status = "COMPLETED" /\ row.status # "COMPLETED",
               [do |-> "issueAll", order |-> o])
       \o <<[do |-> "write", order |-> o, row |-> Updates(row, status, hours)]>>)

DropLines(c) ==
  /\ Doing(c, "dropLines")
  /\ materials' = [materials EXCEPT ![Head(call[c].todo).order] = << >>]
  /\ Proceed(c, << >>)
  /\ UNCHANGED <<orders, sessions, logs, last, stock, ledger, written, world>>

AddLines(c) ==
  LET s == Head(call[c].todo) IN
  /\ Doing(c, "addLines")
  /\ IF ~Exists(s.order) THEN Abort(c) /\ UNCHANGED materials
     ELSE /\ materials' = [materials EXCEPT ![s.order] = @ \o s.lines]
          /\ Proceed(c, << >>)
  /\ UNCHANGED <<orders, sessions, logs, last, stock, ledger, written, world>>

FaultStopAll(c) ==
  LET o == Head(call[c].todo).order IN
  /\ Doing(c, "stopAll")
  /\ Proceed(c, IF RunningOn(o) = {} THEN << >> ELSE <<AutoStop(Min(RunningOn(o)))>>)
  /\ UNCHANGED <<tables, world>>

StopAll(c) ==
  LET o == Head(call[c].todo).order IN
  /\ Doing(c, "stopAll")
  /\ Proceed(c, [n \in 1..Cardinality(RunningOn(o)) |->
                   AutoStop(SetToSeq(RunningOn(o))[n])])
  /\ UNCHANGED <<tables, world>>

IssueAll(c) ==
  LET o == Head(call[c].todo).order IN
  /\ Doing(c, "issueAll")
  /\ Proceed(c, [n \in DOMAIN materials[o] |->
                   [do |-> "check", order |-> o, line |-> materials[o][n]]])
  /\ UNCHANGED <<tables, world>>

IssuedTo(o, i) ==
  {n \in DOMAIN ledger : ledger[n].order = o /\ ledger[n].item = i}

FaultRemaining(i, quantity) == stock[i] - quantity

\* A stock that does not suffice becomes empty.
Remaining(i, quantity) == Max({0, stock[i] - quantity})

FaultHad(o, i) == orders[o].status = "COMPLETED"

\* An item of which the order has had any is not issued again.
Had(o, i) == IssuedTo(o, i) # {}

Check(c) ==
  LET s == Head(call[c].todo)
      i == s.line.item
      issue == [order |-> s.order, item |-> i, quantity |-> s.line.quantity,
                before |-> stock[i],
                after |-> Remaining(i, s.line.quantity)]
  IN  /\ Doing(c, "check")
      /\ Proceed(c, IF Had(s.order, i) THEN << >>
                    ELSE <<[do |-> "lower", issue |-> issue],
                           [do |-> "enter", issue |-> issue]>>)
      /\ UNCHANGED <<tables, world>>

Lower(c) ==
  LET issue == Head(call[c].todo).issue IN
  /\ Doing(c, "lower")
  /\ stock' = [stock EXCEPT ![issue.item] = issue.after]
  /\ Proceed(c, << >>)
  /\ UNCHANGED <<orders, materials, sessions, logs, last, ledger, written, world>>

Enter(c) ==
  LET issue == Head(call[c].todo).issue IN
  /\ Doing(c, "enter")
  /\ IF ~Exists(issue.order) THEN Abort(c) /\ UNCHANGED ledger
     ELSE Proceed(c, << >>) /\ ledger' = Append(ledger, issue)
  /\ UNCHANGED <<orders, materials, sessions, logs, last, stock, written, world>>

Or(value, old) == IF value = None THEN old ELSE value

Write(c) ==
  LET s == Head(call[c].todo)
      new == s.row
      old == orders[s.order]
  IN  /\ Doing(c, "write")
      /\ IF ~Exists(s.order) THEN Abort(c) /\ UNCHANGED <<orders, written>>
         ELSE /\ orders' = [orders EXCEPT ![s.order] =
                   [code |-> old.code,
                    status |-> Or(new.status, old.status),
                    hours |-> Or(new.hours, old.hours),
                    started |-> Or(new.started, old.started),
                    ended |-> Or(new.ended, old.ended)]]
              /\ written' = [written EXCEPT ![s.order] = @ \cup new.by]
              /\ Proceed(c, << >>)
      /\ UNCHANGED <<materials, sessions, logs, last, stock, ledger, world>>

remove(c, o) ==
  /\ Exists(o)
  /\ Begin(c, "remove", {o}, TRUE, <<[do |-> "dropLines", order |-> o],
                                     [do |-> "delete", order |-> o]>>)

\* Sessions, logs and materials go with the order; the ledger stays.
Delete(c) ==
  LET o == Head(call[c].todo).order IN
  /\ Doing(c, "delete")
  /\ orders' = [orders EXCEPT ![o] = [Absent EXCEPT !.status = "GONE"]]
  /\ materials' = [materials EXCEPT ![o] = << >>]
  /\ sessions' = Without(sessions, o)
  /\ logs' = Without(logs, o)
  /\ ledger' = [n \in DOMAIN ledger |->
                  IF ledger[n].order = o THEN [ledger[n] EXCEPT !.order = None]
                  ELSE ledger[n]]
  /\ Proceed(c, << >>)
  /\ UNCHANGED <<last, stock, written, world>>
-----------------------------------------------------------------------------
Tick ==
  /\ now < load.last
  /\ now' = now + 1
  /\ UNCHANGED <<load, tables, call, clashed, missed, calls, restarts>>

Restart ==
  /\ restarts < MaxRestarts
  /\ restarts' = restarts + 1
  /\ call' = [c \in Clients |-> Idle]
  /\ UNCHANGED <<load, tables, now, clashed, missed, calls>>

\* c is in an update, stopping a session.
StopsForUpdate(c) ==
  /\ Head(call[c].todo).do \in {"find", "end", "log", "count"}
  /\ \E n \in DOMAIN call[c].todo : call[c].todo[n].do = "write"

\* The rest of the stop is left out: what follows is the statement after the
\* log and the count that belong to it.
SkipStop(c) ==
  \E n \in 2..Len(call[c].todo) :
    /\ call[c].todo[n].do \notin {"log", "count"}
    /\ \A m \in 2..(n - 1) : call[c].todo[m].do \in {"log", "count"}
    /\ call' = [call EXCEPT ![c].todo = SubSeq(@, n, Len(@))]

\* The database refuses a statement.  That ends the call, but for an update
\* that is stopping a session: it only writes the error to its console, and
\* goes on to the next session, the materials and the status.
Fail(c) ==
  /\ restarts < MaxRestarts
  /\ restarts' = restarts + 1
  /\ call[c].todo # << >>
  /\ \/ /\ StopsForUpdate(c) /\ SkipStop(c)
        /\ missed' = IF Head(call[c].todo).do \in {"find", "end"}
                     THEN missed \cup {Head(call[c].todo).id} ELSE missed
     \/ ~StopsForUpdate(c) /\ Abort(c) /\ UNCHANGED missed
  /\ UNCHANGED <<load, tables, now, clashed, calls>>

Step(c) ==
  \/ Insert(c) \/ Find(c) \/ EndSession(c) \/ Resume(c) \/ OpenSession(c)
  \/ Log(c) \/ Count(c) \/ SetHours(c) \/ DropLog(c) \/ DropLines(c)
  \/ AddLines(c) \/ StopAll(c) \/ IssueAll(c) \/ Check(c) \/ Lower(c)
  \/ Enter(c) \/ Write(c) \/ Delete(c)

Next ==
  \/ \E c \in Clients :
       \/ \E o \in Orders :
            \/ startWorkSession(c, o) \/ remove(c, o)
            \/ \E lines \in load.lists : create(c, o, lines)
            \/ \E hours \in 0..1 : createProgressLog(c, o, hours)
            \/ \E status \in load.targets \cup {None}, lines \in load.lists \cup {None},
                  hours \in {None, 0, 1} : update(c, o, status, lines, hours)
       \/ \E i \in DOMAIN sessions : stopWorkSession(c, i)
       \/ \E l \in DOMAIN logs : deleteProgressLog(c, l)
       \/ Step(c) \/ Fail(c)
  \/ Tick
  \/ Restart

Spec == Init /\ [][Next]_vars
-----------------------------------------------------------------------------
(* Properties.                                                             *)

OrderRow == [status : Statuses \cup {"NEW", "GONE"}, code : Nat, hours : Nat,
             started : Times \cup {None}, ended : Times \cup {None}]

Session == [order : Orders, user : Clients, start : Times,
            status : {"ACTIVE", "COMPLETED", "AUTO_CLOSED"}]

LogRow == [order : Orders, user : Clients, hours : Nat]

Issue == [order : Orders \cup {None}, item : Items, quantity : Nat,
          before : Nat, after : Nat]

\* Every table keeps its type.
TypeOK ==
  /\ orders \in [Orders -> OrderRow]
  /\ materials \in [Orders -> Seq([item : Items, quantity : Nat])]
  /\ DOMAIN sessions \subseteq 1..last.session /\ sessions \in [DOMAIN sessions -> Session]
  /\ DOMAIN logs \subseteq 1..last.log /\ logs \in [DOMAIN logs -> LogRow]
  /\ stock \in [Items -> Nat] /\ ledger \in Seq(Issue)
  /\ now \in Times /\ missed \subseteq Nat

\* The hours that the logs of an order add up to.
Hours == [l \in DOMAIN logs |-> logs[l].hours]
Logged(o) ==
  MapThenSumSet(LAMBDA l : Hours[l], {l \in DOMAIN logs : logs[l].order = o})

AtRest(o) == \A c \in Clients : call[c].todo = << >> \/ o \notin call[c].orders

\* The hours of an order never exceed what its logs add up to, and equal it
\* whenever nobody is at work on it and nothing has failed: although
\* a session is ended, logged and counted in three statements, by technicians
\* side by side, and taken back in two.  Orders are excepted whose hours an
\* update wrote over, or on which such a call overlapped another.
HoursMatchLogs ==
  \A o \in Orders : o \notin clashed /\ written[o] = {} =>
    /\ orders[o].hours <= Logged(o)
    /\ AtRest(o) /\ restarts = 0 => orders[o].hours = Logged(o)

\* A technician is clocked in on one order at a time, wherever calls stop
\* short and whoever else stops his sessions.
OneRunningSession == \A c \in Clients : \A i, j \in Running(c) : i = j

\* Nobody stays clocked in on an order that was put on hold, completed, closed
\* or cancelled, even when the server stopped half-way, but in a session that
\* the update failed to stop; orders are excepted on which the update
\* overlapped a call of another.
ClosedOrdersAreQuiet ==
  \A o \in Orders \ clashed :
    orders[o].status \in Closing => RunningOn(o) \subseteq missed

\* An order is issued an item once, however often it is reopened and completed
\* again, its lines are replaced or the server stops, unless two calls of
\* update for it overlap.
IssuedOnce ==
  \A o \in Orders \ clashed, i \in Items :
    \A m, n \in IssuedTo(o, i) : m = n
=============================================================================
