---------------------------- MODULE WorkSessions ----------------------------
(***************************************************************************)
(* Technicians clock in and out of work orders: startWorkSession and       *)
(* stopWorkSession of WorkOrdersService.  Neither uses a transaction: each *)
(* statement is a step of its own, and a server that stops leaves a call   *)
(* half done.  The rest of the service moves the orders along the table of *)
(* Lifecycle (Maintenance has the details).                                *)
(***************************************************************************)
EXTENDS Lifecycle, Integers, FiniteSets, FiniteSetsExt

CONSTANTS
  Orders,       \* work orders
  Users,        \* technicians
  Ids,          \* identifiers of sessions
  Handlers,     \* the calls that clients make in this instance
  LastTime,     \* the last instant
  MaxCalls,     \* how many calls clients make
  MaxRestarts,  \* how often the server stops
  None          \* no session

VARIABLES
  wo,           \* the orders: status and actualHours
  sessions,     \* the sessions stored, a function on their identifiers
  now,          \* the clock
  open,         \* the calls under way
  calls, restarts

vars == <<wo, sessions, now, open, calls, restarts>>

Times == 0..LastTime

Init ==
  /\ wo = [o \in Orders |-> [status |-> "ASSIGNED", hours |-> 0]]
  /\ sessions = << >>
  /\ now = 0
  /\ open = {}
  /\ calls = 0 /\ restarts = 0

Put(rows, id, row) ==
  [i \in DOMAIN rows \cup {id} |-> IF i = id THEN row ELSE rows[i]]

\* Identifiers are arbitrary.
NextId == CHOOSE i \in Ids : i \notin DOMAIN sessions

\* The sessions of a technician that are running.
Running(u) ==
  {i \in DOMAIN sessions : sessions[i].user = u
                           /\ sessions[i].status = "IN_PROGRESS"}

RunningOn(u, o) == {i \in Running(u) : sessions[i].order = o}

\* The hours of the finished sessions of an order.
Hours == [i \in DOMAIN sessions |-> sessions[i].hours]
Total(o) ==
  MapThenSumSet(LAMBDA i : Hours[i],
                {i \in DOMAIN sessions : /\ sessions[i].order = o
                                         /\ sessions[i].status # "IN_PROGRESS"})

\* A technician makes one call at a time, unless he clicks twice.
Call(handler, u) ==
  /\ handler \in Handlers
  /\ "doubleClick" \in Handlers \/ \A t \in open : t.user # u
  /\ calls < MaxCalls
  /\ calls' = calls + 1

Continue(t, next) == open' = (open \ {t}) \cup {next}
End(t) == open' = open \ {t}
-----------------------------------------------------------------------------
\* startWorkSession reads the order, and looks for a session of the technician
\* that runs elsewhere.
startWorkSession(u, o) ==
  LET elsewhere == Running(u) \ RunningOn(u, o)
      call == [do |-> "look", by |-> "start", user |-> u, order |-> o,
               status |-> wo[o].status, session |-> None, total |-> 0]
  IN  /\ Call("startWorkSession", u)
      /\ IF elsewhere = {} THEN open' = open \cup {call}
         ELSE \E i \in elsewhere :
                open' = open \cup {[call EXCEPT !.do = "finish", !.session = i]}
      /\ UNCHANGED <<wo, sessions, now, restarts>>

\* stopWorkSession finds the session that runs.
stopWorkSession(u, o) ==
  /\ Call("stopWorkSession", u)
  /\ \E i \in RunningOn(u, o) :
       open' = open \cup
         {[do |-> "finish", by |-> "stop", user |-> u, order |-> o,
           status |-> wo[o].status, session |-> i, total |-> 0]}
  /\ UNCHANGED <<wo, sessions, now, restarts>>

\* The session ends now, whatever became of it since it was found.
Finish(t) ==
  /\ t.do = "finish"
  /\ sessions' = [sessions EXCEPT
       ![t.session].status = IF t.by = "start" THEN "AUTO_CLOSED"
                             ELSE "COMPLETED",
       ![t.session].hours = now - sessions[t.session].start]
  /\ Continue(t, [t EXCEPT !.do = "sum"])
  /\ UNCHANGED <<wo, now, calls, restarts>>

\* The hours of the order whose session ended are counted anew ...
Sum(t) ==
  /\ t.do = "sum"
  /\ Continue(t, [t EXCEPT !.do = "record",
                           !.total = Total(sessions[t.session].order)])
  /\ UNCHANGED <<wo, sessions, now, calls, restarts>>

FaultRecord(t) ==
  /\ t.do = "record"
  /\ wo' = [wo EXCEPT ![t.order].hours = t.total]
  /\ IF t.by = "start" THEN Continue(t, [t EXCEPT !.do = "look"]) ELSE End(t)
  /\ UNCHANGED <<sessions, now, calls, restarts>>

\* ... and written to it.
Record(t) ==
  /\ t.do = "record"
  /\ wo' = [wo EXCEPT ![sessions[t.session].order].hours = t.total]
  /\ IF t.by = "start" THEN Continue(t, [t EXCEPT !.do = "look"]) ELSE End(t)
  /\ UNCHANGED <<sessions, now, calls, restarts>>

FaultLook(t) ==
  /\ t.do = "look"
  /\ Continue(t, [t EXCEPT !.do = "create"])
  /\ UNCHANGED <<wo, sessions, now, calls, restarts>>

\* A session that runs on the order already is given back.
Look(t) ==
  /\ t.do = "look"
  /\ IF RunningOn(t.user, t.order) # {} THEN End(t)
     ELSE Continue(t, [t EXCEPT !.do = "create"])
  /\ UNCHANGED <<wo, sessions, now, calls, restarts>>

\* The order is resumed if it was waiting when it was read.
Create(t) ==
  /\ t.do = "create"
  /\ DOMAIN sessions # Ids
  /\ sessions' = Put(sessions, NextId,
                     [user |-> t.user, order |-> t.order, start |-> now,
                      status |-> "IN_PROGRESS", hours |-> 0])
  /\ IF t.status \in {"PENDING", "ASSIGNED", "ON_HOLD"}
     THEN Continue(t, [t EXCEPT !.do = "resume"]) ELSE End(t)
  /\ UNCHANGED <<wo, now, calls, restarts>>

Resume(t) ==
  /\ t.do = "resume"
  /\ wo' = [wo EXCEPT ![t.order].status = "IN_PROGRESS"]
  /\ End(t)
  /\ UNCHANGED <<sessions, now, calls, restarts>>

\* The other handlers of the order.
Transition(o) ==
  /\ "transition" \in Handlers
  /\ calls < MaxCalls
  /\ calls' = calls + 1
  /\ \E to \in OrderStatuses :
       /\ CanTransition(wo[o].status, to)
       /\ wo' = [wo EXCEPT ![o].status = to]
  /\ UNCHANGED <<sessions, now, open, restarts>>

Tick ==
  /\ now < LastTime
  /\ now' = now + 1
  /\ UNCHANGED <<wo, sessions, open, calls, restarts>>

Restart ==
  /\ restarts < MaxRestarts
  /\ restarts' = restarts + 1
  /\ open' = {}
  /\ UNCHANGED <<wo, sessions, now, calls>>

Step(t) ==
  Finish(t) \/ Sum(t) \/ Record(t) \/ Look(t) \/ Create(t) \/ Resume(t)

Next ==
  \/ \E u \in Users, o \in Orders :
       startWorkSession(u, o) \/ stopWorkSession(u, o)
  \/ \E t \in open : Step(t)
  \/ \E o \in Orders : Transition(o)
  \/ Tick \/ Restart

Spec == Init /\ [][Next]_vars
-----------------------------------------------------------------------------
(* Properties.                                                             *)

Session == [user : Users, order : Orders, start : Times, hours : Times,
            status : {"IN_PROGRESS", "COMPLETED", "AUTO_CLOSED"}]

\* Orders and sessions keep their types.
TypeOK ==
  /\ wo \in [Orders -> [status : OrderStatuses, hours : Nat]]
  /\ DOMAIN sessions \subseteq Ids
  /\ sessions \in [DOMAIN sessions -> Session]
  /\ now \in Times

\* However the calls of several technicians overlap, and wherever the server
\* stops, nobody is clocked in twice, on one order or on two.
OneRunningSession == \A u \in Users : \A i, j \in Running(u) : i = j

\* The hours of an order never exceed what its finished sessions add up to,
\* although they are summed in one step and written in another while other
\* sessions end.
HoursAreWorked == \A o \in Orders : wo[o].hours <= Total(o)
=============================================================================
