------------------------------ MODULE Calendar ------------------------------
(***************************************************************************)
(* What preventive maintenance promises of a schedule: its due dates come  *)
(* one after the other, a fixed number of days apart, and an order is      *)
(* issued for each of them, or it is passed over, but none is issued twice *)
(* and none out of turn.  An abstract specification, implemented by        *)
(* Schedules.                                                              *)
(***************************************************************************)
EXTENDS Integers, Sequences

CONSTANTS
  Items,   \* the things that come due
  Step,    \* Step[i]: days from one due date of i to the next
  None     \* the due date of an item that has no calendar

VARIABLES
  next,    \* next[i]: the due date of i that comes next
  issued   \* issued[i]: the dates for which orders were issued, in order

calendar == <<next, issued>>

Start ==
  /\ next \in [Items -> Int \cup {None}]
  /\ issued = [i \in Items |-> << >>]

\* An order is issued for the next date, and the date after it is next.
Issue(i) ==
  /\ next[i] # None
  /\ issued' = [issued EXCEPT ![i] = Append(@, next[i])]
  /\ next' = [next EXCEPT ![i] = @ + Step[i]]

\* Work that does not go by the calendar.
IssueUndated(i) ==
  /\ next[i] = None
  /\ issued' = [issued EXCEPT ![i] = Append(@, None)]
  /\ UNCHANGED next

\* Dates that went by while the schedule was stopped are passed over.
PassOver(i) ==
  /\ next[i] # None
  /\ next'[i] \in Int
  /\ \E jumps \in 0..(next'[i] - next[i]) : next'[i] = next[i] + jumps * Step[i]
  /\ next' = [next EXCEPT ![i] = next'[i]]
  /\ UNCHANGED issued

\* Until an order was issued the first date is open.
Plan(i) ==
  /\ issued[i] = << >>
  /\ next'[i] \in Int \cup {None}
  /\ next' = [next EXCEPT ![i] = next'[i]]
  /\ UNCHANGED issued

CalendarNext ==
  \E i \in Items : Issue(i) \/ IssueUndated(i) \/ PassOver(i) \/ Plan(i)

Spec == Start /\ [][CalendarNext]_calendar
-----------------------------------------------------------------------------
(* What follows.                                                           *)

\* No date is issued twice, and none after a later one.
EachOnceInTurn ==
  \A i \in Items : \A m, n \in DOMAIN issued[i] :
    m < n /\ issued[i][m] # None /\ issued[i][n] # None
      => issued[i][m] < issued[i][n]
=============================================================================
