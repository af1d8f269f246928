----------------------------- MODULE Lifecycle ------------------------------
(***************************************************************************)
(* The statuses of maintenance requests, work orders and equipment, the    *)
(* transition table of WorkOrderStateMachine, and the rule by which        *)
(* EquipmentStatusService derives the status of a piece of equipment from  *)
(* the requests and orders that concern it.  Pure definitions.             *)
(***************************************************************************)

\* A row that has not been inserted yet has the status "NONE".
RequestStatuses ==
  {"PENDING", "APPROVED", "REJECTED", "RETURNED", "CANCELLED", "CLOSED"}

OrderStatuses ==
  {"PENDING", "ASSIGNED", "IN_PROGRESS", "ON_HOLD", "COMPLETED",
   "INSPECTION", "VERIFIED", "CLOSED", "CANCELLED"}

EquipmentStatuses ==
  {"OPERATIONAL", "UNDER_MAINTENANCE", "INCIDENT", "DISCOMMISSIONED"}

\* The table of WorkOrderStateMachine.
CanTransition(from, to) ==
  \/ from = "PENDING" /\ to \in {"ASSIGNED", "CANCELLED", "PENDING"}
  \/ from = "ASSIGNED"
     /\ to \in {"IN_PROGRESS", "CANCELLED", "PENDING", "ASSIGNED"}
  \/ from = "IN_PROGRESS"
     /\ to \in {"ON_HOLD", "COMPLETED", "PENDING", "CANCELLED", "IN_PROGRESS"}
  \/ from = "ON_HOLD"
     /\ to \in {"IN_PROGRESS", "PENDING", "CANCELLED", "ON_HOLD"}
  \/ from = "COMPLETED"
     /\ to \in {"INSPECTION", "VERIFIED", "IN_PROGRESS", "CANCELLED"}
  \/ from = "INSPECTION" /\ to \in {"VERIFIED", "IN_PROGRESS", "CANCELLED"}
  \/ from = "VERIFIED" /\ to = "CLOSED"

\* Work that is still being planned or carried out.
Working == {"PENDING", "ASSIGNED", "IN_PROGRESS", "ON_HOLD"}

\* Work that has not been accepted yet: also what cancelRequest cancels.
Unfinished == Working \cup {"COMPLETED", "INSPECTION"}

\* Work that was accepted.
Accepted == {"VERIFIED", "CLOSED"}

\* What startWorkSession turns into IN_PROGRESS when a technician clocks in.
Startable == {"PENDING", "ASSIGNED", "ON_HOLD"}

\* The row it writes, whatever the order has become since it was read.  An
\* order that was over by then is marked, for the properties only: nothing in
\* the program reads the mark.
ClockedIn(row) ==
  [row EXCEPT !.status = "IN_PROGRESS",
              !.revived = @ \/ row.status \notin Startable \cup {"IN_PROGRESS"}]

\* A request nobody has decided on yet reports a defect.
Undecided == {"PENDING", "RETURNED"}

\* What calculateAndSetStatus finds for equipment e in the requests and the
\* orders it reads, when e is not out of service.
DerivedStatus(e, requests, orders) ==
  IF \/ \E r \in DOMAIN requests : requests[r].equipment = e
                                   /\ requests[r].status \in Undecided
     \/ \E w \in DOMAIN orders : /\ orders[w].equipment = e
                                 /\ orders[w].status \in Working
                                 /\ orders[w].urgent
  THEN "INCIDENT"
  ELSE IF \/ \E w \in DOMAIN orders : orders[w].equipment = e
                                      /\ orders[w].status \in Unfinished
          \/ \E r \in DOMAIN requests : requests[r].equipment = e
                                        /\ requests[r].status = "APPROVED"
  THEN "UNDER_MAINTENANCE"
  ELSE "OPERATIONAL"

\* The equipment table after calculateAndSetStatus(e) ran in a transaction:
\* 'seen' is the table the transaction reads, 'table' the one it writes.
\* Equipment it sees out of service is left alone, and so is equipment whose
\* status it believes to be right already (applyStatus).
Recalculated(table, e, seen, requests, orders) ==
  LET target == DerivedStatus(e, requests, orders)
  IN  IF seen[e] \in {"DISCOMMISSIONED", target}
      THEN table
      ELSE [table EXCEPT ![e] = target]
=============================================================================
