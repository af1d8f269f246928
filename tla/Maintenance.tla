---------------------------- MODULE Maintenance -----------------------------
(***************************************************************************)
(* Maintenance requests, the work orders opened for them and the status of *)
(* the equipment, as RequestsService, WorkOrdersService and                *)
(* EquipmentStatusService keep them in one MySQL database.                 *)
(*                                                                         *)
(* Every handler runs in an interactive transaction under REPEATABLE READ: *)
(*   - its plain reads see the snapshot taken at its first read, and what  *)
(*     it has written itself;                                              *)
(*   - a WHERE of an UPDATE is evaluated on the committed row, which is    *)
(*     then locked until the transaction ends.                             *)
(* A transaction is therefore two steps here: one that takes the snapshot  *)
(* and makes the handler's checks on it, and one that evaluates the        *)
(* conditional writes on the current rows, and commits.  Between the two   *)
(* any other handler may commit.  A check that fails and a conditional     *)
(* write that matches no row both roll the transaction back.               *)
(*                                                                         *)
(* One handler writes the status of an order and runs in no transaction:   *)
(* startWorkSession, by id, from a status it has read several statements   *)
(* before.                                                                 *)
(*                                                                         *)
(* The stock that "complete" issues is modelled in Inventory.  The rows of *)
(* the sessions themselves, hours, logs and histories are left out.        *)
(***************************************************************************)
EXTENDS Lifecycle, Naturals

CONSTANTS
  Requests,    \* identifiers of maintenance requests
  WorkOrders,  \* identifiers of work orders
  Equipment,   \* the pieces of equipment
  Clients,     \* concurrent HTTP requests: at most one transaction each
  None,        \* the null reference
  Urgencies,   \* the priorities given in this instance: TRUE is HIGH or URGENT
  Handlers,    \* the handlers users call in this instance
  Edits        \* the statuses administrators give equipment by hand in it

ASSUME NoneIsNoReference ==
  None \notin Requests \cup WorkOrders \cup Equipment

ASSUME UrgencyIsAFlag == Urgencies \subseteq BOOLEAN

ASSUME EditsAreStatuses == Edits \subseteq EquipmentStatuses

VARIABLES
  req,   \* MaintenanceRequest: status, version, equipment, urgent
  wo,    \* WorkOrder: status, version, equipment, urgent, request,
         \* classified, and whether it was revived (a history: see ClockedIn)
  eq,    \* Equipment: status
  open   \* the transactions in flight

vars == <<req, wo, eq, open>>

RequestRows ==
  [status : RequestStatuses \cup {"NONE"}, version : Nat,
   equipment : Equipment \cup {None}, urgent : BOOLEAN]

OrderRows ==
  [status : OrderStatuses \cup {"NONE"}, version : Nat,
   equipment : Equipment \cup {None}, urgent : BOOLEAN,
   request : Requests \cup {None}, classified : BOOLEAN, revived : BOOLEAN]

\* A transaction in flight: what it was asked to do, and the snapshot (the
\* fields req, wo and eq) it reads.
Transactions ==
  [client : Clients,
   op : {"CREATE_REQUEST", "APPROVE", "REJECT", "RETURN", "RESUBMIT",
         "CANCEL_REQUEST", "FIND_ONE", "CREATE_ORDER", "UPDATE_STATUS",
         "ASSESS", "START_SESSION"},
   r : Requests \cup {None}, w : WorkOrders \cup {None}, e : Equipment,
   to : OrderStatuses \cup {"NONE"}, urgent : BOOLEAN, classified : BOOLEAN,
   req : [Requests -> RequestRows], wo : [WorkOrders -> OrderRows],
   eq : [Equipment -> EquipmentStatuses]]

NoRequestRow ==
  [status |-> "NONE", version |-> 0, equipment |-> None, urgent |-> FALSE]

NoOrderRow ==
  [status |-> "NONE", version |-> 0, equipment |-> None, urgent |-> FALSE,
   request |-> None, classified |-> FALSE, revived |-> FALSE]

Exists(row) == row.status # "NONE"

\* An identifier that no row has had yet.
Unused(row) == ~Exists(row) /\ row.version = 0

\* The orders linked to request r in a table of orders.
OrdersOf(r, orders) == {w \in WorkOrders : orders[w].request = r}

Init ==
  /\ req = [r \in Requests |-> NoRequestRow]
  /\ wo = [w \in WorkOrders |-> NoOrderRow]
  /\ eq = [e \in Equipment |-> "OPERATIONAL"]
  /\ open = {}

-----------------------------------------------------------------------------
(***************************************************************************)
(* First step of a handler: the snapshot, and the checks made on it.       *)
(***************************************************************************)

\* Client c starts the transaction described by 'call'.
Begin(c, call) ==
  /\ \A t \in open : t.client # c
  /\ open' = open \cup {call}
  /\ UNCHANGED <<req, wo, eq>>

\* The transaction of a call: its arguments, and the tables it reads.
Call(c, operation, r0, w0, e0, target, u, k) ==
  [client |-> c, op |-> operation, r |-> r0, w |-> w0, e |-> e0,
   to |-> target, urgent |-> u, classified |-> k,
   req |-> req, wo |-> wo, eq |-> eq]

CreateRequest(c) ==
  /\ "createRequest" \in Handlers
  /\ \E e \in Equipment, u \in Urgencies :
       Begin(c, Call(c, "CREATE_REQUEST", None, None, e, "NONE", u, FALSE))

\* No other transaction holds the lock of the row of request r.  approve takes
\* it before its snapshot, every other handler only as it commits.
Unlocked(r, me) ==
  \A t \in open : t.op = "APPROVE" /\ t.r = r => t.client = me

\* A call about request r that takes no further arguments.
RequestCall(c, operation, r) ==
  Call(c, operation, r, None, req[r].equipment, "NONE", FALSE, FALSE)

\* approve: the conditional UPDATE to APPROVED comes first, before the
\* snapshot is taken; the row stays locked until the commit, which is where
\* the new status appears here.
Approve(c, r) ==
  /\ "approve" \in Handlers
  /\ req[r].status = "PENDING"
  /\ Unlocked(r, c)
  /\ \E s \in {"PENDING", "ASSIGNED"} :
       Begin(c, Call(c, "APPROVE", r, None, req[r].equipment, s,
                     req[r].urgent, TRUE))

Reject(c, r) ==
  /\ "reject" \in Handlers
  /\ req[r].status = "PENDING"
  /\ Begin(c, RequestCall(c, "REJECT", r))

ReturnRequest(c, r) ==
  /\ "returnRequest" \in Handlers
  /\ req[r].status = "PENDING"
  /\ OrdersOf(r, wo) = {}
  /\ Begin(c, RequestCall(c, "RETURN", r))

\* The reporter may change the priority while resubmitting.
ResubmitRequest(c, r) ==
  /\ "resubmitRequest" \in Handlers
  /\ req[r].status = "RETURNED"
  /\ OrdersOf(r, wo) = {}
  /\ \E u \in Urgencies :
       Begin(c, Call(c, "RESUBMIT", r, None, req[r].equipment, "NONE", u,
                     FALSE))

CancelRequest(c, r) ==
  /\ "cancelRequest" \in Handlers
  /\ req[r].status \notin {"NONE", "CANCELLED"}
  /\ \A w \in OrdersOf(r, wo) : wo[w].status \notin Accepted
  /\ Begin(c, RequestCall(c, "CANCEL_REQUEST", r))

\* findOne is no transaction: it reads the request with its orders, and then
\* closes the request when it saw an accepted order.
FindOne(c, r) ==
  /\ "findOne" \in Handlers
  /\ req[r].status \notin {"NONE", "CLOSED"}
  /\ \E w \in OrdersOf(r, wo) :
       /\ wo[w].status \in Accepted
       /\ Begin(c, Call(c, "FIND_ONE", r, w, req[r].equipment, "NONE", FALSE,
                        FALSE))

\* create (work orders): for any existing request, or for none.  Nothing makes
\* the equipment of the order that of the request; an instance in which nobody
\* opens an order by hand for a request has no "linkOrder".
CreateOrder(c) ==
  /\ "createOrder" \in Handlers
  /\ \E e \in Equipment, u \in Urgencies, k \in BOOLEAN,
        s \in {"PENDING", "ASSIGNED"},
        r \in {q \in Requests : Exists(req[q]) /\ "linkOrder" \in Handlers}
              \cup {None} :
       Begin(c, Call(c, "CREATE_ORDER", r, None, e, s, u, k))

\* updateStatusTransaction up to its writes: assertTransition on the status
\* read.  The caller's expectedVersion equals the version read, or the call
\* ends here.
BeginUpdate(c, handler, operation, w, target, classifies) ==
  /\ handler \in Handlers
  /\ CanTransition(wo[w].status, target)
  /\ Begin(c, Call(c, operation, wo[w].request, w, wo[w].equipment, target,
                   FALSE, classifies))

\* assign (and assignExecutor): without a person the order goes back to
\* PENDING, work under way keeps its status.  Naming a department classifies.
Assign(c, w) ==
  LET assigned == IF wo[w].status \in {"IN_PROGRESS", "ON_HOLD"}
                  THEN wo[w].status ELSE "ASSIGNED"
  IN \E target \in {"PENDING", assigned}, k \in BOOLEAN :
       BeginUpdate(c, "assign", "UPDATE_STATUS", w, target, k)

\* classify: only an unassigned order, and only once.
Classify(c, w) ==
  /\ wo[w].status = "PENDING"
  /\ ~wo[w].classified
  /\ \E target \in {"ASSIGNED", "PENDING"} :
       BeginUpdate(c, "classify", "UPDATE_STATUS", w, target, TRUE)

\* startWithAssessment also writes to the linked request.
StartWithAssessment(c, w) ==
  BeginUpdate(c, "startWithAssessment", "ASSESS", w, "IN_PROGRESS", FALSE)

Start(c, w) ==
  BeginUpdate(c, "start", "UPDATE_STATUS", w, "IN_PROGRESS", FALSE)

Pause(c, w) ==
  BeginUpdate(c, "pause", "UPDATE_STATUS", w, "ON_HOLD", FALSE)

Resume(c, w) ==
  BeginUpdate(c, "resume", "UPDATE_STATUS", w, "IN_PROGRESS", FALSE)

Complete(c, w) ==
  BeginUpdate(c, "complete", "UPDATE_STATUS", w, "COMPLETED", FALSE)

Escalate(c, w) ==
  BeginUpdate(c, "escalate", "UPDATE_STATUS", w, "PENDING", FALSE)

SubmitHandover(c, w) ==
  BeginUpdate(c, "submitHandover", "UPDATE_STATUS", w, "COMPLETED", FALSE)

AcceptHandover(c, w) ==
  BeginUpdate(c, "acceptHandover", "UPDATE_STATUS", w, "INSPECTION", FALSE)

\* rejectHandover, qaReject and reopen all send the order back to the workshop.
SendBack(c, w) ==
  \E h \in {"rejectHandover", "qaReject", "reopen"} :
    BeginUpdate(c, h, "UPDATE_STATUS", w, "IN_PROGRESS", FALSE)

\* qaVerify and verify.
Verify(c, w) ==
  \E h \in {"qaVerify", "verify"} :
    BeginUpdate(c, h, "UPDATE_STATUS", w, "VERIFIED", FALSE)

Close(c, w) ==
  BeginUpdate(c, "close", "UPDATE_STATUS", w, "CLOSED", FALSE)

Cancel(c, w) ==
  /\ wo[w].status \notin {"CANCELLED", "CLOSED", "VERIFIED"}
  /\ BeginUpdate(c, "cancel", "UPDATE_STATUS", w, "CANCELLED", FALSE)

\* startWorkSession is no transaction either: it reads the order, closes the
\* session the technician has elsewhere, creates the new one, and only then
\* writes the status.  In any other status it writes nothing of the order.
StartWorkSession(c, w) ==
  /\ "startWorkSession" \in Handlers
  /\ wo[w].status \in Startable
  /\ Begin(c, Call(c, "START_SESSION", None, w, wo[w].equipment,
                   "IN_PROGRESS", FALSE, FALSE))

-----------------------------------------------------------------------------
(***************************************************************************)
(* Second step: the writes, on the rows as they are now, and the commit.   *)
(***************************************************************************)

Finish(t) == open' = open \ {t}

\* The request and order codes are computed from the snapshot: an INSERT
\* fails on the unique index when another one committed in the meantime.
RequestCodeIsFree(t) ==
  \A r \in Requests : Exists(req[r]) => Exists(t.req[r])

OrderCodeIsFree(t) ==
  \A w \in WorkOrders : Exists(wo[w]) => Exists(t.wo[w])

\* The last call of each handler: calculateAndSetStatus on the rows the
\* transaction sees, its own writes included.
Recalculate(t, requests, orders) ==
  eq' = Recalculated(eq, t.e, t.eq, requests, orders)

\* Rows the transaction wrote are read as they are now, others as they were.
Seen(snapshot, table, written) ==
  [x \in DOMAIN snapshot |-> IF x \in written THEN table[x] ELSE snapshot[x]]

CommitCreateRequest(t) ==
  /\ t.op = "CREATE_REQUEST"
  /\ RequestCodeIsFree(t)
  /\ \E r \in Requests :
       /\ Unused(req[r])
       /\ req' = [req EXCEPT ![r] = [status |-> "PENDING", version |-> 1,
                                     equipment |-> t.e, urgent |-> t.urgent]]
       /\ Recalculate(t, Seen(t.req, req', {r}), t.wo)
  /\ Finish(t)
  /\ UNCHANGED wo

\* The INSERT of the order, and the recalculation that sees it.
NewOrder(t, requests) ==
  \E w \in WorkOrders :
    /\ Unused(wo[w])
    /\ wo' = [wo EXCEPT ![w] = [status |-> t.to, version |-> 1,
                                equipment |-> t.e, urgent |-> t.urgent,
                                request |-> t.r, classified |-> t.classified,
                                revived |-> FALSE]]
    /\ Recalculate(t, requests, Seen(t.wo, wo', {w}))

\* Fault: requestId is not unique.
InsertOrderTwice(t, requests) ==
  OrderCodeIsFree(t) /\ NewOrder(t, requests)

\* The unique index on WorkOrder.requestId refuses a second order of a request.
InsertOrder(t, requests) ==
  /\ OrderCodeIsFree(t)
  /\ t.r # None => OrdersOf(t.r, wo) = {}
  /\ NewOrder(t, requests)

CommitApprove(t) ==
  /\ t.op = "APPROVE"
  /\ req' = [req EXCEPT ![t.r].status = "APPROVED"]
  /\ InsertOrder(t, Seen(t.req, req', {t.r}))
  /\ Finish(t)

\* The INSERT of an order with a request waits for the lock of that request,
\* which must still be there.
CommitCreateOrder(t) ==
  /\ t.op = "CREATE_ORDER"
  /\ t.r # None => Unlocked(t.r, t.client) /\ Exists(req[t.r])
  /\ InsertOrder(t, t.req)
  /\ Finish(t)
  /\ UNCHANGED req

\* reject updates by id alone: neither the status nor the version is a
\* condition of the UPDATE.
CommitReject(t) ==
  /\ t.op = "REJECT"
  /\ Unlocked(t.r, t.client)
  /\ Exists(req[t.r])
  /\ req' = [req EXCEPT ![t.r].status = "REJECTED"]
  /\ Recalculate(t, Seen(t.req, req', {t.r}), t.wo)
  /\ Finish(t)
  /\ UNCHANGED wo

\* The version of request t.r is still the one the transaction read.
RequestUnmoved(t) == req[t.r].version = t.req[t.r].version

NextVersion(row) == [row EXCEPT !.version = @ + 1]

\* A row with a new status, and the version that comes with it.
Moved(row, s) == NextVersion([row EXCEPT !.status = s])

SetRequest(r, s) == [req EXCEPT ![r] = Moved(@, s)]

CommitReturn(t) ==
  /\ t.op = "RETURN"
  /\ Unlocked(t.r, t.client)
  /\ RequestUnmoved(t)
  /\ req' = SetRequest(t.r, "RETURNED")
  /\ Recalculate(t, Seen(t.req, req', {t.r}), t.wo)
  /\ Finish(t)
  /\ UNCHANGED wo

CommitResubmit(t) ==
  /\ t.op = "RESUBMIT"
  /\ Unlocked(t.r, t.client)
  /\ RequestUnmoved(t)
  /\ req' = [req EXCEPT ![t.r] =
               [Moved(@, "PENDING") EXCEPT !.urgent = t.urgent]]
  /\ Recalculate(t, Seen(t.req, req', {t.r}), t.wo)
  /\ Finish(t)
  /\ UNCHANGED wo

\* The orders that cancelRequest read as unfinished: it cancels them by id.
CascadeOf(t) ==
  {w \in OrdersOf(t.r, t.wo) : t.wo[w].status \in Unfinished}

\* Fault: the cascade leaves the versions of the orders alone.
CommitCancelRequestQuietly(t) ==
  /\ t.op = "CANCEL_REQUEST"
  /\ Unlocked(t.r, t.client)
  /\ RequestUnmoved(t)
  /\ req' = SetRequest(t.r, "CANCELLED")
  /\ wo' = [w \in WorkOrders |->
              IF w \in CascadeOf(t)
              THEN [wo[w] EXCEPT !.status = "CANCELLED"]
              ELSE wo[w]]
  /\ Recalculate(t, Seen(t.req, req', {t.r}), Seen(t.wo, wo', CascadeOf(t)))
  /\ Finish(t)

CommitCancelRequest(t) ==
  /\ t.op = "CANCEL_REQUEST"
  /\ Unlocked(t.r, t.client)
  /\ RequestUnmoved(t)
  /\ \A w \in CascadeOf(t) : Exists(wo[w])
  /\ req' = SetRequest(t.r, "CANCELLED")
  /\ wo' = [w \in WorkOrders |->
              IF w \in CascadeOf(t)
              THEN Moved(wo[w], "CANCELLED")
              ELSE wo[w]]
  /\ Recalculate(t, Seen(t.req, req', {t.r}), Seen(t.wo, wo', CascadeOf(t)))
  /\ Finish(t)

\* Fault: the request takes over the status of its order.
CommitFindOneCopying(t) ==
  /\ t.op = "FIND_ONE"
  /\ Unlocked(t.r, t.client)
  /\ req' = [req EXCEPT ![t.r].status = t.wo[t.w].status]
  /\ Finish(t)
  /\ UNCHANGED <<wo, eq>>

\* Neither a version nor a recalculation.
CommitFindOne(t) ==
  /\ t.op = "FIND_ONE"
  /\ Unlocked(t.r, t.client)
  /\ Exists(req[t.r])
  /\ req' = [req EXCEPT ![t.r].status = "CLOSED"]
  /\ Finish(t)
  /\ UNCHANGED <<wo, eq>>

\* Fault: the UPDATE has no version in its WHERE.
AnyVersion(t) == t.w # None

\* The version of order t.w is still the one the transaction read.
OrderUnmoved(t) == wo[t.w].version = t.wo[t.w].version

\* Fault: the end of the work closes the request, accepted or not.
ClosesRequestEarly(t) ==
  /\ t.r # None
  /\ t.to \in Accepted \cup {"COMPLETED"}
  /\ req[t.r].status # "CLOSED"

\* Fault: only the final close closes the request.
ClosesRequestLate(t) ==
  t.r # None /\ t.to = "CLOSED" /\ req[t.r].status # "CLOSED"

\* An accepted order closes its request, whatever its status; an order that
\* goes into work reopens a closed one.
ClosesRequest(t) ==
  /\ t.r # None
  /\ t.to \in Accepted
  /\ req[t.r].status \notin {"NONE", "CLOSED"}

ReopensRequest(t) ==
  t.r # None /\ t.to = "IN_PROGRESS" /\ req[t.r].status = "CLOSED"

\* A classification is never taken back.
Classified(row, k) == [row EXCEPT !.classified = @ \/ k]

\* Fault: the equipment is recalculated before the request is closed.
CommitUpdateEarly(t) ==
  /\ t.op \in {"UPDATE_STATUS", "ASSESS"}
  /\ t.r # None => Unlocked(t.r, t.client)
  /\ OrderUnmoved(t)
  /\ wo' = [wo EXCEPT ![t.w] = Classified(Moved(@, t.to), t.classified)]
  /\ Recalculate(t, t.req, Seen(t.wo, wo', {t.w}))
  /\ req' = IF ClosesRequest(t) THEN SetRequest(t.r, "CLOSED")
            ELSE IF ReopensRequest(t) THEN SetRequest(t.r, "APPROVED")
            ELSE req
  /\ Finish(t)

CommitUpdate(t) ==
  /\ t.op \in {"UPDATE_STATUS", "ASSESS"}
  /\ t.r # None => Unlocked(t.r, t.client)
  /\ t.op = "ASSESS" /\ t.r # None => Exists(req[t.r])
  /\ OrderUnmoved(t)
  /\ wo' = [wo EXCEPT ![t.w] = Classified(Moved(@, t.to), t.classified)]
  /\ req' = IF ClosesRequest(t) THEN SetRequest(t.r, "CLOSED")
            ELSE IF ReopensRequest(t) THEN SetRequest(t.r, "APPROVED")
            ELSE req
  /\ LET touched == IF ClosesRequest(t) \/ ReopensRequest(t) \/ t.op = "ASSESS"
                    THEN {t.r} ELSE {}
     IN  Recalculate(t, Seen(t.req, req', touched), Seen(t.wo, wo', {t.w}))
  /\ Finish(t)

\* The write of startWorkSession: by id, whatever the order has become since
\* it was read, with neither a version nor a transition, nor a recalculation.
CommitStartWorkSession(t) ==
  /\ t.op = "START_SESSION"
  /\ Exists(wo[t.w])
  /\ wo' = [wo EXCEPT ![t.w] = ClockedIn(@)]
  /\ Finish(t)
  /\ UNCHANGED <<req, eq>>

\* A failed check (permission, stock, existence), a conditional UPDATE that
\* matches no row, a violated unique index, a deadlock or a lost connection.
Rollback(t) ==
  /\ Finish(t)
  /\ UNCHANGED <<req, wo, eq>>

-----------------------------------------------------------------------------
\* update (equipment): an administrator sets the status by hand.  The version
\* of the equipment only guards such edits against each other.
EditEquipment(e, s) ==
  /\ eq' = [eq EXCEPT ![e] = s]
  /\ UNCHANGED <<req, wo, open>>

RequestHandler(c) ==
  \/ CreateRequest(c)
  \/ \E r \in Requests :
       \/ Approve(c, r)
       \/ Reject(c, r)
       \/ ReturnRequest(c, r)
       \/ ResubmitRequest(c, r)
       \/ CancelRequest(c, r)
       \/ FindOne(c, r)

OrderHandler(c) ==
  \/ CreateOrder(c)
  \/ \E w \in WorkOrders :
       \/ Assign(c, w)
       \/ Classify(c, w)
       \/ StartWithAssessment(c, w)
       \/ Start(c, w)
       \/ Pause(c, w)
       \/ Resume(c, w)
       \/ Complete(c, w)
       \/ Escalate(c, w)
       \/ SubmitHandover(c, w)
       \/ AcceptHandover(c, w)
       \/ SendBack(c, w)
       \/ Verify(c, w)
       \/ Close(c, w)
       \/ Cancel(c, w)
       \/ StartWorkSession(c, w)

Commit(t) ==
  \/ CommitCreateRequest(t)
  \/ CommitApprove(t)
  \/ CommitReject(t)
  \/ CommitReturn(t)
  \/ CommitResubmit(t)
  \/ CommitCancelRequest(t)
  \/ CommitFindOne(t)
  \/ CommitCreateOrder(t)
  \/ CommitUpdate(t)
  \/ CommitStartWorkSession(t)

Next ==
  \/ \E c \in Clients : RequestHandler(c) \/ OrderHandler(c)
  \/ \E t \in open : Commit(t) \/ Rollback(t)
  \/ \E e \in Equipment, s \in Edits : EditEquipment(e, s)

Spec == Init /\ [][Next]_vars

-----------------------------------------------------------------------------
(***************************************************************************)
(* Properties.                                                             *)
(***************************************************************************)

\* Every row has its type, and so has every transaction in flight.
TypeOK ==
  /\ req \in [Requests -> RequestRows]
  /\ wo \in [WorkOrders -> OrderRows]
  /\ eq \in [Equipment -> EquipmentStatuses]
  /\ open \subseteq Transactions

\* Row 'now' is row 'before', or what a clock-in has made of it: the one
\* writer of the status that leaves the version alone.
SameButClockedIn(before, now) ==
  \/ now = before
  \/ /\ before.status \in Startable \/ now.revived
     /\ now = [before EXCEPT !.status = "IN_PROGRESS", !.revived = now.revived]

\* What the version check in updateStatusTransaction is good for: as long as
\* the version of an order has not moved since a transaction read it, nothing
\* else of the order has, except that a technician may have clocked in.  The
\* check lets that one change through, and no other: the order was about to
\* be worked on then, unless the clock-in itself came too late (revived).
VersionIdentifiesOrder ==
  \A t \in open, w \in WorkOrders :
    /\ t.wo[w].version <= wo[w].version
    /\ t.wo[w].version = wo[w].version => SameButClockedIn(t.wo[w], wo[w])

\* What clock-ins add to the table of WorkOrderStateMachine: they skip the
\* assignment, and an assignment that read the order before the clock-in
\* passes its version check and takes the order back.
ClockInTransition(from, to) ==
  \/ from = "PENDING" /\ to = "IN_PROGRESS"
  \/ from = "IN_PROGRESS" /\ to = "ASSIGNED"

\* Whatever handlers overlap, an order moves along the table, but for those two
\* moves, as long as no clock-in wrote IN_PROGRESS to it after it was over: the
\* other handlers never resurrect a cancelled order nor, the unconditional
\* cascade of cancelRequest included, undo an acceptance.  A clock-in that
\* read the order before it was cancelled does resurrect it: that order is
\* revived, and nothing is said of it from then on.
LegalTransitions ==
  [][\A w \in WorkOrders :
       /\ Exists(wo[w]) /\ wo'[w].status # wo[w].status
       /\ ~wo'[w].revived
       =>
         \/ CanTransition(wo[w].status, wo'[w].status)
         \/ ClockInTransition(wo[w].status, wo'[w].status)]_wo

\* A request is closed only by the acceptance of its order, and the order is
\* not reopened or cancelled behind its back, unless it was revived.
ClosedRequestHasAcceptedOrder ==
  \A r \in Requests :
    req[r].status = "CLOSED" =>
      \E w \in OrdersOf(r, wo) : wo[w].status \in Accepted \/ wo[w].revived

\* Two managers who approve the same request, or one who approves while
\* another opens an order by hand, never leave it with two orders or none.
ApprovedRequestHasOneOrder ==
  \A r \in Requests :
    req[r].status = "APPROVED" => \E w \in WorkOrders : OrdersOf(r, wo) = {w}

\* The other way round, whatever overlaps the acceptance of an order: its
\* request is closed, unless a rejection that had checked it before the
\* approval comes in between, and stays so until the order is reworked.  A
\* revived order may be accepted while its closed request is cancelled.
AcceptanceClosesRequest ==
  \A w \in WorkOrders :
    /\ wo[w].status \in Accepted /\ wo[w].request # None
    /\ ~wo[w].revived
    =>
      req[wo[w].request].status \in {"CLOSED", "REJECTED"}

\* Nothing the transaction read has changed since.
Undisturbed(t) == t.wo = wo /\ t.eq = eq /\ t.req = req

\* A transaction that overlapped no other leaves its equipment with the status
\* the rows call for: the recalculation comes after the last write, on the
\* request that the order has just closed or reopened included.  (findOne and
\* startWorkSession are no transactions and recalculate nothing.)
UndisturbedRecalculationIsRight ==
  [][\A t \in open \ open' :
       /\ t.op \notin {"FIND_ONE", "START_SESSION"}
       /\ Undisturbed(t)
       /\ req' # req \/ wo' # wo
       =>
         eq'[t.e] \in {"DISCOMMISSIONED", DerivedStatus(t.e, req', wo')}]_vars
=============================================================================
