------------------------ MODULE AdministrationProofs ------------------------
(***************************************************************************)
(* Theorems about Maintenance and Administration for any number of         *)
(* requests, orders, pieces of equipment and concurrent clients, and for   *)
(* any set of handlers.                                                    *)
(*                                                                         *)
(* For the handlers of Maintenance the inductive invariant says what a     *)
(* transaction in flight may rely on: what its checks established on its   *)
(* snapshot (Arguments), and how far the rows can have moved away from     *)
(* that snapshot (Trails).  A clock-in moves an order without its version: *)
(* the trails say that it does so only while the order waits for work, or  *)
(* else marks it as revived, and what is claimed of orders is claimed of   *)
(* those which are not.                                                    *)
(*                                                                         *)
(* For their overlaps with the deletions of administrators it says why no  *)
(* order names a request which is gone.  An order gets its link from an    *)
(* insertion.  The one of create looks at the request again as it commits; *)
(* the one of approve does not, and relies on the lock of the request that *)
(* it holds all along: whoever deletes the request waits for it.           *)
(*                                                                         *)
(* For one client at a time it says why the status of equipment is right   *)
(* whenever nobody is at work: at every other moment, the status of a      *)
(* piece of equipment is right, or a recalculation of it is still to come  *)
(* (Matched).                                                              *)
(***************************************************************************)
EXTENDS Administration, TLAPS

-----------------------------------------------------------------------------
(***************************************************************************)
(* The inductive invariant of the handlers.                                *)
(***************************************************************************)

\* A row that exists names its equipment; one that does not exist yet has the
\* version 0, an order no request; the request of an order exists.
RowsWellFormed ==
  /\ \A r \in Requests : Exists(req[r]) => req[r].equipment \in Equipment
  /\ \A r \in Requests : ~Exists(req[r]) => req[r].version = 0
  /\ \A w \in WorkOrders : Exists(wo[w]) => wo[w].equipment \in Equipment
  /\ \A w \in WorkOrders :
       ~Exists(wo[w]) => wo[w].version = 0 /\ wo[w].request = None
  /\ \A w \in WorkOrders :
       wo[w].request \in Requests => Exists(req[wo[w].request])

\* The unique index on WorkOrder.requestId.
OneOrderPerRequest ==
  \A v, w \in WorkOrders :
    wo[v].request # None /\ wo[v].request = wo[w].request => v = w

\* What the checks of a handler established: a fact about the transaction
\* alone, which never changes.
Arguments(t) ==
  /\ t.op \in {"UPDATE_STATUS", "ASSESS"} =>
       /\ t.w \in WorkOrders
       /\ CanTransition(t.wo[t.w].status, t.to)
       /\ t.r = t.wo[t.w].request
  /\ t.op = "FIND_ONE" =>
       /\ t.w \in WorkOrders
       /\ t.wo[t.w].status \in Accepted
       /\ t.r = t.wo[t.w].request
  /\ t.op = "START_SESSION" =>
       /\ t.w \in WorkOrders
       /\ t.r = None
       /\ t.wo[t.w].status \in Startable
  /\ t.op \in {"APPROVE", "REJECT", "RETURN", "RESUBMIT", "CANCEL_REQUEST",
               "FIND_ONE"} => t.r \in Requests
  /\ t.op \in {"APPROVE", "CREATE_ORDER"} => t.to \in {"PENDING", "ASSIGNED"}

\* Accepted, or taken back by a clock-in that came too late.
Settled(row) == row.status \in Accepted \/ row.revived

\* How order w can differ from the row transaction t read.
OrderTrail(t, w) ==
  /\ t.wo[w].version <= wo[w].version
  /\ t.wo[w].version = wo[w].version => SameButClockedIn(t.wo[w], wo[w])
  /\ Exists(t.wo[w]) => Exists(wo[w]) /\ wo[w].request = t.wo[w].request
  /\ t.wo[w].status \in Accepted => Settled(wo[w])

\* The handlers that move a request which has no accepted order.
Decisions == {"RETURN", "RESUBMIT", "CANCEL_REQUEST"}

\* An order of the request is accepted in the meantime only together with a
\* new version of the request, unless it was revived.
AcceptanceTrail(t) ==
  \A w \in OrdersOf(t.r, wo) :
    wo[w].status \in Accepted /\ ~wo[w].revived =>
      t.req[t.r].version < req[t.r].version

Trails(t) ==
  /\ \A w \in WorkOrders : OrderTrail(t, w)
  /\ \A r \in Requests : t.req[r].version <= req[r].version
  /\ t.r \in Requests => Exists(req[t.r])
  /\ t.op \in Decisions => AcceptanceTrail(t)

IInv ==
  /\ TypeOK
  /\ RowsWellFormed
  /\ OneOrderPerRequest
  /\ ClosedRequestHasAcceptedOrder
  /\ ApprovedRequestHasOneOrder
  /\ AcceptanceClosesRequest
  /\ \A t \in open : Arguments(t) /\ Trails(t)

-----------------------------------------------------------------------------
(***************************************************************************)
(* Facts about the operators of the model.                                 *)
(***************************************************************************)

\* No row of the transition table leads out of an accepted order, except to
\* another acceptance; none leads to or from a row that does not exist.
LEMMA TransitionFacts ==
  ASSUME NEW from, NEW to, CanTransition(from, to)
  PROVE  /\ from \in OrderStatuses
         /\ to \in OrderStatuses
         /\ from \in Accepted => to \in Accepted
  BY DEF CanTransition, OrderStatuses, Accepted

\* Whatever tables it is given, the recalculation leaves a status to every
\* piece of equipment.
LEMMA RecalculatedType ==
  ASSUME NEW table \in [Equipment -> EquipmentStatuses],
         NEW e, NEW seen, NEW requests, NEW orders
  PROVE  Recalculated(table, e, seen, requests, orders)
           \in [Equipment -> EquipmentStatuses]
<1>1. DerivedStatus(e, requests, orders) \in EquipmentStatuses
  BY DEF DerivedStatus, EquipmentStatuses
<1> QED
  BY <1>1 DEF Recalculated

\* The fields of a row.
LEMMA RowFacts ==
  ASSUME TypeOK
  PROVE  /\ \A r \in Requests :
              /\ req[r] \in RequestRows
              /\ req[r].version \in Nat
              /\ req[r].equipment \in Equipment \cup {None}
              /\ req[r].urgent \in BOOLEAN
         /\ \A w \in WorkOrders :
              /\ wo[w] \in OrderRows
              /\ wo[w].version \in Nat
              /\ wo[w].equipment \in Equipment \cup {None}
              /\ wo[w].request \in Requests \cup {None}
              /\ wo[w].revived \in BOOLEAN
  BY DEF TypeOK, RequestRows, OrderRows

\* What a clock-in leaves of a row, and that rows it has touched are still the
\* same but for clock-ins.
LEMMA ClockedInFacts ==
  ASSUME NEW row \in OrderRows
  PROVE  /\ ClockedIn(row) \in OrderRows
         /\ ClockedIn(row).status = "IN_PROGRESS"
         /\ ClockedIn(row).version = row.version
         /\ ClockedIn(row).equipment = row.equipment
         /\ ClockedIn(row).urgent = row.urgent
         /\ ClockedIn(row).request = row.request
         /\ row.revived => ClockedIn(row).revived
         /\ ~ClockedIn(row).revived =>
              row.status \in Startable \cup {"IN_PROGRESS"}
  BY DEF ClockedIn, OrderRows, OrderStatuses

LEMMA ClockedInAgain ==
  ASSUME NEW before \in OrderRows, NEW row \in OrderRows,
         SameButClockedIn(before, row)
  PROVE  SameButClockedIn(before, ClockedIn(row))
<1>1. CASE row.revived \/ row.status \in Startable
  BY <1>1 DEF SameButClockedIn, ClockedIn, OrderRows
<1>2. CASE row.status \notin Startable \cup {"IN_PROGRESS"}
  BY <1>2 DEF SameButClockedIn, ClockedIn, OrderRows
<1>3. CASE ~row.revived /\ row.status = "IN_PROGRESS"
  BY <1>3 DEF SameButClockedIn, ClockedIn, OrderRows
<1> QED
  BY <1>1, <1>2, <1>3

\* A call with valid arguments is a transaction.
LEMMA CallType ==
  ASSUME TypeOK, NEW c \in Clients, NEW r \in Requests \cup {None},
         NEW w \in WorkOrders \cup {None}, NEW e \in Equipment,
         NEW op \in {"CREATE_REQUEST", "APPROVE", "REJECT", "RETURN",
                     "RESUBMIT", "CANCEL_REQUEST", "FIND_ONE",
                     "CREATE_ORDER", "UPDATE_STATUS", "ASSESS",
                     "START_SESSION"},
         NEW s \in OrderStatuses \cup {"NONE"}, NEW u \in BOOLEAN,
         NEW k \in BOOLEAN
  PROVE  Call(c, op, r, w, e, s, u, k) \in Transactions
  BY DEF TypeOK, Call, Transactions

-----------------------------------------------------------------------------
(***************************************************************************)
(* The initial states, and the steps that start a transaction.             *)
(***************************************************************************)

LEMMA InitIInv == Init => IInv
<1> SUFFICES ASSUME Init PROVE IInv
  OBVIOUS
<1>1. TypeOK
  BY DEF Init, TypeOK, RequestRows, OrderRows, NoRequestRow, NoOrderRow,
         EquipmentStatuses
<1>2. RowsWellFormed
  BY NoneIsNoReference
     DEF Init, RowsWellFormed, Exists, NoRequestRow, NoOrderRow
<1>3. OneOrderPerRequest
  BY DEF Init, OneOrderPerRequest, NoOrderRow
<1>4. ClosedRequestHasAcceptedOrder /\ ApprovedRequestHasOneOrder
  BY DEF Init, ClosedRequestHasAcceptedOrder, ApprovedRequestHasOneOrder,
         NoRequestRow
<1>5. AcceptanceClosesRequest
  BY DEF Init, AcceptanceClosesRequest, NoOrderRow
<1>6. \A t \in open : Arguments(t) /\ Trails(t)
  BY DEF Init
<1> QED
  BY <1>1, <1>2, <1>3, <1>4, <1>5, <1>6 DEF IInv

\* Starting a transaction is harmless when its arguments are in order: its
\* snapshot is the tables as they are.
LEMMA BeginIInv ==
  ASSUME IInv, NEW c, NEW call, Begin(c, call),
         call \in Transactions, Arguments(call), call.wo = wo, call.req = req,
         call.r \in Requests => Exists(req[call.r]),
         call.op \in Decisions =>
           \A w \in OrdersOf(call.r, wo) :
             wo[w].status \in Accepted => wo[w].revived
  PROVE  IInv'
<1>1. TypeOK'
  BY DEF IInv, TypeOK, Begin
<1>2. RowsWellFormed' /\ OneOrderPerRequest'
  BY DEF IInv, RowsWellFormed, OneOrderPerRequest, Begin
<1>3. /\ ClosedRequestHasAcceptedOrder' /\ ApprovedRequestHasOneOrder'
      /\ AcceptanceClosesRequest'
  BY DEF IInv, ClosedRequestHasAcceptedOrder, ApprovedRequestHasOneOrder,
         AcceptanceClosesRequest, OrdersOf, Begin
<1>4. ASSUME NEW t \in open' PROVE Arguments(t) /\ Trails(t)'
  <2>1. CASE t \in open
    BY <2>1 DEF IInv, Begin, Trails, OrderTrail, AcceptanceTrail, OrdersOf
  <2>2. CASE t = call
    <3>1. \A w \in WorkOrders : OrderTrail(call, w)
      BY RowFacts DEF IInv, OrderTrail, SameButClockedIn, Settled
    <3>2. /\ \A r \in Requests : call.req[r].version <= req[r].version
          /\ call.r \in Requests => Exists(req[call.r])
      BY RowFacts DEF IInv
    <3>3. call.op \in Decisions => AcceptanceTrail(call)
      BY DEF AcceptanceTrail
    <3> QED
      BY <2>2, <3>1, <3>2, <3>3
         DEF Begin, Trails, OrderTrail, AcceptanceTrail, OrdersOf
  <2> QED
    BY <2>1, <2>2 DEF Begin
<1> QED
  BY <1>1, <1>2, <1>3, <1>4 DEF IInv, Arguments

\* The checks of the request handlers establish the arguments of their
\* transactions.
LEMMA RequestCallIInv ==
  ASSUME IInv, NEW c \in Clients, NEW r \in Requests, Exists(req[r]),
         NEW op \in {"REJECT", "RETURN", "RESUBMIT", "CANCEL_REQUEST"},
         NEW u \in BOOLEAN,
         op \in Decisions =>
           \A w \in OrdersOf(r, wo) : wo[w].status \notin Accepted,
         Begin(c, Call(c, op, r, None, req[r].equipment, "NONE", u, FALSE))
  PROVE  IInv'
<1> DEFINE call == Call(c, op, r, None, req[r].equipment, "NONE", u, FALSE)
<1>1. call \in Transactions
  BY CallType DEF IInv, RowsWellFormed
<1>2. /\ Arguments(call) /\ call.wo = wo /\ call.req = req
      /\ Exists(req[call.r]) /\ call.r = r /\ call.op = op
  BY DEF Call, Arguments
<1> QED
  BY <1>1, <1>2, BeginIInv

LEMMA RequestHandlerIInv ==
  ASSUME IInv, NEW c \in Clients, RequestHandler(c) PROVE IInv'
<1>1. CASE CreateRequest(c)
  <2>1. PICK e \in Equipment, u \in Urgencies :
          Begin(c, Call(c, "CREATE_REQUEST", None, None, e, "NONE", u, FALSE))
    BY <1>1 DEF CreateRequest
  <2> DEFINE call == Call(c, "CREATE_REQUEST", None, None, e, "NONE", u, FALSE)
  <2>2. call \in Transactions
    BY CallType, UrgencyIsAFlag DEF IInv
  <2>3. /\ Arguments(call) /\ call.wo = wo /\ call.req = req
        /\ call.r \notin Requests /\ call.op \notin Decisions
    BY NoneIsNoReference DEF Call, Arguments, Decisions
  <2> QED
    BY <2>1, <2>2, <2>3, BeginIInv
<1>2. ASSUME NEW r \in Requests, Approve(c, r) PROVE IInv'
  <2>1. PICK s \in {"PENDING", "ASSIGNED"} :
          Begin(c, Call(c, "APPROVE", r, None, req[r].equipment, s,
                        req[r].urgent, TRUE))
    BY <1>2 DEF Approve
  <2> DEFINE call == Call(c, "APPROVE", r, None, req[r].equipment, s,
                          req[r].urgent, TRUE)
  <2>2. req[r].equipment \in Equipment /\ req[r].urgent \in BOOLEAN
    BY <1>2, RowFacts DEF IInv, RowsWellFormed, Approve, Exists
  <2>3. call \in Transactions
    BY <2>2, CallType DEF IInv, OrderStatuses
  <2>4. /\ Arguments(call) /\ call.wo = wo /\ call.req = req
        /\ Exists(req[call.r]) /\ call.op \notin Decisions
    BY <1>2 DEF Call, Arguments, Approve, Exists, Decisions
  <2> QED
    BY <2>1, <2>3, <2>4, BeginIInv
<1>3. ASSUME NEW r \in Requests,
             Reject(c, r) \/ ReturnRequest(c, r) \/ CancelRequest(c, r)
      PROVE  IInv'
  BY <1>3, RequestCallIInv
     DEF Reject, ReturnRequest, CancelRequest, RequestCall, Exists, Decisions
<1>4. ASSUME NEW r \in Requests, ResubmitRequest(c, r) PROVE IInv'
  BY <1>4, RequestCallIInv, UrgencyIsAFlag DEF ResubmitRequest, Exists
<1>5. ASSUME NEW r \in Requests, FindOne(c, r) PROVE IInv'
  <2>1. PICK w \in OrdersOf(r, wo) :
          /\ wo[w].status \in Accepted
          /\ Begin(c, Call(c, "FIND_ONE", r, w, req[r].equipment, "NONE",
                           FALSE, FALSE))
    BY <1>5 DEF FindOne
  <2> DEFINE call == Call(c, "FIND_ONE", r, w, req[r].equipment, "NONE",
                          FALSE, FALSE)
  <2>2. w \in WorkOrders /\ wo[w].request = r
    BY DEF OrdersOf
  <2>3. req[r].equipment \in Equipment
    BY <1>5 DEF IInv, RowsWellFormed, FindOne, Exists
  <2>4. call \in Transactions
    BY <2>2, <2>3, CallType DEF IInv
  <2>5. /\ Arguments(call) /\ call.wo = wo /\ call.req = req
        /\ Exists(req[call.r]) /\ call.op \notin Decisions
    BY <1>5, <2>1, <2>2 DEF Call, Arguments, FindOne, Exists, Decisions
  <2> QED
    BY <2>1, <2>4, <2>5, BeginIInv
<1> QED
  BY <1>1, <1>2, <1>3, <1>4, <1>5 DEF RequestHandler

\* assertTransition establishes the arguments of every status change.
LEMMA BeginUpdateIInv ==
  ASSUME IInv, NEW c \in Clients, NEW w \in WorkOrders, NEW h,
         NEW op \in {"UPDATE_STATUS", "ASSESS"}, NEW target,
         NEW k \in BOOLEAN, BeginUpdate(c, h, op, w, target, k)
  PROVE  IInv'
<1> DEFINE call == Call(c, op, wo[w].request, w, wo[w].equipment, target,
                        FALSE, k)
<1>1. Begin(c, call) /\ CanTransition(wo[w].status, target)
  BY DEF BeginUpdate
<1>2. wo[w].status \in OrderStatuses /\ target \in OrderStatuses
  BY <1>1, TransitionFacts
<1>3. wo[w].equipment \in Equipment /\ wo[w].request \in Requests \cup {None}
  BY <1>2, RowFacts DEF IInv, RowsWellFormed, Exists, OrderStatuses
<1>4. call \in Transactions
  BY <1>2, <1>3, CallType DEF IInv
<1>5. /\ Arguments(call) /\ call.wo = wo /\ call.req = req
      /\ call.r \in Requests => Exists(req[call.r])
      /\ call.op \notin Decisions
  BY <1>1 DEF IInv, RowsWellFormed, Call, Arguments, Decisions
<1> QED
  BY <1>1, <1>4, <1>5, BeginIInv

LEMMA OrderHandlerIInv ==
  ASSUME IInv, NEW c \in Clients, OrderHandler(c) PROVE IInv'
<1>1. CASE CreateOrder(c)
  <2>1. PICK e \in Equipment, u \in Urgencies, k \in BOOLEAN,
             s \in {"PENDING", "ASSIGNED"},
             r \in {q \in Requests : Exists(req[q]) /\ "linkOrder" \in Handlers}
                    \cup {None} :
          Begin(c, Call(c, "CREATE_ORDER", r, None, e, s, u, k))
    BY <1>1 DEF CreateOrder
  <2> DEFINE call == Call(c, "CREATE_ORDER", r, None, e, s, u, k)
  <2>2. call \in Transactions
    BY UrgencyIsAFlag, CallType DEF IInv, OrderStatuses
  <2>3. /\ Arguments(call) /\ call.wo = wo /\ call.req = req
        /\ call.r \in Requests => Exists(req[call.r])
        /\ call.op \notin Decisions
    BY NoneIsNoReference DEF Call, Arguments, Decisions
  <2> QED
    BY <2>1, <2>2, <2>3, BeginIInv
<1>2. ASSUME NEW w \in WorkOrders,
             Assign(c, w) \/ Classify(c, w)
      PROVE  IInv'
  BY <1>2, BeginUpdateIInv DEF Assign, Classify
<1>3. ASSUME NEW w \in WorkOrders,
             \/ StartWithAssessment(c, w) \/ Start(c, w) \/ Pause(c, w)
             \/ Resume(c, w) \/ Complete(c, w) \/ Escalate(c, w)
      PROVE  IInv'
  BY <1>3, BeginUpdateIInv
     DEF StartWithAssessment, Start, Pause, Resume, Complete, Escalate
<1>4. ASSUME NEW w \in WorkOrders,
             \/ SubmitHandover(c, w) \/ AcceptHandover(c, w)
             \/ SendBack(c, w) \/ Verify(c, w) \/ Close(c, w) \/ Cancel(c, w)
      PROVE  IInv'
  BY <1>4, BeginUpdateIInv
     DEF SubmitHandover, AcceptHandover, SendBack, Verify, Close, Cancel
<1>5. ASSUME NEW w \in WorkOrders, StartWorkSession(c, w) PROVE IInv'
  <2> DEFINE call == Call(c, "START_SESSION", None, w, wo[w].equipment,
                          "IN_PROGRESS", FALSE, FALSE)
  <2>1. Begin(c, call) /\ wo[w].status \in Startable
    BY <1>5 DEF StartWorkSession
  <2>2. wo[w].equipment \in Equipment
    BY <2>1 DEF IInv, RowsWellFormed, Exists, Startable
  <2>3. call \in Transactions
    BY <2>2, CallType DEF IInv, OrderStatuses
  <2>4. /\ Arguments(call) /\ call.wo = wo /\ call.req = req
        /\ call.r \notin Requests /\ call.op \notin Decisions
    BY <2>1, NoneIsNoReference DEF Call, Arguments, Decisions
  <2> HIDE DEF call
  <2> QED
    BY <2>1, <2>3, <2>4, BeginIInv
<1> QED
  BY <1>1, <1>2, <1>3, <1>4, <1>5 DEF OrderHandler

-----------------------------------------------------------------------------
(***************************************************************************)
(* The steps that commit.                                                  *)
(***************************************************************************)

\* What any step may do to order w: leave it alone, clock in, or give it a new
\* version, in which case it keeps its request, an acceptance and its mark.
OrderStep(w) ==
  \/ wo'[w] = wo[w]
  \/ wo'[w] = ClockedIn(wo[w]) /\ Exists(wo[w])
  \/ /\ wo[w].version < wo'[w].version
     /\ Exists(wo[w]) => Exists(wo'[w]) /\ wo'[w].request = wo[w].request
     /\ Exists(wo[w]) => wo'[w].revived = wo[w].revived
     /\ wo[w].status \in Accepted => Settled(wo'[w])
     /\ ~Exists(wo[w]) => wo'[w].status \notin Accepted

\* What any step may do to request r.
RequestMove(r) ==
  /\ req[r].version <= req'[r].version
  /\ Exists(req[r]) => Exists(req'[r])

\* The acceptance of an order gives its request a new version, unless the
\* order was revived.
AcceptanceStep(w) ==
  /\ wo'[w].status \in Accepted
  /\ ~wo'[w].revived
  /\ wo[w].status \notin Accepted
  /\ wo[w].request \in Requests
  => req[wo[w].request].version < req'[wo[w].request].version

\* Steps of this kind keep the trails of the transactions that remain.
LEMMA TrailsStep ==
  ASSUME IInv, TypeOK', open' \subseteq open,
         \A w \in WorkOrders : OrderStep(w) /\ AcceptanceStep(w),
         \A r \in Requests : RequestMove(r)
  PROVE  \A t \in open' : Arguments(t) /\ Trails(t)'
<1> SUFFICES ASSUME NEW t \in open' PROVE Arguments(t) /\ Trails(t)'
  OBVIOUS
<1>1. t \in Transactions /\ Arguments(t) /\ Trails(t)
  BY DEF IInv, TypeOK
<1>2. /\ \A r \in Requests : /\ t.req[r].version \in Nat
                             /\ req[r].version \in Nat
                             /\ req'[r].version \in Nat
      /\ \A w \in WorkOrders : /\ t.wo[w].version \in Nat
                               /\ wo[w].version \in Nat
                               /\ wo'[w].version \in Nat
  BY <1>1 DEF IInv, TypeOK, Transactions, RequestRows, OrderRows
<1>3. ASSUME NEW w \in WorkOrders PROVE OrderTrail(t, w)'
  <2>1. OrderTrail(t, w)
    BY <1>1 DEF Trails
  <2>2. t.wo[w] \in OrderRows /\ wo[w] \in OrderRows
    BY <1>1 DEF IInv, TypeOK, Transactions
  <2>3. CASE wo'[w] = wo[w]
    BY <2>1, <2>3 DEF OrderTrail
  <2>4. CASE wo'[w] = ClockedIn(wo[w]) /\ Exists(wo[w])
    <3>1. /\ ClockedIn(wo[w]).version = wo[w].version
          /\ ClockedIn(wo[w]).request = wo[w].request
          /\ Exists(ClockedIn(wo[w]))
          /\ Settled(wo[w]) => Settled(ClockedIn(wo[w]))
      BY <2>2, ClockedInFacts DEF Exists, Settled, Startable, Accepted
    <3>2. t.wo[w].version = wo[w].version =>
            SameButClockedIn(t.wo[w], ClockedIn(wo[w]))
      BY <2>1, <2>2, ClockedInAgain DEF OrderTrail
    <3> QED
      BY <2>1, <2>4, <3>1, <3>2 DEF OrderTrail, Exists
  <2>5. CASE ~(\/ wo'[w] = wo[w]
               \/ wo'[w] = ClockedIn(wo[w]) /\ Exists(wo[w]))
    <3>1. t.wo[w].version < wo'[w].version
      BY <1>2, <2>1, <2>5 DEF OrderTrail, OrderStep
    <3>2. /\ Exists(t.wo[w]) => Exists(wo'[w]) /\ wo'[w].request = t.wo[w].request
          /\ t.wo[w].status \in Accepted => Settled(wo'[w])
      BY <2>1, <2>5 DEF OrderTrail, OrderStep, Settled, Exists, Accepted
    <3> QED
      BY <1>2, <3>1, <3>2 DEF OrderTrail
  <2> QED
    BY <2>3, <2>4, <2>5
<1>4. /\ \A r \in Requests : t.req[r].version <= req'[r].version
      /\ t.r \in Requests => Exists(req'[t.r])
  BY <1>1, <1>2 DEF Trails, RequestMove
<1>5. ASSUME t.op \in Decisions, NEW w \in OrdersOf(t.r, wo'),
             wo'[w].status \in Accepted, ~wo'[w].revived
      PROVE  t.req[t.r].version < req'[t.r].version
  <2>1. t.r \in Requests
    BY <1>1, <1>5 DEF Arguments, Decisions
  <2>2. w \in WorkOrders /\ wo'[w].request = t.r
    BY <1>5 DEF OrdersOf
  <2>3. Exists(wo[w]) /\ wo[w].request = t.r /\ ~wo[w].revived
    BY <1>5, <2>2, ClockedInFacts, RowFacts
       DEF IInv, OrderStep, Exists, Accepted
  <2>4. CASE wo[w].status \in Accepted
    <3>1. t.req[t.r].version < req[t.r].version
      BY <1>1, <1>5, <2>2, <2>3, <2>4 DEF Trails, AcceptanceTrail, OrdersOf
    <3> QED
      BY <1>2, <2>1, <3>1 DEF RequestMove
  <2>5. CASE wo[w].status \notin Accepted
    BY <1>1, <1>2, <1>5, <2>1, <2>2, <2>3, <2>5 DEF Trails, AcceptanceStep
  <2> QED
    BY <2>4, <2>5
<1> QED
  BY <1>1, <1>3, <1>4, <1>5 DEF Trails, AcceptanceTrail, OrdersOf

\* Writing a request that is neither closed nor approved by it.
LEMMA RequestWritten ==
  ASSUME IInv, NEW t \in open, NEW r \in Requests, NEW row \in RequestRows,
         req' = [req EXCEPT ![r] = row], req[r].version <= row.version,
         row.equipment \in Equipment,
         row.status \notin {"NONE", "CLOSED", "APPROVED"},
         row.status # "REJECTED" =>
           \A w \in OrdersOf(r, wo) :
             wo[w].status \in Accepted => wo[w].revived,
         wo' = wo, eq' \in [Equipment -> EquipmentStatuses],
         open' = open \ {t}
  PROVE  IInv'
<1>1. TypeOK'
  BY DEF IInv, TypeOK
<1>2. RowsWellFormed' /\ OneOrderPerRequest'
  BY DEF IInv, TypeOK, RowsWellFormed, OneOrderPerRequest, Exists
<1>3. ClosedRequestHasAcceptedOrder' /\ ApprovedRequestHasOneOrder'
  BY DEF IInv, TypeOK, ClosedRequestHasAcceptedOrder,
         ApprovedRequestHasOneOrder, OrdersOf
<1>4. AcceptanceClosesRequest'
  BY DEF IInv, TypeOK, AcceptanceClosesRequest, OrdersOf
<1>5. \A q \in Requests : RequestMove(q)
  BY RowFacts DEF IInv, TypeOK, RequestMove, Exists
<1>6. \A w \in WorkOrders : OrderStep(w) /\ AcceptanceStep(w)
  BY DEF OrderStep, AcceptanceStep
<1>7. \A x \in open' : Arguments(x) /\ Trails(x)'
  BY <1>1, <1>5, <1>6, TrailsStep
<1> QED
  BY <1>1, <1>2, <1>3, <1>4, <1>7 DEF IInv, Arguments

\* What is known of a transaction about to commit on a request.
LEMMA OpenFacts ==
  ASSUME IInv, NEW t \in open
  PROVE  /\ t \in Transactions /\ Arguments(t) /\ Trails(t)
         /\ t.e \in Equipment /\ t.urgent \in BOOLEAN
         /\ t.r \in Requests =>
              /\ req[t.r] \in RequestRows
              /\ Exists(req[t.r])
              /\ req[t.r].version \in Nat
              /\ req[t.r].equipment \in Equipment
              /\ req[t.r].urgent \in BOOLEAN
  BY RowFacts DEF IInv, TypeOK, Transactions, Trails, RowsWellFormed

\* A decision that commits finds no order of its request accepted.
LEMMA StillUnaccepted ==
  ASSUME IInv, NEW t \in open, t.op \in Decisions, RequestUnmoved(t)
  PROVE  \A w \in OrdersOf(t.r, wo) :
           wo[w].status \in Accepted => wo[w].revived
<1>1. t.r \in Requests
  BY OpenFacts DEF Arguments, Decisions
<1>2. t.req[t.r].version = req[t.r].version /\ req[t.r].version \in Nat
  BY <1>1, OpenFacts DEF RequestUnmoved
<1> QED
  BY <1>2, OpenFacts DEF Trails, AcceptanceTrail

LEMMA CommitCreateRequestIInv ==
  ASSUME IInv, NEW t \in open, CommitCreateRequest(t) PROVE IInv'
<1>1. PICK r \in Requests :
        /\ ~Exists(req[r])
        /\ req' = [req EXCEPT ![r] = [status |-> "PENDING", version |-> 1,
                                      equipment |-> t.e, urgent |-> t.urgent]]
        /\ Recalculate(t, Seen(t.req, req', {r}), t.wo)
  BY DEF CommitCreateRequest, Unused
<1> DEFINE row == [status |-> "PENDING", version |-> 1, equipment |-> t.e,
                   urgent |-> t.urgent]
<1>2. row \in RequestRows /\ row.equipment \in Equipment
  BY OpenFacts DEF RequestRows, RequestStatuses
<1>3. req[r].version <= 1
  BY <1>1 DEF IInv, RowsWellFormed
<1>4. eq' \in [Equipment -> EquipmentStatuses]
  BY <1>1, RecalculatedType DEF IInv, TypeOK, Recalculate
<1>5. OrdersOf(r, wo) = {}
  BY <1>1 DEF IInv, RowsWellFormed, OrdersOf
<1> QED
  BY <1>1, <1>2, <1>3, <1>4, <1>5, RequestWritten
     DEF CommitCreateRequest, Finish

LEMMA CommitRejectIInv ==
  ASSUME IInv, NEW t \in open, CommitReject(t) PROVE IInv'
<1> DEFINE row == [req[t.r] EXCEPT !.status = "REJECTED"]
<1>1. t.r \in Requests
  BY OpenFacts DEF CommitReject, Arguments
<1>2. /\ row \in RequestRows /\ req[t.r].version <= row.version
      /\ row.equipment \in Equipment /\ row.status = "REJECTED"
  BY <1>1, OpenFacts DEF RequestRows, RequestStatuses
<1>3. eq' \in [Equipment -> EquipmentStatuses]
  BY RecalculatedType DEF IInv, TypeOK, CommitReject, Recalculate
<1>4. req' = [req EXCEPT ![t.r] = row]
  BY <1>1 DEF CommitReject
<1> QED
  BY <1>1, <1>2, <1>3, <1>4, RequestWritten DEF CommitReject, Finish

\* A moved row has its new status and the next version, and is otherwise the
\* same.
LEMMA MovedRequest ==
  ASSUME NEW row \in RequestRows, NEW s \in RequestStatuses
  PROVE  /\ Moved(row, s) \in RequestRows
         /\ Moved(row, s).status = s
         /\ row.version < Moved(row, s).version
         /\ row.version <= Moved(row, s).version
         /\ Moved(row, s).equipment = row.equipment
<1> DEFINE y == [row EXCEPT !.status = s]
<1>1. /\ y \in RequestRows /\ y.status = s
      /\ y.version = row.version /\ y.equipment = row.equipment
  BY DEF RequestRows
<1> HIDE DEF y
<1>2. /\ NextVersion(y) \in RequestRows /\ NextVersion(y).status = s
      /\ row.version < NextVersion(y).version
      /\ row.version <= NextVersion(y).version
      /\ NextVersion(y).equipment = row.equipment
  BY <1>1 DEF NextVersion, RequestRows
<1>3. Moved(row, s) = NextVersion(y)
  BY DEF Moved, y
<1> QED
  BY <1>2, <1>3

LEMMA MovedOrder ==
  ASSUME NEW row \in OrderRows, NEW s \in OrderStatuses
  PROVE  /\ Moved(row, s) \in OrderRows
         /\ Moved(row, s).status = s
         /\ row.version < Moved(row, s).version
         /\ Moved(row, s).equipment = row.equipment
         /\ Moved(row, s).request = row.request
         /\ Moved(row, s).revived = row.revived
<1> DEFINE y == [row EXCEPT !.status = s]
<1>1. /\ y \in OrderRows /\ y.status = s
      /\ y.version = row.version /\ y.equipment = row.equipment
      /\ y.request = row.request /\ y.revived = row.revived
  BY DEF OrderRows
<1> HIDE DEF y
<1>2. /\ NextVersion(y) \in OrderRows /\ NextVersion(y).status = s
      /\ row.version < NextVersion(y).version
      /\ NextVersion(y).equipment = row.equipment
      /\ NextVersion(y).request = row.request
      /\ NextVersion(y).revived = row.revived
  BY <1>1 DEF NextVersion, OrderRows
<1>3. Moved(row, s) = NextVersion(y)
  BY DEF Moved, y
<1> QED
  BY <1>2, <1>3

\* A new priority, or a classification, changes nothing else of a row.
LEMMA OtherFields ==
  /\ \A row \in RequestRows, u \in BOOLEAN :
       LET x == [row EXCEPT !.urgent = u]
       IN  /\ x \in RequestRows /\ x.status = row.status
           /\ x.version = row.version /\ x.equipment = row.equipment
  /\ \A row \in OrderRows, k \in BOOLEAN :
       LET x == Classified(row, k)
       IN  /\ x \in OrderRows /\ x.status = row.status
           /\ x.version = row.version /\ x.equipment = row.equipment
           /\ x.request = row.request /\ x.revived = row.revived
  BY DEF RequestRows, OrderRows, Classified

LEMMA CommitReturnIInv ==
  ASSUME IInv, NEW t \in open, CommitReturn(t) PROVE IInv'
<1> DEFINE row == Moved(req[t.r], "RETURNED")
<1>1. t.r \in Requests
  BY OpenFacts DEF CommitReturn, Arguments
<1>2. /\ row \in RequestRows /\ req[t.r].version <= row.version
      /\ row.equipment \in Equipment /\ row.status = "RETURNED"
  BY <1>1, OpenFacts, MovedRequest DEF RequestStatuses
<1>3. eq' \in [Equipment -> EquipmentStatuses]
  BY RecalculatedType DEF IInv, TypeOK, CommitReturn, Recalculate
<1>4. req' = [req EXCEPT ![t.r] = row]
  BY DEF CommitReturn, SetRequest
<1>5. \A w \in OrdersOf(t.r, wo) : wo[w].status \in Accepted => wo[w].revived
  BY <1>1, StillUnaccepted DEF CommitReturn, Decisions
<1> QED
  BY <1>1, <1>2, <1>3, <1>4, <1>5, RequestWritten DEF CommitReturn, Finish

LEMMA CommitResubmitIInv ==
  ASSUME IInv, NEW t \in open, CommitResubmit(t) PROVE IInv'
<1> DEFINE moved == Moved(req[t.r], "PENDING")
           row == [moved EXCEPT !.urgent = t.urgent]
<1>1. t.r \in Requests
  BY OpenFacts DEF CommitResubmit, Arguments
<1>2. /\ row \in RequestRows /\ req[t.r].version <= row.version
      /\ row.equipment \in Equipment /\ row.status = "PENDING"
  <2>1. /\ moved \in RequestRows /\ req[t.r].version <= moved.version
        /\ moved.equipment \in Equipment /\ moved.status = "PENDING"
    BY <1>1, OpenFacts, MovedRequest DEF RequestStatuses
  <2> HIDE DEF moved
  <2> QED
    BY <2>1, OpenFacts, OtherFields
<1>3. eq' \in [Equipment -> EquipmentStatuses]
  BY RecalculatedType DEF IInv, TypeOK, CommitResubmit, Recalculate
<1>4. req' = [req EXCEPT ![t.r] = row]
  BY DEF CommitResubmit
<1>5. \A w \in OrdersOf(t.r, wo) : wo[w].status \in Accepted => wo[w].revived
  BY <1>1, StillUnaccepted DEF CommitResubmit, Decisions
<1> QED
  BY <1>1, <1>2, <1>3, <1>4, <1>5, RequestWritten DEF CommitResubmit, Finish

\* findOne closes a request only because of an order that is still accepted,
\* or was revived.
LEMMA CommitFindOneIInv ==
  ASSUME IInv, NEW t \in open, CommitFindOne(t) PROVE IInv'
<1> DEFINE row == [req[t.r] EXCEPT !.status = "CLOSED"]
<1>1. t.r \in Requests /\ t.w \in OrdersOf(t.r, wo) /\ Settled(wo[t.w])
  BY OpenFacts
     DEF CommitFindOne, Arguments, Trails, OrderTrail, OrdersOf, Exists, Accepted
<1>2. /\ row \in RequestRows /\ req[t.r].version = row.version
      /\ row.equipment \in Equipment /\ row.status = "CLOSED"
  BY <1>1, OpenFacts DEF RequestRows, RequestStatuses
<1>3. req' = [req EXCEPT ![t.r] = row] /\ wo' = wo /\ eq' = eq
  BY DEF CommitFindOne
<1>4. open' = open \ {t}
  BY DEF CommitFindOne, Finish
<1>5. TypeOK'
  BY <1>1, <1>2, <1>3, <1>4 DEF IInv, TypeOK
<1>6. RowsWellFormed' /\ OneOrderPerRequest'
  BY <1>1, <1>2, <1>3
     DEF IInv, TypeOK, RowsWellFormed, OneOrderPerRequest, Exists
<1>7. ClosedRequestHasAcceptedOrder' /\ ApprovedRequestHasOneOrder'
  BY <1>1, <1>2, <1>3
     DEF IInv, TypeOK, ClosedRequestHasAcceptedOrder,
         ApprovedRequestHasOneOrder, OrdersOf, Settled
<1>8. AcceptanceClosesRequest'
  BY <1>1, <1>2, <1>3 DEF IInv, TypeOK, AcceptanceClosesRequest
<1>9. /\ \A q \in Requests : RequestMove(q)
      /\ \A w \in WorkOrders : OrderStep(w) /\ AcceptanceStep(w)
  BY <1>1, <1>2, <1>3, RowFacts
     DEF IInv, TypeOK, RequestMove, Exists, OrderStep, AcceptanceStep
<1>10. \A x \in open' : Arguments(x) /\ Trails(x)'
  BY <1>4, <1>5, <1>9, TrailsStep
<1> QED
  BY <1>5, <1>6, <1>7, <1>8, <1>10 DEF IInv, Arguments

\* The step changes nothing of the requests, except that it may approve r.
ApprovedAtMost(r) ==
  \A q \in Requests :
    /\ req'[q].version = req[q].version
    /\ req'[q].equipment = req[q].equipment
    /\ \/ req'[q].status = req[q].status
       \/ q = r /\ req'[q].status = "APPROVED"

\* Inserting order w, for a request without orders or for none.  Only an
\* approval changes its request in the same step.
LEMMA InsertIInv ==
  ASSUME IInv, NEW t \in open, t.to \in {"PENDING", "ASSIGNED"},
         NEW w \in WorkOrders, ~Exists(wo[w]),
         wo' = [wo EXCEPT ![w] = [status |-> t.to, version |-> 1,
                                  equipment |-> t.e, urgent |-> t.urgent,
                                  request |-> t.r,
                                  classified |-> t.classified,
                                  revived |-> FALSE]],
         t.r # None => OrdersOf(t.r, wo) = {},
         req' \in [Requests -> RequestRows], ApprovedAtMost(t.r),
         eq' \in [Equipment -> EquipmentStatuses], open' = open \ {t}
  PROVE  IInv'
<1> DEFINE row == [status |-> t.to, version |-> 1, equipment |-> t.e,
                   urgent |-> t.urgent, request |-> t.r,
                   classified |-> t.classified, revived |-> FALSE]
<1>1. /\ row \in OrderRows /\ row.equipment \in Equipment
      /\ row.request = t.r /\ row.version = 1
      /\ row.status \in {"PENDING", "ASSIGNED"}
      /\ ~row.revived
      /\ t.r \in Requests \cup {None}
  BY OpenFacts DEF OrderRows, OrderStatuses, Transactions
<1> HIDE DEF row
<1>2. wo' = [wo EXCEPT ![w] = row]
  BY DEF row
<1>3. /\ wo[w].version = 0 /\ wo[w].request = None
      /\ wo[w].status = "NONE"
  BY DEF IInv, RowsWellFormed, Exists
<1>4. \A r \in Requests :
        /\ req'[r].version = req[r].version
        /\ req'[r].equipment = req[r].equipment
        /\ \/ req'[r].status = req[r].status
           \/ r = t.r /\ req'[r].status = "APPROVED"
  BY DEF ApprovedAtMost
<1>5. TypeOK'
  BY <1>1, <1>2, <1>4 DEF IInv, TypeOK
<1>6. OneOrderPerRequest'
  BY <1>1, <1>2, <1>3, NoneIsNoReference
     DEF IInv, TypeOK, OneOrderPerRequest, OrdersOf
<1>7. RowsWellFormed'
  BY <1>1, <1>2, <1>3, <1>4, OpenFacts
     DEF IInv, TypeOK, RowsWellFormed, Exists
<1>8. ClosedRequestHasAcceptedOrder'
  <2> SUFFICES ASSUME NEW r \in Requests, req'[r].status = "CLOSED"
               PROVE  \E v \in OrdersOf(r, wo') : Settled(wo'[v])
    BY DEF ClosedRequestHasAcceptedOrder, Settled
  <2>1. PICK v \in OrdersOf(r, wo) : Settled(wo[v])
    BY <1>4 DEF IInv, ClosedRequestHasAcceptedOrder, Settled
  <2>2. v \in WorkOrders /\ v # w
    BY <1>3, <2>1, NoneIsNoReference DEF OrdersOf
  <2> QED
    BY <1>2, <2>1, <2>2 DEF IInv, TypeOK, OrdersOf
<1>9. ApprovedRequestHasOneOrder'
  <2> SUFFICES ASSUME NEW r \in Requests, req'[r].status = "APPROVED"
               PROVE  \E v \in WorkOrders : OrdersOf(r, wo') = {v}
    BY DEF ApprovedRequestHasOneOrder
  <2>1. r # None
    BY NoneIsNoReference
  <2>2. CASE r = t.r
    <3>1. OrdersOf(r, wo') = {w}
      BY <1>1, <1>2, <2>1, <2>2 DEF IInv, TypeOK, OrdersOf
    <3> QED
      BY <3>1
  <2>3. CASE r # t.r
    <3>1. PICK v \in WorkOrders : OrdersOf(r, wo) = {v}
      BY <1>4, <2>3 DEF IInv, ApprovedRequestHasOneOrder
    <3>2. OrdersOf(r, wo') = OrdersOf(r, wo)
      BY <1>1, <1>2, <1>3, <2>1, <2>3 DEF IInv, TypeOK, OrdersOf
    <3> QED
      BY <3>1, <3>2
  <2> QED
    BY <2>2, <2>3
<1>10. \A r \in Requests : RequestMove(r)
  BY <1>4, RowFacts DEF IInv, RequestMove, Exists
<1>11. ASSUME NEW v \in WorkOrders PROVE OrderStep(v) /\ AcceptanceStep(v)
  <2>1. CASE v # w
    BY <1>2, <2>1 DEF IInv, TypeOK, OrderStep, AcceptanceStep
  <2>2. CASE v = w
    <3>1. wo'[v] = row /\ wo[v].version < row.version
      BY <1>1, <1>2, <1>3, <2>2 DEF IInv, TypeOK
    <3> QED
      BY <1>1, <1>3, <2>2, <3>1
         DEF OrderStep, AcceptanceStep, Exists, Accepted
  <2> QED
    BY <2>1, <2>2
<1>12. AcceptanceClosesRequest'
  <2> SUFFICES ASSUME NEW v \in WorkOrders, wo'[v].status \in Accepted,
                      wo'[v].request # None, ~wo'[v].revived
               PROVE  req'[wo'[v].request].status \in {"CLOSED", "REJECTED"}
    BY DEF AcceptanceClosesRequest
  <2>1. v # w /\ wo'[v] = wo[v]
    BY <1>1, <1>2 DEF IInv, TypeOK, Accepted
  <2>2. wo[v].request \in Requests /\ v \in OrdersOf(wo[v].request, wo)
    BY <2>1, RowFacts DEF IInv, OrdersOf
  <2>3. wo[v].request # t.r
    BY <2>1, <2>2
  <2> QED
    BY <1>4, <2>1, <2>2, <2>3 DEF IInv, AcceptanceClosesRequest
<1>13. \A x \in open' : Arguments(x) /\ Trails(x)'
  BY <1>5, <1>10, <1>11, TrailsStep
<1> QED
  BY <1>5, <1>6, <1>7, <1>8, <1>9, <1>12, <1>13 DEF IInv, Arguments

LEMMA CommitApproveIInv ==
  ASSUME IInv, NEW t \in open, CommitApprove(t) PROVE IInv'
<1>1. t.r \in Requests /\ t.to \in {"PENDING", "ASSIGNED"}
  BY OpenFacts DEF CommitApprove, Arguments
<1>2. eq' \in [Equipment -> EquipmentStatuses]
  BY RecalculatedType
     DEF IInv, TypeOK, CommitApprove, InsertOrder, NewOrder, Recalculate
<1>3. open' = open \ {t} /\ (t.r # None => OrdersOf(t.r, wo) = {})
  BY DEF CommitApprove, InsertOrder, Finish
<1>4. req' \in [Requests -> RequestRows] /\ ApprovedAtMost(t.r)
  <2> DEFINE row == [req[t.r] EXCEPT !.status = "APPROVED"]
  <2>1. /\ row \in RequestRows /\ row.version = req[t.r].version
        /\ row.equipment = req[t.r].equipment /\ row.status = "APPROVED"
    BY <1>1, OpenFacts DEF RequestRows, RequestStatuses
  <2>2. req' = [req EXCEPT ![t.r] = row]
    BY DEF CommitApprove
  <2> HIDE DEF row
  <2> QED
    BY <1>1, <2>1, <2>2 DEF IInv, TypeOK, ApprovedAtMost
<1>5. PICK w \in WorkOrders :
        /\ ~Exists(wo[w])
        /\ wo' = [wo EXCEPT ![w] = [status |-> t.to, version |-> 1,
                                    equipment |-> t.e, urgent |-> t.urgent,
                                    request |-> t.r,
                                    classified |-> t.classified,
                                    revived |-> FALSE]]
  BY DEF CommitApprove, InsertOrder, NewOrder, Unused
<1> QED
  BY <1>1, <1>2, <1>3, <1>4, <1>5, InsertIInv

LEMMA CommitCreateOrderIInv ==
  ASSUME IInv, NEW t \in open, CommitCreateOrder(t) PROVE IInv'
<1>1. t.to \in {"PENDING", "ASSIGNED"}
  BY OpenFacts DEF CommitCreateOrder, Arguments
<1>2. eq' \in [Equipment -> EquipmentStatuses]
  BY RecalculatedType
     DEF IInv, TypeOK, CommitCreateOrder, InsertOrder, NewOrder, Recalculate
<1>3. open' = open \ {t} /\ (t.r # None => OrdersOf(t.r, wo) = {})
  BY DEF CommitCreateOrder, InsertOrder, Finish
<1>4. req' \in [Requests -> RequestRows] /\ ApprovedAtMost(t.r)
  BY DEF IInv, TypeOK, CommitCreateOrder, ApprovedAtMost
<1> QED
  BY <1>1, <1>2, <1>3, <1>4, InsertIInv
     DEF CommitCreateOrder, InsertOrder, NewOrder, Unused

\* cancelRequest cancels no accepted order: the version of the request says
\* that none of the orders it read was accepted in the meantime.
LEMMA CommitCancelRequestIInv ==
  ASSUME IInv, NEW t \in open, CommitCancelRequest(t) PROVE IInv'
<1> DEFINE row == Moved(req[t.r], "CANCELLED")
<1>1. t.r \in Requests
  BY OpenFacts DEF CommitCancelRequest, Arguments
<1>2. /\ row \in RequestRows /\ req[t.r].version <= row.version
      /\ row.equipment = req[t.r].equipment /\ row.status = "CANCELLED"
  BY <1>1, OpenFacts, MovedRequest DEF RequestStatuses
<1>3. req' = [req EXCEPT ![t.r] = row]
  BY DEF CommitCancelRequest, SetRequest
<1> HIDE DEF row
<1>4. eq' \in [Equipment -> EquipmentStatuses] /\ open' = open \ {t}
  BY RecalculatedType
     DEF IInv, TypeOK, CommitCancelRequest, Recalculate, Finish
<1>5. ASSUME NEW w \in CascadeOf(t)
      PROVE  /\ w \in WorkOrders
             /\ Exists(wo[w]) /\ wo[w].request = t.r
             /\ wo[w].status \in Accepted => wo[w].revived
             /\ wo'[w] = Moved(wo[w], "CANCELLED")
  <2>1. w \in WorkOrders /\ t.wo[w].request = t.r /\ Exists(t.wo[w])
    BY DEF CascadeOf, OrdersOf, Unfinished, Working, Exists
  <2>2. Exists(wo[w]) /\ wo[w].request = t.r
    BY <2>1, OpenFacts DEF Trails, OrderTrail
  <2>3. wo[w].status \in Accepted => wo[w].revived
    BY <2>1, <2>2, StillUnaccepted DEF CommitCancelRequest, Decisions, OrdersOf
  <2> QED
    BY <2>1, <2>2, <2>3 DEF CommitCancelRequest
<1>6. \A w \in WorkOrders :
        \/ wo'[w] = wo[w]
        \/ /\ wo'[w] \in OrderRows
           /\ wo[w].version < wo'[w].version
           /\ Exists(wo[w]) /\ wo[w].request = t.r
           /\ wo[w].status \in Accepted => wo[w].revived
           /\ wo'[w].status = "CANCELLED"
           /\ wo'[w].revived = wo[w].revived
           /\ wo'[w].request = wo[w].request
           /\ wo'[w].equipment = wo[w].equipment
  <2> SUFFICES ASSUME NEW w \in WorkOrders, w \in CascadeOf(t)
               PROVE  /\ wo'[w] \in OrderRows
                      /\ wo[w].version < wo'[w].version
                      /\ Exists(wo[w]) /\ wo[w].request = t.r
                      /\ wo[w].status \in Accepted => wo[w].revived
                      /\ wo'[w].status = "CANCELLED"
                      /\ wo'[w].revived = wo[w].revived
                      /\ wo'[w].request = wo[w].request
                      /\ wo'[w].equipment = wo[w].equipment
    BY DEF CommitCancelRequest
  <2> QED
    BY <1>5, RowFacts, MovedOrder DEF IInv, OrderStatuses
<1>7. wo' \in [WorkOrders -> OrderRows]
  BY <1>6, RowFacts DEF IInv, CommitCancelRequest
<1>8. TypeOK'
  BY <1>1, <1>2, <1>3, <1>4, <1>7 DEF IInv, TypeOK
<1>9. RowsWellFormed' /\ OneOrderPerRequest'
  BY <1>1, <1>2, <1>3, <1>6, OpenFacts
     DEF IInv, TypeOK, RowsWellFormed, OneOrderPerRequest, Exists
<1>10. \A r \in Requests : OrdersOf(r, wo') = OrdersOf(r, wo)
  BY <1>6 DEF OrdersOf
<1>11. ClosedRequestHasAcceptedOrder'
  <2> SUFFICES ASSUME NEW r \in Requests, req'[r].status = "CLOSED"
               PROVE  \E v \in OrdersOf(r, wo) : Settled(wo'[v])
    BY <1>10 DEF ClosedRequestHasAcceptedOrder, Settled
  <2>1. r # t.r /\ req[r].status = "CLOSED"
    BY <1>1, <1>2, <1>3 DEF IInv, TypeOK
  <2>2. PICK v \in OrdersOf(r, wo) : Settled(wo[v])
    BY <2>1 DEF IInv, ClosedRequestHasAcceptedOrder, Settled
  <2> QED
    BY <1>6, <2>1, <2>2 DEF OrdersOf
<1>12. ApprovedRequestHasOneOrder'
  BY <1>1, <1>2, <1>3, <1>10 DEF IInv, TypeOK, ApprovedRequestHasOneOrder
<1>13. \A r \in Requests : RequestMove(r)
  BY <1>1, <1>2, <1>3, RowFacts DEF IInv, TypeOK, RequestMove, Exists
<1>14. \A w \in WorkOrders : OrderStep(w) /\ AcceptanceStep(w)
  BY <1>6 DEF OrderStep, AcceptanceStep, Settled, Exists, Accepted
<1>15. AcceptanceClosesRequest'
  <2> SUFFICES ASSUME NEW v \in WorkOrders, wo'[v].status \in Accepted,
                      wo'[v].request # None, ~wo'[v].revived
               PROVE  req'[wo'[v].request].status \in {"CLOSED", "REJECTED"}
    BY DEF AcceptanceClosesRequest
  <2>1. wo'[v] = wo[v]
    BY <1>6 DEF Accepted
  <2>2. wo[v].request \in Requests
    BY <2>1, RowFacts DEF IInv
  <2>3. wo[v].request # t.r
    BY <2>1, StillUnaccepted DEF CommitCancelRequest, Decisions, OrdersOf
  <2> QED
    BY <1>1, <1>3, <2>1, <2>2, <2>3 DEF IInv, TypeOK, AcceptanceClosesRequest
<1>16. \A x \in open' : Arguments(x) /\ Trails(x)'
  BY <1>4, <1>8, <1>13, <1>14, TrailsStep
<1> QED
  BY <1>8, <1>9, <1>11, <1>12, <1>15, <1>16 DEF IInv, Arguments

\* The order a status change writes is the one its checks saw, but for a
\* clock-in; when it was not revived, the change is in the table, or one that
\* clock-ins add to it.
LEMMA UpdateFacts ==
  ASSUME IInv, NEW t \in open, CommitUpdate(t)
  PROVE  /\ t.w \in WorkOrders
         /\ wo[t.w] \in OrderRows
         /\ t.to \in OrderStatuses
         /\ SameButClockedIn(t.wo[t.w], wo[t.w])
         /\ ~wo[t.w].revived =>
              \/ CanTransition(wo[t.w].status, t.to)
              \/ ClockInTransition(wo[t.w].status, t.to)
         /\ t.r = wo[t.w].request
         /\ t.r \in Requests \cup {None}
         /\ Exists(wo[t.w])
         /\ wo[t.w].equipment \in Equipment
<1>1. /\ t.w \in WorkOrders
      /\ CanTransition(t.wo[t.w].status, t.to)
      /\ t.r = t.wo[t.w].request
  BY OpenFacts DEF CommitUpdate, Arguments
<1>2. /\ SameButClockedIn(t.wo[t.w], wo[t.w])
      /\ Exists(t.wo[t.w]) => Exists(wo[t.w])
                              /\ wo[t.w].request = t.wo[t.w].request
  BY <1>1, OpenFacts DEF CommitUpdate, OrderUnmoved, Trails, OrderTrail
<1>3. Exists(wo[t.w]) /\ wo[t.w].request = t.r
  BY <1>1, <1>2, TransitionFacts DEF Exists, OrderStatuses
<1>4. t.wo[t.w] \in OrderRows /\ wo[t.w] \in OrderRows
  BY <1>1, OpenFacts, RowFacts DEF Transactions, IInv
<1>5. ASSUME ~wo[t.w].revived
      PROVE  \/ CanTransition(wo[t.w].status, t.to)
             \/ ClockInTransition(wo[t.w].status, t.to)
  <2>1. CASE wo[t.w] = t.wo[t.w]
    BY <1>1, <2>1
  <2>2. CASE wo[t.w] # t.wo[t.w]
    <3>1. wo[t.w].status = "IN_PROGRESS" /\ t.wo[t.w].status \in Startable
      BY <1>2, <1>4, <1>5, <2>2 DEF SameButClockedIn, OrderRows
    <3> QED
      BY <1>1, <3>1 DEF Startable, CanTransition, ClockInTransition
  <2> QED
    BY <2>1, <2>2
<1> QED
  BY <1>1, <1>2, <1>3, <1>4, <1>5, RowFacts, TransitionFacts
     DEF IInv, RowsWellFormed

\* What a status change writes to the order.
LEMMA UpdateOrder ==
  ASSUME IInv, NEW t \in open, CommitUpdate(t)
  PROVE  /\ wo' \in [WorkOrders -> OrderRows]
         /\ \A w \in WorkOrders : w # t.w => wo'[w] = wo[w]
         /\ wo'[t.w].status = t.to
         /\ wo[t.w].version < wo'[t.w].version
         /\ wo'[t.w].equipment = wo[t.w].equipment
         /\ wo'[t.w].request = wo[t.w].request
         /\ wo'[t.w].revived = wo[t.w].revived
<1> DEFINE moved == Moved(wo[t.w], t.to)
           row == Classified(moved, t.classified)
<1>1. /\ moved \in OrderRows /\ moved.status = t.to
      /\ wo[t.w].version < moved.version
      /\ moved.equipment = wo[t.w].equipment
      /\ moved.request = wo[t.w].request
      /\ moved.revived = wo[t.w].revived
  BY UpdateFacts, MovedOrder
<1>2. wo' = [wo EXCEPT ![t.w] = row]
  BY DEF CommitUpdate
<1> HIDE DEF moved
<1>3. t.classified \in BOOLEAN
  BY OpenFacts DEF Transactions
<1>4. /\ row \in OrderRows /\ row.status = moved.status
      /\ row.version = moved.version /\ row.equipment = moved.equipment
      /\ row.request = moved.request /\ row.revived = moved.revived
  BY <1>1, <1>3, OtherFields
<1> HIDE DEF row
<1> QED
  BY <1>1, <1>2, <1>4, UpdateFacts DEF IInv, TypeOK

\* What it writes to the request of the order.
LEMMA UpdatedRequest ==
  ASSUME IInv, NEW t \in open, CommitUpdate(t)
  PROVE  /\ req' \in [Requests -> RequestRows]
         /\ \A r \in Requests :
              \/ req'[r] = req[r] /\ ~(r = t.r /\ ClosesRequest(t))
              \/ /\ r = t.r
                 /\ ClosesRequest(t) \/ ReopensRequest(t)
                 /\ req[r].version < req'[r].version
                 /\ req[r].version <= req'[r].version
                 /\ req'[r].equipment = req[r].equipment
                 /\ Exists(req[r])
                 /\ req'[r].status = IF ClosesRequest(t) THEN "CLOSED"
                                     ELSE "APPROVED"
<1>1. CASE ClosesRequest(t)
  <2> DEFINE row == Moved(req[t.r], "CLOSED")
  <2>1. t.r \in Requests
    BY <1>1, UpdateFacts DEF ClosesRequest
  <2>2. /\ row \in RequestRows /\ row.status = "CLOSED"
        /\ req[t.r].version < row.version
        /\ req[t.r].version <= row.version
        /\ row.equipment = req[t.r].equipment
    BY <2>1, OpenFacts, MovedRequest DEF RequestStatuses
  <2>3. req' = [req EXCEPT ![t.r] = row]
    BY <1>1 DEF CommitUpdate, SetRequest
  <2> HIDE DEF row
  <2> QED
    BY <1>1, <2>1, <2>2, <2>3, OpenFacts DEF IInv, TypeOK
<1>2. CASE ~ClosesRequest(t) /\ ReopensRequest(t)
  <2> DEFINE row == Moved(req[t.r], "APPROVED")
  <2>1. t.r \in Requests
    BY <1>2, UpdateFacts DEF ReopensRequest
  <2>2. /\ row \in RequestRows /\ row.status = "APPROVED"
        /\ req[t.r].version < row.version
        /\ req[t.r].version <= row.version
        /\ row.equipment = req[t.r].equipment
    BY <2>1, OpenFacts, MovedRequest DEF RequestStatuses
  <2>3. req' = [req EXCEPT ![t.r] = row]
    BY <1>2 DEF CommitUpdate, SetRequest
  <2> HIDE DEF row
  <2> QED
    BY <1>2, <2>1, <2>2, <2>3, OpenFacts DEF IInv, TypeOK
<1>3. CASE ~ClosesRequest(t) /\ ~ReopensRequest(t)
  BY <1>3 DEF CommitUpdate, IInv, TypeOK
<1> QED
  BY <1>1, <1>2, <1>3

LEMMA CommitUpdateIInv ==
  ASSUME IInv, NEW t \in open, CommitUpdate(t) PROVE IInv'
<1>1. eq' \in [Equipment -> EquipmentStatuses] /\ open' = open \ {t}
  BY RecalculatedType DEF IInv, TypeOK, CommitUpdate, Recalculate, Finish
<1>2. TypeOK'
  BY <1>1, UpdateOrder, UpdatedRequest DEF IInv, TypeOK
<1>3. t.to # "NONE" /\ (Settled(wo[t.w]) => Settled(wo'[t.w]))
  BY UpdateFacts, UpdateOrder, TransitionFacts
     DEF OrderStatuses, Settled, ClockInTransition, Accepted
<1>4. \A r \in Requests : OrdersOf(r, wo') = OrdersOf(r, wo)
  BY UpdateFacts, UpdateOrder DEF OrdersOf
<1>5. OneOrderPerRequest'
  BY UpdateFacts, UpdateOrder DEF IInv, OneOrderPerRequest
<1>6. RowsWellFormed'
  BY <1>3, UpdateFacts, UpdateOrder, UpdatedRequest
     DEF IInv, RowsWellFormed, Exists
<1>7. ClosedRequestHasAcceptedOrder'
  <2> SUFFICES ASSUME NEW r \in Requests, req'[r].status = "CLOSED"
               PROVE  \E v \in OrdersOf(r, wo) : Settled(wo'[v])
    BY <1>4 DEF ClosedRequestHasAcceptedOrder, Settled
  <2>1. CASE r = t.r /\ ClosesRequest(t)
    BY <2>1, UpdateFacts, UpdateOrder DEF ClosesRequest, OrdersOf, Settled
  <2>2. CASE ~(r = t.r /\ ClosesRequest(t))
    <3>1. req[r].status = "CLOSED"
      BY <2>2, UpdatedRequest
    <3>2. PICK v \in OrdersOf(r, wo) : Settled(wo[v])
      BY <3>1 DEF IInv, ClosedRequestHasAcceptedOrder, Settled
    <3> QED
      BY <1>3, <3>2, UpdateFacts, UpdateOrder DEF OrdersOf
  <2> QED
    BY <2>1, <2>2
<1>8. ApprovedRequestHasOneOrder'
  <2> SUFFICES ASSUME NEW r \in Requests, req'[r].status = "APPROVED"
               PROVE  \E v \in WorkOrders : OrdersOf(r, wo) = {v}
    BY <1>4 DEF ApprovedRequestHasOneOrder
  <2>1. CASE req'[r] = req[r]
    BY <2>1 DEF IInv, ApprovedRequestHasOneOrder
  <2>2. CASE r = t.r
    <3>1. OrdersOf(r, wo) = {t.w}
      BY <2>2, UpdateFacts, NoneIsNoReference
         DEF OrdersOf, IInv, OneOrderPerRequest
    <3> QED
      BY <3>1, UpdateFacts
  <2> QED
    BY <2>1, <2>2, UpdatedRequest
<1>9. \A r \in Requests : RequestMove(r)
  BY UpdatedRequest, RowFacts DEF IInv, RequestMove, Exists
<1>10. \A w \in WorkOrders : OrderStep(w)
  BY <1>3, UpdateFacts, UpdateOrder DEF OrderStep, Exists, Settled
<1>11. ASSUME NEW w \in WorkOrders, wo'[w].status \in Accepted,
              ~wo'[w].revived, wo[w].status \notin Accepted, wo[w].request \in Requests
       PROVE  req[wo[w].request].version < req'[wo[w].request].version
  <2>1. w = t.w /\ t.to \in Accepted /\ t.r = wo[w].request
    BY <1>11, UpdateFacts, UpdateOrder
  <2>2. CASE ClosesRequest(t)
    BY <1>11, <2>1, <2>2, UpdatedRequest
  <2>3. CASE ~ClosesRequest(t)
    <3>1. req[t.r].status = "CLOSED" /\ t.r \in Requests /\ t.r # None
      BY <1>11, <2>1, <2>3, NoneIsNoReference, OpenFacts
         DEF ClosesRequest, Exists
    <3>2. PICK v \in OrdersOf(t.r, wo) : Settled(wo[v])
      BY <3>1 DEF IInv, ClosedRequestHasAcceptedOrder, Settled
    <3>3. v = w
      BY <2>1, <3>1, <3>2 DEF IInv, OneOrderPerRequest, OrdersOf
    <3> QED
      BY <1>11, <2>1, <3>2, <3>3, UpdateOrder DEF Settled
  <2> QED
    BY <2>2, <2>3
<1>12. \A w \in WorkOrders : AcceptanceStep(w)
  BY <1>11 DEF AcceptanceStep
<1>13. \A x \in open' : Arguments(x) /\ Trails(x)'
  BY <1>1, <1>2, <1>9, <1>10, <1>12, TrailsStep
<1>14. AcceptanceClosesRequest'
  <2> SUFFICES ASSUME NEW v \in WorkOrders, wo'[v].status \in Accepted,
                      wo'[v].request # None, ~wo'[v].revived
               PROVE  req'[wo'[v].request].status \in {"CLOSED", "REJECTED"}
    BY DEF AcceptanceClosesRequest
  <2>1. wo'[v].request = wo[v].request /\ wo[v].request \in Requests
    BY UpdateFacts, UpdateOrder, RowFacts DEF IInv
  <2>2. CASE v = t.w
    <3>1. t.to \in Accepted /\ t.r = wo[v].request
      BY <2>2, UpdateFacts, UpdateOrder
    <3>2. CASE ClosesRequest(t)
      BY <2>1, <3>1, <3>2, UpdatedRequest
    <3>3. CASE ~ClosesRequest(t)
      <4>1. req[t.r].status = "CLOSED" /\ ~ReopensRequest(t)
        BY <2>1, <3>1, <3>3, NoneIsNoReference, OpenFacts
           DEF ClosesRequest, ReopensRequest, Exists, Accepted
      <4> QED
        BY <2>1, <3>1, <3>3, <4>1, UpdatedRequest
    <3> QED
      BY <3>2, <3>3
  <2>3. CASE v # t.w
    <3>1. wo'[v] = wo[v] /\ wo[v].request # t.r
      BY <2>1, <2>3, UpdateFacts, UpdateOrder, NoneIsNoReference
         DEF IInv, OneOrderPerRequest
    <3> QED
      BY <2>1, <3>1, UpdatedRequest DEF IInv, AcceptanceClosesRequest
  <2> QED
    BY <2>2, <2>3
<1> QED
  BY <1>2, <1>5, <1>6, <1>7, <1>8, <1>13, <1>14 DEF IInv, Arguments

\* A clock-in takes back no acceptance unless it marks the order.
LEMMA CommitStartWorkSessionIInv ==
  ASSUME IInv, NEW t \in open, CommitStartWorkSession(t) PROVE IInv'
<1>1. t.w \in WorkOrders /\ Exists(wo[t.w]) /\ wo[t.w] \in OrderRows
  BY OpenFacts, RowFacts DEF CommitStartWorkSession, Arguments, IInv
<1> DEFINE row == ClockedIn(wo[t.w])
<1>2. /\ row \in OrderRows /\ row.status = "IN_PROGRESS"
      /\ row.equipment = wo[t.w].equipment /\ row.request = wo[t.w].request
      /\ Settled(wo[t.w]) => row.revived
  BY <1>1, ClockedInFacts DEF Settled, Accepted, Startable
<1>3. /\ wo' = [wo EXCEPT ![t.w] = row]
      /\ req' = req /\ eq' = eq /\ open' = open \ {t}
  BY DEF CommitStartWorkSession, Finish
<1>4. \A w \in WorkOrders : OrderStep(w) /\ AcceptanceStep(w)
  <2> SUFFICES ASSUME NEW w \in WorkOrders
               PROVE  OrderStep(w) /\ AcceptanceStep(w)
    OBVIOUS
  <2>1. CASE w = t.w
    BY <1>1, <1>2, <1>3, <2>1
       DEF IInv, TypeOK, OrderStep, AcceptanceStep, Accepted
  <2>2. CASE w # t.w
    BY <1>3, <2>2 DEF IInv, TypeOK, OrderStep, AcceptanceStep
  <2> QED
    BY <2>1, <2>2
<1> HIDE DEF row
<1>5. TypeOK'
  BY <1>1, <1>2, <1>3 DEF IInv, TypeOK
<1>6. RowsWellFormed' /\ OneOrderPerRequest'
  BY <1>1, <1>2, <1>3
     DEF IInv, TypeOK, RowsWellFormed, OneOrderPerRequest, Exists
<1>7. \A r \in Requests : OrdersOf(r, wo') = OrdersOf(r, wo)
  BY <1>1, <1>2, <1>3 DEF IInv, TypeOK, OrdersOf
<1>8. ApprovedRequestHasOneOrder'
  BY <1>3, <1>7 DEF IInv, ApprovedRequestHasOneOrder
<1>9. ClosedRequestHasAcceptedOrder'
  <2> SUFFICES ASSUME NEW r \in Requests, req[r].status = "CLOSED"
               PROVE  \E v \in OrdersOf(r, wo) : Settled(wo'[v])
    BY <1>3, <1>7 DEF ClosedRequestHasAcceptedOrder, Settled
  <2>1. PICK v \in OrdersOf(r, wo) : Settled(wo[v])
    BY DEF IInv, ClosedRequestHasAcceptedOrder, Settled
  <2> QED
    BY <1>1, <1>2, <1>3, <2>1 DEF IInv, TypeOK, OrdersOf, Settled
<1>10. AcceptanceClosesRequest'
  BY <1>1, <1>2, <1>3 DEF IInv, TypeOK, AcceptanceClosesRequest, Accepted
<1>11. \A r \in Requests : RequestMove(r)
  BY <1>3, RowFacts DEF IInv, RequestMove
<1>12. \A x \in open' : Arguments(x) /\ Trails(x)'
  BY <1>3, <1>4, <1>5, <1>11, TrailsStep
<1> QED
  BY <1>5, <1>6, <1>8, <1>9, <1>10, <1>12 DEF IInv, Arguments

\* Every step of the program keeps the invariant.
LEMMA NextIInv == IInv /\ [Next]_vars => IInv'
<1> SUFFICES ASSUME IInv, [Next]_vars PROVE IInv'
  OBVIOUS
<1>1. ASSUME NEW c \in Clients, RequestHandler(c) \/ OrderHandler(c)
      PROVE  IInv'
  BY <1>1, RequestHandlerIInv, OrderHandlerIInv
<1>2. ASSUME NEW t \in open, Commit(t) PROVE IInv'
  BY <1>2, CommitCreateRequestIInv, CommitApproveIInv, CommitRejectIInv,
     CommitReturnIInv, CommitResubmitIInv, CommitCancelRequestIInv,
     CommitFindOneIInv, CommitCreateOrderIInv, CommitUpdateIInv,
     CommitStartWorkSessionIInv
     DEF Commit
<1>3. ASSUME req' = req, wo' = wo, open' \subseteq open,
             eq' \in [Equipment -> EquipmentStatuses]
      PROVE  IInv'
  <2>1. TypeOK'
    BY <1>3 DEF IInv, TypeOK
  <2>2. /\ RowsWellFormed' /\ OneOrderPerRequest'
        /\ ClosedRequestHasAcceptedOrder' /\ ApprovedRequestHasOneOrder'
        /\ AcceptanceClosesRequest'
    BY <1>3 DEF IInv, RowsWellFormed, OneOrderPerRequest,
                ClosedRequestHasAcceptedOrder, ApprovedRequestHasOneOrder,
                AcceptanceClosesRequest, OrdersOf
  <2>3. \A t \in open' : Arguments(t) /\ Trails(t)'
    BY <1>3 DEF IInv, Trails, OrderTrail, AcceptanceTrail, OrdersOf
  <2> QED
    BY <2>1, <2>2, <2>3 DEF IInv, Arguments
<1>4. ASSUME NEW t \in open, Rollback(t) PROVE IInv'
  BY <1>3, <1>4 DEF Rollback, Finish, IInv, TypeOK
<1>5. ASSUME NEW e \in Equipment, NEW s \in Edits, EditEquipment(e, s)
      PROVE  IInv'
  BY <1>3, <1>5, EditsAreStatuses DEF EditEquipment, IInv, TypeOK
<1>6. CASE UNCHANGED vars
  BY <1>3, <1>6 DEF vars, IInv, TypeOK
<1> QED
  BY <1>1, <1>2, <1>4, <1>5, <1>6 DEF Next

-----------------------------------------------------------------------------
(***************************************************************************)
(* The theorems.                                                           *)
(***************************************************************************)

\* The inductive invariant holds in every reachable state: it is what every
\* transaction of RequestsService and WorkOrdersService relies on.
THEOREM Invariance == Spec => []IInv
BY InitIInv, NextIInv, PTL DEF Spec

\* Every table and every transaction keeps its type, for any number of clients.
THEOREM TypeCorrect == Spec => []TypeOK
<1>1. IInv => TypeOK
  BY DEF IInv
<1> QED
  BY <1>1, Invariance, PTL

\* What checking the version suffices for: an order whose version is the one
\* that a transaction read is the order that it read, but for a clock-in.
THEOREM VersionCheckSuffices == Spec => []VersionIdentifiesOrder
<1>1. IInv => VersionIdentifiesOrder
  BY DEF IInv, VersionIdentifiesOrder, Trails, OrderTrail
<1> QED
  BY <1>1, Invariance, PTL

\* A closed request has an accepted order, however the close, the cancellation
\* of the request and the handlers of the order interleave.
THEOREM ClosedMeansAccepted == Spec => []ClosedRequestHasAcceptedOrder
<1>1. IInv => ClosedRequestHasAcceptedOrder
  BY DEF IInv
<1> QED
  BY <1>1, Invariance, PTL

\* An approved request has exactly one order, however approve and the creation
\* of orders by hand interleave.
THEOREM ApprovedMeansOneOrder == Spec => []ApprovedRequestHasOneOrder
<1>1. IInv => ApprovedRequestHasOneOrder
  BY DEF IInv
<1> QED
  BY <1>1, Invariance, PTL

\* A request whose order was accepted is closed, or rejected by somebody who
\* had read it before its approval: no return, resubmission, cancellation or
\* approval that overlaps the acceptance takes the request out of that status.
THEOREM AcceptanceMeansClosed == Spec => []AcceptanceClosesRequest
<1>1. IInv => AcceptanceClosesRequest
  BY DEF IInv
<1> QED
  BY <1>1, Invariance, PTL

\* The first step of a handler writes nothing, and ends no transaction.
LEMMA FirstStepsReadOnly ==
  ASSUME NEW c, RequestHandler(c) \/ OrderHandler(c)
  PROVE  wo' = wo /\ open \subseteq open'
<1>1. ASSUME NEW call, Begin(c, call) PROVE wo' = wo /\ open \subseteq open'
  BY <1>1 DEF Begin
<1>2. ASSUME NEW h, NEW op, NEW w, NEW target, NEW k,
             BeginUpdate(c, h, op, w, target, k)
      PROVE  wo' = wo /\ open \subseteq open'
  BY <1>1, <1>2 DEF BeginUpdate
<1>3. CASE RequestHandler(c)
  BY <1>1, <1>3 DEF RequestHandler, CreateRequest, Approve, Reject,
                    ReturnRequest, ResubmitRequest, CancelRequest, FindOne
<1>4. CASE CreateOrder(c)
  BY <1>1, <1>4 DEF CreateOrder
<1>5. ASSUME NEW w \in WorkOrders,
             \/ Assign(c, w) \/ Classify(c, w) \/ StartWithAssessment(c, w)
             \/ Start(c, w) \/ Pause(c, w) \/ Resume(c, w) \/ Complete(c, w)
      PROVE  wo' = wo /\ open \subseteq open'
  BY <1>2, <1>5 DEF Assign, Classify, StartWithAssessment, Start, Pause,
                    Resume, Complete
<1>6. ASSUME NEW w \in WorkOrders,
             \/ Escalate(c, w) \/ SubmitHandover(c, w)
             \/ AcceptHandover(c, w) \/ SendBack(c, w) \/ Verify(c, w)
             \/ Close(c, w) \/ Cancel(c, w)
      PROVE  wo' = wo /\ open \subseteq open'
  BY <1>2, <1>6 DEF Escalate, SubmitHandover, AcceptHandover, SendBack,
                    Verify, Close, Cancel
<1>7. ASSUME NEW w \in WorkOrders, StartWorkSession(c, w)
      PROVE  wo' = wo /\ open \subseteq open'
  BY <1>1, <1>7 DEF StartWorkSession
<1> QED
  BY <1>3, <1>4, <1>5, <1>6, <1>7 DEF OrderHandler

\* A new order is written to a row that did not exist.
LEMMA InsertMoves ==
  ASSUME NEW t, NEW requests, InsertOrder(t, requests), IInv,
         NEW w \in WorkOrders, Exists(wo[w])
  PROVE  wo'[w] = wo[w]
BY DEF InsertOrder, NewOrder, Unused, IInv, TypeOK, Exists

\* What cancelRequest cancels is unfinished when it commits, or was revived.
LEMMA CascadeMoves ==
  ASSUME IInv, NEW t \in open, CommitCancelRequest(t), NEW w \in WorkOrders,
         Exists(wo[w]), wo'[w].status # wo[w].status, ~wo'[w].revived
  PROVE  CanTransition(wo[w].status, wo'[w].status)
<1>1. w \in CascadeOf(t) /\ wo'[w] = Moved(wo[w], "CANCELLED")
  BY DEF CommitCancelRequest
<1>2. wo'[w].status = "CANCELLED" /\ ~wo[w].revived
  BY <1>1, RowFacts, MovedOrder DEF IInv, OrderStatuses
<1>3. t.r \in Requests /\ t.wo[w].request = t.r
  BY <1>1, OpenFacts DEF CommitCancelRequest, Arguments, CascadeOf, OrdersOf
<1>4. wo[w].status \notin Accepted
  <2>1. Exists(t.wo[w])
    BY <1>1 DEF CascadeOf, Exists, Unfinished, Working
  <2>2. w \in OrdersOf(t.r, wo)
    BY <1>3, <2>1, OpenFacts DEF Trails, OrderTrail, OrdersOf
  <2> QED
    BY <1>2, <2>2, StillUnaccepted DEF CommitCancelRequest, Decisions
<1>5. wo[w].status \in OrderStatuses
  BY RowFacts DEF IInv, OrderRows, Exists
<1> QED
  BY <1>2, <1>4, <1>5 DEF OrderStatuses, Accepted, CanTransition

\* No interleaving of the handlers moves an order outside the table of
\* WorkOrderStateMachine, but for what clock-ins add to it, as long as the
\* order was not revived: neither cancelRequest, which cancels orders by id
\* without looking at them again, nor any late commit undoes an acceptance or
\* a cancellation.  Only a clock-in that comes too late does.
THEOREM OrdersFollowTheTable == Spec => LegalTransitions
<1> DEFINE Legal ==
      \A w \in WorkOrders :
        /\ Exists(wo[w]) /\ wo'[w].status # wo[w].status
        /\ ~wo'[w].revived
        =>
          \/ CanTransition(wo[w].status, wo'[w].status)
          \/ ClockInTransition(wo[w].status, wo'[w].status)
<1>1. IInv /\ [Next]_vars => [Legal]_wo
  <2> SUFFICES ASSUME IInv, [Next]_vars, NEW w \in WorkOrders, Exists(wo[w]),
                      wo'[w].status # wo[w].status, ~wo'[w].revived
               PROVE  \/ CanTransition(wo[w].status, wo'[w].status)
                      \/ ClockInTransition(wo[w].status, wo'[w].status)
    OBVIOUS
  <2>1. PICK t \in open : Commit(t)
    BY FirstStepsReadOnly DEF Next, Rollback, EditEquipment, vars
  <2>2. CASE CommitApprove(t) \/ CommitCreateOrder(t)
    BY <2>2, InsertMoves DEF CommitApprove, CommitCreateOrder
  <2>3. CASE CommitCancelRequest(t)
    BY <2>3, CascadeMoves
  <2>4. CASE CommitUpdate(t)
    BY <2>4, UpdateFacts, UpdateOrder
  <2>5. CASE \/ CommitCreateRequest(t) \/ CommitReject(t) \/ CommitReturn(t)
             \/ CommitResubmit(t) \/ CommitFindOne(t)
    BY <2>5 DEF CommitCreateRequest, CommitReject, CommitReturn,
                CommitResubmit, CommitFindOne
  <2>6. CASE CommitStartWorkSession(t)
    <3>1. w = t.w /\ wo'[w] = ClockedIn(wo[w]) /\ wo[w] \in OrderRows
      BY <2>6, RowFacts DEF CommitStartWorkSession, IInv, TypeOK
    <3> QED
      BY <3>1, ClockedInFacts
         DEF CanTransition, ClockInTransition, Startable
  <2> QED
    BY <2>1, <2>2, <2>3, <2>4, <2>5, <2>6 DEF Commit
<1> QED
  BY <1>1, Invariance, PTL DEF Spec, LegalTransitions

-----------------------------------------------------------------------------
(***************************************************************************)
(* The recalculation at the end of a handler.                              *)
(***************************************************************************)

\* A transaction that sees its own writes, and whose snapshot is current
\* otherwise, sees the table as it leaves it.
LEMMA SeenIsCurrent ==
  ASSUME NEW X, NEW Rows, NEW before \in [X -> Rows],
         NEW after \in [X -> Rows], NEW written,
         \A x \in X \ written : after[x] = before[x]
  PROVE  Seen(before, after, written) = after
  BY DEF Seen

\* What the recalculation writes where the transaction saw the equipment as it
\* is.
LEMMA RecalculatedRight ==
  ASSUME NEW table \in [Equipment -> EquipmentStatuses], NEW e \in Equipment,
         NEW requests, NEW orders
  PROVE  Recalculated(table, e, table, requests, orders)[e]
           \in {"DISCOMMISSIONED", DerivedStatus(e, requests, orders)}
  BY DEF Recalculated

\* The equipment of a transaction has the status the rows call for.
Right(t) == eq'[t.e] \in {"DISCOMMISSIONED", DerivedStatus(t.e, req', wo')}

LEMMA RightAfter ==
  ASSUME IInv, NEW t \in open, Undisturbed(t), NEW requests, NEW orders,
         Recalculate(t, requests, orders), requests = req', orders = wo'
  PROVE  Right(t)
<1>1. t.e \in Equipment /\ t.eq = eq /\ eq \in [Equipment -> EquipmentStatuses]
  BY OpenFacts DEF IInv, TypeOK, Undisturbed
<1>2. eq' = Recalculated(eq, t.e, eq, req', wo')
  BY <1>1 DEF Recalculate
<1>3. Recalculated(eq, t.e, eq, req', wo')[t.e]
        \in {"DISCOMMISSIONED", DerivedStatus(t.e, req', wo')}
  BY <1>1, RecalculatedRight
<1> QED
  BY <1>2, <1>3 DEF Right

\* The handlers that write one request and no order.
LEMMA RequestRight ==
  ASSUME IInv, IInv', NEW t \in open, Undisturbed(t), NEW r \in Requests,
         NEW row, req' = [req EXCEPT ![r] = row], wo' = wo,
         Recalculate(t, Seen(t.req, req', {r}), t.wo)
  PROVE  Right(t)
<1>1. /\ t.req \in [Requests -> RequestRows] /\ req' \in [Requests -> RequestRows]
      /\ t.req = req /\ t.wo = wo'
  BY DEF IInv, TypeOK, Undisturbed
<1>2. \A q \in Requests \ {r} : req'[q] = t.req[q]
  BY <1>1
<1>3. Seen(t.req, req', {r}) = req'
  BY <1>1, <1>2 DEF Seen
<1> QED
  BY <1>1, <1>3, RightAfter

\* The handlers that insert an order.
LEMMA InsertRight ==
  ASSUME IInv, IInv', NEW t \in open, Undisturbed(t), NEW requests,
         requests = req', InsertOrder(t, requests)
  PROVE  Right(t)
<1>1. PICK w \in WorkOrders :
        /\ wo' = [wo EXCEPT ![w] = [status |-> t.to, version |-> 1,
                                    equipment |-> t.e, urgent |-> t.urgent,
                                    request |-> t.r,
                                    classified |-> t.classified,
                                    revived |-> FALSE]]
        /\ Recalculate(t, requests, Seen(t.wo, wo', {w}))
  BY DEF InsertOrder, NewOrder
<1>2. /\ t.wo \in [WorkOrders -> OrderRows] /\ wo' \in [WorkOrders -> OrderRows]
      /\ t.wo = wo
  BY DEF IInv, TypeOK, Undisturbed
<1>3. \A v \in WorkOrders \ {w} : wo'[v] = t.wo[v]
  BY <1>1, <1>2
<1>4. Seen(t.wo, wo', {w}) = wo'
  BY <1>2, <1>3, SeenIsCurrent
<1> QED
  BY <1>1, <1>4, RightAfter

LEMMA ApproveRight ==
  ASSUME IInv, IInv', NEW t \in open, Undisturbed(t), CommitApprove(t)
  PROVE  Right(t)
<1>1. /\ t.req \in [Requests -> RequestRows] /\ req' \in [Requests -> RequestRows]
      /\ t.req = req
  BY DEF IInv, TypeOK, Undisturbed
<1>2. \A q \in Requests \ {t.r} : req'[q] = t.req[q]
  BY <1>1 DEF CommitApprove
<1>3. Seen(t.req, req', {t.r}) = req'
  BY <1>1, <1>2, SeenIsCurrent
<1> QED
  BY <1>3, InsertRight DEF CommitApprove

LEMMA CancelRequestRight ==
  ASSUME IInv, IInv', NEW t \in open, Undisturbed(t), CommitCancelRequest(t)
  PROVE  Right(t)
<1>1. /\ t.req \in [Requests -> RequestRows] /\ req' \in [Requests -> RequestRows]
      /\ t.wo \in [WorkOrders -> OrderRows] /\ wo' \in [WorkOrders -> OrderRows]
      /\ t.req = req /\ t.wo = wo
  BY DEF IInv, TypeOK, Undisturbed
<1>2. /\ \A q \in Requests \ {t.r} : req'[q] = t.req[q]
      /\ \A w \in WorkOrders \ CascadeOf(t) : wo'[w] = t.wo[w]
  BY <1>1 DEF CommitCancelRequest, SetRequest
<1>3. Seen(t.req, req', {t.r}) = req'
  BY <1>1, <1>2, SeenIsCurrent
<1>4. Seen(t.wo, wo', CascadeOf(t)) = wo'
  BY <1>1, <1>2 DEF Seen
<1> QED
  BY <1>3, <1>4, RightAfter DEF CommitCancelRequest

LEMMA UpdateRight ==
  ASSUME IInv, IInv', NEW t \in open, Undisturbed(t), CommitUpdate(t)
  PROVE  Right(t)
<1> DEFINE touched ==
      IF ClosesRequest(t) \/ ReopensRequest(t) \/ t.op = "ASSESS"
      THEN {t.r} ELSE {}
<1>1. /\ t.req \in [Requests -> RequestRows] /\ req' \in [Requests -> RequestRows]
      /\ t.wo \in [WorkOrders -> OrderRows] /\ wo' \in [WorkOrders -> OrderRows]
      /\ t.req = req /\ t.wo = wo
  BY DEF IInv, TypeOK, Undisturbed
<1>2. \A w \in WorkOrders \ {t.w} : wo'[w] = t.wo[w]
  BY <1>1, UpdateOrder
<1>3. \A q \in Requests \ touched : req'[q] = t.req[q]
  BY <1>1, UpdatedRequest
<1>4. Recalculate(t, Seen(t.req, req', touched), Seen(t.wo, wo', {t.w}))
  BY DEF CommitUpdate
<1> HIDE DEF touched
<1>5. Seen(t.req, req', touched) = req'
  BY <1>1, <1>3, SeenIsCurrent
<1>6. Seen(t.wo, wo', {t.w}) = wo'
  BY <1>1, <1>2, SeenIsCurrent
<1> QED
  BY <1>4, <1>5, <1>6, RightAfter

LEMMA CommitRight ==
  ASSUME IInv, IInv', NEW t \in open, Undisturbed(t), Commit(t),
         t.op \notin {"FIND_ONE", "START_SESSION"}
  PROVE  Right(t)
<1>1. CASE CommitCreateRequest(t)
  <2>1. PICK r \in Requests :
          /\ req' = [req EXCEPT ![r] = [status |-> "PENDING", version |-> 1,
                                        equipment |-> t.e,
                                        urgent |-> t.urgent]]
          /\ Recalculate(t, Seen(t.req, req', {r}), t.wo)
    BY <1>1 DEF CommitCreateRequest
  <2> QED
    BY <1>1, <2>1, RequestRight DEF CommitCreateRequest
<1>2. CASE CommitReject(t) \/ CommitReturn(t) \/ CommitResubmit(t)
  <2>1. t.r \in Requests
    BY <1>2, OpenFacts DEF Arguments, CommitReject, CommitReturn, CommitResubmit
  <2>2. PICK row : req' = [req EXCEPT ![t.r] = row]
    BY <1>2 DEF CommitReject, CommitReturn, CommitResubmit, SetRequest
  <2>3. wo' = wo /\ Recalculate(t, Seen(t.req, req', {t.r}), t.wo)
    BY <1>2 DEF CommitReject, CommitReturn, CommitResubmit
  <2> QED
    BY <2>1, <2>2, <2>3, RequestRight
<1>3. CASE CommitCreateOrder(t)
  BY <1>3, InsertRight DEF CommitCreateOrder, Undisturbed
<1> QED
  BY <1>1, <1>2, <1>3, ApproveRight, CancelRequestRight, UpdateRight
     DEF Commit, CommitFindOne, CommitStartWorkSession

\* A handler that overlapped no other leaves its equipment with the status that
\* the requests and orders call for: the recalculation at its end sees every row
\* it has written, the request that it closes or reopens included.
THEOREM RecalculationIsRight == Spec => UndisturbedRecalculationIsRight
<1> DEFINE Sound ==
      \A t \in open \ open' :
        /\ t.op \notin {"FIND_ONE", "START_SESSION"}
        /\ Undisturbed(t)
        /\ req' # req \/ wo' # wo
        => eq'[t.e] \in {"DISCOMMISSIONED", DerivedStatus(t.e, req', wo')}
<1>1. IInv /\ IInv' /\ [Next]_vars => [Sound]_vars
  <2> SUFFICES ASSUME IInv, IInv', [Next]_vars, NEW t \in open \ open',
                      t.op \notin {"FIND_ONE", "START_SESSION"},
                      Undisturbed(t), req' # req \/ wo' # wo
               PROVE  eq'[t.e]
                        \in {"DISCOMMISSIONED", DerivedStatus(t.e, req', wo')}
    OBVIOUS
  <2>1. ASSUME NEW c \in Clients, RequestHandler(c) \/ OrderHandler(c)
        PROVE  FALSE
    BY <2>1, FirstStepsReadOnly
  <2>2. PICK x \in open : Commit(x) /\ open' = open \ {x}
    BY <2>1 DEF Next, Rollback, EditEquipment, vars, Commit, Finish,
                CommitCreateRequest, CommitApprove, CommitReject, CommitReturn,
                CommitResubmit, CommitCancelRequest, CommitFindOne,
                CommitCreateOrder, CommitUpdate, CommitStartWorkSession
  <2>3. x = t
    BY <2>2
  <2> QED
    BY <2>2, <2>3, CommitRight DEF Right
<1> QED
  BY <1>1, Invariance, PTL DEF Spec, UndisturbedRecalculationIsRight

-----------------------------------------------------------------------------
(***************************************************************************)
(* The handlers and the deletions of administrators.                       *)
(***************************************************************************)

\* What a transaction in flight carries; a recalculation writes no equipment
\* to a row.
Carries(t) ==
  /\ {"client", "op", "r", "e", "to", "urgent", "classified"} \subseteq DOMAIN t
  /\ t.client \in Clients
  /\ t.r \in Requests \cup {None}
  /\ t.op \notin Unprotected => t.e \in Equipment \cup {None}
  /\ t.to \in OrderStatuses \cup {"NONE"}
  /\ t.urgent \in BOOLEAN
  /\ t.classified \in BOOLEAN

Tables ==
  /\ req \in [Requests -> RequestRows]
  /\ wo \in [WorkOrders -> OrderRows]

\* The request that an approval has locked is there.
Holds(t) == t.op = "APPROVE" => t.r \in Requests /\ Exists(req[t.r])

AdminInv ==
  /\ Tables
  /\ \A t \in open : Carries(t) /\ Holds(t)
  /\ \A t, u \in open : t.client = u.client => t = u
  /\ LinkedRequestsExist

LEMMA InitInv == AdminInit => AdminInv
BY DEF AdminInit, Init, AdminInv, Tables, LinkedRequestsExist, NoRequestRow,
       NoOrderRow, RequestRows, OrderRows

-----------------------------------------------------------------------------
(***************************************************************************)
(* What every step but a deletion has in common.                           *)
(***************************************************************************)

\* No request ceases to exist, and a link is kept, cut, or leads to a request
\* that exists.
Grows ==
  /\ Tables'
  /\ \A r \in Requests : Exists(req[r]) => Exists(req'[r])
  /\ \A w \in WorkOrders :
       wo'[w].request # None =>
         \/ wo'[w].request = wo[w].request
         \/ Exists(req'[wo'[w].request])

LEMMA GrowingKeeps ==
  ASSUME AdminInv, Grows, open' \subseteq open PROVE AdminInv'
<1>1. LinkedRequestsExist'
  <2> SUFFICES ASSUME NEW w \in WorkOrders, wo'[w].request # None
               PROVE  Exists(req'[wo'[w].request])
    BY DEF LinkedRequestsExist, Exists
  <2>1. CASE wo'[w].request = wo[w].request
    <3>1. wo[w].request \in Requests /\ Exists(req[wo[w].request])
      BY <2>1 DEF AdminInv, Tables, LinkedRequestsExist, OrderRows
    <3> QED
      BY <2>1, <3>1 DEF Grows
  <2> QED
    BY <2>1 DEF Grows
<1>2. \A t \in open' : Carries(t) /\ Holds(t)'
  BY DEF AdminInv, Grows, Holds, Exists
<1> QED
  BY <1>1, <1>2 DEF AdminInv, Grows, Carries

\* A step that reads, and puts what it has read in the place of its client's
\* transaction, or starts one.
LEMMA ReadingKeeps ==
  ASSUME AdminInv, NEW others, others \subseteq open, NEW u,
         open' = others \cup {u}, UNCHANGED <<req, wo>>,
         Carries(u), Holds(u), \A t \in others : t.client # u.client
  PROVE  AdminInv'
<1>1. \A t \in open' : Carries(t) /\ Holds(t)'
  BY DEF AdminInv, Holds, Exists
<1>2. \A t, v \in open' : t.client = v.client => t = v
  BY DEF AdminInv
<1> QED
  BY <1>1, <1>2 DEF AdminInv, Tables, LinkedRequestsExist, Carries, Exists

LEMMA BeginKeeps ==
  ASSUME AdminInv, NEW c \in Clients, NEW op, NEW r \in Requests \cup {None},
         NEW w, NEW e, op \notin Unprotected => e \in Equipment \cup {None},
         NEW to \in OrderStatuses \cup {"NONE"}, NEW u \in BOOLEAN,
         NEW k \in BOOLEAN, op = "APPROVE" => r \in Requests /\ Exists(req[r]),
         Begin(c, Call(c, op, r, w, e, to, u, k))
  PROVE  AdminInv'
<1> DEFINE call == Call(c, op, r, w, e, to, u, k)
<1>1. Carries(call) /\ Holds(call) /\ call.client = c
  BY DEF Call, Carries, Holds
<1>2. /\ open' = open \cup {call} /\ UNCHANGED <<req, wo>>
      /\ \A t \in open : t.client # c
  BY DEF Begin
<1> HIDE DEF call
<1> QED
  BY <1>1, <1>2, ReadingKeeps

-----------------------------------------------------------------------------
(***************************************************************************)
(* The rows keep their types under what the handlers write to them.        *)
(***************************************************************************)

LEMMA RequestRowFacts ==
  ASSUME NEW row \in RequestRows, NEW s \in RequestStatuses
  PROVE  /\ [row EXCEPT !.status = s] \in RequestRows
         /\ Exists([row EXCEPT !.status = s])
         /\ Moved(row, s) \in RequestRows /\ Exists(Moved(row, s))
<1> DEFINE y == [row EXCEPT !.status = s]
<1>1. y \in RequestRows /\ y.status = s /\ s # "NONE"
  BY DEF RequestRows, RequestStatuses
<1>2. Moved(row, s) = NextVersion(y)
  BY DEF Moved
<1> HIDE DEF y
<1>3. NextVersion(y) \in RequestRows /\ NextVersion(y).status = s
  BY <1>1 DEF NextVersion, RequestRows
<1> QED
  BY <1>1, <1>2, <1>3 DEF Exists, y

\* What resubmitting and editing write beside the status.
LEMMA RequestFieldFacts ==
  ASSUME NEW row \in RequestRows, NEW u \in BOOLEAN,
         NEW e \in Equipment \cup {None}
  PROVE  /\ [row EXCEPT !.urgent = u] \in RequestRows
         /\ [row EXCEPT !.urgent = u].status = row.status
         /\ [row EXCEPT !.equipment = e, !.urgent = u] \in RequestRows
         /\ [row EXCEPT !.equipment = e, !.urgent = u].status = row.status
         /\ NextVersion(row) \in RequestRows
         /\ NextVersion(row).status = row.status
<1>1. /\ [row EXCEPT !.urgent = u] \in RequestRows
      /\ [row EXCEPT !.urgent = u].status = row.status
  BY DEF RequestRows
<1>2. /\ [row EXCEPT !.equipment = e, !.urgent = u] \in RequestRows
      /\ [row EXCEPT !.equipment = e, !.urgent = u].status = row.status
  BY DEF RequestRows
<1>3. NextVersion(row) \in RequestRows /\ NextVersion(row).status = row.status
  BY DEF RequestRows, NextVersion
<1> QED
  BY <1>1, <1>2, <1>3

LEMMA OrderRowFacts ==
  ASSUME NEW row \in OrderRows, NEW s \in OrderStatuses \cup {"NONE"},
         NEW k \in BOOLEAN
  PROVE  /\ Moved(row, s) \in OrderRows
         /\ Moved(row, s).request = row.request
         /\ Classified(row, k) \in OrderRows
         /\ Classified(row, k).request = row.request
<1> DEFINE y == [row EXCEPT !.status = s]
<1>1. y \in OrderRows /\ y.request = row.request
  BY DEF OrderRows
<1>2. Moved(row, s) = NextVersion(y)
  BY DEF Moved
<1> HIDE DEF y
<1>3. NextVersion(y) \in OrderRows /\ NextVersion(y).request = y.request
  BY <1>1 DEF NextVersion, OrderRows
<1>4. Classified(row, k) \in OrderRows /\ Classified(row, k).request = row.request
  BY DEF Classified, OrderRows
<1> QED
  BY <1>1, <1>2, <1>3, <1>4

\* A write to one request that leaves it there.
LEMMA RequestWrite ==
  ASSUME AdminInv, NEW r, NEW row,
         r \in Requests => row \in RequestRows /\ Exists(row),
         req' = [req EXCEPT ![r] = row]
  PROVE  /\ req' \in [Requests -> RequestRows]
         /\ \A q \in Requests : Exists(req[q]) => Exists(req'[q])
BY DEF AdminInv, Tables, Exists

\* A write that touches no order.
LEMMA RequestStep ==
  ASSUME AdminInv, wo' = wo, open' \subseteq open,
         req' \in [Requests -> RequestRows],
         \A q \in Requests : Exists(req[q]) => Exists(req'[q])
  PROVE  AdminInv'
<1>1. Grows
  BY DEF AdminInv, Tables, Grows
<1> QED
  BY <1>1, GrowingKeeps

\* The insertion of an order whose request is there.
LEMMA InsertStep ==
  ASSUME AdminInv, NEW t \in open, t.op \in {"APPROVE", "CREATE_ORDER"},
         NEW requests, NewOrder(t, requests),
         open' \subseteq open, req' \in [Requests -> RequestRows],
         \A q \in Requests : Exists(req[q]) => Exists(req'[q]),
         t.r # None => Exists(req'[t.r])
  PROVE  AdminInv'
<1>1. PICK w \in WorkOrders :
        wo' = [wo EXCEPT ![w] = [status |-> t.to, version |-> 1,
                                 equipment |-> t.e, urgent |-> t.urgent,
                                 request |-> t.r, classified |-> t.classified,
                                 revived |-> FALSE]]
  BY DEF NewOrder
<1> DEFINE row == [status |-> t.to, version |-> 1, equipment |-> t.e,
                   urgent |-> t.urgent, request |-> t.r,
                   classified |-> t.classified, revived |-> FALSE]
<1>2. row \in OrderRows /\ row.request = t.r
  BY DEF AdminInv, Carries, OrderRows, Unprotected
<1>3. wo' = [wo EXCEPT ![w] = row]
  BY <1>1
<1> HIDE DEF row
<1>4. Grows
  BY <1>2, <1>3 DEF AdminInv, Tables, Grows
<1> QED
  BY <1>4, GrowingKeeps

-----------------------------------------------------------------------------
(***************************************************************************)
(* The steps of Maintenance.                                               *)
(***************************************************************************)

LEMMA BeginUpdateKeeps ==
  ASSUME AdminInv, NEW c \in Clients, NEW w \in WorkOrders, NEW h,
         NEW op \in {"UPDATE_STATUS", "ASSESS"}, NEW to, NEW k \in BOOLEAN,
         BeginUpdate(c, h, op, w, to, k)
  PROVE  AdminInv'
<1>1. to \in OrderStatuses
  BY DEF BeginUpdate, CanTransition, OrderStatuses
<1>2. /\ wo[w].request \in Requests \cup {None}
      /\ wo[w].equipment \in Equipment \cup {None}
  BY DEF AdminInv, Tables, OrderRows
<1> QED
  BY <1>1, <1>2, BeginKeeps DEF BeginUpdate

LEMMA RequestHandlerKeeps ==
  ASSUME AdminInv, NEW c \in Clients, RequestHandler(c) PROVE AdminInv'
<1>1. CASE CreateRequest(c)
  BY <1>1, BeginKeeps, UrgencyIsAFlag DEF CreateRequest
<1>2. ASSUME NEW r \in Requests, Approve(c, r) PROVE AdminInv'
  <2>1. /\ req[r].equipment \in Equipment \cup {None}
        /\ req[r].urgent \in BOOLEAN /\ Exists(req[r])
    BY <1>2 DEF AdminInv, Tables, RequestRows, Approve, Exists
  <2>2. PICK s \in {"PENDING", "ASSIGNED"} :
          Begin(c, Call(c, "APPROVE", r, None, req[r].equipment, s,
                        req[r].urgent, TRUE))
    BY <1>2 DEF Approve
  <2>3. s \in OrderStatuses \cup {"NONE"}
    BY DEF OrderStatuses
  <2> QED
    BY <2>1, <2>2, <2>3, BeginKeeps
<1>3. ASSUME NEW r \in Requests,
             \/ Reject(c, r) \/ ReturnRequest(c, r) \/ ResubmitRequest(c, r)
             \/ CancelRequest(c, r) \/ FindOne(c, r)
      PROVE  AdminInv'
  <2>1. req[r].equipment \in Equipment \cup {None}
    BY DEF AdminInv, Tables, RequestRows
  <2> QED
    BY <1>3, <2>1, BeginKeeps, UrgencyIsAFlag
       DEF Reject, ReturnRequest, ResubmitRequest, CancelRequest, FindOne,
           RequestCall
<1> QED
  BY <1>1, <1>2, <1>3 DEF RequestHandler

LEMMA OrderHandlerKeeps ==
  ASSUME AdminInv, NEW c \in Clients, OrderHandler(c) PROVE AdminInv'
<1>1. CASE CreateOrder(c)
  <2>1. PICK e \in Equipment, u \in Urgencies, k \in BOOLEAN,
             s \in {"PENDING", "ASSIGNED"},
             r \in {q \in Requests : Exists(req[q]) /\ "linkOrder" \in Handlers}
                    \cup {None} :
          Begin(c, Call(c, "CREATE_ORDER", r, None, e, s, u, k))
    BY <1>1 DEF CreateOrder
  <2>2. s \in OrderStatuses \cup {"NONE"} /\ u \in BOOLEAN
    BY UrgencyIsAFlag DEF OrderStatuses
  <2> QED
    BY <2>1, <2>2, BeginKeeps
<1>2. ASSUME NEW w \in WorkOrders,
             \/ Assign(c, w) \/ Classify(c, w) \/ StartWithAssessment(c, w)
             \/ Start(c, w) \/ Pause(c, w) \/ Resume(c, w) \/ Complete(c, w)
      PROVE  AdminInv'
  BY <1>2, BeginUpdateKeeps
     DEF Assign, Classify, StartWithAssessment, Start, Pause, Resume, Complete
<1>3. ASSUME NEW w \in WorkOrders,
             \/ Escalate(c, w) \/ SubmitHandover(c, w) \/ AcceptHandover(c, w)
             \/ SendBack(c, w) \/ Verify(c, w) \/ Close(c, w) \/ Cancel(c, w)
      PROVE  AdminInv'
  BY <1>3, BeginUpdateKeeps
     DEF Escalate, SubmitHandover, AcceptHandover, SendBack, Verify, Close,
         Cancel
<1>4. ASSUME NEW w \in WorkOrders, StartWorkSession(c, w) PROVE AdminInv'
  <2>1. /\ Begin(c, Call(c, "START_SESSION", None, w, wo[w].equipment,
                         "IN_PROGRESS", FALSE, FALSE))
        /\ wo[w].equipment \in Equipment \cup {None}
        /\ "IN_PROGRESS" \in OrderStatuses \cup {"NONE"}
    BY <1>4 DEF StartWorkSession, AdminInv, Tables, OrderRows, OrderStatuses
  <2> QED
    BY <2>1, BeginKeeps
<1> QED
  BY <1>1, <1>2, <1>3, <1>4 DEF OrderHandler

\* What return, resubmit and findOne write to their request, and reject.
LEMMA RequestCommitKeeps ==
  ASSUME AdminInv, NEW t \in open,
         \/ CommitReject(t) \/ CommitReturn(t) \/ CommitResubmit(t)
         \/ CommitFindOne(t)
  PROVE  AdminInv'
<1> DEFINE quiet(s) == [req[t.r] EXCEPT !.status = s]
           reset == [Moved(req[t.r], "PENDING") EXCEPT !.urgent = t.urgent]
<1>1. /\ wo' = wo /\ open' \subseteq open
      /\ \/ req' = [req EXCEPT ![t.r] = quiet("REJECTED")]
         \/ req' = [req EXCEPT ![t.r] = quiet("CLOSED")]
         \/ req' = [req EXCEPT ![t.r] = Moved(req[t.r], "RETURNED")]
         \/ req' = [req EXCEPT ![t.r] = reset]
  BY DEF CommitReject, CommitReturn, CommitResubmit, CommitFindOne, Finish,
         SetRequest
<1>2. ASSUME t.r \in Requests
      PROVE  /\ quiet("REJECTED") \in RequestRows /\ Exists(quiet("REJECTED"))
             /\ quiet("CLOSED") \in RequestRows /\ Exists(quiet("CLOSED"))
             /\ Moved(req[t.r], "RETURNED") \in RequestRows
             /\ Exists(Moved(req[t.r], "RETURNED"))
             /\ reset \in RequestRows /\ Exists(reset)
  <2>1. req[t.r] \in RequestRows /\ t.urgent \in BOOLEAN
    BY <1>2 DEF AdminInv, Tables, Carries
  <2>2. {"REJECTED", "CLOSED", "RETURNED", "PENDING"} \subseteq RequestStatuses
    BY DEF RequestStatuses
  <2>3. Moved(req[t.r], "PENDING") \in RequestRows
        /\ Exists(Moved(req[t.r], "PENDING"))
    BY <2>1, <2>2, RequestRowFacts
  <2>4. reset \in RequestRows /\ Exists(reset)
    BY <2>1, <2>3, RequestFieldFacts DEF Exists
  <2> QED
    BY <2>1, <2>2, <2>4, RequestRowFacts
<1> HIDE DEF quiet, reset
<1>3. PICK row : /\ req' = [req EXCEPT ![t.r] = row]
                 /\ t.r \in Requests => row \in RequestRows /\ Exists(row)
  BY <1>1, <1>2
<1> QED
  BY <1>1, <1>3, RequestWrite, RequestStep

LEMMA CreateRequestKeeps ==
  ASSUME AdminInv, NEW t \in open, CommitCreateRequest(t) PROVE AdminInv'
<1> DEFINE row == [status |-> "PENDING", version |-> 1, equipment |-> t.e,
                   urgent |-> t.urgent]
<1>1. row \in RequestRows /\ Exists(row)
  BY DEF AdminInv, Carries, RequestRows, RequestStatuses, Exists, Unprotected,
         CommitCreateRequest
<1>2. PICK r \in Requests : req' = [req EXCEPT ![r] = row]
  BY DEF CommitCreateRequest
<1>3. wo' = wo /\ open' \subseteq open
  BY DEF CommitCreateRequest, Finish
<1> HIDE DEF row
<1> QED
  BY <1>1, <1>2, <1>3, RequestWrite, RequestStep

\* approve relies on its lock, create on its second look.
LEMMA InsertKeeps ==
  ASSUME AdminInv, NEW t \in open, CommitApprove(t) \/ CommitCreateOrder(t)
  PROVE  AdminInv'
<1>1. CASE CommitApprove(t)
  <2> DEFINE row == [req[t.r] EXCEPT !.status = "APPROVED"]
  <2>1. t.r \in Requests /\ req[t.r] \in RequestRows
    BY <1>1 DEF CommitApprove, AdminInv, Holds, Tables
  <2>2. row \in RequestRows /\ Exists(row)
    BY <2>1, RequestRowFacts DEF RequestStatuses
  <2>3. /\ req' = [req EXCEPT ![t.r] = row] /\ open' \subseteq open
        /\ NewOrder(t, Seen(t.req, req', {t.r})) /\ t.op = "APPROVE"
    BY <1>1 DEF CommitApprove, InsertOrder, Finish
  <2> HIDE DEF row
  <2>4. /\ req' \in [Requests -> RequestRows]
        /\ \A q \in Requests : Exists(req[q]) => Exists(req'[q])
    BY <2>2, <2>3, RequestWrite
  <2>5. Exists(req'[t.r])
    BY <2>1, <2>2, <2>3 DEF AdminInv, Tables
  <2> QED
    BY <2>3, <2>4, <2>5, InsertStep
<1>2. CASE CommitCreateOrder(t)
  <2>1. /\ NewOrder(t, t.req) /\ req' = req /\ open' \subseteq open
        /\ t.op = "CREATE_ORDER"
        /\ t.r # None => Exists(req[t.r])
    BY <1>2 DEF CommitCreateOrder, InsertOrder, Finish
  <2>2. /\ req' \in [Requests -> RequestRows]
        /\ \A q \in Requests : Exists(req[q]) => Exists(req'[q])
        /\ t.r # None => Exists(req'[t.r])
    BY <2>1 DEF AdminInv, Tables
  <2> QED
    BY <2>1, <2>2, InsertStep
<1> QED
  BY <1>1, <1>2

\* A write to requests and orders that keeps every link.
LEMMA LinkStep ==
  ASSUME AdminInv, open' \subseteq open,
         req' \in [Requests -> RequestRows],
         \A q \in Requests : Exists(req[q]) => Exists(req'[q]),
         wo' \in [WorkOrders -> OrderRows],
         \A w \in WorkOrders : wo'[w].request \in {wo[w].request, None}
  PROVE  AdminInv'
<1>1. Grows
  BY DEF Grows, Tables
<1> QED
  BY <1>1, GrowingKeeps

LEMMA SetRequestFacts ==
  ASSUME AdminInv, NEW r, NEW s \in RequestStatuses, req' = SetRequest(r, s)
  PROVE  /\ req' \in [Requests -> RequestRows]
         /\ \A q \in Requests : Exists(req[q]) => Exists(req'[q])
<1>1. req' = [req EXCEPT ![r] = Moved(req[r], s)]
  BY DEF SetRequest
<1>2. r \in Requests =>
        Moved(req[r], s) \in RequestRows /\ Exists(Moved(req[r], s))
  BY RequestRowFacts DEF AdminInv, Tables
<1> QED
  BY <1>1, <1>2, RequestWrite

LEMMA CancelRequestKeeps ==
  ASSUME AdminInv, NEW t \in open, CommitCancelRequest(t) PROVE AdminInv'
<1>1. /\ req' = SetRequest(t.r, "CANCELLED") /\ open' \subseteq open
      /\ wo' = [w \in WorkOrders |-> IF w \in CascadeOf(t)
                                     THEN Moved(wo[w], "CANCELLED")
                                     ELSE wo[w]]
  BY DEF CommitCancelRequest, Finish
<1>2. \A w \in WorkOrders :
        /\ wo[w] \in OrderRows
        /\ Moved(wo[w], "CANCELLED") \in OrderRows
        /\ Moved(wo[w], "CANCELLED").request = wo[w].request
  BY OrderRowFacts DEF AdminInv, Tables, OrderStatuses
<1>3. /\ wo' \in [WorkOrders -> OrderRows]
      /\ \A w \in WorkOrders : wo'[w].request \in {wo[w].request, None}
  BY <1>1, <1>2
<1>4. /\ req' \in [Requests -> RequestRows]
      /\ \A q \in Requests : Exists(req[q]) => Exists(req'[q])
  BY <1>1, SetRequestFacts DEF RequestStatuses
<1> QED
  BY <1>1, <1>3, <1>4, LinkStep

LEMMA UpdateKeeps ==
  ASSUME AdminInv, NEW t \in open, CommitUpdate(t) PROVE AdminInv'
<1> DEFINE row == Classified(Moved(wo[t.w], t.to), t.classified)
<1>1. /\ wo' = [wo EXCEPT ![t.w] = row] /\ open' \subseteq open
      /\ \/ req' = SetRequest(t.r, "CLOSED")
         \/ req' = SetRequest(t.r, "APPROVED")
         \/ req' = req
  BY DEF CommitUpdate, Finish
<1>2. ASSUME t.w \in WorkOrders
      PROVE  row \in OrderRows /\ row.request = wo[t.w].request
  <2>1. /\ wo[t.w] \in OrderRows /\ t.classified \in BOOLEAN
        /\ t.to \in OrderStatuses \cup {"NONE"}
    BY <1>2 DEF AdminInv, Tables, Carries
  <2>2. Moved(wo[t.w], t.to) \in OrderRows
        /\ Moved(wo[t.w], t.to).request = wo[t.w].request
    BY <2>1, OrderRowFacts
  <2> QED
    BY <2>1, <2>2, OrderRowFacts
<1> HIDE DEF row
<1>3. /\ wo' \in [WorkOrders -> OrderRows]
      /\ \A w \in WorkOrders : wo'[w].request \in {wo[w].request, None}
  BY <1>1, <1>2 DEF AdminInv, Tables
<1>4. /\ req' \in [Requests -> RequestRows]
      /\ \A q \in Requests : Exists(req[q]) => Exists(req'[q])
  BY <1>1, SetRequestFacts DEF RequestStatuses, AdminInv, Tables
<1> QED
  BY <1>1, <1>3, <1>4, LinkStep

LEMMA StartWorkSessionKeeps ==
  ASSUME AdminInv, NEW t \in open, CommitStartWorkSession(t) PROVE AdminInv'
<1>1. \A w \in WorkOrders :
        /\ wo[w] \in OrderRows
        /\ ClockedIn(wo[w]) \in OrderRows
        /\ ClockedIn(wo[w]).request = wo[w].request
  BY ClockedInFacts DEF AdminInv, Tables
<1>2. /\ wo' = [wo EXCEPT ![t.w] = ClockedIn(wo[t.w])]
      /\ req' = req /\ open' \subseteq open
  BY DEF CommitStartWorkSession, Finish
<1>3. /\ wo' \in [WorkOrders -> OrderRows]
      /\ \A w \in WorkOrders : wo'[w].request \in {wo[w].request, None}
  BY <1>1, <1>2 DEF AdminInv, Tables
<1> QED
  BY <1>2, <1>3, LinkStep DEF AdminInv, Tables

\* A step that writes neither a request nor an order, and starts nothing.
LEMMA IdleKeeps ==
  ASSUME AdminInv, UNCHANGED <<req, wo>>, open' \subseteq open PROVE AdminInv'
BY LinkStep DEF AdminInv, Tables

LEMMA CommitKeeps ==
  ASSUME AdminInv, NEW t \in open, Commit(t) \/ Rollback(t) PROVE AdminInv'
<1>1. CASE Rollback(t)
  BY <1>1, IdleKeeps DEF Rollback, Finish
<1> QED
  BY <1>1, CreateRequestKeeps, InsertKeeps, RequestCommitKeeps,
     CancelRequestKeeps, UpdateKeeps, StartWorkSessionKeeps DEF Commit

-----------------------------------------------------------------------------
(***************************************************************************)
(* The steps of the administrators.                                        *)
(***************************************************************************)

LEMMA AdminHandlerKeeps ==
  ASSUME AdminInv, NEW c \in Clients, AdminHandler(c) \/ StartRecalculation(c)
  PROVE  AdminInv'
<1>1. /\ \A r \in Requests : req[r].equipment \in Equipment \cup {None}
      /\ \A w \in WorkOrders : wo[w].equipment \in Equipment \cup {None}
  BY DEF AdminInv, Tables, RequestRows, OrderRows
<1>2. "NONE" \in OrderStatuses \cup {"NONE"}
  OBVIOUS
<1>3. ASSUME NEW r \in Requests, UpdateRequest(c, r) PROVE AdminInv'
  <2>1. PICK e \in Equipment, u \in Urgencies :
          Begin(c, Call(c, "EDIT", r, None, e, "NONE", u, FALSE))
    BY <1>3 DEF UpdateRequest
  <2>2. u \in BOOLEAN
    BY UrgencyIsAFlag
  <2> QED
    BY <1>2, <2>1, <2>2, BeginKeeps
<1>4. ASSUME NEW r \in Requests, DeleteRequest(c, r) PROVE AdminInv'
  <2>1. PICK w : Begin(c, Call(c, "DELETE_REQUEST", r, w, req[r].equipment,
                               "NONE", FALSE, FALSE))
    BY <1>4 DEF DeleteRequest
  <2> QED
    BY <1>1, <1>2, <2>1, BeginKeeps
<1>5. ASSUME NEW w \in WorkOrders, RemoveOrder(c, w) PROVE AdminInv'
  BY <1>1, <1>2, <1>5, BeginKeeps DEF RemoveOrder
<1>6. CASE SyncAllEquipmentStatuses(c) \/ StartRecalculation(c)
  <2>1. PICK e : Begin(c, Call(c, "READ_REQUESTS", None, None, e, "NONE",
                               FALSE, FALSE))
    BY <1>6 DEF SyncAllEquipmentStatuses, StartRecalculation
  <2> QED
    BY <1>2, <2>1, BeginKeeps DEF Unprotected
<1> QED
  BY <1>3, <1>4, <1>5, <1>6 DEF AdminHandler

\* The reads that put a newer snapshot in the place of the transaction's.
LEMMA AdminReadKeeps ==
  ASSUME AdminInv, NEW t \in open,
         ReadRequests(t) \/ ReadOrders(t) \/ BeginDeletion(t)
  PROVE  AdminInv'
<1> DEFINE others == open \ {t}
<1>1. others \subseteq open /\ \A v \in others : v.client # t.client
  BY DEF AdminInv
<1>2. Carries(t)
  BY DEF AdminInv
<1>3. PICK u : /\ open' = others \cup {u} /\ UNCHANGED <<req, wo>>
               /\ Carries(u) /\ Holds(u) /\ u.client = t.client
  <2>1. CASE ReadRequests(t)
    <3> DEFINE u == [t EXCEPT !.op = "READ_ORDERS", !.req = req]
    <3>1. open' = others \cup {u} /\ UNCHANGED <<req, wo>>
      BY <2>1 DEF ReadRequests
    <3>2. "READ_ORDERS" \notin Unprotected => t.op \notin Unprotected
      BY <2>1 DEF ReadRequests, Unprotected
    <3>3. Carries(u) /\ Holds(u) /\ u.client = t.client
      BY <1>2, <3>2 DEF Carries, Holds
    <3> HIDE DEF u, others
    <3> QED
      BY <3>1, <3>3
  <2>2. CASE ReadOrders(t)
    <3> DEFINE u == [t EXCEPT !.op = "WRITE_STATUS", !.wo = wo]
    <3>1. open' = others \cup {u} /\ UNCHANGED <<req, wo>>
      BY <2>2 DEF ReadOrders
    <3>2. "WRITE_STATUS" \notin Unprotected => t.op \notin Unprotected
      BY <2>2 DEF ReadOrders, Unprotected
    <3>3. Carries(u) /\ Holds(u) /\ u.client = t.client
      BY <1>2, <3>2 DEF Carries, Holds
    <3> HIDE DEF u, others
    <3> QED
      BY <3>1, <3>3
  <2>3. CASE BeginDeletion(t)
    <3> DEFINE u == [t EXCEPT !.op = "DELETING", !.req = req, !.wo = wo,
                              !.eq = eq]
    <3>1. open' = others \cup {u} /\ UNCHANGED <<req, wo>>
      BY <2>3 DEF BeginDeletion
    <3>2. "DELETING" \notin Unprotected => t.op \notin Unprotected
      BY <2>3 DEF BeginDeletion, Unprotected
    <3>3. Carries(u) /\ Holds(u) /\ u.client = t.client
      BY <1>2, <3>2 DEF Carries, Holds
    <3> HIDE DEF u, others
    <3> QED
      BY <3>1, <3>3
  <2> QED
    BY <2>1, <2>2, <2>3
<1> HIDE DEF others
<1> QED
  BY <1>1, <1>3, ReadingKeeps

LEMMA WriteRequestKeeps ==
  ASSUME AdminInv, NEW t \in open, WriteRequest(t) PROVE AdminInv'
<1> DEFINE next == NextVersion(req[t.r])
           row == [next EXCEPT !.equipment = t.e, !.urgent = t.urgent]
<1>1. /\ req' = [req EXCEPT ![t.r] = row] /\ wo' = wo /\ open' \subseteq open
      /\ Exists(req[t.r])
  BY DEF WriteRequest, Finish
<1>2. ASSUME t.r \in Requests PROVE row \in RequestRows /\ Exists(row)
  <2>1. /\ req[t.r] \in RequestRows /\ t.urgent \in BOOLEAN
        /\ t.e \in Equipment \cup {None}
    BY <1>2 DEF AdminInv, Tables, Carries, WriteRequest, Unprotected
  <2>2. next \in RequestRows /\ next.status = req[t.r].status
    BY <2>1, RequestFieldFacts
  <2> HIDE DEF next
  <2>3. row \in RequestRows /\ row.status = next.status
    BY <2>1, <2>2, RequestFieldFacts
  <2> HIDE DEF row
  <2> QED
    BY <1>1, <2>2, <2>3 DEF Exists
<1> HIDE DEF row
<1> QED
  BY <1>1, <1>2, RequestWrite, RequestStep

LEMMA DeletedFacts ==
  /\ \A row \in RequestRows : Deleted(row, NoRequestRow) \in RequestRows
  /\ \A row \in OrderRows :
       /\ Deleted(row, NoOrderRow) \in OrderRows
       /\ Deleted(row, NoOrderRow).request = None
<1>1. ASSUME NEW row \in RequestRows
      PROVE  Deleted(row, NoRequestRow) \in RequestRows
  <2>1. NoRequestRow \in RequestRows
    BY DEF RequestRows, NoRequestRow
  <2>2. \A x \in RequestRows :
          [x EXCEPT !.version = row.version + 1] \in RequestRows
    BY DEF RequestRows
  <2> QED
    BY <2>1, <2>2 DEF Deleted
<1>2. ASSUME NEW row \in OrderRows
      PROVE  /\ Deleted(row, NoOrderRow) \in OrderRows
             /\ Deleted(row, NoOrderRow).request = None
  <2>1. NoOrderRow \in OrderRows /\ NoOrderRow.request = None
    BY DEF OrderRows, NoOrderRow
  <2>2. \A x \in OrderRows :
          /\ [x EXCEPT !.version = row.version + 1] \in OrderRows
          /\ [x EXCEPT !.version = row.version + 1].request = x.request
    BY DEF OrderRows
  <2> QED
    BY <2>1, <2>2 DEF Deleted
<1> QED
  BY <1>1, <1>2

LEMMA RemovalKeeps ==
  ASSUME AdminInv, NEW t \in open, CommitRemoval(t) PROVE AdminInv'
<1> DEFINE row == Deleted(wo[t.w], NoOrderRow)
<1>1. wo' = [wo EXCEPT ![t.w] = row] /\ req' = req /\ open' \subseteq open
  BY DEF CommitRemoval, Finish
<1>2. t.w \in WorkOrders => row \in OrderRows /\ row.request = None
  BY DeletedFacts DEF AdminInv, Tables
<1> HIDE DEF row
<1> QED
  BY <1>1, <1>2, LinkStep DEF AdminInv, Tables

\* The deletion cuts every link to its request, and no approval holds it.
LEMMA DeletionKeeps ==
  ASSUME AdminInv, NEW t \in open, CommitDeletion(t) PROVE AdminInv'
<1> DEFINE gone == Deleted(req[t.r], NoRequestRow)
<1>1. req' = [req EXCEPT ![t.r] = gone] /\ open' = open \ {t}
  BY DEF CommitDeletion, Finish
<1>2. t.r \in Requests => gone \in RequestRows
  BY DeletedFacts DEF AdminInv, Tables
<1> HIDE DEF gone
<1>3. \A w \in WorkOrders :
        /\ Deleted(wo[w], NoOrderRow) \in OrderRows
        /\ Deleted(wo[w], NoOrderRow).request = None
        /\ Unlinked(t, wo[w]) \in OrderRows
        /\ Unlinked(t, wo[w]).request \in {wo[w].request, None}
        /\ Unlinked(t, wo[w]).request # t.r \/ Unlinked(t, wo[w]).request = None
  <2> SUFFICES ASSUME NEW w \in WorkOrders
               PROVE  /\ Deleted(wo[w], NoOrderRow) \in OrderRows
                      /\ Deleted(wo[w], NoOrderRow).request = None
                      /\ Unlinked(t, wo[w]) \in OrderRows
                      /\ Unlinked(t, wo[w]).request \in {wo[w].request, None}
                      /\ \/ Unlinked(t, wo[w]).request # t.r
                         \/ Unlinked(t, wo[w]).request = None
    OBVIOUS
  <2>1. wo[w] \in OrderRows
    BY DEF AdminInv, Tables
  <2>2. [wo[w] EXCEPT !.request = None] \in OrderRows
        /\ [wo[w] EXCEPT !.request = None].request = None
    BY <2>1 DEF OrderRows
  <2> QED
    BY <2>1, <2>2, DeletedFacts DEF Unlinked
<1>4. /\ wo' \in [WorkOrders -> OrderRows]
      /\ \A w \in WorkOrders :
           /\ wo'[w].request \in {wo[w].request, None}
           /\ wo'[w].request # t.r \/ wo'[w].request = None
  BY <1>3 DEF CommitDeletion
<1>5. LinkedRequestsExist'
  <2> SUFFICES ASSUME NEW w \in WorkOrders, wo'[w].request # None
               PROVE  Exists(req'[wo'[w].request])
    BY DEF LinkedRequestsExist, Exists
  <2>1. wo'[w].request = wo[w].request /\ wo'[w].request # t.r
    BY <1>4
  <2>2. wo[w].request \in Requests /\ Exists(req[wo[w].request])
    BY <2>1, <1>4 DEF AdminInv, Tables, OrderRows, LinkedRequestsExist
  <2> QED
    BY <1>1, <2>1, <2>2 DEF AdminInv, Tables
<1>6. ASSUME NEW u \in open' PROVE Carries(u) /\ Holds(u)'
  <2>1. u \in open /\ Carries(u) /\ Holds(u) /\ u.client # t.client
    BY <1>1, <1>6 DEF AdminInv
  <2>2. u.op = "APPROVE" => u.r # t.r
    BY <2>1 DEF CommitDeletion, Unlocked
  <2> QED
    BY <1>1, <2>1, <2>2 DEF Holds, AdminInv, Tables, Exists
<1>7. Tables' /\ \A u, v \in open' : u.client = v.client => u = v
  BY <1>1, <1>2, <1>4 DEF AdminInv, Tables
<1> QED
  BY <1>5, <1>6, <1>7 DEF AdminInv, Carries

-----------------------------------------------------------------------------
LEMMA NextKeeps == ASSUME AdminInv, [AdminNext]_adminVars PROVE AdminInv'
<1>1. ASSUME NEW c \in Clients, RequestHandler(c) \/ OrderHandler(c)
      PROVE  AdminInv'
  BY <1>1, RequestHandlerKeeps, OrderHandlerKeeps
<1>2. ASSUME NEW c \in Clients, AdminHandler(c) \/ StartRecalculation(c)
      PROVE  AdminInv'
  BY <1>2, AdminHandlerKeeps
<1>3. ASSUME NEW t \in open, Commit(t) \/ Rollback(t) PROVE AdminInv'
  BY <1>3, CommitKeeps
<1>4. ASSUME NEW t \in open, AdminStep(t) PROVE AdminInv'
  <2>1. CASE WriteStatus(t)
    BY <2>1, IdleKeeps DEF WriteStatus, Finish
  <2> QED
    BY <1>4, <2>1, WriteRequestKeeps, AdminReadKeeps, DeletionKeeps,
       RemovalKeeps DEF AdminStep
<1>5. CASE UNCHANGED adminVars
  BY <1>5, IdleKeeps DEF adminVars
<1> QED
  BY <1>1, <1>2, <1>3, <1>4, <1>5 DEF AdminNext

\* Whatever handlers overlap, in any number, no order ever names a request
\* that was deleted.
THEOREM NoLinkToADeletedRequest == AdminSpec => []LinkedRequestsExist
<1>1. AdminInv => LinkedRequestsExist
  BY DEF AdminInv
<1> QED
  BY <1>1, InitInv, NextKeeps, PTL DEF AdminSpec

-----------------------------------------------------------------------------
(***************************************************************************)
(* One client: handlers, edits and synchronisations come one after the     *)
(* other, and no order is opened by hand for a request.                    *)
(***************************************************************************)

Serial ==
  /\ \A c, d \in Clients : c = d
  /\ "linkOrder" \notin Handlers

\* Nothing has changed since the transaction read it.
Current(t) ==
  /\ {"client", "op", "r", "w", "e", "req", "wo", "eq"} \subseteq DOMAIN t
  /\ Undisturbed(t)

\* The transactions about a request, and which piece of equipment they
\* recalculate.
OnRequest == {"APPROVE", "REJECT", "RETURN", "RESUBMIT", "CANCEL_REQUEST",
              "FIND_ONE", "EDIT", "DELETE_REQUEST", "DELETING"}
OnOrder == {"UPDATE_STATUS", "ASSESS", "REMOVE_ORDER"}

\* What the checks of a handler established is still so.
Checked(t) ==
  /\ t.op \in OnRequest => t.r \in Requests
  /\ t.op \in OnRequest \ {"EDIT"} => t.e = req[t.r].equipment
  /\ t.op \in OnOrder => t.w \in WorkOrders /\ t.e = wo[t.w].equipment
  /\ t.op \in {"APPROVE", "CREATE_ORDER"} => t.to \in {"PENDING", "ASSIGNED"}
  /\ t.op \in {"REJECT", "RETURN", "RESUBMIT", "EDIT"} => OrdersOf(t.r, wo) = {}
  /\ t.op = "CANCEL_REQUEST" =>
       \A w \in OrdersOf(t.r, wo) : wo[w].status \notin Accepted
  /\ t.op = "FIND_ONE" =>
       t.w \in OrdersOf(t.r, wo) /\ wo[t.w].status \in Accepted
  /\ t.op \in {"UPDATE_STATUS", "ASSESS"} =>
       t.r = wo[t.w].request /\ CanTransition(wo[t.w].status, t.to)
  /\ t.op = "CREATE_ORDER" => t.r = None
  /\ t.op = "START_SESSION" =>
       t.w \in WorkOrders /\ wo[t.w].status \in Startable
  /\ t.op \in {"DELETE_REQUEST", "DELETING"} =>
       t.w \in OrdersOf(t.r, wo) \cup {None}

\* An order names the equipment of its request, which was approved once, and
\* is no longer so when the order was accepted.
LinksAreRight ==
  \A w \in WorkOrders : wo[w].request # None =>
    /\ req[wo[w].request].equipment = wo[w].equipment
    /\ req[wo[w].request].status \notin Undecided
    /\ wo[w].status \in Accepted => req[wo[w].request].status # "APPROVED"

\* A recalculation of this equipment is still to come.
Stale(e) ==
  \/ \E c \in Clients : \E i \in 1..Len(due[c]) : due[c][i] = e
  \/ \E t \in open : t.op \in Unprotected /\ t.e = e

Matched ==
  \A e \in Equipment : Stale(e) \/ eq[e] = DerivedStatus(e, req, wo)

SerialInv ==
  /\ eq \in [Equipment -> EquipmentStatuses \ {"DISCOMMISSIONED"}]
  /\ due \in [Clients -> Seq(Equipment \cup {None})]
  /\ \A t \in open : /\ Current(t)
                     /\ Checked(t)
                     /\ t.op \notin Unprotected => due[t.client] = <<>>
  /\ OneOrderPerRequest
  /\ LinksAreRight
  /\ Matched

LEMMA SerialStarts == AdminInit => SerialInv
<1> SUFFICES ASSUME AdminInit PROVE SerialInv
  OBVIOUS
<1>1. eq \in [Equipment -> EquipmentStatuses \ {"DISCOMMISSIONED"}]
  BY DEF AdminInit, Init, EquipmentStatuses
<1>2. due \in [Clients -> Seq(Equipment \cup {None})]
  BY DEF AdminInit
<1>3. open = {}
  BY DEF AdminInit, Init
<1>4. OneOrderPerRequest /\ LinksAreRight
  BY DEF AdminInit, Init, OneOrderPerRequest, LinksAreRight, NoOrderRow
<1>5. Matched
  <2> SUFFICES ASSUME NEW e \in Equipment
               PROVE  eq[e] = DerivedStatus(e, req, wo)
    BY DEF Matched
  <2>1. /\ \A r \in DOMAIN req : req[r].status = "NONE"
        /\ \A w \in DOMAIN wo : wo[w].status = "NONE"
        /\ eq[e] = "OPERATIONAL"
    BY DEF AdminInit, Init, NoRequestRow, NoOrderRow
  <2> QED
    BY <2>1 DEF DerivedStatus, Undecided, Working, Unfinished
<1> QED
  BY <1>1, <1>2, <1>3, <1>4, <1>5 DEF SerialInv

-----------------------------------------------------------------------------
(* What the status of equipment depends on.                                *)

\* A row that says nothing of the status of equipment e.
SilentRequest(row, e) ==
  row.equipment # e \/ row.status \notin Undecided \cup {"APPROVED"}

SilentOrder(row, e) == row.equipment # e \/ row.status \notin Unfinished

\* The step changes nothing that the status of equipment e depends on.
Quiet(e) ==
  /\ \A r \in Requests :
       \/ /\ req'[r].status = req[r].status
          /\ req'[r].equipment = req[r].equipment
       \/ SilentRequest(req[r], e) /\ SilentRequest(req'[r], e)
  /\ \A w \in WorkOrders :
       \/ /\ \/ wo'[w].status = wo[w].status
             \/ {wo[w].status, wo'[w].status} \subseteq Working
          /\ wo'[w].equipment = wo[w].equipment
          /\ wo'[w].urgent = wo[w].urgent
       \/ SilentOrder(wo[w], e) /\ SilentOrder(wo'[w], e)

LEMMA QuietStatus ==
  ASSUME Tables, Tables', NEW e, Quiet(e)
  PROVE  DerivedStatus(e, req', wo') = DerivedStatus(e, req, wo)
<1>1. /\ DOMAIN req = Requests /\ DOMAIN req' = Requests
      /\ DOMAIN wo = WorkOrders /\ DOMAIN wo' = WorkOrders
  BY DEF Tables
<1>2. \A r \in Requests :
        /\ (req'[r].equipment = e /\ req'[r].status \in Undecided)
             <=> (req[r].equipment = e /\ req[r].status \in Undecided)
        /\ (req'[r].equipment = e /\ req'[r].status = "APPROVED")
             <=> (req[r].equipment = e /\ req[r].status = "APPROVED")
  BY DEF Quiet, SilentRequest
<1>3. \A w \in WorkOrders :
        /\ (/\ wo'[w].equipment = e /\ wo'[w].status \in Working
            /\ wo'[w].urgent)
             <=> (/\ wo[w].equipment = e /\ wo[w].status \in Working
                  /\ wo[w].urgent)
        /\ (wo'[w].equipment = e /\ wo'[w].status \in Unfinished)
             <=> (wo[w].equipment = e /\ wo[w].status \in Unfinished)
  <2> SUFFICES ASSUME NEW w \in WorkOrders
               PROVE  /\ (/\ wo'[w].equipment = e /\ wo'[w].status \in Working
                          /\ wo'[w].urgent)
                           <=> (/\ wo[w].equipment = e
                                /\ wo[w].status \in Working /\ wo[w].urgent)
                      /\ (wo'[w].equipment = e /\ wo'[w].status \in Unfinished)
                           <=> (wo[w].equipment = e
                                /\ wo[w].status \in Unfinished)
    OBVIOUS
  <2>1. CASE /\ wo'[w].status = wo[w].status
             /\ wo'[w].equipment = wo[w].equipment
             /\ wo'[w].urgent = wo[w].urgent
    BY <2>1, Zenon
  <2>2. CASE SilentOrder(wo[w], e) /\ SilentOrder(wo'[w], e)
    BY <2>2 DEF SilentOrder, Unfinished
  <2>3. CASE /\ {wo[w].status, wo'[w].status} \subseteq Working
             /\ wo'[w].equipment = wo[w].equipment
             /\ wo'[w].urgent = wo[w].urgent
    BY <2>3 DEF Unfinished
  <2> QED
    BY <2>1, <2>2, <2>3 DEF Quiet
<1>4. /\ (\E r \in Requests : req'[r].equipment = e
                              /\ req'[r].status \in Undecided)
           <=> (\E r \in Requests : req[r].equipment = e
                                    /\ req[r].status \in Undecided)
      /\ (\E r \in Requests : req'[r].equipment = e
                              /\ req'[r].status = "APPROVED")
           <=> (\E r \in Requests : req[r].equipment = e
                                    /\ req[r].status = "APPROVED")
  BY <1>2, Zenon
<1>5. /\ (\E w \in WorkOrders : /\ wo'[w].equipment = e
                                /\ wo'[w].status \in Working
                                /\ wo'[w].urgent)
           <=> (\E w \in WorkOrders : /\ wo[w].equipment = e
                                      /\ wo[w].status \in Working
                                      /\ wo[w].urgent)
      /\ (\E w \in WorkOrders : wo'[w].equipment = e
                                /\ wo'[w].status \in Unfinished)
           <=> (\E w \in WorkOrders : wo[w].equipment = e
                                      /\ wo[w].status \in Unfinished)
  BY <1>3, Zenon
<1> QED
  BY <1>1, <1>4, <1>5, Zenon DEF DerivedStatus

\* Equipment is never found out of service by the rows.
LEMMA DerivedInService ==
  \A e, requests, orders :
    DerivedStatus(e, requests, orders)
      \in EquipmentStatuses \ {"DISCOMMISSIONED"}
  BY DEF DerivedStatus, EquipmentStatuses

-----------------------------------------------------------------------------
(* The steps of one client.                                                *)

\* Its transaction is the only one, and nothing else is due.
LEMMA Alone ==
  ASSUME Serial, AdminInv, SerialInv, NEW t \in open, t.op \notin Unprotected
  PROVE  open = {t} /\ \A e \in Equipment : ~Stale(e)
<1>1. \A u \in open : u.client = t.client
  BY DEF Serial, AdminInv, Carries
<1>2. open = {t}
  BY <1>1 DEF AdminInv
<1>3. \A c \in Clients : due[c] = <<>>
  BY DEF Serial, SerialInv, AdminInv, Carries
<1> QED
  BY <1>2, <1>3 DEF Stale

\* A transaction that ends with a recalculation of what it has written.
LEMMA SerialCommit ==
  ASSUME Serial, AdminInv, AdminInv', SerialInv, NEW t \in open,
         t.op \notin Unprotected, NEW requests, NEW orders,
         Recalculate(t, requests, orders), requests = req', orders = wo',
         \A e \in Equipment : e # t.e => Quiet(e),
         open' = open \ {t}, due' = due,
         OneOrderPerRequest', LinksAreRight'
  PROVE  SerialInv'
<1>1. /\ open' = {} /\ t.eq = eq /\ Tables /\ Tables'
      /\ \A e \in Equipment : eq[e] = DerivedStatus(e, req, wo)
      /\ eq \in [Equipment -> EquipmentStatuses \ {"DISCOMMISSIONED"}]
  BY Alone DEF SerialInv, AdminInv, Current, Undisturbed, Matched
<1>2. eq' = Recalculated(eq, t.e, eq, req', wo')
  BY <1>1 DEF Recalculate
<1>3. eq' \in [Equipment -> EquipmentStatuses \ {"DISCOMMISSIONED"}]
  BY <1>1, <1>2, DerivedInService DEF Recalculated
<1>4. \A e \in Equipment : e # t.e => eq'[e] = eq[e]
  BY <1>1, <1>2 DEF Recalculated
<1>5. t.e \in Equipment => eq'[t.e] = DerivedStatus(t.e, req', wo')
  BY <1>1, <1>2 DEF Recalculated
<1>6. ASSUME NEW e \in Equipment PROVE eq'[e] = DerivedStatus(e, req', wo')
  <2>1. CASE e = t.e
    BY <1>5, <2>1
  <2>2. CASE e # t.e
    BY <1>1, <1>4, <2>2, QuietStatus
  <2> QED
    BY <2>1, <2>2
<1> QED
  BY <1>1, <1>3, <1>6 DEF SerialInv, Matched

\* A transaction that begins.
LEMMA SerialBegin ==
  ASSUME Serial, AdminInv, SerialInv, NEW c \in Clients, NEW call,
         Begin(c, call), Current(call), Checked(call),
         call.client = c, call.op \notin Unprotected, due[c] = <<>>,
         due' = due
  PROVE  SerialInv'
<1>1. open' = {call} /\ UNCHANGED <<req, wo, eq>>
  <2>1. open = {}
    BY DEF Begin, Serial, AdminInv, Carries
  <2> QED
    BY <2>1 DEF Begin
<1>2. Current(call)' /\ Checked(call)'
  BY <1>1 DEF Current, Checked, Undisturbed, OrdersOf
<1>3. OneOrderPerRequest' /\ LinksAreRight'
  BY <1>1 DEF SerialInv, OneOrderPerRequest, LinksAreRight
<1>4. Matched'
  <2> SUFFICES ASSUME NEW e \in Equipment
               PROVE  Stale(e)' \/ eq[e] = DerivedStatus(e, req, wo)
    BY <1>1 DEF Matched
  <2>1. open = {}
    BY DEF Begin, Serial, AdminInv, Carries
  <2>2. Stale(e) => Stale(e)'
    BY <2>1 DEF Stale
  <2> QED
    BY <2>2 DEF SerialInv, Matched
<1> QED
  BY <1>1, <1>2, <1>3, <1>4 DEF SerialInv

\* A transaction or a read that changes no row.
LEMMA SerialIdle ==
  ASSUME Serial, AdminInv, SerialInv, open' \subseteq open,
         UNCHANGED <<req, wo, eq, due>>,
         \A t \in open \ open' : t.op \notin Unprotected
  PROVE  SerialInv'
<1>1. \A t \in open' : (Current(t) /\ Checked(t))'
  BY DEF SerialInv, Current, Checked, Undisturbed, OrdersOf
<1>2. OneOrderPerRequest' /\ LinksAreRight'
  BY DEF SerialInv, OneOrderPerRequest, LinksAreRight
<1>3. \A e \in Equipment : Stale(e) => Stale(e)'
  BY DEF Stale
<1>4. Matched'
  BY <1>3 DEF SerialInv, Matched
<1> QED
  BY <1>1, <1>2, <1>4 DEF SerialInv

\* A handler whose checks establish what its transaction relies on.
LEMMA SerialCall ==
  ASSUME Serial, AdminInv, SerialInv, NEW c \in Clients, due[c] = <<>>,
         due' = due, NEW op, op \notin Unprotected, NEW r, NEW w, NEW e,
         NEW to, NEW u, NEW k, Begin(c, Call(c, op, r, w, e, to, u, k)),
         Checked(Call(c, op, r, w, e, to, u, k))
  PROVE  SerialInv'
<1> DEFINE call == Call(c, op, r, w, e, to, u, k)
<1>1. /\ Begin(c, call) /\ Checked(call) /\ Current(call)
      /\ call.client = c /\ call.op = op
  BY DEF Call, Current, Undisturbed
<1> HIDE DEF call
<1> QED
  BY <1>1, SerialBegin

\* A request that waits for a decision has no order.
LEMMA UndecidedHasNoOrder ==
  ASSUME SerialInv, NEW r \in Requests, req[r].status \in Undecided
  PROVE  OrdersOf(r, wo) = {}
BY NoneIsNoReference DEF SerialInv, LinksAreRight, OrdersOf

LEMMA SerialRequestHandler ==
  ASSUME Serial, AdminInv, SerialInv, NEW c \in Clients, due[c] = <<>>,
         due' = due, RequestHandler(c)
  PROVE  SerialInv'
<1>1. CASE CreateRequest(c)
  <2>1. PICK e \in Equipment, u \in Urgencies :
          Begin(c, Call(c, "CREATE_REQUEST", None, None, e, "NONE", u, FALSE))
    BY <1>1 DEF CreateRequest
  <2>2. Checked(Call(c, "CREATE_REQUEST", None, None, e, "NONE", u, FALSE))
    BY DEF Checked, Call, OnRequest, OnOrder
  <2> QED
    BY <2>1, <2>2, SerialCall DEF Unprotected
<1>2. ASSUME NEW r \in Requests, Approve(c, r) PROVE SerialInv'
  <2>1. PICK s \in {"PENDING", "ASSIGNED"} :
          Begin(c, Call(c, "APPROVE", r, None, req[r].equipment, s,
                        req[r].urgent, TRUE))
    BY <1>2 DEF Approve
  <2>2. Checked(Call(c, "APPROVE", r, None, req[r].equipment, s,
                     req[r].urgent, TRUE))
    BY DEF Checked, Call, OnRequest, OnOrder
  <2> QED
    BY <2>1, <2>2, SerialCall DEF Unprotected
<1>3. ASSUME NEW r \in Requests,
             Reject(c, r) \/ ReturnRequest(c, r) \/ CancelRequest(c, r)
      PROVE  SerialInv'
  <2>1. PICK op \in {"REJECT", "RETURN", "CANCEL_REQUEST"} :
          /\ Begin(c, RequestCall(c, op, r))
          /\ op \in {"REJECT", "RETURN"} => OrdersOf(r, wo) = {}
          /\ op = "CANCEL_REQUEST" =>
               \A w \in OrdersOf(r, wo) : wo[w].status \notin Accepted
    BY <1>3, UndecidedHasNoOrder
       DEF Reject, ReturnRequest, CancelRequest, Undecided
  <2>2. Checked(RequestCall(c, op, r))
    BY <2>1 DEF Checked, RequestCall, Call, OnRequest, OnOrder
  <2> QED
    BY <2>1, <2>2, SerialCall DEF Unprotected, RequestCall
<1>4. ASSUME NEW r \in Requests, ResubmitRequest(c, r) PROVE SerialInv'
  <2>1. PICK u \in Urgencies :
          /\ Begin(c, Call(c, "RESUBMIT", r, None, req[r].equipment, "NONE", u,
                           FALSE))
          /\ OrdersOf(r, wo) = {}
    BY <1>4 DEF ResubmitRequest
  <2>2. Checked(Call(c, "RESUBMIT", r, None, req[r].equipment, "NONE", u,
                     FALSE))
    BY <2>1 DEF Checked, Call, OnRequest, OnOrder
  <2> QED
    BY <2>1, <2>2, SerialCall DEF Unprotected
<1>5. ASSUME NEW r \in Requests, FindOne(c, r) PROVE SerialInv'
  <2>1. PICK w \in OrdersOf(r, wo) :
          /\ wo[w].status \in Accepted
          /\ Begin(c, Call(c, "FIND_ONE", r, w, req[r].equipment, "NONE",
                           FALSE, FALSE))
    BY <1>5 DEF FindOne
  <2>2. Checked(Call(c, "FIND_ONE", r, w, req[r].equipment, "NONE", FALSE,
                     FALSE))
    BY <2>1 DEF Checked, Call, OnRequest, OnOrder
  <2> QED
    BY <2>1, <2>2, SerialCall DEF Unprotected
<1> QED
  BY <1>1, <1>2, <1>3, <1>4, <1>5 DEF RequestHandler

LEMMA SerialBeginUpdate ==
  ASSUME Serial, AdminInv, SerialInv, NEW c \in Clients, due[c] = <<>>,
         due' = due, NEW w \in WorkOrders, NEW h,
         NEW op \in {"UPDATE_STATUS", "ASSESS"}, NEW to, NEW k,
         BeginUpdate(c, h, op, w, to, k)
  PROVE  SerialInv'
<1>1. /\ Begin(c, Call(c, op, wo[w].request, w, wo[w].equipment, to, FALSE, k))
      /\ CanTransition(wo[w].status, to)
  BY DEF BeginUpdate
<1>2. Checked(Call(c, op, wo[w].request, w, wo[w].equipment, to, FALSE, k))
  BY <1>1 DEF Checked, Call, OnRequest, OnOrder
<1> QED
  BY <1>1, <1>2, SerialCall DEF Unprotected

LEMMA SerialOrderHandler ==
  ASSUME Serial, AdminInv, SerialInv, NEW c \in Clients, due[c] = <<>>,
         due' = due, OrderHandler(c)
  PROVE  SerialInv'
<1>1. CASE CreateOrder(c)
  <2>1. PICK e \in Equipment, u \in Urgencies, k \in BOOLEAN,
             s \in {"PENDING", "ASSIGNED"},
             r \in {q \in Requests : Exists(req[q]) /\ "linkOrder" \in Handlers}
                    \cup {None} :
          Begin(c, Call(c, "CREATE_ORDER", r, None, e, s, u, k))
    BY <1>1 DEF CreateOrder
  <2>2. r = None
    BY DEF Serial
  <2>3. Checked(Call(c, "CREATE_ORDER", r, None, e, s, u, k))
    BY <2>2 DEF Checked, Call, OnRequest, OnOrder
  <2> QED
    BY <2>1, <2>3, SerialCall DEF Unprotected
<1>2. ASSUME NEW w \in WorkOrders,
             \/ Assign(c, w) \/ Classify(c, w) \/ StartWithAssessment(c, w)
             \/ Start(c, w) \/ Pause(c, w) \/ Resume(c, w) \/ Complete(c, w)
      PROVE  SerialInv'
  BY <1>2, SerialBeginUpdate
     DEF Assign, Classify, StartWithAssessment, Start, Pause, Resume, Complete
<1>3. ASSUME NEW w \in WorkOrders,
             \/ Escalate(c, w) \/ SubmitHandover(c, w) \/ AcceptHandover(c, w)
             \/ SendBack(c, w) \/ Verify(c, w) \/ Close(c, w) \/ Cancel(c, w)
      PROVE  SerialInv'
  BY <1>3, SerialBeginUpdate
     DEF Escalate, SubmitHandover, AcceptHandover, SendBack, Verify, Close,
         Cancel
<1>4. ASSUME NEW w \in WorkOrders, StartWorkSession(c, w) PROVE SerialInv'
  <2>1. /\ wo[w].status \in Startable
        /\ Begin(c, Call(c, "START_SESSION", None, w, wo[w].equipment,
                         "IN_PROGRESS", FALSE, FALSE))
    BY <1>4 DEF StartWorkSession
  <2>2. Checked(Call(c, "START_SESSION", None, w, wo[w].equipment,
                     "IN_PROGRESS", FALSE, FALSE))
    BY <2>1 DEF Checked, Call, OnRequest, OnOrder
  <2> QED
    BY <2>1, <2>2, SerialCall DEF Unprotected
<1> QED
  BY <1>1, <1>2, <1>3, <1>4 DEF OrderHandler

\* A recalculation that begins: its equipment stays stale.
LEMMA SerialRecalculation ==
  ASSUME Serial, AdminInv, SerialInv, NEW c \in Clients, NEW e,
         Begin(c, Call(c, "READ_REQUESTS", None, None, e, "NONE", FALSE,
                       FALSE)),
         \/ due' = due
         \/ /\ due[c] # <<>> /\ e = Head(due[c])
            /\ due' = [due EXCEPT ![c] = Tail(@)]
  PROVE  SerialInv'
<1>0. PICK call : /\ Begin(c, call)
                  /\ call = Call(c, "READ_REQUESTS", None, None, e, "NONE",
                                 FALSE, FALSE)
  OBVIOUS
<1>1. /\ call.op \in Unprotected /\ call.e = e
      /\ Checked(call) /\ Current(call)
  BY <1>0 DEF Call, Current, Undisturbed, Checked, OnRequest, OnOrder,
              Unprotected
<1>2. open = {} /\ open' = {call} /\ UNCHANGED <<req, wo, eq>>
  <2>1. open = {}
    BY <1>0 DEF Begin, Serial, AdminInv, Carries
  <2> QED
    BY <1>0, <2>1 DEF Begin
<1>3. Current(call)' /\ Checked(call)'
  BY <1>1, <1>2 DEF Current, Checked, Undisturbed, OrdersOf
<1>4. OneOrderPerRequest' /\ LinksAreRight'
  BY <1>2 DEF SerialInv, OneOrderPerRequest, LinksAreRight
<1>5. due' \in [Clients -> Seq(Equipment \cup {None})]
  <2>1. \A d \in Clients : due[d] \in Seq(Equipment \cup {None})
    BY DEF SerialInv
  <2>2. due[c] # <<>> => Tail(due[c]) \in Seq(Equipment \cup {None})
    BY <2>1
  <2> QED
    BY <2>1, <2>2 DEF SerialInv
<1>6. ASSUME NEW x \in Equipment, Stale(x) PROVE Stale(x)'
  <2>1. PICK d \in Clients : \E i \in 1..Len(due[d]) : due[d][i] = x
    BY <1>2, <1>6 DEF Stale
  <2>2. d = c
    BY DEF Serial
  <2>3. CASE due' = due
    BY <2>1, <2>3 DEF Stale
  <2>4. CASE /\ due[c] # <<>> /\ e = Head(due[c])
             /\ due' = [due EXCEPT ![c] = Tail(@)]
    <3>1. PICK i \in 1..Len(due[c]) : due[c][i] = x
      BY <2>1, <2>2
    <3>2. /\ due[c] \in Seq(Equipment \cup {None})
          /\ due'[c] = Tail(due[c])
      BY <2>4 DEF SerialInv
    <3>3. CASE i = 1
      <4>1. call.e = x
        BY <1>1, <2>4, <3>1, <3>2, <3>3
      <4> QED
        BY <1>1, <1>2, <4>1 DEF Stale
    <3>4. CASE i # 1
      <4>1. i - 1 \in 1..Len(Tail(due[c])) /\ Tail(due[c])[i - 1] = x
        BY <3>1, <3>2, <3>4
      <4> QED
        BY <3>2, <4>1 DEF Stale
    <3> QED
      BY <3>3, <3>4
  <2> QED
    BY <2>3, <2>4
<1>7. Matched'
  BY <1>2, <1>6 DEF SerialInv, Matched
<1> QED
  BY <1>1, <1>2, <1>3, <1>4, <1>5, <1>7 DEF SerialInv

LEMMA SerialAdminHandler ==
  ASSUME Serial, AdminInv, SerialInv, NEW c \in Clients, due[c] = <<>>,
         AdminHandler(c)
  PROVE  SerialInv'
<1>1. ASSUME NEW r \in Requests, UpdateRequest(c, r) PROVE SerialInv'
  <2>1. PICK e \in Equipment, u \in Urgencies :
          /\ Begin(c, Call(c, "EDIT", r, None, e, "NONE", u, FALSE))
          /\ OrdersOf(r, wo) = {} /\ due' = due
    BY <1>1 DEF UpdateRequest
  <2>2. Checked(Call(c, "EDIT", r, None, e, "NONE", u, FALSE))
    BY <2>1 DEF Checked, Call, OnRequest, OnOrder
  <2> QED
    BY <2>1, <2>2, SerialCall DEF Unprotected
<1>2. ASSUME NEW r \in Requests, DeleteRequest(c, r) PROVE SerialInv'
  <2>1. PICK w : /\ w \in OrdersOf(r, wo) \cup {None} /\ due' = due
                 /\ Begin(c, Call(c, "DELETE_REQUEST", r, w, req[r].equipment,
                                  "NONE", FALSE, FALSE))
    BY <1>2 DEF DeleteRequest
  <2>2. Checked(Call(c, "DELETE_REQUEST", r, w, req[r].equipment, "NONE",
                     FALSE, FALSE))
    BY <2>1 DEF Checked, Call, OnRequest, OnOrder
  <2> QED
    BY <2>1, <2>2, SerialCall DEF Unprotected
<1>3. ASSUME NEW w \in WorkOrders, RemoveOrder(c, w) PROVE SerialInv'
  <2>1. /\ Begin(c, Call(c, "REMOVE_ORDER", None, w, wo[w].equipment, "NONE",
                         FALSE, FALSE))
        /\ due' = due
    BY <1>3 DEF RemoveOrder
  <2>2. Checked(Call(c, "REMOVE_ORDER", None, w, wo[w].equipment, "NONE",
                     FALSE, FALSE))
    BY DEF Checked, Call, OnRequest, OnOrder
  <2> QED
    BY <2>1, <2>2, SerialCall DEF Unprotected
<1>4. CASE SyncAllEquipmentStatuses(c)
  BY <1>4, SerialRecalculation DEF SyncAllEquipmentStatuses
<1> QED
  BY <1>1, <1>2, <1>3, <1>4 DEF AdminHandler

\* A read that puts a newer snapshot in the place of the transaction's, which
\* was current already.
LEMMA SerialRead ==
  ASSUME Serial, AdminInv, SerialInv, NEW t \in open,
         ReadRequests(t) \/ ReadOrders(t) \/ BeginDeletion(t)
  PROVE  SerialInv'
<1>1. open = {t}
  BY DEF Serial, AdminInv, Carries
<1>2. /\ UNCHANGED <<req, wo, eq, due>> /\ Current(t) /\ Checked(t)
      /\ t.op \notin Unprotected => due[t.client] = <<>>
  BY DEF ReadRequests, ReadOrders, BeginDeletion, SerialInv
<1>3. PICK u : /\ open' = {u} /\ Current(u) /\ Checked(u)
               /\ u.client = t.client /\ u.e = t.e
               /\ u.op \in Unprotected <=> t.op \in Unprotected
  <2>1. CASE ReadRequests(t)
    <3> DEFINE u == [t EXCEPT !.op = "READ_ORDERS", !.req = req]
    <3>1. open' = {u}
      BY <1>1, <2>1 DEF ReadRequests
    <3>2. /\ u.client = t.client /\ u.e = t.e /\ u.op = "READ_ORDERS"
          /\ Current(u)
      BY <1>2 DEF Current, Undisturbed
    <3> HIDE DEF u
    <3>3. Checked(u)
      BY <3>2 DEF Checked, OnRequest, OnOrder
    <3> QED
      BY <2>1, <3>1, <3>2, <3>3 DEF ReadRequests, Unprotected
  <2>2. CASE ReadOrders(t)
    <3> DEFINE u == [t EXCEPT !.op = "WRITE_STATUS", !.wo = wo]
    <3>1. open' = {u}
      BY <1>1, <2>2 DEF ReadOrders
    <3>2. /\ u.client = t.client /\ u.e = t.e /\ u.op = "WRITE_STATUS"
          /\ Current(u)
      BY <1>2 DEF Current, Undisturbed
    <3> HIDE DEF u
    <3>3. Checked(u)
      BY <3>2 DEF Checked, OnRequest, OnOrder
    <3> QED
      BY <2>2, <3>1, <3>2, <3>3 DEF ReadOrders, Unprotected
  <2>3. CASE BeginDeletion(t)
    <3> DEFINE u == [t EXCEPT !.op = "DELETING", !.req = req, !.wo = wo,
                              !.eq = eq]
    <3>1. open' = {u} /\ t.op = "DELETE_REQUEST"
      BY <1>1, <2>3 DEF BeginDeletion
    <3>2. /\ u.client = t.client /\ u.e = t.e /\ u.op = "DELETING"
          /\ u.r = t.r /\ u.w = t.w /\ Current(u)
      BY <1>2 DEF Current, Undisturbed
    <3> HIDE DEF u
    <3>3. Checked(u)
      BY <1>2, <3>1, <3>2 DEF Checked, OnRequest, OnOrder
    <3> QED
      BY <3>1, <3>2, <3>3 DEF Unprotected
  <2> QED
    BY <2>1, <2>2, <2>3
<1>4. Current(u)' /\ Checked(u)'
  BY <1>2, <1>3 DEF Current, Checked, Undisturbed, OrdersOf
<1>5. OneOrderPerRequest' /\ LinksAreRight'
  BY <1>2 DEF SerialInv, OneOrderPerRequest, LinksAreRight
<1>6. \A e \in Equipment : Stale(e) => Stale(e)'
  BY <1>1, <1>2, <1>3 DEF Stale
<1>7. Matched'
  BY <1>2, <1>6 DEF SerialInv, Matched
<1> QED
  BY <1>2, <1>3, <1>4, <1>5, <1>7 DEF SerialInv

\* The write at the end of a recalculation.
LEMMA SerialWriteStatus ==
  ASSUME Serial, AdminInv, SerialInv, NEW t \in open, WriteStatus(t)
  PROVE  SerialInv'
<1> DEFINE wrong == {e \in IF t.e = None THEN Equipment ELSE {t.e} :
                       eq[e] \notin {"DISCOMMISSIONED",
                                     DerivedStatus(e, req, wo)}}
<1>1. /\ open = {t} /\ open' = {} /\ UNCHANGED <<req, wo, due>>
      /\ t.req = req /\ t.wo = wo /\ t.eq = eq
  BY DEF Serial, AdminInv, Carries, WriteStatus, Finish, SerialInv, Current,
         Undisturbed
<1>2. eq' = [e \in Equipment |-> IF e \in wrong
                                 THEN DerivedStatus(e, req, wo) ELSE eq[e]]
  BY <1>1 DEF WriteStatus
<1>3. eq' \in [Equipment -> EquipmentStatuses \ {"DISCOMMISSIONED"}]
  BY <1>2, DerivedInService DEF SerialInv
<1>4. ASSUME NEW e \in Equipment
      PROVE  Stale(e)' \/ eq'[e] = DerivedStatus(e, req, wo)
  <2>1. CASE t.e \in {None, e}
    <3>1. eq[e] # "DISCOMMISSIONED"
      BY DEF SerialInv
    <3> QED
      BY <1>2, <2>1, <3>1
  <2>2. CASE t.e \notin {None, e}
    <3>1. Stale(e) => Stale(e)'
      BY <1>1, <2>2 DEF Stale
    <3>2. eq'[e] = eq[e]
      BY <1>2, <2>2
    <3> QED
      BY <3>1, <3>2 DEF SerialInv, Matched
  <2> QED
    BY <2>1, <2>2
<1>5. OneOrderPerRequest' /\ LinksAreRight'
  BY <1>1 DEF SerialInv, OneOrderPerRequest, LinksAreRight
<1>6. Matched'
  BY <1>1, <1>4 DEF Matched
<1> QED
  BY <1>1, <1>3, <1>5, <1>6 DEF SerialInv

\* The edit leaves to its client the recalculation of the equipment the
\* request names and of the one it named before.
LEMMA SerialWriteRequest ==
  ASSUME Serial, AdminInv, AdminInv', SerialInv, NEW t \in open,
         WriteRequest(t)
  PROVE  SerialInv'
<1> PICK before : before = req[t.r].equipment
  OBVIOUS
<1> DEFINE next == NextVersion(req[t.r])
           row == [next EXCEPT !.equipment = t.e, !.urgent = t.urgent]
<1>1. /\ open = {t} /\ \A e \in Equipment : ~Stale(e)
      /\ t.op = "EDIT" /\ t.r \in Requests /\ OrdersOf(t.r, wo) = {}
      /\ t.req = req /\ t.e \in Equipment \cup {None} /\ t.client \in Clients
  BY Alone DEF WriteRequest, Unprotected, SerialInv, Checked, OnRequest,
               Current, Undisturbed, AdminInv, Carries
<1>2. req' = [req EXCEPT ![t.r] = row] /\ UNCHANGED <<wo, eq>> /\ open' = {}
  BY <1>1 DEF WriteRequest, Finish
<1>3. row.equipment = t.e /\ row.status = req[t.r].status
  <2>1. req[t.r] \in RequestRows /\ t.urgent \in BOOLEAN
    BY <1>1 DEF AdminInv, Tables, Carries
  <2>2. next \in RequestRows /\ next.status = req[t.r].status
    BY <1>1, <2>1, RequestFieldFacts
  <2> HIDE DEF next
  <2> QED
    BY <1>1, <2>1, <2>2 DEF RequestRows
<1> HIDE DEF row, next
<1>4. /\ before \in Equipment \cup {None}
      /\ due' = [due EXCEPT ![t.client] =
                   IF before = t.e THEN <<t.e>> ELSE <<t.e, before>>]
  BY <1>1 DEF WriteRequest, ToRecalculate, AdminInv, Tables, RequestRows
<1>5. due' \in [Clients -> Seq(Equipment \cup {None})]
  <2>1. /\ <<t.e>> \in Seq(Equipment \cup {None})
        /\ <<t.e, before>> \in Seq(Equipment \cup {None})
    BY <1>1, <1>4
  <2> QED
    BY <1>4, <2>1 DEF SerialInv
<1>6. Stale(t.e)' /\ Stale(before)'
  <2>1. CASE before = t.e
    <3>1. due'[t.client] = <<t.e>>
      BY <1>1, <1>4, <2>1 DEF SerialInv
    <3>2. 1 \in 1..Len(due'[t.client]) /\ due'[t.client][1] = t.e
      BY <3>1
    <3> QED
      BY <1>1, <2>1, <3>2 DEF Stale
  <2>2. CASE before # t.e
    <3>1. due'[t.client] = <<t.e, before>>
      BY <1>1, <1>4, <2>2 DEF SerialInv
    <3>2. /\ 1 \in 1..Len(due'[t.client]) /\ due'[t.client][1] = t.e
          /\ 2 \in 1..Len(due'[t.client]) /\ due'[t.client][2] = before
      BY <3>1
    <3> QED
      BY <1>1, <3>2 DEF Stale
  <2> QED
    BY <2>1, <2>2
<1>7. ASSUME NEW e \in Equipment, e # t.e, e # before
      PROVE  eq'[e] = DerivedStatus(e, req', wo')
  <2>1. Quiet(e)
    BY <1>1, <1>2, <1>3, <1>7 DEF Quiet, SilentRequest, AdminInv, Tables
  <2>2. Tables /\ Tables'
    BY DEF AdminInv
  <2>3. DerivedStatus(e, req', wo') = DerivedStatus(e, req, wo)
    BY <2>1, <2>2, QuietStatus
  <2> QED
    BY <1>1, <1>2, <2>3 DEF SerialInv, Matched
<1>8. OneOrderPerRequest' /\ LinksAreRight'
  BY <1>1, <1>2 DEF SerialInv, OneOrderPerRequest, LinksAreRight, OrdersOf,
                    AdminInv, Tables, OrderRows
<1>9. Matched'
  BY <1>6, <1>7 DEF Matched
<1> QED
  BY <1>2, <1>5, <1>8, <1>9 DEF SerialInv

-----------------------------------------------------------------------------
(* The commits of one client.                                              *)

\* What the transaction of the only client may rely on as it commits.
LEMMA SerialFacts ==
  ASSUME AdminInv, AdminInv', SerialInv, NEW t \in open
  PROVE  /\ Checked(t)
         /\ t.req = req /\ t.wo = wo /\ t.eq = eq
         /\ req \in [Requests -> RequestRows]
         /\ wo \in [WorkOrders -> OrderRows]
         /\ req' \in [Requests -> RequestRows]
         /\ wo' \in [WorkOrders -> OrderRows]
         /\ \A r \in Requests : r # None
         /\ \A w \in WorkOrders : wo[w].request \in Requests \cup {None}
  BY NoneIsNoReference
     DEF SerialInv, Current, Undisturbed, AdminInv, Tables, OrderRows

\* The handlers that write a request without orders, and no order.
LEMMA SerialRequestWrite ==
  ASSUME Serial, AdminInv, AdminInv', SerialInv, NEW t \in open,
         t.op \notin Unprotected, NEW r \in Requests, OrdersOf(r, wo) = {},
         NEW row, req' = [req EXCEPT ![r] = row], UNCHANGED <<wo, due>>,
         open' = open \ {t}, row.equipment = t.e,
         Exists(req[r]) => req[r].equipment = t.e,
         Recalculate(t, Seen(t.req, req', {r}), t.wo)
  PROVE  SerialInv'
<1>1. Seen(t.req, req', {r}) = req' /\ t.wo = wo'
  BY SerialFacts DEF Seen
<1>2. ASSUME NEW e \in Equipment, e # t.e PROVE Quiet(e)
  <2>1. SilentRequest(req[r], e) /\ SilentRequest(req'[r], e)
    BY <1>2, SerialFacts DEF SilentRequest, Exists, Undecided
  <2>2. \A q \in Requests : q # r => req'[q] = req[q]
    BY SerialFacts
  <2> QED
    BY <2>1, <2>2 DEF Quiet
<1>3. OneOrderPerRequest' /\ LinksAreRight'
  <2>1. \A w \in WorkOrders : wo[w].request # None =>
          req'[wo[w].request] = req[wo[w].request]
    BY SerialFacts DEF OrdersOf
  <2> QED
    BY <2>1 DEF SerialInv, OneOrderPerRequest, LinksAreRight
<1> QED
  BY <1>1, <1>2, <1>3, SerialCommit

LEMMA SerialCreateRequest ==
  ASSUME Serial, AdminInv, AdminInv', SerialInv, NEW t \in open,
         CommitCreateRequest(t), due' = due
  PROVE  SerialInv'
<1>1. PICK r \in Requests :
        /\ Unused(req[r])
        /\ req' = [req EXCEPT ![r] = [status |-> "PENDING", version |-> 1,
                                      equipment |-> t.e, urgent |-> t.urgent]]
        /\ Recalculate(t, Seen(t.req, req', {r}), t.wo)
  BY DEF CommitCreateRequest
<1>2. OrdersOf(r, wo) = {} /\ ~Exists(req[r])
  BY <1>1, SerialFacts DEF OrdersOf, AdminInv, LinkedRequestsExist, Unused
<1>3. /\ t.op = "CREATE_REQUEST" /\ open' = open \ {t} /\ wo' = wo
  BY DEF CommitCreateRequest, Finish
<1> QED
  BY <1>1, <1>2, <1>3, SerialRequestWrite DEF Unprotected

\* reject, return and resubmit.
LEMMA SerialDecision ==
  ASSUME Serial, AdminInv, AdminInv', SerialInv, NEW t \in open,
         CommitReject(t) \/ CommitReturn(t) \/ CommitResubmit(t), due' = due
  PROVE  SerialInv'
<1> DEFINE rejected == [req[t.r] EXCEPT !.status = "REJECTED"]
           returned == Moved(req[t.r], "RETURNED")
           moved == Moved(req[t.r], "PENDING")
           pending == [moved EXCEPT !.urgent = t.urgent]
<1>1. /\ t.op \in {"REJECT", "RETURN", "RESUBMIT"}
      /\ open' = open \ {t} /\ wo' = wo
      /\ req' \in {[req EXCEPT ![t.r] = rejected],
                   [req EXCEPT ![t.r] = returned],
                   [req EXCEPT ![t.r] = pending]}
      /\ Recalculate(t, Seen(t.req, req', {t.r}), t.wo)
  BY DEF CommitReject, CommitReturn, CommitResubmit, Finish, SetRequest
<1>2. /\ t.r \in Requests /\ OrdersOf(t.r, wo) = {}
      /\ t.e = req[t.r].equipment /\ req[t.r] \in RequestRows
      /\ t.urgent \in BOOLEAN
  BY <1>1, SerialFacts DEF Checked, OnRequest, AdminInv, Carries
<1>3. rejected.equipment = t.e /\ returned.equipment = t.e
  BY <1>2, MovedRequest DEF RequestRows, RequestStatuses
<1>4. pending.equipment = t.e
  <2>1. moved \in RequestRows /\ moved.equipment = t.e
    BY <1>2, MovedRequest DEF RequestStatuses
  <2> HIDE DEF moved
  <2> QED
    BY <1>2, <2>1, OtherFields
<1> HIDE DEF rejected, returned, pending
<1>5. PICK row : req' = [req EXCEPT ![t.r] = row] /\ row.equipment = t.e
  BY <1>1, <1>3, <1>4
<1> QED
  BY <1>1, <1>2, <1>5, SerialRequestWrite DEF Unprotected

\* approve and create.
LEMMA SerialInsert ==
  ASSUME Serial, AdminInv, AdminInv', SerialInv, NEW t \in open,
         CommitApprove(t) \/ CommitCreateOrder(t), due' = due
  PROVE  SerialInv'
<1>1. PICK requests :
        /\ InsertOrder(t, requests) /\ open' = open \ {t}
        /\ \/ /\ t.op = "APPROVE" /\ requests = Seen(t.req, req', {t.r})
              /\ req' = [req EXCEPT ![t.r].status = "APPROVED"]
           \/ t.op = "CREATE_ORDER" /\ requests = t.req /\ req' = req
  BY DEF CommitApprove, CommitCreateOrder, Finish
<1>2. PICK w \in WorkOrders :
        /\ Unused(wo[w])
        /\ wo' = [wo EXCEPT ![w] = [status |-> t.to, version |-> 1,
                                    equipment |-> t.e, urgent |-> t.urgent,
                                    request |-> t.r,
                                    classified |-> t.classified,
                                    revived |-> FALSE]]
        /\ Recalculate(t, requests, Seen(t.wo, wo', {w}))
  BY <1>1 DEF InsertOrder, NewOrder
<1>3. /\ wo'[w].status = t.to /\ wo'[w].equipment = t.e /\ wo'[w].request = t.r
      /\ \A v \in WorkOrders \ {w} : wo'[v] = wo[v]
  BY <1>2, SerialFacts
<1>4. /\ requests = req' /\ Seen(t.wo, wo', {w}) = wo'
  BY <1>1, <1>2, SerialFacts DEF Seen
<1>5. /\ t.to \in {"PENDING", "ASSIGNED"}
      /\ t.op = "CREATE_ORDER" => t.r = None
      /\ t.r # None => OrdersOf(t.r, wo) = {}
  BY <1>1, SerialFacts DEF Checked, InsertOrder
<1>6. t.op = "APPROVE" =>
        /\ t.r \in Requests /\ req[t.r].equipment = t.e
        /\ req'[t.r].equipment = t.e /\ req'[t.r].status = "APPROVED"
        /\ \A r \in Requests : r # t.r => req'[r] = req[r]
  <2> SUFFICES ASSUME t.op = "APPROVE"
               PROVE  /\ t.r \in Requests /\ req[t.r].equipment = t.e
                      /\ req'[t.r].equipment = t.e
                      /\ req'[t.r].status = "APPROVED"
                      /\ \A r \in Requests : r # t.r => req'[r] = req[r]
    OBVIOUS
  <2>1. t.r \in Requests /\ req[t.r].equipment = t.e /\ req[t.r] \in RequestRows
    BY SerialFacts DEF Checked, OnRequest
  <2>2. req' = [req EXCEPT ![t.r].status = "APPROVED"]
    BY <1>1
  <2> QED
    BY <2>1, <2>2, SerialFacts DEF RequestRows
<1>7. ASSUME NEW e \in Equipment, e # t.e PROVE Quiet(e)
  <2>1. SilentOrder(wo[w], e) /\ SilentOrder(wo'[w], e)
    BY <1>2, <1>3, <1>7 DEF SilentOrder, Unused, Exists, Unfinished, Working
  <2>2. \A r \in Requests :
          \/ req'[r] = req[r]
          \/ SilentRequest(req[r], e) /\ SilentRequest(req'[r], e)
    BY <1>1, <1>6, <1>7 DEF SilentRequest
  <2> QED
    BY <1>3, <2>1, <2>2 DEF Quiet
<1>8. OneOrderPerRequest'
  BY <1>3, <1>5 DEF SerialInv, OneOrderPerRequest, OrdersOf
<1>9. LinksAreRight'
  <2> SUFFICES ASSUME NEW v \in WorkOrders, wo'[v].request # None
               PROVE  /\ req'[wo'[v].request].equipment = wo'[v].equipment
                      /\ req'[wo'[v].request].status \notin Undecided
                      /\ wo'[v].status \in Accepted =>
                           req'[wo'[v].request].status # "APPROVED"
    BY DEF LinksAreRight
  <2>1. CASE v = w
    <3>1. t.op = "APPROVE"
      BY <1>1, <1>3, <1>5, <2>1
    <3> QED
      BY <1>3, <1>5, <1>6, <2>1, <3>1 DEF Undecided, Accepted
  <2>2. CASE v # w
    <3>1. wo'[v] = wo[v] /\ wo[v].request \in Requests
      BY <1>3, <2>2, SerialFacts
    <3>2. req'[wo[v].request] = req[wo[v].request]
      BY <1>1, <1>5, <1>6, <3>1, SerialFacts DEF OrdersOf
    <3> QED
      BY <3>1, <3>2 DEF SerialInv, LinksAreRight
  <2> QED
    BY <2>1, <2>2
<1> QED
  BY <1>1, <1>2, <1>4, <1>7, <1>8, <1>9, SerialCommit DEF Unprotected

\* The orders of the request that transaction t is about name its equipment.
LEMMA SameEquipment ==
  ASSUME AdminInv, AdminInv', SerialInv, NEW t \in open, t.r \in Requests,
         t.e = req[t.r].equipment
  PROVE  \A w \in OrdersOf(t.r, wo) :
           wo[w].equipment = t.e /\ req[t.r].status \notin Undecided
  BY SerialFacts DEF SerialInv, LinksAreRight, OrdersOf

LEMMA SerialCancelRequest ==
  ASSUME Serial, AdminInv, AdminInv', SerialInv, NEW t \in open,
         CommitCancelRequest(t), due' = due
  PROVE  SerialInv'
<1>1. /\ t.op = "CANCEL_REQUEST" /\ open' = open \ {t}
      /\ req' = SetRequest(t.r, "CANCELLED")
      /\ wo' = [w \in WorkOrders |-> IF w \in CascadeOf(t)
                                     THEN Moved(wo[w], "CANCELLED")
                                     ELSE wo[w]]
      /\ Recalculate(t, Seen(t.req, req', {t.r}),
                     Seen(t.wo, wo', CascadeOf(t)))
  BY DEF CommitCancelRequest, Finish
<1>2. /\ t.r \in Requests /\ t.e = req[t.r].equipment
      /\ \A w \in OrdersOf(t.r, wo) : wo[w].status \notin Accepted
      /\ CascadeOf(t) \subseteq OrdersOf(t.r, wo)
  BY <1>1, SerialFacts DEF Checked, OnRequest, CascadeOf
<1>3. /\ req'[t.r].status = "CANCELLED" /\ req'[t.r].equipment = t.e
      /\ \A r \in Requests : r # t.r => req'[r] = req[r]
  <2>1. req' = [req EXCEPT ![t.r] = Moved(req[t.r], "CANCELLED")]
    BY <1>1 DEF SetRequest
  <2> QED
    BY <1>2, <2>1, SerialFacts, MovedRequest DEF RequestStatuses
<1>4. ASSUME NEW w \in WorkOrders
      PROVE  /\ w \notin CascadeOf(t) => wo'[w] = wo[w]
             /\ w \in CascadeOf(t) => wo'[w].status = "CANCELLED"
             /\ wo'[w].request = wo[w].request
             /\ wo'[w].equipment = wo[w].equipment
  <2>1. wo[w] \in OrderRows
    BY SerialFacts
  <2> QED
    BY <1>1, <2>1, MovedOrder DEF OrderStatuses
<1>5. Seen(t.req, req', {t.r}) = req' /\ Seen(t.wo, wo', CascadeOf(t)) = wo'
  BY <1>3, <1>4, SerialFacts DEF Seen
<1>6. ASSUME NEW e \in Equipment, e # t.e PROVE Quiet(e)
  <2>1. ASSUME NEW w \in CascadeOf(t)
        PROVE  SilentOrder(wo[w], e) /\ SilentOrder(wo'[w], e)
    BY <1>2, <1>4, <1>6, SameEquipment DEF SilentOrder, OrdersOf
  <2>2. SilentRequest(req[t.r], e) /\ SilentRequest(req'[t.r], e)
    BY <1>2, <1>3, <1>6 DEF SilentRequest
  <2> QED
    BY <1>3, <1>4, <2>1, <2>2 DEF Quiet
<1>7. OneOrderPerRequest'
  BY <1>4 DEF SerialInv, OneOrderPerRequest
<1>8. LinksAreRight'
  <2> SUFFICES ASSUME NEW w \in WorkOrders, wo'[w].request # None
               PROVE  /\ req'[wo'[w].request].equipment = wo'[w].equipment
                      /\ req'[wo'[w].request].status \notin Undecided
                      /\ wo'[w].status \in Accepted =>
                           req'[wo'[w].request].status # "APPROVED"
    BY DEF LinksAreRight
  <2>1. CASE wo[w].request = t.r
    BY <1>2, <1>3, <1>4, <2>1, SameEquipment DEF OrdersOf, Undecided
  <2>2. CASE wo[w].request # t.r
    <3>1. wo'[w] = wo[w] /\ wo[w].request \in Requests
      BY <1>2, <1>4, <2>2, SerialFacts DEF OrdersOf
    <3> QED
      BY <1>3, <2>2, <3>1 DEF SerialInv, LinksAreRight
  <2> QED
    BY <2>1, <2>2
<1> QED
  BY <1>1, <1>5, <1>6, <1>7, <1>8, SerialCommit DEF Unprotected

\* findOne finds the request closed already: it changes nothing that a status
\* depends on, which is why it needs no recalculation.
LEMMA SerialFindOne ==
  ASSUME Serial, AdminInv, AdminInv', SerialInv, NEW t \in open,
         CommitFindOne(t), due' = due
  PROVE  SerialInv'
<1>1. /\ t.op = "FIND_ONE" /\ open' = open \ {t} /\ UNCHANGED <<wo, eq>>
      /\ req' = [req EXCEPT ![t.r].status = "CLOSED"]
  BY DEF CommitFindOne, Finish
<1>2. /\ t.r \in Requests /\ t.w \in OrdersOf(t.r, wo)
      /\ wo[t.w].status \in Accepted
  BY <1>1, SerialFacts DEF Checked, OnRequest
<1>3. req[t.r].status \notin Undecided \cup {"APPROVED"}
  BY <1>2, SerialFacts DEF SerialInv, LinksAreRight, OrdersOf
<1>4. /\ req'[t.r].status = "CLOSED"
      /\ req'[t.r].equipment = req[t.r].equipment
      /\ \A r \in Requests : r # t.r => req'[r] = req[r]
  BY <1>1, <1>2, SerialFacts DEF RequestRows
<1>5. \A e \in Equipment : Quiet(e)
  BY <1>1, <1>3, <1>4 DEF Quiet, SilentRequest, Undecided
<1>6. open = {t} /\ \A e \in Equipment : ~Stale(e)
  BY <1>1, Alone DEF Unprotected
<1>7. ASSUME NEW e \in Equipment PROVE eq'[e] = DerivedStatus(e, req', wo')
  BY <1>1, <1>5, <1>6, QuietStatus DEF AdminInv, SerialInv, Matched
<1>8. OneOrderPerRequest'
  BY <1>1 DEF SerialInv, OneOrderPerRequest
<1>9. LinksAreRight'
  <2> SUFFICES ASSUME NEW w \in WorkOrders, wo[w].request # None
               PROVE  /\ req'[wo[w].request].equipment = wo[w].equipment
                      /\ req'[wo[w].request].status \notin Undecided
                      /\ wo[w].status \in Accepted =>
                           req'[wo[w].request].status # "APPROVED"
    BY <1>1 DEF LinksAreRight
  <2>1. wo[w].request \in Requests
    BY SerialFacts
  <2> QED
    BY <1>4, <2>1 DEF SerialInv, LinksAreRight, Undecided
<1> QED
  BY <1>1, <1>6, <1>7, <1>8, <1>9 DEF SerialInv, Matched

\* A clock-in turns one kind of work to do into another, which is why it needs
\* no recalculation either.
LEMMA SerialStartWorkSession ==
  ASSUME Serial, AdminInv, AdminInv', SerialInv, NEW t \in open,
         CommitStartWorkSession(t), due' = due
  PROVE  SerialInv'
<1>1. /\ t.op = "START_SESSION" /\ open' = open \ {t} /\ UNCHANGED <<req, eq>>
      /\ wo' = [wo EXCEPT ![t.w] = ClockedIn(wo[t.w])]
  BY DEF CommitStartWorkSession, Finish
<1>2. /\ t.w \in WorkOrders /\ wo[t.w].status \in Startable
      /\ wo[t.w] \in OrderRows
  BY <1>1, SerialFacts DEF Checked
<1>3. /\ wo'[t.w].status = "IN_PROGRESS"
      /\ wo'[t.w].equipment = wo[t.w].equipment
      /\ wo'[t.w].urgent = wo[t.w].urgent
      /\ wo'[t.w].request = wo[t.w].request
      /\ \A w \in WorkOrders : w # t.w => wo'[w] = wo[w]
  BY <1>1, <1>2, ClockedInFacts, SerialFacts
<1>4. \A e \in Equipment : Quiet(e)
  BY <1>1, <1>2, <1>3 DEF Quiet, Startable, Working
<1>5. open = {t} /\ \A e \in Equipment : ~Stale(e)
  BY <1>1, Alone DEF Unprotected
<1>6. ASSUME NEW e \in Equipment PROVE eq'[e] = DerivedStatus(e, req', wo')
  BY <1>1, <1>4, <1>5, QuietStatus DEF AdminInv, SerialInv, Matched
<1>7. \A w \in WorkOrders : wo'[w].request = wo[w].request
  BY <1>3
<1>8. OneOrderPerRequest'
  BY <1>7 DEF SerialInv, OneOrderPerRequest
<1>9. LinksAreRight'
  BY <1>1, <1>3 DEF SerialInv, LinksAreRight, Accepted
<1> QED
  BY <1>1, <1>5, <1>6, <1>8, <1>9 DEF SerialInv, Matched

\* What a status change does to the rows, when it is alone.
LEMMA SerialUpdateFacts ==
  ASSUME AdminInv, AdminInv', SerialInv, NEW t \in open, CommitUpdate(t)
  PROVE  /\ t.w \in WorkOrders /\ t.r = wo[t.w].request
         /\ t.e = wo[t.w].equipment /\ t.r \in Requests \cup {None}
         /\ wo'[t.w].status = t.to
         /\ wo'[t.w].equipment = t.e /\ wo'[t.w].request = t.r
         /\ \A w \in WorkOrders : w # t.w => wo'[w] = wo[w]
         /\ t.r # None => /\ req[t.r].equipment = t.e
                          /\ req[t.r].status \notin Undecided \cup {"NONE"}
<1>1. t.op \in {"UPDATE_STATUS", "ASSESS"}
  BY DEF CommitUpdate
<1>2. /\ t.w \in WorkOrders /\ t.r = wo[t.w].request
      /\ t.e = wo[t.w].equipment /\ t.r \in Requests \cup {None}
      /\ CanTransition(wo[t.w].status, t.to) /\ wo[t.w] \in OrderRows
      /\ t.classified \in BOOLEAN
  BY <1>1, SerialFacts DEF Checked, OnOrder, AdminInv, Carries
<1> DEFINE moved == Moved(wo[t.w], t.to)
           row == Classified(moved, t.classified)
<1>3. /\ moved \in OrderRows /\ moved.status = t.to
      /\ moved.equipment = t.e /\ moved.request = t.r
  BY <1>2, TransitionFacts, MovedOrder
<1>4. wo' = [wo EXCEPT ![t.w] = row]
  BY DEF CommitUpdate
<1> HIDE DEF moved
<1>5. row.status = t.to /\ row.equipment = t.e /\ row.request = t.r
  BY <1>2, <1>3, OtherFields
<1> HIDE DEF row
<1>6. t.r # None => /\ req[t.r].equipment = t.e
                    /\ req[t.r].status \notin Undecided
                    /\ Exists(req[t.r])
  BY <1>2 DEF SerialInv, LinksAreRight, AdminInv, LinkedRequestsExist
<1> QED
  BY <1>2, <1>4, <1>5, <1>6, SerialFacts DEF Exists

\* What it does to the request: an acceptance leaves it closed.
LEMMA SerialUpdatedRequest ==
  ASSUME AdminInv, AdminInv', SerialInv, NEW t \in open, CommitUpdate(t)
  PROVE  /\ \A r \in Requests : r # t.r => req'[r] = req[r]
         /\ t.r # None =>
              /\ req'[t.r].equipment = t.e
              /\ req'[t.r].status \notin Undecided
              /\ t.to \in Accepted => req'[t.r].status # "APPROVED"
         /\ \/ ClosesRequest(t) \/ ReopensRequest(t)
            \/ req' = req
<1>1. CASE ~ClosesRequest(t) /\ ~ReopensRequest(t)
  <2>1. req' = req
    BY <1>1 DEF CommitUpdate
  <2>2. t.r # None /\ t.to \in Accepted => req[t.r].status = "CLOSED"
    BY <1>1, SerialUpdateFacts DEF ClosesRequest
  <2> QED
    BY <2>1, <2>2, SerialUpdateFacts
<1>2. CASE ClosesRequest(t) \/ ReopensRequest(t)
  <2>1. t.r \in Requests /\ req[t.r] \in RequestRows
    BY <1>2, SerialUpdateFacts, SerialFacts DEF ClosesRequest, ReopensRequest
  <2>2. PICK s \in {"CLOSED", "APPROVED"} :
          /\ req' = [req EXCEPT ![t.r] = Moved(req[t.r], s)]
          /\ t.to \in Accepted => s = "CLOSED"
    BY <1>2 DEF CommitUpdate, SetRequest, ReopensRequest, Accepted
  <2>3. /\ Moved(req[t.r], s).status = s
        /\ Moved(req[t.r], s).equipment = req[t.r].equipment
    BY <2>1, MovedRequest DEF RequestStatuses
  <2>4. /\ req'[t.r].status = s /\ req'[t.r].equipment = req[t.r].equipment
        /\ \A r \in Requests : r # t.r => req'[r] = req[r]
    BY <2>1, <2>2, <2>3, SerialFacts
  <2> QED
    BY <1>2, <2>1, <2>2, <2>4, SerialUpdateFacts DEF Undecided
<1> QED
  BY <1>1, <1>2

LEMMA SerialUpdate ==
  ASSUME Serial, AdminInv, AdminInv', SerialInv, NEW t \in open,
         CommitUpdate(t), due' = due
  PROVE  SerialInv'
<1>1. t.op \notin Unprotected /\ open' = open \ {t}
  BY DEF CommitUpdate, Finish, Unprotected
<1>2. PICK touched :
        /\ Recalculate(t, Seen(t.req, req', touched), Seen(t.wo, wo', {t.w}))
        /\ ClosesRequest(t) \/ ReopensRequest(t) => touched = {t.r}
  BY DEF CommitUpdate
<1>3. Seen(t.req, req', touched) = req'
  <2>1. \A r \in Requests \ touched : req'[r] = req[r]
    BY <1>2, SerialUpdatedRequest
  <2> QED
    BY <2>1, SerialFacts DEF Seen
<1>4. Seen(t.wo, wo', {t.w}) = wo'
  BY SerialFacts, SerialUpdateFacts DEF Seen
<1>5. ASSUME NEW e \in Equipment, e # t.e PROVE Quiet(e)
  <2>1. SilentOrder(wo[t.w], e) /\ SilentOrder(wo'[t.w], e)
    BY <1>5, SerialUpdateFacts DEF SilentOrder
  <2>2. t.r # None => SilentRequest(req[t.r], e) /\ SilentRequest(req'[t.r], e)
    BY <1>5, SerialUpdateFacts, SerialUpdatedRequest DEF SilentRequest
  <2>3. \A r \in Requests : r # None
    BY SerialFacts
  <2> QED
    BY <2>1, <2>2, <2>3, SerialUpdateFacts, SerialUpdatedRequest DEF Quiet
<1>6. OneOrderPerRequest'
  BY SerialUpdateFacts DEF SerialInv, OneOrderPerRequest
<1>7. LinksAreRight'
  <2> SUFFICES ASSUME NEW w \in WorkOrders, wo'[w].request # None
               PROVE  /\ req'[wo'[w].request].equipment = wo'[w].equipment
                      /\ req'[wo'[w].request].status \notin Undecided
                      /\ wo'[w].status \in Accepted =>
                           req'[wo'[w].request].status # "APPROVED"
    BY DEF LinksAreRight
  <2>1. CASE w = t.w
    BY <2>1, SerialUpdateFacts, SerialUpdatedRequest
  <2>2. CASE w # t.w
    <3>1. wo'[w] = wo[w] /\ wo[w].request \in Requests
      BY <2>2, SerialUpdateFacts, SerialFacts
    <3>2. wo[w].request # t.r
      BY <2>2, <3>1, SerialUpdateFacts, SerialFacts
         DEF SerialInv, OneOrderPerRequest
    <3> QED
      BY <3>1, <3>2, SerialUpdatedRequest, SerialFacts
         DEF SerialInv, LinksAreRight
  <2> QED
    BY <2>1, <2>2
<1> QED
  BY <1>1, <1>2, <1>3, <1>4, <1>5, <1>6, <1>7, SerialCommit

\* A deleted order has no status of work and no equipment.
LEMMA DeletedStatus ==
  /\ \A row : Deleted(row, NoRequestRow).status = "NONE"
  /\ \A row : Deleted(row, NoOrderRow).status = "NONE"
  BY DEF Deleted, NoRequestRow, NoOrderRow

LEMMA SerialRemoval ==
  ASSUME Serial, AdminInv, AdminInv', SerialInv, NEW t \in open,
         CommitRemoval(t)
  PROVE  SerialInv'
<1> DEFINE row == Deleted(wo[t.w], NoOrderRow)
<1>1. /\ t.op = "REMOVE_ORDER" /\ open' = open \ {t}
      /\ wo' = [wo EXCEPT ![t.w] = row] /\ UNCHANGED <<req, due>>
      /\ Recalculate(t, t.req, Seen(t.wo, wo', {t.w}))
  BY DEF CommitRemoval, Finish
<1>2. t.w \in WorkOrders /\ t.e = wo[t.w].equipment
  BY <1>1, SerialFacts DEF Checked, OnOrder
<1>3. row.status = "NONE" /\ row.request = None
  BY <1>2, DeletedStatus, DeletedFacts, SerialFacts
<1> HIDE DEF row
<1>4. /\ wo'[t.w].status = "NONE" /\ wo'[t.w].request = None
      /\ \A w \in WorkOrders : w # t.w => wo'[w] = wo[w]
  BY <1>1, <1>2, <1>3, SerialFacts
<1>5. t.req = req' /\ Seen(t.wo, wo', {t.w}) = wo'
  BY <1>1, <1>4, SerialFacts DEF Seen
<1>6. ASSUME NEW e \in Equipment, e # t.e PROVE Quiet(e)
  BY <1>1, <1>2, <1>4, <1>6 DEF Quiet, SilentOrder, Unfinished, Working
<1>7. OneOrderPerRequest' /\ LinksAreRight'
  BY <1>1, <1>4 DEF SerialInv, OneOrderPerRequest, LinksAreRight
<1> QED
  BY <1>1, <1>5, <1>6, <1>7, SerialCommit DEF Unprotected

LEMMA SerialDeletion ==
  ASSUME Serial, AdminInv, AdminInv', SerialInv, NEW t \in open,
         CommitDeletion(t)
  PROVE  SerialInv'
<1> DEFINE gone == Deleted(req[t.r], NoRequestRow)
           changed == {w \in WorkOrders : wo'[w] # wo[w]}
<1>1. /\ t.op = "DELETING" /\ open' = open \ {t} /\ due' = due
      /\ req' = [req EXCEPT ![t.r] = gone]
      /\ wo' = [w \in WorkOrders |-> IF w = t.w
                                     THEN Deleted(wo[w], NoOrderRow)
                                     ELSE Unlinked(t, wo[w])]
      /\ Recalculate(t, Seen(t.req, req', {t.r}), Seen(t.wo, wo', changed))
  BY DEF CommitDeletion, Finish
<1>2. /\ t.r \in Requests /\ t.e = req[t.r].equipment
      /\ t.w \in OrdersOf(t.r, wo) \cup {None}
  BY <1>1, SerialFacts DEF Checked, OnRequest
<1>3. gone.status = "NONE"
  BY DeletedStatus
<1> HIDE DEF gone
<1>4. /\ req'[t.r].status = "NONE"
      /\ \A r \in Requests : r # t.r => req'[r] = req[r]
  BY <1>1, <1>2, <1>3, SerialFacts
<1>5. ASSUME NEW w \in WorkOrders
      PROVE  \/ /\ w = t.w
                /\ wo'[w].status = "NONE" /\ wo'[w].request = None
             \/ /\ wo'[w].status = wo[w].status
                /\ wo'[w].equipment = wo[w].equipment
                /\ wo'[w].urgent = wo[w].urgent
                /\ IF wo[w].request = t.r THEN wo'[w].request = None
                                          ELSE wo'[w] = wo[w]
  <2>1. wo[w] \in OrderRows
    BY SerialFacts
  <2>2. CASE w = t.w
    BY <1>1, <2>1, <2>2, DeletedStatus, DeletedFacts
  <2>3. CASE w # t.w
    <3>1. wo'[w] = Unlinked(t, wo[w])
      BY <1>1, <2>3
    <3> QED
      BY <2>1, <3>1 DEF Unlinked, OrderRows
  <2> QED
    BY <2>2, <2>3
<1>6. Seen(t.req, req', {t.r}) = req' /\ Seen(t.wo, wo', changed) = wo'
  BY <1>4, SerialFacts DEF Seen
<1> HIDE DEF changed
<1>7. ASSUME NEW e \in Equipment, e # t.e PROVE Quiet(e)
  <2>1. SilentRequest(req[t.r], e) /\ SilentRequest(req'[t.r], e)
    BY <1>2, <1>4, <1>7 DEF SilentRequest, Undecided
  <2>2. t.w \in WorkOrders => SilentOrder(wo[t.w], e)
    BY <1>2, <1>7, SameEquipment, NoneIsNoReference DEF SilentOrder
  <2>3. ASSUME NEW w \in WorkOrders
        PROVE  \/ /\ wo'[w].status = wo[w].status
                  /\ wo'[w].equipment = wo[w].equipment
                  /\ wo'[w].urgent = wo[w].urgent
               \/ SilentOrder(wo[w], e) /\ SilentOrder(wo'[w], e)
    BY <1>5, <2>2 DEF SilentOrder, Unfinished, Working
  <2> QED
    BY <1>4, <2>1, <2>3 DEF Quiet
<1>8. OneOrderPerRequest'
  <2>1. \A w \in WorkOrders :
          wo'[w].request # None => wo'[w].request = wo[w].request
    BY <1>5
  <2> QED
    BY <2>1 DEF SerialInv, OneOrderPerRequest
<1>9. LinksAreRight'
  <2> SUFFICES ASSUME NEW w \in WorkOrders, wo'[w].request # None
               PROVE  /\ req'[wo'[w].request].equipment = wo'[w].equipment
                      /\ req'[wo'[w].request].status \notin Undecided
                      /\ wo'[w].status \in Accepted =>
                           req'[wo'[w].request].status # "APPROVED"
    BY DEF LinksAreRight
  <2>1. wo'[w] = wo[w] /\ wo[w].request # t.r /\ wo[w].request \in Requests
    BY <1>5, SerialFacts
  <2> QED
    BY <1>4, <2>1 DEF SerialInv, LinksAreRight
<1> QED
  BY <1>1, <1>6, <1>7, <1>8, <1>9, SerialCommit DEF Unprotected

-----------------------------------------------------------------------------
LEMMA SerialNext ==
  ASSUME Serial, AdminInv, AdminInv', SerialInv, [AdminNext]_adminVars
  PROVE  SerialInv'
<1>1. ASSUME NEW c \in Clients, due[c] = <<>>,
             \/ (RequestHandler(c) \/ OrderHandler(c)) /\ UNCHANGED due
             \/ AdminHandler(c)
      PROVE  SerialInv'
  BY <1>1, SerialRequestHandler, SerialOrderHandler, SerialAdminHandler
<1>2. ASSUME NEW c \in Clients, StartRecalculation(c) PROVE SerialInv'
  BY <1>2, SerialRecalculation DEF StartRecalculation
<1>3. ASSUME NEW t \in open, Commit(t), due' = due PROVE SerialInv'
  BY <1>3, SerialCreateRequest, SerialInsert, SerialDecision,
     SerialCancelRequest, SerialFindOne, SerialUpdate, SerialStartWorkSession
     DEF Commit
<1>4. ASSUME NEW t \in open, AdminStep(t) PROVE SerialInv'
  BY <1>4, SerialWriteRequest, SerialRead, SerialWriteStatus, SerialDeletion,
     SerialRemoval DEF AdminStep
<1>5. ASSUME NEW t \in open, t.op \notin Unprotected, Rollback(t), due' = due
      PROVE  SerialInv'
  BY <1>5, SerialIdle DEF Rollback, Finish
<1>6. CASE UNCHANGED adminVars
  BY <1>6, SerialIdle DEF adminVars
<1> QED
  BY <1>1, <1>2, <1>3, <1>4, <1>5, <1>6 DEF AdminNext

\* Whatever one client does, in whatever order, edits, deletions and
\* synchronisations included: once its last call is through, the status of
\* every piece of equipment is the one the requests and orders call for.
THEOREM StatusMatchesWork ==
  ASSUME Serial PROVE AdminSpec => []EquipmentMatchesWork
<1>1. SerialInv => EquipmentMatchesWork
  <2> SUFFICES ASSUME SerialInv, open = {}, \A c \in Clients : due[c] = <<>>
               PROVE  \A e \in Equipment : eq[e] = DerivedStatus(e, req, wo)
    BY DEF EquipmentMatchesWork
  <2>1. \A e \in Equipment : ~Stale(e)
    BY DEF Stale
  <2> QED
    BY <2>1 DEF SerialInv, Matched
<1>2. AdminInit => AdminInv /\ SerialInv
  BY InitInv, SerialStarts
<1>3. AdminInv /\ SerialInv /\ [AdminNext]_adminVars => (AdminInv /\ SerialInv)'
  BY NextKeeps, SerialNext
<1> QED
  BY <1>1, <1>2, <1>3, PTL DEF AdminSpec
=============================================================================
