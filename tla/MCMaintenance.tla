--------------------------- MODULE MCMaintenance ----------------------------
(***************************************************************************)
(* Instances of Maintenance for TLC.  Versions grow without bound and      *)
(* snapshots hold whole tables, but little of them matters: View keeps     *)
(* what the guards, the writes and the properties can still tell apart.    *)
(***************************************************************************)
EXTENDS Maintenance, TLC

\* Of the version of a row without a status only whether it was deleted.
WithoutVersion(table) ==
  [x \in DOMAIN table |->
     [table[x] EXCEPT !.version = IF Exists(table[x]) \/ Unused(table[x])
                                  THEN 0 ELSE 1]]

\* A transaction that can only roll back: its conditional UPDATE will match no
\* row, because versions never come back.
Doomed(t) ==
  \/ t.op \in {"UPDATE_STATUS", "ASSESS"} /\ ~OrderUnmoved(t)
  \/ t.op \in {"RETURN", "RESUBMIT", "CANCEL_REQUEST"} /\ ~RequestUnmoved(t)

\* What a snapshot tells the recalculation about a request or an order.
RequestClass(row) ==
  IF row.status \in Undecided THEN "undecided"
  ELSE IF row.status = "APPROVED" THEN "approved" ELSE "settled"

OrderClass(row) ==
  IF row.status \notin Unfinished THEN "settled"
  ELSE IF row.urgent /\ row.status \in Working THEN "urgent" ELSE "unfinished"

\* What VersionIdentifiesOrder can still tell of the orders whose version has
\* not moved since the snapshot: whether the row is one that a clock-in may
\* have changed, or has to be as it was.
Unmoved(t) ==
  {<<w, t.wo[w].status = wo[w].status \/ t.wo[w].status \in Startable>> :
     w \in {v \in WorkOrders : t.wo[v].version = wo[v].version}}

\* A transaction, with its snapshot reduced to what it can still make use of.
Abstracted(t) ==
  IF Doomed(t) THEN [client |-> t.client, unmoved |-> Unmoved(t)]
  ELSE IF t.op = "START_SESSION"
  THEN [client |-> t.client, unmoved |-> Unmoved(t), w |-> t.w]
  ELSE [client |-> t.client, unmoved |-> Unmoved(t), op |-> t.op, r |-> t.r,
        w |-> t.w, e |-> t.e, to |-> t.to, urgent |-> t.urgent,
        classified |-> t.classified,
        req |-> [r \in Requests |->
                   <<Exists(t.req[r]), RequestClass(t.req[r]),
                     t.req[r].equipment>>],
        wo |-> [w \in WorkOrders |->
                  <<Exists(t.wo[w]), OrderClass(t.wo[w]), t.wo[w].equipment,
                    t.wo[w].request>>],
        eq |-> t.eq[t.e],
        undisturbed |-> Undisturbed(t)]

View ==
  <<WithoutVersion(req), WithoutVersion(wo), eq, {Abstracted(t) : t \in open}>>

Symmetry == Permutations(Clients) \cup Permutations(Requests)
            \cup Permutations(WorkOrders)

\* The handlers of the life of one request.
RequestSide == {"createRequest", "approve", "reject", "returnRequest",
                "resubmitRequest", "cancelRequest", "findOne"}

\* The handlers of the life of one order.
OrderSide == {"createOrder", "assign", "classify", "startWithAssessment",
              "start", "pause", "resume", "complete", "escalate",
              "submitHandover", "acceptHandover", "rejectHandover",
              "qaReject", "reopen", "qaVerify", "verify", "close", "cancel",
              "startWorkSession"}

RequestRaces ==
  RequestSide \cup {"createOrder", "linkOrder", "start", "complete", "verify",
                    "reopen", "cancel", "startWorkSession"}

ApproveRaces == {"createRequest", "approve", "returnRequest",
                 "resubmitRequest", "cancelRequest", "createOrder",
                 "linkOrder"}

OrderRaces ==
  OrderSide \cup {"createRequest", "approve", "cancelRequest"}

EquipmentRaces == {"createRequest", "reject", "createOrder", "assign", "start",
                   "complete", "verify"}
=============================================================================
