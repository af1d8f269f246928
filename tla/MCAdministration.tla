-------------------------- MODULE MCAdministration --------------------------
(***************************************************************************)
(* Instances of Administration for TLC.                                    *)
(***************************************************************************)
EXTENDS Administration, MCMaintenance

\* A synchronisation makes use of all it has read.
AdminAbstracted(t) ==
  IF t.e = None
  THEN [client |-> t.client, op |-> t.op, eq |-> t.eq,
        req |-> [r \in Requests |-> <<RequestClass(t.req[r]),
                                      t.req[r].equipment>>],
        wo |-> [w \in WorkOrders |-> <<OrderClass(t.wo[w]),
                                       t.wo[w].equipment>>]]
  ELSE Abstracted(t)

\* classify is the only handler that asks whether an order was classified.
Unclassified(table) ==
  [w \in WorkOrders |-> [table[w] EXCEPT !.classified = FALSE]]

AdminView ==
  <<WithoutVersion(req), Unclassified(WithoutVersion(wo)), eq,
    {AdminAbstracted(t) : t \in open}, due>>

AdminSymmetry == Symmetry \cup Permutations(Equipment)

\* Everything but classify, and the orders opened by hand for a request.
OneAtATime ==
  RequestSide \cup (OrderSide \ {"classify"})
    \cup {"updateRequest", "deleteRequest", "removeOrder", "syncAll"}

\* ApproveRaces, and what administrators do to requests meanwhile.
DeletionRaces ==
  ApproveRaces \cup {"updateRequest", "deleteRequest"}

LateEdit == {"createRequest", "approve", "updateRequest"}
=============================================================================
