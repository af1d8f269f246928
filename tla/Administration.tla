--------------------------- MODULE Administration ---------------------------
(***************************************************************************)
(* What administrators do to the rows that the handlers of Maintenance     *)
(* work on: edit a request, delete a request with its order, remove an     *)
(* order, and recalculate the status of all equipment.                     *)
(*                                                                         *)
(* None of them is the two steps of a transaction of Maintenance.  The     *)
(* edit and the synchronisation run in no transaction, statement by        *)
(* statement, and the deletion begins its own after it has read what to    *)
(* delete.  A row that was deleted keeps a version above 0: its identifier *)
(* is not given out again.                                                 *)
(***************************************************************************)
EXTENDS Maintenance, Sequences

VARIABLE
  due  \* the equipment whose status a client's edit has still to recalculate

adminVars == <<req, wo, eq, open, due>>

AdminInit ==
  /\ Init
  /\ due = [c \in Clients |-> <<>>]

\* The row that stands for a deleted one.
Deleted(row, none) == [none EXCEPT !.version = row.version + 1]

-----------------------------------------------------------------------------
(***************************************************************************)
(* update (requests).                                                      *)
(***************************************************************************)

\* Read the request, and refuse when it is closed or has become an order.
UpdateRequest(c, r) ==
  /\ "updateRequest" \in Handlers
  /\ req[r].status \notin {"NONE", "CLOSED"}
  /\ OrdersOf(r, wo) = {}
  /\ \E e \in Equipment, u \in Urgencies :
       Begin(c, Call(c, "EDIT", r, None, e, "NONE", u, FALSE))
  /\ UNCHANGED due

\* Fault: only the equipment the request now names is recalculated.
ToRecalculateNewOnly(t) == <<t.e>>

\* The equipment whose status depends on the edit, in the order of the calls.
ToRecalculate(t) ==
  LET before == t.req[t.r].equipment
  IN  IF before = t.e THEN <<t.e>> ELSE <<t.e, before>>

\* The write is by id: whatever the request has become since it was read.
WriteRequest(t) ==
  /\ t.op = "EDIT"
  /\ Unlocked(t.r, t.client)
  /\ Exists(req[t.r])
  /\ req' = [req EXCEPT ![t.r] =
               [NextVersion(@) EXCEPT !.equipment = t.e, !.urgent = t.urgent]]
  /\ due' = [due EXCEPT ![t.client] = ToRecalculate(t)]
  /\ Finish(t)
  /\ UNCHANGED <<wo, eq>>

-----------------------------------------------------------------------------
(***************************************************************************)
(* The recalculation outside a transaction: of one piece of equipment at   *)
(* the end of an edit (t.e names it), of all of them in                    *)
(* syncAllEquipmentStatuses (t.e is None).  The equipment, the requests    *)
(* and the orders are read one after the other, each as it is then.        *)
(***************************************************************************)

StartRecalculation(c) ==
  /\ due[c] # <<>>
  /\ Begin(c, Call(c, "READ_REQUESTS", None, None, Head(due[c]), "NONE",
                   FALSE, FALSE))
  /\ due' = [due EXCEPT ![c] = Tail(@)]

SyncAllEquipmentStatuses(c) ==
  /\ "syncAll" \in Handlers
  /\ Begin(c, Call(c, "READ_REQUESTS", None, None, None, "NONE", FALSE, FALSE))
  /\ UNCHANGED due

ReadRequests(t) ==
  /\ t.op = "READ_REQUESTS"
  /\ open' = (open \ {t}) \cup {[t EXCEPT !.op = "READ_ORDERS", !.req = req]}
  /\ UNCHANGED <<req, wo, eq, due>>

ReadOrders(t) ==
  /\ t.op = "READ_ORDERS"
  /\ open' = (open \ {t}) \cup {[t EXCEPT !.op = "WRITE_STATUS", !.wo = wo]}
  /\ UNCHANGED <<req, wo, eq, due>>

\* The writes are by id, where the status read was neither right nor that of
\* equipment out of service.
WriteStatus(t) ==
  LET wrong == {e \in IF t.e = None THEN Equipment ELSE {t.e} :
                  t.eq[e] \notin {"DISCOMMISSIONED",
                                  DerivedStatus(e, t.req, t.wo)}}
  IN  /\ t.op = "WRITE_STATUS"
      /\ eq' = [e \in Equipment |-> IF e \in wrong
                                    THEN DerivedStatus(e, t.req, t.wo)
                                    ELSE eq[e]]
      /\ Finish(t)
      /\ UNCHANGED <<req, wo, due>>

-----------------------------------------------------------------------------
(***************************************************************************)
(* Deletions.                                                              *)
(***************************************************************************)

\* delete (requests): read the request and its order, if it has one.
DeleteRequest(c, r) ==
  /\ "deleteRequest" \in Handlers
  /\ Exists(req[r])
  /\ \E w \in IF OrdersOf(r, wo) = {} THEN {None} ELSE OrdersOf(r, wo) :
       Begin(c, Call(c, "DELETE_REQUEST", r, w, req[r].equipment, "NONE",
                     FALSE, FALSE))
  /\ UNCHANGED due

\* Its transaction begins: what it reads from here on is a newer snapshot.
BeginDeletion(t) ==
  /\ t.op = "DELETE_REQUEST"
  /\ open' = (open \ {t}) \cup
             {[t EXCEPT !.op = "DELETING", !.req = req, !.wo = wo, !.eq = eq]}
  /\ UNCHANGED <<req, wo, eq, due>>

\* Fault: neither the deletion nor the foreign key touches an order that the
\* handler has not read.
StillLinked(t, row) == row

\* An order of the request loses its link to it.
Unlinked(t, row) ==
  IF row.request = t.r THEN [row EXCEPT !.request = None] ELSE row

\* It deletes the order it read before, whatever has become of it, and unlinks
\* one that was opened since.
CommitDeletion(t) ==
  /\ t.op = "DELETING"
  /\ Unlocked(t.r, t.client)
  /\ Exists(req[t.r])
  /\ t.w # None => Exists(wo[t.w])
  /\ wo' = [w \in WorkOrders |->
              IF w = t.w THEN Deleted(wo[w], NoOrderRow)
              ELSE Unlinked(t, wo[w])]
  /\ req' = [req EXCEPT ![t.r] = Deleted(@, NoRequestRow)]
  /\ Recalculate(t, Seen(t.req, req', {t.r}),
                 Seen(t.wo, wo', {w \in WorkOrders : wo'[w] # wo[w]}))
  /\ Finish(t)
  /\ UNCHANGED due

\* remove (work orders), in any status: the linked request is left as it is.
RemoveOrder(c, w) ==
  /\ "removeOrder" \in Handlers
  /\ Exists(wo[w])
  /\ Begin(c, Call(c, "REMOVE_ORDER", None, w, wo[w].equipment, "NONE", FALSE,
                   FALSE))
  /\ UNCHANGED due

CommitRemoval(t) ==
  /\ t.op = "REMOVE_ORDER"
  /\ Exists(wo[t.w])
  /\ wo' = [wo EXCEPT ![t.w] = Deleted(@, NoOrderRow)]
  /\ Recalculate(t, t.req, Seen(t.wo, wo', {t.w}))
  /\ Finish(t)
  /\ UNCHANGED <<req, due>>

-----------------------------------------------------------------------------
AdminHandler(c) ==
  \/ \E r \in Requests : UpdateRequest(c, r) \/ DeleteRequest(c, r)
  \/ \E w \in WorkOrders : RemoveOrder(c, w)
  \/ SyncAllEquipmentStatuses(c)

AdminStep(t) ==
  \/ WriteRequest(t)
  \/ ReadRequests(t)
  \/ ReadOrders(t)
  \/ WriteStatus(t)
  \/ BeginDeletion(t)
  \/ CommitDeletion(t)
  \/ CommitRemoval(t)

\* Statements that run in no transaction do not fail here: an edit or a
\* synchronisation that stops half way leaves statuses as they were.
Unprotected == {"READ_REQUESTS", "READ_ORDERS", "WRITE_STATUS"}

AdminNext ==
  \/ \E c \in Clients :
       /\ due[c] = <<>>
       /\ \/ (RequestHandler(c) \/ OrderHandler(c)) /\ UNCHANGED due
          \/ AdminHandler(c)
  \/ \E c \in Clients : StartRecalculation(c)
  \/ \E t \in open : \/ Commit(t) /\ UNCHANGED due
                     \/ AdminStep(t)
                     \/ t.op \notin Unprotected /\ Rollback(t) /\ UNCHANGED due

AdminSpec == AdminInit /\ [][AdminNext]_adminVars

-----------------------------------------------------------------------------
(***************************************************************************)
(* Properties.                                                             *)
(***************************************************************************)

\* When nobody is at work the status of the equipment is the one the requests
\* and orders call for, whatever was edited, deleted or synchronised before.
\* It holds as long as handlers do not overlap, no order is opened by hand for
\* a request about other equipment, and nobody edits the status by hand.
EquipmentMatchesWork ==
  open = {} /\ (\A c \in Clients : due[c] = <<>>) =>
    \A e \in Equipment : eq[e] = DerivedStatus(e, req, wo)

\* However a deletion overlaps an approval, or the opening of an order by
\* hand, it leaves no order that names a request which is gone.
LinkedRequestsExist ==
  \A w \in WorkOrders : wo[w].request # None => Exists(req[wo[w].request])

\* What update answers to whoever edits a request that has become an order:
\* that it is locked.  An edit that read the request before the approval
\* writes after it.
RequestWithOrderIsLocked ==
  [][\A r \in Requests :
       OrdersOf(r, wo) # {} /\ Exists(req'[r]) =>
         /\ req'[r].equipment = req[r].equipment
         /\ req'[r].urgent = req[r].urgent]_adminVars
=============================================================================
