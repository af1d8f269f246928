----------------------------- MODULE Inventory ------------------------------
(***************************************************************************)
(* The stock of spare parts and its ledger, as InventoryService and the    *)
(* completion of work orders (WorkOrdersService.complete) keep them.       *)
(*                                                                         *)
(* The handlers are transactions as in Maintenance: a first step takes the *)
(* snapshot and makes the checks, a second one writes and commits.  They   *)
(* differ in how they write the quantity of an item:                       *)
(*   - adjustments set it to the sum they computed, provided the version   *)
(*     of the item is still the one they read;                             *)
(*   - receipts and direct issues set it to the sum they computed;         *)
(*   - a completion subtracts from the quantity the row has by then, and   *)
(*     leaves the version of the item alone.                               *)
(* All of them add a row to the ledger.                                    *)
(*                                                                         *)
(* Of a work order only what the stock depends on is kept: whether it is   *)
(* in progress or completed, its version and its lines of material.        *)
(* materialReturn is left out: it looks for rows of the ledger that name   *)
(* the line of the order, no handler writes such a row, and so it always   *)
(* refuses.                                                                *)
(***************************************************************************)
EXTENDS Integers

CONSTANTS
  Items,       \* the spare parts
  WorkOrders,  \* the work orders
  Keys,        \* clientTransactionIds, which the clients choose
  Clients,     \* concurrent HTTP requests: at most one transaction each
  None,        \* the null reference
  Amounts,     \* quantities that one call moves
  MaxStock,    \* bound: no call tries to store more than this
  MaxLine,     \* bound: no order needs more than this of one item
  Handlers     \* the handlers users call in this instance

ASSUME NoneIsNoKeyNorOrder == None \notin Keys \cup WorkOrders

ASSUME AmountsArePositive == Amounts \subseteq Nat \ {0}

ASSUME BoundsAreNumbers == MaxStock \in Nat /\ MaxLine \in Nat

VARIABLES
  stock,   \* InventoryItem: quantity, version
  ledger,  \* the opening stock plus the signed rows of InventoryTransaction
  keyed,   \* how many rows of the ledger carry each clientTransactionId
  orders,  \* WorkOrder: status, version, lines
  issues,  \* how many times the material of each order was issued
  open     \* the transactions in flight

vars == <<stock, ledger, keyed, orders, issues, open>>

ItemRows == [quantity : Int, version : Nat]

OrderRows ==
  [status : {"IN_PROGRESS", "COMPLETED"}, version : Nat, lines : [Items -> Nat]]

\* A transaction in flight that writes to the items of S: the change it makes
\* to each, and the snapshot (the fields stock and orders) it reads.
Transactions(S) ==
  [client : Clients,
   op : {"ADJUST", "UPDATE", "RECEIPT", "ISSUE", "COMPLETE", "HANDOVER",
         "REOPEN"},
   delta : [S -> Int], key : Keys \cup {None},
   order : WorkOrders \cup {None},
   stock : [Items -> ItemRows], orders : [WorkOrders -> OrderRows]]

\* Any opening stock, and orders under way that need any material.
Init ==
  /\ stock \in [Items -> [quantity : 0 .. MaxStock, version : {1}]]
  /\ ledger = [i \in Items |-> stock[i].quantity]
  /\ keyed = [k \in Keys |-> 0]
  /\ orders \in [WorkOrders -> [status : {"IN_PROGRESS"}, version : {1},
                                lines : [Items -> 0 .. MaxLine]]]
  /\ issues = [o \in WorkOrders |-> 0]
  /\ open = {}

-----------------------------------------------------------------------------
(***************************************************************************)
(* First step of a handler: the snapshot, and the checks made on it.       *)
(***************************************************************************)

\* Client c starts a transaction.
Begin(c, operation, changes, k, o) ==
  /\ \A t \in open : t.client # c
  /\ open' = open \cup {[client |-> c, op |-> operation, delta |-> changes,
                         key |-> k, order |-> o,
                         stock |-> stock, orders |-> orders]}
  /\ UNCHANGED <<stock, ledger, keyed, orders, issues>>

\* A change to item i alone.
Only(i, n) == [j \in {i} |-> n]

Nothing == [i \in {} |-> 0]

\* The quantity the handler is about to store.
Sum(i, n) == stock[i].quantity + n

\* adjustStock: up or down, without a client's identifier.
AdjustStock(c) ==
  /\ "adjustStock" \in Handlers
  /\ \E i \in Items, a \in Amounts : \E n \in {a, -a} :
       /\ Sum(i, n) \in 0 .. MaxStock
       /\ Begin(c, "ADJUST", Only(i, n), None, None)

\* The identifier was not used yet: otherwise the call answers without effect.
Fresh(k) == k # None => keyed[k] = 0

AdjustIn(c) ==
  /\ "adjustIn" \in Handlers
  /\ \E i \in Items, n \in Amounts, k \in Keys \cup {None} :
       /\ Fresh(k)
       /\ Sum(i, n) <= MaxStock
       /\ Begin(c, "ADJUST", Only(i, n), k, None)

AdjustOut(c) ==
  /\ "adjustOut" \in Handlers
  /\ \E i \in Items, n \in Amounts, k \in Keys \cup {None} :
       /\ Fresh(k)
       /\ Sum(i, -n) >= 0
       /\ Begin(c, "ADJUST", Only(i, -n), k, None)

\* update: the form of an item includes its quantity.
Update(c) ==
  /\ "update" \in Handlers
  /\ \E i \in Items, q \in 0 .. MaxStock :
       Begin(c, "UPDATE", Only(i, q - stock[i].quantity), None, None)

\* createReceipt: goods that come in, of one or more items.  (Codes counted
\* from one snapshot collide, and Rollback takes one of them; codes the users
\* choose do not.)
CreateReceipt(c) ==
  /\ "createReceipt" \in Handlers
  /\ \E S \in SUBSET Items \ {{}} : \E received \in [S -> Amounts] :
       /\ \A i \in S : Sum(i, received[i]) <= MaxStock
       /\ Begin(c, "RECEIPT", received, None, None)

DirectIssue(c) ==
  /\ "directIssue" \in Handlers
  /\ \E i \in Items, n \in Amounts :
       /\ Sum(i, -n) >= 0
       /\ Begin(c, "ISSUE", Only(i, -n), None, None)

\* What is on the lines of order o, as a change to the stock.
MaterialOf(o) ==
  [i \in {j \in Items : orders[o].lines[j] > 0} |-> -orders[o].lines[i]]

\* Fault: the stock is not checked.
CompleteUnchecked(c, o) ==
  /\ "complete" \in Handlers
  /\ orders[o].status = "IN_PROGRESS"
  /\ Begin(c, "COMPLETE", MaterialOf(o), None, o)

\* complete: everything on the lines of the order, if there is enough of it.
Complete(c, o) ==
  /\ "complete" \in Handlers
  /\ orders[o].status = "IN_PROGRESS"
  /\ \A i \in DOMAIN MaterialOf(o) : Sum(i, MaterialOf(o)[i]) >= 0
  /\ Begin(c, "COMPLETE", MaterialOf(o), None, o)

\* submitHandover completes the order too, and issues nothing.
SubmitHandover(c, o) ==
  /\ "submitHandover" \in Handlers
  /\ orders[o].status = "IN_PROGRESS"
  /\ Begin(c, "HANDOVER", Nothing, None, o)

\* reopen, rejectHandover and qaReject.
Reopen(c, o) ==
  /\ "reopen" \in Handlers
  /\ orders[o].status = "COMPLETED"
  /\ Begin(c, "REOPEN", Nothing, None, o)

-----------------------------------------------------------------------------
(***************************************************************************)
(* Second step: the writes, on the rows as they are now, and the commit.   *)
(***************************************************************************)

Finish(t) == open' = open \ {t}

\* The rows of the ledger that the transaction adds.
Book(t) ==
  ledger' = [i \in Items |->
               ledger[i] + IF i \in DOMAIN t.delta THEN t.delta[i] ELSE 0]

\* Fault: the version stays.
OverwrittenQuietly(t) ==
  [i \in Items |->
     IF i \in DOMAIN t.delta
     THEN [stock[i] EXCEPT !.quantity = t.stock[i].quantity + t.delta[i]]
     ELSE stock[i]]

\* The quantities as the transaction computed them from its snapshot.
Overwritten(t) ==
  [i \in Items |->
     IF i \in DOMAIN t.delta
     THEN [quantity |-> t.stock[i].quantity + t.delta[i],
           version |-> stock[i].version + 1]
     ELSE stock[i]]

\* The quantities as they are now, less what the transaction takes.
Decremented(t) ==
  [i \in Items |->
     IF i \in DOMAIN t.delta
     THEN [stock[i] EXCEPT !.quantity = @ + t.delta[i]]
     ELSE stock[i]]

\* The versions of the items written to are still those that were read.
ItemsUnmoved(t) ==
  \A i \in DOMAIN t.delta : stock[i].version = t.stock[i].version

\* Fault: any version of the order will do.
AnyVersion(t) == t.order # None

OrderUnmoved(t) == orders[t.order].version = t.orders[t.order].version

\* Fault: the order goes back to planning.
MoveOrderBack(t, s) ==
  orders' = [orders EXCEPT ![t.order].status =
               IF s = "COMPLETED" THEN s ELSE "PENDING",
                           ![t.order].version = @ + 1]

\* The order takes status s, with a new version.
MoveOrder(t, s) ==
  orders' = [orders EXCEPT ![t.order].status = s, ![t.order].version = @ + 1]

\* Fault: the index is not unique.
BookKeyAgain(t) ==
  IF t.key = None THEN UNCHANGED keyed
  ELSE keyed' = [keyed EXCEPT ![t.key] = @ + 1]

\* The index on clientTransactionId is unique.
BookKey(t) ==
  IF t.key = None THEN UNCHANGED keyed
  ELSE /\ keyed[t.key] = 0
       /\ keyed' = [keyed EXCEPT ![t.key] = 1]

CommitAdjust(t) ==
  /\ t.op = "ADJUST"
  /\ ItemsUnmoved(t)
  /\ stock' = Overwritten(t)
  /\ Book(t)
  /\ BookKey(t)
  /\ Finish(t)
  /\ UNCHANGED <<orders, issues>>

\* No row of the ledger.
CommitUpdate(t) ==
  /\ t.op = "UPDATE"
  /\ ItemsUnmoved(t)
  /\ stock' = Overwritten(t)
  /\ Finish(t)
  /\ UNCHANGED <<ledger, keyed, orders, issues>>

\* createReceipt and directIssue: by id alone.
CommitMovement(t) ==
  /\ t.op \in {"RECEIPT", "ISSUE"}
  /\ stock' = Overwritten(t)
  /\ Book(t)
  /\ Finish(t)
  /\ UNCHANGED <<keyed, orders, issues>>

CommitComplete(t) ==
  /\ t.op = "COMPLETE"
  /\ OrderUnmoved(t)
  /\ MoveOrder(t, "COMPLETED")
  /\ stock' = Decremented(t)
  /\ Book(t)
  /\ issues' = [issues EXCEPT ![t.order] =
                  @ + IF DOMAIN t.delta = {} THEN 0 ELSE 1]
  /\ Finish(t)
  /\ UNCHANGED keyed

CommitHandover(t) ==
  /\ t.op = "HANDOVER"
  /\ OrderUnmoved(t)
  /\ MoveOrder(t, "COMPLETED")
  /\ Finish(t)
  /\ UNCHANGED <<stock, ledger, keyed, issues>>

CommitReopen(t) ==
  /\ t.op = "REOPEN"
  /\ OrderUnmoved(t)
  /\ MoveOrder(t, "IN_PROGRESS")
  /\ Finish(t)
  /\ UNCHANGED <<stock, ledger, keyed, issues>>

\* A failed check, a conditional UPDATE that matches no row, a violated unique
\* index, a deadlock or a lost connection.
Rollback(t) ==
  /\ Finish(t)
  /\ UNCHANGED <<stock, ledger, keyed, orders, issues>>

\* addItem: one more line, in any status but CLOSED and CANCELLED, and without
\* a new version of the order.
AddItem(o, i, n) ==
  /\ "addItem" \in Handlers
  /\ orders[o].lines[i] + n <= MaxLine
  /\ orders' = [orders EXCEPT ![o].lines[i] = @ + n]
  /\ UNCHANGED <<stock, ledger, keyed, issues, open>>

\* startWorkSession, by id and without a new version, for a technician who read
\* the order before anybody started it: whatever has become of it since.
WriteInProgress(o) ==
  /\ "startWorkSession" \in Handlers
  /\ orders' = [orders EXCEPT ![o].status = "IN_PROGRESS"]
  /\ UNCHANGED <<stock, ledger, keyed, issues, open>>

Handler(c) ==
  \/ AdjustStock(c)
  \/ AdjustIn(c)
  \/ AdjustOut(c)
  \/ Update(c)
  \/ CreateReceipt(c)
  \/ DirectIssue(c)
  \/ \E o \in WorkOrders : Complete(c, o) \/ SubmitHandover(c, o) \/ Reopen(c, o)

Commit(t) ==
  \/ CommitAdjust(t)
  \/ CommitUpdate(t)
  \/ CommitMovement(t)
  \/ CommitComplete(t)
  \/ CommitHandover(t)
  \/ CommitReopen(t)

Next ==
  \/ \E c \in Clients : Handler(c)
  \/ \E t \in open : Commit(t) \/ Rollback(t)
  \/ \E o \in WorkOrders, i \in Items, n \in Amounts : AddItem(o, i, n)
  \/ \E o \in WorkOrders : WriteInProgress(o)

Spec == Init /\ [][Next]_vars

-----------------------------------------------------------------------------
(***************************************************************************)
(* Properties.                                                             *)
(***************************************************************************)

\* Every row has its type, and so has every transaction in flight.
TypeOK ==
  /\ stock \in [Items -> ItemRows]
  /\ ledger \in [Items -> Int]
  /\ keyed \in [Keys -> Nat]
  /\ orders \in [WorkOrders -> OrderRows]
  /\ issues \in [WorkOrders -> Nat]
  /\ \A t \in open : \E S \in SUBSET Items : t \in Transactions(S)

\* What the version of an item tells the transactions that check it.  A
\* completion takes from the stock without a new version, but not without a
\* new version of its order: as long as no order has moved since a transaction
\* read the stock, an item with an unmoved version has an unmoved quantity,
\* whatever receipts, issues and edits of the form have overlapped it.
VersionIdentifiesStock ==
  \A t \in open, i \in Items :
    t.stock[i].version = stock[i].version /\ t.orders = orders =>
      t.stock[i] = stock[i]

\* A handler that overlapped no other changes the stock by exactly what it
\* adds to the ledger, and takes no more than there is.  (The form of an item
\* sets its quantity without a row of the ledger.)
BooksWhatItMoves ==
  [][\A t \in open \ open' :
       t.op # "UPDATE" /\ t.stock = stock =>
         \A i \in Items :
           /\ stock'[i].quantity - stock[i].quantity = ledger'[i] - ledger[i]
           /\ stock'[i].quantity < stock[i].quantity =>
                stock'[i].quantity >= 0]_vars

\* A call that is sent again, once or while the first is still under way, and
\* even if the client picks another item for it, adds no second row.
RetryBookedOnce == \A k \in Keys : keyed[k] <= 1

\* Two clients who complete the same order issue its material once: an issue
\* comes only with the step that takes the order out of progress.
OneIssuePerCompletion ==
  [][\A o \in WorkOrders :
       issues'[o] # issues[o] =>
         /\ issues'[o] = issues[o] + 1
         /\ orders[o].status = "IN_PROGRESS"
         /\ orders'[o].status = "COMPLETED"]_vars

-----------------------------------------------------------------------------
(***************************************************************************)
(* What the code and its documents say, and does not hold.                 *)
(***************************************************************************)

\* The inventory report computes the opening stock of a period backwards from
\* the quantity and the ledger: the two agree.
StockMatchesLedger == \A i \in Items : stock[i].quantity = ledger[i]

\* An order that is reopened and completed again does not issue its material
\* a second time.
MaterialIssuedOnce == \A o \in WorkOrders : issues[o] <= 1
=============================================================================
