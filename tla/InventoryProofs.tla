-------------------------- MODULE InventoryProofs ---------------------------
(***************************************************************************)
(* Theorems about Inventory for any number of items, orders, identifiers   *)
(* and concurrent clients, and for any set of handlers.                    *)
(*                                                                         *)
(* The inductive invariant has the shape of the one of MaintenanceProofs:  *)
(* what the checks of a transaction established on its snapshot            *)
(* (Arguments), and how far the rows can have moved from it (Trails).      *)
(***************************************************************************)
EXTENDS Inventory, TLAPS

-----------------------------------------------------------------------------
(***************************************************************************)
(* The inductive invariant.                                                *)
(***************************************************************************)

\* What the checks of a handler established: a fact about the transaction
\* alone, which never changes.  update may set any quantity.
Arguments(t) ==
  /\ t.op \in {"COMPLETE", "HANDOVER", "REOPEN"} => t.order \in WorkOrders
  /\ t.op = "COMPLETE" => t.orders[t.order].status = "IN_PROGRESS"
  /\ t.op # "UPDATE" =>
       \A i \in DOMAIN t.delta :
         t.delta[i] < 0 => t.stock[i].quantity + t.delta[i] >= 0

\* How item i can differ from the row transaction t read.
ItemTrail(t, i) ==
  /\ t.stock[i].version <= stock[i].version
  /\ t.stock[i].version = stock[i].version /\ t.orders = orders =>
       t.stock[i] = stock[i]

\* How order o can differ from the row transaction t read.
OrderTrail(t, o) ==
  /\ t.orders[o].version <= orders[o].version
  /\ t.orders[o].version = orders[o].version =>
       orders[o].status \in {t.orders[o].status, "IN_PROGRESS"}
  /\ \A i \in Items : t.orders[o].lines[i] <= orders[o].lines[i]

Trails(t) ==
  /\ \A i \in Items : ItemTrail(t, i)
  /\ \A o \in WorkOrders : OrderTrail(t, o)

IInv ==
  /\ TypeOK
  /\ RetryBookedOnce
  /\ \A t \in open : Arguments(t) /\ Trails(t)

-----------------------------------------------------------------------------
(***************************************************************************)
(* The two kinds of step.                                                  *)
(***************************************************************************)

Typed(t) == \E S \in SUBSET Items : t \in Transactions(S)

\* What the type of a transaction says of its fields.
LEMMA FieldsTyped ==
  ASSUME NEW t, Typed(t)
  PROVE  /\ DOMAIN t.delta \subseteq Items
         /\ \A i \in DOMAIN t.delta : t.delta[i] \in Int
         /\ t.stock \in [Items -> ItemRows]
         /\ t.orders \in [WorkOrders -> OrderRows]
         /\ t.key \in Keys \cup {None}
         /\ t.order \in WorkOrders \cup {None}
<1>1. PICK S \in SUBSET Items : t \in Transactions(S)
  BY DEF Typed
<1>2. t.delta \in [S -> Int]
  BY <1>1 DEF Transactions
<1>3. DOMAIN t.delta = S /\ \A i \in S : t.delta[i] \in Int
  BY <1>2
<1> QED
  BY <1>1, <1>3 DEF Transactions

\* A transaction that has just started, with sound arguments.
Started(t) ==
  /\ Typed(t)
  /\ Arguments(t)
  /\ t.stock = stock
  /\ t.orders = orders
  /\ open' = open \cup {t}
  /\ UNCHANGED <<stock, ledger, keyed, orders, issues>>

\* A change to one item, if it has the right sign, starts soundly.
LEMMA OneItemStarts ==
  ASSUME TypeOK, NEW c \in Clients, NEW i \in Items, NEW n \in Int,
         NEW operation \in {"ADJUST", "UPDATE", "ISSUE"},
         NEW k \in Keys \cup {None},
         Begin(c, operation, Only(i, n), k, None),
         operation # "UPDATE" /\ n < 0 => stock[i].quantity + n >= 0
  PROVE  \E t \in open' : Started(t)
<1> DEFINE t == [client |-> c, op |-> operation, delta |-> Only(i, n),
                 key |-> k, order |-> None, stock |-> stock,
                 orders |-> orders]
<1>1. Only(i, n) \in [{i} -> Int] /\ Only(i, n)[i] = n
  BY DEF Only
<1>2. t \in Transactions({i})
  BY <1>1 DEF Transactions, TypeOK
<1>3. Typed(t)
  BY <1>2 DEF Typed
<1>4. Arguments(t)
  BY <1>1 DEF Arguments
<1>5. open' = open \cup {t} /\ UNCHANGED <<stock, ledger, keyed, orders, issues>>
  BY DEF Begin
<1> QED
  BY <1>3, <1>4, <1>5 DEF Started

\* So does any other change, when each of its parts has the right sign.
LEMMA ChangeStarts ==
  ASSUME TypeOK, NEW c \in Clients, NEW S \in SUBSET Items,
         NEW changes \in [S -> Int],
         NEW operation \in {"RECEIPT", "COMPLETE", "HANDOVER", "REOPEN"},
         NEW o \in WorkOrders \cup {None},
         Begin(c, operation, changes, None, o),
         \A i \in S : changes[i] < 0 => stock[i].quantity + changes[i] >= 0,
         operation # "RECEIPT" => o \in WorkOrders,
         operation = "COMPLETE" => orders[o].status = "IN_PROGRESS"
  PROVE  \E t \in open' : Started(t)
<1> DEFINE t == [client |-> c, op |-> operation, delta |-> changes,
                 key |-> None, order |-> o, stock |-> stock,
                 orders |-> orders]
<1>1. t \in Transactions(S)
  BY DEF Transactions, TypeOK
<1>2. Typed(t)
  BY <1>1 DEF Typed
<1>3. DOMAIN changes = S
  OBVIOUS
<1>4. Arguments(t)
  BY <1>3 DEF Arguments
<1>5. open' = open \cup {t} /\ UNCHANGED <<stock, ledger, keyed, orders, issues>>
  BY DEF Begin
<1> QED
  BY <1>2, <1>4, <1>5 DEF Started

\* The material of an order is a change that only takes.
LEMMA MaterialTakes ==
  ASSUME TypeOK, NEW o \in WorkOrders
  PROVE  /\ DOMAIN MaterialOf(o) \in SUBSET Items
         /\ MaterialOf(o) \in [DOMAIN MaterialOf(o) -> Int]
<1>1. orders[o].lines \in [Items -> Nat]
  BY DEF TypeOK, OrderRows
<1>2. DOMAIN MaterialOf(o) = {j \in Items : orders[o].lines[j] > 0}
  BY DEF MaterialOf
<1>3. \A i \in {j \in Items : orders[o].lines[j] > 0} : -orders[o].lines[i] \in Int
  BY <1>1
<1> QED
  BY <1>2, <1>3 DEF MaterialOf

\* Every handler starts a transaction with sound arguments.
LEMMA HandlerStarts ==
  ASSUME TypeOK, NEW c \in Clients, Handler(c)
  PROVE  \E t \in open' : Started(t)
<1>0. \A i \in Items : stock[i].quantity \in Int
  BY DEF TypeOK, ItemRows
<1>a. \A n \in Amounts : n \in Int /\ -n \in Int /\ n > 0
  BY AmountsArePositive
<1>1. CASE AdjustStock(c)
  <2>0. PICK i \in Items, a \in Amounts : \E n \in {a, -a} :
          Sum(i, n) \in 0 .. MaxStock /\ Begin(c, "ADJUST", Only(i, n), None, None)
    BY <1>1 DEF AdjustStock
  <2>1. PICK n \in {a, -a} :
          Sum(i, n) \in 0 .. MaxStock /\ Begin(c, "ADJUST", Only(i, n), None, None)
    BY <2>0
  <2>2. n \in Int /\ stock[i].quantity + n >= 0
    BY <1>0, <1>a, <2>1, BoundsAreNumbers DEF Sum
  <2> QED
    BY <2>1, <2>2, OneItemStarts
<1>2. CASE AdjustIn(c)
  <2>1. PICK i \in Items, n \in Amounts, k \in Keys \cup {None} :
          Begin(c, "ADJUST", Only(i, n), k, None)
    BY <1>2 DEF AdjustIn
  <2>2. n \in Int /\ ~(n < 0)
    BY <1>a
  <2> QED
    BY <2>1, <2>2, OneItemStarts
<1>3. CASE AdjustOut(c)
  <2>1. PICK i \in Items, n \in Amounts, k \in Keys \cup {None} :
          Sum(i, -n) >= 0 /\ Begin(c, "ADJUST", Only(i, -n), k, None)
    BY <1>3 DEF AdjustOut
  <2>2. -n \in Int /\ stock[i].quantity + (-n) >= 0
    BY <1>0, <1>a, <2>1 DEF Sum
  <2> QED
    BY <2>1, <2>2, OneItemStarts
<1>4. CASE Update(c)
  <2>1. PICK i \in Items, q \in 0 .. MaxStock :
          Begin(c, "UPDATE", Only(i, q - stock[i].quantity), None, None)
    BY <1>4 DEF Update
  <2>2. q - stock[i].quantity \in Int
    BY <1>0, BoundsAreNumbers
  <2> QED
    BY <2>1, <2>2, OneItemStarts
<1>5. CASE CreateReceipt(c)
  <2>0. PICK S \in SUBSET Items \ {{}} : \E received \in [S -> Amounts] :
          Begin(c, "RECEIPT", received, None, None)
    BY <1>5 DEF CreateReceipt
  <2>1. PICK received \in [S -> Amounts] : Begin(c, "RECEIPT", received, None, None)
    BY <2>0
  <2>2. received \in [S -> Int] /\ \A i \in S : ~(received[i] < 0)
    BY <1>a
  <2> QED
    BY <2>1, <2>2, ChangeStarts
<1>6. CASE DirectIssue(c)
  <2>1. PICK i \in Items, n \in Amounts :
          Sum(i, -n) >= 0 /\ Begin(c, "ISSUE", Only(i, -n), None, None)
    BY <1>6 DEF DirectIssue
  <2>2. -n \in Int /\ stock[i].quantity + (-n) >= 0
    BY <1>0, <1>a, <2>1 DEF Sum
  <2> QED
    BY <2>1, <2>2, OneItemStarts
<1>7. ASSUME NEW o \in WorkOrders, Complete(c, o)
      PROVE  \E t \in open' : Started(t)
  <2>1. /\ Begin(c, "COMPLETE", MaterialOf(o), None, o)
        /\ orders[o].status = "IN_PROGRESS"
        /\ \A i \in DOMAIN MaterialOf(o) : stock[i].quantity + MaterialOf(o)[i] >= 0
    BY <1>7 DEF Complete, Sum
  <2> QED
    BY <2>1, MaterialTakes, ChangeStarts
<1>8. ASSUME NEW o \in WorkOrders, SubmitHandover(c, o) \/ Reopen(c, o)
      PROVE  \E t \in open' : Started(t)
  <2>1. Nothing \in [{} -> Int]
    BY DEF Nothing
  <2>2. \/ Begin(c, "HANDOVER", Nothing, None, o)
        \/ Begin(c, "REOPEN", Nothing, None, o)
    BY <1>8 DEF SubmitHandover, Reopen
  <2> QED
    BY <2>1, <2>2, ChangeStarts
<1> QED
  BY <1>1, <1>2, <1>3, <1>4, <1>5, <1>6, <1>7, <1>8 DEF Handler

-----------------------------------------------------------------------------
(***************************************************************************)
(* How a step may move the rows.                                           *)
(***************************************************************************)

OrdersMoved ==
  \E o \in WorkOrders :
    \/ orders[o].version < orders'[o].version
    \/ \E i \in Items : orders[o].lines[i] < orders'[o].lines[i]

\* What a clock-in leaves of an order: the one move that no version tells.
JustClockedIn(o) ==
  orders'[o] \in {orders[o], [orders[o] EXCEPT !.status = "IN_PROGRESS"]}

\* Orders only move forward, and move visibly but for the clock-ins.
OrdersMoveForward ==
  /\ \/ \A o \in WorkOrders : JustClockedIn(o)
     \/ OrdersMoved
  /\ \A o \in WorkOrders :
       /\ orders[o].version <= orders'[o].version
       /\ orders[o].version = orders'[o].version =>
            orders'[o].status \in {orders[o].status, "IN_PROGRESS"}
       /\ \A i \in Items : orders[o].lines[i] <= orders'[o].lines[i]

\* An item that moves takes a new version, or moves along with an order.
ItemsMoveVisibly ==
  \A i \in Items :
    \/ stock'[i] = stock[i]
    \/ stock[i].version < stock'[i].version
    \/ OrdersMoved /\ stock'[i].version = stock[i].version

\* Rows that move so keep the trail of every transaction in flight.
LEMMA TrailsKept ==
  ASSUME TypeOK, TypeOK', OrdersMoveForward, ItemsMoveVisibly,
         NEW u, Typed(u), Trails(u)
  PROVE  Trails(u)'
<1>1. /\ \A i \in Items : /\ u.stock[i].version \in Int
                          /\ stock[i].version \in Int
                          /\ stock'[i].version \in Int
      /\ \A o \in WorkOrders :
           /\ u.orders[o].version \in Int
           /\ orders[o].version \in Int
           /\ orders'[o].version \in Int
           /\ \A i \in Items : /\ u.orders[o].lines[i] \in Int
                               /\ orders[o].lines[i] \in Int
                               /\ orders'[o].lines[i] \in Int
  BY FieldsTyped DEF TypeOK, ItemRows, OrderRows
<1>2. ASSUME NEW o \in WorkOrders
      PROVE  OrderTrail(u, o)'
  BY <1>1 DEF Trails, OrderTrail, OrdersMoveForward
<1>3. OrdersMoved => u.orders # orders'
  BY <1>1 DEF OrdersMoved, Trails, OrderTrail
<1>4. u.orders = orders' => u.orders = orders
  <2>1. SUFFICES ASSUME u.orders = orders', NEW o \in WorkOrders
                 PROVE  orders'[o] = orders[o]
    BY DEF TypeOK
  <2>2. orders'[o] = orders[o] \/
          orders'[o] = [orders[o] EXCEPT !.status = "IN_PROGRESS"]
    BY <1>3, <2>1 DEF OrdersMoveForward, JustClockedIn
  <2>3. CASE orders'[o] = [orders[o] EXCEPT !.status = "IN_PROGRESS"]
    <3>1. /\ orders[o] \in OrderRows
          /\ orders'[o].status = "IN_PROGRESS"
          /\ orders'[o].version = orders[o].version
      BY <2>3 DEF TypeOK, OrderRows
    <3>2. orders[o].status = "IN_PROGRESS"
      BY <2>1, <3>1 DEF Trails, OrderTrail
    <3> QED
      BY <2>3, <3>1, <3>2 DEF OrderRows
  <2> QED
    BY <2>2, <2>3
<1>5. ASSUME NEW i \in Items
      PROVE  ItemTrail(u, i)'
  BY <1>1, <1>3, <1>4 DEF Trails, ItemTrail, ItemsMoveVisibly
<1> QED
  BY <1>2, <1>5 DEF Trails

\* The rows of the stock and of the ledger that a transaction writes.
LEMMA WritesTyped ==
  ASSUME TypeOK, NEW t \in open
  PROVE  /\ Overwritten(t) \in [Items -> ItemRows]
         /\ Decremented(t) \in [Items -> ItemRows]
         /\ Book(t) => ledger' \in [Items -> Int]
<1>1. Typed(t)
  BY DEF TypeOK, Typed
<1>2. /\ \A i \in DOMAIN t.delta : i \in Items /\ t.delta[i] \in Int
      /\ \A i \in Items : t.stock[i].quantity \in Int
  BY <1>1, FieldsTyped DEF ItemRows
<1>3. \A i \in Items : /\ stock[i] \in ItemRows
                       /\ stock[i].quantity \in Int
                       /\ stock[i].version \in Nat
  BY DEF TypeOK, ItemRows
<1>4. Overwritten(t) \in [Items -> ItemRows]
  BY <1>2, <1>3 DEF Overwritten, ItemRows
<1>5. Decremented(t) \in [Items -> ItemRows]
  BY <1>2, <1>3 DEF Decremented, ItemRows
<1>6. Book(t) => ledger' \in [Items -> Int]
  BY <1>2 DEF Book, TypeOK
<1> QED
  BY <1>4, <1>5, <1>6

\* How the two kinds of writes move the items.
LEMMA ItemsWritten ==
  ASSUME TypeOK, NEW t \in open
  PROVE  /\ stock' = Overwritten(t) => ItemsMoveVisibly
         /\ stock' = Decremented(t) =>
              \A i \in Items : stock'[i].version = stock[i].version
<1>1. \A i \in Items : /\ stock[i] \in ItemRows
                       /\ stock[i].version \in Int
  BY DEF TypeOK, ItemRows
<1>2. ASSUME stock' = Overwritten(t), NEW i \in Items
      PROVE  stock'[i] = stock[i] \/ stock[i].version < stock'[i].version
  BY <1>1, <1>2 DEF Overwritten
<1>3. ASSUME stock' = Decremented(t), NEW i \in Items
      PROVE  stock'[i].version = stock[i].version
  BY <1>1, <1>3 DEF Decremented, ItemRows
<1> QED
  BY <1>2, <1>3 DEF ItemsMoveVisibly

\* An order that takes a status, with a new version.
LEMMA OrderMoves ==
  ASSUME TypeOK, NEW t, t.order \in WorkOrders,
         NEW s \in {"IN_PROGRESS", "COMPLETED"}, MoveOrder(t, s)
  PROVE  /\ orders' \in [WorkOrders -> OrderRows]
         /\ OrdersMoved
         /\ OrdersMoveForward
         /\ orders'[t.order].status = s
<1>1. \A o \in WorkOrders :
        /\ orders[o] \in OrderRows
        /\ orders[o].version \in Nat
        /\ \A i \in Items : orders[o].lines[i] \in Int
  BY DEF TypeOK, OrderRows
<1>2. \A o \in WorkOrders :
        orders'[o] = IF o = t.order
                     THEN [orders[o] EXCEPT !.status = s, !.version = @ + 1]
                     ELSE orders[o]
  BY DEF MoveOrder, TypeOK
<1>3. \A o \in WorkOrders \ {t.order} : orders'[o] = orders[o]
  BY <1>2
<1>4. /\ orders'[t.order].status = s
      /\ orders'[t.order].version = orders[t.order].version + 1
      /\ orders'[t.order].lines = orders[t.order].lines
      /\ orders'[t.order] \in OrderRows
  <2>1. orders'[t.order] = [orders[t.order] EXCEPT !.status = s, !.version = @ + 1]
    BY <1>2
  <2>2. orders'[t.order] = [status |-> s, version |-> orders[t.order].version + 1,
                            lines |-> orders[t.order].lines]
    BY <1>1, <2>1 DEF OrderRows
  <2>3. orders[t.order].lines \in [Items -> Nat]
    BY DEF TypeOK, OrderRows
  <2> QED
    BY <1>1, <2>2, <2>3 DEF OrderRows
<1>5. orders' \in [WorkOrders -> OrderRows]
  BY <1>1, <1>3, <1>4 DEF MoveOrder, TypeOK
<1>6. OrdersMoved
  BY <1>1, <1>4 DEF OrdersMoved
<1>7. \A o \in WorkOrders :
        /\ orders[o].version <= orders'[o].version
        /\ orders[o].version = orders'[o].version =>
             orders[o].status = orders'[o].status
        /\ \A i \in Items : orders[o].lines[i] <= orders'[o].lines[i]
  BY <1>1, <1>3, <1>4
<1> QED
  BY <1>4, <1>5, <1>6, <1>7 DEF OrdersMoveForward

-----------------------------------------------------------------------------
(***************************************************************************)
(* The invariant is inductive.                                             *)
(***************************************************************************)

\* A step that ends transactions, moves the rows visibly and keeps the types
\* and the index on the identifiers, keeps the invariant.
LEMMA InvariantKept ==
  ASSUME IInv, open' \subseteq open, OrdersMoveForward, ItemsMoveVisibly,
         stock' \in [Items -> ItemRows], ledger' \in [Items -> Int],
         orders' \in [WorkOrders -> OrderRows], issues' \in [WorkOrders -> Nat],
         keyed' \in [Keys -> Nat], RetryBookedOnce'
  PROVE  IInv'
<1>1. TypeOK'
  BY DEF IInv, TypeOK
<1>2. ASSUME NEW u \in open'
      PROVE  Arguments(u)' /\ Trails(u)'
  <2>1. u \in open /\ Typed(u)
    BY DEF IInv, TypeOK, Typed
  <2>2. Trails(u)'
    BY <1>1, <2>1, TrailsKept DEF IInv
  <2>3. Arguments(u)'
    BY <2>1 DEF IInv, Arguments
  <2> QED
    BY <2>2, <2>3
<1> QED
  BY <1>1, <1>2 DEF IInv

\* What the invariant says of the transaction that commits.
LEMMA Commits ==
  ASSUME IInv, NEW t \in open, t.op \in {"COMPLETE", "HANDOVER", "REOPEN"}
  PROVE  t.order \in WorkOrders
BY DEF IInv, Arguments

LEMMA KeysKept ==
  ASSUME IInv, NEW t \in open, UNCHANGED keyed \/ BookKey(t)
  PROVE  keyed' \in [Keys -> Nat] /\ RetryBookedOnce'
<1>1. /\ keyed \in [Keys -> Nat]
      /\ \A k \in Keys : keyed[k] <= 1
  BY DEF IInv, TypeOK, RetryBookedOnce
<1>2. CASE UNCHANGED keyed
  BY <1>1, <1>2 DEF RetryBookedOnce
<1>3. CASE BookKey(t) /\ t.key # None
  <2>1. keyed' = [keyed EXCEPT ![t.key] = 1]
    BY <1>3 DEF BookKey
  <2>2. keyed' \in [Keys -> Nat]
    BY <1>1, <2>1
  <2>3. ASSUME NEW k \in Keys PROVE keyed'[k] <= 1
    <3>1. keyed'[k] = IF k = t.key THEN 1 ELSE keyed[k]
      BY <1>1, <2>1
    <3> QED
      BY <1>1, <3>1
  <2> QED
    BY <2>2, <2>3 DEF RetryBookedOnce
<1> QED
  BY <1>2, <1>3 DEF BookKey

LEMMA CommitKeeps ==
  ASSUME IInv, NEW t \in open, Commit(t)
  PROVE  IInv'
<1>1. TypeOK /\ RetryBookedOnce
  BY DEF IInv
<1>2. CASE CommitAdjust(t)
  <2>1. OrdersMoveForward
    BY <1>1, <1>2 DEF CommitAdjust, OrdersMoveForward, JustClockedIn, TypeOK,
       OrderRows
  <2>2. open' \subseteq open /\ orders' \in [WorkOrders -> OrderRows]
        /\ issues' \in [WorkOrders -> Nat]
    BY <1>1, <1>2 DEF CommitAdjust, Finish, TypeOK
  <2>3. keyed' \in [Keys -> Nat] /\ RetryBookedOnce'
    BY <1>2, KeysKept DEF CommitAdjust
  <2>4. ItemsMoveVisibly
    BY <1>1, <1>2, ItemsWritten DEF CommitAdjust
  <2>5. stock' \in [Items -> ItemRows] /\ ledger' \in [Items -> Int]
    BY <1>1, <1>2, WritesTyped DEF CommitAdjust
  <2> QED
    BY <2>1, <2>2, <2>3, <2>4, <2>5, InvariantKept
<1>3. CASE CommitUpdate(t)
  <2>1. OrdersMoveForward
    BY <1>1, <1>3 DEF CommitUpdate, OrdersMoveForward, JustClockedIn, TypeOK,
       OrderRows
  <2>2. open' \subseteq open /\ orders' \in [WorkOrders -> OrderRows]
        /\ issues' \in [WorkOrders -> Nat] /\ ledger' \in [Items -> Int]
    BY <1>1, <1>3 DEF CommitUpdate, Finish, TypeOK
  <2>3. keyed' \in [Keys -> Nat] /\ RetryBookedOnce'
    BY <1>3, KeysKept DEF CommitUpdate
  <2>4. ItemsMoveVisibly
    BY <1>1, <1>3, ItemsWritten DEF CommitUpdate
  <2>5. stock' \in [Items -> ItemRows]
    BY <1>1, <1>3, WritesTyped DEF CommitUpdate
  <2> QED
    BY <2>1, <2>2, <2>3, <2>4, <2>5, InvariantKept
<1>4. CASE CommitMovement(t)
  <2>1. OrdersMoveForward
    BY <1>1, <1>4 DEF CommitMovement, OrdersMoveForward, JustClockedIn, TypeOK,
       OrderRows
  <2>2. open' \subseteq open /\ orders' \in [WorkOrders -> OrderRows]
        /\ issues' \in [WorkOrders -> Nat]
    BY <1>1, <1>4 DEF CommitMovement, Finish, TypeOK
  <2>3. keyed' \in [Keys -> Nat] /\ RetryBookedOnce'
    BY <1>4, KeysKept DEF CommitMovement
  <2>4. ItemsMoveVisibly
    BY <1>1, <1>4, ItemsWritten DEF CommitMovement
  <2>5. stock' \in [Items -> ItemRows] /\ ledger' \in [Items -> Int]
    BY <1>1, <1>4, WritesTyped DEF CommitMovement
  <2> QED
    BY <2>1, <2>2, <2>3, <2>4, <2>5, InvariantKept
<1>5. CASE CommitComplete(t)
  <2>1. t.order \in WorkOrders
    BY <1>5, Commits DEF CommitComplete
  <2>2. /\ OrdersMoveForward
        /\ OrdersMoved
        /\ orders' \in [WorkOrders -> OrderRows]
    BY <1>1, <1>5, <2>1, OrderMoves DEF CommitComplete
  <2>3. open' \subseteq open /\ issues' \in [WorkOrders -> Nat]
    <3> DEFINE n == IF DOMAIN t.delta = {} THEN 0 ELSE 1
    <3>1. n \in Nat
      OBVIOUS
    <3>2. issues' = [issues EXCEPT ![t.order] = @ + n]
      BY <1>5 DEF CommitComplete
    <3>3. open' \subseteq open
      BY <1>5 DEF CommitComplete, Finish
    <3> HIDE DEF n
    <3>4. issues \in [WorkOrders -> Nat]
      BY <1>1 DEF TypeOK
    <3>5. issues' \in [WorkOrders -> Nat]
      BY <2>1, <3>1, <3>2, <3>4
    <3> QED
      BY <3>3, <3>5
  <2>4. keyed' \in [Keys -> Nat] /\ RetryBookedOnce'
    BY <1>5, KeysKept DEF CommitComplete
  <2>5. ItemsMoveVisibly
    BY <1>1, <1>5, <2>2, ItemsWritten DEF CommitComplete, ItemsMoveVisibly
  <2>6. stock' \in [Items -> ItemRows] /\ ledger' \in [Items -> Int]
    BY <1>1, <1>5, WritesTyped DEF CommitComplete
  <2> QED
    BY <2>2, <2>3, <2>4, <2>5, <2>6, InvariantKept
<1>6. CASE CommitHandover(t) \/ CommitReopen(t)
  <2>1. t.order \in WorkOrders
    BY <1>6, Commits DEF CommitHandover, CommitReopen
  <2>2. OrdersMoveForward /\ orders' \in [WorkOrders -> OrderRows]
    BY <1>1, <1>6, <2>1, OrderMoves DEF CommitHandover, CommitReopen
  <2>3. /\ open' \subseteq open
        /\ stock' = stock /\ ledger' = ledger /\ keyed' = keyed
        /\ issues' = issues
    BY <1>6 DEF CommitHandover, CommitReopen, Finish
  <2>4. RetryBookedOnce' /\ ItemsMoveVisibly
    BY <1>1, <2>3 DEF RetryBookedOnce, ItemsMoveVisibly
  <2>5. /\ stock' \in [Items -> ItemRows] /\ ledger' \in [Items -> Int]
        /\ keyed' \in [Keys -> Nat] /\ issues' \in [WorkOrders -> Nat]
    BY <1>1, <2>3 DEF TypeOK
  <2>6. open' \subseteq open
    BY <2>3
  <2> QED
    BY <2>2, <2>4, <2>5, <2>6, InvariantKept
<1> QED
  BY <1>2, <1>3, <1>4, <1>5, <1>6 DEF Commit

LEMMA StartKeeps ==
  ASSUME IInv, NEW t \in open', Started(t)
  PROVE  IInv'
<1>1. TypeOK /\ RetryBookedOnce
  BY DEF IInv
<1>2. /\ open' = open \cup {t}
      /\ UNCHANGED <<stock, ledger, keyed, orders, issues>>
  BY DEF Started
<1>3. TypeOK'
  BY <1>1, <1>2 DEF TypeOK, Started, Typed
<1>4. RetryBookedOnce'
  BY <1>1, <1>2 DEF RetryBookedOnce
<1>5. /\ \A i \in Items : stock[i].version \in Int
      /\ \A o \in WorkOrders :
           /\ orders[o].version \in Int
           /\ \A i \in Items : orders[o].lines[i] \in Int
  BY <1>1 DEF TypeOK, ItemRows, OrderRows
<1>6. Trails(t)
  BY <1>5 DEF Started, Trails, ItemTrail, OrderTrail
<1>7. ASSUME NEW u \in open'
      PROVE  Arguments(u) /\ Trails(u)
  BY <1>2, <1>6, <1>7 DEF IInv, Started
<1>8. ASSUME NEW u \in open'
      PROVE  Arguments(u)' /\ Trails(u)'
  BY <1>2, <1>7 DEF Arguments, Trails, ItemTrail, OrderTrail
<1> QED
  BY <1>3, <1>4, <1>8 DEF IInv

LEMMA RollbackKeeps ==
  ASSUME IInv, NEW t \in open, Rollback(t)
  PROVE  IInv'
<1>1. /\ open' \subseteq open
      /\ stock' = stock /\ ledger' = ledger /\ keyed' = keyed
      /\ orders' = orders /\ issues' = issues
  BY DEF Rollback, Finish
<1>2. TypeOK'
  BY <1>1 DEF IInv, TypeOK
<1>3. RetryBookedOnce'
  BY <1>1 DEF IInv, RetryBookedOnce
<1>4. ASSUME NEW u \in open'
      PROVE  Arguments(u)' /\ Trails(u)'
  BY <1>1 DEF IInv, Arguments, Trails, ItemTrail, OrderTrail
<1> QED
  BY <1>2, <1>3, <1>4 DEF IInv

LEMMA AddItemKeeps ==
  ASSUME IInv, NEW o \in WorkOrders, NEW i \in Items, NEW n \in Amounts,
         AddItem(o, i, n)
  PROVE  IInv'
<1>1. n \in Int /\ n > 0
  BY AmountsArePositive
<1>2. \A p \in WorkOrders :
        /\ orders[p] \in OrderRows
        /\ orders[p].version \in Int
        /\ orders[p].lines \in [Items -> Nat]
        /\ \A j \in Items : orders[p].lines[j] \in Int
  BY DEF IInv, TypeOK, OrderRows
<1>3. /\ \A p \in WorkOrders \ {o} : orders'[p] = orders[p]
      /\ orders'[o] = [orders[o] EXCEPT !.lines[i] = @ + n]
      /\ orders' = [p \in WorkOrders |-> IF p = o THEN orders'[o] ELSE orders[p]]
  BY DEF AddItem, IInv, TypeOK
<1>4. orders'[o] = [status |-> orders[o].status, version |-> orders[o].version,
                    lines |-> [orders[o].lines EXCEPT ![i] = @ + n]]
  BY <1>2, <1>3 DEF OrderRows
<1>5. /\ orders'[o].status = orders[o].status
      /\ orders'[o].version = orders[o].version
      /\ orders'[o].lines = [orders[o].lines EXCEPT ![i] = @ + n]
  BY <1>4
<1>6. orders'[o] \in OrderRows
  BY <1>1, <1>2, <1>4 DEF OrderRows
<1>7. orders' \in [WorkOrders -> OrderRows]
  BY <1>2, <1>3, <1>6
<1>8. \A j \in Items :
        orders'[o].lines[j] = IF j = i THEN orders[o].lines[i] + n
                              ELSE orders[o].lines[j]
  BY <1>2, <1>5
<1>9. OrdersMoved
  BY <1>1, <1>2, <1>8 DEF OrdersMoved
<1>10. OrdersMoveForward
  <2>1. \A j \in Items : orders[o].lines[j] <= orders'[o].lines[j]
    BY <1>1, <1>2, <1>8
  <2>2. \A p \in WorkOrders :
          /\ orders[p].version <= orders'[p].version
          /\ orders[p].status = orders'[p].status
          /\ \A j \in Items : orders[p].lines[j] <= orders'[p].lines[j]
    <3>1. ASSUME NEW p \in WorkOrders \ {o}
          PROVE  /\ orders[p].version <= orders'[p].version
                 /\ orders[p].status = orders'[p].status
                 /\ \A j \in Items : orders[p].lines[j] <= orders'[p].lines[j]
      BY <1>2, <1>3
    <3> QED
      BY <1>2, <1>5, <2>1, <3>1
  <2> QED
    BY <1>9, <2>2 DEF OrdersMoveForward
<1>11. /\ stock' \in [Items -> ItemRows] /\ ledger' \in [Items -> Int]
       /\ keyed' \in [Keys -> Nat] /\ issues' \in [WorkOrders -> Nat]
       /\ open' \subseteq open
  BY DEF AddItem, IInv, TypeOK
<1>12. RetryBookedOnce' /\ ItemsMoveVisibly
  BY DEF AddItem, IInv, RetryBookedOnce, ItemsMoveVisibly
<1> QED
  BY <1>7, <1>10, <1>11, <1>12, InvariantKept

LEMMA WriteInProgressKeeps ==
  ASSUME IInv, NEW o \in WorkOrders, WriteInProgress(o)
  PROVE  IInv'
<1>1. \A p \in WorkOrders :
        /\ orders[p] \in OrderRows
        /\ orders[p].version \in Int
        /\ \A j \in Items : orders[p].lines[j] \in Int
  BY DEF IInv, TypeOK, OrderRows
<1>2. /\ \A p \in WorkOrders \ {o} : orders'[p] = orders[p]
      /\ orders'[o] = [orders[o] EXCEPT !.status = "IN_PROGRESS"]
      /\ orders' = [p \in WorkOrders |-> IF p = o THEN orders'[o] ELSE orders[p]]
  BY DEF WriteInProgress, IInv, TypeOK
<1>3. /\ orders'[o] \in OrderRows
      /\ orders'[o].status = "IN_PROGRESS"
      /\ orders'[o].version = orders[o].version
      /\ orders'[o].lines = orders[o].lines
  BY <1>1, <1>2 DEF OrderRows
<1>4. orders' \in [WorkOrders -> OrderRows]
  BY <1>1, <1>2, <1>3
<1>5. OrdersMoveForward
  <2>1. \A p \in WorkOrders : JustClockedIn(p)
    BY <1>2 DEF JustClockedIn
  <2>2. \A p \in WorkOrders :
          /\ orders[p].version <= orders'[p].version
          /\ orders'[p].status \in {orders[p].status, "IN_PROGRESS"}
          /\ \A j \in Items : orders[p].lines[j] <= orders'[p].lines[j]
    <3>1. ASSUME NEW p \in WorkOrders \ {o}
          PROVE  /\ orders[p].version <= orders'[p].version
                 /\ orders'[p].status = orders[p].status
                 /\ \A j \in Items : orders[p].lines[j] <= orders'[p].lines[j]
      BY <1>1, <1>2
    <3>2. /\ orders[o].version <= orders'[o].version
          /\ \A j \in Items : orders[o].lines[j] <= orders'[o].lines[j]
      BY <1>1, <1>3
    <3> QED
      BY <1>3, <3>1, <3>2
  <2> QED
    BY <2>1, <2>2 DEF OrdersMoveForward
<1>6. /\ stock' \in [Items -> ItemRows] /\ ledger' \in [Items -> Int]
      /\ keyed' \in [Keys -> Nat] /\ issues' \in [WorkOrders -> Nat]
      /\ open' \subseteq open
  BY DEF WriteInProgress, IInv, TypeOK
<1>7. RetryBookedOnce' /\ ItemsMoveVisibly
  BY DEF WriteInProgress, IInv, RetryBookedOnce, ItemsMoveVisibly
<1> QED
  BY <1>4, <1>5, <1>6, <1>7, InvariantKept

LEMMA Initially ==
  ASSUME Init
  PROVE  IInv
<1>1. stock \in [Items -> ItemRows]
  BY BoundsAreNumbers DEF Init, ItemRows
<1>2. ledger \in [Items -> Int]
  BY <1>1 DEF Init, ItemRows
<1>3. orders \in [WorkOrders -> OrderRows]
  BY BoundsAreNumbers DEF Init, OrderRows
<1>4. keyed \in [Keys -> Nat] /\ issues \in [WorkOrders -> Nat] /\ open = {}
  BY DEF Init
<1>5. RetryBookedOnce
  BY DEF Init, RetryBookedOnce
<1> QED
  BY <1>1, <1>2, <1>3, <1>4, <1>5 DEF IInv, TypeOK

LEMMA NextKeeps ==
  ASSUME IInv, [Next]_vars
  PROVE  IInv'
<1>1. CASE UNCHANGED vars
  <2>1. /\ stock' = stock /\ ledger' = ledger /\ keyed' = keyed
        /\ orders' = orders /\ issues' = issues /\ open' = open
    BY <1>1 DEF vars
  <2>2. TypeOK' /\ RetryBookedOnce'
    BY <2>1 DEF IInv, TypeOK, RetryBookedOnce
  <2>3. ASSUME NEW u \in open'
        PROVE  Arguments(u)' /\ Trails(u)'
    BY <2>1 DEF IInv, Arguments, Trails, ItemTrail, OrderTrail
  <2> QED
    BY <2>2, <2>3 DEF IInv
<1>2. ASSUME NEW c \in Clients, Handler(c)
      PROVE  IInv'
  <2>1. PICK t \in open' : Started(t)
    BY <1>2, HandlerStarts DEF IInv
  <2> QED
    BY <2>1, StartKeeps
<1>3. ASSUME NEW t \in open, Commit(t)
      PROVE  IInv'
  BY <1>3, CommitKeeps
<1>4. ASSUME NEW t \in open, Rollback(t)
      PROVE  IInv'
  BY <1>4, RollbackKeeps
<1>5. ASSUME NEW o \in WorkOrders, NEW i \in Items, NEW n \in Amounts,
             AddItem(o, i, n)
      PROVE  IInv'
  BY <1>5, AddItemKeeps
<1>6. ASSUME NEW o \in WorkOrders, WriteInProgress(o)
      PROVE  IInv'
  BY <1>6, WriteInProgressKeeps
<1> QED
  BY <1>1, <1>2, <1>3, <1>4, <1>5, <1>6 DEF Next

-----------------------------------------------------------------------------
(***************************************************************************)
(* Theorems.                                                               *)
(***************************************************************************)

\* What transactions in flight rely on holds in every state.
THEOREM Invariance == Spec => []IInv
BY Initially, NextKeeps, PTL DEF Spec

\* Every row and every transaction has its type.
THEOREM TypeCorrect == Spec => []TypeOK
BY Invariance, PTL DEF IInv

\* As long as no order has moved since a transaction read the stock, the
\* version of an item identifies its quantity, whatever receipts, issues and
\* edits of the form have overlapped the transaction.
THEOREM VersionCheckSuffices == Spec => []VersionIdentifiesStock
<1>1. IInv => VersionIdentifiesStock
  BY DEF IInv, Trails, ItemTrail, VersionIdentifiesStock
<1> QED
  BY <1>1, Invariance, PTL

\* However often and however concurrently a client sends a movement with one
\* clientTransactionId, one row is booked.
THEOREM RetriesBookOnce == Spec => []RetryBookedOnce
BY Invariance, PTL DEF IInv

\* Only the step that takes an order from IN_PROGRESS to COMPLETED issues its
\* material, although the handler checked the status on its snapshot.
THEOREM IssuesFollowCompletions == Spec => OneIssuePerCompletion
<1> DEFINE Step ==
      \A o \in WorkOrders :
        issues'[o] # issues[o] =>
          /\ issues'[o] = issues[o] + 1
          /\ orders[o].status = "IN_PROGRESS"
          /\ orders'[o].status = "COMPLETED"
<1>1. ASSUME IInv, NEW t \in open, CommitComplete(t)
      PROVE  Step
  <2>1. TypeOK /\ Trails(t)
    BY <1>1 DEF IInv
  <2>2. t.order \in WorkOrders /\ t.orders[t.order].status = "IN_PROGRESS"
    BY <1>1 DEF IInv, Arguments, CommitComplete
  <2>3. orders[t.order].status = "IN_PROGRESS"
    BY <1>1, <2>1, <2>2 DEF CommitComplete, OrderUnmoved, Trails, OrderTrail
  <2>4. orders'[t.order].status = "COMPLETED"
    BY <1>1, <2>1, <2>2, OrderMoves DEF CommitComplete
  <2> DEFINE n == IF DOMAIN t.delta = {} THEN 0 ELSE 1
  <2>5. n \in {0, 1}
    OBVIOUS
  <2>6. issues' = [issues EXCEPT ![t.order] = @ + n]
    BY <1>1 DEF CommitComplete
  <2> HIDE DEF n
  <2>7. issues \in [WorkOrders -> Nat]
    BY <2>1 DEF TypeOK
  <2>8. /\ \A o \in WorkOrders \ {t.order} : issues'[o] = issues[o]
        /\ issues'[t.order] = issues[t.order] + n
        /\ issues[t.order] \in Nat
    BY <2>2, <2>6, <2>7
  <2>9. issues'[t.order] # issues[t.order] => n = 1
    BY <2>5, <2>8
  <2> QED
    BY <2>3, <2>4, <2>8, <2>9
<1>2. ASSUME IInv, Next, ~\E t \in open : CommitComplete(t)
      PROVE  UNCHANGED issues
  <2>1. ASSUME NEW c \in Clients, Handler(c)
        PROVE  UNCHANGED issues
    BY <1>2, <2>1, HandlerStarts DEF IInv, Started
  <2>2. ASSUME NEW t \in open, Commit(t)
        PROVE  UNCHANGED issues
    BY <1>2, <2>2 DEF Commit, CommitAdjust, CommitUpdate, CommitMovement,
       CommitHandover, CommitReopen
  <2> QED
    BY <1>2, <2>1, <2>2 DEF Next, Rollback, AddItem, WriteInProgress
<1>3. IInv /\ [Next]_vars => [Step]_vars
  BY <1>1, <1>2
<1> QED
  BY <1>3, Invariance, PTL DEF Spec, OneIssuePerCompletion

\* How far item i moves is what the ledger gets, and a handler only takes what
\* there is.
BookedItem(i) ==
  /\ stock'[i].quantity - stock[i].quantity = ledger'[i] - ledger[i]
  /\ stock'[i].quantity < stock[i].quantity => stock'[i].quantity >= 0

\* The two ways to write agree on a stock that has not moved.
LEMMA WritesAreBooked ==
  ASSUME IInv, NEW t \in open, t.op # "UPDATE", t.stock = stock,
         stock' = Overwritten(t) \/ stock' = Decremented(t), Book(t),
         NEW i \in Items
  PROVE  BookedItem(i)
<1>1. TypeOK /\ Arguments(t) /\ Typed(t)
  BY DEF IInv, TypeOK, Typed
<1>2. /\ stock[i] \in ItemRows
      /\ stock[i].quantity \in Int
      /\ ledger[i] \in Int
  BY <1>1 DEF TypeOK, ItemRows
<1>3. CASE i \in DOMAIN t.delta
  <2>1. t.delta[i] \in Int
    BY <1>1, <1>3, FieldsTyped
  <2>2. t.delta[i] < 0 => stock[i].quantity + t.delta[i] >= 0
    BY <1>1, <1>3 DEF Arguments
  <2>3. stock'[i].quantity = stock[i].quantity + t.delta[i]
    BY <1>2, <1>3 DEF Overwritten, Decremented, ItemRows
  <2>4. ledger'[i] = ledger[i] + t.delta[i]
    BY <1>3 DEF Book
  <2> QED
    BY <1>2, <2>1, <2>2, <2>3, <2>4 DEF BookedItem
<1>4. CASE i \notin DOMAIN t.delta
  <2>1. stock'[i] = stock[i]
    BY <1>4 DEF Overwritten, Decremented
  <2>2. ledger'[i] = ledger[i] + 0
    BY <1>4 DEF Book
  <2> QED
    BY <1>2, <2>1, <2>2 DEF BookedItem
<1> QED
  BY <1>3, <1>4

LEMMA NothingMoves ==
  ASSUME TypeOK, UNCHANGED <<stock, ledger>>, NEW i \in Items
  PROVE  BookedItem(i)
<1>1. stock[i].quantity \in Int /\ ledger[i] \in Int
  BY DEF TypeOK, ItemRows
<1> QED
  BY <1>1 DEF BookedItem

\* A handler that overlapped no other changes the stock by exactly what it
\* adds to the ledger, and takes no more than there is.
THEOREM HandlersBookWhatTheyMove == Spec => BooksWhatItMoves
<1> DEFINE Step ==
      \A t \in open \ open' :
        t.op # "UPDATE" /\ t.stock = stock => \A i \in Items : BookedItem(i)
<1>1. ASSUME IInv, NEW t \in open, Commit(t)
      PROVE  Step
  <2>1. SUFFICES ASSUME t.op # "UPDATE", t.stock = stock, NEW i \in Items
                 PROVE  BookedItem(i)
    <3>1. open \ open' = {t}
      BY <1>1 DEF Commit, CommitAdjust, CommitUpdate, CommitMovement,
         CommitComplete, CommitHandover, CommitReopen, Finish
    <3> QED
      BY <3>1
  <2>2. CASE CommitHandover(t) \/ CommitReopen(t)
    BY <1>1, <2>2, NothingMoves DEF CommitHandover, CommitReopen, IInv
  <2>3. CASE CommitAdjust(t) \/ CommitMovement(t) \/ CommitComplete(t)
    BY <1>1, <2>1, <2>3, WritesAreBooked
       DEF CommitAdjust, CommitMovement, CommitComplete
  <2> QED
    BY <1>1, <2>1, <2>2, <2>3 DEF Commit, CommitUpdate
<1>2. ASSUME IInv, UNCHANGED <<stock, ledger>>
      PROVE  Step
  BY <1>2, NothingMoves DEF IInv
<1>3. ASSUME IInv, NEW c \in Clients, Handler(c)
      PROVE  Step
  BY <1>2, <1>3, HandlerStarts DEF IInv, Started
<1>4. IInv /\ [Next]_vars => [Step]_vars
  BY <1>1, <1>2, <1>3 DEF Next, Rollback, AddItem, WriteInProgress
<1>5. [Step]_vars =>
        [\A t \in open \ open' :
           t.op # "UPDATE" /\ t.stock = stock =>
             \A i \in Items :
               /\ stock'[i].quantity - stock[i].quantity = ledger'[i] - ledger[i]
               /\ stock'[i].quantity < stock[i].quantity =>
                    stock'[i].quantity >= 0]_vars
  BY DEF BookedItem
<1> QED
  BY <1>4, <1>5, Invariance, PTL DEF Spec, BooksWhatItMoves

-----------------------------------------------------------------------------
(***************************************************************************)
(* The two disciplines that keep the stock and the ledger in agreement.    *)
(* Each is sound alone; the run LostStock shows that they do not mix.      *)
(***************************************************************************)

Neutral == {"submitHandover", "reopen", "addItem", "startWorkSession"}

\* The handlers that write what they computed if the version has not moved.
Versioned == {"adjustStock", "adjustIn", "adjustOut"} \cup Neutral

\* The handlers that write relative to the row as it is.
Relative == {"complete"} \cup Neutral

LEMMA WritesKeepTheBooks ==
  ASSUME TypeOK, StockMatchesLedger, NEW t \in open, Book(t),
         \/ stock' = Decremented(t)
         \/ /\ stock' = Overwritten(t)
            /\ \A i \in DOMAIN t.delta : t.stock[i] = stock[i]
  PROVE  StockMatchesLedger'
<1>1. Typed(t)
  BY DEF TypeOK, Typed
<1>2. SUFFICES ASSUME NEW i \in Items
               PROVE  stock'[i].quantity = ledger'[i]
  BY DEF StockMatchesLedger
<1>3. /\ stock[i] \in ItemRows
      /\ stock[i].quantity \in Int
      /\ ledger[i] = stock[i].quantity
  BY DEF TypeOK, ItemRows, StockMatchesLedger
<1>4. CASE i \in DOMAIN t.delta
  <2>1. t.delta[i] \in Int
    BY <1>1, <1>4, FieldsTyped
  <2>2. stock'[i].quantity = stock[i].quantity + t.delta[i]
    BY <1>3, <1>4 DEF Overwritten, Decremented, ItemRows
  <2>3. ledger'[i] = ledger[i] + t.delta[i]
    BY <1>4 DEF Book
  <2> QED
    BY <1>3, <2>2, <2>3
<1>5. CASE i \notin DOMAIN t.delta
  <2>1. stock'[i] = stock[i]
    BY <1>5 DEF Overwritten, Decremented
  <2>2. ledger'[i] = ledger[i] + 0
    BY <1>5 DEF Book
  <2> QED
    BY <1>3, <2>1, <2>2
<1> QED
  BY <1>4, <1>5

\* Adjustments alone keep the stock equal to the opening stock and the rows of
\* the ledger, however they overlap.
THEOREM AdjustmentsKeepTheBooks ==
  ASSUME Handlers \subseteq Versioned
  PROVE  Spec => []StockMatchesLedger
<1> DEFINE Fresher(t) == \A i \in Items :
             t.stock[i].version = stock[i].version => t.stock[i] = stock[i]
           Kind(t) == t.op \in {"ADJUST", "HANDOVER", "REOPEN"}
           BInv == StockMatchesLedger /\ \A t \in open : Kind(t) /\ Fresher(t)
<1>1. Init => BInv
  BY DEF Init, StockMatchesLedger
<1>2. ASSUME IInv, BInv, NEW c \in Clients, Handler(c)
      PROVE  BInv'
  <2>1. PICK t \in open' : Started(t)
    BY <1>2, HandlerStarts DEF IInv
  <2>2. \A u \in open' \ open : Kind(u)
    BY <1>2 DEF Handler, AdjustStock, AdjustIn, AdjustOut, Update,
       CreateReceipt, DirectIssue, Complete, SubmitHandover, Reopen, Begin,
       Versioned, Neutral
  <2>3. \A u \in open' : Kind(u) /\ Fresher(u)
    BY <1>2, <2>1, <2>2 DEF Started
  <2> QED
    BY <1>2, <2>1, <2>3 DEF Started, StockMatchesLedger
<1>3. ASSUME IInv, BInv, NEW t \in open, CommitAdjust(t)
      PROVE  BInv'
  <2>1. TypeOK /\ Typed(t) /\ Fresher(t)
    BY <1>3 DEF IInv, TypeOK, Typed
  <2>2. \A i \in DOMAIN t.delta : t.stock[i] = stock[i]
    BY <1>3, <2>1, FieldsTyped DEF CommitAdjust, ItemsUnmoved
  <2>3. StockMatchesLedger'
    BY <1>3, <2>1, <2>2, WritesKeepTheBooks DEF CommitAdjust
  <2>4. \A i \in Items : stock'[i] = stock[i] \/ stock[i].version < stock'[i].version
    <3>1. stock \in [Items -> ItemRows]
      BY <2>1 DEF TypeOK
    <3>2. \A i \in Items : stock[i].version \in Int
      BY <3>1 DEF ItemRows
    <3> QED
      BY <1>3, <3>2 DEF CommitAdjust, Overwritten
  <2>5. ASSUME NEW u \in open'
        PROVE  Kind(u)' /\ Fresher(u)'
    <3>1. u \in open /\ Typed(u) /\ Trails(u) /\ Kind(u) /\ Fresher(u)
      BY <1>3 DEF CommitAdjust, Finish, IInv, TypeOK, Typed
    <3>2. \A i \in Items : /\ u.stock[i].version <= stock[i].version
                           /\ u.stock[i].version \in Int
                           /\ stock[i].version \in Int
                           /\ stock'[i].version \in Int
      BY <1>3, <2>1, <3>1, FieldsTyped, WritesTyped
         DEF Trails, ItemTrail, TypeOK, ItemRows, CommitAdjust
    <3> QED
      BY <2>4, <3>1, <3>2
  <2> QED
    BY <2>3, <2>5
<1>4. ASSUME BInv, UNCHANGED <<stock, ledger>>, open' \subseteq open
      PROVE  BInv'
  BY <1>4 DEF StockMatchesLedger
<1>5. IInv /\ BInv /\ [Next]_vars => BInv'
  <2>1. ASSUME IInv, BInv, NEW t \in open, Commit(t) \/ Rollback(t)
        PROVE  BInv'
    <3>1. ~CommitUpdate(t) /\ ~CommitMovement(t) /\ ~CommitComplete(t)
      BY <2>1 DEF CommitUpdate, CommitMovement, CommitComplete
    <3> QED
      BY <1>3, <1>4, <2>1, <3>1
         DEF Commit, CommitHandover, CommitReopen, Rollback, Finish
  <2>2. ASSUME BInv, \/ UNCHANGED vars
                     \/ \E o \in WorkOrders, i \in Items, n \in Amounts :
                          AddItem(o, i, n)
                     \/ \E o \in WorkOrders : WriteInProgress(o)
        PROVE  BInv'
    BY <1>4, <2>2 DEF vars, AddItem, WriteInProgress
  <2> QED
    BY <1>2, <2>1, <2>2 DEF Next
<1>6. BInv => StockMatchesLedger
  OBVIOUS
<1> HIDE DEF BInv
<1> QED
  BY <1>1, <1>5, <1>6, Invariance, PTL DEF Spec

\* Completions alone do so too.
THEOREM CompletionsKeepTheBooks ==
  ASSUME Handlers \subseteq Relative
  PROVE  Spec => []StockMatchesLedger
<1> DEFINE Kind(t) == t.op \in {"COMPLETE", "HANDOVER", "REOPEN"}
           BInv == StockMatchesLedger /\ \A t \in open : Kind(t)
<1>1. Init => BInv
  BY DEF Init, StockMatchesLedger
<1>2. ASSUME IInv, BInv, NEW c \in Clients, Handler(c)
      PROVE  BInv'
  <2>1. PICK t \in open' : Started(t)
    BY <1>2, HandlerStarts DEF IInv
  <2>2. \A u \in open' \ open : Kind(u)
    BY <1>2 DEF Handler, AdjustStock, AdjustIn, AdjustOut, Update,
       CreateReceipt, DirectIssue, Complete, SubmitHandover, Reopen, Begin,
       Relative, Neutral
  <2> QED
    BY <1>2, <2>1, <2>2 DEF Started, StockMatchesLedger
<1>3. ASSUME IInv, BInv, NEW t \in open, CommitComplete(t)
      PROVE  BInv'
  <2>1. StockMatchesLedger'
    BY <1>3, WritesKeepTheBooks DEF CommitComplete, IInv
  <2> QED
    BY <1>3, <2>1 DEF CommitComplete, Finish
<1>4. ASSUME BInv, UNCHANGED <<stock, ledger>>, open' \subseteq open
      PROVE  BInv'
  BY <1>4 DEF StockMatchesLedger
<1>5. IInv /\ BInv /\ [Next]_vars => BInv'
  <2>1. ASSUME IInv, BInv, NEW t \in open, Commit(t) \/ Rollback(t)
        PROVE  BInv'
    <3>1. ~CommitUpdate(t) /\ ~CommitMovement(t) /\ ~CommitAdjust(t)
      BY <2>1 DEF CommitUpdate, CommitMovement, CommitAdjust
    <3> QED
      BY <1>3, <1>4, <2>1, <3>1
         DEF Commit, CommitHandover, CommitReopen, Rollback, Finish
  <2>2. ASSUME BInv, \/ UNCHANGED vars
                     \/ \E o \in WorkOrders, i \in Items, n \in Amounts :
                          AddItem(o, i, n)
                     \/ \E o \in WorkOrders : WriteInProgress(o)
        PROVE  BInv'
    BY <1>4, <2>2 DEF vars, AddItem, WriteInProgress
  <2> QED
    BY <1>2, <2>1, <2>2 DEF Next
<1>6. BInv => StockMatchesLedger
  OBVIOUS
<1> HIDE DEF BInv
<1> QED
  BY <1>1, <1>5, <1>6, Invariance, PTL DEF Spec

=============================================================================
