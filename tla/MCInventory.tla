---------------------------- MODULE MCInventory -----------------------------
(***************************************************************************)
(* Instances of Inventory for TLC.  The ledger, the counters of issues and *)
(* the versions grow without bound; View keeps what the guards, the writes *)
(* and the properties of the passing run can still tell apart.             *)
(***************************************************************************)
EXTENDS Inventory, TLC

\* A transaction that can only roll back: its conditional UPDATE will match no
\* row, because versions never come back.
Doomed(t) ==
  \/ t.op \in {"ADJUST", "UPDATE"} /\ ~ItemsUnmoved(t)
  \/ t.op \in {"COMPLETE", "HANDOVER", "REOPEN"} /\ ~OrderUnmoved(t)

\* The items whose version has not moved since the snapshot.
Unmoved(t) == {i \in Items : t.stock[i].version = stock[i].version}

\* What a transaction knows of the stock, as far as that still matters.
Known(t) ==
  [i \in Unmoved(t) \cup (IF Doomed(t) THEN {} ELSE DOMAIN t.delta) |->
     t.stock[i].quantity]

\* A transaction, with its snapshot reduced to what it can still make use of.
Abstracted(t) ==
  [client |-> t.client, unmoved |-> Unmoved(t), known |-> Known(t),
   settled |-> t.orders = orders, doomed |-> Doomed(t),
   op |-> IF Doomed(t) THEN "NONE" ELSE t.op,
   delta |-> IF Doomed(t) THEN Nothing ELSE t.delta,
   key |-> IF Doomed(t) THEN None ELSE t.key,
   order |-> IF Doomed(t) THEN None ELSE t.order]

View ==
  <<[i \in Items |-> stock[i].quantity], keyed,
    [o \in WorkOrders |-> <<orders[o].status, orders[o].lines>>],
    {Abstracted(t) : t \in open}>>

Symmetry == Permutations(Clients) \cup Permutations(Items)
            \cup Permutations(WorkOrders)

AllHandlers ==
  {"adjustStock", "adjustIn", "adjustOut", "update", "createReceipt",
   "directIssue", "complete", "submitHandover", "reopen", "addItem",
   "startWorkSession"}

\* Completion and rework.
ReworkRace == {"complete", "reopen"}
=============================================================================
