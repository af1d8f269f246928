----------------------------- MODULE Checklists -----------------------------
(***************************************************************************)
(* Checklists of work orders: ChecklistExecutionsService.  Technicians     *)
(* fill in the items of a checklist that several of them may have on their *)
(* screens, and complete or cancel it.                                     *)
(*                                                                         *)
(* Every handler is a transaction that reads the checklist, checks that it *)
(* has the version the caller names, which is the one he has on his        *)
(* screen, and writes it only if it still has that version: Begin is the   *)
(* reading, Commit and Fail are the two ends of the writing.               *)
(***************************************************************************)
EXTENDS Integers, Sequences

CONSTANTS
  Checklists,  \* checklist executions
  Clients,     \* people with a screen
  Sizes,       \* how many items a checklist may have
  MaxVersion,  \* the version from which nothing changes any more
  None         \* no item

ASSUME ChecklistConstants ==
  Sizes \subseteq Nat /\ MaxVersion \in Nat /\ None \notin Nat

VARIABLES
  checklists,  \* the executions with their items
  screen,      \* screen[c]: the checklist that c looks at, as he saw it
  open         \* the transactions under way

vars == <<checklists, screen, open>>

ItemStatuses == {"NOT_CHECKED", "PASSED", "FAILED", "NA"}

Absent == [status |-> "NEW", version |-> 0, result |-> "NONE", items |-> << >>]

Init ==
  /\ checklists = [e \in Checklists |-> Absent]
  /\ screen \in [Clients -> [of : Checklists, row : {Absent}]]
  /\ open = {}

\* createExecution, for an order that was neither cancelled nor closed when it
\* was read.
createExecution(c, e) ==
  /\ checklists[e].status = "NEW"
  /\ \E n \in Sizes :
       LET row == [Absent EXCEPT !.status = "DRAFT", !.version = 1,
                                 !.items = [k \in 1..n |-> "NOT_CHECKED"]]
       IN  /\ checklists' = [checklists EXCEPT ![e] = row]
           /\ screen' = [screen EXCEPT ![c] = [of |-> e, row |-> row]]
  /\ UNCHANGED open

\* getExecutionById.
Look(c, e) ==
  /\ checklists[e].status # "NEW"
  /\ screen' = [screen EXCEPT ![c] = [of |-> e, row |-> checklists[e]]]
  /\ UNCHANGED <<checklists, open>>
-----------------------------------------------------------------------------
\* What every handler checks first.
Expected(c) ==
  LET row == checklists[screen[c].of] IN
  /\ row.status = "DRAFT"
  /\ row.version = screen[c].row.version

\* 'seen' is what the caller had on his screen.  He waits for the answer; two
\* calls at once are those of two people with the same screen.
Begin(c, do, item, value) ==
  /\ Expected(c)
  /\ screen[c].row.version < MaxVersion
  /\ \A t \in open : t.client # c
  /\ open' = open \cup
       {[do |-> do, client |-> c, of |-> screen[c].of, item |-> item,
         value |-> value, version |-> screen[c].row.version,
         seen |-> screen[c].row]}
  /\ UNCHANGED <<checklists, screen>>

updateItem(c) ==
  \E k \in DOMAIN checklists[screen[c].of].items, status \in ItemStatuses :
    Begin(c, "update", k, status)

NoneUnchecked(items) == \A k \in DOMAIN items : items[k] # "NOT_CHECKED"
AllNA(items) == items # << >> /\ \A k \in DOMAIN items : items[k] = "NA"
ResultOf(items) ==
  IF \E k \in DOMAIN items : items[k] = "FAILED" THEN "FAILED" ELSE "PASSED"

completeExecution(c) ==
  LET items == checklists[screen[c].of].items IN
  /\ NoneUnchecked(items)
  /\ ~AllNA(items)
  /\ Begin(c, "complete", None, ResultOf(items))

cancelExecution(c) == Begin(c, "cancel", None, "NONE")
-----------------------------------------------------------------------------
\* The row after each handler: an item is written before the version is
\* compared, but a comparison that fails rolls that back, too.
FaultItemSet(row, k, status) == [row EXCEPT !.items[k] = status]

ItemSet(row, k, status) ==
  [row EXCEPT !.items[k] = status, !.version = @ + 1]

Completed(row, result) ==
  [row EXCEPT !.status = "COMPLETED", !.result = result, !.version = @ + 1]

Cancelled(row) == [row EXCEPT !.status = "CANCELLED", !.version = @ + 1]

Written(t) ==
  LET row == checklists[t.of] IN
  CASE t.do = "update" -> ItemSet(row, t.item, t.value)
    [] t.do = "complete" -> Completed(row, t.value)
    [] t.do = "cancel" -> Cancelled(row)

\* The answer shows the caller what became of the checklist.
Commit(t) ==
  /\ checklists[t.of].version = t.version
  /\ checklists' = [checklists EXCEPT ![t.of] = Written(t)]
  /\ screen' = [screen EXCEPT ![t.client] = [of |-> t.of, row |-> Written(t)]]
  /\ open' = open \ {t}

Fail(t) ==
  /\ checklists[t.of].version # t.version
  /\ open' = open \ {t}
  /\ UNCHANGED <<checklists, screen>>

Next ==
  \/ \E c \in Clients :
       \/ \E e \in Checklists : createExecution(c, e) \/ Look(c, e)
       \/ updateItem(c) \/ completeExecution(c) \/ cancelExecution(c)
  \/ \E t \in open : Commit(t) \/ Fail(t)

Spec == Init /\ [][Next]_vars
-----------------------------------------------------------------------------
(* Properties.                                                             *)

Row == [status : {"NEW", "DRAFT", "COMPLETED", "CANCELLED"}, version : Nat,
        result : {"NONE", "PASSED", "FAILED"}, items : Seq(ItemStatuses)]

Transaction ==
  [do : {"update", "complete", "cancel"}, client : Clients, of : Checklists,
   item : Nat \cup {None}, value : ItemStatuses \cup {"NONE"}, version : Nat,
   seen : Row]

\* Every variable keeps its type.
TypeOK ==
  /\ checklists \in [Checklists -> Row]
  /\ screen \in [Clients -> [of : Checklists, row : Row]]
  /\ open \subseteq Transaction

\* A completed checklist has every item checked, not all of them as not
\* applicable, and its result is what its items say, although the result was
\* worked out from items read before others may have changed them.
CompletedIsRight ==
  \A e \in Checklists :
    LET row == checklists[e] IN
    row.status = "COMPLETED" =>
      /\ NoneUnchecked(row.items)
      /\ ~AllNA(row.items)
      /\ row.result = ResultOf(row.items)

\* Nobody changes a checklist that he has not seen as it is: whatever others
\* do between his looking, his calling and the writing, what is overwritten
\* is what was on his screen.
NothingUnseen ==
  [][\A t \in open \ open' :
       checklists'[t.of] # checklists[t.of] => t.seen = checklists[t.of]]_vars
=============================================================================
