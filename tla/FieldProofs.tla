---------------------------- MODULE FieldProofs -----------------------------
(***************************************************************************)
(* Theorems about FieldWork, for all sets of people, orders, checklists    *)
(* and items: the version that a caller of a checklist names stands for    *)
(* all that he saw; a call for a work session relies on what its           *)
(* technician's other sessions do, and he makes one call at a time; and    *)
(* the theorems of FabricationProofs, which FieldWork instantiates, hold   *)
(* of the whole.                                                           *)
(***************************************************************************)
EXTENDS FieldWork, FiniteSetTheorems, TLAPS

-----------------------------------------------------------------------------
(* Checklists: rows.                                                       *)

\* Writing one field of a row.
LEMMA SetVersion ==
  ASSUME NEW row \in Row
  PROVE  /\ [row EXCEPT !.version = @ + 1] \in Row
         /\ [row EXCEPT !.version = @ + 1].version = row.version + 1
         /\ [row EXCEPT !.version = @ + 1].status = row.status
         /\ [row EXCEPT !.version = @ + 1].result = row.result
         /\ [row EXCEPT !.version = @ + 1].items = row.items
  BY DEF Row

LEMMA SetStatus ==
  ASSUME NEW row \in Row,
         NEW status \in {"NEW", "DRAFT", "COMPLETED", "CANCELLED"}
  PROVE  /\ [row EXCEPT !.status = status] \in Row
         /\ [row EXCEPT !.status = status].version = row.version
         /\ [row EXCEPT !.status = status].status = status
         /\ [row EXCEPT !.status = status].result = row.result
         /\ [row EXCEPT !.status = status].items = row.items
  BY DEF Row

LEMMA SetResult ==
  ASSUME NEW row \in Row, NEW result \in {"PASSED", "FAILED"}
  PROVE  /\ [row EXCEPT !.result = result] \in Row
         /\ [row EXCEPT !.result = result].version = row.version
         /\ [row EXCEPT !.result = result].status = row.status
         /\ [row EXCEPT !.result = result].result = result
         /\ [row EXCEPT !.result = result].items = row.items
  BY DEF Row

LEMMA SetItem ==
  ASSUME NEW row \in Row, NEW k \in Nat, NEW status \in ItemStatuses
  PROVE  /\ [row EXCEPT !.items[k] = status] \in Row
         /\ [row EXCEPT !.items[k] = status].version = row.version
         /\ [row EXCEPT !.items[k] = status].status = row.status
<1> DEFINE items == [row.items EXCEPT ![k] = status]
<1>1. items \in Seq(ItemStatuses)
  <2>1. row.items \in Seq(ItemStatuses)
    BY DEF Row
  <2>2. PICK n \in Nat : row.items \in [1..n -> ItemStatuses]
    BY <2>1
  <2>3. items \in [1..n -> ItemStatuses]
    BY <2>2
  <2> HIDE DEF items
  <2>4. QED BY <2>3
<1>2. [row EXCEPT !.items[k] = status] = [row EXCEPT !.items = items]
  BY Zenon
<1> HIDE DEF items
<1>3. /\ [row EXCEPT !.items = items] \in Row
      /\ [row EXCEPT !.items = items].version = row.version
      /\ [row EXCEPT !.items = items].status = row.status
  BY <1>1 DEF Row
<1>4. QED BY <1>2, <1>3

\* updateItem.
LEMMA ItemRow ==
  ASSUME NEW row \in Row, NEW k \in Nat, NEW status \in ItemStatuses
  PROVE  /\ ItemSet(row, k, status) \in Row
         /\ ItemSet(row, k, status).version = row.version + 1
         /\ ItemSet(row, k, status).status = row.status
<1> DEFINE r1 == [row EXCEPT !.items[k] = status]
           r2 == [r1 EXCEPT !.version = @ + 1]
<1>1. r1 \in Row /\ r1.version = row.version /\ r1.status = row.status
  BY SetItem
<1>2. r2 \in Row /\ r2.version = row.version + 1 /\ r2.status = row.status
  <2> HIDE DEF r1
  <2> QED BY <1>1, SetVersion
<1>3. r2 = ItemSet(row, k, status)
  BY DEF ItemSet
<1>4. QED BY <1>2, <1>3

\* completeExecution.
LEMMA CompletedRow ==
  ASSUME NEW row \in Row, NEW result \in {"PASSED", "FAILED"}
  PROVE  /\ Completed(row, result) \in Row
         /\ Completed(row, result).version = row.version + 1
         /\ Completed(row, result).status = "COMPLETED"
         /\ Completed(row, result).result = result
         /\ Completed(row, result).items = row.items
<1> DEFINE r1 == [row EXCEPT !.status = "COMPLETED"]
           r2 == [r1 EXCEPT !.result = result]
           r3 == [r2 EXCEPT !.version = @ + 1]
<1>1. /\ r1 \in Row /\ r1.version = row.version
      /\ r1.status = "COMPLETED" /\ r1.items = row.items
  BY SetStatus
<1>2. /\ r2 \in Row /\ r2.version = row.version
      /\ r2.status = "COMPLETED" /\ r2.result = result /\ r2.items = row.items
  <2> HIDE DEF r1
  <2> QED BY <1>1, SetResult
<1>3. /\ r3 \in Row /\ r3.version = row.version + 1
      /\ r3.status = "COMPLETED" /\ r3.result = result /\ r3.items = row.items
  <2> HIDE DEF r2
  <2> QED BY <1>2, SetVersion
<1>4. r3 = Completed(row, result)
  BY DEF Completed
<1>5. QED BY <1>3, <1>4

\* cancelExecution.
LEMMA CancelledRow ==
  ASSUME NEW row \in Row
  PROVE  /\ Cancelled(row) \in Row
         /\ Cancelled(row).version = row.version + 1
         /\ Cancelled(row).status = "CANCELLED"
<1> DEFINE r1 == [row EXCEPT !.status = "CANCELLED"]
           r2 == [r1 EXCEPT !.version = @ + 1]
<1>1. r1 \in Row /\ r1.version = row.version /\ r1.status = "CANCELLED"
  BY SetStatus
<1>2. r2 \in Row /\ r2.version = row.version + 1 /\ r2.status = "CANCELLED"
  <2> HIDE DEF r1
  <2> QED BY <1>1, SetVersion
<1>3. r2 = Cancelled(row)
  BY DEF Cancelled
<1>4. QED BY <1>2, <1>3

\* createExecution.
Created(n) ==
  [Absent EXCEPT !.status = "DRAFT", !.version = 1,
                 !.items = [k \in 1..n |-> "NOT_CHECKED"]]

LEMMA CreatedRow ==
  ASSUME NEW n \in Sizes
  PROVE  Created(n) \in Row /\ Created(n).version = 1 /\ Created(n).status = "DRAFT"
<1>1. n \in Nat
  BY ChecklistConstants
<1>2. [k \in 1..n |-> "NOT_CHECKED"] \in Seq(ItemStatuses)
  BY <1>1 DEF ItemStatuses
<1>3. QED BY <1>2 DEF Created, Absent, Row
-----------------------------------------------------------------------------
(* Checklists: what the version stands for.                                *)

\* A screen that shows the present version shows the present row.
ScreensTell ==
  \A c \in Clients :
    LET e == screen[c].of IN
    /\ screen[c].row.version <= checklists[e].version
    /\ screen[c].row.version = checklists[e].version
         => screen[c].row = checklists[e]

\* So does what a transaction read, and the checklist is a draft then.
CallsTell ==
  \A t \in open :
    /\ t.version <= checklists[t.of].version
    /\ t.version = checklists[t.of].version
         => t.seen = checklists[t.of] /\ checklists[t.of].status = "DRAFT"

\* What a transaction was worked out from.
CallsAreRight ==
  \A t \in open :
    /\ t.do = "update" => t.item \in Nat /\ t.value \in ItemStatuses
    /\ t.do = "complete" =>
         /\ t.value = ResultOf(t.seen.items)
         /\ NoneUnchecked(t.seen.items) /\ ~AllNA(t.seen.items)

NewIsAbsent ==
  \A e \in Checklists : checklists[e].status = "NEW" => checklists[e].version = 0

ChecklistInv ==
  TypeOK /\ ScreensTell /\ CallsTell /\ CallsAreRight /\ NewIsAbsent
         /\ CompletedIsRight
-----------------------------------------------------------------------------
(* Every step of checklists keeps the invariant.                           *)

\* A row that somebody writes, and whose new version he is shown.
Shown(c, e, row) ==
  /\ checklists' = [checklists EXCEPT ![e] = row]
  /\ screen' = [screen EXCEPT ![c] = [of |-> e, row |-> row]]

LEMMA ShownTypes ==
  ASSUME TypeOK, NEW c \in Clients, NEW e \in Checklists, NEW row \in Row,
         Shown(c, e, row)
  PROVE  /\ checklists' \in [Checklists -> Row]
         /\ screen' \in [Clients -> [of : Checklists, row : Row]]
         /\ checklists'[e] = row
         /\ \A d \in Checklists \ {e} : checklists'[d] = checklists[d]
         /\ screen'[c] = [of |-> e, row |-> row]
         /\ \A d \in Clients \ {c} : screen'[d] = screen[d]
  BY DEF TypeOK, Shown

\* Other screens of the checklist fall behind.
LEMMA ShownScreens ==
  ASSUME ChecklistInv, NEW c \in Clients, NEW e \in Checklists, NEW row \in Row,
         row.version = checklists[e].version + 1, Shown(c, e, row)
  PROVE  ScreensTell'
<1> SUFFICES ASSUME NEW d \in Clients
             PROVE  LET f == screen'[d].of IN
                    /\ screen'[d].row.version <= checklists'[f].version
                    /\ screen'[d].row.version = checklists'[f].version
                         => screen'[d].row = checklists'[f]
  BY DEF ScreensTell
<1>1. /\ checklists'[e] = row
      /\ \A x \in Checklists \ {e} : checklists'[x] = checklists[x]
      /\ screen'[c] = [of |-> e, row |-> row]
      /\ \A x \in Clients \ {c} : screen'[x] = screen[x]
  BY ShownTypes DEF ChecklistInv
<1>2. row.version \in Nat /\ checklists[e].version \in Nat
  BY DEF ChecklistInv, TypeOK, Row
<1>3. CASE d = c
  BY <1>1, <1>2, <1>3
<1>4. CASE d # c
  <2>1. /\ screen[d].of \in Checklists /\ screen[d].row.version \in Nat
        /\ screen[d].row.version <= checklists[screen[d].of].version
        /\ screen[d].row.version = checklists[screen[d].of].version
             => screen[d].row = checklists[screen[d].of]
    BY DEF ChecklistInv, TypeOK, Row, ScreensTell
  <2>2. screen'[d] = screen[d]
    BY <1>1, <1>4
  <2>3. CASE screen[d].of = e
    <3>1. screen[d].row.version < checklists'[e].version
      BY <1>1, <1>2, <2>1, <2>3
    <3>2. QED BY <1>1, <1>2, <2>1, <2>2, <2>3, <3>1
  <2>4. CASE screen[d].of # e
    BY <1>1, <2>1, <2>2, <2>4
  <2>5. QED BY <2>3, <2>4
<1>5. QED BY <1>3, <1>4

\* So do the other transactions.
LEMMA ShownCalls ==
  ASSUME ChecklistInv, NEW c \in Clients, NEW e \in Checklists, NEW row \in Row,
         row.version = checklists[e].version + 1, Shown(c, e, row),
         open' \subseteq open
  PROVE  CallsTell'
<1> SUFFICES ASSUME NEW t \in open'
             PROVE  /\ t.version <= checklists'[t.of].version
                    /\ t.version = checklists'[t.of].version
                         => /\ t.seen = checklists'[t.of]
                            /\ checklists'[t.of].status = "DRAFT"
  BY DEF CallsTell
<1>1. /\ t.of \in Checklists /\ t.version \in Nat
      /\ t.version <= checklists[t.of].version
      /\ t.version = checklists[t.of].version
           => t.seen = checklists[t.of] /\ checklists[t.of].status = "DRAFT"
  BY DEF ChecklistInv, TypeOK, Transaction, CallsTell
<1>2. /\ checklists'[e] = row
      /\ \A x \in Checklists \ {e} : checklists'[x] = checklists[x]
      /\ screen'[c] = [of |-> e, row |-> row]
      /\ \A x \in Clients \ {c} : screen'[x] = screen[x]
  <2>1. TypeOK
    BY DEF ChecklistInv
  <2>2. QED BY <2>1, ShownTypes
<1>3. row.version \in Nat /\ checklists[e].version \in Nat
  BY DEF ChecklistInv, TypeOK, Row
<1>4. CASE t.of = e
  <2>1. t.version < checklists'[e].version
    BY <1>1, <1>2, <1>3, <1>4
  <2>2. QED BY <1>1, <1>2, <1>3, <1>4, <2>1
<1>5. CASE t.of # e
  BY <1>1, <1>2, <1>5
<1>6. QED BY <1>4, <1>5

\* The checklist of one that is not completed, or is completed rightly.
RightRow(row) ==
  /\ row.status = "NEW" => row.version = 0
  /\ row.status = "COMPLETED" =>
       /\ NoneUnchecked(row.items) /\ ~AllNA(row.items)
       /\ row.result = ResultOf(row.items)

LEMMA ShownInv ==
  ASSUME ChecklistInv, NEW c \in Clients, NEW e \in Checklists, NEW row \in Row,
         row.version = checklists[e].version + 1, RightRow(row),
         Shown(c, e, row), open' \subseteq open
  PROVE  ChecklistInv'
<1>1. ScreensTell' /\ CallsTell'
  BY ShownScreens, ShownCalls
<1>2. /\ checklists' \in [Checklists -> Row]
      /\ screen' \in [Clients -> [of : Checklists, row : Row]]
      /\ checklists'[e] = row
      /\ \A x \in Checklists \ {e} : checklists'[x] = checklists[x]
      /\ screen'[c] = [of |-> e, row |-> row]
      /\ \A x \in Clients \ {c} : screen'[x] = screen[x]
  <2>1. TypeOK
    BY DEF ChecklistInv
  <2>2. QED BY <2>1, ShownTypes
<1>3. TypeOK'
  BY <1>2 DEF ChecklistInv, TypeOK
<1>4. CallsAreRight'
  BY DEF ChecklistInv, CallsAreRight
<1>5. NewIsAbsent'
  BY <1>2 DEF ChecklistInv, NewIsAbsent, RightRow
<1>6. CompletedIsRight'
  BY <1>2 DEF ChecklistInv, CompletedIsRight, RightRow
<1>7. QED BY <1>1, <1>3, <1>4, <1>5, <1>6 DEF ChecklistInv

LEMMA CreateInv ==
  ASSUME ChecklistInv, NEW c \in Clients, NEW e \in Checklists, createExecution(c, e)
  PROVE  ChecklistInv'
<1>1. PICK n \in Sizes : Shown(c, e, Created(n))
  BY DEF createExecution, Created, Shown
<1>2. /\ Created(n) \in Row /\ Created(n).version = 1
      /\ Created(n).status = "DRAFT"
  BY CreatedRow
<1>3. checklists[e].version = 0
  BY DEF ChecklistInv, NewIsAbsent, createExecution
<1>4. open' \subseteq open
  BY DEF createExecution
<1>5. QED BY <1>1, <1>2, <1>3, <1>4, ShownInv DEF RightRow

LEMMA LookInv ==
  ASSUME ChecklistInv, NEW c \in Clients, NEW e \in Checklists, Look(c, e)
  PROVE  ChecklistInv'
<1>1. /\ screen' = [screen EXCEPT ![c] = [of |-> e, row |-> checklists[e]]]
      /\ UNCHANGED <<checklists, open>>
  BY DEF Look
<1>2. checklists[e] \in Row /\ checklists[e].version \in Nat
  BY DEF ChecklistInv, TypeOK, Row
<1>3. TypeOK'
  BY <1>1, <1>2 DEF ChecklistInv, TypeOK
<1>4. ScreensTell'
  BY <1>1, <1>2 DEF ChecklistInv, TypeOK, ScreensTell
<1>5. CallsTell' /\ CallsAreRight' /\ NewIsAbsent' /\ CompletedIsRight'
  BY <1>1 DEF ChecklistInv, CallsTell, CallsAreRight, NewIsAbsent, CompletedIsRight
<1>6. QED BY <1>3, <1>4, <1>5 DEF ChecklistInv

\* A call reads the checklist: the version on the screen is the present one.
LEMMA BeginInv ==
  ASSUME ChecklistInv, NEW c \in Clients, NEW do \in {"update", "complete", "cancel"},
         NEW item \in Nat \cup {None}, NEW value \in ItemStatuses \cup {"NONE"},
         do = "update" => item \in Nat /\ value \in ItemStatuses,
         do = "complete" =>
           /\ value = ResultOf(screen[c].row.items)
           /\ NoneUnchecked(screen[c].row.items) /\ ~AllNA(screen[c].row.items),
         Begin(c, do, item, value)
  PROVE  ChecklistInv'
<1> DEFINE e == screen[c].of
           new == [do |-> do, client |-> c, of |-> e, item |-> item,
                   value |-> value, version |-> screen[c].row.version,
                   seen |-> screen[c].row]
<1>1. open' = open \cup {new} /\ UNCHANGED <<checklists, screen>>
  BY DEF Begin
<1>2. e \in Checklists /\ screen[c].row \in Row /\ screen[c].row.version \in Nat
  BY DEF ChecklistInv, TypeOK, Row
<1>3. /\ screen[c].row.version = checklists[e].version
      /\ checklists[e].status = "DRAFT"
  BY DEF Begin, Expected
<1>4. screen[c].row = checklists[e]
  BY <1>3 DEF ChecklistInv, ScreensTell
<1>5. new \in Transaction
  BY <1>2 DEF Transaction
<1>6. TypeOK'
  BY <1>1, <1>5 DEF ChecklistInv, TypeOK
<1>7. CallsTell'
  <2> SUFFICES ASSUME NEW t \in open'
               PROVE  /\ t.version <= checklists[t.of].version
                      /\ t.version = checklists[t.of].version
                           => /\ t.seen = checklists[t.of]
                              /\ checklists[t.of].status = "DRAFT"
    BY <1>1 DEF CallsTell
  <2>1. CASE t \in open
    BY <2>1 DEF ChecklistInv, CallsTell
  <2>2. CASE t = new
    BY <1>2, <1>3, <1>4, <2>2
  <2>3. QED BY <1>1, <2>1, <2>2
<1>8. CallsAreRight'
  BY <1>1 DEF ChecklistInv, CallsAreRight
<1>9. ScreensTell' /\ NewIsAbsent' /\ CompletedIsRight'
  BY <1>1 DEF ChecklistInv, ScreensTell, NewIsAbsent, CompletedIsRight
<1>10. QED BY <1>6, <1>7, <1>8, <1>9 DEF ChecklistInv

\* What Commit writes.
LEMMA CommitRow ==
  ASSUME ChecklistInv, NEW t \in open, checklists[t.of].version = t.version
  PROVE  /\ t.of \in Checklists /\ t.client \in Clients
         /\ t.seen = checklists[t.of]
         /\ Written(t) \in Row
         /\ Written(t).version = checklists[t.of].version + 1
         /\ RightRow(Written(t))
<1> DEFINE row == checklists[t.of]
<1>1. /\ t.of \in Checklists /\ t.client \in Clients
      /\ t.do \in {"update", "complete", "cancel"} /\ row \in Row
  BY DEF ChecklistInv, TypeOK, Transaction
<1>2. t.seen = row /\ row.status = "DRAFT"
  BY DEF ChecklistInv, CallsTell
<1>3. CASE t.do = "update"
  <2>1. t.item \in Nat /\ t.value \in ItemStatuses
    BY <1>3 DEF ChecklistInv, CallsAreRight
  <2>2. Written(t) = ItemSet(row, t.item, t.value)
    BY <1>3 DEF Written
  <2>3. /\ Written(t) \in Row /\ Written(t).version = row.version + 1
        /\ Written(t).status = "DRAFT"
    BY <1>1, <1>2, <2>1, <2>2, ItemRow
  <2>4. QED BY <1>1, <1>2, <2>3 DEF RightRow
<1>4. CASE t.do = "complete"
  <2>1. /\ t.value = ResultOf(row.items)
        /\ NoneUnchecked(row.items) /\ ~AllNA(row.items)
    BY <1>2, <1>4 DEF ChecklistInv, CallsAreRight
  <2>2. t.value \in {"PASSED", "FAILED"}
    BY <2>1 DEF ResultOf
  <2>3. Written(t) = Completed(row, t.value)
    BY <1>4 DEF Written
  <2>4. /\ Written(t) \in Row /\ Written(t).version = row.version + 1
        /\ Written(t).status = "COMPLETED" /\ Written(t).result = t.value
        /\ Written(t).items = row.items
    BY <1>1, <2>2, <2>3, CompletedRow
  <2>5. QED BY <1>1, <1>2, <2>1, <2>4 DEF RightRow
<1>5. CASE t.do = "cancel"
  <2>1. Written(t) = Cancelled(row)
    BY <1>5 DEF Written
  <2>2. /\ Written(t) \in Row /\ Written(t).version = row.version + 1
        /\ Written(t).status = "CANCELLED"
    BY <1>1, <2>1, CancelledRow
  <2>3. QED BY <1>1, <1>2, <2>2 DEF RightRow
<1>6. QED BY <1>1, <1>3, <1>4, <1>5

LEMMA CommitInv ==
  ASSUME ChecklistInv, NEW t \in open, Commit(t)
  PROVE  ChecklistInv'
<1>1. /\ t.of \in Checklists /\ t.client \in Clients
      /\ Written(t) \in Row
      /\ Written(t).version = checklists[t.of].version + 1
      /\ RightRow(Written(t))
  BY CommitRow DEF Commit
<1>2. Shown(t.client, t.of, Written(t)) /\ open' \subseteq open
  BY DEF Commit, Shown
<1>3. QED BY <1>1, <1>2, ShownInv

LEMMA ChecklistNext ==
  ASSUME ChecklistInv, [Next]_vars
  PROVE  ChecklistInv'
<1>1. ASSUME NEW c \in Clients, NEW e \in Checklists, createExecution(c, e)
      PROVE  ChecklistInv'
  BY <1>1, CreateInv
<1>2. ASSUME NEW c \in Clients, NEW e \in Checklists, Look(c, e) PROVE ChecklistInv'
  BY <1>2, LookInv
<1>3. ASSUME NEW c \in Clients, updateItem(c) PROVE ChecklistInv'
  <2>1. PICK k \in DOMAIN checklists[screen[c].of].items, status \in ItemStatuses :
          Begin(c, "update", k, status)
    BY <1>3 DEF updateItem
  <2>2. k \in Nat
    BY DEF ChecklistInv, TypeOK, Row
  <2>3. QED BY <2>1, <2>2, BeginInv
<1>4. ASSUME NEW c \in Clients, completeExecution(c) PROVE ChecklistInv'
  <2> DEFINE items == checklists[screen[c].of].items
  <2>1. /\ NoneUnchecked(items) /\ ~AllNA(items)
        /\ Begin(c, "complete", None, ResultOf(items))
    BY <1>4 DEF completeExecution
  <2>2. screen[c].row = checklists[screen[c].of]
    BY <2>1 DEF Begin, Expected, ChecklistInv, ScreensTell
  <2>3. ResultOf(items) \in ItemStatuses \cup {"NONE"}
    BY DEF ResultOf, ItemStatuses
  <2>4. QED BY <2>1, <2>2, <2>3, BeginInv
<1>5. ASSUME NEW c \in Clients, cancelExecution(c) PROVE ChecklistInv'
  BY <1>5, BeginInv DEF cancelExecution
<1>6. ASSUME NEW t \in open, Commit(t) PROVE ChecklistInv'
  BY <1>6, CommitInv
<1>7. ASSUME NEW t \in open, Fail(t) PROVE ChecklistInv'
  BY <1>7 DEF Fail, ChecklistInv, TypeOK, ScreensTell, CallsTell, CallsAreRight,
              NewIsAbsent, CompletedIsRight
<1>8. CASE UNCHANGED vars
  BY <1>8 DEF vars, ChecklistInv, TypeOK, ScreensTell, CallsTell, CallsAreRight,
              NewIsAbsent, CompletedIsRight
<1>9. QED
  BY <1>1, <1>2, <1>3, <1>4, <1>5, <1>6, <1>7, <1>8 DEF Next

LEMMA ChecklistInit == Init => ChecklistInv
<1> SUFFICES ASSUME Init PROVE ChecklistInv
  OBVIOUS
<1>1. Absent \in Row /\ Absent.version = 0 /\ Absent.status = "NEW"
  BY DEF Absent, Row
<1>2. /\ \A e \in Checklists : checklists[e] = Absent
      /\ \A c \in Clients : screen[c].of \in Checklists /\ screen[c].row = Absent
      /\ open = {}
  BY DEF Init
<1>3. TypeOK
  BY <1>1 DEF Init, TypeOK
<1>4. ScreensTell
  BY <1>1, <1>2 DEF ScreensTell
<1>5. CallsTell /\ CallsAreRight /\ NewIsAbsent /\ CompletedIsRight
  BY <1>1, <1>2 DEF CallsTell, CallsAreRight, NewIsAbsent, CompletedIsRight
<1>6. QED BY <1>3, <1>4, <1>5 DEF ChecklistInv


\* What is overwritten was on the screen of whoever overwrites it.
Unseen ==
  \E t \in open \ open' :
    checklists'[t.of] # checklists[t.of] /\ t.seen # checklists[t.of]

LEMMA ChecklistSeen ==
  ASSUME ChecklistInv, [Next]_vars
  PROVE  ~Unseen
<1> SUFFICES ASSUME NEW t \in open \ open'
             PROVE  checklists'[t.of] # checklists[t.of]
                      => t.seen = checklists[t.of]
  BY DEF Unseen
<1>1. ASSUME NEW u \in open, Commit(u) PROVE t.seen = checklists[t.of]
  <2>1. t = u /\ checklists[t.of].version = t.version
    BY <1>1 DEF Commit
  <2>2. QED BY <2>1, CommitRow
<1>2. ASSUME NEW u \in open, Fail(u) PROVE checklists' = checklists
  BY <1>2 DEF Fail
<1>3. ASSUME NEW c \in Clients,
             \/ \E e \in Checklists : createExecution(c, e) \/ Look(c, e)
             \/ updateItem(c) \/ completeExecution(c) \/ cancelExecution(c)
      PROVE  open \subseteq open'
  BY <1>3 DEF createExecution, Look, updateItem, completeExecution,
              cancelExecution, Begin
<1>4. CASE UNCHANGED vars
  BY <1>4 DEF vars
<1>5. QED BY <1>1, <1>2, <1>3, <1>4 DEF Next
-----------------------------------------------------------------------------
(* Work sessions: what their invariant says.                               *)

\* A call of a technician under way.
Task ==
  [do : {"look", "finish", "sum", "record", "create", "resume"},
   by : {"start", "stop"}, user : Clients, order : Orders,
   status : W!OrderStatuses, session : SessionIds \cup {None}, total : Nat]

WorkTypes == W!TypeOK /\ going \subseteq Task

SessionsBegan == \A i \in DOMAIN sessions : sessions[i].start <= now

OneTaskEach == \A s, t \in going : s.user = t.user => s = t

\* What a call may rely on: the session it ends still runs, then none of the
\* technician's does, or one that runs on the order he asks for, and the hours
\* it counted have not become fewer.
Knows(t) ==
  /\ t.do \in {"look", "create"} => t.by = "start"
  /\ t.do = "look" => W!Running(t.user) \subseteq W!RunningOn(t.user, t.order)
  /\ t.do = "finish" => t.session \in W!Running(t.user)
  /\ t.do \in {"sum", "record"} => t.session \in DOMAIN sessions
  /\ t.do \in {"sum", "record", "create"} /\ t.by = "start"
       => W!Running(t.user) = {}
  /\ t.do = "record" => t.total <= W!Total(sessions[t.session].order)

TasksKnow == \A t \in going : Knows(t)

WorkInv ==
  /\ WorkTypes /\ SessionsBegan /\ OneTaskEach /\ TasksKnow
  /\ W!OneRunningSession /\ W!HoursAreWorked
-----------------------------------------------------------------------------
(* Hours of work orders.                                                   *)

HoursOf(rows) == [i \in DOMAIN rows |-> rows[i].hours]
Ended(rows, o) ==
  {i \in DOMAIN rows : rows[i].order = o /\ rows[i].status # "IN_PROGRESS"}
TotalOf(rows, o) == F!SumOf(HoursOf(rows), Ended(rows, o))

LEMMA WorkTotal ==
  \A o : W!Total(o) = TotalOf(sessions, o) /\ W!Total(o)' = TotalOf(sessions', o)
  BY F!SumIsTheSum
     DEF W!Total, W!Hours, W!MapThenSumSet, W!MapThenFoldSet, TotalOf, HoursOf,
         Ended, F!TheSum, F!Defines, F!NextSum, F!Pick

LEMMA Finite == \A S : IsFiniteSet(S) <=> F!IsFiniteSet(S)
  BY DEF IsFiniteSet, F!IsFiniteSet

\* The total is a number.
LEMMA TotalIsNat ==
  ASSUME NEW rows, IsFiniteSet(DOMAIN rows),
         \A i \in DOMAIN rows : rows[i].hours \in Nat, NEW o
  PROVE  TotalOf(rows, o) \in Nat
<1> DEFINE S == Ended(rows, o)
           f == HoursOf(rows)
<1>1. IsFiniteSet(S)
  BY FS_Subset DEF Ended
<1>2. \A x \in S : f[x] \in Nat
  BY DEF Ended, HoursOf
<1> HIDE DEF S, f
<1>3. F!SumOf(f, S) \in Nat
  BY <1>1, <1>2, Finite, F!SumType
<1>4. QED BY <1>3 DEF S, f, TotalOf

\* Sessions that begin or end lower no total.
LEMMA TotalGrows ==
  ASSUME NEW old, NEW new, IsFiniteSet(DOMAIN new),
         \A i \in DOMAIN old : old[i].hours \in Nat,
         \A i \in DOMAIN new : new[i].hours \in Nat,
         \A i \in DOMAIN old : old[i].status # "IN_PROGRESS"
                                 => i \in DOMAIN new /\ new[i] = old[i],
         \A i \in DOMAIN new \ DOMAIN old : new[i].status = "IN_PROGRESS",
         NEW o
  PROVE  TotalOf(old, o) <= TotalOf(new, o)
<1> DEFINE S == Ended(old, o)
           T == Ended(new, o)
           f == HoursOf(old)
           g == HoursOf(new)
<1>1. IsFiniteSet(T)
  BY FS_Subset DEF Ended
<1>2. S \subseteq T /\ T \subseteq DOMAIN old
  BY DEF Ended
<1>3. \A x \in T : f[x] \in Nat /\ g[x] \in Nat
  BY <1>2 DEF Ended, HoursOf
<1>4. \A x \in S : f[x] <= g[x]
  BY <1>2, <1>3 DEF Ended, HoursOf
<1> HIDE DEF S, T, f, g
<1>5. F!SumOf(f, S) <= F!SumOf(g, T)
  BY <1>1, <1>2, <1>3, <1>4, Finite, F!SumMonotone
<1>6. QED BY <1>5 DEF S, T, f, g, TotalOf
-----------------------------------------------------------------------------
(* What the others know stays true.                                        *)

LEMMA SameSessions ==
  ASSUME UNCHANGED sessions
  PROVE  /\ \A t : Knows(t) => Knows(t)'
         /\ \A o : W!Total(o)' = W!Total(o)
         /\ W!OneRunningSession => W!OneRunningSession'
<1>1. \A o : W!Total(o)' = W!Total(o)
  BY WorkTotal
<1>2. \A u : W!Running(u)' = W!Running(u)
  BY DEF W!Running
<1>3. \A u, o : W!RunningOn(u, o)' = W!RunningOn(u, o)
  BY DEF W!Running, W!RunningOn
<1>4. ASSUME NEW t, Knows(t) PROVE Knows(t)'
  BY <1>1, <1>2, <1>3, <1>4 DEF Knows
<1>5. QED BY <1>1, <1>2, <1>4 DEF W!OneRunningSession

\* Only sessions of u come and go.
OnlyHis(u) ==
  /\ DOMAIN sessions \subseteq DOMAIN sessions'
  /\ \A i \in DOMAIN sessions :
       /\ sessions'[i].user = sessions[i].user
       /\ sessions'[i].order = sessions[i].order
       /\ sessions[i].user # u => sessions'[i] = sessions[i]
  /\ \A i \in DOMAIN sessions' \ DOMAIN sessions : sessions'[i].user = u

LEMMA OthersKnow ==
  ASSUME NEW u, OnlyHis(u), NEW t \in Task, t.user # u, Knows(t),
         \A o : W!Total(o) \in Nat /\ W!Total(o)' \in Nat
                /\ W!Total(o) <= W!Total(o)'
  PROVE  Knows(t)'
<1>1. W!Running(t.user)' = W!Running(t.user)
  BY DEF W!Running, OnlyHis
<1>2. W!RunningOn(t.user, t.order)' = W!RunningOn(t.user, t.order)
  BY DEF W!Running, W!RunningOn, OnlyHis
<1>3. t.do \in {"sum", "record"} =>
        /\ t.session \in DOMAIN sessions /\ t.session \in DOMAIN sessions'
        /\ sessions'[t.session].order = sessions[t.session].order
  BY DEF Knows, OnlyHis
<1>4. (t.do = "record" => t.total <= W!Total(sessions[t.session].order))'
  <2> SUFFICES ASSUME t.do = "record",
                      NEW o, o = sessions[t.session].order,
                      NEW p, p = sessions'[t.session].order
               PROVE  t.total <= W!Total(p)'
    BY Zenon
  <2>1. t.total <= W!Total(o)
    BY DEF Knows
  <2>2. t.total \in Nat
    BY DEF Task
  <2>3. QED BY <1>3, <2>1, <2>2
<1>5. QED BY <1>1, <1>2, <1>3, <1>4 DEF Knows
-----------------------------------------------------------------------------
(* The tables.                                                             *)

LEMMA WorkRows ==
  ASSUME WorkTypes
  PROVE  /\ IsFiniteSet(DOMAIN sessions)
         /\ \A i \in DOMAIN sessions : sessions[i] \in W!Session
         /\ \A i \in DOMAIN sessions :
              /\ sessions[i].user \in Clients /\ sessions[i].order \in Orders
              /\ sessions[i].start \in Nat /\ sessions[i].hours \in Nat
         /\ \A o : W!Total(o) \in Nat
<1>1. IsFiniteSet(DOMAIN sessions)
  BY FieldConstants, FS_Subset DEF WorkTypes, W!TypeOK
<1>2. \A i \in DOMAIN sessions : sessions[i] \in W!Session
  BY DEF WorkTypes, W!TypeOK
<1>3. \A i \in DOMAIN sessions :
        /\ sessions[i].user \in Clients /\ sessions[i].order \in Orders
        /\ sessions[i].start \in Nat /\ sessions[i].hours \in Nat
  BY <1>2, FieldConstants DEF W!Session, W!Times
<1>4. QED BY <1>1, <1>2, <1>3, WorkTotal, TotalIsNat

\* A call of a technician who makes none.
LEMMA TaskBegins ==
  ASSUME WorkInv, NEW n \in Task, \A t \in going : t.user # n.user,
         Knows(n), going' = going \cup {n}, UNCHANGED <<wo, sessions, now>>
  PROVE  WorkInv'
<1>1. (\A t : Knows(t) => Knows(t)') /\ W!OneRunningSession'
      /\ \A o : W!Total(o)' = W!Total(o)
  BY SameSessions DEF WorkInv
<1>2. WorkTypes'
  BY DEF WorkInv, WorkTypes, W!TypeOK, W!Times
<1>3. SessionsBegan'
  BY DEF WorkInv, SessionsBegan
<1>4. OneTaskEach'
  BY DEF WorkInv, OneTaskEach
<1>5. TasksKnow'
  BY <1>1 DEF WorkInv, TasksKnow
<1>6. W!HoursAreWorked'
  BY <1>1 DEF WorkInv, W!HoursAreWorked
<1>7. QED BY <1>1, <1>2, <1>3, <1>4, <1>5, <1>6 DEF WorkInv

\* A call that goes on, or ends.
LEMMA TaskGoesOn ==
  ASSUME WorkInv, NEW t \in going, NEW N \in SUBSET Task,
         \A n \in N : n.user = t.user /\ Knows(n)', \A m, n \in N : m = n,
         \A s \in going \ {t} : Knows(s)',
         going' = (going \ {t}) \cup N
  PROVE  going' \subseteq Task /\ OneTaskEach' /\ TasksKnow'
<1>1. going' \subseteq Task
  BY DEF WorkInv, WorkTypes
<1>2. OneTaskEach'
  BY DEF WorkInv, OneTaskEach
<1>3. TasksKnow'
  BY DEF TasksKnow
<1>4. QED BY <1>1, <1>2, <1>3

\* Likewise, when nothing happens to sessions or to orders.
LEMMA TaskThinks ==
  ASSUME WorkInv, NEW t \in going, NEW N \in SUBSET Task,
         \A n \in N : n.user = t.user /\ Knows(n), \A m, n \in N : m = n,
         going' = (going \ {t}) \cup N,
         UNCHANGED <<wo, sessions, now>>
  PROVE  WorkInv'
<1>1. (\A s : Knows(s) => Knows(s)') /\ W!OneRunningSession'
      /\ \A o : W!Total(o)' = W!Total(o)
  BY SameSessions DEF WorkInv
<1>2. going' \subseteq Task /\ OneTaskEach' /\ TasksKnow'
  BY <1>1, TaskGoesOn DEF WorkInv, TasksKnow
<1>3. WorkTypes'
  BY <1>2 DEF WorkInv, WorkTypes, W!TypeOK, W!Times
<1>4. SessionsBegan'
  BY DEF WorkInv, SessionsBegan
<1>5. W!HoursAreWorked'
  BY <1>1 DEF WorkInv, W!HoursAreWorked
<1>6. QED BY <1>1, <1>2, <1>3, <1>4, <1>5 DEF WorkInv
-----------------------------------------------------------------------------
(* Handlers.                                                               *)

\* A technician makes one call at a time.
LEMMA OneCall ==
  \A handler, u : W!Call(handler, u) => \A t \in going : t.user # u
  BY DEF W!Call

LEMMA StartKeeps ==
  ASSUME WorkInv, NEW u \in Clients, NEW o \in Orders, W!startWorkSession(u, o)
  PROVE  WorkInv'
<1> DEFINE elsewhere == W!Running(u) \ W!RunningOn(u, o)
           n == [do |-> "look", by |-> "start", user |-> u, order |-> o,
                 status |-> wo[o].status, session |-> None, total |-> 0]
           m(i) == [do |-> "finish", by |-> "start", user |-> u, order |-> o,
                    status |-> wo[o].status, session |-> i, total |-> 0]
<1>1. /\ \A t \in going : t.user # u
      /\ UNCHANGED <<wo, sessions, now>>
  BY OneCall DEF W!startWorkSession
<1>2. wo[o].status \in W!OrderStatuses
  BY DEF WorkInv, WorkTypes, W!TypeOK
<1>3. CASE elsewhere = {}
  <2>1. going' = going \cup {n}
    BY <1>3 DEF W!startWorkSession
  <2>2. n \in Task /\ n.user = u
    BY <1>2 DEF Task
  <2>3. Knows(n)
    BY <1>3 DEF Knows
  <2> HIDE DEF n
  <2>4. QED BY <1>1, <2>1, <2>2, <2>3, TaskBegins
<1>4. CASE elsewhere # {}
  <2>1. PICK i \in elsewhere : going' = going \cup {m(i)}
    <3>1. ASSUME NEW i PROVE [n EXCEPT !.do = "finish", !.session = i] = m(i)
      <4>1. [n EXCEPT !.do = "finish"]
              = [do |-> "finish", by |-> "start", user |-> u, order |-> o,
                 status |-> wo[o].status, session |-> None, total |-> 0]
        OBVIOUS
      <4> DEFINE k == [n EXCEPT !.do = "finish"]
      <4>2. [k EXCEPT !.session = i] = m(i)
        <5> HIDE DEF k
        <5>1. k = [do |-> "finish", by |-> "start", user |-> u, order |-> o,
                   status |-> wo[o].status, session |-> None, total |-> 0]
          BY <4>1 DEF k
        <5>2. QED BY <5>1
      <4>3. QED BY <4>2
    <3>2. \E i \in elsewhere :
            going' = going \cup {[n EXCEPT !.do = "finish", !.session = i]}
      BY <1>4, Zenon DEF W!startWorkSession
    <3> HIDE DEF n, m
    <3>3. QED BY <3>1, <3>2
  <2>2. i \in W!Running(u) /\ i \in SessionIds
    BY DEF W!Running, WorkInv, WorkTypes, W!TypeOK
  <2>3. m(i) \in Task /\ m(i).user = u
    BY <1>2, <2>2 DEF Task
  <2>4. Knows(m(i))
    BY <2>2 DEF Knows
  <2> HIDE DEF m
  <2>5. QED BY <1>1, <2>1, <2>3, <2>4, TaskBegins
<1>5. QED BY <1>3, <1>4

LEMMA StopKeeps ==
  ASSUME WorkInv, NEW u \in Clients, NEW o \in Orders, W!stopWorkSession(u, o)
  PROVE  WorkInv'
<1> DEFINE m(i) == [do |-> "finish", by |-> "stop", user |-> u, order |-> o,
                    status |-> wo[o].status, session |-> i, total |-> 0]
<1>1. /\ \A t \in going : t.user # u
      /\ UNCHANGED <<wo, sessions, now>>
  BY OneCall DEF W!stopWorkSession
<1>2. wo[o].status \in W!OrderStatuses
  BY DEF WorkInv, WorkTypes, W!TypeOK
<1>3. PICK i \in W!RunningOn(u, o) : going' = going \cup {m(i)}
  BY DEF W!stopWorkSession
<1>4. i \in W!Running(u) /\ i \in SessionIds
  BY DEF W!Running, W!RunningOn, WorkInv, WorkTypes, W!TypeOK
<1>5. m(i) \in Task /\ m(i).user = u
  BY <1>2, <1>4 DEF Task
<1>6. Knows(m(i))
  BY <1>4 DEF Knows
<1> HIDE DEF m
<1>7. QED BY <1>1, <1>3, <1>5, <1>6, TaskBegins
-----------------------------------------------------------------------------
(* Statements.                                                             *)

LEMMA TaskFields ==
  ASSUME WorkInv, NEW t \in going
  PROVE  /\ t \in Task /\ t.user \in Clients /\ t.order \in Orders
         /\ t.status \in W!OrderStatuses /\ t.total \in Nat
         /\ Knows(t)
         /\ \A d \in {"look", "finish", "sum", "record", "create", "resume"} :
              [t EXCEPT !.do = d] \in Task
  BY DEF WorkInv, WorkTypes, Task, TasksKnow

\* Sum.
LEMMA SumKeeps ==
  ASSUME WorkInv, NEW t \in going, W!Sum(t)
  PROVE  WorkInv'
<1> DEFINE n == [t EXCEPT !.do = "record", !.total = W!Total(sessions[t.session].order)]
<1>1. /\ t.do = "sum" /\ going' = (going \ {t}) \cup {n}
      /\ UNCHANGED <<wo, sessions, now>>
  BY DEF W!Sum, W!Continue
<1>2. t \in Task /\ Knows(t)
  BY TaskFields
<1>3. W!Total(sessions[t.session].order) \in Nat
  BY WorkRows DEF WorkInv
<1>4. /\ n \in Task /\ n.user = t.user /\ n.do = "record" /\ n.by = t.by
      /\ n.session = t.session /\ n.total = W!Total(sessions[t.session].order)
  BY <1>2, <1>3 DEF Task
<1>5. Knows(n)
  <2>1. t.session \in DOMAIN sessions /\ (t.by = "start" => W!Running(t.user) = {})
    BY <1>1, <1>2 DEF Knows
  <2> HIDE DEF n
  <2>2. n.total <= W!Total(sessions[n.session].order)
    BY <1>3, <1>4
  <2>3. QED BY <1>4, <2>1, <2>2 DEF Knows
<1> HIDE DEF n
<1> DEFINE N == {n}
<1>6. N \in SUBSET Task /\ (\A m \in N : m.user = t.user /\ Knows(m))
      /\ (\A l, m \in N : l = m) /\ going' = (going \ {t}) \cup N
  BY <1>1, <1>4, <1>5
<1> HIDE DEF N
<1>7. QED BY <1>1, <1>6, TaskThinks

\* Look.
LEMMA LookKeeps ==
  ASSUME WorkInv, NEW t \in going, W!Look(t)
  PROVE  WorkInv'
<1> DEFINE n == [t EXCEPT !.do = "create"]
<1>1. /\ t.do = "look" /\ UNCHANGED <<wo, sessions, now>>
      /\ \/ going' = going \ {t}
         \/ W!RunningOn(t.user, t.order) = {} /\ going' = (going \ {t}) \cup {n}
  BY DEF W!Look, W!Continue, W!End
<1>2. t \in Task /\ Knows(t) /\ n \in Task
  BY TaskFields
<1>3. n.user = t.user /\ n.do = "create" /\ n.by = t.by
  BY <1>2 DEF Task
<1>4. CASE going' = going \ {t}
  <2> DEFINE N == {}
  <2>1. going' = (going \ {t}) \cup N
    BY <1>4
  <2>2. N \in SUBSET Task /\ (\A m \in N : m.user = t.user /\ Knows(m))
        /\ \A l, m \in N : l = m
    OBVIOUS
  <2> HIDE DEF N
  <2>3. QED BY <1>1, <2>1, <2>2, TaskThinks
<1>5. CASE W!RunningOn(t.user, t.order) = {} /\ going' = (going \ {t}) \cup {n}
  <2>1. t.by = "start" /\ W!Running(t.user) = {}
    BY <1>1, <1>2, <1>5 DEF Knows
  <2> HIDE DEF n
  <2>2. Knows(n)
    BY <1>3, <2>1 DEF Knows
  <2> DEFINE N == {n}
  <2>3. N \in SUBSET Task /\ (\A m \in N : m.user = t.user /\ Knows(m))
        /\ (\A l, m \in N : l = m) /\ going' = (going \ {t}) \cup N
    BY <1>2, <1>3, <1>5, <2>2
  <2> HIDE DEF N
  <2>4. QED BY <1>1, <2>3, TaskThinks
<1>6. QED BY <1>1, <1>4, <1>5

\* Record: what was counted is written although more may have come.
LEMMA RecordKeeps ==
  ASSUME WorkInv, NEW t \in going, W!Record(t)
  PROVE  WorkInv'
<1> DEFINE n == [t EXCEPT !.do = "look"]
<1>1. /\ t.do = "record" /\ UNCHANGED <<sessions, now>>
      /\ \/ going' = going \ {t}
         \/ t.by = "start" /\ going' = (going \ {t}) \cup {n}
  BY DEF W!Record, W!Continue, W!End
<1>2. t \in Task /\ Knows(t) /\ n \in Task /\ t.total \in Nat
  BY TaskFields
<1>3. n.user = t.user /\ n.do = "look" /\ n.by = t.by
  BY <1>2 DEF Task
<1>4. (\A s : Knows(s) => Knows(s)') /\ W!OneRunningSession'
      /\ \A o : W!Total(o)' = W!Total(o)
  BY <1>1, SameSessions DEF WorkInv
<1>5. going' \subseteq Task /\ OneTaskEach' /\ TasksKnow'
  <2>0. \A s \in going \ {t} : Knows(s)'
    BY <1>4 DEF WorkInv, TasksKnow
  <2>1. CASE going' = going \ {t}
    <3> DEFINE N == {}
    <3>1. going' = (going \ {t}) \cup N
      BY <2>1
    <3>2. N \in SUBSET Task /\ (\A m \in N : m.user = t.user /\ Knows(m)')
          /\ \A l, m \in N : l = m
      OBVIOUS
    <3> HIDE DEF N
    <3>3. QED BY <2>0, <3>1, <3>2, TaskGoesOn
  <2>2. CASE t.by = "start" /\ going' = (going \ {t}) \cup {n}
    <3>1. W!Running(t.user) = {}
      BY <1>1, <1>2, <2>2 DEF Knows
    <3> HIDE DEF n
    <3>2. Knows(n)
      BY <1>3, <2>2, <3>1 DEF Knows
    <3> DEFINE N == {n}
    <3>3. N \in SUBSET Task /\ (\A m \in N : m.user = t.user /\ Knows(m)')
          /\ (\A l, m \in N : l = m) /\ going' = (going \ {t}) \cup N
      BY <1>2, <1>3, <1>4, <2>2, <3>2
    <3> HIDE DEF N
    <3>4. QED BY <2>0, <3>3, TaskGoesOn
  <2>3. QED BY <1>1, <2>1, <2>2
<1> HIDE DEF n
<1> DEFINE o == sessions[t.session].order
<1>6. o \in Orders /\ t.total <= W!Total(o)
  BY <1>1, <1>2, WorkRows DEF Knows, WorkInv
<1>7. wo' = [wo EXCEPT ![o].hours = t.total]
  BY DEF W!Record
<1>8. wo \in [Orders -> [status : W!OrderStatuses, hours : Nat]]
  BY DEF WorkInv, WorkTypes, W!TypeOK
<1> HIDE DEF o
<1>9. /\ wo' \in [Orders -> [status : W!OrderStatuses, hours : Nat]]
      /\ wo'[o].hours = t.total
      /\ \A p \in Orders \ {o} : wo'[p] = wo[p]
  BY <1>2, <1>6, <1>7, <1>8
<1>10. W!TypeOK'
  BY <1>1, <1>9 DEF WorkInv, WorkTypes, W!TypeOK, W!Times
<1>11. W!HoursAreWorked'
  <2> SUFFICES ASSUME NEW p \in Orders PROVE wo'[p].hours <= W!Total(p)'
    BY DEF W!HoursAreWorked
  <2>1. wo[p].hours <= W!Total(p)
    BY DEF WorkInv, W!HoursAreWorked
  <2>2. QED BY <1>4, <1>6, <1>9, <2>1
<1>12. SessionsBegan'
  BY <1>1 DEF WorkInv, SessionsBegan
<1>13. QED BY <1>4, <1>5, <1>10, <1>11, <1>12 DEF WorkInv, WorkTypes
\* Finish: the session that ends is the one that ran.
LEMMA Finished ==
  ASSUME WorkInv, NEW t \in going, W!Finish(t)
  PROVE  /\ t.session \in DOMAIN sessions /\ DOMAIN sessions' = DOMAIN sessions
         /\ sessions[t.session].user = t.user
         /\ sessions[t.session].status = "IN_PROGRESS"
         /\ sessions'[t.session] \in W!Session
         /\ sessions'[t.session].user = t.user
         /\ sessions'[t.session].order = sessions[t.session].order
         /\ sessions'[t.session].start = sessions[t.session].start
         /\ sessions'[t.session].status # "IN_PROGRESS"
         /\ \A i \in DOMAIN sessions \ {t.session} : sessions'[i] = sessions[i]
<1> DEFINE s == t.session
           row == sessions[s]
           status == IF t.by = "start" THEN "AUTO_CLOSED" ELSE "COMPLETED"
           hours == now - row.start
<1>1. /\ sessions' = [sessions EXCEPT ![s].status = status, ![s].hours = hours]
      /\ t.do = "finish"
  BY DEF W!Finish
<1>2. Knows(t)
  BY TaskFields
<1>3. s \in DOMAIN sessions /\ row.user = t.user /\ row.status = "IN_PROGRESS"
  BY <1>1, <1>2 DEF Knows, W!Running
<1>4. row \in W!Session /\ row.start <= now
  BY <1>3, WorkRows DEF WorkInv, SessionsBegan
<1>5. hours \in W!Times
  <2>1. now \in 0..LastTime
    BY DEF WorkInv, WorkTypes, W!TypeOK, W!Times
  <2>2. row.start \in 0..LastTime
    BY <1>4 DEF W!Session, W!Times
  <2>3. LastTime \in Nat
    BY FieldConstants
  <2> HIDE DEF row
  <2>4. QED BY <1>4, <2>1, <2>2, <2>3 DEF W!Times
<1>6. status \in {"COMPLETED", "AUTO_CLOSED"}
  OBVIOUS
<1> DEFINE new == [row EXCEPT !.status = status, !.hours = hours]
<1>7. sessions' = [sessions EXCEPT ![s] = new]
  BY <1>1, Zenon
<1> HIDE DEF status, hours
<1>8. /\ new \in W!Session /\ new.user = row.user /\ new.order = row.order
      /\ new.start = row.start /\ new.status = status
  <2> HIDE DEF row
  <2>1. QED BY <1>4, <1>5, <1>6 DEF W!Session
<1>9. DOMAIN sessions' = DOMAIN sessions /\ sessions'[s] = new
      /\ \A i \in DOMAIN sessions \ {s} : sessions'[i] = sessions[i]
  <2>1. sessions \in [DOMAIN sessions -> W!Session]
    BY DEF WorkInv, WorkTypes, W!TypeOK
  <2> HIDE DEF new
  <2>2. QED BY <1>3, <1>7, <2>1
<1>10. status # "IN_PROGRESS"
  BY <1>6
<1> HIDE DEF new
<1>11. QED BY <1>3, <1>8, <1>9, <1>10

\* Sessions of the technician u that come or end lower no total, and the
\* others know what they knew.
LEMMA HisKeeps ==
  ASSUME WorkInv, NEW u \in Clients, OnlyHis(u),
         DOMAIN sessions' \subseteq SessionIds,
         sessions' \in [DOMAIN sessions' -> W!Session],
         \A i \in DOMAIN sessions : sessions[i].status # "IN_PROGRESS"
                                      => sessions'[i] = sessions[i],
         \A i \in DOMAIN sessions' \ DOMAIN sessions :
           sessions'[i].status = "IN_PROGRESS"
  PROVE  /\ \A o : W!Total(o) \in Nat /\ W!Total(o)' \in Nat
                   /\ W!Total(o) <= W!Total(o)'
         /\ \A s \in going : s.user # u => Knows(s)'
         /\ \A v \in Clients \ {u} :
              W!Running(v)' = W!Running(v)
<1>1. IsFiniteSet(DOMAIN sessions')
  BY FieldConstants, FS_Subset
<1>2. \A i \in DOMAIN sessions' : sessions'[i].hours \in Nat
  BY FieldConstants DEF W!Session, W!Times
<1>3. /\ \A i \in DOMAIN sessions : sessions[i].hours \in Nat
      /\ \A o : W!Total(o) \in Nat
  BY WorkRows DEF WorkInv
<1>4. \A o : W!Total(o)' \in Nat
  BY <1>1, <1>2, WorkTotal, TotalIsNat
<1>5. ASSUME NEW o PROVE W!Total(o) <= W!Total(o)'
  <2>1. DOMAIN sessions \subseteq DOMAIN sessions'
    BY DEF OnlyHis
  <2>2. TotalOf(sessions, o) <= TotalOf(sessions', o)
    BY <1>1, <1>2, <1>3, <2>1, TotalGrows
  <2>3. QED BY <2>2, WorkTotal
<1>6. ASSUME NEW s \in going, s.user # u PROVE Knows(s)'
  BY <1>3, <1>4, <1>5, <1>6, OthersKnow, TaskFields
<1>7. \A v \in Clients \ {u} : W!Running(v)' = W!Running(v)
  BY DEF W!Running, OnlyHis
<1>8. QED BY <1>3, <1>4, <1>5, <1>6, <1>7

LEMMA FinishKeeps ==
  ASSUME WorkInv, NEW t \in going, W!Finish(t)
  PROVE  WorkInv'
<1> DEFINE n == [t EXCEPT !.do = "sum"]
           s == t.session
           u == t.user
<1>1. /\ t.do = "finish" /\ going' = (going \ {t}) \cup {n} /\ UNCHANGED <<wo, now>>
  BY DEF W!Finish, W!Continue
<1>2. t \in Task /\ Knows(t) /\ n \in Task /\ u \in Clients
  BY TaskFields
<1>3. n.user = u /\ n.do = "sum" /\ n.by = t.by /\ n.session = s
  BY <1>2 DEF Task
<1>4. /\ s \in DOMAIN sessions /\ DOMAIN sessions' = DOMAIN sessions
      /\ sessions[s].user = u /\ sessions[s].status = "IN_PROGRESS"
      /\ sessions'[s] \in W!Session /\ sessions'[s].user = u
      /\ sessions'[s].order = sessions[s].order
      /\ sessions'[s].start = sessions[s].start
      /\ sessions'[s].status # "IN_PROGRESS"
      /\ \A i \in DOMAIN sessions \ {s} : sessions'[i] = sessions[i]
  BY Finished
<1> HIDE DEF n, s, u
<1>5. OnlyHis(u)
  BY <1>4 DEF OnlyHis
<1>6. /\ DOMAIN sessions' \subseteq SessionIds
      /\ sessions' \in [DOMAIN sessions' -> W!Session]
  <2>1. /\ DOMAIN sessions \subseteq SessionIds
        /\ \A i \in DOMAIN sessions : sessions[i] \in W!Session
    BY DEF WorkInv, WorkTypes, W!TypeOK
  <2>2. \A i \in DOMAIN sessions' : sessions'[i] \in W!Session
    BY <1>4, <2>1
  <2>3. sessions' = [i \in DOMAIN sessions' |-> sessions'[i]]
    BY DEF W!Finish
  <2>4. QED BY <1>4, <2>1, <2>2, <2>3
<1>7. /\ \A o : W!Total(o) \in Nat /\ W!Total(o)' \in Nat
                /\ W!Total(o) <= W!Total(o)'
      /\ \A x \in going : x.user # u => Knows(x)'
      /\ \A v \in Clients \ {u} : W!Running(v)' = W!Running(v)
  <2>1. \A i \in DOMAIN sessions : sessions[i].status # "IN_PROGRESS"
                                     => sessions'[i] = sessions[i]
    BY <1>4
  <2>2. \A i \in DOMAIN sessions' \ DOMAIN sessions :
          sessions'[i].status = "IN_PROGRESS"
    BY <1>4
  <2>3. QED BY <1>2, <1>5, <1>6, <2>1, <2>2, HisKeeps
<1>8. W!Running(u)' = {}
  <2>1. W!Running(u) \subseteq {s}
    BY <1>1, <1>2 DEF s, u, Knows, WorkInv, W!OneRunningSession
  <2>2. W!Running(u)' \subseteq W!Running(u) \ {s}
    BY <1>4 DEF W!Running
  <2>3. QED BY <2>1, <2>2
<1>9. Knows(n)'
  BY <1>3, <1>4, <1>8 DEF Knows
<1>10. \A x \in going \ {t} : Knows(x)'
  BY <1>7 DEF u, WorkInv, OneTaskEach
<1>11. going' \subseteq Task /\ OneTaskEach' /\ TasksKnow'
  <2> DEFINE N == {n}
  <2>1. N \in SUBSET Task /\ (\A m \in N : m.user = t.user /\ Knows(m)')
        /\ (\A l, m \in N : l = m) /\ going' = (going \ {t}) \cup N
    BY <1>1, <1>2, <1>3, <1>9 DEF u
  <2> HIDE DEF N
  <2>2. QED BY <1>10, <2>1, TaskGoesOn
<1>12. WorkTypes'
  BY <1>1, <1>6, <1>11 DEF WorkInv, WorkTypes, W!TypeOK, W!Times
<1>13. SessionsBegan'
  BY <1>1, <1>4 DEF WorkInv, SessionsBegan
<1>14. W!OneRunningSession'
  BY <1>7, <1>8 DEF WorkInv, W!OneRunningSession
<1>15. W!HoursAreWorked'
  <2> SUFFICES ASSUME NEW p \in Orders PROVE wo'[p].hours <= W!Total(p)'
    BY DEF W!HoursAreWorked
  <2>1. wo[p].hours <= W!Total(p) /\ wo[p].hours \in Nat
    BY DEF WorkInv, W!HoursAreWorked, WorkTypes, W!TypeOK
  <2>2. QED BY <1>1, <1>7, <2>1
<1>16. QED BY <1>11, <1>12, <1>13, <1>14, <1>15 DEF WorkInv
\* Create: a session with an identifier that no other has.
LEMMA SessionStored ==
  ASSUME WorkInv, NEW t \in going, W!Create(t)
  PROVE  \E i \in SessionIds \ DOMAIN sessions :
           /\ DOMAIN sessions' = DOMAIN sessions \cup {i}
           /\ sessions'[i] = [user |-> t.user, order |-> t.order, start |-> now,
                              status |-> "IN_PROGRESS", hours |-> 0]
           /\ \A j \in DOMAIN sessions : sessions'[j] = sessions[j]
           /\ sessions' = [j \in DOMAIN sessions' |-> sessions'[j]]
<1> DEFINE i == W!NextId
           row == [user |-> t.user, order |-> t.order, start |-> now,
                   status |-> "IN_PROGRESS", hours |-> 0]
<1>1. DOMAIN sessions # SessionIds /\ sessions' = W!Put(sessions, i, row)
  BY DEF W!Create
<1>2. i \in SessionIds \ DOMAIN sessions
  <2>1. \E x \in SessionIds : x \notin DOMAIN sessions
    BY <1>1 DEF WorkInv, WorkTypes, W!TypeOK
  <2>2. QED BY <2>1 DEF W!NextId
<1> HIDE DEF i, row
<1>3. sessions' = [j \in DOMAIN sessions \cup {i} |->
                     IF j = i THEN row ELSE sessions[j]]
  BY <1>1 DEF W!Put
<1>4. /\ DOMAIN sessions' = DOMAIN sessions \cup {i} /\ sessions'[i] = row
      /\ \A j \in DOMAIN sessions : sessions'[j] = sessions[j]
      /\ sessions' = [j \in DOMAIN sessions' |-> sessions'[j]]
  BY <1>2, <1>3
<1>5. QED BY <1>2, <1>4 DEF row

LEMMA CreateKeeps ==
  ASSUME WorkInv, NEW t \in going, W!Create(t)
  PROVE  WorkInv'
<1> DEFINE n == [t EXCEPT !.do = "resume"]
           u == t.user
<1>1. /\ t.do = "create" /\ UNCHANGED <<wo, now>>
      /\ \/ going' = (going \ {t}) \cup {n}
         \/ going' = going \ {t}
  BY DEF W!Create, W!Continue, W!End
<1>2. t \in Task /\ Knows(t) /\ n \in Task /\ u \in Clients /\ t.order \in Orders
  BY TaskFields
<1>3. n.user = u /\ n.do = "resume"
  BY <1>2 DEF Task
<1>4. PICK i \in SessionIds \ DOMAIN sessions :
        /\ DOMAIN sessions' = DOMAIN sessions \cup {i}
        /\ sessions'[i] = [user |-> u, order |-> t.order, start |-> now,
                           status |-> "IN_PROGRESS", hours |-> 0]
        /\ \A j \in DOMAIN sessions : sessions'[j] = sessions[j]
        /\ sessions' = [j \in DOMAIN sessions' |-> sessions'[j]]
  BY SessionStored
<1> HIDE DEF n, u
<1>5. /\ sessions'[i] \in W!Session /\ sessions'[i].user = u
      /\ sessions'[i].status = "IN_PROGRESS" /\ sessions'[i].start = now
  <2>1. now \in W!Times /\ 0 \in W!Times
    BY FieldConstants DEF WorkInv, WorkTypes, W!TypeOK, W!Times
  <2>2. QED BY <1>2, <1>4, <2>1 DEF W!Session
<1>6. OnlyHis(u)
  BY <1>4, <1>5 DEF OnlyHis
<1>7. /\ DOMAIN sessions' \subseteq SessionIds
      /\ sessions' \in [DOMAIN sessions' -> W!Session]
  <2>1. /\ DOMAIN sessions \subseteq SessionIds
        /\ \A j \in DOMAIN sessions : sessions[j] \in W!Session
    BY DEF WorkInv, WorkTypes, W!TypeOK
  <2>2. \A j \in DOMAIN sessions' : sessions'[j] \in W!Session
    BY <1>4, <1>5, <2>1
  <2>3. QED BY <1>4, <2>1, <2>2
<1>8. /\ \A o : W!Total(o) \in Nat /\ W!Total(o)' \in Nat
                /\ W!Total(o) <= W!Total(o)'
      /\ \A x \in going : x.user # u => Knows(x)'
      /\ \A v \in Clients \ {u} : W!Running(v)' = W!Running(v)
  BY <1>2, <1>4, <1>5, <1>6, <1>7, HisKeeps
<1>9. W!Running(u)' = {i}
  <2>1. W!Running(u) = {}
    BY <1>1, <1>2 DEF u, Knows
  <2>2. QED BY <1>4, <1>5, <2>1 DEF W!Running
<1>10. \A x \in going \ {t} : Knows(x)'
  BY <1>8 DEF u, WorkInv, OneTaskEach
<1>11. going' \subseteq Task /\ OneTaskEach' /\ TasksKnow'
  <2>1. CASE going' = (going \ {t}) \cup {n}
    <3> DEFINE N == {n}
    <3>1. Knows(n)'
      BY <1>3 DEF Knows
    <3>2. N \in SUBSET Task /\ (\A m \in N : m.user = t.user /\ Knows(m)')
          /\ (\A l, m \in N : l = m) /\ going' = (going \ {t}) \cup N
      BY <1>2, <1>3, <2>1, <3>1 DEF u
    <3> HIDE DEF N
    <3>3. QED BY <1>10, <3>2, TaskGoesOn
  <2>2. CASE going' = going \ {t}
    <3> DEFINE N == {}
    <3>1. N \in SUBSET Task /\ (\A m \in N : m.user = t.user /\ Knows(m)')
          /\ (\A l, m \in N : l = m) /\ going' = (going \ {t}) \cup N
      BY <2>2
    <3> HIDE DEF N
    <3>2. QED BY <1>10, <3>1, TaskGoesOn
  <2>3. QED BY <1>1, <2>1, <2>2
<1>12. WorkTypes'
  BY <1>1, <1>7, <1>11 DEF WorkInv, WorkTypes, W!TypeOK, W!Times
<1>13. SessionsBegan'
  <2>1. now \in Nat
    BY FieldConstants DEF WorkInv, WorkTypes, W!TypeOK, W!Times
  <2>2. QED BY <1>1, <1>4, <1>5, <2>1 DEF WorkInv, SessionsBegan
<1>14. W!OneRunningSession'
  BY <1>8, <1>9 DEF WorkInv, W!OneRunningSession
<1>15. W!HoursAreWorked'
  <2> SUFFICES ASSUME NEW p \in Orders PROVE wo'[p].hours <= W!Total(p)'
    BY DEF W!HoursAreWorked
  <2>1. wo[p].hours <= W!Total(p) /\ wo[p].hours \in Nat
    BY DEF WorkInv, W!HoursAreWorked, WorkTypes, W!TypeOK
  <2>2. QED BY <1>1, <1>8, <2>1
<1>16. QED BY <1>11, <1>12, <1>13, <1>14, <1>15 DEF WorkInv

\* An order changes its status, and nothing else; calls may end.
LEMMA StatusKeeps ==
  ASSUME WorkInv, NEW o \in Orders, NEW status \in W!OrderStatuses,
         wo' = [wo EXCEPT ![o].status = status], going' \subseteq going,
         UNCHANGED <<sessions, now>>
  PROVE  WorkInv'
<1>1. (\A s : Knows(s) => Knows(s)') /\ W!OneRunningSession'
      /\ \A p : W!Total(p)' = W!Total(p)
  BY SameSessions DEF WorkInv
<1>2. wo \in [Orders -> [status : W!OrderStatuses, hours : Nat]]
  BY DEF WorkInv, WorkTypes, W!TypeOK
<1>3. /\ wo' \in [Orders -> [status : W!OrderStatuses, hours : Nat]]
      /\ \A p \in Orders : wo'[p].hours = wo[p].hours
  BY <1>2
<1>4. WorkTypes'
  BY <1>3 DEF WorkInv, WorkTypes, W!TypeOK, W!Times
<1>5. SessionsBegan' /\ OneTaskEach'
  BY DEF WorkInv, SessionsBegan, OneTaskEach
<1>6. TasksKnow'
  BY <1>1 DEF WorkInv, TasksKnow
<1>7. W!HoursAreWorked'
  BY <1>1, <1>3 DEF WorkInv, W!HoursAreWorked
<1>8. QED BY <1>1, <1>4, <1>5, <1>6, <1>7 DEF WorkInv

\* Time passes, or calls are forgotten.
LEMMA RestKeeps ==
  ASSUME WorkInv, going' \subseteq going, UNCHANGED <<wo, sessions>>,
         now' \in W!Times, now <= now'
  PROVE  WorkInv'
<1>1. (\A s : Knows(s) => Knows(s)') /\ W!OneRunningSession'
      /\ \A p : W!Total(p)' = W!Total(p)
  BY SameSessions DEF WorkInv
<1>2. WorkTypes'
  BY DEF WorkInv, WorkTypes, W!TypeOK, W!Times
<1>3. SessionsBegan'
  <2>1. now \in Nat /\ now' \in Nat
    BY FieldConstants DEF WorkInv, WorkTypes, W!TypeOK, W!Times
  <2>2. \A i \in DOMAIN sessions : sessions[i].start \in Nat
    BY WorkRows DEF WorkInv
  <2>3. QED BY <2>1, <2>2 DEF WorkInv, SessionsBegan
<1>4. OneTaskEach' /\ TasksKnow'
  BY <1>1 DEF WorkInv, OneTaskEach, TasksKnow
<1>5. W!HoursAreWorked'
  BY <1>1 DEF WorkInv, W!HoursAreWorked
<1>6. QED BY <1>1, <1>2, <1>3, <1>4, <1>5 DEF WorkInv

LEMMA WorkNext ==
  ASSUME WorkInv, W!Next
  PROVE  WorkInv'
<1>1. ASSUME NEW u \in Clients, NEW o \in Orders,
             W!startWorkSession(u, o) \/ W!stopWorkSession(u, o)
      PROVE  WorkInv'
  BY <1>1, StartKeeps, StopKeeps
<1>2. ASSUME NEW t \in going, W!Step(t) PROVE WorkInv'
  <2>1. CASE W!Resume(t)
    <3>1. /\ wo' = [wo EXCEPT ![t.order].status = "IN_PROGRESS"]
          /\ going' \subseteq going /\ UNCHANGED <<sessions, now>>
      BY <2>1 DEF W!Resume, W!End
    <3>2. "IN_PROGRESS" \in W!OrderStatuses
      BY DEF W!OrderStatuses
    <3>3. QED BY <3>1, <3>2, StatusKeeps, TaskFields
  <2>2. QED BY <1>2, <2>1, FinishKeeps, SumKeeps, RecordKeeps, LookKeeps,
               CreateKeeps DEF W!Step
<1>3. ASSUME NEW o \in Orders, W!Transition(o) PROVE WorkInv'
  <2>1. PICK to \in W!OrderStatuses : wo' = [wo EXCEPT ![o].status = to]
    BY <1>3 DEF W!Transition
  <2>2. going' \subseteq going /\ UNCHANGED <<sessions, now>>
    BY <1>3 DEF W!Transition
  <2>3. QED BY <2>1, <2>2, StatusKeeps
<1>4. now \in W!Times /\ now \in Nat
  BY FieldConstants DEF WorkInv, WorkTypes, W!TypeOK, W!Times
<1>5. CASE W!Tick
  <2>1. now' \in W!Times /\ now <= now'
    BY <1>4, <1>5, FieldConstants DEF W!Tick, W!Times
  <2>2. going' \subseteq going /\ UNCHANGED <<wo, sessions>>
    BY <1>5 DEF W!Tick
  <2>3. QED BY <2>1, <2>2, RestKeeps
<1>6. CASE W!Restart
  <2>1. going' \subseteq going /\ UNCHANGED <<wo, sessions, now>>
    BY <1>6 DEF W!Restart
  <2>2. QED BY <1>4, <2>1, RestKeeps
<1>7. QED BY <1>1, <1>2, <1>3, <1>5, <1>6 DEF W!Next

LEMMA WorkStutter ==
  ASSUME WorkInv, UNCHANGED <<wo, going, sessions, now>>
  PROVE  WorkInv'
<1>1. now \in W!Times /\ now \in Nat
  BY FieldConstants DEF WorkInv, WorkTypes, W!TypeOK, W!Times
<1>2. QED BY <1>1, RestKeeps

LEMMA WorkInit ==
  ASSUME W!Init
  PROVE  WorkInv
<1>1. /\ wo = [o \in Orders |-> [status |-> "ASSIGNED", hours |-> 0]]
      /\ sessions = << >> /\ now = 0 /\ going = {}
  BY DEF W!Init
<1>2. DOMAIN sessions = {}
  BY <1>1
<1>3. sessions \in [DOMAIN sessions -> W!Session]
  BY <1>1, <1>2
<1>4. WorkTypes
  BY <1>1, <1>2, <1>3, FieldConstants
  DEF WorkTypes, W!TypeOK, W!Times, W!OrderStatuses
<1>5. SessionsBegan /\ OneTaskEach /\ TasksKnow
  BY <1>1, <1>2 DEF SessionsBegan, OneTaskEach, TasksKnow
<1>6. W!OneRunningSession
  BY <1>2 DEF W!OneRunningSession, W!Running
<1>7. W!HoursAreWorked
  <2>1. \A o \in Orders : wo[o].hours = 0
    BY <1>1
  <2>2. \A o : W!Total(o) \in Nat
    BY <1>4, WorkRows
  <2>3. QED BY <2>1, <2>2 DEF W!HoursAreWorked
<1>8. QED BY <1>4, <1>5, <1>6, <1>7 DEF WorkInv
-----------------------------------------------------------------------------
(* The whole.                                                              *)

\* What is at rest keeps what it has.
FieldInv ==
  /\ ChecklistInv
  /\ focus = "sessions" => WorkInv
  /\ focus = "fabrication" => F!IInv

everything == <<focus, vars, shared, wo, going, fabrication>>

LEMMA FieldStarts == FieldInit => FieldInv
<1> SUFFICES ASSUME FieldInit PROVE FieldInv
  OBVIOUS
<1>1. ChecklistInv
  BY ChecklistInit DEF FieldInit
<1>2. CASE focus = "sessions"
  <2>1. W!Init
    BY <1>2 DEF FieldInit
  <2>2. QED BY <1>1, <1>2, <2>1, WorkInit DEF FieldInv
<1>3. CASE focus = "fabrication"
  <2>1. F!Init
    BY <1>3 DEF FieldInit
  <2>2. F!IInv
    BY <2>1, FieldConstants, F!InitHolds
  <2>3. QED BY <1>1, <1>3, <2>2 DEF FieldInv
<1>4. QED BY <1>1, <1>2, <1>3 DEF FieldInv

LEMMA ChecklistsMove == [FieldNext]_everything => [Next]_vars
  BY DEF FieldNext, everything

LEMMA FieldKeeps ==
  ASSUME FieldInv, [FieldNext]_everything
  PROVE  FieldInv'
<1>1. ChecklistInv'
  BY ChecklistsMove, ChecklistNext DEF FieldInv
<1>2. focus' = focus
  BY DEF FieldNext, everything
<1>3. CASE focus = "sessions"
  <2>1. W!Next \/ UNCHANGED <<wo, going, sessions, now>>
    BY <1>3 DEF FieldNext, everything, shared
  <2>2. WorkInv'
    BY <1>3, <2>1, WorkNext, WorkStutter DEF FieldInv
  <2>3. QED BY <1>1, <1>2, <1>3, <2>2 DEF FieldInv
<1>4. CASE focus = "fabrication"
  <2>1. F!Next \/ UNCHANGED F!vars
    BY <1>4 DEF FieldNext, everything, shared, fabrication, F!vars
  <2>2. F!IInv'
    BY <1>4, <2>1, FieldConstants, F!NextKeeps, F!StutterKeeps DEF FieldInv
  <2>3. QED BY <1>1, <1>2, <1>4, <2>2 DEF FieldInv
<1>5. QED BY <1>1, <1>2, <1>3, <1>4 DEF FieldInv

\* Every state that can be reached has the invariant.
THEOREM FieldInvariance == FieldSpec => []FieldInv
<1>1. FieldInit => FieldInv
  BY FieldStarts
<1>2. FieldInv /\ [FieldNext]_everything => FieldInv'
  BY FieldKeeps
<1>3. FieldSpec => FieldInit /\ [][FieldNext]_everything
  BY DEF FieldSpec, everything
<1>4. QED BY <1>1, <1>2, <1>3, PTL

\* Every component keeps the types of its tables.
THEOREM FieldTypeCorrect == FieldSpec => []FieldTypes
<1>1. FieldInv => FieldTypes
  BY DEF FieldInv, FieldTypes, ChecklistInv, WorkInv, WorkTypes, F!IInv, F!Types
<1>2. QED BY <1>1, FieldInvariance, PTL

\* Nobody is clocked in twice.
THEOREM NobodyWorksTwice == FieldSpec => []OneRunningSession
<1>1. FieldInv => OneRunningSession
  BY DEF FieldInv, OneRunningSession, WorkInv, F!IInv
<1>2. QED BY <1>1, FieldInvariance, PTL

\* The hours of a work order are covered by its finished sessions.
THEOREM HoursAreCovered == FieldSpec => []HoursAreWorked
<1>1. FieldInv => HoursAreWorked
  BY DEF FieldInv, HoursAreWorked, WorkInv
<1>2. QED BY <1>1, FieldInvariance, PTL

\* The hours of a fabrication order are those of its logs.
THEOREM HoursAreLogged == FieldSpec => []HoursMatchLogs
<1>1. FieldInv => HoursMatchLogs
  BY FieldConstants, F!BalancedHours DEF FieldInv, HoursMatchLogs
<1>2. QED BY <1>1, FieldInvariance, PTL

\* Nobody stays clocked in on an order that waits or ended, but in a session
\* that the update failed to stop.
THEOREM ClosedIsQuiet == FieldSpec => []ClosedOrdersAreQuiet
<1>1. FieldInv => ClosedOrdersAreQuiet
  BY DEF FieldInv, ClosedOrdersAreQuiet, F!IInv
<1>2. QED BY <1>1, FieldInvariance, PTL

\* An order is issued an item once.
THEOREM IssuesOnce == FieldSpec => []IssuedOnce
<1>1. FieldInv => IssuedOnce
  BY DEF FieldInv, IssuedOnce, F!IInv
<1>2. QED BY <1>1, FieldInvariance, PTL

\* Completed checklists are right, although their results were worked out
\* before others may have changed the items.
THEOREM CompletedStaysRight == FieldSpec => []CompletedIsRight
<1>1. FieldInv => CompletedIsRight
  BY DEF FieldInv, ChecklistInv
<1>2. QED BY <1>1, FieldInvariance, PTL

\* Nobody changes a checklist that he has not seen as it is.
THEOREM NobodyChangesUnseen == FieldSpec => NothingUnseen
<1> DEFINE Seen == \A t \in open \ open' :
                     checklists'[t.of] # checklists[t.of]
                       => t.seen = checklists[t.of]
<1>1. FieldInv /\ [FieldNext]_everything => [Seen]_vars
  BY ChecklistsMove, ChecklistSeen DEF FieldInv, Unseen
<1>2. FieldSpec => [][FieldNext]_everything
  BY DEF FieldSpec, everything
<1>3. QED BY <1>1, <1>2, FieldInvariance, PTL DEF NothingUnseen
=============================================================================
