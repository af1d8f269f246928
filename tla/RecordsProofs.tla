--------------------------- MODULE RecordsProofs ----------------------------
(***************************************************************************)
(* Theorems about Records, for all sets of accounts, readings, sessions,   *)
(* tabs and people.                                                        *)
(***************************************************************************)
EXTENDS Records, FiniteSetTheorems, NaturalsInduction, TLAPS

-----------------------------------------------------------------------------
(* Accounts: what the handlers make of a row.                              *)

\* An account with one field written is an account, the rest as it was.
LEMMA SetActive ==
  ASSUME NEW row \in Account, NEW b \in BOOLEAN
  PROVE  /\ [row EXCEPT !.active = b] \in Account
         /\ [row EXCEPT !.active = b].active = b
         /\ [row EXCEPT !.active = b].blocked = row.blocked
         /\ [row EXCEPT !.active = b].hrmActive = row.hrmActive
         /\ [row EXCEPT !.active = b].merged = row.merged
  BY DEF Account

LEMMA SetBlocked ==
  ASSUME NEW row \in Account, NEW b \in BOOLEAN
  PROVE  /\ [row EXCEPT !.blocked = b] \in Account
         /\ [row EXCEPT !.blocked = b].blocked = b
         /\ [row EXCEPT !.blocked = b].active = row.active
         /\ [row EXCEPT !.blocked = b].hrmActive = row.hrmActive
         /\ [row EXCEPT !.blocked = b].merged = row.merged
  BY DEF Account

LEMMA SetHrmActive ==
  ASSUME NEW row \in Account, NEW b \in BOOLEAN
  PROVE  /\ [row EXCEPT !.hrmActive = b] \in Account
         /\ [row EXCEPT !.hrmActive = b].hrmActive = b
         /\ [row EXCEPT !.hrmActive = b].active = row.active
         /\ [row EXCEPT !.hrmActive = b].blocked = row.blocked
         /\ [row EXCEPT !.hrmActive = b].merged = row.merged
  BY DEF Account

LEMMA SetMerged ==
  ASSUME NEW row \in Account, NEW b \in Users
  PROVE  /\ [row EXCEPT !.merged = b] \in Account
         /\ [row EXCEPT !.merged = b].merged = b
         /\ [row EXCEPT !.merged = b].active = row.active
         /\ [row EXCEPT !.merged = b].blocked = row.blocked
         /\ [row EXCEPT !.merged = b].hrmActive = row.hrmActive
  BY DEF Account

LEMMA SetVersion ==
  ASSUME NEW row \in Account
  PROVE  /\ [row EXCEPT !.version = @ + 1] \in Account
         /\ [row EXCEPT !.version = @ + 1].active = row.active
         /\ [row EXCEPT !.version = @ + 1].blocked = row.blocked
         /\ [row EXCEPT !.version = @ + 1].hrmActive = row.hrmActive
         /\ [row EXCEPT !.version = @ + 1].merged = row.merged
  BY DEF Account

\* The shapes of the rows that handlers write.
LEMMA ArchivedRow ==
  ASSUME NEW row \in Account, NEW t \in Users
  PROVE  /\ Archived(row, t) \in Account
         /\ ~Archived(row, t).active
         /\ Archived(row, t).blocked
         /\ Archived(row, t).merged = t
<1> DEFINE r1 == [row EXCEPT !.active = FALSE]
           r2 == [r1 EXCEPT !.blocked = TRUE]
           r3 == [r2 EXCEPT !.merged = t]
           r4 == [r3 EXCEPT !.version = @ + 1]
<1>1. /\ r1 \in Account
      /\ r1.active = FALSE
      /\ r1.blocked = row.blocked
      /\ r1.merged = row.merged
  BY SetActive
<1>2. /\ r2 \in Account
      /\ r2.active = FALSE
      /\ r2.blocked = TRUE
      /\ r2.merged = row.merged
  <2> HIDE DEF r1
  <2> QED BY <1>1, SetBlocked
<1>3. /\ r3 \in Account
      /\ r3.active = FALSE
      /\ r3.blocked = TRUE
      /\ r3.merged = t
  <2> HIDE DEF r2
  <2> QED BY <1>2, SetMerged
<1>4. /\ r4 \in Account
      /\ r4.active = FALSE
      /\ r4.blocked = TRUE
      /\ r4.merged = t
  <2> HIDE DEF r3
  <2> QED BY <1>3, SetVersion
<1>5. r4 = Archived(row, t)
  BY DEF Archived
<1>6. QED BY <1>4, <1>5

\* updateUser.
LEMMA UpdatedRow ==
  ASSUME NEW row \in Account, NEW a \in BOOLEAN, NEW b \in BOOLEAN
  PROVE  /\ Updated(row, a, b) \in Account
         /\ Updated(row, a, b).merged = row.merged
<1> DEFINE r1 == [row EXCEPT !.blocked = b]
           r2 == [r1 EXCEPT !.active = a]
           r3 == [r2 EXCEPT !.version = @ + 1]
<1>1. /\ r1 \in Account
      /\ r1.active = row.active
      /\ r1.blocked = b
      /\ r1.merged = row.merged
  BY SetBlocked
<1>2. /\ r2 \in Account
      /\ r2.active = a
      /\ r2.blocked = b
      /\ r2.merged = row.merged
  <2> HIDE DEF r1
  <2> QED BY <1>1, SetActive
<1>3. /\ r3 \in Account
      /\ r3.active = a
      /\ r3.blocked = b
      /\ r3.merged = row.merged
  <2> HIDE DEF r2
  <2> QED BY <1>2, SetVersion
<1>4. r3 = Updated(row, a, b)
  BY DEF Updated
<1>5. QED BY <1>3, <1>4

\* syncHrmUsers.
LEMMA SyncedRow ==
  ASSUME NEW row \in Account, NEW a \in BOOLEAN, NEW b \in BOOLEAN
  PROVE  /\ Synced(row, a, b) \in Account
         /\ Synced(row, a, b).merged = row.merged
<1> DEFINE r1 == [row EXCEPT !.active = a]
           r2 == [r1 EXCEPT !.hrmActive = b]
<1>1. /\ r1 \in Account
      /\ r1.active = a
      /\ r1.blocked = row.blocked
      /\ r1.merged = row.merged
  BY SetActive
<1>2. /\ r2 \in Account
      /\ r2.active = a
      /\ r2.blocked = row.blocked
      /\ r2.merged = row.merged
  <2> HIDE DEF r1
  <2> QED BY <1>1, SetHrmActive
<1>3. r2 = Synced(row, a, b)
  BY DEF Synced
<1>4. QED BY <1>2, <1>3

\* deleteUser.
LEMMA DeletedRow ==
  ASSUME NEW row \in Account
  PROVE  /\ Deleted(row) \in Account
         /\ ~Deleted(row).active
         /\ Deleted(row).blocked
         /\ Deleted(row).merged = row.merged
<1> DEFINE r1 == [row EXCEPT !.active = FALSE]
           r2 == [r1 EXCEPT !.blocked = TRUE]
           r3 == [r2 EXCEPT !.version = @ + 1]
<1>1. /\ r1 \in Account
      /\ r1.active = FALSE
      /\ r1.blocked = row.blocked
      /\ r1.merged = row.merged
  BY SetActive
<1>2. /\ r2 \in Account
      /\ r2.active = FALSE
      /\ r2.blocked = TRUE
      /\ r2.merged = row.merged
  <2> HIDE DEF r1
  <2> QED BY <1>1, SetBlocked
<1>3. /\ r3 \in Account
      /\ r3.active = FALSE
      /\ r3.blocked = TRUE
      /\ r3.merged = row.merged
  <2> HIDE DEF r2
  <2> QED BY <1>2, SetVersion
<1>4. r3 = Deleted(row)
  BY DEF Deleted
<1>5. QED BY <1>3, <1>4

\* The end of syncHrmUsers.
LEMMA WithdrawnRow ==
  ASSUME NEW row \in Account
  PROVE  /\ Withdrawn(row) \in Account
         /\ ~Withdrawn(row).active
         /\ (row.blocked => Withdrawn(row).blocked)
         /\ Withdrawn(row).merged = row.merged
<1> DEFINE r1 == [row EXCEPT !.active = FALSE]
           r2 == [r1 EXCEPT !.hrmActive = FALSE]
           r3 == [r2 EXCEPT !.version = @ + 1]
<1>1. /\ r1 \in Account
      /\ r1.active = FALSE
      /\ r1.blocked = row.blocked
      /\ r1.merged = row.merged
  BY SetActive
<1>2. /\ r2 \in Account
      /\ r2.active = FALSE
      /\ r2.blocked = row.blocked
      /\ r2.merged = row.merged
  <2> HIDE DEF r1
  <2> QED BY <1>1, SetHrmActive
<1>3. /\ r3 \in Account
      /\ r3.active = FALSE
      /\ r3.blocked = row.blocked
      /\ r3.merged = row.merged
  <2> HIDE DEF r2
  <2> QED BY <1>2, SetVersion
<1>4. r3 = Withdrawn(row)
  BY DEF Withdrawn
<1>5. QED BY <1>3, <1>4

\* A row that was moved to another account is a row.
LEMMA MovedRow ==
  ASSUME NEW row \in Doc, NEW t \in Users
  PROVE  MovedTo(row, t) \in Doc /\ MovedTo(row, t).owner = t
<1> DEFINE r1 == [row EXCEPT !.owner = t]
           r2 == [r1 EXCEPT !.version = @ + 1]
<1>1. r1 \in Doc /\ r1.owner = t
  BY DEF Doc
<1>2. r2 \in Doc /\ r2.owner = t
  <2> HIDE DEF r1
  <2> QED BY <1>1 DEF Doc
<1>3. r2 = MovedTo(row, t)
  BY DEF MovedTo
<1>4. QED BY <1>2, <1>3

LEMMA RenewedRow ==
  ASSUME NEW row \in Account
  PROVE  /\ Renewed(row) \in Account
         /\ (~row.active => ~Renewed(row).active)
         /\ (row.blocked => Renewed(row).blocked)
         /\ Renewed(row).merged = row.merged
  BY SetVersion DEF Renewed

\* The account that a handler read and writes back.
LEMMA EditedRow ==
  ASSUME TypeOK, NEW t \in open, t.do \in {"update", "sync"}
  PROVE  /\ t.user \in Users
         /\ Edited(t) \in Account
         /\ Edited(t).merged = users[t.user].merged
<1>1. t.user \in Users /\ t.value \in BOOLEAN /\ t.row \in Account
  BY DEF TypeOK, Pending
<1>2. users[t.user] \in Account
  BY <1>1 DEF TypeOK
<1>3. t.row.hrmActive \in BOOLEAN /\ t.row.blocked \in BOOLEAN
  BY <1>1 DEF Account
<1> DEFINE a == t.value /\ t.row.hrmActive
           b == ~t.value
           c == t.value /\ ~t.row.blocked
<1>4. a \in BOOLEAN /\ b \in BOOLEAN /\ c \in BOOLEAN
  BY <1>1, <1>3
<1>5. Edited(t) = IF t.do = "update" THEN Updated(users[t.user], a, b)
                  ELSE Synced(users[t.user], c, t.value)
  BY DEF Edited
<1> HIDE DEF a, b, c
<1>6. /\ Updated(users[t.user], a, b) \in Account
      /\ Updated(users[t.user], a, b).merged = users[t.user].merged
  BY <1>2, <1>4, UpdatedRow, Zenon
<1>7. /\ Synced(users[t.user], c, t.value) \in Account
      /\ Synced(users[t.user], c, t.value).merged = users[t.user].merged
  BY <1>1, <1>2, <1>4, SyncedRow, Zenon
<1>8. CASE t.do = "update"
  <2>1. Edited(t) = Updated(users[t.user], a, b)
    BY <1>5, <1>8, Zenon
  <2>2. QED BY <1>1, <1>6, <2>1
<1>9. CASE t.do # "update"
  <2>1. Edited(t) = Synced(users[t.user], c, t.value)
    BY <1>5, <1>9, Zenon
  <2>2. QED BY <1>1, <1>7, <2>1
<1>10. QED BY <1>8, <1>9
-----------------------------------------------------------------------------
(* What a step does to the accounts.                                       *)

\* Out of use for good.
Retired(row) == ~row.active /\ row.blocked

\* The accounts keep their type, are merged into whom they were merged into,
\* and those that were merged stay retired if they were.
AccountsKept ==
  /\ users' \in [Users -> Account]
  /\ \A u \in Users :
       /\ users'[u].merged = users[u].merged
       /\ users[u].merged # None /\ Retired(users[u]) => Retired(users'[u])

LEMMA WriteUserKeeps ==
  ASSUME TypeOK, NEW t \in open, WriteUser(t)
  PROVE  AccountsKept
<1>1. t.user \in Users /\ Edited(t) \in Account
      /\ Edited(t).merged = users[t.user].merged
  BY EditedRow DEF WriteUser
<1>2. CASE Writable(t.user)
  <2>1. users' = [users EXCEPT ![t.user] = Edited(t)]
        /\ users[t.user].merged = None
    BY <1>2 DEF WriteUser, Writable
  <2>2. users' \in [Users -> Account]
    BY <1>1, <2>1 DEF TypeOK
  <2>3. QED BY <1>1, <2>1, <2>2 DEF TypeOK, AccountsKept
<1>3. CASE ~Writable(t.user)
  BY <1>3 DEF WriteUser, TypeOK, AccountsKept
<1>4. QED BY <1>2, <1>3

LEMMA DeleteKeeps ==
  ASSUME TypeOK, NEW u \in Users, deleteUser(u)
  PROVE  AccountsKept
<1>1. users[u] \in Account
  BY DEF TypeOK
<1>2. /\ Deleted(users[u]) \in Account
      /\ Deleted(users[u]).merged = users[u].merged
      /\ Retired(Deleted(users[u]))
  BY <1>1, DeletedRow DEF Retired
<1>3. users' = [users EXCEPT ![u] = Deleted(users[u])]
  BY DEF deleteUser
<1>4. users' \in [Users -> Account]
  BY <1>2, <1>3 DEF TypeOK
<1>5. QED BY <1>2, <1>3, <1>4 DEF TypeOK, AccountsKept

LEMMA DeactivateKeeps ==
  ASSUME TypeOK, NEW absent \in SUBSET Users, Deactivate(absent)
  PROVE  AccountsKept
<1>1. \A u \in Users :
        /\ Withdrawn(users[u]) \in Account
        /\ Withdrawn(users[u]).merged = users[u].merged
        /\ Retired(users[u]) => Retired(Withdrawn(users[u]))
  <2> TAKE u \in Users
  <2>1. users[u] \in Account
    BY DEF TypeOK
  <2>2. QED BY <2>1, WithdrawnRow DEF Retired
<1>2. users' = [u \in Users |->
                  IF u \in absent THEN Withdrawn(users[u]) ELSE users[u]]
  BY DEF Deactivate
<1>3. users' \in [Users -> Account]
  BY <1>1, <1>2 DEF TypeOK
<1>4. QED BY <1>1, <1>2, <1>3 DEF AccountsKept

\* confirm retires the source and leaves everybody else as merged as before.
LEMMA ConfirmAccounts ==
  ASSUME TypeOK, NEW p \in previews, confirm(p)
  PROVE  /\ p.source \in Users /\ p.target \in Users
         /\ users[p.source].merged = None /\ users[p.target].merged = None
         /\ \A u \in Users : users[u].merged # p.source
         /\ users' \in [Users -> Account]
         /\ users'[p.source].merged = p.target
         /\ Retired(users'[p.source])
         /\ \A u \in Users \ {p.source} :
              /\ users'[u].merged = users[u].merged
              /\ Retired(users[u]) => Retired(users'[u])
<1>1. p.source \in Users /\ p.target \in Users
  BY DEF TypeOK, Preview
<1>2. /\ users[p.source].merged = None /\ users[p.target].merged = None
      /\ \A u \in Users : users[u].merged # p.source
  BY <1>1 DEF confirm, Blocked
<1>3. \A u \in Users :
        /\ Archived(users[u], p.target) \in Account
        /\ Archived(users[u], p.target).merged = p.target
        /\ Retired(Archived(users[u], p.target))
        /\ Renewed(users[u]) \in Account
        /\ Renewed(users[u]).merged = users[u].merged
        /\ Retired(users[u]) => Retired(Renewed(users[u]))
  <2> TAKE u \in Users
  <2>1. users[u] \in Account
    BY DEF TypeOK
  <2>2. /\ Archived(users[u], p.target) \in Account
        /\ Archived(users[u], p.target).merged = p.target
        /\ Retired(Archived(users[u], p.target))
    BY <1>1, <2>1, ArchivedRow DEF Retired
  <2>3. /\ Renewed(users[u]) \in Account
        /\ Renewed(users[u]).merged = users[u].merged
        /\ Retired(users[u]) => Retired(Renewed(users[u]))
    BY <2>1, RenewedRow DEF Retired
  <2>4. QED BY <2>2, <2>3
<1>4. users' = [u \in Users |->
                  IF u = p.source THEN Archived(users[u], p.target)
                  ELSE IF u = p.target THEN Renewed(users[u]) ELSE users[u]]
  BY DEF confirm
<1>5. users' \in [Users -> Account]
  BY <1>3, <1>4 DEF TypeOK
<1>6. QED BY <1>1, <1>2, <1>3, <1>4, <1>5
-----------------------------------------------------------------------------
(* Every step keeps the types.                                             *)

\* A call that begins.
LEMMA BeginType ==
  ASSUME TypeOK, NEW t \in Pending, Begin(t)
  PROVE  TypeOK'
  BY DEF TypeOK, Begin, Call

\* A preview is one.
LEMMA PreviewType ==
  ASSUME TypeOK, NEW a \in Users, NEW s \in Users, NEW t \in Users,
         preview(a, s, t)
  PROVE  TypeOK'
<1>1. \A d \in Docs : docs[d].version \in Nat
  BY DEF TypeOK, Doc
<1>2. Fingerprint(s, t) \in [source : Account, target : Account,
                             changes : SUBSET (Docs \X Nat)]
  BY <1>1 DEF Fingerprint, References, TypeOK
<1>3. [actor |-> a, source |-> s, target |-> t, seen |-> Fingerprint(s, t)]
        \in Preview
  BY <1>2 DEF Preview
<1>4. previews' \subseteq Preview
  BY <1>3 DEF TypeOK, preview
<1>5. QED BY <1>4 DEF TypeOK, preview, Call

\* confirm.
LEMMA ConfirmType ==
  ASSUME TypeOK, NEW p \in previews, confirm(p)
  PROVE  TypeOK'
<1>1. p.source \in Users /\ p.target \in Users
      /\ users' \in [Users -> Account]
  BY ConfirmAccounts
<1>2. docs' \in [Docs -> Doc]
  BY <1>1, MovedRow DEF TypeOK, confirm
<1>3. previews' \subseteq Preview /\ late' \subseteq Docs
  BY DEF TypeOK, confirm
<1>4. running' = running /\ open' = open /\ calls' \in Nat
  BY DEF TypeOK, confirm, Call
<1>5. QED BY <1>1, <1>2, <1>3, <1>4 DEF TypeOK

\* A row that is written.
LEMMA WriteDocType ==
  ASSUME TypeOK, NEW t \in open, WriteDoc(t)
  PROVE  TypeOK'
<1>1. t.user \in Users /\ t.doc \in Docs
  BY DEF TypeOK, Pending, WriteDoc
<1>2. docs[t.doc] \in Doc
  BY <1>1 DEF TypeOK
<1>3. docs' \in [Docs -> Doc]
  BY <1>1, <1>2, MovedRow DEF TypeOK, WriteDoc
<1>4. late' \subseteq Docs
  BY <1>1 DEF TypeOK, WriteDoc
<1>5. QED BY <1>3, <1>4 DEF TypeOK, WriteDoc

LEMMA TypeStep ==
  ASSUME TypeOK, [Next]_vars
  PROVE  TypeOK'
<1>1. ASSUME NEW a \in Users, NEW s \in Users, NEW t \in Users, preview(a, s, t)
      PROVE  TypeOK'
  BY <1>1, PreviewType
<1>2. ASSUME NEW p \in previews, confirm(p) PROVE TypeOK'
  BY <1>2, ConfirmType
<1>3. ASSUME NEW p \in previews, Expire(p) PROVE TypeOK'
  BY <1>3 DEF TypeOK, Expire
<1>4. ASSUME NEW u \in Users, updateUser(u) PROVE TypeOK'
  <2>1. PICK active \in BOOLEAN :
          Begin([do |-> "update", user |-> u, value |-> active, row |-> users[u]])
    BY <1>4 DEF updateUser
  <2>2. [do |-> "update", user |-> u, value |-> active, row |-> users[u]]
          \in Pending
    BY DEF TypeOK, Pending
  <2>3. QED BY <2>1, <2>2, BeginType
<1>5. ASSUME NEW u \in Users, syncHrmUsers(u) PROVE TypeOK'
  <2>1. PICK active \in BOOLEAN :
          Begin([do |-> "sync", user |-> u, value |-> active, row |-> users[u]])
    BY <1>5 DEF syncHrmUsers
  <2>2. [do |-> "sync", user |-> u, value |-> active, row |-> users[u]]
          \in Pending
    BY DEF TypeOK, Pending
  <2>3. QED BY <2>1, <2>2, BeginType
<1>6. ASSUME NEW u \in Users, deleteUser(u) PROVE TypeOK'
  <2>1. users' \in [Users -> Account]
    BY <1>6, DeleteKeeps DEF AccountsKept
  <2>2. /\ UNCHANGED <<docs, running, previews, open, late>>
        /\ calls' = calls + 1
    BY <1>6 DEF deleteUser, Call
  <2>3. QED BY <2>1, <2>2 DEF TypeOK
<1>7. ASSUME NEW u \in Users, Clock(u) PROVE TypeOK'
  BY <1>7 DEF TypeOK, Clock, Call
<1>8. ASSUME NEW absent \in SUBSET Users, Deactivate(absent) PROVE TypeOK'
  BY <1>8, DeactivateKeeps DEF AccountsKept, TypeOK, Deactivate, Call
<1>9. ASSUME NEW d \in Docs, NEW u \in Users, assign(d, u) PROVE TypeOK'
  <2>1. docs[d].version \in Nat
    BY DEF TypeOK, Doc
  <2>2. [do |-> "assign", user |-> u, doc |-> d, version |-> docs[d].version]
          \in Pending
    BY <2>1 DEF Pending
  <2>3. QED BY <1>9, <2>2, BeginType DEF assign
<1>10. ASSUME NEW t \in open, WriteUser(t) PROVE TypeOK'
  BY <1>10, WriteUserKeeps DEF AccountsKept, TypeOK, WriteUser
<1>11. ASSUME NEW t \in open, WriteDoc(t) PROVE TypeOK'
  BY <1>11, WriteDocType
<1>12. CASE UNCHANGED vars
  BY <1>12 DEF TypeOK, vars
<1>13. QED
  BY <1>1, <1>2, <1>3, <1>4, <1>5, <1>6, <1>7, <1>8, <1>9, <1>10, <1>11,
     <1>12 DEF Next

\* Every account and every row keeps its type.
THEOREM TypeCorrect == Spec => []TypeOK
<1>1. Init => TypeOK
  BY DEF Init, TypeOK, Account, Doc, Kinds
<1>2. TypeOK /\ [Next]_vars => TypeOK'
  BY TypeStep
<1>3. QED BY <1>1, <1>2, PTL DEF Spec
-----------------------------------------------------------------------------
(* What is never true of a merge.                                          *)

\* A step confirms a merge, writes a row, or leaves merges and rows alone.
LEMMA StepKinds ==
  ASSUME TypeOK, [Next]_vars
  PROVE  \/ \E p \in previews : confirm(p)
         \/ AccountsKept /\ UNCHANGED <<docs, late>>
         \/ users' = users /\ \E t \in open : WriteDoc(t)
<1>1. UNCHANGED users => AccountsKept
  BY DEF TypeOK, AccountsKept
<1>2. ASSUME NEW a \in Users, NEW s \in Users, NEW t \in Users, preview(a, s, t)
      PROVE  AccountsKept /\ UNCHANGED <<docs, late>>
  BY <1>1, <1>2 DEF preview
<1>3. ASSUME NEW p \in previews, Expire(p)
      PROVE  AccountsKept /\ UNCHANGED <<docs, late>>
  BY <1>1, <1>3 DEF Expire
<1>4. ASSUME NEW u \in Users, updateUser(u) \/ syncHrmUsers(u)
      PROVE  AccountsKept /\ UNCHANGED <<docs, late>>
  BY <1>1, <1>4 DEF updateUser, syncHrmUsers, Begin
<1>5. ASSUME NEW u \in Users, deleteUser(u)
      PROVE  AccountsKept /\ UNCHANGED <<docs, late>>
  BY <1>5, DeleteKeeps DEF deleteUser
<1>6. ASSUME NEW u \in Users, Clock(u)
      PROVE  AccountsKept /\ UNCHANGED <<docs, late>>
  BY <1>1, <1>6 DEF Clock
<1>7. ASSUME NEW absent \in SUBSET Users, Deactivate(absent)
      PROVE  AccountsKept /\ UNCHANGED <<docs, late>>
  BY <1>7, DeactivateKeeps DEF Deactivate
<1>8. ASSUME NEW d \in Docs, NEW u \in Users, assign(d, u)
      PROVE  AccountsKept /\ UNCHANGED <<docs, late>>
  BY <1>1, <1>8 DEF assign, Begin
<1>9. ASSUME NEW t \in open, WriteUser(t)
      PROVE  AccountsKept /\ UNCHANGED <<docs, late>>
  BY <1>9, WriteUserKeeps DEF WriteUser
<1>10. ASSUME NEW t \in open, WriteDoc(t) PROVE users' = users
  BY <1>10 DEF WriteDoc
<1>11. CASE UNCHANGED vars
  BY <1>1, <1>11 DEF vars
<1>12. QED
  BY <1>2, <1>3, <1>4, <1>5, <1>6, <1>7, <1>8, <1>9, <1>10, <1>11 DEF Next

\* Nobody previews a merge of an account into itself.
Distinct == \A p \in previews : p.source # p.target

LEMMA DistinctStep ==
  ASSUME Distinct, [Next]_vars
  PROVE  Distinct'
<1>1. ASSUME NEW a \in Users, NEW s \in Users, NEW t \in Users, preview(a, s, t)
      PROVE  Distinct'
  BY <1>1 DEF Distinct, preview
<1>2. CASE previews' \subseteq previews
  BY <1>2 DEF Distinct
<1>3. ASSUME NEW p \in previews, confirm(p) \/ Expire(p)
      PROVE  previews' \subseteq previews
  BY <1>3 DEF confirm, Expire
<1>4. ASSUME NEW u \in Users,
             updateUser(u) \/ syncHrmUsers(u) \/ deleteUser(u) \/ Clock(u)
      PROVE  previews' \subseteq previews
  BY <1>4 DEF updateUser, syncHrmUsers, deleteUser, Clock, Begin
<1>5. ASSUME NEW absent \in SUBSET Users, Deactivate(absent)
      PROVE  previews' \subseteq previews
  BY <1>5 DEF Deactivate
<1>6. ASSUME NEW d \in Docs, NEW u \in Users, assign(d, u)
      PROVE  previews' \subseteq previews
  BY <1>6 DEF assign, Begin
<1>7. ASSUME NEW t \in open, WriteUser(t) \/ WriteDoc(t)
      PROVE  previews' \subseteq previews
  BY <1>7 DEF WriteUser, WriteDoc
<1>8. CASE UNCHANGED vars
  BY <1>8, <1>2 DEF vars
<1>9. QED
  BY <1>1, <1>2, <1>3, <1>4, <1>5, <1>6, <1>7, <1>8 DEF Next

\* Whoever was merged is out of use.
MergedRetired == \A u \in Users : users[u].merged # None => Retired(users[u])

IInv == TypeOK /\ Distinct /\ NoChains /\ MergedRetired /\ NothingLeftBehind

\* confirm keeps the invariant: nobody was merged into the source, and the
\* target is an account of its own.
LEMMA ConfirmInv ==
  ASSUME IInv, NEW p \in previews, confirm(p)
  PROVE  NoChains' /\ MergedRetired' /\ NothingLeftBehind'
<1> DEFINE s == p.source
           t == p.target
<1>1. /\ s \in Users /\ t \in Users
      /\ users[s].merged = None /\ users[t].merged = None
      /\ \A u \in Users : users[u].merged # s
      /\ users' \in [Users -> Account]
      /\ users'[s].merged = t
      /\ Retired(users'[s])
      /\ \A u \in Users \ {s} :
           /\ users'[u].merged = users[u].merged
           /\ Retired(users[u]) => Retired(users'[u])
  BY ConfirmAccounts DEF IInv
<1>2. s # t
  BY DEF IInv, Distinct
<1>3. \A u \in Users : users[u].merged \in Users \cup {None}
  BY DEF IInv, TypeOK, Account
<1>4. MergedRetired'
  BY <1>1 DEF IInv, MergedRetired
<1>5. NoChains'
  <2> SUFFICES ASSUME NEW u \in Users, users'[u].merged # None
               PROVE  users'[users'[u].merged].merged = None
    BY DEF NoChains
  <2>1. CASE u = s
    BY <1>1, <1>2, <2>1
  <2>2. CASE u # s
    <3>1. users'[u].merged = users[u].merged
      BY <1>1, <2>2
    <3>2. users[u].merged \in Users \ {s}
      BY <1>1, <1>3, <3>1
    <3>3. users[users[u].merged].merged = None
      BY <3>1 DEF IInv, NoChains
    <3>4. QED BY <1>1, <3>1, <3>2, <3>3
  <2>3. QED BY <2>1, <2>2
<1>6. NothingLeftBehind'
  <2> SUFFICES ASSUME NEW d \in Docs, users'[docs'[d].owner].merged # None
               PROVE  d \in late'
    BY DEF NothingLeftBehind
  <2>1. /\ docs' = [x \in Docs |->
                      IF x \in References(s) THEN MovedTo(docs[x], t) ELSE docs[x]]
        /\ late' = late \ References(s)
    BY DEF confirm
  <2>2. docs[d] \in Doc /\ docs[d].owner \in Users
    BY DEF IInv, TypeOK, Doc
  <2>3. CASE d \in References(s)
    <3>1. docs'[d].owner = t
      BY <1>1, <2>1, <2>2, <2>3, MovedRow
    <3>2. QED BY <1>1, <1>2, <3>1
  <2>4. CASE d \notin References(s)
    <3>1. docs'[d] = docs[d] /\ docs[d].owner # s
      BY <2>1, <2>4 DEF References
    <3>2. users[docs[d].owner].merged # None
      BY <1>1, <2>2, <3>1
    <3>3. d \in late
      BY <3>2 DEF IInv, NothingLeftBehind
    <3>4. QED BY <2>1, <2>4, <3>3
  <2>5. QED BY <2>3, <2>4
<1>7. QED BY <1>4, <1>5, <1>6

\* A row that is written to a merged account is remembered as late.
LEMMA WriteDocInv ==
  ASSUME IInv, NEW t \in open, WriteDoc(t)
  PROVE  NothingLeftBehind'
<1>1. t.user \in Users /\ t.doc \in Docs /\ users' = users
  BY DEF IInv, TypeOK, Pending, WriteDoc
<1>2. docs \in [Docs -> Doc] /\ docs[t.doc] \in Doc
  BY <1>1 DEF IInv, TypeOK
<1>3. CASE docs[t.doc].version = t.version
  <2>1. docs' = [docs EXCEPT ![t.doc] = MovedTo(docs[t.doc], t.user)]
    BY <1>3 DEF WriteDoc
  <2>2. docs'[t.doc].owner = t.user
    BY <1>1, <1>2, <2>1, MovedRow
  <2>3. \A d \in Docs \ {t.doc} : docs'[d] = docs[d]
    BY <1>2, <2>1
  <2>4. late' = IF users[t.user].merged # None THEN late \cup {t.doc}
                ELSE late \ {t.doc}
    BY <1>3 DEF WriteDoc
  <2>5. QED BY <1>1, <2>2, <2>3, <2>4 DEF IInv, NothingLeftBehind
<1>4. CASE docs[t.doc].version # t.version
  BY <1>1, <1>4 DEF IInv, NothingLeftBehind, WriteDoc
<1>5. QED BY <1>3, <1>4

\* A step that leaves merges and rows alone.
LEMMA KeptInv ==
  ASSUME IInv, AccountsKept, UNCHANGED <<docs, late>>
  PROVE  NoChains' /\ MergedRetired' /\ NothingLeftBehind'
<1>1. /\ \A u \in Users : users[u].merged \in Users \cup {None}
      /\ \A d \in Docs : docs[d].owner \in Users
  BY DEF IInv, TypeOK, Account, Doc
<1>2. \A u \in Users : users'[u].merged = users[u].merged
  BY DEF AccountsKept
<1>3. NoChains'
  BY <1>1, <1>2 DEF IInv, NoChains
<1>4. MergedRetired'
  BY DEF IInv, MergedRetired, AccountsKept
<1>5. NothingLeftBehind'
  BY <1>1, <1>2 DEF IInv, NothingLeftBehind
<1>6. QED BY <1>3, <1>4, <1>5

LEMMA InvStep ==
  ASSUME IInv, [Next]_vars
  PROVE  IInv'
<1>1. TypeOK' /\ Distinct'
  BY TypeStep, DistinctStep DEF IInv
<1>2. ASSUME NEW p \in previews, confirm(p)
      PROVE  NoChains' /\ MergedRetired' /\ NothingLeftBehind'
  BY <1>2, ConfirmInv
<1>3. CASE AccountsKept /\ UNCHANGED <<docs, late>>
  BY <1>1, <1>3, KeptInv DEF IInv
<1>4. ASSUME users' = users, NEW t \in open, WriteDoc(t)
      PROVE  NoChains' /\ MergedRetired' /\ NothingLeftBehind'
  <2>1. NoChains' /\ MergedRetired'
    BY <1>4 DEF IInv, NoChains, MergedRetired, Retired
  <2>2. QED BY <1>4, <2>1, WriteDocInv
<1>5. QED
  BY <1>1, <1>2, <1>3, <1>4, StepKinds DEF IInv

LEMMA MergeStarts == Init => IInv
<1> SUFFICES ASSUME Init PROVE IInv
  OBVIOUS
<1>1. TypeOK
  BY DEF Init, TypeOK, Account, Doc, Kinds
<1>2. \A u \in Users : users[u].merged = None
  <2>1. PICK kind \in [Users -> Kinds] :
          users = [u \in Users |->
            [kind |-> kind[u], active |-> TRUE, blocked |-> FALSE,
             hrmActive |-> TRUE, merged |-> None, version |-> 1]]
    BY DEF Init
  <2>2. QED BY <2>1
<1>3. \A d \in Docs : docs[d].owner \in Users
  BY <1>1 DEF TypeOK, Doc
<1>4. NoChains /\ MergedRetired /\ NothingLeftBehind
  BY <1>2, <1>3 DEF NoChains, MergedRetired, NothingLeftBehind
<1>5. QED BY <1>1, <1>4 DEF Init, IInv, Distinct

LEMMA InvAlways == Spec => []IInv
  BY MergeStarts, InvStep, PTL DEF Spec

\* Merges never form chains, whoever previews and confirms them when.
THEOREM MergesFormNoChains == Spec => []NoChains
  BY InvAlways, PTL DEF IInv

\* Nothing refers to a merged account but rows written after the merge.
THEOREM MergesLeaveNothingBehind == Spec => []NothingLeftBehind
  BY InvAlways, PTL DEF IInv

Lasting ==
  \A u \in Users : users[u].merged # None =>
    /\ users'[u].merged = users[u].merged
    /\ ~users'[u].active /\ users'[u].blocked

LEMMA MergeLasts ==
  ASSUME IInv, [Next]_vars
  PROVE  Lasting
<1> SUFFICES ASSUME NEW u \in Users, users[u].merged # None
             PROVE  users'[u].merged = users[u].merged /\ Retired(users'[u])
  BY DEF Retired, Lasting
<1>1. Retired(users[u])
  BY DEF IInv, MergedRetired
<1>2. ASSUME NEW p \in previews, confirm(p)
      PROVE  users'[u].merged = users[u].merged /\ Retired(users'[u])
  <2>1. /\ users[p.source].merged = None
        /\ \A v \in Users \ {p.source} :
             /\ users'[v].merged = users[v].merged
             /\ Retired(users[v]) => Retired(users'[v])
    BY <1>2, ConfirmAccounts DEF IInv
  <2>2. QED BY <1>1, <2>1
<1>3. CASE AccountsKept
  BY <1>1, <1>3 DEF AccountsKept
<1>4. CASE users' = users
  BY <1>1, <1>4 DEF Retired
<1>5. QED BY <1>2, <1>3, <1>4, StepKinds DEF IInv

\* A merged account stays merged into the same one and out of use.
THEOREM MergesLast == Spec => MergedStays
<1>1. IInv /\ [Next]_vars => [Lasting]_users
  BY MergeLasts
<1>2. QED BY <1>1, InvAlways, PTL DEF Spec, MergedStays, Lasting

-----------------------------------------------------------------------------
(* BrowserSessions: who has locked a row is at work on it, and everybody   *)
(* else has done with it.                                                  *)

\* What a call does to the row of its session, which it has locked.
Locked == {"exchange", "verify", "store", "revoke", "delete"}

\* HRM has taken a token of every session there is or was, and unless somebody
\* is at work on it or an answer got lost, the one in its row.
RowRight(i) ==
  /\ i \in DOMAIN sessions \/ held[i] # None => hrm[i] # 0
  /\ i \in DOMAIN sessions /\ held[i] = None
       => hrm[i] \in Nat /\ (i \in lost \/ sessions[i] = hrm[i])

\* A row is locked by the one call that is past its lock, and the token in that
\* call is what HRM takes.
CallRight(t) ==
  LET c == doing[t]
      i == c.id
  IN  /\ c.step \notin Locked => \A k \in SessionIds : held[k] # t
      /\ c.step \in Locked =>
           held[i] = t /\ \A k \in SessionIds \ {i} : held[k] # t
      /\ c.step \in {"exchange", "verify", "store", "revoke"} => hrm[i] \in Nat
      /\ c.step = "exchange" => i \in lost \/ i \notin DOMAIN sessions
                                           \/ sessions[i] = hrm[i]
      /\ c.step \in {"verify", "store"} => c.token \in Nat
      /\ c.step \in {"exchange", "verify", "store"}
           => i \in lost \/ c.token = hrm[i]

BrowserInv ==
  /\ B!TypeOK /\ doing = [t \in Clients |-> doing[t]]
  /\ \A i \in SessionIds : RowRight(i)
  /\ \A t \in Clients : CallRight(t)

\* A call that is not under way, or has not begun with its row.
LEMMA CallKinds ==
  ASSUME BrowserInv, NEW t \in Clients
  PROVE  /\ doing[t].step \in Locked \cup {"lock"}
              => doing[t] \in [step : B!Steps, do : {"refresh", "logout"},
                               id : SessionIds, token : Int]
         /\ doing[t].step = "replace"
              => doing[t] \in [step : {"replace"}, id : SessionIds,
                               old : SessionIds \cup {None}]
<1>1. \/ doing[t] = B!Idle
      \/ doing[t] \in [step : {"replace"}, id : SessionIds,
                       old : SessionIds \cup {None}]
      \/ doing[t] \in [step : B!Steps, do : {"refresh", "logout"},
                       id : SessionIds, token : Int]
  BY DEF BrowserInv, B!TypeOK
<1>2. CASE doing[t] = B!Idle
  BY <1>2 DEF B!Idle, Locked
<1>3. CASE doing[t] \in [step : {"replace"}, id : SessionIds,
                         old : SessionIds \cup {None}]
  <2>1. doing[t].step = "replace"
    BY <1>3
  <2>2. QED BY <1>3, <2>1 DEF Locked
<1>4. CASE doing[t] \in [step : B!Steps, do : {"refresh", "logout"},
                         id : SessionIds, token : Int]
  <2>1. doing[t].step \in B!Steps
    BY <1>4
  <2>2. QED BY <1>4, <2>1 DEF B!Steps
<1>5. QED BY <1>1, <1>2, <1>3, <1>4

\* A step of tab t that leaves the rows and locks of the others alone.
LEMMA BrowserStep ==
  ASSUME BrowserInv, NEW t \in Clients, NEW c, NEW i \in SessionIds,
         doing' = [doing EXCEPT ![t] = c],
         \/ c = B!Idle
         \/ c \in [step : {"replace"}, id : SessionIds, old : SessionIds \cup {None}]
         \/ c \in [step : B!Steps, do : {"refresh", "logout"}, id : {i}, token : Int],
         held[i] = t \/ held[i] = None,
         \A j \in SessionIds \ {i} : held[j] # t,
         held' \in [SessionIds -> Clients \cup {None}],
         held'[i] = t \/ held'[i] = None,
         hrm' \in [SessionIds -> Int],
         DOMAIN sessions' \subseteq SessionIds,
         sessions' \in [DOMAIN sessions' -> Nat],
         cookie' \in SessionIds \cup {None},
         lost' \subseteq SessionIds,
         \A j \in SessionIds \ {i} :
           /\ held'[j] = held[j] /\ hrm'[j] = hrm[j]
           /\ j \in lost' <=> j \in lost
           /\ j \in DOMAIN sessions' <=> j \in DOMAIN sessions
           /\ j \in DOMAIN sessions => sessions'[j] = sessions[j],
         RowRight(i)', CallRight(t)'
  PROVE  BrowserInv'
<1>1. None \notin Clients
  BY RecordConstants DEF Lone!NoneIsApart
<1>2. \A u \in Clients : doing'[u] = IF u = t THEN c ELSE doing[u]
  BY DEF BrowserInv
<1>3. B!TypeOK'
  <2>1. ASSUME NEW u \in Clients
        PROVE  \/ doing'[u] = B!Idle
               \/ doing'[u] \in [step : {"replace"}, id : SessionIds,
                                 old : SessionIds \cup {None}]
               \/ doing'[u] \in [step : B!Steps, do : {"refresh", "logout"},
                                 id : SessionIds, token : Int]
    <3>1. c \in [step : B!Steps, do : {"refresh", "logout"}, id : {i}, token : Int]
            => c \in [step : B!Steps, do : {"refresh", "logout"}, id : SessionIds,
                      token : Int]
      OBVIOUS
    <3>2. CASE u = t
      BY <1>2, <3>1, <3>2
    <3>3. CASE u # t
      BY <1>2, <3>3 DEF BrowserInv, B!TypeOK
    <3>4. QED BY <3>2, <3>3
  <2>2. B!Idle' = B!Idle /\ B!Steps' = B!Steps
    OBVIOUS
  <2>3. QED BY <2>1, <2>2 DEF B!TypeOK
<1>4. ASSUME NEW j \in SessionIds PROVE RowRight(j)'
  <2>1. CASE j = i
    BY <2>1
  <2>2. CASE j # i
    <3>1. RowRight(j)
      BY DEF BrowserInv
    <3>2. QED BY <2>2, <3>1 DEF RowRight
  <2>3. QED BY <2>1, <2>2
<1>5. ASSUME NEW u \in Clients PROVE CallRight(u)'
  <2>1. CASE u = t
    BY <1>2, <2>1
  <2>2. CASE u # t
    <3>1. CallRight(u) /\ doing'[u] = doing[u]
      BY <1>2, <2>2 DEF BrowserInv
    <3>2. \A j \in SessionIds : held'[j] = u <=> held[j] = u
      BY <1>1, <2>2
    <3>3. doing[u].step \in Locked => doing[u].id \in SessionIds \ {i}
      BY <1>1, <2>2, <3>1, CallKinds DEF CallRight
    <3>4. CASE doing[u].step \in Locked
      BY <3>1, <3>2, <3>3, <3>4 DEF CallRight
    <3>5. CASE doing[u].step \notin Locked
      BY <3>1, <3>2, <3>5 DEF CallRight, Locked
    <3>6. QED BY <3>4, <3>5
  <2>3. QED BY <2>1, <2>2
<1>6. doing' = [u \in Clients |-> doing'[u]]
  BY DEF BrowserInv
<1>7. QED BY <1>3, <1>4, <1>5, <1>6 DEF BrowserInv

\* What a tab that is not at work on a row holds, and one that is.
LEMMA Holding ==
  ASSUME BrowserInv, NEW t \in Clients
  PROVE  /\ doing[t].step \notin Locked => \A i \in SessionIds : held[i] # t
         /\ doing[t].step \in Locked =>
              /\ doing[t].id \in SessionIds /\ held[doing[t].id] = t
              /\ \A i \in SessionIds \ {doing[t].id} : held[i] # t
  BY CallKinds DEF BrowserInv, CallRight

LEMMA IdleHolds ==
  /\ "idle" \notin Locked /\ "replace" \notin Locked /\ "lock" \notin Locked
  /\ B!Idle.step = "idle"
  /\ \A i : B!Idle \notin [step : {"replace"}, id : SessionIds, old : SessionIds \cup {None}]
  BY DEF Locked, B!Idle

\* A call that goes on, with another token or the same.
LEMMA CallGoesOn ==
  ASSUME NEW c, NEW i, NEW next \in Locked, NEW token \in Int,
         c \in [step : B!Steps, do : {"refresh", "logout"}, id : {i}, token : Int]
  PROVE  LET d == [c EXCEPT !.step = next, !.token = token]
             e == [c EXCEPT !.step = next]
         IN  /\ {d, e} \subseteq [step : B!Steps, do : {"refresh", "logout"}, id : {i},
                                  token : Int]
             /\ d.step = next /\ d.id = i /\ d.token = token /\ d.do = c.do
             /\ e.step = next /\ e.id = i /\ e.token = c.token /\ e.do = c.do
<1>1. next \in B!Steps
  BY DEF B!Steps, Locked
<1>2. QED BY <1>1

LEMMA openKeeps ==
  ASSUME BrowserInv, NEW t \in Clients, B!open(t)
  PROVE  BrowserInv'
<1>1. PICK i \in SessionIds \ DOMAIN sessions :
        /\ hrm[i] = 0
        /\ sessions' = [j \in DOMAIN sessions \cup {i} |->
                          IF j = i THEN 1 ELSE sessions[j]]
        /\ hrm' = [hrm EXCEPT ![i] = 1]
        /\ doing[t] = B!Idle
        /\ doing' = [doing EXCEPT ![t] = [step |-> "replace", id |-> i, old |-> cookie]]
  BY DEF B!open, B!Begin
<1>2. UNCHANGED <<cookie, held, lost>>
  BY DEF B!open
<1> DEFINE c == [step |-> "replace", id |-> i, old |-> cookie]
<1>3. \A j \in SessionIds : held[j] # t
  BY <1>1, Holding, IdleHolds
<1>4. RowRight(i)
  BY DEF BrowserInv
<1>5. held[i] = None
  BY <1>1, <1>4 DEF RowRight
<1>6. RowRight(i)'
  BY <1>1, <1>2 DEF RowRight, BrowserInv, B!TypeOK
<1>7. CallRight(t)'
  <2>1. doing'[t].step = "replace"
    BY <1>1 DEF BrowserInv
  <2>2. QED BY <1>2, <1>3, <2>1 DEF CallRight, Locked
<1>8. c \in [step : {"replace"}, id : SessionIds, old : SessionIds \cup {None}]
  BY DEF BrowserInv, B!TypeOK
<1>9. /\ hrm' \in [SessionIds -> Int]
      /\ \A j \in SessionIds \ {i} : hrm'[j] = hrm[j]
  BY <1>1 DEF BrowserInv, B!TypeOK
<1>10. /\ DOMAIN sessions' \subseteq SessionIds
       /\ sessions' \in [DOMAIN sessions' -> Nat]
       /\ \A j \in SessionIds \ {i} :
            /\ j \in DOMAIN sessions' <=> j \in DOMAIN sessions
            /\ j \in DOMAIN sessions => sessions'[j] = sessions[j]
  BY <1>1 DEF BrowserInv, B!TypeOK
<1>11. /\ cookie \in SessionIds \cup {None} /\ lost \subseteq SessionIds
       /\ held \in [SessionIds -> Clients \cup {None}]
  BY DEF BrowserInv, B!TypeOK
<1>12. doing' = [doing EXCEPT ![t] = c]
  BY <1>1
<1>13. /\ held' \in [SessionIds -> Clients \cup {None}] /\ held'[i] = None
       /\ cookie' \in SessionIds \cup {None} /\ lost' \subseteq SessionIds
       /\ \A j \in SessionIds \ {i} :
            held'[j] = held[j] /\ (j \in lost' <=> j \in lost)
  BY <1>2, <1>5, <1>11
<1> HIDE DEF c
<1>14. \A j \in SessionIds \ {i} :
           /\ held'[j] = held[j] /\ hrm'[j] = hrm[j]
           /\ j \in lost' <=> j \in lost
           /\ j \in DOMAIN sessions' <=> j \in DOMAIN sessions
           /\ j \in DOMAIN sessions => sessions'[j] = sessions[j]
  BY <1>9, <1>10, <1>13
<1>15. QED
  BY <1>3, <1>5, <1>6, <1>7, <1>8, <1>9, <1>10, <1>12, <1>13, <1>14, BrowserStep

\* A step of a tab that concerns no row.
LEMMA BrowserAside ==
  ASSUME BrowserInv, NEW t \in Clients, NEW c,
         doing' = [doing EXCEPT ![t] = c],
         \/ c = B!Idle
         \/ c \in [step : B!Steps, do : {"refresh", "logout"}, id : SessionIds,
                  token : Int],
         doing[t].step \notin Locked, c.step \notin Locked,
         cookie' \in SessionIds \cup {None},
         UNCHANGED <<sessions, hrm, held, lost>>
  PROVE  BrowserInv'
<1>1. \A u \in Clients : doing'[u] = IF u = t THEN c ELSE doing[u]
  BY DEF BrowserInv
<1>2. B!TypeOK'
  <2>1. ASSUME NEW u \in Clients
        PROVE  \/ doing'[u] = B!Idle
               \/ doing'[u] \in [step : {"replace"}, id : SessionIds,
                                 old : SessionIds \cup {None}]
               \/ doing'[u] \in [step : B!Steps, do : {"refresh", "logout"},
                                 id : SessionIds, token : Int]
    <3>1. CASE u = t
      BY <1>1, <3>1
    <3>2. CASE u # t
      BY <1>1, <3>2 DEF BrowserInv, B!TypeOK
    <3>3. QED BY <3>1, <3>2
  <2>2. B!Idle' = B!Idle /\ B!Steps' = B!Steps
    OBVIOUS
  <2>3. QED BY <2>1, <2>2 DEF BrowserInv, B!TypeOK
<1>3. ASSUME NEW i \in SessionIds PROVE RowRight(i)'
  BY DEF BrowserInv, RowRight
<1>4. ASSUME NEW u \in Clients PROVE CallRight(u)'
  <2>1. CASE u = t
    <3>1. doing'[u].step \notin Locked /\ \A i \in SessionIds : held[i] # u
      BY <1>1, <2>1, Holding
    <3>2. QED BY <3>1 DEF CallRight, Locked
  <2>2. CASE u # t
    BY <1>1, <2>2 DEF BrowserInv, CallRight
  <2>3. QED BY <2>1, <2>2
<1>5. QED BY <1>1, <1>2, <1>3, <1>4 DEF BrowserInv

\* A call that ends where it holds no row.
LEMMA BrowserEnds ==
  ASSUME BrowserInv, NEW t \in Clients,
         doing' = [doing EXCEPT ![t] = B!Idle], doing[t].step \notin Locked,
         cookie' \in SessionIds \cup {None},
         UNCHANGED <<sessions, hrm, held, lost>>
  PROVE  BrowserInv'
<1>1. PICK c : c = B!Idle
  OBVIOUS
<1>2. c.step \notin Locked
  BY <1>1, IdleHolds
<1>3. QED BY <1>1, <1>2, BrowserAside

LEMMA ReplaceKeeps ==
  ASSUME BrowserInv, NEW t \in Clients, B!Replace(t)
  PROVE  BrowserInv'
<1>0. PICK old : old = doing[t].old
  OBVIOUS
<1>1. /\ doing[t].step = "replace"
      /\ old # None => held[old] = None
      /\ sessions' = [i \in DOMAIN sessions \ {old} |-> sessions[i]]
      /\ cookie' = doing[t].id
      /\ doing' = [doing EXCEPT ![t] = B!Idle]
      /\ UNCHANGED <<hrm, held, lost>>
  BY <1>0 DEF B!Replace
<1>2. doing[t].id \in SessionIds /\ old \in SessionIds \cup {None}
  BY <1>0, <1>1, CallKinds
<1>3. None \notin SessionIds /\ None \notin Clients
  BY RecordConstants DEF Lone!NoneIsApart
<1>4. /\ DOMAIN sessions \subseteq SessionIds
      /\ sessions \in [DOMAIN sessions -> Nat]
      /\ hrm \in [SessionIds -> Int]
      /\ held \in [SessionIds -> Clients \cup {None}]
      /\ lost \subseteq SessionIds
  BY DEF BrowserInv, B!TypeOK
<1>5. doing[t].step \notin Locked /\ \A j \in SessionIds : held[j] # t
  BY <1>1, Holding, IdleHolds
<1>6. CASE old = None
  <2>1. sessions' = sessions
    BY <1>1, <1>3, <1>4, <1>6
  <2>2. QED BY <1>1, <1>2, <1>5, <2>1, BrowserEnds
<1>7. CASE old # None
  <2>1. old \in SessionIds /\ held[old] = None /\ held'[old] = None
    BY <1>1, <1>2, <1>7
  <2>2. RowRight(old)'
    <3>1. hrm[old] = hrm'[old] /\ old \notin DOMAIN sessions'
      BY <1>1
    <3>2. QED BY <2>1, <3>1 DEF RowRight
  <2>3. CallRight(t)'
    <3>1. doing'[t].step = "idle"
      BY <1>1, IdleHolds DEF BrowserInv
    <3>2. QED BY <1>1, <1>5, <3>1 DEF CallRight, Locked
  <2>4. DOMAIN sessions' \subseteq SessionIds /\ sessions' \in [DOMAIN sessions' -> Nat]
    BY <1>1, <1>4
  <2>5. \A j \in SessionIds \ {old} :
          /\ held'[j] = held[j] /\ hrm'[j] = hrm[j]
          /\ j \in lost' <=> j \in lost
          /\ j \in DOMAIN sessions' <=> j \in DOMAIN sessions
          /\ j \in DOMAIN sessions => sessions'[j] = sessions[j]
    BY <1>1
  <2>6. /\ held' \in [SessionIds -> Clients \cup {None}]
        /\ hrm' \in [SessionIds -> Int] /\ lost' \subseteq SessionIds
        /\ cookie' \in SessionIds \cup {None}
    BY <1>1, <1>2, <1>4
  <2>7. QED BY <1>1, <1>5, <2>1, <2>2, <2>3, <2>4, <2>5, <2>6, BrowserStep
<1>8. QED BY <1>6, <1>7

LEMMA AskKeeps ==
  ASSUME BrowserInv, NEW t \in Clients, B!refresh(t) \/ B!logout(t)
  PROVE  BrowserInv'
<1>1. PICK do \in {"refresh", "logout"} :
        /\ cookie # None /\ doing[t] = B!Idle
        /\ doing' = [doing EXCEPT ![t] = [step |-> "lock", do |-> do, id |-> cookie,
                                         token |-> 0]]
        /\ UNCHANGED <<sessions, cookie, hrm, held, lost>>
  BY DEF B!refresh, B!logout, B!Begin
<1>0. PICK c : c = [step |-> "lock", do |-> do, id |-> cookie, token |-> 0]
  OBVIOUS
<1>2. cookie \in SessionIds
  BY <1>1 DEF BrowserInv, B!TypeOK
<1>3. /\ c \in [step : B!Steps, do : {"refresh", "logout"}, id : SessionIds, token : Int]
      /\ c.step = "lock"
  BY <1>0, <1>2 DEF B!Steps
<1>4. doing' = [doing EXCEPT ![t] = c]
  BY <1>0, <1>1
<1>5. doing[t].step \notin Locked /\ c.step \notin Locked
  BY <1>1, <1>3, IdleHolds
<1>6. cookie' \in SessionIds \cup {None} /\ UNCHANGED <<sessions, hrm, held, lost>>
  BY <1>1, <1>2
<1>7. QED BY <1>3, <1>4, <1>5, <1>6, BrowserAside

LEMMA LockKeeps ==
  ASSUME BrowserInv, NEW t \in Clients, B!Lock(t)
  PROVE  BrowserInv'
<1>0. PICK i : i = doing[t].id
  OBVIOUS
<1>1. /\ doing[t].step = "lock" /\ held[i] = None
      /\ UNCHANGED <<sessions, cookie, hrm, lost>>
      /\ IF i \notin DOMAIN sessions
         THEN doing' = [doing EXCEPT ![t] = B!Idle] /\ held' = held
         ELSE /\ doing' = [doing EXCEPT ![t].step = "exchange", ![t].token = sessions[i]]
              /\ held' = [held EXCEPT ![i] = t]
  BY <1>0 DEF B!Lock
<1>2. /\ doing[t] \in [step : B!Steps, do : {"refresh", "logout"}, id : SessionIds,
                       token : Int]
      /\ i \in SessionIds
  BY <1>0, <1>1, CallKinds
<1>3. /\ DOMAIN sessions \subseteq SessionIds
      /\ sessions \in [DOMAIN sessions -> Nat]
      /\ hrm \in [SessionIds -> Int]
      /\ held \in [SessionIds -> Clients \cup {None}]
      /\ lost \subseteq SessionIds /\ cookie \in SessionIds \cup {None}
  BY DEF BrowserInv, B!TypeOK
<1>4. doing[t].step \notin Locked /\ \A j \in SessionIds : held[j] # t
  BY <1>1, Holding, IdleHolds
<1>5. CASE i \notin DOMAIN sessions
  <2>1. doing' = [doing EXCEPT ![t] = B!Idle] /\ held' = held
    BY <1>1, <1>5
  <2>2. QED BY <1>1, <1>3, <1>4, <2>1, BrowserEnds
<1>6. CASE i \in DOMAIN sessions
  <2>0. PICK c : c = [doing[t] EXCEPT !.step = "exchange", !.token = sessions[i]]
    OBVIOUS
  <2>1. doing' = [doing EXCEPT ![t] = c] /\ held' = [held EXCEPT ![i] = t]
    BY <1>1, <1>6, <2>0 DEF BrowserInv
  <2>2. /\ c \in [step : B!Steps, do : {"refresh", "logout"}, id : {i}, token : Int]
        /\ c.step = "exchange" /\ c.id = i /\ c.token = sessions[i]
    <3>1. sessions[i] \in Int
      BY <1>3, <1>6
    <3>2. doing[t] \in [step : B!Steps, do : {"refresh", "logout"}, id : {i}, token : Int]
      BY <1>0, <1>2
    <3>3. "exchange" \in Locked
      BY DEF Locked
    <3>4. QED BY <2>0, <3>1, <3>2, <3>3, CallGoesOn
  <2>3. doing'[t] = c
    BY <2>1 DEF BrowserInv
  <2>4. RowRight(i)
    BY <1>2 DEF BrowserInv
  <2>5. held'[i] = t /\ \A j \in SessionIds \ {i} : held'[j] = held[j]
    BY <1>2, <1>3, <2>1
  <2>6. None # t
    BY RecordConstants DEF Lone!NoneIsApart
  <2>7. RowRight(i)'
    BY <1>1, <1>6, <2>4, <2>5, <2>6 DEF RowRight
  <2>8. CallRight(t)'
    BY <1>1, <1>4, <1>6, <2>2, <2>3, <2>4, <2>5 DEF CallRight, RowRight, Locked
  <2>9. held' \in [SessionIds -> Clients \cup {None}]
    BY <1>3, <2>1
  <2>10. /\ hrm' \in [SessionIds -> Int] /\ lost' \subseteq SessionIds
         /\ cookie' \in SessionIds \cup {None}
         /\ DOMAIN sessions' \subseteq SessionIds /\ sessions' \in [DOMAIN sessions' -> Nat]
    BY <1>1, <1>3
  <2>11. \A j \in SessionIds \ {i} :
          /\ held'[j] = held[j] /\ hrm'[j] = hrm[j]
          /\ j \in lost' <=> j \in lost
          /\ j \in DOMAIN sessions' <=> j \in DOMAIN sessions
          /\ j \in DOMAIN sessions => sessions'[j] = sessions[j]
    BY <1>1, <2>5
  <2>12. QED BY <1>1, <1>2, <1>4, <2>1, <2>2, <2>5, <2>7, <2>8, <2>9, <2>10, <2>11, BrowserStep
<1>7. QED BY <1>5, <1>6

\* A call that has locked its row.
LEMMA AtWork ==
  ASSUME BrowserInv, NEW t \in Clients, doing[t].step \in Locked
  PROVE  \E i \in SessionIds :
           /\ doing[t] \in [step : B!Steps, do : {"refresh", "logout"}, id : {i}, token : Int]
           /\ doing[t].id = i /\ held[i] = t /\ \A j \in SessionIds \ {i} : held[j] # t
<1>1. PICK i : i = doing[t].id
  OBVIOUS
<1>2. /\ i \in SessionIds /\ held[i] = t
      /\ \A j \in SessionIds \ {i} : held[j] # t
  BY <1>1, Holding
<1>3. doing[t] \in [step : B!Steps, do : {"refresh", "logout"}, id : SessionIds,
                   token : Int]
  BY CallKinds
<1>4. doing[t] \in [step : B!Steps, do : {"refresh", "logout"}, id : {i}, token : Int]
  BY <1>1, <1>3
<1>5. QED BY <1>1, <1>2, <1>4

\* It goes on; HRM may have taken its token, and the answer may get lost.
LEMMA WorkGoesOn ==
  ASSUME BrowserInv, NEW t \in Clients, NEW c, NEW i \in SessionIds, NEW h \in Int,
         held[i] = t, \A j \in SessionIds \ {i} : held[j] # t,
         c \in [step : B!Steps, do : {"refresh", "logout"}, id : {i}, token : Int],
         c.step \in Locked, doing' = [doing EXCEPT ![t] = c],
         UNCHANGED <<sessions, cookie, held>>,
         hrm' = [hrm EXCEPT ![i] = h], h # 0,
         lost' = lost \/ lost' = lost \cup {i},
         CallRight(t)'
  PROVE  BrowserInv'
<1>1. /\ DOMAIN sessions \subseteq SessionIds
      /\ sessions \in [DOMAIN sessions -> Nat]
      /\ hrm \in [SessionIds -> Int]
      /\ held \in [SessionIds -> Clients \cup {None}]
      /\ lost \subseteq SessionIds /\ cookie \in SessionIds \cup {None}
  BY DEF BrowserInv, B!TypeOK
<1>2. None \notin Clients
  BY RecordConstants DEF Lone!NoneIsApart
<1>3. RowRight(i)'
  BY <1>1, <1>2 DEF RowRight
<1>4. /\ hrm' \in [SessionIds -> Int] /\ lost' \subseteq SessionIds
      /\ held' \in [SessionIds -> Clients \cup {None}] /\ held'[i] = t
      /\ cookie' \in SessionIds \cup {None}
      /\ DOMAIN sessions' \subseteq SessionIds /\ sessions' \in [DOMAIN sessions' -> Nat]
  BY <1>1
<1>5. \A j \in SessionIds \ {i} :
        /\ held'[j] = held[j] /\ hrm'[j] = hrm[j]
        /\ j \in lost' <=> j \in lost
        /\ j \in DOMAIN sessions' <=> j \in DOMAIN sessions
        /\ j \in DOMAIN sessions => sessions'[j] = sessions[j]
  BY <1>1
<1>6. QED BY <1>3, <1>4, <1>5, BrowserStep

\* It ends and unlocks the row, which it may have written.
LEMMA WorkEnds ==
  ASSUME BrowserInv, NEW t \in Clients, NEW i \in SessionIds, NEW h \in Int,
         held[i] = t, \A j \in SessionIds \ {i} : held[j] # t,
         doing' = [doing EXCEPT ![t] = B!Idle], held' = [held EXCEPT ![i] = None],
         cookie' = cookie, hrm' = [hrm EXCEPT ![i] = h],
         lost' = lost \/ lost' = lost \cup {i},
         sessions' \in [DOMAIN sessions' -> Nat],
         \/ DOMAIN sessions' = DOMAIN sessions \ {i}
         \/ /\ DOMAIN sessions' = DOMAIN sessions
            /\ h \in Nat \ {0}
            /\ i \in DOMAIN sessions => i \in lost' \/ sessions'[i] = h,
         \A j \in DOMAIN sessions \ {i} : sessions'[j] = sessions[j]
  PROVE  BrowserInv'
<1>1. /\ DOMAIN sessions \subseteq SessionIds
      /\ hrm \in [SessionIds -> Int]
      /\ held \in [SessionIds -> Clients \cup {None}]
      /\ lost \subseteq SessionIds /\ cookie \in SessionIds \cup {None}
  BY DEF BrowserInv, B!TypeOK
<1>2. held'[i] = None /\ hrm'[i] = h
  BY <1>1
<1>3. RowRight(i)'
  BY <1>2 DEF RowRight
<1>4. CallRight(t)'
  <2>1. doing'[t] = B!Idle
    BY DEF BrowserInv
  <2>2. doing'[t].step = "idle"
    BY <2>1, IdleHolds
  <2>3. None # t
    BY RecordConstants DEF Lone!NoneIsApart
  <2>4. \A j \in SessionIds : held'[j] # t
    BY <1>1, <2>3
  <2>5. QED BY <2>2, <2>4 DEF CallRight, Locked
<1>5. /\ hrm' \in [SessionIds -> Int] /\ lost' \subseteq SessionIds
      /\ held' \in [SessionIds -> Clients \cup {None}]
      /\ cookie' \in SessionIds \cup {None}
      /\ DOMAIN sessions' \subseteq SessionIds
  BY <1>1
<1>6. \A j \in SessionIds \ {i} :
        /\ held'[j] = held[j] /\ hrm'[j] = hrm[j]
        /\ j \in lost' <=> j \in lost
        /\ j \in DOMAIN sessions' <=> j \in DOMAIN sessions
        /\ j \in DOMAIN sessions => sessions'[j] = sessions[j]
  BY <1>1
<1>7. QED BY <1>2, <1>3, <1>4, <1>5, <1>6, BrowserStep

\* What the exchange relies on.
LEMMA Exchanging ==
  ASSUME BrowserInv, NEW t \in Clients, NEW i \in SessionIds,
         doing[t].step = "exchange", doing[t].id = i
  PROVE  /\ hrm[i] \in Nat \ {0} /\ hrm = [hrm EXCEPT ![i] = hrm[i]]
         /\ i \in lost \/ doing[t].token = hrm[i]
         /\ i \in DOMAIN sessions => i \in lost \/ sessions[i] = hrm[i]
<1>1. CallRight(t) /\ RowRight(i)
  BY DEF BrowserInv
<1>2. held[i] = t /\ None # t
  BY <1>1, RecordConstants DEF CallRight, Locked, Lone!NoneIsApart
<1>3. hrm = [hrm EXCEPT ![i] = hrm[i]]
  BY DEF BrowserInv, B!TypeOK
<1>4. QED BY <1>1, <1>2, <1>3 DEF CallRight, RowRight

LEMMA ExchangeKeeps ==
  ASSUME BrowserInv, NEW t \in Clients, B!Exchange(t)
  PROVE  BrowserInv'
<1>1. doing[t].step = "exchange" /\ doing[t].step \in Locked
  BY DEF B!Exchange, Locked
<1>2. PICK i \in SessionIds :
        /\ doing[t] \in [step : B!Steps, do : {"refresh", "logout"}, id : {i}, token : Int]
        /\ doing[t].id = i /\ held[i] = t /\ \A j \in SessionIds \ {i} : held[j] # t
  BY <1>1, AtWork
<1>3. PICK new \in {hrm[i], hrm[i] + 1}, next \in {"revoke", "verify"} :
        /\ hrm' = [hrm EXCEPT ![i] = new]
        /\ doing' = [doing EXCEPT ![t].step = next, ![t].token = new]
        /\ UNCHANGED <<sessions, cookie, held, lost>>
  BY <1>2 DEF B!Exchange
<1>4. new \in Nat \ {0} /\ new \in Int
  BY <1>1, <1>2, <1>3, Exchanging
<1>5. PICK c : c = [doing[t] EXCEPT !.step = next, !.token = new]
  OBVIOUS
<1>6. doing' = [doing EXCEPT ![t] = c]
  BY <1>3, <1>5 DEF BrowserInv
<1>7. next \in Locked
  BY <1>3 DEF Locked
<1>8. /\ c \in [step : B!Steps, do : {"refresh", "logout"}, id : {i}, token : Int]
      /\ c.step = next /\ c.id = i /\ c.token = new
  BY <1>2, <1>4, <1>5, <1>7, CallGoesOn
<1>9. CallRight(t)'
  <2>1. doing'[t] = c
    BY <1>6 DEF BrowserInv
  <2>2. hrm'[i] = new
    BY <1>3 DEF BrowserInv, B!TypeOK
  <2>3. held'[i] = t /\ \A j \in SessionIds \ {i} : held'[j] # t
    BY <1>2, <1>3
  <2>4. QED BY <1>3, <1>4, <1>7, <1>8, <2>1, <2>2, <2>3 DEF CallRight
<1>10. UNCHANGED <<sessions, cookie, held>> /\ lost' = lost
  BY <1>3
<1>11. QED BY <1>2, <1>3, <1>4, <1>6, <1>7, <1>8, <1>9, <1>10, WorkGoesOn

\* Without a new token the refresh ends and the logout goes on.
LEMMA GiveUpKeeps ==
  ASSUME BrowserInv, NEW t \in Clients, NEW i \in SessionIds, NEW h \in Nat \ {0},
         doing[t].step = "exchange", doing[t].id = i, B!GiveUp(t),
         hrm' = [hrm EXCEPT ![i] = h], UNCHANGED <<sessions, cookie>>,
         lost' = lost \/ lost' = lost \cup {i},
         i \in DOMAIN sessions => i \in lost' \/ sessions[i] = h
  PROVE  BrowserInv'
<1>1. doing[t].step \in Locked
  BY DEF Locked
<1>2. /\ doing[t] \in [step : B!Steps, do : {"refresh", "logout"}, id : {i}, token : Int]
      /\ held[i] = t /\ \A j \in SessionIds \ {i} : held[j] # t
  BY <1>1, AtWork
<1>3. CASE doing[t].do = "logout"
  <2>1. doing' = [doing EXCEPT ![t].step = "delete"] /\ held' = held
    BY <1>3 DEF B!GiveUp, B!Continue
  <2>2. PICK c : c = [doing[t] EXCEPT !.step = "delete"]
    OBVIOUS
  <2>3. doing' = [doing EXCEPT ![t] = c]
    BY <2>1, <2>2 DEF BrowserInv
  <2>4. "delete" \in Locked /\ 0 \in Int
    BY DEF Locked
  <2>5. /\ c \in [step : B!Steps, do : {"refresh", "logout"}, id : {i}, token : Int]
        /\ c.step = "delete" /\ c.id = i
    BY <1>2, <2>2, <2>4, CallGoesOn
  <2>6. CallRight(t)'
    <3>1. doing'[t] = c
      BY <2>3 DEF BrowserInv
    <3>2. held'[i] = t /\ \A j \in SessionIds \ {i} : held'[j] # t
      BY <1>2, <2>1
    <3>3. QED BY <2>4, <2>5, <3>1, <3>2 DEF CallRight
  <2>7. UNCHANGED <<sessions, cookie, held>> /\ h \in Int /\ h # 0
    BY <2>1
  <2>8. QED BY <1>2, <2>3, <2>4, <2>5, <2>6, <2>7, WorkGoesOn
<1>4. CASE doing[t].do # "logout"
  <2>1. doing' = [doing EXCEPT ![t] = B!Idle] /\ held' = [held EXCEPT ![i] = None]
    BY <1>4 DEF B!GiveUp, B!Release
  <2>2. sessions' \in [DOMAIN sessions' -> Nat]
    BY DEF BrowserInv, B!TypeOK
  <2>3. /\ DOMAIN sessions' = DOMAIN sessions
        /\ i \in DOMAIN sessions => i \in lost' \/ sessions'[i] = h
        /\ \A j \in DOMAIN sessions \ {i} : sessions'[j] = sessions[j]
    OBVIOUS
  <2>4. h \in Int /\ cookie' = cookie
    OBVIOUS
  <2>5. QED BY <1>2, <2>1, <2>2, <2>3, <2>4, WorkEnds
<1>5. QED BY <1>3, <1>4

LEMMA NoTokenKeeps ==
  ASSUME BrowserInv, NEW t \in Clients, B!Refuse(t) \/ B!Unanswered(t)
  PROVE  BrowserInv'
<1>1. doing[t].step = "exchange" /\ doing[t].step \in Locked
  BY DEF B!Refuse, B!Unanswered, Locked
<1>2. PICK i \in SessionIds : doing[t].id = i
  BY <1>1, AtWork
<1>3. /\ hrm[i] \in Nat \ {0} /\ hrm = [hrm EXCEPT ![i] = hrm[i]]
      /\ i \in DOMAIN sessions => i \in lost \/ sessions[i] = hrm[i]
  BY <1>1, <1>2, Exchanging
<1>4. B!GiveUp(t) /\ UNCHANGED <<sessions, cookie>>
  BY DEF B!Refuse, B!Unanswered
<1>5. CASE UNCHANGED <<hrm, lost>>
  <2>1. PICK h \in Nat \ {0} : h = hrm[i]
    BY <1>3
  <2>2. hrm' = [hrm EXCEPT ![i] = h] /\ lost' = lost
    BY <1>3, <1>5, <2>1
  <2>3. i \in DOMAIN sessions => i \in lost' \/ sessions[i] = h
    BY <1>3, <2>1, <2>2
  <2>4. QED BY <1>1, <1>2, <1>4, <2>2, <2>3, GiveUpKeeps
<1>6. CASE ~UNCHANGED <<hrm, lost>>
  <2>1. hrm' = [hrm EXCEPT ![i] = @ + 1] /\ lost' = lost \cup {i}
    BY <1>2, <1>6 DEF B!Refuse, B!Unanswered
  <2>2. PICK h \in Nat \ {0} : h = hrm[i] + 1
    BY <1>3
  <2>3. hrm' = [hrm EXCEPT ![i] = h] /\ i \in lost'
    BY <2>1, <2>2
  <2>4. QED BY <1>1, <1>2, <1>4, <2>1, <2>3, GiveUpKeeps
<1>7. QED BY <1>5, <1>6

LEMMA VerifyKeeps ==
  ASSUME BrowserInv, NEW t \in Clients, B!Verify(t)
  PROVE  BrowserInv'
<1>1. /\ doing[t].step = "verify" /\ doing[t].step \in Locked
      /\ doing' = [doing EXCEPT ![t].step = "store"]
      /\ UNCHANGED <<sessions, cookie, hrm, held, lost>>
  BY DEF B!Verify, B!Continue, Locked
<1>2. PICK i \in SessionIds :
        /\ doing[t] \in [step : B!Steps, do : {"refresh", "logout"}, id : {i}, token : Int]
        /\ doing[t].id = i /\ held[i] = t /\ \A j \in SessionIds \ {i} : held[j] # t
  BY <1>1, AtWork
<1>3. PICK c, h : c = [doing[t] EXCEPT !.step = "store"] /\ h = hrm[i]
  OBVIOUS
<1>4. CallRight(t) /\ RowRight(i) /\ None # t
  BY RecordConstants DEF BrowserInv, Lone!NoneIsApart
<1>5. /\ h \in Int /\ h # 0 /\ h \in Nat
      /\ doing[t].token \in Nat /\ (i \in lost \/ doing[t].token = h)
  BY <1>1, <1>2, <1>3, <1>4 DEF CallRight, RowRight
<1>6. "store" \in Locked /\ 0 \in Int
  BY DEF Locked
<1>7. /\ c \in [step : B!Steps, do : {"refresh", "logout"}, id : {i}, token : Int]
      /\ c.step = "store" /\ c.id = i /\ c.token = doing[t].token
  BY <1>2, <1>3, <1>6, CallGoesOn
<1>8. doing' = [doing EXCEPT ![t] = c] /\ doing'[t] = c
  BY <1>1, <1>3 DEF BrowserInv
<1>9. CallRight(t)'
  BY <1>1, <1>2, <1>3, <1>5, <1>6, <1>7, <1>8 DEF CallRight
<1>10. hrm' = [hrm EXCEPT ![i] = h]
  BY <1>1, <1>3 DEF BrowserInv, B!TypeOK
<1>11. UNCHANGED <<sessions, cookie, held>> /\ lost' = lost
  BY <1>1
<1>12. QED BY <1>2, <1>5, <1>6, <1>7, <1>8, <1>9, <1>10, <1>11, WorkGoesOn

LEMMA VerifyFailsKeeps ==
  ASSUME BrowserInv, NEW t \in Clients, B!VerifyFails(t)
  PROVE  BrowserInv'
<1>1. doing[t].step = "verify" /\ doing[t].step \in Locked
  BY DEF B!VerifyFails, Locked
<1>2. PICK i \in SessionIds :
        doing[t].id = i /\ held[i] = t /\ \A j \in SessionIds \ {i} : held[j] # t
  BY <1>1, AtWork
<1>3. PICK h : h = hrm[i]
  OBVIOUS
<1>4. CallRight(t) /\ RowRight(i) /\ None # t
  BY RecordConstants DEF BrowserInv, Lone!NoneIsApart
<1>5. h \in Nat \ {0} /\ h \in Int
  BY <1>1, <1>2, <1>3, <1>4 DEF CallRight, RowRight
<1>6. /\ doing' = [doing EXCEPT ![t] = B!Idle] /\ held' = [held EXCEPT ![i] = None]
      /\ lost' = lost \cup {i} /\ UNCHANGED <<sessions, cookie, hrm>>
  BY <1>2 DEF B!VerifyFails, B!Release
<1>7. /\ hrm' = [hrm EXCEPT ![i] = h] /\ sessions' \in [DOMAIN sessions' -> Nat]
      /\ DOMAIN sessions' = DOMAIN sessions /\ i \in lost'
      /\ \A j \in DOMAIN sessions \ {i} : sessions'[j] = sessions[j]
      /\ cookie' = cookie
  BY <1>3, <1>6 DEF BrowserInv, B!TypeOK
<1>8. QED BY <1>2, <1>5, <1>6, <1>7, WorkEnds

LEMMA StoreKeeps ==
  ASSUME BrowserInv, NEW t \in Clients, B!Store(t)
  PROVE  BrowserInv'
<1>1. doing[t].step = "store" /\ doing[t].step \in Locked
  BY DEF B!Store, Locked
<1>2. PICK i \in SessionIds :
        doing[t].id = i /\ held[i] = t /\ \A j \in SessionIds \ {i} : held[j] # t
  BY <1>1, AtWork
<1>3. PICK h : h = hrm[i]
  OBVIOUS
<1>4. CallRight(t) /\ RowRight(i) /\ None # t
  BY RecordConstants DEF BrowserInv, Lone!NoneIsApart
<1>5. /\ h \in Nat \ {0} /\ h \in Int
      /\ doing[t].token \in Nat /\ (i \in lost \/ doing[t].token = h)
  BY <1>1, <1>2, <1>3, <1>4 DEF CallRight, RowRight
<1>6. /\ doing' = [doing EXCEPT ![t] = B!Idle] /\ held' = [held EXCEPT ![i] = None]
      /\ sessions' = [sessions EXCEPT ![i] = doing[t].token]
      /\ UNCHANGED <<cookie, hrm, lost>>
  BY <1>2 DEF B!Store, B!Stored, B!Release
<1>7. sessions \in [DOMAIN sessions -> Nat]
  BY DEF BrowserInv, B!TypeOK
<1>8. /\ DOMAIN sessions' = DOMAIN sessions /\ sessions' \in [DOMAIN sessions' -> Nat]
      /\ \A j \in DOMAIN sessions \ {i} : sessions'[j] = sessions[j]
      /\ i \in DOMAIN sessions => sessions'[i] = doing[t].token
  BY <1>5, <1>6, <1>7
<1>9. hrm' = [hrm EXCEPT ![i] = h] /\ cookie' = cookie /\ lost' = lost
  BY <1>3, <1>6 DEF BrowserInv, B!TypeOK
<1>10. i \in DOMAIN sessions => i \in lost' \/ sessions'[i] = h
  <2>1. lost' = lost
    BY <1>9
  <2>2. QED BY <1>5, <1>8, <2>1
<1>11. doing' = [doing EXCEPT ![t] = B!Idle] /\ held' = [held EXCEPT ![i] = None]
  BY <1>6
<1>12. QED BY <1>2, <1>5, <1>8, <1>9, <1>10, <1>11, WorkEnds

LEMMA RevokeKeeps ==
  ASSUME BrowserInv, NEW t \in Clients, B!Revoke(t)
  PROVE  BrowserInv'
<1>1. /\ doing[t].step = "revoke" /\ doing[t].step \in Locked
      /\ doing' = [doing EXCEPT ![t].step = "delete"]
      /\ UNCHANGED <<sessions, cookie, held, lost>>
  BY DEF B!Revoke, B!Continue, Locked
<1>2. PICK i \in SessionIds :
        /\ doing[t] \in [step : B!Steps, do : {"refresh", "logout"}, id : {i}, token : Int]
        /\ doing[t].id = i /\ held[i] = t /\ \A j \in SessionIds \ {i} : held[j] # t
  BY <1>1, AtWork
<1>3. CallRight(t) /\ RowRight(i) /\ None # t
  BY RecordConstants DEF BrowserInv, Lone!NoneIsApart
<1>4. PICK c, h : /\ c = [doing[t] EXCEPT !.step = "delete"]
                  /\ h \in {-1, hrm[i]} /\ hrm' = [hrm EXCEPT ![i] = h]
  <2>1. hrm' = [hrm EXCEPT ![i] = -1] \/ hrm' = hrm
    BY <1>2 DEF B!Revoke
  <2>2. hrm = [hrm EXCEPT ![i] = hrm[i]]
    BY DEF BrowserInv, B!TypeOK
  <2>3. QED BY <2>1, <2>2
<1>5. h \in Int /\ h # 0
  BY <1>1, <1>2, <1>3, <1>4 DEF CallRight, RowRight
<1>6. "delete" \in Locked /\ 0 \in Int
  BY DEF Locked
<1>7. /\ c \in [step : B!Steps, do : {"refresh", "logout"}, id : {i}, token : Int]
      /\ c.step = "delete" /\ c.id = i
  BY <1>2, <1>4, <1>6, CallGoesOn
<1>8. doing' = [doing EXCEPT ![t] = c] /\ doing'[t] = c
  BY <1>1, <1>4 DEF BrowserInv
<1>9. CallRight(t)'
  BY <1>1, <1>2, <1>6, <1>7, <1>8 DEF CallRight
<1>10. UNCHANGED <<sessions, cookie, held>> /\ lost' = lost
  BY <1>1
<1>11. QED BY <1>2, <1>4, <1>5, <1>6, <1>7, <1>8, <1>9, <1>10, WorkGoesOn

LEMMA RowDeleteKeeps ==
  ASSUME BrowserInv, NEW t \in Clients, B!Delete(t)
  PROVE  BrowserInv'
<1>1. doing[t].step = "delete" /\ doing[t].step \in Locked
  BY DEF B!Delete, Locked
<1>2. PICK i \in SessionIds :
        doing[t].id = i /\ held[i] = t /\ \A j \in SessionIds \ {i} : held[j] # t
  BY <1>1, AtWork
<1>3. PICK h : h = hrm[i]
  OBVIOUS
<1>4. /\ doing' = [doing EXCEPT ![t] = B!Idle] /\ held' = [held EXCEPT ![i] = None]
      /\ sessions' = [k \in DOMAIN sessions \ {i} |-> sessions[k]]
      /\ UNCHANGED <<cookie, hrm, lost>>
  BY <1>2 DEF B!Delete, B!Release
<1>5. sessions \in [DOMAIN sessions -> Nat]
  BY DEF BrowserInv, B!TypeOK
<1>6. /\ DOMAIN sessions' = DOMAIN sessions \ {i}
      /\ sessions' \in [DOMAIN sessions' -> Nat]
      /\ \A j \in DOMAIN sessions \ {i} : sessions'[j] = sessions[j]
  BY <1>4, <1>5
<1>7. hrm' = [hrm EXCEPT ![i] = h] /\ cookie' = cookie /\ lost' = lost /\ h \in Int
  BY <1>3, <1>4 DEF BrowserInv, B!TypeOK
<1>8. QED BY <1>2, <1>4, <1>6, <1>7, WorkEnds

LEMMA BrowserNext ==
  ASSUME BrowserInv, B!Next
  PROVE  BrowserInv'
<1>1. PICK t \in Clients :
        \/ B!open(t) \/ B!Replace(t) \/ B!refresh(t) \/ B!logout(t)
        \/ B!Lock(t) \/ B!Exchange(t) \/ B!Refuse(t) \/ B!Unanswered(t)
        \/ B!Verify(t) \/ B!VerifyFails(t) \/ B!Store(t)
        \/ B!Revoke(t) \/ B!Delete(t)
  BY DEF B!Next
<1>2. QED
  BY <1>1, openKeeps, ReplaceKeeps, AskKeeps, LockKeeps, ExchangeKeeps, NoTokenKeeps,
     VerifyKeeps, VerifyFailsKeeps, StoreKeeps, RevokeKeeps, RowDeleteKeeps

LEMMA BrowserStutter ==
  ASSUME BrowserInv, UNCHANGED browser
  PROVE  BrowserInv'
<1>1. UNCHANGED <<sessions, cookie, hrm, held, doing, lost>>
  BY DEF browser
<1>2. \A i \in SessionIds : RowRight(i)'
  BY <1>1 DEF BrowserInv, RowRight
<1>3. \A t \in Clients : CallRight(t)'
  BY <1>1 DEF BrowserInv, CallRight
<1>4. B!TypeOK'
  BY <1>1 DEF BrowserInv, B!TypeOK, B!Idle, B!Steps
<1>5. QED BY <1>1, <1>2, <1>3, <1>4 DEF BrowserInv

LEMMA BrowserStarts == B!Init => BrowserInv
<1> SUFFICES ASSUME B!Init PROVE BrowserInv
  OBVIOUS
<1>1. /\ sessions = << >> /\ cookie = None /\ lost = {}
      /\ hrm = [i \in SessionIds |-> 0] /\ held = [i \in SessionIds |-> None]
      /\ doing = [t \in Clients |-> B!Idle]
  BY DEF B!Init
<1>2. DOMAIN sessions = {} /\ sessions \in [DOMAIN sessions -> Nat]
  BY <1>1
<1>3. None \notin Clients
  BY RecordConstants DEF Lone!NoneIsApart
<1>4. B!TypeOK
  BY <1>1, <1>2 DEF B!TypeOK
<1>5. \A i \in SessionIds : RowRight(i)
  BY <1>1, <1>2 DEF RowRight
<1>6. ASSUME NEW t \in Clients PROVE CallRight(t)
  <2>1. doing[t].step = "idle" /\ \A i \in SessionIds : held[i] # t
    BY <1>1, <1>3, IdleHolds
  <2>2. QED BY <2>1 DEF CallRight, Locked
<1>7. QED BY <1>1, <1>4, <1>5, <1>6 DEF BrowserInv

LEMMA BrowserCurrent == BrowserInv => B!TokensAreCurrent
<1> SUFFICES ASSUME BrowserInv PROVE B!TokensAreCurrent
  OBVIOUS
<1>1. DOMAIN sessions \subseteq SessionIds
  BY DEF BrowserInv, B!TypeOK
<1>2. \A i \in DOMAIN sessions \ lost : held[i] = None => sessions[i] = hrm[i]
  BY <1>1 DEF BrowserInv, RowRight
<1>3. QED BY <1>2 DEF BrowserInv, CallRight, B!TokensAreCurrent

-----------------------------------------------------------------------------
(* What goes on step by step, from 0 up to some number.  The library's     *)
(* induction takes a predicate as a parameter; here it is a set.           *)

\* Among some subsets of a finite set one has none of the others within it.
LEMMA LeastSubset ==
  ASSUME NEW S, IsFiniteSet(S), NEW Bad \in SUBSET SUBSET S, Bad # {}
  PROVE  \E T \in Bad : \A U \in Bad : U \subseteq T => U = T
<1>1. IsWellFoundedOn(StrictSubsetOrdering(S), FiniteSubsetsOf(S))
  BY FS_StrictSubsetOrderingWellFounded
<1>2. Bad \subseteq FiniteSubsetsOf(S)
  BY FS_FiniteSubsetsOfFinite
<1>3. PICK T \in Bad : \A U \in Bad : <<U, T>> \notin StrictSubsetOrdering(S)
  BY <1>1, <1>2, WFMin
<1>4. QED BY <1>3 DEF StrictSubsetOrdering

\* A set of numbers has a least one.
LEMMA LeastNumber ==
  ASSUME NEW S \in SUBSET Nat, S # {}
  PROVE  \E x \in S : \A y \in S : x <= y
<1> DEFINE Less == {p \in Nat \X Nat : p[1] < p[2]}
<1>1. IsWellFoundedOn(Less, Nat)
  BY NatLessThanWellFounded DEF OpToRel
<1> HIDE DEF Less
<1>2. PICK x \in S : \A y \in S : <<y, x>> \notin Less
  BY <1>1, WFMin
<1>3. ASSUME NEW y \in S PROVE x <= y
  <2>1. x \in Nat /\ y \in Nat
    OBVIOUS
  <2>2. ~(y < x)
    BY <1>2, <2>1 DEF Less
  <2>3. QED BY <2>1, <2>2
<1>4. QED BY <1>3

\* What holds at 0, and goes on from each number to the next, holds up to n.
LEMMA StepByStep ==
  ASSUME NEW n \in Nat, NEW Good, 0 \in Good,
         \A k \in 1..n : k - 1 \in Good => k \in Good
  PROVE  \A k \in 0..n : k \in Good
<1> DEFINE Bad == {k \in 0..n : k \notin Good}
<1> SUFFICES ASSUME Bad # {} PROVE FALSE
  OBVIOUS
<1>1. Bad \in SUBSET Nat
  OBVIOUS
<1>2. PICK k \in Bad : \A j \in Bad : k <= j
  <2> HIDE DEF Bad
  <2>1. QED BY <1>1, LeastNumber
<1>3. k \in 1..n /\ k - 1 \in 0..n /\ ~(k <= k - 1)
  OBVIOUS
<1>4. k - 1 \in Good
  BY <1>2, <1>3
<1>5. QED BY <1>3, <1>4

\* A function that is told from its value before.
Follows(f, n, g) == \A k \in 1..n : f[k] = g[<<k, f[k - 1]>>]

LEMMA Iteration ==
  ASSUME NEW n \in Nat, NEW S, NEW a \in S, NEW g \in [(1..n) \X S -> S]
  PROVE  \E f \in [0..n -> S] : f[0] = a /\ Follows(f, n, g)
<1> DEFINE Fits(m, f) == f[0] = a /\ \A k \in 1..m : f[k] = g[<<k, f[k - 1]>>]
           Good == {m \in 0..n : \E f \in [0..m -> S] : Fits(m, f)}
<1>1. 0 \in Good
  <2>1. [k \in 0..0 |-> a] \in [0..0 -> S] /\ Fits(0, [k \in 0..0 |-> a])
    OBVIOUS
  <2> HIDE DEF Fits
  <2>2. QED BY <2>1, 0 \in 0..n
<1>2. ASSUME NEW m \in 1..n, m - 1 \in Good PROVE m \in Good
  <2>1. PICK f \in [0..(m - 1) -> S] : Fits(m - 1, f)
    BY <1>2
  <2> DEFINE h == [k \in 0..m |-> IF k = m THEN g[<<m, f[m - 1]>>] ELSE f[k]]
  <2>2. f[m - 1] \in S
    OBVIOUS
  <2>3. h \in [0..m -> S]
    BY <2>2
  <2>4. h[0] = a /\ h[m] = g[<<m, h[m - 1]>>]
    <3>1. m - 1 \in 0..m /\ m - 1 # m /\ m \in 0..m /\ 0 \in 0..m /\ 0 # m
      OBVIOUS
    <3>2. h[m - 1] = f[m - 1] /\ h[0] = f[0] /\ h[m] = g[<<m, f[m - 1]>>]
      BY <3>1
    <3> HIDE DEF h
    <3>3. QED BY <2>1, <3>2
  <2>5. ASSUME NEW k \in 1..(m - 1) PROVE h[k] = g[<<k, h[k - 1]>>]
    <3>1. h[k] = f[k] /\ h[k - 1] = f[k - 1]
      OBVIOUS
    <3> HIDE DEF h
    <3>2. QED BY <2>1, <3>1
  <2> HIDE DEF h
  <2>6. Fits(m, h)
    BY <2>4, <2>5
  <2>7. QED BY <2>3, <2>6
<1> HIDE DEF Good
<1>3. n \in Good
  BY <1>1, <1>2, StepByStep
<1>4. QED BY <1>3 DEF Good, Follows
-----------------------------------------------------------------------------
(* Meters: the order of the chain.                                         *)

Tables == UNION {[Stored -> M!Reading] : Stored \in SUBSET ReadingIds}

LEMMA TableRows ==
  ASSUME NEW r \in Tables
  PROVE  /\ DOMAIN r \subseteq ReadingIds /\ DOMAIN r \subseteq Nat
         /\ \A i \in DOMAIN r : r[i] \in M!Reading /\ r[i].at \in M!Times
                                /\ r[i].at \in Nat /\ r[i].value \in Nat
         /\ M!Live(r) \subseteq DOMAIN r
         /\ \A i : M!Before(r, i) \subseteq M!Live(r)
         /\ r = [i \in DOMAIN r |-> r[i]]
<1>1. PICK Stored \in SUBSET ReadingIds : r \in [Stored -> M!Reading]
  BY DEF Tables
<1>2. \A i \in Stored : r[i] \in M!Reading
  BY <1>1
<1>3. \A x \in M!Reading : x.at \in M!Times /\ x.at \in Nat /\ x.value \in Nat
  BY RecordConstants DEF M!Reading, M!Times
<1>4. QED BY <1>1, <1>2, <1>3, RecordConstants DEF M!Live, M!Before

\* Of two readings one comes first.
LEMMA InOrder ==
  ASSUME NEW r \in Tables
  PROVE  /\ \A i, j \in DOMAIN r : i # j => M!Precedes(r, i, j) \/ M!Precedes(r, j, i)
         /\ \A i, j \in DOMAIN r : ~(M!Precedes(r, i, j) /\ M!Precedes(r, j, i))
         /\ \A i, j, k \in DOMAIN r :
              M!Precedes(r, i, j) /\ M!Precedes(r, j, k) => M!Precedes(r, i, k)
         /\ \A i, j \in DOMAIN r : M!Precedes(r, i, j) => r[i].at <= r[j].at
<1>1. DOMAIN r \subseteq Nat /\ \A i \in DOMAIN r : r[i].at \in Nat
  BY TableRows
<1>2. QED BY <1>1 DEF M!Precedes

IsLast(r, S, x) == x \in S /\ \A j \in S \ {x} : M!Precedes(r, j, x)

LEMMA LastIs ==
  ASSUME NEW r \in Tables, NEW S \in SUBSET DOMAIN r, NEW x, IsLast(r, S, x)
  PROVE  M!LastOf(r, S) = x
<1>1. \A y : IsLast(r, S, y) => y = x
  BY InOrder DEF IsLast
<1>2. M!LastOf(r, S) = CHOOSE i \in S : \A j \in S \ {i} : M!Precedes(r, j, i)
  BY DEF M!LastOf
<1>3. IsLast(r, S, M!LastOf(r, S))
  BY <1>2 DEF IsLast
<1>4. QED BY <1>1, <1>3

\* Some readings have a last one.
LEMMA LastExists ==
  ASSUME NEW r \in Tables, NEW S \in SUBSET DOMAIN r, S # {}
  PROVE  IsLast(r, S, M!LastOf(r, S))
<1> DEFINE After(i) == {j \in S : M!Precedes(r, i, j)}
           Bad == {After(i) : i \in S}
<1>1. IsFiniteSet(S)
  BY TableRows, RecordConstants, FS_Subset
<1>2. Bad \in SUBSET SUBSET S /\ Bad # {}
  OBVIOUS
<1>3. PICK T \in Bad : \A U \in Bad : U \subseteq T => U = T
  <2> HIDE DEF Bad
  <2>1. QED BY <1>1, <1>2, LeastSubset
<1>4. PICK i \in S : T = After(i)
  OBVIOUS
<1>5. After(i) = {}
  <2> SUFFICES ASSUME NEW j \in After(i) PROVE FALSE
    OBVIOUS
  <2>1. After(j) \subseteq After(i) /\ j \notin After(j)
    BY InOrder
  <2>2. QED BY <1>3, <1>4, <2>1
<1>6. IsLast(r, S, i)
  BY <1>5, InOrder DEF IsLast
<1>7. QED BY <1>6, LastIs

\* What is last in one table is last in another that agrees.
LEMMA LastSame ==
  ASSUME NEW r \in Tables, NEW s \in Tables,
         NEW S \in SUBSET (DOMAIN r \cap DOMAIN s), S # {},
         \A i \in S : r[i].at = s[i].at
  PROVE  M!LastOf(r, S) = M!LastOf(s, S) /\ M!LastOf(r, S) \in S
<1>1. IsLast(r, S, M!LastOf(r, S))
  BY LastExists
<1>2. IsLast(s, S, M!LastOf(r, S))
  BY <1>1 DEF IsLast, M!Precedes
<1>3. QED BY <1>1, <1>2, LastIs DEF IsLast
-----------------------------------------------------------------------------
(* Meters: the chain.                                                      *)

IntactAt(r, i) ==
  M!Before(r, i) # {} =>
    LET from == r[M!LastOf(r, M!Before(r, i))].value IN
    /\ r[i].prev = from
    /\ r[i].used = IF r[i].value < from THEN None ELSE r[i].value - from

LEMMA IntactEverywhere ==
  ASSUME NEW r \in Tables
  PROVE  M!ChainIntact(r) <=> \A i \in M!Live(r) : IntactAt(r, i)
<1>1. \A i \in M!Live(r) : r[i].at >= 0
  BY TableRows
<1>2. M!ChainIntact(r) <=> \A i \in M!Live(r) : r[i].at >= 0 => IntactAt(r, i)
  BY DEF M!ChainIntact, M!ChainFrom, IntactAt
<1>3. QED BY <1>1, <1>2

LEMMA IntactFrom ==
  ASSUME NEW r, NEW from
  PROVE  M!ChainFrom(r, from) <=> \A i \in M!Live(r) : r[i].at >= from => IntactAt(r, i)
  BY DEF M!ChainFrom, IntactAt

\* A reading is as right in one table as in another with the same readings
\* before it.
LEMMA IntactSame ==
  ASSUME NEW r \in Tables, NEW s \in Tables, NEW i \in DOMAIN r \cap DOMAIN s,
         M!Before(r, i) = M!Before(s, i),
         \A j \in M!Before(r, i) : r[j].at = s[j].at /\ r[j].value = s[j].value,
         r[i].value = s[i].value, r[i].prev = s[i].prev, r[i].used = s[i].used,
         IntactAt(r, i)
  PROVE  IntactAt(s, i)
<1> SUFFICES ASSUME M!Before(s, i) # {} PROVE IntactAt(s, i)
  BY DEF IntactAt
<1>1. M!Before(r, i) \in SUBSET (DOMAIN r \cap DOMAIN s)
  BY TableRows
<1>2. /\ M!LastOf(r, M!Before(r, i)) = M!LastOf(s, M!Before(s, i))
      /\ M!LastOf(r, M!Before(r, i)) \in M!Before(r, i)
  BY <1>1, LastSame
<1>3. QED BY <1>2 DEF IntactAt

\* A row with what it follows from written.
Linked(row, prev, used) == [row EXCEPT !.prev = prev, !.used = used]

LEMMA RowLinked ==
  ASSUME NEW row \in M!Reading, NEW prev \in M!Amount, NEW used \in M!Amount
  PROVE  LET new == Linked(row, prev, used) IN
         /\ new \in M!Reading /\ new.prev = prev /\ new.used = used
         /\ new.at = row.at /\ new.value = row.value /\ new.voided = row.voided
         /\ new.cycle = row.cycle /\ new.baseline = row.baseline
  BY DEF M!Reading, Linked

LEMMA ChainedRow ==
  ASSUME NEW r \in Tables, NEW i \in DOMAIN r
  PROVE  LET new == M!Chained(r, i)
             from == r[M!LastOf(r, M!Before(r, i))].value
         IN  /\ new \in M!Reading
             /\ new.at = r[i].at /\ new.value = r[i].value /\ new.voided = r[i].voided
             /\ new.cycle = r[i].cycle /\ new.baseline = r[i].baseline
             /\ new.prev \in Nat
             /\ M!Before(r, i) # {} =>
                  /\ new.prev = from
                  /\ new.used = IF r[i].value < from THEN None ELSE r[i].value - from
<1>1. r[i] \in M!Reading /\ r[i].value \in Nat
  BY TableRows
<1>2. r[i].prev \in M!Amount
  BY <1>1 DEF M!Reading
<1>3. CASE M!Before(r, i) = {}
  <2> DEFINE start == IF r[i].baseline \/ r[i].prev = None THEN r[i].value ELSE r[i].prev
             used == M!Consumed(start, r[i].value)
  <2>1. M!Chained(r, i) = Linked(r[i], start, used)
    BY <1>3 DEF M!Chained, Linked
  <2>2. start \in Nat
    BY <1>1, <1>2 DEF M!Amount
  <2>3. start \in M!Amount /\ used \in M!Amount
    <3> HIDE DEF start
    <3>1. QED BY <1>1, <2>2 DEF M!Amount, M!Consumed
  <2> HIDE DEF start, used
  <2>4. QED BY <1>1, <1>3, <2>1, <2>2, <2>3, RowLinked
<1>4. CASE M!Before(r, i) # {}
  <2> DEFINE from == r[M!LastOf(r, M!Before(r, i))].value
             used == IF r[i].value < from THEN None ELSE r[i].value - from
  <2>1. M!Chained(r, i) = Linked(r[i], from, used)
    BY <1>4 DEF M!Chained, Linked
  <2>2. M!Before(r, i) \in SUBSET DOMAIN r
    BY TableRows
  <2>3. M!LastOf(r, M!Before(r, i)) \in DOMAIN r
    BY <1>4, <2>2, LastExists DEF IsLast
  <2>4. from \in Nat
    BY <2>3, TableRows
  <2>5. from \in M!Amount /\ used \in M!Amount
    <3> HIDE DEF from
    <3>1. QED BY <1>1, <2>4 DEF M!Amount
  <2>6. /\ M!Chained(r, i) \in M!Reading
        /\ M!Chained(r, i).prev = from /\ M!Chained(r, i).used = used
        /\ M!Chained(r, i).at = r[i].at /\ M!Chained(r, i).value = r[i].value
        /\ M!Chained(r, i).voided = r[i].voided
        /\ M!Chained(r, i).cycle = r[i].cycle
        /\ M!Chained(r, i).baseline = r[i].baseline
    <3> HIDE DEF from, used
    <3>1. QED BY <1>1, <2>1, <2>5, RowLinked
  <2>7. QED BY <2>4, <2>6
<1>5. QED BY <1>3, <1>4

\* recalculatePointTimeline keeps the readings, and what they show and when.
LEMMA RecalculatedTable ==
  ASSUME NEW r \in Tables, NEW from \in Nat
  PROVE  LET new == M!Recalculated(r, from) IN
         /\ new \in Tables /\ DOMAIN new = DOMAIN r /\ M!Live(new) = M!Live(r)
         /\ \A i \in DOMAIN r :
              /\ new[i] = IF i \in M!Live(r) /\ r[i].at >= from THEN M!Chained(r, i)
                          ELSE r[i]
              /\ new[i].at = r[i].at /\ new[i].value = r[i].value
              /\ new[i].voided = r[i].voided /\ new[i].cycle = r[i].cycle
         /\ \A i \in DOMAIN r : M!Before(new, i) = M!Before(r, i)
<1> DEFINE new == M!Recalculated(r, from)
<1>1. /\ DOMAIN new = DOMAIN r
      /\ new = [i \in DOMAIN r |-> new[i]]
      /\ \A i \in DOMAIN r :
           new[i] = IF i \in M!Live(r) /\ r[i].at >= from THEN M!Chained(r, i) ELSE r[i]
  BY DEF M!Recalculated
<1>2. ASSUME NEW i \in DOMAIN r
      PROVE  /\ new[i] \in M!Reading
             /\ new[i].at = r[i].at /\ new[i].value = r[i].value
             /\ new[i].voided = r[i].voided /\ new[i].cycle = r[i].cycle
  BY <1>1, <1>2, ChainedRow, TableRows
<1> HIDE DEF new
<1>3. new \in [DOMAIN r -> M!Reading] /\ DOMAIN r \in SUBSET ReadingIds
  BY <1>1, <1>2, TableRows
<1>4. new \in Tables
  BY <1>3 DEF Tables
<1>5. M!Live(new) = M!Live(r)
  BY <1>1, <1>2 DEF M!Live
<1>6. ASSUME NEW i \in DOMAIN r PROVE M!Before(new, i) = M!Before(r, i)
  BY <1>1, <1>2, <1>5, TableRows DEF M!Before, M!Precedes
<1>7. QED BY <1>1, <1>2, <1>4, <1>5, <1>6 DEF new

\* After it the chain is right from where it starts, and whole if it was right up
\* to there.
LEMMA RecalculatedIntact ==
  ASSUME NEW r \in Tables, NEW from \in Nat
  PROVE  /\ M!ChainFrom(M!Recalculated(r, from), from)
         /\ (\A i \in M!Live(r) : r[i].at < from => IntactAt(r, i))
              => M!ChainIntact(M!Recalculated(r, from))
<1> DEFINE new == M!Recalculated(r, from)
<1>1. /\ new \in Tables /\ DOMAIN new = DOMAIN r /\ M!Live(new) = M!Live(r)
      /\ \A i \in DOMAIN r :
           /\ new[i] = IF i \in M!Live(r) /\ r[i].at >= from THEN M!Chained(r, i)
                       ELSE r[i]
           /\ new[i].at = r[i].at /\ new[i].value = r[i].value
           /\ M!Before(new, i) = M!Before(r, i)
  BY RecalculatedTable
<1> HIDE DEF new
<1>2. \A i \in M!Live(r) : /\ i \in DOMAIN r /\ r[i].at \in Nat
                           /\ M!Before(r, i) \subseteq DOMAIN r
  BY TableRows
<1>3. ASSUME NEW i \in M!Live(r), r[i].at < from, IntactAt(r, i) PROVE IntactAt(new, i)
  <2>1. new[i] = r[i] /\ IntactAt(r, i)
    BY <1>1, <1>2, <1>3
  <2>2. QED BY <1>1, <1>2, <2>1, IntactSame
<1>4. ASSUME NEW i \in M!Live(r), r[i].at >= from PROVE IntactAt(new, i)
  <2>1. new[i] = M!Chained(r, i)
    BY <1>1, <1>2, <1>4
  <2> SUFFICES ASSUME M!Before(r, i) # {} PROVE IntactAt(new, i)
    BY <1>1, <1>2 DEF IntactAt
  <2>2. /\ M!LastOf(new, M!Before(new, i)) = M!LastOf(r, M!Before(r, i))
        /\ M!LastOf(r, M!Before(r, i)) \in M!Before(r, i)
    BY <1>1, <1>2, LastSame
  <2>3. QED BY <1>1, <1>2, <2>1, <2>2, ChainedRow DEF IntactAt
<1>5. \A i \in M!Live(r) : r[i].at < from \/ r[i].at >= from
  BY <1>2
<1>6. M!ChainFrom(new, from)
  BY <1>1, <1>2, <1>4, IntactFrom
<1>7. (\A i \in M!Live(r) : r[i].at < from => IntactAt(r, i)) => M!ChainIntact(new)
  BY <1>1, <1>3, <1>4, <1>5, IntactEverywhere
<1>8. QED BY <1>6, <1>7 DEF new

\* Readings that are the same up to a date are as right as they were.
LEMMA IntactBelow ==
  ASSUME NEW r \in Tables, NEW s \in Tables, NEW from \in Nat, M!ChainIntact(r),
         \A i \in M!Live(s) : s[i].at < from => i \in M!Live(r) /\ r[i] = s[i],
         \A i \in M!Live(r) : r[i].at < from => i \in M!Live(s) /\ r[i] = s[i]
  PROVE  \A i \in M!Live(s) : s[i].at < from => IntactAt(s, i)
<1> SUFFICES ASSUME NEW i \in M!Live(s), s[i].at < from PROVE IntactAt(s, i)
  OBVIOUS
<1>1. i \in M!Live(r) /\ r[i] = s[i] /\ i \in DOMAIN r \cap DOMAIN s
  BY TableRows
<1>3. ASSUME NEW j \in M!Before(r, i)
      PROVE  j \in M!Before(s, i) /\ r[j] = s[j]
  <2>1. j \in M!Live(r) /\ M!Precedes(r, j, i) /\ j \in DOMAIN r
    BY TableRows DEF M!Before
  <2>2. r[j].at <= r[i].at /\ r[j].at \in Nat /\ r[i].at \in Nat
    BY <1>1, <2>1, InOrder, TableRows
  <2>3. j \in M!Live(s) /\ r[j] = s[j]
    BY <1>1, <2>1, <2>2
  <2>4. M!Precedes(s, j, i)
    BY <1>1, <2>1, <2>3 DEF M!Precedes
  <2>5. QED BY <2>3, <2>4 DEF M!Before
<1>4. ASSUME NEW j \in M!Before(s, i)
      PROVE  j \in M!Before(r, i)
  <2>1. j \in M!Live(s) /\ M!Precedes(s, j, i) /\ j \in DOMAIN s
    BY TableRows DEF M!Before
  <2>2. s[j].at <= s[i].at /\ s[j].at \in Nat /\ s[i].at \in Nat
    BY <1>1, <2>1, InOrder, TableRows
  <2>3. j \in M!Live(r) /\ r[j] = s[j]
    BY <2>1, <2>2
  <2>4. M!Precedes(r, j, i)
    BY <1>1, <2>1, <2>3 DEF M!Precedes
  <2>5. QED BY <2>3, <2>4 DEF M!Before
<1>5. M!Before(r, i) = M!Before(s, i)
  BY <1>3, <1>4
<1>6. IntactAt(r, i)
  BY <1>1, IntactEverywhere
<1>7. QED BY <1>1, <1>3, <1>5, <1>6, IntactSame

\* A table with one row written.
LEMMA PutTable ==
  ASSUME NEW r \in Tables, NEW i \in ReadingIds, NEW row \in M!Reading
  PROVE  LET new == M!Put(r, i, row) IN
         /\ new \in Tables /\ DOMAIN new = DOMAIN r \cup {i} /\ new[i] = row
         /\ \A j \in DOMAIN r \ {i} : new[j] = r[j]
         /\ i \in DOMAIN r => new = [r EXCEPT ![i] = row]
<1> DEFINE new == M!Put(r, i, row)
<1>1. /\ DOMAIN r \subseteq ReadingIds /\ r = [j \in DOMAIN r |-> r[j]]
      /\ \A j \in DOMAIN r : r[j] \in M!Reading
  BY TableRows
<1>2. /\ DOMAIN new = DOMAIN r \cup {i} /\ new[i] = row
      /\ \A j \in DOMAIN r \ {i} : new[j] = r[j]
      /\ new = [j \in DOMAIN r \cup {i} |-> new[j]]
  BY DEF M!Put
<1>3. i \in DOMAIN r => new = [r EXCEPT ![i] = row]
  BY <1>1 DEF M!Put
<1> HIDE DEF new
<1>4. new \in [DOMAIN r \cup {i} -> M!Reading] /\ DOMAIN r \cup {i} \in SUBSET ReadingIds
  BY <1>1, <1>2
<1>5. new \in Tables
  BY <1>4 DEF Tables
<1>6. QED BY <1>2, <1>3, <1>5 DEF new

\* The end of a transaction.
LEMMA RecalculateEnds ==
  ASSUME last \in Nat, NEW r \in Tables, NEW from \in Nat, M!Recalculate(r, from)
  PROVE  /\ readings' \in Tables /\ DOMAIN readings' = DOMAIN r /\ last' \in Nat
         /\ (\A i \in M!Live(r) : r[i].at < from => IntactAt(r, i))
              => M!ChainIntact(readings')
         /\ (M!Live(r) # {} => \/ \E i \in M!Live(r) : r[i].at >= from
                              \/ last = r[M!LastOf(r, M!Live(r))].value)
              => M!ShowsLatest'
         /\ M!ChainFrom(readings', from)
         /\ (\E i \in M!Live(readings') : readings'[i].at >= from)
              => \E i \in M!Live(r) : r[i].at >= from
<1>1. PICK new : new = M!Recalculated(r, from)
  OBVIOUS
<1>2. readings' = new /\ last' = M!ShownAfter(r, from)
  BY <1>1 DEF M!Recalculate
<1>3. /\ new \in Tables /\ DOMAIN new = DOMAIN r /\ M!Live(new) = M!Live(r)
      /\ \A i \in DOMAIN r : new[i].at = r[i].at /\ new[i].value = r[i].value
  BY <1>1, RecalculatedTable
<1>4. M!Live(r) \in SUBSET (DOMAIN r \cap DOMAIN new)
  BY <1>3, TableRows
<1>5. M!Live(r) # {} =>
        /\ M!LastOf(new, M!Live(r)) = M!LastOf(r, M!Live(r))
        /\ M!LastOf(r, M!Live(r)) \in M!Live(r)
  BY <1>3, <1>4, LastSame
<1>6. M!Live(r) # {} => r[M!LastOf(r, M!Live(r))].value \in Nat
  BY <1>4, <1>5, TableRows
<1>7. last' \in Nat
  BY <1>2, <1>6 DEF M!ShownAfter
<1>8. ASSUME M!Live(r) # {} => \/ \E i \in M!Live(r) : r[i].at >= from
                             \/ last = r[M!LastOf(r, M!Live(r))].value
      PROVE  M!ShowsLatest'
  <2>1. M!Live(r) # {} => last' = r[M!LastOf(r, M!Live(r))].value
    BY <1>2, <1>8 DEF M!ShownAfter
  <2>2. M!Live(r) # {} => last' = new[M!LastOf(new, M!Live(new))].value
    BY <1>3, <1>4, <1>5, <2>1
  <2>3. QED BY <1>2, <1>3, <2>2 DEF M!ShowsLatest
<1>9. (\E i \in M!Live(readings') : readings'[i].at >= from)
         => \E i \in M!Live(r) : r[i].at >= from
  BY <1>2, <1>3, <1>4
<1>10. QED BY <1>1, <1>2, <1>3, <1>7, <1>8, <1>9, RecalculatedIntact
-----------------------------------------------------------------------------
(* Meters: the calls under way.                                            *)

\* What a call keeps of the readings that it saw: readings are never deleted.
BaselineRight(t, ids) ==
  t.do = "baseline" /\ t.value \in Nat /\ t.fresh \in BOOLEAN /\ (t.idle => t.id \in ids)

TaskRight(t, ids) ==
  \/ t.do = "void" /\ t.id \in ids /\ t.row.at \in M!Times
  \/ /\ t.do = "update" /\ t.id \in ids /\ t.row.at \in M!Times
     /\ t.value \in Nat /\ t.at \in M!Times
  \/ t.do = "record" /\ t.value \in Nat /\ t.prev \in Nat
  \/ t.do = "show" /\ t.value \in Nat /\ (t.then = None \/ BaselineRight(t.then, ids))
  \/ BaselineRight(t, ids)
  \/ t.do = "period" /\ t.value \in Nat /\ t.current \in Nat /\ t.starts \subseteq ids
  \/ t.do = "current" /\ t.value \in Nat /\ t.current \in Nat /\ t.ids \subseteq ids
  \/ /\ t.do = "recalculate" /\ t.rows \in Tables /\ M!Live(t.rows) # {}
     /\ DOMAIN t.rows \subseteq ids /\ t.shown \in Nat

MeterInv ==
  /\ readings \in Tables /\ last \in Nat /\ now \in M!Times /\ mended \in M!Times
  /\ made \in 0..MaxMeterCalls
  /\ \A t \in going : TaskRight(t, DOMAIN readings)

LEMMA TaskStays ==
  ASSUME NEW t, NEW ids, NEW more, ids \subseteq more, TaskRight(t, ids)
  PROVE  TaskRight(t, more)
  BY DEF TaskRight, BaselineRight

\* What a call keeps, and what it leaves for the next.
LEMMA MeterStep ==
  ASSUME MeterInv, readings' \in Tables, DOMAIN readings \subseteq DOMAIN readings',
         last' \in Nat, now' \in M!Times, mended' \in M!Times,
         made' \in 0..MaxMeterCalls,
         \A t \in going' : t \in going \/ TaskRight(t, DOMAIN readings')
  PROVE  MeterInv'
<1>1. \A t \in going' : TaskRight(t, DOMAIN readings')
  BY TaskStays DEF MeterInv
<1>2. \A t \in going' : TaskRight(t, DOMAIN readings)'
  BY <1>1 DEF TaskRight, BaselineRight
<1>3. QED BY <1>2 DEF MeterInv

LEMMA MeterTypes == MeterInv => M!TypeOK
<1> SUFFICES ASSUME MeterInv PROVE M!TypeOK
  OBVIOUS
<1>1. readings \in [DOMAIN readings -> M!Reading] /\ DOMAIN readings \subseteq ReadingIds
  BY DEF MeterInv, Tables
<1>2. QED BY <1>1 DEF MeterInv, M!TypeOK

\* A call of a client.
LEMMA CallCounts ==
  ASSUME MeterInv, NEW handler, M!Call(handler)
  PROVE  made' \in 0..MaxMeterCalls
  BY RecordConstants DEF M!Call, MeterInv

\* A step that changes no reading.
LEMMA MeterLooks ==
  ASSUME MeterInv, NEW task, TaskRight(task, DOMAIN readings), M!Begin(task),
         made' \in 0..MaxMeterCalls, UNCHANGED <<readings, last, now, mended>>
  PROVE  MeterInv' /\ M!KeepsChain /\ M!KeepsShown
<1>1. going' = going \cup {task}
  BY DEF M!Begin
<1>2. MeterInv'
  <2>1. \A t \in going' : t \in going \/ TaskRight(t, DOMAIN readings')
    BY <1>1
  <2>2. /\ readings' \in Tables /\ DOMAIN readings \subseteq DOMAIN readings'
        /\ last' \in Nat /\ now' \in M!Times /\ mended' \in M!Times
    BY DEF MeterInv
  <2>3. QED BY <2>1, <2>2, MeterStep
<1>3. M!KeepsChain
  <2> SUFFICES ASSUME M!ChainIntact(readings)
               PROVE  M!ChainFrom(readings', mended') /\ M!ChainIntact(readings')
    BY DEF M!KeepsChain
  <2>1. readings \in Tables
    BY DEF MeterInv
  <2>2. M!ChainFrom(readings, mended)
    BY <2>1, IntactEverywhere, IntactFrom
  <2>3. QED BY <2>2
<1>4. M!KeepsShown
  <2>1. M!ShowsLatest' <=> M!ShowsLatest
    BY DEF M!ShowsLatest
  <2>2. QED BY <2>1 DEF M!KeepsShown
<1>5. QED BY <1>2, <1>3, <1>4

LEMMA LookSteps ==
  ASSUME MeterInv,
         \/ \E i \in DOMAIN readings : M!voidReading(i) \/ M!updateReading(i)
         \/ M!recalculateReadings
  PROVE  MeterInv' /\ M!KeepsChain /\ M!KeepsShown
<1>1. ASSUME NEW i \in DOMAIN readings, M!voidReading(i)
      PROVE  MeterInv' /\ M!KeepsChain /\ M!KeepsShown
  <2>1. PICK task : task = [do |-> "void", id |-> i, row |-> readings[i]]
    OBVIOUS
  <2>2. /\ M!Begin(task) /\ M!Call("voidReading")
        /\ UNCHANGED <<readings, last, now, mended>>
    BY <1>1, <2>1 DEF M!voidReading
  <2>3. TaskRight(task, DOMAIN readings)
    BY <2>1, TableRows DEF TaskRight, MeterInv
  <2>4. QED BY <2>2, <2>3, CallCounts, MeterLooks
<1>2. ASSUME NEW i \in DOMAIN readings, M!updateReading(i)
      PROVE  MeterInv' /\ M!KeepsChain /\ M!KeepsShown
  <2>1. PICK value \in ReadingValues, at \in M!Times :
          M!Begin([do |-> "update", id |-> i, row |-> readings[i],
                   value |-> value, at |-> at])
    BY <1>2 DEF M!updateReading
  <2>2. PICK task : task = [do |-> "update", id |-> i, row |-> readings[i],
                            value |-> value, at |-> at]
    OBVIOUS
  <2>3. /\ M!Begin(task) /\ M!Call("updateReading")
        /\ UNCHANGED <<readings, last, now, mended>>
    BY <1>2, <2>1, <2>2 DEF M!updateReading
  <2>4. TaskRight(task, DOMAIN readings)
    BY <2>2, TableRows, RecordConstants DEF TaskRight, MeterInv
  <2>5. QED BY <2>3, <2>4, CallCounts, MeterLooks
<1>3. ASSUME M!recalculateReadings
      PROVE  MeterInv' /\ M!KeepsChain /\ M!KeepsShown
  <2>1. PICK task : task = [do |-> "recalculate", rows |-> readings, shown |-> last]
    OBVIOUS
  <2>2. /\ M!Begin(task) /\ M!Call("recalculateReadings") /\ M!Live(readings) # {}
        /\ UNCHANGED <<readings, last, now, mended>>
    BY <1>3, <2>1 DEF M!recalculateReadings
  <2>3. TaskRight(task, DOMAIN readings)
    BY <2>1, <2>2 DEF TaskRight, MeterInv
  <2>4. QED BY <2>2, <2>3, CallCounts, MeterLooks
<1>4. QED BY <1>1, <1>2, <1>3

LEMMA LookAndAsk ==
  ASSUME MeterInv, NEW value \in ReadingValues,
         \/ M!recordReading(value) \/ M!setBaselineReading(value)
         \/ M!setPeriodBaseline(value)
  PROVE  MeterInv' /\ M!KeepsChain /\ M!KeepsShown
<1>1. value \in Nat /\ last \in Nat /\ \A v \in ReadingValues : v \in Nat
  BY RecordConstants DEF MeterInv
<1>2. CASE M!recordReading(value)
  <2> DEFINE live == M!Newest(M!Live(readings))
  <2>1. PICK prev \in IF live = {} THEN {last} ELSE {readings[i].value : i \in live} :
          M!Begin([do |-> "record", value |-> value, prev |-> prev])
    BY <1>2 DEF M!recordReading
  <2>2. \A i \in live : readings[i].value \in Nat
    BY TableRows DEF MeterInv, M!Newest
  <2>3. prev \in Nat
    BY <1>1, <2>1, <2>2
  <2>4. PICK task : task = [do |-> "record", value |-> value, prev |-> prev]
    OBVIOUS
  <2>5. /\ M!Begin(task) /\ M!Call("recordReading")
        /\ UNCHANGED <<readings, last, now, mended>>
    BY <1>2, <2>1, <2>4 DEF M!recordReading
  <2>6. TaskRight(task, DOMAIN readings)
    BY <1>1, <2>3, <2>4 DEF TaskRight
  <2>7. QED BY <2>5, <2>6, CallCounts, MeterLooks
<1>3. CASE M!setBaselineReading(value)
  <2> DEFINE newest == M!Newest(DOMAIN readings)
  <2>1. PICK i \in IF newest = {} THEN {None} ELSE newest :
          M!Begin(M!Show([do |-> "baseline", value |-> value, id |-> i,
                          fresh |-> i = None,
                          idle |-> i # None /\ readings[i].used = 0], value))
    BY <1>3 DEF M!setBaselineReading
  <2>2. PICK next : next = [do |-> "baseline", value |-> value, id |-> i,
                            fresh |-> i = None,
                            idle |-> i # None /\ readings[i].used = 0]
    OBVIOUS
  <2>3. PICK task : task = M!Show(next, value)
    OBVIOUS
  <2>4. /\ M!Begin(task) /\ M!Call("setBaselineReading")
        /\ UNCHANGED <<readings, last, now, mended>>
    BY <1>3, <2>1, <2>2, <2>3 DEF M!setBaselineReading
  <2>5. next.idle => next.id \in DOMAIN readings
    BY <2>1, <2>2 DEF M!Newest
  <2>6. BaselineRight(next, DOMAIN readings)
    BY <1>1, <2>2, <2>5 DEF BaselineRight
  <2>7. TaskRight(task, DOMAIN readings)
    BY <1>1, <2>3, <2>6 DEF TaskRight, M!Show
  <2>8. QED BY <2>4, <2>7, CallCounts, MeterLooks
<1>4. CASE M!setPeriodBaseline(value)
  <2>1. PICK current \in ReadingValues \cup {None} :
          M!Begin([do |-> "period", value |-> value,
                   current |-> IF current # None THEN current
                               ELSE IF last > value THEN last ELSE value,
                   starts |-> {i \in DOMAIN readings : readings[i].at = 0}])
    BY <1>4 DEF M!setPeriodBaseline
  <2>2. PICK task : task = [do |-> "period", value |-> value,
                   current |-> IF current # None THEN current
                               ELSE IF last > value THEN last ELSE value,
                   starts |-> {i \in DOMAIN readings : readings[i].at = 0}]
    OBVIOUS
  <2>3. /\ M!Begin(task) /\ M!Call("setPeriodBaseline")
        /\ UNCHANGED <<readings, last, now, mended>>
    BY <1>4, <2>1, <2>2 DEF M!setPeriodBaseline
  <2>4. task.current \in Nat
    BY <1>1, <2>1, <2>2
  <2>5. TaskRight(task, DOMAIN readings)
    BY <1>1, <2>2, <2>4 DEF TaskRight
  <2>6. QED BY <2>3, <2>5, CallCounts, MeterLooks
<1>5. QED BY <1>2, <1>3, <1>4

\* A step of a call under way ends it, or leaves another.
LEMMA StepOf ==
  ASSUME NEW t \in going, M!End(t) \/ \E next : M!Continue(t, next) /\ next # t
  PROVE  going' # going /\ going \ going' = {t}
  BY DEF M!End, M!Continue

LEMMA MeterOwn ==
  ASSUME NEW t \in going, going' # going, going \ going' \subseteq {t}
  PROVE  /\ M!KeepsChain <=> (M!ChainIntact(readings) /\ t \notin going' /\ M!Current(t)
                                => M!ChainIntact(readings'))
         /\ t.do \notin {"void", "update"} => M!KeepsShown
         /\ t.do \notin {"void", "update", "record"} => M!KeepsChain
  BY DEF M!KeepsChain, M!KeepsShown, M!Current

\* What void and update do to the row that they looked at.
VoidedRow(row) == [row EXCEPT !.voided = TRUE]

LEMMA RowVoided ==
  ASSUME NEW row \in M!Reading
  PROVE  /\ VoidedRow(row) \in M!Reading /\ VoidedRow(row).voided
         /\ VoidedRow(row).at = row.at
  BY DEF M!Reading, VoidedRow

SetRow(row, value, at) == [row EXCEPT !.value = value, !.at = at]

LEMMA RowSet ==
  ASSUME NEW row \in M!Reading, NEW value \in Nat, NEW at \in M!Times
  PROVE  /\ SetRow(row, value, at) \in M!Reading /\ SetRow(row, value, at).at = at
         /\ SetRow(row, value, at).voided = row.voided
  BY DEF M!Reading, SetRow

LEMMA VoidKeeps ==
  ASSUME MeterInv, NEW t \in going, M!Void(t)
  PROVE  MeterInv' /\ M!KeepsChain /\ M!KeepsShown
<1>1. /\ t.do = "void" /\ M!End(t) /\ UNCHANGED <<now, mended, made>>
      /\ M!Recalculate([readings EXCEPT ![t.id].voided = TRUE], t.row.at)
  BY DEF M!Void
<1>2. /\ readings \in Tables /\ last \in Nat /\ t.id \in DOMAIN readings
      /\ t.row.at \in M!Times /\ t.row.at \in Nat
  BY <1>1, RecordConstants DEF MeterInv, TaskRight, BaselineRight, M!Times
<1>3. PICK s, i, from, row :
        /\ s = readings /\ i = t.id /\ from = t.row.at /\ row = VoidedRow(readings[i])
  OBVIOUS
<1>4. /\ i \in DOMAIN s /\ i \in ReadingIds /\ s[i] \in M!Reading /\ from \in Nat
      /\ row \in M!Reading /\ row.voided /\ row.at = s[i].at
  BY <1>2, <1>3, TableRows, RowVoided
<1>5. PICK r : r = M!Put(s, i, row)
  OBVIOUS
<1>6. /\ r \in Tables /\ DOMAIN r = DOMAIN s /\ r[i] = row
      /\ \A j \in DOMAIN s \ {i} : r[j] = s[j]
      /\ r = [s EXCEPT ![i] = row]
  BY <1>2, <1>3, <1>4, <1>5, PutTable
<1>7. M!Recalculate(r, from)
  <2>1. [readings EXCEPT ![t.id].voided = TRUE] = r
    BY <1>3, <1>6 DEF VoidedRow
  <2>2. QED BY <1>1, <1>3, <2>1
<1>8. M!Live(r) = M!Live(s) \ {i}
  BY <1>4, <1>6 DEF M!Live
<1>9. /\ readings' \in Tables /\ DOMAIN readings' = DOMAIN r /\ last' \in Nat
      /\ (\A j \in M!Live(r) : r[j].at < from => IntactAt(r, j)) => M!ChainIntact(readings')
      /\ (M!Live(r) # {} => \/ \E j \in M!Live(r) : r[j].at >= from
                           \/ last = r[M!LastOf(r, M!Live(r))].value) => M!ShowsLatest'
  BY <1>2, <1>4, <1>6, <1>7, RecalculateEnds
<1>10. MeterInv'
  <2>1. \A u \in going' : u \in going
    BY <1>1 DEF M!End
  <2>2. now' \in M!Times /\ mended' \in M!Times /\ made' \in 0..MaxMeterCalls
    BY <1>1 DEF MeterInv
  <2>3. QED BY <1>3, <1>6, <1>9, <2>1, <2>2, MeterStep
<1>11. going' # going /\ going \ going' = {t}
  BY <1>1, StepOf
<1>12. M!KeepsChain
  <2> SUFFICES ASSUME M!ChainIntact(readings), M!Current(t) PROVE M!ChainIntact(readings')
    BY <1>11, MeterOwn
  <2>1. s[i].at = from
    BY <1>1, <1>3 DEF M!Current
  <2>2. \A j \in M!Live(r) : r[j].at < from => j \in M!Live(s) /\ s[j] = r[j]
    BY <1>6, <1>8, TableRows
  <2>3. \A j \in M!Live(s) : s[j].at < from => j \in M!Live(r) /\ s[j] = r[j]
    <3> SUFFICES ASSUME NEW j \in M!Live(s), s[j].at < from
                 PROVE  j \in M!Live(r) /\ s[j] = r[j]
      OBVIOUS
    <3>1. j # i
      BY <1>4, <2>1
    <3>2. j \in DOMAIN s
      BY <1>2, <1>3, TableRows
    <3>3. QED BY <1>6, <1>8, <3>1, <3>2
  <2>4. s \in Tables /\ M!ChainIntact(s)
    BY <1>2, <1>3
  <2>5. \A j \in M!Live(r) : r[j].at < from => IntactAt(r, j)
    BY <1>4, <1>6, <2>2, <2>3, <2>4, IntactBelow
  <2>6. QED BY <1>9, <2>5
<1>13. M!KeepsShown
  <2> SUFFICES ASSUME NEW j \in M!Live(readings) \ {t.id}, readings[j].at >= t.row.at
               PROVE  M!ShowsLatest'
    BY <1>1, <1>11 DEF M!KeepsShown
  <2>1. j \in M!Live(r) /\ r[j].at >= from
    BY <1>2, <1>3, <1>6, <1>8, TableRows
  <2>2. QED BY <1>9, <2>1
<1>14. QED BY <1>10, <1>12, <1>13

LEMMA UpdateKeeps ==
  ASSUME MeterInv, NEW t \in going, M!Update(t)
  PROVE  MeterInv' /\ M!KeepsChain /\ M!KeepsShown
<1>1. /\ t.do = "update" /\ M!End(t) /\ UNCHANGED <<now, mended, made>>
      /\ M!Recalculate([readings EXCEPT ![t.id].value = t.value, ![t.id].at = t.at],
                       M!Affected(t))
  BY DEF M!Update
<1>2. /\ readings \in Tables /\ last \in Nat /\ t.id \in DOMAIN readings
      /\ t.row.at \in Nat /\ t.value \in Nat /\ t.at \in M!Times /\ t.at \in Nat
  BY <1>1, RecordConstants DEF MeterInv, TaskRight, BaselineRight, M!Times
<1>3. PICK s, i, from, row :
        /\ s = readings /\ i = t.id /\ from = M!Affected(t)
        /\ row = SetRow(readings[i], t.value, t.at)
  OBVIOUS
<1>4. /\ s \in Tables /\ i \in DOMAIN s /\ i \in ReadingIds /\ s[i] \in M!Reading
      /\ from \in Nat /\ from <= t.at /\ from <= t.row.at
      /\ row \in M!Reading /\ row.at = t.at /\ row.voided = s[i].voided
  BY <1>2, <1>3, TableRows, RowSet DEF M!Affected, M!Earlier
<1>5. PICK r : r = M!Put(s, i, row)
  OBVIOUS
<1>6. /\ r \in Tables /\ DOMAIN r = DOMAIN s /\ r[i] = row
      /\ \A j \in DOMAIN s \ {i} : r[j] = s[j]
      /\ r = [s EXCEPT ![i] = row]
  BY <1>4, <1>5, PutTable
<1>7. M!Recalculate(r, from)
  <2>1. [readings EXCEPT ![t.id].value = t.value, ![t.id].at = t.at] = r
    <3>1. readings = [j \in DOMAIN readings |-> readings[j]]
      BY <1>2, TableRows
    <3>2. QED BY <1>2, <1>3, <1>6, <3>1 DEF SetRow
  <2>2. QED BY <1>1, <1>3, <2>1
<1>8. M!Live(r) = M!Live(s)
  BY <1>4, <1>6 DEF M!Live
<1>9. /\ readings' \in Tables /\ DOMAIN readings' = DOMAIN r /\ last' \in Nat
      /\ (\A j \in M!Live(r) : r[j].at < from => IntactAt(r, j)) => M!ChainIntact(readings')
      /\ (M!Live(r) # {} => \/ \E j \in M!Live(r) : r[j].at >= from
                           \/ last = r[M!LastOf(r, M!Live(r))].value) => M!ShowsLatest'
  BY <1>2, <1>4, <1>6, <1>7, RecalculateEnds
<1>10. MeterInv'
  <2>1. \A u \in going' : u \in going
    BY <1>1 DEF M!End
  <2>2. now' \in M!Times /\ mended' \in M!Times /\ made' \in 0..MaxMeterCalls
    BY <1>1 DEF MeterInv
  <2>3. QED BY <1>3, <1>6, <1>9, <2>1, <2>2, MeterStep
<1>11. going' # going /\ going \ going' = {t}
  BY <1>1, StepOf
<1>12. M!KeepsChain
  <2> SUFFICES ASSUME M!ChainIntact(readings), M!Current(t) PROVE M!ChainIntact(readings')
    BY <1>11, MeterOwn
  <2>1. s[i].at = t.row.at
    BY <1>1, <1>3 DEF M!Current
  <2>2. ASSUME NEW j \in M!Live(r), r[j].at < from
        PROVE  j \in M!Live(s) /\ s[j] = r[j]
    <3>1. j # i
      BY <1>2, <1>4, <1>6, <2>2
    <3>2. j \in DOMAIN s
      BY <1>6, TableRows
    <3>3. QED BY <1>6, <1>8, <3>1, <3>2
  <2>3. ASSUME NEW j \in M!Live(s), s[j].at < from
        PROVE  j \in M!Live(r) /\ s[j] = r[j]
    <3>1. j # i
      BY <1>2, <1>4, <2>1, <2>3
    <3>2. j \in DOMAIN s
      BY <1>2, <1>3, TableRows
    <3>3. QED BY <1>6, <1>8, <3>1, <3>2
  <2>4. s \in Tables /\ M!ChainIntact(s)
    BY <1>2, <1>3
  <2>5. \A j \in M!Live(r) : r[j].at < from => IntactAt(r, j)
    BY <1>4, <1>6, <2>2, <2>3, <2>4, IntactBelow
  <2>6. QED BY <1>9, <2>5
<1>13. M!KeepsShown
  <2> SUFFICES ASSUME M!ShowsLatest PROVE M!ShowsLatest'
    BY DEF M!KeepsShown
  <2>1. CASE i \in M!Live(r)
    <3>1. r[i].at >= from
      BY <1>2, <1>4, <1>6
    <3>2. QED BY <1>9, <2>1, <3>1
  <2>2. CASE i \notin M!Live(r)
    <3>1. M!Live(r) \in SUBSET (DOMAIN s \cap DOMAIN r)
      BY <1>6, TableRows
    <3>2. \A j \in M!Live(r) : r[j] = s[j]
      BY <1>6, <2>2, <3>1
    <3> DEFINE S == M!Live(r)
    <3>3. S # {} => M!LastOf(s, S) = M!LastOf(r, S) /\ M!LastOf(s, S) \in S
      <4>1. S \in SUBSET (DOMAIN s \cap DOMAIN r) /\ \A j \in S : s[j].at = r[j].at
        BY <3>1, <3>2
      <4>2. s \in Tables /\ r \in Tables
        BY <1>4, <1>6
      <4> HIDE DEF S
      <4>3. QED BY <4>1, <4>2, LastSame
    <3>4. M!Live(r) # {} => last = r[M!LastOf(r, M!Live(r))].value
      BY <1>3, <1>8, <3>2, <3>3 DEF M!ShowsLatest
    <3>5. QED BY <1>9, <3>4
  <2>3. QED BY <2>1, <2>2
<1>14. QED BY <1>10, <1>12, <1>13

\* A step of a call that neither voids, nor updates, nor records.
LEMMA MeterGoesOn ==
  ASSUME MeterInv, NEW t \in going, t.do \notin {"void", "update", "record"},
         readings' \in Tables, DOMAIN readings \subseteq DOMAIN readings', last' \in Nat,
         UNCHANGED <<now, mended, made>>,
         \/ M!End(t)
         \/ \E next : M!Continue(t, next) /\ next # t
                      /\ TaskRight(next, DOMAIN readings')
  PROVE  MeterInv' /\ M!KeepsChain /\ M!KeepsShown
<1>1. going' # going /\ going \ going' = {t}
  BY StepOf
<1>2. \A u \in going' : u \in going \/ TaskRight(u, DOMAIN readings')
  BY DEF M!End, M!Continue
<1>3. now' \in M!Times /\ mended' \in M!Times /\ made' \in 0..MaxMeterCalls
  BY DEF MeterInv
<1>4. MeterInv'
  BY <1>2, <1>3, MeterStep
<1>5. QED BY <1>1, <1>4, MeterOwn

LEMMA NewRow ==
  ASSUME NEW at \in M!Times, NEW value \in Nat, NEW prev \in M!Amount,
         NEW used \in M!Amount, NEW cycle \in M!Times \cup {None},
         NEW baseline \in BOOLEAN
  PROVE  LET row == M!NewReading(at, value, prev, used, cycle, baseline) IN
         /\ row \in M!Reading /\ row.at = at /\ row.value = value /\ row.prev = prev
         /\ row.used = used /\ row.cycle = cycle /\ ~row.voided
  BY DEF M!NewReading, M!Reading

LEMMA ShowRight ==
  ASSUME NEW value \in Nat, NEW ids
  PROVE  /\ TaskRight(M!Show(None, value), ids)
         /\ M!Show(None, value).do = "show"
  BY DEF TaskRight, M!Show

\* A reading later than all others, that continues the last of them.
LEMMA AddedLast ==
  ASSUME NEW s \in Tables, NEW id \in ReadingIds \ DOMAIN s, NEW row \in M!Reading,
         ~row.voided, M!Live(s) # {}, \A i \in M!Live(s) : s[i].at < row.at,
         row.prev = s[M!LastOf(s, M!Live(s))].value,
         row.value >= row.prev, row.used = row.value - row.prev,
         M!ChainIntact(s)
  PROVE  M!ChainIntact(M!Put(s, id, row))
<1> DEFINE r == M!Put(s, id, row)
<1>1. /\ r \in Tables /\ DOMAIN r = DOMAIN s \cup {id} /\ r[id] = row
      /\ \A j \in DOMAIN s : r[j] = s[j]
  BY PutTable
<1> HIDE DEF r
<1>2. /\ M!Live(s) \subseteq DOMAIN s /\ row.at \in Nat /\ row.value \in Nat
      /\ \A i \in DOMAIN s : s[i].at \in Nat
  BY TableRows, RecordConstants DEF M!Reading, M!Times
<1>3. M!Live(r) = M!Live(s) \cup {id}
  BY <1>1 DEF M!Live
<1>4. ASSUME NEW i \in M!Live(s) PROVE M!Precedes(r, i, id) /\ ~M!Precedes(r, id, i)
  <2>1. s[i].at < row.at /\ s[i].at \in Nat /\ r[i] = s[i]
    BY <1>1, <1>2
  <2>2. QED BY <1>1, <1>2, <2>1 DEF M!Precedes
<1>5. M!Before(r, id) = M!Live(s)
  <2>1. ~M!Precedes(r, id, id)
    BY <1>1, <1>2, RecordConstants DEF M!Precedes
  <2>2. QED BY <1>3, <1>4, <2>1 DEF M!Before
<1>6. ASSUME NEW i \in M!Live(s) PROVE M!Before(r, i) = M!Before(s, i)
  <2>1. ASSUME NEW j \in M!Live(s)
        PROVE  M!Precedes(r, j, i) <=> M!Precedes(s, j, i)
    BY <1>1, <1>2 DEF M!Precedes
  <2>2. ~M!Precedes(r, id, i)
    BY <1>4
  <2>3. QED BY <1>3, <2>1, <2>2 DEF M!Before
<1>7. IntactAt(r, id)
  <2> DEFINE S == M!Live(s)
  <2>1. S \in SUBSET (DOMAIN s \cap DOMAIN r) /\ \A i \in S : s[i].at = r[i].at
    BY <1>1, <1>2
  <2>2. S # {} => M!LastOf(s, S) = M!LastOf(r, S) /\ M!LastOf(s, S) \in S
    <3> HIDE DEF S
    <3>1. QED BY <1>1, <2>1, LastSame
  <2>3. r[M!LastOf(r, M!Before(r, id))].value = row.prev
    BY <1>1, <1>2, <1>5, <2>2
  <2>4. row.prev \in Nat
    BY <1>2, <2>2, TableRows
  <2>5. QED BY <1>1, <1>2, <2>3, <2>4 DEF IntactAt
<1>8. ASSUME NEW i \in M!Live(s) PROVE IntactAt(r, i)
  <2>1. IntactAt(s, i)
    BY IntactEverywhere
  <2>2. i \in DOMAIN s \cap DOMAIN r /\ r[i] = s[i] /\ M!Before(s, i) = M!Before(r, i)
    BY <1>1, <1>2, <1>6
  <2>3. \A j \in M!Before(s, i) : r[j] = s[j]
    BY <1>1, TableRows
  <2>4. QED BY <1>1, <2>1, <2>2, <2>3, IntactSame
<1>9. M!ChainIntact(r)
  BY <1>1, <1>3, <1>7, <1>8, IntactEverywhere
<1>10. QED BY <1>9 DEF r

LEMMA Added ==
  ASSUME readings \in Tables, NEW id \in ReadingIds \ DOMAIN readings,
         NEW row \in M!Reading, readings' = M!Put(readings, id, row)
  PROVE  readings' \in Tables /\ DOMAIN readings \subseteq DOMAIN readings'
<1>1. PICK s, r : s = readings /\ r = M!Put(s, id, row)
  OBVIOUS
<1>2. s \in Tables /\ readings' = r
  BY <1>1
<1>3. r \in Tables /\ DOMAIN r = DOMAIN s \cup {id}
  BY <1>1, <1>2, PutTable
<1>4. QED BY <1>1, <1>2, <1>3

LEMMA Rewritten ==
  ASSUME readings \in Tables, NEW i \in DOMAIN readings, NEW row \in M!Reading,
         readings' = [readings EXCEPT ![i] = row]
  PROVE  readings' \in Tables /\ DOMAIN readings' = DOMAIN readings
<1>1. PICK Stored \in SUBSET ReadingIds : readings \in [Stored -> M!Reading]
  BY DEF Tables
<1>2. readings' \in [Stored -> M!Reading]
  BY <1>1
<1>3. QED BY <1>1, <1>2 DEF Tables

LEMMA RecordKeeps ==
  ASSUME MeterInv, NEW t \in going, M!Record(t)
  PROVE  MeterInv' /\ M!KeepsChain /\ M!KeepsShown
<1>1. /\ t.do = "record" /\ M!Continue(t, M!Show(None, t.value))
      /\ UNCHANGED <<last, now, mended, made>>
  BY DEF M!Record
<1>2. /\ readings \in Tables /\ last \in Nat /\ t.value \in Nat /\ t.prev \in Nat
      /\ now \in M!Times
  BY <1>1 DEF MeterInv, TaskRight, BaselineRight
<1>3. PICK id \in ReadingIds \ DOMAIN readings : readings' =
        M!Put(readings, id, M!NewReading(now, t.value, t.prev,
                              M!Consumed(t.prev, t.value), None, FALSE))
  BY DEF M!Record, M!Free
<1>4. PICK row : row = M!NewReading(now, t.value, t.prev, M!Consumed(t.prev, t.value),
                                    None, FALSE)
  OBVIOUS
<1>5. /\ M!Consumed(t.prev, t.value) \in Nat /\ t.prev \in M!Amount
      /\ M!Consumed(t.prev, t.value) \in M!Amount
      /\ t.value >= t.prev => M!Consumed(t.prev, t.value) = t.value - t.prev
  BY <1>2 DEF M!Consumed, M!Amount
<1>6. /\ row \in M!Reading /\ row.at = now /\ row.value = t.value /\ row.prev = t.prev
      /\ row.used = M!Consumed(t.prev, t.value) /\ ~row.voided
  <2>1. None \in M!Times \cup {None} /\ FALSE \in BOOLEAN
    OBVIOUS
  <2>2. PICK used : used = M!Consumed(t.prev, t.value)
    OBVIOUS
  <2>3. used \in M!Amount /\ row = M!NewReading(now, t.value, t.prev, used, None, FALSE)
    BY <1>4, <1>5, <2>2
  <2>4. QED BY <1>2, <1>5, <2>1, <2>2, <2>3 DEF M!NewReading, M!Reading
<1>7. PICK s : s = readings
  OBVIOUS
<1>8. /\ s \in Tables /\ readings' = M!Put(s, id, row) /\ id \in ReadingIds \ DOMAIN s
      /\ id \in ReadingIds
  BY <1>2, <1>3, <1>4, <1>7
<1>9. readings' \in Tables /\ DOMAIN readings \subseteq DOMAIN readings'
  BY <1>2, <1>3, <1>4, <1>6, Added
<1>10. PICK next : next = M!Show(None, t.value)
  OBVIOUS
<1>11. TaskRight(next, DOMAIN readings') /\ next # t /\ M!Continue(t, next)
  BY <1>1, <1>2, <1>10, ShowRight
<1>12. going' # going /\ going \ going' = {t}
  BY <1>11, StepOf
<1>13. MeterInv'
  <2>1. \A u \in going' : u \in going \/ TaskRight(u, DOMAIN readings')
    BY <1>11 DEF M!Continue
  <2>2. /\ last' \in Nat /\ now' \in M!Times /\ mended' \in M!Times
        /\ made' \in 0..MaxMeterCalls
    BY <1>1 DEF MeterInv
  <2>3. QED BY <1>9, <2>1, <2>2, MeterStep
<1>14. M!KeepsChain
  <2> SUFFICES ASSUME M!ChainIntact(readings), M!Current(t) PROVE M!ChainIntact(readings')
    BY <1>12, MeterOwn
  <2>1. /\ M!Live(s) # {} /\ t.prev = s[M!LastOf(s, M!Live(s))].value
        /\ t.value >= t.prev /\ \A i \in M!Live(s) : s[i].at < now
    BY <1>1, <1>7 DEF M!Current
  <2>2. M!ChainIntact(s)
    BY <1>7
  <2>3. M!ChainIntact(M!Put(s, id, row))
    BY <1>5, <1>6, <1>8, <2>1, <2>2, AddedLast
  <2>4. QED BY <1>8, <2>3
<1>15. M!KeepsShown
  BY <1>1, <1>12, MeterOwn
<1>16. QED BY <1>13, <1>14, <1>15

LEMMA BaselineTask ==
  ASSUME NEW t, NEW ids, BaselineRight(t, ids)
  PROVE  TaskRight(t, ids)
  BY DEF TaskRight

LEMMA SetShownKeeps ==
  ASSUME MeterInv, NEW t \in going, M!SetShown(t)
  PROVE  MeterInv' /\ M!KeepsChain /\ M!KeepsShown
<1>1. /\ t.do = "show" /\ last' = t.value /\ UNCHANGED <<readings, now, mended, made>>
      /\ IF t.then = None THEN M!End(t) ELSE M!Continue(t, t.then)
  BY DEF M!SetShown
<1>2. TaskRight(t, DOMAIN readings)
  BY DEF MeterInv
<1>3. t.value \in Nat /\ (t.then = None \/ BaselineRight(t.then, DOMAIN readings))
  BY <1>1, <1>2 DEF TaskRight, BaselineRight
<1>4. t.then = None \/ (TaskRight(t.then, DOMAIN readings) /\ t.then # t)
  <2>1. t.then = None \/ t.then # t
    BY <1>1, <1>3 DEF BaselineRight
  <2>2. PICK next, ids : next = t.then /\ ids = DOMAIN readings
    OBVIOUS
  <2>3. BaselineRight(next, ids) => TaskRight(next, ids)
    BY BaselineTask
  <2>4. BaselineRight(t.then, DOMAIN readings) => TaskRight(t.then, DOMAIN readings)
    BY <2>2, <2>3
  <2>5. QED BY <1>3, <2>1, <2>4
<1>5. readings' \in Tables /\ DOMAIN readings' = DOMAIN readings /\ last' \in Nat
  BY <1>1, <1>3 DEF MeterInv
<1>6. \/ M!End(t)
      \/ \E next : M!Continue(t, next) /\ next # t /\ TaskRight(next, DOMAIN readings')
  BY <1>1, <1>4, <1>5
<1>7. QED BY <1>1, <1>5, <1>6, MeterGoesOn

\* A row set as a baseline, or with what was used since.
BasedRow(row, value, prev, used, baseline) ==
  [row EXCEPT !.value = value, !.prev = prev, !.used = used, !.baseline = baseline]

LEMMA RowBased ==
  ASSUME NEW row \in M!Reading, NEW value \in Nat, NEW prev \in Nat,
         NEW used \in M!Amount, NEW baseline \in BOOLEAN
  PROVE  BasedRow(row, value, prev, used, baseline) \in M!Reading
  BY DEF M!Reading, M!Amount, BasedRow

LEMMA BaselineKeeps ==
  ASSUME MeterInv, NEW t \in going, M!Baseline(t)
  PROVE  MeterInv' /\ M!KeepsChain /\ M!KeepsShown
<1>1. t.do = "baseline" /\ M!End(t) /\ UNCHANGED <<last, now, mended, made>>
  BY DEF M!Baseline
<1>2. /\ readings \in Tables /\ last \in Nat /\ t.value \in Nat /\ t.fresh \in BOOLEAN
      /\ now \in M!Times /\ (t.idle => t.id \in DOMAIN readings)
  BY <1>1 DEF MeterInv, TaskRight, BaselineRight
<1>3. PICK s, i, row : /\ s = readings /\ i = t.id
                       /\ row = BasedRow(readings[i], t.value, t.value, readings[i].used, TRUE)
  OBVIOUS
<1>4. readings' \in Tables /\ DOMAIN readings \subseteq DOMAIN readings'
  <2>1. CASE t.idle
    <3>1. i \in DOMAIN s /\ i \in ReadingIds /\ s \in Tables /\ s[i] \in M!Reading
      BY <1>2, <1>3, <2>1, TableRows
    <3>2. row \in M!Reading
      <4>1. s[i].used \in M!Amount
        BY <3>1 DEF M!Reading
      <4>2. QED BY <1>2, <1>3, <3>1, <4>1, RowBased
    <3>3. readings' = [readings EXCEPT ![i] = row]
      <4>1. row = [s[i] EXCEPT !.value = t.value, !.prev = t.value, !.baseline = TRUE]
        BY <1>3, <3>1 DEF BasedRow, M!Reading
      <4>2. readings' = [s EXCEPT ![i].value = t.value, ![i].prev = t.value,
                                  ![i].baseline = TRUE]
        BY <1>3, <2>1 DEF M!Baseline
      <4>3. s = [j \in DOMAIN s |-> s[j]]
        BY <3>1, TableRows
      <4>4. QED BY <1>3, <3>1, <4>1, <4>2, <4>3
    <3>4. QED BY <1>2, <1>3, <3>1, <3>2, <3>3, Rewritten
  <2>2. CASE ~t.idle
    <3>1. PICK id \in ReadingIds \ DOMAIN readings : readings' =
            M!Put(readings, id, M!NewReading(now, t.value, t.value, 0, None, t.fresh))
      BY <2>2 DEF M!Baseline, M!Free
    <3>2. PICK new : new = M!NewReading(now, t.value, t.value, 0, None, t.fresh)
      OBVIOUS
    <3>3. new \in M!Reading
      BY <1>2, <3>2, NewRow DEF M!Amount
    <3>4. QED BY <1>2, <3>1, <3>2, <3>3, Added
  <2>3. QED BY <2>1, <2>2
<1>5. last' \in Nat
  BY <1>1, <1>2
<1>6. QED BY <1>1, <1>4, <1>5, MeterGoesOn

LEMMA PeriodStartKeeps ==
  ASSUME MeterInv, NEW t \in going, M!PeriodStart(t)
  PROVE  MeterInv' /\ M!KeepsChain /\ M!KeepsShown
<1>1. t.do = "period" /\ UNCHANGED <<last, now, mended, made>>
  BY DEF M!PeriodStart
<1>2. /\ readings \in Tables /\ last \in Nat /\ t.value \in Nat /\ t.current \in Nat
      /\ t.starts \subseteq DOMAIN readings /\ 0 \in M!Times
  BY <1>1, RecordConstants DEF MeterInv, TaskRight, BaselineRight, M!Times
<1>3. readings' \in Tables /\ DOMAIN readings \subseteq DOMAIN readings'
  <2>1. CASE t.starts # {}
    <3>1. PICK i \in t.starts : readings' =
            [readings EXCEPT ![i].value = t.value, ![i].prev = t.value,
                             ![i].used = 0, ![i].baseline = TRUE]
      BY <2>1 DEF M!PeriodStart
    <3>2. PICK row : row = BasedRow(readings[i], t.value, t.value, 0, TRUE)
      OBVIOUS
    <3>3. i \in DOMAIN readings /\ readings[i] \in M!Reading
      BY <1>2, <3>1, TableRows
    <3>4. row \in M!Reading
      BY <1>2, <3>2, <3>3, RowBased DEF M!Amount
    <3>5. readings' = [readings EXCEPT ![i] = row]
      <4>1. readings = [j \in DOMAIN readings |-> readings[j]]
        BY <1>2, TableRows
      <4>2. QED BY <3>1, <3>2, <3>3, <4>1 DEF BasedRow
    <3>6. readings' \in Tables
      BY <1>2, <3>3, <3>4, <3>5, Rewritten
    <3>7. DOMAIN readings' = DOMAIN readings
      BY <3>5
    <3>8. QED BY <3>6, <3>7
  <2>2. CASE t.starts = {}
    <3>1. PICK id \in ReadingIds \ DOMAIN readings : readings' =
            M!Put(readings, id, M!NewReading(0, t.value, t.value, 0, None, TRUE))
      BY <2>2 DEF M!PeriodStart, M!Free
    <3>2. PICK new : new = M!NewReading(0, t.value, t.value, 0, None, TRUE)
      OBVIOUS
    <3>3. new \in M!Reading
      BY <1>2, <3>2 DEF M!NewReading, M!Reading, M!Amount
    <3>4. QED BY <1>2, <3>1, <3>2, <3>3, Added
  <2>3. QED BY <2>1, <2>2
<1>4. \/ M!End(t)
      \/ \E next : M!Continue(t, next) /\ next # t /\ TaskRight(next, DOMAIN readings')
  <2> DEFINE later == {i \in DOMAIN readings : readings[i].at > 0}
  <2>1. PICK show, more :
          /\ show = M!Show(None, t.value)
          /\ more = [do |-> "current", value |-> t.value, current |-> t.current,
                     ids |-> M!Newest(later)]
    OBVIOUS
  <2>2. M!End(t) \/ M!Continue(t, show) \/ M!Continue(t, more)
    BY <2>1 DEF M!PeriodStart
  <2>3. show # t /\ TaskRight(show, DOMAIN readings')
    BY <1>1, <1>2, <2>1, ShowRight
  <2>4. more # t /\ TaskRight(more, DOMAIN readings')
    <3>1. M!Newest(later) \subseteq DOMAIN readings'
      BY <1>3 DEF M!Newest
    <3>2. PICK ids : ids = DOMAIN readings'
      OBVIOUS
    <3>3. TaskRight(more, ids) /\ more # t
      BY <1>1, <1>2, <2>1, <3>1, <3>2 DEF TaskRight
    <3>4. QED BY <3>2, <3>3
  <2>5. QED BY <2>2, <2>3, <2>4
<1>5. last' \in Nat /\ t.do \notin {"void", "update", "record"}
  BY <1>1, <1>2
<1>6. QED BY <1>1, <1>3, <1>4, <1>5, MeterGoesOn

LEMMA PeriodCurrentKeeps ==
  ASSUME MeterInv, NEW t \in going, M!PeriodCurrent(t)
  PROVE  MeterInv' /\ M!KeepsChain /\ M!KeepsShown
<1>1. /\ t.do = "current" /\ UNCHANGED <<last, now, mended, made>>
      /\ M!Continue(t, M!Show(None, t.current))
  BY DEF M!PeriodCurrent
<1>2. /\ readings \in Tables /\ last \in Nat /\ t.value \in Nat /\ t.current \in Nat
      /\ t.ids \subseteq DOMAIN readings /\ now \in M!Times
  BY <1>1 DEF MeterInv, TaskRight, BaselineRight
<1>3. PICK used \in M!Amount : used = M!Consumed(t.value, t.current)
  BY <1>2 DEF M!Consumed, M!Amount
<1>4. readings' \in Tables /\ DOMAIN readings \subseteq DOMAIN readings'
  <2>1. CASE t.ids # {}
    <3>1. PICK i \in t.ids : readings' =
            [readings EXCEPT ![i].value = t.current, ![i].prev = t.value,
                             ![i].used = used, ![i].baseline = FALSE]
      BY <1>3, <2>1 DEF M!PeriodCurrent
    <3>2. PICK row : row = BasedRow(readings[i], t.current, t.value, used, FALSE)
      OBVIOUS
    <3>3. i \in DOMAIN readings /\ readings[i] \in M!Reading
      BY <1>2, <3>1, TableRows
    <3>4. row \in M!Reading
      BY <1>2, <3>2, <3>3, RowBased
    <3>5. readings' = [readings EXCEPT ![i] = row]
      <4>1. readings = [j \in DOMAIN readings |-> readings[j]]
        BY <1>2, TableRows
      <4>2. QED BY <3>1, <3>2, <3>3, <4>1 DEF BasedRow
    <3>6. readings' \in Tables
      BY <1>2, <3>3, <3>4, <3>5, Rewritten
    <3>7. DOMAIN readings' = DOMAIN readings
      BY <3>5
    <3>8. QED BY <3>6, <3>7
  <2>2. CASE t.ids = {}
    <3>1. PICK id \in ReadingIds \ DOMAIN readings : readings' =
            M!Put(readings, id, M!NewReading(now, t.current, t.value, used, None, FALSE))
      BY <1>3, <2>2 DEF M!PeriodCurrent, M!Free
    <3>2. PICK new : new = M!NewReading(now, t.current, t.value, used, None, FALSE)
      OBVIOUS
    <3>3. new \in M!Reading
      BY <1>2, <3>2 DEF M!NewReading, M!Reading, M!Amount
    <3>4. QED BY <1>2, <3>1, <3>2, <3>3, Added
  <2>3. QED BY <2>1, <2>2
<1>5. \E next : M!Continue(t, next) /\ next # t /\ TaskRight(next, DOMAIN readings')
  <2>1. PICK show : show = M!Show(None, t.current)
    OBVIOUS
  <2>2. QED BY <1>1, <1>2, <2>1, ShowRight
<1>6. last' \in Nat /\ t.do \notin {"void", "update", "record"}
  BY <1>1, <1>2
<1>7. QED BY <1>1, <1>4, <1>5, <1>6, MeterGoesOn

\* recalculateReadings writes back what it calculated from what it read.
LEMMA RowNormalised ==
  ASSUME NEW r \in Tables, NEW i \in DOMAIN r
  PROVE  M!Normalised(r, i).prev \in M!Amount /\ M!Normalised(r, i).used \in M!Amount
<1>1. PICK row : row = M!Chained(r, i)
  OBVIOUS
<1>2. row \in M!Reading
  BY <1>1, ChainedRow
<1>3. M!Normalised(r, i) = [row EXCEPT !.used = IF @ = None THEN 0 ELSE @]
  BY <1>1 DEF M!Normalised
<1>4. QED BY <1>2, <1>3 DEF M!Reading, M!Amount

LEMMA WriteBackKeeps ==
  ASSUME MeterInv, NEW t \in going, M!WriteBack(t)
  PROVE  MeterInv' /\ M!KeepsChain /\ M!KeepsShown
<1>1. t.do = "recalculate" /\ UNCHANGED <<last, now, mended, made>>
  BY DEF M!WriteBack
<1>2. /\ readings \in Tables /\ last \in Nat /\ t.rows \in Tables
      /\ M!Live(t.rows) # {}
  BY <1>1 DEF MeterInv, TaskRight, BaselineRight
<1>3. PICK rows, changed, latest :
        /\ rows = t.rows /\ latest = rows[M!LastOf(rows, M!Live(rows))].value
        /\ changed = {i \in M!Live(rows) : M!Differs(rows[i], M!Normalised(rows, i))}
  OBVIOUS
<1>4. /\ rows \in Tables /\ M!Live(rows) # {} /\ changed \subseteq DOMAIN rows
      /\ M!Live(rows) \in SUBSET DOMAIN rows
  BY <1>2, <1>3, TableRows
<1>5. latest \in Nat
  <2>1. M!LastOf(rows, M!Live(rows)) \in DOMAIN rows
    BY <1>4, LastExists DEF IsLast
  <2>2. QED BY <1>3, <1>4, <2>1, TableRows
<1>6. readings' = [i \in DOMAIN readings |->
        IF i \in changed
        THEN Linked(readings[i], M!Normalised(rows, i).prev, M!Normalised(rows, i).used)
        ELSE readings[i]]
  BY <1>3 DEF M!WriteBack, Linked
<1>7. readings' \in Tables /\ DOMAIN readings \subseteq DOMAIN readings'
  <2>1. PICK Stored \in SUBSET ReadingIds : readings \in [Stored -> M!Reading]
    BY <1>2 DEF Tables
  <2>2. ASSUME NEW i \in Stored
        PROVE  (IF i \in changed
                THEN Linked(readings[i], M!Normalised(rows, i).prev, M!Normalised(rows, i).used)
                ELSE readings[i]) \in M!Reading
    <3>1. CASE i \in changed
      <4>1. PICK prev, used : /\ prev = M!Normalised(rows, i).prev
                              /\ used = M!Normalised(rows, i).used
        OBVIOUS
      <4>2. prev \in M!Amount /\ used \in M!Amount
        BY <1>4, <3>1, <4>1, RowNormalised
      <4>3. Linked(readings[i], prev, used) \in M!Reading
        BY <2>1, <4>2, RowLinked
      <4>4. QED BY <3>1, <4>1, <4>3
    <3>2. QED BY <2>1, <3>1
  <2>3. readings' \in [Stored -> M!Reading]
    BY <1>6, <2>1, <2>2
  <2>4. QED BY <2>1, <2>3 DEF Tables
<1>8. \/ M!End(t)
      \/ \E next : M!Continue(t, next) /\ next # t /\ TaskRight(next, DOMAIN readings')
  <2>1. PICK show : show = M!Show(None, latest)
    OBVIOUS
  <2>2. M!End(t) \/ M!Continue(t, show)
    BY <1>3, <2>1 DEF M!WriteBack
  <2>3. QED BY <1>1, <1>5, <2>1, <2>2, ShowRight
<1>9. last' \in Nat /\ t.do \notin {"void", "update", "record"}
  BY <1>1, <1>2
<1>10. QED BY <1>1, <1>7, <1>8, <1>9, MeterGoesOn

LEMMA TickKeeps ==
  ASSUME MeterInv, M!Tick
  PROVE  MeterInv' /\ M!KeepsChain /\ M!KeepsShown
<1>1. /\ now' = now + 1 /\ now < LastTime
      /\ UNCHANGED <<readings, last, going, mended, made>>
  BY DEF M!Tick
<1>2. now' \in M!Times
  BY <1>1, RecordConstants DEF MeterInv, M!Times
<1>3. MeterInv'
  <2>1. /\ readings' \in Tables /\ last' \in Nat /\ made' \in 0..MaxMeterCalls
        /\ mended' \in M!Times
    BY <1>1 DEF MeterInv
  <2>2. QED BY <1>1, <1>2, <2>1, MeterStep
<1>4. M!ShowsLatest' <=> M!ShowsLatest
  BY <1>1 DEF M!ShowsLatest
<1>5. M!ChainIntact(readings) => M!ChainFrom(readings', mended')
  <2>1. readings \in Tables
    BY DEF MeterInv
  <2>2. M!ChainIntact(readings) => M!ChainFrom(readings, mended)
    BY <2>1, IntactEverywhere, IntactFrom
  <2>3. QED BY <1>1, <2>2
<1>6. QED BY <1>1, <1>3, <1>4, <1>5 DEF M!KeepsChain, M!KeepsShown
-----------------------------------------------------------------------------
(* Meters: a batch that syncEvnReadings stores.                            *)

\* A row that takes the value of a batch.
StoredRow(row, value, cycle) == [row EXCEPT !.value = value, !.cycle = cycle]

LEMMA RowStored ==
  ASSUME NEW row \in M!Reading, NEW value \in Nat, NEW cycle \in M!Times \cup {None}
  PROVE  LET new == StoredRow(row, value, cycle) IN
         /\ new \in M!Reading /\ new.at = row.at /\ new.voided = row.voided
  BY DEF M!Reading, StoredRow

\* One value of a batch adds a reading or changes one.
LEMMA OneUpserted ==
  ASSUME NEW x \in Tables, NEW id \in ReadingIds, NEW at \in M!Times, NEW value \in Nat,
         NEW timed
  PROVE  LET y == M!Upserted(x, id, at, value, timed) IN
         /\ y \in Tables /\ DOMAIN y = DOMAIN x \cup {id}
         /\ \A i \in DOMAIN x \ {id} : y[i] = x[i]
         /\ id \in DOMAIN x => y[id].at = x[id].at /\ y[id].voided = x[id].voided
         /\ id \notin DOMAIN x => y[id].at = at /\ ~y[id].voided
<1>1. CASE id \in DOMAIN x
  <2>1. PICK cycle : cycle = IF at \in timed THEN at ELSE x[id].cycle
    OBVIOUS
  <2>2. PICK row : row = StoredRow(x[id], value, cycle)
    OBVIOUS
  <2>3. x[id] \in M!Reading
    BY <1>1, TableRows
  <2>4. cycle \in M!Times \cup {None}
    BY <2>1, <2>3 DEF M!Reading
  <2>5. row \in M!Reading /\ row.at = x[id].at /\ row.voided = x[id].voided
    BY <2>2, <2>3, <2>4, RowStored
  <2>6. M!Upserted(x, id, at, value, timed) = M!Put(x, id, row)
    BY <1>1, <2>1, <2>2 DEF M!Upserted, StoredRow
  <2>7. PICK y : y = M!Put(x, id, row)
    OBVIOUS
  <2>8. y \in Tables
    BY <2>5, <2>7, PutTable
  <2>9. /\ DOMAIN y = DOMAIN x \cup {id} /\ y[id] = row
        /\ \A i \in DOMAIN x \ {id} : y[i] = x[i]
    BY <2>7 DEF M!Put
  <2>10. QED BY <1>1, <2>5, <2>6, <2>7, <2>8, <2>9
<1>2. CASE id \notin DOMAIN x
  <2>1. PICK cycle : cycle = IF at \in timed THEN at ELSE None
    OBVIOUS
  <2>2. PICK row : row = M!NewReading(at, value, None, None, cycle, FALSE)
    OBVIOUS
  <2>3. row \in M!Reading /\ row.at = at /\ ~row.voided
    BY <2>1, <2>2 DEF M!NewReading, M!Reading, M!Amount
  <2>4. M!Upserted(x, id, at, value, timed) = M!Put(x, id, row)
    BY <1>2, <2>1, <2>2 DEF M!Upserted
  <2>5. PICK y : y = M!Put(x, id, row)
    OBVIOUS
  <2>6. y \in Tables
    BY <2>3, <2>5, PutTable
  <2>7. /\ DOMAIN y = DOMAIN x \cup {id} /\ y[id] = row
        /\ \A i \in DOMAIN x \ {id} : y[i] = x[i]
    BY <2>5 DEF M!Put
  <2>8. QED BY <1>2, <2>3, <2>4, <2>5, <2>6, <2>7
<1>3. QED BY <1>1, <1>2

\* What a batch has stored when the values before time k are taken.
StoredBy(x, ids, items, timed, k) ==
  IF k - 1 \in DOMAIN items
  THEN M!Upserted(x, ids[k - 1], k - 1, items[k - 1], timed) ELSE x

LEMMA SyncedRows ==
  ASSUME NEW r \in Tables, NEW times \in SUBSET M!Times, NEW timed,
         NEW items \in [times -> ReadingValues], NEW ids \in [times -> ReadingIds]
  PROVE  LET u == M!Synced(r, ids, items, timed) IN
         /\ u \in [0..LastTime + 1 -> Tables] /\ u[0] = r
         /\ \A k \in 1..LastTime + 1 : u[k] = StoredBy(u[k - 1], ids, items, timed, k)
<1> DEFINE n == LastTime + 1
           g == [p \in (1..n) \X Tables |-> StoredBy(p[2], ids, items, timed, p[1])]
           Fits(f) == f = [k \in 0..n |->
                             IF k = 0 THEN r
                             ELSE IF k - 1 \in DOMAIN items
                                  THEN M!Upserted(f[k - 1], ids[k - 1], k - 1,
                                                  items[k - 1], timed)
                                  ELSE f[k - 1]]
<1>1. n \in Nat
  BY RecordConstants
<1>2. ASSUME NEW k \in 1..n, NEW x \in Tables
      PROVE  StoredBy(x, ids, items, timed, k) \in Tables
  <2>1. CASE k - 1 \in times
    <3>1. /\ k - 1 \in M!Times /\ ids[k - 1] \in ReadingIds /\ items[k - 1] \in Nat
      BY <2>1, RecordConstants
    <3>2. PICK id, at, value : id = ids[k - 1] /\ at = k - 1 /\ value = items[k - 1]
      OBVIOUS
    <3>3. M!Upserted(x, id, at, value, timed) \in Tables
      BY <3>1, <3>2, OneUpserted
    <3>4. QED BY <2>1, <3>2, <3>3 DEF StoredBy
  <2>2. CASE k - 1 \notin times
    BY <2>2 DEF StoredBy
  <2>3. QED BY <2>1, <2>2
<1>3. g \in [(1..n) \X Tables -> Tables]
  <2>1. \A p \in (1..n) \X Tables : StoredBy(p[2], ids, items, timed, p[1]) \in Tables
    BY <1>2
  <2>2. QED BY <2>1
<1>4. \A k \in 1..n, x \in Tables : g[<<k, x>>] = StoredBy(x, ids, items, timed, k)
  OBVIOUS
<1>5. PICK f \in [0..n -> Tables] : f[0] = r /\ \A k \in 1..n : f[k] = g[<<k, f[k - 1]>>]
  <2> HIDE DEF g, n
  <2>1. \E f \in [0..n -> Tables] : f[0] = r /\ Follows(f, n, g)
    BY <1>1, <1>3, Iteration
  <2>2. QED BY <2>1 DEF Follows
<1>6. ASSUME NEW k \in 1..n
      PROVE  f[k - 1] \in Tables /\ f[k] = StoredBy(f[k - 1], ids, items, timed, k)
  <2>1. k - 1 \in 0..n
    BY <1>1
  <2> HIDE DEF g, n
  <2>2. f[k - 1] \in Tables
    BY <2>1
  <2>3. QED BY <1>4, <1>5, <2>2
<1>7. Fits(f)
  <2>1. ASSUME NEW k \in 0..n
        PROVE  f[k] = IF k = 0 THEN r
                      ELSE IF k - 1 \in DOMAIN items
                           THEN M!Upserted(f[k - 1], ids[k - 1], k - 1, items[k - 1], timed)
                           ELSE f[k - 1]
    <3>1. CASE k = 0
      BY <1>5, <3>1
    <3>2. CASE k # 0
      <4>1. k \in 1..n
        BY <1>1, <3>2
      <4>2. QED BY <1>6, <3>2, <4>1 DEF StoredBy
    <3>3. QED BY <3>1, <3>2
  <2> HIDE DEF n
  <2>2. QED BY <2>1
<1> DEFINE u == M!Synced(r, ids, items, timed)
<1>8. u = CHOOSE h : Fits(h)
  BY DEF M!Synced
<1>9. Fits(u)
  <2> HIDE DEF u, Fits
  <2>1. QED BY <1>7, <1>8
<1> HIDE DEF u
<1>10. u[0] = r /\ \A k \in 1..n : u[k] = StoredBy(u[k - 1], ids, items, timed, k)
  <2>1. 0 \in 0..n /\ \A k \in 1..n : k \in 0..n /\ k # 0
    BY <1>1
  <2> HIDE DEF n
  <2>2. u[0] = r
    BY <1>9, <2>1
  <2>3. ASSUME NEW k \in 1..n PROVE u[k] = StoredBy(u[k - 1], ids, items, timed, k)
    BY <1>9, <2>1 DEF StoredBy
  <2>4. QED BY <2>2, <2>3
<1> DEFINE Good == {k \in 0..n : u[k] \in Tables}
<1>11. \A k \in 0..n : k \in Good
  <2>1. 0 \in Good
    BY <1>1, <1>10
  <2>2. \A k \in 1..n : k - 1 \in Good => k \in Good
    BY <1>1, <1>2, <1>10
  <2> HIDE DEF Good, n
  <2>3. QED BY <1>1, <2>1, <2>2, StepByStep
<1>12. u \in [0..n -> Tables]
  <2>1. u = [k \in 0..n |-> u[k]]
    BY <1>9
  <2>2. \A k \in 0..n : u[k] \in Tables
    BY <1>11
  <2> HIDE DEF n, Fits
  <2>3. QED BY <2>1, <2>2
<1>13. QED BY <1>10, <1>12 DEF u

\* A table that a batch has changed in some readings only: it neither moves nor
\* voids any.
Carries(s, x, touched) ==
  /\ DOMAIN s \subseteq DOMAIN x /\ DOMAIN x \subseteq DOMAIN s \cup touched
  /\ \A i \in DOMAIN s : x[i].at = s[i].at /\ x[i].voided = s[i].voided
  /\ \A i \in DOMAIN s \ touched : x[i] = s[i]

LEMMA ValueKeeps ==
  ASSUME NEW s \in Tables, NEW x \in Tables, NEW touched, NEW timed,
         NEW id \in ReadingIds, NEW at \in M!Times, NEW value \in Nat, id \in touched,
         IF M!Matches(x, at, timed) = {} THEN id \notin DOMAIN x
         ELSE id \in M!Matches(x, at, timed),
         Carries(s, x, touched)
  PROVE  LET y == M!Upserted(x, id, at, value, timed) IN
         /\ Carries(s, y, touched) /\ id \in M!Live(y) /\ M!Live(x) \subseteq M!Live(y)
<1> DEFINE y == M!Upserted(x, id, at, value, timed)
<1>1. /\ y \in Tables /\ DOMAIN y = DOMAIN x \cup {id}
      /\ \A i \in DOMAIN x \ {id} : y[i] = x[i]
      /\ id \in DOMAIN x => y[id].at = x[id].at /\ y[id].voided = x[id].voided
      /\ id \notin DOMAIN x => y[id].at = at /\ ~y[id].voided
  BY OneUpserted
<1> HIDE DEF y
<1>2. id \in DOMAIN x => id \in M!Live(x)
  BY DEF M!Matches, M!OfCycle, M!Nearby
<1>3. ~y[id].voided
  BY <1>1, <1>2 DEF M!Live
<1>4. M!Live(y) = M!Live(x) \cup {id}
  BY <1>1, <1>2, <1>3 DEF M!Live
<1>5. Carries(s, y, touched)
  <2>1. DOMAIN s \subseteq DOMAIN y /\ DOMAIN y \subseteq DOMAIN s \cup touched
    BY <1>1 DEF Carries
  <2>2. \A i \in DOMAIN s : y[i].at = s[i].at /\ y[i].voided = s[i].voided
    BY <1>1 DEF Carries
  <2>3. \A i \in DOMAIN s \ touched : y[i] = s[i]
    BY <1>1 DEF Carries
  <2>4. QED BY <2>1, <2>2, <2>3 DEF Carries
<1>6. QED BY <1>4, <1>5 DEF y

\* A batch changes the readings that its values go to, and leaves them in place.
LEMMA BatchKeeps ==
  ASSUME NEW r \in Tables, NEW times \in SUBSET M!Times, NEW timed,
         NEW items \in [times -> ReadingValues], NEW ids \in [times -> ReadingIds],
         M!Fits(r, ids, items, timed)
  PROVE  LET x == M!Synced(r, ids, items, timed)[LastTime + 1] IN
         /\ x \in Tables /\ Carries(r, x, {ids[a] : a \in times})
         /\ \A a \in times : ids[a] \in M!Live(x)
<1> DEFINE n == LastTime + 1
           touched == {ids[a] : a \in times}
<1>1. PICK u : u = M!Synced(r, ids, items, timed)
  OBVIOUS
<1>2. /\ u \in [0..n -> Tables] /\ u[0] = r
      /\ \A k \in 1..n : u[k] = StoredBy(u[k - 1], ids, items, timed, k)
  <2> DEFINE v == M!Synced(r, ids, items, timed)
  <2>1. /\ v \in [0..LastTime + 1 -> Tables] /\ v[0] = r
        /\ \A k \in 1..LastTime + 1 : v[k] = StoredBy(v[k - 1], ids, items, timed, k)
    BY SyncedRows
  <2>2. u = v
    BY <1>1
  <2> HIDE DEF v
  <2>3. QED BY <2>1, <2>2
<1>3. /\ n \in Nat /\ 0 \in 0..n /\ n \in 0..n
      /\ \A k \in 1..n : k \in 0..n /\ k - 1 \in 0..n
      /\ \A a \in times : a \in Nat /\ a < n
      /\ \A k \in 1..n : \A a \in times : a < k => a < k - 1 \/ a = k - 1
  BY RecordConstants DEF M!Times
<1>4. ASSUME NEW k \in 1..n, k - 1 \in times
      PROVE  /\ ids[k - 1] \in ReadingIds /\ k - 1 \in M!Times /\ items[k - 1] \in Nat
             /\ u[k] = M!Upserted(u[k - 1], ids[k - 1], k - 1, items[k - 1], timed)
             /\ IF M!Matches(u[k - 1], k - 1, timed) = {}
                THEN ids[k - 1] \notin DOMAIN u[k - 1]
                ELSE ids[k - 1] \in M!Matches(u[k - 1], k - 1, timed)
  <2>1. u[k] = M!Upserted(u[k - 1], ids[k - 1], k - 1, items[k - 1], timed)
    BY <1>2, <1>4 DEF StoredBy
  <2>2. IF M!Matches(u[k - 1], k - 1, timed) = {}
        THEN ids[k - 1] \notin DOMAIN u[k - 1]
        ELSE ids[k - 1] \in M!Matches(u[k - 1], k - 1, timed)
    BY <1>1, <1>4 DEF M!Fits
  <2>3. QED BY <1>4, <2>1, <2>2, RecordConstants
<1>5. ASSUME NEW k \in 1..n, k - 1 \notin times PROVE u[k] = u[k - 1]
  BY <1>2, <1>5 DEF StoredBy
<1>6. \A k \in 0..n : u[k] \in Tables
  BY <1>2
<1>7. \A a \in times : ids[a] \in touched
  OBVIOUS
<1> HIDE DEF n, touched
<1> DEFINE Kept(x, k) ==
             /\ Carries(r, x, touched)
             /\ \A a \in times : a < k => ids[a] \in M!Live(x)
           Good == {k \in 0..n : Kept(u[k], k)}
<1>8. 0 \in Good
  <2>1. Carries(r, r, touched)
    BY DEF Carries
  <2>2. \A a \in times : ~(a < 0)
    BY <1>3
  <2>3. QED BY <1>2, <1>3, <2>1, <2>2
<1>9. ASSUME NEW k \in 1..n, k - 1 \in Good PROVE k \in Good
  <2>1. Kept(u[k - 1], k - 1)
    BY <1>9
  <2>2. CASE k - 1 \in times
    <3>1. PICK x, id, at, value : /\ x = u[k - 1] /\ id = ids[k - 1] /\ at = k - 1
                                  /\ value = items[k - 1]
      OBVIOUS
    <3>2. /\ x \in Tables /\ id \in ReadingIds /\ at \in M!Times /\ value \in Nat
          /\ id \in touched /\ Carries(r, x, touched)
          /\ IF M!Matches(x, at, timed) = {} THEN id \notin DOMAIN x
             ELSE id \in M!Matches(x, at, timed)
      BY <1>3, <1>4, <1>6, <1>7, <2>1, <2>2, <3>1
    <3>3. PICK y : y = M!Upserted(x, id, at, value, timed)
      OBVIOUS
    <3>4. Carries(r, y, touched) /\ id \in M!Live(y) /\ M!Live(x) \subseteq M!Live(y)
      BY <3>2, <3>3, ValueKeeps
    <3>5. \A a \in times : a < k => ids[a] \in M!Live(y)
      BY <1>3, <2>1, <3>1, <3>4
    <3>6. u[k] = y
      BY <1>4, <2>2, <3>1, <3>3
    <3>7. QED BY <1>3, <3>4, <3>5, <3>6
  <2>3. CASE k - 1 \notin times
    <3>1. u[k] = u[k - 1]
      BY <1>5, <2>3
    <3>2. \A a \in times : a < k => a < k - 1
      BY <1>3, <2>3
    <3>3. Kept(u[k], k)
      BY <2>1, <3>1, <3>2
    <3>4. QED BY <1>3, <3>3
  <2>4. QED BY <2>2, <2>3
<1>10. n \in Good
  <2> HIDE DEF Good
  <2>1. QED BY <1>3, <1>8, <1>9, StepByStep
<1>11. u[n] \in Tables /\ Kept(u[n], n)
  BY <1>3, <1>6, <1>10
<1>12. QED BY <1>1, <1>3, <1>11 DEF n, touched

\* Readings of before the batch are as they were, where no value went to one.
LEMMA BeforeBatch ==
  ASSUME NEW r \in Tables, NEW x \in Tables, NEW touched, NEW from \in Nat,
         Carries(r, x, touched), \A i \in touched : i \in DOMAIN x /\ x[i].at >= from
  PROVE  /\ \A i \in M!Live(x) : x[i].at < from => i \in M!Live(r) /\ r[i] = x[i]
         /\ \A i \in M!Live(r) : r[i].at < from => i \in M!Live(x) /\ r[i] = x[i]
<1>1. \A i \in DOMAIN x : x[i].at < from => i \notin touched
  BY TableRows
<1>2. \A i \in DOMAIN x : x[i].at < from => i \in DOMAIN r /\ r[i] = x[i]
  BY <1>1 DEF Carries
<1>3. \A i \in DOMAIN r : r[i].at < from => i \in DOMAIN x /\ r[i] = x[i]
  BY <1>1 DEF Carries
<1>4. QED BY <1>2, <1>3, TableRows DEF M!Live

LEMMA SyncKeeps ==
  ASSUME MeterInv, NEW batch \in M!Batches, NEW timed, M!syncEvnReadings(batch, timed)
  PROVE  MeterInv' /\ M!KeepsChain /\ M!KeepsShown
<1> DEFINE start == CHOOSE a \in DOMAIN batch : \A b \in DOMAIN batch : a <= b
<1>1. /\ M!Call("syncEvnReadings") /\ UNCHANGED <<now, going>>
      /\ \E ids \in [DOMAIN batch -> ReadingIds] :
           LET x == M!Synced(readings, ids, batch, timed)[LastTime + 1] IN
           /\ M!Fits(readings, ids, batch, timed)
           /\ M!Recalculate(x, start)
           /\ mended' = IF \E a \in DOMAIN batch : x[ids[a]].at < start THEN start ELSE 0
  BY DEF M!syncEvnReadings
<1> HIDE DEF start
<1>2. readings \in Tables /\ last \in Nat /\ now \in M!Times
  BY DEF MeterInv
<1>3. PICK times \in SUBSET M!Times : times # {} /\ batch \in [times -> ReadingValues]
  <2>1. \A t \in 0..now : t \in M!Times
    BY <1>2, RecordConstants DEF M!Times
  <2>2. PICK days \in SUBSET (0..now) : days # {} /\ batch \in [days -> ReadingValues]
    BY DEF M!Batches
  <2>3. QED BY <2>1, <2>2
<1>4. PICK ids \in [times -> ReadingIds] :
        LET x == M!Synced(readings, ids, batch, timed)[LastTime + 1] IN
        /\ M!Fits(readings, ids, batch, timed)
        /\ M!Recalculate(x, start)
        /\ mended' = IF \E a \in times : x[ids[a]].at < start THEN start ELSE 0
  BY <1>1, <1>3
<1>5. PICK r, from, x, touched :
        /\ r = readings /\ from = start
        /\ x = M!Synced(r, ids, batch, timed)[LastTime + 1]
        /\ touched = {ids[a] : a \in times}
  OBVIOUS
<1>6. from \in times
  <2>1. times \in SUBSET Nat /\ times # {}
    BY <1>3, RecordConstants DEF M!Times
  <2>2. \E a \in times : \A b \in times : a <= b
    BY <2>1, LeastNumber
  <2>3. QED BY <1>3, <1>5, <2>2 DEF start
<1>7. /\ r \in Tables /\ M!Fits(r, ids, batch, timed) /\ M!Recalculate(x, from)
      /\ from \in Nat /\ from \in M!Times
      /\ mended' = IF \E a \in times : x[ids[a]].at < from THEN from ELSE 0
  <2>1. from \in Nat /\ from \in M!Times
    BY <1>6, RecordConstants DEF M!Times
  <2>2. r \in Tables /\ M!Fits(r, ids, batch, timed)
    BY <1>2, <1>4, <1>5
  <2>3. M!Recalculate(x, from)
    BY <1>4, <1>5
  <2>4. mended' = IF \E a \in times : x[ids[a]].at < from THEN from ELSE 0
    BY <1>4, <1>5
  <2>5. QED BY <2>1, <2>2, <2>3, <2>4
<1>8. /\ x \in Tables /\ Carries(r, x, touched)
      /\ \A a \in times : ids[a] \in M!Live(x)
  BY <1>3, <1>5, <1>7, BatchKeeps
<1>9. /\ readings' \in Tables /\ DOMAIN readings' = DOMAIN x /\ last' \in Nat
      /\ (\A i \in M!Live(x) : x[i].at < from => IntactAt(x, i))
           => M!ChainIntact(readings')
      /\ (M!Live(x) # {} => \/ \E i \in M!Live(x) : x[i].at >= from
                           \/ last = x[M!LastOf(x, M!Live(x))].value)
           => M!ShowsLatest'
      /\ M!ChainFrom(readings', from)
      /\ (\E i \in M!Live(readings') : readings'[i].at >= from)
           => \E i \in M!Live(x) : x[i].at >= from
  BY <1>2, <1>7, <1>8, RecalculateEnds
<1>10. mended' \in M!Times
  BY <1>7, RecordConstants DEF M!Times
<1>11. MeterInv'
  <2>1. made' \in 0..MaxMeterCalls /\ now' \in M!Times
    BY <1>1, <1>2, CallCounts
  <2>2. \A t \in going' : t \in going
    BY <1>1
  <2>3. DOMAIN readings \subseteq DOMAIN readings'
    BY <1>5, <1>8, <1>9 DEF Carries
  <2>4. QED BY <1>9, <1>10, <2>1, <2>2, <2>3, MeterStep
<1>12. ~(\E t \in going \ going' : TRUE)
  BY <1>1
<1>13. CASE \E a \in times : x[ids[a]].at < from
  <2>1. mended' = from
    BY <1>7, <1>13
  <2>2. M!KeepsChain
    BY <1>9, <1>12, <2>1 DEF M!KeepsChain
  <2>3. M!KeepsShown
    BY <1>9, <1>12, <2>1 DEF M!KeepsShown
  <2>4. QED BY <1>11, <2>2, <2>3
<1>14. CASE \A a \in times : ~(x[ids[a]].at < from)
  <2>1. mended' = 0
    BY <1>7, <1>14
  <2>2. \A a \in times : ids[a] \in DOMAIN x /\ x[ids[a]].at >= from
    BY <1>7, <1>8, <1>14, TableRows
  <2>3. M!ChainIntact(readings) => M!ChainIntact(readings')
    <3> SUFFICES ASSUME M!ChainIntact(readings) PROVE M!ChainIntact(readings')
      OBVIOUS
    <3>1. \A i \in touched : i \in DOMAIN x /\ x[i].at >= from
      BY <1>5, <2>2
    <3>2. /\ \A i \in M!Live(x) : x[i].at < from => i \in M!Live(r) /\ r[i] = x[i]
          /\ \A i \in M!Live(r) : r[i].at < from => i \in M!Live(x) /\ r[i] = x[i]
      BY <1>7, <1>8, <3>1, BeforeBatch
    <3>3. M!ChainIntact(r)
      BY <1>5
    <3>4. \A i \in M!Live(x) : x[i].at < from => IntactAt(x, i)
      BY <1>7, <1>8, <3>2, <3>3, IntactBelow
    <3>5. QED BY <1>9, <3>4
  <2>4. M!ChainIntact(readings') => M!ChainFrom(readings', mended')
    BY <2>1 DEF M!ChainIntact
  <2>5. M!KeepsChain
    BY <1>12, <2>3, <2>4 DEF M!KeepsChain
  <2>6. M!ShowsLatest'
    BY <1>6, <1>8, <1>9, <2>2
  <2>7. M!KeepsShown
    BY <2>6 DEF M!KeepsShown
  <2>8. QED BY <1>11, <2>5, <2>7
<1>15. QED BY <1>13, <1>14
-----------------------------------------------------------------------------
(* Meters: every step.                                                     *)

LEMMA MeterNext ==
  ASSUME MeterInv, M!Next
  PROVE  MeterInv' /\ M!KeepsChain /\ M!KeepsShown
<1>1. \/ \E batch \in M!Batches : \E timed \in SUBSET DOMAIN batch :
           M!syncEvnReadings(batch, timed)
      \/ \E i \in DOMAIN readings : M!voidReading(i) \/ M!updateReading(i)
      \/ \E value \in ReadingValues :
           M!recordReading(value) \/ M!setBaselineReading(value)
             \/ M!setPeriodBaseline(value)
      \/ M!recalculateReadings
      \/ \E t \in going : M!Step(t)
      \/ M!Tick
  BY DEF M!Next
<1>2. CASE \E batch \in M!Batches : \E timed \in SUBSET DOMAIN batch :
           M!syncEvnReadings(batch, timed)
  BY <1>2, SyncKeeps
<1>3. CASE \/ \E i \in DOMAIN readings : M!voidReading(i) \/ M!updateReading(i)
           \/ M!recalculateReadings
  BY <1>3, LookSteps
<1>4. CASE \E value \in ReadingValues :
             M!recordReading(value) \/ M!setBaselineReading(value)
               \/ M!setPeriodBaseline(value)
  BY <1>4, LookAndAsk
<1>5. CASE \E t \in going : M!Step(t)
  <2>1. PICK t \in going : M!Step(t)
    BY <1>5
  <2>2. \/ M!Void(t) \/ M!Update(t) \/ M!Record(t) \/ M!SetShown(t) \/ M!Baseline(t)
        \/ M!PeriodStart(t) \/ M!PeriodCurrent(t) \/ M!WriteBack(t)
    BY <2>1 DEF M!Step
  <2>3. QED
    BY <2>2, VoidKeeps, UpdateKeeps, RecordKeeps, SetShownKeeps, BaselineKeeps,
       PeriodStartKeeps, PeriodCurrentKeeps, WriteBackKeeps
<1>6. CASE M!Tick
  BY <1>6, TickKeeps
<1>7. QED BY <1>1, <1>2, <1>3, <1>4, <1>5, <1>6

LEMMA MeterStutter ==
  ASSUME MeterInv, UNCHANGED <<meter, made>>
  PROVE  MeterInv'
<1>1. UNCHANGED <<readings, last, now, going, mended, made>>
  BY DEF meter
<1>2. \A t \in going' : TaskRight(t, DOMAIN readings)'
  BY <1>1 DEF MeterInv, TaskRight, BaselineRight
<1>3. QED BY <1>1, <1>2 DEF MeterInv

LEMMA MeterStarts == M!Init => MeterInv
<1> SUFFICES ASSUME M!Init PROVE MeterInv
  OBVIOUS
<1>0. PICK times \in SUBSET {t \in ReadingIds : t < LastTime} :
        \E values \in [times -> ReadingValues], synced \in SUBSET times :
          /\ readings = M!Recalculated([t \in times |->
                IF t \in synced THEN M!NewReading(t, values[t], None, None, t, FALSE)
                ELSE M!NewReading(t, values[t], 0, None, None, FALSE)], 0)
          /\ last = IF times = {} THEN 0
                    ELSE readings[M!LastOf(readings, times)].value
  BY DEF M!Init
<1>1. PICK values \in [times -> ReadingValues], synced \in SUBSET times :
        /\ readings = M!Recalculated([t \in times |->
              IF t \in synced THEN M!NewReading(t, values[t], None, None, t, FALSE)
              ELSE M!NewReading(t, values[t], 0, None, None, FALSE)], 0)
        /\ last = IF times = {} THEN 0
                  ELSE readings[M!LastOf(readings, times)].value
  BY <1>0
<1>2. PICK r : r = [t \in times |->
              IF t \in synced THEN M!NewReading(t, values[t], None, None, t, FALSE)
              ELSE M!NewReading(t, values[t], 0, None, None, FALSE)]
  OBVIOUS
<1>3. ASSUME NEW t \in times
      PROVE  /\ M!NewReading(t, values[t], None, None, t, FALSE) \in M!Reading
             /\ M!NewReading(t, values[t], 0, None, None, FALSE) \in M!Reading
  <2>1. t \in ReadingIds /\ t < LastTime /\ values[t] \in ReadingValues
    OBVIOUS
  <2>2. values[t] \in Nat
    BY <2>1, RecordConstants
  <2>3. t \in Nat /\ LastTime \in Nat
    BY <2>1, RecordConstants
  <2>4. t \in M!Times
    BY <2>1, <2>3 DEF M!Times
  <2>5. QED BY <2>2, <2>4 DEF M!NewReading, M!Reading, M!Amount
<1>4. r \in [times -> M!Reading] /\ times \in SUBSET ReadingIds
  BY <1>2, <1>3
<1>5. r \in Tables
  BY <1>4 DEF Tables
<1>6. readings \in Tables /\ DOMAIN readings = DOMAIN r
  BY <1>1, <1>2, <1>5, RecalculatedTable
<1>7. last \in Nat
  <2>1. CASE times = {}
    BY <1>1, <2>1
  <2>2. CASE times # {}
    <3>1. PICK s : s = readings
      OBVIOUS
    <3>2. s \in Tables /\ times \in SUBSET DOMAIN s
      BY <1>4, <1>6, <3>1
    <3>3. M!LastOf(s, times) \in DOMAIN s
      BY <2>2, <3>2, LastExists DEF IsLast
    <3>4. s[M!LastOf(s, times)].value \in Nat
      BY <3>2, <3>3, TableRows
    <3>5. QED BY <1>1, <2>2, <3>1, <3>4
  <2>3. QED BY <2>1, <2>2
<1>8. now \in M!Times /\ mended \in M!Times /\ going = {} /\ made \in 0..MaxMeterCalls
  BY RecordConstants DEF M!Init, M!Times
<1>9. QED BY <1>6, <1>7, <1>8 DEF MeterInv

-----------------------------------------------------------------------------
(* MonthlyDates: a pause skips to the first date that has not gone by.     *)

CalendarDates == [month : Nat, day : Nat, time : DayTimes]

\* The n-th date after one, on a day of the month every so many months.
Dated(date, month, day) ==
  [date EXCEPT !.month = month, !.day = D!Min({day, D!DaysIn(month)})]

Nth(date, day, count, n) ==
  IF n = 0 THEN date ELSE Dated(date, date.month + n * count, day)

LEMMA LesserOf ==
  ASSUME NEW a \in Int, NEW b \in Int
  PROVE  D!Min({a, b}) \in {a, b}
<1>1. D!Min({a, b}) = CHOOSE x \in {a, b} : \A y \in {a, b} : x <= y
  BY DEF D!Min
<1>2. \E x \in {a, b} : \A y \in {a, b} : x <= y
  OBVIOUS
<1>3. QED BY <1>1, <1>2

LEMMA DatedDate ==
  ASSUME NEW date \in CalendarDates, NEW month \in Nat, NEW day \in Nat
  PROVE  Dated(date, month, day) \in CalendarDates /\ Dated(date, month, day).month = month
<1>1. D!DaysIn(month) \in Nat
  BY DEF D!DaysIn
<1>2. PICK d : d = D!Min({day, D!DaysIn(month)})
  OBVIOUS
<1>3. d \in Nat
  BY <1>1, <1>2, LesserOf
<1>4. Dated(date, month, day) = [date EXCEPT !.month = month, !.day = d]
  BY <1>2 DEF Dated
<1>5. QED BY <1>3, <1>4 DEF CalendarDates

LEMMA DatedTwice ==
  ASSUME NEW date \in CalendarDates, NEW m \in Nat, NEW n \in Nat, NEW day \in Nat
  PROVE  Dated(Dated(date, m, day), n, day) = Dated(date, n, day)
<1>1. PICK d, e : d = D!Min({day, D!DaysIn(m)}) /\ e = D!Min({day, D!DaysIn(n)})
  OBVIOUS
<1>2. Dated(date, m, day) = [date EXCEPT !.month = m, !.day = d]
  BY <1>1 DEF Dated
<1>3. Dated(Dated(date, m, day), n, day)
        = [[date EXCEPT !.month = m, !.day = d] EXCEPT !.month = n, !.day = e]
  BY <1>1, <1>2 DEF Dated
<1>4. Dated(date, n, day) = [date EXCEPT !.month = n, !.day = e]
  BY <1>1 DEF Dated
<1>5. QED BY <1>3, <1>4 DEF CalendarDates

InMonth(date, day, count, n) ==
  Nth(date, day, count, n).month = date.month + n * count

\* Counting on from the n-th date.
LEMMA NthDate ==
  ASSUME NEW date \in CalendarDates, NEW day \in Nat, NEW count \in Nat, NEW n \in Nat
  PROVE  /\ Nth(date, day, count, n) \in CalendarDates
         /\ InMonth(date, day, count, n)
<1>1. date.month \in Nat /\ n * count \in Nat
  BY DEF CalendarDates
<1>2. CASE n = 0
  BY <1>1, <1>2 DEF Nth, InMonth
<1>3. CASE n # 0
  <2>1. PICK m : m = date.month + n * count
    OBVIOUS
  <2>2. m \in Nat
    BY <1>1, <2>1
  <2>3. Dated(date, m, day) \in CalendarDates /\ Dated(date, m, day).month = m
    BY <2>2, DatedDate
  <2>4. QED BY <1>3, <2>1, <2>3 DEF Nth, InMonth
<1>4. QED BY <1>2, <1>3

CountsOn(date, day, count, n, j) ==
  Dated(Nth(date, day, count, n), Nth(date, day, count, n).month + j * count, day)
    = Nth(date, day, count, n + j)

LEMMA NthOn ==
  ASSUME NEW date \in CalendarDates, NEW day \in Nat, NEW count \in Nat, NEW n \in Nat,
         NEW j \in Nat, j # 0
  PROVE  CountsOn(date, day, count, n, j)
<1>1. date.month \in Nat /\ n * count \in Nat /\ j * count \in Nat
  BY DEF CalendarDates
<1>2. (n + j) * count = n * count + j * count
  OBVIOUS
<1>3. Nth(date, day, count, n + j) = Dated(date, date.month + (n + j) * count, day)
  BY DEF Nth
<1>4. CASE n = 0
  BY <1>3, <1>4 DEF Nth, CountsOn
<1>5. CASE n # 0
  <2>1. PICK m, k : m = date.month + n * count /\ k = date.month + (n + j) * count
    OBVIOUS
  <2>2. m \in Nat /\ k \in Nat /\ k = m + j * count
    BY <1>1, <1>2, <2>1
  <2>3. Nth(date, day, count, n) = Dated(date, m, day)
    BY <1>5, <2>1 DEF Nth
  <2>4. Dated(date, m, day).month = m
    BY <2>2, DatedDate
  <2>5. Dated(Dated(date, m, day), k, day) = Dated(date, k, day)
    BY <2>2, DatedTwice
  <2>6. QED BY <1>3, <2>1, <2>2, <2>3, <2>4, <2>5 DEF CountsOn
<1>6. QED BY <1>4, <1>5

LEMMA Quotient ==
  ASSUME NEW k \in Nat, NEW s \in Nat \ {0}
  PROVE  (k * s) \div s = k
  OBVIOUS

LEMMA QuotientBounds ==
  ASSUME NEW a \in Nat, NEW s \in Nat \ {0}
  PROVE  /\ a \div s \in Nat /\ a \div s <= a
         /\ (a \div s) * s <= a /\ a < (a \div s + 1) * s
  OBVIOUS

LEMMA Calculated ==
  ASSUME NEW date, NEW count, NEW day
  PROVE  D!calculateNextDueDate(date, count, day) = Dated(date, date.month + count, day)
  BY DEF D!calculateNextDueDate, Dated

\* The dates the loop goes through.
Walk(u, date, count, day) ==
  /\ u \in [0..LastMonth + 1 -> CalendarDates]
  /\ u[0] = date
  /\ \A k \in 1..LastMonth + 1 : u[k] = Dated(u[k - 1], u[k - 1].month + count, day)

Stop(u, at) == D!Min({k \in 0..LastMonth + 1 : ~D!Earlier(u[k], at)})

LEMMA LoopDates ==
  ASSUME NEW date \in CalendarDates, NEW at, NEW count \in Nat, NEW day \in Nat
  PROVE  \E u : /\ Walk(u, date, count, day)
               /\ D!OnTo(date, at, count, day) = u[Stop(u, at)]
<1> DEFINE n == LastMonth + 1
           g == [p \in (1..n) \X CalendarDates |-> Dated(p[2], p[2].month + count, day)]
           Fits(f) == f = [k \in 0..n |-> IF k = 0 THEN date
                             ELSE D!calculateNextDueDate(f[k - 1], count, day)]
<1>1. n \in Nat
  BY RecordConstants
<1>2. \A x \in CalendarDates : Dated(x, x.month + count, day) \in CalendarDates
  <2>1. \A x \in CalendarDates : x.month + count \in Nat
    BY DEF CalendarDates
  <2>2. QED BY <2>1, DatedDate
<1>3. g \in [(1..n) \X CalendarDates -> CalendarDates]
  <2>1. \A p \in (1..n) \X CalendarDates : Dated(p[2], p[2].month + count, day) \in CalendarDates
    BY <1>2
  <2>2. QED BY <2>1
<1>4. \A k \in 1..n, x \in CalendarDates : g[<<k, x>>] = Dated(x, x.month + count, day)
  OBVIOUS
<1>5. PICK f \in [0..n -> CalendarDates] : f[0] = date /\ \A k \in 1..n : f[k] = g[<<k, f[k - 1]>>]
  <2> HIDE DEF g, n
  <2>1. \E f \in [0..n -> CalendarDates] : f[0] = date /\ Follows(f, n, g)
    BY <1>1, <1>3, Iteration
  <2>2. QED BY <2>1 DEF Follows
<1>6. ASSUME NEW k \in 1..n
      PROVE  f[k - 1] \in CalendarDates /\ f[k] = Dated(f[k - 1], f[k - 1].month + count, day)
  <2>1. k - 1 \in 0..n
    BY <1>1
  <2> HIDE DEF g, n
  <2>2. f[k - 1] \in CalendarDates
    BY <2>1
  <2>3. QED BY <1>4, <1>5, <2>2
<1>7. Fits(f)
  <2>1. ASSUME NEW k \in 0..n
        PROVE  f[k] = IF k = 0 THEN date ELSE D!calculateNextDueDate(f[k - 1], count, day)
    <3>1. CASE k = 0
      BY <1>5, <3>1
    <3>2. CASE k # 0
      <4>1. k \in 1..n
        BY <1>1, <3>2
      <4>2. QED BY <1>6, <3>2, <4>1, Calculated
    <3>3. QED BY <3>1, <3>2
  <2> HIDE DEF n
  <2>2. QED BY <2>1
<1>8. PICK u : u = CHOOSE h : Fits(h)
  OBVIOUS
<1>9. Fits(u)
  <2> HIDE DEF Fits
  <2>1. QED BY <1>7, <1>8
<1>10. D!OnTo(date, at, count, day) = u[Stop(u, at)]
  BY <1>8 DEF D!OnTo, Stop
<1>11. u[0] = date /\ \A k \in 1..n : u[k] = Dated(u[k - 1], u[k - 1].month + count, day)
  <2>1. 0 \in 0..n /\ \A k \in 1..n : k \in 0..n /\ k # 0
    BY <1>1
  <2> HIDE DEF n
  <2>2. u[0] = date
    BY <1>9, <2>1
  <2>3. ASSUME NEW k \in 1..n PROVE u[k] = Dated(u[k - 1], u[k - 1].month + count, day)
    BY <1>9, <2>1, Calculated
  <2>4. QED BY <2>2, <2>3
<1> DEFINE Good == {k \in 0..n : u[k] \in CalendarDates}
<1>12. \A k \in 0..n : k \in Good
  <2>1. 0 \in Good
    BY <1>1, <1>11
  <2>2. \A k \in 1..n : k - 1 \in Good => k \in Good
    BY <1>1, <1>2, <1>11
  <2> HIDE DEF Good, n
  <2>3. QED BY <1>1, <2>1, <2>2, StepByStep
<1>13. u \in [0..n -> CalendarDates]
  <2>1. u = [k \in 0..n |-> u[k]]
    BY <1>9
  <2>2. \A k \in 0..n : u[k] \in CalendarDates
    BY <1>12
  <2> HIDE DEF n, Fits
  <2>3. QED BY <2>1, <2>2
<1>14. Walk(u, date, count, day)
  BY <1>11, <1>13 DEF Walk
<1>15. QED BY <1>10, <1>14

\* The least of some numbers, when it is known.
LEMMA LeastIs ==
  ASSUME NEW S \in SUBSET Int, NEW k \in S, \A j \in S : k <= j
  PROVE  D!Min(S) = k
<1>1. D!Min(S) = CHOOSE x \in S : \A y \in S : x <= y
  BY DEF D!Min
<1>2. \A x \in S : (\A y \in S : x <= y) => x = k
  OBVIOUS
<1>3. QED BY <1>1, <1>2

\* A date in an earlier month has gone by, one in a later month has not.
LEMMA OtherMonth ==
  ASSUME NEW d, NEW e, d.month \in Nat, e.month \in Nat
  PROVE  /\ d.month < e.month => D!Earlier(d, e)
         /\ d.month > e.month => ~D!Earlier(d, e)
  BY DEF D!Earlier

\* Where the jump and the loop come to, from the m-th date: the first that has
\* not gone by.
LeadsTo(date, day, count, m, at, n) ==
  /\ n >= m
  /\ D!projectNextFutureDueDate(Nth(date, day, count, m), at, count, day)
       = Nth(date, day, count, n)
  /\ n = D!Min({k \in m..(m + LastMonth + 1) :
                  ~D!Earlier(Nth(date, day, count, k), at)})

LEMMA Projected ==
  ASSUME NEW date \in CalendarDates, NEW day \in Nat, NEW count \in Nat \ {0}, NEW m \in Nat,
         NEW at, at.month \in 0..LastMonth
  PROVE  \E n \in Nat : LeadsTo(date, day, count, m, at, n)
<1> DEFINE N(k) == Nth(date, day, count, k)
           Open == {k \in m..(m + LastMonth + 1) : ~D!Earlier(N(k), at)}
<1>1. LastMonth \in Nat /\ at.month \in Nat /\ at.month <= LastMonth
      /\ date.month \in Nat
  BY RecordConstants DEF CalendarDates
<1>2. \A k \in Nat : N(k) \in CalendarDates /\ N(k).month = date.month + k * count
                     /\ N(k).month \in Nat
  <2>1. ASSUME NEW k \in Nat
        PROVE  N(k) \in CalendarDates /\ N(k).month = date.month + k * count
                 /\ N(k).month \in Nat
    <3>1. N(k) \in CalendarDates /\ N(k).month = date.month + k * count
      <4>1. count \in Nat
        OBVIOUS
      <4>2. Nth(date, day, count, k) \in CalendarDates /\ InMonth(date, day, count, k)
        BY <4>1, NthDate
      <4>3. QED BY <4>2 DEF InMonth
    <3>2. k * count \in Nat
      OBVIOUS
    <3> HIDE DEF N
    <3>3. QED BY <1>1, <3>1, <3>2
  <2> HIDE DEF N
  <2>2. QED BY <2>1
<1>6. ASSUME NEW k \in Nat, NEW i \in Nat, i # 0
      PROVE  Dated(N(k), N(k).month + i * count, day) = N(k + i)
  <2>1. count \in Nat
    OBVIOUS
  <2>2. CountsOn(date, day, count, k, i)
    BY <1>6, <2>1, NthOn
  <2>3. QED BY <2>2 DEF CountsOn
<1>7. N(m) \in CalendarDates /\ N(m) = Nth(date, day, count, m)
  BY <1>2
<1> HIDE DEF N
<1>3. CASE ~D!Earlier(N(m), at)
  <2>1. D!projectNextFutureDueDate(N(m), at, count, day) = N(m)
    BY <1>3 DEF D!projectNextFutureDueDate
  <2>2. m \in Open /\ Open \in SUBSET Int /\ \A k \in Open : m <= k
    BY <1>1, <1>3
  <2>3. D!Min(Open) = m
    <3> HIDE DEF Open
    <3>1. QED BY <2>2, LeastIs
  <2>4. LeadsTo(date, day, count, m, at, m)
    BY <2>1, <2>3 DEF N, LeadsTo
  <2>5. QED BY <2>4
<1>4. CASE D!Earlier(N(m), at)
  <2>1. N(m).month <= at.month
    BY <1>1, <1>2, <1>4, OtherMonth
  <2>2. PICK a, j : a = at.month - N(m).month /\ j = a \div count
    OBVIOUS
  <2>3. a \in Nat /\ a <= LastMonth
    BY <1>1, <1>2, <2>1, <2>2
  <2>4. j \in Nat /\ j <= a /\ j * count <= a /\ a < (j + 1) * count
    BY <2>2, <2>3, QuotientBounds
  <2>5. /\ N(m + j).month = N(m).month + j * count
        /\ N(m + j + 1).month = N(m).month + (j + 1) * count
    <3>1. PICK s, e : s = m + j /\ e = m + j + 1
      OBVIOUS
    <3>2. m \in Nat /\ s \in Nat /\ e \in Nat
      BY <2>4, <3>1
    <3>3. s * count = m * count + j * count
      BY <2>4, <3>1
    <3>4. e * count = m * count + (j + 1) * count
      BY <2>4, <3>1
    <3>5. N(m).month = date.month + m * count
      BY <1>2
    <3>6. N(s).month = date.month + s * count
      BY <1>2, <3>2
    <3>7. N(e).month = date.month + e * count
      BY <1>2, <3>2
    <3>8. m * count \in Nat /\ j * count \in Nat /\ (j + 1) * count \in Nat
      BY <2>4
    <3>9. N(s).month = N(m).month + j * count
      BY <1>1, <3>3, <3>5, <3>6, <3>8
    <3>10. N(e).month = N(m).month + (j + 1) * count
      BY <1>1, <3>4, <3>5, <3>7, <3>8
    <3>11. QED BY <3>1, <3>9, <3>10
  <2>6. N(m + j).month <= at.month /\ N(m + j + 1).month > at.month
    BY <1>1, <1>2, <2>2, <2>3, <2>4, <2>5
  <2>7. PICK start : start = IF j > 0 THEN D!calculateNextDueDate(N(m), j * count, day)
                             ELSE N(m)
    OBVIOUS
  <2>8. D!projectNextFutureDueDate(N(m), at, count, day)
          = D!OnTo(start, at, count, day)
    BY <1>4, <2>2, <2>7 DEF D!projectNextFutureDueDate
  <2>9. start = N(m + j)
    <3>1. CASE j = 0
      BY <2>4, <2>7, <3>1
    <3>2. CASE j # 0
      <4>1. start = Dated(N(m), N(m).month + j * count, day)
        BY <2>4, <2>7, <3>2, Calculated
      <4>2. Dated(N(m), N(m).month + j * count, day) = N(m + j)
        BY <1>6, <2>4, <3>2
      <4>3. QED BY <4>1, <4>2
    <3>3. QED BY <3>1, <3>2
  <2>10. start \in CalendarDates
    BY <1>2, <2>4, <2>9
  <2>11. PICK u : /\ Walk(u, start, count, day)
                  /\ D!OnTo(start, at, count, day) = u[Stop(u, at)]
    <3>1. count \in Nat
      OBVIOUS
    <3>2. QED BY <2>10, <3>1, LoopDates
  <2>12. u[1] = N(m + j + 1)
    <3>1. 1 \in 1..LastMonth + 1
      BY <1>1
    <3>2. u[1] = Dated(u[0], u[0].month + count, day)
      BY <2>11, <3>1 DEF Walk
    <3>3. PICK i : i = m + j
      OBVIOUS
    <3>4. i \in Nat /\ 1 \in Nat /\ 1 # 0 /\ 1 * count = count
      BY <2>4, <3>3
    <3>5. Dated(N(i), N(i).month + 1 * count, day) = N(i + 1)
      BY <1>6, <3>4
    <3>6. u[0] = N(i)
      BY <2>9, <2>11, <3>3 DEF Walk
    <3>7. QED BY <3>2, <3>3, <3>4, <3>5, <3>6
  <2>13. ~D!Earlier(N(m + j + 1), at)
    <3>1. PICK e : e = m + j + 1
      OBVIOUS
    <3>2. e \in Nat
      BY <2>4, <3>1
    <3>3. N(e).month \in Nat
      BY <1>2, <3>2
    <3>4. N(e).month > at.month
      BY <2>6, <3>1
    <3>5. QED BY <1>1, <3>1, <3>3, <3>4, OtherMonth
  <2>14. ASSUME NEW k \in m..(m + j - 1) PROVE D!Earlier(N(k), at)
    <3>1. k \in Nat /\ k + 1 <= m + j /\ m + j \in Nat
      BY <2>4
    <3>2. (k + 1) * count <= (m + j) * count
      BY <3>1
    <3>3. N(k).month < N(m + j).month
      <4>1. (k + 1) * count = k * count + count
        BY <3>1
      <4>2. k * count \in Nat /\ (m + j) * count \in Nat
        BY <3>1
      <4>3. N(k).month = date.month + k * count
        BY <1>2, <3>1
      <4>4. PICK s : s = m + j
        OBVIOUS
      <4>5. N(s).month = date.month + s * count
        BY <1>2, <3>1, <4>4
      <4>6. QED BY <1>1, <3>2, <4>1, <4>2, <4>3, <4>4, <4>5
    <3>4. N(k).month \in Nat
      BY <1>2, <3>1
    <3>5. PICK s : s = N(m + j).month
      OBVIOUS
    <3>6. s \in Nat
      BY <1>2, <3>1, <3>5
    <3>7. N(k).month < at.month
      BY <1>1, <2>6, <3>3, <3>4, <3>5, <3>6
    <3>8. QED BY <1>1, <3>4, <3>7, OtherMonth
  <2> DEFINE Loop == {k \in 0..LastMonth + 1 : ~D!Earlier(u[k], at)}
  <2>15. Open \in SUBSET Int /\ Loop \in SUBSET Int
    BY <1>1
  <2>16. CASE ~D!Earlier(N(m + j), at)
    <3>1. m + j \in Open /\ \A k \in Open : m + j <= k
      BY <1>1, <2>3, <2>4, <2>14, <2>16
    <3>2. 0 \in Loop /\ \A k \in Loop : 0 <= k
      BY <1>1, <2>9, <2>11, <2>16 DEF Walk
    <3>3. D!Min(Open) = m + j /\ D!Min(Loop) = 0
      <4> HIDE DEF Open, Loop
      <4>1. QED BY <2>15, <3>1, <3>2, LeastIs
    <3>7. Stop(u, at) = 0
      BY <3>3 DEF Stop
    <3>4. D!projectNextFutureDueDate(N(m), at, count, day) = N(m + j)
      BY <2>8, <2>9, <2>11, <3>7 DEF Walk
    <3>5. m + j \in Nat /\ m + j >= m
      BY <2>4
    <3>6. LeadsTo(date, day, count, m, at, m + j)
      BY <3>3, <3>4, <3>5 DEF N, LeadsTo
    <3>9. QED BY <3>5, <3>6
  <2>17. CASE D!Earlier(N(m + j), at)
    <3>1. m + j + 1 \in Open /\ \A k \in Open : m + j + 1 <= k
      BY <1>1, <2>3, <2>4, <2>13, <2>14, <2>17
    <3>8. D!Earlier(u[0], at)
      BY <2>9, <2>11, <2>17 DEF Walk
    <3>2. 1 \in Loop /\ \A k \in Loop : 1 <= k
      BY <1>1, <2>12, <2>13, <3>8
    <3>3. D!Min(Open) = m + j + 1 /\ D!Min(Loop) = 1
      <4> HIDE DEF Open, Loop
      <4>1. QED BY <2>15, <3>1, <3>2, LeastIs
    <3>7. Stop(u, at) = 1
      BY <3>3 DEF Stop
    <3>4. D!projectNextFutureDueDate(N(m), at, count, day) = N(m + j + 1)
      BY <2>8, <2>11, <2>12, <3>7
    <3>5. m + j + 1 \in Nat /\ m + j + 1 >= m
      BY <2>4
    <3>6. LeadsTo(date, day, count, m, at, m + j + 1)
      BY <3>3, <3>4, <3>5 DEF N, LeadsTo
    <3>9. QED BY <3>5, <3>6
  <2>18. QED BY <2>16, <2>17
<1>5. QED BY <1>3, <1>4

\* The next date is the one that counting from the first gives.
MonthInv ==
  /\ first \in CalendarDates /\ anchor \in Nat /\ step \in Nat \ {0} /\ past \in Nat
  /\ due = Nth(first, anchor, step, past)

LEMMA Moment ==
  ASSUME NEW d \in D!Moments
  PROVE  d \in CalendarDates /\ d.month \in 0..LastMonth
<1>1. PICK m \in 0..LastMonth :
        d \in [month : {m}, day : Anchors \cap 1..D!DaysIn(m), time : DayTimes]
  BY DEF D!Moments
<1>2. Anchors \subseteq Nat /\ m \in Nat
  BY RecordConstants
<1>3. QED BY <1>1, <1>2 DEF CalendarDates

LEMMA CountedDate ==
  ASSUME NEW n
  PROVE  D!Occurrence(n) = Nth(first, anchor, step, n)
BY DEF D!Occurrence, Nth, Dated

\* Where a pause that ends at a moment leads to.
LEMMA TakenUp ==
  ASSUME MonthInv, NEW at, at.month \in 0..LastMonth
  PROVE  \E n \in Nat :
           /\ n >= past
           /\ D!projectNextFutureDueDate(due, at, step, anchor)
                = Nth(first, anchor, step, n)
           /\ n = D!Min({k \in past..(past + LastMonth + 1) :
                           ~D!Earlier(D!Occurrence(k), at)})
<1>1. PICK date, day, count, m : date = first /\ day = anchor /\ count = step /\ m = past
  OBVIOUS
<1>2. /\ date \in CalendarDates /\ day \in Nat /\ count \in Nat \ {0} /\ m \in Nat
      /\ due = Nth(date, day, count, m)
  BY <1>1 DEF MonthInv
<1>3. PICK n \in Nat : LeadsTo(date, day, count, m, at, n)
  BY <1>2, Projected
<1>4. {k \in m..(m + LastMonth + 1) : ~D!Earlier(Nth(date, day, count, k), at)}
        = {k \in past..(past + LastMonth + 1) : ~D!Earlier(D!Occurrence(k), at)}
  BY <1>1, CountedDate
<1>5. QED BY <1>1, <1>2, <1>3, <1>4 DEF LeadsTo

LEMMA MonthStarts ==
  ASSUME D!Init
  PROVE  MonthInv
<1>1. first \in CalendarDates
  BY Moment DEF D!Init
<1>2. anchor \in Nat /\ step \in Nat \ {0}
  BY RecordConstants DEF D!Init
<1>3. due = Nth(first, anchor, step, past) /\ past = 0
  BY DEF D!Init, Nth
<1>4. QED BY <1>1, <1>2, <1>3 DEF MonthInv

LEMMA MonthNext ==
  ASSUME MonthInv, D!Next
  PROVE  MonthInv'
<1>1. PICK date, day, count, m : date = first /\ day = anchor /\ count = step /\ m = past
  OBVIOUS
<1>2. /\ date \in CalendarDates /\ day \in Nat /\ count \in Nat \ {0} /\ m \in Nat
      /\ due = Nth(date, day, count, m)
  BY <1>1 DEF MonthInv
<1>3. first' = date /\ anchor' = day /\ step' = count
  BY <1>1 DEF D!Next, D!Generate, D!Resume
<1>4. ASSUME NEW n \in Nat, due' = Nth(date, day, count, n), past' = n
      PROVE  MonthInv'
  BY <1>2, <1>3, <1>4 DEF MonthInv
<1>5. CASE D!Generate
  <2>1. due' = D!calculateNextDueDate(due, count, day) /\ past' = m + 1
    BY <1>1, <1>5 DEF D!Generate
  <2>2. count \in Nat /\ 1 * count = count
    BY <1>2
  <2>3. due' = Dated(due, due.month + 1 * count, day)
    BY <2>1, <2>2, Calculated
  <2>4. 1 \in Nat /\ 1 # 0
    OBVIOUS
  <2>5. CountsOn(date, day, count, m, 1)
    BY <1>2, <2>2, <2>4, NthOn
  <2>6. due' = Nth(date, day, count, m + 1)
    BY <1>2, <2>3, <2>5 DEF CountsOn
  <2>7. m + 1 \in Nat
    BY <1>2
  <2>8. QED BY <1>4, <2>1, <2>6, <2>7
<1>6. CASE D!Resume
  <2>1. PICK at \in D!Moments :
          /\ due' = D!projectNextFutureDueDate(due, at, count, day)
          /\ past' = m + (due'.month - due.month) \div count
    BY <1>1, <1>6 DEF D!Resume
  <2>2. at.month \in 0..LastMonth
    BY Moment
  <2>3. PICK n \in Nat : n >= m /\ due' = Nth(date, day, count, n)
    BY <1>1, <2>1, <2>2, TakenUp
  <2>4. count \in Nat /\ date.month \in Nat
    BY <1>2 DEF CalendarDates
  <2>5. due'.month = date.month + n * count
    <3>1. InMonth(date, day, count, n)
      BY <1>2, <2>4, NthDate
    <3>2. QED BY <2>3, <3>1 DEF InMonth
  <2>6. due.month = date.month + m * count
    <3>1. InMonth(date, day, count, m)
      BY <1>2, <2>4, NthDate
    <3>2. QED BY <1>2, <3>1 DEF InMonth
  <2>7. PICK k : k = n - m
    OBVIOUS
  <2>8. k \in Nat /\ n = m + k
    BY <1>2, <2>3, <2>7
  <2>9. n * count = m * count + k * count
    BY <1>2, <2>4, <2>8
  <2>10. m * count \in Nat /\ k * count \in Nat
    BY <1>2, <2>4, <2>8
  <2>11. due'.month - due.month = k * count
    BY <2>4, <2>5, <2>6, <2>9, <2>10
  <2>12. past' = m + k
    BY <1>2, <2>1, <2>8, <2>11, Quotient
  <2>13. QED BY <1>4, <2>3, <2>8, <2>12
<1>7. QED BY <1>5, <1>6 DEF D!Next

LEMMA MonthStutter ==
  ASSUME MonthInv, UNCHANGED months
  PROVE  MonthInv'
BY DEF MonthInv, months

LEMMA MonthDates ==
  ASSUME MonthInv
  PROVE  D!MonthsAreRegular
<1>1. due = D!Occurrence(past)
  BY CountedDate DEF MonthInv
<1>2. ASSUME NEW at \in D!Moments, at.month + step <= LastMonth
      PROVE  D!projectNextFutureDueDate(due, at, step, anchor)
               = D!Occurrence(D!Min({k \in past..(past + LastMonth + 1) :
                                       ~D!Earlier(D!Occurrence(k), at)}))
  <2>1. at.month \in 0..LastMonth
    BY Moment
  <2>2. PICK n \in Nat :
          /\ D!projectNextFutureDueDate(due, at, step, anchor)
               = Nth(first, anchor, step, n)
          /\ n = D!Min({k \in past..(past + LastMonth + 1) :
                          ~D!Earlier(D!Occurrence(k), at)})
    BY <2>1, TakenUp
  <2>3. QED BY <2>2, CountedDate
<1>3. QED BY <1>1, <1>2 DEF D!MonthsAreRegular

-----------------------------------------------------------------------------
(* Records: whatever runs keeps its invariant, and the rest is at rest.    *)

world == <<focus, vars, made, meter, browser, client, months>>

RecordInv ==
  /\ IInv
  /\ focus = "meter" => MeterInv
  /\ focus = "browser" => BrowserInv
  /\ focus = "tab" => Lone!Inv
  /\ focus = "tabs" => Pair!Inv
  /\ focus = "months" => MonthInv

\* None is no person and no token, in a lone tab and in several.
LEMMA NoneStandsApart == Lone!NoneIsApart /\ Pair!NoneIsApart
  BY RecordConstants DEF Lone!NoneIsApart, Pair!NoneIsApart

LEMMA RecordStarts == RecordInit => RecordInv
<1> SUFFICES ASSUME RecordInit PROVE RecordInv
  OBVIOUS
<1>1. IInv
  BY MergeStarts DEF RecordInit
<1>2. \/ focus = "accounts"
      \/ focus = "meter" /\ M!Init
      \/ focus = "browser" /\ B!Init
      \/ focus = "months" /\ D!Init
      \/ focus = "tab" /\ Lone!Init
      \/ focus = "tabs" /\ Pair!Init
  BY DEF RecordInit
<1>3. /\ M!Init => MeterInv
      /\ B!Init => BrowserInv
      /\ D!Init => MonthInv
  BY MeterStarts, BrowserStarts, MonthStarts
<1>4. Lone!Init => Lone!Inv
  BY NoneStandsApart, Lone!Initially
<1>5. Pair!Init => Pair!Inv
  BY NoneStandsApart, Pair!Initially
<1>6. QED BY <1>1, <1>2, <1>3, <1>4, <1>5 DEF RecordInv

LEMMA RecordRests ==
  ASSUME RecordInv, UNCHANGED world
  PROVE  RecordInv'
<1>1. UNCHANGED focus /\ UNCHANGED vars /\ UNCHANGED made /\ UNCHANGED meter
      /\ UNCHANGED browser /\ UNCHANGED client /\ UNCHANGED months
  BY DEF world
<1>2. IInv'
  BY <1>1, InvStep DEF RecordInv
<1>3. MeterInv => MeterInv'
  BY <1>1, MeterStutter
<1>4. BrowserInv => BrowserInv'
  BY <1>1, BrowserStutter
<1>5. MonthInv => MonthInv'
  BY <1>1, MonthStutter
<1>6. UNCHANGED Lone!vars /\ UNCHANGED Pair!vars
  BY <1>1 DEF client, Lone!vars, Pair!vars
<1>7. Lone!Inv => Lone!Inv'
  BY <1>6, NoneStandsApart, Lone!Steps
<1>8. Pair!Inv => Pair!Inv'
  BY <1>6, NoneStandsApart, Pair!Steps
<1>9. QED
  BY <1>1, <1>2, <1>3, <1>4, <1>5, <1>7, <1>8 DEF RecordInv

LEMMA RecordsKept ==
  ASSUME RecordInv, [RecordNext]_world
  PROVE  RecordInv'
<1>1. CASE UNCHANGED world
  BY <1>1, RecordRests
<1>2. CASE RecordNext
  <2>1. focus' = focus
    BY <1>2 DEF RecordNext
  <2>2. [Next]_vars
    BY <1>2 DEF RecordNext
  <2>3. IInv'
    BY <2>2, InvStep DEF RecordInv
  <2>4. CASE focus = "accounts"
    BY <2>1, <2>3, <2>4 DEF RecordInv
  <2>5. CASE focus = "meter" /\ M!Next
    <3>1. MeterInv'
      BY <2>5, MeterNext DEF RecordInv
    <3>2. QED BY <2>1, <2>3, <2>5, <3>1 DEF RecordInv
  <2>6. CASE focus = "browser" /\ B!Next
    <3>1. BrowserInv'
      BY <2>6, BrowserNext DEF RecordInv
    <3>2. QED BY <2>1, <2>3, <2>6, <3>1 DEF RecordInv
  <2>7. CASE focus = "tab" /\ Lone!Next
    <3>1. Lone!Inv'
      BY <2>7, NoneStandsApart, Lone!Steps DEF RecordInv
    <3>2. QED BY <2>1, <2>3, <2>7, <3>1 DEF RecordInv
  <2>8. CASE focus = "tabs" /\ Pair!Next
    <3>1. Pair!Inv'
      BY <2>8, NoneStandsApart, Pair!Steps DEF RecordInv
    <3>2. QED BY <2>1, <2>3, <2>8, <3>1 DEF RecordInv
  <2>9. CASE focus = "months" /\ D!Next
    <3>1. MonthInv'
      BY <2>9, MonthNext DEF RecordInv
    <3>2. QED BY <2>1, <2>3, <2>9, <3>1 DEF RecordInv
  <2>10. QED
    BY <1>2, <2>4, <2>5, <2>6, <2>7, <2>8, <2>9 DEF RecordNext
<1>3. QED BY <1>1, <1>2

THEOREM RecordInvariance == RecordSpec => []RecordInv
<1>1. RecordSpec => RecordInit /\ [][RecordNext]_world
  BY DEF RecordSpec, world
<1>2. QED BY <1>1, RecordStarts, RecordsKept, PTL

\* Every component keeps the types of its tables.
THEOREM RecordTypeCorrect == RecordSpec => []RecordTypes
<1>1. RecordInv => RecordTypes
  <2> SUFFICES ASSUME RecordInv PROVE RecordTypes
    OBVIOUS
  <2>1. TypeOK
    BY DEF RecordInv, IInv
  <2>2. focus = "meter" => M!TypeOK
    BY MeterTypes DEF RecordInv
  <2>3. focus = "browser" => B!TypeOK
    BY DEF RecordInv, BrowserInv
  <2>4. focus = "tab" => Lone!TypeOK
    BY NoneStandsApart, Lone!Types DEF RecordInv
  <2>5. focus = "tabs" => Pair!TypeOK
    BY NoneStandsApart, Pair!Types DEF RecordInv
  <2>6. QED BY <2>1, <2>2, <2>3, <2>4, <2>5 DEF RecordTypes
<1>2. QED BY <1>1, RecordInvariance, PTL

\* Merges form no chains.
THEOREM NoChainsForm == RecordSpec => []NoChains
<1>1. RecordInv => NoChains
  BY DEF RecordInv, IInv
<1>2. QED BY <1>1, RecordInvariance, PTL

\* Nothing refers to a merged account but rows written after the merge.
THEOREM NothingStaysBehind == RecordSpec => []NothingLeftBehind
<1>1. RecordInv => NothingLeftBehind
  BY DEF RecordInv, IInv
<1>2. QED BY <1>1, RecordInvariance, PTL

\* A merged account stays merged into the same one and out of use.
THEOREM MergedForGood == RecordSpec => MergedStays
<1>1. RecordInv /\ [RecordNext]_world => [Lasting]_users
  <2> SUFFICES ASSUME RecordInv, [RecordNext]_world PROVE [Lasting]_users
    OBVIOUS
  <2>1. [Next]_vars
    BY DEF RecordNext, world
  <2>2. QED BY <2>1, MergeLasts DEF RecordInv
<1>2. RecordSpec => [][RecordNext]_world
  BY DEF RecordSpec, world
<1>3. QED BY <1>1, <1>2, RecordInvariance, PTL DEF MergedStays, Lasting

\* The handlers of a meter keep its chain whole, and what it shows up to date,
\* as far as they do either.
THEOREM ReadingsAreKept == RecordSpec => ReadingsKept
<1> DEFINE Kept == focus = "meter" => M!KeepsChain /\ M!KeepsShown
<1>1. RecordInv /\ [RecordNext]_world => [Kept]_<<readings, last>>
  <2> SUFFICES ASSUME RecordInv, [RecordNext]_world,
                      focus = "meter", <<readings, last>>' # <<readings, last>>
               PROVE  M!KeepsChain /\ M!KeepsShown
    OBVIOUS
  <2>1. ~ UNCHANGED world
    BY DEF world, meter
  <2>2. M!Next
    BY <2>1 DEF RecordNext
  <2>3. QED BY <2>2, MeterNext DEF RecordInv
<1>2. RecordSpec => [][RecordNext]_world
  BY DEF RecordSpec, world
<1>3. QED BY <1>1, <1>2, RecordInvariance, PTL DEF ReadingsKept

\* Nobody shows HRM a token that was exchanged, unless its answer got lost.
THEOREM TokensStayCurrent == RecordSpec => []TokensAreCurrent
<1>1. RecordInv => TokensAreCurrent
  BY BrowserCurrent DEF RecordInv, TokensAreCurrent
<1>2. QED BY <1>1, RecordInvariance, PTL

\* Nobody is mistaken for the person whose token the browser sends.
THEOREM IdentityStaysTrue == RecordSpec => []IdentityIsTrue
<1>1. RecordInv => IdentityIsTrue
  BY Lone!Identity, Pair!Identity DEF RecordInv, IdentityIsTrue
<1>2. QED BY <1>1, RecordInvariance, PTL

\* An answer of one person's session never takes over or ends another's.
THEOREM NobodyTakesOverEver == RecordSpec => NobodyTakesOver
<1> DEFINE Left == /\ focus = "tab" => Lone!LeavesOthersAlone
                   /\ focus = "tabs" => Pair!LeavesOthersAlone
<1>1. RecordInv => [Left]_cookies
  <2>1. ASSUME RecordInv, focus = "tab" PROVE [Lone!LeavesOthersAlone]_cookies
    BY <2>1, NoneStandsApart, Lone!OthersLeft DEF RecordInv
  <2>2. ASSUME RecordInv, focus = "tabs" PROVE [Pair!LeavesOthersAlone]_cookies
    BY <2>2, NoneStandsApart, Pair!OthersLeft DEF RecordInv
  <2>3. QED BY <2>1, <2>2
<1>2. QED BY <1>1, RecordInvariance, PTL DEF NobodyTakesOver

\* However many orders and pauses lie behind, the next date is the one that
\* counting from the first gives, and no pause skips one that is to come.
THEOREM MonthsStayRegular == RecordSpec => []MonthsAreRegular
<1>1. RecordInv => MonthsAreRegular
  BY MonthDates DEF RecordInv, MonthsAreRegular
<1>2. QED BY <1>1, RecordInvariance, PTL
=============================================================================
