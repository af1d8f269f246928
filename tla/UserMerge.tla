----------------------------- MODULE UserMerge ------------------------------
(***************************************************************************)
(* Merging the accounts of one person: UserMergeService, and the handlers  *)
(* of UsersService that write accounts at the same time.                   *)
(*                                                                         *)
(* An administrator previews a merge and confirms it later.  confirm is a  *)
(* serializable transaction that locks the preview and both accounts, and  *)
(* looks at everything again: one action.  The other handlers use no       *)
(* transaction; they read, and write what they made of it afterwards.      *)
(***************************************************************************)
EXTENDS Integers

CONSTANTS
  Users,     \* accounts
  Docs,      \* rows that refer to an account, each with a version
  MaxCalls,  \* how many calls are made
  None       \* no account

ASSUME MergeConstants == None \notin Users

VARIABLES
  users,     \* the accounts
  docs,      \* the rows: who is referred to, and the version
  running,   \* accounts with a work session under way
  previews,  \* the previews that were neither confirmed nor expired
  open,      \* the other calls under way
  late,      \* rows written to an account that was merged since it was read
  calls

vars == <<users, docs, running, previews, open, late, calls>>

\* An account of HRM has its identifier; a LEGACY one lost it.
Kinds == {"LOCAL", "LEGACY", "HRM"}

Usable(row) == row.active /\ ~row.blocked /\ row.hrmActive

Init ==
  /\ \E kind \in [Users -> Kinds] :
       users = [u \in Users |->
         [kind |-> kind[u], active |-> TRUE, blocked |-> FALSE,
          hrmActive |-> TRUE, merged |-> None, version |-> 1]]
  /\ \E owner \in [Docs -> Users] :
       docs = [d \in Docs |-> [owner |-> owner[d], version |-> 1]]
  /\ running = {}
  /\ previews = {}
  /\ open = {}
  /\ late = {}
  /\ calls = 0

Call ==
  /\ calls < MaxCalls
  /\ calls' = calls + 1
-----------------------------------------------------------------------------
(* Merging.                                                                *)

FaultBlocked(s, t, actor) ==
  \/ s = actor
  \/ users[s].merged # None \/ users[t].merged # None
  \/ users[s].kind = "HRM"
  \/ ~Usable(users[t])
  \/ users[s].kind = "LEGACY" /\ users[t].kind # "HRM"
  \/ running \cap {s, t} # {}

\* inspect: what keeps s from being merged into t.
Blocked(s, t, actor) ==
  \/ s = actor
  \/ users[s].merged # None \/ users[t].merged # None
  \/ users[s].kind = "HRM"
  \/ ~Usable(users[t])
  \/ users[s].kind = "LEGACY" /\ users[t].kind # "HRM"
  \/ \E u \in Users : users[u].merged = s
  \/ running \cap {s, t} # {}

FaultReferences(s) == {d \in Docs : docs[d].owner = s /\ docs[d].version = 1}

\* Every row that refers to s, in pages of 500.
References(s) == {d \in Docs : docs[d].owner = s}

\* The fingerprint: both accounts, and every row that would change.
Fingerprint(s, t) ==
  [source |-> users[s], target |-> users[t],
   changes |-> {<<d, docs[d].version>> : d \in References(s)}]

preview(actor, s, t) ==
  /\ Call
  /\ s # t
  /\ ~Blocked(s, t, actor)
  /\ previews' = previews \cup
       {[actor |-> actor, source |-> s, target |-> t, seen |-> Fingerprint(s, t)]}
  /\ UNCHANGED <<users, docs, running, open, late>>

MovedTo(row, t) == [row EXCEPT !.owner = t, !.version = @ + 1]

Archived(row, t) ==
  [row EXCEPT !.active = FALSE, !.blocked = TRUE, !.merged = t, !.version = @ + 1]

Renewed(row) == [row EXCEPT !.version = @ + 1]

\* A preview that does not show what there is by now is refused.
confirm(p) ==
  LET s == p.source
      t == p.target
  IN  /\ Call
      /\ ~Blocked(s, t, p.actor)
      /\ p.seen = Fingerprint(s, t)
      /\ docs' = [d \in Docs |->
                    IF d \in References(s) THEN MovedTo(docs[d], t) ELSE docs[d]]
      /\ users' = [u \in Users |->
                     IF u = s THEN Archived(users[u], t)
                     ELSE IF u = t THEN Renewed(users[u]) ELSE users[u]]
      /\ previews' = previews \ {p}
      /\ late' = late \ References(s)
      /\ UNCHANGED <<running, open>>

\* A preview is good for ten minutes.
Expire(p) ==
  /\ previews' = previews \ {p}
  /\ UNCHANGED <<users, docs, running, open, late, calls>>
-----------------------------------------------------------------------------
(* What goes on at the same time.                                          *)

Begin(call) ==
  /\ Call
  /\ open' = open \cup {call}
  /\ UNCHANGED <<users, docs, running, previews, late>>

\* updateUser locks or unlocks an account.
updateUser(u) ==
  /\ users[u].merged = None
  /\ \E active \in BOOLEAN :
       Begin([do |-> "update", user |-> u, value |-> active, row |-> users[u]])

\* syncHrmUsers reads the accounts, and what HRM says of them.
syncHrmUsers(u) ==
  /\ users[u].merged = None /\ users[u].kind = "HRM"
  /\ \E active \in BOOLEAN :
       Begin([do |-> "sync", user |-> u, value |-> active, row |-> users[u]])

Withdrawn(row) ==
  [row EXCEPT !.active = FALSE, !.hrmActive = FALSE, !.version = @ + 1]

\* Accounts of HRM that a synchronisation does not find there any more are
\* taken out of use by one statement; a LEGACY account lost its identifier.
Deactivate(absent) ==
  /\ Call
  /\ absent # {}
  /\ \A u \in absent : users[u].kind = "HRM"
                         /\ (users[u].active \/ users[u].hrmActive)
  /\ users' = [u \in Users |-> IF u \in absent THEN Withdrawn(users[u]) ELSE users[u]]
  /\ UNCHANGED <<docs, running, previews, open, late>>

Updated(row, active, blocked) ==
  [row EXCEPT !.blocked = blocked, !.active = active, !.version = @ + 1]

Synced(row, active, hrmActive) ==
  [row EXCEPT !.active = active, !.hrmActive = hrmActive]

\* The account as either leaves it; the synchronisation keeps the version.
Edited(t) ==
  IF t.do = "update"
  THEN Updated(users[t.user], t.value /\ t.row.hrmActive, ~t.value)
  ELSE Synced(users[t.user], t.value /\ ~t.row.blocked, t.value)

FaultWritable(u) == TRUE

\* where: { id, mergedIntoId: null }
Writable(u) == users[u].merged = None

WriteUser(t) ==
  /\ t.do \in {"update", "sync"}
  /\ users' = IF Writable(t.user)
              THEN [users EXCEPT ![t.user] = Edited(t)] ELSE users
  /\ open' = open \ {t}
  /\ UNCHANGED <<docs, running, previews, late, calls>>

Deleted(row) ==
  [row EXCEPT !.active = FALSE, !.blocked = TRUE, !.version = @ + 1]

deleteUser(u) ==
  /\ Call
  /\ users' = [users EXCEPT ![u] = Deleted(@)]
  /\ UNCHANGED <<docs, running, previews, open, late>>

\* A handler reads a row, and an account to enter in it.
assign(d, u) ==
  /\ Usable(users[u]) /\ users[u].merged = None
  /\ Begin([do |-> "assign", user |-> u, doc |-> d, version |-> docs[d].version])

\* The row is written if its version is still the same; the account is not
\* looked at any more.
WriteDoc(t) ==
  /\ t.do = "assign"
  /\ IF docs[t.doc].version = t.version
     THEN /\ docs' = [docs EXCEPT ![t.doc] = MovedTo(@, t.user)]
          /\ late' = IF users[t.user].merged # None THEN late \cup {t.doc}
                     ELSE late \ {t.doc}
     ELSE UNCHANGED <<docs, late>>
  /\ open' = open \ {t}
  /\ UNCHANGED <<users, running, previews, calls>>

\* A technician clocks in or out.
Clock(u) ==
  /\ Call
  /\ Usable(users[u]) /\ users[u].merged = None
  /\ running' = IF u \in running THEN running \ {u} ELSE running \cup {u}
  /\ UNCHANGED <<users, docs, previews, open, late>>

Next ==
  \/ \E a, s, t \in Users : preview(a, s, t)
  \/ \E p \in previews : confirm(p) \/ Expire(p)
  \/ \E u \in Users : updateUser(u) \/ syncHrmUsers(u) \/ deleteUser(u) \/ Clock(u)
  \/ \E absent \in SUBSET Users : Deactivate(absent)
  \/ \E d \in Docs, u \in Users : assign(d, u)
  \/ \E t \in open : WriteUser(t) \/ WriteDoc(t)

Spec == Init /\ [][Next]_vars
-----------------------------------------------------------------------------
(* Properties.                                                             *)

Account == [kind : Kinds, active : BOOLEAN, blocked : BOOLEAN,
            hrmActive : BOOLEAN, merged : Users \cup {None}, version : Nat]

Doc == [owner : Users, version : Nat]

Preview == [actor : Users, source : Users, target : Users,
            seen : [source : Account, target : Account,
                    changes : SUBSET (Docs \X Nat)]]

Pending ==
  [do : {"update", "sync"}, user : Users, value : BOOLEAN, row : Account]
    \cup [do : {"assign"}, user : Users, doc : Docs, version : Nat]

\* Every variable keeps its type.
TypeOK ==
  /\ users \in [Users -> Account]
  /\ docs \in [Docs -> Doc]
  /\ running \subseteq Users
  /\ previews \subseteq Preview
  /\ open \subseteq Pending
  /\ late \subseteq Docs
  /\ calls \in Nat

\* Whoever was merged was merged into an account that is still one of its own:
\* merges never form chains, in whatever order they are previewed, confirmed
\* and repeated by several administrators.
NoChains ==
  \A u \in Users : users[u].merged # None => users[users[u].merged].merged = None

\* A merged account stays merged into the same one and out of use, whatever
\* handlers read it before the merge and write it afterwards.
MergedStays ==
  [][\A u \in Users : users[u].merged # None =>
       /\ users'[u].merged = users[u].merged
       /\ ~users'[u].active /\ users'[u].blocked]_users

\* Nothing refers to a merged account any more, but for rows that another
\* handler, which had read the account before, wrote after the merge.
NothingLeftBehind ==
  \A d \in Docs : users[docs[d].owner].merged # None => d \in late
=============================================================================
