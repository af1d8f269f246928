-------------------------- MODULE BrowserSessions ---------------------------
(***************************************************************************)
(* Sessions of a browser: BrowserSessionService.  The server keeps, for    *)
(* the cookie of the browser, the refresh token of a session at HRM.  HRM  *)
(* exchanges it for a new one at every refresh, after which the old one is *)
(* worth nothing; so whoever refreshes has to leave the new one behind for *)
(* the next, and all the tabs of a browser refresh for themselves.         *)
(*                                                                         *)
(* refresh and logout are transactions that lock the row of the session    *)
(* and call HRM while they hold it; each call of HRM is a step, which may  *)
(* fail, and whose answer may get lost.  HRM is modelled from its use.     *)
(***************************************************************************)
EXTENDS Integers, FiniteSets

CONSTANTS
  Tabs,      \* tabs of the browser, each makes one call at a time
  Ids,       \* sessions, in the order in which they are opened
  MaxCalls,  \* how many calls the tabs make
  MaxFaults, \* how many calls of HRM fail
  None       \* nobody

VARIABLES
  sessions,  \* the rows: the refresh token of each session
  cookie,    \* the session in the cookie of the browser, or None
  hrm,       \* hrm[i]: the token of session i that HRM takes
  holder,    \* holder[i]: the tab whose call has locked the row of i
  call,      \* call[t]: what tab t's call does next
  lost,      \* sessions whose new token was lost on the way
  calls, faults

vars == <<sessions, cookie, hrm, holder, call, lost, calls, faults>>

Idle == [step |-> "idle"]

Init ==
  /\ sessions = << >>
  /\ cookie = None
  /\ hrm = [i \in Ids |-> 0]
  /\ holder = [i \in Ids |-> None]
  /\ call = [t \in Tabs |-> Idle]
  /\ lost = {}
  /\ calls = 0 /\ faults = 0

Begin(t, state) ==
  /\ call[t] = Idle
  /\ calls < MaxCalls /\ calls' = calls + 1
  /\ call' = [call EXCEPT ![t] = state]

Continue(t, step) == call' = [call EXCEPT ![t].step = step]

\* The transaction of t ends, and leaves its row unlocked.
Release(t) ==
  /\ call' = [call EXCEPT ![t] = Idle]
  /\ holder' = [holder EXCEPT ![call[t].id] = None]

Fault == faults < MaxFaults /\ faults' = faults + 1
-----------------------------------------------------------------------------
\* open: a login stores the first token of a new session ...
open(t) ==
  /\ \E i \in Ids \ DOMAIN sessions :
       /\ hrm[i] = 0
       /\ sessions' = [j \in DOMAIN sessions \cup {i} |->
                         IF j = i THEN 1 ELSE sessions[j]]
       /\ hrm' = [hrm EXCEPT ![i] = 1]
       /\ Begin(t, [step |-> "replace", id |-> i, old |-> cookie])
  /\ UNCHANGED <<cookie, holder, lost, faults>>

\* ... deletes that of the cookie it came with, which waits for its lock, and
\* sets the cookie.
Replace(t) ==
  LET old == call[t].old IN
  /\ call[t].step = "replace"
  /\ old # None => holder[old] = None
  /\ sessions' = [i \in DOMAIN sessions \ {old} |-> sessions[i]]
  /\ cookie' = call[t].id
  /\ call' = [call EXCEPT ![t] = Idle]
  /\ UNCHANGED <<hrm, holder, lost, calls, faults>>

\* refresh and logout wait for the lock of the row that the cookie names.
refresh(t) ==
  /\ cookie # None
  /\ Begin(t, [step |-> "lock", do |-> "refresh", id |-> cookie, token |-> 0])
  /\ UNCHANGED <<sessions, cookie, hrm, holder, lost, faults>>

logout(t) ==
  /\ cookie # None
  /\ Begin(t, [step |-> "lock", do |-> "logout", id |-> cookie, token |-> 0])
  /\ UNCHANGED <<sessions, cookie, hrm, holder, lost, faults>>

\* Only then is the row read; it may be gone.
Lock(t) ==
  LET i == call[t].id IN
  /\ call[t].step = "lock"
  /\ holder[i] = None
  /\ IF i \notin DOMAIN sessions
     THEN call' = [call EXCEPT ![t] = Idle] /\ UNCHANGED holder
     ELSE /\ call' = [call EXCEPT ![t].step = "exchange", ![t].token = sessions[i]]
          /\ holder' = [holder EXCEPT ![i] = t]
  /\ UNCHANGED <<sessions, cookie, hrm, lost, calls, faults>>

\* What becomes of a call for which HRM gives no new token: a refresh is
\* rolled back, a logout deletes the row all the same.
GiveUp(t) ==
  IF call[t].do = "logout" THEN Continue(t, "delete") /\ UNCHANGED holder
  ELSE Release(t)

\* refreshPair: HRM takes its token only, and gives a new one for it or lets
\* it stand.
Exchange(t) ==
  LET i == call[t].id IN
  /\ call[t].step = "exchange"
  /\ call[t].token = hrm[i]
  /\ \E new \in {hrm[i], hrm[i] + 1} :
       /\ hrm' = [hrm EXCEPT ![i] = new]
       /\ call' = [call EXCEPT ![t].step =
                     IF call[t].do = "logout" THEN "revoke" ELSE "verify",
                               ![t].token = new]
  /\ UNCHANGED <<sessions, cookie, holder, lost, calls, faults>>

Refuse(t) ==
  /\ call[t].step = "exchange"
  /\ call[t].token # hrm[call[t].id]
  /\ GiveUp(t)
  /\ UNCHANGED <<sessions, cookie, hrm, lost, calls, faults>>

\* HRM cannot be reached, or its answer does not arrive in time.
Unanswered(t) ==
  LET i == call[t].id IN
  /\ call[t].step = "exchange"
  /\ Fault
  /\ \/ UNCHANGED <<hrm, lost>>
     \/ /\ call[t].token = hrm[i]
        /\ hrm' = [hrm EXCEPT ![i] = @ + 1]
        /\ lost' = lost \cup {i}
  /\ GiveUp(t)
  /\ UNCHANGED <<sessions, cookie, calls>>

\* The new access token is verified, and its owner looked up.
Verify(t) ==
  /\ call[t].step = "verify"
  /\ Continue(t, "store")
  /\ UNCHANGED <<sessions, cookie, hrm, holder, lost, calls, faults>>

\* When that fails, or the transaction exceeds its 20 seconds, the new token
\* is not stored.
VerifyFails(t) ==
  /\ call[t].step = "verify"
  /\ Fault
  /\ lost' = lost \cup {call[t].id}
  /\ Release(t)
  /\ UNCHANGED <<sessions, cookie, hrm, calls>>

FaultStored(t) == sessions

Stored(t) == [sessions EXCEPT ![call[t].id] = call[t].token]

Store(t) ==
  /\ call[t].step = "store"
  /\ sessions' = Stored(t)
  /\ Release(t)
  /\ UNCHANGED <<cookie, hrm, lost, calls, faults>>

\* logout revokes the session at HRM if it can.
Revoke(t) ==
  /\ call[t].step = "revoke"
  /\ \/ hrm' = [hrm EXCEPT ![call[t].id] = -1] /\ UNCHANGED faults
     \/ Fault /\ UNCHANGED hrm
  /\ Continue(t, "delete")
  /\ UNCHANGED <<sessions, cookie, holder, lost, calls>>

\* The row is deleted, the cookie stays.
Delete(t) ==
  /\ call[t].step = "delete"
  /\ sessions' = [i \in DOMAIN sessions \ {call[t].id} |-> sessions[i]]
  /\ Release(t)
  /\ UNCHANGED <<cookie, hrm, lost, calls, faults>>

Next ==
  \E t \in Tabs :
    \/ open(t) \/ Replace(t) \/ refresh(t) \/ logout(t)
    \/ Lock(t) \/ Exchange(t) \/ Refuse(t) \/ Unanswered(t)
    \/ Verify(t) \/ VerifyFails(t) \/ Store(t)
    \/ Revoke(t) \/ Delete(t)

Spec == Init /\ [][Next]_vars
-----------------------------------------------------------------------------
(* Properties.                                                             *)

Steps == {"lock", "exchange", "verify", "store", "revoke", "delete"}

\* Every variable keeps its type.
TypeOK ==
  /\ DOMAIN sessions \subseteq Ids
  /\ sessions \in [DOMAIN sessions -> Nat]
  /\ cookie \in Ids \cup {None}
  /\ hrm \in [Ids -> Int]
  /\ holder \in [Ids -> Tabs \cup {None}]
  /\ \A t \in Tabs :
       \/ call[t] = Idle
       \/ call[t] \in [step : {"replace"}, id : Ids, old : Ids \cup {None}]
       \/ call[t] \in [step : Steps, do : {"refresh", "logout"}, id : Ids,
                       token : Int]
  /\ lost \subseteq Ids

\* However many tabs refresh, log out and log in at once, none of them shows
\* HRM a token that was exchanged before, and the row keeps the one that HRM
\* takes, unless an answer of HRM got lost after the exchange.
TokensAreCurrent ==
  /\ \A i \in DOMAIN sessions \ lost :
       holder[i] = None => sessions[i] = hrm[i]
  /\ \A t \in Tabs :
       call[t].step = "exchange" /\ call[t].id \notin lost
         => call[t].token = hrm[call[t].id]
=============================================================================
