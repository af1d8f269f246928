------------------------------ MODULE FieldWork ------------------------------
(***************************************************************************)
(* What technicians do in the field: checklists, work sessions and         *)
(* fabrication orders.  The three share no table, so each is let run by    *)
(* itself while the others are at rest: 'focus' tells which.               *)
(***************************************************************************)
EXTENDS Checklists, FiniteSets

CONSTANTS
  Orders, Items, OfficeHours,
  SessionIds,                \* WorkSessions: identifiers of sessions,
  LastTime,                  \* and the last instant
  Workloads,                 \* Fabrication: what clients may be up to
  MaxWorkCalls, MaxFabricationCalls, MaxRestarts

VARIABLES
  focus,                                                \* what runs
  wo, going,                                            \* WorkSessions
  sessions, now, calls, restarts,                       \* both
  load, orders, materials, logs, last, stock, ledger, call, clashed,
  missed, written                                       \* Fabrication

shared == <<sessions, now, calls, restarts>>

W == INSTANCE WorkSessions WITH
       open <- going, Users <- Clients, Ids <- SessionIds,
       Handlers <- {"startWorkSession", "stopWorkSession", "transition"},
       MaxCalls <- MaxWorkCalls

F == INSTANCE FabricationProofs WITH MaxCalls <- MaxFabricationCalls

\* What the theorems assume of the constants.
ASSUME FieldConstants ==
  /\ IsFiniteSet(SessionIds) /\ LastTime \in Nat
  /\ F!Sane

fabrication == <<load, orders, materials, logs, last, stock, ledger, call,
                 clashed, missed, written>>

AtRest(variables) == variables = << >>

NoSessions == AtRest(sessions) /\ now = 0 /\ calls = 0 /\ restarts = 0
NoWork == AtRest(wo) /\ going = {}
NoFabrication ==
  /\ AtRest(load) /\ AtRest(orders) /\ AtRest(materials) /\ AtRest(logs)
  /\ AtRest(last) /\ AtRest(stock) /\ AtRest(ledger) /\ AtRest(call)
  /\ clashed = {} /\ missed = {} /\ AtRest(written)

FieldInit ==
  /\ Init
  /\ \/ focus = "checklists" /\ NoSessions /\ NoWork /\ NoFabrication
     \/ focus = "sessions" /\ W!Init /\ NoFabrication
     \/ focus = "fabrication" /\ F!Init /\ NoWork

FieldNext ==
  /\ UNCHANGED focus
  /\ \/ focus = "checklists" /\ Next
        /\ UNCHANGED <<shared, wo, going, fabrication>>
     \/ focus = "sessions" /\ W!Next /\ UNCHANGED <<vars, fabrication>>
     \/ focus = "fabrication" /\ F!Next /\ UNCHANGED <<vars, wo, going>>

FieldSpec ==
  FieldInit /\ [][FieldNext]_<<focus, vars, shared, wo, going, fabrication>>
-----------------------------------------------------------------------------
\* Every component keeps the types of its tables.
FieldTypes ==
  /\ TypeOK
  /\ focus = "sessions" => W!TypeOK
  /\ focus = "fabrication" => F!TypeOK

\* However the calls of several technicians overlap, and wherever the server
\* stops, nobody is clocked in twice: on work orders, or on fabrication orders.
OneRunningSession ==
  /\ focus = "sessions" => W!OneRunningSession
  /\ focus = "fabrication" => F!OneRunningSession

\* The hours of a work order never exceed what its finished sessions add up to.
HoursAreWorked == focus = "sessions" => W!HoursAreWorked

\* The hours of a fabrication order never exceed what its logs add up to, and
\* equal it while nobody is at work on it and nothing has failed.
HoursMatchLogs == focus = "fabrication" => F!HoursMatchLogs

\* Nobody stays clocked in on a fabrication order that is put on hold or ends,
\* but where the update failed to stop the session and went on.
ClosedOrdersAreQuiet == focus = "fabrication" => F!ClosedOrdersAreQuiet

\* A fabrication order is issued an item once.
IssuedOnce == focus = "fabrication" => F!IssuedOnce
=============================================================================
