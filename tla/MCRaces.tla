------------------------------ MODULE MCRaces -------------------------------
(***************************************************************************)
(* Three instances of Maintenance, one after the other: what can happen to *)
(* one request, to one order, and to equipment that an administrator may   *)
(* take out of service at any time.  'side' tells which.                   *)
(***************************************************************************)
EXTENDS MCMaintenance

VARIABLE side

R == INSTANCE Maintenance WITH
       Handlers <- RequestRaces, Urgencies <- {FALSE}, Edits <- {}

O == INSTANCE Maintenance WITH
       Handlers <- OrderRaces, Urgencies <- {TRUE}, Edits <- {}

E == INSTANCE Maintenance WITH
       Handlers <- EquipmentRaces, Urgencies <- {TRUE}, Edits <- {"DISCOMMISSIONED"}

RacesInit == side \in {"request", "order", "equipment"} /\ Init

RacesNext ==
  /\ UNCHANGED side
  /\ \/ side = "request" /\ R!Next
     \/ side = "order" /\ O!Next
     \/ side = "equipment" /\ E!Next

RacesSpec == RacesInit /\ [][RacesNext]_<<side, vars>>

RacesView == <<side, View>>
=============================================================================
