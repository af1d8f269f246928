------------------------------ MODULE MCField -------------------------------
(***************************************************************************)
(* FieldWork for TLC.  Fabrication orders are worked on by the clock, and  *)
(* made from materials: each is let happen without the other.              *)
(***************************************************************************)
EXTENDS FieldWork, TLC

\* One hour of which is working time, and then one that is not.
Morning == {0}

ByTheClock ==
  [handlers |-> {"startWorkSession", "stopWorkSession", "update",
                 "createProgressLog", "deleteProgressLog"},
   targets |-> {"ON_HOLD", "COMPLETED"}, lists |-> {},
   stock |-> [i \in Items |-> 0], last |-> 1]

\* Two lines of the same item, of which there is one piece.
Line(i) == [item |-> i, quantity |-> 1]

FromMaterials ==
  [handlers |-> {"update", "create", "remove", "editMaterials"},
   targets |-> {"IN_PROGRESS", "COMPLETED"},
   lists |-> {<<Line(i), Line(j)>> : i, j \in Items},
   stock |-> [i \in Items |-> 1], last |-> 0]

Loads == {ByTheClock, FromMaterials}
Three == 1..3

\* People are alike, and so are orders.
Alike == Permutations(Clients) \cup Permutations(Orders)
=============================================================================
