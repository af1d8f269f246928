-------------------------- MODULE MCClientSession ---------------------------
(***************************************************************************)
(* ClientSession by itself, for TLC: one answer is out at a time, so that  *)
(* nothing that happens is owed to an answer that comes late.              *)
(***************************************************************************)
EXTENDS ClientSession, TLC

InTurn == \A c, d \in calls : c = d

InTurnSpec == Init /\ [][Next /\ InTurn']_vars

\* People are alike.
Alike == Permutations(People)
=============================================================================
