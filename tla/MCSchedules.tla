---------------------------- MODULE MCSchedules -----------------------------
(***************************************************************************)
(* Instances of Schedules for model checking.                              *)
(***************************************************************************)
EXTENDS Schedules, TLC

\* The timers are alike.
AnyTimer == Permutations(Timers)

EveryDay == [s \in Schedules |-> 1]
EverySecondDay == [s \in Schedules |-> 2]
NoLead == [s \in Schedules |-> 0]
=============================================================================
