---------------------------- MODULE MCPlanScheduler ----------------------------
(***************************************************************************)
(* Instances of PlanScheduler for TLC.  A schedule is named by its period. *)
(***************************************************************************)
EXTENDS PlanScheduler

CONSTANTS p1, p2

(* The first multiple of the period after t. *)
PeriodicNext(s, t) == s * (t \div s + 1)

================================================================================
