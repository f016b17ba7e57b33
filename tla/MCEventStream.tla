----------------------------- MODULE MCEventStream -----------------------------
(* Instances of EventStream for TLC. *)
EXTENDS EventStream, TLC
CONSTANT k1

(* A task had succeeded before the page was opened. *)
OneSuccess == <<[type |-> "task.updated", task |-> k1, status |-> "SUCCEEDED"]>>

================================================================================
