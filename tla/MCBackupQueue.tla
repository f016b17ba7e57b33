----------------------------- MODULE MCBackupQueue -----------------------------
(***************************************************************************)
(* Instances of BackupQueue for TLC: a plan batch b1 with task t1 on d1,   *)
(* and a manual batch b2 with task t2 on d1 or on d2.                      *)
(***************************************************************************)
EXTENDS BackupQueue, TLC

CONSTANTS b1, b2, d1, d2, t1, t2, w1, w2

(* A plan task and a manual backup of one instance. *)
SharedBatchOf == t1 :> b1 @@ t2 :> b2
SharedDeployOf == t1 :> d1 @@ t2 :> d1

(* A single plan task. *)
SingleBatchOf == t1 :> b1
SingleDeployOf == t1 :> d1

(* A plan task and a manual backup of different instances. *)
DisjointBatchOf == t1 :> b1 @@ t2 :> b2
DisjointDeployOf == t1 :> d1 @@ t2 :> d2

(* Workers run the same code and are interchangeable. *)
WorkerSymmetry == Permutations(Workers)

================================================================================
