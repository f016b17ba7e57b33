---------------------------- MODULE SnapshotPromise ----------------------------
(***************************************************************************)
(* What the backup library promises its user, without files, executions or *)
(* crashes: the snapshot of a job appears once, as a whole, and only the   *)
(* user can spoil it.  SnapshotStore implements this.                      *)
(***************************************************************************)
EXTENDS Naturals

CONSTANT Jobs

VARIABLES
  library,  (* The snapshot of a job: absent, complete or spoiled.         *)
  acts      (* How often the user has changed files.                       *)

Init == library = [j \in Jobs |-> "ABSENT"] /\ acts = 0

(* A snapshot is published; spoiled only if the user has been at work. *)
Publish(j) ==
  /\ library[j] = "ABSENT"
  /\ \E how \in {"COMPLETE", "SPOILED"} :
       /\ how = "SPOILED" => acts > 0
       /\ library' = [library EXCEPT ![j] = how]
  /\ UNCHANGED acts

(* The user changes files and may spoil snapshots. *)
UserActs ==
  /\ acts' = acts + 1
  /\ \E spoiled \in SUBSET {j \in Jobs : library[j] = "COMPLETE"} :
       library' = [j \in Jobs |-> IF j \in spoiled THEN "SPOILED"
                                                   ELSE library[j]]

Next == UserActs \/ \E j \in Jobs : Publish(j)

Spec == Init /\ [][Next]_<<library, acts>>
================================================================================
