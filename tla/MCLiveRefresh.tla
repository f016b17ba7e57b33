----------------------------- MODULE MCLiveRefresh -----------------------------
(* Instances of LiveRefresh for TLC. *)
EXTENDS LiveRefresh

(* One plain resource and one page stand for the eight of the code. *)
TwoResources == <<"overview", "tasks">>
OnePage == {"tasks"}

================================================================================
