------------------------------ MODULE DialogStack ------------------------------
(***************************************************************************)
(* The dialog of the web client and what opens it: one modal dialog with a *)
(* stack of frames (App), the components mounted in it (Dialog), the       *)
(* requests they make, the operations confirmed in it, and the failure     *)
(* reasons that the plans page reads for its cards.                        *)
(*                                                                         *)
(* A frame is a kind and the item it was opened with.  A task and its      *)
(* snapshot are the same item.  React keeps the component while the kind   *)
(* of the top frame stays the same, state included, and discards it when   *)
(* the kind changes; mount numbers these components.  Requests are never   *)
(* cancelled: an answer finds its component mounted or changes nothing.    *)
(***************************************************************************)
EXTENDS Naturals, Sequences, FiniteSets, SequencesExt

CONSTANTS
  Items,       \* plans, instances, tasks and snapshots
  Batches,     \* failed batches of plans
  NoItem,
  MaxMounts,   \* bound on components mounted
  MaxClicks,   \* bound on operations started
  MaxBatches   \* bound on changes of the list of failed batches

ASSUME StackAssumption ==
  /\ NoItem \notin Items
  /\ {MaxMounts, MaxClicks, MaxBatches} \subseteq Nat

VARIABLES
  route,       \* the page
  dialog,      \* the frames, top last; empty: no dialog
  mount,       \* number of the component mounted in the dialog
  busy,        \* its operation runs
  detail,      \* the item whose details it has read
  reads,       \* reads of details in flight, in the order they were issued
  opening,     \* reads in flight whose answer opens a frame
  operations,  \* operations in flight
  toast,       \* globalNotice
  failedBatches, reasons,
  reasonReads, \* reads of failure reasons in flight
  disturbed,   \* auxiliary: the component's reads failed or overtook another
  clicks, changes

pageVars == <<route, failedBatches, reasons, reasonReads, changes>>
dialogVars == <<dialog, mount, busy, detail, reads, disturbed>>
requestVars == <<opening, operations, toast, clicks>>
vars == <<pageVars, dialogVars, requestVars>>

Routes == {"applications", "plans", "tasks", "backups", "alerts"}
Kinds == {"app", "backup", "plan", "plan-detail", "confirm", "task",
          "snapshot", "alert"}
Frame == [kind: Kinds, item: Items]
frame(k, i) == [kind |-> k, item |-> i]
NoFrame == [kind |-> "none", item |-> NoItem]
Top(d) == IF d = <<>> THEN NoFrame ELSE Last(d)

(* Components that read more about their item when it changes. *)
Reading == {"task", "snapshot", "plan-detail"}

TypeOK ==
  /\ route \in Routes
  /\ dialog \in Seq(Frame)
  /\ mount \in Nat /\ busy \in BOOLEAN /\ disturbed \in BOOLEAN
  /\ detail \in Items \union {NoItem}
  /\ reads \in Seq([mount: Nat, item: Items])
  /\ opening \subseteq Frame
  /\ operations \subseteq [mount: Nat, kind: {"confirm", "backup"}]
  /\ toast \in {"", "success", "failure"}
  /\ failedBatches \subseteq Batches
  /\ reasons \in SUBSET (Batches \X {"reading", "read", "unavailable"})
  /\ reasonReads \subseteq SUBSET Batches
  /\ {clicks, changes} \subseteq Nat

Init ==
  /\ route \in Routes
  /\ dialog = <<>> /\ mount = 0 /\ busy = FALSE /\ detail = NoItem
  /\ reads = <<>> /\ opening = {} /\ operations = {} /\ toast = ""
  /\ failedBatches = {} /\ reasons = {} /\ reasonReads = {}
  /\ disturbed = FALSE /\ clicks = 0 /\ changes = 0

----------------------------------------------------------------------------
(* The dialog. *)

(* Mutant of Shows: details are read when a component is mounted only. *)
ShowsOnce(d) ==
  LET old == Top(dialog) new == Top(d) IN
  /\ dialog' = d
  /\ IF new.kind = old.kind THEN UNCHANGED <<mount, busy, detail, disturbed, reads>>
     ELSE /\ mount' = mount + 1
          /\ busy' = FALSE /\ detail' = NoItem /\ disturbed' = FALSE
          /\ reads' = IF new.kind \in Reading
                      THEN Append(reads, [mount |-> mount + 1, item |-> new.item])
                      ELSE reads
  /\ mount' <= MaxMounts

(* setDialog and the render after it: a frame of another kind mounts a new  *)
(* component; details are read for every new item.                           *)
Shows(d) ==
  LET old == Top(dialog) new == Top(d) IN
  /\ dialog' = d
  /\ IF new.kind = old.kind THEN UNCHANGED <<mount, busy, detail, disturbed>>
     ELSE /\ mount' = mount + 1
          /\ busy' = FALSE /\ detail' = NoItem /\ disturbed' = FALSE
  /\ mount' <= MaxMounts
  /\ reads' = IF new # old /\ new.kind \in Reading
              THEN Append(reads, [mount |-> mount', item |-> new.item])
              ELSE reads

open(k, i) == Shows(Append(dialog, frame(k, i)))
close == Shows(<<>>)
back == Shows(IF dialog = <<>> THEN <<>> ELSE Front(dialog))

(* The frames the rows of a page open at once: backup, plan and details of  *)
(* an instance; run, pause or resume, details and edit of a plan; details of *)
(* a task, a snapshot or an alert without a reference.                        *)
ApplicationRow == {"backup", "plan", "app"}
PlanCard == {"confirm", "plan-detail", "plan"}
TaskRow == {"task"}
SnapshotRow == {"snapshot"}
AlertPanel == {"alert"}

(* The modal dialog covers the page. *)
Offers(r) ==
  CASE r = "applications" -> ApplicationRow
    [] r = "plans" -> PlanCard
    [] r = "tasks" -> TaskRow
    [] r = "backups" -> SnapshotRow
    [] r = "alerts" -> AlertPanel

OpenFromPage(k, i) ==
  /\ dialog = <<>> /\ k \in Offers(route)
  /\ open(k, i)
  /\ UNCHANGED <<pageVars, requestVars>>

(* Create plan in the details of an instance. *)
OpenWizard ==
  /\ Top(dialog).kind = "app"
  /\ open("plan", Top(dialog).item)
  /\ UNCHANGED <<pageVars, requestVars>>

(* The close button and the backdrop, always enabled, and the Cancel buttons. *)
Close ==
  /\ dialog # <<>> /\ close
  /\ UNCHANGED <<pageVars, requestVars>>

Back ==
  /\ Len(dialog) > 1 /\ back
  /\ UNCHANGED <<pageVars, requestVars>>

(* The kinds of frames whose read a link of the dialog, or of an alert, may  *)
(* start; the answer opens the frame over whatever is shown by then.          *)
Links ==
  CASE Top(dialog).kind = "app" -> {"snapshot"}
    [] Top(dialog).kind = "task" -> {"snapshot"}
    [] Top(dialog).kind = "snapshot" -> {"task"}
    [] dialog = <<>> /\ route = "alerts" -> {"task", "snapshot", "app"}
    [] OTHER -> {}

FollowLink(k, i) ==
  /\ k \in Links
  /\ dialog # <<>> => i = Top(dialog).item
  /\ clicks < MaxClicks /\ clicks' = clicks + 1
  /\ opening' = opening \union {frame(k, i)}
  /\ UNCHANGED <<pageVars, dialogVars, operations, toast>>

LinkAnswer(f) ==
  /\ f \in opening /\ opening' = opening \ {f}
  /\ open(f.kind, f.item)
  /\ UNCHANGED <<pageVars, operations, toast, clicks>>

LinkFails(f) ==
  /\ f \in opening /\ opening' = opening \ {f}
  /\ UNCHANGED <<pageVars, dialogVars, operations, toast, clicks>>

----------------------------------------------------------------------------
(* Details. *)

(* PlanDetails drops the answer for a plan it no longer shows; the others    *)
(* take whatever arrives.                                                     *)
Takes(r) ==
  /\ r.mount = mount
  /\ Top(dialog).kind = "plan-detail" => r.item = Top(dialog).item

DetailAnswer(n) ==
  /\ n \in DOMAIN reads
  /\ reads' = RemoveAt(reads, n)
  /\ detail' = IF Takes(reads[n]) THEN reads[n].item ELSE detail
  /\ disturbed' = (disturbed \/ /\ reads[n].mount = mount
                                /\ \E m \in 1..n-1 : reads[m].mount = mount)
  /\ UNCHANGED <<pageVars, dialog, mount, busy, requestVars>>

(* What was shown stays. *)
DetailFails(n) ==
  /\ n \in DOMAIN reads
  /\ reads' = RemoveAt(reads, n)
  /\ disturbed' = (disturbed \/ reads[n].mount = mount)
  /\ UNCHANGED <<pageVars, dialog, mount, busy, detail, requestVars>>

----------------------------------------------------------------------------
(* Operations: the confirmation of a plan's action, and of a backup. *)

confirm ==
  /\ Top(dialog).kind \in {"confirm", "backup"} /\ ~busy
  /\ clicks < MaxClicks /\ clicks' = clicks + 1
  /\ busy' = TRUE
  /\ operations' = operations \union
                     {[mount |-> mount, kind |-> Top(dialog).kind]}
  /\ UNCHANGED <<pageVars, dialog, mount, detail, reads, disturbed, opening,
                 toast>>

(* notify: the timer that should clear the message is itself cleared by the  *)
(* effect that runs after every render, so the message stays.                 *)
Notify(o, message) == toast' = IF o.kind = "confirm" THEN message ELSE toast

(* run() returns true: the dialog that is open now closes. *)
Completed(o) ==
  /\ o \in operations /\ operations' = operations \ {o}
  /\ Notify(o, "success")
  /\ close
  /\ UNCHANGED <<pageVars, opening, clicks>>

(* Mutant of Failed: setBusy(false) is not in a finally block. *)
FailedBusy(o) ==
  /\ o \in operations /\ operations' = operations \ {o}
  /\ Notify(o, "failure")
  /\ UNCHANGED <<pageVars, dialogVars, opening, clicks>>

(* run() returns false. *)
Failed(o) ==
  /\ o \in operations /\ operations' = operations \ {o}
  /\ Notify(o, "failure")
  /\ busy' = (busy /\ o.mount # mount)
  /\ UNCHANGED <<pageVars, dialog, mount, detail, reads, disturbed, opening,
                 clicks>>

----------------------------------------------------------------------------
(* Pages. *)

Batch(s, w) == {<<b, w>> : b \in s}

(* The effect of PlansPage on the failed batches it shows: an empty answer   *)
(* for each, then one read for all of them.                                   *)
ReasonsEffect(s) ==
  /\ reasons' = Batch(s, "reading")
  /\ reasonReads' = IF s = {} THEN reasonReads ELSE reasonReads \union {s}

(* A page is mounted when its route is chosen, by the navigation or, with    *)
(* View tasks, by the details of an instance.                                 *)
Mounts(r) ==
  /\ route' = r
  /\ IF r = "plans" THEN ReasonsEffect(failedBatches)
     ELSE reasons' = {} /\ reasonReads' = reasonReads
  /\ UNCHANGED <<failedBatches, changes>>

navigate(r) == IF r = route THEN UNCHANGED pageVars ELSE Mounts(r)

Navigation(r) ==
  /\ dialog = <<>> /\ r # route /\ navigate(r)
  /\ UNCHANGED <<dialogVars, requestVars>>

ViewTasks ==
  /\ Top(dialog).kind = "app" /\ close
  /\ navigate("tasks")
  /\ UNCHANGED requestVars

(* A refresh brings other failed batches. *)
BatchesChange(s) ==
  /\ changes < MaxBatches /\ changes' = changes + 1
  /\ s # failedBatches /\ failedBatches' = s
  /\ IF route = "plans" THEN ReasonsEffect(s)
     ELSE UNCHANGED <<reasons, reasonReads>>
  /\ UNCHANGED <<route, dialogVars, requestVars>>

(* Mutant of StillActive: an effect that was cleaned up still answers. *)
AlwaysActive(s) == route = "plans"

(* The effect that issued the read has not been cleaned up. *)
StillActive(s) == route = "plans" /\ s = failedBatches

(* One read may fail without the others. *)
ReasonsAnswer(s) ==
  /\ s \in reasonReads /\ reasonReads' = reasonReads \ {s}
  /\ \E u \in SUBSET s :
       reasons' = IF StillActive(s)
                  THEN Batch(s \ u, "read") \union Batch(u, "unavailable")
                  ELSE reasons
  /\ UNCHANGED <<route, failedBatches, changes, dialogVars, requestVars>>

Next ==
  \/ \E k \in Kinds, i \in Items : OpenFromPage(k, i) \/ FollowLink(k, i)
  \/ OpenWizard \/ Close \/ Back \/ ViewTasks \/ confirm
  \/ \E f \in opening : LinkAnswer(f) \/ LinkFails(f)
  \/ \E n \in DOMAIN reads : DetailAnswer(n) \/ DetailFails(n)
  \/ \E o \in operations : Completed(o) \/ Failed(o)
  \/ \E r \in Routes : Navigation(r)
  \/ \E s \in SUBSET Batches : BatchesChange(s)
  \/ \E s \in reasonReads : ReasonsAnswer(s)

Spec == Init /\ [][Next]_vars

----------------------------------------------------------------------------
(* Properties. *)

(* Unless an answer was lost or overtook an older one, the details shown     *)
(* once all reads are answered belong to the item in the title, whatever      *)
(* frames were opened over each other, left by Back or opened by late         *)
(* answers (the effects of TaskDetails and SnapshotDetails on their id).       *)
DetailSettles ==
  /\ Top(dialog).kind \in Reading
  /\ ~disturbed
  /\ \A n \in DOMAIN reads : reads[n].mount # mount
  => detail = Top(dialog).item

(* The confirm button is disabled exactly while an operation started from    *)
(* the component shown is running: it can neither be pressed twice nor stay    *)
(* dead, although the dialog can be closed, covered and opened again meanwhile *)
(* and the operations of earlier components end in any order.                  *)
ButtonTrue == busy <=> \E o \in operations : o.mount = mount

(* The failure reasons on the plans page are those of the failed batches it  *)
(* shows, in whatever order the reads of earlier lists are answered.           *)
ReasonsCurrent ==
  route = "plans" => {r[1] : r \in reasons} = failedBatches

================================================================================
