----------------------------- MODULE PlanScheduler -----------------------------
(***************************************************************************)
(* The schedule of backup plans: the timer loop that looks for due plans,  *)
(* the catch-up of missed occurrences, the persisted cursor next_run_at,   *)
(* and the requests that pause, resume, edit or run a plan meanwhile.      *)
(* Sources: internal/plans/service.go, internal/scheduler/service.go and   *)
(* the plan operations of internal/persistence/queue.go.                   *)
(*                                                                         *)
(* A plan run is its batch row, then one step that stands for the whole    *)
(* expansion, which module BackupQueue models row by row.  Time is counted *)
(* in intervals of the scheduler's ticker.                                 *)
(***************************************************************************)
EXTENDS Naturals, FiniteSets

CONSTANTS
  Plans,            (* Plan ids.                                           *)
  Schedules,        (* Cron schedules a plan can have, with their zone.    *)
  Manual,           (* The schedule of a plan that only runs on request.   *)
  NextAfter(_, _),  (* cron's Schedule.Next: first occurrence after a time *)
  CatchUp,          (* The plans that catch up on missed occurrences.      *)
  Grace,            (* One minute.                                         *)
  MaxCatchUp,       (* plan.MaxCatchUpSeconds.                             *)
  MaxSteps,         (* Occurrences handled per plan and run: 128.          *)
  NoPlan,
  Horizon,          (* Bounds: the last time considered,                   *)
  MaxRequests,      (* user requests                                       *)
  MaxCrashes        (* and restarts.                                       *)

Times == 0..Horizon
Null == 0

(* Cron looks for the first occurrence strictly after the time given. *)
ASSUME PlanAssumption ==
  /\ Horizon \in Nat /\ MaxSteps \in Nat /\ MaxRequests \in Nat
  /\ MaxCrashes \in Nat /\ Grace \in Nat /\ MaxCatchUp \in Nat
  /\ NoPlan \notin Plans /\ Manual \notin Schedules
  /\ \A s \in Schedules, t \in Times :
       /\ NextAfter(s, t) \in Nat /\ NextAfter(s, t) > t
       /\ \A u \in Times : u > t => NextAfter(s, u) >= NextAfter(s, t)
       /\ \A u \in Times : u < NextAfter(s, t) => NextAfter(s, u) <= NextAfter(s, t)

VARIABLES
  \* backup_plans and backup_batches.
  schedule, enabled, pauseReason, nextRunAt, lastScheduledAt,
  batch,     (* By plan and scheduled_at: "none", "skipped", "open" while  *)
             (* it is expanded, "ended" once that is done or has failed.   *)
  \* The process: tenant bound, pending tick of the ticker (Null if none).
  bound, tick,
  \* The RunDue in progress: step, its time, plans left, the plan at hand.
  pc, now, due, cur, steps,
  \* Requests under way: the batch of a manual run, and what a resume and
  \* an edit computed before they write it.
  manual, resume, update,
  \* Time and bounds.
  clock, requests, crashes,
  \* Auxiliary: the plans whose schedule was reset by a request, and those
  \* whose cursor was written by a request that RunDue had overtaken.
  reset, overtaken

planVars == <<schedule, enabled, pauseReason, nextRunAt, lastScheduledAt>>
loopVars == <<pc, now, due, cur, steps>>
auxVars == <<reset, overtaken>>
requestVars == <<manual, resume, update, requests, auxVars>>
vars == <<planVars, batch, bound, tick, loopVars, requestVars, clock, crashes>>

(* The part of a plan row that RunDue works with. *)
Snapshot(p) == [plan |-> p, schedule |-> schedule[p], next |-> nextRunAt[p]]
NoSnapshot == [plan |-> NoPlan, schedule |-> Manual, next |-> Null]
NoBatch == <<NoPlan, Null>>
NoResume == [plan |-> NoPlan, next |-> Null, seen |-> Null]
NoUpdate == [plan |-> NoPlan, schedule |-> Manual, enabled |-> FALSE,
             next |-> Null, seen |-> Null]

nextRun(s, after) == IF s = Manual THEN Null ELSE NextAfter(s, after)

--------------------------------------------------------------------------------
(* Plans as Create and CreatePlan leave them. *)
Init ==
  /\ schedule \in [Plans -> Schedules \cup {Manual}]
  /\ enabled \in [Plans -> BOOLEAN]
  /\ \A p \in Plans : schedule[p] = Manual => ~enabled[p]
  /\ pauseReason = [p \in Plans |-> FALSE]
  /\ nextRunAt = [p \in Plans |-> nextRun(schedule[p], 0)]
  /\ lastScheduledAt = [p \in Plans |-> Null]
  /\ batch = [p \in Plans |-> [t \in Times |-> "none"]]
  /\ bound = FALSE /\ tick = Null
  /\ pc = "idle" /\ now = 0 /\ due = {} /\ cur = NoSnapshot /\ steps = 0
  /\ manual = NoBatch /\ resume = NoResume /\ update = NoUpdate
  /\ clock = 0 /\ requests = 0 /\ crashes = 0 /\ reset = {} /\ overtaken = {}

--------------------------------------------------------------------------------
(* The scheduler goroutine: Start and RunDue. *)

(* DuePlans reads the rows that are due, with the tick's time. *)
DuePlans(t) ==
  {Snapshot(p) : p \in {q \in Plans :
     enabled[q] /\ nextRunAt[q] # Null /\ nextRunAt[q] <= t}}

(* RunDue ends, and with it its locals; the loop over one plan ends. *)
Return ==
  /\ pc' = "idle"
  /\ now' = Null /\ due' = {} /\ cur' = NoSnapshot /\ steps' = 0

NextPlan ==
  /\ pc' = "plan"
  /\ cur' = NoSnapshot /\ steps' = 0
  /\ UNCHANGED <<now, due>>

(* A tick starts RunDue; without a tenant there is nothing to do. *)
BeginRunDue ==
  /\ pc = "idle" /\ tick # Null
  /\ tick' = Null
  /\ IF bound THEN pc' = "plan" /\ now' = tick /\ due' = DuePlans(tick)
              ELSE UNCHANGED <<pc, now, due>>
  /\ UNCHANGED <<planVars, batch, bound, cur, steps, requestVars, clock, crashes>>

(* The plans come ordered by next_run_at. *)
TakePlan ==
  /\ pc = "plan"
  /\ \E d \in due :
       /\ \A e \in due : d.next <= e.next
       /\ cur' = d
       /\ due' = due \ {d}
  /\ pc' = "loop"
  /\ UNCHANGED <<planVars, batch, bound, tick, now, steps, requestVars, clock,
                 crashes>>

EndRunDue ==
  /\ pc = "plan" /\ due = {}
  /\ Return
  /\ UNCHANGED <<planVars, batch, bound, tick, requestVars, clock, crashes>>

(* The condition of the loop over the occurrences of one plan. *)
MoreDue == cur.next # Null /\ cur.next <= now /\ steps < MaxSteps

(* Too late for a plan that does not catch up, or for the window. *)
Late ==
  LET delay == now - cur.next
  IN  (cur.plan \notin CatchUp /\ delay > Grace) \/ delay > MaxCatchUp

(* The unique index on (plan, scheduled_at). *)
BatchExists(p, t) == batch[p][t] # "none"

LeaveLoop ==
  /\ pc = "loop" /\ ~MoreDue
  /\ NextPlan
  /\ UNCHANGED <<planVars, batch, bound, tick, requestVars, clock, crashes>>

(* A late occurrence gets a SKIPPED batch; one that exists is left alone. *)
recordSkipped ==
  /\ pc = "loop" /\ MoreDue /\ Late
  /\ batch' = IF BatchExists(cur.plan, cur.next) THEN batch
              ELSE [batch EXCEPT ![cur.plan][cur.next] = "skipped"]
  /\ pc' = "advance"
  /\ UNCHANGED <<planVars, bound, tick, now, due, cur, steps, requestVars, clock,
                 crashes>>

(* Mutant: the batch is created whether it exists or not. *)
RunAgain ==
  /\ pc = "loop" /\ MoreDue /\ ~Late
  /\ batch' = [batch EXCEPT ![cur.plan][cur.next] = "open"]
  /\ pc' = "expand"
  /\ UNCHANGED <<planVars, bound, tick, now, due, cur, steps, requestVars, clock,
                 crashes>>

(* Mutant: a conflict with a batch that exists is an error like any other. *)
RunPlanStrict ==
  /\ pc = "loop" /\ MoreDue /\ ~Late
  /\ IF BatchExists(cur.plan, cur.next)
       THEN Return /\ UNCHANGED batch
       ELSE /\ batch' = [batch EXCEPT ![cur.plan][cur.next] = "open"]
            /\ pc' = "expand" /\ UNCHANGED <<now, due, cur, steps>>
  /\ UNCHANGED <<planVars, bound, tick, requestVars, clock, crashes>>

(***************************************************************************)
(* RunPlan creates the batch.  If there is one for this time, whoever made *)
(* it, RunPlan returns that one, or a conflict if it is not among the last *)
(* 100: RunDue goes on in both cases.                                      *)
(***************************************************************************)
RunPlan ==
  /\ pc = "loop" /\ MoreDue /\ ~Late
  /\ IF BatchExists(cur.plan, cur.next)
       THEN pc' = "check" /\ UNCHANGED batch
       ELSE /\ batch' = [batch EXCEPT ![cur.plan][cur.next] = "open"]
            /\ pc' = "expand"
  /\ UNCHANGED <<planVars, bound, tick, now, due, cur, steps, requestVars, clock,
                 crashes>>

(* PausePlanForScope, as far as the plan row is concerned. *)
PausePlanForScope(p) ==
  /\ enabled' = [enabled EXCEPT ![p] = FALSE]
  /\ pauseReason' = [pauseReason EXCEPT ![p] = TRUE]
  /\ nextRunAt' = [nextRunAt EXCEPT ![p] = Null]
  /\ UNCHANGED <<schedule, lastScheduledAt>>

(* The expansion goes through; it may find a scope gone and pause the plan. *)
Expand ==
  /\ pc = "expand"
  /\ batch' = [batch EXCEPT ![cur.plan][cur.next] = "ended"]
  /\ pc' = "check"
  /\ PausePlanForScope(cur.plan) \/ UNCHANGED planVars
  /\ UNCHANGED <<bound, tick, now, due, cur, steps, requestVars, clock, crashes>>

(* The expansion fails and RunDue returns: the plans left are not handled. *)
ExpandFails ==
  /\ pc = "expand"
  /\ batch' = [batch EXCEPT ![cur.plan][cur.next] = "ended"]
  /\ Return
  /\ PausePlanForScope(cur.plan) \/ UNCHANGED planVars
  /\ UNCHANGED <<bound, tick, requestVars, clock, crashes>>

(* The row is read again: a scope pause ends the loop of this plan. *)
CheckLatest ==
  /\ pc = "check"
  /\ IF ~enabled[cur.plan] /\ pauseReason[cur.plan]
       THEN NextPlan
       ELSE pc' = "advance" /\ UNCHANGED <<now, due, cur, steps>>
  /\ UNCHANGED <<planVars, batch, bound, tick, requestVars, clock, crashes>>

(* Mutant: the next occurrence is counted from the present. *)
AdvanceToPresent ==
  LET p == cur.plan
      next == nextRun(cur.schedule, now)
  IN  /\ pc = "advance"
      /\ lastScheduledAt' = [lastScheduledAt EXCEPT ![p] = cur.next]
      /\ nextRunAt' = [nextRunAt EXCEPT ![p] = next]
      /\ cur' = [cur EXCEPT !.next = next]
      /\ steps' = steps + 1
      /\ pc' = "loop"
      /\ overtaken' = overtaken \ {p}
      /\ UNCHANGED <<schedule, enabled, pauseReason, batch, bound, tick, now, due,
                     manual, resume, update, requests, reset, clock, crashes>>

(* AdvancePlan moves the cursor by the schedule RunDue read at its start. *)
AdvancePlan ==
  LET p == cur.plan
      next == nextRun(cur.schedule, cur.next)
  IN  /\ pc = "advance"
      /\ lastScheduledAt' = [lastScheduledAt EXCEPT ![p] = cur.next]
      /\ nextRunAt' = [nextRunAt EXCEPT ![p] = next]
      /\ cur' = [cur EXCEPT !.next = next]
      /\ steps' = steps + 1
      /\ pc' = "loop"
      /\ overtaken' = overtaken \ {p}
      /\ UNCHANGED <<schedule, enabled, pauseReason, batch, bound, tick, now, due,
                     manual, resume, update, requests, reset, clock, crashes>>

--------------------------------------------------------------------------------
(* Requests of the user and the pause by a queue worker. *)

MayRequest == bound /\ requests < MaxRequests

Pause(p) ==
  /\ MayRequest
  /\ enabled' = [enabled EXCEPT ![p] = FALSE]
  /\ nextRunAt' = [nextRunAt EXCEPT ![p] = Null]
  /\ requests' = requests + 1
  /\ UNCHANGED <<schedule, pauseReason, lastScheduledAt, batch, bound, tick,
                 loopVars, manual, resume, update, clock, crashes, auxVars>>

(* RunDue handled an occurrence of the plan since the request read it. *)
Overtaken(p, seen) ==
  IF lastScheduledAt[p] = seen THEN overtaken \ {p} ELSE overtaken \cup {p}

(* Resume reads the plan and computes its next occurrence ... *)
ResumeRead(p) ==
  /\ MayRequest /\ resume = NoResume
  /\ resume' = [plan |-> p, next |-> nextRun(schedule[p], clock),
                seen |-> lastScheduledAt[p]]
  /\ requests' = requests + 1
  /\ UNCHANGED <<planVars, batch, bound, tick, loopVars, manual, update, clock,
                 crashes, auxVars>>

(* ... and SetPlanEnabled writes it, any time later.  The pause reason     *)
(* stays.                                                                  *)
ResumeWrite ==
  LET p == resume.plan
  IN  /\ resume # NoResume
      /\ enabled' = [enabled EXCEPT ![p] = TRUE]
      /\ nextRunAt' = [nextRunAt EXCEPT ![p] = resume.next]
      /\ resume' = NoResume
      /\ reset' = reset \cup {p}
      /\ overtaken' = Overtaken(p, resume.seen)
      /\ UNCHANGED <<schedule, pauseReason, lastScheduledAt, batch, bound, tick,
                     loopVars, manual, update, requests, clock, crashes>>

(* Update normalises the input: the next occurrence is that of now ...     *)
UpdateRead(p, s, e) ==
  /\ MayRequest /\ update = NoUpdate
  /\ update' = [plan |-> p, schedule |-> s, enabled |-> e /\ s # Manual,
                next |-> nextRun(s, clock), seen |-> lastScheduledAt[p]]
  /\ requests' = requests + 1
  /\ UNCHANGED <<planVars, batch, bound, tick, loopVars, manual, resume, clock,
                 crashes, auxVars>>

(* ... validateTargets reads the applications and may refuse ...           *)
UpdateRefused ==
  /\ update # NoUpdate
  /\ update' = NoUpdate
  /\ UNCHANGED <<planVars, batch, bound, tick, loopVars, manual, resume, requests,
                 clock, crashes, auxVars>>

(* ... and UpdatePlan writes schedule, cursor and pause reason, but leaves *)
(* last_scheduled_at alone.                                                *)
UpdateWrite ==
  LET p == update.plan
  IN  /\ update # NoUpdate
      /\ schedule' = [schedule EXCEPT ![p] = update.schedule]
      /\ enabled' = [enabled EXCEPT ![p] = update.enabled]
      /\ pauseReason' = [pauseReason EXCEPT ![p] = FALSE]
      /\ nextRunAt' = [nextRunAt EXCEPT ![p] = update.next]
      /\ update' = NoUpdate
      /\ reset' = reset \cup {p}
      /\ overtaken' = Overtaken(p, update.seen)
      /\ UNCHANGED <<lastScheduledAt, batch, bound, tick, loopVars, manual, resume,
                     requests, clock, crashes>>

(* Run: a manual run of the plan, scheduled for the time of the request. *)
Run(p) ==
  /\ MayRequest /\ manual = NoBatch
  /\ IF BatchExists(p, clock)
       THEN UNCHANGED <<batch, manual>>
       ELSE /\ batch' = [batch EXCEPT ![p][clock] = "open"]
            /\ manual' = <<p, clock>>
  /\ requests' = requests + 1
  /\ UNCHANGED <<planVars, bound, tick, loopVars, resume, update, clock, crashes,
                 auxVars>>

RunExpands ==
  /\ manual # NoBatch
  /\ batch' = [batch EXCEPT ![manual[1]][manual[2]] = "ended"]
  /\ manual' = NoBatch
  /\ PausePlanForScope(manual[1]) \/ UNCHANGED planVars
  /\ UNCHANGED <<bound, tick, loopVars, resume, update, requests, auxVars, clock,
                 crashes>>

(* A worker that executes a task of the plan finds its scope gone. *)
WorkerPausesPlan(p) ==
  /\ bound
  /\ \E t \in Times : batch[p][t] = "ended"
  /\ PausePlanForScope(p)
  /\ UNCHANGED <<batch, bound, tick, loopVars, requestVars, clock, crashes>>

--------------------------------------------------------------------------------
(* Time and the life of the process. *)

(***************************************************************************)
(* Time passes and the ticker fires; its channel holds one tick, and later *)
(* ones are dropped.                                                       *)
(***************************************************************************)
Tick ==
  /\ clock < Horizon
  /\ clock' = clock + 1
  /\ tick' = IF tick = Null THEN clock + 1 ELSE tick
  /\ UNCHANGED <<planVars, batch, bound, loopVars, requestVars, crashes>>

(* At the end of the time considered the ticker goes on. *)
LastTick ==
  /\ clock = Horizon /\ clock # Null /\ tick = Null
  /\ tick' = clock
  /\ UNCHANGED <<planVars, batch, bound, loopVars, requestVars, clock, crashes>>

Bind ==
  /\ ~bound
  /\ bound' = TRUE
  /\ UNCHANGED <<planVars, batch, tick, loopVars, requestVars, clock, crashes>>

(* A new process calls RunDue at once, before any request. *)
Restart ==
  /\ bound /\ crashes < MaxCrashes
  /\ crashes' = crashes + 1
  /\ bound' = FALSE
  /\ tick' = clock
  /\ Return
  /\ manual' = NoBatch /\ resume' = NoResume /\ update' = NoUpdate
  /\ UNCHANGED <<planVars, batch, requests, auxVars, clock>>

--------------------------------------------------------------------------------
SchedulerStep ==
  \/ BeginRunDue \/ TakePlan \/ EndRunDue \/ LeaveLoop \/ recordSkipped
  \/ RunPlan \/ Expand \/ ExpandFails \/ CheckLatest \/ AdvancePlan

Request(p) ==
  \/ Pause(p) \/ ResumeRead(p) \/ Run(p)
  \/ \E s \in Schedules \cup {Manual}, e \in BOOLEAN : UpdateRead(p, s, e)

Next ==
  \/ SchedulerStep
  \/ \E p \in Plans : Request(p) \/ WorkerPausesPlan(p)
  \/ ResumeWrite \/ UpdateRefused \/ UpdateWrite \/ RunExpands
  \/ Tick \/ LastTick \/ Bind \/ Restart

Spec == Init /\ [][Next]_vars

(* The scheduler goroutine runs, time passes and the ticker fires, and     *)
(* somebody opens the application.                                         *)
Fairness ==
  WF_vars(SchedulerStep) /\ WF_vars(Tick \/ LastTick) /\ WF_vars(Bind)

FairSpec == Spec /\ Fairness

--------------------------------------------------------------------------------
(* Properties *)

Snapshots == [plan : Plans, schedule : Schedules \cup {Manual}, next : Nat]
Resumes == [plan : Plans, next : Nat, seen : Times]
Updates == [plan : Plans, schedule : Schedules \cup {Manual}, enabled : BOOLEAN,
            next : Nat, seen : Times]

(* Every column and every variable of the process has its type. *)
TypeOK ==
  /\ schedule \in [Plans -> Schedules \cup {Manual}]
  /\ enabled \in [Plans -> BOOLEAN] /\ pauseReason \in [Plans -> BOOLEAN]
  /\ nextRunAt \in [Plans -> Nat] /\ lastScheduledAt \in [Plans -> Times]
  /\ batch \in [Plans -> [Times -> {"none", "skipped", "open", "ended"}]]
  /\ bound \in BOOLEAN /\ tick \in Times
  /\ pc \in {"idle", "plan", "loop", "expand", "check", "advance"}
  /\ now \in Times /\ due \subseteq Snapshots
  /\ cur \in Snapshots \cup {NoSnapshot} /\ steps \in Nat
  /\ manual \in (Plans \X Times) \cup {NoBatch}
  /\ resume \in Resumes \cup {NoResume} /\ update \in Updates \cup {NoUpdate}
  /\ clock \in Times /\ requests \in Nat /\ crashes \in Nat
  /\ reset \subseteq Plans /\ overtaken \subseteq Plans

(***************************************************************************)
(* No occurrence is handled before its time, and next_run_at points at or  *)
(* before the one handled last in one case only: a resume or an edit was   *)
(* under way while RunDue handled an occurrence, and wrote the cursor that *)
(* it had computed before.  (RunDue then finds the batch of that time, and *)
(* ExpandedOnce says that it does not run again.)                          *)
(***************************************************************************)
CursorAhead ==
  \A p \in Plans :
    /\ lastScheduledAt[p] <= clock
    /\ nextRunAt[p] # Null /\ p \notin overtaken
         => nextRunAt[p] > lastScheduledAt[p]

(* t is an occurrence of the schedule s. *)
Occurs(s, t) == s # Manual /\ \E u \in Times : NextAfter(s, u) = t

(***************************************************************************)
(* Until a request resets its schedule, a plan has a batch, run or skipped *)
(* or at least begun, for every occurrence before its cursor, whatever     *)
(* errors, pauses, restarts, slow runs and late ticks happened.            *)
(***************************************************************************)
NoGap ==
  \A p \in Plans \ reset : nextRunAt[p] # Null =>
    \A t \in Times :
      Occurs(schedule[p], t) /\ t < nextRunAt[p] => BatchExists(p, t)

(***************************************************************************)
(* A plan time is expanded at most once: a batch that was skipped,         *)
(* expanded or given up stays what it is, and an open one is not opened    *)
(* again, by the scheduler, a manual run or a restarted process.           *)
(***************************************************************************)
ExpandedOnce ==
  [][\A p \in Plans, t \in Times :
       BatchExists(p, t) /\ batch'[p][t] # batch[p][t] =>
         /\ batch[p][t] = "open"
         /\ \/ pc = "expand" /\ cur.plan = p /\ cur.next = t
            \/ manual = <<p, t>>]_vars

(***************************************************************************)
(* No due plan is left behind: whenever one is due it is handled up to the *)
(* present, or paused, later, although an error of one plan makes RunDue   *)
(* drop the others.                                                        *)
(***************************************************************************)
Due(p) == enabled[p] /\ nextRunAt[p] # Null /\ nextRunAt[p] <= clock

EveryDuePlanHandled == \A p \in Plans : []<>~Due(p)

--------------------------------------------------------------------------------
(* The inductive invariant behind the safety properties. *)

(* Clocks: what the process remembers of the time is not in the future. *)
ClocksAgree == tick <= clock /\ now <= clock

(* Where RunDue works on an occurrence, it is one of a plan, and due. *)
Handling == pc \in {"expand", "check", "advance"}

LoopState ==
  /\ Handling \/ pc = "loop" => cur \in Snapshots
  /\ Handling => cur.next # Null /\ cur.next <= now /\ BatchExists(cur.plan, cur.next)

(* A request carries an occurrence after the last one when it began. *)
RequestState ==
  /\ resume # NoResume /\ resume.next # Null => resume.next > resume.seen
  /\ update # NoUpdate /\ update.next # Null => update.next > update.seen

(* Expansions in progress belong to open batches, and to one expander. *)
OneExpander ==
  /\ pc = "expand" => batch[cur.plan][cur.next] = "open"
  /\ manual # NoBatch => batch[manual[1]][manual[2]] = "open"
  /\ pc = "expand" => manual # <<cur.plan, cur.next>>

(* The cursor d of a plan is on its schedule, with a batch for all before. *)
Covered(d) ==
  d.plan \notin reset /\ d.next # Null =>
    /\ d.schedule = schedule[d.plan]
    /\ Occurs(d.schedule, d.next)
    /\ \A t \in Times :
         Occurs(d.schedule, t) /\ t < d.next => BatchExists(d.plan, t)

(* So are the stored cursor and the copies RunDue works with. *)
CursorsCovered ==
  /\ \A p \in Plans : Covered(Snapshot(p))
  /\ \A d \in due : Covered(d)
  /\ Handling \/ pc = "loop" => Covered(cur)

PlanInv ==
  /\ ClocksAgree /\ LoopState /\ RequestState /\ OneExpander
  /\ CursorAhead /\ CursorsCovered

================================================================================
