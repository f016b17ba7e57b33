-------------------------- MODULE PlanSchedulerProofs --------------------------
(***************************************************************************)
(* Proofs about PlanScheduler: type correctness, the inductive invariant   *)
(* PlanInv, and from it the cursor, gap and expansion properties, for any  *)
(* plans, schedules, ticks and bounds.                                     *)
(***************************************************************************)
EXTENDS PlanScheduler, TLAPS

(* The parts of PlanAssumption, for use in arithmetic steps. *)
LEMMA Constants ==
  /\ Horizon \in Nat /\ MaxSteps \in Nat /\ NoPlan \notin Plans
  /\ Manual \notin Schedules /\ Null \in Times /\ Null \in Nat
  BY PlanAssumption DEF PlanAssumption, Times, Null

(* What nextRun returns for the schedules and times of the model. *)
LEMMA NextRunFacts ==
  ASSUME NEW s \in Schedules \cup {Manual}, NEW t \in Times
  PROVE  /\ nextRun(s, t) \in Nat
         /\ nextRun(s, t) # Null => nextRun(s, t) > t
  <1>1. CASE s = Manual
    BY <1>1 DEF nextRun, Null
  <1>2. CASE s # Manual
    <2>1. s \in Schedules
      BY <1>2
    <2>2. NextAfter(s, t) \in Nat /\ NextAfter(s, t) > t
      BY <2>1, PlanAssumption DEF PlanAssumption
    <2> QED BY <1>2, <2>2 DEF nextRun
  <1> QED BY <1>1, <1>2

(* Stuttering keeps everything. *)
LEMMA Stutter ==
  ASSUME TypeOK, PlanInv, UNCHANGED vars
  PROVE  TypeOK' /\ PlanInv'
  BY DEF TypeOK, PlanInv, ClocksAgree, LoopState, RequestState, OneExpander,
     CursorAhead, CursorsCovered, Covered, Snapshot, Handling, BatchExists, vars,
     planVars, loopVars, requestVars, auxVars

(* The types of the two tables. *)
PlanTypes ==
  /\ schedule \in [Plans -> Schedules \cup {Manual}]
  /\ enabled \in [Plans -> BOOLEAN] /\ pauseReason \in [Plans -> BOOLEAN]
  /\ nextRunAt \in [Plans -> Nat] /\ lastScheduledAt \in [Plans -> Times]

BatchStatuses == {"none", "skipped", "open", "ended"}
BatchTypes == batch \in [Plans -> [Times -> BatchStatuses]]

(* Writing one batch row keeps the type of the table. *)
LEMMA BatchType ==
  ASSUME TypeOK, NEW p \in Plans, NEW t \in Times,
         NEW r \in BatchStatuses, batch' = [batch EXCEPT ![p][t] = r]
  PROVE  BatchTypes'
  BY DEF TypeOK, BatchTypes, BatchStatuses

(* PausePlanForScope keeps the types of the plan row. *)
LEMMA PauseType ==
  ASSUME TypeOK, NEW p \in Plans,
         PausePlanForScope(p) \/ UNCHANGED planVars
  PROVE  PlanTypes'
  <1>1. CASE UNCHANGED planVars
    BY <1>1 DEF TypeOK, PlanTypes, planVars
  <1>2. CASE PausePlanForScope(p)
    <2>1. enabled' \in [Plans -> BOOLEAN]
      BY <1>2 DEF TypeOK, PausePlanForScope
    <2>2. pauseReason' \in [Plans -> BOOLEAN]
      BY <1>2 DEF TypeOK, PausePlanForScope
    <2>3. nextRunAt' \in [Plans -> Nat]
      BY <1>2, Constants DEF TypeOK, PausePlanForScope
    <2> QED BY <1>2, <2>1, <2>2, <2>3 DEF TypeOK, PausePlanForScope, PlanTypes
  <1> QED BY <1>1, <1>2

(* Every step keeps the types. *)
LEMMA TypeStep ==
  ASSUME TypeOK, PlanInv, Next
  PROVE  TypeOK'
  <1> USE Constants
  <1>1. CASE BeginRunDue
    <2>1. DuePlans(tick) \subseteq Snapshots
      BY DEF TypeOK, DuePlans, Snapshot, Snapshots
    <2>2. due' \subseteq Snapshots /\ pc' \in {"idle", "plan"}
      BY <1>1, <2>1 DEF BeginRunDue, TypeOK
    <2> QED BY <1>1, <2>2 DEF BeginRunDue, TypeOK, planVars, requestVars, auxVars
  <1>2. CASE TakePlan
    BY <1>2 DEF TakePlan, TypeOK, planVars, requestVars, auxVars
  <1>3. CASE EndRunDue
    BY <1>3 DEF EndRunDue, Return, TypeOK, planVars, requestVars, auxVars
  <1>4. CASE LeaveLoop
    BY <1>4 DEF LeaveLoop, NextPlan, TypeOK, planVars, requestVars, auxVars
  <1>5. CASE recordSkipped \/ RunPlan
    <2>1. cur.plan \in Plans /\ cur.next \in Times
      BY <1>5 DEF recordSkipped, RunPlan, MoreDue, PlanInv, LoopState, Snapshots,
         TypeOK, Times
    <2>2. BatchTypes'
      BY <1>5, <2>1, BatchType DEF recordSkipped, RunPlan, TypeOK, BatchTypes,
         BatchStatuses
    <2> QED BY <1>5, <2>2 DEF recordSkipped, RunPlan, TypeOK, BatchTypes,
                BatchStatuses, planVars, requestVars, auxVars
  <1>6. CASE Expand \/ ExpandFails
    <2>1. cur.plan \in Plans /\ cur.next \in Times
      BY <1>6 DEF Expand, ExpandFails, Return, PlanInv, LoopState, Snapshots,
         TypeOK, Times, Handling
    <2>2. BatchTypes'
      BY <1>6, <2>1, BatchType DEF Expand, ExpandFails, Return, BatchStatuses
    <2>3. PausePlanForScope(cur.plan) \/ UNCHANGED planVars
      BY <1>6 DEF Expand, ExpandFails, Return
    <2>4. PlanTypes'
      BY <2>1, <2>3, PauseType
    <2> QED BY <1>6, <2>2, <2>4 DEF Expand, ExpandFails, Return, TypeOK, BatchTypes,
                BatchStatuses, PlanTypes, requestVars, auxVars
  <1>7. CASE CheckLatest
    BY <1>7 DEF CheckLatest, NextPlan, TypeOK, planVars, requestVars, auxVars
  <1>8. CASE AdvancePlan
    <2>1. cur \in Snapshots /\ cur.next \in Times
      BY <1>8 DEF AdvancePlan, PlanInv, LoopState, Snapshots, TypeOK, Times, Handling
    <2>2. cur.plan \in Plans /\ nextRun(cur.schedule, cur.next) \in Nat
      BY <2>1, NextRunFacts DEF Snapshots
    <2>3. cur' \in Snapshots
      BY <1>8, <2>1, <2>2 DEF AdvancePlan, Snapshots
    <2> QED BY <1>8, <2>1, <2>2, <2>3 DEF AdvancePlan, TypeOK
  <1>9. ASSUME NEW p \in Plans, Pause(p) \/ Run(p) \/ WorkerPausesPlan(p)
        PROVE  TypeOK'
    <2>1. CASE Pause(p)
      BY <2>1 DEF Pause, TypeOK, loopVars, auxVars
    <2>2. CASE Run(p)
      <3>1. BatchTypes'
        BY <2>2, BatchType DEF Run, TypeOK, BatchTypes, BatchStatuses
      <3> QED BY <2>2, <3>1 DEF Run, TypeOK, BatchTypes, BatchStatuses,
                  planVars, loopVars, auxVars
    <2>3. CASE WorkerPausesPlan(p)
      <3>1. PausePlanForScope(p) \/ UNCHANGED planVars
        BY <2>3 DEF WorkerPausesPlan
      <3>2. PlanTypes'
        BY <3>1, PauseType
      <3> QED BY <2>3, <3>2 DEF WorkerPausesPlan, TypeOK, PlanTypes, loopVars,
                  requestVars, auxVars
    <2> QED BY <1>9, <2>1, <2>2, <2>3
  <1>10. ASSUME NEW p \in Plans, ResumeRead(p)
         PROVE  TypeOK'
    <2>1. nextRun(schedule[p], clock) \in Nat
      BY NextRunFacts DEF TypeOK
    <2>2. resume' \in Resumes
      BY <1>10, <2>1 DEF ResumeRead, TypeOK, Resumes
    <2> QED BY <1>10, <2>2 DEF ResumeRead, TypeOK, planVars, loopVars, auxVars
  <1>11. ASSUME NEW p \in Plans, NEW s \in Schedules \cup {Manual},
                NEW e \in BOOLEAN, UpdateRead(p, s, e)
         PROVE  TypeOK'
    <2>1. nextRun(s, clock) \in Nat
      BY NextRunFacts DEF TypeOK
    <2>2. (e /\ s # Manual) \in BOOLEAN
      OBVIOUS
    <2>3. update' \in Updates
      BY <1>11, <2>1, <2>2 DEF UpdateRead, TypeOK, Updates
    <2> QED BY <1>11, <2>3 DEF UpdateRead, TypeOK, planVars, loopVars, auxVars
  <1>12. CASE ResumeWrite
    <2>1. resume.plan \in Plans /\ resume.next \in Nat
      BY <1>12 DEF ResumeWrite, TypeOK, Resumes
    <2>2. overtaken' \subseteq Plans
      BY <1>12, <2>1 DEF ResumeWrite, Overtaken, TypeOK
    <2> QED BY <1>12, <2>1, <2>2 DEF ResumeWrite, TypeOK, loopVars
  <1>13. CASE UpdateWrite
    <2>1. /\ update.plan \in Plans /\ update.next \in Nat
          /\ update.schedule \in Schedules \cup {Manual}
          /\ update.enabled \in BOOLEAN
      BY <1>13 DEF UpdateWrite, TypeOK, Updates
    <2>2. overtaken' \subseteq Plans
      BY <1>13, <2>1 DEF UpdateWrite, Overtaken, TypeOK
    <2>3. enabled' \in [Plans -> BOOLEAN]
      BY <1>13, <2>1 DEF UpdateWrite, TypeOK
    <2>4. pauseReason' \in [Plans -> BOOLEAN]
      BY <1>13 DEF UpdateWrite, TypeOK
    <2> QED BY <1>13, <2>1, <2>2, <2>3, <2>4 DEF UpdateWrite, TypeOK, loopVars
  <1>14. CASE UpdateRefused
    BY <1>14 DEF UpdateRefused, TypeOK, planVars, loopVars, auxVars
  <1>15. CASE RunExpands
    <2>1. manual[1] \in Plans /\ manual[2] \in Times
      BY <1>15 DEF RunExpands, TypeOK, NoBatch
    <2>2. batch' = [batch EXCEPT ![manual[1]][manual[2]] = "ended"]
      BY <1>15 DEF RunExpands
    <2>3. BatchTypes'
      BY <2>1, <2>2, BatchType DEF BatchStatuses
    <2>4. PausePlanForScope(manual[1]) \/ UNCHANGED planVars
      BY <1>15 DEF RunExpands
    <2>5. PlanTypes'
      BY <2>1, <2>4, PauseType
    <2> QED BY <1>15, <2>3, <2>5 DEF RunExpands, TypeOK, BatchTypes,
                BatchStatuses, PlanTypes, loopVars, auxVars
  <1>16. CASE Tick
    BY <1>16 DEF Tick, TypeOK, Times, planVars, loopVars, requestVars, auxVars
  <1>17. CASE LastTick \/ Bind
    BY <1>17 DEF LastTick, Bind, TypeOK, planVars, loopVars, requestVars, auxVars
  <1>18. CASE Restart
    <2>1. /\ cur' \in Snapshots \cup {NoSnapshot}
          /\ manual' \in (Plans \X Times) \cup {NoBatch}
          /\ resume' \in Resumes \cup {NoResume}
          /\ update' \in Updates \cup {NoUpdate}
      BY <1>18 DEF Restart, Return
    <2>2. bound' \in BOOLEAN
      BY <1>18 DEF Restart, Return
    <2>3. crashes' \in Nat
      BY <1>18 DEF Restart, Return, TypeOK
    <2>4. /\ tick' = clock /\ pc' = "idle" /\ due' = {} /\ steps' = 0
          /\ now' = 0
          /\ UNCHANGED <<planVars, batch, requests, auxVars, clock>>
      BY <1>18 DEF Restart, Return, Null
    <2>5. 0 \in Times
      BY DEF Times
    <2> QED BY <2>1, <2>2, <2>3, <2>4, <2>5 DEF TypeOK, planVars, auxVars
  <1> QED
    BY <1>1, <1>2, <1>3, <1>4, <1>5, <1>6, <1>7, <1>8, <1>9, <1>10, <1>11, <1>12,
       <1>13, <1>14, <1>15, <1>16, <1>17, <1>18 DEF Next, SchedulerStep, Request

--------------------------------------------------------------------------------
(* The batch of a manual run, when there is one. *)
LEMMA ManualPair ==
  ASSUME TypeOK, manual # NoBatch
  PROVE  \E q \in Plans, u \in Times :
           manual = <<q, u>> /\ manual[1] = q /\ manual[2] = u
  <1>1. manual \in Plans \X Times
    BY DEF TypeOK
  <1>2. manual[1] \in Plans /\ manual[2] \in Times /\ manual = <<manual[1],
     manual[2]>>
    BY <1>1
  <1> QED BY <1>2

(* What a step may do to a batch row: fill an empty one, or close an open  *)
(* one by the party that opened it.                                        *)
BatchStep(p, t) ==
  BatchExists(p, t) /\ batch'[p][t] # batch[p][t] =>
    /\ batch[p][t] = "open"
    /\ \/ pc = "expand" /\ cur.plan = p /\ cur.next = t
       \/ manual = <<p, t>>

LEMMA BatchRows ==
  ASSUME TypeOK, PlanInv, Next, NEW p \in Plans, NEW t \in Times
  PROVE  BatchStep(p, t) /\ (BatchExists(p, t) => BatchExists(p, t)')
  <1> USE Constants
  <1>1. CASE UNCHANGED batch
    BY <1>1 DEF BatchStep, BatchExists
  <1>2. CASE recordSkipped \/ RunPlan
    <2>1. cur.plan \in Plans /\ cur.next \in Times
      BY <1>2 DEF recordSkipped, RunPlan, MoreDue, PlanInv, LoopState, Snapshots,
         TypeOK, Times
    <2> QED BY <1>2, <2>1 DEF recordSkipped, RunPlan, BatchExists, BatchStep, TypeOK
  <1>3. CASE Expand \/ ExpandFails
    <2>1. cur.plan \in Plans /\ cur.next \in Times /\ pc = "expand"
      BY <1>3 DEF Expand, ExpandFails, Return, PlanInv, LoopState, Snapshots,
         TypeOK, Times, Handling
    <2>2. batch[cur.plan][cur.next] = "open"
      BY <2>1 DEF PlanInv, OneExpander
    <2> QED BY <1>3, <2>1, <2>2 DEF Expand, ExpandFails, Return, BatchExists,
       BatchStep, TypeOK
  <1>4. CASE RunExpands
    <2>1. manual # NoBatch
      BY <1>4 DEF RunExpands
    <2>2. batch[manual[1]][manual[2]] = "open"
      BY <2>1 DEF PlanInv, OneExpander
    <2>3. PICK q \in Plans, u \in Times :
            manual = <<q, u>> /\ manual[1] = q /\ manual[2] = u
      BY <2>1, ManualPair
    <2>4. batch' = [batch EXCEPT ![q][u] = "ended"]
      BY <1>4, <2>3 DEF RunExpands
    <2> QED BY <2>1, <2>2, <2>3, <2>4 DEF BatchExists, BatchStep, TypeOK
  <1>5. ASSUME NEW q \in Plans, Run(q)
        PROVE  BatchStep(p, t) /\ (BatchExists(p, t) => BatchExists(p, t)')
    BY <1>5 DEF Run, BatchExists, BatchStep, TypeOK
  <1>6. \/ UNCHANGED batch
        \/ recordSkipped \/ RunPlan \/ Expand \/ ExpandFails \/ RunExpands
        \/ \E q \in Plans : Run(q)
    BY DEF Next, SchedulerStep, Request, BeginRunDue, TakePlan, EndRunDue, Return,
       NextPlan, LeaveLoop, CheckLatest, AdvancePlan, Pause, ResumeRead, UpdateRead,
       UpdateRefused, UpdateWrite, ResumeWrite, WorkerPausesPlan, Tick, LastTick,
       Bind, Restart
  <1> QED BY <1>1, <1>2, <1>3, <1>4, <1>5, <1>6

(* The cursor a request computes is after what was handled so far. *)
LEMMA RequestAhead ==
  ASSUME TypeOK, PlanInv, NEW p \in Plans, NEW s \in Schedules \cup {Manual},
         nextRun(s, clock) # Null
  PROVE  nextRun(s, clock) > lastScheduledAt[p]
  <1>1. clock \in Times /\ lastScheduledAt[p] \in Times
    BY DEF TypeOK
  <1>2. nextRun(s, clock) \in Nat /\ nextRun(s, clock) > clock
    BY <1>1, NextRunFacts
  <1>3. lastScheduledAt[p] <= clock
    BY DEF PlanInv, CursorAhead
  <1> QED BY <1>1, <1>2, <1>3 DEF Times

(* Clocks, the loop and the requests under way. *)
LEMMA LoopStep ==
  ASSUME TypeOK, TypeOK', PlanInv, Next
  PROVE  ClocksAgree' /\ LoopState' /\ RequestState'
  <1> USE Constants
  <1>1. ClocksAgree'
    <2>1. CASE Tick
      BY <2>1 DEF Tick, ClocksAgree, PlanInv, TypeOK, Times, loopVars
    <2>2. CASE ~Tick
      <3>1. clock' = clock /\ tick' \in {tick, clock, Null} /\ now' \in {now, tick,
         Null}
        BY <2>2 DEF Next, SchedulerStep, Request, BeginRunDue, TakePlan, EndRunDue,
           Return, NextPlan, LeaveLoop, recordSkipped, RunPlan, Expand, ExpandFails,
           CheckLatest, AdvancePlan, Pause, ResumeRead, UpdateRead, UpdateRefused,
           UpdateWrite, Run, ResumeWrite, RunExpands, WorkerPausesPlan, LastTick,
           Bind, Restart, loopVars
      <3> QED BY <3>1 DEF ClocksAgree, PlanInv, TypeOK, Times, Null
    <2> QED BY <2>1, <2>2
  <1>2. RequestState'
    <2>1. ASSUME NEW p \in Plans, ResumeRead(p)
          PROVE  RequestState'
      <3>1. schedule[p] \in Schedules \cup {Manual}
        BY DEF TypeOK
      <3>2. nextRun(schedule[p], clock) # Null =>
              nextRun(schedule[p], clock) > lastScheduledAt[p]
        BY <3>1, RequestAhead
      <3> QED BY <2>1, <3>2 DEF ResumeRead, RequestState, PlanInv
    <2>2. ASSUME NEW p \in Plans, NEW s \in Schedules \cup {Manual},
                 NEW e \in BOOLEAN, UpdateRead(p, s, e)
          PROVE  RequestState'
      <3>1. nextRun(s, clock) # Null => nextRun(s, clock) > lastScheduledAt[p]
        BY RequestAhead
      <3> QED BY <2>2, <3>1 DEF UpdateRead, RequestState, PlanInv
    <2>3. CASE resume' \in {resume, NoResume} /\ update' \in {update, NoUpdate}
      BY <2>3 DEF RequestState, PlanInv
    <2> QED
      BY <2>1, <2>2, <2>3 DEF Next, SchedulerStep, Request, BeginRunDue, TakePlan,
         EndRunDue, Return, NextPlan, LeaveLoop, recordSkipped, RunPlan, Expand,
         ExpandFails, CheckLatest, AdvancePlan, Pause, UpdateRefused, UpdateWrite,
         Run, ResumeWrite, RunExpands, WorkerPausesPlan, Tick, LastTick, Bind,
         Restart, requestVars
  <1>3. LoopState'
    <2>1. CASE pc' \in {"idle", "plan"}
      BY <2>1 DEF LoopState, Handling
    <2>2. CASE UNCHANGED loopVars
      <3>1. Handling => cur.plan \in Plans /\ cur.next \in Times
        BY DEF PlanInv, LoopState, Snapshots, TypeOK, Times
      <3>2. Handling => BatchExists(cur.plan, cur.next)'
        BY <2>2, <3>1, BatchRows DEF PlanInv, LoopState, loopVars, BatchExists
      <3> QED BY <2>2, <3>2 DEF PlanInv, LoopState, Handling, loopVars, BatchExists
    <2>3. CASE TakePlan
      BY <2>3 DEF TakePlan, LoopState, Handling, TypeOK
    <2>4. CASE recordSkipped \/ RunPlan
      <3>1. cur \in Snapshots /\ cur.plan \in Plans /\ cur.next \in Times /\ MoreDue
        BY <2>4 DEF recordSkipped, RunPlan, MoreDue, PlanInv, LoopState, Snapshots,
           TypeOK, Times
      <3>2. batch'[cur.plan][cur.next] # "none"
        BY <2>4, <3>1 DEF recordSkipped, RunPlan, BatchExists, TypeOK
      <3> QED BY <2>4, <3>1, <3>2 DEF recordSkipped, RunPlan, MoreDue, LoopState,
                 Handling, BatchExists
    <2>5. CASE (Expand \/ CheckLatest) /\ pc' # "plan"
      <3>1. Handling /\ cur' = cur /\ now' = now
        BY <2>5 DEF Expand, CheckLatest, NextPlan, Handling
      <3>2. cur \in Snapshots /\ cur.plan \in Plans /\ cur.next \in Times
        BY <3>1 DEF PlanInv, LoopState, Snapshots, TypeOK, Times
      <3>3. BatchExists(cur.plan, cur.next)'
        BY <3>1, <3>2, BatchRows DEF PlanInv, LoopState, BatchExists
      <3> QED BY <3>1, <3>2, <3>3 DEF PlanInv, LoopState, Handling, BatchExists
    <2>6. CASE AdvancePlan
      <3>1. cur \in Snapshots /\ cur.next \in Times /\ pc' = "loop"
        BY <2>6 DEF AdvancePlan, PlanInv, LoopState, Snapshots, TypeOK, Times,
           Handling
      <3>2. cur' \in Snapshots
        BY <2>6, <3>1, NextRunFacts DEF AdvancePlan, Snapshots
      <3> QED BY <3>1, <3>2 DEF LoopState, Handling
    <2>7. CASE pc' = "plan"
      BY <2>7 DEF LoopState, Handling
    <2> QED
      BY <2>1, <2>2, <2>3, <2>4, <2>5, <2>6, <2>7 DEF Next, SchedulerStep, Request,
         BeginRunDue, EndRunDue, Return, NextPlan, LeaveLoop, ExpandFails, Pause,
         ResumeRead, UpdateRead, UpdateRefused, UpdateWrite, Run, ResumeWrite,
         RunExpands, WorkerPausesPlan, Tick, LastTick, Bind, Restart, TypeOK
  <1> QED BY <1>1, <1>2, <1>3

(* An expansion in progress keeps its open batch to itself. *)
LEMMA ExpanderStep ==
  ASSUME TypeOK, TypeOK', PlanInv, Next
  PROVE  OneExpander'
  <1> USE Constants
  <1>1. CASE UNCHANGED <<batch, manual, pc, cur>>
    BY <1>1 DEF OneExpander, PlanInv
  <1>2. CASE recordSkipped \/ RunPlan
    <2>1. cur.plan \in Plans /\ cur.next \in Times /\ UNCHANGED <<cur, manual>>
      BY <1>2 DEF recordSkipped, RunPlan, MoreDue, PlanInv, LoopState, Snapshots,
         TypeOK, Times, requestVars
    <2>2. manual # NoBatch => manual[1] \in Plans /\ manual[2] \in Times
      BY ManualPair
    <2>3. manual # NoBatch => batch'[manual[1]][manual[2]] = "open"
      BY <1>2, <2>1, <2>2 DEF recordSkipped, RunPlan, BatchExists, PlanInv,
         OneExpander, TypeOK
    <2>4. pc' = "expand" => /\ batch'[cur.plan][cur.next] = "open"
                            /\ batch[cur.plan][cur.next] = "none"
      BY <1>2, <2>1 DEF recordSkipped, RunPlan, BatchExists, TypeOK
    <2>5. pc' = "expand" => manual # <<cur.plan, cur.next>>
      <3>1. manual = <<cur.plan, cur.next>> => manual # NoBatch
        BY <2>1 DEF NoBatch
      <3>2. manual = <<cur.plan, cur.next>> => batch[cur.plan][cur.next] = "open"
        BY <3>1 DEF PlanInv, OneExpander
      <3> QED BY <2>4, <3>2
    <2> QED BY <2>1, <2>3, <2>4, <2>5 DEF OneExpander
  <1>3. CASE Expand \/ ExpandFails
    <2>1. /\ cur.plan \in Plans /\ cur.next \in Times /\ pc = "expand"
          /\ UNCHANGED manual /\ pc' # "expand"
      BY <1>3 DEF Expand, ExpandFails, Return, PlanInv, LoopState, Snapshots,
         TypeOK, Times, Handling, requestVars
    <2>2. ASSUME manual # NoBatch
          PROVE  batch'[manual[1]][manual[2]] = "open"
      <3>2. PICK q \in Plans, u \in Times :
              manual = <<q, u>> /\ manual[1] = q /\ manual[2] = u
        BY <2>2, ManualPair
      <3>3. ~(cur.plan = q /\ cur.next = u)
        BY <2>1, <3>2 DEF PlanInv, OneExpander
      <3>4. batch[q][u] = "open"
        BY <2>2, <3>2 DEF PlanInv, OneExpander
      <3>5. batch'[q][u] = batch[q][u]
        BY <1>3, <2>1, <3>3 DEF Expand, ExpandFails, Return, TypeOK
      <3> QED BY <3>2, <3>4, <3>5
    <2> QED BY <2>1, <2>2 DEF OneExpander
  <1>4. CASE RunExpands
    <2>1. manual # NoBatch
      BY <1>4 DEF RunExpands
    <2>2. PICK q \in Plans, u \in Times :
            manual = <<q, u>> /\ manual[1] = q /\ manual[2] = u
      BY <2>1, ManualPair
    <2>3. batch' = [batch EXCEPT ![q][u] = "ended"]
      BY <1>4, <2>2 DEF RunExpands
    <2>4. manual' = NoBatch /\ UNCHANGED <<pc, cur>>
      BY <1>4 DEF RunExpands, loopVars
    <2>5. ASSUME pc = "expand"
          PROVE  /\ batch'[cur.plan][cur.next] = "open"
                 /\ NoBatch # <<cur.plan, cur.next>>
      <3>1. cur.plan \in Plans /\ cur.next \in Times
        BY <2>5 DEF PlanInv, LoopState, Snapshots, TypeOK, Times, Handling
      <3>2. ~(cur.plan = q /\ cur.next = u) /\ batch[cur.plan][cur.next] = "open"
        BY <2>2, <2>5 DEF PlanInv, OneExpander
      <3>3. batch'[cur.plan][cur.next] = batch[cur.plan][cur.next]
        BY <2>3, <3>1, <3>2 DEF TypeOK
      <3> QED BY <3>1, <3>2, <3>3 DEF NoBatch
    <2> QED BY <2>4, <2>5 DEF OneExpander
  <1>5. ASSUME NEW p \in Plans, Run(p), ~BatchExists(p, clock)
        PROVE  OneExpander'
    <2>1. /\ batch' = [batch EXCEPT ![p][clock] = "open"]
          /\ manual' = <<p, clock>> /\ clock \in Times /\ UNCHANGED <<pc, cur>>
      BY <1>5 DEF Run, loopVars, TypeOK
    <2>2. batch'[p][clock] = "open"
      BY <2>1 DEF TypeOK
    <2>3. manual'[1] = p /\ manual'[2] = clock
      BY <2>1
    <2>4. ASSUME pc = "expand"
          PROVE  /\ batch'[cur.plan][cur.next] = "open"
                 /\ <<p, clock>> # <<cur.plan, cur.next>>
      <3>1. cur.plan \in Plans /\ cur.next \in Times
        BY <2>4 DEF PlanInv, LoopState, Snapshots, TypeOK, Times, Handling
      <3>2. batch[cur.plan][cur.next] = "open"
        BY <2>4 DEF PlanInv, OneExpander
      <3>3. ~(cur.plan = p /\ cur.next = clock)
        BY <1>5, <3>2 DEF BatchExists
      <3> QED BY <2>1, <3>1, <3>2, <3>3 DEF TypeOK
    <2> QED BY <2>1, <2>2, <2>3, <2>4 DEF OneExpander
  <1>6. CASE pc' # "expand" /\ UNCHANGED <<batch, manual>>
    BY <1>6 DEF OneExpander, PlanInv
  <1>7. CASE Restart
    BY <1>7 DEF Restart, Return, OneExpander
  <1>8. \/ UNCHANGED <<batch, manual, pc, cur>>
        \/ recordSkipped \/ RunPlan \/ Expand \/ ExpandFails \/ RunExpands
        \/ \E p \in Plans : Run(p) /\ ~BatchExists(p, clock)
        \/ pc' # "expand" /\ UNCHANGED <<batch, manual>>
        \/ Restart
    BY DEF Next, SchedulerStep, Request, BeginRunDue, TakePlan, EndRunDue, Return,
       NextPlan, LeaveLoop, CheckLatest, AdvancePlan, Pause, ResumeRead, UpdateRead,
       UpdateRefused, UpdateWrite, Run, ResumeWrite, WorkerPausesPlan, Tick,
       LastTick, Bind, loopVars, requestVars
  <1> QED BY <1>1, <1>2, <1>3, <1>4, <1>5, <1>6, <1>7, <1>8

(* What a request writes: a cursor after what was handled when it began,   *)
(* and a mark if RunDue has handled an occurrence since.                   *)
CursorReset(p) ==
  /\ p \in reset' /\ UNCHANGED <<lastScheduledAt[p], clock>>
  /\ nextRunAt'[p] # Null /\ p \notin overtaken'
       => nextRunAt'[p] > lastScheduledAt[p]

CursorKept(p) ==
  /\ UNCHANGED <<nextRunAt[p], lastScheduledAt[p]>> /\ clock' >= clock
  /\ p \in overtaken' <=> p \in overtaken

(* How a step can write the cursor of a plan. *)
LEMMA CursorWrites ==
  ASSUME TypeOK, PlanInv, Next, NEW p \in Plans
  PROVE  \/ CursorKept(p) \/ CursorReset(p)
         \/ nextRunAt'[p] = Null /\ UNCHANGED <<lastScheduledAt[p], clock>>
         \/ AdvancePlan /\ p = cur.plan
  <1> USE Constants
  <1>1. CASE Tick
    BY <1>1 DEF Tick, CursorKept, planVars, requestVars, auxVars, TypeOK, Times
  <1>2. CASE AdvancePlan
    BY <1>2 DEF AdvancePlan, CursorKept, TypeOK, Times
  <1>3. CASE ResumeWrite
    <2>1. resume \in Resumes /\ resume.plan \in Plans
      BY <1>3 DEF ResumeWrite, TypeOK, Resumes
    <2>2. CASE p # resume.plan
      BY <1>3, <2>1, <2>2 DEF ResumeWrite, Overtaken, CursorKept, TypeOK, Times
    <2>3. CASE p = resume.plan
      <3>1. /\ nextRunAt'[p] = resume.next /\ p \in reset'
            /\ UNCHANGED <<lastScheduledAt[p], clock>>
            /\ p \notin overtaken' => lastScheduledAt[p] = resume.seen
        BY <1>3, <2>1, <2>3 DEF ResumeWrite, Overtaken, TypeOK
      <3>2. resume.next # Null => resume.next > resume.seen
        BY <1>3 DEF ResumeWrite, PlanInv, RequestState
      <3> QED BY <3>1, <3>2 DEF CursorReset
    <2> QED BY <2>2, <2>3
  <1>4. CASE UpdateWrite
    <2>1. update \in Updates /\ update.plan \in Plans
      BY <1>4 DEF UpdateWrite, TypeOK, Updates
    <2>2. CASE p # update.plan
      BY <1>4, <2>1, <2>2 DEF UpdateWrite, Overtaken, CursorKept, TypeOK, Times
    <2>3. CASE p = update.plan
      <3>1. /\ nextRunAt'[p] = update.next /\ p \in reset'
            /\ UNCHANGED <<lastScheduledAt[p], clock>>
            /\ p \notin overtaken' => lastScheduledAt[p] = update.seen
        BY <1>4, <2>1, <2>3 DEF UpdateWrite, Overtaken, TypeOK
      <3>2. update.next # Null => update.next > update.seen
        BY <1>4 DEF UpdateWrite, PlanInv, RequestState
      <3> QED BY <3>1, <3>2 DEF CursorReset
    <2> QED BY <2>2, <2>3
  <1>5. ASSUME NEW q \in Plans, PausePlanForScope(q) \/ UNCHANGED planVars,
               UNCHANGED <<clock, overtaken>>
        PROVE  \/ CursorKept(p)
               \/ nextRunAt'[p] = Null /\ UNCHANGED <<lastScheduledAt[p], clock>>
    BY <1>5 DEF PausePlanForScope, CursorKept, planVars, TypeOK, Times
  <1>6. ASSUME NEW q \in Plans, Pause(q)
        PROVE  \/ CursorKept(p)
               \/ nextRunAt'[p] = Null /\ UNCHANGED <<lastScheduledAt[p], clock>>
    BY <1>6 DEF Pause, CursorKept, auxVars, TypeOK, Times
  <1>7. Expand \/ ExpandFails => cur.plan \in Plans
    BY DEF Expand, ExpandFails, Return, PlanInv, LoopState, Snapshots, Handling
  <1>8. RunExpands => manual[1] \in Plans
    BY ManualPair DEF RunExpands
  <1>9. \/ Tick \/ AdvancePlan \/ ResumeWrite \/ UpdateWrite
        \/ UNCHANGED <<planVars, clock, overtaken>>
        \/ \E q \in Plans : /\ PausePlanForScope(q) \/ UNCHANGED planVars
                            /\ UNCHANGED <<clock, overtaken>>
        \/ \E q \in Plans : Pause(q)
    BY <1>7, <1>8 DEF Next, SchedulerStep, Request, BeginRunDue, TakePlan,
       EndRunDue, Return, NextPlan, LeaveLoop, recordSkipped, RunPlan, Expand,
       ExpandFails, CheckLatest, ResumeRead, UpdateRead, UpdateRefused, Run,
       RunExpands, WorkerPausesPlan, LastTick, Bind, Restart, requestVars, auxVars
  <1>10. CASE UNCHANGED <<planVars, clock, overtaken>>
    BY <1>10 DEF planVars, CursorKept, TypeOK, Times
  <1> QED BY <1>1, <1>2, <1>3, <1>4, <1>5, <1>6, <1>9, <1>10

(* The cursor stays ahead of what was handled, unless it is marked. *)
LEMMA AheadStep ==
  ASSUME TypeOK, TypeOK', PlanInv, Next
  PROVE  CursorAhead'
  <1> USE Constants
  <1> SUFFICES ASSUME NEW p \in Plans
               PROVE  /\ lastScheduledAt'[p] <= clock'
                      /\ nextRunAt'[p] # Null /\ p \notin overtaken'
                           => nextRunAt'[p] > lastScheduledAt'[p]
    BY DEF CursorAhead
  <1>1. /\ lastScheduledAt[p] \in Nat /\ nextRunAt[p] \in Nat /\ clock \in Nat
        /\ clock' \in Nat /\ nextRunAt'[p] \in Nat
        /\ lastScheduledAt[p] <= clock
        /\ nextRunAt[p] # Null /\ p \notin overtaken
             => nextRunAt[p] > lastScheduledAt[p]
    BY DEF TypeOK, PlanInv, CursorAhead, Times
  <1>2. CASE CursorKept(p)
    BY <1>1, <1>2 DEF CursorKept
  <1>3. CASE nextRunAt'[p] = Null /\ UNCHANGED <<lastScheduledAt[p], clock>>
    BY <1>1, <1>3
  <1>4. CASE CursorReset(p)
    BY <1>1, <1>4 DEF CursorReset
  <1>5. CASE AdvancePlan /\ p = cur.plan
    <2>1. /\ cur.schedule \in Schedules \cup {Manual} /\ cur.next \in Times
          /\ cur.next <= now /\ now <= clock /\ now \in Nat
      BY <1>5 DEF AdvancePlan, PlanInv, LoopState, ClocksAgree, Snapshots, TypeOK,
         Times, Handling
    <2>2. /\ lastScheduledAt'[p] = cur.next /\ clock' = clock
          /\ nextRunAt'[p] = nextRun(cur.schedule, cur.next)
      BY <1>5 DEF AdvancePlan, TypeOK
    <2> QED BY <1>1, <2>1, <2>2, NextRunFacts DEF Times
  <1> QED BY <1>2, <1>3, <1>4, <1>5, CursorWrites

(* Only a request that resets a plan changes its schedule. *)
LEMMA ScheduleKept ==
  ASSUME TypeOK, Next
  PROVE  /\ reset \subseteq reset'
         /\ \A p \in Plans : p \notin reset' => schedule'[p] = schedule[p]
  <1>1. CASE UpdateWrite
    BY <1>1 DEF UpdateWrite, TypeOK, Updates
  <1>2. CASE ~UpdateWrite
    <2>1. reset \subseteq reset' /\ schedule' = schedule
      BY <1>2 DEF Next, SchedulerStep, Request, BeginRunDue, TakePlan, EndRunDue,
         Return, NextPlan, LeaveLoop, recordSkipped, RunPlan, Expand, ExpandFails,
         CheckLatest, AdvancePlan, Pause, ResumeRead, UpdateRead, UpdateRefused,
         Run, ResumeWrite, RunExpands, WorkerPausesPlan, Tick, LastTick, Bind,
         Restart, PausePlanForScope, planVars, requestVars, auxVars
    <2> QED BY <2>1
  <1> QED BY <1>1, <1>2

(* A cursor that is covered stays covered: batches are never removed. *)
LEMMA CoveredKept ==
  ASSUME TypeOK, PlanInv, Next, NEW d \in Snapshots, Covered(d)
  PROVE  Covered(d)'
  <1> SUFFICES ASSUME d.plan \notin reset', d.next # Null
               PROVE  /\ d.schedule = schedule'[d.plan]
                      /\ Occurs(d.schedule, d.next)
                      /\ \A t \in Times : Occurs(d.schedule, t) /\ t < d.next
                           => BatchExists(d.plan, t)'
    BY DEF Covered, Occurs, BatchExists
  <1>1. d.plan \in Plans
    BY DEF Snapshots
  <1>2. d.plan \notin reset /\ schedule'[d.plan] = schedule[d.plan]
    BY <1>1, ScheduleKept
  <1>3. \A t \in Times : BatchExists(d.plan, t) => BatchExists(d.plan, t)'
    BY <1>1, BatchRows
  <1> QED BY <1>2, <1>3 DEF Covered

(* The occurrence after a covered cursor with a batch is covered again. *)
LEMMA AdvanceCovers ==
  ASSUME TypeOK, PlanInv, AdvancePlan,
         NEW d \in Snapshots, d.plan = cur.plan, d.schedule = cur.schedule,
         d.next = nextRun(cur.schedule, cur.next)
  PROVE  Covered(d)
  <1> USE Constants
  <1> SUFFICES ASSUME d.plan \notin reset, d.next # Null
               PROVE  /\ d.schedule = schedule[d.plan]
                      /\ Occurs(d.schedule, d.next)
                      /\ \A t \in Times : Occurs(d.schedule, t) /\ t < d.next
                           => BatchExists(d.plan, t)
    BY DEF Covered
  <1>1. /\ cur \in Snapshots /\ cur.next # Null /\ cur.next \in Times
        /\ BatchExists(cur.plan, cur.next)
    BY DEF AdvancePlan, PlanInv, LoopState, Snapshots, TypeOK, Times, Handling
  <1>2. Covered(cur)
    BY DEF AdvancePlan, PlanInv, CursorsCovered, Handling
  <1>3. /\ cur.schedule = schedule[cur.plan] /\ Occurs(cur.schedule, cur.next)
        /\ \A t \in Times : Occurs(cur.schedule, t) /\ t < cur.next
             => BatchExists(cur.plan, t)
    BY <1>1, <1>2 DEF Covered
  <1>4. /\ cur.schedule \in Schedules
        /\ d.next = NextAfter(cur.schedule, cur.next)
    BY <1>1, <1>3 DEF Snapshots, Occurs, nextRun
  <1>5. Occurs(d.schedule, d.next)
    BY <1>1, <1>3, <1>4 DEF Occurs
  <1>6. ASSUME NEW t \in Times, Occurs(d.schedule, t), t < d.next
        PROVE  BatchExists(d.plan, t)
    <2>1. PICK u \in Times : NextAfter(cur.schedule, u) = t
      BY <1>6 DEF Occurs
    <2>2. PICK v \in Times : NextAfter(cur.schedule, v) = cur.next
      BY <1>3 DEF Occurs
    <2>3. u \in Nat /\ v \in Nat /\ t \in Nat /\ cur.next \in Nat /\ d.next \in Nat
      BY <1>1 DEF Times, Snapshots
    <2>4. u < cur.next
      <3>1. u # cur.next
        BY <1>4, <1>6, <2>1, <2>3
      <3>2. u > cur.next => t >= d.next
        BY <1>1, <1>4, <2>1, PlanAssumption DEF PlanAssumption
      <3> QED BY <1>6, <2>3, <3>1, <3>2
    <2>5. t <= cur.next
      BY <1>4, <2>1, <2>2, <2>4, PlanAssumption DEF PlanAssumption
    <2>6. t < cur.next \/ t = cur.next
      BY <2>3, <2>5
    <2> QED BY <1>1, <1>3, <1>6, <2>6
  <1> QED BY <1>3, <1>5, <1>6

(* Cursors, stored or copied, stay covered. *)
LEMMA CoverStep ==
  ASSUME TypeOK, TypeOK', PlanInv, Next
  PROVE  CursorsCovered'
  <1> USE Constants
  <1>1. ASSUME AdvancePlan
        PROVE  \E d \in Snapshots : /\ Covered(d)' /\ d = cur'
                                     /\ d.plan = cur.plan
                                     /\ d.next = nextRunAt'[cur.plan]
    <2>1. cur \in Snapshots /\ cur.next \in Times
      BY <1>1 DEF AdvancePlan, PlanInv, LoopState, Snapshots, TypeOK, Times, Handling
    <2>2. cur' \in Snapshots
      BY <1>1, <2>1, NextRunFacts DEF AdvancePlan, Snapshots
    <2>3. PICK d \in Snapshots : d = cur'
      BY <2>2
    <2>4. /\ d.plan = cur.plan /\ d.schedule = cur.schedule
          /\ d.next = nextRun(cur.schedule, cur.next)
      BY <1>1, <2>1, <2>3 DEF AdvancePlan, Snapshots
    <2>5. Covered(d)
      BY <1>1, <2>4, AdvanceCovers
    <2>6. Covered(d)'
      BY <2>5, CoveredKept
    <2>7. d.next = nextRunAt'[cur.plan]
      BY <1>1, <2>1, <2>4 DEF AdvancePlan, TypeOK, Snapshots
    <2> QED BY <2>3, <2>4, <2>6, <2>7
  <1>2. ASSUME NEW p \in Plans
        PROVE  Covered(Snapshot(p))'
    <2> SUFFICES ASSUME p \notin reset', nextRunAt'[p] # Null
                 PROVE  /\ Occurs(schedule'[p], nextRunAt'[p])
                        /\ \A t \in Times :
                             Occurs(schedule'[p], t) /\ t < nextRunAt'[p]
                               => BatchExists(p, t)'
      BY DEF Covered, Snapshot, Occurs, BatchExists
    <2>1. CASE CursorKept(p)
      <3>1. PICK d \in Snapshots : d = Snapshot(p)
        BY DEF Snapshot, Snapshots, TypeOK
      <3>2. Covered(d)
        BY <3>1 DEF PlanInv, CursorsCovered
      <3>3. Covered(d)'
        BY <3>2, CoveredKept
      <3>4. d.plan = p /\ d.next = nextRunAt'[p]
        BY <2>1, <3>1 DEF Snapshot, CursorKept
      <3> QED BY <3>3, <3>4 DEF Covered, BatchExists, Occurs
    <2>2. CASE AdvancePlan /\ p = cur.plan
      <3>1. PICK d \in Snapshots : /\ Covered(d)' /\ d.plan = p
                                   /\ d.next = nextRunAt'[p]
        BY <1>1, <2>2
      <3> QED BY <3>1 DEF Covered, BatchExists, Occurs
    <2> QED BY <2>1, <2>2, CursorWrites DEF CursorReset
  <1>3. ASSUME NEW d \in due'
        PROVE  Covered(d)'
    <2>1. CASE d \in due
      BY <2>1, CoveredKept DEF PlanInv, CursorsCovered, TypeOK
    <2>2. CASE d \notin due
      <3>1. BeginRunDue /\ d \in DuePlans(tick)
        BY <1>3, <2>2 DEF Next, SchedulerStep, Request, BeginRunDue, TakePlan,
           EndRunDue, Return, NextPlan, LeaveLoop, recordSkipped, RunPlan, Expand,
           ExpandFails, CheckLatest, AdvancePlan, Pause, ResumeRead, UpdateRead,
           UpdateRefused, UpdateWrite, Run, ResumeWrite, RunExpands,
           WorkerPausesPlan, Tick, LastTick, Bind, Restart, loopVars
      <3>2. PICK q \in Plans : d = Snapshot(q)
        BY <3>1 DEF DuePlans
      <3>3. d \in Snapshots /\ Covered(d)
        BY <3>2 DEF Snapshot, Snapshots, TypeOK, PlanInv, CursorsCovered
      <3> QED BY <3>3, CoveredKept
    <2> QED BY <2>1, <2>2
  <1>4. Handling' \/ pc' = "loop" => Covered(cur)'
    <2>1. CASE cur' = cur /\ (Handling \/ pc = "loop")
      <3>1. PICK d \in Snapshots : d = cur
        BY <2>1 DEF PlanInv, LoopState
      <3>2. Covered(d)
        BY <2>1, <3>1 DEF PlanInv, CursorsCovered
      <3>3. Covered(d)'
        BY <3>2, CoveredKept
      <3> QED BY <2>1, <3>1, <3>3 DEF Covered, BatchExists, Occurs
    <2>2. CASE AdvancePlan
      <3>1. PICK d \in Snapshots : Covered(d)' /\ d = cur'
        BY <1>1, <2>2
      <3> QED BY <3>1 DEF Covered, BatchExists, Occurs
    <2>3. CASE TakePlan
      <3>1. PICK d \in due : d = cur'
        BY <2>3 DEF TakePlan
      <3>2. d \in Snapshots /\ Covered(d)
        BY DEF TypeOK, PlanInv, CursorsCovered
      <3>3. Covered(d)'
        BY <3>2, CoveredKept
      <3> QED BY <3>1, <3>3 DEF Covered, BatchExists, Occurs
    <2>4. CASE pc' \in {"idle", "plan"}
      BY <2>4 DEF Handling
    <2>5. \/ cur' = cur /\ (Handling \/ pc = "loop")
          \/ AdvancePlan \/ TakePlan \/ pc' \in {"idle", "plan"}
      BY DEF Next, SchedulerStep, Request, BeginRunDue, EndRunDue, Return, NextPlan,
         LeaveLoop, recordSkipped, RunPlan, Expand, ExpandFails, CheckLatest, Pause,
         ResumeRead, UpdateRead, UpdateRefused, UpdateWrite, Run, ResumeWrite,
         RunExpands, WorkerPausesPlan, Tick, LastTick, Bind, Restart, loopVars,
         Handling, TypeOK
    <2> QED BY <2>1, <2>2, <2>3, <2>4, <2>5
  <1> QED BY <1>2, <1>3, <1>4 DEF CursorsCovered

--------------------------------------------------------------------------------
(* Plans start with the first occurrence of their schedule as cursor. *)
LEMMA InitInv ==
  ASSUME Init
  PROVE  TypeOK /\ PlanInv
  <1> USE Constants
  <1>1. TypeOK
    <2>1. ASSUME NEW p \in Plans
          PROVE  nextRun(schedule[p], 0) \in Nat
      BY NextRunFacts DEF Init, Null
    <2>2. NoSnapshot \in Snapshots \cup {NoSnapshot}
      OBVIOUS
    <2>3. pauseReason \in [Plans -> BOOLEAN] /\ bound \in BOOLEAN
      BY DEF Init
    <2> QED BY <2>1, <2>2, <2>3 DEF Init, TypeOK, Null
  <1>2. ClocksAgree /\ LoopState /\ RequestState /\ OneExpander
    BY DEF Init, ClocksAgree, LoopState, RequestState, OneExpander, Handling, Null
  <1>3. CursorAhead
    <2> SUFFICES ASSUME NEW p \in Plans
                 PROVE  /\ lastScheduledAt[p] <= clock
                        /\ nextRunAt[p] # Null => nextRunAt[p] > lastScheduledAt[p]
      BY DEF CursorAhead
    <2> QED BY NextRunFacts DEF Init, Null
  <1>4. ASSUME NEW p \in Plans
        PROVE  Covered(Snapshot(p))
    <2> SUFFICES ASSUME nextRunAt[p] # Null
                 PROVE  /\ Occurs(schedule[p], nextRunAt[p])
                        /\ \A t \in Times :
                             Occurs(schedule[p], t) /\ t < nextRunAt[p]
                               => BatchExists(p, t)
      BY DEF Covered, Snapshot
    <2>1. nextRunAt[p] = nextRun(schedule[p], 0)
      BY DEF Init
    <2>2. /\ schedule[p] \in Schedules /\ schedule[p] # Manual
          /\ nextRunAt[p] = NextAfter(schedule[p], 0) /\ 0 \in Times
      BY <2>1 DEF Init, nextRun, Null
    <2>3. ASSUME NEW t \in Times, Occurs(schedule[p], t)
          PROVE  ~(t < nextRunAt[p])
      <3>1. PICK u \in Times : NextAfter(schedule[p], u) = t
        BY <2>3 DEF Occurs
      <3>2. u \in Nat /\ t \in Nat
        BY DEF Times
      <3>3. nextRunAt[p] \in Nat
        BY <2>2, PlanAssumption DEF PlanAssumption
      <3>4. u > 0 => t >= nextRunAt[p]
        BY <2>2, <3>1, PlanAssumption DEF PlanAssumption
      <3>5. u = 0 => t = nextRunAt[p]
        BY <2>2, <3>1
      <3> QED BY <3>2, <3>3, <3>4, <3>5
    <2> QED BY <2>2, <2>3 DEF Occurs
  <1>5. CursorsCovered
    BY <1>4 DEF CursorsCovered, Init, Handling
  <1> QED BY <1>1, <1>2, <1>3, <1>5 DEF PlanInv

(* Types and invariant together are inductive. *)
LEMMA InvStep ==
  ASSUME TypeOK, PlanInv, [Next]_vars
  PROVE  TypeOK' /\ PlanInv'
  <1>1. CASE UNCHANGED vars
    BY <1>1, Stutter
  <1>2. CASE Next
    <2>1. TypeOK'
      BY <1>2, TypeStep
    <2> QED BY <1>2, <2>1, LoopStep, ExpanderStep, AheadStep, CoverStep DEF PlanInv
  <1> QED BY <1>1, <1>2

(* Plan rows, batches and the state of RunDue keep their types, whatever   *)
(* the number of plans and the interleaving of requests and restarts.      *)
THEOREM PlanTypeCorrect == Spec => []TypeOK
  <1>1. Init => TypeOK /\ PlanInv
    BY InitInv
  <1>2. TypeOK /\ PlanInv /\ [Next]_vars => (TypeOK /\ PlanInv)'
    BY InvStep
  <1> QED BY <1>1, <1>2, PTL DEF Spec

(* The inductive invariant: clocks, the loop of RunDue, one expander per   *)
(* open batch, and all before a cursor, stored or copied, having a batch.  *)
THEOREM PlanCorrect == Spec => []PlanInv
  <1>1. Init => TypeOK /\ PlanInv
    BY InitInv
  <1>2. TypeOK /\ PlanInv /\ [Next]_vars => (TypeOK /\ PlanInv)'
    BY InvStep
  <1> QED BY <1>1, <1>2, PTL DEF Spec

(* No occurrence is handled before its time, and AdvancePlan, Resume and   *)
(* Update leave next_run_at after the one handled last, except a resume or *)
(* an edit during which RunDue handled an occurrence.                      *)
THEOREM CursorAheadHolds == Spec => []CursorAhead
  <1>1. PlanInv => CursorAhead
    BY DEF PlanInv
  <1> QED BY <1>1, PlanCorrect, PTL

(* RunDue leaves no occurrence before the cursor without a batch, however  *)
(* late or often it ran and wherever it was interrupted.                   *)
THEOREM NoGapHolds == Spec => []NoGap
  <1>1. PlanInv => NoGap
    <2> SUFFICES ASSUME PlanInv, NEW p \in Plans \ reset, nextRunAt[p] # Null,
                        NEW t \in Times, Occurs(schedule[p], t), t < nextRunAt[p]
                 PROVE  BatchExists(p, t)
      BY DEF NoGap
    <2>1. Covered(Snapshot(p))
      BY DEF PlanInv, CursorsCovered
    <2> QED BY <2>1 DEF Covered, Snapshot
  <1> QED BY <1>1, PlanCorrect, PTL

(* RunPlan expands a plan time at most once, whoever asks for it.          *)
THEOREM ExpandedOnceHolds == Spec => ExpandedOnce
  <1> DEFINE Once == \A p \in Plans, t \in Times : BatchStep(p, t)
  <1>1. TypeOK /\ PlanInv /\ [Next]_vars => [Once]_vars
    <2> SUFFICES ASSUME TypeOK, PlanInv, Next
                 PROVE  Once
      OBVIOUS
    <2> QED BY BatchRows
  <1>2. Once => \A p \in Plans, t \in Times :
          BatchExists(p, t) /\ batch'[p][t] # batch[p][t] =>
            /\ batch[p][t] = "open"
            /\ \/ pc = "expand" /\ cur.plan = p /\ cur.next = t
               \/ manual = <<p, t>>
    BY DEF BatchStep
  <1> HIDE DEF Once
  <1> QED BY <1>1, <1>2, PlanTypeCorrect, PlanCorrect, PTL DEF Spec, ExpandedOnce

================================================================================
