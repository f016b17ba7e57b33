--------------------------- MODULE LiveRefreshProofs ---------------------------
(***************************************************************************)
(* Proofs about LiveRefresh: the control state of refresh() and its timers, *)
(* that nothing loads without a reason, and that the settings form is true.  *)
(***************************************************************************)
EXTENDS LiveRefresh, TLAPS

(* The types that the argument needs. *)
RefreshTypes ==
  /\ refreshing \in Stages /\ at \in Nat
  /\ page \in [Pages -> PageState]
  /\ loading \in BOOLEAN /\ poll \in BOOLEAN
  /\ initialLoading \in BOOLEAN /\ initialDataReady \in BOOLEAN
  /\ error \in BOOLEAN /\ signedOut \in BOOLEAN

RefreshIInv == RefreshTypes /\ RefreshInv

USE DEF FirstStages

(* What the pages are worth during the secondary reads. *)
PagesFrom(i, pages) ==
  \A p \in Pages :
    \/ pages[p].loaded /\ ~pages[p].loading
    \/ error' \/ signedOut'
    \/ \E j \in i..Len(Secondary) : Secondary[j] = p

----------------------------------------------------------------------------
(* Flags of a page. *)
LEMMA FlagTypes ==
  /\ emptyPage \in PageState /\ pageState \in PageState
  /\ \A p \in PageState : /\ Waiting(p) \in PageState /\ Failed(p) \in PageState
                          /\ ~Waiting(p).error /\ Failed(p).error
                          /\ Waiting(p).loaded = p.loaded
  /\ pageState.loaded /\ ~pageState.loading /\ ~pageState.error
BY DEF emptyPage, pageState, PageState, Waiting, Failed

(* A step that leaves refresh() and its poller alone. *)
LEMMA OtherKeeps ==
  ASSUME RefreshIInv, UNCHANGED <<refreshVars, poll>>
  PROVE  RefreshIInv'
BY DEF RefreshIInv, RefreshTypes, RefreshInv, refreshVars, Pages, Stages

(* The start of refresh() disarms the poller. *)
LEMMA StartKeeps ==
  ASSUME RefreshIInv, refreshing = "idle", StartRefresh, poll' = FALSE
  PROVE  RefreshIInv'
<1>1. /\ refreshing' = "session" /\ loading' = TRUE /\ error' = FALSE
      /\ page' = [p \in Pages |-> Waiting(page[p])]
      /\ initialLoading' = (initialLoading \/ ~initialDataReady)
      /\ UNCHANGED <<at, sync, initialDataReady, signedOut>>
  BY DEF StartRefresh
<1>2. RefreshTypes'
  BY <1>1, FlagTypes DEF RefreshIInv, RefreshTypes, Stages
<1>3. \A p \in Pages : ~page'[p].error
  BY <1>1, FlagTypes DEF RefreshIInv, RefreshTypes
<1>4. RefreshInv'
  BY <1>1, <1>3 DEF RefreshInv, Pages
<1> QED  BY <1>2, <1>4 DEF RefreshIInv

(* A call of refresh() by the merge timer, the Reload button or an           *)
(* operation: dropped, or a start.                                            *)
LEMMA CallKeeps ==
  ASSUME RefreshIInv, refresh, PollEffect
  PROVE  RefreshIInv'
<1>1. CASE refreshing = "idle" /\ StartRefresh
  <2>1. loading = FALSE
    BY <1>1 DEF RefreshIInv, RefreshTypes, RefreshInv
  <2>2. poll' = FALSE
    BY <1>1, <2>1 DEF PollEffect, StartRefresh
  <2> QED  BY <1>1, <2>2, StartKeeps
<1>2. CASE UNCHANGED refreshVars
  <2>1. poll' = poll
    BY <1>2 DEF PollEffect, refreshVars
  <2> QED  BY <1>2, <2>1, OtherKeeps
<1> QED  BY <1>1, <1>2 DEF refresh

(* The poller is armed only while no refresh() runs, so its call is a start. *)
LEMMA PollFiresKeeps ==
  ASSUME RefreshIInv, PollFires
  PROVE  RefreshIInv'
<1>1. refreshing = "idle"
  BY DEF PollFires, RefreshIInv, RefreshTypes, RefreshInv
<1>2. StartRefresh /\ PollSpent
  BY <1>1 DEF PollFires, refresh
<1>3. poll' = FALSE
  BY <1>2 DEF PollSpent, StartRefresh
<1> QED  BY <1>1, <1>2, <1>3, StartKeeps

(* Failures leave a mark. *)
LEMMA FailureMarks ==
  ASSUME RefreshTypes, handleFailure
  PROVE  /\ error' \/ signedOut'
         /\ error' \in BOOLEAN /\ signedOut' \in BOOLEAN
BY DEF handleFailure, RefreshTypes

----------------------------------------------------------------------------
(* The first three reads. *)

(* The session is read: the settings are next. *)
LEMMA SessionAnswersKeeps ==
  ASSUME RefreshIInv, SessionAnswers
  PROVE  RefreshIInv'
<1>1. /\ refreshing = "session" /\ refreshing' = "settings"
      /\ UNCHANGED <<at, page, sync, loading, initialLoading, initialDataReady,
                     error, signedOut, poll>>
  BY DEF SessionAnswers, Succeeds, PollEffect
<1> QED  BY <1>1 DEF RefreshIInv, RefreshTypes, RefreshInv, Stages, Pages

(* Without a session refresh() ends, and every page shows the failure. *)
LEMMA SessionFailsKeeps ==
  ASSUME RefreshIInv, SessionFails
  PROVE  RefreshIInv'
<1>1. /\ refreshing = "session" /\ refreshing' = "idle" /\ handleFailure
      /\ page' = [p \in Pages |-> Failed(page[p])]
      /\ loading' = FALSE /\ initialLoading' = FALSE
      /\ UNCHANGED <<at, sync, initialDataReady>> /\ PollEffect
  BY DEF SessionFails
<1>2. error' \/ signedOut'
  BY <1>1, FailureMarks DEF RefreshIInv
<1>3. loading = TRUE
  BY <1>1 DEF RefreshIInv, RefreshTypes, RefreshInv
<1>4. poll' = (sync = "RUNNING")
  BY <1>1, <1>3 DEF PollEffect
<1>5. RefreshTypes'
  BY <1>1, <1>4, FailureMarks, FlagTypes DEF RefreshIInv, RefreshTypes, Stages
<1>6. RefreshInv'
  BY <1>1, <1>2, <1>4 DEF RefreshInv
<1> QED  BY <1>5, <1>6 DEF RefreshIInv

(* The page of the applications waits; the rest is as before. *)
LEMMA ToApplications ==
  ASSUME RefreshIInv, refreshing = "settings", refreshing' = "applications",
         page' = [page EXCEPT !["applications"] = Waiting(@)],
         UNCHANGED <<at, sync, loading, initialLoading, initialDataReady>>,
         PollEffect, error' \in BOOLEAN, signedOut' \in BOOLEAN,
         error \/ signedOut => error' \/ signedOut'
  PROVE  RefreshIInv'
<1>1. poll' = poll
  BY DEF PollEffect
<1>2. "applications" \in Pages
  BY DEF Pages
<1>3. RefreshTypes'
  BY <1>1, <1>2, FlagTypes DEF RefreshIInv, RefreshTypes, Stages
<1>4. \A p \in Pages : page'[p].error => page[p].error
  BY <1>2, FlagTypes DEF RefreshIInv, RefreshTypes
<1>5. RefreshInv'
  BY <1>1, <1>4 DEF RefreshIInv, RefreshTypes, RefreshInv, Pages
<1> QED  BY <1>3, <1>5 DEF RefreshIInv

(* The settings are read: the applications are next. *)
LEMMA SettingsAnswerKeeps ==
  ASSUME RefreshIInv, SettingsAnswer
  PROVE  RefreshIInv'
BY ToApplications DEF SettingsAnswer, Succeeds, RefreshIInv, RefreshTypes

(* A failure of the settings does not stop refresh(). *)
LEMMA SettingsFailKeeps ==
  ASSUME RefreshIInv, SettingsFail
  PROVE  RefreshIInv'
BY ToApplications, FailureMarks DEF SettingsFail, RefreshIInv

(* A failure of the applications marks their page and ends refresh(). *)
LEMMA ApplicationsFailKeeps ==
  ASSUME RefreshIInv, ApplicationsFail
  PROVE  RefreshIInv'
<1>1. /\ refreshing = "applications" /\ refreshing' = "idle" /\ handleFailure
      /\ page' = [page EXCEPT !["applications"] = Failed(@)]
      /\ loading' = FALSE /\ initialLoading' = FALSE
      /\ UNCHANGED <<at, sync, initialDataReady>> /\ PollEffect
  BY DEF ApplicationsFail
<1>2. error' \/ signedOut'
  BY <1>1, FailureMarks DEF RefreshIInv
<1>3. loading = TRUE
  BY <1>1 DEF RefreshIInv, RefreshTypes, RefreshInv
<1>4. poll' = (sync = "RUNNING")
  BY <1>1, <1>3 DEF PollEffect
<1>5. RefreshTypes'
  BY <1>1, <1>4, FailureMarks, FlagTypes
     DEF RefreshIInv, RefreshTypes, Stages, Pages
<1>6. RefreshInv'
  BY <1>1, <1>2, <1>4 DEF RefreshInv
<1> QED  BY <1>5, <1>6 DEF RefreshIInv

----------------------------------------------------------------------------
(* The secondary reads. *)

(* Entering the next read, or the end of refresh(). *)
LEMMA EnterKeeps ==
  ASSUME NEW i \in Nat \ {0}, NEW pages \in [Pages -> PageState],
         EnterSecondary(i, pages), PagesFrom(i, pages),
         (\E p \in Pages : pages[p].error) => error' \/ signedOut',
         error' \in BOOLEAN, signedOut' \in BOOLEAN,
         initialLoading' = FALSE, initialDataReady' = TRUE, loading' = FALSE,
         sync' # "RUNNING", poll' = FALSE
  PROVE  RefreshIInv'
<1>0. Len(Secondary) \in Nat
  BY LiveAssumption
<1>1. CASE i > Len(Secondary)
  <2>1. refreshing' = "idle" /\ at' = 0 /\ page' = pages
    BY <1>1 DEF EnterSecondary
  <2>2. \A p \in Pages : \/ pages[p].loaded /\ ~pages[p].loading
                         \/ error' \/ signedOut'
    BY <1>0, <1>1 DEF PagesFrom
  <2>3. RefreshTypes'
    BY <2>1 DEF RefreshTypes, Stages
  <2>4. RefreshInv'
    BY <2>1, <2>2 DEF RefreshInv
  <2> QED  BY <2>3, <2>4 DEF RefreshIInv
<1>2. CASE ~(i > Len(Secondary))
  <2>1. /\ refreshing' = "secondary" /\ at' = i
        /\ page' = IF Secondary[i] \in Paged
                   THEN [pages EXCEPT ![Secondary[i]] = Waiting(@)]
                   ELSE pages
    BY <1>2 DEF EnterSecondary
  <2>2. i \in 1..Len(Secondary)
    BY <1>0, <1>2
  <2>3. page' \in [Pages -> PageState]
    BY <2>1, FlagTypes DEF Pages
  <2>4. \A p \in Pages : page'[p].error => pages[p].error
    BY <2>1, FlagTypes DEF Pages
  <2>5. \A p \in Pages : p # Secondary[i] => page'[p] = pages[p]
    BY <2>1
  <2>6. i \in i..Len(Secondary)
    BY <1>0, <2>2
  <2>7. PagesFrom(i, page')
    BY <2>5, <2>6 DEF PagesFrom
  <2>8. RefreshTypes'
    BY <2>1, <2>3 DEF RefreshTypes, Stages
  <2>9. RefreshInv'
    BY <2>1, <2>2, <2>4, <2>7 DEF RefreshInv, PagesFrom
  <2> QED  BY <2>8, <2>9 DEF RefreshIInv
<1> QED  BY <1>1, <1>2

(* While the catalog sync runs the poller takes over; otherwise everything   *)
(* but the applications is read next.                                         *)
LEMMA ApplicationsAnswerKeeps ==
  ASSUME RefreshIInv, ApplicationsAnswer
  PROVE  RefreshIInv'
<1> DEFINE shown == [page EXCEPT !["applications"] = pageState]
<1>1. /\ refreshing = "applications" /\ sync' = serverSync /\ loading' = FALSE
      /\ UNCHANGED <<error, signedOut>> /\ PollEffect
  BY DEF ApplicationsAnswer, Succeeds
<1>2. loading = TRUE
  BY <1>1 DEF RefreshIInv, RefreshTypes, RefreshInv
<1>3. poll' = (sync' = "RUNNING")
  BY <1>1, <1>2 DEF PollEffect
<1>4. /\ shown \in [Pages -> PageState] /\ shown["applications"] = pageState
      /\ \A p \in Pages : shown[p].error => page[p].error
  BY FlagTypes DEF RefreshIInv, RefreshTypes, Pages
<1>5. (\E p \in Pages : shown[p].error) => error' \/ signedOut'
  BY <1>1, <1>4 DEF RefreshIInv, RefreshInv
<1>6. error' \in BOOLEAN /\ signedOut' \in BOOLEAN
  BY <1>1 DEF RefreshIInv, RefreshTypes
<1>7. CASE serverSync = "RUNNING"
  <2>1. /\ refreshing' = "idle" /\ page' = shown
        /\ UNCHANGED <<at, initialLoading, initialDataReady>>
    BY <1>7 DEF ApplicationsAnswer
  <2>2. RefreshTypes'
    BY <1>1, <1>3, <1>4, <2>1 DEF RefreshIInv, RefreshTypes, Stages
  <2>3. RefreshInv'
    BY <1>1, <1>3, <1>5, <1>7, <2>1 DEF RefreshInv
  <2> QED  BY <2>2, <2>3 DEF RefreshIInv
<1>8. CASE serverSync # "RUNNING"
  <2>1. /\ initialLoading' = FALSE /\ initialDataReady' = TRUE
        /\ EnterSecondary(1, shown)
    BY <1>8 DEF ApplicationsAnswer
  <2>2. PagesFrom(1, shown)
    BY <1>4, FlagTypes, LiveAssumption DEF PagesFrom, Pages
  <2>3. poll' = FALSE /\ sync' # "RUNNING"
    BY <1>1, <1>3, <1>8
  <2>4. 1 \in Nat \ {0}
    OBVIOUS
  <2> HIDE DEF shown
  <2> QED  BY <1>1, <1>4, <1>5, <1>6, <2>1, <2>2, <2>3, <2>4, EnterKeeps, Zenon
<1> QED  BY <1>7, <1>8

(* One more resource is read, or marked as failed. *)
LEMMA SecondaryKeeps ==
  ASSUME RefreshIInv, SecondaryAnswers \/ SecondaryFails
  PROVE  RefreshIInv'
<1>1. /\ refreshing = "secondary" /\ at \in 1..Len(Secondary)
      /\ sync # "RUNNING" /\ loading = FALSE /\ poll = FALSE
      /\ initialLoading = FALSE /\ initialDataReady = TRUE
  BY DEF SecondaryAnswers, SecondaryFails, RefreshIInv, RefreshTypes, RefreshInv
<1>2. /\ UNCHANGED <<sync, initialLoading, initialDataReady>> /\ loading' = FALSE
      /\ PollEffect
  BY <1>1 DEF SecondaryAnswers, SecondaryFails
<1>3. poll' = FALSE
  BY <1>1, <1>2 DEF PollEffect
<1>4. at + 1 \in Nat \ {0} /\ Len(Secondary) \in Nat
  BY <1>1, LiveAssumption
<1>5. \A j \in at..Len(Secondary) : j = at \/ j \in (at + 1)..Len(Secondary)
  BY <1>1, <1>4
<1>6. CASE SecondaryAnswers
  <2> DEFINE pages == IF Secondary[at] \in Paged
                      THEN [page EXCEPT ![Secondary[at]] = pageState] ELSE page
  <2>1. EnterSecondary(at + 1, pages) /\ UNCHANGED <<error, signedOut>>
    BY <1>6 DEF SecondaryAnswers, Succeeds
  <2>2. /\ pages \in [Pages -> PageState]
        /\ \A p \in Pages : pages[p].error => page[p].error
        /\ \A p \in Pages : p # Secondary[at] => pages[p] = page[p]
        /\ \A p \in Paged : p = Secondary[at] => pages[p] = pageState
    BY FlagTypes DEF RefreshIInv, RefreshTypes, Pages
  <2>3. (\E p \in Pages : pages[p].error) => error' \/ signedOut'
    BY <2>1, <2>2 DEF RefreshIInv, RefreshInv
  <2>4. error' \in BOOLEAN /\ signedOut' \in BOOLEAN
    BY <2>1 DEF RefreshIInv, RefreshTypes
  <2>5. ASSUME NEW p \in Pages, p = Secondary[at]
        PROVE  (pages[p].loaded /\ ~pages[p].loading) \/ error' \/ signedOut'
    <3>1. CASE p \in Paged
      BY <2>2, <2>5, <3>1, FlagTypes
    <3>2. CASE p = "applications" /\ p \notin Paged
      <4>1. Secondary[at] # "applications"
        BY <1>1, LiveAssumption
      <4> QED  BY <2>5, <3>2, <4>1
    <3> QED  BY <3>1, <3>2 DEF Pages
  <2>6. ASSUME NEW p \in Pages, p # Secondary[at]
        PROVE  \/ pages[p].loaded /\ ~pages[p].loading
               \/ error' \/ signedOut'
               \/ \E j \in (at + 1)..Len(Secondary) : Secondary[j] = p
    BY <1>1, <1>5, <2>1, <2>2, <2>6 DEF RefreshIInv, RefreshInv
  <2>7. PagesFrom(at + 1, pages)
    BY <2>5, <2>6 DEF PagesFrom
  <2> HIDE DEF pages
  <2> QED  BY <1>1, <1>2, <1>3, <1>4, <2>1, <2>2, <2>3, <2>4, <2>7, EnterKeeps
<1>7. CASE SecondaryFails
  <2> DEFINE pages == IF Secondary[at] \in Paged
                      THEN [page EXCEPT ![Secondary[at]] = Failed(@)] ELSE page
  <2>1. EnterSecondary(at + 1, pages) /\ handleFailure
    BY <1>7 DEF SecondaryFails
  <2>2. pages \in [Pages -> PageState]
    BY FlagTypes DEF RefreshIInv, RefreshTypes, Pages
  <2>3. /\ error' \/ signedOut'
        /\ error' \in BOOLEAN /\ signedOut' \in BOOLEAN
    BY <2>1, FailureMarks DEF RefreshIInv
  <2>4. PagesFrom(at + 1, pages)
    BY <2>3 DEF PagesFrom
  <2> HIDE DEF pages
  <2> QED  BY <1>1, <1>2, <1>3, <1>4, <2>1, <2>2, <2>3, <2>4, EnterKeeps
<1> QED  BY <1>6, <1>7

----------------------------------------------------------------------------
(* Every step of the client keeps the invariant. *)
LEMMA StepKeeps ==
  ASSUME RefreshIInv, [Next]_vars
  PROVE  RefreshIInv'
<1>1. CASE RefreshStep
  <2>1. ASSUME ServerReadsSettings PROVE RefreshIInv'
    BY <2>1 DEF ServerReadsSettings, RefreshIInv, RefreshTypes, RefreshInv
  <2> QED
    BY <1>1, <2>1, SessionAnswersKeeps, SessionFailsKeeps, SettingsAnswerKeeps,
       SettingsFailKeeps, ApplicationsAnswerKeeps, ApplicationsFailKeeps,
       SecondaryKeeps DEF RefreshStep
<1>2. CASE PollFires
  BY <1>2, PollFiresKeeps
<1>3. CASE EventArrives
  BY <1>3, OtherKeeps DEF EventArrives
<1>4. CASE MergeFires
  BY <1>4, CallKeeps DEF MergeFires
<1>5. CASE Reload
  BY <1>5, CallKeeps DEF Reload
<1>6. CASE OpenForm \/ LeaveForm \/ SyncEnds
  BY <1>6, OtherKeeps DEF OpenForm, LeaveForm, SyncEnds
<1>7. CASE SignOut
  <2>1. /\ signedOut' = TRUE
        /\ UNCHANGED <<refreshing, at, page, sync, loading, initialLoading,
                       initialDataReady, error, poll>>
    BY <1>7 DEF SignOut
  <2> QED  BY <2>1 DEF RefreshIInv, RefreshTypes, RefreshInv
<1>8. ASSUME NEW v \in Values, ForeignUpdate(v) PROVE RefreshIInv'
  BY <1>8, OtherKeeps DEF ForeignUpdate
<1>9. ASSUME NEW o \in Ops,
             RescanAll(o) \/ Act(o) \/ Apply(o) \/ Reject(o)
               \/ \E v \in Values : Save(o, v)
      PROVE  RefreshIInv'
  BY <1>9, OtherKeeps DEF RescanAll, Act, Apply, Reject, Save
<1>10. ASSUME NEW o \in Ops, OperationDone(o) PROVE RefreshIInv'
  BY <1>10, CallKeeps DEF OperationDone
<1>11. ASSUME NEW o \in Ops, OperationFails(o) PROVE RefreshIInv'
  <2>1. /\ UNCHANGED <<refreshing, at, page, sync, loading, initialLoading,
                       initialDataReady>>
        /\ handleFailure /\ PollEffect
    BY <1>11 DEF OperationFails
  <2>2. poll' = poll
    BY <2>1 DEF PollEffect
  <2>3. /\ error' \/ signedOut'
        /\ error' \in BOOLEAN /\ signedOut' \in BOOLEAN
    BY <2>1, FailureMarks DEF RefreshIInv
  <2> QED  BY <2>1, <2>2, <2>3 DEF RefreshIInv, RefreshTypes, RefreshInv
<1>12. CASE UNCHANGED vars
  BY <1>12, OtherKeeps DEF vars
<1> QED
  BY <1>1, <1>2, <1>3, <1>4, <1>5, <1>6, <1>7, <1>8, <1>9, <1>10, <1>11, <1>12
     DEF Next

(* The control state of refresh() and its timers, for any list of resources, *)
(* any failures, operations, events and changes by other windows.             *)
THEOREM RefreshCorrect == Spec => []RefreshInv
<1>1. Init => RefreshIInv
  <2> SUFFICES ASSUME Init PROVE RefreshIInv
    OBVIOUS
  <2>1. /\ refreshing = "session" /\ at = 0 /\ loading = TRUE /\ poll = FALSE
        /\ initialLoading = TRUE /\ initialDataReady = FALSE
        /\ error = FALSE /\ signedOut = FALSE
        /\ page = [p \in Pages |-> Waiting(emptyPage)]
    BY DEF Init
  <2>2. RefreshTypes
    BY <2>1, FlagTypes DEF RefreshTypes, Stages
  <2>3. \A p \in Pages : ~page[p].error
    BY <2>1, FlagTypes
  <2> QED  BY <2>1, <2>2, <2>3 DEF RefreshIInv, RefreshInv
<1>2. RefreshIInv /\ [Next]_vars => RefreshIInv'
  BY StepKeeps
<1>3. RefreshIInv => RefreshInv
  BY DEF RefreshIInv
<1> QED  BY <1>1, <1>2, <1>3, PTL DEF Spec

(* Whenever a page or the shell shows that it is loading, something that ends *)
(* this is under way, for any resources and failures (refresh, loadPage).      *)
THEOREM NoDeadSpinnerHolds == Spec => []NoDeadSpinner
<1>1. RefreshInv => NoDeadSpinner
  BY DEF RefreshInv, NoDeadSpinner, globalLoading, pagePending
<1> QED  BY <1>1, RefreshCorrect, PTL

----------------------------------------------------------------------------
(* The settings form.  The record with the revision of the stored one is the *)
(* stored one; a draft has the time of the settings last read; and a draft     *)
(* of the stored record that differs from it has a save that the server has     *)
(* not applied.  An applied one makes the settings stale, and the next read of  *)
(* them replaces the draft, unless both were saved in the same second.           *)
Newest(x) ==
  x # NoSettings => /\ x.revision <= stored.revision
                    /\ x.revision = stored.revision => x = stored

Unapplied == {"sent", "rejected"}

FormTypes ==
  /\ settings \in Settings \union {NoSettings}
  /\ reply \in Settings \union {NoSettings}
  /\ draft \in Settings \union {NoSettings}
  /\ stored \in Settings
  /\ op \in [Ops -> OpRecord]
  /\ \A o \in Ops : op[o].what = "save" => op[o].value \in Values

DraftOfVersion ==
  formOpen => IF settings = NoSettings THEN draft = NoSettings
              ELSE draft # NoSettings /\ draft.updatedAt = settings.updatedAt

DraftRead == draft # NoSettings => draft.revision <= stored.revision

SavePending ==
  /\ formOpen /\ ~unsaved /\ draft # NoSettings
  /\ draft.revision = stored.revision /\ draft # stored
  => \E o \in Ops : op[o].what = "save" /\ op[o].state \in Unapplied

FormInv ==
  /\ FormTypes /\ Newest(settings) /\ Newest(reply) /\ DraftOfVersion
  /\ DraftRead /\ SavePending

(* Records of settings. *)
LEMMA SettingsRecords ==
  /\ NoSettings \notin Settings
  /\ \A s \in Settings : s.revision \in Nat /\ s.value \in Values
BY LiveAssumption DEF Settings

(* Steps that leave the settings and the form alone. *)
LEMMA OtherKeepsForm ==
  ASSUME FormInv,
         UNCHANGED <<settings, reply, stored, op, formOpen, draft, unsaved>>
  PROVE  FormInv'
BY DEF FormInv, FormTypes, Newest, DraftOfVersion, DraftRead, SavePending

(* A new record of the server makes every other one old. *)
LEMMA StoreKeepsForm ==
  ASSUME FormInv, NEW v \in Values, SaveSettings(v),
         UNCHANGED <<settings, reply, formOpen, draft, unsaved>>,
         op' \in [Ops -> OpRecord],
         \A o \in Ops : op'[o].what = "save" => op'[o].value \in Values
  PROVE  FormInv'
<1>1. stored.revision \in Nat
  BY SettingsRecords DEF FormInv, FormTypes
<1>2. stored' \in Settings /\ stored'.revision = stored.revision + 1
  BY <1>1 DEF SaveSettings, Settings
<1>3. FormTypes'
  BY <1>2 DEF FormInv, FormTypes
<1>4. ASSUME NEW x \in Settings, x.revision <= stored.revision
      PROVE  x.revision <= stored'.revision /\ x.revision # stored'.revision
  <2>1. x.revision \in Nat
    BY SettingsRecords
  <2> QED  BY <1>1, <1>2, <1>4, <2>1
<1>5. Newest(settings)' /\ Newest(reply)'
  BY <1>4 DEF FormInv, FormTypes, Newest
<1>6. DraftOfVersion'
  BY DEF FormInv, DraftOfVersion
<1>7. DraftRead' /\ SavePending'
  BY <1>4 DEF FormInv, FormTypes, DraftRead, SavePending
<1> QED  BY <1>3, <1>5, <1>6, <1>7 DEF FormInv

(* The answer holds what was stored when the server read it. *)
LEMMA ReadKeepsForm ==
  ASSUME FormInv, ServerReadsSettings \/ SettingsFail
  PROVE  FormInv'
<1>1. /\ reply' = stored \/ reply' = NoSettings
      /\ UNCHANGED <<settings, stored, op, formOpen, draft, unsaved>>
  BY DEF ServerReadsSettings, SettingsFail, formVars, serverVars
<1>2. stored \in Settings /\ stored.revision \in Nat
  BY SettingsRecords DEF FormInv, FormTypes
<1>3. Newest(reply)'
  BY <1>1, <1>2 DEF Newest
<1>4. FormTypes'
  BY <1>1, <1>2 DEF FormInv, FormTypes
<1>5. Newest(settings)' /\ DraftOfVersion' /\ DraftRead' /\ SavePending'
  BY <1>1 DEF FormInv, Newest, DraftOfVersion, DraftRead, SavePending
<1> QED  BY <1>3, <1>4, <1>5 DEF FormInv

(* The answer: a draft of another time is replaced; one of the same time      *)
(* stays as it is.                                                              *)
LEMMA SettingsAnswerKeepsForm ==
  ASSUME FormInv, SettingsAnswer
  PROVE  FormInv'
<1>1. /\ reply # NoSettings /\ settings' = reply /\ reply' = NoSettings
      /\ DraftEffect /\ UNCHANGED <<stored, op, formOpen>>
  BY DEF SettingsAnswer, serverVars
<1>2. reply \in Settings /\ FormTypes /\ settings' # NoSettings
  BY <1>1 DEF FormInv, FormTypes
<1>3. Newest(settings)' /\ Newest(reply)'
  BY <1>1 DEF FormInv, Newest
<1>4. CASE formOpen /\ (draft = NoSettings \/ draft.updatedAt # settings'.updatedAt)
  <2>1. draft' = settings'
    BY <1>1, <1>4 DEF DraftEffect
  <2>2. FormTypes'
    BY <1>1, <1>2, <2>1 DEF FormTypes
  <2>3. DraftOfVersion'
    BY <1>2, <2>1 DEF DraftOfVersion
  <2>4. DraftRead' /\ SavePending'
    BY <1>2, <1>3, <2>1 DEF Newest, DraftRead, SavePending
  <2> QED  BY <1>3, <2>2, <2>3, <2>4 DEF FormInv
<1>5. CASE ~(formOpen /\ (draft = NoSettings \/ draft.updatedAt # settings'.updatedAt))
  <2>1. UNCHANGED <<draft, unsaved>>
    BY <1>1, <1>5 DEF DraftEffect
  <2>2. FormTypes'
    BY <1>1, <1>2, <2>1 DEF FormTypes
  <2>3. DraftOfVersion'
    BY <1>1, <1>2, <1>5, <2>1 DEF DraftOfVersion
  <2>4. DraftRead' /\ SavePending'
    BY <1>1, <2>1 DEF FormInv, DraftRead, SavePending
  <2> QED  BY <1>3, <2>2, <2>3, <2>4 DEF FormInv
<1> QED  BY <1>4, <1>5

(* The form opens with the settings, and closes. *)
LEMMA DoorKeepsForm ==
  ASSUME FormInv, OpenForm \/ LeaveForm
  PROVE  FormInv'
<1>1. /\ UNCHANGED <<settings, reply, stored, op>>
      /\ \/ draft' = settings
         \/ draft' = NoSettings /\ formOpen' = FALSE
  BY DEF OpenForm, LeaveForm, refreshVars, serverVars
<1>2. FormTypes' /\ Newest(settings)' /\ Newest(reply)'
  BY <1>1 DEF FormInv, FormTypes, Newest
<1>3. DraftOfVersion'
  BY <1>1 DEF DraftOfVersion
<1>4. DraftRead' /\ SavePending'
  BY <1>1 DEF FormInv, Newest, DraftRead, SavePending
<1> QED  BY <1>2, <1>3, <1>4 DEF FormInv

(* What becomes of one operation. *)
LEMMA OpChanges ==
  ASSUME FormTypes, NEW o \in Ops, NEW r \in OpRecord,
         op' = [op EXCEPT ![o] = r], r.what = "save" => r.value \in Values
  PROVE  /\ op' \in [Ops -> OpRecord] /\ op'[o] = r
         /\ \A p \in Ops : p # o => op'[p] = op[p]
         /\ \A p \in Ops : op'[p].what = "save" => op'[p].value \in Values
BY DEF FormTypes

(* An operation that is sent leaves those that were sent before. *)
LEMMA SendKeepsForm ==
  ASSUME FormInv, NEW o \in Ops, RescanAll(o) \/ Act(o)
  PROVE  FormInv'
<1>1. PICK what \in {"rescan", "act"} :
        /\ op[o] = NoOp
        /\ op' = [op EXCEPT ![o] = [state |-> "sent", what |-> what,
                                    value |-> NoSettings]]
  BY DEF RescanAll, Act, Send
<1>2. UNCHANGED <<settings, reply, stored, formOpen, draft, unsaved>>
  BY DEF RescanAll, Act, refreshVars, serverVars, formVars
<1> DEFINE r == [state |-> "sent", what |-> what, value |-> NoSettings]
<1>3. r \in OpRecord /\ r.what # "save"
  BY DEF OpRecord, OpStates
<1> HIDE DEF r
<1>4. /\ op' \in [Ops -> OpRecord]
      /\ \A p \in Ops : p # o => op'[p] = op[p]
      /\ \A p \in Ops : op'[p].what = "save" => op'[p].value \in Values
  BY <1>1, <1>3, OpChanges DEF FormInv, r
<1>5. FormTypes' /\ Newest(settings)' /\ Newest(reply)' /\ DraftOfVersion'
  BY <1>2, <1>4 DEF FormInv, FormTypes, Newest, DraftOfVersion
<1>6. op[o].what # "save"
  BY <1>1 DEF NoOp
<1>7. DraftRead' /\ SavePending'
  BY <1>2, <1>4, <1>6 DEF FormInv, DraftRead, SavePending
<1> QED  BY <1>5, <1>7 DEF FormInv

(* A save: the draft changes, and the save is pending. *)
LEMMA SaveKeepsForm ==
  ASSUME FormInv, NEW o \in Ops, NEW v \in Values, Save(o, v)
  PROVE  FormInv'
<1> DEFINE r == [state |-> "sent", what |-> "save", value |-> v]
<1>1. /\ formOpen /\ Shown # NoSettings /\ draft' = [Shown EXCEPT !.value = v]
      /\ op' = [op EXCEPT ![o] = r]
      /\ UNCHANGED <<settings, reply, stored, formOpen, unsaved>>
  BY DEF Save, Send, refreshVars, serverVars
<1>2. r \in OpRecord /\ r.what = "save" /\ r.state = "sent" /\ r.value = v
  BY DEF OpRecord, OpStates
<1> HIDE DEF r
<1>3. /\ op' \in [Ops -> OpRecord] /\ op'[o] = r
      /\ \A p \in Ops : op'[p].what = "save" => op'[p].value \in Values
  BY <1>1, <1>2, OpChanges DEF FormInv
<1>4. /\ settings # NoSettings /\ Shown = draft /\ draft \in Settings
      /\ draft.updatedAt = settings.updatedAt
  BY <1>1 DEF FormInv, FormTypes, DraftOfVersion, Shown
<1>5. /\ draft' \in Settings /\ draft'.updatedAt = settings.updatedAt
      /\ draft'.revision = draft.revision
  BY <1>1, <1>4 DEF Settings
<1>6. FormTypes' /\ Newest(settings)' /\ Newest(reply)'
  BY <1>1, <1>3, <1>5 DEF FormInv, FormTypes, Newest
<1>7. DraftOfVersion'
  BY <1>1, <1>4, <1>5, SettingsRecords DEF DraftOfVersion
<1>8. DraftRead'
  BY <1>1, <1>4, <1>5, SettingsRecords DEF FormInv, DraftRead
<1>9. SavePending'
  BY <1>2, <1>3 DEF SavePending, Unapplied
<1> QED  BY <1>6, <1>7, <1>8, <1>9 DEF FormInv

(* The server applies or rejects. *)
LEMMA ServerKeepsForm ==
  ASSUME FormInv, NEW o \in Ops, Apply(o) \/ Reject(o)
  PROVE  FormInv'
<1>1. PICK st \in {"applied", "rejected"} :
        /\ op[o].state = "sent"
        /\ op' = [op EXCEPT ![o].state = st]
        /\ UNCHANGED <<settings, reply, formOpen, draft, unsaved>>
        /\ st = "rejected" => stored' = stored
        /\ st = "applied" /\ op[o].what # "save" => stored' = stored
        /\ st = "applied" /\ op[o].what = "save"
             => SaveSettings(op[o].value)
  BY DEF Apply, Reject, refreshVars, formVars, serverVars
<1> DEFINE r == [op[o] EXCEPT !.state = st]
<1>2. op[o] \in OpRecord /\ op' = [op EXCEPT ![o] = r]
  BY <1>1 DEF FormInv, FormTypes
<1>3. r \in OpRecord /\ r.what = op[o].what /\ r.value = op[o].value /\ r.state = st
  BY <1>1, <1>2 DEF OpRecord, OpStates
<1> HIDE DEF r
<1>4. /\ op' \in [Ops -> OpRecord] /\ op'[o] = r
      /\ \A p \in Ops : p # o => op'[p] = op[p]
      /\ \A p \in Ops : op'[p].what = "save" => op'[p].value \in Values
  <2>1. r.what = "save" => r.value \in Values
    BY <1>3 DEF FormInv, FormTypes
  <2> QED  BY <1>2, <1>3, <2>1, OpChanges DEF FormInv
<1>5. CASE st = "applied" /\ op[o].what = "save"
  <2>1. op[o].value \in Values
    BY <1>5 DEF FormInv, FormTypes
  <2> QED  BY <1>1, <1>4, <1>5, <2>1, StoreKeepsForm
<1>6. CASE ~(st = "applied" /\ op[o].what = "save")
  <2>1. stored' = stored
    BY <1>1, <1>6
  <2>2. FormTypes' /\ Newest(settings)' /\ Newest(reply)' /\ DraftOfVersion'
    BY <1>1, <1>4, <2>1 DEF FormInv, FormTypes, Newest, DraftOfVersion
  <2>3. \A p \in Ops : op[p].what = "save" /\ op[p].state \in Unapplied
                         => op'[p].what = "save" /\ op'[p].state \in Unapplied
    BY <1>1, <1>3, <1>4, <1>6 DEF Unapplied
  <2>4. DraftRead' /\ SavePending'
    BY <1>1, <2>1, <2>3 DEF FormInv, DraftRead, SavePending
  <2> QED  BY <2>2, <2>4 DEF FormInv
<1> QED  BY <1>5, <1>6

(* The client learns the outcome: an applied save was not the one that the    *)
(* draft waits for, and a failed one marks the draft.                          *)
LEMMA OutcomeKeepsForm ==
  ASSUME FormInv, NEW o \in Ops, OperationDone(o) \/ OperationFails(o)
  PROVE  FormInv'
<1>1. /\ op' = [op EXCEPT ![o] = NoOp]
      /\ UNCHANGED <<settings, reply, stored, formOpen, draft>>
  BY DEF OperationDone, OperationFails, refresh, StartRefresh, refreshVars,
         formVars, serverVars
<1>2. NoOp \in OpRecord /\ NoOp.what # "save"
  BY DEF NoOp, OpRecord, OpStates
<1>3. /\ op' \in [Ops -> OpRecord]
      /\ \A p \in Ops : p # o => op'[p] = op[p]
      /\ \A p \in Ops : op'[p].what = "save" => op'[p].value \in Values
  BY <1>1, <1>2, OpChanges DEF FormInv
<1>4. /\ FormTypes' /\ Newest(settings)' /\ Newest(reply)' /\ DraftOfVersion'
      /\ DraftRead'
  BY <1>1, <1>3 DEF FormInv, FormTypes, Newest, DraftOfVersion, DraftRead
<1>5. CASE OperationDone(o)
  <2>1. op[o].state = "applied" /\ unsaved' = unsaved
    BY <1>5 DEF OperationDone, formVars
  <2>2. op[o].state \notin Unapplied
    BY <2>1 DEF Unapplied
  <2>3. SavePending'
    BY <1>1, <1>3, <2>1, <2>2 DEF FormInv, SavePending
  <2> QED  BY <1>4, <2>3 DEF FormInv
<1>6. CASE OperationFails(o)
  <2>1. unsaved' = (unsaved \/ (op[o].what = "save" /\ formOpen))
    BY <1>6 DEF OperationFails
  <2>2. SavePending'
    BY <1>1, <1>3, <2>1 DEF FormInv, SavePending
  <2> QED  BY <1>4, <2>2 DEF FormInv
<1> QED  BY <1>5, <1>6

(* A form at rest shows what the server stores, for any values, times,        *)
(* operations, failures and changes by other windows, unless it was filled     *)
(* from an earlier record of the same second (SettingsPage, run, refresh).      *)
THEOREM FormTrueHolds == Spec => []FormTrue
<1>1. Init => FormInv
  <2> SUFFICES ASSUME Init PROVE FormInv
    OBVIOUS
  <2>1. /\ settings = NoSettings /\ reply = NoSettings /\ draft = NoSettings
        /\ formOpen = FALSE /\ op = [o \in Ops |-> NoOp]
        /\ stored \in [value: Values, updatedAt: Seconds, revision: {0}]
    BY DEF Init
  <2>2. NoOp \in OpRecord /\ NoOp.what # "save"
    BY DEF NoOp, OpRecord, OpStates
  <2>3. stored \in Settings
    BY <2>1 DEF Settings
  <2>4. FormTypes
    BY <2>1, <2>2, <2>3 DEF FormTypes
  <2> QED  BY <2>1, <2>4 DEF FormInv, Newest, DraftOfVersion, DraftRead, SavePending
<1>2. FormInv /\ [Next]_vars => FormInv'
  <2> SUFFICES ASSUME FormInv, [Next]_vars PROVE FormInv'
    OBVIOUS
  <2>1. CASE RefreshStep
    <3>1. ASSUME SessionAnswers \/ SessionFails PROVE FormInv'
      BY <3>1, OtherKeepsForm DEF SessionAnswers, SessionFails, formVars, serverVars
    <3>2. ASSUME ApplicationsAnswer \/ ApplicationsFail PROVE FormInv'
      BY <3>2, OtherKeepsForm
         DEF ApplicationsAnswer, ApplicationsFail, formVars, serverVars
    <3>3. ASSUME SecondaryAnswers \/ SecondaryFails PROVE FormInv'
      BY <3>3, OtherKeepsForm
         DEF SecondaryAnswers, SecondaryFails, formVars, serverVars
    <3> QED
      BY <2>1, <3>1, <3>2, <3>3, ReadKeepsForm, SettingsAnswerKeepsForm
         DEF RefreshStep
  <2>2. refresh => UNCHANGED <<settings, reply>>
    BY DEF refresh, StartRefresh, refreshVars
  <2>3. CASE PollFires \/ MergeFires \/ Reload
    BY <2>2, <2>3, OtherKeepsForm
       DEF PollFires, MergeFires, Reload, formVars, serverVars
  <2>4. CASE EventArrives \/ SyncEnds \/ SignOut
    BY <2>4, OtherKeepsForm
       DEF EventArrives, SyncEnds, SignOut, refreshVars, formVars, serverVars
  <2>5. CASE OpenForm \/ LeaveForm
    BY <2>5, DoorKeepsForm
  <2>6. ASSUME NEW v \in Values, ForeignUpdate(v) PROVE FormInv'
    <3>1. /\ op' \in [Ops -> OpRecord]
          /\ \A o \in Ops : op'[o].what = "save" => op'[o].value \in Values
      BY <2>6 DEF ForeignUpdate, FormInv, FormTypes
    <3> QED  BY <2>6, <3>1, StoreKeepsForm DEF ForeignUpdate, refreshVars, formVars
  <2>7. ASSUME NEW o \in Ops,
               \/ RescanAll(o) \/ Act(o) \/ Apply(o) \/ Reject(o)
               \/ OperationDone(o) \/ OperationFails(o)
               \/ \E v \in Values : Save(o, v)
        PROVE  FormInv'
    BY <2>7, SendKeepsForm, ServerKeepsForm, OutcomeKeepsForm, SaveKeepsForm
  <2>8. CASE UNCHANGED vars
    BY <2>8, OtherKeepsForm DEF vars, refreshVars, formVars, serverVars
  <2> QED
    BY <2>1, <2>3, <2>4, <2>5, <2>6, <2>7, <2>8 DEF Next
<1>3. FormInv => FormTrue
  <2> SUFFICES ASSUME FormInv, formOpen, settings = stored, ~unsaved,
                      \A o \in Ops : op[o].what # "save"
               PROVE  \/ draft = stored
                      \/ /\ draft.updatedAt = stored.updatedAt
                         /\ draft.revision < stored.revision
    BY DEF FormTrue
  <2>1. /\ stored \in Settings /\ draft \in Settings
        /\ draft.updatedAt = stored.updatedAt
    BY SettingsRecords DEF FormInv, FormTypes, DraftOfVersion
  <2>2. draft.revision <= stored.revision
    BY <2>1, SettingsRecords DEF FormInv, DraftRead
  <2>3. draft.revision = stored.revision => draft = stored
    BY <2>1, SettingsRecords DEF FormInv, SavePending
  <2> QED  BY <2>1, <2>2, <2>3, SettingsRecords
<1> QED  BY <1>1, <1>2, <1>3, PTL DEF Spec

================================================================================
