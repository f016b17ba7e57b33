------------------------------ MODULE LiveRefresh ------------------------------
(***************************************************************************)
(* The data layer of the web client (apps/web/src/ui/live.ts) and the      *)
(* settings form on top of it (SettingsPage in pages.tsx).                 *)
(*                                                                         *)
(* refresh() reads the session, the settings, the applications and then    *)
(* the secondary resources one after the other; it is called on mount, by  *)
(* the catalog poller, by the timer that merges server events, after every *)
(* operation and by the Reload button, and returns at once while another   *)
(* call is under way.  Whatever happens between two awaits is one action,  *)
(* with the effects React runs for the state it sets.                      *)
(***************************************************************************)
EXTENDS Naturals, Sequences, FiniteSets

CONSTANTS
  Secondary,    \* the resources read after the applications, in order
  Paged,        \* the ones among them that are pages with flags of their own
  Values,       \* contents of the settings
  Seconds,      \* times of saves, as the server stores them: whole seconds
  Ops,          \* operations the user may have in flight at once
  NoSettings,   \* settings not read yet
  MaxFailures,  \* bound on failed requests
  MaxActs       \* bound on operations of the user, server events and
                \* changes of the settings by another window, together

ASSUME LiveAssumption ==
  /\ Secondary \in Seq(STRING \ {"applications"})
  /\ Paged \subseteq STRING /\ "applications" \notin Paged
  /\ \A p \in Paged : \E i \in 1..Len(Secondary) : Secondary[i] = p
  /\ IsFiniteSet(Ops)
  /\ NoSettings \notin [value: Values, updatedAt: Seconds, revision: Nat]
  /\ {MaxFailures, MaxActs} \subseteq Nat

VARIABLES
  refreshing,      \* the await of refresh() that is pending, or "idle"
  at,              \* index of the secondary resource being read
  reply,           \* the settings the server has read for the pending answer
  page,            \* flags of every page
  sync,            \* state of the catalog sync as last read
  loading, initialLoading, initialDataReady,
  error,           \* the error banner with its Reload button is shown
  signedOut,       \* signIn() has sent the browser to the login page
  poll,            \* the timer of the catalog poller is armed
  merge,           \* the timer that merges server events is armed
  settings,        \* state.settings
  formOpen, draft, \* the settings page is mounted, and its draft
  op,              \* operations passed to run()
  stored,          \* the settings row of the server
  serverSync,      \* the state of the catalog sync on the server
  unsaved,         \* auxiliary: the draft holds a change whose save failed
  failures, acts   \* counters of the bounds

refreshVars == <<refreshing, at, reply, page, sync, loading, initialLoading,
                 initialDataReady, error, signedOut, settings>>
formVars == <<formOpen, draft, unsaved>>
serverVars == <<stored, serverSync>>
counters == <<failures, acts>>
vars == <<refreshVars, poll, merge, formVars, op, serverVars, counters>>

Pages == Paged \union {"applications"}
Stages == {"idle", "session", "settings", "applications", "secondary"}
SyncStates == {"UNKNOWN", "RUNNING", "IDLE"}

(* The settings as stored and as read.  The revision is auxiliary: it tells *)
(* records apart that were saved in the same second.                        *)
Settings == [value: Values, updatedAt: Seconds, revision: Nat]
PageState == [loading: BOOLEAN, loaded: BOOLEAN, error: BOOLEAN]

(* Operations of the user: a save of the settings form, a request to       *)
(* rescan the catalog, or one that changes neither ("act"): a retried task, *)
(* a backup, a probe, a scan of the storage, an alert that is dealt with.    *)
NoOp == [state |-> "none", what |-> "none", value |-> NoSettings]
OpStates == {"none", "sent", "applied", "rejected"}
OpRecord == [state: OpStates, what: {"none", "save", "rescan", "act"},
             value: Values \union {NoSettings}]

emptyPage == [loading |-> FALSE, loaded |-> FALSE, error |-> FALSE]
pageState == [loading |-> FALSE, loaded |-> TRUE, error |-> FALSE]
Waiting(p) == [p EXCEPT !.loading = TRUE, !.error = FALSE]
Failed(p) == [p EXCEPT !.loading = FALSE, !.error = TRUE]

----------------------------------------------------------------------------
(* State after the mount effect has called refresh() for the first time.   *)
(* StrictMode mounts twice; the second call finds the first under way.      *)
Init ==
  /\ refreshing = "session" /\ at = 0 /\ reply = NoSettings
  /\ page = [p \in Pages |-> Waiting(emptyPage)]
  /\ sync = "UNKNOWN"
  /\ loading = TRUE /\ initialLoading = TRUE /\ initialDataReady = FALSE
  /\ error = FALSE /\ signedOut = FALSE
  /\ poll = FALSE /\ merge = FALSE
  /\ settings = NoSettings
  /\ formOpen = FALSE /\ draft = NoSettings /\ unsaved = FALSE
  /\ op = [o \in Ops |-> NoOp]
  /\ stored \in [value: Values, updatedAt: Seconds, revision: {0}]
  /\ serverSync \in {"RUNNING", "IDLE"}
  /\ failures = 0 /\ acts = 0

(* Mutant of PollEffect: the effect depends on the sync state alone. *)
PollEffectOnSync ==
  poll' = IF sync' = sync THEN poll ELSE sync' = "RUNNING" /\ ~loading'

(* Mutant of handleFailure: a failed read is swallowed. *)
swallowFailure ==
  /\ failures < MaxFailures
  /\ failures' = failures + 1
  /\ UNCHANGED <<error, signedOut>>

(* Mutant of PollEffect: the timer outlives the state it was armed for. *)
PollEffectKept ==
  poll' = (poll \/ (sync' = "RUNNING" /\ ~loading'))

(* The poller's effect: a change of its dependencies clears the timer, and *)
(* arms it anew while the catalog sync runs and no first stage is loading.  *)
PollEffect ==
  poll' = IF sync' = sync /\ loading' = loading
          THEN poll
          ELSE sync' = "RUNNING" /\ ~loading'

(* The same for the timer that has just fired. *)
PollSpent ==
  poll' = (~(sync' = sync /\ loading' = loading) /\ sync' = "RUNNING" /\ ~loading')

(* handleFailure: 401 and 403 lead to the login page, anything else, a     *)
(* timed out read included, to the error banner.                            *)
handleFailure ==
  /\ failures < MaxFailures
  /\ failures' = failures + 1
  /\ \/ error' = TRUE /\ signedOut' = signedOut
     \/ signedOut' = TRUE /\ error' = error

Succeeds == UNCHANGED <<error, signedOut, failures>>

(* What refresh() does before its first await. *)
StartRefresh ==
  /\ refreshing' = "session"
  /\ initialLoading' = (initialLoading \/ ~initialDataReady)
  /\ loading' = TRUE
  /\ error' = FALSE
  /\ page' = [p \in Pages |-> Waiting(page[p])]
  /\ UNCHANGED <<at, reply, sync, initialDataReady, signedOut, settings>>

(* A call of refresh() by any of its callers. *)
refresh ==
  \/ refreshing = "idle" /\ StartRefresh
  \/ refreshing # "idle" /\ UNCHANGED refreshVars

----------------------------------------------------------------------------
(* The stages of refresh(). *)

SessionAnswers ==
  /\ refreshing = "session"
  /\ refreshing' = "settings"
  /\ Succeeds
  /\ UNCHANGED <<at, reply, page, sync, loading, initialLoading,
                 initialDataReady, settings>>
  /\ UNCHANGED <<merge, formVars, op, serverVars, acts>>
  /\ PollEffect

(* Without a session every page has failed, and refresh() ends. *)
SessionFails ==
  /\ refreshing = "session"
  /\ refreshing' = "idle"
  /\ handleFailure
  /\ page' = [p \in Pages |-> Failed(page[p])]
  /\ loading' = FALSE /\ initialLoading' = FALSE
  /\ UNCHANGED <<at, reply, sync, initialDataReady, settings, merge, formVars,
                 op, serverVars, acts>>
  /\ PollEffect

(* The server reads the settings row; the answer is on its way. *)
ServerReadsSettings ==
  /\ refreshing = "settings" /\ reply = NoSettings
  /\ reply' = stored
  /\ UNCHANGED <<refreshing, at, page, sync, loading, initialLoading,
                 initialDataReady, error, signedOut, settings, poll, merge,
                 formVars, op, serverVars, counters>>

(* Mutant of DraftEffect: a draft is kept whatever was read. *)
DraftKept ==
  IF formOpen /\ draft = NoSettings
  THEN draft' = settings' /\ unsaved' = FALSE
  ELSE UNCHANGED <<draft, unsaved>>

(* The effect of the settings page: a draft of the version just read is    *)
(* kept, any other is replaced.                                             *)
DraftEffect ==
  IF formOpen /\ (draft = NoSettings \/ draft.updatedAt # settings'.updatedAt)
  THEN draft' = settings' /\ unsaved' = FALSE
  ELSE UNCHANGED <<draft, unsaved>>

(* New settings set the event stream up anew, which clears its timer. *)
SettingsAnswer ==
  /\ refreshing = "settings" /\ reply # NoSettings
  /\ refreshing' = "applications" /\ reply' = NoSettings
  /\ settings' = reply
  /\ merge' = (merge /\ settings # NoSettings /\ settings.value = reply.value)
  /\ page' = [page EXCEPT !["applications"] = Waiting(@)]
  /\ DraftEffect
  /\ Succeeds
  /\ UNCHANGED <<at, sync, loading, initialLoading, initialDataReady, formOpen,
                 op, serverVars, acts>>
  /\ PollEffect

(* The settings are not needed for what follows. *)
SettingsFail ==
  /\ refreshing = "settings"
  /\ refreshing' = "applications" /\ reply' = NoSettings
  /\ page' = [page EXCEPT !["applications"] = Waiting(@)]
  /\ handleFailure
  /\ UNCHANGED <<at, sync, loading, initialLoading, initialDataReady, settings,
                 merge, formVars, op, serverVars, acts>>
  /\ PollEffect

(* Enters the read of the i-th secondary resource, or ends refresh(). *)
EnterSecondary(i, pages) ==
  IF i > Len(Secondary)
  THEN refreshing' = "idle" /\ at' = 0 /\ page' = pages
  ELSE /\ refreshing' = "secondary" /\ at' = i
       /\ page' = IF Secondary[i] \in Paged
                  THEN [pages EXCEPT ![Secondary[i]] = Waiting(@)]
                  ELSE pages

(* The applications answer carries the state of the catalog sync.  While    *)
(* the sync runs, the rest waits for the poller.                            *)
ApplicationsAnswer ==
  /\ refreshing = "applications"
  /\ sync' = serverSync
  /\ loading' = FALSE
  /\ LET shown == [page EXCEPT !["applications"] = pageState]
     IN  \/ /\ serverSync = "RUNNING"
            /\ refreshing' = "idle" /\ at' = at /\ page' = shown
            /\ UNCHANGED <<initialLoading, initialDataReady>>
         \/ /\ serverSync # "RUNNING"
            /\ initialLoading' = FALSE /\ initialDataReady' = TRUE
            /\ EnterSecondary(1, shown)
  /\ Succeeds
  /\ UNCHANGED <<reply, settings, merge, formVars, op, serverVars, acts>>
  /\ PollEffect

(* Without the applications refresh() ends; the flags that its start set on *)
(* the other pages stay.                                                     *)
ApplicationsFail ==
  /\ refreshing = "applications"
  /\ refreshing' = "idle"
  /\ page' = [page EXCEPT !["applications"] = Failed(@)]
  /\ handleFailure
  /\ loading' = FALSE /\ initialLoading' = FALSE
  /\ UNCHANGED <<at, reply, sync, initialDataReady, settings, merge, formVars,
                 op, serverVars, acts>>
  /\ PollEffect

(* One secondary resource has been read, or could not be. *)
SecondaryAnswers ==
  /\ refreshing = "secondary"
  /\ EnterSecondary(at + 1, IF Secondary[at] \in Paged
                            THEN [page EXCEPT ![Secondary[at]] = pageState]
                            ELSE page)
  /\ Succeeds
  /\ loading' = (loading /\ refreshing' # "idle")
  /\ UNCHANGED <<reply, sync, initialLoading, initialDataReady, settings, merge,
                 formVars, op, serverVars, acts>>
  /\ PollEffect

SecondaryFails ==
  /\ refreshing = "secondary"
  /\ EnterSecondary(at + 1, IF Secondary[at] \in Paged
                            THEN [page EXCEPT ![Secondary[at]] = Failed(@)]
                            ELSE page)
  /\ handleFailure
  /\ loading' = (loading /\ refreshing' # "idle")
  /\ UNCHANGED <<reply, sync, initialLoading, initialDataReady, settings, merge,
                 formVars, op, serverVars, acts>>
  /\ PollEffect

----------------------------------------------------------------------------
(* Callers of refresh(). *)

PollFires ==
  /\ poll
  /\ refresh
  /\ UNCHANGED <<merge, formVars, op, serverVars, counters>>
  /\ PollSpent

(* A server event starts the merge window over. *)
EventArrives ==
  /\ acts < MaxActs /\ acts' = acts + 1
  /\ merge' = TRUE
  /\ UNCHANGED <<refreshVars, poll, formVars, op, serverVars, failures>>

MergeFires ==
  /\ merge /\ merge' = FALSE
  /\ refresh
  /\ UNCHANGED <<formVars, op, serverVars, counters>>
  /\ PollEffect

(* The Reload button of the error banner. *)
Reload ==
  /\ error /\ acts < MaxActs /\ acts' = acts + 1
  /\ refresh
  /\ UNCHANGED <<merge, formVars, op, serverVars, failures>>
  /\ PollEffect

(* run(operation): a rescan of the catalog, or a save of the settings form. *)
Send(o, what, value) ==
  /\ op[o] = NoOp /\ acts < MaxActs /\ acts' = acts + 1
  /\ op' = [op EXCEPT ![o] = [state |-> "sent", what |-> what, value |-> value]]

RescanAll(o) ==
  /\ Send(o, "rescan", NoSettings)
  /\ UNCHANGED <<refreshVars, poll, merge, formVars, serverVars, failures>>

(* Any other button that starts an operation. *)
Act(o) ==
  /\ Send(o, "act", NoSettings)
  /\ UNCHANGED <<refreshVars, poll, merge, formVars, serverVars, failures>>

(* The values the form shows, and a change of one of them: the draft shows *)
(* it at once, the whole record is sent.                                    *)
Shown == IF draft # NoSettings THEN draft ELSE settings

Save(o, v) ==
  /\ formOpen /\ Shown # NoSettings /\ v # Shown.value
  /\ Send(o, "save", v)
  /\ draft' = [Shown EXCEPT !.value = v]
  /\ UNCHANGED <<refreshVars, poll, merge, formOpen, unsaved, serverVars,
                 failures>>

OpenForm ==
  /\ ~formOpen /\ formOpen' = TRUE
  /\ draft' = settings /\ unsaved' = FALSE
  /\ UNCHANGED <<refreshVars, poll, merge, op, serverVars, counters>>

LeaveForm ==
  /\ formOpen /\ formOpen' = FALSE
  /\ draft' = NoSettings /\ unsaved' = FALSE
  /\ UNCHANGED <<refreshVars, poll, merge, op, serverVars, counters>>

(* "Sign in again" and "Sign out" of the account section. *)
SignOut ==
  /\ formOpen /\ Shown # NoSettings
  /\ signedOut' = TRUE
  /\ UNCHANGED <<refreshing, at, reply, page, sync, loading, initialLoading,
                 initialDataReady, error, settings, poll, merge, formVars, op,
                 serverVars, counters>>

(* UpdateSettings and SaveSettings: the whole record, with the second that  *)
(* the request saw before its write.  Saves may share it, and of two at     *)
(* once the later write may have the earlier one.                            *)
SaveSettings(v) ==
  \E t \in Seconds :
    stored' = [value |-> v, updatedAt |-> t, revision |-> stored.revision + 1]

(* The server handles an operation; a rescan is RUNNING before it is         *)
(* accepted.                                                                  *)
Apply(o) ==
  /\ op[o].state = "sent"
  /\ op' = [op EXCEPT ![o].state = "applied"]
  /\ \/ /\ op[o].what = "save"
        /\ SaveSettings(op[o].value)
        /\ serverSync' = serverSync
     \/ /\ op[o].what = "rescan"
        /\ serverSync' = "RUNNING"
        /\ stored' = stored
     \/ /\ op[o].what = "act"
        /\ UNCHANGED serverVars
  /\ UNCHANGED <<refreshVars, poll, merge, formVars, counters>>

Reject(o) ==
  /\ op[o].state = "sent"
  /\ op' = [op EXCEPT ![o].state = "rejected"]
  /\ UNCHANGED <<refreshVars, poll, merge, formVars, serverVars, counters>>

ForeignUpdate(v) ==
  /\ acts < MaxActs /\ acts' = acts + 1
  /\ SaveSettings(v)
  /\ UNCHANGED <<refreshVars, poll, merge, formVars, op, serverSync, failures>>

SyncEnds ==
  /\ serverSync = "RUNNING" /\ serverSync' = "IDLE"
  /\ UNCHANGED <<refreshVars, poll, merge, formVars, op, stored, counters>>

(* run() goes on after the operation: refresh on success. *)
OperationDone(o) ==
  /\ op[o].state = "applied"
  /\ op' = [op EXCEPT ![o] = NoOp]
  /\ refresh
  /\ UNCHANGED <<merge, formVars, serverVars, counters>>
  /\ PollEffect

(* A rejected operation, or one whose answer is lost: the banner, and the    *)
(* draft stays as it is.                                                     *)
OperationFails(o) ==
  /\ op[o].state \in {"applied", "rejected"}
  /\ op' = [op EXCEPT ![o] = NoOp]
  /\ handleFailure
  /\ unsaved' = (unsaved \/ (op[o].what = "save" /\ formOpen))
  /\ UNCHANGED <<refreshing, at, reply, page, sync, loading, initialLoading,
                 initialDataReady, settings, merge, formOpen, draft, serverVars,
                 acts>>
  /\ PollEffect

----------------------------------------------------------------------------
RefreshStep ==
  \/ SessionAnswers \/ SessionFails
  \/ ServerReadsSettings \/ SettingsAnswer \/ SettingsFail
  \/ ApplicationsAnswer \/ ApplicationsFail
  \/ SecondaryAnswers \/ SecondaryFails

(* The login page replaces this one: nothing is shown any more. *)
Next ==
  /\ ~signedOut
  /\ \/ RefreshStep
     \/ PollFires \/ EventArrives \/ MergeFires \/ Reload
     \/ OpenForm \/ LeaveForm \/ SignOut \/ SyncEnds
     \/ \E v \in Values : ForeignUpdate(v)
     \/ \E o \in Ops :
          \/ RescanAll(o) \/ Act(o) \/ Apply(o) \/ Reject(o)
          \/ OperationDone(o) \/ OperationFails(o)
          \/ \E v \in Values : Save(o, v)

Spec == Init /\ [][Next]_vars

(* A read ends within 15 seconds, the poller's timer fires, and a catalog   *)
(* sync ends.                                                                *)
Fairness ==
  /\ WF_vars(~signedOut /\ RefreshStep) /\ WF_vars(~signedOut /\ PollFires)
  /\ WF_vars(~signedOut /\ SyncEnds)

FairSpec == Spec /\ Fairness

----------------------------------------------------------------------------
TypeOK ==
  /\ refreshing \in Stages /\ at \in 0..Len(Secondary)
  /\ reply \in Settings \union {NoSettings}
  /\ page \in [Pages -> PageState]
  /\ sync \in SyncStates
  /\ {loading, initialLoading, initialDataReady, error, signedOut, poll, merge,
      formOpen, unsaved} \subseteq BOOLEAN
  /\ settings \in Settings \union {NoSettings}
  /\ draft \in Settings \union {NoSettings}
  /\ op \in [Ops -> OpRecord]
  /\ stored \in Settings
  /\ serverSync \in {"RUNNING", "IDLE"}
  /\ {failures, acts} \subseteq Nat

(* What a page shows as being loaded. *)
pagePending(p) == page[p].loading \/ (~page[p].loaded /\ ~page[p].error)

(* The banner "Loading application data" of the shell. *)
globalLoading == initialLoading

(* No spinner without a reason: whenever a page or the shell shows that it  *)
(* is loading, a refresh is under way, a timer will start one, or the user  *)
(* has the Reload button or is on the way to the login page.                *)
NoDeadSpinner ==
  globalLoading \/ (\E p \in Pages : pagePending(p))
    => refreshing # "idle" \/ poll \/ error \/ signedOut

(* The control state of refresh() and its two timers.                       *)
(* - the flag loading is up exactly during the first three reads;           *)
(* - the poller is armed only while no refresh runs, so that its call is    *)
(*   never one of the dropped ones, and it is armed whenever a refresh has  *)
(*   left a catalog sync RUNNING behind;                                    *)
(* - a page that shows an error is explained by the banner or the sign in;  *)
(* - outside the first three reads the data is complete, or the poller, the *)
(*   banner or the sign in will take care of it.                            *)
FirstStages == {"session", "settings", "applications"}
RefreshInv ==
  /\ loading <=> refreshing \in FirstStages
  /\ poll <=> refreshing = "idle" /\ sync = "RUNNING"
  /\ refreshing = "secondary" => sync # "RUNNING" /\ at \in 1..Len(Secondary)
  /\ (\E p \in Pages : page[p].error) => error \/ signedOut
  /\ refreshing = "idle" /\ ~poll /\ ~error /\ ~signedOut
       => /\ ~initialLoading /\ initialDataReady
          /\ \A p \in Pages : page[p].loaded /\ ~page[p].loading
  /\ refreshing = "secondary" =>
       /\ ~initialLoading /\ initialDataReady
       /\ \A p \in Pages :
            \/ page[p].loaded /\ ~page[p].loading
            \/ error \/ signedOut
            \/ \E i \in at..Len(Secondary) : Secondary[i] = p

(* A form at rest shows what the server stores: once the settings read are *)
(* the stored ones, no save is under way and none has failed, the draft is  *)
(* the stored record, whatever was typed or changed elsewhere before.  One  *)
(* case is left: the form was filled from an earlier record that was saved  *)
(* in the same second, which the page cannot tell from the stored one.      *)
FormTrue ==
  /\ formOpen /\ settings = stored /\ ~unsaved
  /\ \A o \in Ops : op[o].what # "save"
  => \/ draft = stored
     \/ draft.updatedAt = stored.updatedAt /\ draft.revision < stored.revision

(* The client does not lose a running catalog sync: whenever it has read    *)
(* that one runs it reads on, through failed reads and other refreshes,     *)
(* until it has seen the end of it.                                          *)
CatalogAwaited == []<>(sync # "RUNNING" \/ signedOut)

================================================================================
