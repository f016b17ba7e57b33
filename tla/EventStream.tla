------------------------------ MODULE EventStream ------------------------------
(***************************************************************************)
(* The server event stream and its consumer in the web client: the handler *)
(* GET /api/events (httpapi/phase5.go), the EventSource effect of live.ts  *)
(* with its cursor, and the browser notifications it sends.                *)
(*                                                                         *)
(* An event is identified by its position in the log of the tenant.  A     *)
(* connection is a FIFO of messages that is lost with the connection; the  *)
(* handler ends it after 25 seconds, and the client then waits 15 seconds  *)
(* and connects again, after the last event it knows.                      *)
(***************************************************************************)
EXTENDS Naturals, Sequences

CONSTANTS
  Keys,        \* tasks
  Statuses,    \* statuses of a task
  History,     \* events logged before the page was opened
  MaxLog,      \* bound on the log
  PollLimit,   \* events one poll of the handler reads (100 in the code)
  MaxPipe,     \* bound on the messages in flight
  MaxChanges,  \* bound on changes of the settings the effect depends on
  MaxDrops,    \* bound on connections lost with what was in flight
  None         \* no cursor, no lastEventId

successfulTaskStatuses == {"SUCCEEDED", "SUCCEEDED_WITH_WARNINGS"}
failedTaskStatuses == {"FAILED", "TIMED_OUT"}
TaskEvents == [type: {"task.updated"}, task: Keys, status: Statuses]
OtherEvent == [type |-> "batch.updated", task |-> None, status |-> None]
Events == TaskEvents \union {OtherEvent}

ASSUME StreamAssumption ==
  /\ History \in Seq(Events)
  /\ {MaxLog, MaxPipe, MaxChanges, MaxDrops} \subseteq Nat
  /\ PollLimit \in Nat \ {0}
  /\ None \notin Nat

VARIABLES
  log,          \* events of the tenant, oldest first
  expiring,     \* the session ends within five minutes
  conn,         \* the client's connection
  asked,        \* the cursor in the URL of the request
  after,        \* the handler's position in the log
  polled,       \* the handler has completed a round of its loop
  pipe,         \* messages in flight
  lastEventId,  \* of the current EventSource
  streamReady, eventCursor, notifiedTasks,
  settings,     \* notifySuccess and notifyFirstFailure
  permission,   \* the browser's permission to notify
  start,        \* auxiliary: the cursor of the first stream.ready
  seen,         \* auxiliary: events the client has received
  told,         \* auxiliary: events the user was notified of
  cursorLost,   \* auxiliary: a message without id has reset the cursor
  changes, drops

serverVars == <<log, expiring>>
handlerVars == <<after, polled>>
clientVars == <<lastEventId, streamReady, eventCursor, notifiedTasks>>
auxVars == <<start, seen, told, cursorLost>>
vars == <<serverVars, handlerVars, clientVars, auxVars, conn, asked, pipe,
          settings, permission, changes, drops>>

Cursor == Nat \union {None}
ConnStates == {"requested", "open", "ended", "waiting"}
Message == [kind: {"ready", "event", "expiring", "eof"}, id: Nat]
Msg(kind, id) == [kind |-> kind, id |-> id]
Settings == [notifySuccess: BOOLEAN, notifyFirstFailure: BOOLEAN]

Init ==
  /\ log = History /\ expiring \in BOOLEAN
  /\ conn = "requested" /\ asked = None
  /\ after = 0 /\ polled = FALSE /\ pipe = <<>>
  /\ lastEventId = None /\ streamReady = FALSE /\ eventCursor = None
  /\ notifiedTasks = {}
  /\ settings = [notifySuccess |-> TRUE, notifyFirstFailure |-> TRUE]
  /\ permission = "default"
  /\ start = None /\ seen = {} /\ told = {} /\ cursorLost = FALSE
  /\ changes = 0 /\ drops = 0

----------------------------------------------------------------------------
(* The server. *)

Emit(e) ==
  /\ Len(log) < MaxLog
  /\ log' = Append(log, e)
  /\ UNCHANGED <<expiring, handlerVars, clientVars, auxVars, conn, asked, pipe,
                 settings, permission, changes, drops>>

SessionNearsEnd ==
  /\ ~expiring /\ expiring' = TRUE
  /\ UNCHANGED <<log, handlerVars, clientVars, auxVars, conn, asked, pipe,
                 settings, permission, changes, drops>>

(* Mutant of FirstPosition: a request without a cursor starts at the oldest *)
(* event.                                                                    *)
FromTheBeginning == IF asked = None THEN 0 ELSE asked

(* A new client starts at the head of the log, a returning one at its       *)
(* cursor.                                                                   *)
FirstPosition == IF asked = None THEN Len(log) ELSE asked

Accept ==
  /\ conn = "requested"
  /\ conn' = "open"
  /\ after' = FirstPosition /\ polled' = FALSE
  /\ pipe' = <<Msg("ready", FirstPosition)>> /\ asked' = None
  /\ UNCHANGED <<serverVars, clientVars, auxVars, settings, permission,
                 changes, drops>>

(* The events of one round: at most PollLimit, in the order of the log. *)
EventsAfter(n) ==
  LET last == IF Len(log) - n < PollLimit THEN Len(log) ELSE n + PollLimit
  IN  [i \in 1..(last - n) |-> Msg("event", n + i)]

(* A round of the loop; the warning of the session's end carries no id. *)
Poll ==
  /\ conn = "open"
  /\ LET items == EventsAfter(after)
         warning == IF expiring THEN <<Msg("expiring", 0)>> ELSE <<>>
     IN  /\ Len(pipe) + Len(items) + Len(warning) <= MaxPipe
         /\ pipe' = pipe \o items \o warning
         /\ after' = after + Len(items)
  /\ polled' = TRUE
  /\ UNCHANGED <<serverVars, clientVars, auxVars, conn, asked, settings,
                 permission, changes, drops>>

(* The 25 seconds are over: the handler returns between two rounds. *)
Deadline ==
  /\ conn = "open" /\ polled
  /\ conn' = "ended" /\ pipe' = Append(pipe, Msg("eof", 0))
  /\ UNCHANGED <<serverVars, handlerVars, clientVars, auxVars, asked, settings,
                 permission, changes, drops>>

----------------------------------------------------------------------------
(* The client. *)

(* The request the handler served is cancelled. *)
NoHandler == after' = 0 /\ polled' = FALSE

(* Mutant of connect: every connection starts at the head of the log. *)
connectWithoutCursor ==
  /\ conn' = "requested"
  /\ asked' = None
  /\ pipe' = <<>> /\ lastEventId' = None
  /\ streamReady' = FALSE
  /\ NoHandler
  /\ UNCHANGED <<eventCursor, notifiedTasks>>

connect ==
  /\ conn' = "requested"
  /\ asked' = eventCursor
  /\ pipe' = <<>> /\ lastEventId' = None
  /\ streamReady' = FALSE
  /\ NoHandler
  /\ UNCHANGED <<eventCursor, notifiedTasks>>

(* Number("") is 0: a message on a source that has not seen an id yet sets  *)
(* the cursor to the beginning of the log.                                   *)
rememberCursor(id) ==
  /\ eventCursor' = IF id = None THEN 0 ELSE id
  /\ cursorLost' = (cursorLost \/ id = None)

markReady(m) ==
  /\ m.kind = "ready"
  /\ eventCursor' = m.id
  /\ streamReady' = TRUE
  /\ start' = IF start = None THEN m.id ELSE start
  /\ UNCHANGED <<lastEventId, notifiedTasks, seen, told, cursorLost>>

(* Whether a task event is worth a notification under the settings. *)
Wanted(e) ==
  \/ e.status \in successfulTaskStatuses /\ settings.notifySuccess
  \/ e.status \in failedTaskStatuses /\ settings.notifyFirstFailure

sendBrowserNotification(id) ==
  told' = IF permission = "granted" THEN told \union {id} ELSE told

notifyTask(id) ==
  LET e == log[id]
      key == <<e.task, e.status>>
  IN  IF /\ e.type = "task.updated" /\ streamReady
         /\ Wanted(e) /\ key \notin notifiedTasks
      THEN /\ notifiedTasks' = notifiedTasks \union {key}
           /\ sendBrowserNotification(id)
      ELSE UNCHANGED <<notifiedTasks, told>>

onEvent(m) ==
  /\ m.kind = "event"
  /\ lastEventId' = m.id
  /\ rememberCursor(m.id)
  /\ notifyTask(m.id)
  /\ seen' = seen \union {m.id}
  /\ UNCHANGED <<streamReady, start>>

onExpiring(m) ==
  /\ m.kind = "expiring"
  /\ rememberCursor(lastEventId)
  /\ UNCHANGED <<lastEventId, streamReady, notifiedTasks, start, seen, told>>

(* The next message of the current EventSource. *)
Receive ==
  /\ conn \in {"open", "ended"} /\ pipe # <<>>
  /\ pipe' = Tail(pipe)
  /\ markReady(Head(pipe)) \/ onEvent(Head(pipe)) \/ onExpiring(Head(pipe))
  /\ UNCHANGED <<serverVars, handlerVars, conn, asked, settings, permission,
                 changes, drops>>

(* Mutant of onerror: the source is closed for good. *)
onerrorCloses ==
  /\ conn' = "closed" /\ pipe' = <<>> /\ lastEventId' = None
  /\ NoHandler
  /\ UNCHANGED <<streamReady, eventCursor, notifiedTasks, auxVars>>

(* The source is closed and a new one is due in 15 seconds. *)
onerror ==
  /\ conn' = "waiting" /\ pipe' = <<>> /\ lastEventId' = None
  /\ NoHandler
  /\ UNCHANGED <<streamReady, eventCursor, notifiedTasks, auxVars>>

StreamEnds ==
  /\ conn = "ended" /\ pipe # <<>> /\ Head(pipe).kind = "eof"
  /\ onerror
  /\ UNCHANGED <<serverVars, asked, settings, permission, changes,
                 drops>>

(* The network, the proxy or the server loses the connection. *)
Drop ==
  /\ conn \in {"requested", "open", "ended"}
  /\ drops < MaxDrops /\ drops' = drops + 1
  /\ onerror
  /\ UNCHANGED <<serverVars, asked, settings, permission, changes>>

Reconnect ==
  /\ conn = "waiting"
  /\ connect
  /\ UNCHANGED <<serverVars, auxVars, settings, permission, changes,
                 drops>>

(* A change of the settings disposes of the source and its timer, and       *)
(* connects anew; the cursor and the set of notified tasks are refs.         *)
SettingsChange(s) ==
  /\ s # settings /\ changes < MaxChanges /\ changes' = changes + 1
  /\ settings' = s
  /\ connect
  /\ UNCHANGED <<serverVars, auxVars, permission, drops>>

(* The button of the notification section, which is enabled until the user  *)
(* has answered the browser.                                                  *)
MayAsk == permission = "default"

requestBrowserNotificationPermission(answer) == permission' = answer

enableBrowserNotifications(answer) ==
  /\ MayAsk
  /\ requestBrowserNotificationPermission(answer)
  /\ UNCHANGED <<serverVars, handlerVars, clientVars, auxVars, conn, asked, pipe,
                 settings, changes, drops>>

Next ==
  \/ \E e \in Events : Emit(e)
  \/ SessionNearsEnd \/ Accept \/ Poll \/ Deadline
  \/ Receive \/ StreamEnds \/ Drop \/ Reconnect
  \/ \E s \in Settings : SettingsChange(s)
  \/ \E answer \in {"granted", "denied"} :
       enableBrowserNotifications(answer)

Spec == Init /\ [][Next]_vars

(* The handler answers and polls every second, the network delivers what    *)
(* it does not lose, and timers fire.                                        *)
Fairness ==
  /\ WF_vars(Accept) /\ WF_vars(Poll) /\ WF_vars(Receive)
  /\ WF_vars(StreamEnds) /\ WF_vars(Reconnect)

FairSpec == Spec /\ Fairness

----------------------------------------------------------------------------
TypeOK ==
  /\ log \in Seq(Events) /\ expiring \in BOOLEAN
  /\ conn \in ConnStates /\ asked \in Cursor
  /\ after \in Nat /\ polled \in BOOLEAN
  /\ pipe \in Seq(Message)
  /\ lastEventId \in Cursor /\ streamReady \in BOOLEAN /\ eventCursor \in Cursor
  /\ notifiedTasks \subseteq Keys \X Statuses
  /\ settings \in Settings
  /\ permission \in {"default", "granted", "denied"}
  /\ cursorLost \in BOOLEAN
  /\ start \in Cursor /\ seen \subseteq Nat /\ told \subseteq Nat
  /\ changes \in Nat /\ drops \in Nat

(* No event that follows the first cursor is skipped: up to the cursor the  *)
(* client would reconnect with, it has received every one of them, through  *)
(* lost connections, ends of the stream and changes of the settings.         *)
CursorSound ==
  start # None =>
    /\ eventCursor \in 0..Len(log)
    /\ \A i \in 1..Len(log) : start < i /\ i <= eventCursor => i \in seen

(* The user is not notified of tasks that ended before the page was opened, *)
(* unless a warning of the session's end has reset the cursor.               *)
HistoryOnlyAfterReset ==
  \A i \in told : i > Len(History) \/ cursorLost

(* "On the first open no browser notification is shown for past tasks."     *)
NoHistory == \A i \in told : i > Len(History)

(* Every event that follows the first cursor reaches the client. *)
EventsArrive ==
  \A i \in 1..MaxLog :
    (start # None /\ i <= Len(log) /\ i > start) ~> i \in seen

================================================================================
