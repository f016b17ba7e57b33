--------------------------- MODULE EventStreamProofs ---------------------------
(***************************************************************************)
(* Proofs about EventStream: the client's cursor skips no event, and past  *)
(* tasks are announced only after a message without id.                    *)
(***************************************************************************)
EXTENDS EventStream, TLAPS

(* What is known before the first stream.ready: the client has no cursor,    *)
(* and the first message of a connection is that one.                         *)
BeforeReady ==
  /\ eventCursor = None /\ lastEventId = None
  /\ conn \in {"open", "ended"} => pipe # <<>> /\ pipe[1].kind = "ready"

(* The first event that the client need not receive again. *)
Origin == IF start # None THEN start ELSE pipe[1].id

(* The client has event i, or it is among the first k - 1 messages in flight. *)
OnItsWay(i, k) ==
  \/ i \in seen
  \/ \E j \in 1..Len(pipe) : j < k /\ pipe[j] = Msg("event", i)

(* Events up to n are there or on their way before message k. *)
CoveredUpTo(n, k) ==
  \A i \in 1..Len(log) : Origin < i /\ i <= n => OnItsWay(i, k)

SeenUpTo(n) == \A i \in 1..Len(log) : start < i /\ i <= n => i \in seen

(* The positions the client holds. *)
ClientCursors ==
  /\ start # None => /\ start \in 0..Len(log)
                     /\ eventCursor \in 0..Len(log) /\ SeenUpTo(eventCursor)
  /\ lastEventId # None => lastEventId \in 0..Len(log) /\ SeenUpTo(lastEventId)
  /\ conn = "requested" => asked = eventCursor

(* The messages in flight, and the handler's position behind them. *)
InFlight ==
  /\ conn \in {"requested", "waiting"} => pipe = <<>>
  /\ \A k \in 1..Len(pipe) :
       /\ pipe[k].kind = "ready" =>
            /\ k = 1 /\ pipe[k].id \in 0..Len(log)
            /\ start # None => pipe[k].id = eventCursor
       /\ pipe[k].kind = "event" =>
            pipe[k].id \in 1..Len(log) /\ CoveredUpTo(pipe[k].id - 1, k)
  /\ conn = "open" =>
       after \in 0..Len(log) /\ CoveredUpTo(after, Len(pipe) + 1)

StreamInv ==
  /\ TypeOK
  /\ start = None => BeforeReady
  /\ ClientCursors
  /\ InFlight

(* Nothing that a client holds whose cursor was never reset refers to the    *)
(* time before the page was opened.                                           *)
AfterHistory ==
  /\ Len(log) >= Len(History)
  /\ cursorLost \/
       /\ eventCursor # None => eventCursor >= Len(History)
       /\ lastEventId # None => lastEventId >= Len(History)
       /\ conn = "open" => after >= Len(History)
       /\ \A k \in 1..Len(pipe) :
            /\ pipe[k].kind = "ready" => pipe[k].id >= Len(History)
            /\ pipe[k].kind = "event" => pipe[k].id > Len(History)
       /\ \A i \in told : i > Len(History)

HistoryInv == StreamInv /\ AfterHistory

----------------------------------------------------------------------------
(* Sequences of messages. *)

(* The messages of a concatenation. *)
LEMMA ConcatMessages ==
  ASSUME NEW s \in Seq(Message), NEW t \in Seq(Message)
  PROVE  /\ s \o t \in Seq(Message) /\ Len(s \o t) = Len(s) + Len(t)
         /\ Len(s) \in Nat /\ Len(t) \in Nat
         /\ \A k \in 1..Len(s) : (s \o t)[k] = s[k]
         /\ \A k \in 1..Len(t) : (s \o t)[Len(s) + k] = t[k]
OBVIOUS

(* The parts of the next pipe when a round of the handler is appended. *)
LEMMA PollAppends ==
  ASSUME StreamInv, Poll
  PROVE  \E n \in Nat :
           /\ after' = after + n /\ after + n <= Len(log)
           /\ pipe' \in Seq(Message) /\ Len(pipe') >= Len(pipe) + n
           /\ \A k \in 1..Len(pipe) : pipe'[k] = pipe[k]
           /\ \A k \in 1..n : pipe'[Len(pipe) + k] = Msg("event", after + k)
           /\ \A k \in 1..Len(pipe') :
                k > Len(pipe) + n => pipe'[k] = Msg("expiring", 0)
<1> DEFINE items == EventsAfter(after)
           warning == IF expiring THEN <<Msg("expiring", 0)>> ELSE <<>>
           last == IF Len(log) - after < PollLimit THEN Len(log)
                   ELSE after + PollLimit
           n == last - after
<1>1. /\ conn = "open" /\ pipe' = pipe \o items \o warning
      /\ after' = after + Len(items)
  BY DEF Poll
<1>2. after \in 0..Len(log) /\ Len(log) \in Nat /\ pipe \in Seq(Message)
  BY <1>1 DEF StreamInv, InFlight, TypeOK
<1>3. n \in Nat /\ after + n <= Len(log)
  BY <1>2, StreamAssumption
<1>4. items = [i \in 1..n |-> Msg("event", after + i)]
  BY DEF EventsAfter
<1>5. \A i \in 1..n : Msg("event", after + i) \in Message
  BY <1>2, <1>3 DEF Msg, Message
<1> HIDE DEF n
<1>6. items \in Seq(Message) /\ Len(items) = n
  BY <1>3, <1>4, <1>5
<1>7. warning \in Seq(Message) /\ \A k \in 1..Len(warning) : warning[k] = Msg("expiring", 0)
  <2>1. Msg("expiring", 0) \in Message
    BY DEF Msg, Message
  <2>2. CASE expiring
    BY <2>1, <2>2
  <2>3. CASE ~expiring
    BY <2>3
  <2> QED  BY <2>2, <2>3
<1> HIDE DEF items, warning
<1>8. /\ pipe \o items \in Seq(Message) /\ Len(pipe \o items) = Len(pipe) + n
      /\ \A k \in 1..Len(pipe) : (pipe \o items)[k] = pipe[k]
      /\ \A k \in 1..n : (pipe \o items)[Len(pipe) + k] = items[k]
  BY <1>2, <1>3, <1>6
<1> DEFINE both == pipe \o items
<1> HIDE DEF both
<1>9. /\ both \in Seq(Message) /\ Len(both) = Len(pipe) + n
      /\ \A k \in 1..Len(pipe) : both[k] = pipe[k]
      /\ \A k \in 1..n : both[Len(pipe) + k] = items[k]
      /\ pipe' = both \o warning
  BY <1>1, <1>8 DEF both
<1>10. /\ both \o warning \in Seq(Message)
       /\ Len(both \o warning) = Len(both) + Len(warning)
       /\ \A k \in 1..Len(both) : (both \o warning)[k] = both[k]
       /\ \A k \in 1..Len(both \o warning) :
            k > Len(both) => (both \o warning)[k] = Msg("expiring", 0)
  <2>1. /\ both \o warning \in Seq(Message)
        /\ Len(both \o warning) = Len(both) + Len(warning)
        /\ \A k \in 1..Len(both) : (both \o warning)[k] = both[k]
        /\ \A k \in 1..Len(warning) : (both \o warning)[Len(both) + k] = warning[k]
    BY <1>7, <1>9, ConcatMessages
  <2>2. ASSUME NEW k \in 1..Len(both \o warning), k > Len(both)
        PROVE  (both \o warning)[k] = Msg("expiring", 0)
    <3>1. Len(both) \in Nat /\ Len(warning) \in Nat
      BY <1>7, <1>9, ConcatMessages
    <3> DEFINE i == k - Len(both)
    <3>2. i \in 1..Len(warning) /\ k = Len(both) + i
      BY <2>1, <2>2, <3>1
    <3> HIDE DEF i
    <3> QED  BY <1>7, <2>1, <3>2
  <2> QED  BY <2>1, <2>2
<1>11. Len(warning) \in Nat /\ Len(pipe) \in Nat
  BY <1>2, <1>7
<1>12. \A k \in 1..n : items[k] = Msg("event", after + k)
  BY <1>4
<1>13. after' = after + n
  BY <1>1, <1>6
<1>14. \A k \in 1..Len(pipe) : pipe'[k] = pipe[k]
  BY <1>3, <1>9, <1>10, <1>11
<1>15. \A k \in 1..n : pipe'[Len(pipe) + k] = Msg("event", after + k)
  BY <1>3, <1>9, <1>10, <1>11, <1>12
<1>16. \A k \in 1..Len(pipe') :
         k > Len(pipe) + n => pipe'[k] = Msg("expiring", 0)
  BY <1>3, <1>7, <1>9, <1>10, <1>11
<1>17. Len(pipe') >= Len(pipe) + n
  BY <1>3, <1>9, <1>10, <1>11
<1> QED  BY <1>3, <1>9, <1>10, <1>13, <1>14, <1>15, <1>16, <1>17

(* What is left when the first message is taken. *)
LEMMA TailMessages ==
  ASSUME NEW s \in Seq(Message), s # <<>>
  PROVE  /\ Head(s) = s[1] /\ Head(s) \in Message
         /\ Tail(s) \in Seq(Message) /\ Len(Tail(s)) = Len(s) - 1
         /\ 1 \in 1..Len(s)
         /\ \A k \in 1..Len(Tail(s)) : k + 1 \in 1..Len(s) /\ Tail(s)[k] = s[k + 1]
OBVIOUS

----------------------------------------------------------------------------
(* Steps that leave the connection alone. *)
LEMMA OtherKeepsStream ==
  ASSUME StreamInv, TypeOK',
         UNCHANGED <<log, handlerVars, clientVars, start, seen, conn, asked, pipe>>
  PROVE  StreamInv'
BY DEF StreamInv, BeforeReady, ClientCursors, InFlight, handlerVars, clientVars,
       SeenUpTo, CoveredUpTo, OnItsWay, Origin

(* A new event is behind every position. *)
LEMMA EmitKeeps ==
  ASSUME StreamInv, NEW e \in Events, Emit(e)
  PROVE  StreamInv'
<1>1. /\ log' = Append(log, e)
      /\ UNCHANGED <<expiring, after, polled, lastEventId, streamReady,
                     eventCursor, notifiedTasks, start, seen, told, cursorLost,
                     conn, asked, pipe, settings, permission, changes, drops>>
  BY DEF Emit, handlerVars, clientVars, auxVars
<1>2. /\ log \in Seq(Events) /\ log' \in Seq(Events) /\ Len(log') = Len(log) + 1
      /\ Len(log) \in Nat
  BY <1>1 DEF StreamInv, TypeOK
<1>3. TypeOK'
  BY <1>1, <1>2 DEF StreamInv, TypeOK
<1>4. start \in Cursor /\ eventCursor \in Cursor /\ lastEventId \in Cursor
  BY DEF StreamInv, TypeOK
<1>5. ClientCursors'
  BY <1>1, <1>2, <1>4 DEF StreamInv, ClientCursors, SeenUpTo, Cursor
<1>6. ASSUME NEW n \in Nat, NEW k \in Nat, n <= Len(log), CoveredUpTo(n, k)
      PROVE  CoveredUpTo(n, k)'
  BY <1>1, <1>2, <1>6 DEF CoveredUpTo, OnItsWay, Origin
<1>7. ASSUME NEW k \in 1..Len(pipe)
      PROVE  (/\ pipe[k].kind = "ready" =>
                  /\ k = 1 /\ pipe[k].id \in 0..Len(log)
                  /\ start # None => pipe[k].id = eventCursor
              /\ pipe[k].kind = "event" =>
                  pipe[k].id \in 1..Len(log) /\ CoveredUpTo(pipe[k].id - 1, k))'
  <2>1. CASE pipe[k].kind = "event"
    <3>1. pipe[k].id \in 1..Len(log) /\ CoveredUpTo(pipe[k].id - 1, k)
      BY <2>1 DEF StreamInv, InFlight
    <3>2. CoveredUpTo(pipe[k].id - 1, k)'
      BY <1>2, <1>6, <1>1, <3>1
    <3> QED  BY <1>1, <1>2, <2>1, <3>1, <3>2
  <2>2. CASE pipe[k].kind # "event"
    BY <1>1, <1>2, <2>2 DEF StreamInv, InFlight
  <2> QED  BY <2>1, <2>2
<1>8. conn = "open" =>
        after \in 0..Len(log') /\ CoveredUpTo(after, Len(pipe) + 1)'
  <2> SUFFICES ASSUME conn = "open"
               PROVE  after \in 0..Len(log') /\ CoveredUpTo(after, Len(pipe) + 1)'
    OBVIOUS
  <2>1. after \in 0..Len(log) /\ CoveredUpTo(after, Len(pipe) + 1)
    BY DEF StreamInv, InFlight
  <2>2. Len(pipe) + 1 \in Nat
    BY DEF StreamInv, TypeOK
  <2> QED  BY <1>1, <1>2, <1>6, <2>1, <2>2
<1>9. InFlight'
  BY <1>1, <1>7, <1>8 DEF StreamInv, InFlight
<1> QED  BY <1>1, <1>3, <1>5, <1>9 DEF StreamInv, BeforeReady

(* The first message of a connection carries the cursor it was opened with,   *)
(* or the head of the log.                                                     *)
LEMMA AcceptKeeps ==
  ASSUME StreamInv, Accept
  PROVE  StreamInv'
<1>1. /\ asked = eventCursor /\ Len(log) \in Nat /\ conn = "requested"
      /\ start = None => eventCursor = None
      /\ start # None => eventCursor \in 0..Len(log) /\ SeenUpTo(eventCursor)
  BY DEF Accept, StreamInv, ClientCursors, BeforeReady, TypeOK
<1>2. PICK n \in 0..Len(log) :
        n = FirstPosition /\ (start # None => n = eventCursor)
  BY <1>1, StreamAssumption DEF FirstPosition
<1> DEFINE m == Msg("ready", n)
<1>3. /\ conn' = "open" /\ after' = n
      /\ polled' = FALSE /\ pipe' = <<m>> /\ asked' = None
      /\ UNCHANGED <<log, expiring, lastEventId, streamReady, eventCursor,
                     notifiedTasks, start, seen, told, cursorLost, settings,
                     permission, changes, drops>>
  BY <1>2 DEF Accept, serverVars, clientVars, auxVars
<1>4. m \in Message /\ m.kind = "ready" /\ m.id = n
  BY <1>1, <1>2 DEF Msg, Message
<1> HIDE DEF m
<1>5. pipe' \in Seq(Message) /\ Len(pipe') = 1 /\ pipe'[1] = m
  BY <1>3, <1>4
<1>6. TypeOK'
  <2>1. after' \in Nat /\ conn' \in ConnStates /\ asked' \in Cursor
    BY <1>1, <1>2, <1>3 DEF ConnStates, Cursor
  <2> QED  BY <1>3, <1>5, <2>1 DEF StreamInv, TypeOK
<1>7. CoveredUpTo(n, 2)'
  <2>1. CASE start # None
    BY <1>1, <1>2, <1>3, <2>1 DEF CoveredUpTo, OnItsWay, Origin, SeenUpTo
  <2>2. CASE start = None
    BY <1>1, <1>3, <1>4, <1>5, <2>2 DEF CoveredUpTo, Origin
  <2> QED  BY <2>1, <2>2
<1>8. (start = None => BeforeReady)'
  BY <1>1, <1>3, <1>4, <1>5 DEF StreamInv, BeforeReady
<1>9. ClientCursors'
  BY <1>3 DEF StreamInv, ClientCursors, SeenUpTo
<1>10. InFlight'
  BY <1>2, <1>3, <1>4, <1>5, <1>7 DEF InFlight
<1> QED  BY <1>6, <1>8, <1>9, <1>10 DEF StreamInv


(* A round of the handler continues where the last one ended. *)
LEMMA PollKeeps ==
  ASSUME StreamInv, Poll
  PROVE  StreamInv'
<1>1. /\ conn = "open" /\ conn' = conn /\ polled' = TRUE
      /\ UNCHANGED <<log, expiring, lastEventId, streamReady, eventCursor,
                     notifiedTasks, start, seen, told, cursorLost, asked,
                     settings, permission, changes, drops>>
  BY DEF Poll, serverVars, clientVars, auxVars
<1>2. PICK n \in Nat :
        /\ after' = after + n /\ after + n <= Len(log)
        /\ pipe' \in Seq(Message) /\ Len(pipe') >= Len(pipe) + n
        /\ \A k \in 1..Len(pipe) : pipe'[k] = pipe[k]
        /\ \A k \in 1..n : pipe'[Len(pipe) + k] = Msg("event", after + k)
        /\ \A k \in 1..Len(pipe') :
             k > Len(pipe) + n => pipe'[k] = Msg("expiring", 0)
  BY PollAppends
<1>3. /\ after \in 0..Len(log) /\ CoveredUpTo(after, Len(pipe) + 1)
      /\ Len(log) \in Nat /\ Len(pipe) \in Nat /\ Len(pipe') \in Nat
      /\ start # None \/ (pipe # <<>> /\ pipe[1].kind = "ready")
  BY <1>1, <1>2 DEF StreamInv, InFlight, BeforeReady, TypeOK
<1>4. TypeOK'
  BY <1>1, <1>2, <1>3 DEF StreamInv, TypeOK
<1>5. start = None => 1 \in 1..Len(pipe)
  BY <1>3 DEF StreamInv, TypeOK
<1>6. Origin' = Origin
  BY <1>1, <1>2, <1>5 DEF Origin
<1>7. ASSUME NEW i \in 1..Len(log), NEW k \in Nat, NEW l \in Nat, k <= l,
             OnItsWay(i, k)
      PROVE  OnItsWay(i, l)'
  <2>1. CASE i \in seen
    BY <1>1, <2>1 DEF OnItsWay
  <2>2. CASE i \notin seen
    <3>1. PICK j \in 1..Len(pipe) : j < k /\ pipe[j] = Msg("event", i)
      BY <1>7, <2>2 DEF OnItsWay
    <3>2. j \in 1..Len(pipe') /\ j < l /\ pipe'[j] = Msg("event", i)
      BY <1>2, <1>3, <1>7, <3>1
    <3> QED  BY <3>2 DEF OnItsWay
  <2> QED  BY <2>1, <2>2
<1>8. ASSUME NEW i \in 1..Len(log), NEW l \in Nat,
             Origin < i, i <= after + n, i <= after \/ l > Len(pipe) + i - after,
             l > Len(pipe)
      PROVE  OnItsWay(i, l)'
  <2>1. CASE i <= after
    <3>1. OnItsWay(i, Len(pipe) + 1)
      BY <1>3, <1>8, <2>1 DEF CoveredUpTo
    <3> QED  BY <1>3, <1>7, <1>8, <3>1
  <2>2. CASE i > after
    <3> DEFINE j == Len(pipe) + (i - after)
    <3>1. i - after \in 1..n /\ after + (i - after) = i
      BY <1>2, <1>3, <1>8, <2>2
    <3>2. pipe'[j] = Msg("event", i)
      BY <1>2, <3>1
    <3>3. j \in 1..Len(pipe') /\ j < l
      BY <1>2, <1>3, <1>8, <2>2, <3>1
    <3> QED  BY <3>2, <3>3 DEF OnItsWay
  <2> QED  BY <1>3, <2>1, <2>2
<1>10. ASSUME NEW k \in 1..Len(pipe')
       PROVE  /\ pipe'[k].kind = "ready" =>
                   /\ k = 1 /\ pipe'[k].id \in 0..Len(log)
                   /\ start # None => pipe'[k].id = eventCursor
              /\ pipe'[k].kind = "event" =>
                   /\ pipe'[k].id \in 1..Len(log)
                   /\ \A i \in 1..Len(log) :
                        Origin < i /\ i <= pipe'[k].id - 1 => OnItsWay(i, k)'
  <2>1. CASE k <= Len(pipe)
    <3>1. k \in 1..Len(pipe) /\ pipe'[k] = pipe[k]
      BY <1>2, <1>3, <2>1
    <3>2. /\ pipe[k].kind = "ready" =>
              /\ k = 1 /\ pipe[k].id \in 0..Len(log)
              /\ start # None => pipe[k].id = eventCursor
          /\ pipe[k].kind = "event" =>
              /\ pipe[k].id \in 1..Len(log)
              /\ \A i \in 1..Len(log) :
                   Origin < i /\ i <= pipe[k].id - 1 => OnItsWay(i, k)
      BY <3>1 DEF StreamInv, InFlight, CoveredUpTo
    <3> QED  BY <1>7, <3>1, <3>2
  <2>2. CASE k > Len(pipe) /\ k <= Len(pipe) + n
    <3> DEFINE j == k - Len(pipe)
    <3>1. j \in 1..n /\ k = Len(pipe) + j
      BY <1>2, <1>3, <2>2
    <3> HIDE DEF j
    <3>2. pipe'[k] = Msg("event", after + j)
      BY <1>2, <3>1
    <3>3. pipe'[k].kind = "event" /\ pipe'[k].id = after + j
      BY <3>2 DEF Msg
    <3>4. after + j \in 1..Len(log)
      BY <1>2, <1>3, <3>1
    <3>5. ASSUME NEW i \in 1..Len(log), Origin < i, i <= pipe'[k].id - 1
          PROVE  OnItsWay(i, k)'
      <4>1. n \in Nat /\ after \in Nat /\ Len(pipe) \in Nat /\ i \in Nat
        BY <1>2, <1>3, <3>5
      <4>2. i <= after + j - 1
        BY <3>1, <3>3, <3>5, <4>1
      <4>3. k \in Nat /\ k > Len(pipe) /\ i <= after + n
        BY <2>2, <3>1, <4>1, <4>2
      <4>4. k > Len(pipe) + i - after
        BY <3>1, <4>1, <4>2
      <4> QED  BY <1>8, <3>5, <4>3, <4>4
    <3>6. pipe'[k].id \in 1..Len(log) /\ pipe'[k].kind # "ready"
      BY <3>3, <3>4
    <3> QED  BY <3>5, <3>6
  <2>3. CASE k > Len(pipe) + n
    BY <1>2, <2>3 DEF Msg
  <2> QED  BY <1>2, <1>3, <2>1, <2>2, <2>3
<1>11. after' \in 0..Len(log) /\ CoveredUpTo(after, Len(pipe) + 1)'
  <2>1. PICK l \in Nat : l = Len(pipe') + 1
    BY <1>3
  <2>2. ASSUME NEW i \in 1..Len(log), Origin < i, i <= after + n
        PROVE  OnItsWay(i, l)'
    <3>1. /\ n \in Nat /\ after \in Nat /\ Len(pipe) \in Nat /\ i \in Nat
          /\ Len(pipe') \in Nat /\ Len(pipe') >= Len(pipe) + n
      BY <1>2, <1>3, <2>2
    <3>2. l > Len(pipe) + i - after /\ l > Len(pipe)
      BY <2>1, <2>2, <3>1
    <3> QED  BY <1>8, <2>2, <3>2
  <2>3. CoveredUpTo(after, l)'
    BY <1>1, <1>2, <1>6, <2>2 DEF CoveredUpTo
  <2> QED  BY <1>2, <1>3, <2>1, <2>3 DEF CoveredUpTo, OnItsWay
<1>12. InFlight'
  BY <1>1, <1>6, <1>10, <1>11 DEF InFlight, CoveredUpTo
<1>13. (start = None => BeforeReady)'
  BY <1>1, <1>2, <1>3, <1>5 DEF StreamInv, BeforeReady
<1>14. ClientCursors'
  BY <1>1 DEF StreamInv, ClientCursors, SeenUpTo
<1> QED  BY <1>4, <1>12, <1>13, <1>14 DEF StreamInv


(* The handler ends: nothing is said of it any more. *)
LEMMA DeadlineKeeps ==
  ASSUME StreamInv, Deadline
  PROVE  StreamInv'
<1> DEFINE m == Msg("eof", 0)
<1>1. /\ conn = "open" /\ conn' = "ended" /\ pipe' = Append(pipe, m)
      /\ UNCHANGED <<log, expiring, after, polled, lastEventId, streamReady,
                     eventCursor, notifiedTasks, start, seen, told, cursorLost,
                     asked, settings, permission, changes, drops>>
  BY DEF Deadline, serverVars, handlerVars, clientVars, auxVars
<1>2. m \in Message /\ m.kind = "eof"
  BY DEF Msg, Message
<1> HIDE DEF m
<1>3. /\ pipe \in Seq(Message) /\ pipe' \in Seq(Message) /\ Len(pipe) \in Nat
      /\ Len(pipe') = Len(pipe) + 1 /\ pipe'[Len(pipe) + 1] = m
      /\ \A k \in 1..Len(pipe) : pipe'[k] = pipe[k]
  BY <1>1, <1>2 DEF StreamInv, TypeOK
<1>4. TypeOK'
  BY <1>1, <1>3 DEF StreamInv, TypeOK, ConnStates
<1>5. start = None => 1 \in 1..Len(pipe)
  BY <1>1, <1>3 DEF StreamInv, BeforeReady
<1>6. Origin' = Origin
  BY <1>1, <1>3, <1>5 DEF Origin
<1>7. ASSUME NEW n, NEW k \in Nat, CoveredUpTo(n, k)
      PROVE  CoveredUpTo(n, k)'
  <2> SUFFICES ASSUME NEW i \in 1..Len(log), Origin < i, i <= n
               PROVE  OnItsWay(i, k)'
    BY <1>1, <1>6 DEF CoveredUpTo
  <2>1. OnItsWay(i, k)
    BY <1>7 DEF CoveredUpTo
  <2>2. CASE i \in seen
    BY <1>1, <2>2 DEF OnItsWay
  <2>3. ASSUME NEW j \in 1..Len(pipe), j < k, pipe[j] = Msg("event", i)
        PROVE  OnItsWay(i, k)'
    <3>1. j \in 1..Len(pipe') /\ pipe'[j] = Msg("event", i)
      BY <1>3, <2>3
    <3> QED  BY <2>3, <3>1 DEF OnItsWay
  <2> QED  BY <2>1, <2>2, <2>3 DEF OnItsWay
<1>8. ASSUME NEW k \in 1..Len(pipe')
      PROVE  (/\ pipe[k].kind = "ready" =>
                   /\ k = 1 /\ pipe[k].id \in 0..Len(log)
                   /\ start # None => pipe[k].id = eventCursor
              /\ pipe[k].kind = "event" =>
                   pipe[k].id \in 1..Len(log) /\ CoveredUpTo(pipe[k].id - 1, k))'
  <2>1. CASE k = Len(pipe) + 1
    BY <1>2, <1>3, <2>1
  <2>2. CASE k \in 1..Len(pipe)
    <3>1. /\ pipe[k].kind = "ready" =>
               /\ k = 1 /\ pipe[k].id \in 0..Len(log)
               /\ start # None => pipe[k].id = eventCursor
          /\ pipe[k].kind = "event" =>
               pipe[k].id \in 1..Len(log) /\ CoveredUpTo(pipe[k].id - 1, k)
      BY <2>2 DEF StreamInv, InFlight
    <3>2. PICK n : n = pipe[k].id - 1
      OBVIOUS
    <3>3. pipe[k].kind = "event" => CoveredUpTo(n, k)'
      BY <1>7, <2>2, <3>1, <3>2
    <3>4. pipe'[k] = pipe[k]
      BY <1>3, <2>2
    <3>5. pipe[k].kind = "event" => CoveredUpTo(pipe[k].id - 1, k)'
      BY <3>2, <3>3, <3>4 DEF CoveredUpTo
    <3> QED  BY <1>1, <3>1, <3>4, <3>5
  <2> QED  BY <1>3, <2>1, <2>2
<1>9. InFlight'
  BY <1>1, <1>8 DEF InFlight
<1>10. (start = None => BeforeReady)'
  BY <1>1, <1>3, <1>5 DEF StreamInv, BeforeReady
<1>11. ClientCursors'
  BY <1>1 DEF StreamInv, ClientCursors, SeenUpTo
<1> QED  BY <1>4, <1>9, <1>10, <1>11 DEF StreamInv

(* Nothing is in flight after the source was closed. *)
LEMMA ClosedKeeps ==
  ASSUME StreamInv, pipe' = <<>>, lastEventId' = None, after' = 0,
         conn' = "waiting" \/ (conn' = "requested" /\ asked' = eventCursor),
         TypeOK', UNCHANGED <<log, eventCursor, start, seen>>
  PROVE  StreamInv'
<1>1. Len(pipe') = 0
  OBVIOUS
<1>2. InFlight'
  BY <1>1 DEF InFlight
<1> QED  BY <1>2 DEF StreamInv, BeforeReady, ClientCursors, SeenUpTo

(* onerror, from the end of the stream or a lost connection. *)
LEMMA ErrorKeeps ==
  ASSUME StreamInv, StreamEnds \/ Drop
  PROVE  StreamInv'
<1>1. /\ conn' = "waiting" /\ pipe' = <<>> /\ lastEventId' = None /\ after' = 0
      /\ polled' = FALSE /\ drops' \in {drops, drops + 1}
      /\ UNCHANGED <<log, expiring, streamReady, eventCursor, notifiedTasks,
                     start, seen, told, cursorLost, asked, settings, permission,
                     changes>>
  BY DEF StreamEnds, Drop, onerror, NoHandler, serverVars, auxVars
<1>2. /\ conn' \in ConnStates /\ lastEventId' \in Cursor /\ after' \in Nat
      /\ drops' \in Nat /\ pipe' \in Seq(Message)
  BY <1>1 DEF StreamInv, TypeOK, ConnStates, Cursor
<1>3. TypeOK'
  BY <1>1, <1>2 DEF StreamInv, TypeOK
<1> QED  BY <1>1, <1>3, ClosedKeeps

(* A new source asks for what follows the cursor. *)
LEMMA ConnectKeeps ==
  ASSUME StreamInv, Reconnect \/ \E s \in Settings : SettingsChange(s)
  PROVE  StreamInv'
<1>1. /\ conn' = "requested" /\ asked' = eventCursor /\ pipe' = <<>>
      /\ lastEventId' = None /\ streamReady' = FALSE /\ after' = 0
      /\ polled' = FALSE
      /\ UNCHANGED <<log, expiring, eventCursor, notifiedTasks, start, seen,
                     told, cursorLost, permission, drops>>
  BY DEF Reconnect, SettingsChange, connect, NoHandler, serverVars, auxVars
<1>2. settings' \in Settings /\ changes' \in Nat
  BY DEF Reconnect, SettingsChange, StreamInv, TypeOK
<1>3. /\ conn' \in ConnStates /\ lastEventId' \in Cursor /\ after' \in Nat
      /\ pipe' \in Seq(Message)
  BY <1>1 DEF ConnStates, Cursor
<1>4. TypeOK'
  BY <1>1, <1>2, <1>3 DEF StreamInv, TypeOK
<1> QED  BY <1>1, <1>4, ClosedKeeps


----------------------------------------------------------------------------
(* The client takes the next message. *)

(* What was on its way before a message of the tail still is, or has come. *)
LEMMA TailInFlight ==
  ASSUME StreamInv, conn \in {"open", "ended"}, pipe # <<>>, pipe' = Tail(pipe),
         UNCHANGED <<log, conn, after>>, start' = Origin, start' # None,
         seen \subseteq seen', Head(pipe).kind = "event" => Head(pipe).id \in seen'
  PROVE  InFlight'
<1>1. pipe \in Seq(Message) /\ Len(pipe) \in Nat
  BY DEF StreamInv, TypeOK
<1>2. /\ Head(pipe) = pipe[1] /\ 1 \in 1..Len(pipe)
      /\ pipe' \in Seq(Message) /\ Len(pipe') = Len(pipe) - 1
      /\ \A k \in 1..Len(pipe') : k + 1 \in 1..Len(pipe) /\ pipe'[k] = pipe[k + 1]
  BY <1>1, TailMessages
<1>3. Origin' = Origin
  BY DEF Origin
<1>4. ASSUME NEW n, NEW k \in Nat, CoveredUpTo(n, k + 1)
      PROVE  CoveredUpTo(n, k)'
  <2> SUFFICES ASSUME NEW i \in 1..Len(log), Origin < i, i <= n
               PROVE  OnItsWay(i, k)'
    BY <1>3 DEF CoveredUpTo
  <2>1. OnItsWay(i, k + 1)
    BY <1>4 DEF CoveredUpTo
  <2>2. CASE i \in seen
    BY <2>2 DEF OnItsWay
  <2>3. ASSUME NEW j \in 1..Len(pipe), j < k + 1, pipe[j] = Msg("event", i)
        PROVE  OnItsWay(i, k)'
    <3>1. CASE j = 1
      <4>1. Head(pipe).kind = "event" /\ Head(pipe).id = i
        BY <1>2, <2>3, <3>1 DEF Msg
      <4> QED  BY <4>1 DEF OnItsWay
    <3>2. CASE j # 1
      <4> DEFINE l == j - 1
      <4>1. l \in 1..Len(pipe') /\ l < k /\ j = l + 1
        BY <1>1, <1>2, <2>3, <3>2
      <4> HIDE DEF l
      <4>2. pipe'[l] = Msg("event", i)
        BY <1>2, <2>3, <4>1
      <4> QED  BY <4>1, <4>2 DEF OnItsWay
    <3> QED  BY <3>1, <3>2
  <2> QED  BY <2>1, <2>2, <2>3 DEF OnItsWay
<1>5. ASSUME NEW k \in 1..Len(pipe')
      PROVE  (/\ pipe[k].kind = "ready" =>
                   /\ k = 1 /\ pipe[k].id \in 0..Len(log)
                   /\ start # None => pipe[k].id = eventCursor
              /\ pipe[k].kind = "event" =>
                   pipe[k].id \in 1..Len(log) /\ CoveredUpTo(pipe[k].id - 1, k))'
  <2>1. k + 1 \in 1..Len(pipe) /\ pipe'[k] = pipe[k + 1] /\ k \in Nat /\ k + 1 # 1
    BY <1>1, <1>2
  <2>2. /\ pipe[k + 1].kind # "ready"
        /\ pipe[k + 1].kind = "event" =>
             /\ pipe[k + 1].id \in 1..Len(log)
             /\ CoveredUpTo(pipe[k + 1].id - 1, k + 1)
    BY <2>1 DEF StreamInv, InFlight
  <2>3. PICK n : n = pipe[k + 1].id - 1
    OBVIOUS
  <2>4. pipe[k + 1].kind = "event" => CoveredUpTo(n, k)'
    BY <1>4, <2>1, <2>2, <2>3
  <2>5. pipe[k + 1].kind = "event" => CoveredUpTo(pipe[k].id - 1, k)'
    BY <2>1, <2>3, <2>4 DEF CoveredUpTo
  <2> QED  BY <2>1, <2>2, <2>5
<1>6. conn = "open" => after \in 0..Len(log) /\ CoveredUpTo(after, Len(pipe) + 1)'
  <2> SUFFICES ASSUME conn = "open"
               PROVE  after \in 0..Len(log) /\ CoveredUpTo(after, Len(pipe) + 1)'
    OBVIOUS
  <2>1. after \in 0..Len(log) /\ CoveredUpTo(after, Len(pipe) + 1)
    BY DEF StreamInv, InFlight
  <2>2. PICK n : n = after
    OBVIOUS
  <2> PICK k \in Nat : k = Len(pipe)
    BY <1>1
  <2>3. CoveredUpTo(n, k)'
    BY <1>4, <2>1, <2>2
  <2>4. k = Len(pipe') + 1
    BY <1>1, <1>2, <2>2
  <2> QED  BY <2>1, <2>2, <2>3, <2>4 DEF CoveredUpTo, OnItsWay
<1> QED  BY <1>5, <1>6 DEF InFlight

(* stream.ready: the first one fixes the start, later ones repeat the cursor. *)
LEMMA ReadyKeeps ==
  ASSUME StreamInv, Receive, markReady(Head(pipe))
  PROVE  StreamInv'
<1> DEFINE m == Head(pipe)
<1>1. /\ conn \in {"open", "ended"} /\ pipe # <<>> /\ pipe' = Tail(pipe)
      /\ m.kind = "ready" /\ eventCursor' = m.id /\ streamReady' = TRUE
      /\ start' = IF start = None THEN m.id ELSE start
      /\ UNCHANGED <<log, expiring, after, polled, lastEventId, notifiedTasks,
                     seen, told, cursorLost, conn, asked, settings, permission,
                     changes, drops>>
  BY DEF Receive, markReady, serverVars, handlerVars
<1>2. /\ m = pipe[1] /\ 1 \in 1..Len(pipe) /\ m \in Message
      /\ pipe' \in Seq(Message)
  BY <1>1, TailMessages DEF StreamInv, TypeOK
<1>3. m.id \in 0..Len(log) /\ (start # None => m.id = eventCursor)
  BY <1>1, <1>2 DEF StreamInv, InFlight
<1>4. m.id \in Nat /\ Len(log) \in Nat
  BY <1>2 DEF Message, StreamInv, TypeOK
<1>5. start' = Origin /\ start' # None /\ start' \in 0..Len(log)
  BY <1>1, <1>2, <1>3, <1>4, StreamAssumption DEF Origin, StreamInv, ClientCursors
<1>6. InFlight'
  BY <1>1, <1>5, TailInFlight
<1>7. TypeOK'
  <2>1. start' \in Cursor /\ eventCursor' \in Cursor
    BY <1>1, <1>4, <1>5 DEF Cursor
  <2> QED  BY <1>1, <1>2, <2>1 DEF StreamInv, TypeOK
<1>8. CASE start = None
  <2>1. lastEventId' = None
    BY <1>1, <1>8 DEF StreamInv, BeforeReady
  <2>2. SeenUpTo(eventCursor)'
    BY <1>1, <1>4, <1>8 DEF SeenUpTo
  <2>3. ClientCursors'
    BY <1>1, <1>3, <1>5, <2>1, <2>2 DEF ClientCursors
  <2> QED  BY <1>5, <1>6, <1>7, <2>3 DEF StreamInv
<1>9. CASE start # None
  <2>1. eventCursor' = eventCursor /\ start' = start
    BY <1>1, <1>3, <1>9
  <2>2. ClientCursors'
    BY <1>1, <2>1 DEF StreamInv, ClientCursors, SeenUpTo
  <2> QED  BY <1>5, <1>6, <1>7, <2>2 DEF StreamInv
<1> QED  BY <1>8, <1>9

(* The key of an event that is announced. *)
LEMMA TaskKeys ==
  ASSUME NEW e \in Events, e.type = "task.updated"
  PROVE  <<e.task, e.status>> \in Keys \X Statuses
<1>1. OtherEvent.type = "batch.updated"
  BY DEF OtherEvent
<1>2. e \in TaskEvents
  BY <1>1 DEF Events
<1> QED  BY <1>2 DEF TaskEvents

(* An event: everything before it has been received, and now it is too. *)
LEMMA EventKeeps ==
  ASSUME StreamInv, Receive, onEvent(Head(pipe))
  PROVE  StreamInv'
<1> DEFINE m == Head(pipe)
<1>1. /\ conn \in {"open", "ended"} /\ pipe # <<>> /\ pipe' = Tail(pipe)
      /\ m.kind = "event" /\ lastEventId' = m.id /\ rememberCursor(m.id)
      /\ notifyTask(m.id) /\ seen' = seen \union {m.id}
      /\ UNCHANGED <<log, expiring, after, polled, streamReady, start, conn,
                     asked, settings, permission, changes, drops>>
  BY DEF Receive, onEvent, serverVars, handlerVars
<1>2. /\ m = pipe[1] /\ 1 \in 1..Len(pipe) /\ m \in Message
      /\ pipe' \in Seq(Message)
  BY <1>1, TailMessages DEF StreamInv, TypeOK
<1>3. m.id \in 1..Len(log) /\ CoveredUpTo(m.id - 1, 1)
  BY <1>1, <1>2 DEF StreamInv, InFlight
<1>4. m.id \in Nat /\ Len(log) \in Nat
  BY <1>2 DEF Message, StreamInv, TypeOK
<1>5. start # None
  BY <1>1, <1>2 DEF StreamInv, BeforeReady
<1>6. start \in Nat /\ start' = Origin /\ Origin = start
  BY <1>1, <1>5 DEF Origin, StreamInv, ClientCursors
<1>7. InFlight'
  BY <1>1, <1>5, <1>6, TailInFlight
<1>8. eventCursor' = m.id /\ cursorLost' = cursorLost
  <2>1. m.id # None
    BY <1>4, StreamAssumption
  <2> QED  BY <1>1, <2>1 DEF rememberCursor, StreamInv, TypeOK
<1>9. notifiedTasks' \subseteq Keys \X Statuses /\ told' \subseteq Nat
  <2>1. log[m.id] \in Events
    BY <1>3 DEF StreamInv, TypeOK
  <2> QED
    BY <1>1, <1>4, <2>1, TaskKeys
       DEF notifyTask, sendBrowserNotification, StreamInv, TypeOK
<1>10. TypeOK'
  <2>1. /\ lastEventId' \in Cursor /\ eventCursor' \in Cursor
        /\ seen' \subseteq Nat
    BY <1>1, <1>4, <1>8 DEF Cursor, StreamInv, TypeOK
  <2> QED  BY <1>1, <1>2, <1>8, <1>9, <2>1 DEF StreamInv, TypeOK
<1>11. ASSUME NEW i \in 1..Len(log), start < i, i <= m.id
       PROVE  i \in seen'
  <2>1. CASE i = m.id
    BY <1>1, <2>1
  <2>2. CASE i # m.id
    <3>1. OnItsWay(i, 1)
      BY <1>3, <1>4, <1>6, <1>11, <2>2 DEF CoveredUpTo
    <3> QED  BY <1>1, <3>1 DEF OnItsWay
  <2> QED  BY <2>1, <2>2
<1>12. ClientCursors'
  BY <1>1, <1>3, <1>4, <1>5, <1>8, <1>11 DEF ClientCursors, SeenUpTo, StreamInv
<1> QED  BY <1>1, <1>5, <1>7, <1>10, <1>12 DEF StreamInv

(* The warning goes back to the last event of this source, or to the         *)
(* beginning of the log.                                                       *)
LEMMA ExpiringKeeps ==
  ASSUME StreamInv, Receive, onExpiring(Head(pipe))
  PROVE  StreamInv'
<1> DEFINE m == Head(pipe)
<1>1. /\ conn \in {"open", "ended"} /\ pipe # <<>> /\ pipe' = Tail(pipe)
      /\ m.kind = "expiring"
      /\ eventCursor' = IF lastEventId = None THEN 0 ELSE lastEventId
      /\ cursorLost' = (cursorLost \/ lastEventId = None)
      /\ UNCHANGED <<log, expiring, after, polled, lastEventId, streamReady,
                     notifiedTasks, start, seen, told, conn, asked, settings,
                     permission, changes, drops>>
  BY DEF Receive, onExpiring, rememberCursor, serverVars, handlerVars
<1>2. m = pipe[1] /\ 1 \in 1..Len(pipe) /\ pipe' \in Seq(Message)
  BY <1>1, TailMessages DEF StreamInv, TypeOK
<1>3. start # None
  BY <1>1, <1>2 DEF StreamInv, BeforeReady
<1>4. start' = Origin
  BY <1>1, <1>3 DEF Origin
<1>5. InFlight'
  BY <1>1, <1>3, <1>4, TailInFlight
<1>6. TypeOK'
  <2>1. eventCursor' \in Cursor /\ cursorLost' \in BOOLEAN
    BY <1>1 DEF Cursor, StreamInv, TypeOK
  <2> QED  BY <1>1, <1>2, <2>1 DEF StreamInv, TypeOK
<1>7. eventCursor' \in 0..Len(log) /\ SeenUpTo(eventCursor)'
  <2>1. Len(log) \in Nat
    BY DEF StreamInv, TypeOK
  <2>2. CASE lastEventId = None
    BY <1>1, <2>1, <2>2 DEF SeenUpTo
  <2>3. CASE lastEventId # None
    BY <1>1, <2>3 DEF SeenUpTo, StreamInv, ClientCursors
  <2> QED  BY <2>2, <2>3
<1>8. ClientCursors'
  BY <1>1, <1>7 DEF ClientCursors, SeenUpTo, StreamInv
<1> QED  BY <1>1, <1>3, <1>5, <1>6, <1>8 DEF StreamInv


----------------------------------------------------------------------------
(* Every step keeps the invariant. *)
LEMMA StreamStep ==
  ASSUME StreamInv, [Next]_vars
  PROVE  StreamInv'
<1>1. CASE \E e \in Events : Emit(e)
  BY <1>1, EmitKeeps
<1>2. CASE SessionNearsEnd \/ \E answer \in {"granted", "denied"} :
                                enableBrowserNotifications(answer)
  <2>1. UNCHANGED <<log, handlerVars, clientVars, start, seen, conn, asked, pipe>>
    BY <1>2 DEF SessionNearsEnd, enableBrowserNotifications, auxVars, serverVars
  <2>2. /\ expiring' \in BOOLEAN /\ permission' \in {"default", "granted", "denied"}
        /\ UNCHANGED <<told, cursorLost, settings, changes, drops>>
    BY <1>2 DEF SessionNearsEnd, enableBrowserNotifications, auxVars, serverVars,
                requestBrowserNotificationPermission, StreamInv, TypeOK
  <2>3. TypeOK'
    BY <2>1, <2>2 DEF StreamInv, TypeOK, handlerVars, clientVars
  <2> QED  BY <2>1, <2>3, OtherKeepsStream
<1>3. CASE Accept
  BY <1>3, AcceptKeeps
<1>4. CASE Poll
  BY <1>4, PollKeeps
<1>5. CASE Deadline
  BY <1>5, DeadlineKeeps
<1>6. CASE Receive
  BY <1>6, ReadyKeeps, EventKeeps, ExpiringKeeps DEF Receive
<1>7. CASE StreamEnds \/ Drop
  BY <1>7, ErrorKeeps
<1>8. CASE Reconnect \/ \E s \in Settings : SettingsChange(s)
  BY <1>8, ConnectKeeps
<1>9. CASE UNCHANGED vars
  <2>1. UNCHANGED <<log, handlerVars, clientVars, start, seen, conn, asked, pipe>>
    BY <1>9 DEF vars, serverVars, auxVars
  <2>2. TypeOK'
    BY <1>9 DEF vars, serverVars, auxVars, handlerVars, clientVars, StreamInv, TypeOK
  <2> QED  BY <2>1, <2>2, OtherKeepsStream
<1> QED  BY <1>1, <1>2, <1>3, <1>4, <1>5, <1>6, <1>7, <1>8, <1>9 DEF Next

(* The page opens without a cursor and with nothing in flight. *)
LEMMA StreamInit ==
  ASSUME Init
  PROVE  StreamInv
<1>1. /\ log = History /\ expiring \in BOOLEAN /\ conn = "requested"
      /\ asked = None /\ after = 0 /\ polled = FALSE /\ pipe = <<>>
      /\ lastEventId = None /\ streamReady = FALSE /\ eventCursor = None
      /\ notifiedTasks = {} /\ permission = "default" /\ start = None
      /\ seen = {} /\ told = {} /\ cursorLost = FALSE /\ changes = 0 /\ drops = 0
      /\ settings = [notifySuccess |-> TRUE, notifyFirstFailure |-> TRUE]
  BY DEF Init
<1>2. /\ settings \in Settings /\ pipe \in Seq(Message) /\ Len(pipe) = 0
      /\ None \in Cursor /\ conn \in ConnStates
  BY <1>1 DEF Settings, Cursor, ConnStates
<1>3. TypeOK
  BY <1>1, <1>2, StreamAssumption DEF TypeOK
<1>4. BeforeReady /\ ClientCursors
  BY <1>1 DEF BeforeReady, ClientCursors
<1>5. InFlight
  BY <1>1, <1>2 DEF InFlight
<1> QED  BY <1>3, <1>4, <1>5 DEF StreamInv

(* The inductive invariant holds. *)
THEOREM StreamCorrect == Spec => []StreamInv
BY StreamInit, StreamStep, PTL DEF Spec

(* The client's cursor skips no event: rememberCursor and markReady only set *)
(* it to positions up to which everything since the first stream.ready has    *)
(* been received, for any log, any batch size of the handler and any number   *)
(* of ends, breaks and restarts of the stream.                                 *)
THEOREM CursorSoundHolds == Spec => []CursorSound
<1>1. StreamInv => CursorSound
  BY DEF StreamInv, ClientCursors, SeenUpTo, CursorSound
<1> QED  BY <1>1, StreamCorrect, PTL


----------------------------------------------------------------------------
(* Notifications. *)

(* Steps that take nothing from the pipe and move no position backwards. *)
LEMMA OtherKeepsHistory ==
  ASSUME AfterHistory, Len(log') >= Len(log), Len(log) \in Nat, Len(log') \in Nat,
         Len(History) \in Nat,
         UNCHANGED <<eventCursor, told, cursorLost>>,
         lastEventId' \in {lastEventId, None},
         UNCHANGED <<conn, after, pipe>> \/ (conn' # "open" /\ pipe' = <<>>)
  PROVE  AfterHistory'
<1>1. CASE UNCHANGED <<conn, after, pipe>>
  BY <1>1 DEF AfterHistory
<1>2. CASE conn' # "open" /\ pipe' = <<>>
  <2>1. Len(pipe') = 0
    BY <1>2
  <2> QED  BY <1>2, <2>1 DEF AfterHistory
<1> QED  BY <1>1, <1>2

(* A step takes the position of the client or of the handler into the        *)
(* history only with a reset of the cursor.                                    *)
LEMMA HistoryStep ==
  ASSUME HistoryInv, [Next]_vars
  PROVE  AfterHistory'
<1>1. /\ StreamInv /\ AfterHistory /\ Len(log) \in Nat /\ Len(History) \in Nat
      /\ Len(pipe) \in Nat /\ pipe \in Seq(Message) /\ cursorLost \in BOOLEAN
  BY StreamAssumption DEF HistoryInv, StreamInv, TypeOK
<1>2. ASSUME NEW e \in Events, Emit(e)
      PROVE  AfterHistory'
  <2>1. Len(log') = Len(log) + 1
    BY <1>1, <1>2 DEF Emit, StreamInv, TypeOK
  <2>2. UNCHANGED <<eventCursor, told, cursorLost, lastEventId, conn, after, pipe>>
    BY <1>2 DEF Emit, handlerVars, clientVars, auxVars
  <2> QED  BY <1>1, <2>1, <2>2, OtherKeepsHistory
<1>3. CASE \/ SessionNearsEnd \/ UNCHANGED vars
           \/ \E answer \in {"granted", "denied"} : enableBrowserNotifications(answer)
  <2>1. UNCHANGED <<log, eventCursor, told, cursorLost, lastEventId, conn, after,
                    pipe>>
    BY <1>3 DEF SessionNearsEnd, enableBrowserNotifications, vars, serverVars,
                handlerVars, clientVars, auxVars
  <2> QED  BY <1>1, <2>1, OtherKeepsHistory
<1>4. CASE Accept
  <2>1. /\ conn = "requested" /\ asked = eventCursor
        /\ after' = FirstPosition /\ pipe' = <<Msg("ready", FirstPosition)>>
        /\ UNCHANGED <<log, eventCursor, told, cursorLost, lastEventId>>
    BY <1>1, <1>4
       DEF Accept, serverVars, clientVars, auxVars, StreamInv, ClientCursors
  <2>2. PICK n : n = FirstPosition
    OBVIOUS
  <2>3. cursorLost \/ n >= Len(History)
    BY <1>1, <2>1, <2>2 DEF FirstPosition, AfterHistory
  <2>4. Len(pipe') = 1 /\ pipe'[1].kind = "ready" /\ pipe'[1].id = n
    BY <2>1, <2>2 DEF Msg
  <2> QED  BY <1>1, <2>1, <2>2, <2>3, <2>4 DEF AfterHistory
<1>5. CASE Poll
  <2>1. /\ conn = "open" /\ conn' = conn
        /\ UNCHANGED <<log, eventCursor, told, cursorLost, lastEventId>>
    BY <1>5 DEF Poll, serverVars, clientVars, auxVars
  <2>2. PICK n \in Nat :
          /\ after' = after + n /\ after + n <= Len(log)
          /\ pipe' \in Seq(Message) /\ Len(pipe') >= Len(pipe) + n
          /\ \A k \in 1..Len(pipe) : pipe'[k] = pipe[k]
          /\ \A k \in 1..n : pipe'[Len(pipe) + k] = Msg("event", after + k)
          /\ \A k \in 1..Len(pipe') :
               k > Len(pipe) + n => pipe'[k] = Msg("expiring", 0)
    BY <1>1, <1>5, PollAppends
  <2>3. after \in Nat
    BY <1>1 DEF StreamInv, TypeOK
  <2>4. ASSUME ~cursorLost, NEW k \in 1..Len(pipe')
        PROVE  /\ pipe'[k].kind = "ready" => pipe'[k].id >= Len(History)
               /\ pipe'[k].kind = "event" => pipe'[k].id > Len(History)
    <3>1. CASE k <= Len(pipe)
      <4>1. k \in 1..Len(pipe) /\ pipe'[k] = pipe[k]
        BY <1>1, <2>2, <3>1
      <4> QED  BY <1>1, <2>4, <4>1 DEF AfterHistory
    <3>2. CASE k > Len(pipe) /\ k <= Len(pipe) + n
      <4> DEFINE j == k - Len(pipe)
      <4>1. j \in 1..n /\ k = Len(pipe) + j
        BY <1>1, <2>2, <3>2
      <4> HIDE DEF j
      <4> pipe'[k] = Msg("event", after + j)
        BY <2>2, <4>1
      <4>2. pipe'[k].kind = "event" /\ pipe'[k].id = after + j
        BY DEF Msg
      <4>3. after >= Len(History)
        BY <1>1, <2>1, <2>4 DEF AfterHistory
      <4> QED  BY <1>1, <2>2, <2>3, <4>1, <4>2, <4>3
    <3>3. CASE k > Len(pipe) + n
      BY <2>2, <3>3 DEF Msg
    <3> QED  BY <1>1, <2>2, <3>1, <3>2, <3>3
  <2> QED  BY <1>1, <2>1, <2>2, <2>3, <2>4 DEF AfterHistory
<1>6. CASE Deadline
  <2> DEFINE m == Msg("eof", 0)
  <2>1. /\ conn' = "ended" /\ pipe' = Append(pipe, m)
        /\ UNCHANGED <<log, eventCursor, told, cursorLost, lastEventId>>
    BY <1>6 DEF Deadline, serverVars, clientVars, auxVars
  <2>2. m.kind = "eof" /\ m \in Message
    BY DEF Msg, Message
  <2> HIDE DEF m
  <2>3. /\ Len(pipe') = Len(pipe) + 1 /\ pipe'[Len(pipe) + 1] = m
        /\ \A k \in 1..Len(pipe) : pipe'[k] = pipe[k]
    BY <1>1, <2>1, <2>2
  <2>4. \A k \in 1..Len(pipe') : k \in 1..Len(pipe) \/ k = Len(pipe) + 1
    BY <1>1, <2>3
  <2> QED  BY <1>1, <2>1, <2>2, <2>3, <2>4 DEF AfterHistory
<1>7. CASE StreamEnds \/ Drop \/ Reconnect \/ \E s \in Settings : SettingsChange(s)
  <2>1. /\ conn' # "open" /\ pipe' = <<>> /\ lastEventId' = None
        /\ UNCHANGED <<log, eventCursor, told, cursorLost>>
    BY <1>7 DEF StreamEnds, Drop, Reconnect, SettingsChange, onerror, connect,
                serverVars, auxVars
  <2> QED  BY <1>1, <2>1, OtherKeepsHistory
<1>8. CASE Receive
  <2> DEFINE m == Head(pipe)
  <2>1. /\ pipe # <<>> /\ pipe' = Tail(pipe)
        /\ markReady(m) \/ onEvent(m) \/ onExpiring(m)
        /\ UNCHANGED <<log, conn, after>>
    BY <1>8 DEF Receive, serverVars, handlerVars
  <2>2. /\ m = pipe[1] /\ m \in Message /\ 1 \in 1..Len(pipe)
        /\ \A k \in 1..Len(pipe') : k + 1 \in 1..Len(pipe) /\ pipe'[k] = pipe[k + 1]
    BY <1>1, <2>1, TailMessages
  <2>3. ASSUME ~cursorLost, NEW k \in 1..Len(pipe')
        PROVE  /\ pipe'[k].kind = "ready" => pipe'[k].id >= Len(History)
               /\ pipe'[k].kind = "event" => pipe'[k].id > Len(History)
    BY <1>1, <2>2, <2>3 DEF AfterHistory
  <2>4. /\ m.kind = "ready" => cursorLost \/ m.id >= Len(History)
        /\ m.kind = "event" => cursorLost \/ m.id > Len(History)
    BY <1>1, <2>2 DEF AfterHistory
  <2>5. m.id \in Nat
    BY <2>2 DEF Message
  <2>6. CASE markReady(m)
    <3>1. /\ m.kind = "ready" /\ eventCursor' = m.id
          /\ UNCHANGED <<lastEventId, told, cursorLost>>
      BY <2>6 DEF markReady
    <3> QED  BY <1>1, <2>1, <2>3, <2>4, <3>1 DEF AfterHistory
  <2>7. CASE onEvent(m)
    <3>1. m.kind = "event" /\ lastEventId' = m.id /\ eventCursor' = m.id
          /\ cursorLost' = cursorLost /\ told' \subseteq told \union {m.id}
      <4>1. m.id # None
        BY <2>5, StreamAssumption
      <4> QED  BY <1>1, <2>7, <4>1 DEF onEvent, rememberCursor, notifyTask,
                                       sendBrowserNotification
    <3> QED  BY <1>1, <2>1, <2>3, <2>4, <2>5, <3>1 DEF AfterHistory
  <2>8. CASE onExpiring(m)
    <3>1. /\ eventCursor' = IF lastEventId = None THEN 0 ELSE lastEventId
          /\ cursorLost' = (cursorLost \/ lastEventId = None)
          /\ UNCHANGED <<lastEventId, told>>
      BY <2>8 DEF onExpiring, rememberCursor
    <3> QED  BY <1>1, <2>1, <2>3, <3>1 DEF AfterHistory
  <2> QED  BY <2>1, <2>6, <2>7, <2>8
<1> QED  BY <1>2, <1>3, <1>4, <1>5, <1>6, <1>7, <1>8 DEF Next

(* A task that ended before the page was opened is announced by notifyTask    *)
(* only after a message without id has taken the cursor back (rememberCursor), *)
(* for any log and history.                                                    *)
THEOREM HistoryOnlyAfterResetHolds == Spec => []HistoryOnlyAfterReset
<1>1. Init => HistoryInv
  <2> SUFFICES ASSUME Init PROVE AfterHistory
    BY StreamInit DEF HistoryInv
  <2>1. /\ log = History /\ conn = "requested" /\ pipe = <<>> /\ told = {}
        /\ lastEventId = None /\ eventCursor = None /\ Len(pipe) = 0
    BY DEF Init
  <2>2. Len(History) \in Nat
    BY StreamAssumption
  <2> QED  BY <2>1, <2>2 DEF AfterHistory
<1>2. HistoryInv /\ [Next]_vars => HistoryInv'
  BY StreamStep, HistoryStep DEF HistoryInv
<1>3. HistoryInv => HistoryOnlyAfterReset
  BY DEF HistoryInv, AfterHistory, HistoryOnlyAfterReset
<1> QED  BY <1>1, <1>2, <1>3, PTL DEF Spec


================================================================================
