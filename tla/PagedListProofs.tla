---------------------------- MODULE PagedListProofs ----------------------------
(***************************************************************************)
(* Proofs about PagedList: a page agrees with its own number and history,  *)
(* a list at rest with its filters, and the filters with the search box.   *)
(***************************************************************************)
EXTENDS PagedList, SequenceTheorems, TLAPS

(* A request leads to page r.cursor.no of the filters its cursor was issued  *)
(* for, with the way back from there, even when its own filters are others.   *)
RequestCoherent(r) ==
  /\ r.cursor = PageCursor(r.cursor.filter, r.cursor.no)
  /\ r.history = Trail(r.cursor.filter, r.cursor.no)

CoherentInv ==
  /\ TypeOK /\ PageCoherent
  /\ \A s \in Slots : RequestCoherent(flight[s])

(* Without overlaps there is one request at most, and it has the current     *)
(* filters.                                                                    *)
CurrentInv ==
  /\ TypeOK
  /\ ~overlap =>
       /\ \A s \in Slots : flight[s] # NoRequest =>
            /\ flight[s].filter = filter
            /\ \A t \in Slots \ {s} : flight[t] = NoRequest
       /\ ~page.loading /\ ~page.error => page.filter = filter

(* The youngest timer holds the text in the box. *)
SearchInv ==
  /\ TypeOK
  /\ box = "typed" => IF timers = <<>> THEN filter.q = query
                      ELSE timers[Len(timers)] = query

----------------------------------------------------------------------------
(* Cursors and trails. *)

(* The members of a trail. *)
LEMMA TrailFacts ==
  ASSUME NEW f \in Filter, NEW n \in Nat
  PROVE  /\ PageCursor(f, n) \in Cursors /\ PageCursor(f, n).no = n
         /\ n > 0 => PageCursor(f, n).filter = f
         /\ Trail(f, n) \in Seq(Cursors) /\ Len(Trail(f, n)) = n
         /\ \A i \in 1..n : Trail(f, n)[i] = PageCursor(f, i - 1)
<1>1. NoFilter \in Filter /\ NoCursor \in Cursors /\ NoCursor.no = 0
  BY ListAssumption DEF NoFilter, Filter, NoCursor, Cursors
<1>2. \A m \in Nat : PageCursor(f, m) \in Cursors /\ PageCursor(f, m).no = m
  BY <1>1 DEF PageCursor, Cursors
<1>3. n > 0 => PageCursor(f, n).filter = f
  BY DEF PageCursor
<1>4. \A i \in 1..n : i - 1 \in Nat /\ PageCursor(f, i - 1) \in Cursors
  BY <1>2
<1>5. Trail(f, n) = [i \in 1..n |-> PageCursor(f, i - 1)]
  BY DEF Trail
<1>6. Trail(f, n) \in Seq(Cursors) /\ Len(Trail(f, n)) = n
  BY <1>4, <1>5
<1> QED  BY <1>2, <1>3, <1>5, <1>6

(* A trail of length 0 is the same for all filters. *)
LEMMA FirstPage ==
  ASSUME NEW f \in Filter
  PROVE  PageCursor(f, 0) = NoCursor /\ Trail(f, 0) = <<>>
<1>1. Trail(f, 0) \in Seq(Cursors) /\ Len(Trail(f, 0)) = 0
  BY TrailFacts
<1> QED  BY <1>1 DEF PageCursor

(* One page on, and one page back. *)
LEMMA TrailMoves ==
  ASSUME NEW f \in Filter, NEW n \in Nat
  PROVE  /\ Append(Trail(f, n), PageCursor(f, n)) = Trail(f, n + 1)
         /\ n > 0 => SubSeq(Trail(f, n), 1, n - 1) = Trail(f, n - 1)
<1> DEFINE t == Trail(f, n)
           c == PageCursor(f, n)
<1>1. /\ t \in Seq(Cursors) /\ Len(t) = n /\ c \in Cursors
      /\ \A i \in 1..n : t[i] = PageCursor(f, i - 1)
  BY TrailFacts
<1>2. /\ Trail(f, n + 1) \in Seq(Cursors) /\ Len(Trail(f, n + 1)) = n + 1
      /\ \A i \in 1..(n + 1) : Trail(f, n + 1)[i] = PageCursor(f, i - 1)
  BY TrailFacts
<1>3. PageCursor(f, (n + 1) - 1) = c
  OBVIOUS
<1> HIDE DEF t, c
<1>4. /\ Append(t, c) \in Seq(Cursors) /\ Len(Append(t, c)) = n + 1
      /\ \A i \in 1..n : Append(t, c)[i] = t[i]
      /\ Append(t, c)[n + 1] = c
  BY <1>1
<1>5. \A i \in 1..(n + 1) : Append(t, c)[i] = Trail(f, n + 1)[i]
  <2> TAKE i \in 1..(n + 1)
  <2>1. CASE i = n + 1
    BY <1>2, <1>3, <1>4, <2>1
  <2>2. CASE i # n + 1
    <3>1. i \in 1..n
      BY <2>2
    <3> QED  BY <1>1, <1>2, <1>4, <3>1
  <2> QED  BY <2>1, <2>2
<1>6. Append(t, c) = Trail(f, n + 1)
  BY <1>2, <1>4, <1>5
<1>7. ASSUME n > 0 PROVE SubSeq(t, 1, n - 1) = Trail(f, n - 1)
  <2>1. n - 1 \in Nat
    BY <1>7
  <2>2. /\ Trail(f, n - 1) \in Seq(Cursors) /\ Len(Trail(f, n - 1)) = n - 1
        /\ \A i \in 1..(n - 1) : Trail(f, n - 1)[i] = PageCursor(f, i - 1)
    BY <2>1, TrailFacts
  <2>3. /\ SubSeq(t, 1, n - 1) \in Seq(Cursors) /\ Len(SubSeq(t, 1, n - 1)) = n - 1
        /\ \A i \in 1..(n - 1) : SubSeq(t, 1, n - 1)[i] = t[i]
    BY <1>1, <2>1
  <2>4. \A i \in 1..(n - 1) : SubSeq(t, 1, n - 1)[i] = Trail(f, n - 1)[i]
    BY <1>1, <2>1, <2>2, <2>3
  <2> QED  BY <2>2, <2>3, <2>4
<1> QED  BY <1>6, <1>7 DEF t, c

----------------------------------------------------------------------------
(* Types. *)

(* The flags of a page, and nothing else of it. *)
LEMMA FlagsOnly ==
  ASSUME NEW p \in Page, NEW a \in BOOLEAN, NEW b \in BOOLEAN
  PROVE  LET q == [p EXCEPT !.loading = a, !.error = b]
         IN  /\ q \in Page /\ q.loading = a /\ q.error = b
             /\ q.filter = p.filter /\ q.cursor = p.cursor
             /\ q.next = p.next /\ q.history = p.history
BY DEF Page

(* Requests. *)
LEMMA RequestTypes ==
  /\ NoFilter \in Filter /\ NoCursor \in Cursors /\ <<>> \in Seq(Cursors)
  /\ \A f \in Filter, q \in Queries, t \in Tabs :
       [f EXCEPT !.q = q] \in Filter /\ [f EXCEPT !.tab = t] \in Filter
  /\ \A r \in Request : /\ r.filter \in Filter /\ r.cursor \in Cursors
                         /\ r.history \in Seq(Cursors) /\ r # NoRequest
  /\ \A k \in {"page", "refresh"}, f \in Filter, c \in Cursors,
        h \in Seq(Cursors) :
       [kind |-> k, filter |-> f, cursor |-> c, history |-> h] \in Request
<1>1. NoFilter \in Filter /\ NoCursor \in Cursors
  BY ListAssumption DEF NoFilter, Filter, NoCursor, Cursors
<1>2. \A f \in Filter, q \in Queries, t \in Tabs :
       [f EXCEPT !.q = q] \in Filter /\ [f EXCEPT !.tab = t] \in Filter
  BY DEF Filter
<1>3. \A r \in Request : /\ r.filter \in Filter /\ r.cursor \in Cursors
                         /\ r.history \in Seq(Cursors) /\ r # NoRequest
  BY DEF Request, NoRequest
<1>4. \A k \in {"page", "refresh"}, f \in Filter, c \in Cursors,
        h \in Seq(Cursors) :
       [kind |-> k, filter |-> f, cursor |-> c, history |-> h] \in Request
  BY DEF Request
<1> QED  BY <1>1, <1>2, <1>3, <1>4

(* requestPage puts its request into a free slot and flags the page. *)
LEMMA RequestPlaced ==
  ASSUME TypeOK, NEW f \in Filter, NEW c \in Cursors, NEW h \in Seq(Cursors),
         requestPage(f, c, h)
  PROVE  /\ \E s \in Free :
              flight' = [flight EXCEPT ![s] = [kind |-> "page", filter |-> f,
                                               cursor |-> c, history |-> h]]
         /\ flight' \in [Slots -> Request \union {NoRequest}]
         /\ page' \in Page /\ page'.loading = TRUE
         /\ page'.filter = page.filter /\ page'.cursor = page.cursor
         /\ page'.next = page.next /\ page'.history = page.history
         /\ overlap' = (~Quiet \/ (overlap /\ c # NoCursor))
<1>1. PICK s \in Free :
        flight' = [flight EXCEPT ![s] = [kind |-> "page", filter |-> f,
                                         cursor |-> c, history |-> h]]
  BY DEF requestPage
<1>2. [kind |-> "page", filter |-> f, cursor |-> c, history |-> h] \in Request
  BY RequestTypes
<1>3. flight' \in [Slots -> Request \union {NoRequest}]
  BY <1>1, <1>2 DEF TypeOK, Free
<1>4. page' = [page EXCEPT !.loading = TRUE, !.error = FALSE] /\ page \in Page
  BY DEF requestPage, TypeOK
<1>5. /\ page' \in Page /\ page'.loading = TRUE
      /\ page'.filter = page.filter /\ page'.cursor = page.cursor
      /\ page'.next = page.next /\ page'.history = page.history
  BY <1>4, FlagsOnly
<1> QED  BY <1>1, <1>3, <1>5 DEF requestPage

(* The answer of the server. *)
LEMMA ReceivedTypes ==
  ASSUME NEW r \in Request, NEW more \in BOOLEAN
  PROVE  /\ Received(r, more) \in Page
         /\ Received(r, more).filter = r.filter
         /\ Received(r, more).cursor = r.cursor
         /\ Received(r, more).history = r.history
         /\ Received(r, more).next \in
              {NoCursor, [filter |-> r.filter, no |-> r.cursor.no + 1]}
<1>1. r.filter \in Filter /\ r.cursor \in Cursors /\ r.history \in Seq(Cursors)
  BY RequestTypes
<1>2. [filter |-> r.filter, no |-> r.cursor.no + 1] \in Cursors
  BY <1>1 DEF Cursors
<1> QED  BY <1>1, <1>2, RequestTypes DEF Received, Page

(* What movePage asks for: the next page with one more on the way back, or   *)
(* the last page on the way back.                                              *)
Asked(f, c, h) ==
  /\ f = filter
  /\ \/ /\ page.next # NoCursor /\ c = page.next
        /\ h = Append(page.history, page.cursor)
     \/ /\ page.history # <<>> /\ c = page.history[Len(page.history)]
        /\ h = SubSeq(page.history, 1, Len(page.history) - 1)

(* movePage is a request for one of the two. *)
LEMMA Moves ==
  ASSUME TypeOK, NEW direction \in {"next", "previous"}, movePage(direction)
  PROVE  \E f \in Filter, c \in Cursors, h \in Seq(Cursors) :
           Asked(f, c, h) /\ requestPage(f, c, h)
<1>1. /\ filter \in Filter /\ page.next \in Cursors /\ page.cursor \in Cursors
      /\ page.history \in Seq(Cursors)
  BY DEF TypeOK, Page
<1>2. CASE direction = "next"
  <2> DEFINE h == Append(page.history, page.cursor)
  <2>1. h \in Seq(Cursors)
    BY <1>1
  <2>2. Asked(filter, page.next, h) /\ requestPage(filter, page.next, h)
    BY <1>2 DEF movePage, PagerEnabled, Asked
  <2> QED  BY <1>1, <2>1, <2>2
<1>3. CASE direction = "previous"
  <2> DEFINE n == Len(page.history)
             h == SubSeq(page.history, 1, n - 1)
  <2>1. page.history # <<>> /\ requestPage(filter, page.history[n], h)
    BY <1>3 DEF movePage, PagerEnabled
  <2>2. n \in 1..n /\ n \in Nat
    BY <1>1, <2>1
  <2>3. h \in Seq(Cursors) /\ page.history[n] \in Cursors
    BY <1>1, <2>2
  <2>4. Asked(filter, page.history[n], h)
    BY <2>1 DEF Asked
  <2> QED  BY <1>1, <2>1, <2>3, <2>4
<1> QED  BY <1>2, <1>3

(* What a step does to the page and its requests: a request for the first    *)
(* page of new filters or for a neighbour of the page shown, the read of      *)
(* refresh(), the end of a request, or flags only.                             *)
Loading == [page EXCEPT !.loading = TRUE, !.error = FALSE]
Broken == [page EXCEPT !.loading = FALSE, !.error = TRUE]

Requesting ==
  \E f \in Filter, c \in Cursors, h \in Seq(Cursors) :
    /\ requestPage(f, c, h)
    /\ \/ c = NoCursor /\ h = <<>> /\ filter' = f
       \/ Asked(f, c, h) /\ filter' = filter

Ending == \E s \in Slots : Fail(s) \/ \E more \in BOOLEAN : Answer(s, more)

FlagsStep ==
  UNCHANGED <<filter, flight, overlap>> /\ page' \in {page, Loading, Broken}

LEMMA StepKinds ==
  ASSUME TypeOK, [Next]_vars
  PROVE  Requesting \/ RefreshReads \/ Ending \/ FlagsStep
<1>1. filter \in Filter /\ timers \in Seq(Queries)
  BY DEF TypeOK
<1>2. ASSUME NEW f \in Filter, setFilter(f) PROVE Requesting
  BY <1>2, RequestTypes DEF setFilter, Requesting
<1>3. ASSUME NEW t \in Tabs, chooseTab(t) PROVE Requesting
  <2> DEFINE g == [filter EXCEPT !.tab = t]
  <2>1. g \in Filter
    BY <1>1 DEF Filter
  <2>2. setFilter(g)
    BY <1>3 DEF chooseTab
  <2> HIDE DEF g
  <2> QED  BY <2>1, <2>2, RequestTypes DEF setFilter, Requesting
<1>4. CASE TimerFires
  <2> DEFINE g == [filter EXCEPT !.q = Head(timers)]
  <2>1. timers # <<>> /\ setFilter(g)
    BY <1>4 DEF TimerFires
  <2>2. Head(timers) \in Queries
    BY <1>1, <2>1
  <2>3. g \in Filter
    BY <1>1, <2>2 DEF Filter
  <2> HIDE DEF g
  <2> QED  BY <2>1, <2>3, RequestTypes DEF setFilter, Requesting
<1>5. CASE clearFilters
  BY <1>2, <1>5, RequestTypes DEF clearFilters
<1>6. ASSUME NEW direction \in {"next", "previous"}, movePage(direction)
      PROVE  Requesting
  <2>1. filter' = filter
    BY <1>6 DEF movePage
  <2>2. PICK f \in Filter, c \in Cursors, h \in Seq(Cursors) :
          Asked(f, c, h) /\ requestPage(f, c, h)
    BY <1>6, Moves
  <2> QED  BY <2>1, <2>2 DEF Requesting
<1>7. CASE RefreshStarts \/ RefreshEnds \/ Remount \/ UNCHANGED vars
  BY <1>7 DEF RefreshStarts, RefreshEnds, Remount, vars, FlagsStep, Loading, Broken
<1>8. ASSUME NEW v \in Queries, submitSearch(v) PROVE FlagsStep
  BY <1>8 DEF submitSearch, FlagsStep
<1> QED  BY <1>3, <1>4, <1>5, <1>6, <1>7, <1>8 DEF Next, Ending

(* Types of the page and its requests. *)
LEMMA PageTypes ==
  ASSUME TypeOK, Requesting \/ RefreshReads \/ Ending \/ FlagsStep
  PROVE  /\ filter' \in Filter /\ page' \in Page /\ overlap' \in BOOLEAN
         /\ flight' \in [Slots -> Request \union {NoRequest}]
<1>1. /\ filter \in Filter /\ page \in Page /\ overlap \in BOOLEAN
      /\ flight \in [Slots -> Request \union {NoRequest}]
  BY DEF TypeOK
<1>2. Loading \in Page /\ Broken \in Page
  BY <1>1, FlagsOnly DEF Loading, Broken
<1>3. CASE Requesting
  <2>1. PICK f \in Filter, c \in Cursors, h \in Seq(Cursors) :
          requestPage(f, c, h) /\ filter' \in {f, filter}
    BY <1>3 DEF Requesting
  <2>2. /\ flight' \in [Slots -> Request \union {NoRequest}] /\ page' \in Page
        /\ overlap' = (~Quiet \/ (overlap /\ c # NoCursor))
    BY <2>1, RequestPlaced
  <2> QED  BY <1>1, <2>1, <2>2
<1>4. CASE RefreshReads
  <2>1. PICK s \in Slots :
          flight' = [flight EXCEPT ![s] = [kind |-> "refresh", filter |-> filter,
                                           cursor |-> NoCursor, history |-> <<>>]]
    BY <1>4 DEF RefreshReads, Free
  <2>2. [kind |-> "refresh", filter |-> filter, cursor |-> NoCursor,
         history |-> <<>>] \in Request
    BY <1>1, RequestTypes
  <2>3. flight' \in [Slots -> Request \union {NoRequest}]
    BY <1>1, <2>1, <2>2
  <2> QED  BY <1>1, <1>2, <1>4, <2>3 DEF RefreshReads, Loading
<1>5. ASSUME NEW s \in Slots, Fail(s)
      PROVE  /\ filter' \in Filter /\ page' \in Page /\ overlap' \in BOOLEAN
             /\ flight' \in [Slots -> Request \union {NoRequest}]
  BY <1>1, <1>2, <1>5 DEF Fail, Broken
<1>6. ASSUME NEW s \in Slots, NEW more \in BOOLEAN, Answer(s, more)
      PROVE  /\ filter' \in Filter /\ page' \in Page /\ overlap' \in BOOLEAN
             /\ flight' \in [Slots -> Request \union {NoRequest}]
  <2>1. flight[s] \in Request
    BY <1>1, <1>6 DEF Answer
  <2>2. page' \in Page
    BY <1>6, <2>1, ReceivedTypes DEF Answer
  <2> QED  BY <1>1, <1>6, <2>2 DEF Answer
<1>7. CASE FlagsStep
  BY <1>1, <1>2, <1>7 DEF FlagsStep
<1> QED  BY <1>3, <1>4, <1>5, <1>6, <1>7 DEF Ending

(* Every step keeps the types. *)
LEMMA TypeStep ==
  ASSUME TypeOK, [Next]_vars
  PROVE  TypeOK'
<1>1. /\ filter' \in Filter /\ page' \in Page /\ overlap' \in BOOLEAN
      /\ flight' \in [Slots -> Request \union {NoRequest}]
  BY StepKinds, PageTypes
<1>2. /\ refreshing \in {"idle", "due"} /\ query \in Queries
      /\ timers \in Seq(Queries) /\ box \in {"typed", "cleared", "remounted"}
      /\ actions \in Nat /\ refreshes \in Nat
  BY DEF TypeOK
<1> DEFINE Rest ==
     /\ refreshing' \in {"idle", "due"} /\ query' \in Queries
     /\ box' \in {"typed", "cleared", "remounted"}
     /\ actions' \in Nat /\ refreshes' \in Nat /\ timers' \in Seq(Queries)
<1> SUFFICES Rest
  BY <1>1 DEF TypeOK
<1>3. ASSUME NEW s \in Slots, Fail(s) \/ \E more \in BOOLEAN : Answer(s, more)
      PROVE  Rest
  <2>1. UNCHANGED <<refreshing, query, timers, box, actions, refreshes>>
    BY <1>3 DEF Fail, Answer
  <2> QED  BY <1>2, <2>1
<1>4. CASE RefreshStarts \/ RefreshReads \/ RefreshEnds
  <2>1. /\ UNCHANGED <<query, timers, box, actions>>
        /\ refreshing' \in {"idle", "due"} /\ refreshes' \in {refreshes, refreshes + 1}
    BY <1>4 DEF RefreshStarts, RefreshReads, RefreshEnds
  <2>2. refreshes' \in Nat
    BY <1>2, <2>1
  <2> QED  BY <1>2, <2>1, <2>2
<1>5. ASSUME NEW v \in Queries, submitSearch(v)
      PROVE  Rest
  <2>1. /\ query' = v /\ box' = "typed" /\ timers' = Append(timers, v)
        /\ actions' = actions + 1 /\ UNCHANGED <<refreshing, refreshes>>
    BY <1>5 DEF submitSearch, Acts
  <2>2. timers' \in Seq(Queries)
    BY <1>2, <2>1, AppendProperties
  <2>3. actions' \in Nat
    BY <1>2, <2>1
  <2> QED  BY <1>2, <2>1, <2>2, <2>3
<1>6. CASE TimerFires
  <2>1. /\ timers # <<>> /\ timers' = Tail(timers)
        /\ UNCHANGED <<refreshing, query, box, actions, refreshes>>
    BY <1>6 DEF TimerFires
  <2>2. timers' \in Seq(Queries)
    BY <1>2, <2>1, HeadTailProperties
  <2> QED  BY <1>2, <2>1, <2>2
<1>7. CASE clearFilters \/ Remount
  <2>1. /\ query' \in Queries /\ box' \in {"cleared", "remounted"}
        /\ actions' = actions + 1 /\ UNCHANGED <<refreshing, timers, refreshes>>
    BY <1>7, ListAssumption, Zenon DEF clearFilters, Remount, Acts
  <2>2. actions' \in Nat
    BY <1>2, <2>1
  <2> QED  BY <1>2, <2>1, <2>2
<1>8. CASE \/ \E t \in Tabs : chooseTab(t)
           \/ \E direction \in {"next", "previous"} : movePage(direction)
  <2>1. /\ actions' = actions + 1
        /\ UNCHANGED <<refreshing, query, timers, box, refreshes>>
    BY <1>8 DEF chooseTab, movePage, Acts
  <2>2. actions' \in Nat
    BY <1>2, <2>1
  <2> QED  BY <1>2, <2>1, <2>2
<1>9. CASE UNCHANGED vars
  BY <1>2, <1>9 DEF vars
<1> QED
  BY <1>3, <1>4, <1>5, <1>6, <1>7, <1>8, <1>9 DEF Next

(* Types of the initial state. *)
LEMMA TypeInit ==
  ASSUME Init
  PROVE  TypeOK /\ flight = [s \in Slots |-> NoRequest] /\ page = emptyPage
<1>1. emptyPage \in Page
  BY RequestTypes DEF emptyPage, Page
<1>2. <<>> \in Seq(Queries)
  OBVIOUS
<1>3. query \in Queries
  BY ListAssumption, Zenon DEF Init
<1>4. /\ filter = NoFilter /\ page = emptyPage /\ refreshing = "idle"
      /\ flight = [s \in Slots |-> NoRequest] /\ timers = <<>> /\ box = "typed"
      /\ overlap = FALSE /\ actions = 0 /\ refreshes = 0
  BY Zenon DEF Init
<1> QED  BY <1>1, <1>2, <1>3, <1>4, RequestTypes DEF TypeOK

----------------------------------------------------------------------------
(* Coherence. *)

(* Where movePage leads from a coherent page. *)
LEMMA AskedCoherent ==
  ASSUME CoherentInv, NEW f \in Filter, NEW c \in Cursors, NEW h \in Seq(Cursors),
         Asked(f, c, h)
  PROVE  c = PageCursor(c.filter, c.no) /\ h = Trail(c.filter, c.no)
<1> DEFINE g == page.filter
           n == page.cursor.no
<1>1. g \in Filter /\ n \in Nat /\ page.history \in Seq(Cursors)
  BY DEF CoherentInv, TypeOK, Page, Cursors
<1>2. /\ page.cursor = PageCursor(g, n) /\ page.history = Trail(g, n)
      /\ page.next \in {NoCursor, PageCursor(g, n + 1)}
  BY DEF CoherentInv, PageCoherent
<1> HIDE DEF g, n
<1>3. CASE /\ page.next # NoCursor /\ c = page.next
           /\ h = Append(page.history, page.cursor)
  <2>1. c = PageCursor(g, n + 1) /\ h = Trail(g, n + 1)
    BY <1>1, <1>2, <1>3, TrailMoves
  <2>2. n + 1 \in Nat /\ n + 1 > 0
    BY <1>1
  <2>3. c.no = n + 1 /\ c.filter = g
    BY <1>1, <2>1, <2>2, TrailFacts
  <2> QED  BY <2>1, <2>3
<1>4. CASE /\ page.history # <<>> /\ c = page.history[Len(page.history)]
           /\ h = SubSeq(page.history, 1, Len(page.history) - 1)
  <2>1. Len(page.history) = n
    BY <1>1, <1>2, TrailFacts
  <2>2. n > 0
    BY <1>1, <1>4, <2>1
  <2> DEFINE m == n - 1
  <2>3. m \in Nat /\ n \in 1..n
    BY <1>1, <2>2
  <2>4. c = PageCursor(g, m) /\ h = Trail(g, m)
    <3>1. Trail(g, n)[n] = PageCursor(g, n - 1)
      BY <1>1, <2>3, TrailFacts
    <3>2. SubSeq(Trail(g, n), 1, n - 1) = Trail(g, n - 1)
      BY <1>1, <2>2, TrailMoves
    <3> QED  BY <1>2, <1>4, <2>1, <3>1, <3>2
  <2> HIDE DEF m
  <2>5. c.no = m /\ (m > 0 => c.filter = g)
    BY <1>1, <2>3, <2>4, TrailFacts
  <2>6. CASE m > 0
    BY <2>4, <2>5, <2>6
  <2>7. CASE m = 0
    <3>1. c.filter \in Filter
      BY DEF Cursors
    <3> QED  BY <1>1, <2>4, <2>5, <2>7, <3>1, FirstPage
  <2> QED  BY <2>3, <2>6, <2>7
<1> QED  BY <1>3, <1>4 DEF Asked

(* A coherent request, once accepted, gives a coherent page. *)
LEMMA ReceivedCoherent ==
  ASSUME NEW r \in Request, NEW more \in BOOLEAN, RequestCoherent(r),
         CursorAccepted(r)
  PROVE  LET p == Received(r, more)
         IN  /\ p.cursor = PageCursor(p.filter, p.cursor.no)
             /\ p.history = Trail(p.filter, p.cursor.no)
             /\ p.next \in {NoCursor, PageCursor(p.filter, p.cursor.no + 1)}
<1> DEFINE p == Received(r, more)
<1>1. /\ r.filter \in Filter /\ r.cursor \in Cursors /\ r.cursor.no \in Nat
      /\ r.cursor.filter \in Filter
  BY RequestTypes DEF Cursors
<1>2. /\ p.filter = r.filter /\ p.cursor = r.cursor /\ p.history = r.history
      /\ p.next \in {NoCursor, [filter |-> r.filter, no |-> r.cursor.no + 1]}
  BY ReceivedTypes
<1>3. PageCursor(r.filter, r.cursor.no + 1)
      = [filter |-> r.filter, no |-> r.cursor.no + 1]
  BY <1>1 DEF PageCursor
<1> HIDE DEF p
<1>4. CASE r.cursor = NoCursor
  <2>1. r.cursor.no = 0
    BY <1>4 DEF NoCursor
  <2>2. r.history = <<>>
    BY <1>1, <2>1, FirstPage DEF RequestCoherent
  <2> QED  BY <1>1, <1>2, <1>3, <1>4, <2>1, <2>2, FirstPage DEF p
<1>5. CASE r.cursor.filter = r.filter
  BY <1>2, <1>3, <1>5 DEF RequestCoherent, p
<1> QED  BY <1>4, <1>5 DEF CursorAccepted

(* A page of which only flags change. *)
LEMMA FlagsCoherent ==
  ASSUME PageCoherent, page'.filter = page.filter, page'.cursor = page.cursor,
         page'.next = page.next, page'.history = page.history
  PROVE  PageCoherent'
BY DEF PageCoherent

(* No request. *)
LEMMA NothingCoherent ==
  /\ RequestCoherent(NoRequest)
  /\ \A k, f : RequestCoherent([kind |-> k, filter |-> f, cursor |-> NoCursor,
                                history |-> <<>>])
<1>1. NoCursor.no = 0 /\ NoCursor.filter = NoFilter
  BY DEF NoCursor
<1>2. PageCursor(NoFilter, 0) = NoCursor /\ Trail(NoFilter, 0) = <<>>
  BY FirstPage, RequestTypes
<1> QED  BY <1>1, <1>2 DEF RequestCoherent, NoRequest

(* Every step keeps pages and requests coherent. *)
LEMMA CoherentStep ==
  ASSUME CoherentInv, [Next]_vars
  PROVE  CoherentInv'
<1>1. /\ TypeOK /\ PageCoherent /\ page \in Page
      /\ flight \in [Slots -> Request \union {NoRequest}]
      /\ \A s \in Slots : RequestCoherent(flight[s])
  BY DEF CoherentInv, TypeOK
<1>2. TypeOK'
  BY <1>1, TypeStep
<1>3. /\ Loading.filter = page.filter /\ Loading.cursor = page.cursor
      /\ Loading.next = page.next /\ Loading.history = page.history
      /\ Broken.filter = page.filter /\ Broken.cursor = page.cursor
      /\ Broken.next = page.next /\ Broken.history = page.history
  BY <1>1, FlagsOnly DEF Loading, Broken
<1>4. CASE Requesting
  <2>1. PICK f \in Filter, c \in Cursors, h \in Seq(Cursors) :
          /\ requestPage(f, c, h)
          /\ (c = NoCursor /\ h = <<>>) \/ Asked(f, c, h)
    BY <1>4 DEF Requesting
  <2> DEFINE r == [kind |-> "page", filter |-> f, cursor |-> c, history |-> h]
  <2>2. RequestCoherent(r)
    BY <2>1, AskedCoherent, NothingCoherent DEF RequestCoherent
  <2> HIDE DEF r
  <2>3. /\ PageCoherent'
        /\ \E s \in Free : flight' = [flight EXCEPT ![s] = r]
    BY <1>1, <2>1, RequestPlaced, FlagsCoherent DEF r
  <2>4. \A s \in Slots : RequestCoherent(flight'[s])
    BY <1>1, <2>2, <2>3 DEF Free
  <2> QED  BY <1>2, <2>3, <2>4 DEF CoherentInv, RequestCoherent
<1>5. CASE RefreshReads
  <2> DEFINE r == [kind |-> "refresh", filter |-> filter, cursor |-> NoCursor,
                   history |-> <<>>]
  <2>1. (\E s \in Free : flight' = [flight EXCEPT ![s] = r]) /\ page' = Loading
    BY <1>5 DEF RefreshReads, Loading
  <2>2. RequestCoherent(r)
    BY NothingCoherent
  <2> HIDE DEF r
  <2>3. \A s \in Slots : RequestCoherent(flight'[s])
    BY <1>1, <2>1, <2>2 DEF Free
  <2>4. PageCoherent'
    BY <1>1, <1>3, <2>1, FlagsCoherent
  <2> QED  BY <1>2, <2>3, <2>4 DEF CoherentInv, RequestCoherent
<1>6. ASSUME NEW s \in Slots, Fail(s) PROVE CoherentInv'
  <2>1. flight' = [flight EXCEPT ![s] = NoRequest] /\ page' = Broken
    BY <1>6 DEF Fail, Broken
  <2>2. \A t \in Slots : RequestCoherent(flight'[t])
    BY <1>1, <2>1, NothingCoherent
  <2>3. PageCoherent'
    BY <1>1, <1>3, <2>1, FlagsCoherent
  <2> QED  BY <1>2, <2>2, <2>3 DEF CoherentInv, RequestCoherent
<1>7. ASSUME NEW s \in Slots, NEW more \in BOOLEAN, Answer(s, more)
      PROVE  CoherentInv'
  <2> DEFINE r == flight[s]
  <2>1. /\ r # NoRequest /\ CursorAccepted(r)
        /\ flight' = [flight EXCEPT ![s] = NoRequest] /\ page' = Received(r, more)
    BY <1>7 DEF Answer
  <2>2. r \in Request /\ RequestCoherent(r)
    BY <1>1, <2>1
  <2>3. \A t \in Slots : RequestCoherent(flight'[t])
    BY <1>1, <2>1, NothingCoherent
  <2>4. PageCoherent'
    BY <2>1, <2>2, ReceivedCoherent DEF PageCoherent
  <2> QED  BY <1>2, <2>3, <2>4 DEF CoherentInv, RequestCoherent
<1>8. CASE FlagsStep
  <2>1. PageCoherent' /\ flight' = flight
    BY <1>1, <1>3, <1>8, FlagsCoherent DEF FlagsStep
  <2> QED  BY <1>1, <1>2, <2>1 DEF CoherentInv, RequestCoherent
<1> QED  BY <1>1, <1>4, <1>5, <1>6, <1>7, <1>8, StepKinds DEF Ending

(* In whatever order answers arrive, the page that requestPage installs is    *)
(* coherent: its number, the way back and the next cursor belong together,     *)
(* for any filters and any number of pages and of requests in flight.          *)
THEOREM PageCoherentHolds == Spec => []PageCoherent
<1>1. Init => CoherentInv
  <2> SUFFICES ASSUME Init PROVE CoherentInv
    OBVIOUS
  <2>1. TypeOK /\ flight = [s \in Slots |-> NoRequest] /\ page = emptyPage
    BY TypeInit
  <2>2. \A s \in Slots : RequestCoherent(flight[s])
    BY <2>1, NothingCoherent
  <2>3. /\ page.filter = NoFilter /\ page.cursor = NoCursor /\ page.history = <<>>
        /\ page.next = NoCursor /\ NoCursor.no = 0
    BY <2>1 DEF emptyPage, NoCursor
  <2>4. PageCoherent
    BY <2>3, FirstPage, RequestTypes DEF PageCoherent
  <2> QED  BY <2>1, <2>2, <2>4 DEF CoherentInv
<1>2. CoherentInv => PageCoherent
  BY DEF CoherentInv
<1> QED  BY <1>1, <1>2, CoherentStep, PTL DEF Spec

----------------------------------------------------------------------------
(* Currency. *)

(* A request that starts while no other is in flight is the only one. *)
LEMMA AloneInFlight ==
  ASSUME TypeOK, Quiet, NEW s \in Free, NEW r, flight' = [flight EXCEPT ![s] = r]
  PROVE  \A t \in Slots : /\ flight'[t] # NoRequest => t = s
                          /\ t = s => flight'[t] = r
<1>1. \A t \in Slots : flight[t] = NoRequest
  BY DEF Quiet, Free
<1> QED  BY <1>1 DEF TypeOK, Free

(* Every step keeps the request that does not overlap current. *)
LEMMA CurrentStep ==
  ASSUME CurrentInv, [Next]_vars
  PROVE  CurrentInv'
<1>1. /\ TypeOK /\ page \in Page /\ overlap \in BOOLEAN
      /\ flight \in [Slots -> Request \union {NoRequest}]
  BY DEF CurrentInv, TypeOK
<1>2. TypeOK'
  BY <1>1, TypeStep
<1>3. /\ Loading.filter = page.filter /\ Loading.loading = TRUE
      /\ Broken.filter = page.filter /\ Broken.error = TRUE
  BY <1>1, FlagsOnly DEF Loading, Broken
<1>4. ASSUME ~overlap PROVE
        /\ \A s \in Slots : flight[s] # NoRequest =>
             /\ flight[s].filter = filter
             /\ \A t \in Slots \ {s} : flight[t] = NoRequest
        /\ ~page.loading /\ ~page.error => page.filter = filter
  BY <1>4 DEF CurrentInv
<1> SUFFICES ASSUME ~overlap'
             PROVE  /\ \A s \in Slots : flight'[s] # NoRequest =>
                         /\ flight'[s].filter = filter'
                         /\ \A t \in Slots \ {s} : flight'[t] = NoRequest
                    /\ ~page'.loading /\ ~page'.error => page'.filter = filter'
  BY <1>2 DEF CurrentInv
<1>5. CASE Requesting
  <2>1. PICK f \in Filter, c \in Cursors, h \in Seq(Cursors) :
          requestPage(f, c, h) /\ filter' = f
    BY <1>5 DEF Requesting, Asked
  <2> DEFINE r == [kind |-> "page", filter |-> f, cursor |-> c, history |-> h]
  <2>2. r.filter = f
    OBVIOUS
  <2> HIDE DEF r
  <2>3. /\ \E s \in Free : flight' = [flight EXCEPT ![s] = r]
        /\ page'.loading = TRUE /\ Quiet
    BY <1>1, <2>1, RequestPlaced DEF r
  <2>4. PICK s \in Free : flight' = [flight EXCEPT ![s] = r]
    BY <2>3
  <2>5. \A t \in Slots : /\ flight'[t] # NoRequest => t = s
                         /\ t = s => flight'[t] = r
    BY <1>1, <2>3, <2>4, AloneInFlight
  <2> QED  BY <2>1, <2>2, <2>3, <2>5
<1>6. CASE RefreshReads
  <2> DEFINE r == [kind |-> "refresh", filter |-> filter, cursor |-> NoCursor,
                   history |-> <<>>]
  <2>1. r.filter = filter
    OBVIOUS
  <2>2. PICK s \in Free : flight' = [flight EXCEPT ![s] = r]
    BY <1>6 DEF RefreshReads
  <2>3. page' = Loading /\ Quiet /\ filter' = filter
    BY <1>6 DEF RefreshReads, Loading
  <2> HIDE DEF r
  <2>4. \A t \in Slots : /\ flight'[t] # NoRequest => t = s
                         /\ t = s => flight'[t] = r
    BY <1>1, <2>2, <2>3, AloneInFlight
  <2> QED  BY <1>3, <2>1, <2>3, <2>4
<1>7. ASSUME NEW s \in Slots, Fail(s)
      PROVE  /\ \A t \in Slots : flight'[t] # NoRequest =>
                  /\ flight'[t].filter = filter'
                  /\ \A u \in Slots \ {t} : flight'[u] = NoRequest
             /\ ~page'.loading /\ ~page'.error => page'.filter = filter'
  <2>1. /\ flight' = [flight EXCEPT ![s] = NoRequest] /\ page' = Broken
        /\ UNCHANGED <<filter, overlap>>
    BY <1>7 DEF Fail, Broken
  <2> QED  BY <1>1, <1>3, <1>4, <2>1
<1>8. ASSUME NEW s \in Slots, NEW more \in BOOLEAN, Answer(s, more)
      PROVE  /\ \A t \in Slots : flight'[t] # NoRequest =>
                  /\ flight'[t].filter = filter'
                  /\ \A u \in Slots \ {t} : flight'[u] = NoRequest
             /\ ~page'.loading /\ ~page'.error => page'.filter = filter'
  <2>1. /\ flight[s] # NoRequest /\ flight' = [flight EXCEPT ![s] = NoRequest]
        /\ page' = Received(flight[s], more) /\ UNCHANGED <<filter, overlap>>
    BY <1>8 DEF Answer
  <2>2. flight[s] \in Request
    BY <1>1, <2>1
  <2>3. page'.filter = flight[s].filter
    BY <2>1, <2>2, ReceivedTypes
  <2> QED  BY <1>1, <1>4, <2>1, <2>3
<1>9. CASE FlagsStep
  BY <1>3, <1>4, <1>9 DEF FlagsStep
<1> QED  BY <1>1, <1>5, <1>6, <1>7, <1>8, <1>9, StepKinds DEF Ending

(* A list whose requests do not overlap shows what its filters say once it is *)
(* at rest (setFilter, movePage, refresh), for any filters and pages.          *)
THEOREM ShownIsCurrentHolds == Spec => []ShownIsCurrent
<1>1. Init => CurrentInv
  <2> SUFFICES ASSUME Init PROVE CurrentInv
    OBVIOUS
  <2>1. TypeOK /\ flight = [s \in Slots |-> NoRequest] /\ page = emptyPage
    BY TypeInit
  <2>2. filter = NoFilter
    BY Zenon DEF Init
  <2>3. page.filter = NoFilter
    BY <2>1 DEF emptyPage
  <2> QED  BY <2>1, <2>2, <2>3 DEF CurrentInv
<1>2. CurrentInv => ShownIsCurrent
  BY DEF CurrentInv, ShownIsCurrent
<1> QED  BY <1>1, <1>2, CurrentStep, PTL DEF Spec

----------------------------------------------------------------------------
(* The search box. *)

(* Steps that leave the timers and the text filter alone, or the box behind. *)
LEMMA OtherKeepsSearch ==
  ASSUME SearchInv, TypeOK',
         box' # "typed" \/ (UNCHANGED <<box, query, timers>> /\ filter'.q = filter.q)
  PROVE  SearchInv'
BY DEF SearchInv

(* Every step keeps the text of the youngest timer that of the box. *)
LEMMA SearchStep ==
  ASSUME SearchInv, [Next]_vars
  PROVE  SearchInv'
<1>1. TypeOK /\ timers \in Seq(Queries) /\ filter \in Filter
  BY DEF SearchInv, TypeOK
<1>2. TypeOK'
  BY <1>1, TypeStep
<1>3. ASSUME NEW t \in Tabs, chooseTab(t) PROVE SearchInv'
  <2>1. filter' = [filter EXCEPT !.tab = t] /\ UNCHANGED <<box, query, timers>>
    BY <1>3 DEF chooseTab, setFilter
  <2>2. filter'.q = filter.q
    BY <1>1, <2>1 DEF Filter
  <2> QED  BY <1>2, <2>1, <2>2, OtherKeepsSearch
<1>4. ASSUME NEW v \in Queries, submitSearch(v) PROVE SearchInv'
  <2>1. query' = v /\ timers' = Append(timers, v)
    BY <1>4 DEF submitSearch
  <2>2. timers' # <<>> /\ timers'[Len(timers')] = v
    BY <1>1, <2>1, AppendProperties
  <2> QED  BY <1>2, <2>1, <2>2 DEF SearchInv
<1>5. CASE TimerFires
  <2>1. /\ timers # <<>> /\ timers' = Tail(timers) /\ UNCHANGED <<box, query>>
        /\ filter' = [filter EXCEPT !.q = Head(timers)]
    BY <1>5 DEF TimerFires, setFilter
  <2>2. /\ timers' \in Seq(Queries) /\ Len(timers') = Len(timers) - 1
        /\ \A i \in 1..Len(timers') : timers'[i] = timers[i + 1]
        /\ Len(timers) \in Nat \ {0} /\ Head(timers) = timers[1]
    BY <1>1, <2>1, HeadTailProperties
  <2>3. filter'.q = Head(timers)
    BY <1>1, <2>1 DEF Filter
  <2>4. box = "typed" => timers[Len(timers)] = query
    BY <2>1 DEF SearchInv
  <2>5. CASE timers' = <<>>
    <3>1. Len(timers) = 1
      BY <2>2, <2>5
    <3> QED  BY <1>2, <2>1, <2>2, <2>3, <2>4, <2>5, <3>1 DEF SearchInv
  <2>6. CASE timers' # <<>>
    <3>1. Len(timers') \in 1..Len(timers') /\ Len(timers') + 1 = Len(timers)
      BY <2>2, <2>6
    <3>2. timers'[Len(timers')] = timers[Len(timers)]
      BY <2>2, <3>1
    <3> QED  BY <1>2, <2>1, <2>4, <2>6, <3>2 DEF SearchInv
  <2> QED  BY <2>5, <2>6
<1>6. CASE clearFilters \/ Remount
  <2>1. box' # "typed"
    BY <1>6 DEF clearFilters, Remount
  <2> QED  BY <1>2, <2>1, OtherKeepsSearch
<1>7. CASE \/ RefreshStarts \/ RefreshReads \/ RefreshEnds \/ UNCHANGED vars
           \/ \E s \in Slots : Fail(s) \/ \E more \in BOOLEAN : Answer(s, more)
           \/ \E direction \in {"next", "previous"} : movePage(direction)
  <2>1. UNCHANGED <<filter, box, query, timers>>
    BY <1>7 DEF RefreshStarts, RefreshReads, RefreshEnds, vars, Fail, Answer, movePage
  <2> QED  BY <1>2, <2>1, OtherKeepsSearch
<1> QED  BY <1>3, <1>4, <1>5, <1>6, <1>7 DEF Next

(* Although submitSearch never clears a timer, the list ends up filtered by  *)
(* the text that was typed last, for any texts and any number of timers.       *)
THEOREM SearchSettlesHolds == Spec => []SearchSettles
<1>1. Init => SearchInv
  <2> SUFFICES ASSUME Init PROVE SearchInv
    OBVIOUS
  <2>1. timers = <<>> /\ filter.q = query
    BY Zenon DEF Init, NoFilter
  <2> QED  BY <2>1, TypeInit DEF SearchInv
<1>2. SearchInv => SearchSettles
  BY DEF SearchInv, SearchSettles
<1> QED  BY <1>1, <1>2, SearchStep, PTL DEF Spec


================================================================================
