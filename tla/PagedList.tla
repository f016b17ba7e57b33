------------------------------- MODULE PagedList -------------------------------
(***************************************************************************)
(* One paged list of the web client: the requests of setFilter, movePage   *)
(* and refresh for one key of live.ts, the Pager under the list and the    *)
(* filter controls above it (ApplicationsPage, TasksPage, AlertsPage).     *)
(*                                                                         *)
(* Requests are neither cancelled nor ordered: each answer replaces the    *)
(* page when it arrives.  A cursor is the number of pages before it and    *)
(* the filters it was issued for; number 0 is no cursor (undefined or ""). *)
(* Whether more rows follow is the server's to say in every answer.        *)
(***************************************************************************)
EXTENDS Naturals, Sequences

CONSTANTS
  Queries,     \* texts of the search box, "" among them
  Tabs,        \* settings of the other controls, "all" among them
  Slots,       \* names of requests that may be in flight at once
  MaxPage,     \* bound on the pages of a list
  MaxActions,  \* bound on what the user does
  MaxRefresh   \* bound on refreshes

ASSUME ListAssumption ==
  /\ "" \in Queries /\ "all" \in Tabs
  /\ {MaxPage, MaxActions, MaxRefresh} \subseteq Nat

VARIABLES
  filter,      \* filters.current
  page,        \* the page shown
  flight,      \* requests in flight
  refreshing,  \* "idle", or "due": refresh() has yet to read this list
  query,       \* the search box
  timers,      \* texts whose 350 ms are not over, oldest first
  box,         \* auxiliary: what happened last to the search box
  overlap,     \* auxiliary: requests for this list have overlapped since it
               \* was last asked for its first page
  actions, refreshes

vars == <<filter, page, flight, refreshing, query, timers, box, overlap,
          actions, refreshes>>

Filter == [q: Queries, tab: Tabs]
NoFilter == [q |-> "", tab |-> "all"]
Cursors == [filter: Filter, no: Nat]
NoCursor == [filter |-> NoFilter, no |-> 0]
Page == [filter: Filter, cursor: Cursors, next: Cursors, history: Seq(Cursors),
         loading: BOOLEAN, error: BOOLEAN]

(* A request carries what its closure has captured: the parameters, and the *)
(* history that is installed with its answer.                                *)
Request == [kind: {"page", "refresh"}, filter: Filter, cursor: Cursors,
            history: Seq(Cursors)]
NoRequest == [kind |-> "none", filter |-> NoFilter, cursor |-> NoCursor,
              history |-> <<>>]
Free == {s \in Slots : flight[s] = NoRequest}
Quiet == Free = Slots

emptyPage == [filter |-> NoFilter, cursor |-> NoCursor, next |-> NoCursor,
              history |-> <<>>, loading |-> FALSE, error |-> FALSE]

Init ==
  /\ filter = NoFilter /\ page = emptyPage
  /\ flight = [s \in Slots |-> NoRequest]
  /\ refreshing = "idle"
  /\ query = "" /\ timers = <<>> /\ box = "typed"
  /\ overlap = FALSE
  /\ actions = 0 /\ refreshes = 0

----------------------------------------------------------------------------
(* Requests. *)

(* requestPage up to its await. *)
requestPage(f, c, h) ==
  /\ \E s \in Free :
       flight' = [flight EXCEPT ![s] = [kind |-> "page", filter |-> f,
                                        cursor |-> c, history |-> h]]
  /\ page' = [page EXCEPT !.loading = TRUE, !.error = FALSE]
  /\ overlap' = (~Quiet \/ (overlap /\ c # NoCursor))

(* Mutant of CursorAccepted: a cursor is not bound to its filters. *)
AnyCursorAccepted(r) == r.kind # "none"

(* The server refuses the cursor of other filters. *)
CursorAccepted(r) == r.cursor = NoCursor \/ r.cursor.filter = r.filter

(* The answer: rows of the request's filter at its cursor.  More rows may    *)
(* follow.                                                                    *)
Received(r, more) ==
  [filter |-> r.filter, cursor |-> r.cursor,
   next |-> IF more THEN [filter |-> r.filter, no |-> r.cursor.no + 1]
            ELSE NoCursor,
   history |-> r.history, loading |-> FALSE, error |-> FALSE]

Answer(s, more) ==
  /\ flight[s] # NoRequest /\ CursorAccepted(flight[s])
  /\ more => flight[s].cursor.no < MaxPage
  /\ flight' = [flight EXCEPT ![s] = NoRequest]
  /\ page' = Received(flight[s], more)
  /\ UNCHANGED <<filter, refreshing, query, timers, box, overlap, actions,
                 refreshes>>

(* The rows shown before stay, with the error. *)
Fail(s) ==
  /\ flight[s] # NoRequest
  /\ flight' = [flight EXCEPT ![s] = NoRequest]
  /\ page' = [page EXCEPT !.loading = FALSE, !.error = TRUE]
  /\ UNCHANGED <<filter, refreshing, query, timers, box, overlap, actions,
                 refreshes>>

(* refresh() flags the page when it starts and reads it when its turn comes, *)
(* with the filters of that moment and without a cursor.                      *)
RefreshStarts ==
  /\ refreshing = "idle" /\ \A s \in Slots : flight[s].kind # "refresh"
  /\ refreshes < MaxRefresh /\ refreshes' = refreshes + 1
  /\ refreshing' = "due"
  /\ page' = [page EXCEPT !.loading = TRUE, !.error = FALSE]
  /\ UNCHANGED <<filter, flight, query, timers, box, overlap, actions>>

RefreshReads ==
  /\ refreshing = "due" /\ refreshing' = "idle"
  /\ \E s \in Free :
       flight' = [flight EXCEPT ![s] = [kind |-> "refresh", filter |-> filter,
                                        cursor |-> NoCursor,
                                        history |-> <<>>]]
  /\ page' = [page EXCEPT !.loading = TRUE, !.error = FALSE]
  /\ overlap' = ~Quiet
  /\ UNCHANGED <<filter, query, timers, box, actions, refreshes>>

(* An earlier read of refresh() has failed: the session, which fails every  *)
(* page, or the applications, which leaves the flag of the other pages.       *)
RefreshEnds ==
  /\ refreshing = "due" /\ refreshing' = "idle"
  /\ \/ page' = page
     \/ page' = [page EXCEPT !.loading = FALSE, !.error = TRUE]
  /\ UNCHANGED <<filter, flight, query, timers, box, overlap, actions,
                 refreshes>>

----------------------------------------------------------------------------
(* The controls. *)

Acts == actions < MaxActions /\ actions' = actions + 1

(* Mutant of setFilter: the next refresh does not know of the filters. *)
setFilterOnce(f) ==
  /\ filter' = filter
  /\ requestPage(f, NoCursor, <<>>)

setFilter(f) ==
  /\ filter' = f
  /\ requestPage(f, NoCursor, <<>>)

(* Tabs, selects and, while nothing is loading, the rows per page. *)
chooseTab(t) ==
  /\ Acts
  /\ setFilter([filter EXCEPT !.tab = t])
  /\ UNCHANGED <<refreshing, query, timers, box, refreshes>>

(* Mutant of submitSearch: a text typed before the timer has fired is not   *)
(* searched for.                                                             *)
submitFirst(v) ==
  /\ Acts /\ v # query
  /\ query' = v /\ box' = "typed"
  /\ timers' = IF timers = <<>> THEN <<v>> ELSE timers
  /\ UNCHANGED <<filter, page, flight, refreshing, overlap, refreshes>>

(* A change of the search box.  The timer is kept on a function that every  *)
(* render makes anew, so that an earlier one is never cleared.               *)
submitSearch(v) ==
  /\ Acts /\ v # query
  /\ query' = v /\ box' = "typed"
  /\ timers' = Append(timers, v)
  /\ UNCHANGED <<filter, page, flight, refreshing, overlap, refreshes>>

TimerFires ==
  /\ timers # <<>> /\ timers' = Tail(timers)
  /\ setFilter([filter EXCEPT !.q = Head(timers)])
  /\ UNCHANGED <<refreshing, query, box, actions, refreshes>>

clearFilters ==
  /\ Acts
  /\ query' = "" /\ box' = "cleared"
  /\ setFilter(NoFilter)
  /\ UNCHANGED <<refreshing, timers, refreshes>>

(* The user leaves the page and comes back: the controls are new, the       *)
(* filters and the timers are not.                                           *)
Remount ==
  /\ Acts
  /\ query' = "" /\ box' = "remounted"
  /\ UNCHANGED <<filter, page, flight, refreshing, timers, overlap, refreshes>>

(* The buttons of the Pager. *)
PagerEnabled(direction) ==
  /\ ~page.loading
  /\ IF direction = "next" THEN page.next # NoCursor ELSE page.history # <<>>

movePage(direction) ==
  /\ Acts /\ PagerEnabled(direction)
  /\ IF direction = "next"
     THEN requestPage(filter, page.next, Append(page.history, page.cursor))
     ELSE LET n == Len(page.history)
          IN  requestPage(filter, page.history[n],
                          SubSeq(page.history, 1, n - 1))
  /\ UNCHANGED <<filter, refreshing, query, timers, box, refreshes>>

Next ==
  \/ \E s \in Slots : Fail(s) \/ \E more \in BOOLEAN : Answer(s, more)
  \/ RefreshStarts \/ RefreshReads \/ RefreshEnds
  \/ \E t \in Tabs : chooseTab(t)
  \/ \E v \in Queries : submitSearch(v)
  \/ TimerFires \/ clearFilters \/ Remount
  \/ \E direction \in {"next", "previous"} : movePage(direction)

Spec == Init /\ [][Next]_vars

----------------------------------------------------------------------------
TypeOK ==
  /\ filter \in Filter /\ page \in Page
  /\ flight \in [Slots -> Request \union {NoRequest}]
  /\ refreshing \in {"idle", "due"}
  /\ query \in Queries /\ timers \in Seq(Queries)
  /\ box \in {"typed", "cleared", "remounted"}
  /\ overlap \in BOOLEAN
  /\ actions \in Nat /\ refreshes \in Nat

(* The cursor of page n under filter f, and the way back from it. *)
PageCursor(f, n) == IF n = 0 THEN NoCursor ELSE [filter |-> f, no |-> n]
Trail(f, n) == [i \in 1..n |-> PageCursor(f, i - 1)]

(* In whatever order answers arrive, the page shown is coherent: the number *)
(* under the list is the number of the page, "previous" leads back through   *)
(* the pages of the same filters one by one, and "next" to the one after it. *)
PageCoherent ==
  /\ page.cursor = PageCursor(page.filter, page.cursor.no)
  /\ page.history = Trail(page.filter, page.cursor.no)
  /\ page.next \in {NoCursor, PageCursor(page.filter, page.cursor.no + 1)}

(* While requests do not overlap, the list shows what its filters say once  *)
(* it is at rest and shows no error.                                         *)
ShownIsCurrent ==
  Quiet /\ ~overlap /\ ~page.loading /\ ~page.error => page.filter = filter

(* Although every key starts a timer of its own, a list whose timers are    *)
(* over is filtered by the text that was typed last.                         *)
SearchSettles ==
  timers = <<>> /\ box = "typed" => filter.q = query

================================================================================
