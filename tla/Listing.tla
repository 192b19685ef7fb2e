------------------------------ MODULE Listing ------------------------------
(***************************************************************************)
(* Thread listings of one reader while threads are made, answered and      *)
(* retracted: the counters and the recent repliers a reply keeps           *)
(* (server/src/threads/create_reply.rs, create_thread.rs), the pages of    *)
(* the sorts new and active, and the scored pages of the sorts warm and    *)
(* trusted with their cursor and their list of threads already seen        *)
(* (threads/list_threads.rs, threads/common.rs).  Thread ids are integers, *)
(* ordered as the database orders them; times are seconds.                 *)
(***************************************************************************)
EXTENDS Integers, Sequences, FiniteSets

CONSTANTS
  Worlds,      \* the threads there are at the start: id -> thread, and the sort
  Me,          \* the reader
  Distance,    \* author -> trust distance from the reader; absent when untrusted
  Shows,       \* authors whose threads and replies the reader may see
  PageSize,    \* PAGE_SIZE
  CandLimit,   \* WARM_CANDIDATE_LIMIT
  CandMax,     \* WARM_CANDIDATE_MAX
  MaxSeen,     \* MAX_SEEN_IDS of the client
  Buffer,      \* RECENT_REPLIERS_BUFFER
  HalfRank,    \* WARM_HALFLIFE_RANK
  HalfReply,   \* WARM_HALFLIFE_REPLY_RANK
  Writers,     \* authors of what is written during the trip
  Spare,       \* ids of threads made during the trip
  MaxSecs,     \* bound on the clock
  MaxWrites,   \* bound on the writes during the trip
  MaxPages     \* bound on the pages of a trip

VARIABLES
  secs,
  shelf,    \* threads, with thread_recent_repliers
  pens,     \* replies that have read the clock and not yet committed
  writes,   \* count of writes
  trip,     \* the reader's way through the pages: got is what is rendered, again what the
            \* last page returned of it, passed the threads of a cursor's second that the
            \* cursor left out, and blind whether the page hid all of its rows
  stirred   \* history: threads made, answered or retracted since the first page

listVars == <<secs, shelf, pens, writes, trip, stirred>>

Ids == DOMAIN shelf
NoCursor == [ts |-> -1, id |-> -1]

ListInit ==
  /\ pens = {} /\ writes = 0 /\ stirred = {}
  /\ \E w \in Worlds :
       /\ secs = w.at /\ shelf = w.shelf
       /\ trip = [sort |-> w.sort, page |-> 0, cur |-> NoCursor, got |-> <<>>, rank |-> 0,
                  fetched |-> 0, shown |-> 0, again |-> {}, passed |-> {}, blind |-> FALSE, done |-> FALSE]

-----------------------------------------------------------------------------
(* Writers.                                                                *)

Touched(t) == IF trip.page = 0 THEN stirred ELSE stirred \union {t}
\* create_thread(): last_activity starts as created_at.
Thread(by, at) == [by |-> by, made |-> at, act |-> at, count |-> 0, retracted |-> FALSE, recent |-> <<>>]
Creates(t, by) ==
  /\ t \in Spare \ Ids /\ writes < MaxWrites
  /\ shelf' = [i \in Ids \union {t} |-> IF i = t THEN Thread(by, secs) ELSE shelf[i]]
  /\ stirred' = Touched(t) /\ writes' = writes + 1
  /\ UNCHANGED <<secs, pens, trip>>

\* create_reply() reads the clock before its transaction.
ReplyReads(t, by) ==
  /\ writes < MaxWrites
  /\ pens' = pens \union {[t |-> t, by |-> by, at |-> secs]} /\ writes' = writes + 1
  /\ UNCHANGED <<secs, shelf, trip, stirred>>
\* thread_recent_repliers: the ranks move up and the last one falls off.
Pushed(recent, p) ==
  SubSeq(<<[by |-> p.by, at |-> p.at]>> \o recent, 1, IF Len(recent) < Buffer THEN Len(recent) + 1 ELSE Buffer)
\* The counter, the activity and the ranks of the recent repliers move with the post.
ReplyCommits(p) ==
  /\ p \in pens
  /\ shelf' = [shelf EXCEPT ![p.t] =
       [@ EXCEPT !.count = @ + 1, !.act = p.at,
                 !.recent = Pushed(@, p)]]
  /\ pens' = pens \ {p} /\ stirred' = Touched(p.t)
  /\ UNCHANGED <<secs, writes, trip>>
\* A reply of another instance is projected as a post alone and moves nothing here.
Retracts(t) ==
  /\ writes < MaxWrites /\ ~shelf[t].retracted
  /\ shelf' = [shelf EXCEPT ![t].retracted = TRUE]
  /\ stirred' = Touched(t) /\ writes' = writes + 1
  /\ UNCHANGED <<secs, pens, trip>>
SecondPasses ==
  /\ secs < MaxSecs /\ secs' = secs + 1
  /\ UNCHANGED <<shelf, pens, writes, trip, stirred>>

-----------------------------------------------------------------------------
(* What every listing shares.                                              *)

\* A thread whose opening post is retracted and has no replies is not listed.
Hidden(t) == shelf[t].retracted /\ shelf[t].count = 0
Listed == {t \in Ids : ~Hidden(t)}
\* is_thread_visible().
Visible(t) == shelf[t].by = Me \/ shelf[t].by \in Shows
Taken(s, n) == SubSeq(s, 1, IF Len(s) < n THEN Len(s) ELSE n)
\* A strict order puts an element where the number of those before it says.
InOrder(S, Before(_, _)) ==
  LET place == {<<x, Cardinality({y \in S : Before(y, x)}) + 1>> : x \in S}
  IN [k \in 1 .. Cardinality(S) |-> (CHOOSE p \in place : p[2] = k)[1]] \o <<>>
\* Rust's sort_by() is stable: Before compares positions.
StableSort(s, Before(_, _)) ==
  LET order == InOrder(DOMAIN s, LAMBDA i, j : Before(i, j) \/ (i < j /\ ~Before(j, i)))
  IN [k \in DOMAIN s |-> s[order[k]]] \o <<>>

-----------------------------------------------------------------------------
(* sort=new and sort=active.                                               *)

Stamp(t) == IF trip.sort = "new" THEN shelf[t].made ELSE shelf[t].act
\* The WHERE clause of the cursor, and the ORDER BY.
After(t, c) == c = NoCursor \/ Stamp(t) < c.ts \/ (Stamp(t) = c.ts /\ t < c.id)
Earlier(t, u) ==
  \/ Stamp(t) > Stamp(u)
  \/ Stamp(t) = Stamp(u) /\ (shelf[t].made > shelf[u].made \/ (shelf[t].made = shelf[u].made /\ t > u))
ByTime == trip.sort \in {"new", "active"}
\* fetch_warm_candidates_all(), _room(): the cursor row is included.
Window(t, c) == c = NoCursor \/ shelf[t].act < c.ts \/ (shelf[t].act = c.ts /\ t <= c.id)
HasMore(rows) == Len(rows) > PageSize
\* loadMore() of the client renders what it has not rendered yet.
Got == {trip.got[k] : k \in DOMAIN trip.got}
Rendered(shown) == trip.got \o SelectSeq(shown, LAMBDA t : t \notin Got)
Repeated(shown) == {shown[k] : k \in DOMAIN shown} \intersect Got
PassedOver(shown, cur) ==
  {t \in Listed : /\ Visible(t) /\ cur # NoCursor /\ Stamp(t) = cur.ts
                  /\ ~(IF ByTime THEN After(t, cur) ELSE Window(t, cur))
                  /\ t \notin Got /\ ~\E k \in DOMAIN shown : shown[k] = t}
\* One row more than a page is read; the page is filtered after it is cut.
TimedPage ==
  LET rows == Taken(InOrder({t \in Listed : After(t, trip.cur)}, Earlier), PageSize + 1)
      shown == SelectSeq(Taken(rows, PageSize), Visible)
      cur == IF HasMore(rows) /\ shown # <<>>
             THEN [ts |-> Stamp(shown[Len(shown)]), id |-> shown[Len(shown)]] ELSE NoCursor
  IN /\ trip.sort \in {"new", "active"} /\ ~trip.done /\ trip.page < MaxPages
     /\ trip' = [trip EXCEPT !.page = @ + 1, !.cur = cur, !.got = Rendered(shown), !.again = Repeated(shown),
                             !.passed = @ \union PassedOver(shown, cur),
                             !.blind = HasMore(rows) /\ shown = <<>>, !.done = cur = NoCursor]
     /\ UNCHANGED <<secs, shelf, pens, writes, stirred>>

-----------------------------------------------------------------------------
(* sort=warm and sort=trusted.                                             *)

\* The client sends back the ids it has rendered last.
SeenIds == SubSeq(trip.got, IF Len(trip.got) > MaxSeen THEN Len(trip.got) - MaxSeen + 1 ELSE 1, Len(trip.got))
\* compute_fetch_limit(): the visibility rate of the first page is shown / fetched.
FetchLimit ==
  LET n == PageSize + Len(SeenIds)
      raw == (n * trip.fetched + trip.shown - 1) \div trip.shown
  IN IF trip.page = 0 \/ trip.shown = 0 THEN CandLimit
     ELSE IF raw < CandLimit THEN CandLimit ELSE IF raw > CandMax THEN CandMax ELSE raw
\* Ties have no order.
Candidates(up) ==
  Taken(InOrder({t \in Listed : Window(t, trip.cur)},
          LAMBDA t, u : \/ shelf[t].act > shelf[u].act
                        \/ /\ shelf[t].act = shelf[u].act
                           /\ \/ shelf[t].made > shelf[u].made
                              \/ shelf[t].made = shelf[u].made /\ (IF up THEN t < u ELSE t > u)),
        FetchLimit)

\* The weight a scoring function gives an author: 1 for the reader, and what the map it
\* is handed holds for the others.
Weight(a) == IF a = Me THEN 1 ELSE IF a \in DOMAIN Distance THEN Distance[a] ELSE 0
\* The repliers the reader sees, most recent first.
Heard(t) == SelectSeq(shelf[t].recent, LAMBDA r : r.by = Me \/ r.by \in Shows)
ViewerActivity(t) == IF trip.sort = "warm" /\ Heard(t) # <<>> THEN Heard(t)[1].at ELSE shelf[t].act
\* reply_decay(), in parts of HalfReply * (HalfReply + 1).
Signal(t) ==
  LET part(k) == Weight(Heard(t)[k].by) * ((HalfReply * HalfReply * (HalfReply + 1)) \div (HalfReply + k - 1))
      best[k \in 0 .. Len(Heard(t))] == IF k = 0 THEN 0 ELSE IF part(k) > best[k - 1] THEN part(k) ELSE best[k - 1]
  IN best[Len(Heard(t))]
Worth(t) ==
  IF trip.sort = "trusted" THEN Weight(shelf[t].by)
  ELSE 3 * Weight(shelf[t].by) * HalfReply * (HalfReply + 1) + 7 * Signal(t)
\* score_warm(), score_trusted_recent(): the rank by activity decays the worth; the best
\* PAGE_SIZE are returned.
Scored(s) ==
  LET recent == [i \in DOMAIN s |-> ViewerActivity(s[i])] \o <<>>
      ranked == StableSort(s, LAMBDA i, j : recent[i] > recent[j])
      worth == [i \in DOMAIN s |-> Worth(ranked[i])] \o <<>>
      half == HalfRank + trip.rank - 1
  IN StableSort(ranked, LAMBDA i, j : worth[i] * (half + j) > worth[j] * (half + i))

\* build_warm_cursor(): the newest leftover, of several with its activity the last
\* (max_by_key); without leftovers the last candidate of a full batch.
NewestOf_Oldest(left) ==
  CHOOSE k \in DOMAIN left : \A j \in DOMAIN left : shelf[left[k]].act < shelf[left[j]].act \/ (shelf[left[k]].act = shelf[left[j]].act /\ j <= k)
NewestOf(left) ==
  CHOOSE k \in DOMAIN left : \A j \in DOMAIN left : shelf[left[k]].act > shelf[left[j]].act \/ (shelf[left[k]].act = shelf[left[j]].act /\ j <= k)
At(t) == [ts |-> shelf[t].act, id |-> t]
WarmCursor(left, rows) ==
  IF left # <<>> THEN At(left[NewestOf(left)])
  ELSE IF Len(rows) >= FetchLimit THEN At(rows[Len(rows)]) ELSE NoCursor

Unseen(t) == Visible(t) /\ ~\E k \in DOMAIN SeenIds : SeenIds[k] = t
ScoredPage(up) ==
  LET rows == Candidates(up)
      fresh == SelectSeq(rows, Unseen)
      shown == Taken(Scored(fresh), PageSize)
      left == SelectSeq(fresh, LAMBDA t : ~\E k \in DOMAIN shown : shown[k] = t)
      cur == IF shown = <<>> THEN NoCursor ELSE WarmCursor(left, rows)
  IN /\ trip.sort \in {"warm", "trusted"} /\ ~trip.done /\ trip.page < MaxPages
     /\ trip' = [trip EXCEPT !.page = @ + 1, !.cur = cur, !.got = Rendered(shown), !.again = Repeated(shown),
                             !.blind = Len(rows) >= FetchLimit /\ shown = <<>>,
                             !.passed = @ \union PassedOver(shown, cur),
                             !.done = cur = NoCursor, !.rank = @ + Len(shown),
                             !.fetched = IF trip.page = 0 THEN Len(rows) ELSE @,
                             !.shown = IF trip.page = 0 THEN Len(SelectSeq(rows, Visible)) ELSE @]
     /\ UNCHANGED <<secs, shelf, pens, writes, stirred>>

ListNext ==
  \/ \E t \in Spare, a \in Writers : Creates(t, a)
  \/ \E t \in Ids, a \in Writers : ReplyReads(t, a)
  \/ \E p \in pens : ReplyCommits(p)
  \/ \E t \in Ids : Retracts(t)
  \/ SecondPasses \/ TimedPage
  \/ \E up \in BOOLEAN : ScoredPage(up)
ListSpec == ListInit /\ [][ListNext]_listVars

-----------------------------------------------------------------------------
(* Properties.                                                             *)

Settled == {t \in Listed \ stirred : Visible(t)}

\* The tables and the trip hold what they may hold.
ListTypeOK ==
  /\ secs \in 0 .. MaxSecs /\ writes \in 0 .. MaxWrites
  /\ \A t \in Ids : /\ shelf[t].act \in 0 .. MaxSecs /\ Len(shelf[t].recent) <= Buffer
  /\ Got \subseteq Ids /\ trip.page \in 0 .. MaxPages /\ trip.again \subseteq Got

\* While others write, no page leaves a gap behind the cursor: a visible thread nobody
\* touched since the first page and whose time is later than the cursor's was rendered;
\* save one of the very second of a cursor, which that cursor may leave out.  (So the
\* next window does not quite include all leftovers, as build_warm_cursor() has it.)
NoGapBehindCursor ==
  trip.cur # NoCursor => \A t \in Settled : Stamp(t) > trip.cur.ts => t \in Got \union trip.passed

\* A page returns none of the threads nobody touched that are rendered already; save that
\* sort=active, whose cursor leaves out the second key of its order, may repeat one of a
\* tie, and a scored listing, told of the last MAX_SEEN_IDS only, one rendered before.
Alone(t) == \A u \in Ids \ {t} : shelf[u].act # shelf[t].act
NoRepeat ==
  \A t \in trip.again \ stirred :
    IF ByTime THEN trip.sort = "active" /\ ~Alone(t)
    ELSE \E k \in 1 .. (Len(trip.got) - MaxSeen) : trip.got[k] = t

\* The last page ends the list with every visible thread nobody touched rendered; save
\* those of the second of a cursor, and save when all rows of a full page are hidden,
\* which ends the list before the rows that follow.
EndIsComplete == trip.done /\ ~trip.blind => Settled \subseteq Got \union trip.passed

=============================================================================
