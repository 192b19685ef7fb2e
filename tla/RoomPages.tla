----------------------------- MODULE RoomPages -----------------------------
(***************************************************************************)
(* The listing of rooms (rooms.rs render_room_page and what it calls): for *)
(* each page the handler reads the rooms and the reader's favorites, scans *)
(* the newest threads to discover active rooms, scans the newest threads   *)
(* of those rooms and the favorites to fill a sparkline of whole days,     *)
(* turns it into a warmth score, and cuts the page that follows the cursor *)
(* out of the rooms sorted by (score, created_at, id).  The client         *)
(* (routes/rooms/+page.svelte) appends the pages and drops what it has.    *)
(*                                                                         *)
(* threads holds the threads in ascending last_activity; each carries its  *)
(* room, the day of its last activity and whether the reader may see it    *)
(* (is_thread_visible).  Threads arrive, are replied to and are retracted  *)
(* and rooms are deleted between any two reads.  The window may end on a   *)
(* new day when midnight passes between two reads; the three looks at the  *)
(* clock that follow the last of them are one.                             *)
(***************************************************************************)
EXTENDS Integers, Sequences, FiniteSets, FiniteSetsExt, SequencesExt

CONSTANTS
    Rooms,          \* room ids: 1 .. N, compared as the id tiebreak
    CreatedAt,      \* room -> created_at
    Favs,           \* the reader's favorites
    Worlds,         \* initial thread sequences
    Days,           \* MAX_ACTIVITY_WINDOW_DAYS
    Weight,         \* days ago -> weight, 2^(-d / WARMTH_HALF_LIFE_DAYS)
    TopLimit,       \* TOP_ACTIVITY_CANDIDATES
    ScopeLimit,     \* ROOM_ACTIVITY_SCOPE_LIMIT
    PageSize,       \* ROOMS_PAGE_SIZE
    FirstDay, LastDay,  \* bounds: the day the run starts and ends on
    MaxEvents       \* bound: arrivals, replies, retractions, deletions

VARIABLES
    threads,        \* <<[room, day, vis]>>, newest last
    rooms,          \* active rooms
    today,
    events,         \* how many events there were
    req,            \* the request being rendered
    client,         \* rooms shown, next_cursor, whether a page came, and of the
                    \* last page whether its scan was cut at the LIMIT and saw a
                    \* visible thread from before today, and whether its buckets
                    \* hold whole days
    scores          \* history: first page's score of each room that kept it

pageVars == <<threads, rooms, today, events, req, client, scores>>

NoCursor == <<>>
Idle == [pc |-> "idle", rooms |-> {}, scope |-> {}]

RoomsTypeOK ==
    /\ \A i \in DOMAIN threads : /\ threads[i].room \in Rooms
                                 /\ threads[i].day \in 0 .. LastDay
                                 /\ threads[i].vis \in BOOLEAN
    /\ rooms \subseteq Rooms
    /\ today \in FirstDay .. LastDay
    /\ events \in 0 .. MaxEvents
    /\ req.pc \in {"idle", "rooms", "scope"}
    /\ req.rooms \subseteq Rooms /\ req.scope \subseteq Rooms
    /\ client.cursor = NoCursor \/ Len(client.cursor) = 3
    /\ \A i \in DOMAIN client.shown : client.shown[i] \in Rooms
    /\ DOMAIN scores \subseteq Rooms

PagesInit ==
    /\ threads \in Worlds
    /\ rooms = Rooms
    /\ today = FirstDay
    /\ events = 0
    /\ req = Idle
    /\ client = [shown |-> <<>>, cursor |-> NoCursor, opened |-> FALSE,
                 window |-> [cut |-> FALSE, past |-> FALSE, whole |-> TRUE]]
    /\ scores = [r \in {} |-> 0]

-----------------------------------------------------------------------------
(* The scans. *)

\* The newest n threads of the rooms in scope, newest first, from day on.
Newest(scope, from, n) ==
    LET hits == SelectSeq(Reverse(threads),
                          LAMBDA t : t.room \in scope /\ t.day >= from)
    IN  SubSeq(hits, 1, Min({Len(hits), n}))

\* discover_active_rooms.
Discovered ==
    LET rows == Newest(rooms, 0, TopLimit)
    IN  {rows[i].room : i \in {j \in DOMAIN rows : rows[j].vis}}

\* The window of compute_scoped_activity, in days ending today: the full one,
\* or, when the scan hit its LIMIT, the days after the oldest visible row's.
WindowDays(rows) ==
    LET seen == SelectSeq(rows, LAMBDA t : t.vis)
        days == today - Last(seen).day
    IN  IF Len(rows) < ScopeLimit \/ seen = <<>> THEN Days
        ELSE Max({1, Min({days, Days})})

\* window_bounds: the days of a window, the last of them today.
Window(w) == today - w + 1 .. today

\* The sparkline of a room over a window: day -> number of visible threads.
Bucketed(rows, w, r) ==
    [d \in Window(w) |->
        Cardinality({i \in DOMAIN rows : rows[i].vis /\ rows[i].room = r /\ rows[i].day = d})]

\* warmth_score.
Warmth(spark) ==
    FoldSet(LAMBDA d, acc : acc + spark[d] * Weight[today - d], 0, DOMAIN spark)

-----------------------------------------------------------------------------
(* The page. *)

Key(score, r) == <<score, CreatedAt[r], r>>

\* cmp_room_keys.
Before(a, b) ==
    \/ a[1] < b[1]
    \/ a[1] = b[1] /\ a[2] < b[2]
    \/ a[1] = b[1] /\ a[2] = b[2] /\ a[3] < b[3]

\* The rooms of s in descending order of their keys.
Sorted(s, score) ==
    LET over(r) == Cardinality({q \in s : Before(Key(score[r], r), Key(score[q], q))})
    IN  [i \in 1 .. Cardinality(s) |-> CHOOSE r \in s : over(r) = i - 1] \o <<>>

\* What is strictly past the cursor, from the first such entry on.
Rest(order, score, cursor) ==
    LET past(i) == Before(Key(score[order[i]], order[i]), cursor)
        at == {i \in DOMAIN order : past(i)}
    IN  IF cursor = NoCursor THEN order
        ELSE IF at = {} THEN <<>> ELSE SubSeq(order, Min(at), Len(order))

\* next_cursor: the key of the page's last room while rooms remain.
NextCursor_Stops(rest, page, score) ==
    IF Len(rest) > PageSize + 1 THEN Key(score[Last(page)], Last(page)) ELSE NoCursor
NextCursor(rest, page, score) ==
    IF Len(rest) > PageSize THEN Key(score[Last(page)], Last(page)) ELSE NoCursor

\* The client's loadMore: what it already shows it does not show again.
Appended(shown, page) ==
    shown \o SelectSeq(page, LAMBDA r : \A i \in DOMAIN shown : shown[i] # r)

-----------------------------------------------------------------------------
(* list_rooms, and load_more_rooms while there is a cursor. *)

FetchRooms ==
    /\ req.pc = "idle"
    /\ client.opened => client.cursor # NoCursor
    /\ req' = [Idle EXCEPT !.pc = "rooms", !.rooms = rooms]
    /\ UNCHANGED <<threads, rooms, today, events, client, scores>>

Discover ==
    /\ req.pc = "rooms"
    /\ req' = [req EXCEPT !.pc = "scope", !.scope = Discovered \cup Favs]
    /\ UNCHANGED <<threads, rooms, today, events, client, scores>>

\* The scoped scan, the sort, the cut, and the client's append.
Render ==
    LET rows == IF req.scope = {} THEN <<>>
                ELSE Newest(req.scope \cap rooms, today - Days + 1, ScopeLimit)
        w == IF req.scope = {} THEN Days ELSE WindowDays(rows)
        score == [r \in 1 .. Cardinality(Rooms) |-> Warmth(Bucketed(rows, w, r))] \o <<>>
        rest == Rest(Sorted(req.rooms, score), score, client.cursor)
        page == SubSeq(rest, 1, Min({Len(rest), PageSize}))
    IN
    /\ req.pc = "scope"
    /\ client' = [shown |-> Appended(client.shown, page), opened |-> TRUE,
                  cursor |-> NextCursor(rest, page, score),
                  window |-> [cut |-> Len(rows) = ScopeLimit,
                              past |-> \E i \in DOMAIN rows : rows[i].vis /\ rows[i].day < today,
                              whole |-> \A r \in req.scope \cap rooms : Bucketed(rows, w, r) = Bucketed(threads, w, r)]]
    /\ scores' = [r \in {q \in req.rooms : client.opened =>
                            q \in DOMAIN scores /\ scores[q] = score[q]} |-> score[r]]
    /\ req' = Idle
    /\ UNCHANGED <<threads, rooms, today, events>>

-----------------------------------------------------------------------------
(* What happens meanwhile. *)

Happens == events < MaxEvents /\ events' = events + 1

ThreadArrives(r, v) ==
    /\ Happens /\ r \in rooms
    /\ threads' = Append(threads, [room |-> r, day |-> today, vis |-> v])
    /\ UNCHANGED <<rooms, today, req, client, scores>>

\* A reply bumps last_activity.
ThreadBumped(i) ==
    /\ Happens
    /\ threads' = Append(RemoveAt(threads, i), [threads[i] EXCEPT !.day = today])
    /\ UNCHANGED <<rooms, today, req, client, scores>>

\* The opening post is retracted and nobody had replied.
ThreadRetracted(i) ==
    /\ Happens
    /\ threads' = RemoveAt(threads, i)
    /\ UNCHANGED <<rooms, today, req, client, scores>>

RoomDeleted(r) ==
    /\ Happens /\ r \in rooms
    /\ rooms' = rooms \ {r}
    /\ threads' = SelectSeq(threads, LAMBDA t : t.room # r)
    /\ UNCHANGED <<today, req, client, scores>>

Midnight ==
    /\ today < LastDay
    /\ today' = today + 1
    /\ UNCHANGED <<threads, rooms, events, req, client, scores>>

PagesNext ==
    \/ FetchRooms
    \/ Discover
    \/ Render
    \/ \E r \in Rooms, v \in BOOLEAN : ThreadArrives(r, v)
    \/ \E i \in DOMAIN threads : ThreadBumped(i)
    \/ \E i \in DOMAIN threads : ThreadRetracted(i)
    \/ \E r \in Rooms : RoomDeleted(r)
    \/ Midnight

PagesSpec == PagesInit /\ [][PagesNext]_pageVars

-----------------------------------------------------------------------------

\* Once the client has no cursor left, it shows every room that was there on
\* every page with the same score, however the other rooms moved past it.
NoRoomSkipped ==
    client.opened /\ client.cursor = NoCursor =>
        \A r \in DOMAIN scores : \E i \in DOMAIN client.shown : client.shown[i] = r

\* Every bucket counts all the visible threads of its room and day, even when
\* the scan was cut at its LIMIT; save when the cut scan saw no visible thread
\* from before today, and the window is the full one or today's.  (The comment on
\* compute_scoped_activity() makes no exception.)
WideWindowComplete == client.window.whole \/ (client.window.cut /\ ~client.window.past)

=============================================================================
