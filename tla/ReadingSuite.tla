---------------------------- MODULE ReadingSuite ----------------------------
(***************************************************************************)
(* What a reader is shown, one component per behaviour: thread listings    *)
(* (Listing), the view of a thread (ThreadView) and the listing of rooms   *)
(* (RoomPages).                                                            *)
(***************************************************************************)
EXTENDS Integers, Sequences, TLC

VARIABLES
  part,                                \* the component that runs in this behaviour
  secs, shelf, pens, writes, trip, stirred,
  tree, view, sortBy, known,
  posted, warmest, today, events, req, client, scores

-----------------------------------------------------------------------------
(* Five threads.                                                           *)

Fresh(by, at) == [by |-> by, made |-> at, act |-> at, count |-> 0, retracted |-> FALSE, recent |-> <<>>]
DistanceOf == [near |-> 1, far |-> 2]
T(by, at, act) == [Fresh(by, at) EXCEPT !.act = act, !.count = IF act = at THEN 0 ELSE 1,
                                         !.recent = IF act = at THEN <<>> ELSE <<[by |-> "far", at |-> act]>>]
\* Five threads: apart in time; with hidden authors between; tied in time.
Apart == [i \in 1 .. 5 |-> CASE i = 1 -> T("far", 0, 3) [] i = 2 -> T("near", 1, 1) [] i = 3 -> T("me", 2, 2) [] i = 4 -> T("far", 0, 0) [] OTHER -> T("near", 4, 4)]
Dimmed == [i \in 1 .. 5 |-> CASE i = 1 -> T("near", 0, 2) [] i = 2 -> T("dim", 1, 1) [] i = 3 -> T("dim", 3, 3) [] i = 4 -> T("far", 0, 0) [] OTHER -> T("me", 4, 4)]
Tied == [i \in 1 .. 5 |-> CASE i = 1 -> T("far", 1, 2) [] i = 2 -> T("near", 2, 2) [] i = 3 -> T("me", 0, 2) [] i = 4 -> T("far", 1, 1) [] OTHER -> T("near", 1, 2)]
Shelves ==
  {[shelf |-> w[1], sort |-> w[2], at |-> 4] :
     w \in ({Dimmed, Tied} \X {"active", "warm"}) \union {<<Tied, "new">>, <<Apart, "trusted">>}}

Listings == INSTANCE Listing WITH
  Worlds <- Shelves, Me <- "me", Distance <- DistanceOf,
  Shows <- {"near", "far"}, PageSize <- 2, CandLimit <- 4, CandMax <- 5,
  MaxSeen <- 2, Buffer <- 2, HalfRank <- 12, HalfReply <- 10, Writers <- {"far"},
  Spare <- {6}, MaxSecs <- 5, MaxWrites <- 2, MaxPages <- 5
listVars == <<secs, shelf, pens, writes, trip, stirred>>

-----------------------------------------------------------------------------
(* Threads of three replies.                                               *)

FarOf == [friend |-> 1]
Made(parent, author, announcement) ==
  [last |-> 3, parent |-> [i \in 0 .. 3 |-> IF i = 0 THEN 0 ELSE parent[i]],
   author |-> [i \in 0 .. 3 |-> author[i + 1]], retracted |-> {}, announcement |-> announcement]
Shapes == {<<0, 0, 0>>, <<0, 0, 1>>, <<0, 1, 2>>}
\* A thread of a friend or of a foe, and an announcement by a stranger.
Openings == (Shapes \X {<<"friend", FALSE>>, <<"foe", FALSE>>}) \union {<< <<0, 0, 0>>, <<"stranger", TRUE>> >>}
AllThreads ==
  {Made(o[1], <<o[2][1]>> \o b, o[2][2]) :
     o \in Openings, b \in {"friend", "stranger", "foe"} \X {"me", "foe"} \X {"me", "friend"}}

Replies == INSTANCE ThreadView WITH
  Threads <- AllThreads, Sorts <- {"trust", "new"}, Reader <- "me",
  Friends <- {"friend"}, Foes <- {"foe"}, Far <- FarOf, Farthest <- 9,
  Others <- {"friend"}, MaxDepth <- 1, TopLimit <- 1, RepliesPage <- 1,
  LastPost <- 4, MaxRetracts <- 1
viewVars == <<tree, view, sortBy, known>>

-----------------------------------------------------------------------------
(* Three rooms over a few days.                                            *)

Day(r, d, v) == [room |-> r, day |-> d, vis |-> v]
WeightOf == 0 :> 1000 @@ 1 :> 707 @@ 2 :> 500
CreatedOn == 1 :> 1 @@ 2 :> 1 @@ 3 :> 2
Histories ==
    {<<>>,
     <<Day(2, 1, TRUE), Day(2, 1, TRUE), Day(1, 2, TRUE)>>,
     <<Day(3, 0, TRUE), Day(1, 1, FALSE), Day(3, 2, TRUE), Day(2, 3, TRUE)>>,
     <<Day(1, 2, TRUE), Day(1, 3, FALSE), Day(2, 3, FALSE), Day(2, 3, FALSE)>>}

Lobby == INSTANCE RoomPages WITH
  threads <- posted, rooms <- warmest, Rooms <- {1, 2, 3},
  CreatedAt <- CreatedOn, Favs <- {1}, Worlds <- Histories, Days <- 3,
  Weight <- WeightOf, TopLimit <- 3, ScopeLimit <- 3, PageSize <- 1,
  FirstDay <- 3, LastDay <- 4, MaxEvents <- 2
pageVars == <<posted, warmest, today, events, req, client, scores>>

-----------------------------------------------------------------------------
(* One component runs; the others rest.                                    *)

Off == "off"
ListingOff ==
  /\ secs = Off /\ shelf = Off /\ pens = Off /\ writes = Off /\ trip = Off
  /\ stirred = Off
ViewOff ==
  /\ tree = Off /\ view = Off /\ sortBy = Off /\ known = Off
RoomsOff ==
  /\ posted = Off /\ warmest = Off /\ today = Off /\ events = Off /\ req = Off
  /\ client = Off /\ scores = Off

ReadingInit ==
  \/ part = "listing" /\ Listings!ListInit
     /\ ViewOff /\ RoomsOff
  \/ part = "view" /\ Replies!ViewInit
     /\ ListingOff /\ RoomsOff
  \/ part = "rooms" /\ Lobby!PagesInit
     /\ ListingOff /\ ViewOff

ReadingNext ==
  \/ part = "listing" /\ Listings!ListNext
     /\ UNCHANGED <<part, viewVars, pageVars>>
  \/ part = "view" /\ Replies!ViewNext
     /\ UNCHANGED <<part, listVars, pageVars>>
  \/ part = "rooms" /\ Lobby!PagesNext
     /\ UNCHANGED <<part, listVars, viewVars>>

ReadingVars == <<part, listVars, viewVars, pageVars>>
ReadingSpec == ReadingInit /\ [][ReadingNext]_ReadingVars

-----------------------------------------------------------------------------
(* What the components promise, each in its own behaviours.                *)

\* A reader who pages through a listing while others post: a thread nobody touched and
\* later than the cursor was rendered, save one of the very second of a cursor; none is
\* returned again, save for ties in sort=active and, in the scored sorts, for threads
\* rendered before the last MAX_SEEN_IDS; and the last page completes the list, save for
\* those ties and unless all rows of a full page are hidden.
TripIsWhole ==
  part = "listing" =>
    /\ Listings!ListTypeOK /\ Listings!NoGapBehindCursor /\ Listings!NoRepeat
    /\ Listings!EndIsComplete

\* A reader who opens a thread and loads more: while posts are only added no reply
\* before the offset is missing, and the end shows all that could be reached; the
\* reader's own post is not hidden by distrust; and the listing announces no fewer
\* replies than are shown, save for distrusted ones shown for the reader's own below them.
ThreadIsWhole ==
  part = "view" =>
    /\ Replies!ViewTypeOK /\ Replies!NoReplySkipped /\ Replies!EndShowsAll
    /\ Replies!OwnPostReachable /\ Replies!CountCoversView

\* A reader who pages through the rooms misses none that kept its score, and the
\* buckets hold whole days unless a scan cut at its LIMIT saw no visible thread from
\* before today.
RoomsAreWhole ==
  part = "rooms" =>
    /\ Lobby!RoomsTypeOK /\ Lobby!NoRoomSkipped /\ Lobby!WideWindowComplete
=============================================================================
