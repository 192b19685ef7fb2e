----------------------------- MODULE Favorites -----------------------------
(***************************************************************************)
(* One user's pinned rooms (favorites.rs), edited from several browser     *)
(* tabs at once, while an admin deletes rooms (admin.rs delete_room).      *)
(*                                                                         *)
(* fav is the user's part of the table room_favorites: a function from the *)
(* pinned rooms to their positions.  Each write runs in BEGIN IMMEDIATE    *)
(* and is one step; what a handler reads before that (resolve_room_id) and *)
(* the two separate reads of a listing are steps of their own.  view is    *)
(* the tab's own copy of the list, which it submits when the user drags a  *)
(* row.  Two rows with one position come out of the HashMap behind the     *)
(* listing in either order.                                                *)
(***************************************************************************)
EXTENDS Naturals, FiniteSets, Sequences, FiniteSetsExt

CONSTANTS
    Rooms,          \* the rooms there are
    NoRoom,         \* model value: no room resolved
    Tabs,           \* browser tabs of the user
    Cap,            \* FAVORITES_CAP
    MaxDeletes      \* bound: rooms the admin deletes

VARIABLES
    live,           \* rooms whose deleted_at is NULL
    fav,            \* room_favorites of the user: room -> position
    tab,            \* per tab: pc, the room resolved, rooms read, view
    gapped          \* history: a row was reaped since the last renumbering

favVars == <<live, fav, tab, gapped>>

Pcs == {"idle", "favorite", "unfavorite", "refresh", "listing"}

FavTypeOK ==
    /\ live \subseteq Rooms
    /\ DOMAIN fav \subseteq Rooms /\ \A r \in DOMAIN fav : fav[r] \in Nat
    /\ \A t \in Tabs : /\ tab[t].pc \in Pcs
                       /\ tab[t].room \in Rooms \cup {NoRoom}
                       /\ tab[t].rooms \subseteq Rooms
                       /\ \A i \in DOMAIN tab[t].view : tab[t].view[i] \in Rooms
    /\ gapped \in BOOLEAN

FavInit ==
    /\ live = Rooms
    /\ fav = [r \in {} |-> 0]
    /\ tab = [t \in Tabs |-> [pc |-> "idle", room |-> NoRoom, rooms |-> {}, view |-> <<>>]]
    /\ gapped = FALSE

(***************************************************************************)
(* What a tab asks for: the handler resolves the room to a live one, on    *)
(* the pool, before its transaction begins.                                *)
(***************************************************************************)
Resolvable(r) == r \in live

Asks(t, r, op) ==
    /\ tab[t].pc = "idle"
    /\ Resolvable(r)
    /\ tab' = [tab EXCEPT ![t].pc = op, ![t].room = r]
    /\ UNCHANGED <<live, fav, gapped>>

\* The position the next pin is given, and whether there is room for one.
Full == Cardinality(DOMAIN fav) >= Cap

Pinned(r) ==
    [x \in DOMAIN fav \cup {r} |-> IF x = r THEN Cardinality(DOMAIN fav) ELSE fav[x]]

\* favorite_room: a room already pinned is a no-op, a full list an error.
FavoriteTx(t) ==
    LET r == tab[t].room IN
    /\ tab[t].pc = "favorite"
    /\ fav' = IF r \in DOMAIN fav \/ Full THEN fav ELSE Pinned(r)
    /\ tab' = [tab EXCEPT ![t].pc = "refresh", ![t].room = NoRoom]
    /\ UNCHANGED <<live, gapped>>

\* The orders ORDER BY position may return the rows of f in.
Orders(f) ==
    LET n == Cardinality(DOMAIN f) IN
    {s \in [1 .. n -> DOMAIN f] :
        /\ \A i, j \in 1 .. n : i # j => s[i] # s[j]
        /\ \A i \in 1 .. n - 1 : f[s[i]] <= f[s[i + 1]]}

\* Positions rewritten to 0 .. N - 1 along s.
Along(s) ==
    [x \in {s[i] : i \in DOMAIN s} |-> (CHOOSE i \in DOMAIN s : s[i] = x) - 1]

\* renumber_positions.
Renumbered(f, s) == Along(s)

\* unfavorite_room: the rest is renumbered when a row was deleted.
UnfavoriteTx(t) ==
    LET r == tab[t].room
        rest == [x \in DOMAIN fav \ {r} |-> fav[x]] IN
    /\ tab[t].pc = "unfavorite"
    /\ IF r \in DOMAIN fav
         THEN /\ \E s \in Orders(rest) : fav' = Renumbered(rest, s)
              /\ gapped' = FALSE
         ELSE UNCHANGED <<fav, gapped>>
    /\ tab' = [tab EXCEPT ![t].pc = "refresh", ![t].room = NoRoom]
    /\ UNCHANGED live

(***************************************************************************)
(* reorder_favorites: the submitted rooms must be, without repetition,     *)
(* exactly the rows of the table; otherwise 409 and the tab fetches its    *)
(* list again.                                                             *)
(***************************************************************************)
Matches_Known(s) == {s[i] : i \in DOMAIN s} \subseteq DOMAIN fav
Matches(s) == /\ \A i, j \in DOMAIN s : i # j => s[i] # s[j]
              /\ {s[i] : i \in DOMAIN s} = DOMAIN fav

\* UPDATE ... SET position, row by row: rooms outside s keep theirs.
Rewritten(s) ==
    [x \in DOMAIN fav |-> IF x \in {s[i] : i \in DOMAIN s} THEN Along(s)[x] ELSE fav[x]]

\* The orders a drag can turn the view into.
Drags(v) ==
    {s \in [DOMAIN v -> {v[i] : i \in DOMAIN v}] :
        \A i, j \in DOMAIN v : i # j => s[i] # s[j]}

Reorder(t) ==
    /\ tab[t].pc = "idle"
    /\ \E s \in Drags(tab[t].view) :
        IF Matches(s)
          THEN /\ fav' = Rewritten(s)
               /\ gapped' = FALSE
               /\ tab' = [tab EXCEPT ![t].view = s]
          ELSE /\ tab' = [tab EXCEPT ![t].pc = "refresh"]
               /\ UNCHANGED <<fav, gapped>>
    /\ UNCHANGED live

(***************************************************************************)
(* build_favorites_response: first the live rooms, then the user's rows;   *)
(* a row whose room is not among the former is skipped.                    *)
(***************************************************************************)
ListRooms(t) ==
    /\ tab[t].pc \in {"idle", "refresh"}
    /\ tab' = [tab EXCEPT ![t].pc = "listing", ![t].rooms = live]
    /\ UNCHANGED <<live, fav, gapped>>

Skimmed(s, seen) == SelectSeq(s, LAMBDA r : r \in seen)

ListFavorites(t) ==
    /\ tab[t].pc = "listing"
    /\ \E s \in Orders(fav) :
        tab' = [tab EXCEPT ![t].pc = "idle", ![t].rooms = {},
                           ![t].view = Skimmed(s, tab[t].rooms)]
    /\ UNCHANGED <<live, fav, gapped>>

(***************************************************************************)
(* delete_room: one transaction deletes the rows that pin the room and     *)
(* stamps deleted_at; nobody's positions are renumbered.                   *)
(***************************************************************************)
Reaped(r) == [x \in DOMAIN fav \ {r} |-> fav[x]]

DeleteRoom(r) ==
    /\ r \in live
    /\ Cardinality(Rooms \ live) < MaxDeletes
    /\ fav' = Reaped(r)
    /\ live' = live \ {r}
    /\ gapped' = (gapped \/ r \in DOMAIN fav)
    /\ UNCHANGED tab

FavNext ==
    \/ \E t \in Tabs, r \in Rooms, op \in {"favorite", "unfavorite"} : Asks(t, r, op)
    \/ \E t \in Tabs : FavoriteTx(t)
    \/ \E t \in Tabs : UnfavoriteTx(t)
    \/ \E t \in Tabs : Reorder(t)
    \/ \E t \in Tabs : ListRooms(t)
    \/ \E t \in Tabs : ListFavorites(t)
    \/ \E r \in Rooms : DeleteRoom(r)

FavSpec == FavInit /\ [][FavNext]_favVars

-----------------------------------------------------------------------------

\* Outside the gaps a room's deletion leaves, the positions are exactly
\* 0 .. N - 1, whatever the tabs interleave: favorites.rs' "dense 0-based
\* position ordering", which favorite_room's position = count rests on.
PositionsDense ==
    gapped \/ {fav[r] : r \in DOMAIN fav} = 0 .. Cardinality(DOMAIN fav) - 1

\* Whatever the tabs interleave, the list never outgrows FAVORITES_CAP and
\* every position stays below it.
WithinCap ==
    /\ Cardinality(DOMAIN fav) <= Cap
    /\ \A r \in DOMAIN fav : fav[r] < Cap

\* delete_room reaps the rows "breaking favorite reordering for any user who
\* had favorited the deleted room" (admin.rs): no row names a deleted room,
\* so a freshly listed view can always be submitted.
FavoritesAreLive == DOMAIN fav \subseteq live
=============================================================================
