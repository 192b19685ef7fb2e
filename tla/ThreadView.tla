----------------------------- MODULE ThreadView -----------------------------
(***************************************************************************)
(* One thread as one reader sees it: which posts the server puts in the    *)
(* reply tree, how it cuts the tree in depth and width, how a focused post *)
(* stays in it (server/src/threads/get_thread.rs), the reply count of the  *)
(* listings (threads/list_threads.rs), and the page of the web client that *)
(* loads more replies and continues cut branches while posts are added and *)
(* retracted (web/src/routes/r/[room]/[thread]/+page.svelte).  Posts are   *)
(* numbered in the order they were made, no two at one time; 0 is the      *)
(* opening post.  Left out: the client folds a deep branch that it holds   *)
(* and lets the reader continue it like a cut one (ReplyTree.svelte).      *)
(***************************************************************************)
EXTENDS Integers, Sequences, FiniteSets

CONSTANTS
  Threads,    \* the threads at the start: parents, authors, announcement or not
  Sorts,      \* "trust", "new"
  Reader,
  Friends,    \* authors whose trust in the reader meets the threshold
  Foes,       \* authors the reader distrusts
  Far,        \* author -> trust distance from the reader
  Farthest,   \* the distance of an author without one
  Others,     \* everyone but the reader
  MaxDepth,   \* MAX_DEPTH
  TopLimit,   \* TOP_LEVEL_LIMIT
  RepliesPage,\* REPLIES_PAGE_SIZE
  LastPost,   \* bound on the posts
  MaxRetracts \* bound on the retractions

VARIABLES
  tree,   \* posts of the thread: last, parent, author, retracted; announcement
  view,   \* the client's page
  sortBy, \* the client's sort mode
  known   \* history: the posts reachable when the page was opened

viewVars == <<tree, view, sortBy, known>>

Posts == 0 .. tree.last
NoPost == -1
Closed == [open |-> FALSE, shown |-> {}, kids |-> <<>>, flagged |-> {}, more |-> FALSE, loaded |-> NoPost, focus |-> NoPost, faded |-> 0]

ViewInit ==
  /\ tree \in Threads /\ sortBy \in Sorts
  /\ view = Closed /\ known = {}

-----------------------------------------------------------------------------
(* What the reader sees.                                                   *)

ChildrenOf(i) == {j \in Posts \ {0} : tree.parent[j] = i}
\* compute_reader_descendants().
HasReaderBelow_Children(i) == tree.author[i] = Reader \/ \E j \in ChildrenOf(i) : tree.author[j] = Reader
HasReaderBelow(i) ==
  LET mine[j \in 0 .. LastPost] == j \in Posts /\ (tree.author[j] = Reader \/ \E c \in ChildrenOf(j) : mine[c])
  IN mine[i]
\* is_visible(): the reader's own, then distrust, the announcement, trust in the reader,
\* and an answer to the reader.
IsVisible(i) ==
  LET by == tree.author[i] IN
  \/ by = Reader
  \/ by \in Foes /\ HasReaderBelow(i)
  \/ /\ by \notin Foes
     /\ \/ i = 0 /\ tree.announcement
        \/ by \in Friends
        \/ i # 0 /\ tree.author[tree.parent[i]] = Reader
\* The filter of visible_sorted_children().
Kept(i) == ~(i \in tree.retracted /\ ChildrenOf(i) = {}) /\ IsVisible(i)
\* sort_children(): newest first, within a trust tier in the sort "trust".
Tier(i) == IF sortBy = "new" \/ tree.author[i] = Reader THEN 0
           ELSE IF tree.author[i] \in DOMAIN Far THEN Far[tree.author[i]] ELSE Farthest
VisibleSortedChildren(i) ==
  LET kept == {j \in ChildrenOf(i) : Kept(j)}
      Place(j) == Cardinality({k \in kept : Tier(k) < Tier(j) \/ (Tier(k) = Tier(j) /\ k > j)}) + 1
  IN [n \in 1 .. Cardinality(kept) |-> CHOOSE j \in kept : Place(j) = n] \o <<>>
\* The posts below start that can be reached through kept posts.
Under(start) ==
  LET in[j \in Posts] == j = start \/ (j > start /\ in[tree.parent[j]] /\ Kept(j))
  IN {j \in Posts : in[j]}

-----------------------------------------------------------------------------
(* The cut.                                                                *)

\* A post at the greatest depth has its children cut off, unless it is on the focus path.
IsCut(d, j, path) == d >= MaxDepth /\ j \notin path
\* collect_truncated() and build_tree(): the depth a post is rendered at; NoPost when it is not.
Depths(start, d0, path) ==
  LET at[j \in Posts] ==
        IF j = start THEN d0
        ELSE IF j < start \/ ~Kept(j) \/ at[tree.parent[j]] = NoPost \/ IsCut(at[tree.parent[j]], tree.parent[j], path) THEN NoPost
        ELSE IF tree.parent[j] \in path THEN (IF j \in path THEN 0 ELSE 1)
        ELSE at[tree.parent[j]] + 1
  IN at
Rendered(start, d0, path) == {j \in Posts : Depths(start, d0, path)[j] # NoPost}
\* has_more_children.
Flagged(start, d0, path) ==
  {j \in Rendered(start, d0, path) :
     /\ Depths(start, d0, path)[j] >= MaxDepth /\ j \notin path
     /\ VisibleSortedChildren(j) # <<>>}

FocusPath(i) ==
  LET up[j \in Posts] == j = i \/ \E c \in ChildrenOf(j) : up[c]
  IN {j \in Posts : up[j]}
First(s, n) == SubSeq(s, 1, IF Len(s) < n THEN Len(s) ELSE n)
AsSet(s) == {s[k] : k \in DOMAIN s}

-----------------------------------------------------------------------------
(* Requests.                                                               *)

\* get_thread(), and build_focused_response() when a post is focused: the top-level reply
\* on the focus path is appended when it is beyond the limit.
TopLevel(path) ==
  LET all == VisibleSortedChildren(0)
      top == First(all, TopLimit)
      far == {j \in AsSet(all) \ AsSet(top) : j \in path}
  IN [top |-> top, kids |-> IF far = {} THEN top ELSE Append(top, CHOOSE j \in far : TRUE), more |-> Len(all) > TopLimit]
\* top_level_loaded.
Loaded(t) == IF Len(t.kids) > Len(t.top) THEN Len(t.top) ELSE NoPost
GetThread(focus) ==
  LET path == IF focus = NoPost THEN {} ELSE FocusPath(focus)
      t == TopLevel(path)
  IN /\ ~view.open /\ IsVisible(0) /\ (focus # NoPost => IsVisible(focus))
     /\ view' = [view EXCEPT !.open = TRUE, !.kids = t.kids, !.more = t.more, !.loaded = Loaded(t), !.focus = focus,
                             !.shown = {0} \union UNION {Rendered(k, 1, path) : k \in AsSet(t.kids)},
                             !.flagged = UNION {Flagged(k, 1, path) : k \in AsSet(t.kids)}]
     /\ known' = Under(0)
     /\ UNCHANGED <<tree, sortBy>>

\* loadMoreReplies() with get_thread_replies().
Offset == IF view.loaded # NoPost THEN view.loaded ELSE Len(view.kids)
LoadMoreReplies ==
  LET all == VisibleSortedChildren(0)
      page == First(SubSeq(all, Offset + 1, Len(all)), RepliesPage)
      new == SelectSeq(page, LAMBDA j : j \notin AsSet(view.kids))
  IN /\ view.open /\ view.more
     /\ view' = [view EXCEPT !.kids = @ \o new, !.more = Len(all) > Offset + RepliesPage,
                             !.loaded = IF @ = NoPost THEN NoPost ELSE @ + Len(page),
                             !.shown = @ \union UNION {Rendered(k, 1, {}) : k \in AsSet(new)},
                             !.flagged = @ \union UNION {Flagged(k, 1, {}) : k \in AsSet(new)}]
     /\ UNCHANGED <<tree, sortBy, known>>

\* handleContinueThread() with get_thread_subtree(): the branch is replaced.
ContinueThread(i) ==
  LET below == {j \in Posts : i \in FocusPath(j)}
  IN /\ view.open /\ i \in view.flagged /\ IsVisible(i)
     /\ view' = [view EXCEPT !.shown = (@ \ below) \union Rendered(i, 0, {}),
                             !.flagged = (@ \ below) \union Flagged(i, 0, {})]
     /\ UNCHANGED <<tree, sortBy, known>>

-----------------------------------------------------------------------------
(* Writers.                                                                *)

WithPost(i, by) ==
  [tree EXCEPT !.last = @ + 1, !.parent = [j \in 0 .. tree.last + 1 |-> IF j > tree.last THEN i ELSE @[j]],
               !.author = [j \in 0 .. tree.last + 1 |-> IF j > tree.last THEN by ELSE @[j]]]
OtherReplies(i, by) ==
  /\ tree.last < LastPost
  /\ tree' = WithPost(i, by)
  /\ UNCHANGED <<view, sortBy, known>>
\* submitReply(), insertReply(): the new post is put at the head of its siblings.
ReaderReplies(i) ==
  /\ view.open /\ i \in view.shown /\ tree.last < LastPost
  /\ tree' = WithPost(i, Reader)
  /\ view' = [view EXCEPT !.shown = @ \union {tree.last + 1},
                          !.kids = IF i = 0 THEN <<tree.last + 1>> \o @ ELSE @]
  /\ UNCHANGED <<sortBy, known>>
Retracts(i) ==
  /\ i \notin tree.retracted /\ Cardinality(tree.retracted) < MaxRetracts
  /\ tree' = [tree EXCEPT !.retracted = @ \union {i}]
  /\ view' = IF view.open THEN [view EXCEPT !.faded = @ + 1] ELSE view
  /\ UNCHANGED <<sortBy, known>>

ViewNext ==
  \/ \E i \in Posts \union {NoPost} : GetThread(i)
  \/ LoadMoreReplies
  \/ \E i \in Posts : ContinueThread(i) \/ ReaderReplies(i) \/ Retracts(i)
  \/ \E i \in Posts, by \in Others : OtherReplies(i, by)
ViewSpec == ViewInit /\ [][ViewNext]_viewVars

-----------------------------------------------------------------------------
(* Properties.                                                             *)

\* The tree is a tree and the page shows posts of it.
ViewTypeOK ==
  /\ \A i \in Posts \ {0} : tree.parent[i] \in 0 .. i - 1
  /\ view.shown \subseteq Posts /\ view.flagged \subseteq view.shown /\ AsSet(view.kids) \subseteq view.shown
  /\ Len(view.kids) = Cardinality(AsSet(view.kids))

\* "load-more picks up at the right offset without skipping the next reply": while posts
\* are only added, every top-level reply before the offset is on the page.
NoReplySkipped ==
  view.open /\ view.faded = 0 =>
    \A k \in DOMAIN VisibleSortedChildren(0) :
      LET j == VisibleSortedChildren(0)[k] IN k <= Offset /\ j \in known => j \in view.shown

\* Nothing is cut without a mark: when no reply is left to load and no branch to continue,
\* every post the reader could reach from the start is on the page.
EndShowsAll == view.open /\ ~view.more /\ view.flagged = {} /\ view.faded = 0 => known \subseteq view.shown

Above(i) == FocusPath(i) \ {i}
\* Distrust never hides the reader's own post: it is reachable when everybody above it is
\* visible or distrusted.
OwnPostReachable ==
  \A i \in Posts :
    tree.author[i] = Reader /\ i \notin tree.retracted /\ (\A j \in Above(i) : tree.author[j] \in {Reader} \union Friends \union Foes)
      => IsVisible(0) /\ i \in Under(0)

\* apply_visible_reply_counts(): the replies whose author, or whose parent's author, lets the
\* reader see them, whatever is above.
ListedCount ==
  Cardinality({i \in Posts \ {0} :
    \/ tree.author[i] = Reader
    \/ tree.author[i] \notin Foes /\ (tree.author[i] \in Friends \/ tree.author[tree.parent[i]] = Reader)})

\* The listing never promises fewer replies than the thread shows the reader: "Visibility
\* rules match `get_thread`", but for what is hidden with its parent and for the distrusted
\* replies that are shown for the sake of the reader's own below them.
CountCoversView ==
  IsVisible(0) => Cardinality({i \in Under(0) \ {0} : tree.author[i] \notin Foes}) <= ListedCount

=============================================================================
