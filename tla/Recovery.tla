------------------------------ MODULE Recovery ------------------------------
(***************************************************************************)
(* How an instance pulls the history of an author from others: the         *)
(* recovery after a registration (drive_recovery of                        *)
(* server/src/federation/prior_home_recovery.rs) from the prior home and,  *)
(* failing that, from its own peers, and the by-author backfill of an      *)
(* author that a trust edge or the frontier made interesting.  The other   *)
(* side, the paged surfaces of prior_home.rs and backfill.rs, is the       *)
(* stock of the sources, which keeps changing while it is walked.          *)
(***************************************************************************)
EXTENDS Integers, Sequences, SequencesExt, FiniteSets

CONSTANTS
  Objs,         \* signed objects, numbers in the order of their canonical hash
  Obj,          \* what they are: class, by (author or source), to (target of an edge)
  Sources,      \* the instances that are asked
  Recent,       \* list_active_peers(): active peers, the latest handshake first
  Prior,        \* the confirmed prior home
  Stocks,       \* what the sources may hold at first: [Sources -> [Objs -> second or -1]]
  Subject,      \* the user who registered; their account is local
  Pulls,        \* ids of by-author backfills
  Limit,        \* MAX_BACKFILL_PAGE
  PageCap,      \* MAX_RECOVERY_PAGES
  Slots,        \* BACKFILL_CONCURRENT_PER_PEER
  Throttles,    \* THROTTLE_MAX_RETRIES
  FallbackMax,  \* MAX_FALLBACK_PEERS
  MaxChanges    \* bound on changes of the stock

VARIABLES
  stock,    \* per source and object the second it was stored, -1 when it is not served
  changes,  \* changes of the stock so far
  got,      \* objects that went through the receive path here
  job,      \* the recovery Rec and the backfills
  claims,   \* AuthorSingleFlight: authors with a backfill in flight
  woken,    \* trust_graph_notify is pending
  graph,    \* edges in the published trust graph
  missed    \* objects a walk reported complete should have brought and did not

recVars == <<stock, changes, got, job, claims, woken, graph, missed>>

Start == <<-1, 0>>
NoWalk == [surf |-> "none", src |-> "none", cursor |-> Start, pages |-> 0, waits |-> 0,
           seen |-> FALSE, due |-> {}]
NoJob == [pc |-> "idle", author |-> "none", prefer |-> "none", todo |-> <<>>, asked |-> {},
          first |-> FALSE, ok |-> TRUE, found |-> FALSE, walk |-> NoWalk]
Rec == 0
Jobs == Pulls \union {Rec}

\* One of the jobs does not happen: two others suffice to meet.
RecInit ==
  /\ stock \in Stocks /\ changes = 0 /\ got = {}
  /\ \E off \in Jobs : job = [j \in Jobs |-> IF j = off THEN [NoJob EXCEPT !.pc = "done"] ELSE NoJob]
  /\ claims = {} /\ woken = FALSE /\ graph = {} /\ missed = {}

-----------------------------------------------------------------------------
(* The surfaces.  All list live rows in the order (received_at, hash).     *)

Edge(o) == Obj[o].class = "edge"
\* handle_content_by_key(): "post-rev, retract, profile, and outbound trust-edge".
ContentByKey(o, a) == Obj[o].by = a /\ Obj[o].class \in {"post", "retract", "profile", "edge"}
InboundEdgesByKey(o, a) == Edge(o) /\ Obj[o].to = a
\* handle_backfill_by_author() has thread-creates, and no retracts.
ByAuthor(o, a) == Obj[o].by = a /\ Obj[o].class \in {"post", "profile", "thread"}
EdgesByKey(o, a, dir) == Edge(o) /\ (Obj[o].to = a \/ (dir = "both" /\ Obj[o].by = a))

Served(s, surf, a) ==
  {o \in Objs : /\ stock[s][o] >= 0
                /\ CASE surf = "content" -> ContentByKey(o, a)
                     [] surf = "inbound" -> InboundEdgesByKey(o, a)
                     [] surf = "author" -> ByAuthor(o, a)
                     [] surf = "both" -> EdgesByKey(o, a, "both")
                     [] surf = "target" -> EdgesByKey(o, a, "target")}

\* The keyset predicate of the queries.
Past_SecondOnly(s, o, cursor) == stock[s][o] > cursor[1]
Past(s, o, cursor) == stock[s][o] > cursor[1] \/ (stock[s][o] = cursor[1] /\ o > cursor[2])
Page(w, a) ==
  LET rows == SetToSortSeq({o \in Served(w.src, w.surf, a) : Past(w.src, o, w.cursor)},
                LAMBDA x, y : Past(w.src, y, <<stock[w.src][x], x>>))
      n == IF Len(rows) > Limit THEN Limit ELSE Len(rows)
  IN [rows |-> SubSeq(rows, 1, n), complete |-> Len(rows) <= Limit,
      cursor |-> IF n = 0 THEN Start ELSE <<stock[w.src][rows[n]], rows[n]>>]

-----------------------------------------------------------------------------
(* The receive path, by what it leaves behind.                             *)

Known(set) == {Subject} \union {Obj[o].by : o \in {p \in set : Obj[p].class = "profile"}}
\* Edges whose source is hydrated are projected, the others are pending.
Live(set) == {o \in set : Edge(o) /\ Obj[o].by \in Known(set)}

\* Promoting a peer comes before the cap.
Candidates(prefer) ==
  LET all == IF prefer = "none" THEN Recent
             ELSE <<prefer>> \o SelectSeq(Recent, LAMBDA p : p # prefer)
  IN SubSeq(all, 1, IF Len(all) > FallbackMax THEN FallbackMax ELSE Len(all))

\* try_claim().
Free(a) == a \notin claims
IdlePull == {p \in Pulls : job[p].pc = "idle" /\ \A q \in Pulls : q < p => job[q].pc # "idle"}
PullOf(a, prefer) == [NoJob EXCEPT !.pc = "list", !.author = a, !.prefer = prefer]

\* ingest_edge_object(): the unknown source of an edge is claimed and its backfill
\* spawned before the next object is looked at, if a permit (a free id) is left.
Unknown(page, set) == {Obj[o].by : o \in {p \in page : Edge(p)}} \ Known(set)
Spawned(page, src) ==
  LET want == {a \in Unknown(page, got \union page) : Free(a)}
  IN IF want = {} \/ IdlePull = {} THEN [j \in {} |-> NoJob]
     ELSE [j \in IdlePull |-> PullOf(CHOOSE a \in want : TRUE, src)]

-----------------------------------------------------------------------------
(* Walking a surface.                                                      *)

OnPeer(w) == w.surf \in {"author", "both", "target"}
Walking(p) == {j \in Jobs : job[j].pc = "walk" /\ OnPeer(job[j].walk) /\ job[j].walk.src = p}
Walk(surf, s, a) == [NoWalk EXCEPT !.surf = surf, !.src = s]

\* The per-peer semaphore, or the challenge of the prior home, stands before the
\* first page.  What is due is what the source serves now.
SlotFree(p) == Cardinality(Walking(p)) < Slots
Enter(j) ==
  /\ job[j].pc = "enter"
  /\ OnPeer(job[j].walk) => SlotFree(job[j].walk.src)
  /\ job' = [job EXCEPT ![j].pc = "walk",
               ![j].walk.due = Served(job[j].walk.src, job[j].walk.surf, job[j].author)]
  /\ UNCHANGED <<stock, changes, got, claims, woken, graph, missed>>

\* SurfaceStats, or its default after an error.
Over(jb, complete, seen) ==
  [jb EXCEPT !.pc = "over", !.ok = complete,
             !.walk = [NoWalk EXCEPT !.surf = jb.walk.surf, !.src = jb.walk.src, !.seen = complete /\ seen]]

\* One page arrives and is ingested.  A profile that releases pending edges wakes
\* the rebuild by itself (apply_one_object()); edges do not.
Releases(page) == \E o \in page : Obj[o].class = "profile" /\ Live(got \union page) # Live(got \union {p \in page : Edge(p)})
FetchPage(j) ==
  /\ job[j].pc = "walk"
  /\ LET w == job[j].walk
         pg == Page(w, job[j].author)
         page == ToSet(pg.rows)
         new == Spawned(page, w.src)
         last == pg.complete \/ w.pages + 1 = PageCap
     IN /\ got' = got \union page
        /\ woken' = (woken \/ Releases(page))
        /\ claims' = claims \union {new[p].author : p \in DOMAIN new}
        /\ job' = [k \in Jobs |->
             IF k = j THEN IF last THEN Over(job[j], pg.complete, w.seen \/ page # {})
                           ELSE [job[j] EXCEPT !.walk.cursor = pg.cursor, !.walk.pages = @ + 1,
                                               !.walk.seen = TRUE]
             ELSE IF k \in DOMAIN new THEN new[k] ELSE job[k]]
        /\ missed' = IF pg.complete
                     THEN missed \union {o \in w.due : stock[w.src][o] >= 0 /\ o \notin got \union page}
                     ELSE missed
  /\ UNCHANGED <<stock, changes, graph>>

\* 429: a peer surface waits and asks for the same page again, so many times in all.
Throttled(j) ==
  /\ job[j].pc = "walk" /\ OnPeer(job[j].walk)
  /\ job' = [job EXCEPT ![j] = IF job[j].walk.waits < Throttles THEN [@ EXCEPT !.walk.waits = @ + 1]
                               ELSE Over(@, FALSE, @.walk.seen)]
  /\ UNCHANGED <<stock, changes, got, claims, woken, graph, missed>>

\* The transport fails, the answer is not 2xx or not decodable; at the prior home
\* also a 429 and an expired or refused challenge.
FetchFails(j) ==
  /\ job[j].pc \in {"enter", "walk"}
  /\ job[j].pc = "enter" => ~OnPeer(job[j].walk)
  /\ job' = [job EXCEPT ![j] = Over(@, FALSE, @.walk.seen)]
  /\ UNCHANGED <<stock, changes, got, claims, woken, graph, missed>>

-----------------------------------------------------------------------------
(* drive_recovery().                                                       *)

Ended(jb, found) == [jb EXCEPT !.pc = "done", !.found = found, !.todo = <<>>, !.walk = NoWalk]
GoOn(jb, surf, s) == [jb EXCEPT !.pc = "enter", !.walk = Walk(surf, s, jb.author), !.asked = @ \union {s}]
RecoverStart ==
  /\ job[Rec].pc = "idle"
  /\ \E confirmed \in BOOLEAN :
       job' = [job EXCEPT ![Rec] =
         IF confirmed THEN GoOn([NoJob EXCEPT !.author = Subject], "content", Prior)
         ELSE [NoJob EXCEPT !.author = Subject, !.pc = "list"]]
  /\ UNCHANGED <<stock, changes, got, claims, woken, graph, missed>>

\* Both surfaces of the prior home, each on its own; the fallback unless both ended.
RecoverPrior ==
  /\ job[Rec].pc = "over" /\ job[Rec].walk.surf \in {"content", "inbound"}
  /\ job' = [job EXCEPT ![Rec] =
       IF @.walk.surf = "content" THEN GoOn([@ EXCEPT !.first = job[Rec].ok], "inbound", Prior)
       ELSE IF @.first /\ @.ok THEN Ended(@, TRUE)
       ELSE [@ EXCEPT !.pc = "list"]]
  /\ UNCHANGED <<stock, changes, got, claims, woken, graph, missed>>

\* recover_via_peer_network(): every peer, content and then edges in both directions.
RecoverList ==
  /\ job[Rec].pc = "list"
  /\ job' = [job EXCEPT ![Rec] =
       LET todo == Candidates("none") IN
       IF todo = <<>> THEN Ended(@, FALSE)
       ELSE GoOn([@ EXCEPT !.todo = Tail(todo)], "author", Head(todo))]
  /\ UNCHANGED <<stock, changes, got, claims, woken, graph, missed>>

RecoverPeer ==
  /\ job[Rec].pc = "over" /\ OnPeer(job[Rec].walk)
  /\ job' = [job EXCEPT ![Rec] =
       IF @.walk.surf = "author" THEN GoOn(@, "both", @.walk.src)
       ELSE IF @.todo # <<>> THEN GoOn([@ EXCEPT !.todo = Tail(@)], "author", Head(job[Rec].todo))
       ELSE Ended(@, FALSE)]
  /\ UNCHANGED <<stock, changes, got, claims, woken, graph, missed>>

-----------------------------------------------------------------------------
(* run_author_backfill().                                                  *)

\* proactive_author_backfill(), for an author that entered the frontier.
PullStart(j) ==
  /\ j \in IdlePull
  /\ \E o \in Objs : LET a == Obj[o].by IN
       /\ Free(a)
       /\ job' = [job EXCEPT ![j] = PullOf(a, "none")]
       /\ claims' = claims \union {a}
  /\ UNCHANGED <<stock, changes, got, woken, graph, missed>>

PullList(j) ==
  /\ j \in Pulls /\ job[j].pc = "list"
  /\ LET todo == Candidates(job[j].prefer) IN
       /\ job' = [job EXCEPT ![j] = IF todo = <<>> THEN Ended(@, FALSE)
                                    ELSE GoOn([@ EXCEPT !.todo = Tail(todo)], "author", Head(todo))]
       /\ claims' = IF todo = <<>> THEN claims \ {job[j].author} ELSE claims
  /\ UNCHANGED <<stock, changes, got, woken, graph, missed>>

\* Success is a complete answer that is not empty; the inbound edges then come from
\* the same peer, and the rebuild is woken whether they came or not.
Success(jb) == jb.ok /\ jb.walk.seen
Wakes(jb) == jb.walk.surf = "target"
PullPeer(j) ==
  /\ j \in Pulls /\ job[j].pc = "over"
  /\ LET jb == job[j]
         ends == jb.walk.surf = "target" \/ (~Success(jb) /\ jb.todo = <<>>)
     IN /\ job' = [job EXCEPT ![j] =
             IF ends THEN Ended(@, jb.walk.surf = "target")
             ELSE IF Success(jb) THEN GoOn(@, "target", jb.walk.src)
             ELSE GoOn([@ EXCEPT !.todo = Tail(@)], "author", Head(jb.todo))]
        /\ claims' = IF ends THEN claims \ {jb.author} ELSE claims
        /\ woken' = (woken \/ Wakes(jb))
  /\ UNCHANGED <<stock, changes, got, graph, missed>>

-----------------------------------------------------------------------------
(* Beside the jobs.                                                        *)

\* rebuild_loop() publishes the graph of the projected edges.
Rebuild ==
  /\ woken /\ woken' = FALSE /\ graph' = Live(got)
  /\ UNCHANGED <<stock, changes, got, job, claims, missed>>

\* A source stores or projects another object, in the latest second of its rows or
\* in the next, or erases a post, while it is being walked; Stocks has the rest.
Latest(s) == CHOOSE t \in {stock[s][o] : o \in Objs} : \A o \in Objs : stock[s][o] <= t
StockChanges ==
  /\ changes < MaxChanges /\ changes' = changes + 1
  /\ \E s \in {job[j].walk.src : j \in {k \in Jobs : job[k].pc = "walk"}}, o \in Objs :
       \/ /\ stock[s][o] = -1
          /\ \E t \in {Latest(s), Latest(s) + 1} : t >= 0 /\ stock' = [stock EXCEPT ![s][o] = t]
       \/ stock[s][o] >= 0 /\ Obj[o].class = "post" /\ stock' = [stock EXCEPT ![s][o] = -1]
  /\ UNCHANGED <<got, job, claims, woken, graph, missed>>

JobStep(j) == Enter(j) \/ FetchPage(j) \/ Throttled(j) \/ FetchFails(j) \/ PullList(j) \/ PullPeer(j)
RecStep == (\E j \in Jobs : JobStep(j)) \/ RecoverPrior \/ RecoverList \/ RecoverPeer
RecNext == RecStep \/ RecoverStart \/ (\E j \in Pulls : PullStart(j)) \/ Rebuild \/ StockChanges

RecSpec == RecInit /\ [][RecNext]_recVars

-----------------------------------------------------------------------------
(* Properties.                                                             *)

\* The variables have their types.
RecTypeOK ==
  /\ got \subseteq Objs /\ graph \subseteq got /\ missed \subseteq Objs /\ woken \in BOOLEAN
  /\ \A j \in Jobs : job[j].pc \in {"idle", "list", "enter", "walk", "over", "done"}

\* A walk that reports complete brought every row that was served when it began and
\* still is, whatever was stored, in the same second too, or erased meanwhile.
CompleteMeansAll == missed = {}

\* At most one by-author backfill runs per author.
OnePullPerAuthor ==
  \A p, q \in Pulls : p # q /\ {job[p].pc, job[q].pc} \cap {"idle", "done"} = {}
                        => job[p].author # job[q].author

\* No peer sees more streams of ours at a time than the semaphore allows.
PeerStreamsBounded == \A s \in Sources : Cardinality(Walking(s)) <= Slots

\* A backfill that counts as successful left the author hydrated: "200+empty+
\* complete:true means peer has nothing matching", not done.
FoundMeansHydrated == \A p \in Pulls : job[p].found => job[p].author \in Known(got)

\* The peer that delivered the edge is asked about its source, however many other
\* peers come before it.
DelivererAsked == \A p \in Pulls : job[p].pc = "done" /\ job[p].prefer # "none" => job[p].prefer \in job[p].asked

\* Once a backfill is over and no rebuild is due, the edges on its author are in the
\* graph, unless a recovery put them there.
PulledEdgesSurface ==
  job[Rec].author = "none" /\ ~woken /\ (\A p \in Pulls : job[p].pc \in {"idle", "done"})
    => Live(got) \subseteq graph

=============================================================================
