---------------------------- MODULE EdgeReceiver ----------------------------
(***************************************************************************)
(* How an instance receives the trust-edge chain of one (source, target)   *)
(* pair from the source's home: apply_one_edge() of                        *)
(* server/src/federation/edges.rs, the projection, the orphan buffer and   *)
(* the sweep of remote_users.rs, and the autonomous gap backfill of        *)
(* edge_backfill.rs.                                                       *)
(*                                                                         *)
(* An edge is its canonical hash; Prior gives its prior_edge_hash.  A      *)
(* BEGIN IMMEDIATE transaction works on `wdb` while everyone else reads    *)
(* the committed `db`; its loops are one step per iteration.  Objects that *)
(* do not decode or verify leave no trace and are left out.                *)
(***************************************************************************)
EXTENDS Integers, Sequences, FiniteSets

CONSTANTS
  Edges,        \* the signed trust-edges of the pair
  Prior,        \* Prior[e]: prior_edge_hash, NoEdge for a chain root
  Neutral,      \* the edges whose stance is neutral
  Handlers,     \* threads that serve pushes
  Tasks,        \* permits of outbound_backfill_permits, with their tasks
  KnownAtStart, \* endpoints that have a users row initially
  InExpansion,  \* target_in_expansion_set(target)
  Page,         \* MAX_EDGE_BACKFILL_PAGE
  MaxEvicts,    \* bound: rows dropped by the TTL sweep
  MaxFaults,    \* bound: database and transport faults
  MaxProfiles,  \* bound: profile revisions of the source received
  MaxLosses,    \* bound: queued copies dropped
  MaxCopies,    \* bound: further copies sent
  MaxMishaps,   \* bound: evictions, faults, losses and copies together
  NoEdge,       \* prior_edge_hash = None
  NoOne         \* no transaction is open

Endpoints == {"source", "target"}

ASSUME EdgeConfig ==
  /\ Prior \in [Edges -> Edges \cup {NoEdge}]
  /\ NoEdge \notin Edges
  /\ Neutral \subseteq Edges
  /\ KnownAtStart \subseteq Endpoints
  /\ InExpansion \in BOOLEAN
  /\ Page \in Nat \ {0}
  /\ {MaxEvicts, MaxFaults, MaxProfiles, MaxLosses, MaxCopies, MaxMishaps} \subseteq Nat
  /\ NoOne \notin Handlers \cup Tasks
  /\ Handlers \cap Tasks = {}

VARIABLES
  issued,   \* the home's trust_edges rows of the pair, oldest first
  served,   \* those of them whose payload the home still holds, in that order
  wire,     \* edges of which a copy is queued for us
  db,       \* our committed tables
  wdb,      \* the tables as the open transaction sees them
  tx,       \* who holds the write transaction
  work,     \* worklist of drain_pending_orphans_after(); NoEdge: empty
  pc,       \* where a handler or a backfill task is
  todo,     \* the edges it still has to apply
  recovery, \* the EdgeRecovery its edge asked for
  gap,      \* the predecessor a backfill task was spawned for
  used      \* how much of each bound is used up

homeVars == <<issued, served>>
txVars == <<db, wdb, tx, work>>
workVars == <<pc, todo, recovery, gap>>
vars == <<homeVars, wire, txVars, workVars, used>>

Workers == Handlers \cup Tasks

Bound ==
  [evict |-> MaxEvicts, fault |-> MaxFaults, profile |-> MaxProfiles,
   loss |-> MaxLosses, copy |-> MaxCopies]

Spend(b) ==
  /\ used[b] < Bound[b]
  /\ b # "profile" => used["evict"] + used["fault"] + used["loss"] + used["copy"] < MaxMishaps
  /\ used' = [used EXCEPT ![b] = @ + 1]

Init ==
  /\ issued = <<>>
  /\ served = <<>>
  /\ wire = {}
  /\ db = [known |-> KnownAtStart,            \* users
           stored |-> [e \in Edges |-> "none"], \* signed_objects
           projected |-> {},                  \* trust_edges
           pending |-> {},                    \* pending_trust_edges
           frontier |-> {}]                   \* frontier_edges
  /\ wdb = db
  /\ tx = NoOne
  /\ work = NoEdge
  /\ pc = [w \in Workers |-> "idle"]
  /\ todo = [w \in Workers |-> <<>>]
  /\ recovery = [w \in Workers |-> "none"]
  /\ gap = [w \in Workers |-> NoEdge]
  /\ used = [b \in DOMAIN Bound |-> 0]

-----------------------------------------------------------------------------
(* The tables *)

\* try_project_trust_edge(): what it would return.
Sibling_None(d, e) == FALSE
Sibling(d, e) == \E x \in d.projected \ {e} : Prior[x] = Prior[e]

Grounded(d, e) == Prior[e] = NoEdge \/ Prior[e] \in d.projected

Outcome(d, e) ==
  CASE d.known # Endpoints -> "EndpointMissing"
    [] d.known = Endpoints /\ e \in d.projected -> "Projected"
    [] d.known = Endpoints /\ e \notin d.projected /\ Sibling(d, e) -> "ChainFork"
    [] d.known = Endpoints /\ e \notin d.projected /\ ~Sibling(d, e) ->
         IF Grounded(d, e) THEN "Projected" ELSE "Deferred"

\* store_signed_object(): INSERT OR IGNORE, so an erased row stays erased.
StoredAs_Replace(s) == "live"
StoredAs(s) == IF s = "none" THEN "live" ELSE s
Store(d, e) == [d EXCEPT !.stored[e] = StoredAs(@)]

\* erase_trust_edge_chain(): a neutral edge erases every other projected one.
Erase(d, e) ==
  [d EXCEPT !.stored =
    [x \in Edges |->
      IF x \in d.projected \ {e} /\ @[x] = "live"
      THEN "erased" ELSE @[x]]]

\* The effect of try_project_trust_edge() when it returns Projected.
Insert(d, e) ==
  IF e \in d.projected THEN d
  ELSE LET row == [d EXCEPT !.projected = @ \cup {e}, !.frontier = @ \cup {e}]
       IN  IF e \in Neutral THEN Erase(row, e) ELSE row

\* enqueue_pending_trust_edge(): INSERT OR IGNORE on (source, prior).
FirstForGap_Always(d, e) == TRUE
FirstForGap_Repeat(d, e) == \E x \in d.pending : Prior[x] = Prior[e]
FirstForGap(d, e) == \A x \in d.pending : Prior[x] # Prior[e]
Enqueue(d, e) ==
  IF \A x \in d.pending : Prior[x] # Prior[e]
  THEN [d EXCEPT !.pending = @ \cup {e}] ELSE d

Frontier(d, e) == IF InExpansion THEN [d EXCEPT !.frontier = @ \cup {e}] ELSE d

\* The transaction of apply_one_edge_inner() up to the drain.
Applied(d, e) ==
  CASE Outcome(d, e) = "Projected"       -> Store(Insert(d, e), e)
    [] Outcome(d, e) = "EndpointMissing" -> Frontier(Store(d, e), e)
    [] Outcome(d, e) = "ChainFork"       -> Store(d, e)
    [] Outcome(d, e) = "Deferred"        -> Enqueue(d, e)

\* The transaction of reattempt_unprojected_edge() up to the drain.
Reattempted(d, e) ==
  CASE Outcome(d, e) = "Projected"       -> Insert(d, e)
    [] Outcome(d, e) = "EndpointMissing" -> Frontier(d, e)
    [] OTHER                             -> d

RecoveryFor(d, e, state) ==
  CASE Outcome(d, e) = "EndpointMissing" /\ InExpansion /\ "source" \notin d.known
         -> "UnknownSource"
    [] Outcome(d, e) = "Deferred" /\ state = "apply" /\ FirstForGap(d, e)
         -> "Predecessor"
    [] OTHER -> "none"

-----------------------------------------------------------------------------
(* The home and the wire *)

\* set_trust_edge() and delete_trust_edge() at the home: append to the chain,
\* erase the earlier payloads if neutral, and hand the edge to the forwarder.
Issue(e) ==
  /\ \A i \in 1..Len(issued) : issued[i] # e
  /\ Prior[e] = NoEdge \/ \E i \in 1..Len(issued) : issued[i] = Prior[e]
  /\ issued' = Append(issued, e)
  /\ served' = IF e \in Neutral THEN <<e>> ELSE Append(served, e)
  /\ wire' = wire \cup {e}
  /\ UNCHANGED <<txVars, workVars, used>>

\* Another copy of an edge sets out: a second relay's, a resend whose first
\* answer was lost, or replay_local_edges_to_peer().
Copy(e) ==
  /\ \E i \in 1..Len(issued) : issued[i] = e
  /\ e \notin wire
  /\ Spend("copy")
  /\ wire' = wire \cup {e}
  /\ UNCHANGED <<homeVars, txVars, workVars>>

\* A queued copy is dropped: queue caps, staleness, or a terminal status.
Lose(e) ==
  /\ e \in wire
  /\ Spend("loss")
  /\ wire' = wire \ {e}
  /\ UNCHANGED <<homeVars, txVars, workVars>>

-----------------------------------------------------------------------------
(* Applying edges *)

Goto(w, s) == pc' = [pc EXCEPT ![w] = s]

\* Handlers are interchangeable: a request takes one that is free.
Free(h) == pc[h] = "idle" /\ h = CHOOSE g \in Handlers : pc[g] = "idle"

\* A push reaches a handler.
Push(h, e) ==
  /\ Free(h)
  /\ e \in wire
  /\ todo' = [todo EXCEPT ![h] = <<e>>]
  /\ wire' = wire \ {e}
  /\ Goto(h, "lookup")
  /\ UNCHANGED <<homeVars, txVars, recovery, gap, used>>

\* The lookups of apply_one_edge_inner(), outside the transaction.  A rejected
\* or duplicate edge is done with.
Lookup(w) ==
  /\ pc[w] = "lookup"
  /\ todo[w] # <<>>
  /\ LET e == Head(todo[w])
         done == db.stored[e] = "erased" \/ (db.stored[e] = "live" /\ e \in db.projected)
     IN  /\ todo' = IF done THEN [todo EXCEPT ![w] = Tail(@)] ELSE todo
         /\ Goto(w, CASE done -> "lookup"
                      [] ~done /\ db.stored[e] = "live" -> "reattempt"
                      [] ~done /\ db.stored[e] = "none" -> "apply")
  /\ UNCHANGED <<homeVars, wire, txVars, recovery, gap, used>>

Finish(w) ==
  /\ pc[w] = "lookup"
  /\ todo[w] = <<>>
  /\ Goto(w, "idle")
  /\ gap' = [gap EXCEPT ![w] = NoEdge]
  /\ UNCHANGED <<homeVars, wire, txVars, todo, recovery, used>>

\* drain_pending_orphans_after() runs in the Projected arm.
DrainFrom_None(e) == NoEdge
DrainFrom(e) == IF Outcome(db, e) = "Projected" THEN e ELSE NoEdge

\* BEGIN IMMEDIATE, the projection and what the match on its result stores.
Begin(w) ==
  /\ pc[w] \in {"apply", "reattempt"}
  /\ tx = NoOne
  /\ LET e == Head(todo[w])
     IN  /\ wdb' = IF pc[w] = "apply" THEN Applied(db, e) ELSE Reattempted(db, e)
         /\ work' = DrainFrom(e)
         /\ recovery' = [recovery EXCEPT ![w] = RecoveryFor(db, e, pc[w])]
  /\ tx' = w
  /\ UNCHANGED <<homeVars, wire, db, pc, todo, gap, used>>

\* One round of drain_pending_orphans_after().
Waiting(d, p) == {x \in d.pending : Prior[x] = p}
DeletePending(d, x) == [d EXCEPT !.pending = @ \ {x}]

DrainNothing ==
  /\ work # NoEdge
  /\ Waiting(wdb, work) = {}
  /\ work' = NoEdge
  /\ UNCHANGED <<homeVars, wire, db, wdb, tx, workVars, used>>

DrainOne(x) ==
  /\ work # NoEdge
  /\ x \in Waiting(wdb, work)
  /\ wdb' = CASE Outcome(wdb, x) = "Projected" -> DeletePending(Store(Insert(wdb, x), x), x)
              [] Outcome(wdb, x) \in {"ChainFork", "EndpointMissing"} -> DeletePending(Store(wdb, x), x)
              [] Outcome(wdb, x) = "Deferred" -> wdb
  /\ work' = IF Outcome(wdb, x) = "Projected" THEN x ELSE NoEdge
  /\ UNCHANGED <<homeVars, wire, db, tx, workVars, used>>

\* project_remote_profile(): the stub is hydrated and the sweep begins.  The
\* profile arrives by itself, or is what the backfill of an unknown source
\* fetches.
Hydrate(w) ==
  /\ tx = NoOne
  /\ (w \in Handlers /\ Free(w)) \/ pc[w] = "author"
  /\ Spend("profile")
  /\ wdb' = [db EXCEPT !.known = @ \cup {"source"}]
  /\ tx' = w
  /\ Goto(w, "sweep")
  /\ UNCHANGED <<homeVars, wire, db, work, todo, recovery, gap>>

\* sweep_pending_projections(): stored live edges that would project, in any
\* order, each followed by a drain, until none is left.
Sweepable(d) ==
  {x \in Edges : /\ d.stored[x] = "live"
                 /\ x \notin d.projected
                 /\ Outcome(d, x) = "Projected"}

SweepOne(w) ==
  /\ tx = w
  /\ pc[w] = "sweep"
  /\ work = NoEdge
  /\ \E x \in Sweepable(wdb) : wdb' = Insert(wdb, x) /\ work' = x
  /\ UNCHANGED <<homeVars, wire, db, tx, workVars, used>>

\* On to the next edge of the request or of the page.
EdgeDone(w) ==
  /\ todo' = [todo EXCEPT ![w] = Tail(@)]
  /\ recovery' = [recovery EXCEPT ![w] = "none"]

Commit(w) ==
  /\ tx = w
  /\ work = NoEdge
  /\ pc[w] = "sweep" => Sweepable(wdb) = {}
  /\ db' = wdb
  /\ tx' = NoOne
  /\ IF pc[w] = "sweep"
     THEN Goto(w, "idle") /\ UNCHANGED <<todo, recovery>>
     ELSE IF w \in Handlers /\ recovery[w] # "none"
     THEN Goto(w, "recover") /\ UNCHANGED <<todo, recovery>>
     ELSE Goto(w, "lookup") /\ EdgeDone(w)
  /\ UNCHANGED <<homeVars, wire, wdb, work, gap, used>>

RolledBack == db

\* A database error anywhere in the transaction: rolled back, the push answers
\* 500 and the sender keeps the object; a task gives up.
Abort(w) ==
  /\ tx = w
  /\ Spend("fault")
  /\ wdb' = RolledBack
  /\ work' = NoEdge
  /\ tx' = NoOne
  /\ Goto(w, "idle")
  /\ wire' = IF w \in Handlers /\ todo[w] # <<>> THEN wire \cup {Head(todo[w])} ELSE wire
  /\ todo' = [todo EXCEPT ![w] = <<>>]
  /\ recovery' = [recovery EXCEPT ![w] = "none"]
  /\ gap' = [gap EXCEPT ![w] = NoEdge]
  /\ UNCHANGED <<homeVars, db>>

-----------------------------------------------------------------------------
(* Recovery *)

Handled(h) == Head(todo[h])

\* apply_one_edge(): spawn the recovery task if a permit is free, else skip.
Recover(h) ==
  /\ pc[h] = "recover"
  /\ \/ /\ \A k \in Tasks : pc[k] # "idle"
        /\ Goto(h, "lookup")
        /\ UNCHANGED gap
     \/ \E k \in Tasks :
          /\ pc[k] = "idle"
          /\ pc' = [pc EXCEPT ![h] = "lookup",
                              ![k] = IF recovery[h] = "Predecessor" THEN "ask" ELSE "author"]
          /\ gap' = IF recovery[h] = "Predecessor"
                    THEN [gap EXCEPT ![k] = Prior[Handled(h)]] ELSE gap
  /\ EdgeDone(h)
  /\ UNCHANGED <<homeVars, wire, txVars, used>>

\* request_edge_predecessor(): GET /edges/backfill from the chain root, one
\* page; handle_edges_backfill() serves only rows that still have a payload.
FirstPage == SubSeq(served, 1, IF Len(served) < Page THEN Len(served) ELSE Page)

Ask(k) ==
  /\ pc[k] = "ask"
  /\ todo' = [todo EXCEPT ![k] = FirstPage]
  /\ Goto(k, "lookup")
  /\ UNCHANGED <<homeVars, wire, txVars, recovery, gap, used>>

\* No home on file, the transport failed, or the peer answered no 2xx.
TaskFails(k) ==
  /\ pc[k] \in {"ask", "author"}
  /\ Spend("fault")
  /\ Goto(k, "idle")
  /\ gap' = [gap EXCEPT ![k] = NoEdge]
  /\ UNCHANGED <<homeVars, wire, txVars, todo, recovery>>

\* A backfill of gap p is about to start or under way.
Fetching(w, p) ==
  \/ gap[w] = p
  \/ w \in Handlers /\ pc[w] = "recover" /\ recovery[w] = "Predecessor" /\ Prior[Handled(w)] = p

\* evict_expired_pending_trust_edges().  A request ends long before the TTL of
\* the row that caused it.
Evict(x) ==
  /\ tx = NoOne
  /\ x \in db.pending
  /\ \A w \in Workers : ~Fetching(w, Prior[x])
  /\ Spend("evict")
  /\ db' = DeletePending(db, x)
  /\ wdb' = db'
  /\ UNCHANGED <<homeVars, wire, tx, work, workVars>>

-----------------------------------------------------------------------------

WorkerStep(w) ==
  \/ Lookup(w) \/ Finish(w) \/ Begin(w) \/ SweepOne(w) \/ Commit(w) \/ Recover(w) \/ Ask(w)

DrainStep == DrainNothing \/ \E x \in Edges : DrainOne(x)

Next ==
  \/ \E e \in Edges :
       \/ Issue(e) \/ Copy(e) \/ Lose(e) \/ Evict(e)
       \/ \E h \in Handlers : Push(h, e)
  \/ \E w \in Workers : WorkerStep(w) \/ Hydrate(w) \/ Abort(w) \/ TaskFails(w)
  \/ DrainStep

\* Handlers and tasks are polled until they complete, the write lock is handed
\* on, the home issues its chain, a queued copy is delivered, and the profile
\* of an unknown source comes.
Fairness ==
  /\ \A w \in Workers : WF_vars(WorkerStep(w)) /\ SF_vars(Begin(w))
  /\ WF_vars(DrainStep)
  /\ \A e \in Edges : WF_vars(Issue(e)) /\ SF_vars(\E h \in Handlers : Push(h, e))
  /\ SF_vars("source" \notin db.known /\ \E h \in Handlers : Hydrate(h))

Spec == Init /\ [][Next]_vars
FairSpec == Spec /\ Fairness

-----------------------------------------------------------------------------
(* Properties *)

Db ==
  [known : SUBSET Endpoints, stored : [Edges -> {"none", "live", "erased"}],
   projected : SUBSET Edges, pending : SUBSET Edges, frontier : SUBSET Edges]

TypeOK ==
  /\ issued \in Seq(Edges) /\ served \in Seq(Edges) /\ wire \subseteq Edges
  /\ db \in Db /\ wdb \in Db
  /\ tx \in Workers \cup {NoOne}
  /\ tx = NoOne => wdb = db /\ work = NoEdge
  /\ work \in Edges \cup {NoEdge}
  /\ pc \in [Workers -> {"idle", "lookup", "apply", "reattempt", "sweep", "recover", "ask", "author"}]
  /\ todo \in [Workers -> Seq(Edges)]
  /\ \A w \in Workers : pc[w] \in {"apply", "reattempt", "recover"} => todo[w] # <<>>
  /\ recovery \in [Workers -> {"none", "Predecessor", "UnknownSource"}]
  /\ gap \in [Workers -> Edges \cup {NoEdge}]
  /\ used \in [DOMAIN Bound -> Nat]

\* What the pair's projected edges look like to every reader: one chain, each
\* edge preceded by its predecessor, never two successors of one edge, and
\* each with its signed object on file.
ChainIntact ==
  \A e \in db.projected :
    /\ Prior[e] = NoEdge \/ Prior[e] \in db.projected
    /\ ~ \E x \in db.projected \ {e} : Prior[x] = Prior[e]
    /\ db.stored[e] # "none"

\* No orphan is left in pending_trust_edges once its predecessor is projected
\* by whatever path: push, sweep, backfill or drain.
NoStrandedOrphan == \A x \in db.pending : Prior[x] \notin db.projected

\* The sets that hold the predecessor of each of their edges, and the ancestors
\* of an edge: what is in all of them that hold the edge.
Closed == {S \in SUBSET (Edges \cup {NoEdge}) : \A y \in S \cap Edges : Prior[y] \in S}
Ancestors ==
  [e \in Edges |-> {x \in Edges \ {e} : \A S \in Closed : e \in S => x \in S}]

\* A neutral edge leaves no earlier payload of the pair readable, and no
\* redelivery, drain, sweep or backfill brings one back.
RevokedIsErased ==
  \A n \in db.projected \cap Neutral : \A x \in Ancestors[n] : db.stored[x] = "erased"

\* However many copies of an orphan and of its siblings arrive at a time, a
\* gap is fetched by at most one backfill task.
OneFetchPerGap ==
  \A v, w \in Workers, p \in Edges : Fetching(v, p) /\ Fetching(w, p) => v = w

\* OneFetchPerGap, on top of the types.
GapsFetchedOnce == TypeOK /\ OneFetchPerGap

\* edge_backfill.rs: "correctness is restored — the missing predecessor is in
\* the response": a revocation that is buffered for want of its predecessor
\* takes effect in the end.
RevocationTakesEffect == \A n \in Neutral : n \in db.pending ~> n \in db.projected
=============================================================================
