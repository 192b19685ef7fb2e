------------------------------ MODULE Frontier ------------------------------
(***************************************************************************)
(* How one instance tells a peer which keys it follows, and what the peer  *)
(* does with it (server/src/federation/frontier.rs).  The announcing side  *)
(* keeps a versioned snapshot in memory, refreshed from the database by a  *)
(* worker and by every announcement; the receiving side stores the latest  *)
(* version, the age ceilings that came with it, and sends the peer those   *)
(* of its trust edges that the new frontier asks for.                      *)
(***************************************************************************)
EXTENDS Integers, FiniteSets

CONSTANTS
  Keys,        \* user keys a frontier may hold
  Announcers,  \* announcements under way on the announcing side
  Handlers,    \* requests being served on the receiving side
  Ceils,       \* values of the age ceilings
  MaxVersion,  \* bound on versions
  MaxChanges,  \* bound on changes of the announcing side's database
  MaxRestarts  \* bound on restarts of the announcing side

VARIABLES
  world,    \* announcing side, database: keys of the closure, age ceilings
  changes, restarts,
  local,    \* state.local_frontier
  dirty,    \* the permit of frontier_dirty
  fan,      \* frontier_fanout_once()
  ann,      \* per announcer operator_announce_frontier()
  wire,     \* announcements sent
  row,      \* receiving side: peer_frontiers row of the announcing side
  ceil,     \* receiving side: peer_frontier_age_ceilings
  hnd,      \* per handler the request it serves
  edges,    \* receiving side: targets of trust edges signed here
  signer,   \* set_trust_edge() between its commit and its fanout
  pushed    \* targets whose edge was handed to the forwarder for this peer

frontVars == <<world, changes, restarts, local, dirty, fan, ann, wire, row, ceil, hnd, edges, signer, pushed>>
sendVars == <<world, changes, restarts, local, dirty, fan, ann, wire>>
recvVars == <<row, ceil, hnd, edges, signer, pushed>>

Empty == [ver |-> 0, set |-> {}, ceil |-> 0]
Full(f) == [base |-> -1, ver |-> f.ver, set |-> f.set, ceil |-> f.ceil]
NoRow == [ver |-> -1, set |-> {}, full |-> {}]
Idle == [pc |-> "idle", seen |-> Empty]
NoHnd == [pc |-> "idle", msg |-> Full(Empty)]

FrontInit ==
  /\ world = [set |-> Keys, ceil |-> 0] /\ changes = 0 /\ restarts = 0
  /\ local = Empty /\ dirty = TRUE /\ fan = Idle
  /\ ann = [a \in Announcers |-> Idle] /\ wire = {}
  /\ row = NoRow /\ ceil = 0 /\ hnd = [h \in Handlers |-> NoHnd]
  /\ edges = {} /\ signer = {} /\ pushed = {}

-----------------------------------------------------------------------------
(* The announcing side.                                                    *)

\* The graph or the ceilings change; the rebuild fires frontier_dirty.
WorldChanges ==
  /\ changes < MaxChanges /\ changes' = changes + 1
  /\ \E s \in SUBSET Keys, c \in Ceils :
       world' = [set |-> s, ceil |-> c] /\ world' # world
  /\ dirty' = TRUE
  /\ UNCHANGED <<restarts, local, fan, ann, wire, recvVars>>

\* compute_local_frontier(), before the lock is taken.
Computed == [pc |-> "computed", seen |-> [ver |-> 0, set |-> world.set, ceil |-> world.ceil]]

\* refresh_local_frontier_detailed() under the lock: the filters decide whether this is
\* a new version; the ceilings ride along with it.
Changed(next) == next.set # local.set
NewVersion(next) == [next EXCEPT !.ver = local.ver + 1]
Refreshed(next) == IF Changed(next) THEN NewVersion(next) ELSE local

\* frontier_fanout_loop(), frontier_fanout_once().
FanoutWakes ==
  /\ fan.pc = "idle" /\ dirty
  /\ dirty' = FALSE /\ fan' = Computed
  /\ UNCHANGED <<world, changes, restarts, local, ann, wire, recvVars>>

FanoutSwaps ==
  /\ fan.pc = "computed" /\ local.ver < MaxVersion
  /\ local' = Refreshed(fan.seen)
  /\ fan' = IF Changed(fan.seen) THEN [Idle EXCEPT !.pc = "spawn"] ELSE Idle
  /\ UNCHANGED <<world, changes, restarts, dirty, ann, wire, recvVars>>

\* announce_to_peer() is spawned and not waited for.
FanoutSpawns(a) ==
  /\ fan.pc = "spawn" /\ ann[a].pc = "idle"
  /\ fan' = Idle /\ ann' = [ann EXCEPT ![a].pc = "go"]
  /\ UNCHANGED <<world, changes, restarts, local, dirty, wire, recvVars>>

\* spawn_first_contact_announce(), or the operator asks for one.
FirstContact(a) ==
  /\ ann[a].pc = "idle" /\ row = NoRow
  /\ ann' = [ann EXCEPT ![a].pc = "go"]
  /\ UNCHANGED <<world, changes, restarts, local, dirty, fan, wire, recvVars>>

AnnounceComputes(a) ==
  /\ ann[a].pc = "go"
  /\ ann' = [ann EXCEPT ![a] = Computed]
  /\ UNCHANGED <<world, changes, restarts, local, dirty, fan, wire, recvVars>>

\* The refreshed snapshot is sent; it may be lost, and may arrive late or again.  This
\* code always sends it whole; one that only grew may be sent as a delta on the version
\* before, as the handler of the other side allows.
Delta(next) == [base |-> local.ver, ver |-> local.ver + 1, set |-> next.set \ local.set,
                ceil |-> IF next.ceil = local.ceil THEN 0 ELSE next.ceil]
AnnounceSends(a) ==
  LET next == ann[a].seen IN
  /\ ann[a].pc = "computed" /\ local.ver < MaxVersion
  /\ local' = Refreshed(next)
  /\ \/ wire' = wire \union {Full(local')}
     \/ /\ Changed(next) /\ local.set \subseteq next.set /\ next.ceil \in {local.ceil} \union (Ceils \ {0})
        /\ wire' = wire \union {Delta(next)}
  /\ ann' = [ann EXCEPT ![a] = Idle]
  /\ UNCHANGED <<world, changes, restarts, dirty, fan, recvVars>>

\* The process stops and starts again: the snapshot is only in memory.
Restart ==
  /\ restarts < MaxRestarts /\ restarts' = restarts + 1
  /\ local' = Empty /\ dirty' = TRUE /\ fan' = Idle
  /\ ann' = [a \in Announcers |-> Idle]
  /\ UNCHANGED <<world, changes, wire, recvVars>>

-----------------------------------------------------------------------------
(* The receiving side.                                                     *)

Step(h, pc, msg) == hnd' = [hnd EXCEPT ![h] = [pc |-> pc, msg |-> msg]]

\* handle_frontier_announce() up to the read: an older version is refused, the same
\* version is answered as it stands.
AnnounceArrives(h, m) ==
  /\ hnd[h].pc = "idle" /\ m.base = -1 /\ m.ver > row.ver
  /\ Step(h, "apply", m)
  /\ UNCHANGED <<row, ceil, edges, signer, pushed, sendVars>>

\* bootstrap_frontier_pull(): the other side's snapshot of the moment.
BootstrapPull(h) ==
  /\ hnd[h].pc = "idle" /\ row = NoRow
  /\ Step(h, "apply", Full(local))
  /\ UNCHANGED <<row, ceil, edges, signer, pushed, sendVars>>

\* apply_inbound_frontier(): the guarded upsert ...
Guard(m) == m.ver > row.ver
ApplyUpserts(h) ==
  LET m == hnd[h].msg IN
  /\ hnd[h].pc = "apply"
  /\ IF Guard(m)
     THEN /\ row' = [ver |-> m.ver, set |-> m.set, full |-> m.set]
          /\ Step(h, "ceilings", m)
     ELSE UNCHANGED row /\ hnd' = [hnd EXCEPT ![h] = NoHnd]
  /\ UNCHANGED <<ceil, edges, signer, pushed, sendVars>>

\* ... replace_peer_age_ceilings(), in a transaction of its own ...
ApplyCeilings(h) ==
  /\ hnd[h].pc = "ceilings"
  /\ ceil' = hnd[h].msg.ceil
  /\ Step(h, "replay", hnd[h].msg)
  /\ UNCHANGED <<row, edges, signer, pushed, sendVars>>

\* ... and replay_local_edges_to_peer() over the edges of that moment.
Replayed_None(m) == {}
Replayed(m) == edges \intersect m.set
ApplyReplays(h) ==
  /\ hnd[h].pc = "replay"
  /\ pushed' = pushed \union Replayed(hnd[h].msg)
  /\ hnd' = [hnd EXCEPT ![h] = NoHnd]
  /\ UNCHANGED <<row, ceil, edges, signer, sendVars>>

\* handle_frontier_delta(): the version it builds on is compared with the row, what was
\* read is then extended and written back without the guard.
DeltaArrives(h, m) ==
  /\ hnd[h].pc = "idle" /\ m.base >= 0 /\ m.base = row.ver
  /\ Step(h, "delta", [m EXCEPT !.set = row.set \union @])
  /\ UNCHANGED <<row, ceil, edges, signer, pushed, sendVars>>
DeltaUpdates(h) ==
  LET m == hnd[h].msg IN
  /\ hnd[h].pc = "delta"
  /\ row' = [row EXCEPT !.ver = m.ver, !.set = m.set, !.full = @ \intersect m.set]
  /\ Step(h, "merge", m)
  /\ UNCHANGED <<ceil, edges, signer, pushed, sendVars>>

\* merge_peer_age_ceilings(): a delta without ceilings leaves them, and nothing is replayed.
DeltaMerges(h) ==
  /\ hnd[h].pc = "merge"
  /\ ceil' = IF hnd[h].msg.ceil = 0 THEN ceil ELSE hnd[h].msg.ceil
  /\ hnd' = [hnd EXCEPT ![h] = NoHnd]
  /\ UNCHANGED <<row, edges, signer, pushed, sendVars>>

\* A local user signs an edge; peers_interested_in() is asked after the commit.
EdgeSigned(k) ==
  /\ k \notin edges
  /\ edges' = edges \union {k} /\ signer' = signer \union {k}
  /\ UNCHANGED <<row, ceil, hnd, pushed, sendVars>>
EdgeRouted(k) ==
  /\ k \in signer
  /\ pushed' = IF k \in row.set THEN pushed \union {k} ELSE pushed
  /\ signer' = signer \ {k}
  /\ UNCHANGED <<row, ceil, hnd, edges, sendVars>>

-----------------------------------------------------------------------------

FrontNext ==
  \/ WorldChanges \/ FanoutWakes \/ FanoutSwaps \/ Restart
  \/ \E a \in Announcers : \/ FanoutSpawns(a) \/ FirstContact(a) \/ AnnounceComputes(a)
                           \/ AnnounceSends(a)
  \/ \E h \in Handlers : \/ BootstrapPull(h) \/ ApplyUpserts(h) \/ ApplyCeilings(h)
                         \/ ApplyReplays(h) \/ DeltaUpdates(h) \/ DeltaMerges(h)
                         \/ \E m \in wire : AnnounceArrives(h, m) \/ DeltaArrives(h, m)
  \/ \E k \in Keys : EdgeSigned(k) \/ EdgeRouted(k)

FrontSpec == FrontInit /\ [][FrontNext]_frontVars

-----------------------------------------------------------------------------
(* Properties.                                                             *)

\* The variables have their types.
FrontTypeOK ==
  /\ local.ver \in 0..MaxVersion /\ local.set \subseteq Keys
  /\ row.ver \in -1..MaxVersion /\ row.set \subseteq Keys /\ pushed \subseteq Keys
  /\ \A h \in Handlers : hnd[h].pc \in {"idle", "apply", "ceilings", "replay", "delta", "merge"}

\* Announcements that cross on the way never take the stored version back: only a delta,
\* which is written without the guard, can.
VersionNeverBackStep ==
  row'.ver < row.ver => \E h \in Handlers : hnd[h].pc = "delta" /\ hnd'[h].pc = "merge"

\* A version stands for one frontier: until the announcing side restarts no two of its
\* announcements of the same version differ.
VersionNamesFrontier ==
  restarts = 0 => \A m, n \in wire : m.base = -1 /\ n.base = -1 /\ m.ver = n.ver => m.set = n.set

\* "re-push the edges whose target it covers": once the announcement is applied and no
\* request is under way, every edge the announced frontier asks for was sent, whether it
\* was signed before, during or after.
NoEdgeMissed ==
  (signer = {} /\ \A h \in Handlers : hnd[h].pc = "idle") => edges \intersect row.full \subseteq pushed

=============================================================================
