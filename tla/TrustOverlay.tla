---------------------------- MODULE TrustOverlay ----------------------------
(***************************************************************************)
(* One viewer's trust edges, the cached graph that is rebuilt from them in *)
(* the background, and the pending deltas laid over the cached graph until *)
(* a rebuild has absorbed them (server/src/trust.rs, PendingDeltas and     *)
(* rebuild_loop; server/src/users.rs, the two handlers).  The handlers,    *)
(* several of which may run for the viewer at once, and the rebuild share  *)
(* a sequence counter and nothing else.  The viewer and the targets are    *)
(* users whom other trust edges touch, so every graph indexes them         *)
(* (TrustScores models the index), and two requests on one target commit   *)
(* in the order of their stamps (TrustLog models the other order).         *)
(***************************************************************************)
EXTENDS Integers, FiniteSets

CONSTANTS
  Targets,    \* users the viewer clicks on
  Clicks,     \* requests of the viewer
  MaxFails    \* bound on rebuilds that fail

VARIABLES
  db,       \* current_trust_edges of the viewer: the stance, and how many edges led to it
  graph,    \* the cached graph, per target: a trust edge, a distrust edge, the count it saw
  delta,    \* the viewer's ViewerDelta: per target what to add and to remove
  dseq,     \* ViewerDelta.seq, 0 without an entry
  seq,      \* PendingDeltas.seq_counter
  click,    \* per request its progress
  permit,   \* trust_graph_notify
  loop,     \* rebuild_loop()
  fails

overlayVars == <<db, graph, delta, dseq, seq, click, permit, loop, fails>>

Stances == {"neutral", "trust", "distrust"}
NoDelta == [add |-> {}, drop |-> {}, of |-> 0]
Fresh == [pc |-> "new", to |-> CHOOSE t \in Targets : TRUE, was |-> {}, stance |-> "neutral", seq |-> 0, of |-> 0]
Waiting == [pc |-> "wait", hw |-> 0, graph |-> [t \in Targets |-> [trust |-> FALSE, distrust |-> FALSE, of |-> 0]]]

OverlayInit ==
  /\ \E s \in [Targets -> {"neutral", "trust"}] :
       /\ db = [t \in Targets |-> [stance |-> s[t], of |-> 0]]
       /\ graph = [t \in Targets |-> [trust |-> s[t] = "trust", distrust |-> FALSE, of |-> 0]]
  /\ delta = [t \in Targets |-> NoDelta] /\ dseq = 0 /\ seq = 1
  /\ click = [c \in Clicks |-> Fresh] /\ permit = FALSE /\ loop = Waiting /\ fails = 0

-----------------------------------------------------------------------------
(* set_trust_edge(), delete_trust_edge().                                  *)

\* What the cached graph says of the edge, read before the transaction.
Cached(t) == {s \in {"trust", "distrust"} : IF s = "trust" THEN graph[t].trust ELSE graph[t].distrust}
Snapshot(c, t, s) ==
  /\ click[c].pc = "new"
  /\ click' = [click EXCEPT ![c] = [@ EXCEPT !.pc = "commit", !.to = t, !.stance = s, !.was = Cached(t)]]
  /\ UNCHANGED <<db, graph, delta, dseq, seq, permit, loop, fails>>

\* The edge is appended; a tombstone only where an edge is active.
Commit(c) ==
  LET t == click[c].to IN
  /\ click[c].pc = "commit"
  /\ IF click[c].stance = "neutral" /\ db[t].stance = "neutral"
     THEN /\ click' = [click EXCEPT ![c] = [Fresh EXCEPT !.pc = "done"]] /\ UNCHANGED db
     ELSE /\ db' = [db EXCEPT ![t] = [stance |-> click[c].stance, of |-> @.of + 1]]
          /\ click' = [click EXCEPT ![c] = [@ EXCEPT !.pc = "seq", !.of = db[t].of + 1]]
  /\ UNCHANGED <<graph, delta, dseq, seq, permit, loop, fails>>

\* PendingDeltas::apply(): the sequence number first, then the lock.
FetchSeq(c) ==
  /\ click[c].pc = "seq"
  /\ seq' = seq + 1
  /\ click' = [click EXCEPT ![c] = [@ EXCEPT !.pc = "record", !.seq = seq]]
  /\ UNCHANGED <<db, graph, delta, dseq, permit, loop, fails>>

\* What the overlay has to add and to take away, given what the graph was seen to say.
Overlay(was, stance, n) ==
  [add |-> {s \in {"trust", "distrust"} : s = stance} \ was, drop |-> was \ {stance}, of |-> n]
IsEmpty(d) == \A t \in Targets : d[t].add = {} /\ d[t].drop = {}

\* notify_one() keeps a permit when nobody waits.
Notified_WaitersOnly == permit \/ loop.pc = "wait"
Notified == TRUE

Record(c) ==
  LET t == click[c].to
      d == [delta EXCEPT ![t] = Overlay(click[c].was, click[c].stance, click[c].of)]
  IN
  /\ click[c].pc = "record"
  /\ delta' = IF IsEmpty(d) THEN [u \in Targets |-> NoDelta] ELSE d
  /\ dseq' = IF IsEmpty(d) THEN 0 ELSE IF click[c].seq > dseq THEN click[c].seq ELSE dseq
  /\ click' = [click EXCEPT ![c] = [Fresh EXCEPT !.pc = "done"]]
  /\ permit' = Notified
  /\ UNCHANGED <<db, graph, seq, loop, fails>>

-----------------------------------------------------------------------------
(* rebuild_loop(), rebuild_trust_graph(), TrustGraph::build().             *)

Wake ==
  /\ loop.pc = "wait" /\ permit
  /\ permit' = FALSE /\ loop' = [Waiting EXCEPT !.pc = "window"]
  /\ UNCHANGED <<db, graph, delta, dseq, seq, click, fails>>

\* Another click restarts the debounce.
Debounce ==
  /\ loop.pc = "window" /\ permit /\ permit' = FALSE
  /\ UNCHANGED <<db, graph, delta, dseq, seq, click, loop, fails>>

\* The window ends: the high-water mark is taken before the database is read.
Capture ==
  /\ loop.pc = "window"
  /\ loop' = [loop EXCEPT !.pc = "trust", !.hw = seq]
  /\ UNCHANGED <<db, graph, delta, dseq, seq, click, permit, fails>>

\* Two queries, without a transaction around them.
ReadTrust ==
  /\ loop.pc = "trust"
  /\ loop' = [loop EXCEPT !.pc = "distrust",
                !.graph = [t \in Targets |-> [trust |-> db[t].stance = "trust", distrust |-> FALSE, of |-> db[t].of]]]
  /\ UNCHANGED <<db, graph, delta, dseq, seq, click, permit, fails>>

ReadDistrust ==
  /\ loop.pc = "distrust"
  /\ loop' = [loop EXCEPT !.pc = "swap",
                !.graph = [t \in Targets |-> [@[t] EXCEPT !.distrust = db[t].stance = "distrust"]]]
  /\ UNCHANGED <<db, graph, delta, dseq, seq, click, permit, fails>>

Swap ==
  /\ loop.pc = "swap"
  /\ graph' = loop.graph /\ loop' = [Waiting EXCEPT !.pc = "purge", !.hw = loop.hw]
  /\ UNCHANGED <<db, delta, dseq, seq, click, permit, fails>>

\* purge_below()
HighWater_Late == seq
HighWater == loop.hw
Purges == dseq > 0 /\ dseq < HighWater
Purge ==
  /\ loop.pc = "purge"
  /\ delta' = IF Purges THEN [t \in Targets |-> NoDelta] ELSE delta
  /\ dseq' = IF Purges THEN 0 ELSE dseq
  /\ loop' = Waiting
  /\ UNCHANGED <<db, graph, seq, click, permit, fails>>

\* A query fails: nothing is swapped, nothing is purged, nothing is tried again.
Fail ==
  /\ loop.pc \in {"trust", "distrust"} /\ fails < MaxFails
  /\ fails' = fails + 1 /\ loop' = Waiting
  /\ UNCHANGED <<db, graph, delta, dseq, seq, click, permit>>

LoopStep == Wake \/ Debounce \/ Capture \/ ReadTrust \/ ReadDistrust \/ Swap \/ Purge
OverlayNext ==
  \/ \E c \in Clicks : \/ \E t \in Targets, s \in Stances : Snapshot(c, t, s)
                       \/ Commit(c) \/ FetchSeq(c) \/ Record(c)
  \/ LoopStep \/ Fail

\* A request that committed is carried to its end; the background task keeps running.
OverlayFair == WF_overlayVars(LoopStep) /\ \A c \in Clicks : WF_overlayVars(FetchSeq(c) \/ Record(c))
OverlaySpec == OverlayInit /\ [][OverlayNext]_overlayVars /\ OverlayFair

-----------------------------------------------------------------------------
(* Properties.                                                             *)

\* apply_delta_overlay(), and the override of distrust: what the viewer is shown.
View(t) ==
  LET d == delta[t]
      says(s) == (s \in Cached(t) /\ s \notin d.drop) \/ s \in d.add
  IN IF says("distrust") THEN "distrust" ELSE IF says("trust") THEN "trust" ELSE "neutral"

PurgedIsReflectedStep ==
  dseq > 0 /\ loop.pc = "purge" /\ loop'.pc = "wait" /\ dseq' = 0
    => \A t \in Targets : delta[t].of <= graph[t].of

\* A purge drops no click the new graph has not read: whatever the order in which the
\* requests committed, took their numbers and recorded, what is dropped is in the graph.
PurgedIsReflected == [][PurgedIsReflectedStep]_overlayVars

\* Once the clicks have ended and no rebuild failed, the viewer is shown the stances of
\* the database for good: no permit and no delta is lost, or kept, along the way.
Settles == <>[](fails = 0 /\ (\A c \in Clicks : click[c].pc \in {"new", "commit", "done"})
                  => \A t \in Targets : View(t) = db[t].stance)

=============================================================================
