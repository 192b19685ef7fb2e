---------------------------- MODULE TrustProofs ----------------------------
(***************************************************************************)
(* Three proofs about the trust graph, for every value of the constants.   *)
(*                                                                         *)
(* TrustOverlay (server/src/trust.rs): purge_below() drops no click that   *)
(* the graph just swapped in has not read, for any number of requests and  *)
(* targets.  A sequence number is drawn after the commit, and the          *)
(* high-water mark before the database is read; so whatever was recorded   *)
(* under a number below the mark was committed before the read.            *)
(*                                                                         *)
(* TrustLog (server/src/users.rs, signing.rs): whatever order requests are *)
(* stamped and committed in, a row cites the maximum by (time, hash) of    *)
(* the rows before it; so a row is cited twice only after one was written  *)
(* behind it, and an erased row is shown only above such a revocation.     *)
(* That the maxima exist when rows tie is part of the inductive invariant. *)
(*                                                                         *)
(* Interest (bloom.rs, routing.rs): an object about a key of the closure   *)
(* that a peer has announced is routed to it, and a peering never starts   *)
(* in all-mode.                                                            *)
(***************************************************************************)
EXTENDS TrustOverlay, TrustLog, Interest, TLAPS

To == Targets \union {CHOOSE t \in Targets : TRUE}
ClickType == [pc : {"new", "commit", "seq", "record", "done"}, to : To, was : SUBSET {"trust", "distrust"}, stance : Stances,
              seq : Nat, of : Nat]
GraphType == [Targets -> [trust : BOOLEAN, distrust : BOOLEAN, of : Nat]]
LoopPcs == {"wait", "window", "trust", "distrust", "swap", "purge"}

OverlayTypes ==
  /\ db \in [Targets -> [stance : Stances, of : Nat]]
  /\ graph \in GraphType
  /\ delta \in [Targets -> [add : SUBSET {"trust", "distrust"}, drop : SUBSET {"trust", "distrust"}, of : Nat]]
  /\ dseq \in Nat /\ seq \in Nat /\ seq > 0
  /\ click \in [Clicks -> ClickType]
  /\ \A c \in Clicks : click[c].pc \in {"commit", "seq", "record"} => click[c].to \in Targets
  /\ loop \in [pc : LoopPcs, hw : Nat, graph : GraphType]

\* What is recorded or about to be is in the database, and the numbers drawn are below the counter.
Committed ==
  /\ \A t \in Targets : delta[t].of <= db[t].of
  /\ \A c \in Clicks : click[c].pc \in {"seq", "record"} => click[c].of <= db[click[c].to].of
  /\ loop.hw <= seq

\* g has read every click recorded, or about to be recorded, under a number below the mark.
Reflects(g) ==
  /\ dseq < loop.hw => \A t \in Targets : delta[t].of <= g[t].of
  /\ \A c \in Clicks : click[c].pc = "record" /\ click[c].seq < loop.hw => click[c].of <= g[click[c].to].of

\* Inductive: from its read to the purge, the graph being built reflects what is below the mark.
PurgeInv ==
  /\ OverlayTypes /\ Committed
  /\ loop.pc \in {"distrust", "swap"} => Reflects(loop.graph)
  /\ loop.pc = "purge" => Reflects(graph)

-----------------------------------------------------------------------------

LEMMA OverlayStarts == OverlayInit => PurgeInv
<1> SUFFICES ASSUME OverlayInit PROVE PurgeInv
  OBVIOUS
<1>1. PICK s \in [Targets -> {"neutral", "trust"}] :
        /\ db = [t \in Targets |-> [stance |-> s[t], of |-> 0]]
        /\ graph = [t \in Targets |-> [trust |-> s[t] = "trust", distrust |-> FALSE, of |-> 0]]
  BY Zenon DEF OverlayInit
<1>2. db \in [Targets -> [stance : Stances, of : Nat]] /\ graph \in GraphType
  BY <1>1 DEF Stances, GraphType
<1>3. Fresh \in ClickType /\ Fresh.pc = "new"
  BY DEF Fresh, ClickType, To, Stances
<1>4. /\ Waiting \in [pc : LoopPcs, hw : Nat, graph : GraphType]
      /\ Waiting.pc = "wait" /\ Waiting.hw = 0
  BY DEF Waiting, LoopPcs, GraphType
<1>5. OverlayTypes
  BY <1>2, <1>3, <1>4 DEF OverlayInit, OverlayTypes, NoDelta
<1>6. Committed
  BY <1>1, <1>3, <1>4 DEF OverlayInit, Committed, NoDelta
<1> QED
  BY <1>4, <1>5, <1>6 DEF PurgeInv, OverlayInit

LEMMA OverlayTypesStep == OverlayTypes /\ [OverlayNext]_overlayVars => OverlayTypes'
<1> SUFFICES ASSUME OverlayTypes, [OverlayNext]_overlayVars PROVE OverlayTypes'
  OBVIOUS
<1>f. Fresh \in ClickType
  BY DEF Fresh, ClickType, To, Stances
<1>w. Waiting \in [pc : LoopPcs, hw : Nat, graph : GraphType]
  BY DEF Waiting, LoopPcs, GraphType
<1>1. ASSUME NEW c \in Clicks, NEW t \in Targets, NEW s \in Stances, Snapshot(c, t, s) PROVE OverlayTypes'
  <2>1. Cached(t) \in SUBSET {"trust", "distrust"} /\ t \in To
    BY DEF Cached, To
  <2>2. [click[c] EXCEPT !.pc = "commit", !.to = t, !.stance = s, !.was = Cached(t)] \in ClickType
    BY ZenonT(60), <2>1 DEF OverlayTypes, ClickType
  <2> QED
    BY <1>1, <2>2 DEF Snapshot, OverlayTypes
<1>2. ASSUME NEW c \in Clicks, Commit(c) PROVE OverlayTypes'
  <2>1. click[c] \in ClickType
    BY DEF OverlayTypes
  <2>2. [Fresh EXCEPT !.pc = "done"] \in ClickType
    BY <1>f DEF ClickType
  <2>3. click[c].to \in Targets
    BY <1>2 DEF Commit, OverlayTypes
  <2>4. CASE click[c].stance = "neutral" /\ db[click[c].to].stance = "neutral"
    <3>1. click' = [click EXCEPT ![c] = [Fresh EXCEPT !.pc = "done"]]
          /\ UNCHANGED <<db, graph, delta, dseq, seq, loop>>
      BY <1>2, <2>4 DEF Commit
    <3>2. [Fresh EXCEPT !.pc = "done"].pc = "done"
      BY <1>f DEF ClickType
    <3> QED
      BY <3>1, <3>2, <2>2 DEF OverlayTypes
  <2>5. CASE ~(click[c].stance = "neutral" /\ db[click[c].to].stance = "neutral")
    <3>1. /\ db' = [db EXCEPT ![click[c].to] = [stance |-> click[c].stance, of |-> @.of + 1]]
          /\ click' = [click EXCEPT ![c] = [@ EXCEPT !.pc = "seq", !.of = db[click[c].to].of + 1]]
          /\ UNCHANGED <<graph, delta, dseq, seq, loop>>
      BY <1>2, <2>5 DEF Commit
    <3>2. db[click[c].to].of + 1 \in Nat /\ click[c].stance \in Stances
      BY <2>1, <2>3 DEF OverlayTypes, ClickType
    <3>3. /\ [click[c] EXCEPT !.pc = "seq", !.of = db[click[c].to].of + 1] \in ClickType
          /\ [click[c] EXCEPT !.pc = "seq", !.of = db[click[c].to].of + 1].to = click[c].to
      BY <3>2, <2>1, Zenon DEF ClickType
    <3>4. click' \in [Clicks -> ClickType]
      BY <3>1, <3>3 DEF OverlayTypes
    <3>5. [stance |-> click[c].stance, of |-> db[click[c].to].of + 1] \in [stance : Stances, of : Nat]
      BY <3>2
    <3>6. db' \in [Targets -> [stance : Stances, of : Nat]]
      BY <3>1, <3>5, Zenon DEF OverlayTypes
    <3>7. \A b \in Clicks : click'[b].pc \in {"commit", "seq", "record"} => click'[b].to \in Targets
      BY <3>1, <3>3, <2>3 DEF OverlayTypes
    <3> QED
      BY <3>1, <3>4, <3>6, <3>7 DEF OverlayTypes
  <2> QED
    BY <2>4, <2>5
<1>3. ASSUME NEW c \in Clicks, FetchSeq(c) PROVE OverlayTypes'
  <2>1. [click[c] EXCEPT !.pc = "record", !.seq = seq] \in ClickType
    BY ZenonT(60) DEF OverlayTypes, ClickType
  <2> QED
    BY <1>3, <2>1 DEF FetchSeq, OverlayTypes
<1>4. ASSUME NEW c \in Clicks, Record(c) PROVE OverlayTypes'
  <2> DEFINE DT == [add : SUBSET {"trust", "distrust"}, drop : SUBSET {"trust", "distrust"}, of : Nat]
             o == Overlay(click[c].was, click[c].stance, click[c].of)
             d == [delta EXCEPT ![click[c].to] = o]
  <2>1. click[c] \in ClickType
    BY DEF OverlayTypes
  <2>2. o \in DT
    BY <2>1 DEF Overlay, ClickType, Stances
  <2>3. d \in [Targets -> DT] /\ [u \in Targets |-> NoDelta] \in [Targets -> DT]
    BY <2>2, Zenon DEF OverlayTypes, NoDelta
  <2>4. delta' \in [Targets -> DT]
    BY <1>4, <2>3 DEF Record
  <2>5. dseq' \in Nat
    BY <1>4, <2>1 DEF Record, OverlayTypes, ClickType
  <2>6. [Fresh EXCEPT !.pc = "done"] \in ClickType
    BY <1>f DEF ClickType
  <2>7. click' \in [Clicks -> ClickType]
    BY <1>4, <2>6 DEF Record, OverlayTypes
  <2> QED
    BY <1>4, <2>4, <2>5, <2>7 DEF Record, OverlayTypes
<1>5. ASSUME Wake PROVE OverlayTypes'
  BY <1>5, <1>w DEF Wake, OverlayTypes, LoopPcs
<1>6. ASSUME Debounce PROVE OverlayTypes'
  BY <1>6 DEF Debounce, OverlayTypes
<1>7. ASSUME Capture PROVE OverlayTypes'
  BY <1>7, Zenon DEF Capture, OverlayTypes, LoopPcs
<1>8. ASSUME ReadTrust PROVE OverlayTypes'
  <2>1. [t \in Targets |-> [trust |-> db[t].stance = "trust", distrust |-> FALSE, of |-> db[t].of]] \in GraphType
    BY SMTT(40) DEF OverlayTypes, GraphType
  <2> QED
    BY <1>8, <2>1, Zenon DEF ReadTrust, OverlayTypes, LoopPcs
<1>9. ASSUME ReadDistrust PROVE OverlayTypes'
  <2>1. loop.graph \in GraphType
    BY DEF OverlayTypes
  <2>2. [t \in Targets |-> [loop.graph[t] EXCEPT !.distrust = db[t].stance = "distrust"]] \in GraphType
    BY <2>1, Zenon DEF GraphType
  <2> QED
    BY <1>9, <2>2, Zenon DEF ReadDistrust, OverlayTypes, LoopPcs
<1>10. ASSUME Swap PROVE OverlayTypes'
  BY <1>10, <1>w, Zenon DEF Swap, OverlayTypes, LoopPcs
<1>11. ASSUME Purge PROVE OverlayTypes'
  BY <1>11, <1>w DEF Purge, OverlayTypes, NoDelta
<1>12. ASSUME Fail PROVE OverlayTypes'
  BY <1>12, <1>w DEF Fail, OverlayTypes
<1>13. ASSUME UNCHANGED overlayVars PROVE OverlayTypes'
  BY SMTT(40), <1>13 DEF overlayVars, OverlayTypes
<1> QED
  BY <1>1, <1>2, <1>3, <1>4, <1>5, <1>6, <1>7, <1>8, <1>9, <1>10, <1>11, <1>12, <1>13 DEF OverlayNext, LoopStep

\* The database only grows, one edge at a time.
LEMMA EdgesGrow ==
  ASSUME OverlayTypes, [OverlayNext]_overlayVars, NEW t \in Targets PROVE db'[t].of >= db[t].of
<1>1. ASSUME NEW c \in Clicks, Commit(c) PROVE db'[t].of >= db[t].of
  <2>1. \/ db' = db
        \/ db' = [db EXCEPT ![click[c].to] = [stance |-> click[c].stance, of |-> @.of + 1]]
    BY <1>1 DEF Commit
  <2>2. db[t].of \in Nat
    BY DEF OverlayTypes
  <2>3. db'[t].of = db[t].of \/ db'[t].of = db[t].of + 1
    BY <2>1 DEF OverlayTypes
  <2> QED
    BY <2>2, <2>3
<1>2. CASE UNCHANGED db
  BY <1>2 DEF OverlayTypes
<1> QED
  BY <1>1, <1>2, Zenon DEF OverlayNext, LoopStep, Snapshot, FetchSeq, Record, Wake, Debounce, Capture, ReadTrust,
                    ReadDistrust, Swap, Purge, Fail, overlayVars

\* A step of the rebuild that leaves the clicks and the deltas alone keeps Committed.
LEMMA CommittedFrame ==
  ASSUME Committed, UNCHANGED <<db, delta, click, seq>>, loop'.hw <= seq PROVE Committed'
  BY DEF Committed

LEMMA CommittedStep == PurgeInv /\ [OverlayNext]_overlayVars => Committed'
<1> SUFFICES ASSUME PurgeInv, [OverlayNext]_overlayVars PROVE Committed'
  OBVIOUS
<1>t. OverlayTypes /\ Committed /\ OverlayTypes'
  BY OverlayTypesStep DEF PurgeInv
<1>w. Waiting.hw = 0 /\ 0 <= seq
  BY <1>t DEF Waiting, OverlayTypes
<1>f. [Fresh EXCEPT !.pc = "done"].pc = "done"
  BY DEF Fresh
<1>1. ASSUME NEW c \in Clicks, NEW t \in Targets, NEW s \in Stances, Snapshot(c, t, s) PROVE Committed'
  <2>1. click'[c].pc = "commit" /\ \A b \in Clicks \ {c} : click'[b] = click[b]
    BY <1>1, <1>t DEF Snapshot, OverlayTypes, ClickType
  <2> QED
    BY <1>1, <1>t, <2>1 DEF Snapshot, Committed
<1>2. ASSUME NEW c \in Clicks, Commit(c) PROVE Committed'
  <2>1. \A t \in Targets : db'[t].of >= db[t].of
    BY <1>t, EdgesGrow
  <2>2. UNCHANGED <<delta, seq, loop>>
    BY <1>2 DEF Commit
  <2>3. \A t \in Targets : delta'[t].of <= db'[t].of
    BY <1>t, <2>1, <2>2 DEF Committed, OverlayTypes
  <2>4. \A b \in Clicks \ {c} : click'[b] = click[b]
    BY <1>2, <1>t DEF Commit, OverlayTypes
  <2>5. ASSUME NEW b \in Clicks \ {c}, click'[b].pc \in {"seq", "record"} PROVE click'[b].of <= db'[click'[b].to].of
    BY <1>t, <2>1, <2>4, <2>5 DEF Committed, OverlayTypes, ClickType
  <2>6. ASSUME click'[c].pc \in {"seq", "record"} PROVE click'[c].of <= db'[click'[c].to].of
    <3>1. click[c].to \in Targets /\ click[c] \in ClickType
      BY <1>2, <1>t DEF Commit, OverlayTypes
    <3>2. ~(click[c].stance = "neutral" /\ db[click[c].to].stance = "neutral")
      BY <1>2, <1>t, <1>f, <2>6, Zenon DEF Commit, OverlayTypes
    <3>3. /\ db' = [db EXCEPT ![click[c].to] = [stance |-> click[c].stance, of |-> @.of + 1]]
          /\ click' = [click EXCEPT ![c] = [@ EXCEPT !.pc = "seq", !.of = db[click[c].to].of + 1]]
      BY <1>2, <3>2 DEF Commit
    <3>4. click'[c].of = db[click[c].to].of + 1 /\ click'[c].to = click[c].to
      BY <3>1, <3>3, <1>t DEF OverlayTypes, ClickType
    <3>5. db'[click[c].to].of = db[click[c].to].of + 1
      BY <3>1, <3>3, <1>t DEF OverlayTypes
    <3> QED
      BY <3>1, <3>4, <3>5, <1>t DEF OverlayTypes
  <2> QED
    BY <1>t, <2>2, <2>3, <2>5, <2>6 DEF Committed
<1>3. ASSUME NEW c \in Clicks, FetchSeq(c) PROVE Committed'
  <2>1. /\ click[c].pc = "seq" /\ UNCHANGED <<db, delta, loop>> /\ seq' = seq + 1
        /\ click' = [click EXCEPT ![c] = [@ EXCEPT !.pc = "record", !.seq = seq]]
    BY <1>3 DEF FetchSeq
  <2>2. click'[c].of = click[c].of /\ click'[c].to = click[c].to
    BY <2>1, <1>t DEF OverlayTypes, ClickType
  <2>3. \A b \in Clicks \ {c} : click'[b] = click[b]
    BY <2>1, <1>t DEF OverlayTypes
  <2>4. loop'.hw <= seq'
    BY <2>1, <1>t DEF Committed, OverlayTypes
  <2>5. \A b \in Clicks : click'[b].pc \in {"seq", "record"} => click'[b].of <= db'[click'[b].to].of
    BY <2>1, <2>2, <2>3, <1>t DEF Committed
  <2> QED
    BY <2>1, <2>4, <2>5, <1>t DEF Committed
<1>4. ASSUME NEW c \in Clicks, Record(c) PROVE Committed'
  <2> DEFINE o == Overlay(click[c].was, click[c].stance, click[c].of)
             d == [delta EXCEPT ![click[c].to] = o]
  <2>1. /\ click[c].pc = "record" /\ UNCHANGED <<db, seq, loop>>
        /\ delta' = IF IsEmpty(d) THEN [u \in Targets |-> NoDelta] ELSE d
        /\ click' = [click EXCEPT ![c] = [Fresh EXCEPT !.pc = "done"]]
    BY <1>4 DEF Record
  <2>2. o.of = click[c].of /\ NoDelta.of = 0
    BY DEF Overlay, NoDelta
  <2>3. click[c].of <= db[click[c].to].of
    BY <2>1, <1>t DEF Committed
  <2>4. \A t \in Targets : d[t].of <= db[t].of
    BY <2>2, <2>3, <1>t DEF Committed, OverlayTypes
  <2>5. \A t \in Targets : 0 <= db[t].of
    BY <1>t DEF OverlayTypes
  <2>6. \A t \in Targets : delta'[t].of <= db'[t].of
    <3>1. CASE IsEmpty(d)
      BY <3>1, <2>1, <2>2, <2>5
    <3>2. CASE ~IsEmpty(d)
      BY <3>2, <2>1, <2>4
    <3> QED
      BY <3>1, <3>2
  <2>7. click'[c].pc = "done" /\ \A b \in Clicks \ {c} : click'[b] = click[b]
    BY <2>1, <1>f, <1>t DEF OverlayTypes
  <2> QED
    BY <2>1, <2>6, <2>7, <1>t, Zenon DEF Committed
<1>5. ASSUME Wake PROVE Committed'
  <2>1. loop'.hw = 0 /\ UNCHANGED <<db, delta, click, seq>>
    BY <1>5 DEF Wake, Waiting
  <2> QED
    BY <2>1, <1>t, <1>w, CommittedFrame
<1>6. ASSUME Debounce PROVE Committed'
  BY <1>6, <1>t, CommittedFrame DEF Debounce, Committed
<1>7. ASSUME Capture PROVE Committed'
  <2>1. loop'.hw = seq /\ UNCHANGED <<db, delta, click, seq>>
    BY <1>7, <1>t DEF Capture, OverlayTypes
  <2> QED
    BY <2>1, <1>t, CommittedFrame DEF OverlayTypes
<1>8. ASSUME ReadTrust \/ ReadDistrust PROVE Committed'
  <2>1. loop'.hw = loop.hw /\ UNCHANGED <<db, delta, click, seq>>
    BY <1>8, <1>t, Zenon DEF ReadTrust, ReadDistrust, OverlayTypes
  <2> QED
    BY <2>1, <1>t, CommittedFrame DEF Committed
<1>9. ASSUME Swap PROVE Committed'
  <2>1. loop'.hw = loop.hw /\ UNCHANGED <<db, delta, click, seq>>
    BY <1>9, <1>t DEF Swap, Waiting
  <2> QED
    BY <2>1, <1>t, CommittedFrame DEF Committed
<1>10. ASSUME Purge PROVE Committed'
  <2>1. /\ loop' = Waiting /\ UNCHANGED <<db, click, seq>>
        /\ delta' = IF Purges THEN [t \in Targets |-> NoDelta] ELSE delta
    BY <1>10 DEF Purge
  <2>2. NoDelta.of = 0
    BY DEF NoDelta
  <2>3. \A t \in Targets : 0 <= db[t].of
    BY <1>t DEF OverlayTypes
  <2>4. \A t \in Targets : delta'[t].of <= db'[t].of
    BY <2>1, <2>2, <2>3, <1>t DEF Committed
  <2> QED
    BY <2>1, <2>4, <1>t, <1>w DEF Committed
<1>11. ASSUME Fail PROVE Committed'
  BY <1>11, <1>t, <1>w, CommittedFrame DEF Fail
<1>12. ASSUME UNCHANGED overlayVars PROVE Committed'
  BY <1>12, <1>t DEF overlayVars, Committed
<1> QED
  BY <1>1, <1>2, <1>3, <1>4, <1>5, <1>6, <1>7, <1>8, <1>9, <1>10, <1>11, <1>12 DEF OverlayNext, LoopStep

\* What a graph reflects it goes on reflecting, whatever a request does: a number drawn
\* now is not below the mark, and recording raises the number of the delta.
LEMMA ReflectsKept ==
  ASSUME PurgeInv, NEW c \in Clicks, NEW g \in GraphType, Reflects(g),
         (\E t \in Targets, s \in Stances : Snapshot(c, t, s)) \/ Commit(c) \/ FetchSeq(c) \/ Record(c)
  PROVE  Reflects(g)'
<1>t. OverlayTypes /\ Committed
  BY DEF PurgeInv
<1>f. [Fresh EXCEPT !.pc = "done"].pc = "done"
  BY DEF Fresh
<1>g. g' = g /\ \A t \in Targets : g[t].of \in Nat
  BY DEF GraphType
<1>1. ASSUME NEW t \in Targets, NEW s \in Stances, Snapshot(c, t, s) PROVE Reflects(g)'
  <2>1. click'[c].pc = "commit" /\ \A b \in Clicks \ {c} : click'[b] = click[b]
    BY <1>1, <1>t, Zenon DEF Snapshot, OverlayTypes, ClickType
  <2> QED
    BY ZenonT(60), <1>1, <2>1 DEF Snapshot, Reflects
<1>2. ASSUME Commit(c) PROVE Reflects(g)'
  <2>1. \/ click' = [click EXCEPT ![c] = [Fresh EXCEPT !.pc = "done"]]
        \/ click' = [click EXCEPT ![c] = [@ EXCEPT !.pc = "seq", !.of = db[click[c].to].of + 1]]
    BY <1>2 DEF Commit
  <2>2. click[c] \in ClickType /\ click \in [Clicks -> ClickType]
    BY <1>t DEF OverlayTypes
  <2>3. \A b \in Clicks \ {c} : click'[b] = click[b]
    BY <2>1, <2>2
  <2>4. ASSUME click' = [click EXCEPT ![c] = [Fresh EXCEPT !.pc = "done"]] PROVE click'[c].pc # "record"
    BY <2>4, <2>2, <1>f
  <2>5. ASSUME click' = [click EXCEPT ![c] = [@ EXCEPT !.pc = "seq", !.of = db[click[c].to].of + 1]]
        PROVE  click'[c].pc # "record"
    BY <2>5, <2>2 DEF ClickType
  <2>6. click'[c].pc # "record"
    BY <2>1, <2>4, <2>5
  <2> QED
    BY <1>2, <2>3, <2>6 DEF Commit, Reflects
<1>3. ASSUME FetchSeq(c) PROVE Reflects(g)'
  <2>1. click'[c].seq = seq /\ \A b \in Clicks \ {c} : click'[b] = click[b]
    BY <1>3, <1>t DEF FetchSeq, OverlayTypes, ClickType
  <2>2. UNCHANGED <<loop, delta, dseq>> /\ ~(seq < loop.hw)
    BY <1>3, <1>t DEF FetchSeq, Committed, OverlayTypes
  <2> QED
    BY <2>1, <2>2 DEF Reflects
<1>4. ASSUME Record(c) PROVE Reflects(g)'
  <2> DEFINE o == Overlay(click[c].was, click[c].stance, click[c].of)
             d == [delta EXCEPT ![click[c].to] = o]
  <2>1. /\ click[c].pc = "record" /\ UNCHANGED loop
        /\ delta' = IF IsEmpty(d) THEN [u \in Targets |-> NoDelta] ELSE d
        /\ dseq' = IF IsEmpty(d) THEN 0 ELSE IF click[c].seq > dseq THEN click[c].seq ELSE dseq
        /\ click' = [click EXCEPT ![c] = [Fresh EXCEPT !.pc = "done"]]
    BY <1>4 DEF Record
  <2>2. o.of = click[c].of /\ NoDelta.of = 0
    BY DEF Overlay, NoDelta
  <2>3. click'[c].pc = "done" /\ \A b \in Clicks \ {c} : click'[b] = click[b]
    BY <2>1, <1>f, <1>t DEF OverlayTypes
  <2>4. \A b \in Clicks : click'[b].pc = "record" /\ click'[b].seq < loop'.hw => click'[b].of <= g[click'[b].to].of
    BY <2>1, <2>3 DEF Reflects
  <2>5. ASSUME dseq' < loop'.hw, NEW t \in Targets PROVE delta'[t].of <= g[t].of
    <3>1. CASE IsEmpty(d)
      BY <3>1, <2>1, <2>2, <1>g
    <3>2. CASE ~IsEmpty(d)
      <4>1. click[c].seq < loop.hw /\ dseq < loop.hw
        <5>1. click[c].seq \in Nat /\ dseq \in Nat /\ loop.hw \in Nat
          BY <1>t DEF OverlayTypes, ClickType
        <5> QED
          BY <5>1, <3>2, <2>1, <2>5
      <4>2. click[c].of <= g[click[c].to].of /\ delta[t].of <= g[t].of
        BY <4>1, <2>1 DEF Reflects
      <4>3. d[t].of <= g[t].of
        BY <4>2, <2>2, <1>t DEF OverlayTypes
      <4> QED
        BY <4>3, <3>2, <2>1
    <3> QED
      BY <3>1, <3>2
  <2> QED
    BY <2>4, <2>5, <1>g DEF Reflects
<1> QED
  BY <1>1, <1>2, <1>3, <1>4

LEMMA PurgeInvStep == PurgeInv /\ [OverlayNext]_overlayVars => PurgeInv'
<1> SUFFICES ASSUME PurgeInv, [OverlayNext]_overlayVars PROVE PurgeInv'
  OBVIOUS
<1>t. OverlayTypes /\ Committed /\ OverlayTypes' /\ Committed'
  BY OverlayTypesStep, CommittedStep DEF PurgeInv
<1>1. ASSUME NEW c \in Clicks,
             (\E t \in Targets, s \in Stances : Snapshot(c, t, s)) \/ Commit(c) \/ FetchSeq(c) \/ Record(c)
      PROVE  PurgeInv'
  <2>1. UNCHANGED <<loop, graph>>
    BY <1>1, Zenon DEF Snapshot, Commit, FetchSeq, Record
  <2>2. loop.graph \in GraphType /\ graph \in GraphType
    BY <1>t DEF OverlayTypes
  <2>3. ASSUME NEW g \in GraphType, Reflects(g) PROVE Reflects(g)'
    BY <1>1, <2>3, ReflectsKept
  <2>4. loop.pc \in {"distrust", "swap"} => Reflects(loop.graph)'
    <3>1. ASSUME Reflects(loop.graph) PROVE Reflects(loop.graph)'
      BY <3>1, <2>1, <2>2, <2>3 DEF Reflects
    <3> QED
      BY <3>1 DEF PurgeInv
  <2>5. loop.pc = "purge" => Reflects(graph)'
    <3>1. ASSUME Reflects(graph) PROVE Reflects(graph)'
      BY <3>1, <2>1, <2>2, <2>3 DEF Reflects
    <3> QED
      BY <3>1 DEF PurgeInv
  <2> QED
    BY SMTT(40), <2>1, <2>4, <2>5, <1>t DEF PurgeInv
<1>2. ASSUME Wake \/ Capture \/ Purge \/ Fail PROVE PurgeInv'
  <2>1. loop'.pc \in {"wait", "window", "trust"}
    <3>1. Waiting.pc = "wait" /\ [Waiting EXCEPT !.pc = "window"].pc = "window"
      BY DEF Waiting
    <3>2. Capture => loop'.pc = "trust"
      BY <1>t DEF Capture, OverlayTypes
    <3> QED
      BY <1>2, <3>1, <3>2, Zenon DEF Wake, Purge, Fail
  <2> QED
    BY <2>1, <1>t DEF PurgeInv
<1>3. ASSUME Debounce PROVE PurgeInv'
  BY SMTT(40), <1>3, <1>t DEF Debounce, PurgeInv, Reflects
<1>4. ASSUME ReadTrust PROVE PurgeInv'
  <2>1. loop'.pc = "distrust" /\ \A t \in Targets : loop'.graph[t].of = db[t].of
    BY <1>4, <1>t, Zenon DEF ReadTrust, OverlayTypes
  <2>2. UNCHANGED <<db, delta, click>>
    BY <1>4 DEF ReadTrust
  <2>3. \A t \in Targets : delta'[t].of <= loop'.graph[t].of
    BY <2>1, <2>2, <1>t DEF Committed
  <2>4. \A c \in Clicks : click'[c].pc = "record" => click'[c].of <= loop'.graph[click'[c].to].of
    BY <2>1, <2>2, <1>t DEF Committed, OverlayTypes
  <2>5. Reflects(loop.graph)'
    BY <2>3, <2>4 DEF Reflects
  <2> QED
    BY SMTT(40), <2>1, <2>5, <1>t DEF PurgeInv
<1>5. ASSUME ReadDistrust PROVE PurgeInv'
  <2>1. /\ loop.pc = "distrust" /\ loop'.pc = "swap" /\ loop'.hw = loop.hw
        /\ loop'.graph = [t \in Targets |-> [loop.graph[t] EXCEPT !.distrust = db[t].stance = "distrust"]]
    BY <1>5, <1>t, Zenon DEF ReadDistrust, OverlayTypes
  <2>g. \A t \in Targets : loop'.graph[t].of = loop.graph[t].of
    <3>1. loop.graph \in GraphType
      BY <1>t DEF OverlayTypes
    <3> QED
      BY <3>1, <2>1 DEF GraphType
  <2>2. UNCHANGED <<dseq, delta, click>>
    BY <1>5 DEF ReadDistrust
  <2>3. Reflects(loop.graph)
    BY <2>1 DEF PurgeInv
  <2>4. Reflects(loop.graph)'
    BY SMTT(40), <2>1, <2>g, <2>2, <2>3, <1>t DEF Reflects, OverlayTypes
  <2> QED
    BY SMTT(40), <2>1, <2>4, <1>t DEF PurgeInv
<1>6. ASSUME Swap PROVE PurgeInv'
  <2>1. loop.pc = "swap" /\ loop'.pc = "purge" /\ loop'.hw = loop.hw /\ graph' = loop.graph
    BY <1>6 DEF Swap, Waiting
  <2>2. UNCHANGED <<dseq, delta, click>>
    BY <1>6 DEF Swap
  <2>3. Reflects(loop.graph)
    BY <2>1 DEF PurgeInv
  <2>4. Reflects(graph)'
    BY <2>1, <2>2, <2>3 DEF Reflects
  <2> QED
    BY <2>1, <2>4, <1>t DEF PurgeInv
<1>7. ASSUME UNCHANGED overlayVars PROVE PurgeInv'
  BY <1>7, <1>t DEF overlayVars, PurgeInv, Reflects
<1> QED
  BY <1>1, <1>2, <1>3, <1>4, <1>5, <1>6, <1>7 DEF OverlayNext, LoopStep

\* A purge drops no click the new graph has not read (purge_below in trust.rs), for any
\* number of concurrent requests and of targets, and whatever rebuilds fail.
THEOREM PurgeLosesNoClick == OverlaySpec => PurgedIsReflected
<1>1. OverlayInit => PurgeInv
  BY OverlayStarts
<1>2. PurgeInv /\ [OverlayNext]_overlayVars => PurgeInv'
  BY PurgeInvStep
<1>3. PurgeInv /\ [OverlayNext]_overlayVars => [PurgedIsReflectedStep]_overlayVars
  <2> SUFFICES ASSUME PurgeInv, [OverlayNext]_overlayVars, dseq > 0, loop.pc = "purge", loop'.pc = "wait", dseq' = 0
               PROVE  \A t \in Targets : delta[t].of <= graph[t].of
    BY SMTT(40) DEF PurgedIsReflectedStep
  <2>1. Purge
    BY Zenon DEF OverlayNext, LoopStep, Snapshot, Commit, FetchSeq, Record, Wake, Debounce, Capture, ReadTrust,
           ReadDistrust, Swap, Fail, overlayVars
  <2>2. dseq < loop.hw
    BY <2>1 DEF Purge, Purges, HighWater
  <2> QED
    BY <2>2 DEF PurgeInv, Reflects
<1> QED
  BY <1>1, <1>2, <1>3, PTL DEF OverlaySpec, PurgedIsReflected

-----------------------------------------------------------------------------
(* The log of local trust edges.                                           *)

Row == [hash : Ranks, id : Ranks, at : 0..MaxClock, prior : Ranks \cup {NoHash},
        stance : {"trust", "distrust", "neutral"}]

\* Row k is the one that compute_prior_edge_hash() picks of the first m rows, and the
\* one that current_trust_edges shows.
Prior(k, m) ==
  \A i \in 1..m : log[i].at < log[k].at \/ (log[i].at = log[k].at /\ log[i].hash <= log[k].hash)
Top(k) == \A i \in 1..Len(log) : Before(log[i], log[k])

\* Every row cites the one picked of the rows before it.
Cites ==
  \A i \in 1..Len(log) :
    IF i = 1 THEN log[i].prior = NoHash
    ELSE \E k \in 1..(i - 1) : log[k].hash = log[i].prior /\ Prior(k, i - 1)

\* Inductive: a choice has something to choose, whatever rows tie.
LogInv ==
  /\ LogTypeOK /\ Cites /\ ServesSinceNeutral
  /\ \A i, j \in 1..Len(log) : log[i].hash = log[j].hash => i = j
  /\ log # <<>> => (\E k \in 1..Len(log) : Prior(k, Len(log))) /\ (\E k \in 1..Len(log) : Top(k))

\* The types, row by row.
LEMMA RowTypes ==
  /\ \A r \in Row : r.at \in Int /\ r.hash \in Int /\ r.hash # NoHash /\ r.id \in Int
  /\ LogTypeOK => /\ log \in Seq(Row) /\ Len(log) \in Nat
                  /\ \A i \in 1..Len(log) : log[i] \in Row
<1>0. \A r \in Row : r.at \in 0..MaxClock /\ r.hash \in Ranks /\ r.id \in Ranks
  BY DEF Row
<1>1. \A r \in Row : r.at \in Int /\ r.hash \in Int /\ r.hash # NoHash /\ r.id \in Int
  <2>1. \A x \in Ranks : x \in Int /\ x # NoHash
    BY LogConfig DEF NoHash
  <2>2. \A x \in 0..MaxClock : x \in Int
    OBVIOUS
  <2> QED
    BY <1>0, <2>1, <2>2, Zenon
<1>2. ASSUME LogTypeOK PROVE log \in Seq(Row)
  BY <1>2 DEF LogTypeOK, Row
<1>3. ASSUME LogTypeOK PROVE Len(log) \in Nat /\ \A i \in 1..Len(log) : log[i] \in Row
  BY <1>2, <1>3
<1> QED
  BY <1>1, <1>2, <1>3

\* The same as numbers.
LEMMA RowNumbers ==
  ASSUME LogTypeOK
  PROVE  /\ Len(log) \in Nat
         /\ \A i \in 1..Len(log) : /\ log[i].at \in Int /\ log[i].hash \in Int
                                   /\ log[i].hash # NoHash /\ log[i].id \in Int
<1>1. Len(log) \in Nat /\ \A i \in 1..Len(log) : log[i] \in Row
  BY RowTypes
<1> QED
  BY <1>1, RowTypes, Zenon

\* The hash that is cited next.
LEMMA PriorIsPicked ==
  ASSUME LogInv, NEW k \in 1..Len(log), Prior(k, Len(log))
  PROVE  PriorHash = log[k].hash
<1>t. /\ Len(log) \in Nat
      /\ \A i \in 1..Len(log) : log[i].at \in Int /\ log[i].hash \in Int
  BY RowNumbers DEF LogInv
<1>1. log[k] \in Rows /\ Rows # {}
  BY DEF Rows
<1>2. log[k] \in Tied
  <2>1. \A i \in 1..Len(log) : log[i].at <= log[k].at
    BY <1>t DEF Prior
  <2> QED
    BY <1>1, <2>1 DEF Tied, Rows
<1>3. \A r \in Tied : r.hash <= log[k].hash /\ r.hash \in Int
  <2> SUFFICES ASSUME NEW i \in 1..Len(log), log[i] \in Tied
               PROVE  log[i].hash <= log[k].hash /\ log[i].hash \in Int
    BY DEF Tied, Rows
  <2>1. log[k].at <= log[i].at
    BY <1>1 DEF Tied
  <2> QED
    BY <2>1, <1>t DEF Prior
<1>4. ASSUME NEW h \in {r.hash : r \in Tied}, \A r \in Tied : r.hash <= h PROVE h = log[k].hash
  <2>1. log[k].hash <= h /\ h <= log[k].hash /\ h \in Int
    BY <1>2, <1>3, <1>4
  <2> QED
    BY <2>1, <1>t
<1>5. log[k].hash \in {r.hash : r \in Tied} /\ \A r \in Tied : r.hash <= log[k].hash
  BY <1>2, <1>3
<1> QED
  BY <1>1, <1>4, <1>5 DEF PriorHash

\* It is a hash, or none while there is no row.
LEMMA PriorIsAHash ==
  ASSUME LogInv
  PROVE  PriorHash \in Ranks \cup {NoHash} /\ (log = <<>> => PriorHash = NoHash)
<1>1. CASE log = <<>>
  <2>1. Rows = {}
    BY <1>1 DEF Rows
  <2> QED
    BY <2>1 DEF PriorHash
<1>2. CASE log # <<>>
  <2>1. PICK k \in 1..Len(log) : Prior(k, Len(log))
    BY <1>2 DEF LogInv
  <2>2. log[k] \in Row
    BY RowTypes DEF LogInv
  <2>3. log[k].hash \in Ranks
    BY <2>2 DEF Row
  <2> QED
    BY <1>2, <2>1, <2>3, PriorIsPicked
<1> QED
  BY <1>1, <1>2

\* What a mutation writes.
LEMMA AppendRow ==
  ASSUME LogInv, NEW b \in Tabs, asked[b].stance \in {"trust", "distrust", "neutral"}, Append1(b)
  PROVE  \E e \in Row :
           /\ log' = Append(log, e) /\ e.stance = asked[b].stance /\ e.prior = PriorHash
           /\ \A i \in 1..Len(log) : log[i].hash # e.hash
<1>1. PICK h \in Ranks \ {r.hash : r \in Rows}, i \in Ranks \ {r.id : r \in Rows} :
        log' = Append(log, [hash |-> h, id |-> i, at |-> asked[b].at, prior |-> PriorHash,
                            stance |-> asked[b].stance])
  BY DEF Append1
<1> DEFINE e == [hash |-> h, id |-> i, at |-> asked[b].at, prior |-> PriorHash, stance |-> asked[b].stance]
<1>2. asked[b].at \in 0..MaxClock
  BY DEF LogInv, LogTypeOK
<1>3. e \in Row
  BY <1>2, PriorIsAHash DEF Row
<1>4. e.stance = asked[b].stance /\ e.prior = PriorHash /\ e.hash = h
  OBVIOUS
<1>5. \A k \in 1..Len(log) : log[k].hash # e.hash
  BY <1>4 DEF Rows
<1> HIDE DEF e
<1> QED
  BY <1>1, <1>3, <1>4, <1>5 DEF e

\* The log with one more row.
LEMMA Longer ==
  ASSUME LogTypeOK, NEW e \in Row, log' = Append(log, e)
  PROVE  /\ Len(log') = Len(log) + 1 /\ log'[Len(log) + 1] = e
         /\ \A i \in 1..Len(log) : log'[i] = log[i]
         /\ log' \in Seq(Row) /\ log' # <<>>
<1>1. log \in Seq(Row)
  BY RowTypes
<1> QED
  BY <1>1

\* A choice can still be made after a mutation: the old one or the new row.
LEMMA PriorKept ==
  ASSUME LogInv, NEW e \in Row, log' = Append(log, e)
  PROVE  (\E k \in 1..Len(log) : Prior(k, Len(log)))'
<1> DEFINE n == Len(log) + 1
           Less(x, y) == x.at < y.at \/ (x.at = y.at /\ x.hash <= y.hash)
<1>t. /\ Len(log) \in Nat /\ e.at \in Int /\ e.hash \in Int
      /\ \A i \in 1..Len(log) : log[i].at \in Int /\ log[i].hash \in Int
  BY RowTypes, RowNumbers DEF LogInv
<1>1. /\ Len(log') = n /\ log'[n] = e /\ \A i \in 1..Len(log) : log'[i] = log[i]
      /\ 1..n = (1..Len(log)) \cup {n}
  BY <1>t, Longer DEF LogInv
<1>2. SUFFICES \E k \in 1..n : \A i \in 1..n : Less(log'[i], log'[k])
  BY <1>1 DEF Prior
<1>3. CASE log = <<>>
  BY <1>3, <1>1, <1>t
<1>4. CASE log # <<>>
  <2>1. PICK k \in 1..Len(log) : \A i \in 1..Len(log) : Less(log[i], log[k])
    BY <1>4 DEF LogInv, Prior
  <2>2. CASE Less(e, log[k])
    BY <2>1, <2>2, <1>1
  <2>3. CASE ~Less(e, log[k])
    <3>1. ASSUME NEW i \in 1..Len(log) PROVE Less(log[i], e)
      <4>1. log[i].at < log[k].at \/ (log[i].at = log[k].at /\ log[i].hash <= log[k].hash)
        BY <2>1
      <4>2. ~(e.at < log[k].at \/ (e.at = log[k].at /\ e.hash <= log[k].hash))
        BY <2>3
      <4> QED
        BY <4>1, <4>2, <1>t
    <3>2. Less(e, e)
      BY <1>t
    <3> HIDE DEF Less
    <3>3. \A i \in 1..n : Less(log'[i], log'[n])
      BY <3>1, <3>2, <1>1, Zenon
    <3> QED
      BY <3>3, <1>1, Zenon
  <2> QED
    BY <2>2, <2>3
<1> QED
  BY <1>3, <1>4

LEMMA TopKept ==
  ASSUME LogInv, NEW e \in Row, log' = Append(log, e)
  PROVE  (\E k \in 1..Len(log) : Top(k))'
<1> DEFINE n == Len(log) + 1
<1>t. /\ Len(log) \in Nat /\ e.at \in Int /\ e.id \in Int
      /\ \A i \in 1..Len(log) : log[i].at \in Int /\ log[i].id \in Int
  BY RowTypes, RowNumbers DEF LogInv
<1>1. /\ Len(log') = n /\ log'[n] = e /\ \A i \in 1..Len(log) : log'[i] = log[i]
      /\ 1..n = (1..Len(log)) \cup {n}
  BY <1>t, Longer DEF LogInv
<1>2. SUFFICES \E k \in 1..n : \A i \in 1..n : Before(log'[i], log'[k])
  BY <1>1 DEF Top, Before
<1>3. CASE log = <<>>
  BY <1>3, <1>1, <1>t DEF Before
<1>4. CASE log # <<>>
  <2>1. PICK k \in 1..Len(log) : \A i \in 1..Len(log) : Before(log[i], log[k])
    BY <1>4 DEF LogInv, Top
  <2>2. CASE Before(e, log[k])
    BY <2>1, <2>2, <1>1
  <2>3. CASE ~Before(e, log[k])
    <3>1. ASSUME NEW i \in 1..Len(log) PROVE Before(log[i], e)
      <4>1. log[i].at < log[k].at \/ (log[i].at = log[k].at /\ log[i].id <= log[k].id)
        BY <2>1 DEF Before
      <4>2. ~(e.at < log[k].at \/ (e.at = log[k].at /\ e.id <= log[k].id))
        BY <2>3 DEF Before
      <4> QED
        BY <4>1, <4>2, <1>t DEF Before
    <3>2. Before(e, e)
      BY <1>t DEF Before
    <3> QED
      BY <3>1, <3>2, <1>1
  <2> QED
    BY <2>2, <2>3
<1> QED
  BY <1>3, <1>4

\* The new row cites what was picked, the others what they cited.
LEMMA CitesKept ==
  ASSUME LogInv, NEW e \in Row, log' = Append(log, e), e.prior = PriorHash
  PROVE  Cites'
<1> DEFINE n == Len(log) + 1
           After(k, m) == \A i \in 1..m : log'[i].at < log'[k].at \/ (log'[i].at = log'[k].at /\ log'[i].hash <= log'[k].hash)
<1>t. Len(log) \in Nat
  BY RowNumbers DEF LogInv
<1>1. /\ Len(log') = n /\ log'[n] = e /\ \A i \in 1..Len(log) : log'[i] = log[i]
      /\ 1..n = (1..Len(log)) \cup {n} /\ n - 1 = Len(log)
  BY <1>t, Longer DEF LogInv
<1>2. ASSUME NEW i \in 1..Len(log)
      PROVE  IF i = 1 THEN log'[i].prior = NoHash
             ELSE \E k \in 1..(i - 1) : log'[k].hash = log'[i].prior /\ After(k, i - 1)
  <2>1. CASE i = 1
    BY <2>1, <1>1 DEF LogInv, Cites
  <2>2. CASE i # 1
    <3>1. PICK k \in 1..(i - 1) : log[k].hash = log[i].prior /\ Prior(k, i - 1)
      BY <2>2 DEF LogInv, Cites
    <3>2. k \in 1..Len(log) /\ \A j \in 1..(i - 1) : j \in 1..Len(log)
      BY <1>t
    <3>3. After(k, i - 1)
      BY <3>1, <3>2, <1>1 DEF Prior
    <3> QED
      BY <2>2, <3>1, <3>2, <3>3, <1>1
  <2> QED
    BY <2>1, <2>2
<1>3. IF n = 1 THEN e.prior = NoHash
      ELSE \E k \in 1..(n - 1) : log'[k].hash = e.prior /\ After(k, n - 1)
  <2>1. CASE log = <<>>
    <3>1. n = 1
      BY <2>1
    <3> QED
      BY <3>1, <2>1, PriorIsAHash
  <2>2. CASE log # <<>>
    <3>1. PICK k \in 1..Len(log) : Prior(k, Len(log))
      BY <2>2 DEF LogInv
    <3>2. log[k].hash = e.prior
      BY <3>1, PriorIsPicked
    <3>3. After(k, n - 1)
      BY <3>1, <1>1 DEF Prior
    <3>4. n # 1
      BY <1>t, <3>1
    <3> QED
      BY <3>2, <3>3, <3>4, <1>1
  <2> QED
    BY <2>1, <2>2
<1>4. Cites' <=> \A i \in 1..n : IF i = 1 THEN log'[i].prior = NoHash
                                ELSE \E k \in 1..(i - 1) : log'[k].hash = log'[i].prior /\ After(k, i - 1)
  BY <1>1, Zenon DEF Cites, Prior
<1> HIDE DEF After
<1> QED
  BY <1>1, <1>2, <1>3, <1>4

\* What stays servable.
LEMMA ServesStep ==
  ASSUME LogInv, NEW s \in {"trust", "distrust", "neutral"}, NEW e \in Row, e.stance = s, log' = Append(log, e),
         payload' = IF s = "neutral" THEN {e.hash} ELSE payload \cup {e.hash}
  PROVE  ServesSinceNeutral'
<1> DEFINE n == Len(log) + 1
<1> DEFINE Old == {k \in 1..Len(log) : \A j \in 1..Len(log) : log[j].stance = "neutral" => j <= k}
<1> DEFINE New == {k \in 1..n : \A j \in 1..n : log'[j].stance = "neutral" => j <= k}
<1>1. /\ Len(log) \in Nat /\ Len(log') = n /\ log'[n] = e /\ \A i \in 1..Len(log) : log'[i] = log[i]
      /\ 1..n = (1..Len(log)) \cup {n} /\ n \notin 1..Len(log)
  BY RowTypes DEF LogInv
<1>2. payload = {log[i].hash : i \in Old}
  BY DEF LogInv, ServesSinceNeutral
<1>3. n \in New
  BY <1>1
<1>4. New = IF s = "neutral" THEN {n} ELSE Old \cup {n}
  <2>1. CASE s = "neutral"
    <3>1. \A k \in New : n <= k
      BY <2>1, <1>1
    <3> QED
      BY <3>1, <2>1, <1>1, <1>3
  <2>2. CASE s # "neutral"
    <3>1. \A k \in 1..Len(log) : k \in New <=> k \in Old
      BY <2>2, <1>1
    <3>2. New \subseteq 1..n /\ Old \subseteq 1..Len(log)
      OBVIOUS
    <3> HIDE DEF New, Old
    <3>3. New = Old \cup {n}
      BY <3>1, <3>2, <1>1, <1>3, Zenon
    <3> QED
      BY <3>3, <2>2
  <2> QED
    BY <2>1, <2>2
<1>5. Old \subseteq 1..Len(log)
  OBVIOUS
<1>6. ServesSinceNeutral' <=> payload' = {log'[i].hash : i \in New}
  BY <1>1 DEF ServesSinceNeutral
<1> HIDE DEF New, Old
<1>7. {log'[i].hash : i \in New} = payload'
  BY <1>1, <1>2, <1>4, <1>5
<1> QED
  BY <1>6, <1>7, Zenon

\* Every step keeps the log's invariant.
LEMMA LogStep ==
  ASSUME LogInv, [Next]_vars
  PROVE  LogInv'
<1>0. LogTypeOK
  BY DEF LogInv
<1>c. NoClick \in [stance : {"none", "trust", "distrust", "neutral"}, at : 0..MaxClock]
  BY LogConfig DEF NoClick
<1>1. ASSUME NEW b \in Tabs, asked[b].stance \in {"trust", "distrust", "neutral"}, Append1(b),
             payload' = IF asked[b].stance = "neutral" THEN {log'[Len(log')].hash}
                        ELSE payload \cup {log'[Len(log')].hash}
      PROVE  LogInv'
  <2>1. PICK e \in Row :
           /\ log' = Append(log, e) /\ e.stance = asked[b].stance /\ e.prior = PriorHash
           /\ \A i \in 1..Len(log) : log[i].hash # e.hash
    BY <1>1, AppendRow
  <2>2. clock' = clock /\ asked' = [asked EXCEPT ![b] = NoClick]
    BY <1>1 DEF Append1
  <2>3. /\ Len(log) \in Nat /\ Len(log') = Len(log) + 1 /\ log'[Len(log) + 1] = e
        /\ \A i \in 1..Len(log) : log'[i] = log[i]
        /\ log' \in Seq(Row) /\ log' # <<>>
    BY <1>0, <2>1, Longer, RowNumbers
  <2>4. log'[Len(log')] = e
    BY <2>3
  <2>5. ServesSinceNeutral'
    BY <1>1, <2>1, <2>4, ServesStep
  <2>6. Cites' /\ (\E k \in 1..Len(log) : Prior(k, Len(log)))' /\ (\E k \in 1..Len(log) : Top(k))'
    BY <2>1, CitesKept, PriorKept, TopKept
  <2>7. \A i, j \in 1..Len(log') : log'[i].hash = log'[j].hash => i = j
    BY <2>1, <2>3 DEF LogInv
  <2>8. e.hash \in Ranks
    BY DEF Row
  <2>9. payload' \subseteq Ranks
    BY <1>0, <1>1, <2>4, <2>8 DEF LogTypeOK
  <2>10. asked' \in [Tabs -> [stance : {"none", "trust", "distrust", "neutral"}, at : 0..MaxClock]]
    BY <1>0, <1>c, <2>2 DEF LogTypeOK
  <2>11. LogTypeOK'
    BY <1>0, <2>2, <2>3, <2>9, <2>10 DEF LogTypeOK, Row
  <2> QED
    BY <2>5, <2>6, <2>7, <2>11 DEF LogInv
<1>2. ASSUME NEW b \in Tabs, SetTrust(b) PROVE LogInv'
  BY <1>1, <1>2 DEF SetTrust
<1>3. ASSUME NEW b \in Tabs, DeleteTrust(b) PROVE LogInv'
  BY <1>1, <1>3 DEF DeleteTrust, Survivors
<1>4. ASSUME UNCHANGED <<log, payload>>, LogTypeOK' PROVE LogInv'
  <2>1. Cites' /\ ServesSinceNeutral' /\ \A i, j \in 1..Len(log') : log'[i].hash = log'[j].hash => i = j
    BY <1>4 DEF LogInv, Cites, Prior, ServesSinceNeutral
  <2>2. ASSUME log' # <<>> PROVE (\E k \in 1..Len(log) : Prior(k, Len(log)))'
    BY <1>4, <2>2 DEF LogInv, Prior
  <2>3. ASSUME log' # <<>> PROVE (\E k \in 1..Len(log) : Top(k))'
    BY <1>4, <2>3 DEF LogInv, Top, Before
  <2> QED
    BY <1>4, <2>1, <2>2, <2>3 DEF LogInv
<1>5. ASSUME NEW b \in Tabs, Refused(b) PROVE LogInv'
  BY <1>0, <1>c, <1>4, <1>5 DEF Refused, LogTypeOK
<1>6. ASSUME NEW b \in Tabs, NEW s \in {"trust", "distrust", "neutral"}, Stamp(b, s) PROVE LogInv'
  <2>1. [stance |-> s, at |-> clock] \in [stance : {"none", "trust", "distrust", "neutral"}, at : 0..MaxClock]
    BY <1>0 DEF LogTypeOK
  <2> QED
    BY <1>0, <1>4, <1>6, <2>1 DEF Stamp, LogTypeOK
<1>7. CASE Tick
  BY <1>0, <1>4, <1>7, LogConfig DEF Tick, LogTypeOK
<1>8. CASE UNCHANGED vars
  BY <1>0, <1>4, <1>8 DEF vars, LogTypeOK
<1> QED
  BY <1>2, <1>3, <1>5, <1>6, <1>7, <1>8 DEF Next

\* A row that is cited twice was cited first by a row behind it.
LEMMA ForkIsBehind ==
  ASSUME LogInv, NEW i \in 1..Len(log), NEW j \in 1..Len(log), i < j, log[i].prior = log[j].prior
  PROVE  \E k \in 1..(i - 1) : log[k].hash = log[i].prior /\ log[i].at <= log[k].at
<1>t. /\ Len(log) \in Nat
      /\ \A m \in 1..Len(log) : log[m].at \in Int /\ log[m].hash # NoHash
  BY RowNumbers DEF LogInv
<1>1. PICK k \in 1..(j - 1) : log[k].hash = log[j].prior /\ Prior(k, j - 1)
  BY <1>t DEF LogInv, Cites
<1>2. k \in 1..Len(log) /\ i \in 1..(j - 1)
  BY <1>t
<1>3. i # 1
  BY <1>1, <1>2, <1>t DEF LogInv, Cites
<1>4. PICK m \in 1..(i - 1) : log[m].hash = log[i].prior
  BY <1>3 DEF LogInv, Cites
<1>5. m \in 1..Len(log)
  BY <1>t
<1>6. m = k
  BY <1>1, <1>2, <1>4, <1>5 DEF LogInv
<1>7. log[i].at <= log[k].at
  BY <1>1, <1>2, <1>t DEF Prior
<1> QED
  BY <1>4, <1>6, <1>7

\* A row that is not behind is the one picked next.
LEMMA AheadIsCited ==
  ASSUME LogInv, NEW i \in 1..(Len(log) - 1), ~Behind(i)
  PROVE  log[i + 1].prior = log[i].hash
<1>t. /\ Len(log) \in Nat /\ i \in 1..Len(log) /\ i + 1 \in 1..Len(log) /\ i + 1 # 1 /\ (i + 1) - 1 = i
      /\ \A m \in 1..Len(log) : log[m].at \in Int
  BY RowNumbers DEF LogInv
<1>1. PICK k \in 1..i : log[k].hash = log[i + 1].prior /\ Prior(k, i)
  BY <1>t DEF LogInv, Cites
<1>2. k # i => k \in 1..(i - 1) /\ k \in 1..Len(log)
  BY <1>t
<1>3. log[i].at <= log[k].at
  BY <1>1, <1>t DEF Prior
<1> QED
  BY <1>1, <1>2, <1>3 DEF Behind

\* An erased row that is shown was written before a revocation that sorts below it.
LEMMA ErasedShown ==
  ASSUME LogInv, Active, Shown.hash \notin payload
  PROVE  \E i \in 1..Len(log) : log[i].stance = "neutral" /\ Behind(i)
<1>t. /\ Len(log) \in Nat /\ log # <<>>
      /\ \A m \in 1..Len(log) : log[m].at \in Int
  BY RowNumbers DEF LogInv, Active, Rows
<1>1. PICK k \in 1..Len(log) : Top(k)
  BY <1>t DEF LogInv
<1>2. log[k] \in Rows /\ \A q \in Rows : Before(q, log[k])
  BY <1>1 DEF Top, Rows
<1>3. Shown \in Rows /\ \A q \in Rows : Before(q, Shown)
  BY <1>2 DEF Shown
<1>4. PICK s \in 1..Len(log) : Shown = log[s]
  BY <1>3 DEF Rows
<1>5. PICK j \in 1..Len(log) : log[j].stance = "neutral" /\ ~(j <= s)
  BY <1>4 DEF LogInv, ServesSinceNeutral
<1>6. Before(log[j], log[s])
  BY <1>3, <1>4 DEF Rows
<1>7. log[j].at <= log[s].at /\ s \in 1..(j - 1)
  BY <1>5, <1>6, <1>t DEF Before
<1> QED
  BY <1>5, <1>7 DEF Behind

\* However requests overlap, whenever they were stamped and whatever ranks the hashes and
\* ids get: the home's log forks, and shows what it erased, only behind a stamp as late.
THEOREM LogStaysLinear == Spec => []LogIsLinear
<1>1. Init => LogInv
  <2> SUFFICES ASSUME Init PROVE LogInv
    OBVIOUS
  <2>1. log = <<>> /\ Len(log) = 0 /\ payload = {} /\ clock = 0
    BY DEF Init
  <2>2. LogTypeOK
    BY <2>1, LogConfig DEF Init, LogTypeOK, NoClick
  <2> QED
    BY <2>1, <2>2 DEF LogInv, Cites, ServesSinceNeutral
<1>2. LogInv /\ [Next]_vars => LogInv'
  BY LogStep
<1>3. LogInv => LogIsLinear
  BY ForkIsBehind, AheadIsCited, ErasedShown DEF LogInv, LogIsLinear, ForksOnlyBehind, ErasedIsHidden
<1> QED
  BY <1>1, <1>2, <1>3, PTL DEF Spec

-----------------------------------------------------------------------------
(* What the closure of trust is announced with.                            *)

\* The keys of one direction: a visible and an expanded set.
KeyPair == [vis : SUBSET Keys, exp : SUBSET Keys]
\* The filters f hold every bit of the keys ks.
Covered(f, ks) == Built(ks.vis) \subseteq f.vis /\ Built(ks.exp) \subseteq f.exp

\* Inductive: the row covers what the peer told, and so does the request in hand for what
\* it carries, so that applying it keeps the row covering.
CoverInv ==
  /\ closure \in KeyPair /\ told \in KeyPair /\ inbound.keys \in KeyPair
  /\ row # NoRow => Covered(row, told)
  /\ inbound.kind # "none" => Covered(inbound, inbound.keys)

\* What the filters are built with: hashes of the keys, a non-empty filter.
FilterParams ==
  /\ HashA \in [Keys -> Nat] /\ HashB \in [Keys -> Nat]
  /\ Wrap \in Nat \ {0} /\ Bits \in Nat \ {0} /\ HashCount \in Nat

-----------------------------------------------------------------------------
(* The filter.                                                             *)

\* The positions of a key are positions of the filter.
LEMMA PositionsInFilter == ASSUME FilterParams, NEW k \in Keys PROVE BitPositions(k) \subseteq All
<1>1. ASSUME NEW i \in 0 .. HashCount - 1
      PROVE  ((HashA[k] + ((i * HashB[k]) % Wrap)) % Wrap) % Bits \in All
  <2>1. i * HashB[k] \in Int
    BY DEF FilterParams
  <2>2. (i * HashB[k]) % Wrap \in Nat
    BY <2>1 DEF FilterParams
  <2>3. (HashA[k] + ((i * HashB[k]) % Wrap)) % Wrap \in Nat
    BY <2>2 DEF FilterParams
  <2> QED
    BY <2>3 DEF FilterParams, All
<1> QED
  BY <1>1 DEF BitPositions

\* The filter of the sentinel announcement, all ones, covers every set of keys.
LEMMA SentinelCovers == ASSUME FilterParams, NEW S \in SUBSET Keys PROVE Built(S) \subseteq All
  BY PositionsInFilter DEF Built

\* Merging the mask of the new keys into a filter that covers the old ones covers both:
\* a delta loses nothing.
LEMMA MergedCovers ==
  ASSUME NEW f, NEW S, NEW T, T \subseteq S, Built(T) \subseteq f
  PROVE  Built(S) \subseteq OrMask(f, Built(S \ T))
<1>1. ASSUME NEW b \in Built(S) PROVE b \in OrMask(f, Built(S \ T))
  <2>1. PICK k \in S : b \in BitPositions(k)
    BY DEF Built
  <2>2. CASE k \in T
    BY <2>1, <2>2 DEF Built, OrMask
  <2>3. CASE k \notin T
    BY <2>1, <2>3 DEF Built, OrMask
  <2> QED
    BY <2>2, <2>3
<1> QED
  BY <1>1

-----------------------------------------------------------------------------
(* The invariant.                                                          *)

LEMMA CoverInitially == InterestInit => CoverInv
<1> SUFFICES ASSUME InterestInit PROVE CoverInv
  OBVIOUS
<1>1. Nothing.kind = "none" /\ Nothing.keys \in KeyPair
  BY DEF Nothing, KeyPair
<1>2. closure \in KeyPair /\ told \in KeyPair
  BY DEF InterestInit, KeyPair
<1>3. row = NoRow /\ inbound = Nothing
  BY DEF InterestInit
<1> QED
  BY <1>1, <1>2, <1>3 DEF CoverInv

LEMMA CoverStep == ASSUME FilterParams PROVE CoverInv /\ [InterestNext]_interestVars => CoverInv'
<1> SUFFICES ASSUME CoverInv, [InterestNext]_interestVars PROVE CoverInv'
  OBVIOUS
<1>1. ASSUME NEW v \in SUBSET Keys, NEW e \in SUBSET Keys, ClosureChanges(v, e) PROVE CoverInv'
  BY <1>1 DEF ClosureChanges, CoverInv, KeyPair, Covered
<1>2. ASSUME NEW u \in LocalKeys, UserJoins(u) \/ UserLeaves(u) PROVE CoverInv'
  BY <1>2 DEF UserJoins, UserLeaves, CoverInv, Covered
<1>3. ASSUME NEW s \in BOOLEAN, AnnounceReads(s) PROVE CoverInv'
  <2>1. inbound'.keys = closure /\ UNCHANGED <<row, closure, told>>
    BY <1>3 DEF AnnounceReads
  <2>2. inbound'.vis = IF s THEN All ELSE Built(closure.vis)
    BY <1>3 DEF AnnounceReads
  <2>3. inbound'.exp = IF s THEN All ELSE Built(closure.exp)
    BY <1>3 DEF AnnounceReads
  <2>4. closure.vis \in SUBSET Keys /\ closure.exp \in SUBSET Keys
    BY DEF CoverInv, KeyPair
  <2>5. Built(closure.vis) \subseteq All /\ Built(closure.exp) \subseteq All
    BY <2>4, SentinelCovers
  <2>6. Covered(inbound', closure)
    BY <2>2, <2>3, <2>5 DEF Covered
  <2> QED
    BY <2>1, <2>6 DEF CoverInv, Covered
<1>4. ASSUME AnnounceApplies \/ DeltaApplies PROVE CoverInv'
  <2>1. row'.vis = inbound.vis /\ row'.exp = inbound.exp /\ told' = inbound.keys /\ closure' = closure
    BY <1>4 DEF AnnounceApplies, DeltaApplies
  <2>2. inbound' = Nothing /\ Nothing.kind = "none" /\ Nothing.keys \in KeyPair
    BY <1>4 DEF AnnounceApplies, DeltaApplies, Nothing, KeyPair
  <2>3. Covered(inbound, inbound.keys)
    BY <1>4 DEF AnnounceApplies, DeltaApplies, CoverInv
  <2>4. Covered(row', told')
    BY <2>1, <2>3 DEF Covered
  <2> QED
    BY <2>1, <2>2, <2>4 DEF CoverInv
<1>5. ASSUME DeltaReads PROVE CoverInv'
  <2>1. inbound'.keys = closure /\ UNCHANGED <<row, closure, told>>
    BY <1>5 DEF DeltaReads
  <2>2. inbound'.vis = OrMask(row.vis, Built(closure.vis \ told.vis))
    BY <1>5 DEF DeltaReads
  <2>3. inbound'.exp = OrMask(row.exp, Built(closure.exp \ told.exp))
    BY <1>5 DEF DeltaReads
  <2>4. told.vis \subseteq closure.vis /\ told.exp \subseteq closure.exp
    BY <1>5 DEF DeltaReads
  <2>5. Built(told.vis) \subseteq row.vis /\ Built(told.exp) \subseteq row.exp
    BY <1>5 DEF DeltaReads, CoverInv, Covered
  <2>6. Covered(inbound', closure)
    BY <2>2, <2>3, <2>4, <2>5, MergedCovers DEF Covered
  <2> QED
    BY <2>1, <2>6 DEF CoverInv, Covered
<1>6. ASSUME UNCHANGED interestVars PROVE CoverInv'
  BY <1>6 DEF interestVars, CoverInv, Covered
<1> QED
  BY <1>1, <1>2, <1>3, <1>4, <1>5, <1>6 DEF InterestNext

\* A row that covers the told keys misses none of them, whatever the mode.
LEMMA CoveredIsSent == ASSUME ParamsOk(HashCount, Bits) PROVE CoverInv => NoFalseNegative
<1> SUFFICES ASSUME CoverInv, row # NoRow
             PROVE  /\ \A k \in told.vis : Contains(row.vis, k)
                    /\ \A k \in told.exp : Contains(row.exp, k)
  BY DEF NoFalseNegative, Interested, Admits
<1>1. Built(told.vis) \subseteq row.vis /\ Built(told.exp) \subseteq row.exp
  BY DEF CoverInv, Covered
<1> QED
  BY <1>1 DEF Built, Contains

\* A key the peer told of is never missed (peers_interested_in, bloom.rs): "False positives
\* are possible; false negatives are not", for every filter the code accepts.
THEOREM FiltersMissNothing ==
  ASSUME FilterParams, ParamsOk(HashCount, Bits)
  PROVE  InterestSpec => []NoFalseNegative
<1>1. InterestInit => CoverInv
  BY CoverInitially
<1>2. CoverInv /\ [InterestNext]_interestVars => CoverInv'
  BY CoverStep
<1>3. CoverInv => NoFalseNegative
  BY CoveredIsSent
<1> QED
  BY <1>1, <1>2, <1>3, PTL DEF InterestSpec

-----------------------------------------------------------------------------
(* The mode.                                                               *)

\* Inductive: neither the row nor the mode read for the request is "all" before a local
\* user was measured.
ModeInv == FreshNeverAll /\ (inbound.prior = "all" => measured)

\* A peering starts filtered and stays so until a classification sees a local user
\* (classify_mode): "fresh peering never starts in all-mode".
THEOREM FreshPeeringFiltered == InterestSpec => []FreshNeverAll
<1>1. InterestInit => ModeInv
  <2>1. NoRow.mode = "none" /\ Nothing.prior = "filtered"
    BY DEF NoRow, Nothing
  <2> QED
    BY <2>1 DEF InterestInit, ModeInv, FreshNeverAll
<1>2. ModeInv /\ [InterestNext]_interestVars => ModeInv'
  <2> SUFFICES ASSUME ModeInv, [InterestNext]_interestVars PROVE ModeInv'
    OBVIOUS
  <2>1. ASSUME NEW v \in SUBSET Keys, NEW e \in SUBSET Keys, ClosureChanges(v, e) PROVE ModeInv'
    BY <2>1 DEF ClosureChanges, ModeInv, FreshNeverAll
  <2>2. ASSUME NEW u \in LocalKeys, UserJoins(u) \/ UserLeaves(u) PROVE ModeInv'
    BY <2>2 DEF UserJoins, UserLeaves, ModeInv, FreshNeverAll
  <2>3. ASSUME NEW s \in BOOLEAN, AnnounceReads(s) PROVE ModeInv'
    BY <2>3 DEF AnnounceReads, ModeInv, FreshNeverAll
  <2>4. ASSUME AnnounceApplies \/ DeltaApplies PROVE ModeInv'
    <3>1. row'.mode = ClassifyMode(inbound.prior, inbound.vis) /\ measured' = (measured \/ users # {})
      BY <2>4 DEF AnnounceApplies, DeltaApplies
    <3>2. inbound'.prior = "filtered"
      <4>1. inbound' = Nothing
        BY <2>4 DEF AnnounceApplies, DeltaApplies
      <4> QED
        BY <4>1 DEF Nothing
    <3>3. users = {} => row'.mode = inbound.prior
      BY <3>1 DEF ClassifyMode
    <3> QED
      BY <3>1, <3>2, <3>3, Zenon DEF ModeInv, FreshNeverAll
  <2>5. ASSUME DeltaReads PROVE ModeInv'
    BY <2>5 DEF DeltaReads, ModeInv, FreshNeverAll
  <2>6. ASSUME UNCHANGED interestVars PROVE ModeInv'
    BY <2>6 DEF interestVars, ModeInv, FreshNeverAll
  <2> QED
    BY <2>1, <2>2, <2>3, <2>4, <2>5, <2>6 DEF InterestNext
<1>3. ModeInv => FreshNeverAll
  BY DEF ModeInv
<1> QED
  BY <1>1, <1>2, <1>3, PTL DEF InterestSpec

-----------------------------------------------------------------------------

\* For all Bloom parameters the code accepts: an object about a key the peer told of is
\* sent to it, and a peering without a measured user is never classed as wanting all.
THEOREM FiltersAreSound ==
  ASSUME FilterParams, ParamsOk(HashCount, Bits)
  PROVE  InterestSpec => []FiltersSound
<1>1. NoFalseNegative /\ FreshNeverAll => FiltersSound
  BY DEF FiltersSound
<1> QED
  BY <1>1, FiltersMissNothing, FreshPeeringFiltered, PTL
=============================================================================
