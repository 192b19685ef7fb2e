---------------------------- MODULE TrustScores ----------------------------
(***************************************************************************)
(* The scores of the trust graph (server/src/trust.rs): the breadth-first  *)
(* walks from a reader to authors and back, with the penalty for trusting  *)
(* someone the reader distrusts, and the viewer's own pending changes laid *)
(* over the cached graph.  A score is kept per group of paths, that is per *)
(* first hop; combining the groups into one number is a monotone function  *)
(* of them and is left out.  Scores are integers: Full stands for 1.       *)
(***************************************************************************)
EXTENDS Integers, Sequences, FiniteSets, SequencesExt, FiniteSetsExt

CONSTANTS
  Nodes,     \* users, integers; rows come in their order
  Viewer,    \* the user whose clicks are pending
  MaxDepth,  \* MAX_DEPTH
  Graphs,    \* sets of trust edges among the other users
  Stances,   \* stances of the viewer towards the other users, as functions
  Full       \* the score of a direct edge, divisible by all that is divided out

VARIABLES
  trusts,    \* the cached graph without the viewer's own edges
  cached,    \* the viewer's stances in the cached graph
  now        \* the viewer's stances in the database

scoreVars == <<trusts, cached, now>>

Others == Nodes \ {Viewer}
Own(stance) == {<<Viewer, n>> : n \in {m \in Others : stance[m] = "trust"}}

\* TrustGraph::build(): the index holds the users some trust edge touches, and a distrust
\* counts only between two of them.
Index(g) == UNION {{e[1], e[2]} : e \in g}
Distrusted(g, stance) == {n \in Others : stance[n] = "distrust" /\ {Viewer, n} \subseteq Index(g)}

\* CsrGraph::neighbors(), transpose()
Neighbors(g, n) == SetToSortSeq({e[2] : e \in {f \in g : f[1] = n}}, <)
Transpose(g) == {<<e[2], e[1]>> : e \in g}

\* DECAY is 7/10, the reliability 3/4 for each distrusted neighbour.
Decay(s) == (s * 7) \div 10
Reliability(g, n, distrusts, s) ==
  FoldLeft(LAMBDA x, y : (x * 3) \div 4, s, SelectSeq(Neighbors(g, n), LAMBDA m : m \in distrusts))

\* PathGroups::add()
Add(groups, group, s) == [groups EXCEPT ![group] = IF s > @ THEN s ELSE @]

-----------------------------------------------------------------------------
(* forward_bfs_inner(): one walk for all first hops, the queue shared.     *)

Entry(n, d, f, s) == [node |-> n, depth |-> d, hop |-> f, score |-> s]

Seeds(g, source, firsts, distrusts) ==
  LET hops == SelectSeq(firsts, LAMBDA n : n # source) IN
  [queue |-> [i \in 1..Len(hops) |-> Entry(hops[i], 1, hops[i], Reliability(g, hops[i], distrusts, Full))],
   seen |-> {<<h, h>> : h \in Range(hops)},
   groups |-> [n \in Nodes |-> [f \in Nodes |->
                 IF n = f /\ n \in Range(hops) THEN Reliability(g, n, distrusts, Full) ELSE 0]]]

\* One neighbour of the entry at the head: in each group a node counts once, when it is
\* first met.
Seen_AnyGroup(seen, hop, n) == \E f \in Nodes : <<f, n>> \in seen
Seen(seen, hop, n) == <<hop, n>> \in seen
Meet(g, source, distrusts, e, w, next) ==
  LET s == Reliability(g, next, distrusts, Decay(e.score)) IN
  IF next = source \/ Seen(w.seen, e.hop, next) THEN w
  ELSE [queue |-> Append(w.queue, Entry(next, e.depth + 1, e.hop, s)),
        seen |-> w.seen \union {<<e.hop, next>>},
        groups |-> [w.groups EXCEPT ![next] = Add(@, e.hop, s)]]

RECURSIVE Walk(_, _, _, _)
Walk(g, source, distrusts, w) ==
  IF w.queue = <<>> THEN w.groups
  ELSE LET e == Head(w.queue)
           rest == [w EXCEPT !.queue = Tail(@)]
       IN Walk(g, source, distrusts,
            IF e.depth >= MaxDepth THEN rest
            ELSE FoldLeft(LAMBDA v, n : Meet(g, source, distrusts, e, v, n), rest, Neighbors(g, e.node)))

\* A user the reader distrusts scores nothing.
Override(groups, distrusts) == [n \in Nodes |-> IF n \in distrusts THEN [f \in Nodes |-> 0] ELSE groups[n]]

ForwardInner(g, source, firsts, distrusts) ==
  Override(Walk(g, source, distrusts, Seeds(g, source, firsts, distrusts)), distrusts)
Forward(g, source, distrusts) == ForwardInner(g, source, Neighbors(g, source), distrusts)

-----------------------------------------------------------------------------
(* apply_delta_overlay(), forward_scores_with_delta().                     *)

Graph(stance) == trusts \union Own(stance)
CachedGraph == Graph(cached)

\* ViewerDelta as PendingDeltas::apply() leaves it, from what the cached graph says.
Delta ==
  LET clicked == {n \in Others : now[n] # cached[n]}
      distrusted == Distrusted(CachedGraph, cached) IN
  [trustAdded |-> {n \in clicked : now[n] = "trust"},
   trustRemoved |-> {n \in clicked : cached[n] = "trust"},
   distrustAdded |-> {n \in clicked : now[n] = "distrust" /\ n \notin distrusted},
   distrustRemoved |-> {n \in clicked : now[n] # "distrust" /\ n \in distrusted}]

\* A target the cached graph does not index is passed over.
Known(targets) == targets \intersect Index(CachedGraph)
OverlaidHops(d) ==
  SelectSeq(Neighbors(CachedGraph, Viewer), LAMBDA n : n \notin d.trustRemoved)
    \o SetToSortSeq(Known(d.trustAdded), <)
OverlaidDistrusts(d) ==
  (Distrusted(CachedGraph, cached) \ d.distrustRemoved) \union Known(d.distrustAdded)

Nothing == [n \in Nodes |-> [f \in Nodes |-> 0]]
ForwardWithDelta ==
  CASE now = cached -> Forward(CachedGraph, Viewer, Distrusted(CachedGraph, cached))
    [] now # cached /\ Viewer \notin Index(CachedGraph) -> Nothing
    [] OTHER -> ForwardInner(CachedGraph, Viewer, OverlaidHops(Delta), OverlaidDistrusts(Delta))

-----------------------------------------------------------------------------
(* reverse_bfs(): every user behind a reader in one walk, grouped by the   *)
(* node the walk came from.                                                *)

ReverseSeeds(g, reader) ==
  LET ins == SelectSeq(Neighbors(Transpose(g), reader), LAMBDA n : n # reader) IN
  [queue |-> [i \in 1..Len(ins) |-> Entry(ins[i], 1, reader, Full)],
   seen |-> Range(ins),
   groups |-> [n \in Nodes |-> [f \in Nodes |-> IF f = reader /\ n \in Range(ins) THEN Full ELSE 0]]]

\* The group is recorded however late it comes; only the first meeting is walked on.
Counts(seen, next) == TRUE
ReverseMeet(reader, e, w, next) ==
  LET s == Decay(e.score)
      met == [w EXCEPT !.groups = IF Counts(w.seen, next) THEN [@ EXCEPT ![next] = Add(@, e.node, s)] ELSE @]
  IN IF next = reader THEN w
     ELSE IF next \in w.seen THEN met
     ELSE [met EXCEPT !.queue = Append(@, Entry(next, e.depth + 1, reader, s)), !.seen = @ \union {next}]

RECURSIVE ReverseWalk(_, _, _)
ReverseWalk(g, reader, w) ==
  IF w.queue = <<>> THEN w.groups
  ELSE LET e == Head(w.queue)
           rest == [w EXCEPT !.queue = Tail(@)]
       IN ReverseWalk(g, reader,
            IF e.depth >= MaxDepth THEN rest
            ELSE FoldLeft(LAMBDA v, n : ReverseMeet(reader, e, v, n), rest, Neighbors(Transpose(g), e.node)))

Backward(g, reader) == ReverseWalk(g, reader, ReverseSeeds(g, reader))

\* paths_to(): the paths of up to three hops whose inner nodes are not distrusted.
Via(g, n, m) == <<n, m>> \in g
PathsTo(g, source, target, distrusts) ==
  LET mids == Nodes \ ({source, target} \union distrusts) IN
  {p \in {<<>>} : Via(g, source, target)}
    \union {<<m>> : m \in {n \in mids : Via(g, source, n) /\ Via(g, n, target)}}
    \union {p \in mids \X mids : p[1] # p[2] /\ Via(g, source, p[1]) /\ Via(g, p[1], p[2]) /\ Via(g, p[2], target)}

-----------------------------------------------------------------------------

ScoreInit == trusts \in Graphs /\ cached \in Stances /\ now = cached

\* The viewer changes one stance; the delta is what cached and now differ by.
ViewerClicks(n, s) ==
  /\ now[n] # s /\ now = cached /\ now' = [now EXCEPT ![n] = s]
  /\ UNCHANGED <<trusts, cached>>
Rebuilt == now # cached /\ cached' = now /\ UNCHANGED <<trusts, now>>

ScoreNext == Rebuilt \/ \E n \in Others, s \in {"neutral", "trust", "distrust"} : ViewerClicks(n, s)
ScoreSpec == ScoreInit /\ [][ScoreNext]_scoreVars

-----------------------------------------------------------------------------
(* Properties.                                                             *)

\* The variables keep their types.
ScoreTypeOK ==
  /\ trusts \subseteq Others \X Nodes
  /\ cached \in [Others -> {"neutral", "trust", "distrust"}] /\ now \in [Others -> {"neutral", "trust", "distrust"}]

\* Laying the pending clicks over the cached graph gives the viewer the very scores the
\* next rebuild will give, group by group and for every author; save that a click of a
\* viewer, or on a target, whom no trust edge touched when the graph was built shows
\* nothing until then.
OverlayIsRebuild ==
  LET rebuilt == Forward(Graph(now), Viewer, Distrusted(Graph(now), now))
      overlaid == ForwardWithDelta IN
  \A n, f \in Nodes :
    overlaid[n][f] = IF {Viewer, f} \subseteq Index(CachedGraph) THEN rebuilt[n][f] ELSE 0

\* The best score of any path of a group, by definition: simple paths, up to MaxDepth.
PathScore(g, distrusts, p) ==
  FoldLeft(LAMBDA s, i : Reliability(g, p[i], distrusts, IF i = 1 THEN s ELSE Decay(s)), Full, [i \in 1..Len(p) |-> i])
Paths(g, source, first, target) ==
  {p \in UNION {[1..k -> Nodes \ {source}] : k \in 1..MaxDepth} :
     /\ p[1] = first /\ p[Len(p)] = target /\ Via(g, source, first)
     /\ \A i \in 1..(Len(p) - 1) : Via(g, p[i], p[i + 1])
     /\ \A i, j \in 1..Len(p) : p[i] = p[j] => i = j}
Best(g, source, first, target, distrusts) ==
  Max({0} \union {PathScore(g, distrusts, p) : p \in Paths(g, source, first, target)})

\* A reader who distrusts nobody gets, in each group, the best score of its paths, and
\* reaches exactly the users some listed path leads to.  It is a matter of the cached graph
\* alone, so it is looked at when that was just rebuilt.
ForwardIsBest ==
  LET g == CachedGraph
      scores == Forward(g, Viewer, {}) IN
  now = cached => \A n \in Others :
    /\ \A f \in Nodes : scores[n][f] = Best(g, Viewer, f, n, {})
    /\ (\E f \in Nodes : scores[n][f] > 0) = (PathsTo(g, Viewer, n, {}) # {})

\* The one walk back from a reader gives each author the score the author's own walk
\* would: the same groups, or the full score for an author who trusts the reader.
ReverseIsForward ==
  LET g == CachedGraph
      back == Backward(g, Viewer) IN
  now = cached => \A n \in Others :
    LET forth == Forward(g, n, {}) IN
    IF Via(g, n, Viewer) THEN back[n][Viewer] = Full /\ forth[Viewer][Viewer] = Full
    ELSE back[n] = forth[Viewer]

=============================================================================
