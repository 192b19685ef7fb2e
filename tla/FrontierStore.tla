---------------------------- MODULE FrontierStore ----------------------------
(***************************************************************************)
(* The store of the reverse frontier (server/src/federation/               *)
(* frontier_store.rs): who trusts our users, and who trusts those.  Edges  *)
(* enter it as they are received; the fanout worker walks it backwards     *)
(* from the local readers, stamping what it reaches with a generation, and *)
(* sweeps what the last K generations did not reach.  The rebuild is not   *)
(* one transaction: edges arrive between its steps, and it may stop        *)
(* anywhere.                                                               *)
(***************************************************************************)
EXTENDS Integers, Sequences, FiniteSets, SequencesExt

CONSTANTS
  Locals,    \* keys of local users
  Remotes,   \* keys of users elsewhere (keys are integers: their order breaks ties)
  Edges,     \* trust edges: src, tgt, stance, at (the order of the chain of a pair)
  Homed,     \* remote keys whose home (key and domain) is known
  Known,     \* remote keys with a users row, so that their edges project
  Score,     \* per reader and key the forward score
  Genesis,   \* attested account births; NoAge where there is none
  NoAge,
  Caps,      \* admission caps to try
  Depth,     \* FRONTIER_MAX_DEPTH
  K,         \* FRONTIER_GC_K
  MaxGen     \* bound on rebuilds

VARIABLES
  gen,      \* frontier_generation
  fedge,    \* frontier_edges: edge -> generation, 0 when absent
  stub,     \* frontier_users: key -> generation and hop, generation 0 when absent
  got,      \* edges in signed_objects
  ceiling,  \* local_frontier_age_ceilings
  readers,  \* active local users
  cap,      \* admission cap of this instance
  reb,      \* rebuild_reverse_frontier()
  calm      \* nothing was received and no reader changed since the rebuild began

storeVars == <<gen, fedge, stub, got, ceiling, readers, cap, reb, calm>>

Keys == Locals \union Remotes
NoStub == [gen |-> 0, hop |-> 0]
Resting == [pc |-> "idle", roots |-> {}, queue |-> <<>>, visited |-> {}, work |-> <<>>,
            depth |-> 0, caps |-> [r \in Locals |-> {}]]

StoreInit ==
  /\ gen = 1 /\ fedge = [e \in Edges |-> 0] /\ stub = [k \in Remotes |-> NoStub]
  /\ got = {} /\ ceiling = [r \in Locals |-> NoAge] /\ readers = Locals
  /\ cap \in Caps /\ reb = Resting /\ calm = FALSE

-----------------------------------------------------------------------------
(* Receiving an edge, one transaction of apply_one_edge_inner().           *)

Earlier(e) == {d \in Edges : d.src = e.src /\ d.tgt = e.tgt /\ d.at < e.at}

\* target_in_expansion_set()
Expanded(k) ==
  \/ k \in Locals
  \/ k \in Remotes /\ stub[k].gen = gen /\ stub[k].hop < Depth

\* INSERT OR IGNORE, stamped with the current generation.
Insert(e) == fedge' = IF fedge[e] = 0 THEN [fedge EXCEPT ![e] = gen] ELSE fedge

\* Both endpoints are known: the edge is projected when the chain before it is here, and
\* a duplicate of it is answered without looking further.
Projected(e) ==
  /\ e.src \in Known /\ e.tgt \in Locals \union Known
  /\ e \notin got /\ Earlier(e) \subseteq got
  /\ got' = got \union {e} /\ Insert(e) /\ calm' = FALSE
  /\ UNCHANGED <<gen, stub, ceiling, readers, cap, reb>>

\* An endpoint is missing: the bytes are kept, and the edge enters the store when its
\* target is expanded; a duplicate is looked at again.
Unprojected(e) ==
  /\ ~(e.src \in Known /\ e.tgt \in Locals \union Known)
  /\ e \notin got \/ (fedge[e] = 0 /\ Expanded(e.tgt))
  /\ got' = got \union {e}
  /\ IF Expanded(e.tgt) THEN Insert(e) ELSE fedge' = fedge
  /\ calm' = FALSE
  /\ UNCHANGED <<gen, stub, ceiling, readers, cap, reb>>

\* A local user is suspended, or is so no longer.
ReaderChanges(r) ==
  /\ readers' = (readers \ {r}) \union ({r} \ readers)
  /\ calm' = FALSE
  /\ UNCHANGED <<gen, fedge, stub, got, ceiling, cap, reb>>

-----------------------------------------------------------------------------
(* rebuild_reverse_frontier().                                             *)

Advance ==
  /\ reb.pc = "idle" /\ gen < MaxGen
  /\ gen' = gen + 1 /\ calm' = TRUE
  /\ reb' = [Resting EXCEPT !.pc = "bfs", !.roots = readers, !.visited = readers,
               !.queue = SetToSortSeq({<<r, 0>> : r \in readers}, LAMBDA x, y : x[1] < y[1])]
  /\ UNCHANGED <<fedge, stub, got, ceiling, readers, cap>>

\* active_edges_by_source(): the last edge of each source, by source.
Active(edges) ==
  SetToSortSeq({e \in edges : \A d \in edges : d.src = e.src => d.at <= e.at},
               LAMBDA x, y : x.src < y.src)

Inbound(k) == {e \in Edges : fedge[e] # 0 /\ e.tgt = k}

\* The next node of the queue is read.
Pop ==
  /\ reb.pc = "bfs" /\ reb.work = <<>> /\ reb.queue # <<>>
  /\ LET node == Head(reb.queue)[1]
         depth == Head(reb.queue)[2] IN
     reb' = [reb EXCEPT !.queue = Tail(@), !.depth = depth,
               !.work = IF depth < Depth THEN Active(Inbound(node)) ELSE <<>>]
  /\ UNCHANGED <<gen, fedge, stub, got, ceiling, readers, cap, calm>>

\* Admission::desirability(): the score, then the older account, then the key.
Older(g, h) == IF g = NoAge THEN FALSE ELSE h = NoAge \/ g < h
Better(r, x, y) ==
  \/ Score[r][x] > Score[r][y]
  \/ /\ Score[r][x] = Score[r][y]
     /\ Older(Genesis[x], Genesis[y]) \/ (Genesis[x] = Genesis[y] /\ x > y)

Worst(r, s) == CHOOSE x \in s : \A y \in s \ {x} : Better(r, y, x)

\* AdmissionCap::admit()
Admit(r, s, x) ==
  IF Cardinality(s) < cap THEN s \union {x}
  ELSE IF s # {} /\ Better(r, x, Worst(r, s)) THEN (s \ {Worst(r, s)}) \union {x} ELSE s

\* materialize_frontier_node(): a remote key whose home resolves becomes a stub.
Resolves(k) == k \in Homed
Stamped(d) == [gen |-> gen, hop |-> d]
Materialised(k, d) == IF k \in Remotes /\ Resolves(k) THEN [stub EXCEPT ![k] = Stamped(d)] ELSE stub

\* mark_frontier_edge_live(); an edge swept meanwhile is not there to mark.
Marked(e) == IF fedge[e] # 0 THEN [fedge EXCEPT ![e] = gen] ELSE fedge

\* One edge of the node: it is marked, and a trusting source not seen before is offered
\* to the cap of every reader; admitted by one, it is materialised and queued.
Follows_Any(e) == TRUE
Follows(e) == e.stance = "trust"
Edge ==
  LET e == Head(reb.work)
      fresh == Follows(e) /\ e.src \notin reb.visited
      caps == [r \in Locals |-> IF r \in reb.roots THEN Admit(r, reb.caps[r], e.src) ELSE {}]
      in == \E r \in reb.roots : e.src \in caps[r]
  IN
  /\ reb.pc = "bfs" /\ reb.work # <<>>
  /\ fedge' = Marked(e)
  /\ reb' = IF ~fresh THEN [reb EXCEPT !.work = Tail(@)]
            ELSE [reb EXCEPT !.work = Tail(@), !.visited = @ \union {e.src}, !.caps = caps,
                    !.queue = IF in THEN Append(@, <<e.src, reb.depth + 1>>) ELSE @]
  /\ stub' = IF fresh /\ in THEN Materialised(e.src, reb.depth + 1) ELSE stub
  /\ UNCHANGED <<gen, got, ceiling, readers, cap, calm>>

\* sweep_frontier(): two statements.
Swept(g) == g < gen - K
SweepEdges ==
  /\ reb.pc = "bfs" /\ reb.work = <<>> /\ reb.queue = <<>>
  /\ fedge' = [e \in Edges |-> IF Swept(fedge[e]) THEN 0 ELSE fedge[e]]
  /\ reb' = [reb EXCEPT !.pc = "stubs"]
  /\ UNCHANGED <<gen, stub, got, ceiling, readers, cap, calm>>

SweepStubs ==
  /\ reb.pc = "stubs"
  /\ stub' = [k \in Remotes |-> IF Swept(stub[k].gen) THEN NoStub ELSE stub[k]]
  /\ reb' = [reb EXCEPT !.pc = "publish"]
  /\ UNCHANGED <<gen, fedge, got, ceiling, readers, cap, calm>>

\* publish_local_age_ceilings(), derive_age_ceiling()
Ceiling(r) ==
  LET s == reb.caps[r] IN
  IF cap > 0 /\ Cardinality(s) >= cap THEN Genesis[Worst(r, s)] ELSE NoAge
Publish ==
  /\ reb.pc = "publish"
  /\ ceiling' = [r \in Locals |-> IF r \in reb.roots THEN Ceiling(r) ELSE ceiling[r]]
  /\ reb' = [reb EXCEPT !.pc = "done"]
  /\ UNCHANGED <<gen, fedge, stub, got, readers, cap, calm>>

\* The worker turns to the announcement, or an error or a restart ends the rebuild.
Ends ==
  /\ reb.pc # "idle" /\ reb' = Resting /\ calm' = FALSE
  /\ UNCHANGED <<gen, fedge, stub, got, ceiling, readers, cap>>

StoreNext ==
  \/ \E e \in Edges : Projected(e) \/ Unprojected(e)
  \/ \E r \in Locals : ReaderChanges(r)
  \/ Advance \/ Pop \/ Edge \/ SweepEdges \/ SweepStubs \/ Publish \/ Ends

StoreSpec == StoreInit /\ [][StoreNext]_storeVars

\* load_frontier_stub_keys(): what the announced filters are built from.
Live == {k \in Remotes : stub[k].gen = gen}
VisibleStubs == Live
ExpansionStubs == {k \in Live : stub[k].hop < Depth}

-----------------------------------------------------------------------------
(* Properties.                                                             *)

\* The variables keep their types, and nothing is stamped with a generation to come.
StoreTypeOK ==
  /\ gen \in 1..MaxGen /\ fedge \in [Edges -> 0..gen]
  /\ stub \in [Remotes -> [gen : 0..gen, hop : 0..Depth]]
  /\ got \subseteq Edges /\ readers \subseteq Locals /\ cap \in Caps /\ calm \in BOOLEAN
  /\ reb.visited \subseteq Keys /\ reb.roots \subseteq Locals

\* Of a pair whose edges project, the store never keeps an older edge without the last
\* one received: a withdrawn trust does not come back because its withdrawal was swept.
NoResurrection ==
  \A e \in got : \A d \in Earlier(e) :
    e.src \in Known /\ e.tgt \in Locals \union Known /\ fedge[d] # 0 => fedge[e] # 0

\* While the walk goes on, the cap of each reader holds exactly the best of the sources
\* offered to it so far, whatever their order, and each of them that has a home is live.
CapIsTopN ==
  \A r \in reb.roots :
    LET offered == reb.visited \ reb.roots
        top == reb.caps[r] IN
    /\ top \subseteq offered
    /\ Cardinality(top) = IF Cardinality(offered) < cap THEN Cardinality(offered) ELSE cap
    /\ \A x \in top, y \in offered \ top :
         \/ Score[r][x] > Score[r][y]
         \/ Score[r][x] = Score[r][y] /\ Genesis[x] # NoAge /\ (Genesis[y] = NoAge \/ Genesis[x] <= Genesis[y])
         \/ Score[r][x] = Score[r][y] /\ Genesis[x] = NoAge /\ Genesis[y] = NoAge
    /\ \A x \in top \intersect Homed : x \in Remotes => stub[x].gen = gen

\* The keys up to n steps of trust behind the roots, by definition.
Stands(e) == fedge[e] # 0 /\ e.stance = "trust" /\ \A d \in Edges : e \in Earlier(d) => fedge[d] = 0
Behind(roots) ==
  LET b[n \in 0..Depth] ==
        IF n = 0 THEN roots
        ELSE b[n - 1] \union {e.src : e \in {f \in Edges : Stands(f) /\ f.tgt \in b[n - 1]}}
  IN b

\* A rebuild that nothing disturbed, with room in the caps, leaves as visible exactly the
\* homed keys within Depth steps of trust behind the readers, as expanded those one step
\* closer, and gives each its shortest distance.
FrontierIsReach ==
  reb.pc = "done" /\ calm /\ cap >= Cardinality(Keys) =>
    LET behind == Behind(reb.roots)
        homed == Remotes \intersect Homed IN
    /\ VisibleStubs = behind[Depth] \intersect homed
    /\ ExpansionStubs = behind[Depth - 1] \intersect homed
    /\ \A k \in VisibleStubs, n \in 0..Depth : (k \in behind[n]) = (n >= stub[k].hop)

=============================================================================
