------------------------- MODULE EdgeReceiverProofs -------------------------
(***************************************************************************)
(* The projection of a trust-edge chain at a receiver, for every set of    *)
(* edges (forks and revocations included) and every interleaving of        *)
(* pushes, sweeps, backfills, rollbacks and evictions: the projected edges *)
(* are one chain, and no orphan is left behind a projected predecessor     *)
(* (federation/edges.rs, remote_users.rs).                                 *)
(***************************************************************************)
EXTENDS EdgeReceiver, TLAPS

-----------------------------------------------------------------------------
(* The tables.                                                             *)

\* ChainIntact, of any version of the tables.
Intact(d) ==
  \A e \in d.projected :
    /\ Prior[e] = NoEdge \/ Prior[e] \in d.projected
    /\ \A x \in d.projected : Prior[x] = Prior[e] => x = e
    /\ d.stored[e] # "none"

\* No orphan waits for a projected edge, but for the one being drained; one orphan waits
\* for any predecessor.
Settled(d, p) ==
  /\ \A x \in d.pending : Prior[x] \in d.projected => Prior[x] = p
  /\ \A x, y \in d.pending : Prior[x] = Prior[y] => x = y
  /\ p # NoEdge => p \in d.projected

\* No signed object disappears.
Keeps(c, d) == \A e \in Edges : c.stored[e] # "none" => d.stored[e] # "none"

Good(d, p) == d \in Db /\ Intact(d) /\ Settled(d, p)

LEMMA StoreEffect ==
  ASSUME NEW d \in Db, NEW e \in Edges
  PROVE  /\ Store(d, e) \in Db /\ Store(d, e).stored[e] # "none" /\ Keeps(d, Store(d, e))
         /\ Store(d, e).projected = d.projected /\ Store(d, e).pending = d.pending
         /\ Store(d, e).known = d.known
<1>1. StoredAs(d.stored[e]) \in {"live", "erased"}
  BY DEF Db, StoredAs
<1> QED
  BY <1>1 DEF Store, Db, Keeps

LEMMA EraseEffect ==
  ASSUME NEW d \in Db, NEW e \in Edges
  PROVE  /\ Erase(d, e) \in Db /\ \A x \in Edges : Erase(d, e).stored[x] = "none" <=> d.stored[x] = "none"
         /\ Erase(d, e).projected = d.projected /\ Erase(d, e).pending = d.pending
  BY DEF Erase, Db

LEMMA InsertEffect ==
  ASSUME NEW d \in Db, NEW e \in Edges
  PROVE  /\ Insert(d, e) \in Db /\ \A x \in Edges : Insert(d, e).stored[x] = "none" <=> d.stored[x] = "none"
         /\ Insert(d, e).projected = d.projected \cup {e} /\ Insert(d, e).pending = d.pending
<1> DEFINE row == [d EXCEPT !.projected = @ \cup {e}, !.frontier = @ \cup {e}]
<1>1. /\ row \in Db /\ row.stored = d.stored /\ row.projected = d.projected \cup {e} /\ row.pending = d.pending
  <2>1. d.projected \cup {e} \in SUBSET Edges /\ d.frontier \cup {e} \in SUBSET Edges
    BY DEF Db
  <2>2. \A p, f \in SUBSET Edges :
          LET r == [d EXCEPT !.projected = p, !.frontier = f]
          IN  r \in Db /\ r.stored = d.stored /\ r.projected = p /\ r.pending = d.pending
    BY Zenon DEF Db
  <2> QED
    BY <2>1, <2>2, Zenon
<1>2. CASE e \in d.projected
  BY <1>2 DEF Insert, Db
<1>3. CASE e \notin d.projected /\ e \in Neutral
  <2>1. Insert(d, e) = Erase(row, e)
    BY <1>3 DEF Insert
  <2> HIDE DEF row
  <2> QED
    BY <1>1, <2>1, EraseEffect
<1>4. CASE e \notin d.projected /\ e \notin Neutral
  <2>1. Insert(d, e) = row
    BY <1>4 DEF Insert
  <2> HIDE DEF row
  <2> QED
    BY <1>1, <2>1
<1> QED
  BY <1>2, <1>3, <1>4

\* What Projected means: the edge is there, or it fits.
LEMMA ProjectedFits ==
  ASSUME NEW d \in Db, NEW e \in Edges, Outcome(d, e) = "Projected"
  PROVE  \/ e \in d.projected
         \/ /\ Prior[e] = NoEdge \/ Prior[e] \in d.projected
            /\ \A x \in d.projected : Prior[x] # Prior[e]
<1>1. d.known = Endpoints
  BY DEF Outcome
<1>2. e \in d.projected \/ ~Sibling(d, e)
  BY <1>1 DEF Outcome
<1>3. e \in d.projected \/ Grounded(d, e)
  BY <1>1, <1>2 DEF Outcome
<1> QED
  BY <1>2, <1>3 DEF Sibling, Grounded

\* Projecting an edge whose object is stored keeps the chain a chain.
LEMMA InsertIntact ==
  ASSUME NEW d \in Db, Intact(d), NEW e \in Edges, Outcome(d, e) = "Projected", d.stored[e] # "none"
  PROVE  Intact(Insert(d, e))
<1>1. \/ e \in d.projected
      \/ /\ Prior[e] = NoEdge \/ Prior[e] \in d.projected
         /\ \A x \in d.projected : Prior[x] # Prior[e]
  BY ProjectedFits
<1>2. /\ Insert(d, e).projected = d.projected \cup {e}
      /\ \A x \in Edges : Insert(d, e).stored[x] = "none" <=> d.stored[x] = "none"
  BY InsertEffect
<1>3. d.projected \subseteq Edges
  BY DEF Db
<1> QED
  BY <1>1, <1>2, <1>3 DEF Intact

\* So does projecting and then storing it.
LEMMA ProjectIntact ==
  ASSUME NEW d \in Db, Intact(d), NEW e \in Edges, Outcome(d, e) = "Projected"
  PROVE  /\ Store(Insert(d, e), e) \in Db /\ Intact(Store(Insert(d, e), e)) /\ Keeps(d, Store(Insert(d, e), e))
         /\ Store(Insert(d, e), e).projected = d.projected \cup {e} /\ Store(Insert(d, e), e).pending = d.pending
<1> DEFINE i == Insert(d, e)
           s == Store(i, e)
<1>1. \/ e \in d.projected
      \/ /\ Prior[e] = NoEdge \/ Prior[e] \in d.projected
         /\ \A x \in d.projected : Prior[x] # Prior[e]
  BY ProjectedFits
<1>2. /\ i \in Db /\ i.projected = d.projected \cup {e} /\ i.pending = d.pending
      /\ \A x \in Edges : i.stored[x] = "none" <=> d.stored[x] = "none"
  BY InsertEffect
<1> HIDE DEF i
<1>3. /\ s \in Db /\ s.stored[e] # "none" /\ Keeps(i, s) /\ s.projected = i.projected /\ s.pending = i.pending
  BY <1>2, StoreEffect
<1> HIDE DEF s
<1>4. d.projected \subseteq Edges
  BY DEF Db
<1>5. Keeps(d, s)
  BY <1>2, <1>3 DEF Keeps
<1>6. Intact(s)
  BY <1>1, <1>2, <1>3, <1>4, <1>5 DEF Intact, Keeps
<1> QED
  BY <1>2, <1>3, <1>5, <1>6 DEF i, s

\* Storing alone changes nothing of the projection.
LEMMA StoreGood ==
  ASSUME NEW d, NEW p, Good(d, p), NEW e \in Edges PROVE Good(Store(d, e), p) /\ Keeps(d, Store(d, e))
<1>1. d \in Db /\ d.projected \subseteq Edges
  BY DEF Good, Db
<1>2. /\ Store(d, e) \in Db /\ Keeps(d, Store(d, e))
      /\ Store(d, e).projected = d.projected /\ Store(d, e).pending = d.pending
  BY <1>1, StoreEffect
<1> QED
  BY <1>1, <1>2 DEF Good, Intact, Settled, Keeps

\* Nor does the frontier.
LEMMA FrontierGood ==
  ASSUME NEW d, NEW p, Good(d, p), NEW e \in Edges PROVE Good(Frontier(d, e), p) /\ Keeps(d, Frontier(d, e))
<1>1. d \in Db
  BY DEF Good
<1>2. /\ Frontier(d, e) \in Db /\ Frontier(d, e).stored = d.stored
      /\ Frontier(d, e).projected = d.projected /\ Frontier(d, e).pending = d.pending
  BY <1>1 DEF Frontier, Db
<1> QED
  BY <1>2 DEF Good, Intact, Settled, Keeps

\* Dropping an orphan leaves the others settled.
LEMMA DeleteGood ==
  ASSUME NEW d, NEW p, Good(d, p), NEW x PROVE Good(DeletePending(d, x), p) /\ Keeps(d, DeletePending(d, x))
<1>1. d \in Db
  BY DEF Good
<1>2. /\ DeletePending(d, x) \in Db /\ DeletePending(d, x).stored = d.stored
      /\ DeletePending(d, x).projected = d.projected /\ DeletePending(d, x).pending = d.pending \ {x}
  BY <1>1 DEF DeletePending, Db
<1> QED
  BY <1>2 DEF Good, Intact, Settled, Keeps

\* An orphan is buffered once per predecessor, and only while that one is not projected.
LEMMA EnqueueGood ==
  ASSUME NEW d, Good(d, NoEdge), NEW e \in Edges, Outcome(d, e) = "Deferred"
  PROVE  Good(Enqueue(d, e), NoEdge) /\ Keeps(d, Enqueue(d, e))
<1>1. d \in Db
  BY DEF Good
<1>2. Prior[e] \notin d.projected
  BY DEF Outcome, Grounded
<1>3. /\ Enqueue(d, e) \in Db /\ Enqueue(d, e).stored = d.stored /\ Enqueue(d, e).projected = d.projected
      /\ \/ Enqueue(d, e).pending = d.pending
         \/ (\A x \in d.pending : Prior[x] # Prior[e]) /\ Enqueue(d, e).pending = d.pending \cup {e}
  BY <1>1 DEF Enqueue, Db
<1>4. Settled(Enqueue(d, e), NoEdge)
  BY <1>2, <1>3 DEF Good, Settled
<1> QED
  BY <1>3, <1>4 DEF Good, Intact, Keeps

-----------------------------------------------------------------------------
(* The transactions.                                                       *)

\* An edge projected into settled tables: its orphans are what remains to be drained.
LEMMA ProjectGood ==
  ASSUME NEW d, Good(d, NoEdge), NEW e \in Edges, Outcome(d, e) = "Projected"
  PROVE  /\ Good(Store(Insert(d, e), e), e) /\ Keeps(d, Store(Insert(d, e), e))
         /\ d.stored[e] # "none" => Good(Insert(d, e), e) /\ Keeps(d, Insert(d, e))
<1>1. d \in Db /\ Intact(d) /\ Settled(d, NoEdge) /\ NoEdge \notin d.projected /\ e # NoEdge
  BY EdgeConfig DEF Good, Db
<1>2. /\ Store(Insert(d, e), e) \in Db /\ Intact(Store(Insert(d, e), e)) /\ Keeps(d, Store(Insert(d, e), e))
      /\ Store(Insert(d, e), e).projected = d.projected \cup {e} /\ Store(Insert(d, e), e).pending = d.pending
  BY <1>1, ProjectIntact
<1>3. /\ Insert(d, e) \in Db /\ Insert(d, e).projected = d.projected \cup {e} /\ Insert(d, e).pending = d.pending
      /\ \A x \in Edges : Insert(d, e).stored[x] = "none" <=> d.stored[x] = "none"
  BY <1>1, InsertEffect
<1>4. d.stored[e] # "none" => Intact(Insert(d, e))
  BY <1>1, InsertIntact
<1>5. \A x \in d.pending : Prior[x] \in d.projected \cup {e} => Prior[x] = e
  BY <1>1 DEF Settled
<1>6. Settled(Store(Insert(d, e), e), e) /\ Settled(Insert(d, e), e)
  BY <1>1, <1>2, <1>3, <1>5 DEF Settled
<1> QED
  BY <1>2, <1>3, <1>4, <1>6 DEF Good, Keeps

\* The transaction of a push, up to the drain.
LEMMA AppliedGood ==
  ASSUME NEW d, Good(d, NoEdge), NEW e \in Edges
  PROVE  /\ Good(Applied(d, e), IF Outcome(d, e) = "Projected" THEN e ELSE NoEdge)
         /\ Keeps(d, Applied(d, e))
<1>1. Outcome(d, e) \in {"EndpointMissing", "Projected", "ChainFork", "Deferred"}
  BY DEF Outcome
<1>2. CASE Outcome(d, e) = "Projected"
  BY <1>2, ProjectGood DEF Applied
<1>3. CASE Outcome(d, e) = "EndpointMissing"
  <2>1. Good(Store(d, e), NoEdge) /\ Keeps(d, Store(d, e))
    BY StoreGood
  <2>2. Good(Frontier(Store(d, e), e), NoEdge) /\ Keeps(Store(d, e), Frontier(Store(d, e), e))
    BY <2>1, FrontierGood
  <2>3. Applied(d, e) = Frontier(Store(d, e), e)
    BY <1>3 DEF Applied
  <2> QED
    BY <1>3, <2>1, <2>2, <2>3 DEF Keeps
<1>4. CASE Outcome(d, e) = "ChainFork"
  BY <1>4, StoreGood DEF Applied
<1>5. CASE Outcome(d, e) = "Deferred"
  BY <1>5, EnqueueGood DEF Applied
<1> QED
  BY <1>1, <1>2, <1>3, <1>4, <1>5

\* The transaction of a second attempt, up to the drain.
LEMMA ReattemptedGood ==
  ASSUME NEW d, Good(d, NoEdge), NEW e \in Edges, d.stored[e] # "none"
  PROVE  /\ Good(Reattempted(d, e), IF Outcome(d, e) = "Projected" THEN e ELSE NoEdge)
         /\ Keeps(d, Reattempted(d, e))
<1>1. CASE Outcome(d, e) = "Projected"
  BY <1>1, ProjectGood DEF Reattempted
<1>2. CASE Outcome(d, e) = "EndpointMissing"
  BY <1>2, FrontierGood DEF Reattempted
<1>3. CASE Outcome(d, e) \notin {"Projected", "EndpointMissing"}
  <2>1. Reattempted(d, e) = d
    BY <1>3 DEF Reattempted
  <2> QED
    BY <1>3, <2>1 DEF Keeps
<1> QED
  BY <1>1, <1>2, <1>3

\* One round of the drain.
LEMMA DrainGood ==
  ASSUME NEW d, NEW p \in Edges, Good(d, p), NEW x \in Waiting(d, p)
  PROVE  /\ Outcome(d, x) = "Projected" =>
              Good(DeletePending(Store(Insert(d, x), x), x), x) /\ Keeps(d, DeletePending(Store(Insert(d, x), x), x))
         /\ Outcome(d, x) \in {"ChainFork", "EndpointMissing"} =>
              Good(DeletePending(Store(d, x), x), NoEdge) /\ Keeps(d, DeletePending(Store(d, x), x))
         /\ Outcome(d, x) # "Deferred"
<1>1. /\ d \in Db /\ Intact(d) /\ Settled(d, p) /\ x \in d.pending /\ Prior[x] = p /\ x \in Edges
      /\ p \in d.projected /\ p # NoEdge /\ x # NoEdge
  BY EdgeConfig DEF Good, Waiting, Settled, Db
<1>2. \A y \in d.pending \ {x} : Prior[y] \notin d.projected
  BY <1>1 DEF Settled
<1>3. ASSUME Outcome(d, x) = "Projected"
      PROVE  Good(DeletePending(Store(Insert(d, x), x), x), x) /\ Keeps(d, DeletePending(Store(Insert(d, x), x), x))
  <2> DEFINE s == Store(Insert(d, x), x)
  <2>1. s \in Db /\ Intact(s) /\ Keeps(d, s) /\ s.projected = d.projected \cup {x} /\ s.pending = d.pending
    BY <1>1, <1>3, ProjectIntact
  <2> HIDE DEF s
  <2>2. /\ DeletePending(s, x) \in Db /\ DeletePending(s, x).stored = s.stored
        /\ DeletePending(s, x).projected = s.projected /\ DeletePending(s, x).pending = s.pending \ {x}
    BY <2>1 DEF DeletePending, Db
  <2>3. Settled(DeletePending(s, x), x)
    BY <1>1, <1>2, <2>1, <2>2 DEF Settled
  <2> QED
    BY <2>1, <2>2, <2>3 DEF Good, Intact, Keeps, s
<1>4. ASSUME Outcome(d, x) \in {"ChainFork", "EndpointMissing"}
      PROVE  Good(DeletePending(Store(d, x), x), NoEdge) /\ Keeps(d, DeletePending(Store(d, x), x))
  <2> DEFINE s == Store(d, x)
  <2>1. Good(s, p) /\ Keeps(d, s)
    BY <1>1, StoreGood
  <2>2. s \in Db /\ s.projected = d.projected /\ s.pending = d.pending
    BY <1>1, StoreEffect
  <2> HIDE DEF s
  <2>3. /\ DeletePending(s, x) \in Db /\ DeletePending(s, x).stored = s.stored
        /\ DeletePending(s, x).projected = s.projected /\ DeletePending(s, x).pending = s.pending \ {x}
    BY <2>2 DEF DeletePending, Db
  <2>4. Settled(DeletePending(s, x), NoEdge)
    BY <1>1, <1>2, <2>2, <2>3 DEF Settled
  <2> QED
    BY <2>1, <2>3, <2>4 DEF Good, Intact, Keeps, s
<1>5. Outcome(d, x) # "Deferred"
  BY <1>1 DEF Outcome, Grounded
<1> QED
  BY <1>3, <1>4, <1>5

-----------------------------------------------------------------------------
(* The state.                                                              *)

Pcs == {"idle", "lookup", "apply", "reattempt", "sweep", "recover", "ask", "author"}

WorkTypes ==
  /\ served \in Seq(Edges) /\ wire \subseteq Edges
  /\ pc \in [Workers -> Pcs] /\ todo \in [Workers -> Seq(Edges)]
  /\ \A w \in Workers : pc[w] \in {"apply", "reattempt", "recover"} => todo[w] # <<>>
  /\ \A w \in Workers : tx = w => pc[w] \in {"apply", "reattempt", "sweep"}

\* Inductive: the committed tables are settled; the transaction's are but for the edge it is
\* draining, and hold every object of the committed ones, so that an edge found stored
\* before the transaction is stored in it.
TablesInv ==
  /\ WorkTypes
  /\ Good(db, NoEdge) /\ Good(wdb, work) /\ Keeps(db, wdb) /\ work \in Edges \cup {NoEdge}
  /\ tx = NoOne => wdb = db /\ work = NoEdge
  /\ \A w \in Workers : pc[w] = "reattempt" => db.stored[Head(todo[w])] # "none"

LEMMA HeadTail ==
  ASSUME NEW S, NEW s \in Seq(S), s # <<>> PROVE Head(s) \in S /\ Tail(s) \in Seq(S)
  OBVIOUS

LEMMA WorkTypesStep == WorkTypes /\ db \in Db /\ [Next]_vars => WorkTypes'
<1> SUFFICES ASSUME WorkTypes, db \in Db, [Next]_vars PROVE WorkTypes'
  OBVIOUS
<1>h. Handlers \subseteq Workers /\ NoOne \notin Workers
  BY EdgeConfig DEF Workers
<1>g. ASSUME NEW w \in Workers, NEW s \in Pcs \ {"apply", "reattempt", "recover"}, NEW q \in Seq(Edges),
             pc' = [pc EXCEPT ![w] = s], todo' = [todo EXCEPT ![w] = q] \/ todo' = todo,
             served' = served, wire' \subseteq Edges,
             tx' = NoOne \/ (tx' = tx /\ pc[w] \notin {"apply", "reattempt", "sweep"})
      PROVE  WorkTypes'
  BY <1>g, <1>h, Zenon DEF WorkTypes
<1>1. ASSUME NEW e \in Edges, Issue(e) PROVE WorkTypes'
  <2>1. <<e>> \in Seq(Edges) /\ Append(served, e) \in Seq(Edges)
    BY DEF WorkTypes
  <2> QED
    BY <1>1, <2>1 DEF Issue, WorkTypes, workVars, txVars
<1>2. ASSUME NEW e \in Edges, Copy(e) \/ Lose(e) \/ Evict(e) PROVE WorkTypes'
  BY <1>2 DEF Copy, Lose, Evict, WorkTypes, workVars, homeVars, txVars
<1>3. ASSUME NEW e \in Edges, NEW h \in Handlers, Push(h, e) PROVE WorkTypes'
  <2>1. <<e>> \in Seq(Edges) /\ "lookup" \in Pcs
    BY DEF Pcs
  <2> QED
    BY <1>3, <1>h, <1>g, <2>1 DEF Push, Free, Goto, WorkTypes, homeVars, txVars
<1>4. ASSUME NEW w \in Workers, Lookup(w) PROVE WorkTypes'
  <2> DEFINE e == Head(todo[w])
  <2>1. e \in Edges /\ Tail(todo[w]) \in Seq(Edges)
    BY <1>4, HeadTail DEF Lookup, WorkTypes
  <2>2. db.stored[e] \in {"none", "live", "erased"}
    BY <2>1 DEF Db
  <2>3. served' = served /\ wire' = wire /\ tx' = tx /\ pc[w] = "lookup"
    BY <1>4 DEF Lookup, homeVars, txVars
  <2>4. CASE db.stored[e] = "erased" \/ (db.stored[e] = "live" /\ e \in db.projected)
    <3>1. pc' = [pc EXCEPT ![w] = "lookup"] /\ todo' = [todo EXCEPT ![w] = Tail(@)]
      BY <1>4, <2>4, Zenon DEF Lookup, Goto
    <3> QED
      BY <3>1, <2>1, <2>3, <1>g DEF WorkTypes, Pcs
  <2>5. CASE ~(db.stored[e] = "erased" \/ (db.stored[e] = "live" /\ e \in db.projected))
    <3>1. (pc' = [pc EXCEPT ![w] = "reattempt"] \/ pc' = [pc EXCEPT ![w] = "apply"]) /\ todo' = todo
      BY <1>4, <2>2, <2>5, Zenon DEF Lookup, Goto
    <3> QED
      BY <3>1, <2>3, <1>4, Zenon DEF Lookup, WorkTypes, Pcs
  <2> QED
    BY <2>4, <2>5, Zenon
<1>5. ASSUME NEW w \in Workers, Finish(w) \/ Hydrate(w) \/ TaskFails(w) PROVE WorkTypes'
  BY <1>5, <1>h, ZenonT(40) DEF Finish, Hydrate, TaskFails, Goto, WorkTypes, Pcs, homeVars, txVars
<1>6. ASSUME NEW w \in Workers, Begin(w) \/ SweepOne(w) PROVE WorkTypes'
  BY <1>6 DEF Begin, SweepOne, WorkTypes, workVars, homeVars
<1>7. ASSUME NEW w \in Workers, Commit(w) PROVE WorkTypes'
  <2>1. served' = served /\ wire' = wire /\ tx' = NoOne /\ tx = w
    BY <1>7 DEF Commit, homeVars
  <2>2. CASE pc[w] = "sweep"
    <3>1. pc' = [pc EXCEPT ![w] = "idle"] /\ todo' = todo
      BY <1>7, <2>2 DEF Commit, Goto
    <3> QED
      BY <3>1, <2>1, <1>h DEF WorkTypes, Pcs
  <2>3. CASE pc[w] # "sweep"
    <3>1. todo[w] # <<>>
      BY <2>1, <2>3 DEF WorkTypes
    <3>2. Tail(todo[w]) \in Seq(Edges)
      BY <3>1, HeadTail DEF WorkTypes
    <3>3. \/ pc' = [pc EXCEPT ![w] = "recover"] /\ todo' = todo
          \/ pc' = [pc EXCEPT ![w] = "lookup"] /\ todo' = [todo EXCEPT ![w] = Tail(@)]
      BY <1>7, <2>3 DEF Commit, Goto, EdgeDone
    <3> QED
      BY <3>1, <3>2, <3>3, <2>1, <1>h, ZenonT(40) DEF WorkTypes, Pcs
  <2> QED
    BY <2>2, <2>3
<1>8. ASSUME NEW w \in Workers, Abort(w) PROVE WorkTypes'
  <2>1. <<>> \in Seq(Edges) /\ "idle" \in Pcs
    BY DEF Pcs
  <2>2. wire' \subseteq Edges
    BY <1>8, HeadTail DEF Abort, WorkTypes
  <2> QED
    BY <1>8, <2>1, <2>2, <1>g, Zenon DEF Abort, Goto, homeVars
<1>9. ASSUME NEW w \in Workers, Recover(w) PROVE WorkTypes'
  <2>1. Tail(todo[w]) \in Seq(Edges)
    BY <1>9, HeadTail DEF Recover, WorkTypes
  <2>2. /\ served' = served /\ wire' = wire /\ tx' = tx /\ pc[w] = "recover"
        /\ todo' = [todo EXCEPT ![w] = Tail(@)]
    BY <1>9 DEF Recover, EdgeDone, homeVars, txVars
  <2>3. CASE pc' = [pc EXCEPT ![w] = "lookup"]
    BY <2>1, <2>2, <2>3, <1>g DEF WorkTypes, Pcs
  <2>4. ASSUME NEW k \in Tasks, NEW s \in {"ask", "author"}, pc[k] = "idle",
               pc' = [pc EXCEPT ![w] = "lookup", ![k] = s]
        PROVE  WorkTypes'
    <3>1. k \in Workers /\ k # w
      BY <2>2, <2>4 DEF Workers
    <3>2. /\ pc' \in [Workers -> Pcs] /\ pc'[w] = "lookup" /\ pc'[k] = s
          /\ \A v \in Workers \ {w, k} : pc'[v] = pc[v] /\ todo'[v] = todo[v]
      BY <2>2, <2>4, <3>1, Zenon DEF WorkTypes, Pcs
    <3> QED
      BY <2>1, <2>2, <2>4, <3>1, <3>2, ZenonT(40) DEF WorkTypes
  <2> QED
    BY <1>9, <2>3, <2>4 DEF Recover, Goto
<1>10. ASSUME NEW w \in Workers, Ask(w) PROVE WorkTypes'
  <2>1. FirstPage \in Seq(Edges)
    BY EdgeConfig DEF FirstPage, WorkTypes
  <2> QED
    BY <1>10, <2>1, <1>g DEF Ask, Goto, WorkTypes, Pcs, homeVars, txVars
<1>11. ASSUME DrainStep PROVE WorkTypes'
  BY <1>11 DEF DrainStep, DrainNothing, DrainOne, WorkTypes, workVars, homeVars
<1>12. CASE UNCHANGED vars
  BY <1>12 DEF vars, WorkTypes, workVars, homeVars, txVars
<1> QED
  BY <1>1, <1>2, <1>3, <1>4, <1>5, <1>6, <1>7, <1>8, <1>9, <1>10, <1>11, <1>12 DEF Next, WorkerStep

LEMMA KeepsRefl == ASSUME NEW c PROVE Keeps(c, c)
  BY DEF Keeps

LEMMA KeepsTrans == ASSUME NEW b, NEW c, NEW d, Keeps(b, c), Keeps(c, d) PROVE Keeps(b, d)
  BY DEF Keeps

\* The steps of a transaction, and what opens and ends one.
LEMMA TablesStep ==
  ASSUME TablesInv, [Next]_vars
  PROVE  /\ Good(db', NoEdge) /\ Good(wdb', work') /\ Keeps(db', wdb') /\ work' \in Edges \cup {NoEdge}
         /\ tx' = NoOne => wdb' = db' /\ work' = NoEdge
         /\ Keeps(db, db')
<1> DEFINE P == /\ Good(db', NoEdge) /\ Good(wdb', work') /\ Keeps(db', wdb') /\ work' \in Edges \cup {NoEdge}
                /\ tx' = NoOne => wdb' = db' /\ work' = NoEdge
                /\ Keeps(db, db')
<1>h. NoOne \notin Workers
  BY EdgeConfig DEF Workers
<1>u. ASSUME UNCHANGED txVars PROVE P
  BY <1>u, KeepsRefl DEF TablesInv, txVars
<1>1. ASSUME NEW e \in Edges, Evict(e) PROVE P
  <2>1. db' = DeletePending(db, e) /\ wdb' = db' /\ work' = NoEdge
    BY <1>1 DEF Evict, TablesInv
  <2> QED
    BY <2>1, DeleteGood, KeepsRefl DEF TablesInv
<1>2. ASSUME NEW e \in Edges, \/ Issue(e) \/ Copy(e) \/ Lose(e)
                               \/ \E h \in Handlers : Push(h, e)
      PROVE  P
  BY <1>2, <1>u DEF Issue, Copy, Lose, Push
<1>3. ASSUME NEW w \in Workers, \/ Lookup(w) \/ Finish(w) \/ Recover(w) \/ Ask(w) \/ TaskFails(w) PROVE P
  BY <1>3, <1>u DEF Lookup, Finish, Recover, Ask, TaskFails
<1>4. ASSUME NEW w \in Workers, Begin(w) PROVE P
  <2>1. Head(todo[w]) \in Edges
    BY <1>4, HeadTail DEF Begin, TablesInv, WorkTypes
  <2>2. PICK e \in Edges : e = Head(todo[w])
    BY <2>1
  <2>3. db' = db /\ work' = (IF Outcome(db, e) = "Projected" THEN e ELSE NoEdge) /\ tx' = w
    BY <1>4, <2>2 DEF Begin, DrainFrom
  <2>4. Good(db, NoEdge)
    BY DEF TablesInv
  <2>5. Good(wdb', work') /\ Keeps(db, wdb')
    <3>1. CASE pc[w] = "apply"
      BY <1>4, <2>2, <2>3, <2>4, <3>1, AppliedGood DEF Begin
    <3>2. CASE pc[w] = "reattempt"
      <4>1. db.stored[e] # "none"
        BY <2>2, <3>2 DEF TablesInv
      <4>2. wdb' = Reattempted(db, e)
        BY <1>4, <2>2, <3>2 DEF Begin
      <4> QED
        BY <2>3, <2>4, <4>1, <4>2, ReattemptedGood
    <3> QED
      BY <1>4, <3>1, <3>2 DEF Begin
  <2> QED
    BY <1>h, <2>3, <2>4, <2>5, KeepsRefl
<1>5. ASSUME NEW w \in Workers, Hydrate(w) PROVE P
  <2>1. db' = db /\ work' = NoEdge /\ tx' = w /\ wdb' = [db EXCEPT !.known = @ \cup {"source"}] /\ Good(db, NoEdge)
    BY <1>5 DEF Hydrate, TablesInv
  <2>2. /\ wdb' \in Db /\ wdb'.stored = db.stored
        /\ wdb'.projected = db.projected /\ wdb'.pending = db.pending
    BY <2>1 DEF Good, Db, Endpoints
  <2> QED
    BY <1>h, <2>1, <2>2 DEF Good, Intact, Settled, Keeps
<1>6. ASSUME NEW w \in Workers, SweepOne(w) PROVE P
  <2>1. PICK x \in Sweepable(wdb) : wdb' = Insert(wdb, x) /\ work' = x
    BY <1>6, Zenon DEF SweepOne
  <2>2. x \in Edges /\ wdb.stored[x] # "none" /\ Outcome(wdb, x) = "Projected"
    BY Zenon DEF Sweepable
  <2>3. Good(wdb, NoEdge) /\ db' = db /\ tx' = w /\ Keeps(db, wdb) /\ Good(db, NoEdge)
    BY <1>6 DEF SweepOne, TablesInv
  <2> QED
    BY <1>h, <2>1, <2>2, <2>3, ProjectGood, KeepsTrans, KeepsRefl
<1>7. ASSUME NEW w \in Workers, Commit(w) PROVE P
  BY <1>7, KeepsRefl, Zenon DEF Commit, TablesInv
<1>8. ASSUME NEW w \in Workers, Abort(w) PROVE P
  BY <1>8, KeepsRefl DEF Abort, RolledBack, TablesInv
<1>9. ASSUME DrainNothing PROVE P
  <2>1. wdb' = wdb /\ db' = db /\ tx' = tx /\ work' = NoEdge /\ tx # NoOne
    BY <1>9 DEF DrainNothing, TablesInv
  <2>2. Settled(wdb, NoEdge)
    BY <1>9 DEF DrainNothing, Waiting, TablesInv, Good, Settled
  <2> QED
    BY <2>1, <2>2, KeepsRefl DEF TablesInv, Good
<1>10. ASSUME NEW x \in Edges, DrainOne(x) PROVE P
  <2>1. db' = db /\ tx' = tx /\ tx # NoOne /\ work \in Edges /\ Good(wdb, work) /\ Keeps(db, wdb) /\ Good(db, NoEdge)
    BY <1>10 DEF DrainOne, TablesInv
  <2>2. PICK p \in Edges : p = work
    BY <2>1
  <2>3. x \in Waiting(wdb, p) /\ Good(wdb, p)
    BY <1>10, <2>1, <2>2 DEF DrainOne
  <2>4. /\ Outcome(wdb, x) = "Projected" =>
              Good(DeletePending(Store(Insert(wdb, x), x), x), x) /\ Keeps(wdb, DeletePending(Store(Insert(wdb, x), x), x))
        /\ Outcome(wdb, x) \in {"ChainFork", "EndpointMissing"} =>
              Good(DeletePending(Store(wdb, x), x), NoEdge) /\ Keeps(wdb, DeletePending(Store(wdb, x), x))
        /\ Outcome(wdb, x) # "Deferred"
    BY <2>3, DrainGood
  <2>5. Outcome(wdb, x) \in {"EndpointMissing", "Projected", "ChainFork", "Deferred"}
    BY DEF Outcome
  <2>6. CASE Outcome(wdb, x) = "Projected"
    <3>1. wdb' = DeletePending(Store(Insert(wdb, x), x), x) /\ work' = x
      BY <1>10, <2>6 DEF DrainOne
    <3> QED
      BY <2>1, <2>4, <2>6, <3>1, KeepsTrans, KeepsRefl
  <2>7. CASE Outcome(wdb, x) \in {"ChainFork", "EndpointMissing"}
    <3>1. wdb' = DeletePending(Store(wdb, x), x) /\ work' = NoEdge
      BY <1>10, <2>7 DEF DrainOne
    <3> QED
      BY <2>1, <2>4, <2>7, <3>1, KeepsTrans, KeepsRefl
  <2> QED
    BY <2>4, <2>5, <2>6, <2>7
<1>11. CASE UNCHANGED vars
  BY <1>11, <1>u DEF vars
<1> QED
  BY <1>1, <1>2, <1>3, <1>4, <1>5, <1>6, <1>7, <1>8, <1>9, <1>10, <1>11 DEF Next, WorkerStep, DrainStep

\* A worker that found its edge stored still finds it stored when it gets the lock.
LEMMA ReattemptStep ==
  ASSUME TablesInv, [Next]_vars, Keeps(db, db'), NEW v \in Workers, pc'[v] = "reattempt"
  PROVE  db'.stored[Head(todo'[v])] # "none"
<1>t. pc \in [Workers -> Pcs] /\ todo \in [Workers -> Seq(Edges)] /\ db \in Db
  BY DEF TablesInv, WorkTypes, Good
<1>h. Handlers \subseteq Workers /\ Tasks \subseteq Workers
  BY DEF Workers
<1>k. ASSUME pc[v] = "reattempt", todo'[v] = todo[v] PROVE db'.stored[Head(todo'[v])] # "none"
  <2>1. Head(todo[v]) \in Edges /\ db.stored[Head(todo[v])] # "none"
    BY <1>k, HeadTail DEF TablesInv, WorkTypes
  <2> QED
    BY <1>k, <2>1 DEF Keeps
<1>1. ASSUME NEW e \in Edges, Issue(e) \/ Copy(e) \/ Lose(e) \/ Evict(e)
      PROVE  db'.stored[Head(todo'[v])] # "none"
  BY <1>1, <1>k DEF Issue, Copy, Lose, Evict, workVars
<1>2. ASSUME NEW e \in Edges, NEW h \in Handlers, Push(h, e) PROVE db'.stored[Head(todo'[v])] # "none"
  BY <1>2, <1>k, <1>t, <1>h DEF Push, Goto
<1>3. ASSUME NEW w \in Workers, Lookup(w) PROVE db'.stored[Head(todo'[v])] # "none"
  <2>1. CASE v # w
    BY <1>3, <2>1, <1>k, <1>t DEF Lookup, Goto
  <2>2. CASE v = w
    <3> DEFINE e == Head(todo[w])
               done == db.stored[e] = "erased" \/ (db.stored[e] = "live" /\ e \in db.projected)
    <3>0. db.stored[e] \in {"none", "live", "erased"}
      BY <1>3, <1>t, HeadTail DEF Lookup, Db
    <3>1. CASE ~done /\ db.stored[e] = "live"
      BY <1>3, <2>2, <3>1 DEF Lookup, txVars
    <3>2. CASE done
      BY <1>3, <1>t, <2>2, <3>2 DEF Lookup, Goto
    <3>3. CASE ~done /\ db.stored[e] = "none"
      BY <1>3, <1>t, <2>2, <3>3 DEF Lookup, Goto
    <3> QED
      BY <3>0, <3>1, <3>2, <3>3, Zenon
  <2> QED
    BY <2>1, <2>2
<1>4. ASSUME NEW w \in Workers, Finish(w) \/ Hydrate(w) \/ TaskFails(w) \/ Begin(w) \/ SweepOne(w)
      PROVE  db'.stored[Head(todo'[v])] # "none"
  BY <1>4, <1>k, <1>t DEF Finish, Hydrate, TaskFails, Begin, SweepOne, Goto, workVars
<1>5. ASSUME NEW w \in Workers, Commit(w) PROVE db'.stored[Head(todo'[v])] # "none"
  BY <1>5, <1>k, <1>t DEF Commit, Goto, EdgeDone
<1>6. ASSUME NEW w \in Workers, Abort(w) \/ Ask(w) PROVE db'.stored[Head(todo'[v])] # "none"
  BY <1>6, <1>k, <1>t DEF Abort, Ask, Goto
<1>7. ASSUME NEW w \in Workers, Recover(w) PROVE db'.stored[Head(todo'[v])] # "none"
  BY <1>7, <1>k, <1>t, <1>h DEF Recover, Goto, EdgeDone
<1>8. ASSUME DrainStep PROVE db'.stored[Head(todo'[v])] # "none"
  BY <1>8, <1>k DEF DrainStep, DrainNothing, DrainOne, workVars
<1>9. CASE UNCHANGED vars
  BY <1>9, <1>k DEF vars, workVars
<1> QED
  BY <1>1, <1>2, <1>3, <1>4, <1>5, <1>6, <1>7, <1>8, <1>9 DEF Next, WorkerStep

LEMMA TablesInvariant == Spec => []TablesInv
<1>1. Init => TablesInv
  <2> SUFFICES ASSUME Init PROVE TablesInv
    OBVIOUS
  <2>1. WorkTypes
    <3>1. served \in Seq(Edges) /\ wire \subseteq Edges
      BY DEF Init
    <3>2. \A w \in Workers : pc[w] = "idle" /\ tx # w
      BY EdgeConfig DEF Init, Workers
    <3>3. pc \in [Workers -> Pcs] /\ todo \in [Workers -> Seq(Edges)]
      BY DEF Init, Pcs
    <3> QED
      BY <3>1, <3>2, <3>3 DEF WorkTypes
  <2>2. db \in Db /\ db.projected = {} /\ db.pending = {}
    BY EdgeConfig DEF Init, Db
  <2>3. Good(db, NoEdge)
    BY <2>2 DEF Good, Intact, Settled
  <2> QED
    BY <2>1, <2>3, KeepsRefl DEF Init, TablesInv
<1>2. TablesInv /\ [Next]_vars => TablesInv'
  <2> SUFFICES ASSUME TablesInv, [Next]_vars PROVE TablesInv'
    OBVIOUS
  <2>1. WorkTypes'
    BY WorkTypesStep DEF TablesInv, Good
  <2>2. /\ Good(db', NoEdge) /\ Good(wdb', work') /\ Keeps(db', wdb') /\ work' \in Edges \cup {NoEdge}
        /\ tx' = NoOne => wdb' = db' /\ work' = NoEdge
        /\ Keeps(db, db')
    BY TablesStep
  <2>3. \A v \in Workers : pc'[v] = "reattempt" => db'.stored[Head(todo'[v])] # "none"
    BY <2>2, ReattemptStep
  <2> QED
    BY <2>1, <2>2, <2>3 DEF TablesInv
<1> QED
  BY <1>1, <1>2, PTL DEF Spec

\* Whatever is pushed, swept or fetched, in whatever order and however often, the projected
\* edges of a pair are one chain from its root: no fork, no hole, and every edge with its
\* signed object (try_project_trust_edge(), apply_one_edge_inner(),
\* drain_pending_orphans_after(), sweep_pending_projections()).
THEOREM ChainStaysIntact == Spec => []ChainIntact
<1>1. TablesInv => ChainIntact
  BY Zenon DEF TablesInv, Good, Intact, ChainIntact
<1> QED
  BY <1>1, TablesInvariant, PTL

\* Once an edge is projected no orphan waits for it: the transaction that projects it drains
\* the orphans behind it, and none is enqueued behind a projected edge
\* (drain_pending_orphans_after(), enqueue_pending_trust_edge()).
THEOREM OrphansFollow == Spec => []NoStrandedOrphan
<1>1. TablesInv => NoStrandedOrphan
  BY EdgeConfig DEF TablesInv, Good, Db, Settled, NoStrandedOrphan
<1> QED
  BY <1>1, TablesInvariant, PTL

-----------------------------------------------------------------------------
(* Revocations.                                                            *)

\* RevokedIsErased, of any version of the tables.
Revoked(d) ==
  \A n \in d.projected \cap Neutral : \A x \in Ancestors[n] : d.stored[x] = "erased"

\* No erased object becomes readable again.
StaysErased(c, d) == \A e \in Edges : c.stored[e] = "erased" => d.stored[e] = "erased"

\* An edge that fits behind a chain has its ancestors in the chain.
LEMMA AncestorsProjected ==
  ASSUME NEW d \in Db, Intact(d), NEW e \in Edges, NEW x \in Ancestors[e],
         e \in d.projected \/ Prior[e] = NoEdge \/ Prior[e] \in d.projected
  PROVE  x \in d.projected /\ x \in Edges /\ x # e
<1> DEFINE S == d.projected \cup {e, NoEdge}
<1>1. S \in SUBSET (Edges \cup {NoEdge})
  BY DEF Db
<1>2. \A y \in S \cap Edges : Prior[y] \in S
  BY EdgeConfig DEF Intact
<1>3. S \in Closed
  BY <1>1, <1>2 DEF Closed
<1>4. x \in Edges /\ x # e /\ \A T \in Closed : e \in T => x \in T
  BY DEF Ancestors
<1>5. x \in S
  BY <1>3, <1>4
<1> QED
  BY <1>4, <1>5, EdgeConfig

\* What leaves the projection alone and brings no payload back leaves revocations alone.
LEMMA RevokedKept ==
  ASSUME NEW c, NEW d, Revoked(c), StaysErased(c, d), d.projected = c.projected, c.projected \subseteq Edges
  PROVE  Revoked(d)
<1> SUFFICES ASSUME NEW n \in d.projected \cap Neutral, NEW x \in Ancestors[n] PROVE d.stored[x] = "erased"
  BY DEF Revoked
<1>1. x \in Edges
  BY DEF Ancestors
<1> QED
  BY <1>1 DEF Revoked, StaysErased

LEMMA StoreErased == ASSUME NEW d \in Db, NEW e \in Edges PROVE StaysErased(d, Store(d, e))
  BY DEF Store, StoredAs, StaysErased, Db

LEMMA EraseErases ==
  ASSUME NEW d \in Db, NEW e \in Edges
  PROVE  /\ StaysErased(d, Erase(d, e))
         /\ \A x \in d.projected \ {e} : d.stored[x] # "none" => Erase(d, e).stored[x] = "erased"
  BY DEF Erase, StaysErased, Db

\* Projecting an edge erases its ancestors if it is neutral, and revives none.
LEMMA InsertRevoked ==
  ASSUME NEW d \in Db, Intact(d), Revoked(d), NEW e \in Edges, Outcome(d, e) = "Projected"
  PROVE  Revoked(Insert(d, e)) /\ StaysErased(d, Insert(d, e))
<1> DEFINE row == [d EXCEPT !.projected = @ \cup {e}, !.frontier = @ \cup {e}]
<1>1. CASE e \in d.projected
  BY <1>1 DEF Insert, StaysErased
<1>2. CASE e \notin d.projected
  <2>1. Prior[e] = NoEdge \/ Prior[e] \in d.projected
    BY <1>2, ProjectedFits
  <2>2. row \in Db /\ row.stored = d.stored /\ row.projected = d.projected \cup {e}
    <3>1. d.projected \cup {e} \in SUBSET Edges /\ d.frontier \cup {e} \in SUBSET Edges
      BY DEF Db
    <3>2. \A p, f \in SUBSET Edges :
            LET r == [d EXCEPT !.projected = p, !.frontier = f]
            IN  r \in Db /\ r.stored = d.stored /\ r.projected = p
      BY ZenonT(40) DEF Db
    <3> QED
      BY <3>1, <3>2, Zenon
  <2>3. \A n \in d.projected \cap Neutral : \A x \in Ancestors[n] : d.stored[x] = "erased" /\ x \in Edges
    BY AncestorsProjected DEF Revoked, Db
  <2>4. CASE e \in Neutral
    <3>1. Insert(d, e) = Erase(row, e)
      BY <1>2, <2>4, Zenon DEF Insert
    <3> HIDE DEF row
    <3>2. /\ Insert(d, e).projected = d.projected \cup {e} /\ StaysErased(d, Insert(d, e))
          /\ \A x \in d.projected \ {e} : d.stored[x] # "none" => Insert(d, e).stored[x] = "erased"
      BY <2>2, <3>1, EraseErases, EraseEffect DEF StaysErased
    <3>3. \A x \in Ancestors[e] : x \in d.projected \ {e} /\ d.stored[x] # "none"
      BY <2>1, AncestorsProjected DEF Intact
    <3> QED
      BY <2>3, <3>2, <3>3, Zenon DEF Revoked, StaysErased
  <2>5. CASE e \notin Neutral
    <3>1. Insert(d, e) = row
      BY <1>2, <2>5 DEF Insert
    <3> HIDE DEF row
    <3> QED
      BY <2>2, <2>3, <2>5, <3>1 DEF Revoked, StaysErased
  <2> QED
    BY <2>4, <2>5
<1> QED
  BY <1>1, <1>2

LEMMA ProjectRevoked ==
  ASSUME NEW d \in Db, Intact(d), Revoked(d), NEW e \in Edges, Outcome(d, e) = "Projected"
  PROVE  Revoked(Store(Insert(d, e), e))
<1>1. Insert(d, e) \in Db /\ Revoked(Insert(d, e)) /\ Insert(d, e).projected \subseteq Edges
  BY InsertEffect, InsertRevoked DEF Db
<1> QED
  BY <1>1, StoreErased, StoreEffect, RevokedKept, Zenon

LEMMA StoreRevoked == ASSUME NEW d \in Db, Revoked(d), NEW e \in Edges PROVE Revoked(Store(d, e))
  BY StoreErased, StoreEffect, RevokedKept DEF Db

\* Tables with the same projection and the same objects.
LEMMA SameRevoked ==
  ASSUME NEW c, NEW d, Revoked(c), d.projected = c.projected, d.stored = c.stored PROVE Revoked(d)
  BY DEF Revoked

LEMMA AppliedRevoked ==
  ASSUME NEW d \in Db, Intact(d), Revoked(d), NEW e \in Edges
  PROVE  Revoked(Applied(d, e)) /\ Revoked(Reattempted(d, e))
<1>1. Outcome(d, e) \in {"EndpointMissing", "Projected", "ChainFork", "Deferred"}
  BY DEF Outcome
<1>2. CASE Outcome(d, e) = "Projected"
  BY <1>2, ProjectRevoked, InsertRevoked DEF Applied, Reattempted
<1>3. CASE Outcome(d, e) = "EndpointMissing"
  <2>1. ASSUME NEW c \in Db PROVE Frontier(c, e).projected = c.projected /\ Frontier(c, e).stored = c.stored
    BY DEF Frontier, Db
  <2>2. Applied(d, e) = Frontier(Store(d, e), e) /\ Reattempted(d, e) = Frontier(d, e)
    BY <1>3 DEF Applied, Reattempted
  <2> QED
    BY <2>1, <2>2, StoreRevoked, StoreEffect, SameRevoked
<1>4. CASE Outcome(d, e) = "ChainFork"
  BY <1>4, StoreRevoked DEF Applied, Reattempted
<1>5. CASE Outcome(d, e) = "Deferred"
  <2>1. Enqueue(d, e).projected = d.projected /\ Enqueue(d, e).stored = d.stored
    BY DEF Enqueue, Db
  <2> QED
    BY <1>5, <2>1, SameRevoked DEF Applied, Reattempted
<1> QED
  BY <1>1, <1>2, <1>3, <1>4, <1>5

\* One round of the drain.
LEMMA DrainRevoked ==
  ASSUME NEW d \in Db, Intact(d), Revoked(d), NEW x \in Edges
  PROVE  /\ Outcome(d, x) = "Projected" => Revoked(DeletePending(Store(Insert(d, x), x), x))
         /\ Revoked(DeletePending(Store(d, x), x))
<1>1. ASSUME NEW c \in Db PROVE DeletePending(c, x).projected = c.projected /\ DeletePending(c, x).stored = c.stored
  BY DEF DeletePending, Db
<1>2. Store(d, x) \in Db /\ Insert(d, x) \in Db /\ Store(Insert(d, x), x) \in Db
  BY StoreEffect, InsertEffect
<1> QED
  BY <1>1, <1>2, StoreRevoked, ProjectRevoked, SameRevoked

\* Inductive, with TablesInv.
RevokedInv == Revoked(db) /\ Revoked(wdb)

LEMMA RevokedStep == ASSUME TablesInv, RevokedInv, [Next]_vars PROVE RevokedInv'
<1>t. db \in Db /\ wdb \in Db /\ Intact(db) /\ Intact(wdb)
  BY DEF TablesInv, Good
<1>u. ASSUME UNCHANGED txVars PROVE RevokedInv'
  BY <1>u DEF RevokedInv, txVars
<1>1. ASSUME NEW e \in Edges, Evict(e) PROVE RevokedInv'
  <2>1. db' = DeletePending(db, e) /\ wdb' = db' /\ db'.projected = db.projected /\ db'.stored = db.stored
    BY <1>1, <1>t DEF Evict, DeletePending, Db
  <2> QED
    BY <2>1, SameRevoked DEF RevokedInv
<1>2. ASSUME NEW e \in Edges, \/ Issue(e) \/ Copy(e) \/ Lose(e)
                               \/ \E h \in Handlers : Push(h, e)
      PROVE  RevokedInv'
  BY <1>2, <1>u, ZenonT(40) DEF Issue, Copy, Lose, Push
<1>3. ASSUME NEW w \in Workers, \/ Lookup(w) \/ Finish(w) \/ Recover(w) \/ Ask(w) \/ TaskFails(w)
      PROVE  RevokedInv'
  BY <1>3, <1>u, Zenon DEF Lookup, Finish, Recover, Ask, TaskFails
<1>4. ASSUME NEW w \in Workers, Begin(w) PROVE RevokedInv'
  <2>1. PICK e \in Edges : e = Head(todo[w])
    BY <1>4, HeadTail, Zenon DEF Begin, TablesInv, WorkTypes
  <2>2. db' = db /\ (wdb' = Applied(db, e) \/ wdb' = Reattempted(db, e))
    BY <1>4, <2>1 DEF Begin
  <2> QED
    BY <2>2, <1>t, AppliedRevoked, Zenon DEF RevokedInv
<1>5. ASSUME NEW w \in Workers, Hydrate(w) PROVE RevokedInv'
  <2>1. db' = db /\ wdb'.projected = db.projected /\ wdb'.stored = db.stored
    BY <1>5, <1>t DEF Hydrate, Db
  <2> QED
    BY <2>1, SameRevoked DEF RevokedInv
<1>6. ASSUME NEW w \in Workers, SweepOne(w) PROVE RevokedInv'
  <2>1. PICK x \in Sweepable(wdb) : wdb' = Insert(wdb, x) /\ db' = db
    BY <1>6 DEF SweepOne
  <2> QED
    BY <2>1, <1>t, InsertRevoked DEF RevokedInv, Sweepable
<1>7. ASSUME NEW w \in Workers, Commit(w) \/ Abort(w) PROVE RevokedInv'
  BY <1>7 DEF Commit, Abort, RolledBack, RevokedInv
<1>8. ASSUME DrainNothing PROVE RevokedInv'
  BY <1>8 DEF DrainNothing, RevokedInv
<1>9. ASSUME NEW x \in Edges, DrainOne(x) PROVE RevokedInv'
  <2>1. Outcome(wdb, x) \in {"EndpointMissing", "Projected", "ChainFork", "Deferred"}
    BY DEF Outcome
  <2>2. /\ db' = db
        /\ \/ Outcome(wdb, x) = "Projected" /\ wdb' = DeletePending(Store(Insert(wdb, x), x), x)
           \/ wdb' = DeletePending(Store(wdb, x), x)
           \/ wdb' = wdb
    BY <1>9, <2>1 DEF DrainOne
  <2> QED
    BY <2>2, <1>t, DrainRevoked DEF RevokedInv
<1>10. CASE UNCHANGED vars
  BY <1>10, <1>u DEF vars
<1> QED
  BY <1>1, <1>2, <1>3, <1>4, <1>5, <1>6, <1>7, <1>8, <1>9, <1>10 DEF Next, WorkerStep, DrainStep

\* Once a neutral edge is projected no edge before it is readable here, whatever is pushed
\* again, drained, swept or fetched later (erase_trust_edge_chain(), store_signed_object()).
THEOREM RevocationsStand == Spec => []RevokedIsErased
<1>1. Init => RevokedInv
  BY DEF Init, RevokedInv, Revoked
<1>2. TablesInv /\ RevokedInv /\ [Next]_vars => RevokedInv'
  BY RevokedStep
<1>3. RevokedInv => RevokedIsErased
  BY Zenon DEF RevokedInv, Revoked, RevokedIsErased
<1> QED
  BY <1>1, <1>2, <1>3, TablesInvariant, PTL DEF Spec

-----------------------------------------------------------------------------
(* One backfill per gap.                                                   *)

\* Where the predecessor p of an orphan has arrived, or an orphan waits for it: no
\* further orphan of p is the first of its gap.
Covered(d, p) == p \in d.projected \/ \E x \in d.pending : Prior[x] = p

\* A transaction has buffered the first orphan of gap p and is going to ask for a backfill.
Opening(w, p) ==
  /\ tx = w /\ pc[w] = "apply" /\ recovery[w] = "Predecessor"
  /\ Prior[Head(todo[w])] = p

FetchTypes ==
  /\ gap \in [Workers -> Edges \cup {NoEdge}]
  /\ recovery \in [Workers -> {"none", "Predecessor", "UnknownSource"}]
  /\ \A h \in Handlers : gap[h] = NoEdge

\* Only handlers spawn backfills, and only for an edge they apply for the first time.
Asking ==
  /\ \A w \in Workers : pc[w] = "recover" => w \in Handlers
  /\ \A w \in Workers : tx = w /\ pc[w] = "reattempt" => recovery[w] # "Predecessor"

\* Inductive, with TablesInv: a gap that is being fetched, or is about to be, is covered,
\* so that no other orphan of it asks; the transaction covers what the tables cover.
FetchInv ==
  /\ FetchTypes /\ Asking
  /\ OneFetchPerGap
  /\ \A w \in Workers, p \in Edges : Fetching(w, p) => Covered(db, p)
  /\ \A p \in Edges : Covered(db, p) => Covered(wdb, p)
  /\ \A w \in Workers, p \in Edges :
       Opening(w, p) => Covered(wdb, p) /\ \A v \in Workers : ~Fetching(v, p)

\* A step that starts no fetch and uncovers nothing.
LEMMA FetchKept ==
  ASSUME FetchInv, FetchTypes', Asking',
         \A w \in Workers, p \in Edges : Fetching(w, p)' => Fetching(w, p),
         \A p \in Edges : Covered(db, p) => Covered(db', p),
         \A p \in Edges : Covered(db', p) => Covered(wdb', p),
         \A w \in Workers, p \in Edges :
           Opening(w, p)' => Covered(wdb', p) /\ \A v \in Workers : ~Fetching(v, p)
  PROVE  FetchInv'
  BY DEF FetchInv, OneFetchPerGap

\* A table that keeps the projection and the orphans of another covers the same gaps.
LEMMA CoveredMore ==
  ASSUME NEW c, NEW d, c.projected \subseteq d.projected,
         \A x \in c.pending : x \in d.pending \/ Prior[x] \in d.projected
  PROVE  \A p \in Edges : Covered(c, p) => Covered(d, p)
  BY DEF Covered

LEMMA AppliedCovers ==
  ASSUME NEW d \in Db, NEW e \in Edges
  PROVE  /\ \A p \in Edges : Covered(d, p) => Covered(Applied(d, e), p)
         /\ \A p \in Edges : Covered(d, p) => Covered(Reattempted(d, e), p)
         /\ Outcome(d, e) = "Deferred" => Covered(Applied(d, e), Prior[e])
<1>1. Outcome(d, e) \in {"EndpointMissing", "Projected", "ChainFork", "Deferred"}
  BY DEF Outcome
<1>2. ASSUME NEW c \in Db
      PROVE  /\ Store(c, e) \in Db /\ Store(c, e).projected = c.projected /\ Store(c, e).pending = c.pending
             /\ Frontier(c, e).projected = c.projected /\ Frontier(c, e).pending = c.pending
             /\ Insert(c, e) \in Db /\ Insert(c, e).projected = c.projected \cup {e} /\ Insert(c, e).pending = c.pending
  <2>1. Frontier(c, e).projected = c.projected /\ Frontier(c, e).pending = c.pending
    BY DEF Frontier, Db
  <2> QED
    BY <2>1, StoreEffect, InsertEffect
<1>3. CASE Outcome(d, e) = "Projected"
  <2>1. Applied(d, e) = Store(Insert(d, e), e) /\ Reattempted(d, e) = Insert(d, e)
    BY <1>3, Zenon DEF Applied, Reattempted
  <2> QED
    BY <1>2, <1>3, <2>1, CoveredMore
<1>4. CASE Outcome(d, e) = "EndpointMissing"
  <2>1. Applied(d, e) = Frontier(Store(d, e), e) /\ Reattempted(d, e) = Frontier(d, e)
    BY <1>4 DEF Applied, Reattempted
  <2> QED
    BY <1>2, <1>4, <2>1, CoveredMore
<1>5. CASE Outcome(d, e) = "ChainFork"
  <2>1. Applied(d, e) = Store(d, e) /\ Reattempted(d, e) = d
    BY <1>5 DEF Applied, Reattempted
  <2> QED
    BY <1>2, <1>5, <2>1, CoveredMore
<1>6. CASE Outcome(d, e) = "Deferred"
  <2>1. Applied(d, e) = Enqueue(d, e) /\ Reattempted(d, e) = d
    BY <1>6 DEF Applied, Reattempted
  <2>2. /\ Enqueue(d, e).projected = d.projected /\ d.pending \subseteq Enqueue(d, e).pending
        /\ \E x \in Enqueue(d, e).pending : Prior[x] = Prior[e]
    BY DEF Enqueue, Db
  <2> QED
    BY <2>1, <2>2, CoveredMore DEF Covered
<1> QED
  BY <1>1, <1>3, <1>4, <1>5, <1>6

LEMMA DrainCovers ==
  ASSUME NEW d \in Db, NEW x \in d.pending, Prior[x] \in d.projected
  PROVE  /\ \A p \in Edges : Covered(d, p) => Covered(DeletePending(Store(Insert(d, x), x), x), p)
         /\ \A p \in Edges : Covered(d, p) => Covered(DeletePending(Store(d, x), x), p)
<1>0. x \in Edges
  BY Zenon DEF Db
<1>1. ASSUME NEW c \in Db
      PROVE  DeletePending(c, x).projected = c.projected /\ DeletePending(c, x).pending = c.pending \ {x}
  BY Zenon DEF DeletePending, Db
<1>2. /\ Store(d, x) \in Db /\ Store(d, x).projected = d.projected /\ Store(d, x).pending = d.pending
      /\ Insert(d, x) \in Db /\ Insert(d, x).projected = d.projected \cup {x} /\ Insert(d, x).pending = d.pending
  BY <1>0, StoreEffect, InsertEffect
<1>3. /\ Store(Insert(d, x), x) \in Db /\ Store(Insert(d, x), x).projected = d.projected \cup {x}
      /\ Store(Insert(d, x), x).pending = d.pending
  BY <1>0, <1>2, StoreEffect
<1> QED
  BY <1>1, <1>2, <1>3, CoveredMore

LEMMA FetchTypesStep == ASSUME FetchTypes, WorkTypes, [Next]_vars PROVE FetchTypes'
<1>h. Handlers \subseteq Workers /\ Handlers \cap Tasks = {}
  BY EdgeConfig DEF Workers
<1>1. ASSUME NEW w \in Workers, Begin(w) PROVE FetchTypes'
  <2>1. RecoveryFor(db, Head(todo[w]), pc[w]) \in {"none", "Predecessor", "UnknownSource"}
    BY DEF RecoveryFor
  <2> QED
    BY <1>1, <2>1 DEF Begin, FetchTypes
<1>2. ASSUME NEW w \in Workers, Recover(w) PROVE FetchTypes'
  <2>1. Handled(w) \in Edges
    BY <1>2, HeadTail, Zenon DEF Recover, Handled, WorkTypes
  <2>2. Prior[Handled(w)] \in Edges \cup {NoEdge}
    BY <2>1, EdgeConfig
  <2>3. recovery' = [recovery EXCEPT ![w] = "none"]
    BY <1>2 DEF Recover, EdgeDone
  <2>4. gap' = gap \/ \E k \in Tasks : gap' = [gap EXCEPT ![k] = Prior[Handled(w)]]
    BY <1>2 DEF Recover
  <2> QED
    BY <2>2, <2>3, <2>4, <1>h DEF FetchTypes
<1>3. ASSUME NEW w \in Workers, Commit(w) PROVE FetchTypes'
  BY <1>3 DEF Commit, EdgeDone, FetchTypes
<1>4. ASSUME NEW w \in Workers, Abort(w) \/ Finish(w) \/ TaskFails(w) PROVE FetchTypes'
  <2>1. gap' = [gap EXCEPT ![w] = NoEdge]
    BY <1>4 DEF Abort, Finish, TaskFails
  <2>2. recovery' = recovery \/ recovery' = [recovery EXCEPT ![w] = "none"]
    BY <1>4 DEF Abort, Finish, TaskFails
  <2> QED
    BY <2>1, <2>2, <1>h DEF FetchTypes
<1>5. ASSUME UNCHANGED <<recovery, gap>> PROVE FetchTypes'
  BY <1>5 DEF FetchTypes
<1> QED
  BY <1>1, <1>2, <1>3, <1>4, <1>5, Zenon
  DEF Next, WorkerStep, DrainStep, Issue, Copy, Lose, Evict, Push, Lookup, SweepOne, Ask, Hydrate,
      DrainNothing, DrainOne, vars, workVars

LEMMA AskingStep ==
  ASSUME Asking, FetchTypes, WorkTypes, db \in Db, [Next]_vars PROVE Asking'
<1>h. Handlers \subseteq Workers /\ NoOne \notin Workers
  BY EdgeConfig DEF Workers
<1>1. ASSUME NEW w \in Workers, NEW s \in Pcs \ {"recover", "reattempt"},
             pc' = [pc EXCEPT ![w] = s], tx' \in {tx, w, NoOne},
             recovery' = recovery \/ recovery' = [recovery EXCEPT ![w] = "none"]
      PROVE  Asking'
  BY <1>1, <1>h DEF Asking, WorkTypes, FetchTypes
<1>2. ASSUME UNCHANGED <<pc, recovery>>, tx' = tx \/ tx' = NoOne PROVE Asking'
  BY <1>2, <1>h DEF Asking
<1>p. {"idle", "lookup", "apply", "sweep", "ask", "author"} \subseteq Pcs \ {"recover", "reattempt"}
  BY DEF Pcs
<1>3. ASSUME NEW w \in Workers, Begin(w) PROVE Asking'
  <2>1. pc[w] = "reattempt" => RecoveryFor(db, Head(todo[w]), pc[w]) # "Predecessor"
    BY DEF RecoveryFor
  <2> QED
    BY <1>3, <2>1 DEF Begin, Asking, FetchTypes
<1>4. ASSUME NEW w \in Workers, Lookup(w) PROVE Asking'
  <2>1. db.stored[Head(todo[w])] \in {"none", "live", "erased"}
    BY <1>4, HeadTail DEF Lookup, Db, WorkTypes
  <2>2. /\ \E s \in {"lookup", "reattempt", "apply"} : pc' = [pc EXCEPT ![w] = s]
        /\ tx' = tx /\ recovery' = recovery /\ pc[w] = "lookup"
    BY <1>4, <2>1, ZenonT(40) DEF Lookup, Goto, txVars
  <2> QED
    BY <2>2 DEF Asking, WorkTypes
<1>5. ASSUME NEW w \in Workers, Commit(w) PROVE Asking'
  <2>1. tx' = NoOne
    BY <1>5 DEF Commit
  <2>2. /\ pc' = [pc EXCEPT ![w] = "recover"] => w \in Handlers
        /\ \E s \in {"idle", "recover", "lookup"} : pc' = [pc EXCEPT ![w] = s] /\ (s = "recover" => w \in Handlers)
    BY <1>5, <1>h, Zenon DEF Commit, Goto, WorkTypes
  <2> QED
    BY <2>1, <2>2, <1>h DEF Asking, WorkTypes
<1>6. ASSUME NEW w \in Workers, Recover(w) PROVE Asking'
  <2>1. /\ tx' = tx /\ recovery' = [recovery EXCEPT ![w] = "none"]
        /\ \/ pc' = [pc EXCEPT ![w] = "lookup"]
           \/ \E k \in Tasks, s \in {"ask", "author"} : pc' = [pc EXCEPT ![w] = "lookup", ![k] = s]
    BY <1>6 DEF Recover, EdgeDone, Goto, txVars
  <2> QED
    BY <2>1 DEF Asking, WorkTypes, FetchTypes, Workers
<1>7. ASSUME NEW w \in Workers, Finish(w) \/ Abort(w) \/ TaskFails(w) \/ Ask(w) \/ Hydrate(w) PROVE Asking'
  <2>1. \E s \in {"idle", "lookup", "sweep"} : pc' = [pc EXCEPT ![w] = s]
    BY <1>7 DEF Finish, Abort, TaskFails, Ask, Hydrate, Goto
  <2>2. tx' \in {tx, w, NoOne}
    BY <1>7 DEF Finish, Abort, TaskFails, Ask, Hydrate, txVars
  <2>3. recovery' = recovery \/ recovery' = [recovery EXCEPT ![w] = "none"]
    BY <1>7 DEF Finish, Abort, TaskFails, Ask, Hydrate
  <2> QED
    BY <2>1, <2>2, <2>3, <1>1, <1>p, Zenon
<1>8. ASSUME NEW h \in Handlers, NEW e \in Edges, Push(h, e) PROVE Asking'
  BY <1>8, <1>1, <1>p, <1>h, Zenon DEF Push, Goto, txVars
<1> QED
  BY <1>2, <1>3, <1>4, <1>5, <1>6, <1>7, <1>8
  DEF Next, WorkerStep, DrainStep, Issue, Copy, Lose, Evict, SweepOne,
      DrainNothing, DrainOne, vars, workVars, txVars

LEMMA FetchStep == ASSUME TablesInv, TablesInv', FetchInv, [Next]_vars PROVE FetchInv'
<1>t. /\ db \in Db /\ wdb \in Db /\ FetchTypes /\ FetchTypes' /\ Asking /\ Asking' /\ WorkTypes /\ WorkTypes'
      /\ pc \in [Workers -> Pcs] /\ todo \in [Workers -> Seq(Edges)]
  BY FetchTypesStep, AskingStep, Zenon DEF TablesInv, Good, FetchInv, WorkTypes
<1>h. /\ Handlers \subseteq Workers /\ Tasks \subseteq Workers /\ Handlers \cap Tasks = {}
      /\ NoOne \notin Workers /\ NoEdge \notin Edges
  BY EdgeConfig DEF Workers
<1>f. /\ \A w \in Workers, p \in Edges : Fetching(w, p) => Covered(db, p)
      /\ \A p \in Edges : Covered(db, p) => Covered(wdb, p)
      /\ \A w \in Workers, p \in Edges :
           Opening(w, p) => Covered(wdb, p) /\ \A v \in Workers : ~Fetching(v, p)
  BY DEF FetchInv
\* A step of w, outside the transactions, that takes it elsewhere.
<1>g. ASSUME NEW w \in Workers, UNCHANGED txVars, tx # w,
             \A v \in Workers \ {w} : pc'[v] = pc[v] /\ todo'[v] = todo[v] /\ recovery'[v] = recovery[v],
             \A v \in Workers : gap'[v] = gap[v] \/ gap'[v] = NoEdge,
             pc'[w] # "recover"
      PROVE  FetchInv'
  <2>1. \A v \in Workers, p \in Edges : Fetching(v, p)' => Fetching(v, p)
    BY <1>g, <1>h, Zenon DEF Fetching, Handled
  <2>2. \A v \in Workers, p \in Edges : Opening(v, p)' => Opening(v, p)
    BY <1>g, Zenon DEF Opening, txVars
  <2> QED
    BY <1>g, <1>t, <1>f, <2>1, <2>2, FetchKept, ZenonT(40) DEF txVars
\* A step that leaves the workers alone.
<1>k. ASSUME UNCHANGED workVars, tx' = tx \/ tx' = NoOne,
             \A p \in Edges : Covered(db, p) => Covered(db', p),
             \A p \in Edges : Covered(wdb, p) => Covered(wdb', p),
             db' = db \/ wdb' = db'
      PROVE  FetchInv'
  <2>1. \A v \in Workers, p \in Edges : (Fetching(v, p)' <=> Fetching(v, p)) /\ (Opening(v, p)' => Opening(v, p))
    BY <1>k, <1>h DEF Fetching, Handled, Opening, workVars
  <2> QED
    BY <1>k, <1>t, <1>f, <2>1, FetchKept
<1>1. ASSUME NEW e \in Edges, Issue(e) \/ Copy(e) \/ Lose(e) PROVE FetchInv'
  BY <1>1, <1>k DEF Issue, Copy, Lose, txVars
<1>2. ASSUME NEW e \in Edges, NEW h \in Handlers, Push(h, e) PROVE FetchInv'
  <2>1. h \in Workers /\ tx # h /\ UNCHANGED txVars
    BY <1>2, <1>h, <1>t, ZenonT(40) DEF Push, Free, WorkTypes
  <2>2. /\ \A v \in Workers \ {h} : pc'[v] = pc[v] /\ todo'[v] = todo[v] /\ recovery'[v] = recovery[v]
        /\ gap' = gap /\ pc'[h] # "recover"
    BY <1>2, <1>h, <1>t DEF Push, Goto
  <2> QED
    BY <2>1, <2>2, <1>g, ZenonT(40)
<1>3. ASSUME NEW e \in Edges, Evict(e) PROVE FetchInv'
  <2>1. /\ tx = NoOne /\ e \in db.pending /\ \A w \in Workers : ~Fetching(w, Prior[e])
        /\ db' = DeletePending(db, e) /\ wdb' = db' /\ tx' = tx /\ UNCHANGED workVars
    BY <1>3, ZenonT(40) DEF Evict
  <2>2. db'.projected = db.projected /\ db'.pending = db.pending \ {e}
    BY <2>1, <1>t, Zenon DEF DeletePending, Db
  <2>3. \A v \in Workers, p \in Edges : (Fetching(v, p)' <=> Fetching(v, p)) /\ ~Opening(v, p)'
    BY <2>1, <1>h DEF Fetching, Handled, Opening, workVars
  <2>4. \A v \in Workers, p \in Edges : Fetching(v, p) => Covered(db', p)
    <3> SUFFICES ASSUME NEW v \in Workers, NEW p \in Edges, Fetching(v, p) PROVE Covered(db', p)
      OBVIOUS
    <3>1. Covered(db, p) /\ p # Prior[e]
      BY <1>f, <2>1, Zenon
    <3> QED
      BY <2>2, <3>1, Zenon DEF Covered
  <2> QED
    BY <2>1, <2>3, <2>4, <1>t, ZenonT(40) DEF FetchInv, OneFetchPerGap
<1>4. ASSUME NEW w \in Workers, Lookup(w) PROVE FetchInv'
  <2>1. UNCHANGED txVars /\ tx # w /\ pc[w] = "lookup"
    BY <1>4, <1>t, ZenonT(40) DEF Lookup, WorkTypes
  <2>2. \A v \in Workers \ {w} : pc'[v] = pc[v] /\ todo'[v] = todo[v] /\ recovery'[v] = recovery[v]
    BY <1>4, <1>t DEF Lookup, Goto
  <2>3. gap' = gap /\ pc'[w] # "recover"
    <3>1. db.stored[Head(todo[w])] \in {"none", "live", "erased"}
      BY <1>4, <1>t, HeadTail, Zenon DEF Lookup, Db
    <3>2. gap' = gap /\ \E s \in {"lookup", "reattempt", "apply"} : pc' = [pc EXCEPT ![w] = s]
      BY <1>4, <3>1, ZenonT(40) DEF Lookup, Goto
    <3> QED
      BY <3>2, <1>t
  <2> QED
    BY <2>1, <2>2, <2>3, <1>g, ZenonT(40)
<1>5. ASSUME NEW w \in Workers, Finish(w) \/ Ask(w) \/ TaskFails(w) PROVE FetchInv'
  <2>1. UNCHANGED txVars /\ tx # w
    BY <1>5, <1>t DEF Finish, Ask, TaskFails, WorkTypes
  <2>2. /\ \A v \in Workers \ {w} : pc'[v] = pc[v] /\ todo'[v] = todo[v] /\ recovery'[v] = recovery[v]
        /\ pc'[w] # "recover"
    BY <1>5, <1>t, Zenon DEF Finish, Ask, TaskFails, Goto
  <2>3. gap' = gap \/ gap' = [gap EXCEPT ![w] = NoEdge]
    BY <1>5, Zenon DEF Finish, Ask, TaskFails
  <2>4. \A v \in Workers : gap'[v] = gap[v] \/ gap'[v] = NoEdge
    BY <2>3, <1>t DEF FetchTypes
  <2> QED
    BY <2>1, <2>2, <2>4, <1>g, ZenonT(40)
<1>6. ASSUME NEW w \in Workers, Begin(w) PROVE FetchInv'
  <2>1. PICK e \in Edges : e = Head(todo[w])
    BY <1>6, <1>t, HeadTail, ZenonT(40) DEF Begin, WorkTypes
  <2>2. /\ tx = NoOne /\ tx' = w /\ db' = db /\ pc' = pc /\ todo' = todo /\ gap' = gap
        /\ wdb' = (IF pc[w] = "apply" THEN Applied(db, e) ELSE Reattempted(db, e))
        /\ recovery' = [recovery EXCEPT ![w] = RecoveryFor(db, e, pc[w])]
        /\ pc[w] \in {"apply", "reattempt"}
    BY <1>6, <2>1 DEF Begin
  <2>3. \A v \in Workers, p \in Edges : Fetching(v, p)' <=> Fetching(v, p)
    BY <2>2, <1>h, <1>t, Zenon DEF Fetching, Handled, FetchTypes
  <2>4. \A p \in Edges : Covered(db', p) => Covered(wdb', p)
    BY <2>2, <1>t, AppliedCovers, ZenonT(40)
  <2>5. ASSUME NEW v \in Workers, NEW p \in Edges, Opening(v, p)'
        PROVE  Covered(wdb', p) /\ \A u \in Workers : ~Fetching(u, p)
    <3>1. v = w /\ pc[w] = "apply" /\ recovery'[w] = "Predecessor" /\ Prior[e] = p
      BY <2>5, <2>1, <2>2 DEF Opening
    <3>2. RecoveryFor(db, e, "apply") = "Predecessor"
      BY <3>1, <2>2, <1>t, ZenonT(40) DEF FetchTypes
    <3>3. Outcome(db, e) = "Deferred" /\ FirstForGap(db, e)
      BY <3>2 DEF RecoveryFor
    <3>4. Prior[e] \notin db.projected
      BY <3>3, Zenon DEF Outcome, Grounded
    <3>5. ~Covered(db, p)
      BY <3>1, <3>3, <3>4 DEF Covered, FirstForGap
    <3>6. Covered(wdb', p)
      BY <3>1, <3>3, <2>2, <1>t, AppliedCovers, ZenonT(40)
    <3> QED
      BY <3>5, <3>6, <1>f
  <2> QED
    BY <2>2, <2>3, <2>4, <2>5, <1>t, Zenon DEF FetchInv, OneFetchPerGap
<1>7. ASSUME NEW w \in Workers, Hydrate(w) PROVE FetchInv'
  <2>1. /\ tx' = w /\ db' = db /\ wdb'.projected = db.projected /\ wdb'.pending = db.pending
        /\ pc' = [pc EXCEPT ![w] = "sweep"] /\ todo' = todo /\ gap' = gap /\ recovery' = recovery
    BY <1>7, <1>t DEF Hydrate, Goto, Db
  <2>2. \A v \in Workers, p \in Edges : (Fetching(v, p)' => Fetching(v, p)) /\ ~Opening(v, p)'
    BY <2>1, <1>h, <1>t, ZenonT(40) DEF Fetching, Handled, Opening
  <2>3. \A p \in Edges : Covered(db', p) => Covered(wdb', p)
    BY <2>1, Zenon DEF Covered
  <2> QED
    BY <2>1, <2>2, <2>3, <1>t, <1>f, FetchKept
<1>8. ASSUME NEW w \in Workers, SweepOne(w) PROVE FetchInv'
  <2>1. PICK x \in Sweepable(wdb) : wdb' = Insert(wdb, x) /\ db' = db /\ tx' = tx /\ UNCHANGED workVars
    BY <1>8 DEF SweepOne
  <2>2. wdb'.projected = wdb.projected \cup {x} /\ wdb'.pending = wdb.pending
    BY <2>1, <1>t, InsertEffect DEF Sweepable
  <2> QED
    BY <2>1, <2>2, CoveredMore, <1>k
<1>9. ASSUME NEW w \in Workers, Commit(w) PROVE FetchInv'
  <2>1. /\ tx = w /\ tx' = NoOne /\ db' = wdb /\ wdb' = wdb /\ gap' = gap
        /\ pc[w] \in {"apply", "reattempt", "sweep"}
    BY <1>9, <1>t DEF Commit, WorkTypes
  <2>2. \A v \in Workers \ {w} : pc'[v] = pc[v] /\ todo'[v] = todo[v] /\ recovery'[v] = recovery[v]
    BY <1>9, <1>t DEF Commit, Goto, EdgeDone, FetchTypes
  <2>3. pc'[w] = "recover" => w \in Handlers /\ pc[w] # "sweep" /\ todo' = todo /\ recovery' = recovery
    BY <1>9, <1>t, Zenon DEF Commit, Goto, EdgeDone
  <2>4. \A v \in Workers, p \in Edges : ~Opening(v, p)'
    BY <2>1, <1>h DEF Opening
  <2>5. ASSUME NEW v \in Workers, NEW p \in Edges, Fetching(v, p)', ~Fetching(v, p)
        PROVE  v = w /\ pc[w] # "sweep" /\ recovery[w] = "Predecessor" /\ Prior[Head(todo[w])] = p /\ pc'[w] = "recover"
    BY <2>1, <2>2, <2>3, <2>5, ZenonT(40) DEF Fetching, Handled
  <2>6. pc[w] = "reattempt" => recovery[w] # "Predecessor"
    BY <2>1, <1>t DEF Asking
  <2>7. \A v \in Workers, p \in Edges : Fetching(v, p)' /\ ~Fetching(v, p) => Opening(v, p)
    BY <2>1, <2>5, <2>6 DEF Opening
  <2> QED
    BY <2>1, <2>4, <2>5, <2>7, <1>t, <1>f, ZenonT(40) DEF FetchInv, OneFetchPerGap
<1>10. ASSUME NEW w \in Workers, Abort(w) PROVE FetchInv'
  <2>1. /\ tx' = NoOne /\ db' = db /\ wdb' = db /\ pc' = [pc EXCEPT ![w] = "idle"]
        /\ todo' = [todo EXCEPT ![w] = <<>>] /\ recovery' = [recovery EXCEPT ![w] = "none"]
        /\ gap' = [gap EXCEPT ![w] = NoEdge]
    BY <1>10 DEF Abort, Goto, RolledBack
  <2>2. \A v \in Workers, p \in Edges : (Fetching(v, p)' => Fetching(v, p)) /\ ~Opening(v, p)'
    BY <2>1, <1>h, <1>t, Zenon DEF Fetching, Handled, Opening, FetchTypes
  <2> QED
    BY <2>1, <2>2, <1>t, FetchKept, Zenon
<1>11. ASSUME NEW h \in Workers, Recover(h) PROVE FetchInv'
  <2>1. h \in Handlers /\ pc[h] = "recover" /\ tx # h /\ UNCHANGED txVars /\ Handled(h) \in Edges
    BY <1>11, <1>t, HeadTail, ZenonT(40) DEF Recover, Asking, WorkTypes, Handled
  <2>2. todo' = [todo EXCEPT ![h] = Tail(@)] /\ recovery' = [recovery EXCEPT ![h] = "none"]
    BY <1>11, Zenon DEF Recover, EdgeDone
  <2>3. CASE pc' = [pc EXCEPT ![h] = "lookup"] /\ gap' = gap
    BY <2>1, <2>2, <2>3, <1>t, <1>g DEF FetchTypes
  <2>4. ASSUME NEW k \in Tasks, NEW s \in {"ask", "author"}, pc' = [pc EXCEPT ![h] = "lookup", ![k] = s],
               gap' = IF recovery[h] = "Predecessor" THEN [gap EXCEPT ![k] = Prior[Handled(h)]] ELSE gap
        PROVE  FetchInv'
    <3>0. k \in Workers /\ k # h /\ k \notin Handlers
      BY <2>1, <1>h
    <3>1. \A v \in Handlers \ {h} : pc'[v] = pc[v] /\ todo'[v] = todo[v] /\ recovery'[v] = recovery[v] /\ v \in Workers
      BY <2>2, <2>4, <1>h, <1>t DEF FetchTypes
    <3>2. pc'[h] = "lookup" /\ gap'[h] = NoEdge
      BY <2>1, <2>4, <3>0, <1>h, <1>t, Zenon DEF FetchTypes
    <3>3. \A v \in Workers \ {k} : gap'[v] = gap[v]
      BY <2>4, <1>t DEF FetchTypes
    <3>4. gap'[k] = gap[k] \/ (recovery[h] = "Predecessor" /\ gap'[k] = Prior[Handled(h)])
      BY <2>4, <3>0, <1>t DEF FetchTypes
    <3>5. \A v \in Workers, p \in Edges :
            Fetching(v, p)' => v # h /\ (Fetching(v, p) \/ (v = k /\ Fetching(h, p)))
      BY <3>0, <3>1, <3>2, <3>3, <3>4, <2>1, <1>h DEF Fetching, Handled
    <3>6. \A v \in Workers, p \in Edges : Opening(v, p)' => Opening(v, p)
      <4>1. \A v \in Workers : tx' = v => (v # h /\ v # k) \/ ~(pc'[v] = "apply")
        BY <2>1, <2>4, <3>0, <1>t
      <4>2. \A v \in Workers \ {h, k} : pc'[v] = pc[v] /\ todo'[v] = todo[v] /\ recovery'[v] = recovery[v]
        BY <2>2, <2>4, <1>t, Zenon DEF FetchTypes
      <4> QED
        BY <4>1, <4>2, <2>1, Zenon DEF Opening, txVars
    <3>7. \A v, u \in Workers, p \in Edges : Fetching(v, p) /\ Fetching(u, p) => v = u
      BY DEF FetchInv, OneFetchPerGap
    <3>8. OneFetchPerGap'
      <4> SUFFICES ASSUME NEW v \in Workers, NEW u \in Workers, NEW p \in Edges, Fetching(v, p)', Fetching(u, p)'
                   PROVE  v = u
        BY Zenon DEF OneFetchPerGap
      <4> QED
        BY <3>5, <3>7, <2>1
    <3>9. db' = db /\ wdb' = wdb
      BY <2>1 DEF txVars
    <3>10. \A v \in Workers, p \in Edges : Fetching(v, p)' => Covered(db', p)
      BY <3>5, <3>9, <2>1, <1>f
    <3>11. \A v \in Workers, p \in Edges : Opening(v, p)' => Covered(wdb', p) /\ \A u \in Workers : ~Fetching(u, p)'
      BY <3>5, <3>6, <3>9, <2>1, <1>f, Zenon
    <3> QED
      BY <3>8, <3>9, <3>10, <3>11, <1>t, <1>f DEF FetchInv
  <2> QED
    BY <1>11, <2>3, <2>4 DEF Recover, Goto
<1>12. ASSUME DrainNothing PROVE FetchInv'
  BY <1>12, <1>k DEF DrainNothing
<1>13. ASSUME NEW x \in Edges, DrainOne(x) PROVE FetchInv'
  <2>1. x \in wdb.pending /\ Prior[x] \in wdb.projected
    BY <1>13, Zenon DEF DrainOne, Waiting, TablesInv, Good, Settled
  <2>2. Outcome(wdb, x) \in {"EndpointMissing", "Projected", "ChainFork", "Deferred"}
    BY DEF Outcome
  <2>3. /\ db' = db /\ tx' = tx /\ UNCHANGED workVars
        /\ \/ wdb' = DeletePending(Store(Insert(wdb, x), x), x)
           \/ wdb' = DeletePending(Store(wdb, x), x)
           \/ wdb' = wdb
    BY <1>13, <2>2 DEF DrainOne
  <2>4. \A p \in Edges : Covered(wdb, p) => Covered(wdb', p)
    BY <2>1, <2>3, <1>t, DrainCovers
  <2> QED
    BY <2>3, <2>4, <1>k
<1>14. CASE UNCHANGED vars
  BY <1>14, <1>k DEF vars, txVars
<1> QED
  BY <1>1, <1>2, <1>3, <1>4, <1>5, <1>6, <1>7, <1>8, <1>9, <1>10, <1>11, <1>12, <1>13, <1>14
  DEF Next, WorkerStep, DrainStep

\* What TypeOK says beyond the types of the tables and of the workers.
OtherTypes ==
  issued \in Seq(Edges) /\ tx \in Workers \cup {NoOne} /\ used \in [DOMAIN Bound -> Nat]

LEMMA OtherTypesStep == ASSUME OtherTypes, [Next]_vars PROVE OtherTypes'
<1>1. issued' \in Seq(Edges)
  <2>1. ASSUME NEW e \in Edges, Issue(e) PROVE issued' \in Seq(Edges)
    <3>1. Append(issued, e) \in Seq(Edges)
      BY DEF OtherTypes
    <3> QED
      BY <2>1, <3>1 DEF Issue
  <2> QED
    BY <2>1, ZenonT(40) DEF Next, WorkerStep, DrainStep, Copy, Lose, Evict, Push, Lookup, Finish, Begin, SweepOne, Commit,
        Recover, Ask, Hydrate, Abort, TaskFails, DrainNothing, DrainOne, homeVars, vars, OtherTypes
<1>2. tx' \in Workers \cup {NoOne}
  BY ZenonT(40) DEF Next, WorkerStep, DrainStep, Issue, Copy, Lose, Evict, Push, Lookup, Finish, Begin, SweepOne, Commit,
     Recover, Ask, Hydrate, Abort, TaskFails, DrainNothing, DrainOne, txVars, vars, OtherTypes
<1>3. used' \in [DOMAIN Bound -> Nat]
  <2>1. DOMAIN Bound = {"evict", "fault", "profile", "loss", "copy"}
    BY DEF Bound
  <2>2. ASSUME NEW b \in DOMAIN Bound, Spend(b) PROVE used' \in [DOMAIN Bound -> Nat]
    BY <2>2 DEF Spend, OtherTypes
  <2>3. used' = used \/ \E b \in DOMAIN Bound : Spend(b)
    BY <2>1, ZenonT(40) DEF Next, WorkerStep, DrainStep, Issue, Copy, Lose, Evict, Push, Lookup, Finish, Begin, SweepOne,
       Commit, Recover, Ask, Hydrate, Abort, TaskFails, DrainNothing, DrainOne, vars
  <2> QED
    BY <2>2, <2>3 DEF OtherTypes
<1> QED
  BY <1>1, <1>2, <1>3 DEF OtherTypes

\* Whatever copies of an orphan and of its siblings arrive, and however their handlers
\* interleave, a gap is fetched by at most one backfill task: enqueue_pending_trust_edge()
\* reports the first orphan of a gap only, and the row it leaves stays until the gap is closed.
THEOREM GapsAreFetchedOnce == Spec => []GapsFetchedOnce
<1>1. Init => FetchInv /\ OtherTypes
  <2> SUFFICES ASSUME Init PROVE FetchInv /\ OtherTypes
    OBVIOUS
  <2>1. \A w \in Workers : gap[w] = NoEdge /\ pc[w] = "idle"
    BY Zenon DEF Init
  <2>2. \A w \in Workers, p \in Edges : ~Fetching(w, p) /\ ~Opening(w, p)
    BY <2>1, EdgeConfig DEF Fetching, Opening
  <2>3. FetchTypes
    BY DEF Init, FetchTypes, Workers
  <2>4. Asking
    BY <2>1, Zenon DEF Asking
  <2>5. OtherTypes
    BY DEF Init, OtherTypes
  <2> QED
    BY <2>2, <2>3, <2>4, <2>5, Zenon DEF Init, FetchInv, OneFetchPerGap
<1>2. TablesInv /\ TablesInv' /\ FetchInv /\ OtherTypes /\ [Next]_vars => FetchInv' /\ OtherTypes'
  BY FetchStep, OtherTypesStep
<1>3. TablesInv /\ FetchInv /\ OtherTypes => GapsFetchedOnce
  BY Zenon DEF TablesInv, WorkTypes, Pcs, Good, FetchInv, FetchTypes, OtherTypes, GapsFetchedOnce, TypeOK
<1> QED
  BY <1>1, <1>2, <1>3, TablesInvariant, PTL DEF Spec

=============================================================================
