--------------------------- MODULE ProgressSuite ----------------------------
(***************************************************************************)
(* What has to happen in the end, one component per behaviour: a chain of  *)
(* trust edges arrives and a gap in it heals (EdgeReceiver), and the       *)
(* viewer is shown the stances of the database (TrustOverlay).             *)
(***************************************************************************)
EXTENDS TrustOverlay

VARIABLES
  part,                                \* the component that runs in this behaviour
  issued, served, wire, tables, wdb, tx, work, pc, todo, recovery, gap, used

-----------------------------------------------------------------------------
(* A chain of three edges, two handlers and two backfill tasks, lost pushes. *)

Line == [e1 |-> "-", e2 |-> "e1", e3 |-> "e2"]

Edges == INSTANCE EdgeReceiver WITH
  db <- tables, Edges <- {"e1", "e2", "e3"}, Prior <- Line, Neutral <- {},
  Handlers <- {"h1", "h2"}, Tasks <- {"k1", "k2"},
  KnownAtStart <- {"source", "target"}, InExpansion <- TRUE, Page <- 2,
  MaxEvicts <- 0, MaxFaults <- 0, MaxProfiles <- 0, MaxLosses <- 2,
  MaxCopies <- 0, MaxMishaps <- 2, NoEdge <- "-", NoOne <- "nobody"
edgeVars == <<issued, served, wire, tables, wdb, tx, work, pc, todo, recovery, gap, used>>

-----------------------------------------------------------------------------
(* One component runs; the others rest.                                    *)

Off == "off"
EdgesOff ==
  /\ issued = Off /\ served = Off /\ wire = Off /\ tables = Off /\ wdb = Off
  /\ tx = Off /\ work = Off /\ pc = Off /\ todo = Off /\ recovery = Off
  /\ gap = Off /\ used = Off
OverlayOff == OverlayInit /\ \A t \in Targets : db[t].stance = "neutral"

ProgressInit ==
  \/ part = "edges" /\ Edges!Init
     /\ OverlayOff
  \/ part = "overlay" /\ OverlayInit
     /\ EdgesOff

ProgressNext ==
  \/ part = "edges" /\ Edges!Next
     /\ UNCHANGED <<part, overlayVars>>
  \/ part = "overlay" /\ OverlayNext
     /\ UNCHANGED <<part, edgeVars>>

ProgressVars == <<part, edgeVars, overlayVars>>

\* The fairness of EdgeReceiver and of TrustOverlay, each for its own behaviours.
ProgressFair ==
  /\ \A w \in {"h1", "h2", "k1", "k2"} :
       /\ WF_edgeVars(part = "edges" /\ Edges!WorkerStep(w))
       /\ SF_edgeVars(part = "edges" /\ Edges!Begin(w))
  /\ WF_edgeVars(part = "edges" /\ Edges!DrainStep)
  /\ \A e \in DOMAIN Line : /\ WF_edgeVars(part = "edges" /\ Edges!Issue(e))
                            /\ SF_edgeVars(part = "edges" /\ \E h \in {"h1", "h2"} : Edges!Push(h, e))
  /\ WF_overlayVars(part = "overlay" /\ LoopStep)
  /\ \A c \in Clicks : WF_overlayVars(part = "overlay" /\ (FetchSeq(c) \/ Record(c)))

ProgressSpec == ProgressInit /\ [][ProgressNext]_ProgressVars /\ ProgressFair

-----------------------------------------------------------------------------
(* What the components promise, each in its own behaviours.                *)

\* Every edge of a chain is projected in the end, in whatever order its copies arrive,
\* unless a push is lost; and one that was buffered for want of a lost predecessor is
\* projected in the end: the backfill closes the gap.
GapsHeal ==
  /\ \A e \in DOMAIN Line : <>(part = "edges" => e \in tables.projected \/ used["loss"] > 0)
  /\ \A e \in DOMAIN Line :
       (part = "edges" /\ e \in tables.pending) ~> (part = "edges" /\ e \in tables.projected)
=============================================================================
