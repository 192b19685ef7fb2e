----------------------------- MODULE TrustSuite -----------------------------
(***************************************************************************)
(* What an instance knows of trust, one component per behaviour: the log   *)
(* of local trust edges (TrustLog), the scores (TrustScores), the          *)
(* frontiers that peers announce (Frontier) and the reverse-frontier store *)
(* (FrontierStore).                                                        *)
(***************************************************************************)
EXTENDS TrustLog, TLC

CONSTANTS a1, a2, h1, h2

VARIABLES
  part,                                \* the component that runs in this behaviour
  trusts, cached, now,
  world, changes, restarts, local, dirty, fan, ann, wire, row, ceil, hnd, edges,
  signer, pushed,
  gen, fedge, stub, got, ceiling, readers, cap, reb, calm

Symmetry == Permutations({a1, a2}) \union Permutations({h1, h2}) \union Permutations(Tabs)

-----------------------------------------------------------------------------
(* The graphs over four users.                                             *)

\* The other users trust each other and the viewer as they like, save that 4 does not
\* trust 2.
GraphsOfFour == SUBSET {e \in ((1 .. 4) \ {1}) \X (1 .. 4) : e[1] # e[2] /\ e # <<4, 2>>}
StancesOfOne == [(1 .. 4) \ {1} -> {"neutral", "trust"}]

Scores == INSTANCE TrustScores WITH
  Nodes <- {1, 2, 3, 4}, Viewer <- 1, MaxDepth <- 3, Graphs <- GraphsOfFour,
  Stances <- StancesOfOne, Full <- 6553600
scoreVars == <<trusts, cached, now>>

-----------------------------------------------------------------------------
(* Two announcements of one key, two handlers.                             *)

Announce == INSTANCE Frontier WITH
  Keys <- {"k"}, Announcers <- {a1, a2}, Handlers <- {h1, h2}, Ceils <- {0},
  MaxVersion <- 2, MaxChanges <- 1, MaxRestarts <- 1
frontVars == <<world, changes, restarts, local, dirty, fan, ann, wire, row, ceil, hnd, edges,
  signer, pushed>>

-----------------------------------------------------------------------------
(* Three remote users around a local one.                                  *)

Edge(s, t, st, n) == [src |-> s, tgt |-> t, stance |-> st, at |-> n]
\* 11 trusts the local user 1 and takes it back; 12 trusts 1 and 11; 13 trusts 12.
StoreEdges == {Edge(11, 1, "trust", 1), Edge(11, 1, "distrust", 2), Edge(12, 1, "trust", 1), Edge(12, 11, "trust", 1), Edge(13, 12, "trust", 1)}
StoreScore == [r \in {1} |-> [k \in {1, 11, 12, 13} |-> IF k = 13 THEN 1 ELSE 0]]
BornAt == [k \in {1, 11, 12, 13} |-> IF k = 11 THEN 5 ELSE IF k = 12 THEN 7 ELSE IF k = 13 THEN 9 ELSE 0]

Store == INSTANCE FrontierStore WITH
  Locals <- {1}, Remotes <- {11, 12, 13}, Edges <- StoreEdges,
  Homed <- {11, 12, 13}, Known <- {11}, Score <- StoreScore, Genesis <- BornAt,
  NoAge <- 0, Caps <- {1, 9}, Depth <- 2, K <- 1, MaxGen <- 5
storeVars == <<gen, fedge, stub, got, ceiling, readers, cap, reb, calm>>

-----------------------------------------------------------------------------
(* One component runs; the others rest.                                    *)

Off == "off"
LogOff == Init
ScoresOff ==
  /\ trusts = Off /\ cached = Off /\ now = Off
FrontierOff ==
  /\ world = Off /\ changes = Off /\ restarts = Off /\ local = Off /\ dirty = Off
  /\ fan = Off /\ ann = Off /\ wire = Off /\ row = Off /\ ceil = Off /\ hnd = Off
  /\ edges = Off /\ signer = Off /\ pushed = Off
StoreOff ==
  /\ gen = Off /\ fedge = Off /\ stub = Off /\ got = Off /\ ceiling = Off
  /\ readers = Off /\ cap = Off /\ reb = Off /\ calm = Off

TrustInit ==
  \/ part = "log" /\ Init
     /\ ScoresOff /\ FrontierOff /\ StoreOff
  \/ part = "scores" /\ Scores!ScoreInit
     /\ LogOff /\ FrontierOff /\ StoreOff
  \/ part = "frontier" /\ Announce!FrontInit
     /\ LogOff /\ ScoresOff /\ StoreOff
  \/ part = "store" /\ Store!StoreInit
     /\ LogOff /\ ScoresOff /\ FrontierOff

TrustNext ==
  \/ part = "log" /\ Next
     /\ UNCHANGED <<part, scoreVars, frontVars, storeVars>>
  \/ part = "scores" /\ Scores!ScoreNext
     /\ UNCHANGED <<part, vars, frontVars, storeVars>>
  \/ part = "frontier" /\ Announce!FrontNext
     /\ UNCHANGED <<part, vars, scoreVars, storeVars>>
  \/ part = "store" /\ Store!StoreNext
     /\ UNCHANGED <<part, vars, scoreVars, frontVars>>

TrustVars == <<part, vars, scoreVars, frontVars, storeVars>>
TrustSpec == TrustInit /\ [][TrustNext]_TrustVars

-----------------------------------------------------------------------------
(* What the components promise, each in its own behaviours.                *)

\* The three walks of the trust graph agree: an overlay on the cached graph gives the
\* scores of a rebuild for the users that graph knows, the forward walk of a reader who distrusts nobody finds the
\* best path of each group, and the reverse walk the same score from the other end.
WalksAgree ==
  part = "scores" =>
    /\ Scores!ScoreTypeOK /\ Scores!OverlayIsRebuild /\ Scores!ForwardIsBest
    /\ Scores!ReverseIsForward

\* Until a restart two announcements of one version never differ; once no request is
\* under way, every edge the stored frontier asks for was sent, whenever it was signed;
\* and no announcement takes the stored version back, whatever announcements, restarts
\* and pulls cross.
PeerFollows ==
  /\ [](part = "frontier" =>
          /\ Announce!FrontTypeOK /\ Announce!VersionNamesFrontier
          /\ Announce!NoEdgeMissed)
  /\ [][part = "frontier" => Announce!VersionNeverBackStep]_TrustVars

\* A rebuild that nothing disturbs, with room in the caps, stores what is in reach;
\* with less room each reader keeps the best of what was offered; and a trust that was
\* taken back does not return because its withdrawal was swept.
StoreIsFrontier ==
  part = "store" =>
    /\ Store!StoreTypeOK /\ Store!NoResurrection /\ Store!CapIsTopN
    /\ Store!FrontierIsReach
=============================================================================
