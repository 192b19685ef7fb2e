--------------------------- MODULE DeliverySuite ----------------------------
(***************************************************************************)
(* The ways between two instances, one component per behaviour: the        *)
(* outbound queues of two peers (OutboundQueue), the peering handshake     *)
(* (Peering), the interest filters (Interest) and the walk of a chain      *)
(* (ChainWalk).                                                            *)
(***************************************************************************)
EXTENDS OutboundQueue, Interest, Peering, ChainWalk, TLC

VARIABLE part                          \* the component that runs in this behaviour

Symmetry == Permutations(Peers)

\* Three keys, the hashes of which overlap.
MCHashA == [k \in 1 .. 3 |-> CASE k = 1 -> 3 [] k = 2 -> 14 [] OTHER -> 9]
MCHashB == [k \in 1 .. 3 |-> CASE k = 1 -> 5 [] k = 2 -> 11 [] OTHER -> 6]
\* What two instances offer, and propose with a first and a second request.
MCOffered == [a |-> {"x", "y"}, b |-> {"x", "z"}]
MCProposed == <<{"x", "y"}, {"z", "y"}>>
\* Rows that share a timestamp, and what is looked up by hash.
MCAllRows == {<<1, 1>>, <<1, 2>>, <<1, 3>>, <<2, 1>>}
MCLookups == {{<<1, 1>>, <<1, 2>>}, {<<1, 1>>, <<2, 1>>}}

\* Bound on the objects enqueued: those of one byte are content, the others edges.
Shaped == \A c \in Callers : object[c] # NoOne => (object[c].size = 1 <=> object[c].route = "content")

-----------------------------------------------------------------------------
(* One component runs; the others rest.                                    *)

QueueOff == Init
PeeringOff == PeerInit
InterestOff == InterestInit
WalkOff == WalkInit /\ kind = "edges" /\ held = {}

DeliveryInit ==
  \/ part = "queue" /\ Init
     /\ PeeringOff /\ InterestOff /\ WalkOff
  \/ part = "peering" /\ PeerInit
     /\ QueueOff /\ InterestOff /\ WalkOff
  \/ part = "interest" /\ InterestInit
     /\ QueueOff /\ PeeringOff /\ WalkOff
  \/ part = "walk" /\ WalkInit
     /\ QueueOff /\ PeeringOff /\ InterestOff

DeliveryNext ==
  \/ part = "queue" /\ Next /\ Shaped'
     /\ UNCHANGED <<part, peerVars, interestVars, walkVars>>
  \/ part = "peering" /\ PeerNext
     /\ UNCHANGED <<part, vars, interestVars, walkVars>>
  \/ part = "interest" /\ InterestNext
     /\ UNCHANGED <<part, vars, peerVars, walkVars>>
  \/ part = "walk" /\ WalkNext
     /\ UNCHANGED <<part, vars, peerVars, interestVars>>

DeliveryVars == <<part, vars, peerVars, interestVars, walkVars>>
DeliverySpec == DeliveryInit /\ [][DeliveryNext]_DeliveryVars
=============================================================================
