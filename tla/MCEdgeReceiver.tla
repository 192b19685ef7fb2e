--------------------------- MODULE MCEdgeReceiver ---------------------------
(* Instances of EdgeReceiver for TLC. *)
EXTENDS EdgeReceiver, TLC

CONSTANTS e1, e3, f2, n2

\* The two handlers run the same code.
Symmetry == Permutations(Handlers)

\* e1 <- n2 <- e3, and a rival f2 of n2: a revocation and a fork.
Forked == (e1 :> NoEdge @@ n2 :> e1 @@ e3 :> n2 @@ f2 :> e1)

\* e1 <- n2: a revocation at the tip.
Tombstone == (e1 :> NoEdge @@ n2 :> e1)
=============================================================================
