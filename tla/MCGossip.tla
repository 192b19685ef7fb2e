------------------------------ MODULE MCGossip ------------------------------
(* A small network for Gossip. *)
EXTENDS Gossip

\* a has three candidates and pushes to b and c, the first K: d is left to the relays of
\* b and c, which also relay to each other and back, so that copies of the object cross.
\* Nobody d peers with is interested.
Kite == [a |-> <<"b", "c", "d">>, b |-> <<"a", "c", "d">>, c |-> <<"a", "b", "d">>, d |-> <<>>]
=============================================================================
