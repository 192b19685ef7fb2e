------------------------------- MODULE Peering -------------------------------
(***************************************************************************)
(* The peering handshake of two instances (server/src/federation/          *)
(* peering.rs, driven by server/src/admin_federation.rs): one operator     *)
(* asks, the other accepts, either ends it.  Every step that crosses the   *)
(* network may be lost, be late, or lose only its answer, and both sides   *)
(* may act at once.  The envelope that authenticates a request and         *)
(* refuses it a second time is that of envelope.rs and middleware.rs.      *)
(***************************************************************************)
EXTENDS Integers, Sequences, FiniteSets

CONSTANTS
  Sides,       \* the two instances
  MaxRequests, \* bound on request ids
  MaxSent,     \* bound on envelopes; the number of an envelope is its nonce
  LruSize,     \* DEFAULT_NONCE_LRU_SIZE
  Window,      \* envelopes that can be sent within MAX_CLOCK_SKEW_MS
  Offered,     \* capabilities of each instance
  Proposed     \* capabilities proposed with each request id

ASSUME PeeringConfig ==
  /\ \E a, b \in Sides : a # b /\ Sides = {a, b}
  /\ {MaxRequests, MaxSent, LruSize, Window} \subseteq Nat

VARIABLES
  peer,      \* per side the peers row of the other: status, direction, rid, agreed
  rids,     \* request ids handed out
  wire,     \* envelopes sent, by nonce
  lru,      \* per side NonceLru: nonces in the order of their arrival
  answer,   \* per envelope the status code of its handler, 0 before
  op,       \* per side what the operator is waiting for
  handled   \* per envelope how often a handler ran on it

peerVars == <<peer, rids, wire, lru, answer, op, handled>>

Other(x) == CHOOSE y \in Sides : y # x
NoPeer == [status |-> "none", dir |-> "none", rid |-> 0, agreed |-> {}]
NoOp == [pc |-> "idle", n |-> 0, rid |-> 0]

PeerInit ==
  /\ peer = [x \in Sides |-> NoPeer] /\ rids = 0 /\ wire = <<>>
  /\ lru = [x \in Sides |-> <<>>] /\ answer = [n \in 1..MaxSent |-> 0]
  /\ op = [x \in Sides |-> NoOp] /\ handled = [n \in 1..MaxSent |-> 0]

\* sign_outbound(): a new envelope from x to the other side.
Send(kind, x, rid) ==
  /\ Len(wire) < MaxSent
  /\ wire' = Append(wire, [kind |-> kind, from |-> x, rid |-> rid])
Waiting(pc, rid) == [pc |-> pc, n |-> Len(wire) + 1, rid |-> rid]

-----------------------------------------------------------------------------
(* The operators.                                                          *)

\* initiate_peer(), operator_initiate_peer_request(): the row is written before the
\* request leaves, over whatever was there.
OperatorInitiate(x) ==
  /\ rids < MaxRequests /\ rids' = rids + 1
  /\ peer' = [peer EXCEPT ![x] = [@ EXCEPT !.status = "pending_outbound", !.dir = "outbound", !.rid = rids + 1]]
  /\ Send("request", x, rids + 1)
  /\ UNCHANGED <<lru, answer, op, handled>>

\* accept_peer(), operator_accept_peer_request(): the callback leaves first.
Flips(x) == peer
OperatorAccept(x) ==
  /\ op[x].pc = "idle" /\ peer[x].status = "pending_inbound"
  /\ Send("accept", x, peer[x].rid)
  /\ peer' = Flips(x)
  /\ op' = [op EXCEPT ![x] = Waiting("accepting", peer[x].rid)]
  /\ UNCHANGED <<rids, lru, answer, handled>>

\* The callback was answered 200: the row of this request becomes active.
Agreed(x, rid) == Offered[x] \intersect Proposed[rid]
Accepts_AnyRow(r, rid) == r.status \in {"pending_inbound", "active"}
Accepts(r, rid) == r.rid = rid /\ r.status \in {"pending_inbound", "active"}
AcceptCommits(x) ==
  /\ op[x].pc = "accepting" /\ answer[op[x].n] = 200
  /\ peer' = [peer EXCEPT ![x] = IF Accepts(@, op[x].rid)
               THEN [@ EXCEPT !.status = "active", !.agreed = Agreed(x, op[x].rid)] ELSE @]
  /\ op' = [op EXCEPT ![x] = NoOp]
  /\ UNCHANGED <<rids, wire, lru, answer, handled>>

\* defederate() reads the status; an active peering is ended over the wire first,
\* any other row is dropped.
OperatorDefederate(x) ==
  /\ op[x].pc = "idle" /\ peer[x].status # "none"
  /\ IF peer[x].status = "active"
     THEN /\ Send("delete", x, 0)
          /\ op' = [op EXCEPT ![x] = Waiting("ending", 0)]
     ELSE op' = [op EXCEPT ![x].pc = "dropping"] /\ UNCHANGED wire
  /\ UNCHANGED <<peer, rids, lru, answer, handled>>

\* operator_terminate_peer_relationship() after a 200.
TerminateCommits(x) ==
  /\ op[x].pc = "ending" /\ answer[op[x].n] = 200
  /\ peer' = [peer EXCEPT ![x].status = IF @ = "active" THEN "terminated" ELSE @]
  /\ op' = [op EXCEPT ![x] = NoOp]
  /\ UNCHANGED <<rids, wire, lru, answer, handled>>

DropRow(x) ==
  /\ op[x].pc = "dropping"
  /\ peer' = [peer EXCEPT ![x] = NoPeer]
  /\ op' = [op EXCEPT ![x] = NoOp]
  /\ UNCHANGED <<rids, wire, lru, answer, handled>>

\* The answer was an error, is lost, or the request never arrived; nothing is changed.
OperatorGivesUp(x) ==
  /\ op[x].pc \in {"accepting", "ending"}
  /\ op' = [op EXCEPT ![x] = NoOp]
  /\ UNCHANGED <<peer, rids, wire, lru, answer, handled>>

-----------------------------------------------------------------------------
(* The handlers, behind the envelope.                                      *)

\* check_and_insert(): first in, first out.
Unseen_Always(x, n) == TRUE
Unseen(x, n) == \A i \in DOMAIN lru[x] : lru[x][i] # n
Remember(x, n) ==
  LET all == Append(lru[x], n) IN IF Len(all) > LruSize THEN Tail(all) ELSE all
\* The clock-skew filter.
Young(n) == n > Len(wire) - Window

\* verify_known_peer() for a DELETE; the handshake routes are open to anyone.
MayCall(y, m) == m.kind = "delete" => peer[y].status = "active"

\* The status code, and the row that the handler leaves.  Each instance has one domain, so
\* a request never meets domain_taken; and the row that handle_peer_response() selects is
\* the one it updates, the statement repeating the request id and the status.
RequestRow(r, m) == [r EXCEPT !.status = "pending_inbound", !.dir = "inbound", !.rid = m.rid]
Answers(r, m) == r.rid = m.rid /\ r.status \in {"pending_outbound", "active"}
RejectedRow(r) == [r EXCEPT !.status = IF @ = "pending_outbound" THEN "rejected" ELSE @]
DeletedRow(r) == [r EXCEPT !.status = "terminated"]
HandlerCode(r, m) ==
  CASE m.kind = "request" -> 202
    [] m.kind \in {"accept", "reject"} -> IF Answers(r, m) THEN 200 ELSE 404
    [] m.kind = "delete" -> 200
HandlerRow(r, m) ==
  CASE m.kind = "request" -> RequestRow(r, m)
    [] m.kind = "accept" /\ Answers(r, m) ->
         [r EXCEPT !.status = "active", !.agreed = Agreed(m.from, m.rid)]
    [] m.kind = "reject" /\ Answers(r, m) ->
         RejectedRow(r)
    [] m.kind = "delete" -> DeletedRow(r)
    [] OTHER -> r

\* A request arrives, perhaps late, perhaps once more.
Deliver(n) ==
  LET m == wire[n]
      y == Other(m.from)
  IN /\ n \in 1..Len(wire) /\ Young(n)
     /\ IF ~MayCall(y, m)
        THEN /\ answer' = [answer EXCEPT ![n] = IF @ = 0 THEN 401 ELSE @]
             /\ UNCHANGED <<peer, lru, handled>>
        ELSE /\ Unseen(y, n)
             /\ lru' = [lru EXCEPT ![y] = Remember(y, n)]
             /\ handled' = [handled EXCEPT ![n] = @ + 1]
             /\ answer' = [answer EXCEPT ![n] = HandlerCode(peer[y], m)]
             /\ peer' = [peer EXCEPT ![y] = HandlerRow(peer[y], m)]
     /\ UNCHANGED <<rids, wire, op>>

\* The operator of the other side declines; this code answers a reject, other
\* implementations send one.
PeerRejects(x) ==
  /\ peer[x].status = "pending_inbound"
  /\ Send("reject", x, peer[x].rid)
  /\ peer' = [peer EXCEPT ![x].status = "rejected"]
  /\ UNCHANGED <<rids, lru, answer, op, handled>>

PeerNext ==
  \/ \E x \in Sides : \/ OperatorInitiate(x) \/ OperatorAccept(x) \/ AcceptCommits(x)
                      \/ OperatorDefederate(x) \/ TerminateCommits(x) \/ DropRow(x)
                      \/ OperatorGivesUp(x) \/ PeerRejects(x)
  \/ \E n \in 1..Len(wire) : Deliver(n)

PeerSpec == PeerInit /\ [][PeerNext]_peerVars

-----------------------------------------------------------------------------
(* Properties.                                                             *)

\* The variables have their types.
PeerTypeOK ==
  /\ \A x \in Sides :
       /\ peer[x].status \in {"none", "pending_outbound", "pending_inbound", "active", "rejected", "terminated"}
       /\ op[x].pc \in {"idle", "accepting", "ending", "dropping"}
       /\ Len(lru[x]) <= LruSize
  /\ rids \in 0..MaxRequests /\ Len(wire) <= MaxSent

\* When both sides hold the peering active, they mean the same request, asked by one
\* and accepted by the other, with the same capabilities.
ActiveAgree ==
  \A x, y \in Sides :
    x # y /\ peer[x].status = "active" /\ peer[y].status = "active"
      => peer[x].rid = peer[y].rid /\ peer[x].dir # peer[y].dir /\ peer[x].agreed = peer[y].agreed

\* operator_accept_peer_request() calls the other order "a stuck half-handshake (B=active,
\* A=pending_outbound)": it does not come about.
NoStuckHalf ==
  \A x, y \in Sides :
    x # y /\ peer[x].status = "active" /\ peer[x].rid = peer[y].rid => peer[y].status # "pending_outbound"

\* The replay cache holds what can arrive within two clock-skew windows: an envelope may
\* be overtaken by later ones.
CacheCovers == LruSize >= 2 * Window - 1

\* A signed envelope is acted upon once, whoever repeats it, while the replay cache
\* holds what is within the clock window.
EachEnvelopeOnce == CacheCovers => \A n \in 1..MaxSent : handled[n] <= 1

\* Two instances that both hold the peering as active mean the same request with the
\* same capabilities, and the half-handshake the accepting operator avoids (active
\* here, pending there) does not come about, whatever messages are lost, repeated or
\* crossed.
HandshakeAgrees ==
  PeerTypeOK /\ (CacheCovers => ActiveAgree /\ NoStuckHalf)
=============================================================================
