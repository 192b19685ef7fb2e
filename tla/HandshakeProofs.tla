-------------------------- MODULE HandshakeProofs --------------------------
(***************************************************************************)
(* The steps of the peering handshake (peering.rs), for any number of      *)
(* requests and envelopes: sides that are both active under one request    *)
(* agree on the capabilities, and no half is stuck.  Request ids grow      *)
(* along the wire, and the invariant relates each row to the last          *)
(* acceptance its side has sent or may yet hear of.                        *)
(*                                                                         *)
(* Envelopes (lru.rs): no copy of one acts a second time while the cache   *)
(* covers the window of accepted timestamps.  The cache keeps the order of *)
(* arrival, so what was evicted before n is a neighbour of n in time, and  *)
(* there are fewer such neighbours than the cache has entries.             *)
(***************************************************************************)
EXTENDS Peering, WellFoundedInduction, TLAPS

-----------------------------------------------------------------------------
(* The handshake.                                                          *)

Caps == UNION {Offered[x] : x \in Sides}
Envelope == [kind : {"request", "accept", "reject", "delete"}, from : Sides, rid : Nat]
PeerRow == [status : {"none", "pending_outbound", "pending_inbound", "active", "rejected", "terminated"},
            dir : {"none", "outbound", "inbound"}, rid : Nat, agreed : SUBSET Caps]
OpRow == [pc : {"idle", "accepting", "ending", "dropping"}, n : 0..MaxSent, rid : Nat]

\* The types, and nothing is known of an envelope before it is sent.
PeerTypes ==
  /\ peer \in [Sides -> PeerRow]
  /\ rids \in 0..MaxRequests
  /\ wire \in Seq(Envelope) /\ Len(wire) <= MaxSent
  /\ answer \in [1..MaxSent -> Nat] /\ handled \in [1..MaxSent -> Nat]
  /\ op \in [Sides -> OpRow]
  /\ \A n \in 1..MaxSent : n > Len(wire) => answer[n] = 0 /\ handled[n] = 0

\* The cache of a side holds envelopes in the order of their arrival, and those that it has
\* acted on and that are still young are among them.
CacheInv ==
  /\ lru \in [Sides -> Seq(1..Len(wire))]
  /\ \A y \in Sides : Len(lru[y]) <= LruSize
  /\ \A y \in Sides : \A i, j \in 1..Len(lru[y]) :
       i < j => lru[y][i] # lru[y][j] /\ lru[y][j] > lru[y][i] - Window
  /\ CacheCovers => \A n \in 1..Len(wire) :
       /\ handled[n] <= 1
       /\ handled[n] # 0 /\ Young(n) => ~Unseen(Other(wire[n].from), n)

Accept(n, x) == n \in 1..Len(wire) /\ wire[n].kind = "accept" /\ wire[n].from = x
Request(k, x) == k \in 1..Len(wire) /\ wire[k].kind = "request" /\ wire[k].from = x
LastAccept(n, x) == Accept(n, x) /\ \A m : Accept(m, x) => m <= n

\* Request ids grow with the envelopes that carry them; what is accepted was asked before.
WireInv ==
  /\ \A x \in Sides : \A k : Request(k, x) => wire[k].rid \in 1..rids
  /\ \A x, y \in Sides : \A j, k : Request(j, x) /\ Request(k, y) /\ j < k => wire[j].rid < wire[k].rid
  /\ \A x \in Sides : \A n : Accept(n, x) =>
       \E k : Request(k, Other(x)) /\ k < n /\ wire[k].rid = wire[n].rid /\ handled[k] # 0

\* What the side that asked knows once it has answered the callback n with 200.
Good(n) ==
  LET x == Other(wire[n].from) IN
  /\ \A k : Request(k, x) /\ k < n => wire[k].rid <= wire[n].rid
  /\ ~(peer[x].status = "pending_outbound" /\ peer[x].rid = wire[n].rid)
  /\ peer[x].dir = "inbound" => \A m : Accept(m, x) /\ wire[m].rid = peer[x].rid => m > n

\* An outbound row stands for the last request, and no acceptance came after it; an inbound
\* one for a request that was handled.
RowOk(x) ==
  /\ peer[x].dir = "outbound" =>
       \E k : /\ Request(k, x) /\ wire[k].rid = peer[x].rid
              /\ \A n : Request(n, x) \/ Accept(n, x) => n <= k
  /\ peer[x].dir = "inbound" =>
       \E k : Request(k, Other(x)) /\ wire[k].rid = peer[x].rid /\ handled[k] # 0
  /\ peer[x].status = "pending_outbound" => peer[x].dir = "outbound"
  /\ peer[x].status = "pending_inbound" => peer[x].dir = "inbound"
  /\ peer[x].status = "active" => peer[x].dir # "none"
RowInv == \A x \in Sides : RowOk(x)

\* An active row has been accepted by the other side, or by this one with the other's consent.
ActiveOk(x) ==
  peer[x].status = "active" =>
    /\ peer[x].dir = "outbound" =>
         /\ peer[x].agreed = Agreed(Other(x), peer[x].rid)
         /\ \E n : Accept(n, Other(x)) /\ wire[n].rid = peer[x].rid
    /\ peer[x].dir = "inbound" =>
         /\ peer[x].agreed = Agreed(x, peer[x].rid)
         /\ \E n : LastAccept(n, x) /\ wire[n].rid = peer[x].rid /\ Good(n)
ActiveInv == \A x \in Sides : ActiveOk(x)

\* The operator who waits for the answer to a callback has sent no later one.
OpOk(x) ==
  op[x].pc = "accepting" =>
    /\ LastAccept(op[x].n, x) /\ wire[op[x].n].rid = op[x].rid
    /\ answer[op[x].n] = 200 => Good(op[x].n)
OpInv == \A x \in Sides : OpOk(x)

HandshakeInv == WireInv /\ RowInv /\ ActiveInv /\ OpInv

\* There are two sides.
LEMMA OtherSide ==
  \A x \in Sides : /\ Other(x) \in Sides /\ Other(x) # x /\ Other(Other(x)) = x
                   /\ \A y \in Sides : y # x => y = Other(x)
<1>1. PICK a, b \in Sides : a # b /\ Sides = {a, b}
  BY PeeringConfig
<1>2. Other(a) = b /\ Other(b) = a
  BY <1>1 DEF Other
<1> QED
  BY <1>1, <1>2

\* The envelopes after one more was sent.
LEMMA Sent ==
  ASSUME PeerTypes, NEW e \in Envelope, wire' = Append(wire, e)
  PROVE  /\ Len(wire) \in Nat /\ Len(wire') = Len(wire) + 1 /\ wire'[Len(wire) + 1] = e
         /\ \A n \in 1..Len(wire) : wire'[n] = wire[n] /\ n \in 1..Len(wire')
         /\ \A n, x : Accept(n, x)' <=> Accept(n, x) \/ (n = Len(wire) + 1 /\ e.kind = "accept" /\ e.from = x)
         /\ \A n, x : Request(n, x)' <=> Request(n, x) \/ (n = Len(wire) + 1 /\ e.kind = "request" /\ e.from = x)
<1>1. wire \in Seq(Envelope) /\ Len(wire) \in Nat
  BY DEF PeerTypes
<1>2. /\ Len(wire') = Len(wire) + 1 /\ wire'[Len(wire) + 1] = e
      /\ \A n \in 1..Len(wire) : wire'[n] = wire[n] /\ n \in 1..Len(wire')
      /\ \A n : n \in 1..Len(wire') <=> n \in 1..Len(wire) \/ n = Len(wire) + 1
  BY <1>1
<1>3. Len(wire) + 1 \notin 1..Len(wire)
  BY <1>1
<1> QED
  BY <1>1, <1>2, <1>3, Zenon DEF Accept, Request

\* What may be sent.
LEMMA SendTypes ==
  ASSUME PeerTypes, NEW k \in {"request", "accept", "reject", "delete"}, NEW x \in Sides, NEW r \in Nat, Send(k, x, r)
  PROVE  /\ [kind |-> k, from |-> x, rid |-> r] \in Envelope
         /\ wire' = Append(wire, [kind |-> k, from |-> x, rid |-> r])
         /\ wire' \in Seq(Envelope) /\ Len(wire) < MaxSent /\ Len(wire') <= MaxSent
         /\ Len(wire) + 1 \in 1..MaxSent /\ Len(wire') = Len(wire) + 1
<1>1. [kind |-> k, from |-> x, rid |-> r] \in Envelope
  BY DEF Envelope
<1>2. wire \in Seq(Envelope) /\ MaxSent \in Nat
  BY PeeringConfig DEF PeerTypes
<1>3. wire' = Append(wire, [kind |-> k, from |-> x, rid |-> r]) /\ Len(wire) < MaxSent
  BY DEF Send
<1> QED
  BY <1>1, <1>2, <1>3

\* After a request was sent.
LEMMA SentRequest ==
  ASSUME PeerTypes, NEW x \in Sides, NEW r \in Nat, Send("request", x, r)
  PROVE  /\ Len(wire) \in Nat /\ Len(wire') = Len(wire) + 1
         /\ wire'[Len(wire) + 1] = [kind |-> "request", from |-> x, rid |-> r]
         /\ \A n \in 1..Len(wire) : wire'[n] = wire[n] /\ n \in 1..Len(wire')
         /\ \A n, z : Accept(n, z)' <=> Accept(n, z)
         /\ \A n, z : Request(n, z)' <=> Request(n, z) \/ (n = Len(wire) + 1 /\ z = x)
<1> DEFINE e == [kind |-> "request", from |-> x, rid |-> r]
<1>1. wire' = Append(wire, e) /\ e \in Envelope
  BY SendTypes
<1>2. e.kind = "request" /\ e.kind # "accept" /\ e.from = x
  OBVIOUS
<1> HIDE DEF e
<1>3. /\ Len(wire) \in Nat /\ Len(wire') = Len(wire) + 1 /\ wire'[Len(wire) + 1] = e
      /\ \A n \in 1..Len(wire) : wire'[n] = wire[n] /\ n \in 1..Len(wire')
      /\ \A n, z : Accept(n, z)' <=> Accept(n, z) \/ (n = Len(wire) + 1 /\ e.kind = "accept" /\ e.from = z)
      /\ \A n, z : Request(n, z)' <=> Request(n, z) \/ (n = Len(wire) + 1 /\ e.kind = "request" /\ e.from = z)
  BY <1>1, Sent, Zenon
<1> QED
  BY <1>2, <1>3, Zenon DEF e

\* A row that is not there.
LEMMA NoPeerFields == NoPeer.status = "none" /\ NoPeer.dir = "none"
  BY DEF NoPeer

\* What both parts rest on.
PeerInv == PeerTypes /\ CacheInv


\* The step sends at most an envelope, and forgets none.
Grows ==
  /\ Len(wire') >= Len(wire) /\ Len(wire') \in Nat
  /\ \A n \in 1..Len(wire) : wire'[n] = wire[n] /\ n \in 1..Len(wire')

\* Envelopes stay what they are.
LEMMA GrowsKeeps ==
  ASSUME PeerTypes, Grows
  PROVE  \A n, x : /\ Accept(n, x) => Accept(n, x)' /\ wire'[n] = wire[n] /\ n \in 1..Len(wire)
                   /\ Request(n, x) => Request(n, x)' /\ wire'[n] = wire[n] /\ n \in 1..Len(wire)
                   /\ Accept(n, x)' /\ n \in 1..Len(wire) => Accept(n, x)
                   /\ Request(n, x)' /\ n \in 1..Len(wire) => Request(n, x)
BY DEF Grows, Accept, Request

\* What the asking side knows of a callback it has answered stays so.
LEMMA GoodKept ==
  ASSUME PeerTypes, Grows, NEW n \in 1..Len(wire), Good(n),
         LET x == Other(wire[n].from) IN
         /\ peer'[x].status = "pending_outbound" =>
              \/ peer[x].status = "pending_outbound" /\ peer'[x].rid = peer[x].rid
              \/ peer'[x].rid # wire[n].rid
         /\ peer'[x].dir = "inbound" =>
              \/ peer[x].dir = "inbound" /\ peer'[x].rid = peer[x].rid
              \/ \A m : Accept(m, x) => wire[m].rid # peer'[x].rid
  PROVE  Good(n)'
<1> DEFINE x == Other(wire[n].from)
<1>0. Len(wire) \in Nat /\ Len(wire') \in Nat /\ wire'[n] = wire[n] /\ Other(wire'[n].from) = x
  BY DEF PeerTypes, Grows
<1>1. /\ \A k : Request(k, x) /\ k < n => wire[k].rid <= wire[n].rid
      /\ ~(peer[x].status = "pending_outbound" /\ peer[x].rid = wire[n].rid)
      /\ peer[x].dir = "inbound" => \A m : Accept(m, x) /\ wire[m].rid = peer[x].rid => m > n
  BY DEF Good
<1>2. /\ peer'[x].status = "pending_outbound" =>
           \/ peer[x].status = "pending_outbound" /\ peer'[x].rid = peer[x].rid
           \/ peer'[x].rid # wire[n].rid
      /\ peer'[x].dir = "inbound" =>
           \/ peer[x].dir = "inbound" /\ peer'[x].rid = peer[x].rid
           \/ \A m : Accept(m, x) => wire[m].rid # peer'[x].rid
  OBVIOUS
<1> HIDE DEF x
<1>3. \A k : (k \in 1..Len(wire') /\ wire'[k].kind = "request" /\ wire'[k].from = x) /\ k < n => wire'[k].rid <= wire'[n].rid
  <2> SUFFICES ASSUME NEW k \in 1..Len(wire'), wire'[k].kind = "request", wire'[k].from = x, k < n
               PROVE  wire'[k].rid <= wire'[n].rid
    OBVIOUS
  <2>1. k \in 1..Len(wire) /\ wire'[k] = wire[k]
    BY <1>0 DEF Grows
  <2> QED
    BY <1>0, <1>1, <2>1 DEF Request
<1>4. ~(peer'[x].status = "pending_outbound" /\ peer'[x].rid = wire'[n].rid)
  BY <1>0, <1>1, <1>2
<1>5. ASSUME peer'[x].dir = "inbound", NEW m \in 1..Len(wire'), wire'[m].kind = "accept", wire'[m].from = x,
             wire'[m].rid = peer'[x].rid
      PROVE  m > n
  <2>1. CASE m \in 1..Len(wire)
    <3>1. wire'[m] = wire[m] /\ Accept(m, x)
      BY <1>5, <2>1 DEF Grows, Accept
    <3> QED
      BY <1>1, <1>2, <1>5, <3>1
  <2>2. CASE m \notin 1..Len(wire)
    BY <1>0, <2>2
  <2> QED
    BY <2>1, <2>2
<1> QED
  BY <1>0, <1>3, <1>4, <1>5 DEF Good, Request, Accept

\* The id of a request belongs to one envelope.
LEMMA OneRequest ==
  ASSUME PeerTypes, WireInv, NEW x \in Sides, NEW y \in Sides, NEW j, NEW k,
         Request(j, x), Request(k, y), wire[j].rid = wire[k].rid
  PROVE  j = k /\ x = y
<1>1. j \in 1..Len(wire) /\ k \in 1..Len(wire) /\ Len(wire) \in Nat /\ wire[j].rid \in Int /\ wire[k].rid \in Int
  <2>1. \A n \in 1..Len(wire) : wire[n] \in Envelope
    BY DEF PeerTypes
  <2> QED
    BY <2>1 DEF Request, PeerTypes, Envelope
<1>2. ~(j < k) /\ ~(k < j)
  <2>1. (j < k => wire[j].rid < wire[k].rid) /\ (k < j => wire[k].rid < wire[j].rid)
    BY Zenon DEF WireInv
  <2> QED
    BY <1>1, <2>1
<1>3. j = k
  BY <1>1, <1>2
<1> QED
  BY <1>3 DEF Request

\* A row of the one direction never has an id of the other.
LEMMA Directions ==
  ASSUME PeerTypes, WireInv, RowInv, NEW x \in Sides, NEW k, Request(k, x)
  PROVE  /\ peer[x].rid = wire[k].rid => peer[x].dir # "inbound"
         /\ peer[Other(x)].rid = wire[k].rid => peer[Other(x)].dir # "outbound"
<1>1. Other(x) \in Sides /\ Other(x) # x /\ Other(Other(x)) = x
  BY OtherSide
<1>2. ASSUME peer[x].rid = wire[k].rid, peer[x].dir = "inbound" PROVE FALSE
  <2>1. PICK j : Request(j, Other(x)) /\ wire[j].rid = peer[x].rid
    BY <1>2 DEF RowInv, RowOk
  <2> QED
    BY <1>1, <1>2, <2>1, OneRequest
<1>3. ASSUME peer[Other(x)].rid = wire[k].rid, peer[Other(x)].dir = "outbound" PROVE FALSE
  <2>1. PICK j : Request(j, Other(x)) /\ wire[j].rid = peer[Other(x)].rid
    BY <1>1, <1>3 DEF RowInv, RowOk
  <2> QED
    BY <1>1, <1>3, <2>1, OneRequest
<1> QED
  BY <1>2, <1>3

\* The invariant says what is claimed of two active sides.
LEMMA HandshakeInvAgrees ==
  ASSUME PeerTypes, HandshakeInv
  PROVE  ActiveAgree /\ NoStuckHalf
<1> USE DEF HandshakeInv
<1>0. /\ \A n, x : Accept(n, x) \/ Request(n, x) => n \in Int
      /\ \A n, x : Accept(n, x) \/ Request(n, x) => wire[n].rid \in Int
  <2>1. Len(wire) \in Nat /\ \A n \in 1..Len(wire) : wire[n] \in Envelope
    BY DEF PeerTypes
  <2> QED
    BY <2>1 DEF Accept, Request, Envelope
<1>1. \A x \in Sides : peer[x].dir \in {"none", "outbound", "inbound"}
  BY DEF PeerTypes, PeerRow
\* Both asked: each acceptance would be older than the request of its own side.
<1>2. ASSUME NEW x \in Sides, NEW y \in Sides, y = Other(x), x = Other(y), x # y,
             peer[x].status = "active", peer[y].status = "active",
             peer[x].dir = "outbound", peer[y].dir = "outbound"
      PROVE  FALSE
  <2>1. PICK k : Request(k, x) /\ wire[k].rid = peer[x].rid /\ \A n : Request(n, x) \/ Accept(n, x) => n <= k
    BY <1>2 DEF RowInv, RowOk
  <2>2. PICK j : Request(j, y) /\ wire[j].rid = peer[y].rid /\ \A n : Request(n, y) \/ Accept(n, y) => n <= j
    BY <1>2 DEF RowInv, RowOk
  <2>3. PICK a : Accept(a, y) /\ wire[a].rid = peer[x].rid
    BY <1>2 DEF ActiveInv, ActiveOk
  <2>4. PICK b : Accept(b, x) /\ wire[b].rid = peer[y].rid
    BY <1>2 DEF ActiveInv, ActiveOk
  <2>5. k < a
    <3>1. PICK i : Request(i, x) /\ i < a /\ wire[i].rid = wire[a].rid
      BY <1>2, <2>3 DEF WireInv
    <3> QED
      BY <1>2, <2>1, <2>3, <3>1, OneRequest, ZenonT(40)
  <2>6. j < b
    <3>1. PICK i : Request(i, y) /\ i < b /\ wire[i].rid = wire[b].rid
      BY <1>2, <2>4, ZenonT(40) DEF WireInv
    <3> QED
      BY <1>2, <2>2, <2>4, <3>1, OneRequest, ZenonT(40)
  <2>7. a <= j /\ b <= k /\ a \in Int /\ b \in Int /\ j \in Int /\ k \in Int
    BY <1>0, <2>1, <2>2, <2>3, <2>4
  <2> QED
    BY <2>5, <2>6, <2>7
\* One asked, the other accepted: the last acceptance is that of the last request.
<1>3. ASSUME NEW x \in Sides, NEW y \in Sides, y = Other(x), x = Other(y), x # y,
             peer[x].status = "active", peer[y].status = "active",
             peer[x].dir = "outbound", peer[y].dir = "inbound"
      PROVE  peer[x].rid = peer[y].rid /\ peer[x].agreed = peer[y].agreed
  <2>1. PICK k : Request(k, x) /\ wire[k].rid = peer[x].rid /\ \A n : Request(n, x) \/ Accept(n, x) => n <= k
    BY <1>3 DEF RowInv, RowOk
  <2>2. PICK a : Accept(a, y) /\ wire[a].rid = peer[x].rid
    BY <1>3 DEF ActiveInv, ActiveOk
  <2>3. PICK b : LastAccept(b, y) /\ wire[b].rid = peer[y].rid /\ Good(b)
    BY <1>3 DEF ActiveInv, ActiveOk
  <2>4. PICK i : Request(i, x) /\ i < a /\ wire[i].rid = wire[a].rid
    BY <1>3, <2>2 DEF WireInv
  <2>5. i = k
    BY <1>3, <2>1, <2>2, <2>4, OneRequest
  <2>6. PICK j : Request(j, x) /\ j < b /\ wire[j].rid = wire[b].rid
    BY <1>3, <2>3, ZenonT(40) DEF WireInv, LastAccept
  <2>7. a <= b /\ Accept(b, y)
    BY <2>2, <2>3 DEF LastAccept
  <2>8. wire[k].rid <= wire[b].rid
    <3>1. k < b
      BY <1>0, <2>1, <2>2, <2>4, <2>5, <2>7
    <3>2. Other(wire[b].from) = x
      BY <1>3, <2>7 DEF Accept
    <3> QED
      BY <2>1, <2>3, <3>1, <3>2 DEF Good
  <2>9. wire[j].rid <= wire[k].rid
    <3>1. j <= k /\ j \in Int /\ k \in Int /\ wire[j].rid \in Int /\ wire[k].rid \in Int
      BY <1>0, <2>1, <2>6
    <3>2. CASE j < k
      <4>1. wire[j].rid < wire[k].rid
        BY <3>2, <2>1, <2>6, Zenon DEF WireInv
      <4> QED
        BY <3>1, <4>1
    <3>3. CASE j = k
      BY <3>1, <3>3
    <3> QED
      BY <3>1, <3>2, <3>3
  <2>10. wire[k].rid = wire[b].rid
    <3>1. wire[k].rid \in Int /\ wire[b].rid \in Int
      BY <1>0, <2>1, <2>7
    <3> QED
      BY <3>1, <2>6, <2>8, <2>9
  <2>11. peer[x].agreed = Agreed(y, peer[x].rid) /\ peer[y].agreed = Agreed(y, peer[y].rid)
    BY <1>3 DEF ActiveInv, ActiveOk
  <2> QED
    BY <2>1, <2>3, <2>10, <2>11, ZenonT(40)
\* Both accepted: each acceptance would be later than the other.
<1>4. ASSUME NEW x \in Sides, NEW y \in Sides, y = Other(x), x = Other(y), x # y,
             peer[x].status = "active", peer[y].status = "active",
             peer[x].dir = "inbound", peer[y].dir = "inbound"
      PROVE  FALSE
  <2>1. PICK a : LastAccept(a, x) /\ wire[a].rid = peer[x].rid /\ Good(a)
    BY <1>4 DEF ActiveInv, ActiveOk
  <2>2. PICK b : LastAccept(b, y) /\ wire[b].rid = peer[y].rid /\ Good(b)
    BY <1>4 DEF ActiveInv, ActiveOk
  <2>3. Accept(a, x) /\ Accept(b, y) /\ Other(wire[a].from) = y /\ Other(wire[b].from) = x
    BY <1>4, <2>1, <2>2, ZenonT(40) DEF LastAccept, Accept
  <2>4. b > a
    BY <1>4, <2>1, <2>2, <2>3, ZenonT(40) DEF Good
  <2>5. a > b
    BY <1>4, <2>1, <2>2, <2>3 DEF Good
  <2> QED
    BY <1>0, <2>3, <2>4, <2>5
<1>5. ActiveAgree
  <2> SUFFICES ASSUME NEW x \in Sides, NEW y \in Sides, x # y, peer[x].status = "active", peer[y].status = "active"
               PROVE  peer[x].rid = peer[y].rid /\ peer[x].dir # peer[y].dir /\ peer[x].agreed = peer[y].agreed
    BY DEF ActiveAgree
  <2>1. y = Other(x) /\ x = Other(y)
    BY OtherSide
  <2>2. peer[x].dir \in {"outbound", "inbound"} /\ peer[y].dir \in {"outbound", "inbound"}
    BY <1>1 DEF RowInv, RowOk
  <2>3. CASE peer[x].dir = "outbound" /\ peer[y].dir = "outbound"
    BY <1>2, <2>1, <2>3
  <2>4. CASE peer[x].dir = "outbound" /\ peer[y].dir = "inbound"
    BY <1>3, <2>1, <2>4
  <2>5. CASE peer[x].dir = "inbound" /\ peer[y].dir = "outbound"
    BY <1>3, <2>1, <2>5
  <2>6. CASE peer[x].dir = "inbound" /\ peer[y].dir = "inbound"
    BY <1>4, <2>1, <2>6
  <2> QED
    BY <2>2, <2>3, <2>4, <2>5, <2>6
<1>6. NoStuckHalf
  <2> SUFFICES ASSUME NEW x \in Sides, NEW y \in Sides, x # y, peer[x].status = "active", peer[x].rid = peer[y].rid,
                      peer[y].status = "pending_outbound"
               PROVE  FALSE
    BY DEF NoStuckHalf
  <2>1. y = Other(x) /\ x = Other(y)
    BY OtherSide
  <2>2. peer[y].dir = "outbound" /\ peer[x].dir # "none"
    BY DEF RowInv, RowOk
  <2>3. PICK k : Request(k, y) /\ wire[k].rid = peer[y].rid
    BY <2>2 DEF RowInv, RowOk
  <2>4. peer[x].dir = "inbound"
    BY <1>1, <2>1, <2>2, <2>3, Directions
  <2>5. PICK a : LastAccept(a, x) /\ wire[a].rid = peer[x].rid /\ Good(a)
    BY <2>4 DEF ActiveInv, ActiveOk
  <2>6. Other(wire[a].from) = y
    BY <2>1, <2>5 DEF LastAccept, Accept
  <2> QED
    BY <2>5, <2>6 DEF Good
<1> QED
  BY <1>5, <1>6

NoNewAccept(x) == \A n : Accept(n, x)' => n \in 1..Len(wire)
NoNewRequest(x) == \A n : Request(n, x)' => n \in 1..Len(wire)
HandledStays == \A k \in 1..Len(wire) : handled[k] # 0 => handled'[k] # 0
GoodStays == \A y \in Sides : \A n : Accept(n, y) /\ Good(n) => Good(n)'

\* Nothing new on the wire.
LEMMA WireKept ==
  ASSUME PeerTypes, WireInv, Grows, HandledStays, rids' = rids,
         \A x \in Sides : NoNewAccept(x) /\ NoNewRequest(x)
  PROVE  WireInv'
<1>1. \A n, x : /\ Accept(n, x) => Accept(n, x)' /\ wire'[n] = wire[n] /\ n \in 1..Len(wire)
                /\ Request(n, x) => Request(n, x)' /\ wire'[n] = wire[n] /\ n \in 1..Len(wire)
                /\ Accept(n, x)' /\ n \in 1..Len(wire) => Accept(n, x)
                /\ Request(n, x)' /\ n \in 1..Len(wire) => Request(n, x)
  BY GrowsKeeps
<1>2. \A x \in Sides : \A n : (Accept(n, x)' <=> Accept(n, x)) /\ (Request(n, x)' <=> Request(n, x))
  BY <1>1, Zenon DEF NoNewAccept, NoNewRequest
<1>3. \A x \in Sides : \A k : Request(k, x)' => wire'[k].rid \in 1..rids'
  BY <1>1, <1>2 DEF WireInv
<1>4. \A x, y \in Sides : \A j, k : Request(j, x)' /\ Request(k, y)' /\ j < k => wire'[j].rid < wire'[k].rid
  <2> SUFFICES ASSUME NEW x \in Sides, NEW y \in Sides, NEW j, NEW k, Request(j, x)', Request(k, y)', j < k
               PROVE  wire'[j].rid < wire'[k].rid
    OBVIOUS
  <2>1. Request(j, x) /\ Request(k, y) /\ wire'[j] = wire[j] /\ wire'[k] = wire[k]
    BY <1>1, <1>2
  <2>2. wire[j].rid < wire[k].rid
    BY <2>1, Zenon DEF WireInv
  <2> QED
    BY <2>1, <2>2
<1>5. ASSUME NEW x \in Sides, NEW n, Accept(n, x)'
      PROVE  \E k : Request(k, Other(x))' /\ k < n /\ wire'[k].rid = wire'[n].rid /\ handled'[k] # 0
  <2>1. Accept(n, x) /\ wire'[n] = wire[n]
    BY <1>1, <1>2, <1>5
  <2>2. PICK k : Request(k, Other(x)) /\ k < n /\ wire[k].rid = wire[n].rid /\ handled[k] # 0
    BY <2>1 DEF WireInv
  <2>3. Request(k, Other(x))' /\ wire'[k] = wire[k] /\ handled'[k] # 0
    BY <1>1, <2>2 DEF HandledStays
  <2> QED
    BY <2>1, <2>2, <2>3
<1> QED
  BY <1>3, <1>4, <1>5 DEF WireInv

\* A row that keeps its direction and its id.
LEMMA RowKept ==
  ASSUME PeerTypes, Grows, HandledStays, NEW x \in Sides, RowOk(x),
         peer'[x].dir = peer[x].dir, peer'[x].rid = peer[x].rid,
         peer'[x].status \in {"pending_outbound", "pending_inbound"} => peer'[x].status = peer[x].status,
         peer'[x].status = "active" => peer[x].dir # "none",
         peer[x].dir = "outbound" => NoNewAccept(x) /\ NoNewRequest(x)
  PROVE  RowOk(x)'
<1>1. \A n, z : /\ Accept(n, z) => Accept(n, z)' /\ wire'[n] = wire[n] /\ n \in 1..Len(wire)
                /\ Request(n, z) => Request(n, z)' /\ wire'[n] = wire[n] /\ n \in 1..Len(wire)
                /\ Accept(n, z)' /\ n \in 1..Len(wire) => Accept(n, z)
                /\ Request(n, z)' /\ n \in 1..Len(wire) => Request(n, z)
  BY GrowsKeeps
<1>2. ASSUME peer[x].dir = "outbound"
      PROVE  \E k : /\ Request(k, x)' /\ wire'[k].rid = peer'[x].rid
                    /\ \A n : Request(n, x)' \/ Accept(n, x)' => n <= k
  <2>1. PICK k : /\ Request(k, x) /\ wire[k].rid = peer[x].rid
                 /\ \A n : Request(n, x) \/ Accept(n, x) => n <= k
    BY <1>2 DEF RowOk
  <2>2. \A n : (Accept(n, x)' <=> Accept(n, x)) /\ (Request(n, x)' <=> Request(n, x))
    BY <1>1, <1>2, Zenon DEF NoNewAccept, NoNewRequest
  <2> QED
    BY <1>1, <2>1, <2>2
<1>3. ASSUME peer[x].dir = "inbound"
      PROVE  \E k : Request(k, Other(x))' /\ wire'[k].rid = peer'[x].rid /\ handled'[k] # 0
  <2>1. PICK k : Request(k, Other(x)) /\ wire[k].rid = peer[x].rid /\ handled[k] # 0
    BY <1>3 DEF RowOk
  <2> QED
    BY <1>1, <2>1 DEF HandledStays
<1>4. /\ peer'[x].status = "pending_outbound" => peer'[x].dir = "outbound"
      /\ peer'[x].status = "pending_inbound" => peer'[x].dir = "inbound"
      /\ peer'[x].status = "active" => peer'[x].dir # "none"
  BY DEF RowOk
<1> QED
  BY <1>2, <1>3, <1>4 DEF RowOk

\* The last acceptance stays the last.
LEMMA LastKept ==
  ASSUME PeerTypes, Grows, NEW x \in Sides, NoNewAccept(x), NEW n, LastAccept(n, x)
  PROVE  LastAccept(n, x)' /\ wire'[n] = wire[n] /\ n \in 1..Len(wire)
<1>1. \A m : /\ Accept(m, x) => Accept(m, x)' /\ wire'[m] = wire[m] /\ m \in 1..Len(wire)
             /\ Accept(m, x)' /\ m \in 1..Len(wire) => Accept(m, x)
  BY GrowsKeeps
<1> QED
  BY <1>1 DEF LastAccept, NoNewAccept

\* A row that does not change.
LEMMA ActiveKept ==
  ASSUME PeerTypes, Grows, GoodStays, NEW x \in Sides, ActiveOk(x), peer'[x] = peer[x], NoNewAccept(x)
  PROVE  ActiveOk(x)'
<1> SUFFICES ASSUME peer[x].status = "active"
             PROVE  /\ peer[x].dir = "outbound" =>
                         /\ peer[x].agreed = Agreed(Other(x), peer[x].rid)
                         /\ \E n : Accept(n, Other(x))' /\ wire'[n].rid = peer[x].rid
                    /\ peer[x].dir = "inbound" =>
                         /\ peer[x].agreed = Agreed(x, peer[x].rid)
                         /\ \E n : LastAccept(n, x)' /\ wire'[n].rid = peer[x].rid /\ Good(n)'
  BY DEF ActiveOk, Agreed
<1>1. CASE peer[x].dir = "outbound"
  <2>1. PICK n : Accept(n, Other(x)) /\ wire[n].rid = peer[x].rid
    BY <1>1 DEF ActiveOk
  <2>2. Accept(n, Other(x))' /\ wire'[n] = wire[n]
    BY <2>1, GrowsKeeps
  <2> QED
    BY <1>1, <2>1, <2>2 DEF ActiveOk
<1>2. CASE peer[x].dir = "inbound"
  <2>1. PICK n : LastAccept(n, x) /\ wire[n].rid = peer[x].rid /\ Good(n)
    BY <1>2 DEF ActiveOk
  <2>2. LastAccept(n, x)' /\ wire'[n] = wire[n] /\ n \in 1..Len(wire)
    BY <2>1, LastKept
  <2>3. Good(n)'
    BY <2>1 DEF GoodStays, LastAccept
  <2> QED
    BY <1>2, <2>1, <2>2, <2>3 DEF ActiveOk
<1> QED
  BY <1>1, <1>2

\* An operator who goes on waiting, or has stopped.
LEMMA OpKept ==
  ASSUME PeerTypes, Grows, GoodStays, NEW x \in Sides, OpOk(x), NoNewAccept(x),
         op'[x].pc = "accepting" => op'[x] = op[x],
         \A n : Accept(n, x) /\ answer'[n] = 200 => answer[n] = 200
  PROVE  OpOk(x)'
<1>1. CASE op'[x].pc # "accepting"
  BY <1>1 DEF OpOk
<1>2. CASE op'[x].pc = "accepting"
  <2>1. PICK n : n = op[x].n
    OBVIOUS
  <2>2. LastAccept(n, x) /\ wire[n].rid = op[x].rid /\ (answer[n] = 200 => Good(n))
    BY <1>2, <2>1 DEF OpOk
  <2>3. LastAccept(n, x)' /\ wire'[n] = wire[n] /\ n \in 1..Len(wire) /\ Accept(n, x)
    BY <2>2, LastKept DEF LastAccept
  <2>4. answer'[n] = 200 => Good(n)'
    BY <2>2, <2>3 DEF GoodStays
  <2>5. op'[x].n = n /\ op'[x].rid = op[x].rid
    BY <1>2, <2>1
  <2> QED
    BY <2>2, <2>3, <2>4, <2>5 DEF OpOk
<1> QED
  BY <1>1, <1>2

\* Every callback that the asking side has answered stays good.
LEMMA AllGoodKept ==
  ASSUME PeerTypes, WireInv, Grows,
         \A x \in Sides :
           \/ /\ peer'[x].status = "pending_outbound" => peer[x].status = "pending_outbound"
              /\ peer'[x].dir = "inbound" => peer[x].dir = "inbound"
              /\ peer'[x].dir # "none" => peer'[x].rid = peer[x].rid
              /\ peer'[x].status = "pending_outbound" => peer'[x].dir # "none"
           \/ /\ peer'[x].dir = "outbound"
              /\ \A n : Accept(n, Other(x)) => wire[n].rid # peer'[x].rid
           \/ /\ peer'[x].status # "pending_outbound"
              /\ \A n : Accept(n, x) => wire[n].rid # peer'[x].rid
  PROVE  GoodStays
<1> SUFFICES ASSUME NEW n, NEW y \in Sides, Accept(n, y), Good(n) PROVE Good(n)'
  BY DEF GoodStays
<1> DEFINE x == Other(y)
<1>1. n \in 1..Len(wire) /\ wire[n].from = y /\ x \in Sides /\ Other(x) = y
  BY OtherSide DEF Accept
<1>2. /\ peer'[x].status = "pending_outbound" =>
           \/ peer[x].status = "pending_outbound" /\ peer'[x].rid = peer[x].rid
           \/ peer'[x].rid # wire[n].rid
      /\ peer'[x].dir = "inbound" =>
           \/ peer[x].dir = "inbound" /\ peer'[x].rid = peer[x].rid
           \/ \A m : Accept(m, x) => wire[m].rid # peer'[x].rid
  BY <1>1
<1> QED
  BY <1>1, <1>2, GoodKept

\* A step that sends no request and no acceptance, and makes no row active or pending.
LEMMA QuietStep ==
  ASSUME PeerTypes, HandshakeInv, Grows, HandledStays, rids' = rids,
         \A x \in Sides : NoNewAccept(x) /\ NoNewRequest(x),
         \A x \in Sides : op'[x].pc = "accepting" => op'[x] = op[x],
         \A x \in Sides, n \in 1..Len(wire) : Accept(n, x) /\ answer'[n] = 200 => answer[n] = 200,
         \A x \in Sides :
           \/ peer'[x] = peer[x]
           \/ /\ peer'[x].dir = peer[x].dir /\ peer'[x].rid = peer[x].rid
              /\ peer'[x].status \in {"rejected", "terminated"}
           \/ peer'[x] = NoPeer
  PROVE  HandshakeInv'
<1> USE DEF HandshakeInv
<1>1. WireInv'
  BY WireKept
<1>2. GoodStays
  <2>1. ASSUME NEW x \in Sides
        PROVE  /\ peer'[x].status = "pending_outbound" => peer[x].status = "pending_outbound"
               /\ peer'[x].dir = "inbound" => peer[x].dir = "inbound"
               /\ peer'[x].dir # "none" => peer'[x].rid = peer[x].rid
               /\ peer'[x].status = "pending_outbound" => peer'[x].dir # "none"
    BY DEF NoPeer, RowInv, RowOk
  <2> QED
    BY <2>1, AllGoodKept
<1>3. ASSUME NEW x \in Sides PROVE RowOk(x)' /\ ActiveOk(x)' /\ OpOk(x)'
  <2>1. RowOk(x) /\ ActiveOk(x) /\ OpOk(x)
    BY DEF RowInv, ActiveInv, OpInv
  <2>2. OpOk(x)'
    <3>1. \A n : Accept(n, x) /\ answer'[n] = 200 => answer[n] = 200
      BY DEF Accept
    <3> QED
      BY <1>2, <2>1, <3>1, OpKept
  <2>3. CASE peer'[x] = peer[x]
    <3>1. RowOk(x)'
      BY <2>1, <2>3, RowKept, ZenonT(40) DEF RowOk
    <3> QED
      BY <1>2, <2>1, <2>2, <2>3, <3>1, ActiveKept, ZenonT(40)
  <2>4. CASE /\ peer'[x].dir = peer[x].dir /\ peer'[x].rid = peer[x].rid
             /\ peer'[x].status \in {"rejected", "terminated"}
    <3>1. RowOk(x)'
      BY <2>1, <2>4, RowKept, ZenonT(40)
    <3> QED
      BY <2>2, <2>4, <3>1, ZenonT(40) DEF ActiveOk
  <2>5. CASE peer'[x] = NoPeer
    <3>1. peer'[x].dir = "none" /\ peer'[x].status = "none"
      BY <2>5, NoPeerFields, Zenon
    <3> QED
      BY <2>2, <3>1, ZenonT(40) DEF ActiveOk, RowOk
  <2> QED
    BY <2>3, <2>4, <2>5
<1> QED
  BY <1>1, <1>3 DEF RowInv, ActiveInv, OpInv

\* operator_initiate_peer_request(): a new id, which nobody has accepted.
LEMMA InitiateStep ==
  ASSUME PeerTypes, HandshakeInv, NEW x \in Sides, OperatorInitiate(x)
  PROVE  HandshakeInv'
<1> USE DEF HandshakeInv
<1> DEFINE L == Len(wire)
           e == [kind |-> "request", from |-> x, rid |-> rids + 1]
           y == Other(x)
<1>0. rids \in Nat /\ rids' = rids + 1 /\ rids + 1 \in Nat /\ y \in Sides /\ y # x /\ Other(y) = x
  BY OtherSide DEF PeerTypes, OperatorInitiate
<1>1. Send("request", x, rids + 1)
  BY DEF OperatorInitiate
<1>2. /\ L \in Nat /\ Len(wire') = L + 1 /\ wire'[L + 1] = e
      /\ \A n \in 1..L : wire'[n] = wire[n] /\ n \in 1..Len(wire')
      /\ \A n, z : Accept(n, z)' <=> Accept(n, z)
      /\ \A n, z : Request(n, z)' <=> Request(n, z) \/ (n = L + 1 /\ z = x)
  BY <1>0, <1>1, SentRequest, Zenon
<1>3. /\ peer'[x].status = "pending_outbound" /\ peer'[x].dir = "outbound" /\ peer'[x].rid = rids + 1
      /\ peer'[y] = peer[y]
  BY <1>0 DEF OperatorInitiate, PeerTypes, PeerRow
<1>4. UNCHANGED <<op, answer, handled>>
  BY DEF OperatorInitiate
<1> HIDE DEF e, y
<1>5. Grows /\ HandledStays
  BY <1>2, <1>4 DEF Grows, HandledStays
<1>6. /\ \A z : NoNewAccept(z) /\ NoNewRequest(y)
      /\ \A n, z : Accept(n, z) \/ Request(n, z) => n \in 1..L
  BY <1>0, <1>2, ZenonT(40) DEF NoNewAccept, NoNewRequest, Accept, Request
<1>7. \A n : \A z \in Sides : Accept(n, z) \/ Request(n, z) => wire[n].rid \in 1..rids
  <2>1. \A k : \A z \in Sides : Request(k, z) => wire[k].rid \in 1..rids
    BY DEF WireInv
  <2>2. ASSUME NEW n, NEW z \in Sides, Accept(n, z) PROVE wire[n].rid \in 1..rids
    <3>1. PICK k : Request(k, Other(z)) /\ wire[k].rid = wire[n].rid
      BY <2>2 DEF WireInv
    <3> QED
      BY <2>1, <3>1, OtherSide
  <2> QED
    BY <2>1, <2>2
<1>8. WireInv'
  <2>1. \A z \in Sides : \A k : Request(k, z)' => wire'[k].rid \in 1..rids'
    <3> SUFFICES ASSUME NEW z \in Sides, NEW k, Request(k, z)' PROVE wire'[k].rid \in 1..rids'
      OBVIOUS
    <3>1. CASE Request(k, z)
      <4>1. wire'[k] = wire[k] /\ wire[k].rid \in 1..rids
        BY <1>2, <1>6, <1>7, <3>1
      <4> QED
        BY <1>0, <4>1
    <3>2. CASE k = L + 1
      BY <1>0, <1>2, <3>2 DEF e
    <3> QED
      BY <1>2, <3>1, <3>2
  <2>2. ASSUME NEW u \in Sides, NEW v \in Sides, NEW j, NEW k, Request(j, u)', Request(k, v)', j < k
        PROVE  wire'[j].rid < wire'[k].rid
    <3>1. k \in 1..(L + 1) /\ j \in 1..(L + 1)
      BY <1>2, <1>6, <2>2
    <3>2. Request(j, u) /\ wire'[j] = wire[j] /\ wire[j].rid \in 1..rids
      BY <1>2, <1>6, <1>7, <2>2, <3>1
    <3>3. CASE k = L + 1
      BY <1>0, <1>2, <3>2, <3>3 DEF e
    <3>4. CASE Request(k, v)
      <4>1. wire[j].rid < wire[k].rid
        BY <2>2, <3>2, <3>4, Zenon DEF WireInv
      <4> QED
        BY <1>2, <1>6, <3>2, <3>4, <4>1
    <3> QED
      BY <1>2, <2>2, <3>3, <3>4
  <2>3. ASSUME NEW z \in Sides, NEW n, Accept(n, z)'
        PROVE  \E k : Request(k, Other(z))' /\ k < n /\ wire'[k].rid = wire'[n].rid /\ handled'[k] # 0
    <3>1. PICK k : Request(k, Other(z)) /\ k < n /\ wire[k].rid = wire[n].rid /\ handled[k] # 0
      BY <1>2, <2>3 DEF WireInv
    <3>2. wire'[k] = wire[k] /\ wire'[n] = wire[n] /\ Request(k, Other(z))' /\ handled'[k] # 0
      BY <1>2, <1>4, <1>6, <2>3, <3>1
    <3> QED
      BY <3>1, <3>2
  <2> QED
    BY <2>1, <2>2, <2>3 DEF WireInv
<1>9. GoodStays
  <2>1. \A n : Accept(n, y) => wire[n].rid # peer'[x].rid
    BY <1>0, <1>3, <1>7
  <2>2. /\ peer'[y].status = "pending_outbound" => peer'[y].dir # "none"
    BY <1>0, <1>3 DEF RowInv, RowOk
  <2>3. \A z \in Sides : z = x \/ z = y
    BY OtherSide DEF y
  <2>4. y = Other(x)
    BY DEF y
  <2>5. ASSUME NEW z \in Sides
        PROVE  \/ /\ peer'[z].status = "pending_outbound" => peer[z].status = "pending_outbound"
                  /\ peer'[z].dir = "inbound" => peer[z].dir = "inbound"
                  /\ peer'[z].dir # "none" => peer'[z].rid = peer[z].rid
                  /\ peer'[z].status = "pending_outbound" => peer'[z].dir # "none"
               \/ /\ peer'[z].dir = "outbound"
                  /\ \A n : Accept(n, Other(z)) => wire[n].rid # peer'[z].rid
    <3>1. CASE z = x
      BY <1>3, <2>1, <2>4, <3>1
    <3>2. CASE z = y
      BY <1>3, <2>2, <3>2
    <3> QED
      BY <2>3, <3>1, <3>2
  <2> QED
    BY <1>5, <2>5, AllGoodKept
<1>10. RowOk(x)'
  <2>0. PICK k : k = L + 1
    OBVIOUS
  <2>1. Request(k, x)' /\ wire'[k].rid = peer'[x].rid
    BY <1>2, <1>3, <2>0 DEF e
  <2>2. \A n : Request(n, x)' \/ Accept(n, x)' => n <= k
    BY <1>2, <1>6, <2>0
  <2> QED
    BY <1>3, <2>1, <2>2 DEF RowOk
<1>11. RowOk(y)'
  BY <1>0, <1>3, <1>5, <1>6, RowKept DEF RowInv, RowOk
<1>12. ActiveOk(x)' /\ ActiveOk(y)'
  <2>1. ActiveOk(x)'
    BY <1>3 DEF ActiveOk
  <2>2. ActiveOk(y)'
    BY <1>0, <1>3, <1>5, <1>6, <1>9, ActiveKept DEF ActiveInv
  <2> QED
    BY <2>1, <2>2
<1>13. \A z \in Sides : OpOk(z)'
  BY <1>4, <1>5, <1>6, <1>9, OpKept DEF OpInv
<1>14. \A z \in Sides : z = x \/ z = y
  BY OtherSide DEF y
<1> QED
  BY <1>8, <1>10, <1>11, <1>12, <1>13, <1>14 DEF RowInv, ActiveInv, OpInv

\* operator_accept_peer_request(): the callback is the latest, and not answered yet.
LEMMA AcceptStep ==
  ASSUME PeerTypes, HandshakeInv, NEW x \in Sides, OperatorAccept(x)
  PROVE  HandshakeInv'
<1> USE DEF HandshakeInv
<1>a. PICK k0 : k0 = Len(wire) + 1
  OBVIOUS
<1> DEFINE e == [kind |-> "accept", from |-> x, rid |-> peer[x].rid]
           y == Other(x)
<1>0. y \in Sides /\ y # x /\ Other(y) = x /\ peer[x].rid \in Nat /\ peer[x].status = "pending_inbound" /\ peer[x].dir = "inbound"
  BY OtherSide DEF PeerTypes, PeerRow, OperatorAccept, RowInv, RowOk
<1>1. wire' = Append(wire, e) /\ e \in Envelope /\ k0 \in 1..MaxSent
  BY <1>a, <1>0, SendTypes DEF OperatorAccept
<1>2. /\ Len(wire) \in Nat /\ Len(wire') = k0 /\ wire'[k0] = e
      /\ \A n \in 1..Len(wire) : wire'[n] = wire[n] /\ n \in 1..Len(wire')
      /\ \A n, z : Accept(n, z)' <=> Accept(n, z) \/ (n = k0 /\ z = x)
      /\ \A n, z : Request(n, z)' <=> Request(n, z)
  BY <1>a, <1>1, Sent
<1>3. /\ UNCHANGED <<peer, answer, handled, rids>>
      /\ op'[x] = [pc |-> "accepting", n |-> k0, rid |-> peer[x].rid] /\ op'[y] = op[y]
  BY <1>a, <1>0 DEF OperatorAccept, Flips, Waiting, PeerTypes
<1> HIDE DEF e, y
<1>5. Grows /\ HandledStays
  BY <1>a, <1>2, <1>3 DEF Grows, HandledStays
<1>6. /\ NoNewAccept(y) /\ \A z : NoNewRequest(z)
      /\ \A n, z : Accept(n, z) \/ Request(n, z) => n \in 1..Len(wire) /\ wire'[n] = wire[n] /\ n < k0 /\ n \in Int
  BY <1>a, <1>0, <1>2 DEF NoNewAccept, NoNewRequest, Accept, Request
<1>7. WireInv'
  <2>1. \A z \in Sides : \A k : Request(k, z)' => wire'[k].rid \in 1..rids'
    BY <1>2, <1>3, <1>6 DEF WireInv
  <2>2. ASSUME NEW u \in Sides, NEW v \in Sides, NEW j, NEW k, Request(j, u)', Request(k, v)', j < k
        PROVE  wire'[j].rid < wire'[k].rid
    <3>1. Request(j, u) /\ Request(k, v) /\ wire'[j] = wire[j] /\ wire'[k] = wire[k]
      BY <1>2, <1>6, <2>2
    <3>2. wire[j].rid < wire[k].rid
      BY <2>2, <3>1, Zenon DEF WireInv
    <3> QED
      BY <3>1, <3>2
  <2>3. ASSUME NEW z \in Sides, NEW n, Accept(n, z)'
        PROVE  \E k : Request(k, Other(z))' /\ k < n /\ wire'[k].rid = wire'[n].rid /\ handled'[k] # 0
    <3>1. CASE Accept(n, z)
      <4>1. PICK k : Request(k, Other(z)) /\ k < n /\ wire[k].rid = wire[n].rid /\ handled[k] # 0
        BY <3>1 DEF WireInv
      <4>2. wire'[k] = wire[k] /\ wire'[n] = wire[n] /\ Request(k, Other(z))' /\ handled'[k] # 0
        BY <1>2, <1>3, <1>6, <3>1, <4>1
      <4> QED
        BY <4>1, <4>2
    <3>2. CASE n = k0 /\ z = x
      <4>1. PICK k : Request(k, Other(x)) /\ wire[k].rid = peer[x].rid /\ handled[k] # 0
        BY <1>0 DEF RowInv, RowOk
      <4>2. wire'[k] = wire[k] /\ k < k0
        BY <1>6, <4>1
      <4>3. Request(k, Other(z))' /\ handled'[k] # 0
        BY <1>2, <1>3, <3>2, <4>1, Zenon
      <4>4. wire'[n].rid = peer[x].rid
        BY <1>2, <3>2 DEF e
      <4> QED
        BY <3>2, <4>1, <4>2, <4>3, <4>4
    <3> QED
      BY <1>2, <2>3, <3>1, <3>2
  <2> QED
    BY <2>1, <2>2, <2>3 DEF WireInv
<1>8. GoodStays
  <2>1. ASSUME NEW z \in Sides
        PROVE  /\ peer'[z].status = "pending_outbound" => peer[z].status = "pending_outbound"
               /\ peer'[z].dir = "inbound" => peer[z].dir = "inbound"
               /\ peer'[z].dir # "none" => peer'[z].rid = peer[z].rid
               /\ peer'[z].status = "pending_outbound" => peer'[z].dir # "none"
    BY <1>3 DEF RowInv, RowOk
  <2> QED
    BY <1>5, <2>1, AllGoodKept
<1>9. RowOk(x)' /\ RowOk(y)'
  <2>1. RowOk(x)'
    BY <1>0, <1>3, <1>5, RowKept, ZenonT(40) DEF RowInv
  <2>2. RowOk(y)'
    BY <1>0, <1>3, <1>5, <1>6, RowKept, ZenonT(40) DEF RowInv, RowOk
  <2> QED
    BY <2>1, <2>2
<1>10. ActiveOk(x)' /\ ActiveOk(y)'
  <2>1. ActiveOk(x)'
    BY <1>0, <1>3, ZenonT(40) DEF ActiveOk
  <2>2. ActiveOk(y)'
    BY <1>0, <1>3, <1>5, <1>6, <1>8, ActiveKept, ZenonT(40) DEF ActiveInv
  <2> QED
    BY <2>1, <2>2
<1>11. OpOk(x)'
  <2>1. LastAccept(k0, x)'
    <3>1. Accept(k0, x)' /\ \A m : Accept(m, x)' => m <= k0
      BY <1>a, <1>2, <1>6
    <3> QED
      BY <3>1 DEF LastAccept
  <2>2. answer'[k0] # 200
    BY <1>a, <1>1, <1>2, <1>3 DEF PeerTypes
  <2>3. op'[x].n = k0 /\ op'[x].rid = peer[x].rid /\ wire'[k0].rid = peer[x].rid
    BY <1>2, <1>3 DEF e
  <2> QED
    BY <2>1, <2>2, <2>3 DEF OpOk
<1>12. OpOk(y)'
  BY <1>0, <1>3, <1>5, <1>6, <1>8, OpKept DEF OpInv
<1>13. \A z \in Sides : z = x \/ z = y
  BY OtherSide DEF y
<1> QED
  BY <1>7, <1>9, <1>10, <1>11, <1>12, <1>13 DEF RowInv, ActiveInv, OpInv

\* Steps that send nothing: a frame for the steps that change one row.
LEMMA SilentFrame ==
  ASSUME PeerTypes, HandshakeInv, wire' = wire, rids' = rids, HandledStays,
         NEW x \in Sides, peer'[Other(x)] = peer[Other(x)], GoodStays,
         \A z \in Sides : op'[z].pc = "accepting" => op'[z] = op[z],
         \A z \in Sides, n \in 1..Len(wire) : Accept(n, z) /\ answer'[n] = 200 => answer[n] = 200 \/ Good(n)',
         RowOk(x)', ActiveOk(x)'
  PROVE  HandshakeInv'
<1> USE DEF HandshakeInv
<1>0. Other(x) \in Sides /\ \A z \in Sides : z = x \/ z = Other(x)
  BY OtherSide
<1>1. Grows /\ \A z : NoNewAccept(z) /\ NoNewRequest(z)
  BY DEF Grows, NoNewAccept, NoNewRequest, Accept, Request, PeerTypes
<1>2. WireInv'
  BY <1>1, WireKept, ZenonT(40)
<1>3. RowOk(Other(x))'
  BY <1>0, <1>1, RowKept, ZenonT(40) DEF RowInv, RowOk
<1>4. ActiveOk(Other(x))'
  BY <1>0, <1>1, ActiveKept DEF ActiveInv
<1>5. ASSUME NEW z \in Sides PROVE OpOk(z)'
  <2>1. CASE op'[z].pc # "accepting"
    BY <2>1 DEF OpOk
  <2>2. CASE op'[z].pc = "accepting"
    <3>1. PICK n : n = op[z].n
      OBVIOUS
    <3>2. LastAccept(n, z) /\ wire[n].rid = op[z].rid /\ (answer[n] = 200 => Good(n))
      BY <2>2, <3>1 DEF OpInv, OpOk
    <3>3. LastAccept(n, z)' /\ wire'[n] = wire[n] /\ n \in 1..Len(wire) /\ Accept(n, z)
      BY <1>1, <3>2, LastKept DEF LastAccept
    <3>4. answer'[n] = 200 => Good(n)'
      BY <3>2, <3>3 DEF GoodStays
    <3>5. op'[z].n = n /\ op'[z].rid = op[z].rid
      BY <2>2, <3>1
    <3> QED
      BY <3>2, <3>3, <3>4, <3>5 DEF OpOk
  <2> QED
    BY <2>1, <2>2
<1> QED
  BY <1>0, <1>2, <1>3, <1>4, <1>5 DEF RowInv, ActiveInv, OpInv

\* Nothing is sent.
LEMMA SilentGrows ==
  ASSUME PeerTypes, wire' = wire
  PROVE  Grows /\ \A z : NoNewAccept(z) /\ NoNewRequest(z)
BY DEF Grows, NoNewAccept, NoNewRequest, Accept, Request, PeerTypes

\* operator_accept_peer_request() after the 200: the row becomes active.
LEMMA CommitStep ==
  ASSUME PeerTypes, HandshakeInv, NEW x \in Sides, AcceptCommits(x), Accepts(peer[x], op[x].rid)
  PROVE  HandshakeInv'
<1> USE DEF HandshakeInv
<1>0. /\ op[x].pc = "accepting" /\ answer[op[x].n] = 200 /\ peer[x].rid = op[x].rid
      /\ peer[x].status \in {"pending_inbound", "active"}
      /\ UNCHANGED <<rids, wire, lru, answer, handled>>
  BY DEF AcceptCommits, Accepts
<1>1. PICK n : n = op[x].n
  OBVIOUS
<1>2. LastAccept(n, x) /\ wire[n].rid = peer[x].rid /\ Good(n) /\ Accept(n, x)
  BY <1>0, <1>1 DEF OpInv, OpOk, LastAccept
<1>3. Other(x) \in Sides /\ Other(x) # x /\ Other(Other(x)) = x
  BY OtherSide
<1>4. /\ peer'[x].status = "active" /\ peer'[x].dir = peer[x].dir /\ peer'[x].rid = peer[x].rid
      /\ peer'[x].agreed = Agreed(x, peer[x].rid) /\ peer'[Other(x)] = peer[Other(x)]
  <2>1. peer' = [peer EXCEPT ![x] = [peer[x] EXCEPT !.status = "active", !.agreed = Agreed(x, op[x].rid)]]
    BY DEF AcceptCommits
  <2>2. peer[x] \in PeerRow /\ peer \in [Sides -> PeerRow]
    BY DEF PeerTypes
  <2> QED
    BY <1>0, <1>3, <2>1, <2>2 DEF PeerRow
<1>5. \A z \in Sides : op'[z].pc = "accepting" => op'[z] = op[z]
  <2>1. op' = [op EXCEPT ![x] = NoOp] /\ op \in [Sides -> OpRow]
    BY DEF AcceptCommits, PeerTypes
  <2> QED
    BY <2>1 DEF NoOp
<1>6. peer[x].dir = "inbound"
  <2>1. PICK k : Request(k, Other(x)) /\ wire[k].rid = wire[n].rid
    BY <1>2 DEF WireInv
  <2>2. peer[x].dir # "outbound"
    BY <1>2, <1>3, <2>1, Directions
  <2>3. peer[x].dir # "none" /\ peer[x].dir \in {"none", "outbound", "inbound"}
    BY <1>0 DEF RowInv, RowOk, PeerTypes, PeerRow
  <2> QED
    BY <2>2, <2>3
<1>7. Grows /\ HandledStays /\ \A z : NoNewAccept(z) /\ NoNewRequest(z)
  BY <1>0, SilentGrows DEF HandledStays
<1>8. GoodStays
  <2>1. ASSUME NEW z \in Sides
        PROVE  /\ peer'[z].status = "pending_outbound" => peer[z].status = "pending_outbound"
               /\ peer'[z].dir = "inbound" => peer[z].dir = "inbound"
               /\ peer'[z].dir # "none" => peer'[z].rid = peer[z].rid
               /\ peer'[z].status = "pending_outbound" => peer'[z].dir # "none"
    <3>1. z = x \/ z = Other(x)
      BY OtherSide
    <3> QED
      BY <1>4, <3>1 DEF RowInv, RowOk
  <2> QED
    BY <1>7, <2>1, AllGoodKept
<1>9. RowOk(x)'
  BY <1>4, <1>6, <1>7, RowKept DEF RowInv
<1>10. ActiveOk(x)'
  <2>1. LastAccept(n, x)' /\ wire'[n].rid = peer'[x].rid /\ Good(n)'
    BY <1>2, <1>4, <1>7, <1>8, LastKept DEF GoodStays
  <2>2. peer'[x].agreed = Agreed(x, peer'[x].rid)
    BY <1>4
  <2> QED
    BY <1>4, <1>6, <2>1, <2>2 DEF ActiveOk, Agreed
<1> QED
  BY <1>0, <1>3, <1>4, <1>5, <1>7, <1>8, <1>9, <1>10, SilentFrame

\* handle_peer_request(): the first time its envelope is handled, this side has accepted
\* nothing under its id.
LEMMA RequestStep ==
  ASSUME PeerTypes, HandshakeInv, NEW x \in Sides, NEW n, Request(n, Other(x)), handled[n] = 0,
         wire' = wire, rids' = rids, op' = op, handled' = [handled EXCEPT ![n] = @ + 1],
         answer' = [answer EXCEPT ![n] = 202], peer' = [peer EXCEPT ![x] = RequestRow(peer[x], wire[n])]
  PROVE  HandshakeInv'
<1> USE DEF HandshakeInv
<1>1. Other(x) \in Sides /\ Other(x) # x /\ Other(Other(x)) = x
  BY OtherSide
<1>2. /\ peer'[x].status = "pending_inbound" /\ peer'[x].dir = "inbound" /\ peer'[x].rid = wire[n].rid
      /\ peer'[Other(x)] = peer[Other(x)]
  <2>1. peer[x] \in PeerRow /\ peer \in [Sides -> PeerRow]
    BY DEF PeerTypes
  <2> QED
    BY <1>1, <2>1 DEF PeerRow, RequestRow
<1>3. n \in 1..MaxSent /\ n \in 1..Len(wire) /\ Len(wire) <= MaxSent /\ Len(wire) \in Nat /\ wire[n].kind = "request" /\ MaxSent \in Nat
  BY PeeringConfig DEF Request, PeerTypes
<1>4. handled'[n] # 0 /\ \A k \in 1..Len(wire) : k # n => handled'[k] = handled[k] /\ answer'[k] = answer[k]
  BY <1>3 DEF PeerTypes
<1>5. Grows /\ HandledStays /\ \A z : NoNewAccept(z) /\ NoNewRequest(z)
  BY <1>4, SilentGrows DEF HandledStays
<1>6. \A m : Accept(m, x) => wire[m].rid # peer'[x].rid
  <2> SUFFICES ASSUME NEW m, Accept(m, x), wire[m].rid = wire[n].rid PROVE FALSE
    BY <1>2
  <2>1. PICK k : Request(k, Other(x)) /\ wire[k].rid = wire[m].rid /\ handled[k] # 0
    BY DEF WireInv
  <2>2. k = n
    BY <1>1, <2>1, OneRequest
  <2> QED
    BY <2>1, <2>2
<1>7. GoodStays
  <2>1. ASSUME NEW z \in Sides
        PROVE  \/ /\ peer'[z].status = "pending_outbound" => peer[z].status = "pending_outbound"
                  /\ peer'[z].dir = "inbound" => peer[z].dir = "inbound"
                  /\ peer'[z].dir # "none" => peer'[z].rid = peer[z].rid
                  /\ peer'[z].status = "pending_outbound" => peer'[z].dir # "none"
               \/ /\ peer'[z].status # "pending_outbound"
                  /\ \A k : Accept(k, z) => wire[k].rid # peer'[z].rid
    <3>1. CASE z = x
      BY <1>2, <1>6, <3>1
    <3>2. CASE z = Other(x)
      BY <1>1, <1>2, <3>2 DEF RowInv, RowOk
    <3> QED
      BY <3>1, <3>2, OtherSide
  <2> QED
    BY <1>5, <2>1, AllGoodKept
<1>8. RowOk(x)'
  <2>1. Request(n, Other(x))' /\ wire'[n].rid = peer'[x].rid /\ handled'[n] # 0
    BY <1>2, <1>4 DEF Request
  <2> QED
    BY <1>2, <2>1 DEF RowOk
<1>9. ActiveOk(x)'
  BY <1>2 DEF ActiveOk
<1>10. \A z \in Sides, k \in 1..Len(wire) : Accept(k, z) /\ answer'[k] = 200 => answer[k] = 200 \/ Good(k)'
  BY <1>3, <1>4 DEF Accept
<1> QED
  BY <1>1, <1>2, <1>5, <1>7, <1>8, <1>9, <1>10, SilentFrame

\* handle_peer_response() for an acceptance of the request that the row stands for.
LEMMA AnswerStep ==
  ASSUME PeerTypes, HandshakeInv, NEW x \in Sides, NEW n, Accept(n, Other(x)), Answers(peer[x], wire[n]),
         wire' = wire, rids' = rids, op' = op, handled' = [handled EXCEPT ![n] = @ + 1],
         answer' = [answer EXCEPT ![n] = 200],
         peer' = [peer EXCEPT ![x] = [peer[x] EXCEPT !.status = "active", !.agreed = Agreed(wire[n].from, wire[n].rid)]]
  PROVE  HandshakeInv'
<1> USE DEF HandshakeInv
<1>1. Other(x) \in Sides /\ Other(x) # x /\ Other(Other(x)) = x
  BY OtherSide
<1>2. /\ peer[x].rid = wire[n].rid /\ peer[x].status \in {"pending_outbound", "active"}
      /\ wire[n].from = Other(x) /\ wire[n].kind = "accept"
  BY DEF Answers, Accept
<1>3. /\ peer'[x].status = "active" /\ peer'[x].dir = peer[x].dir /\ peer'[x].rid = peer[x].rid
      /\ peer'[x].agreed = Agreed(Other(x), peer[x].rid) /\ peer'[Other(x)] = peer[Other(x)]
  <2>1. peer[x] \in PeerRow /\ peer \in [Sides -> PeerRow]
    BY DEF PeerTypes
  <2> QED
    BY <1>1, <1>2, <2>1 DEF PeerRow
<1>4. n \in 1..MaxSent /\ n \in 1..Len(wire) /\ Len(wire) <= MaxSent /\ Len(wire) \in Nat /\ MaxSent \in Nat
  BY PeeringConfig DEF Accept, PeerTypes
<1>5. handled'[n] # 0 /\ \A k \in 1..Len(wire) : k # n => handled'[k] = handled[k] /\ answer'[k] = answer[k]
  BY <1>4 DEF PeerTypes
<1>6. Grows /\ HandledStays /\ \A z : NoNewAccept(z) /\ NoNewRequest(z)
  BY <1>5, SilentGrows DEF HandledStays
<1>7. PICK i : Request(i, x) /\ i < n /\ wire[i].rid = wire[n].rid
  BY <1>1 DEF WireInv
<1>8. peer[x].dir = "outbound"
  <2>1. peer[x].dir # "inbound"
    BY <1>2, <1>7, Directions
  <2>2. peer[x].dir # "none" /\ peer[x].dir \in {"none", "outbound", "inbound"}
    BY <1>2 DEF RowInv, RowOk, PeerTypes, PeerRow
  <2> QED
    BY <2>1, <2>2
<1>9. Good(n)'
  <2>1. PICK k : Request(k, x) /\ wire[k].rid = peer[x].rid /\ \A j : Request(j, x) \/ Accept(j, x) => j <= k
    BY <1>8 DEF RowInv, RowOk
  <2>2. ASSUME NEW j, Request(j, x) PROVE wire[j].rid <= wire[n].rid
    <3>1. j <= k /\ j \in Int /\ k \in Int /\ wire[j].rid \in Int /\ wire[k].rid \in Int
      <4>1. \A m \in 1..Len(wire) : wire[m] \in Envelope
        BY DEF PeerTypes
      <4> QED
        BY <1>4, <2>1, <2>2, <4>1 DEF Request, Envelope
    <3>2. CASE j < k
      <4>1. wire[j].rid < wire[k].rid
        BY <2>1, <2>2, <3>2, Zenon DEF WireInv
      <4> QED
        BY <1>2, <2>1, <3>1, <4>1
    <3>3. CASE j = k
      BY <1>2, <2>1, <3>1, <3>3
    <3> QED
      BY <3>1, <3>2, <3>3
  <2>3. \A j : Request(j, x)' <=> Request(j, x)
    BY DEF Request
  <2>4. Other(wire'[n].from) = x
    BY <1>1, <1>2
  <2> QED
    BY <1>3, <1>8, <2>2, <2>3, <2>4 DEF Good
<1>10. GoodStays
  <2>1. ASSUME NEW z \in Sides
        PROVE  /\ peer'[z].status = "pending_outbound" => peer[z].status = "pending_outbound"
               /\ peer'[z].dir = "inbound" => peer[z].dir = "inbound"
               /\ peer'[z].dir # "none" => peer'[z].rid = peer[z].rid
               /\ peer'[z].status = "pending_outbound" => peer'[z].dir # "none"
    <3>1. z = x \/ z = Other(x)
      BY OtherSide
    <3> QED
      BY <1>3, <3>1 DEF RowInv, RowOk
  <2> QED
    BY <1>6, <2>1, AllGoodKept
<1>11. RowOk(x)'
  BY <1>3, <1>6, <1>8, RowKept DEF RowInv
<1>12. ActiveOk(x)'
  <2>1. Accept(n, Other(x))' /\ wire'[n].rid = peer'[x].rid
    BY <1>2, <1>3 DEF Accept
  <2> QED
    BY <1>3, <1>8, <2>1, ZenonT(40) DEF ActiveOk, Agreed
<1>13. \A z \in Sides, k \in 1..Len(wire) : Accept(k, z) /\ answer'[k] = 200 => answer[k] = 200 \/ Good(k)'
  BY <1>5, <1>9
<1> QED
  BY <1>1, <1>3, <1>6, <1>10, <1>11, <1>12, <1>13, SilentFrame

\* A request arrives.
LEMMA DeliverStep ==
  ASSUME PeerTypes, CacheInv, CacheCovers, HandshakeInv, NEW n \in 1..Len(wire), Deliver(n)
  PROVE  HandshakeInv'
<1>1. PICK m : m = wire[n]
  OBVIOUS
<1>2. PICK x : x = Other(m.from)
  OBVIOUS
<1>3. /\ m \in Envelope /\ m.from \in Sides /\ x \in Sides /\ Other(x) = m.from /\ x # m.from
      /\ n \in 1..MaxSent /\ 1..Len(wire) \subseteq 1..MaxSent
  <2>1. m \in Envelope /\ n \in 1..MaxSent /\ 1..Len(wire) \subseteq 1..MaxSent
    BY <1>1, PeeringConfig DEF PeerTypes
  <2>2. m.from \in Sides
    BY <2>1 DEF Envelope
  <2> QED
    BY <1>2, <2>1, <2>2, OtherSide
<1>4. UNCHANGED <<rids, wire, op>>
  BY DEF Deliver
<1>5. Grows /\ \A z : NoNewAccept(z) /\ NoNewRequest(z)
  BY <1>4, SilentGrows
<1>6. CASE ~MayCall(x, m)
  <2>1. answer' = [answer EXCEPT ![n] = IF @ = 0 THEN 401 ELSE @] /\ UNCHANGED <<peer, lru, handled>>
    BY <1>1, <1>2, <1>6 DEF Deliver
  <2>2. \A k \in 1..Len(wire) : answer'[k] = 200 => answer[k] = 200
    BY <1>3, <2>1 DEF PeerTypes
  <2>3. HandledStays
    BY <2>1 DEF HandledStays
  <2> QED
    BY <1>4, <1>5, <2>1, <2>2, <2>3, QuietStep
<1>7. CASE MayCall(x, m)
  <2>1. /\ Young(n) /\ Unseen(x, n)
        /\ handled' = [handled EXCEPT ![n] = @ + 1]
        /\ answer' = [answer EXCEPT ![n] = HandlerCode(peer[x], m)]
        /\ peer' = [peer EXCEPT ![x] = HandlerRow(peer[x], m)]
    BY <1>1, <1>2, <1>7 DEF Deliver
  <2>2. handled[n] = 0
    BY <1>1, <1>2, <2>1 DEF CacheInv
  <2>3. HandledStays
    BY <1>3, <2>1 DEF HandledStays, PeerTypes
  <2>4. /\ answer'[n] = HandlerCode(peer[x], m) /\ \A k \in 1..Len(wire) : k # n => answer'[k] = answer[k]
        /\ peer'[x] = HandlerRow(peer[x], m) /\ \A z \in Sides : z # x => peer'[z] = peer[z]
        /\ peer[x] \in PeerRow
    BY <1>3, <2>1 DEF PeerTypes
  <2>5. CASE m.kind = "request"
    <3>1. HandlerCode(peer[x], m) = 202 /\ HandlerRow(peer[x], m) = RequestRow(peer[x], m)
      BY <2>5 DEF HandlerCode, HandlerRow
    <3>2. Request(n, Other(x))
      BY <1>1, <1>3, <2>5 DEF Request
    <3> QED
      BY <1>1, <1>3, <1>4, <2>1, <2>2, <3>1, <3>2, RequestStep, ZenonT(40)
  <2>6. CASE m.kind = "accept" /\ Answers(peer[x], m)
    <3>1. /\ HandlerCode(peer[x], m) = 200
          /\ HandlerRow(peer[x], m) = [peer[x] EXCEPT !.status = "active", !.agreed = Agreed(m.from, m.rid)]
      BY <2>6 DEF HandlerCode, HandlerRow
    <3>2. Accept(n, Other(x))
      BY <1>1, <1>3, <2>6 DEF Accept
    <3> QED
      BY <1>1, <1>3, <1>4, <2>1, <2>6, <3>1, <3>2, AnswerStep, ZenonT(40)
  <2>7. CASE ~(m.kind = "request") /\ ~(m.kind = "accept" /\ Answers(peer[x], m))
    <3>1. \/ peer'[x] = peer[x]
          \/ /\ peer'[x].dir = peer[x].dir /\ peer'[x].rid = peer[x].rid
             /\ peer'[x].status \in {"rejected", "terminated"}
      <4>1. CASE m.kind = "accept" \/ (m.kind = "reject" /\ ~Answers(peer[x], m))
        <5>1. HandlerRow(peer[x], m) = peer[x]
          BY <2>7, <4>1 DEF HandlerRow
        <5> QED
          BY <2>4, <5>1
      <4>2. CASE m.kind = "reject" /\ Answers(peer[x], m)
        <5>1. HandlerRow(peer[x], m) = RejectedRow(peer[x])
          BY <4>2 DEF HandlerRow
        <5> QED
          BY <2>4, <5>1 DEF RejectedRow, PeerRow
      <4>3. CASE m.kind = "delete"
        <5>1. HandlerRow(peer[x], m) = DeletedRow(peer[x])
          BY <4>3 DEF HandlerRow
        <5> QED
          BY <2>4, <5>1 DEF DeletedRow, PeerRow
      <4> QED
        BY <1>3, <2>7, <4>1, <4>2, <4>3 DEF Envelope
    <3>2. \A z \in Sides, k \in 1..Len(wire) : Accept(k, z) /\ answer'[k] = 200 => answer[k] = 200
      <4>1. m.kind = "accept" => answer'[n] = 404
        BY <2>4, <2>7 DEF HandlerCode
      <4> QED
        BY <1>1, <2>4, <4>1 DEF Accept
    <3>3. \A z \in Sides :
             \/ peer'[z] = peer[z]
             \/ /\ peer'[z].dir = peer[z].dir /\ peer'[z].rid = peer[z].rid
                /\ peer'[z].status \in {"rejected", "terminated"}
      BY <2>4, <3>1
    <3> QED
      BY <1>4, <1>5, <2>3, <3>2, <3>3, QuietStep
  <2> QED
    BY <2>5, <2>6, <2>7
<1> QED
  BY <1>6, <1>7

\* Every step keeps the handshake's invariant.
LEMMA HandshakeStep ==
  ASSUME PeerInv, CacheCovers, HandshakeInv, [PeerNext]_peerVars
  PROVE  HandshakeInv'
<1> USE DEF PeerInv
<1>0. peer \in [Sides -> PeerRow] /\ op \in [Sides -> OpRow] /\ \A x \in Sides : peer[x] \in PeerRow /\ peer[x].rid \in Nat
  BY DEF PeerTypes, PeerRow
<1>1. ASSUME NEW x \in Sides, AcceptCommits(x) PROVE HandshakeInv'
  <2>1. CASE Accepts(peer[x], op[x].rid)
    BY <1>1, <2>1, CommitStep
  <2>2. CASE ~Accepts(peer[x], op[x].rid)
    <3>1. /\ \A z \in Sides : peer'[z] = peer[z]
          /\ \A z \in Sides : op'[z].pc = "accepting" => op'[z] = op[z]
      BY <1>0, <1>1, <2>2 DEF AcceptCommits, NoOp
    <3>2. UNCHANGED <<rids, wire, lru, answer, handled>>
      BY <1>1 DEF AcceptCommits
    <3>3. Grows /\ HandledStays /\ \A z : NoNewAccept(z) /\ NoNewRequest(z)
      BY <3>2, SilentGrows DEF HandledStays
    <3> QED
      BY <3>1, <3>2, <3>3, QuietStep
  <2> QED
    BY <2>1, <2>2
\* An operator who stops, with a row that ends at most.
<1>2. ASSUME NEW x \in Sides, UNCHANGED <<rids, wire, answer, handled>>,
             \A z \in Sides : op'[z].pc = "accepting" => op'[z] = op[z],
             \A z \in Sides : \/ peer'[z] = peer[z]
                              \/ /\ peer'[z].dir = peer[z].dir /\ peer'[z].rid = peer[z].rid
                                 /\ peer'[z].status \in {"rejected", "terminated"}
                              \/ peer'[z] = NoPeer
      PROVE  HandshakeInv'
  <2>1. Grows /\ HandledStays /\ \A z : NoNewAccept(z) /\ NoNewRequest(z)
    BY <1>2, SilentGrows DEF HandledStays
  <2> QED
    BY <1>2, <2>1, QuietStep
<1>3. ASSUME NEW x \in Sides, TerminateCommits(x) PROVE HandshakeInv'
  <2>1. \A z \in Sides : op'[z].pc = "accepting" => op'[z] = op[z]
    BY <1>0, <1>3 DEF TerminateCommits, NoOp
  <2>2. \A z \in Sides : \/ peer'[z] = peer[z]
                         \/ /\ peer'[z].dir = peer[z].dir /\ peer'[z].rid = peer[z].rid
                            /\ peer'[z].status \in {"rejected", "terminated"}
    <3>1. peer' = [peer EXCEPT ![x] = [peer[x] EXCEPT !.status = IF peer[x].status = "active" THEN "terminated" ELSE peer[x].status]]
      BY <1>3 DEF TerminateCommits
    <3>2. CASE peer[x].status = "active"
      <4>1. peer' = [peer EXCEPT ![x] = [peer[x] EXCEPT !.status = "terminated"]]
        BY <3>1, <3>2
      <4> QED
        BY <1>0, <4>1 DEF PeerRow
    <3>3. CASE peer[x].status # "active"
      <4>1. peer' = [peer EXCEPT ![x] = [peer[x] EXCEPT !.status = peer[x].status]]
        BY <3>1, <3>3
      <4>2. [peer[x] EXCEPT !.status = peer[x].status] = peer[x]
        BY <1>0 DEF PeerRow
      <4> QED
        BY <1>0, <4>1, <4>2
    <3> QED
      BY <3>2, <3>3
  <2>3. UNCHANGED <<rids, wire, answer, handled>>
    BY <1>3 DEF TerminateCommits
  <2> QED
    BY <1>2, <2>1, <2>2, <2>3
<1>4. ASSUME NEW x \in Sides, DropRow(x) PROVE HandshakeInv'
  <2>1. \A z \in Sides : (op'[z].pc = "accepting" => op'[z] = op[z]) /\ (peer'[z] = peer[z] \/ peer'[z] = NoPeer)
    BY <1>0, <1>4 DEF DropRow, NoOp
  <2> QED
    BY <1>2, <1>4, <2>1 DEF DropRow
<1>5. ASSUME NEW x \in Sides, OperatorGivesUp(x) PROVE HandshakeInv'
  <2>1. \A z \in Sides : (op'[z].pc = "accepting" => op'[z] = op[z]) /\ peer'[z] = peer[z]
    BY <1>0, <1>5 DEF OperatorGivesUp, NoOp
  <2> QED
    BY <1>2, <1>5, <2>1 DEF OperatorGivesUp
\* An envelope that asks for nothing and accepts nothing.
<1>6. ASSUME NEW k \in {"reject", "delete"}, NEW x \in Sides, NEW r \in Nat, Send(k, x, r),
             UNCHANGED <<rids, answer, handled>>,
             \A z \in Sides : op'[z].pc = "accepting" => op'[z] = op[z],
             \A z \in Sides : \/ peer'[z] = peer[z]
                              \/ /\ peer'[z].dir = peer[z].dir /\ peer'[z].rid = peer[z].rid
                                 /\ peer'[z].status \in {"rejected", "terminated"}
      PROVE  HandshakeInv'
  <2> DEFINE e == [kind |-> k, from |-> x, rid |-> r]
  <2>1. e \in Envelope /\ wire' = Append(wire, e)
    BY <1>6, SendTypes
  <2>2. /\ Len(wire) \in Nat /\ Len(wire') = Len(wire) + 1
        /\ \A n \in 1..Len(wire) : wire'[n] = wire[n] /\ n \in 1..Len(wire')
        /\ \A n, z : Accept(n, z)' <=> Accept(n, z)
        /\ \A n, z : Request(n, z)' <=> Request(n, z)
    BY <2>1, Sent
  <2>3. Grows /\ HandledStays /\ \A z : NoNewAccept(z) /\ NoNewRequest(z)
    <3>1. Grows /\ HandledStays
      BY <1>6, <2>2 DEF Grows, HandledStays
    <3>2. \A n, z : Accept(n, z) \/ Request(n, z) => n \in 1..Len(wire)
      BY DEF Accept, Request
    <3> QED
      BY <2>2, <3>1, <3>2, Zenon DEF NoNewAccept, NoNewRequest
  <2> QED
    BY <1>6, <2>3, QuietStep
<1>7. ASSUME NEW x \in Sides, PeerRejects(x) PROVE HandshakeInv'
  <2>1. \A z \in Sides : \/ peer'[z] = peer[z]
                         \/ /\ peer'[z].dir = peer[z].dir /\ peer'[z].rid = peer[z].rid
                            /\ peer'[z].status \in {"rejected", "terminated"}
    BY <1>0, <1>7 DEF PeerRejects, PeerRow
  <2> QED
    BY <1>0, <1>6, <1>7, <2>1 DEF PeerRejects
<1>8. ASSUME NEW x \in Sides, OperatorDefederate(x) PROVE HandshakeInv'
  <2>1. UNCHANGED <<peer, rids, answer, handled>>
    BY <1>8 DEF OperatorDefederate
  <2>2. \A z \in Sides : op'[z].pc = "accepting" => op'[z] = op[z]
    <3>1. CASE peer[x].status = "active"
      BY <1>0, <1>8, <3>1 DEF OperatorDefederate, Waiting
    <3>2. CASE peer[x].status # "active"
      <4>1. op' = [op EXCEPT ![x].pc = "dropping"]
        BY <1>8, <3>2 DEF OperatorDefederate
      <4> QED
        BY <1>0, <4>1 DEF OpRow
    <3> QED
      BY <3>1, <3>2
  <2>3. CASE peer[x].status = "active"
    BY <1>6, <1>8, <2>1, <2>2, <2>3 DEF OperatorDefederate
  <2>4. CASE peer[x].status # "active"
    BY <1>2, <1>8, <2>1, <2>2, <2>4 DEF OperatorDefederate
  <2> QED
    BY <2>3, <2>4
<1>9. CASE UNCHANGED peerVars
  <2>1. PICK x \in Sides : TRUE
    BY PeeringConfig
  <2> QED
    BY <1>2, <1>9, <2>1 DEF peerVars
<1> QED
  BY <1>1, <1>3, <1>4, <1>5, <1>7, <1>8, <1>9, InitiateStep, AcceptStep, DeliverStep DEF PeerNext

-----------------------------------------------------------------------------
(* The cache of envelopes.                                                 *)

\* Every step keeps the types.
LEMMA PeerTypesStep ==
  ASSUME PeerTypes, [PeerNext]_peerVars
  PROVE  PeerTypes'
<1> USE DEF PeerTypes
<1>0. /\ MaxSent \in Nat /\ MaxRequests \in Nat /\ wire \in Seq(Envelope) /\ Len(wire) \in Nat /\ Len(wire) <= MaxSent
      /\ \A x \in Sides : peer[x] \in PeerRow /\ op[x] \in OpRow /\ peer[x].rid \in Nat
  BY PeeringConfig DEF PeerRow
<1>a. NoPeer \in PeerRow /\ NoOp \in OpRow
  BY <1>0 DEF NoPeer, NoOp, PeerRow, OpRow
<1>b. \A x \in Sides : \A r : Agreed(x, r) \in SUBSET Caps
  BY DEF Agreed, Caps
<1>1. ASSUME NEW x \in Sides, OperatorInitiate(x) PROVE PeerTypes'
  <2>1. rids + 1 \in Nat /\ rids' = rids + 1 /\ rids' \in 0..MaxRequests
    BY <1>0, <1>1 DEF OperatorInitiate
  <2>2. /\ wire' \in Seq(Envelope) /\ Len(wire') <= MaxSent /\ Len(wire') = Len(wire) + 1
    BY <1>1, <2>1, SendTypes, Zenon DEF OperatorInitiate
  <2>3. [peer[x] EXCEPT !.status = "pending_outbound", !.dir = "outbound", !.rid = rids + 1] \in PeerRow
    BY <1>0, <2>1, Zenon DEF PeerRow
  <2>4. peer' \in [Sides -> PeerRow]
    BY <1>1, <2>3 DEF OperatorInitiate
  <2> QED
    BY <1>0, <1>1, <2>1, <2>2, <2>4 DEF OperatorInitiate
<1>2. ASSUME NEW x \in Sides, OperatorAccept(x) PROVE PeerTypes'
  <2>1. /\ wire' \in Seq(Envelope) /\ Len(wire') <= MaxSent /\ Len(wire') = Len(wire) + 1 /\ Len(wire) + 1 \in 1..MaxSent
    BY <1>0, <1>2, SendTypes, Zenon DEF OperatorAccept
  <2>2. Waiting("accepting", peer[x].rid) \in OpRow
    BY <1>0, <2>1 DEF Waiting, OpRow
  <2> QED
    BY <1>0, <1>2, <2>1, <2>2 DEF OperatorAccept, Flips
<1>3. ASSUME NEW x \in Sides, AcceptCommits(x) PROVE PeerTypes'
  <2>1. [peer[x] EXCEPT !.status = "active", !.agreed = Agreed(x, op[x].rid)] \in PeerRow
    BY <1>0, <1>b, Zenon DEF PeerRow
  <2>2. peer' \in [Sides -> PeerRow]
    BY <1>0, <1>3, <2>1 DEF AcceptCommits
  <2> QED
    BY <1>0, <1>a, <1>3, <2>2 DEF AcceptCommits
<1>4. ASSUME NEW x \in Sides, OperatorDefederate(x) PROVE PeerTypes'
  <2>1. CASE peer[x].status = "active"
    <3>1. /\ wire' \in Seq(Envelope) /\ Len(wire') <= MaxSent /\ Len(wire') = Len(wire) + 1 /\ Len(wire) + 1 \in 1..MaxSent
      BY <1>4, <2>1, SendTypes, Zenon DEF OperatorDefederate
    <3>2. Waiting("ending", 0) \in OpRow
      BY <1>0, <3>1 DEF Waiting, OpRow
    <3>3. /\ op' = [op EXCEPT ![x] = Waiting("ending", 0)]
          /\ UNCHANGED <<peer, rids, lru, answer, handled>>
      BY <1>4, <2>1 DEF OperatorDefederate
    <3> QED
      BY <1>0, <3>1, <3>2, <3>3
  <2>2. CASE peer[x].status # "active"
    <3>1. [op[x] EXCEPT !.pc = "dropping"] \in OpRow
      BY <1>0, Zenon DEF OpRow
    <3> QED
      BY <1>0, <1>4, <2>2, <3>1 DEF OperatorDefederate
  <2> QED
    BY <2>1, <2>2
<1>5. ASSUME NEW x \in Sides, TerminateCommits(x) PROVE PeerTypes'
  <2>1. \A s \in {peer[x].status, "terminated"} : [peer[x] EXCEPT !.status = s] \in PeerRow
    BY <1>0, Zenon DEF PeerRow
  <2> QED
    BY <1>0, <1>a, <1>5, <2>1, Zenon DEF TerminateCommits
<1>6. ASSUME NEW x \in Sides, DropRow(x) \/ OperatorGivesUp(x) PROVE PeerTypes'
  BY <1>0, <1>a, <1>6, Zenon DEF DropRow, OperatorGivesUp
<1>7. ASSUME NEW x \in Sides, PeerRejects(x) PROVE PeerTypes'
  <2>1. /\ wire' \in Seq(Envelope) /\ Len(wire') <= MaxSent /\ Len(wire') = Len(wire) + 1
    BY <1>0, <1>7, SendTypes, Zenon DEF PeerRejects
  <2>2. [peer[x] EXCEPT !.status = "rejected"] \in PeerRow
    BY <1>0, Zenon DEF PeerRow
  <2> QED
    BY <1>0, <1>7, <2>1, <2>2 DEF PeerRejects
<1>8. ASSUME NEW n \in 1..Len(wire), Deliver(n) PROVE PeerTypes'
  <2> DEFINE m == wire[n]
             y == Other(m.from)
  <2>0. m \in Envelope /\ m.from \in Sides /\ y \in Sides /\ n \in 1..MaxSent
    <3>1. m \in Envelope /\ n \in 1..MaxSent
      BY <1>0
    <3>2. m.from \in Sides
      BY <3>1 DEF Envelope
    <3> QED
      BY <3>1, <3>2, OtherSide
  <2>1. CASE ~MayCall(y, m)
    <3>1. /\ answer' = [answer EXCEPT ![n] = IF @ = 0 THEN 401 ELSE @]
          /\ UNCHANGED <<peer, lru, handled, rids, wire, op>>
      BY <1>8, <2>1 DEF Deliver
    <3>2. answer' \in [1..MaxSent -> Nat] /\ \A k \in 1..MaxSent : k # n => answer'[k] = answer[k]
      BY <2>0, <3>1
    <3> QED
      BY <1>0, <3>1, <3>2
  <2>2. CASE MayCall(y, m)
    <3>1. HandlerCode(peer[y], m) \in Nat
      BY <2>0 DEF HandlerCode, Envelope
    <3>2. HandlerRow(peer[y], m) \in PeerRow
      <4>1. m.rid \in Nat /\ peer[y] \in PeerRow
        BY <1>0, <2>0 DEF Envelope
      <4>2. RequestRow(peer[y], m) \in PeerRow
        BY <4>1, Zenon DEF RequestRow, PeerRow
      <4>3. [peer[y] EXCEPT !.status = "active", !.agreed = Agreed(m.from, m.rid)] \in PeerRow
        BY <4>1, <1>b, <2>0, Zenon DEF PeerRow
      <4>4. RejectedRow(peer[y]) \in PeerRow /\ DeletedRow(peer[y]) \in PeerRow
        BY <4>1, Zenon DEF RejectedRow, DeletedRow, PeerRow
      <4> QED
        BY <4>1, <4>2, <4>3, <4>4, <2>0 DEF HandlerRow, Envelope
    <3>3. peer' = [peer EXCEPT ![y] = HandlerRow(peer[y], m)]
      BY <1>8, <2>2 DEF Deliver
    <3>4. answer' = [answer EXCEPT ![n] = HandlerCode(peer[y], m)] /\ handled' = [handled EXCEPT ![n] = @ + 1]
      BY <1>8, <2>2 DEF Deliver
    <3>5. UNCHANGED <<rids, wire, op>>
      BY <1>8 DEF Deliver
    <3> HIDE DEF m, y
    <3> QED
      BY <1>0, <2>0, <3>1, <3>2, <3>3, <3>4, <3>5
  <2> QED
    BY <2>1, <2>2
<1>9. CASE UNCHANGED peerVars
  BY <1>9 DEF peerVars
<1> QED
  BY <1>1, <1>2, <1>3, <1>4, <1>5, <1>6, <1>7, <1>8, <1>9 DEF PeerNext

\* A sequence over a set, and over a larger one.
LEMMA SeqOver ==
  ASSUME NEW S, NEW T, S \subseteq T, NEW s \in Seq(S)
  PROVE  s \in Seq(T) /\ \A i \in 1..Len(s) : s[i] \in S
OBVIOUS

\* A set of naturals has a least member.
LEMMA LeastNat ==
  ASSUME NEW T \in SUBSET Nat, T # {}
  PROVE  \E x \in T : \A y \in T : x <= y
<1> DEFINE R == {ss \in Nat \X Nat : ss[1] < ss[2]}
<1>1. IsWellFoundedOn(R, Nat)
  BY NatLessThanWellFounded DEF OpToRel
<1>2. \A x, y \in Nat : y < x => <<y, x>> \in R
  OBVIOUS
<1> HIDE DEF R
<1>3. PICK x \in T : \A y \in T : ~ (<<y, x>> \in R)
  BY <1>1, WFMin
<1>4. \A y \in T : ~(y < x)
  BY <1>2, <1>3
<1> QED
  BY <1>4

Distinct(f, n) == \A i, j \in 1..n : f[i] = f[j] => i = j

\* More than m numbers of 1..m are not all distinct.
LEMMA Pigeonhole ==
  ASSUME NEW m \in Nat, NEW n \in Nat, NEW f \in [1..n -> 1..m], Distinct(f, n)
  PROVE  n <= m
<1> DEFINE T == {k \in Nat : \E l \in Nat : l > k /\ \E g \in [1..l -> 1..k] : Distinct(g, l)}
<1> SUFFICES ASSUME n > m PROVE FALSE
  OBVIOUS
<1>1. m \in T /\ T \subseteq Nat
  OBVIOUS
<1>2. PICK k \in T : \A y \in T : k <= y
  BY <1>1, LeastNat
<1>3. k \in Nat
  BY <1>1, <1>2
<1>4. PICK l \in Nat : l > k /\ \E g \in [1..l -> 1..k] : Distinct(g, l)
  BY <1>2
<1>5. PICK g \in [1..l -> 1..k] : Distinct(g, l)
  BY <1>4
<1>6. 1 \in 1..l /\ l \in 1..l /\ l - 1 \in Nat /\ \A i \in 1..l - 1 : i \in 1..l /\ i # l
  BY <1>3, <1>4
<1>7. g[1] \in 1..k /\ k - 1 \in Nat /\ l - 1 > k - 1
  BY <1>3, <1>4, <1>5, <1>6
<1> DEFINE h == [i \in 1..l - 1 |-> IF g[i] = k THEN g[l] ELSE g[i]]
<1>8. h \in [1..l - 1 -> 1..k - 1]
  <2> SUFFICES ASSUME NEW i \in 1..l - 1 PROVE (IF g[i] = k THEN g[l] ELSE g[i]) \in 1..k - 1
    OBVIOUS
  <2>1. g[i] \in 1..k /\ g[l] \in 1..k /\ g[i] # g[l]
    BY <1>5, <1>6 DEF Distinct
  <2> QED
    BY <1>3, <2>1
<1>9. Distinct(h, l - 1)
  <2> SUFFICES ASSUME NEW i \in 1..l - 1, NEW j \in 1..l - 1, h[i] = h[j] PROVE i = j
    BY DEF Distinct
  <2>1. g[i] # g[l] /\ g[j] # g[l] /\ (g[i] = g[j] => i = j)
    BY <1>5, <1>6 DEF Distinct
  <2> QED
    BY <2>1
<1> HIDE DEF h
<1>10. k - 1 \in T
  BY <1>7, <1>6, <1>8, <1>9
<1>11. k <= k - 1
  BY Zenon, <1>2, <1>10
<1> QED
  BY <1>3, <1>11

\* Distinct numbers within W of the first one are fewer than 2 * W.
LEMMA FewNeighbours ==
  ASSUME NEW W \in Nat, NEW s \in Seq(Int), s # <<>>,
         \A i, j \in 1..Len(s) : i < j => s[i] # s[j],
         \A i \in 1..Len(s) : s[i] > s[1] - W /\ s[i] < s[1] + W
  PROVE  Len(s) <= 2 * W - 1
<1> DEFINE f == [i \in 1..Len(s) |-> s[i] - (s[1] - W)]
<1>1. Len(s) \in Nat /\ 1 \in 1..Len(s) /\ \A i \in 1..Len(s) : s[i] \in Int
  OBVIOUS
<1>2. s[1] \in Int /\ W >= 1 /\ 2 * W - 1 \in Nat
  BY <1>1
<1>3. f \in [1..Len(s) -> 1..2 * W - 1]
  <2> SUFFICES ASSUME NEW i \in 1..Len(s) PROVE s[i] - (s[1] - W) \in 1..2 * W - 1
    OBVIOUS
  <2>1. s[i] \in Int /\ s[i] > s[1] - W /\ s[i] < s[1] + W
    BY <1>1
  <2> QED
    BY <1>2, <2>1
<1>4. Distinct(f, Len(s))
  <2> SUFFICES ASSUME NEW i \in 1..Len(s), NEW j \in 1..Len(s), f[i] = f[j] PROVE i = j
    BY DEF Distinct
  <2>1. s[i] = s[j] /\ i \in Nat /\ j \in Nat
    BY <1>1, <1>2
  <2> QED
    BY <2>1
<1> HIDE DEF f
<1> QED
  BY <1>1, <1>2, <1>3, <1>4, Pigeonhole

\* check_and_insert(): the cache after an arrival.  A nonce it drops is no longer young.
LEMMA Remembered ==
  ASSUME PeerTypes, CacheInv, NEW y \in Sides, NEW n \in 1..Len(wire), Young(n), Unseen(y, n)
  PROVE  LET new == Remember(y, n) IN
         /\ new \in Seq(1..Len(wire)) /\ Len(new) <= LruSize
         /\ \A i, j \in 1..Len(new) : i < j => new[i] # new[j] /\ new[j] > new[i] - Window
         /\ CacheCovers => \A k \in 1..Len(wire) :
              Young(k) /\ (k = n \/ ~Unseen(y, k)) => \E i \in 1..Len(new) : new[i] = k
<1> DEFINE old == lru[y]
           all == Append(old, n)
           L == Len(wire)
<1>1. L \in Nat /\ Window \in Nat /\ LruSize \in Nat /\ n \in 1..L /\ n > L - Window
  BY PeeringConfig DEF PeerTypes, Young
<1>2. old \in Seq(1..L) /\ Len(old) \in Nat /\ Len(old) <= LruSize /\ DOMAIN old = 1..Len(old)
  BY DEF CacheInv
<1>3. /\ \A i, j \in 1..Len(old) : i < j => old[i] # old[j] /\ old[j] > old[i] - Window
      /\ \A i \in 1..Len(old) : old[i] # n /\ old[i] \in 1..L
  <2>1. \A i, j \in 1..Len(old) : i < j => old[i] # old[j] /\ old[j] > old[i] - Window
    BY DEF CacheInv
  <2>2. \A i \in 1..Len(old) : old[i] # n
    BY <1>2 DEF Unseen
  <2> HIDE DEF old, L
  <2>3. \A i \in 1..Len(old) : old[i] \in 1..L
    BY <1>2, SeqOver, Zenon
  <2> QED
    BY <2>1, <2>2, <2>3
<1> HIDE DEF old, L
<1>4. /\ all \in Seq(1..L) /\ Len(all) = Len(old) + 1 /\ all[Len(all)] = n
      /\ \A i \in 1..Len(old) : all[i] = old[i]
  BY <1>1, <1>2
<1> HIDE DEF all
<1>5. \A i, j \in 1..Len(all) : i < j => all[i] # all[j] /\ all[j] > all[i] - Window
  <2> SUFFICES ASSUME NEW i \in 1..Len(all), NEW j \in 1..Len(all), i < j
               PROVE  all[i] # all[j] /\ all[j] > all[i] - Window
    OBVIOUS
  <2>1. i \in 1..Len(old) /\ all[i] = old[i] /\ old[i] \in 1..L /\ old[i] # n
    BY <1>2, <1>3, <1>4
  <2>2. CASE j = Len(all)
    BY <1>1, <1>4, <2>1, <2>2
  <2>3. CASE j # Len(all)
    BY <1>2, <1>3, <1>4, <2>1, <2>3
  <2> QED
    BY <2>2, <2>3
<1>6. \A k \in 1..L : k = n \/ ~Unseen(y, k) => \E i \in 1..Len(all) : all[i] = k
  <2> SUFFICES ASSUME NEW k \in 1..L, k = n \/ ~Unseen(y, k) PROVE \E i \in 1..Len(all) : all[i] = k
    OBVIOUS
  <2>1. CASE k = n
    BY <1>2, <1>4, <2>1
  <2>2. CASE ~Unseen(y, k)
    <3>1. PICK i \in 1..Len(old) : old[i] = k
      BY <1>2, <2>2 DEF Unseen, old
    <3> QED
      BY <1>2, <1>4, <3>1
  <2> QED
    BY <2>1, <2>2
<1>7. CASE Len(all) <= LruSize
  <2>1. Remember(y, n) = all
    BY <1>1, <1>4, <1>7 DEF Remember, all, old
  <2> QED
    BY <1>4, <1>5, <1>6, <1>7, <2>1 DEF L
<1>8. CASE ~(Len(all) <= LruSize)
  <2>1. Len(all) = LruSize + 1
    BY <1>1, <1>2, <1>4, <1>8
  <2>2. Remember(y, n) = Tail(all)
    BY <1>1, <2>1 DEF Remember, all, old
  <2> DEFINE new == Tail(all)
  <2>3. /\ new \in Seq(1..L) /\ Len(new) = LruSize /\ \A i \in 1..Len(new) : new[i] = all[i + 1] /\ i + 1 \in 1..Len(all)
        /\ all # <<>> /\ 1 \in 1..Len(all) /\ all[1] \in 1..L
    BY <1>1, <1>4, <2>1
  <2>4. \A i \in 1..Len(all) : all[i] \in Int /\ all[i] \in 1..L
    <3>1. \A i \in 1..Len(all) : all[i] \in 1..L
      BY <1>4, SeqOver, Zenon
    <3> QED
      BY <1>1, <3>1
  <2>5. ASSUME CacheCovers PROVE ~Young(all[1])
    <3> SUFFICES ASSUME Young(all[1]) PROVE FALSE
      OBVIOUS
    <3>1. all[1] > L - Window
      BY DEF Young, L
    <3>2. \A i \in 1..Len(all) : all[i] > all[1] - Window /\ all[i] < all[1] + Window
      <4> SUFFICES ASSUME NEW i \in 1..Len(all) PROVE all[i] > all[1] - Window /\ all[i] < all[1] + Window
        OBVIOUS
      <4>1. all[i] <= L /\ all[i] \in Int /\ all[1] \in Int /\ all[1] <= L
        BY <1>1, <2>3, <2>4
      <4>2. i = 1 \/ all[i] > all[1] - Window
        BY <1>5, <2>3
      <4> QED
        BY <1>1, <3>1, <4>1, <4>2
    <3>3. all \in Seq(Int)
      BY <1>4, <2>4
    <3>4. Len(all) <= 2 * Window - 1
      BY <1>1, <1>5, <2>3, <3>2, <3>3, FewNeighbours, Zenon
    <3> QED
      BY <1>1, <2>1, <2>5, <3>4 DEF CacheCovers
  <2>6. \A i, j \in 1..Len(new) : i < j => new[i] # new[j] /\ new[j] > new[i] - Window
    <3> SUFFICES ASSUME NEW i \in 1..Len(new), NEW j \in 1..Len(new), i < j
                 PROVE  new[i] # new[j] /\ new[j] > new[i] - Window
      OBVIOUS
    <3>1. /\ new[i] = all[i + 1] /\ i + 1 \in 1..Len(all)
          /\ new[j] = all[j + 1] /\ j + 1 \in 1..Len(all) /\ i + 1 < j + 1
      BY <2>3
    <3> HIDE DEF new
    <3> QED
      BY <1>5, <3>1
  <2>7. ASSUME CacheCovers, NEW k \in 1..L, Young(k), k = n \/ ~Unseen(y, k)
        PROVE  \E i \in 1..Len(new) : new[i] = k
    <3>1. PICK i \in 1..Len(all) : all[i] = k
      BY <1>6, <2>7
    <3>2. i # 1
      BY <2>5, <2>7, <3>1
    <3>3. i - 1 \in 1..Len(new) /\ (i - 1) + 1 = i
      BY <1>1, <2>1, <2>3, <3>1, <3>2
    <3> HIDE DEF new
    <3> QED
      BY <2>3, <3>1, <3>3
  <2> HIDE DEF new
  <2>8. new = Remember(y, n)
    BY <2>2 DEF new
  <2>9. Len(new) <= LruSize
    BY <1>1, <2>3
  <2> QED
    BY <2>3, <2>6, <2>7, <2>8, <2>9 DEF L
<1> QED
  BY <1>7, <1>8

\* Every step keeps the caches.
LEMMA CacheStep ==
  ASSUME PeerTypes, CacheInv, [PeerNext]_peerVars
  PROVE  CacheInv'
<1>0. Len(wire) \in Nat /\ Window \in Nat /\ wire \in Seq(Envelope) /\ Len(wire) <= MaxSent /\ MaxSent \in Nat
  BY PeeringConfig DEF PeerTypes
<1>a. \A n \in 1..Len(wire) : wire[n].from \in Sides
  <2>1. \A n \in 1..Len(wire) : wire[n] \in Envelope
    BY <1>0
  <2> QED
    BY <2>1 DEF Envelope
<1>1. ASSUME NEW k \in {"request", "accept", "reject", "delete"}, NEW x \in Sides, NEW r \in Nat, Send(k, x, r),
             UNCHANGED <<lru, handled>>
      PROVE  CacheInv'
  <2>1. /\ Len(wire') = Len(wire) + 1 /\ \A n \in 1..Len(wire) : wire'[n] = wire[n]
        /\ Len(wire) + 1 \in 1..MaxSent
    BY <1>1, SendTypes, Sent, Zenon
  <2>2. lru' \in [Sides -> Seq(1..Len(wire'))]
    <3>1. 1..Len(wire) \subseteq 1..Len(wire')
      BY <1>0, <2>1
    <3>2. ASSUME NEW y \in Sides PROVE lru[y] \in Seq(1..Len(wire'))
      <4>1. lru[y] \in Seq(1..Len(wire))
        BY DEF CacheInv
      <4> QED
        BY <3>1, <4>1, SeqOver, Zenon
    <3>3. lru \in [Sides -> Seq(1..Len(wire'))]
      BY <3>2 DEF CacheInv
    <3> QED
      BY <1>1, <3>3
  <2>3. ASSUME CacheCovers, NEW n \in 1..Len(wire')
        PROVE  handled'[n] <= 1 /\ (handled'[n] # 0 /\ Young(n)' => \E i \in DOMAIN lru'[Other(wire'[n].from)] : lru'[Other(wire'[n].from)][i] = n)
    <3>1. CASE n \in 1..Len(wire)
      <4>1. Young(n)' => Young(n)
        BY <1>0, <2>1, <3>1 DEF Young
      <4> QED
        BY <1>1, <2>1, <2>3, <3>1, <4>1, ZenonT(30) DEF CacheInv, Unseen
    <3>2. CASE n \notin 1..Len(wire)
      <4>1. n = Len(wire) + 1 /\ n > Len(wire)
        BY <1>0, <2>1, <3>2
      <4> QED
        BY <1>1, <2>1, <4>1 DEF PeerTypes
    <3> QED
      BY <3>1, <3>2
  <2>4. /\ \A y \in Sides : Len(lru'[y]) <= LruSize
        /\ \A y \in Sides : \A i, j \in 1..Len(lru'[y]) :
             i < j => lru'[y][i] # lru'[y][j] /\ lru'[y][j] > lru'[y][i] - Window
    BY <1>1 DEF CacheInv
  <2>5. CacheCovers => \A n \in 1..Len(wire') :
          /\ handled'[n] <= 1
          /\ handled'[n] # 0 /\ Young(n)' => ~Unseen(Other(wire[n].from), n)'
    BY <2>3 DEF Unseen
  <2> QED
    BY <2>2, <2>4, <2>5 DEF CacheInv, CacheCovers
<1>2. ASSUME UNCHANGED <<lru, handled, wire>> PROVE CacheInv'
  BY <1>2 DEF CacheInv, CacheCovers, Young, Unseen
<1>3. ASSUME NEW n \in 1..Len(wire), Deliver(n) PROVE CacheInv'
  <2> DEFINE m == wire[n]
             y == Other(m.from)
             new == Remember(y, n)
  <2>1. y \in Sides
    BY <1>a, OtherSide
  <2>2. CASE ~MayCall(y, m)
    BY <1>2, <1>3, <2>2 DEF Deliver
  <2>3. CASE MayCall(y, m)
    <3>1. /\ Young(n) /\ Unseen(y, n) /\ wire' = wire /\ lru' = [lru EXCEPT ![y] = new]
          /\ handled' = [handled EXCEPT ![n] = @ + 1]
      BY <1>3, <2>3 DEF Deliver
    <3>2. /\ new \in Seq(1..Len(wire)) /\ Len(new) <= LruSize
          /\ \A i, j \in 1..Len(new) : i < j => new[i] # new[j] /\ new[j] > new[i] - Window
          /\ CacheCovers => \A k \in 1..Len(wire) :
               Young(k) /\ (k = n \/ ~Unseen(y, k)) => \E i \in 1..Len(new) : new[i] = k
      BY <2>1, <3>1, Remembered, Zenon
    <3>3. DOMAIN new = 1..Len(new)
      BY <3>2
    <3>4. n \in 1..MaxSent /\ handled \in [1..MaxSent -> Nat] /\ 1..Len(wire) \subseteq 1..MaxSent
      BY <1>0 DEF PeerTypes
    <3> HIDE DEF new, m, y
    <3>5. \A s \in Sides : lru'[s] = IF s = y THEN new ELSE lru[s]
      BY <2>1, <3>1 DEF CacheInv
    <3>6. lru' \in [Sides -> Seq(1..Len(wire'))] /\ \A s \in Sides : Len(lru'[s]) <= LruSize
      BY <2>1, <3>1, <3>2, <3>5 DEF CacheInv
    <3>7. \A s \in Sides : \A i, j \in 1..Len(lru'[s]) :
            i < j => lru'[s][i] # lru'[s][j] /\ lru'[s][j] > lru'[s][i] - Window
      <4> SUFFICES ASSUME NEW s \in Sides
                   PROVE  \A i, j \in 1..Len(lru'[s]) :
                            i < j => lru'[s][i] # lru'[s][j] /\ lru'[s][j] > lru'[s][i] - Window
        OBVIOUS
      <4>1. CASE s = y
        BY <3>2, <3>5, <4>1
      <4>2. CASE s # y
        BY <3>5, <4>2 DEF CacheInv
      <4> QED
        BY <4>1, <4>2
    <3>8. ASSUME CacheCovers, NEW k \in 1..Len(wire)
          PROVE  /\ handled'[k] <= 1
                 /\ handled'[k] # 0 /\ Young(k) =>
                      \E i \in DOMAIN lru'[Other(wire[k].from)] : lru'[Other(wire[k].from)][i] = k
      <4>1. CASE k = n
        <5>1. handled[n] = 0
          BY <3>1, <3>4, <3>8 DEF CacheInv, m, y
        <5>2. handled'[k] = 1
          BY <3>1, <3>4, <4>1, <5>1
        <5>3. \E i \in 1..Len(new) : new[i] = k
          BY <3>1, <3>2, <3>8, <4>1
        <5>4. Other(wire[k].from) = y /\ lru'[y] = new
          BY <2>1, <3>5, <4>1 DEF m, y
        <5> QED
          BY <3>3, <5>2, <5>3, <5>4
      <4>2. CASE k # n
        <5>1. handled'[k] = handled[k] /\ handled[k] <= 1
          BY <3>1, <3>4, <3>8, <4>2 DEF CacheInv
        <5>2. ASSUME handled[k] # 0, Young(k)
              PROVE  \E i \in DOMAIN lru'[Other(wire[k].from)] : lru'[Other(wire[k].from)][i] = k
          <6>1. ~Unseen(Other(wire[k].from), k)
            BY <3>8, <5>2 DEF CacheInv
          <6>2. Other(wire[k].from) \in Sides
            BY <1>a, OtherSide
          <6>3. CASE Other(wire[k].from) = y
            <7>1. \E i \in 1..Len(new) : new[i] = k
              BY <3>2, <3>8, <5>2, <6>1, <6>3
            <7> QED
              BY <2>1, <3>1, <3>3, <3>5, <6>3, <7>1 DEF Unseen
          <6>4. CASE Other(wire[k].from) # y
            BY <3>1, <3>5, <6>1, <6>2, <6>4 DEF Unseen
          <6> QED
            BY <6>3, <6>4
        <5> QED
          BY <5>1, <5>2
      <4> QED
        BY <4>1, <4>2
    <3>9. \A k : Young(k)' <=> Young(k)
      BY <3>1 DEF Young
    <3>10. ASSUME CacheCovers, NEW k \in 1..Len(wire')
           PROVE  handled'[k] <= 1 /\ (handled'[k] # 0 /\ Young(k)' => ~Unseen(Other(wire[k].from), k)')
      <4>1. k \in 1..Len(wire) /\ wire'[k] = wire[k]
        BY <3>1
      <4> QED
        BY <3>8, <3>9, <3>10, <4>1 DEF Unseen
    <3> QED
      BY <3>6, <3>7, <3>10 DEF CacheInv, CacheCovers
  <2> QED
    BY <2>2, <2>3
<1>4. ASSUME NEW x \in Sides, OperatorInitiate(x) PROVE CacheInv'
  <2>1. rids + 1 \in Nat
    BY DEF PeerTypes
  <2> QED
    BY <1>1, <1>4, <2>1 DEF OperatorInitiate
<1>5. \A x \in Sides : peer[x].rid \in Nat
  BY DEF PeerTypes, PeerRow
<1>6. ASSUME NEW x \in Sides, OperatorAccept(x) \/ PeerRejects(x) PROVE CacheInv'
  BY <1>1, <1>5, <1>6 DEF OperatorAccept, PeerRejects
<1>7. ASSUME NEW x \in Sides, OperatorDefederate(x) PROVE CacheInv'
  BY <1>1, <1>2, <1>7 DEF OperatorDefederate
<1>8. ASSUME NEW x \in Sides, AcceptCommits(x) \/ TerminateCommits(x) \/ DropRow(x) \/ OperatorGivesUp(x) PROVE CacheInv'
  BY <1>2, <1>8 DEF AcceptCommits, TerminateCommits, DropRow, OperatorGivesUp
<1>9. CASE UNCHANGED peerVars
  BY <1>2, <1>9 DEF peerVars
<1> QED
  BY <1>3, <1>4, <1>6, <1>7, <1>8, <1>9 DEF PeerNext

LEMMA PeerInvAlways == PeerSpec => []PeerInv
<1>1. PeerInit => PeerInv
  <2> SUFFICES ASSUME PeerInit PROVE PeerInv
    OBVIOUS
  <2>0. MaxSent \in Nat /\ MaxRequests \in Nat /\ LruSize \in Nat
    BY PeeringConfig
  <2>1. NoPeer \in PeerRow /\ NoOp \in OpRow
    BY <2>0 DEF NoPeer, NoOp, PeerRow, OpRow
  <2>2. PeerTypes
    BY <2>0, <2>1 DEF PeerInit, PeerTypes
  <2>3. wire = <<>> /\ lru = [x \in Sides |-> <<>>] /\ Len(wire) = 0
    BY DEF PeerInit
  <2>4. <<>> \in Seq(1..Len(wire)) /\ Len(<<>>) = 0
    OBVIOUS
  <2>5. lru \in [Sides -> Seq(1..Len(wire))] /\ \A y \in Sides : Len(lru[y]) = 0
    BY <2>3, <2>4
  <2>6. CacheInv
    BY <2>0, <2>3, <2>5 DEF CacheInv
  <2> QED
    BY <2>2, <2>6 DEF PeerInv
<1>2. PeerInv /\ [PeerNext]_peerVars => PeerInv'
  BY PeerTypesStep, CacheStep DEF PeerInv
<1> QED
  BY <1>1, <1>2, PTL DEF PeerSpec

\* The replay cache works: for any number of envelopes, clock window and cache size, an
\* envelope is acted on once at most if the cache holds two windows.
THEOREM EnvelopesActOnce == PeerSpec => []EachEnvelopeOnce
<1>1. PeerInv => EachEnvelopeOnce
  <2> SUFFICES ASSUME PeerInv, CacheCovers, NEW n \in 1..MaxSent PROVE handled[n] <= 1
    BY DEF EachEnvelopeOnce
  <2>1. CASE n \in 1..Len(wire)
    BY <2>1 DEF PeerInv, CacheInv
  <2>2. CASE n \notin 1..Len(wire)
    <3>1. n > Len(wire) /\ Len(wire) \in Nat
      BY <2>2 DEF PeerInv, PeerTypes
    <3> QED
      BY <3>1 DEF PeerInv, PeerTypes
  <2> QED
    BY <2>1, <2>2
<1> QED
  BY <1>1, PeerInvAlways, PTL

\* Two sides that both hold the peering as active mean the same request and the same
\* capabilities, and neither is stuck, for any number of requests and envelopes that are
\* lost, late, repeated or crossed, as long as the cache holds two windows.
THEOREM HandshakesAgree == PeerSpec => []HandshakeAgrees
<1>1. PeerInit /\ CacheCovers => HandshakeInv
  <2> SUFFICES ASSUME PeerInit PROVE HandshakeInv
    OBVIOUS
  <2>1. \A n, x : ~Accept(n, x) /\ ~Request(n, x)
    BY DEF PeerInit, Accept, Request
  <2>2. \A x \in Sides : peer[x].status = "none" /\ peer[x].dir = "none" /\ op[x].pc = "idle"
    BY DEF PeerInit, NoPeer, NoOp
  <2> QED
    BY <2>1, <2>2 DEF HandshakeInv, WireInv, RowInv, RowOk, ActiveInv, ActiveOk, OpInv, OpOk
<1>2. PeerInv /\ (CacheCovers => HandshakeInv) /\ [PeerNext]_peerVars => (CacheCovers => HandshakeInv)'
  BY HandshakeStep DEF CacheCovers
<1>3. PeerInv /\ (CacheCovers => HandshakeInv) => HandshakeAgrees
  <2> SUFFICES ASSUME PeerInv, CacheCovers => HandshakeInv PROVE HandshakeAgrees
    OBVIOUS
  <2>1. PeerTypeOK
    <3>1. \A x \in Sides : peer[x] \in PeerRow /\ op[x] \in OpRow
      BY DEF PeerInv, PeerTypes
    <3> QED
      BY <3>1 DEF PeerInv, PeerTypes, CacheInv, PeerTypeOK, PeerRow, OpRow
  <2> QED
    BY <2>1, HandshakeInvAgrees DEF PeerInv, HandshakeAgrees
<1>4. PeerInit => (CacheCovers => HandshakeInv)
  BY <1>1
<1> QED
  BY <1>2, <1>3, <1>4, PeerInvAlways, PTL DEF PeerSpec

=============================================================================
