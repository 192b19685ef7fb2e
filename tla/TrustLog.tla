------------------------------ MODULE TrustLog ------------------------------
(***************************************************************************)
(* The signed trust-edge log of one (source, target) pair at the source's  *)
(* home: set_trust_edge() and delete_trust_edge() of server/src/users.rs,  *)
(* compute_prior_edge_hash() and erase_trust_edge_chain() of signing.rs,   *)
(* and the view current_trust_edges.                                       *)
(*                                                                         *)
(* A request takes its timestamp, then waits for BEGIN IMMEDIATE, then     *)
(* does the rest in one transaction: two steps, so that requests may       *)
(* commit in another order than they were stamped.  Timestamps are whole   *)
(* seconds.  Canonical hashes and row ids are numbers that stand for their *)
(* rank in byte order; a new object gets any rank that is free, as SHA-256 *)
(* and UUIDv4 do.                                                          *)
(***************************************************************************)
EXTENDS Integers, Sequences, FiniteSets

CONSTANTS
  Tabs,      \* requests of the source that overlap
  Ranks,     \* byte-order ranks of hashes and ids
  MaxClock,  \* bound: seconds that pass
  MaxLog     \* bound: mutations

ASSUME LogConfig ==
  /\ Ranks \subseteq Nat \ {0}
  /\ MaxClock \in Nat /\ MaxLog \in Nat

VARIABLES
  log,      \* trust_edges rows of the pair in the order they were written
  payload,  \* hashes whose signed_objects row still has its payload
  clock,    \* chrono::Utc::now(), in seconds
  asked     \* per tab, the request that waits for the write lock

vars == <<log, payload, clock, asked>>

NoHash == 0
NoClick == [stance |-> "none", at |-> 0]

Init == log = <<>> /\ payload = {} /\ clock = 0 /\ asked = [b \in Tabs |-> NoClick]

Rows == {log[i] : i \in 1..Len(log)}

\* Rows tied at MAX(created_at).
Tied == {r \in Rows : \A q \in Rows : q.at <= r.at}

\* compute_prior_edge_hash(): of those, pick_max_canonical_hash().
PriorHash ==
  IF Rows = {} THEN NoHash
  ELSE CHOOSE h \in {r.hash : r \in Tied} : \A r \in Tied : r.hash <= h

\* current_trust_edges: ORDER BY created_at DESC, id DESC, the first row.
Before(q, r) == q.at < r.at \/ (q.at = r.at /\ q.id <= r.id)
Shown == CHOOSE r \in Rows : \A q \in Rows : Before(q, r)
Active == Rows # {} /\ Shown.stance # "neutral"

\* The time, truncated to whole seconds, is taken before the transaction.
Stamp(b, stance) ==
  /\ asked[b] = NoClick
  /\ Len(log) + Cardinality({c \in Tabs : asked[c] # NoClick}) < MaxLog
  /\ asked' = [asked EXCEPT ![b] = [stance |-> stance, at |-> clock]]
  /\ UNCHANGED <<log, payload, clock>>

\* The payload is the stance, the time and the prior hash, and
\* idx_trust_edges_canonical_hash_unique refuses a second row for it.
Twice(b) ==
  \E r \in Rows : r.stance = asked[b].stance /\ r.at = asked[b].at /\ r.prior = PriorHash

\* sign_trust_edge() and the INSERT.
Append1(b) ==
  /\ ~Twice(b)
  /\ \E h \in Ranks \ {r.hash : r \in Rows}, i \in Ranks \ {r.id : r \in Rows} :
       log' = Append(log, [hash |-> h, id |-> i, at |-> asked[b].at,
                           prior |-> PriorHash, stance |-> asked[b].stance])
  /\ asked' = [asked EXCEPT ![b] = NoClick]
  /\ UNCHANGED clock

SetTrust(b) ==
  /\ asked[b].stance \in {"trust", "distrust"}
  /\ Append1(b)
  /\ payload' = payload \cup {log'[Len(log')].hash}

\* erase_trust_edge_chain(): every row of the pair but the new one.
Survivors_Active == {log'[Len(log')].hash} \cup (IF Active THEN {Shown.hash} ELSE {})
Survivors == {log'[Len(log')].hash}

DeleteTrust(b) ==
  /\ asked[b].stance = "neutral" /\ Active
  /\ Append1(b)
  /\ payload' = Survivors

\* NoTrustEdge, or the unique index: the transaction is rolled back.
Refused(b) ==
  /\ asked[b] # NoClick
  /\ (asked[b].stance = "neutral" /\ ~Active) \/ Twice(b)
  /\ asked' = [asked EXCEPT ![b] = NoClick]
  /\ UNCHANGED <<log, payload, clock>>

Tick ==
  /\ clock < MaxClock
  /\ clock' = clock + 1
  /\ UNCHANGED <<log, payload, asked>>

Next ==
  \/ \E b \in Tabs : SetTrust(b) \/ DeleteTrust(b) \/ Refused(b)
  \/ \E b \in Tabs, s \in {"trust", "distrust", "neutral"} : Stamp(b, s)
  \/ Tick

Spec == Init /\ [][Next]_vars

-----------------------------------------------------------------------------
(* Properties *)

LogTypeOK ==
  /\ log \in Seq([hash : Ranks, id : Ranks, at : 0..MaxClock, prior : Ranks \cup {NoHash},
                  stance : {"trust", "distrust", "neutral"}])
  /\ payload \subseteq Ranks
  /\ clock \in 0..MaxClock
  /\ asked \in [Tabs -> [stance : {"none", "trust", "distrust", "neutral"}, at : 0..MaxClock]]

\* users.rs takes BEGIN IMMEDIATE because otherwise "two writers could both
\* read the same prior_edge_hash and fork the signed chain": no two edges the
\* home signs for a pair have the same predecessor, so that no peer refuses
\* one of them as chain_fork.
NoLocalFork ==
  \A i, j \in 1..Len(log) : log[i].prior = log[j].prior => i = j

\* Row i is stamped no later than a row written before it: they share a
\* second, or the later stamp got the write lock first.
Behind(i) == \E k \in 1..(i - 1) : log[i].at <= log[k].at

\* Two rows cite the same predecessor only when the first of them is behind
\* the row it cites, and a row that is not behind is cited by the next.
ForksOnlyBehind ==
  /\ \A i, j \in 1..Len(log) : i < j /\ log[i].prior = log[j].prior =>
       \E k \in 1..(i - 1) : log[k].hash = log[i].prior /\ log[i].at <= log[k].at
  /\ \A i \in 1..(Len(log) - 1) : Behind(i) \/ log[i + 1].prior = log[i].hash

\* The payloads that backfill can still serve are those since the last
\* revocation, the revocation included.
ServesSinceNeutral ==
  payload = {log[i].hash : i \in {k \in 1..Len(log) :
               \A j \in 1..Len(log) : log[j].stance = "neutral" => j <= k}}

\* "The view filters out neutral rows, so the trust graph immediately sees no
\* edge": an edge that a revocation erased is shown only when a revocation is
\* behind it.
ErasedIsHidden ==
  Active /\ Shown.hash \notin payload =>
    \E i \in 1..Len(log) : log[i].stance = "neutral" /\ Behind(i)

\* However requests overlap, the log forks, and an erased edge is still shown,
\* only where a row was written behind one with the same or a later stamp;
\* elsewhere every row cites the one before it; and the bytes since the last
\* neutral edge are those that can be served.
LogIsLinear == LogTypeOK /\ ServesSinceNeutral /\ ForksOnlyBehind /\ ErasedIsHidden
=============================================================================
