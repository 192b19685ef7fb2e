------------------------------ MODULE Interest ------------------------------
(***************************************************************************)
(* What a peer is sent: the Bloom filters of its frontier                  *)
(* (server/src/federation/bloom.rs) as they are announced, extended by     *)
(* deltas and probed, the mode of the direction, and the choice of peers   *)
(* for an object (federation/routing.rs).  Filters are real bit sets with  *)
(* false positives: a key has two hashes, and the positions are computed   *)
(* as in the code, wrapped to the width of the integers.                   *)
(***************************************************************************)
EXTENDS Integers, FiniteSets

CONSTANTS
  Keys,       \* user keys
  HashA, HashB,  \* key -> hash, below Wrap
  Wrap,       \* 2^64 in the code
  Bits,       \* m
  HashCount,  \* k
  Unit,       \* m must be a multiple of it (64)
  LocalKeys,  \* keys of this instance's users
  High, Low   \* HIGH_THRESHOLD, LOW_THRESHOLD in percent

VARIABLES
  row,      \* peer_frontiers of the peer, NoRow before its first announcement
  closure,  \* the keys the peer is interested in: visible, and the expanded part
  told,     \* the keys the row stands for
  users,    \* local active users
  inbound,  \* the announcement or delta being handled
  measured  \* history: some classification saw a local user

interestVars == <<row, closure, told, users, inbound, measured>>

NoRow == [vis |-> {}, exp |-> {}, mode |-> "none"]
Nothing == [kind |-> "none", vis |-> {}, exp |-> {}, keys |-> [vis |-> {}, exp |-> {}], prior |-> "filtered"]
All == 0 .. Bits - 1

-----------------------------------------------------------------------------
(* The filter.                                                             *)

\* new_empty(), from_parts().
ParamsOk(k, m) == k \in 1 .. 32 /\ m >= Unit /\ m % Unit = 0
\* bit_positions(): Kirsch-Mitzenmacher with wrapping arithmetic.
BitPositions(key) == {((HashA[key] + ((i * HashB[key]) % Wrap)) % Wrap) % Bits : i \in 0 .. HashCount - 1}
\* insert() for every key.
Built(keys) == UNION {BitPositions(k) : k \in keys}
Contains(filter, key) == BitPositions(key) \subseteq filter
\* or_mask().
OrMask_Set(filter, mask) == mask
OrMask(filter, mask) == filter \union mask
Hits(filter) == Cardinality({u \in users : Contains(filter, u)})

-----------------------------------------------------------------------------
(* The mode, and the peers an object goes to.                              *)

\* classify_mode(): without local users there is nothing to measure.
ClassifyMode(mode, filter) ==
  IF users = {} THEN mode
  ELSE IF mode = "filtered" /\ 100 * Hits(filter) >= High * Cardinality(users) THEN "all"
  ELSE IF mode = "all" /\ 100 * Hits(filter) < Low * Cardinality(users) THEN "filtered"
  ELSE mode

Classes == {"edge", "authored", "user_status", "thread_status", "move"}
\* ForwardingClass::admits().
Admits(class, key) ==
  \/ class \in {"authored", "thread_status", "user_status"} /\ Contains(row.vis, key)
  \/ class \in {"edge", "user_status"} /\ Contains(row.exp, key)
\* peers_interested_in(), for this active peer: moves bypass the filters.
Interested(class, key) ==
  \/ class = "move"
  \/ /\ row # NoRow /\ ParamsOk(HashCount, Bits)
     /\ row.mode = "all" \/ Admits(class, key)

-----------------------------------------------------------------------------
(* Steps.                                                                  *)

InterestInit ==
  /\ row = NoRow /\ users = {} /\ inbound = Nothing /\ measured = FALSE
  /\ closure = [vis |-> {}, exp |-> {}] /\ told = closure

\* The peer's reverse frontier changes (between its requests); the expanded part is a part of it.
ClosureChanges(v, e) ==
  /\ inbound = Nothing /\ e \subseteq v /\ closure' = [vis |-> v, exp |-> e]
  /\ UNCHANGED <<row, told, users, inbound, measured>>
UserJoins(u) ==
  /\ users' = users \union {u}
  /\ UNCHANGED <<row, closure, told, inbound, measured>>
UserLeaves(u) ==
  /\ users' = users \ {u}
  /\ UNCHANGED <<row, closure, told, inbound, measured>>

\* handle_frontier_announce() reads the mode before the row is written; a peer whose
\* closure is too large announces the sentinel, all ones.
AnnounceReads(sentinel) ==
  /\ inbound = Nothing
  /\ inbound' = [kind |-> "announce", keys |-> closure,
                 vis |-> IF sentinel THEN All ELSE Built(closure.vis),
                 exp |-> IF sentinel THEN All ELSE Built(closure.exp),
                 prior |-> IF row = NoRow THEN "filtered" ELSE row.mode]
  /\ UNCHANGED <<row, closure, told, users, measured>>
\* apply_inbound_frontier().
AnnounceApplies ==
  /\ inbound.kind = "announce"
  /\ row' = [vis |-> inbound.vis, exp |-> inbound.exp, mode |-> ClassifyMode(inbound.prior, inbound.vis)]
  /\ told' = inbound.keys /\ inbound' = Nothing
  /\ measured' = (measured \/ users # {})
  /\ UNCHANGED <<closure, users>>

\* handle_frontier_delta(): a peer that only grew sends the masks of what is new; the row
\* is read, merged and written back.
DeltaReads ==
  /\ inbound = Nothing /\ row # NoRow
  /\ told.vis \subseteq closure.vis /\ told.exp \subseteq closure.exp
  /\ inbound' = [kind |-> "delta", keys |-> closure,
                 vis |-> OrMask(row.vis, Built(closure.vis \ told.vis)),
                 exp |-> OrMask(row.exp, Built(closure.exp \ told.exp)),
                 prior |-> row.mode]
  /\ UNCHANGED <<row, closure, told, users, measured>>
DeltaApplies ==
  /\ inbound.kind = "delta"
  /\ row' = [vis |-> inbound.vis, exp |-> inbound.exp, mode |-> ClassifyMode(inbound.prior, inbound.vis)]
  /\ told' = inbound.keys /\ inbound' = Nothing
  /\ measured' = (measured \/ users # {})
  /\ UNCHANGED <<closure, users>>

InterestNext ==
  \/ \E v, e \in SUBSET Keys : ClosureChanges(v, e)
  \/ \E u \in LocalKeys : UserJoins(u) \/ UserLeaves(u)
  \/ \E s \in BOOLEAN : AnnounceReads(s)
  \/ AnnounceApplies \/ DeltaReads \/ DeltaApplies
InterestSpec == InterestInit /\ [][InterestNext]_interestVars

-----------------------------------------------------------------------------
(* Properties.                                                             *)

\* "False positives are possible; false negatives are not": whatever deltas were merged,
\* an object about a key the peer has told of is sent to it, by the filter of its class.
NoFalseNegative ==
  /\ \A k \in told.vis : row # NoRow => \A c \in {"authored", "thread_status", "user_status"} : Interested(c, k)
  /\ \A k \in told.exp : row # NoRow => \A c \in {"edge", "user_status"} : Interested(c, k)

\* "fresh peering never starts in all-mode": the mode is "all" only if some local user
\* was there to measure.
FreshNeverAll == row.mode = "all" => measured

\* What a peer asked for reaches it, and no more than it asked for on a new peering.
FiltersSound == NoFalseNegative /\ FreshNeverAll
=============================================================================
