# TLA+ models of Prismoire

Prismoire is a federated forum. Every instance is one Rust server with one
SQLite database; users trust or distrust each other by signed *trust edges*,
and instances push signed objects (edges, posts, profiles, moves, statuses) to
the peers whose announced interest matches. This directory models the parts of
the server, and of its web client, where concurrency, loss, reordering, stale
reads and limits meet. TLC checks the models on small instances; TLAPS proves
what matters most about thirteen of them for every size.

`PROJECT.json` lists the parts of the system, the runs, the source lines each
definition stands for, the hazards with the properties that cover them, the
findings and the theorems.

## Running it

    tlc -workers 2 -config DeliverySuite.cfg DeliverySuite
    tlapm OutboundQueueProofs.tla

The table under *Runs* names the module and the configuration of each run. A run
marked *violation* is expected to end with a counterexample: it states what a
comment of the repository says and shows that the code does otherwise.

## The system and its parts

A local mutation (`users.rs`, `posts.rs`, ...) signs an object, stores it in
`signed_objects` and hands it to the **forwarder**, which asks the **interest
filters** which peers want it, picks at most K of them and gives a copy to the
**outbound queue** of each. A worker per peer sends batches over HTTP, in
envelopes that the **peering** handshake made acceptable. At the receiver a push
route passes the **rate limiter**, verifies the object, stores it and *projects*
it into the tables that pages read. What cannot be projected yet is buffered,
deferred or left stored until a later event projects it; a gap in an edge chain
is closed by **backfill**, the history of an author by **recovery**. An accepted
object goes to the receiver's own forwarder, and so on through the network. Who
is interested in whom follows from the **trust graph**, which is also what a
reader's **listings**, **thread pages** and **rooms** are ranked and filtered by.

| Part | Source (`server/src/...`) | Module | Checked in run | Proofs |
|---|---|---|---|---|
| Outbound queue, drain workers | `federation/outbound_queue.rs` | `OutboundQueue` | `outbound_live`, `delivery` | `OutboundQueueProofs`, `OutboundBudgetProofs` |
| Gossip forwarder | `federation/forwarder.rs` | `Gossip` | `gossip` | `DeliveryProofs` |
| Interest filters, routing | `federation/bloom.rs`, `routing.rs`, `frontier.rs` | `Interest` | `delivery` | `TrustProofs` |
| Peering handshake, envelopes | `federation/peering.rs`, `envelope.rs`, `middleware.rs`, `admin_federation.rs` | `Peering` | `delivery` | `HandshakeProofs` |
| Pull of chains and hashes | `federation/backfill.rs` | `ChainWalk` | `delivery` | `DeliveryProofs` |
| Trust-edge receive path, projection, orphan buffer, edge backfill | `federation/edges.rs`, `remote_users.rs`, `edge_backfill.rs` | `EdgeReceiver` | `edges_safe`, `progress`, `edges_revoke` | `EdgeReceiverProofs` |
| Moves and homes | `federation/moves.rs`, `remote_users.rs`, `users.rs`, `registration.rs` | `Moves`, `HomeRegister` | `federation` | `FederationProofs` |
| User and thread statuses | `federation/user_status.rs`, `thread_status.rs` | `Status` | `federation` | `FederationProofs` |
| Registration with a prior home | `federation/registration.rs`, `prior_home*.rs` | `Registration` | `federation` | `FederationProofs` |
| Content receiver | `federation/content.rs`, `admin_rm.rs` | `RemoteContent` | `federation` | |
| Recovery, author backfill | `federation/prior_home_recovery.rs`, `backfill.rs` | `Recovery` | `federation` | |
| Trust-edge log | `users.rs`, `signing.rs` | `TrustLog` | `trust`, `trustlog_fork` | `TrustProofs` |
| Trust scores | `trust.rs` | `TrustScores` | `trust` | |
| Graph cache, pending deltas | `trust.rs`, `users.rs` | `TrustOverlay` | `progress` | `TrustProofs` |
| Frontier announcements | `federation/frontier.rs` | `Frontier` | `trust` | |
| Reverse-frontier store | `federation/frontier_store.rs` | `FrontierStore` | `trust` | |
| Federation rate limiters | `federation/*_rate_limit.rs` | `RateLimits` | `home` | `HomeProofs` |
| Accounts, sessions, invites, moderation, deletion | `auth.rs`, `session.rs`, `setup.rs`, `invites.rs`, `admin.rs`, `privacy.rs` | `Accounts` | `home` | |
| Attachments and their cache | `attachments/`, `federation/attachment*.rs`, `posts.rs` | `Attachments` | `home` | |
| Runtime configuration, storage budget | `admin_config.rs`, `instance_config.rs` | `RuntimeConfig` | `home` | `HomeProofs` |
| Favorite rooms | `favorites.rs` | `Favorites` | `home`, `favorites_race` | |
| Reports | `reports.rs`, `federation/reports.rs` | `Reports` | `home` | |
| Thread listings | `threads/list_threads.rs`, `common.rs`, `create_*.rs` | `Listing` | `reading` | |
| Thread page | `threads/get_thread.rs`, `web/.../[thread]/+page.svelte` | `ThreadView` | `reading` | |
| Room listing | `rooms.rs`, `web/.../rooms/+page.svelte` | `RoomPages` | `reading` | |

The full list, with the reason for every part that is left out, is under
`components` in `PROJECT.json`.

## Conventions

- A step ends where another task can run: at an await, at the end of a critical
  section, at the commit of a transaction. Reads the code does before
  `BEGIN IMMEDIATE` are steps of their own, so they can be stale.
- Loops that run while a lock or a write transaction is held are one step per
  iteration in `OutboundQueue` and `EdgeReceiver`, where the holder variable
  (`mutex`, `tx`) keeps the others out; elsewhere a transaction is one step.
- Signed objects, keys and hashes are model values or small numbers. An object
  that does not decode or verify is refused without a trace and is left out.
- What bounds a model and not the code is a constant named `Max...` or `Last...`
  whose comment calls it a bound; it cuts behaviours off in a guard. A `Max...`
  whose comment names a constant of the code is a limit of the code.
- A variable marked *history* records what happened for a property to speak of;
  no guard reads it.
- An operator written just above a definition and named after it
  (`Sibling_None`, `HeadStale_Never`) is a mutant of it: the same code with a plausible
  bug. Every checked property fails on one of them, as listed under `mutants`;
  the specifications never use them.
- *Suites.* `DeliverySuite`, `FederationSuite`, `TrustSuite`, `HomeSuite`,
  `ReadingSuite` and `ProgressSuite` check several components in one run. The
  variable `part`, drawn in `Init`, names the component that runs; the others
  rest, in their initial state or in the value `"off"`. The components of a suite
  thus do not interact there: a suite is a disjoint union of state spaces, no
  larger than their sum. It binds the constants of each component and conjoins
  what belongs to one promise into one property. Where code of two components
  does interact, it is one module: the push path with backfill and sweep
  (`EdgeReceiver`), moves with registration and trust codes (`Moves`), the
  handlers with the rebuild loop (`TrustOverlay`), the server with the client
  (`ThreadView`, `RoomPages`, `Favorites`).
- Deadlock is not checked in the suites and the bounded runs: a behaviour that
  has used up its bounds stops. That work under way does go on is stated as
  liveness instead, in `outbound_live`, `gossip` and `progress`.
- A module follows the whole control of the code it models. Some of its steps and
  fields (error answers, counters, the pages a client discards) matter to no
  property; they are there so that the steps that do matter come in the order and
  under the conditions of the code.

## Runs

State counts are of distinct states.

| Run | Module, configuration | Properties | States |
|---|---|---|---|
| `outbound_live` | `OutboundQueue`, `OutboundQueue_live.cfg` | `NoLostWakeup`, `OneWorker`, `BatchIsVisible`, `FirstReceiptInOrder`; under fairness `QueuesEmpty` | 165k |
| `delivery` | `DeliverySuite` | `Conservation`, `FirstReceiptInOrder`, `HandshakeAgrees`, `EachEnvelopeOnce`, `FiltersSound`, `WalkIsExact` | 495k |
| `gossip` | `MCGossip`, `Gossip_kite.cfg` | `FanoutIsBounded`; under fairness `GossipCarriesTheRest` | 243k |
| `edges_safe` | `MCEdgeReceiver`, `EdgeReceiver_safe.cfg` | `ChainIntact`, `NoStrandedOrphan`, `RevokedIsErased`, `GapsFetchedOnce` | 740k |
| `progress` | `ProgressSuite` | `PurgedIsReflected`; under fairness `GapsHeal`, `Settles` | 30k |
| `federation` | `FederationSuite` | `HomeFollowsMoves`, `ImplementsRegister`, `StatusConverges`, `RegistrationSound`, `ContentConverges`, `ErasureStands`, `RecoveryIsComplete` | 758k |
| `trust` | `TrustSuite` | `LogIsLinear`, `WalksAgree`, `PeerFollows`, `StoreIsFrontier` | 853k |
| `home` | `HomeSuite` | `StaleReadsBounded`, `AttachmentsStand`, `ConfigSound`, `LimitsHold`, `ReportsArrive`, `PinsDense` | 510k |
| `reading` | `ReadingSuite` | `TripIsWhole`, `ThreadIsWhole`, `RoomsAreWhole` | 291k |
| `trustlog_fork` | `TrustLog`, `TrustLog_fork.cfg` | *violation* of `NoLocalFork` | |
| `edges_revoke` | `MCEdgeReceiver`, `EdgeReceiver_revoke.cfg` | *violation* of `RevocationTakesEffect` | |
| `favorites_race` | `Favorites`, `Favorites_race.cfg` | *violation* of `FavoritesAreLive` | |

Symmetry is used where model values are interchangeable and no liveness is
checked: the two peers in `delivery`, the handlers in `edges_safe`, the announcers,
handlers and tabs in `trust`, the tabs of `Favorites` in `home`.

## Delivery between instances

### OutboundQueue

Models `outbound_queue.rs` completely: `enqueue()`, `drop_peer()`, the worker
of `spawn_drain_worker()`, `take_batch()`, `requeue_front()`,
`check_and_remove_if_stopped()` and the flag updates.

*State.* The fields of `PeerQueue` and `OutboundQueuesState` are functions of
the peer (`items`, `bytes`, `spawned`, `inFlight`, `stopped`, and `entry` for
the presence in the map); `permit` is the permit stored in the `Notify`;
`timers` counts the spawned backoff sleeps. `worker` and `caller` say where the
tasks are, `batch`, `object`, `target` are their locals. `live[c]` records that
the `Notify` a caller cloned still belongs to the entry in the map: after a
removal and a new insertion, a late `notify_one()` goes to nobody. `next`,
`received` and `settled` are history.

*Actions.* `enqueue()` is `EnqueueLock`, one `DropOldestOwn` or `EvictLargest`
per round of its loops, one of the three ends (`RejectOversize`,
`RejectGlobal`, `Push`), then, outside the lock, `Spawn` and `NotifyOne`. The
worker is `Wake`, two checks for a stop, `TakeLock` ... `TakeEnd`, the
request, and on failure `RequeueLock` ... `RequeueEnd`, `ClearInFlight`,
`ArmTimer`. The request has the three outcomes of `dispatch_one()`; a transient
one may or may not have been delivered. `Expire` is the clock.

*Properties.* `NoLostWakeup` (an object or a stop request always has someone
about to look at it), `OneWorker`, `BatchIsVisible` (what `wait_idle()` relies
on), `FirstReceiptInOrder` (a peer first sees objects in the order they were
enqueued) and `Conservation`: an object is in one place, the byte counters are the
sums of what is queued, and a queue with its batch, which `requeue_front()` puts
back without a look at the caps, exceeds the cap on objects by one batch at most.
(Nothing is said of that excess in bytes.) `QueuesEmpty` is the liveness: every
object leaves the queue even if the peer fails for ever, and a dropped peer's entry
goes away.

*Bounds.* `outbound_live` has one peer, batches of one and three objects, enough for
a batch in flight, one requeued behind another and one arriving meanwhile; two
callers for every race at the unlock (a third would only repeat one of the two
roles, spawner or late notifier); sizes of one to three bytes with a global cap of
one below the peer's of two, so that one peer reaches every eviction. `delivery` has
two peers that compete for three bytes in all, one caller, two objects of two routes
and of one, two and four bytes, and batches of two. All its safety properties are
also proved without bounds.

*Fairness.* Weak fairness of every task: the runtime polls a ready task, a
request ends at the latest with the transport's timeout, a sleep ends, and
objects age. Nothing is assumed of the peer.

### Gossip

Models `forward_inner()` and `get_or_init_entry()` of `forwarder.rs` at every
instance of a network, behind a push handler that looks the hash up outside its
transaction and applies the object once. The dedup-LRU is keyed by hash, so one
object suffices. `lru[i]` keeps every `ForwardingEntry` ever made and `cache[i]`
the one in the cache, since a concurrent insert may replace an entry that a
fanout still holds. `Interested[i]` is the ordered candidate list that
`peers_interested_in()` and the age ceilings leave. The outbound queues are
reliable here; `OutboundQueue` models when they are not.

The run takes four instances. The origin has three candidates and K = 2, so it
leaves `d` to the relays `b` and `c`, which also relay to each other and back. There
are two handler threads per instance, an object that is a move (offered onwards even
as a duplicate) or not, one forgotten entry and one failing candidate query. `FanoutIsBounded` joins the cap per entry, the
bits that record exactly what was enqueued, and no echo to the only source.
`GossipCarriesTheRest` is what the comment in `forwarder.rs` promises of relays;
it depends on the network (K must leave a relay room for a peer nobody else
reaches), and the run says so for this network only.

*Fairness.* Weak fairness of handlers, and of the delivery of a queued copy,
which `OutboundQueue` guarantees for a healthy peer.

### Interest

The Bloom filters of `bloom.rs` as real bit sets: `bit_positions()` from two
hashes, wrapped to the width of the integers, `insert()`, `contains()`, the
`or_mask()` of a delta; the classification of a direction as filtered or all-mode with its
hysteresis, and the choice of peers per class of object in `routing.rs`. `row` is
the peer's `peer_frontiers` row, `told` the keys it stands for, `inbound` the
announcement or delta between its read and its write. `FiltersSound`: no key the
peer told of is ever missed, and a peering is not switched to all-mode before a
classification has seen a local user. Three keys with overlapping positions in
eight bits give false positives in every filter; the proof covers any hashes.

### Peering

Both ends of the handshake: what the operator does (`OperatorInitiate`,
`OperatorAccept` ... `AcceptCommits`, `OperatorDefederate` ...), what the handlers
answer (`Deliver`), and the network, which keeps every envelope and may deliver
it again, late or never. `peer[x]` is the `peers` row of the other side, `lru[x]`
the `NonceLru`. `HandshakeAgrees`: two active rows mean the same request with the
same capabilities, and accepting never leaves a peer active here and pending
there. `EachEnvelopeOnce`: a handler runs at most once per nonce. Both are stated
for a replay cache that holds two clock windows of envelopes (`CacheCovers`, which the
constants of the run meet: three places for windows of two); a cache that is flushed
by more traffic than that within a window is assumed away. Two requests, five
envelopes: enough for crossing requests, a second attempt after a lost answer, and a
replay. `handle_peer_response()` reads the row and updates it in two statements that
the model takes as one step; domains, and with them the answer `domain_taken`, are
left out.

### ChainWalk

The keyset pages of `/edges/backfill` and `/moves/backfill` over rows that arrive
with any timestamp and are erased between two pages, and the three-way answer of
`/backfill/by-hash`. `WalkIsExact`: a walk that ends with `complete: true`
delivered every row that was servable all through it, repeated none, and a lookup
accounts for every hash that was held. Rows tie in `created_at`, pages hold two.

## What an instance keeps of others

### EdgeReceiver

How an instance receives the chain of edges of one (source, target) pair:
`apply_one_edge()` with its lookups, its transaction for every outcome of
`try_project_trust_edge()`, the orphan buffer with
`drain_pending_orphans_after()`, `sweep_pending_projections()` after a profile
hydrates the source, TTL eviction, and the single-page backfill of
`request_edge_predecessor()` with its permits. `Prior` is a parameter: it may
hold forks and revocations. `db` holds the committed tables (`known` endpoints,
`stored` objects with erasure, `projected`, `pending`, `frontier`), `wdb` the
tables as the open write transaction `tx` sees them; `issued` and `served` are
the home's rows and the payloads it still has; `wire` the copies under way.

`ChainIntact`: readers see one chain, in order, each edge with its signed object.
`NoStrandedOrphan`: no edge waits once its predecessor is projected.
`RevokedIsErased`: no path brings back what a revocation erased.
`GapsFetchedOnce`: one fetch per gap, within the permits. In `progress`,
`GapsHeal`: three edges are projected in any order of arrival unless a push is
lost, and the gap that up to two lost pushes leave is closed.

*Bounds.* Mishaps (a lost copy, an extra copy, a rollback or transport fault, an
eviction) are bounded one by one and together. `edges_safe` allows one: for
safety a lost copy is a copy delayed for ever, which the interleavings contain
anyway; an evicted orphan is again an edge that was not received; a rollback
leaves the copy on the wire. Four edges are enough for a gap of two, a fork and a
revocation with a successor. The permits never run out in these instances, and no
gap is longer than a page. All four properties are proved without bounds.

*Fairness.* Handlers and tasks are polled (weakly fair); SQLite hands the write
lock on under its busy timeout (strongly fair `Begin`); a queued copy is delivered
although handlers may be busy (strongly fair `Push`, what `OutboundQueue` does for
a healthy peer). No profile and no eviction is needed.

### Moves and HomeRegister

Receipt of move declarations in `moves.rs` with its three steps (dedup and skew;
the predecessor and the home read outside the transaction; the transaction), the
stub and the row that follow `user_homes`, trust codes that seed a home, the move
a registration publishes, and the disposal of keys and sessions when the user
left. `HomeRegister` is the abstract specification: a register that always holds
the latest of the declarations it has seen. `ImplementsRegister` is the
refinement, with `known` as the declarations seen, `cur` as the value and
`minted` as the end of the promise: a registration writes its own move into the
register whatever was there. `HomeFollowsMoves` adds what the register does not
say: the users row agrees (unless a trust code seeded it), one genesis is on file, the home *at* a time
(`resolve_home_at_t`) is the home now, and nothing of a user who left stays.
Six declarations tie in time, cross, name a missing predecessor and a
different genesis; two requests run at once.

### Status

Chains of user and thread statuses at the old home, the new home and a third
instance: issuing (the clock read before the transaction for users, inside it
for threads), the receiver's duplicate check and its transaction with the
authority at the object's time, the check that the predecessor is held,
latest-wins by (time, hash), and the mirror `threads.locked`. `StatusConverges`:
no instance holds a status without its predecessor; a receiver's head is the
latest of all it holds; away from home the lock is what the head says. Three
issuers and two pushes give concurrent issue at one home and at both homes; the
order of the hashes is drawn in `Init`.

### Registration

`begin()`, `complete()` and the search for the prior home (the declared home,
then local evidence, then batches of peers), with nonces and passkey challenges
that expire and are consumed in the transaction. `RegistrationSound`: one account
per key however many ceremonies overlap, the stub's id survives promotion, and
the declared home's "not here" ends the search. Peers may answer anything each
time.

### RemoteContent

Every class of object on `/content` (profile, thread, revision, retraction,
deactivation, admin removal), the reads before the transaction, the transaction
that rolls back when an INSERT meets an existing row, the sweeps that project
what was waiting, the advisory admin-rm route, and `delete_room()` beside them.
`ContentConverges`: whatever the order, number and overlap of deliveries, a thread
and its opening post are projected once their author is known, the revision count
is the highest revision, and what was acknowledged is stored. `ErasureStands`: erased bytes stay
erased under the first authority, though a request that read "not stored"
earlier still commits; no revision whose bytes a deactivation erased is served. (The
payloads of the trust edges that a deactivation also erases are not in this module.) The cap on reports counts those of one signing instance; the model runs
within one hour of it. Four loads of objects for one thread, each with one kind of
trouble; two requests at once.

### Recovery

`drive_recovery()` and `run_author_backfill()`: walks over pages of the prior home
and of peers in the order of their last handshake, retry after throttling, the
page cap, the single flight per author and the slots per peer, while the stock at
the sources changes. `RecoveryIsComplete`: "complete" means that every row served
throughout was brought, a successful backfill left the author hydrated, the peer
that delivered the edge is among those asked, and the bounds on pulls hold.

## Trust

### TrustLog

The signed log of one pair at the source's home: `set_trust_edge()`,
`delete_trust_edge()`, `compute_prior_edge_hash()`, the erasure, and the view
`current_trust_edges`. Requests from two tabs are stamped, in whole seconds as in the
code, before they wait for the write lock, and commit in any order; a new hash or row
id has any free rank, as SHA-256 and UUIDv4 give it, and a hash that is taken is
refused by the unique index (`Twice`). A row is *behind* when it was stamped no later
than a row written before it. `LogIsLinear`: only behind a row can the log fork, and
every other row is cited by the next; the view shows an erased edge only if a
revocation is behind; and the payloads served are those since the last neutral row,
wherever rows fell. `NoLocalFork`, that there is no fork at all, is what `trustlog_fork`
*violates*.

### TrustScores

`forward_bfs()`, `reverse_bfs()` and the viewer's `apply_delta_overlay()` as pure operators over
all graphs of four users (with one edge left out, to halve their number), against
a definition by paths: `WalksAgree` says that the forward walk of a reader who
distrusts nobody finds the best path of each group, the reverse walk gives the same score from the other end, and
an overlay on the cached graph gives the scores of a rebuild. The overlay needs both
users in the index of the cached graph: a viewer or target no edge touched is
excepted, as the code leaves it to the rebuild. Scores are exact
integers: `Full` is divisible by the decay and the penalty at every depth.

### TrustOverlay

The two trust-edge handlers and `rebuild_loop()`. A request snapshots the cached
graph, commits, draws a sequence number and records its delta; the loop takes the
high-water mark, reads the two tables one after the other, swaps the graph in and
purges the deltas up to the mark. `PurgedIsReflected`: what a purge drops is in
the graph, failed rebuilds included. `Settles`: when no rebuild fails, the viewer
is finally shown the stances of the database after two overlapping clicks. (A
failed rebuild is not retried before the next notification; until then the viewer
sees the deltas, which overlapping clicks may have recorded in either order.)

*Fairness.* The loop is polled, its queries end, and a request that has committed
goes on to record its delta and to notify (the handler holds no await that can be
cancelled there except by the end of the process).

*Bounds.* Viewer and targets are in the index, and requests on one target commit in
the order of their stamps; `TrustScores` and `TrustLog` have the other cases.

### Frontier

Announcing side: the snapshot in memory with its version, the fanout worker, the
announcements it spawns, a restart that loses the memory. Receiving side: the
guarded upsert, the ceilings, the replay of local trust edges towards the
announced keys, the delta path with its merge of ceilings, the bootstrap pull, and local edges signed
meanwhile. `PeerFollows`: until a restart a version names one
frontier, no announcement takes the stored version back (a delta, written without
the guard, can), and no trust edge towards a followed key is missed by both the
fanout and the replay. One key suffices, since keys do not
interact; two announcers, two handlers and one restart give the crossings.

### FrontierStore

Ingest of edges and `rebuild_reverse_frontier()` step by step: generation, walk,
admission cap, stubs, the two sweeps, the age ceilings. `StoreIsFrontier`: after an
undisturbed rebuild with room in the caps the store is what a definition by
reachability gives, a cap keeps the best of the sources offered, and a trust that
was taken back does not return because its withdrawal was swept. A rebuild may stop anywhere and another one start.

## An instance and its own users

### Accounts

Setup, signup and login ceremonies, the session middleware with its renewal and
the lazy end of a suspension, invites, moderation, self-deletion, and what an
account signs (a reply, a bio, a trust edge). Every request is a process with one
step per await outside a transaction. Fifteen sets of two to four requests are
the interesting overlaps: the same invite twice, a ban against a login, a
deletion against a reply, two first administrators, and so on. Much of the code
reads before it writes, so the properties say how far a stale read can carry
(`StaleReadsBounded`): a deleted account has no trust edge, what it still shows
was signed before the deletion, an invite is exceeded at most by the signups in
flight together, a ban ends only by an unban, a deletion or a request that had
read the account before, and no request starts for a deleted account.

### Attachments

The tables of blobs, staging rows, bindings and fetch failures under uploads,
thread creation, edits, retractions, removals, account and room deletion,
federated references, fetches on demand, the orphan GC and the cache eviction.
`AttachmentsStand`: no binding dangles, bytes match their hash, who binds
a file uploaded it, a retracted post stays blank and a deleted uploader forgotten
save for a request under way, the bytes a current post of ours binds stay, and
eviction is least-recently-used up to the floor. Two files shared by posts of two
local users and a remote one; eight sets of three to five requests.

### RateLimits

The five fixed-window limiters of the federation routes as one sender meets them:
entries are per sender, so another sender changes nothing. The route is drawn in
`Init` because the limiters share no state. Two full windows of three seconds and
a boundary, caps of two and three. `LimitsHold`: no interval of a
window's length admits more than twice the cap, sweep included, and once the byte
budget is used up only the responses being built are still charged. `served` is
history: the requests and bytes admitted up to each second. The clock does not run
backwards.

### RuntimeConfig

The row of `instance_config`, its mirrors on `AppState` behind a lock per group,
PATCH requests that take snapshots, validate, commit or fail, and then write the
mirrors one lock at a time; restarts; uploads that read the budget's parameters
before they debit. `ConfigSound`: no mirror is ahead of the row, the schedule
the rebuild loop reads is ordered, and a user never stores more than the largest
bucket and refill allow.

### Favorites and Reports

`Favorites` is one user's pinned rooms in two tabs while an admin deletes rooms:
`PinsDense` says that positions are dense (up to the gaps a deletion leaves until
the next renumbering) and within the cap. `Reports` follows three requests by two
users on one post while the author moves between the two instances and two admins
judge. `ReportsArrive`: a report that was answered is in a queue or under way, unless
the relay gave up or was turned away, or the author came home between the two looks at
the home; and a reporter counts in both queues only if the author moved.

## What a reader is shown

`Listing`, `ThreadView` and `RoomPages` model the read endpoints together with
the client that keeps their pages, because what can go wrong lies between two
requests: rows arrive, move and vanish while a reader pages.

- `Listing`: the sorts *new* and *active* (keyset pages), *warm* and *trusted*
  (scored pages with a cursor, the ids already seen, leftovers, a fetch limit and
  ranks), and the counters and recent repliers a reply keeps. `TripIsWhole`: a
  thread nobody touched and later than the cursor was returned, and once, and the last
  page completes the list. It excepts threads of the very second of a cursor, ties in
  *active*, threads returned before the last `MAX_SEEN_IDS` in the scored sorts, and a
  list that ends because all rows of a full page were hidden. Five threads, pages of two, candidates of three and four: hidden
  authors and ties in time cross page ends.
- `ThreadView`: visibility, order, the cut in depth and width, the focus path,
  the three endpoints, and the page that loads more and continues branches.
  `ThreadIsWhole`: while posts are only added no reply is skipped and the end shows
  all that could be reached, distrust never hides the reader's own post, and the
  announced count covers the view, but for the distrusted replies that are shown
  because the reader's own stand below them. All threads of three replies over three
  shapes, and a fourth that arrives. No two posts have the same time, and the fold of
  deep branches that the client makes by itself (`ReplyTree.svelte`) is left out.
- `RoomPages`: the three reads of a page (rooms and favorites, discovery scan,
  scoped scan), the sparkline, warmth and the cursor. `RoomsAreWhole`: a room that
  kept its score is not skipped, and a window of more than a day holds whole days
  unless a scan cut at its `LIMIT` saw no visible thread from before today.

## What is proved

Eight modules hold theorems; each extends the modules of its components, and every
theorem holds for any values of the constants that meet the assumptions named
here. The properties marked * are those the runs check on small instances.

| Module | Theorems | Assumed of the constants |
|---|---|---|
| `OutboundQueueProofs` | `TypeCorrect`, `NoWakeupIsLost` (`NoLostWakeup`*), `AtMostOneWorker` (`OneWorker`*), `BatchStaysVisible` (`BatchIsVisible`*), `ObjectsAreConserved`, `ReceiptsAreInOrder` (`FirstReceiptInOrder`*) | `OutboundConfig`: caps on objects and batches are positive, sizes are numbers, there are finitely many peers, names are disjoint |
| `OutboundBudgetProofs` | `BudgetIsKept`, `QueuesConserve` (`Conservation`*) | the same |
| `DeliveryProofs` | of Gossip: `FanoutStaysBounded` (`FanoutIsBounded`*) | `GossipConfig`: a candidate list names no peer twice and not the instance itself; caps and bounds are numbers |
| | of ChainWalk: `WalksAreExact` (`WalkIsExact`*) | `WalkConfig`: the rows that ever exist are finitely many pairs of numbers, a page holds a row |
| `HandshakeProofs` | of Peering: `HandshakesAgree` (`HandshakeAgrees`*), `EnvelopesActOnce` (`EachEnvelopeOnce`*) | `PeeringConfig`: there are two sides, bounds are numbers |
| `EdgeReceiverProofs` | `ChainStaysIntact` (`ChainIntact`*), `OrphansFollow` (`NoStrandedOrphan`*), `RevocationsStand` (`RevokedIsErased`*), `GapsAreFetchedOnce` (`GapsFetchedOnce`*) | `EdgeConfig`: `Prior` maps edges to edges or none, pages are not empty, bounds are numbers, names are disjoint |
| `FederationProofs` | of Moves: `HomeIsAlwaysLatest`, `GenesisNeverChanges`, `HomeAlwaysFollowsMoves` (`HomeFollowsMoves`*), `MovesImplementRegister` (`ImplementsRegister`*) | `MovesAssumption`: times and hashes are integers, two moves have different hashes |
| | of Registration: `OneAccount`, `StubKeepsItsId`, `DenialIsFinal`, `RegistrationIsSound` (`RegistrationSound`*) | none |
| | of Status: `ChainsAreWhole`, `ReceiversConverge`, `LockFollowsHead`, `InstancesConverge` (`StatusConverges`*) | `Placed`: issuers and pushes are placed at instances |
| `TrustProofs` | of TrustOverlay: `PurgeLosesNoClick` (`PurgedIsReflected`*) | none |
| | of TrustLog: `LogStaysLinear` (`LogIsLinear`*) | `LogConfig`: ranks and bounds are numbers |
| | of Interest: `FiltersMissNothing`, `FreshPeeringFiltered`, `FiltersAreSound` (`FiltersSound`*) | `FilterParams`: hashes are numbers, the filter has a bit; `ParamsOk`: parameters the code accepts |
| `HomeProofs` | of RuntimeConfig: `ScheduleStaysOrdered`, `MirrorsNeverAhead`, `SpendStaysBounded`, `ConfigStaysSound` (`ConfigSound`*) | `ConfigValues`: the seeded row is ordered, settings and sizes are numbers, a day has a tick |
| | of RateLimits: `LimitsAlwaysHold` (`LimitsHold`*) | `LimitConfig`: the window and the byte budget are positive, caps, batches and sizes are numbers |

The arguments, and why the properties need strengthening:

- **OutboundQueue** (`ControlInv`). `NoLostWakeup` accepts a worker in `take` as
  one that is going to look, but that worker is past its checks, and if it finds
  the queue empty it parks without having seen a *stop*; and nothing in it says
  that a caller whose clone of `wake` is live has an entry in the map. The
  strengthening has five parts: `CallerInv` (a live clone implies an entry; a
  spawner's queue is marked spawned), `EntryInv` (an absent entry has fresh
  fields; `worker_spawned` implies a worker or a spawner), `WorkerInv` (who holds
  the mutex, a batch and the in-flight flag), `StopInv` (a stop request needs a
  check still to come, a permit, or a caller that owes a notification) and
  `ItemsInv` (a queued object needs a worker that has not decided to park yet, a
  permit, a sleep or a caller). The proof goes action by action; steps that leave
  the control state alone are covered by two frame lemmas.
- **OutboundQueue, its objects** (`ContentInv`). That a first receipt is in order says
  nothing of what is queued, and a requeued batch goes in front of younger objects.
  `LineInv` says that a batch is older than what is queued behind it and both are in
  order, `CarryInv` that only the holder of the mutex carries an object and that it is
  the youngest, `ApartInv` that no object is pending for two peers, `LedgerInv` that
  what was enqueued is queued, carried or settled, in one place, and `ReceiptInv` that
  what a peer has not seen is younger than all it has.
- **OutboundQueue, its bytes** (`BudgetInv`, `TotalInv`). Sums are recursive functions;
  what appending, dropping the head and putting in front do to a sum is shown by an
  induction that the module derives from the well-foundedness of `<` for sets of
  numbers. A peer's counter is the sum over its queue, and the total is the sum over the
  peers along any enumeration of them.
- **Gossip** (`GossipInv`). A fanout picks the first candidates that are neither
  the sender nor marked; numbering them by their rank shows that there are at most
  as many as there is room under the cap (`PicksAreFew`). `Books` says what the
  entries and the counters mean together: every entry is finite and within the
  cap, and a peer was sent one copy per entry that marks it. `Heard` ties a thread
  to the copy it took off the wire, which is why nothing goes back to the only
  source even when two threads and a replaced entry overlap.
- **Peering, the handshake** (`HandshakeInv`). `HandshakeAgrees` compares two rows
  that are written at different times from messages that may be old. The invariant
  relates both to what was ever sent: ids of requests grow with the envelopes and an
  acceptance answers a request that was handled (`WireInv`); an outbound row stands
  for the last request of its side with no acceptance after it, an inbound one for a
  request that was handled (`RowOk`); an active row was accepted by the other side,
  or by this one in its last acceptance, which the other answered with 200
  (`ActiveOk`); an operator who waits for that answer has sent no later acceptance
  (`OpOk`). `Good` is what such an answer guarantees however late it is read: the
  side that asked has left the state in which it waits for this request. Every action is either
  quiet (`QuietStep`, a frame lemma) or sends one envelope (`InitiateStep`,
  `AcceptStep`, `CommitStep`) or reads one (`RequestStep`, `AnswerStep`).
- **Peering, the envelopes** (`CacheInv`). An envelope that is still inside the clock
  window and was handled is in the cache, and an entry is less than a window older
  than those before it. So if a young envelope were evicted, more envelopes than the
  cache has places would lie within two windows (`FewNeighbours`), against
  `CacheCovers`, the condition under which both properties are stated.
- **ChainWalk** (`WalkInv`). The rank of a row among the rows after the cursor is
  strictly increasing and takes every value below their number (`RankGrows`,
  `RankOnto`), so a page of rank below the limit is full or is everything there
  is. What was servable since the walk began and is not past the cursor has been
  delivered, and once; nothing past it has. For lookups, every hash owed is still to be
  read or in exactly one of the arrays.
- **EdgeReceiver** (`TablesInv`). The properties speak of the committed tables,
  which a commit replaces by the transaction's, so the invariant holds of both.
  `Good(d, p)` says that tables `d` are well-typed, one chain (`Intact`), and
  settled except for the orphans of `p`: while the drain is under way the edge at
  its head is the one exception (`Settled`). One lemma per outcome of the
  projection shows that it keeps `Good` and never loses a stored object
  (`Keeps`), which the re-attempt of an edge read before the transaction needs.
  `RevokedInv` adds that in both tables the ancestors of a projected revocation are
  erased; ancestors are projected before it, so an insertion below an old
  revocation is impossible and a new one erases all there are. `FetchInv` adds that
  a gap somebody fetches, or is about to fetch, is *covered* by a projected edge or
  a buffered orphan, and that only an orphan that finds its gap uncovered asks.
- **Moves** (`MovesInv`, `ResidenceInv`). What is stored and what requests carry are
  moves, no genesis is on file before a move, the home is the latest of the stored
  moves and all agree on the genesis. That the latest wins is an order argument: the
  hash breaks ties, so of two moves one beats the other. The refinement maps every
  step to a `Learn`, a `Force` or a stutter. `ResidenceInv` adds the users row, the
  keys and the sessions, and `InTime` that no stored move lies beyond the skew,
  without which the home in force now could differ from the latest.
- **Registration** (`AccountInv`, `DenialInv`). An account of the key exists once a
  registration was committed; a request whose declared home said no is on its way
  to the transaction with no source.
- **TrustOverlay** (`PurgeInv`). A request draws its sequence number after its
  commit and the loop takes its mark before its reads, so a delta numbered up to
  the mark was committed before the reads: `Committed` and `Reflects` carry this
  through the two reads, the swap and the purge.
- **TrustLog** (`LogInv`). Stamps need not grow along the log, so a row's predecessor
  need not be the row before it. What is inductive is that each row cites the row that
  the query found among those written before it (`Cites`), that hashes are distinct, and
  that there is a row for the query and for the view to find. From that a fork can only
  be behind the row it cites (`ForkIsBehind`): a row that is not behind wins
  the query of the next one.
- **Interest** (`CoverInv`, `ModeInv`). The filter of the row, and of the message
  being applied, contains the positions of all keys it stands for; OR-ing a mask
  keeps them, and the sentinel of all-ones contains everything.
- **RuntimeConfig** (`OrderInv`, `AheadInv`, `SpendInv`). The row and the mirrors are
  ordered, and so is the candidate a request still has to write; what a committed
  request still has to mirror was in the row. For the budget, what a user spent and
  has left, times the ticks of a day, is at most the largest bucket plus the largest
  refill for the ticks gone by: each refill rounds down and never credits a tick twice.
- **RateLimits** (`LimitInv`). The property speaks of every interval, the code of the
  current window only. `Bounded` says that every interval up to now holds at most two
  caps, `Counted` that the entry counts what was admitted since it started and that the
  window before it saw at most a cap, `Quiet` that a limiter without an entry admitted
  nothing in this second and at most one cap within the last window. An expired entry is quiet, so a new window starts from there
  whether the sweep ran or not.
- **Status** (`ChainInv`, `HeadInv`, `LockInv`). Every object's predecessor has the
  same subject and is held wherever the object is; heads are held; the head beats
  all received objects, since the order by (time, hash) is total; the lock is
  written in the transaction that moves the head.

*Only model-checked.*

- Liveness (`QueuesEmpty`, `GossipCarriesTheRest`, `GapsHeal`, `Settles`): it rests
  on fairness, which the prover does not handle.
- `WalksAgree`, `StoreIsFrontier`, `RecoveryIsComplete`, `TripIsWhole`,
  `ThreadIsWhole`, `RoomsAreWhole`: what recursive walks over graphs, pages and trees
  compute, for which induction over data would be needed.
- `ContentConverges`, `ErasureStands`, `PeerFollows`, `StaleReadsBounded`,
  `AttachmentsStand`, `ReportsArrive`, `PinsDense`: nothing stands in the way of a
  proof but its length; they are checked on the instances described above.

## Findings

Each is a run that ends in a counterexample.

1. `trustlog_fork`: three mutations of a pair within one second can give two
   edges the same `prior_edge_hash`, because ties in a second are broken by hash
   and not by order of writing. So can a mutation that is stamped first and commits
   last, since the stamp is taken before the write lock. The transaction in `users.rs` is there to prevent
   a fork.
2. `edges_revoke`: a revocation erases its predecessors at the home, and
   backfill serves only rows with a payload. A receiver that misses the
   predecessor buffers the revocation and never projects it, although
   `edge_backfill.rs` says the missing predecessor is in the response.
3. `favorites_race`: `favorite_room()` resolves the room before its transaction.
   A `delete_room()` in between leaves a pinned row of a deleted room, which the
   listing skips and the reordering demands: what the reaping in `admin.rs` is
   there to prevent.

## Observations

Places where the code does less than a comment nearby says, seen while modelling.
No run is devoted to them; the properties state what does hold.

- `requeue_front()` looks at no cap, so a queue refilled during a request exceeds
  `bytes_per_peer`, which `config/src/lib.rs` calls a hard ceiling. `Conservation`
  bounds the excess by the objects of one batch.
- An edge stored while its source was unknown is not in the orphan buffer. If its
  predecessor arrives after the sweep that the profile triggers, nothing projects
  it, although `edges.rs` says that the sweep catches it up.
- The erasure of a retraction reaches the revisions that are projected; one that
  is stored and waits for its thread keeps its bytes (`content.rs`: "erase every
  post-rev payload").
- The version of the announced frontier is kept in memory. After a restart the
  peer refuses announcements until the counter has passed the one it remembers,
  so a missed announcement heals later than `spawn_first_contact_announce` says.
- A blob that is staged and not yet bound can be evicted from the cache and bound
  afterwards, so local bytes can be absent where `serve.rs` says they never are.
- Two first administrators who complete setup at once both succeed, since the
  check in `setup.rs` and the insert are not one transaction.
- The lazy end of a suspension writes `active` for an account it read earlier and
  can undo a ban made in between; `StaleReadsBounded` allows just that.
- An edit that read its post before a retraction leaves a body in a retracted
  post; `AttachmentsStand` allows it for a request that crossed.
- The deletion of an account blanks its posts but keeps their bindings, and with them
  the blobs, although `privacy.rs` says that the retraction loop "already dropped every
  `post_attachments` row" and `bind.rs` counts `soft_delete_user` among the callers that
  leave blobs to collect.
- `attachment_fetch.rs` says that a `'mismatch'` row "stays terminal even if a later
  attempt is transient"; the upsert sets `kind = excluded.kind`, so that it does not.
- The header of `content_rate_limit.rs` says that a peer may burst "slightly over" at a
  window's end, "bounded by `MAX_CONTENT_BATCH` per push". Fixed windows admit up to
  twice the cap in an interval of a window's length, which is the bound `LimitsHold`
  states for all five limiters.
- `trust.rs` promises the viewer immediate feedback on a click. A viewer or target the
  cached graph does not know yet gets none before the next rebuild.
- Between two of its queries the rebuild can see both a trust and a distrust
  edge of a pair, which `has_distrust_edge()` calls impossible.
- A PATCH writes back its whole snapshot of a group, so of two overlapping ones
  the later restores the fields that the earlier changed, and a mirror can differ
  from the row until the next write; `get_config()` says they are in sync.
- The cursor of the sort *active* leaves out the second key of its order, so a
  tie at a page end repeats or skips threads. In the scored sorts a leftover of the
  cursor's very second is skipped, although `build_warm_cursor()` says that the next
  page's window includes all leftovers; the cursor carries the last 200 ids seen, so
  that threads seen before them come back on a long trip; and a full page whose rows are
  all hidden ends the list. `TripIsWhole` excepts these.
- The reply count of the listing covers what the page shows but for distrusted replies
  above the reader's own (`ThreadIsWhole`), and may exceed it.
- `rooms.rs` says that "every returned bucket is complete". A window of one day need not
  be, nor one whose scan was cut and saw no visible thread from before today;
  `RoomsAreWhole` excepts both.
- A report is answered with 201 and stored nowhere if the author comes home between the
  read of the home and the dispatch, and after a move a reporter may be in the queues of
  both homes. `ReportsArrive` excepts both.

## What is not modelled, and why

- *Canonical CBOR, Ed25519, WebAuthn, image processing, MIME sniffing:* encodings
  and libraries without state of their own. A bad signature is an input that is
  refused.
- *Transport, domains, identity, routers, errors:* HTTP input and output and
  string parsing. Their failures (refused, lost, late, delivered twice) are inputs
  of the models.
- *Per-address limits, CSRF, CSP reports, validation of names, metrics:* filters
  without state or with a third party's.
- *Search, overviews, watch lists, links, export, the listings of the
  administration, the tab bar and the room search:* read-only queries without a
  cursor that survives a request, over tables the other modules keep.
- *Start-up, configuration file, command line, benchmarks:* wiring; the values
  that matter are constants of the modules.
- *The rest of the web client:* renders answers of the API. The three pages that
  keep a list across requests are modelled.
- *Floating point:* scores are exact integers in `TrustScores`; the combination
  of path groups into one number, a monotone function of them, is left out. So are
  the sizing formulas of the filters, of which only the results matter.
- *Result caches of the trust graph:* keyed by graph and sequence number, they
  hold what a recomputation would give.
